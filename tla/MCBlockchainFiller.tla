-------------------------- MODULE MCBlockchainFiller --------------------------
(***************************************************************************)
(* Instances of BlockchainFiller.  A block is the list, from the genesis   *)
(* to it, of kinds and uncles; every block has difficulty 1.               *)
(***************************************************************************)
EXTENDS BlockchainFiller, SequencesExt

CONSTANT Depth   \* bound on the length of a history

\* Two networks: chains "A" and "B" are on the canonical one, "C" is not.
Names == {"A", "B", "C"}
Nets == [n \in Names |-> IF n = "C" THEN "side" ELSE "canon"]

\* p, q: plain; t: changed after mining; x: changed and invalid; s: plain,
\* invalid on the canonical network; w: changed, invalid on the side network;
\* r: raw, declared invalid on the canonical network only; i: declared invalid, by
\* its uncles; u: mined to be an uncle; v: an uncle that is changed.
Kinds == {"p", "q", "t", "x", "s", "w", "r", "i", "u", "v"}
BadNets == [k \in Kinds |->
    CASE k \in {"x", "i"} -> {"canon", "side"}
      [] k \in {"s", "r"} -> {"canon"}
      [] k = "w" -> {"side"}
      [] OTHER   -> {}]

Child(h, k, us) == Append(h, [kind |-> k, uncles |-> us])
Plain(h, k) == Child(h, k, << >>)

\* Without uncles: blocks are built on blocks a client may have accepted, and
\* uncles are mined on them.
Extended(hs) ==
    hs \cup {Plain(h, k) : h \in {g \in hs : \A i \in DOMAIN g : g[i].kind \notin {"x", "r", "u"}},
                           k \in Kinds \ {"i", "v"}}

Histories[n \in 0 .. Depth] == IF n = 0 THEN {<< >>} ELSE Extended(Histories[n - 1])

\* With uncles: chains of p and chains of q, of which the second block may cite the
\* uncle mined on the genesis, and the same uncle changed.
FirstUncle(changed) == Plain(<< >>, IF changed THEN "v" ELSE "u")
GoodUncles == {<< >>, << FirstUncle(FALSE) >>, << FirstUncle(FALSE), FirstUncle(TRUE) >>}
Parents == {<< >>} \cup {Plain(<< >>, k) : k \in {"p", "q"}}
                   \cup {Child(Plain(<< >>, k), k, us) : k \in {"p", "q"}, us \in GoodUncles}
Candidates == {Plain(g, k) : g \in Parents, k \in {"u", "v"}}
CitedLists ==
    {<< >>} \cup {<< h >> : h \in Candidates \cup Parents}
            \cup {<< h, h >> : h \in Candidates}
            \cup {<< Plain(g, "u"), Plain(g, "v") >> : g \in Parents}
WithUncles == {Child(g, k, us) : g \in Parents, k \in {"p", "q", "x", "i"}, us \in CitedLists}

AllPaths == Histories[Depth] \cup Candidates \cup WithUncles
              \cup {Plain(h, "u") : h \in {g \in WithUncles : Last(g).kind \in {"p", "q"}}}
PathParent == [h \in AllPaths |-> IF h = << >> THEN h ELSE Front(h)]
PathHash == DOMAIN PathParent
PathNumber == [h \in PathHash |-> Len(h)]
PathDifficulty == [h \in PathHash |-> 1]
PathUncles == [h \in PathHash |-> IF h = << >> THEN << >> ELSE Last(h).uncles]
PathHeaderOK == [h \in PathHash |-> TRUE]
PathAncestors == [h \in PathHash |-> {SubSeq(h, 1, i) : i \in 0 .. Len(h)}]
PathTotal == [h \in PathHash |-> Len(h) + 1]
Root == << >>

Ask(chain, number, kinds, hidden) ==
    [chain |-> chain, number |-> number, kinds |-> kinds, uncles |-> << >>,
     split |-> Len(kinds) > 1, hidden |-> hidden]

\* On every chain, with a number, without one and with number 0, plain, changed
\* and invalid blocks, one block that is split at its second invalid transaction,
\* and one whose exception does not come.
AllBlocks ==
    {Ask(c, n, ks, FALSE) : c \in {"A", "B"}, n \in {NoNumber, 1, 2},
                            ks \in {<<"p">>, <<"t">>, <<"x">>, <<"x", "p">>}}
      \cup {Ask("C", n, ks, FALSE) : n \in {NoNumber, 1}, ks \in {<<"p">>, <<"s">>, <<"w">>}}
      \cup {Ask(c, 0, <<"p">>, FALSE) : c \in {"A", "B"}}
      \cup {Ask("A", NoNumber, ks, FALSE) : ks \in {<<"r">>, <<"s">>}}
      \cup {Ask("C", NoNumber, <<"r">>, FALSE), Ask("A", 2, <<"q">>, FALSE), Ask("A", NoNumber, <<"p">>, TRUE)}

Section(as, index, chain, changed) ==
    [as |-> as, index |-> index, chain |-> chain, changed |-> changed]
From(n) == Section("populateFromBlock", n, OwnChain, FALSE)
ChangedFrom(n) == Section("populateFromBlock", n, OwnChain, TRUE)
FromChain(c, n) == Section("populateFromBlock", n, c, FALSE)
SameAs(as, n) == Section(as, n, OwnChain, FALSE)

\* Uncles that fit, uncles that are too young, of the other chain, or of a chain made
\* late, and uncles that are a block, cited before or cited twice.
UncleLists ==
    {<< From(0) >>, << From(1) >>, << From(0), ChangedFrom(0) >>,
     << FromChain("A", 0) >>, << FromChain("B", 0) >>, << FromChain("A", 1) >>}
BadUncleLists ==
    {<< From(1) >>, << From(0), SameAs("sameAsPreviousSibling", 1) >>,
     << SameAs("sameAsBlock", 1) >>, << SameAs("sameAsPreviousBlockUncle", 2) >>}

KindOn(c) == IF c = "A" THEN "p" ELSE "q"
UncleBlocks ==
    {Ask(c, n, << k >>, FALSE) : c \in {"A"}, n \in {NoNumber, 1, 2}, k \in {"p", "x"}}
      \cup {Ask("B", n, << "q" >>, FALSE) : n \in {NoNumber, 1, 2}}
      \cup {[Ask(c, n, << KindOn(c) >>, FALSE) EXCEPT !.uncles = us] : c \in {"A", "B"}, n \in {NoNumber, 2}, us \in UncleLists}
      \cup {[Ask(c, NoNumber, << "i" >>, FALSE) EXCEPT !.uncles = us] : c \in {"A", "B"}, us \in BadUncleLists}

AllTests == [u \in BOOLEAN |-> IF u THEN UncleBlocks ELSE AllBlocks]

\* The same chain goes back by number after an invalid block.
RestoreBlocks == [u \in BOOLEAN |-> {Ask("A", n, ks, FALSE) : n \in {NoNumber, 2}, ks \in {<<"p">>, <<"x", "p">>}}]

\* A block that is not to be imported, and a second chain.
HiddenBlocks == [u \in BOOLEAN |-> {Ask("A", NoNumber, <<"p">>, TRUE), Ask("B", 1, <<"q">>, FALSE)}]
=============================================================================
