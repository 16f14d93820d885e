----------------------------- MODULE MCToolChain -----------------------------
(***************************************************************************)
(* Instances of ToolChain: small tables of blocks from which the constant  *)
(* functions of Blocks are read.                                           *)
(***************************************************************************)
EXTENDS ToolChain

B(parent, number, difficulty, uncles, ok) ==
    [parent |-> parent, number |-> number, difficulty |-> difficulty,
     uncles |-> uncles, ok |-> ok]

\* Two branches that overtake each other: b2 is harder than a2, a3 makes the
\* a branch win again; a2 cites b1, x2 has a wrong number, y2 a wrong header.
\* p3 and q3 follow b2 and add no difficulty: of chains with equal totals the first
\* leads; p4, on such a chain, has a wrong header.
ForkTable ==
    [h \in {"g", "a1", "b1", "a2", "b2", "a3", "x2", "y2", "p3", "q3", "p4"} |->
        CASE h = "g"  -> B("g", 0, 2, << >>, TRUE)
          [] h = "a1" -> B("g", 1, 2, << >>, TRUE)
          [] h = "b1" -> B("g", 1, 2, << >>, TRUE)
          [] h = "a2" -> B("a1", 2, 2, <<"b1">>, TRUE)
          [] h = "b2" -> B("b1", 2, 3, << >>, TRUE)
          [] h = "a3" -> B("a2", 3, 2, << >>, TRUE)
          [] h = "x2" -> B("a1", 3, 2, << >>, TRUE)
          [] h = "y2" -> B("b1", 2, 2, << >>, FALSE)
          [] h = "p3" -> B("b2", 3, 0, << >>, TRUE)
          [] h = "q3" -> B("b2", 3, 0, << >>, TRUE)
          [] h = "p4" -> B("p3", 4, 0, << >>, FALSE)]

\* A line of eight blocks with uncles u1 and v1 of number 1, cited in every way: in
\* time, one generation too late, twice in a branch, twice in a block, three at
\* once, an ancestor, a block as old as its citer, an uncle of a stranger.
UncleTable ==
    [h \in {"g", "a1", "a2", "a3", "a4", "a5", "a6", "a7", "a8", "u1", "v1", "w2",
            "ok7", "late8", "two8", "same3", "three3", "anc3", "twin2", "far3"} |->
        CASE h = "g"  -> B("g", 0, 1, << >>, TRUE)
          [] h = "a1" -> B("g", 1, 1, << >>, TRUE)
          [] h = "a2" -> B("a1", 2, 1, << >>, TRUE)
          [] h = "a3" -> B("a2", 3, 1, << >>, TRUE)
          [] h = "a4" -> B("a3", 4, 1, << >>, TRUE)
          [] h = "a5" -> B("a4", 5, 1, << >>, TRUE)
          [] h = "a6" -> B("a5", 6, 1, << >>, TRUE)
          [] h = "a7" -> B("a6", 7, 1, << >>, TRUE)
          [] h = "a8" -> B("a7", 8, 1, << >>, TRUE)
          [] h = "u1" -> B("g", 1, 1, << >>, TRUE)
          [] h = "v1" -> B("g", 1, 1, << >>, TRUE)
          [] h = "w2" -> B("u1", 2, 1, << >>, TRUE)
          [] h = "ok7"    -> B("a6", 7, 1, <<"u1", "v1">>, TRUE)
          [] h = "late8"  -> B("a7", 8, 1, <<"u1">>, TRUE)
          [] h = "two8"   -> B("ok7", 8, 1, <<"u1">>, TRUE)
          [] h = "same3"  -> B("a2", 3, 1, <<"u1", "u1">>, TRUE)
          [] h = "three3" -> B("a2", 3, 1, <<"u1", "v1", "w2">>, TRUE)
          [] h = "anc3"   -> B("a2", 3, 1, <<"a1">>, TRUE)
          [] h = "twin2"  -> B("a1", 2, 1, <<"a2">>, TRUE)
          [] h = "far3"   -> B("a2", 3, 1, <<"w2">>, TRUE)]

CONSTANT Table

TableHash == DOMAIN Table
TableParentOf == [h \in TableHash |-> Table[h].parent]
TableNumberOf == [h \in TableHash |-> Table[h].number]
TableDifficultyOf == [h \in TableHash |-> Table[h].difficulty]
TableUnclesOf == [h \in TableHash |-> Table[h].uncles]
TableHeaderOK == [h \in TableHash |-> Table[h].ok]

RECURSIVE History(_)
History(h) == IF h = "g" THEN {"g"} ELSE History(Table[h].parent) \cup {h}

RECURSIVE Total(_)
Total(h) == Table[h].difficulty + (IF h = "g" THEN 0 ELSE Total(Table[h].parent))

TableAncestors == [h \in TableHash |-> History(h)]
TableTotalOf == [h \in TableHash |-> Total(h)]
=============================================================================
