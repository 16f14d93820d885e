----------------------- MODULE BlockchainRestoreProofs -----------------------
(***************************************************************************)
(* For any chains, networks and blocks of a filler: a block is mined on a  *)
(* client that holds the chain the block belongs to, exactly as long as    *)
(* its blocks are valid, and with invalid ones too unless a block before   *)
(* went back over one; the uncles that were mined beside the blocks can be *)
(* cited; the test that was filled passes when it is run; and each label   *)
(* is put at its block.                                                    *)
(***************************************************************************)
EXTENDS BlockchainFillerProofs, ToolChainRefinement

-----------------------------------------------------------------------------
(* What the client holds *)

\* The phases in which a test is filled.
Filling == phase \in {"parse", "uncles", "make", "postmine"}

\* The i-th block is the last one of V among the first k.
IsLast(V, k, i) == i \in 1 .. k /\ i \in V /\ \A j \in i + 1 .. k : j \notin V

\* A client of this network accepts the block when it has its parent.
Accepted(h, net) ==
    /\ KindIn(h) \notin RawKinds
    /\ Tree!ValidBlock(h)
    /\ KindIn(h) \in UncleKinds \/ ~ Invalid(KindIn(h), net)

\* A client of the network that imports the list holds the blocks at V: a block goes
\* on the last one it holds, and is held when the client accepts it; or its parent is
\* no block that is held, and neither is it.
Imported(V, L, net) ==
    /\ 1 \in V
    /\ \A j \in 2 .. Len(L) : \E i \in 1 .. j - 1 :
          /\ IsLast(V, j - 1, i)
          /\ \/ /\ ParentOf[L[j].hash] = L[i].hash
                /\ j \in V <=> Accepted(L[j].hash, net)
             \/ /\ j \notin V
                /\ \A k \in 1 .. j - 1 : k \in V => ParentOf[L[j].hash] # L[k].hash

\* The filler knows which blocks these are: all along the list if it is careful, and up
\* to the first invalid block in any case.
AsMade(V, L, careful) ==
    \A i \in 1 .. Len(L) : (careful \/ \A j \in 1 .. i : L[j].valid) => (i \in V <=> L[i].valid)

Account(V, L, net, careful) == ChainFits(L) /\ Imported(V, L, net) /\ AsMade(V, L, careful)

\* No import was ever made that cloned a chain.
ClientSingle ==
    /\ currentChain = 0 /\ maxChains = 0
    /\ chains = [c \in {0} |-> chains[0]]
    /\ GoodChain(chains[0])

\* The first k blocks of the list bring a client to the chain c.
TipIs(c, V, L, k) == \E i \in 1 .. k : IsLast(V, k, i) /\ Tip(c).hash = L[i].hash

\* The client has the last block of the list that it can hold; it is the head, if it
\* must be exact.
AtEnd(c, V, L, exact) ==
    \E i \in 1 .. Len(L) : /\ IsLast(V, Len(L), i)
                           /\ L[i].hash \in Hashes(c)
                           /\ exact => Tip(c).hash = L[i].hash

\* The calls are the imports of the last blocks of the list; those before them
\* were made.
Replaying(c, calls, V, L) ==
    LET T == Len(calls) N == Len(L) IN
    /\ T <= N - 1
    /\ \A i \in 1 .. T : calls[i] = ImportOf(L[N - T + i].hash)
    /\ TipIs(c, V, L, N - T)

\* The client will be wound back to the genesis, and the list imported.
Preparing(calls, L) ==
    \E r \in 1 .. Len(calls) :
        /\ Len(calls) = r + Len(L) - 1
        /\ calls[r] = RewindTo(0)
        /\ \A i \in 1 .. r - 1 : IsReset(calls[i]) \/ calls[i] = Probe
        /\ \A i \in 1 .. Len(L) - 1 : calls[r + i] = ImportOf(L[i + 1].hash)

\* The client will be wound back, not beyond the last block of the list that it can
\* hold; to that one, if it must be exact.
GoingBack(c, calls, V, L, exact) ==
    \E n \in Nat :
        /\ calls = << RewindTo(n) >>
        /\ \E i \in 1 .. Len(L), p \in 1 .. Len(c) :
              /\ IsLast(V, Len(L), i) /\ c[p].hash = L[i].hash
              /\ p <= n + 1 /\ (exact => p = n + 1)

\* At most an uncle is left to mine.
Resting(c, calls, V, L, exact) == calls \in {<< >>, << Probe >>} /\ AtEnd(c, V, L, exact)

\* The calls that are left bring the client to the end of the list.
Left(c, calls, V, L, exact) ==
    \/ Replaying(c, calls, V, L)
    \/ Preparing(calls, L)
    \/ GoingBack(c, calls, V, L, exact)
    \/ Resting(c, calls, V, L, exact)

\* Every chain can be imported again, as far as its blocks are ones a client accepts;
\* the client is brought to the end of the one in use, exactly if all its blocks are
\* valid or the filler is careful.
RestoredInv(careful) ==
    Filling =>
        /\ ClientSingle
        /\ \A n \in DOMAIN named : \E V : Account(V, named[n], NetOf[n], careful)
        /\ \E V : /\ Account(V, named[currentName], NetOf[currentName], careful)
                  /\ Left(chains[0], todo, V, named[currentName], careful \/ Made(named[currentName]))

\* The client has one block more.
GrownBy(h) ==
    /\ ClientSingle'
    /\ Len(chains'[0]) = Len(chains[0]) + 1
    /\ \A i \in 1 .. Len(chains[0]) : chains'[0][i] = chains[0][i]
    /\ chains'[0][Len(chains[0]) + 1].hash = h

-----------------------------------------------------------------------------
(* A client with one chain *)

\* What a client with one chain holds.
LEMMA SingleGood ==
    ASSUME ClientSingle
    PROVE  /\ DOMAIN chains = {0} /\ GoodChains(chains, 0)
           /\ Len(chains[0]) \in Nat \ {0}
           /\ DOMAIN chains[0] = 1 .. Len(chains[0])
           /\ HeadBlock = Tip(chains[0]).hash
           /\ HeadBlock \in Hash
           /\ \A i \in 1 .. Len(chains[0]) : /\ chains[0][i].hash \in Hash
                                              /\ NumberOf[chains[0][i].hash] = i - 1
<1>1. GoodChain(chains[0]) /\ currentChain = 0 /\ chains = [c \in {0} |-> chains[0]]
  BY DEF ClientSingle
<1>2. DOMAIN chains = {0} /\ 0 .. 0 = {0}
  BY <1>1
<1>3. GoodChains(chains, 0)
  BY <1>1, <1>2 DEF GoodChains
<1>4. /\ Len(chains[0]) \in Nat \ {0}
      /\ DOMAIN chains[0] = 1 .. Len(chains[0])
      /\ \A i \in 1 .. Len(chains[0]) : chains[0][i].hash \in Hash
  BY <1>1, GoodChainElements
<1>5. \A i \in 1 .. Len(chains[0]) : NumberOf[chains[0][i].hash] = i - 1
  BY <1>1 DEF GoodChain
<1>6. HeadBlock = Tip(chains[0]).hash /\ HeadBlock \in Hash
  BY <1>1, <1>4 DEF HeadBlock, Tip
<1> QED BY <1>2, <1>3, <1>4, <1>5, <1>6

\* A chain in the place of the one the client has.
LEMMA SingleAgain ==
    ASSUME ClientSingle, NEW chain, GoodChain(chain), chains' = [chains EXCEPT ![0] = chain],
           UNCHANGED <<currentChain, maxChains>>
    PROVE  ClientSingle' /\ chains'[0] = chain
<1>1. chains = [c \in {0} |-> chains[0]] /\ currentChain = 0 /\ maxChains = 0
  BY DEF ClientSingle
<1>2. chains' = [c \in {0} |-> chain]
  BY <1>1
<1>3. chains'[0] = chain /\ chains' = [c \in {0} |-> chains'[0]]
  BY <1>2
<1> QED BY <1>1, <1>3 DEF ClientSingle

\* test_setChainParams starts with one chain.
LEMMA ResetSingle == ASSUME SetChainParams PROVE ClientSingle'
<1>1. chains' = [c \in {0} |-> NewChain] /\ currentChain' = 0 /\ maxChains' = 0
  BY DEF SetChainParams
<1>2. chains'[0] = NewChain /\ chains' = [c \in {0} |-> chains'[0]]
  BY <1>1
<1> QED BY <1>1, <1>2, NewChainGood DEF ClientSingle

\* A rewind within the chain puts the block of that number on the tip.
LEMMA RewindSingle ==
    ASSUME ClientSingle, NEW n \in 0 .. Len(chains[0]) - 1, Rewind(n)
    PROVE  /\ ClientSingle' /\ Tip(chains'[0]).hash = chains[0][n + 1].hash
           /\ \A i \in 1 .. n + 1 : chains[0][i].hash \in Hashes(chains'[0])
<1> DEFINE short == SubSeq(chains[0], 1, n + 1)
<1>1. GoodChain(chains[0]) /\ currentChain = 0 /\ Len(chains[0]) \in Nat \ {0}
  BY SingleGood DEF ClientSingle
<1>2. n < Len(chains[0]) /\ n + 1 \in 1 .. Len(chains[0]) /\ n + 1 \in 1 .. n + 1
  BY <1>1
<1>3. RewindToBlock(n)
  BY <1>1, <1>2 DEF Rewind
<1>4. chains' = [chains EXCEPT ![0] = short] /\ UNCHANGED <<currentChain, maxChains>>
  BY <1>1, <1>3 DEF RewindToBlock, Rewound
<1>5. /\ GoodChain(short) /\ Len(short) = n + 1 /\ short[n + 1] = chains[0][n + 1]
      /\ \A i \in 1 .. n + 1 : short[i] = chains[0][i]
  BY <1>1, <1>2, PrefixGood
<1> HIDE DEF short
<1>6. ClientSingle' /\ chains'[0] = short
  BY <1>4, <1>5, SingleAgain
<1>7. \A i \in 1 .. n + 1 : short[i].hash \in Hashes(short)
  BY <1>5, GoodChainElements DEF Hashes
<1> QED BY <1>5, <1>6, <1>7 DEF Tip

\* A block on the tip is imported without a clone.
LEMMA NoClone ==
    ASSUME ClientSingle, NEW p, p = Tip(chains[0]).hash
    PROVE  /\ Holders(p) # {}
           /\ OnParent(p) = [chains |-> chains, current |-> 0, max |-> 0]
<1> DEFINE n == Len(chains[0])
<1>1. /\ DOMAIN chains = {0} /\ n \in Nat \ {0} /\ DOMAIN chains[0] = 1 .. n
      /\ \A i \in 1 .. n : NumberOf[chains[0][i].hash] = i - 1
      /\ maxChains = 0
  BY SingleGood DEF ClientSingle
<1>2. n \in 1 .. n /\ p = chains[0][n].hash
  BY <1>1 DEF Tip
<1>3. p \in Hashes(chains[0])
  BY <1>1, <1>2 DEF Hashes
<1>4. Holders(p) = {0}
  BY <1>1, <1>3 DEF Holders
<1>5. FirstHolder(p) = 0
  BY <1>4 DEF FirstHolder
<1>6. \A i \in 1 .. n : chains[0][i].hash = p => i = n
  BY <1>1, <1>2
<1>7. (CHOOSE i \in DOMAIN chains[0] : chains[0][i].hash = p) = n
  BY <1>1, <1>2, <1>6
<1> QED BY <1>1, <1>4, <1>5, <1>7 DEF OnParent

\* A block is put on the tip.
LEMMA GrownSingle ==
    ASSUME ClientSingle, NEW h \in Hash, VerifyHeader(h, chains[0]), NumberOf[h] = Len(chains[0]),
           VerifyUncles(UnclesOf[h], h, chains[0]),
           chains' = [chains EXCEPT ![0] = Append(chains[0], WithTotalDifficulty(h, chains[0]))],
           UNCHANGED <<currentChain, maxChains>>
    PROVE  GrownBy(h)
<1> DEFINE b == WithTotalDifficulty(h, chains[0])
           long == Append(chains[0], b)
           n == Len(chains[0])
<1>1. GoodChain(chains[0]) /\ chains[0] \in Seq(BlockRecords) /\ n \in Nat \ {0}
  BY SingleGood DEF ClientSingle, GoodChain
<1>2. GoodChain(long) /\ b = Block(h, TotalOf[h])
  BY <1>1, ExtendGood
<1>3. b \in BlockRecords /\ b.hash = h
  BY <1>2, HistoryAssumption DEF Block, BlockRecords
<1> HIDE DEF b
<1>4. Len(long) = n + 1 /\ long[n + 1] = b /\ \A i \in 1 .. n : long[i] = chains[0][i]
  BY <1>1, <1>3, AppendProperties
<1> HIDE DEF long
<1>5. ClientSingle' /\ chains'[0] = long
  BY <1>2, SingleAgain DEF long, b
<1> QED BY <1>3, <1>4, <1>5 DEF GrownBy

\* What that means for the blocks the client has.
LEMMA GrownHolds ==
    ASSUME ClientSingle, NEW h, GrownBy(h)
    PROVE  /\ ClientSingle' /\ Tip(chains'[0]).hash = h
           /\ Hashes(chains[0]) \subseteq Hashes(chains'[0])
<1> PICK n : n = Len(chains[0])
  OBVIOUS
<1>1. n \in Nat \ {0} /\ DOMAIN chains[0] = 1 .. n
  BY SingleGood
<1>2. /\ Len(chains'[0]) = n + 1 /\ chains'[0][n + 1].hash = h
      /\ \A i \in 1 .. n : chains'[0][i] = chains[0][i]
      /\ ClientSingle'
  BY DEF GrownBy
<1>3. GoodChain(chains[0])'
  BY <1>2 DEF ClientSingle
<1>4. DOMAIN chains'[0] = 1 .. n + 1
  BY <1>2, <1>3, GoodChainElements
<1> QED BY <1>1, <1>2, <1>4 DEF Tip, Hashes

\* The answer to an import on the tip depends on the block and the network only.
LEMMA ImportOnTip ==
    ASSUME ClientSingle, NEW h \in Hash, ParentOf[h] = Tip(chains[0]).hash, Import(h)
    PROVE  IF Accepted(h, network)
           THEN GrownBy(h) /\ reply' = "imported"
           ELSE UNCHANGED <<chains, currentChain, maxChains>> /\ reply' = "import failed"
<1> DEFINE p == ParentOf[h]
<1>1. /\ Holders(p) # {}
      /\ OnParent(p).chains = chains /\ OnParent(p).current = 0 /\ OnParent(p).max = 0
  BY NoClone
<1>2. GoodChain(chains[0]) /\ currentChain = 0 /\ maxChains = 0
  BY DEF ClientSingle
<1> HIDE DEF p
<1>3. Importable(h, chains[0]) <=> Tree!ValidBlock(h)
  BY <1>2, ImportableIsValid
<1>4. BadBody(h) <=> \/ Invalid(KindIn(h), network) /\ KindIn(h) \notin UncleKinds
                     \/ ~ VerifyUncles(UnclesOf[h], h, chains[0])
  BY <1>1 DEF BadBody, p
<1>5. CASE KindIn(h) \in RawKinds
  <2>1. ~ Accepted(h, network)
    BY <1>5 DEF Accepted
  <2>2. ImportUnreadable
    BY <1>5 DEF Import
  <2> QED BY <2>1, <2>2, <1>2 DEF ImportUnreadable, ImportFailed
<1>6. CASE KindIn(h) \notin RawKinds
  <2>1. CASE ImportBadHeader(h)
    <3>1. ~ VerifyHeader(h, chains[0]) /\ UNCHANGED <<chains, currentChain, maxChains>>
          /\ reply' = "import failed"
      BY <1>1, <1>2, <2>1 DEF ImportBadHeader, ImportFailed, p
    <3>2. ~ Accepted(h, network)
      BY <1>3, <3>1 DEF Accepted, Importable
    <3> QED BY <3>1, <3>2
  <2>2. CASE BadBody(h) /\ ImportBadBody(h)
    <3>1. UNCHANGED <<chains, currentChain, maxChains>> /\ reply' = "import failed"
      BY <1>1, <1>2, <2>2 DEF ImportBadBody, ImportFailed, p
    <3>2. ~ Accepted(h, network)
      BY <1>3, <1>4, <2>2 DEF Accepted, Importable
    <3> QED BY <3>1, <3>2
  <2>3. CASE ~ BadBody(h) /\ ImportAccepted(h)
    <3> DEFINE grown == [chains EXCEPT ![0] = Append(chains[0], WithTotalDifficulty(h, chains[0]))]
    <3>1. /\ Importable(h, chains[0])
          /\ chains' = grown /\ maxChains' = 0 /\ reply' = "imported"
          /\ currentChain' = IF IsParisChain THEN 0 ELSE HeaviestChain(grown, 0)
      BY <1>1, <2>3 DEF ImportAccepted, p
    <3>2. Accepted(h, network)
      BY <1>3, <1>4, <1>6, <2>3, <3>1 DEF Accepted
    <3>3. GoodChains(grown, 0)
      <4>1. GoodChain(Append(chains[0], WithTotalDifficulty(h, chains[0])))
        BY <1>2, <3>1, ExtendGood DEF Importable
      <4>2. GoodChains(chains, 0)
        BY SingleGood
      <4>3. 0 \in Nat /\ 0 \in 0 .. 0
        OBVIOUS
      <4> QED BY <4>1, <4>2, <4>3, ReplaceGood
    <3>4. currentChain' = 0
      BY <3>1, <3>3, HeaviestChainIsOne
    <3>5. GrownBy(h)
      BY <1>2, <3>1, <3>4, GrownSingle DEF Importable
    <3> QED BY <3>1, <3>2, <3>5
  <2> QED BY <1>1, <1>6, <2>1, <2>2, <2>3 DEF Import, p
<1> QED BY <1>5, <1>6

\* A block that is mined is one any client accepts by its header and uncles.
LEMMA MineOnTip ==
    ASSUME ClientSingle, NEW h \in Hash, MineBlocks(h)
    PROVE  /\ GrownBy(h)
           /\ ParentOf[h] = Tip(chains[0]).hash
           /\ Tree!ValidBlock(h)
<1>1. GoodChain(chains[0]) /\ currentChain = 0
  BY DEF ClientSingle
<1>2. /\ VerifyHeader(h, chains[0]) /\ NumberOf[h] = Len(chains[0])
      /\ chains' = [chains EXCEPT ![0] = Append(chains[0], WithTotalDifficulty(h, chains[0]))]
      /\ UNCHANGED <<currentChain, maxChains>> /\ UnclesOf[h] = << >>
  BY <1>1 DEF MineBlocks
<1>3. VerifyUncles(UnclesOf[h], h, chains[0])
  BY <1>2 DEF VerifyUncles, MaxUncles
<1>4. ParentOf[h] = Tip(chains[0]).hash
  BY <1>1, <1>2, <1>3, ExtendGood
<1>5. Importable(h, chains[0])
  BY <1>2, <1>3 DEF Importable
<1>6. Tree!ValidBlock(h)
  BY <1>1, <1>4, <1>5, ImportableIsValid
<1> QED BY <1>2, <1>3, <1>4, <1>6, GrownSingle

-----------------------------------------------------------------------------
(* Lists and the blocks of them that a client holds *)

\* There is one last block.
LEMMA OneLast ==
    ASSUME NEW V, NEW k \in Nat, NEW i, NEW j, IsLast(V, k, i), IsLast(V, k, j)
    PROVE  i = j
<1>1. /\ i \in 1 .. k /\ i \in V /\ \A l \in i + 1 .. k : l \notin V
      /\ j \in 1 .. k /\ j \in V /\ \A l \in j + 1 .. k : l \notin V
  BY DEF IsLast
<1>2. ~ (i < j) /\ ~ (j < i)
  <2>1. i < j => j \in i + 1 .. k
    BY <1>1
  <2>2. j < i => i \in j + 1 .. k
    BY <1>1
  <2> QED BY <1>1, <2>1, <2>2
<1> QED BY <1>1, <1>2

\* One block more is the last one, or changes nothing.
LEMMA NextLast ==
    ASSUME NEW V, NEW k \in Nat, NEW i, IsLast(V, k, i)
    PROVE  IsLast(V, k + 1, IF k + 1 \in V THEN k + 1 ELSE i)
<1>1. i \in 1 .. k /\ i \in V /\ \A j \in i + 1 .. k : j \notin V
  BY DEF IsLast
<1>2. CASE k + 1 \in V
  <2>1. k + 1 \in 1 .. k + 1 /\ \A j \in (k + 1) + 1 .. k + 1 : FALSE
    OBVIOUS
  <2> QED BY <1>2, <2>1 DEF IsLast
<1>3. CASE k + 1 \notin V
  <2>1. i \in 1 .. k + 1 /\ \A j \in i + 1 .. k + 1 : j \in i + 1 .. k \/ j = k + 1
    BY <1>1
  <2> QED BY <1>1, <1>3, <2>1 DEF IsLast
<1> QED BY <1>2, <1>3

\* There is a last block among the first k.
LEMMA LastExists ==
    ASSUME NEW V, NEW L, NEW net, Imported(V, L, net), Len(L) \in Nat, NEW k \in 1 .. Len(L)
    PROVE  \E i \in 1 .. k : IsLast(V, k, i)
<1>1. CASE k = 1
  <2>1. IsLast(V, 1, 1)
    BY DEF Imported, IsLast
  <2> QED BY <1>1, <2>1
<1>2. CASE k # 1
  <2> PICK q : q = k - 1
    OBVIOUS
  <2>1. k \in 2 .. Len(L) /\ q \in Nat /\ q + 1 = k
    BY <1>2
  <2>2. PICK i \in 1 .. q : IsLast(V, q, i)
    BY <2>1 DEF Imported
  <2>3. IsLast(V, q + 1, IF q + 1 \in V THEN q + 1 ELSE i)
    BY <2>1, <2>2, NextLast
  <2>4. k \in 1 .. k /\ i \in 1 .. k
    BY <2>1
  <2> QED BY <2>3, <2>4
<1> QED BY <1>1, <1>2

\* The j-th block is the child of the i-th, the last one before it.
ChildOfLast(V, L, j, i) ==
    /\ IsLast(V, j - 1, i)
    /\ ParentOf[L[j].hash] = L[i].hash
    /\ NumberOf[L[j].hash] = NumberOf[L[i].hash] + 1
    /\ Ancestors[L[j].hash] = Ancestors[L[i].hash] \cup {L[j].hash}

\* A block that is held was put on the last one before it.
LEMMA HeldChild ==
    ASSUME NEW V, NEW L, NEW net, ChainFits(L), Imported(V, L, net),
           NEW j \in 2 .. Len(L), j \in V
    PROVE  \E i \in 1 .. j - 1 : ChildOfLast(V, L, j, i)
<1> PICK h : h = L[j].hash
  OBVIOUS
<1>1. Len(L) \in Nat /\ j \in 1 .. Len(L) /\ h \in Hash
  BY BlocksOfList DEF ChainFits
<1>2. PICK i \in 1 .. j - 1 : IsLast(V, j - 1, i) /\ ParentOf[h] = L[i].hash /\ Accepted(h, net)
  BY DEF Imported
<1>3. i \in 1 .. Len(L) /\ L[i].hash \in Hash
  <2>1. i \in 1 .. Len(L)
    BY <1>1, <1>2
  <2> QED BY <2>1, BlocksOfList DEF ChainFits
<1>4. NumberOf[h] = NumberOf[ParentOf[h]] + 1
  BY <1>2 DEF Accepted, Tree!ValidBlock, Tree!FitsBranch
<1>5. h # Genesis
  BY <1>1, <1>2, <1>3, <1>4, BlocksAssumption
<1>6. Ancestors[h] = Ancestors[ParentOf[h]] \cup {h}
  BY <1>1, <1>4, <1>5, HistoryAssumption
<1> QED BY <1>2, <1>4, <1>6 DEF ChildOfLast

\* The number of a block that is held is at most its place in the list, and just
\* that where all before it are held.
LEMMA HeldNumber ==
    ASSUME NEW V, NEW L, NEW net, ChainFits(L), Imported(V, L, net),
           NEW n \in 1 .. Len(L), n \in V
    PROVE  /\ NumberOf[L[n].hash] \in 0 .. n - 1
           /\ (\A j \in 1 .. n : j \in V) => NumberOf[L[n].hash] = n - 1
<1> DEFINE H(i) == L[i].hash
           Fits(j) == /\ NumberOf[H(j)] \in 0 .. j - 1
                      /\ (\A l \in 1 .. j : l \in V) => NumberOf[H(j)] = j - 1
           Wrong == {j \in 1 .. Len(L) : j \in V /\ ~ Fits(j)}
<1>1. Len(L) \in Nat
  BY BlocksOfList DEF ChainFits
<1>2. Wrong = {}
  <2>1. SUFFICES ASSUME Wrong # {} PROVE FALSE
    OBVIOUS
  <2>2. PICK j \in Wrong : \A k \in Wrong : j <= k
    <3>1. Wrong \subseteq Nat
      BY <1>1
    <3> QED BY <2>1, <3>1, LeastNatural
  <2>3. j \in 1 .. Len(L) /\ j \in V /\ ~ Fits(j)
    OBVIOUS
  <2>4. CASE j = 1
    <3>1. NumberOf[H(1)] = 0
      BY BlocksAssumption DEF ChainFits
    <3> QED BY <2>3, <2>4, <3>1
  <2>5. CASE j # 1
    <3>1. j \in 2 .. Len(L)
      BY <2>3, <2>5
    <3>8. PICK i \in 1 .. j - 1 : ChildOfLast(V, L, j, i)
      BY <2>3, <3>1, HeldChild
    <3>2. IsLast(V, j - 1, i) /\ NumberOf[H(j)] = NumberOf[H(i)] + 1
      BY <3>8 DEF ChildOfLast
    <3>3. i \in V /\ i \in 1 .. Len(L) /\ i \notin Wrong
      BY <1>1, <2>2, <3>1, <3>2 DEF IsLast
    <3>4. Fits(i)
      BY <3>3
    <3>5. NumberOf[H(j)] \in 0 .. j - 1
      BY <3>1, <3>2, <3>4
    <3>6. ASSUME \A l \in 1 .. j : l \in V PROVE NumberOf[H(j)] = j - 1
      <4>1. j - 1 \in 1 .. j - 1 /\ j - 1 \in 1 .. j /\ \A l \in (j - 1) + 1 .. j - 1 : FALSE
        BY <3>1
      <4>2. IsLast(V, j - 1, j - 1)
        BY <3>6, <4>1 DEF IsLast
      <4>3. i = j - 1
        BY <3>1, <3>2, <4>2, OneLast
      <4>4. \A l \in 1 .. i : l \in 1 .. j
        BY <3>1, <3>2
      <4>5. NumberOf[H(i)] = i - 1
        BY <3>4, <3>6, <4>4
      <4> QED BY <3>1, <3>2, <4>3, <4>5
    <3> QED BY <2>3, <3>5, <3>6
  <2> QED BY <2>4, <2>5
<1> QED BY <1>2

\* Blocks that are held are ancestors of later ones.
LEMMA HeldBehind ==
    ASSUME NEW V, NEW L, NEW net, ChainFits(L), Imported(V, L, net),
           NEW n \in 1 .. Len(L), n \in V, NEW m \in n .. Len(L), m \in V
    PROVE  L[n].hash \in Ancestors[L[m].hash]
<1> DEFINE H(i) == L[i].hash
           Wrong == {j \in n .. Len(L) : j \in V /\ H(n) \notin Ancestors[H(j)]}
<1>1. Len(L) \in Nat
  BY BlocksOfList DEF ChainFits
<1>2. Wrong = {}
  <2>1. SUFFICES ASSUME Wrong # {} PROVE FALSE
    OBVIOUS
  <2>2. PICK j \in Wrong : \A k \in Wrong : j <= k
    <3>1. Wrong \subseteq Nat
      BY <1>1
    <3> QED BY <2>1, <3>1, LeastNatural
  <2>3. j \in n .. Len(L) /\ j \in V /\ H(n) \notin Ancestors[H(j)]
    OBVIOUS
  <2>4. CASE j = 1
    <3>1. n = 1 /\ H(1) = Genesis
      BY <2>3, <2>4 DEF ChainFits
    <3> QED BY <2>3, <2>4, <3>1, HistoryAssumption
  <2>5. CASE j # 1
    <3>1. j \in 2 .. Len(L) /\ j - 1 \in Nat
      BY <2>3, <2>5
    <3>7. j \in V
      BY <2>3
    <3>8. PICK i \in 1 .. j - 1 : ChildOfLast(V, L, j, i)
      BY <3>1, <3>7, HeldChild
    <3>2. IsLast(V, j - 1, i) /\ Ancestors[H(j)] = Ancestors[H(i)] \cup {H(j)}
      BY <3>8 DEF ChildOfLast
    <3>3. n \in 1 .. j - 1
      BY <2>3, <3>2
    <3>4. ~ (i < n)
      <4>1. i < n => n \in i + 1 .. j - 1
        BY <3>3
      <4> QED BY <3>2, <4>1 DEF IsLast
    <3>5. i \in n .. Len(L) /\ i \in V
      BY <3>1, <3>2, <3>3, <3>4 DEF IsLast
    <3>6. i \notin Wrong
      BY <2>2, <3>1, <3>2
    <3> QED BY <2>3, <3>2, <3>5, <3>6
  <2> QED BY <2>4, <2>5
<1> QED BY <1>2

\* The ancestors of a block that is held are held too.
LEMMA HeldBefore ==
    ASSUME NEW V, NEW L, NEW net, ChainFits(L), Imported(V, L, net),
           NEW n \in 1 .. Len(L), n \in V
    PROVE  \A a \in Ancestors[L[n].hash] : \E i \in 1 .. n : i \in V /\ a = L[i].hash
<1> DEFINE H(i) == L[i].hash
           Fits(j) == \A a \in Ancestors[H(j)] : \E i \in 1 .. j : i \in V /\ a = H(i)
           Wrong == {j \in 1 .. Len(L) : j \in V /\ ~ Fits(j)}
<1>1. Len(L) \in Nat
  BY BlocksOfList DEF ChainFits
<1>2. Wrong = {}
  <2>1. SUFFICES ASSUME Wrong # {} PROVE FALSE
    OBVIOUS
  <2>2. PICK j \in Wrong : \A k \in Wrong : j <= k
    <3>1. Wrong \subseteq Nat
      BY <1>1
    <3> QED BY <2>1, <3>1, LeastNatural
  <2>3. j \in 1 .. Len(L) /\ j \in V /\ ~ Fits(j)
    OBVIOUS
  <2>4. CASE j = 1
    <3>1. Ancestors[H(1)] = {H(1)}
      BY HistoryAssumption DEF ChainFits
    <3>2. 1 \in 1 .. 1
      OBVIOUS
    <3> QED BY <2>3, <2>4, <3>1, <3>2
  <2>5. CASE j # 1
    <3>1. j \in 2 .. Len(L)
      BY <2>3, <2>5
    <3>8. PICK i \in 1 .. j - 1 : ChildOfLast(V, L, j, i)
      BY <2>3, <3>1, HeldChild
    <3>2. IsLast(V, j - 1, i) /\ Ancestors[H(j)] = Ancestors[H(i)] \cup {H(j)}
      BY <3>8 DEF ChildOfLast
    <3>3. i \in V /\ i \in 1 .. Len(L)
      BY <1>1, <3>1, <3>2 DEF IsLast
    <3>6. i \notin Wrong
      <4>1. ~ (j <= i)
        BY <1>1, <3>1
      <4> HIDE DEF Wrong
      <4> QED BY <2>2, <4>1
    <3>4. Fits(i)
      BY <3>3, <3>6
    <3>5. j \in 1 .. j /\ \A l \in 1 .. i : l \in 1 .. j
      BY <3>1, <3>2
    <3> QED BY <2>3, <3>2, <3>4, <3>5
  <2> QED BY <2>4, <2>5
<1> QED BY <1>2

-----------------------------------------------------------------------------
(* Accounts of lists *)

\* A list with the same blocks, or the first of them.
LEMMA AccountAlike ==
    ASSUME NEW V, NEW L, NEW net, NEW careful \in BOOLEAN, Account(V, L, net, careful),
           NEW M, ChainFits(M), Len(M) <= Len(L),
           \A i \in 1 .. Len(M) : M[i].hash = L[i].hash /\ M[i].valid = L[i].valid
    PROVE  Account(V, M, net, careful)
<1>1. Len(M) \in Nat /\ Len(L) \in Nat /\ \A i \in 1 .. Len(M) : i \in 1 .. Len(L)
  BY BlocksOfList DEF Account, ChainFits
<1>2. ASSUME NEW j \in 2 .. Len(M)
      PROVE  \E i \in 1 .. j - 1 :
                /\ IsLast(V, j - 1, i)
                /\ \/ ParentOf[M[j].hash] = M[i].hash /\ (j \in V <=> Accepted(M[j].hash, net))
                   \/ /\ j \notin V
                      /\ \A k \in 1 .. j - 1 : k \in V => ParentOf[M[j].hash] # M[k].hash
  <2>1. j \in 2 .. Len(L) /\ j \in 1 .. Len(M) /\ \A k \in 1 .. j - 1 : k \in 1 .. Len(M)
    BY <1>1
  <2>2. PICK i \in 1 .. j - 1 :
                /\ IsLast(V, j - 1, i)
                /\ \/ ParentOf[L[j].hash] = L[i].hash /\ (j \in V <=> Accepted(L[j].hash, net))
                   \/ /\ j \notin V
                      /\ \A k \in 1 .. j - 1 : k \in V => ParentOf[L[j].hash] # L[k].hash
    BY <2>1 DEF Account, Imported
  <2>3. M[j].hash = L[j].hash /\ \A k \in 1 .. j - 1 : M[k].hash = L[k].hash
    BY <2>1
  <2> QED BY <2>2, <2>3
<1>3. Imported(V, M, net)
  BY <1>2 DEF Account, Imported
<1>4. AsMade(V, M, careful)
  <2> SUFFICES ASSUME NEW i \in 1 .. Len(M), careful \/ \A j \in 1 .. i : M[j].valid
               PROVE  i \in V <=> M[i].valid
    BY DEF AsMade
  <2>1. \A j \in 1 .. i : j \in 1 .. Len(M) /\ M[j].valid = L[j].valid
    BY <1>1
  <2>2. careful \/ \A j \in 1 .. i : L[j].valid
    BY <2>1
  <2>3. i \in V <=> L[i].valid
    BY <1>1, <2>2 DEF Account, AsMade
  <2> QED BY <2>3
<1> QED BY <1>3, <1>4 DEF Account

\* A new chain has a genesis that is there already.
LEMMA AccountGenesis ==
    ASSUME NEW net, NEW careful \in BOOLEAN
    PROVE  Account({1}, << TestBlock(Genesis, TRUE, << >>) >>, net, careful)
<1> PICK L : L = << TestBlock(Genesis, TRUE, << >>) >>
  OBVIOUS
<1>1. ChainFits(L)
  BY NewChainFits
<1>2. Len(L) = 1
  <2>1. \A x : Len(<< x >>) = 1
    OBVIOUS
  <2> QED BY <2>1, Zenon
<1>3. L[1].valid = TRUE
  BY <1>1 DEF ChainFits
<1>4. AsMade({1}, L, careful)
  <2>1. L[1].valid /\ 1 \in {1}
    BY <1>3
  <2>2. \A i \in 1 .. Len(L) : i = 1
    BY <1>2
  <2> QED BY <2>1, <2>2 DEF AsMade
<1>5. Imported({1}, L, net)
  BY <1>2 DEF Imported
<1>6. Account({1}, L, net, careful)
  BY <1>1, <1>4, <1>5 DEF Account
<1> QED BY <1>6, Zenon

\* A block at the end: it goes on the last one that is held, or its parent is no block
\* that is held, and neither is it.
LEMMA AccountAppend ==
    ASSUME NEW V, NEW L, NEW net, NEW careful \in BOOLEAN, Account(V, L, net, careful),
           NEW b \in TestBlocks, NEW W, \A j \in 1 .. Len(L) : j \in W <=> j \in V,
           NEW i, IsLast(V, Len(L), i),
           \/ ParentOf[b.hash] = L[i].hash /\ (Len(L) + 1 \in W <=> Accepted(b.hash, net))
           \/ /\ Len(L) + 1 \notin W
              /\ \A k \in 1 .. Len(L) : k \in V => ParentOf[b.hash] # L[k].hash,
           careful \/ (Made(L) /\ b.valid) => (Len(L) + 1 \in W <=> b.valid)
    PROVE  Account(W, Append(L, b), net, careful) /\ IsLast(W, Len(L), i)
<1> PICK N : N = Len(L)
  OBVIOUS
<1> PICK M : M = Append(L, b)
  OBVIOUS
<1>1. N \in Nat \ {0} /\ DOMAIN L = 1 .. N
  BY BlocksOfList DEF Account, ChainFits
<1>2. ChainFits(M) /\ Len(M) = N + 1 /\ M[N + 1] = b /\ \A j \in 1 .. N : M[j] = L[j]
  BY AppendFits DEF Account
<1>3. ASSUME NEW k \in 1 .. N, NEW j
      PROVE  IsLast(V, k, j) <=> IsLast(W, k, j)
  <2>1. \A l \in 1 .. k : l \in W <=> l \in V
    BY <1>1
  <2>2. ASSUME NEW m \in 1 .. k PROVE \A l \in m + 1 .. k : l \in 1 .. k
    BY <1>1
  <2> QED BY <2>1, <2>2 DEF IsLast
<1>4. i \in 1 .. N
  BY DEF IsLast
<1>5. ASSUME NEW j \in 2 .. Len(M)
      PROVE  \E l \in 1 .. j - 1 :
                /\ IsLast(W, j - 1, l)
                /\ \/ ParentOf[M[j].hash] = M[l].hash /\ (j \in W <=> Accepted(M[j].hash, net))
                   \/ /\ j \notin W
                      /\ \A k \in 1 .. j - 1 : k \in W => ParentOf[M[j].hash] # M[k].hash
  <2>1. CASE j = N + 1
    <3>1. j - 1 = N /\ N \in 1 .. N
      BY <1>1, <2>1
    <3>2. IsLast(W, N, i)
      BY <1>3, <3>1
    <3>3. \/ ParentOf[M[j].hash] = M[i].hash /\ (j \in W <=> Accepted(M[j].hash, net))
          \/ j \notin W /\ \A k \in 1 .. N : k \in W => ParentOf[M[j].hash] # M[k].hash
      BY <1>2, <1>4, <2>1
    <3> QED BY <1>4, <3>1, <3>2, <3>3
  <2>2. CASE j # N + 1
    <3>1. j \in 2 .. N /\ j - 1 \in 1 .. N /\ j \in 1 .. N
      BY <1>1, <1>2, <2>2
    <3>2. PICK l \in 1 .. j - 1 :
                /\ IsLast(V, j - 1, l)
                /\ \/ ParentOf[L[j].hash] = L[l].hash /\ (j \in V <=> Accepted(L[j].hash, net))
                   \/ /\ j \notin V
                      /\ \A k \in 1 .. j - 1 : k \in V => ParentOf[L[j].hash] # L[k].hash
      BY <3>1 DEF Account, Imported
    <3>3. IsLast(W, j - 1, l)
      BY <1>3, <3>1, <3>2
    <3>4. \A k \in 1 .. j - 1 : k \in 1 .. N /\ M[k] = L[k] /\ (k \in W <=> k \in V)
      BY <1>1, <1>2, <3>1
    <3>5. M[j] = L[j] /\ (j \in W <=> j \in V)
      BY <1>2, <3>1
    <3> QED BY <3>2, <3>3, <3>4, <3>5
  <2> QED BY <2>1, <2>2
<1>6. Imported(W, M, net)
  <2>1. 1 \in W
    BY <1>1 DEF Account, Imported
  <2> QED BY <1>5, <2>1 DEF Imported
<1>7. AsMade(W, M, careful)
  <2> SUFFICES ASSUME NEW j \in 1 .. Len(M), careful \/ \A k \in 1 .. j : M[k].valid
               PROVE  j \in W <=> M[j].valid
    BY DEF AsMade
  <2>1. CASE j = N + 1
    <3>1. ~ careful => Made(L) /\ b.valid
      <4>1. \A k \in 1 .. N : k \in 1 .. j /\ M[k] = L[k]
        BY <1>1, <1>2, <2>1
      <4>2. j \in 1 .. j
        BY <1>1, <2>1
      <4>3. ~ careful => \A k \in 1 .. N : L[k].valid
        BY <4>1
      <4>4. ~ careful => b.valid
        BY <1>2, <2>1, <4>2
      <4> QED BY <1>1, <4>3, <4>4 DEF Made
    <3> QED BY <1>2, <2>1, <3>1
  <2>2. CASE j # N + 1
    <3>1. j \in 1 .. N /\ \A k \in 1 .. j : k \in 1 .. N /\ M[k] = L[k]
      BY <1>1, <1>2, <2>2
    <3>2. careful \/ \A k \in 1 .. j : L[k].valid
      BY <3>1
    <3>3. j \in V <=> L[j].valid
      BY <3>1, <3>2 DEF Account, AsMade
    <3> QED BY <1>2, <3>1, <3>3
  <2> QED BY <2>1, <2>2
<1>8. IsLast(W, N, i)
  <2>1. N \in 1 .. N
    BY <1>1
  <2> QED BY <1>3, <2>1
<1> QED BY <1>2, <1>6, <1>7, <1>8 DEF Account

-----------------------------------------------------------------------------
(* Where the client is *)

\* The block goes on the last one that is held.
PutOnto(V, W, L, net, b, i) ==
    /\ IsLast(V, Len(L), i) /\ \A j \in 1 .. Len(L) : j \in W <=> j \in V
    /\ ParentOf[b.hash] = L[i].hash
    /\ Len(L) + 1 \in W <=> Accepted(b.hash, net)
    /\ Len(L) + 1 \in W <=> b.valid

\* A list that grows by such a block.
LEMMA AppendOnto ==
    ASSUME NEW V, NEW L, NEW net, NEW careful \in BOOLEAN, Account(V, L, net, careful),
           NEW b \in TestBlocks, NEW W, NEW i, PutOnto(V, W, L, net, b, i)
    PROVE  Account(W, Append(L, b), net, careful) /\ IsLast(W, Len(L), i)
<1>1. careful \/ (Made(L) /\ b.valid) => (Len(L) + 1 \in W <=> b.valid)
  BY DEF PutOnto
<1>2. \/ ParentOf[b.hash] = L[i].hash /\ (Len(L) + 1 \in W <=> Accepted(b.hash, net))
      \/ /\ Len(L) + 1 \notin W
         /\ \A k \in 1 .. Len(L) : k \in V => ParentOf[b.hash] # L[k].hash
  BY DEF PutOnto
<1>3. IsLast(V, Len(L), i) /\ \A j \in 1 .. Len(L) : j \in W <=> j \in V
  BY DEF PutOnto
<1> QED BY <1>1, <1>2, <1>3, AccountAppend

\* The block goes on no block that is held.
PutAside(V, W, L, b, i) ==
    /\ IsLast(V, Len(L), i) /\ \A j \in 1 .. Len(L) : j \in W <=> j \in V
    /\ Len(L) + 1 \notin W
    /\ \A k \in 1 .. Len(L) : k \in V => ParentOf[b.hash] # L[k].hash

\* A list that grows by such a block, where the filler is not careful.
LEMMA AppendAside ==
    ASSUME NEW V, NEW L, NEW net, NEW careful \in BOOLEAN, Account(V, L, net, careful),
           NEW b \in TestBlocks, NEW W, NEW i, PutAside(V, W, L, b, i), ~ careful, ~ Made(L)
    PROVE  Account(W, Append(L, b), net, careful) /\ IsLast(W, Len(L), i)
<1>1. careful \/ (Made(L) /\ b.valid) => (Len(L) + 1 \in W <=> b.valid)
  OBVIOUS
<1>2. \/ ParentOf[b.hash] = L[i].hash /\ (Len(L) + 1 \in W <=> Accepted(b.hash, net))
      \/ /\ Len(L) + 1 \notin W
         /\ \A k \in 1 .. Len(L) : k \in V => ParentOf[b.hash] # L[k].hash
  BY DEF PutAside
<1>3. IsLast(V, Len(L), i) /\ \A j \in 1 .. Len(L) : j \in W <=> j \in V
  BY DEF PutAside
<1> QED BY <1>1, <1>2, <1>3, AccountAppend

\* A client that the list brought to its end is at the end.
LEMMA TipAtEnd ==
    ASSUME NEW c, GoodChain(c), NEW V, NEW L, TipIs(c, V, L, Len(L)), NEW exact \in BOOLEAN
    PROVE  AtEnd(c, V, L, exact)
<1>1. PICK i \in 1 .. Len(L) : IsLast(V, Len(L), i) /\ Tip(c).hash = L[i].hash
  BY DEF TipIs
<1>2. Tip(c).hash \in Hashes(c)
  BY GoodChainElements DEF Tip, Hashes
<1> QED BY <1>1, <1>2 DEF AtEnd

\* It has no other blocks then.
LEMMA OnlyHeld ==
    ASSUME NEW c, GoodChain(c), NEW V, NEW L, NEW net, ChainFits(L), Imported(V, L, net),
           NEW k \in 1 .. Len(L), TipIs(c, V, L, k)
    PROVE  \A a \in Hashes(c) : \E i \in 1 .. k : i \in V /\ a = L[i].hash
<1>1. PICK i \in 1 .. k : IsLast(V, k, i) /\ Tip(c).hash = L[i].hash
  BY DEF TipIs
<1>2. Len(L) \in Nat
  BY BlocksOfList DEF ChainFits
<1>3. i \in V /\ i \in 1 .. Len(L) /\ \A j \in 1 .. i : j \in 1 .. k
  BY <1>1, <1>2 DEF IsLast
<1>4. Hashes(c) = Ancestors[L[i].hash]
  <2>1. Ancestors[Tip(c).hash] = Hashes(c)
    BY ChainIsHistory
  <2> QED BY <1>1, <2>1, Zenon
<1>5. \A a \in Ancestors[L[i].hash] : \E j \in 1 .. i : j \in V /\ a = L[j].hash
  BY <1>3, HeldBefore
<1> SUFFICES ASSUME NEW a \in Hashes(c) PROVE \E j \in 1 .. k : j \in V /\ a = L[j].hash
  OBVIOUS
<1>6. PICK j \in 1 .. i : j \in V /\ a = L[j].hash
  BY <1>4, <1>5, Zenon
<1> QED BY <1>3, <1>6

\* The ancestors of a block of a chain are at its place or before it.
LEMMA AncestorPlace ==
    ASSUME NEW chain, GoodChain(chain), NEW q \in 1 .. Len(chain), NEW a \in Ancestors[chain[q].hash]
    PROVE  \E p \in 1 .. q : /\ chain[p].hash = a
                            /\ p \in 1 .. Len(chain) /\ NumberOf[a] = p - 1
<1>1. Ancestors[chain[q].hash] = {chain[j].hash : j \in 1 .. q}
  BY PrefixIsHistory
<1>2. PICK p \in 1 .. q : chain[p].hash = a
  BY <1>1
<1>3. p \in 1 .. Len(chain)
  BY GoodChainElements
<1>4. NumberOf[chain[p].hash] = p - 1
  BY <1>3 DEF GoodChain
<1> QED BY <1>2, <1>3, <1>4

\* A block of the list that is held is on the client, at its place or before it.
LEMMA HeldOnClient ==
    ASSUME NEW c, GoodChain(c), NEW V, NEW L, NEW net, ChainFits(L), Imported(V, L, net),
           NEW e \in BOOLEAN, AtEnd(c, V, L, e), NEW n \in 1 .. Len(L), n \in V
    PROVE  \E p \in 1 .. Len(c) :
              /\ c[p].hash = L[n].hash
              /\ p <= n
              /\ (\A j \in 1 .. n : j \in V) => p = n
<1>1. GoodChain(c) /\ Len(L) \in Nat
  BY BlocksOfList DEF ChainFits
<1>2. PICK i \in 1 .. Len(L) : IsLast(V, Len(L), i) /\ L[i].hash \in Hashes(c)
  BY DEF AtEnd
<1>3. i \in n .. Len(L) /\ i \in V
  <2>1. ~ (i < n)
    <3>1. i < n => n \in i + 1 .. Len(L)
      BY <1>1
    <3> QED BY <1>2, <3>1 DEF IsLast
  <2> QED BY <1>1, <1>2, <2>1 DEF IsLast
<1>4. L[n].hash \in Ancestors[L[i].hash]
  BY <1>3, HeldBehind
<1>5. PICK q \in 1 .. Len(c) : c[q].hash = L[i].hash
  BY <1>1, <1>2, HeldAtPosition
<1>6. L[n].hash \in Ancestors[c[q].hash]
  BY <1>4, <1>5
<1>7. PICK p \in 1 .. q : c[p].hash = L[n].hash /\ p \in 1 .. Len(c) /\ NumberOf[L[n].hash] = p - 1
  BY <1>1, <1>6, AncestorPlace
<1>9. /\ NumberOf[L[n].hash] \in 0 .. n - 1
      /\ (\A j \in 1 .. n : j \in V) => NumberOf[L[n].hash] = n - 1
  BY HeldNumber
<1>10. p <= n /\ ((\A j \in 1 .. n : j \in V) => p = n)
  BY <1>7, <1>9
<1> QED BY <1>7, <1>10

\* A head that is not the last block of the list that is held is none of them.
LEMMA TipIsOther ==
    ASSUME NEW c, GoodChain(c), NEW V, NEW L, NEW net, ChainFits(L), Imported(V, L, net),
           NEW i, IsLast(V, Len(L), i), L[i].hash \in Hashes(c),
           Tip(c).hash # L[i].hash, NEW k \in 1 .. Len(L), k \in V
    PROVE  Tip(c).hash # L[k].hash
<1>1. GoodChain(c) /\ Len(L) \in Nat /\ Len(c) \in 1 .. Len(c) /\ Len(c) \in Nat
  BY BlocksOfList, GoodChainElements DEF ChainFits
<1>2. i \in k .. Len(L) /\ i \in V
  <2>1. ~ (i < k)
    <3>1. i < k => k \in i + 1 .. Len(L)
      BY <1>1 DEF IsLast
    <3> QED BY <3>1 DEF IsLast
  <2> QED BY <1>1, <2>1 DEF IsLast
<1>3. L[k].hash \in Ancestors[L[i].hash]
  BY <1>2, HeldBehind
<1>4. PICK q \in 1 .. Len(c) : c[q].hash = L[i].hash
  BY <1>1, HeldAtPosition
<1>5. L[k].hash \in Ancestors[c[q].hash]
  BY <1>3, <1>4
<1>6. PICK p \in 1 .. q : c[p].hash = L[k].hash /\ NumberOf[L[k].hash] = p - 1
  BY <1>1, <1>5, AncestorPlace
<1>7. q # Len(c) /\ NumberOf[Tip(c).hash] = Len(c) - 1
  BY <1>1, <1>4 DEF Tip, GoodChain
<1>8. NumberOf[L[k].hash] # Len(c) - 1
  BY <1>1, <1>4, <1>6, <1>7
<1> QED BY <1>7, <1>8

-----------------------------------------------------------------------------
(* Lists that are alike *)

\* The lists have the same blocks, and the same of them are valid.
Alike(M, L) ==
    /\ ChainFits(M) /\ Len(M) = Len(L)
    /\ \A i \in 1 .. Len(M) : M[i].hash = L[i].hash /\ M[i].valid = L[i].valid

NamedAlike == DOMAIN named' = DOMAIN named /\ \A n \in DOMAIN named : Alike(named'[n], named[n])

\* They are valid alike.
LEMMA MadeAlike ==
    ASSUME NEW L, ChainFits(L), NEW M, Alike(M, L)
    PROVE  Made(M) <=> Made(L)
<1>1. DOMAIN L = 1 .. Len(L) /\ DOMAIN M = 1 .. Len(M) /\ Len(M) = Len(L)
  BY BlocksOfList DEF Alike, ChainFits
<1>2. \A i \in 1 .. Len(L) : M[i].valid = L[i].valid
  BY DEF Alike
<1>3. \A i \in 1 .. Len(L) : M[i].valid <=> L[i].valid
  BY <1>2
<1> QED BY <1>1, <1>3 DEF Made

\* A client at the end of the one is at the end of the other.
LEMMA AtEndAlike ==
    ASSUME NEW L, NEW M, Alike(M, L), NEW c, NEW V, NEW e \in BOOLEAN, NEW f \in BOOLEAN, f => e,
           AtEnd(c, V, L, e)
    PROVE  AtEnd(c, V, M, f)
<1> PICK N : N = Len(L)
  OBVIOUS
<1> DEFINE Ends(i, g) == IsLast(V, N, i) /\ L[i].hash \in Hashes(c) /\ (g => Tip(c).hash = L[i].hash)
<1>1. N = Len(M) /\ \A i \in 1 .. N : M[i].hash = L[i].hash
  BY DEF Alike
<1>2. PICK i \in 1 .. N : Ends(i, e)
  BY Zenon DEF AtEnd
<1>3. Ends(i, f)
  BY <1>2, Zenon
<1> PICK h : h = L[i].hash
  OBVIOUS
<1>4. h = M[i].hash
  BY <1>1, <1>2
<1>5. IsLast(V, N, i) /\ h \in Hashes(c) /\ (f => Tip(c).hash = h)
  BY <1>3, Zenon
<1> HIDE DEF Ends
<1> QED BY <1>1, <1>2, <1>4, <1>5, Zenon DEF AtEnd

\* The history of the one is that of the other.
LEMMA PreparingAlike ==
    ASSUME NEW L, ChainFits(L), NEW M, Alike(M, L), NEW calls, Preparing(calls, L)
    PROVE  Preparing(calls, M)
<1>1. Len(M) = Len(L) /\ \A i \in 1 .. Len(L) : M[i].hash = L[i].hash
  BY DEF Alike
<1>2. Len(L) \in Nat
  BY BlocksOfList DEF ChainFits
<1>3. \A i \in 1 .. Len(L) - 1 : i + 1 \in 1 .. Len(L)
  BY <1>2
<1>4. PICK r \in 1 .. Len(calls) :
        /\ Len(calls) = r + Len(L) - 1
        /\ calls[r] = RewindTo(0)
        /\ \A i \in 1 .. r - 1 : IsReset(calls[i]) \/ calls[i] = Probe
        /\ \A i \in 1 .. Len(L) - 1 : calls[r + i] = ImportOf(L[i + 1].hash)
  BY DEF Preparing
<1>5. Len(calls) = r + Len(M) - 1 /\ \A i \in 1 .. Len(M) - 1 : calls[r + i] = ImportOf(M[i + 1].hash)
  BY <1>1, <1>3, <1>4
<1> QED BY <1>4, <1>5 DEF Preparing

\* The exactness of what is left may be dropped.
LEMMA LeftWeaker ==
    ASSUME NEW c, NEW calls, NEW V, NEW L, NEW e \in BOOLEAN, NEW f \in BOOLEAN, f => e,
           Left(c, calls, V, L, e)
    PROVE  Left(c, calls, V, L, f)
<1>1. CASE Replaying(c, calls, V, L) \/ Preparing(calls, L)
  BY <1>1 DEF Left
<1>2. CASE GoingBack(c, calls, V, L, e)
  <2>1. GoingBack(c, calls, V, L, f)
    BY <1>2 DEF GoingBack
  <2> QED BY <2>1 DEF Left
<1>3. CASE Resting(c, calls, V, L, e)
  <2>1. Resting(c, calls, V, L, f)
    BY <1>3 DEF Resting, AtEnd
  <2> QED BY <2>1 DEF Left
<1> QED BY <1>1, <1>2, <1>3 DEF Left

\* An uncle that is mined and taken off leaves the client and the lists as they
\* were, up to the header kept with the last block.
LEMMA ProbeStep ==
    ASSUME EveryChild, TypedInv, ClientSingle, MineNextBlockAndRevert
    PROVE  NamedAlike /\ UNCHANGED chains /\ ClientSingle'
<1> DEFINE u == ChildOf(HeadBlock, CandidateKind, << >>)
<1> PICK L : L = named[currentName]
  OBVIOUS
<1>1. u \in Hash
  <2>1. CandidateKind \in Kind /\ << >> \in Seq(Hash)
    BY FillerAssumption, EmptySeq
  <2> QED BY <2>1, HeadKnown, ChildFits DEF TypedInv
<1>2. /\ named' = [named EXCEPT ![currentName] = WithNext(L, u)]
      /\ UNCHANGED <<chains, currentChain, maxChains>>
  BY DEF MineNextBlockAndRevert
<1> HIDE DEF u
<1>3. currentName \in DOMAIN named /\ \A n \in DOMAIN named : ChainFits(named[n])
  BY DEF TypedInv, ChainsFit
<1>4. Alike(WithNext(L, u), L)
  <2> DEFINE M == WithNext(L, u)
  <2>1. ChainFits(M) /\ Len(M) = Len(L) /\ \A i \in 1 .. Len(L) : M[i].hash = L[i].hash /\ M[i].valid = L[i].valid
    BY <1>1, <1>3, WithNextFits
  <2> HIDE DEF M
  <2>2. Alike(M, L)
    BY <2>1 DEF Alike
  <2> QED BY <2>2 DEF M
<1>5. \A n \in DOMAIN named : Alike(named[n], named[n])
  BY <1>3 DEF Alike
<1>6. NamedAlike
  <2>1. /\ DOMAIN named' = DOMAIN named
        /\ \A n \in DOMAIN named : named'[n] = IF n = currentName THEN WithNext(L, u) ELSE named[n]
    BY <1>2
  <2> QED BY <1>4, <1>5, <2>1 DEF NamedAlike
<1>7. ClientSingle'
  BY <1>2 DEF ClientSingle
<1> QED BY <1>2, <1>6, <1>7

-----------------------------------------------------------------------------
(* A call of the client *)

\* The next block of a list is imported: the client accepts it again, or again does
\* not, or still has no parent for it.
LEMMA ImportStep ==
    ASSUME ClientSingle, NEW V, NEW L, ChainFits(L), Imported(V, L, network),
           NEW k \in 1 .. Len(L) - 1, TipIs(chains[0], V, L, k), Import(L[k + 1].hash)
    PROVE  ClientSingle' /\ TipIs(chains'[0], V, L, k + 1)
<1> PICK h : h = L[k + 1].hash
  OBVIOUS
<1>1. Len(L) \in Nat /\ k + 1 \in 2 .. Len(L) /\ k + 1 \in 1 .. Len(L) /\ (k + 1) - 1 = k /\ k \in Nat
  BY BlocksOfList DEF ChainFits
<1>2. h \in Hash
  BY <1>1, BlocksOfList DEF ChainFits
<1>3. PICK i \in 1 .. k :
        /\ IsLast(V, k, i)
        /\ \/ /\ ParentOf[h] = L[i].hash
              /\ k + 1 \in V <=> Accepted(h, network)
           \/ /\ k + 1 \notin V
              /\ \A m \in 1 .. k : m \in V => ParentOf[h] # L[m].hash
  BY <1>1 DEF Imported
<1>4. PICK j \in 1 .. k : IsLast(V, k, j) /\ Tip(chains[0]).hash = L[j].hash
  BY DEF TipIs
<1>5. Tip(chains[0]).hash = L[i].hash
  BY <1>1, <1>3, <1>4, OneLast
<1>6. IsLast(V, k + 1, IF k + 1 \in V THEN k + 1 ELSE i) /\ k + 1 \in 1 .. k + 1 /\ i \in 1 .. k + 1
  BY <1>1, <1>3, NextLast
<1>7. CASE k + 1 \in V
  <2>1. ClientSingle' /\ Tip(chains'[0]).hash = h
    <3>1. ParentOf[h] = Tip(chains[0]).hash /\ Accepted(h, network)
      BY <1>3, <1>5, <1>7
    <3>2. GrownBy(h)
      BY <1>2, <3>1, ImportOnTip
    <3> QED BY <3>2, GrownHolds
  <2>2. IsLast(V, k + 1, k + 1)
    BY <1>6, <1>7
  <2> QED BY <1>6, <2>1, <2>2 DEF TipIs
<1>8. CASE k + 1 \notin V
  <2>1. UNCHANGED <<chains, currentChain, maxChains>>
    <3>1. CASE ParentOf[h] = L[i].hash /\ (k + 1 \in V <=> Accepted(h, network))
      BY <1>2, <1>5, <1>8, <3>1, ImportOnTip
    <3>2. CASE \A m \in 1 .. k : m \in V => ParentOf[h] # L[m].hash
      <4>1. k \in 1 .. Len(L) /\ GoodChain(chains[0])
        BY <1>1 DEF ClientSingle
      <4>2. \A a \in Hashes(chains[0]) : \E m \in 1 .. k : m \in V /\ a = L[m].hash
        BY <4>1, OnlyHeld
      <4>3. ParentOf[h] \notin Hashes(chains[0])
        BY <3>2, <4>2
      <4>4. Holders(ParentOf[h]) = {}
        BY <4>3, SingleGood DEF Holders
      <4>5. ImportUnreadable
        BY <4>4 DEF Import
      <4> QED BY <4>5 DEF ImportUnreadable, ImportFailed
    <3> QED BY <1>3, <3>1, <3>2
  <2>2. ClientSingle'
    BY <2>1 DEF ClientSingle
  <2>3. IsLast(V, k + 1, i)
    BY <1>6, <1>8
  <2> QED BY <1>5, <1>6, <2>1, <2>2, <2>3 DEF TipIs
<1> QED BY <1>7, <1>8

\* What one call does.
LEMMA OneCall ==
    ASSUME ClientCall, IsSequence(todo)
    PROVE  LET c == Head(todo) IN
           /\ todo # << >>
           /\ c = todo[1]
           /\ Len(todo) \in Nat \ {0} /\ Len(todo') = Len(todo) - 1
           /\ \A i \in 1 .. Len(todo) - 1 : todo'[i] = todo[i + 1]
           /\ UNCHANGED <<currentName, phase, block, prepared>>
           /\ \A n : c = RewindTo(n) => Rewind(n) /\ UNCHANGED named
           /\ \A h : c = ImportOf(h) => Import(h) /\ UNCHANGED named
           /\ IsReset(c) => SetChainParams /\ UNCHANGED named
           /\ c = Probe => MineNextBlockAndRevert
<1> DEFINE c == Head(todo)
<1>1. PICK S : todo \in Seq(S)
  BY DEF IsSequence
<1>2. todo # << >> /\ todo' = Tail(todo) /\ UNCHANGED <<currentName, phase, block, prepared>>
  BY DEF ClientCall
<1>3. /\ c = todo[1] /\ Len(todo) \in Nat \ {0} /\ Len(todo') = Len(todo) - 1
      /\ \A i \in 1 .. Len(todo) - 1 : todo'[i] = todo[i + 1]
  BY <1>1, <1>2
<1>4. \/ c.call = "reset"  /\ SetChainParams /\ UNCHANGED named
      \/ c.call = "rewind" /\ Rewind(c.number) /\ UNCHANGED named
      \/ c.call = "import" /\ Import(c.hash) /\ UNCHANGED named
      \/ c.call = "probe"  /\ MineNextBlockAndRevert
  BY DEF ClientCall
<1> HIDE DEF c
<1>5. ASSUME NEW n, c = RewindTo(n) PROVE Rewind(n) /\ UNCHANGED named
  <2>1. c.call = "rewind" /\ c.number = n
    BY <1>5 DEF RewindTo
  <2> QED BY <1>4, <2>1
<1>6. ASSUME NEW h, c = ImportOf(h) PROVE Import(h) /\ UNCHANGED named
  <2>1. c.call = "import" /\ c.hash = h
    BY <1>6 DEF ImportOf
  <2> QED BY <1>4, <2>1
<1>7. IsReset(c) => SetChainParams /\ UNCHANGED named
  BY <1>4 DEF IsReset
<1>8. c = Probe => MineNextBlockAndRevert
  <2>1. Probe.call = "probe"
    BY DEF Probe
  <2> QED BY <1>4, <2>1
<1> QED BY <1>2, <1>3, <1>5, <1>6, <1>7, <1>8 DEF c

\* A call of the history that is imported again.
LEMMA ReplayingStep ==
    ASSUME ClientSingle, IsSequence(todo), ClientCall, NEW V, NEW L, ChainFits(L),
           HasReset(todo) \/ Imported(V, L, network), Replaying(chains[0], todo, V, L)
    PROVE  ClientSingle' /\ UNCHANGED named /\ Replaying(chains'[0], todo', V, L)
<1> PICK T : T = Len(todo)
  OBVIOUS
<1> PICK N : N = Len(L)
  OBVIOUS
<1>1. T \in Nat \ {0} /\ N \in Nat \ {0} /\ T <= N - 1
  BY OneCall, BlocksOfList DEF Replaying, ChainFits
<1>2. \A i \in 1 .. T : todo[i] = ImportOf(L[N - T + i].hash)
  BY DEF Replaying
<1>3. Imported(V, L, network)
  <2>1. PICK S : todo \in Seq(S)
    BY DEF IsSequence
  <2>2. DOMAIN todo = 1 .. T
    BY <2>1
  <2>3. \A h : ~ IsReset(ImportOf(h))
    BY DEF IsReset, ImportOf
  <2>4. ~ HasReset(todo)
    BY <1>2, <2>2, <2>3 DEF HasReset
  <2> QED BY <2>4
<1> PICK k : k = N - T
  OBVIOUS
<1>4. Head(todo) = ImportOf(L[k + 1].hash)
  BY <1>1, <1>2, OneCall
<1>5. Import(L[k + 1].hash) /\ UNCHANGED named
  BY <1>4, OneCall
<1>6. k \in 1 .. Len(L) - 1 /\ TipIs(chains[0], V, L, k)
  BY <1>1 DEF Replaying
<1>7. ClientSingle' /\ TipIs(chains'[0], V, L, k + 1)
  BY <1>3, <1>5, <1>6, ImportStep
<1>8. Len(todo') = T - 1 /\ \A i \in 1 .. T - 1 : todo'[i] = todo[i + 1]
  BY OneCall
<1>9. N - (T - 1) = k + 1 /\ T - 1 <= N - 1
  BY <1>1
<1>10. \A i \in 1 .. T - 1 : todo'[i] = ImportOf(L[N - (T - 1) + i].hash)
  <2> SUFFICES ASSUME NEW i \in 1 .. T - 1 PROVE todo'[i] = ImportOf(L[N - (T - 1) + i].hash)
    OBVIOUS
  <2>1. i \in Nat /\ i + 1 \in 1 .. T
    BY <1>1
  <2>2. N - T + (i + 1) = N - (T - 1) + i
    <3>1. N \in Int /\ T \in Int /\ i \in Int
      BY <1>1, <2>1
    <3>2. \A x, y, z \in Int : x - y + (z + 1) = x - (y - 1) + z
      OBVIOUS
    <3> QED BY <3>1, <3>2
  <2> QED BY <1>2, <1>8, <2>1, <2>2
<1> QED BY <1>5, <1>7, <1>8, <1>9, <1>10 DEF Replaying

\* A call before the history is imported again.
LEMMA PreparingStep ==
    ASSUME EveryChild, TypedInv, ClientSingle, IsSequence(todo), ClientCall,
           NEW V, 1 \in V, NEW L, L = named[currentName], ChainFits(L), Preparing(todo, L),
           NEW e \in BOOLEAN
    PROVE  /\ ClientSingle' /\ NamedAlike
           /\ Left(chains'[0], todo', V, named'[currentName], e)
<1> PICK T : T = Len(todo)
  OBVIOUS
<1> PICK N : N = Len(L)
  OBVIOUS
<1>1. N \in Nat \ {0} /\ L[1].hash = Genesis
  BY BlocksOfList DEF ChainFits
<1>2. PICK r \in 1 .. T :
        /\ T = r + N - 1
        /\ todo[r] = RewindTo(0)
        /\ \A i \in 1 .. r - 1 : IsReset(todo[i]) \/ todo[i] = Probe
        /\ \A i \in 1 .. N - 1 : todo[r + i] = ImportOf(L[i + 1].hash)
  BY DEF Preparing
<1>3. T \in Nat \ {0} /\ Len(todo') = T - 1 /\ \A i \in 1 .. T - 1 : todo'[i] = todo[i + 1]
  BY OneCall
<1>4. \A n \in DOMAIN named : Alike(named[n], named[n])
  BY DEF TypedInv, ChainsFit, Alike
<1>5. CASE r = 1
  <2>1. Rewind(0) /\ UNCHANGED named
    BY <1>2, <1>5, OneCall
  <2>2. 0 \in 0 .. Len(chains[0]) - 1 /\ chains[0][1].hash = Genesis
    BY SingleGood DEF ClientSingle, GoodChain
  <2>3. ClientSingle' /\ Tip(chains'[0]).hash = Genesis
    BY <2>1, <2>2, RewindSingle
  <2>4. IsLast(V, 1, 1)
    BY DEF IsLast
  <2>5. TipIs(chains'[0], V, L, 1)
    BY <1>1, <2>3, <2>4 DEF TipIs
  <2>6. Len(todo') = N - 1 /\ N - (N - 1) = 1 /\ N - 1 <= N - 1
    BY <1>1, <1>2, <1>3, <1>5
  <2>7. \A i \in 1 .. N - 1 : todo'[i] = ImportOf(L[N - (N - 1) + i].hash)
    BY <1>1, <1>2, <1>3, <1>5, <2>6
  <2>8. Replaying(chains'[0], todo', V, L)
    BY <1>1, <2>5, <2>6, <2>7 DEF Replaying
  <2>9. NamedAlike
    BY <1>4, <2>1 DEF NamedAlike
  <2> QED BY <2>1, <2>3, <2>8, <2>9 DEF Left
<1>6. CASE r # 1
  <2>1. IsReset(Head(todo)) \/ Head(todo) = Probe
    BY <1>2, <1>6, OneCall
  <2>2. ClientSingle' /\ NamedAlike
    <3>1. CASE IsReset(Head(todo))
      <4>1. SetChainParams /\ UNCHANGED named
        BY <3>1, OneCall
      <4> QED BY <1>4, <4>1, ResetSingle DEF NamedAlike
    <3>2. CASE Head(todo) = Probe
      BY <3>2, OneCall, ProbeStep
    <3> QED BY <2>1, <3>1, <3>2
  <2>3. Alike(named'[currentName], L)
    BY <2>2 DEF NamedAlike, TypedInv, ChainsFit
  <2>4. /\ r - 1 \in 1 .. Len(todo') /\ Len(todo') = (r - 1) + N - 1
        /\ todo'[r - 1] = RewindTo(0)
    BY <1>1, <1>2, <1>3, <1>6
  <2>5. \A i \in 1 .. (r - 1) - 1 : IsReset(todo'[i]) \/ todo'[i] = Probe
    <3> SUFFICES ASSUME NEW i \in 1 .. (r - 1) - 1 PROVE IsReset(todo'[i]) \/ todo'[i] = Probe
      OBVIOUS
    <3>1. i \in 1 .. T - 1 /\ i + 1 \in 1 .. r - 1
      BY <1>1, <1>2
    <3> QED BY <1>2, <1>3, <3>1
  <2>6. \A i \in 1 .. N - 1 : todo'[(r - 1) + i] = ImportOf(L[i + 1].hash)
    <3> SUFFICES ASSUME NEW i \in 1 .. N - 1 PROVE todo'[(r - 1) + i] = ImportOf(L[i + 1].hash)
      OBVIOUS
    <3>1. (r - 1) + i \in 1 .. T - 1 /\ ((r - 1) + i) + 1 = r + i
      BY <1>1, <1>2, <1>6
    <3> QED BY <1>2, <1>3, <3>1
  <2>7. Preparing(todo', L)
    BY <2>4, <2>5, <2>6 DEF Preparing
  <2>8. Preparing(todo', named'[currentName])
    BY <2>3, <2>7, PreparingAlike
  <2> QED BY <2>2, <2>8 DEF Left
<1> QED BY <1>5, <1>6

\* The call that is the only one.
LEMMA LastCall ==
    ASSUME ClientCall, IsSequence(todo), NEW c, todo = << c >>
    PROVE  Head(todo) = c /\ todo' = << >>
BY DEF ClientCall

\* The call that winds the client back on its own chain.
LEMMA GoingBackStep ==
    ASSUME ClientSingle, IsSequence(todo), ClientCall, NEW V, NEW L, NEW e \in BOOLEAN,
           GoingBack(chains[0], todo, V, L, e)
    PROVE  ClientSingle' /\ UNCHANGED named /\ Resting(chains'[0], todo', V, L, e)
<1> PICK N : N = Len(chains[0])
  OBVIOUS
<1>1. PICK n \in Nat :
        /\ todo = << RewindTo(n) >>
        /\ \E i \in 1 .. Len(L), p \in 1 .. N :
              /\ IsLast(V, Len(L), i) /\ chains[0][p].hash = L[i].hash
              /\ p <= n + 1 /\ (e => p = n + 1)
  BY DEF GoingBack
<1>2. PICK i \in 1 .. Len(L), p \in 1 .. N :
        /\ IsLast(V, Len(L), i) /\ chains[0][p].hash = L[i].hash
        /\ p <= n + 1 /\ (e => p = n + 1)
  BY <1>1
<1>3. Head(todo) = RewindTo(n) /\ todo' = << >>
  BY <1>1, LastCall
<1>4. Rewind(n) /\ UNCHANGED named
  BY <1>3, OneCall
<1>5. N \in Nat \ {0} /\ currentChain = 0 /\ DOMAIN chains[0] = 1 .. N
  BY SingleGood DEF ClientSingle
<1>6. CASE n < N
  <2>1. n \in 0 .. N - 1
    BY <1>5, <1>6
  <2>2. /\ ClientSingle' /\ Tip(chains'[0]).hash = chains[0][n + 1].hash
        /\ \A j \in 1 .. n + 1 : chains[0][j].hash \in Hashes(chains'[0])
    BY <1>4, <2>1, RewindSingle
  <2>3. p \in 1 .. n + 1
    BY <1>2
  <2>4. L[i].hash \in Hashes(chains'[0]) /\ (e => Tip(chains'[0]).hash = L[i].hash)
    BY <1>2, <2>2, <2>3
  <2> QED BY <1>2, <1>3, <1>4, <2>2, <2>4 DEF Resting, AtEnd
<1>7. CASE ~ (n < N)
  <2>1. UNCHANGED <<chains, currentChain, maxChains>>
    BY <1>4, <1>5, <1>7 DEF Rewind
  <2>2. ~ e /\ L[i].hash \in Hashes(chains[0])
    BY <1>2, <1>5, <1>7 DEF Hashes
  <2>3. AtEnd(chains'[0], V, L, e)
    BY <1>2, <2>1, <2>2 DEF AtEnd
  <2> QED BY <1>3, <1>4, <2>1, <2>3 DEF Resting, ClientSingle
<1> QED BY <1>6, <1>7

\* The call that mines an uncle after a block.
LEMMA RestingStep ==
    ASSUME EveryChild, TypedInv, ClientSingle, IsSequence(todo), ClientCall,
           NEW V, NEW e \in BOOLEAN, Resting(chains[0], todo, V, named[currentName], e)
    PROVE  /\ ClientSingle' /\ NamedAlike
           /\ Resting(chains'[0], todo', V, named'[currentName], e)
<1>1. todo = << Probe >> /\ AtEnd(chains[0], V, named[currentName], e)
  BY DEF Resting, ClientCall
<1>2. Head(todo) = Probe /\ todo' = << >>
  BY <1>1, LastCall
<1>3. MineNextBlockAndRevert
  BY <1>2, OneCall
<1>4. NamedAlike /\ UNCHANGED chains /\ ClientSingle'
  BY <1>3, ProbeStep
<1>5. Alike(named'[currentName], named[currentName])
  BY <1>4 DEF NamedAlike, TypedInv, ChainsFit
<1>6. AtEnd(chains[0], V, named'[currentName], e)
  BY <1>1, <1>5, AtEndAlike
<1>7. AtEnd(chains'[0], V, named'[currentName], e)
  BY <1>4, <1>6
<1> QED BY <1>2, <1>4, <1>7 DEF Resting

\* The accounts of the chains hold on through a step that changes no list.
LEMMA AccountsKept ==
    ASSUME NEW careful \in BOOLEAN, TypedInv, TypedInv', NamedAlike,
           NEW n \in DOMAIN named, NEW V, Account(V, named[n], NetOf[n], careful)
    PROVE  Account(V, named'[n], NetOf[n], careful)
<1> PICK L : L = named[n]
  OBVIOUS
<1> PICK M : M = named'[n]
  OBVIOUS
<1>1. Alike(M, L)
  BY DEF NamedAlike
<1>2. ChainFits(M) /\ Len(M) = Len(L) /\ \A i \in 1 .. Len(M) : M[i].hash = L[i].hash /\ M[i].valid = L[i].valid
  BY <1>1 DEF Alike
<1>3. Len(M) <= Len(L)
  BY <1>2, BlocksOfList DEF ChainFits
<1> QED BY <1>2, <1>3, AccountAlike

\* A step that changes no list, but may bring the client nearer to its end.
LEMMA StillRestored ==
    ASSUME NEW careful \in BOOLEAN, TypedInv, TypedInv', Filling, RestoredInv(careful),
           ClientSingle', NamedAlike, UNCHANGED currentName,
           NEW V, Account(V, named[currentName], NetOf[currentName], careful),
           NEW e \in BOOLEAN, e <=> (careful \/ Made(named[currentName])),
           Left(chains'[0], todo', V, named'[currentName], e)
    PROVE  RestoredInv(careful)'
<1> DEFINE M == named'[currentName]
           f == careful \/ Made(M)
<1>1. currentName \in DOMAIN named /\ DOMAIN named' = DOMAIN named
  BY DEF TypedInv, ChainsFit, NamedAlike
<1>2. \A n \in DOMAIN named' : \E W : Account(W, named'[n], NetOf[n], careful)
  BY <1>1, AccountsKept DEF RestoredInv
<1>3. Account(V, M, NetOf[currentName], careful)
  BY <1>1, AccountsKept
<1>4. Made(M) <=> Made(named[currentName])
  BY <1>1, MadeAlike DEF NamedAlike, TypedInv, ChainsFit
<1>5. f \in BOOLEAN /\ (f => e)
  BY <1>4
<1> HIDE DEF f
<1>6. Left(chains'[0], todo', V, M, f)
  BY <1>5, LeftWeaker
<1>7. Left(chains'[0], todo', V, named'[currentName'], careful \/ Made(named'[currentName']))
  BY <1>6 DEF f
<1> QED BY <1>2, <1>3, <1>7 DEF RestoredInv

\* ClientCall.
LEMMA CallRestored ==
    ASSUME NEW careful \in BOOLEAN, EveryChild, TypedInv, Inv, RestoredInv(careful), ClientCall
    PROVE  RestoredInv(careful)'
<1> DEFINE e == careful \/ Made(named[currentName])
<1> SUFFICES ASSUME Filling' PROVE RestoredInv(careful)'
  BY DEF RestoredInv
<1>1. UNCHANGED <<currentName, phase>>
  BY DEF ClientCall
<1>2. Filling
  BY <1>1 DEF Filling
<1>3. IsSequence(todo) /\ (HasReset(todo) \/ network = NetOf[currentName])
  BY <1>2 DEF Inv, NetworkInv, Filling, ResetsOnlyTo
<1>4. TypedInv'
  BY CallTyped
<1> PICK L : L = named[currentName]
  OBVIOUS
<1>5. PICK V : Account(V, L, NetOf[currentName], careful) /\ Left(chains[0], todo, V, L, e)
  BY <1>2 DEF RestoredInv
<1>6. ClientSingle /\ ChainFits(L) /\ Imported(V, L, NetOf[currentName]) /\ 1 \in V
  BY <1>2, <1>5 DEF RestoredInv, Account, Imported
<1>7. e \in BOOLEAN /\ (e <=> (careful \/ Made(named[currentName])))
  OBVIOUS
<1> HIDE DEF e
<1>8. ClientSingle' /\ NamedAlike /\ Left(chains'[0], todo', V, named'[currentName], e)
  <2>1. UNCHANGED named => NamedAlike
    BY DEF NamedAlike, Alike, TypedInv, ChainsFit
  <2>2. CASE Replaying(chains[0], todo, V, L)
    <3>1. HasReset(todo) \/ Imported(V, L, network)
      BY <1>3, <1>6
    <3>2. ClientSingle' /\ UNCHANGED named /\ Replaying(chains'[0], todo', V, L)
      BY <1>3, <1>6, <2>2, <3>1, ReplayingStep
    <3> QED BY <2>1, <3>2 DEF Left
  <2>3. CASE Preparing(todo, L)
    BY <1>3, <1>6, <1>7, <2>3, PreparingStep
  <2>4. CASE GoingBack(chains[0], todo, V, L, e)
    <3>1. ClientSingle' /\ UNCHANGED named /\ Resting(chains'[0], todo', V, L, e)
      BY <1>3, <1>6, <1>7, <2>4, GoingBackStep
    <3> QED BY <2>1, <3>1 DEF Left
  <2>5. CASE Resting(chains[0], todo, V, L, e)
    <3>1. /\ ClientSingle' /\ NamedAlike
          /\ Resting(chains'[0], todo', V, named'[currentName], e)
      BY <1>3, <1>6, <1>7, <2>5, RestingStep
    <3> QED BY <3>1 DEF Left
  <2> QED BY <1>5, <2>2, <2>3, <2>4, <2>5 DEF Left
<1> QED BY <1>1, <1>2, <1>4, <1>5, <1>7, <1>8, StillRestored

-----------------------------------------------------------------------------
(* The calls that restore a chain *)

\* One call more before the client is wound back.
LEMMA PreparingMore ==
    ASSUME NEW L, NEW calls, IsSequence(calls), Preparing(calls, L), Len(L) \in Nat,
           NEW c, IsReset(c) \/ c = Probe
    PROVE  Preparing(<< c >> \o calls, L)
<1>1. PICK S : calls \in Seq(S)
  BY DEF IsSequence
<1> DEFINE more == << c >> \o calls
<1>2. /\ Len(more) = Len(calls) + 1 /\ Len(calls) \in Nat
      /\ more[1] = c
      /\ \A i \in 1 .. Len(calls) : more[i + 1] = calls[i]
  <2>1. << c >> \in Seq(S \cup {c}) /\ calls \in Seq(S \cup {c}) /\ Len(<< c >>) = 1 /\ << c >>[1] = c
    BY <1>1
  <2>2. /\ Len(more) = 1 + Len(calls)
        /\ \A i \in 1 .. 1 + Len(calls) : more[i] = IF i <= 1 THEN << c >>[i] ELSE calls[i - 1]
    BY <2>1, ConcatProperties
  <2>3. Len(calls) \in Nat
    BY <1>1
  <2> QED BY <2>1, <2>2, <2>3
<1> HIDE DEF more
<1>3. PICK r \in 1 .. Len(calls) :
        /\ Len(calls) = r + Len(L) - 1
        /\ calls[r] = RewindTo(0)
        /\ \A i \in 1 .. r - 1 : IsReset(calls[i]) \/ calls[i] = Probe
        /\ \A i \in 1 .. Len(L) - 1 : calls[r + i] = ImportOf(L[i + 1].hash)
  BY DEF Preparing
<1>4. /\ r + 1 \in 1 .. Len(more)
      /\ Len(more) = (r + 1) + Len(L) - 1
      /\ more[r + 1] = RewindTo(0)
  BY <1>2, <1>3
<1>5. ASSUME NEW i \in 1 .. (r + 1) - 1
      PROVE  IsReset(more[i]) \/ more[i] = Probe
  <2>1. CASE i = 1
    BY <1>2, <2>1
  <2>2. CASE i # 1
    <3>1. i - 1 \in 1 .. r - 1 /\ i - 1 \in 1 .. Len(calls) /\ (i - 1) + 1 = i
      BY <1>2, <1>3, <2>2
    <3>2. more[i] = calls[i - 1]
      BY <1>2, <3>1
    <3> QED BY <1>3, <3>1, <3>2
  <2> QED BY <2>1, <2>2
<1>6. ASSUME NEW i \in 1 .. Len(L) - 1
      PROVE  more[(r + 1) + i] = ImportOf(L[i + 1].hash)
  <2>1. r + i \in 1 .. Len(calls) /\ (r + 1) + i = (r + i) + 1
    BY <1>2, <1>3
  <2> QED BY <1>2, <1>3, <2>1
<1>7. Preparing(more, L)
  BY <1>4, <1>5, <1>6 DEF Preparing
<1> QED BY <1>7 DEF more

\* The calls that restore a chain: to the genesis, and the chain from there.
LEMMA PreparingReplay ==
    ASSUME NEW L, ChainFits(L), NEW number \in Nat \ {0}
    PROVE  LET calls == << RewindTo(0) >> \o Replay(L, number) IN
           IsSequence(calls) /\ Preparing(calls, Before(L, number))
<1> DEFINE M == Before(L, number)
           replay == Replay(L, number)
           call(i) == ImportOf(M[i + 1].hash)
           calls == << RewindTo(0) >> \o replay
<1>1. Len(M) \in Nat \ {0}
  <2>1. ChainFits(M)
    BY BeforeFirst
  <2> HIDE DEF M
  <2> QED BY <2>1, BlocksOfList DEF ChainFits
<1>2. replay = [i \in 1 .. Len(M) - 1 |-> call(i)]
  BY DEF Replay
<1>3. \A i \in 1 .. Len(M) - 1 : call(i) = ImportOf(M[i + 1].hash)
  OBVIOUS
<1> HIDE DEF M, call
<1> DEFINE S == {call(i) : i \in 1 .. Len(M) - 1} \cup {RewindTo(0)}
<1>4. replay \in Seq(S) /\ Len(replay) = Len(M) - 1 /\ \A i \in 1 .. Len(M) - 1 : replay[i] = call(i)
  BY <1>1, <1>2
<1>5. << RewindTo(0) >> \in Seq(S) /\ Len(<< RewindTo(0) >>) = 1 /\ << RewindTo(0) >>[1] = RewindTo(0)
  OBVIOUS
<1> HIDE DEF S, replay
<1>6. /\ calls \in Seq(S) /\ Len(calls) = 1 + (Len(M) - 1)
      /\ \A i \in 1 .. 1 + (Len(M) - 1) :
            calls[i] = IF i <= 1 THEN << RewindTo(0) >>[i] ELSE replay[i - 1]
  BY <1>4, <1>5, ConcatProperties
<1> HIDE DEF calls
<1>7. /\ 1 \in 1 .. Len(calls) /\ Len(calls) = 1 + Len(M) - 1 /\ calls[1] = RewindTo(0)
      /\ \A i \in 1 .. 1 - 1 : IsReset(calls[i]) \/ calls[i] = Probe
  BY <1>1, <1>5, <1>6
<1>8. \A i \in 1 .. Len(M) - 1 : calls[1 + i] = ImportOf(M[i + 1].hash)
  <2> SUFFICES ASSUME NEW i \in 1 .. Len(M) - 1 PROVE calls[1 + i] = ImportOf(M[i + 1].hash)
    OBVIOUS
  <2>1. 1 + i \in 1 .. 1 + (Len(M) - 1) /\ ~ (1 + i <= 1) /\ 1 + i - 1 = i
    BY <1>1
  <2>2. calls[1 + i] = replay[i]
    BY <1>6, <2>1
  <2> QED BY <1>3, <1>4, <2>2
<1>9. Preparing(calls, M)
  BY <1>7, <1>8 DEF Preparing
<1> QED BY <1>6, <1>9 DEF calls, M, replay, IsSequence

\* Calls before other calls.
LEMMA Prefixed ==
    ASSUME NEW s, IsSequence(s), NEW c
    PROVE  /\ IsSequence(<< c >> \o s) /\ << >> \o s = s /\ s \o << >> = s
<1>1. PICK S : s \in Seq(S)
  BY DEF IsSequence
<1>2. << >> \o s = s /\ s \o << >> = s
  BY <1>1, ConcatEmptySeq
<1>3. IsSequence(<< c >> \o s)
  <2>1. s \in Seq(S \cup {c}) /\ << c >> \in Seq(S \cup {c})
    BY <1>1
  <2>2. << c >> \o s \in Seq(S \cup {c})
    BY <2>1, ConcatProperties
  <2> QED BY <2>2 DEF IsSequence
<1> QED BY <1>2, <1>3

\* One call, some calls and other calls.
LEMMA Reassociated ==
    ASSUME NEW s, IsSequence(s), NEW t, IsSequence(t), NEW c
    PROVE  (<< c >> \o t) \o s = << c >> \o (t \o s)
<1>1. PICK S : s \in Seq(S)
  BY DEF IsSequence
<1>2. PICK T : t \in Seq(T)
  BY DEF IsSequence
<1>3. /\ s \in Seq(S \cup T \cup {c}) /\ t \in Seq(S \cup T \cup {c})
      /\ << c >> \in Seq(S \cup T \cup {c})
  BY <1>1, <1>2
<1> QED BY <1>3, ConcatAssociative

\* The calls made before a block on another chain.
LEMMA PreparingCalls ==
    ASSUME NEW b, b.chain # currentName, NumberAsked(b) \in Nat \ {0},
           ChainFits(ChainAsked(b))
    PROVE  Preparing(CallsOfNewChain(b) \o CallsToRestore(b), Before(ChainAsked(b), NumberAsked(b)))
<1> DEFINE C == ChainAsked(b)
           M == Before(C, NumberAsked(b))
           rewind == << RewindTo(0) >>
           replay == Replay(C, NumberAsked(b))
           reset == << ResetTo(NetOf[b.chain]) >>
           setup == IF NetOf[currentName] # NetOf[b.chain] THEN reset ELSE << >>
           calls == rewind \o replay
           restore == CallsToRestore(b)
           Ready(s) == IsSequence(s) /\ Preparing(s, M)
<1>1. Len(M) \in Nat
  BY BeforeFirst, BlocksOfList DEF ChainFits
<1>2. Ready(calls)
  BY PreparingReplay
<1>3. \A x : ResetsOnlyTo(replay, x)
  BY <1>1, ReplayResetsNothing
<1>4. IsSequence(replay) /\ IsSequence(rewind) /\ IsSequence(<< Probe >>)
  <2>1. rewind \in Seq({RewindTo(0)}) /\ << Probe >> \in Seq({Probe})
    OBVIOUS
  <2> QED BY <1>3, <2>1 DEF ResetsOnlyTo, IsSequence
<1>5. restore = (setup \o rewind) \o replay
  BY DEF CallsToRestore, MustRestore
<1>6. IsReset(ResetTo(NetOf[b.chain]))
  BY DEF IsReset, ResetTo
<1> HIDE DEF calls, restore, replay, rewind, M
<1>7. ASSUME NEW s, Ready(s)
      PROVE  Ready(reset \o s) /\ Ready(<< Probe >> \o s)
  BY <1>1, <1>6, <1>7, Prefixed, PreparingMore
<1>13. ASSUME NEW s, IsSequence(s), NEW t, IsSequence(t)
       PROVE  (reset \o t) \o s = reset \o (t \o s)
  BY <1>13, Reassociated, Zenon
<1>8. Ready(restore)
  <2>1. CASE setup = reset
    <3>1. (reset \o rewind) \o replay = reset \o (rewind \o replay)
      BY <1>4, <1>13, Zenon
    <3>2. restore = reset \o calls
      BY <1>5, <2>1, <3>1 DEF calls
    <3> QED BY <1>2, <1>7, <3>2
  <2>2. CASE setup = << >>
    <3>1. << >> \o rewind = rewind
      BY <1>4, Prefixed
    <3>2. restore = calls
      BY <1>5, <2>2, <3>1 DEF calls
    <3> QED BY <1>2, <3>2
  <2> QED BY <2>1, <2>2
<1>9. CallsOfNewChain(b) \in {<< >>, << >> \o << Probe >>, reset \o << Probe >>}
  BY DEF CallsOfNewChain
<1>10. CASE CallsOfNewChain(b) = << >>
  BY <1>8, <1>10, Prefixed DEF restore, M
<1>11. CASE CallsOfNewChain(b) = << >> \o << Probe >>
  <2>1. << >> \o << Probe >> = << Probe >>
    BY <1>4, Prefixed
  <2> QED BY <1>7, <1>8, <1>11, <2>1 DEF restore, M
<1>12. CASE CallsOfNewChain(b) = reset \o << Probe >>
  <2>1. (reset \o << Probe >>) \o restore = reset \o (<< Probe >> \o restore)
    BY <1>4, <1>8, <1>13, Zenon
  <2>2. Ready(reset \o (<< Probe >> \o restore))
    BY <1>7, <1>8
  <2> QED BY <1>12, <2>1, <2>2 DEF restore, M
<1> QED BY <1>9, <1>10, <1>11, <1>12

-----------------------------------------------------------------------------
(* A filler block is read *)

\* No block goes back on its own chain over one that is invalid.
GoesBackOverValid ==
    \A b \in FillerBlocks[hasUncles] :
        ParseBlock(b) /\ b.chain = currentName /\ MustRestore(b)
            => Made(Before(named[currentName], NumberAsked(b)))

\* Where no call is left the client is at the end of the chain.
LEMMA NothingLeft ==
    ASSUME NEW c, GoodChain(c), NEW V, NEW L, ChainFits(L), NEW e \in BOOLEAN, Left(c, << >>, V, L, e)
    PROVE  AtEnd(c, V, L, e)
<1>1. Len(<< >>) = 0 /\ Len(L) \in Nat /\ Len(L) - 0 = Len(L) /\ 1 .. 0 = {}
  BY BlocksOfList DEF ChainFits
<1>2. CASE Replaying(c, << >>, V, L)
  <2>1. TipIs(c, V, L, Len(L))
    BY <1>1, <1>2 DEF Replaying
  <2> QED BY <2>1, TipAtEnd
<1>3. CASE Resting(c, << >>, V, L, e)
  BY <1>3 DEF Resting
<1>4. ~ Preparing(<< >>, L)
  BY <1>1 DEF Preparing
<1>5. ~ GoingBack(c, << >>, V, L, e)
  <2>1. \A x : << x >> # << >>
    OBVIOUS
  <2> QED BY <2>1 DEF GoingBack
<1> QED BY <1>2, <1>3, <1>4, <1>5 DEF Left

\* The client is wound back on its own chain: the block before the number that it
\* holds is not above it, and at it if all blocks up to there are valid.
LEMMA GoingBackParsed ==
    ASSUME NEW c, GoodChain(c), NEW V, NEW L, NEW net, NEW careful \in BOOLEAN,
           Account(V, L, net, careful), NEW a \in BOOLEAN, AtEnd(c, V, L, a),
           NEW number \in Nat \ {0}, number < Len(L),
           NEW M, M = Before(L, number), careful => Made(M), NEW e \in BOOLEAN, e => careful \/ Made(M)
    PROVE  GoingBack(c, << RewindTo(number - 1) >>, V, M, e)
<1>1. ChainFits(L) /\ Imported(V, L, net) /\ Len(L) \in Nat /\ number \in 1 .. Len(L)
  BY BlocksOfList DEF Account, ChainFits
<1>2. ChainFits(M) /\ Len(M) = number /\ \A i \in 1 .. number : M[i] = L[i]
  BY <1>1, BeforeFirst
<1>3. DOMAIN M = 1 .. number
  BY <1>2, BlocksOfList DEF ChainFits
<1>4. PICK i \in 1 .. number : IsLast(V, number, i)
  BY <1>1, LastExists
<1>5. i \in 1 .. Len(L) /\ i \in V /\ number \in 1 .. number
  BY <1>1, <1>4 DEF IsLast
<1>6. PICK p \in 1 .. Len(c) :
              /\ c[p].hash = L[i].hash
              /\ p <= i
              /\ (\A j \in 1 .. i : j \in V) => p = i
  BY <1>1, <1>5, HeldOnClient
<1>7. p <= (number - 1) + 1
  <2>1. p \in Nat
    BY GoodChainElements
  <2> QED BY <1>4, <1>6, <2>1
<1>8. Made(M) => p = (number - 1) + 1
  <2> SUFFICES ASSUME Made(M) PROVE p = (number - 1) + 1
    OBVIOUS
  <2>1. \A j \in 1 .. number : M[j].valid /\ L[j].valid = M[j].valid
    BY <1>2, <1>3 DEF Made
  <2>2. \A j \in 1 .. number : L[j].valid
    BY <2>1
  <2>3. \A j \in 1 .. number : j \in V
    <3> SUFFICES ASSUME NEW j \in 1 .. number PROVE j \in V
      OBVIOUS
    <3>1. j \in 1 .. Len(L) /\ \A k \in 1 .. j : k \in 1 .. number
      BY <1>1
    <3>2. j \in V <=> L[j].valid
      BY <2>2, <3>1 DEF Account, AsMade
    <3> QED BY <2>2, <3>2
  <2>4. IsLast(V, number, number)
    BY <1>5, <2>3 DEF IsLast
  <2>5. i = number
    BY <1>4, <2>4, OneLast
  <2>6. p = i
    BY <1>6, <2>3, <2>5
  <2> QED BY <2>5, <2>6
<1>9. IsLast(V, Len(M), i) /\ i \in 1 .. Len(M) /\ c[p].hash = M[i].hash
  BY <1>2, <1>4, <1>6
<1>10. e => p = (number - 1) + 1
  BY <1>8
<1>11. number - 1 \in Nat
  OBVIOUS
<1> QED BY <1>7, <1>9, <1>10, <1>11 DEF GoingBack

\* The manager starts with the default chain, and the client with a genesis.
LEMMA InitRestored ==
    ASSUME NEW careful \in BOOLEAN, EveryChild, FillerInit
    PROVE  RestoredInv(careful)
<1> DEFINE G == << TestBlock(Genesis, TRUE, << >>) >>
           u == ChildOf(Genesis, CandidateKind, << >>)
<1>1. u \in Hash
  <2>1. CandidateKind \in Kind /\ << >> \in Seq(Hash) /\ Genesis \in Hash
    BY FillerAssumption, BlocksAssumption, EmptySeq
  <2> QED BY <2>1, ChildFits
<1>2. /\ named = [n \in {DefaultName} |-> WithNext(G, u)] /\ currentName = DefaultName
      /\ chains = [c \in {0} |-> NewChain] /\ currentChain = 0 /\ maxChains = 0
      /\ todo = << >>
  BY DEF FillerInit, Init
<1>3. ChainFits(G) /\ Len(G) = 1
  <2>1. \A x : Len(<< x >>) = 1
    OBVIOUS
  <2> QED BY <2>1, NewChainFits, Zenon
<1>4. \A net : Account({1}, G, net, careful)
  BY AccountGenesis, Zenon
<1>5. G[1].hash = Genesis
  BY <1>3 DEF ChainFits
<1> HIDE DEF G, u
<1> PICK L : L = WithNext(G, u)
  OBVIOUS
<1>6. /\ ChainFits(L) /\ Len(L) = 1
      /\ \A j \in 1 .. 1 : L[j].hash = G[j].hash /\ L[j].valid = G[j].valid
  BY <1>1, <1>3, WithNextFits
<1>7. \A net : Account({1}, L, net, careful)
  BY <1>3, <1>4, <1>6, AccountAlike
<1>8. ClientSingle
  <2>1. chains[0] = NewChain /\ chains = [c \in {0} |-> chains[0]]
    BY <1>2
  <2> QED BY <1>2, <2>1, NewChainGood DEF ClientSingle
<1>9. TipIs(chains[0], {1}, L, Len(L))
  <2>1. GoodChain(chains[0]) /\ Tip(chains[0]).hash = Genesis
    <3>1. chains[0] = NewChain
      BY <1>2
    <3>2. Len(NewChain) = 1 /\ NewChain[1].hash = Genesis
      BY NewChainGood DEF NewChain, GoodChain
    <3> HIDE DEF NewChain
    <3> QED BY <3>1, <3>2, NewChainGood DEF Tip
  <2>2. IsLast({1}, 1, 1) /\ 1 \in 1 .. 1
    BY DEF IsLast
  <2> QED BY <1>5, <1>6, <2>1, <2>2 DEF TipIs
<1> PICK e \in BOOLEAN : e <=> (careful \/ Made(L))
  OBVIOUS
<1>10. Left(chains[0], todo, {1}, L, e)
  <2>1. AtEnd(chains[0], {1}, L, e)
    BY <1>8, <1>9, TipAtEnd DEF ClientSingle
  <2> QED BY <1>2, <2>1 DEF Left, Resting
<1>11. DOMAIN named = {DefaultName} /\ named[currentName] = L /\ \A n \in DOMAIN named : named[n] = L
  BY <1>2
<1>12. Left(chains[0], todo, {1}, L, careful \/ Made(L))
  BY <1>10, LeftWeaker
<1> QED BY <1>7, <1>8, <1>11, <1>12 DEF RestoredInv

\* What is known between two handlers, when no call is left.
LEMMA AtRest ==
    ASSUME NEW careful \in BOOLEAN, TypedInv, Inv, RestoredInv(careful), Filling, todo = << >>,
           NEW L, L = named[currentName], NEW e \in BOOLEAN, e <=> (careful \/ Made(L))
    PROVE  /\ ClientSingle /\ GoodChain(chains[0]) /\ currentName \in DOMAIN named
           /\ network = NetOf[currentName]
           /\ HeadBlock \in Hash /\ HeadBlock = Tip(chains[0]).hash
           /\ \E V : Account(V, L, NetOf[currentName], careful) /\ AtEnd(chains[0], V, L, e)
<1>1. ClientSingle /\ GoodChain(chains[0])
  BY DEF RestoredInv, ClientSingle
<1>2. currentName \in DOMAIN named /\ network = NetOf[currentName]
  BY NoCalls DEF Inv, NamedInv, NetworkInv, Filling
<1>3. PICK V : Account(V, L, NetOf[currentName], careful) /\ Left(chains[0], << >>, V, L, careful \/ Made(L))
  BY DEF RestoredInv
<1>4. Left(chains[0], << >>, V, L, e)
  BY <1>3, LeftWeaker
<1>5. AtEnd(chains[0], V, L, e)
  BY <1>1, <1>3, <1>4, NothingLeft DEF Account
<1> QED BY <1>1, <1>2, <1>3, <1>5, SingleGood

\* ParseBlock: the same chain goes on or goes back, or another chain is restored.
LEMMA ParseRestored ==
    ASSUME NEW careful \in BOOLEAN, EveryChild, TypedInv, Inv, RestoredInv(careful),
           NEW b \in FillerBlocks[hasUncles], ParseBlock(b), careful => GoesBackOverValid
    PROVE  RestoredInv(careful)'
<1> DEFINE C == ChainAsked(b)
           number == NumberAsked(b)
           M == Before(C, number)
<1>1. /\ phase = "parse" /\ todo = << >> /\ currentName' = b.chain
      /\ UNCHANGED <<chains, currentChain, maxChains>>
      /\ todo' = CallsOfNewChain(b) \o CallsToRestore(b)
      /\ named' = [n \in DOMAIN named \cup {b.chain} |->
                      IF n # b.chain THEN named[n] ELSE IF MustRestore(b) THEN M ELSE C]
  BY DEF ParseBlock, vars
<1>2. Filling
  BY <1>1 DEF Filling
<1> PICK L : L = named[currentName]
  OBVIOUS
<1> PICK a \in BOOLEAN : a <=> (careful \/ Made(L))
  OBVIOUS
<1>3. /\ ClientSingle /\ GoodChain(chains[0]) /\ currentName \in DOMAIN named
      /\ \E V : Account(V, L, NetOf[currentName], careful) /\ AtEnd(chains[0], V, L, a)
  BY <1>1, <1>2, AtRest
<1>4. ClientSingle'
  BY <1>1, <1>3 DEF ClientSingle
<1>5. /\ ChainFits(C) /\ number \in Nat \ {0}
  BY AskedTyped
<1>6. \E V : Account(V, C, NetOf[b.chain], careful)
  <2>1. CASE b.chain \in DOMAIN named
    BY <1>2, <2>1 DEF RestoredInv, ChainAsked
  <2>2. CASE b.chain \notin DOMAIN named
    <3>1. C = << TestBlock(Genesis, TRUE, << >>) >>
      BY <2>2 DEF ChainAsked
    <3> QED BY <3>1, AccountGenesis, Zenon
  <2> QED BY <2>1, <2>2
<1>7. /\ ChainFits(M) /\ Len(M) <= Len(C)
      /\ \A i \in 1 .. Len(M) : M[i].hash = C[i].hash /\ M[i].valid = C[i].valid
  <2> DEFINE n == IF number < Len(C) THEN number ELSE Len(C)
  <2>1. /\ ChainFits(Before(C, number)) /\ Len(Before(C, number)) = n
        /\ \A i \in 1 .. n : Before(C, number)[i] = C[i]
    BY <1>5, BeforeFirst
  <2>2. n <= Len(C)
    BY <1>5, BlocksOfList DEF ChainFits
  <2> HIDE DEF n
  <2> QED BY <2>1, <2>2
<1>8. ASSUME NEW V, Account(V, C, NetOf[b.chain], careful)
      PROVE  Account(V, M, NetOf[b.chain], careful)
  <2> HIDE DEF M, C
  <2> QED BY <1>7, <1>8, AccountAlike
<1> PICK K : K = named'[b.chain]
  OBVIOUS
<1>9. K = IF MustRestore(b) THEN M ELSE C
  BY <1>1
<1> PICK e \in BOOLEAN : e <=> (careful \/ Made(K))
  OBVIOUS
<1>10. \A n \in DOMAIN named' : \E V : Account(V, named'[n], NetOf[n], careful)
  <2>1. DOMAIN named' = DOMAIN named \cup {b.chain}
    BY <1>1
  <2>2. ASSUME NEW n \in DOMAIN named' PROVE \E V : Account(V, named'[n], NetOf[n], careful)
    <3>1. CASE n # b.chain
      <4>1. n \in DOMAIN named /\ named'[n] = named[n]
        BY <1>1, <2>1, <3>1
      <4> QED BY <1>2, <4>1 DEF RestoredInv
    <3>2. CASE n = b.chain
      BY <1>6, <1>8, <1>9, <3>2
    <3> QED BY <3>1, <3>2
  <2> QED BY <2>2
<1> HIDE DEF C, number, M
<1>11. \E V : Account(V, K, NetOf[b.chain], careful) /\ Left(chains[0], todo', V, K, e)
  <2>1. CASE ~ MustRestore(b)
    <3>1. b.chain = currentName /\ C = L
      BY <1>3, <2>1 DEF MustRestore, ChainAsked, C
    <3>2. CallsOfNewChain(b) = << >> /\ CallsToRestore(b) = << >> /\ << >> \o << >> = << >>
      BY <1>3, <2>1, <3>1 DEF CallsOfNewChain, CallsToRestore
    <3>3. todo' = << >> /\ K = L
      BY <1>1, <1>9, <2>1, <3>1, <3>2
    <3>4. PICK V : Account(V, L, NetOf[currentName], careful) /\ AtEnd(chains[0], V, L, a)
      BY <1>3
    <3>5. AtEnd(chains[0], V, K, e)
      <4>1. a <=> e
        BY <3>3
      <4> QED BY <3>3, <3>4, <4>1 DEF AtEnd
    <3> QED BY <3>1, <3>3, <3>4, <3>5 DEF Left, Resting
  <2>2. CASE MustRestore(b) /\ b.chain = currentName
    <3>1. C = L /\ number < Len(L)
      BY <1>3, <2>2 DEF MustRestore, ChainAsked, NumberHasDecreased, C, number
    <3>2. CallsOfNewChain(b) = << >> /\ CallsToRestore(b) = << RewindTo(number - 1) >>
      BY <1>3, <2>2 DEF CallsOfNewChain, CallsToRestore, number
    <3>3. \A x : << >> \o << x >> = << x >>
      OBVIOUS
    <3>4. todo' = << RewindTo(number - 1) >>
      BY <1>1, <3>2, <3>3
    <3>5. K = Before(L, number)
      BY <1>9, <2>2, <3>1 DEF M
    <3>6. careful => Made(K)
      BY <2>2, <3>5 DEF GoesBackOverValid, number
    <3>7. PICK V : Account(V, L, NetOf[currentName], careful) /\ AtEnd(chains[0], V, L, a)
      BY <1>3
    <3>8. Account(V, K, NetOf[b.chain], careful)
      BY <1>8, <1>9, <2>2, <3>1, <3>7
    <3>9. GoingBack(chains[0], << RewindTo(number - 1) >>, V, K, e)
      BY <1>3, <1>5, <3>1, <3>5, <3>6, <3>7, GoingBackParsed
    <3> QED BY <3>4, <3>8, <3>9 DEF Left
  <2>3. CASE MustRestore(b) /\ b.chain # currentName
    <3>1. Preparing(todo', M)
      BY <1>1, <1>5, <2>3, PreparingCalls DEF C, M, number
    <3>2. K = M
      BY <1>9, <2>3
    <3>3. PICK V : Account(V, K, NetOf[b.chain], careful)
      BY <1>6, <1>8, <3>2
    <3> QED BY <3>1, <3>2, <3>3 DEF Left
  <2> QED BY <2>1, <2>2, <2>3
<1>12. PICK V : Account(V, K, NetOf[b.chain], careful) /\ Left(chains[0], todo', V, K, e)
  BY <1>11
<1>13. Left(chains'[0], todo', V, K, careful \/ Made(K))
  BY <1>1, <1>12, LeftWeaker
<1>14. K = named'[currentName']
  BY <1>1
<1> QED BY <1>1, <1>4, <1>10, <1>12, <1>13, <1>14 DEF RestoredInv

-----------------------------------------------------------------------------
(* The making of blocks *)

\* An uncle section leaves the client and the chains alone.
LEMMA UncleRestored ==
    ASSUME NEW careful \in BOOLEAN, RestoredInv(careful), PrepareUncle
    PROVE  RestoredInv(careful)'
<1>1. /\ phase = "uncles"
      /\ UNCHANGED <<chains, currentChain, maxChains, named, currentName, todo>>
  BY DEF PrepareUncle, vars
<1>2. Filling
  BY <1>1 DEF Filling
<1> QED BY <1>1, <1>2 DEF RestoredInv, ClientSingle

\* A block goes to the end of the chain.  If the last block that is held is the head
\* the client has the block when it accepts it; else the block has another parent
\* than those that are held.
LEMMA RegisterRestored ==
    ASSUME NEW careful \in BOOLEAN, TypedInv, TypedInv', Inv, RestoredInv(careful),
           phase \in {"make", "postmine"}, todo = << >>,
           NEW h \in Hash, NEW valid \in BOOLEAN, Register(h, valid),
           ParentOf[h] = HeadBlock, valid <=> Accepted(h, NetOf[currentName]),
           IF valid THEN GrownBy(h) ELSE UNCHANGED <<chains, currentChain, maxChains>>
    PROVE  RestoredInv(careful)'
<1> PICK L : L = named[currentName]
  OBVIOUS
<1> PICK net : net = NetOf[currentName]
  OBVIOUS
<1> PICK N : N = Len(L)
  OBVIOUS
<1> PICK b : b = TestBlock(h, valid, IF valid THEN prepared ELSE << >>)
  OBVIOUS
<1> PICK M : M = Append(L, b)
  OBVIOUS
<1>1. /\ named' = [named EXCEPT ![currentName] = M]
      /\ todo' = IF valid /\ hasUncles THEN << Probe >> ELSE << >>
      /\ UNCHANGED currentName
  BY DEF Register
<1>2. Filling
  BY DEF Filling
<1> PICK a \in BOOLEAN : a <=> (careful \/ Made(L))
  OBVIOUS
<1> PICK e \in BOOLEAN : e <=> (careful \/ Made(M))
  OBVIOUS
<1>3. /\ ClientSingle /\ GoodChain(chains[0]) /\ currentName \in DOMAIN named
      /\ HeadBlock \in Hash /\ HeadBlock = Tip(chains[0]).hash
      /\ \E V : Account(V, L, net, careful) /\ AtEnd(chains[0], V, L, a)
  BY <1>2, AtRest
<1> PICK V : Account(V, L, net, careful) /\ AtEnd(chains[0], V, L, a)
  BY <1>3
<1>4. ChainFits(L) /\ Imported(V, L, net) /\ N \in Nat \ {0} /\ DOMAIN L = 1 .. N
  BY BlocksOfList DEF Account, ChainFits
<1>5. b \in TestBlocks /\ b.hash = h /\ b.valid = valid
  <2>1. prepared \in Seq(Hash) /\ << >> \in Seq(Hash)
    BY EmptySeq DEF TypedInv, BlockInv
  <2> QED BY <2>1 DEF TestBlock, TestBlocks
<1>6. /\ ChainFits(M) /\ Len(M) = N + 1 /\ DOMAIN M = 1 .. N + 1
      /\ \A j \in 1 .. N : M[j] = L[j]
      /\ M[N + 1] = b
  <2>1. ChainFits(M) /\ Len(M) = N + 1 /\ (\A j \in 1 .. N : M[j] = L[j]) /\ M[N + 1] = b
    BY <1>4, <1>5, AppendFits
  <2> QED BY <2>1, BlocksOfList DEF ChainFits
<1>7. Made(M) => Made(L) /\ valid
  BY <1>4, <1>5, <1>6 DEF Made
<1>8. PICK i \in 1 .. N : /\ IsLast(V, N, i)
                          /\ L[i].hash \in Hashes(chains[0])
                          /\ a => Tip(chains[0]).hash = L[i].hash
  BY DEF AtEnd
<1>9. ClientSingle' /\ \A x \in Hashes(chains[0]) : x \in Hashes(chains'[0])
  <2>1. CASE valid
    BY <1>3, <2>1, GrownHolds
  <2>2. CASE ~ valid
    BY <1>3, <2>2 DEF ClientSingle
  <2> QED BY <2>1, <2>2
<1>10. \E W : Account(W, M, net, careful) /\ AtEnd(chains'[0], W, M, e)
  <2>1. CASE Tip(chains[0]).hash = L[i].hash
    <3>1. PICK W : (\A j \in 1 .. N : j \in W <=> j \in V) /\ (N + 1 \in W <=> valid)
      <4> WITNESS IF valid THEN V \cup {N + 1} ELSE V \ {N + 1}
      <4> QED BY <1>4
    <3>2. Account(W, M, net, careful) /\ IsLast(W, N, i)
      <4>1. ParentOf[b.hash] = L[i].hash
        BY <1>3, <1>5, <2>1
      <4>2. Len(L) + 1 \in W <=> Accepted(b.hash, net)
        BY <1>5, <3>1
      <4>3. Len(L) + 1 \in W <=> b.valid
        BY <1>5, <3>1
      <4>4. IsLast(V, Len(L), i) /\ \A j \in 1 .. Len(L) : j \in W <=> j \in V
        BY <1>8, <3>1
      <4>5. PutOnto(V, W, L, net, b, i)
        BY <4>1, <4>2, <4>3, <4>4 DEF PutOnto
      <4>6. Account(W, Append(L, b), net, careful) /\ IsLast(W, Len(L), i)
        BY <1>5, <4>5, AppendOnto
      <4> QED BY <4>6
    <3>3. IsLast(W, N + 1, IF N + 1 \in W THEN N + 1 ELSE i)
      BY <1>4, <3>2, NextLast
    <3>4. CASE valid
      <4>1. IsLast(W, Len(M), N + 1) /\ N + 1 \in 1 .. Len(M) /\ M[N + 1].hash = h
        <5>1. N + 1 \in W
          BY <3>1, <3>4
        <5>2. IsLast(W, N + 1, N + 1)
          BY <3>3, <5>1
        <5> QED BY <1>4, <1>5, <1>6, <5>2
      <4>2. h \in Hashes(chains'[0]) /\ Tip(chains'[0]).hash = h
        <5>1. ClientSingle' /\ Tip(chains'[0]).hash = h
          BY <1>3, <3>4, GrownHolds
        <5>2. \A c : GoodChain(c) => Tip(c).hash \in Hashes(c)
          BY GoodChainElements DEF Tip, Hashes
        <5>3. GoodChain(chains'[0])
          BY <5>1 DEF ClientSingle
        <5> QED BY <5>1, <5>2, <5>3
      <4>3. M[N + 1].hash \in Hashes(chains'[0]) /\ (e => Tip(chains'[0]).hash = M[N + 1].hash)
        BY <4>1, <4>2
      <4>4. AtEnd(chains'[0], W, M, e)
        BY <4>1, <4>3 DEF AtEnd
      <4> QED BY <3>2, <4>4
    <3>5. CASE ~ valid
      <4>1. IsLast(W, Len(M), i) /\ i \in 1 .. Len(M) /\ M[i].hash = L[i].hash
        BY <1>4, <1>6, <3>1, <3>3, <3>5
      <4>2. UNCHANGED chains
        BY <3>5
      <4> QED BY <1>8, <2>1, <3>2, <4>1, <4>2 DEF AtEnd
    <3> QED BY <3>4, <3>5
  <2>2. CASE Tip(chains[0]).hash # L[i].hash
    <3>1. PICK W : (\A j \in 1 .. N : j \in W <=> j \in V) /\ N + 1 \notin W
      <4> WITNESS V \ {N + 1}
      <4> QED BY <1>4
    <3>2. ~ a /\ ~ e /\ ~ careful /\ ~ Made(L)
      BY <1>7, <1>8, <2>2
    <3>3. \A k \in 1 .. N : k \in V => ParentOf[b.hash] # L[k].hash
      BY <1>3, <1>4, <1>5, <1>8, <2>2, TipIsOther
    <3>4. Account(W, M, net, careful) /\ IsLast(W, N, i)
      <4>1. Len(L) + 1 \notin W /\ \A k \in 1 .. Len(L) : k \in V => ParentOf[b.hash] # L[k].hash
        BY <3>1, <3>3
      <4>2. IsLast(V, Len(L), i) /\ \A j \in 1 .. Len(L) : j \in W <=> j \in V
        BY <1>8, <3>1
      <4>3. ~ careful /\ ~ Made(L)
        BY <3>2
      <4>4. PutAside(V, W, L, b, i)
        BY <4>1, <4>2 DEF PutAside
      <4>5. Account(W, Append(L, b), net, careful) /\ IsLast(W, Len(L), i)
        BY <1>5, <4>3, <4>4, AppendAside
      <4> QED BY <4>5
    <3>5. IsLast(W, N + 1, i)
      BY <1>4, <3>1, <3>4, NextLast
    <3>6. IsLast(W, Len(M), i) /\ i \in 1 .. Len(M) /\ M[i].hash = L[i].hash
      BY <1>4, <1>6, <3>5
    <3>7. M[i].hash \in Hashes(chains'[0])
      BY <1>8, <1>9, <3>6
    <3> QED BY <3>2, <3>4, <3>6, <3>7 DEF AtEnd
  <2> QED BY <2>1, <2>2
<1>11. PICK W : Account(W, M, net, careful) /\ AtEnd(chains'[0], W, M, e)
  BY <1>10
<1>12. Left(chains'[0], todo', W, M, e)
  BY <1>1, <1>11 DEF Left, Resting
<1>13. Left(chains'[0], todo', W, M, careful \/ Made(M))
  BY <1>12, LeftWeaker
<1>14. /\ DOMAIN named' = DOMAIN named /\ named'[currentName'] = M
       /\ \A n \in DOMAIN named : named'[n] = IF n = currentName THEN M ELSE named[n]
  BY <1>1, <1>3
<1>15. \A n \in DOMAIN named' : \E X : Account(X, named'[n], NetOf[n], careful)
  BY <1>2, <1>11, <1>14 DEF RestoredInv
<1> QED BY <1>1, <1>9, <1>11, <1>13, <1>14, <1>15 DEF RestoredInv

\* A raw or a changed block is imported on the head, and judged by the client.
LEMMA ImportedOnHead ==
    ASSUME NEW careful \in BOOLEAN, EveryChild, TypedInv, Inv, RestoredInv(careful),
           phase \in {"make", "postmine"}, todo = << >>, NEW h, h = BlockToMake, Import(h)
    PROVE  /\ h \in Hash /\ ParentOf[h] = HeadBlock /\ KindIn(h) = KindToMake
           /\ IF Accepted(h, NetOf[currentName])
              THEN GrownBy(h) /\ reply' # "import failed"
              ELSE UNCHANGED <<chains, currentChain, maxChains>> /\ reply' = "import failed"
<1> PICK L : L = named[currentName]
  OBVIOUS
<1> PICK e \in BOOLEAN : e <=> (careful \/ Made(L))
  OBVIOUS
<1>1. /\ ClientSingle /\ network = NetOf[currentName]
      /\ HeadBlock \in Hash /\ HeadBlock = Tip(chains[0]).hash
  BY AtRest DEF Filling
<1>2. h \in Hash /\ ParentOf[h] = HeadBlock /\ KindIn(h) = KindToMake
  BY MadeTyped
<1>3. IF Accepted(h, network)
      THEN GrownBy(h) /\ reply' = "imported"
      ELSE UNCHANGED <<chains, currentChain, maxChains>> /\ reply' = "import failed"
  BY <1>1, <1>2, ImportOnTip
<1> QED BY <1>1, <1>2, <1>3

\* MakeRawBlock.
LEMMA RawRestored ==
    ASSUME NEW careful \in BOOLEAN, EveryChild, TypedInv, TypedInv', Inv, RestoredInv(careful),
           MakeRawBlock
    PROVE  RestoredInv(careful)'
<1> PICK h : h = BlockToMake
  OBVIOUS
<1> PICK v \in BOOLEAN : v <=> FALSE
  OBVIOUS
<1>1. /\ phase = "make" /\ todo = << >> /\ KindToMake \in RawKinds
      /\ Import(h) /\ (GoToError \/ Register(h, v))
  BY DEF MakeRawBlock
<1>2. /\ h \in Hash /\ ParentOf[h] = HeadBlock /\ KindIn(h) = KindToMake
      /\ ~ Accepted(h, NetOf[currentName]) => UNCHANGED <<chains, currentChain, maxChains>>
  BY <1>1, ImportedOnHead
<1>3. ~ Accepted(h, NetOf[currentName])
  BY <1>1, <1>2 DEF Accepted
<1>4. CASE GoToError
  BY <1>4 DEF GoToError, RestoredInv, Filling
<1>5. CASE Register(h, v)
  BY <1>1, <1>2, <1>3, <1>5, RegisterRestored
<1> QED BY <1>1, <1>4, <1>5

\* ImportTweaked.
LEMMA TweakedRestored ==
    ASSUME NEW careful \in BOOLEAN, EveryChild, TypedInv, TypedInv', Inv, RestoredInv(careful),
           ImportTweaked
    PROVE  RestoredInv(careful)'
<1> PICK h : h = BlockToMake
  OBVIOUS
<1> DEFINE invalid == Invalid(KindToMake, NetOf[currentName])
<1>1. /\ phase = "postmine" /\ todo = << >> /\ Import(h)
      /\ IF invalid <=> reply' = "import failed" THEN Register(h, ~ invalid) ELSE GoToError
  BY DEF ImportTweaked
<1>2. /\ h \in Hash /\ ParentOf[h] = HeadBlock
      /\ IF Accepted(h, NetOf[currentName])
         THEN GrownBy(h) /\ reply' # "import failed"
         ELSE UNCHANGED <<chains, currentChain, maxChains>> /\ reply' = "import failed"
  BY <1>1, ImportedOnHead
<1>3. invalid \in BOOLEAN
  BY DEF Invalid
<1> HIDE DEF invalid
<1>4. CASE invalid <=> reply' = "import failed"
  <2> PICK v \in BOOLEAN : v = ~ invalid
    BY <1>3
  <2>1. Register(h, v) /\ (v <=> Accepted(h, NetOf[currentName]))
    BY <1>1, <1>2, <1>3, <1>4
  <2>2. IF v THEN GrownBy(h) ELSE UNCHANGED <<chains, currentChain, maxChains>>
    BY <1>2, <2>1
  <2> QED BY <1>1, <1>2, <2>1, <2>2, RegisterRestored
<1>5. CASE ~ (invalid <=> reply' = "import failed")
  BY <1>1, <1>5 DEF GoToError, RestoredInv, Filling
<1> QED BY <1>4, <1>5

\* MakePlainBlock.
LEMMA PlainRestored ==
    ASSUME NEW careful \in BOOLEAN, EveryChild, TypedInv, TypedInv', Inv, RestoredInv(careful),
           MakePlainBlock
    PROVE  RestoredInv(careful)'
<1> PICK h : h = BlockToMake
  OBVIOUS
<1> PICK v \in BOOLEAN : v <=> TRUE
  OBVIOUS
<1>1. /\ phase = "make" /\ todo = << >> /\ KindToMake \notin RawKinds /\ MineBlocks(h)
      /\ IF Invalid(KindToMake, NetOf[currentName]) THEN GoToError ELSE Register(h, v)
  BY DEF MakePlainBlock
<1>2. /\ h \in Hash /\ ParentOf[h] = HeadBlock /\ KindIn(h) = KindToMake
  BY <1>1, MadeTyped
<1>3. ClientSingle
  BY <1>1 DEF RestoredInv, Filling
<1>4. GrownBy(h) /\ Tree!ValidBlock(h)
  BY <1>1, <1>2, <1>3, MineOnTip
<1>5. CASE Invalid(KindToMake, NetOf[currentName])
  BY <1>1, <1>5 DEF GoToError, RestoredInv, Filling
<1>6. CASE ~ Invalid(KindToMake, NetOf[currentName])
  <2>1. Accepted(h, NetOf[currentName])
    BY <1>1, <1>2, <1>4, <1>6 DEF Accepted
  <2>2. Register(h, v)
    BY <1>1, <1>6
  <2> QED BY <1>1, <1>2, <1>4, <2>1, <2>2, RegisterRestored
<1> QED BY <1>5, <1>6

\* MineToTweak: the mined block will be taken off again.
LEMMA MinedRestored ==
    ASSUME NEW careful \in BOOLEAN, EveryChild, TypedInv, Inv, RestoredInv(careful), MineToTweak
    PROVE  RestoredInv(careful)'
<1> PICK h : h = ChildOf(HeadBlock, MinedKind, << >>)
  OBVIOUS
<1> PICK L : L = named[currentName]
  OBVIOUS
<1> PICK e \in BOOLEAN : e <=> (careful \/ Made(L))
  OBVIOUS
<1> PICK k : k = Len(chains[0])
  OBVIOUS
<1>1. /\ phase = "make" /\ todo = << >> /\ MineBlocks(h)
      /\ todo' = << RewindTo(Len(chains[currentChain]) - 1) >>
      /\ UNCHANGED <<named, currentName>>
  BY DEF MineToTweak
<1>2. /\ ClientSingle /\ h \in Hash /\ GoodChain(chains[0])
      /\ \E V : Account(V, L, NetOf[currentName], careful) /\ AtEnd(chains[0], V, L, e)
  BY <1>1, AtRest, MadeTyped DEF Filling
<1>3. GrownBy(h)
  BY <1>1, <1>2, MineOnTip
<1>4. /\ ClientSingle' /\ Len(chains'[0]) = k + 1
      /\ \A p \in 1 .. k : chains'[0][p] = chains[0][p]
  BY <1>3 DEF GrownBy
<1>5. /\ currentChain = 0 /\ k \in Nat \ {0} /\ k - 1 \in Nat /\ (k - 1) + 1 = k
      /\ todo' = << RewindTo(k - 1) >>
  BY <1>1, <1>2, SingleGood DEF ClientSingle
<1> PICK V : Account(V, L, NetOf[currentName], careful) /\ AtEnd(chains[0], V, L, e)
  BY <1>2
<1>6. PICK i \in 1 .. Len(L) : /\ IsLast(V, Len(L), i)
                               /\ L[i].hash \in Hashes(chains[0])
                               /\ e => Tip(chains[0]).hash = L[i].hash
  BY DEF AtEnd
<1> PICK x : x = L[i].hash
  OBVIOUS
<1>15. x \in Hashes(chains[0]) /\ (e => Tip(chains[0]).hash = x)
  BY <1>6
<1>7. PICK p \in 1 .. k : chains[0][p].hash = x /\ (e => p = k)
  <2>1. CASE e
    <3>1. Tip(chains[0]) = chains[0][k] /\ k \in 1 .. k
      BY <1>5 DEF Tip
    <3>2. Tip(chains[0]).hash = x
      BY <1>15, <2>1
    <3> QED BY <3>1, <3>2
  <2>2. CASE ~ e
    <3>1. x \in Hashes(chains[0])
      BY <1>15
    <3>2. \E p \in 1 .. Len(chains[0]) : chains[0][p].hash = x
      BY <1>2, <3>1, HeldAtPosition
    <3> QED BY <2>2, <3>2
  <2> QED BY <2>1, <2>2
<1>8. /\ p \in 1 .. Len(chains'[0]) /\ chains'[0][p].hash = L[i].hash
      /\ p <= (k - 1) + 1 /\ (e => p = (k - 1) + 1)
  BY <1>4, <1>5, <1>7
<1> PICK d : d = chains'[0]
  OBVIOUS
<1> PICK m : m = k - 1
  OBVIOUS
<1>13. IsLast(V, Len(L), i) /\ i \in 1 .. Len(L)
  BY <1>6
<1>14. /\ p \in 1 .. Len(d) /\ d[p].hash = L[i].hash /\ p <= m + 1 /\ (e => p = m + 1)
  BY <1>8
<1>9. GoingBack(d, << RewindTo(m) >>, V, L, e)
  <2>1. m \in Nat
    BY <1>5
  <2> QED BY <1>13, <1>14, <2>1 DEF GoingBack
<1>10. Left(chains'[0], todo', V, L, e)
  BY <1>5, <1>9 DEF Left
<1>11. Left(chains'[0], todo', V, L, careful \/ Made(L))
  BY <1>10, LeftWeaker
<1>12. \A n \in DOMAIN named : \E W : Account(W, named[n], NetOf[n], careful)
  BY <1>1 DEF RestoredInv, Filling
<1> QED BY <1>1, <1>4, <1>11, <1>12 DEF RestoredInv

\* Every step.
LEMMA NextRestored ==
    ASSUME NEW careful \in BOOLEAN, EveryChild, TypedInv, Inv, RestoredInv(careful),
           [FillerNext]_allVars, [careful => GoesBackOverValid]_allVars
    PROVE  RestoredInv(careful)'
<1>1. TypedInv'
  BY NextTyped
<1>2. CASE UNCHANGED allVars
  BY <1>2 DEF allVars, vars, fillerVars, RestoredInv, Filling, ClientSingle
<1>3. CASE FillerNext /\ (careful => GoesBackOverValid)
  <2>1. ASSUME NEW b \in FillerBlocks[hasUncles], ParseOutOfOrder(b)
        PROVE  RestoredInv(careful)'
    BY <2>1 DEF ParseOutOfOrder, RestoredInv, Filling
  <2>2. ASSUME NEW b \in FillerBlocks[hasUncles], ParseBlock(b)
        PROVE  RestoredInv(careful)'
    BY <1>3, <2>2, ParseRestored
  <2>3. CASE EndOfBlocks \/ StartRun \/ EndRun \/ Synced
    BY <2>3 DEF EndOfBlocks, StartRun, EndRun, Synced, RestoredInv, Filling
  <2>4. CASE SyncBlock \/ RunBlock
    BY <2>4 DEF SyncBlock, RunBlock, GoToError, RestoredInv, Filling
  <2>5. CASE Finished
    BY <1>2, <2>5 DEF Finished
  <2>6. CASE ClientCall
    BY <2>6, CallRestored
  <2>7. CASE PrepareUncle
    BY <2>7, UncleRestored
  <2>8. CASE MakeRawBlock
    BY <1>1, <2>8, RawRestored
  <2>9. CASE MakePlainBlock
    BY <1>1, <2>9, PlainRestored
  <2>10. CASE MineToTweak
    BY <2>10, MinedRestored
  <2>11. CASE ImportTweaked
    BY <1>1, <2>11, TweakedRestored
  <2> QED BY <1>3, <2>1, <2>2, <2>3, <2>4, <2>5, <2>6, <2>7, <2>8, <2>9, <2>10, <2>11 DEF FillerNext
<1> QED BY <1>2, <1>3

-----------------------------------------------------------------------------
(* The theorems *)

\* Where no call is left, and the client must be at the end of the chain exactly, the
\* head is the last valid block of it.
LEMMA RestoredHolds ==
    ASSUME NEW careful \in BOOLEAN, TypedInv, Inv, RestoredInv(careful), ReadyToMake,
           careful \/ Made(named[currentName])
    PROVE  HeadBlock = LastValid(named[currentName])
<1> PICK L : L = named[currentName]
  OBVIOUS
<1> PICK e \in BOOLEAN : e <=> (careful \/ Made(L))
  OBVIOUS
<1>1. PICK V : /\ Account(V, L, NetOf[currentName], careful) /\ AtEnd(chains[0], V, L, e)
               /\ HeadBlock = Tip(chains[0]).hash
  BY AtRest DEF ReadyToMake, Filling
<1> PICK N : N = Len(L)
  OBVIOUS
<1>2. N \in Nat /\ DOMAIN L = 1 .. N
  BY <1>1, BlocksOfList DEF Account, ChainFits
<1>3. PICK i \in 1 .. N : IsLast(V, N, i) /\ HeadBlock = L[i].hash
  BY <1>1 DEF AtEnd
<1>4. \A j \in 1 .. N : j \in V <=> L[j].valid
  <2> SUFFICES ASSUME NEW j \in 1 .. N PROVE j \in V <=> L[j].valid
    OBVIOUS
  <2>1. careful \/ \A k \in 1 .. j : L[k].valid
    <3>1. \A k \in 1 .. j : k \in 1 .. N
      BY <1>2
    <3> QED BY <1>2, <3>1 DEF Made
  <2> QED BY <1>1, <2>1 DEF Account, AsMade
<1> DEFINE Final(k) == L[k].valid /\ \A j \in DOMAIN L : L[j].valid => j <= k
<1>5. \A k \in DOMAIN L : Final(k) <=> IsLast(V, N, k)
  <2> SUFFICES ASSUME NEW k \in DOMAIN L PROVE Final(k) <=> IsLast(V, N, k)
    OBVIOUS
  <2>1. k \in 1 .. N /\ \A j \in 1 .. N : j \in k + 1 .. N <=> ~ (j <= k)
    BY <1>2
  <2>2. \A j \in k + 1 .. N : j \in 1 .. N
    BY <1>2, <2>1
  <2> QED BY <1>2, <1>4, <2>1, <2>2 DEF IsLast
<1>6. \A k \in DOMAIN L : Final(k) <=> k = i
  BY <1>2, <1>3, <1>5, OneLast
<1> HIDE DEF Final
<1>7. (CHOOSE k \in DOMAIN L : Final(k)) = i
  BY <1>2, <1>3, <1>6
<1>8. LastValid(L) = L[CHOOSE k \in DOMAIN L : Final(k)].hash
  BY DEF LastValid, Final
<1> QED BY <1>3, <1>7, <1>8

\* restoreUpToNumber brings the client to the last block of the chain, on whatever
\* chain and network it was, for every test, however its blocks go from one chain to
\* another and whatever invalid blocks were on the way: if all blocks of the chain
\* are valid the next one is mined on the last of them.  The hypothesis on the blocks
\* says that there are enough of them, and that one can be told from another.
THEOREM ClientAlwaysHoldsNamedChain ==
    ASSUME EveryChild
    PROVE  FillerSpec => []ClientHoldsNamedChain
<1> DEFINE Some == RestoredInv(FALSE)
<1>1. FillerInit => Some
  BY InitRestored
<1>2. TypedInv /\ Inv /\ Some /\ [FillerNext]_allVars => Some'
  BY NextRestored
<1>3. TypedInv /\ Inv /\ Some => ClientHoldsNamedChain
  BY RestoredHolds DEF ClientHoldsNamedChain
<1>4. FillerSpec => []TypedInv
  BY InitTyped, NextTyped, PTL DEF FillerSpec
<1> QED BY <1>1, <1>2, <1>3, <1>4, FillerInvariant, PTL DEF FillerSpec

\* restoreUpToNumber brings the client to the last valid block of the chain, also when
\* the chain has invalid blocks, as long as no block asks for a number of its own chain
\* that has an invalid block before it: the run filler_restore shows what happens then,
\* and this that nothing else goes wrong.
THEOREM ClientAlwaysRestored ==
    ASSUME EveryChild
    PROVE  FillerSpec /\ [][GoesBackOverValid]_allVars => [](ClientIsRestored /\ ClientHoldsNamedChain)
<1> DEFINE All == RestoredInv(TRUE)
<1>1. FillerInit => All
  BY InitRestored
<1>2. TypedInv /\ Inv /\ All /\ [FillerNext]_allVars /\ [GoesBackOverValid]_allVars => All'
  BY NextRestored
<1>3. TypedInv /\ Inv /\ All => ClientIsRestored /\ ClientHoldsNamedChain
  BY RestoredHolds DEF ClientIsRestored, ClientHoldsNamedChain
<1>4. FillerSpec => []TypedInv
  BY InitTyped, NextTyped, PTL DEF FillerSpec
<1> QED BY <1>1, <1>2, <1>3, <1>4, FillerInvariant, PTL DEF FillerSpec

-----------------------------------------------------------------------------
(* The uncles that are mined *)

\* The blocks that are not made to be uncles only.
Proper == {h \in Hash : KindIn(h) # CandidateKind}

\* The header kept with a block is the candidate mined on that block.
NextFits(b) == b.next \in {NoHeader, ChildOf(b.hash, CandidateKind, << >>)}

\* An uncle is mined when the chain was just made, and its header goes to the genesis;
\* or on the head, when that is the last block of the chain.
ProbesFit ==
    \/ todo \in Seq(CallsOf(Proper, {}))
    \/ /\ todo \in Seq(CallsOf(Proper, {Probe}))
       /\ Len(named[currentName]) = 1 /\ currentName # DefaultName
    \/ /\ todo = << Probe >>
       /\ HeadBlock = named[currentName][Len(named[currentName])].hash

\* A header is found beside the block it was mined on; only the genesis of a chain made
\* late may have another.
HeadersFit(L, n) ==
    \A i \in 1 .. Len(L) : /\ i > 1 => L[i].hash \in Proper
                           /\ i > 1 \/ n = DefaultName => NextFits(L[i])

UncleInv ==
    Filling =>
        /\ Known \subseteq Proper \cup {Genesis}
        /\ \A n \in DOMAIN named : HeadersFit(named[n], n)
        /\ ProbesFit

\* What the client knows after each of its operations.
LEMMA ImportKnown ==
    ASSUME ChainsInv, NEW h \in Hash, Import(h)
    PROVE  Known' \subseteq Known \cup {h}
<1>1. CASE ImportUnreadable
  BY <1>1 DEF ImportUnreadable, Known
<1>2. CASE ImportBadHeader(h)
  BY <1>2, FailedImportStutters DEF ImportBadHeader, ImportFailed
<1>3. CASE ImportBadBody(h)
  BY <1>3, FailedImportStutters DEF ImportBadBody, ImportFailed
<1>4. CASE ImportAccepted(h)
  BY <1>4, ImportTree DEF Tree!ImportBlock
<1> QED BY <1>1, <1>2, <1>3, <1>4 DEF Import

\* Nothing is learnt by going back.
LEMMA RewindKnown ==
    ASSUME ChainsInv, NEW n \in Nat, Rewind(n)
    PROVE  Known' \subseteq Known
<1>1. CASE n < Len(chains[currentChain])
  <2>1. n \in 0 .. Len(chains[currentChain]) - 1
    BY <1>1, InvFacts, GoodChainElements
  <2>2. \E b \in Hash : Tree!RewindHead(b)
    BY <1>1, <2>1, RewindTree DEF Rewind
  <2> QED BY <2>2 DEF Tree!RewindHead
<1>2. CASE ~ (n < Len(chains[currentChain]))
  BY <1>2 DEF Rewind, Known
<1> QED BY <1>1, <1>2

\* One call of the client, and the calls that are left.
LEMMA CallOf ==
    ASSUME NEW S, NEW P, P \subseteq {Probe}, todo \in Seq(CallsOf(S, P)), ClientCall
    PROVE  /\ todo' \in Seq(CallsOf(S, P))
           /\ \/ SetChainParams /\ UNCHANGED named
              \/ (\E n \in Nat : Rewind(n)) /\ UNCHANGED named
              \/ (\E h \in S : Import(h)) /\ UNCHANGED named
              \/ Probe \in P /\ MineNextBlockAndRevert
<1> DEFINE c == Head(todo)
<1>1. IsSequence(todo)
  BY DEF IsSequence
<1>2. todo # << >> /\ todo' = Tail(todo)
  BY DEF ClientCall
<1>3. c \in CallsOf(S, P) /\ todo' \in Seq(CallsOf(S, P))
  BY <1>2
<1>4. /\ \A n : c = RewindTo(n) => Rewind(n) /\ UNCHANGED named
      /\ \A h : c = ImportOf(h) => Import(h) /\ UNCHANGED named
      /\ IsReset(c) => SetChainParams /\ UNCHANGED named
      /\ c = Probe => MineNextBlockAndRevert
  BY <1>1, OneCall
<1> HIDE DEF c
<1>5. CASE c \in P
  BY <1>3, <1>4, <1>5
<1>6. CASE c \in {ResetTo(NetOf[n]) : n \in Name}
  <2>1. IsReset(c)
    BY <1>6 DEF IsReset, ResetTo
  <2> QED BY <1>3, <1>4, <2>1
<1>7. CASE c \in {RewindTo(k) : k \in Nat}
  BY <1>3, <1>4, <1>7
<1>8. CASE c \in {ImportOf(h) : h \in S}
  BY <1>3, <1>4, <1>8
<1> QED BY <1>3, <1>5, <1>6, <1>7, <1>8 DEF CallsOf

\* Every call.
LEMMA CallUncles ==
    ASSUME EveryChild, TypedInv, UncleInv, ClientCall
    PROVE  UncleInv'
<1> SUFFICES ASSUME Filling' PROVE UncleInv'
  BY DEF UncleInv
<1>1. todo # << >> /\ todo' = Tail(todo) /\ UNCHANGED <<currentName, phase>>
  BY DEF ClientCall
<1>2. /\ Known \subseteq Proper \cup {Genesis} /\ ProbesFit
      /\ \A n \in DOMAIN named : HeadersFit(named[n], n)
  BY <1>1 DEF UncleInv, Filling
<1>3. ChainsInv /\ currentName \in DOMAIN named /\ Proper \subseteq Hash
  BY DEF TypedInv, ChainsFit, Proper
<1> PICK L : L = named[currentName]
  OBVIOUS
<1>4. ChainFits(L) /\ Len(L) \in Nat \ {0}
  BY <1>3, BlocksOfList DEF TypedInv, ChainsFit, ChainFits
<1>5. ASSUME SetChainParams \/ (\E n \in Nat : Rewind(n)) \/ (\E h \in Proper : Import(h))
      PROVE  Known' \subseteq Proper \cup {Genesis}
  <2>1. CASE SetChainParams
    BY <2>1, RestartTree DEF Tree!Restart
  <2>2. CASE \E n \in Nat : Rewind(n)
    BY <1>2, <1>3, <2>2, RewindKnown
  <2>3. CASE \E h \in Proper : Import(h)
    BY <1>2, <1>3, <2>3, ImportKnown
  <2> QED BY <1>5, <2>1, <2>2, <2>3
<1>6. ASSUME MineNextBlockAndRevert,
             \/ Len(L) = 1 /\ currentName # DefaultName
             \/ HeadBlock = L[Len(L)].hash
      PROVE  /\ Known' \subseteq Proper \cup {Genesis}
             /\ \A n \in DOMAIN named' : HeadersFit(named'[n], n)
             /\ Len(named'[currentName]) = Len(L)
  <2> DEFINE u == ChildOf(HeadBlock, CandidateKind, << >>)
             M == WithNext(L, u)
  <2>1. u \in Hash
    <3>1. CandidateKind \in Kind /\ << >> \in Seq(Hash)
      BY FillerAssumption, EmptySeq
    <3> QED BY <1>3, <3>1, HeadKnown, ChildFits
  <2>2. named' = [named EXCEPT ![currentName] = M] /\ UNCHANGED chains
    BY <1>6 DEF MineNextBlockAndRevert
  <2>3. Known' \subseteq Proper \cup {Genesis}
    BY <1>2, <2>2 DEF Known
  <2>4. /\ Len(M) = Len(L)
        /\ \A j \in 1 .. Len(L) : /\ M[j].hash = L[j].hash
                                  /\ M[j].next = IF j = Len(L) THEN u ELSE L[j].next
    <3> HIDE DEF u
    <3> QED BY <1>4, <2>1, WithNextFits
  <2>5. HeadBlock = L[Len(L)].hash => u = ChildOf(L[Len(L)].hash, CandidateKind, << >>)
    OBVIOUS
  <2> HIDE DEF u, M
  <2>6. HeadersFit(L, currentName)
    BY <1>2, <1>3
  <2>7. HeadersFit(M, currentName)
    <3> SUFFICES ASSUME NEW i \in 1 .. Len(L)
                 PROVE  /\ i > 1 => M[i].hash \in Proper
                        /\ i > 1 \/ currentName = DefaultName => NextFits(M[i])
      BY <2>4 DEF HeadersFit
    <3>1. /\ i > 1 => L[i].hash \in Proper
          /\ i > 1 \/ currentName = DefaultName => NextFits(L[i])
      BY <2>6 DEF HeadersFit
    <3>2. M[i].hash = L[i].hash /\ M[i].next = IF i = Len(L) THEN u ELSE L[i].next
      BY <2>4
    <3>3. CASE i = Len(L) /\ HeadBlock = L[Len(L)].hash
      BY <2>5, <3>1, <3>2, <3>3 DEF NextFits
    <3>4. CASE i = Len(L) /\ Len(L) = 1 /\ currentName # DefaultName
      BY <3>4
    <3>5. CASE i # Len(L)
      BY <3>1, <3>2, <3>5 DEF NextFits
    <3> QED BY <1>6, <3>3, <3>4, <3>5
  <2>8. DOMAIN named' = DOMAIN named /\ \A n \in DOMAIN named : named'[n] = IF n = currentName THEN M ELSE named[n]
    BY <2>2
  <2> QED BY <1>2, <1>3, <2>3, <2>4, <2>7, <2>8
<1>7. CASE todo \in Seq(CallsOf(Proper, {}))
  <2>1. /\ todo' \in Seq(CallsOf(Proper, {})) /\ UNCHANGED named
        /\ SetChainParams \/ (\E n \in Nat : Rewind(n)) \/ (\E h \in Proper : Import(h))
    BY <1>7, CallOf
  <2> QED BY <1>2, <1>5, <2>1 DEF UncleInv, ProbesFit
<1>8. CASE todo \in Seq(CallsOf(Proper, {Probe})) /\ Len(L) = 1 /\ currentName # DefaultName
  <2>1. /\ todo' \in Seq(CallsOf(Proper, {Probe}))
        /\ \/ /\ SetChainParams \/ (\E n \in Nat : Rewind(n)) \/ (\E h \in Proper : Import(h))
              /\ UNCHANGED named
           \/ MineNextBlockAndRevert
    BY <1>8, CallOf
  <2>2. /\ Known' \subseteq Proper \cup {Genesis}
        /\ \A n \in DOMAIN named' : HeadersFit(named'[n], n)
        /\ Len(named'[currentName]) = 1
    BY <1>2, <1>5, <1>6, <1>8, <2>1
  <2> QED BY <1>1, <1>8, <2>1, <2>2 DEF UncleInv, ProbesFit
<1>9. CASE todo = << Probe >> /\ HeadBlock = L[Len(L)].hash
  <2>1. IsSequence(todo)
    <3>1. << Probe >> \in Seq({Probe})
      OBVIOUS
    <3> QED BY <1>9, <3>1 DEF IsSequence
  <2>2. Head(todo) = Probe /\ todo' = << >>
    BY <1>9, <2>1, LastCall
  <2>3. MineNextBlockAndRevert
    BY <2>1, <2>2, OneCall
  <2>4. todo' \in Seq(CallsOf(Proper, {}))
    BY <2>2, EmptySeq
  <2> QED BY <1>6, <1>9, <2>3, <2>4 DEF UncleInv, ProbesFit
<1> QED BY <1>2, <1>7, <1>8, <1>9 DEF ProbesFit

\* The manager starts with a candidate mined on the genesis.
LEMMA InitUncles ==
    ASSUME EveryChild, FillerInit
    PROVE  UncleInv
<1> DEFINE G == << TestBlock(Genesis, TRUE, << >>) >>
           u == ChildOf(Genesis, CandidateKind, << >>)
<1>1. u \in Hash
  <2>1. CandidateKind \in Kind /\ << >> \in Seq(Hash) /\ Genesis \in Hash
    BY FillerAssumption, BlocksAssumption, EmptySeq
  <2> QED BY <2>1, ChildFits
<1>2. named = [n \in {DefaultName} |-> WithNext(G, u)] /\ todo = << >> /\ Init
  BY DEF FillerInit
<1>3. ChainFits(G) /\ Len(G) = 1
  <2>1. \A x : Len(<< x >>) = 1
    OBVIOUS
  <2> QED BY <2>1, NewChainFits, Zenon
<1>4. G[1].hash = Genesis
  BY <1>3 DEF ChainFits
<1> HIDE DEF G
<1> PICK L : L = WithNext(G, u)
  OBVIOUS
<1>5. Len(L) = 1 /\ L[1].hash = Genesis /\ L[1].next = u
  <2> HIDE DEF u
  <2> QED BY <1>1, <1>3, <1>4, WithNextFits
<1>6. NextFits(L[1])
  BY <1>5 DEF NextFits
<1>7. HeadersFit(L, DefaultName)
  <2>1. \A i \in 1 .. 1 : i = 1 /\ ~ (i > 1)
    OBVIOUS
  <2> QED BY <1>5, <1>6, <2>1 DEF HeadersFit
<1>8. Known \subseteq {Genesis}
  BY <1>2, InitTree DEF Tree!TreeInit
<1>9. \A n \in DOMAIN named : n = DefaultName /\ named[n] = L
  BY <1>2
<1>10. ProbesFit
  BY <1>2, EmptySeq DEF ProbesFit
<1> QED BY <1>7, <1>8, <1>9, <1>10 DEF UncleInv

\* The beginning of a list has the headers it had.
LEMMA HeadersBefore ==
    ASSUME NEW L, ChainFits(L), NEW n, HeadersFit(L, n), NEW number \in Nat \ {0}
    PROVE  HeadersFit(Before(L, number), n)
<1> DEFINE m == IF number < Len(L) THEN number ELSE Len(L)
<1>1. Len(Before(L, number)) = m /\ \A i \in 1 .. m : Before(L, number)[i] = L[i]
  BY BeforeFirst
<1>2. m \in Nat /\ m <= Len(L) /\ Len(L) \in Nat
  BY BlocksOfList DEF ChainFits
<1> HIDE DEF m
<1>3. \A i \in 1 .. m : i \in 1 .. Len(L)
  BY <1>2
<1> QED BY <1>1, <1>3 DEF HeadersFit

\* ParseBlock: only a chain that is made has an uncle mined first.
LEMMA ParseUncles ==
    ASSUME TypedInv, UncleInv, NEW b \in FillerBlocks[hasUncles], ParseBlock(b)
    PROVE  UncleInv'
<1> DEFINE C == ChainAsked(b)
           number == NumberAsked(b)
           M == Before(C, number)
<1>1. /\ phase = "parse" /\ currentName' = b.chain /\ UNCHANGED chains
      /\ todo' = CallsOfNewChain(b) \o CallsToRestore(b)
      /\ named' = [n \in DOMAIN named \cup {b.chain} |->
                      IF n # b.chain THEN named[n] ELSE IF MustRestore(b) THEN M ELSE C]
  BY DEF ParseBlock, vars
<1>2. Known \subseteq Proper \cup {Genesis} /\ \A n \in DOMAIN named : HeadersFit(named[n], n)
  BY <1>1 DEF UncleInv, Filling
<1>3. Known' \subseteq Proper \cup {Genesis}
  BY <1>1, <1>2 DEF Known
<1>4. ChainFits(C) /\ number \in Nat \ {0} /\ DefaultName \in DOMAIN named
  BY AskedTyped DEF TypedInv, ChainsFit
<1>5. CASE b.chain \in DOMAIN named
  <2>1. C = named[b.chain] /\ HeadersFit(C, b.chain)
    BY <1>2, <1>5 DEF ChainAsked
  <2>2. HeadersFit(M, b.chain)
    BY <1>4, <2>1, HeadersBefore
  <2>3. \A i \in 2 .. Len(C) : C[i].hash \in Proper
    <3>1. \A i \in 2 .. Len(C) : i \in 1 .. Len(C) /\ i > 1
      OBVIOUS
    <3> QED BY <2>1, <3>1 DEF HeadersFit
  <2>4. todo' \in Seq(CallsOf(Proper, {}))
    BY <1>1, <1>5, <2>3, CallsTyped
  <2> HIDE DEF C, M
  <2>5. \A n \in DOMAIN named' : HeadersFit(named'[n], n)
    BY <1>1, <1>2, <2>1, <2>2
  <2> QED BY <1>3, <2>4, <2>5 DEF UncleInv, ProbesFit
<1>6. CASE b.chain \notin DOMAIN named
  <2>1. C = << TestBlock(Genesis, TRUE, << >>) >> /\ b.chain # DefaultName
    BY <1>4, <1>6 DEF ChainAsked
  <2>2. Len(C) = 1
    <3>1. \A x : Len(<< x >>) = 1
      OBVIOUS
    <3> QED BY <2>1, <3>1, Zenon
  <2> HIDE DEF C, number
  <2>3. Len(M) = 1
    <3>1. Len(Before(C, number)) = IF number < Len(C) THEN number ELSE Len(C)
      BY <1>4, BeforeFirst
    <3> QED BY <1>4, <2>2, <3>1
  <2> PICK K : K = named'[b.chain]
    OBVIOUS
  <2>4. Len(K) = 1
    BY <1>1, <2>2, <2>3
  <2>5. HeadersFit(K, b.chain)
    <3>1. \A i \in 1 .. 1 : ~ (i > 1)
      OBVIOUS
    <3> QED BY <2>1, <2>4, <3>1 DEF HeadersFit
  <2>6. \A n \in DOMAIN named' : HeadersFit(named'[n], n)
    BY <1>1, <1>2, <2>5
  <2>7. \A i \in 2 .. Len(C) : C[i].hash \in Proper
    BY <2>2
  <2>8. todo' \in Seq(CallsOf(Proper, {Probe}))
    BY <1>1, <2>7, CallsTyped DEF C
  <2>9. ProbesFit'
    BY <1>1, <2>1, <2>4, <2>8 DEF ProbesFit
  <2> QED BY <1>3, <2>6, <2>9 DEF UncleInv
<1> QED BY <1>5, <1>6

\* The block that is made is on the list, and the head if an uncle will be mined on it.
LEMMA RegisterUncles ==
    ASSUME TypedInv, UncleInv, phase \in {"make", "postmine"},
           NEW h \in Proper, NEW valid \in BOOLEAN, Register(h, valid),
           Known' \subseteq Known \cup {h}, valid => HeadBlock' = h
    PROVE  UncleInv'
<1> PICK L : L = named[currentName]
  OBVIOUS
<1> PICK b : b = TestBlock(h, valid, IF valid THEN prepared ELSE << >>)
  OBVIOUS
<1> PICK M : M = Append(L, b)
  OBVIOUS
<1>1. /\ named' = [named EXCEPT ![currentName] = M]
      /\ todo' = IF valid /\ hasUncles THEN << Probe >> ELSE << >>
      /\ UNCHANGED currentName
  BY DEF Register
<1>2. Known \subseteq Proper \cup {Genesis} /\ \A n \in DOMAIN named : HeadersFit(named[n], n)
  BY DEF UncleInv, Filling
<1>3. /\ currentName \in DOMAIN named /\ ChainFits(L) /\ Len(L) \in Nat \ {0}
      /\ prepared \in Seq(Hash) /\ << >> \in Seq(Hash)
  BY BlocksOfList, EmptySeq DEF TypedInv, ChainsFit, BlockInv, ChainFits
<1>4. b \in TestBlocks /\ b.hash = h /\ b.next = NoHeader
  BY <1>3 DEF TestBlock, TestBlocks, Proper
<1>5. /\ Len(M) = Len(L) + 1 /\ M[Len(L) + 1] = b
      /\ \A i \in 1 .. Len(L) : M[i] = L[i]
  BY <1>3, <1>4, AppendFits
<1>6. HeadersFit(M, currentName)
  <2>1. HeadersFit(L, currentName)
    BY <1>2, <1>3
  <2>2. \A i \in 1 .. Len(M) : i \in 1 .. Len(L) \/ i = Len(L) + 1
    BY <1>3, <1>5
  <2>3. b.hash \in Proper /\ NextFits(b)
    BY <1>4 DEF NextFits
  <2> QED BY <1>5, <2>1, <2>2, <2>3 DEF HeadersFit
<1>7. /\ DOMAIN named' = DOMAIN named /\ named'[currentName'] = M
      /\ \A n \in DOMAIN named : named'[n] = IF n = currentName THEN M ELSE named[n]
  BY <1>1, <1>3
<1>8. ProbesFit'
  <2>1. CASE todo' = << >>
    BY <2>1, EmptySeq DEF ProbesFit
  <2>2. CASE todo' = << Probe >> /\ valid
    <3>1. HeadBlock' = M[Len(M)].hash
      BY <1>4, <1>5, <2>2
    <3> QED BY <1>7, <2>2, <3>1 DEF ProbesFit
  <2> QED BY <1>1, <2>1, <2>2
<1> QED BY <1>2, <1>6, <1>7, <1>8 DEF UncleInv

\* The blocks a filler makes: they are imported, or mined.
LEMMA MadeUncles ==
    ASSUME EveryChild, TypedInv, Inv, RestoredInv(FALSE), UncleInv,
           MakeRawBlock \/ MakePlainBlock \/ MineToTweak \/ ImportTweaked
    PROVE  UncleInv'
<1> PICK h : h = BlockToMake
  OBVIOUS
<1> PICK m : m = ChildOf(HeadBlock, MinedKind, << >>)
  OBVIOUS
<1>1. phase \in {"make", "postmine"} /\ todo = << >> /\ ClientSingle /\ ChainsInv
  BY DEF MakeRawBlock, MakePlainBlock, MineToTweak, ImportTweaked, RestoredInv, Filling, TypedInv
<1>2. /\ KindToMake \in Kind \ {CandidateKind} /\ KindIn(h) = KindToMake
      /\ h \in Hash /\ m \in Hash /\ HeadBlock \in Hash
  BY <1>1, MadeTyped, HeadKnown
<1>3. h \in Proper /\ m \in Proper
  <2>1. MinedKind \in Kind /\ MinedKind # CandidateKind /\ << >> \in Seq(Hash)
    BY FillerAssumption, EmptySeq
  <2>2. KindIn(m) = MinedKind
    BY <1>2, <2>1, ChildFits
  <2> QED BY <1>2, <2>1, <2>2 DEF Proper
<1>4. ASSUME GrownBy(h) PROVE HeadBlock' = h
  BY <1>1, <1>4, GrownHolds DEF HeadBlock, ClientSingle
<1>5. CASE MakeRawBlock
  <2> PICK v \in BOOLEAN : v <=> FALSE
    OBVIOUS
  <2>1. Import(h) /\ (GoToError \/ Register(h, v))
    BY <1>5 DEF MakeRawBlock
  <2>2. CASE GoToError
    BY <2>2 DEF GoToError, UncleInv, Filling
  <2>3. CASE Register(h, v)
    BY <1>1, <1>2, <1>3, <2>1, <2>3, ImportKnown, RegisterUncles
  <2> QED BY <2>1, <2>2, <2>3
<1>6. CASE MakePlainBlock
  <2> PICK v \in BOOLEAN : v <=> TRUE
    OBVIOUS
  <2>1. MineBlocks(h) /\ (GoToError \/ Register(h, v))
    BY <1>6 DEF MakePlainBlock
  <2>2. Known' = Known \cup {h} /\ HeadBlock' = h
    BY <1>1, <1>2, <2>1, MineTree DEF Tree!MineOnHead
  <2>3. CASE GoToError
    BY <2>3 DEF GoToError, UncleInv, Filling
  <2> QED BY <1>1, <1>3, <2>1, <2>2, <2>3, RegisterUncles
<1>7. CASE MineToTweak
  <2>1. /\ MineBlocks(m) /\ todo' = << RewindTo(Len(chains[currentChain]) - 1) >>
        /\ UNCHANGED <<named, currentName>>
    BY <1>7 DEF MineToTweak
  <2>2. Known' = Known \cup {m}
    BY <1>1, <1>2, <2>1, MineTree DEF Tree!MineOnHead
  <2>3. Known \subseteq Proper \cup {Genesis} /\ \A n \in DOMAIN named : HeadersFit(named[n], n)
    BY <1>1 DEF UncleInv, Filling
  <2>4. Len(chains[currentChain]) - 1 \in Nat
    BY <1>1, InvFacts, GoodChainElements
  <2> PICK k \in Nat : k = Len(chains[currentChain]) - 1
    BY <2>4
  <2>5. << RewindTo(k) >> \in Seq(CallsOf(Proper, {}))
    <3>1. RewindTo(k) \in CallsOf(Proper, {})
      BY DEF CallsOf
    <3> QED BY <3>1
  <2>6. ProbesFit'
    BY <2>1, <2>5 DEF ProbesFit
  <2> QED BY <1>3, <2>1, <2>2, <2>3, <2>6 DEF UncleInv
<1>8. CASE ImportTweaked
  <2> DEFINE invalid == Invalid(KindToMake, NetOf[currentName])
  <2>1. /\ Import(h)
        /\ IF invalid <=> reply' = "import failed" THEN Register(h, ~ invalid) ELSE GoToError
    BY <1>8 DEF ImportTweaked
  <2>2. invalid \in BOOLEAN
    BY DEF Invalid
  <2> HIDE DEF invalid
  <2>3. CASE invalid <=> reply' = "import failed"
    <3> PICK v \in BOOLEAN : v = ~ invalid
      BY <2>2
    <3>1. Register(h, v) /\ (v => reply' # "import failed")
      BY <2>1, <2>2, <2>3
    <3>2. v => GrownBy(h)
      <4> PICK safe \in BOOLEAN : safe = FALSE
        OBVIOUS
      <4>1. RestoredInv(safe)
        OBVIOUS
      <4> QED BY <1>1, <2>1, <3>1, <4>1, ImportedOnHead
    <3> QED BY <1>1, <1>2, <1>3, <1>4, <2>1, <3>1, <3>2, ImportKnown, RegisterUncles
  <2>4. CASE ~ (invalid <=> reply' = "import failed")
    BY <2>1, <2>4 DEF GoToError, UncleInv, Filling
  <2> QED BY <2>3, <2>4
<1> QED BY <1>5, <1>6, <1>7, <1>8

\* Every step.
LEMMA NextUncles ==
    ASSUME EveryChild, TypedInv, Inv, RestoredInv(FALSE), UncleInv, [FillerNext]_allVars
    PROVE  UncleInv'
<1>1. CASE ClientCall
  BY <1>1, CallUncles
<1>2. CASE \E b \in FillerBlocks[hasUncles] : ParseBlock(b)
  BY <1>2, ParseUncles
<1>3. CASE \E b \in FillerBlocks[hasUncles] : ParseOutOfOrder(b)
  BY <1>3 DEF ParseOutOfOrder, UncleInv, Filling
<1>4. CASE PrepareUncle
  <2>1. /\ UNCHANGED <<chains, currentChain, maxChains, named, currentName, todo>>
        /\ phase = "uncles"
    BY <1>4 DEF PrepareUncle, vars
  <2>2. Known' = Known /\ HeadBlock' = HeadBlock
    BY <2>1 DEF Known, HeadBlock
  <2> QED BY <2>1, <2>2 DEF UncleInv, Filling, ProbesFit
<1>5. CASE MakeRawBlock \/ MakePlainBlock \/ MineToTweak \/ ImportTweaked
  BY <1>5, MadeUncles
<1>6. CASE EndOfBlocks \/ Synced \/ StartRun \/ EndRun
  BY <1>6 DEF EndOfBlocks, Synced, StartRun, EndRun, UncleInv, Filling
<1>7. CASE SyncBlock \/ RunBlock
  BY <1>7 DEF SyncBlock, RunBlock, GoToError, UncleInv, Filling
<1>8. CASE Finished \/ UNCHANGED allVars
  <2>1. UNCHANGED <<chains, currentChain, maxChains, named, currentName, todo, phase>>
    BY <1>8 DEF Finished, allVars, vars, fillerVars
  <2>2. Known' = Known /\ HeadBlock' = HeadBlock
    BY <2>1 DEF Known, HeadBlock
  <2> QED BY <2>1, <2>2 DEF UncleInv, Filling, ProbesFit
<1> QED BY <1>1, <1>2, <1>3, <1>4, <1>5, <1>6, <1>7, <1>8 DEF FillerNext

\* A candidate, and the block that may cite it, are made by the rules.
EveryCandidate ==
    \A p \in Hash :
        /\ HeaderOK[ChildOf(p, CandidateKind, << >>)]
        /\ \A k \in {CandidateKind, MinedKind} : NumberOf[ChildOf(p, k, << >>)] = NumberOf[p] + 1

\* A candidate may be cited by the next block where the block below it is on the chain
\* below the head, and not too old.
LEMMA CandidateFits ==
    ASSUME EveryChild, EveryCandidate, TypedInv, Inv,
           Known \subseteq Proper \cup {Genesis},
           NEW c, c = chains[currentChain],
           NEW p \in 1 .. Len(c), c[p].hash # HeadBlock,
           Len(c) - NumberOf[c[p].hash] <= UncleGenerations,
           NEW u, u = ChildOf(c[p].hash, CandidateKind, << >>),
           \A i \in DOMAIN c : u \notin UnclesIn(c[i].hash)
    PROVE  /\ ParentOf[u] = c[p].hash
           /\ VerifyUncles(<< u >>, ChildOf(HeadBlock, MinedKind, << >>), c)
<1> PICK N : N = Len(c)
  OBVIOUS
<1> PICK m : m = ChildOf(HeadBlock, MinedKind, << >>)
  OBVIOUS
<1> PICK h : h = c[p].hash
  OBVIOUS
<1>0. ChainsInv
  BY DEF TypedInv
<1>1. /\ GoodChain(c) /\ N \in Nat \ {0} /\ DOMAIN c = 1 .. N /\ h \in Hash
      /\ HeadBlock = c[N].hash /\ HeadBlock \in Hash
  <2>1. GoodChain(c)
    BY <1>0, InvFacts
  <2>2. HeadBlock = c[Len(c)].hash
    BY DEF HeadBlock, Tip
  <2>3. /\ Len(c) \in Nat \ {0} /\ DOMAIN c = 1 .. Len(c)
        /\ \A i \in 1 .. Len(c) : c[i].hash \in Hash
    BY <2>1, GoodChainElements
  <2>4. N = Len(c) /\ Len(c) \in 1 .. Len(c)
    BY <2>3
  <2> QED BY <2>1, <2>2, <2>3, <2>4
<1>2. NumberOf[h] = p - 1 /\ NumberOf[HeadBlock] = N - 1 /\ p < N
  <2>1. \A i \in 1 .. N : NumberOf[c[i].hash] = i - 1
    BY <1>1 DEF GoodChain
  <2>2. p \in 1 .. N /\ N \in 1 .. N
    BY <1>1
  <2>3. NumberOf[h] = p - 1 /\ NumberOf[HeadBlock] = N - 1
    BY <1>1, <2>1, <2>2
  <2>4. p # N
    BY <1>1
  <2> QED BY <1>1, <2>2, <2>3, <2>4
<1>3. /\ u \in Hash /\ ParentOf[u] = h /\ KindIn(u) = CandidateKind
      /\ CandidateKind \in Kind /\ << >> \in Seq(Hash)
  <2>1. CandidateKind \in Kind /\ << >> \in Seq(Hash)
    BY FillerAssumption, EmptySeq
  <2>2. u = ChildOf(h, CandidateKind, << >>)
    OBVIOUS
  <2>3. \A q \in Hash : LET v == ChildOf(q, CandidateKind, << >>)
                        IN  v \in Hash /\ ParentOf[v] = q /\ KindIn(v) = CandidateKind
    BY <2>1, ChildFits
  <2> QED BY <1>1, <2>1, <2>2, <2>3
<1>4. HeaderOK[u] /\ NumberOf[u] = p /\ NumberOf[m] = N
  <2>1. HeaderOK[u] /\ NumberOf[u] = NumberOf[h] + 1 /\ NumberOf[m] = NumberOf[HeadBlock] + 1
    BY <1>1 DEF EveryCandidate
  <2> QED BY <1>1, <1>2, <2>1
<1>5. u \notin Hashes(c)
  <2>1. u \notin Proper
    BY <1>3 DEF Proper
  <2>2. u # Genesis
    BY <1>4, BlocksAssumption
  <2>3. Hashes(c) \subseteq Known
    <3>1. currentChain \in DOMAIN chains
      BY <1>0, InvFacts DEF GoodChains
    <3> QED BY <3>1 DEF Known
  <2> QED BY <2>1, <2>2, <2>3
<1>6. VerifyBlockParent(u, c)
  <2>1. \A i \in DOMAIN c : c[i].hash # u
    BY <1>5 DEF Hashes
  <2>2. p \in DOMAIN c /\ c[p].hash = ParentOf[u] /\ NumberOf[u] = NumberOf[c[p].hash] + 1
    BY <1>1, <1>2, <1>3, <1>4
  <2> QED BY <2>1, <2>2 DEF VerifyBlockParent
<1>7. NumberOf[u] < NumberOf[m] /\ NumberOf[u] + UncleGenerations > NumberOf[m]
  BY <1>1, <1>2, <1>4 DEF UncleGenerations
<1>8. VerifyUncles(<< u >>, m, c)
  <2> PICK us : us = << u >>
    OBVIOUS
  <2>1. Len(us) = 1 /\ DOMAIN us = 1 .. 1 /\ us[1] = u
    OBVIOUS
  <2>2. \A i \in DOMAIN us : us[i] = u /\ \A j \in 1 .. i - 1 : FALSE
    BY <2>1
  <2>3. Len(us) <= MaxUncles
    BY <2>1 DEF MaxUncles
  <2> QED BY <1>4, <1>6, <1>7, <2>2, <2>3 DEF VerifyUncles, VerifyHeader
<1> QED BY <1>3, <1>8

\* The header kept with a block is a candidate on it, and the client knows no candidate.
LEMMA UnclesFit ==
    ASSUME EveryChild, EveryCandidate, TypedInv, Inv, UncleInv
    PROVE  UncleCandidatesFit
<1> PICK c : c = chains[currentChain]
  OBVIOUS
<1> SUFFICES ASSUME ReadyToMake, NEW n \in DOMAIN named, NEW i \in DOMAIN named[n],
                    named[n][i].next # NoHeader,
                    i > 1 \/ n = DefaultName,
                    named[n][i].hash \in Hashes(c) \ {HeadBlock},
                    Len(c) - NumberOf[named[n][i].hash] <= UncleGenerations,
                    \A d \in DOMAIN c : named[n][i].next \notin UnclesIn(c[d].hash)
             PROVE  /\ ParentOf[named[n][i].next] = named[n][i].hash
                    /\ VerifyUncles(<< named[n][i].next >>, ChildOf(HeadBlock, MinedKind, << >>), c)
  BY DEF UncleCandidatesFit
<1> PICK b : b = named[n][i]
  OBVIOUS
<1>1. Known \subseteq Proper \cup {Genesis} /\ HeadersFit(named[n], n)
  BY DEF UncleInv, ReadyToMake, Filling
<1>2. DOMAIN named[n] = 1 .. Len(named[n])
  BY BlocksOfList DEF TypedInv, ChainsFit, ChainFits
<1>3. b.next = ChildOf(b.hash, CandidateKind, << >>)
  BY <1>1, <1>2 DEF HeadersFit, NextFits
<1>4. PICK p \in 1 .. Len(c) : c[p].hash = b.hash
  <2>1. DOMAIN c = 1 .. Len(c)
    BY InvFacts, GoodChainElements DEF TypedInv
  <2> QED BY <2>1 DEF Hashes
<1> PICK u : u = ChildOf(c[p].hash, CandidateKind, << >>)
  OBVIOUS
<1>5. u = b.next
  BY <1>3, <1>4
<1>6. /\ ParentOf[u] = c[p].hash
      /\ VerifyUncles(<< u >>, ChildOf(HeadBlock, MinedKind, << >>), c)
  BY <1>1, <1>4, <1>5, CandidateFits
<1> QED BY <1>4, <1>5, <1>6

\* The header kept with a block was mined on just that block, wherever the client has
\* been since (TestBlockchain::mineNextBlockAndRevert), and no block of a chain is such a
\* header: so every later block may cite it, on every branch that has the block below
\* its head, until it is cited there or too old.  The hypotheses say that there are
\* enough blocks, one can be told from another, and those the tool mines follow the rules.
THEOREM UncleCandidatesAlwaysFit ==
    ASSUME EveryChild, EveryCandidate
    PROVE  FillerSpec => []UncleCandidatesFit
<1> DEFINE Some == RestoredInv(FALSE)
<1>1. FillerInit => Some
  BY InitRestored
<1>2. TypedInv /\ Inv /\ Some /\ [FillerNext]_allVars => Some'
  BY NextRestored
<1>3. FillerInit => UncleInv
  BY InitUncles
<1>4. TypedInv /\ Inv /\ Some /\ UncleInv /\ [FillerNext]_allVars => UncleInv'
  BY NextUncles
<1>5. TypedInv /\ Inv /\ UncleInv => UncleCandidatesFit
  BY UnclesFit
<1>6. FillerSpec => []TypedInv
  BY InitTyped, NextTyped, PTL DEF FillerSpec
<1> QED BY <1>1, <1>2, <1>3, <1>4, <1>5, <1>6, FillerInvariant, PTL DEF FillerSpec

-----------------------------------------------------------------------------
(* The test that was filled *)

\* OnParent, for any client.
HoldersOf(chs, p) == {c \in DOMAIN chs : p \in Hashes(chs[c])}

On(chs, max, p) ==
    LET c == CHOOSE c \in HoldersOf(chs, p) : \A d \in HoldersOf(chs, p) : c <= d
        i == CHOOSE i \in DOMAIN chs[c] : chs[c][i].hash = p
        n == max + 1
    IN IF i = Len(chs[c])
       THEN [chains |-> chs, current |-> c, max |-> max]
       ELSE [chains  |-> [d \in DOMAIN chs \cup {n} |->
                            IF d = n THEN ClonedUpTo(chs[c], i) ELSE chs[d]],
             current |-> n,
             max     |-> n]

\* A block that cannot go on the chain of its parent, on the canonical network.
Refused(h, chain) ==
    \/ ~ VerifyHeader(h, chain)
    \/ Invalid(KindIn(h), DefaultNet) /\ KindIn(h) \notin UncleKinds
    \/ ~ VerifyUncles(UnclesOf[h], h, chain)

\* A client on the canonical network after the import of a block, and whether that failed.
After(s, h) ==
    LET on    == On(s.chains, s.max, ParentOf[h])
        chain == on.chains[on.current]
        grown == [on.chains EXCEPT ![on.current] = Append(chain, WithTotalDifficulty(h, chain))]
    IN IF KindIn(h) \in RawKinds \/ HoldersOf(s.chains, ParentOf[h]) = {}
       THEN [chains |-> s.chains, current |-> s.current, max |-> s.max, failed |-> TRUE]
       ELSE IF Refused(h, chain)
       THEN [chains |-> on.chains, current |-> s.current, max |-> on.max, failed |-> TRUE]
       ELSE [chains  |-> grown,
             current |-> IF IsParisChain THEN on.current ELSE HeaviestChain(grown, on.current),
             max     |-> on.max,
             failed  |-> FALSE]

\* A client that was just set up.
Fresh == [chains |-> [c \in {0} |-> NewChain], current |-> 0, max |-> 0, failed |-> FALSE]

\* What a client goes through when it imports the first n blocks of the list: those fail
\* that are labelled so.
Plays(t, L, n) ==
    /\ t[1] = Fresh
    /\ \A i \in 1 .. n : /\ t[i + 1] = After(t[i], L[i].hash)
                         /\ t[i + 1].failed <=> L[i].invalid

ClientIs(s) == chains = s.chains /\ currentChain = s.current /\ maxChains = s.max

\* The client could have come to where it is by n imports.
Reached(n) == \E t : Plays(t, rlps, n) /\ ClientIs(t[n + 1])

\* It will be there when the block that was mined to be changed is taken off again.
GoesBackTo(s, k) ==
    /\ k < Len(chains[currentChain])
    /\ s.chains = [chains EXCEPT ![currentChain] = Rewound(chains[currentChain], k)]
    /\ s.current = currentChain /\ s.max = maxChains

Returning(n) == \E t, k : /\ Plays(t, rlps, n) /\ GoesBackTo(t[n + 1], k)
                          /\ todo = << RewindTo(k) >>

\* The labels of the first n blocks that the test has are also in its export.
Marked(n) == \A i \in 1 .. n : rlps[i].invalid => exported[i].invalid

\* The first n blocks have no label of a side network only.
NoneStale(n) == \A i \in 1 .. n : exported[i].invalid => rlps[i].invalid

\* The history that all blocks of the test make ends where the test says.
EndsAt(t) ==
    LET s == t[Len(rlps) + 1] IN
    Plays(t, rlps, Len(rlps)) /\ lastHash = Tip(s.chains[s.current]).hash

SetUp == todo = << ResetTo(DefaultNet) >> /\ at = 1

OnDefault == todo = << >> /\ network = DefaultNet

\* While no chain was left the client is where the imports of all blocks lead.
Straight ==
    /\ currentName = DefaultName
    /\ \A i \in 1 .. Len(rlps) : exported[i].invalid = rlps[i].invalid
    /\ \/ todo \in {<< >>, << Probe >>} /\ Reached(Len(rlps))
       \/ Returning(Len(rlps))

Syncing ==
    /\ Marked(at - 1)
    /\ SetUp \/ (OnDefault /\ at <= Len(rlps) + 1 /\ Reached(at - 1))

Filled == Marked(Len(rlps)) /\ \E t : EndsAt(t)

Running ==
    /\ Marked(Len(rlps)) /\ NoneStale(at - 1)
    /\ \E t : EndsAt(t) /\ (SetUp \/ (OnDefault /\ at <= Len(rlps) + 1 /\ ClientIs(t[at])))

\* The last block that was imported is the first with such a label.
Stopped ==
    /\ at - 1 \in 1 .. Len(rlps)
    /\ exported[at - 1].invalid /\ ~ rlps[at - 1].invalid
    /\ NoneStale(at - 2)

\* If all blocks are exported, the filler and then the runner take the client through
\* one history, and the runner stops at the first label of a side network only.
PlayInv ==
    Len(exported) = Len(rlps) =>
        /\ \A i \in 1 .. Len(rlps) : exported[i].hash = rlps[i].hash
        /\ Filling /\ ~ wasFork => Straight
        /\ phase = "sync" => Syncing
        /\ phase = "filled" => Filled
        /\ phase = "run" => Running
        /\ phase = "mismatch" => Stopped
        /\ phase = "passed" => NoneStale(Len(rlps))

-----------------------------------------------------------------------------
\* What OnParent says of the client there is.
LEMMA OnIsOnParent ==
    ASSUME NEW p
    PROVE  On(chains, maxChains, p) = OnParent(p) /\ HoldersOf(chains, p) = Holders(p)
BY DEF On, OnParent, HoldersOf, Holders, FirstHolder

\* A client that was described.
LEMMA ClientFits ==
    ASSUME NEW x, NEW chs, NEW current, NEW max, NEW failed \in BOOLEAN,
           x = [chains |-> chs, current |-> current, max |-> max, failed |-> failed],
           chains' = chs, currentChain' = current, maxChains' = max
    PROVE  ClientIs(x)' /\ (x.failed <=> failed)
<1>1. x.chains = chs /\ x.current = current /\ x.max = max /\ x.failed = failed
  OBVIOUS
<1> QED BY <1>1 DEF ClientIs

\* An import has one outcome.
LEMMA ImportAfter ==
    ASSUME NEW s, ClientIs(s), network = DefaultNet, NEW h, Import(h), NEW x, x = After(s, h)
    PROVE  ClientIs(x)' /\ (x.failed <=> reply' = "import failed")
<1> DEFINE p == ParentOf[h]
<1> PICK on : on = OnParent(p)
  OBVIOUS
<1> PICK chain : chain = on.chains[on.current]
  OBVIOUS
<1> DEFINE grown == [on.chains EXCEPT ![on.current] = Append(chain, WithTotalDifficulty(h, chain))]
<1>1. On(s.chains, s.max, p) = on /\ HoldersOf(s.chains, p) = Holders(p)
      /\ chains = s.chains /\ currentChain = s.current /\ maxChains = s.max
  BY OnIsOnParent DEF ClientIs
<1> PICK raw \in BOOLEAN : raw <=> (KindIn(h) \in RawKinds \/ Holders(p) = {})
  OBVIOUS
<1>2. x =
        IF raw
        THEN [chains |-> s.chains, current |-> s.current, max |-> s.max, failed |-> TRUE]
        ELSE IF Refused(h, chain)
        THEN [chains |-> on.chains, current |-> s.current, max |-> on.max, failed |-> TRUE]
        ELSE [chains  |-> grown,
              current |-> IF IsParisChain THEN on.current ELSE HeaviestChain(grown, on.current),
              max     |-> on.max,
              failed  |-> FALSE]
  BY <1>1 DEF After
<1>3. IF raw THEN ImportUnreadable
      ELSE \/ ImportBadHeader(h)
           \/ BadBody(h) /\ ImportBadBody(h)
           \/ ~ BadBody(h) /\ ImportAccepted(h)
  BY DEF Import
<1>4. BadBody(h) <=> \/ Invalid(KindIn(h), DefaultNet) /\ KindIn(h) \notin UncleKinds
                     \/ ~ VerifyUncles(UnclesOf[h], h, chain)
  BY DEF BadBody
<1> HIDE DEF p
<1>5. CASE raw
  <2>1. x = [chains |-> s.chains, current |-> s.current, max |-> s.max, failed |-> TRUE]
    BY <1>2, <1>5
  <2>2. UNCHANGED <<chains, currentChain, maxChains>> /\ reply' = "import failed"
    BY <1>3, <1>5 DEF ImportUnreadable, ImportFailed
  <2>3. chains' = s.chains /\ currentChain' = s.current /\ maxChains' = s.max
    BY <1>1, <2>2
  <2>4. ClientIs(x)' /\ (x.failed <=> TRUE)
    BY <2>1, <2>3, ClientFits
  <2> QED BY <2>2, <2>4
<1>6. ASSUME ~ raw, Refused(h, chain), reply' = "import failed",
             chains' = on.chains, maxChains' = on.max, currentChain' = currentChain
      PROVE  ClientIs(x)' /\ (x.failed <=> reply' = "import failed")
  <2>1. x = [chains |-> on.chains, current |-> s.current, max |-> on.max, failed |-> TRUE]
    BY <1>2, <1>6
  <2>2. currentChain' = s.current
    BY <1>1, <1>6
  <2>3. ClientIs(x)' /\ (x.failed <=> TRUE)
    BY <1>6, <2>1, <2>2, ClientFits
  <2> QED BY <1>6, <2>3
<1>7. CASE ~ raw /\ ~ BadBody(h) /\ ImportAccepted(h)
  <2>1. ~ Refused(h, chain)
    BY <1>4, <1>7 DEF Refused, ImportAccepted, Importable, p
  <2>2. /\ chains' = grown /\ maxChains' = on.max
        /\ currentChain' = IF IsParisChain THEN on.current ELSE HeaviestChain(grown, on.current)
        /\ reply' = "imported"
    BY <1>7 DEF ImportAccepted, p
  <2> DEFINE best == IF IsParisChain THEN on.current ELSE HeaviestChain(grown, on.current)
  <2>3. x = [chains |-> grown, current |-> best, max |-> on.max, failed |-> FALSE]
    BY <1>2, <1>7, <2>1
  <2>4. chains' = grown /\ currentChain' = best /\ maxChains' = on.max
    BY <2>2
  <2> HIDE DEF grown, best
  <2>5. ClientIs(x)' /\ (x.failed <=> FALSE)
    BY <2>3, <2>4, ClientFits
  <2> QED BY <2>2, <2>5
<1>8. CASE ~ raw
  <2>1. \/ ImportBadHeader(h)
        \/ BadBody(h) /\ ImportBadBody(h)
        \/ ~ BadBody(h) /\ ImportAccepted(h)
    BY <1>3, <1>8
  <2>2. CASE ImportBadHeader(h)
    <3>1. /\ Refused(h, chain) /\ reply' = "import failed"
          /\ chains' = on.chains /\ maxChains' = on.max /\ currentChain' = currentChain
      BY <2>2 DEF Refused, ImportBadHeader, ImportFailed, p
    <3> QED BY <1>6, <1>8, <3>1
  <2>3. CASE BadBody(h) /\ ImportBadBody(h)
    <3>1. /\ Refused(h, chain) /\ reply' = "import failed"
          /\ chains' = on.chains /\ maxChains' = on.max /\ currentChain' = currentChain
      BY <1>4, <2>3 DEF Refused, ImportBadBody, ImportFailed, p
    <3> QED BY <1>6, <1>8, <3>1
  <2>4. CASE ~ BadBody(h) /\ ImportAccepted(h)
    BY <1>7, <1>8, <2>4
  <2> QED BY <2>1, <2>2, <2>3, <2>4
<1> QED BY <1>5, <1>8

\* A block that is mined on a client with one chain is one that can be imported.
LEMMA MinedAfter ==
    ASSUME NEW s, ClientIs(s), ClientSingle, NEW h \in Hash, MineBlocks(h),
           KindIn(h) \notin RawKinds, ~ Invalid(KindIn(h), DefaultNet),
           NEW x, x = After(s, h)
    PROVE  ClientIs(x)' /\ ~ x.failed
<1> DEFINE chain == chains[0]
           grown == [chains EXCEPT ![0] = Append(chain, WithTotalDifficulty(h, chain))]
<1>1. /\ chains = s.chains /\ currentChain = s.current /\ maxChains = s.max
      /\ currentChain = 0 /\ maxChains = 0 /\ GoodChain(chain)
  BY DEF ClientIs, ClientSingle
<1>2. /\ VerifyHeader(h, chain) /\ NumberOf[h] = Len(chain) /\ UnclesOf[h] = << >>
      /\ chains' = grown /\ UNCHANGED <<currentChain, maxChains>>
  BY <1>1 DEF MineBlocks
<1>3. VerifyUncles(UnclesOf[h], h, chain)
  BY <1>2 DEF VerifyUncles, MaxUncles
<1>4. ParentOf[h] = Tip(chain).hash
  BY <1>1, <1>2, <1>3, ExtendGood
<1> PICK on : on = OnParent(ParentOf[h])
  OBVIOUS
<1>5. /\ On(s.chains, s.max, ParentOf[h]) = on
      /\ HoldersOf(s.chains, ParentOf[h]) # {}
      /\ on.chains = chains /\ on.current = 0 /\ on.max = 0
  BY <1>1, <1>4, NoClone, OnIsOnParent
<1>6. ~ Refused(h, chain)
  BY <1>2, <1>3 DEF Refused
<1>7. HeaviestChain(grown, 0) = 0
  <2>1. GoodChain(Append(chain, WithTotalDifficulty(h, chain)))
    BY <1>1, <1>2, <1>3, ExtendGood
  <2>2. GoodChains(chains, 0) /\ 0 \in Nat /\ 0 \in 0 .. 0 /\ 0 .. 0 = {0}
    BY SingleGood
  <2>3. GoodChains(grown, 0)
    BY <2>1, <2>2, ReplaceGood
  <2> HIDE DEF grown
  <2> QED BY <2>2, <2>3, HeaviestChainIsOne
<1>8. x = [chains |-> grown, current |-> 0, max |-> 0, failed |-> FALSE]
  <2>1. x = [chains  |-> grown,
             current |-> IF IsParisChain THEN 0 ELSE HeaviestChain(grown, 0),
             max     |-> 0,
             failed  |-> FALSE]
    BY <1>5, <1>6 DEF After
  <2> HIDE DEF grown
  <2> QED BY <1>7, <2>1
<1>9. chains' = grown /\ currentChain' = 0 /\ maxChains' = 0
  BY <1>1, <1>2
<1> HIDE DEF grown
<1>10. ClientIs(x)' /\ (x.failed <=> FALSE)
  BY <1>8, <1>9, ClientFits
<1> QED BY <1>10

\* A history that goes one block further.
LEMMA PlaysMore ==
    ASSUME NEW t, NEW L, NEW n \in Nat, Plays(t, L, n),
           After(t[n + 1], L[n + 1].hash).failed <=> L[n + 1].invalid
    PROVE  \E u : Plays(u, L, n + 1) /\ u[(n + 1) + 1] = After(t[n + 1], L[n + 1].hash)
<1> DEFINE s == After(t[n + 1], L[n + 1].hash)
<1> DEFINE u == [i \in 1 .. n + 2 |-> IF i = n + 2 THEN s ELSE t[i]]
<1>1. \A i \in 1 .. n + 1 : u[i] = t[i] /\ i + 1 \in 1 .. n + 2
  OBVIOUS
<1>2. u[n + 2] = s /\ (n + 1) + 1 = n + 2 /\ 1 \in 1 .. n + 1
  OBVIOUS
<1> HIDE DEF u
<1>3. u[1] = Fresh
  BY <1>1, <1>2 DEF Plays
<1>4. ASSUME NEW i \in 1 .. n + 1
      PROVE  u[i + 1] = After(u[i], L[i].hash) /\ (u[i + 1].failed <=> L[i].invalid)
  <2>1. CASE i = n + 1
    BY <1>1, <1>2, <2>1
  <2>2. CASE i # n + 1
    <3>1. i \in 1 .. n /\ i + 1 \in 1 .. n + 1
      BY <2>2
    <3>2. u[i] = t[i] /\ u[i + 1] = t[i + 1]
      BY <1>1, <3>1
    <3> QED BY <3>1, <3>2 DEF Plays
  <2> QED BY <2>1, <2>2
<1>5. Plays(u, L, n + 1)
  BY <1>3, <1>4 DEF Plays
<1> QED BY <1>2, <1>5

\* A list that begins as the other one.
LEMMA PlaysAlike ==
    ASSUME NEW t, NEW L, NEW M, NEW n, Plays(t, L, n), \A i \in 1 .. n : M[i] = L[i]
    PROVE  Plays(t, M, n)
BY DEF Plays

\* A history without blocks.
LEMMA PlaysNothing ==
    ASSUME NEW L
    PROVE  \E t : Plays(t, L, 0) /\ t[0 + 1] = Fresh
<1> DEFINE t == [i \in {1} |-> Fresh]
<1>1. t[1] = Fresh /\ 1 .. 0 = {} /\ 0 + 1 = 1
  OBVIOUS
<1> HIDE DEF t
<1>2. Plays(t, L, 0)
  BY <1>1 DEF Plays
<1> QED BY <1>1, <1>2

\* test_setChainParams.
LEMMA ResetIsFresh == ASSUME SetChainParams PROVE ClientIs(Fresh)'
BY DEF SetChainParams, ClientIs, Fresh

-----------------------------------------------------------------------------
(* The steps of the filler and the runner *)

\* The lists of the test.
LEMMA ListFacts ==
    ASSUME TypedInv
    PROVE  /\ Len(rlps) \in Nat /\ Len(exported) \in Nat /\ Len(exported) <= Len(rlps)
           /\ DOMAIN rlps = 1 .. Len(rlps) /\ DOMAIN exported = 1 .. Len(exported)
           /\ rlps \in Seq(Labelled) /\ exported \in Seq(Labelled)
           /\ \A i \in 1 .. Len(rlps) : rlps[i].hash \in Hash /\ rlps[i].invalid \in BOOLEAN
           /\ \A i \in 1 .. Len(exported) : exported[i].invalid \in BOOLEAN
           /\ at \in Nat \ {0}
<1>1. /\ rlps \in Seq(Labelled) /\ exported \in Seq(Labelled) /\ Len(exported) <= Len(rlps)
      /\ at \in Nat \ {0}
  BY DEF TypedInv, ListsFit
<1>2. /\ \A i \in 1 .. Len(rlps) : rlps[i] \in Labelled
      /\ \A i \in 1 .. Len(exported) : exported[i] \in Labelled
  BY <1>1, ElementOfSeq
<1>3. Len(rlps) \in Nat /\ Len(exported) \in Nat
      /\ DOMAIN rlps = 1 .. Len(rlps) /\ DOMAIN exported = 1 .. Len(exported)
  BY <1>1, LenProperties
<1> QED BY <1>1, <1>2, <1>3 DEF Labelled

\* The client goes one block further in the history of the test.
LEMMA ReachedMore ==
    ASSUME NEW n \in Nat, Reached(n), network = DefaultNet, NEW h, Import(h),
           rlps' = rlps, h = rlps[n + 1].hash,
           rlps[n + 1].invalid <=> reply' = "import failed"
    PROVE  Reached(n + 1)'
<1>1. PICK t : Plays(t, rlps, n) /\ ClientIs(t[n + 1])
  BY DEF Reached
<1>2. PICK x : x = After(t[n + 1], h)
  OBVIOUS
<1>3. ClientIs(x)' /\ (x.failed <=> reply' = "import failed")
  BY <1>1, <1>2, ImportAfter
<1>4. After(t[n + 1], rlps[n + 1].hash) = x /\ (x.failed <=> rlps[n + 1].invalid)
  BY <1>2, <1>3
<1>5. PICK u : Plays(u, rlps, n + 1) /\ u[(n + 1) + 1] = After(t[n + 1], rlps[n + 1].hash)
  BY <1>1, <1>4, PlaysMore
<1>6. Plays(u, rlps', n + 1) /\ ClientIs(u[(n + 1) + 1])'
  BY <1>3, <1>4, <1>5
<1> QED BY <1>6 DEF Reached

\* The first step of sync and of the run.
LEMMA SetUpReached ==
    ASSUME SetUp, ClientCall
    PROVE  SetChainParams /\ OnDefault' /\ at' = 1
<1> DEFINE c == ResetTo(DefaultNet)
<1>1. todo = << c >> /\ at = 1
  BY DEF SetUp
<1>2. c.call = "reset" /\ c.net = DefaultNet
  BY DEF ResetTo
<1>3. Head(todo) = c /\ Tail(todo) = << >>
  BY <1>1
<1> HIDE DEF c
<1>4. SetChainParams /\ network' = DefaultNet /\ todo' = << >> /\ at' = at
  BY <1>2, <1>3 DEF ClientCall
<1> QED BY <1>1, <1>4 DEF OnDefault, DefaultNet

\* Initially.
LEMMA InitPlay ==
    ASSUME FillerInit
    PROVE  PlayInv
<1>1. /\ rlps = << >> /\ exported = << >> /\ todo = << >> /\ currentName = DefaultName
      /\ phase = "parse" /\ chains = [c \in {0} |-> NewChain] /\ currentChain = 0 /\ maxChains = 0
  BY DEF FillerInit, Init
<1>2. Len(rlps) = 0 /\ 1 .. 0 = {}
  BY <1>1
<1>3. ClientIs(Fresh)
  BY <1>1 DEF ClientIs, Fresh
<1>4. Reached(0)
  BY <1>3, PlaysNothing DEF Reached
<1>5. Straight
  BY <1>1, <1>2, <1>4 DEF Straight
<1> QED BY <1>1, <1>2, <1>5 DEF PlayInv

\* Where nothing is left to call no block has to be taken off.
LEMMA StraightReached ==
    ASSUME Straight, todo = << >>
    PROVE  Reached(Len(rlps))
<1>1. \A c : << c >> # << >>
  OBVIOUS
<1>2. ~ Returning(Len(rlps))
  BY <1>1 DEF Returning
<1> QED BY <1>2 DEF Straight

\* A call while no chain was left: an uncle is mined, or a block is taken off again.
LEMMA StraightCall ==
    ASSUME Straight, ClientCall
    PROVE  Straight'
<1>1. /\ todo # << >> /\ todo' = Tail(todo)
      /\ UNCHANGED <<currentName, rlps, exported>>
  BY DEF ClientCall
<1> PICK n : n = Len(rlps)
  OBVIOUS
<1>2. todo' = << >> /\ Reached(n)'
  <2>1. CASE todo = << Probe >> /\ Reached(n)
    <3> DEFINE c == Probe
    <3>1. c.call = "probe"
      BY DEF Probe
    <3>2. Head(todo) = c /\ Tail(todo) = << >>
      BY <2>1
    <3> HIDE DEF c
    <3>3. MineNextBlockAndRevert
      BY <3>1, <3>2 DEF ClientCall
    <3>4. UNCHANGED <<chains, currentChain, maxChains>>
      BY <3>3 DEF MineNextBlockAndRevert
    <3>5. PICK t : Plays(t, rlps, n) /\ ClientIs(t[n + 1])
      BY <2>1 DEF Reached
    <3>6. Plays(t, rlps', n) /\ ClientIs(t[n + 1])'
      BY <1>1, <3>4, <3>5 DEF ClientIs
    <3> QED BY <1>1, <3>2, <3>6 DEF Reached
  <2>2. CASE Returning(n)
    <3>1. PICK t, k : Plays(t, rlps, n) /\ GoesBackTo(t[n + 1], k) /\ todo = << RewindTo(k) >>
      BY <2>2 DEF Returning
    <3> DEFINE c == RewindTo(k)
    <3>2. c.call = "rewind" /\ c.number = k
      BY DEF RewindTo
    <3>3. Head(todo) = c /\ Tail(todo) = << >>
      BY <3>1
    <3> HIDE DEF c
    <3>4. Rewind(k)
      BY <3>2, <3>3 DEF ClientCall
    <3>5. RewindToBlock(k)
      BY <3>1, <3>4 DEF Rewind, GoesBackTo
    <3>6. chains' = [chains EXCEPT ![currentChain] = Rewound(chains[currentChain], k)]
          /\ UNCHANGED <<currentChain, maxChains>>
      BY <3>5 DEF RewindToBlock
    <3>7. ClientIs(t[n + 1])'
      BY <3>1, <3>6 DEF GoesBackTo, ClientIs
    <3>8. Plays(t, rlps', n)
      BY <1>1, <3>1
    <3> QED BY <1>1, <3>3, <3>7, <3>8 DEF Reached
  <2> QED BY <1>1, <2>1, <2>2 DEF Straight
<1>3. Reached(Len(rlps))'
  BY <1>1, <1>2
<1> QED BY <1>1, <1>2, <1>3 DEF Straight

\* The call that sets the client up, in sync.
LEMMA SyncingCall ==
    ASSUME TypedInv, Syncing, ClientCall
    PROVE  Syncing'
<1>1. todo # << >> /\ UNCHANGED <<rlps, exported, at>>
  BY DEF ClientCall
<1>2. SetUp /\ Marked(at - 1)
  BY <1>1 DEF Syncing, OnDefault
<1>3. SetChainParams /\ OnDefault' /\ at' = 1
  BY <1>2, SetUpReached
<1>4. Reached(0)'
  <2>1. PICK t : Plays(t, rlps', 0) /\ t[0 + 1] = Fresh
    BY PlaysNothing
  <2>2. ClientIs(Fresh)'
    BY <1>3, ResetIsFresh
  <2>3. ClientIs(t[0 + 1])'
    BY <2>1, <2>2
  <2> QED BY <2>1, <2>3 DEF Reached
<1>5. at' - 1 = 0 /\ at' <= Len(rlps') + 1
  BY <1>1, <1>3, ListFacts
<1>6. Marked(at - 1)' /\ Reached(at - 1)'
  BY <1>1, <1>2, <1>4, <1>5 DEF Marked
<1> QED BY <1>3, <1>5, <1>6 DEF Syncing

\* The same, when the test is run.
LEMMA RunningCall ==
    ASSUME TypedInv, Running, ClientCall
    PROVE  Running'
<1>1. todo # << >> /\ UNCHANGED <<rlps, exported, at, lastHash>>
  BY DEF ClientCall
<1>2. PICK t : EndsAt(t) /\ SetUp
  BY <1>1 DEF Running, OnDefault
<1>3. SetChainParams /\ OnDefault' /\ at' = 1
  BY <1>2, SetUpReached
<1>4. t[1] = Fresh
  BY <1>2 DEF EndsAt, Plays
<1>5. ClientIs(Fresh)'
  BY <1>3, ResetIsFresh
<1>6. ClientIs(t[1])'
  BY <1>4, <1>5
<1>7. ClientIs(t[at])'
  BY <1>3, <1>6
<1>8. at' <= Len(rlps') + 1
  BY <1>1, <1>3, ListFacts
<1>9. EndsAt(t)' /\ Marked(Len(rlps))' /\ NoneStale(at - 1)'
  BY <1>1, <1>2 DEF EndsAt, Running, Marked, NoneStale
<1> QED BY <1>3, <1>7, <1>8, <1>9 DEF Running

\* ClientCall.
LEMMA CallPlay ==
    ASSUME TypedInv, PlayInv, ClientCall
    PROVE  PlayInv'
<1>1. UNCHANGED <<currentName, wasFork, rlps, exported, phase, at, lastHash>>
  BY DEF ClientCall
<1> SUFFICES ASSUME Len(exported) = Len(rlps)
             PROVE  /\ \A i \in 1 .. Len(rlps) : exported[i].hash = rlps[i].hash
                    /\ Filling /\ ~ wasFork => Straight'
                    /\ phase = "sync" => Syncing'
                    /\ phase = "filled" => Filled'
                    /\ phase = "run" => Running'
                    /\ phase = "mismatch" => Stopped
                    /\ phase = "passed" => NoneStale(Len(rlps))
  BY <1>1 DEF PlayInv, Filling, Stopped, NoneStale
<1>2. Filling /\ ~ wasFork => Straight'
  BY StraightCall DEF PlayInv
<1>3. phase = "sync" => Syncing'
  BY SyncingCall DEF PlayInv
<1>4. phase = "filled" => Filled'
  BY <1>1 DEF PlayInv, Filled, EndsAt, Marked
<1>5. phase = "run" => Running'
  BY RunningCall DEF PlayInv
<1> QED BY <1>2, <1>3, <1>4, <1>5 DEF PlayInv

\* A step that leaves the client and the lists alone, on the way to a block.
LEMMA StraightKept ==
    ASSUME Straight, todo = << >>, todo' = << >>,
           UNCHANGED <<chains, currentChain, maxChains, currentName, rlps, exported>>
    PROVE  Straight'
<1>1. PICK t : Plays(t, rlps, Len(rlps)) /\ ClientIs(t[Len(rlps) + 1])
  BY StraightReached DEF Reached
<1> PICK s : s = t[Len(rlps) + 1]
  OBVIOUS
<1>2. Plays(t, rlps', Len(rlps')) /\ t[Len(rlps') + 1] = s
  BY <1>1
<1>3. ClientIs(s)'
  BY <1>1 DEF ClientIs
<1>4. Reached(Len(rlps))'
  BY <1>2, <1>3 DEF Reached
<1> QED BY <1>4 DEF Straight

\* ParseBlock: where no chain is left nothing has to be called.
LEMMA ParsePlay ==
    ASSUME TypedInv, PlayInv, NEW b, ParseBlock(b)
    PROVE  PlayInv'
<1>1. /\ phase = "parse" /\ todo = << >> /\ phase' \in {"make", "uncles"}
      /\ currentName' = b.chain /\ wasFork' = (wasFork \/ MustRestore(b))
      /\ todo' = CallsOfNewChain(b) \o CallsToRestore(b)
      /\ UNCHANGED vars /\ UNCHANGED <<rlps, exported>>
  BY DEF ParseBlock
<1> SUFFICES ASSUME Len(exported) = Len(rlps), ~ wasFork' PROVE Straight'
  BY <1>1 DEF PlayInv
<1>2. ~ wasFork /\ ~ MustRestore(b)
  BY <1>1
<1>3. Straight
  BY <1>1, <1>2 DEF PlayInv, Filling
<1>4. currentName' = currentName /\ b.chain \in DOMAIN named
  BY <1>1, <1>2 DEF MustRestore, TypedInv, ChainsFit
<1>5. todo' = << >>
  <2>1. CallsOfNewChain(b) = << >> /\ CallsToRestore(b) = << >> /\ << >> \o << >> = << >>
    BY <1>2, <1>4 DEF CallsOfNewChain, CallsToRestore
  <2> QED BY <1>1, <2>1
<1> QED BY <1>1, <1>3, <1>4, <1>5, StraightKept DEF vars

\* PrepareUncle.
LEMMA UnclePlay ==
    ASSUME PlayInv, PrepareUncle
    PROVE  PlayInv'
<1>1. /\ phase = "uncles" /\ todo = << >> /\ phase' \in {"uncles", "make", "error"}
      /\ UNCHANGED vars /\ UNCHANGED <<currentName, wasFork, rlps, exported, todo>>
  BY DEF PrepareUncle
<1>2. Straight => Straight'
  BY <1>1, StraightKept DEF vars
<1> QED BY <1>1, <1>2 DEF PlayInv, Filling

\* An error, of which nothing is claimed.
LEMMA ErrorPlay ==
    ASSUME PlayInv, phase' = "error", UNCHANGED <<rlps, exported>>
    PROVE  PlayInv'
BY DEF PlayInv, Filling

\* A client of the canonical network comes from s to x by the block, and fails if it is bad.
Leads(h, bad) ==
    \A s, x : ClientIs(s) /\ x = After(s, h) => ClientIs(x)' /\ (x.failed <=> bad)

\* Register, of a block that the client has met as a client that imports it.
LEMMA RegisterPlay ==
    ASSUME TypedInv, PlayInv, phase \in {"make", "postmine"}, todo = << >>,
           NEW h, NEW valid, Register(h, valid),
           NEW bad \in BOOLEAN, bad <=> Invalid(KindToMake, NetOf[currentName]),
           NetOf[currentName] = DefaultNet => Leads(h, bad)
    PROVE  PlayInv'
<1> DEFINE made == [hash |-> h, invalid |-> InvalidOnCanon(KindToMake)]
           shown == [hash |-> h, invalid |-> Invalid(KindToMake, NetOf[currentName])]
<1> PICK n : n = Len(rlps)
  OBVIOUS
<1>1. /\ rlps' = Append(rlps, made)
      /\ exported' = exported \/ exported' = Append(exported, shown)
      /\ phase' \in {"parse", "make"}
      /\ todo' \in {<< >>, << Probe >>}
      /\ UNCHANGED <<currentName, wasFork>>
  BY DEF Register
<1>2. /\ n \in Nat /\ Len(exported) \in Nat /\ Len(exported) <= n
      /\ rlps \in Seq(Labelled) /\ exported \in Seq(Labelled)
  BY ListFacts
<1>3. made.hash = h /\ shown.hash = h
      /\ made.invalid = InvalidOnCanon(KindToMake)
      /\ shown.invalid = Invalid(KindToMake, NetOf[currentName])
  OBVIOUS
<1> HIDE DEF made, shown
<1>4. /\ Len(rlps') = n + 1 /\ rlps'[n + 1] = made
      /\ \A i \in 1 .. n : rlps'[i] = rlps[i]
  BY <1>1, <1>2
<1> SUFFICES ASSUME Len(exported') = Len(rlps')
             PROVE  PlayInv'
  BY DEF PlayInv
<1>5. Len(exported) = n /\ exported' = Append(exported, shown)
  <2>1. exported' # exported
    BY <1>2, <1>4
  <2>2. exported' = Append(exported, shown)
    BY <1>1, <2>1
  <2> QED BY <1>2, <1>4, <2>2
<1>6. exported'[n + 1] = shown /\ \A i \in 1 .. n : exported'[i] = exported[i]
  BY <1>2, <1>5
<1>7. \A i \in 1 .. n + 1 : i \in 1 .. n \/ i = n + 1
  BY <1>2
<1>8. \A i \in 1 .. n + 1 : exported'[i].hash = rlps'[i].hash
  <2>1. \A i \in 1 .. n : exported[i].hash = rlps[i].hash
    BY <1>5 DEF PlayInv
  <2> QED BY <1>3, <1>4, <1>6, <1>7, <2>1
<1>9. ASSUME ~ wasFork
      PROVE  Straight'
  <2>1. Straight
    BY <1>5, <1>9 DEF PlayInv, Filling
  <2>2. currentName = DefaultName /\ NetOf[currentName] = DefaultNet
    BY <2>1 DEF Straight, DefaultNet
  <2>3. made.invalid = shown.invalid /\ (made.invalid <=> bad)
    <3> DEFINE k == KindToMake
    <3>1. InvalidOnCanon(k) = Invalid(k, DefaultNet)
      BY <2>2 DEF InvalidOnCanon, Invalid
    <3>2. made.invalid = Invalid(k, DefaultNet) /\ shown.invalid = Invalid(k, DefaultNet)
      BY <1>3, <2>2, <3>1
    <3>3. bad <=> Invalid(k, DefaultNet)
      BY <2>2
    <3> QED BY <3>2, <3>3
  <2>4. \A i \in 1 .. n + 1 : exported'[i].invalid = rlps'[i].invalid
    <3>1. \A i \in 1 .. n : exported[i].invalid = rlps[i].invalid
      BY <2>1 DEF Straight
    <3> QED BY <1>4, <1>6, <1>7, <2>3, <3>1
  <2>5. PICK t : Plays(t, rlps, n) /\ ClientIs(t[n + 1])
    BY <2>1, StraightReached DEF Reached
  <2>6. Plays(t, rlps', n)
    BY <1>4, <2>5, PlaysAlike
  <2>7. PICK x : x = After(t[n + 1], h)
    OBVIOUS
  <2>8. ClientIs(x)' /\ (x.failed <=> bad)
    BY <2>2, <2>5, <2>7 DEF Leads
  <2>9. After(t[n + 1], rlps'[n + 1].hash) = x /\ (x.failed <=> rlps'[n + 1].invalid)
    BY <1>3, <1>4, <2>3, <2>7, <2>8
  <2>10. PICK u : Plays(u, rlps', n + 1) /\ u[(n + 1) + 1] = After(t[n + 1], rlps'[n + 1].hash)
    BY <1>2, <2>6, <2>9, PlaysMore
  <2>11. ClientIs(u[(n + 1) + 1])'
    BY <2>8, <2>9, <2>10
  <2>12. Reached(Len(rlps))'
    BY <1>4, <2>10, <2>11 DEF Reached
  <2> QED BY <1>1, <1>4, <2>2, <2>4, <2>12 DEF Straight
<1> QED BY <1>1, <1>4, <1>8, <1>9 DEF PlayInv

\* Where no call is left the client is on the network of the chain.
LEMMA NetworkAtRest ==
    ASSUME Inv, Filling, todo = << >>
    PROVE  network = NetOf[currentName]
BY NoCalls DEF Inv, NetworkInv, Filling

\* An import on the canonical network leads where the history goes.
LEMMA ImportLeads ==
    ASSUME NEW h, Import(h), network = DefaultNet, NEW bad \in BOOLEAN, bad <=> reply' = "import failed"
    PROVE  Leads(h, bad)
<1> SUFFICES ASSUME NEW s, NEW x, ClientIs(s), x = After(s, h)
             PROVE  ClientIs(x)' /\ (x.failed <=> bad)
  BY DEF Leads
<1>1. ClientIs(x)' /\ (x.failed <=> reply' = "import failed")
  BY ImportAfter
<1> QED BY <1>1

\* MakeRawBlock: the block fails on every client.
LEMMA RawPlay ==
    ASSUME EveryChild, TypedInv, Inv, PlayInv, MakeRawBlock
    PROVE  PlayInv'
<1> PICK h : h = BlockToMake
  OBVIOUS
<1> PICK bad \in BOOLEAN : bad <=> Invalid(KindToMake, NetOf[currentName])
  BY DEF Invalid
<1>1. /\ phase = "make" /\ todo = << >> /\ KindToMake \in RawKinds /\ Import(h)
      /\ IF bad THEN Register(h, FALSE) ELSE GoToError
  BY DEF MakeRawBlock
<1>2. KindIn(h) = KindToMake
  BY <1>1, MadeTyped
<1>3. reply' = "import failed"
  BY <1>1, <1>2 DEF Import, ImportUnreadable, ImportFailed
<1>4. CASE bad
  <2>1. network = NetOf[currentName]
    BY <1>1, NetworkAtRest DEF Filling
  <2>2. NetOf[currentName] = DefaultNet => Leads(h, bad)
    BY <1>1, <1>3, <1>4, <2>1, ImportLeads
  <2>3. \E v : Register(h, v)
    BY <1>1, <1>4
  <2> QED BY <1>1, <2>2, <2>3, RegisterPlay
<1>5. CASE ~ bad
  BY <1>1, <1>5, ErrorPlay DEF GoToError
<1> QED BY <1>4, <1>5

\* ImportTweaked: the block is registered with the answer of the client.
LEMMA TweakedPlay ==
    ASSUME TypedInv, Inv, PlayInv, ImportTweaked
    PROVE  PlayInv'
<1> PICK h : h = BlockToMake
  OBVIOUS
<1> PICK bad \in BOOLEAN : bad <=> Invalid(KindToMake, NetOf[currentName])
  BY DEF Invalid
<1>1. /\ phase = "postmine" /\ todo = << >> /\ Import(h)
      /\ \/ (bad <=> reply' = "import failed") /\ \E v : Register(h, v)
         \/ GoToError
  BY DEF ImportTweaked
<1>2. CASE (bad <=> reply' = "import failed") /\ \E v : Register(h, v)
  <2>1. network = NetOf[currentName]
    BY <1>1, NetworkAtRest DEF Filling
  <2>2. NetOf[currentName] = DefaultNet => Leads(h, bad)
    BY <1>1, <1>2, <2>1, ImportLeads
  <2> QED BY <1>1, <1>2, <2>2, RegisterPlay
<1>3. CASE GoToError
  BY <1>3, ErrorPlay DEF GoToError
<1> QED BY <1>1, <1>2, <1>3

\* MakePlainBlock: what is mined could have been imported.
LEMMA PlainPlay ==
    ASSUME EveryChild, TypedInv, RestoredInv(FALSE), PlayInv, MakePlainBlock
    PROVE  PlayInv'
<1> PICK h : h = BlockToMake
  OBVIOUS
<1> PICK bad \in BOOLEAN : bad <=> Invalid(KindToMake, NetOf[currentName])
  BY DEF Invalid
<1>1. /\ phase = "make" /\ todo = << >> /\ KindToMake \notin RawKinds /\ MineBlocks(h)
      /\ IF bad THEN GoToError ELSE Register(h, TRUE)
  BY DEF MakePlainBlock
<1>2. h \in Hash /\ KindIn(h) = KindToMake
  BY <1>1, MadeTyped
<1>3. ClientSingle
  BY <1>1 DEF RestoredInv, Filling
<1>4. CASE ~ bad
  <2>1. NetOf[currentName] = DefaultNet => Leads(h, bad)
    <3> SUFFICES ASSUME NetOf[currentName] = DefaultNet, NEW s, NEW x, ClientIs(s), x = After(s, h)
                 PROVE  ClientIs(x)' /\ (x.failed <=> bad)
      BY DEF Leads
    <3>1. ~ Invalid(KindIn(h), DefaultNet) /\ KindIn(h) \notin RawKinds
      BY <1>1, <1>2, <1>4
    <3>2. ClientIs(x)' /\ ~ x.failed
      BY <1>1, <1>2, <1>3, <3>1, MinedAfter
    <3> QED BY <1>4, <3>2
  <2>2. \E v : Register(h, v)
    BY <1>1, <1>4
  <2> QED BY <1>1, <2>1, <2>2, RegisterPlay
<1>5. CASE bad
  BY <1>1, <1>5, ErrorPlay DEF GoToError
<1> QED BY <1>4, <1>5

\* MineToTweak: the block that is mined will be taken off again.
LEMMA MinedPlay ==
    ASSUME EveryChild, TypedInv, RestoredInv(FALSE), PlayInv, MineToTweak
    PROVE  PlayInv'
<1> PICK h : h = ChildOf(HeadBlock, MinedKind, << >>)
  OBVIOUS
<1> PICK k : k = Len(chains[currentChain]) - 1
  OBVIOUS
<1>1. /\ phase = "make" /\ todo = << >> /\ MineBlocks(h) /\ phase' = "postmine"
      /\ todo' = << RewindTo(k) >>
      /\ UNCHANGED <<currentName, wasFork, rlps, exported>>
  BY DEF MineToTweak
<1>2. /\ ClientSingle /\ h \in Hash
  BY <1>1, MadeTyped DEF RestoredInv, Filling
<1> PICK chain : chain = chains[0]
  OBVIOUS
<1> DEFINE b == WithTotalDifficulty(h, chain)
           long == Append(chain, b)
<1>3. /\ chains' = [chains EXCEPT ![0] = long]
      /\ UNCHANGED <<currentChain, maxChains>>
      /\ currentChain = 0 /\ DOMAIN chains = {0} /\ chains = [c \in {0} |-> chain]
      /\ chain \in Seq(BlockRecords) /\ Len(chain) \in Nat \ {0} /\ k = Len(chain) - 1
      /\ VerifyHeader(h, chain) /\ NumberOf[h] = Len(chain) /\ UnclesOf[h] = << >>
  BY <1>1, <1>2, SingleGood DEF MineBlocks, ClientSingle, GoodChain
<1>4. b \in BlockRecords
  <2>1. VerifyUncles(UnclesOf[h], h, chain)
    BY <1>3 DEF VerifyUncles, MaxUncles
  <2>2. b = Block(h, TotalOf[h])
    BY <1>2, <1>3, <2>1, ExtendGood DEF ClientSingle
  <2> QED BY <1>2, <2>2, HistoryAssumption DEF Block, BlockRecords
<1> HIDE DEF b
<1>5. Rewound(long, k) = chain /\ k < Len(long)
  <2> DEFINE n == Len(chain)
             short == SubSeq(long, 1, n)
  <2>1. k + 1 = n /\ long \in Seq(BlockRecords) /\ Len(long) = n + 1
    BY <1>3, <1>4
  <2>2. \A i \in 1 .. n : long[i] = chain[i] /\ long[i] \in BlockRecords
    BY <1>3, <1>4
  <2>3. Rewound(long, k) = short
    BY <2>1 DEF Rewound
  <2> HIDE DEF long
  <2>4. short \in Seq(BlockRecords) /\ Len(short) = n /\ \A i \in 1 .. n : short[i] = long[i]
    BY <1>3, <2>1, <2>2, SubSeqProperties
  <2> HIDE DEF short
  <2>5. short = chain
    BY <1>3, <2>2, <2>4, SeqEqual
  <2> QED BY <1>3, <2>1, <2>3, <2>5
<1> HIDE DEF long
<1>6. chains = [chains' EXCEPT ![0] = chain] /\ chains'[0] = long
  BY <1>3
<1>7. ASSUME Straight
      PROVE  Straight'
  <2>1. PICK t : Plays(t, rlps, Len(rlps)) /\ ClientIs(t[Len(rlps) + 1])
    BY <1>1, <1>7, StraightReached DEF Reached
  <2>2. PICK s : s = t[Len(rlps) + 1]
    OBVIOUS
  <2>3. s.chains = chains /\ s.current = currentChain /\ s.max = maxChains
    BY <2>1, <2>2 DEF ClientIs
  <2>4. GoesBackTo(s, k)'
    BY <1>3, <1>5, <1>6, <2>3 DEF GoesBackTo
  <2>5. Plays(t, rlps', Len(rlps')) /\ t[Len(rlps') + 1] = s
    BY <1>1, <2>1, <2>2
  <2>6. GoesBackTo(t[Len(rlps) + 1], k)'
    BY <2>4, <2>5
  <2>7. Returning(Len(rlps))'
    BY <1>1, <2>5, <2>6 DEF Returning
  <2> QED BY <1>1, <1>7, <2>7 DEF Straight
<1> QED BY <1>1, <1>7 DEF PlayInv, Filling

\* EndOfBlocks: where no chain was left the client is at the end of the history already.
LEMMA EndPlay ==
    ASSUME TypedInv, PlayInv, EndOfBlocks
    PROVE  PlayInv'
<1> PICK n : n = Len(rlps)
  OBVIOUS
<1>1. /\ phase = "parse" /\ todo = << >> /\ UNCHANGED <<rlps, exported>>
      /\ \/ /\ wasFork /\ phase' = "sync" /\ at' = 1 /\ todo' = << ResetTo(DefaultNet) >>
         \/ /\ ~ wasFork /\ phase' = "filled" /\ lastHash' = HeadBlock
  BY DEF EndOfBlocks, making
<1> SUFFICES ASSUME Len(exported) = n
             PROVE  /\ phase' = "sync" => Syncing'
                    /\ phase' = "filled" => Filled'
  BY <1>1 DEF PlayInv, Filling
<1>2. CASE phase' = "sync"
  <2>1. SetUp' /\ at' - 1 = 0
    BY <1>1, <1>2 DEF SetUp, DefaultNet
  <2>2. Marked(at - 1)'
    BY <2>1 DEF Marked
  <2> QED BY <1>2, <2>1, <2>2 DEF Syncing
<1>3. CASE phase' = "filled"
  <2>1. ~ wasFork /\ lastHash' = HeadBlock
    BY <1>1, <1>3
  <2>2. Straight
    BY <1>1, <2>1 DEF PlayInv, Filling
  <2>3. PICK t : Plays(t, rlps, n) /\ ClientIs(t[n + 1])
    BY <1>1, <2>2, StraightReached DEF Reached
  <2>4. PICK s : s = t[n + 1]
    OBVIOUS
  <2>5. lastHash' = Tip(s.chains[s.current]).hash
    BY <2>1, <2>3, <2>4 DEF ClientIs, HeadBlock
  <2>6. EndsAt(t)'
    BY <1>1, <2>3, <2>4, <2>5 DEF EndsAt
  <2>7. Marked(Len(rlps))'
    BY <1>1, <2>2 DEF Straight, Marked
  <2> QED BY <1>3, <2>6, <2>7 DEF Filled
<1> QED BY <1>2, <1>3

\* Synced: the last block is the head after all imports.
LEMMA SyncedPlay ==
    ASSUME TypedInv, PlayInv, Synced
    PROVE  PlayInv'
<1> PICK n : n = Len(rlps)
  OBVIOUS
<1>1. /\ phase = "sync" /\ todo = << >> /\ at > n /\ UNCHANGED <<rlps, exported>>
      /\ phase' = "filled" /\ lastHash' = HeadBlock
  BY DEF Synced, making
<1> SUFFICES ASSUME Len(exported) = n PROVE Filled'
  BY <1>1 DEF PlayInv, Filling
<1>2. Syncing
  BY <1>1 DEF PlayInv
<1>3. \A c : << c >> # << >>
  OBVIOUS
<1>4. Marked(at - 1) /\ at <= n + 1 /\ Reached(at - 1)
  BY <1>1, <1>2, <1>3 DEF Syncing, SetUp
<1>5. at - 1 = n
  BY <1>1, <1>4, ListFacts
<1>6. PICK t : Plays(t, rlps, n) /\ ClientIs(t[n + 1])
  BY <1>4, <1>5 DEF Reached
<1>7. PICK s : s = t[n + 1]
  OBVIOUS
<1>8. lastHash' = Tip(s.chains[s.current]).hash
  BY <1>1, <1>6, <1>7 DEF ClientIs, HeadBlock
<1>9. EndsAt(t)'
  BY <1>1, <1>6, <1>7, <1>8 DEF EndsAt
<1>10. Marked(Len(rlps))'
  BY <1>1, <1>4, <1>5 DEF Marked
<1> QED BY <1>9, <1>10 DEF Filled

\* SyncBlock: a label is put where the client fails, and only there.
LEMMA SyncPlay ==
    ASSUME TypedInv, PlayInv, SyncBlock
    PROVE  PlayInv'
<1> PICK n : n = Len(rlps)
  OBVIOUS
<1> PICK h : h = rlps[at].hash
  OBVIOUS
<1>1. /\ phase = "sync" /\ todo = << >> /\ at <= n /\ Import(h)
      /\ \/ /\ rlps[at].invalid <=> reply' = "import failed"
            /\ exported' = IF rlps[at].invalid THEN [exported EXCEPT ![at].invalid = TRUE] ELSE exported
            /\ at' = at + 1
            /\ UNCHANGED <<network, rlps, todo, phase>>
         \/ GoToError
  BY DEF SyncBlock, making
<1>2. CASE GoToError
  BY <1>2, ErrorPlay DEF GoToError
<1>3. CASE ~ GoToError
  <2>1. /\ rlps[at].invalid <=> reply' = "import failed"
        /\ exported' = IF rlps[at].invalid THEN [exported EXCEPT ![at].invalid = TRUE] ELSE exported
        /\ at' = at + 1
        /\ UNCHANGED <<network, rlps, todo, phase>>
    BY <1>1, <1>3
  <2>2. PICK m \in Nat : m = at - 1 /\ at = m + 1 /\ at' - 1 = m + 1 /\ at \in 1 .. n /\ at' <= n + 1
    <3>1. at \in Nat \ {0} /\ n \in Nat
      BY ListFacts
    <3>2. at' = at + 1 /\ at <= n
      BY <1>1, <2>1
    <3>3. at - 1 \in Nat /\ at = (at - 1) + 1 /\ at' - 1 = (at - 1) + 1 /\ at \in 1 .. n /\ at' <= n + 1
      BY <3>1, <3>2
    <3> QED BY <3>1, <3>3
  <2>3. /\ Len(exported') = Len(exported)
        /\ Len(exported) = n => \A i \in 1 .. n :
              /\ exported'[i].hash = exported[i].hash
              /\ exported'[i].invalid = IF i = at /\ rlps[at].invalid THEN TRUE ELSE exported[i].invalid
    <3>1. CASE ~ rlps[at].invalid
      BY <2>1, <3>1
    <3>2. CASE rlps[at].invalid
      <4> DEFINE e == [exported[at] EXCEPT !.invalid = TRUE]
      <4>1. exported' = [exported EXCEPT ![at] = e]
        BY <2>1, <3>2
      <4>2. Len(exported') = Len(exported) /\ DOMAIN exported = 1 .. Len(exported)
        <5>1. exported \in Seq(Labelled)
          BY ListFacts
        <5> HIDE DEF e
        <5> QED BY <4>1, <5>1, LenProperties
      <4>3. Len(exported) = n => e.invalid = TRUE /\ e.hash = exported[at].hash
        <5>1. Len(exported) = n => exported[at] \in Labelled
          BY <2>2, ListFacts, ElementOfSeq
        <5> QED BY <5>1 DEF Labelled
      <4> HIDE DEF e
      <4> QED BY <2>2, <3>2, <4>1, <4>2, <4>3
    <3> QED BY <3>1, <3>2
  <2> SUFFICES ASSUME Len(exported) = n
               PROVE  /\ \A i \in 1 .. n : exported'[i].hash = rlps[i].hash
                      /\ Syncing'
    BY <1>1, <2>1, <2>3 DEF PlayInv, Filling
  <2>4. Syncing /\ \A i \in 1 .. n : exported[i].hash = rlps[i].hash
    BY <1>1 DEF PlayInv
  <2>5. \A c : << c >> # << >>
    OBVIOUS
  <2>6. OnDefault /\ Reached(m) /\ Marked(m)
    BY <1>1, <2>2, <2>4, <2>5 DEF Syncing, SetUp
  <2>7. Reached(m + 1)'
    <3>1. h = rlps[m + 1].hash /\ (rlps[m + 1].invalid <=> reply' = "import failed")
      BY <2>1, <2>2
    <3> QED BY <1>1, <2>1, <2>6, <3>1, ReachedMore DEF OnDefault
  <2>8. Marked(at - 1)'
    <3> SUFFICES ASSUME NEW i \in 1 .. m + 1, rlps[i].invalid PROVE exported'[i].invalid
      BY <2>1, <2>2 DEF Marked
    <3>1. i \in 1 .. n /\ (i = at \/ i \in 1 .. m)
      BY <2>2
    <3>2. i # at => exported[i].invalid
      BY <2>6, <3>1 DEF Marked
    <3> QED BY <2>3, <3>1, <3>2
  <2>9. OnDefault' /\ at' <= n + 1
    <3>1. OnDefault'
      BY <2>1, <2>6 DEF OnDefault, DefaultNet
    <3> QED BY <2>2, <3>1
  <2>10. Reached(at - 1)'
    BY <2>2, <2>7
  <2> QED BY <2>1, <2>3, <2>4, <2>8, <2>9, <2>10 DEF Syncing
<1> QED BY <1>2, <1>3

\* StartRun.
LEMMA StartPlay ==
    ASSUME PlayInv, StartRun
    PROVE  PlayInv'
<1>1. /\ phase = "filled" /\ phase' = "run" /\ at' = 1 /\ todo' = << ResetTo(DefaultNet) >>
      /\ UNCHANGED <<rlps, exported, lastHash>>
  BY DEF StartRun, making
<1>2. SetUp'
  BY <1>1 DEF SetUp, DefaultNet
<1>3. Filled => Running'
  BY <1>1, <1>2 DEF Filled, Running, EndsAt, Marked, NoneStale
<1> QED BY <1>1, <1>3 DEF PlayInv, Filling

\* RunBlock: the client answers as it did, and the labels say so.
LEMMA RunPlay ==
    ASSUME TypedInv, PlayInv, RunBlock
    PROVE  PlayInv'
<1> PICK n : n = Len(rlps)
  OBVIOUS
<1> PICK h : h = exported[at].hash
  OBVIOUS
<1>1. /\ phase = "run" /\ todo = << >> /\ at <= Len(exported) /\ Import(h)
      /\ phase' = IF exported[at].invalid <=> reply' = "import failed" THEN "run" ELSE "mismatch"
      /\ at' = at + 1
      /\ UNCHANGED <<rlps, exported, todo, network, lastHash>>
  BY DEF RunBlock, making
<1> SUFFICES ASSUME Len(exported) = n
             PROVE  /\ phase' = "run" => Running'
                    /\ phase' = "mismatch" => Stopped'
  BY <1>1 DEF PlayInv, Filling
<1>2. at \in 1 .. n /\ at' <= n + 1 /\ at' - 1 = at /\ at' - 2 = at - 1 /\ at \in Nat
  <2>1. at \in Nat \ {0} /\ n \in Nat
    BY ListFacts
  <2>2. at <= n /\ at' = at + 1
    BY <1>1
  <2> QED BY <2>1, <2>2
<1>3. Running /\ h = rlps[at].hash
  BY <1>1, <1>2 DEF PlayInv
<1>4. \A c : << c >> # << >>
  OBVIOUS
<1>5. PICK t : EndsAt(t) /\ OnDefault /\ ClientIs(t[at]) /\ Marked(n)
  BY <1>1, <1>3, <1>4 DEF Running, SetUp
<1>6. PICK x : x = After(t[at], h)
  OBVIOUS
<1>7. ClientIs(x)' /\ (x.failed <=> reply' = "import failed")
  BY <1>1, <1>5, <1>6, ImportAfter DEF OnDefault
<1>8. t[at + 1] = x /\ (x.failed <=> rlps[at].invalid)
  <2>1. /\ t[at + 1] = After(t[at], rlps[at].hash)
        /\ t[at + 1].failed <=> rlps[at].invalid
    BY <1>2, <1>5 DEF EndsAt, Plays
  <2>2. After(t[at], rlps[at].hash) = x
    BY <1>3, <1>6
  <2> QED BY <2>1, <2>2
<1>9. ASSUME phase' = "run" PROVE Running'
  <2>0. NoneStale(at - 1)'
    <3>1. exported[at].invalid => rlps[at].invalid
      BY <1>1, <1>7, <1>8, <1>9
    <3>2. NoneStale(at - 1)
      BY <1>3 DEF Running
    <3>3. \A i \in 1 .. at : i = at \/ i \in 1 .. at - 1
      BY <1>2
    <3> QED BY <1>1, <1>2, <3>1, <3>2, <3>3 DEF NoneStale
  <2>1. t[at'] = x
    BY <1>1, <1>8
  <2>2. ClientIs(t[at])'
    BY <1>7, <2>1
  <2>3. OnDefault' /\ EndsAt(t)' /\ Marked(Len(rlps))'
    BY <1>1, <1>5 DEF OnDefault, DefaultNet, EndsAt, Marked
  <2> QED BY <1>1, <1>2, <2>0, <2>2, <2>3 DEF Running
<1>10. ASSUME phase' = "mismatch"
       PROVE  Stopped'
  <2>1. ~ (exported[at].invalid <=> reply' = "import failed")
    BY <1>1, <1>10
  <2>2. rlps[at].invalid => exported[at].invalid
    BY <1>2, <1>5 DEF Marked
  <2>3. exported[at].invalid /\ ~ rlps[at].invalid
    BY <1>7, <1>8, <2>1, <2>2
  <2>4. NoneStale(at - 1)
    BY <1>3 DEF Running
  <2> QED BY <1>1, <1>2, <2>3, <2>4 DEF Stopped, NoneStale
<1> QED BY <1>2, <1>9, <1>10

\* EndRun: the client ends where the test says.
LEMMA EndRunPlay ==
    ASSUME TypedInv, PlayInv, EndRun
    PROVE  PlayInv'
<1> PICK n : n = Len(rlps)
  OBVIOUS
<1>1. /\ phase = "run" /\ todo = << >> /\ at > Len(exported)
      /\ phase' = IF HeadBlock = lastHash THEN "passed" ELSE "mismatch"
      /\ UNCHANGED <<rlps, exported>>
  BY DEF EndRun, making
<1> SUFFICES ASSUME Len(exported) = n PROVE HeadBlock = lastHash /\ NoneStale(n)
  BY <1>1 DEF PlayInv, Filling, NoneStale
<1>2. \A c : << c >> # << >>
  OBVIOUS
<1>3. PICK t : EndsAt(t) /\ at <= n + 1 /\ ClientIs(t[at])
  BY <1>1, <1>2 DEF PlayInv, Running, SetUp
<1>4. at = n + 1
  <2>1. at \in Nat /\ n \in Nat
    BY ListFacts
  <2> QED BY <1>1, <1>3, <2>1
<1>5. PICK s : s = t[n + 1]
  OBVIOUS
<1>6. ClientIs(s) /\ lastHash = Tip(s.chains[s.current]).hash
  BY <1>3, <1>4, <1>5 DEF EndsAt
<1>7. NoneStale(n)
  <2>1. NoneStale(at - 1) /\ at - 1 = n
    BY <1>1, <1>4, ListFacts DEF PlayInv, Running
  <2> QED BY <2>1
<1> QED BY <1>6, <1>7 DEF ClientIs, HeadBlock

\* Every step.
LEMMA NextPlay ==
    ASSUME EveryChild, TypedInv, Inv, RestoredInv(FALSE), PlayInv, [FillerNext]_allVars
    PROVE  PlayInv'
<1>1. CASE UNCHANGED allVars
  <2>1. /\ UNCHANGED <<chains, currentChain, maxChains, rlps, exported, phase, wasFork, currentName,
                       todo, at, network, lastHash>>
    BY <1>1 DEF allVars, vars, fillerVars
  <2>2. ASSUME NEW s PROVE ClientIs(s)' <=> ClientIs(s)
    BY <2>1 DEF ClientIs
  <2>3. ASSUME NEW s, NEW k PROVE GoesBackTo(s, k)' <=> GoesBackTo(s, k)
    BY <2>1 DEF GoesBackTo
  <2>4. Straight => Straight'
    BY <2>1, <2>2, <2>3 DEF Straight, Reached, Returning
  <2>5. Syncing => Syncing'
    BY <2>1, <2>2 DEF Syncing, Reached, Marked, SetUp, OnDefault, DefaultNet
  <2>6. Filled => Filled'
    BY <2>1 DEF Filled, EndsAt, Marked
  <2>7. Running => Running'
    BY <2>1, <2>2 DEF Running, EndsAt, Marked, NoneStale, SetUp, OnDefault, DefaultNet
  <2>8. (Stopped => Stopped') /\ (NoneStale(Len(rlps)) => NoneStale(Len(rlps))')
    BY <2>1 DEF Stopped, NoneStale
  <2> QED BY <2>1, <2>4, <2>5, <2>6, <2>7, <2>8 DEF PlayInv, Filling
<1>2. CASE FillerNext
  <2>1. ASSUME NEW b, ParseOutOfOrder(b) PROVE PlayInv'
    BY <2>1, ErrorPlay DEF ParseOutOfOrder
  <2> QED BY <1>1, <1>2, <2>1, CallPlay, ParsePlay, UnclePlay, RawPlay, PlainPlay, MinedPlay,
             TweakedPlay, EndPlay, SyncPlay, SyncedPlay, StartPlay, RunPlay, EndRunPlay
          DEF FillerNext, Finished
<1> QED BY <1>1, <1>2

\* BlockchainTestRunner finds in the client what the filler wrote down: all blocks are
\* imported, each is accepted or refused as its label says, and the last is the head;
\* whether the filler mined them one after the other, or on many chains and networks
\* and imported them once more in the order of the test.  What can go wrong is that a
\* block is not exported, or invalid on its own network only: then the run stops at
\* just that block.
THEOREM FilledTestsAlwaysPass ==
    ASSUME EveryChild
    PROVE  FillerSpec => []FilledTestPasses
<1> DEFINE Some == RestoredInv(FALSE)
<1>1. FillerInit => Some
  BY InitRestored
<1>2. TypedInv /\ Inv /\ Some /\ [FillerNext]_allVars => Some'
  BY NextRestored
<1>3. FillerInit => PlayInv
  BY InitPlay
<1>4. TypedInv /\ Inv /\ Some /\ PlayInv /\ [FillerNext]_allVars => PlayInv'
  BY NextPlay
<1>5. TypedInv /\ PlayInv => FilledTestPasses
  <2> SUFFICES ASSUME TypedInv, PlayInv, Len(exported) = Len(rlps)
               PROVE  /\ phase = "mismatch" => at - 1 \in StaleLabels
                                               /\ \A i \in StaleLabels : at - 1 <= i
                      /\ phase = "passed" => StaleLabels = {}
    BY DEF FilledTestPasses
  <2>1. DOMAIN exported = 1 .. Len(rlps) /\ Len(rlps) \in Nat /\ at \in Nat
    BY ListFacts
  <2>2. ASSUME phase = "mismatch"
        PROVE  at - 1 \in StaleLabels /\ \A i \in StaleLabels : at - 1 <= i
    <3>1. Stopped
      BY <2>2 DEF PlayInv
    <3>2. \A i \in 1 .. Len(rlps) : at - 1 <= i \/ i \in 1 .. at - 2
      BY <2>1
    <3> QED BY <2>1, <3>1, <3>2 DEF Stopped, NoneStale, StaleLabels
  <2>3. phase = "passed" => StaleLabels = {}
    BY <2>1 DEF PlayInv, NoneStale, StaleLabels
  <2> QED BY <2>2, <2>3
<1>6. FillerSpec => []TypedInv
  BY InitTyped, NextTyped, PTL DEF FillerSpec
<1> QED BY <1>1, <1>2, <1>3, <1>4, <1>5, <1>6, FillerInvariant, PTL DEF FillerSpec

-----------------------------------------------------------------------------
(* The blocks that are exported *)

\* No block of the filler is marked doNotExport.
NothingHidden == \A u \in BOOLEAN : \A b \in FillerBlocks[u] : ~ b.hidden

AllExported == ~ block.hidden /\ Len(exported) = Len(rlps)

\* Every step exports what it makes.
LEMMA NextExports ==
    ASSUME NothingHidden, EveryChild, TypedInv, AllExported, [FillerNext]_allVars
    PROVE  AllExported'
<1>1. TypedInv'
  BY NextTyped
<1>2. /\ rlps \in Seq(Labelled) /\ exported \in Seq(Labelled) /\ Len(exported) = Len(rlps)
      /\ block \in BlockSections /\ ~ block.hidden /\ hasUncles \in BOOLEAN
  BY DEF TypedInv, ListsFit, BlockInv, ChainsFit, AllExported
<1>3. ASSUME NEW h, NEW v, Register(h, v) PROVE AllExported'
  <2> DEFINE made == [hash |-> h, invalid |-> InvalidOnCanon(KindToMake)]
             shown == [hash |-> h, invalid |-> Invalid(KindToMake, NetOf[currentName])]
  <2>1. /\ rlps' = Append(rlps, made) /\ exported' = Append(exported, shown)
        /\ block' = [block EXCEPT !.kinds = Tail(block.kinds)]
    BY <1>2, <1>3 DEF Register
  <2> HIDE DEF made, shown
  <2>2. block'.hidden = block.hidden
    BY <1>2, <2>1 DEF BlockSections
  <2>3. Len(rlps') = Len(rlps) + 1 /\ Len(exported') = Len(exported) + 1
    BY <1>2, <2>1
  <2> QED BY <1>2, <2>2, <2>3 DEF AllExported
<1>4. ASSUME UNCHANGED <<block, rlps, exported>> PROVE AllExported'
  BY <1>4 DEF AllExported
<1>5. ASSUME NEW b \in FillerBlocks[hasUncles], ParseBlock(b) PROVE AllExported'
  BY <1>2, <1>5 DEF ParseBlock, AllExported, NothingHidden
<1>6. CASE SyncBlock
  <2>1. UNCHANGED <<block, rlps>> /\ (exported' = exported \/ exported' = [exported EXCEPT ![at].invalid = TRUE])
    BY <1>6 DEF SyncBlock, GoToError, making
  <2> DEFINE e == [exported[at] EXCEPT !.invalid = TRUE]
  <2>2. exported' = exported \/ exported' = [exported EXCEPT ![at] = e]
    BY <2>1
  <2> HIDE DEF e
  <2>3. Len(exported') = Len(exported)
    BY <1>2, <2>2
  <2> QED BY <1>2, <2>1, <2>3 DEF AllExported
<1>7. CASE MakeRawBlock \/ MakePlainBlock \/ ImportTweaked
  <2>1. (\E h, v : Register(h, v)) \/ GoToError
    BY <1>7 DEF MakeRawBlock, MakePlainBlock, ImportTweaked
  <2>2. GoToError => UNCHANGED <<block, rlps, exported>>
    BY DEF GoToError
  <2> QED BY <1>3, <1>4, <2>1, <2>2
<1>8. CASE UNCHANGED allVars
  BY <1>4, <1>8 DEF allVars, fillerVars
<1>9. CASE ClientCall \/ PrepareUncle \/ MineToTweak
  BY <1>4, <1>9 DEF ClientCall, PrepareUncle, MineToTweak
<1>10. CASE EndOfBlocks \/ Synced \/ StartRun \/ RunBlock \/ EndRun
  BY <1>4, <1>10 DEF EndOfBlocks, Synced, StartRun, RunBlock, EndRun, making
<1>11. ASSUME NEW b \in FillerBlocks[hasUncles], ParseOutOfOrder(b) PROVE AllExported'
  BY <1>4, <1>11 DEF ParseOutOfOrder
<1> QED BY <1>5, <1>6, <1>7, <1>8, <1>9, <1>10, <1>11 DEF FillerNext, Finished

\* syncOnRemoteClient puts each label at its block, as its comment relies on, in every test
\* that has no block marked doNotExport: the run filler_export shows what happens in the
\* others, and this that nothing else goes wrong.
THEOREM ExportAlwaysFollows ==
    ASSUME EveryChild, NothingHidden
    PROVE  FillerSpec => []ExportFollowsImports
<1> DEFINE Some == RestoredInv(FALSE)
<1>1. FillerInit => Some
  BY InitRestored
<1>2. TypedInv /\ Inv /\ Some /\ [FillerNext]_allVars => Some'
  BY NextRestored
<1>3. FillerInit => PlayInv
  BY InitPlay
<1>4. TypedInv /\ Inv /\ Some /\ PlayInv /\ [FillerNext]_allVars => PlayInv'
  BY NextPlay
<1>5. FillerInit => AllExported
  BY DEF FillerInit, NoBlock, AllExported
<1>6. TypedInv /\ AllExported /\ [FillerNext]_allVars => AllExported'
  BY NextExports
<1>7. TypedInv /\ AllExported /\ PlayInv => ExportFollowsImports
  BY ListFacts DEF AllExported, PlayInv, ExportFollowsImports
<1>8. FillerSpec => []TypedInv
  BY InitTyped, NextTyped, PTL DEF FillerSpec
<1> QED BY <1>1, <1>2, <1>3, <1>4, <1>5, <1>6, <1>7, <1>8, FillerInvariant, PTL DEF FillerSpec
=============================================================================
