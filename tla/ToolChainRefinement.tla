-------------------------- MODULE ToolChainRefinement --------------------------
(***************************************************************************)
(* Proof that the numbered chains of ToolChain implement the block tree    *)
(* BlockTree describes, for every set of blocks, and of what the proof     *)
(* gives besides: a valid block is never refused, a failed import is not   *)
(* seen, and the pending block fits.                                       *)
(***************************************************************************)
EXTENDS ToolChainProofs

-----------------------------------------------------------------------------
(* A chain is the history of its tip. *)

\* The blocks of a chain up to one of them are that block's history.
LEMMA PrefixIsHistory ==
    ASSUME NEW chain, GoodChain(chain), NEW i \in 1 .. Len(chain)
    PROVE  Ancestors[chain[i].hash] = {chain[j].hash : j \in 1 .. i}
<1> DEFINE Upto(k) == {chain[j].hash : j \in 1 .. k}
           Wrong == {k \in 1 .. Len(chain) : Ancestors[chain[k].hash] # Upto(k)}
<1>1. /\ Len(chain) \in Nat \ {0}
      /\ \A k \in 1 .. Len(chain) : chain[k].hash \in Hash
  BY GoodChainElements
<1>2. Wrong = {}
  <2> SUFFICES ASSUME Wrong # {} PROVE FALSE
    OBVIOUS
  <2>1. Wrong \subseteq Nat
    BY <1>1
  <2>2. PICK k \in Wrong : \A l \in Wrong : k <= l
    BY <2>1, LeastNatural
  <2>3. CASE k = 1
    <3>1. chain[1].hash = Genesis
      BY DEF GoodChain
    <3>2. Upto(1) = {Genesis}
      BY <3>1
    <3>3. QED BY <2>2, <2>3, <3>1, <3>2, HistoryAssumption
  <2>4. CASE k # 1
    <3>1. k \in 2 .. Len(chain) /\ k - 1 \in 1 .. Len(chain) /\ k \in 1 .. Len(chain)
      BY <1>1, <2>2, <2>4
    <3>2. k - 1 \notin Wrong
      <4>1. k \in Nat /\ ~ (k <= k - 1)
        BY <2>1
      <4>2. QED BY <2>2, <4>1
    <3>3. Ancestors[chain[k - 1].hash] = Upto(k - 1)
      BY <3>1, <3>2
    <3>4. /\ ParentOf[chain[k].hash] = chain[k - 1].hash
          /\ NumberOf[chain[k].hash] = k - 1
          /\ NumberOf[chain[k - 1].hash] = k - 2
          /\ NumberOf[Genesis] = 0
      BY <3>1, BlocksAssumption DEF GoodChain
    <3>5. chain[k].hash # Genesis /\ NumberOf[chain[k].hash] = NumberOf[ParentOf[chain[k].hash]] + 1
      BY <3>1, <3>4
    <3>6. Ancestors[chain[k].hash] = Upto(k - 1) \cup {chain[k].hash}
      BY <1>1, <3>1, <3>3, <3>4, <3>5, HistoryAssumption
    <3>7. 1 .. k = (1 .. k - 1) \cup {k}
      BY <3>1
    <3>8. Upto(k) = Upto(k - 1) \cup {chain[k].hash}
      BY <3>7
    <3>9. QED BY <2>2, <3>6, <3>8
  <2>5. QED BY <2>3, <2>4
<1>3. QED BY <1>2

LEMMA ChainIsHistory ==
    ASSUME NEW chain, GoodChain(chain)
    PROVE  Ancestors[Tip(chain).hash] = Hashes(chain)
<1>1. Len(chain) \in 1 .. Len(chain) /\ DOMAIN chain = 1 .. Len(chain)
  BY GoodChainElements
<1>2. Ancestors[chain[Len(chain)].hash] = {chain[j].hash : j \in 1 .. Len(chain)}
  BY <1>1, PrefixIsHistory
<1>3. QED BY <1>1, <1>2 DEF Tip, Hashes

\* Along a chain totals do not fall.
LEMMA TotalsGrow ==
    ASSUME NEW chain, GoodChain(chain), NEW i \in 1 .. Len(chain)
    PROVE  TotalOf[chain[i].hash] <= Tip(chain).td
<1> DEFINE n == Len(chain)
           T(k) == TotalOf[chain[k].hash]
           Wrong == {k \in 1 .. n : i <= k /\ ~ (T(i) <= T(k))}
<1>1. /\ n \in Nat \ {0}
      /\ \A k \in 1 .. n : chain[k].hash \in Hash /\ T(k) \in Nat
  BY GoodChainElements, HistoryAssumption
<1>2. Wrong = {}
  <2> SUFFICES ASSUME Wrong # {} PROVE FALSE
    OBVIOUS
  <2>1. Wrong \subseteq Nat
    BY <1>1
  <2>2. PICK k \in Wrong : \A l \in Wrong : k <= l
    BY <2>1, LeastNatural
  <2>3. k # i
    BY <1>1, <2>2
  <2>4. k \in 2 .. n /\ k - 1 \in 1 .. n /\ i <= k - 1
    BY <1>1, <2>2, <2>3
  <2>5. k - 1 \notin Wrong
    <3>1. k \in Nat /\ ~ (k <= k - 1)
      BY <2>1
    <3>2. QED BY <2>2, <3>1
  <2>6. T(i) <= T(k - 1)
    BY <2>4, <2>5
  <2>7. /\ ParentOf[chain[k].hash] = chain[k - 1].hash
        /\ NumberOf[chain[k].hash] = k - 1
        /\ NumberOf[chain[k - 1].hash] = k - 2
        /\ NumberOf[Genesis] = 0
    BY <2>4, BlocksAssumption DEF GoodChain
  <2>8. chain[k].hash # Genesis /\ NumberOf[chain[k].hash] = NumberOf[ParentOf[chain[k].hash]] + 1
    BY <2>4, <2>7
  <2>9. T(k) = T(k - 1) + DifficultyOf[chain[k].hash] /\ DifficultyOf[chain[k].hash] \in Nat
    BY <1>1, <2>4, <2>7, <2>8, HistoryAssumption, BlocksAssumption
  <2>10. T(i) \in Nat /\ T(k) \in Nat /\ T(k - 1) \in Nat
    BY <1>1, <2>4
  <2> HIDE DEF T
  <2>11. T(i) <= T(k)
    BY <2>6, <2>9, <2>10
  <2>12. QED BY <2>2, <2>11
<1>3. n \in 1 .. n /\ i <= n
  BY <1>1
<1>4. T(i) <= T(n)
  BY <1>2, <1>3
<1>5. Tip(chain).td = T(n)
  BY <1>1, <1>3 DEF Tip, GoodChain
<1>6. QED BY <1>4, <1>5

-----------------------------------------------------------------------------
(* Walking a chain and reading a history come to the same verdict. *)

LEMMA VerifyIsFit ==
    ASSUME NEW chain, GoodChain(chain), NEW h \in Hash
    PROVE  VerifyHeader(h, chain) <=> Tree!FitsBranch(h, Hashes(chain))
<1>1. h \in Hashes(chain) <=> \E i \in DOMAIN chain : chain[i].hash = h
  BY DEF Hashes
<1>2. h \in Tree!BranchUncles(Hashes(chain)) <=> \E i \in DOMAIN chain : h \in UnclesIn(chain[i].hash)
  BY DEF Hashes, Tree!BranchUncles, Tree!UnclesIn, UnclesIn
<1>3. (ParentOf[h] \in Hashes(chain) /\ NumberOf[h] = NumberOf[ParentOf[h]] + 1)
         <=> \E i \in DOMAIN chain : /\ chain[i].hash = ParentOf[h]
                                     /\ NumberOf[h] = NumberOf[chain[i].hash] + 1
  BY DEF Hashes
<1>4. QED BY <1>1, <1>2, <1>3 DEF VerifyHeader, VerifyBlockParent, Tree!FitsBranch

LEMMA ImportableIsValid ==
    ASSUME NEW chain, GoodChain(chain), NEW h \in Hash, Tip(chain).hash = ParentOf[h]
    PROVE  Importable(h, chain) <=> Tree!ValidBlock(h)
<1> DEFINE us == UnclesOf[h]
           Fits(u) == Tree!FitsBranch(u, Hashes(chain))
<1>1. Ancestors[ParentOf[h]] = Hashes(chain)
  BY ChainIsHistory
<1>2. /\ us \in Seq(Hash) /\ NumberOf[h] \in Nat
      /\ \A i \in DOMAIN us : us[i] \in Hash /\ NumberOf[us[i]] \in Nat
  BY BlocksAssumption
<1>3. Fits(h) => NumberOf[h] = Len(chain)
  <2>1. Len(chain) \in Nat \ {0} /\ Len(chain) \in 1 .. Len(chain)
    BY GoodChainElements
  <2>2. NumberOf[ParentOf[h]] = Len(chain) - 1
    BY <2>1 DEF Tip, GoodChain
  <2>3. QED BY <2>1, <2>2 DEF Tree!FitsBranch
<1>4. VerifyHeader(h, chain) <=> Fits(h)
  BY VerifyIsFit
<1>5. \A i \in DOMAIN us : VerifyHeader(us[i], chain) <=> Fits(us[i])
  BY <1>2, VerifyIsFit
<1>6. \A i \in DOMAIN us : NumberOf[us[i]] + 7 > NumberOf[h] <=> NumberOf[h] - NumberOf[us[i]] < 7
  BY <1>2
<1>7. VerifyUncles(us, h, chain) <=>
        /\ Len(us) <= MaxUncles
        /\ \A i \in DOMAIN us :
              /\ Fits(us[i])
              /\ NumberOf[us[i]] < NumberOf[h]
              /\ NumberOf[h] - NumberOf[us[i]] < 7
              /\ \A j \in 1 .. i - 1 : us[j] # us[i]
  BY <1>5, <1>6 DEF VerifyUncles, UncleGenerations
<1>8. Tree!ValidBlock(h) <=>
        /\ Fits(h)
        /\ Len(us) <= MaxUncles
        /\ \A i \in DOMAIN us :
              /\ Fits(us[i])
              /\ NumberOf[us[i]] < NumberOf[h]
              /\ NumberOf[h] - NumberOf[us[i]] < 7
              /\ \A j \in 1 .. i - 1 : us[j] # us[i]
  BY <1>1 DEF Tree!ValidBlock, Tree!MaxUncles, Tree!UncleGenerations, MaxUncles
<1>9. QED BY <1>3, <1>4, <1>7, <1>8 DEF Importable

-----------------------------------------------------------------------------
(* The blocks of all chains. *)

BlocksOf(chs) == UNION {Hashes(chs[c]) : c \in DOMAIN chs}

LEMMA KnownIs == Known = BlocksOf(chains) /\ Known' = BlocksOf(chains')
BY DEF Known, BlocksOf

\* What a set of chains knows is closed under history.
LEMMA BlocksClosed ==
    ASSUME NEW chs, NEW n \in Nat, GoodChains(chs, n), NEW h \in BlocksOf(chs)
    PROVE  Ancestors[h] \subseteq BlocksOf(chs)
<1>1. PICK c \in 0 .. n : h \in Hashes(chs[c])
  BY DEF BlocksOf, GoodChains
<1>2. GoodChain(chs[c])
  BY DEF GoodChains
<1>3. PICK i \in 1 .. Len(chs[c]) : chs[c][i].hash = h
  BY <1>1, <1>2, HeldAtPosition
<1>4. Ancestors[h] = {chs[c][j].hash : j \in 1 .. i}
  BY <1>2, <1>3, PrefixIsHistory
<1>5. Ancestors[h] \subseteq Hashes(chs[c])
  BY <1>2, <1>3, <1>4, GoodChainElements DEF Hashes
<1>6. QED BY <1>5 DEF BlocksOf, GoodChains

\* Each block of a good chain is known, and has its number and total there.
LEMMA TipIsKnown ==
    ASSUME NEW chs, NEW n \in Nat, GoodChains(chs, n), NEW c \in 0 .. n
    PROVE  /\ Tip(chs[c]).hash \in BlocksOf(chs)
           /\ Tip(chs[c]).hash \in Hash
           /\ Tip(chs[c]).td = TotalOf[Tip(chs[c]).hash]
           /\ Tip(chs[c]).td \in Nat
<1>1. GoodChain(chs[c])
  BY DEF GoodChains
<1>2. /\ Len(chs[c]) \in 1 .. Len(chs[c]) /\ DOMAIN chs[c] = 1 .. Len(chs[c])
      /\ Tip(chs[c]).hash \in Hash /\ Tip(chs[c]).td \in Nat
  BY <1>1, GoodChainElements DEF Tip
<1>3. Tip(chs[c]).hash \in Hashes(chs[c])
  BY <1>2 DEF Tip, Hashes
<1>4. Tip(chs[c]).td = TotalOf[Tip(chs[c]).hash]
  BY <1>1, <1>2 DEF Tip, GoodChain
<1>5. QED BY <1>2, <1>3, <1>4 DEF BlocksOf, GoodChains

\* One chain longer by a block: one block more is known.
LEMMA BlocksOfGrown ==
    ASSUME NEW chs, NEW n \in Nat, GoodChains(chs, n), NEW c \in 0 .. n,
           NEW b \in BlockRecords
    PROVE  /\ Hashes(Append(chs[c], b)) = Hashes(chs[c]) \cup {b.hash}
           /\ Tip(Append(chs[c], b)) = b
           /\ BlocksOf([chs EXCEPT ![c] = Append(chs[c], b)]) = BlocksOf(chs) \cup {b.hash}
<1> DEFINE long == Append(chs[c], b)
           m == Len(chs[c])
<1>1. /\ chs[c] \in Seq(BlockRecords) /\ DOMAIN chs = 0 .. n
      /\ m \in Nat /\ DOMAIN chs[c] = 1 .. m
  BY GoodChainElements DEF GoodChains, GoodChain
<1>2. /\ long \in Seq(BlockRecords) /\ Len(long) = m + 1
      /\ \A j \in 1 .. m : long[j] = chs[c][j]
      /\ long[m + 1] = b
  BY <1>1, AppendProperties
<1>3. DOMAIN long = 1 .. m + 1 /\ 1 .. m + 1 = (1 .. m) \cup {m + 1}
  BY <1>1, <1>2, LenProperties
<1> HIDE DEF long
<1>4. Hashes(long) = Hashes(chs[c]) \cup {b.hash}
  BY <1>1, <1>2, <1>3 DEF Hashes
<1>5. Tip(long) = b
  BY <1>2 DEF Tip
<1>6. BlocksOf([chs EXCEPT ![c] = long]) = BlocksOf(chs) \cup {b.hash}
  BY <1>1, <1>4 DEF BlocksOf
<1>7. QED BY <1>4, <1>5, <1>6 DEF long

\* Preparing for a parent changes no chain there was, and knows no new block.
LEMMA OnParentKeeps ==
    ASSUME ChainsInv, NEW p, Holders(p) # {}
    PROVE  /\ \A d \in 0 .. maxChains : OnParent(p).chains[d] = chains[d]
           /\ BlocksOf(OnParent(p).chains) = BlocksOf(chains)
<1> DEFINE c == FirstHolder(p)
           i == CHOOSE i \in DOMAIN chains[c] : chains[c][i].hash = p
           n == maxChains + 1
           more == [d \in DOMAIN chains \cup {n} |->
                      IF d = n THEN ClonedUpTo(chains[c], i) ELSE chains[d]]
<1>1. c \in 0 .. maxChains /\ p \in Hashes(chains[c]) /\ maxChains \in Nat
  BY FirstHolderHolds, MaxChainsAssumption DEF ChainsInv
<1>2. GoodChain(chains[c]) /\ DOMAIN chains = 0 .. maxChains
  BY <1>1 DEF ChainsInv, GoodChains
<1>3. DOMAIN chains[c] = 1 .. Len(chains[c]) /\ Len(chains[c]) \in Nat \ {0}
  BY <1>2, GoodChainElements
<1>4. i \in 1 .. Len(chains[c])
  <2>1. \E k \in DOMAIN chains[c] : chains[c][k].hash = p
    BY <1>1 DEF Hashes
  <2>2. QED BY <1>3, <2>1
<1>5. CASE i = Len(chains[c])
  BY <1>5 DEF OnParent
<1>6. CASE i # Len(chains[c])
  <2>1. OnParent(p).chains = more
    BY <1>6 DEF OnParent
  <2>2. \A d \in 0 .. maxChains : d # n
    BY <1>1
  <2>3. \A d \in 0 .. maxChains : more[d] = chains[d]
    BY <1>2, <2>2
  <2>4. more[n] = SubSeq(chains[c], 1, i)
    <3>1. more[n] = ClonedUpTo(chains[c], i)
      OBVIOUS
    <3>2. QED BY <1>2, <1>4, <3>1, CloneIsPrefix
  <2>5. Hashes(more[n]) \subseteq Hashes(chains[c])
    <3>1. /\ GoodChain(SubSeq(chains[c], 1, i))
          /\ Len(SubSeq(chains[c], 1, i)) = i
          /\ \A k \in 1 .. i : SubSeq(chains[c], 1, i)[k] = chains[c][k]
      BY <1>2, <1>4, PrefixGood
    <3>2. DOMAIN SubSeq(chains[c], 1, i) = 1 .. i
      BY <3>1, GoodChainElements
    <3>3. Hashes(SubSeq(chains[c], 1, i)) \subseteq Hashes(chains[c])
      BY <1>3, <1>4, <3>1, <3>2 DEF Hashes
    <3>4. QED BY <2>4, <3>3
  <2>6. DOMAIN more = (0 .. maxChains) \cup {n}
    BY <1>2
  <2> HIDE DEF more
  <2>7. BlocksOf(more) = BlocksOf(chains)
    BY <1>1, <1>2, <2>3, <2>5, <2>6 DEF BlocksOf
  <2>8. QED BY <2>1, <2>3, <2>7
<1>7. QED BY <1>5, <1>6

-----------------------------------------------------------------------------
(* The chain that leads. *)

\* Among finitely many chains one has the largest total.
LEMMA HeaviestExists ==
    ASSUME NEW chs, NEW n \in Nat, GoodChains(chs, n)
    PROVE  \E c \in 0 .. n : \A d \in 0 .. n : Tip(chs[d]).td <= Tip(chs[c]).td
<1> DEFINE td(c) == Tip(chs[c]).td
           Leads(k) == \E c \in 0 .. k : \A d \in 0 .. k : td(d) <= td(c)
           Without == {k \in 0 .. n : ~ Leads(k)}
<1>1. \A c \in 0 .. n : td(c) \in Nat
  BY TipIsKnown
<1> HIDE DEF td
<1>2. Without = {}
  <2> SUFFICES ASSUME Without # {} PROVE FALSE
    OBVIOUS
  <2>1. Without \subseteq Nat
    OBVIOUS
  <2>2. PICK k \in Without : \A l \in Without : k <= l
    BY <2>1, LeastNatural
  <2>3. k \in 0 .. n /\ ~ Leads(k)
    OBVIOUS
  <2>4. CASE k = 0
    <3>1. 0 .. 0 = {0} /\ td(0) \in Nat
      BY <1>1
    <3>2. \A d \in 0 .. 0 : td(d) <= td(0)
      BY <3>1
    <3>3. QED BY <2>3, <2>4, <3>1, <3>2
  <2>5. CASE k # 0
    <3>1. k - 1 \in 0 .. n /\ k \in Nat /\ ~ (k <= k - 1)
      BY <2>3, <2>5
    <3>2. Leads(k - 1)
      BY <2>2, <3>1
    <3>3. PICK c \in 0 .. k - 1 : \A d \in 0 .. k - 1 : td(d) <= td(c)
      BY <3>2
    <3>4. \A d \in 0 .. k : (d \in 0 .. k - 1 \/ d = k) /\ td(d) \in Nat
      BY <1>1, <2>3
    <3>5. c \in 0 .. k /\ k \in 0 .. k /\ td(c) \in Nat /\ td(k) \in Nat
      BY <1>1, <2>3, <3>1
    <3>6. CASE td(k) <= td(c)
      <4>1. \A d \in 0 .. k : td(d) <= td(c)
        BY <3>3, <3>4, <3>6
      <4>2. QED BY <2>3, <3>5, <4>1
    <3>7. CASE td(c) < td(k)
      <4>1. \A d \in 0 .. k : td(d) <= td(k)
        BY <3>3, <3>4, <3>5, <3>7
      <4>2. QED BY <2>3, <3>5, <4>1
    <3>8. QED BY <3>5, <3>6, <3>7
  <2>6. QED BY <2>4, <2>5
<1>3. n \in 0 .. n
  OBVIOUS
<1>4. Leads(n)
  BY <1>2, <1>3
<1>5. QED BY <1>4 DEF td

\* No known block is heavier than the tip of the heaviest chain.
LEMMA TipOutweighs ==
    ASSUME NEW chs, NEW n \in Nat, GoodChains(chs, n), NEW c \in 0 .. n,
           \A d \in 0 .. n : Tip(chs[d]).td <= Tip(chs[c]).td,
           NEW h \in BlocksOf(chs)
    PROVE  TotalOf[h] <= TotalOf[Tip(chs[c]).hash]
<1>1. PICK d \in 0 .. n : h \in Hashes(chs[d])
  BY DEF BlocksOf, GoodChains
<1>2. GoodChain(chs[d])
  BY DEF GoodChains
<1>3. PICK i \in 1 .. Len(chs[d]) : chs[d][i].hash = h
  BY <1>1, <1>2, HeldAtPosition
<1>4. TotalOf[h] <= Tip(chs[d]).td
  BY <1>2, <1>3, TotalsGrow
<1>5. chs[d][i].hash \in Hash
  BY <1>2, GoodChainElements
<1>6. TotalOf[h] \in Nat
  BY <1>3, <1>5, HistoryAssumption
<1>7. Tip(chs[d]).td <= Tip(chs[c]).td /\ Tip(chs[d]).td \in Nat /\ Tip(chs[c]).td \in Nat
      /\ Tip(chs[c]).td = TotalOf[Tip(chs[c]).hash]
  BY TipIsKnown
<1>8. QED BY <1>4, <1>6, <1>7

\* Under proof of work the search for the heaviest chain finds one.
LEMMA HeaviestChainLeads ==
    ASSUME NEW chs, NEW n \in Nat, GoodChains(chs, n), ~ IsParisChain, NEW current
    PROVE  LET c == HeaviestChain(chs, current) IN
           /\ c \in 0 .. n
           /\ \A d \in 0 .. n : Tip(chs[d]).td <= Tip(chs[c]).td
<1> DEFINE tips == {c \in DOMAIN chs : /\ Tip(chs[c]).td > 0
                                       /\ \A d \in DOMAIN chs : Tip(chs[d]).td <= Tip(chs[c]).td}
<1>1. DOMAIN chs = 0 .. n
  BY DEF GoodChains
<1>2. PICK c \in 0 .. n : \A d \in 0 .. n : Tip(chs[d]).td <= Tip(chs[c]).td
  BY HeaviestExists
<1>3. Tip(chs[c]).td > 0
  <2>1. GoodChain(chs[c])
    BY DEF GoodChains
  <2>2. 1 \in 1 .. Len(chs[c]) /\ chs[c][1].hash = Genesis
    BY <2>1, GoodChainElements DEF GoodChain
  <2>3. TotalOf[Genesis] <= Tip(chs[c]).td
    BY <2>1, <2>2, TotalsGrow
  <2>4. TotalOf[Genesis] \in Nat \ {0}
    BY BlocksAssumption, HistoryAssumption DEF IsParisChain
  <2>5. Tip(chs[c]).td \in Nat
    BY TipIsKnown
  <2>6. QED BY <2>3, <2>4, <2>5
<1>4. tips # {} /\ tips \subseteq Nat
  BY <1>1, <1>2, <1>3
<1>5. \E d \in tips : \A e \in tips : d <= e
  BY <1>4, LeastNatural
<1>6. (CHOOSE d \in tips : \A e \in tips : d <= e) \in tips
  BY <1>5
<1>7. HeaviestChain(chs, current) = CHOOSE d \in tips : \A e \in tips : d <= e
  BY <1>4 DEF HeaviestChain
<1>8. HeaviestChain(chs, current) \in tips
  BY <1>6, <1>7
<1>9. QED BY <1>1, <1>8

-----------------------------------------------------------------------------
(* The steps, as steps of the tree. *)

LEMMA InitTree == Init => Tree!TreeInit
<1> SUFFICES ASSUME Init PROVE Tree!TreeInit
  OBVIOUS
<1>1. NewChain = << Block(Genesis, DifficultyOf[Genesis]) >>
  BY DEF NewChain
<1>2. Hashes(NewChain) = {Genesis} /\ Tip(NewChain).hash = Genesis
  BY <1>1 DEF Hashes, Tip, Block
<1>3. chains = [c \in {0} |-> NewChain] /\ currentChain = 0
  BY DEF Init
<1>4. Known = {Genesis} /\ HeadBlock = Genesis
  BY <1>2, <1>3 DEF Known, HeadBlock
<1>5. QED BY <1>4 DEF Tree!TreeInit

LEMMA RestartTree == SetChainParams => Tree!Restart
<1> SUFFICES ASSUME SetChainParams PROVE Tree!Restart
  OBVIOUS
<1>1. NewChain = << Block(Genesis, DifficultyOf[Genesis]) >>
  BY DEF NewChain
<1>2. Hashes(NewChain) = {Genesis} /\ Tip(NewChain).hash = Genesis
  BY <1>1 DEF Hashes, Tip, Block
<1>3. chains' = [c \in {0} |-> NewChain] /\ currentChain' = 0
  BY DEF SetChainParams
<1>4. Known' = {Genesis} /\ HeadBlock' = Genesis
  BY <1>2, <1>3 DEF Known, HeadBlock
<1>5. QED BY <1>4 DEF Tree!Restart

\* What the chains of the manager are worth in the other lemmas.
LEMMA InvFacts ==
    ASSUME ChainsInv
    PROVE  /\ maxChains \in Nat
           /\ currentChain \in 0 .. maxChains
           /\ GoodChains(chains, maxChains)
           /\ GoodChain(chains[currentChain])
BY MaxChainsAssumption DEF ChainsInv, GoodChains

LEMMA MineTree ==
    ASSUME ChainsInv, NEW h \in Hash, MineBlocks(h)
    PROVE  Tree!MineOnHead(h)
<1> DEFINE chain == chains[currentChain]
           b == WithTotalDifficulty(h, chain)
<1>1. VerifyUncles(UnclesOf[h], h, chain)
  BY DEF MineBlocks, VerifyUncles, MaxUncles
<1>2. Importable(h, chain)
  BY <1>1 DEF MineBlocks, Importable
<1>3. ParentOf[h] = Tip(chain).hash /\ b = Block(h, TotalOf[h])
  BY <1>2, InvFacts, ExtendGood DEF Importable
<1>4. Tree!ValidBlock(h)
  BY <1>2, <1>3, InvFacts, ImportableIsValid
<1>5. b \in BlockRecords /\ b.hash = h
  BY <1>3, HistoryAssumption DEF Block, BlockRecords
<1>6. /\ chains' = [chains EXCEPT ![currentChain] = Append(chain, b)]
      /\ currentChain' = currentChain
  BY DEF MineBlocks
<1>7. Known' = Known \cup {h}
  <2>1. BlocksOf([chains EXCEPT ![currentChain] = Append(chain, b)]) = BlocksOf(chains) \cup {h}
    BY <1>5, InvFacts, BlocksOfGrown
  <2>2. QED BY <1>6, <2>1, KnownIs
<1>8. HeadBlock' = h
  <2>1. chains'[currentChain] = Append(chain, b)
    BY <1>6, InvFacts DEF GoodChains
  <2>2. Tip(Append(chain, b)) = b
    BY <1>5, InvFacts, BlocksOfGrown
  <2>3. QED BY <1>5, <1>6, <2>1, <2>2 DEF HeadBlock
<1>9. QED BY <1>3, <1>4, <1>7, <1>8 DEF Tree!MineOnHead, HeadBlock

LEMMA RewindTree ==
    ASSUME ChainsInv, NEW n \in 0 .. Len(chains[currentChain]) - 1, RewindToBlock(n)
    PROVE  \E b \in Hash : Tree!RewindHead(b)
<1> DEFINE chain == chains[currentChain]
           short == Rewound(chain, n)
           b == chain[n + 1].hash
<1>1. /\ maxChains \in Nat /\ currentChain \in 0 .. maxChains
      /\ GoodChains(chains, maxChains) /\ GoodChain(chain)
      /\ DOMAIN chains = 0 .. maxChains
  BY InvFacts DEF GoodChains
<1>2. n \in Nat /\ n + 1 \in 1 .. Len(chain) /\ Len(chain) \in Nat \ {0}
  BY <1>1, GoodChainElements
<1>3. /\ GoodChain(short) /\ Len(short) = n + 1
      /\ \A i \in 1 .. n + 1 : short[i] = chain[i]
  BY <1>1, <1>2, PrefixGood DEF Rewound
<1>4. DOMAIN short = 1 .. n + 1 /\ DOMAIN chain = 1 .. Len(chain)
  BY <1>1, <1>3, GoodChainElements
<1>5. /\ chains' = [chains EXCEPT ![currentChain] = short]
      /\ currentChain' = currentChain
  BY DEF RewindToBlock
<1> HIDE DEF short
<1>6. Tip(short).hash = b
  <2>1. n + 1 \in 1 .. n + 1
    BY <1>2
  <2>2. QED BY <1>3, <2>1 DEF Tip
<1>7. HeadBlock' = b
  <2>1. chains'[currentChain] = short
    BY <1>1, <1>5
  <2>2. QED BY <1>5, <1>6, <2>1 DEF HeadBlock
<1>8. Ancestors[b] = Hashes(short) /\ Ancestors[HeadBlock] = Hashes(chain)
  BY <1>1, <1>3, <1>6, ChainIsHistory DEF HeadBlock
<1>9. Hashes(short) \subseteq Hashes(chain)
  BY <1>2, <1>3, <1>4 DEF Hashes
<1>10. b \in Hashes(chain) /\ b \in Hash
  <2>1. n + 1 \in DOMAIN chain
    BY <1>2, <1>4
  <2>2. b \in Hashes(chain)
    BY <2>1 DEF Hashes
  <2>3. QED BY <1>1, <1>2, <2>2, GoodChainElements
<1>11. GoodChains(chains', maxChains)
  BY <1>1, <1>3, <1>5, ReplaceGood
<1>12. /\ DOMAIN chains' = 0 .. maxChains
       /\ chains'[currentChain] = short
       /\ \A d \in 0 .. maxChains : d # currentChain => chains'[d] = chains[d]
  BY <1>1, <1>5
<1>13. Known' \subseteq Known
  BY <1>1, <1>9, <1>12, KnownIs DEF BlocksOf
<1>14. Known \ Known' \subseteq Hashes(chain) \ Hashes(short)
  BY <1>1, <1>12, KnownIs DEF BlocksOf
<1>15. \A h \in Known' : Ancestors[h] \subseteq Known'
  BY <1>1, <1>11, BlocksClosed, KnownIs
<1>16. Tree!RewindHead(b)
  BY <1>7, <1>8, <1>10, <1>13, <1>14, <1>15 DEF Tree!RewindHead
<1>17. QED BY <1>10, <1>16

LEMMA ImportTree ==
    ASSUME ChainsInv, NEW h \in Hash, ImportAccepted(h)
    PROVE  Tree!ImportBlock(h)
<1> DEFINE p     == ParentOf[h]
           on    == OnParent(p)
           chain == on.chains[on.current]
           b     == WithTotalDifficulty(h, chain)
           grown == [on.chains EXCEPT ![on.current] = Append(chain, b)]
<1>1. /\ Holders(p) # {}
      /\ Importable(h, chain)
      /\ chains' = grown
      /\ currentChain' = IF IsParisChain THEN on.current ELSE HeaviestChain(grown, on.current)
  BY DEF ImportAccepted
<1>2. /\ on.max \in Nat /\ on.current \in 0 .. on.max
      /\ GoodChains(on.chains, on.max)
      /\ Tip(chain).hash = p
      /\ GoodChain(chain)
      /\ BlocksOf(on.chains) = BlocksOf(chains)
  BY <1>1, OnParentGood, OnParentKeeps DEF GoodChains
<1>3. GoodChain(Append(chain, b)) /\ b = Block(h, TotalOf[h])
  BY <1>1, <1>2, ExtendGood DEF Importable
<1>4. b \in BlockRecords /\ b.hash = h
  BY <1>3, HistoryAssumption DEF Block, BlockRecords
<1>5. Tree!ValidBlock(h)
  BY <1>1, <1>2, ImportableIsValid
<1>6. ParentOf[h] \in Known
  <2>1. \E c \in DOMAIN chains : p \in Hashes(chains[c])
    BY <1>1 DEF Holders
  <2>2. QED BY <2>1 DEF Known
<1>7. Known' = Known \cup {h} /\ BlocksOf(grown) = Known \cup {h}
  <2>1. BlocksOf(grown) = BlocksOf(on.chains) \cup {h}
    BY <1>2, <1>4, BlocksOfGrown
  <2>2. QED BY <1>1, <1>2, <2>1, KnownIs
<1>8. GoodChains(grown, on.max)
  BY <1>2, <1>3, ReplaceGood
<1>9. grown[on.current] = Append(chain, b) /\ Tip(Append(chain, b)) = b
  <2>1. grown[on.current] = Append(chain, b)
    BY <1>2 DEF GoodChains
  <2>2. Tip(Append(chain, b)) = b
    <3>1. GoodChains(on.chains, on.max) /\ on.max \in Nat /\ on.current \in 0 .. on.max
      BY <1>2
    <3> HIDE DEF b, on
    <3>2. QED BY <1>4, <3>1, BlocksOfGrown
  <2>3. QED BY <2>1, <2>2
<1> HIDE DEF grown, b
<1>10. CASE IsParisChain
  <2>1. HeadBlock' = h
    BY <1>1, <1>4, <1>9, <1>10 DEF HeadBlock
  <2>2. Tree!IsParisChain
    BY <1>10 DEF IsParisChain, Tree!IsParisChain
  <2>3. QED BY <1>5, <1>6, <1>7, <2>1, <2>2 DEF Tree!ImportBlock
<1>11. CASE ~ IsParisChain
  <2> DEFINE c == HeaviestChain(grown, on.current)
  <2>1. c \in 0 .. on.max /\ \A d \in 0 .. on.max : Tip(grown[d]).td <= Tip(grown[c]).td
    BY <1>2, <1>8, <1>11, HeaviestChainLeads
  <2>2. HeadBlock' = Tip(grown[c]).hash
    BY <1>1, <1>11 DEF HeadBlock
  <2> HIDE DEF c
  <2>3. Tip(grown[c]).hash \in BlocksOf(grown)
    BY <1>2, <1>8, <2>1, TipIsKnown
  <2>4. \A g \in BlocksOf(grown) : TotalOf[g] <= TotalOf[Tip(grown[c]).hash]
    BY <1>2, <1>8, <2>1, TipOutweighs
  <2>5. HeadBlock' \in Tree!Heaviest(Known')
    BY <1>7, <2>2, <2>3, <2>4 DEF Tree!Heaviest
  <2>6. ~ Tree!IsParisChain
    BY <1>11 DEF IsParisChain, Tree!IsParisChain
  <2>7. QED BY <1>5, <1>6, <1>7, <2>5, <2>6 DEF Tree!ImportBlock
<1>12. QED BY <1>10, <1>11

\* A failed import is not seen from outside: it may have made a clone, of blocks
\* that are known, and the chain that is current is as it was.
LEMMA FailedImportStutters ==
    ASSUME ChainsInv, NEW p, Holders(p) # {},
           chains' = OnParent(p).chains, currentChain' = currentChain
    PROVE  Known' = Known /\ HeadBlock' = HeadBlock
<1>1. Known' = Known
  BY OnParentKeeps, KnownIs
<1>2. HeadBlock' = HeadBlock
  BY OnParentKeeps, InvFacts DEF HeadBlock
<1>3. QED BY <1>1, <1>2

LEMMA StepTree == ChainsInv /\ [Next]_vars => [Tree!TreeNext]_(Tree!treeVars)
<1> SUFFICES ASSUME ChainsInv, [Next]_vars
             PROVE  Tree!TreeNext \/ (Known' = Known /\ HeadBlock' = HeadBlock)
  BY DEF Tree!treeVars
<1>1. CASE SetChainParams
  BY <1>1, RestartTree DEF Tree!TreeNext
<1>2. CASE \E h \in Hash : MineBlocks(h)
  BY <1>2, MineTree DEF Tree!TreeNext
<1>3. CASE \E h \in Hash : ImportAccepted(h)
  BY <1>3, ImportTree DEF Tree!TreeNext
<1>4. CASE \E h \in Hash : ImportBadHeader(h)
  BY <1>4, FailedImportStutters DEF ImportBadHeader, ImportFailed
<1>5. CASE \E h \in Hash : ImportBadBody(h)
  BY <1>5, FailedImportStutters DEF ImportBadBody, ImportFailed
<1>6. CASE \E n \in 0 .. Len(chains[currentChain]) - 1 : RewindToBlock(n)
  BY <1>6, RewindTree DEF Tree!TreeNext
<1>7. CASE ImportUnreadable
  BY <1>7 DEF ImportUnreadable, ImportFailed, Known, HeadBlock
<1>8. CASE MineFails
  BY <1>8 DEF MineFails, Known, HeadBlock
<1>9. CASE UNCHANGED vars
  BY <1>9 DEF vars, Known, HeadBlock
<1>10. QED
  BY <1>1, <1>2, <1>3, <1>4, <1>5, <1>6, <1>7, <1>8, <1>9 DEF Next

-----------------------------------------------------------------------------
(* The pending block. *)

PendingInv == ChainsInv /\ PendingFits

\* The pending block made from a chain fits it.
LEMMA PendingOnFits ==
    ASSUME NEW chs, NEW n \in Nat, GoodChains(chs, n), NEW c \in 0 .. n
    PROVE  LET q == PendingOn(chs[c]) IN
           /\ q.parent \in BlocksOf(chs)
           /\ q.td = TotalOf[q.parent]
           /\ q.number = NumberOf[q.parent] + 1
BY TipIsKnown DEF PendingOn

\* The calls that succeed make the pending block anew on the current chain.
LEMMA FreshPendingFits ==
    ASSUME ChainsInv', pending' = PendingOn(chains'[currentChain'])
    PROVE  PendingFits'
<1>1. /\ maxChains' \in Nat /\ currentChain' \in 0 .. maxChains'
      /\ GoodChains(chains', maxChains')
  BY MaxChainsAssumption DEF ChainsInv
<1>2. /\ pending'.parent \in BlocksOf(chains')
      /\ pending'.td = TotalOf[pending'.parent]
      /\ pending'.number = NumberOf[pending'.parent] + 1
  BY <1>1, PendingOnFits
<1>3. QED BY <1>2, KnownIs DEF PendingFits

\* A rejected header that stays in the pending block is that of a child of a
\* known block.
LEMMA RejectedHeaderFits ==
    ASSUME ChainsInv, NEW h \in Hash, ImportBadBody(h)
    PROVE  PendingFits'
<1> DEFINE on    == OnParent(ParentOf[h])
           chain == on.chains[on.current]
<1>1. /\ GoodChains(on.chains, on.max) /\ on.max \in Nat /\ on.current \in 0 .. on.max
      /\ Tip(chain).hash = ParentOf[h]
  BY OnParentGood DEF ImportBadBody
<1>2. Tip(chain).td = TotalOf[ParentOf[h]] /\ ParentOf[h] \in BlocksOf(on.chains)
  BY <1>1, TipIsKnown
<1>3. NumberOf[h] = NumberOf[ParentOf[h]] + 1
  BY DEF ImportBadBody, VerifyHeader, VerifyBlockParent
<1>4. /\ pending' = [parent |-> ParentOf[h], number |-> NumberOf[h], td |-> Tip(chain).td]
      /\ chains' = on.chains /\ reply' = "import failed"
  BY DEF ImportBadBody, ImportFailed
<1>5. QED BY <1>2, <1>3, <1>4, KnownIs DEF PendingFits

\* A call that fails before it touches the pending block leaves it as it was.
LEMMA KeptPendingFits ==
    ASSUME PendingFits, pending' = pending, Known' = Known,
           reply' \in {"import failed", "mining failed"}
    PROVE  PendingFits'
BY DEF PendingFits

LEMMA PendingStep == PendingInv /\ [Next]_vars => PendingInv'
<1> SUFFICES ASSUME ChainsInv, PendingFits, [Next]_vars PROVE PendingFits'
  BY NextInv DEF PendingInv
<1>1. ChainsInv'
  BY NextInv
<1>2. CASE SetChainParams
  <2>1. pending' = PendingOn(chains'[currentChain'])
    BY <1>2 DEF SetChainParams
  <2>2. QED BY <1>1, <2>1, FreshPendingFits
<1>3. CASE \E h \in Hash : MineBlocks(h)
  <2>1. pending' = PendingOn(chains'[currentChain'])
    BY <1>3 DEF MineBlocks
  <2>2. QED BY <1>1, <2>1, FreshPendingFits
<1>4. CASE \E h \in Hash : ImportAccepted(h)
  <2>1. pending' = PendingOn(chains'[currentChain'])
    BY <1>4 DEF ImportAccepted
  <2>2. QED BY <1>1, <2>1, FreshPendingFits
<1>5. CASE \E h \in Hash : ImportBadHeader(h)
  BY <1>5, FailedImportStutters, KeptPendingFits DEF ImportBadHeader, ImportFailed
<1>6. CASE \E h \in Hash : ImportBadBody(h)
  BY <1>6, RejectedHeaderFits
<1>7. CASE \E n \in 0 .. Len(chains[currentChain]) - 1 : RewindToBlock(n)
  <2>1. pending' = PendingOn(chains'[currentChain'])
    BY <1>7 DEF RewindToBlock
  <2>2. QED BY <1>1, <2>1, FreshPendingFits
<1>8. CASE ImportUnreadable
  BY <1>8, KeptPendingFits DEF ImportUnreadable, ImportFailed, Known
<1>9. CASE MineFails
  BY <1>9, KeptPendingFits DEF MineFails, Known
<1>10. CASE UNCHANGED vars
  BY <1>10 DEF vars, PendingFits, Known
<1>11. QED
  BY <1>2, <1>3, <1>4, <1>5, <1>6, <1>7, <1>8, <1>9, <1>10 DEF Next

-----------------------------------------------------------------------------
(* The theorems. *)

\* The chains implement the block tree: an import adds one block and moves the
\* head to a heaviest known block, or to the block itself under proof of stake,
\* only a rewind forgets, and only blocks above its target that no kept block
\* has in its history.
THEOREM ChainsImplementTree == Spec => RefinesBlockTree
<1>1. Spec => Tree!TreeInit /\ [][Tree!TreeNext]_(Tree!treeVars)
  BY InitTree, StepTree, ChainsInvariant, PTL DEF Spec
<1>2. QED BY <1>1 DEF RefinesBlockTree, Tree!TreeSpec

\* After a call that succeeds the pending block continues the head; after one
\* that fails it is still the child of a known block, with its total.
THEOREM PendingAlwaysFits == Spec => []PendingFits
<1>1. Init => PendingFits
  <2> SUFFICES ASSUME Init PROVE PendingFits
    OBVIOUS
  <2>1. ChainsInv
    BY InitInv
  <2>2. pending = PendingOn(chains[currentChain])
    BY DEF Init
  <2>3. /\ pending.parent \in BlocksOf(chains)
        /\ pending.td = TotalOf[pending.parent]
        /\ pending.number = NumberOf[pending.parent] + 1
    BY <2>1, <2>2, InvFacts, PendingOnFits
  <2>4. QED BY <2>2, <2>3, KnownIs DEF PendingFits
<1>2. Init => PendingInv
  BY <1>1, InitInv DEF PendingInv
<1>3. PendingInv => PendingFits
  BY DEF PendingInv
<1>4. QED BY <1>2, <1>3, PendingStep, PTL DEF Spec

\* Whatever was imported, mined, refused or rewound before, a block with a known
\* parent is accepted exactly if it is valid on its own history.
THEOREM EveryValidBlockAccepted == Spec => []AcceptsEveryValidBlock
<1>1. ChainsInv => AcceptsEveryValidBlock
  <2> SUFFICES ASSUME ChainsInv, NEW h \in Hash, Holders(ParentOf[h]) # {}
               PROVE  LET on == OnParent(ParentOf[h])
                      IN Importable(h, on.chains[on.current]) <=> Tree!ValidBlock(h)
    BY DEF AcceptsEveryValidBlock
  <2> DEFINE on == OnParent(ParentOf[h])
  <2>1. GoodChain(on.chains[on.current]) /\ Tip(on.chains[on.current]).hash = ParentOf[h]
    BY OnParentGood DEF GoodChains
  <2>2. QED BY <2>1, ImportableIsValid
<1>2. QED BY <1>1, ChainsInvariant, PTL

\* An import that fails, wherever it fails, leaves the known blocks and the head
\* as they were.
THEOREM FailedImportUnseen == Spec => FailedImportKeepsTree
<1>1. ChainsInv /\ [Next]_vars => (reply' = "import failed" => Known' = Known /\ HeadBlock' = HeadBlock)
  <2> SUFFICES ASSUME ChainsInv, [Next]_vars, reply' = "import failed"
               PROVE  Known' = Known /\ HeadBlock' = HeadBlock
    OBVIOUS
  <2>1. CASE \E h \in Hash : ImportBadHeader(h)
    BY <2>1, FailedImportStutters DEF ImportBadHeader, ImportFailed
  <2>2. CASE \E h \in Hash : ImportBadBody(h)
    BY <2>2, FailedImportStutters DEF ImportBadBody, ImportFailed
  <2>3. CASE ImportUnreadable
    BY <2>3 DEF ImportUnreadable, ImportFailed, Known, HeadBlock
  <2>4. CASE UNCHANGED vars
    BY <2>4 DEF vars, Known, HeadBlock
  <2>5. ~ SetChainParams /\ ~ MineFails
    BY DEF SetChainParams, MineFails
  <2>6. \A h \in Hash : ~ MineBlocks(h) /\ ~ ImportAccepted(h)
    BY DEF MineBlocks, ImportAccepted
  <2>7. \A n \in 0 .. Len(chains[currentChain]) - 1 : ~ RewindToBlock(n)
    BY DEF RewindToBlock
  <2>8. QED BY <2>1, <2>2, <2>3, <2>4, <2>5, <2>6, <2>7 DEF Next
<1>2. QED BY <1>1, ChainsInvariant, PTL DEF Spec, FailedImportKeepsTree
=============================================================================
