--------------------------- MODULE ToolChainProofs ---------------------------
(***************************************************************************)
(* Proofs about ToolChain, for every set of blocks.                        *)
(***************************************************************************)
EXTENDS ToolChain, SequenceTheorems, WellFoundedInduction, TLAPS

\* The least of a set of naturals exists: what the two searches through the
\* chains, both in the order of their numbers, return.
LEMMA LeastNatural ==
    ASSUME NEW S, S \subseteq Nat, S # {}
    PROVE  \E m \in S : \A n \in S : m <= n
<1>1. PICK m \in S : \A n \in S : ~ (<<n, m>> \in OpToRel(<, Nat))
  BY NatLessThanWellFounded, WFMin
<1>2. \A n \in S : <<n, m>> \in OpToRel(<, Nat) <=> n < m
  BY DEF OpToRel
<1>3. \A n \in S : n \in Nat /\ m \in Nat /\ ~ (n < m)
  BY <1>1, <1>2
<1>4. \A n \in S : m <= n
  BY <1>3
<1>5. QED BY <1>4

-----------------------------------------------------------------------------
(* One chain. *)

\* UnclesSound of the uncles of one block of a chain.
CitesSoundly(chain, i) ==
    LET h == chain[i].hash IN
    \A k \in DOMAIN UnclesOf[h] :
        LET u == UnclesOf[h][k] IN
        /\ u \notin Hashes(chain)
        /\ \E j \in 1 .. i - 1 : chain[j].hash = ParentOf[u]
        /\ NumberOf[h] - NumberOf[u] \in 1 .. 6
        /\ \A j \in 1 .. i - 1 : u \notin UnclesIn(chain[j].hash)
        /\ \A l \in DOMAIN UnclesOf[h] \ {k} : UnclesOf[h][l] # u

SoundUncles(chain) == \A i \in 1 .. Len(chain) : CitesSoundly(chain, i)

\* A chain from the genesis, linked, numbered by position, with the right
\* totals and sound uncles.
GoodChain(chain) ==
    /\ chain \in Seq(BlockRecords)
    /\ Len(chain) >= 1
    /\ chain[1].hash = Genesis
    /\ \A i \in 1 .. Len(chain) : /\ NumberOf[chain[i].hash] = i - 1
                                  /\ chain[i].td = TotalOf[chain[i].hash]
    /\ \A i \in 2 .. Len(chain) : ParentOf[chain[i].hash] = chain[i - 1].hash
    /\ SoundUncles(chain)

LEMMA GoodChainElements ==
    ASSUME NEW chain, GoodChain(chain)
    PROVE  /\ Len(chain) \in Nat \ {0}
           /\ DOMAIN chain = 1 .. Len(chain)
           /\ \A i \in 1 .. Len(chain) : /\ chain[i] \in BlockRecords
                                         /\ chain[i].hash \in Hash
                                         /\ chain[i].td \in Nat
<1>1. chain \in Seq(BlockRecords) /\ Len(chain) >= 1
  BY DEF GoodChain
<1>2. Len(chain) \in Nat /\ DOMAIN chain = 1 .. Len(chain)
  BY <1>1, LenProperties
<1>3. \A i \in 1 .. Len(chain) : chain[i] \in BlockRecords
  BY <1>1, ElementOfSeq
<1>4. QED BY <1>1, <1>2, <1>3 DEF BlockRecords

LEMMA NewChainGood == GoodChain(NewChain)
<1>1. DifficultyOf[Genesis] \in Nat /\ Genesis \in Hash /\ NumberOf[Genesis] = 0
      /\ TotalOf[Genesis] = DifficultyOf[Genesis]
  BY BlocksAssumption, HistoryAssumption
<1>2. Block(Genesis, DifficultyOf[Genesis]) \in BlockRecords
  BY <1>1 DEF Block, BlockRecords
<1>3. NewChain \in Seq(BlockRecords) /\ Len(NewChain) = 1
      /\ NewChain[1] = Block(Genesis, DifficultyOf[Genesis])
  BY <1>2 DEF NewChain
<1>4. SoundUncles(NewChain)
  <2>1. DOMAIN UnclesOf[Genesis] = {}
    BY BlocksAssumption
  <2>2. \A i \in 1 .. Len(NewChain) : NewChain[i].hash = Genesis
    BY <1>3 DEF Block
  <2>3. QED BY <2>1, <2>2 DEF SoundUncles, CitesSoundly
<1>5. QED BY <1>1, <1>3, <1>4 DEF GoodChain, Block

\* A prefix of a good chain is good.
LEMMA PrefixGood ==
    ASSUME NEW chain, GoodChain(chain), NEW n \in 1 .. Len(chain)
    PROVE  /\ GoodChain(SubSeq(chain, 1, n))
           /\ Len(SubSeq(chain, 1, n)) = n
           /\ \A i \in 1 .. n : SubSeq(chain, 1, n)[i] = chain[i]
<1>1. Len(chain) \in Nat \ {0} /\ \A i \in 1 .. n : chain[i] \in BlockRecords
  BY GoodChainElements
<1>2. /\ SubSeq(chain, 1, n) \in Seq(BlockRecords)
      /\ Len(SubSeq(chain, 1, n)) = n
      /\ \A i \in 1 .. n : SubSeq(chain, 1, n)[i] = chain[i]
  BY <1>1, SubSeqProperties
<1>3. SoundUncles(SubSeq(chain, 1, n))
  <2> DEFINE short == SubSeq(chain, 1, n)
  <2>1. /\ DOMAIN short = 1 .. n /\ DOMAIN chain = 1 .. Len(chain) /\ Len(short) = n
        /\ \A i \in 1 .. n : short[i] = chain[i]
    BY <1>1, <1>2, LenProperties, GoodChainElements
  <2>2. Hashes(short) \subseteq Hashes(chain)
    BY <1>1, <2>1 DEF Hashes
  <2> HIDE DEF short
  <2>3. ASSUME NEW i \in 1 .. n
        PROVE  CitesSoundly(short, i)
    <3>1. CitesSoundly(chain, i)
      BY <1>1 DEF GoodChain, SoundUncles
    <3>2. \A j \in 1 .. i - 1 : short[j] = chain[j]
      BY <1>1, <2>1
    <3>3. short[i] = chain[i]
      BY <2>1
    <3>4. QED BY <2>2, <3>1, <3>2, <3>3 DEF CitesSoundly
  <2>4. QED BY <2>1, <2>3 DEF SoundUncles, short
<1>4. QED BY <1>1, <1>2, <1>3 DEF GoodChain

\* A clone is the prefix it copies: the genesis made anew is the old one.
LEMMA CloneIsPrefix ==
    ASSUME NEW chain, GoodChain(chain), NEW n \in 1 .. Len(chain)
    PROVE  ClonedUpTo(chain, n) = SubSeq(chain, 1, n)
<1> DEFINE rest == SubSeq(chain, 2, n)
<1>1. /\ Len(chain) \in Nat \ {0}
      /\ \A i \in 1 .. Len(chain) : chain[i] \in BlockRecords
  BY GoodChainElements
<1>2. /\ rest \in Seq(BlockRecords)
      /\ Len(rest) = n - 1
      /\ \A i \in 1 .. n - 1 : rest[i] = chain[i + 1]
  BY <1>1, SubSeqProperties
<1>3. chain[1] = Block(Genesis, DifficultyOf[Genesis])
  <2>1. chain[1] \in BlockRecords /\ chain[1].hash = Genesis /\ chain[1].td = TotalOf[Genesis]
    BY <1>1 DEF GoodChain
  <2>2. QED BY <2>1, HistoryAssumption DEF Block, BlockRecords
<1>4. NewChain \in Seq(BlockRecords) /\ Len(NewChain) = 1 /\ NewChain[1] = chain[1]
  BY <1>1, <1>3, NewChainGood DEF NewChain, GoodChain
<1>5. /\ NewChain \o rest \in Seq(BlockRecords)
      /\ Len(NewChain \o rest) = n
      /\ \A i \in 1 .. n : (NewChain \o rest)[i] = IF i <= 1 THEN NewChain[i] ELSE rest[i - 1]
  <2>1. 1 + (n - 1) = n
    BY <1>1
  <2>2. /\ NewChain \o rest \in Seq(BlockRecords)
        /\ Len(NewChain \o rest) = Len(NewChain) + Len(rest)
        /\ \A i \in 1 .. Len(NewChain) + Len(rest) :
              (NewChain \o rest)[i] = IF i <= Len(NewChain) THEN NewChain[i] ELSE rest[i - Len(NewChain)]
    <3>1. NewChain \in Seq(BlockRecords) /\ rest \in Seq(BlockRecords)
      BY <1>2, <1>4
    <3>2. QED BY <3>1, ConcatProperties, Zenon
  <2>3. Len(NewChain) + Len(rest) = n
    BY <1>2, <1>4, <2>1
  <2>4. \A i \in 1 .. n :
           (NewChain \o rest)[i] = IF i <= 1 THEN NewChain[i] ELSE rest[i - 1]
    BY <1>4, <2>2, <2>3
  <2>5. QED BY <2>2, <2>3, <2>4
<1>6. \A i \in 1 .. n : (NewChain \o rest)[i] = SubSeq(chain, 1, n)[i]
  BY <1>1, <1>2, <1>4, <1>5, PrefixGood
<1>7. SubSeq(chain, 1, n) \in Seq(BlockRecords) /\ Len(SubSeq(chain, 1, n)) = n
  BY PrefixGood DEF GoodChain
<1>8. NewChain \o rest = SubSeq(chain, 1, n)
  BY <1>5, <1>6, <1>7, SeqEqual
<1>9. QED BY <1>8 DEF ClonedUpTo

\* A block whose header and uncles were verified, and which is no uncle of the
\* chain itself, keeps the uncles sound.
LEMMA ExtendSound ==
    ASSUME NEW chain, GoodChain(chain), NEW h \in Hash, NEW long,
           VerifyHeader(h, chain), VerifyUncles(UnclesOf[h], h, chain),
           DOMAIN long = 1 .. Len(chain) + 1, Len(long) = Len(chain) + 1,
           \A j \in 1 .. Len(chain) : long[j] = chain[j],
           long[Len(chain) + 1].hash = h
    PROVE  SoundUncles(long)
<1> DEFINE n == Len(chain)
<1>1. n \in Nat \ {0} /\ DOMAIN chain = 1 .. n
  BY GoodChainElements
<1>2. Hashes(long) = Hashes(chain) \cup {h}
  BY <1>1 DEF Hashes
<1>3. \A i \in 1 .. n : h \notin UnclesIn(chain[i].hash)
  BY <1>1 DEF VerifyHeader, VerifyBlockParent
<1>4. ASSUME NEW i \in 1 .. n
      PROVE  CitesSoundly(long, i)
  <2>1. CitesSoundly(chain, i)
    BY <1>1 DEF GoodChain, SoundUncles
  <2>2. long[i] = chain[i] /\ \A j \in 1 .. i - 1 : long[j] = chain[j]
    BY <1>1
  <2>3. \A k \in DOMAIN UnclesOf[chain[i].hash] : UnclesOf[chain[i].hash][k] # h
    BY <1>3 DEF UnclesIn
  <2>4. QED BY <1>2, <2>1, <2>2, <2>3 DEF CitesSoundly
<1>5. CitesSoundly(long, n + 1)
  <2>1. long[n + 1].hash = h /\ \A j \in 1 .. n : long[j] = chain[j]
    OBVIOUS
  <2>2. UnclesOf[h] \in Seq(Hash) /\ NumberOf[h] \in Nat
    BY BlocksAssumption
  <2>3. ASSUME NEW k \in DOMAIN UnclesOf[h]
        PROVE  LET u == UnclesOf[h][k] IN
               /\ u \notin Hashes(long)
               /\ \E j \in 1 .. n : long[j].hash = ParentOf[u]
               /\ NumberOf[h] - NumberOf[u] \in 1 .. 6
               /\ \A j \in 1 .. n : u \notin UnclesIn(long[j].hash)
               /\ \A l \in DOMAIN UnclesOf[h] \ {k} : UnclesOf[h][l] # u
    <3> DEFINE u == UnclesOf[h][k]
    <3>1. /\ VerifyHeader(u, chain) /\ NumberOf[u] < NumberOf[h]
          /\ NumberOf[u] + 7 > NumberOf[h]
          /\ \A j \in 1 .. k - 1 : UnclesOf[h][j] # u
      BY DEF VerifyUncles, UncleGenerations
    <3>2. u \in Hash /\ NumberOf[u] \in Nat
      BY <2>2, BlocksAssumption
    <3>3. u \notin Hashes(long)
      <4>1. u \notin Hashes(chain)
        BY <3>1 DEF VerifyHeader, VerifyBlockParent, Hashes
      <4>2. u # h
        BY <2>2, <3>1, <3>2
      <4>3. QED BY <1>2, <4>1, <4>2
    <3>4. \E j \in 1 .. n : long[j].hash = ParentOf[u]
      BY <1>1, <2>1, <3>1 DEF VerifyHeader, VerifyBlockParent
    <3>5. NumberOf[h] - NumberOf[u] \in 1 .. 6
      BY <2>2, <3>1, <3>2
    <3>6. \A j \in 1 .. n : u \notin UnclesIn(long[j].hash)
      BY <1>1, <2>1, <3>1 DEF VerifyHeader, VerifyBlockParent
    <3>7. ASSUME NEW l \in DOMAIN UnclesOf[h], l # k
          PROVE  UnclesOf[h][l] # u
      <4>1. k \in Nat \ {0} /\ l \in Nat \ {0}
        BY <2>2
      <4>2. \A i \in DOMAIN UnclesOf[h] : \A j \in 1 .. i - 1 : UnclesOf[h][j] # UnclesOf[h][i]
        BY DEF VerifyUncles
      <4>3. CASE l < k
        BY <3>1, <4>1, <4>3
      <4>4. CASE k < l
        BY <3>7, <4>1, <4>2, <4>4
      <4>5. QED BY <3>7, <4>1, <4>3, <4>4
    <3>8. QED BY <3>3, <3>4, <3>5, <3>6, <3>7
  <2>4. (n + 1) - 1 = n
    BY <1>1
  <2>5. QED BY <2>1, <2>3, <2>4 DEF CitesSoundly
<1>6. \A i \in 1 .. Len(long) : i \in 1 .. n \/ i = n + 1
  BY <1>1
<1>7. QED BY <1>4, <1>5, <1>6 DEF SoundUncles

\* A header that fits a good chain and whose number is the height of the chain
\* is a child of the tip, and the chain with its block is good.
LEMMA ExtendGood ==
    ASSUME NEW chain, GoodChain(chain), NEW h \in Hash,
           VerifyHeader(h, chain), NumberOf[h] = Len(chain),
           VerifyUncles(UnclesOf[h], h, chain)
    PROVE  /\ GoodChain(Append(chain, WithTotalDifficulty(h, chain)))
           /\ ParentOf[h] = Tip(chain).hash
           /\ h # Genesis
           /\ WithTotalDifficulty(h, chain) = Block(h, TotalOf[h])
<1> DEFINE b == WithTotalDifficulty(h, chain)
           long == Append(chain, b)
           n == Len(chain)
<1>1. /\ n \in Nat \ {0}
      /\ DOMAIN chain = 1 .. n
      /\ \A i \in 1 .. n : chain[i] \in BlockRecords /\ chain[i].hash \in Hash /\ chain[i].td \in Nat
  BY GoodChainElements
<1>2. /\ \A i \in 1 .. n : chain[i].hash # h
      /\ \E i \in 1 .. n : chain[i].hash = ParentOf[h] /\ NumberOf[h] = NumberOf[chain[i].hash] + 1
  BY <1>1 DEF VerifyHeader, VerifyBlockParent
<1>3. PICK i \in 1 .. n : chain[i].hash = ParentOf[h] /\ NumberOf[h] = NumberOf[chain[i].hash] + 1
  BY <1>2
<1>4. NumberOf[chain[i].hash] = i - 1
  BY <1>1, <1>3 DEF GoodChain
<1>5. i = n
  BY <1>1, <1>3, <1>4
<1>6. ParentOf[h] = Tip(chain).hash /\ h # Genesis
  BY <1>1, <1>2, <1>3, <1>5 DEF Tip, GoodChain
<1>7. TotalOf[h] = TotalOf[ParentOf[h]] + DifficultyOf[h]
  BY <1>3, <1>6, HistoryAssumption
<1>8. Tip(chain).td = TotalOf[ParentOf[h]]
  BY <1>1, <1>6 DEF Tip, GoodChain
<1>9. b = Block(h, TotalOf[h]) /\ b \in BlockRecords
  BY <1>7, <1>8, BlocksAssumption, HistoryAssumption
     DEF WithTotalDifficulty, Block, BlockRecords
<1>10. /\ long \in Seq(BlockRecords)
       /\ Len(long) = n + 1
       /\ \A j \in 1 .. n : long[j] = chain[j]
       /\ long[n + 1] = b
  <2>1. chain \in Seq(BlockRecords)
    BY DEF GoodChain
  <2>2. QED BY <1>9, <2>1, AppendProperties
<1>11. GoodChain(long)
  <2>1. \A j \in 1 .. Len(long) : /\ NumberOf[long[j].hash] = j - 1
                                  /\ long[j].td = TotalOf[long[j].hash]
    <3>1. \A j \in 1 .. n : /\ NumberOf[long[j].hash] = j - 1
                            /\ long[j].td = TotalOf[long[j].hash]
      BY <1>1, <1>10 DEF GoodChain
    <3>2. NumberOf[long[n + 1].hash] = n /\ long[n + 1].td = TotalOf[long[n + 1].hash]
      BY <1>9, <1>10 DEF Block
    <3>3. \A j \in 1 .. Len(long) : j \in 1 .. n \/ (j = n + 1 /\ j - 1 = n)
      BY <1>1, <1>10
    <3> HIDE DEF long
    <3>4. QED BY <3>1, <3>2, <3>3
  <2>2. \A j \in 2 .. Len(long) : ParentOf[long[j].hash] = long[j - 1].hash
    <3>1. \A j \in 2 .. n : ParentOf[long[j].hash] = long[j - 1].hash
      BY <1>1, <1>10 DEF GoodChain
    <3>2. ParentOf[long[n + 1].hash] = long[(n + 1) - 1].hash
      <4>1. long[n + 1].hash = h
        BY <1>9, <1>10 DEF Block
      <4>2. (n + 1) - 1 = n /\ n \in 1 .. n
        BY <1>1
      <4>3. long[n] = Tip(chain)
        BY <1>10, <4>2 DEF Tip
      <4>4. QED BY <1>6, <4>1, <4>2, <4>3
    <3>3. \A j \in 2 .. n + 1 : j \in 2 .. n \/ j = n + 1
      BY <1>1
    <3>4. QED BY <1>10, <3>1, <3>2, <3>3
  <2>3. long[1].hash = Genesis
    BY <1>1, <1>10 DEF GoodChain
  <2>4. SoundUncles(long)
    <3>1. DOMAIN long = 1 .. n + 1 /\ long[n + 1].hash = h
      BY <1>9, <1>10, LenProperties DEF Block
    <3> HIDE DEF long
    <3>2. QED BY <1>10, <3>1, ExtendSound
  <2>5. QED BY <1>1, <1>10, <2>1, <2>2, <2>3, <2>4 DEF GoodChain
<1>12. QED BY <1>6, <1>9, <1>11
-----------------------------------------------------------------------------
(* All chains. *)

GoodChains(chs, n) ==
    /\ DOMAIN chs = 0 .. n
    /\ chs = [c \in 0 .. n |-> chs[c]]
    /\ \A c \in 0 .. n : GoodChain(chs[c])

\* The inductive invariant.  The pending block is part of it because mining
\* looks at it, and its total because a failed import leaves it behind.
ChainsInv ==
    /\ maxChains \in 0 .. MaxChains
    /\ currentChain \in 0 .. maxChains
    /\ GoodChains(chains, maxChains)
    /\ pending \in [parent : Hash, number : Nat, td : Nat]
    /\ reply \in Replies

LEMMA HeldAtPosition ==
    ASSUME NEW chain, GoodChain(chain), NEW h, h \in Hashes(chain)
    PROVE  \E i \in 1 .. Len(chain) : chain[i].hash = h
BY GoodChainElements DEF Hashes

\* The first chain that has a known block is one of the chains.
LEMMA FirstHolderHolds ==
    ASSUME ChainsInv, NEW h, Holders(h) # {}
    PROVE  FirstHolder(h) \in 0 .. maxChains /\ h \in Hashes(chains[FirstHolder(h)])
<1>1. Holders(h) \subseteq 0 .. maxChains /\ maxChains \in Nat
  BY MaxChainsAssumption DEF Holders, ChainsInv, GoodChains
<1>2. \E c \in Holders(h) : \A d \in Holders(h) : c <= d
  BY <1>1, LeastNatural
<1>3. FirstHolder(h) \in Holders(h)
  BY <1>2 DEF FirstHolder
<1>4. QED BY <1>1, <1>3 DEF Holders

\* Preparing for a known parent keeps every chain good, keeps the old chains,
\* and leaves the parent at the tip of the chain to be extended.
LEMMA OnParentGood ==
    ASSUME ChainsInv, NEW p, Holders(p) # {}
    PROVE  /\ OnParent(p).max \in Nat
           /\ maxChains <= OnParent(p).max
           /\ OnParent(p).current \in 0 .. OnParent(p).max
           /\ GoodChains(OnParent(p).chains, OnParent(p).max)
           /\ Tip(OnParent(p).chains[OnParent(p).current]).hash = p
<1> DEFINE c == FirstHolder(p)
           i == CHOOSE i \in DOMAIN chains[c] : chains[c][i].hash = p
           n == maxChains + 1
           more == [d \in DOMAIN chains \cup {n} |->
                      IF d = n THEN ClonedUpTo(chains[c], i) ELSE chains[d]]
<1>1. c \in 0 .. maxChains /\ p \in Hashes(chains[c]) /\ maxChains \in Nat
  BY FirstHolderHolds, MaxChainsAssumption DEF ChainsInv
<1>2. GoodChain(chains[c]) /\ DOMAIN chains = 0 .. maxChains
      /\ \A d \in 0 .. maxChains : GoodChain(chains[d])
  BY <1>1 DEF ChainsInv, GoodChains
<1>3. i \in 1 .. Len(chains[c]) /\ chains[c][i].hash = p /\ Len(chains[c]) \in Nat \ {0}
  <2>1. DOMAIN chains[c] = 1 .. Len(chains[c]) /\ Len(chains[c]) \in Nat \ {0}
    BY <1>2, GoodChainElements
  <2>2. \E k \in DOMAIN chains[c] : chains[c][k].hash = p
    BY <1>1 DEF Hashes
  <2>3. QED BY <2>1, <2>2
<1>4. CASE i = Len(chains[c])
  <2>1. OnParent(p) = [chains |-> chains, current |-> c, max |-> maxChains]
    BY <1>4 DEF OnParent
  <2>2. Tip(chains[c]).hash = p
    BY <1>3, <1>4 DEF Tip
  <2>3. GoodChains(chains, maxChains) /\ maxChains <= maxChains
    BY <1>1 DEF ChainsInv
  <2>4. QED BY <1>1, <2>1, <2>2, <2>3
<1>5. CASE i # Len(chains[c])
  <2>1. OnParent(p) = [chains |-> more, current |-> n, max |-> n]
    BY <1>5 DEF OnParent
  <2>2. n \in Nat /\ maxChains <= n /\ n \in 0 .. n /\ 0 .. n = (0 .. maxChains) \cup {n}
    BY <1>1
  <2>3. DOMAIN more = 0 .. n /\ more = [d \in 0 .. n |-> more[d]]
    BY <1>2, <2>2
  <2>4. more[n] = SubSeq(chains[c], 1, i)
    <3>1. more[n] = ClonedUpTo(chains[c], i)
      OBVIOUS
    <3>2. QED BY <1>2, <1>3, <3>1, CloneIsPrefix
  <2>5. GoodChain(more[n]) /\ Tip(more[n]).hash = p
    <3>1. /\ GoodChain(SubSeq(chains[c], 1, i))
          /\ Len(SubSeq(chains[c], 1, i)) = i
          /\ \A k \in 1 .. i : SubSeq(chains[c], 1, i)[k] = chains[c][k]
      BY <1>2, <1>3, PrefixGood
    <3>2. i \in 1 .. i
      BY <1>3
    <3>3. QED BY <1>3, <2>4, <3>1, <3>2 DEF Tip
  <2>6. \A d \in 0 .. n : GoodChain(more[d])
    <3>1. \A d \in 0 .. maxChains : d # n
      BY <1>1
    <3>2. \A d \in 0 .. maxChains : more[d] = chains[d]
      BY <1>2, <3>1
    <3>3. QED BY <1>2, <2>2, <2>5, <3>2
  <2>7. GoodChains(more, n)
    BY <2>3, <2>6 DEF GoodChains
  <2>8. QED BY <2>1, <2>2, <2>5, <2>7
<1>6. QED BY <1>4, <1>5

\* Replacing one chain by a good one keeps all chains good.
LEMMA ReplaceGood ==
    ASSUME NEW chs, NEW n \in Nat, GoodChains(chs, n), NEW c \in 0 .. n,
           NEW chain, GoodChain(chain)
    PROVE  GoodChains([chs EXCEPT ![c] = chain], n)
BY DEF GoodChains

\* The heaviest chain is one of the chains.
LEMMA HeaviestChainIsOne ==
    ASSUME NEW chs, NEW n \in Nat, GoodChains(chs, n), NEW c \in 0 .. n
    PROVE  HeaviestChain(chs, c) \in 0 .. n
<1> DEFINE tips == {d \in DOMAIN chs : /\ Tip(chs[d]).td > 0
                                       /\ \A e \in DOMAIN chs : Tip(chs[e]).td <= Tip(chs[d]).td}
<1>1. tips \subseteq 0 .. n /\ tips \subseteq Nat
  BY DEF GoodChains
<1>2. CASE tips = {}
  BY <1>2 DEF HeaviestChain
<1>3. CASE tips # {}
  <2>1. \E d \in tips : \A e \in tips : d <= e
    BY <1>1, <1>3, LeastNatural
  <2>2. (CHOOSE d \in tips : \A e \in tips : d <= e) \in tips
    BY <2>1
  <2>3. HeaviestChain(chs, c) = CHOOSE d \in tips : \A e \in tips : d <= e
    BY <1>3 DEF HeaviestChain
  <2>4. QED BY <1>1, <2>2, <2>3
<1>4. QED BY <1>2, <1>3

-----------------------------------------------------------------------------
(* The steps. *)

\* The pending block after reorganizePendingBlock is well typed.
LEMMA PendingOnTyped ==
    ASSUME NEW chain, GoodChain(chain)
    PROVE  PendingOn(chain) \in [parent : Hash, number : Nat, td : Nat]
<1>1. /\ Tip(chain).hash \in Hash
      /\ Tip(chain).td \in Nat
      /\ NumberOf[Tip(chain).hash] \in Nat
  BY GoodChainElements, BlocksAssumption DEF Tip
<1>2. QED BY <1>1 DEF PendingOn

LEMMA InitInv == Init => ChainsInv
<1> SUFFICES ASSUME Init PROVE ChainsInv
  OBVIOUS
<1>1. DOMAIN chains = 0 .. 0 /\ chains = [c \in 0 .. 0 |-> NewChain]
  BY DEF Init
<1>2. GoodChains(chains, maxChains)
  BY <1>1, NewChainGood DEF Init, GoodChains
<1>3. pending \in [parent : Hash, number : Nat, td : Nat]
  BY NewChainGood, PendingOnTyped DEF Init
<1>4. QED BY <1>2, <1>3, MaxChainsAssumption DEF Init, ChainsInv, Replies

LEMMA SetChainParamsInv == SetChainParams => ChainsInv'
<1> SUFFICES ASSUME SetChainParams PROVE ChainsInv'
  OBVIOUS
<1>1. DOMAIN chains' = 0 .. 0 /\ chains' = [c \in 0 .. 0 |-> NewChain]
  BY DEF SetChainParams
<1>2. GoodChains(chains', maxChains')
  BY <1>1, NewChainGood DEF SetChainParams, GoodChains
<1>3. pending' \in [parent : Hash, number : Nat, td : Nat]
  BY NewChainGood, PendingOnTyped DEF SetChainParams
<1>4. QED BY <1>2, <1>3, MaxChainsAssumption DEF SetChainParams, ChainsInv, Replies

LEMMA MineBlocksInv ==
    ASSUME ChainsInv, NEW h \in Hash, MineBlocks(h)
    PROVE  ChainsInv'
<1> DEFINE chain == chains[currentChain]
           long == Append(chain, WithTotalDifficulty(h, chain))
<1>1. /\ maxChains \in Nat
      /\ currentChain \in 0 .. maxChains
      /\ GoodChains(chains, maxChains)
      /\ GoodChain(chain)
  BY MaxChainsAssumption DEF ChainsInv, GoodChains
<1>2. GoodChain(long)
  <2>1. VerifyUncles(UnclesOf[h], h, chain)
    BY DEF MineBlocks, VerifyUncles, MaxUncles
  <2>2. QED BY <1>1, <2>1, ExtendGood DEF MineBlocks
<1>3. chains' = [chains EXCEPT ![currentChain] = long] /\ chains'[currentChain] = long
  BY <1>1 DEF MineBlocks, GoodChains
<1>4. GoodChains(chains', maxChains)
  BY <1>1, <1>2, <1>3, ReplaceGood
<1>5. pending' \in [parent : Hash, number : Nat, td : Nat]
  BY <1>2, <1>3, PendingOnTyped DEF MineBlocks
<1>6. QED BY <1>4, <1>5 DEF MineBlocks, ChainsInv, Replies

LEMMA RewindToBlockInv ==
    ASSUME ChainsInv, NEW n \in 0 .. Len(chains[currentChain]) - 1, RewindToBlock(n)
    PROVE  ChainsInv'
<1> DEFINE chain == chains[currentChain]
<1>1. /\ maxChains \in Nat
      /\ currentChain \in 0 .. maxChains
      /\ GoodChains(chains, maxChains)
      /\ GoodChain(chain)
      /\ Len(chain) \in Nat
  BY MaxChainsAssumption, GoodChainElements DEF ChainsInv, GoodChains
<1>2. GoodChain(Rewound(chain, n))
  <2>1. n + 1 \in 1 .. Len(chain)
    BY <1>1
  <2>2. QED BY <1>1, <2>1, PrefixGood DEF Rewound
<1>3. /\ chains' = [chains EXCEPT ![currentChain] = Rewound(chain, n)]
      /\ chains'[currentChain] = Rewound(chain, n)
  BY <1>1 DEF RewindToBlock, GoodChains
<1>4. GoodChains(chains', maxChains)
  BY <1>1, <1>2, <1>3, ReplaceGood
<1>5. pending' \in [parent : Hash, number : Nat, td : Nat]
  BY <1>2, <1>3, PendingOnTyped DEF RewindToBlock
<1>6. QED BY <1>4, <1>5 DEF RewindToBlock, ChainsInv, Replies

LEMMA ImportAcceptedInv ==
    ASSUME ChainsInv, NEW h \in Hash, ImportAccepted(h)
    PROVE  ChainsInv'
<1> DEFINE on    == OnParent(ParentOf[h])
           chain == on.chains[on.current]
           long  == Append(chain, WithTotalDifficulty(h, chain))
           grown == [on.chains EXCEPT ![on.current] = long]
<1>1. /\ on.max \in Nat
      /\ on.current \in 0 .. on.max
      /\ GoodChains(on.chains, on.max)
      /\ GoodChain(chain)
  BY OnParentGood DEF ImportAccepted, GoodChains
<1>2. /\ VerifyHeader(h, chain) /\ NumberOf[h] = Len(chain)
      /\ VerifyUncles(UnclesOf[h], h, chain)
  BY DEF ImportAccepted, Importable
<1>3. GoodChain(long)
  BY <1>1, <1>2, ExtendGood
<1>4. GoodChains(grown, on.max)
  BY <1>1, <1>3, ReplaceGood
<1>5. /\ on.max <= MaxChains
      /\ chains' = grown
      /\ maxChains' = on.max
      /\ currentChain' = IF IsParisChain THEN on.current ELSE HeaviestChain(grown, on.current)
      /\ pending' = PendingOn(grown[currentChain'])
      /\ reply' = "imported"
  BY DEF ImportAccepted
<1>6. HeaviestChain(grown, on.current) \in 0 .. on.max
  BY <1>1, <1>4, HeaviestChainIsOne
<1>7. currentChain' \in 0 .. on.max
  BY <1>1, <1>5, <1>6
<1>8. pending' \in [parent : Hash, number : Nat, td : Nat]
  BY <1>4, <1>5, <1>7, PendingOnTyped DEF GoodChains
<1>9. on.max \in 0 .. MaxChains
  BY <1>1, <1>5, MaxChainsAssumption
<1>10. QED BY <1>4, <1>5, <1>7, <1>8, <1>9 DEF ChainsInv, Replies

\* What a failed import does to the chains does not depend on why it failed.
LEMMA FailedImportInv ==
    ASSUME ChainsInv, NEW h \in Hash, Holders(ParentOf[h]) # {},
           OnParent(ParentOf[h]).max <= MaxChains,
           chains' = OnParent(ParentOf[h]).chains,
           maxChains' = OnParent(ParentOf[h]).max,
           ImportFailed,
           pending' \in [parent : Hash, number : Nat, td : Nat]
    PROVE  ChainsInv'
<1> DEFINE on == OnParent(ParentOf[h])
<1>1. on.max \in Nat /\ maxChains <= on.max /\ GoodChains(on.chains, on.max)
  BY OnParentGood
<1>2. on.max \in 0 .. MaxChains /\ currentChain \in 0 .. on.max
  BY <1>1, MaxChainsAssumption DEF ChainsInv
<1>3. QED BY <1>1, <1>2 DEF ChainsInv, ImportFailed, Replies

LEMMA ImportBadHeaderInv ==
    ASSUME ChainsInv, NEW h \in Hash, ImportBadHeader(h)
    PROVE  ChainsInv'
<1>1. pending' \in [parent : Hash, number : Nat, td : Nat]
  BY DEF ImportBadHeader, ChainsInv
<1>2. QED BY <1>1, FailedImportInv DEF ImportBadHeader

LEMMA ImportBadBodyInv ==
    ASSUME ChainsInv, NEW h \in Hash, ImportBadBody(h)
    PROVE  ChainsInv'
<1> DEFINE on    == OnParent(ParentOf[h])
           chain == on.chains[on.current]
<1>1. GoodChain(chain)
  BY OnParentGood DEF ImportBadBody, GoodChains
<1>2. Tip(chain).td \in Nat
  BY <1>1, GoodChainElements DEF Tip
<1>3. pending' \in [parent : Hash, number : Nat, td : Nat]
  BY <1>2, BlocksAssumption DEF ImportBadBody
<1>4. QED BY <1>3, FailedImportInv DEF ImportBadBody

LEMMA NextInv == ChainsInv /\ [Next]_vars => ChainsInv'
<1> SUFFICES ASSUME ChainsInv, [Next]_vars PROVE ChainsInv'
  OBVIOUS
<1>1. CASE SetChainParams
  BY <1>1, SetChainParamsInv
<1>2. CASE \E h \in Hash : MineBlocks(h)
  BY <1>2, MineBlocksInv
<1>3. CASE \E h \in Hash : ImportAccepted(h)
  BY <1>3, ImportAcceptedInv
<1>4. CASE \E h \in Hash : ImportBadHeader(h)
  BY <1>4, ImportBadHeaderInv
<1>5. CASE \E h \in Hash : ImportBadBody(h)
  BY <1>5, ImportBadBodyInv
<1>6. CASE \E n \in 0 .. Len(chains[currentChain]) - 1 : RewindToBlock(n)
  BY <1>6, RewindToBlockInv
<1>7. CASE ImportUnreadable
  BY <1>7 DEF ImportUnreadable, ImportFailed, ChainsInv, Replies
<1>8. CASE MineFails
  BY <1>8 DEF MineFails, ChainsInv, Replies
<1>9. CASE UNCHANGED vars
  BY <1>9 DEF vars, ChainsInv
<1>10. QED
  BY <1>1, <1>2, <1>3, <1>4, <1>5, <1>6, <1>7, <1>8, <1>9 DEF Next

-----------------------------------------------------------------------------
(* The theorems. *)

\* In every reachable state the chains are from the genesis, linked and
\* numbered, with the right totals, and the current chain is one of them.
THEOREM ChainsInvariant == Spec => []ChainsInv
BY InitInv, NextInv, PTL DEF Spec

\* The chains are numbered without a gap, none is empty and the current one
\* exists.
THEOREM TypeCorrect == Spec => []TypeOK
<1>1. ChainsInv => TypeOK
  <2> SUFFICES ASSUME ChainsInv PROVE TypeOK
    OBVIOUS
  <2>1. \A c \in 0 .. maxChains : chains[c] \in Seq(BlockRecords) \ {<< >>}
    BY DEF ChainsInv, GoodChains, GoodChain
  <2>2. chains \in [0 .. maxChains -> Seq(BlockRecords) \ {<< >>}]
    BY <2>1 DEF ChainsInv, GoodChains
  <2>3. QED BY <2>2 DEF ChainsInv, TypeOK
<1>2. QED BY <1>1, ChainsInvariant, PTL

\* A block's position in a chain is its number, and its parent is the block
\* before it.
THEOREM ChainsAreLinked == Spec => []ChainsLinked
<1>1. ChainsInv => ChainsLinked
  <2> SUFFICES ASSUME ChainsInv, NEW c \in DOMAIN chains
               PROVE  /\ chains[c][1].hash = Genesis
                      /\ \A i \in DOMAIN chains[c] : NumberOf[chains[c][i].hash] = i - 1
                      /\ \A i \in 2 .. Len(chains[c]) :
                            ParentOf[chains[c][i].hash] = chains[c][i - 1].hash
    BY DEF ChainsLinked
  <2>1. GoodChain(chains[c])
    BY DEF ChainsInv, GoodChains
  <2>2. DOMAIN chains[c] = 1 .. Len(chains[c])
    BY <2>1, GoodChainElements
  <2>3. QED BY <2>1, <2>2 DEF GoodChain
<1>2. QED BY <1>1, ChainsInvariant, PTL

\* The total difficulty stored with a block is that of its history, whichever
\* chain the block is found in.
THEOREM TotalsAlwaysAgree == Spec => []TotalsAgree
<1>1. ChainsInv => TotalsAgree
  <2> SUFFICES ASSUME ChainsInv, NEW c \in DOMAIN chains, NEW i \in DOMAIN chains[c]
               PROVE  chains[c][i].td = TotalOf[chains[c][i].hash]
    BY DEF TotalsAgree
  <2>1. GoodChain(chains[c])
    BY DEF ChainsInv, GoodChains
  <2>2. DOMAIN chains[c] = 1 .. Len(chains[c])
    BY <2>1, GoodChainElements
  <2>3. QED BY <2>1, <2>2 DEF GoodChain
<1>2. QED BY <1>1, ChainsInvariant, PTL

\* Along every chain an uncle is cited once, by a block one to six generations
\* younger, hangs off the chain and is no block of it, also after clones,
\* reorganisations and rewinds.
THEOREM UnclesAlwaysSound == Spec => []UnclesSound
<1>1. ChainsInv => UnclesSound
  <2> SUFFICES ASSUME ChainsInv, NEW c \in DOMAIN chains, NEW i \in DOMAIN chains[c]
               PROVE  CitesSoundly(chains[c], i)
    BY DEF UnclesSound, CitesSoundly
  <2>1. GoodChain(chains[c])
    BY DEF ChainsInv, GoodChains
  <2>2. DOMAIN chains[c] = 1 .. Len(chains[c])
    BY <2>1, GoodChainElements
  <2>3. QED BY <2>1, <2>2 DEF GoodChain, SoundUncles
<1>2. QED BY <1>1, ChainsInvariant, PTL
=============================================================================
