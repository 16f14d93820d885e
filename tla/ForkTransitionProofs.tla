------------------------- MODULE ForkTransitionProofs -------------------------
(***************************************************************************)
(* Proofs about ForkTransition, for all times, terminal difficulties and   *)
(* lengths: blocks have the types of their network, and where the switch   *)
(* is not by time the pending block can be mined.                          *)
(***************************************************************************)
EXTENDS ForkTransition, SequenceTheorems, TLAPS

BlockRec == [type : Types, ts : Time, td : Nat]

\* Prescribed, of any chain of the network f.
PrescribedIn(f, c, i) ==
    CASE f = "BerlinToLondonAt5" -> IF i - 1 >= 5 THEN "1559" ELSE "Legacy"
      [] f = "ArrowGlacierToParisAtDiffC0000" ->
            IF i > 1 /\ c[i - 1].td >= TTD THEN "Paris" ELSE "1559"
      [] f = "ParisToShanghaiAtTime15k" ->
            IF c[i].ts >= Switch THEN "Shanghai" ELSE "Paris"
      [] f = "ShanghaiToCancunAtTime15k" ->
            IF c[i].ts >= Switch THEN "4844" ELSE "Shanghai"

\* A chain whose blocks have the types of their network.  Totals do not fall:
\* after the merge the difficulty stays reached.
Follows(f, c) ==
    /\ c \in Seq(BlockRec)
    /\ Len(c) >= 1
    /\ \A i \in 1 .. Len(c) : c[i].type = PrescribedIn(f, c, i)
    /\ \A i \in 2 .. Len(c) : c[i].td >= c[i - 1].td

\* On the networks that do not switch by time, a pending block of the client
\* has the type transitionPendingBlock gives it now.
PendingInv ==
    /\ pending \in [type : Types, ts : Time, header : {"own", "on", "below"}]
    /\ TimeForkType = {} /\ pending.header = "own" => pending.type = TransitionType(chain, 0)

Inv ==
    /\ fork \in Forks
    /\ Follows(fork, chain)
    /\ PendingInv
    /\ reply \in {"setChainParams", "timestamp", "mined", "mining failed",
                  "rewound", "imported", "import failed"}

-----------------------------------------------------------------------------
(* Chains. *)

LEMMA Elements ==
    ASSUME NEW f, NEW c, Follows(f, c)
    PROVE  /\ Len(c) \in Nat \ {0}
           /\ DOMAIN c = 1 .. Len(c)
           /\ \A i \in 1 .. Len(c) : /\ c[i] \in BlockRec
                                     /\ c[i].type \in Types
                                     /\ c[i].ts \in Time /\ c[i].ts \in Nat
                                     /\ c[i].td \in Nat
           /\ Last(c) \in BlockRec
           /\ Last(c) = c[Len(c)]
           /\ Len(c) \in 1 .. Len(c)
<1>1. c \in Seq(BlockRec) /\ Len(c) >= 1
  BY DEF Follows
<1>2. Len(c) \in Nat \ {0} /\ DOMAIN c = 1 .. Len(c) /\ Len(c) \in 1 .. Len(c)
  BY <1>1, LenProperties
<1>3. \A i \in 1 .. Len(c) : c[i] \in BlockRec
  BY <1>1, ElementOfSeq
<1>4. QED BY <1>2, <1>3, ForkAssumption DEF BlockRec, Last

LEMMA PrefixFollows ==
    ASSUME NEW f, NEW c, Follows(f, c), NEW n \in 1 .. Len(c)
    PROVE  /\ Follows(f, SubSeq(c, 1, n))
           /\ Len(SubSeq(c, 1, n)) = n
<1> DEFINE s == SubSeq(c, 1, n)
<1>1. Len(c) \in Nat \ {0} /\ \A i \in 1 .. n : c[i] \in BlockRec
  BY Elements
<1>2. s \in Seq(BlockRec) /\ Len(s) = n /\ \A i \in 1 .. n : s[i] = c[i]
  BY <1>1, SubSeqProperties
<1> HIDE DEF s
<1>3. \A i \in 1 .. n : s[i].type = PrescribedIn(f, s, i)
  <2> SUFFICES ASSUME NEW i \in 1 .. n PROVE s[i].type = PrescribedIn(f, s, i)
    OBVIOUS
  <2>1. c[i].type = PrescribedIn(f, c, i)
    BY <1>1 DEF Follows
  <2>2. s[i] = c[i] /\ (i > 1 => s[i - 1] = c[i - 1])
    BY <1>1, <1>2
  <2>3. QED BY <2>1, <2>2 DEF PrescribedIn
<1>4. \A i \in 2 .. n : s[i].td >= s[i - 1].td
  <2> SUFFICES ASSUME NEW i \in 2 .. n PROVE s[i].td >= s[i - 1].td
    OBVIOUS
  <2>1. c[i].td >= c[i - 1].td
    BY <1>1 DEF Follows
  <2>2. s[i] = c[i] /\ s[i - 1] = c[i - 1]
    BY <1>1, <1>2
  <2>3. QED BY <2>1, <2>2
<1>5. QED BY <1>1, <1>2, <1>3, <1>4 DEF Follows, s

\* A header that is verified on a chain, and that the tool builds, has the type
\* the network prescribes for the next block.
LEMMA VerifiedIsPrescribed ==
    ASSUME fork \in Forks, NEW c, Follows(fork, c), NEW type \in Types, NEW ts \in Time,
           VerifyHeader(type, ts, c), ToolBuilds(type, ts)
    PROVE  type = CASE fork = "BerlinToLondonAt5" -> IF Len(c) >= 5 THEN "1559" ELSE "Legacy"
                    [] fork = "ArrowGlacierToParisAtDiffC0000" ->
                          IF Last(c).td >= TTD THEN "Paris" ELSE "1559"
                    [] fork = "ParisToShanghaiAtTime15k" ->
                          IF ts >= Switch THEN "Shanghai" ELSE "Paris"
                    [] fork = "ShanghaiToCancunAtTime15k" ->
                          IF ts >= Switch THEN "4844" ELSE "Shanghai"
<1> DEFINE n == Len(c)
           l == Last(c)
<1>1. /\ n \in Nat \ {0} /\ n \in 1 .. n /\ l = c[n]
      /\ l.type \in Types /\ l.ts \in Nat /\ l.td \in Nat
      /\ ts \in Nat /\ TTD \in Nat /\ Switch \in Nat
  BY Elements, ForkAssumption
<1>2. l.type = PrescribedIn(fork, c, n) /\ ts > l.ts
  BY <1>1 DEF Follows, VerifyHeader
<1>3. n > 1 => c[n].td >= c[n - 1].td /\ c[n - 1].td \in Nat
  <2> SUFFICES ASSUME n > 1 PROVE c[n].td >= c[n - 1].td /\ c[n - 1].td \in Nat
    OBVIOUS
  <2>1. n \in 2 .. n /\ n - 1 \in 1 .. n
    BY <1>1
  <2>2. c[n - 1].td \in Nat
    BY <2>1, Elements
  <2>3. c[n].td >= c[n - 1].td
    BY <2>1 DEF Follows
  <2>4. QED BY <2>2, <2>3
<1>4. type \in {"Legacy", "1559", "Paris", "Shanghai", "4844", "Prague"}
  BY DEF Types
<1> HIDE DEF n, l
<1>5. CASE fork = "BerlinToLondonAt5"
  <2>1. l.type = IF n - 1 >= 5 THEN "1559" ELSE "Legacy"
    BY <1>2, <1>5 DEF PrescribedIn
  <2>2. /\ type = "Legacy" => ~ (n - 1 = 4) /\ l.type = "Legacy"
        /\ type = "1559" => IF n = 5 THEN l.type = "Legacy" ELSE l.type = "1559"
        /\ type \notin {"Paris", "Shanghai", "4844", "Prague"}
    BY <1>5, <2>1 DEF VerifyHeader, VerifyLegacy, Verify1559, VerifyParis, VerifyShanghai,
                       Verify4844, n, l
  <2>3. type = IF n >= 5 THEN "1559" ELSE "Legacy"
    BY <1>1, <1>4, <2>1, <2>2
  <2>4. QED BY <1>5, <2>3 DEF n
<1>6. CASE fork = "ArrowGlacierToParisAtDiffC0000"
  <2>1. l.type = IF n > 1 /\ c[n - 1].td >= TTD THEN "Paris" ELSE "1559"
    BY <1>2, <1>6 DEF PrescribedIn
  <2>2. l.type = "Paris" => l.td >= TTD
    BY <1>1, <1>3, <2>1
  <2>3. l.type \in {"Paris", "1559"}
    BY <2>1
  <2>4. /\ type \notin {"Legacy", "Shanghai", "4844", "Prague"}
        /\ type = "1559" => l.type = "1559" /\ l.td < TTD
        /\ type = "Paris" => (l.type # "Paris" => l.td >= TTD)
    BY <1>6, <2>3 DEF VerifyHeader, VerifyLegacy, Verify1559, VerifyParis, VerifyShanghai,
                       Verify4844, IsBlockPoS, n, l
  <2>5. type = IF l.td >= TTD THEN "Paris" ELSE "1559"
    BY <1>1, <1>4, <2>2, <2>4
  <2>6. QED BY <1>6, <2>5 DEF l
<1>7. CASE fork = "ParisToShanghaiAtTime15k"
  <2>1. l.type = IF l.ts >= Switch THEN "Shanghai" ELSE "Paris"
    BY <1>1, <1>2, <1>7 DEF PrescribedIn
  <2>2. ts >= Switch => type = "Shanghai"
    BY <1>7 DEF ToolBuilds, ToolRunsNextRules, TimeForkType
  <2>3. l.type = "Shanghai" => ts >= Switch
    BY <1>1, <1>2, <2>1
  <2>4. QED BY <1>1, <1>4, <1>7, <2>1, <2>2, <2>3
           DEF VerifyHeader, VerifyLegacy, Verify1559, VerifyParis, VerifyShanghai, Verify4844,
               IsBlockPoS, n, l
<1>8. CASE fork = "ShanghaiToCancunAtTime15k"
  <2>1. l.type = IF l.ts >= Switch THEN "4844" ELSE "Shanghai"
    BY <1>1, <1>2, <1>8 DEF PrescribedIn
  <2>2. ts >= Switch => type = "4844"
    BY <1>8 DEF ToolBuilds, ToolRunsNextRules, TimeForkType
  <2>3. l.type = "4844" => ts >= Switch
    BY <1>1, <1>2, <2>1
  <2>4. QED BY <1>1, <1>4, <1>8, <2>1, <2>2, <2>3
           DEF VerifyHeader, VerifyLegacy, Verify1559, VerifyParis, VerifyShanghai, Verify4844,
               IsBlockPoS, n, l
<1>9. QED BY <1>5, <1>6, <1>7, <1>8 DEF Forks

\* So a chain stays as prescribed when a verified block is put on it.
LEMMA ExtendFollows ==
    ASSUME fork \in Forks, NEW c, Follows(fork, c), NEW type \in Types, NEW ts \in Time,
           VerifyHeader(type, ts, c), ToolBuilds(type, ts)
    PROVE  Follows(fork, Appended(c, type, ts))
<1> DEFINE n == Len(c)
           b == [type |-> type, ts |-> ts, td |-> Last(c).td + DifficultyOf(type)]
           long == Append(c, b)
<1>1. /\ n \in Nat \ {0} /\ c \in Seq(BlockRec) /\ Last(c) = c[n]
      /\ Last(c).td \in Nat /\ n \in 1 .. n
  BY Elements DEF Follows
<1>2. DifficultyOf(type) \in Nat
  BY DEF DifficultyOf
<1>3. b \in BlockRec /\ b.td >= Last(c).td
  BY <1>1, <1>2 DEF BlockRec
<1>4. /\ long \in Seq(BlockRec) /\ Len(long) = n + 1
      /\ \A i \in 1 .. n : long[i] = c[i]
      /\ long[n + 1] = b
  BY <1>1, <1>3, AppendProperties
<1>5. b.type = type /\ b.ts = ts
  OBVIOUS
<1> HIDE DEF long, b
<1>6. long[n + 1].type = PrescribedIn(fork, long, n + 1)
  <2>1. (n + 1) - 1 = n /\ n + 1 > 1 /\ long[n] = Last(c) /\ long[n + 1].ts = ts
    BY <1>1, <1>4, <1>5
  <2>2. QED BY <1>4, <1>5, <2>1, VerifiedIsPrescribed DEF PrescribedIn, Forks
<1>7. ASSUME NEW i \in 1 .. n
      PROVE  long[i].type = PrescribedIn(fork, long, i)
  <2>1. c[i].type = PrescribedIn(fork, c, i)
    BY DEF Follows
  <2>2. long[i] = c[i] /\ (i > 1 => long[i - 1] = c[i - 1])
    BY <1>1, <1>4
  <2>3. QED BY <2>1, <2>2 DEF PrescribedIn
<1>8. \A i \in 1 .. n + 1 : i \in 1 .. n \/ i = n + 1
  BY <1>1
<1>9. \A i \in 2 .. n + 1 : long[i].td >= long[i - 1].td
  <2>1. \A i \in 2 .. n : long[i].td >= long[i - 1].td
    <3> SUFFICES ASSUME NEW i \in 2 .. n PROVE long[i].td >= long[i - 1].td
      OBVIOUS
    <3>1. c[i].td >= c[i - 1].td
      BY DEF Follows
    <3>2. long[i] = c[i] /\ long[i - 1] = c[i - 1]
      BY <1>1, <1>4
    <3>3. QED BY <3>1, <3>2
  <2>2. long[n + 1].td >= long[(n + 1) - 1].td
    <3>1. (n + 1) - 1 = n /\ long[n] = Last(c)
      BY <1>1, <1>4
    <3>2. QED BY <1>3, <1>4, <3>1
  <2>3. \A i \in 2 .. n + 1 : i \in 2 .. n \/ i = n + 1
    BY <1>1
  <2>4. QED BY <2>1, <2>2, <2>3
<1>10. Follows(fork, long)
  BY <1>1, <1>4, <1>6, <1>7, <1>8, <1>9 DEF Follows
<1>11. QED BY <1>10 DEF Appended, long, b

\* The genesis of the network, as the first block.
LEMMA GenesisFollows ==
    ASSUME fork \in Forks
    PROVE  Follows(fork, << Genesis >>)
<1>1. Genesis \in BlockRec
  BY ForkAssumption DEF Genesis, BlockRec, GenesisType, DifficultyOf, Types, Forks
<1>2. << Genesis >> \in Seq(BlockRec) /\ Len(<< Genesis >>) = 1 /\ << Genesis >>[1] = Genesis
  BY <1>1
<1>3. Genesis.type = GenesisType /\ Genesis.ts = 0
  BY DEF Genesis
<1>4. Genesis.type = PrescribedIn(fork, << Genesis >>, 1)
  BY <1>2, <1>3, ForkAssumption DEF PrescribedIn, GenesisType, Forks
<1>5. QED BY <1>2, <1>4 DEF Follows

-----------------------------------------------------------------------------
(* The pending block. *)

\* The time of the pending block before matters to networks that switch by time
\* only.
LEMMA TransitionOfChain ==
    ASSUME NEW c, NEW t
    PROVE  TimeForkType = {} => TransitionType(c, t) = TransitionType(c, 0)
<1>1. TimeForkType = {} => SwitchedBy(t) = {} /\ SwitchedBy(0) = {}
  BY DEF SwitchedBy
<1>2. QED BY <1>1 DEF TransitionType

LEMMA TimeForkTypes ==
    ASSUME NEW t, SwitchedBy(t) # {}
    PROVE  (CHOOSE type \in SwitchedBy(t) : TRUE) \in Types
<1>1. SwitchedBy(t) \subseteq Types
  BY DEF SwitchedBy, TimeForkType, Types
<1>2. QED BY <1>1

LEMMA TransitionTyped ==
    ASSUME NEW c, Follows(fork, c), NEW t
    PROVE  TransitionType(c, t) \in Types
<1>1. Last(c).type \in Types
  BY Elements
<1>2. QED BY <1>1, TimeForkTypes DEF TransitionType, Types

LEMMA PendingOnInv ==
    ASSUME NEW c, Follows(fork, c), NEW t
    PROVE  /\ PendingOn(c, t) \in [type : Types, ts : Time, header : {"own", "on", "below"}]
           /\ TimeForkType = {} => PendingOn(c, t).type = TransitionType(c, 0)
<1>1. Last(c).ts \in Time
  BY Elements
<1>2. QED BY <1>1, TransitionTyped, TransitionOfChain DEF PendingOn

\* A pending block made by the client can be mined once its time is later.
LEMMA OwnPendingMineable ==
    ASSUME fork \in Forks, Follows(fork, chain), PendingInv,
           TimeForkType = {}, pending.header = "own", pending.ts > Last(chain).ts
    PROVE  Mineable
<1> DEFINE n == Len(chain)
           l == Last(chain)
<1>1. /\ n \in Nat \ {0} /\ n \in 1 .. n /\ l = chain[n]
      /\ l.type \in Types /\ l.td \in Nat /\ TTD \in Nat
  BY Elements, ForkAssumption
<1>2. l.type = PrescribedIn(fork, chain, n)
  BY <1>1 DEF Follows
<1>3. pending.type = TransitionType(chain, 0)
  BY DEF PendingInv
<1>4. fork \in {"BerlinToLondonAt5", "ArrowGlacierToParisAtDiffC0000"}
  BY DEF Forks, TimeForkType
<1>5. ToolBuilds(pending.type, pending.ts)
  BY <1>4 DEF ToolBuilds, ToolRunsNextRules
<1>6. SwitchedBy(0) = {}
  BY DEF SwitchedBy
<1> HIDE DEF n, l
<1>7. CASE fork = "BerlinToLondonAt5"
  <2>1. l.type = IF n - 1 >= 5 THEN "1559" ELSE "Legacy"
    BY <1>2, <1>7 DEF PrescribedIn
  <2>2. pending.type = IF n - 1 = 4 THEN "1559" ELSE l.type
    BY <1>3, <1>6, <1>7 DEF TransitionType, n, l
  <2>3. CASE n = 5
    <3>1. pending.type = "1559" /\ l.type = "Legacy"
      BY <2>1, <2>2, <2>3
    <3>2. Verify1559(chain)
      BY <1>7, <2>3, <3>1 DEF Verify1559, IsBlockPoS, n, l
    <3>3. QED BY <3>1, <3>2, <1>5 DEF Mineable, VerifyHeader
  <2>4. CASE n # 5 /\ l.type = "Legacy"
    <3>1. pending.type = "Legacy" /\ n - 1 # 4
      BY <1>1, <2>2, <2>4
    <3>2. VerifyLegacy(chain)
      BY <2>4, <3>1 DEF VerifyLegacy, n, l
    <3>3. QED BY <3>1, <3>2, <1>5 DEF Mineable, VerifyHeader
  <2>5. CASE n # 5 /\ l.type = "1559"
    <3>1. pending.type = "1559"
      BY <1>1, <2>2, <2>5
    <3>2. Verify1559(chain)
      BY <1>7, <2>5 DEF Verify1559, IsBlockPoS, n, l
    <3>3. QED BY <3>1, <3>2, <1>5 DEF Mineable, VerifyHeader
  <2>6. QED BY <2>1, <2>3, <2>4, <2>5
<1>8. CASE fork = "ArrowGlacierToParisAtDiffC0000"
  <2>1. l.type = IF n > 1 /\ chain[n - 1].td >= TTD THEN "Paris" ELSE "1559"
    BY <1>2, <1>8 DEF PrescribedIn
  <2>2. pending.type = IF IsTerminalPoWBlock(chain) THEN "Paris" ELSE l.type
    BY <1>3, <1>6, <1>8 DEF TransitionType, l
  <2>3. IsTerminalPoWBlock(chain) <=> l.td >= TTD /\ (n > 2 => chain[n - 1].td < TTD)
    BY DEF IsTerminalPoWBlock, n, l
  <2>4. CASE pending.type = "Paris"
    <3>1. l.type # "Shanghai" /\ (l.type # "Paris" => l.td >= TTD)
      BY <2>1, <2>2, <2>3, <2>4
    <3>2. VerifyParis(chain)
      BY <1>8, <3>1 DEF VerifyParis, l
    <3>3. QED BY <2>4, <3>2, <1>5 DEF Mineable, VerifyHeader
  <2>5. CASE pending.type # "Paris"
    <3>1. pending.type = "1559" /\ l.type = "1559" /\ ~ IsTerminalPoWBlock(chain)
      BY <2>1, <2>2, <2>5
    <3>2. l.td < TTD
      <4>1. n > 1 => chain[n - 1].td < TTD
        <5> SUFFICES ASSUME n > 1 PROVE chain[n - 1].td < TTD
          OBVIOUS
        <5>1. n - 1 \in 1 .. n
          BY <1>1
        <5>2. chain[n - 1].td \in Nat
          BY <5>1, Elements DEF n
        <5>3. QED BY <1>1, <2>1, <3>1, <5>2
      <4>2. QED BY <1>1, <2>3, <3>1, <4>1
    <3>3. n # 5 \/ fork # "BerlinToLondonAt5"
      BY <1>8
    <3>4. Verify1559(chain)
      BY <1>8, <3>1, <3>2 DEF Verify1559, IsBlockPoS, l
    <3>5. QED BY <3>1, <3>4, <1>5 DEF Mineable, VerifyHeader
  <2>6. QED BY <2>4, <2>5
<1>9. QED BY <1>4, <1>7, <1>8

-----------------------------------------------------------------------------
(* The steps. *)

LEMMA InitInv == Init => Inv
<1> SUFFICES ASSUME Init PROVE Inv
  OBVIOUS
<1>1. fork \in Forks /\ chain = << Genesis >> /\ pending = PendingOn(chain, 0)
  BY DEF Init
<1>2. Follows(fork, chain)
  BY <1>1, GenesisFollows
<1>3. PendingInv
  BY <1>1, <1>2, PendingOnInv DEF PendingInv
<1>4. QED BY <1>1, <1>2, <1>3 DEF Inv, Init

\* A new manager starts where the first one did.
LEMMA SetChainParamsInv == SetChainParams => Inv'
<1>1. SetChainParams => Init'
  BY DEF SetChainParams, Init
<1>2. QED BY <1>1, InitInv, PTL

\* A call that ends in reorganizePendingBlock on a chain as prescribed.
LEMMA ReorganizedInv ==
    ASSUME Inv, UNCHANGED fork, Follows(fork, chain'),
           NEW t, pending' = PendingOn(chain', t),
           reply' \in {"mined", "rewound", "imported"}
    PROVE  Inv'
<1>1. /\ pending' \in [type : Types, ts : Time, header : {"own", "on", "below"}]
      /\ TimeForkType = {} => pending'.type = TransitionType(chain', 0)
  BY PendingOnInv
<1>2. TimeForkType' = TimeForkType /\ TransitionType(chain, 0)' = TransitionType(chain', 0)
  BY DEF TimeForkType, TransitionType, SwitchedBy, IsTerminalPoWBlock, Last
<1>3. PendingInv'
  BY <1>1, <1>2 DEF PendingInv
<1>4. QED BY <1>3 DEF Inv

LEMMA ModifyTimestampInv ==
    ASSUME Inv, NEW ts \in Time, ModifyTimestamp(ts)
    PROVE  Inv'
<1> DEFINE type == IF SwitchedBy(ts) = {} THEN pending.type
                   ELSE CHOOSE type \in SwitchedBy(ts) : TRUE
<1>1. /\ pending \in [type : Types, ts : Time, header : {"own", "on", "below"}]
      /\ UNCHANGED <<fork, chain>> /\ reply' = "timestamp"
  BY DEF Inv, PendingInv, ModifyTimestamp
<1>2. pending' = [type |-> type, ts |-> ts, header |-> pending.header]
  BY <1>1 DEF ModifyTimestamp
<1>3. type \in Types
  BY <1>1, TimeForkTypes
<1>4. TimeForkType = {} => type = pending.type
  BY DEF SwitchedBy
<1> HIDE DEF type
<1>5. TimeForkType' = TimeForkType /\ TransitionType(chain, 0)' = TransitionType(chain, 0)
  BY <1>1 DEF TimeForkType, TransitionType, SwitchedBy, IsTerminalPoWBlock, Last
<1>6. PendingInv'
  BY <1>1, <1>2, <1>3, <1>4, <1>5 DEF Inv, PendingInv
<1>7. QED BY <1>1, <1>6 DEF Inv, Follows, PrescribedIn

LEMMA ImportRejectedInv ==
    ASSUME Inv, NEW type \in Types, NEW ts \in Time, NEW number,
           ImportRejected(type, ts, number)
    PROVE  Inv'
<1>1. UNCHANGED <<fork, chain>> /\ reply' = "import failed"
  BY DEF ImportRejected
<1>2. /\ pending' \in [type : Types, ts : Time, header : {"own", "on", "below"}]
      /\ pending'.header # "own"
  BY DEF ImportRejected
<1>3. PendingInv'
  BY <1>2 DEF PendingInv
<1>4. QED BY <1>1, <1>3 DEF Inv

LEMMA NextInv == Inv /\ [Next]_vars => Inv'
<1> SUFFICES ASSUME Inv, [Next]_vars PROVE Inv'
  OBVIOUS
<1>1. fork \in Forks /\ Follows(fork, chain) /\ Len(chain) \in Nat
  BY Elements DEF Inv
<1>2. \A number \in 0 .. Len(chain) - 1 : Follows(fork, SubSeq(chain, 1, number + 1))
  <2> SUFFICES ASSUME NEW number \in 0 .. Len(chain) - 1
               PROVE  Follows(fork, SubSeq(chain, 1, number + 1))
    OBVIOUS
  <2>1. number + 1 \in 1 .. Len(chain)
    BY <1>1
  <2>2. QED BY <1>1, <2>1, PrefixFollows
<1>3. CASE SetChainParams
  BY <1>3, SetChainParamsInv
<1>4. CASE \E ts \in Time : ModifyTimestamp(ts)
  BY <1>4, ModifyTimestampInv
<1>5. CASE MineBlocks
  <2>1. pending.type \in Types /\ pending.ts \in Time
    BY DEF Inv, PendingInv
  <2>2. Follows(fork, chain')
    BY <1>1, <1>5, <2>1, ExtendFollows DEF MineBlocks, Mineable
  <2>3. QED BY <1>5, <2>2, ReorganizedInv DEF MineBlocks
<1>6. CASE MineFails
  BY <1>6 DEF MineFails, Inv, PendingInv, TransitionType, TimeForkType, SwitchedBy,
              IsTerminalPoWBlock, Last
<1>7. ASSUME NEW number \in 0 .. Len(chain) - 1, RewindToBlock(number)
      PROVE  Inv'
  BY <1>2, <1>7, ReorganizedInv DEF RewindToBlock
<1>8. ASSUME NEW number \in 0 .. Len(chain) - 1, NEW type \in Types, NEW ts \in Time,
             ImportRawBlock(type, ts, number)
      PROVE  Inv'
  <2>1. Follows(fork, chain')
    BY <1>1, <1>2, <1>8, ExtendFollows DEF ImportRawBlock
  <2>2. QED BY <1>8, <2>1, ReorganizedInv DEF ImportRawBlock
<1>9. ASSUME NEW number \in 0 .. Len(chain) - 1, NEW type \in Types, NEW ts \in Time,
             ImportRejected(type, ts, number)
      PROVE  Inv'
  BY <1>9, ImportRejectedInv
<1>10. CASE UNCHANGED vars
  BY <1>10 DEF vars, Inv, PendingInv, TransitionType, TimeForkType, SwitchedBy,
               IsTerminalPoWBlock, Last
<1>11. QED BY <1>3, <1>4, <1>5, <1>6, <1>7, <1>8, <1>9, <1>10 DEF Next

-----------------------------------------------------------------------------
(* The theorems. *)

\* The chain is as its network prescribes, totals do not fall, and the client's own
\* pending block has the type the chain calls for.
THEOREM TransitionInvariant == Spec => []Inv
BY InitInv, NextInv, PTL DEF Spec

\* The chain and the pending block keep their types.
THEOREM TypeCorrect == Spec => []TypeOK
<1>1. Inv => TypeOK
  <2> SUFFICES ASSUME Inv PROVE TypeOK
    OBVIOUS
  <2>1. chain \in Seq([type : Types, ts : Time, td : Nat]) \ {<< >>}
    <3>1. chain \in Seq(BlockRec) /\ Len(chain) >= 1
      BY DEF Inv, Follows
    <3>2. chain # << >>
      BY <3>1
    <3>3. QED BY <3>1, <3>2 DEF BlockRec
  <2>2. QED BY <2>1 DEF Inv, PendingInv, TypeOK
<1>2. QED BY <1>1, TransitionInvariant, PTL

\* Whether mined or imported, after any rewind, each block has the type that its
\* network prescribes, for every transition time and terminal difficulty.
THEOREM TypesAlwaysFollow == Spec => []TypesFollowFork
<1>1. Inv => TypesFollowFork
  <2> SUFFICES ASSUME Inv, NEW i \in DOMAIN chain PROVE chain[i].type = Prescribed(i)
    BY DEF TypesFollowFork
  <2>1. i \in 1 .. Len(chain)
    BY Elements DEF Inv
  <2>2. chain[i].type = PrescribedIn(fork, chain, i)
    BY <2>1 DEF Inv, Follows
  <2>3. QED BY <2>2 DEF Prescribed, PrescribedIn
<1>2. QED BY <1>1, TransitionInvariant, PTL

\* On the networks that switch by number or by difficulty the pending block the
\* client made can be mined, on either side of the switch.
THEOREM AlwaysMineable == Spec => []PendingMineable
<1>1. Inv => PendingMineable
  BY OwnPendingMineable DEF Inv, PendingMineable
<1>2. QED BY <1>1, TransitionInvariant, PTL
===============================================================================
