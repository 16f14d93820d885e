---------------------------- MODULE StateTestProofs ----------------------------
(***************************************************************************)
(* Proofs about StateTest, for any forks, transactions, fillers, options   *)
(* and number of commands: what is written of a transaction comes from a   *)
(* chain on which nothing else was executed, whatever was executed,        *)
(* rejected, skipped or wound back before, in a block that has the base    *)
(* fee and the excess blob gas the environment of the test names; a filled *)
(* file misses no transaction, and a file filled without an error runs     *)
(* without one.                                                            *)
(***************************************************************************)
EXTENDS StateTest, SequenceTheorems, WellFoundedInduction, TLAPS

-----------------------------------------------------------------------------
(* The fees of HeaderRules, for every fee and every gas limit *)

\* Dividing undoes multiplying.
LEMMA DivMul ==
    ASSUME NEW x \in Nat, NEW t \in Nat \ {0}
    PROVE  (x * t) \div t = x
OBVIOUS

\* An eighth less than eight sevenths, both rounded down, is the whole.
LEMMA OneStepBack ==
    ASSUME NEW fee \in Nat
    PROVE  /\ GenesisBaseFee(fee) \in Nat
           /\ GenesisBaseFee(fee) - (GenesisBaseFee(fee) \div 8) = fee
           /\ GenesisBaseFee(fee) = 0 \/ GenesisBaseFee(fee) > GenesisBaseFee(fee) \div 8
BY DEF GenesisBaseFee

\* calculateGenesisBaseFee undoes calculateEIP1559BaseFee for an empty genesis,
\* whatever the rounding: the transaction of a state test is executed under
\* currentBaseFee.  (A gas limit below 2 leaves no target, and the fee as it is.)
THEOREM FirstBlockHasTheFee ==
    ASSUME NEW fee \in Nat, NEW gasLimit \in Nat, gasLimit >= 2
    PROVE  BaseFee([baseFee |-> GenesisBaseFee(fee), gasUsed |-> 0, gasLimit |-> gasLimit]) = fee
<1> DEFINE genesis == [baseFee |-> GenesisBaseFee(fee), gasUsed |-> 0, gasLimit |-> gasLimit]
           target == GasTarget(genesis)
<1>1. target \in Nat \ {0}
  BY DEF GasTarget, Elasticity
<1>2. /\ genesis.baseFee \in Nat
      /\ genesis.baseFee - (genesis.baseFee \div 8) = fee
      /\ genesis.baseFee = 0 \/ genesis.baseFee > genesis.baseFee \div 8
  BY OneStepBack
<1>3. Delta(genesis, target) = genesis.baseFee \div 8
  <2> HIDE DEF genesis, target
  <2>1. (genesis.baseFee * target) \div target = genesis.baseFee
    BY <1>1, <1>2, DivMul
  <2> QED BY <2>1 DEF Delta, target, MaxChange
<1>4. target - 0 = target /\ genesis.gasUsed = 0 /\ 0 # target /\ ~ (0 > target)
  BY <1>1
<1>5. BaseFee(genesis) = IF genesis.baseFee > genesis.baseFee \div 8
                         THEN genesis.baseFee - (genesis.baseFee \div 8) ELSE 0
  <2> HIDE DEF genesis
  <2> QED BY <1>3, <1>4 DEF BaseFee
<1> HIDE DEF genesis
<1>6. BaseFee(genesis) = fee
  BY <1>2, <1>5
<1> QED BY <1>6 DEF genesis

\* The same for the excess blob gas of a genesis without blobs.
THEOREM FirstBlockHasTheExcess ==
    ASSUME NEW excess \in Nat
    PROVE  ExcessBlobGas(GenesisExcessBlobGas(excess), 0) = excess
BY DEF ExcessBlobGas, GenesisExcessBlobGas, BlobTarget

\* From block to block: a fee is never negative, and what falls, falls by an
\* eighth at most, so a positive fee stays positive.
THEOREM BaseFeeFallsSlowly ==
    ASSUME NEW parent \in Parents, parent.gasLimit >= 2
    PROVE  /\ BaseFee(parent) \in Nat
           /\ BaseFee(parent) >= parent.baseFee - (parent.baseFee \div 8)
           /\ parent.baseFee > 0 => BaseFee(parent) > 0
<1> DEFINE target == GasTarget(parent)
           fee == parent.baseFee
<1>1. /\ fee \in Nat /\ parent.gasUsed \in Nat /\ target \in Nat \ {0}
  BY DEF Parents, GasTarget, Elasticity
<1>2. ASSUME NEW distance \in Nat
      PROVE  Delta(parent, distance) \in Nat
  <2>1. fee * distance \in Nat
    BY <1>1
  <2> HIDE DEF target, fee
  <2>2. ((fee * distance) \div target) \in Nat
    BY <1>1, <2>1
  <2> QED BY <2>2 DEF Delta, target, fee, MaxChange
<1>3. ASSUME NEW distance \in Nat, distance <= target
      PROVE  Delta(parent, distance) <= fee \div 8
  <2> HIDE DEF target, fee
  <2>1. fee * distance \in Nat /\ fee * distance <= fee * target
    <3>1. distance <= target /\ distance \in Nat /\ target \in Nat /\ fee \in Nat
      BY <1>1, <1>3
    <3>2. fee * target = fee * distance + fee * (target - distance)
      BY <3>1
    <3>3. fee * (target - distance) \in Nat
      BY <3>1
    <3> QED BY <3>1, <3>2, <3>3
  <2>2. (fee * distance) \div target <= fee /\ (fee * distance) \div target \in Nat
    BY <1>1, <2>1, DivMul
  <2>3. ((fee * distance) \div target) \div 8 <= fee \div 8
    BY <1>1, <2>2
  <2> QED BY <2>3 DEF Delta, target, fee, MaxChange
<1>4. CASE parent.gasUsed = target
  BY <1>1, <1>4 DEF BaseFee
<1>5. CASE parent.gasUsed > target
  <2>1. Delta(parent, parent.gasUsed - target) \in Nat
    BY <1>1, <1>2, <1>5
  <2> QED BY <1>1, <1>5, <2>1 DEF BaseFee
<1>6. CASE parent.gasUsed < target
  <2>1. /\ Delta(parent, target - parent.gasUsed) \in Nat
        /\ Delta(parent, target - parent.gasUsed) <= fee \div 8
    BY <1>1, <1>2, <1>3, <1>6
  <2> QED BY <1>1, <1>6, <2>1 DEF BaseFee
<1> QED BY <1>1, <1>4, <1>5, <1>6

-----------------------------------------------------------------------------
(* The chains of the client *)

EnvOK(env) ==
    /\ env.baseFee \in Nat /\ env.excess \in Nat
    /\ env.gasLimit \in Nat /\ env.gasLimit >= 2

\* A chain of the client has its five parts.
Chain(fork, pre, blocks, pending, dropped) ==
    [fork |-> fork, pre |-> pre, blocks |-> blocks, pending |-> pending, dropped |-> dropped]

IsChain(c) == \E f, p, b, q, d : c = Chain(f, p, b, q, d)

\* The genesis of the environment, and nothing pending.
Fresh(c, fork, env) ==
    /\ IsChain(c) /\ c.fork = fork
    /\ c.blocks = <<GenesisOf(env)>>
    /\ c.pending = << >> /\ c.dropped = {}

\* One transaction was sent.
Sent(c, fork, env, t) ==
    /\ IsChain(c) /\ c.fork = fork
    /\ c.blocks = <<GenesisOf(env)>>
    /\ \/ c.pending = <<t>> /\ c.dropped = {}
       \/ c.pending = << >> /\ c.dropped = {t}

\* It was mined, or is among the rejected ones.
OneBlock(c, fork, env, t, rejected) ==
    /\ IsChain(c) /\ c.fork = fork
    /\ c.blocks = <<GenesisOf(env), c.blocks[2]>>
    /\ c.blocks[2].txs \subseteq {t}
    /\ c.blocks[2].baseFee = env.baseFee
    /\ c.blocks[2].excess = env.excess
    /\ t \in DOMAIN rejected => c.blocks[2].txs = {}

-----------------------------------------------------------------------------
(* The client *)

LEMMA ChainParts ==
    ASSUME NEW f, NEW p, NEW b, NEW q, NEW d
    PROVE  /\ IsChain(Chain(f, p, b, q, d))
           /\ Chain(f, p, b, q, d).fork = f
           /\ Chain(f, p, b, q, d).pre = p
           /\ Chain(f, p, b, q, d).blocks = b
           /\ Chain(f, p, b, q, d).pending = q
           /\ Chain(f, p, b, q, d).dropped = d
BY DEF Chain, IsChain

\* The parts that are not assigned stay.
LEMMA SetPending ==
    ASSUME NEW c, IsChain(c), NEW q
    PROVE  [c EXCEPT !.pending = q] = Chain(c.fork, c.pre, c.blocks, q, c.dropped)
<1> PICK f, p, b, q0, d : c = Chain(f, p, b, q0, d)
  BY DEF IsChain
<1>1. [Chain(f, p, b, q0, d) EXCEPT !.pending = q] = Chain(f, p, b, q, d)
  BY DEF Chain
<1>2. c.fork = f /\ c.pre = p /\ c.blocks = b /\ c.dropped = d
  BY DEF Chain
<1>3. [c EXCEPT !.pending = q] = Chain(f, p, b, q, d)
  BY <1>1
<1> QED BY <1>2, <1>3

LEMMA SetDropped ==
    ASSUME NEW c, IsChain(c), NEW d
    PROVE  [c EXCEPT !.dropped = d] = Chain(c.fork, c.pre, c.blocks, c.pending, d)
<1> PICK f, p, b, q, d0 : c = Chain(f, p, b, q, d0)
  BY DEF IsChain
<1>1. [Chain(f, p, b, q, d0) EXCEPT !.dropped = d] = Chain(f, p, b, q, d)
  BY DEF Chain
<1>2. c.fork = f /\ c.pre = p /\ c.blocks = b /\ c.pending = q
  BY DEF Chain
<1>3. [c EXCEPT !.dropped = d] = Chain(f, p, b, q, d)
  BY <1>1
<1> QED BY <1>2, <1>3

LEMMA SetBlocks ==
    ASSUME NEW c, IsChain(c), NEW b
    PROVE  [c EXCEPT !.blocks = b] = Chain(c.fork, c.pre, b, c.pending, c.dropped)
<1> PICK f, p, b0, q, d : c = Chain(f, p, b0, q, d)
  BY DEF IsChain
<1>1. [Chain(f, p, b0, q, d) EXCEPT !.blocks = b] = Chain(f, p, b, q, d)
  BY DEF Chain
<1>2. c.fork = f /\ c.pre = p /\ c.pending = q /\ c.dropped = d
  BY DEF Chain
<1>3. [c EXCEPT !.blocks = b] = Chain(f, p, b, q, d)
  BY <1>1
<1> QED BY <1>2, <1>3

LEMMA SetThree ==
    ASSUME NEW c, IsChain(c), NEW b
    PROVE  [c EXCEPT !.blocks = b, !.pending = << >>, !.dropped = {}]
           = Chain(c.fork, c.pre, b, << >>, {})
<1> DEFINE c1 == [c EXCEPT !.blocks = b]
           c2 == [c1 EXCEPT !.pending = << >>]
           c3 == [c2 EXCEPT !.dropped = {}]
<1>1. [c EXCEPT !.blocks = b, !.pending = << >>, !.dropped = {}] = c3
  OBVIOUS
<1>2. c1 = Chain(c.fork, c.pre, b, c.pending, c.dropped)
  BY SetBlocks
<1> HIDE DEF c1
<1>3. /\ IsChain(c1) /\ c1.fork = c.fork /\ c1.pre = c.pre
      /\ c1.blocks = b /\ c1.dropped = c.dropped
  BY <1>2, ChainParts
<1>4. c2 = Chain(c.fork, c.pre, b, << >>, c.dropped)
  <2>1. c2 = Chain(c1.fork, c1.pre, c1.blocks, << >>, c1.dropped)
    BY <1>3, SetPending
  <2> HIDE DEF c2
  <2> QED BY <1>3, <2>1
<1> HIDE DEF c2
<1>5. IsChain(c2) /\ c2.fork = c.fork /\ c2.pre = c.pre /\ c2.blocks = b /\ c2.pending = << >>
  BY <1>4, ChainParts
<1>6. c3 = Chain(c.fork, c.pre, b, << >>, {})
  <2>1. c3 = Chain(c2.fork, c2.pre, c2.blocks, c2.pending, {})
    BY <1>5, SetDropped
  <2> HIDE DEF c3
  <2> QED BY <1>5, <2>1
<1> HIDE DEF c3
<1> QED BY <1>1, <1>6

LEMMA AppendToOne ==
    ASSUME NEW g, NEW b
    PROVE  Append(<<g>>, b) = <<g, b>>
<1> DEFINE s == Append(<<g>>, b)
<1>1. <<g>> \in Seq({g, b})
  OBVIOUS
<1>2. s \in Seq({g, b}) /\ Len(s) = 2 /\ s[1] = g /\ s[2] = b
  BY <1>1
<1> HIDE DEF s
<1>3. s = <<s[1], s[2]>>
  BY <1>2
<1>4. s = <<g, b>>
  BY <1>2, <1>3
<1> QED BY <1>4 DEF s

LEMMA NewChainFresh ==
    ASSUME NEW fork, NEW pre, NEW env
    PROVE  Fresh(NewChain(fork, pre, env), fork, env) /\ NewChain(fork, pre, env).pre = pre
<1>1. NewChain(fork, pre, env) = Chain(fork, pre, <<GenesisOf(env)>>, << >>, {})
  BY DEF NewChain, Chain
<1> QED BY <1>1, ChainParts DEF Fresh

LEMMA SendRawSent ==
    ASSUME NEW c, NEW fork, NEW env, NEW t, Fresh(c, fork, env)
    PROVE  Sent(SendRaw(c, t), fork, env, t) /\ SendRaw(c, t).pre = c.pre
<1>1. Append(c.pending, t) = <<t>> /\ c.dropped \cup {t} = {t}
  BY DEF Fresh
<1>2. CASE Drops(c, t)
  <2>1. SendRaw(c, t) = [c EXCEPT !.dropped = c.dropped \cup {t}]
    BY <1>2 DEF SendRaw
  <2>2. SendRaw(c, t) = Chain(c.fork, c.pre, c.blocks, c.pending, c.dropped \cup {t})
    <3>1. IsChain(c)
      BY DEF Fresh
    <3> QED BY <2>1, <3>1, SetDropped
  <2> QED BY <1>1, <2>2, ChainParts DEF Fresh, Sent
<1>3. CASE ~ Drops(c, t)
  <2>1. SendRaw(c, t) = [c EXCEPT !.pending = Append(c.pending, t)]
    BY <1>3 DEF SendRaw
  <2>2. SendRaw(c, t) = Chain(c.fork, c.pre, c.blocks, Append(c.pending, t), c.dropped)
    <3>1. IsChain(c)
      BY DEF Fresh
    <3> QED BY <2>1, <3>1, SetPending
  <2> QED BY <1>1, <2>2, ChainParts DEF Fresh, Sent
<1> QED BY <1>2, <1>3

\* The rule reads three fields of the parent.
LEMMA BaseFeeOfGenesis ==
    ASSUME NEW env, EnvOK(env)
    PROVE  BaseFee(GenesisOf(env)) = env.baseFee
<1> DEFINE genesis == [baseFee |-> GenesisBaseFee(env.baseFee), gasUsed |-> 0,
                       gasLimit |-> env.gasLimit]
<1>1. /\ GenesisOf(env).baseFee = genesis.baseFee
      /\ GenesisOf(env).gasUsed = genesis.gasUsed
      /\ GenesisOf(env).gasLimit = genesis.gasLimit
  BY DEF GenesisOf
<1>2. BaseFee(genesis) = env.baseFee
  BY FirstBlockHasTheFee DEF EnvOK
<1> HIDE DEF genesis
<1>3. GasTarget(GenesisOf(env)) = GasTarget(genesis)
  BY <1>1 DEF GasTarget
<1>4. \A d : Delta(GenesisOf(env), d) = Delta(genesis, d)
  BY <1>1, <1>3 DEF Delta
<1>5. BaseFee(GenesisOf(env)) = BaseFee(genesis)
  BY <1>1, <1>3, <1>4 DEF BaseFee
<1> QED BY <1>2, <1>5

LEMMA MinedOneBlock ==
    ASSUME NEW c, NEW fork, NEW env, NEW t, EnvOK(env), Sent(c, fork, env, t)
    PROVE  OneBlock(Mined(c), fork, env, t, Rejected(c)) /\ Mined(c).pre = c.pre
<1> DEFINE g == GenesisOf(env)
           b == [baseFee |-> BaseFee(Last(c.blocks)), gasLimit |-> Last(c.blocks).gasLimit,
                 gasUsed |-> TxGas * Cardinality(Accepted(c)),
                 excess |-> ExcessOfNext(c), txs |-> Accepted(c)]
<1>1. c.blocks = <<g>> /\ Last(c.blocks) = g
  BY DEF Sent, Last
<1>2. b.baseFee = env.baseFee
  BY <1>1, BaseFeeOfGenesis
<1>3. b.excess = env.excess
  BY <1>1, FirstBlockHasTheExcess DEF ExcessOfNext, GenesisOf, EnvOK
<1>4. ToSet(c.pending) \cup c.dropped = {t} /\ ToSet(c.pending) \cap c.dropped = {}
  BY DEF Sent, ToSet
<1>5. b.txs = Accepted(c) /\ Accepted(c) \subseteq {t}
  BY <1>4 DEF Accepted
<1>6. t \in DOMAIN Rejected(c) => Accepted(c) = {}
  BY <1>4, <1>5 DEF Rejected, Accepted
<1> HIDE DEF g, b
<1>7. Append(c.blocks, b) = <<g, b>>
  BY <1>1, AppendToOne
<1>8. Mined(c) = Chain(c.fork, c.pre, <<g, b>>, << >>, {})
  <2>1. Mined(c) = [c EXCEPT !.blocks = Append(c.blocks, b), !.pending = << >>, !.dropped = {}]
    BY DEF Mined, b
  <2>2. IsChain(c)
    BY DEF Sent
  <2>3. Mined(c) = Chain(c.fork, c.pre, Append(c.blocks, b), << >>, {})
    BY <2>1, <2>2, SetThree
  <2> QED BY <1>7, <2>3
<1>9. /\ Mined(c).blocks = <<g, b>> /\ Mined(c).blocks[2] = b
      /\ Mined(c).fork = fork /\ Mined(c).pre = c.pre /\ IsChain(Mined(c))
  <2>1. /\ Mined(c).blocks = <<g, b>> /\ Mined(c).fork = c.fork
        /\ Mined(c).pre = c.pre /\ IsChain(Mined(c))
    BY <1>8, ChainParts
  <2> QED BY <2>1 DEF Sent
<1> QED BY <1>2, <1>3, <1>5, <1>6, <1>9 DEF OneBlock, g

LEMMA RewoundFresh ==
    ASSUME NEW c, NEW fork, NEW env, NEW t, NEW rejected, OneBlock(c, fork, env, t, rejected)
    PROVE  Fresh(Rewound(c), fork, env) /\ Rewound(c).pre = c.pre
<1>1. <<Head(c.blocks)>> = <<GenesisOf(env)>>
  BY DEF OneBlock
<1>2. Rewound(c) = Chain(c.fork, c.pre, <<GenesisOf(env)>>, << >>, {})
  <2>1. Rewound(c) = [c EXCEPT !.blocks = <<Head(c.blocks)>>, !.pending = << >>, !.dropped = {}]
    BY DEF Rewound
  <2>2. IsChain(c)
    BY DEF OneBlock
  <2>3. Rewound(c) = Chain(c.fork, c.pre, <<Head(c.blocks)>>, << >>, {})
    BY <2>1, <2>2, SetThree
  <2> QED BY <1>1, <2>3
<1> QED BY <1>2, ChainParts DEF Fresh, OneBlock

LEMMA RootOfOneBlock ==
    ASSUME NEW c, NEW fork, NEW env, NEW t, NEW rejected, OneBlock(c, fork, env, t, rejected)
    PROVE  /\ Root(c).fork = fork /\ Root(c).pre = c.pre
           /\ Len(Root(c).blocks) = 1
           /\ Root(c).blocks[1].txs = c.blocks[2].txs
           /\ Root(c).blocks[1].baseFee = env.baseFee
           /\ Root(c).blocks[1].excess = env.excess
           /\ ExecutedIn(Root(c)) = c.blocks[2].txs
<1>1. Len(c.blocks) = 2
  BY DEF OneBlock
<1>2. Root(c).blocks = [i \in 1 .. 1 |-> [txs |-> c.blocks[i + 1].txs,
                                          baseFee |-> c.blocks[i + 1].baseFee,
                                          excess |-> c.blocks[i + 1].excess]]
  BY <1>1 DEF Root
<1>3. DOMAIN Root(c).blocks = {1} /\ Len(Root(c).blocks) = 1
  BY <1>2
<1>4. /\ Root(c).blocks[1].txs = c.blocks[2].txs
      /\ Root(c).blocks[1].baseFee = c.blocks[2].baseFee
      /\ Root(c).blocks[1].excess = c.blocks[2].excess
  BY <1>2
<1>5. ExecutedIn(Root(c)) = c.blocks[2].txs
  BY <1>3, <1>4 DEF ExecutedIn
<1>6. Root(c).fork = fork /\ Root(c).pre = c.pre
  BY DEF Root, OneBlock
<1> QED BY <1>3, <1>4, <1>5, <1>6 DEF OneBlock

LEMMA RootOfFresh ==
    ASSUME NEW c, NEW fork, NEW env, Fresh(c, fork, env)
    PROVE  /\ Root(c).fork = fork /\ Root(c).pre = c.pre
           /\ Root(c).blocks = << >>
           /\ ExecutedIn(Root(c)) = {}
<1>1. Len(c.blocks) = 1
  BY DEF Fresh
<1>2. Root(c).blocks = [i \in 1 .. 0 |-> [txs |-> c.blocks[i + 1].txs,
                                          baseFee |-> c.blocks[i + 1].baseFee,
                                          excess |-> c.blocks[i + 1].excess]]
  BY <1>1 DEF Root
<1>3. DOMAIN Root(c).blocks = {}
  BY <1>2
<1>4. Root(c).blocks = << >>
  BY <1>2
<1> QED BY <1>3, <1>4 DEF Root, Fresh, ExecutedIn
-----------------------------------------------------------------------------
(* The invariant *)

\* What the loop works on is a filler; a file is run only if there is one.
InputInv ==
    /\ mode \in {"idle", "fill", "chain", "run"}
    /\ At("end") => mode = "fill"
    /\ filler \in Fillers
    /\ mode = "run" => file.written = TRUE
    /\ file.written = TRUE => file.test \in Fillers

\* Where the client is at each step of the loop.
ClientInv ==
    /\ Between => Fresh(client, First(forks), Test.env)
    /\ At("sent") => Sent(client, First(forks), Test.env, Head(txs))
    /\ At("mined") => OneBlock(client, First(forks), Test.env, Head(txs), mined)

\* The pre state the client started with.
PreInv ==
    /\ mode = "chain" /\ step \in {"sent", "mined"} => client.pre = filler.pre \cup statePre
    /\ mode \in {"fill", "run"} /\ step \in {"sections", "txs", "sent", "mined"} =>
          client.pre = Test.pre

\* ExecutedAlone and JudgedRight of one record.
RecordOK(r) ==
    /\ r.root.fork = r.fork
    /\ IF r.chain THEN r.test.pre \subseteq r.root.pre ELSE r.root.pre = r.test.pre
    /\ IF r.chain /\ r.exception # "" THEN r.root.blocks = << >>
       ELSE /\ Len(r.root.blocks) = 1
            /\ r.root.blocks[1].txs \subseteq r.txs
            /\ r.root.blocks[1].baseFee = r.test.env.baseFee
            /\ r.root.blocks[1].excess = r.test.env.excess
    /\ r.exception = "" => ExecutedIn(r.root) = r.txs
    /\ r.exception # "" /\ r.by.reports => ExecutedIn(r.root) = {}

RecordOf(fork, test, by, entry) ==
    [fork |-> fork, test |-> test, by |-> by, chain |-> FALSE, txs |-> entry.txs,
     root |-> entry.root, exception |-> ExceptionOf(entry, fork)]

ChainRecordOf(test, by, c) ==
    [fork |-> c.fork, test |-> test, by |-> by, chain |-> TRUE, txs |-> {c.tx},
     root |-> c.root, exception |-> c.exception]

PostOK(post, test, by) ==
    \A f \in DOMAIN post : \A i \in DOMAIN post[f] : RecordOK(RecordOf(f, test, by, post[f][i]))

IsSequence(s) == \E S : s \in Seq(S)

RecordsInv ==
    /\ file.written = TRUE => PostOK(file.post, file.test, file.by)
    /\ mode = "fill" => PostOK(results, filler, cmd)
    /\ mode = "fill" => \A f \in DOMAIN results : IsSequence(results[f])
    /\ mode = "chain" => \A c \in chainTests : RecordOK(ChainRecordOf(filler, cmd, c))

Inv == InputInv /\ ClientInv /\ PreInv /\ RecordsInv

\* The records are those of the file and of the loop.
LEMMA RecordsAreOK ==
    ASSUME Inv, NEW r \in Records
    PROVE  RecordOK(r)
<1>1. ASSUME NEW post, NEW test, NEW by, PostOK(post, test, by), r \in Written(post, test, by)
      PROVE  RecordOK(r)
  <2>1. PICK f \in DOMAIN post : \E i \in DOMAIN post[f] : r = RecordOf(f, test, by, post[f][i])
    BY <1>1 DEF Written, RecordOf
  <2> QED BY <1>1, <2>1 DEF PostOK
<1>2. CASE r \in (IF file.written THEN Written(file.post, file.test, file.by) ELSE {})
  <2>1. file.written = TRUE /\ r \in Written(file.post, file.test, file.by)
    BY <1>2
  <2> QED BY <1>1, <2>1 DEF Inv, RecordsInv
<1>3. CASE r \in (IF mode = "fill" THEN Written(results, filler, cmd) ELSE {})
  <2>1. mode = "fill" /\ r \in Written(results, filler, cmd)
    BY <1>3
  <2> QED BY <1>1, <2>1 DEF Inv, RecordsInv
<1>4. CASE r \notin (IF file.written THEN Written(file.post, file.test, file.by) ELSE {})
           /\ r \notin (IF mode = "fill" THEN Written(results, filler, cmd) ELSE {})
  <2>1. mode = "chain" /\ \E c \in chainTests : r = ChainRecordOf(filler, cmd, c)
    BY <1>4 DEF Records, ChainRecordOf
  <2> QED BY <2>1 DEF Inv, RecordsInv
<1> QED BY <1>2, <1>3, <1>4

LEMMA InvImplies == Inv => ExecutedAlone /\ JudgedRight
<1> SUFFICES ASSUME Inv PROVE ExecutedAlone /\ JudgedRight
  OBVIOUS
<1>1. \A r \in Records : RecordOK(r)
  BY RecordsAreOK
<1> QED BY <1>1 DEF RecordOK, ExecutedAlone, JudgedRight

LEMMA InitInv == Init => Inv
<1> SUFFICES ASSUME Init PROVE Inv
  OBVIOUS
<1>1. mode = "idle" /\ chainTests = {} /\ filler \in Fillers
  BY DEF Init
<1>2. file.written = FALSE
  BY DEF Init, NoFile
<1>3. InputInv
  BY <1>1, <1>2 DEF InputInv, At
<1>4. ClientInv /\ PreInv /\ RecordsInv
  BY <1>1, <1>2 DEF ClientInv, PreInv, RecordsInv, Between, At
<1> QED BY <1>3, <1>4 DEF Inv

-----------------------------------------------------------------------------
(* Steps that leave the client alone *)

LEMMA IdleInv ==
    ASSUME Inv, mode' = "idle", filler' \in Fillers, UNCHANGED file
    PROVE  Inv'
<1>1. InputInv'
  BY DEF Inv, InputInv, At
<1>2. ClientInv' /\ PreInv'
  BY DEF ClientInv, PreInv, Between, At
<1>3. RecordsInv'
  <2>1. file.written = TRUE => PostOK(file.post, file.test, file.by)
    BY DEF Inv, RecordsInv
  <2> QED BY <2>1 DEF RecordsInv, PostOK
<1> QED BY <1>1, <1>2, <1>3 DEF Inv

LEMMA FailInv ==
    ASSUME Inv, NEW error, Fail(error)
    PROVE  Inv'
<1>1. mode' = "idle" /\ filler' = filler /\ UNCHANGED file
  BY DEF Fail, disk
<1> QED BY <1>1, IdleInv DEF Inv, InputInv

\* A loop that starts has nothing written yet.
LEMMA NewRunnerInv ==
    ASSUME NEW m, NEW S, NewRunner(m, S), InputInv',
           file'.written = TRUE => PostOK(file.post, file.test, file.by)'
    PROVE  Inv'
<1>1. step' = "forks" /\ results' = << >> /\ chainTests' = {}
  BY DEF NewRunner
<1>2. ClientInv' /\ PreInv'
  BY <1>1 DEF ClientInv, PreInv, Between, At
<1>3. DOMAIN results' = {}
  BY <1>1
<1>4. RecordsInv'
  BY <1>1, <1>3 DEF RecordsInv, PostOK
<1> QED BY <1>2, <1>4 DEF Inv

\* What the loop does between two calls of the client.
LEMMA QuietInv ==
    ASSUME Inv, UNCHANGED <<disk, mode, client, mined, made>>,
           step' \in {"forks", "sections", "txs", "end"}, step' = "end" => mode = "fill",
           step' \in {"sections", "txs"} /\ mode # "chain" => Between /\ forks' = forks
    PROVE  Inv'
<1>1. /\ filler' = filler /\ file' = file /\ cmd' = cmd /\ mode' = mode /\ client' = client
      /\ statePre' = statePre /\ results' = results /\ chainTests' = chainTests
  BY DEF disk, made
<1>2. Test' = Test
  BY <1>1 DEF Test
<1>3. InputInv'
  BY <1>1 DEF Inv, InputInv, At
<1>4. ClientInv'
  <2>1. ~ At("sent")' /\ ~ At("mined")'
    BY DEF At
  <2>2. ASSUME Between' PROVE Fresh(client, First(forks), Test.env)'
    <3>1. Between /\ forks' = forks
      BY <2>2, <1>1 DEF Between
    <3> QED BY <3>1, <1>1, <1>2 DEF Inv, ClientInv
  <2> QED BY <2>1, <2>2 DEF ClientInv
<1>5. PreInv'
  <2>1. ASSUME mode \in {"fill", "run"}, step' \in {"sections", "txs"}
        PROVE  client.pre = Test.pre
    <3>1. step \in {"sections", "txs"}
      BY <2>1 DEF Between
    <3> QED BY <2>1, <3>1 DEF Inv, PreInv
  <2> QED BY <1>1, <1>2, <2>1 DEF PreInv
<1>6. RecordsInv'
  BY <1>1 DEF Inv, RecordsInv, PostOK
<1> QED BY <1>3, <1>4, <1>5, <1>6 DEF Inv

-----------------------------------------------------------------------------
(* Commands *)

LEMMA CommandInv ==
    ASSUME Inv,
           NEW c \in Commands,
           StartFill(c) \/ RefuseFiller(c) \/ SkipFilling(c) \/ StartRun(c) \/ RefuseRun(c)
    PROVE  Inv'
<1>1. /\ mode = "idle" /\ filler' = filler /\ file' = file
      /\ filler \in Fillers /\ (file.written = TRUE => file.test \in Fillers)
      /\ file.written = TRUE => PostOK(file.post, file.test, file.by)
  BY DEF Inv, InputInv, RecordsInv, StartFill, RefuseFiller, SkipFilling, StartRun, RefuseRun, Started
<1>2. file'.written = TRUE => PostOK(file.post, file.test, file.by)'
  BY <1>1 DEF PostOK
<1>3. ASSUME UNCHANGED <<loop, marks, client, mined, made>>
      PROVE  Inv'
  <2>1. mode' = "idle"
    BY <1>1, <1>3 DEF loop
  <2> QED BY <1>1, <2>1, IdleInv
<1>4. CASE StartFill(c)
  <2>1. c.mode \in {"fill", "chain"} /\ NewRunner(c.mode, ForksOf(filler))
    BY <1>4 DEF StartFill
  <2>2. InputInv'
    BY <1>1, <2>1 DEF InputInv, NewRunner, At
  <2> QED BY <1>2, <2>1, <2>2, NewRunnerInv
<1>5. ASSUME NewRunner("run", DOMAIN file.post), file.written = TRUE
      PROVE  Inv'
  <2>1. InputInv'
    BY <1>1, <1>5 DEF InputInv, NewRunner, At
  <2> QED BY <1>2, <1>5, <2>1, NewRunnerInv
<1>6. CASE RefuseFiller(c) \/ RefuseRun(c)
  BY <1>3, <1>6 DEF RefuseFiller, RefuseRun
<1>7. CASE SkipFilling(c)
  <2>1. CASE RunsFile(c) /\ file.written
    BY <1>5, <1>7, <2>1 DEF SkipFilling
  <2>2. CASE ~ (RunsFile(c) /\ file.written)
    BY <1>3, <1>7, <2>2 DEF SkipFilling
  <2> QED BY <2>1, <2>2
<1>8. CASE StartRun(c)
  BY <1>5, <1>8 DEF StartRun, UpToDate
<1> QED BY <1>4, <1>6, <1>7, <1>8

-----------------------------------------------------------------------------
(* Steps that call the client *)

LEMMA TestFits ==
    ASSUME Inv
    PROVE  EnvOK(Test.env)
<1>1. Test \in Fillers
  BY DEF Inv, InputInv, Test
<1> QED BY <1>1, EnvironmentAssumption DEF EnvOK

LEMMA BeginForkInv ==
    ASSUME Inv, BeginFork
    PROVE  Inv'
<1>1. /\ filler' = filler /\ file' = file /\ cmd' = cmd /\ mode' = mode /\ forks' = forks
      /\ statePre' = statePre /\ results' = results /\ chainTests' = chainTests
      /\ step' = "sections"
  BY DEF BeginFork, disk, made
<1>2. Test' = Test
  BY <1>1 DEF Test
<1>3. InputInv' /\ PreInv'
  <2>1. ASSUME mode \in {"fill", "run"}
        PROVE  client'.pre = Test.pre
    <3>1. client' = NewChain(First(forks), Test.pre, Test.env)
      BY <2>1 DEF BeginFork
    <3> QED BY <3>1, NewChainFresh
  <2> QED BY <1>1, <1>2, <2>1 DEF Inv, InputInv, PreInv, At
<1>4. ClientInv'
  <2>1. ~ At("sent")' /\ ~ At("mined")'
    BY <1>1 DEF At
  <2>2. ASSUME Between' PROVE Fresh(client, First(forks), Test.env)'
    <3>1. client' = NewChain(First(forks), Test.pre, Test.env)
      BY <1>1, <2>2 DEF BeginFork, Between
    <3>2. Fresh(client', First(forks), Test.env)
      BY <3>1, NewChainFresh
    <3> QED BY <1>1, <1>2, <3>2
  <2> QED BY <2>1, <2>2 DEF ClientInv
<1>5. RecordsInv'
  BY <1>1 DEF Inv, RecordsInv, PostOK
<1> QED BY <1>3, <1>4, <1>5 DEF Inv

\* The chain a transaction is sent to has only the genesis of its environment.
LEMMA SendInv ==
    ASSUME Inv, SendTransaction
    PROVE  Inv'
<1> DEFINE fresh == IF mode = "chain"
                    THEN NewChain(First(forks), Test.pre \cup statePre', Test.env) ELSE client
<1>1. /\ filler' = filler /\ file' = file /\ cmd' = cmd /\ mode' = mode
      /\ forks' = forks /\ txs' = txs /\ results' = results /\ chainTests' = chainTests
      /\ step = "txs" /\ mode # "idle" /\ step' = "sent"
  BY DEF SendTransaction, disk, At
<1>2. Test' = Test
  BY <1>1 DEF Test
<1>3. client' = SendRaw(fresh, Head(txs))
  BY DEF SendTransaction
<1>4. Fresh(fresh, First(forks), Test.env)
  <2>1. CASE mode = "chain"
    BY <2>1, NewChainFresh
  <2>2. CASE mode # "chain"
    <3>1. mode \in {"fill", "run"}
      BY <1>1, <2>2 DEF Inv, InputInv
    <3> QED BY <1>1, <2>2, <3>1 DEF Inv, ClientInv, Between
  <2> QED BY <2>1, <2>2
<1>5. fresh.pre = IF mode = "chain" THEN filler.pre \cup statePre' ELSE Test.pre
  <2>1. CASE mode = "chain"
    BY <2>1, NewChainFresh DEF Test
  <2>2. CASE mode # "chain"
    <3>1. mode \in {"fill", "run"}
      BY <1>1, <2>2 DEF Inv, InputInv
    <3> QED BY <1>1, <2>2, <3>1 DEF Inv, PreInv
  <2> QED BY <2>1, <2>2
<1> HIDE DEF fresh
<1>6. Sent(client', First(forks), Test.env, Head(txs)) /\ client'.pre = fresh.pre
  BY <1>3, <1>4, SendRawSent
<1>7. ClientInv'
  BY <1>1, <1>2, <1>6 DEF ClientInv, Between, At
<1>8. PreInv'
  BY <1>1, <1>2, <1>5, <1>6 DEF PreInv
<1>9. InputInv' /\ RecordsInv'
  BY <1>1 DEF Inv, InputInv, RecordsInv, PostOK, At
<1> QED BY <1>7, <1>8, <1>9 DEF Inv

LEMMA MineInv ==
    ASSUME Inv, MineBlock
    PROVE  Inv'
<1>1. /\ filler' = filler /\ file' = file /\ cmd' = cmd /\ mode' = mode
      /\ forks' = forks /\ txs' = txs /\ results' = results /\ chainTests' = chainTests
      /\ statePre' = statePre /\ step = "sent" /\ mode # "idle" /\ step' = "mined"
      /\ client' = Mined(client) /\ mined' = Rejected(client)
  BY DEF MineBlock, disk, made, At
<1>2. Test' = Test
  BY <1>1 DEF Test
<1>3. Sent(client, First(forks), Test.env, Head(txs))
  BY <1>1 DEF Inv, ClientInv, At
<1>4. /\ OneBlock(client', First(forks), Test.env, Head(txs), mined')
      /\ client'.pre = client.pre
  BY <1>1, <1>3, TestFits, MinedOneBlock
<1>5. ClientInv'
  BY <1>1, <1>2, <1>4 DEF ClientInv, Between, At
<1>6. PreInv'
  BY <1>1, <1>2, <1>4 DEF Inv, PreInv
<1>7. InputInv' /\ RecordsInv'
  BY <1>1 DEF Inv, InputInv, RecordsInv, PostOK, At
<1> QED BY <1>5, <1>6, <1>7 DEF Inv

-----------------------------------------------------------------------------
(* What is written *)

LEMMA AppendElements ==
    ASSUME NEW s, IsSequence(s), NEW e
    PROVE  /\ IsSequence(Append(s, e))
           /\ \A i \in DOMAIN Append(s, e) :
                 Append(s, e)[i] = e \/ (i \in DOMAIN s /\ Append(s, e)[i] = s[i])
<1>1. PICK S : s \in Seq(S)
  BY DEF IsSequence
<1>2. s \in Seq(S \cup {e})
  BY <1>1
<1>3. Append(s, e) \in Seq(S \cup {e})
  BY <1>2
<1>4. \A i \in DOMAIN Append(s, e) :
         Append(s, e)[i] = e \/ (i \in DOMAIN s /\ Append(s, e)[i] = s[i])
  BY <1>2
<1> QED BY <1>3, <1>4 DEF IsSequence

\* A transaction that passed: what its state is of, and whether it was executed.
LEMMA OutcomeFits ==
    ASSUME Inv, At("mined"), ~ Complaint
    PROVE  /\ Outcome.fork = First(forks) /\ Outcome.pre = client.pre
           /\ IF mode = "chain" /\ Exception # "" THEN Outcome.blocks = << >>
              ELSE /\ Len(Outcome.blocks) = 1
                   /\ Outcome.blocks[1].txs \subseteq {Head(txs)}
                   /\ Outcome.blocks[1].baseFee = Test.env.baseFee
                   /\ Outcome.blocks[1].excess = Test.env.excess
           /\ Exception = "" => ExecutedIn(Outcome) = {Head(txs)}
           /\ Exception # "" /\ cmd.reports => ExecutedIn(Outcome) = {}
<1> DEFINE fork == First(forks)
           env == Test.env
           t == Head(txs)
<1>1. OneBlock(client, fork, env, t, mined)
  BY DEF Inv, ClientInv
<1>2. Fresh(Rewound(client), fork, env) /\ Rewound(client).pre = client.pre
  BY <1>1, RewoundFresh
<1>3. /\ Root(Rewound(client)).fork = fork /\ Root(Rewound(client)).pre = client.pre
      /\ Root(Rewound(client)).blocks = << >> /\ ExecutedIn(Root(Rewound(client))) = {}
  BY <1>2, RootOfFresh
<1>4. /\ Root(client).fork = fork /\ Root(client).pre = client.pre
      /\ Len(Root(client).blocks) = 1
      /\ Root(client).blocks[1].txs = client.blocks[2].txs
      /\ Root(client).blocks[1].baseFee = env.baseFee
      /\ Root(client).blocks[1].excess = env.excess
      /\ ExecutedIn(Root(client)) = client.blocks[2].txs
  BY <1>1, RootOfOneBlock
<1>5. client.blocks[2].txs \subseteq {t} /\ (t \in DOMAIN mined => client.blocks[2].txs = {})
  BY <1>1 DEF OneBlock
<1>6. Exception = "" => client.blocks[2].txs = {t}
  <2>1. Last(client.blocks) = client.blocks[2]
    BY <1>1 DEF OneBlock, Last
  <2>2. Exception = "" => t \in Last(client.blocks).txs
    BY DEF Complaint
  <2> QED BY <1>5, <2>1, <2>2
<1>7. Exception # "" /\ cmd.reports => client.blocks[2].txs = {}
  <2>1. Exception # "" /\ cmd.reports => Reason(t) # ""
    BY DEF Complaint, WrongVerdict
  <2> QED BY <1>5, <2>1 DEF Reason
<1> HIDE DEF fork, env, t
<1>8. CASE mode = "chain" /\ Exception # ""
  <2>1. Outcome = Root(Rewound(client))
    BY <1>8 DEF Outcome
  <2> QED BY <1>3, <1>8, <2>1 DEF fork
<1>9. CASE ~ (mode = "chain" /\ Exception # "")
  <2>1. Outcome = Root(client)
    BY <1>9 DEF Outcome
  <2> QED BY <1>4, <1>5, <1>6, <1>7, <1>9, <2>1 DEF fork, env, t
<1> QED BY <1>8, <1>9

LEMMA ResultOK ==
    ASSUME Inv, At("mined"), ~ Complaint, mode = "fill"
    PROVE  RecordOK(RecordOf(First(forks), filler, cmd, Result))
<1>1. ExceptionOf(Result, First(forks)) = Exception
  BY DEF ExceptionOf, Result
<1>2. Result.txs = {Head(txs)} /\ Result.root = Outcome
  BY DEF Result
<1>3. Test = filler
  BY DEF Test
<1> DEFINE r == RecordOf(First(forks), filler, cmd, Result)
<1>4. /\ r.fork = First(forks) /\ r.test = filler /\ r.by = cmd /\ r.chain = FALSE
      /\ r.txs = {Head(txs)} /\ r.root = Outcome /\ r.exception = Exception
  BY <1>1, <1>2 DEF RecordOf
<1> HIDE DEF r
<1>5. client.pre = filler.pre
  BY <1>3 DEF Inv, PreInv, At
<1>6. RecordOK(r)
  BY <1>3, <1>4, <1>5, OutcomeFits DEF RecordOK
<1> QED BY <1>6 DEF r

LEMMA ChainTestOK ==
    ASSUME Inv, At("mined"), ~ Complaint, mode = "chain"
    PROVE  RecordOK(ChainRecordOf(filler, cmd, ChainTest)) /\ ChainTest.pre = ChainTest.root.pre
<1>1. Test = filler
  BY DEF Test
<1>2. /\ ChainTest.fork = First(forks) /\ ChainTest.tx = Head(txs) /\ ChainTest.root = Outcome
      /\ ChainTest.exception = Exception /\ ChainTest.pre = filler.pre \cup statePre
  BY <1>1 DEF ChainTest
<1>3. client.pre = filler.pre \cup statePre
  BY DEF Inv, PreInv, At
<1> DEFINE r == ChainRecordOf(filler, cmd, ChainTest)
<1>4. /\ r.fork = First(forks) /\ r.test = filler /\ r.by = cmd /\ r.chain = TRUE
      /\ r.txs = {Head(txs)} /\ r.root = Outcome /\ r.exception = Exception
  BY <1>2 DEF ChainRecordOf
<1> HIDE DEF r
<1>5. Outcome.pre = client.pre
  BY OutcomeFits
<1>6. RecordOK(r)
  BY <1>1, <1>3, <1>4, <1>5, OutcomeFits DEF RecordOK
<1> QED BY <1>2, <1>3, <1>5, <1>6 DEF r

LEMMA JudgeInv ==
    ASSUME Inv, JudgePasses
    PROVE  Inv'
<1>1. /\ filler' = filler /\ file' = file /\ cmd' = cmd /\ mode' = mode
      /\ forks' = forks /\ statePre' = statePre
      /\ At("mined") /\ ~ Complaint /\ step' = "txs" /\ client' = Rewound(client)
  BY DEF JudgePasses, disk, At
<1>2. Test' = Test
  BY <1>1 DEF Test
<1>3. Fresh(client', First(forks), Test.env)
  <2>1. OneBlock(client, First(forks), Test.env, Head(txs), mined)
    BY <1>1 DEF Inv, ClientInv
  <2> QED BY <1>1, <2>1, RewoundFresh
<1>4. ClientInv' /\ PreInv' /\ InputInv'
  <2>1. OneBlock(client, First(forks), Test.env, Head(txs), mined)
    BY <1>1 DEF Inv, ClientInv
  <2>2. client'.pre = client.pre
    BY <1>1, <2>1, RewoundFresh
  <2>3. PreInv'
    BY <1>1, <1>2, <2>2 DEF Inv, PreInv, At
  <2> QED BY <1>1, <1>2, <1>3, <2>3 DEF Inv, InputInv, ClientInv, Between, At
<1>5. file'.written = TRUE => PostOK(file.post, file.test, file.by)'
  BY <1>1 DEF Inv, RecordsInv, PostOK
<1>6. ASSUME mode = "fill"
      PROVE  /\ PostOK(results, filler, cmd)'
             /\ \A f \in DOMAIN results' : IsSequence(results'[f])
  <2> DEFINE h == First(forks)
             old == ResultsOf(h)
  <2>1. results' = [f \in DOMAIN results \cup {h} |->
                       IF f = h THEN Append(old, Result) ELSE results[f]]
    BY <1>6 DEF JudgePasses
  <2>2. IsSequence(old) /\ \A i \in DOMAIN old : RecordOK(RecordOf(h, filler, cmd, old[i]))
    <3>1. CASE h \in DOMAIN results
      BY <1>6, <3>1 DEF ResultsOf, Inv, RecordsInv, PostOK
    <3>2. CASE h \notin DOMAIN results
      <4>1. old = << >> /\ DOMAIN old = {} /\ old \in Seq({})
        BY <3>2 DEF ResultsOf
      <4> QED BY <4>1 DEF IsSequence
    <3> QED BY <3>1, <3>2
  <2>3. RecordOK(RecordOf(h, filler, cmd, Result))
    BY <1>1, <1>6, ResultOK
  <2> HIDE DEF old, h
  <2>4. /\ IsSequence(Append(old, Result))
        /\ \A i \in DOMAIN Append(old, Result) :
              RecordOK(RecordOf(h, filler, cmd, Append(old, Result)[i]))
    BY <2>2, <2>3, AppendElements
  <2>5. DOMAIN results' = DOMAIN results \cup {h}
    BY <2>1
  <2>6. ASSUME NEW f \in DOMAIN results'
        PROVE  /\ IsSequence(results'[f])
               /\ \A i \in DOMAIN results'[f] : RecordOK(RecordOf(f, filler, cmd, results'[f][i]))
    <3>1. CASE f = h
      <4>1. results'[f] = Append(old, Result)
        BY <2>1, <2>5, <3>1
      <4> QED BY <2>4, <3>1, <4>1
    <3>2. CASE f # h
      <4>1. f \in DOMAIN results /\ results'[f] = results[f]
        BY <2>1, <2>5, <3>2
      <4> QED BY <1>6, <4>1 DEF Inv, RecordsInv, PostOK
    <3> QED BY <3>1, <3>2
  <2> QED BY <1>1, <2>6 DEF PostOK
<1>7. ASSUME mode = "chain", NEW c \in chainTests'
      PROVE  RecordOK(ChainRecordOf(filler, cmd, c))
  <2>1. c \in chainTests \/ c = ChainTest
    BY <1>7 DEF JudgePasses
  <2>2. CASE c \in chainTests
    BY <1>7, <2>2 DEF Inv, RecordsInv
  <2>3. CASE c = ChainTest
    BY <1>1, <1>7, <2>3, ChainTestOK
  <2> QED BY <2>1, <2>2, <2>3
<1>8. RecordsInv'
  BY <1>1, <1>5, <1>6, <1>7 DEF RecordsInv
<1> QED BY <1>4, <1>8 DEF Inv

\* The file takes over what was filled.
LEMMA WriteInv ==
    ASSUME Inv, WriteFile
    PROVE  Inv'
<1>1. /\ filler' = filler /\ cmd' = cmd /\ mode = "fill" /\ filler \in Fillers
      /\ file'.written = TRUE /\ file'.post = results /\ file'.test = filler /\ file'.by = cmd
  BY DEF WriteFile, Inv, InputInv
<1>2. PostOK(file.post, file.test, file.by)'
  <2>1. PostOK(results, filler, cmd)
    BY <1>1 DEF Inv, RecordsInv
  <2> QED BY <1>1, <2>1 DEF PostOK
<1>3. CASE NewRunner("run", DOMAIN results)
  <2>1. InputInv'
    BY <1>1, <1>3 DEF InputInv, NewRunner, At
  <2> QED BY <1>2, <1>3, <2>1, NewRunnerInv
<1>4. CASE mode' = "idle"
  <2>1. InputInv' /\ ClientInv' /\ PreInv'
    BY <1>1, <1>4 DEF InputInv, ClientInv, PreInv, Between, At
  <2>2. RecordsInv'
    BY <1>2, <1>4 DEF RecordsInv
  <2> QED BY <2>1, <2>2 DEF Inv
<1> QED BY <1>3, <1>4 DEF WriteFile

-----------------------------------------------------------------------------
(* The theorems *)

LEMMA NextInv == Inv /\ [Next]_vars => Inv'
<1> SUFFICES ASSUME Inv, [Next]_vars PROVE Inv'
  OBVIOUS
<1>1. ASSUME NEW f \in Fillers, EditFiller(f)
      PROVE  Inv'
  <2>1. mode' = "idle" /\ filler' \in Fillers /\ UNCHANGED file
    BY <1>1 DEF EditFiller, loop
  <2> QED BY <2>1, IdleInv
<1>2. CASE SkipFork \/ EndFork
  <2>1. /\ UNCHANGED <<disk, mode, client, mined, made>> /\ step' = "forks"
    BY <1>2 DEF SkipFork, EndFork, Chains, At
  <2> QED BY <2>1, QuietInv
<1>3. CASE SkipSection \/ BeginSection \/ EndSection \/ SkipTransaction \/ PassTransaction
  <2>1. /\ UNCHANGED <<disk, mode, client, mined, made>> /\ step' \in {"sections", "txs"}
        /\ mode # "idle" /\ step \in {"sections", "txs"} /\ forks' = forks
    BY <1>3 DEF SkipSection, BeginSection, EndSection, SkipTransaction, PassTransaction, Chains, At
  <2>2. mode # "chain" => Between
    BY <2>1 DEF Between, Inv, InputInv
  <2> QED BY <2>1, <2>2, QuietInv
<1>4. CASE SectionNamesNone \/ RefuseEmptyAccount \/ JudgeFails \/ NothingExecuted
  BY <1>4, FailInv DEF SectionNamesNone, RefuseEmptyAccount, JudgeFails, NothingExecuted
<1>5. CASE EndLoop
  <2>1. CASE mode = "fill"
    BY <1>5, <2>1, QuietInv DEF EndLoop, Chains
  <2>2. CASE mode # "fill"
    <3>1. mode' = "idle" /\ filler' = filler /\ UNCHANGED file
      BY <1>5, <2>2 DEF EndLoop, disk
    <3> QED BY <3>1, IdleInv DEF Inv, InputInv
  <2> QED BY <2>1, <2>2
<1>6. CASE UNCHANGED vars
  BY <1>6 DEF vars, disk, loop, marks, made, Inv, InputInv, ClientInv, PreInv, RecordsInv, PostOK,
              Between, At, Test
<1> QED BY <1>1, <1>2, <1>3, <1>4, <1>5, <1>6, CommandInv, BeginForkInv, SendInv, MineInv,
           JudgeInv, WriteInv DEF Next, Loop

\* Where the client is at each step of the loop, and what was written so far.
THEOREM StateTestInvariant == Spec => []Inv
<1> QED BY InitInv, NextInv, PTL DEF Spec

\* For any filler and any sequence of commands: the state written of a
\* transaction comes from one block on the genesis of its own fork, with the pre
\* state of the test, the fee and the excess blob gas of the environment, and no
\* other transaction.
THEOREM EachExecutedAlone == Spec => []ExecutedAlone
<1> QED BY StateTestInvariant, InvImplies, PTL

\* A transaction that passes was executed unless an exception is expected of it,
\* and not executed if one is and the client says what it rejects.
THEOREM EachJudgedRight == Spec => []JudgedRight
<1> QED BY StateTestInvariant, InvImplies, PTL

-----------------------------------------------------------------------------
(* The loop, and what it leaves in the file *)

\* The steps in which a fork, a section, a transaction is being tested.
InFork == mode # "idle" /\ step \in {"sections", "txs", "sent", "mined"}
InSection == mode # "idle" /\ step \in {"txs", "sent", "mined"}

\* All sections of the fork that is being tested, and the place of the first
\* that is left.
Whole == SectionsOf(First(forks))
Place == Len(Whole) - Len(sections) + 1

LoopInv ==
    /\ step \in {"forks", "sections", "txs", "sent", "mined", "end"}
    /\ forks \subseteq Fork
    /\ mode \in {"fill", "chain"} => forks \subseteq ForksOf(filler)
    /\ mode = "run" => forks \subseteq DOMAIN file.post
    /\ InFork => /\ forks # {} /\ Place \in 1 .. Len(Whole) + 1
                 /\ sections = SubSeq(Whole, Place, Len(Whole))
    /\ InSection => /\ sections # << >> /\ HasFork(Head(sections), First(forks))
                    /\ txs \in Seq(TransactionsOf(Test)) /\ IsInjective(txs)
    /\ InSection /\ step # "txs" => Named /\ Allows(Head(txs))
    /\ At("end") => forks = {}

\* The transaction has been gone through for a section of a fork.
Done(f, i, t) ==
    \/ f \notin forks
    \/ /\ f = First(forks) /\ InFork
       /\ i < Place \/ (i = Place /\ step # "sections" /\ t \notin ToSet(txs))

\* The chain a transaction is executed on.
ChainFor(test, fork, t) == SendRaw(NewChain(fork, test.pre, test.env), t)

ReasonFor(test, fork, t) ==
    LET rejected == Rejected(ChainFor(test, fork, t))
    IN IF t \in DOMAIN rejected THEN rejected[t] ELSE ""

\* The client has the chain the test asks for, and nothing else.
ExactInv ==
    mode \in {"fill", "run"} =>
        /\ step \in {"sections", "txs"} => client = NewChain(First(forks), Test.pre, Test.env)
        /\ step = "sent" => client = ChainFor(Test, First(forks), Head(txs))
        /\ step = "mined" => /\ client = Mined(ChainFor(Test, First(forks), Head(txs)))
                             /\ mined = Rejected(ChainFor(Test, First(forks), Head(txs)))

\* A result is of one transaction, and says what comes out on a chain of its own.
EntryOK(fork, test, by, e) ==
    \E t \in TransactionsOf(test) :
        /\ e.txs = {t}
        /\ e.root = Root(Mined(ChainFor(test, fork, t)))
        /\ by.reports => ExceptionOf(e, fork) = ReasonFor(test, fork, t)
        /\ ExceptionOf(e, fork) = "" => t \in Last(Mined(ChainFor(test, fork, t)).blocks).txs

EntriesOK(post, test, by) ==
    \A f \in DOMAIN post :
        /\ f \in Fork /\ IsSequence(post[f])
        /\ \A k \in DOMAIN post[f] : EntryOK(f, test, by, post[f][k])

\* There is a result of the transaction.
HasResult(post, f, t) == f \in DOMAIN post /\ \E k \in DOMAIN post[f] : post[f][k].txs = {t}

\* A result comes from a section that names its transaction, and has its exception.
FromSection(f, e) ==
    \E i \in DOMAIN filler.expects, t \in TransactionsOf(filler) :
        /\ e.txs = {t} /\ f \in filler.expects[i].forks /\ t \in filler.expects[i].txs
        /\ ExceptionOf(e, f) = ExceptionOf(filler.expects[i], f)
        /\ Done(f, i, t)

ResultsInv ==
    /\ EntriesOK(results, filler, cmd)
    /\ \A f \in DOMAIN results : \A k \in DOMAIN results[f] : FromSection(f, results[f][k])
    /\ \A f \in DOMAIN results : \A k, l \in DOMAIN results[f] :
          results[f][k].txs = results[f][l].txs => k = l
    /\ \A f \in ForksOf(filler) \cap cmd.nets, i \in DOMAIN filler.expects :
          f \in filler.expects[i].forks =>
             \A t \in filler.expects[i].txs \cap TransactionsOf(filler) \cap cmd.txs :
                Done(f, i, t) => HasResult(results, f, t)

\* Without a filter on transactions and forks nothing would be skipped.
Filtered(f, t) == t \notin cmd.txs \/ f \notin cmd.nets

Covered == TransactionsOf(filler) \subseteq executed \cup skipped

\* The marks of a loop that fills: what was executed has a result, and skipped is
\* what a filter keeps out.
MarksInv ==
    /\ \A t \in executed : \E f \in DOMAIN results : HasResult(results, f, t)
    /\ \A f \in DOMAIN results : \A k \in DOMAIN results[f] : results[f][k].txs \subseteq executed
    /\ InFork => First(forks) \in cmd.nets
    /\ ForksOf(filler) \subseteq cmd.nets => skipped \cap cmd.txs = {}
    /\ \A f, i, t : /\ i \in DOMAIN filler.expects /\ f \in filler.expects[i].forks
                    /\ t \in TransactionsOf(filler) /\ Filtered(f, t) /\ Done(f, i, t)
                    => t \in skipped
    /\ errors = {} <=> (At("end") => Covered)
    /\ At("end") => executed # {}

FileInv ==
    file.written = TRUE =>
        /\ EntriesOK(file.post, file.test, file.by)
        /\ NothingMissed
        /\ UncoveredIsMarked
        /\ \E f \in DOMAIN file.post : DOMAIN file.post[f] # {}

\* The loop has to mark the transaction when it goes through a result.
Owed(f, k, t) == file.post[f][k].txs = {t} \/ ~ Allows(t)

\* The marks of a loop that runs: what the results behind it name, and what the
\* filter keeps out.
RunInv ==
    /\ \A f \in DOMAIN file.post : \A k \in DOMAIN file.post[f], t \in TransactionsOf(file.test) :
          Owed(f, k, t) /\ Done(f, k, t) => t \in executed \cup skipped
    /\ step = "txs" => found \/ ToSet(txs) \cap Head(sections).txs # {}
    /\ step \in {"sent", "mined"} => found

FilledInv ==
    /\ LoopInv /\ ExactInv /\ FileInv
    /\ mode \in {"fill", "chain"} => ~ IsRedundant(filler)
    /\ mode = "fill" => ResultsInv /\ MarksInv
    /\ mode = "run" => RunInv

-----------------------------------------------------------------------------
(* Forks, sections and transactions *)

\* The least of a set of naturals exists.
LEMMA LeastNatural ==
    ASSUME NEW S, S \subseteq Nat, S # {}
    PROVE  \E m \in S : \A n \in S : m <= n
<1>1. PICK m \in S : \A n \in S : ~ (<<n, m>> \in OpToRel(<, Nat))
  BY NatLessThanWellFounded, WFMin
<1>2. \A n \in S : <<n, m>> \in OpToRel(<, Nat) <=> n < m
  BY DEF OpToRel
<1>3. \A n \in S : n \in Nat /\ m \in Nat /\ ~ (n < m)
  BY <1>1, <1>2
<1>4. \A n \in S : m <= n
  BY <1>3
<1>5. QED BY <1>4

\* The order of names has a first in every set of forks.
LEMMA FirstIsLeast ==
    ASSUME NEW S, S \subseteq Fork, S # {}
    PROVE  First(S) \in S /\ \A g \in S : ForkRank[First(S)] <= ForkRank[g]
<1> DEFINE ranks == {ForkRank[f] : f \in S}
<1>1. ranks \subseteq Nat /\ ranks # {}
  BY StateTestAssumption
<1>2. PICK m \in ranks : \A n \in ranks : m <= n
  BY <1>1, LeastNatural
<1>3. PICK f \in S : m = ForkRank[f]
  OBVIOUS
<1>4. \A g \in S : ForkRank[f] <= ForkRank[g]
  BY <1>2, <1>3
<1> QED BY <1>4 DEF First

\* So it is one of them.
LEMMA FirstIn ==
    ASSUME NEW S, S \subseteq Fork, S # {}
    PROVE  First(S) \in S
BY FirstIsLeast

\* What is left of a sequence, from one place on.
SuffixOf(W, p, s) ==
    /\ Len(W) \in Nat /\ DOMAIN W = 1 .. Len(W) /\ Len(s) = Len(W) - p + 1
    /\ s = << >> <=> p = Len(W) + 1
    /\ s # << >> => /\ p \in DOMAIN W /\ Head(s) = W[p]
                    /\ Tail(s) = SubSeq(W, p + 1, Len(W))
                    /\ Len(W) - Len(Tail(s)) + 1 = p + 1
    /\ SubSeq(W, 1, Len(W)) = W

LEMMA Suffix ==
    ASSUME NEW W, IsSequence(W), NEW p \in 1 .. Len(W) + 1, NEW s, s = SubSeq(W, p, Len(W))
    PROVE  SuffixOf(W, p, s)
<1>1. PICK S : W \in Seq(S)
  BY DEF IsSequence
<1>2. Len(W) \in Nat /\ DOMAIN W = 1 .. Len(W) /\ SubSeq(W, 1, Len(W)) = W
  BY <1>1, LenProperties, SubSeqFull
<1>3. s \in Seq(S) /\ Len(s) = Len(W) - p + 1
  <2>1. \A i \in p .. Len(W) : W[i] \in S
    BY <1>1, <1>2, ElementOfSeq
  <2>2. /\ SubSeq(W, p, Len(W)) \in Seq(S)
        /\ Len(SubSeq(W, p, Len(W))) = IF p <= Len(W) THEN Len(W) - p + 1 ELSE 0
    BY <1>2, <2>1, SubSeqProperties
  <2> QED BY <1>2, <2>2
<1>4. s = << >> <=> p = Len(W) + 1
  <2>1. s = << >> <=> Len(s) = 0
    BY <1>3, EmptySeq
  <2> QED BY <1>2, <1>3, <2>1
<1>5. ASSUME s # << >>
      PROVE  /\ p \in DOMAIN W /\ Head(s) = W[p]
             /\ Tail(s) = SubSeq(W, p + 1, Len(W))
             /\ Len(W) - Len(Tail(s)) + 1 = p + 1
  <2>1. p \in 1 .. Len(W) /\ Len(W) \in p .. Len(W)
    BY <1>2, <1>4, <1>5
  <2>2. Head(s) = W[p] /\ Tail(s) = SubSeq(W, p + 1, Len(W))
    BY <1>1, <2>1, HeadTailOfSubSeq
  <2>3. Len(Tail(s)) = Len(s) - 1
    BY <1>3, <1>5, HeadTailProperties
  <2>4. Len(W) - Len(Tail(s)) + 1 = p + 1
    <3> DEFINE w == Len(W)
               n == Len(s)
               m == Len(Tail(s))
    <3>1. w \in Nat /\ p \in 1 .. w /\ n = w - p + 1 /\ m = n - 1
      BY <1>2, <1>3, <2>1, <2>3
    <3> HIDE DEF w, n, m
    <3>2. w - m + 1 = p + 1
      BY <3>1
    <3> QED BY <3>2 DEF w, m
  <2> QED BY <1>2, <2>1, <2>2, <2>4
<1> QED BY <1>2, <1>3, <1>4, <1>5 DEF SuffixOf

\* The first of a list without repetitions is not in the rest.
LEMMA HeadAndTail ==
    ASSUME NEW S, NEW s \in Seq(S), IsInjective(s), s # << >>
    PROVE  /\ Head(s) \in S /\ Tail(s) \in Seq(S) /\ IsInjective(Tail(s))
           /\ Head(s) \notin ToSet(Tail(s)) /\ ToSet(s) = {Head(s)} \cup ToSet(Tail(s))
<1>1. /\ Len(s) \in Nat \ {0} /\ DOMAIN s = 1 .. Len(s) /\ Head(s) = s[1]
  BY EmptySeq, LenProperties
<1>2. /\ Head(s) \in S /\ Tail(s) \in Seq(S) /\ Len(Tail(s)) = Len(s) - 1
      /\ \A i \in 1 .. Len(Tail(s)) : Tail(s)[i] = s[i + 1]
  BY HeadTailProperties
<1>3. DOMAIN Tail(s) = 1 .. Len(s) - 1
  BY <1>2, LenProperties
<1>4. \A i \in DOMAIN Tail(s) : i + 1 \in DOMAIN s /\ i + 1 # 1 /\ Tail(s)[i] = s[i + 1]
  BY <1>1, <1>2, <1>3
<1>5. \A a, b \in DOMAIN s : s[a] = s[b] => a = b
  BY DEF IsInjective
<1>6. IsInjective(Tail(s))
  <2> SUFFICES ASSUME NEW a \in DOMAIN Tail(s), NEW b \in DOMAIN Tail(s), Tail(s)[a] = Tail(s)[b]
               PROVE  a = b
    BY DEF IsInjective
  <2>1. a + 1 = b + 1
    BY <1>4, <1>5
  <2> QED BY <1>3, <2>1
<1>7. Head(s) \notin ToSet(Tail(s))
  BY <1>1, <1>4, <1>5 DEF ToSet
<1>8. ToSet(s) = {Head(s)} \cup ToSet(Tail(s))
  <2>1. ASSUME NEW x \in ToSet(s) PROVE x = Head(s) \/ x \in ToSet(Tail(s))
    <3>1. PICK i \in DOMAIN s : x = s[i]
      BY DEF ToSet
    <3>2. i = 1 \/ (i - 1 \in DOMAIN Tail(s) /\ (i - 1) + 1 = i)
      BY <1>1, <1>3
    <3>3. CASE i = 1
      BY <1>1, <3>1, <3>3
    <3>4. CASE i - 1 \in DOMAIN Tail(s) /\ (i - 1) + 1 = i
      <4>1. Tail(s)[i - 1] = x
        BY <1>4, <3>1, <3>4
      <4> QED BY <3>4, <4>1 DEF ToSet
    <3> QED BY <3>2, <3>3, <3>4
  <2>2. ToSet(Tail(s)) \subseteq ToSet(s)
    BY <1>4 DEF ToSet
  <2>3. Head(s) \in ToSet(s)
    BY <1>1 DEF ToSet
  <2> QED BY <2>1, <2>2, <2>3
<1> QED BY <1>2, <1>6, <1>7, <1>8

LEMMA OfItsSet ==
    ASSUME NEW S, NEW s \in Seq(S)
    PROVE  s \in Seq(ToSet(s)) /\ ToSet(s) \subseteq S /\ (ToSet(s) = {} <=> s = << >>)
<1>1. Len(s) \in Nat /\ DOMAIN s = 1 .. Len(s) /\ s \in [1 .. Len(s) -> S]
  BY LenProperties
<1>2. ToSet(s) \subseteq S
  BY <1>1 DEF ToSet
<1>3. s \in [1 .. Len(s) -> ToSet(s)]
  BY <1>1 DEF ToSet
<1>4. s \in Seq(ToSet(s))
  BY <1>1, <1>3
<1>5. ToSet(s) = {} <=> s = << >>
  <2>1. s # << >> => 1 \in DOMAIN s
    BY <1>1, EmptySeq
  <2> QED BY <2>1 DEF ToSet
<1> QED BY <1>2, <1>4, <1>5

-----------------------------------------------------------------------------
(* The place in the loop *)

LEMMA TestIsFiller ==
    ASSUME InputInv
    PROVE  /\ Test \in Fillers /\ Test.txs \in Seq(Tx) /\ IsInjective(Test.txs)
           /\ Test.txs \in Seq(TransactionsOf(Test)) /\ TransactionsOf(Test) \subseteq Tx
           /\ filler.expects \in Seq(ExpectSections)
           /\ ForksOf(filler) \subseteq Fork
<1>1. Test \in Fillers /\ filler \in Fillers
  BY DEF InputInv, Test
<1>2. /\ Test.txs \in Seq(Tx) /\ IsInjective(Test.txs) /\ filler.expects \in Seq(ExpectSections)
  BY <1>1, TestAssumption
<1>3. Test.txs \in Seq(TransactionsOf(Test)) /\ TransactionsOf(Test) \subseteq Tx
  BY <1>2, OfItsSet DEF TransactionsOf
<1>4. ForksOf(filler) \subseteq Fork
  <2> SUFFICES ASSUME NEW i \in DOMAIN filler.expects PROVE filler.expects[i].forks \subseteq Fork
    BY DEF ForksOf
  <2>1. filler.expects[i] \in ExpectSections
    BY <1>2, LenProperties, ElementOfSeq
  <2> QED BY <2>1 DEF ExpectSections
<1> QED BY <1>1, <1>2, <1>3, <1>4

\* The sections that are left are those from Place on.
LEMMA AtPlace ==
    ASSUME InputInv, LoopInv, FileInv, mode # "idle", forks # {}
    PROVE  /\ First(forks) \in forks /\ First(forks) \in Fork
           /\ IsSequence(Whole) /\ Len(Whole) \in Nat /\ DOMAIN Whole = 1 .. Len(Whole)
           /\ SubSeq(Whole, 1, Len(Whole)) = Whole
           /\ InFork =>
                 /\ Place \in 1 .. Len(Whole) + 1 /\ Len(sections) = Len(Whole) - Place + 1
                 /\ sections = << >> <=> Place = Len(Whole) + 1
                 /\ sections # << >> =>
                       /\ Place \in DOMAIN Whole /\ Head(sections) = Whole[Place]
                       /\ Tail(sections) = SubSeq(Whole, Place + 1, Len(Whole))
                       /\ Len(Whole) - Len(Tail(sections)) + 1 = Place + 1
<1>1. First(forks) \in forks /\ First(forks) \in Fork
  BY FirstIn DEF LoopInv
<1>2. IsSequence(Whole)
  <2>1. CASE mode = "run"
    BY <1>1, <2>1 DEF InputInv, LoopInv, FileInv, EntriesOK, Whole, SectionsOf
  <2>2. CASE mode # "run"
    BY <2>2, TestIsFiller DEF Whole, SectionsOf, IsSequence
  <2> QED BY <2>1, <2>2
<1>3. Len(Whole) \in Nat /\ DOMAIN Whole = 1 .. Len(Whole)
  BY <1>2, LenProperties DEF IsSequence
<1>4. SubSeq(Whole, 1, Len(Whole)) = Whole
  BY <1>2, SubSeqFull DEF IsSequence
<1>5. ASSUME InFork
      PROVE  /\ Place \in 1 .. Len(Whole) + 1 /\ Len(sections) = Len(Whole) - Place + 1
             /\ sections = << >> <=> Place = Len(Whole) + 1
             /\ sections # << >> =>
                   /\ Place \in DOMAIN Whole /\ Head(sections) = Whole[Place]
                   /\ Tail(sections) = SubSeq(Whole, Place + 1, Len(Whole))
                   /\ Len(Whole) - Len(Tail(sections)) + 1 = Place + 1
  <2> DEFINE W == Whole
             p == Place
  <2>1. p \in 1 .. Len(W) + 1 /\ sections = SubSeq(W, p, Len(W))
    BY <1>5 DEF LoopInv
  <2>2. IsSequence(W) /\ Len(W) \in Nat
    BY <1>2, <1>3
  <2> HIDE DEF W, p
  <2>3. SuffixOf(W, p, sections)
    BY <2>1, <2>2, Suffix
  <2>4. /\ Len(sections) = Len(W) - p + 1
        /\ sections = << >> <=> p = Len(W) + 1
        /\ sections # << >> => /\ p \in DOMAIN W /\ Head(sections) = W[p]
                               /\ Tail(sections) = SubSeq(W, p + 1, Len(W))
                               /\ Len(W) - Len(Tail(sections)) + 1 = p + 1
    BY <2>3 DEF SuffixOf
  <2> QED BY <2>1, <2>4 DEF W, p
<1> QED BY <1>1, <1>2, <1>3, <1>4, <1>5

\* The transaction that is being tested.
LEMMA AtTransaction ==
    ASSUME InputInv, LoopInv, InSection, txs # << >>
    PROVE  /\ Head(txs) \in TransactionsOf(Test) /\ Head(txs) \in Tx
           /\ Tail(txs) \in Seq(TransactionsOf(Test)) /\ IsInjective(Tail(txs))
           /\ Head(txs) \notin ToSet(Tail(txs)) /\ ToSet(txs) = {Head(txs)} \cup ToSet(Tail(txs))
<1>1. txs \in Seq(TransactionsOf(Test)) /\ IsInjective(txs)
  BY DEF LoopInv
<1>2. TransactionsOf(Test) \subseteq Tx
  BY TestIsFiller
<1> QED BY <1>1, <1>2, HeadAndTail

-----------------------------------------------------------------------------
(* What each step gets done *)

\* What none of the steps of the loop changes.
Stays == UNCHANGED <<disk, mode>>

LEMMA WholeStays ==
    ASSUME Stays
    PROVE  /\ \A f : SectionsOf(f)' = SectionsOf(f)
           /\ Test' = Test /\ (forks' = forks => Whole' = Whole)
           /\ filler' = filler /\ file' = file /\ cmd' = cmd /\ mode' = mode
BY DEF Stays, disk, SectionsOf, Test, Whole

\* The fork is left behind, with all its sections.
LEMMA DoneFork ==
    ASSUME step' = "forks", forks' = forks \ {First(forks)}, NEW f, NEW i, NEW t
    PROVE  Done(f, i, t)' <=> f \notin forks \/ f = First(forks)
BY DEF Done, InFork

\* A new fork has nothing done.
LEMMA DoneNone ==
    ASSUME InputInv, LoopInv, FileInv, At("forks"), forks # {},
           Stays, forks' = forks, step' = "sections", sections' = Whole,
           NEW f, NEW i \in Nat \ {0}, NEW t
    PROVE  Done(f, i, t)' <=> Done(f, i, t)
<1>1. Whole' = Whole /\ Len(Whole) \in Nat
  BY WholeStays, AtPlace DEF At
<1>2. Place' = 1
  BY <1>1 DEF Place
<1>3. ~ (i < Place')
  BY <1>2
<1> QED BY <1>3 DEF Done, InFork, At

\* The next section.
LEMMA DoneSection ==
    ASSUME InputInv, LoopInv, FileInv, mode # "idle", sections # << >>,
           step = "sections" \/ (step = "txs" /\ txs = << >>),
           Stays, forks' = forks, step' = "sections", sections' = Tail(sections),
           NEW f, NEW i \in Nat, NEW t
    PROVE  /\ Place' = Place + 1 /\ Place \in DOMAIN Whole
           /\ Done(f, i, t)' <=> Done(f, i, t) \/ (f = First(forks) /\ i = Place)
<1>1. InFork /\ forks # {}
  BY DEF InFork, LoopInv
<1>2. Whole' = Whole
  BY WholeStays
<1>3. /\ Place \in DOMAIN Whole /\ DOMAIN Whole = 1 .. Len(Whole) /\ Len(Whole) \in Nat
      /\ Len(Whole) - Len(Tail(sections)) + 1 = Place + 1
      /\ First(forks) \in forks
  BY <1>1, AtPlace DEF InFork
<1>4. Place' = Place + 1
  BY <1>2, <1>3 DEF Place
<1>5. i < Place' <=> i < Place \/ i = Place
  BY <1>3, <1>4
<1>6. step = "txs" => t \notin ToSet(txs)
  BY DEF ToSet
<1>7. Done(f, i, t)' <=> f \notin forks \/ (f = First(forks) /\ i < Place')
  BY DEF Done, InFork, Stays
<1>8. Done(f, i, t) <=> \/ f \notin forks
                        \/ f = First(forks) /\ (i < Place \/ (i = Place /\ step = "txs"))
  BY <1>1, <1>6 DEF Done, InFork
<1>9. CASE step = "sections"
  BY <1>1, <1>3, <1>4, <1>5, <1>7, <1>8, <1>9
<1>10. CASE step = "txs"
  BY <1>1, <1>3, <1>4, <1>5, <1>7, <1>8, <1>10
<1> QED BY <1>9, <1>10

\* The transactions that are taken off the list.
LEMMA DoneTransactions ==
    ASSUME InputInv, LoopInv, InFork, Stays, forks' = forks, sections' = sections,
           step' \in {"txs", "sent", "mined"}, NEW f, NEW i, NEW t
    PROVE  /\ Place' = Place
           /\ Done(f, i, t)' <=>
                 \/ f \notin forks
                 \/ f = First(forks) /\ (i < Place \/ (i = Place /\ t \notin ToSet(txs')))
<1>1. Whole' = Whole
  BY WholeStays
<1>2. Place' = Place
  BY <1>1 DEF Place
<1>3. InFork' /\ step' # "sections"
  BY DEF InFork, Stays
<1> QED BY <1>2, <1>3 DEF Done

-----------------------------------------------------------------------------
(* LoopInv *)

LEMMA IdleLoop ==
    ASSUME LoopInv, mode' = "idle", step' = step, forks' = forks
    PROVE  LoopInv'
BY DEF LoopInv, InFork, InSection, At

LEMMA NewRunnerLoop ==
    ASSUME NEW m, NEW S, S \subseteq Fork, NewRunner(m, S),
           m \in {"fill", "chain"} => S \subseteq ForksOf(filler'),
           m = "run" => S \subseteq DOMAIN file'.post
    PROVE  LoopInv'
<1>1. /\ mode' = m /\ step' = "forks" /\ forks' = S
  BY DEF NewRunner
<1>2. ~ InFork' /\ ~ InSection' /\ ~ At("end")'
  BY <1>1 DEF InFork, InSection, At
<1>3. m \in {"fill", "chain"} => forks' \subseteq ForksOf(filler)'
  BY <1>1 DEF ForksOf
<1> QED BY <1>1, <1>2, <1>3 DEF LoopInv

LEMMA ForkLoop ==
    ASSUME LoopInv, SkipFork \/ EndFork
    PROVE  LoopInv'
<1>1. /\ Stays /\ forks' = forks \ {First(forks)} /\ step' = "forks"
  BY DEF SkipFork, EndFork, At, Stays
<1>2. filler' = filler /\ file' = file /\ mode' = mode
  BY <1>1, WholeStays
<1>3. ~ InFork' /\ ~ InSection' /\ ~ At("end")'
  BY <1>1 DEF InFork, InSection, At
<1> QED BY <1>1, <1>2, <1>3 DEF LoopInv, ForksOf

LEMMA BeginForkLoop ==
    ASSUME InputInv, LoopInv, FileInv, BeginFork
    PROVE  LoopInv'
<1>1. /\ Stays /\ mode # "idle" /\ forks # {} /\ forks' = forks /\ step' = "sections"
      /\ sections' = Whole
  BY DEF BeginFork, At, Stays, Whole
<1>2. /\ Whole' = Whole /\ filler' = filler /\ file' = file /\ mode' = mode
  BY <1>1, WholeStays
<1>3. /\ Len(Whole) \in Nat /\ SubSeq(Whole, 1, Len(Whole)) = Whole
  BY <1>1, AtPlace
<1>4. Place' = 1
  BY <1>1, <1>2, <1>3 DEF Place
<1>5. sections' = SubSeq(Whole', Place', Len(Whole'))
  BY <1>1, <1>2, <1>3, <1>4
<1>6. Place' \in 1 .. Len(Whole') + 1
  BY <1>2, <1>3, <1>4
<1>7. ~ InSection' /\ ~ At("end")'
  BY <1>1 DEF InSection, At
<1> QED BY <1>1, <1>2, <1>5, <1>6, <1>7 DEF LoopInv, ForksOf

LEMMA SectionLoop ==
    ASSUME InputInv, LoopInv, FileInv, SkipSection \/ EndSection
    PROVE  LoopInv'
<1>1. /\ Stays /\ mode # "idle" /\ forks' = forks /\ step' = "sections"
      /\ step = "sections" \/ (step = "txs" /\ txs = << >>)
      /\ sections # << >> /\ sections' = Tail(sections)
  BY DEF SkipSection, EndSection, At, Stays, LoopInv, InSection
<1>2. /\ Whole' = Whole /\ filler' = filler /\ file' = file /\ mode' = mode
  BY <1>1, WholeStays
<1>3. InFork /\ forks # {}
  BY <1>1 DEF InFork, LoopInv
<1>4. /\ Len(Whole) \in Nat /\ Place \in DOMAIN Whole /\ DOMAIN Whole = 1 .. Len(Whole)
      /\ Tail(sections) = SubSeq(Whole, Place + 1, Len(Whole))
      /\ Len(Whole) - Len(Tail(sections)) + 1 = Place + 1
  BY <1>1, <1>3, AtPlace
<1>5. Place' = Place + 1
  BY <1>1, <1>2, <1>4 DEF Place
<1>6. Place' \in 1 .. Len(Whole') + 1 /\ sections' = SubSeq(Whole', Place', Len(Whole'))
  BY <1>1, <1>2, <1>4, <1>5
<1>7. ~ InSection' /\ ~ At("end")'
  BY <1>1 DEF InSection, At
<1> QED BY <1>1, <1>2, <1>3, <1>6, <1>7 DEF LoopInv, ForksOf

LEMMA TransactionLoop ==
    ASSUME InputInv, LoopInv,
           InFork, Stays, forks' = forks, sections' = sections,
           step' \in {"txs", "sent", "mined"},
           sections # << >>, HasFork(Head(sections), First(forks)),
           txs' \in Seq(TransactionsOf(Test)), IsInjective(txs'),
           step' # "txs" => Named' /\ Allows(Head(txs'))
    PROVE  LoopInv'
<1>1. /\ Whole' = Whole /\ Test' = Test /\ filler' = filler /\ file' = file /\ mode' = mode
      /\ cmd' = cmd
  BY WholeStays DEF Stays, disk
<1>2. Place' = Place
  BY <1>1 DEF Place
<1>3. /\ forks' # {} /\ Place' \in 1 .. Len(Whole') + 1
      /\ sections' = SubSeq(Whole', Place', Len(Whole'))
  BY <1>1, <1>2 DEF LoopInv
<1>4. HasFork(Head(sections), First(forks))'
  BY <1>1 DEF HasFork
<1>5. (txs \in Seq(TransactionsOf(Test)))' /\ IsInjective(txs)'
  BY <1>1 DEF TransactionsOf, IsInjective
<1>6. step' # "txs" => Allows(Head(txs))'
  BY <1>1 DEF Allows
<1>7. ~ At("end")'
  BY DEF At
<1> QED BY <1>1, <1>3, <1>4, <1>5, <1>6, <1>7 DEF LoopInv, ForksOf

LEMMA WithinLoop ==
    ASSUME InputInv, LoopInv,
           BeginSection \/ SkipTransaction \/ PassTransaction \/ SendTransaction \/ MineBlock \/ JudgePasses
    PROVE  LoopInv'
<1>1. /\ InFork /\ Stays /\ forks' = forks /\ sections' = sections
      /\ step' \in {"txs", "sent", "mined"}
  BY DEF BeginSection, SkipTransaction, PassTransaction, SendTransaction, MineBlock, JudgePasses,
         Stays, At, InFork
<1>2. sections # << >> /\ HasFork(Head(sections), First(forks))
  BY DEF BeginSection, SkipTransaction, PassTransaction, SendTransaction, MineBlock, JudgePasses,
         At, LoopInv, InSection
<1>3. CASE BeginSection
  <2>1. txs' = Test.txs /\ step' = "txs"
    BY <1>3 DEF BeginSection
  <2> QED BY <1>1, <1>2, <2>1, TestIsFiller, TransactionLoop
<1>4. CASE SkipTransaction \/ PassTransaction \/ JudgePasses
  <2>1. InSection /\ txs # << >> /\ txs' = Tail(txs) /\ step' = "txs"
    BY <1>4 DEF SkipTransaction, PassTransaction, JudgePasses, At, InSection, LoopInv, Named
  <2>2. txs' \in Seq(TransactionsOf(Test)) /\ IsInjective(txs')
    BY <2>1, AtTransaction
  <2> QED BY <1>1, <1>2, <2>1, <2>2, TransactionLoop
<1>5. CASE SendTransaction \/ MineBlock
  <2>1. InSection /\ txs' = txs /\ Named /\ Allows(Head(txs))
    BY <1>5 DEF SendTransaction, MineBlock, At, InSection, LoopInv
  <2>2. Named' /\ Allows(Head(txs'))
    BY <1>1, <2>1 DEF Named
  <2>3. txs' \in Seq(TransactionsOf(Test)) /\ IsInjective(txs')
    BY <2>1 DEF LoopInv
  <2> QED BY <1>1, <1>2, <2>2, <2>3, TransactionLoop
<1> QED BY <1>3, <1>4, <1>5

LEMMA EndLoopLoop ==
    ASSUME LoopInv, EndLoop
    PROVE  LoopInv'
<1>1. CASE mode = "fill"
  <2>1. /\ forks = {} /\ forks' = forks /\ step' = "end" /\ mode' = mode /\ filler' = filler
    BY <1>1 DEF EndLoop, disk
  <2>2. ~ InFork' /\ ~ InSection'
    BY <2>1 DEF InFork, InSection
  <2> QED BY <1>1, <2>1, <2>2 DEF LoopInv
<1>2. CASE mode # "fill"
  BY <1>2, IdleLoop DEF EndLoop
<1> QED BY <1>1, <1>2

-----------------------------------------------------------------------------
(* ExactInv *)

LEMMA FreshIsNew ==
    ASSUME NEW c, NEW fork, NEW env, Fresh(c, fork, env)
    PROVE  c = NewChain(fork, c.pre, env)
<1>1. PICK f, p, b, q, d : c = Chain(f, p, b, q, d)
  BY DEF Fresh, IsChain
<1>2. c.fork = f /\ c.pre = p /\ c.blocks = b /\ c.pending = q /\ c.dropped = d
  BY <1>1, ChainParts
<1>3. c = Chain(fork, c.pre, <<GenesisOf(env)>>, << >>, {})
  BY <1>1, <1>2 DEF Fresh
<1> QED BY <1>3 DEF Chain, NewChain

\* Winding back undoes the block of one transaction.
LEMMA BackToNew ==
    ASSUME NEW test, NEW fork, NEW t, EnvOK(test.env)
    PROVE  Rewound(Mined(ChainFor(test, fork, t))) = NewChain(fork, test.pre, test.env)
<1> DEFINE new == NewChain(fork, test.pre, test.env)
           sent == SendRaw(new, t)
           one == Mined(sent)
<1>1. Fresh(new, fork, test.env) /\ new.pre = test.pre
  BY NewChainFresh
<1> HIDE DEF new
<1>2. Sent(sent, fork, test.env, t) /\ sent.pre = test.pre
  BY <1>1, SendRawSent
<1> HIDE DEF sent
<1>3. OneBlock(one, fork, test.env, t, Rejected(sent)) /\ one.pre = test.pre
  BY <1>2, MinedOneBlock
<1> HIDE DEF one
<1>4. Fresh(Rewound(one), fork, test.env) /\ Rewound(one).pre = test.pre
  BY <1>3, RewoundFresh
<1>5. Rewound(one) = NewChain(fork, test.pre, test.env)
  BY <1>4, FreshIsNew
<1> QED BY <1>5 DEF one, sent, new, ChainFor

LEMMA QuietExact ==
    ASSUME ExactInv, Stays, client' = client,
           step' \in {"forks", "end"}
           \/ (step' \in {"sections", "txs"} /\ step \in {"sections", "txs"} /\ forks' = forks)
    PROVE  ExactInv'
<1>1. Test' = Test /\ mode' = mode
  BY WholeStays
<1> QED BY <1>1 DEF ExactInv

LEMMA NoneExact ==
    ASSUME mode' = "idle" \/ step' = "forks"
    PROVE  ExactInv'
BY DEF ExactInv

LEMMA ClientExact ==
    ASSUME Inv, ExactInv, BeginFork \/ SendTransaction \/ MineBlock \/ JudgePasses
    PROVE  ExactInv'
<1>1. Stays /\ forks' = forks
  BY DEF BeginFork, SendTransaction, MineBlock, JudgePasses, Stays
<1>2. Test' = Test /\ mode' = mode
  BY <1>1, WholeStays
<1> SUFFICES ASSUME mode \in {"fill", "run"}
             PROVE  ExactInv'
  BY <1>2 DEF ExactInv
<1>3. CASE BeginFork
  <2>1. step' = "sections" /\ client' = NewChain(First(forks), Test.pre, Test.env)
    BY <1>3 DEF BeginFork
  <2> QED BY <1>1, <1>2, <2>1 DEF ExactInv
<1>4. CASE SendTransaction
  <2>1. step' = "sent" /\ client' = SendRaw(client, Head(txs)) /\ step = "txs" /\ txs' = txs
    BY <1>4 DEF SendTransaction, At
  <2>2. client = NewChain(First(forks), Test.pre, Test.env)
    BY <2>1 DEF ExactInv
  <2>3. client' = ChainFor(Test, First(forks), Head(txs))
    BY <2>1, <2>2 DEF ChainFor
  <2> QED BY <1>1, <1>2, <2>1, <2>3 DEF ExactInv
<1>5. CASE MineBlock
  <2>1. /\ step' = "mined" /\ client' = Mined(client) /\ mined' = Rejected(client)
        /\ step = "sent" /\ txs' = txs
    BY <1>5 DEF MineBlock, At
  <2>2. client = ChainFor(Test, First(forks), Head(txs))
    BY <2>1 DEF ExactInv
  <2> QED BY <1>1, <1>2, <2>1, <2>2 DEF ExactInv
<1>6. CASE JudgePasses
  <2>1. step' = "txs" /\ client' = Rewound(client) /\ step = "mined"
    BY <1>6 DEF JudgePasses, At
  <2>2. client = Mined(ChainFor(Test, First(forks), Head(txs)))
    BY <2>1 DEF ExactInv
  <2>3. client' = NewChain(First(forks), Test.pre, Test.env)
    BY <2>1, <2>2, TestFits, BackToNew
  <2> QED BY <1>1, <1>2, <2>1, <2>3 DEF ExactInv
<1> QED BY <1>3, <1>4, <1>5, <1>6

-----------------------------------------------------------------------------
(* FileInv *)

LEMMA FileStays ==
    ASSUME FileInv, file' = file
    PROVE  FileInv'
<1>1. NothingMissed' <=> NothingMissed
  BY DEF NothingMissed
<1>2. UncoveredIsMarked' <=> UncoveredIsMarked
  BY DEF UncoveredIsMarked, WithoutResult
<1>3. EntriesOK(file.post, file.test, file.by)' <=> EntriesOK(file.post, file.test, file.by)
  BY DEF EntriesOK
<1> QED BY <1>1, <1>2, <1>3 DEF FileInv

\* No other section names the transaction on the fork.
LEMMA OneSection ==
    ASSUME InputInv, ~ IsRedundant(filler),
           NEW i \in DOMAIN filler.expects, NEW j \in DOMAIN filler.expects, NEW f, NEW t,
           f \in filler.expects[i].forks, f \in filler.expects[j].forks,
           t \in filler.expects[i].txs, t \in filler.expects[j].txs
    PROVE  i = j
<1>1. i \in Nat /\ j \in Nat
  BY TestIsFiller, LenProperties
<1>2. ~ (i < j) /\ ~ (j < i)
  BY DEF IsRedundant
<1> QED BY <1>1, <1>2

LEMMA WriteFileInv ==
    ASSUME InputInv, LoopInv, ~ IsRedundant(filler), ResultsInv, MarksInv, WriteFile
    PROVE  FileInv'
<1>1. /\ At("end") /\ mode = "fill" /\ forks = {}
  BY DEF WriteFile, InputInv, LoopInv
<1>2. \A f, i, t : Done(f, i, t)
  BY <1>1 DEF Done
<1>3. /\ file'.written = TRUE /\ file'.test = filler /\ file'.post = results
      /\ file'.by = cmd /\ file'.clean = (errors = {})
  BY DEF WriteFile
<1>4. EntriesOK(file.post, file.test, file.by)'
  <2>1. EntriesOK(results, filler, cmd)
    BY DEF ResultsInv
  <2> QED BY <1>3, <2>1 DEF EntriesOK
<1>5. ASSUME NEW f \in ForksOf(filler) \cap cmd.nets, NEW i \in DOMAIN filler.expects,
             f \in filler.expects[i].forks,
             NEW t \in filler.expects[i].txs \cap TransactionsOf(filler) \cap cmd.txs
      PROVE  \E k \in DOMAIN results[f] :
                /\ \A j \in DOMAIN results[f] : t \in results[f][j].txs <=> j = k
                /\ ExceptionOf(results[f][k], f) = ExceptionOf(filler.expects[i], f)
  <2>1. f \in DOMAIN results /\ \E k \in DOMAIN results[f] : results[f][k].txs = {t}
    BY <1>2, <1>5 DEF ResultsInv, HasResult
  <2>2. PICK k \in DOMAIN results[f] : results[f][k].txs = {t}
    BY <2>1
  <2>3. ASSUME NEW j \in DOMAIN results[f]
        PROVE  t \in results[f][j].txs <=> j = k
    <3>1. PICK u : results[f][j].txs = {u}
      <4>1. EntryOK(f, filler, cmd, results[f][j])
        BY <2>1 DEF ResultsInv, EntriesOK
      <4> QED BY <4>1, Zenon DEF EntryOK
    <3>2. results[f][j].txs = results[f][k].txs => j = k
      BY <2>1, <2>2, <2>3 DEF ResultsInv
    <3> QED BY <2>2, <3>1, <3>2
  <2>4. PICK h \in DOMAIN filler.expects :
           /\ f \in filler.expects[h].forks /\ t \in filler.expects[h].txs
           /\ ExceptionOf(results[f][k], f) = ExceptionOf(filler.expects[h], f)
    <3>1. FromSection(f, results[f][k])
      BY <2>1 DEF ResultsInv
    <3> QED BY <2>2, <3>1 DEF FromSection
  <2>5. h = i
    BY <1>5, <2>4, OneSection
  <2> QED BY <2>3, <2>4, <2>5
<1>6. NothingMissed'
  BY <1>3, <1>5 DEF NothingMissed, ForksOf, TransactionsOf
<1>7. (errors = {} <=> Covered) /\ executed # {}
  BY <1>1 DEF MarksInv
<1> DEFINE without == {t \in TransactionsOf(filler) :
                          \A f \in DOMAIN results : \A k \in DOMAIN results[f] : t \notin results[f][k].txs}
<1>8. ASSUME errors = {}, ForksOf(filler) \subseteq cmd.nets, NEW t \in without \cap cmd.txs
      PROVE  FALSE
  <2>1. t \in executed
    BY <1>7, <1>8 DEF MarksInv, Covered
  <2> QED BY <1>8, <2>1 DEF MarksInv, HasResult
<1>9. ASSUME ~ (ForksOf(filler) \subseteq cmd.nets)
      PROVE  errors = {}
  <2>1. PICK f \in ForksOf(filler) : f \notin cmd.nets
    BY <1>9
  <2>2. PICK i \in DOMAIN filler.expects : f \in filler.expects[i].forks
    BY DEF ForksOf
  <2>3. \A t \in TransactionsOf(filler) : t \in skipped
    BY <1>2, <2>1, <2>2 DEF MarksInv, Filtered
  <2> QED BY <1>7, <2>3 DEF Covered
<1>10. PICK f1 \in DOMAIN results : DOMAIN results[f1] # {}
  BY <1>7 DEF MarksInv, HasResult
<1>11. ASSUME without \cap cmd.txs = {}
       PROVE  errors = {}
  <2> SUFFICES ASSUME NEW t \in TransactionsOf(filler) PROVE t \in executed \cup skipped
    BY <1>7 DEF Covered
  <2>1. CASE t \in cmd.txs
    BY <1>11, <2>1 DEF MarksInv
  <2>2. CASE t \notin cmd.txs
    <3>1. PICK i \in DOMAIN filler.expects : f1 \in filler.expects[i].forks
      BY <1>10 DEF ResultsInv, FromSection
    <3> QED BY <1>2, <2>2, <3>1 DEF MarksInv, Filtered
  <2> QED BY <2>1, <2>2
<1>12. file'.clean <=> ~ (ForksOf(filler) \subseteq cmd.nets) \/ without \cap cmd.txs = {}
  <2>1. file'.clean <=> errors = {}
    BY <1>3, Zenon
  <2> QED BY <1>8, <1>9, <1>11, <2>1
<1>13. WithoutResult' = without /\ ForksOf(file'.test) = ForksOf(filler)
  BY <1>3 DEF WithoutResult, TransactionsOf
<1>14. UncoveredIsMarked'
  <2>1. ForksOf(file.test)' = ForksOf(filler)
    BY <1>3 DEF ForksOf
  <2> QED BY <1>3, <1>12, <1>13, <2>1 DEF UncoveredIsMarked
<1> QED BY <1>3, <1>4, <1>6, <1>10, <1>14 DEF FileInv

-----------------------------------------------------------------------------
(* ResultsInv *)

\* Nothing that ought to be written is done without being written.
LEMMA ResultsStay ==
    ASSUME ResultsInv, Stays, results' = results,
           \A f, t : \A i \in DOMAIN filler.expects : Done(f, i, t) => Done(f, i, t)',
           \A f \in cmd.nets, i \in DOMAIN filler.expects :
              f \in filler.expects[i].forks =>
                 \A t \in filler.expects[i].txs \cap TransactionsOf(filler) \cap cmd.txs :
                    Done(f, i, t)' => Done(f, i, t)
    PROVE  ResultsInv'
<1>1. filler' = filler /\ cmd' = cmd
  BY DEF Stays, disk
<1>2. EntriesOK(results, filler, cmd)'
  <2>1. EntriesOK(results, filler, cmd)
    BY DEF ResultsInv
  <2> QED BY <1>1, <2>1 DEF EntriesOK
<1>3. ASSUME NEW f \in DOMAIN results, NEW k \in DOMAIN results[f]
      PROVE  FromSection(f, results[f][k])'
  <2>1. FromSection(f, results[f][k])
    BY DEF ResultsInv
  <2>2. PICK i \in DOMAIN filler.expects, t \in TransactionsOf(filler) :
           /\ results[f][k].txs = {t}
           /\ f \in filler.expects[i].forks /\ t \in filler.expects[i].txs
           /\ ExceptionOf(results[f][k], f) = ExceptionOf(filler.expects[i], f)
           /\ Done(f, i, t)
    BY <2>1 DEF FromSection
  <2>3. Done(f, i, t)'
    BY <2>2
  <2> QED BY <1>1, <2>2, <2>3 DEF FromSection, TransactionsOf, ExceptionOf
<1>4. ASSUME NEW f \in ForksOf(filler) \cap cmd.nets, NEW i \in DOMAIN filler.expects,
             f \in filler.expects[i].forks,
             NEW t \in filler.expects[i].txs \cap TransactionsOf(filler) \cap cmd.txs,
             Done(f, i, t)'
      PROVE  HasResult(results, f, t)
  <2>1. Done(f, i, t)
    BY <1>4
  <2> QED BY <1>4, <2>1 DEF ResultsInv
<1>5. \A f \in DOMAIN results : \A k, l \in DOMAIN results[f] :
         results[f][k].txs = results[f][l].txs => k = l
  BY DEF ResultsInv
<1>6. (\A f \in ForksOf(filler) \cap cmd.nets, i \in DOMAIN filler.expects :
          f \in filler.expects[i].forks =>
             \A t \in filler.expects[i].txs \cap TransactionsOf(filler) \cap cmd.txs :
                Done(f, i, t) => HasResult(results, f, t))'
  BY <1>1, <1>4 DEF ForksOf, TransactionsOf, HasResult
<1> QED BY <1>1, <1>2, <1>3, <1>5, <1>6 DEF ResultsInv

LEMMA FillPlaces ==
    ASSUME InputInv, mode = "fill"
    PROVE  /\ Whole = filler.expects /\ Test = filler
           /\ DOMAIN filler.expects = 1 .. Len(filler.expects)
           /\ Len(filler.expects) \in Nat
           /\ \A i \in DOMAIN filler.expects : i \in Nat \ {0}
<1>1. Whole = filler.expects /\ Test = filler
  BY DEF Whole, SectionsOf, Test
<1>2. DOMAIN filler.expects = 1 .. Len(filler.expects) /\ Len(filler.expects) \in Nat
  BY TestIsFiller, LenProperties
<1> QED BY <1>1, <1>2

LEMMA ForkResults ==
    ASSUME InputInv, LoopInv, FileInv, ResultsInv, mode = "fill", SkipFork \/ EndFork
    PROVE  ResultsInv'
<1>1. Stays /\ results' = results /\ forks # {} /\ step' = "forks" /\ forks' = forks \ {First(forks)}
  BY DEF SkipFork, EndFork, Stays, made, At, LoopInv, InFork
<1>2. \A f, i, t : Done(f, i, t)' <=> f \notin forks \/ f = First(forks)
  BY <1>1, DoneFork
<1>3. \A f, i, t : Done(f, i, t) => f \notin forks \/ f = First(forks)
  BY DEF Done
<1>4. CASE SkipFork
  <2>1. First(forks) \notin cmd.nets
    BY <1>4 DEF SkipFork, NetworkSkip
  <2>2. \A f \in cmd.nets : \A i, t : Done(f, i, t)' => Done(f, i, t)
    BY <1>2, <2>1 DEF Done
  <2> QED BY <1>1, <1>2, <1>3, <2>2, ResultsStay
<1>5. CASE EndFork
  <2>1. InFork /\ sections = << >>
    BY <1>5 DEF EndFork, At, InFork
  <2>2. Place = Len(Whole) + 1
    BY <1>1, <2>1, AtPlace DEF InFork
  <2>3. \A i \in DOMAIN filler.expects : i < Place
    BY <2>2, FillPlaces
  <2>4. \A f, t : \A i \in DOMAIN filler.expects : Done(f, i, t)' => Done(f, i, t)
    BY <1>2, <2>1, <2>3 DEF Done
  <2> QED BY <1>1, <1>2, <1>3, <2>4, ResultsStay
<1> QED BY <1>4, <1>5

LEMMA SectionResults ==
    ASSUME InputInv, LoopInv, FileInv, ResultsInv, mode = "fill",
           BeginFork \/ SkipSection \/ EndSection
    PROVE  ResultsInv'
<1>1. CASE BeginFork
  <2>1. /\ Stays /\ results' = results /\ At("forks") /\ forks # {}
        /\ forks' = forks /\ step' = "sections" /\ sections' = Whole
    BY <1>1 DEF BeginFork, Stays, made, Whole
  <2>2. \A f, t : \A i \in DOMAIN filler.expects : Done(f, i, t)' <=> Done(f, i, t)
    BY <2>1, FillPlaces, DoneNone
  <2> QED BY <2>1, <2>2, ResultsStay
<1>2. CASE SkipSection \/ EndSection
  <2>1. /\ Stays /\ results' = results /\ mode # "idle" /\ sections # << >>
        /\ step = "sections" \/ (step = "txs" /\ txs = << >>)
        /\ forks' = forks /\ step' = "sections" /\ sections' = Tail(sections)
    BY <1>2 DEF SkipSection, EndSection, Stays, made, At, LoopInv, InSection
  <2>2. \A f, t : \A i \in DOMAIN filler.expects :
           Done(f, i, t)' <=> Done(f, i, t) \/ (f = First(forks) /\ i = Place)
    BY <2>1, FillPlaces, DoneSection
  <2>3. CASE SkipSection
    <3>1. ~ HasFork(Head(sections), First(forks)) /\ InFork /\ forks # {}
      BY <2>3 DEF SkipSection, At, InFork, LoopInv
    <3>2. Head(sections) = filler.expects[Place]
      BY <2>1, <3>1, AtPlace, FillPlaces
    <3>3. First(forks) \notin filler.expects[Place].forks
      BY <3>1, <3>2 DEF HasFork
    <3> QED BY <2>1, <2>2, <3>3, ResultsStay
  <2>4. CASE EndSection
    <3>1. InFork /\ step = "txs" /\ txs = << >>
      BY <2>4 DEF EndSection, At, InFork
    <3>2. \A t : t \notin ToSet(txs)
      BY <3>1 DEF ToSet
    <3>3. \A f, i, t : f = First(forks) /\ i = Place => Done(f, i, t)
      BY <3>1, <3>2 DEF Done
    <3> QED BY <2>1, <2>2, <3>3, ResultsStay
  <2> QED BY <1>2, <2>3, <2>4
<1> QED BY <1>1, <1>2

LEMMA TransactionResults ==
    ASSUME InputInv, LoopInv, FileInv, ResultsInv, mode = "fill",
           BeginSection \/ SkipTransaction \/ PassTransaction \/ SendTransaction \/ MineBlock
    PROVE  ResultsInv'
<1>1. /\ Stays /\ results' = results /\ InFork /\ forks' = forks /\ sections' = sections
      /\ step' \in {"txs", "sent", "mined"} /\ sections # << >> /\ forks # {}
  BY DEF BeginSection, SkipTransaction, PassTransaction, SendTransaction, MineBlock, Stays, made,
         InFork, At, LoopInv, InSection
<1>2. \A f, i, t : Done(f, i, t)' <=>
         \/ f \notin forks
         \/ f = First(forks) /\ (i < Place \/ (i = Place /\ t \notin ToSet(txs')))
  BY <1>1, DoneTransactions
<1>3. Head(sections) = filler.expects[Place]
  BY <1>1, AtPlace, FillPlaces DEF InFork
<1>4. CASE BeginSection
  <2>1. step = "sections" /\ txs' = filler.txs
    BY <1>4, FillPlaces DEF BeginSection, At
  <2>2. \A f, i, t : Done(f, i, t) <=> f \notin forks \/ (f = First(forks) /\ i < Place)
    BY <1>1, <2>1 DEF Done
  <2>3. \A f, i : \A t \in TransactionsOf(filler) : Done(f, i, t)' => Done(f, i, t)
    BY <1>2, <2>1, <2>2 DEF TransactionsOf
  <2> QED BY <1>1, <1>2, <2>2, <2>3, ResultsStay
<1>5. CASE ~ BeginSection
  <2>1. InSection /\ step # "sections"
    BY <1>5 DEF SkipTransaction, PassTransaction, SendTransaction, MineBlock, InSection, At
  <2>2. \A f, i, t : Done(f, i, t) <=>
           \/ f \notin forks
           \/ f = First(forks) /\ (i < Place \/ (i = Place /\ t \notin ToSet(txs)))
    BY <1>1, <2>1 DEF Done
  <2>3. CASE SendTransaction \/ MineBlock
    <3>1. txs' = txs
      BY <2>3 DEF SendTransaction, MineBlock
    <3> QED BY <1>1, <1>2, <2>2, <3>1, ResultsStay
  <2>4. CASE SkipTransaction \/ PassTransaction
    <3>1. txs # << >> /\ txs' = Tail(txs)
      BY <2>4 DEF SkipTransaction, PassTransaction
    <3>2. ToSet(txs) = {Head(txs)} \cup ToSet(txs')
      BY <2>1, <3>1, AtTransaction
    <3>3. Head(txs) \notin cmd.txs \/ Head(txs) \notin filler.expects[Place].txs
      BY <1>3, <2>4, <3>1 DEF SkipTransaction, PassTransaction, Allows, Named
    <3> QED BY <1>1, <1>2, <2>2, <3>2, <3>3, ResultsStay
  <2> QED BY <1>5, <2>3, <2>4
<1> QED BY <1>4, <1>5

LEMMA AppendPlaces ==
    ASSUME NEW s, IsSequence(s), NEW e
    PROVE  /\ IsSequence(Append(s, e))
           /\ DOMAIN Append(s, e) = DOMAIN s \cup {Len(s) + 1} /\ Len(s) + 1 \notin DOMAIN s
           /\ \A k \in DOMAIN s : Append(s, e)[k] = s[k]
           /\ Append(s, e)[Len(s) + 1] = e
<1>1. PICK S : s \in Seq(S)
  BY DEF IsSequence
<1>2. s \in Seq(S \cup {e}) /\ e \in S \cup {e}
  BY <1>1, SeqMonotonic
<1>3. /\ Append(s, e) \in Seq(S \cup {e}) /\ Len(Append(s, e)) = Len(s) + 1
      /\ \A k \in 1 .. Len(s) : Append(s, e)[k] = s[k]
      /\ Append(s, e)[Len(s) + 1] = e
  BY <1>2, AppendProperties
<1>4. Len(s) \in Nat /\ DOMAIN s = 1 .. Len(s) /\ DOMAIN Append(s, e) = 1 .. Len(s) + 1
  BY <1>2, <1>3, LenProperties
<1>5. 1 .. Len(s) + 1 = (1 .. Len(s)) \cup {Len(s) + 1} /\ Len(s) + 1 \notin 1 .. Len(s)
  BY <1>4
<1> QED BY <1>3, <1>4, <1>5 DEF IsSequence

\* A transaction that passes gives a result that says what its own chain gives.
LEMMA ResultEntry ==
    ASSUME InputInv, LoopInv, ExactInv, mode = "fill", At("mined"), ~ Complaint
    PROVE  /\ Result.txs = {Head(txs)} /\ ExceptionOf(Result, First(forks)) = Exception
           /\ EntryOK(First(forks), filler, cmd, Result)
<1> DEFINE h == First(forks)
           t == Head(txs)
<1>1. Test = filler /\ InSection /\ step = "mined" /\ mode \in {"fill", "run"}
  BY DEF Test, At, InSection
<1>2. Named /\ txs # << >>
  BY <1>1 DEF LoopInv, Named
<1>3. t \in TransactionsOf(filler)
  BY <1>1, <1>2, AtTransaction
<1>4. /\ client = Mined(ChainFor(filler, h, t)) /\ mined = Rejected(ChainFor(filler, h, t))
  BY <1>1 DEF ExactInv
<1>5. Result.txs = {t} /\ Result.root = Outcome /\ ExceptionOf(Result, h) = Exception
  BY DEF Result, ExceptionOf
<1>6. Outcome = Root(client)
  BY DEF Outcome
<1>7. cmd.reports => Exception = ReasonFor(filler, h, t)
  <2>1. cmd.reports => Exception = Reason(t)
    BY DEF Complaint, WrongVerdict
  <2>2. Reason(t) = ReasonFor(filler, h, t)
    BY <1>4 DEF Reason, ReasonFor
  <2> QED BY <2>1, <2>2
<1>8. Exception = "" => t \in Last(client.blocks).txs
  BY DEF Complaint
<1> HIDE DEF h, t
<1>9. EntryOK(h, filler, cmd, Result)
  BY <1>3, <1>4, <1>5, <1>6, <1>7, <1>8, Zenon DEF EntryOK
<1> QED BY <1>5, <1>9 DEF h, t

LEMMA JudgeResults ==
    ASSUME InputInv, LoopInv, FileInv, ExactInv, ResultsInv, ~ IsRedundant(filler),
           mode = "fill", JudgePasses
    PROVE  /\ ResultsInv' /\ First(forks) \in DOMAIN results'
           /\ HasResult(results', First(forks), Head(txs))
           /\ \A f \in DOMAIN results : \A t :
                 HasResult(results, f, t) => HasResult(results', f, t)
           /\ \A f \in DOMAIN results' : \A k \in DOMAIN results'[f] :
                 \/ results'[f][k].txs = {Head(txs)}
                 \/ /\ f \in DOMAIN results /\ k \in DOMAIN results[f]
                    /\ results'[f][k] = results[f][k]
<1>0. PICK h, t0, p : h = First(forks) /\ t0 = Head(txs) /\ p = Place
  OBVIOUS
<1> DEFINE old == ResultsOf(h)
           new == Append(old, Result)
           last == Len(old) + 1
<1>1. /\ Stays /\ At("mined") /\ ~ Complaint /\ forks' = forks /\ sections' = sections
      /\ step' = "txs" /\ txs' = Tail(txs) /\ txs # << >> /\ sections # << >> /\ forks # {}
      /\ InFork /\ InSection /\ Named /\ HasFork(Head(sections), h)
  BY <1>0 DEF JudgePasses, Stays, At, LoopInv, InSection, InFork, Named
<1>2. filler' = filler /\ cmd' = cmd /\ Test = filler
  BY <1>1, WholeStays DEF Stays, disk, Test
<1>3. /\ h \in forks /\ h \in Fork /\ p \in DOMAIN filler.expects
      /\ Head(sections) = filler.expects[p]
  BY <1>0, <1>1, AtPlace, FillPlaces
<1>4. h \in filler.expects[p].forks /\ t0 \in filler.expects[p].txs
  BY <1>0, <1>1, <1>3 DEF HasFork, Named
<1>5. /\ t0 \in TransactionsOf(filler) /\ t0 \notin ToSet(txs')
      /\ ToSet(txs) = {t0} \cup ToSet(txs')
  BY <1>0, <1>1, <1>2, AtTransaction
<1>6. \A f, i, t : Done(f, i, t)' <=>
         \/ f \notin forks
         \/ f = h /\ (i < p \/ (i = p /\ t \notin ToSet(txs')))
  <2>1. step' \in {"txs", "sent", "mined"}
    BY <1>1
  <2> QED BY <1>0, <1>1, <2>1, DoneTransactions
<1>7. \A f, i, t : Done(f, i, t) <=>
         \/ f \notin forks
         \/ f = h /\ (i < p \/ (i = p /\ t \notin ToSet(txs)))
  BY <1>0, <1>1 DEF Done, InSection
<1>8. \A f, i, t : Done(f, i, t) => Done(f, i, t)'
  BY <1>5, <1>6, <1>7
<1>9. \A i \in DOMAIN filler.expects : i \in Nat
  BY FillPlaces
<1>10. results' = [f \in DOMAIN results \cup {h} |-> IF f = h THEN new ELSE results[f]]
  BY <1>0 DEF JudgePasses
<1>11. IsSequence(old) /\ (h \in DOMAIN results => old = results[h])
       /\ (h \notin DOMAIN results => DOMAIN old = {})
  <2>1. CASE h \in DOMAIN results
    BY <2>1 DEF ResultsOf, ResultsInv, EntriesOK
  <2>2. CASE h \notin DOMAIN results
    <3>1. old = << >> /\ DOMAIN old = {} /\ old \in Seq({})
      BY <2>2 DEF ResultsOf
    <3> QED BY <2>2, <3>1 DEF IsSequence
  <2> QED BY <2>1, <2>2
<1>12. /\ Result.txs = {t0} /\ ExceptionOf(Result, h) = Exception
       /\ EntryOK(h, filler, cmd, Result)
  BY <1>0, <1>1, ResultEntry
<1>13. Exception = ExceptionOf(filler.expects[p], h)
  BY <1>0, <1>3 DEF Exception
<1> HIDE DEF old
<1>14. /\ IsSequence(new) /\ DOMAIN new = DOMAIN old \cup {last} /\ last \notin DOMAIN old
       /\ \A k \in DOMAIN old : new[k] = old[k]
       /\ new[last] = Result
  BY <1>11, AppendPlaces
<1> HIDE DEF new, last
<1>15. /\ DOMAIN results' = DOMAIN results \cup {h} /\ results'[h] = new
       /\ \A f \in DOMAIN results : f # h => results'[f] = results[f]
  BY <1>10
\* What is written is what was written before, and the new result.
<1>16. ASSUME NEW f \in DOMAIN results', NEW k \in DOMAIN results'[f]
       PROVE  \/ f = h /\ k = last /\ results'[f][k] = Result
              \/ f \in DOMAIN results /\ k \in DOMAIN results[f] /\ results'[f][k] = results[f][k]
  <2>1. CASE f = h /\ k = last
    BY <1>14, <1>15, <2>1
  <2>2. CASE f = h /\ k # last
    <3>1. k \in DOMAIN old /\ results'[f][k] = old[k]
      BY <1>14, <1>15, <1>16, <2>2
    <3> QED BY <1>11, <2>2, <3>1
  <2>3. CASE f # h
    BY <1>15, <2>3
  <2> QED BY <2>1, <2>2, <2>3
<1>17. EntriesOK(results, filler, cmd)'
  <2> SUFFICES EntriesOK(results', filler, cmd)
    BY <1>2 DEF EntriesOK
  <2>1. ASSUME NEW f \in DOMAIN results'
        PROVE  f \in Fork /\ IsSequence(results'[f])
    <3>1. CASE f = h
      BY <1>3, <1>14, <1>15, <3>1
    <3>2. CASE f # h
      BY <1>15, <3>2 DEF ResultsInv, EntriesOK
    <3> QED BY <3>1, <3>2
  <2>2. ASSUME NEW f \in DOMAIN results', NEW k \in DOMAIN results'[f]
        PROVE  EntryOK(f, filler, cmd, results'[f][k])
    <3>1. CASE f = h /\ results'[f][k] = Result
      BY <1>12, <3>1
    <3>2. CASE f \in DOMAIN results /\ k \in DOMAIN results[f] /\ results'[f][k] = results[f][k]
      BY <3>2 DEF ResultsInv, EntriesOK
    <3> QED BY <1>16, <2>2, <3>1, <3>2
  <2> QED BY <2>1, <2>2 DEF EntriesOK
<1>18. ASSUME NEW f \in DOMAIN results', NEW k \in DOMAIN results'[f]
       PROVE  FromSection(f, results[f][k])'
  <2>1. CASE f = h /\ results'[f][k] = Result
    <3>1. Done(h, p, t0)'
      BY <1>5, <1>6
    <3> QED BY <1>2, <1>3, <1>4, <1>5, <1>12, <1>13, <2>1, <3>1
            DEF FromSection, TransactionsOf, ExceptionOf
  <2>2. CASE f \in DOMAIN results /\ k \in DOMAIN results[f] /\ results'[f][k] = results[f][k]
    <3>1. FromSection(f, results[f][k])
      BY <2>2 DEF ResultsInv
    <3>2. PICK i \in DOMAIN filler.expects, t \in TransactionsOf(filler) :
             /\ results[f][k].txs = {t}
             /\ f \in filler.expects[i].forks /\ t \in filler.expects[i].txs
             /\ ExceptionOf(results[f][k], f) = ExceptionOf(filler.expects[i], f)
             /\ Done(f, i, t)
      BY <3>1 DEF FromSection
    <3>3. Done(f, i, t)'
      BY <1>8, <3>2
    <3> QED BY <1>2, <2>2, <3>2, <3>3 DEF FromSection, TransactionsOf, ExceptionOf
  <2> QED BY <1>16, <1>18, <2>1, <2>2
\* The transaction had no result yet.
<1>19. ASSUME h \in DOMAIN results, NEW k \in DOMAIN results[h]
       PROVE  results[h][k].txs # {t0}
  <2> SUFFICES ASSUME results[h][k].txs = {t0} PROVE FALSE
    OBVIOUS
  <2>1. FromSection(h, results[h][k])
    BY <1>19 DEF ResultsInv
  <2>2. PICK i \in DOMAIN filler.expects, t \in TransactionsOf(filler) :
           /\ results[h][k].txs = {t}
           /\ h \in filler.expects[i].forks /\ t \in filler.expects[i].txs
           /\ Done(h, i, t)
    BY <2>1 DEF FromSection
  <2>3. t = t0
    BY <2>2
  <2>4. i = p
    BY <1>3, <1>4, <2>2, <2>3, OneSection
  <2>5. i < p \/ t0 \notin ToSet(txs)
    BY <1>3, <1>7, <2>2, <2>3
  <2> QED BY <1>5, <1>9, <2>4, <2>5
<1>20. ASSUME NEW f \in DOMAIN results', NEW k \in DOMAIN results'[f], NEW l \in DOMAIN results'[f],
              results'[f][k].txs = results'[f][l].txs
       PROVE  k = l
  <2>1. CASE f = h /\ k = last /\ results'[f][k] = Result
    BY <1>12, <1>16, <1>19, <1>20, <2>1
  <2>2. CASE f = h /\ l = last /\ results'[f][l] = Result
    BY <1>12, <1>16, <1>19, <1>20, <2>2
  <2>3. CASE /\ f \in DOMAIN results /\ k \in DOMAIN results[f] /\ l \in DOMAIN results[f]
             /\ results'[f][k] = results[f][k] /\ results'[f][l] = results[f][l]
    BY <1>20, <2>3 DEF ResultsInv
  <2> QED BY <1>16, <1>20, <2>1, <2>2, <2>3
<1>21. ASSUME NEW f \in DOMAIN results, NEW t, HasResult(results, f, t)
       PROVE  HasResult(results', f, t)
  <2>1. PICK k \in DOMAIN results[f] : results[f][k].txs = {t}
    BY <1>21 DEF HasResult
  <2>2. f \in DOMAIN results' /\ k \in DOMAIN results'[f] /\ results'[f][k] = results[f][k]
    <3>1. CASE f = h
      BY <1>11, <1>14, <1>15, <3>1
    <3>2. CASE f # h
      BY <1>15, <3>2
    <3> QED BY <3>1, <3>2
  <2> QED BY <2>1, <2>2 DEF HasResult
<1>22. HasResult(results', h, t0)
  BY <1>12, <1>14, <1>15 DEF HasResult
<1>23. ASSUME NEW f \in ForksOf(filler) \cap cmd.nets, NEW i \in DOMAIN filler.expects,
              f \in filler.expects[i].forks,
              NEW t \in filler.expects[i].txs \cap TransactionsOf(filler) \cap cmd.txs,
              Done(f, i, t)'
       PROVE  HasResult(results', f, t)
  <2>1. CASE Done(f, i, t)
    <3>1. HasResult(results, f, t)
      BY <1>23, <2>1 DEF ResultsInv
    <3>2. f \in DOMAIN results
      BY <3>1 DEF HasResult
    <3> QED BY <1>21, <3>1, <3>2
  <2>2. CASE ~ Done(f, i, t)
    <3>1. f = h /\ t = t0
      BY <1>5, <1>6, <1>7, <1>23, <2>2
    <3> QED BY <1>22, <3>1
  <2> QED BY <2>1, <2>2
<1>24. (\A f \in ForksOf(filler) \cap cmd.nets, i \in DOMAIN filler.expects :
          f \in filler.expects[i].forks =>
             \A t \in filler.expects[i].txs \cap TransactionsOf(filler) \cap cmd.txs :
                Done(f, i, t) => HasResult(results, f, t))'
  BY <1>2, <1>23 DEF ForksOf, TransactionsOf, HasResult
<1>25. ResultsInv'
  BY <1>17, <1>18, <1>20, <1>24 DEF ResultsInv
<1>26. \A f \in DOMAIN results' : \A k \in DOMAIN results'[f] :
          \/ results'[f][k].txs = {t0}
          \/ f \in DOMAIN results /\ k \in DOMAIN results[f] /\ results'[f][k] = results[f][k]
  BY <1>12, <1>16
<1> QED BY <1>0, <1>15, <1>21, <1>22, <1>25, <1>26

LEMMA EndResults ==
    ASSUME ResultsInv, mode = "fill", EndLoop
    PROVE  ResultsInv'
<1>1. Stays /\ results' = results /\ forks = {} /\ forks' = {}
  BY DEF EndLoop, Stays, made
<1>2. \A f, i, t : Done(f, i, t) /\ Done(f, i, t)'
  BY <1>1 DEF Done
<1> QED BY <1>1, <1>2, ResultsStay

-----------------------------------------------------------------------------
(* MarksInv *)

LEMMA MarksStay ==
    ASSUME MarksInv, Stays,
           \A t \in executed' : t \in executed \/ \E f \in DOMAIN results' : HasResult(results', f, t),
           \A f \in DOMAIN results : f \in DOMAIN results' /\ \A t : HasResult(results, f, t) => HasResult(results', f, t),
           \A f \in DOMAIN results' : \A k \in DOMAIN results'[f] : results'[f][k].txs \subseteq executed',
           InFork' => First(forks') \in cmd.nets,
           ForksOf(filler) \subseteq cmd.nets => skipped' \cap cmd.txs \subseteq skipped,
           skipped \cap TransactionsOf(filler) \subseteq skipped',
           \A f, i, t : /\ i \in DOMAIN filler.expects /\ f \in filler.expects[i].forks
                       /\ t \in TransactionsOf(filler) /\ Filtered(f, t) /\ Done(f, i, t)'
                       => Done(f, i, t) \/ t \in skipped',
           errors' = {} <=> (step' = "end" => TransactionsOf(filler) \subseteq executed' \cup skipped'),
           step' = "end" => executed' # {}, mode # "idle"
    PROVE  MarksInv'
<1>1. filler' = filler /\ cmd' = cmd /\ mode' = mode
  BY DEF Stays, disk
<1>2. ASSUME NEW t \in executed' PROVE \E f \in DOMAIN results' : HasResult(results', f, t)
  <2>1. CASE t \in executed
    <3>1. PICK f \in DOMAIN results : HasResult(results, f, t)
      BY <2>1 DEF MarksInv
    <3> QED BY <3>1
  <2> QED BY <1>2, <2>1
<1>3. (\A t \in executed : \E f \in DOMAIN results : HasResult(results, f, t))'
  BY <1>2 DEF HasResult
<1>4. (ForksOf(filler) \subseteq cmd.nets => skipped \cap cmd.txs = {})'
  <2>1. ForksOf(filler) \subseteq cmd.nets => skipped' \cap cmd.txs = {}
    BY DEF MarksInv
  <2> QED BY <1>1, <2>1 DEF ForksOf
<1>5. ASSUME NEW f, NEW i, NEW t, i \in DOMAIN filler.expects, f \in filler.expects[i].forks,
             t \in TransactionsOf(filler), Filtered(f, t), Done(f, i, t)'
      PROVE  t \in skipped'
  <2>1. CASE Done(f, i, t)
    <3>1. t \in skipped
      BY <1>5, <2>1 DEF MarksInv
    <3> QED BY <1>5, <3>1
  <2> QED BY <1>5, <2>1
<1>6. (\A f, i, t : /\ i \in DOMAIN filler.expects /\ f \in filler.expects[i].forks
                   /\ t \in TransactionsOf(filler) /\ Filtered(f, t) /\ Done(f, i, t)
                   => t \in skipped)'
  BY <1>1, <1>5 DEF TransactionsOf, Filtered
<1>7. (errors = {} <=> (At("end") => Covered))' /\ (At("end") => executed # {})'
  BY <1>1 DEF At, Covered, TransactionsOf
<1>8. (InFork => First(forks) \in cmd.nets)'
  BY <1>1
<1> QED BY <1>3, <1>4, <1>6, <1>7, <1>8 DEF MarksInv

\* What a filter keeps out is marked before it is left behind.
FilteredStay ==
    \A f, i, t : /\ i \in DOMAIN filler.expects /\ f \in filler.expects[i].forks
                /\ t \in TransactionsOf(filler) /\ Filtered(f, t) /\ Done(f, i, t)'
                => Done(f, i, t) \/ t \in skipped'

LEMMA ForksFiltered ==
    ASSUME InputInv, LoopInv, FileInv, MarksInv, mode = "fill", SkipFork \/ BeginFork \/ EndFork
    PROVE  FilteredStay
<1>1. Stays /\ forks # {} /\ mode # "idle"
  BY DEF SkipFork, BeginFork, EndFork, Stays, At, LoopInv, InFork
<1>2. CASE SkipFork
  BY <1>2, FillPlaces DEF SkipFork, FilteredStay
<1>3. CASE BeginFork
  <2>1. At("forks") /\ forks' = forks /\ step' = "sections" /\ sections' = Whole
    BY <1>3 DEF BeginFork, Whole
  <2>2. \A f, t : \A i \in DOMAIN filler.expects : Done(f, i, t)' <=> Done(f, i, t)
    BY <1>1, <2>1, FillPlaces, DoneNone
  <2> QED BY <2>2 DEF FilteredStay
<1>4. CASE EndFork
  <2>1. InFork /\ sections = << >> /\ step' = "forks" /\ forks' = forks \ {First(forks)}
    BY <1>4 DEF EndFork, At, InFork
  <2>2. Place = Len(Whole) + 1
    BY <1>1, <2>1, AtPlace
  <2>3. \A i \in DOMAIN filler.expects : i < Place
    BY <2>2, FillPlaces
  <2>4. \A f, i, t : Done(f, i, t)' <=> f \notin forks \/ f = First(forks)
    BY <2>1, DoneFork
  <2>5. \A f, t : \A i \in DOMAIN filler.expects : Done(f, i, t)' => Done(f, i, t)
    BY <2>1, <2>3, <2>4 DEF Done
  <2> QED BY <2>5 DEF FilteredStay
<1> QED BY <1>2, <1>3, <1>4

LEMMA SectionsFiltered ==
    ASSUME InputInv, LoopInv, FileInv, MarksInv, mode = "fill", SkipSection \/ EndSection
    PROVE  FilteredStay
<1>1. /\ Stays /\ mode # "idle" /\ sections # << >> /\ InFork /\ forks # {}
      /\ step = "sections" \/ (step = "txs" /\ txs = << >>)
      /\ forks' = forks /\ step' = "sections" /\ sections' = Tail(sections)
  BY DEF SkipSection, EndSection, Stays, At, LoopInv, InFork, InSection
<1>2. \A f, t : \A i \in DOMAIN filler.expects :
         Done(f, i, t)' <=> Done(f, i, t) \/ (f = First(forks) /\ i = Place)
  BY <1>1, FillPlaces, DoneSection
<1>3. CASE SkipSection
  <2>1. Head(sections) = filler.expects[Place]
    BY <1>1, AtPlace, FillPlaces
  <2>2. First(forks) \notin filler.expects[Place].forks
    BY <1>3, <2>1 DEF SkipSection, HasFork
  <2> QED BY <1>2, <2>2 DEF FilteredStay
<1>4. CASE EndSection
  <2>1. step = "txs" /\ \A t : t \notin ToSet(txs)
    BY <1>4 DEF EndSection, At, ToSet
  <2>2. \A f, i, t : f = First(forks) /\ i = Place => Done(f, i, t)
    BY <1>1, <2>1 DEF Done
  <2> QED BY <1>2, <2>2 DEF FilteredStay
<1> QED BY <1>3, <1>4

LEMMA TransactionsFiltered ==
    ASSUME InputInv, LoopInv, FileInv, MarksInv, mode = "fill",
           BeginSection \/ SkipTransaction \/ PassTransaction \/ SendTransaction \/ MineBlock \/ JudgePasses
    PROVE  FilteredStay
<1>1. /\ Stays /\ InFork /\ forks' = forks /\ sections' = sections
      /\ step' \in {"txs", "sent", "mined"} /\ forks # {}
  BY DEF BeginSection, SkipTransaction, PassTransaction, SendTransaction, MineBlock, JudgePasses, Stays,
         InFork, At, LoopInv
<1>2. \A f, i, t : Done(f, i, t)' <=>
         \/ f \notin forks
         \/ f = First(forks) /\ (i < Place \/ (i = Place /\ t \notin ToSet(txs')))
  BY <1>1, DoneTransactions
<1>3. CASE BeginSection
  <2>1. step = "sections" /\ txs' = filler.txs
    BY <1>3, FillPlaces DEF BeginSection, At
  <2>2. \A f, i, t : Done(f, i, t) <=> f \notin forks \/ (f = First(forks) /\ i < Place)
    BY <1>1, <2>1 DEF Done
  <2>3. \A f, i : \A t \in TransactionsOf(filler) : Done(f, i, t)' => Done(f, i, t)
    BY <1>2, <2>1, <2>2 DEF TransactionsOf
  <2> QED BY <2>3 DEF FilteredStay
<1>4. CASE ~ BeginSection
  <2>1. InSection /\ step # "sections"
    BY <1>4 DEF SkipTransaction, PassTransaction, SendTransaction, MineBlock, JudgePasses, InSection, At
  <2>2. \A f, i, t : Done(f, i, t) <=>
           \/ f \notin forks
           \/ f = First(forks) /\ (i < Place \/ (i = Place /\ t \notin ToSet(txs)))
    BY <1>1, <2>1 DEF Done
  <2>3. CASE SendTransaction \/ MineBlock
    <3>1. txs' = txs
      BY <2>3 DEF SendTransaction, MineBlock
    <3> QED BY <1>2, <2>2, <3>1 DEF FilteredStay
  <2>4. CASE SkipTransaction \/ PassTransaction \/ JudgePasses
    <3>1. txs # << >> /\ txs' = Tail(txs)
      BY <2>1, <2>4 DEF SkipTransaction, PassTransaction, JudgePasses, At, LoopInv, Named
    <3>2. ToSet(txs) = {Head(txs)} \cup ToSet(txs')
      BY <2>1, <3>1, AtTransaction
    <3>3. Head(txs) \in skipped' \/ ~ Filtered(First(forks), Head(txs))
      BY <1>1, <2>1, <2>4 DEF SkipTransaction, PassTransaction, JudgePasses, Allows, Filtered, MarksInv,
         LoopInv, At
    <3> QED BY <1>2, <2>2, <3>2, <3>3 DEF FilteredStay
  <2> QED BY <1>4, <2>3, <2>4
<1> QED BY <1>3, <1>4

LEMMA EndFiltered ==
    ASSUME EndLoop
    PROVE  FilteredStay
<1>1. \A f, i, t : Done(f, i, t)
  BY DEF EndLoop, Done
<1> QED BY <1>1 DEF FilteredStay

LEMMA FillMarks ==
    ASSUME InputInv, LoopInv, FileInv, ExactInv, ResultsInv, MarksInv,
           ~ IsRedundant(filler), mode = "fill", Loop, mode' = "fill", ~ WriteFile
    PROVE  MarksInv'
<1>1. /\ mode # "idle" /\ TransactionsOf(Test) = TransactionsOf(filler)
      /\ ~ (SectionNamesNone \/ RefuseEmptyAccount \/ JudgeFails \/ NothingExecuted)
  BY FillPlaces DEF SectionNamesNone, RefuseEmptyAccount, JudgeFails, NothingExecuted, Fail
<1>2. FilteredStay
  BY <1>1, ForksFiltered, SectionsFiltered, TransactionsFiltered, EndFiltered DEF Loop
<1>3. \A f \in DOMAIN results : \A k \in DOMAIN results[f] : results[f][k].txs \subseteq executed
  BY DEF MarksInv
<1>4. step # "end" => errors = {}
  BY DEF MarksInv, At
<1>5. step # "end"
  BY <1>1 DEF Loop, SkipFork, BeginFork, EndFork, SkipSection, BeginSection, EndSection,
     SkipTransaction, PassTransaction, SendTransaction, MineBlock, JudgePasses, EndLoop, At
<1>6. ASSUME Stays, executed' = executed, results' = results, errors' = errors, step' # "end",
             InFork' => First(forks') \in cmd.nets,
             ForksOf(filler) \subseteq cmd.nets => skipped' \cap cmd.txs \subseteq skipped,
             skipped \cap TransactionsOf(filler) \subseteq skipped'
      PROVE  MarksInv'
  BY <1>1, <1>2, <1>3, <1>4, <1>5, <1>6, MarksStay DEF FilteredStay
<1>7. CASE SkipFork
  <2>1. /\ Stays /\ executed' = executed /\ results' = results /\ errors' = errors
        /\ step' = "forks" /\ skipped' = TransactionsOf(Test) /\ ~ InFork'
    BY <1>7 DEF SkipFork, Stays, made, At, InFork
  <2>2. First(forks) \in ForksOf(filler) /\ First(forks) \notin cmd.nets
    BY <1>7, FirstIn DEF SkipFork, NetworkSkip, LoopInv
  <2> QED BY <1>1, <1>6, <2>1, <2>2
<1>8. CASE BeginFork
  <2>1. /\ Stays /\ executed' = executed /\ results' = results /\ errors' = errors
        /\ step' # "end" /\ skipped' = skipped /\ forks' = forks /\ First(forks) \in cmd.nets
    BY <1>8 DEF BeginFork, Stays, made, marks, NetworkSkip
  <2> QED BY <1>6, <2>1
<1>9. CASE EndFork
  <2>1. /\ Stays /\ executed' = executed /\ results' = results /\ errors' = errors
        /\ step' = "forks" /\ skipped' = skipped /\ ~ InFork'
    BY <1>9 DEF EndFork, Stays, made, marks, InFork
  <2> QED BY <1>6, <2>1
<1>10. CASE SkipSection \/ BeginSection \/ EndSection \/ PassTransaction \/ SendTransaction \/ MineBlock
  <2>1. /\ Stays /\ executed' = executed /\ results' = results /\ errors' = errors
        /\ step' # "end" /\ skipped' = skipped /\ forks' = forks /\ InFork
    BY <1>10 DEF SkipSection, BeginSection, EndSection, PassTransaction, SendTransaction, MineBlock,
       Stays, made, marks, At, InFork
  <2> QED BY <1>6, <2>1 DEF MarksInv
<1>11. CASE SkipTransaction
  <2>1. /\ Stays /\ executed' = executed /\ results' = results /\ errors' = errors
        /\ step' # "end" /\ skipped' = skipped \cup {Head(txs)} /\ forks' = forks /\ InFork
        /\ Head(txs) \notin cmd.txs
    BY <1>11 DEF SkipTransaction, Stays, made, At, InFork, Allows
  <2> QED BY <1>6, <2>1 DEF MarksInv
<1>12. CASE JudgePasses
  <2>1. /\ Stays /\ executed' = executed \cup {Head(txs)} /\ skipped' = skipped /\ step' = "txs"
        /\ errors' = errors /\ forks' = forks /\ InFork
        /\ results' = [f \in DOMAIN results \cup {First(forks)} |->
                          IF f = First(forks) THEN Append(ResultsOf(f), Result) ELSE results[f]]
    BY <1>12 DEF JudgePasses, Stays, At, InFork
  <2>2. /\ First(forks) \in DOMAIN results' /\ HasResult(results', First(forks), Head(txs))
        /\ \A f \in DOMAIN results : \A t : HasResult(results, f, t) => HasResult(results', f, t)
        /\ \A f \in DOMAIN results' : \A k \in DOMAIN results'[f] :
              \/ results'[f][k].txs = {Head(txs)}
              \/ f \in DOMAIN results /\ k \in DOMAIN results[f] /\ results'[f][k] = results[f][k]
    BY <1>12, JudgeResults
  <2>3. DOMAIN results' = DOMAIN results \cup {First(forks)}
    BY <2>1
  <2>4. ASSUME NEW f \in DOMAIN results', NEW k \in DOMAIN results'[f]
        PROVE  results'[f][k].txs \subseteq executed'
    <3>1. CASE results'[f][k].txs = {Head(txs)}
      BY <2>1, <3>1
    <3>2. CASE f \in DOMAIN results /\ k \in DOMAIN results[f] /\ results'[f][k] = results[f][k]
      <4>1. results[f][k].txs \subseteq executed
        BY <1>3, <3>2
      <4> QED BY <2>1, <3>2, <4>1
    <3> QED BY <2>2, <2>4, <3>1, <3>2
  <2>5. InFork' => First(forks') \in cmd.nets
    BY <2>1 DEF MarksInv
  <2>6. /\ \A t \in executed' : t \in executed \/ \E f \in DOMAIN results' : HasResult(results', f, t)
        /\ \A f \in DOMAIN results : /\ f \in DOMAIN results'
                                     /\ \A t : HasResult(results, f, t) => HasResult(results', f, t)
    <3>1. \A t \in executed' : t \in executed \/ t = Head(txs)
      BY <2>1
    <3>2. \E f \in DOMAIN results' : HasResult(results', f, Head(txs))
      BY <2>2
    <3>3. DOMAIN results \subseteq DOMAIN results'
      BY <2>3
    <3>4. \A f \in DOMAIN results : \A t : HasResult(results, f, t) => HasResult(results', f, t)
      BY <2>2
    <3>5. \A t \in executed' : t \in executed \/ \E f \in DOMAIN results' : HasResult(results', f, t)
      BY <3>1, <3>2, Zenon
    <3> QED BY <3>3, <3>4, <3>5, Zenon
  <2>7. /\ Stays /\ mode # "idle" /\ step' # "end" /\ errors' = {}
        /\ skipped' = skipped
    BY <1>1, <1>4, <1>5, <2>1
  <2> QED BY <1>2, <2>4, <2>5, <2>6, <2>7, MarksStay DEF FilteredStay
<1>13. CASE EndLoop
  <2>1. /\ Stays /\ executed' = executed /\ skipped' = skipped /\ results' = results /\ step' = "end"
        /\ errors' = (IF Uncovered = {} THEN errors ELSE errors \cup {"uncovered"}) /\ executed # {}
        /\ ~ InFork'
    BY <1>13 DEF EndLoop, Stays, made, marks, InFork
  <2>2. Uncovered = {} <=> TransactionsOf(filler) \subseteq executed \cup skipped
    BY <1>1 DEF Uncovered
  <2>3. errors' = {} <=> Uncovered = {}
    BY <1>4, <1>5, <2>1
  <2> QED BY <1>1, <1>2, <1>3, <2>1, <2>2, <2>3, MarksStay DEF FilteredStay
<1> QED BY <1>1, <1>7, <1>8, <1>9, <1>10, <1>11, <1>12, <1>13 DEF Loop

LEMMA FillResults ==
    ASSUME InputInv, LoopInv, FileInv, ExactInv, ResultsInv,
           ~ IsRedundant(filler), mode = "fill", Loop, mode' = "fill", ~ WriteFile
    PROVE  ResultsInv'
<1>1. ~ (SectionNamesNone \/ RefuseEmptyAccount \/ JudgeFails \/ NothingExecuted)
  BY DEF SectionNamesNone, RefuseEmptyAccount, JudgeFails, NothingExecuted, Fail
<1> QED BY <1>1, ForkResults, SectionResults, TransactionResults, JudgeResults, EndResults DEF Loop

-----------------------------------------------------------------------------
(* RunInv *)

LEMMA RunPlaces ==
    ASSUME InputInv, LoopInv, FileInv, mode = "run"
    PROVE  /\ Test = file.test /\ EntriesOK(file.post, file.test, file.by)
           /\ forks # {} => First(forks) \in DOMAIN file.post
           /\ Whole = file.post[First(forks)]
           /\ \A f \in DOMAIN file.post : \A k \in DOMAIN file.post[f] : k \in Nat \ {0}
<1>1. Test = file.test /\ EntriesOK(file.post, file.test, file.by) /\ forks \subseteq DOMAIN file.post
  BY DEF Test, InputInv, FileInv, LoopInv
<1>2. forks # {} => First(forks) \in DOMAIN file.post
  BY <1>1, FirstIn DEF LoopInv
<1>3. ASSUME NEW f \in DOMAIN file.post, NEW k \in DOMAIN file.post[f]
      PROVE  k \in Nat \ {0}
  <2>1. IsSequence(file.post[f])
    BY <1>1 DEF EntriesOK
  <2>2. DOMAIN file.post[f] = 1 .. Len(file.post[f]) /\ Len(file.post[f]) \in Nat
    BY <2>1, LenProperties DEF IsSequence
  <2> QED BY <2>2
<1> QED BY <1>1, <1>2, <1>3 DEF Whole, SectionsOf

\* The result the loop is at is of one transaction of the test.
LEMMA RunEntry ==
    ASSUME InputInv, LoopInv, FileInv, mode = "run", InFork, sections # << >>
    PROVE  /\ First(forks) \in DOMAIN file.post /\ Place \in DOMAIN file.post[First(forks)]
           /\ Head(sections) = file.post[First(forks)][Place]
           /\ EntryOK(First(forks), file.test, file.by, Head(sections))
           /\ \E t \in TransactionsOf(file.test) : Head(sections).txs = {t}
<1>1. forks # {} /\ mode # "idle"
  BY DEF LoopInv
<1>2. /\ First(forks) \in DOMAIN file.post /\ Place \in DOMAIN file.post[First(forks)]
      /\ Head(sections) = file.post[First(forks)][Place]
      /\ EntriesOK(file.post, file.test, file.by)
  BY <1>1, AtPlace, RunPlaces
<1>3. EntryOK(First(forks), file.test, file.by, Head(sections))
  BY <1>2 DEF EntriesOK
<1>4. \E t \in TransactionsOf(file.test) : Head(sections).txs = {t}
  BY <1>3, Zenon DEF EntryOK
<1> QED BY <1>2, <1>3, <1>4

LEMMA RunStays ==
    ASSUME RunInv, Stays,
           (executed \cup skipped) \cap TransactionsOf(file.test) \subseteq executed' \cup skipped',
           \A f \in DOMAIN file.post : \A k \in DOMAIN file.post[f], t \in TransactionsOf(file.test) :
              Owed(f, k, t) /\ Done(f, k, t)' => Done(f, k, t) \/ t \in executed' \cup skipped',
           step' = "txs" => found' \/ ToSet(txs') \cap Head(sections').txs # {},
           step' \in {"sent", "mined"} => found'
    PROVE  RunInv'
<1>1. file' = file /\ cmd' = cmd
  BY DEF Stays, disk
<1>2. ASSUME NEW f \in DOMAIN file.post, NEW k \in DOMAIN file.post[f],
             NEW t \in TransactionsOf(file.test), Owed(f, k, t), Done(f, k, t)'
      PROVE  t \in executed' \cup skipped'
  <2>1. Done(f, k, t) => t \in executed \cup skipped
    BY <1>2 DEF RunInv
  <2> QED BY <1>2, <2>1
<1>3. (\A f \in DOMAIN file.post : \A k \in DOMAIN file.post[f], t \in TransactionsOf(file.test) :
          Owed(f, k, t) /\ Done(f, k, t) => t \in executed \cup skipped)'
  BY <1>1, <1>2 DEF TransactionsOf, Owed, Allows
<1>4. (step = "txs" => found \/ ToSet(txs) \cap Head(sections).txs # {})'
  BY DEF ToSet
<1> QED BY <1>3, <1>4 DEF RunInv

LEMMA RunForks ==
    ASSUME InputInv, LoopInv, FileInv, RunInv, mode = "run", SkipFork \/ BeginFork \/ EndFork
    PROVE  RunInv'
<1>1. Stays /\ forks # {} /\ mode # "idle" /\ step' \in {"forks", "sections"}
  BY DEF SkipFork, BeginFork, EndFork, Stays, At, LoopInv, InFork
<1>2. CASE SkipFork
  <2>1. executed' = executed /\ skipped' = TransactionsOf(file.test)
    BY <1>2, RunPlaces DEF SkipFork
  <2> QED BY <1>1, <2>1, RunStays
<1>3. CASE BeginFork
  <2>1. /\ At("forks") /\ forks' = forks /\ step' = "sections" /\ sections' = Whole
        /\ executed' = executed /\ skipped' = skipped
    BY <1>3 DEF BeginFork, marks, Whole
  <2>2. \A f \in DOMAIN file.post : \A k \in DOMAIN file.post[f] : \A t :
           Done(f, k, t)' <=> Done(f, k, t)
    BY <1>1, <2>1, RunPlaces, DoneNone
  <2> QED BY <1>1, <2>1, <2>2, RunStays
<1>4. CASE EndFork
  <2>1. /\ step' = "forks" /\ forks' = forks \ {First(forks)} /\ InFork /\ sections = << >>
        /\ executed' = executed /\ skipped' = skipped
    BY <1>4 DEF EndFork, InFork, At, marks
  <2>2. Place = Len(Whole) + 1 /\ DOMAIN Whole = 1 .. Len(Whole) /\ Len(Whole) \in Nat
    BY <1>1, <2>1, AtPlace
  <2>3. Whole = file.post[First(forks)]
    BY RunPlaces
  <2>4. \A k \in DOMAIN file.post[First(forks)] : k < Place
    BY <2>2, <2>3
  <2>5. \A f, k, t : Done(f, k, t)' <=> f \notin forks \/ f = First(forks)
    BY <2>1, DoneFork
  <2>6. \A f \in DOMAIN file.post : \A k \in DOMAIN file.post[f] : \A t :
           Done(f, k, t)' => Done(f, k, t)
    BY <2>1, <2>4, <2>5 DEF Done
  <2> QED BY <1>1, <2>1, <2>6, RunStays
<1> QED BY <1>2, <1>3, <1>4

LEMMA RunSections ==
    ASSUME InputInv, LoopInv, FileInv, RunInv, mode = "run",
           SkipSection \/ BeginSection \/ EndSection
    PROVE  RunInv'
<1>1. ~ SkipSection
  BY DEF SkipSection, HasFork
<1>2. CASE BeginSection
  <2>1. /\ Stays /\ InFork /\ forks' = forks /\ sections' = sections /\ sections # << >>
        /\ step = "sections" /\ step' = "txs" /\ txs' = Test.txs
        /\ executed' = executed /\ skipped' = skipped
    BY <1>2 DEF BeginSection, Stays, InFork, At, marks
  <2>2. \A f, k, t : Done(f, k, t)' <=>
           \/ f \notin forks
           \/ f = First(forks) /\ (k < Place \/ (k = Place /\ t \notin ToSet(txs')))
    BY <2>1, DoneTransactions
  <2>3. ToSet(txs') = TransactionsOf(file.test)
    BY <2>1, RunPlaces DEF TransactionsOf
  <2>4. \A f, k : \A t \in TransactionsOf(file.test) : Done(f, k, t)' => Done(f, k, t)
    BY <2>1, <2>2, <2>3 DEF Done
  <2>5. ToSet(txs') \cap Head(sections').txs # {}
    BY <2>1, <2>3, RunEntry
  <2> QED BY <2>1, <2>4, <2>5, RunStays
<1>3. CASE EndSection
  <2>1. /\ Stays /\ mode # "idle" /\ sections # << >> /\ InFork
        /\ step = "txs" /\ txs = << >>
        /\ forks' = forks /\ step' = "sections" /\ sections' = Tail(sections)
        /\ executed' = executed /\ skipped' = skipped
    BY <1>3 DEF EndSection, Stays, InFork, At, LoopInv, InSection, marks
  <2>2. \A f \in DOMAIN file.post : \A k \in DOMAIN file.post[f] : \A t :
           Done(f, k, t)' <=> Done(f, k, t) \/ (f = First(forks) /\ k = Place)
    BY <2>1, RunPlaces, DoneSection
  <2>3. \A t : t \notin ToSet(txs)
    BY <2>1 DEF ToSet
  <2>4. \A f, k, t : f = First(forks) /\ k = Place => Done(f, k, t)
    BY <2>1, <2>3 DEF Done
  <2> QED BY <2>1, <2>2, <2>4, RunStays
<1> QED BY <1>1, <1>2, <1>3

LEMMA RunTransactions ==
    ASSUME InputInv, LoopInv, FileInv, RunInv, mode = "run",
           SkipTransaction \/ PassTransaction \/ SendTransaction \/ MineBlock \/ JudgePasses
    PROVE  RunInv'
<1>1. /\ Stays /\ InFork /\ InSection /\ forks' = forks /\ sections' = sections /\ sections # << >>
      /\ step' \in {"txs", "sent", "mined"} /\ step # "sections"
  BY DEF SkipTransaction, PassTransaction, SendTransaction, MineBlock, JudgePasses, Stays,
         InFork, InSection, At, LoopInv
<1>2. \A f, k, t : Done(f, k, t)' <=>
         \/ f \notin forks
         \/ f = First(forks) /\ (k < Place \/ (k = Place /\ t \notin ToSet(txs')))
  BY <1>1, DoneTransactions
<1>3. \A f, k, t : Done(f, k, t) <=>
         \/ f \notin forks
         \/ f = First(forks) /\ (k < Place \/ (k = Place /\ t \notin ToSet(txs)))
  BY <1>1 DEF Done
<1>4. CASE SendTransaction \/ MineBlock
  <2>1. /\ txs' = txs /\ executed' = executed /\ skipped' = skipped /\ step' # "txs" /\ found'
    BY <1>4 DEF SendTransaction, MineBlock, marks, RunInv, At
  <2> QED BY <1>1, <1>2, <1>3, <2>1, RunStays
<1>5. CASE SkipTransaction \/ PassTransaction \/ JudgePasses
  <2>1. txs # << >> /\ txs' = Tail(txs) /\ step' = "txs"
    BY <1>5 DEF SkipTransaction, PassTransaction, JudgePasses, LoopInv, InSection, Named, At
  <2>2. ToSet(txs) = {Head(txs)} \cup ToSet(txs')
    BY <1>1, <2>1, AtTransaction
  <2>3. CASE JudgePasses
    <3>1. executed' = executed \cup {Head(txs)} /\ skipped' = skipped /\ found'
      BY <2>3 DEF JudgePasses, RunInv, At
    <3> QED BY <1>1, <1>2, <1>3, <2>1, <2>2, <3>1, RunStays
  <2>4. step = "txs" => found \/ ToSet(txs) \cap Head(sections).txs # {}
    BY DEF RunInv
  <2>5. CASE SkipTransaction
    <3>1. /\ executed' = executed /\ skipped' = skipped \cup {Head(txs)} /\ step = "txs"
          /\ found' = (found \/ Named)
      BY <2>5 DEF SkipTransaction, At
    <3>2. found' \/ ToSet(txs') \cap Head(sections').txs # {}
      <4>1. CASE found \/ Named
        BY <3>1, <4>1
      <4>2. CASE ~ (found \/ Named)
        <5>1. ToSet(txs) \cap Head(sections).txs # {} /\ Head(txs) \notin Head(sections).txs
          BY <2>1, <2>4, <3>1, <4>2 DEF Named
        <5> QED BY <1>1, <2>2, <5>1
      <4> QED BY <4>1, <4>2
    <3> QED BY <1>1, <1>2, <1>3, <2>1, <2>2, <3>1, <3>2, RunStays
  <2>6. CASE PassTransaction
    <3>1. /\ executed' = executed /\ skipped' = skipped /\ step = "txs" /\ found' = found
          /\ Head(txs) \notin Head(sections).txs
      BY <2>1, <2>6 DEF PassTransaction, At, Named, marks
    <3>2. found' \/ ToSet(txs') \cap Head(sections').txs # {}
      BY <1>1, <2>2, <2>4, <3>1
    <3>3. ~ Owed(First(forks), Place, Head(txs))
      BY <1>1, <2>6, <3>1, RunEntry DEF PassTransaction, Owed
    <3> QED BY <1>1, <1>2, <1>3, <2>1, <2>2, <3>1, <3>2, <3>3, RunStays
  <2> QED BY <1>5, <2>3, <2>5, <2>6
<1> QED BY <1>4, <1>5

LEMMA RunRun ==
    ASSUME InputInv, LoopInv, FileInv, RunInv, mode = "run", Loop, mode' = "run"
    PROVE  RunInv'
<1>1. ~ (SectionNamesNone \/ RefuseEmptyAccount \/ JudgeFails \/ NothingExecuted \/ EndLoop)
  BY DEF SectionNamesNone, RefuseEmptyAccount, JudgeFails, NothingExecuted, Fail, EndLoop
<1>2. ~ WriteFile
  BY DEF WriteFile, InputInv
<1> QED BY <1>1, <1>2, RunForks, RunSections, RunTransactions DEF Loop

-----------------------------------------------------------------------------
(* FilledInv *)

LEMMA InitFilled == Init => FilledInv
<1> SUFFICES ASSUME Init PROVE FilledInv
  OBVIOUS
<1>1. mode = "idle" /\ step = "forks" /\ forks = {} /\ file.written = FALSE
  BY DEF Init, NoFile
<1>2. LoopInv
  BY <1>1 DEF LoopInv, InFork, InSection, At
<1> QED BY <1>1, <1>2 DEF FilledInv, ExactInv, FileInv

LEMMA IdleFilled ==
    ASSUME FilledInv, mode' = "idle", step' = step, forks' = forks, FileInv'
    PROVE  FilledInv'
<1>1. LoopInv' /\ ExactInv'
  BY IdleLoop, NoneExact DEF FilledInv
<1> QED BY <1>1 DEF FilledInv

LEMMA FailFilled ==
    ASSUME FilledInv, NEW error, Fail(error)
    PROVE  FilledInv'
<1>1. mode' = "idle" /\ step' = step /\ forks' = forks /\ file' = file
  BY DEF Fail, disk
<1> QED BY <1>1, FileStays, IdleFilled DEF FilledInv

LEMMA RunnerFilled ==
    ASSUME NEW m, NEW S, S \subseteq Fork, NewRunner(m, S), FileInv',
           m \in {"fill", "chain", "run"},
           m \in {"fill", "chain"} => S \subseteq ForksOf(filler') /\ ~ IsRedundant(filler'),
           m = "run" => S \subseteq DOMAIN file'.post,
           m = "fill" => ForksOf(filler') \subseteq S,
           m = "run" => DOMAIN file'.post \subseteq S
    PROVE  FilledInv'
<1>1. /\ mode' = m /\ step' = "forks" /\ forks' = S /\ results' = << >> /\ DOMAIN results' = {}
      /\ executed' = {} /\ skipped' = {} /\ errors' = {}
  BY DEF NewRunner
<1>2. LoopInv' /\ ExactInv'
  BY <1>1, NewRunnerLoop, NoneExact
<1>3. \A f, i, t : Done(f, i, t)' => f \notin S
  BY <1>1 DEF Done, InFork
<1>4. m = "fill" => ResultsInv'
  <2> SUFFICES ASSUME m = "fill" PROVE ResultsInv'
    OBVIOUS
  <2>1. EntriesOK(results, filler, cmd)'
    BY <1>1 DEF EntriesOK
  <2>2. (\A f \in ForksOf(filler) \cap cmd.nets, i \in DOMAIN filler.expects :
          f \in filler.expects[i].forks =>
             \A t \in filler.expects[i].txs \cap TransactionsOf(filler) \cap cmd.txs :
                Done(f, i, t) => HasResult(results, f, t))'
    <3> SUFFICES ASSUME NEW f \in ForksOf(filler)', NEW i, NEW t, Done(f, i, t)'
                 PROVE  FALSE
      OBVIOUS
    <3>1. f \in ForksOf(filler')
      BY DEF ForksOf
    <3> QED BY <1>3, <3>1
  <2> QED BY <1>1, <2>1, <2>2 DEF ResultsInv
<1>5. m = "fill" => MarksInv'
  <2> SUFFICES ASSUME m = "fill" PROVE MarksInv'
    OBVIOUS
  <2>1. \A f, i, t : ~ (i \in DOMAIN filler'.expects /\ f \in filler'.expects[i].forks /\ Done(f, i, t)')
    BY <1>3 DEF ForksOf
  <2>2. ~ InFork' /\ ~ At("end")'
    BY <1>1 DEF InFork, At
  <2> QED BY <1>1, <2>1, <2>2 DEF MarksInv
<1>6. m = "run" => RunInv'
  BY <1>1, <1>3 DEF RunInv
<1>7. m \in {"fill", "chain"} => ~ IsRedundant(filler)'
  BY DEF IsRedundant
<1> QED BY <1>1, <1>2, <1>4, <1>5, <1>6, <1>7 DEF FilledInv

LEMMA CommandFilled ==
    ASSUME Inv, FilledInv, NEW c \in Commands,
           StartFill(c) \/ RefuseFiller(c) \/ SkipFilling(c) \/ StartRun(c) \/ RefuseRun(c)
    PROVE  FilledInv'
<1>1. mode = "idle" /\ filler' = filler /\ file' = file /\ InputInv
  BY DEF StartFill, RefuseFiller, SkipFilling, StartRun, RefuseRun, Started, Inv
<1>2. FileInv /\ FileInv'
  BY <1>1, FileStays DEF FilledInv
<1>3. ASSUME UNCHANGED <<loop, marks, client, mined, made>>
      PROVE  FilledInv'
  <2>1. mode' = "idle" /\ step' = step /\ forks' = forks
    BY <1>1, <1>3 DEF loop
  <2> QED BY <1>2, <2>1, IdleFilled
<1>4. ASSUME NewRunner("run", DOMAIN file.post), file.written = TRUE
      PROVE  FilledInv'
  <2>1. DOMAIN file.post \subseteq Fork
    BY <1>2, <1>4 DEF FileInv, EntriesOK
  <2> QED BY <1>1, <1>2, <1>4, <2>1, RunnerFilled
<1>5. CASE StartFill(c)
  <2>1. c.mode \in {"fill", "chain"} /\ NewRunner(c.mode, ForksOf(filler)) /\ ~ IsRedundant(filler)
    BY <1>5 DEF StartFill
  <2>2. ForksOf(filler) \subseteq Fork
    BY <1>1, TestIsFiller
  <2> QED BY <1>1, <1>2, <2>1, <2>2, RunnerFilled
<1>6. CASE RefuseFiller(c) \/ RefuseRun(c)
  BY <1>3, <1>6 DEF RefuseFiller, RefuseRun
<1>7. CASE SkipFilling(c)
  <2>1. CASE RunsFile(c) /\ file.written
    <3>1. file.written = TRUE
      BY <1>2, <2>1, <1>7 DEF Inv, RecordsInv
    <3> QED BY <1>4, <1>7, <2>1, <3>1 DEF SkipFilling
  <2>2. CASE ~ (RunsFile(c) /\ file.written)
    BY <1>3, <1>7, <2>2 DEF SkipFilling
  <2> QED BY <2>1, <2>2
<1>8. CASE StartRun(c)
  BY <1>4, <1>8 DEF StartRun, UpToDate
<1> QED BY <1>5, <1>6, <1>7, <1>8

LEMMA WriteFilled ==
    ASSUME Inv, FilledInv, WriteFile
    PROVE  FilledInv'
<1>1. mode = "fill" /\ InputInv
  BY DEF WriteFile, Inv, InputInv
<1>2. FileInv'
  BY <1>1, WriteFileInv DEF FilledInv
<1>3. CASE NewRunner("run", DOMAIN results)
  <2>1. DOMAIN results \subseteq Fork /\ file'.post = results
    BY <1>1 DEF FilledInv, ResultsInv, EntriesOK, WriteFile
  <2> QED BY <1>2, <1>3, <2>1, RunnerFilled
<1>4. CASE mode' = "idle" /\ step' = step /\ forks' = forks
  BY <1>2, <1>4, IdleFilled
<1> QED BY <1>3, <1>4 DEF WriteFile

LEMMA LoopFilled ==
    ASSUME Inv, FilledInv, Loop
    PROVE  FilledInv'
<1>1. CASE WriteFile
  BY <1>1, WriteFilled
<1>2. CASE SectionNamesNone \/ RefuseEmptyAccount \/ JudgeFails \/ NothingExecuted
  BY <1>2, FailFilled DEF SectionNamesNone, RefuseEmptyAccount, JudgeFails, NothingExecuted
<1>3. CASE EndLoop /\ mode # "fill"
  <2>1. mode' = "idle" /\ step' = step /\ forks' = forks /\ file' = file
    BY <1>3 DEF EndLoop, disk
  <2> QED BY <2>1, FileStays, IdleFilled DEF FilledInv
<1>4. CASE ~ (WriteFile \/ SectionNamesNone \/ RefuseEmptyAccount \/ JudgeFails \/ NothingExecuted
              \/ (EndLoop /\ mode # "fill"))
  <2>1. Stays
    BY <1>4 DEF Loop, SkipFork, BeginFork, EndFork, SkipSection, BeginSection, EndSection,
       SkipTransaction, PassTransaction, SendTransaction, MineBlock, JudgePasses, EndLoop, Stays
  <2>2. file' = file /\ filler' = filler /\ mode' = mode
    BY <2>1, WholeStays
  <2>3. mode # "idle"
    BY <1>4 DEF Loop, SkipFork, BeginFork, EndFork, SkipSection, BeginSection, EndSection,
       SkipTransaction, PassTransaction, SendTransaction, MineBlock, JudgePasses, EndLoop, At
  <2>4. InputInv /\ LoopInv /\ FileInv /\ ExactInv
    BY DEF Inv, FilledInv
  <2>5. LoopInv'
    BY <1>4, <2>4, ForkLoop, BeginForkLoop, SectionLoop, WithinLoop, EndLoopLoop DEF Loop
  <2>6. ExactInv'
    <3>1. CASE BeginFork \/ SendTransaction \/ MineBlock \/ JudgePasses
      BY <2>4, <3>1, ClientExact
    <3>2. CASE ~ (BeginFork \/ SendTransaction \/ MineBlock \/ JudgePasses)
      <4>1. /\ client' = client
            /\ \/ step' \in {"forks", "end"}
               \/ (step' \in {"sections", "txs"} /\ step \in {"sections", "txs"} /\ forks' = forks)
        BY <1>4, <2>2, <2>3, <3>2 DEF Loop, SkipFork, EndFork, SkipSection, BeginSection, EndSection,
           SkipTransaction, PassTransaction, EndLoop, Chains, At
      <4> QED BY <2>1, <2>4, <4>1, QuietExact
    <3> QED BY <3>1, <3>2
  <2>7. FileInv'
    BY <2>2, <2>4, FileStays
  <2>8. mode \in {"fill", "chain"} => ~ IsRedundant(filler)'
    BY <2>2 DEF FilledInv, IsRedundant
  <2>9. mode = "fill" => ResultsInv' /\ MarksInv'
    BY <1>4, <2>2, <2>4, FillResults, FillMarks DEF FilledInv
  <2>10. mode = "run" => RunInv'
    BY <2>2, <2>4, RunRun DEF FilledInv
  <2> QED BY <2>2, <2>5, <2>6, <2>7, <2>8, <2>9, <2>10 DEF FilledInv
<1> QED BY <1>1, <1>2, <1>3, <1>4

LEMMA NextFilled == Inv /\ FilledInv /\ [Next]_vars => FilledInv'
<1> SUFFICES ASSUME Inv, FilledInv, [Next]_vars PROVE FilledInv'
  OBVIOUS
<1>1. ASSUME NEW f \in Fillers, EditFiller(f)
      PROVE  FilledInv'
  <2>1. mode' = "idle" /\ step' = step /\ forks' = forks /\ file' = file
    BY <1>1 DEF EditFiller, loop
  <2> QED BY <2>1, FileStays, IdleFilled DEF FilledInv
<1>2. CASE UNCHANGED vars
  <2>1. UNCHANGED <<filler, file, cmd, count, mode, step, forks, sections, txs, found, executed, skipped,
                    client, mined, results, errors>>
    BY <1>2 DEF vars, disk, loop, marks, made
  <2>2. /\ Stays /\ Test' = Test /\ Whole' = Whole /\ InputInv
    BY <2>1, WholeStays DEF Stays, disk, Inv
  <2>3. FileInv'
    BY <2>1, FileStays DEF FilledInv
  <2>4. /\ InFork' <=> InFork
        /\ InSection' <=> InSection
        /\ Place' = Place
    BY <2>1, <2>2 DEF InFork, InSection, Place
  <2>5. LoopInv'
    BY <2>1, <2>2, <2>4
       DEF FilledInv, LoopInv, At, HasFork, Named, Allows, ForksOf, TransactionsOf, IsInjective
  <2>6. ExactInv'
    BY <2>1, <2>2 DEF FilledInv, ExactInv
  <2>7. \A f, i, t : Done(f, i, t)' <=> Done(f, i, t)
    BY <2>1, <2>4 DEF Done
  <2>8. mode \in {"fill", "chain"} => ~ IsRedundant(filler)'
    BY <2>1 DEF FilledInv, IsRedundant
  <2>9. mode = "fill" => ResultsInv'
    BY <2>1, <2>2, <2>7, ResultsStay DEF FilledInv
  <2>10. mode = "fill" => MarksInv'
    <3> SUFFICES ASSUME mode = "fill" PROVE MarksInv'
      OBVIOUS
    <3>1. MarksInv
      BY DEF FilledInv
    <3>2. /\ errors' = {} <=> (step' = "end" => TransactionsOf(filler) \subseteq executed' \cup skipped')
          /\ step' = "end" => executed' # {}
          /\ InFork' => First(forks') \in cmd.nets
      BY <2>1, <2>4, <3>1 DEF MarksInv, At, Covered
    <3>3. \A f \in DOMAIN results' : \A k \in DOMAIN results'[f] : results'[f][k].txs \subseteq executed'
      BY <2>1, <3>1 DEF MarksInv
    <3> QED BY <2>1, <2>2, <2>7, <3>1, <3>2, <3>3, MarksStay
  <2>11. mode = "run" => RunInv'
    <3>1. mode = "run" => RunInv
      BY DEF FilledInv
    <3>2. mode = "run" => /\ step' = "txs" => found' \/ ToSet(txs') \cap Head(sections').txs # {}
                          /\ step' \in {"sent", "mined"} => found'
      BY <2>1, <3>1 DEF RunInv
    <3> QED BY <2>1, <2>2, <2>7, <3>1, <3>2, RunStays
  <2> QED BY <2>1, <2>3, <2>5, <2>6, <2>8, <2>9, <2>10, <2>11 DEF FilledInv
<1> QED BY <1>1, <1>2, CommandFilled, LoopFilled DEF Next

-----------------------------------------------------------------------------
(* FilledTestPasses *)

\* A result of a file is judged as it was when it was written.
LEMMA RunAgrees ==
    ASSUME InputInv, LoopInv, FileInv, ExactInv, mode = "run", At("mined"),
           cmd.reports => file.by.reports
    PROVE  ~ Complaint
<1> DEFINE h == First(forks)
           t == Head(txs)
           e == Head(sections)
<1>1. InFork /\ InSection /\ step = "mined" /\ sections # << >> /\ Named /\ Test = file.test
  BY DEF At, InFork, InSection, LoopInv, Test
<1>2. EntryOK(h, file.test, file.by, e)
  BY <1>1, RunEntry
<1>3. PICK u \in TransactionsOf(file.test) :
         /\ e.txs = {u}
         /\ e.root = Root(Mined(ChainFor(file.test, h, u)))
         /\ file.by.reports => ExceptionOf(e, h) = ReasonFor(file.test, h, u)
         /\ ExceptionOf(e, h) = "" => u \in Last(Mined(ChainFor(file.test, h, u)).blocks).txs
  BY <1>2, Zenon DEF EntryOK
<1>4. u = t
  BY <1>1, <1>3 DEF Named
<1>5. client = Mined(ChainFor(file.test, h, t)) /\ mined = Rejected(ChainFor(file.test, h, t))
  BY <1>1 DEF ExactInv
<1>6. Reason(t) = ReasonFor(file.test, h, t)
  BY <1>5 DEF Reason, ReasonFor
<1>7. Exception = ExceptionOf(e, h) /\ Outcome = Root(client)
  BY DEF Exception, Outcome
<1>8. ~ WrongVerdict(Exception, Reason(t))
  BY <1>3, <1>4, <1>6, <1>7, Zenon DEF WrongVerdict
<1>9. ~ (Exception = "" /\ t \notin Last(client.blocks).txs)
  BY <1>3, <1>4, <1>5, <1>7
<1>10. Outcome = e.root
  BY <1>3, <1>4, <1>5, <1>7
<1> QED BY <1>8, <1>9, <1>10 DEF Complaint

\* A run marks every transaction it is not allowed, and every one with a result.
LEMMA RunCovers ==
    ASSUME InputInv, LoopInv, FileInv, RunInv, mode = "run", forks = {}
    PROVE  Uncovered \subseteq WithoutResult \cap cmd.txs
<1>1. file.written = TRUE /\ Test = file.test
  BY DEF InputInv, Test
<1>2. \A f, i, t : Done(f, i, t)
  BY DEF Done
<1>3. PICK f1 \in DOMAIN file.post : DOMAIN file.post[f1] # {}
  BY <1>1 DEF FileInv
<1> SUFFICES ASSUME NEW t \in TransactionsOf(file.test), t \notin executed \cup skipped
             PROVE  t \in WithoutResult \cap cmd.txs
  BY <1>1 DEF Uncovered
<1>4. t \in cmd.txs
  BY <1>2, <1>3 DEF RunInv, Owed, Allows
<1>5. ASSUME NEW f \in DOMAIN file.post, NEW k \in DOMAIN file.post[f], t \in file.post[f][k].txs
      PROVE  FALSE
  <2>1. EntryOK(f, file.test, file.by, file.post[f][k])
    BY <1>1 DEF FileInv, EntriesOK
  <2>2. PICK u : file.post[f][k].txs = {u}
    BY <2>1, Zenon DEF EntryOK
  <2>3. file.post[f][k].txs = {t}
    BY <1>5, <2>2
  <2> QED BY <1>2, <2>3 DEF RunInv, Owed
<1> QED BY <1>4, <1>5 DEF WithoutResult

LEMMA RunPasses ==
    ASSUME Inv, FilledInv, [Next]_vars, mode = "run", cmd.reports => file.by.reports
    PROVE  errors' \subseteq errors \cup
              IF WithoutResult \cap cmd.txs = {} THEN {} ELSE {"uncovered"}
<1>1. InputInv /\ LoopInv /\ FileInv /\ ExactInv /\ RunInv
  BY DEF Inv, FilledInv
<1>2. CASE UNCHANGED vars
  BY <1>2 DEF vars
<1>3. ~ (\E f \in Fillers : EditFiller(f))
      /\ ~ (\E c \in Commands : StartFill(c) \/ RefuseFiller(c) \/ SkipFilling(c) \/ StartRun(c) \/ RefuseRun(c))
  BY DEF EditFiller, StartFill, RefuseFiller, SkipFilling, StartRun, RefuseRun, Started
<1>4. ~ JudgeFails
  BY <1>1, RunAgrees DEF JudgeFails
<1>5. ~ SectionNamesNone
  <2> SUFFICES ASSUME SectionNamesNone PROVE FALSE
    OBVIOUS
  <2>1. step = "txs" /\ txs = << >> /\ ~ found
    BY DEF SectionNamesNone, At
  <2>2. ToSet(txs) = {}
    BY <2>1 DEF ToSet
  <2> QED BY <1>1, <2>1, <2>2 DEF RunInv
<1>6. ~ (RefuseEmptyAccount \/ NothingExecuted \/ WriteFile)
  BY <1>1 DEF RefuseEmptyAccount, NothingExecuted, WriteFile, InputInv
<1>7. CASE EndLoop
  <2>1. Uncovered \subseteq WithoutResult \cap cmd.txs
    BY <1>1, <1>7, RunCovers DEF EndLoop
  <2>2. errors' = IF Uncovered = {} THEN errors ELSE errors \cup {"uncovered"}
    BY <1>7 DEF EndLoop
  <2> QED BY <2>1, <2>2
<1>8. CASE SkipFork \/ BeginFork \/ EndFork \/ SkipSection \/ BeginSection \/ EndSection
           \/ SkipTransaction \/ PassTransaction \/ SendTransaction \/ MineBlock \/ JudgePasses
  BY <1>8 DEF SkipFork, BeginFork, EndFork, SkipSection, BeginSection, EndSection,
     SkipTransaction, PassTransaction, SendTransaction, MineBlock, JudgePasses
<1> QED BY <1>2, <1>3, <1>4, <1>5, <1>6, <1>7, <1>8 DEF Next, Loop

-----------------------------------------------------------------------------
(* The theorems *)

\* What the loop has done at each place, and what the file says of it.
THEOREM FilledInvariant == Spec => []FilledInv
<1> QED BY StateTestInvariant, InitFilled, NextFilled, PTL DEF Spec

\* For any filler, filter, order of the forks and number of sections: the file
\* has exactly one result for each transaction that is named and allowed, with
\* the exception of its section, however the commands before it ended.
THEOREM NothingIsMissed == Spec => []NothingMissed
<1>1. FilledInv => NothingMissed
  <2>1. file.written => file.written = TRUE
    OBVIOUS
  <2>2. ~ file.written => NothingMissed
    BY DEF NothingMissed
  <2> QED BY <2>1, <2>2 DEF FilledInv, FileInv
<1> QED BY <1>1, FilledInvariant, PTL

\* Whatever filler and filters: filling complains of an uncovered transaction
\* exactly if there is one among those let pass and no fork was skipped.
THEOREM UncoveredAlwaysMarked == Spec => []UncoveredIsMarked
<1>1. FilledInv => UncoveredIsMarked
  <2>1. file.written => file.written = TRUE
    OBVIOUS
  <2>2. ~ file.written => UncoveredIsMarked
    BY DEF UncoveredIsMarked
  <2> QED BY <2>1, <2>2 DEF FilledInv, FileInv
<1> QED BY <1>1, FilledInvariant, PTL

\* Running a file, on any subset of its forks and transactions, marks no error
\* but that of a transaction it has no result of: every transaction meets the
\* chain it was filled on, and the run covers what the file covers.
THEOREM FilledTestsPass == Spec => FilledTestPasses
<1>1. Inv /\ FilledInv /\ [Next]_vars
      => [mode = "run" /\ (cmd.reports => file.by.reports)
          => errors' \subseteq errors \cup
                IF WithoutResult \cap cmd.txs = {} THEN {} ELSE {"uncovered"}]_vars
  BY RunPasses
<1> QED BY <1>1, StateTestInvariant, FilledInvariant, PTL DEF Spec, FilledTestPasses

-----------------------------------------------------------------------------
(* SystemAccountsFit *)

Modified == {c \in chainTests : NeedsAccounts(c.fork)}

\* The accounts of the last fork that needed any.
LastModified ==
    IF Modified = {} THEN statePre = {}
    ELSE \E b \in Modified :
            /\ \A d \in Modified : ForkRank[d.fork] <= ForkRank[b.fork]
            /\ statePre = SystemOf[b.fork] \ filler.pre

\* SystemAccountsFit of one test.
AccountsOf(c) ==
    IF NeedsAccounts(c.fork) THEN c.pre = filler.pre \cup SystemOf[c.fork]
    ELSE IF ModifiedBefore(c.fork) = {} THEN c.pre = filler.pre
    ELSE \E b \in ModifiedBefore(c.fork) :
            /\ \A d \in ModifiedBefore(c.fork) : ForkRank[d.fork] <= ForkRank[b.fork]
            /\ c.pre = filler.pre \cup SystemOf[b.fork]

\* The forks of the tests made are in the order of names, before those left; the
\* pre state is modified for the fork at hand, or for the last before it.
AccountsInv ==
    mode = "chain" =>
        /\ \A c \in chainTests :
              /\ c.fork \in Fork /\ c.pre = c.root.pre /\ AccountsOf(c)
              /\ \A g \in forks : ForkRank[c.fork] <= ForkRank[g]
        /\ IF step \in {"sent", "mined"} /\ NeedsAccounts(First(forks))
           THEN statePre = SystemOf[First(forks)] \ filler.pre
           ELSE LastModified

LEMMA RanksDiffer ==
    ASSUME NEW f \in Fork, NEW g \in Fork, ForkRank[f] = ForkRank[g]
    PROVE  f = g
BY StateTestAssumption DEF IsInjective

\* What no step changes but SendTransaction and JudgePasses.
LEMMA AccountsStay ==
    ASSUME AccountsInv, filler' = filler, mode' = mode, UNCHANGED <<statePre, chainTests>>,
           forks' \subseteq forks,
           step' \notin {"sent", "mined"}, step \notin {"sent", "mined"}
    PROVE  AccountsInv'
<1>1. LastModified' <=> LastModified
  BY DEF LastModified, Modified, NeedsAccounts
<1>2. \A c : AccountsOf(c)' <=> AccountsOf(c)
  BY DEF AccountsOf, ModifiedBefore, NeedsAccounts
<1> QED BY <1>1, <1>2 DEF AccountsInv

LEMMA SendAccounts ==
    ASSUME LoopInv, AccountsInv, SendTransaction
    PROVE  AccountsInv'
<1>1. /\ filler' = filler /\ mode' = mode /\ chainTests' = chainTests /\ forks' = forks
      /\ step = "txs" /\ step' = "sent"
  BY DEF SendTransaction, disk, At
<1>2. SUFFICES ASSUME mode = "chain" PROVE AccountsInv'
  BY <1>1 DEF AccountsInv
<1>3. statePre' = StatePre(First(forks)) /\ Test = filler
  BY <1>2 DEF SendTransaction, Test
<1>4. \A c : AccountsOf(c)' <=> AccountsOf(c)
  BY <1>1 DEF AccountsOf, ModifiedBefore, NeedsAccounts
<1>5. CASE NeedsAccounts(First(forks))
  <2>1. statePre' = SystemOf[First(forks)] \ filler.pre
    BY <1>3, <1>5 DEF StatePre, NeedsAccounts
  <2>2. NeedsAccounts(First(forks))'
    BY <1>1, <1>5 DEF NeedsAccounts
  <2> QED BY <1>1, <1>2, <1>4, <2>1, <2>2 DEF AccountsInv
<1>6. CASE ~ NeedsAccounts(First(forks))
  <2>1. statePre' = statePre
    BY <1>3, <1>6 DEF StatePre, NeedsAccounts
  <2>2. LastModified' <=> LastModified
    BY <1>1, <2>1 DEF LastModified, Modified, NeedsAccounts
  <2>3. ~ NeedsAccounts(First(forks))'
    BY <1>1, <1>6 DEF NeedsAccounts
  <2> QED BY <1>1, <1>2, <1>4, <2>2, <2>3 DEF AccountsInv
<1> QED BY <1>5, <1>6

LEMMA MineAccounts ==
    ASSUME AccountsInv, MineBlock
    PROVE  AccountsInv'
<1>1. /\ filler' = filler /\ mode' = mode /\ chainTests' = chainTests /\ forks' = forks
      /\ statePre' = statePre /\ step = "sent" /\ step' = "mined"
  BY DEF MineBlock, disk, made, At
<1>2. LastModified' <=> LastModified
  BY <1>1 DEF LastModified, Modified, NeedsAccounts
<1>3. \A c : AccountsOf(c)' <=> AccountsOf(c)
  BY <1>1 DEF AccountsOf, ModifiedBefore, NeedsAccounts
<1>4. NeedsAccounts(First(forks))' <=> NeedsAccounts(First(forks))
  BY <1>1 DEF NeedsAccounts
<1> QED BY <1>1, <1>2, <1>3, <1>4 DEF AccountsInv

LEMMA JudgeAccounts ==
    ASSUME Inv, LoopInv, AccountsInv, JudgePasses
    PROVE  AccountsInv'
<1>1. /\ filler' = filler /\ mode' = mode /\ forks' = forks /\ statePre' = statePre
      /\ step = "mined" /\ mode # "idle" /\ step' = "txs" /\ At("mined") /\ ~ Complaint
  BY DEF JudgePasses, disk, At
<1>2. SUFFICES ASSUME mode = "chain" PROVE AccountsInv'
  BY <1>1 DEF AccountsInv
<1>h. PICK h : h = First(forks)
  OBVIOUS
<1>e. PICK e : e = ChainTest
  OBVIOUS
<1>3. chainTests' = chainTests \cup {e} /\ e.fork = h /\ e.pre = filler.pre \cup statePre
  BY <1>2, <1>h, <1>e DEF JudgePasses, ChainTest, Test
<1>4. e.pre = e.root.pre
  BY <1>1, <1>2, <1>e, ChainTestOK
<1>5. h \in forks /\ h \in Fork /\ \A g \in forks : ForkRank[h] <= ForkRank[g]
  <2>1. forks # {} /\ forks \subseteq Fork
    BY <1>1 DEF LoopInv, InFork
  <2> QED BY <2>1, <1>h, FirstIsLeast
<1>6. \A c \in chainTests : c.fork \in Fork /\ ForkRank[c.fork] <= ForkRank[h]
  BY <1>2, <1>5 DEF AccountsInv
<1>7. \A f : NeedsAccounts(f)' <=> NeedsAccounts(f)
  BY <1>1 DEF NeedsAccounts
<1>8. ForkRank \in [Fork -> Nat]
  BY StateTestAssumption
\* No test comes before one that was made already.
<1>9. \A f \in Fork : ForkRank[f] <= ForkRank[h] => ModifiedBefore(f)' = ModifiedBefore(f)
  <2> SUFFICES ASSUME NEW f \in Fork, ForkRank[f] <= ForkRank[h]
               PROVE  ModifiedBefore(f)' = ModifiedBefore(f)
    OBVIOUS
  <2>1. ~ (ForkRank[e.fork] < ForkRank[f])
    BY <1>3, <1>5, <1>8
  <2>2. \A c \in chainTests' : NeedsAccounts(c.fork)' /\ ForkRank[c.fork] < ForkRank[f]
                               <=> /\ c \in chainTests /\ NeedsAccounts(c.fork)
                                   /\ ForkRank[c.fork] < ForkRank[f]
    BY <1>3, <1>7, <2>1
  <2> QED BY <1>1, <1>3, <2>2 DEF ModifiedBefore, NeedsAccounts
<1>10. \A c \in chainTests : AccountsOf(c)'
  <2> SUFFICES ASSUME NEW c \in chainTests PROVE AccountsOf(c)'
    OBVIOUS
  <2>1. AccountsOf(c)
    BY <1>2 DEF AccountsInv
  <2>2. ModifiedBefore(c.fork)' = ModifiedBefore(c.fork)
    BY <1>6, <1>9
  <2>3. NeedsAccounts(c.fork)' <=> NeedsAccounts(c.fork)
    BY <1>7
  <2> QED BY <1>1, <2>1, <2>2, <2>3 DEF AccountsOf
<1>11. CASE NeedsAccounts(h)
  <2>1. statePre = SystemOf[h] \ filler.pre
    BY <1>h, <1>1, <1>2, <1>11 DEF AccountsInv
  <2>2. AccountsOf(e)'
    BY <1>1, <1>3, <1>7, <1>11, <2>1 DEF AccountsOf
  <2>3. Modified' = Modified \cup {e}
    BY <1>3, <1>7, <1>11 DEF Modified
  <2>4. \A d \in Modified' : ForkRank[d.fork] <= ForkRank[e.fork]
    BY <1>3, <1>5, <1>6, <1>8, <2>3 DEF Modified
  <2>5. LastModified'
    BY <1>1, <1>3, <2>1, <2>3, <2>4 DEF LastModified
  <2> QED BY <1>1, <1>2, <1>3, <1>4, <1>5, <1>10, <2>2, <2>5 DEF AccountsInv
<1>12. CASE ~ NeedsAccounts(h)
  <2>1. LastModified
    BY <1>h, <1>1, <1>2, <1>12 DEF AccountsInv
  <2>2. Modified' = Modified
    BY <1>3, <1>7, <1>12 DEF Modified
  <2>3. LastModified'
    BY <1>1, <2>1, <2>2 DEF LastModified
  <2>4. ModifiedBefore(h) = Modified
    <3> SUFFICES ASSUME NEW c \in Modified PROVE ForkRank[c.fork] < ForkRank[h]
      BY DEF ModifiedBefore, Modified
    <3>1. c.fork \in Fork /\ c.fork # h /\ ForkRank[c.fork] <= ForkRank[h]
      BY <1>6, <1>12 DEF Modified
    <3>2. ForkRank[c.fork] # ForkRank[h]
      BY <1>5, <3>1, RanksDiffer
    <3> QED BY <1>5, <1>8, <3>1, <3>2
  <2>5. ModifiedBefore(h)' = Modified
    BY <1>5, <1>8, <1>9, <2>4
  <2>6. AccountsOf(e)'
    BY <1>1, <1>3, <1>7, <1>12, <2>1, <2>5 DEF AccountsOf, LastModified
  <2> QED BY <1>1, <1>2, <1>3, <1>4, <1>5, <1>10, <2>3, <2>6 DEF AccountsInv
<1> QED BY <1>11, <1>12

LEMMA NextAccounts == Inv /\ LoopInv /\ AccountsInv /\ [Next]_vars => AccountsInv'
<1> SUFFICES ASSUME Inv, LoopInv, AccountsInv, [Next]_vars PROVE AccountsInv'
  OBVIOUS
<1>1. CASE UNCHANGED vars
  BY <1>1 DEF vars, disk, loop, made, AccountsInv, AccountsOf, ModifiedBefore, LastModified, Modified,
              NeedsAccounts
<1>2. ASSUME NEW f \in Fillers, EditFiller(f)
      PROVE  AccountsInv'
  BY <1>2 DEF EditFiller, loop, AccountsInv
<1>3. ASSUME NEW c \in Commands,
             StartFill(c) \/ RefuseFiller(c) \/ SkipFilling(c) \/ StartRun(c) \/ RefuseRun(c)
      PROVE  AccountsInv'
  <2>1. mode = "idle"
    BY <1>3 DEF StartFill, RefuseFiller, SkipFilling, StartRun, RefuseRun, Started
  <2>2. \/ mode' = mode
        \/ step' = "forks" /\ chainTests' = {} /\ statePre' = {}
    BY <1>3 DEF StartFill, RefuseFiller, SkipFilling, StartRun, RefuseRun, NewRunner, loop
  <2>3. step' = "forks" /\ chainTests' = {} /\ statePre' = {} => AccountsInv'
    BY DEF AccountsInv, LastModified, Modified
  <2> QED BY <2>1, <2>2, <2>3 DEF AccountsInv
<1>4. CASE SectionNamesNone \/ RefuseEmptyAccount \/ JudgeFails \/ NothingExecuted
  BY <1>4 DEF SectionNamesNone, RefuseEmptyAccount, JudgeFails, NothingExecuted, Fail, AccountsInv
<1>5. CASE EndLoop \/ WriteFile
  <2>1. mode' # "chain"
    BY <1>5 DEF EndLoop, WriteFile, NewRunner, Inv, InputInv
  <2> QED BY <2>1 DEF AccountsInv
<1>6. CASE SkipFork \/ BeginFork \/ EndFork \/ SkipSection \/ BeginSection \/ EndSection
           \/ SkipTransaction \/ PassTransaction
  <2>1. /\ filler' = filler /\ mode' = mode /\ statePre' = statePre /\ chainTests' = chainTests
        /\ forks' \subseteq forks
        /\ step' \notin {"sent", "mined"} /\ step \notin {"sent", "mined"}
    BY <1>6 DEF SkipFork, BeginFork, EndFork, SkipSection, BeginSection, EndSection, SkipTransaction,
       PassTransaction, At, disk, made
  <2> QED BY <2>1, AccountsStay
<1> QED BY <1>1, <1>2, <1>3, <1>4, <1>5, <1>6, SendAccounts, MineAccounts, JudgeAccounts DEF Next, Loop

\* For any forks, filler and filters: a blockchain test lists the accounts its
\* client started with, which are those of its own fork, or of the last one
\* before it if its own needs none.
THEOREM SystemAccountsAlwaysFit == Spec => []SystemAccountsFit
<1>1. Init => AccountsInv
  BY DEF Init, AccountsInv
<1>2. AccountsInv => SystemAccountsFit
  BY DEF AccountsInv, AccountsOf, SystemAccountsFit
<1>3. FilledInv => LoopInv
  BY DEF FilledInv
<1> QED BY <1>1, <1>2, <1>3, NextAccounts, StateTestInvariant, FilledInvariant, PTL DEF Spec

-----------------------------------------------------------------------------
(* Types *)

\* The parts of TypeOK that Inv and LoopInv do not say.
TypeInv ==
    /\ cmd \in Commands /\ count \in 0 .. MaxCommands
    /\ found \in BOOLEAN
    /\ executed \subseteq Tx /\ skipped \subseteq Tx /\ txs \in Seq(Tx)
    /\ errors \subseteq Errors
    /\ IsChain(client) /\ client.fork \in Fork
    /\ ~ At("sent") => client.pending = << >> /\ client.dropped = {}

LEMMA InitTypes == Init => TypeInv
<1> SUFFICES ASSUME Init PROVE TypeInv
  OBVIOUS
<1>1. cmd \in Commands /\ count \in 0 .. MaxCommands
  BY StateTestAssumption DEF Init
<1>2. client = NewChain(First(Fork), filler.pre, filler.env)
  BY DEF Init
<1>3. Fresh(client, First(Fork), filler.env)
  BY <1>2, NewChainFresh
<1>4. First(Fork) \in Fork
  BY FirstIn, StateTestAssumption
<1>5. /\ found = FALSE /\ executed = {} /\ skipped = {} /\ txs = << >> /\ errors = {}
  BY DEF Init
<1>6. txs \in Seq(Tx) /\ executed \subseteq Tx /\ skipped \subseteq Tx /\ errors \subseteq Errors
  BY <1>5, EmptySeq
<1>7. /\ IsChain(client) /\ client.fork \in Fork /\ client.pending = << >> /\ client.dropped = {}
  BY <1>3, <1>4 DEF Fresh
<1> QED BY <1>1, <1>5, <1>6, <1>7 DEF TypeInv

LEMMA TypesImply == Inv /\ LoopInv /\ TypeInv => TypeOK
<1> SUFFICES ASSUME Inv, LoopInv, TypeInv PROVE TypeOK
  OBVIOUS
<1>1. /\ filler \in Fillers /\ mode \in {"idle", "fill", "chain", "run"}
      /\ step \in {"forks", "sections", "txs", "sent", "mined", "end"}
      /\ forks \subseteq Fork
  BY DEF Inv, InputInv, LoopInv
<1>2. ToSet(txs) \subseteq Tx
  BY OfItsSet DEF TypeInv
<1>3. At("mined") => Len(client.blocks) = 2
  BY DEF Inv, ClientInv, OneBlock
<1>4. At("sent") => Len(client.blocks) = 1
  <2>1. At("sent") => client.blocks = <<GenesisOf(Test.env)>>
    BY DEF Inv, ClientInv, Sent
  <2> QED BY <2>1
<1>5. Between => Len(client.blocks) = 1
  <2>1. Between => client.blocks = <<GenesisOf(Test.env)>>
    BY DEF Inv, ClientInv, Fresh
  <2> QED BY <2>1
<1>6. At("sent") => ToSet(client.pending) \cup client.dropped = {Head(txs)}
  BY DEF Inv, ClientInv, Sent, ToSet
<1>7. ~ At("sent") => ToSet(client.pending) \cup client.dropped = {}
  BY DEF TypeInv, ToSet
<1> QED BY <1>1, <1>2, <1>3, <1>4, <1>5, <1>6, <1>7 DEF TypeOK, TypeInv

\* What the client keeps of its chain.
LEMMA SameChain ==
    ASSUME TypeInv, client' = client, ~ At("sent")
    PROVE  /\ IsChain(client)' /\ client'.fork \in Fork
           /\ client'.pending = << >> /\ client'.dropped = {}
BY DEF TypeInv, IsChain

LEMMA QuietTypes ==
    ASSUME TypeInv, client' = client, ~ At("sent"),
           cmd' = cmd, count' = count,
           found' \in BOOLEAN, executed' \subseteq Tx, skipped' \subseteq Tx, txs' \in Seq(Tx),
           errors' \subseteq Errors
    PROVE  TypeInv'
BY SameChain DEF TypeInv, Errors

LEMMA CommandTypes ==
    ASSUME TypeInv, mode = "idle", NEW c \in Commands, Started(c), client' = client,
           \/ UNCHANGED <<loop, marks>> /\ errors' \subseteq Errors
           \/ \E m, S : NewRunner(m, S)
    PROVE  TypeInv'
<1>1. cmd' \in Commands /\ count' \in 0 .. MaxCommands
  BY StateTestAssumption DEF Started, TypeInv
<1>2. ~ At("sent")
  BY DEF At
<1>3. /\ IsChain(client)' /\ client'.fork \in Fork
      /\ client'.pending = << >> /\ client'.dropped = {}
  BY <1>2, SameChain
<1>4. /\ found' \in BOOLEAN /\ executed' \subseteq Tx /\ skipped' \subseteq Tx /\ txs' \in Seq(Tx)
      /\ errors' \subseteq Errors
  <2>1. CASE UNCHANGED <<loop, marks>> /\ errors' \subseteq Errors
    BY <2>1 DEF TypeInv, loop, marks
  <2>2. CASE \E m, S : NewRunner(m, S)
    <3>1. found' = FALSE /\ executed' = {} /\ skipped' = {} /\ txs' = << >> /\ errors' = {}
      BY <2>2 DEF NewRunner
    <3> QED BY <3>1, EmptySeq
  <2> QED BY <2>1, <2>2
<1> QED BY <1>1, <1>3, <1>4 DEF TypeInv, Errors

LEMMA FailTypes ==
    ASSUME TypeInv, ~ At("sent"), NEW error \in Errors, Fail(error)
    PROVE  TypeInv'
<1>1. /\ client' = client /\ cmd' = cmd /\ count' = count /\ found' = found
      /\ executed' = executed /\ skipped' = skipped /\ txs' = txs /\ errors' = errors \cup {error}
  BY DEF Fail, disk, marks
<1> QED BY <1>1, QuietTypes DEF TypeInv

LEMMA LoopTypes ==
    ASSUME Inv, LoopInv, FileInv, TypeInv, Loop
    PROVE  TypeInv'
<1>1. /\ found \in BOOLEAN /\ executed \subseteq Tx /\ skipped \subseteq Tx /\ txs \in Seq(Tx)
      /\ errors \subseteq Errors
  BY DEF TypeInv
<1>2. InputInv /\ Test.txs \in Seq(Tx) /\ TransactionsOf(Test) \subseteq Tx
  BY TestIsFiller DEF Inv
<1>3. CASE SkipFork \/ EndFork \/ SkipSection \/ BeginSection \/ EndSection
  <2>1. /\ client' = client /\ ~ At("sent") /\ cmd' = cmd /\ count' = count
        /\ found' \in {found, FALSE} /\ executed' = executed
        /\ skipped' \in {skipped, TransactionsOf(Test)} /\ txs' \in {txs, Test.txs} /\ errors' = errors
    BY <1>3 DEF SkipFork, EndFork, SkipSection, BeginSection, EndSection, At, Chains, disk, marks
  <2> QED BY <1>1, <1>2, <2>1, QuietTypes
<1>4. CASE SkipTransaction \/ PassTransaction
  <2>1. /\ client' = client /\ ~ At("sent") /\ cmd' = cmd /\ count' = count
        /\ found' \in {found, (found \/ Named)} /\ executed' = executed
        /\ skipped' \in {skipped, skipped \cup {Head(txs)}} /\ txs' = Tail(txs) /\ errors' = errors
        /\ InSection /\ txs # << >>
    BY <1>4 DEF SkipTransaction, PassTransaction, At, Chains, disk, marks, InSection
  <2>2. Head(txs) \in Tx
    BY <1>2, <2>1, AtTransaction
  <2>3. Tail(txs) \in Seq(Tx)
    BY <1>1, <2>1, HeadTailProperties
  <2>4. found' \in BOOLEAN
    BY <1>1, <2>1
  <2> QED BY <1>1, <2>1, <2>2, <2>3, <2>4, QuietTypes
<1>5. CASE SectionNamesNone \/ RefuseEmptyAccount \/ JudgeFails \/ NothingExecuted
  BY <1>5, FailTypes DEF SectionNamesNone, RefuseEmptyAccount, JudgeFails, NothingExecuted, At, Errors
<1>6. CASE EndLoop
  <2>1. /\ client' = client /\ ~ At("sent") /\ cmd' = cmd /\ count' = count /\ found' = found
        /\ executed' = executed /\ skipped' = skipped /\ txs' = txs
        /\ errors' \in {errors, errors \cup {"uncovered"}}
    BY <1>6 DEF EndLoop, Chains, disk, marks, At
  <2>2. errors' \subseteq Errors
    BY <1>1, <2>1 DEF Errors
  <2> QED BY <1>1, <2>1, <2>2, QuietTypes
<1>7. CASE WriteFile
  <2>1. /\ client' = client /\ ~ At("sent") /\ cmd' = cmd /\ count' = count
        /\ found' \in {found, FALSE} /\ executed' \in {executed, {}} /\ skipped' \in {skipped, {}}
        /\ txs' \in {txs, << >>} /\ errors' \in {errors, {}}
    BY <1>7 DEF WriteFile, NewRunner, At, disk, marks
  <2>2. txs' \in Seq(Tx)
    BY <1>1, <2>1, EmptySeq
  <2> QED BY <1>1, <2>1, <2>2, QuietTypes
<1>8. CASE BeginFork
  <2>1. /\ cmd' = cmd /\ count' = count /\ found' = found /\ executed' = executed
        /\ skipped' = skipped /\ txs' = txs /\ errors' = errors /\ ~ At("sent")
        /\ forks # {} /\ client' \in {client, NewChain(First(forks), Test.pre, Test.env)}
    BY <1>8 DEF BeginFork, disk, marks, At
  <2>2. CASE client' = client
    BY <1>1, <2>1, <2>2, QuietTypes
  <2>3. CASE client' = NewChain(First(forks), Test.pre, Test.env)
    <3>1. Fresh(client', First(forks), Test.env)
      BY <2>3, NewChainFresh
    <3>2. First(forks) \in Fork
      BY <2>1, FirstIn DEF LoopInv
    <3>3. IsChain(client')
      BY <3>1 DEF Fresh
    <3> QED BY <2>1, <3>1, <3>2, <3>3 DEF TypeInv, Fresh, IsChain
  <2> QED BY <2>1, <2>2, <2>3
<1>9. CASE SendTransaction \/ MineBlock \/ JudgePasses
  <2>1. /\ cmd' = cmd /\ count' = count /\ found' \in {found, TRUE}
        /\ executed' \in {executed, executed \cup {Head(txs)}} /\ skipped' = skipped
        /\ txs' \in {txs, Tail(txs)} /\ errors' = errors /\ InSection /\ mode' = mode
        /\ txs # << >>
    BY <1>9 DEF SendTransaction, MineBlock, JudgePasses, disk, marks, At, InSection, LoopInv, Named
  <2>2. Head(txs) \in Tx
    BY <1>2, <2>1, AtTransaction
  <2>3. Tail(txs) \in Seq(Tx)
    BY <1>1, <2>1, HeadTailProperties
  <2>4. First(forks) \in Fork
    BY <2>1, FirstIn DEF LoopInv, InFork, InSection
  <2>5. Inv'
    BY <1>9, SendInv, MineInv, JudgeInv
  <2>6. /\ IsChain(client') /\ client'.fork \in Fork
        /\ ~ At("sent")' => client'.pending = << >> /\ client'.dropped = {}
    <3>1. CASE SendTransaction
      <4>1. At("sent")' /\ forks' = forks /\ mode' # "idle"
        BY <3>1 DEF SendTransaction, At
      <4>2. Sent(client, First(forks), Test.env, Head(txs))'
        BY <2>5, <4>1 DEF Inv, ClientInv
      <4> QED BY <2>4, <4>1, <4>2 DEF Sent, IsChain
    <3>2. CASE MineBlock
      <4>1. IsChain(client) /\ client.fork \in Fork /\ client' = Mined(client)
        BY <3>2 DEF MineBlock, TypeInv
      <4>2. \E b : client' = Chain(client.fork, client.pre, b, << >>, {})
        <5> DEFINE b == Append(client.blocks,
                      [baseFee  |-> BaseFee(Last(client.blocks)), gasLimit |-> Last(client.blocks).gasLimit,
                       gasUsed  |-> TxGas * Cardinality(Accepted(client)),
                       excess   |-> ExcessOfNext(client), txs |-> Accepted(client)])
        <5>1. client' = [client EXCEPT !.blocks = b, !.pending = << >>, !.dropped = {}]
          BY <4>1 DEF Mined
        <5> HIDE DEF b
        <5> QED BY <4>1, <5>1, SetThree
      <4> QED BY <4>1, <4>2, ChainParts
    <3>3. CASE JudgePasses
      <4>1. IsChain(client) /\ client.fork \in Fork /\ client' = Rewound(client)
        BY <3>3 DEF JudgePasses, TypeInv
      <4>2. client' = Chain(client.fork, client.pre, <<Head(client.blocks)>>, << >>, {})
        BY <4>1, SetThree DEF Rewound
      <4> QED BY <4>1, <4>2, ChainParts
    <3> QED BY <1>9, <3>1, <3>2, <3>3
  <2>7. IsChain(client)'
    BY <2>6 DEF IsChain
  <2> QED BY <1>1, <2>1, <2>2, <2>3, <2>6, <2>7 DEF TypeInv
<1> QED BY <1>3, <1>4, <1>5, <1>6, <1>7, <1>8, <1>9 DEF Loop

LEMMA NextTypes == Inv /\ FilledInv /\ TypeInv /\ [Next]_vars => TypeInv'
<1> SUFFICES ASSUME Inv, FilledInv, TypeInv, [Next]_vars PROVE TypeInv'
  OBVIOUS
<1>1. ASSUME NEW f \in Fillers, EditFiller(f)
      PROVE  TypeInv'
  <2>1. /\ client' = client /\ ~ At("sent") /\ UNCHANGED <<cmd, count, found, executed, skipped, txs, errors>>
    BY <1>1 DEF EditFiller, loop, marks, At
  <2> QED BY <2>1, QuietTypes DEF TypeInv
<1>2. ASSUME NEW c \in Commands,
             StartFill(c) \/ RefuseFiller(c) \/ SkipFilling(c) \/ StartRun(c) \/ RefuseRun(c)
      PROVE  TypeInv'
  <2>1. Started(c) /\ mode = "idle"
    BY <1>2 DEF StartFill, RefuseFiller, SkipFilling, StartRun, RefuseRun, Started
  <2>2. CASE RefuseFiller(c) \/ RefuseRun(c)
    BY <2>1, <2>2, CommandTypes DEF RefuseFiller, RefuseRun, Errors
  <2>3. CASE StartFill(c) \/ StartRun(c)
    <3>1. client' = client /\ \E m, S : NewRunner(m, S)
      BY <2>3 DEF StartFill, StartRun, NewRunner
    <3> QED BY <2>1, <3>1, CommandTypes
  <2>4. CASE SkipFilling(c)
    <3>1. CASE RunsFile(c) /\ file.written
      <4>1. client' = client /\ \E m, S : NewRunner(m, S)
        BY <2>4, <3>1 DEF SkipFilling, NewRunner
      <4> QED BY <2>1, <4>1, CommandTypes
    <3>2. CASE ~ (RunsFile(c) /\ file.written)
      <4>1. client' = client /\ UNCHANGED <<loop, marks>> /\ errors' \subseteq Errors
        BY <2>4, <3>2 DEF SkipFilling, Errors
      <4> QED BY <2>1, <4>1, CommandTypes
    <3> QED BY <3>1, <3>2
  <2> QED BY <1>2, <2>2, <2>3, <2>4
<1>3. CASE UNCHANGED vars
  <2>1. UNCHANGED <<cmd, count, found, executed, skipped, txs, errors, client, mode, step>>
    BY <1>3 DEF vars, disk, loop, marks
  <2> QED BY <2>1 DEF TypeInv, At, IsChain, Errors
<1> QED BY <1>1, <1>2, <1>3, LoopTypes DEF Next, FilledInv

\* The client has the genesis and at most one block in every reachable state, and
\* a transaction is pending only between sending and mining it.
THEOREM TypeCorrect == Spec => []TypeOK
<1>1. Inv /\ FilledInv /\ TypeInv => TypeOK
  BY TypesImply DEF FilledInv
<1>2. Spec => []TypeInv
  BY InitTypes, NextTypes, StateTestInvariant, FilledInvariant, PTL DEF Spec
<1> QED BY <1>1, <1>2, StateTestInvariant, FilledInvariant, PTL
=============================================================================
