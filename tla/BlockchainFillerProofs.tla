------------------------ MODULE BlockchainFillerProofs ------------------------
(***************************************************************************)
(* For any chains, networks and blocks of a filler: a block is mined under *)
(* the network of the chain it belongs to; and the lists of the filler fit *)
(* the client, so that every call asks for a block there is.               *)
(***************************************************************************)
EXTENDS BlockchainFiller, ToolChainProofs

IsSequence(s) == \E S : s \in Seq(S)

IsReset(c) == c.call = "reset"

\* The calls of a handler set the client up for this network, if for any.
ResetsOnlyTo(calls, net) ==
    /\ IsSequence(calls)
    /\ \A i \in DOMAIN calls : IsReset(calls[i]) => calls[i].net = net

HasReset(calls) == \E i \in DOMAIN calls : IsReset(calls[i])

\* Every chain is a list of test blocks, the one in use among them.
NamedInv ==
    /\ hasUncles \in BOOLEAN
    /\ currentName \in DOMAIN named
    /\ \A n \in DOMAIN named : IsSequence(named[n])

\* The client is on the network of the chain, or will be when the calls that
\* are left were made.
NetworkInv ==
    phase \in {"parse", "uncles", "make", "postmine"} =>
        /\ ResetsOnlyTo(todo, NetOf[currentName])
        /\ HasReset(todo) \/ network = NetOf[currentName]

Inv == NamedInv /\ NetworkInv

-----------------------------------------------------------------------------
(* Lists of calls *)

\* No call sets the client up.
LEMMA NoCalls ==
    ASSUME NEW net
    PROVE  ResetsOnlyTo(<< >>, net) /\ ~ HasReset(<< >>)
<1>1. << >> \in Seq({}) /\ DOMAIN << >> = {}
  OBVIOUS
<1> QED BY <1>1 DEF ResetsOnlyTo, IsSequence, HasReset

\* One call that sets the client up.
LEMMA OneReset ==
    ASSUME NEW net
    PROVE  ResetsOnlyTo(<< ResetTo(net) >>, net) /\ HasReset(<< ResetTo(net) >>)
<1> DEFINE calls == << ResetTo(net) >>
<1>1. calls \in Seq({ResetTo(net)}) /\ DOMAIN calls = {1} /\ calls[1] = ResetTo(net)
  OBVIOUS
<1> HIDE DEF calls
<1>2. ResetsOnlyTo(calls, net) /\ HasReset(calls)
  BY <1>1 DEF ResetsOnlyTo, IsSequence, HasReset, IsReset, ResetTo
<1> QED BY <1>2 DEF calls

\* One call that does not.
LEMMA OneOther ==
    ASSUME NEW c, ~ IsReset(c), NEW net
    PROVE  ResetsOnlyTo(<< c >>, net)
<1>1. << c >> \in Seq({c}) /\ \A i \in DOMAIN << c >> : << c >>[i] = c
  OBVIOUS
<1> QED BY <1>1 DEF ResetsOnlyTo, IsSequence

\* Importing a history does not set the client up.
LEMMA ReplayResetsNothing ==
    ASSUME NEW chain, NEW number, NEW net, Len(Before(chain, number)) \in Nat
    PROVE  ResetsOnlyTo(Replay(chain, number), net)
<1> DEFINE kept == Before(chain, number)
           call(i) == ImportOf(kept[i + 1].hash)
<1>1. Replay(chain, number) = [i \in 1 .. Len(kept) - 1 |-> call(i)]
  BY DEF Replay
<1>2. \A i \in 1 .. Len(kept) - 1 : ~ IsReset(call(i))
  BY DEF IsReset, ImportOf
<1> HIDE DEF call, kept
<1> DEFINE S == {call(i) : i \in 1 .. Len(kept) - 1}
<1>3. Replay(chain, number) \in Seq(S)
  <2>1. CASE Len(kept) - 1 \in Nat
    BY <1>1, <2>1
  <2>2. CASE Len(kept) = 0
    BY <1>1, <2>2
  <2> QED BY <2>1, <2>2 DEF kept
<1> QED BY <1>1, <1>2, <1>3 DEF ResetsOnlyTo, IsSequence

\* Calls after calls.
LEMMA Concatenated ==
    ASSUME NEW a, NEW b, NEW net, ResetsOnlyTo(a, net), ResetsOnlyTo(b, net)
    PROVE  /\ ResetsOnlyTo(a \o b, net)
           /\ HasReset(a) \/ HasReset(b) => HasReset(a \o b)
<1>1. PICK S : a \in Seq(S)
  BY DEF ResetsOnlyTo, IsSequence
<1>2. PICK T : b \in Seq(T)
  BY DEF ResetsOnlyTo, IsSequence
<1>3. a \in Seq(S \cup T) /\ b \in Seq(S \cup T)
  BY <1>1, <1>2
<1>4. a \o b \in Seq(S \cup T) /\ Len(a \o b) = Len(a) + Len(b)
  BY <1>3
<1>5. \A i \in DOMAIN (a \o b) :
         \/ i \in DOMAIN a /\ (a \o b)[i] = a[i]
         \/ i - Len(a) \in DOMAIN b /\ (a \o b)[i] = b[i - Len(a)]
  BY <1>3, <1>4
<1>6. \A i \in DOMAIN a : i \in DOMAIN (a \o b) /\ (a \o b)[i] = a[i]
  BY <1>3, <1>4
<1>7. \A i \in DOMAIN b : i + Len(a) \in DOMAIN (a \o b) /\ (a \o b)[i + Len(a)] = b[i]
  BY <1>3, <1>4
<1>8. ResetsOnlyTo(a \o b, net)
  BY <1>4, <1>5 DEF ResetsOnlyTo, IsSequence
<1>9. HasReset(a) \/ HasReset(b) => HasReset(a \o b)
  BY <1>6, <1>7 DEF HasReset
<1> QED BY <1>8, <1>9

\* The beginning of a chain is a list.
LEMMA BeforeFits ==
    ASSUME NEW chain, IsSequence(chain), NEW number \in Nat
    PROVE  IsSequence(Before(chain, number)) /\ Len(Before(chain, number)) \in Nat
<1>1. PICK S : chain \in Seq(S)
  BY DEF IsSequence
<1> DEFINE last == IF number < Len(chain) THEN number ELSE Len(chain)
<1>2. last \in Int /\ \A i \in 1 .. last : chain[i] \in S
  BY <1>1
<1> HIDE DEF last
<1>3. SubSeq(chain, 1, last) \in Seq(S)
  BY <1>2, SubSeqProperties
<1>4. Before(chain, number) \in Seq(S)
  BY <1>3 DEF Before, last
<1>5. Len(Before(chain, number)) \in Nat
  BY <1>4
<1> QED BY <1>4, <1>5 DEF IsSequence

\* The calls that are left after the first.
LEMMA TailResets ==
    ASSUME NEW calls, NEW net, ResetsOnlyTo(calls, net), calls # << >>
    PROVE  /\ ResetsOnlyTo(Tail(calls), net)
           /\ IsReset(Head(calls)) => Head(calls).net = net
           /\ HasReset(calls) => HasReset(Tail(calls)) \/ IsReset(Head(calls))
<1>1. PICK S : calls \in Seq(S)
  BY DEF ResetsOnlyTo, IsSequence
<1>2. /\ Tail(calls) \in Seq(S) /\ Head(calls) = calls[1] /\ 1 \in DOMAIN calls
      /\ \A i \in DOMAIN Tail(calls) : i + 1 \in DOMAIN calls /\ Tail(calls)[i] = calls[i + 1]
      /\ \A i \in DOMAIN calls : i = 1 \/ (i - 1 \in DOMAIN Tail(calls) /\ Tail(calls)[i - 1] = calls[i])
  BY <1>1
<1>3. \A i \in DOMAIN calls : IsReset(calls[i]) => calls[i].net = net
  BY DEF ResetsOnlyTo
<1>4. ResetsOnlyTo(Tail(calls), net)
  BY <1>2, <1>3 DEF ResetsOnlyTo, IsSequence
<1>5. HasReset(calls) => HasReset(Tail(calls)) \/ IsReset(Head(calls))
  BY <1>2 DEF HasReset
<1> QED BY <1>2, <1>3, <1>4, <1>5

\* The header mined on the last block changes no place of a chain.
LEMMA WithNextIsSequence ==
    ASSUME NEW chain, IsSequence(chain), NEW u
    PROVE  IsSequence(WithNext(chain, u))
<1>1. PICK S : chain \in Seq(S)
  BY DEF IsSequence
<1> DEFINE last == [chain[Len(chain)] EXCEPT !.next = u]
<1>2. WithNext(chain, u) = [chain EXCEPT ![Len(chain)] = last]
  BY DEF WithNext
<1> HIDE DEF last
<1>3. chain \in Seq(S \cup {last})
  BY <1>1
<1>4. [chain EXCEPT ![Len(chain)] = last] \in Seq(S \cup {last})
  <2>1. CASE Len(chain) \in 1 .. Len(chain)
    BY <1>3, <2>1, ExceptSeq
  <2>2. CASE Len(chain) \notin 1 .. Len(chain)
    <3>1. DOMAIN chain = 1 .. Len(chain)
      BY <1>3, LenProperties
    <3>2. [chain EXCEPT ![Len(chain)] = last] = chain
      BY <1>3, <2>2, <3>1, LenProperties, Zenon
    <3>3. QED BY <1>3, <3>2
  <2>3. QED BY <2>1, <2>2
<1>5. WithNext(chain, u) \in Seq(S \cup {last})
  BY <1>2, <1>4, Zenon
<1> QED BY <1>5 DEF IsSequence

-----------------------------------------------------------------------------
(* The steps *)

\* The manager starts on the network of the default chain.
LEMMA FillerInitInv == FillerInit => Inv
<1> SUFFICES ASSUME FillerInit PROVE Inv
  OBVIOUS
<1>1. NamedInv
  <2> DEFINE first == TestBlock(Genesis, TRUE, << >>)
             chain == WithNext(<< first >>, ChildOf(Genesis, CandidateKind, << >>))
  <2>1. << first >> \in Seq({first})
    OBVIOUS
  <2>2. IsSequence(chain)
    BY <2>1, WithNextIsSequence DEF IsSequence
  <2>3. named = [n \in {DefaultName} |-> chain] /\ currentName = DefaultName
    BY DEF FillerInit
  <2>4. hasUncles \in BOOLEAN
    BY DEF FillerInit
  <2> QED BY <2>2, <2>3, <2>4 DEF NamedInv
<1>2. NetworkInv
  BY NoCalls DEF FillerInit, NetworkInv, DefaultNet
<1> QED BY <1>1, <1>2 DEF Inv

\* A call to set the client up is for the network of the chain in use.
LEMMA ClientCallInv ==
    ASSUME Inv, ClientCall
    PROVE  Inv'
<1>1. /\ todo # << >> /\ todo' = Tail(todo)
      /\ UNCHANGED <<hasUncles, currentName, phase>>
      /\ \/ named' = named
         \/ \E u : named' = [named EXCEPT ![currentName] = WithNext(named[currentName], u)]
      /\ IF IsReset(Head(todo)) THEN network' = Head(todo).net ELSE network' = network
  BY DEF ClientCall, IsReset, MineNextBlockAndRevert
<1>2. NamedInv'
  <2>1. \A u : IsSequence(WithNext(named[currentName], u))
    BY WithNextIsSequence DEF Inv, NamedInv
  <2> QED BY <1>1, <2>1 DEF Inv, NamedInv
<1>3. NetworkInv'
  BY <1>1, TailResets DEF Inv, NetworkInv
<1> QED BY <1>2, <1>3 DEF Inv

\* The chain and the number a filler block asks for.
LEMMA AskedFits ==
    ASSUME Inv, NEW b \in FillerBlocks[hasUncles]
    PROVE  IsSequence(ChainAsked(b)) /\ NumberAsked(b) \in Nat
<1>1. << TestBlock(Genesis, TRUE, << >>) >> \in Seq({TestBlock(Genesis, TRUE, << >>)})
  OBVIOUS
<1>2. IsSequence(ChainAsked(b))
  BY <1>1 DEF Inv, NamedInv, ChainAsked, IsSequence
<1>3. Len(named[currentName]) \in Nat
  BY DEF Inv, NamedInv, IsSequence
<1>4. b.number \in Nat \cup {NoNumber}
  BY FillerAssumption DEF Inv, NamedInv, BlockSections
<1>5. Len(ChainAsked(b)) \in Nat
  BY <1>2 DEF IsSequence
<1> QED BY <1>2, <1>3, <1>4, <1>5 DEF NumberAsked

\* The calls before the first block of a filler block is made.
LEMMA CallsOfBlock ==
    ASSUME Inv, phase = "parse", todo = << >>, NEW b \in FillerBlocks[hasUncles]
    PROVE  LET calls == CallsOfNewChain(b) \o CallsToRestore(b)
               net == NetOf[b.chain]
           IN  /\ ResetsOnlyTo(calls, net)
               /\ HasReset(calls) \/ network = net
<1> DEFINE new == CallsOfNewChain(b)
           restore == CallsToRestore(b)
           net == NetOf[b.chain]
<1>1. network = NetOf[currentName]
  BY NoCalls DEF Inv, NetworkInv
<1>2. IsSequence(ChainAsked(b)) /\ NumberAsked(b) \in Nat
  BY AskedFits
<1>3. ResetsOnlyTo(<< Probe >>, net) /\ \A n : ResetsOnlyTo(<< RewindTo(n) >>, net)
  BY OneOther DEF Probe, RewindTo, IsReset
<1>4. ResetsOnlyTo(new, net)
  BY <1>3, NoCalls, OneReset, Concatenated DEF CallsOfNewChain
<1>5. CASE ~ MustRestore(b)
  <2>1. restore = << >> /\ b.chain = currentName
    BY <1>5 DEF CallsToRestore, MustRestore
  <2> QED BY <1>1, <1>4, <2>1, NoCalls, Concatenated
<1>6. CASE MustRestore(b) /\ b.chain = currentName
  <2>1. restore = << RewindTo(NumberAsked(b) - 1) >>
    BY <1>6 DEF CallsToRestore
  <2> QED BY <1>1, <1>3, <1>4, <1>6, <2>1, Concatenated
<1>7. CASE MustRestore(b) /\ b.chain # currentName
  <2> DEFINE setup == IF NetOf[currentName] # net THEN << ResetTo(net) >> ELSE << >>
             replay == Replay(ChainAsked(b), NumberAsked(b))
  <2>1. restore = setup \o << RewindTo(0) >> \o replay
    BY <1>7 DEF CallsToRestore
  <2>2. ResetsOnlyTo(setup, net) /\ (HasReset(setup) \/ NetOf[currentName] = net)
    BY NoCalls, OneReset
  <2>3. ResetsOnlyTo(replay, net)
    BY <1>2, BeforeFits, ReplayResetsNothing
  <2> HIDE DEF setup, replay, new, net
  <2>4. /\ ResetsOnlyTo(setup \o << RewindTo(0) >>, net)
        /\ HasReset(setup) => HasReset(setup \o << RewindTo(0) >>)
    BY <1>3, <2>2, Concatenated
  <2>5. ResetsOnlyTo(restore, net) /\ (HasReset(setup) => HasReset(restore))
    BY <2>1, <2>3, <2>4, Concatenated
  <2> HIDE DEF restore
  <2>6. ResetsOnlyTo(new \o restore, net) /\ (HasReset(setup) => HasReset(new \o restore))
    BY <1>4, <2>5, Concatenated
  <2> QED BY <1>1, <2>2, <2>6 DEF new, restore, net
<1> QED BY <1>5, <1>6, <1>7

\* ParseBlock: the calls end on the network of the chain that is asked for.
LEMMA ParseInv ==
    ASSUME Inv, NEW b \in FillerBlocks[hasUncles], ParseBlock(b)
    PROVE  Inv'
<1>1. /\ phase = "parse" /\ todo = << >> /\ phase' \in {"make", "uncles"} /\ currentName' = b.chain
      /\ UNCHANGED <<network, hasUncles>>
      /\ todo' = CallsOfNewChain(b) \o CallsToRestore(b)
      /\ DOMAIN named' = DOMAIN named \cup {b.chain}
  BY DEF ParseBlock
<1>2. NetworkInv'
  BY <1>1, CallsOfBlock DEF NetworkInv
<1>3. IsSequence(ChainAsked(b)) /\ NumberAsked(b) \in Nat
  BY AskedFits
<1>4. ASSUME NEW n \in DOMAIN named'
      PROVE  IsSequence(named'[n])
  <2>1. CASE n # b.chain
    <3>1. n \in DOMAIN named /\ named'[n] = named[n]
      BY <1>1, <2>1 DEF ParseBlock
    <3> QED BY <3>1 DEF Inv, NamedInv
  <2>2. CASE n = b.chain
    <3>1. named'[n] = Before(ChainAsked(b), NumberAsked(b)) \/ named'[n] = ChainAsked(b)
      BY <2>2 DEF ParseBlock
    <3> QED BY <1>3, <3>1, BeforeFits
  <2> QED BY <2>1, <2>2
<1>5. NamedInv'
  BY <1>1, <1>4 DEF Inv, NamedInv
<1> QED BY <1>2, <1>5 DEF Inv

\* A block goes to the end of the chain in use, and an uncle may be mined on it.
LEMMA RegisterInv ==
    ASSUME Inv, phase \in {"make", "postmine"}, todo = << >>, NEW h, NEW valid, Register(h, valid)
    PROVE  Inv'
<1> DEFINE made == TestBlock(h, valid, IF valid THEN prepared ELSE << >>)
<1>1. /\ named' = [named EXCEPT ![currentName] = Append(named[currentName], made)]
      /\ UNCHANGED <<hasUncles, currentName, network>>
      /\ todo' \in {<< Probe >>, << >>}
  BY DEF Register
<1> HIDE DEF made
<1>2. network = NetOf[currentName]
  BY NoCalls DEF Inv, NetworkInv
<1>3. ResetsOnlyTo(todo', NetOf[currentName])
  BY <1>1, NoCalls, OneOther DEF Probe, IsReset
<1>4. NetworkInv'
  BY <1>1, <1>2, <1>3 DEF NetworkInv
<1>5. IsSequence(Append(named[currentName], made))
  <2>1. PICK S : named[currentName] \in Seq(S)
    BY DEF Inv, NamedInv, IsSequence
  <2>2. named[currentName] \in Seq(S \cup {made})
    BY <2>1
  <2>3. Append(named[currentName], made) \in Seq(S \cup {made})
    BY <2>2
  <2> QED BY <2>3 DEF IsSequence
<1>6. NamedInv'
  BY <1>1, <1>5 DEF Inv, NamedInv
<1> QED BY <1>4, <1>6 DEF Inv

\* Of the phases after the last block nothing is claimed.
LEMMA OtherPhase ==
    ASSUME Inv, UNCHANGED <<hasUncles, named, currentName>>,
           phase' \notin {"parse", "uncles", "make", "postmine"}
    PROVE  Inv'
BY DEF Inv, NamedInv, NetworkInv

\* MineToTweak.
LEMMA TweakInv ==
    ASSUME Inv, MineToTweak
    PROVE  Inv'
<1>1. /\ phase = "make" /\ todo = << >> /\ UNCHANGED <<hasUncles, named, currentName, network>>
      /\ todo' = << RewindTo(Len(chains[currentChain]) - 1) >>
  BY DEF MineToTweak
<1>2. network = NetOf[currentName]
  BY <1>1, NoCalls DEF Inv, NetworkInv
<1>3. ~ IsReset(RewindTo(Len(chains[currentChain]) - 1))
  BY DEF IsReset, RewindTo
<1>4. ResetsOnlyTo(todo', NetOf[currentName])
  BY <1>1, <1>3, OneOther
<1> QED BY <1>1, <1>2, <1>4 DEF Inv, NamedInv, NetworkInv

\* Every step.
LEMMA FillerNextInv == Inv /\ [FillerNext]_allVars => Inv'
<1> SUFFICES ASSUME Inv, [FillerNext]_allVars PROVE Inv'
  OBVIOUS
<1>1. ASSUME NEW b \in FillerBlocks[hasUncles], ParseOutOfOrder(b)
      PROVE  Inv'
  BY <1>1, OtherPhase DEF ParseOutOfOrder
<1>2. CASE MakeRawBlock \/ MakePlainBlock
  BY <1>2, RegisterInv, OtherPhase DEF MakeRawBlock, MakePlainBlock, GoToError
<1>8. CASE PrepareUncle
  BY <1>8 DEF PrepareUncle, Inv, NamedInv, NetworkInv
<1>3. CASE ImportTweaked
  BY <1>3, RegisterInv, OtherPhase DEF ImportTweaked, GoToError
<1>4. CASE EndOfBlocks
  BY <1>4, OtherPhase DEF EndOfBlocks, making
<1>5. CASE SyncBlock \/ Synced
  BY <1>5, OtherPhase DEF SyncBlock, Synced, GoToError, making
<1>6. CASE StartRun \/ RunBlock \/ EndRun
  BY <1>6, OtherPhase DEF StartRun, RunBlock, EndRun, making
<1>7. CASE UNCHANGED allVars
  BY <1>7 DEF allVars, fillerVars, Inv, NamedInv, NetworkInv
<1> QED BY <1>1, <1>2, <1>3, <1>4, <1>5, <1>6, <1>7, <1>8, ClientCallInv, ParseInv, TweakInv
        DEF FillerNext, Finished

-----------------------------------------------------------------------------
(* The network of a block *)

\* Chains are lists, and the client is on its way to the right network.
THEOREM FillerInvariant == FillerSpec => []Inv
<1> QED BY FillerInitInv, FillerNextInv, PTL DEF FillerSpec

\* For any number of chains and networks, in whatever order blocks of them
\* come: a block is mined and judged under the network of its own chain.
THEOREM NetworkAlwaysFollows == FillerSpec => []NetworkFollowsChain
<1>1. Inv => NetworkFollowsChain
  BY NoCalls DEF Inv, NetworkInv, NetworkFollowsChain, ReadyToMake
<1> QED BY <1>1, FillerInvariant, PTL

-----------------------------------------------------------------------------
(* Types *)

\* A test block of a chain, with what the uncles of later blocks may refer to.
TestBlocks == [hash : Hash, valid : BOOLEAN, uncles : Seq(Hash), next : Hash \cup {NoHeader}]

\* Calls that import blocks of S only, those of P, and those that import nothing.
CallsOf(S, P) ==
    P \cup {ResetTo(NetOf[n]) : n \in Name} \cup {RewindTo(k) : k \in Nat} \cup {ImportOf(h) : h \in S}

\* The calls a handler may have left.
Calls == CallsOf(Hash, {Probe})

\* An entry of the list of all blocks, or of the exported ones.
Labelled == [hash : Hash, invalid : BOOLEAN]

ChainFits(L) == L \in Seq(TestBlocks) /\ Len(L) >= 1 /\ L[1].hash = Genesis /\ L[1].valid = TRUE

ChainsFit ==
    /\ hasUncles \in BOOLEAN
    /\ DefaultName \in DOMAIN named /\ DOMAIN named \subseteq Name
    /\ currentName \in DOMAIN named
    /\ \A n \in DOMAIN named : ChainFits(named[n])

BlockInv ==
    /\ prepared \in Seq(Hash)
    /\ block \in BlockSections
    /\ \A i \in DOMAIN block.kinds : block.kinds[i] # CandidateKind
    /\ phase \in {"uncles", "make", "postmine"} => block.kinds # << >>
    /\ phase = "uncles" => Len(prepared) < Len(block.uncles)

ListsFit ==
    /\ rlps \in Seq(Labelled) /\ exported \in Seq(Labelled) /\ Len(exported) <= Len(rlps)
    /\ at \in Nat \ {0}
    /\ todo \in Seq(Calls)

Phases == {"parse", "uncles", "make", "postmine", "sync", "filled", "run", "passed", "mismatch", "error"}

TypedInv == ChainsInv /\ ChainsFit /\ BlockInv /\ ListsFit /\ phase \in Phases

\* Every block can be built on, with any uncles, and its bytes say what it is.
EveryChild ==
    \A p \in Hash, k \in Kind, us \in Seq(Hash) :
        LET h == ChildOf(p, k, us) IN
        /\ h \in Hash
        /\ ParentOf[h] = p
        /\ UnclesOf[h] = us
        /\ \A l \in Kind : ChildOf(p, l, us) = h => l = k

\* The block of a kind, on a parent, with uncles.
LEMMA ChildFits ==
    ASSUME EveryChild, NEW p \in Hash, NEW k \in Kind, NEW us \in Seq(Hash)
    PROVE  LET h == ChildOf(p, k, us) IN
           h \in Hash /\ ParentOf[h] = p /\ UnclesOf[h] = us /\ KindIn(h) = k
<1> DEFINE h == ChildOf(p, k, us)
<1>1. /\ h \in Hash /\ ParentOf[h] = p /\ UnclesOf[h] = us
      /\ \A l \in Kind : h = ChildOf(p, l, us) <=> l = k
  BY DEF EveryChild
<1>2. (CHOOSE l \in Kind : h = ChildOf(p, l, us)) = k
  BY <1>1
<1>3. KindIn(h) = k
  BY <1>1, <1>2 DEF KindIn
<1> QED BY <1>1, <1>3

\* The chains of the client through a call of the filler.
LEMMA RewindChains ==
    ASSUME ChainsInv, NEW n \in Nat, Rewind(n)
    PROVE  ChainsInv'
<1>1. currentChain \in 0 .. maxChains /\ maxChains \in Nat /\ GoodChain(chains[currentChain])
  BY MaxChainsAssumption DEF ChainsInv, GoodChains
<1>2. CASE n < Len(chains[currentChain])
  <2>1. n \in 0 .. Len(chains[currentChain]) - 1
    BY <1>1, <1>2, GoodChainElements
  <2> QED BY <1>2, <2>1, RewindToBlockInv DEF Rewind
<1>3. CASE ~ (n < Len(chains[currentChain]))
  <2>1. pending' = PendingOn(chains[currentChain]) /\ reply' = "rewound" /\ UNCHANGED <<chains, currentChain, maxChains>>
    BY <1>3 DEF Rewind
  <2> QED BY <1>1, <2>1, PendingOnTyped DEF ChainsInv, Replies
<1> QED BY <1>2, <1>3

\* An import, whatever the client answers.
LEMMA ImportChains ==
    ASSUME ChainsInv, NEW h \in Hash, Import(h)
    PROVE  ChainsInv'
<1>1. CASE ImportUnreadable
  BY <1>1 DEF ImportUnreadable, ImportFailed, ChainsInv, Replies
<1> QED BY <1>1, ImportBadHeaderInv, ImportBadBodyInv, ImportAcceptedInv DEF Import

\* An uncle that is mined.
LEMMA ProbeChains ==
    ASSUME ChainsInv, MineNextBlockAndRevert
    PROVE  ChainsInv'
<1>1. currentChain \in 0 .. maxChains /\ GoodChain(chains[currentChain])
  BY DEF ChainsInv, GoodChains
<1>2. pending' = PendingOn(chains[currentChain]) /\ reply' = "rewound" /\ UNCHANGED <<chains, currentChain, maxChains>>
  BY DEF MineNextBlockAndRevert
<1> QED BY <1>1, <1>2, PendingOnTyped DEF ChainsInv, Replies

\* The head of the client is a block.
LEMMA HeadKnown == ASSUME ChainsInv PROVE HeadBlock \in Hash
<1>1. GoodChain(chains[currentChain])
  BY DEF ChainsInv, GoodChains
<1> QED BY <1>1, GoodChainElements DEF HeadBlock, Tip

\* Nothing happens to the client.
LEMMA SameChains == ASSUME ChainsInv, UNCHANGED vars PROVE ChainsInv'
BY DEF ChainsInv, vars

-----------------------------------------------------------------------------
(* Types of chains *)

\* What a list of test blocks consists of.
LEMMA BlocksOfList ==
    ASSUME NEW L \in Seq(TestBlocks)
    PROVE  /\ Len(L) \in Nat /\ DOMAIN L = 1 .. Len(L)
           /\ \A i \in 1 .. Len(L) : /\ L[i] \in TestBlocks
                                     /\ L[i].hash \in Hash /\ L[i].valid \in BOOLEAN
                                     /\ L[i].uncles \in Seq(Hash)
                                     /\ L[i].next \in Hash \cup {NoHeader}
<1>1. Len(L) \in Nat /\ DOMAIN L = 1 .. Len(L)
  BY LenProperties
<1>2. \A i \in 1 .. Len(L) : L[i] \in TestBlocks
  BY ElementOfSeq
<1> QED BY <1>1, <1>2 DEF TestBlocks

\* A new chain.
LEMMA NewChainFits == ChainFits(<< TestBlock(Genesis, TRUE, << >>) >>)
<1> DEFINE b == TestBlock(Genesis, TRUE, << >>)
           L == << b >>
<1>1. b \in TestBlocks /\ b.hash = Genesis /\ b.valid = TRUE
  BY BlocksAssumption DEF TestBlock, TestBlocks
<1> HIDE DEF b
<1>2. L \in Seq(TestBlocks) /\ Len(L) = 1 /\ L[1] = b
  BY <1>1
<1> HIDE DEF L
<1>3. ChainFits(L)
  BY <1>1, <1>2 DEF ChainFits
<1> QED BY <1>3, Zenon DEF L, b

\* setNextBlockForked.
LEMMA WithNextFits ==
    ASSUME NEW L, ChainFits(L), NEW u \in Hash
    PROVE  LET M == WithNext(L, u) IN
           /\ ChainFits(M) /\ Len(M) = Len(L)
           /\ \A j \in 1 .. Len(L) : /\ M[j].hash = L[j].hash /\ M[j].valid = L[j].valid
                                     /\ M[j].next = IF j = Len(L) THEN u ELSE L[j].next
<1> DEFINE n == Len(L)
           b == [L[n] EXCEPT !.next = u]
           M == [L EXCEPT ![n] = b]
<1>1. n \in Nat /\ n \in 1 .. n /\ 1 \in 1 .. n /\ L[n] \in TestBlocks /\ L \in Seq(TestBlocks)
  BY BlocksOfList DEF ChainFits
<1>2. b \in TestBlocks /\ b.hash = L[n].hash /\ b.valid = L[n].valid /\ b.next = u
  BY <1>1 DEF TestBlocks
<1> HIDE DEF b
<1>3. M \in Seq(TestBlocks) /\ Len(M) = n /\ \A j \in 1 .. n : M[j] = IF j = n THEN b ELSE L[j]
  BY <1>1, <1>2, ExceptSeq
<1>4. WithNext(L, u) = M
  BY DEF WithNext, b
<1> HIDE DEF M
<1>5. \A j \in 1 .. n : /\ M[j].hash = L[j].hash /\ M[j].valid = L[j].valid
                        /\ M[j].next = IF j = n THEN u ELSE L[j].next
  BY <1>2, <1>3
<1>6. ChainFits(M)
  BY <1>1, <1>3, <1>5 DEF ChainFits
<1> QED BY <1>3, <1>4, <1>5, <1>6

\* The blocks before a number are the beginning of the chain.
LEMMA BeforeFirst ==
    ASSUME NEW L, ChainFits(L), NEW number \in Nat \ {0}
    PROVE  LET n == IF number < Len(L) THEN number ELSE Len(L) IN
           /\ ChainFits(Before(L, number))
           /\ Len(Before(L, number)) = n
           /\ \A i \in 1 .. n : Before(L, number)[i] = L[i]
<1> DEFINE n == IF number < Len(L) THEN number ELSE Len(L)
           M == SubSeq(L, 1, n)
<1>1. /\ Len(L) \in Nat /\ n \in Nat \ {0} /\ n <= Len(L)
      /\ \A i \in 1 .. Len(L) : L[i] \in TestBlocks
  BY BlocksOfList DEF ChainFits
<1> HIDE DEF n
<1>2. /\ M \in Seq(TestBlocks) /\ Len(M) = n
      /\ \A i \in 1 .. n : M[i] = L[i]
  <2>1. 1 \in Int /\ n \in Int /\ \A i \in 1 .. n : L[i] \in TestBlocks
    BY <1>1
  <2>2. /\ M \in Seq(TestBlocks) /\ Len(M) = (IF 1 <= n THEN n - 1 + 1 ELSE 0)
        /\ \A i \in 1 .. n - 1 + 1 : M[i] = L[1 + i - 1]
    BY <2>1, SubSeqProperties
  <2>3. n - 1 + 1 = n /\ 1 <= n /\ \A i \in 1 .. n : 1 + i - 1 = i
    BY <1>1
  <2> QED BY <2>2, <2>3
<1>3. Before(L, number) = M
  BY DEF Before, n
<1> HIDE DEF M
<1>4. ChainFits(M)
  BY <1>1, <1>2 DEF ChainFits
<1> QED BY <1>2, <1>3, <1>4 DEF n

\* A block at the end.
LEMMA AppendFits ==
    ASSUME NEW L, ChainFits(L), NEW b \in TestBlocks
    PROVE  /\ ChainFits(Append(L, b)) /\ Len(Append(L, b)) = Len(L) + 1
           /\ \A i \in 1 .. Len(L) : Append(L, b)[i] = L[i]
           /\ Append(L, b)[Len(L) + 1] = b
<1> DEFINE M == Append(L, b)
           n == Len(L)
<1>1. L \in Seq(TestBlocks) /\ n \in Nat \ {0} /\ 1 \in 1 .. n
  BY BlocksOfList DEF ChainFits
<1>2. /\ M \in Seq(TestBlocks) /\ Len(M) = n + 1 /\ M[n + 1] = b
      /\ \A j \in 1 .. n : M[j] = L[j]
  BY <1>1, AppendProperties
<1> HIDE DEF M
<1>3. ChainFits(M)
  BY <1>1, <1>2 DEF ChainFits
<1> QED BY <1>2, <1>3 DEF M

-----------------------------------------------------------------------------
(* Types of the filler *)

\* A call says what it is.
LEMMA CallParts ==
    ASSUME NEW c \in Calls
    PROVE  /\ c.call = "rewind" => c.number \in Nat
           /\ c.call = "import" => c.hash \in Hash
<1>1. CASE c = Probe
  BY <1>1 DEF Probe
<1>2. CASE c \in {ResetTo(NetOf[n]) : n \in Name}
  BY <1>2 DEF ResetTo
<1>3. CASE c \in {RewindTo(k) : k \in Nat}
  <2>1. PICK k \in Nat : c = RewindTo(k)
    BY <1>3
  <2> QED BY <2>1 DEF RewindTo
<1>4. CASE c \in {ImportOf(h) : h \in Hash}
  <2>1. PICK h \in Hash : c = ImportOf(h)
    BY <1>4
  <2> QED BY <2>1 DEF ImportOf
<1> QED BY <1>1, <1>2, <1>3, <1>4 DEF Calls, CallsOf

\* The manager starts with the default chain.
LEMMA InitTyped ==
    ASSUME EveryChild, FillerInit
    PROVE  TypedInv
<1> DEFINE G == << TestBlock(Genesis, TRUE, << >>) >>
           u == ChildOf(Genesis, CandidateKind, << >>)
<1>1. u \in Hash
  <2>1. CandidateKind \in Kind /\ << >> \in Seq(Hash) /\ Genesis \in Hash
    BY FillerAssumption, BlocksAssumption, EmptySeq
  <2> QED BY <2>1, ChildFits
<1>2. /\ named = [n \in {DefaultName} |-> WithNext(G, u)] /\ currentName = DefaultName
      /\ hasUncles \in BOOLEAN /\ rlps = << >> /\ exported = << >> /\ at = 1
      /\ todo = << >> /\ phase = "parse" /\ prepared = << >>
      /\ block = NoBlock
  BY DEF FillerInit
<1>3. ChainsInv
  BY InitInv DEF FillerInit
<1>4. ChainFits(G)
  BY NewChainFits
<1> HIDE DEF G, u
<1>5. ChainFits(WithNext(G, u))
  BY <1>1, <1>4, WithNextFits
<1>6. ChainsFit
  BY <1>2, <1>5, FillerAssumption DEF ChainsFit
<1>7. BlockInv
  <2>1. << >> \in Seq(Kind) /\ << >> \in Seq(UncleSections) /\ << >> \in Seq(Hash) /\ DOMAIN << >> = {}
    BY EmptySeq
  <2>2. NoBlock \in BlockSections /\ NoBlock.kinds = << >>
    BY <2>1, FillerAssumption DEF NoBlock, BlockSections
  <2> QED BY <1>2, <2>1, <2>2 DEF BlockInv
<1>8. ListsFit
  <2>1. << >> \in Seq(Calls) /\ << >> \in Seq(Labelled) /\ Len(<< >>) = 0
    BY EmptySeq
  <2> QED BY <1>2, <2>1 DEF ListsFit
<1> QED BY <1>2, <1>3, <1>6, <1>7, <1>8 DEF TypedInv, Phases

\* The uncle that is mined goes to the last block.
LEMMA ProbeFits ==
    ASSUME EveryChild, TypedInv, MineNextBlockAndRevert, UNCHANGED <<hasUncles, currentName>>
    PROVE  ChainsFit'
<1> DEFINE u == ChildOf(HeadBlock, CandidateKind, << >>)
           L == named[currentName]
<1>1. u \in Hash
  <2>1. CandidateKind \in Kind /\ << >> \in Seq(Hash)
    BY FillerAssumption, EmptySeq
  <2> QED BY <2>1, HeadKnown, ChildFits DEF TypedInv
<1>2. named' = [named EXCEPT ![currentName] = WithNext(L, u)]
  BY DEF MineNextBlockAndRevert
<1> HIDE DEF u
<1>3. ChainFits(WithNext(L, u))
  BY <1>1, WithNextFits DEF TypedInv, ChainsFit
<1> QED BY <1>2, <1>3 DEF TypedInv, ChainsFit

\* ClientCall.
LEMMA CallTyped ==
    ASSUME EveryChild, TypedInv, ClientCall
    PROVE  TypedInv'
<1> DEFINE c == Head(todo)
<1>1. /\ todo # << >> /\ todo' = Tail(todo)
      /\ UNCHANGED <<hasUncles, currentName, rlps, exported, block, prepared, phase, at>>
      /\ \/ c.call = "reset"  /\ SetChainParams /\ UNCHANGED named
         \/ c.call = "rewind" /\ Rewind(c.number) /\ UNCHANGED named
         \/ c.call = "import" /\ Import(c.hash) /\ UNCHANGED named
         \/ c.call = "probe"  /\ MineNextBlockAndRevert
  BY DEF ClientCall
<1>2. todo \in Seq(Calls)
  BY DEF TypedInv, ListsFit
<1>3. c \in Calls /\ todo' \in Seq(Calls)
  BY <1>1, <1>2, HeadTailProperties
<1>4. (c.call = "rewind" => c.number \in Nat) /\ (c.call = "import" => c.hash \in Hash)
  BY <1>3, CallParts
<1> HIDE DEF c
<1>5. ChainsInv'
  BY <1>1, <1>4, SetChainParamsInv, RewindChains, ImportChains, ProbeChains DEF TypedInv
<1>6. ChainsFit'
  <2>1. CASE UNCHANGED named
    BY <1>1, <2>1 DEF TypedInv, ChainsFit
  <2>2. CASE MineNextBlockAndRevert
    BY <1>1, <2>2, ProbeFits
  <2> QED BY <1>1, <2>1, <2>2
<1>7. BlockInv' /\ ListsFit' /\ phase' \in Phases
  BY <1>1, <1>3 DEF TypedInv, BlockInv, ListsFit
<1> QED BY <1>5, <1>6, <1>7 DEF TypedInv

\* The history that is imported again.
LEMMA ReplayTyped ==
    ASSUME NEW L, ChainFits(L), NEW number \in Nat \ {0}, NEW S, NEW P,
           \A i \in 2 .. Len(L) : L[i].hash \in S
    PROVE  Replay(L, number) \in Seq(CallsOf(S, P))
<1> DEFINE M == Before(L, number)
           call(i) == ImportOf(M[i + 1].hash)
<1>1. /\ Len(M) \in Nat \ {0} /\ Len(L) \in Nat /\ Len(M) <= Len(L)
      /\ \A i \in 1 .. Len(M) : M[i] = L[i]
  <2> DEFINE n == IF number < Len(L) THEN number ELSE Len(L)
  <2>1. L \in Seq(TestBlocks) /\ Len(L) \in Nat \ {0}
    BY BlocksOfList DEF ChainFits
  <2>2. Len(M) = n /\ \A i \in 1 .. n : M[i] = L[i]
    BY BeforeFirst
  <2>3. n \in Nat \ {0} /\ n <= Len(L)
    BY <2>1
  <2> HIDE DEF n, M
  <2> QED BY <2>1, <2>2, <2>3
<1>2. Replay(L, number) = [i \in 1 .. Len(M) - 1 |-> call(i)]
  BY DEF Replay
<1> HIDE DEF M
<1>3. \A i \in 1 .. Len(M) - 1 : call(i) \in CallsOf(S, P)
  <2> SUFFICES ASSUME NEW i \in 1 .. Len(M) - 1 PROVE call(i) \in CallsOf(S, P)
    OBVIOUS
  <2>1. i + 1 \in 1 .. Len(M) /\ i + 1 \in 2 .. Len(L)
    BY <1>1
  <2>2. M[i + 1].hash \in S
    BY <1>1, <2>1
  <2> QED BY <2>2 DEF CallsOf
<1>4. Len(M) - 1 \in Nat
  BY <1>1
<1> HIDE DEF call
<1>5. [i \in 1 .. Len(M) - 1 |-> call(i)] \in Seq(CallsOf(S, P))
  BY <1>3, <1>4
<1> QED BY <1>2, <1>5

\* The chain and the number a filler block asks for.
LEMMA AskedTyped ==
    ASSUME TypedInv, NEW b \in FillerBlocks[hasUncles]
    PROVE  /\ b \in BlockSections /\ b.kinds # << >> /\ b.chain \in Name
           /\ ChainFits(ChainAsked(b)) /\ NumberAsked(b) \in Nat \ {0}
<1>1. hasUncles \in BOOLEAN /\ ChainFits(named[currentName])
  BY DEF TypedInv, ChainsFit
<1>2. b \in BlockSections /\ b.kinds # << >>
  BY <1>1, FillerAssumption
<1>3. b.chain \in Name /\ b.number \in Nat \cup {NoNumber}
  BY <1>2 DEF BlockSections
<1>4. ChainFits(ChainAsked(b))
  BY NewChainFits DEF ChainAsked, TypedInv, ChainsFit
<1>5. Len(named[currentName]) \in Nat \ {0} /\ Len(ChainAsked(b)) \in Nat \ {0}
  BY <1>1, <1>4, BlocksOfList DEF ChainFits
<1>6. NumberAsked(b) \in Nat \ {0}
  BY <1>3, <1>5 DEF NumberAsked
<1> QED BY <1>2, <1>3, <1>4, <1>6

\* The calls before the first block of a filler block is made.
LEMMA CallsTyped ==
    ASSUME TypedInv, NEW b \in FillerBlocks[hasUncles], NEW S, NEW P,
           b.chain \in DOMAIN named \/ Probe \in P,
           \A i \in 2 .. Len(ChainAsked(b)) : ChainAsked(b)[i].hash \in S
    PROVE  CallsOfNewChain(b) \o CallsToRestore(b) \in Seq(CallsOf(S, P))
<1> DEFINE All == CallsOf(S, P)
<1>1. /\ b.chain \in Name /\ ChainFits(ChainAsked(b)) /\ NumberAsked(b) \in Nat \ {0}
  BY AskedTyped
<1>2. << >> \in Seq(All)
  BY EmptySeq
<1>3. b.chain \notin DOMAIN named => << Probe >> \in Seq(All)
  <2>1. b.chain \notin DOMAIN named => Probe \in All
    BY DEF CallsOf
  <2> QED BY <2>1
<1>4. << ResetTo(NetOf[b.chain]) >> \in Seq(All)
  <2>1. ResetTo(NetOf[b.chain]) \in All
    BY <1>1 DEF CallsOf
  <2> QED BY <2>1
<1>5. ASSUME NEW k \in Nat PROVE << RewindTo(k) >> \in Seq(All)
  <2>1. RewindTo(k) \in All
    BY DEF CallsOf
  <2> QED BY <2>1
<1>6. Replay(ChainAsked(b), NumberAsked(b)) \in Seq(All)
  BY <1>1, ReplayTyped
<1>7. NumberAsked(b) - 1 \in Nat /\ 0 \in Nat
  BY <1>1
<1>8. \A s, t \in Seq(All) : s \o t \in Seq(All)
  BY ConcatProperties
<1>9. CallsOfNewChain(b) \in Seq(All)
  BY <1>2, <1>3, <1>4, <1>8 DEF CallsOfNewChain
<1>10. CallsToRestore(b) \in Seq(All)
  <2>1. << RewindTo(NumberAsked(b) - 1) >> \in Seq(All) /\ << RewindTo(0) >> \in Seq(All)
    BY <1>5, <1>7
  <2> DEFINE setup == IF NetOf[currentName] # NetOf[b.chain] THEN << ResetTo(NetOf[b.chain]) >> ELSE << >>
  <2>2. setup \in Seq(All)
    BY <1>2, <1>4
  <2> HIDE DEF setup
  <2>3. (setup \o << RewindTo(0) >>) \o Replay(ChainAsked(b), NumberAsked(b)) \in Seq(All)
    BY <1>6, <1>8, <2>1, <2>2
  <2> QED BY <1>2, <2>1, <2>3 DEF CallsToRestore, setup
<1> QED BY <1>8, <1>9, <1>10

\* ParseBlock.
LEMMA ParseTyped ==
    ASSUME TypedInv, NEW b \in FillerBlocks[hasUncles], ParseBlock(b)
    PROVE  TypedInv'
<1> DEFINE C == ChainAsked(b)
           M == Before(C, NumberAsked(b))
<1>1. /\ currentName' = b.chain /\ UNCHANGED vars /\ UNCHANGED <<hasUncles, rlps, exported, at>>
      /\ todo' = CallsOfNewChain(b) \o CallsToRestore(b)
      /\ named' = [n \in DOMAIN named \cup {b.chain} |->
                      IF n # b.chain THEN named[n] ELSE IF MustRestore(b) THEN M ELSE C]
      /\ block' = b /\ prepared' = << >>
      /\ phase' = IF b.uncles = << >> THEN "make" ELSE "uncles"
  BY DEF ParseBlock
<1>2. /\ b \in BlockSections /\ b.kinds # << >> /\ b.chain \in Name /\ hasUncles \in BOOLEAN
      /\ \A i \in DOMAIN b.kinds : b.kinds[i] # CandidateKind
  BY AskedTyped, FillerAssumption DEF TypedInv, ChainsFit
<1>3. ChainFits(C) /\ ChainFits(M)
  BY AskedTyped, BeforeFirst
<1> HIDE DEF C, M
<1>4. ChainsInv'
  BY <1>1, SameChains DEF TypedInv
<1>5. ChainsFit'
  BY <1>1, <1>2, <1>3 DEF TypedInv, ChainsFit
<1>6. BlockInv'
  <2>1. b.uncles \in Seq(UncleSections) /\ (b.uncles # << >> => 0 < Len(b.uncles)) /\ Len(<< >>) = 0
    BY <1>2 DEF BlockSections
  <2>2. << >> \in Seq(Hash)
    BY EmptySeq
  <2> QED BY <1>1, <1>2, <2>1, <2>2 DEF BlockInv
<1>7. ListsFit'
  <2>1. \A i \in 2 .. Len(ChainAsked(b)) : ChainAsked(b)[i].hash \in Hash
    <3>1. ChainAsked(b) \in Seq(TestBlocks)
      BY AskedTyped DEF ChainFits
    <3> QED BY <3>1, BlocksOfList
  <2>2. Probe \in {Probe}
    OBVIOUS
  <2>3. todo' \in Seq(Calls)
    BY <1>1, <2>1, <2>2, CallsTyped DEF Calls
  <2> QED BY <1>1, <2>3 DEF TypedInv, ListsFit
<1>8. phase' \in Phases
  BY <1>1 DEF Phases
<1> QED BY <1>4, <1>5, <1>6, <1>7, <1>8 DEF TypedInv

\* The parts that a step leaves alone.
LEMMA RestTyped ==
    ASSUME TypedInv, ChainsInv',
           UNCHANGED <<hasUncles, named, currentName, block, prepared>>,
           phase' \in Phases \ {"uncles", "make", "postmine"}, ListsFit'
    PROVE  TypedInv'
BY DEF TypedInv, ChainsFit, BlockInv

\* A section refers to a block, or to nothing.
LEMMA ReferredTyped ==
    ASSUME TypedInv, NEW s \in UncleSections
    PROVE  Referred(s) \in Hash \cup {NoHeader}
<1>1. currentName \in DOMAIN named /\ \A n \in DOMAIN named : named[n] \in Seq(TestBlocks)
  BY DEF TypedInv, ChainsFit, ChainFits
<1>2. s.index \in Nat /\ s.as \in {"populateFromBlock", "sameAsPreviousBlockUncle",
                                    "sameAsBlock", "sameAsPreviousSibling"}
  BY DEF UncleSections
<1>3. CASE s.as = "populateFromBlock"
  <2>1. << >> \in Seq(TestBlocks)
    BY EmptySeq
  <2>2. BlocksMeant(s) \in Seq(TestBlocks)
    BY <1>1, <2>1 DEF BlocksMeant
  <2>3. s.index < Len(BlocksMeant(s)) => s.index + 1 \in 1 .. Len(BlocksMeant(s))
    BY <1>2, <2>2, BlocksOfList
  <2>4. s.index < Len(BlocksMeant(s)) => BlocksMeant(s)[s.index + 1].next \in Hash \cup {NoHeader}
    BY <2>2, <2>3, BlocksOfList
  <2> QED BY <1>3, <2>4 DEF Referred
<1>4. CASE s.as = "sameAsPreviousBlockUncle"
  <2> DEFINE chain == named[currentName]
  <2>1. chain \in Seq(TestBlocks)
    BY <1>1
  <2>2. s.index < Len(chain) => s.index + 1 \in 1 .. Len(chain)
    BY <1>2, <2>1, BlocksOfList
  <2>3. s.index < Len(chain) => chain[s.index + 1].uncles \in Seq(Hash)
    BY <2>1, <2>2, BlocksOfList
  <2>4. \A us \in Seq(Hash) : us # << >> => us[1] \in Hash
    OBVIOUS
  <2> QED BY <1>4, <2>3, <2>4 DEF Referred
<1>5. CASE s.as = "sameAsBlock"
  <2> DEFINE chain == chains[currentChain]
  <2>1. GoodChain(chain)
    BY DEF TypedInv, ChainsInv, GoodChains
  <2>2. Len(chain) \in Nat /\ \A i \in 1 .. Len(chain) : chain[i].hash \in Hash
    BY <2>1, GoodChainElements
  <2>3. s.index < Len(chain) => s.index + 1 \in 1 .. Len(chain)
    BY <1>2, <2>2
  <2> QED BY <1>5, <2>2, <2>3 DEF Referred
<1>6. CASE s.as = "sameAsPreviousSibling"
  <2>1. prepared \in Seq(Hash)
    BY DEF TypedInv, BlockInv
  <2>2. \A i \in DOMAIN prepared : prepared[i] \in Hash
    BY <2>1
  <2> QED BY <1>6, <2>2 DEF Referred
<1> QED BY <1>2, <1>3, <1>4, <1>5, <1>6

\* What is cited is a block.
LEMMA CitedTyped ==
    ASSUME EveryChild, TypedInv, NEW s \in UncleSections, Referred(s) # NoHeader
    PROVE  Cited(s) \in Hash
<1>1. Referred(s) \in Hash
  BY ReferredTyped
<1>2. ParentOf[Referred(s)] \in Hash
  BY <1>1, BlocksAssumption
<1>3. ChangedKind \in Kind /\ << >> \in Seq(Hash)
  BY FillerAssumption, EmptySeq
<1>4. ChildOf(ParentOf[Referred(s)], ChangedKind, << >>) \in Hash
  BY <1>2, <1>3, ChildFits
<1> QED BY <1>1, <1>4 DEF Cited

\* PrepareUncle.
LEMMA UncleTyped ==
    ASSUME EveryChild, TypedInv, PrepareUncle
    PROVE  TypedInv'
<1> DEFINE s == block.uncles[Len(prepared) + 1]
<1>1. /\ phase = "uncles"
      /\ UNCHANGED vars /\ UNCHANGED <<hasUncles, named, currentName, rlps, exported, block, todo, at>>
      /\ \/ phase' = "error" /\ UNCHANGED prepared
         \/ /\ Referred(s) # NoHeader
            /\ prepared' = Append(prepared, Cited(s))
            /\ phase' = IF Len(prepared) + 1 = Len(block.uncles) THEN "make" ELSE "uncles"
  BY DEF PrepareUncle
<1>2. /\ prepared \in Seq(Hash) /\ block \in BlockSections /\ block.uncles \in Seq(UncleSections)
      /\ Len(prepared) < Len(block.uncles) /\ block.kinds # << >>
      /\ Len(prepared) \in Nat /\ Len(block.uncles) \in Nat
  BY <1>1, LenProperties DEF TypedInv, BlockInv, BlockSections
<1>3. s \in UncleSections
  <2>1. Len(prepared) + 1 \in 1 .. Len(block.uncles)
    BY <1>2
  <2> QED BY <1>2, <2>1, ElementOfSeq
<1> HIDE DEF s
<1>4. ChainsInv' /\ ListsFit'
  BY <1>1, SameChains DEF TypedInv, ListsFit
<1>5. CASE phase' = "error" /\ UNCHANGED prepared
  BY <1>1, <1>4, <1>5, RestTyped DEF Phases
<1>6. CASE Referred(s) # NoHeader /\ prepared' = Append(prepared, Cited(s))
            /\ phase' = IF Len(prepared) + 1 = Len(block.uncles) THEN "make" ELSE "uncles"
  <2>1. Cited(s) \in Hash
    BY <1>3, <1>6, CitedTyped
  <2>2. prepared' \in Seq(Hash) /\ Len(prepared') = Len(prepared) + 1
    BY <1>2, <1>6, <2>1, AppendProperties
  <2>3. phase' = "uncles" => Len(prepared') < Len(block.uncles)
    BY <1>2, <1>6, <2>2
  <2>4. BlockInv'
    BY <1>1, <1>2, <2>2, <2>3 DEF TypedInv, BlockInv
  <2>5. ChainsFit' /\ phase' \in Phases
    BY <1>1, <1>6 DEF TypedInv, ChainsFit, Phases
  <2> QED BY <1>4, <2>4, <2>5 DEF TypedInv
<1> QED BY <1>1, <1>5, <1>6

\* The block that is made, and the one mined before it is changed.
LEMMA MadeTyped ==
    ASSUME EveryChild, TypedInv, phase \in {"make", "postmine"}
    PROVE  /\ KindToMake \in Kind \ {CandidateKind} /\ prepared \in Seq(Hash)
           /\ BlockToMake \in Hash /\ ParentOf[BlockToMake] = HeadBlock
           /\ UnclesOf[BlockToMake] = prepared /\ KindIn(BlockToMake) = KindToMake
           /\ ChildOf(HeadBlock, MinedKind, << >>) \in Hash
<1>1. /\ block.kinds \in Seq(Kind) /\ block.kinds # << >> /\ prepared \in Seq(Hash)
      /\ \A i \in DOMAIN block.kinds : block.kinds[i] # CandidateKind
  BY DEF TypedInv, BlockInv, BlockSections
<1>2. KindToMake \in Kind \ {CandidateKind}
  <2>1. 1 \in DOMAIN block.kinds /\ block.kinds[1] \in Kind /\ Head(block.kinds) = block.kinds[1]
    BY <1>1
  <2> QED BY <1>1, <2>1 DEF KindToMake
<1>3. HeadBlock \in Hash
  BY HeadKnown DEF TypedInv
<1>4. /\ BlockToMake \in Hash /\ ParentOf[BlockToMake] = HeadBlock
      /\ UnclesOf[BlockToMake] = prepared /\ KindIn(BlockToMake) = KindToMake
  BY <1>1, <1>2, <1>3, ChildFits DEF BlockToMake
<1>5. ChildOf(HeadBlock, MinedKind, << >>) \in Hash
  <2>1. MinedKind \in Kind /\ << >> \in Seq(Hash)
    BY FillerAssumption, EmptySeq
  <2> QED BY <1>3, <2>1, ChildFits
<1> QED BY <1>1, <1>2, <1>4, <1>5

\* Register.
LEMMA RegisterTyped ==
    ASSUME TypedInv, ChainsInv', phase \in {"make", "postmine"},
           NEW h \in Hash, NEW valid \in BOOLEAN, Register(h, valid)
    PROVE  TypedInv'
<1> DEFINE us == IF valid THEN prepared ELSE << >>
           b == TestBlock(h, valid, us)
           M == Append(named[currentName], b)
           made == [hash |-> h, invalid |-> InvalidOnCanon(KindToMake)]
           shown == [hash |-> h, invalid |-> Invalid(KindToMake, NetOf[currentName])]
<1>1. /\ named' = [named EXCEPT ![currentName] = M]
      /\ rlps' = Append(rlps, made)
      /\ \/ exported' = exported
         \/ exported' = Append(exported, shown)
      /\ block' = [block EXCEPT !.kinds = Tail(block.kinds)]
      /\ phase' = IF Tail(block.kinds) = << >> THEN "parse" ELSE "make"
      /\ todo' = IF valid /\ hasUncles THEN << Probe >> ELSE << >>
      /\ UNCHANGED <<hasUncles, currentName, prepared, at>>
  BY DEF Register
<1>2. /\ block.kinds \in Seq(Kind) /\ block.kinds # << >> /\ prepared \in Seq(Hash)
      /\ block \in BlockSections
      /\ \A i \in DOMAIN block.kinds : block.kinds[i] # CandidateKind
  BY DEF TypedInv, BlockInv, BlockSections
<1>3. b \in TestBlocks
  <2>1. us \in Seq(Hash)
    BY <1>2, EmptySeq
  <2> HIDE DEF us
  <2> QED BY <2>1 DEF TestBlock, TestBlocks
<1>4. made \in Labelled /\ shown \in Labelled
  <2>1. InvalidOnCanon(KindToMake) \in BOOLEAN /\ Invalid(KindToMake, NetOf[currentName]) \in BOOLEAN
    BY DEF InvalidOnCanon, Invalid
  <2> QED BY <2>1, Zenon DEF Labelled
<1> HIDE DEF b, made, shown
<1>5. ChainFits(M)
  BY <1>3, AppendFits DEF TypedInv, ChainsFit
<1> HIDE DEF M
<1>6. ChainsFit'
  BY <1>1, <1>5 DEF TypedInv, ChainsFit
<1>7. BlockInv'
  <2> DEFINE ks == Tail(block.kinds)
  <2>1. ks \in Seq(Kind) /\ \A i \in DOMAIN ks : i + 1 \in DOMAIN block.kinds /\ ks[i] = block.kinds[i + 1]
    BY <1>2
  <2>2. \A i \in DOMAIN ks : ks[i] # CandidateKind
    BY <1>2, <2>1
  <2> HIDE DEF ks
  <2>3. block' \in BlockSections /\ block'.kinds = ks
    BY <1>1, <1>2, <2>1 DEF BlockSections, ks
  <2> QED BY <1>1, <1>2, <2>2, <2>3 DEF BlockInv, ks
<1>8. ListsFit'
  <2>1. /\ rlps \in Seq(Labelled) /\ exported \in Seq(Labelled) /\ Len(exported) <= Len(rlps)
        /\ at \in Nat \ {0}
    BY DEF TypedInv, ListsFit
  <2>2. /\ rlps' \in Seq(Labelled) /\ exported' \in Seq(Labelled) /\ Len(exported') <= Len(rlps')
    <3>1. rlps' \in Seq(Labelled) /\ Len(rlps') = Len(rlps) + 1
      BY <1>1, <1>4, <2>1
    <3>2. CASE exported' = exported
      BY <2>1, <3>1, <3>2
    <3>3. CASE exported' = Append(exported, shown)
      BY <1>4, <2>1, <3>1, <3>3
    <3> QED BY <1>1, <3>2, <3>3
  <2>3. << Probe >> \in Seq(Calls) /\ << >> \in Seq(Calls)
    <3>1. Probe \in Calls
      BY DEF Calls, CallsOf
    <3> QED BY <3>1, EmptySeq
  <2> QED BY <1>1, <2>1, <2>2, <2>3 DEF ListsFit
<1> QED BY <1>1, <1>6, <1>7, <1>8 DEF TypedInv, Phases

\* Going to an error.
LEMMA ErrorTyped ==
    ASSUME TypedInv, ChainsInv', GoToError
    PROVE  TypedInv'
<1>1. ListsFit'
  BY DEF GoToError, TypedInv, ListsFit
<1> QED BY <1>1, RestTyped DEF GoToError, Phases

\* MakeRawBlock, MakePlainBlock and ImportTweaked.
LEMMA MakeTyped ==
    ASSUME EveryChild, TypedInv, MakeRawBlock \/ MakePlainBlock \/ ImportTweaked
    PROVE  TypedInv'
<1>1. phase \in {"make", "postmine"}
  BY DEF MakeRawBlock, MakePlainBlock, ImportTweaked
<1> PICK h : h = BlockToMake
  OBVIOUS
<1> DEFINE invalid == Invalid(KindToMake, NetOf[currentName])
<1>2. h \in Hash /\ invalid \in BOOLEAN
  BY <1>1, MadeTyped DEF Invalid
<1>3. \/ Import(h) /\ (GoToError \/ Register(h, FALSE))
      \/ MineBlocks(h) /\ (GoToError \/ Register(h, TRUE))
      \/ Import(h) /\ (GoToError \/ Register(h, ~ invalid))
  <2>1. CASE MakeRawBlock
    BY <2>1 DEF MakeRawBlock
  <2>2. CASE MakePlainBlock
    BY <2>2 DEF MakePlainBlock
  <2>3. CASE ImportTweaked
    <3>1. /\ Import(h)
          /\ IF invalid <=> reply' = "import failed" THEN Register(h, ~ invalid) ELSE GoToError
      BY <2>3 DEF ImportTweaked
    <3> HIDE DEF invalid
    <3> QED BY <1>2, <3>1
  <2> QED BY <2>1, <2>2, <2>3
<1> HIDE DEF invalid
<1>4. ChainsInv'
  BY <1>2, <1>3, ImportChains, MineBlocksInv DEF TypedInv
<1>5. GoToError \/ \E valid \in BOOLEAN : Register(h, valid)
  <2>1. (~ invalid) \in BOOLEAN
    BY <1>2
  <2> QED BY <1>3, <2>1
<1> QED BY <1>1, <1>2, <1>4, <1>5, ErrorTyped, RegisterTyped

\* MineToTweak.
LEMMA TweakTyped ==
    ASSUME EveryChild, TypedInv, MineToTweak
    PROVE  TypedInv'
<1> PICK h : h = ChildOf(HeadBlock, MinedKind, << >>)
  OBVIOUS
<1> PICK n : n = Len(chains[currentChain])
  OBVIOUS
<1>1. /\ phase = "make" /\ MineBlocks(h)
      /\ todo' = << RewindTo(n - 1) >>
      /\ phase' = "postmine"
      /\ UNCHANGED <<hasUncles, named, currentName, rlps, exported, block, prepared, at>>
  BY DEF MineToTweak
<1>2. h \in Hash
  BY <1>1, MadeTyped
<1>3. ChainsInv'
  BY <1>1, <1>2, MineBlocksInv DEF TypedInv
<1>4. GoodChain(chains[currentChain])
  BY DEF TypedInv, ChainsInv, GoodChains
<1>5. n - 1 \in Nat
  BY <1>4, GoodChainElements
<1>6. todo' \in Seq(Calls)
  <2>1. RewindTo(n - 1) \in Calls
    BY <1>5 DEF Calls, CallsOf
  <2> QED BY <1>1, <2>1
<1>7. ChainsFit' /\ BlockInv' /\ ListsFit' /\ phase' \in Phases
  BY <1>1, <1>6 DEF TypedInv, ChainsFit, BlockInv, ListsFit, Phases
<1> QED BY <1>3, <1>7 DEF TypedInv

\* The steps after the last block.
LEMMA AfterTyped ==
    ASSUME TypedInv, EndOfBlocks \/ Synced \/ StartRun \/ EndRun
    PROVE  TypedInv'
<1>1. << ResetTo(DefaultNet) >> \in Seq(Calls)
  <2>1. ResetTo(DefaultNet) \in Calls
    BY FillerAssumption DEF Calls, CallsOf, DefaultNet
  <2> QED BY <2>1
<1>2. /\ UNCHANGED <<hasUncles, named, currentName, block, prepared>>
      /\ UNCHANGED vars /\ UNCHANGED <<rlps, exported>>
      /\ phase' \in Phases \ {"uncles", "make", "postmine"}
      /\ todo' \in {todo, << ResetTo(DefaultNet) >>} /\ at' \in {at, 1}
  BY DEF EndOfBlocks, Synced, StartRun, EndRun, making, Phases
<1>3. ListsFit'
  <2>1. todo' = todo \/ todo' = << ResetTo(DefaultNet) >>
    BY <1>2
  <2>2. todo' \in Seq(Calls)
    BY <1>1, <2>1 DEF TypedInv, ListsFit
  <2>3. at' \in Nat \ {0}
    <3>1. at' = at \/ at' = 1
      BY <1>2
    <3> QED BY <3>1 DEF TypedInv, ListsFit
  <2> QED BY <1>2, <2>2, <2>3 DEF TypedInv, ListsFit
<1>4. ChainsInv'
  BY <1>2, SameChains DEF TypedInv
<1> QED BY <1>2, <1>3, <1>4, RestTyped

\* SyncBlock.
LEMMA SyncTyped ==
    ASSUME TypedInv, SyncBlock
    PROVE  TypedInv'
<1>1. /\ phase = "sync" /\ at <= Len(rlps) /\ Import(rlps[at].hash)
      /\ \/ /\ exported' \in {exported, [exported EXCEPT ![at] = [exported[at] EXCEPT !.invalid = TRUE]]}
            /\ exported' = exported \/ at \in DOMAIN exported
            /\ at' = at + 1
            /\ UNCHANGED <<making, todo, phase, lastHash>>
         \/ GoToError
  <2> DEFINE bad == rlps[at].invalid
  <2>1. [exported EXCEPT ![at].invalid = TRUE] = [exported EXCEPT ![at] = [exported[at] EXCEPT !.invalid = TRUE]]
    OBVIOUS
  <2> QED BY <2>1 DEF SyncBlock
<1>2. /\ rlps \in Seq(Labelled) /\ exported \in Seq(Labelled) /\ Len(exported) <= Len(rlps)
      /\ at \in Nat \ {0} /\ todo \in Seq(Calls)
  BY DEF TypedInv, ListsFit
<1>3. rlps[at].hash \in Hash
  <2>1. at \in 1 .. Len(rlps)
    BY <1>1, <1>2
  <2>2. rlps[at] \in Labelled
    BY <1>2, <2>1, ElementOfSeq
  <2> QED BY <2>2 DEF Labelled
<1>4. ChainsInv'
  BY <1>1, <1>3, ImportChains DEF TypedInv
<1>5. CASE GoToError
  BY <1>4, <1>5, ErrorTyped
<1>6. CASE ~ GoToError
  <2>1. exported' \in Seq(Labelled) /\ Len(exported') = Len(exported)
    <3>1. CASE exported' = exported
      BY <1>2, <3>1
    <3>2. CASE at \in DOMAIN exported /\ exported' = [exported EXCEPT ![at] = [exported[at] EXCEPT !.invalid = TRUE]]
      <4> DEFINE e == [exported[at] EXCEPT !.invalid = TRUE]
      <4>1. at \in 1 .. Len(exported)
        BY <1>2, <3>2
      <4>2. exported[at] \in Labelled
        BY <1>2, <4>1, ElementOfSeq
      <4>3. e \in Labelled
        BY <4>2 DEF Labelled
      <4> HIDE DEF e
      <4>4. [exported EXCEPT ![at] = e] \in Seq(Labelled) /\ Len([exported EXCEPT ![at] = e]) = Len(exported)
        BY <1>2, <4>1, <4>3, ExceptSeq
      <4> QED BY <3>2, <4>4 DEF e
    <3> QED BY <1>1, <1>6, <3>1, <3>2
  <2>2. /\ UNCHANGED <<hasUncles, named, currentName, block, prepared, rlps, todo, phase>>
        /\ at' = at + 1
    BY <1>1, <1>6 DEF making
  <2>3. ListsFit'
    BY <1>2, <2>1, <2>2 DEF ListsFit
  <2> QED BY <1>1, <1>4, <2>2, <2>3, RestTyped DEF Phases
<1> QED BY <1>5, <1>6

\* RunBlock.
LEMMA RunTyped ==
    ASSUME TypedInv, RunBlock
    PROVE  TypedInv'
<1>1. /\ at <= Len(exported) /\ Import(exported[at].hash) /\ at' = at + 1
      /\ phase' \in {"run", "mismatch"}
      /\ UNCHANGED <<hasUncles, named, currentName, block, prepared, rlps, exported, todo>>
  BY DEF RunBlock, making
<1>2. exported \in Seq(Labelled) /\ at \in Nat \ {0}
  BY DEF TypedInv, ListsFit
<1>3. exported[at].hash \in Hash
  <2>1. at \in 1 .. Len(exported)
    BY <1>1, <1>2
  <2>2. exported[at] \in Labelled
    BY <1>2, <2>1, ElementOfSeq
  <2> QED BY <2>2 DEF Labelled
<1>4. ChainsInv'
  BY <1>1, <1>3, ImportChains DEF TypedInv
<1>5. ListsFit'
  BY <1>1, <1>2 DEF TypedInv, ListsFit
<1> QED BY <1>1, <1>4, <1>5, RestTyped DEF Phases

\* Every step keeps the types.
LEMMA NextTyped ==
    ASSUME EveryChild
    PROVE  TypedInv /\ [FillerNext]_allVars => TypedInv'
<1> SUFFICES ASSUME TypedInv, [FillerNext]_allVars PROVE TypedInv'
  OBVIOUS
<1>1. ASSUME NEW b \in FillerBlocks[hasUncles], ParseOutOfOrder(b)
      PROVE  TypedInv'
  <2>1. ChainsInv' /\ ListsFit'
    BY <1>1, SameChains DEF ParseOutOfOrder, TypedInv, ListsFit
  <2> QED BY <1>1, <2>1, RestTyped DEF ParseOutOfOrder, Phases
<1>2. CASE UNCHANGED allVars
  <2>1. UNCHANGED vars /\ UNCHANGED fillerVars
    BY <1>2 DEF allVars
  <2>2. ChainsInv'
    BY <2>1, SameChains DEF TypedInv
  <2>3. ChainsFit' /\ BlockInv' /\ ListsFit' /\ phase' \in Phases
    BY <2>1 DEF fillerVars, TypedInv, ChainsFit, BlockInv, ListsFit
  <2> QED BY <2>2, <2>3 DEF TypedInv
<1> QED BY <1>1, <1>2, CallTyped, ParseTyped, UncleTyped, MakeTyped, TweakTyped, AfterTyped,
           SyncTyped, RunTyped
        DEF FillerNext, Finished

\* The types of the client and of the filler follow.
LEMMA TypesFit == TypedInv => FillerTypeOK
<1> SUFFICES ASSUME TypedInv PROVE FillerTypeOK
  OBVIOUS
<1>1. TypeOK
  <2>1. \A c \in 0 .. maxChains : chains[c] \in Seq(BlockRecords) \ {<< >>}
    BY DEF TypedInv, ChainsInv, GoodChains, GoodChain
  <2>2. chains \in [0 .. maxChains -> Seq(BlockRecords) \ {<< >>}]
    BY <2>1 DEF TypedInv, ChainsInv, GoodChains
  <2> QED BY <2>2 DEF TypedInv, ChainsInv, TypeOK
<1>2. ASSUME NEW n \in DOMAIN named
      PROVE  /\ named[n] # << >> /\ named[n][1].hash = Genesis
             /\ \A i \in DOMAIN named[n] : named[n][i].next = NoHeader \/ named[n][i].next \in Hash
  <2>1. ChainFits(named[n])
    BY DEF TypedInv, ChainsFit
  <2>2. named[n] \in Seq(TestBlocks) /\ Len(named[n]) >= 1 /\ named[n][1].hash = Genesis
    BY <2>1 DEF ChainFits
  <2>3. \A i \in DOMAIN named[n] : named[n][i].next \in Hash \cup {NoHeader}
    BY <2>2, BlocksOfList
  <2>4. named[n] # << >>
    BY <2>2
  <2> QED BY <2>2, <2>3, <2>4
<1>3. prepared \in Seq(Hash) /\ Len(exported) <= Len(rlps)
  BY DEF TypedInv, BlockInv, ListsFit
<1>4. DefaultName \in DOMAIN named /\ DOMAIN named \subseteq Name /\ currentName \in DOMAIN named
  BY DEF TypedInv, ChainsFit
<1> QED BY <1>1, <1>2, <1>3, <1>4 DEF TypedInv, Phases, FillerTypeOK

\* The filler's chains, its block and its lists have their types.
THEOREM FillerTypeCorrect ==
    ASSUME EveryChild
    PROVE  FillerSpec => []FillerTypeOK
<1>1. FillerInit => TypedInv
  BY InitTyped
<1>2. TypedInv /\ [FillerNext]_allVars => TypedInv'
  BY NextTyped
<1> QED BY <1>1, <1>2, TypesFit, PTL DEF FillerSpec
=============================================================================
