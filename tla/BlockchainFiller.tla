--------------------------- MODULE BlockchainFiller ---------------------------
(***************************************************************************)
(* TestBlockchainManager and TestBlockchain: a blockchain test is filled   *)
(* from named chains of test blocks, kept beside a client that knows one   *)
(* history at a time, and the filled test is then run by                   *)
(* BlockchainTestRunner on the same client.  The client is ToolChain; each *)
(* call of its interface is a step of its own, so the filler may only use  *)
(* what the client answers.                                                *)
(***************************************************************************)
EXTENDS ToolChain

CONSTANTS
    Name,          \* chain names
    DefaultName,   \* defaultChainName: the chain of the genesis
    NetOf,         \* the network a chain is created with
    Kind,          \* what a filler asks of a block, apart from its place
    RawKinds,      \* the block is given as raw RLP that cannot be read
    TweakKinds,    \* the block is put together again after mining
    MinedKind,     \* what is mined first for a block that is changed
    UncleKinds,    \* kinds that are wrong by their uncles, if at all
    CandidateKind, \* a block mined to be an uncle: it has a coinbase of its own
    ChangedKind,   \* an uncle whose header the filler overwrites
    BadOn,         \* the networks for which the filler declares an exception
    ChildOf(_, _, _), \* the block of a kind on a parent, with its uncles
    NoHeader,      \* an empty spBlockHeader
    FillerBlocks,  \* the blocks a filler may ask for, without and with uncles
    MaxBlocks      \* bound on the number of filler blocks of a test

\* No chain name in an uncle section.
OwnChain == "own"

\* What an uncle of a filler block is made from, and whether its header is changed.
UncleSections ==
    [as : {"populateFromBlock", "sameAsPreviousBlockUncle", "sameAsBlock", "sameAsPreviousSibling"},
     index : Nat, chain : Name \cup {OwnChain}, changed : BOOLEAN]

\* No "blocknumber" in a block section.
NoNumber == -1

\* A block section of a filler: where the block goes, the kinds it is split into.
BlockSections ==
    [chain : Name, number : Nat \cup {NoNumber}, kinds : Seq(Kind), uncles : Seq(UncleSections),
     split : BOOLEAN, hidden : BOOLEAN]

ASSUME FillerAssumption ==
    /\ DefaultName \in Name
    /\ RawKinds \cup TweakKinds \subseteq Kind
    /\ RawKinds \cap TweakKinds = {}
    /\ {MinedKind, CandidateKind, ChangedKind} \subseteq Kind \ (RawKinds \cup TweakKinds)
    /\ CandidateKind \notin {MinedKind, ChangedKind}
    /\ NoHeader \notin Hash
    /\ MaxBlocks \in Nat
    /\ \A u \in BOOLEAN : \A b \in FillerBlocks[u] :
          /\ b \in BlockSections /\ b.kinds # << >>
          /\ \A i \in DOMAIN b.kinds : b.kinds[i] # CandidateKind

VARIABLES
    hasUncles,    \* hasUnclesInTest: a block of the test has uncles
    named,        \* m_mapOfKnownChain: name -> its test blocks, genesis first
    currentName,  \* m_sCurrentChainName
    network,      \* the network the client was last set up for
    wasFork,      \* m_wasAtLeastOneFork
    rlps,         \* m_testBlockRLPs: every block made, with "invalid on canon"
    exported,     \* filledTest["blocks"]: every block exported, with its label
    asked,        \* how many filler blocks were read
    block,        \* the filler block being made, with the kinds left to make
    prepared,     \* preparedUncleBlocks: the uncles of the block being made
    todo,         \* client calls left of the handler in progress
    phase,        \* where the filler, then the runner, is
    at,           \* the next block to import in phases "sync" and "run"
    lastHash      \* filledTest["lastblockhash"]

\* What the parsing and making of blocks changes, and nothing after it.
making == <<hasUncles, named, currentName, network, wasFork, rlps, asked, block, prepared>>

fillerVars == <<hasUncles, named, currentName, network, wasFork, rlps, exported, asked,
                block, prepared, todo, phase, at, lastHash>>

allVars == <<vars, fillerVars>>

DefaultNet == NetOf[DefaultName]

\* A TestBlock: its RLP, whether it has a header (it was mined or imported), its
\* uncles, and the header that was mined on top of it to be an uncle.
TestBlock(h, valid, uncles) == [hash |-> h, valid |-> valid, uncles |-> uncles, next |-> NoHeader]

\* setNextBlockForked.
WithNext(chain, u) == [chain EXCEPT ![Len(chain)] = [@ EXCEPT !.next = u]]

\* getExpectException is not empty.
Invalid(kind, net) == net \in BadOn[kind]

-----------------------------------------------------------------------------
(* Calls of the client. *)

KindIn(h) == CHOOSE k \in Kind : h = ChildOf(ParentOf[h], k, UnclesOf[h])

\* What is wrong below the header: the body, on this network, or the uncles, on
\* the chain of the parent.
BadBody(h) ==
    \/ Invalid(KindIn(h), network) /\ KindIn(h) \notin UncleKinds
    \/ LET on == OnParent(ParentOf[h]) IN ~ VerifyUncles(UnclesOf[h], h, on.chains[on.current])

\* test_importRawBlock, on the network the client has.
Import(h) ==
    IF KindIn(h) \in RawKinds \/ Holders(ParentOf[h]) = {}
    THEN ImportUnreadable
    ELSE \/ ImportBadHeader(h)
         \/ BadBody(h) /\ ImportBadBody(h)
         \/ ~ BadBody(h) /\ ImportAccepted(h)

\* test_rewindToBlock: beyond the head the loop has nothing to remove, and the
\* assertion is compiled out of a release build.
Rewind(number) ==
    IF number < Len(chains[currentChain])
    THEN RewindToBlock(number)
    ELSE /\ pending' = PendingOn(chains[currentChain])
         /\ reply' = "rewound"
         /\ UNCHANGED <<chains, currentChain, maxChains>>

ResetTo(net) == [call |-> "reset", net |-> net]
RewindTo(number) == [call |-> "rewind", number |-> number]
ImportOf(h) == [call |-> "import", hash |-> h]
Probe == [call |-> "probe"]

\* Slip: the uncle is mined before the block it goes with.
MineNextBlockAndRevertEarly ==
    /\ named' = [named EXCEPT ![currentName] = WithNext(@, ChildOf(ParentOf[HeadBlock], CandidateKind, << >>))]
    /\ pending' = PendingOn(chains[currentChain])
    /\ reply' = "rewound"
    /\ UNCHANGED <<chains, currentChain, maxChains>>

\* mineNextBlockAndRevert: a block is mined on the head and taken off again, its
\* header is kept with the last block of the chain, and the pending block is made
\* anew.
MineNextBlockAndRevert ==
    /\ named' = [named EXCEPT ![currentName] = WithNext(@, ChildOf(HeadBlock, CandidateKind, << >>))]
    /\ pending' = PendingOn(chains[currentChain])
    /\ reply' = "rewound"
    /\ UNCHANGED <<chains, currentChain, maxChains>>

\* The calls of a handler that reads no answer.
ClientCall ==
    /\ todo # << >>
    /\ LET c == Head(todo) IN
       \/ c.call = "reset"  /\ SetChainParams /\ network' = c.net /\ UNCHANGED named
       \/ c.call = "rewind" /\ Rewind(c.number) /\ UNCHANGED <<network, named>>
       \/ c.call = "import" /\ Import(c.hash) /\ UNCHANGED <<network, named>>
       \/ c.call = "probe"  /\ MineNextBlockAndRevert /\ UNCHANGED network
    /\ todo' = Tail(todo)
    /\ UNCHANGED <<hasUncles, currentName, wasFork, rlps, exported, asked, block, prepared,
                   phase, at, lastHash>>

-----------------------------------------------------------------------------
(* reorgChains and restoreUpToNumber. *)

\* Slip: the last of them is forgotten too.
BeforeShort(chain, number) ==
    SubSeq(chain, 1, IF number < Len(chain) THEN number - 1 ELSE Len(chain))

\* The blocks before the number asked for.
Before(chain, number) == SubSeq(chain, 1, IF number < Len(chain) THEN number ELSE Len(chain))

\* Slip: the history is imported as far as it goes.
ReplayAll(chain, number) == [i \in 1 .. Len(chain) - 1 |-> ImportOf(chain[i + 1].hash)]

\* The history of a chain is imported again, from the genesis up to the number.
Replay(chain, number) ==
    LET kept == Before(chain, number)
    IN [i \in 1 .. Len(kept) - 1 |-> ImportOf(kept[i + 1].hash)]

\* The chain a block names; a new one has a genesis.
ChainAsked(b) ==
    IF b.chain \in DOMAIN named THEN named[b.chain] ELSE << TestBlock(Genesis, TRUE, << >>) >>

\* A block without a number gets the one after the chain in use, which another
\* chain it names may not have; number 0 asks for the end of its own chain.
NumberAsked(b) ==
    CASE b.number = NoNumber -> Len(named[currentName])
      [] b.number = 0        -> Len(ChainAsked(b))
      [] OTHER               -> b.number

\* The constructor of a new chain sets the client up for another network, and
\* mines an uncle candidate on whatever head the client has.
CallsOfNewChain(b) ==
    IF b.chain \in DOMAIN named THEN << >>
    ELSE (IF NetOf[b.chain] # DefaultNet THEN << ResetTo(NetOf[b.chain]) >> ELSE << >>) \o << Probe >>

NumberHasDecreased(b) == NumberAsked(b) < Len(ChainAsked(b))

MustRestore(b) == b.chain # currentName \/ NumberHasDecreased(b)

\* Slip: the client is not set up again when the chains differ in network.
CallsToRestoreAnyNet(b) ==
    IF ~ MustRestore(b) THEN << >>
    ELSE IF b.chain = currentName
    THEN << RewindTo(NumberAsked(b) - 1) >>
    ELSE << RewindTo(0) >> \o Replay(ChainAsked(b), NumberAsked(b))

\* On the same chain the client goes back to the block before the number, by
\* that number; on another chain it goes back to the genesis and the history
\* is imported again.  The answers are not read.
CallsToRestore(b) ==
    IF ~ MustRestore(b) THEN << >>
    ELSE IF b.chain = currentName
    THEN << RewindTo(NumberAsked(b) - 1) >>
    ELSE (IF NetOf[currentName] # NetOf[b.chain] THEN << ResetTo(NetOf[b.chain]) >> ELSE << >>)
         \o << RewindTo(0) >> \o Replay(ChainAsked(b), NumberAsked(b))

\* The numbers of a chain that goes on must be in order.
InOrder(b) == MustRestore(b) \/ NumberAsked(b) = Len(ChainAsked(b))

\* Slip: going back on the same chain is not remembered.
ParseBlockForgetsFork(b) ==
    /\ phase = "parse" /\ todo = << >> /\ asked < MaxBlocks
    /\ InOrder(b)
    /\ named' = [n \in DOMAIN named \cup {b.chain} |->
                    IF n # b.chain THEN named[n]
                    ELSE IF MustRestore(b) THEN Before(ChainAsked(b), NumberAsked(b))
                    ELSE ChainAsked(b)]
    /\ currentName' = b.chain
    /\ wasFork' = (wasFork \/ b.chain # currentName)
    /\ asked' = asked + 1
    /\ block' = b
    /\ prepared' = << >>
    /\ todo' = CallsOfNewChain(b) \o CallsToRestore(b)
    /\ phase' = IF b.uncles = << >> THEN "make" ELSE "uncles"
    /\ UNCHANGED <<vars, hasUncles, network, rlps, exported, at, lastHash>>

\* parseBlockFromFiller up to the first block to make.
ParseBlock(b) ==
    /\ phase = "parse" /\ todo = << >> /\ asked < MaxBlocks
    /\ InOrder(b)
    /\ named' = [n \in DOMAIN named \cup {b.chain} |->
                    IF n # b.chain THEN named[n]
                    ELSE IF MustRestore(b) THEN Before(ChainAsked(b), NumberAsked(b))
                    ELSE ChainAsked(b)]
    /\ currentName' = b.chain
    /\ wasFork' = (wasFork \/ MustRestore(b))
    /\ asked' = asked + 1
    /\ block' = b
    /\ prepared' = << >>
    /\ todo' = CallsOfNewChain(b) \o CallsToRestore(b)
    /\ phase' = IF b.uncles = << >> THEN "make" ELSE "uncles"
    /\ UNCHANGED <<vars, hasUncles, network, rlps, exported, at, lastHash>>

\* The error of a number out of order ends the test.
ParseOutOfOrder(b) ==
    /\ phase = "parse" /\ todo = << >> /\ asked < MaxBlocks
    /\ ~ InOrder(b)
    /\ phase' = "error"
    /\ UNCHANGED <<vars, hasUncles, named, currentName, network, wasFork, rlps, exported, asked,
                   block, prepared, todo, at, lastHash>>

-----------------------------------------------------------------------------
(* prepareUncles: the headers the uncle sections of the block refer to. *)

\* The chain an uncle section names; OwnChain where it names none.
BlocksMeant(s) ==
    CASE s.chain = OwnChain       -> named[currentName]
      [] s.chain \in DOMAIN named -> named[s.chain]
      [] OTHER                    -> << >>

\* The header a section refers to.  A block that is invalid has no header mined on
\* top of it and no uncles; sameAsBlock asks the client.
Referred(s) ==
    CASE s.as = "populateFromBlock" ->
            IF s.index < Len(BlocksMeant(s)) THEN BlocksMeant(s)[s.index + 1].next ELSE NoHeader
      [] s.as = "sameAsPreviousBlockUncle" ->
            LET chain == named[currentName] IN
            IF s.index < Len(chain) /\ chain[s.index + 1].uncles # << >>
            THEN chain[s.index + 1].uncles[1] ELSE NoHeader
      [] s.as = "sameAsBlock" ->
            IF s.index < Len(chains[currentChain]) THEN chains[currentChain][s.index + 1].hash ELSE NoHeader
      [] s.as = "sameAsPreviousSibling" ->
            IF s.index \in DOMAIN prepared THEN prepared[s.index] ELSE NoHeader

\* The header as it is cited: overwriteHeader gives it other contents, but not
\* where it is that of a block.
Cited(s) ==
    IF s.changed /\ s.as # "sameAsBlock" THEN ChildOf(ParentOf[Referred(s)], ChangedKind, << >>)
    ELSE Referred(s)

\* prepareUncle, for the sections in their order; one that refers to nothing ends
\* the test.
PrepareUncle ==
    /\ phase = "uncles" /\ todo = << >>
    /\ LET s == block.uncles[Len(prepared) + 1] IN
       IF Referred(s) = NoHeader
       THEN phase' = "error" /\ UNCHANGED prepared
       ELSE /\ prepared' = Append(prepared, Cited(s))
            /\ phase' = IF Len(prepared) + 1 = Len(block.uncles) THEN "make" ELSE "uncles"
    /\ UNCHANGED <<vars, hasUncles, named, currentName, network, wasFork, rlps, exported, asked,
                   block, todo, at, lastHash>>

-----------------------------------------------------------------------------
(* generateBlock, once for each kind the filler block is split into. *)

KindToMake == Head(block.kinds)

\* The last exception a split block declares is for the network it is made on.
InvalidOnCanon(kind) ==
    /\ Invalid(kind, DefaultNet)
    /\ block.split => NetOf[currentName] = DefaultNet

\* The block on the head.
BlockToMake == ChildOf(HeadBlock, KindToMake, prepared)

\* The block is mined first and then put together again.
IsTweaked == KindToMake \in TweakKinds \/ (KindToMake \notin RawKinds /\ prepared # << >>)

\* The block goes to its chain, to the list of all blocks and, unless it is hidden,
\* to the test: a raw block always is in the test.  On a valid one an uncle is mined
\* where the test has uncles.
Register(h, valid) ==
    /\ named' = [named EXCEPT ![currentName] = Append(@, TestBlock(h, valid, IF valid THEN prepared ELSE << >>))]
    /\ rlps' = Append(rlps, [hash |-> h, invalid |-> InvalidOnCanon(KindToMake)])
    /\ exported' = IF block.hidden /\ KindToMake \notin RawKinds THEN exported
                   ELSE Append(exported, [hash |-> h, invalid |-> Invalid(KindToMake, NetOf[currentName])])
    /\ block' = [block EXCEPT !.kinds = Tail(@)]
    /\ phase' = IF Tail(block.kinds) = << >> THEN "parse" ELSE "make"
    /\ todo' = IF valid /\ hasUncles THEN << Probe >> ELSE << >>
    /\ UNCHANGED <<hasUncles, currentName, network, wasFork, asked, prepared, at, lastHash>>

GoToError ==
    /\ phase' = "error"
    /\ UNCHANGED <<hasUncles, named, currentName, network, wasFork, rlps, exported, asked, block,
                   prepared, todo, at, lastHash>>

\* _generateBlock_RawBlock: the import fails, and the exception must be declared.
MakeRawBlock ==
    /\ phase = "make" /\ todo = << >>
    /\ KindToMake \in RawKinds
    /\ Import(BlockToMake)
    /\ IF Invalid(KindToMake, NetOf[currentName]) THEN Register(BlockToMake, FALSE) ELSE GoToError

\* mineBlock, nothing to change afterwards: an exception that is declared does
\* not come.
MakePlainBlock ==
    /\ phase = "make" /\ todo = << >>
    /\ KindToMake \notin RawKinds /\ ~ IsTweaked
    /\ MineBlocks(BlockToMake)
    /\ IF Invalid(KindToMake, NetOf[currentName]) THEN GoToError ELSE Register(BlockToMake, TRUE)

\* mineBlock, then postmineBlockHeader up to the import: the mined block is
\* taken off by its number.
MineToTweak ==
    /\ phase = "make" /\ todo = << >>
    /\ IsTweaked
    /\ MineBlocks(ChildOf(HeadBlock, MinedKind, << >>))
    /\ todo' = << RewindTo(Len(chains[currentChain]) - 1) >>
    /\ phase' = "postmine"
    /\ UNCHANGED <<hasUncles, named, currentName, network, wasFork, rlps, exported, asked, block,
                   prepared, at, lastHash>>

\* The changed block is imported, and checkBlockException compares the answer
\* with the exception of the network the chain is on.
ImportTweaked ==
    /\ phase = "postmine" /\ todo = << >>
    /\ LET invalid == Invalid(KindToMake, NetOf[currentName]) IN
       /\ Import(BlockToMake)
       /\ IF invalid <=> reply' = "import failed"
          THEN Register(BlockToMake, ~ invalid)
          ELSE GoToError

-----------------------------------------------------------------------------
(* syncOnRemoteClient and the end of FillTest. *)

\* Where no chain was left all blocks are on the client already.
EndOfBlocks ==
    /\ phase = "parse" /\ todo = << >> /\ asked > 0
    /\ IF wasFork
       THEN /\ phase' = "sync"
            /\ at' = 1
            /\ todo' = << ResetTo(DefaultNet) >>
            /\ UNCHANGED lastHash
       ELSE /\ phase' = "filled"
            /\ lastHash' = HeadBlock
            /\ UNCHANGED <<at, todo>>
    /\ UNCHANGED <<vars, making, exported>>

\* Every block ever made is imported in the order of the test; one that is
\* invalid on the canonical network gets that label, at its place in the test.
SyncBlock ==
    /\ phase = "sync" /\ todo = << >> /\ at <= Len(rlps)
    /\ Import(rlps[at].hash)
    /\ IF /\ rlps[at].invalid <=> reply' = "import failed"
          /\ rlps[at].invalid => at \in DOMAIN exported
       THEN /\ exported' = IF rlps[at].invalid THEN [exported EXCEPT ![at].invalid = TRUE] ELSE exported
            /\ at' = at + 1
            /\ UNCHANGED <<making, todo, phase, lastHash>>
       ELSE GoToError

Synced ==
    /\ phase = "sync" /\ todo = << >> /\ at > Len(rlps)
    /\ phase' = "filled"
    /\ lastHash' = HeadBlock
    /\ UNCHANGED <<vars, making, exported, todo, at>>

-----------------------------------------------------------------------------
(* RunTest of BlockchainTestLogic, on the test as it was filled. *)

StartRun ==
    /\ phase = "filled"
    /\ phase' = "run"
    /\ at' = 1
    /\ todo' = << ResetTo(DefaultNet) >>
    /\ UNCHANGED <<vars, making, exported, lastHash>>

\* checkLastRPCBlockException: the answer must be the one the test has.
RunBlock ==
    /\ phase = "run" /\ todo = << >> /\ at <= Len(exported)
    /\ Import(exported[at].hash)
    /\ phase' = IF exported[at].invalid <=> reply' = "import failed" THEN "run" ELSE "mismatch"
    /\ at' = at + 1
    /\ UNCHANGED <<making, exported, todo, lastHash>>

\* checkPostState compares the last block.
EndRun ==
    /\ phase = "run" /\ todo = << >> /\ at > Len(exported)
    /\ phase' = IF HeadBlock = lastHash THEN "passed" ELSE "mismatch"
    /\ UNCHANGED <<vars, making, exported, todo, at, lastHash>>

\* The test was filled and run, or given up.
Finished ==
    /\ phase \in {"passed", "mismatch", "error"}
    /\ UNCHANGED allVars

-----------------------------------------------------------------------------
NoBlock == [chain |-> DefaultName, number |-> NoNumber, kinds |-> << >>, uncles |-> << >>,
            split |-> FALSE, hidden |-> FALSE]

\* The manager is made with the default chain: set up, then a candidate mined.
FillerInit ==
    /\ Init
    /\ hasUncles \in BOOLEAN
    /\ named = [n \in {DefaultName} |-> WithNext(<< TestBlock(Genesis, TRUE, << >>) >>,
                                              ChildOf(Genesis, CandidateKind, << >>))]
    /\ currentName = DefaultName
    /\ network = DefaultNet
    /\ wasFork = FALSE
    /\ rlps = << >> /\ exported = << >>
    /\ asked = 0
    /\ block = NoBlock
    /\ prepared = << >>
    /\ todo = << >>
    /\ phase = "parse"
    /\ at = 1
    /\ lastHash = Genesis

FillerNext ==
    \/ ClientCall
    \/ \E b \in FillerBlocks[hasUncles] : ParseBlock(b) \/ ParseOutOfOrder(b)
    \/ PrepareUncle
    \/ MakeRawBlock \/ MakePlainBlock \/ MineToTweak \/ ImportTweaked
    \/ EndOfBlocks \/ SyncBlock \/ Synced
    \/ StartRun \/ RunBlock \/ EndRun
    \/ Finished

FillerSpec == FillerInit /\ [][FillerNext]_allVars

-----------------------------------------------------------------------------
(* What must hold. *)

Made(chain) == \A i \in DOMAIN chain : chain[i].valid

LastValid(chain) ==
    chain[CHOOSE i \in DOMAIN chain : /\ chain[i].valid
                                      /\ \A j \in DOMAIN chain : chain[j].valid => j <= i].hash

ReadyToMake == phase = "make" /\ todo = << >>

\* The filler's own chains, the client's, and the lists of the test fit.
FillerTypeOK ==
    /\ TypeOK
    /\ prepared \in Seq(Hash)
    /\ DefaultName \in DOMAIN named /\ DOMAIN named \subseteq Name
    /\ currentName \in DOMAIN named
    /\ \A n \in DOMAIN named :
          /\ named[n] # << >> /\ named[n][1].hash = Genesis
          /\ \A i \in DOMAIN named[n] : named[n][i].next = NoHeader \/ named[n][i].next \in Hash
    /\ Len(exported) <= Len(rlps)
    /\ phase \in {"parse", "uncles", "make", "postmine", "sync", "filled", "run", "passed", "mismatch", "error"}

\* A block is mined under the rules of the network of its own chain, however
\* the test goes from one chain to another (TestBlockchainManager::reorgChains
\* sets the client up again in two places).
NetworkFollowsChain == ReadyToMake => network = NetOf[currentName]

\* When the filler mines, the head of the client is the last block of the chain
\* the block belongs to: the history that was rewound and imported again, with
\* answers nobody read, is the one the filler remembers
\* (TestBlockchain::restoreUpToNumber).
ClientHoldsNamedChain ==
    ReadyToMake /\ Made(named[currentName]) => HeadBlock = LastValid(named[currentName])

\* The header kept with a block of any chain can be cited on every branch that has
\* the block below its head, until it is cited there or too old: it is a child of
\* that block, however often the client was wound back since
\* (TestBlockchain::mineNextBlockAndRevert).  Not so the header kept with the
\* genesis of a chain made late, which was mined on the head of another chain.
UncleCandidatesFit ==
    ReadyToMake =>
        \A n \in DOMAIN named : \A i \in DOMAIN named[n] :
            LET b     == named[n][i]
                chain == chains[currentChain]
            IN  /\ b.next # NoHeader
                /\ i > 1 \/ n = DefaultName
                /\ b.hash \in Hashes(chain) \ {HeadBlock}
                /\ Len(chain) - NumberOf[b.hash] <= UncleGenerations
                /\ \A c \in DOMAIN chain : b.next \notin UnclesIn(chain[c].hash)
                => /\ ParentOf[b.next] = b.hash
                   /\ VerifyUncles(<< b.next >>, ChildOf(HeadBlock, MinedKind, << >>), chain)

\* The blocks that are labelled invalid, by the network of their own chain, but
\* that the canonical network accepts.
StaleLabels == {i \in DOMAIN exported : exported[i].invalid /\ ~ rlps[i].invalid}

\* A test whose blocks are all exported passes when it is run exactly if no label is
\* of a side network only, which syncOnRemoteClient never takes back: the last
\* block and every other label come out as they were filled, from a client that met
\* the blocks in another order; and a run that does not pass stops at the first
\* such label.
FilledTestPasses ==
    Len(exported) = Len(rlps) =>
        /\ phase = "mismatch" => at - 1 \in StaleLabels /\ \A i \in StaleLabels : at - 1 <= i
        /\ phase = "passed" => StaleLabels = {}

\* "Restore this chain on remote client up to < _number block"
\* (TestBlockchain.cpp): also when the chain has invalid blocks, which take a
\* place in it but no number on the client.
ClientIsRestored == ReadyToMake => HeadBlock = LastValid(named[currentName])

\* "RELY ON _exportBlocksSection has the same block order as m_testBlockRLPs"
\* (TestBlockchainManager::syncOnRemoteClient): the label of block number n of
\* the one list is written to entry n of the other.
ExportFollowsImports ==
    phase = "sync" =>
        /\ Len(exported) = Len(rlps)
        /\ \A i \in DOMAIN exported : exported[i].hash = rlps[i].hash
=============================================================================
