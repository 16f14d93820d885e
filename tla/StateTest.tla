------------------------------ MODULE StateTest ------------------------------
(***************************************************************************)
(* Filling and running of a general state test: every transaction of the   *)
(* test is executed, alone, in the first block of a chain of every fork an *)
(* expect section names.  FillTest (FillStateTest.cpp) writes what comes   *)
(* out to a file, FillTestAsBlockchain (FillStateTestAsChain.cpp) makes    *)
(* blockchain tests of it, RunTest (RunStateTest.cpp) executes the file,   *)
(* and _executeTest (TestSuite.cpp) runs a file after it was filled.       *)
(*                                                                         *)
(* The three loops have the same shape - forks, sections, transactions -   *)
(* and are one here; mode tells which of them it is.  A state root is what *)
(* it commits to: the fork, the pre state and what the blocks executed.    *)
(***************************************************************************)
EXTENDS HeaderRules, Sequences, FiniteSets, SequencesExt

CONSTANTS
    Fork,
    ForkRank,      \* the place of a fork in a std::set<FORK>, which is in the order of names
    NoEmptyPre,    \* Paris and later: a pre state must not have empty accounts
    DropForks,     \* forks whose blocks are of type BlockHeader4844
    SystemOf,      \* the system accounts a blockchain test of a fork needs
    Tx,
    BlobFee,       \* maxFeePerBlobGas, 0 for a transaction without blobs
    BlobPrice(_),  \* get_blob_gasprice of an excess blob gas
    Exceptions,    \* the exceptions an expect section may name
    LowBlobFee,    \* the exception of a transaction that pays too little for blobs
    Rejects,       \* what else is wrong with a transaction on a fork, "" if nothing
    TxGas,         \* gas a transaction uses
    Fillers,       \* the versions of the test a developer may write
    Commands,      \* the options retesteth may be started with
    MaxCommands    \* bound: commands started

ASSUME StateTestAssumption ==
    /\ Fork # {} /\ Commands # {}
    /\ ForkRank \in [Fork -> Nat] /\ IsInjective(ForkRank)
    /\ BlobFee \in [Tx -> Nat]
    /\ TxGas \in Nat
    /\ MaxCommands \in Nat

\* An expect section of a filler; the exceptions are those of some forks.
ExpectSections ==
    [forks : SUBSET Fork, txs : SUBSET Tx, result : SUBSET SUBSET Tx,
     exception : UNION {[S -> Exceptions] : S \in SUBSET Fork}]

\* The transactions are built one for each index of the three lists.
ASSUME TestAssumption ==
    \A f \in Fillers :
        /\ f.txs \in Seq(Tx) /\ IsInjective(f.txs)
        /\ f.expects \in Seq(ExpectSections)

\* What a block header holds: with a gas limit of 0 or 1 there is no target.
ASSUME EnvironmentAssumption ==
    \A f \in Fillers :
        /\ f.env.baseFee \in Nat /\ f.env.excess \in Nat
        /\ f.env.gasLimit \in Nat /\ f.env.gasLimit >= 2

NoFile == [written |-> FALSE]

VARIABLES
    filler,    \* the filler in the repository
    file,      \* the filled test on disk
    cmd,       \* the command that is running, or ran last
    mode,      \* "idle", "fill", "chain" or "run"
    step,      \* where in the loop: "forks", "sections", "txs", "sent", "mined", "end"
    forks,     \* forks left, the first of them is being tested
    sections,  \* expect sections, or results, of that fork left
    txs,       \* transactions left for the first of them
    found,     \* expectFoundTransaction, resultHaveCorrespondingTransaction
    executed, skipped,  \* the marks on m_txs
    client,    \* the chain of the session's client
    mined,     \* what test_mineBlocks answered: the rejected transactions
    statePre,  \* m_statePreModified: the accounts added to the pre state
    results,   \* the post section: results of a fork
    chainTests,\* m_filledBlockchainTest
    errors,    \* errors marked or thrown
    count      \* commands started

loop == <<mode, step, forks, sections, txs, found>>
marks == <<executed, skipped>>
disk == <<filler, file, cmd, count>>
made == <<statePre, results, chainTests>>
vars == <<disk, loop, marks, client, mined, made, errors>>

-----------------------------------------------------------------------------
(* The client, behind the session. *)

GenesisOf(env) ==
    [baseFee |-> GenesisBaseFee(env.baseFee), gasUsed |-> 0, gasLimit |-> env.gasLimit,
     excess |-> GenesisExcessBlobGas(env.excess), txs |-> {}]

\* test_setChainParams
NewChain(fork, pre, env) ==
    [fork |-> fork, pre |-> pre, blocks |-> <<GenesisOf(env)>>, pending |-> << >>, dropped |-> {}]

\* addPendingTransaction: the price is the one of the last block, not of the
\* block the transaction would be in.
Drops(chain, t) ==
    /\ BlobFee[t] > 0
    /\ chain.fork \in DropForks
    /\ BlobFee[t] < BlobPrice(Last(chain.blocks).excess)

SendRaw(chain, t) ==
    IF Drops(chain, t) THEN [chain EXCEPT !.dropped = @ \cup {t}]
    ELSE [chain EXCEPT !.pending = Append(@, t)]

ExcessOfNext(chain) == ExcessBlobGas(Last(chain.blocks).excess, 0)

\* Why the tool rejects a pending transaction.
ToolReason(chain, t) ==
    IF Rejects[chain.fork][t] # "" THEN Rejects[chain.fork][t]
    ELSE IF BlobFee[t] > 0 /\ BlobFee[t] < BlobPrice(ExcessOfNext(chain)) THEN LowBlobFee
    ELSE ""

Accepted(chain) == {t \in ToSet(chain.pending) : ToolReason(chain, t) = ""}

\* test_mineBlocks: a block of what is not rejected, and a new pending block.
Mined(chain) ==
    [chain EXCEPT !.blocks = Append(@,
                      [baseFee  |-> BaseFee(Last(@)), gasLimit |-> Last(@).gasLimit,
                       gasUsed  |-> TxGas * Cardinality(Accepted(chain)),
                       excess   |-> ExcessOfNext(chain), txs |-> Accepted(chain)]),
                  !.pending = << >>, !.dropped = {}]

\* What it answers, rejections of the tool before those of retesteth.
Rejected(chain) ==
    [t \in (ToSet(chain.pending) \ Accepted(chain)) \cup chain.dropped |->
        IF t \in ToSet(chain.pending) THEN ToolReason(chain, t) ELSE LowBlobFee]

Reason(t) == IF t \in DOMAIN mined THEN mined[t] ELSE ""

\* Slip: block 1 is kept as well.
RewoundByOne(chain) ==
    [chain EXCEPT !.blocks = SubSeq(@, 1, 2), !.pending = << >>, !.dropped = {}]

\* test_rewindToBlock(0)
Rewound(chain) ==
    [chain EXCEPT !.blocks = <<Head(@)>>, !.pending = << >>, !.dropped = {}]

\* The state root: genesis and blocks, as far as they decide the state.
Root(chain) ==
    [fork |-> chain.fork, pre |-> chain.pre,
     blocks |-> [i \in 1 .. Len(chain.blocks) - 1 |->
                    [txs |-> chain.blocks[i + 1].txs, baseFee |-> chain.blocks[i + 1].baseFee,
                     excess |-> chain.blocks[i + 1].excess]]]

ExecutedIn(root) == UNION {root.blocks[i].txs : i \in DOMAIN root.blocks}

-----------------------------------------------------------------------------
(* The test and the options. *)

\* The test the loop works on: the filler, or the file when it is run.
Test == IF mode = "run" THEN file.test ELSE filler

ForksOf(test) == UNION {test.expects[i].forks : i \in DOMAIN test.expects}

\* The order in which std::set<FORK> iterates.
First(forkSet) == CHOOSE f \in forkSet : \A g \in forkSet : ForkRank[f] <= ForkRank[g]

\* Slip: only sections with the same forks are compared.
IsRedundantForEqualForks(test) ==
    \E i, j \in DOMAIN test.expects :
        /\ i < j
        /\ test.expects[i].forks = test.expects[j].forks
        /\ test.expects[i].txs \cap test.expects[j].txs # {}

\* checkRedundantExpectSection: two sections name a transaction on a fork.
IsRedundant(test) ==
    \E i, j \in DOMAIN test.expects :
        /\ i < j
        /\ test.expects[i].forks \cap test.expects[j].forks # {}
        /\ test.expects[i].txs \cap test.expects[j].txs # {}

\* networkSkip: --singlenet, --runonlynets and the forks the client does not have.
NetworkSkip(fork) == fork \notin cmd.nets

\* optionsAllowTransaction: -d, -g, -v
Allows(t) == t \in cmd.txs

TransactionsOf(test) == ToSet(test.txs)

\* The sections gone through for a fork: those of the filler, or the results of
\* the file.
SectionsOf(fork) == IF mode = "run" THEN file.post[fork] ELSE filler.expects

\* hasFork; a result of the file is one of its fork.
HasFork(section, fork) == mode # "run" => fork \in section.forks

ExceptionOf(section, fork) ==
    IF fork \in DOMAIN section.exception THEN section.exception[fork] ELSE ""

\* Slip: a transaction that is not rejected is taken for the one expected.
WrongVerdictIfRejected(exception, reason) ==
    cmd.reports /\ exception # reason /\ reason # ""

\* compareTransactionException; a client that reports no rejected transactions
\* is believed when one is expected.
WrongVerdict(exception, reason) ==
    cmd.reports /\ exception # reason

\* compareStates, on what a root commits to.
AsExpected(section, root) == ExecutedIn(root) \in section.result

-----------------------------------------------------------------------------
(* Commands. *)

\* Marks and errors of a failure that ends the test.
Fail(error) ==
    /\ errors' = errors \cup {error}
    /\ mode' = "idle"
    /\ UNCHANGED <<disk, step, forks, sections, txs, found, marks, client, mined, made>>

\* retesteth is started.
Started(c) ==
    /\ mode = "idle"
    /\ count < MaxCommands
    /\ count' = count + 1
    /\ cmd' = c
    /\ UNCHANGED filler

\* A runner is made; m_txs are built again, without marks.
NewRunner(newMode, forkSet) ==
    /\ mode' = newMode
    /\ step' = "forks"
    /\ forks' = forkSet
    /\ sections' = << >>
    /\ txs' = << >>
    /\ found' = FALSE
    /\ executed' = {}
    /\ skipped' = {}
    /\ statePre' = {}
    /\ results' = << >>
    /\ chainTests' = {}
    /\ errors' = {}
    /\ UNCHANGED <<client, mined>>

\* The developer writes another version of the filler.
EditFiller(f) ==
    /\ mode = "idle"
    /\ count < MaxCommands
    /\ f # filler
    /\ filler' = f
    /\ UNCHANGED <<file, cmd, count, loop, marks, client, mined, made, errors>>

\* The parser of the filler refuses it.
RefuseFiller(c) ==
    /\ c.mode \in {"fill", "chain"}
    /\ IsRedundant(filler)
    /\ Started(c)
    /\ errors' = {"redundant"}
    /\ UNCHANGED <<file, loop, marks, client, mined, made>>

StartFill(c) ==
    /\ c.mode \in {"fill", "chain"}
    /\ ~ IsRedundant(filler)
    /\ ForksOf(filler) \cap c.skipForks = {}
    /\ Started(c)
    /\ NewRunner(c.mode, ForksOf(filler))
    /\ UNCHANGED file

\* runTestAfterFilling: with a filter there is no second run.
SecondRun(c) == c.txs = Tx /\ ~ c.single

RunsFile(c) == c.mode = "fill" /\ SecondRun(c)

\* hasSkipFork, in FillTest and FillTestAsBlockchain: nothing is filled, and the
\* file that is there is run.  (The file of blockchain tests is not in this module.)
SkipFilling(c) ==
    /\ c.mode \in {"fill", "chain"}
    /\ ~ IsRedundant(filler)
    /\ ForksOf(filler) \cap c.skipForks # {}
    /\ Started(c)
    /\ IF RunsFile(c) /\ file.written
       THEN NewRunner("run", DOMAIN file.post)
       ELSE /\ errors' = IF RunsFile(c) THEN {"no file"} ELSE {}
            /\ UNCHANGED <<loop, marks, client, mined, made>>
    /\ UNCHANGED file

\* checkGeneratedTest, checkFillerHash: a file of the filler as it is now.
UpToDate == file.written /\ file.test = filler

StartRun(c) ==
    /\ c.mode = "run"
    /\ UpToDate
    /\ Started(c)
    /\ NewRunner("run", DOMAIN file.post)
    /\ UNCHANGED file

RefuseRun(c) ==
    /\ c.mode = "run"
    /\ ~ UpToDate
    /\ Started(c)
    /\ errors' = {"outdated"}
    /\ UNCHANGED <<file, loop, marks, client, mined, made>>

-----------------------------------------------------------------------------
(* The loop. *)

At(place) == mode # "idle" /\ step = place

Chains == <<client, mined>>

\* checkNetworkSkip: every transaction is marked, for whatever fork.
SkipFork ==
    /\ At("forks") /\ forks # {}
    /\ NetworkSkip(First(forks))
    /\ skipped' = TransactionsOf(Test)
    /\ forks' = forks \ {First(forks)}
    /\ UNCHANGED <<disk, mode, step, sections, txs, found, executed, Chains, made, errors>>

\* prepareChainParams of the state test runners.
BeginFork ==
    /\ At("forks") /\ forks # {}
    /\ ~ NetworkSkip(First(forks))
    /\ sections' = SectionsOf(First(forks))
    /\ step' = "sections"
    /\ IF mode = "chain" THEN UNCHANGED client
       ELSE client' = NewChain(First(forks), Test.pre, Test.env)
    /\ UNCHANGED <<disk, mode, forks, txs, found, marks, mined, made, errors>>

\* An expect section without the fork is passed over.
SkipSection ==
    /\ At("sections") /\ sections # << >>
    /\ ~ HasFork(Head(sections), First(forks))
    /\ sections' = Tail(sections)
    /\ UNCHANGED <<disk, mode, step, forks, txs, found, marks, Chains, made, errors>>

BeginSection ==
    /\ At("sections") /\ sections # << >>
    /\ HasFork(Head(sections), First(forks))
    /\ txs' = Test.txs
    /\ found' = FALSE
    /\ step' = "txs"
    /\ UNCHANGED <<disk, mode, forks, sections, marks, Chains, made, errors>>

EndFork ==
    /\ At("sections") /\ sections = << >>
    /\ forks' = forks \ {First(forks)}
    /\ step' = "forks"
    /\ UNCHANGED <<disk, mode, sections, txs, found, marks, Chains, made, errors>>

Named == txs # << >> /\ Head(txs) \in Head(sections).txs

\* Slip: a filtered transaction is not looked for in the section.
SkipTransactionFirst ==
    /\ At("txs") /\ txs # << >>
    /\ ~ Allows(Head(txs))
    /\ skipped' = skipped \cup {Head(txs)}
    /\ txs' = Tail(txs)
    /\ UNCHANGED <<disk, mode, step, forks, sections, found, executed, Chains, made, errors>>

SkipTransaction ==
    /\ At("txs") /\ txs # << >>
    /\ ~ Allows(Head(txs))
    /\ skipped' = skipped \cup {Head(txs)}
    /\ found' = (found \/ Named)
    /\ txs' = Tail(txs)
    /\ UNCHANGED <<disk, mode, step, forks, sections, executed, Chains, made, errors>>

\* Slip: a transaction of another section is marked as if a filter had skipped it.
PassTransactionMarked ==
    /\ At("txs") /\ txs # << >>
    /\ Allows(Head(txs)) /\ ~ Named
    /\ skipped' = skipped \cup {Head(txs)}
    /\ txs' = Tail(txs)
    /\ UNCHANGED <<disk, mode, step, forks, sections, found, executed, Chains, made, errors>>

PassTransaction ==
    /\ At("txs") /\ txs # << >>
    /\ Allows(Head(txs)) /\ ~ Named
    /\ txs' = Tail(txs)
    /\ UNCHANGED <<disk, mode, step, forks, sections, found, marks, Chains, made, errors>>

\* Only FillTest looks for empty accounts.
RefuseEmptyAccount ==
    /\ At("txs") /\ Named
    /\ Allows(Head(txs))
    /\ mode = "fill"
    /\ First(forks) \in NoEmptyPre
    /\ filler.emptyAccount
    /\ Fail("empty account")

\* Slip: the pre state is modified once, for the first fork that needs it.
StatePreOnce(fork) == IF statePre = {} THEN SystemOf[fork] \ Test.pre ELSE statePre

\* prepareChainParams of StateTestChainRunner: what an earlier fork needed is
\* left in place for a fork that needs nothing.
StatePre(fork) ==
    IF SystemOf[fork] \subseteq Test.pre THEN statePre ELSE SystemOf[fork] \ Test.pre

\* test_modifyTimestamp, eth_sendRawTransaction; for a blockchain test there is
\* a new chain for every transaction.
SendTransaction ==
    /\ At("txs") /\ Named
    /\ Allows(Head(txs))
    /\ ~ (mode = "fill" /\ First(forks) \in NoEmptyPre /\ filler.emptyAccount)
    /\ found' = TRUE
    /\ step' = "sent"
    /\ IF mode = "chain"
       THEN /\ statePre' = StatePre(First(forks))
            /\ client' = SendRaw(NewChain(First(forks), Test.pre \cup statePre', Test.env), Head(txs))
       ELSE /\ client' = SendRaw(client, Head(txs))
            /\ UNCHANGED statePre
    /\ UNCHANGED <<disk, mode, forks, sections, txs, marks, mined, results, chainTests, errors>>

MineBlock ==
    /\ At("sent")
    /\ client' = Mined(client)
    /\ mined' = Rejected(client)
    /\ step' = "mined"
    /\ UNCHANGED <<disk, mode, forks, sections, txs, found, marks, made, errors>>

Exception == ExceptionOf(Head(sections), First(forks))

\* The state that is compared and written: of a blockchain test whose
\* transaction is rejected it is that of block 0.
Outcome == IF mode = "chain" /\ Exception # "" THEN Root(Rewound(client)) ELSE Root(client)

Complaint ==
    \/ WrongVerdict(Exception, Reason(Head(txs)))
    \/ Exception = "" /\ Head(txs) \notin Last(client.blocks).txs
    \/ IF mode = "run" THEN Outcome # Head(sections).root ELSE ~ AsExpected(Head(sections), Outcome)

JudgeFails ==
    /\ At("mined")
    /\ Complaint
    /\ Fail("transaction")

\* An entry of the post section; it is an expect section of the filled test.
Result ==
    [txs |-> {Head(txs)}, result |-> SUBSET Tx, root |-> Outcome,
     exception |-> [f \in IF Exception = "" THEN {} ELSE {First(forks)} |-> Exception]]

ResultsOf(fork) == IF fork \in DOMAIN results THEN results[fork] ELSE << >>

ChainTest ==
    [fork |-> First(forks), tx |-> Head(txs), pre |-> Test.pre \cup statePre,
     exception |-> Exception, root |-> Outcome]

\* performTransactionOnExpect, performTransactionOnResult from the answer of
\* test_mineBlocks on; the chain is wound back for the next transaction.
JudgePasses ==
    /\ At("mined")
    /\ ~ Complaint
    /\ executed' = executed \cup {Head(txs)}
    /\ client' = Rewound(client)
    /\ txs' = Tail(txs)
    /\ step' = "txs"
    /\ results' = IF mode # "fill" THEN results
                  ELSE [f \in DOMAIN results \cup {First(forks)} |->
                           IF f = First(forks) THEN Append(ResultsOf(f), Result) ELSE results[f]]
    /\ chainTests' = IF mode # "chain" THEN chainTests ELSE chainTests \cup {ChainTest}
    /\ UNCHANGED <<disk, mode, forks, sections, found, skipped, mined, statePre, errors>>

EndSection ==
    /\ At("txs") /\ txs = << >>
    /\ found \/ mode = "chain"
    /\ sections' = Tail(sections)
    /\ step' = "sections"
    /\ UNCHANGED <<disk, mode, forks, txs, found, marks, Chains, made, errors>>

\* FillTest and RunTest, not FillTestAsBlockchain.
SectionNamesNone ==
    /\ At("txs") /\ txs = << >>
    /\ ~ found /\ mode # "chain"
    /\ Fail("section without transaction")

Uncovered == TransactionsOf(Test) \ (executed \cup skipped)

\* checkUnexecutedTransactions: an uncovered transaction is marked as an error
\* and the filled test is written all the same.
EndLoop ==
    /\ At("forks") /\ forks = {}
    /\ ~ (mode = "fill" /\ executed = {})
    /\ errors' = IF Uncovered = {} THEN errors ELSE errors \cup {"uncovered"}
    /\ IF mode = "fill" THEN step' = "end" /\ UNCHANGED mode
       ELSE mode' = "idle" /\ UNCHANGED step
    /\ UNCHANGED <<disk, forks, sections, txs, found, marks, Chains, made>>

NothingExecuted ==
    /\ At("forks") /\ forks = {}
    /\ mode = "fill" /\ executed = {}
    /\ Fail("nothing executed")

\* _fillJsonYml writes the test, runTestAfterFilling runs it.  (by and clean
\* are not in the file: how it came to be.)
WriteFile ==
    /\ At("end")
    /\ file' = [written |-> TRUE, test |-> filler, post |-> results,
                by |-> cmd, clean |-> errors = {}]
    /\ IF SecondRun(cmd) THEN NewRunner("run", DOMAIN results)
       ELSE /\ mode' = "idle"
            /\ UNCHANGED <<step, forks, sections, txs, found, marks, client, mined, made, errors>>
    /\ UNCHANGED <<filler, cmd, count>>

-----------------------------------------------------------------------------
Init ==
    /\ filler \in Fillers
    /\ file = NoFile
    /\ cmd = CHOOSE c \in Commands : TRUE
    /\ mode = "idle"
    /\ step = "forks"
    /\ forks = {} /\ sections = << >> /\ txs = << >> /\ found = FALSE
    /\ executed = {} /\ skipped = {}
    /\ client = NewChain(First(Fork), filler.pre, filler.env)
    /\ mined = << >>
    /\ statePre = {} /\ results = << >> /\ chainTests = {}
    /\ errors = {}
    /\ count = 0

Loop ==
    \/ SkipFork \/ BeginFork \/ EndFork
    \/ SkipSection \/ BeginSection \/ EndSection \/ SectionNamesNone
    \/ SkipTransaction \/ PassTransaction \/ RefuseEmptyAccount
    \/ SendTransaction \/ MineBlock \/ JudgeFails \/ JudgePasses
    \/ EndLoop \/ NothingExecuted \/ WriteFile

Next ==
    \/ \E f \in Fillers : EditFiller(f)
    \/ \E c \in Commands :
          StartFill(c) \/ RefuseFiller(c) \/ SkipFilling(c) \/ StartRun(c) \/ RefuseRun(c)
    \/ Loop

Spec == Init /\ [][Next]_vars

-----------------------------------------------------------------------------
(* Properties. *)

Errors == {"redundant", "no file", "outdated", "empty account", "transaction",
           "section without transaction", "uncovered", "nothing executed"}

\* Between two transactions of a fork that share a chain.
Between == mode \in {"fill", "run"} /\ step \in {"sections", "txs"}

\* The client has the genesis and at most the block of one transaction, and the
\* runner's marks are of transactions there are.
TypeOK ==
    /\ filler \in Fillers /\ cmd \in Commands /\ count \in 0 .. MaxCommands
    /\ mode \in {"idle", "fill", "chain", "run"}
    /\ step \in {"forks", "sections", "txs", "sent", "mined", "end"}
    /\ forks \subseteq Fork /\ found \in BOOLEAN
    /\ executed \cup skipped \cup ToSet(txs) \subseteq Tx
    /\ client.fork \in Fork
    /\ At("mined") => Len(client.blocks) = 2
    /\ At("sent") \/ Between => Len(client.blocks) = 1
    /\ ToSet(client.pending) \cup client.dropped = IF At("sent") THEN {Head(txs)} ELSE {}
    /\ errors \subseteq Errors

\* What was written of the transactions: of the file, and of the loop that runs.
Written(post, test, by) ==
    UNION {{[fork |-> f, test |-> test, by |-> by, chain |-> FALSE, txs |-> post[f][i].txs,
             root |-> post[f][i].root, exception |-> ExceptionOf(post[f][i], f)]
               : i \in DOMAIN post[f]} : f \in DOMAIN post}

Records ==
    (IF file.written THEN Written(file.post, file.test, file.by) ELSE {})
    \cup (IF mode = "fill" THEN Written(results, filler, cmd) ELSE {})
    \cup (IF mode # "chain" THEN {}
          ELSE {[fork |-> c.fork, test |-> filler, by |-> cmd, chain |-> TRUE, txs |-> {c.tx},
                 root |-> c.root, exception |-> c.exception] : c \in chainTests})

\* Every state that is written is that of one block on the genesis of its own
\* fork, which has the pre state and the environment the test names and no
\* transaction but its own: nothing is left of the transactions and forks tested
\* before, and the genesis is wound back from the environment so that block 1
\* arrives at it (PrepareChainParams.cpp, test_rewindToBlock(0) after every
\* transaction).  Only the genesis of a blockchain test may have system accounts
\* besides, those of an earlier fork among them: SystemAccountsFit says which.
ExecutedAlone ==
    \A r \in Records :
        /\ r.root.fork = r.fork
        /\ IF r.chain THEN r.test.pre \subseteq r.root.pre ELSE r.root.pre = r.test.pre
        /\ IF r.chain /\ r.exception # "" THEN r.root.blocks = << >>
           ELSE /\ Len(r.root.blocks) = 1
                /\ r.root.blocks[1].txs \subseteq r.txs
                /\ r.root.blocks[1].baseFee = r.test.env.baseFee
                /\ r.root.blocks[1].excess = r.test.env.excess

\* A transaction that is expected to be valid was executed in the state that is
\* written, and one that is expected to be rejected was not, if the client says
\* which it rejects.
JudgedRight ==
    \A r \in Records :
        /\ r.exception = "" => ExecutedIn(r.root) = r.txs
        /\ r.exception # "" /\ r.by.reports => ExecutedIn(r.root) = {}

\* The file has, for every fork the command allowed, exactly one result for each
\* transaction an expect section names on that fork and the filter lets pass,
\* with the exception of that section.
NothingMissed ==
    file.written =>
        \A f \in ForksOf(file.test) \cap file.by.nets, i \in DOMAIN file.test.expects :
            LET section == file.test.expects[i] IN
            f \in section.forks =>
                \A t \in section.txs \cap TransactionsOf(file.test) \cap file.by.txs :
                    \E k \in DOMAIN file.post[f] :
                        /\ \A j \in DOMAIN file.post[f] : t \in file.post[f][j].txs <=> j = k
                        /\ ExceptionOf(file.post[f][k], f) = ExceptionOf(section, f)

NeedsAccounts(fork) == ~ (SystemOf[fork] \subseteq filler.pre)

\* The blockchain tests made before those of a fork whose pre state was modified.
ModifiedBefore(fork) ==
    {c \in chainTests : NeedsAccounts(c.fork) /\ ForkRank[c.fork] < ForkRank[fork]}

\* A blockchain test made of a state test lists the accounts its client started
\* with: the pre state of the filler and the system accounts of its fork.  They
\* are never those of several forks; but m_statePreModified is not reset, and
\* a fork that needs none gets those of the last fork before it that did.
SystemAccountsFit ==
    mode = "chain" =>
        \A c \in chainTests :
            /\ c.pre = c.root.pre
            /\ IF NeedsAccounts(c.fork) THEN c.pre = filler.pre \cup SystemOf[c.fork]
               ELSE IF ModifiedBefore(c.fork) = {} THEN c.pre = filler.pre
               ELSE \E b \in ModifiedBefore(c.fork) :
                       /\ \A d \in ModifiedBefore(c.fork) : ForkRank[d.fork] <= ForkRank[b.fork]
                       /\ c.pre = filler.pre \cup SystemOf[b.fork]

\* The transactions of the file none of its results is of.
WithoutResult ==
    {t \in TransactionsOf(file.test) :
        \A f \in DOMAIN file.post : \A k \in DOMAIN file.post[f] : t \notin file.post[f][k].txs}

\* Filling complains of a transaction no expect section covers, and it does so
\* although the file is written: exactly if there is one among those the command
\* lets pass, and no fork was skipped.
UncoveredIsMarked ==
    file.written =>
        (file.clean <=> \/ ~ (ForksOf(file.test) \subseteq file.by.nets)
                        \/ WithoutResult \cap file.by.txs = {})

\* The run of a file, on whatever forks and transactions, marks no error, if the
\* client it was filled with said what it rejects or the one it is run on does
\* not.  The one exception is a transaction the file has no result of, which by
\* UncoveredIsMarked is in no file that was filled without an error and without
\* a filter: it may be in one of --runonlynets, which is run after it was filled.
FilledTestPasses ==
    [][mode = "run" /\ (cmd.reports => file.by.reports)
        => errors' \subseteq errors \cup
              IF WithoutResult \cap cmd.txs = {} THEN {} ELSE {"uncovered"}]_vars
=============================================================================
