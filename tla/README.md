# TLA+ models of retesteth

retesteth fills and runs Ethereum consensus tests. It reads test sources, drives
an Ethereum client through a small RPC interface (`SessionInterface`), and
compares what the client built with what the test expects. The client is a
process behind a socket, or a *tool backend*: a client that retesteth itself
builds around a one-shot state transition tool (`t8n`).

This directory holds TLA+ models of the parts of retesteth that keep state over
several calls or several threads, the TLC instances that check them, and proofs
of their main invariants.

## Inventory

Paths are under `src/retesteth/`.

| Part | State it keeps | Operations | What is hard in it | What makes it correct |
|---|---|---|---|---|
| Tool backend: `session/ToolBackend/ToolChainManager`, `ToolChain`, `Functions/importRawBlock` | numbered chains of blocks, the current chain, the pending block | set chain params, mine, rewind, import raw block, modify timestamp | a branch is kept by cloning a chain; an import switches chains before it knows whether it will succeed; rewinds forget blocks of one chain that others still have | the chains add up to a tree of blocks with one head, chosen by total difficulty or by the last import; a failed import changes nothing a caller can see |
| `session/ToolBackend/Verification`, `ToolChainHelper` | none | rules per header type, rewards, base fee, difficulty | three places decide which rules a block runs under | every block of a chain has the type its network prescribes |
| `session/ToolBackend/BlockMining` | files of one run of the tool | write inputs, run, read the answer | process and file failures | - |
| `session/ToolImpl`, `ToolImplHelper` | the manager, the last error | the RPC calls | paging of accounts and storage; errors that end the run and errors that are answers | pages cover the state once |
| `session/RPCImpl`, `Socket` | a socket, the last error | the RPC calls | partial reads, retries | one answer per request |
| `session/Session` | table from thread to client, with status and configuration | instance, sessionStart, sessionEnd, clear | several threads, thread ids used again, clients taken over | one client serves one test at a time; no more clients than `-j` |
| `session/ThreadManager`, `testSuiteRunner/TestSuite`, `ExitHandler` | threads, count of running jobs, exit flag | addTask, joinThreads, the loop over files and configurations | a condition variable without predicate, jobs that throw, signals | threads stay within the limit; the run ends |
| `testSuiteRunner/fillTest`, `checkFiller*`, `addClientInfo` | generated files and hashes | fill, check | files out of date, several generated files per source | a test is filled again exactly when its source changed |
| `testSuites/blockchain/fillers` | named chains beside the client, uncles, the block to mine | parse block, mine on chain, reorganise the client, postmine header | replay of one chain over another; relies on the order of calls | the filled test replays to the state it records |
| `testSuites/blockchain/BlockchainTestRunner`, `testSuites/statetests` | the client | run a filled test | rewinds between tests, expected exceptions | result independent of earlier tests |
| `testSuites/CompareStates`, `Common` | none | compare a state with the client's | remote states read page by page | any difference is found |
| `helpers/TestOutputHelper` | errors and progress per thread | mark error, finish test, statistics | per-thread records merged at the end | no error is lost |
| `Options*`, `configs/ClientConfig` | options, configurations | parse | - | - |
| `testStructures`, `compiler`, `libdevcore`, `libdevcrypto`, `libssz` | none | parse and print data | - | inverse conversions |

How they interact: `TestSuite` loops over the client configurations and the test
files of a folder and hands each file to `ThreadManager`, which runs it in a
thread of its own. The thread asks `RPCSession::instance` for a client, by its
thread id, again for every runner it makes. The runner calls the client; with the
tool backend the call ends in `ToolChainManager`, which runs the tool for every
block. Errors go to `TestOutputHelper`; fatal ones raise SIGABRT, whose handler
sets the flag the loop of `TestSuite` reads.

`PROJECT.json` lists all components with their status, and the hazards with the
line where each one bites.

## Modules

| Module | Models | Composed with |
|---|---|---|
| `Blocks` | blocks as hashes; what a hash commits to as constant functions | extended by the next two |
| `BlockTree` | the abstract client: a set of known blocks and a head | |
| `ToolChain` | `ToolChainManager`, `ToolChain`, `importRawBlock` | instantiates `BlockTree`, which it implements |
| `ForkTransition` | header types, time and total difficulty on the four transition networks | |
| `ThreadPool` | `ThreadManager`, the session table, the exit flag, the loop over files | |
| `BlockchainFiller` | `TestBlockchainManager`, `TestBlockchain`, and `BlockchainTestRunner` on what they made | extends `ToolChain`, its client |
| `RemoteState` | `getRemoteState` and `compareStates`, with the page functions of `ToolImplHelper` | |
| `HeaderRules` | base fee and excess blob gas, forwards and one step back | extended by `StateTest` |
| `StateTest` | `FillTest`, `FillTestAsBlockchain`, `RunTest` of state tests, with the file they write | |
| `ToolChainProofs`, `ThreadPoolProofs`, `ForkTransitionProofs`, `BlockchainFillerProofs`, `RemoteStateProofs`, `StateTestProofs` | theorems and proofs | extend their module |
| `ToolChainRefinement` | the proof that `ToolChain` implements `BlockTree` | extends `ToolChainProofs` |
| `BlockchainRestoreProofs` | the proofs that the client holds the chain of the block to make, that uncles can be cited, that a filled test passes, and that labels are put at their blocks | extends `BlockchainFillerProofs`, `ToolChainRefinement` |
| `MC*` | instances for TLC | |

### ToolChain

`chains` is `m_chains`, `currentChain` and `maxChains` are the members of the
same name, and `pending` is the part of `m_pendingBlock` that survives a call:
parent, number, total difficulty. A call of the interface is one action, because
a client serves one thread (which `ThreadPool` shows). The steps inside a call
are operators applied in the order of the code: `OnParent` (find the first chain
with the parent, clone it when the parent is not its tip), `VerifyHeader`,
`VerifyUncles`, `WithTotalDifficulty`, `HeaviestChain`, `PendingOn`.

An import ends in one of four ways, and each is an action: accepted, unreadable
or with an unknown parent (nothing was touched), with a bad header (a chain may have
been cloned, the clone stays), with a bad body (the pending block keeps the
rejected header). The body is not modelled: whether its transactions and the
tool's answer are right is the choice between `ImportAccepted` and
`ImportBadBody`. `MineFails` is a `test_mineBlocks` that throws before the block is
appended; `CallType::FAILEVERYTHING` ends the run there, except where errors are
allowed or the tool exited with 512, so the model lets the calls go on.

`BlockTree` is what the callers rely on: mining extends the head, an import adds
a block and moves the head to a heaviest known block (proof of work) or to the
block itself (proof of stake), a rewind moves the head to an ancestor and
forgets at most the blocks in between. The mapping is `known` = the blocks in
any chain, `head` = the tip of the current chain. `AcceptsEveryValidBlock` is
the part of the refinement a step relation does not say: a valid block is never
refused because of the way the client keeps it.

### ForkTransition

One chain with type, time and total difficulty of each block, and the pending
block. The types a header may have are decided by `TransitionType`
(`transitionPendingBlock`), `VerifyHeader` (the parent rules) and `ToolBuilds`
(the fork `prepareReward` names to the tool); `Prescribed` is the rule of the
network, stated over the finished chain. Branches are covered by importing a
block of any type and time on any block of the chain.

### ThreadPool

`worker[t]` is the place of a thread between two locks; `threadMap` is the set of
threads that are not `"none"`. `sessions` is `socketMap`, with `NoSession` for a
thread without an entry. `holds[t]` is the reference the runner keeps from
`RPCSession::instance`; it is the only variable without a counterpart in the
code's globals. `main` is the place of the main thread. A step is what the code does
under one lock, so `sessionStart` is two steps, the notification, the decrement
and the end of the thread are separate, and so are the check of
`g_activejobs` and the wait.

A thread id is used again after the join (`std::thread::id` may be reused).
`restartScripts(true)` between folders may or may not clear the table, as it depends
on files and time. A test may throw (its session ends early and the job goes on),
fail fatally (the exit flag is set), or end.

### BlockchainFiller

The client is the `ToolChain` it extends, so every call of the filler is an action
of that module and the filler sees only `reply` and the head. `named` is
`m_mapOfKnownChain`: a chain is the list of its `TestBlock`s, valid or not, genesis
first. `todo` holds the calls a handler still has to make: `reorgChains` and
`restoreUpToNumber` are a list of calls computed by `CallsToRestore` and made one by
one by `ClientCall`, without a look at the answers, as in the code. A filler block
names a chain, perhaps a number (`NoNumber` is a section without one, 0 asks for the end of
the chain it names), and the kinds it is split into; a kind says how
the block is made (`MakePlainBlock`, `MineToTweak` with `ImportTweaked`,
`MakeRawBlock`) and on which networks it is invalid. After the last one comes
`SyncBlock` for every block ever made, with the labels, and then the run of the
filled test on the same client (`RunBlock`, `EndRun`).

`hasUncles` is `hasUnclesInTest`: in such a test `mineNextBlockAndRevert` mines a candidate
on each valid block, takes it off the client again and keeps its header with the
block (`next`); the genesis of a chain has one in any test. The calls in between are one
action, as nothing else can come between them. A filler block with uncles goes through phase
`"uncles"`, where `PrepareUncle` makes one header per section: `Referred` is the header
the section refers to, in any chain, on the client or among those made so far, `Cited` the
header after `overwriteHeader`. The block is then mined and put together again with its
uncles (`IsTweaked`). Timestamps and withdrawals are left out.

### RemoteState

A state of the client is a sequence of accounts with sequences of records, in the
order of the map of the backend. `AccountRange` and `StorageRangeAt` count positions
as the two functions of `ToolImplHelper` do (one stops at a key that is 0, the other
takes 0 and 1 for the first record, and a full last page has a next key).
`AskAccounts`, `ReadAccount`, `AskStorage`, `StorageEndless` are the two loops of the
client, the rest is the comparison. Any account may be read or compared next, which
covers the order of the sets in the code.

### StateTest

The three loops over forks, expect sections and transactions are one; `mode` says
which function runs. The forks left are a set, gone through in the order of their names
(`First`, as `std::set<FORK>` does). `sections` are the expect sections of the filler, of which
`SkipSection` passes over those without the fork, or the results of
the file, which have the same form. A transaction is `SendTransaction`, `MineBlock`
and a judgement. A state root is a record of what it commits to: the fork, the pre
state and, for each block, its transactions, base fee and excess; so a transaction
left over from another one, a wrong genesis or a stale pre state show in it. The tool's
reasons to reject a transaction are a constant (`Rejects`) and the blob price of
the block; `Drops` is retesteth's own check before. `file` is the filled test on
disk, with two fields the file does not have and only the properties read: the
command it was filled by, and whether an error was marked.

A command is a set of options: forks, transactions, `--singlenet`, forks that
are to be skipped, and whether the client reports rejected transactions. The blockchain
tests that `FillTestAsBlockchain` makes are run by the runner of `BlockchainFiller`
and not here.

## Runs

| Run | Instance | What it shows |
|---|---|---|
| `forks` | 11 blocks, 2 clones, proof of work | the chains implement the tree: overtaking branches, ties, failed imports, rewinds |
| `uncles` | 20 blocks in a line of 8, 1 clone | the uncle rules at their bounds |
| `pool_ends` | 3 ids, 3 clients, 2 configurations of 2 and 1 threads, fairness | exclusive clients, bounds of table and counters, no entry of another configuration; the run ends or is stuck in one of two named states |
| `pool_wait`, `pool_poll` | limit 1 | *violations*: the two ways to be stuck (below) |
| `transitions` | the four networks, chains of up to 7 blocks, times 0 to 7 | block types follow the network; the pending block can be mined where the switch is by number or difficulty |
| `shanghai_mines` | the same | *violation*: where the switch is by time it cannot after the time was set back (below) |
| `filler` | up to 3 filler blocks, out of 37 without uncles or 41 with them, 3 names, 2 networks, 4 clones | the client holds the chain and the network of the block that is made; uncle candidates fit the branches they are kept for; the filled test passes when it is run, or stops at the first label of a side network only |
| `filler_restore` | one chain, an invalid block, a number | *violation*: a chain with an invalid block is not restored (below) |
| `filler_export` | a block that is not exported, two chains | *violation*: labels and imports go to other blocks (below) |
| `remote_state` | up to 5 accounts, up to 4 records each, pages of 2 and up to 3 pages of a storage, every expectation of an account over 3 keys | read whole and once; given up only if large; the verdict is exact; reading ends |
| `state_tests` | 4 forks, 2 transactions, 7 fillers, 13 commands, 3 in a row | each transaction alone and under the pre state and environment of the test; judged right; nothing missed; what is uncovered is marked; a run adds no error but that of a transaction without a result |

Bounds. `MaxChains` cuts off calls that would clone once more; two clones are
enough for a branch of a branch and for a chain shorter than a clone of it. The
block tables contain each case once: an overtake in both directions, a tie, a block with
a wrong number, one with a wrong header, uncles at distance 1, 6 and 7. Three
thread ids over a limit of two give a waiting main thread, a running thread and
an id that comes back, and three files in a folder start a thread after a join.
`MaxLength` 7 leaves one block past the fork at number 5; the terminal difficulty is
reached at the third block, and `Switch` (15000 in the code) lies in the middle of
the times.

Three filler blocks go away from a chain, back to it and on; an invalid block, a
changed one and a split one each appear on both networks. In the tests with uncles a third block
may cite the candidate of the genesis or of the first block, of its own chain, of the other
one or of one made late, changed, twice, or again after the second block; three is the
least number with an uncle that is a cousin on a chain that was left and restored. The states of
`remote_state` end before, at and after a page bound and at the last page allowed.
The fillers of `state_tests` are one that is right, one whose blob transaction is dropped
by the price of the genesis, and one for each way to be refused. Of the four forks Cancun and Prague have
system accounts of their own; in the order of names London comes between them and Shanghai after
both. Three commands
are enough to fill, edit and run, or to fill again over a file.

Symmetry is not used.

Deadlock is checked in every run but `remote_state`, which ends, and `state_tests`,
where the bound on commands stops the system; the fillers stop in `Finished`. The main thread being stuck is not a TLC
deadlock in `ThreadPool` as a condition variable may wake without a reason
(`SpuriousWakeup`) and a signal may come; the liveness runs say what is lost
without such luck.

Fairness (`pool_ends`, `pool_wait`, `pool_poll`): weak fairness of the main
thread and of each thread. The operating system schedules every runnable thread
and no lock is held while another is waited for; a test ends because the client
answers or the socket fails. `SpuriousWakeup`, `Signal`, and what a test may but
need not do have no fairness.

`remote_state` has weak fairness of its next-state relation: one thread runs the two
loops to their end, and every call of the client returns or ends the run.

## Divergences found

* `pool_wait`: the notification of a finished job can be lost between the check
  of `g_activejobs` (`ThreadManager.cpp:123`) and the wait (`:126`). With no other job
  running the main thread sleeps for ever.
* `pool_poll`: a job that throws before its client is in the table, without the
  exit flag, is never joined by `joinThreads(false)` (`ThreadManager.cpp:97`). With every
  thread of the limit in this state the main thread polls for ever.
* `shanghai_mines`: `modifyTimestamp` gives the pending block the next type at
  15000 and never the old type back (`ToolChainManager.cpp:112`). A later earlier
  time, or a rewind while the pending time was late, leaves a pending block that
  fails its own verification, where `ToolImpl.cpp:290` assumes mining never fails.

* `filler_restore`: `restoreUpToNumber` rewinds to a number on the client that it takes
  from the place of the block in the chain (`TestBlockchain.cpp:195`). After a block that
  was invalid the two differ, and the next block is mined on a block the filler
  has forgotten.
* `filler_export`: `syncOnRemoteClient` walks all blocks and the exported ones by
  one index (`TestBlockchainManager.cpp:186`), though a block marked `doNotExport` is only in
  the first list, against the comment at `:172`.

Some properties state what the code does where a reader may expect more, each exactly.
`SystemAccountsFit` says which system accounts a blockchain test has that its fork does not need:
`m_statePreModified` is not reset, so they are those of the last fork before it that
needed any; `ExecutedAlone` allows the genesis of such a test, and of no other, accounts besides
those of the filler. `FilledTestPasses` of `StateTest` allows one error, `"uncovered"`, and that
only if a transaction that is run has no result in the file: a file filled under
`--runonlynets` may lack some, and is run at once. `UncoveredIsMarked` says when filling marks that
error itself, and that a skipped fork hides it. `FilledTestPasses` of `BlockchainFiller` says
that a label of a side network only, which nothing takes back, fails the run, and where; of
tests with a hidden block it says nothing, as `ExportFollowsImports` fails for them. `UncleCandidatesFit` leaves out the genesis of a chain
that is made after the first: the constructor mines its candidate on the head of the chain in use
before (`TestBlockchain.cpp:29`), so an uncle populated from its block 0 has another parent.

## Proofs

`tlapm` checks every theorem for all values of the constants that satisfy the
named assumptions: `BlocksAssumption` and `HistoryAssumption` (a block's number,
ancestors and total difficulty fit its parent's), `MaxChainsAssumption`, `FillerAssumption`
(the kinds of blocks are apart, the block sections are well formed and ask for no candidate), `ForkAssumption` (the terminal
difficulty is positive), `StateTestAssumption` (no two forks have one place in the order
of names), `TestAssumption` (a test has each transaction once, and its expect sections are
well formed), `EnvironmentAssumption` (a gas limit of at
least 2, fees and excesses are natural),
`ThreadPoolAssumption` (limits are positive and at most `-j`, threads and
configurations are finite sets), `PageAssumption` and `InputAssumption` (pages are not
empty, a state has an address once and a storage a key once).

`ToolChainProofs`. The inductive invariant (`ChainsInvariant`) is the type invariant
with "every chain is linked" and "every total is the sum over the history". The
operators on chains get a lemma each: a block verified on a chain may be appended,
a chain may be cut, a clone is a prefix with the genesis made again. The totals
need the links: the total of an appended block is computed from the tip, and the
tip is its parent because a block's number is its position and the chain has one
block at each position. From it follow `TypeCorrect`, `ChainsAreLinked`, `TotalsAlwaysAgree`.

`ThreadPoolProofs`. The invariant (`PoolInv`) has four parts besides the types.
`OneEntryEach`: no client is in two entries. `BusyAreLive`: an entry that is not on
offer belongs to a thread that was not joined. `RunNotOffered` and `HoldsInRun`: the
entry of a running job is not on offer, and a client is held by a running job under
its own id. `EntriesCurrent`: no entry outlives its configuration. `MainInv` ties the
place of the main thread to the number of threads. They are needed together: the
table is bounded (`TableBounded`) because a new client is made only when none of the
current configuration is on offer, then every entry is of the current
configuration, so busy, so its thread runs, and the threads are within the limit;
they are within the limit because a thread is added only below it.
From `PoolInvariant` follow `PoolTypeCorrect`, `ClientsServeOneTest`,
`TableBounded`, `NoStaleConfig`, `ThreadsCounted`.

`RemoteStateProofs`. The invariant says what has been read so far: the addresses are
those before `nextKey`, the records of the account at hand are those before
`beginHash`, and the accounts that are done are as the client has them. The
arithmetic is in the lemmas on `Page`: what was read before a key and the page at the
key are what was read before the next one. `EndlessOnlyIfLarge` needs that
`beginHash` and the counter of pages move together. `JudgesExactly` adds that the
result is an error exactly if an account compared so far has one, and a lemma that
the set form of `compareStorage` is the rule `Meets` states.

`UnclesAlwaysSound` (in `ToolChainProofs`) carries one more fact per chain through the same
lemmas, the conjunct `SoundUncles` of `GoodChain`: the uncles of the block at any place are what `VerifyUncles` found when the block
was appended. A clone or a cut keeps the blocks below each block, so the fact stays.

`ToolChainRefinement`. A chain is the history of its tip (`ChainIsHistory`): the place of a
block is its number, and at each place there can be only one ancestor. Where two
chains could differ, the proof takes the first place at which they do (`LeastNatural`), as the
library's induction theorems are out of reach. So to walk a chain backwards, as the code
does, reads the history of the block, whatever clones it went through, and `VerifyOnChain`
is `ValidBlock` of the tree; that gives `EveryValidBlockAccepted`. Totals grow along a
history, so the tip of a chain outweighs every known block of it, and the heaviest of the
tips that `reorganizeChainForTotalDifficulty` finds is a heaviest known block. Then each action
is a step of the tree or leaves it as it is: a clone adds only blocks that are known, a rewind cuts
one chain and forgets at most what lies between. `FailedImportUnseen` is the part about the
import that fails after the clone. `PendingAlwaysFits` has `PendingFits` as a conjunct of its own
invariant, beside `ChainsInv`; the other theorems need `ChainsInvariant` alone.

`ForkTransitionProofs`. The invariant (`Inv`) says every block has the prescribed type, totals do
not fall along a chain, and on the networks that do not switch by time a pending block the
client made itself has the type `TransitionType` gives for the chain as it is now. The second
part is needed because the terminal difficulty, once reached, must stay reached: a block after
the merge adds nothing. The third part is what fails for the networks that switch by time.

`BlockchainFillerProofs`. `NetworkFollowsChain` is about the moment `todo` is empty; the invariant
(`Inv`) says what the calls that are left will do: a reset among them is for the network of the
chain in use, and where there is none the client has that network already. `TypedInv` has the
types of the lists, calls and blocks together with the invariant of the client, and that a block
that is made has a kind left and uncles to make it with (`FillerTypeCorrect`, with the hypothesis
`EveryChild` below).

The theorems about what the client holds have hypotheses on the blocks. `EveryChild`: every block
can be built on, with each kind and any uncles, and its bytes say which kind it is; it
asks for blocks without end, which an instance of TLC lacks (there `Depth` bounds them).
`EveryCandidate`, for the uncles only: a candidate, and a block mined plainly, follow the
rules that read the header and its parent, as the tool that makes them sees to.
`FillerAssumption` says that no filler block is of the candidates' kind: `mineNextBlockAndRevert` gives
them a coinbase of their own to tell them apart (`TestBlockchain.cpp:162`).

`BlockchainRestoreProofs`. `ClientAlwaysHoldsNamedChain` is without further hypothesis;
`ClientAlwaysRestored` adds `GoesBackOverValid`, that no block goes back on its own chain over an
invalid one, which is what `filler_restore` shows to fail. One invariant serves both:
`RestoredInv(careful)`, where `careful` says whether that is excluded. The
client has one chain only (`ClientSingle`), as the filler mines and imports on the tip. Every
named chain has an account (`Account`): a set `V` of places in its list, those of the blocks that a
client of its network holds once it imported the list. A block goes on the last held before it, and is held
just if that client accepts it; or its parent is no held block, and it is not held
either. That second case is what going back over an invalid block leads to: the client has the block
that the number counts to, not the one the filler remembers, and what is made after it need not fit
the list. `AsMade` says that `V` are the blocks marked valid, all along the list for a careful filler and up to the
first invalid block for any: that much suffices for a chain that has no invalid block. And the calls that are left
(`Left`) bring the client to the end of the list: they go back to the genesis and import the list
(`Preparing`), are in the midst of that (`Replaying`), go back on the same chain (`GoingBack`), or only
mine a candidate and take it back (`Resting`); exactly to the last block held, if the
filler is careful or the chain has no invalid block, else to a branch that has it. An import made
again is judged by the network the client has then, so the proof needs `NetworkFollowsChain`'s
invariant too. Going back asks the client for a number and the filler for a place in its list; these are
the same block as long as all blocks up to there are held (`HeldNumber`).

`UncleCandidatesAlwaysFit` is on top of that. `UncleInv` says that the client knows the genesis
and blocks that are no candidates; that the header kept with a block is the candidate on just that block;
and that a candidate will be mined only where that holds of it: after a block was made, while that block
is the last of the list and the head of the client (`RestoredInv` gives that for a block that was imported or
mined), or on the genesis of a chain just made. So a header that is kept is nowhere in the
chain, has its parent there, and the right number.

`FilledTestsAlwaysPass` compares three passes of one client over the same blocks: the filler's, the
import of all blocks by `syncOnRemoteClient` where a chain was left, and the run. On the
canonical network an import has one outcome that depends on the chains and the block alone: `After(s, h)`
is the client after it (`ImportAfter`), and `Plays(t, L, n)` says that `t` is what a fresh client goes
through with the first `n` blocks of the list `L`, and that the blocks that fail are those labelled so. `PlayInv`
claims, as long as all blocks are exported, that the labels of the export include those of the list,
that there is such a history of the test, and that the client follows it: while no chain was left
(`Straight`), where a block that is mined is one that could have been imported (`MinedAfter`, with
`ClientSingle` of `RestoredInv`: no fork, so the head cannot move elsewhere); in sync and
in the run (`Syncing`, `Running`), with forks and clones of chains as they come. The run then follows the
history that gave the labels and `lastblockhash`, so only a label that says more than the
history can differ; `Running` has that no label so far does (`NoneStale`), and `Stopped` that the
last block that was imported is the first with one. `ExportAlwaysFollows` adds that the
lists of `syncOnRemoteClient` fit, so a label goes to its block, as long as no block is marked `doNotExport`
(`NothingHidden`); `filler_export` shows what happens otherwise.

TLC checked `RestoredInv`, `UncleInv` and `PlayInv` on the instance of `filler` before they were proved
(`PlayInv` with the history computed, not quantified over).

`StateTestProofs`. The invariant says where the client is at each step of the loop: on a
fresh genesis of the fork with nothing sent, with the one transaction, or with the one block of
it; and that each result in the file comes from such a block. The environment of that block
is arithmetic alone: for every fee f, the fee of the genesis `(8 f) div 7` loses its eighth
again, rounding included, because with an empty genesis `Delta` is the fee divided by 8 whatever the
gas limit (`FirstBlockHasTheFee`, and `FirstBlockHasTheExcess` for blob gas).

`NothingMissed`, `UncoveredIsMarked` and `FilledTestPasses` need to know what the loop has done, not only where the
client is. `FilledInv` (`FilledInvariant`) says of each fork f, section i and transaction t
whether the loop is past it (`Done(f, i, t)`, which a place in the loop is enough to decide:
a fork is done when it is no longer in the set, a section when fewer are left, a transaction
likewise) and has these parts. `LoopInv`: the sections left are
an end of the list of the test, the transactions left are distinct ones of it, and one that
was sent is the first of those left, named by the section. `ExactInv`: the client has exactly the chain the
place calls for (`ChainFor`), pre state and pending list included. `ResultsInv`: the results
of a fork are those of the places that are done, one for each and in no other number; that
no place has two uses that the filler is not redundant, so two sections never
name one transaction on a fork. `FileInv` is the same of the file at the end of the loops, with
`UncoveredIsMarked`, and that it kept the filler it was made of. `MarksInv` and `RunInv` are about
the second run: a result that is gone through again has the root the client has now, since
both are `ChainFor` of the same fork and transaction, so no comparison fails, and
each transaction gets the mark the last check asks for if the file has a result of it or a
fork is skipped (`RunCovers`, `RunPasses`). `TypeInv` has the remaining types, for
`TypeCorrect`. TLC checked these invariants on the instance of `state_tests` before they were proved.

`SystemAccountsAlwaysFit` has an invariant of its own, `AccountsInv`: the forks of the tests made are,
in the order of names, none after those that are left, so `First` always takes one that comes
after all of them (`FirstIsLeast`), and `statePre` is that of the last test whose fork needed accounts, or
of the fork at hand once its transaction was sent. A test added later therefore changes nothing about
those that count as earlier for one already made.

Only model-checked is what is out of the prover's reach: liveness under fairness (`EndsUnlessStuck`,
`ReadingEnds`) and what the recursive tables of `MCToolChain` compute.

## Not modelled

Balances, code, logs and withdrawals inside a block; timestamps of uncles; the
tool process and its files; sockets; parsing and printing; traces and state
differences; options and configuration files; python and copied fillers; the
compilers. `PROJECT.json` gives the reason for each component. A signal handler that
interrupts a thread inside `receivedExitSignal` is below the grain of `ThreadPool`,
where that read is one step. The models take hashes, signatures and the rules of the
virtual machine for granted.

Most of the repository is outside the reach of a model of this kind: of its
lines, large parts are unit tests, generated configuration text, and parsers and printers of
JSON and RLP, where there is no state over several steps to get wrong.

## Plan

Done, in order of importance: `ToolChain` with `BlockTree` (what a test result
depends on), `ThreadPool` (what every run depends on), `ForkTransition`,
`BlockchainFiller`, `RemoteState`, `StateTest` with `HeaderRules`, and proofs about each of
them.

1. `PendingBlock`: transactions, uncles and withdrawals sent before mining to a client
   that is not wound back.
2. `FillCheck`: several generated tests and several generated files of one source.
