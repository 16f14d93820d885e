--------------------------- MODULE ForkTransition ---------------------------
(***************************************************************************)
(* The networks that change rules in the middle of a chain.  The rules are *)
(* decided in three places that must agree: ToolChainManager gives the     *)
(* pending block its header type, Verification decides which types may     *)
(* follow which, and prepareReward names the fork the tool runs.           *)
(*                                                                         *)
(* One chain is enough here: a chain is a sequence of verified blocks      *)
(* whichever way the client came to it, and the pending block depends on   *)
(* the chain that is current and on the pending block before.              *)
(***************************************************************************)
EXTENDS Naturals, Sequences

CONSTANTS
    Time,       \* timestamps; the genesis has 0
    Switch,     \* the transition time, 15000 in the code
    TTD,        \* terminalTotalDifficulty
    MaxLength   \* bound on the length of the chain

Forks == {"BerlinToLondonAt5", "ArrowGlacierToParisAtDiffC0000",
          "ParisToShanghaiAtTime15k", "ShanghaiToCancunAtTime15k"}

Types == {"Legacy", "1559", "Paris", "Shanghai", "4844", "Prague"}

ASSUME ForkAssumption ==
    /\ Time \subseteq Nat /\ 0 \in Time
    /\ Switch \in Nat \ {0}
    /\ TTD \in Nat \ {0}
    /\ MaxLength \in Nat

VARIABLES
    fork,      \* the network, given by test_setChainParams
    chain,     \* the blocks of the current chain: type, timestamp, total difficulty
    pending,   \* m_pendingBlock: type, timestamp, and whose header it is: made on the
               \* last block, or left by a rejected import on or below it
    reply      \* how the last call ended

vars == <<fork, chain, pending, reply>>

-----------------------------------------------------------------------------
Last(c) == c[Len(c)]

\* Blocks before the merge have a difficulty, here 1, the others none.
DifficultyOf(type) == IF type \in {"Legacy", "1559"} THEN 1 ELSE 0

IsBlockPoS(type) == type \in {"Paris", "Shanghai", "4844", "Prague"}

\* prepareGenesisSubsection makes the genesis of the network's first fork.
GenesisType ==
    CASE fork = "BerlinToLondonAt5" -> "Legacy"
      [] fork = "ArrowGlacierToParisAtDiffC0000" -> "1559"
      [] fork = "ParisToShanghaiAtTime15k" -> "Paris"
      [] fork = "ShanghaiToCancunAtTime15k" -> "Shanghai"

Genesis == [type |-> GenesisType, ts |-> 0, td |-> DifficultyOf(GenesisType)]

-----------------------------------------------------------------------------
(* The pending block. *)

\* The last block reached the terminal difficulty and its parent had not; the
\* genesis is not looked at as a parent.
IsTerminalPoWBlock(c) ==
    /\ Last(c).td >= TTD
    /\ Len(c) > 2 => c[Len(c) - 1].td < TTD

\* The type modifyTimestamp and transitionPendingBlock switch to, if the
\* network switches by time.
TimeForkType ==
    CASE fork = "ParisToShanghaiAtTime15k" -> {"Shanghai"}
      [] fork = "ShanghaiToCancunAtTime15k" -> {"4844"}
      [] OTHER -> {}

SwitchedBy(ts) == IF ts >= Switch THEN TimeForkType ELSE {}

\* transitionPendingBlock: the type of the block to follow the last of c.
\* The timestamp it reads is that of the pending block before the call.
TransitionType(c, oldTime) ==
    CASE Len(c) - 1 = 4 /\ fork = "BerlinToLondonAt5" -> "1559"
      [] SwitchedBy(oldTime) # {} -> CHOOSE type \in SwitchedBy(oldTime) : TRUE
      [] fork = "ArrowGlacierToParisAtDiffC0000" /\ IsTerminalPoWBlock(c) -> "Paris"
      [] OTHER -> Last(c).type

\* reorganizePendingBlock: the timestamp is that of the last block.
PendingOn(c, oldTime) ==
    [type |-> TransitionType(c, oldTime), ts |-> Last(c).ts, header |-> "own"]

-----------------------------------------------------------------------------
(* Verification, for a header of a type and a time as block number Len(c) on  *)
(* the last block of c.                                                       *)

VerifyLegacy(c) ==
    /\ ~ (fork = "BerlinToLondonAt5" /\ Len(c) - 1 = 4)
    /\ Last(c).type = "Legacy"

Verify1559(c) ==
    /\ ~ IsBlockPoS(Last(c).type)
    /\ IF Len(c) = 5 /\ fork = "BerlinToLondonAt5"
       THEN Last(c).type = "Legacy"
       ELSE Last(c).type = "1559"
    /\ fork = "ArrowGlacierToParisAtDiffC0000" => Last(c).td < TTD

\* TTD is defined by the network that merges only; the others have no total
\* difficulty that could reach the default.
VerifyParis(c) ==
    /\ Last(c).type # "Shanghai"
    /\ Last(c).type # "Paris" =>
          fork = "ArrowGlacierToParisAtDiffC0000" /\ Last(c).td >= TTD

\* Slip: the time of the first block of the next rules is not checked.
VerifyShanghaiAnytime(ts, c) ==
    \/ Last(c).type = "Shanghai"
    \/ /\ fork = "ParisToShanghaiAtTime15k"
       /\ Last(c).type = "Paris"

VerifyShanghai(ts, c) ==
    \/ Last(c).type = "Shanghai"
    \/ /\ ts >= Switch
       /\ fork = "ParisToShanghaiAtTime15k"
       /\ Last(c).type = "Paris"

Verify4844(ts, c) ==
    \/ Last(c).type = "4844"
    \/ /\ ts >= Switch
       /\ fork = "ShanghaiToCancunAtTime15k"
       /\ Last(c).type = "Shanghai"

\* verifyEthereumBlockHeader, as far as it reads the type and the time.
VerifyHeader(type, ts, c) ==
    /\ ts > Last(c).ts
    /\ CASE type = "Legacy" -> VerifyLegacy(c)
         [] type = "1559" -> Verify1559(c)
         [] type = "Paris" -> VerifyParis(c)
         [] type = "Shanghai" -> VerifyShanghai(ts, c)
         [] type = "4844" -> Verify4844(ts, c)
         [] type = "Prague" -> Last(c).type = "Prague"

\* prepareReward has the tool run the next rules from the transition time on.
ToolRunsNextRules(ts) == fork \in {"ParisToShanghaiAtTime15k", "ShanghaiToCancunAtTime15k"}
                         /\ ts >= Switch

\* The tool under the next rules answers with fields the old header has no
\* room for (setWithdrawalsRoot), or misses one in its input (the beacon root).
ToolBuilds(type, ts) == ToolRunsNextRules(ts) => type \in TimeForkType

Appended(c, type, ts) ==
    Append(c, [type |-> type, ts |-> ts, td |-> Last(c).td + DifficultyOf(type)])

-----------------------------------------------------------------------------
Init ==
    /\ fork \in Forks
    /\ chain = << Genesis >>
    /\ pending = PendingOn(chain, 0)
    /\ reply = "setChainParams"

\* test_setChainParams makes a new manager: nothing of the old one is read, and
\* its constructor reorganizes the pending block on the genesis.
SetChainParams ==
    /\ fork' \in Forks
    /\ chain' = << Genesis' >>
    /\ pending' = PendingOn(<< Genesis >>, 0)'
    /\ reply' = "setChainParams"

ModifyTimestamp(ts) ==
    /\ pending' = [pending EXCEPT !.ts = ts,
                                  !.type = IF SwitchedBy(ts) = {} THEN @
                                           ELSE CHOOSE type \in SwitchedBy(ts) : TRUE]
    /\ reply' = "timestamp"
    /\ UNCHANGED <<fork, chain>>

\* mineBlock accepts the pending block: its parent is the last block, the tool
\* builds it and the header is verified.
Mineable == /\ pending.header # "below"
            /\ ToolBuilds(pending.type, pending.ts)
            /\ VerifyHeader(pending.type, pending.ts, chain)

MineBlocks ==
    /\ Len(chain) < MaxLength
    /\ Mineable
    /\ chain' = Appended(chain, pending.type, pending.ts)
    /\ pending' = PendingOn(chain', pending.ts)
    /\ reply' = "mined"
    /\ UNCHANGED fork

\* The exception ends test_mineBlocks, and with FAILEVERYTHING the whole
\* run, unless errors are allowed or the tool exited with 512.
MineFails ==
    /\ ~ Mineable
    /\ reply' = "mining failed"
    /\ UNCHANGED <<fork, chain, pending>>

\* Slip: the type of the pending block is left as it was.
RewindKeepsType(number) ==
    /\ number < Len(chain)
    /\ chain' = SubSeq(chain, 1, number + 1)
    /\ pending' = [pending EXCEPT !.ts = Last(chain').ts]
    /\ reply' = "rewound"
    /\ UNCHANGED fork

\* Slip: rewinding pops one block too many.
RewindTooFar(number) ==
    /\ number < Len(chain)
    /\ chain' = SubSeq(chain, 1, number)
    /\ pending' = pending
    /\ reply' = "rewound"
    /\ UNCHANGED fork

RewindToBlock(number) ==
    /\ number < Len(chain)
    /\ chain' = SubSeq(chain, 1, number + 1)
    /\ pending' = PendingOn(chain', pending.ts)
    /\ reply' = "rewound"
    /\ UNCHANGED fork

\* A block of any type on any block of the chain.
ImportRawBlock(type, ts, number) ==
    LET c == SubSeq(chain, 1, number + 1) IN
    /\ Len(c) < MaxLength
    /\ VerifyHeader(type, ts, c)
    /\ ToolBuilds(type, ts)
    /\ chain' = Appended(c, type, ts)
    /\ pending' = PendingOn(chain', ts)
    /\ reply' = "imported"
    /\ UNCHANGED fork

\* The header is verified, the rest of the block is not: the pending block
\* keeps the rejected header.
ImportRejected(type, ts, number) ==
    LET c == SubSeq(chain, 1, number + 1) IN
    /\ VerifyHeader(type, ts, c)
    /\ pending' = [type |-> type, ts |-> ts,
                   header |-> IF c = chain THEN "on" ELSE "below"]
    /\ reply' = "import failed"
    /\ UNCHANGED <<fork, chain>>

Next ==
    \/ SetChainParams
    \/ \E ts \in Time : ModifyTimestamp(ts)
    \/ MineBlocks
    \/ MineFails
    \/ \E number \in 0 .. Len(chain) - 1 :
          \/ RewindToBlock(number)
          \/ \E type \in Types, ts \in Time : \/ ImportRawBlock(type, ts, number)
                                              \/ ImportRejected(type, ts, number)

Spec == Init /\ [][Next]_vars

-----------------------------------------------------------------------------
(* What must hold. *)

TypeOK ==
    /\ fork \in Forks
    /\ chain \in Seq([type : Types, ts : Time, td : Nat]) \ {<< >>}
    /\ pending \in [type : Types, ts : Time, header : {"own", "on", "below"}]
    /\ reply \in {"setChainParams", "timestamp", "mined", "mining failed",
                  "rewound", "imported", "import failed"}

\* The type the rules of the network prescribe for the block at place i: by
\* number, by the difficulty before it, or by its time.
Prescribed(i) ==
    CASE fork = "BerlinToLondonAt5" -> IF i - 1 >= 5 THEN "1559" ELSE "Legacy"
      [] fork = "ArrowGlacierToParisAtDiffC0000" ->
            IF i > 1 /\ chain[i - 1].td >= TTD THEN "Paris" ELSE "1559"
      [] fork = "ParisToShanghaiAtTime15k" ->
            IF chain[i].ts >= Switch THEN "Shanghai" ELSE "Paris"
      [] fork = "ShanghaiToCancunAtTime15k" ->
            IF chain[i].ts >= Switch THEN "4844" ELSE "Shanghai"

\* Whether mined or imported, after any rewind, every block of the chain has
\* the type its network prescribes: the header type of the pending block, the
\* parent rules and the fork of the tool never let another one through.
TypesFollowFork == \A i \in DOMAIN chain : chain[i].type = Prescribed(i)

\* On the networks that switch by number or by difficulty a pending block made
\* by the client and later than the last block can be mined, on either side of
\* the switch and after any rewind across it.
PendingMineable ==
    TimeForkType = {} /\ pending.header = "own" /\ pending.ts > Last(chain).ts => Mineable

\* ToolImpl.cpp:290 "test_mineBlocks assumed not to fail ever to be able to
\* construct test block RLP": the same of every network.
PendingAlwaysMineable ==
    pending.header = "own" /\ pending.ts > Last(chain).ts => Mineable
=============================================================================
