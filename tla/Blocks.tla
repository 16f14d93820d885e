-------------------------------- MODULE Blocks --------------------------------
(***************************************************************************)
(* The blocks an instance may contain.  A block is its hash: a hash        *)
(* commits to the header and to the uncle list, so what they say is a      *)
(* constant function of it (BlockHeader, EthereumBlock in                  *)
(* src/retesteth/testStructures/types/Ethereum).  Transactions, state and  *)
(* logs are left out; whether a block's body is right is an input of the   *)
(* import.                                                                 *)
(***************************************************************************)
EXTENDS Integers, Sequences

CONSTANTS
    Hash,          \* the block hashes that exist in the instance
    Genesis,       \* the block test_setChainParams builds
    ParentOf,      \* header.parentHash
    NumberOf,      \* header.number as the header states it
    DifficultyOf,  \* header.difficulty
    UnclesOf,      \* the uncle list the header's uncleHash commits to
    HeaderOK,      \* the rules that read only the header and its parent hold
    Ancestors,     \* every block from the genesis to the block, inclusive
    TotalOf        \* difficulty of the block plus that of all before it

\* An uncle is at most six generations older than the block that cites it
\* (Functions/importRawBlock.cpp:66-67).
UncleGenerations == 7

\* At most two uncles in a block (Functions/importRawBlock.cpp:59).
MaxUncles == 2

ASSUME BlocksAssumption ==
    /\ Genesis \in Hash
    /\ ParentOf \in [Hash -> Hash]
    /\ NumberOf \in [Hash -> Nat]
    /\ DifficultyOf \in [Hash -> Nat]
    /\ UnclesOf \in [Hash -> Seq(Hash)]
    /\ HeaderOK \in [Hash -> BOOLEAN]
    /\ NumberOf[Genesis] = 0
    /\ UnclesOf[Genesis] = << >>

\* The two constants that summarise a block's history are what they say.
\* (The genesis, being the root, has no parent; the parent of a block whose
\* header lies about its number is never looked up.)
ASSUME HistoryAssumption ==
    /\ Ancestors \in [Hash -> SUBSET Hash]
    /\ TotalOf \in [Hash -> Nat]
    /\ Ancestors[Genesis] = {Genesis}
    /\ TotalOf[Genesis] = DifficultyOf[Genesis]
    /\ \A h \in Hash \ {Genesis} :
          NumberOf[h] = NumberOf[ParentOf[h]] + 1 =>
             /\ Ancestors[h] = Ancestors[ParentOf[h]] \cup {h}
             /\ TotalOf[h] = TotalOf[ParentOf[h]] + DifficultyOf[h]

\* A network whose genesis has difficulty 0 is proof of stake from the start.
IsParisChain == DifficultyOf[Genesis] = 0

UnclesIn(h) == {UnclesOf[h][i] : i \in DOMAIN UnclesOf[h]}
=============================================================================
