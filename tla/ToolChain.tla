------------------------------ MODULE ToolChain ------------------------------
(***************************************************************************)
(* ToolChainManager and ToolChain: the chains a client built around a t8n  *)
(* tool keeps, its pending block, and the handlers that change them:       *)
(* test_setChainParams, test_mineBlocks, test_rewindToBlock and            *)
(* test_importRawBlock.  One client serves one thread, so each handler is  *)
(* one action; the steps inside it are operators applied in the code's     *)
(* order.                                                                  *)
(***************************************************************************)
EXTENDS Blocks, FiniteSets

CONSTANTS MaxChains   \* bound on m_maxChains: no clone is made beyond it

ASSUME MaxChainsAssumption == MaxChains \in Nat

VARIABLES
    chains,        \* m_chains: number of the chain -> its blocks, oldest first
    currentChain,  \* m_currentChain
    maxChains,     \* m_maxChains: the largest number given out
    pending,       \* m_pendingBlock: parent, number and total difficulty
    reply          \* the last call and how it ended

vars == <<chains, currentChain, maxChains, pending, reply>>

-----------------------------------------------------------------------------
(* ToolChain: a sequence of blocks with their total difficulty. *)

Block(h, td) == [hash |-> h, td |-> td]

BlockRecords == [hash : Hash, td : Nat]

Tip(chain) == chain[Len(chain)]

Hashes(chain) == {chain[i].hash : i \in DOMAIN chain}

\* The constructor: the tool recomputes the state root of the genesis, and
\* its total difficulty is its difficulty.
NewChain == << Block(Genesis, DifficultyOf[Genesis]) >>

\* verifyBlockParent walks the whole chain: the header must not be a block of
\* it nor an uncle of one, and its parent must be met on the way.
VerifyBlockParent(h, chain) ==
    /\ \A i \in DOMAIN chain :
          /\ chain[i].hash # h
          /\ h \notin UnclesIn(chain[i].hash)
    /\ \E i \in DOMAIN chain :
          /\ chain[i].hash = ParentOf[h]
          /\ NumberOf[h] = NumberOf[chain[i].hash] + 1

\* verifyEthereumBlockHeader.  HeaderOK stands for the rules of the block
\* type, which read the header and its parent.
VerifyHeader(h, chain) == VerifyBlockParent(h, chain) /\ HeaderOK[h]

\* The tip of mineBlock: the difficulty of the block on top of the parent's
\* total.
WithTotalDifficulty(h, chain) == Block(h, Tip(chain).td + DifficultyOf[h])

\* rewindToBlock pops until number + 1 blocks are left.
Rewound(chain, number) == SubSeq(chain, 1, number + 1)

-----------------------------------------------------------------------------
(* ToolChainManager: which chain is meant, and the block to be mined next. *)

\* reorganizePendingBlock: the header of the tip, one number further.
PendingOn(chain) == [parent |-> Tip(chain).hash,
                     number |-> NumberOf[Tip(chain).hash] + 1,
                     td     |-> Tip(chain).td]

Holders(h) == {c \in DOMAIN chains : h \in Hashes(chains[c])}

\* The first chain that has the block, in the order of their numbers.
FirstHolder(h) == CHOOSE c \in Holders(h) : \A d \in Holders(h) : c <= d

\* Slip: the copy loop starts at the genesis.
ClonedFromGenesis(chain, i) == NewChain \o SubSeq(chain, 1, i)

\* Slip: the copy loop stops before the parent.
ClonedShort(chain, i) == NewChain \o SubSeq(chain, 2, i - 1)

\* Slip: the clone's genesis is made without its total difficulty.
ClonedWithoutTotal(chain, i) == << Block(Genesis, 0) >> \o SubSeq(chain, 2, i)

\* The blocks of a chain up to one of them.  The clone's constructor computes
\* the genesis again; the others are copied.
ClonedUpTo(chain, i) == NewChain \o SubSeq(chain, 2, i)

\* reorganizeChainForParent, when the parent is known: stay on the first
\* chain that has it at the tip, otherwise continue on a clone.
OnParent(p) ==
    LET c == FirstHolder(p)
        i == CHOOSE i \in DOMAIN chains[c] : chains[c][i].hash = p
        n == maxChains + 1
    IN IF i = Len(chains[c])
       THEN [chains |-> chains, current |-> c, max |-> maxChains]
       ELSE [chains  |-> [d \in DOMAIN chains \cup {n} |->
                            IF d = n THEN ClonedUpTo(chains[c], i) ELSE chains[d]],
             current |-> n,
             max     |-> n]

\* Slip: the last import leads, however light.
LatestChain(chs, current) == current

\* reorganizeChainForTotalDifficulty: the first chain whose tip no other
\* exceeds; nothing moves while every total is 0.
HeaviestChain(chs, current) ==
    LET tips == {c \in DOMAIN chs : /\ Tip(chs[c]).td > 0
                                    /\ \A d \in DOMAIN chs : Tip(chs[d]).td <= Tip(chs[c]).td}
    IN IF tips = {} THEN current ELSE CHOOSE c \in tips : \A d \in tips : c <= d

\* Slip: the bounds on an uncle's age are off by one.
VerifyUnclesOfSeven(us, h, chain) ==
    /\ Len(us) <= MaxUncles
    /\ \A i \in DOMAIN us :
          /\ VerifyHeader(us[i], chain)
          /\ NumberOf[us[i]] < NumberOf[h]
          /\ NumberOf[us[i]] + UncleGenerations >= NumberOf[h]
          /\ \A j \in 1 .. i - 1 : us[j] # us[i]

\* Slip: an uncle is compared with the blocks of the chain only, not with the
\* uncles they cite, and not with the uncles next to it.
VerifyUnclesLoosely(us, h, chain) ==
    /\ Len(us) <= MaxUncles
    /\ \A i \in DOMAIN us :
          /\ HeaderOK[us[i]]
          /\ us[i] \notin Hashes(chain)
          /\ ParentOf[us[i]] \in Hashes(chain)
          /\ NumberOf[us[i]] < NumberOf[h]
          /\ NumberOf[us[i]] + UncleGenerations > NumberOf[h]

\* _irb_verifyAndSetUncles: each uncle fits the chain the block goes on, is
\* older than the block by at most six, and is not repeated.
VerifyUncles(us, h, chain) ==
    /\ Len(us) <= MaxUncles
    /\ \A i \in DOMAIN us :
          /\ VerifyHeader(us[i], chain)
          /\ NumberOf[us[i]] < NumberOf[h]
          /\ NumberOf[us[i]] + UncleGenerations > NumberOf[h]
          /\ \A j \in 1 .. i - 1 : us[j] # us[i]

-----------------------------------------------------------------------------
Init ==
    /\ chains = [c \in {0} |-> NewChain]
    /\ currentChain = 0
    /\ maxChains = 0
    /\ pending = PendingOn(NewChain)
    /\ reply = "setChainParams"

\* Slip: the numbers given out go on from the chains of the old manager.
SetChainParamsKeepsCount ==
    /\ chains' = [c \in {0} |-> NewChain]
    /\ currentChain' = 0
    /\ pending' = PendingOn(NewChain)
    /\ reply' = "setChainParams"
    /\ UNCHANGED maxChains

\* test_setChainParams replaces the manager by a new one.
SetChainParams ==
    /\ chains' = [c \in {0} |-> NewChain]
    /\ currentChain' = 0
    /\ maxChains' = 0
    /\ pending' = PendingOn(NewChain)
    /\ reply' = "setChainParams"

\* test_mineBlocks: the tool builds a block from the pending one.  Its number
\* is the height of the chain, whatever the pending header says, and the two
\* are compared afterwards.  The pending block carries no uncles here.
MineBlocks(h) ==
    LET chain == chains[currentChain] IN
    /\ ParentOf[h] = pending.parent
    /\ NumberOf[h] = Len(chain)
    /\ UnclesOf[h] = << >>
    /\ VerifyHeader(h, chain)
    /\ pending.number = NumberOf[h]
    /\ chains' = [chains EXCEPT ![currentChain] = Append(chain, WithTotalDifficulty(h, chain))]
    /\ pending' = PendingOn(chains'[currentChain])
    /\ reply' = "mined"
    /\ UNCHANGED <<currentChain, maxChains>>

\* A transaction, the tool or a header rule fails before the block is
\* appended: nothing has changed.  The run goes on only where errors are allowed
\* or the tool exited with 512.
MineFails ==
    /\ reply' = "mining failed"
    /\ UNCHANGED <<chains, currentChain, maxChains, pending>>

\* Slip: the pending block is left as it was.
RewindKeepsPending(number) ==
    /\ number < Len(chains[currentChain])
    /\ chains' = [chains EXCEPT ![currentChain] = Rewound(@, number)]
    /\ reply' = "rewound"
    /\ UNCHANGED <<currentChain, maxChains, pending>>

\* test_rewindToBlock; the number must be one of the current chain.
RewindToBlock(number) ==
    /\ number < Len(chains[currentChain])
    /\ chains' = [chains EXCEPT ![currentChain] = Rewound(@, number)]
    /\ pending' = PendingOn(chains'[currentChain])
    /\ reply' = "rewound"
    /\ UNCHANGED <<currentChain, maxChains>>

\* What test_importRawBlock demands of a block on the chain of its parent.
\* The mined block must equal the imported one, so the uncles are those the
\* hash commits to.
Importable(h, chain) ==
    /\ VerifyHeader(h, chain)
    /\ VerifyUncles(UnclesOf[h], h, chain)
    /\ NumberOf[h] = Len(chain)

\* test_importRawBlock, no exception: the block goes on the chain of its
\* parent, then the best chain becomes the current one.
ImportAccepted(h) ==
    LET on    == OnParent(ParentOf[h])
        chain == on.chains[on.current]
        grown == [on.chains EXCEPT ![on.current] = Append(chain, WithTotalDifficulty(h, chain))]
    IN
    /\ Holders(ParentOf[h]) # {}
    /\ on.max <= MaxChains
    /\ Importable(h, chain)
    /\ chains' = grown
    /\ maxChains' = on.max
    /\ currentChain' = IF IsParisChain THEN on.current ELSE HeaviestChain(grown, on.current)
    /\ pending' = PendingOn(grown[currentChain'])
    /\ reply' = "imported"

\* Slip: the chain that was current is not restored after the reorganisation.
ImportFailedOnHeaviest ==
    /\ currentChain' = HeaviestChain(chains, currentChain)
    /\ reply' = "import failed"

\* The exception handler: back to the chain that was current, whatever the
\* heaviest is, and the pending block loses its body only.
ImportFailed ==
    /\ currentChain' = currentChain
    /\ reply' = "import failed"

\* The RLP is malformed or the parent is unknown: nothing was touched yet.
ImportUnreadable ==
    /\ ImportFailed
    /\ UNCHANGED <<chains, maxChains, pending>>

\* The parent is known, the header is wrong: the chain of the parent may have
\* been cloned already, and the clone stays.
ImportBadHeader(h) ==
    LET on == OnParent(ParentOf[h]) IN
    /\ Holders(ParentOf[h]) # {}
    /\ on.max <= MaxChains
    /\ ~ VerifyHeader(h, on.chains[on.current])
    /\ chains' = on.chains
    /\ maxChains' = on.max
    /\ ImportFailed
    /\ UNCHANGED pending

\* The header is right, the rest is not (a transaction, an uncle, a
\* withdrawal, or the tool builds another block): the pending block keeps the
\* rejected header.
ImportBadBody(h) ==
    LET on == OnParent(ParentOf[h])
        chain == on.chains[on.current]
    IN
    /\ Holders(ParentOf[h]) # {}
    /\ on.max <= MaxChains
    /\ VerifyHeader(h, chain)
    /\ chains' = on.chains
    /\ maxChains' = on.max
    /\ pending' = [parent |-> ParentOf[h], number |-> NumberOf[h], td |-> Tip(chain).td]
    /\ ImportFailed

Next ==
    \/ SetChainParams
    \/ \E h \in Hash : \/ MineBlocks(h)
                       \/ ImportAccepted(h)
                       \/ ImportBadHeader(h)
                       \/ ImportBadBody(h)
    \/ \E n \in 0 .. Len(chains[currentChain]) - 1 : RewindToBlock(n)
    \/ ImportUnreadable
    \/ MineFails

Spec == Init /\ [][Next]_vars

-----------------------------------------------------------------------------
(* What must hold. *)

Known == UNION {Hashes(chains[c]) : c \in DOMAIN chains}

HeadBlock == Tip(chains[currentChain]).hash

\* The client the chains add up to.
Tree == INSTANCE BlockTree WITH known <- Known, head <- HeadBlock

Replies == {"setChainParams", "mined", "rewound", "imported", "import failed", "mining failed"}

\* Types: the chains are numbered without a gap, none is empty, and the
\* current one exists (currentChain() asserts it, ToolChainManager.h:34).
TypeOK ==
    /\ maxChains \in 0 .. MaxChains
    /\ currentChain \in 0 .. maxChains
    /\ chains \in [0 .. maxChains -> Seq(BlockRecords) \ {<< >>}]
    /\ pending \in [parent : Hash, number : Nat, td : Nat]
    /\ reply \in Replies

\* Every chain starts at the one genesis, each further block has the block
\* before it as parent, and its number is its position: blockByNumber reads
\* the position and reorganizeChainForParent the hash, and they must agree.
ChainsLinked ==
    \A c \in DOMAIN chains :
        /\ chains[c][1].hash = Genesis
        /\ \A i \in DOMAIN chains[c] : NumberOf[chains[c][i].hash] = i - 1
        /\ \A i \in 2 .. Len(chains[c]) : ParentOf[chains[c][i].hash] = chains[c][i - 1].hash

\* The total difficulty kept with a block is the sum over its history, in
\* whichever chain the block is found: reorganizeChainForTotalDifficulty
\* compares totals computed in different chains, some of them copied and the
\* genesis of a clone recomputed.
TotalsAgree ==
    \A c \in DOMAIN chains : \A i \in DOMAIN chains[c] :
        chains[c][i].td = TotalOf[chains[c][i].hash]

\* Along a chain an uncle is cited once, is not a block of the chain, hangs
\* off a block of the chain and is one to six generations old when cited.
UnclesSound ==
    \A c \in DOMAIN chains : \A i \in DOMAIN chains[c] :
        LET h == chains[c][i].hash IN
        \A k \in DOMAIN UnclesOf[h] :
            LET u == UnclesOf[h][k] IN
            /\ u \notin Hashes(chains[c])
            /\ \E j \in 1 .. i - 1 : chains[c][j].hash = ParentOf[u]
            /\ NumberOf[h] - NumberOf[u] \in 1 .. 6
            /\ \A j \in 1 .. i - 1 : u \notin UnclesIn(chains[c][j].hash)
            /\ \A l \in DOMAIN UnclesOf[h] \ {k} : UnclesOf[h][l] # u

\* The pending block continues the head after every call that succeeds.  After
\* a failed import, and until the next success, it may still carry the rejected
\* header, but its total and number are always those of a child of a known
\* block.
PendingFits ==
    /\ reply \notin {"import failed", "mining failed"} => pending = PendingOn(chains[currentChain])
    /\ pending.parent \in Known
    /\ pending.td = TotalOf[pending.parent]
    /\ pending.number = NumberOf[pending.parent] + 1

\* Whether a block with a known parent is accepted depends on its own history
\* only: not on which chains exist, which is current, what was rewound or
\* which imports failed before.
AcceptsEveryValidBlock ==
    \A h \in Hash :
        Holders(ParentOf[h]) # {} =>
            LET on == OnParent(ParentOf[h])
            IN Importable(h, on.chains[on.current]) <=> Tree!ValidBlock(h)

\* A failed import leaves the known blocks and the head as they were, though
\* it may have switched or cloned chains before it failed.
FailedImportKeepsTree ==
    [][reply' = "import failed" => Known' = Known /\ HeadBlock' = HeadBlock]_vars

\* The chains implement the block tree: imports only add, the head after an
\* import under proof of work is a heaviest known block, under proof of stake
\* the block imported, and only a rewind forgets, and only above its target.
RefinesBlockTree == Tree!TreeSpec
=============================================================================
