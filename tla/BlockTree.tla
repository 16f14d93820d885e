------------------------------ MODULE BlockTree ------------------------------
(***************************************************************************)
(* What a client promises to the test runner about block import, without   *)
(* saying how it stores chains: a tree of known blocks closed under        *)
(* "parent", and one head.  ToolChain implements it with a numbered set of *)
(* chains that share prefixes (src/retesteth/session/ToolBackend).         *)
(***************************************************************************)
EXTENDS Blocks

\* Every uncle some block of the branch cites.
BranchUncles(branch) == UNION {UnclesIn(b) : b \in branch}

\* A header that fits a branch: its parent is there with the number before
\* its own, and it is neither a block nor an uncle of the branch already.
FitsBranch(h, branch) ==
    /\ HeaderOK[h]
    /\ ParentOf[h] \in branch
    /\ NumberOf[h] = NumberOf[ParentOf[h]] + 1
    /\ h \notin branch
    /\ h \notin BranchUncles(branch)

\* A block that may be added to the tree, judged by its own branch alone.
ValidBlock(h) ==
    LET branch == Ancestors[ParentOf[h]] IN
    /\ FitsBranch(h, branch)
    /\ Len(UnclesOf[h]) <= MaxUncles
    /\ \A i \in DOMAIN UnclesOf[h] :
          LET u == UnclesOf[h][i] IN
          /\ FitsBranch(u, branch)
          /\ NumberOf[u] < NumberOf[h]
          /\ NumberOf[h] - NumberOf[u] < UncleGenerations
          /\ \A j \in 1 .. i - 1 : UnclesOf[h][j] # u

VARIABLES known,  \* the blocks the client can serve
          head    \* the block new blocks are mined on

treeVars == <<known, head>>

TreeInit == known = {Genesis} /\ head = Genesis

\* The client mines on its head.
MineOnHead(h) ==
    /\ ParentOf[h] = head
    /\ ValidBlock(h)
    /\ known' = known \cup {h}
    /\ head' = h

Heaviest(S) == {h \in S : \A g \in S : TotalOf[g] <= TotalOf[h]}

\* A block arrives from outside.  Proof of work: the head is then a heaviest
\* known block.  Proof of stake: the head is the block just imported.
ImportBlock(h) ==
    /\ ParentOf[h] \in known
    /\ ValidBlock(h)
    /\ known' = known \cup {h}
    /\ IF IsParisChain THEN head' = h ELSE head' \in Heaviest(known')

\* The head goes back to one of its ancestors; only blocks between the two
\* may be forgotten, and never the ancestor of one that is kept.
RewindHead(b) ==
    /\ b \in Ancestors[head]
    /\ head' = b
    /\ known' \subseteq known
    /\ known \ known' \subseteq Ancestors[head] \ Ancestors[b]
    /\ \A h \in known' : Ancestors[h] \subseteq known'

\* test_setChainParams starts over.
Restart == known' = {Genesis} /\ head' = Genesis

TreeNext ==
    \/ \E h \in Hash : MineOnHead(h) \/ ImportBlock(h) \/ RewindHead(h)
    \/ Restart

TreeSpec == TreeInit /\ [][TreeNext]_treeVars

\* The tree never has a block without its history, and the head is in it.
TreeClosed ==
    /\ head \in known
    /\ \A h \in known : Ancestors[h] \subseteq known
=============================================================================
