------------------------ MODULE CommitmentMerkleTree ------------------------
(***************************************************************************)
(* CommitmentMerkleTree.sol: the append-only tree of note commitments,     *)
(* kept as its frontier, and the rolling window of roots a proof may be    *)
(* made against.                                                           *)
(*                                                                         *)
(* The hash is ideal (injective): a node is the pair of its children.  No  *)
(* commitment is the zero leaf, which nobody can find a preimage of.       *)
(***************************************************************************)
EXTENDS Integers, Sequences

CONSTANTS
    Commitments,  \* values of leaves
    Zero,         \* bytes32(0), the empty leaf
    TREE_DEPTH,
    ROOT_WINDOW

ASSUME DepthAssumption == TREE_DEPTH \in Nat
ASSUME WindowAssumption == ROOT_WINDOW \in Nat \ {0}
ASSUME ZeroAssumption == Zero \notin Commitments

VARIABLES
    filledSubtrees,  \* per level, the last complete left subtree
    nextIndex,       \* leaf counter
    currentRoot,
    knownRoots,      \* roots marked true
    rootRing,        \* slot -> root
    rootCount,       \* roots produced, the seed included
    leaves,          \* history: the leaves inserted
    roots            \* history: sequence number -> root

treeVars == <<filledSubtrees, nextIndex, currentRoot, knownRoots, rootRing, rootCount,
          leaves, roots>>

\* poseidon2
Hash(left, right) == <<left, right>>

\* The root of the empty tree of each height.
zeros[i \in 0..TREE_DEPTH] == IF i = 0 THEN Zero ELSE Hash(zeros[i - 1], zeros[i - 1])

TreeInit ==
    /\ filledSubtrees = [i \in 0..(TREE_DEPTH - 1) |-> zeros[i]]
    /\ nextIndex = 0
    /\ currentRoot = zeros[TREE_DEPTH]
    /\ knownRoots = {zeros[TREE_DEPTH]}
    /\ rootRing = [slot \in 0..(ROOT_WINDOW - 1) |->
                      IF slot = 0 THEN zeros[TREE_DEPTH] ELSE Zero]
    /\ rootCount = 1
    /\ leaves = <<>> /\ roots = [s \in 0..0 |-> zeros[TREE_DEPTH]]

-----------------------------------------------------------------------------

\* idx, which is halved from level to level: the position of the leaf's node.
Idx(index) ==
    LET idx[i \in 0..TREE_DEPTH] == IF i = 0 THEN index ELSE idx[i - 1] \div 2
    IN idx

\* The node of the new leaf at level i is a left child.
IsLeft(index, i) == Idx(index)[i] % 2 = 0

\* 1 << i
Shifted[i \in 0..TREE_DEPTH] == IF i = 0 THEN 1 ELSE 2 * Shifted[i - 1]

\* Mutant: a right child is hashed as a left one.
PathSwapped(commitment) ==
    LET node[i \in 0..TREE_DEPTH] ==
          IF i = 0 THEN commitment
          ELSE IF IsLeft(nextIndex, i - 1) THEN Hash(node[i - 1], zeros[i - 1])
          ELSE Hash(node[i - 1], filledSubtrees[i - 1])
    IN node

\* The nodes from the new leaf to the root.
Path(commitment) ==
    LET node[i \in 0..TREE_DEPTH] ==
          IF i = 0 THEN commitment
          ELSE IF IsLeft(nextIndex, i - 1) THEN Hash(node[i - 1], zeros[i - 1])
          ELSE Hash(filledSubtrees[i - 1], node[i - 1])
    IN node

\* Mutant: the root that was written last is un-known, not the oldest.
EvictedNewest(newRoot) ==
    {r \in {rootRing[(rootCount - 1) % ROOT_WINDOW]} : rootCount >= ROOT_WINDOW /\ r # newRoot}

\* The oldest root of a full window; never the one about to be marked known.
Evicted(newRoot) ==
    {r \in {rootRing[rootCount % ROOT_WINDOW]} : rootCount >= ROOT_WINDOW /\ r # newRoot}

\* The part of insert that rolls the window.
RollWindow(newRoot) ==
    /\ knownRoots' = (knownRoots \ Evicted(newRoot)) \cup {newRoot}
    /\ rootRing' = [rootRing EXCEPT ![rootCount % ROOT_WINDOW] = newRoot]
    /\ currentRoot' = newRoot
    /\ rootCount' = rootCount + 1
    /\ roots' = [s \in 0..rootCount |-> IF s < rootCount THEN roots[s] ELSE newRoot]

\* insert reverts with TreeFull once every leaf is taken.
insert(commitment) ==
    /\ nextIndex < Shifted[TREE_DEPTH]
    /\ nextIndex' = nextIndex + 1
    /\ filledSubtrees' = [i \in 0..(TREE_DEPTH - 1) |->
          IF IsLeft(nextIndex, i) THEN Path(commitment)[i] ELSE filledSubtrees[i]]
    /\ RollWindow(Path(commitment)[TREE_DEPTH])
    /\ leaves' = Append(leaves, commitment)

TreeNext == \E c \in Commitments : insert(c)

TreeSpec == TreeInit /\ [][TreeNext]_treeVars

-----------------------------------------------------------------------------
(* Properties.                                                             *)

\* The nodes, by height and position, of the complete tree over the first n leaves.
Node(ls, n) ==
    LET node[h \in 0..TREE_DEPTH] ==
          [k \in Nat |->
              IF h = 0 THEN IF k < n THEN ls[k + 1] ELSE Zero
              ELSE Hash(node[h - 1][2 * k], node[h - 1][2 * k + 1])]
    IN node

(* The frontier is enough: after every insert the root computed from
   filledSubtrees and the zero subtrees is the root of the whole tree, so a
   Merkle path read off the leaves (as the proof relay does) opens it.       *)
RootOfLeaves == currentRoot = Node(leaves, nextIndex)[TREE_DEPTH][0]

\* The sequence numbers of the last ROOT_WINDOW roots.
InWindow == {s \in 0..(rootCount - 1) : s >= rootCount - ROOT_WINDOW}

(* A root that has left the window is forgotten: isKnownRoot accepts only the
   roots of the last ROOT_WINDOW inserts, however the ring has wrapped.      *)
StaleRootsForgotten == \A r \in knownRoots : \E s \in InWindow : roots[s] = r

(* A proof stays good while fewer than ROOT_WINDOW leaves are inserted after the
   root it was made against: no root of the window is evicted early.         *)
RecentRootsKnown == \A s \in InWindow : roots[s] \in knownRoots

(* isKnownRoot accepts exactly the roots of the last ROOT_WINDOW inserts: the
   ring evicts the oldest root, none earlier and none later.                 *)
KnownRootsAreRecent == RecentRootsKnown /\ StaleRootsForgotten

\* No two inserts produce the same root: the hash is ideal, and the roots are those
\* of trees with different numbers of nonzero leaves.
RootsDiffer == \A s, t \in 0..(rootCount - 1) : s # t => roots[s] # roots[t]

(* The frontier is a faithful digest of the leaves: it yields their root, and no
   insert brings an earlier root back, which would evict it with its first copy. *)
FrontierFaithful == RootOfLeaves /\ RootsDiffer
=============================================================================
