--------------------------- MODULE AllocationTree ---------------------------
(***************************************************************************)
(* The bounded ordered Merkle tree of one epoch's allocations              *)
(* (AllocationTree.sol, AllocationCodec.sol), and the independent builder  *)
(* the SDK uses to make and check inclusion witnesses (sdk/allocation.ts). *)
(* The contract keeps one frontier node per level and never rebuilds the   *)
(* tree; the SDK rebuilds it from all leaves, padded with empty ones.      *)
(*                                                                         *)
(* keccak256 of a type hash and its arguments is a term: equal terms have  *)
(* equal hashes, different terms never collide.                            *)
(***************************************************************************)
EXTENDS Naturals, Sequences

CONSTANTS
    TreeDepth,  \* levels above the leaves
    Contents    \* what an allocation says besides its position

ASSUME DepthAssumption == TreeDepth \in Nat \ {0}

VARIABLES
    initialized,
    count,        \* leaves appended
    frontier,     \* the last left node of each level
    root,
    allocations,  \* the allocations appended, in order
    roots         \* the root after each append, as checkpoints publish it

vars == <<initialized, count, frontier, root, allocations, roots>>

Levels == 0 .. TreeDepth - 1

\* The leaves under a node of each height: 1 << height.
Span[height \in 0 .. TreeDepth] == IF height = 0 THEN 1 ELSE 2 * Span[height - 1]

Width(level) == Span[TreeDepth - level]
TreeCapacity == Width(0)

\* The index after this many halvings: the position of the node above it.
Cursor(index) ==
    LET up[level \in 0 .. TreeDepth] ==
            IF level = 0 THEN index ELSE up[level - 1] \div 2
    IN  up

Bit(index, level) == Cursor(index)[level] % 2
Flip(index) == IF index % 2 = 0 THEN index + 1 ELSE index - 1

Allocation(index, id, content) == [treeIndex |-> index, allocationId |-> id, content |-> content]

AllocationType == [treeIndex : Nat, allocationId : Nat, content : Contents]

-----------------------------------------------------------------------------
(* AllocationCodec *)

ZeroWord == << "zero word" >>
EmptyLeaf == << "empty leaf" >>
NodeHash(left, right) == << "node", left, right >>

\* Mutant (OnlyMembersVerify): the leaf does not commit to the content.
LeafHashPosition(a) == << "leaf", [a EXCEPT !.content = "any"] >>
LeafHash(a) == << "leaf", a >>

\* emptyTree: the root of an empty subtree of each height.
EmptyTree[level \in 0 .. TreeDepth] ==
    IF level = 0 THEN EmptyLeaf
    ELSE NodeHash(EmptyTree[level - 1], EmptyTree[level - 1])

EmptyRoot == EmptyTree[TreeDepth]

-----------------------------------------------------------------------------
(* The SDK's builder *)

\* The nodes of each level over these leaves, the missing ones empty.
BuildOrderedTree(leaves) ==
    LET levels[level \in 0 .. TreeDepth] ==
            IF level = 0
            THEN [i \in 0 .. TreeCapacity - 1 |->
                     IF i < Len(leaves) THEN leaves[i + 1] ELSE EmptyLeaf]
            ELSE [i \in 0 .. Width(level) - 1 |->
                     NodeHash(levels[level - 1][2 * i], levels[level - 1][2 * i + 1])]
    IN  levels

\* The sibling of the path from leaf index at each level; siblings[level + 1].
OrderedProof(leaves, index) ==
    [s \in 1 .. TreeDepth |->
        BuildOrderedTree(leaves)[s - 1][Flip(Cursor(index)[s - 1])]]

LeavesOf(log) == [i \in 1 .. Len(log) |-> LeafHash(log[i])]
RebuiltRoot(log) == BuildOrderedTree(LeavesOf(log))[TreeDepth][0]

-----------------------------------------------------------------------------
(* The walk from a leaf to the root, and AllocationTree.verify *)

\* The node above a leaf at each level: its bit says which side it is on.
Ascent(leaf, index, siblings) ==
    LET node[level \in 0 .. TreeDepth] ==
            IF level = 0 THEN leaf
            ELSE IF Bit(index, level - 1) = 0
                 THEN NodeHash(node[level - 1], siblings[level])
                 ELSE NodeHash(siblings[level], node[level - 1])
    IN  node

\* Mutant (PublishedProofsVerify): the path always turns left.
ClimbLeft(leaf, index, siblings) == Ascent(leaf, 0, siblings)[TreeDepth]

\* The root that a leaf at this index and these siblings hash to.
Climb(leaf, index, siblings) == Ascent(leaf, index, siblings)[TreeDepth]

Verify(a, siblings, leafCount, claimedRoot) ==
    /\ leafCount <= TreeCapacity
    /\ a.treeIndex < leafCount
    /\ Len(siblings) = TreeDepth
    /\ a.allocationId = a.treeIndex + 1
    /\ Climb(LeafHash(a), a.treeIndex, siblings) = claimedRoot

-----------------------------------------------------------------------------
Init ==
    /\ initialized = FALSE
    /\ count = 0
    /\ frontier = [level \in Levels |-> ZeroWord]
    /\ root = ZeroWord
    /\ allocations = << >>
    /\ roots = << >>

Initialize ==
    /\ ~initialized
    /\ initialized' = TRUE
    /\ root' = EmptyRoot
    /\ UNCHANGED <<count, frontier, allocations, roots>>

\* Mutant (RootMatchesBuilder): the frontier is consulted one leaf early.
PathOffByOne(leaf, index) ==
    Ascent(leaf, index,
           [level \in 1 .. TreeDepth |->
               IF Bit(index + 1, level - 1) = 0 THEN EmptyTree[level - 1] ELSE frontier[level - 1]])

\* The node above the new leaf at each level: its left neighbour is on the
\* frontier, its right neighbour is still empty.
Path(leaf, index) ==
    Ascent(leaf, index,
           [level \in 1 .. TreeDepth |->
               IF Bit(index, level - 1) = 0 THEN EmptyTree[level - 1] ELSE frontier[level - 1]])

HasRoom == count < TreeCapacity

\* append overwrites whatever index and id the caller's allocation carries.
AppendAllocation(content) ==
    LET a == Allocation(count, count + 1, content)
        path == Path(LeafHash(a), count)
    IN  /\ initialized
        /\ HasRoom
        /\ frontier' = [level \in Levels |->
                           IF Bit(count, level) = 0 THEN path[level] ELSE frontier[level]]
        /\ root' = path[TreeDepth]
        /\ allocations' = Append(allocations, a)
        /\ count' = count + 1
        /\ roots' = Append(roots, path[TreeDepth])
        /\ UNCHANGED initialized

Next == Initialize \/ \E content \in Contents : AppendAllocation(content)

Spec == Init /\ [][Next]_vars

-----------------------------------------------------------------------------
(* What an append relies on *)

\* Positions and ids follow the order of the appends.
Numbered(log) ==
    \A i \in 1 .. Len(log) : \E content \in Contents : log[i] = Allocation(i - 1, i, content)

\* Wherever the next leaf's path turns right, the frontier holds its left
\* neighbour in the tree that the builder makes of the log.
FrontierInv ==
    \A level \in Levels : Bit(count, level) = 1 =>
        frontier[level] =
            BuildOrderedTree(LeavesOf(allocations))[level][Cursor(count)[level] - 1]

\* Every published root is the builder's for the prefix it was published at.
RootsInv ==
    roots = [n \in 1 .. count |-> RebuiltRoot(SubSeq(allocations, 1, n))]

TreeInv ==
    /\ initialized \in BOOLEAN
    /\ count \in 0 .. TreeCapacity
    /\ allocations \in Seq(AllocationType) /\ Len(allocations) = count
    /\ Numbered(allocations)
    /\ ~initialized => count = 0 /\ root = ZeroWord
    /\ initialized => root = RebuiltRoot(allocations)
    /\ FrontierInv
    /\ RootsInv

-----------------------------------------------------------------------------
(* Properties *)

\* The root that the contract keeps incrementally from one frontier node per
\* level is the root that the SDK rebuilds from the whole log, at every count
\* from the empty tree to the full one (sdk/allocation.ts, rebuildAllocations;
\* AllocationTree.sol, append).
RootMatchesBuilder == initialized => root = RebuiltRoot(allocations)

\* The witness the SDK builds for a prefix of the log is accepted by the
\* contract's verify against the root published for that prefix, however many
\* allocations have been appended since.
PublishedProofsVerify ==
    \A n \in 1 .. count : \A i \in 1 .. n :
        Verify(allocations[i],
               OrderedProof(LeavesOf(SubSeq(allocations, 1, n)), i - 1), n, roots[n])

\* Witnesses somebody could present: those of every prefix of the log, and
\* the same cut short or with a level too many.
Witnesses ==
    LET prefixes == UNION {{OrderedProof(LeavesOf(SubSeq(allocations, 1, n)), i) : i \in 0 .. n - 1} :
                              n \in 1 .. count}
    IN  prefixes \cup {Tail(p) : p \in prefixes} \cup {Append(p, EmptyLeaf) : p \in prefixes}

\* Nothing but an allocation of the log, at its own index and under its own
\* id, is accepted against the current root: a wrong content, a foreign
\* position, an id that does not match or a leaf count that overstates the
\* log gains nothing (AllocationTree.sol, verify).
OnlyMembersVerify ==
    \A index \in 0 .. TreeCapacity, content \in Contents, witness \in Witnesses :
        \A id \in {index, index + 1}, leafCount \in count .. TreeCapacity + 1 :
            LET a == Allocation(index, id, content)
            IN  Verify(a, witness, leafCount, root)
                    => index < count /\ allocations[index + 1] = a
=============================================================================
