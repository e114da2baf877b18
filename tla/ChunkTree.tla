------------------------------ MODULE ChunkTree ------------------------------
(***************************************************************************)
(* The shape every stage of a save shares: a tree of chunks.  A ChunkId is *)
(* an index of TaskGraph's node arena, so an id is a number below N, the   *)
(* number of nodes, and N itself stands for `parent: None`.                *)
(***************************************************************************)
EXTENDS Naturals, FiniteSets

CONSTANT N          \* number of nodes in the arena
ASSUME NodeCountAssumption == N \in Nat \ {0}

VARIABLE parent     \* Node::parent

ChunkId == 0 .. (N - 1)
Root    == 0
NoParent == N

(***************************************************************************)
(* The graphs the visitors build: the root is visited first and has no     *)
(* parent, every other node is created after the node it is linked to.     *)
(***************************************************************************)
Trees == {p \in [ChunkId -> 0 .. N] :
            /\ p[Root] = NoParent
            /\ \A n \in ChunkId \ {Root} : p[n] < n}

Children(n) == {c \in ChunkId : parent[c] = n}

\* Mutant: the slot is taken before it is pushed.
ParentSlotTooLow(c) == Cardinality({s \in Children(parent[c]) : s <= c}) - 1

\* Node::parent_slot, counted from 1: siblings are linked in the order they
\* are created, so a child's slot is the number of siblings up to itself.
ParentSlot(c) == Cardinality({s \in Children(parent[c]) : s <= c})

Slots(n) == 1 .. Cardinality(Children(n))

\* The children of n in link order.
ChildSeq(n) == [i \in Slots(n) |-> CHOOSE c \in Children(n) : ParentSlot(c) = i]
=============================================================================
