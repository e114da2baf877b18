------------------------------ MODULE TaskGraph ------------------------------
(***************************************************************************)
(* The node arena and the visitors that fill it.  Every visitor of the     *)
(* crate follows one pattern: add a node, link it to the parent it was     *)
(* given, then visit what hangs below it.  A map shard is the exception:   *)
(* its node is added with a placeholder job, which is replaced once its    *)
(* values have been visited.  The visit is one thread recursing: `path` is *)
(* its stack.                                                              *)
(***************************************************************************)
EXTENDS ChunkTree, Sequences

VARIABLES count,          \* nodes.len()
          parent_slot,    \* Node::parent_slot, counted from 1; 0 is None
          atomic_deps,    \* Node::atomic_deps
          completed,      \* Node::completed_children
          job,            \* what node.job is
          path            \* the visits in progress, the root's first

graphVars == <<parent, count, parent_slot, atomic_deps, completed, job, path>>

NoRef == [offset |-> 0, length |-> 0]   \* Option::None; no chunk is empty

GraphInit ==
  /\ count = 0
  /\ parent = [n \in ChunkId |-> NoParent]
  /\ parent_slot = [n \in ChunkId |-> 0]
  /\ atomic_deps = [n \in ChunkId |-> 0]
  /\ completed = [n \in ChunkId |-> <<>>]
  /\ job = [n \in ChunkId |-> "none"]
  /\ path = <<>>

\* add_node: the id is the index the node is pushed at.
AddNode(kind) ==
  /\ count < N
  /\ count' = count + 1
  /\ job' = [job EXCEPT ![count] = kind]

\* Mutants: the count is decremented; no slot is reserved.
OneDepLess(p) == atomic_deps[p] - 1
NoSlot(p) == completed[p]

OneDepMore(p) == atomic_deps[p] + 1
NewSlot(p) == Append(completed[p], NoRef)

\* link_parent_child reserves a slot at the end of the parent's vector.
LinkParentChild(p, c) ==
  /\ atomic_deps' = [atomic_deps EXCEPT ![p] = OneDepMore(p)]
  /\ completed' = [completed EXCEPT ![p] = NewSlot(p)]
  /\ parent' = [parent EXCEPT ![c] = p]
  /\ parent_slot' = [parent_slot EXCEPT ![c] = Len(completed[p]) + 1]

VisitRoot ==
  /\ count = 0
  /\ AddNode("final")
  /\ path' = <<Root>>
  /\ UNCHANGED <<parent, parent_slot, atomic_deps, completed>>

\* Mutant: the node is added but not linked.
VisitUnlinked(kind) ==
  /\ path # <<>>
  /\ AddNode(kind)
  /\ path' = Append(path, count)
  /\ UNCHANGED <<parent, parent_slot, atomic_deps, completed>>

VisitChild(kind) ==
  /\ path # <<>>
  /\ AddNode(kind)
  /\ LinkParentChild(path[Len(path)], count)
  /\ path' = Append(path, count)

FinalJob(n) == IF job[n] = "placeholder" THEN "final" ELSE job[n]

\* A visit returns; a map shard first swaps its placeholder.
Leave ==
  /\ path # <<>>
  /\ LET n == path[Len(path)] IN job' = [job EXCEPT ![n] = FinalJob(n)]
  /\ path' = SubSeq(path, 1, Len(path) - 1)
  /\ UNCHANGED <<parent, count, parent_slot, atomic_deps, completed>>

Built == count > 0 /\ path = <<>>

HandedOver == Built /\ UNCHANGED graphVars

Visit == \/ VisitRoot \/ Leave \/ HandedOver
         \/ \E kind \in {"final", "placeholder"} : VisitChild(kind)

GraphSpec == GraphInit /\ [][Visit]_graphVars
-----------------------------------------------------------------------------
TypeOK ==
  /\ count \in 0 .. N
  /\ parent \in [ChunkId -> 0 .. N]
  /\ parent_slot \in [ChunkId -> Nat]
  /\ atomic_deps \in [ChunkId -> Nat]
  /\ completed \in [ChunkId -> Seq({NoRef})]
  /\ job \in [ChunkId -> {"none", "final", "placeholder"}]
  /\ path \in Seq(ChunkId)

\* At every moment of the visit a node counts exactly the children linked to
\* it, with one empty slot each, and a child's slot is its rank among its
\* siblings: the count and the slots are two records of the same fact.
LinksConsistent ==
  \A n \in ChunkId :
    /\ atomic_deps[n] = Cardinality(Children(n))
    /\ Len(completed[n]) = Cardinality(Children(n))
    /\ parent[n] # NoParent => parent_slot[n] = ParentSlot(n)
=============================================================================
