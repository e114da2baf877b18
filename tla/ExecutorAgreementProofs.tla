----------------------- MODULE ExecutorAgreementProofs -----------------------
(***************************************************************************)
(* Proofs about the graph a visit builds, and about the two executors run  *)
(* on it, for every object and every size.                                 *)
(*                                                                         *)
(* The invariant of the visit, GraphInv: nodes from `count` on are         *)
(* untouched, the nodes below it form a tree in which every node comes     *)
(* after its parent, and a node that is being visited, or still holds a    *)
(* placeholder, is on the stack of visits.                                 *)
(***************************************************************************)
EXTENDS ExecutorAgreement, Integers, SequenceTheorems, FiniteSetTheorems, TLAPS

NewNodesUntouched ==
  \A n \in ChunkId : n >= count =>
    parent[n] = NoParent /\ completed[n] = <<>> /\ atomic_deps[n] = 0

AddedNodesLinked ==
  \A n \in ChunkId : n < count =>
    IF n = Root THEN parent[n] = NoParent ELSE parent[n] < n

VisitsAreOfNodes == \A i \in 1 .. Len(path) : path[i] < count

PlaceholdersOnStack ==
  \A n \in ChunkId : n < count =>
    /\ job[n] # "none"
    /\ job[n] = "placeholder" => \E i \in 1 .. Len(path) : path[i] = n

GraphInv == /\ TypeOK
            /\ NewNodesUntouched
            /\ AddedNodesLinked
            /\ VisitsAreOfNodes
            /\ PlaceholdersOnStack
            /\ LinksConsistent
-----------------------------------------------------------------------------
\* The root is a node (the arena is not empty).
LEMMA RootIsNode == Root \in ChunkId
BY NodeCountAssumption DEF Root, ChunkId

\* A node has finitely many children (ChunkTree's Children, Node::parent).
LEMMA ChildrenFinite ==
  ASSUME NEW n
  PROVE  /\ Children(n) \subseteq ChunkId
         /\ IsFiniteSet(Children(n))
         /\ Cardinality(Children(n)) \in Nat
<1>1. Children(n) \subseteq ChunkId  BY DEF Children
<1>2. IsFiniteSet(ChunkId)  BY FS_Interval, NodeCountAssumption DEF ChunkId
<1>. QED  BY <1>1, <1>2, FS_Subset, FS_CardinalityType

\* The arena starts empty.
LEMMA InitGraphInv == GraphInit => GraphInv
<1> SUFFICES ASSUME GraphInit PROVE GraphInv  OBVIOUS
<1> USE DEF GraphInit
<1>1. N \in Nat \ {0} /\ \A n \in ChunkId : n \in Nat /\ n # NoParent
      BY NodeCountAssumption DEF ChunkId, NoParent
<1>2. TypeOK
  <2>1. <<>> \in Seq({NoRef}) /\ <<>> \in Seq(ChunkId)  OBVIOUS
  <2>. QED  BY <1>1, <2>1 DEF TypeOK, NoParent
<1>3. \A n \in ChunkId : Children(n) = {}  BY <1>1 DEF Children
<1>4. LinksConsistent  BY <1>3, FS_EmptySet DEF LinksConsistent
<1>5. NewNodesUntouched  BY DEF NewNodesUntouched
<1>6. AddedNodesLinked /\ VisitsAreOfNodes /\ PlaceholdersOnStack
      BY <1>1 DEF AddedNodesLinked, VisitsAreOfNodes, PlaceholdersOnStack
<1>. QED  BY <1>2, <1>4, <1>5, <1>6 DEF GraphInv

\* link_parent_child adds the newest node to the children of its parent, as
\* the last one, and changes nobody else's.
LEMMA LinkedChildren ==
  ASSUME GraphInv, NEW p \in ChunkId, NEW c \in ChunkId, c = count, p < c,
         parent' = [parent EXCEPT ![c] = p]
  PROVE  /\ c \notin Children(p) /\ Children(p)' = Children(p) \cup {c}
         /\ \A q \in ChunkId \ {p} : Children(q)' = Children(q)
         /\ ParentSlot(c)' = Cardinality(Children(p)) + 1
         /\ \A m \in ChunkId \ {c} : parent[m] # NoParent =>
              parent'[m] = parent[m] /\ ParentSlot(m)' = ParentSlot(m)
<1> USE DEF GraphInv
<1>1. /\ N \in Nat \ {0} /\ c \in Nat /\ p \in Nat
      /\ \A n \in ChunkId : n \in Nat /\ n # NoParent
      BY NodeCountAssumption DEF ChunkId, NoParent
<1>2. parent[c] = NoParent  BY <1>1 DEF NewNodesUntouched
<1>3. parent'[c] = p /\ \A m \in ChunkId \ {c} : parent'[m] = parent[m]
      BY DEF TypeOK
<1>4. c \notin Children(p) /\ Children(p)' = Children(p) \cup {c}
      BY <1>1, <1>2, <1>3 DEF Children
<1>5. \A q \in ChunkId \ {p} : Children(q)' = Children(q)
      BY <1>1, <1>2, <1>3 DEF Children
<1>6. ASSUME NEW m \in ChunkId, parent[m] # NoParent
      PROVE  m < c /\ m # c /\ parent[m] \in ChunkId
  <2>1. m < c
        BY <1>1, <1>6 DEF NewNodesUntouched, TypeOK
  <2>2. m # c  BY <1>1, <2>1
  <2>3. parent[m] \in 0 .. N /\ parent[m] # N  BY <1>6 DEF TypeOK, NoParent
  <2>4. parent[m] \in ChunkId  BY <1>1, <2>3 DEF ChunkId
  <2>. QED  BY <2>1, <2>2, <2>4
<1>7. ParentSlot(c)' = Cardinality(Children(p)) + 1
  <2>1. {s \in Children(p)' : s <= c} = Children(p) \cup {c}
    <3>1. ASSUME NEW s \in Children(p) PROVE s <= c
      <4>1. s \in ChunkId /\ parent[s] # NoParent  BY <1>1 DEF Children
      <4>. QED  BY <1>1, <1>6, <4>1
    <3>. QED  BY <1>1, <1>4, <3>1
  <2>2. ParentSlot(c)' = Cardinality({s \in Children(p)' : s <= c})
        BY <1>3 DEF ParentSlot
  <2>. QED  BY <1>4, <2>1, <2>2, ChildrenFinite, FS_AddElement
<1>8. ASSUME NEW m \in ChunkId \ {c}, parent[m] # NoParent
      PROVE  parent'[m] = parent[m] /\ ParentSlot(m)' = ParentSlot(m)
  <2> PICK q : q = parent[m]  OBVIOUS
  <2>1. m < c /\ q \in ChunkId /\ parent'[m] = q /\ m \in Nat  BY <1>1, <1>3, <1>6, <1>8
  <2>2. {s \in Children(q)' : s <= m} = {s \in Children(q) : s <= m}
    <3>1. CASE q = p  BY <1>1, <1>4, <2>1, <3>1
    <3>2. CASE q # p  BY <1>5, <2>1, <3>2
    <3>. QED  BY <3>1, <3>2
  <2>3. ParentSlot(m)' = Cardinality({s \in Children(q)' : s <= m})
        BY <2>1 DEF ParentSlot
  <2>4. ParentSlot(m) = Cardinality({s \in Children(q) : s <= m})
        BY DEF ParentSlot
  <2>. QED  BY <2>1, <2>2, <2>3, <2>4
<1>. QED  BY <1>4, <1>5, <1>7, <1>8

\* A visitor that adds a node and links it keeps the graph in order.
LEMMA VisitChildGraphInv ==
  ASSUME GraphInv, NEW kind \in {"final", "placeholder"}, VisitChild(kind)
  PROVE  GraphInv'
<1> USE DEF GraphInv
<1> PICK p : p = path[Len(path)]  OBVIOUS
<1> PICK c : c = count  OBVIOUS
<1>1. /\ N \in Nat \ {0} /\ \A n \in ChunkId : n \in Nat /\ n # NoParent
      BY NodeCountAssumption DEF ChunkId, NoParent
<1>2. Len(path) \in 1 .. Len(path)  BY DEF VisitChild, TypeOK
<1>3. c \in ChunkId /\ p \in ChunkId /\ p < c /\ c # Root
  <2>1. c < N /\ c \in Nat  BY DEF VisitChild, AddNode, TypeOK
  <2>2. p \in ChunkId  BY <1>2 DEF TypeOK
  <2>3. p < c  BY <1>2 DEF VisitsAreOfNodes
  <2>. QED  BY <1>1, <2>1, <2>2, <2>3 DEF ChunkId, Root
<1>4. /\ count' = c + 1
      /\ job' = [job EXCEPT ![c] = kind]
      /\ atomic_deps' = [atomic_deps EXCEPT ![p] = atomic_deps[p] + 1]
      /\ completed' = [completed EXCEPT ![p] = Append(completed[p], NoRef)]
      /\ parent' = [parent EXCEPT ![c] = p]
      /\ parent_slot' = [parent_slot EXCEPT ![c] = Len(completed[p]) + 1]
      /\ path' = Append(path, c)
      BY DEF VisitChild, AddNode, LinkParentChild, OneDepMore, NewSlot
<1>5. /\ completed[p] \in Seq({NoRef}) /\ Append(completed[p], NoRef) \in Seq({NoRef})
      /\ Len(completed[p]) \in Nat
      /\ Len(Append(completed[p], NoRef)) = Len(completed[p]) + 1
      BY <1>3 DEF TypeOK
<1>6. /\ path' \in Seq(ChunkId) /\ Len(path') = Len(path) + 1
      /\ path'[Len(path) + 1] = c
      /\ \A i \in 1 .. Len(path) : path'[i] = path[i]
      BY <1>3, <1>4, AppendProperties DEF TypeOK
<1>7. TypeOK'
  <2>1. count' \in 0 .. N /\ p \in 0 .. N  BY <1>1, <1>3, <1>4 DEF ChunkId
  <2>2. parent' \in [ChunkId -> 0 .. N]  BY <1>3, <1>4, <2>1 DEF TypeOK
  <2>3. parent_slot' \in [ChunkId -> Nat] /\ atomic_deps' \in [ChunkId -> Nat]
    <3>1. Len(completed[p]) + 1 \in Nat /\ atomic_deps[p] + 1 \in Nat
          BY <1>3, <1>5 DEF TypeOK
    <3>. QED  BY <1>3, <1>4, <3>1 DEF TypeOK
  <2>4. completed' \in [ChunkId -> Seq({NoRef})]  BY <1>3, <1>4, <1>5 DEF TypeOK
  <2>5. job' \in [ChunkId -> {"none", "final", "placeholder"}]  BY <1>3, <1>4 DEF TypeOK
  <2>. QED  BY <1>6, <2>1, <2>2, <2>3, <2>4, <2>5 DEF TypeOK
<1>8. NewNodesUntouched'
  <2>1. ASSUME NEW n \in ChunkId, n >= count' PROVE n # c /\ n # p /\ n >= count
        BY <1>1, <1>3, <1>4, <2>1
  <2>. QED  BY <1>4, <2>1 DEF NewNodesUntouched, TypeOK
<1>9. AddedNodesLinked'
  <2>1. ASSUME NEW n \in ChunkId, n < count', n # c PROVE n < count
        BY <1>1, <1>3, <1>4, <2>1
  <2>. QED  BY <1>3, <1>4, <2>1 DEF AddedNodesLinked, TypeOK, NoParent
<1>10. VisitsAreOfNodes'
  <2>1. ASSUME NEW i \in 1 .. Len(path') PROVE path'[i] < count'
    <3>1. CASE i = Len(path) + 1  BY <1>1, <1>3, <1>4, <1>6, <3>1
    <3>2. CASE i # Len(path) + 1
      <4>1. i \in 1 .. Len(path)  BY <1>2, <1>6, <3>2
      <4>2. path[i] < count /\ path[i] \in ChunkId  BY <4>1 DEF VisitsAreOfNodes, TypeOK
      <4>. QED  BY <1>1, <1>3, <1>4, <1>6, <4>1, <4>2
    <3>. QED  BY <3>1, <3>2
  <2>. QED  BY <2>1 DEF VisitsAreOfNodes
<1>11. PlaceholdersOnStack'
  <2>1. ASSUME NEW n \in ChunkId, n < count'
        PROVE  /\ job'[n] # "none"
               /\ job'[n] = "placeholder" => \E i \in 1 .. Len(path') : path'[i] = n
    <3>1. CASE n = c
      <4>1. Len(path) + 1 \in 1 .. Len(path')  BY <1>2, <1>6
      <4>. QED  BY <1>3, <1>4, <1>6, <3>1, <4>1 DEF TypeOK
    <3>2. CASE n # c
      <4>1. n < count /\ job'[n] = job[n]
            BY <1>1, <1>3, <1>4, <2>1, <3>2 DEF TypeOK
      <4>2. 1 .. Len(path) \subseteq 1 .. Len(path')  BY <1>2, <1>6
      <4>. QED  BY <1>6, <4>1, <4>2 DEF PlaceholdersOnStack
    <3>. QED  BY <3>1, <3>2
  <2>. QED  BY <2>1 DEF PlaceholdersOnStack
<1>12. LinksConsistent'
  <2>1. /\ c \notin Children(p) /\ Children(p)' = Children(p) \cup {c}
        /\ \A q \in ChunkId \ {p} : Children(q)' = Children(q)
        /\ ParentSlot(c)' = Cardinality(Children(p)) + 1
        /\ \A m \in ChunkId \ {c} : parent[m] # NoParent =>
             parent'[m] = parent[m] /\ ParentSlot(m)' = ParentSlot(m)
        BY <1>3, <1>4, LinkedChildren
  <2>2. Cardinality(Children(p)') = Cardinality(Children(p)) + 1
        BY <2>1, ChildrenFinite, FS_AddElement
  <2>3. ASSUME NEW n \in ChunkId
        PROVE  /\ atomic_deps'[n] = Cardinality(Children(n)')
               /\ Len(completed'[n]) = Cardinality(Children(n)')
    <3>1. CASE n = p
          BY <1>3, <1>4, <1>5, <2>2, <3>1 DEF LinksConsistent, TypeOK
    <3>2. CASE n # p  BY <1>4, <2>1, <3>2 DEF LinksConsistent, TypeOK
    <3>. QED  BY <3>1, <3>2
  <2>4. ASSUME NEW n \in ChunkId, parent'[n] # NoParent
        PROVE  parent_slot'[n] = ParentSlot(n)'
    <3>1. CASE n = c
          BY <1>3, <1>4, <2>1, <3>1 DEF LinksConsistent, TypeOK
    <3>2. CASE n # c
      <4>1. parent[n] # NoParent  BY <1>4, <2>4, <3>2 DEF TypeOK
      <4>. QED  BY <1>4, <2>1, <3>2, <4>1 DEF LinksConsistent, TypeOK
    <3>. QED  BY <3>1, <3>2
  <2>. QED  BY <2>3, <2>4 DEF LinksConsistent, NoParent
<1>. QED  BY <1>7, <1>8, <1>9, <1>10, <1>11, <1>12

\* So does the visit of the root, which links nothing.
LEMMA VisitRootGraphInv ==
  ASSUME GraphInv, VisitRoot
  PROVE  GraphInv'
<1> USE DEF GraphInv
<1>1. /\ N \in Nat \ {0} /\ \A n \in ChunkId : n \in Nat
      BY NodeCountAssumption DEF ChunkId
<1>2. /\ count = 0 /\ count' = 1 /\ job' = [job EXCEPT ![0] = "final"] /\ path' = <<Root>>
      /\ UNCHANGED <<parent, parent_slot, atomic_deps, completed>>
      BY DEF VisitRoot, AddNode
<1>3. path' \in Seq(ChunkId) /\ Len(path') = 1 /\ path'[1] = 0
      BY <1>2, RootIsNode DEF Root
<1>4. TypeOK'  BY <1>1, <1>2, <1>3 DEF TypeOK
<1>5. NewNodesUntouched'  BY <1>1, <1>2 DEF NewNodesUntouched
<1>6. AddedNodesLinked'
      BY <1>1, <1>2 DEF NewNodesUntouched, AddedNodesLinked, Root, NoParent
<1>7. VisitsAreOfNodes'  BY <1>2, <1>3 DEF VisitsAreOfNodes
<1>8. PlaceholdersOnStack'
      BY <1>1, <1>2, RootIsNode DEF PlaceholdersOnStack, TypeOK, Root
<1>9. LinksConsistent'
      BY <1>2 DEF LinksConsistent, Children, ParentSlot, NoParent
<1>. QED  BY <1>4, <1>5, <1>6, <1>7, <1>8, <1>9

\* And the end of a visit, which replaces a placeholder.
LEMMA LeaveGraphInv ==
  ASSUME GraphInv, Leave
  PROVE  GraphInv'
<1> USE DEF GraphInv
<1> PICK n : n = path[Len(path)]  OBVIOUS
<1>1. /\ UNCHANGED <<parent, count, parent_slot, atomic_deps, completed>>
      /\ path # <<>> /\ path' = SubSeq(path, 1, Len(path) - 1)
      /\ job' = [job EXCEPT ![n] = FinalJob(n)]
      BY DEF Leave
<1>2. Len(path) \in Nat \ {0} /\ path \in Seq(ChunkId) /\ n \in ChunkId
      BY <1>1 DEF TypeOK
<1>3. /\ path' \in Seq(ChunkId) /\ Len(path') = Len(path) - 1
      /\ \A i \in 1 .. Len(path) - 1 : path'[i] = path[i]
  <2> PICK k : k = Len(path) - 1  OBVIOUS
  <2>1. k \in Nat /\ \A i \in 1 .. k : path[i] \in ChunkId  BY <1>2
  <2>2. /\ SubSeq(path, 1, k) \in Seq(ChunkId)
        /\ Len(SubSeq(path, 1, k)) = IF 1 <= k THEN k - 1 + 1 ELSE 0
        /\ \A i \in 1 .. k - 1 + 1 : SubSeq(path, 1, k)[i] = path[1 + i - 1]
        BY <2>1, SubSeqProperties
  <2>. QED  BY <1>1, <1>2, <2>1, <2>2
<1>4. /\ job' \in [ChunkId -> {"none", "final", "placeholder"}]
      /\ job'[n] # "placeholder" /\ (job'[n] = "none" <=> job[n] = "none")
      /\ \A m \in ChunkId \ {n} : job'[m] = job[m]
      BY <1>1, <1>2 DEF FinalJob, TypeOK
<1>5. TypeOK'  BY <1>1, <1>3, <1>4 DEF TypeOK
<1>6. NewNodesUntouched' /\ AddedNodesLinked'
      BY <1>1 DEF NewNodesUntouched, AddedNodesLinked, NoParent
<1>7. VisitsAreOfNodes'  BY <1>1, <1>2, <1>3 DEF VisitsAreOfNodes
<1>8. PlaceholdersOnStack'
  <2>1. ASSUME NEW m \in ChunkId, m < count, job'[m] = "placeholder"
        PROVE  \E i \in 1 .. Len(path') : path'[i] = m
    <3>1. m # n /\ job[m] = "placeholder"  BY <1>4, <2>1
    <3>2. PICK i \in 1 .. Len(path) : path[i] = m
          BY <2>1, <3>1 DEF PlaceholdersOnStack
    <3>3. i \in 1 .. Len(path) - 1  BY <1>2, <3>1, <3>2
    <3>. QED  BY <1>3, <3>2, <3>3
  <2>2. ASSUME NEW m \in ChunkId, m < count PROVE job'[m] # "none"
        BY <1>4, <2>2 DEF PlaceholdersOnStack
  <2>. QED  BY <1>1, <2>1, <2>2 DEF PlaceholdersOnStack
<1>9. LinksConsistent'
      BY <1>1 DEF LinksConsistent, Children, ParentSlot, NoParent
<1>. QED  BY <1>5, <1>6, <1>7, <1>8, <1>9

\* A step that leaves the graph alone.
LEMMA IdleGraphInv ==
  ASSUME GraphInv, UNCHANGED graphVars
  PROVE  GraphInv'
BY DEF graphVars, GraphInv, TypeOK, NewNodesUntouched, AddedNodesLinked, VisitsAreOfNodes,
   PlaceholdersOnStack, LinksConsistent, Children, ParentSlot, NoParent

\* Every step of a visit keeps the graph in order.
LEMMA VisitGraphInv == GraphInv /\ [Visit]_graphVars => GraphInv'
BY VisitChildGraphInv, VisitRootGraphInv, LeaveGraphInv, IdleGraphInv DEF Visit, HandedOver

\* A visit keeps its variables of their types, whatever it is the visit of.
THEOREM GraphTypeCorrect == GraphSpec => []TypeOK
<1>1. GraphInv => TypeOK  BY DEF GraphInv
<1>. QED  BY <1>1, InitGraphInv, VisitGraphInv, PTL DEF GraphSpec

\* At every moment of a visit the counts, the slots and the links agree.
THEOREM GraphLinksConsistent == GraphSpec => []LinksConsistent
<1>1. GraphInv => LinksConsistent  BY DEF GraphInv
<1>. QED  BY <1>1, InitGraphInv, VisitGraphInv, PTL DEF GraphSpec
-----------------------------------------------------------------------------
(***************************************************************************)
(* From the graph to the executors: what a finished visit hands over.      *)
(***************************************************************************)

\* A finished graph is the tree, one empty slot per child in every node, a
\* count of the children, and no placeholder left.
LEMMA FinishedGraph ==
  ASSUME GraphInv, Built, count = N
  PROVE  /\ parent \in Trees
         /\ completed = [n \in ChunkId |-> [i \in Slots(n) |-> NoRef]]
         /\ atomic_deps = [n \in ChunkId |-> Cardinality(Children(n))]
         /\ \A n \in ChunkId : IsLeaf(n) <=> Children(n) = {}
         /\ \A n \in ChunkId : job[n] = "final"
<1> USE DEF GraphInv
<1>1. N \in Nat \ {0} /\ \A n \in ChunkId : n \in Nat /\ n < count
      BY NodeCountAssumption DEF ChunkId
<1>2. parent \in Trees
      BY <1>1, RootIsNode DEF AddedNodesLinked, TypeOK, Trees
<1>3. ASSUME NEW n \in ChunkId PROVE completed[n] = [i \in Slots(n) |-> NoRef]
  <2>1. completed[n] \in Seq({NoRef}) /\ Len(completed[n]) = Cardinality(Children(n))
        BY DEF TypeOK, LinksConsistent
  <2>2. DOMAIN completed[n] = Slots(n)  BY <2>1 DEF Slots
  <2>3. \A i \in Slots(n) : completed[n][i] = NoRef  BY <2>1, <2>2
  <2>. QED  BY <2>1, <2>2, <2>3
<1>4. completed = [n \in ChunkId |-> [i \in Slots(n) |-> NoRef]]  BY <1>3 DEF TypeOK
<1>5. atomic_deps = [n \in ChunkId |-> Cardinality(Children(n))]
      BY DEF TypeOK, LinksConsistent
<1>6. \A n \in ChunkId : IsLeaf(n) <=> Children(n) = {}
  <2>1. \A n \in ChunkId : Cardinality(Children(n)) = 0 <=> Children(n) = {}
        BY ChildrenFinite, FS_EmptySet
  <2>. QED  BY <2>1 DEF IsLeaf, LinksConsistent
<1>7. ASSUME NEW n \in ChunkId PROVE job[n] = "final"
  <2>1. job[n] # "none" /\ job[n] # "placeholder"
        BY <1>1 DEF PlaceholdersOnStack, Built
  <2>. QED  BY <2>1 DEF TypeOK
<1>. QED  BY <1>2, <1>4, <1>5, <1>6, <1>7

\* The tree is the same to the graph and to both executors.
LEMMA SameTree ==
  /\ Serial!Trees = Trees /\ Parallel!Trees = Trees
  /\ Serial!ChunkId = ChunkId /\ Parallel!ChunkId = ChunkId
  /\ Serial!NoRef = NoRef /\ Parallel!NoRef = NoRef
  /\ \A n : /\ Serial!Children(n) = Children(n) /\ Parallel!Children(n) = Children(n)
            /\ Serial!Slots(n) = Slots(n) /\ Parallel!Slots(n) = Slots(n)
            /\ Parallel!Cardinality(Children(n)) = Cardinality(Children(n))
BY DEF Serial!Trees, Parallel!Trees, Trees, Serial!ChunkId, Parallel!ChunkId, ChunkId,
   Serial!Root, Parallel!Root, Root, Serial!NoParent, Parallel!NoParent, NoParent,
   Serial!NoRef, Parallel!NoRef, NoRef, Serial!Children, Parallel!Children, Children,
   Serial!Slots, Parallel!Slots, Slots, Serial!Cardinality, Parallel!Cardinality, Cardinality,
   Serial!IsFiniteSet, Parallel!IsFiniteSet, IsFiniteSet

\* Before the executors are called they own nothing.
Fresh == ~Executing =>
  /\ Serial!StreamInit /\ s_root = NoRef /\ s_outcome = "none"
  /\ p_refs = [n \in ChunkId |-> <<>>]
  /\ Parallel!StreamInit /\ p_root = NoRef /\ p_outcome = "none"
  /\ p_poisoned = FALSE /\ p_abort = FALSE /\ p_error = Parallel!NoError

\* ExecuteGraph leaves both executors in an initial state of theirs.
LEMMA ExecuteGraphStarts ==
  ASSUME GraphInv, Fresh, ExecuteGraph
  PROVE  /\ Serial!Init' /\ Parallel!Init'
         /\ \A n \in ChunkId : job'[n] = "final"
         /\ Executing'
<1>1. ~Executing /\ Built /\ count = N  BY DEF ExecuteGraph
<1>2. /\ UNCHANGED <<graphVars, serialOwn, parallelOwn>>
      /\ s_left' = N /\ s_completed' = completed
      /\ p_pc' = [n \in ChunkId |-> IF IsLeaf(n) THEN "spawned" ELSE "waiting"]
      /\ p_deps' = atomic_deps /\ p_completed' = completed
      BY DEF ExecuteGraph
<1>3. /\ parent \in Trees
      /\ completed = [n \in ChunkId |-> [i \in Slots(n) |-> NoRef]]
      /\ atomic_deps = [n \in ChunkId |-> Cardinality(Children(n))]
      /\ \A n \in ChunkId : IsLeaf(n) <=> Children(n) = {}
      /\ \A n \in ChunkId : job[n] = "final"
      BY <1>1, FinishedGraph
<1>4. /\ Serial!Trees' = Serial!Trees /\ Parallel!Trees' = Parallel!Trees
      /\ \A n : /\ Serial!Slots(n)' = Serial!Slots(n)
                /\ Parallel!Slots(n)' = Parallel!Slots(n)
                /\ Parallel!Children(n)' = Parallel!Children(n)
      BY <1>2 DEF graphVars, Serial!Slots, Parallel!Slots, Serial!Children, Parallel!Children,
         Serial!Trees, Parallel!Trees
<1>5. parent' = parent  BY <1>2 DEF graphVars
<1>6. Serial!Init'
      BY <1>1, <1>2, <1>3, <1>4, <1>5, SameTree
      DEF Fresh, Serial!Init, Serial!StreamInit, serialOwn
<1>7. p_pc' = [n \in ChunkId |-> IF Children(n) = {} THEN "spawned" ELSE "waiting"]
      BY <1>2, <1>3
<1>8. Parallel!Init'
      BY <1>1, <1>2, <1>3, <1>4, <1>5, <1>7, SameTree
      DEF Fresh, Parallel!Init, Parallel!StreamInit, Parallel!NoError, parallelOwn
<1>9. Executing'
  <2>1. DOMAIN completed = ChunkId /\ Root \in ChunkId  BY <1>3, RootIsNode
  <2>2. completed # <<>>  BY <2>1
  <2>. QED  BY <1>2, <2>2 DEF Executing
<1>. QED  BY <1>2, <1>3, <1>6, <1>8, <1>9 DEF graphVars
-----------------------------------------------------------------------------
(***************************************************************************)
(* What is proved of each executor alone, about the executors of this      *)
(* composition.  The modules of proofs are instantiated as the executors   *)
(* themselves are; their definitions then agree, word for word.            *)
(***************************************************************************)
SerialProofs == INSTANCE SerialExecutorProofs WITH
  Faults <- {}, left <- s_left, completed <- s_completed, chunk <- s_chunk,
  current_offset <- s_offset, stream_end <- s_end, root_result <- s_root,
  outcome <- s_outcome

ParallelProofs == INSTANCE ParallelExecutorProofs WITH
  Faults <- {}, pc <- p_pc, atomic_deps <- p_deps, completed <- p_completed,
  refs <- p_refs, chunk <- p_chunk, current_offset <- p_offset,
  stream_end <- p_end, poisoned <- p_poisoned, abort_flag <- p_abort,
  error_capture <- p_error, root_result <- p_root, outcome <- p_outcome

\* The executors and their proofs are instantiated apart; both instances say the
\* same, here of the loop of execute_graph_serial before its first iteration.
LEMMA SerialStarts == Serial!Init => SerialProofs!Init
BY DEF Serial!Init, SerialProofs!Init, Serial!Root, SerialProofs!Root, Serial!Trees, SerialProofs!Trees, Serial!ChunkId,
   SerialProofs!ChunkId, Serial!Slots, SerialProofs!Slots, Serial!NoRef, SerialProofs!NoRef,
   Serial!StreamInit, SerialProofs!StreamInit, Serial!NoParent, SerialProofs!NoParent,
   Serial!Children, SerialProofs!Children, Serial!Cardinality, SerialProofs!Cardinality,
   Serial!IsFiniteSet, SerialProofs!IsFiniteSet

\* The same of every iteration and of the end of that loop.
LEMMA SerialSteps == Serial!Next => SerialProofs!Next
BY DEF Serial!Next, SerialProofs!Next, Serial!vars, SerialProofs!vars, Serial!Iterate,
   SerialProofs!Iterate, Serial!Finish, SerialProofs!Finish, Serial!FlushError,
   SerialProofs!FlushError, Serial!Returned, SerialProofs!Returned, Serial!streamVars,
   SerialProofs!streamVars, Serial!ChunkId, SerialProofs!ChunkId, Serial!Process,
   SerialProofs!Process, Serial!EncodeError, SerialProofs!EncodeError, Serial!EncodePanic,
   SerialProofs!EncodePanic, Serial!WriteError, SerialProofs!WriteError, Serial!NoRef,
   SerialProofs!NoRef, Serial!Visiting, SerialProofs!Visiting, Serial!MissingChild,
   SerialProofs!MissingChild, Serial!SerialCodec, SerialProofs!SerialCodec,
   Serial!AppendChunk, SerialProofs!AppendChunk, Serial!MyRef, SerialProofs!MyRef,
   Serial!NoParent, SerialProofs!NoParent, Serial!ResultSlot, SerialProofs!ResultSlot,
   Serial!NextLeft, SerialProofs!NextLeft, Serial!TearChunk, SerialProofs!TearChunk,
   Serial!RequestedId, SerialProofs!RequestedId, Serial!ChunkLength,
   SerialProofs!ChunkLength, Serial!ReturnedOffset, SerialProofs!ReturnedOffset,
   Serial!AdvancedOffset, SerialProofs!AdvancedOffset, Serial!ParentSlot,
   SerialProofs!ParentSlot, Serial!CHILD_REF_SIZE, SerialProofs!CHILD_REF_SIZE,
   Serial!Children, SerialProofs!Children, Serial!Cardinality, SerialProofs!Cardinality,
   Serial!IsFiniteSet, SerialProofs!IsFiniteSet

\* The same of the state in which execute_graph_parallel spawns the leaves.
LEMMA ParallelStarts == Parallel!Init => ParallelProofs!Init
BY DEF Parallel!Init, ParallelProofs!Init, Parallel!Root, ParallelProofs!Root, Parallel!Trees, ParallelProofs!Trees,
   Parallel!ChunkId, ParallelProofs!ChunkId, Parallel!Children, ParallelProofs!Children,
   Parallel!Slots, ParallelProofs!Slots, Parallel!NoRef, ParallelProofs!NoRef,
   Parallel!StreamInit, ParallelProofs!StreamInit, Parallel!NoError, ParallelProofs!NoError,
   Parallel!NoParent, ParallelProofs!NoParent, Parallel!Cardinality,
   ParallelProofs!Cardinality, Parallel!IsFiniteSet, ParallelProofs!IsFiniteSet

\* The same of every step of a task of the parallel executor, and of its join.
LEMMA ParallelSteps == Parallel!Next => ParallelProofs!Next
BY DEF Parallel!Next, ParallelProofs!Next, Parallel!nodeVars, ParallelProofs!nodeVars,
   Parallel!errorVars, ParallelProofs!errorVars, Parallel!Root, ParallelProofs!Root,
   Parallel!vars, ParallelProofs!vars,
   Parallel!Join, ParallelProofs!Join, Parallel!Returned, ParallelProofs!Returned,
   Parallel!ChunkId, ParallelProofs!ChunkId, Parallel!Task, ParallelProofs!Task,
   Parallel!streamVars, ParallelProofs!streamVars, Parallel!Ended, ParallelProofs!Ended,
   Parallel!NoRef, ParallelProofs!NoRef, Parallel!writerVars, ParallelProofs!writerVars,
   Parallel!AbortEarly, ParallelProofs!AbortEarly, Parallel!Begin, ParallelProofs!Begin,
   Parallel!TakeChildren, ParallelProofs!TakeChildren, Parallel!Encode,
   ParallelProofs!Encode, Parallel!EncodeError, ParallelProofs!EncodeError,
   Parallel!EncodePanic, ParallelProofs!EncodePanic, Parallel!Write, ParallelProofs!Write,
   Parallel!WriteError, ParallelProofs!WriteError, Parallel!WritePanic,
   ParallelProofs!WritePanic, Parallel!WritePoisoned, ParallelProofs!WritePoisoned,
   Parallel!Register, ParallelProofs!Register, Parallel!Release, ParallelProofs!Release,
   Parallel!CaptureRoot, ParallelProofs!CaptureRoot, Parallel!Step, ParallelProofs!Step,
   Parallel!MissingChild, ParallelProofs!MissingChild, Parallel!SignalError,
   ParallelProofs!SignalError, Parallel!ChildrenRefs, ParallelProofs!ChildrenRefs,
   Parallel!RequestedId, ParallelProofs!RequestedId, Parallel!AppendChunk,
   ParallelProofs!AppendChunk, Parallel!TearChunk, ParallelProofs!TearChunk,
   Parallel!IsRoot, ParallelProofs!IsRoot, Parallel!ResultSlot, ParallelProofs!ResultSlot,
   Parallel!MyRef, ParallelProofs!MyRef, Parallel!Dropped, ParallelProofs!Dropped,
   Parallel!SpawnsParent, ParallelProofs!SpawnsParent, Parallel!RootResult,
   ParallelProofs!RootResult, Parallel!NoError, ParallelProofs!NoError,
   Parallel!ChunkLength, ParallelProofs!ChunkLength, Parallel!ReturnedOffset,
   ParallelProofs!ReturnedOffset, Parallel!AdvancedOffset, ParallelProofs!AdvancedOffset,
   Parallel!NoParent, ParallelProofs!NoParent, Parallel!ParentSlot,
   ParallelProofs!ParentSlot, Parallel!CHILD_REF_SIZE, ParallelProofs!CHILD_REF_SIZE,
   Parallel!Children, ParallelProofs!Children, Parallel!Cardinality,
   ParallelProofs!Cardinality, Parallel!IsFiniteSet, ParallelProofs!IsFiniteSet

\* What the instances assume of the constants.
LEMMA InstancesAssume ==
  /\ N \in Nat \ {0} /\ {} \subseteq {"job", "sink", "panic"}
  /\ UseCompression \in BOOLEAN /\ Registered \subseteq 0 .. 255
  /\ Config \in [SerialProofs!ChunkId -> 0 .. 255]
  /\ PayloadLength \in [SerialProofs!ChunkId -> Nat]
  /\ Config \in [ParallelProofs!ChunkId -> 0 .. 255]
  /\ PayloadLength \in [ParallelProofs!ChunkId -> Nat]
BY NodeCountAssumption, EncodingAssumption
   DEF ChunkId, SerialProofs!ChunkId, ParallelProofs!ChunkId

\* Each executor keeps the invariant proved of it alone.
LEMMA SerialInvariant ==
  /\ Serial!Init => SerialProofs!IInv
  /\ SerialProofs!IInv /\ [Serial!Next]_(Serial!vars) => SerialProofs!IInv'
<1>1. Serial!Init => SerialProofs!IInv
      BY InstancesAssume, SerialStarts, SerialProofs!InitIInv
<1>2. UNCHANGED Serial!vars => UNCHANGED SerialProofs!vars
      BY DEF Serial!vars, SerialProofs!vars, Serial!streamVars, SerialProofs!streamVars
<1>3. SerialProofs!IInv /\ [Serial!Next]_(Serial!vars) => SerialProofs!IInv'
      BY <1>2, InstancesAssume, SerialSteps, SerialProofs!NextIInv
<1>. QED  BY <1>1, <1>3

\* The parallel executor's invariant holds of its part of the composition.
LEMMA ParallelInvariant ==
  /\ Parallel!Init => ParallelProofs!IInv /\ ParallelProofs!Measured
  /\ ParallelProofs!IInv /\ ParallelProofs!Measured /\ [Parallel!Next]_(Parallel!vars)
       => ParallelProofs!IInv' /\ ParallelProofs!Measured'
<1>1. Parallel!Init => ParallelProofs!IInv
      BY InstancesAssume, ParallelStarts, ParallelProofs!InitIInv1, ParallelProofs!InitIInv2,
         ParallelProofs!InitIInv3 DEF ParallelProofs!IInv
<1>2. Parallel!Init => ParallelProofs!Measured
      BY InstancesAssume, ParallelStarts, ParallelProofs!InitMeasured
<1>3. [Parallel!Next]_(Parallel!vars) => [ParallelProofs!Next]_(ParallelProofs!vars)
  <2>1. UNCHANGED Parallel!vars => UNCHANGED ParallelProofs!vars
        BY DEF Parallel!vars, ParallelProofs!vars, Parallel!nodeVars, ParallelProofs!nodeVars,
           Parallel!writerVars, ParallelProofs!writerVars, Parallel!errorVars,
           ParallelProofs!errorVars, Parallel!streamVars, ParallelProofs!streamVars
  <2>. QED  BY <2>1, ParallelSteps
<1>4. ParallelProofs!IInv /\ [Parallel!Next]_(Parallel!vars) => ParallelProofs!IInv'
      BY <1>3, InstancesAssume, ParallelProofs!NextIInv
<1>5. ParallelProofs!IInv /\ ParallelProofs!Measured /\ [Parallel!Next]_(Parallel!vars)
        => ParallelProofs!Measured'
      BY <1>3, InstancesAssume, ParallelProofs!NextMeasured
<1>. QED  BY <1>1, <1>2, <1>4, <1>5

\* An initial state of the executors satisfies their invariants whenever it
\* comes, as the one ExecuteGraph leads to.
LEMMA StartedInvariant ==
  Serial!Init' /\ Parallel!Init' =>
    SerialProofs!IInv' /\ ParallelProofs!IInv' /\ ParallelProofs!Measured'
<1>1. Serial!Init' => SerialProofs!IInv'  BY SerialInvariant, PTL
<1>2. Parallel!Init' => ParallelProofs!IInv' /\ ParallelProofs!Measured'
      BY ParallelInvariant, PTL
<1>. QED  BY <1>1, <1>2
-----------------------------------------------------------------------------
(***************************************************************************)
(* The composition: the visit keeps GraphInv, then each executor keeps its *)
(* own invariant while the other one, and the graph, stand still.          *)
(***************************************************************************)
EInv == /\ GraphInv
        /\ Fresh
        /\ Executing => /\ SerialProofs!IInv
                        /\ ParallelProofs!IInv /\ ParallelProofs!Measured

\* The serial executor never gives its graph back.
LEMMA StillExecuting == SerialProofs!IInv => Executing
<1> SUFFICES ASSUME SerialProofs!IInv PROVE Executing  OBVIOUS
<1>1. DOMAIN s_completed = ChunkId
      BY DEF SerialProofs!IInv, SerialProofs!TypeOK, SerialProofs!ChunkId, ChunkId
<1>2. Root \in ChunkId  BY RootIsNode
<1>. QED  BY <1>1, <1>2 DEF Executing

\* Nor does the next state.
LEMMA StaysExecuting == SerialProofs!IInv' => Executing'
BY StillExecuting, PTL

\* The fields of one part of the composition stand still as a whole.
LEMMA StandStill ==
  /\ UNCHANGED <<graphVars, serialGraph, serialOwn>> => UNCHANGED Serial!vars
  /\ UNCHANGED <<graphVars, parallelGraph, parallelOwn>> => UNCHANGED Parallel!vars
BY DEF graphVars, serialGraph, serialOwn, parallelGraph, parallelOwn, Serial!vars,
   Parallel!vars, Serial!streamVars, Parallel!streamVars, Parallel!nodeVars,
   Parallel!writerVars, Parallel!errorVars

\* A visit starts with an empty arena, and no executor runs.
LEMMA InitEInv == Init => EInv
BY InitGraphInv DEF Init, EInv, Fresh, Executing

\* A visit, the hand-over of the graph and the executors' steps keep EInv.
LEMMA NextEInv == EInv /\ [Next]_vars => EInv'
<1> SUFFICES ASSUME EInv, [Next]_vars PROVE EInv'  OBVIOUS
<1> USE DEF EInv
<1>1. CASE UNCHANGED vars
  <2>1. GraphInv'  BY <1>1, IdleGraphInv DEF vars
  <2>2. Executing' <=> Executing  BY <1>1 DEF vars, serialGraph, Executing
  <2>3. Fresh'
        BY <1>1, <2>2 DEF vars, serialOwn, parallelOwn, Fresh, Serial!StreamInit,
           Parallel!StreamInit, Parallel!NoError
  <2>4. UNCHANGED Serial!vars /\ UNCHANGED Parallel!vars  BY <1>1, StandStill DEF vars
  <2>. QED  BY <2>1, <2>2, <2>3, <2>4, SerialInvariant, ParallelInvariant
<1>2. CASE BuildGraph
  <2>1. GraphInv'  BY <1>2, VisitGraphInv DEF BuildGraph
  <2>2. ~Executing /\ ~Executing'  BY <1>2 DEF BuildGraph, serialGraph, Executing
  <2>3. Fresh'
        BY <1>2, <2>2 DEF BuildGraph, serialOwn, parallelOwn, Fresh, Serial!StreamInit,
           Parallel!StreamInit, Parallel!NoError
  <2>. QED  BY <2>1, <2>2, <2>3
<1>3. CASE ExecuteGraph
  <2>1. Serial!Init' /\ Parallel!Init' /\ Executing'  BY <1>3, ExecuteGraphStarts
  <2>2. GraphInv'  BY <1>3, IdleGraphInv DEF ExecuteGraph
  <2>. QED  BY <2>1, <2>2, StartedInvariant DEF Fresh
<1>4. CASE RunSerial
  <2>1. Executing /\ Serial!Next /\ UNCHANGED <<graphVars, parallelGraph, parallelOwn>>
        BY <1>4 DEF RunSerial
  <2>2. SerialProofs!IInv'  BY <2>1, SerialInvariant
  <2>3. ParallelProofs!IInv' /\ ParallelProofs!Measured'
        BY <2>1, StandStill, ParallelInvariant
  <2>4. GraphInv'  BY <2>1, IdleGraphInv
  <2>. QED  BY <2>2, <2>3, <2>4, StaysExecuting DEF Fresh
<1>5. CASE RunParallel
  <2>1. Executing /\ Parallel!Next /\ UNCHANGED <<graphVars, serialGraph, serialOwn>>
        BY <1>5 DEF RunParallel, Fresh
  <2>2. SerialProofs!IInv'  BY <2>1, StandStill, SerialInvariant
  <2>3. ParallelProofs!IInv' /\ ParallelProofs!Measured'  BY <2>1, ParallelInvariant
  <2>4. GraphInv'  BY <2>1, IdleGraphInv
  <2>. QED  BY <2>2, <2>3, <2>4, StaysExecuting DEF Fresh
<1>. QED  BY <1>1, <1>2, <1>3, <1>4, <1>5 DEF Next

\* EInv holds throughout write and write_sync.
LEMMA AlwaysEInv == Spec => []EInv
BY InitEInv, NextEInv, PTL DEF Spec

\* The variables of the graph keep their types while the executors run too.
THEOREM TypeCorrect == Spec => []TypeOK
<1>1. EInv => TypeOK  BY DEF EInv, GraphInv
<1>. QED  BY <1>1, AlwaysEInv, PTL

\* The graph that both executors are given stays consistent.
THEOREM LinksAgree == Spec => []LinksConsistent
<1>1. EInv => LinksConsistent  BY DEF EInv, GraphInv
<1>. QED  BY <1>1, AlwaysEInv, PTL

\* A finished visit hands over a graph that both executors can start from: one
\* root, parents before children, the leaves ready, no placeholder job left.
THEOREM FinishedGraphStarts == Spec => ExecutorsCanStart
<1>1. EInv /\ [Next]_vars =>
        [ExecuteGraph =>
           (Serial!Init /\ Parallel!Init /\ \A n \in ChunkId : job[n] = "final")']_vars
      BY ExecuteGraphStarts DEF EInv, ChunkId
<1>. QED  BY <1>1, AlwaysEInv, PTL DEF Spec, ExecutorsCanStart
-----------------------------------------------------------------------------
(***************************************************************************)
(* The answers.  A compressor that is not registered is an error of one    *)
(* executor and a fallback of the other: the run on a registry without LZ4 *)
(* shows them differ.  When every job finds its compressor they agree.     *)
(***************************************************************************)
AllRegistered == \A n \in ChunkId : Serial!RequestedId(n) \in Registered

\* Without a fault and with every compressor there, neither executor fails.
NoneFails ==
  AllRegistered /\ Executing => s_outcome \in {"none", "ok"} /\ ParallelProofs!Healthy

\* Before the executors run there is nothing that could have failed.
LEMMA InitNoneFails == Init => NoneFails
BY DEF Init, NoneFails, Executing

\* With every compressor registered, no step of either executor is an error.
LEMMA NextNoneFails == EInv /\ EInv' /\ NoneFails /\ [Next]_vars => NoneFails'
<1> SUFFICES ASSUME EInv, EInv', NoneFails, [Next]_vars, AllRegistered, Executing'
             PROVE  s_outcome' \in {"none", "ok"} /\ ParallelProofs!Healthy'
    BY DEF NoneFails, AllRegistered, Serial!RequestedId
<1>1. /\ \A n \in SerialProofs!ChunkId : SerialProofs!RequestedId(n) \in Registered
      /\ \A n \in ParallelProofs!ChunkId : ParallelProofs!RequestedId(n) \in Registered
      BY DEF AllRegistered, ChunkId, SerialProofs!ChunkId, ParallelProofs!ChunkId,
         Serial!RequestedId, SerialProofs!RequestedId, ParallelProofs!RequestedId
<1>2. CASE ExecuteGraph
  <2>1. Serial!Init' /\ Parallel!Init'  BY <1>2, ExecuteGraphStarts DEF EInv
  <2>2. s_outcome' = "none"  BY <2>1 DEF Serial!Init
  <2>3. ParallelProofs!Healthy'
        BY <2>1 DEF Parallel!Init, ParallelProofs!Healthy, Parallel!ChunkId,
           ParallelProofs!ChunkId
  <2>. QED  BY <2>2, <2>3
<1>3. CASE RunSerial
  <2>1. Executing /\ Serial!Next /\ UNCHANGED <<graphVars, parallelGraph, parallelOwn>>
        BY <1>3 DEF RunSerial
  <2>2. s_outcome' \in {"none", "ok"}
        BY <1>1, <2>1, InstancesAssume, SerialSteps, SerialProofs!NothingFails
        DEF NoneFails, EInv
  <2>3. ParallelProofs!Healthy'
        BY <2>1 DEF NoneFails, ParallelProofs!Healthy, parallelGraph, parallelOwn,
           ParallelProofs!ChunkId
  <2>. QED  BY <2>2, <2>3
<1>4. CASE RunParallel
  <2>1. Executing /\ Parallel!Next /\ UNCHANGED <<graphVars, serialGraph, serialOwn>>
        BY <1>4 DEF RunParallel, EInv, Fresh
  <2>2. s_outcome' \in {"none", "ok"}  BY <2>1 DEF NoneFails, serialOwn
  <2>3. ParallelProofs!Healthy'
        BY <1>1, <2>1, InstancesAssume, ParallelSteps, ParallelProofs!NothingFails
        DEF NoneFails, EInv
  <2>. QED  BY <2>2, <2>3
<1>5. CASE BuildGraph
  <2>1. FALSE  BY <1>5 DEF BuildGraph, serialGraph, Executing
  <2>. QED  BY <2>1
<1>6. CASE UNCHANGED vars
  <2>1. Executing  BY <1>6 DEF vars, serialGraph, Executing
  <2>. QED  BY <1>6, <2>1 DEF NoneFails, vars, serialOwn, parallelGraph, parallelOwn,
       ParallelProofs!Healthy, ParallelProofs!ChunkId
<1>. QED  BY <1>2, <1>3, <1>4, <1>5, <1>6 DEF Next

\* The two calls measure the same tree.
LEMMA SameMeasure ==
  /\ SerialProofs!total = ParallelProofs!total
  /\ SerialProofs!ChunkId = ChunkId /\ ParallelProofs!ChunkId = ChunkId
  /\ \A n : SerialProofs!ChildSeq(n) = ParallelProofs!ChildSeq(n)
  /\ \A n : SerialProofs!RequestedId(n) = ParallelProofs!RequestedId(n)
<1>1. SerialProofs!ChunkId = ChunkId /\ ParallelProofs!ChunkId = ChunkId
      BY DEF SerialProofs!ChunkId, ParallelProofs!ChunkId, ChunkId
<1>2. \A n : /\ SerialProofs!Children(n) = ParallelProofs!Children(n)
             /\ SerialProofs!Cardinality(SerialProofs!Children(n))
                  = ParallelProofs!Cardinality(ParallelProofs!Children(n))
      BY DEF SerialProofs!Children, ParallelProofs!Children, SerialProofs!ChunkId,
         ParallelProofs!ChunkId, SerialProofs!Cardinality, ParallelProofs!Cardinality,
         SerialProofs!IsFiniteSet, ParallelProofs!IsFiniteSet
<1>3. \A n : /\ SerialProofs!ChildSeq(n) = ParallelProofs!ChildSeq(n)
             /\ SerialProofs!Slots(n) = ParallelProofs!Slots(n)
      BY DEF SerialProofs!Children, ParallelProofs!Children, SerialProofs!ChunkId,
         ParallelProofs!ChunkId, SerialProofs!Cardinality, ParallelProofs!Cardinality,
         SerialProofs!IsFiniteSet, ParallelProofs!IsFiniteSet, SerialProofs!ChildSeq,
         ParallelProofs!ChildSeq, SerialProofs!Slots, ParallelProofs!Slots,
         SerialProofs!ParentSlot, ParallelProofs!ParentSlot
<1>4. \A n : SerialProofs!NodeLength(n) = ParallelProofs!NodeLength(n)
      BY <1>2, <1>3 DEF SerialProofs!NodeLength, ParallelProofs!NodeLength,
         SerialProofs!CHILD_REF_SIZE, ParallelProofs!CHILD_REF_SIZE
<1>5. SerialProofs!total = ParallelProofs!total
  <2>1. [n \in SerialProofs!ChunkId |-> SerialProofs!NodeLength(n)]
          = [n \in ParallelProofs!ChunkId |-> ParallelProofs!NodeLength(n)]
        BY <1>1, <1>4
  <2>2. \A w, f, M : SerialProofs!Sums(w, f, M) = ParallelProofs!Sums(w, f, M)
        BY DEF SerialProofs!Sums, ParallelProofs!Sums
  <2>. QED  BY <1>1, <2>1, <2>2, Zenon DEF SerialProofs!total, ParallelProofs!total
<1>6. \A n : SerialProofs!RequestedId(n) = ParallelProofs!RequestedId(n)
      BY DEF SerialProofs!RequestedId, ParallelProofs!RequestedId
<1>. QED  BY <1>1, <1>3, <1>5, <1>6

\* What both find behind their footers is what the executors' documents say.
LEMMA SameDocuments ==
  Serial!document = SerialProofs!document /\ Parallel!document = ParallelProofs!document
BY DEF Serial!document, SerialProofs!document, Parallel!document, ParallelProofs!document,
   Serial!ChunkAt, SerialProofs!ChunkAt, Parallel!ChunkAt, ParallelProofs!ChunkAt,
   Serial!MyRef, SerialProofs!MyRef, Parallel!MyRef, ParallelProofs!MyRef,
   Serial!NoParent, SerialProofs!NoParent, Parallel!NoParent, ParallelProofs!NoParent

\* "equivalent to write": when every job's compressor is registered, write_sync
\* and write give the same answer and the same file, up to the order of chunks.
THEOREM ExecutorsAgree == Spec => [](AllRegistered => Equivalent)
<1>1. ASSUME EInv, NoneFails, AllRegistered, s_outcome # "none", p_outcome # "none"
      PROVE  /\ s_outcome = "ok" /\ p_outcome = "ok"
             /\ Serial!document = Parallel!document
             /\ Codecs(s_chunk) = Codecs(p_chunk)
             /\ s_end = p_end
  <2>1. Executing  BY <1>1 DEF EInv, Fresh
  <2>2. s_outcome = "ok" /\ p_outcome = "ok"
        BY <1>1, <2>1 DEF NoneFails, ParallelProofs!Healthy
  <2>3. SerialProofs!TreeDelivered /\ ParallelProofs!TreeDelivered
        BY <1>1, <2>1, <2>2, InstancesAssume, SerialProofs!OkDelivers,
           ParallelProofs!OkDelivers DEF EInv
  <2>4. DOMAIN s_chunk = ChunkId /\ DOMAIN p_chunk = ChunkId /\ s_end = p_end
        BY <2>3, SameMeasure DEF SerialProofs!TreeDelivered, ParallelProofs!TreeDelivered
  <2>5. Serial!document = Parallel!document
    <3>1. SerialProofs!document = [n \in ChunkId |-> SerialProofs!ChildSeq(n)]
          BY <2>3, SameMeasure DEF SerialProofs!TreeDelivered
    <3>2. ParallelProofs!document = [n \in ChunkId |-> ParallelProofs!ChildSeq(n)]
          BY <2>3, SameMeasure DEF ParallelProofs!TreeDelivered
    <3>. QED  BY <3>1, <3>2, SameMeasure, SameDocuments
  <2>6. \A n \in ChunkId : s_chunk[n].codec = p_chunk[n].codec
    <3>1. \A n \in ChunkId : s_chunk[n].codec = SerialProofs!SerialCodec(n)
          BY <1>1, <2>1, <2>4 DEF EInv, SerialProofs!IInv, SerialProofs!CodecsTrue
    <3>2. \A n \in ChunkId : p_chunk[n].codec = ParallelProofs!RequestedId(n)
          BY <1>1, <2>1, <2>4 DEF EInv, ParallelProofs!Measured, ParallelProofs!CodecsTrue
    <3>3. \A n \in ChunkId : SerialProofs!SerialCodec(n) = SerialProofs!RequestedId(n)
          BY <1>1 DEF AllRegistered, SerialProofs!SerialCodec, Serial!RequestedId,
             SerialProofs!RequestedId
    <3>. QED  BY <3>1, <3>2, <3>3, SameMeasure
  <2>. QED  BY <2>2, <2>4, <2>5, <2>6 DEF Codecs
<1>2. EInv /\ NoneFails => (AllRegistered => Equivalent)
      BY <1>1 DEF Equivalent
<1>. QED  BY <1>2, AlwaysEInv, InitNoneFails, NextNoneFails, PTL DEF Spec
=============================================================================
