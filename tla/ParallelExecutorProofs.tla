------------------------ MODULE ParallelExecutorProofs ------------------------
(***************************************************************************)
(* Proofs about execute_graph_parallel, for every tree and every size.     *)
(*                                                                         *)
(* The inductive invariant IInv has three layers.  IInv1 says what         *)
(* atomic_deps counts, and with it that a node is spawned once, after its  *)
(* children.  IInv2 says what slots, refs and chunks hold, given that order *)
(* of steps.  IInv3 says what errors, the end of the stream and the answer *)
(* tell about the tasks.  The refinement comes last.                       *)
(***************************************************************************)
EXTENDS ParallelExecutor, ChunkStreamProofs

Pending(p) == {c \in Children(p) : pc[c] # "done"}

InStream == {"written", "registered", "done"}

CountIsPending ==
  \A p \in ChunkId : atomic_deps[p] = Cardinality(Pending(p))

WaitsForSomething ==
  \A p \in ChunkId : pc[p] = "waiting" => Pending(p) # {}

WrittenAreChunks == \A n \in ChunkId : pc[n] \in InStream => n \in DOMAIN chunk

Counting == /\ CountIsPending
            /\ BottomUpOrder
            /\ WaitsForSomething
            /\ pc[Root] # "registered"

IInv1 == TypeOK /\ WrittenAreChunks /\ Counting
-----------------------------------------------------------------------------
\* What a node still waits for is a finite number of its children.
LEMMA PendingFinite ==
  ASSUME NEW p
  PROVE  /\ Pending(p) \subseteq Children(p)
         /\ IsFiniteSet(Pending(p))
         /\ Cardinality(Pending(p)) \in Nat
BY ChildrenFinite, FS_Subset, FS_CardinalityType DEF Pending

\* A step of a task that neither ends it as done nor spawns another leaves the
\* counting alone.
LEMMA QuietStep ==
  ASSUME TypeOK, Counting,
         NEW n \in ChunkId, NEW to, to \notin {"waiting", "done"},
         to = "registered" => n # Root,
         pc[n] \notin {"waiting", "done"},
         pc' = [pc EXCEPT ![n] = to],
         UNCHANGED <<parent, atomic_deps>>
  PROVE  Counting'
<1>1. \A m \in ChunkId : /\ pc'[m] = "done" <=> pc[m] = "done"
                         /\ pc'[m] = "waiting" <=> pc[m] = "waiting"
      BY DEF TypeOK
<1>2. \A p : Children(p)' = Children(p) /\ Children(p) \subseteq ChunkId
      BY DEF Children
<1>3. \A p : Pending(p)' = Pending(p)  BY <1>1, <1>2 DEF Pending
<1>4. CountIsPending'  BY <1>3 DEF CountIsPending, Counting
<1>5. BottomUpOrder'
  <2>1. ASSUME NEW m \in ChunkId \ {Root}, pc'[m] # "done" PROVE pc'[parent[m]] = "waiting"
    <3>1. pc[parent[m]] = "waiting" /\ parent[m] \in ChunkId
          BY <1>1, <2>1, TreeEdge DEF Counting, BottomUpOrder, TypeOK
    <3>. QED  BY <1>1, <3>1
  <2>. QED  BY <2>1 DEF BottomUpOrder
<1>6. WaitsForSomething'  BY <1>1, <1>3 DEF WaitsForSomething, Counting
<1>7. pc'[Root] # "registered"  BY RootIsNode DEF TypeOK, Counting
<1>. QED  BY <1>4, <1>5, <1>6, <1>7 DEF Counting

\* fetch_sub: the count follows the pending children, and reaches 0 in the
\* step that spawns the parent.
LEMMA ReleaseCounting ==
  ASSUME TypeOK, Counting, NEW n \in ChunkId, Release(n)
  PROVE  Counting' /\ atomic_deps' \in [ChunkId -> Nat]
<1> PICK p : p = parent[n]  OBVIOUS
<1>1. pc[n] = "registered" /\ n # Root  BY DEF Release, Counting
<1>2. p \in ChunkId /\ p # n /\ pc[p] = "waiting" /\ n \in Children(p)
  <2>1. p \in ChunkId /\ p < n /\ n \in Nat /\ p \in Nat
        BY <1>1, TreeEdge, NodeCountAssumption DEF TypeOK, ChunkId
  <2>. QED  BY <1>1, <2>1 DEF Counting, BottomUpOrder, Children
<1>3. n \in Pending(p)  BY <1>1, <1>2 DEF Pending
<1>4. /\ pc' = [pc EXCEPT ![n] = "done", ![p] = IF atomic_deps[p] = 1 THEN "spawned" ELSE @]
      /\ atomic_deps' = [atomic_deps EXCEPT ![p] = atomic_deps[p] - 1]
      /\ parent' = parent
      BY DEF Release, SpawnsParent, Dropped
<1>5. pc'[n] = "done" /\ pc'[p] = IF atomic_deps[p] = 1 THEN "spawned" ELSE "waiting"
      BY <1>2, <1>4 DEF TypeOK
<1>6. \A m \in ChunkId \ {n, p} : pc'[m] = pc[m]  BY <1>4 DEF TypeOK
<1>7. \A q : Children(q)' = Children(q) /\ Children(q) \subseteq ChunkId
      BY <1>4 DEF Children
<1>8. Pending(p)' = Pending(p) \ {n}
  <2>1. \A m \in ChunkId : pc'[m] # "done" <=> m # n /\ pc[m] # "done"
        BY <1>2, <1>5, <1>6
  <2>. QED  BY <1>7, <2>1 DEF Pending
<1>9. ASSUME NEW q \in ChunkId \ {p} PROVE Pending(q)' = Pending(q)
  <2>1. n \notin Children(q)  BY DEF Children
  <2>. QED  BY <1>2, <1>5, <1>6, <1>7, <2>1 DEF Pending
<1>10. /\ Cardinality(Pending(p) \ {n}) = Cardinality(Pending(p)) - 1
       /\ Cardinality(Pending(p)) \in Nat \ {0}
  <2>1. Cardinality(Pending(p)) # 0  BY <1>3, PendingFinite, FS_EmptySet
  <2>. QED  BY <1>3, <2>1, PendingFinite, FS_RemoveElement
<1>11. atomic_deps[p] = Cardinality(Pending(p))  BY <1>2 DEF Counting, CountIsPending
<1>12. atomic_deps' \in [ChunkId -> Nat]  BY <1>2, <1>4, <1>10, <1>11 DEF TypeOK
<1>13. CountIsPending'
  <2>1. ASSUME NEW q \in ChunkId PROVE atomic_deps'[q] = Cardinality(Pending(q)')
    <3>1. CASE q = p  BY <1>2, <1>4, <1>8, <1>10, <1>11, <3>1 DEF TypeOK
    <3>2. CASE q # p  BY <1>4, <1>9, <3>2 DEF TypeOK, Counting, CountIsPending
    <3>. QED  BY <3>1, <3>2
  <2>. QED  BY <2>1 DEF CountIsPending
<1>14. BottomUpOrder'
  <2>1. ASSUME NEW m \in ChunkId \ {Root}, pc'[m] # "done" PROVE pc'[parent[m]] = "waiting"
    <3>1. m # n  BY <1>5, <2>1
    <3>2. pc[m] # "done"  BY <1>2, <1>6, <2>1, <3>1
    <3>3. pc[parent[m]] = "waiting" /\ parent[m] \in ChunkId /\ parent[m] # n
          BY <1>1, <2>1, <3>2, TreeEdge DEF Counting, BottomUpOrder, TypeOK
    <3>4. CASE parent[m] = p
      <4>1. m \in Pending(p)  BY <3>2, <3>4 DEF Pending, Children
      <4>2. Cardinality(Pending(p)) # 1
            BY <1>3, <3>1, <4>1, PendingFinite, FS_Singleton
      <4>. QED  BY <1>5, <1>11, <3>4, <4>2
    <3>5. CASE parent[m] # p  BY <1>6, <3>3, <3>5
    <3>. QED  BY <3>4, <3>5
  <2>. QED  BY <1>4, <2>1 DEF BottomUpOrder
<1>15. WaitsForSomething'
  <2>1. ASSUME NEW q \in ChunkId, pc'[q] = "waiting" PROVE Pending(q)' # {}
    <3>1. CASE q = p
      <4>1. Cardinality(Pending(p)) # 1  BY <1>5, <1>11, <2>1, <3>1
      <4>2. Cardinality(Pending(p) \ {n}) # 0  BY <1>10, <4>1
      <4>. QED  BY <1>4, <1>8, <3>1, <4>2, FS_EmptySet
    <3>2. CASE q # p
          BY <1>5, <1>6, <1>9, <2>1, <3>2 DEF Counting, WaitsForSomething
    <3>. QED  BY <3>1, <3>2
  <2>. QED  BY <2>1 DEF WaitsForSomething
<1>16. pc'[Root] # "registered"
      BY <1>5, <1>6, RootIsNode DEF Counting
<1>. QED  BY <1>12, <1>13, <1>14, <1>15, <1>16 DEF Counting

\* The root has no parent to release: finishing it leaves the counts alone.
LEMMA CaptureRootCounting ==
  ASSUME TypeOK, Counting, NEW n \in ChunkId, CaptureRoot(n)
  PROVE  Counting'
<1>1. n = Root /\ pc[n] = "written"
      BY TreeEdge DEF CaptureRoot, IsRoot, Step, TypeOK
<1>2. /\ pc' = [pc EXCEPT ![n] = "done"]
      /\ UNCHANGED <<parent, atomic_deps>>
      BY DEF CaptureRoot, Step, nodeVars
<1>3. pc'[n] = "done" /\ \A m \in ChunkId \ {n} : pc'[m] = pc[m]  BY <1>2 DEF TypeOK
<1>4. ASSUME NEW p \in ChunkId PROVE Pending(p)' = Pending(p)
  <2>1. Children(p)' = Children(p) /\ Children(p) \subseteq ChunkId
        BY <1>2 DEF Children
  <2>2. n \notin Children(p)
        BY <1>1, TreeEdge, NodeCountAssumption DEF Children, TypeOK, ChunkId, NoParent
  <2>. QED  BY <1>3, <2>1, <2>2 DEF Pending
<1>5. CountIsPending'  BY <1>2, <1>4 DEF Counting, CountIsPending
<1>6. BottomUpOrder'
  <2>1. ASSUME NEW m \in ChunkId \ {Root}, pc'[m] # "done" PROVE pc'[parent[m]] = "waiting"
    <3>1. pc[parent[m]] = "waiting" /\ parent[m] \in ChunkId
          BY <1>1, <1>3, <2>1, TreeEdge DEF Counting, BottomUpOrder, TypeOK
    <3>. QED  BY <1>1, <1>3, <3>1
  <2>. QED  BY <1>2, <2>1 DEF BottomUpOrder
<1>7. WaitsForSomething'  BY <1>3, <1>4 DEF Counting, WaitsForSomething
<1>. QED  BY <1>1, <1>3, <1>5, <1>6, <1>7 DEF Counting
-----------------------------------------------------------------------------
\* signal_error records a node and raises a flag.
LEMMA SignalErrorType ==
  ASSUME TypeOK, NEW n \in ChunkId, SignalError(n)
  PROVE  abort_flag' \in BOOLEAN /\ error_capture' \in 0 .. N
<1>1. n \in 0 .. N  BY NodeCountAssumption DEF ChunkId
<1>. QED  BY <1>1 DEF SignalError, TypeOK

\* A task steps from one program point to another.
LEMMA StepType ==
  ASSUME TypeOK, NEW n, NEW from, NEW to,
         to \in {"running", "taken", "encoded", "written", "registered"} \cup Ended,
         Step(n, from, to)
  PROVE  pc' \in [ChunkId -> {"waiting", "spawned", "running", "taken", "encoded",
                              "written", "registered"} \cup Ended]
BY DEF TypeOK, Step

\* A step of process_node keeps every variable of its type.
LEMMA TaskType ==
  ASSUME IInv1, NEW n \in ChunkId, Task(n)
  PROVE  TypeOK'
<1> USE DEF IInv1
<1>1. ASSUME AbortEarly(n) \/ Begin(n) \/ Encode(n) \/ EncodePanic(n)  PROVE TypeOK'
      BY <1>1, StepType DEF AbortEarly, Begin, Encode, EncodePanic, nodeVars, writerVars,
         streamVars, errorVars, TypeOK, StreamTypeOK, Ended
<1>2. ASSUME TakeChildren(n)  PROVE TypeOK'
  <2>1. completed' \in [ChunkId -> Seq(Ref)]
        BY <1>2 DEF TakeChildren, TypeOK
  <2>2. refs' \in [ChunkId -> Seq(Ref)] /\ abort_flag' \in BOOLEAN /\ error_capture' \in 0 .. N
        BY <1>2, SignalErrorType DEF TakeChildren, ChildrenRefs, TypeOK, errorVars
  <2>3. pc' \in [ChunkId -> {"waiting", "spawned", "running", "taken", "encoded",
                              "written", "registered"} \cup Ended]
        BY <1>2, StepType DEF TakeChildren, Ended
  <2>. QED  BY <1>2, <2>1, <2>2, <2>3 DEF TakeChildren, TypeOK, writerVars, streamVars, StreamTypeOK
<1>3. ASSUME EncodeError(n) \/ WritePoisoned(n)  PROVE TypeOK'
      BY <1>3, StepType, SignalErrorType DEF EncodeError, WritePoisoned, nodeVars, writerVars,
         streamVars, TypeOK, StreamTypeOK, Ended
<1>4. ASSUME Write(n)  PROVE TypeOK'
  <2>1. RequestedId(n) \in Nat  BY EncodingAssumption DEF RequestedId
  <2>2. StreamTypeOK'  BY <1>4, <2>1, AppendChunkType DEF Write, TypeOK
  <2>3. pc' \in [ChunkId -> {"waiting", "spawned", "running", "taken", "encoded",
                              "written", "registered"} \cup Ended]
        BY <1>4, StepType DEF Write
  <2>. QED  BY <1>4, <2>2, <2>3 DEF Write, TypeOK, nodeVars, errorVars
<1>5. ASSUME WriteError(n) \/ WritePanic(n)  PROVE TypeOK'
  <2>1. StreamTypeOK'  BY <1>5, TearChunkType DEF WriteError, WritePanic, TypeOK
  <2>2. pc' \in [ChunkId -> {"waiting", "spawned", "running", "taken", "encoded",
                              "written", "registered"} \cup Ended]
        BY <1>5, StepType DEF WriteError, WritePanic, Ended
  <2>. QED  BY <1>5, <2>1, <2>2, SignalErrorType DEF WriteError, WritePanic, TypeOK,
            nodeVars, errorVars
<1>6. ASSUME Register(n)  PROVE TypeOK'
  <2>1. parent[n] \in ChunkId  BY <1>6, TreeEdge DEF Register, IsRoot, TypeOK
  <2>2. n \in DOMAIN chunk
        BY <1>6 DEF Register, Step, WrittenAreChunks, InStream
  <2>3. MyRef(n) \in Ref  BY <2>2, RefType DEF TypeOK
  <2>4. completed' \in [ChunkId -> Seq(Ref)]
    <3> DEFINE slots == completed[parent[n]]
    <3>1. CASE ResultSlot(n) \in DOMAIN slots
      <4>1. slots \in Seq(Ref)  BY <2>1 DEF TypeOK
      <4>2. [slots EXCEPT ![ResultSlot(n)] = MyRef(n)] \in Seq(Ref)  BY <2>3, <3>1, <4>1
      <4>. QED  BY <1>6, <2>1, <3>1, <4>2 DEF Register, TypeOK
    <3>2. CASE ResultSlot(n) \notin DOMAIN slots  BY <1>6, <3>2 DEF Register, TypeOK
    <3>. QED  BY <3>1, <3>2
  <2>5. pc' \in [ChunkId -> {"waiting", "spawned", "running", "taken", "encoded",
                              "written", "registered"} \cup Ended]
        BY <1>6, StepType DEF Register, Ended
  <2>6. abort_flag' \in BOOLEAN /\ error_capture' \in 0 .. N
        BY <1>6, SignalErrorType DEF Register, errorVars, TypeOK
  <2>. QED  BY <1>6, <2>4, <2>5, <2>6 DEF Register, TypeOK, writerVars, streamVars, StreamTypeOK
<1>7. ASSUME Release(n)  PROVE TypeOK'
  <2>1. atomic_deps' \in [ChunkId -> Nat]  BY <1>7, ReleaseCounting
  <2>2. pc' \in [ChunkId -> {"waiting", "spawned", "running", "taken", "encoded",
                              "written", "registered"} \cup Ended]
        BY <1>7 DEF Release, TypeOK, Ended
  <2>. QED  BY <1>7, <2>1, <2>2 DEF Release, TypeOK, writerVars, streamVars, errorVars, StreamTypeOK
<1>8. ASSUME CaptureRoot(n)  PROVE TypeOK'
  <2>1. n \in DOMAIN chunk
        BY <1>8 DEF CaptureRoot, Step, WrittenAreChunks, InStream
  <2>2. root_result' \in Ref  BY <1>8, <2>1, RefType DEF CaptureRoot, RootResult, TypeOK
  <2>3. pc' \in [ChunkId -> {"waiting", "spawned", "running", "taken", "encoded",
                              "written", "registered"} \cup Ended]
        BY <1>8, StepType DEF CaptureRoot, Ended
  <2>. QED  BY <1>8, <2>2, <2>3 DEF CaptureRoot, TypeOK, nodeVars, writerVars, streamVars,
            errorVars, StreamTypeOK
<1>. QED  BY <1>1, <1>2, <1>3, <1>4, <1>5, <1>6, <1>7, <1>8 DEF Task

\* execute_graph_parallel starts with the counts linking left.
LEMMA InitIInv1 == Init => IInv1
<1> SUFFICES ASSUME Init PROVE IInv1  OBVIOUS
<1> USE DEF Init
<1>1. \A n \in ChunkId : Cardinality(Children(n)) \in Nat  BY ChildrenFinite
<1>2. ASSUME NEW n \in ChunkId PROVE [i \in Slots(n) |-> NoRef] \in Seq(Ref)
  <2>1. NoRef \in Ref  BY DEF NoRef, Ref
  <2>. QED  BY <1>1, <2>1 DEF Slots
<1>3. TypeOK
  <2>1. StreamTypeOK  BY DEF StreamTypeOK, StreamInit
  <2>2. root_result \in Ref /\ error_capture \in 0 .. N
        BY NodeCountAssumption DEF NoRef, Ref, NoError
  <2>3. completed \in [ChunkId -> Seq(Ref)]  BY <1>2
  <2>4. refs \in [ChunkId -> Seq(Ref)]  OBVIOUS
  <2>. QED  BY <1>1, <2>1, <2>2, <2>3, <2>4 DEF TypeOK
<1>4. DOMAIN chunk = {}  BY DEF StreamInit
<1>5. WrittenAreChunks  BY <1>4 DEF WrittenAreChunks, InStream
<1>6. \A p : Pending(p) = Children(p)
  <2>1. \A c \in ChunkId : pc[c] # "done"  OBVIOUS
  <2>. QED  BY <2>1 DEF Pending, Children
<1>7. CountIsPending  BY <1>6 DEF CountIsPending
<1>8. BottomUpOrder
  <2>1. ASSUME NEW n \in ChunkId \ {Root} PROVE pc[parent[n]] = "waiting"
    <3>1. parent[n] \in ChunkId  BY TreeEdge
    <3>2. n \in Children(parent[n])  BY DEF Children
    <3>. QED  BY <3>1, <3>2
  <2>. QED  BY <2>1 DEF BottomUpOrder
<1>9. WaitsForSomething  BY <1>6 DEF WaitsForSomething
<1>. QED  BY <1>3, <1>5, <1>7, <1>8, <1>9, RootIsNode DEF IInv1, Counting

\* Every step of process_node keeps the counting.
LEMMA TaskCounting ==
  ASSUME IInv1, NEW n \in ChunkId, Task(n)
  PROVE  Counting' /\ WrittenAreChunks'
<1> USE DEF IInv1
<1>1. CASE Release(n)
  <2>1. Counting'  BY <1>1, ReleaseCounting
  <2>2. pc[n] = "registered" /\ n # Root  BY <1>1 DEF Release, Counting
  <2>3. parent[n] \in ChunkId /\ pc[parent[n]] = "waiting"
        BY <2>2, TreeEdge DEF TypeOK, Counting, BottomUpOrder
  <2>4. \A m \in ChunkId : pc'[m] \in InStream => pc[m] \in InStream
        BY <1>1, <2>2, <2>3 DEF Release, InStream, TypeOK
  <2>. QED  BY <1>1, <2>1, <2>4 DEF Release, WrittenAreChunks, writerVars, streamVars
<1>2. CASE CaptureRoot(n)
  <2>1. Counting'  BY <1>2, CaptureRootCounting
  <2>2. \A m \in ChunkId : pc'[m] \in InStream => pc[m] \in InStream
        BY <1>2 DEF CaptureRoot, Step, InStream, TypeOK
  <2>. QED  BY <1>2, <2>1, <2>2 DEF CaptureRoot, WrittenAreChunks, writerVars, streamVars
<1>3. CASE Write(n)
  <2>1. Counting'  BY <1>3, QuietStep DEF Write, Step, nodeVars
  <2>2. RequestedId(n) \in Nat  BY EncodingAssumption DEF RequestedId
  <2>3. DOMAIN chunk' = DOMAIN chunk \cup {n}
        BY <1>3, <2>2, AppendChunkType DEF Write, TypeOK
  <2>4. \A m \in ChunkId : pc'[m] \in InStream => pc[m] \in InStream \/ m = n
        BY <1>3 DEF Write, Step, InStream, TypeOK
  <2>. QED  BY <2>1, <2>3, <2>4 DEF WrittenAreChunks
<1>4. CASE Register(n)
  <2>1. n # Root  BY <1>4, TreeEdge DEF Register, IsRoot, TypeOK
  <2>2. Counting'  BY <1>4, <2>1, QuietStep DEF Register, Step
  <2>3. \A m \in ChunkId : pc'[m] \in InStream => pc[m] \in InStream
        BY <1>4 DEF Register, Step, InStream, TypeOK
  <2>. QED  BY <1>4, <2>2, <2>3 DEF Register, WrittenAreChunks, writerVars, streamVars
<1>5. CASE WriteError(n) \/ WritePanic(n)
  <2>1. Counting'  BY <1>5, QuietStep DEF WriteError, WritePanic, Step, nodeVars
  <2>2. \A m \in ChunkId : pc'[m] \in InStream => pc[m] \in InStream
        BY <1>5 DEF WriteError, WritePanic, Step, InStream, TypeOK
  <2>. QED  BY <1>5, <2>1, <2>2 DEF WriteError, WritePanic, TearChunk, WrittenAreChunks
<1>6. CASE \/ AbortEarly(n) \/ Begin(n) \/ TakeChildren(n) \/ Encode(n)
           \/ EncodeError(n) \/ EncodePanic(n) \/ WritePoisoned(n)
  <2> USE DEF AbortEarly, Begin, TakeChildren, Encode, EncodeError, EncodePanic, WritePoisoned
  <2>1. Counting'  BY <1>6, QuietStep DEF Step, nodeVars
  <2>2. \A m \in ChunkId : pc'[m] \in InStream => pc[m] \in InStream
        BY <1>6 DEF Step, InStream, TypeOK
  <2>3. chunk' = chunk  BY <1>6 DEF writerVars, streamVars
  <2>. QED  BY <2>1, <2>2, <2>3 DEF WrittenAreChunks
<1>. QED  BY <1>1, <1>2, <1>3, <1>4, <1>5, <1>6 DEF Task

\* A step that leaves the nodes and the stream alone: the join, a stutter.
LEMMA IdleIInv1 ==
  ASSUME IInv1, UNCHANGED <<parent, pc, nodeVars, refs, writerVars, errorVars, root_result>>,
         outcome' \in {"none", "ok", "err", "panic", "incomplete"}
  PROVE  IInv1'
<1>1. \A p : Pending(p)' = Pending(p)  BY DEF Pending, Children
<1>. QED  BY <1>1 DEF IInv1, TypeOK, StreamTypeOK, WrittenAreChunks, Counting, CountIsPending,
          BottomUpOrder, WaitsForSomething, nodeVars, writerVars, streamVars, errorVars

\* So does every step of the executor.
LEMMA NextIInv1 == IInv1 /\ [Next]_vars => IInv1'
<1> SUFFICES ASSUME IInv1, [Next]_vars PROVE IInv1'  OBVIOUS
<1>1. CASE Join  BY <1>1, IdleIInv1 DEF Join
<1>2. CASE UNCHANGED vars  BY <1>2, IdleIInv1 DEF vars, nodeVars, writerVars, errorVars, IInv1, TypeOK
<1>3. ASSUME NEW n \in ChunkId, Task(n) PROVE IInv1'
      BY <1>3, TaskType, TaskCounting DEF IInv1
<1>. QED  BY <1>1, <1>2, <1>3 DEF Next, Returned

\* The first layer holds in every reachable state.
LEMMA AlwaysIInv1 == Spec => []IInv1
BY InitIInv1, NextIInv1, PTL DEF Spec

\* Every reachable state is of its type.
THEOREM TypeCorrect == Spec => []TypeOK
<1>1. IInv1 => TypeOK  BY DEF IInv1
<1>. QED  BY <1>1, AlwaysIInv1, PTL

\* A node's task exists only once all its children are done.
THEOREM SpawnedBottomUp == Spec => []BottomUpOrder
<1>1. IInv1 => BottomUpOrder  BY DEF IInv1, Counting
<1>. QED  BY <1>1, AlwaysIInv1, PTL
-----------------------------------------------------------------------------
(***************************************************************************)
(* The second layer: what the slots, the refs and the chunks hold.         *)
(***************************************************************************)
Stored == {"registered", "done"}
Untaken == {"waiting", "spawned", "running"}

\* Until a node takes its slots, each holds the ref of a child that stored
\* it, or nothing.
SlotsHoldRefs ==
  \A p \in ChunkId : pc[p] \in Untaken =>
    /\ Len(completed[p]) = Cardinality(Children(p))
    /\ \A c \in Children(p) :
         completed[p][ParentSlot(c)] = IF pc[c] \in Stored THEN MyRef(c) ELSE NoRef

TakenInOrder ==
  \A p \in ChunkId : pc[p] \in {"taken", "encoded"} => refs[p] = LinkOrder(p)

ChunksAreWritten == \A n \in DOMAIN chunk : pc[n] \in InStream

IInv2 == /\ SlotsHoldRefs
         /\ TakenInOrder
         /\ ChunksAreWritten
         /\ FooterInLinkOrder
         /\ ExtentsBelowOffset
         /\ RefsDisjoint
-----------------------------------------------------------------------------
\* A node whose task exists finds its children done and written.
LEMMA AllChildrenDone ==
  ASSUME IInv1, NEW p \in ChunkId, pc[p] # "waiting", NEW c \in Children(p)
  PROVE  pc[c] = "done" /\ c \in DOMAIN chunk /\ c \in ChunkId \ {Root}
<1>1. c \in ChunkId /\ parent[c] = p  BY DEF Children
<1>2. c # Root  BY <1>1, TreeEdge DEF IInv1, TypeOK, NoParent
<1>. QED  BY <1>1, <1>2 DEF IInv1, Counting, BottomUpOrder, WrittenAreChunks, InStream

\* A started task finds its slots filled, in link order.
LEMMA SlotsFull ==
  ASSUME IInv1, IInv2, NEW n \in ChunkId, pc[n] = "running"
  PROVE  completed[n] = LinkOrder(n) /\ ~MissingChild(n)
<1>1. /\ Len(completed[n]) = Cardinality(Children(n))
      /\ \A c \in Children(n) :
           completed[n][ParentSlot(c)] = IF pc[c] \in Stored THEN MyRef(c) ELSE NoRef
      BY DEF IInv2, SlotsHoldRefs, Untaken
<1>2. completed[n] \in Seq(Ref)  BY DEF IInv1, TypeOK
<1>3. DOMAIN completed[n] = Slots(n)  BY <1>1, <1>2 DEF Slots
<1>4. ASSUME NEW i \in Slots(n)
      PROVE  completed[n][i] = MyRef(ChildSeq(n)[i]) /\ completed[n][i] # NoRef
  <2> DEFINE c == ChildSeq(n)[i]
  <2>1. c \in Children(n) /\ ParentSlot(c) = i  BY ChildSeqAtSlot
  <2> HIDE DEF c
  <2>2. pc[c] = "done" /\ c \in DOMAIN chunk  BY <2>1, AllChildrenDone
  <2>3. completed[n][i] = MyRef(c)  BY <1>1, <2>1, <2>2 DEF Stored
  <2>4. MyRef(c) # NoRef  BY <2>2, RefType DEF IInv1, TypeOK
  <2>. QED  BY <2>3, <2>4 DEF c
<1>5. completed[n] = LinkOrder(n)  BY <1>2, <1>3, <1>4 DEF LinkOrder
<1>. QED  BY <1>3, <1>4, <1>5 DEF MissingChild

\* A finished child finds its slot in a parent that has not started.
LEMMA SlotIsThere ==
  ASSUME IInv1, IInv2, NEW n \in ChunkId \ {Root}, pc[n] = "written"
  PROVE  ParentSlot(n) \in DOMAIN completed[parent[n]]
<1>1. parent[n] \in ChunkId /\ pc[parent[n]] = "waiting"
      BY TreeEdge DEF IInv1, TypeOK, Counting, BottomUpOrder
<1>2. Len(completed[parent[n]]) = Cardinality(Children(parent[n]))
      BY <1>1 DEF IInv2, SlotsHoldRefs, Untaken
<1>3. completed[parent[n]] \in Seq(Ref)  BY <1>1 DEF IInv1, TypeOK
<1>4. n \in Children(parent[n])  BY DEF Children
<1>5. ParentSlot(n) \in Slots(parent[n])  BY <1>4, ParentSlotInRange
<1>. QED  BY <1>2, <1>3, <1>5 DEF Slots

\* A chunk, once written, stays as it is.
LEMMA ChunksStay ==
  ASSUME IInv1, IInv2, NEW n \in ChunkId, Task(n)
  PROVE  \A c \in DOMAIN chunk :
           /\ c \in DOMAIN chunk' /\ chunk'[c] = chunk[c]
           /\ MyRef(c)' = MyRef(c)
<1>1. CASE Write(n)
  <2>1. n \notin DOMAIN chunk
        BY <1>1 DEF Write, Step, IInv2, ChunksAreWritten, InStream
  <2>. QED  BY <1>1, <2>1 DEF Write, AppendChunk, MyRef
<1>2. CASE ~Write(n)
  <2>1. chunk' = chunk
        BY <1>2 DEF Task, AbortEarly, Begin, TakeChildren, Encode, EncodeError, EncodePanic,
           WriteError, WritePanic, WritePoisoned, TearChunk, Register, Release, CaptureRoot,
           writerVars, streamVars
  <2>. QED  BY <2>1 DEF MyRef
<1>. QED  BY <1>1, <1>2

\* A step that stores no ref and takes no slots.
LEMMA SlotsKept ==
  ASSUME IInv1, IInv2, UNCHANGED <<parent, completed>>,
         \A c \in DOMAIN chunk : MyRef(c)' = MyRef(c),
         \A m \in ChunkId : /\ pc'[m] \in Stored <=> pc[m] \in Stored
                            /\ pc'[m] \in Untaken => pc[m] \in Untaken
  PROVE  SlotsHoldRefs'
<1>1. \A p : Children(p)' = Children(p) /\ Children(p) \subseteq ChunkId
      BY DEF Children
<1>2. \A c \in ChunkId : ParentSlot(c)' = ParentSlot(c)  BY <1>1 DEF ParentSlot, Children
<1>3. \A c \in ChunkId : pc[c] \in Stored => MyRef(c)' = MyRef(c)
      BY DEF IInv1, WrittenAreChunks, InStream, Stored
<1>4. ASSUME NEW p \in ChunkId, pc'[p] \in Untaken
      PROVE  /\ Len(completed[p]) = Cardinality(Children(p))
             /\ \A c \in Children(p) :
                  completed[p][ParentSlot(c)] = IF pc[c] \in Stored THEN MyRef(c) ELSE NoRef
      BY <1>4 DEF IInv2, SlotsHoldRefs
<1>. QED  BY <1>1, <1>2, <1>3, <1>4 DEF SlotsHoldRefs, NoRef

\* register_child_result and mem::take are the only steps that touch slots.
LEMMA TaskSlots ==
  ASSUME IInv1, IInv2, NEW n \in ChunkId, Task(n)
  PROVE  SlotsHoldRefs'
<1> USE DEF IInv1
<1>1. \A c \in DOMAIN chunk : MyRef(c)' = MyRef(c)  BY ChunksStay
<1>2. CASE TakeChildren(n)
  <2>1. pc'[n] \notin Untaken /\ \A m \in ChunkId \ {n} : pc'[m] = pc[m]
        BY <1>2 DEF TakeChildren, Step, TypeOK, Untaken
  <2>2. \A m \in ChunkId \ {n} : completed'[m] = completed[m]
        BY <1>2 DEF TakeChildren, TypeOK
  <2>3. UNCHANGED <<parent, chunk>> /\ pc[n] \notin Stored /\ pc'[n] \notin Stored
        BY <1>2 DEF TakeChildren, Step, TypeOK, writerVars, streamVars, Stored
  <2>4. \A m \in ChunkId : pc'[m] \in Stored <=> pc[m] \in Stored  BY <2>1, <2>3
  <2>5. \A p : Children(p)' = Children(p) /\ Children(p) \subseteq ChunkId
        BY <2>3 DEF Children
  <2>6. \A c \in ChunkId : ParentSlot(c)' = ParentSlot(c) /\ MyRef(c)' = MyRef(c)
        BY <2>3, <2>5 DEF ParentSlot, Children, MyRef
  <2>7. ASSUME NEW p \in ChunkId, pc'[p] \in Untaken
        PROVE  /\ p # n /\ completed'[p] = completed[p]
               /\ Len(completed[p]) = Cardinality(Children(p))
               /\ \A c \in Children(p) :
                    completed[p][ParentSlot(c)] = IF pc[c] \in Stored THEN MyRef(c) ELSE NoRef
        BY <2>1, <2>2, <2>7 DEF IInv2, SlotsHoldRefs
  <2>. QED  BY <2>4, <2>5, <2>6, <2>7 DEF SlotsHoldRefs, NoRef
<1>3. CASE Register(n)
  <2> PICK p : p = parent[n]  OBVIOUS
  <2>1. n # Root /\ pc[n] = "written"
        BY <1>3, TreeEdge DEF Register, IsRoot, Step, TypeOK
  <2>2. p \in ChunkId /\ n \in Children(p) /\ pc[p] = "waiting"
        BY <2>1, TreeEdge DEF TypeOK, Children, Counting, BottomUpOrder
  <2>3. ParentSlot(n) \in DOMAIN completed[p]  BY <2>1, SlotIsThere
  <2>4. /\ completed' = [completed EXCEPT ![p][ParentSlot(n)] = MyRef(n)]
        /\ pc' = [pc EXCEPT ![n] = "registered"]
        /\ UNCHANGED <<parent, chunk>>
        BY <1>3, <2>3 DEF Register, Step, ResultSlot, writerVars, streamVars
  <2>5. \A q : Children(q)' = Children(q) /\ Children(q) \subseteq ChunkId
        BY <2>4 DEF Children
  <2>6. \A c \in ChunkId : ParentSlot(c)' = ParentSlot(c) /\ MyRef(c)' = MyRef(c)
        BY <2>4, <2>5 DEF ParentSlot, Children, MyRef
  <2>7. \A m \in ChunkId : /\ m # n => pc'[m] = pc[m]
                           /\ pc'[n] \in Stored
                           /\ pc'[m] \in Untaken => pc[m] \in Untaken
        BY <2>4 DEF TypeOK, Stored, Untaken
  <2>8. ASSUME NEW q \in ChunkId, pc'[q] \in Untaken
        PROVE  /\ Len(completed'[q]) = Cardinality(Children(q))
               /\ \A c \in Children(q) :
                    completed'[q][ParentSlot(c)] = IF pc'[c] \in Stored THEN MyRef(c) ELSE NoRef
    <3>1. /\ Len(completed[q]) = Cardinality(Children(q))
          /\ \A c \in Children(q) :
               completed[q][ParentSlot(c)] = IF pc[c] \in Stored THEN MyRef(c) ELSE NoRef
          BY <2>7, <2>8 DEF IInv2, SlotsHoldRefs
    <3>2. CASE q # p
      <4>1. n \notin Children(q)  BY <3>2 DEF Children
      <4>2. completed'[q] = completed[q]  BY <2>4, <3>2 DEF TypeOK
      <4>. QED  BY <2>5, <2>7, <3>1, <4>1, <4>2
    <3>3. CASE q = p
      <4>1. completed[p] \in Seq(Ref)  BY <2>2 DEF TypeOK
      <4>2. completed'[p] = [completed[p] EXCEPT ![ParentSlot(n)] = MyRef(n)]
            BY <2>2, <2>4 DEF TypeOK
      <4>3. Len(completed'[p]) = Len(completed[p])  BY <4>1, <4>2
      <4>4. ASSUME NEW c \in Children(p)
            PROVE  completed'[p][ParentSlot(c)] = IF pc'[c] \in Stored THEN MyRef(c) ELSE NoRef
        <5>1. CASE c = n  BY <2>3, <2>7, <4>2, <5>1, <2>2
        <5>2. CASE c # n
          <6>1. ParentSlot(c) # ParentSlot(n)  BY <2>2, <5>2, ParentSlotInjective
          <6>2. ParentSlot(c) \in DOMAIN completed[p]
                BY <3>1, <3>3, <4>1, ParentSlotInRange DEF Slots
          <6>3. c \in ChunkId  BY <2>5
          <6>. QED  BY <2>7, <3>1, <3>3, <4>2, <5>2, <6>1, <6>2, <6>3
        <5>. QED  BY <5>1, <5>2
      <4>. QED  BY <3>1, <3>3, <4>3, <4>4
    <3>. QED  BY <3>2, <3>3
  <2>. QED  BY <2>5, <2>6, <2>8 DEF SlotsHoldRefs, NoRef
<1>4. CASE Release(n)
  <2>1. pc[n] = "registered" /\ n # Root  BY <1>4 DEF Release, Counting
  <2>2. parent[n] \in ChunkId /\ pc[parent[n]] = "waiting"
        BY <2>1, TreeEdge DEF TypeOK, Counting, BottomUpOrder
  <2>3. \A m \in ChunkId : /\ pc'[m] \in Stored <=> pc[m] \in Stored
                           /\ pc'[m] \in Untaken => pc[m] \in Untaken
        BY <1>4, <2>1, <2>2 DEF Release, TypeOK, Stored, Untaken
  <2>. QED  BY <1>1, <1>4, <2>3, SlotsKept DEF Release
<1>5. CASE CaptureRoot(n)
  <2>1. n = Root /\ pc' = [pc EXCEPT ![n] = "done"] /\ UNCHANGED <<parent, completed, chunk>>
        BY <1>5, TreeEdge DEF CaptureRoot, IsRoot, Step, TypeOK, nodeVars, writerVars, streamVars
  <2>2. \A p \in ChunkId : Root \notin Children(p)
        BY TreeEdge, NodeCountAssumption DEF Children, TypeOK, NoParent, ChunkId
  <2>3. \A p : Children(p)' = Children(p) /\ Children(p) \subseteq ChunkId
        BY <2>1 DEF Children
  <2>4. \A c \in ChunkId : ParentSlot(c)' = ParentSlot(c) /\ MyRef(c)' = MyRef(c)
        BY <2>1, <2>3 DEF ParentSlot, Children, MyRef
  <2>5. \A m \in ChunkId : /\ m # Root => pc'[m] = pc[m]
                           /\ pc'[m] \in Untaken => pc[m] \in Untaken
        BY <2>1 DEF TypeOK, Untaken
  <2>6. ASSUME NEW p \in ChunkId, pc'[p] \in Untaken
        PROVE  /\ Len(completed[p]) = Cardinality(Children(p))
               /\ \A c \in Children(p) :
                    completed[p][ParentSlot(c)] = IF pc'[c] \in Stored THEN MyRef(c) ELSE NoRef
        BY <2>2, <2>3, <2>5, <2>6 DEF IInv2, SlotsHoldRefs
  <2>. QED  BY <2>1, <2>3, <2>4, <2>6 DEF SlotsHoldRefs, NoRef
<1>6. CASE \/ AbortEarly(n) \/ Begin(n) \/ Encode(n) \/ EncodeError(n) \/ EncodePanic(n)
           \/ Write(n) \/ WriteError(n) \/ WritePanic(n) \/ WritePoisoned(n)
  <2> USE DEF AbortEarly, Begin, Encode, EncodeError, EncodePanic, Write, WriteError,
              WritePanic, WritePoisoned
  <2>1. \A m \in ChunkId : /\ pc'[m] \in Stored <=> pc[m] \in Stored
                           /\ pc'[m] \in Untaken => pc[m] \in Untaken
        BY <1>6 DEF Step, TypeOK, Stored, Untaken
  <2>2. UNCHANGED <<parent, completed>>  BY <1>6 DEF nodeVars
  <2>. QED  BY <1>1, <2>1, <2>2, SlotsKept
<1>. QED  BY <1>2, <1>3, <1>4, <1>5, <1>6 DEF Task

\* The list of refs of a node whose task has begun never changes again.
LEMMA LinkOrderStays ==
  ASSUME IInv1, IInv2, NEW n \in ChunkId, Task(n),
         NEW p \in ChunkId, \A c \in Children(p) : c \in DOMAIN chunk
  PROVE  LinkOrder(p)' = LinkOrder(p)
<1>1. parent' = parent
      BY DEF Task, AbortEarly, Begin, TakeChildren, Encode, EncodeError, EncodePanic, Write,
         WriteError, WritePanic, WritePoisoned, Register, Release, CaptureRoot
<1>2. Slots(p)' = Slots(p) /\ ChildSeq(p)' = ChildSeq(p)
      BY <1>1 DEF Slots, ChildSeq, Children, ParentSlot
<1>3. ASSUME NEW i \in Slots(p) PROVE MyRef(ChildSeq(p)[i])' = MyRef(ChildSeq(p)[i])
  <2>1. ChildSeq(p)[i] \in DOMAIN chunk  BY ChildSeqAtSlot
  <2>2. /\ chunk'[ChildSeq(p)[i]] = chunk[ChildSeq(p)[i]]
        BY <2>1, ChunksStay
  <2>. QED  BY <1>2, <2>2 DEF MyRef
<1>. QED  BY <1>2, <1>3 DEF LinkOrder

\* process_node keeps the refs it took.
LEMMA TaskTaken ==
  ASSUME IInv1, IInv2, NEW n \in ChunkId, Task(n)
  PROVE  TakenInOrder'
<1> USE DEF IInv1
<1> SUFFICES ASSUME NEW p \in ChunkId, pc'[p] \in {"taken", "encoded"}
             PROVE  refs'[p] = LinkOrder(p)'
    BY DEF TakenInOrder
<1>1. CASE TakeChildren(n) /\ p = n
  <2>1. pc[n] = "running"  BY <1>1 DEF TakeChildren, Step
  <2>2. completed[n] = LinkOrder(n) /\ ~MissingChild(n)  BY <2>1, SlotsFull
  <2>3. refs'[n] = completed[n]
        BY <1>1, <2>2 DEF TakeChildren, ChildrenRefs, TypeOK
  <2>4. \A c \in Children(n) : c \in DOMAIN chunk  BY <2>1, AllChildrenDone
  <2>. QED  BY <1>1, <2>2, <2>3, <2>4, LinkOrderStays
<1>2. CASE ~(TakeChildren(n) /\ p = n)
  <2>1. pc[p] \in {"taken", "encoded"} /\ refs'[p] = refs[p]
        BY <1>2 DEF Task, AbortEarly, Begin, TakeChildren, Encode, EncodeError, EncodePanic,
           Write, WriteError, WritePanic, WritePoisoned, Register, Release, CaptureRoot,
           Step, TypeOK
  <2>2. \A c \in Children(p) : c \in DOMAIN chunk  BY <2>1, AllChildrenDone
  <2>. QED  BY <2>1, <2>2, LinkOrderStays DEF IInv2, TakenInOrder
<1>. QED  BY <1>1, <1>2

\* A task that wrote its chunk never fails afterwards.
LEMMA TaskChunks ==
  ASSUME IInv1, IInv2, NEW n \in ChunkId, Task(n)
  PROVE  ChunksAreWritten'
<1> USE DEF IInv1
<1> SUFFICES ASSUME NEW c \in DOMAIN chunk' PROVE pc'[c] \in InStream
    BY DEF ChunksAreWritten
<1>1. CASE Write(n)
  <2>1. RequestedId(n) \in Nat  BY EncodingAssumption DEF RequestedId
  <2>2. c \in DOMAIN chunk \cup {n}  BY <1>1, <2>1, AppendChunkType DEF Write, TypeOK
  <2>. QED  BY <1>1, <2>2 DEF Write, Step, IInv2, ChunksAreWritten, InStream, TypeOK, StreamTypeOK
<1>2. CASE ~Write(n)
  <2>1. c \in DOMAIN chunk
        BY <1>2 DEF Task, AbortEarly, Begin, TakeChildren, Encode, EncodeError, EncodePanic,
           WriteError, WritePanic, WritePoisoned, TearChunk, Register, Release, CaptureRoot,
           writerVars, streamVars
  <2>2. pc[c] \in InStream /\ c \in ChunkId
        BY <2>1 DEF IInv2, ChunksAreWritten, TypeOK, StreamTypeOK
  <2>3. CASE Register(n)
    <3>1. n # Root /\ pc[n] = "written"
          BY <2>3, TreeEdge DEF Register, IsRoot, Step, TypeOK
    <3>2. pc' = [pc EXCEPT ![n] = "registered"]
          BY <2>3, <3>1, SlotIsThere DEF Register, ResultSlot, Step
    <3>. QED  BY <2>2, <3>2 DEF TypeOK, InStream
  <2>4. CASE Release(n)
    <3>1. n # Root /\ pc[n] = "registered"  BY <2>4 DEF Release, Counting
    <3>2. pc[parent[n]] = "waiting"  BY <3>1 DEF Counting, BottomUpOrder
    <3>. QED  BY <2>2, <2>4, <3>1, <3>2 DEF Release, TypeOK, InStream
  <2>5. CASE ~Register(n) /\ ~Release(n)
        BY <1>2, <2>2, <2>5 DEF Task, AbortEarly, Begin, TakeChildren, Encode, EncodeError,
           EncodePanic, WriteError, WritePanic, WritePoisoned, CaptureRoot, Step, TypeOK, InStream
  <2>. QED  BY <2>3, <2>4, <2>5
<1>. QED  BY <1>1, <1>2

\* Appending a chunk keeps the extents handed out in order, apart, and the
\* footer of the new chunk in link order.
LEMMA TaskExtents ==
  ASSUME IInv1, IInv2, NEW n \in ChunkId, Task(n)
  PROVE  ExtentsBelowOffset' /\ RefsDisjoint' /\ FooterInLinkOrder'
<1> USE DEF IInv1
<1>1. parent' = parent
      BY DEF Task, AbortEarly, Begin, TakeChildren, Encode, EncodeError, EncodePanic, Write,
         WriteError, WritePanic, WritePoisoned, Register, Release, CaptureRoot
<1>2. ExtentsBelowOffset /\ ExtentsApart /\ FootersLinked
      BY DEF IInv2, RefsDisjoint, ExtentsApart, FooterInLinkOrder, FootersLinked, LinkOrder
<1>3. CASE Write(n)
  <2>1. n \notin DOMAIN chunk /\ pc[n] = "encoded"
        BY <1>3 DEF Write, Step, IInv2, ChunksAreWritten, InStream
  <2>2. Children(n) \subseteq DOMAIN chunk  BY <2>1, AllChildrenDone
  <2>3. refs[n] = LinkOrder(n) /\ LinkOrder(n) \in Seq(Ref)
        BY <2>1 DEF IInv2, TakenInOrder, TypeOK
  <2>4. AppendChunk(n, LinkOrder(n), RequestedId(n)) /\ RequestedId(n) \in Nat
        BY <1>3, <2>3, RequestedIdType DEF Write
  <2>5. StreamTypeOK  BY DEF TypeOK
  <2>6. ExtentsBelowOffset' /\ ExtentsApart'  BY <1>2, <2>1, <2>3, <2>4, <2>5, AppendedExtents
  <2>7. FootersLinked'  BY <1>1, <1>2, <2>1, <2>2, <2>4, <2>5, AppendedFooter
  <2>. QED  BY <2>6, <2>7 DEF RefsDisjoint, ExtentsApart, FooterInLinkOrder, FootersLinked,
            LinkOrder
<1>4. CASE ~Write(n)
  <2>1. chunk' = chunk /\ current_offset' = current_offset
        BY <1>4 DEF Task, AbortEarly, Begin, TakeChildren, Encode, EncodeError, EncodePanic,
           WriteError, WritePanic, WritePoisoned, TearChunk, Register, Release, CaptureRoot,
           writerVars, streamVars
  <2>2. \A m \in DOMAIN chunk : LinkOrder(m)' = LinkOrder(m) /\ Children(m)' = Children(m)
        BY <1>1, <1>2, <2>1, LinkOrderFixed DEF FootersLinked, Children
  <2>3. FooterInLinkOrder'
        BY <1>2, <2>1, <2>2 DEF FootersLinked, FooterInLinkOrder, LinkOrder
  <2>. QED  BY <1>2, <2>1, <2>3 DEF IInv2, ExtentsBelowOffset, RefsDisjoint
<1>. QED  BY <1>3, <1>4

\* The slots start empty and nothing is written.
LEMMA InitIInv2 == Init => IInv2
<1> SUFFICES ASSUME Init PROVE IInv2  OBVIOUS
<1>1. DOMAIN chunk = {}  BY DEF Init, StreamInit
<1>2. ASSUME NEW p \in ChunkId, NEW c \in Children(p)
      PROVE  /\ completed[p][ParentSlot(c)] = NoRef
             /\ pc[c] \notin Stored
  <2>1. ParentSlot(c) \in Slots(p) /\ c \in ChunkId  BY ParentSlotInRange DEF Children
  <2>. QED  BY <2>1 DEF Init, Stored
<1>3. ASSUME NEW p \in ChunkId PROVE Len(completed[p]) = Cardinality(Children(p))
  <2>1. completed[p] = [i \in 1 .. Cardinality(Children(p)) |-> NoRef]  BY DEF Init, Slots
  <2>. QED  BY <2>1, ChildrenFinite
<1>4. SlotsHoldRefs  BY <1>2, <1>3 DEF SlotsHoldRefs
<1>5. TakenInOrder  BY DEF TakenInOrder, Init
<1>. QED  BY <1>1, <1>4, <1>5 DEF IInv2, ChunksAreWritten, FooterInLinkOrder,
          ExtentsBelowOffset, RefsDisjoint

\* Every step of the executor keeps the second layer.
LEMMA NextIInv2 == IInv1 /\ IInv2 /\ [Next]_vars => IInv2'
<1> SUFFICES ASSUME IInv1, IInv2, [Next]_vars PROVE IInv2'  OBVIOUS
<1>1. CASE UNCHANGED <<parent, pc, completed, refs, chunk, current_offset>>
  <2>1. \A p : Children(p)' = Children(p) /\ Slots(p)' = Slots(p) /\ ChildSeq(p)' = ChildSeq(p)
        BY <1>1 DEF Children, Slots, ChildSeq, ParentSlot
  <2>2. \A c : ParentSlot(c)' = ParentSlot(c) /\ MyRef(c)' = MyRef(c)
        BY <1>1 DEF ParentSlot, Children, MyRef
  <2>3. SlotsHoldRefs'  BY <1>1, <2>1, <2>2 DEF IInv2, SlotsHoldRefs, NoRef
  <2>4. \A p : LinkOrder(p)' = LinkOrder(p)  BY <1>1, <2>1 DEF LinkOrder, MyRef
  <2>5. TakenInOrder'  BY <1>1, <2>4 DEF IInv2, TakenInOrder
  <2>6. FooterInLinkOrder'
        BY <1>1, <2>1, <2>4 DEF IInv2, FooterInLinkOrder, LinkOrder
  <2>. QED  BY <1>1, <2>3, <2>5, <2>6 DEF IInv2, ChunksAreWritten, ExtentsBelowOffset, RefsDisjoint
<1>2. CASE Join \/ UNCHANGED vars
      BY <1>1, <1>2 DEF Join, vars, nodeVars, writerVars, streamVars
<1>3. ASSUME NEW n \in ChunkId, Task(n) PROVE IInv2'
      BY <1>3, TaskSlots, TaskTaken, TaskChunks, TaskExtents DEF IInv2
<1>. QED  BY <1>2, <1>3 DEF Next, Returned

\* The second layer holds in every reachable state.
LEMMA AlwaysIInv2 == Spec => [](IInv1 /\ IInv2)
<1>1. IInv1 /\ IInv2 /\ [Next]_vars => IInv1' /\ IInv2'  BY NextIInv1, NextIInv2
<1>. QED  BY <1>1, InitIInv1, InitIInv2, PTL DEF Spec

\* "Missing child result" and "Slot out of bounds" cannot occur.
THEOREM NoInternalErrors == Spec => []NoInternalError
<1>1. ASSUME IInv1, IInv2, NEW n \in ChunkId
      PROVE  /\ pc[n] = "running" => /\ ~MissingChild(n)
                                     /\ Len(completed[n]) = Cardinality(Children(n))
             /\ pc[n] = "written" /\ n # Root => ParentSlot(n) \in DOMAIN completed[parent[n]]
      BY <1>1, SlotsFull, SlotIsThere DEF IInv2, SlotsHoldRefs, Untaken
<1>2. IInv1 /\ IInv2 => NoInternalError  BY <1>1 DEF NoInternalError
<1>. QED  BY <1>2, AlwaysIInv2, PTL

\* Every footer lists the chunks of the node's children in link order.
THEOREM FootersInLinkOrder == Spec => []FooterInLinkOrder
<1>1. IInv2 => FooterInLinkOrder  BY DEF IInv2
<1>. QED  BY <1>1, AlwaysIInv2, PTL

\* No two refs overlap, whatever writes failed.
THEOREM ExtentsDisjoint == Spec => []RefsDisjoint
<1>1. IInv2 => RefsDisjoint  BY DEF IInv2
<1>. QED  BY <1>1, AlwaysIInv2, PTL
-----------------------------------------------------------------------------
(***************************************************************************)
(* The third layer: errors, the end of the stream, and the answer.         *)
(***************************************************************************)
Faulty == {"failed", "panicked"}

ErrorsRecorded ==
  /\ abort_flag <=> error_capture # NoError
  /\ abort_flag => error_capture \in ChunkId /\ pc[error_capture] = "failed"
  /\ \A n \in ChunkId : pc[n] \in {"failed", "aborted"} => abort_flag
  /\ poisoned => \E n \in ChunkId : pc[n] = "panicked"

RootRecorded == root_result = IF pc[Root] = "done" THEN MyRef(Root) ELSE NoRef

StreamTrue ==
  (\A n \in ChunkId : pc[n] \notin Faulty) =>
    /\ current_offset = stream_end
    /\ \A n \in DOMAIN chunk : chunk[n].at = chunk[n].offset

RootLast == Root \in DOMAIN chunk => chunk[Root].at + chunk[Root].length = stream_end

AllOver == \A n \in ChunkId : pc[n] \in Ended \cup {"waiting"}

Answered ==
  outcome # "none" =>
    /\ AllOver
    /\ outcome = IF \E n \in ChunkId : pc[n] = "panicked" THEN "panic"
                 ELSE IF abort_flag THEN "err" ELSE "ok"
    /\ outcome = "ok" => pc[Root] = "done"

IInv3 == ErrorsRecorded /\ RootRecorded /\ StreamTrue /\ RootLast /\ Answered

IInv == IInv1 /\ IInv2 /\ IInv3
-----------------------------------------------------------------------------
\* Once the root's task exists every other task is done.
LEMMA RootAfterAll ==
  ASSUME IInv1, pc[Root] # "waiting"
  PROVE  \A n \in ChunkId \ {Root} : pc[n] = "done"
<1> DEFINE late == {n \in ChunkId \ {Root} : pc[n] # "done"}
<1>1. SUFFICES ASSUME late # {} PROVE FALSE  BY <1>1
<1>2. PICK n \in late : \A m \in late : n <= m
  <2>1. late \in SUBSET ChunkId  OBVIOUS
  <2> HIDE DEF late
  <2>. QED  BY <1>1, <2>1, FirstNode
<1>3. pc[parent[n]] = "waiting" /\ parent[n] \in ChunkId /\ parent[n] < n
      BY <1>2, TreeEdge DEF IInv1, TypeOK, Counting, BottomUpOrder
<1>4. parent[n] \in late  BY <1>3
<1>5. n \in Nat /\ parent[n] \in Nat  BY <1>2, <1>3, NodeCountAssumption DEF ChunkId
<1>. QED  BY <1>2, <1>3, <1>4, <1>5

\* When every task has ended and none badly, every node is done.
LEMMA OverMeansDone ==
  ASSUME IInv1, AllOver, \A n \in ChunkId : pc[n] \notin Faulty \cup {"aborted"}
  PROVE  \A n \in ChunkId : pc[n] = "done"
<1> DEFINE waiting == {n \in ChunkId : pc[n] = "waiting"}
<1>1. \A n \in ChunkId : pc[n] = "done" \/ n \in waiting
      BY DEF AllOver, Ended, Faulty
<1>2. SUFFICES ASSUME waiting # {} PROVE FALSE  BY <1>1
<1>3. PICK n \in waiting : \A m \in waiting : m <= n
  <2>1. waiting \in SUBSET ChunkId  OBVIOUS
  <2> HIDE DEF waiting
  <2>. QED  BY <1>2, <2>1, LastNode
<1>4. PICK c \in Children(n) : pc[c] # "done"
      BY <1>3 DEF IInv1, Counting, WaitsForSomething, Pending
<1>5. c \in waiting /\ parent[c] = n  BY <1>1, <1>4 DEF Children
<1>6. c # Root /\ n < c
      BY <1>3, <1>5, TreeEdge DEF IInv1, TypeOK, NoParent
<1>7. c \in Nat /\ n \in Nat  BY <1>3, <1>5, NodeCountAssumption DEF ChunkId
<1>. QED  BY <1>3, <1>5, <1>6, <1>7

\* No task steps once the caller has its answer.
LEMMA NoTaskAfterAnswer ==
  ASSUME IInv3, NEW n \in ChunkId, Task(n)
  PROVE  outcome = "none"
BY DEF IInv3, Answered, AllOver, Ended, Task, AbortEarly, Begin, TakeChildren, Encode,
   EncodeError, EncodePanic, Write, WriteError, WritePanic, WritePoisoned, Register,
   Release, CaptureRoot, Step

\* A task moves itself, and at most spawns a parent that was waiting.
LEMMA TaskPc ==
  ASSUME IInv1, NEW n \in ChunkId, Task(n)
  PROVE  /\ pc[n] \notin Ended \cup {"waiting"}
         /\ \A m \in ChunkId \ {n} :
              pc'[m] = pc[m] \/ (pc[m] = "waiting" /\ pc'[m] = "spawned")
<1> USE DEF IInv1
<1>1. CASE Release(n)
  <2>1. n # Root /\ pc[n] = "registered"  BY <1>1 DEF Release, Counting
  <2>2. pc[parent[n]] = "waiting"  BY <2>1 DEF Counting, BottomUpOrder
  <2>. QED  BY <1>1, <2>1, <2>2 DEF Release, TypeOK, Ended
<1>2. CASE ~Release(n)
      BY <1>2 DEF Task, AbortEarly, Begin, TakeChildren, Encode, EncodeError, EncodePanic,
         Write, WriteError, WritePanic, WritePoisoned, Register, CaptureRoot, Step, TypeOK, Ended
<1>. QED  BY <1>1, <1>2

\* signal_error keeps the first error and raises the flag.
LEMMA SignalErrors ==
  ASSUME TypeOK, ErrorsRecorded, NEW n \in ChunkId, SignalError(n),
         pc' = [pc EXCEPT ![n] = "failed"], pc[n] \notin Ended,
         poisoned' = poisoned
  PROVE  ErrorsRecorded'
<1>1. n # NoError  BY NodeCountAssumption DEF ChunkId, NoError
<1>2. pc'[n] = "failed" /\ \A m \in ChunkId \ {n} : pc'[m] = pc[m]  BY DEF TypeOK
<1>3. abort_flag'  BY DEF SignalError, ErrorsRecorded
<1>4. error_capture' \in ChunkId /\ pc'[error_capture'] = "failed" /\ error_capture' # NoError
      BY <1>1, <1>2 DEF SignalError, ErrorsRecorded, Ended
<1>5. poisoned => \E m \in ChunkId : pc'[m] = "panicked"
      BY <1>2 DEF ErrorsRecorded, Ended
<1>. QED  BY <1>3, <1>4, <1>5 DEF ErrorsRecorded, NoError

\* The flag is raised with the first error, and only with an error.
LEMMA TaskErrors ==
  ASSUME IInv1, IInv2, IInv3, NEW n \in ChunkId, Task(n)
  PROVE  ErrorsRecorded'
<1> USE DEF IInv1, IInv3
<1>1. CASE Register(n)
  <2>1. n # Root /\ pc[n] = "written"
        BY <1>1, TreeEdge DEF Register, IsRoot, Step, TypeOK
  <2>2. pc' = [pc EXCEPT ![n] = "registered"] /\ UNCHANGED <<errorVars, poisoned>>
        BY <1>1, <2>1, SlotIsThere DEF Register, ResultSlot, Step, writerVars
  <2>. QED  BY <2>1, <2>2 DEF ErrorsRecorded, TypeOK, errorVars, NoError
<1>2. CASE TakeChildren(n)
  <2>1. pc[n] = "running"  BY <1>2 DEF TakeChildren, Step
  <2>2. pc' = [pc EXCEPT ![n] = "taken"] /\ UNCHANGED <<errorVars, poisoned>>
        BY <1>2, <2>1, SlotsFull DEF TakeChildren, Step, writerVars
  <2>. QED  BY <2>1, <2>2 DEF ErrorsRecorded, TypeOK, errorVars, NoError
<1>3. CASE EncodeError(n) \/ WriteError(n) \/ WritePoisoned(n)
      BY <1>3, SignalErrors DEF EncodeError, WriteError, WritePoisoned, Step, Ended, writerVars
<1>4. CASE EncodePanic(n) \/ WritePanic(n)
  <2>1. pc[n] \notin Ended /\ pc' = [pc EXCEPT ![n] = "panicked"] /\ UNCHANGED errorVars
        BY <1>4 DEF EncodePanic, WritePanic, Step, Ended
  <2>2. pc'[n] = "panicked" /\ \A m \in ChunkId \ {n} : pc'[m] = pc[m]  BY <2>1 DEF TypeOK
  <2>. QED  BY <2>1, <2>2 DEF ErrorsRecorded, errorVars, NoError, Ended
<1>5. CASE \/ AbortEarly(n) \/ Begin(n) \/ Encode(n) \/ Write(n) \/ Release(n) \/ CaptureRoot(n)
  <2>1. UNCHANGED <<errorVars, poisoned>> /\ (pc'[n] = "aborted" => abort_flag)
        BY <1>5 DEF AbortEarly, Begin, Encode, Write, Release, CaptureRoot, Step, writerVars, TypeOK
  <2>2. pc[n] \notin Ended /\ pc'[n] # "failed"
        BY <1>5, TaskPc DEF AbortEarly, Begin, Encode, Write, Release, CaptureRoot, Step, TypeOK
  <2>3. \A m \in ChunkId \ {n} : pc'[m] = pc[m] \/ (pc[m] = "waiting" /\ pc'[m] = "spawned")
        BY TaskPc
  <2>4. abort_flag => error_capture # n  BY <2>2 DEF ErrorsRecorded, Ended
  <2>5. \A m \in ChunkId : pc[m] = "panicked" => pc'[m] = "panicked"
        BY <2>2, <2>3 DEF Ended
  <2>6. abort_flag => pc'[error_capture] = "failed"  BY <2>3, <2>4 DEF ErrorsRecorded
  <2>7. \A m \in ChunkId : pc'[m] \in {"failed", "aborted"} => abort_flag
        BY <2>1, <2>2, <2>3 DEF ErrorsRecorded
  <2>. QED  BY <2>1, <2>5, <2>6, <2>7 DEF ErrorsRecorded, errorVars, NoError
<1>. QED  BY <1>1, <1>2, <1>3, <1>4, <1>5 DEF Task

\* root_result is captured by the root, with its own ref.
LEMMA TaskRoot ==
  ASSUME IInv1, IInv2, IInv3, NEW n \in ChunkId, Task(n)
  PROVE  RootRecorded'
<1> USE DEF IInv1, IInv3
<1>1. CASE CaptureRoot(n)
  <2>1. n = Root /\ pc[n] = "written" /\ n \in DOMAIN chunk
        BY <1>1, TreeEdge DEF CaptureRoot, IsRoot, Step, TypeOK, WrittenAreChunks, InStream
  <2>2. pc'[Root] = "done" /\ root_result' = MyRef(Root)
        BY <1>1, <2>1 DEF CaptureRoot, Step, RootResult, TypeOK
  <2>. QED  BY <2>1, <2>2, ChunksStay DEF RootRecorded
<1>2. CASE ~CaptureRoot(n)
  <2>1. root_result' = root_result
        BY <1>2 DEF Task, AbortEarly, Begin, TakeChildren, Encode, EncodeError, EncodePanic,
           Write, WriteError, WritePanic, WritePoisoned, Register, Release
  <2>2. pc'[Root] = "done" <=> pc[Root] = "done"
    <3>1. CASE Release(n)
      <4>1. n # Root /\ pc[n] = "registered"  BY <3>1 DEF Release, Counting
      <4>2. pc[parent[n]] = "waiting"  BY <4>1 DEF Counting, BottomUpOrder
      <4>. QED  BY <3>1, <4>1, <4>2, RootIsNode DEF Release, TypeOK
    <3>2. CASE ~Release(n)
          BY <1>2, <3>2, RootIsNode
          DEF Task, AbortEarly, Begin, TakeChildren, Encode, EncodeError, EncodePanic, Write,
              WriteError, WritePanic, WritePoisoned, Register, Step, TypeOK
    <3>. QED  BY <3>1, <3>2
  <2>3. pc[Root] = "done" => MyRef(Root)' = MyRef(Root)
        BY ChunksStay, RootIsNode DEF WrittenAreChunks, InStream
  <2>. QED  BY <2>1, <2>2, <2>3 DEF RootRecorded, NoRef
<1>. QED  BY <1>1, <1>2

\* Refs are true until a write fails, and nothing follows the root.
LEMMA TaskStream ==
  ASSUME IInv1, IInv2, IInv3, NEW n \in ChunkId, Task(n)
  PROVE  StreamTrue' /\ RootLast'
<1> USE DEF IInv1, IInv3
<1>1. \A m \in ChunkId : pc[m] \in Faulty => pc'[m] \in Faulty
      BY TaskPc DEF Faulty, Ended
<1>2. pc[n] # "done"  BY TaskPc DEF Ended
<1>3. CASE Write(n)
  <2> PICK length : length = ChunkLength(n, refs[n])  OBVIOUS
  <2>1. length \in Nat \ {0}  BY ChunkLengthType DEF TypeOK
  <2>2. n \notin DOMAIN chunk
        BY <1>3 DEF Write, Step, IInv2, ChunksAreWritten, InStream
  <2>3. /\ DOMAIN chunk' = DOMAIN chunk \cup {n}
        /\ chunk'[n] = [at |-> stream_end, offset |-> current_offset, length |-> length,
                        footer |-> refs[n], codec |-> RequestedId(n)]
        /\ \A m \in DOMAIN chunk : chunk'[m] = chunk[m]
        /\ current_offset' = current_offset + length
        /\ stream_end' = stream_end + length
        BY <1>3, <2>2 DEF Write, AppendChunk, ReturnedOffset, AdvancedOffset
  <2>4. StreamTrue'
    <3>1. SUFFICES ASSUME \A m \in ChunkId : pc'[m] \notin Faulty
                   PROVE  /\ current_offset' = stream_end'
                          /\ \A m \in DOMAIN chunk' : chunk'[m].at = chunk'[m].offset
          BY DEF StreamTrue
    <3>2. /\ current_offset = stream_end
          /\ \A m \in DOMAIN chunk : chunk[m].at = chunk[m].offset
          BY <1>1, <3>1 DEF StreamTrue
    <3>. QED  BY <2>3, <3>2
  <2>5. RootLast'
    <3>1. CASE n = Root  BY <2>3, <3>1 DEF RootLast
    <3>2. CASE n # Root
      <4>1. Root \notin DOMAIN chunk
            BY <1>2, <3>2, RootAfterAll DEF IInv2, ChunksAreWritten, InStream
      <4>. QED  BY <2>3, <3>2, <4>1 DEF RootLast
    <3>. QED  BY <3>1, <3>2
  <2>. QED  BY <2>4, <2>5
<1>4. CASE WriteError(n) \/ WritePanic(n)
  <2>1. pc[n] = "encoded" /\ pc'[n] \in Faulty /\ TearChunk(n, refs[n])
        BY <1>4 DEF WriteError, WritePanic, Step, TypeOK, Faulty
  <2>2. chunk' = chunk  BY <2>1 DEF TearChunk
  <2>3. n \notin DOMAIN chunk  BY <2>1 DEF IInv2, ChunksAreWritten, InStream
  <2>4. Root \notin DOMAIN chunk
        BY <1>2, <2>3, RootAfterAll DEF IInv2, ChunksAreWritten, InStream
  <2>. QED  BY <2>1, <2>2, <2>4 DEF StreamTrue, RootLast
<1>5. CASE ~Write(n) /\ ~WriteError(n) /\ ~WritePanic(n)
  <2>1. UNCHANGED streamVars
        BY <1>5 DEF Task, AbortEarly, Begin, TakeChildren, Encode, EncodeError, EncodePanic,
           WritePoisoned, Register, Release, CaptureRoot, writerVars
  <2>. QED  BY <1>1, <2>1 DEF StreamTrue, RootLast, streamVars
<1>. QED  BY <1>3, <1>4, <1>5

\* Nothing has failed and nothing is answered at the start.
LEMMA InitIInv3 == Init => IInv3
<1> SUFFICES ASSUME Init PROVE IInv3  OBVIOUS
<1>1. DOMAIN chunk = {} /\ current_offset = stream_end  BY DEF Init, StreamInit
<1>2. \A n \in ChunkId : pc[n] \in {"spawned", "waiting"}  BY DEF Init
<1>3. pc[Root] # "done"  BY <1>2, RootIsNode
<1>. QED  BY <1>1, <1>2, <1>3 DEF Init, IInv3, ErrorsRecorded, RootRecorded, StreamTrue,
          RootLast, Answered

\* The join gives exactly one of three answers.
LEMMA JoinAnswer ==
  ASSUME IInv, Join
  PROVE  Answered' /\ outcome' \in {"ok", "err", "panic"}
<1> USE DEF IInv, IInv1, IInv3
<1>1. /\ UNCHANGED <<pc, abort_flag>> /\ AllOver
      BY DEF Join, AllOver, errorVars
<1>2. ASSUME ~abort_flag, \A n \in ChunkId : pc[n] # "panicked"
      PROVE  pc[Root] = "done" /\ root_result # NoRef
  <2>1. \A n \in ChunkId : pc[n] \notin Faulty \cup {"aborted"}
        BY <1>2 DEF Faulty, ErrorsRecorded
  <2>2. pc[Root] = "done"  BY <1>1, <2>1, OverMeansDone, RootIsNode
  <2>3. Root \in DOMAIN chunk  BY <2>2, RootIsNode DEF WrittenAreChunks, InStream
  <2>. QED  BY <2>2, <2>3, RefType DEF RootRecorded, TypeOK
<1>3. outcome' = IF \E n \in ChunkId : pc[n] = "panicked" THEN "panic"
                 ELSE IF abort_flag THEN "err" ELSE "ok"
      BY <1>2 DEF Join
<1>. QED  BY <1>1, <1>2, <1>3 DEF Answered, AllOver

\* Every step of the executor keeps the third layer.
LEMMA NextIInv3 == IInv /\ [Next]_vars => IInv3'
<1> SUFFICES ASSUME IInv, [Next]_vars PROVE IInv3'  BY DEF IInv
<1>1. CASE Join
  <2>1. UNCHANGED <<pc, chunk, current_offset, stream_end, poisoned, abort_flag,
                    error_capture, root_result>>
        BY <1>1 DEF Join, writerVars, streamVars, errorVars
  <2>2. ErrorsRecorded' /\ RootRecorded' /\ StreamTrue' /\ RootLast'
        BY <2>1 DEF IInv, IInv3, ErrorsRecorded, RootRecorded, StreamTrue, RootLast, MyRef,
           NoRef, NoError
  <2>. QED  BY <1>1, <2>2, JoinAnswer DEF IInv3
<1>2. CASE UNCHANGED vars
      BY <1>2 DEF IInv, IInv3, ErrorsRecorded, RootRecorded, StreamTrue, RootLast, Answered,
         AllOver, MyRef, NoRef, NoError, vars, writerVars, streamVars, errorVars
<1>3. ASSUME NEW n \in ChunkId, Task(n) PROVE IInv3'
  <2>1. outcome = "none"  BY <1>3, NoTaskAfterAnswer DEF IInv
  <2>2. outcome' = outcome
        BY <1>3 DEF Task, AbortEarly, Begin, TakeChildren, Encode, EncodeError, EncodePanic,
           Write, WriteError, WritePanic, WritePoisoned, Register, Release, CaptureRoot
  <2>. QED  BY <1>3, <2>1, <2>2, TaskErrors, TaskRoot, TaskStream DEF IInv, IInv3, Answered
<1>. QED  BY <1>1, <1>2, <1>3 DEF Next, Returned

\* The three layers together are inductive.
LEMMA NextIInv == IInv /\ [Next]_vars => IInv'
BY NextIInv1, NextIInv2, NextIInv3 DEF IInv

\* The inductive invariant holds in every reachable state.
LEMMA AlwaysIInv == Spec => []IInv
<1>1. Init => IInv  BY InitIInv1, InitIInv2, InitIInv3 DEF IInv
<1>. QED  BY <1>1, NextIInv, PTL DEF Spec

\* "ok" only with the whole tree in the stream and the root's chunk last.
THEOREM OkIsWhole == Spec => []OkMeansWholeTree
<1>1. ASSUME IInv, outcome = "ok"
      PROVE  /\ DOMAIN chunk = ChunkId
             /\ root_result = MyRef(Root)
             /\ chunk[Root].at + chunk[Root].length = stream_end
  <2> USE DEF IInv, IInv1, IInv2, IInv3
  <2>1. pc[Root] = "done"  BY <1>1 DEF Answered
  <2>2. \A n \in ChunkId : pc[n] = "done"  BY <1>1, <2>1, RootAfterAll
  <2>3. DOMAIN chunk = ChunkId
        BY <1>1, <2>2 DEF TypeOK, StreamTypeOK, WrittenAreChunks, InStream
  <2>. QED  BY <1>1, <2>1, <2>3, RootIsNode DEF RootRecorded, RootLast
<1>2. IInv => OkMeansWholeTree  BY <1>1 DEF OkMeansWholeTree
<1>. QED  BY <1>2, AlwaysIInv, PTL

\* "ok" only if every ref handed out leads to the bytes of its chunk.
THEOREM OkIsTrue == Spec => []OkMeansRefsReal
<1>1. ASSUME IInv, outcome = "ok"
      PROVE  \A n \in ChunkId : chunk[n].at = chunk[n].offset
  <2> USE DEF IInv, IInv1, IInv2, IInv3
  <2>1. pc[Root] = "done"  BY <1>1 DEF Answered
  <2>2. \A n \in ChunkId : pc[n] = "done"  BY <1>1, <2>1, RootAfterAll
  <2>3. \A n \in ChunkId : n \in DOMAIN chunk  BY <1>1, <2>2 DEF WrittenAreChunks, InStream
  <2>. QED  BY <1>1, <2>2, <2>3 DEF StreamTrue, Faulty
<1>2. IInv => OkMeansRefsReal  BY <1>1 DEF OkMeansRefsReal
<1>. QED  BY <1>2, AlwaysIInv, PTL

\* The answer tells what happened.
THEOREM AnswerIsFaithful == Spec => []OutcomeIsFaithful
<1>1. ASSUME IInv
      PROVE  /\ outcome # "incomplete"
             /\ outcome = "ok" => \A n \in ChunkId : pc[n] \notin Faulty
             /\ outcome = "panic" => \E n \in ChunkId : pc[n] = "panicked"
             /\ outcome = "err" => error_capture \in ChunkId /\ pc[error_capture] = "failed"
  <2> USE DEF IInv, IInv3
  <2>1. outcome = "ok" => \A n \in ChunkId : pc[n] \notin Faulty
        BY <1>1 DEF Answered, ErrorsRecorded, Faulty
  <2>. QED  BY <1>1, <2>1 DEF Answered, ErrorsRecorded
<1>2. IInv => OutcomeIsFaithful  BY <1>1 DEF OutcomeIsFaithful, Faulty
<1>. QED  BY <1>2, AlwaysIInv, PTL

\* No task runs twice, and a chunk is written once.
THEOREM EachNodeOnce == Spec => ProcessedOnce
<1>1. ASSUME IInv, [Next]_vars
      PROVE  [\A n \in ChunkId :
                /\ pc[n] \in Ended => pc'[n] = pc[n]
                /\ n \in DOMAIN chunk => n \in DOMAIN chunk' /\ chunk'[n] = chunk[n]]_vars
  <2>1. CASE Join  BY <2>1 DEF Join, writerVars, streamVars
  <2>2. CASE UNCHANGED vars  BY <2>2
  <2>3. ASSUME NEW m \in ChunkId, Task(m)
        PROVE  \A n \in ChunkId :
                 /\ pc[n] \in Ended => pc'[n] = pc[n]
                 /\ n \in DOMAIN chunk => n \in DOMAIN chunk' /\ chunk'[n] = chunk[n]
    <3>1. \A n \in ChunkId : pc[n] \in Ended => pc'[n] = pc[n]
          BY <1>1, <2>3, TaskPc DEF IInv, Ended
    <3>. QED  BY <1>1, <2>3, <3>1, ChunksStay DEF IInv
  <2>. QED  BY <1>1, <2>1, <2>2, <2>3 DEF Next, Returned
<1>. QED  BY <1>1, AlwaysIInv, PTL DEF Spec, ProcessedOnce
-----------------------------------------------------------------------------
(***************************************************************************)
(* The refinement: a write emits its node, the join answers, every other   *)
(* step of the executor stutters.                                          *)
(***************************************************************************)
\* What a reader finds behind the footers is the tree, as far as it is written.
LEMMA DocumentIsTree == IInv => TreeWritten
<1>1. IInv => StreamTypeOK /\ ExtentsApart /\ FootersLinked
      BY DEF IInv, IInv1, IInv2, TypeOK, RefsDisjoint, ExtentsApart, FooterInLinkOrder,
         FootersLinked, LinkOrder
<1>. QED  BY <1>1, FootersLeadToTree

\* And so it is after a step.
LEMMA DocumentStaysTree == IInv' => TreeWritten'
BY DocumentIsTree, PTL

\* A write is an Emit, every other step of process_node a stutter.
LEMMA TaskRefines ==
  ASSUME IInv, IInv', NEW n \in ChunkId, Task(n)
  PROVE  [Abstract!Next]_(Abstract!vars)
<1>1. parent' = parent
      BY DEF Task, AbortEarly, Begin, TakeChildren, Encode, EncodeError, EncodePanic, Write,
         WriteError, WritePanic, WritePoisoned, Register, Release, CaptureRoot
<1>2. outcome = "none" /\ outcome' = outcome
      BY NoTaskAfterAnswer
      DEF IInv, Task, AbortEarly, Begin, TakeChildren, Encode, EncodeError, EncodePanic, Write,
          WriteError, WritePanic, WritePoisoned, Register, Release, CaptureRoot
<1>3. \A m : ChildSeq(m)' = ChildSeq(m)
      BY <1>1 DEF ChildSeq, Children, Slots, ParentSlot
<1>4. /\ document = [m \in DOMAIN chunk |-> ChildSeq(m)]
      /\ document' = [m \in DOMAIN chunk' |-> ChildSeq(m)]
  <2>1. TreeWritten /\ TreeWritten'  BY DocumentIsTree, DocumentStaysTree
  <2> HIDE DEF document
  <2>. QED  BY <1>3, <2>1 DEF TreeWritten
<1> HIDE DEF document
<1>5. CASE Write(n)
  <2>1. n \notin DOMAIN chunk /\ pc[n] = "encoded"
        BY <1>5 DEF Write, Step, IInv, IInv2, ChunksAreWritten, InStream
  <2>2. DOMAIN chunk' = DOMAIN chunk \cup {n}
        BY <1>5 DEF Write, AppendChunk
  <2>3. Children(n) \subseteq DOMAIN chunk  BY <2>1, AllChildrenDone DEF IInv
  <2>4. document' = [m \in DOMAIN document \cup {n} |->
                       IF m = n THEN ChildSeq(n) ELSE document[m]]
        BY <1>4, <2>1, <2>2
  <2>5. Abstract!ChildSeq(n) = ChildSeq(n) /\ Abstract!Children(n) = Children(n)
        BY DEF Abstract!Children, Abstract!ChildSeq, Abstract!ParentSlot, Abstract!Slots,
           Abstract!ChunkId, Abstract!Cardinality, Abstract!IsFiniteSet, Children, ChildSeq,
           ParentSlot, Slots, ChunkId, Cardinality, IsFiniteSet
  <2>6. DOMAIN document = DOMAIN chunk  BY <1>4
  <2>7. Abstract!Emit(n)
        BY <1>1, <1>2, <2>1, <2>3, <2>4, <2>5, <2>6 DEF Abstract!Emit
  <2>. QED  BY <2>7 DEF Abstract!Next, Abstract!ChunkId, ChunkId
<1>6. CASE ~Write(n)
  <2>1. chunk' = chunk
        BY <1>6 DEF Task, AbortEarly, Begin, TakeChildren, Encode, EncodeError, EncodePanic,
           WriteError, WritePanic, WritePoisoned, TearChunk, Register, Release, CaptureRoot,
           writerVars, streamVars
  <2>. QED  BY <1>1, <1>2, <1>4, <2>1 DEF Abstract!vars
<1>. QED  BY <1>5, <1>6

\* The answer is Succeed or Fail.
LEMMA JoinRefines ==
  ASSUME IInv, IInv', Join
  PROVE  [Abstract!Next]_(Abstract!vars)
<1>1. parent' = parent /\ chunk' = chunk /\ pc' = pc /\ outcome = "none"
      BY DEF Join, writerVars, streamVars
<1>2. \A m : ChildSeq(m)' = ChildSeq(m)
      BY <1>1 DEF ChildSeq, Children, Slots, ParentSlot
<1>3. document' = document /\ DOMAIN document = DOMAIN chunk
  <2>1. TreeWritten /\ TreeWritten'  BY DocumentIsTree, DocumentStaysTree
  <2> HIDE DEF document
  <2>. QED  BY <1>1, <1>2, <2>1 DEF TreeWritten
<1> HIDE DEF document
<1>4. CASE outcome' = "ok"
  <2>1. pc[Root] = "done"  BY <1>1, <1>4, JoinAnswer DEF Answered
  <2>2. \A n \in ChunkId : pc[n] = "done"  BY <2>1, RootAfterAll DEF IInv
  <2>3. DOMAIN chunk = ChunkId
        BY <2>2 DEF IInv, IInv1, TypeOK, StreamTypeOK, WrittenAreChunks, InStream
  <2>. QED  BY <1>1, <1>3, <1>4, <2>3
       DEF Abstract!Next, Abstract!Succeed, Abstract!ChunkId, ChunkId
<1>5. CASE outcome' # "ok"
      BY <1>1, <1>3, <1>5, JoinAnswer DEF Abstract!Next, Abstract!Fail
<1>. QED  BY <1>4, <1>5

\* The executor implements BottomUpWrite.
THEOREM ParallelRefines == Spec => WritesBottomUp
<1>1. Init => Abstract!Init
  <2>1. Init => document = [n \in {} |-> <<>>]
        BY DEF Init, StreamInit, document
  <2> HIDE DEF document
  <2>. QED  BY <2>1
       DEF Init, Abstract!Init, Abstract!Trees, Abstract!ChunkId, Abstract!Root,
           Abstract!NoParent, Trees, ChunkId, Root, NoParent
<1>2. IInv /\ IInv' /\ [Next]_vars => [Abstract!Next]_(Abstract!vars)
  <2> SUFFICES ASSUME IInv, IInv', [Next]_vars PROVE [Abstract!Next]_(Abstract!vars)
      OBVIOUS
  <2>1. CASE UNCHANGED vars
        BY <2>1 DEF vars, streamVars, writerVars, Abstract!vars, document, ChunkAt, MyRef
  <2>. QED  BY <2>1, TaskRefines, JoinRefines DEF Next, Returned
<1>. QED  BY <1>1, <1>2, AlwaysIInv, PTL DEF Spec, WritesBottomUp, Abstract!Spec
-----------------------------------------------------------------------------
(***************************************************************************)
(* What a call amounts to when nothing fails, for the comparison with the  *)
(* serial executor.                                                        *)
(***************************************************************************)
CodecsTrue == \A n \in DOMAIN chunk : chunk[n].codec = RequestedId(n)

Measured == OffsetIsTotal /\ CodecsTrue

\* The writer counts the chunks written, whatever their order, and each has
\* the compressor its job asks for.
LEMMA InitMeasured == Init => Measured
<1>1. Init => DOMAIN chunk = {} /\ current_offset = 0  BY DEF Init, StreamInit
<1>. QED  BY <1>1, TotalSums DEF Measured, OffsetIsTotal, CodecsTrue, Sums

\* Only a write moves the offset or adds a chunk, and it does both.
LEMMA NextMeasured == IInv /\ Measured /\ [Next]_vars => Measured'
<1> SUFFICES ASSUME IInv, Measured, [Next]_vars PROVE Measured'  OBVIOUS
<1> USE DEF Measured
<1>1. CASE UNCHANGED <<parent, chunk, current_offset>>
      BY <1>1 DEF OffsetIsTotal, total, NodeLength, Slots, Children, CodecsTrue, RequestedId
<1>2. CASE Join \/ UNCHANGED vars
      BY <1>1, <1>2 DEF Join, vars, nodeVars, writerVars, streamVars
<1>3. ASSUME NEW n \in ChunkId, Write(n) PROVE Measured'
  <2>1. n \notin DOMAIN chunk /\ refs[n] = LinkOrder(n)
        BY <1>3 DEF Write, Step, IInv, IInv2, ChunksAreWritten, InStream, TakenInOrder
  <2>2. StreamTypeOK /\ parent' = parent /\ AppendChunk(n, LinkOrder(n), RequestedId(n))
        BY <1>3, <2>1 DEF Write, IInv, IInv1, TypeOK
  <2>3. OffsetIsTotal'  BY <2>1, <2>2, AppendedTotal
  <2>4. CodecsTrue'
        BY <2>1, <2>2 DEF AppendChunk, CodecsTrue, RequestedId
  <2>. QED  BY <2>3, <2>4
<1>4. ASSUME NEW n \in ChunkId, Task(n), ~Write(n) PROVE Measured'
  <2>1. UNCHANGED <<parent, chunk, current_offset>>
        BY <1>4 DEF Task, AbortEarly, Begin, TakeChildren, Encode, EncodeError, EncodePanic,
           WriteError, WritePanic, WritePoisoned, TearChunk, Register, Release, CaptureRoot,
           writerVars, streamVars
  <2>. QED  BY <1>1, <2>1
<1>. QED  BY <1>2, <1>3, <1>4 DEF Next, Returned

\* "ok" says that the whole tree is in the stream, and nothing else.
LEMMA OkDelivers == IInv /\ Measured /\ outcome = "ok" => TreeDelivered
<1> SUFFICES ASSUME IInv, Measured, outcome = "ok" PROVE TreeDelivered  OBVIOUS
<1> USE DEF IInv, IInv3
<1>1. pc[Root] = "done"  BY DEF Answered
<1>2. \A n \in ChunkId : pc[n] = "done"  BY <1>1, RootAfterAll
<1>3. DOMAIN chunk = ChunkId
      BY <1>2 DEF IInv1, TypeOK, StreamTypeOK, WrittenAreChunks, InStream
<1>4. TreeWritten  BY DocumentIsTree
<1>5. current_offset = stream_end  BY <1>2 DEF StreamTrue, Faulty
<1>6. stream_end = total[ChunkId]  BY <1>3, <1>5 DEF Measured, OffsetIsTotal
<1>. QED  BY <1>3, <1>4, <1>6 DEF TreeWritten, TreeDelivered

Healthy == /\ \A n \in ChunkId : pc[n] \notin {"aborted", "failed", "panicked"}
           /\ ~abort_flag /\ ~poisoned
           /\ outcome \in {"none", "ok"}

\* In an environment that injects no fault, and with every compressor the jobs
\* ask for registered, the call cannot fail.
LEMMA NothingFails ==
  ASSUME Faults = {}, \A n \in ChunkId : RequestedId(n) \in Registered,
         IInv, [Next]_vars, Healthy
  PROVE  Healthy'
<1> USE DEF Healthy
<1>1. CASE UNCHANGED vars
      BY <1>1 DEF vars, writerVars, errorVars
<1>2. CASE Join
  <2>1. UNCHANGED <<pc, abort_flag, poisoned>>  BY <1>2 DEF Join, errorVars, writerVars
  <2>2. outcome' # "incomplete"  BY <1>2, JoinAnswer
  <2>3. outcome' \in {"ok", "incomplete"}  BY <1>2 DEF Join
  <2>. QED  BY <2>1, <2>2, <2>3
<1>3. ASSUME NEW n \in ChunkId, Task(n) PROVE Healthy'
  <2>1. ~AbortEarly(n) /\ ~EncodeError(n) /\ ~EncodePanic(n) /\ ~WriteError(n)
        /\ ~WritePanic(n) /\ ~WritePoisoned(n)
        BY DEF AbortEarly, EncodeError, EncodePanic, WriteError, WritePanic, WritePoisoned
  <2>2. CASE TakeChildren(n)
    <3>1. ~MissingChild(n)  BY <2>2, SlotsFull DEF TakeChildren, Step, IInv
    <3>. QED  BY <2>2, <3>1 DEF TakeChildren, Step, IInv, IInv1, TypeOK, errorVars, writerVars
  <2>3. CASE Register(n)
    <3>1. pc[n] = "written" /\ n # Root
          BY <2>3, TreeEdge DEF Register, IsRoot, Step, IInv, IInv1, TypeOK
    <3>2. ResultSlot(n) \in DOMAIN completed[parent[n]]
          BY <3>1, SlotIsThere DEF ResultSlot, IInv
    <3>. QED  BY <2>3, <3>2 DEF Register, Step, IInv, IInv1, TypeOK, errorVars, writerVars
  <2>4. CASE Begin(n) \/ Encode(n) \/ Write(n) \/ CaptureRoot(n)
        BY <2>4 DEF Begin, Encode, Write, CaptureRoot, Step, IInv, IInv1, TypeOK, errorVars,
           writerVars
  <2>5. CASE Release(n)
        BY <2>5 DEF Release, IInv, IInv1, TypeOK, errorVars, writerVars
  <2>. QED  BY <1>3, <2>1, <2>2, <2>3, <2>4, <2>5 DEF Task
<1>. QED  BY <1>1, <1>2, <1>3 DEF Next, Returned
=============================================================================
