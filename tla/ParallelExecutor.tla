--------------------------- MODULE ParallelExecutor ---------------------------
(***************************************************************************)
(* execute_graph_parallel: one Rayon task per node.  A task that finishes  *)
(* last among its siblings spawns its parent's task.  The caller is blocked *)
(* in rayon::scope until every spawned task has ended.                     *)
(*                                                                         *)
(* pc[n] is where the task of node n stands:                               *)
(*   waiting    not spawned              encoded    chunk bytes ready      *)
(*   spawned    in the pool              written    chunk in the writer    *)
(*   running    past the abort check     registered ref stored in parent   *)
(*   taken      children taken           done       parent's count dropped *)
(* and "aborted", "failed", "panicked" are the ways a task ends early.     *)
(***************************************************************************)
EXTENDS ChunkStream

CONSTANT Faults     \* which faults the environment may produce
ASSUME FaultAssumption == Faults \subseteq {"job", "sink", "panic"}

VARIABLES pc,
          atomic_deps,        \* Node::atomic_deps
          completed,          \* Node::completed_children
          refs,               \* process_node's local children_refs
          poisoned,           \* the writer mutex is poisoned
          abort_flag, error_capture, root_result,
          outcome             \* what execute_graph returned

vars == <<parent, pc, atomic_deps, completed, refs, streamVars, poisoned,
          abort_flag, error_capture, root_result, outcome>>

nodeVars   == <<atomic_deps, completed>>
writerVars == <<streamVars, poisoned>>
errorVars  == <<abort_flag, error_capture>>

NoError == N    \* error_capture = None

\* atomic_deps and the empty slots are what link_parent_child left; the
\* leaves are collected before the scope opens and spawned inside it.
Init ==
  /\ parent \in Trees
  /\ atomic_deps = [n \in ChunkId |-> Cardinality(Children(n))]
  /\ completed = [n \in ChunkId |-> [i \in Slots(n) |-> NoRef]]
  /\ pc = [n \in ChunkId |-> IF Children(n) = {} THEN "spawned" ELSE "waiting"]
  /\ refs = [n \in ChunkId |-> <<>>]
  /\ StreamInit
  /\ poisoned = FALSE
  /\ abort_flag = FALSE
  /\ error_capture = NoError
  /\ root_result = NoRef
  /\ outcome = "none"

Step(n, from, to) == pc[n] = from /\ pc' = [pc EXCEPT ![n] = to]

\* Mutant: the error is dropped.
SignalNothing(n) == UNCHANGED errorVars

\* signal_error: only the first error is kept and raises the flag.
SignalError(n) ==
  /\ error_capture' = IF error_capture = NoError THEN n ELSE error_capture
  /\ abort_flag' = (abort_flag \/ error_capture = NoError)

\* should_abort is a Relaxed load: it may miss a flag another task has just
\* raised, but sees none that was not raised.
AbortEarly(n) ==
  /\ abort_flag
  /\ Step(n, "spawned", "aborted")
  /\ UNCHANGED <<parent, nodeVars, refs, writerVars, errorVars, root_result, outcome>>

Begin(n) ==
  /\ Step(n, "spawned", "running")
  /\ UNCHANGED <<parent, nodeVars, refs, writerVars, errorVars, root_result, outcome>>

MissingChild(n) == \E i \in DOMAIN completed[n] : completed[n][i] = NoRef

\* Mutant: the children are popped off the end of the vector.
PoppedRefs(n) == LET k == Len(completed[n]) IN [i \in 1 .. k |-> completed[n][k + 1 - i]]

ChildrenRefs(n) == completed[n]

\* mem::take empties the node's slots; a slot still None is an internal error.
TakeChildren(n) ==
  /\ completed' = [completed EXCEPT ![n] = <<>>]
  /\ IF MissingChild(n)
       THEN Step(n, "running", "failed") /\ SignalError(n) /\ UNCHANGED refs
       ELSE /\ Step(n, "running", "taken")
            /\ refs' = [refs EXCEPT ![n] = ChildrenRefs(n)]
            /\ UNCHANGED errorVars
  /\ UNCHANGED <<parent, atomic_deps, writerVars, root_result, outcome>>

\* job.execute, registry.get and compress_append succeed.
Encode(n) ==
  /\ RequestedId(n) \in Registered
  /\ Step(n, "taken", "encoded")
  /\ UNCHANGED <<parent, nodeVars, refs, writerVars, errorVars, root_result, outcome>>

EncodeError(n) ==
  /\ "job" \in Faults \/ RequestedId(n) \notin Registered
  /\ Step(n, "taken", "failed")
  /\ SignalError(n)
  /\ UNCHANGED <<parent, nodeVars, refs, writerVars, root_result, outcome>>

\* The user's Serialize code panics: Rayon keeps the payload for the caller,
\* nothing is signalled to the other tasks.
EncodePanic(n) ==
  /\ "panic" \in Faults
  /\ Step(n, "taken", "panicked")
  /\ UNCHANGED <<parent, nodeVars, refs, writerVars, errorVars, root_result, outcome>>

\* SeqWriter::write_all, atomic under its lock.
Write(n) ==
  /\ ~poisoned
  /\ Step(n, "encoded", "written")
  /\ AppendChunk(n, refs[n], RequestedId(n))
  /\ UNCHANGED <<parent, nodeVars, refs, poisoned, errorVars, root_result, outcome>>

\* The sink returns an error.
WriteError(n) ==
  /\ ~poisoned
  /\ "sink" \in Faults
  /\ Step(n, "encoded", "failed")
  /\ SignalError(n)
  /\ TearChunk(n, refs[n])
  /\ UNCHANGED <<parent, nodeVars, refs, poisoned, root_result, outcome>>

\* The sink panics while the lock is held, which poisons the mutex.
WritePanic(n) ==
  /\ ~poisoned
  /\ {"sink", "panic"} \subseteq Faults
  /\ Step(n, "encoded", "panicked")
  /\ poisoned' = TRUE
  /\ TearChunk(n, refs[n])
  /\ UNCHANGED <<parent, nodeVars, refs, errorVars, root_result, outcome>>

\* lock() on the poisoned mutex is an error every later writer gets.
WritePoisoned(n) ==
  /\ poisoned
  /\ Step(n, "encoded", "failed")
  /\ SignalError(n)
  /\ UNCHANGED <<parent, nodeVars, refs, writerVars, root_result, outcome>>

IsRoot(n) == parent[n] = NoParent

\* Mutant: refs are stored in the order of completion.
FirstFreeSlot(n) ==
  1 + Cardinality({i \in DOMAIN completed[parent[n]] : completed[parent[n]][i] # NoRef})

ResultSlot(n) == ParentSlot(n)

\* register_child_result; a slot that is not there is an internal error.
Register(n) ==
  /\ ~IsRoot(n)
  /\ IF ResultSlot(n) \in DOMAIN completed[parent[n]]
       THEN /\ Step(n, "written", "registered")
            /\ completed' = [completed EXCEPT ![parent[n]][ResultSlot(n)] = MyRef(n)]
            /\ UNCHANGED errorVars
       ELSE Step(n, "written", "failed") /\ SignalError(n) /\ UNCHANGED completed
  /\ UNCHANGED <<parent, atomic_deps, refs, writerVars, root_result, outcome>>

\* Mutants: any child spawns the parent; the task that would see 0 does; the
\* count is dropped twice.
SpawnsParentAny(n) == TRUE
SpawnsParentLate(n) == atomic_deps[parent[n]] = 0
DroppedTwice(p) == atomic_deps[p] - 2

Dropped(p) == atomic_deps[p] - 1
SpawnsParent(n) == atomic_deps[parent[n]] = 1

\* fetch_sub; the task that saw 1 spawns the parent's task.
Release(n) ==
  /\ pc[n] = "registered"
  /\ atomic_deps' = [atomic_deps EXCEPT ![parent[n]] = Dropped(parent[n])]
  /\ pc' = [pc EXCEPT ![n] = "done",
                      ![parent[n]] = IF SpawnsParent(n) THEN "spawned" ELSE @]
  /\ UNCHANGED <<parent, completed, refs, writerVars, errorVars, root_result, outcome>>

\* Mutant: the chunk at the start of the file is taken for the root.
RootResultFirst(n) == MyRef(CHOOSE m \in DOMAIN chunk : chunk[m].offset = 0)

RootResult(n) == MyRef(n)

\* capture_root_result, by the node without parent.
CaptureRoot(n) ==
  /\ IsRoot(n)
  /\ Step(n, "written", "done")
  /\ root_result' = RootResult(n)
  /\ UNCHANGED <<parent, nodeVars, refs, writerVars, errorVars, outcome>>

Task(n) ==
  \/ AbortEarly(n) \/ Begin(n) \/ TakeChildren(n)
  \/ Encode(n) \/ EncodeError(n) \/ EncodePanic(n)
  \/ Write(n) \/ WriteError(n) \/ WritePanic(n) \/ WritePoisoned(n)
  \/ Register(n) \/ Release(n) \/ CaptureRoot(n)

Ended == {"done", "aborted", "failed", "panicked"}

\* The scope rethrows a panic; else a captured error is returned; else the
\* root's ref, or "Graph execution incomplete" when nobody captured one.
Join ==
  /\ outcome = "none"
  /\ \A n \in ChunkId : pc[n] \in Ended \cup {"waiting"}
  /\ outcome' = IF \E n \in ChunkId : pc[n] = "panicked" THEN "panic"
                ELSE IF abort_flag THEN "err"
                ELSE IF root_result # NoRef THEN "ok" ELSE "incomplete"
  /\ UNCHANGED <<parent, pc, nodeVars, refs, writerVars, errorVars, root_result>>

Returned == outcome # "none" /\ UNCHANGED vars

Next == Join \/ Returned \/ \E n \in ChunkId : Task(n)

\* Rayon runs every spawned task to its end before the scope returns, and no
\* task waits for another: a task that can step eventually steps.
Fairness == WF_vars(Join) /\ \A n \in ChunkId : WF_vars(Task(n))

Spec == Init /\ [][Next]_vars /\ Fairness
-----------------------------------------------------------------------------
TypeOK ==
  /\ parent \in Trees
  /\ pc \in [ChunkId -> {"waiting", "spawned", "running", "taken", "encoded",
                         "written", "registered"} \cup Ended]
  /\ atomic_deps \in [ChunkId -> Nat]
  /\ completed \in [ChunkId -> Seq(Ref)]
  /\ refs \in [ChunkId -> Seq(Ref)]
  /\ StreamTypeOK
  /\ poisoned \in BOOLEAN
  /\ abort_flag \in BOOLEAN
  /\ error_capture \in 0 .. N
  /\ root_result \in Ref
  /\ outcome \in {"none", "ok", "err", "panic", "incomplete"}
-----------------------------------------------------------------------------
(***************************************************************************)
(* Properties.                                                             *)
(***************************************************************************)

\* A node's task exists only once all its children are done, whatever their
\* order and whoever failed: so the ancestors of a node that failed, panicked
\* or gave up are never spawned.
BottomUpOrder ==
  \A n \in ChunkId \ {Root} : pc[n] # "done" => pc[parent[n]] = "waiting"

\* The "Missing child result" and "Slot out of bounds" errors of the executor
\* cannot occur: a started task finds every slot filled, and a finished child
\* finds its slot still there although the parent takes the whole vector.
NoInternalError ==
  \A n \in ChunkId :
    /\ pc[n] = "running" => ~MissingChild(n) /\ Len(completed[n]) = Cardinality(Children(n))
    /\ pc[n] = "written" /\ n # Root => ParentSlot(n) \in DOMAIN completed[parent[n]]

\* Footers list the children in link order, not in the order their tasks
\* happened to finish, and with the refs their writes returned.
FooterInLinkOrder ==
  \A n \in DOMAIN chunk :
    /\ Children(n) \subseteq DOMAIN chunk
    /\ chunk[n].footer = [i \in Slots(n) |-> MyRef(ChildSeq(n)[i])]

\* The extents handed out as refs never overlap, even when a write failed in
\* between: a ref names one chunk.
RefsDisjoint ==
  \A m, n \in DOMAIN chunk :
    m # n => \/ chunk[m].offset + chunk[m].length <= chunk[n].offset
             \/ chunk[n].offset + chunk[n].length <= chunk[m].offset

\* "ok" is returned only with the whole tree in the stream, the root's chunk
\* at its very end, and the root's ref as the result.
OkMeansWholeTree ==
  outcome = "ok" =>
    /\ DOMAIN chunk = ChunkId
    /\ root_result = MyRef(Root)
    /\ chunk[Root].at + chunk[Root].length = stream_end

\* "ok" is returned only if every ref handed out is where the bytes are.  A
\* failed write leaves current_offset behind the stream, and tasks that miss
\* the abort flag go on writing with wrong offsets: the call must not succeed.
OkMeansRefsReal ==
  outcome = "ok" => \A n \in ChunkId : chunk[n].at = chunk[n].offset

\* The caller is told exactly what happened: ok iff no task failed or
\* panicked, a panic is rethrown, an error is that of a task that failed, and
\* neither "Unknown execution error" nor "Graph execution incomplete" occurs.
OutcomeIsFaithful ==
  LET Ends(how) == {n \in ChunkId : pc[n] = how}
  IN /\ outcome # "incomplete"
     /\ outcome = "ok" => Ends("failed") = {} /\ Ends("panicked") = {}
     /\ outcome = "panic" => Ends("panicked") # {}
     /\ outcome = "err" => error_capture \in Ends("failed")

\* No task runs again after it ended and no chunk is written twice or altered.
ProcessedOnce ==
  [][\A n \in ChunkId :
       /\ pc[n] \in Ended => pc'[n] = pc[n]
       /\ n \in DOMAIN chunk => n \in DOMAIN chunk' /\ chunk'[n] = chunk[n]]_vars

\* The scope always joins, whatever fails: no fault leaves the caller blocked.
\* And no wake-up of a parent is lost: when nothing fails the answer is Ok,
\* however the children finish.
Termination ==
  <>(outcome = "ok" \/ (outcome # "none" /\ \E n \in ChunkId : pc[n] \in {"failed", "panicked"}))

\* The executor implements BottomUpWrite.
Abstract == INSTANCE BottomUpWrite
WritesBottomUp == Abstract!Spec
=============================================================================
