--------------------------- MODULE ExecutorAgreement ---------------------------
(***************************************************************************)
(* The same object saved by write_sync and by write: it is visited, the    *)
(* serial executor runs on the graph, then the parallel one on an equal     *)
(* graph, the environment injecting no fault in either.  The two calls     *)
(* share nothing but the object, so running them one after the other loses *)
(* no behaviour.                                                           *)
(***************************************************************************)
EXTENDS TaskGraph

CONSTANTS UseCompression, Registered, Config, PayloadLength   \* see ChunkStream

ASSUME EncodingAssumption ==
  /\ UseCompression \in BOOLEAN
  /\ Registered \subseteq 0 .. 255
  /\ Config \in [ChunkId -> 0 .. 255]
  /\ PayloadLength \in [ChunkId -> Nat]

VARIABLES
  s_left, s_completed, s_chunk, s_offset, s_end, s_root, s_outcome,
  p_pc, p_deps, p_completed, p_refs, p_chunk, p_offset, p_end, p_poisoned,
  p_abort, p_error, p_root, p_outcome

Serial == INSTANCE SerialExecutor WITH
  Faults <- {}, left <- s_left, completed <- s_completed, chunk <- s_chunk,
  current_offset <- s_offset, stream_end <- s_end, root_result <- s_root,
  outcome <- s_outcome

Parallel == INSTANCE ParallelExecutor WITH
  Faults <- {}, pc <- p_pc, atomic_deps <- p_deps, completed <- p_completed,
  refs <- p_refs, chunk <- p_chunk, current_offset <- p_offset,
  stream_end <- p_end, poisoned <- p_poisoned, abort_flag <- p_abort,
  error_capture <- p_error, root_result <- p_root, outcome <- p_outcome

\* What the executors take from the graph, and what they add.
serialGraph == <<s_left, s_completed>>
serialOwn == <<s_chunk, s_offset, s_end, s_root, s_outcome>>
parallelGraph == <<p_pc, p_deps, p_completed>>
parallelOwn == <<p_refs, p_chunk, p_offset, p_end, p_poisoned, p_abort, p_error,
                 p_root, p_outcome>>

vars == <<graphVars, serialGraph, serialOwn, parallelGraph, parallelOwn>>

Init ==
  /\ GraphInit
  /\ s_left = 0 /\ s_completed = <<>>
  /\ p_pc = <<>> /\ p_deps = <<>> /\ p_completed = <<>>
  /\ Serial!StreamInit /\ s_root = NoRef /\ s_outcome = "none"
  /\ p_refs = [n \in ChunkId |-> <<>>]
  /\ Parallel!StreamInit /\ p_root = NoRef /\ p_outcome = "none"
  /\ p_poisoned = FALSE /\ p_abort = FALSE /\ p_error = Parallel!NoError

Executing == s_completed # <<>>

BuildGraph == ~Executing /\ Visit
              /\ UNCHANGED <<serialGraph, serialOwn, parallelGraph, parallelOwn>>

\* The nodes that have no dependency are the first to be spawned.
IsLeaf(n) == atomic_deps[n] = 0

\* execute_graph and execute_graph_serial take the graph over as it is.
ExecuteGraph ==
  /\ ~Executing /\ Built /\ count = N
  /\ s_left' = count
  /\ s_completed' = completed
  /\ p_pc' = [n \in ChunkId |-> IF IsLeaf(n) THEN "spawned" ELSE "waiting"]
  /\ p_deps' = atomic_deps
  /\ p_completed' = completed
  /\ UNCHANGED <<graphVars, serialOwn, parallelOwn>>

RunSerial == /\ Executing /\ s_outcome = "none" /\ Serial!Next
             /\ UNCHANGED <<graphVars, parallelGraph, parallelOwn>>

RunParallel == /\ s_outcome # "none" /\ Parallel!Next
               /\ UNCHANGED <<graphVars, serialGraph, serialOwn>>

Next == BuildGraph \/ ExecuteGraph \/ RunSerial \/ RunParallel

Spec == Init /\ [][Next]_vars
-----------------------------------------------------------------------------
\* A visited graph is a state both executors are specified from: one root,
\* parents before children, every count and slot as the tree wants them, and
\* the tasks spawned first are those of its leaves.  And no executor meets a
\* PlaceholderJob ("This is a bug", visitor_impls.rs).
ExecutorsCanStart ==
  [][ExecuteGraph =>
       (Serial!Init /\ Parallel!Init /\ \A n \in ChunkId : job[n] = "final")']_vars

Codecs(chunk) == [n \in DOMAIN chunk |-> chunk[n].codec]

\* "equivalent to write" (api.rs:459): the two calls give the same answer, and
\* when it is ok the same chunks, compressed alike and linked alike; only the
\* order of the chunks in the file may differ.
Equivalent ==
  s_outcome # "none" /\ p_outcome # "none" =>
    /\ s_outcome = p_outcome
    /\ s_outcome = "ok" => /\ Serial!document = Parallel!document
                           /\ Codecs(s_chunk) = Codecs(p_chunk)
                           /\ s_end = p_end
=============================================================================
