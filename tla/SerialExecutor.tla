---------------------------- MODULE SerialExecutor ----------------------------
(***************************************************************************)
(* execute_graph_serial: one thread visits the nodes by descending id, so  *)
(* that children, created after their parent, come first.  Nothing runs    *)
(* beside it: an iteration of its loop is one step, in one of the ways it   *)
(* can end.                                                                *)
(***************************************************************************)
EXTENDS ChunkStream

CONSTANT Faults     \* which faults the environment may produce
ASSUME FaultAssumption == Faults \subseteq {"job", "sink", "panic"}

VARIABLES left,               \* the nodes not yet visited are 0 .. left - 1
          completed,          \* Node::completed_children
          root_result,
          outcome             \* what execute_graph_serial returned

vars == <<parent, left, completed, streamVars, root_result, outcome>>

Init ==
  /\ parent \in Trees
  /\ left = N
  /\ completed = [n \in ChunkId |-> [i \in Slots(n) |-> NoRef]]
  /\ StreamInit
  /\ root_result = NoRef
  /\ outcome = "none"

\* Mutant: the loop is not reversed.
VisitingAscending(n) == outcome = "none" /\ left > 0 /\ n = N - left

Visiting(n) == outcome = "none" /\ left > 0 /\ n = left - 1

MissingChild(n) == \E i \in DOMAIN completed[n] : completed[n][i] = NoRef

\* Mutant: the job's compressor is ignored.
SerialCodecNone(n) == 0

\* An unregistered compressor is replaced by NoCompression, id 0.
SerialCodec(n) == IF RequestedId(n) \in Registered THEN RequestedId(n) ELSE 0

\* Mutant: refs are stored in the order the children are visited.
FirstFreeSlot(n) ==
  1 + Cardinality({i \in DOMAIN completed[parent[n]] : completed[parent[n]][i] # NoRef})

ResultSlot(n) == ParentSlot(n)

NextLeft == left - 1

\* A whole iteration: take the children, encode, write, store the ref in the
\* parent's slot or keep it as the result.
Process(n) ==
  /\ Visiting(n)
  /\ ~MissingChild(n)
  /\ SerialCodec(n) \in Registered
  /\ AppendChunk(n, completed[n], SerialCodec(n))
  /\ LET ref == MyRef(n)'
     IN IF parent[n] = NoParent
          THEN /\ completed' = [completed EXCEPT ![n] = <<>>]
               /\ root_result' = ref
          ELSE /\ completed' = [completed EXCEPT ![n] = <<>>,
                                                 ![parent[n]][ResultSlot(n)] = ref]
               /\ UNCHANGED root_result
  /\ left' = NextLeft
  /\ UNCHANGED <<parent, outcome>>

\* An iteration that ends the call before anything is written: `?` on a
\* missing child, job.execute, a registry without id 0, compress_append.
EncodeError(n) ==
  /\ Visiting(n)
  /\ MissingChild(n) \/ SerialCodec(n) \notin Registered \/ "job" \in Faults
  /\ outcome' = "err"
  /\ completed' = [completed EXCEPT ![n] = <<>>]
  /\ UNCHANGED <<parent, left, streamVars, root_result>>

\* The user's Serialize code panics, which unwinds through the caller.
EncodePanic(n) ==
  /\ Visiting(n)
  /\ ~MissingChild(n) /\ "panic" \in Faults
  /\ outcome' = "panic"
  /\ completed' = [completed EXCEPT ![n] = <<>>]
  /\ UNCHANGED <<parent, left, streamVars, root_result>>

\* The sink fails or panics inside write_all.
WriteError(n) ==
  /\ Visiting(n)
  /\ ~MissingChild(n) /\ "sink" \in Faults
  /\ TearChunk(n, completed[n])
  /\ outcome' \in {"err"} \cup (Faults \cap {"panic"})
  /\ completed' = [completed EXCEPT ![n] = <<>>]
  /\ UNCHANGED <<parent, left, root_result>>

\* After the loop the writer is flushed and the root's ref returned.
Finish ==
  /\ outcome = "none" /\ left = 0
  /\ outcome' = IF root_result # NoRef THEN "ok" ELSE "incomplete"
  /\ UNCHANGED <<parent, left, completed, streamVars, root_result>>

FlushError ==
  /\ outcome = "none" /\ left = 0
  /\ "sink" \in Faults
  /\ outcome' \in {"err"} \cup (Faults \cap {"panic"})
  /\ UNCHANGED <<parent, left, completed, streamVars, root_result>>

Returned == outcome # "none" /\ UNCHANGED vars

Iterate == \E n \in ChunkId :
             Process(n) \/ EncodeError(n) \/ EncodePanic(n) \/ WriteError(n)

Next == Iterate \/ Finish \/ FlushError \/ Returned

Spec == Init /\ [][Next]_vars
-----------------------------------------------------------------------------
\* Descending ids are a bottom-up order: the iteration that reaches a node
\* finds the refs of all its children in its slots, in link order.
ChildrenReady ==
  \A n \in ChunkId : Visiting(n) =>
    /\ Children(n) \subseteq DOMAIN chunk
    /\ completed[n] = [i \in Slots(n) |-> MyRef(ChildSeq(n)[i])]

\* "ok" is returned only with the whole tree in the stream, every ref true,
\* and the root's chunk last.
OkMeansWholeTree ==
  outcome = "ok" =>
    /\ DOMAIN chunk = ChunkId
    /\ \A n \in ChunkId : chunk[n].at = chunk[n].offset
    /\ root_result = MyRef(Root)
    /\ chunk[Root].at + chunk[Root].length = stream_end

\* The serial executor implements BottomUpWrite too: in particular it never
\* returns "Graph execution completed but no root found".
Abstract == INSTANCE BottomUpWrite
WritesBottomUp == Abstract!Spec
=============================================================================
