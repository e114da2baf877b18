----------------------------- MODULE ObjectVisit -----------------------------
(***************************************************************************)
(* The visitors of the crate and of the derive macro, filling the arena    *)
(* with the nodes of an object.  TaskGraph says what any of them may do;    *)
(* here each does it for its type, with the job and the configuration its  *)
(* node gets.                                                              *)
(*                                                                         *)
(* The recursion is a stack of frames.  A frame is a visit in progress: its *)
(* node, the calls it has still to make, and what it does after the last.   *)
(* The first frame is that of ParcodeOptions::write.  What serde makes of a *)
(* value is a parameter.                                                   *)
(***************************************************************************)
EXTENDS ObjectTypes

CONSTANTS N,              \* room in the arena
          Objects,        \* the root objects considered, each a type and a value
          Whole(_, _),    \* serde's tokens of a value of a type
          ItemsPerShard,  \* what Vec::visit decides, see VecShards
          ITEMS_PER_BUCKET, MAX_SHARDS

ASSUME VisitAssumption ==
  N \in Nat \ {0} /\ ItemsPerShard \in Nat \ {0} /\ ITEMS_PER_BUCKET \in Nat \ {0}
  /\ MAX_SHARDS \in Nat \ {0} /\ None \notin Nat

RootPart(object) == Part(object.type, object.value, None, FALSE)

ASSUME ObjectAssumption ==
  /\ MaxNesting \in Nat
  /\ \A object \in Objects :
       /\ \A p \in PartsWithin(RootPart(object)) : Fits(p)
       /\ Level({RootPart(object)})[MaxNesting + 1] = {}

VARIABLES object, stack,
          parent, count, parent_slot, atomic_deps, completed, job,   \* TaskGraph's
          payload, config      \* what each node's job will write, and its config()

contents == <<payload, config>>

\* The nodes whose visits are not over, from the root's.
Visiting == [k \in 1 .. Len(stack) - 1 |-> stack[k + 1].node]

Graph == INSTANCE TaskGraph WITH path <- Visiting

graph == <<parent, count, parent_slot, atomic_deps, completed, job>>
vars == <<object, stack, graph, contents>>

VisitCall(t, v, p, c) == [call |-> "visit", type |-> t, value |-> v, parent |-> p, config |-> c]
VisitInlined(t, v, p) == [call |-> "visit_inlined", type |-> t, value |-> v, parent |-> p]
ShardCall(t, part, p, c) == [call |-> "shard", type |-> t, value |-> part, parent |-> p, config |-> c]

\* A visit in progress.
Frame(node, calls, after) == [node |-> node, calls |-> calls, after |-> after]

Return == [then |-> "return"]
Replace(new_job, conf) == [then |-> "replace", job |-> new_job, config |-> conf]
-----------------------------------------------------------------------------
\* What a job's execute will return: pieces of tokens one after another.  An entry
\* of a map shard is kept apart, since its offset is.
Pieces(pieces) == [pieces |-> pieces, runs |-> <<>>, entries |-> <<>>]
VecContainerJob(runs) == [Pieces(<<>>) EXCEPT !.runs = runs]
MapContainerJob(num_shards) == Pieces(<<<<num_shards>>>>)
PrimitiveJob(t, v) == Pieces(<<Whole(t, v)>>)
PlaceholderJob == Pieces(<<>>)

\* The local fields, one after another; the macro writes them the same way for
\* the job of a structure's own node and for serialize_shallow.
WriteLocals(t, v) ==
  LET local == Locals(t.fields)
  IN [k \in DOMAIN local |-> Whole(t.fields[local[k]].type, v[local[k]])]

\* Mutant: the macro does not override the trait's default.
ShallowDefault(t, v) == <<Whole(t, v)>>

\* serialize_shallow: the trait's default writes everything.
SerializeShallow(t, v) == IF t.kind = "struct" THEN WriteLocals(t, v) ELSE <<Whole(t, v)>>

\* serialize_slice: bincode's slice, or the macro's loop, which writes the same.
VecShardJob(t, items) ==
  Pieces(<<<<Len(items)>>>> \o FlattenSeq([i \in DOMAIN items |-> SerializeShallow(t, items[i])]))

\* An entry's bytes go on into those of the entries after it.
MapShardJob(t, bucket) ==
  [Pieces(<<>>) EXCEPT !.entries =
     [i \in DOMAIN bucket |-> <<<<bucket[i][1]>>>> \o SerializeShallow(t, bucket[i][2])]]

\* The visits of the remote fields, in order, each with the parent given.
VisitRemotes(t, v, p) ==
  LET remote == Remotes(t.fields)
  IN [k \in DOMAIN remote |->
        VisitCall(t.fields[remote[k]].type, v[remote[k]], p, FieldConfig(t.fields[remote[k]]))]

Slices(items) ==
  [k \in 1 .. (Len(items) + ItemsPerShard - 1) \div ItemsPerShard |->
     SubSeq(items, (k - 1) * ItemsPerShard + 1, Min({k * ItemsPerShard, Len(items)}))]

NumShards(v) ==
  IF v = <<>> THEN 0 ELSE Min({Max({Len(v) \div ITEMS_PER_BUCKET, 1}), MAX_SHARDS})

\* Keys hash to themselves, and the map is iterated in their order.
Bucket(v, b) ==
  LET keys == InOrder({k \in DOMAIN v : k % NumShards(v) = b - 1})
  IN [i \in DOMAIN keys |-> <<keys[i], v[keys[i]]>>]
-----------------------------------------------------------------------------
Init ==
  /\ object \in Objects
  /\ stack = <<Frame(None, <<VisitCall(object.type, object.value, None, None)>>, Return)>>
  /\ Graph!GraphInit
  /\ payload = <<>> /\ config = <<>>

Top == stack[Len(stack)]
Call == Head(Top.calls)

\* The frame of the visit in progress makes its next call, which puts these in its place.
Inlined(calls) ==
  [stack EXCEPT ![Len(stack)] = Frame(Top.node, calls \o Tail(Top.calls), Top.after)]

\* add_node, and link_parent_child if there is a parent.
AddLinked(p, kind, what, conf) ==
  /\ Graph!AddNode(kind)
  /\ IF p = None THEN UNCHANGED <<parent, parent_slot, atomic_deps, completed>>
     ELSE Graph!LinkParentChild(p, count)
  /\ payload' = Append(payload, what)
  /\ config' = Append(config, conf)
  /\ UNCHANGED object

\* A call that adds a node and then makes calls of its own.
AddNode(kind, what, conf, calls, after) ==
  /\ AddLinked(Call.parent, kind, what, conf)
  /\ stack' = Append(Inlined(<<>>), Frame(count, calls, after))

Called(call, kind) == Top.calls # <<>> /\ Call.call = call /\ Call.type.kind = kind

VisitPrimitive ==
  /\ Called("visit", "prim")
  /\ AddNode("final", PrimitiveJob(Call.type, Call.value), Call.config, <<>>, Return)

VisitStruct ==
  /\ Called("visit", "struct")
  /\ AddNode("final", Pieces(WriteLocals(Call.type, Call.value)), Call.config,
             VisitRemotes(Call.type, Call.value, count), Return)

VisitVec ==
  /\ Called("visit", "vec")
  /\ LET slices == Slices(Call.value)
     IN AddNode("final", VecContainerJob([k \in DOMAIN slices |-> Len(slices[k])]), Call.config,
                [k \in DOMAIN slices |-> ShardCall(Call.type, slices[k], count, Call.config)], Return)

\* Mutant: the shards, where the bytes are, get no configuration.
ShardUnconfigured(c) == None

ShardConfig(c) == c

AddVecShard ==
  /\ Called("shard", "vec")
  /\ LET t == Call.type.item items == Call.value
     IN AddNode("final", VecShardJob(t, items), ShardConfig(Call.config),
                [i \in DOMAIN items |-> VisitInlined(t, items[i], count)], Return)

\* One blob; of an empty map a container, to which no configuration is given.
VisitPlainMap ==
  /\ Called("visit", "map") /\ ~IsMapOptimized(Call.config)
  /\ IF Call.value # <<>>
       THEN AddNode("final", PrimitiveJob(Call.type, Call.value), Call.config, <<>>, Return)
       ELSE AddNode("final", MapContainerJob(0), None, <<>>, Return)

VisitMap ==
  /\ Called("visit", "map") /\ IsMapOptimized(Call.config)
  /\ LET n == NumShards(Call.value)
     IN AddNode("final", MapContainerJob(n), Call.config,
                [b \in 1 .. n |-> ShardCall(Call.type, Bucket(Call.value, b), count, Call.config)], Return)

\* A bucket's node is a placeholder until its values have been visited.
AddMapShard ==
  /\ Called("shard", "map")
  /\ LET t == Call.type.item bucket == Call.value
     IN AddNode("placeholder", PlaceholderJob, None,
                [i \in DOMAIN bucket |-> VisitInlined(t, bucket[i][2], count)],
                Replace(MapShardJob(t, bucket), ShardConfig(Call.config)))

\* Mutant: the fields of an item are linked to the container of its shard.
InlinedParentUp(n) == parent[n]

InlinedParent(n) == n

\* An inlined structure adds its remote fields only; nothing else adds anything.
VisitsInlined ==
  /\ Top.calls # <<>> /\ Call.call = "visit_inlined"
  /\ stack' = Inlined(IF Call.type.kind = "struct"
                        THEN VisitRemotes(Call.type, Call.value, InlinedParent(Call.parent))
                        ELSE <<>>)
  /\ UNCHANGED <<object, graph, contents>>

\* A visit has made all its calls, and is not that of write itself.
Finished(then) == Len(stack) > 1 /\ Top.calls = <<>> /\ Top.after.then = then

Returns ==
  /\ Finished("return")
  /\ stack' = Front(stack)
  /\ UNCHANGED <<object, graph, contents>>

ReplaceJob ==
  /\ Finished("replace")
  /\ job' = [job EXCEPT ![Top.node] = "final"]
  /\ payload' = [payload EXCEPT ![Top.node + 1] = Top.after.job]
  /\ config' = [config EXCEPT ![Top.node + 1] = Top.after.config]
  /\ stack' = Front(stack)
  /\ UNCHANGED <<object, parent, count, parent_slot, atomic_deps, completed>>

Built == Len(stack) = 1 /\ Top.calls = <<>>
HandedOver == Built /\ UNCHANGED vars

Next == \/ VisitPrimitive \/ VisitStruct \/ VisitVec \/ AddVecShard
        \/ VisitPlainMap \/ VisitMap \/ AddMapShard \/ ReplaceJob
        \/ VisitsInlined \/ Returns \/ HandedOver

Spec == Init /\ [][Next]_vars
-----------------------------------------------------------------------------
\* Every visitor, the macro's too, does to the arena what TaskGraph allows, and
\* nothing else: a node is added under the visit that is in progress and linked
\* to it at once, and only a shard's placeholder is replaced.
FillsGraph == Graph!GraphSpec

\* The primitives of a value and the configuration each is to be stored with:
\* that of the innermost field with a chunk of its own.
Primitives(pieces) == {x \in UNION {ToSet(piece) : piece \in ToSet(pieces)} : x >= FirstId}

Declared(p) ==
  UNION {Primitives(<<Whole(q.type, q.value)>>) \X {q.config} :
           q \in {r \in PartsWithin(p) : InOnePiece(r)}}

\* The objects considered are such that every primitive can be told from all
\* others, and from lengths and keys; no visitor looks at one.
ASSUME PrimitivesAssumption ==
  /\ FirstId \in Nat
  /\ \A obj \in Objects :
       \A p \in PartsWithin(RootPart(obj)) :
         /\ InOnePiece(p) \/ Len(p.value) < FirstId
         /\ LET parts == PartsOf(p)
            IN \A i, j \in DOMAIN parts : i # j => Declared(parts[i]) \cap Declared(parts[j]) = {}

\* The primitives among a node's tokens, each with the node's configuration.
Stored(n) ==
  (Primitives(payload[n].pieces) \cup UNION {Primitives(e) : e \in ToSet(payload[n].entries)})
    \X {config[n]}

\* The attributes of a field reach its bytes: every primitive of the object is
\* stored, in one chunk only, and with the configuration of the field it belongs
\* to, through shards, inlined items and structures in structures.
CompressedAsDeclared ==
  Built =>
    /\ UNION {Stored(n) : n \in DOMAIN payload} = Declared(RootPart(object))
    /\ \A m, n \in DOMAIN payload : m # n => Stored(m) \cap Stored(n) = {}
=============================================================================
