----------------------------- MODULE LazyIterator -----------------------------
(***************************************************************************)
(* ParcodeLazyIterator: mirrors of a vector's items, read one by one from  *)
(* a shard's payload while the chunks of their chunkable fields are taken  *)
(* from the shard's children.  An action is a call of next().              *)
(*                                                                         *)
(* An item is its place in the saved vector and has Fields chunkable        *)
(* fields; a chunk in the file is a shard, or the field f of item i.  The  *)
(* first field is a structure, whose chunk next() reads; the others are    *)
(* promises, which it does not.                                            *)
(***************************************************************************)
EXTENDS ShardTable

CONSTANT Fields          \* chunkable fields of an item

VARIABLES shard_runs, total_items,  \* the container, as the writer made it
          unreadable,               \* unreadable shards, and items' first fields
          node_len,                 \* what node.len() said: 0 if it is unreadable
          shards,                   \* how many shards the iterator has taken
          current_pos,              \* items passed in the payload
          current_children,         \* children of the shard not taken yet
          items_left_in_shard,
          items_yielded,
          answer

vars == <<shard_runs, total_items, unreadable, node_len, shards, current_pos,
          current_children, items_left_in_shard, items_yielded, answer>>
file == <<shard_runs, total_items, unreadable, node_len>>

Item(i) == [how |-> "item", place |-> i]
Error == [how |-> "error"]
End == [how |-> "end"]
NotCalled == [how |-> "not called"]

Jobs == ShardJobs(shard_runs)

\* Mutant: field by field.
ChildrenByField(s) ==
  [c \in 1 .. Jobs[s].expected * Fields |->
     [place |-> Jobs[s].start + ((c - 1) % Jobs[s].expected),
      field |-> (c - 1) \div Jobs[s].expected + 1]]

\* The children of a shard, in the order visit_inlined adds them.
ChildrenOf(s) ==
  [c \in 1 .. Jobs[s].expected * Fields |->
     [place |-> Jobs[s].start + (c - 1) \div Fields, field |-> ((c - 1) % Fields) + 1]]

IterInit ==
  /\ shards = 0
  /\ current_pos = 0
  /\ current_children = <<>>
  /\ items_left_in_shard = 0
  /\ items_yielded = 0
  /\ answer = NotCalled

Init == /\ shard_runs \in Seq(ShardRun) /\ total_items \in Nat
        /\ node_len \in {0, total_items}
        /\ unreadable \in [shards : SUBSET DOMAIN Jobs, items : SUBSET (0 .. total_items - 1)]
        /\ IterInit

\* read_lazy_from_stream: the local fields, then the chunkable ones, each with
\* the next child.  An unreadable chunk ends it once its child is taken; a chunk
\* of the wrong kind is assumed to be readable.
StructUnreadable(children) == children[1].place \in unreadable.items /\ children[1].field = 1

ChildrenTaken(children) == IF StructUnreadable(children) THEN 1 ELSE Fields

\* The mirror of the item at `place`; with another item's chunks it is no item.
Mirror(place, children) ==
  IF StructUnreadable(children) THEN Error
  ELSE IF \A f \in 1 .. Fields : children[f] = [place |-> place, field |-> f]
         THEN Item(place) ELSE [how |-> "mixed", place |-> place]

\* "Deserialize ONE item" of the s-th shard, and the state that follows.
ReadItem(s, pos, children, left) ==
  /\ answer' = Mirror(Jobs[s].start + pos, children)
  /\ current_children' = SubSeq(children, ChildrenTaken(children) + 1, Len(children))
  /\ current_pos' = pos + 1
  /\ items_left_in_shard' = left - 1
  /\ items_yielded' = items_yielded + 1
  /\ UNCHANGED file

\* Mutant: a shard's last item is left to the next call's shard.
NeedsShardEarly == items_left_in_shard <= 1

NeedsShard == items_left_in_shard = 0

NextFromShard ==
  /\ ~NeedsShard
  /\ ReadItem(shards, current_pos, current_children, items_left_in_shard)
  /\ UNCHANGED shards

PosReset == 0

\* ensure_shard_loaded succeeds, and the first item is read.
NextLoads ==
  /\ NeedsShard /\ shards < Len(Jobs) /\ shards + 1 \notin unreadable.shards
  /\ shards' = shards + 1
  /\ ReadItem(shards', PosReset, ChildrenOf(shards'), Jobs[shards'].expected)

\* Mutant: the call that failed is counted as an item.
YieldedOneMore == items_yielded + 1

YieldedOnError == items_yielded

\* Mutant: the shard that failed stays the next one.
NotTaken == shards

Taken == shards + 1

\* It fails: the shard is taken from the iterator and its items are passed over.
NextFails ==
  /\ NeedsShard /\ shards < Len(Jobs) /\ shards + 1 \in unreadable.shards
  /\ shards' = Taken
  /\ answer' = Error
  /\ items_yielded' = YieldedOnError
  /\ UNCHANGED <<file, current_pos, current_children, items_left_in_shard>>

NextEnds ==
  /\ NeedsShard /\ shards = Len(Jobs)
  /\ answer' = End
  /\ UNCHANGED <<file, shards, current_pos, current_children, items_left_in_shard, items_yielded>>

Next == NextFromShard \/ NextLoads \/ NextFails \/ NextEnds

Spec == Init /\ [][Next]_vars
-----------------------------------------------------------------------------
IterTypeOK ==
  /\ shards \in 0 .. Len(Jobs)
  /\ IF shards = 0 THEN current_pos = 0 /\ items_left_in_shard = 0
     ELSE shards \notin unreadable.shards =>
            current_pos + items_left_in_shard = Jobs[shards].expected
  /\ items_yielded \in 0 .. total_items
  /\ answer.how \in {"item", "mixed", "error", "end", "not called"}

\* Items of the shards that were taken but could not be loaded.
GivenUp ==
  LET items[s \in 0 .. shards] ==
        IF s = 0 THEN 0
        ELSE items[s - 1] + (IF s \in unreadable.shards THEN Jobs[s].expected ELSE 0)
  IN items[shards]

Passed == items_yielded + GivenUp

Failed == GivenUp > 0 \/ \E i \in unreadable.items : i < Passed

\* A mirror holds the chunks of its own item, payload and children advancing
\* together, unless an item before it in the same shard could not be read.
OwnChunks ==
  answer.how = "mixed" =>
    \E i \in unreadable.items : Jobs[shards].start <= i /\ i < answer.place

\* `len` and `size_hint` do not underflow and promise no less than will come:
\* they count the items of the shards given up as if they were to come.  Not so
\* when the container's count could not be read: node_len is 0 then.
LenCoversRest ==
  node_len = total_items =>
  node_len - items_yielded
    = GivenUp + items_left_in_shard
      + (IF shards = Len(Jobs) THEN 0 ELSE total_items - Jobs[shards + 1].start)

\* next() keeps the promise of an ItemStream that resumes: each item of a
\* readable shard is handed out once and in order, whatever failed before it.
Stream == INSTANCE ItemStream WITH
  Resumes <- TRUE, total <- total_items, passed <- Passed, failed <- Failed

KeepsPromise == Stream!Spec
=============================================================================
