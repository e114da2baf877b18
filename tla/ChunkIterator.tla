---------------------------- MODULE ChunkIterator ----------------------------
(***************************************************************************)
(* ChunkNode::iter: the streaming iterator that decodes one shard at a     *)
(* time.  An action is a call of next(); an item is its place in the saved *)
(* vector; a shard in `unreadable` cannot be read or decoded.              *)
(***************************************************************************)
EXTENDS ShardTable

VARIABLES shard_runs, total_items,    \* the container, as the writer made it
          unreadable,
          current_global_idx, current_shard_idx,
          current_items_in_shard,
          answer

vars == <<shard_runs, total_items, unreadable, current_global_idx, current_shard_idx,
          current_items_in_shard, answer>>
file == <<shard_runs, total_items, unreadable>>

Item(i) == [how |-> "item", place |-> i]
Error == [how |-> "error"]
End == [how |-> "end"]
NotCalled == [how |-> "not called"]

child_count == ShardsIn(shard_runs)

IterInit ==
  /\ current_global_idx = 0
  /\ current_shard_idx = 0
  /\ current_items_in_shard = <<>>
  /\ answer = NotCalled

Init == /\ shard_runs \in Seq(ShardRun) /\ total_items \in Nat
        /\ unreadable \in SUBSET (0 .. child_count - 1)
        /\ IterInit

AtEnd == current_global_idx >= total_items

NextEnds ==
  /\ AtEnd /\ answer' = End
  /\ UNCHANGED <<file, current_global_idx, current_shard_idx, current_items_in_shard>>

\* The head of `items` is handed out, the rest is kept.
HandOut(items) ==
  /\ answer' = Item(Head(items))
  /\ current_items_in_shard' = Tail(items)
  /\ current_global_idx' = current_global_idx + 1
  /\ UNCHANGED file

NextFromShard ==
  /\ ~AtEnd /\ current_items_in_shard # <<>>
  /\ HandOut(current_items_in_shard)
  /\ UNCHANGED current_shard_idx

\* read_slice_from_shard: the items of the idx-th shard.
ItemsOf(idx) ==
  LET job == ShardJobs(shard_runs)[idx + 1]
  IN [j \in 1 .. job.expected |-> job.start + j - 1]

NeedsShard == ~AtEnd /\ current_items_in_shard = <<>>

\* The next shard is loaded and next() calls itself: its first item is the answer.
NextLoads ==
  /\ NeedsShard /\ current_shard_idx < child_count /\ current_shard_idx \notin unreadable
  /\ HandOut(ItemsOf(current_shard_idx))
  /\ current_shard_idx' = current_shard_idx + 1

\* Mutant: a shard that fails is left behind.
ShardAfterError == current_shard_idx + 1

\* The shard stays the next one: every later call fails as this one does.
ShardKept == current_shard_idx

NextFails ==
  /\ NeedsShard
  /\ current_shard_idx < child_count => current_shard_idx \in unreadable
  /\ answer' = Error
  /\ current_shard_idx' = ShardKept
  /\ UNCHANGED <<file, current_global_idx, current_items_in_shard>>

Next == NextEnds \/ NextFromShard \/ NextLoads \/ NextFails

Spec == Init /\ [][Next]_vars
-----------------------------------------------------------------------------
\* The buffered items are those that come next, and end where a shard does.
IterTypeOK ==
  /\ current_global_idx \in 0 .. total_items
  /\ current_shard_idx \in 0 .. child_count
  /\ \A j \in DOMAIN current_items_in_shard :
       current_items_in_shard[j] = current_global_idx + j - 1
  /\ current_global_idx + Len(current_items_in_shard)
       = (IF current_shard_idx = 0 THEN 0
          ELSE LET job == ShardJobs(shard_runs)[current_shard_idx]
               IN job.start + job.expected)

\* next() keeps the promise of an ItemStream that does not resume: no item is
\* skipped, repeated or handed out after an error, and the end is reported only
\* when the container's count is reached.
Stream == INSTANCE ItemStream WITH
  Resumes <- FALSE, total <- total_items, passed <- current_global_idx,
  failed <- answer = Error

KeepsPromise == Stream!Spec
=============================================================================
