-------------------------- MODULE CollectionPromise --------------------------
(***************************************************************************)
(* ParcodeCollectionPromise, the lazy mirror of a vector: len, get,        *)
(* get_lazy, first and last of a saved container.  They change nothing and *)
(* are operators; iter_lazy is the LazyIterator this module extends.       *)
(***************************************************************************)
EXTENDS LazyIterator

None == [how |-> "none"]      \* Ok(None)

\* ChunkNode::len: the count in the container, or 0 for whatever goes wrong.
PromiseLen == IF unreadable.container THEN 0 ELSE total_items

\* locate_shard_item and the first half of ChunkNode::get: the shard that holds
\* the item, unless the table, the index or the shard is no good.
Located(index) ==
  /\ ~unreadable.container
  /\ ~IndexOutOfBounds(shard_runs, index)
  /\ ResolveRleIndex(shard_runs, index)[1] + 1 \notin unreadable.shards

ShardAt(index) == ResolveRleIndex(shard_runs, index)[1] + 1
PlaceInShard(index) == ResolveRleIndex(shard_runs, index)[2]

\* get decodes the whole shard, the fields of every item of it, and takes the
\* item at its place.
PromiseGet(index) ==
  IF ~Located(index) THEN Error
  ELSE LET job == Jobs[ShardAt(index)]
       IN IF \E j \in 0 .. job.expected - 1 : job.start + j \in unreadable.items THEN Error
          ELSE Item(job.start + PlaceInShard(index))

\* Mutant: an item is passed over with one child, however many fields it has.
OneChildEach(n) == n

ChildrenPassed(n) == n * Fields

\* get_lazy reads the items before it as mirrors and throws them away: one that
\* cannot be read ends the call.
MirrorAt(s, j) ==
  Mirror(Jobs[s].start + j,
         SubSeq(ChildrenOf(s), ChildrenPassed(j) + 1, Len(ChildrenOf(s))))

PromiseGetLazy(index) ==
  IF ~Located(index) THEN Error
  ELSE LET s == ShardAt(index)
       IN IF \E j \in 0 .. PlaceInShard(index) - 1 : MirrorAt(s, j) = Error THEN Error
          ELSE MirrorAt(s, PlaceInShard(index))

First == IF PromiseLen = 0 THEN None ELSE PromiseGetLazy(0)
LastIndex == PromiseLen - 1
Last == IF PromiseLen = 0 THEN None ELSE PromiseGetLazy(LastIndex)
-----------------------------------------------------------------------------
\* Every index gets its own item, with its own chunks, or an error, and an error
\* only for a reason; what get can read, get_lazy can too; and no index beyond
\* the end gets anything.
IndicesGetTheirItems ==
  \A index \in 0 .. total_items :
    LET whole == PromiseGet(index) mirror == PromiseGetLazy(index)
    IN /\ whole \in {Item(index), Error} /\ mirror \in {Item(index), Error}
       /\ index = total_items => mirror = Error
       /\ whole = Item(index) => mirror = whole
       /\ mirror = Error =>
            \/ index = total_items
            \/ unreadable.container \/ unreadable.shards # {}
            \/ \E i \in unreadable.items : i <= index

\* first and last are the ends of what was saved, and None only of a collection
\* that is empty, or that says so because its count cannot be read.
EndsAreTrue ==
  /\ First = None <=> (total_items = 0 \/ unreadable.container)
  /\ Last = None <=> First = None
  /\ First # None => /\ First = PromiseGetLazy(0)
                     /\ Last = PromiseGetLazy(total_items - 1)
=============================================================================
