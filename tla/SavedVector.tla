----------------------------- MODULE SavedVector -----------------------------
(***************************************************************************)
(* A vector saved and then read: Vec::visit makes the container, and a     *)
(* client either loads it as a whole, in parallel, or opens it lazily.     *)
(* Chunks of the file may have become unreadable by then; the lazy client  *)
(* goes through it with ChunkNode::iter and the lazy iterator side by side, *)
(* and may ask for any index at any time.  The iterators share nothing but *)
(* the file: calling them in turn loses no behaviour.                      *)
(***************************************************************************)
EXTENDS VecShards

CONSTANTS Fields,          \* chunkable fields of an item
          MaxUnreadable,   \* bound on the unreadable chunks
          MaxLoaded,       \* bounds on the vectors loaded in parallel: shards,
          MaxLoadedItems,  \* and items
          Damage, Builds   \* of ParallelStitch

ASSUME SavedVectorAssumption ==
  /\ Fields \in Nat \ {0} /\ MaxUnreadable \in Nat
  /\ MaxLoaded \in Nat /\ MaxLoadedItems \in Nat
  /\ Damage \subseteq {"total", "children", "length", "item", "panic"}
  /\ Builds \subseteq {"parallel", "sequential", "neither"}

VARIABLES client, unreadable,
          e_global_idx, e_shard_idx, e_items, e_answer,
          l_len, l_shards, l_pos, l_children, l_left, l_yielded, l_answer,
          p_build, p_total, p_children, p_buffer, p_pc, p_len, p_written, p_outcome

\* read_slice_from_shard reads the fields of every item: a shard fails with any
\* of them.
SliceUnreadable ==
  {k - 1 : k \in {j \in DOMAIN ShardJobs(shard_runs) :
     LET job == ShardJobs(shard_runs)[j]
     IN \/ j \in unreadable.shards
        \/ \E i \in unreadable.items : job.start <= i /\ i < job.start + job.expected}}

Eager == INSTANCE ChunkIterator WITH
  total_items <- total_len, unreadable <- SliceUnreadable,
  current_global_idx <- e_global_idx, current_shard_idx <- e_shard_idx,
  current_items_in_shard <- e_items, answer <- e_answer

Lazy == INSTANCE CollectionPromise WITH
  total_items <- total_len, node_len <- l_len, shards <- l_shards, current_pos <- l_pos,
  current_children <- l_children, items_left_in_shard <- l_left,
  items_yielded <- l_yielded, answer <- l_answer

Whole == INSTANCE ParallelStitch WITH
  SavedRuns <- {}, runs <- shard_runs, build <- p_build, total_items <- p_total,
  child_count <- p_children, result_buffer <- p_buffer, pc <- p_pc, len <- p_len,
  written <- p_written, outcome <- p_outcome

eagerVars == <<e_global_idx, e_shard_idx, e_items, e_answer>>
lazyVars == <<l_len, l_shards, l_pos, l_children, l_left, l_yielded, l_answer>>
wholeVars == <<p_build, p_total, p_children, p_buffer, p_pc, p_len, p_written, p_outcome>>
vars == <<visitVars, client, unreadable, eagerVars, lazyVars, wholeVars>>

Init == /\ VisitInit
        /\ client = "none"
        /\ unreadable = [container |-> FALSE, shards |-> {}, items |-> {}]
        /\ l_len = 0
        /\ Eager!IterInit /\ Lazy!IterInit /\ Whole!LoadInit

Save == Visit /\ UNCHANGED <<client, unreadable, eagerVars, lazyVars, wholeVars>>

\* Some chunks turn out to be unreadable, and iter_lazy is called.
Open ==
  /\ phase = "done" /\ client = "none"
  /\ client' = "lazy"
  /\ UNCHANGED <<visitVars, eagerVars, wholeVars, l_shards, l_pos, l_children, l_left,
                 l_yielded, l_answer>>
  /\ \/ unreadable' = [unreadable EXCEPT !.container = TRUE]
     \/ \E bad \in 0 .. MaxUnreadable :
        \E inShards \in 0 .. bad :
          /\ inShards <= Len(chunks) /\ bad - inShards <= total_len
          /\ \E S \in kSubset(inShards, DOMAIN chunks),
                I \in kSubset(bad - inShards, 0 .. total_len - 1) :
               unreadable' = [unreadable EXCEPT !.shards = S, !.items = I]
  /\ l_len' = Lazy!PromiseLen'

\* next() of both iterators; `iter` makes none of a container it cannot read.
Iterate ==
  /\ client = "lazy"
  /\ UNCHANGED <<visitVars, client, unreadable, wholeVars>>
  /\ Lazy!Next
  /\ IF unreadable.container THEN UNCHANGED eagerVars ELSE Eager!Next

Load ==
  /\ phase = "done" /\ client = "none"
  /\ Len(chunks) <= MaxLoaded /\ total_len <= MaxLoadedItems
  /\ client' = "load"
  /\ UNCHANGED <<visitVars, unreadable, eagerVars, lazyVars>>
  /\ Whole!Parse

Decode == /\ Whole!Decode
          /\ UNCHANGED <<visitVars, client, unreadable, eagerVars, lazyVars>>

Loaded == Whole!Over /\ UNCHANGED vars

Next == Save \/ Open \/ Iterate \/ Load \/ Decode \/ Loaded

\* A client that goes on calling next(), after errors too; and Rayon, which runs
\* every job it was given, none of which waits for another.
Spec == Init /\ [][Next]_vars /\ WF_vars(Iterate) /\ WF_vars(Decode)
-----------------------------------------------------------------------------
TypeOK == /\ VisitTypeOK /\ Eager!IterTypeOK /\ Lazy!IterTypeOK /\ Whole!LoadTypeOK
          /\ client \in {"none", "lazy", "load"}

\* The streaming iterator implements an ItemStream that does not resume, on
\* every container a visit makes: all items in order up to the first shard that
\* cannot be read, and no item after it.
IterKeepsPromise == Eager!KeepsPromise

\* The lazy iterator implements one that resumes: the same items up to the first
\* error, and after it the other shards' items, once each and in order.
LazyKeepsPromise == Lazy!KeepsPromise

\* Payload and children of a shard advance together: a mirror has another item's
\* chunks only after an item of its own shard could not be read.
MirrorsOwnChunks == Lazy!OwnChunks

\* size_hint of the lazy iterator neither underflows nor promises too little.
RemainingLenCovers == client = "lazy" => Lazy!LenCoversRest

\* "Uses O(1) arithmetic navigation", "Retrieves a Lazy Proxy for the item at
\* `index`", "Returns the first item as a lazy mirror, or None if empty"
\* (rt.rs:122-212): the promise gives what the iterators and the load give.  Its
\* answers depend on the file alone, so that one state for each file is enough.
PromiseAgrees == client = "lazy" /\ l_shards = 0 => Lazy!IndicesGetTheirItems /\ Lazy!EndsAreTrue

\* The tasks that decode the shards of a vector write apart, and into the buffer.
WritesApart == Whole!WritesApart

\* And no uninitialised or misplaced item of it is ever handed out.
OkMeansLoaded == Whole!OkMeansLoaded

\* Whatever is unreadable a lazy iteration comes to its end, and whatever its
\* shards do the load of a vector returns.
ReadsEnd == /\ client = "lazy" ~> l_answer.how = "end"
            /\ client = "load" ~> Whole!Over
=============================================================================
