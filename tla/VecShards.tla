------------------------------ MODULE VecShards ------------------------------
(***************************************************************************)
(* Vec::visit: how many items go into a shard, and the run-length table    *)
(* that the container keeps of the shards.  An item is only its place in    *)
(* the vector; avg_item_size is what sampling the first items gave.         *)
(***************************************************************************)
EXTENDS ShardTable, FiniteSetsExt

CONSTANTS TARGET_SHARD_SIZE_BYTES, MIN_SHARD_SIZE_BYTES, TASKS_PER_CORE,
          MaxLen, MaxItemSize, MaxCpus      \* bounds on the inputs

ASSUME ShardSizeAssumption ==
  /\ MIN_SHARD_SIZE_BYTES \in Nat \ {0}
  /\ TARGET_SHARD_SIZE_BYTES \in Nat \ {0}
  /\ MIN_SHARD_SIZE_BYTES <= TARGET_SHARD_SIZE_BYTES
  /\ TASKS_PER_CORE \in Nat \ {0}
  /\ MaxLen \in Nat /\ MaxItemSize \in Nat /\ MaxCpus \in Nat

VARIABLES total_len, avg_item_size, num_cpus,   \* inputs of the visit
          chunks,                               \* lengths of the slices
          counted,                              \* slices the loop has seen
          shard_runs, current_run,
          phase

visitVars == <<total_len, avg_item_size, num_cpus, chunks, counted, shard_runs,
          current_run, phase>>

inputs == <<total_len, avg_item_size, num_cpus>>

NoRun == [item_count |-> 0, repeat |-> 0]

VisitInit ==
  /\ total_len \in 0 .. MaxLen
  /\ avg_item_size \in 1 .. MaxItemSize
  /\ num_cpus \in 1 .. MaxCpus
  /\ chunks = <<>>
  /\ counted = 0
  /\ shard_runs = <<>>
  /\ current_run = NoRun
  /\ phase = "visit"

target_parallel_chunks == num_cpus * TASKS_PER_CORE

CountByIo == Max({TARGET_SHARD_SIZE_BYTES \div avg_item_size, 1})

\* Mutant: rounded up, so that some core goes without.
CountByCpuUp == (total_len + target_parallel_chunks - 1) \div target_parallel_chunks

CountByCpu == Max({total_len \div target_parallel_chunks, 1})
CandidateCount == Min({CountByIo, CountByCpu})

\* The candidate, unless a shard of it would be below the minimum.
ItemsPerShard ==
  IF total_len = 0 THEN 1
  ELSE IF CandidateCount * avg_item_size < MIN_SHARD_SIZE_BYTES
         THEN Max({MIN_SHARD_SIZE_BYTES \div avg_item_size, 1})
         ELSE CandidateCount

\* The vector is sliced; the first run is opened with the first slice's length.
Slice ==
  /\ phase = "visit"
  /\ chunks' = Chunks(total_len, ItemsPerShard)
  /\ IF chunks' = <<>>
       THEN phase' = "done" /\ UNCHANGED current_run
       ELSE /\ phase' = "count"
            /\ current_run' = [item_count |-> chunks'[1], repeat |-> 0]
  /\ UNCHANGED <<inputs, counted, shard_runs>>

\* Mutant: a new run opens empty, as the first one does.
FirstRepeat == 0

NewRunRepeat == 1

CountShard ==
  /\ phase = "count" /\ counted < Len(chunks)
  /\ LET len == chunks[counted + 1]
     IN IF len = current_run.item_count
          THEN /\ current_run' = [current_run EXCEPT !.repeat = @ + 1]
               /\ UNCHANGED shard_runs
          ELSE /\ shard_runs' = Append(shard_runs, current_run)
               /\ current_run' = [item_count |-> len, repeat |-> NewRunRepeat]
  /\ counted' = counted + 1
  /\ UNCHANGED <<inputs, chunks, phase>>

AllRuns == Append(shard_runs, current_run)

PushLastRun ==
  /\ phase = "count" /\ counted = Len(chunks)
  /\ shard_runs' = AllRuns
  /\ current_run' = NoRun
  /\ phase' = "done"
  /\ UNCHANGED <<inputs, chunks, counted>>

Visited == phase = "done" /\ UNCHANGED visitVars

Visit == Slice \/ CountShard \/ PushLastRun \/ Visited

VisitSpec == VisitInit /\ [][Visit]_visitVars
-----------------------------------------------------------------------------
VisitTypeOK ==
  /\ total_len \in Nat /\ avg_item_size \in Nat \ {0} /\ num_cpus \in Nat \ {0}
  /\ chunks \in Seq(Nat \ {0})
  /\ counted \in 0 .. Len(chunks)
  /\ shard_runs \in Seq([item_count : Nat \ {0}, repeat : Nat \ {0}])
  /\ current_run \in ShardRun
  /\ phase \in {"visit", "count", "done"}

\* The writer's table and the reader's arithmetic agree.  For every index `get`
\* and `get_lazy` compute the slice that holds the item and its place in it, and
\* any other index is an error.
ResolvesEveryIndex ==
  \A index \in 0 .. MaxLen :
    IF index < total_len
      THEN /\ ~IndexOutOfBounds(shard_runs, index)
           /\ ResolveRleIndex(shard_runs, index)
                = <<index \div ItemsPerShard, index % ItemsPerShard>>
      ELSE IndexOutOfBounds(shard_runs, index)

\* And the destinations the decoding tasks are given cover the result exactly:
\* each shard's begins where the one before it ends, the last ends at total_len.
JobsTileResult ==
  LET jobs == ShardJobs(shard_runs)
  IN /\ Len(jobs) = Len(chunks)
     /\ \A k \in DOMAIN jobs :
          /\ jobs[k].expected = chunks[k]
          /\ jobs[k].start = (k - 1) * ItemsPerShard
          /\ jobs[k].start + jobs[k].expected
               = (IF k = Len(jobs) THEN total_len ELSE jobs[k + 1].start)

\* Both, of the table that a visit of the vector leaves in its container.
TableMatchesSlices == phase = "done" => ResolvesEveryIndex /\ JobsTileResult

\* "enough chunks are created to feed all available cores", whenever there are
\* items enough and the minimum size does not forbid it, ...
FeedsEveryCore ==
  total_len > 0 /\ CandidateCount * avg_item_size >= MIN_SHARD_SIZE_BYTES
    => Len(chunks) >= Min({total_len, target_parallel_chunks})

\* ... "(down to a floor of 4KB)", to which a shard may lack no whole item, and
\* no shard of several items is larger than the target.  The last may be short.
WithinFloorAndTarget ==
  \A k \in DOMAIN chunks :
    LET size == chunks[k] * avg_item_size
    IN /\ k < Len(chunks) => size + avg_item_size > MIN_SHARD_SIZE_BYTES
       /\ chunks[k] > 1 => size <= TARGET_SHARD_SIZE_BYTES

\* What the tuning constants promise (visitor_impls.rs:5-8, 22-30).
ShardsWellSized == phase = "done" => FeedsEveryCore /\ WithinFloorAndTarget
=============================================================================
