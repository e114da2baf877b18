---------------------------- MODULE ParallelStitch ----------------------------
(***************************************************************************)
(* decode_parallel_collection: the shards of a vector are decoded by Rayon *)
(* tasks, each writing its items into its own region of one uninitialised  *)
(* buffer, which becomes the result when no task failed.                   *)
(*                                                                         *)
(* An item is its place in the saved vector.  The file may be damaged in    *)
(* the fields Damage names; a payload that cannot be decoded is "item".    *)
(***************************************************************************)
EXTENDS ShardTable, Integers

CONSTANTS SavedRuns,    \* the run tables considered, as VecShards makes them
          Damage,       \* what of a file may be damaged, of "total", "children",
                        \* "length" and "item", and "panic" if a decoder may
          Builds        \* which of the cfg-selected loops are compiled in, of
                        \* "parallel", "sequential" and "neither"

VARIABLES runs,           \* the shard_runs in the container's payload
          build,
          total_items,    \* the u64 before the runs
          child_count,    \* shards in the container's footer
          result_buffer,
          pc,             \* shard -> where its task is
          len,            \* shard -> the length its payload begins with
          written,        \* shard -> items written so far
          outcome

vars == <<runs, build, total_items, child_count, result_buffer, pc, len, written, outcome>>
file == <<runs, build, total_items, child_count>>

Uninit == ItemsIn(runs)     \* the place of no item
Shard == 1 .. ShardsIn(runs)

\* A number read from the file: one more or less where it may be damaged.
Read(field, n) ==
  {n} \cup (IF field \in Damage THEN {n - 1, n + 1} \cap Nat ELSE {})

LoadInit ==
  /\ build = "none"
  /\ total_items = 0 /\ child_count = 0
  /\ result_buffer = <<>>
  /\ pc = <<>> /\ len = <<>> /\ written = <<>>
  /\ outcome = "not called"

Init == runs \in SavedRuns /\ LoadInit

\* The container's chunk is looked up and its payload parsed: the buffer is
\* allocated, or refused when count and table disagree.
Parse ==
  /\ outcome = "not called"
  /\ build' \in Builds
  /\ total_items' \in Read("total", ItemsIn(runs))
  /\ child_count' \in Read("children", ShardsIn(runs))
  /\ IF ItemsIn(runs) = total_items'
       THEN /\ outcome' = IF Shard = {} THEN "ok" ELSE "decode"
            /\ result_buffer' = [i \in 0 .. total_items' - 1 |-> Uninit]
       ELSE outcome' = "err" /\ UNCHANGED result_buffer
  /\ pc' = [s \in Shard |-> "todo"]
  /\ len' = [s \in Shard |-> 0]
  /\ written' = [s \in Shard |-> 0]
  /\ UNCHANGED runs

Ended == {"done", "failed", "panicked", "skipped"}
Any(how) == \E s \in DOMAIN pc : pc[s] = how

\* The plain loop takes the shards in order, Rayon in any.
MayStart(s) ==
  /\ outcome = "decode" /\ pc[s] = "todo"
  /\ \/ build = "parallel"
     \/ build = "sequential" /\ \A t \in Shard : t < s => pc[t] = "done"

Step(s, from, to) == pc[s] = from /\ pc' = [pc EXCEPT ![s] = to]

\* get_child_by_index, read_raw, and the length prefix with its bounds check.
StartShard(s) ==
  /\ MayStart(s)
  /\ \E n \in Read("length", ShardJobs(runs)[s].expected) :
       /\ Step(s, "todo", IF s > child_count \/ n > ShardJobs(runs)[s].expected
                            THEN "failed" ELSE "running")
       /\ len' = [len EXCEPT ![s] = n]
  /\ UNCHANGED <<file, result_buffer, written, outcome>>

\* The item's place in the saved vector: shards were cut one after another.
SavedItem(s, j) ==
  LET base[t \in Shard] == IF t = 1 THEN 0 ELSE base[t - 1] + ShardJobs(runs)[t - 1].expected
  IN base[s] + j

Destination(s) == ShardJobs(runs)[s].start + written[s]

MoreItems(s) == written[s] < len[s]

DecodeItem(s) ==
  /\ pc[s] = "running" /\ MoreItems(s)
  /\ result_buffer' = [result_buffer EXCEPT ![Destination(s)] = SavedItem(s, written[s])]
  /\ written' = [written EXCEPT ![s] = @ + 1]
  /\ UNCHANGED <<file, pc, len, outcome>>

\* Mutant: a shard that fails is tried again from where it stood.
DecodeRetried(s) ==
  /\ MoreItems(s)
  /\ "item" \in Damage /\ Step(s, "running", "todo")
  /\ UNCHANGED <<file, result_buffer, len, written, outcome>>

DecodeFails(s) ==
  /\ MoreItems(s)
  /\ \/ "item" \in Damage /\ Step(s, "running", "failed")
     \/ "panic" \in Damage /\ Step(s, "running", "panicked")
  /\ UNCHANGED <<file, result_buffer, len, written, outcome>>

\* Mutant: a short shard is taken for a whole one.
AsManyAsThere(s) == written[s] = len[s]

AsManyAsExpected(s) == written[s] = ShardJobs(runs)[s].expected

EndShard(s) ==
  /\ written[s] = len[s]
  /\ Step(s, "running", IF AsManyAsExpected(s) THEN "done" ELSE "failed")
  /\ UNCHANGED <<file, result_buffer, len, written, outcome>>

\* try_for_each starts no further shard once it has seen one fail; the plain
\* loop starts none after it was left.
Skip(s) ==
  /\ Any("failed") \/ (build = "sequential" /\ Any("panicked"))
  /\ Step(s, "todo", "skipped")
  /\ UNCHANGED <<file, result_buffer, len, written, outcome>>

AllEnded == build = "neither" \/ \A s \in Shard : pc[s] \in Ended

\* The buffer becomes the result, or is dropped with its items leaked.
Return ==
  /\ outcome = "decode" /\ AllEnded
  /\ outcome' = IF Any("panicked") THEN "panic" ELSE IF Any("failed") THEN "err" ELSE "ok"
  /\ UNCHANGED <<file, result_buffer, pc, len, written>>

Over == outcome \in {"ok", "err", "panic"}
Returned == Over /\ UNCHANGED vars

Task(s) == \/ StartShard(s) \/ DecodeItem(s) \/ DecodeFails(s) \/ EndShard(s) \/ Skip(s)

Decode == Return \/ \E s \in DOMAIN pc : Task(s)

Next == Parse \/ Decode \/ Returned

Spec == Init /\ [][Next]_vars
-----------------------------------------------------------------------------
LoadTypeOK ==
  /\ runs \in Seq(ShardRun)
  /\ total_items \in Nat /\ child_count \in Nat
  /\ result_buffer \in [DOMAIN result_buffer -> 0 .. Uninit]
  /\ outcome # "not called" =>
       /\ pc \in [Shard -> {"todo", "running"} \cup Ended]
       /\ len \in [Shard -> Nat]
       /\ \A s \in Shard : written[s] \in 0 .. len[s]
  /\ outcome \in {"not called", "decode", "ok", "err", "panic"}

\* Every write goes into the buffer, and into a place no other task writes to,
\* for the tasks share the buffer by address alone; and there is none left when
\* the call has returned, for the buffer is freed then.
WritesApart ==
  \A s \in DOMAIN pc : pc[s] = "running" =>
    /\ outcome = "decode"
    /\ MoreItems(s) => Destination(s) \in DOMAIN result_buffer
    /\ \A t \in Shard \ {s} :
         LET job == ShardJobs(runs)
         IN \/ job[s].start + len[s] <= job[t].start
            \/ job[t].start + job[t].expected <= job[s].start

\* No uninitialised item is ever handed out: Ok is returned only with every
\* item in its place, whatever was damaged and whoever finished first.
OkMeansLoaded ==
  outcome = "ok" =>
    /\ DOMAIN result_buffer = 0 .. ItemsIn(runs) - 1
    /\ \A i \in DOMAIN result_buffer : result_buffer[i] = i
=============================================================================
