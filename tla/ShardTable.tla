----------------------------- MODULE ShardTable -----------------------------
(***************************************************************************)
(* The run-length table of a vector's container: a sequence of ShardRuns,   *)
(* each `repeat` shards of `item_count` items.  Shards and items are        *)
(* numbered from 0, as in the code.                                        *)
(***************************************************************************)
EXTENDS Naturals, Sequences

ShardRun == [item_count : Nat, repeat : Nat]

\* <[T]>::chunks(per): every chunk is full but possibly the last.
Chunks(total, per) ==
  [k \in 1 .. (total + per - 1) \div per |->
     IF k * per <= total THEN per ELSE total - (k - 1) * per]

\* Items, and shards, of the first r runs.
ItemsBefore(runs) ==
  LET items[r \in 0 .. Len(runs)] ==
        IF r = 0 THEN 0 ELSE items[r - 1] + runs[r].item_count * runs[r].repeat
  IN items

ShardsBefore(runs) ==
  LET shards[r \in 0 .. Len(runs)] ==
        IF r = 0 THEN 0 ELSE shards[r - 1] + runs[r].repeat
  IN shards

ItemsIn(runs) == ItemsBefore(runs)[Len(runs)]
ShardsIn(runs) == ShardsBefore(runs)[Len(runs)]

\* Mutant: the start is computed as if all shards were alike.
UniformStart(runs, r, k) == (k - 1) * runs[r].item_count

\* Where the k-th shard, of run r, starts: current_global_idx.
ShardStart(runs, r, k) ==
  ItemsBefore(runs)[r - 1] + (k - 1 - ShardsBefore(runs)[r - 1]) * runs[r].item_count

\* "Expand RLE to Jobs": for each shard the first item and the items expected.
ShardJobs(runs) ==
  [k \in 1 .. ShardsIn(runs) |->
     LET r == CHOOSE r \in DOMAIN runs :
                ShardsBefore(runs)[r - 1] < k /\ k <= ShardsBefore(runs)[r]
     IN [start |-> ShardStart(runs, r, k), expected |-> runs[r].item_count]]

\* Mutant: the shards of earlier runs are not counted.
ShardInRun(runs, r, offset) == offset \div runs[r].item_count

ShardOf(runs, r, offset) ==
  ShardsBefore(runs)[r - 1] + offset \div runs[r].item_count

\* resolve_rle_index: the first run that reaches beyond the index.
ResolveRleIndex(runs, index) ==
  LET r == CHOOSE r \in DOMAIN runs :
             /\ index < ItemsBefore(runs)[r]
             /\ \A q \in DOMAIN runs : index < ItemsBefore(runs)[q] => r <= q
      offset == index - ItemsBefore(runs)[r - 1]
  IN <<ShardOf(runs, r, offset), offset % runs[r].item_count>>

IndexOutOfBounds(runs, index) == ItemsIn(runs) <= index
=============================================================================
