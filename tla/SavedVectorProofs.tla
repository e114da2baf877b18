-------------------------- MODULE SavedVectorProofs --------------------------
(***************************************************************************)
(* Proofs about vectors, for every length, size of items, number of cores  *)
(* and set of unreadable chunks: the table a visit leaves, and the readers  *)
(* that go by it.                                                          *)
(***************************************************************************)
EXTENDS SavedVector, SequenceTheorems, WellFoundedInduction, TLAPS

NonEmptyRun == [item_count : Nat \ {0}, repeat : Nat \ {0}]

\* How a vector is cut into slices of `per` items: all are full but the last,
\* which ends where the vector does.
SlicesOf(cs, total, per) ==
  /\ cs \in Seq(Nat \ {0})
  /\ cs = <<>> <=> total = 0
  /\ \A k \in 1 .. Len(cs) :
       /\ k < Len(cs) => cs[k] = per
       /\ cs[k] <= per
       /\ (k - 1) * per + cs[k] = IF k = Len(cs) THEN total ELSE k * per

\* What the counting loop has made of the slices it has seen: only the last one
\* can differ from the first.
LastDiffers == chunks[Len(chunks)] # chunks[1]

CountTrue ==
  IF counted = Len(chunks) /\ LastDiffers
    THEN /\ shard_runs = <<[item_count |-> chunks[1], repeat |-> Len(chunks) - 1]>>
         /\ current_run = [item_count |-> chunks[Len(chunks)], repeat |-> 1]
    ELSE /\ shard_runs = <<>>
         /\ current_run = [item_count |-> chunks[1], repeat |-> counted]

\* The table of a container.
Table ==
  IF chunks = <<>> THEN <<>>
  ELSE IF LastDiffers
         THEN <<[item_count |-> chunks[1], repeat |-> Len(chunks) - 1],
                [item_count |-> chunks[Len(chunks)], repeat |-> 1]>>
         ELSE <<[item_count |-> chunks[1], repeat |-> Len(chunks)]>>

\* The run a shard is in (ShardJobs).
RunOf(k) == CHOOSE r \in DOMAIN shard_runs :
              ShardsBefore(shard_runs)[r - 1] < k /\ k <= ShardsBefore(shard_runs)[r]

\* The run an item is in (resolve_rle_index).
RunReaching(index) ==
  CHOOSE r \in DOMAIN shard_runs :
    /\ index < ItemsBefore(shard_runs)[r]
    /\ \A q \in DOMAIN shard_runs : index < ItemsBefore(shard_runs)[q] => r <= q

\* How the readers understand it: shard k holds the k-th slice.
TableTrue ==
  /\ shard_runs \in Seq(ShardRun)
  /\ ShardsIn(shard_runs) = Len(chunks)
  /\ ItemsIn(shard_runs) = total_len
  /\ ShardJobs(shard_runs)
       = [k \in 1 .. Len(chunks) |->
            [start |-> (k - 1) * ItemsPerShard, expected |-> chunks[k]]]

VisitTrue ==
  /\ VisitTypeOK
  /\ phase = "visit" => chunks = <<>> /\ counted = 0 /\ shard_runs = <<>>
  /\ phase # "visit" => chunks = Chunks(total_len, ItemsPerShard)
  /\ phase = "count" => chunks # <<>> /\ CountTrue
  /\ phase = "done" => shard_runs = Table

\* The first item of the s-th shard.
StartOf(s) == (s - 1) * ItemsPerShard

\* Where a load in parallel stands: what a task has written is in its place, and
\* what is written stays within its shard; a shard skipped is one of a load that
\* has failed.
Decoding ==
  /\ p_written \in [1 .. Len(chunks) -> Nat]
  /\ \A s \in 1 .. Len(chunks) :
       /\ p_written[s] <= chunks[s]
       /\ p_pc[s] = "todo" => p_written[s] = 0
       /\ p_pc[s] = "running" => p_outcome = "decode" /\ p_len[s] <= chunks[s]
       /\ p_pc[s] = "done" => p_written[s] = chunks[s]
       /\ p_pc[s] = "skipped" => Whole!Any("failed") \/ Whole!Any("panicked")
       /\ p_build = "neither" => p_pc[s] = "todo"
  /\ p_outcome \in {"decode", "ok"} =>
       /\ DOMAIN p_buffer = 0 .. total_len - 1
       /\ \A s \in 1 .. Len(chunks) : \A j \in 0 .. p_written[s] - 1 :
            p_buffer[StartOf(s) + j] = StartOf(s) + j
  /\ p_outcome = "ok" /\ p_build # "neither" =>
       \A s \in 1 .. Len(chunks) : p_pc[s] = "done"

LoadTrue ==
  /\ Whole!LoadTypeOK
  /\ client \in {"none", "lazy", "load"}
  /\ client # "none" => phase = "done"
  /\ client # "load" => p_outcome = "not called" /\ p_pc = <<>> /\ p_buffer = <<>>
  /\ client = "load" => p_build \in Builds /\ p_outcome # "not called" /\ Decoding

\* The items of the first s shards.
EndOf(s) == IF s = 0 THEN 0 ELSE StartOf(s) + chunks[s]

\* Where the streaming iterator stands: it keeps the rest of the shard before the
\* next one, and an error it has returned has not gone away.
EagerTrue ==
  IF client # "lazy"
    THEN e_global_idx = 0 /\ e_shard_idx = 0 /\ e_items = <<>> /\ e_answer = Eager!NotCalled
    ELSE /\ e_shard_idx \in 0 .. Len(chunks)
         /\ e_global_idx \in 0 .. total_len
         /\ e_items \in Seq(Nat)
         /\ \A j \in 1 .. Len(e_items) : e_items[j] = e_global_idx + j - 1
         /\ e_global_idx + Len(e_items) = EndOf(e_shard_idx)
         /\ e_answer = Eager!Error =>
              /\ e_items = <<>> /\ e_global_idx < total_len
              /\ e_shard_idx < Len(chunks) => e_shard_idx \in SliceUnreadable

\* The items of the unreadable ones among them.
LostBefore(m) ==
  LET items[s \in 0 .. m] ==
        IF s = 0 THEN 0
        ELSE items[s - 1] + (IF s \in unreadable.shards THEN Lazy!Jobs[s].expected ELSE 0)
  IN items[m]

\* The children left of a shard once `pos` of its items are read, all of them
\* whole.
ChildrenFrom(s, pos) ==
  SubSeq(Lazy!ChildrenOf(s), pos * Fields + 1, Len(Lazy!ChildrenOf(s)))

\* An item of the shard before the x-th of the vector could not be read.
BadBefore(s, x) == \E i \in unreadable.items : StartOf(s) <= i /\ i < x

\* The payload and the children of a shard have come as far, unless an item of it
\* before this one was unreadable.
ChildrenTrue(s, pos, left, children) ==
  /\ children \in Seq([place : Nat, field : 1 .. Fields])
  /\ left * Fields <= Len(children)
  /\ children = ChildrenFrom(s, pos) \/ BadBefore(s, StartOf(s) + pos)

InShard ==
  /\ l_pos + l_left = chunks[l_shards]
  /\ ChildrenTrue(l_shards, l_pos, l_left, l_children)

\* Where the lazy iterator stands.
LazyTrue ==
  IF client # "lazy"
    THEN /\ l_len = 0 /\ l_shards = 0 /\ l_pos = 0 /\ l_children = <<>> /\ l_left = 0
         /\ l_yielded = 0 /\ l_answer = Lazy!NotCalled
         /\ unreadable = [container |-> FALSE, shards |-> {}, items |-> {}]
    ELSE /\ l_len = IF unreadable.container THEN 0 ELSE total_len
         /\ unreadable.items \subseteq 0 .. total_len - 1
         /\ l_shards \in 0 .. Len(chunks) /\ l_pos \in Nat /\ l_left \in Nat /\ l_yielded \in Nat
         /\ Lazy!GivenUp \in Nat
         /\ l_yielded + Lazy!GivenUp + l_left = EndOf(l_shards)
         /\ IF l_shards = 0 THEN l_pos = 0 /\ l_left = 0
            ELSE IF l_shards \in unreadable.shards THEN l_left = 0 ELSE InShard
         /\ l_answer.how \in {"item", "mixed", "error", "end", "not called"}
         /\ Lazy!OwnChunks

Numbers(n, g) == \A r \in 1 .. n : g[r] \in Nat

\* f[r] is the sum of the first r of n numbers.
IsTotal(n, g, f) == f = [r \in 0 .. n |-> IF r = 0 THEN 0 ELSE f[r - 1] + g[r]]
-----------------------------------------------------------------------------
\* Division, as `/` and `%` of unsigned numbers have it.
LEMMA DivisionFacts ==
  ASSUME NEW a \in Nat, NEW b \in Nat \ {0}
  PROVE  /\ a \div b \in Nat /\ a % b \in 0 .. b - 1
         /\ a = (a \div b) * b + (a % b)
OBVIOUS

\* And there is only one quotient.
LEMMA DivisionUnique ==
  ASSUME NEW b \in Nat \ {0}, NEW q \in Nat, NEW r \in 0 .. b - 1
  PROVE  (q * b + r) \div b = q /\ (q * b + r) % b = r
<1> PICK a \in Nat : a = q * b + r  OBVIOUS
<1>1. a \div b = q  OBVIOUS
<1>2. a = (a \div b) * b + (a % b)  BY DivisionFacts
<1>. QED  BY <1>1, <1>2

\* A number below the divisor is its own remainder.
LEMMA SmallDivision ==
  ASSUME NEW b \in Nat \ {0}, NEW r \in 0 .. b - 1
  PROVE  r \div b = 0 /\ r % b = r
<1>1. 0 \in Nat /\ 0 * b + r = r  OBVIOUS
<1>. QED  BY <1>1, DivisionUnique

\* std::cmp::max and min, of two numbers.
LEMMA MaxOfTwo ==
  ASSUME NEW a \in Int, NEW b \in Int
  PROVE  Max({a, b}) = IF a >= b THEN a ELSE b
BY DEF Max

\* The same of the smaller one.
LEMMA MinOfTwo ==
  ASSUME NEW a \in Int, NEW b \in Int
  PROVE  Min({a, b}) = IF a <= b THEN a ELSE b
BY DEF Min

\* A function on 1 .. n is a sequence.
LEMMA FunctionIsSeq ==
  ASSUME NEW S, NEW n \in Nat, NEW f \in [1 .. n -> S]
  PROVE  f \in Seq(S) /\ Len(f) = n /\ (f = <<>> <=> n = 0)
<1>1. f \in Seq(S)  BY SeqDef
<1>2. DOMAIN f = 1 .. Len(f) /\ Len(f) \in Nat  BY <1>1, LenProperties
<1>3. Len(f) = n  BY <1>2
<1>. QED  BY <1>1, <1>3, EmptySeq

\* What is left of a sequence once its first k elements are taken.
LEMMA RestIsSeq ==
  ASSUME NEW S, NEW all \in Seq(S), NEW k \in Nat, k <= Len(all)
  PROVE  /\ SubSeq(all, k + 1, Len(all)) \in Seq(S)
         /\ Len(SubSeq(all, k + 1, Len(all))) = Len(all) - k
<1> PICK n \in Nat : n = Len(all)  BY LenProperties
<1>1. SubSeq(all, k + 1, n) = [i \in 1 .. 1 + n - (k + 1) |-> all[i + (k + 1) - 1]]
      BY DEF SubSeq
<1>2. 1 + n - (k + 1) = n - k /\ n - k \in Nat  OBVIOUS
<1>3. ASSUME NEW i \in 1 .. n - k PROVE all[i + (k + 1) - 1] \in S
  <2>1. i + (k + 1) - 1 \in 1 .. Len(all)  BY <1>2
  <2>. QED  BY <2>1, ElementOfSeq
<1>4. SubSeq(all, k + 1, n) \in [1 .. n - k -> S]  BY <1>1, <1>2, <1>3
<1>. QED  BY <1>2, <1>4, FunctionIsSeq

\* Induction, told with sets.
LEMMA AllNumbers ==
  ASSUME NEW T \in SUBSET Nat, 0 \in T, \A k \in T : k + 1 \in T
  PROVE  T = Nat
<1> SUFFICES ASSUME Nat \ T # {} PROVE FALSE  OBVIOUS
<1>1. PICK x \in Nat \ T : \A y \in Nat \ T : ~ (<<y, x>> \in OpToRel(<, Nat))
      BY WFMin, NatLessThanWellFounded
<1>2. \A y \in Nat \ T : ~ (y < x)  BY <1>1 DEF OpToRel
<1>3. x # 0 /\ x - 1 \in Nat /\ x - 1 < x /\ (x - 1) + 1 = x  OBVIOUS
<1>4. x - 1 \in T  BY <1>2, <1>3
<1>. QED  BY <1>3, <1>4

\* A running total of numbers exists, however many they are.
LEMMA TotalExists ==
  ASSUME NEW n \in Nat, NEW g, Numbers(n, g)
  PROVE  \E f : IsTotal(n, g, f)
<1> DEFINE Exists(m) == \E f \in [0 .. m -> Nat] : IsTotal(m, g, f)
           T == {m \in Nat : m <= n => Exists(m)}
<1> USE DEF Numbers, IsTotal
<1>1. Exists(0)
  <2> DEFINE f == [r \in 0 .. 0 |-> 0]
  <2>1. f \in [0 .. 0 -> Nat] /\ IsTotal(0, g, f)  OBVIOUS
  <2>. QED  BY <2>1
<1>2. ASSUME NEW m \in Nat, m + 1 <= n, Exists(m)
      PROVE  Exists(m + 1)
  <2>1. PICK f \in [0 .. m -> Nat] : IsTotal(m, g, f)  BY <1>2
  <2> DEFINE h == [r \in 0 .. m + 1 |-> IF r = m + 1 THEN f[m] + g[m + 1] ELSE f[r]]
  <2>2. g[m + 1] \in Nat  BY <1>2
  <2>3. h \in [0 .. m + 1 -> Nat]  BY <2>2
  <2>4. \A r \in 0 .. m : f[r] = IF r = 0 THEN 0 ELSE f[r - 1] + g[r]  BY <2>1
  <2>5. \A r \in 0 .. m + 1 : h[r] = IF r = 0 THEN 0 ELSE h[r - 1] + g[r]
    <3>1. h[m + 1] = h[(m + 1) - 1] + g[m + 1]  OBVIOUS
    <3>2. \A r \in 0 .. m : h[r] = f[r] /\ (r # 0 => r - 1 \in 0 .. m)  OBVIOUS
    <3> HIDE DEF h
    <3>3. \A r \in 0 .. m : h[r] = IF r = 0 THEN 0 ELSE h[r - 1] + g[r]  BY <2>4, <3>2
    <3>4. \A r \in 0 .. m + 1 : r \in 0 .. m \/ (r = m + 1 /\ r # 0)  OBVIOUS
    <3>. QED  BY <3>1, <3>3, <3>4
  <2>6. IsTotal(m + 1, g, h)  BY <2>3, <2>5
  <2>. QED  BY <2>3, <2>6
<1> HIDE DEF Exists
<1>3. 0 \in T /\ \A m \in T : m + 1 \in T  BY <1>1, <1>2
<1> HIDE DEF T
<1>4. T = Nat
  <2>1. T \in SUBSET Nat  BY DEF T
  <2>. QED  BY <1>3, <2>1, AllNumbers
<1>5. Exists(n)  BY <1>4 DEF T
<1>. QED  BY <1>5 DEF Exists

\* And it is what it should be: it starts at 0 and grows by each number.
LEMMA TotalSteps ==
  ASSUME NEW n \in Nat, NEW g, Numbers(n, g), NEW f, IsTotal(n, g, f)
  PROVE  /\ f \in [0 .. n -> Nat] /\ f[0] = 0
         /\ \A r \in 1 .. n : f[r] = f[r - 1] + g[r]
<1> USE DEF Numbers, IsTotal
<1> DEFINE T == {m \in Nat : m <= n => f[m] \in Nat}
<1>1. f[0] = 0 /\ \A r \in 1 .. n : f[r] = f[r - 1] + g[r]  OBVIOUS
<1>2. 0 \in T  BY <1>1
<1>3. ASSUME NEW m \in T PROVE m + 1 \in T
  <2>1. m + 1 <= n => f[m + 1] = f[(m + 1) - 1] + g[m + 1] /\ g[m + 1] \in Nat  BY <1>1
  <2>2. m + 1 <= n => f[m] \in Nat /\ (m + 1) - 1 = m  OBVIOUS
  <2>. QED  BY <2>1, <2>2
<1>4. T = Nat
  <2>1. T \in SUBSET Nat  OBVIOUS
  <2> HIDE DEF T
  <2>. QED  BY <1>2, <1>3, <2>1, AllNumbers
<1>5. \A m \in T : m <= n => f[m] \in Nat  OBVIOUS
<1> HIDE DEF T
<1>6. \A m \in 0 .. n : f[m] \in Nat  BY <1>4, <1>5
<1>. QED  BY <1>1, <1>6

\* Two running totals of the same numbers agree as far as both go.
LEMMA TotalsAgree ==
  ASSUME NEW n \in Nat, NEW m \in 0 .. n, NEW g, Numbers(n, g), NEW f, IsTotal(n, g, f),
         NEW h, IsTotal(m, g, h)
  PROVE  h[m] = f[m]
<1>1. Numbers(m, g)  BY DEF Numbers
<1>2. /\ f[0] = 0 /\ \A r \in 1 .. n : f[r] = f[r - 1] + g[r]
      /\ h[0] = 0 /\ \A r \in 1 .. m : h[r] = h[r - 1] + g[r]
      BY <1>1, TotalSteps
<1> DEFINE T == {k \in Nat : k <= m => h[k] = f[k]}
<1>3. 0 \in T  BY <1>2
<1>4. ASSUME NEW k \in T PROVE k + 1 \in T
  <2>1. k \in Nat /\ (k + 1) - 1 = k  OBVIOUS
  <2>. QED  BY <1>2, <2>1
<1>5. T \in SUBSET Nat /\ \A k \in T : k <= m => h[k] = f[k]  OBVIOUS
<1> HIDE DEF T
<1>6. T = Nat  BY <1>3, <1>4, <1>5, AllNumbers
<1>7. m \in Nat /\ m <= m  OBVIOUS
<1>. QED  BY <1>5, <1>6, <1>7
-----------------------------------------------------------------------------
\* The items before each run of a table, whatever table it is.
LEMMA ItemsBeforeSteps ==
  ASSUME NEW runs \in Seq(ShardRun)
  PROVE  /\ ItemsBefore(runs) \in [0 .. Len(runs) -> Nat] /\ ItemsBefore(runs)[0] = 0
         /\ \A r \in 1 .. Len(runs) :
              ItemsBefore(runs)[r] = ItemsBefore(runs)[r - 1] + runs[r].item_count * runs[r].repeat
<1> PICK n \in Nat : n = Len(runs)  OBVIOUS
<1> DEFINE g == [r \in 1 .. n |-> runs[r].item_count * runs[r].repeat]
<1>1. Numbers(n, g) /\ \A r \in 1 .. n : g[r] = runs[r].item_count * runs[r].repeat
  <2>1. ASSUME NEW r \in 1 .. n PROVE runs[r].item_count \in Nat /\ runs[r].repeat \in Nat
    <3>1. runs[r] \in ShardRun  OBVIOUS
    <3>. QED  BY <3>1 DEF ShardRun
  <2>2. \A a, b \in Nat : a * b \in Nat  OBVIOUS
  <2>. QED  BY <2>1, <2>2 DEF Numbers
<1> DEFINE Rec(f) == f = [r \in 0 .. Len(runs) |-> IF r = 0 THEN 0
                            ELSE f[r - 1] + runs[r].item_count * runs[r].repeat]
<1>2. ASSUME NEW f PROVE IsTotal(n, g, f) <=> Rec(f)
  <2>1. [r \in 0 .. n |-> IF r = 0 THEN 0 ELSE f[r - 1] + g[r]]
          = [r \in 0 .. Len(runs) |-> IF r = 0 THEN 0
               ELSE f[r - 1] + runs[r].item_count * runs[r].repeat]
    <3>1. \A r \in 0 .. n : r # 0 => r \in 1 .. n  OBVIOUS
    <3> HIDE DEF g
    <3>. QED  BY <1>1, <3>1
  <2>. QED  BY <2>1 DEF IsTotal
<1>3. ItemsBefore(runs) = CHOOSE f : Rec(f)  BY DEF ItemsBefore
<1> HIDE DEF g, Rec
<1>4. Rec(ItemsBefore(runs))
  <2>1. \E f : Rec(f)  BY <1>1, <1>2, TotalExists
  <2>. QED  BY <1>3, <2>1
<1>. QED  BY <1>1, <1>2, <1>4, TotalSteps

\* The shards before each run, likewise.
LEMMA ShardsBeforeSteps ==
  ASSUME NEW runs \in Seq(ShardRun)
  PROVE  /\ ShardsBefore(runs) \in [0 .. Len(runs) -> Nat] /\ ShardsBefore(runs)[0] = 0
         /\ \A r \in 1 .. Len(runs) :
              ShardsBefore(runs)[r] = ShardsBefore(runs)[r - 1] + runs[r].repeat
<1> PICK n \in Nat : n = Len(runs)  OBVIOUS
<1> DEFINE g == [r \in 1 .. n |-> runs[r].repeat]
<1>1. Numbers(n, g) /\ \A r \in 1 .. n : g[r] = runs[r].repeat
  <2>1. ASSUME NEW r \in 1 .. n PROVE runs[r].repeat \in Nat
    <3>1. runs[r] \in ShardRun  OBVIOUS
    <3>. QED  BY <3>1 DEF ShardRun
  <2>. QED  BY <2>1 DEF Numbers
<1> DEFINE Rec(f) == f = [r \in 0 .. Len(runs) |-> IF r = 0 THEN 0 ELSE f[r - 1] + runs[r].repeat]
<1>2. ASSUME NEW f PROVE IsTotal(n, g, f) <=> Rec(f)
  <2>1. [r \in 0 .. n |-> IF r = 0 THEN 0 ELSE f[r - 1] + g[r]]
          = [r \in 0 .. Len(runs) |-> IF r = 0 THEN 0 ELSE f[r - 1] + runs[r].repeat]
    <3>1. \A r \in 0 .. n : r # 0 => r \in 1 .. n  OBVIOUS
    <3> HIDE DEF g
    <3>. QED  BY <1>1, <3>1
  <2>. QED  BY <2>1 DEF IsTotal
<1>3. ShardsBefore(runs) = CHOOSE f : Rec(f)  BY DEF ShardsBefore
<1> HIDE DEF g, Rec
<1>4. Rec(ShardsBefore(runs))
  <2>1. \E f : Rec(f)  BY <1>1, <1>2, TotalExists
  <2>. QED  BY <1>3, <2>1
<1>. QED  BY <1>1, <1>2, <1>4, TotalSteps

\* So <[T]>::chunks cuts it.
LEMMA ChunksFacts ==
  ASSUME NEW total \in Nat, NEW per \in Nat \ {0}
  PROVE  SlicesOf(Chunks(total, per), total, per)
<1> DEFINE cs == Chunks(total, per)
<1>0. (total + per - 1) \div per \in Nat
  <2>1. total + per - 1 \in Nat  OBVIOUS
  <2>. QED  BY <2>1, DivisionFacts
<1> PICK n \in Nat : n = (total + per - 1) \div per  BY <1>0
<1> DEFINE size(k) == IF k * per <= total THEN per ELSE total - (k - 1) * per
<1>1. n * per < total + per /\ total <= n * per /\ (total > 0 <=> n > 0)  OBVIOUS
<1>2. ASSUME NEW k \in 1 .. n
      PROVE  /\ size(k) \in Nat \ {0} /\ size(k) <= per
             /\ k < n => size(k) = per
             /\ (k - 1) * per + size(k) = IF k = n THEN total ELSE k * per
  <2>1. PICK j \in Nat : k = j + 1  BY <1>2
  <2>2. k * per = j * per + per /\ (k - 1) * per = j * per /\ j * per \in Nat  BY <2>1
  <2>3. CASE k = n  BY <1>1, <2>2, <2>3
  <2>4. CASE k < n
    <3>0. n - k - 1 \in Nat /\ n = k + 1 + (n - k - 1)  BY <2>4
    <3>1. PICK m \in Nat : n = k + 1 + m  BY <3>0
    <3>2. n * per = k * per + per + m * per /\ m * per \in Nat  BY <3>1
    <3>3. k * per <= total  BY <1>1, <2>2, <3>2
    <3>. QED  BY <2>2, <2>4, <3>3
  <2>. QED  BY <2>3, <2>4
<1> HIDE DEF size
<1>3. cs = [k \in 1 .. n |-> size(k)]  BY DEF Chunks, size
<1>4. cs \in [1 .. n -> Nat \ {0}]  BY <1>2, <1>3
<1>5. cs \in Seq(Nat \ {0}) /\ Len(cs) = n /\ (cs = <<>> <=> n = 0)
      BY <1>4, FunctionIsSeq
<1>6. \A k \in 1 .. n : cs[k] = size(k)  BY <1>3
<1> HIDE DEF cs
<1>. QED  BY <1>1, <1>2, <1>5, <1>6 DEF SlicesOf, cs
-----------------------------------------------------------------------------
\* A shard has an item at least (the max(1) of Vec::visit).
LEMMA ItemsPerShardPositive ==
  ASSUME VisitTypeOK
  PROVE  /\ CountByIo \in Nat \ {0} /\ CountByCpu \in Nat \ {0}
         /\ CandidateCount \in Nat \ {0} /\ ItemsPerShard \in Nat \ {0}
         /\ target_parallel_chunks \in Nat \ {0}
<1> USE ShardSizeAssumption DEF VisitTypeOK
<1>1. target_parallel_chunks \in Nat \ {0}  BY DEF target_parallel_chunks
<1>2. /\ TARGET_SHARD_SIZE_BYTES \div avg_item_size \in Nat
      /\ MIN_SHARD_SIZE_BYTES \div avg_item_size \in Nat
      /\ total_len \div target_parallel_chunks \in Nat
      BY <1>1, DivisionFacts
<1>3. CountByIo \in Nat \ {0}  BY <1>2, MaxOfTwo DEF CountByIo
<1>4. CountByCpu \in Nat \ {0}  BY <1>2, MaxOfTwo DEF CountByCpu
<1>5. CandidateCount \in Nat \ {0}
  <2>1. \A a, b \in Nat \ {0} : Min({a, b}) \in Nat \ {0}  BY MinOfTwo
  <2>. QED  BY <1>3, <1>4, <2>1 DEF CandidateCount
<1>6. ItemsPerShard \in Nat \ {0}
  <2>1. \A a \in Nat : Max({a, 1}) \in Nat \ {0}  BY MaxOfTwo
  <2>2. ItemsPerShard \in {1, Max({MIN_SHARD_SIZE_BYTES \div avg_item_size, 1}), CandidateCount}
        BY DEF ItemsPerShard
  <2>3. Max({MIN_SHARD_SIZE_BYTES \div avg_item_size, 1}) \in Nat \ {0}  BY <1>2, <2>1
  <2>. QED  BY <1>5, <2>2, <2>3
<1>. QED  BY <1>1, <1>3, <1>4, <1>5, <1>6

\* The slices of a vector that was visited.
LEMMA SliceFacts ==
  ASSUME VisitTrue, phase # "visit"
  PROVE  SlicesOf(chunks, total_len, ItemsPerShard)
<1>1. total_len \in Nat /\ ItemsPerShard \in Nat \ {0}
      BY ItemsPerShardPositive DEF VisitTrue, VisitTypeOK
<1>2. chunks = Chunks(total_len, ItemsPerShard)  BY DEF VisitTrue
<1>. QED  BY <1>1, <1>2, ChunksFacts

\* Appending to a table of one run, or none.
LEMMA AppendShort ==
  ASSUME NEW x, NEW y
  PROVE  Append(<<>>, x) = <<x>> /\ Append(<<x>>, y) = <<x, y>>
<1> DEFINE S == {x, y}
<1>1. <<>> \in Seq(S) /\ <<x>> \in Seq(S) /\ <<x, y>> \in Seq(S) /\ x \in S /\ y \in S
      OBVIOUS
<1>2. Len(<<>>) = 0 /\ Len(<<x>>) = 1 /\ Len(<<x, y>>) = 2  OBVIOUS
<1> HIDE DEF S
<1>3. Append(<<>>, x) = <<x>>
  <2>1. /\ Append(<<>>, x) \in Seq(S) /\ Len(Append(<<>>, x)) = 1
        /\ Append(<<>>, x)[1] = x
        BY <1>1, <1>2, AppendProperties
  <2>. QED  BY <1>1, <1>2, <2>1, SeqEqual
<1>4. Append(<<x>>, y) = <<x, y>>
  <2>1. /\ Append(<<x>>, y) \in Seq(S) /\ Len(Append(<<x>>, y)) = 2
        /\ Append(<<x>>, y)[1] = x /\ Append(<<x>>, y)[2] = y
        BY <1>1, <1>2, AppendProperties
  <2>2. \A i \in 1 .. 2 : Append(<<x>>, y)[i] = <<x, y>>[i]  BY <2>1
  <2>. QED  BY <1>1, <1>2, <2>1, <2>2, SeqEqual
<1>. QED  BY <1>3, <1>4

\* A visit begins with nothing counted.
LEMMA VisitStarts == ASSUME VisitInit PROVE VisitTrue
<1>1. total_len \in Nat /\ avg_item_size \in Nat \ {0} /\ num_cpus \in Nat \ {0}
      BY ShardSizeAssumption DEF VisitInit
<1>2. <<>> \in Seq(Nat \ {0}) /\ <<>> \in Seq(NonEmptyRun) /\ Len(<<>>) = 0
      BY EmptySeq
<1>3. VisitTypeOK  BY <1>1, <1>2 DEF VisitInit, VisitTypeOK, NoRun, ShardRun, NonEmptyRun
<1>. QED  BY <1>3 DEF VisitInit, VisitTrue

\* The inputs of a visit stay, and with them the number of items in a shard.
LEMMA InputsStay ==
  ASSUME UNCHANGED inputs
  PROVE  ItemsPerShard' = ItemsPerShard
BY DEF inputs, ItemsPerShard, CandidateCount, CountByIo, CountByCpu, target_parallel_chunks

\* The loop over the slices keeps count of them.
LEMMA VisitStep == ASSUME VisitTrue, Visit PROVE VisitTrue'
<1> USE DEF VisitTrue
<1>1. CASE Slice
  <2>1. /\ UNCHANGED inputs /\ counted = 0 /\ counted' = 0
        /\ shard_runs = <<>> /\ shard_runs' = <<>>
        /\ chunks' = Chunks(total_len, ItemsPerShard)
        BY <1>1 DEF Slice
  <2>2. total_len \in Nat /\ ItemsPerShard \in Nat \ {0}
        BY ItemsPerShardPositive DEF VisitTypeOK
  <2>3. SlicesOf(chunks', total_len, ItemsPerShard)  BY <2>1, <2>2, ChunksFacts
  <2>4. chunks' \in Seq(Nat \ {0}) /\ Len(chunks') \in Nat  BY <2>3 DEF SlicesOf
  <2>5. chunks' = Chunks(total_len', ItemsPerShard')  BY <2>1, InputsStay DEF inputs
  <2>6. CASE chunks' = <<>>
    <3>1. phase' = "done" /\ current_run' = current_run  BY <1>1, <2>6 DEF Slice
    <3>2. VisitTypeOK'  BY <2>1, <2>4, <3>1 DEF VisitTypeOK, inputs
    <3>. QED  BY <2>1, <2>5, <2>6, <3>1, <3>2 DEF Table
  <2>7. CASE chunks' # <<>>
    <3>1. phase' = "count" /\ current_run' = [item_count |-> chunks'[1], repeat |-> 0]
          BY <1>1, <2>7 DEF Slice
    <3>2. Len(chunks') # 0 /\ chunks'[1] \in Nat \ {0}  BY <2>4, <2>7, EmptySeq, ElementOfSeq
    <3>3. VisitTypeOK'  BY <2>1, <2>4, <3>1, <3>2 DEF VisitTypeOK, inputs, ShardRun
    <3>4. CountTrue'  BY <2>1, <3>1, <3>2 DEF CountTrue
    <3>. QED  BY <2>1, <2>5, <2>7, <3>1, <3>3, <3>4
  <2>. QED  BY <2>6, <2>7
<1>2. CASE CountShard
  <2> PICK n \in Nat : n = Len(chunks)  BY DEF VisitTypeOK
  <2>1. /\ UNCHANGED <<inputs, chunks, phase>> /\ phase = "count"
        /\ counted < n /\ counted' = counted + 1
        BY <1>2 DEF CountShard
  <2>2. counted \in Nat /\ counted' \in 1 .. n /\ chunks # <<>>  BY <2>1 DEF VisitTypeOK
  <2>3. shard_runs = <<>> /\ current_run = [item_count |-> chunks[1], repeat |-> counted]
        BY <2>1, <2>2 DEF CountTrue
  <2>4. /\ \A k \in 1 .. n : chunks[k] \in Nat \ {0}
        /\ \A k \in 1 .. n : k < n => chunks[k] = ItemsPerShard
        BY <2>1, SliceFacts, ElementOfSeq DEF SlicesOf, VisitTypeOK
  <2>5. chunks' = Chunks(total_len', ItemsPerShard')  BY <2>1, InputsStay DEF inputs
  <2>6. CASE chunks[counted + 1] = chunks[1]
    <3>1. /\ shard_runs' = <<>>
          /\ current_run' = [item_count |-> chunks[1], repeat |-> counted + 1]
          BY <1>2, <2>3, <2>6 DEF CountShard
    <3>2. CountTrue'  BY <2>1, <2>2, <2>6, <3>1 DEF CountTrue, LastDiffers
    <3>3. current_run' \in ShardRun  BY <2>2, <2>4, <3>1 DEF ShardRun
    <3>4. VisitTypeOK'  BY <2>1, <2>2, <2>3, <3>1, <3>3 DEF VisitTypeOK, inputs
    <3>. QED  BY <2>1, <2>2, <2>5, <3>2, <3>4
  <2>7. CASE chunks[counted + 1] # chunks[1]
    <3>1. counted + 1 = n /\ counted \in Nat \ {0}  BY <2>1, <2>2, <2>4, <2>7
    <3>2. /\ shard_runs' = <<[item_count |-> chunks[1], repeat |-> counted]>>
          /\ current_run' = [item_count |-> chunks[n], repeat |-> 1]
          BY <1>2, <2>3, <2>7, <3>1, AppendShort DEF CountShard, NewRunRepeat
    <3>3. CountTrue'
      <4>1. counted = n - 1 /\ counted' = Len(chunks') /\ LastDiffers'
            BY <2>1, <2>2, <2>7, <3>1 DEF LastDiffers
      <4>. QED  BY <2>1, <3>2, <4>1 DEF CountTrue
    <3>4. chunks[1] \in Nat \ {0} /\ chunks[n] \in Nat \ {0}  BY <2>2, <2>4
    <3>5. current_run' \in ShardRun  BY <3>2, <3>4 DEF ShardRun
    <3>6. shard_runs' \in Seq(NonEmptyRun)
      <4>1. [item_count |-> chunks[1], repeat |-> counted] \in NonEmptyRun
            BY <3>1, <3>4 DEF NonEmptyRun
      <4>. QED  BY <3>2, <4>1
    <3>7. VisitTypeOK'  BY <2>1, <2>2, <3>5, <3>6 DEF VisitTypeOK, inputs, NonEmptyRun
    <3>. QED  BY <2>1, <2>2, <2>5, <3>3, <3>7
  <2>. QED  BY <2>6, <2>7
<1>3. CASE PushLastRun
  <2> PICK n \in Nat : n = Len(chunks)  BY DEF VisitTypeOK
  <2>1. /\ UNCHANGED <<inputs, chunks, counted>> /\ phase = "count" /\ phase' = "done"
        /\ counted = n /\ shard_runs' = Append(shard_runs, current_run)
        /\ current_run' = NoRun
        BY <1>3 DEF PushLastRun, AllRuns
  <2>2. chunks # <<>> /\ n \in Nat \ {0} /\ CountTrue  BY <2>1, EmptySeq DEF VisitTypeOK
  <2>3. shard_runs' = Table  BY <2>1, <2>2, AppendShort DEF CountTrue, Table
  <2>4. Table' = Table  BY <2>1 DEF Table, LastDiffers
  <2>5. chunks[1] \in Nat \ {0} /\ chunks[n] \in Nat \ {0}
        BY <2>2, ElementOfSeq DEF VisitTypeOK
  <2>6. Table \in Seq(NonEmptyRun)
    <3>1. LastDiffers => n - 1 \in Nat \ {0}  BY <2>2 DEF LastDiffers
    <3>2. [item_count |-> chunks[n], repeat |-> 1] \in NonEmptyRun  BY <2>5 DEF NonEmptyRun
    <3>3. LastDiffers => [item_count |-> chunks[1], repeat |-> n - 1] \in NonEmptyRun
          BY <2>5, <3>1 DEF NonEmptyRun
    <3>4. [item_count |-> chunks[1], repeat |-> n] \in NonEmptyRun
          BY <2>2, <2>5 DEF NonEmptyRun
    <3>5. \A x, y \in NonEmptyRun : <<x>> \in Seq(NonEmptyRun) /\ <<x, y>> \in Seq(NonEmptyRun)
          OBVIOUS
    <3>. QED  BY <2>2, <3>2, <3>3, <3>4, <3>5 DEF Table
  <2>7. VisitTypeOK'
        BY <2>1, <2>3, <2>6 DEF VisitTypeOK, inputs, NonEmptyRun, NoRun, ShardRun
  <2>8. chunks' = Chunks(total_len', ItemsPerShard')  BY <2>1, InputsStay DEF inputs
  <2>. QED  BY <2>1, <2>3, <2>4, <2>7, <2>8
<1>4. CASE Visited
  <2>1. UNCHANGED visitVars  BY <1>4 DEF Visited
  <2>2. ItemsPerShard' = ItemsPerShard  BY <2>1, InputsStay DEF visitVars, inputs
  <2>. QED  BY <2>1, <2>2 DEF visitVars, VisitTypeOK, CountTrue, LastDiffers, Table
<1>. QED  BY <1>1, <1>2, <1>3, <1>4 DEF Visit
-----------------------------------------------------------------------------
\* What the readers' sums over a finished table come to.
LEMMA TableSums ==
  ASSUME VisitTrue, phase = "done", chunks # <<>>
  PROVE  LET n == Len(chunks)
         IN /\ n \in Nat \ {0} /\ chunks[1] \in Nat \ {0} /\ chunks[n] \in Nat \ {0}
            /\ ShardsBefore(shard_runs)[0] = 0 /\ ItemsBefore(shard_runs)[0] = 0
            /\ IF LastDiffers
                 THEN /\ DOMAIN shard_runs = {1, 2} /\ Len(shard_runs) = 2 /\ n > 1
                      /\ chunks[1] = ItemsPerShard
                      /\ shard_runs[1].item_count = chunks[1]
                      /\ shard_runs[2].item_count = chunks[n]
                      /\ ShardsBefore(shard_runs)[1] = n - 1
                      /\ ShardsBefore(shard_runs)[2] = n
                      /\ ItemsBefore(shard_runs)[1] = (n - 1) * ItemsPerShard
                      /\ ItemsBefore(shard_runs)[2] = total_len
                 ELSE /\ DOMAIN shard_runs = {1} /\ Len(shard_runs) = 1
                      /\ n > 1 => chunks[1] = ItemsPerShard
                      /\ shard_runs[1].item_count = chunks[1]
                      /\ ShardsBefore(shard_runs)[1] = n
                      /\ ItemsBefore(shard_runs)[1] = total_len
<1> PICK n \in Nat : n = Len(chunks)  BY DEF VisitTrue, VisitTypeOK
<1> PICK per \in Nat \ {0} : per = ItemsPerShard  BY ItemsPerShardPositive DEF VisitTrue
<1>1. SlicesOf(chunks, total_len, per)  BY SliceFacts
<1>2. n # 0 /\ \A k \in 1 .. n : chunks[k] \in Nat \ {0}
      BY <1>1, EmptySeq, ElementOfSeq DEF SlicesOf
<1>3. /\ (n - 1) * per + chunks[n] = total_len
      /\ n > 1 => chunks[1] = per
      BY <1>1, <1>2 DEF SlicesOf
<1>4. shard_runs = Table /\ shard_runs \in Seq(ShardRun)
  <2>1. NonEmptyRun \subseteq ShardRun  BY DEF NonEmptyRun, ShardRun
  <2>2. shard_runs = Table /\ shard_runs \in Seq(NonEmptyRun)
        BY DEF VisitTrue, VisitTypeOK, NonEmptyRun
  <2>. QED  BY <2>1, <2>2, SeqMonotonic
<1>5. CASE LastDiffers
  <2>1. shard_runs = <<[item_count |-> chunks[1], repeat |-> n - 1],
                       [item_count |-> chunks[n], repeat |-> 1]>>
        BY <1>4, <1>5 DEF Table
  <2>2. /\ Len(shard_runs) = 2 /\ DOMAIN shard_runs = {1, 2}
        /\ shard_runs[1].item_count = chunks[1] /\ shard_runs[1].repeat = n - 1
        /\ shard_runs[2].item_count = chunks[n] /\ shard_runs[2].repeat = 1
        BY <2>1
  <2>3. n > 1  BY <1>2, <1>5 DEF LastDiffers
  <2>4. /\ ShardsBefore(shard_runs)[0] = 0
        /\ ShardsBefore(shard_runs)[1] = ShardsBefore(shard_runs)[1 - 1] + (n - 1)
        /\ ShardsBefore(shard_runs)[2] = ShardsBefore(shard_runs)[2 - 1] + 1
        BY <1>4, <2>2, ShardsBeforeSteps
  <2>5. /\ ItemsBefore(shard_runs)[0] = 0
        /\ ItemsBefore(shard_runs)[1] = ItemsBefore(shard_runs)[1 - 1] + chunks[1] * (n - 1)
        /\ ItemsBefore(shard_runs)[2] = ItemsBefore(shard_runs)[2 - 1] + chunks[n] * 1
    <3>1. /\ ItemsBefore(shard_runs)[0] = 0
          /\ \A r \in 1 .. 2 :
               ItemsBefore(shard_runs)[r]
                 = ItemsBefore(shard_runs)[r - 1] + shard_runs[r].item_count * shard_runs[r].repeat
          BY <1>4, <2>2, ItemsBeforeSteps
    <3>2. 1 \in 1 .. 2 /\ 2 \in 1 .. 2  OBVIOUS
    <3>. QED  BY <2>2, <3>1, <3>2, Zenon
  <2>6. chunks[1] * (n - 1) = (n - 1) * per /\ (n - 1) * per \in Nat  BY <1>3, <2>3
  <2>. QED  BY <1>2, <1>3, <1>5, <2>2, <2>3, <2>4, <2>5, <2>6
<1>6. CASE ~LastDiffers
  <2>1. shard_runs = <<[item_count |-> chunks[1], repeat |-> n]>>
        BY <1>4, <1>6 DEF Table
  <2>2. /\ Len(shard_runs) = 1 /\ DOMAIN shard_runs = {1}
        /\ shard_runs[1].item_count = chunks[1] /\ shard_runs[1].repeat = n
        BY <2>1
  <2>3. /\ ShardsBefore(shard_runs)[0] = 0
        /\ ShardsBefore(shard_runs)[1] = ShardsBefore(shard_runs)[1 - 1] + n
        BY <1>4, <2>2, ShardsBeforeSteps
  <2>4. /\ ItemsBefore(shard_runs)[0] = 0
        /\ ItemsBefore(shard_runs)[1] = ItemsBefore(shard_runs)[1 - 1] + chunks[1] * n
        BY <1>4, <2>2, ItemsBeforeSteps
  <2>5. chunks[1] = chunks[n]  BY <1>6 DEF LastDiffers
  <2>6. chunks[1] * n = total_len
    <3>1. CASE n = 1  BY <1>2, <1>3, <2>5, <3>1
    <3>2. CASE n > 1
      <4>1. chunks[n] = per  BY <1>3, <2>5, <3>2
      <4>. QED  BY <1>3, <2>5, <4>1
    <3>. QED  BY <1>2, <3>1, <3>2
  <2>. QED  BY <1>2, <1>3, <1>6, <2>2, <2>3, <2>4, <2>6
<1>. QED  BY <1>5, <1>6

\* The run a shard is in.
LEMMA RunOfShard ==
  ASSUME VisitTrue, phase = "done", chunks # <<>>, NEW k \in 1 .. Len(chunks)
  PROVE  RunOf(k) = IF LastDiffers /\ k = Len(chunks) THEN 2 ELSE 1
<1> PICK n \in Nat : n = Len(chunks)  BY TableSums
<1> DEFINE P(r) == ShardsBefore(shard_runs)[r - 1] < k /\ k <= ShardsBefore(shard_runs)[r]
           it == IF LastDiffers /\ k = Len(chunks) THEN 2 ELSE 1
<1>1. it \in DOMAIN shard_runs /\ P(it) /\ \A r \in DOMAIN shard_runs : P(r) => r = it
  <2>1. 1 - 1 = 0 /\ 2 - 1 = 1  OBVIOUS
  <2>2. CASE LastDiffers
    <3>1. /\ DOMAIN shard_runs = {1, 2} /\ ShardsBefore(shard_runs)[0] = 0
          /\ ShardsBefore(shard_runs)[1] = n - 1 /\ ShardsBefore(shard_runs)[2] = n
          BY <2>2, TableSums
    <3>. QED  BY <2>1, <2>2, <3>1
  <2>3. CASE ~LastDiffers
    <3>1. /\ DOMAIN shard_runs = {1} /\ ShardsBefore(shard_runs)[0] = 0
          /\ ShardsBefore(shard_runs)[1] = n
          BY <2>3, TableSums
    <3>. QED  BY <2>1, <2>3, <3>1
  <2>. QED  BY <2>2, <2>3
<1> HIDE DEF P, it
<1>2. (CHOOSE r \in DOMAIN shard_runs : P(r)) = it  BY <1>1
<1>. QED  BY <1>2 DEF P, it, RunOf

\* The table and the slices agree, shard by shard.
LEMMA TableIsTrue ==
  ASSUME VisitTrue, phase = "done"
  PROVE  TableTrue
<1>1. SlicesOf(chunks, total_len, ItemsPerShard) /\ Len(chunks) \in Nat
      BY SliceFacts DEF SlicesOf
<1>2. ItemsPerShard \in Nat \ {0}  BY ItemsPerShardPositive DEF VisitTrue
<1>3. shard_runs \in Seq(ShardRun)
  <2>1. NonEmptyRun \subseteq ShardRun  BY DEF NonEmptyRun, ShardRun
  <2>2. shard_runs \in Seq(NonEmptyRun)  BY DEF VisitTrue, VisitTypeOK, NonEmptyRun
  <2>. QED  BY <2>1, <2>2, SeqMonotonic
<1>4. ShardsIn(shard_runs) = Len(chunks) /\ ItemsIn(shard_runs) = total_len
  <2>1. CASE chunks = <<>>
    <3>1. shard_runs = <<>> /\ Len(shard_runs) = 0  BY <2>1 DEF VisitTrue, Table
    <3>2. ShardsBefore(shard_runs)[0] = 0 /\ ItemsBefore(shard_runs)[0] = 0
          BY <1>3, ShardsBeforeSteps, ItemsBeforeSteps
    <3>. QED  BY <1>1, <2>1, <3>1, <3>2, EmptySeq DEF ShardsIn, ItemsIn, SlicesOf
  <2>2. CASE chunks # <<>>  BY <2>2, TableSums DEF ShardsIn, ItemsIn
  <2>. QED  BY <2>1, <2>2
<1>5. ASSUME NEW k \in 1 .. Len(chunks)
      PROVE  ShardJobs(shard_runs)[k]
               = [start |-> (k - 1) * ItemsPerShard, expected |-> chunks[k]]
  <2> PICK n \in Nat : n = Len(chunks)  BY <1>1
  <2> PICK per \in Nat \ {0} : per = ItemsPerShard  BY <1>2
  <2>1. chunks # <<>>  BY <1>5, EmptySeq
  <2> PICK r : r = IF LastDiffers /\ k = n THEN 2 ELSE 1  OBVIOUS
  <2>2. ShardJobs(shard_runs)[k]
          = [start |-> ShardStart(shard_runs, r, k), expected |-> shard_runs[r].item_count]
    <3>1. RunOf(k) = r  BY <2>1, RunOfShard
    <3>2. ShardJobs(shard_runs)[k]
            = [start |-> ShardStart(shard_runs, RunOf(k), k),
               expected |-> shard_runs[RunOf(k)].item_count]
          BY <1>4 DEF ShardJobs, RunOf
    <3>. QED  BY <3>1, <3>2
  <2>3. \A m \in 1 .. n : m < n => chunks[m] = per  BY <1>1 DEF SlicesOf
  <2>4. shard_runs[r].item_count = chunks[k]
    <3>1. CASE LastDiffers /\ k = n  BY <2>1, <3>1, TableSums
    <3>2. CASE LastDiffers /\ k # n
      <4>1. r = 1 /\ shard_runs[1].item_count = chunks[1] /\ n > 1  BY <2>1, <3>2, TableSums
      <4>2. chunks[1] = per /\ chunks[k] = per  BY <2>3, <3>2, <4>1
      <4>. QED  BY <4>1, <4>2
    <3>3. CASE ~LastDiffers
      <4>1. r = 1 /\ shard_runs[1].item_count = chunks[1] /\ n \in Nat \ {0}
            BY <2>1, <3>3, TableSums
      <4>2. chunks[n] = chunks[1]  BY <3>3 DEF LastDiffers
      <4>3. chunks[k] = chunks[1]  BY <2>3, <4>1, <4>2
      <4>. QED  BY <4>1, <4>3
    <3>. QED  BY <3>1, <3>2, <3>3
  <2>5. ShardStart(shard_runs, r, k) = (k - 1) * per
    <3>1. CASE LastDiffers /\ k = n
      <4>1. r = 2 /\ 2 - 1 = 1  BY <3>1
      <4>2. /\ ItemsBefore(shard_runs)[1] = (n - 1) * per
            /\ ShardsBefore(shard_runs)[1] = n - 1
            /\ shard_runs[2].item_count \in Nat
            BY <2>1, <3>1, TableSums
      <4>3. k - 1 - (n - 1) = 0 /\ (n - 1) * per \in Int  BY <3>1
      <4>4. 0 * shard_runs[2].item_count = 0  BY <4>2
      <4>. QED  BY <3>1, <4>1, <4>2, <4>3, <4>4 DEF ShardStart
    <3>2. CASE ~(LastDiffers /\ k = n)
      <4>1. r = 1 /\ 1 - 1 = 0  BY <3>2
      <4>2. /\ ItemsBefore(shard_runs)[0] = 0 /\ ShardsBefore(shard_runs)[0] = 0
            /\ shard_runs[1].item_count = chunks[1] /\ chunks[1] \in Nat
            /\ n > 1 => chunks[1] = per
            BY <2>1, TableSums
      <4>3. 0 + (k - 1 - 0) * chunks[1] = (k - 1) * per
        <5>1. CASE n > 1  BY <4>2, <5>1
        <5>2. CASE ~(n > 1)
          <6>1. k - 1 = 0 /\ k - 1 - 0 = 0  BY <5>2
          <6>. QED  BY <4>2, <6>1
        <5>. QED  BY <5>1, <5>2
      <4>. QED  BY <4>1, <4>2, <4>3 DEF ShardStart
    <3>. QED  BY <3>1, <3>2
  <2>. QED  BY <2>2, <2>4, <2>5
<1>6. DOMAIN ShardJobs(shard_runs) = 1 .. Len(chunks)  BY <1>4 DEF ShardJobs
<1>7. ShardJobs(shard_runs)
        = [k \in 1 .. Len(chunks) |->
             [start |-> (k - 1) * ItemsPerShard, expected |-> chunks[k]]]
  <2>1. ShardJobs(shard_runs) = [k \in DOMAIN ShardJobs(shard_runs) |-> ShardJobs(shard_runs)[k]]
        BY DEF ShardJobs
  <2>. QED  BY <1>5, <1>6, <2>1
<1>. QED  BY <1>3, <1>4, <1>7 DEF TableTrue

\* The slice an item is in, and its place there.
LEMMA PlaceFacts ==
  ASSUME VisitTrue, phase # "visit", NEW i \in 0 .. total_len - 1
  PROVE  LET s == i \div ItemsPerShard
             j == i % ItemsPerShard
         IN /\ s \in Nat /\ j \in Nat /\ s + 1 \in 1 .. Len(chunks)
            /\ j < chunks[s + 1] /\ i = s * ItemsPerShard + j
<1> PICK n \in Nat : n = Len(chunks)  BY SliceFacts DEF SlicesOf
<1> PICK per \in Nat \ {0} : per = ItemsPerShard  BY ItemsPerShardPositive DEF VisitTrue
<1> PICK total \in Nat : total = total_len  BY DEF VisitTrue, VisitTypeOK
<1>0. i \in Nat /\ i \div per \in Nat /\ i % per \in 0 .. per - 1
  <2>1. i \in Nat  OBVIOUS
  <2>. QED  BY <2>1, DivisionFacts
<1> PICK s \in Nat : s = i \div per  BY <1>0
<1> PICK j \in 0 .. per - 1 : j = i % per  BY <1>0
<1>1. i = s * per + j  BY <1>0, DivisionFacts
<1>2. /\ \A k \in 1 .. n : /\ chunks[k] \in Nat
                           /\ k < n => chunks[k] = per
                           /\ (k - 1) * per + chunks[k] = IF k = n THEN total ELSE k * per
      /\ total > 0 => n > 0
      BY SliceFacts, ElementOfSeq, EmptySeq DEF SlicesOf
<1>3. n > 0 /\ (n - 1) * per + chunks[n] = total /\ chunks[n] <= per
      BY <1>2, SliceFacts DEF SlicesOf
<1>4. s < n
  <2> SUFFICES ASSUME s >= n PROVE FALSE  OBVIOUS
  <2>1. PICK d \in Nat : s = n + d
    <3>1. s - n \in Nat /\ s = n + (s - n)  OBVIOUS
    <3>. QED  BY <3>1
  <2>2. s * per = n * per + d * per /\ d * per \in Nat /\ n * per = (n - 1) * per + per
        BY <2>1
  <2>3. chunks[n] \in Nat /\ (n - 1) * per \in Nat  BY <1>2, <1>3
  <2>. QED  BY <1>1, <1>3, <2>2, <2>3
<1>5. j < chunks[s + 1]
  <2>1. CASE s + 1 < n  BY <1>2, <2>1
  <2>2. CASE s + 1 = n
    <3>1. s = n - 1 /\ s * per = (n - 1) * per /\ s * per \in Nat  BY <2>2
    <3>. QED  BY <1>1, <1>2, <1>3, <2>2, <3>1
  <2>. QED  BY <1>4, <2>1, <2>2
<1>. QED  BY <1>1, <1>4, <1>5

\* resolve_rle_index finds the run: the second only for the last shard's items.
LEMMA RunOfItem ==
  ASSUME VisitTrue, phase = "done", NEW i \in 0 .. total_len - 1
  PROVE  /\ chunks # <<>>
         /\ RunReaching(i)
              = IF LastDiffers /\ i >= (Len(chunks) - 1) * ItemsPerShard THEN 2 ELSE 1
<1> PICK total \in Nat : total = total_len  BY DEF VisitTrue, VisitTypeOK
<1>1. chunks # <<>>  BY SliceFacts DEF SlicesOf
<1> PICK n \in Nat \ {0} : n = Len(chunks)  BY <1>1, TableSums
<1> PICK per \in Nat \ {0} : per = ItemsPerShard  BY ItemsPerShardPositive DEF VisitTrue
<1> DEFINE P(r) == /\ i < ItemsBefore(shard_runs)[r]
                   /\ \A q \in DOMAIN shard_runs : i < ItemsBefore(shard_runs)[q] => r <= q
           it == IF LastDiffers /\ i >= (n - 1) * per THEN 2 ELSE 1
<1>2. it \in DOMAIN shard_runs /\ P(it) /\ \A r \in DOMAIN shard_runs : P(r) => r = it
  <2>1. CASE LastDiffers
    <3>1. /\ DOMAIN shard_runs = {1, 2} /\ ItemsBefore(shard_runs)[1] = (n - 1) * per
          /\ ItemsBefore(shard_runs)[2] = total
          BY <1>1, <2>1, TableSums
    <3>2. (n - 1) * per \in Nat  OBVIOUS
    <3>. QED  BY <2>1, <3>1, <3>2
  <2>2. CASE ~LastDiffers
    <3>1. DOMAIN shard_runs = {1} /\ ItemsBefore(shard_runs)[1] = total
          BY <1>1, <2>2, TableSums
    <3>. QED  BY <2>2, <3>1
  <2>. QED  BY <2>1, <2>2
<1> HIDE DEF P, it
<1>3. (CHOOSE r \in DOMAIN shard_runs : P(r)) = it  BY <1>2
<1>. QED  BY <1>1, <1>3 DEF P, it, RunReaching

\* And with it the shard and the place that slicing gave the item.
LEMMA ResolveIsTrue ==
  ASSUME VisitTrue, phase = "done", NEW i \in 0 .. total_len - 1
  PROVE  ResolveRleIndex(shard_runs, i) = <<i \div ItemsPerShard, i % ItemsPerShard>>
<1>1. chunks # <<>>  BY RunOfItem
<1> PICK total \in Nat : total = total_len  BY DEF VisitTrue, VisitTypeOK
<1> PICK n \in Nat \ {0} : n = Len(chunks)  BY <1>1, TableSums
<1> PICK per \in Nat \ {0} : per = ItemsPerShard  BY ItemsPerShardPositive DEF VisitTrue
<1>0. i \in Nat /\ i \div per \in Nat /\ i % per \in 0 .. per - 1
  <2>1. i \in Nat  OBVIOUS
  <2>. QED  BY <2>1, DivisionFacts
<1> PICK s \in Nat : s = i \div per  BY <1>0
<1> PICK j \in 0 .. per - 1 : j = i % per  BY <1>0
<1>2. i = s * per + j /\ s + 1 \in 1 .. n /\ j < chunks[s + 1]
      BY PlaceFacts
<1> PICK r : r = RunReaching(i)  OBVIOUS
<1> DEFINE offset == i - ItemsBefore(shard_runs)[r - 1]
<1>3. ResolveRleIndex(shard_runs, i)
        = <<ShardsBefore(shard_runs)[r - 1] + offset \div shard_runs[r].item_count,
            offset % shard_runs[r].item_count>>
      BY DEF ResolveRleIndex, RunReaching, ShardOf
<1>4. CASE LastDiffers /\ i >= (n - 1) * per
  <2>1. r = 2 /\ 2 - 1 = 1  BY <1>4, RunOfItem
  <2>2. /\ ItemsBefore(shard_runs)[1] = (n - 1) * per
        /\ ShardsBefore(shard_runs)[1] = n - 1
        /\ shard_runs[2].item_count = chunks[n] /\ chunks[n] \in Nat \ {0}
        BY <1>1, <1>4, TableSums
  <2>3. s = n - 1
    <3> SUFFICES ASSUME s < n - 1 PROVE FALSE  BY <1>2
    <3>1. PICK d \in Nat : n - 1 = s + 1 + d
      <4>1. n - 1 - s - 1 \in Nat /\ n - 1 = s + 1 + (n - 1 - s - 1)  OBVIOUS
      <4>. QED  BY <4>1
    <3>2. (n - 1) * per = s * per + per + d * per /\ d * per \in Nat /\ s * per \in Nat
          BY <3>1
    <3>. QED  BY <1>2, <1>4, <3>2
  <2>4. s * per = (n - 1) * per /\ s * per \in Nat  BY <2>3
  <2>5. offset = j /\ j < chunks[n]  BY <1>2, <2>1, <2>2, <2>3, <2>4
  <2>6. j \div chunks[n] = 0 /\ j % chunks[n] = j
    <3> PICK c \in Nat \ {0} : c = chunks[n]  BY <2>2
    <3>1. j \in 0 .. c - 1  BY <2>5
    <3>. QED  BY <3>1, SmallDivision
  <2>7. ResolveRleIndex(shard_runs, i) = <<(n - 1) + 0, j>>
        BY <1>3, <2>1, <2>2, <2>5, <2>6
  <2>. QED  BY <2>3, <2>7
<1>5. CASE ~(LastDiffers /\ i >= (n - 1) * per)
  <2>1. r = 1 /\ 1 - 1 = 0  BY <1>5, RunOfItem
  <2>2. /\ ItemsBefore(shard_runs)[0] = 0 /\ ShardsBefore(shard_runs)[0] = 0
        /\ shard_runs[1].item_count = chunks[1] /\ chunks[1] \in Nat \ {0}
        /\ n > 1 => chunks[1] = per
        /\ LastDiffers => n > 1
        BY <1>1, TableSums
  <2>3. offset = i /\ i \in Nat  BY <2>1, <2>2
  <2>4. i \div chunks[1] = s /\ i % chunks[1] = j
    <3>1. CASE n > 1  BY <2>2, <3>1
    <3>2. CASE n = 1
      <4>1. s = 0 /\ s * per = 0  BY <1>2, <3>2
      <4>2. i = j /\ j < chunks[1]  BY <1>2, <4>1
      <4>3. j \div chunks[1] = 0 /\ j % chunks[1] = j  BY <2>2, <4>2
      <4>. QED  BY <4>1, <4>2, <4>3
    <3>. QED  BY <3>1, <3>2
  <2>5. ResolveRleIndex(shard_runs, i) = <<0 + s, j>>
        BY <1>3, <2>1, <2>2, <2>3, <2>4
  <2>. QED  BY <2>5
<1>. QED  BY <1>4, <1>5

\* Every index of a saved vector is found, and no other.
LEMMA TableMatches == VisitTrue => TableMatchesSlices
<1> SUFFICES ASSUME VisitTrue, phase = "done" PROVE ResolvesEveryIndex /\ JobsTileResult
    BY DEF TableMatchesSlices
<1>1. TableTrue  BY TableIsTrue
<1>2. SlicesOf(chunks, total_len, ItemsPerShard)  BY SliceFacts
<1>3. total_len \in Nat  BY DEF VisitTrue, VisitTypeOK
<1>4. ResolvesEveryIndex
  <2>1. ASSUME NEW index \in 0 .. MaxLen, index < total_len
        PROVE  ResolveRleIndex(shard_runs, index)
                 = <<index \div ItemsPerShard, index % ItemsPerShard>>
    <3>1. index \in 0 .. total_len - 1  BY <1>3, <2>1
    <3>. QED  BY <3>1, ResolveIsTrue
  <2>2. \A index \in 0 .. MaxLen : IndexOutOfBounds(shard_runs, index) <=> ~(index < total_len)
        BY <1>1, <1>3 DEF TableTrue, IndexOutOfBounds
  <2>. QED  BY <2>1, <2>2 DEF ResolvesEveryIndex
<1>5. JobsTileResult
  <2> PICK jobs : jobs = ShardJobs(shard_runs)  OBVIOUS
  <2> PICK n \in Nat : n = Len(chunks)  BY <1>2 DEF SlicesOf
  <2>1. jobs = [k \in 1 .. n |-> [start |-> (k - 1) * ItemsPerShard, expected |-> chunks[k]]]
        BY <1>1 DEF TableTrue
  <2>2. DOMAIN jobs = 1 .. n /\ Len(jobs) = n
    <3>1. jobs \in [1 .. n -> {jobs[k] : k \in 1 .. n}]  BY <2>1
    <3>. QED  BY <2>1, <3>1, FunctionIsSeq
  <2>3. ASSUME NEW k \in 1 .. n
        PROVE  /\ jobs[k].expected = chunks[k] /\ jobs[k].start = (k - 1) * ItemsPerShard
               /\ jobs[k].start + jobs[k].expected
                    = (IF k = n THEN total_len ELSE jobs[k + 1].start)
    <3>1. jobs[k].expected = chunks[k] /\ jobs[k].start = (k - 1) * ItemsPerShard  BY <2>1
    <3>2. (k - 1) * ItemsPerShard + chunks[k] = IF k = n THEN total_len ELSE k * ItemsPerShard
          BY <1>2 DEF SlicesOf
    <3>3. k # n => jobs[k + 1].start = k * ItemsPerShard
      <4>1. k # n => k + 1 \in 1 .. n /\ (k + 1) - 1 = k  OBVIOUS
      <4>. QED  BY <2>1, <4>1
    <3>. QED  BY <3>1, <3>2, <3>3
  <2>. QED  BY <2>2, <2>3 DEF JobsTileResult
<1>. QED  BY <1>4, <1>5

\* A quotient by the size of an item, taken back times that size.
LEMMA QuotientTimes ==
  ASSUME NEW a \in Nat, NEW b \in Nat \ {0}
  PROVE  /\ (a \div b) * b <= a /\ a < (a \div b) * b + b
         /\ \A q \in Nat : q <= a \div b => q * b <= a
<1>1. a \div b \in Nat /\ a % b \in 0 .. b - 1 /\ a = (a \div b) * b + (a % b)
      BY DivisionFacts
<1> PICK p \in Nat : p = a \div b  BY <1>1
<1>2. ASSUME NEW q \in Nat, q <= p PROVE q * b <= p * b
  <2>1. p - q \in Nat /\ p = q + (p - q)  BY <1>2
  <2>2. PICK d \in Nat : p = q + d  BY <2>1
  <2>3. p * b = q * b + d * b /\ d * b \in Nat /\ q * b \in Nat  BY <2>2
  <2>. QED  BY <2>3
<1>. QED  BY <1>1, <1>2

\* Enough shards, none too small and none too large: what the constants promise.
LEMMA WellSized == VisitTrue => ShardsWellSized
<1> SUFFICES ASSUME VisitTrue, phase = "done" PROVE FeedsEveryCore /\ WithinFloorAndTarget
    BY DEF ShardsWellSized
<1>1. VisitTypeOK /\ SlicesOf(chunks, total_len, ItemsPerShard)
      BY SliceFacts DEF VisitTrue
<1> PICK total \in Nat : total = total_len  BY <1>1 DEF VisitTypeOK
<1> PICK avg \in Nat \ {0} : avg = avg_item_size  BY <1>1 DEF VisitTypeOK
<1> PICK per \in Nat \ {0} : per = ItemsPerShard  BY <1>1, ItemsPerShardPositive
<1> PICK candidate \in Nat \ {0} : candidate = CandidateCount  BY <1>1, ItemsPerShardPositive
<1> PICK cores \in Nat \ {0} : cores = target_parallel_chunks  BY <1>1, ItemsPerShardPositive
<1> PICK n \in Nat : n = Len(chunks)  BY <1>1 DEF SlicesOf
<1> PICK floor \in Nat \ {0} : floor = MIN_SHARD_SIZE_BYTES  BY ShardSizeAssumption
<1> PICK target \in Nat \ {0} : target = TARGET_SHARD_SIZE_BYTES /\ floor <= target
    BY ShardSizeAssumption
<1>2. \A k \in 1 .. n : chunks[k] \in Nat \ {0} /\ chunks[k] <= per
      BY <1>1, ElementOfSeq DEF SlicesOf
<1>3. total > 0 => n > 0 /\ (n - 1) * per + chunks[n] = total
      BY <1>1, EmptySeq DEF SlicesOf
<1>4. candidate <= Max({target \div avg, 1}) /\ candidate <= Max({total \div cores, 1})
  <2>1. CountByIo \in Nat /\ CountByCpu \in Nat  BY <1>1, ItemsPerShardPositive
  <2>2. \A a, b \in Nat : Min({a, b}) <= a /\ Min({a, b}) <= b  BY MinOfTwo
  <2>3. candidate <= CountByIo /\ candidate <= CountByCpu  BY <2>1, <2>2 DEF CandidateCount
  <2>. QED  BY <2>3 DEF CountByIo, CountByCpu
<1>5. target \div avg \in Nat /\ total \div cores \in Nat /\ floor \div avg \in Nat
      BY DivisionFacts
<1>6. \A a \in Nat : Max({a, 1}) = IF a >= 1 THEN a ELSE 1  BY MaxOfTwo
<1>7. total > 0 => per = IF candidate * avg < floor THEN Max({floor \div avg, 1}) ELSE candidate
      BY DEF ItemsPerShard
<1>8. FeedsEveryCore
  <2> SUFFICES ASSUME total > 0, candidate * avg >= floor
               PROVE  n >= Min({total, cores})
      BY DEF FeedsEveryCore
  <2>1. per = candidate
    <3>1. candidate * avg \in Nat /\ ~(candidate * avg < floor)  OBVIOUS
    <3>. QED  BY <1>7, <3>1
  <2>2. n \in Nat \ {0} /\ total <= n * per
    <3>1. n \in Nat \ {0} /\ n * per = (n - 1) * per + per /\ (n - 1) * per \in Nat  BY <1>3
    <3>2. chunks[n] \in Nat /\ chunks[n] <= per  BY <1>2, <3>1
    <3>. QED  BY <1>3, <3>1, <3>2
  <2>3. CASE total \div cores >= 1
    <3>1. per <= total \div cores  BY <1>4, <1>5, <1>6, <2>1, <2>3
    <3>2. per * cores <= total  BY <3>1, QuotientTimes
    <3>3. cores <= n
      <4> SUFFICES ASSUME n < cores PROVE FALSE  OBVIOUS
      <4>0. cores - n - 1 \in Nat /\ cores = n + 1 + (cores - n - 1)  OBVIOUS
      <4>1. PICK d \in Nat : cores = n + 1 + d  BY <4>0
      <4>2. per * cores = n * per + per + per * d /\ per * d \in Nat /\ n * per \in Nat
            BY <4>1
      <4>. QED  BY <2>2, <3>2, <4>2
    <3>4. Min({total, cores}) <= cores  BY MinOfTwo
    <3>5. Min({total, cores}) \in Nat  BY MinOfTwo
    <3>. QED  BY <3>3, <3>4, <3>5
  <2>4. CASE ~(total \div cores >= 1)
    <3>1. per = 1  BY <1>4, <1>5, <1>6, <2>1, <2>4
    <3>2. total <= n  BY <2>2, <3>1
    <3>3. Min({total, cores}) <= total /\ Min({total, cores}) \in Nat  BY MinOfTwo
    <3>. QED  BY <3>2, <3>3
  <2>. QED  BY <2>3, <2>4
<1>9. ASSUME NEW k \in 1 .. n
      PROVE  /\ k < n => chunks[k] * avg + avg > floor
             /\ chunks[k] > 1 => chunks[k] * avg <= target
  <2>1. total > 0
    <3>1. chunks # <<>>  BY <1>1, <1>9, EmptySeq DEF SlicesOf
    <3>. QED  BY <1>1, <3>1 DEF SlicesOf
  <2>2. per * avg + avg > floor
    <3>1. CASE candidate * avg < floor
      <4>1. per >= floor \div avg  BY <1>5, <1>6, <1>7, <2>1, <3>1
      <4>2. floor < (floor \div avg) * avg + avg  BY QuotientTimes
      <4>3. PICK q \in Nat : q = floor \div avg  BY <1>5
      <4>4. per - q \in Nat /\ per = q + (per - q)  BY <4>1, <4>3
      <4>5. PICK d \in Nat : per = q + d  BY <4>4
      <4>6. per * avg = q * avg + d * avg /\ d * avg \in Nat /\ q * avg \in Nat  BY <4>5
      <4>. QED  BY <4>2, <4>3, <4>6
    <3>2. CASE ~(candidate * avg < floor)
      <4>1. per = candidate /\ candidate * avg \in Nat  BY <1>7, <2>1, <3>2
      <4>. QED  BY <3>2, <4>1
    <3>. QED  BY <3>1, <3>2
  <2>3. k < n => chunks[k] = per  BY <1>1 DEF SlicesOf
  <2>4. per > 1 => per * avg <= target
    <3>1. CASE candidate * avg < floor
      <4>1. per > 1 => per <= floor \div avg  BY <1>5, <1>6, <1>7, <2>1, <3>1
      <4>2. per > 1 => per * avg <= floor  BY <4>1, QuotientTimes
      <4>3. per * avg \in Nat  OBVIOUS
      <4>. QED  BY <4>2, <4>3
    <3>2. CASE ~(candidate * avg < floor)
      <4>1. per = candidate  BY <1>7, <2>1, <3>2
      <4>2. per > 1 => per <= target \div avg  BY <1>4, <1>5, <1>6, <4>1
      <4>. QED  BY <4>2, QuotientTimes
    <3>. QED  BY <3>1, <3>2
  <2>5. chunks[k] > 1 => chunks[k] * avg <= target
    <3> SUFFICES ASSUME chunks[k] > 1 PROVE chunks[k] * avg <= target  OBVIOUS
    <3>1. PICK c \in Nat \ {0} : c = chunks[k]  BY <1>2
    <3>2. per - c \in Nat /\ per = c + (per - c) /\ per > 1  BY <1>2, <3>1
    <3>3. PICK d \in Nat : per = c + d  BY <3>2
    <3>4. per * avg = c * avg + d * avg /\ d * avg \in Nat /\ c * avg \in Nat  BY <3>3
    <3>5. c * avg <= target
      <4>1. PICK w \in Nat : w = c * avg  BY <3>4
      <4>2. PICK v \in Nat : v = d * avg  BY <3>4
      <4>3. per * avg = w + v /\ per * avg <= target  BY <2>4, <3>2, <3>4, <4>1, <4>2
      <4>. QED  BY <4>1, <4>3
    <3>. QED  BY <3>1, <3>5
  <2>. QED  BY <2>2, <2>3, <2>5
<1>10. WithinFloorAndTarget
  <2>1. DOMAIN chunks = 1 .. n  BY <1>1, LenProperties DEF SlicesOf
  <2>. QED  BY <1>9, <2>1 DEF WithinFloorAndTarget
<1>. QED  BY <1>8, <1>10
-----------------------------------------------------------------------------
\* The readers are instances, with a copy of the table's operators each.
LEMMA SameTable ==
  ASSUME NEW runs
  PROVE  /\ Whole!ShardsIn(runs) = ShardsIn(runs) /\ Whole!ItemsIn(runs) = ItemsIn(runs)
         /\ Whole!ShardJobs(runs) = ShardJobs(runs)
         /\ Eager!ShardsIn(runs) = ShardsIn(runs) /\ Eager!ShardJobs(runs) = ShardJobs(runs)
         /\ Lazy!ShardJobs(runs) = ShardJobs(runs) /\ Lazy!ItemsIn(runs) = ItemsIn(runs)
<1>1. /\ Whole!ItemsBefore(runs) = ItemsBefore(runs)
      /\ Whole!ShardsBefore(runs) = ShardsBefore(runs)
      BY DEF Whole!ItemsBefore, Whole!ShardsBefore, ItemsBefore, ShardsBefore
<1>2. /\ Eager!ItemsBefore(runs) = ItemsBefore(runs)
      /\ Eager!ShardsBefore(runs) = ShardsBefore(runs)
      BY DEF Eager!ItemsBefore, Eager!ShardsBefore, ItemsBefore, ShardsBefore
<1>3. /\ Lazy!ItemsBefore(runs) = ItemsBefore(runs)
      /\ Lazy!ShardsBefore(runs) = ShardsBefore(runs)
      BY DEF Lazy!ItemsBefore, Lazy!ShardsBefore, ItemsBefore, ShardsBefore
<1>4. Whole!ShardJobs(runs) = ShardJobs(runs)
      BY DEF Whole!ShardJobs, Whole!ShardStart, Whole!ShardsIn, Whole!ItemsBefore,
         Whole!ShardsBefore, ShardJobs, ShardStart, ShardsIn, ItemsBefore, ShardsBefore
<1>5. Eager!ShardJobs(runs) = ShardJobs(runs)
      BY DEF Eager!ShardJobs, Eager!ShardStart, Eager!ShardsIn, Eager!ItemsBefore,
         Eager!ShardsBefore, ShardJobs, ShardStart, ShardsIn, ItemsBefore, ShardsBefore
<1>6. Lazy!ShardJobs(runs) = ShardJobs(runs)
      BY DEF Lazy!ShardJobs, Lazy!ShardStart, Lazy!ShardsIn, Lazy!ItemsBefore,
         Lazy!ShardsBefore, ShardJobs, ShardStart, ShardsIn, ItemsBefore, ShardsBefore
<1>. QED
  BY <1>1, <1>2, <1>3, <1>4, <1>5, <1>6
  DEF Whole!ShardsIn, Whole!ItemsIn, Eager!ShardsIn, Lazy!ItemsIn, ShardsIn, ItemsIn

\* Shards lie one after another.
LEMMA ShardsApart ==
  ASSUME VisitTrue, phase = "done"
  PROVE  \A s \in 1 .. Len(chunks) :
           /\ StartOf(s) \in Nat /\ chunks[s] \in Nat \ {0}
           /\ StartOf(s) + chunks[s] <= total_len
           /\ \A t \in 1 .. Len(chunks) : s < t => StartOf(s) + chunks[s] <= StartOf(t)
<1> PICK n \in Nat : n = Len(chunks)  BY SliceFacts DEF SlicesOf
<1> PICK per \in Nat \ {0} : per = ItemsPerShard  BY ItemsPerShardPositive DEF VisitTrue
<1> PICK total \in Nat : total = total_len  BY DEF VisitTrue, VisitTypeOK
<1>1. \A k \in 1 .. n : /\ chunks[k] \in Nat \ {0} /\ chunks[k] <= per
                        /\ (k - 1) * per + chunks[k] = IF k = n THEN total ELSE k * per
      BY SliceFacts, ElementOfSeq DEF SlicesOf
<1>2. ASSUME NEW s \in 1 .. n, NEW t \in 1 .. n, s < t
      PROVE  (s - 1) * per + chunks[s] <= (t - 1) * per
  <2>1. t - 1 - s \in Nat /\ t - 1 = s + (t - 1 - s)  BY <1>2
  <2>2. PICK d \in Nat : t - 1 = s + d  BY <2>1
  <2>3. (t - 1) * per = s * per + d * per /\ s * per \in Nat /\ d * per \in Nat  BY <2>2
  <2>4. (s - 1) * per + chunks[s] = s * per  BY <1>1, <1>2
  <2>. QED  BY <2>3, <2>4
<1>3. ASSUME NEW s \in 1 .. n
      PROVE  (s - 1) * per \in Nat /\ (s - 1) * per + chunks[s] <= total
  <2>1. (s - 1) * per \in Nat  OBVIOUS
  <2>2. CASE s = n  BY <1>1, <2>2
  <2>3. CASE s < n
    <3>0. n \in 1 .. n  BY <2>3
    <3>1. (s - 1) * per + chunks[s] <= (n - 1) * per  BY <1>2, <2>3, <3>0
    <3>2. (n - 1) * per + chunks[n] = total /\ chunks[n] \in Nat /\ (n - 1) * per \in Nat
          BY <1>1, <2>3
    <3>3. (s - 1) * per + chunks[s] \in Nat  BY <1>1, <2>1
    <3>. QED  BY <2>1, <3>1, <3>2, <3>3
  <2>. QED  BY <2>1, <2>2, <2>3
<1>. QED  BY <1>1, <1>2, <1>3 DEF StartOf

\* And every item is in one of them.
LEMMA ItemHasPlace ==
  ASSUME VisitTrue, phase = "done", NEW i \in 0 .. total_len - 1
  PROVE  \E s \in 1 .. Len(chunks) : \E j \in 0 .. chunks[s] - 1 : i = StartOf(s) + j
<1> PICK n \in Nat : n = Len(chunks)  BY SliceFacts DEF SlicesOf
<1> PICK per \in Nat \ {0} : per = ItemsPerShard  BY ItemsPerShardPositive DEF VisitTrue
<1> PICK s \in Nat : s = i \div per  BY PlaceFacts
<1> PICK j \in Nat : j = i % per  BY PlaceFacts
<1>1. s + 1 \in 1 .. n /\ j < chunks[s + 1] /\ i = s * per + j  BY PlaceFacts
<1>2. chunks[s + 1] \in Nat  BY <1>1, ShardsApart
<1>3. j \in 0 .. chunks[s + 1] - 1  BY <1>1, <1>2
<1>4. (s + 1) - 1 = s  OBVIOUS
<1>5. i = StartOf(s + 1) + j  BY <1>1, <1>4 DEF StartOf
<1>. QED  BY <1>1, <1>3, <1>5

\* What a task of the load is given.
LEMMA WholeReads ==
  ASSUME VisitTrue, phase = "done"
  PROVE  /\ Whole!Shard = 1 .. Len(chunks) /\ Whole!Uninit = total_len
         /\ Whole!ShardsIn(shard_runs) = Len(chunks) /\ Whole!ItemsIn(shard_runs) = total_len
         /\ \A s \in 1 .. Len(chunks) :
              /\ Whole!ShardJobs(shard_runs)[s].start = StartOf(s)
              /\ Whole!ShardJobs(shard_runs)[s].expected = chunks[s]
BY TableIsTrue, SameTable DEF TableTrue, StartOf, Whole!Shard, Whole!Uninit

\* Where the items of a shard were when the vector was saved.
LEMMA SavedItemIs ==
  ASSUME VisitTrue, phase = "done", NEW s \in 1 .. Len(chunks), NEW j \in Nat
  PROVE  Whole!SavedItem(s, j) = StartOf(s) + j
<1> PICK n \in Nat : n = Len(chunks)  BY SliceFacts DEF SlicesOf
<1> PICK per \in Nat \ {0} : per = ItemsPerShard  BY ItemsPerShardPositive DEF VisitTrue
<1> DEFINE Base(f) == f = [t \in Whole!Shard |-> IF t = 1 THEN 0
                             ELSE f[t - 1] + Whole!ShardJobs(shard_runs)[t - 1].expected]
<1>1. Whole!SavedItem(s, j) = (CHOOSE f : Base(f))[s] + j  BY DEF Whole!SavedItem
<1>2. ASSUME NEW f
      PROVE  Base(f) <=> f = [t \in 1 .. n |-> IF t = 1 THEN 0 ELSE f[t - 1] + per]
  <2>1. ASSUME NEW t \in 1 .. n, t # 1
        PROVE  Whole!ShardJobs(shard_runs)[t - 1].expected = per
    <3>1. t - 1 \in 1 .. n /\ t - 1 < n  BY <2>1
    <3>2. chunks[t - 1] = per  BY <3>1, SliceFacts DEF SlicesOf
    <3>. QED  BY <3>1, <3>2, WholeReads
  <2>2. Whole!Shard = 1 .. n  BY WholeReads
  <2>3. [t \in Whole!Shard |-> IF t = 1 THEN 0
           ELSE f[t - 1] + Whole!ShardJobs(shard_runs)[t - 1].expected]
          = [t \in 1 .. n |-> IF t = 1 THEN 0 ELSE f[t - 1] + per]
        BY <2>1, <2>2
  <2>. QED  BY <2>3
<1>3. \E f : Base(f)
  <2> DEFINE g == [t \in 1 .. n |-> (t - 1) * per]
  <2>1. ASSUME NEW t \in 1 .. n PROVE g[t] = IF t = 1 THEN 0 ELSE g[t - 1] + per
    <3>1. CASE t = 1  BY <3>1
    <3>2. CASE t # 1
      <4>1. t - 1 \in 1 .. n /\ ((t - 1) - 1) * per + per = (t - 1) * per  BY <3>2
      <4>. QED  BY <3>2, <4>1
    <3>. QED  BY <3>1, <3>2
  <2>2. g = [t \in 1 .. n |-> g[t]]  OBVIOUS
  <2> HIDE DEF g
  <2>3. g = [t \in 1 .. n |-> IF t = 1 THEN 0 ELSE g[t - 1] + per]  BY <2>1, <2>2
  <2> HIDE DEF Base
  <2>. QED  BY <1>2, <2>3
<1> HIDE DEF Base
<1>4. PICK f : Base(f) /\ f = CHOOSE h : Base(h)  BY <1>3
<1>5. f = [t \in 1 .. n |-> IF t = 1 THEN 0 ELSE f[t - 1] + per]  BY <1>2, <1>4
<1>6. f[s] = (s - 1) * per
  <2> DEFINE T == {m \in Nat : m + 1 <= n => f[m + 1] = m * per}
  <2>1. 0 \in T
    <3>1. 0 + 1 = 1 /\ 0 * per = 0  OBVIOUS
    <3>. QED  BY <1>5, <3>1
  <2>2. ASSUME NEW m \in T PROVE m + 1 \in T
    <3> SUFFICES ASSUME m + 1 + 1 <= n PROVE f[m + 1 + 1] = (m + 1) * per  OBVIOUS
    <3>1. f[m + 1] = m * per /\ (m + 1) * per = m * per + per /\ (m + 1 + 1) - 1 = m + 1
          OBVIOUS
    <3>2. m + 1 + 1 \in 1 .. n /\ m + 1 + 1 # 1  OBVIOUS
    <3>3. f[m + 1 + 1] = f[(m + 1 + 1) - 1] + per  BY <1>5, <3>2
    <3>. QED  BY <3>1, <3>3
  <2>3. T \in SUBSET Nat  OBVIOUS
  <2>4. \A m \in T : m + 1 <= n => f[m + 1] = m * per  OBVIOUS
  <2> HIDE DEF T
  <2>5. T = Nat  BY <2>1, <2>2, <2>3, AllNumbers
  <2>6. s - 1 \in T /\ (s - 1) + 1 = s /\ s <= n  BY <2>5
  <2>. QED  BY <2>4, <2>6
<1>. QED  BY <1>1, <1>4, <1>6 DEF StartOf

\* A number read from a file is a number, damaged or not.
LEMMA ReadIsNat ==
  ASSUME NEW field, NEW x \in Nat
  PROVE  Whole!Read(field, x) \subseteq Nat
BY DEF Whole!Read

\* What is read off the table stays with it.
LEMMA TableStays ==
  ASSUME UNCHANGED visitVars
  PROVE  /\ Whole!Shard' = Whole!Shard /\ Whole!Uninit' = Whole!Uninit
         /\ ItemsPerShard' = ItemsPerShard /\ \A s : StartOf(s)' = StartOf(s)
<1>1. ItemsPerShard' = ItemsPerShard  BY InputsStay DEF visitVars, inputs
<1>2. shard_runs' = shard_runs  BY DEF visitVars
<1>3. Whole!Shard' = Whole!Shard
      BY <1>2 DEF Whole!Shard, Whole!ShardsIn, Whole!ShardsBefore
<1>4. Whole!Uninit' = Whole!Uninit
      BY <1>2 DEF Whole!Uninit, Whole!ItemsIn, Whole!ItemsBefore
<1>. QED  BY <1>1, <1>3, <1>4 DEF StartOf

\* No buffer at all is a buffer of anything.
LEMMA NoBuffer == ASSUME NEW S PROVE <<>> \in [DOMAIN <<>> -> S]
<1>1. <<>> \in Seq(S)  BY EmptySeq
<1>. QED  BY <1>1, LenProperties

\* Before any load.
LEMMA LoadStarts == ASSUME Init PROVE LoadTrue
<1>1. shard_runs = <<>> /\ <<>> \in Seq(ShardRun)  BY EmptySeq DEF Init, VisitInit
<1>2. /\ p_build = "none" /\ p_total = 0 /\ p_children = 0 /\ p_buffer = <<>>
      /\ p_pc = <<>> /\ p_len = <<>> /\ p_written = <<>> /\ p_outcome = "not called"
      /\ client = "none"
      BY DEF Init, Whole!LoadInit
<1>3. p_buffer \in [DOMAIN p_buffer -> 0 .. Whole!Uninit]  BY <1>2, NoBuffer
<1>4. Whole!LoadTypeOK
      BY <1>1, <1>2, <1>3 DEF Whole!LoadTypeOK, Whole!ShardRun, ShardRun
<1>. QED  BY <1>2, <1>4 DEF LoadTrue

\* Slicing on, and iterating, do not concern a load.
LEMMA OthersKeepLoad ==
  ASSUME VisitTrue, LoadTrue, Save \/ Open \/ Iterate
  PROVE  LoadTrue'
<1>1. UNCHANGED wholeVars /\ (client' = client \/ (client = "none" /\ client' = "lazy"))
      BY DEF Save, Open, Iterate
<1>2. UNCHANGED visitVars \/ (Save /\ phase # "done" /\ client' = client)
      BY DEF Save, Visit, Slice, CountShard, PushLastRun, Visited, Open, Iterate
<1>3. CASE UNCHANGED visitVars
  <2>1. client' # "none" => phase = "done"  BY <1>1 DEF LoadTrue, Open, Save, Iterate
  <2>2. ItemsPerShard' = ItemsPerShard  BY <1>3, InputsStay DEF visitVars, inputs
  <2>3. Whole!LoadTypeOK'
    <3>1. Whole!Shard' = Whole!Shard /\ Whole!Uninit' = Whole!Uninit
          BY <1>3, TableStays
    <3>. QED  BY <1>1, <1>3, <3>1 DEF LoadTrue, wholeVars, visitVars, Whole!LoadTypeOK
  <2>4. client' = "load" => Decoding'
    <3> SUFFICES ASSUME client' = "load" PROVE Decoding'  OBVIOUS
    <3>1. Decoding  BY <1>1 DEF LoadTrue
    <3>. QED  BY <1>1, <1>3, <2>2, <3>1 DEF Decoding, wholeVars, visitVars, StartOf, Whole!Any
  <2>. QED  BY <1>1, <1>3, <2>1, <2>3, <2>4 DEF LoadTrue, wholeVars, visitVars
<1>4. CASE Save /\ phase # "done" /\ client' = client
  <2>1. client = "none" /\ p_outcome = "not called" /\ p_pc = <<>> /\ p_buffer = <<>>
        BY <1>4 DEF LoadTrue
  <2>2. shard_runs' \in Seq(ShardRun)
    <3>1. NonEmptyRun \subseteq ShardRun  BY DEF NonEmptyRun, ShardRun
    <3>2. VisitTrue'  BY <1>4, VisitStep DEF Save
    <3>3. shard_runs' \in Seq(NonEmptyRun)  BY <3>2 DEF VisitTrue, VisitTypeOK, NonEmptyRun
    <3>. QED  BY <3>1, <3>3, SeqMonotonic
  <2>3. p_buffer' \in [DOMAIN p_buffer' -> 0 .. Whole!Uninit']
        BY <1>1, <2>1, NoBuffer DEF wholeVars
  <2>4. Whole!LoadTypeOK'
        BY <1>1, <2>1, <2>2, <2>3
        DEF LoadTrue, wholeVars, Whole!LoadTypeOK, Whole!ShardRun, ShardRun
  <2>. QED  BY <1>1, <1>4, <2>1, <2>4 DEF LoadTrue, wholeVars
<1>. QED  BY <1>2, <1>3, <1>4

\* The container is parsed: every task is still to be run.
LEMMA ParseTrue ==
  ASSUME VisitTrue, LoadTrue, Load
  PROVE  LoadTrue'
<1> PICK n \in Nat : n = Len(chunks)  BY DEF VisitTrue, VisitTypeOK
<1> PICK total \in Nat : total = total_len  BY DEF VisitTrue, VisitTypeOK
<1>1. /\ phase = "done" /\ client = "none" /\ client' = "load"
      /\ UNCHANGED visitVars /\ Whole!Parse
      BY DEF Load
<1>2. /\ Whole!Shard = 1 .. n /\ Whole!Uninit = total
      /\ Whole!ItemsIn(shard_runs) = total /\ Whole!ShardsIn(shard_runs) = n
      BY <1>1, WholeReads
<1>3. Whole!Shard' = Whole!Shard /\ Whole!Uninit' = Whole!Uninit
      BY <1>1, TableStays
<1>4. /\ p_pc' = [s \in 1 .. n |-> "todo"] /\ p_len' = [s \in 1 .. n |-> 0]
      /\ p_written' = [s \in 1 .. n |-> 0]
      /\ p_total' \in Nat /\ p_children' \in Nat
      BY <1>1, <1>2, ReadIsNat DEF Whole!Parse
<1>5. \/ /\ p_outcome' = IF 1 .. n = {} THEN "ok" ELSE "decode"
         /\ p_buffer' = [i \in 0 .. total - 1 |-> total]
      \/ p_outcome' = "err" /\ p_buffer' = <<>>
      BY <1>1, <1>2 DEF Whole!Parse, LoadTrue
<1>6. p_buffer' \in [DOMAIN p_buffer' -> 0 .. total]
  <2>1. [i \in 0 .. total - 1 |-> total] \in [0 .. total - 1 -> 0 .. total]  OBVIOUS
  <2>2. CASE p_buffer' = <<>>  BY <2>2, NoBuffer
  <2>3. CASE p_buffer' = [i \in 0 .. total - 1 |-> total]  BY <2>1, <2>3
  <2>. QED  BY <1>5, <2>2, <2>3
<1>7. Whole!LoadTypeOK'
  <2>1. shard_runs' \in Seq(ShardRun)  BY <1>1, TableIsTrue DEF TableTrue, visitVars
  <2>2. p_pc' \in [1 .. n -> {"todo", "running"} \cup Whole!Ended] /\ p_len' \in [1 .. n -> Nat]
        BY <1>4
  <2>3. \A s \in 1 .. n : p_written'[s] \in 0 .. p_len'[s]  BY <1>4
  <2>. QED  BY <1>2, <1>3, <1>4, <1>5, <1>6, <2>1, <2>2, <2>3
            DEF Whole!LoadTypeOK, Whole!ShardRun, ShardRun
<1>8. Decoding'
  <2>1. chunks' = chunks /\ total_len' = total /\ ItemsPerShard' = ItemsPerShard
        BY <1>1, InputsStay DEF visitVars, inputs
  <2>2. \A s \in 1 .. n : chunks[s] \in Nat  BY <1>1, ShardsApart
  <2>3. \A s \in 1 .. n : p_written'[s] = 0 /\ p_pc'[s] = "todo"  BY <1>4
  <2>4. p_outcome' \in {"decode", "ok"} => DOMAIN p_buffer' = 0 .. total - 1  BY <1>5
  <2>5. p_written' \in [1 .. n -> Nat]  BY <1>4
  <2>6. p_outcome' = "ok" => 1 .. n = {}  BY <1>5
  <2>. QED  BY <2>1, <2>2, <2>3, <2>4, <2>5, <2>6 DEF Decoding
<1>9. p_build' \in Builds  BY <1>1 DEF Whole!Parse
<1>. QED  BY <1>1, <1>5, <1>7, <1>8, <1>9 DEF LoadTrue, visitVars

\* A load that is in progress.
LEMMA LoadingFacts ==
  ASSUME VisitTrue, LoadTrue, client = "load"
  PROVE  /\ phase = "done" /\ Decoding /\ Len(chunks) \in Nat /\ total_len \in Nat
         /\ p_pc \in [1 .. Len(chunks) -> {"todo", "running"} \cup Whole!Ended]
         /\ p_len \in [1 .. Len(chunks) -> Nat]
         /\ \A s \in 1 .. Len(chunks) : p_written[s] \in 0 .. p_len[s]
         /\ p_buffer \in [DOMAIN p_buffer -> 0 .. total_len]
<1>1. phase = "done" /\ Decoding /\ p_outcome # "not called" /\ Whole!LoadTypeOK
      BY DEF LoadTrue
<1>2. Whole!Shard = 1 .. Len(chunks) /\ Whole!Uninit = total_len  BY <1>1, WholeReads
<1>3. Len(chunks) \in Nat /\ total_len \in Nat  BY DEF VisitTrue, VisitTypeOK
<1>4. /\ p_pc \in [Whole!Shard -> {"todo", "running"} \cup Whole!Ended]
      /\ p_len \in [Whole!Shard -> Nat]
      /\ \A s \in Whole!Shard : p_written[s] \in 0 .. p_len[s]
      /\ p_buffer \in [DOMAIN p_buffer -> 0 .. Whole!Uninit]
      BY <1>1 DEF Whole!LoadTypeOK
<1>. QED  BY <1>1, <1>2, <1>3, <1>4

\* A task moves on without writing.
LEMMA TaskMoves ==
  ASSUME VisitTrue, LoadTrue, client = "load",
         NEW s \in 1 .. Len(chunks), NEW to \in {"running"} \cup Whole!Ended,
         p_pc[s] \in {"todo", "running"}, p_pc' = [p_pc EXCEPT ![s] = to],
         UNCHANGED <<visitVars, client, p_build, p_total, p_children, p_buffer, p_written,
                     p_outcome>>,
         p_len' \in [1 .. Len(chunks) -> Nat],
         \A t \in 1 .. Len(chunks) : t # s => p_len'[t] = p_len[t],
         p_written[s] <= p_len'[s],
         p_build # "neither",
         to = "running" => p_outcome = "decode" /\ p_len'[s] <= chunks[s],
         to = "done" => p_written[s] = chunks[s],
         to = "skipped" => Whole!Any("failed") \/ Whole!Any("panicked")
  PROVE  LoadTrue'
<1> PICK n \in Nat : n = Len(chunks)  BY LoadingFacts
<1>1. /\ Decoding /\ phase = "done" /\ p_outcome # "not called"
      /\ p_pc \in [1 .. n -> {"todo", "running"} \cup Whole!Ended]
      /\ p_written \in [1 .. n -> Nat]
      /\ \A t \in 1 .. n : p_written[t] \in 0 .. p_len[t]
      BY LoadingFacts DEF LoadTrue, Decoding
<1>2. p_pc' \in [1 .. n -> {"todo", "running"} \cup Whole!Ended]  BY <1>1
<1>3. p_pc'[s] = to /\ \A t \in 1 .. n : t # s => p_pc'[t] = p_pc[t]  BY <1>1
<1>4. \A how \in {"failed", "panicked"} : Whole!Any(how) => Whole!Any(how)'
  <2> SUFFICES ASSUME NEW how \in {"failed", "panicked"}, Whole!Any(how) PROVE Whole!Any(how)'
      OBVIOUS
  <2>1. PICK t \in 1 .. n : p_pc[t] = how  BY <1>1 DEF Whole!Any
  <2>2. t # s  BY <2>1
  <2>3. t \in DOMAIN p_pc' /\ p_pc'[t] = how  BY <1>2, <1>3, <2>1, <2>2
  <2>. QED  BY <2>3 DEF Whole!Any
<1>5. Whole!LoadTypeOK'
  <2>1. /\ Whole!Shard = 1 .. n /\ Whole!Shard' = Whole!Shard /\ Whole!Uninit' = Whole!Uninit
        BY <1>1, WholeReads, TableStays
  <2>2. ASSUME NEW t \in 1 .. n PROVE p_written'[t] \in 0 .. p_len'[t]
    <3>1. p_written' = p_written /\ p_written[t] \in 0 .. p_len[t] /\ p_written[t] \in Nat
          BY <1>1
    <3>2. p_len'[t] \in Nat  OBVIOUS
    <3>3. CASE t = s  BY <3>1, <3>2, <3>3
    <3>4. CASE t # s  BY <3>1, <3>4
    <3>. QED  BY <3>3, <3>4
  <2>. QED  BY <1>2, <2>1, <2>2 DEF LoadTrue, Whole!LoadTypeOK, visitVars
<1>6. Decoding'
  <2>1. /\ chunks' = chunks /\ total_len' = total_len /\ \A t : StartOf(t)' = StartOf(t)
        BY TableStays DEF visitVars
  <2>2. p_outcome' # "ok"  BY <1>1 DEF Decoding
  <2>3. ASSUME NEW t \in 1 .. n
        PROVE  /\ p_written'[t] <= chunks[t]
               /\ p_pc'[t] = "todo" => p_written'[t] = 0
               /\ p_pc'[t] = "running" => p_outcome' = "decode" /\ p_len'[t] <= chunks[t]
               /\ p_pc'[t] = "done" => p_written'[t] = chunks[t]
               /\ p_pc'[t] = "skipped" => Whole!Any("failed")' \/ Whole!Any("panicked")'
               /\ p_build' # "neither"
    <3>1. CASE t = s  BY <1>1, <1>3, <1>4, <3>1 DEF Decoding, Whole!Ended
    <3>2. CASE t # s  BY <1>1, <1>3, <1>4, <3>2 DEF Decoding
    <3>. QED  BY <3>1, <3>2
  <2>4. p_outcome' = "decode" =>
          /\ DOMAIN p_buffer' = 0 .. total_len - 1
          /\ \A t \in 1 .. n : \A j \in 0 .. p_written'[t] - 1 :
               p_buffer'[StartOf(t) + j] = StartOf(t) + j
        BY <1>1 DEF Decoding
  <2>. QED  BY <1>1, <2>1, <2>2, <2>3, <2>4 DEF Decoding
<1>. QED  BY <1>1, <1>5, <1>6 DEF LoadTrue, visitVars

\* A task writes an item: into the buffer, in the place the item had, and into
\* no place another task has written.
LEMMA ItemIsWritten ==
  ASSUME VisitTrue, LoadTrue, client = "load", NEW s \in 1 .. Len(chunks),
         Whole!DecodeItem(s), UNCHANGED <<visitVars, client>>
  PROVE  LoadTrue'
<1> PICK n \in Nat : n = Len(chunks)  BY LoadingFacts
<1> PICK total \in Nat : total = total_len  BY LoadingFacts
<1>1. /\ Decoding /\ phase = "done" /\ p_outcome # "not called"
      /\ p_written \in [1 .. n -> Nat] /\ p_len \in [1 .. n -> Nat]
      /\ \A t \in 1 .. n : p_written[t] \in 0 .. p_len[t]
      /\ p_buffer \in [DOMAIN p_buffer -> 0 .. total]
      BY LoadingFacts DEF LoadTrue, Decoding
<1>2. /\ \A t \in 1 .. n : StartOf(t) \in Nat /\ chunks[t] \in Nat
      /\ StartOf(s) + chunks[s] <= total
      /\ \A t, u \in 1 .. n : t < u => StartOf(t) + chunks[t] <= StartOf(u)
      BY <1>1, ShardsApart
<1> PICK w \in Nat : w = p_written[s]  BY <1>1
<1> PICK at \in Nat : at = StartOf(s) + w  BY <1>2
<1>3. /\ p_pc[s] = "running" /\ p_outcome = "decode" /\ w < p_len[s] /\ p_len[s] <= chunks[s]
      BY <1>1 DEF Whole!DecodeItem, Whole!MoreItems, Decoding
<1>4. Whole!Destination(s) = at /\ Whole!SavedItem(s, p_written[s]) = at
      BY <1>1, WholeReads, SavedItemIs DEF Whole!Destination
<1>5. /\ p_buffer' = [p_buffer EXCEPT ![at] = at] /\ p_written' = [p_written EXCEPT ![s] = w + 1]
      /\ UNCHANGED <<visitVars, client, p_build, p_total, p_children, p_pc, p_len, p_outcome>>
      BY <1>4 DEF Whole!DecodeItem, Whole!file
<1>6. at \in 0 .. total - 1 /\ DOMAIN p_buffer = 0 .. total - 1
      BY <1>1, <1>2, <1>3 DEF Decoding
<1>7. p_buffer' \in [DOMAIN p_buffer' -> 0 .. total] /\ DOMAIN p_buffer' = 0 .. total - 1
  <2>1. p_buffer \in [0 .. total - 1 -> 0 .. total]  BY <1>1, <1>6
  <2>2. at \in 0 .. total  BY <1>6
  <2>3. p_buffer' \in [0 .. total - 1 -> 0 .. total]  BY <1>5, <1>6, <2>1, <2>2
  <2>. QED  BY <2>3
<1>8. /\ p_written' \in [1 .. n -> Nat] /\ p_written'[s] = w + 1
      /\ \A t \in 1 .. n : t # s => p_written'[t] = p_written[t]
  <2>1. s \in 1 .. n /\ w + 1 \in Nat  OBVIOUS
  <2>2. p_written' = [p_written EXCEPT ![s] = w + 1]  BY <1>5
  <2>3. p_written \in [1 .. n -> Nat]  BY <1>1
  <2>. QED  BY <2>1, <2>2, <2>3
<1>9. Whole!LoadTypeOK'
  <2>1. /\ Whole!Shard = 1 .. n /\ Whole!Shard' = Whole!Shard
        /\ Whole!Uninit' = Whole!Uninit /\ Whole!Uninit = total
        BY <1>1, WholeReads, TableStays
  <2>2. \A t \in 1 .. n : p_written'[t] \in 0 .. p_len'[t]  BY <1>1, <1>3, <1>5, <1>8
  <2>. QED  BY <1>5, <1>7, <2>1, <2>2 DEF LoadTrue, Whole!LoadTypeOK, visitVars
<1>10. Decoding'
  <2>1. /\ chunks' = chunks /\ total_len' = total_len /\ \A t : StartOf(t)' = StartOf(t)
        BY TableStays DEF visitVars
  <2>2. \A how : Whole!Any(how)' = Whole!Any(how)  BY <1>5 DEF Whole!Any
  <2>3. ASSUME NEW t \in 1 .. n
        PROVE  /\ p_written'[t] <= chunks[t]
               /\ p_pc'[t] = "todo" => p_written'[t] = 0
               /\ p_pc'[t] = "running" => p_outcome' = "decode" /\ p_len'[t] <= chunks[t]
               /\ p_pc'[t] = "done" => p_written'[t] = chunks[t]
               /\ p_pc'[t] = "skipped" => Whole!Any("failed")' \/ Whole!Any("panicked")'
               /\ p_build' = "neither" => p_pc'[t] = "todo"
    <3>1. CASE t = s  BY <1>1, <1>2, <1>3, <1>5, <1>8, <3>1 DEF Decoding
    <3>2. CASE t # s  BY <1>1, <1>5, <1>8, <2>2, <3>2 DEF Decoding
    <3>. QED  BY <3>1, <3>2
  <2>4. ASSUME NEW t \in 1 .. n, NEW j \in 0 .. p_written'[t] - 1
        PROVE  p_buffer'[StartOf(t) + j] = StartOf(t) + j
    <3>0. p_buffer \in [0 .. total - 1 -> 0 .. total]  BY <1>1, <1>6
    <3>1. p_buffer'[at] = at /\ \A i \in 0 .. total - 1 : i # at => p_buffer'[i] = p_buffer[i]
          BY <1>5, <1>6, <3>0
    <3>2. /\ p_written[t] \in Nat /\ p_written[t] <= chunks[t]
          /\ StartOf(t) \in Nat /\ chunks[t] \in Nat /\ StartOf(t) + chunks[t] <= total
      <4>1. p_written[t] \in Nat /\ p_written[t] <= chunks[t]  BY <1>1 DEF Decoding
      <4>2. StartOf(t) + chunks[t] <= total  BY <1>1, ShardsApart
      <4>. QED  BY <1>2, <4>1, <4>2
    <3>3. CASE t = s /\ j = w  BY <3>1, <3>3
    <3>4. CASE ~(t = s /\ j = w)
      <4>1. j \in 0 .. p_written[t] - 1
        <5>1. CASE t = s  BY <1>8, <3>4, <5>1
        <5>2. CASE t # s  BY <1>8, <5>2
        <5>. QED  BY <5>1, <5>2
      <4>2. p_buffer[StartOf(t) + j] = StartOf(t) + j  BY <1>1, <1>3, <4>1 DEF Decoding
      <4>3. j \in Nat /\ j < chunks[t]  BY <3>2, <4>1
      <4>4. StartOf(t) + j # at
        <5>1. CASE t = s  BY <1>2, <3>4, <4>3, <5>1
        <5>2. CASE t < s
          <6>1. StartOf(t) + chunks[t] <= StartOf(s)  BY <1>2, <5>2
          <6>2. StartOf(s) \in Nat  BY <1>2
          <6>. QED  BY <3>2, <4>3, <6>1, <6>2
        <5>3. CASE s < t
          <6>1. StartOf(s) + chunks[s] <= StartOf(t)  BY <1>2, <5>3
          <6>2. StartOf(s) \in Nat /\ chunks[s] \in Nat /\ w < chunks[s]  BY <1>1, <1>2, <1>3
          <6>. QED  BY <3>2, <4>3, <6>1, <6>2
        <5>. QED  BY <5>1, <5>2, <5>3
      <4>5. StartOf(t) + j \in 0 .. total - 1  BY <3>2, <4>3
      <4>. QED  BY <3>1, <4>2, <4>4, <4>5
    <3>. QED  BY <3>3, <3>4
  <2>. QED  BY <1>3, <1>5, <1>7, <1>8, <2>1, <2>3, <2>4 DEF Decoding
<1>. QED  BY <1>1, <1>5, <1>9, <1>10 DEF LoadTrue, visitVars

\* The other steps of a task, and the end of the load.
LEMMA DecodeTrue ==
  ASSUME VisitTrue, LoadTrue, Decode
  PROVE  LoadTrue'
<1>1. client = "load" /\ UNCHANGED <<visitVars, client>> /\ Whole!Decode
  <2>1. CASE client # "load"
    <3>1. p_pc = <<>> /\ p_outcome = "not called"  BY <2>1 DEF LoadTrue
    <3>2. DOMAIN <<>> = {}  OBVIOUS
    <3>. QED  BY <3>1, <3>2 DEF Decode, Whole!Decode, Whole!Return
  <2>. QED  BY <2>1 DEF Decode
<1> PICK n \in Nat : n = Len(chunks)  BY <1>1, LoadingFacts
<1>2. /\ Decoding /\ phase = "done" /\ p_outcome # "not called"
      /\ p_pc \in [1 .. n -> {"todo", "running"} \cup Whole!Ended]
      /\ p_written \in [1 .. n -> Nat] /\ p_len \in [1 .. n -> Nat]
      /\ \A t \in 1 .. n : p_written[t] \in 0 .. p_len[t]
      BY <1>1, LoadingFacts DEF LoadTrue, Decoding
<1>3. /\ Whole!Shard = 1 .. n
      /\ \A s \in 1 .. n : Whole!ShardJobs(shard_runs)[s].expected = chunks[s]
      BY <1>2, WholeReads
<1>4. CASE Whole!Return
  <2>1. /\ p_outcome = "decode" /\ Whole!AllEnded
        /\ p_outcome' = IF Whole!Any("panicked") THEN "panic"
                        ELSE IF Whole!Any("failed") THEN "err" ELSE "ok"
        /\ UNCHANGED <<visitVars, client, p_build, p_total, p_children, p_buffer, p_pc, p_len,
                       p_written>>
        BY <1>1, <1>4 DEF Whole!Return, Whole!file
  <2>2. Whole!LoadTypeOK'
    <3>1. Whole!Shard' = Whole!Shard /\ Whole!Uninit' = Whole!Uninit  BY <1>1, TableStays
    <3>. QED  BY <1>2, <2>1, <3>1 DEF LoadTrue, Whole!LoadTypeOK, visitVars
  <2>3. Decoding'
    <3>1. /\ chunks' = chunks /\ total_len' = total_len /\ \A t : StartOf(t)' = StartOf(t)
          BY <1>1, TableStays DEF visitVars
    <3>2. \A how : Whole!Any(how)' = Whole!Any(how)  BY <2>1 DEF Whole!Any
    <3>3. ASSUME NEW t \in 1 .. n PROVE p_pc[t] # "running"
      <4>1. CASE p_build = "neither"  BY <1>2, <4>1 DEF Decoding
      <4>2. CASE p_build # "neither"
            BY <1>3, <2>1, <4>2 DEF Whole!AllEnded, Whole!Ended
      <4>. QED  BY <4>1, <4>2
    <3>4. ASSUME p_outcome' = "ok", p_build # "neither", NEW t \in 1 .. n
          PROVE  p_pc[t] = "done"
      <4>1. p_pc[t] \in Whole!Ended  BY <1>3, <2>1, <3>4 DEF Whole!AllEnded
      <4>2. ~Whole!Any("panicked") /\ ~Whole!Any("failed")  BY <2>1, <3>4
      <4>3. p_pc[t] # "panicked" /\ p_pc[t] # "failed"  BY <1>2, <4>2 DEF Whole!Any
      <4>4. p_pc[t] # "skipped"  BY <1>2, <4>2 DEF Decoding
      <4>. QED  BY <4>1, <4>3, <4>4 DEF Whole!Ended
    <3>5. \A t \in 1 .. n :
            /\ p_written'[t] <= chunks'[t]
            /\ p_pc'[t] = "todo" => p_written'[t] = 0
            /\ p_pc'[t] # "running"
            /\ p_pc'[t] = "done" => p_written'[t] = chunks'[t]
            /\ p_pc'[t] = "skipped" => Whole!Any("failed")' \/ Whole!Any("panicked")'
            /\ p_build' = "neither" => p_pc'[t] = "todo"
          BY <1>2, <2>1, <3>1, <3>2, <3>3 DEF Decoding
    <3>6. /\ DOMAIN p_buffer' = 0 .. total_len' - 1
          /\ \A s \in 1 .. n : \A j \in 0 .. p_written'[s] - 1 :
               p_buffer'[StartOf(s)' + j] = StartOf(s)' + j
          BY <1>2, <2>1, <3>1 DEF Decoding
    <3>. QED  BY <1>2, <2>1, <3>1, <3>4, <3>5, <3>6 DEF Decoding
  <2>. QED  BY <1>1, <1>2, <2>1, <2>2, <2>3 DEF LoadTrue, visitVars
<1>5. ASSUME NEW s \in DOMAIN p_pc, Whole!Task(s) PROVE LoadTrue'
  <2>0. s \in 1 .. n /\ s \in 1 .. Len(chunks)  BY <1>2
  <2>1. CASE Whole!StartShard(s)
    <3>1. PICK x \in Whole!Read("length", Whole!ShardJobs(shard_runs)[s].expected) :
            /\ Whole!Step(s, "todo", IF s > p_children \/ x > chunks[s]
                                       THEN "failed" ELSE "running")
            /\ p_len' = [p_len EXCEPT ![s] = x]
          BY <1>3, <2>0, <2>1 DEF Whole!StartShard
    <3>2. x \in Nat /\ chunks[s] \in Nat
      <4>1. Whole!ShardJobs(shard_runs)[s].expected = chunks[s] /\ chunks[s] \in Nat
            BY <1>2, <1>3, <2>0, ShardsApart
      <4>2. x \in Whole!Read("length", chunks[s])  BY <3>1, <4>1
      <4>. QED  BY <4>1, <4>2, ReadIsNat
    <3>3. PICK to : to = IF s > p_children \/ x > chunks[s] THEN "failed" ELSE "running"
          OBVIOUS
    <3>4. to \in {"running"} \cup Whole!Ended  BY <3>3 DEF Whole!Ended
    <3>5. p_pc[s] = "todo" /\ p_pc' = [p_pc EXCEPT ![s] = to]  BY <3>1, <3>3 DEF Whole!Step
    <3>6. /\ UNCHANGED <<p_build, p_total, p_children, p_buffer, p_written, p_outcome>>
          /\ p_outcome = "decode" /\ p_build # "neither"
          BY <2>1 DEF Whole!StartShard, Whole!file, Whole!MayStart
    <3>7. /\ p_len' \in [1 .. n -> Nat] /\ p_len'[s] = x
          /\ \A t \in 1 .. n : t # s => p_len'[t] = p_len[t]
      <4>1. p_len \in [1 .. n -> Nat]  BY <1>2
      <4>2. p_len' = [p_len EXCEPT ![s] = x]  BY <3>1
      <4>. QED  BY <2>0, <3>2, <4>1, <4>2
    <3>8. p_written[s] = 0  BY <1>2, <2>0, <3>5 DEF Decoding
    <3>9. to = "running" => p_outcome = "decode" /\ p_len'[s] <= chunks[s]
          BY <3>2, <3>3, <3>6, <3>7
    <3>10. to # "done" /\ to # "skipped"  BY <3>3
    <3>11. p_len' \in [1 .. Len(chunks) -> Nat] /\ p_written[s] <= p_len'[s]
           BY <3>2, <3>7, <3>8
    <3>12. p_pc[s] \in {"todo", "running"}  BY <3>5
    <3>13. \A t \in 1 .. Len(chunks) : t # s => p_len'[t] = p_len[t]  BY <3>7
    <3>. QED  BY <1>1, <2>0, <3>4, <3>5, <3>6, <3>9, <3>10, <3>11, <3>12, <3>13, TaskMoves
  <2>2. CASE Whole!DecodeItem(s)  BY <1>1, <2>0, <2>2, ItemIsWritten
  <2>3. CASE Whole!DecodeFails(s) \/ Whole!EndShard(s) \/ Whole!Skip(s)
    <3>1. UNCHANGED <<p_build, p_total, p_children, p_buffer, p_len, p_written, p_outcome>>
          BY <2>3 DEF Whole!DecodeFails, Whole!EndShard, Whole!Skip, Whole!file
    <3>2. PICK to \in Whole!Ended :
            /\ p_pc[s] \in {"todo", "running"} /\ p_pc' = [p_pc EXCEPT ![s] = to]
            /\ to = "done" => p_written[s] = Whole!ShardJobs(shard_runs)[s].expected
            /\ p_pc[s] = "todo" => Whole!Any("failed") \/ Whole!Any("panicked")
            /\ to = "skipped" => p_pc[s] = "todo"
      <4>1. CASE Whole!DecodeFails(s)
            BY <4>1 DEF Whole!DecodeFails, Whole!Step, Whole!Ended
      <4>2. CASE Whole!EndShard(s)
            BY <4>2 DEF Whole!EndShard, Whole!Step, Whole!Ended, Whole!AsManyAsExpected
      <4>3. CASE Whole!Skip(s)  BY <4>3 DEF Whole!Skip, Whole!Step, Whole!Ended
      <4>. QED  BY <2>3, <4>1, <4>2, <4>3
    <3>3. p_build # "neither"
      <4>1. \A t \in 1 .. n : p_build = "neither" => p_pc[t] = "todo"  BY <1>2 DEF Decoding
      <4>2. CASE p_pc[s] = "todo"
        <5>1. PICK t \in 1 .. n : p_pc[t] \in {"failed", "panicked"}
              BY <1>2, <3>2, <4>2 DEF Whole!Any
        <5>. QED  BY <4>1, <5>1
      <4>3. CASE p_pc[s] = "running"  BY <2>0, <4>1, <4>3
      <4>. QED  BY <3>2, <4>2, <4>3
    <3>4. to = "done" => p_written[s] = chunks[s]  BY <1>3, <2>0, <3>2
    <3>5. /\ p_len' \in [1 .. n -> Nat] /\ p_written[s] <= p_len'[s]
          /\ \A t \in 1 .. n : p_len'[t] = p_len[t]
      <4>1. p_len' = p_len  BY <3>1
      <4>2. p_len \in [1 .. n -> Nat]  BY <1>2
      <4>3. p_written[s] \in 0 .. p_len[s] /\ p_len[s] \in Nat  BY <1>2, <2>0
      <4>. QED  BY <4>1, <4>2, <4>3
    <3>6. to # "running"  BY DEF Whole!Ended
    <3>. QED  BY <1>1, <2>0, <3>1, <3>2, <3>3, <3>4, <3>5, <3>6, TaskMoves
  <2>. QED  BY <1>5, <2>1, <2>2, <2>3 DEF Whole!Task
<1>. QED  BY <1>1, <1>4, <1>5 DEF Whole!Decode

\* What holds of a vector all along, whoever reads it.
LEMMA AlwaysTrue == Spec => [](VisitTrue /\ LoadTrue)
<1>1. Init => VisitTrue /\ LoadTrue  BY VisitStarts, LoadStarts DEF Init
<1>2. VisitTrue /\ LoadTrue /\ [Next]_vars => VisitTrue' /\ LoadTrue'
  <2> SUFFICES ASSUME VisitTrue, LoadTrue, [Next]_vars PROVE VisitTrue' /\ LoadTrue'
      OBVIOUS
  <2>1. VisitTrue'
    <3>1. UNCHANGED visitVars => VisitTrue'
          BY TableStays
          DEF VisitTrue, visitVars, VisitTypeOK, CountTrue, LastDiffers, Table, Chunks
    <3>2. (Save => Visit) /\ (~Save => UNCHANGED visitVars)
          BY DEF Next, Save, Open, Iterate, Load, Decode, Loaded, vars
    <3>. QED  BY <3>1, <3>2, VisitStep
  <2>2. CASE Save \/ Open \/ Iterate  BY <2>1, <2>2, OthersKeepLoad
  <2>3. CASE Load  BY <2>1, <2>3, ParseTrue
  <2>4. CASE Decode  BY <2>1, <2>4, DecodeTrue
  <2>5. CASE UNCHANGED vars
    <3>1. /\ Whole!LoadTypeOK' = Whole!LoadTypeOK /\ Decoding' = Decoding
      <4>1. /\ Whole!Shard' = Whole!Shard /\ Whole!Uninit' = Whole!Uninit
            /\ \A s : StartOf(s)' = StartOf(s)
            BY <2>5, TableStays DEF vars
      <4>. QED  BY <2>5, <4>1
                DEF vars, visitVars, wholeVars, Whole!LoadTypeOK, Decoding, Whole!Any
    <3>. QED  BY <2>1, <2>5, <3>1 DEF LoadTrue, vars, visitVars, wholeVars
  <2>. QED  BY <2>1, <2>2, <2>3, <2>4, <2>5 DEF Next, Loaded
<1>. QED  BY <1>1, <1>2, PTL DEF Spec

\* TableMatchesSlices, for every vector: what Vec::visit writes into a container
\* is what resolve_rle_index and ShardJobs find in it, for every index, and the
\* places of the decoding tasks tile the result.
THEOREM TableAlwaysMatches == Spec => []TableMatchesSlices
BY AlwaysTrue, TableMatches, PTL

\* ShardsWellSized: as many shards as cores need, none below the minimum but by
\* less than an item, none above the target but of a single item.
THEOREM ShardsAlwaysWellSized == Spec => []ShardsWellSized
BY AlwaysTrue, WellSized, PTL

\* WritesApart: no two tasks that decode at once write to the same place of the
\* buffer they share, none writes outside it, and none after it was returned or
\* freed; whatever the file's damage, in whatever order the tasks run.
THEOREM TasksWriteApart == Spec => []WritesApart
<1>1. VisitTrue /\ LoadTrue => WritesApart
  <2> SUFFICES ASSUME VisitTrue, LoadTrue, NEW s \in DOMAIN p_pc, p_pc[s] = "running"
               PROVE  /\ p_outcome = "decode"
                      /\ Whole!MoreItems(s) => Whole!Destination(s) \in DOMAIN p_buffer
                      /\ \A t \in Whole!Shard \ {s} :
                           LET job == Whole!ShardJobs(shard_runs)
                           IN \/ job[s].start + p_len[s] <= job[t].start
                              \/ job[t].start + job[t].expected <= job[s].start
      BY DEF WritesApart, Whole!WritesApart
  <2>1. client = "load"
    <3>1. DOMAIN <<>> = {}  OBVIOUS
    <3>. QED  BY <3>1 DEF LoadTrue
  <2> PICK n \in Nat : n = Len(chunks)  BY <2>1, LoadingFacts
  <2>2. /\ Decoding /\ phase = "done" /\ s \in 1 .. n
        /\ p_len[s] \in Nat /\ p_written[s] \in 0 .. p_len[s]
        BY <2>1, LoadingFacts
  <2>3. /\ p_outcome = "decode" /\ p_len[s] <= chunks[s]
        /\ DOMAIN p_buffer = 0 .. total_len - 1
        BY <2>2 DEF Decoding
  <2>4. /\ Whole!Shard = 1 .. n
        /\ \A t \in 1 .. n : /\ Whole!ShardJobs(shard_runs)[t].start = StartOf(t)
                             /\ Whole!ShardJobs(shard_runs)[t].expected = chunks[t]
        BY <2>2, WholeReads
  <2>5. /\ \A t \in 1 .. n : StartOf(t) \in Nat /\ chunks[t] \in Nat
        /\ StartOf(s) + chunks[s] <= total_len
        /\ \A t, u \in 1 .. n : t < u => StartOf(t) + chunks[t] <= StartOf(u)
        BY <2>2, ShardsApart
  <2>6. Whole!MoreItems(s) => Whole!Destination(s) \in DOMAIN p_buffer
    <3> SUFFICES ASSUME p_written[s] < p_len[s]
                 PROVE  StartOf(s) + p_written[s] \in 0 .. total_len - 1
        BY <2>2, <2>3, <2>4 DEF Whole!MoreItems, Whole!Destination
    <3>1. total_len \in Nat /\ StartOf(s) \in Nat /\ chunks[s] \in Nat
          BY <2>1, <2>2, <2>5, LoadingFacts
    <3>. QED  BY <2>2, <2>3, <2>5, <3>1
  <2>7. ASSUME NEW t \in (1 .. n) \ {s}
        PROVE  StartOf(s) + p_len[s] <= StartOf(t) \/ StartOf(t) + chunks[t] <= StartOf(s)
    <3>1. StartOf(s) \in Nat /\ StartOf(t) \in Nat /\ chunks[s] \in Nat /\ chunks[t] \in Nat
          BY <2>2, <2>5
    <3>2. CASE s < t
      <4>1. StartOf(s) + chunks[s] <= StartOf(t)  BY <2>2, <2>5, <3>2
      <4>. QED  BY <2>2, <2>3, <3>1, <4>1
    <3>3. CASE t < s  BY <2>2, <2>5, <3>3
    <3>. QED  BY <2>2, <3>2, <3>3
  <2>. QED  BY <2>2, <2>3, <2>4, <2>6, <2>7
<1>. QED  BY <1>1, AlwaysTrue, PTL

\* OkMeansLoaded, of the two builds that have a decoding loop: Ok is returned only
\* with every item of the vector in its place, whatever the file's damage and
\* whatever tasks fail or are skipped.
THEOREM OkIsLoaded ==
  ASSUME "neither" \notin Builds
  PROVE  Spec => []OkMeansLoaded
<1>1. VisitTrue /\ LoadTrue => OkMeansLoaded
  <2> SUFFICES ASSUME VisitTrue, LoadTrue, p_outcome = "ok"
               PROVE  /\ DOMAIN p_buffer = 0 .. Whole!ItemsIn(shard_runs) - 1
                      /\ \A i \in DOMAIN p_buffer : p_buffer[i] = i
      BY DEF OkMeansLoaded, Whole!OkMeansLoaded
  <2>1. client = "load" /\ p_build # "neither"  BY DEF LoadTrue
  <2> PICK n \in Nat : n = Len(chunks)  BY <2>1, LoadingFacts
  <2> PICK total \in Nat : total = total_len  BY <2>1, LoadingFacts
  <2>2. Decoding /\ phase = "done"  BY <2>1, LoadingFacts
  <2>3. /\ DOMAIN p_buffer = 0 .. total - 1
        /\ \A s \in 1 .. n : p_pc[s] = "done" /\ p_written[s] = chunks[s]
        /\ \A s \in 1 .. n : \A j \in 0 .. p_written[s] - 1 :
             p_buffer[StartOf(s) + j] = StartOf(s) + j
        BY <2>1, <2>2 DEF Decoding
  <2>4. Whole!ItemsIn(shard_runs) = total  BY <2>2, WholeReads
  <2>5. ASSUME NEW i \in 0 .. total - 1 PROVE p_buffer[i] = i
    <3>1. PICK s \in 1 .. n : \E j \in 0 .. chunks[s] - 1 : i = StartOf(s) + j
          BY <2>2, ItemHasPlace
    <3>. QED  BY <2>3, <3>1
  <2>. QED  BY <2>3, <2>4, <2>5
<1>. QED  BY <1>1, AlwaysTrue, PTL
-----------------------------------------------------------------------------
\* A shard ends where the next one starts, and the last where the vector does.
LEMMA EndsMeet ==
  ASSUME VisitTrue, phase = "done", NEW s \in 0 .. Len(chunks)
  PROVE  /\ EndOf(s) \in Nat /\ EndOf(s) <= total_len
         /\ s = Len(chunks) => EndOf(s) = total_len
         /\ s < Len(chunks) => /\ EndOf(s) = StartOf(s + 1) /\ EndOf(s) < total_len
                               /\ EndOf(s + 1) = EndOf(s) + chunks[s + 1]
                               /\ chunks[s + 1] \in Nat \ {0}
<1> PICK n \in Nat : n = Len(chunks)  BY SliceFacts DEF SlicesOf
<1> PICK per \in Nat \ {0} : per = ItemsPerShard  BY ItemsPerShardPositive DEF VisitTrue
<1> PICK total \in Nat : total = total_len  BY DEF VisitTrue, VisitTypeOK
<1>1. /\ \A k \in 1 .. n : (k - 1) * per + chunks[k] = IF k = n THEN total ELSE k * per
      /\ n = 0 => total = 0
      BY SliceFacts, EmptySeq DEF SlicesOf
<1>2. \A k \in 1 .. n : /\ StartOf(k) = (k - 1) * per /\ StartOf(k) \in Nat
                        /\ chunks[k] \in Nat \ {0} /\ StartOf(k) + chunks[k] <= total
      BY ShardsApart DEF StartOf
<1>3. EndOf(s) \in Nat /\ EndOf(s) <= total
  <2>1. CASE s = 0  BY <2>1 DEF EndOf
  <2>2. CASE s # 0  BY <1>2, <2>2 DEF EndOf
  <2>. QED  BY <2>1, <2>2
<1>4. s = n => EndOf(s) = total
  <2>1. CASE s = 0  BY <1>1, <2>1 DEF EndOf
  <2>2. CASE s # 0  BY <1>1, <1>2, <2>2 DEF EndOf
  <2>. QED  BY <2>1, <2>2
<1>5. ASSUME s < n
      PROVE  /\ EndOf(s) = StartOf(s + 1) /\ EndOf(s) < total
             /\ EndOf(s + 1) = EndOf(s) + chunks[s + 1] /\ chunks[s + 1] \in Nat \ {0}
  <2>1. s + 1 \in 1 .. n /\ (s + 1) - 1 = s /\ s + 1 # 0  BY <1>5
  <2>2. EndOf(s) = s * per
    <3>1. CASE s = 0
      <4>1. 0 * per = 0  OBVIOUS
      <4>. QED  BY <3>1, <4>1 DEF EndOf
    <3>2. CASE s # 0  BY <1>1, <1>2, <1>5, <3>2 DEF EndOf
    <3>. QED  BY <3>1, <3>2
  <2>3. StartOf(s + 1) = s * per  BY <1>2, <2>1
  <2>4. EndOf(s + 1) = StartOf(s + 1) + chunks[s + 1]  BY <2>1 DEF EndOf
  <2>. QED  BY <1>2, <1>3, <2>1, <2>2, <2>3, <2>4
<1>. QED  BY <1>3, <1>4, <1>5

\* What the streaming iterator reads.
LEMMA EagerReads ==
  ASSUME VisitTrue, phase = "done"
  PROVE  /\ Eager!child_count = Len(chunks)
         /\ \A k \in 0 .. Len(chunks) - 1 :
              Eager!ItemsOf(k) = [j \in 1 .. chunks[k + 1] |-> EndOf(k) + j - 1]
<1> PICK n \in Nat : n = Len(chunks)  BY SliceFacts DEF SlicesOf
<1>1. /\ ShardsIn(shard_runs) = n
      /\ \A k \in 1 .. n : /\ ShardJobs(shard_runs)[k].start = StartOf(k)
                           /\ ShardJobs(shard_runs)[k].expected = chunks[k]
      BY TableIsTrue DEF TableTrue, StartOf
<1>2. Eager!ShardsIn(shard_runs) = n /\ Eager!ShardJobs(shard_runs) = ShardJobs(shard_runs)
      BY <1>1, SameTable
<1>3. ASSUME NEW k \in 0 .. n - 1
      PROVE  Eager!ItemsOf(k) = [j \in 1 .. chunks[k + 1] |-> EndOf(k) + j - 1]
  <2>1. k + 1 \in 1 .. n /\ EndOf(k) = StartOf(k + 1)  BY EndsMeet
  <2>. QED  BY <1>1, <1>2, <2>1 DEF Eager!ItemsOf
<1>. QED  BY <1>2, <1>3 DEF Eager!child_count

\* What a call of the streaming iterator's next() does, of its four ways.
LEMMA EagerNext ==
  ASSUME VisitTrue, LoadTrue, EagerTrue, client = "lazy", Eager!Next,
         UNCHANGED <<visitVars, client, unreadable>>
  PROVE  EagerTrue' /\ Eager!Stream!Next
<1> PICK n \in Nat : n = Len(chunks)  BY SliceFacts DEF VisitTrue, VisitTypeOK
<1> PICK total \in Nat : total = total_len  BY DEF VisitTrue, VisitTypeOK
<1>1. /\ phase = "done"
      /\ e_shard_idx \in 0 .. n /\ e_global_idx \in 0 .. total
      /\ e_items \in Seq(Nat) /\ Len(e_items) \in Nat
      /\ \A j \in 1 .. Len(e_items) : e_items[j] = e_global_idx + j - 1
      /\ e_global_idx + Len(e_items) = EndOf(e_shard_idx)
      /\ e_answer = Eager!Error =>
           /\ e_items = <<>> /\ e_global_idx < total
           /\ e_shard_idx < n => e_shard_idx \in SliceUnreadable
  <2>1. phase = "done"  BY DEF LoadTrue
  <2>2. e_items \in Seq(Nat) /\ Len(e_items) \in Nat  BY LenProperties DEF EagerTrue
  <2>. QED  BY <2>1, <2>2 DEF EagerTrue
<1>2. /\ chunks' = chunks /\ total_len' = total /\ \A s : EndOf(s)' = EndOf(s)
      BY TableStays DEF visitVars, EndOf
<1>3. SliceUnreadable' = SliceUnreadable  BY DEF SliceUnreadable, visitVars
<1>4. \A i : Eager!Item(i) # Eager!Error /\ Eager!End # Eager!Error
  <2>1. Eager!Error.how = "error" /\ Eager!End.how = "end"  BY DEF Eager!Error, Eager!End
  <2>2. \A i : Eager!Item(i).how = "item"  BY DEF Eager!Item
  <2>. QED  BY <2>1, <2>2
<1>5. /\ Eager!AtEnd <=> e_global_idx = total
      /\ Eager!NeedsShard => e_shard_idx < n /\ e_global_idx = EndOf(e_shard_idx)
  <2>1. Eager!AtEnd <=> e_global_idx = total  BY <1>1 DEF Eager!AtEnd
  <2>2. ASSUME Eager!NeedsShard PROVE e_shard_idx < n /\ e_global_idx = EndOf(e_shard_idx)
    <3>1. e_items = <<>> /\ e_global_idx # total  BY <2>1, <2>2 DEF Eager!NeedsShard
    <3>2. Len(e_items) = 0  BY <3>1
    <3>3. e_global_idx = EndOf(e_shard_idx)  BY <1>1, <3>2
    <3>4. e_shard_idx # n  BY <1>1, <3>1, <3>3, EndsMeet
    <3>. QED  BY <1>1, <3>3, <3>4
  <2>. QED  BY <2>1, <2>2
<1>6. ASSUME NEW items \in Seq(Nat), items # <<>>, NEW idx \in 0 .. n,
             \A j \in 1 .. Len(items) : items[j] = e_global_idx + j - 1,
             e_global_idx + Len(items) = EndOf(idx),
             e_global_idx < total, Eager!HandOut(items), e_shard_idx' = idx,
             e_answer # Eager!Error
      PROVE  EagerTrue' /\ Eager!Stream!Next
  <2>1. /\ Len(items) \in Nat \ {0} /\ Head(items) = items[1]
        /\ Tail(items) \in Seq(Nat) /\ Len(Tail(items)) = Len(items) - 1
        /\ \A j \in 1 .. Len(items) - 1 : Tail(items)[j] = items[j + 1]
        BY <1>6, HeadTailProperties, EmptySeq, LenProperties
  <2>2. /\ e_answer' = Eager!Item(e_global_idx) /\ e_items' = Tail(items)
        /\ e_global_idx' = e_global_idx + 1
    <3>1. 1 \in 1 .. Len(items)  BY <2>1
    <3>2. items[1] = e_global_idx + 1 - 1 /\ e_global_idx \in Nat  BY <1>1, <1>6, <3>1
    <3>3. Head(items) = e_global_idx  BY <2>1, <3>2
    <3>. QED  BY <1>6, <3>3 DEF Eager!HandOut
  <2>3. \A j \in 1 .. Len(items) - 1 : items[j + 1] = e_global_idx + 1 + j - 1
    <3> SUFFICES ASSUME NEW j \in 1 .. Len(items) - 1
                 PROVE  items[j + 1] = e_global_idx + 1 + j - 1
        OBVIOUS
    <3>1. j + 1 \in 1 .. Len(items)  BY <2>1
    <3>2. items[j + 1] = e_global_idx + (j + 1) - 1  BY <1>6, <3>1
    <3>. QED  BY <1>1, <3>2
  <2>4. EagerTrue'
    <3>1. client' = "lazy"  OBVIOUS
    <3>2. e_answer' # Eager!Error  BY <1>4, <2>2
    <3>3. e_shard_idx' \in 0 .. n /\ e_global_idx' \in 0 .. total  BY <1>1, <1>6, <2>2
    <3>4. /\ e_items' \in Seq(Nat) /\ Len(e_items') = Len(items) - 1
          /\ \A j \in 1 .. Len(e_items') : e_items'[j] = e_global_idx' + j - 1
          BY <2>1, <2>2, <2>3
    <3>5. e_global_idx' + Len(e_items') = EndOf(e_shard_idx')
          BY <1>1, <1>6, <2>1, <2>2, <3>4
    <3>6. EndOf(e_shard_idx)' = EndOf(e_shard_idx')  BY TableStays DEF EndOf, visitVars
    <3>7. (Eager!Error)' = Eager!Error  BY DEF Eager!Error
    <3>. QED  BY <1>2, <3>1, <3>2, <3>3, <3>4, <3>5, <3>6, <3>7 DEF EagerTrue
  <2>5. Eager!Stream!Deliver
    <3>1. e_answer' = Eager!Stream!Item(e_global_idx)
          BY <2>2 DEF Eager!Item, Eager!Stream!Item
    <3>2. (e_answer' = Eager!Error) = FALSE /\ (e_answer = Eager!Error) = FALSE
          BY <1>4, <1>6, <2>2
    <3>. QED  BY <1>2, <1>6, <2>2, <3>1, <3>2 DEF Eager!Stream!Deliver, Eager!Error
  <2>. QED  BY <2>4, <2>5 DEF Eager!Stream!Next
<1>7. CASE Eager!NextFromShard
  <2>1. /\ e_items # <<>> /\ e_global_idx # total /\ Eager!HandOut(e_items)
        /\ e_shard_idx' = e_shard_idx
        BY <1>5, <1>7 DEF Eager!NextFromShard
  <2>2. e_answer # Eager!Error /\ e_global_idx < total  BY <1>1, <2>1
  <2>. QED  BY <1>1, <1>6, <2>1, <2>2
<1>8. CASE Eager!NextLoads
  <2>1. /\ e_shard_idx \in 0 .. n - 1 /\ e_global_idx = EndOf(e_shard_idx)
        /\ e_global_idx < total
        BY <1>1, <1>5, <1>8, EndsMeet DEF Eager!NextLoads
  <2>0. e_shard_idx \in 0 .. Len(chunks) /\ e_shard_idx < Len(chunks) /\ phase = "done"
        BY <1>1, <2>1
  <2> PICK len \in Nat \ {0} : len = chunks[e_shard_idx + 1]  BY <2>0, EndsMeet
  <2> DEFINE items == [j \in 1 .. len |-> e_global_idx + j - 1]
  <2>2. Eager!ItemsOf(e_shard_idx) = items  BY <1>1, <2>1, EagerReads
  <2>3. /\ Eager!HandOut(items) /\ e_shard_idx' = e_shard_idx + 1
        /\ e_shard_idx \notin SliceUnreadable
        BY <1>8, <2>2 DEF Eager!NextLoads
  <2>4. items \in Seq(Nat) /\ Len(items) = len /\ items # <<>>
    <3>1. \A j \in 1 .. len : e_global_idx + j - 1 \in Nat  BY <1>1
    <3>2. items \in [1 .. len -> Nat]  BY <3>1
    <3> HIDE DEF items
    <3>3. len \in Nat /\ len # 0  OBVIOUS
    <3>. QED  BY <3>2, <3>3, FunctionIsSeq
  <2>5. e_global_idx + len = EndOf(e_shard_idx + 1)
    <3>1. EndOf(e_shard_idx + 1) = EndOf(e_shard_idx) + chunks[e_shard_idx + 1]
          BY <2>0, EndsMeet
    <3>. QED  BY <2>1, <3>1
  <2>6. \A j \in 1 .. Len(items) : items[j] = e_global_idx + j - 1  BY <2>4
  <2>7. e_answer # Eager!Error  BY <1>1, <2>1, <2>3
  <2> HIDE DEF items
  <2>. QED  BY <1>6, <2>1, <2>3, <2>4, <2>5, <2>6, <2>7
<1>9. CASE Eager!NextFails
  <2>1. /\ Eager!NeedsShard /\ e_shard_idx < n /\ e_shard_idx \in SliceUnreadable
        /\ e_items = <<>> /\ e_global_idx < total
        BY <1>1, <1>5, <1>9, EagerReads DEF Eager!NextFails, Eager!NeedsShard
  <2>2. /\ e_answer' = Eager!Error /\ e_shard_idx' = e_shard_idx
        /\ e_global_idx' = e_global_idx /\ e_items' = e_items
        BY <1>9 DEF Eager!NextFails, Eager!ShardKept
  <2>3. EagerTrue'
    <3>1. EndOf(e_shard_idx)' = EndOf(e_shard_idx)  BY <2>2, TableStays DEF EndOf, visitVars
    <3>2. (Eager!Error)' = Eager!Error  BY DEF Eager!Error
    <3>. QED  BY <1>1, <1>2, <1>3, <2>1, <2>2, <3>1, <3>2 DEF EagerTrue
  <2>4. Eager!Stream!Fail
        BY <1>2, <2>1, <2>2 DEF Eager!Stream!Fail, Eager!Error, Eager!Stream!Error
  <2>. QED  BY <2>3, <2>4 DEF Eager!Stream!Next
<1>10. CASE Eager!NextEnds
  <2>1. /\ e_global_idx = total /\ e_answer' = Eager!End /\ e_global_idx' = e_global_idx
        /\ e_shard_idx' = e_shard_idx /\ e_items' = e_items
        BY <1>5, <1>10 DEF Eager!NextEnds
  <2>2. EagerTrue'
    <3>1. EndOf(e_shard_idx)' = EndOf(e_shard_idx)  BY <2>1, TableStays DEF EndOf, visitVars
    <3>2. e_answer' # (Eager!Error)'  BY <1>4, <2>1 DEF Eager!Error
    <3>. QED  BY <1>1, <1>2, <2>1, <3>1, <3>2 DEF EagerTrue
  <2>3. Eager!Stream!Finish
    <3>1. (e_answer' = Eager!Error) = FALSE /\ (e_answer = Eager!Error) = FALSE
          BY <1>1, <1>4, <2>1
    <3>2. Eager!End = Eager!Stream!End  BY DEF Eager!End, Eager!Stream!End
    <3>. QED  BY <1>2, <2>1, <3>1, <3>2 DEF Eager!Stream!Finish, Eager!Error
  <2>. QED  BY <2>2, <2>3 DEF Eager!Stream!Next
<1>. QED  BY <1>7, <1>8, <1>9, <1>10 DEF Eager!Next

\* Every step of the vector is one of its readers', or leaves them alone.
LEMMA ReaderSteps ==
  ASSUME LoadTrue, [Next]_vars
  PROVE  \/ UNCHANGED <<client, unreadable, eagerVars, lazyVars, total_len>> /\ client # "lazy"
         \/ UNCHANGED <<client, unreadable, eagerVars, lazyVars, visitVars>>
         \/ Open
         \/ Load /\ client = "none" /\ client' = "load"
         \/ Iterate
<1>1. CASE Save
  <2>1. UNCHANGED <<client, unreadable, eagerVars, lazyVars>> /\ Visit  BY <1>1 DEF Save
  <2>2. total_len' = total_len
        BY <2>1 DEF Visit, Slice, CountShard, PushLastRun, Visited, inputs, visitVars
  <2>3. client = "lazy" => UNCHANGED visitVars
    <3>1. client = "lazy" => phase = "done"  BY DEF LoadTrue
    <3>. QED  BY <2>1, <3>1 DEF Visit, Slice, CountShard, PushLastRun, Visited
  <2>. QED  BY <2>1, <2>2, <2>3
<1>2. CASE Load  BY <1>2 DEF Load
<1>3. CASE Decode \/ Loaded \/ UNCHANGED vars  BY <1>3 DEF Decode, Loaded, vars
<1>. QED  BY <1>1, <1>2, <1>3 DEF Next

\* The streaming iterator makes a step of the stream, or none that the stream
\* sees.
LEMMA EagerStep ==
  ASSUME VisitTrue, LoadTrue, EagerTrue, [Next]_vars
  PROVE  EagerTrue' /\ [Eager!Stream!Next]_(Eager!Stream!vars)
<1>0. (Eager!Error)' = Eager!Error /\ (Eager!NotCalled)' = Eager!NotCalled
      BY DEF Eager!Error, Eager!NotCalled
<1>1. CASE UNCHANGED <<client, eagerVars, total_len>> /\ client # "lazy"
      BY <1>0, <1>1 DEF EagerTrue, eagerVars, Eager!Stream!vars
<1>2. CASE UNCHANGED <<client, unreadable, eagerVars, visitVars>>
  <2>1. EndOf(e_shard_idx)' = EndOf(e_shard_idx)
        BY <1>2, TableStays DEF EndOf, visitVars, eagerVars
  <2>2. SliceUnreadable' = SliceUnreadable  BY <1>2 DEF SliceUnreadable, visitVars
  <2>. QED  BY <1>0, <1>2, <2>1, <2>2 DEF EagerTrue, eagerVars, visitVars, Eager!Stream!vars
<1>3. CASE Open
  <2>1. /\ e_global_idx' = 0 /\ e_shard_idx' = 0 /\ e_items' = <<>>
        /\ e_answer' = Eager!NotCalled /\ total_len' = total_len /\ client' = "lazy"
        /\ chunks' = chunks
        BY <1>3 DEF Open, EagerTrue, eagerVars, visitVars
  <2>2. <<>> \in Seq(Nat) /\ Len(<<>>) = 0  BY EmptySeq
  <2>3. EndOf(0)' = 0  BY DEF EndOf
  <2>4. Len(chunks) \in Nat /\ total_len \in Nat  BY DEF VisitTrue, VisitTypeOK
  <2>5. Eager!NotCalled # Eager!Error
    <3>1. Eager!NotCalled.how = "not called" /\ Eager!Error.how = "error"
          BY DEF Eager!NotCalled, Eager!Error
    <3>. QED  BY <3>1
  <2>6. EagerTrue'
    <3>1. EndOf(e_shard_idx)' = 0  BY <2>1, <2>3 DEF EndOf
    <3>2. e_answer' # (Eager!Error)'  BY <1>0, <2>1, <2>5
    <3>. QED  BY <2>1, <2>2, <2>4, <3>1, <3>2 DEF EagerTrue
  <2>7. UNCHANGED Eager!Stream!vars
        BY <1>0, <1>3 DEF Open, eagerVars, visitVars, Eager!Stream!vars
  <2>. QED  BY <2>6, <2>7
<1>4. CASE Load /\ client = "none" /\ client' = "load"
      BY <1>0, <1>4 DEF Load, EagerTrue, eagerVars, visitVars, Eager!Stream!vars
<1>5. CASE Iterate
  <2>1. client = "lazy" /\ UNCHANGED <<visitVars, client, unreadable>>
        BY <1>5 DEF Iterate
  <2>2. CASE UNCHANGED eagerVars  BY <1>2, <2>1, <2>2
  <2>3. CASE Eager!Next  BY <2>1, <2>3, EagerNext
  <2>. QED  BY <1>5, <2>2, <2>3 DEF Iterate
<1>. QED  BY <1>1, <1>2, <1>3, <1>4, <1>5, ReaderSteps

\* IterKeepsPromise: ChunkNode::iter implements an ItemStream that does not
\* resume, for every vector and whatever shards cannot be read: every item in
\* order up to the first such shard, the error from then on, and the end only
\* after the last item.
THEOREM IterRefines == Spec => IterKeepsPromise
<1>1. Init => EagerTrue /\ Eager!Stream!Init
  <2> SUFFICES ASSUME Init PROVE EagerTrue /\ Eager!Stream!Init  OBVIOUS
  <2>1. /\ client = "none" /\ e_global_idx = 0 /\ e_shard_idx = 0 /\ e_items = <<>>
        /\ e_answer = Eager!NotCalled /\ total_len \in Nat
        BY VisitStarts DEF Init, Eager!IterInit, VisitTrue, VisitTypeOK
  <2>2. e_answer # Eager!Error /\ e_answer = Eager!Stream!NotCalled
    <3>1. Eager!NotCalled.how = "not called" /\ Eager!Error.how = "error"
          BY DEF Eager!NotCalled, Eager!Error
    <3>. QED  BY <2>1, <3>1 DEF Eager!NotCalled, Eager!Stream!NotCalled
  <2>3. (e_answer = Eager!Error) = FALSE  BY <2>2
  <2>. QED  BY <2>1, <2>2, <2>3 DEF EagerTrue, Eager!Stream!Init, Eager!Error
<1>2. VisitTrue /\ LoadTrue /\ EagerTrue /\ [Next]_vars
        => EagerTrue' /\ [Eager!Stream!Next]_(Eager!Stream!vars)
      BY EagerStep
<1>. QED  BY <1>1, <1>2, AlwaysTrue, PTL
          DEF Spec, IterKeepsPromise, Eager!KeepsPromise, Eager!Stream!Spec
-----------------------------------------------------------------------------
\* What the lazy iterator and the promise read.
LEMMA LazyReads ==
  ASSUME VisitTrue, phase = "done"
  PROVE  /\ DOMAIN Lazy!Jobs = 1 .. Len(chunks) /\ Len(Lazy!Jobs) = Len(chunks)
         /\ Lazy!ItemsIn(shard_runs) = total_len
         /\ \A s \in 1 .. Len(chunks) :
              Lazy!Jobs[s].start = StartOf(s) /\ Lazy!Jobs[s].expected = chunks[s]
<1> PICK n \in Nat : n = Len(chunks)  BY SliceFacts DEF SlicesOf
<1>1. /\ ItemsIn(shard_runs) = total_len
      /\ ShardJobs(shard_runs)
           = [k \in 1 .. n |-> [start |-> StartOf(k), expected |-> chunks[k]]]
      BY TableIsTrue DEF TableTrue, StartOf
<1>2. Lazy!Jobs = ShardJobs(shard_runs) /\ Lazy!ItemsIn(shard_runs) = total_len
      BY <1>1, SameTable DEF Lazy!Jobs
<1> DEFINE jobs == [k \in 1 .. n |-> [start |-> StartOf(k), expected |-> chunks[k]]]
           S == {jobs[k] : k \in 1 .. n}
<1>3. jobs \in [1 .. n -> S]  OBVIOUS
<1>4. \A k \in 1 .. n : jobs[k].start = StartOf(k) /\ jobs[k].expected = chunks[k]  OBVIOUS
<1> HIDE DEF jobs, S
<1>5. Len(jobs) = n  BY <1>3, FunctionIsSeq
<1>6. Lazy!Jobs = jobs  BY <1>1, <1>2 DEF jobs
<1>. QED  BY <1>2, <1>3, <1>4, <1>5, <1>6

\* Nothing is given up of no shards.
LEMMA NothingLost == LostBefore(0) = 0
<1> DEFINE Rec(f) == f = [s \in 0 .. 0 |-> IF s = 0 THEN 0
             ELSE f[s - 1] + (IF s \in unreadable.shards THEN Lazy!Jobs[s].expected ELSE 0)]
<1>1. LostBefore(0) = (CHOOSE f : Rec(f))[0]  BY DEF LostBefore
<1>2. \E f : Rec(f)
  <2> DEFINE f == [s \in 0 .. 0 |-> 0]
  <2>1. Rec(f)  OBVIOUS
  <2>. QED  BY <2>1
<1>3. \A f : Rec(f) => f[0] = 0  OBVIOUS
<1> HIDE DEF Rec
<1>. QED  BY <1>1, <1>2, <1>3

\* GivenUp counts the items of each unreadable shard once.
LEMMA LostSteps ==
  ASSUME VisitTrue, phase = "done"
  PROVE  /\ \A m \in 0 .. Len(chunks) : LostBefore(m) \in Nat
         /\ \A m \in 1 .. Len(chunks) :
              LostBefore(m)
                = LostBefore(m - 1) + IF m \in unreadable.shards THEN chunks[m] ELSE 0
<1> PICK n \in Nat : n = Len(chunks)  BY SliceFacts DEF SlicesOf
<1> DEFINE Lost(s) == IF s \in unreadable.shards THEN Lazy!Jobs[s].expected ELSE 0
           g == [s \in 1 .. n |-> Lost(s)]
<1>1. \A s \in 1 .. n : /\ g[s] = Lost(s) /\ g[s] \in Nat
                        /\ Lost(s) = IF s \in unreadable.shards THEN chunks[s] ELSE 0
  <2>1. \A s \in 1 .. n : Lazy!Jobs[s].expected = chunks[s] /\ chunks[s] \in Nat
        BY LazyReads, ShardsApart
  <2>. QED  BY <2>1
<1>2. Numbers(n, g)  BY <1>1 DEF Numbers
<1>3. PICK f : IsTotal(n, g, f)  BY <1>2, TotalExists
<1>4. /\ f \in [0 .. n -> Nat] /\ f[0] = 0
      /\ \A r \in 1 .. n : f[r] = f[r - 1] + g[r]
  <2> HIDE DEF g
  <2>. QED  BY <1>2, <1>3, TotalSteps
<1>5. ASSUME NEW m \in 0 .. n PROVE LostBefore(m) = f[m]
  <2> DEFINE Rec(h) == h = [s \in 0 .. m |-> IF s = 0 THEN 0
               ELSE h[s - 1] + (IF s \in unreadable.shards THEN Lazy!Jobs[s].expected ELSE 0)]
  <2>1. LostBefore(m) = (CHOOSE h : Rec(h))[m]  BY DEF LostBefore
  <2>2. ASSUME NEW h PROVE IsTotal(m, g, h) <=> Rec(h)
    <3>1. [s \in 0 .. m |-> IF s = 0 THEN 0 ELSE h[s - 1] + g[s]]
            = [s \in 0 .. m |-> IF s = 0 THEN 0 ELSE h[s - 1] + Lost(s)]
      <4>1. \A s \in 0 .. m : s # 0 => s \in 1 .. n  OBVIOUS
      <4> HIDE DEF g, Lost
      <4>. QED  BY <1>1, <4>1
    <3>. QED  BY <3>1 DEF IsTotal
  <2> HIDE DEF g, Rec
  <2>3. m \in Nat /\ Numbers(m, g)  BY <1>2 DEF Numbers
  <2>4. PICK h : IsTotal(m, g, h)  BY <2>3, TotalExists
  <2>5. Rec(CHOOSE h1 : Rec(h1))  BY <2>2, <2>4
  <2>6. IsTotal(m, g, CHOOSE h1 : Rec(h1))  BY <2>2, <2>5
  <2>. QED  BY <1>2, <1>3, <2>1, <2>6, TotalsAgree
<1> HIDE DEF g, Lost
<1>6. ASSUME NEW m \in 1 .. n
      PROVE  LostBefore(m) = LostBefore(m - 1) + IF m \in unreadable.shards THEN chunks[m] ELSE 0
  <2>1. m \in 0 .. n /\ m - 1 \in 0 .. n  OBVIOUS
  <2>. QED  BY <1>1, <1>4, <1>5, <2>1
<1>. QED  BY <1>4, <1>5, <1>6

\* The children of `size` items of F fields each.
ItemChildren(all, F, size, start) ==
  all = [c \in 1 .. size * F |->
          [place |-> start + (c - 1) \div F, field |-> ((c - 1) % F) + 1]]

FromItem(all, F, size, k) == SubSeq(all, k * F + 1, size * F)

\* Which of them are those of the k-th item, and which come after it.
ByItem(all, F, size, start, k) ==
  LET C == FromItem(all, F, size, k)
  IN /\ Len(all) = size * F /\ FromItem(all, F, size, 0) = all
     /\ C \in Seq([place : Nat, field : 1 .. F]) /\ Len(C) = (size - k) * F
     /\ k < size => /\ \A f \in 1 .. F : C[f] = [place |-> start + k, field |-> f]
                    /\ SubSeq(C, F + 1, Len(C)) = FromItem(all, F, size, k + 1)

\* And they are, for any numbers of items and fields.
LEMMA ItemByItem ==
  ASSUME NEW F \in Nat \ {0}, NEW size \in Nat, NEW start \in Nat, NEW k \in Nat, k <= size,
         NEW all, ItemChildren(all, F, size, start)
  PROVE  ByItem(all, F, size, start, k)
<1> DEFINE Child == [place : Nat, field : 1 .. F]
<1>1. PICK m \in Nat : m = size * F  OBVIOUS
<1>2. PICK p \in Nat : p = k * F  OBVIOUS
<1>3. PICK d \in Nat : size = k + d
  <2>1. size - k \in Nat /\ size = k + (size - k)  OBVIOUS
  <2>. QED  BY <2>1
<1>4. PICK q \in Nat : q = (size - k) * F /\ m = p + q
  <2>1. m = k * F + d * F /\ d * F \in Nat /\ size - k = d  BY <1>1, <1>3
  <2>. QED  BY <1>2, <2>1
<1>5. m = p + q  BY <1>4
<1>6. all = [c \in 1 .. m |-> [place |-> start + (c - 1) \div F, field |-> ((c - 1) % F) + 1]]
      BY <1>1 DEF ItemChildren
<1>7. all \in Seq(Child) /\ Len(all) = m
  <2>1. ASSUME NEW c \in 1 .. m
        PROVE  [place |-> start + (c - 1) \div F, field |-> ((c - 1) % F) + 1] \in Child
    <3>1. c - 1 \in Nat  OBVIOUS
    <3>2. (c - 1) \div F \in Nat /\ (c - 1) % F \in 0 .. F - 1  BY <3>1, DivisionFacts
    <3>. QED  BY <3>2
  <2> HIDE DEF Child
  <2>2. all \in [1 .. m -> Child]  BY <1>6, <2>1
  <2>. QED  BY <2>2, FunctionIsSeq
<1> HIDE DEF Child
<1> DEFINE C == SubSeq(all, p + 1, m)
<1>8. /\ C \in Seq(Child) /\ Len(C) = q
      /\ \A i \in 1 .. q : C[i] = all[p + i]
  <2>1. \A i \in p + 1 .. m : all[i] \in Child
    <3>1. \A i \in p + 1 .. m : i \in 1 .. Len(all)  BY <1>7
    <3>. QED  BY <1>7, <3>1, ElementOfSeq
  <2>2. C = [i \in 1 .. 1 + m - (p + 1) |-> all[i + (p + 1) - 1]]  BY DEF SubSeq
  <2>3. 1 + m - (p + 1) = q /\ \A i \in 1 .. q : i + (p + 1) - 1 = p + i /\ p + i \in p + 1 .. m
        BY <1>5
  <2>4. C = [i \in 1 .. q |-> all[p + i]]  BY <2>2, <2>3
  <2> HIDE DEF C
  <2>5. C \in [1 .. q -> Child]  BY <2>1, <2>3, <2>4
  <2>. QED  BY <2>4, <2>5, FunctionIsSeq
<1>9. ASSUME k < size PROVE F <= q
  <2>1. PICK e \in Nat : size - k = e + 1
    <3>1. size - k - 1 \in Nat /\ size - k = (size - k - 1) + 1  BY <1>9
    <3>. QED  BY <3>1
  <2>2. (e + 1) * F = e * F + F /\ e * F \in Nat  OBVIOUS
  <2>. QED  BY <1>4, <2>1, <2>2
<1>10. ASSUME k < size, NEW f \in 1 .. F
      PROVE  C[f] = [place |-> start + k, field |-> f]
  <2>1. f \in 1 .. q /\ p + f \in 1 .. m  BY <1>5, <1>9, <1>10
  <2>2. (p + f) - 1 = k * F + (f - 1) /\ f - 1 \in 0 .. F - 1  BY <1>2
  <2>3. (k * F + (f - 1)) \div F = k /\ (k * F + (f - 1)) % F = f - 1
        BY <2>2, DivisionUnique
  <2>4. C[f] = all[p + f]  BY <1>8, <2>1
  <2>5. (f - 1) + 1 = f  OBVIOUS
  <2> HIDE DEF C
  <2>6. all[p + f] = [place |-> start + ((p + f) - 1) \div F, field |-> (((p + f) - 1) % F) + 1]
        BY <1>6, <2>1
  <2>. QED  BY <2>2, <2>3, <2>4, <2>5, <2>6
<1>11. ASSUME k < size
      PROVE  SubSeq(C, F + 1, q) = SubSeq(all, p + F + 1, m)
  <2> HIDE DEF C
  <2>1. SubSeq(C, F + 1, q) = [i \in 1 .. 1 + q - (F + 1) |-> C[i + (F + 1) - 1]]
        BY DEF SubSeq
  <2>2. SubSeq(all, p + F + 1, m) = [i \in 1 .. 1 + m - (p + F + 1) |-> all[i + (p + F + 1) - 1]]
        BY DEF SubSeq
  <2>3. 1 + q - (F + 1) = 1 + m - (p + F + 1)  BY <1>5
  <2>4. ASSUME NEW i \in 1 .. 1 + q - (F + 1)
        PROVE  C[i + (F + 1) - 1] = all[i + (p + F + 1) - 1]
    <3>1. i + (F + 1) - 1 \in 1 .. q /\ p + (i + (F + 1) - 1) = i + (p + F + 1) - 1
          OBVIOUS
    <3>. QED  BY <1>8, <3>1
  <2>. QED  BY <2>1, <2>2, <2>3, <2>4
<1>12. SubSeq(all, 0 * F + 1, m) = all
  <2>1. 0 * F + 1 = 1  OBVIOUS
  <2>. QED  BY <1>7, <2>1, SubSeqFull
<1>13. (k + 1) * F + 1 = p + F + 1  BY <1>2
<1>14. /\ FromItem(all, F, size, k) = C /\ FromItem(all, F, size, 0) = all
       /\ FromItem(all, F, size, k + 1) = SubSeq(all, p + F + 1, m)
       BY <1>1, <1>2, <1>12, <1>13 DEF FromItem
<1> HIDE DEF C
<1>. QED  BY <1>1, <1>4, <1>7, <1>8, <1>10, <1>11, <1>14 DEF Child, ByItem

\* The children of a shard are those of its items, one item after another.
LEMMA ChildrenFacts ==
  ASSUME VisitTrue, phase = "done", NEW s \in 1 .. Len(chunks), NEW pos \in Nat,
         pos <= chunks[s]
  PROVE  /\ ChildrenFrom(s, pos) \in Seq([place : Nat, field : 1 .. Fields])
         /\ Len(ChildrenFrom(s, pos)) = (chunks[s] - pos) * Fields
         /\ pos < chunks[s] =>
              /\ \A f \in 1 .. Fields :
                   ChildrenFrom(s, pos)[f] = [place |-> StartOf(s) + pos, field |-> f]
              /\ SubSeq(ChildrenFrom(s, pos), Fields + 1, Len(ChildrenFrom(s, pos)))
                   = ChildrenFrom(s, pos + 1)
         /\ ChildrenFrom(s, 0) = Lazy!ChildrenOf(s)
<1> PICK size \in Nat : size = chunks[s]  BY ShardsApart
<1> PICK start \in Nat : start = StartOf(s)  BY ShardsApart
<1> PICK F \in Nat \ {0} : F = Fields  BY SavedVectorAssumption
<1> PICK all : all = Lazy!ChildrenOf(s)  OBVIOUS
<1>1. ItemChildren(all, F, size, start)  BY LazyReads DEF Lazy!ChildrenOf, ItemChildren
<1>2. ByItem(all, F, size, start, pos)
  <2>1. pos <= size  OBVIOUS
  <2>. QED  BY <1>1, <2>1, ItemByItem
<1>3. /\ ChildrenFrom(s, pos) = FromItem(all, F, size, pos)
      /\ ChildrenFrom(s, 0) = FromItem(all, F, size, 0)
      /\ ChildrenFrom(s, pos + 1) = FromItem(all, F, size, pos + 1)
      BY <1>2 DEF ByItem, ChildrenFrom, FromItem
<1>. QED  BY <1>2, <1>3 DEF ByItem

\* A mirror read from an item's own children is that item, if it can be read.
LEMMA MirrorOfOwn ==
  ASSUME VisitTrue, phase = "done", NEW s \in 1 .. Len(chunks), NEW pos \in Nat,
         pos < chunks[s], NEW children, children = ChildrenFrom(s, pos)
  PROVE  /\ Lazy!StructUnreadable(children) <=> StartOf(s) + pos \in unreadable.items
         /\ Lazy!Mirror(StartOf(s) + pos, children)
              = IF StartOf(s) + pos \in unreadable.items THEN Lazy!Error
                ELSE Lazy!Item(StartOf(s) + pos)
<1> PICK place : place = StartOf(s) + pos  OBVIOUS
<1> PICK F \in Nat \ {0} : F = Fields  BY SavedVectorAssumption
<1>1. pos <= chunks[s]  BY ShardsApart
<1>2. \A f \in 1 .. F : children[f] = [place |-> place, field |-> f]
      BY <1>1, ChildrenFacts
<1>3. children[1] = [place |-> place, field |-> 1]  BY <1>2
<1>4. Lazy!StructUnreadable(children) <=> place \in unreadable.items
      BY <1>3 DEF Lazy!StructUnreadable
<1>. QED  BY <1>2, <1>4 DEF Lazy!Mirror

\* What reading the next item of a shard gives, and what it leaves.
MirrorTrue(s, pos, left, place, rest, mirror) ==
  /\ ChildrenTrue(s, pos + 1, left - 1, rest)
  /\ mirror \in {Lazy!Item(place), Lazy!Error, [how |-> "mixed", place |-> place]}
  /\ mirror = Lazy!Error => BadBefore(s, place + 1)
  /\ mirror = [how |-> "mixed", place |-> place] => BadBefore(s, place)
  /\ mirror # Lazy!Error /\ place \in unreadable.items => BadBefore(s, place)

\* It is what the children tell, whole or not.
LEMMA MirrorFacts ==
  ASSUME VisitTrue, phase = "done", unreadable.items \subseteq Nat, NEW s \in 1 .. Len(chunks), NEW pos \in Nat,
         NEW left \in Nat \ {0}, pos + left = chunks[s],
         NEW children, ChildrenTrue(s, pos, left, children),
         NEW rest, rest = SubSeq(children, Lazy!ChildrenTaken(children) + 1, Len(children)),
         NEW place, place = StartOf(s) + pos, NEW mirror, mirror = Lazy!Mirror(place, children)
  PROVE  MirrorTrue(s, pos, left, place, rest, mirror)
<1> PICK F \in Nat \ {0} : F = Fields  BY SavedVectorAssumption
<1> PICK size \in Nat : size = chunks[s]  BY ShardsApart
<1> PICK start \in Nat : start = StartOf(s)  BY ShardsApart
<1>1. pos < size /\ pos <= size /\ place = start + pos /\ place \in Nat /\ place < start + size
  <2>1. pos + left = size  OBVIOUS
  <2>. QED  BY <2>1
<1>2. /\ children \in Seq([place : Nat, field : 1 .. F]) /\ left * F <= Len(children)
      /\ children = ChildrenFrom(s, pos) \/ BadBefore(s, place)
      BY <1>1 DEF ChildrenTrue
<1>3. PICK taken \in 1 .. F : taken = Lazy!ChildrenTaken(children)
      BY DEF Lazy!ChildrenTaken
<1>4. taken <= Len(children) /\ (left - 1) * F <= Len(children) - taken
      /\ Len(children) \in Nat
  <2>1. Len(children) \in Nat  BY <1>2, LenProperties
  <2>2. PICK a \in Nat : a = (left - 1) * F /\ left * F = a + F
    <3>1. PICK e \in Nat : left = e + 1
      <4>1. left - 1 \in Nat /\ left = (left - 1) + 1  OBVIOUS
      <4>. QED  BY <4>1
    <3>2. left - 1 = e /\ (e + 1) * F = e * F + F /\ e * F \in Nat  BY <3>1
    <3>. QED  BY <3>1, <3>2
  <2>3. PICK len \in Nat : len = Len(children)  BY <2>1
  <2>4. a + F <= len  BY <1>2, <2>2, <2>3
  <2>5. taken <= len /\ a <= len - taken  BY <2>4
  <2>. QED  BY <2>2, <2>3, <2>5
<1>5. rest \in Seq([place : Nat, field : 1 .. F]) /\ Len(rest) = Len(children) - taken
  <2> PICK Child : Child = [place : Nat, field : 1 .. F]  OBVIOUS
  <2>1. children \in Seq(Child) /\ taken \in Nat /\ taken <= Len(children)  BY <1>2, <1>4
  <2>2. rest = SubSeq(children, taken + 1, Len(children))  BY <1>3
  <2>3. /\ SubSeq(children, taken + 1, Len(children)) \in Seq(Child)
        /\ Len(SubSeq(children, taken + 1, Len(children))) = Len(children) - taken
        BY <2>1, RestIsSeq
  <2>. QED  BY <2>2, <2>3
<1>6. BadBefore(s, place) => BadBefore(s, place + 1)
  <2> SUFFICES ASSUME NEW i \in unreadable.items, StartOf(s) <= i, i < place
               PROVE  i < place + 1
      BY DEF BadBefore
  <2>1. i \in Nat  OBVIOUS
  <2>. QED  BY <1>1, <2>1
<1>7. /\ Lazy!Item(place).how = "item" /\ Lazy!Error.how = "error"
      /\ [how |-> "mixed", place |-> place].how = "mixed"
      BY DEF Lazy!Item, Lazy!Error
<1>8. mirror \in {Lazy!Item(place), Lazy!Error, [how |-> "mixed", place |-> place]}
      BY DEF Lazy!Mirror
<1>9. CASE BadBefore(s, place)
  <2>1. place + 1 = start + (pos + 1)  BY <1>1
  <2>2. ChildrenTrue(s, pos + 1, left - 1, rest)
        BY <1>4, <1>5, <1>6, <1>9, <2>1 DEF ChildrenTrue
  <2>. QED  BY <1>6, <1>8, <1>9, <2>2 DEF MirrorTrue
<1>10. CASE ~BadBefore(s, place)
  <2>1. children = ChildrenFrom(s, pos)  BY <1>2, <1>10
  <2>2. /\ Lazy!StructUnreadable(children) <=> place \in unreadable.items
        /\ mirror = IF place \in unreadable.items THEN Lazy!Error ELSE Lazy!Item(place)
        BY <1>1, <2>1, MirrorOfOwn
  <2>3. place + 1 = start + (pos + 1)  BY <1>1
  <2>4. CASE place \in unreadable.items
    <3>1. BadBefore(s, place + 1)
      <4>1. StartOf(s) <= place /\ place < place + 1  BY <1>1
      <4>. QED  BY <2>4, <4>1 DEF BadBefore
    <3>2. ChildrenTrue(s, pos + 1, left - 1, rest)
          BY <1>4, <1>5, <2>3, <3>1 DEF ChildrenTrue
    <3>. QED  BY <1>7, <2>2, <2>4, <3>1, <3>2 DEF MirrorTrue
  <2>5. CASE place \notin unreadable.items
    <3>1. taken = F  BY <1>3, <2>2, <2>5 DEF Lazy!ChildrenTaken
    <3>2. rest = ChildrenFrom(s, pos + 1)
      <4>1. pos <= chunks[s] /\ pos < chunks[s]  BY <1>1
      <4>2. SubSeq(ChildrenFrom(s, pos), Fields + 1, Len(ChildrenFrom(s, pos)))
              = ChildrenFrom(s, pos + 1)
            BY <4>1, ChildrenFacts
      <4>. QED  BY <1>3, <2>1, <3>1, <4>2
    <3>3. ChildrenTrue(s, pos + 1, left - 1, rest)
          BY <1>4, <1>5, <3>2 DEF ChildrenTrue
    <3>. QED  BY <1>7, <2>2, <2>5, <3>3 DEF MirrorTrue
  <2>. QED  BY <2>4, <2>5
<1>. QED  BY <1>9, <1>10

\* What is known of a file stays known.
LEMMA FileStays ==
  ASSUME UNCHANGED <<visitVars, unreadable>>
  PROVE  /\ chunks' = chunks /\ total_len' = total_len /\ Lazy!Jobs' = Lazy!Jobs
         /\ \A s : StartOf(s)' = StartOf(s) /\ EndOf(s)' = EndOf(s)
         /\ \A m : LostBefore(m)' = LostBefore(m)
         /\ \A s, x : BadBefore(s, x)' = BadBefore(s, x)
         /\ \A s, x : ChildrenFrom(s, x)' = ChildrenFrom(s, x)
<1>1. chunks' = chunks /\ total_len' = total_len /\ shard_runs' = shard_runs
      BY DEF visitVars
<1>2. Lazy!Jobs' = Lazy!Jobs
      BY <1>1 DEF Lazy!Jobs, Lazy!ShardJobs, Lazy!ShardsIn, Lazy!ShardsBefore, Lazy!ShardStart,
                  Lazy!ItemsBefore
<1>3. \A s : StartOf(s)' = StartOf(s) /\ EndOf(s)' = EndOf(s)  BY <1>1, TableStays DEF EndOf
<1>4. \A m : LostBefore(m)' = LostBefore(m)  BY <1>2 DEF LostBefore
<1>5. \A s, x : BadBefore(s, x)' = BadBefore(s, x)  BY <1>3 DEF BadBefore
<1>6. \A s, x : ChildrenFrom(s, x)' = ChildrenFrom(s, x)
      BY <1>2 DEF ChildrenFrom, Lazy!ChildrenOf
<1>. QED  BY <1>1, <1>2, <1>3, <1>4, <1>5, <1>6

\* The parts of LazyTrue that the steps below need.
LEMMA LazyFacts ==
  ASSUME VisitTrue, LoadTrue, LazyTrue, client = "lazy"
  PROVE  /\ phase = "done" /\ Len(chunks) \in Nat /\ total_len \in Nat
         /\ unreadable.items \subseteq Nat
         /\ Lazy!GivenUp = LostBefore(l_shards) /\ Lazy!GivenUp \in Nat
         /\ l_shards \in 0 .. Len(chunks) /\ l_pos \in Nat /\ l_left \in Nat /\ l_yielded \in Nat
         /\ l_yielded + Lazy!GivenUp + l_left = EndOf(l_shards)
         /\ l_left > 0 => l_shards # 0 /\ l_shards \notin unreadable.shards /\ InShard
<1>1. phase = "done"  BY DEF LoadTrue
<1>2. Len(chunks) \in Nat /\ total_len \in Nat  BY DEF VisitTrue, VisitTypeOK
<1>3. Lazy!GivenUp = LostBefore(l_shards)  BY DEF Lazy!GivenUp, LostBefore
<1>4. unreadable.items \subseteq Nat
  <2>1. unreadable.items \subseteq 0 .. total_len - 1  BY DEF LazyTrue
  <2>. QED  BY <1>2, <2>1
<1>5. l_left > 0 => l_shards # 0 /\ l_shards \notin unreadable.shards /\ InShard
  <2>1. ~ (0 > 0)  OBVIOUS
  <2>2. IF l_shards = 0 THEN l_left = 0
        ELSE IF l_shards \in unreadable.shards THEN l_left = 0 ELSE InShard
        BY DEF LazyTrue
  <2>. QED  BY <2>1, <2>2
<1>. QED  BY <1>1, <1>2, <1>3, <1>4, <1>5 DEF LazyTrue

\* An item of the s-th shard can be read next: `pos` items of it have been, and
\* `left` are left.
ReadsFrom(s, pos, left, children) ==
  /\ s \notin unreadable.shards /\ pos + left = chunks[s]
  /\ ChildrenTrue(s, pos, left, children)
  /\ Lazy!GivenUp = LostBefore(s) /\ l_yielded + Lazy!GivenUp + left = EndOf(s)

\* A call that reads it.
LEMMA LazyReadsItem ==
  ASSUME VisitTrue, LoadTrue, LazyTrue, client = "lazy",
         UNCHANGED <<visitVars, client, unreadable>>,
         NEW s \in 1 .. Len(chunks), NEW pos \in Nat, NEW left \in Nat \ {0},
         NEW children, ReadsFrom(s, pos, left, children),
         Lazy!ReadItem(s, pos, children, left), l_shards' = s
  PROVE  LazyTrue' /\ Lazy!Stream!Next
<1> PICK n \in Nat : n = Len(chunks)  BY LazyFacts
<1> PICK total \in Nat : total = total_len  BY LazyFacts
<1>1. PICK lost \in Nat : lost = Lazy!GivenUp  BY LazyFacts
<1>2. PICK size \in Nat : size = chunks[s]  BY LazyFacts, ShardsApart
<1>3. PICK start \in Nat : start = StartOf(s)  BY LazyFacts, ShardsApart
<1>4. PICK place \in Nat : place = start + pos  OBVIOUS
<1>5. PICK y \in Nat : y = l_yielded  BY LazyFacts
<1>6. PICK rest : rest = SubSeq(children, Lazy!ChildrenTaken(children) + 1, Len(children))
       OBVIOUS
<1>7. PICK mirror : mirror = Lazy!Mirror(place, children)  OBVIOUS
<1> DEFINE mixed == [how |-> "mixed", place |-> place]
<1>8. phase = "done" /\ unreadable.items \subseteq Nat /\ l_yielded \in Nat  BY LazyFacts
<1>9. /\ ChildrenTrue(s, pos + 1, left - 1, rest)
      /\ mirror \in {Lazy!Item(place), Lazy!Error, mixed}
      /\ mirror = Lazy!Error => BadBefore(s, place + 1)
      /\ mirror = mixed => BadBefore(s, place)
      /\ mirror # Lazy!Error /\ place \in unreadable.items => BadBefore(s, place)
  <2>1. place = StartOf(s) + pos  BY <1>3, <1>4
  <2>2. MirrorTrue(s, pos, left, place, rest, mirror)
        BY <1>8, <1>6, <1>7, <2>1, MirrorFacts DEF ReadsFrom
  <2>. QED  BY <2>2 DEF MirrorTrue
<1>10. /\ l_answer' = mirror /\ l_children' = rest /\ l_pos' = pos + 1 /\ l_left' = left - 1
      /\ l_yielded' = l_yielded + 1 /\ l_len' = l_len
  <2>1. Lazy!Jobs[s].start + pos = place  BY <1>8, <1>3, <1>4, LazyReads
  <2>. QED  BY <1>6, <1>7, <2>1 DEF Lazy!ReadItem, Lazy!file
<1> HIDE DEF mixed
<1>11. EndOf(s) = start + size /\ EndOf(s) <= total
  <2>1. s # 0 /\ s \in 0 .. Len(chunks)  OBVIOUS
  <2>2. EndOf(s) <= total  BY <1>8, <2>1, EndsMeet
  <2>. QED  BY <1>2, <1>3, <2>1, <2>2 DEF EndOf
<1>12. y + lost = place /\ place < total
  <2>1. y + lost + left = start + size /\ pos + left = size /\ start + size <= total
        BY <1>11, <1>1, <1>2, <1>5 DEF ReadsFrom
  <2>. QED  BY <1>4, <2>1
<1>13. Lazy!GivenUp' = lost
  <2>1. Lazy!GivenUp' = LostBefore(s)
    <3>1. Lazy!Jobs' = Lazy!Jobs /\ unreadable' = unreadable  BY FileStays
    <3>. QED  BY <3>1 DEF Lazy!GivenUp, LostBefore
  <2>. QED  BY <1>1, <2>1 DEF ReadsFrom
<1>14. Lazy!Passed = place /\ Lazy!Passed' = place + 1
  <2>1. Lazy!Passed = y + lost /\ Lazy!Passed' = (y + 1) + lost
        BY <1>10, <1>13, <1>1, <1>5 DEF Lazy!Passed
  <2>. QED  BY <1>12, <2>1
<1>15. mirror.how \in {"item", "mixed", "error"} /\ (mirror.how = "mixed" => mirror = mixed)
  <2>1. /\ Lazy!Item(place).how = "item" /\ Lazy!Error.how = "error" /\ mixed.how = "mixed"
        BY DEF Lazy!Item, Lazy!Error, mixed
  <2>. QED  BY <1>9, <2>1
<1>16. LazyTrue'
  <2>1. /\ chunks' = chunks /\ total_len' = total_len /\ client' = "lazy"
        /\ unreadable' = unreadable /\ Lazy!Jobs' = Lazy!Jobs
        BY FileStays
  <2>2. l_shards' \in 0 .. n /\ l_pos' \in Nat /\ l_left' \in Nat /\ l_yielded' \in Nat
        BY <1>10, <1>5
  <2>3. l_yielded' + Lazy!GivenUp' + l_left' = EndOf(l_shards)'
    <3>1. EndOf(l_shards)' = EndOf(s)  BY FileStays DEF EndOf
    <3>2. l_yielded' = y + 1 /\ l_left' = left - 1  BY <1>10, <1>5
    <3>3. (y + 1) + lost + (left - 1) = y + lost + left  OBVIOUS
    <3>4. y + lost + left = EndOf(s)  BY <1>1, <1>5 DEF ReadsFrom
    <3>. QED  BY <1>13, <3>1, <3>2, <3>3, <3>4
  <2>4. InShard'
    <3>1. l_pos' + l_left' = chunks'[l_shards']
      <4>1. pos + left = chunks[s] /\ (pos + 1) + (left - 1) = pos + left  BY DEF ReadsFrom
      <4>. QED  BY <1>10, <2>1, <4>1
    <3>2. /\ BadBefore(l_shards, StartOf(l_shards) + l_pos)' <=> BadBefore(s, StartOf(s) + (pos + 1))
          /\ ChildrenFrom(l_shards, l_pos)' = ChildrenFrom(s, pos + 1)
      <4>1. \A x : StartOf(x)' = StartOf(x)  BY FileStays
      <4>2. StartOf(l_shards)' = StartOf(s)  BY <4>1 DEF StartOf
      <4>3. BadBefore(l_shards, StartOf(l_shards) + l_pos)' <=> BadBefore(s, StartOf(s) + (pos + 1))
            BY <1>10, <2>1, <4>2 DEF BadBefore
      <4>4. ChildrenFrom(l_shards, l_pos)' = ChildrenFrom(s, pos + 1)
            BY <1>10, <2>1 DEF ChildrenFrom, Lazy!ChildrenOf
      <4>. QED  BY <4>3, <4>4
    <3>. QED  BY <1>9, <1>10, <3>1, <3>2 DEF InShard, ChildrenTrue
  <2>5. Lazy!OwnChunks'
    <3> SUFFICES ASSUME l_answer'.how = "mixed"
                 PROVE  \E i \in unreadable'.items :
                          Lazy!Jobs'[l_shards'].start <= i /\ i < l_answer'.place
        BY DEF Lazy!OwnChunks
    <3>1. l_answer' = mixed /\ BadBefore(s, place)  BY <1>9, <1>10, <1>15
    <3>2. mixed.place = place /\ Lazy!Jobs[s].start = StartOf(s)  BY <1>8, LazyReads DEF mixed
    <3>. QED  BY <2>1, <3>1, <3>2 DEF BadBefore
  <2>6. /\ unreadable'.items \subseteq 0 .. total_len' - 1
        /\ l_len' = IF unreadable'.container THEN 0 ELSE total_len'
        BY <1>10, <2>1 DEF LazyTrue
  <2>7. l_shards' # 0 /\ l_shards' \notin unreadable'.shards  BY <2>1 DEF ReadsFrom
  <2>8. l_answer'.how \in {"item", "mixed", "error", "end", "not called"}  BY <1>10, <1>15
  <2>9. Lazy!GivenUp' \in Nat  BY <1>13
  <2>. QED  BY <2>1, <2>2, <2>3, <2>4, <2>5, <2>6, <2>7, <2>8, <2>9 DEF LazyTrue
<1>17. (Lazy!Failed = (lost > 0 \/ \E i \in unreadable.items : i < place))
       /\ (Lazy!Failed' = (lost > 0 \/ \E i \in unreadable.items : i < place + 1))
  <2>1. unreadable' = unreadable  OBVIOUS
  <2>. QED  BY <1>13, <1>14, <1>1, <2>1 DEF Lazy!Failed
<1>18. CASE mirror = Lazy!Error
  <2>1. \E i \in unreadable.items : i < place + 1  BY <1>9, <1>18 DEF BadBefore
  <2>2. Lazy!Failed' = TRUE  BY <1>17, <2>1
  <2>3. Lazy!Stream!Fail
    <3>1. total_len' = total_len  BY FileStays
    <3>2. Lazy!Passed' \in Lazy!Passed .. total_len
      <4>1. place + 1 \in place .. total  BY <1>12
      <4>. QED  BY <1>14, <4>1
    <3>3. l_answer' = Lazy!Stream!Error  BY <1>10, <1>18 DEF Lazy!Error, Lazy!Stream!Error
    <3>. QED  BY <1>12, <1>14, <2>2, <3>1, <3>2, <3>3 DEF Lazy!Stream!Fail
  <2>. QED  BY <1>16, <2>3 DEF Lazy!Stream!Next
<1>19. CASE mirror # Lazy!Error
  <2>1. place \in unreadable.items => \E i \in unreadable.items : i < place
        BY <1>9, <1>19 DEF BadBefore
  <2>2. (\E i \in unreadable.items : i < place) <=> \E i \in unreadable.items : i < place + 1
    <3>1. \A i \in Nat : i < place + 1 <=> (i < place \/ i = place)  OBVIOUS
    <3>. QED  BY <1>8, <2>1, <3>1
  <2>3. Lazy!Failed' = Lazy!Failed  BY <1>17, <2>2
  <2>4. mirror = mixed => Lazy!Failed  BY <1>9, <1>17 DEF BadBefore
  <2>5. l_answer' \in {Lazy!Stream!Item(Lazy!Passed)}
          \cup (IF Lazy!Failed THEN {Lazy!Stream!Broken(Lazy!Passed)} ELSE {})
        BY <1>9, <1>10, <1>14, <1>19, <2>4
        DEF Lazy!Item, Lazy!Stream!Item, Lazy!Stream!Broken, mixed
  <2>6. total_len' = total_len  BY FileStays
  <2>7. Lazy!Stream!Deliver  BY <1>12, <1>14, <2>3, <2>5, <2>6 DEF Lazy!Stream!Deliver
  <2>. QED  BY <1>16, <2>7 DEF Lazy!Stream!Next
<1>. QED  BY <1>18, <1>19

\* What a call of the lazy iterator's next() does, of its four ways.
LEMMA LazyNext ==
  ASSUME VisitTrue, LoadTrue, LazyTrue, client = "lazy", Lazy!Next,
         UNCHANGED <<visitVars, client, unreadable>>
  PROVE  LazyTrue' /\ Lazy!Stream!Next
<1> PICK n \in Nat : n = Len(chunks)  BY LazyFacts
<1> PICK total \in Nat : total = total_len  BY LazyFacts
<1>1. PICK lost \in Nat : lost = Lazy!GivenUp  BY LazyFacts
<1>2. PICK y \in Nat : y = l_yielded  BY LazyFacts
<1>3. PICK s \in 0 .. n : s = l_shards  BY LazyFacts
<1>4. PICK left \in Nat : left = l_left  BY LazyFacts
<1>5. PICK pos \in Nat : pos = l_pos  BY LazyFacts
<1>6. phase = "done" /\ unreadable.items \subseteq Nat  BY LazyFacts
<1>7. /\ y + lost + left = EndOf(s) /\ lost = LostBefore(s)
      /\ left > 0 => s # 0 /\ s \notin unreadable.shards /\ InShard
      BY <1>1, <1>2, <1>3, <1>4, LazyFacts
<1>8. Len(Lazy!Jobs) = n  BY <1>6, LazyReads
<1>9. CASE Lazy!NextFromShard
  <2>1. left \in Nat \ {0} /\ s \in 1 .. Len(chunks)
        BY <1>3, <1>4, <1>7, <1>9 DEF Lazy!NextFromShard, Lazy!NeedsShard
  <2>2. /\ Lazy!ReadItem(s, pos, l_children, left) /\ l_shards' = s
        BY <1>3, <1>4, <1>5, <1>9 DEF Lazy!NextFromShard
  <2>3. left > 0  BY <2>1
  <2>4. ReadsFrom(s, pos, left, l_children)
        BY <1>1, <1>2, <1>3, <1>4, <1>5, <1>7, <2>3 DEF ReadsFrom, InShard
  <2>. QED  BY <2>1, <2>2, <2>4, LazyReadsItem
<1>10. ASSUME Lazy!NeedsShard, s < n
       PROVE  /\ left = 0 /\ s + 1 \in 1 .. n /\ (s + 1) - 1 = s
              /\ y + lost = EndOf(s) /\ EndOf(s) < total
              /\ EndOf(s + 1) = EndOf(s) + chunks[s + 1] /\ EndOf(s + 1) <= total
              /\ EndOf(s) \in Nat /\ chunks[s + 1] \in Nat \ {0}
              /\ LostBefore(s + 1)
                   = lost + IF s + 1 \in unreadable.shards THEN chunks[s + 1] ELSE 0
  <2>1. left = 0  BY <1>4, <1>10 DEF Lazy!NeedsShard
  <2>2. s + 1 \in 1 .. n /\ s + 1 \in 0 .. n /\ (s + 1) - 1 = s  BY <1>10
  <2>3. y + lost = EndOf(s)  BY <1>7, <2>1
  <2>4. /\ EndOf(s) < total /\ EndOf(s) \in Nat
        /\ EndOf(s + 1) = EndOf(s) + chunks[s + 1] /\ chunks[s + 1] \in Nat \ {0}
        BY <1>6, <1>10, EndsMeet
  <2>5. EndOf(s + 1) <= total  BY <1>6, <2>2, EndsMeet
  <2>6. LostBefore(s + 1)
          = LostBefore(s) + IF s + 1 \in unreadable.shards THEN chunks[s + 1] ELSE 0
        BY <1>6, <2>2, LostSteps
  <2>. QED  BY <1>7, <2>1, <2>2, <2>3, <2>4, <2>5, <2>6
<1>11. CASE Lazy!NextLoads
  <2>1. /\ Lazy!NeedsShard /\ s < n /\ s + 1 \notin unreadable.shards
        /\ l_shards' = s + 1
        /\ Lazy!ReadItem(s + 1, 0, Lazy!ChildrenOf(s + 1), Lazy!Jobs[s + 1].expected)
        BY <1>3, <1>8, <1>11 DEF Lazy!NextLoads, Lazy!PosReset
  <2>2. s + 1 \in 1 .. Len(chunks) /\ chunks[s + 1] \in Nat \ {0}  BY <1>10, <2>1
  <2>3. PICK size \in Nat \ {0} : size = chunks[s + 1]  BY <2>2
  <2>4. Lazy!Jobs[s + 1].expected = size  BY <1>6, <2>2, <2>3, LazyReads
  <2>5. ReadsFrom(s + 1, 0, size, Lazy!ChildrenOf(s + 1))
    <3>1. 0 + size = size /\ 0 <= chunks[s + 1] /\ 0 \in Nat  BY <2>3
    <3>2. ChildrenTrue(s + 1, 0, size, Lazy!ChildrenOf(s + 1))
      <4>1. /\ ChildrenFrom(s + 1, 0) = Lazy!ChildrenOf(s + 1)
            /\ ChildrenFrom(s + 1, 0) \in Seq([place : Nat, field : 1 .. Fields])
            /\ Len(ChildrenFrom(s + 1, 0)) = (size - 0) * Fields
            BY <1>6, <2>2, <2>3, <3>1, ChildrenFacts
      <4>2. (size - 0) * Fields = size * Fields /\ size * Fields <= size * Fields
            BY SavedVectorAssumption
      <4>. QED  BY <4>1, <4>2 DEF ChildrenTrue
    <3>3. Lazy!GivenUp = LostBefore(s + 1)
      <4>1. lost + 0 = lost  OBVIOUS
      <4>. QED  BY <1>1, <1>10, <2>1, <4>1
    <3>4. l_yielded + Lazy!GivenUp + size = EndOf(s + 1)
          BY <1>1, <1>2, <1>10, <2>1, <2>3
    <3>. QED  BY <2>1, <2>3, <3>1, <3>2, <3>3, <3>4 DEF ReadsFrom
  <2>6. 0 \in Nat  OBVIOUS
  <2>. QED  BY <2>1, <2>2, <2>3, <2>4, <2>5, <2>6, LazyReadsItem
<1>12. CASE Lazy!NextFails
  <2>1. /\ Lazy!NeedsShard /\ s < n /\ s + 1 \in unreadable.shards
        /\ l_shards' = s + 1 /\ l_answer' = Lazy!Error /\ l_yielded' = y
        /\ l_pos' = l_pos /\ l_children' = l_children /\ l_left' = left /\ l_len' = l_len
        BY <1>2, <1>3, <1>4, <1>8, <1>12
        DEF Lazy!NextFails, Lazy!Taken, Lazy!YieldedOnError, Lazy!file
  <2>2. PICK size \in Nat \ {0} : size = chunks[s + 1]  BY <1>10, <2>1
  <2>3. Lazy!GivenUp' = lost + size
    <3>1. Lazy!Jobs' = Lazy!Jobs /\ unreadable' = unreadable  BY FileStays
    <3>2. Lazy!GivenUp' = LostBefore(s + 1)  BY <2>1, <3>1 DEF Lazy!GivenUp, LostBefore
    <3>. QED  BY <1>10, <2>1, <2>2, <3>2
  <2>4. Lazy!Passed = y + lost /\ Lazy!Passed' = y + (lost + size)
        BY <1>1, <1>2, <2>1, <2>3 DEF Lazy!Passed
  <2>5. LazyTrue'
    <3>1. /\ chunks' = chunks /\ total_len' = total_len /\ unreadable' = unreadable
          BY FileStays
    <3>2. EndOf(l_shards)' = EndOf(s + 1)  BY <2>1, FileStays DEF EndOf
    <3>3. l_yielded' + Lazy!GivenUp' + l_left' = EndOf(l_shards)'
          BY <1>10, <2>1, <2>2, <2>3, <3>2
    <3>4. /\ l_shards' \in 0 .. n /\ l_shards' # 0 /\ l_shards' \in unreadable'.shards
          /\ l_left' = 0
          BY <1>10, <2>1, <3>1
    <3>5. l_answer'.how = "error" /\ Lazy!OwnChunks'
      <4>1. l_answer'.how = "error"  BY <2>1 DEF Lazy!Error
      <4>. QED  BY <4>1 DEF Lazy!OwnChunks
    <3>6. /\ l_len' = IF unreadable'.container THEN 0 ELSE total_len'
          /\ unreadable'.items \subseteq 0 .. total_len' - 1
          BY <2>1, <3>1 DEF LazyTrue
    <3>7. l_pos' \in Nat /\ l_left' \in Nat /\ l_yielded' \in Nat /\ Lazy!GivenUp' \in Nat
          BY <1>5, <2>1, <2>3
    <3>. QED  BY <3>1, <3>3, <3>4, <3>5, <3>6, <3>7 DEF LazyTrue
  <2>6. Lazy!Stream!Fail
    <3>1. Lazy!Failed' = TRUE
      <4>1. lost + size > 0  OBVIOUS
      <4>. QED  BY <2>3, <4>1 DEF Lazy!Failed
    <3>2. y + lost < total /\ y + (lost + size) \in y + lost .. total
      <4>1. y + lost + size <= total  BY <1>10, <2>1, <2>2
      <4>. QED  BY <4>1
    <3>3. l_answer' = Lazy!Stream!Error  BY <2>1 DEF Lazy!Error, Lazy!Stream!Error
    <3>4. total_len' = total_len  BY FileStays
    <3>. QED  BY <2>4, <3>1, <3>2, <3>3, <3>4 DEF Lazy!Stream!Fail
  <2>. QED  BY <2>5, <2>6 DEF Lazy!Stream!Next
<1>13. CASE Lazy!NextEnds
  <2>1. /\ left = 0 /\ s = n /\ l_answer' = Lazy!End
        /\ UNCHANGED <<l_len, l_shards, l_pos, l_children, l_left, l_yielded>>
        BY <1>3, <1>4, <1>8, <1>13 DEF Lazy!NextEnds, Lazy!NeedsShard, Lazy!file
  <2>2. y + lost = total
    <3>1. EndOf(s) = total  BY <1>6, <2>1, EndsMeet
    <3>. QED  BY <1>7, <2>1, <3>1
  <2>3. /\ chunks' = chunks /\ total_len' = total_len /\ unreadable' = unreadable
        /\ Lazy!Jobs' = Lazy!Jobs
        BY FileStays
  <2>4. Lazy!GivenUp' = Lazy!GivenUp  BY <2>1, <2>3 DEF Lazy!GivenUp
  <2>5. LazyTrue'
    <3>1. EndOf(l_shards)' = EndOf(l_shards)  BY <2>1, FileStays DEF EndOf
    <3>2. l_answer'.how = "end" /\ Lazy!OwnChunks'
      <4>1. l_answer'.how = "end"  BY <2>1 DEF Lazy!End
      <4>. QED  BY <4>1 DEF Lazy!OwnChunks
    <3>3. l_left' = 0 /\ l_shards' # 0 => l_left' = 0 /\ (l_shards' \in unreadable'.shards \/ InShard')
      <4>1. InShard' <=> InShard
        <5>1. BadBefore(l_shards, StartOf(l_shards) + l_pos)'
                <=> BadBefore(l_shards, StartOf(l_shards) + l_pos)
          <6>1. StartOf(l_shards)' = StartOf(l_shards)  BY <2>1, FileStays DEF StartOf
          <6>. QED  BY <2>1, <2>3, <6>1 DEF BadBefore
        <5>2. ChildrenFrom(l_shards, l_pos)' = ChildrenFrom(l_shards, l_pos)
              BY <2>1, <2>3 DEF ChildrenFrom, Lazy!ChildrenOf
        <5>. QED  BY <2>1, <2>3, <5>1, <5>2 DEF InShard, ChildrenTrue
      <4>2. l_shards # 0 => l_shards \in unreadable.shards \/ InShard  BY DEF LazyTrue
      <4>. QED  BY <2>1, <2>3, <4>1, <4>2
    <3>4. l_left' = 0 /\ l_left' \in Nat  BY <1>4, <2>1
    <3>. QED  BY <2>1, <2>3, <2>4, <3>1, <3>2, <3>3, <3>4 DEF LazyTrue
  <2>6. Lazy!Stream!Finish
    <3>1. Lazy!Passed' = Lazy!Passed /\ Lazy!Passed = y + lost
          BY <1>1, <1>2, <2>1, <2>4 DEF Lazy!Passed
    <3>2. Lazy!Failed' = Lazy!Failed  BY <2>3, <2>4, <3>1 DEF Lazy!Failed
    <3>3. l_answer' = Lazy!Stream!End  BY <2>1 DEF Lazy!End, Lazy!Stream!End
    <3>. QED  BY <2>2, <2>3, <3>1, <3>2, <3>3 DEF Lazy!Stream!Finish
  <2>. QED  BY <2>5, <2>6 DEF Lazy!Stream!Next
<1>. QED  BY <1>9, <1>11, <1>12, <1>13 DEF Lazy!Next

\* An iterator that nobody has called has passed nothing and failed nowhere.
LEMMA NothingPassed ==
  ASSUME l_shards = 0, l_yielded = 0, unreadable.items \subseteq Nat
  PROVE  Lazy!GivenUp = 0 /\ Lazy!Passed = 0 /\ Lazy!Failed = FALSE
<1>1. Lazy!GivenUp = 0  BY NothingLost DEF Lazy!GivenUp, LostBefore
<1>2. Lazy!Passed = 0  BY <1>1 DEF Lazy!Passed
<1>3. \A i \in Nat : ~ (i < 0)  OBVIOUS
<1>. QED  BY <1>1, <1>2, <1>3 DEF Lazy!Failed

\* The lazy iterator makes a step of the stream, or none that the stream sees.
LEMMA LazyStep ==
  ASSUME VisitTrue, LoadTrue, LazyTrue, [Next]_vars
  PROVE  LazyTrue' /\ [Lazy!Stream!Next]_(Lazy!Stream!vars)
<1>0. (Lazy!NotCalled)' = Lazy!NotCalled  BY DEF Lazy!NotCalled
<1>1. ASSUME client # "lazy"
      PROVE  /\ l_shards = 0 /\ l_yielded = 0 /\ l_answer = Lazy!NotCalled
             /\ unreadable = [container |-> FALSE, shards |-> {}, items |-> {}]
             /\ Lazy!Passed = 0 /\ Lazy!Failed = FALSE
  <2>1. /\ l_shards = 0 /\ l_yielded = 0 /\ l_answer = Lazy!NotCalled
        /\ unreadable = [container |-> FALSE, shards |-> {}, items |-> {}]
        BY <1>1 DEF LazyTrue
  <2>2. unreadable.items \subseteq Nat  BY <2>1
  <2>. QED  BY <2>1, <2>2, NothingPassed
<1>2. ASSUME client' # "lazy", client # "lazy", UNCHANGED <<unreadable, lazyVars, total_len>>
      PROVE  LazyTrue' /\ UNCHANGED Lazy!Stream!vars
  <2>1. LazyTrue'  BY <1>0, <1>2 DEF LazyTrue, lazyVars
  <2>2. /\ l_shards' = 0 /\ l_yielded' = 0
        /\ unreadable' = [container |-> FALSE, shards |-> {}, items |-> {}]
        /\ l_answer' = l_answer /\ total_len' = total_len
        BY <1>1, <1>2 DEF lazyVars
  <2>3. unreadable'.items \subseteq Nat  BY <2>2
  <2>4. (l_shards = 0 /\ l_yielded = 0 /\ unreadable.items \subseteq Nat
          => Lazy!Passed = 0 /\ Lazy!Failed = FALSE)'
        BY NothingPassed, PTL
  <2>5. Lazy!Passed' = 0 /\ Lazy!Failed' = FALSE  BY <2>2, <2>3, <2>4
  <2>. QED  BY <1>1, <1>2, <2>1, <2>2, <2>5 DEF Lazy!Stream!vars
<1>3. CASE UNCHANGED <<client, unreadable, eagerVars, lazyVars, total_len>> /\ client # "lazy"
      BY <1>2, <1>3
<1>4. CASE UNCHANGED <<client, unreadable, eagerVars, lazyVars, visitVars>>
  <2>1. CASE client # "lazy"  BY <1>2, <1>4, <2>1 DEF visitVars
  <2>2. CASE client = "lazy"
    <3>1. /\ chunks' = chunks /\ total_len' = total_len /\ unreadable' = unreadable
          /\ Lazy!Jobs' = Lazy!Jobs
          BY <1>4, FileStays
    <3>2. UNCHANGED <<l_len, l_shards, l_pos, l_children, l_left, l_yielded, l_answer>>
          BY <1>4 DEF lazyVars
    <3>3. Lazy!GivenUp' = Lazy!GivenUp  BY <3>1, <3>2 DEF Lazy!GivenUp
    <3>4. Lazy!Passed' = Lazy!Passed  BY <3>2, <3>3 DEF Lazy!Passed
    <3>5. Lazy!Failed' = Lazy!Failed  BY <3>1, <3>3, <3>4 DEF Lazy!Failed
    <3>6. EndOf(l_shards)' = EndOf(l_shards) /\ StartOf(l_shards)' = StartOf(l_shards)
          BY <1>4, <3>2, FileStays DEF EndOf, StartOf
    <3>7. InShard' <=> InShard
      <4>1. BadBefore(l_shards, StartOf(l_shards) + l_pos)'
              <=> BadBefore(l_shards, StartOf(l_shards) + l_pos)
            BY <3>1, <3>2, <3>6 DEF BadBefore
      <4>2. ChildrenFrom(l_shards, l_pos)' = ChildrenFrom(l_shards, l_pos)
            BY <3>1, <3>2 DEF ChildrenFrom, Lazy!ChildrenOf
      <4>. QED  BY <3>1, <3>2, <4>1, <4>2 DEF InShard, ChildrenTrue
    <3>8. Lazy!OwnChunks' <=> Lazy!OwnChunks  BY <3>1, <3>2 DEF Lazy!OwnChunks
    <3>9. LazyTrue'
          BY <1>4, <2>2, <3>1, <3>2, <3>3, <3>6, <3>7, <3>8 DEF LazyTrue
    <3>. QED  BY <3>1, <3>2, <3>4, <3>5, <3>9 DEF Lazy!Stream!vars
  <2>. QED  BY <2>1, <2>2
<1>5. CASE Open
  <2>1. /\ client # "lazy" /\ client' = "lazy" /\ chunks' = chunks /\ total_len' = total_len
        /\ UNCHANGED <<l_shards, l_pos, l_children, l_left, l_yielded, l_answer>>
        BY <1>5 DEF Open, visitVars
  <2>2. /\ l_shards' = 0 /\ l_pos' = 0 /\ l_left' = 0 /\ l_yielded' = 0
        /\ l_answer' = Lazy!NotCalled
        BY <2>1 DEF LazyTrue
  <2>3. unreadable'.items \subseteq 0 .. total_len' - 1
    <3>1. unreadable = [container |-> FALSE, shards |-> {}, items |-> {}]  BY <1>1, <2>1
    <3>2. CASE unreadable' = [unreadable EXCEPT !.container = TRUE]  BY <3>1, <3>2
    <3>3. CASE \E S, I : /\ I \subseteq 0 .. total_len - 1
                         /\ unreadable' = [unreadable EXCEPT !.shards = S, !.items = I]
          BY <2>1, <3>1, <3>3
    <3>. QED  BY <1>5, <3>2, <3>3 DEF Open, kSubset
  <2>4. l_len' = IF unreadable'.container THEN 0 ELSE total_len'
        BY <1>5 DEF Open, Lazy!PromiseLen
  <2>5. total_len' \in Nat /\ Len(chunks) \in Nat  BY <2>1 DEF VisitTrue, VisitTypeOK
  <2>6. unreadable'.items \subseteq Nat  BY <2>3, <2>5
  <2>7. (l_shards = 0 /\ l_yielded = 0 /\ unreadable.items \subseteq Nat
          => Lazy!GivenUp = 0 /\ Lazy!Passed = 0 /\ Lazy!Failed = FALSE)'
        BY NothingPassed, PTL
  <2>8. Lazy!GivenUp' = 0 /\ Lazy!Passed' = 0 /\ Lazy!Failed' = FALSE  BY <2>2, <2>6, <2>7
  <2>9. LazyTrue'
    <3>1. EndOf(l_shards)' = 0  BY <2>2 DEF EndOf
    <3>2. l_answer'.how = "not called" /\ Lazy!OwnChunks'
      <4>1. l_answer'.how = "not called"  BY <2>2 DEF Lazy!NotCalled
      <4>. QED  BY <4>1 DEF Lazy!OwnChunks
    <3>3. 0 \in 0 .. Len(chunks) /\ 0 + 0 + 0 = 0 /\ 0 \in Nat  BY <2>5
    <3>4. /\ l_shards' \in 0 .. Len(chunks)' /\ l_pos' \in Nat /\ l_left' \in Nat
          /\ l_yielded' \in Nat /\ Lazy!GivenUp' \in Nat
          /\ l_yielded' + Lazy!GivenUp' + l_left' = EndOf(l_shards)'
          BY <2>1, <2>2, <2>8, <3>1, <3>3
    <3>5. l_answer'.how \in {"item", "mixed", "error", "end", "not called"}  BY <3>2
    <3>. QED  BY <2>1, <2>2, <2>3, <2>4, <3>2, <3>4, <3>5 DEF LazyTrue
  <2>. QED  BY <1>1, <2>1, <2>8, <2>9 DEF Lazy!Stream!vars
<1>6. CASE Load /\ client = "none" /\ client' = "load"
  <2>1. UNCHANGED <<unreadable, lazyVars, total_len>>  BY <1>6 DEF Load, visitVars
  <2>. QED  BY <1>2, <1>6, <2>1
<1>7. CASE Iterate
  <2>1. client = "lazy" /\ UNCHANGED <<visitVars, client, unreadable>> /\ Lazy!Next
        BY <1>7 DEF Iterate
  <2>. QED  BY <2>1, LazyNext
<1>. QED  BY <1>3, <1>4, <1>5, <1>6, <1>7, ReaderSteps

\* Both iterators, all along.
LEMMA AlwaysReadable ==
  Spec => [](VisitTrue /\ LoadTrue /\ EagerTrue /\ LazyTrue) /\ LazyKeepsPromise
<1>1. Init => VisitTrue /\ LoadTrue /\ EagerTrue /\ LazyTrue /\ Lazy!Stream!Init
  <2> SUFFICES ASSUME Init
               PROVE  VisitTrue /\ LoadTrue /\ EagerTrue /\ LazyTrue /\ Lazy!Stream!Init
      OBVIOUS
  <2>1. VisitTrue /\ LoadTrue  BY VisitStarts, LoadStarts DEF Init
  <2>2. EagerTrue  BY DEF Init, Eager!IterInit, EagerTrue
  <2>3. LazyTrue  BY DEF Init, Lazy!IterInit, LazyTrue
  <2>4. Lazy!Stream!Init
    <3>1. /\ l_shards = 0 /\ l_yielded = 0 /\ unreadable.items = {}
          /\ l_answer = Lazy!NotCalled
          BY DEF Init, Lazy!IterInit
    <3>2. unreadable.items \subseteq Nat  BY <3>1
    <3>3. Lazy!Passed = 0 /\ Lazy!Failed = FALSE  BY <3>1, <3>2, NothingPassed
    <3>. QED  BY <2>1, <3>1, <3>3
              DEF VisitTrue, VisitTypeOK, Lazy!Stream!Init, Lazy!NotCalled, Lazy!Stream!NotCalled
  <2>. QED  BY <2>1, <2>2, <2>3, <2>4
<1>2. VisitTrue /\ LoadTrue /\ EagerTrue /\ LazyTrue /\ [Next]_vars
        => EagerTrue' /\ LazyTrue' /\ [Lazy!Stream!Next]_(Lazy!Stream!vars)
      BY EagerStep, LazyStep
<1>. QED  BY <1>1, <1>2, AlwaysTrue, PTL
          DEF Spec, LazyKeepsPromise, Lazy!KeepsPromise, Lazy!Stream!Spec

\* LazyKeepsPromise: the lazy iterator implements an ItemStream that resumes, for
\* every vector, number of fields and set of unreadable chunks: the items of the
\* readable shards once each and in order, whatever failed before them.
THEOREM LazyRefines == Spec => LazyKeepsPromise
BY AlwaysReadable, PTL

\* MirrorsOwnChunks: a mirror has another item's chunks only after an item of its
\* shard could not be read.
THEOREM MirrorsStayWhole == Spec => []MirrorsOwnChunks
<1>1. LazyTrue => MirrorsOwnChunks
  <2> SUFFICES ASSUME LazyTrue PROVE MirrorsOwnChunks  OBVIOUS
  <2>1. CASE client # "lazy"
    <3>1. l_answer = Lazy!NotCalled  BY <2>1 DEF LazyTrue
    <3>2. l_answer.how = "not called"  BY <3>1 DEF Lazy!NotCalled
    <3>. QED  BY <3>2 DEF MirrorsOwnChunks, Lazy!OwnChunks
  <2>2. CASE client = "lazy"  BY <2>2 DEF LazyTrue, MirrorsOwnChunks
  <2>. QED  BY <2>1, <2>2
<1>. QED  BY <1>1, AlwaysReadable, PTL

\* RemainingLenCovers: len and size_hint never underflow and never promise less
\* than will come.
THEOREM LenAlwaysCovers == Spec => []RemainingLenCovers
<1>1. VisitTrue /\ LoadTrue /\ LazyTrue => RemainingLenCovers
  <2> SUFFICES ASSUME VisitTrue, LoadTrue, LazyTrue, client = "lazy", l_len = total_len
               PROVE  l_len - l_yielded
                        = Lazy!GivenUp + l_left
                          + (IF l_shards = Len(Lazy!Jobs) THEN 0
                             ELSE total_len - Lazy!Jobs[l_shards + 1].start)
      BY DEF RemainingLenCovers, Lazy!LenCoversRest
  <2> PICK n \in Nat : n = Len(chunks)  BY LazyFacts
  <2> PICK total \in Nat : total = total_len  BY LazyFacts
  <2>1. PICK lost \in Nat : lost = Lazy!GivenUp  BY LazyFacts
  <2>2. PICK y \in Nat : y = l_yielded  BY LazyFacts
  <2>3. PICK s \in 0 .. n : s = l_shards  BY LazyFacts
  <2>4. PICK left \in Nat : left = l_left  BY LazyFacts
  <2>5. phase = "done" /\ y + lost + left = EndOf(s)  BY <2>1, <2>2, <2>3, <2>4, LazyFacts
  <2>6. Len(Lazy!Jobs) = n  BY <2>5, LazyReads
  <2>7. CASE s = n
    <3>1. EndOf(s) = total  BY <2>5, <2>7, EndsMeet
    <3>2. total - y = lost + left + 0  BY <2>5, <3>1
    <3>. QED  BY <2>1, <2>2, <2>3, <2>4, <2>6, <2>7, <3>2
  <2>8. CASE s # n
    <3>1. EndOf(s) = StartOf(s + 1) /\ s + 1 \in 1 .. n  BY <2>5, <2>8, EndsMeet
    <3>2. Lazy!Jobs[s + 1].start = EndOf(s)  BY <2>5, <3>1, LazyReads
    <3>3. total - y = lost + left + (total - EndOf(s))  BY <2>5
    <3>. QED  BY <2>1, <2>2, <2>3, <2>4, <2>6, <2>8, <3>2, <3>3
  <2>. QED  BY <2>7, <2>8
<1>. QED  BY <1>1, AlwaysReadable, PTL

\* However far the visit has come there is a number of shards in the table.
LEMMA ShardsCounted ==
  ASSUME VisitTrue
  PROVE  Eager!child_count \in Nat /\ Len(Lazy!Jobs) \in Nat
<1>1. shard_runs \in Seq(ShardRun)
  <2>1. NonEmptyRun \subseteq ShardRun  BY DEF NonEmptyRun, ShardRun
  <2>2. shard_runs \in Seq(NonEmptyRun)  BY DEF VisitTrue, VisitTypeOK, NonEmptyRun
  <2>. QED  BY <2>1, <2>2, SeqMonotonic
<1>2. PICK n \in Nat : n = ShardsIn(shard_runs)
  <2>1. Len(shard_runs) \in 0 .. Len(shard_runs)  BY <1>1, LenProperties
  <2>. QED  BY <1>1, <2>1, ShardsBeforeSteps DEF ShardsIn
<1>3. Eager!child_count = n  BY <1>2, SameTable DEF Eager!child_count
<1>4. Len(Lazy!Jobs) = n
  <2>1. Lazy!Jobs = ShardJobs(shard_runs)  BY SameTable DEF Lazy!Jobs
  <2>2. PICK f : f = ShardJobs(shard_runs)  OBVIOUS
  <2>3. f \in [1 .. n -> {f[k] : k \in 1 .. n}]  BY <1>2, <2>2 DEF ShardJobs
  <2>4. Len(f) = n  BY <2>3, FunctionIsSeq
  <2>. QED  BY <2>1, <2>2, <2>4
<1>. QED  BY <1>2, <1>3, <1>4

\* TypeOK, with what it says of the places the iterators have come to: the items
\* the streaming one keeps are those that come next, and end where a shard does.
THEOREM TypeCorrect == Spec => []TypeOK
<1>1. VisitTrue /\ LoadTrue /\ EagerTrue /\ LazyTrue => TypeOK
  <2> SUFFICES ASSUME VisitTrue, LoadTrue, EagerTrue, LazyTrue PROVE TypeOK
      OBVIOUS
  <2>1. /\ VisitTypeOK /\ Whole!LoadTypeOK /\ client \in {"none", "lazy", "load"}
        /\ client = "lazy" => phase = "done"
        BY DEF VisitTrue, LoadTrue
  <2>2. Eager!child_count \in Nat /\ Len(Lazy!Jobs) \in Nat  BY ShardsCounted
  <2> PICK total \in Nat : total = total_len  BY <2>1 DEF VisitTypeOK
  <2>3. CASE client # "lazy"
    <3>1. Eager!IterTypeOK
      <4>1. /\ e_global_idx = 0 /\ e_shard_idx = 0 /\ e_items = <<>>
            BY <2>3 DEF EagerTrue
      <4>2. DOMAIN <<>> = {} /\ Len(<<>>) = 0  OBVIOUS
      <4>. QED  BY <2>2, <4>1, <4>2 DEF Eager!IterTypeOK
    <3>2. Lazy!IterTypeOK
      <4>1. /\ l_shards = 0 /\ l_pos = 0 /\ l_left = 0 /\ l_yielded = 0
            /\ l_answer = Lazy!NotCalled
            BY <2>3 DEF LazyTrue
      <4>2. l_answer.how = "not called"  BY <4>1 DEF Lazy!NotCalled
      <4> PICK m \in Nat : m = Len(Lazy!Jobs)  BY <2>2
      <4>3. 0 \in 0 .. m /\ 0 \in 0 .. total  OBVIOUS
      <4>4. l_shards \in 0 .. Len(Lazy!Jobs)  BY <4>1, <4>3
      <4>5. l_yielded \in 0 .. total_len  BY <4>1, <4>3
      <4>6. IF l_shards = 0 THEN l_pos = 0 /\ l_left = 0
            ELSE l_shards \notin unreadable.shards =>
                   l_pos + l_left = Lazy!Jobs[l_shards].expected
            BY <4>1
      <4>. QED  BY <4>2, <4>4, <4>5, <4>6 DEF Lazy!IterTypeOK
    <3>. QED  BY <2>1, <3>1, <3>2 DEF TypeOK
  <2>4. CASE client = "lazy"
    <3> PICK n \in Nat : n = Len(chunks)  BY <2>4, LazyFacts
    <3>1. Eager!IterTypeOK
      <4>1. /\ e_shard_idx \in 0 .. n /\ e_global_idx \in 0 .. total
            /\ e_items \in Seq(Nat)
            /\ \A j \in 1 .. Len(e_items) : e_items[j] = e_global_idx + j - 1
            /\ e_global_idx + Len(e_items) = EndOf(e_shard_idx)
            BY <2>4 DEF EagerTrue
      <4>2. DOMAIN e_items = 1 .. Len(e_items)  BY <4>1, LenProperties
      <4>3. Eager!child_count = n  BY <2>1, <2>4, EagerReads
      <4>4. e_shard_idx # 0 =>
              Eager!ShardJobs(shard_runs)[e_shard_idx].start
                + Eager!ShardJobs(shard_runs)[e_shard_idx].expected = EndOf(e_shard_idx)
        <5> SUFFICES ASSUME e_shard_idx # 0
                     PROVE  Eager!ShardJobs(shard_runs)[e_shard_idx].start
                              + Eager!ShardJobs(shard_runs)[e_shard_idx].expected
                              = EndOf(e_shard_idx)
            OBVIOUS
        <5>1. e_shard_idx \in 1 .. Len(chunks)  BY <4>1
        <5>2. /\ ShardJobs(shard_runs)[e_shard_idx].start = StartOf(e_shard_idx)
              /\ ShardJobs(shard_runs)[e_shard_idx].expected = chunks[e_shard_idx]
              BY <2>1, <2>4, <5>1, TableIsTrue DEF TableTrue, StartOf
        <5>3. Eager!ShardJobs(shard_runs) = ShardJobs(shard_runs)  BY SameTable
        <5>. QED  BY <5>2, <5>3 DEF EndOf
      <4>5. e_shard_idx = 0 => EndOf(e_shard_idx) = 0  BY DEF EndOf
      <4>. QED  BY <4>1, <4>2, <4>3, <4>4, <4>5 DEF Eager!IterTypeOK
    <3>2. Lazy!IterTypeOK
      <4>1. PICK lost \in Nat : lost = Lazy!GivenUp  BY <2>4, LazyFacts
      <4>2. PICK y \in Nat : y = l_yielded  BY <2>4, LazyFacts
      <4>3. PICK s \in 0 .. n : s = l_shards  BY <2>4, LazyFacts
      <4>4. PICK left \in Nat : left = l_left  BY <2>4, LazyFacts
      <4>5. y + lost + left = EndOf(s) /\ phase = "done"
            BY <2>4, <4>1, <4>2, <4>3, <4>4, LazyFacts
      <4>6. EndOf(s) \in Nat /\ EndOf(s) <= total  BY <4>5, EndsMeet
      <4>7. l_yielded \in 0 .. total  BY <4>2, <4>5, <4>6
      <4>8. /\ Len(Lazy!Jobs) = n
            /\ \A k \in 1 .. n : Lazy!Jobs[k].expected = chunks[k]
            BY <4>5, LazyReads
      <4>9. IF l_shards = 0 THEN l_pos = 0 /\ l_left = 0
            ELSE l_shards \notin unreadable.shards => l_pos + l_left = Lazy!Jobs[l_shards].expected
        <5>1. CASE s = 0  BY <2>4, <4>3, <5>1 DEF LazyTrue
        <5>2. CASE s # 0
          <6>1. Lazy!Jobs[s].expected = chunks[s]  BY <4>8, <5>2
          <6>2. l_shards \notin unreadable.shards => InShard  BY <2>4, <4>3, <5>2 DEF LazyTrue
          <6>. QED  BY <4>3, <5>2, <6>1, <6>2 DEF InShard
        <5>. QED  BY <5>1, <5>2
      <4>10. l_answer.how \in {"item", "mixed", "error", "end", "not called"}
             BY <2>4 DEF LazyTrue
      <4>. QED  BY <4>3, <4>7, <4>8, <4>9, <4>10 DEF Lazy!IterTypeOK
    <3>. QED  BY <2>1, <3>1, <3>2 DEF TypeOK
  <2>. QED  BY <2>3, <2>4
<1>. QED  BY <1>1, AlwaysReadable, PTL

\* The promise finds an item where slicing has put it, and no item beyond the end.
LEMMA PromiseLocates ==
  ASSUME VisitTrue, phase = "done"
  PROVE  /\ Lazy!IndexOutOfBounds(shard_runs, total_len)
         /\ \A i \in 0 .. total_len - 1 :
              /\ Lazy!ShardAt(i) \in 1 .. Len(chunks) /\ Lazy!PlaceInShard(i) \in Nat
              /\ Lazy!PlaceInShard(i) < chunks[Lazy!ShardAt(i)]
              /\ StartOf(Lazy!ShardAt(i)) + Lazy!PlaceInShard(i) = i
              /\ Lazy!Located(i) <=> /\ ~unreadable.container
                                     /\ Lazy!ShardAt(i) \notin unreadable.shards
<1> PICK total \in Nat : total = total_len  BY DEF VisitTrue, VisitTypeOK
<1>1. Lazy!ItemsIn(shard_runs) = total  BY LazyReads
<1>2. Lazy!IndexOutOfBounds(shard_runs, total)  BY <1>1 DEF Lazy!IndexOutOfBounds
<1>3. ASSUME NEW i \in 0 .. total - 1
      PROVE  /\ Lazy!ShardAt(i) \in 1 .. Len(chunks) /\ Lazy!PlaceInShard(i) \in Nat
             /\ Lazy!PlaceInShard(i) < chunks[Lazy!ShardAt(i)]
             /\ StartOf(Lazy!ShardAt(i)) + Lazy!PlaceInShard(i) = i
             /\ Lazy!Located(i) <=> /\ ~unreadable.container
                                    /\ Lazy!ShardAt(i) \notin unreadable.shards
  <2> PICK s : s = i \div ItemsPerShard  OBVIOUS
  <2> PICK j : j = (i % ItemsPerShard)  OBVIOUS
  <2>1. /\ s \in Nat /\ j \in Nat /\ s + 1 \in 1 .. Len(chunks)
        /\ j < chunks[s + 1] /\ i = s * ItemsPerShard + j
        BY <1>3, PlaceFacts
  <2>2. Lazy!ResolveRleIndex(shard_runs, i) = ResolveRleIndex(shard_runs, i)
        BY DEF Lazy!ResolveRleIndex, Lazy!ShardOf, Lazy!ItemsBefore, Lazy!ShardsBefore,
               ResolveRleIndex, ShardOf, ItemsBefore, ShardsBefore
  <2>3. Lazy!ResolveRleIndex(shard_runs, i) = <<s, j>>  BY <1>3, <2>2, ResolveIsTrue
  <2>4. Lazy!ShardAt(i) = s + 1 /\ Lazy!PlaceInShard(i) = j
        BY <2>3 DEF Lazy!ShardAt, Lazy!PlaceInShard
  <2>5. (s + 1) - 1 = s  BY <2>1
  <2>6. StartOf(s + 1) + j = i  BY <2>1, <2>5 DEF StartOf
  <2>7. ~ Lazy!IndexOutOfBounds(shard_runs, i)
    <3>1. ~ (total <= i)  BY <1>3
    <3>. QED  BY <1>1, <3>1 DEF Lazy!IndexOutOfBounds
  <2>8. Lazy!Located(i) <=> /\ ~unreadable.container
                            /\ s + 1 \notin unreadable.shards
        BY <2>3, <2>7 DEF Lazy!Located
  <2>. QED  BY <2>1, <2>4, <2>6, <2>8
<1>. QED  BY <1>2, <1>3

\* get_lazy reads past the items before its own with all their children.
LEMMA MirrorsInPlace ==
  ASSUME VisitTrue, phase = "done", NEW s \in 1 .. Len(chunks), NEW j \in Nat,
         j < chunks[s]
  PROVE  Lazy!MirrorAt(s, j)
           = IF StartOf(s) + j \in unreadable.items THEN Lazy!Error
             ELSE Lazy!Item(StartOf(s) + j)
<1>1. Lazy!Jobs[s].start = StartOf(s)  BY LazyReads
<1>2. SubSeq(Lazy!ChildrenOf(s), Lazy!ChildrenPassed(j) + 1, Len(Lazy!ChildrenOf(s)))
        = ChildrenFrom(s, j)
      BY DEF ChildrenFrom, Lazy!ChildrenPassed
<1>3. Lazy!MirrorAt(s, j) = Lazy!Mirror(StartOf(s) + j, ChildrenFrom(s, j))
      BY <1>1, <1>2 DEF Lazy!MirrorAt
<1>. QED  BY <1>3, MirrorOfOwn

\* What an index gets: its own item, unless the container, its shard, or an item
\* of the shard that has to be read for it, is unreadable.
LEMMA IndexGets ==
  ASSUME VisitTrue, phase = "done", unreadable.items \subseteq Nat,
         NEW i \in 0 .. total_len - 1
  PROVE  /\ Lazy!PromiseGet(i) \in {Lazy!Item(i), Lazy!Error}
         /\ Lazy!PromiseGetLazy(i) \in {Lazy!Item(i), Lazy!Error}
         /\ Lazy!PromiseGet(i) = Lazy!Item(i) => Lazy!PromiseGetLazy(i) = Lazy!Item(i)
         /\ Lazy!PromiseGetLazy(i) = Lazy!Error =>
              \/ unreadable.container \/ unreadable.shards # {}
              \/ \E b \in unreadable.items : b <= i
<1>0. Lazy!Item(i) # Lazy!Error
  <2>1. Lazy!Item(i).how = "item" /\ Lazy!Error.how = "error"  BY DEF Lazy!Item, Lazy!Error
  <2>. QED  BY <2>1
<1> PICK s : s = Lazy!ShardAt(i)  OBVIOUS
<1> PICK j : j = Lazy!PlaceInShard(i)  OBVIOUS
<1>1. /\ s \in 1 .. Len(chunks) /\ j \in Nat /\ j < chunks[s] /\ StartOf(s) + j = i
      /\ Lazy!Located(i) <=> ~unreadable.container /\ s \notin unreadable.shards
      BY PromiseLocates
<1>2. CASE ~Lazy!Located(i)
  <2>1. Lazy!PromiseGet(i) = Lazy!Error /\ Lazy!PromiseGetLazy(i) = Lazy!Error
        BY <1>2 DEF Lazy!PromiseGet, Lazy!PromiseGetLazy
  <2>. QED  BY <1>0, <1>1, <1>2, <2>1
<1>3. CASE Lazy!Located(i)
  <2> PICK size \in Nat : size = chunks[s]  BY <1>1, ShardsApart
  <2> PICK start \in Nat : start = StartOf(s)  BY <1>1, ShardsApart
  <2>1. Lazy!Jobs[s].start = start /\ Lazy!Jobs[s].expected = size  BY <1>1, LazyReads
  <2>2. Lazy!PromiseGet(i)
          = IF \E k \in 0 .. size - 1 : start + k \in unreadable.items THEN Lazy!Error
            ELSE Lazy!Item(i)
        BY <1>1, <1>3, <2>1 DEF Lazy!PromiseGet
  <2>3. Lazy!PromiseGetLazy(i)
          = IF \E k \in 0 .. j - 1 : Lazy!MirrorAt(s, k) = Lazy!Error THEN Lazy!Error
            ELSE Lazy!MirrorAt(s, j)
        BY <1>3 DEF Lazy!PromiseGetLazy
  <2>4. ASSUME NEW k \in Nat, k <= j
        PROVE  /\ k \in 0 .. size - 1 /\ start + k \in Nat /\ start + k <= i
               /\ Lazy!MirrorAt(s, k) = IF start + k \in unreadable.items THEN Lazy!Error
                                        ELSE Lazy!Item(start + k)
    <3>1. k < chunks[s]  BY <1>1, <2>4
    <3>2. Lazy!MirrorAt(s, k) = IF start + k \in unreadable.items THEN Lazy!Error
                                ELSE Lazy!Item(start + k)
          BY <1>1, <3>1, MirrorsInPlace
    <3>3. k \in 0 .. size - 1 /\ start + k \in Nat /\ start + k <= i
      <4>1. k < size  BY <3>1
      <4>2. start + j = i  BY <1>1
      <4>. QED  BY <1>1, <2>4, <4>1, <4>2
    <3>. QED  BY <3>2, <3>3
  <2>5. \A x : Lazy!Item(x) # Lazy!Error
    <3>1. \A x : Lazy!Item(x).how = "item" /\ Lazy!Error.how = "error"
          BY DEF Lazy!Item, Lazy!Error
    <3>. QED  BY <3>1
  <2>6. CASE \E k \in 0 .. j : start + k \in unreadable.items
    <3> PICK k \in 0 .. j : start + k \in unreadable.items  BY <2>6
    <3>1. k \in Nat /\ k <= j  BY <1>1
    <3>2. k \in 0 .. size - 1 /\ start + k <= i /\ Lazy!MirrorAt(s, k) = Lazy!Error
          BY <2>4, <3>1
    <3>3. Lazy!PromiseGet(i) = Lazy!Error  BY <2>2, <3>2
    <3>4. Lazy!PromiseGetLazy(i) = Lazy!Error
      <4>1. CASE k = j  BY <2>3, <3>2, <4>1
      <4>2. CASE k # j
        <5>1. k \in 0 .. j - 1  BY <1>1, <3>1, <4>2
        <5>. QED  BY <2>3, <3>2, <5>1
      <4>. QED  BY <4>1, <4>2
    <3>. QED  BY <1>0, <3>2, <3>3, <3>4
  <2>7. CASE ~ \E k \in 0 .. j : start + k \in unreadable.items
    <3>1. \A k \in 0 .. j - 1 : Lazy!MirrorAt(s, k) # Lazy!Error
      <4>1. TAKE k \in 0 .. j - 1
      <4>2. k \in Nat /\ k <= j /\ k \in 0 .. j  BY <1>1
      <4>3. Lazy!MirrorAt(s, k) = Lazy!Item(start + k)  BY <2>4, <2>7, <4>2
      <4>. QED  BY <2>5, <4>3
    <3>2. Lazy!MirrorAt(s, j) = Lazy!Item(i)
      <4>1. j \in Nat /\ j <= j /\ j \in 0 .. j  BY <1>1
      <4>2. start + j = i  BY <1>1
      <4>. QED  BY <2>4, <2>7, <4>1, <4>2
    <3>3. Lazy!PromiseGetLazy(i) = Lazy!Item(i)  BY <2>3, <3>1, <3>2
    <3>. QED  BY <1>0, <2>2, <3>3
  <2>. QED  BY <2>6, <2>7
<1>. QED  BY <1>2, <1>3

\* PromiseAgrees: get, get_lazy, first and last give the item that was saved at
\* the index, with its own chunks, or an error that has a reason; and nothing
\* beyond the end.
THEOREM PromiseIsTrue == Spec => []PromiseAgrees
<1>1. VisitTrue /\ LoadTrue /\ LazyTrue => PromiseAgrees
  <2> SUFFICES ASSUME VisitTrue, LoadTrue, LazyTrue, client = "lazy"
               PROVE  Lazy!IndicesGetTheirItems /\ Lazy!EndsAreTrue
      BY DEF PromiseAgrees
  <2>1. phase = "done" /\ unreadable.items \subseteq Nat  BY LazyFacts
  <2> PICK total \in Nat : total = total_len  BY LazyFacts
  <2>2. Lazy!PromiseGet(total) = Lazy!Error /\ Lazy!PromiseGetLazy(total) = Lazy!Error
    <3>1. ~Lazy!Located(total)  BY <2>1, PromiseLocates DEF Lazy!Located
    <3>. QED  BY <3>1 DEF Lazy!PromiseGet, Lazy!PromiseGetLazy
  <2>3. Lazy!Error # Lazy!Item(total)
    <3>1. Lazy!Item(total).how = "item" /\ Lazy!Error.how = "error"
          BY DEF Lazy!Item, Lazy!Error
    <3>. QED  BY <3>1
  <2>4. Lazy!IndicesGetTheirItems
    <3> SUFFICES ASSUME NEW i \in 0 .. total
                 PROVE  /\ Lazy!PromiseGet(i) \in {Lazy!Item(i), Lazy!Error}
                        /\ Lazy!PromiseGetLazy(i) \in {Lazy!Item(i), Lazy!Error}
                        /\ i = total => Lazy!PromiseGetLazy(i) = Lazy!Error
                        /\ Lazy!PromiseGet(i) = Lazy!Item(i) =>
                             Lazy!PromiseGetLazy(i) = Lazy!PromiseGet(i)
                        /\ Lazy!PromiseGetLazy(i) = Lazy!Error =>
                             \/ i = total
                             \/ unreadable.container \/ unreadable.shards # {}
                             \/ \E b \in unreadable.items : b <= i
        BY DEF Lazy!IndicesGetTheirItems
    <3>1. CASE i = total  BY <2>2, <2>3, <3>1
    <3>2. CASE i # total
      <4>1. i \in 0 .. total - 1  BY <3>2
      <4>. QED  BY <2>1, <3>2, <4>1, IndexGets
    <3>. QED  BY <3>1, <3>2
  <2>5. Lazy!EndsAreTrue
    <3>1. Lazy!PromiseLen = 0 <=> (total = 0 \/ unreadable.container)
          BY DEF Lazy!PromiseLen
    <3>2. CASE Lazy!PromiseLen = 0
          BY <3>1, <3>2 DEF Lazy!EndsAreTrue, Lazy!First, Lazy!Last
    <3>3. CASE Lazy!PromiseLen # 0
      <4>1. Lazy!LastIndex = total - 1 /\ 0 \in 0 .. total - 1 /\ total - 1 \in 0 .. total - 1
        <5>1. Lazy!PromiseLen = total /\ total # 0  BY <3>1, <3>3 DEF Lazy!PromiseLen
        <5>. QED  BY <5>1 DEF Lazy!LastIndex
      <4>2. /\ Lazy!First = Lazy!PromiseGetLazy(0)
            /\ Lazy!Last = Lazy!PromiseGetLazy(total - 1)
            BY <3>3, <4>1 DEF Lazy!First, Lazy!Last
      <4>3. /\ Lazy!PromiseGetLazy(0) \in {Lazy!Item(0), Lazy!Error}
            /\ Lazy!PromiseGetLazy(total - 1) \in {Lazy!Item(total - 1), Lazy!Error}
            BY <2>1, <4>1, IndexGets
      <4>4. Lazy!None # Lazy!Error /\ \A x : Lazy!None # Lazy!Item(x)
        <5>1. /\ Lazy!None.how = "none" /\ Lazy!Error.how = "error"
              /\ \A x : Lazy!Item(x).how = "item"
              BY DEF Lazy!None, Lazy!Error, Lazy!Item
        <5>. QED  BY <5>1
      <4>. QED  BY <3>1, <3>3, <4>2, <4>3, <4>4 DEF Lazy!EndsAreTrue
    <3>. QED  BY <3>2, <3>3
  <2>. QED  BY <2>4, <2>5
<1>. QED  BY <1>1, AlwaysReadable, PTL
=============================================================================
