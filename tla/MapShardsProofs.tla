--------------------------- MODULE MapShardsProofs ---------------------------
(***************************************************************************)
(* Proofs about maps, for every hash function, map, order of its entries,   *)
(* number of shards and width of the machines: where the entries are in    *)
(* the file, and what the four reads make of it.                           *)
(***************************************************************************)
EXTENDS MapShards, SequenceTheorems, FiniteSetTheorems, TLAPS

\* The number of the bucket a key goes to.
Home(k) == ShardIdx(k, machine[1], NumShards) + 1

\* A bucket holds its own keys among those placed, each once.
BucketTrue(i, bucket, placed) ==
  /\ bucket \in Seq(Key)
  /\ ToSet(bucket) = {k \in placed : Home(k) = i}
  /\ IsInjective(bucket)

ShardFrom(bucket) == [entries |-> bucket, children |-> VisitedChildren(bucket)]

\* How far a map in shards has come; no shard is made before every key is placed.
Sharding ==
  /\ buckets \in Seq(Seq(Key)) /\ Len(buckets) = NumShards
  /\ \A i \in 1 .. NumShards : BucketTrue(i, buckets[i], DOMAIN self \ todo)
  /\ node = [payload_len |-> 4, first_word |-> NumShards, blob |-> <<>>, shards |-> node.shards]
  /\ node.shards \in Seq([entries : Seq(Key), children : Seq(Key)])
  /\ Len(node.shards) <= NumShards
  /\ \A s \in 1 .. Len(node.shards) : node.shards[s] = ShardFrom(buckets[s])
  /\ node.shards # <<>> => todo = {}
  /\ phase = "saved" => todo = {} /\ Len(node.shards) = NumShards

MapTrue ==
  /\ self \in Maps /\ case \in Cases /\ machine \in Machines
  /\ todo \subseteq DOMAIN self
  /\ phase \in {"visit", "distribute", "saved"}
  /\ phase = "visit" => todo = DOMAIN self /\ buckets = <<>> /\ node = NoNode
  /\ phase # "visit" /\ case[1] = "plain" =>
       /\ phase = "saved" /\ buckets = <<>>
       /\ node.blob = self /\ node.shards = <<>> /\ node.payload_len \in Nat
       /\ total_items = 0 => node.payload_len = 4
  /\ phase # "visit" /\ case[1] = "map" => Sharding
-----------------------------------------------------------------------------
\* Min and max, of two numbers.
LEMMA OfTwo ==
  ASSUME NEW a \in Int, NEW b \in Int
  PROVE  Min({a, b}) \in {a, b} /\ Max({a, b}) \in {a, b} /\ Max({a, b}) >= b
<1>1. Max({a, b}) = IF a >= b THEN a ELSE b  BY DEF Max
<1>2. Min({a, b}) = IF a <= b THEN a ELSE b  BY DEF Min
<1>. QED  BY <1>1, <1>2

\* There is a shard, whenever there are items.
LEMMA ShardsForItems ==
  ASSUME self \in Maps
  PROVE  /\ total_items \in Nat /\ NumShards \in Nat
         /\ total_items = 0 <=> DOMAIN self = {}
         /\ total_items > 0 <=> NumShards > 0
<1>1. IsFiniteSet(DOMAIN self)  BY MapAssumption
<1>2. total_items \in Nat /\ (total_items = 0 <=> DOMAIN self = {})
      BY <1>1, FS_CardinalityType, FS_EmptySet DEF total_items
<1> PICK total \in Nat : total = total_items  BY <1>2
<1>3. CASE total = 0  BY <1>2, <1>3 DEF NumShards
<1>4. CASE total > 0
  <2> DEFINE d == total \div ITEMS_PER_BUCKET
             m == Max({d, 1})
  <2>1. d \in Nat  BY MapAssumption
  <2> HIDE DEF d
  <2>2. m \in Nat /\ m >= 1  BY <2>1, OfTwo
  <2> HIDE DEF m
  <2>3. NumShards = Min({m, MAX_SHARDS})  BY <1>4 DEF NumShards, m, d
  <2>4. MAX_SHARDS \in Nat \ {0}  BY MapAssumption
  <2>5. m \in Int /\ MAX_SHARDS \in Int  BY <2>2, <2>4
  <2>6. Min({m, MAX_SHARDS}) \in {m, MAX_SHARDS}  BY <2>5, OfTwo
  <2>. QED  BY <1>2, <1>4, <2>2, <2>3, <2>4, <2>6
<1>. QED  BY <1>2, <1>3, <1>4

\* There is one empty map.
LEMMA EmptyMapIsNone ==
  ASSUME self \in Maps, total_items = 0
  PROVE  self = <<>>
<1>1. DOMAIN self = {} /\ self = [k \in DOMAIN self |-> self[k]]
      BY ShardsForItems, MapAssumption
<1>2. self = [k \in {} |-> self[k]]  BY <1>1
<1>3. [k \in {} |-> self[k]] = <<>>  OBVIOUS
<1>. QED  BY <1>2, <1>3

\* Every key has a shard, of as many as there are.
LEMMA ShardIdxInRange ==
  ASSUME NEW k \in Key, NEW usize_max \in Nat, NEW n \in Nat \ {0}
  PROVE  ShardIdx(k, usize_max, n) \in 0 .. n - 1
<1> PICK h \in Nat : h = Hash[k]  BY MapAssumption
<1>1. PICK v \in Nat : v = IF h <= usize_max THEN h ELSE 0  OBVIOUS
<1>2. (v % n) \in 0 .. n - 1  OBVIOUS
<1>3. ShardIdx(k, usize_max, n) = (v % n)  BY <1>1 DEF ShardIdx
<1>. QED  BY <1>2, <1>3

\* And every key of the map has its bucket.
LEMMA HasHome ==
  ASSUME self \in Maps, machine \in Machines, NEW k \in DOMAIN self
  PROVE  k \in Key /\ Home(k) \in 1 .. NumShards
<1> PICK n \in Nat : n = NumShards  BY ShardsForItems
<1>1. k \in Key  BY MapAssumption
<1>2. n \in Nat \ {0}
  <2>1. DOMAIN self # {}  OBVIOUS
  <2>. QED  BY <2>1, ShardsForItems
<1>3. machine[1] \in Nat  BY MapAssumption
<1>4. ShardIdx(k, machine[1], n) \in 0 .. n - 1  BY <1>1, <1>2, <1>3, ShardIdxInRange
<1>5. Home(k) = ShardIdx(k, machine[1], n) + 1  BY DEF Home
<1>. QED  BY <1>1, <1>4, <1>5

\* A bucket with one more key.
LEMMA AppendFresh ==
  ASSUME NEW S, NEW b \in Seq(S), NEW x \in S, x \notin ToSet(b), IsInjective(b)
  PROVE  /\ Append(b, x) \in Seq(S) /\ ToSet(Append(b, x)) = ToSet(b) \union {x}
         /\ IsInjective(Append(b, x))
<1> PICK n \in Nat : n = Len(b)  BY LenProperties
<1>1. DOMAIN b = 1 .. n  BY LenProperties
<1> PICK a : a = Append(b, x)  OBVIOUS
<1>2. /\ a \in Seq(S) /\ Len(a) = n + 1 /\ a[n + 1] = x
      /\ \A i \in 1 .. n : a[i] = b[i]
      BY AppendProperties
<1>3. DOMAIN a = 1 .. n + 1  BY <1>2, LenProperties
<1>4. ToSet(a) = ToSet(b) \union {x}
  <2>1. \A i \in 1 .. n + 1 : i \in 1 .. n \/ i = n + 1  OBVIOUS
  <2>2. \A i \in 1 .. n : i \in 1 .. n + 1  OBVIOUS
  <2>3. n + 1 \in 1 .. n + 1  OBVIOUS
  <2>. QED  BY <1>1, <1>2, <1>3, <2>1, <2>2, <2>3 DEF ToSet
<1>5. IsInjective(a)
  <2> SUFFICES ASSUME NEW i \in 1 .. n + 1, NEW j \in 1 .. n + 1, a[i] = a[j]
               PROVE  i = j
      BY <1>3 DEF IsInjective
  <2>1. \A m \in 1 .. n : b[m] # x  BY <1>1 DEF ToSet
  <2>2. CASE i \in 1 .. n /\ j \in 1 .. n  BY <1>1, <1>2, <2>2 DEF IsInjective
  <2>3. CASE i = n + 1 \/ j = n + 1
    <3>1. i = n + 1 => ~(j \in 1 .. n)  BY <1>2, <2>1
    <3>2. j = n + 1 => ~(i \in 1 .. n)  BY <1>2, <2>1
    <3>. QED  BY <2>3, <3>1, <3>2
  <2>. QED  BY <2>2, <2>3
<1>. QED  BY <1>2, <1>4, <1>5

\* A bucket that holds keys of a map once is no longer than the map.
LEMMA InjectiveShort ==
  ASSUME NEW S, NEW T, NEW b \in Seq(T), IsInjective(b), ToSet(b) \subseteq S, IsFiniteSet(S)
  PROVE  Len(b) <= Cardinality(S)
<1> PICK n \in Nat : n = Len(b)  BY LenProperties
<1>1. DOMAIN b = 1 .. n /\ b \in [1 .. n -> T]  BY LenProperties
<1>2. \A i \in 1 .. n : b[i] \in S  BY <1>1 DEF ToSet
<1>3. b \in [1 .. n -> S]  BY <1>1, <1>2
<1>4. b \in Injection(1 .. n, S)  BY <1>3 DEF Injection
<1>5. Cardinality(1 .. n) <= Cardinality(S)  BY <1>4, FS_Injection
<1>6. Cardinality(1 .. n) = n
  <2>1. 1 \in Int /\ n \in Int /\ (1 > n => n = 0) /\ n - 1 + 1 = n  OBVIOUS
  <2>. QED  BY <2>1, FS_Interval
<1>. QED  BY <1>5, <1>6

\* A visit begins with every key to place.
LEMMA MapStarts == Init => MapTrue
BY DEF Init, MapTrue

\* The steps of a map saved as one blob.
LEMMA BlobSaved ==
  ASSUME MapTrue, SaveBlob \/ SaveEmptyBlob
  PROVE  MapTrue'
<1>1. /\ phase = "visit" /\ case[1] = "plain" /\ phase' = "saved"
      /\ buckets' = <<>> /\ todo' = todo /\ self' = self /\ case' = case /\ machine' = machine
      /\ node = NoNode /\ self \in Maps
      BY DEF SaveBlob, SaveEmptyBlob, inputs, MapTrue
<1>2. total_items' = total_items  BY <1>1 DEF total_items
<1>3. CASE SaveBlob
  <2>1. PICK bytes \in EntrySizes :
          node' = [NoNode EXCEPT !.payload_len = 1 + total_items * bytes,
                                 !.first_word = 1, !.blob = self]
        BY <1>3 DEF SaveBlob
  <2>2. total_items > 0 /\ total_items \in Nat /\ bytes \in Nat
        BY <1>1, <1>3, ShardsForItems, MapAssumption DEF SaveBlob
  <2>3. PICK len \in Nat : len = 1 + total_items * bytes
    <3> PICK total \in Nat : total = total_items  BY <2>2
    <3>1. 1 + total * bytes \in Nat  BY <2>2
    <3>. QED  BY <3>1
  <2>4. node'.blob = self /\ node'.shards = <<>> /\ node'.payload_len = len
    <3>1. node' = [NoNode EXCEPT !.payload_len = len, !.first_word = 1, !.blob = self]
          BY <2>1, <2>3
    <3>. QED  BY <3>1 DEF NoNode
  <2>5. total_items # 0  BY <2>2
  <2>. QED  BY <1>1, <1>2, <2>3, <2>4, <2>5 DEF MapTrue
<1>4. CASE SaveEmptyBlob
  <2>1. total_items = 0 /\ node'.payload_len = 4 /\ node'.blob = <<>> /\ node'.shards = <<>>
        BY <1>1, <1>4 DEF SaveEmptyBlob, NoNode
  <2>2. self = <<>>  BY <1>1, <2>1, EmptyMapIsNone
  <2>. QED  BY <1>1, <1>2, <2>1, <2>2 DEF MapTrue
<1>. QED  BY <1>3, <1>4

\* The steps of a map saved in shards: the buckets are made, ...
LEMMA BucketsMade ==
  ASSUME MapTrue, NewBuckets
  PROVE  MapTrue'
<1>1. /\ phase = "visit" /\ case[1] = "map" /\ phase' = "distribute"
      /\ buckets' = [i \in 1 .. NumShards |-> <<>>]
      /\ node' = [NoNode EXCEPT !.payload_len = 4, !.first_word = NumShards]
      /\ todo' = todo /\ self' = self /\ case' = case /\ machine' = machine
      /\ todo = DOMAIN self /\ self \in Maps
      BY DEF NewBuckets, inputs, MapTrue
<1> PICK n \in Nat : n = NumShards  BY <1>1, ShardsForItems
<1>2. NumShards' = n  BY <1>1 DEF NumShards, total_items
<1>3. node' = [payload_len |-> 4, first_word |-> n, blob |-> <<>>, shards |-> <<>>]
      BY <1>1 DEF NoNode
<1>4. Len(buckets') = n /\ buckets' \in Seq(Seq(Key)) /\ \A i \in 1 .. n : buckets'[i] = <<>>
  <2>1. <<>> \in Seq(Key)  BY EmptySeq
  <2>2. buckets' \in [1 .. n -> Seq(Key)]  BY <1>1, <2>1
  <2>3. buckets' \in Seq(Seq(Key))  BY <2>2, SeqDef
  <2>4. DOMAIN buckets' = 1 .. Len(buckets') /\ Len(buckets') \in Nat  BY <2>3, LenProperties
  <2>5. Len(buckets') = n  BY <2>2, <2>4
  <2>. QED  BY <1>1, <2>3, <2>5
<1>5. ASSUME NEW i \in 1 .. n
      PROVE  BucketTrue(i, buckets[i], DOMAIN self \ todo)'
  <2>1. buckets'[i] = <<>> /\ (DOMAIN self \ todo)' = {}  BY <1>1, <1>4
  <2>2. <<>> \in Seq(Key) /\ DOMAIN <<>> = {}  BY EmptySeq
  <2>3. ToSet(<<>>) = {} /\ IsInjective(<<>>)  BY <2>2 DEF ToSet, IsInjective
  <2>. QED  BY <2>1, <2>2, <2>3 DEF BucketTrue
<1>6. Sharding'
  <2>1. /\ node'.shards = <<>> /\ Len(<<>>) = 0 /\ 1 .. 0 = {}
        /\ <<>> \in Seq([entries : Seq(Key), children : Seq(Key)])
        BY <1>3, EmptySeq
  <2>2. /\ node' = [payload_len |-> 4, first_word |-> NumShards', blob |-> <<>>,
                    shards |-> node'.shards]
        BY <1>2, <1>3, <2>1
  <2>3. \A s \in 1 .. Len(node'.shards) : (node.shards[s] = ShardFrom(buckets[s]))'
        BY <2>1
  <2>4. phase' # "saved" /\ Len(node'.shards) <= NumShards'  BY <1>1, <1>2, <2>1
  <2>. QED  BY <1>2, <1>4, <1>5, <2>1, <2>2, <2>3, <2>4 DEF Sharding
<1>. QED  BY <1>1, <1>6 DEF MapTrue

\* ... a key is placed, ...
LEMMA KeyPlaced ==
  ASSUME MapTrue, NEW k \in Key, Distribute(k)
  PROVE  MapTrue'
<1>1. /\ phase = "distribute" /\ k \in todo /\ todo' = todo \ {k} /\ phase' = phase
      /\ node' = node /\ self' = self /\ case' = case /\ machine' = machine
      /\ todo \subseteq DOMAIN self /\ self \in Maps /\ machine \in Machines /\ case \in Cases
      BY DEF Distribute, inputs, MapTrue
<1>2. case[1] = "map" /\ Sharding
  <2>1. case[1] \in {"map", "plain"}  BY <1>1, MapAssumption
  <2>. QED  BY <1>1, <2>1 DEF MapTrue
<1> PICK n \in Nat : n = NumShards  BY <1>1, ShardsForItems
<1>3. NumShards' = n /\ \A x : Home(x)' = Home(x)
      BY <1>1 DEF NumShards, total_items, Home, ShardIdx
<1> PICK home : home = Home(k)  OBVIOUS
<1>4. home \in 1 .. n  BY <1>1, HasHome
<1>5. /\ buckets \in Seq(Seq(Key)) /\ Len(buckets) = n
      /\ \A i \in 1 .. n : BucketTrue(i, buckets[i], DOMAIN self \ todo)
      BY <1>2 DEF Sharding
<1>6. /\ buckets[home] \in Seq(Key) /\ IsInjective(buckets[home])
      /\ ToSet(buckets[home]) = {x \in DOMAIN self \ todo : Home(x) = home}
      BY <1>4, <1>5 DEF BucketTrue
<1> PICK bucket : bucket = Append(buckets[home], k)  OBVIOUS
<1>7. bucket \in Seq(Key) /\ ToSet(bucket) = ToSet(buckets[home]) \union {k} /\ IsInjective(bucket)
      BY <1>1, <1>6, AppendFresh
<1>8. buckets' = [buckets EXCEPT ![home] = bucket]
      BY DEF Distribute, Home
<1>9. /\ buckets' \in Seq(Seq(Key)) /\ Len(buckets') = n
      /\ \A i \in 1 .. n : buckets'[i] = IF i = home THEN bucket ELSE buckets[i]
      BY <1>4, <1>5, <1>7, <1>8, ExceptSeq
<1>10. (DOMAIN self \ todo)' = (DOMAIN self \ todo) \union {k}  BY <1>1
<1>11. ASSUME NEW i \in 1 .. n
       PROVE  BucketTrue(i, buckets[i], DOMAIN self \ todo)'
  <2>1. CASE i = home
    <3>1. ToSet(bucket) = {x \in (DOMAIN self \ todo) \union {k} : Home(x) = home}
          BY <1>6, <1>7
    <3>. QED  BY <1>3, <1>7, <1>9, <1>10, <2>1, <3>1 DEF BucketTrue
  <2>2. CASE i # home
    <3>1. BucketTrue(i, buckets[i], DOMAIN self \ todo)  BY <1>5
    <3>2. {x \in (DOMAIN self \ todo) \union {k} : Home(x) = i}
            = {x \in DOMAIN self \ todo : Home(x) = i}
          BY <2>2
    <3>. QED  BY <1>3, <1>9, <1>10, <2>2, <3>1, <3>2 DEF BucketTrue
  <2>. QED  BY <2>1, <2>2
<1>12. Sharding'
  <2>1. node.shards = <<>> /\ Len(<<>>) = 0 /\ 1 .. 0 = {}  BY <1>1, <1>2 DEF Sharding
  <2>. QED  BY <1>1, <1>2, <1>3, <1>9, <1>11, <2>1 DEF Sharding
<1>. QED  BY <1>1, <1>2, <1>12 DEF MapTrue

\* Pushing a job changes nothing else of the node.
LEMMA NodeWithShards ==
  ASSUME NEW len, NEW word, NEW blob, NEW old, NEW new, NEW it,
         it = [payload_len |-> len, first_word |-> word, blob |-> blob, shards |-> old]
  PROVE  [it EXCEPT !.shards = new]
           = [payload_len |-> len, first_word |-> word, blob |-> blob, shards |-> new]
OBVIOUS

\* ... a bucket becomes a shard, ...
LEMMA ShardAdded ==
  ASSUME MapTrue, AddShard
  PROVE  MapTrue'
<1>1. /\ phase = "distribute" /\ todo = {} /\ Len(node.shards) < Len(buckets)
      /\ node' = [node EXCEPT !.shards =
                    Append(@, ShardFrom(buckets[Len(node.shards) + 1]))]
      /\ todo' = todo /\ phase' = phase /\ buckets' = buckets
      /\ self' = self /\ case' = case /\ machine' = machine
      /\ self \in Maps /\ case \in Cases
      BY DEF AddShard, ShardFrom, inputs, MapTrue
<1>2. case[1] = "map" /\ Sharding
  <2>1. case[1] \in {"map", "plain"}  BY <1>1, MapAssumption
  <2>. QED  BY <1>1, <2>1 DEF MapTrue
<1> PICK n \in Nat : n = NumShards  BY <1>1, ShardsForItems
<1> DEFINE Shard == [entries : Seq(Key), children : Seq(Key)]
<1>3. NumShards' = n /\ \A x : Home(x)' = Home(x)
      BY <1>1 DEF NumShards, total_items, Home, ShardIdx
<1>4. /\ buckets \in Seq(Seq(Key)) /\ Len(buckets) = n
      /\ \A i \in 1 .. n : BucketTrue(i, buckets[i], DOMAIN self \ todo)
      /\ node = [payload_len |-> 4, first_word |-> n, blob |-> <<>>, shards |-> node.shards]
      /\ node.shards \in Seq(Shard)
      /\ \A s \in 1 .. Len(node.shards) : node.shards[s] = ShardFrom(buckets[s])
      BY <1>2 DEF Sharding
<1> PICK m \in Nat : m = Len(node.shards)  BY <1>4, LenProperties
<1>5. m + 1 \in 1 .. n /\ m + 1 <= n  BY <1>1, <1>4
<1> PICK shard : shard = ShardFrom(buckets[m + 1])  OBVIOUS
<1>6. shard \in Shard
  <2>1. buckets[m + 1] \in Seq(Key) /\ <<>> \in Seq(Key)  BY <1>4, <1>5, ElementOfSeq, EmptySeq
  <2>. QED  BY <2>1 DEF ShardFrom, VisitedChildren
<1> HIDE DEF Shard
<1>7. /\ Append(node.shards, shard) \in Seq(Shard)
      /\ Len(Append(node.shards, shard)) = m + 1
      /\ Append(node.shards, shard)[m + 1] = shard
      /\ \A s \in 1 .. m : Append(node.shards, shard)[s] = node.shards[s]
      BY <1>4, <1>6, AppendProperties
<1>8. node' = [payload_len |-> 4, first_word |-> n, blob |-> <<>>,
               shards |-> Append(node.shards, shard)]
  <2> PICK r : r = node.shards  OBVIOUS
  <2>1. node = [payload_len |-> 4, first_word |-> n, blob |-> <<>>, shards |-> r]  BY <1>4
  <2> PICK more : more = Append(node.shards, shard)  OBVIOUS
  <2>2. node' = [node EXCEPT !.shards = more]  BY <1>1
  <2>3. \A new : [node EXCEPT !.shards = new]
                  = [payload_len |-> 4, first_word |-> n, blob |-> <<>>, shards |-> new]
    <3>1. TAKE new
    <3> PICK it : it = node  OBVIOUS
    <3>2. [it EXCEPT !.shards = new]
            = [payload_len |-> 4, first_word |-> n, blob |-> <<>>, shards |-> new]
      <4>1. it = [payload_len |-> 4, first_word |-> n, blob |-> <<>>, shards |-> r]
            BY <2>1
      <4>. QED  BY <4>1, NodeWithShards
    <3>. QED  BY <3>2
  <2>. QED  BY <2>2, <2>3
<1>9. \A s \in 1 .. m + 1 : Append(node.shards, shard)[s] = ShardFrom(buckets[s])
  <2>1. \A s \in 1 .. m + 1 : s \in 1 .. m \/ s = m + 1  OBVIOUS
  <2>. QED  BY <1>4, <1>7, <2>1
<1>12. Sharding'
  <2>1. node'.shards = Append(node.shards, shard)  BY <1>8
  <2>2. \A i \in 1 .. n : BucketTrue(i, buckets[i], DOMAIN self \ todo)'
        BY <1>1, <1>4, <1>3 DEF BucketTrue
  <2>3. \A s \in 1 .. m + 1 : (node.shards[s] = ShardFrom(buckets[s]))'
        BY <1>1, <1>9, <2>1 DEF ShardFrom, VisitedChildren
  <2>4. phase' # "saved" /\ todo' = {}  BY <1>1
  <2>. QED  BY <1>1, <1>3, <1>4, <1>5, <1>7, <1>8, <2>1, <2>2, <2>3, <2>4 DEF Sharding, Shard
<1>. QED  BY <1>1, <1>2, <1>12 DEF MapTrue

\* ... and when all are shards the map is saved.
LEMMA VisitEnds ==
  ASSUME MapTrue, EndVisit
  PROVE  MapTrue'
<1>1. /\ phase = "distribute" /\ todo = {} /\ Len(node.shards) = Len(buckets)
      /\ phase' = "saved" /\ todo' = todo /\ buckets' = buckets /\ node' = node
      /\ self' = self /\ case' = case /\ machine' = machine
      /\ self \in Maps /\ case \in Cases
      BY DEF EndVisit, inputs, MapTrue
<1>2. case[1] = "map" /\ Sharding
  <2>1. case[1] \in {"map", "plain"}  BY <1>1, MapAssumption
  <2>. QED  BY <1>1, <2>1 DEF MapTrue
<1>3. Sharding'
  <2>1. NumShards' = NumShards /\ \A x : Home(x)' = Home(x)
        BY <1>1 DEF NumShards, total_items, Home, ShardIdx
  <2>2. \A i \in 1 .. NumShards : BucketTrue(i, buckets[i], DOMAIN self \ todo)'
        BY <1>1, <1>2, <2>1 DEF Sharding, BucketTrue
  <2>3. \A s \in 1 .. Len(node.shards) : (node.shards[s] = ShardFrom(buckets[s]))'
        BY <1>1, <1>2 DEF Sharding, ShardFrom, VisitedChildren
  <2>. QED  BY <1>1, <1>2, <2>1, <2>2, <2>3 DEF Sharding
<1>. QED  BY <1>1, <1>2, <1>3 DEF MapTrue

\* The invariant of the visit of a map.
LEMMA AlwaysMapTrue == Spec => []MapTrue
<1>1. MapTrue /\ [Next]_vars => MapTrue'
  <2> SUFFICES ASSUME MapTrue, [Next]_vars PROVE MapTrue'  OBVIOUS
  <2>1. CASE UNCHANGED vars
    <3>1. /\ self' = self /\ case' = case /\ machine' = machine /\ todo' = todo
          /\ buckets' = buckets /\ node' = node /\ phase' = phase
          BY <2>1 DEF vars, inputs
    <3>2. total_items' = total_items  BY <3>1 DEF total_items
    <3>3. Sharding' <=> Sharding
          BY <3>1 DEF Sharding, BucketTrue, Home, ShardIdx, NumShards, total_items, ShardFrom,
                      VisitedChildren
    <3>. QED  BY <3>1, <3>2, <3>3 DEF MapTrue
  <2>2. CASE Saved  BY <2>1, <2>2 DEF Saved
  <2>. QED  BY <2>1, <2>2, BlobSaved, BucketsMade, KeyPlaced, ShardAdded, VisitEnds DEF Next
<1>. QED  BY <1>1, MapStarts, PTL DEF Spec
-----------------------------------------------------------------------------
\* Where a key is among the entries of a shard, or 0.
Hits(entries, k) == {i \in 1 .. Len(entries) : entries[i] = k}
HitOf(entries, k) == IF Hits(entries, k) = {} THEN 0 ELSE Min(Hits(entries, k))

\* get compares the keys, and of a value that is whole in its shard nothing else.
LEMMA GetReads ==
  ASSUME NEW k, NEW idx, idx = ShardIdx(k, machine[2], node.first_word),
         node.payload_len = 4, node.first_word # 0, ~(idx >= Len(node.shards)),
         case[2] # "deep"
  PROVE  Get(k) = LET shard == node.shards[idx + 1]
                      hit == HitOf(shard.entries, k)
                  IN IF hit = 0 THEN Ok(None) ELSE Decode(shard, hit)
<1>1. ~(node.payload_len < 4)  OBVIOUS
<1> PICK shard : shard = node.shards[idx + 1]  OBVIOUS
<1>2. \A i : (SameKey(shard.entries[i], k)
                \/ (SameHash(shard.entries[i], k) /\ case[2] = "deep"
                      /\ shard.entries[i] = Last(shard.entries)))
             <=> shard.entries[i] = k
      BY DEF SameKey, SameHash
<1>3. Hits(shard.entries, k)
        = {i \in 1 .. Len(shard.entries) :
             SameKey(shard.entries[i], k)
                \/ (SameHash(shard.entries[i], k) /\ case[2] = "deep"
                      /\ shard.entries[i] = Last(shard.entries))}
      BY <1>2 DEF Hits
<1>4. SelectInSeq(shard.entries,
              LAMBDA e : SameKey(e, k) \/ (SameHash(e, k) /\ case[2] = "deep" /\ e = Last(shard.entries)))
        = HitOf(shard.entries, k)
      BY <1>3 DEF SelectInSeq, HitOf
<1>. QED  BY <1>1, <1>4 DEF Get, InShard

\* get_lazy passes over the children of the entries before.
LEMMA GetLazyReads ==
  ASSUME NEW k, NEW idx, idx = ShardIdx(k, machine[2], node.first_word),
         node.payload_len = 4, node.first_word # 0, ~(idx >= Len(node.shards))
  PROVE  GetLazy(k) = LET shard == node.shards[idx + 1]
                          hit == HitOf(shard.entries, k)
                          child == TakenBefore(hit) + ChildrenTaken
                      IN IF hit = 0 THEN Ok(None)
                         ELSE IF child > Len(shard.children) THEN Err
                         ELSE Ok([value |-> self[shard.entries[hit]],
                                  child |-> IF ChildrenTaken = 0 THEN None
                                            ELSE shard.children[child]])
<1>1. ~(node.payload_len < 4)  OBVIOUS
<1> PICK shard : shard = node.shards[idx + 1]  OBVIOUS
<1>2. \A i : SameKey(shard.entries[i], k) <=> shard.entries[i] = k
      BY DEF SameKey, SameHash
<1>3. Hits(shard.entries, k) = {i \in 1 .. Len(shard.entries) : SameKey(shard.entries[i], k)}
      BY <1>2 DEF Hits
<1>4. SelectInSeq(shard.entries, LAMBDA e : SameKey(e, k)) = HitOf(shard.entries, k)
      BY <1>3 DEF SelectInSeq, HitOf
<1>. QED  BY <1>1, <1>4 DEF GetLazy, InShard

\* A key is found where it is, in a bucket that holds it once.
LEMMA HitIsTrue ==
  ASSUME NEW S, NEW b \in Seq(S), IsInjective(b), NEW k
  PROVE  /\ HitOf(b, k) = 0 <=> k \notin ToSet(b)
         /\ HitOf(b, k) # 0 => HitOf(b, k) \in 1 .. Len(b) /\ b[HitOf(b, k)] = k
<1> PICK n \in Nat : n = Len(b)  BY LenProperties
<1>1. DOMAIN b = 1 .. n  BY LenProperties
<1>2. CASE k \notin ToSet(b)
  <2>1. Hits(b, k) = {}  BY <1>1, <1>2 DEF Hits, ToSet
  <2>. QED  BY <1>2, <2>1 DEF HitOf
<1>3. CASE k \in ToSet(b)
  <2>1. PICK i \in 1 .. n : b[i] = k  BY <1>1, <1>3 DEF ToSet
  <2>2. Hits(b, k) = {i}  BY <1>1, <2>1 DEF Hits, IsInjective
  <2>3. Min({i}) = i  BY DEF Min
  <2>4. HitOf(b, k) = i  BY <2>2, <2>3 DEF HitOf
  <2>. QED  BY <1>3, <2>1, <2>4
<1>. QED  BY <1>2, <1>3

\* How a map in shards lies in the file: a shard for each bucket, and every key
\* of the map in its own.
LEMMA ShardsSaved ==
  ASSUME MapTrue, phase = "saved", case[1] = "map"
  PROVE  /\ node.payload_len = 4 /\ node.first_word = NumShards /\ node.blob = <<>>
         /\ DOMAIN node.shards = 1 .. NumShards /\ Len(node.shards) = NumShards
         /\ \A s \in 1 .. NumShards :
              /\ node.shards[s] = ShardFrom(buckets[s])
              /\ BucketTrue(s, buckets[s], DOMAIN self)
         /\ \A k \in DOMAIN self : k \in Key /\ Home(k) \in 1 .. NumShards
<1>1. Sharding /\ self \in Maps /\ machine \in Machines  BY DEF MapTrue
<1> PICK n \in Nat : n = NumShards  BY <1>1, ShardsForItems
<1>2. DOMAIN self \ todo = DOMAIN self  BY <1>1 DEF Sharding
<1>3. node = [payload_len |-> 4, first_word |-> n, blob |-> <<>>, shards |-> node.shards]
      BY <1>1 DEF Sharding
<1>4. node.payload_len = 4 /\ node.first_word = n /\ node.blob = <<>>
  <2> PICK r : r = node.shards  OBVIOUS
  <2>1. node = [payload_len |-> 4, first_word |-> n, blob |-> <<>>, shards |-> r]  BY <1>3
  <2>. QED  BY <2>1
<1>5. /\ Len(node.shards) = n
      /\ \A s \in 1 .. n : /\ node.shards[s] = ShardFrom(buckets[s])
                           /\ BucketTrue(s, buckets[s], DOMAIN self)
      BY <1>1, <1>2 DEF Sharding
<1>6. DOMAIN node.shards = 1 .. n  BY <1>1, <1>5, LenProperties DEF Sharding
<1>7. \A k \in DOMAIN self : k \in Key /\ Home(k) \in 1 .. n  BY <1>1, HasHome
<1>. QED  BY <1>4, <1>5, <1>6, <1>7

\* The place of a key in the shard where a reader looks for it, or 0.
Sought(k) == HitOf(buckets[ShardIdx(k, machine[2], NumShards) + 1], k)

\* What a lookup gets: of a key that is in that shard its own value, or the
\* mirror of it; a primitive has no mirror.
LEMMA LookupGets ==
  ASSUME MapTrue, phase = "saved", HasShards, NEW k \in Key
  PROVE  /\ Sought(k) # 0 => k \in DOMAIN self
         /\ ShardIdx(k, machine[1], NumShards) = ShardIdx(k, machine[2], NumShards) =>
              (k \in DOMAIN self => Sought(k) # 0)
         /\ case[2] # "deep" => Get(k) = IF Sought(k) = 0 THEN Ok(None) ELSE Ok(self[k])
         /\ GetLazy(k) = IF Sought(k) = 0 THEN Ok(None)
                         ELSE IF case[2] = "primitive" THEN Err ELSE Ok(MirrorOf(k))
<1>1. /\ self \in Maps /\ machine \in Machines /\ case \in Cases
      /\ case[1] = "map" /\ total_items > 0
      BY DEF MapTrue, HasShards
<1>2. PICK n \in Nat \ {0} : n = NumShards
  <2>1. NumShards \in Nat /\ NumShards > 0  BY <1>1, ShardsForItems
  <2>. QED  BY <2>1
<1>3. PICK idx \in 0 .. n - 1 : idx = ShardIdx(k, machine[2], n)
  <2>1. machine[2] \in Nat  BY <1>1, MapAssumption
  <2>. QED  BY <2>1, ShardIdxInRange
<1>4. idx + 1 \in 1 .. n /\ ~(idx >= n) /\ n # 0  OBVIOUS
<1> PICK bucket : bucket = buckets[idx + 1]  OBVIOUS
<1>5. /\ node.payload_len = 4 /\ node.first_word = n /\ Len(node.shards) = n
      /\ node.shards[idx + 1] = ShardFrom(bucket)
      /\ BucketTrue(idx + 1, bucket, DOMAIN self)
      BY <1>1, <1>2, <1>4, ShardsSaved
<1>6. /\ bucket \in Seq(Key) /\ IsInjective(bucket)
      /\ ToSet(bucket) = {x \in DOMAIN self : Home(x) = idx + 1}
      BY <1>5 DEF BucketTrue
<1> PICK hit : hit = HitOf(bucket, k)  OBVIOUS
<1>7. Sought(k) = hit  BY <1>2, <1>3 DEF Sought
<1>8. /\ hit = 0 <=> k \notin ToSet(bucket)
      /\ hit # 0 => hit \in 1 .. Len(bucket) /\ bucket[hit] = k
      BY <1>6, HitIsTrue
<1> PICK shard : shard = ShardFrom(bucket)  OBVIOUS
<1>9. /\ shard.entries = bucket
      /\ shard.children = IF case[2] = "deep" THEN bucket ELSE <<>>
      BY DEF ShardFrom, VisitedChildren
<1>10. case[2] \in {"primitive", "flat", "deep"}  BY <1>1, MapAssumption
<1>11. case[2] # "deep" => Get(k) = IF hit = 0 THEN Ok(None) ELSE Ok(self[k])
  <2> SUFFICES ASSUME case[2] # "deep"
               PROVE  Get(k) = IF hit = 0 THEN Ok(None) ELSE Ok(self[k])
      OBVIOUS
  <2>1. Get(k) = IF hit = 0 THEN Ok(None) ELSE Decode(shard, hit)
        BY <1>3, <1>4, <1>5, <1>9, GetReads
  <2>2. Decode(shard, hit) = Ok(self[shard.entries[hit]])  BY DEF Decode
  <2>. QED  BY <1>8, <1>9, <2>1, <2>2
<1>12. GetLazy(k) = IF hit = 0 THEN Ok(None)
                    ELSE IF case[2] = "primitive" THEN Err ELSE Ok(MirrorOf(k))
  <2> DEFINE child == TakenBefore(hit) + ChildrenTaken
  <2>1. GetLazy(k) = IF hit = 0 THEN Ok(None)
                     ELSE IF child > Len(shard.children) THEN Err
                     ELSE Ok([value |-> self[shard.entries[hit]],
                              child |-> IF ChildrenTaken = 0 THEN None
                                        ELSE shard.children[child]])
        BY <1>3, <1>4, <1>5, <1>9, GetLazyReads
  <2>2. CASE hit = 0  BY <2>1, <2>2
  <2>3. CASE hit # 0
    <3>1. hit \in 1 .. Len(bucket) /\ bucket[hit] = k /\ Len(bucket) \in Nat
          BY <1>6, <1>8, <2>3, LenProperties
    <3> PICK place \in Nat : place = hit  BY <3>1
    <3> PICK len \in Nat : len = Len(bucket)  BY <3>1
    <3>2. place >= 1 /\ place <= len  BY <3>1
    <3>3. CASE case[2] = "flat"
      <4>1. ChildrenTaken = 0 /\ child = 0
        <5>1. (place - 1) * 0 + 0 = 0  OBVIOUS
        <5>. QED  BY <3>3, <5>1 DEF ChildrenTaken, TakenBefore
      <4>2. shard.children = <<>> /\ Len(<<>>) = 0 /\ ~(0 > 0)  BY <1>9, <3>3
      <4>3. MirrorOf(k) = [value |-> self[k], child |-> None]  BY <3>3 DEF MirrorOf
      <4>. QED  BY <1>9, <2>1, <2>3, <3>1, <3>3, <4>1, <4>2, <4>3
    <3>4. CASE case[2] # "flat"
      <4>1. ChildrenTaken = 1 /\ child = place
        <5>1. (place - 1) * 1 + 1 = place  OBVIOUS
        <5>. QED  BY <3>4, <5>1 DEF ChildrenTaken, TakenBefore
      <4>2. CASE case[2] = "primitive"
        <5>1. shard.children = <<>> /\ Len(<<>>) = 0 /\ place > 0  BY <1>9, <3>2, <4>2
        <5>. QED  BY <2>1, <2>3, <4>1, <4>2, <5>1
      <4>3. CASE case[2] = "deep"
        <5>1. shard.children = bucket /\ ~(place > len)  BY <1>9, <3>2, <4>3
        <5>2. MirrorOf(k) = [value |-> self[k], child |-> k]  BY <4>3 DEF MirrorOf
        <5>. QED  BY <1>9, <2>1, <2>3, <3>1, <4>1, <4>3, <5>1, <5>2
      <4>. QED  BY <1>10, <3>4, <4>2, <4>3
    <3>. QED  BY <3>3, <3>4
  <2>. QED  BY <2>2, <2>3
<1>13. ASSUME ShardIdx(k, machine[1], NumShards) = ShardIdx(k, machine[2], NumShards),
              k \in DOMAIN self
       PROVE  hit # 0
  <2>1. Home(k) = idx + 1  BY <1>2, <1>3, <1>13 DEF Home
  <2>. QED  BY <1>6, <1>8, <1>13, <2>1
<1>14. hit # 0 => k \in DOMAIN self  BY <1>6, <1>8
<1>. QED  BY <1>7, <1>11, <1>12, <1>13, <1>14

\* LookupsFindSaved: every lookup in a map saved in shards returns the value of
\* its key, or the mirror with the value's own chunk, and None for a key that was
\* not saved; on machines of different width too, if the hash fits both.
THEOREM LookupsFind == Spec => []LookupsFindSaved
<1>1. MapTrue => LookupsFindSaved
  <2> SUFFICES ASSUME MapTrue, phase = "saved", HasShards
               PROVE  /\ SameWidth => /\ case[2] # "deep" => GetWorks
                                      /\ case[2] # "primitive" => GetLazyWorks
                      /\ \A k \in Key :
                           /\ case[2] # "deep" => NeverWrong(Get(k), k, ValueOf)
                           /\ NeverWrong(GetLazy(k), k, MirrorOf)
                           /\ Hash[k] <= machine[1] /\ Hash[k] <= machine[2] /\ k \in DOMAIN self =>
                                /\ case[2] # "deep" => Get(k) = Ok(self[k])
                                /\ case[2] # "primitive" => GetLazy(k) = Ok(MirrorOf(k))
      BY DEF LookupsFindSaved
  <2>1. SameWidth => \A k \in Key : Sought(k) # 0 <=> k \in DOMAIN self
    <3> SUFFICES ASSUME SameWidth, NEW k \in Key PROVE Sought(k) # 0 <=> k \in DOMAIN self
        OBVIOUS
    <3>1. ShardIdx(k, machine[1], NumShards) = ShardIdx(k, machine[2], NumShards)
          BY DEF SameWidth
    <3>. QED  BY <3>1, LookupGets
  <2>2. SameWidth => /\ case[2] # "deep" => GetWorks
                     /\ case[2] # "primitive" => GetLazyWorks
    <3> SUFFICES ASSUME SameWidth PROVE /\ case[2] # "deep" => GetWorks
                                        /\ case[2] # "primitive" => GetLazyWorks
        OBVIOUS
    <3>1. ASSUME case[2] # "deep" PROVE GetWorks
      <4>1. \A k \in Key : Get(k) = IF Sought(k) = 0 THEN Ok(None) ELSE Ok(self[k])
            BY <3>1, LookupGets
      <4>. QED  BY <2>1, <4>1 DEF GetWorks
    <3>2. ASSUME case[2] # "primitive" PROVE GetLazyWorks
      <4>1. \A k \in Key : GetLazy(k) = IF Sought(k) = 0 THEN Ok(None) ELSE Ok(MirrorOf(k))
            BY <3>2, LookupGets
      <4>. QED  BY <2>1, <4>1 DEF GetLazyWorks
    <3>. QED  BY <3>1, <3>2
  <2>3. ASSUME NEW k \in Key
        PROVE  /\ case[2] # "deep" => NeverWrong(Get(k), k, ValueOf)
               /\ NeverWrong(GetLazy(k), k, MirrorOf)
               /\ Hash[k] <= machine[1] /\ Hash[k] <= machine[2] /\ k \in DOMAIN self =>
                    /\ case[2] # "deep" => Get(k) = Ok(self[k])
                    /\ case[2] # "primitive" => GetLazy(k) = Ok(MirrorOf(k))
    <3>1. case[2] # "deep" => NeverWrong(Get(k), k, ValueOf)
          BY LookupGets DEF NeverWrong, ValueOf
    <3>2. NeverWrong(GetLazy(k), k, MirrorOf)
          BY LookupGets DEF NeverWrong
    <3>3. Hash[k] <= machine[1] /\ Hash[k] <= machine[2]
            => ShardIdx(k, machine[1], NumShards) = ShardIdx(k, machine[2], NumShards)
          BY DEF ShardIdx
    <3>. QED  BY <3>1, <3>2, <3>3, LookupGets
  <2>. QED  BY <2>2, <2>3
<1>. QED  BY <1>1, AlwaysMapTrue, PTL

\* TypeOK: no entry is dropped on the way to the buckets, and the shard of a
\* number stands for the bucket of that number.
THEOREM MapTypeCorrect == Spec => []TypeOK
<1>1. MapTrue => TypeOK
  <2> SUFFICES ASSUME MapTrue PROVE TypeOK  OBVIOUS
  <2>1. /\ self \in Maps /\ case \in Cases /\ machine \in Machines
        /\ todo \subseteq DOMAIN self /\ phase \in {"visit", "distribute", "saved"}
        /\ case[1] \in {"map", "plain"}
        BY MapAssumption DEF MapTrue
  <2>2. DOMAIN <<>> = {} /\ Len(<<>>) = 0 /\ ~(0 > 0)  OBVIOUS
  <2>3. CASE buckets = <<>> /\ node.shards = <<>> /\ (case[1] = "map" => todo = DOMAIN self)
    <3>1. UNION {ToSet(buckets[i]) : i \in DOMAIN buckets} = {}  BY <2>2, <2>3
    <3>2. Len(node.shards) <= Len(buckets)  BY <2>2, <2>3
    <3>. QED  BY <2>1, <2>2, <2>3, <3>1, <3>2 DEF TypeOK
  <2>4. CASE case[1] = "map" /\ Sharding
    <3> PICK n \in Nat : n = NumShards  BY <2>1, ShardsForItems
    <3>1. /\ buckets \in Seq(Seq(Key)) /\ Len(buckets) = n
          /\ \A i \in 1 .. n : BucketTrue(i, buckets[i], DOMAIN self \ todo)
          /\ node.shards \in Seq([entries : Seq(Key), children : Seq(Key)])
          /\ Len(node.shards) <= n
          /\ \A s \in 1 .. Len(node.shards) : node.shards[s] = ShardFrom(buckets[s])
          BY <2>4 DEF Sharding
    <3>2. DOMAIN buckets = 1 .. n  BY <3>1, LenProperties
    <3>3. \A i \in 1 .. n : ToSet(buckets[i]) = {k \in DOMAIN self \ todo : Home(k) = i}
          BY <3>1 DEF BucketTrue
    <3>4. \A k \in DOMAIN self : Home(k) \in 1 .. n  BY <2>1, HasHome
    <3>5. UNION {ToSet(buckets[i]) : i \in DOMAIN buckets} = DOMAIN self \ todo
          BY <3>2, <3>3, <3>4
    <3>6. ASSUME NEW s \in DOMAIN node.shards
          PROVE  /\ node.shards[s].entries = buckets[s]
                 /\ ToSet(node.shards[s].children) \subseteq DOMAIN self
      <4> PICK m \in Nat : m = Len(node.shards)  BY <3>1, LenProperties
      <4>1. s \in 1 .. m /\ s \in 1 .. n  BY <3>1, <3>6, LenProperties
      <4>2. node.shards[s] = ShardFrom(buckets[s])  BY <3>1, <4>1
      <4>3. ToSet(buckets[s]) \subseteq DOMAIN self /\ ToSet(<<>>) = {}
            BY <2>2, <3>3, <4>1 DEF ToSet
      <4>. QED  BY <4>2, <4>3 DEF ShardFrom, VisitedChildren
    <3>. QED  BY <2>1, <2>4, <3>1, <3>5, <3>6 DEF TypeOK
  <2>5. CASE phase = "visit"  BY <2>3, <2>5 DEF MapTrue, NoNode
  <2>6. CASE phase # "visit"  BY <2>1, <2>3, <2>4, <2>6 DEF MapTrue
  <2>. QED  BY <2>5, <2>6
<1>. QED  BY <1>1, AlwaysMapTrue, PTL

\* An answer is not an error, and has what was put into it.
LEMMA OkIsNotErr == \A x : Ok(x) # Err /\ Ok(x)[2] = x
<1> TAKE x
<1>1. Ok(x)[1] = "Ok" /\ Ok(x)[2] = x /\ Err[1] = "Err"  BY DEF Ok, Err
<1>. QED  BY <1>1

\* The loop of the two loads reaches every entry of every shard.
LEMMA LoadsAllShards ==
  ASSUME MapTrue, phase = "saved", case[1] = "map"
  PROVE  /\ LoadShards(node.shards) = Err \/ DOMAIN LoadShards(node.shards)[2] = DOMAIN self
         /\ case[2] # "deep" => LoadShards(node.shards) = Ok(self)
<1> DEFINE shards == node.shards
           read == {e \in ShardsRead(shards) \X (1 .. total_items) :
                      e[2] <= Len(shards[e[1]].entries)}
           keyOf == [e \in read |-> shards[e[1]].entries[e[2]]]
           valueOf == [e \in read |-> Decode(shards[e[1]], e[2])]
           loaded == [k \in {keyOf[e] : e \in read} |->
                        valueOf[CHOOSE e \in read : keyOf[e] = k][2]]
<1>1. LoadShards(shards) = IF \E e \in read : valueOf[e] = Err THEN Err ELSE Ok(loaded)
      BY DEF LoadShards
<1>2. self \in Maps  BY DEF MapTrue
<1> PICK n \in Nat : n = NumShards  BY <1>2, ShardsForItems
<1> PICK total \in Nat : total = total_items  BY <1>2, ShardsForItems
<1>3. /\ DOMAIN shards = 1 .. n
      /\ \A s \in 1 .. n :
           /\ shards[s].entries = buckets[s] /\ buckets[s] \in Seq(Key)
           /\ ToSet(buckets[s]) = {k \in DOMAIN self : Home(k) = s}
           /\ IsInjective(buckets[s])
  <2>1. /\ DOMAIN shards = 1 .. n
        /\ \A s \in 1 .. n : /\ shards[s] = ShardFrom(buckets[s])
                             /\ BucketTrue(s, buckets[s], DOMAIN self)
        BY ShardsSaved
  <2>2. \A b : ShardFrom(b).entries = b  BY DEF ShardFrom
  <2>. QED  BY <2>1, <2>2 DEF BucketTrue
<1>4. ASSUME NEW s \in 1 .. n
      PROVE  Len(buckets[s]) \in Nat /\ Len(buckets[s]) <= total /\ DOMAIN buckets[s] = 1 .. Len(buckets[s])
  <2>1. ToSet(buckets[s]) \subseteq DOMAIN self /\ IsFiniteSet(DOMAIN self)
        BY <1>2, <1>3, MapAssumption
  <2>2. Len(buckets[s]) <= Cardinality(DOMAIN self)  BY <1>3, <2>1, InjectiveShort
  <2>. QED  BY <1>3, <2>2, LenProperties DEF total_items
<1>5. ASSUME NEW e \in read
      PROVE  keyOf[e] \in DOMAIN self
  <2>1. e[1] \in 1 .. n /\ e[2] \in 1 .. total /\ e[2] <= Len(shards[e[1]].entries)
        BY <1>3 DEF ShardsRead
  <2>2. e[2] \in 1 .. Len(buckets[e[1]])  BY <1>3, <1>4, <2>1
  <2>3. keyOf[e] = buckets[e[1]][e[2]]  BY <1>3, <2>1
  <2>4. buckets[e[1]][e[2]] \in ToSet(buckets[e[1]])  BY <1>4, <2>1, <2>2 DEF ToSet
  <2>. QED  BY <1>3, <2>1, <2>3, <2>4
<1>6. ASSUME NEW k \in DOMAIN self
      PROVE  \E e \in read : keyOf[e] = k
  <2> PICK s : s = Home(k)  OBVIOUS
  <2>1. s \in 1 .. n  BY ShardsSaved
  <2>2. k \in ToSet(buckets[s])  BY <1>3, <2>1
  <2>3. PICK i \in 1 .. Len(buckets[s]) : buckets[s][i] = k  BY <1>4, <2>1, <2>2 DEF ToSet
  <2>4. i \in 1 .. total  BY <1>4, <2>1, <2>3
  <2>5. shards[s].entries # <<>>
    <3>1. DOMAIN <<>> = {}  OBVIOUS
    <3>. QED  BY <1>3, <2>1, <2>2, <3>1 DEF ToSet
  <2>6. s \in ShardsRead(shards)  BY <1>3, <2>1, <2>5 DEF ShardsRead
  <2>7. i <= Len(shards[s].entries)  BY <1>3, <1>4, <2>1, <2>3
  <2> PICK e : e = <<s, i>>  OBVIOUS
  <2>8. e \in read  BY <2>4, <2>6, <2>7
  <2>9. keyOf[e] = k  BY <1>3, <2>1, <2>3, <2>8
  <2>. QED  BY <2>8, <2>9
<1>7. case[2] # "deep" => \A e \in read : valueOf[e] = Ok(self[keyOf[e]])
      BY DEF Decode
<1>8. DOMAIN loaded = {keyOf[e] : e \in read}  OBVIOUS
<1>9. \A k \in {keyOf[e] : e \in read} : loaded[k] = valueOf[CHOOSE e \in read : keyOf[e] = k][2]
      OBVIOUS
<1> HIDE DEF valueOf, keyOf, read
<1>10. loaded = [k \in DOMAIN loaded |-> loaded[k]]  OBVIOUS
<1> HIDE DEF loaded
<1>11. DOMAIN loaded = DOMAIN self  BY <1>5, <1>6, <1>8
<1>12. LoadShards(shards) = Err \/ DOMAIN LoadShards(shards)[2] = DOMAIN self
       BY <1>1, <1>11, OkIsNotErr
<1>13. ASSUME case[2] # "deep" PROVE LoadShards(shards) = Ok(self)
  <2>1. \A e \in read : valueOf[e] # Err  BY <1>7, <1>13, OkIsNotErr
  <2>2. ASSUME NEW k \in DOMAIN self PROVE loaded[k] = self[k]
    <3> PICK e : e = (CHOOSE x \in read : keyOf[x] = k)  OBVIOUS
    <3>1. e \in read /\ keyOf[e] = k  BY <1>6, <2>2
    <3>2. loaded[k] = valueOf[e][2]  BY <1>9, <3>1
    <3>. QED  BY <1>7, <1>13, <3>1, <3>2, OkIsNotErr
  <2>3. self = [k \in DOMAIN self |-> self[k]]  BY <1>2, MapAssumption
  <2>4. loaded = self  BY <1>10, <1>11, <2>2, <2>3
  <2>. QED  BY <1>1, <2>1, <2>4
<1>. QED  BY <1>12, <1>13

\* LoadsAreSaved: a load of the whole map returns the map that was saved, of any
\* values that are whole in their shards, and never Ok with a part of its keys.
THEOREM LoadsGiveSaved == Spec => []LoadsAreSaved
<1>1. MapTrue => LoadsAreSaved
  <2> SUFFICES ASSUME MapTrue, phase = "saved"
               PROVE  /\ case # <<"map", "deep">> /\ (total_items > 0 => node.payload_len >= 4)
                           => EagerWorks
                      /\ case[1] = "map" /\ case[2] # "deep" => LoadWorks
                      /\ \A answer \in {FromNode, Load} :
                           answer = Err \/ DOMAIN answer[2] \in {DOMAIN self, {}}
      BY DEF LoadsAreSaved
  <2>1. self \in Maps /\ case[1] \in {"map", "plain"} /\ case = <<case[1], case[2]>>
        BY MapAssumption DEF MapTrue
  <2> PICK total \in Nat : total = total_items  BY <2>1, ShardsForItems
  <2>2. DOMAIN Ok(EmptyMap)[2] = {} /\ DOMAIN <<>> = {}  BY OkIsNotErr DEF EmptyMap
  <2>3. CASE case[1] = "plain"
    <3>1. /\ node.shards = <<>> /\ node.blob = self
          /\ node.payload_len \in Nat
          /\ total = 0 => node.payload_len = 4
          BY <2>3 DEF MapTrue
    <3>2. FromNode = IF node.payload_len < 4 THEN Ok(EmptyMap) ELSE Ok(self)
          BY <3>1 DEF FromNode
    <3>3. (total > 0 => node.payload_len >= 4) => EagerWorks
      <4> SUFFICES ASSUME total > 0 => node.payload_len >= 4 PROVE FromNode = Ok(self)
          BY DEF EagerWorks
      <4>1. CASE total = 0
        <5>1. ~(4 < 4)  OBVIOUS
        <5>. QED  BY <3>1, <3>2, <4>1, <5>1
      <4>2. CASE total > 0
        <5> PICK len \in Nat : len = node.payload_len  BY <3>1
        <5>1. len >= 4 /\ ~(len < 4)  BY <4>2
        <5>. QED  BY <3>2, <5>1
      <4>. QED  BY <4>1, <4>2
    <3>4. LoadShards(<<>>) = Err \/ DOMAIN LoadShards(<<>>)[2] = {}
      <4>1. ShardsRead(<<>>) = {}  BY <2>2 DEF ShardsRead
      <4> DEFINE read == {e \in ShardsRead(<<>>) \X (1 .. total_items) :
                            e[2] <= Len(<<>>[e[1]].entries)}
                 keyOf == [e \in read |-> <<>>[e[1]].entries[e[2]]]
                 valueOf == [e \in read |-> Decode(<<>>[e[1]], e[2])]
                 loaded == [k \in {keyOf[e] : e \in read} |->
                              valueOf[CHOOSE e \in read : keyOf[e] = k][2]]
      <4>2. LoadShards(<<>>) = IF \E e \in read : valueOf[e] = Err THEN Err ELSE Ok(loaded)
            BY DEF LoadShards
      <4>3. read = {}  BY <4>1
      <4> HIDE DEF read, keyOf, valueOf
      <4>4. DOMAIN loaded = {}  BY <4>3
      <4> HIDE DEF loaded
      <4>. QED  BY <4>2, <4>4, OkIsNotErr
    <3>5. \A answer \in {FromNode, Load} : answer = Err \/ DOMAIN answer[2] \in {DOMAIN self, {}}
          BY <2>2, <3>1, <3>2, <3>4, OkIsNotErr DEF Load
    <3>. QED  BY <2>3, <3>3, <3>5
  <2>4. CASE case[1] = "map"
    <3>1. /\ node.payload_len = 4 /\ node.first_word = NumShards /\ node.blob = <<>>
          /\ DOMAIN node.shards = 1 .. NumShards
          BY <2>4, ShardsSaved
    <3>2. ~(node.payload_len < 4)  BY <3>1
    <3>3. CASE total = 0
      <4>1. NumShards = 0 /\ DOMAIN self = {}  BY <2>1, <3>3, ShardsForItems
      <4>2. self = <<>>  BY <2>1, <3>3, EmptyMapIsNone
      <4>3. node.shards = <<>>
        <5>1. node.shards \in Seq([entries : Seq(Key), children : Seq(Key)])
              BY <2>4 DEF MapTrue, Sharding
        <5>2. Len(node.shards) = 0  BY <2>4, <4>1, ShardsSaved
        <5>. QED  BY <5>1, <5>2, EmptySeq
      <4>4. FromNode = Ok(self) /\ Load = Ok(self)
            BY <3>1, <3>2, <4>1, <4>2, <4>3 DEF FromNode, Load, EmptyMap
      <4>. QED  BY <2>4, <4>4, OkIsNotErr DEF EagerWorks, LoadWorks
    <3>4. CASE total > 0
      <4>1. node.first_word # 0 /\ node.shards # <<>>
        <5> PICK n \in Nat : n = NumShards  BY <2>1, ShardsForItems
        <5>1. n > 0  BY <2>1, <3>4, ShardsForItems
        <5>2. 1 \in 1 .. n  BY <5>1
        <5>. QED  BY <2>2, <3>1, <5>1, <5>2
      <4>2. FromNode = LoadShards(node.shards) /\ Load = LoadShards(node.shards)
            BY <3>2, <4>1 DEF FromNode, Load
      <4>. QED  BY <2>1, <2>4, <4>2, LoadsAllShards, OkIsNotErr DEF EagerWorks, LoadWorks
    <3>. QED  BY <3>3, <3>4
  <2>. QED  BY <2>1, <2>3, <2>4
<1>. QED  BY <1>1, AlwaysMapTrue, PTL
=============================================================================
