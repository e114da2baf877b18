------------------------------ MODULE MapShards ------------------------------
(***************************************************************************)
(* A HashMap in a file: one blob, or a container with a shard per bucket   *)
(* of keys; and the four ways to read it back: `load` of the object         *)
(* (from_node), `load`, `get` and `get_lazy` of the lazy map.               *)
(*                                                                         *)
(* A saved entry is a key and a value; a "deep" value also has a chunkable  *)
(* field, which is a child chunk of its shard, named here by the key.       *)
(***************************************************************************)
EXTENDS SequencesExt, Integers

CONSTANTS Key, Hash,        \* hash_key: Key -> Nat
          Maps,             \* the maps considered
          Cases,            \* <<mode, kind>>: is_map or not, sort of values
          Machines,         \* <<w, r>>: usize::MAX of the writer, the reader
          EntrySizes,       \* bytes of an entry in a blob
          ITEMS_PER_BUCKET, MAX_SHARDS,
          None

ASSUME MapAssumption ==
  /\ Hash \in [Key -> Nat]
  /\ \A m \in Maps : /\ DOMAIN m \subseteq Key /\ IsFiniteSet(DOMAIN m)
                     /\ m = [k \in DOMAIN m |-> m[k]]
  /\ Cases \subseteq {"map", "plain"} \X {"primitive", "flat", "deep"}
  /\ Machines \subseteq Nat \X Nat
  /\ EntrySizes \subseteq Nat \ {0} /\ ITEMS_PER_BUCKET \in Nat \ {0} /\ MAX_SHARDS \in Nat \ {0}

VARIABLES self, case, machine,   \* the map, how it is saved, on what machines
          todo,                  \* keys the distribution has not reached
          buckets, node, phase

vars == <<self, case, machine, todo, buckets, node, phase>>
inputs == <<self, case, machine>>

total_items == Cardinality(DOMAIN self)

\* (total_items / 2000).clamp(1, 1024), or no shard at all.
NumShards ==
  IF total_items = 0 THEN 0 ELSE Min({Max({total_items \div ITEMS_PER_BUCKET, 1}), MAX_SHARDS})

\* Mutant: buckets are numbered from 1.
ShardIdxFromOne(k, usize_max, n) == ((IF Hash[k] <= usize_max THEN Hash[k] ELSE 0) % n) + 1

\* usize::try_from(h).unwrap_or(0) % num_shards
ShardIdx(k, usize_max, n) == (IF Hash[k] <= usize_max THEN Hash[k] ELSE 0) % n

\* A chunk of a map: first_word is the payload's first four bytes as a number.
NoNode == [payload_len |-> 0, first_word |-> 0, blob |-> <<>>, shards |-> <<>>]

Init ==
  /\ self \in Maps
  /\ case \in Cases
  /\ machine \in Machines
  /\ todo = DOMAIN self
  /\ buckets = <<>>
  /\ node = NoNode
  /\ phase = "visit"

\* Without the map option: the whole map in bincode, a count and the entries.
\* The count comes first, so that the first word is not 0.
SaveBlob ==
  /\ phase = "visit" /\ case[1] = "plain" /\ total_items > 0
  /\ \E bytes \in EntrySizes :
       node' = [NoNode EXCEPT !.payload_len = 1 + total_items * bytes,
                              !.first_word = 1, !.blob = self]
  /\ phase' = "saved"
  /\ UNCHANGED <<inputs, todo, buckets>>

\* ... unless it is empty: then the container of no shards, four zero bytes,
\* which bincode takes for an empty map.
SaveEmptyBlob ==
  /\ phase = "visit" /\ case[1] = "plain" /\ total_items = 0
  /\ node' = [NoNode EXCEPT !.payload_len = 4]
  /\ phase' = "saved"
  /\ UNCHANGED <<inputs, todo, buckets>>

NewBuckets ==
  /\ phase = "visit" /\ case[1] = "map"
  /\ buckets' = [i \in 1 .. NumShards |-> <<>>]
  /\ node' = [NoNode EXCEPT !.payload_len = 4, !.first_word = NumShards]
  /\ phase' = "distribute"
  /\ UNCHANGED <<inputs, todo>>

\* Entries come in the order of the HashMap, which is any order.  One whose
\* bucket does not exist would be dropped: EXCEPT leaves the buckets alone too.
Distribute(k) ==
  /\ phase = "distribute" /\ k \in todo
  /\ todo' = todo \ {k}
  /\ LET i == ShardIdx(k, machine[1], NumShards) + 1
     IN buckets' = [buckets EXCEPT ![i] = Append(@, k)]
  /\ UNCHANGED <<inputs, node, phase>>

\* visit_inlined of the values: their chunks become children of the shard.
VisitedChildren(bucket) == IF case[2] = "deep" THEN bucket ELSE <<>>

\* The next bucket gets its node, its children and its MapShardJob.
AddShard ==
  /\ phase = "distribute" /\ todo = {} /\ Len(node.shards) < Len(buckets)
  /\ LET bucket == buckets[Len(node.shards) + 1]
     IN node' = [node EXCEPT !.shards =
                   Append(@, [entries |-> bucket, children |-> VisitedChildren(bucket)])]
  /\ UNCHANGED <<inputs, todo, buckets, phase>>

EndVisit ==
  /\ phase = "distribute" /\ todo = {} /\ Len(node.shards) = Len(buckets)
  /\ phase' = "saved"
  /\ UNCHANGED <<inputs, todo, buckets, node>>

Saved == phase = "saved" /\ UNCHANGED vars

Next == \/ SaveBlob \/ SaveEmptyBlob \/ NewBuckets \/ AddShard \/ EndVisit \/ Saved
        \/ \E k \in Key : Distribute(k)

Spec == Init /\ [][Next]_vars
-----------------------------------------------------------------------------
Ok(x) == <<"Ok", x>>
Err == <<"Err">>
Panic == <<"Panic">>
EmptyMap == <<>>

\* Reading the i-th entry whole.  Of a deep value the shard has the local
\* fields only: the decoder runs on into the next entry, or off the end.
Decode(shard, i) ==
  IF case[2] # "deep" THEN Ok(self[shard.entries[i]])
  ELSE IF i = Len(shard.entries) THEN Err ELSE Ok("bytes of the next entry")

\* Mutant: the loop is left at the first empty shard.
ShardsUntilEmpty(shards) ==
  {s \in DOMAIN shards : \A t \in 1 .. s : shards[t].entries # <<>>}

\* An empty bucket has an empty payload and is passed over.
ShardsRead(shards) == {s \in DOMAIN shards : shards[s].entries # <<>>}

\* The loop that both full loads share: every entry of every shard.
LoadShards(shards) ==
  LET read == {e \in ShardsRead(shards) \X (1 .. total_items) :
                 e[2] <= Len(shards[e[1]].entries)}
      keyOf == [e \in read |-> shards[e[1]].entries[e[2]]]
      valueOf == [e \in read |-> Decode(shards[e[1]], e[2])]
  IN IF \E e \in read : valueOf[e] = Err THEN Err
     ELSE Ok([k \in {keyOf[e] : e \in read} |->
                valueOf[CHOOSE e \in read : keyOf[e] = k][2]])

\* ParcodeNative::from_node for HashMap.
FromNode ==
  IF node.payload_len < 4 THEN Ok(EmptyMap)
  ELSE IF node.shards = <<>> THEN Ok(node.blob)
  ELSE LoadShards(node.shards)

\* ParcodeMapPromise::load.
Load ==
  IF node.payload_len < 4 \/ node.first_word = 0 THEN Ok(EmptyMap)
  ELSE LoadShards(node.shards)

\* An entry with the hash is a candidate, whose key is then read and compared.
SameHash(stored, k) == Hash[stored] = Hash[k]
SameKey(stored, k) == SameHash(stored, k) /\ stored = k

\* get and get_lazy as far as the shard: the answer that needs no shard, or
\* else what the shard answers.
InShard(k, FromShard(_)) ==
  LET idx == ShardIdx(k, machine[2], node.first_word)
  IN IF node.payload_len < 4 THEN Ok(None)
     ELSE IF node.first_word = 0 THEN Panic
     ELSE IF idx >= Len(node.shards) THEN Err
     ELSE FromShard(node.shards[idx + 1])

\* ParcodeMapPromise::get: candidates by hash are decoded in turn.
Get(k) ==
  LET FromShard(shard) ==
        LET hit == SelectInSeq(shard.entries,
              LAMBDA e : SameKey(e, k) \/ (SameHash(e, k) /\ case[2] = "deep" /\ e = Last(shard.entries)))
        IN IF hit = 0 THEN Ok(None) ELSE Decode(shard, hit)
  IN InShard(k, FromShard)

\* Children that reading one value lazily takes from the shard's iterator: the
\* primitives' implementation wants a chunk of its own for each.
ChildrenTaken == IF case[2] = "flat" THEN 0 ELSE 1

\* Mutant: the entries before the target are passed over, their children not.
TakenByNone(hit) == 0

TakenBefore(hit) == (hit - 1) * ChildrenTaken

\* ParcodeMapPromise::get_lazy: a mirror of the value, and the child it holds.
GetLazy(k) ==
  LET FromShard(shard) ==
        LET hit == SelectInSeq(shard.entries, LAMBDA e : SameKey(e, k))
            child == TakenBefore(hit) + ChildrenTaken
        IN IF hit = 0 THEN Ok(None)
           ELSE IF child > Len(shard.children) THEN Err
           ELSE Ok([value |-> self[shard.entries[hit]],
                    child |-> IF ChildrenTaken = 0 THEN None ELSE shard.children[child]])
  IN InShard(k, FromShard)
-----------------------------------------------------------------------------
\* No entry is dropped by the distribution, and a shard's node stands for the
\* bucket of the same number.
TypeOK ==
  /\ self \in Maps /\ case \in Cases /\ machine \in Machines
  /\ todo \subseteq DOMAIN self
  /\ UNION {ToSet(buckets[i]) : i \in DOMAIN buckets}
       = (IF case[1] = "map" THEN DOMAIN self \ todo ELSE {})
  /\ Len(node.shards) <= Len(buckets)
  /\ \A s \in DOMAIN node.shards :
       /\ node.shards[s].entries = buckets[s]
       /\ ToSet(node.shards[s].children) \subseteq DOMAIN self
  /\ phase \in {"visit", "distribute", "saved"}

ValueOf(k) == self[k]
MirrorOf(k) == [value |-> self[k], child |-> IF case[2] = "deep" THEN k ELSE None]

EagerWorks == FromNode = Ok(self)
LoadWorks == Load = Ok(self)
GetWorks == \A k \in Key : Get(k) = Ok(IF k \in DOMAIN self THEN self[k] ELSE None)
GetLazyWorks ==
  \A k \in Key :
    GetLazy(k) = Ok(IF k \in DOMAIN self THEN MirrorOf(k) ELSE None)

HasShards == case[1] = "map" /\ total_items > 0
SameWidth == machine[1] = machine[2]

\* "Loads an object fully into memory from a file" (api.rs:121): from_node
\* gives back the map that was saved, sharded or not and empty or not, unless
\* its shards hold values without their chunkable fields or its blob is too
\* short to hold a number of shards.  ParcodeMapPromise::load "reconstructs the
\* entire `HashMap`" (rt.rs:244) saved in shards just as well.  And no load says
\* Ok to half a map: what it returns has all the saved keys or none.
LoadsAreSaved ==
  phase = "saved" =>
    /\ case # <<"map", "deep">> /\ (total_items > 0 => node.payload_len >= 4) => EagerWorks
    /\ case[1] = "map" /\ case[2] # "deep" => LoadWorks
    /\ \A answer \in {FromNode, Load} :
         answer = Err \/ DOMAIN answer[2] \in {DOMAIN self, {}}

\* Of a key that was not saved there is nothing to say but None.
NeverWrong(answer, k, Of(_)) ==
  answer = Ok(None) \/ (k \in DOMAIN self /\ answer \in {Ok(Of(k)), Err})

\* A lookup returns the saved value of every key, and None for every other:
\* though keys collide in bucket or in hash and entries come in any order.
\* get_lazy of a deep value also returns the chunk that belongs to it, not one
\* of another entry of its shard.  Where usize is not as wide on the reader as it
\* was on the writer, this holds of the keys whose hash fits both, and no other
\* key is given a wrong value; nor is a primitive, for which get_lazy has no mirror.
LookupsFindSaved ==
  phase = "saved" /\ HasShards =>
    /\ SameWidth => /\ case[2] # "deep" => GetWorks
                    /\ case[2] # "primitive" => GetLazyWorks
    /\ \A k \in Key :
         /\ case[2] # "deep" => NeverWrong(Get(k), k, ValueOf)
         /\ NeverWrong(GetLazy(k), k, MirrorOf)
         /\ Hash[k] <= machine[1] /\ Hash[k] <= machine[2] /\ k \in DOMAIN self =>
              /\ case[2] # "deep" => Get(k) = Ok(self[k])
              /\ case[2] # "primitive" => GetLazy(k) = Ok(MirrorOf(k))

\* ".get() returns a full object" (README.md:170), of a value with chunkable
\* fields, as that Player is.
GetReturnsFullObject == phase = "saved" /\ HasShards /\ SameWidth => GetWorks

\* "This reconstructs the entire HashMap" (rt.rs:242-244), of every map that has
\* the promise for its mirror.
LoadReconstructs == phase = "saved" /\ case[2] # "deep" => LoadWorks

\* "No Panics" (lib.rs:219): no lookup panics, whatever map was saved.
LookupsDoNotPanic == phase = "saved" => \A k \in Key : Get(k) # Panic /\ GetLazy(k) # Panic
=============================================================================
