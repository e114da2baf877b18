----------------------------- MODULE ObjectRead -----------------------------
(***************************************************************************)
(* The saved object read back by its type: from_node, which loads it whole, *)
(* and the lazy mirrors, loaded in two ways.  A chunk has no type and no    *)
(* field names: the macro pairs tokens with local fields and children with  *)
(* remote fields by their order alone.                                     *)
(***************************************************************************)
EXTENDS ObjectVisit, Serde

\* node.children(): what the footer lists, in link order.
Kids(n) ==
  [i \in 1 .. atomic_deps[n] |-> CHOOSE c \in 0 .. count - 1 : parent[c] = n /\ parent_slot[c] = i]

Chunk(n) == payload[n + 1]

\* What the job of a chunk wrote, without its pieces' bounds.
Toks(n) == Concat(Chunk(n).pieces)

\* The order in which the macro's code reads fields, by their place in the type.
ReadOrder(fields) == Locals(fields) \o Remotes(fields)

\* Ok(Self { ... }): every value under the field it was read for.
Assembled(fields, values) ==
  [i \in DOMAIN fields |-> values[CHOOSE k \in DOMAIN values : ReadOrder(fields)[k] = i]]

(* Three ways through an object: "from_node" loads it whole; "load" makes its  *)
(* mirror and loads each promise in it; "explore" makes the mirror, goes       *)
(* through its vectors with iter_lazy and through its maps with get_lazy of    *)
(* every key, and so on in the mirrors these return.                          *)
RECURSIVE ReadNode(_, _, _)

\* The next child, or "Missing child".
NextChild(route, t, toks, kids) ==
  IF kids = <<>> THEN Failed
  ELSE LET child == ReadNode(route, t, Head(kids))
       IN IF child.ok THEN Read(child.value, toks, Tail(kids)) ELSE Failed

\* The macro's reading code, which from_node, read_from_shard and the mirror
\* share: the locals from the payload, then a child for each remote field.
ReadField(route, f, toks, kids) ==
  IF IsRemote(f) THEN NextChild(route, f.type, toks, kids) ELSE Decode(f.type, toks, kids)

ReadFields(route, fields, toks, kids) ==
  LET read == InTurn(LAMBDA i, rest, left : ReadField(route, fields[i], rest, left),
                     ReadOrder(fields), toks, kids)
  IN IF read.ok THEN [read EXCEPT !.value = Assembled(fields, @)] ELSE Failed

\* read_from_shard, and read_lazy_from_stream.
ReadItem(route, t, toks, kids) ==
  IF t.kind = "struct" THEN ReadFields(route, t.fields, toks, kids) ELSE Decode(t, toks, kids)

\* A shard of a vector: its length, which is to be the one in the table, and
\* its items, read in turn from its tokens and its children.
ReadShard(route, t, n, expected) ==
  LET toks == Toks(n)
  IN IF ~IsLength(toks) \/ Head(toks) # expected THEN Failed
     ELSE InTurn(LAMBDA u, rest, left : ReadItem(route, u, rest, left),
                 Repeated(t, Head(toks)), Tail(toks), Kids(n))

\* The shards of a container by its table, and their items one after another.
ReadShards(route, t, n) ==
  LET runs == Chunk(n).runs
      shards == InTurn(LAMBDA k, toks, kids :
                         IF kids = <<>> THEN Failed
                         ELSE LET shard == ReadShard(route, t, Head(kids), runs[k])
                              IN IF shard.ok THEN Read(shard.value, toks, Tail(kids)) ELSE Failed,
                       [k \in DOMAIN runs |-> k], <<>>, Kids(n))
  IN IF shards.ok THEN Read(Concat(shards.value), <<>>, <<>>) ELSE Failed

\* decode_from_slice of an entry gets all the bytes from its offset on.
FromOffset(entries, i) == Concat(Concat(SubSeq(entries, i, Len(entries))))

\* The i-th entry of a shard: its key and its value, decoded whole, or as a mirror.
EntryAt(route, t, entries, i, kids) ==
  LET toks == FromOffset(entries, i)
  IN EntryOf(toks, IF route = "explore" THEN ReadFields(route, t.fields, Tail(toks), kids)
                   ELSE Decode(t, Tail(toks), kids))

\* load decodes the entry; get_lazy reads it and every one before it, each from
\* its own offset and all from one iterator of children.
ReadEntry(route, t, entries, i, kids) ==
  LET first == IF route = "explore" THEN 1 ELSE i
      read == InTurn(LAMBDA j, toks, left : EntryAt(route, t, entries, j, left),
                     [j \in 1 .. i - first + 1 |-> j + first - 1], <<>>, kids)
  IN IF read.ok THEN Read(Last(read.value), <<>>, <<>>) ELSE Failed

\* A map's shards: every entry of every shard, from the shard's entries and children.
ReadBuckets(route, t, n) ==
  LET shards == Kids(n)
      places == Concat([s \in DOMAIN shards |->
                          [i \in DOMAIN Chunk(shards[s]).entries |-> <<shards[s], i>>]])
      all == InTurn(LAMBDA p, toks, kids : ReadEntry(route, t, Chunk(p[1]).entries, p[2], Kids(p[1])),
                    places, <<>>, <<>>)
  IN IF all.ok THEN AsMap(all) ELSE Failed

\* iter_lazy and get_lazy are for items that have a mirror; a promise of others
\* loads by from_node.
ItemRoute(route, t) == IF route = "explore" /\ t.item.kind = "struct" THEN route ELSE "from_node"

\* A primitive's payload, and a map's that from_node finds without shards, is
\* decoded whole.  (A blob too short for one is an empty map: MapShards.)
IsWhole(route, t, n) ==
  t.kind = "prim" \/ (t.kind = "map" /\ route = "from_node" /\ Kids(n) = <<>>)

\* ParcodeMapPromise::load takes the first word for the number of shards.
NoShards(route, t, n) == t.kind = "map" /\ route # "from_node" /\ Toks(n) = <<0>>

\* ParcodeNative::from_node; ParcodeLazyRef::create_lazy and what the route does
\* with the mirror.
ReadNode(route, t, n) ==
  CASE IsWhole(route, t, n) -> Decode(t, Toks(n), <<>>)
    [] NoShards(route, t, n) -> Read(<<>>, <<>>, <<>>)
    [] t.kind = "struct" -> ReadFields(route, t.fields, Toks(n), Kids(n))
    [] t.kind = "vec" -> ReadShards(ItemRoute(route, t), t.item, n)
    [] OTHER -> ReadBuckets(ItemRoute(route, t), t.item, n)
-----------------------------------------------------------------------------
\* The parts of the object that have chunks.
Chunked == {p \in PartsWithin(RootPart(object)) : ~p.whole}

\* A map in shards whose values have chunks of their own, and one in a blob.
DeepMap == \E p \in Chunked : /\ p.type.kind = "map" /\ IsMapOptimized(p.config) /\ p.value # <<>>
                              /\ p.type.item.kind = "struct" /\ Remotes(p.type.item.fields) # <<>>

BlobMap == \E p \in Chunked : p.type.kind = "map" /\ ~IsMapOptimized(p.config) /\ p.value # <<>>

\* What a route is not to be asked for.
Beyond(route) == \/ route \in {"from_node", "load"} /\ DeepMap
                 \/ route \in {"load", "explore"} /\ BlobMap

\* Whatever types are nested in whatever way, and however local and remote
\* fields take turns in them: the object that is read is the object that was
\* saved, with every child under the field it was saved for.  from_node does it
\* unless a map's shards hold values with chunks of their own; the mirrors do
\* it, promise by promise, unless there is a map without shards; and exploring
\* them does it even where load cannot.
EveryRouteLoadsBack ==
  Built => \A route \in {"from_node", "load", "explore"} :
             \/ Beyond(route)
             \/ LET read == ReadNode(route, object.type, 0)
                IN read.ok /\ read.value = object.value
=============================================================================
