# Parcode in TLA+

Parcode saves an object graph as a file of *chunks*. An object is cut into a tree of nodes, each node becomes one
chunk (payload, footer, meta byte), a chunk's footer holds the offsets and lengths of its children's chunks, and a
26-byte header at the end of the file names the root's chunk. Chunks are therefore written bottom-up: a parent can
be serialised only when the refs of all its children are known.

A vector is cut into shards and a map into buckets, and both can be read back in several ways, whole or lazily.

This directory models the save pipeline from the visit of the object to the bytes in the sink, the file's layout and
how a reader finds its way through it, vectors and maps from the visit to each way of reading them, and the round trip
of an object of nested types by three routes. TLC checks the models on small instances. TLAPS proves for every instance
what holds of the task graph, the visitors that fill it, both executors, the writer, the file of a save and its
inspector, and of vectors and maps; the round trip of whole objects and liveness are model-checked only. Source paths
below are relative to the repository.

## The system

| part | state | operations | hard part |
|---|---|---|---|
| task graph (`src/graph/`) | arena of `Node`s: parent, parent_slot, atomic_deps, completed_children, job | add_node, link_parent_child, replace_job, register_child_result | four records of one link, kept in step |
| visitors (`src/visitor.rs`, `src/visitor_impls.rs`, `parcode-derive`) | the recursion's stack | visit, visit_inlined, create_job | order of nodes and of links; the placeholder of a map shard |
| parallel executor (`src/executor.rs:94-152, 258-385`) | abort flag, first error, root result, one task per node | spawn leaves, process_node, join | interleavings, failing and panicking tasks, relaxed flag |
| serial executor (`src/executor.rs:155-253`) | the loop's position | one iteration per node in reverse arena order | relies on the order in which visitors add nodes |
| chunk writer (`src/io.rs`) | mutex, BufWriter, current_offset | write_all, flush, drop | partial writes, poisoned mutex, buffered bytes |
| save path (`src/api.rs`) | the file | save, write, save_sync, write_sync | crash and error leave a partial file |
| compressor registry (`src/compression.rs`) | table of ids | register, get | executors disagree on a missing id |
| vector sharding (`src/visitor_impls.rs:112-251`, `src/reader.rs:919-1210`) | run-length table of shards | visit, decode, get, iter | boundaries, concurrent decoding into one buffer |
| map sharding (`src/visitor_impls.rs:315-425`, `src/map.rs`, `src/rt.rs:241-605`) | buckets by hash | visit, load, get, get_lazy | empty maps, word width, small payloads |
| format and reader (`src/format.rs`, `src/reader.rs`) | mapped file, header, chunk nodes | open, get_chunk, children, read_raw | layout parsed from the end |
| lazy runtime (`src/rt.rs`) | promises, cursor and child iterator | load, get, get_lazy, first, last, iter_lazy | two cursors that must advance together |
| derived readers (`parcode-derive`) | none | from_node, read_from_shard, mirrors | children and tokens are paired with fields by order alone |
| inspector (`src/inspector.rs`) | none | inspect | guesses kinds from payload lengths |

How they interact: `ParcodeOptions::write` (or `write_sync`) lets the root object's `visit` fill a `TaskGraph`,
wraps the sink in a `SeqWriter`, and hands both to `execute_graph`. The parallel executor spawns one Rayon task per
leaf; a task stores its ref in its parent's slot, drops the parent's count, and spawns the parent's task when it
dropped the last one. All tasks share one `SeqWriter` behind a mutex. When the executor has returned the root's
ref, `write` appends the header and flushes; the `BufWriter` is dropped on every way out.

What makes each part correct:

- graph: counts, slots and links always agree; the finished graph is one both executors can start from;
- executors: bottom-up, each node once, footers true and in link order, an answer that tells what happened, the
  caller never blocked, both executors interchangeable;
- writer: offsets are true until the first failure, accepted bytes stay, in order, and a flush means what it says;
- save: a file that opens is whole; Ok means it is in the sink;
- sharding, format and lazy runtime: what is loaded, by any route, is what was saved.

## Modules

```
ChunkTree --+-- TaskGraph ---------- ExecutorAgreement   (INSTANCEs both executors)
            +-- BottomUpWrite                            (abstract: what execute_graph promises)
            +-- ChunkStream --+-- ParallelExecutor
                              +-- SerialExecutor

SeqWriter ----------------------------+-- SaveFile --+-- InspectedSave
CompressorRegistry ---- ParcodeFile --+              |
                             +--------- Inspector ---+

ShardTable --+-- VecShards ---- SavedVector              (INSTANCEs ChunkIterator, CollectionPromise, ParallelStitch)
             +-- ChunkIterator
             +-- LazyIterator ---- CollectionPromise
             +-- ParallelStitch
ItemStream                                               (abstract: what an iterator promises)

ObjectTypes --+-- ObjectVisit --+-- ObjectRead           (ObjectVisit INSTANCEs TaskGraph)
              +-- Serde --------+
MapShards
```

A line is EXTENDS. For the refinements both executors INSTANCE `BottomUpWrite`, both iterators INSTANCE `ItemStream`, and
`ObjectVisit` INSTANCEs `TaskGraph`. Modules `MC*` give constants their values for TLC. The proofs are beside the modules
they are about:

```
ChunkStreamProofs --+-- ParallelExecutorProofs           (ChunkTree and ChunkStream; the executors)
                    +-- SerialExecutorProofs
ExecutorAgreementProofs                                  (TaskGraph; INSTANCEs both executors' proofs)

ObjectVisitProofs      (ObjectTypes, ObjectVisit)
SaveFileProofs         (SeqWriter, SaveFile, Inspector, InspectedSave)
SavedVectorProofs      (ShardTable, VecShards, both iterators, CollectionPromise, ParallelStitch, SavedVector)
MapShardsProofs
```

### Saving

**ChunkTree** fixes the shape all stages share: ids `0 .. N-1` in arena order, `parent` with `parent[n] < n`, the
children of a node and the slot each child has. That any visit `TaskGraph` allows builds such a tree is proved
(`FinishedGraphStarts`), and so is that the crate's visitors make such visits (`VisitorsFillGraph`).

**TaskGraph** is the arena being filled by a recursive visit (`path` is the stack of visits in progress). One action
per call: `VisitRoot`, `VisitChild` (add_node + link_parent_child, which no visitor separates), `Leave` (which for a
map shard includes replace_job).

**ChunkStream** is what the executors share: how long a node's chunk is, which compressor id it asks for, and the
writer as seen by an executor: `AppendChunk` (a successful `write_all`) and `TearChunk` (a failed one, which may
leave bytes in the stream that `current_offset` does not count). It keeps the offset handed out and the place
where the bytes really are apart, since the difference is the point of several properties.

**ParallelExecutor** gives every node a program counter. The atomic steps are those the code makes visible to other
tasks: the abort check, taking the slots, job and compression, the write under the writer's lock, the store under
the parent's lock, and the `fetch_sub` with its spawn. Local computation between two of them commutes with the other
tasks. `AbortEarly` and `Begin` are both possible once the flag is up: the load is `Relaxed`. Faults are a constant:
`"job"` (an error from serialisation or compression), `"sink"` (an I/O error), `"panic"`. `Join` is the end of
`rayon::scope` and what follows it.

**SerialExecutor** has one action per way an iteration of the loop can end; nothing runs beside it.

**BottomUpWrite** says what `execute_graph` promises, without tasks, counts, slots or offsets. Both executors refine it
(`WritesBottomUp`), with `document`, what a reader finds by following refs, as the refinement mapping.

**ExecutorAgreement** composes the stages of `write` and of `write_sync`: a visit fills a graph, `ExecuteGraph` hands the
very same counts, slots and parents to both executors, and the serial one runs before the parallel one. They share
nothing but the object, so running them in turn loses no behaviour.

**SeqWriter** opens the writer that ChunkStream takes as one stream: `BufWriter` as the code uses it (a block that
does not fit flushes first, a block as long as the buffer bypasses it, the drop flushes unless the sink panicked),
over a sink that takes any number of bytes of what it is offered. The `BufWriter` part is modelled from the standard
library's documented behaviour and marked external.

**CompressorRegistry** is the table of compressors of a build: `new`, `register`, `get`. The executor and the reader each have
one. A codec is abstracted to what only the same codec undoes: a compressed byte remembers its data and its compressor.

**ParcodeFile** is the layout and the reader: MetaByte, footer, header, `open`, `get_chunk`, `children`, `read_raw`. A byte of the file names the field it is part of, its place in it and the field's value, so that a
field read one byte off, or a footer taken for a payload, gives `Garbage` and never a plausible number.

**SaveFile** composes them with `save`: create, chunks in any bottom-up order, header, flush, drop, and a process killed
between any two steps. The chunks have the bytes `ParcodeFile` gives them, with the offsets `write_all` had returned. A
reader may open the path at any moment, and takes what is there and the file's size one after the other.

**Inspector** is the inspector's walk over an open file. The code's recursion ends because a save's chunks refer to earlier
chunks only; here it is told how many levels it may go down (`Levels`), as many as the file has bytes, and fails beyond.
**InspectedSave** is its report on a file that `save` left, beside what was written.

### Vectors

**ShardTable** is the run-length table of a vector's container as data: expanding it to jobs, and resolving an index.

**VecShards** is `Vec::visit`: items per shard from the average item size and the number of cores, `chunks()`, and the loop
that counts equal slices into runs (`Slice`, `CountShard` once per slice, `PushLastRun`).

**ChunkIterator** is `ChunkNode::iter` and **LazyIterator** is `ParcodeLazyIterator`; an action is one call of `next()`, in
one of its ways to end. An item is its place in the vector, so that an item skipped, repeated or paired with another
item's chunks is visible. **ItemStream** is what either promises; the constant `Resumes` tells whether the iterator goes on after
an error, which the streaming one does not and the lazy one does.

**CollectionPromise** is the lazy mirror of a vector: `len`, `get`, `get_lazy`, `first` and `last`, operators over the file, beside
the lazy iterator that it extends.

**SavedVector** composes the modules of this section: a visit makes a container; then a client loads it in parallel, or
chunks become unreadable (the container, shards, chunks of items), both iterators walk through it side by side and every
index may be asked for.

**ParallelStitch** is `decode_parallel_collection`: one task per shard writes its items one at a time into its region
of one uninitialised buffer. The file may be damaged in what the code checks (item total, number of children, a shard's
length prefix, an item), and an item's decoder may panic. The cfg-selected loop that was compiled in is a constant.

### Maps

**MapShards** is a `HashMap` saved with the map option (`NewBuckets`, `Distribute` one entry at a time in any order,
`AddShard`, `EndVisit`) or as one blob (`SaveBlob`, `SaveEmptyBlob`). The four reads change nothing, so they are operators
over the saved node: `FromNode`, `Load`, `Get`, `GetLazy`. Their results are `Ok`, `Err` or `Panic`. Values are of three
kinds: primitive, structures without chunkable fields ("flat"), and structures with one ("deep"), whose chunk is a child
of the shard.

### Objects

**ObjectTypes** has the types an object is built from (primitives, structures, vectors, maps, and fields with their
`#[parcode]` attributes), and the parts of an object as the visitors meet them, each with the configuration it is stored
with. `MaxNesting` bounds how deep an object's parts are nested; it is a constant, since a program has finitely many types and
none of a value that is finite goes on for ever.

**Serde** is what serde and bincode make of a value: a sequence of tokens without names and types. A reader that asks for
another type at some place gets another value or an error. To the visitors it is a parameter (`Whole`), as `T: Serialize`
is in the code.

**ObjectVisit** is `visit`, `visit_inlined` and `serialize_shallow` of the crate's types and of derived ones, with the job and
the configuration each node gets. The recursion is a stack of frames: a frame is a visit in progress, with the calls it has
still to make and what it does after the last, which for a map's shard is to replace the placeholder. Its steps refine
`TaskGraph` (`FillsGraph`), whose stack of visits is the nodes of the frames; what `TaskGraph` allows any visitor to do is so
shown to be what these do. Primitives are numbers from `FirstId` on, lengths and keys are below, and no visitor looks at a
primitive (`PrimitivesAssumption`): so each can be followed to the chunk it ends up in (`CompressedAsDeclared`).

**ObjectRead** reads the saved nodes back by type: `from_node`; the mirror with `load` of each promise; and the mirror with
`iter_lazy` and `get_lazy` all the way down. Tokens and children are taken in the order the code takes them. The three share
one recursive operator, `ReadNode`, which is told the route.

### Mutants

Names such as `SpawnsParentAny` or `ShardIdxFromOne` are marked `Mutant:` in the modules. They are plausible bugs, used
to show that each property can fail; no specification uses them.

## What the runs check

| run | instance | distinct states | what it shows |
|---|---|---|---|
| parallel_faults | every tree of 5 nodes, all faults | 86 278 | order, refs, footers, the answer, the join, refinement of `BottomUpWrite` |
| serial_faults | every tree of 6 nodes, all faults, LZ4 missing | 3 792 | children ready, whole and true, the same refinement |
| executors_agree | visits of up to 5 nodes, both executors on the graphs of 5, LZ4 present | 16 074 | the graph is one to start from; `write` and `write_sync` are interchangeable |
| executors_disagree | the same, LZ4 missing | | violated: see below |
| save_file | 5 chunks, 4 compressors, buffer of 6, sink faults, kills, a reader at any moment | 5 950 | offsets, order, flush; a file that opens is whole, every chunk reads back and is reported as it was written |
| object_roundtrip | 6 828 types: every sequence of 3 of 18 fields, and pairs nested in vectors, maps and structures | 180 071 | the arena is filled as `TaskGraph` says; attributes reach their bytes; three routes give back the object |
| saved_vector | 0-8 items of 1-5 bytes, 1-2 cores; up to 2 unreadable chunks, or a parallel load with all damage | 72 516 | writer's table against every reader; both iterators keep `ItemStream`; disjoint writes, nothing uninitialised is returned |
| parallel_stitch_wasm | no loop compiled in | | violated: see below |
| map_reads | every map over 6 keys, 2 modes, 3 kinds of values, 3 machine pairs, 2 entry sizes | 38 430 | each read returns what was saved, where it can |
| map_deep_get | map option, values with a chunk of their own | | violated: see below |
| map_load_plain | no map option | | violated: see below |
| map_empty_lookup | map option, flat values | | violated: see below |

### The bounds and why they are enough

- *Trees.* Five nodes include a chain of five, a root with four leaves, and every mix, such as two inner nodes with
  siblings that finish in either order. The executor's decisions involve a node, its siblings and its parent, and the
  proofs confirm that nothing depends on the number. Payload lengths 0 and 1 suffice, since a chunk has at least its meta
  byte and only sums of lengths occur. `TearChunk` takes the two extremes: nothing accepted, or all but the last byte.
- *Writer and file.* With a buffer of 6 the chunks are 2, 3, 3, 6 and 7 bytes long: 3 and 3 fill the buffer exactly, 2, 3
  and 3 do not fit, one bypasses it because it is as long and one because it is longer; the header of 3 stays in it. The
  real 16 MB matters only through these comparisons. A ref has 2 bytes and a count 1, so that every field can be cut or
  misplaced. Compressor ids are none, LZ4, the caller's 5, the caller's 9, which three bits cannot name, and an
  unregistered 6. The reader may have found any prefix of the bytes, be told any size up to what is there, and be built
  with LZ4 or without.
- *Objects.* The 18 fields are a local, an ignored attribute, chunks of each kind, vectors and maps in both forms, empty
  ones, and structures that have chunks of their own before and after their locals. Three fields in a row give every
  order of locals and children; pairs are also nested in a structure, in the items of a vector of two shards and in the
  values of a map. Vectors are cut at two items, maps have two buckets. `N = 130` is room enough: a visit that lacked
  room would stop and TLC would report the deadlock.
- *Vectors.* With a target of 4 bytes, a minimum of 3 and items of 1 to 5, the count comes from the target, from the number
  of cores or from the minimum, and items may be larger than the target. Eight items on two cores give up to eight
  shards, with and without a shorter last one. `TASKS_PER_CORE` stands for the code's 4 and is 2. Two unreadable chunks may
  be neighbours, in one shard or apart. Two fields tell the two ways to pair children with items apart. Vectors of more
  than three shards or five items (`MaxLoaded`, `MaxLoadedItems`) are not loaded in parallel.
- *Stitching.* No shard, one, two or three, alike or with a shorter last one. A number read from a damaged file is off by
  one either way: the checks are comparisons with an exact value.
- *Maps.* Two items per bucket and two shards (2000 and 1024 in the code) with six keys give one shard and two, fewer
  items than the cap wants and more, and an empty bucket. Keys 2 and 3 have the same hash, others share a bucket only,
  and key 4's hash fits the wide machine but not the narrow one. An entry of two or three bytes (`EntrySizes`) makes a
  blob of one entry three or four bytes long: both sides of the reader's limit of four.

### Fairness

- `ParallelExecutor`: `WF(Task(n))` for every node and `WF(Join)`. Rayon runs every spawned job to its end before `scope`
  returns, and no task blocks on another (locks are held for bounded sections and released on panic), so a task that
  can step does. `Termination` uses it: the call returns, with Ok unless a task failed or panicked.
- `SavedVector`: `WF(Decode)`, for the same reason, and `WF(Iterate)`, a client that goes on calling `next()` after errors
  too, which is how the promise that the lazy iterator ends can matter at all. `ReadsEnd` uses both. The streaming iterator
  makes no such promise: it returns the same error for ever, so a caller that ignores errors never sees its end.
- Everything else is safety only.

`CHECK_DEADLOCK` is left on everywhere: the ends of the program are explicit stuttering actions (`Returned`, `Ended`,
`Saved`, `HandedOver`, `Loaded`), so a task waiting for nothing would be reported.

### What the models assume

- No payload happens to end in 26 bytes that are a header with the magic number and version.
- Compressor ids above 7 break the contract of `Compressor::id` (`src/compression.rs:22-28`). `register` accepts them all the same
  (`:170-181`), the meta byte keeps three bits of them (`src/format.rs:128`), and such a chunk cannot be read back.
  `OpensOnlyIfWhole` does not ask that it can, but that its neighbours are unharmed. A compressor of the caller's is
  never readable: the reader makes a registry of its own (`src/reader.rs:716`), and says so with an error. A byte of a payload
  remembers its compressor; an empty payload has none to do so and counts as read back by any (`Undone`; the proof of
  `InspectorReportsDocument` showed that this case is one of its own).
- In `ObjectRead` bytes read as another type are told by their values: a length is below `FirstId`, a primitive is not.

### Where the code and its documentation differ

Found by a run that is expected to fail:

- *executors_disagree*: for an id that is not registered `execute_graph_serial` falls back to no compression
  (`src/executor.rs:202-205`), `process_node` fails (`src/executor.rs:317-323`). Built without `lz4_flex`, a builder
  with `compression(true)` saves with `write_sync` and fails with `write`, although `src/api.rs:459` calls the two
  equivalent and `src/api.rs:250` promises a pass-through.
- *parallel_stitch_wasm*: the parallel loop is compiled under `all(feature = "parallel", not(target_arch = "wasm32"))`
  (`src/reader.rs:994`), the plain one under `not(feature = "parallel")` (`:1009`). On wasm32 with the default feature there
  is neither, and the buffer is returned with all its items uninitialised.
- *map_deep_get*: `get` decodes a full value from a shard (`src/rt.rs:407`), which holds only its local fields
  (`src/map.rs:106-111`). For a value with a chunkable field it fails, or takes the next entry's bytes for that field;
  `README.md:170` says that `.get()` returns a full object.
- *map_load_plain*: a `HashMap` field saved without the map option has the same lazy mirror; its `load`
  (`src/rt.rs:250`) takes the blob's first four bytes for a number of shards and returns Ok with an empty map, where
  `src/rt.rs:242-244` says it reconstructs the entire map.
- *map_empty_lookup*: an empty map has no shards and a lookup takes the hash modulo that number (`src/rt.rs:351`, `:468`);
  `src/lib.rs:219` says that nothing panics.

Met while modelling and proving, with no run of their own:

- Of a container whose compressor is not the one its meta byte names the inspector does not say "Corrupted" unless that other one
  refuses the payload (`src/inspector.rs:116-119`): it gives whatever hint the bytes suggest. `InspectedAsWritten` says of which
  containers the hint can be relied on.
- `src/visitor_impls.rs:164-167` lifts a shard to the minimum size by a quotient rounded down, so that a shard can lack
  up to one item to the minimum that `:7-8` states. `ShardsWellSized` says exactly how much, and that the other half of that
  comment, a shard for every core, does hold.
- A blob shorter than four bytes is loaded as an empty map (`src/reader.rs:535`). A map with a single entry of bytes
  is three bytes long in the variable-length encoding. `LoadsAreSaved` has this as its one condition on a blob.
- A map written where `usize` is 64 bits wide and read where it is 32 (or the other way round) puts hashes that do not fit
  into bucket 0 on one side only (`src/visitor_impls.rs:374`, `src/rt.rs:351`), and such keys are not found. `LookupsFindSaved`
  states what remains: keys whose hash fits both are found, and no key gets a wrong value.
- `get_lazy` of a primitive value always fails: the lazy read wants a chunk (`src/rt.rs:742-750`) that an inlined primitive
  does not have, and so do `get_lazy`, `first` and `iter_lazy` of a vector of primitives. `LookupsFindSaved` says that a map's
  lookup gives no wrong value either; `ObjectRead` goes lazily only through what has mirrors.
- A container that cannot be read has `len()` 0 (`src/reader.rs:1066-1074`), so `first` and `last` answer `Ok(None)` as for an
  empty collection (`src/rt.rs:191-207`). `iter_lazy` takes the same 0 for its length, but finds the shards through the footer,
  which needs no payload, and hands out their items: its `len()` and `size_hint` then underflow (`src/rt.rs:716-728`).
  `RemainingLenCovers` excludes this.
- `README.md:87` has `compression = 'lz4_flex'`, where the macro takes `"lz4"`, `"zstd"` and `"none"` only
  (`parcode-derive/src/lib.rs:104-108`); id 2, which `"zstd"` stands for, is registered nowhere.
- A `compression` attribute has no effect on a field that is neither `chunkable` nor `map`, nor have any attributes inside
  a structure that is itself local, or in a vector or map written whole. An empty map without the map option drops its
  configuration (`src/visitor_impls.rs:331-335`). `compression = "none"` cannot opt out of a builder's compression, since id
  0 stands for "not said" (`src/executor.rs:193-199`). `CompressedAsDeclared` states what does reach the bytes.
- The visitor of `&T` forwards `visit` and `create_job` only (`src/visitor_impls.rs:441-460`): in a shard a `&T` has the
  trait's default, which writes it whole and visits nothing.
- After an item whose first chunkable field cannot be read, the lazy iterator goes on with that item's other children
  still in its iterator (`src/rt.rs:704-706`): later items of the same shard get chunks of other items. `MirrorsOwnChunks` states
  exactly how far this reaches.
- `len()` of the lazy iterator goes on counting the items of a shard that was given up. `RemainingLenCovers` shows that
  it never promises too little and does not underflow.
- After a failed write that the sink took in part, `write_all` returns offsets at which the chunks do not begin
  (`src/io.rs:78-86` against `:69`). `OkMeansRefsReal` shows, and the proof confirms, that no such offset is part of a
  save that returns Ok. `OffsetsTrue` is stated up to the first failure.

## What is proved

Every safety property that a passing run checks is a theorem too, but for `EveryRouteLoadsBack`, and for `Equivalent` with an
unregistered compressor, where it is false. The theorems hold for every value of the constants: every tree, object,
document, vector and map, every length and size of buffer, every set of faults, unreadable chunks, compressors and
machines, and every interleaving.

The assumptions are the ones named in the modules, and TLC evaluates them in every run. They say that sizes and lengths
are natural numbers, positive where the code has a positive constant, that compressor ids are bytes, that faults are
among the kinds modelled, that a chunk is longer than its footer and meta byte, that a map is a finite function on keys, that
an object's value has the form its type asks for (`Fits`) and its primitives can be told apart, and that names used as tags
(`"none"`, `"flush"`, `"drop"`) are no blocks. `MaxLen`, `MaxLoaded` and the like bound TLC's instances and
may be any number in the proofs. Two theorems have a hypothesis of their own: `ExecutorsAgree` and `OkIsLoaded`, both below.

### The graph and the executors

`ExecutorAgreementProofs`, the visit. `LinksConsistent` is inductive only together with `GraphInv`: nodes from `count` on are
untouched, every node below it comes after its parent, and a node being visited or with a placeholder job is on the stack.
Linking a child then adds the greatest element to its parent's children (`LinkedChildren`), so that nobody else's slot
moves. When the stack is empty no placeholder is left. That is `FinishedGraphStarts`: the graph of any finished visit is an
initial state of both executors, which discharges what their theorems assume of the tree.

`ParallelExecutorProofs`. An inductive invariant in three layers, each inductive relative to the ones before it:

1. `IInv1`, order and counts. A node's `atomic_deps` is the number of its children that are not done, a node is
   spawned exactly if it is a leaf or all its children are done, and a node's slots are still there until it takes
   them. This gives `BottomUpOrder`. The typed properties need it because `fetch_sub` on an unconstrained count
   could leave `Nat`, and it needs the tree lemmas: slots of siblings are distinct and fill `1 .. #children`
   (`ParentSlotInjective`, `ParentSlotOnto`).
2. `IInv2`, refs. A slot of a parent holds the ref of the child that registered there and is empty before; the refs
   a task took are its children's in link order; chunks are exactly the nodes past their write, and their extents lie
   below `current_offset` without overlap. This gives footers, disjointness and no internal error.
3. `IInv3`, errors. A failed or panicked task is recorded (flag and captured error), offsets and stream agree as long
   as nothing failed, an unfinished node has an unfinished root, and the outcome is what `Join` decided from that. Since
   `Join` waits for all tasks, a captured error is seen however late the relaxed flag was. This gives the Ok properties.

The refinement of `BottomUpWrite` then needs only that distinct chunks have distinct refs (so that following a footer leads
back to the children) and that a chunk's children were written before it. `ChunkStreamProofs` has what both executors do to
the stream, and proves the facts about slots from cardinalities: the rank of a child among its siblings is injective by
strict monotonicity and onto by counting.

`SerialExecutorProofs`. The position `left` says everything: the chunks written are the nodes from `left` on, and a slot of a
node below it is filled exactly when its child is written. A child comes after its parent, so that the slots of the node
whose turn it is are full: `SerialChildrenReady`.

`ExecutorsAgree` is composed from both: each executor that returns Ok has delivered the same tree with the same total
length (`OkDelivers`), and neither can fail while every compressor asked for is registered (`NothingFails`; the module runs
the executors without faults). That hypothesis, `AllRegistered`, is what the run *executors_disagree* refutes `Equivalent`
without, and it is satisfied in *executors_agree*.

### The writer and the file

`SaveFileProofs`. The writer's theorems are about `SeqWriterSpec`, whoever calls it: `IInv` says how much of the block being
written is already the end of the stream (`Stored`, `EndsWith`), what is still to come (`GoesOn`), that the block bypasses
the buffer only when that is empty, and that `current_offset` lags behind the stream only by what refused blocks left.
`SyncedInSink` is stated there: what was acknowledged before a flush is in the sink for good. `SaveUsesWriter` shows that a
step of `save` is a step of the writer or none, so all of this carries over (`SaveWritesInOrder`).

`SaveInv` adds what makes a file trustworthy: a header is reached only when every chunk is acknowledged and none refused
(`HeaderAfterChunks`), each chunk is then where its ref says (`ChunksInPlace`), and a byte of a header has the whole
document before it (`HeaderAboveChunks`). `OpenedFilesAreWhole` follows byte by byte: no byte of a chunk can pass for one of a
header (`ChunkBytes`), so what `open` found at the end is a byte of the header, hence everything before it is in place, and the
reader's arithmetic undoes the writer's: last byte, count, table entry, payload (`ChunkFound`, `ChildFound`, `PayloadFound`).
A reader beside the save, which sees some prefix and another size, is covered. `SavedFilesOpen` is the converse for a save
that returned Ok.

`Faithful`, the conclusion, is about each chunk and its direct children. `InspectorReportsDocument` goes all the way down: the
inspector's report is the whole document. What it adds to `SaveInv` is that children lie below their parents in the file
(`ChildrenBelow`), so that the levels the inspector has left, counted from a chunk's own offset, are enough for everything
under it, and an induction over the levels (`NodeInspected`) gives each node the report of the chunk it was written for.

### Vectors

`SavedVectorProofs` is about one saved vector and everything that reads it, with an invariant for each:

- `VisitTrue`: the slices are full but for the last, and the counting loop's runs are a function of them (`LastDiffers`). From
  it `TableTrue`, the lemma the rest stands on: read as a table, the runs give shard `k` the `k`-th slice and its place, and
  each index its shard. It gives `TableAlwaysMatches` and, with arithmetic on rounded quotients, `ShardsAlwaysWellSized`.
- `LoadTrue`: what a task has written is in its place and within its shard, in whatever order the tasks go, and a damaged
  file is refused before a task writes beyond. `OkIsLoaded` assumes a build that has a decoding loop: `"neither"` is the run
  *parallel_stitch_wasm*.
- `EagerTrue`: items held, items given and the next shard always add up to the items of the shards so far, and an error that
  was returned has not gone away. `IterRefines` needs the second part, or the iterator could go on after an error.
- `LazyTrue`: the same for the lazy iterator, where items given up count too, and the children left of a shard are those
  of the items left unless an earlier item of it was unreadable. It gives `LazyRefines`, `MirrorsStayWhole`, `LenAlwaysCovers` and
  `PromiseIsTrue`.

### Maps

`MapShardsProofs`. `MapTrue`: each bucket holds exactly those of the keys placed so far whose hash leads there, each once, and
the shards made are the first buckets. A load is then the union of buckets, and a lookup that goes to the shard of a key's
hash finds it or proves it absent (`LookupsFind`, with the conditions the code has: `LookupsFindSaved` names them).

### Objects

`ObjectVisitProofs` is about any object, whatever types are nested in it.

- `StackInv` says what the stack is: every call is for a part of the object, the frames' nodes are in the order they were
  added, the calls of a frame are all for its own node, and a frame still has a job to replace exactly if its node has a
  placeholder. `VisitorsFillGraph` follows: a call of the top frame is `TaskGraph`'s `VisitChild`, its end is `Leave`, and every other
  step is one that `TaskGraph` does not see.
- `StoredInv` follows the primitives: each is stored in exactly one chunk or owed by exactly one thing still to be done (a call,
  or the job that will replace a placeholder), and in either case with the configuration declared for it. A step divides
  what one call owes between a new node and the calls it makes: a structure into local and remote fields, a collection into
  slices or buckets, a shard into what its items write and what they visit. When the stack is empty nothing is owed, which
  is `VisitorsCompressAsDeclared`.

### Induction

The library's induction rules take operators as parameters, which the provers here cannot instantiate. Induction over
natural numbers is told with a set instead: one that has 0 and the successor of each member is `Nat` (`AllNumbers`, from the
well-foundedness of `<`). This is enough for the recursive functions of `ShardTable`, for the totals and given-up items, for the
levels of an object's parts and of the inspector, and for the `FlattenSeq` of a footer. It is not for RECURSIVE operators, which the provers do not accept in a module at all.

### Only model-checked

- `Termination` and `ReadsEnd`: liveness under fairness, which is beyond the prover;
- `EveryRouteLoadsBack`: Serde's reader and writer and the readers of `ObjectRead` call each other recursively, as the code's
  do, and are RECURSIVE operators here.

## What is left out, and why

- payload contents, serde and bincode, and the LZ4 codec: dependencies, no control of the crate's own. Sampling an item's size
  (`src/visitor_impls.rs`) is an input of `VecShards`;
- `SeqWriter::into_inner`: nothing calls it;
- visitors written by users: the tree assumption is shown for the crate's visitors and the derive macro's pattern;
- arenas of 2^32 nodes (ids saturate) and allocation failure;
- containers whose payload is shorter than its own fields, or whose count and table disagree, in the iterators: no save makes
  them. `ParallelStitch` has the damaged counts;
- byte offsets within a map shard's payload: an entry is its number in the shard;
- a memory-mapped file that is truncated and rewritten while it is read. One that grows is in `SaveFile`;
- the kind the inspector guesses for a container from its payload, and `from_bytes`, which is `open` of bytes that do not change;
- enums and tuple structures, and the visitor of references;
- the error types and the crate facade: no state and no protocol.

## Plan

In order of weight; each step names what it adds to which module.

1. `ArbitraryVisitors`: visitors that add several roots, or a child before its parent, against both executors.
2. `Inspector`: the kinds it guesses from payload lengths, against the nodes `ObjectVisit` makes.
3. Proofs: Serde and the readers of `ObjectRead` as functions of the levels left, as the inspector has them, to prove
   `EveryRouteLoadsBack`: first that decoding undoes encoding, then what each part's nodes hold when the visits are over.
