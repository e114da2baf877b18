------------------------------- MODULE SaveFile -------------------------------
(***************************************************************************)
(* ParcodeOptions::save and save_sync: create the file, let the executor    *)
(* write the chunks through a SeqWriter, append the global header, flush,  *)
(* and drop the writer on return.  The process may be killed at any time:   *)
(* what the sink took stays, what was only buffered is gone.                *)
(*                                                                         *)
(* Of the executor only what BottomUpWrite promises is used here: a chunk  *)
(* is written after its children, the executor returns Ok only when all    *)
(* are written, and it may give up at any point.                           *)
(***************************************************************************)
EXTENDS SeqWriter, ParcodeFile

CONSTANTS Chunk,        \* the chunks of the object being saved
          RootChunk,    \* the one of the root object
          Links,        \* chunk -> the chunks its footer names, in link order
          Header,       \* the block GlobalHeader::to_bytes gives
          Config,       \* chunk -> the compressor id its job asks for
          Custom,       \* ids a caller of execute_graph registered besides its own
          FallsBack     \* the executor takes NoCompression for an id it lacks

ASSUME SaveAssumption ==
  /\ Block = Chunk \cup {Header}
  /\ Header \notin Chunk
  /\ RootChunk \in Chunk
  /\ Links \in [Chunk -> Seq(Chunk)]
  /\ Config \in [Chunk -> 0 .. 255]
  /\ Custom \subseteq 0 .. 255
  /\ FallsBack \in BOOLEAN
  /\ Length[Header] = GLOBAL_HEADER_SIZE
  /\ \A c \in Chunk : Length[c] > FooterSize(Len(Links[c]))

WriterRegistry == FoldSet(LAMBDA id, r : Register(r, id), NewRegistry(TRUE), Custom)

Encodable(c) == Registered(WriterRegistry, Config[c]) \/ FallsBack

Codec(c) == IF Registered(WriterRegistry, Config[c]) THEN Config[c] ELSE 0

PayloadLength(c) == Length[c] - 1 - FooterSize(Len(Links[c]))

Payload(c) == Compressed(c, Codec(c), PayloadLength(c))

VARIABLES phase,    \* where save is, or the value it is returning
          killed    \* the process has died

vars == <<seqWriterVars, phase, killed>>

Init == SeqWriterInit /\ phase = "create" /\ killed = FALSE

Running(p) == phase = p /\ ~killed /\ ~InCall

\* File::create truncates an existing file; from here the path is `sink`.
Create ==
  /\ Running("create")
  /\ phase' \in {"execute", "no_file"}
  /\ UNCHANGED <<seqWriterVars, killed>>

WriteChunk(c) ==
  /\ Running("execute")
  /\ Encodable(c)
  /\ ToSet(Links[c]) \subseteq DOMAIN acked
  /\ WriteAll(c) \/ WriteAllPoisoned(c)
  /\ UNCHANGED <<phase, killed>>

\* The serial executor flushes before it returns.
FlushChunks ==
  /\ Running("execute")
  /\ Chunk = DOMAIN acked /\ synced = {}
  /\ Flush
  /\ UNCHANGED <<phase, killed>>

\* execute_graph returns: `?` leaves save on an error, a panic unwinds it.
ExecuteOk ==
  /\ Running("execute")
  /\ Chunk = DOMAIN acked /\ refused = {}
  /\ phase' = "header"
  /\ UNCHANGED <<seqWriterVars, killed>>

ExecuteFails ==
  /\ Running("execute")
  /\ phase' \in (IF panicked THEN {"panic"} ELSE {"err", "panic"})
  /\ UNCHANGED <<seqWriterVars, killed>>

\* The header, naming the root ref the executor returned, then the flush.
WriteHeader == Running("header") /\ WriteAll(Header) /\ UNCHANGED <<phase, killed>>

\* Mutant: Ok without the flush, which the drop will make up for.
ReturnUnflushed ==
  /\ Running("header")
  /\ Header \in DOMAIN acked
  /\ phase' = "ok"
  /\ UNCHANGED <<seqWriterVars, killed>>

FlushAll ==
  /\ Running("header")
  /\ Header \in DOMAIN acked
  /\ Flush
  /\ UNCHANGED <<phase, killed>>

Returning == {"ok", "err", "panic"}

\* The steps inside a call: a flush that is acknowledged after the header ends
\* save with Ok, a failure ends it with an error or a panic.  Inside
\* execute_graph a failed write is the executor's business.
WriterStep ==
  /\ ~killed
  /\ \/ (SinkTakesBuffer \/ BufferFlushed \/ SinkTakesBlock \/ WriteOk) /\ UNCHANGED phase
     \/ FlushOk /\ phase' = IF phase = "header" THEN "ok" ELSE phase
     \/ /\ SinkError
        /\ phase' = IF call.op = "flush" \/ phase = "header" THEN "err" ELSE phase
     \/ /\ SinkPanic
        /\ phase' = IF call.op = "flush" \/ phase = "header" THEN "panic" ELSE phase
  /\ UNCHANGED killed

\* The writer is dropped as save returns or unwinds.
DropWriter ==
  /\ phase \in Returning /\ ~killed /\ ~InCall
  /\ Drop
  /\ UNCHANGED <<phase, killed>>

Kill == /\ ~killed /\ ~Dropped
        /\ killed' = TRUE
        /\ UNCHANGED <<seqWriterVars, phase>>

Over == killed \/ phase = "no_file" \/ Dropped

Ended == Over /\ UNCHANGED vars

Next == \/ Create \/ (\E c \in Chunk : WriteChunk(c))
        \/ FlushChunks \/ ExecuteOk \/ ExecuteFails \/ WriteHeader \/ FlushAll
        \/ WriterStep \/ DropWriter \/ Kill \/ Ended

Spec == Init /\ [][Next]_vars
-----------------------------------------------------------------------------
SaveTypeOK ==
  /\ TypeOK
  /\ phase \in {"create", "execute", "header", "no_file"} \cup Returning
  /\ killed \in BOOLEAN

-----------------------------------------------------------------------------
(* What a process that opens the path finds.  The bytes of a block are those *)
(* it was encoded as: a footer, and the header, name the offsets write_all   *)
(* had returned by then.                                                    *)

RefOf(c) == [offset |-> acked[c], length |-> Length[c]]

Encode(b) ==
  IF b = Header THEN GlobalHeader(RefOf(RootChunk))
  ELSE EncodeChunk(Payload(b), [i \in DOMAIN Links[b] |-> RefOf(Links[b][i])], Codec(b))

FileBytes == LET encoded == [b \in {sink[i][1] : i \in DOMAIN sink} |-> Encode(b)]
             IN [i \in DOMAIN sink |-> encoded[sink[i][1]][sink[i][2]]]

\* Ids above 7 break the contract of Compressor::id.
Readable(c, registry) == Codec(c) <= 7 /\ Registered(registry, Codec(c))

\* The node a reader should find for a chunk.
NodeOf(c) == [offset |-> acked[c], length |-> Length[c],
              meta |-> MetaByte(Links[c] # <<>>, Codec(c)), child_count |-> Len(Links[c]),
              payload_end |-> acked[c] + PayloadLength(c)]

\* The file leads to the root chunk and from every chunk to its children, and a
\* chunk's payload is what was compressed, or an error when the reader was built
\* without its compressor.
Faithful(file) ==
  /\ RootNode(file) = Success(NodeOf(RootChunk))
  /\ \A c \in Chunk :
       /\ ChildrenOfNode(file, NodeOf(c))
            = Success([i \in DOMAIN Links[c] |-> NodeOf(Links[c][i])])
       /\ Codec(c) <= 7 =>
            ReadRaw(file, NodeOf(c))
              = IF Readable(c, file.registry) THEN Success(Payload(c)) ELSE Failed

\* Whatever failed and whenever the process died, a file that opens is a whole
\* document and reads back as it was written.  The reader may run beside the
\* save: how much it mapped or read, and the size it was told, are from two
\* moments, and the sink only grows.
OpensOnlyIfWhole ==
  LET bytes == FileBytes
  IN \A read, size \in 0 .. Len(sink), lz4_flex \in BOOLEAN :
       LET opened == Open(bytes, read, size, lz4_flex)
       IN Ok(opened) => Faithful(opened.value)

\* When save returns Ok the file opens as it is in the sink, before the writer
\* is dropped: a process killed right after loses nothing.
OkMeansReadable == phase = "ok" => Opens(FileBytes, Len(sink))
=============================================================================
