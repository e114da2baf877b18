----------------------------- MODULE ChunkStream -----------------------------
(***************************************************************************)
(* What the two executors share: how a node becomes a chunk, and the       *)
(* SeqWriter the chunks go to.  What a payload holds is left out; its       *)
(* length after compression is a parameter.  The writer's buffering is the *)
(* subject of SeqWriter.tla; here the BufWriter and its sink are one stream *)
(* of bytes, of which a failing write may have accepted a part.            *)
(***************************************************************************)
EXTENDS ChunkTree, Sequences

CONSTANTS UseCompression,   \* ParcodeOptions::use_compression
          Registered,       \* ids in the CompressorRegistry
          Config,           \* node -> job.config().compression_id
          PayloadLength     \* node -> bytes of its compressed payload

ASSUME EncodingAssumption ==
  /\ UseCompression \in BOOLEAN
  /\ Registered \subseteq 0 .. 255
  /\ Config \in [ChunkId -> 0 .. 255]
  /\ PayloadLength \in [ChunkId -> Nat]

VARIABLES chunk,            \* written chunks, and where their bytes landed
          current_offset,   \* WriterState::current_offset
          stream_end        \* bytes the stream really accepted

streamVars == <<chunk, current_offset, stream_end>>

Ref == [offset : Nat, length : Nat]     \* ChildRef
NoRef == [offset |-> 0, length |-> 0]   \* Option::None; no chunk is empty

ChunkRecord == [at : Nat, offset : Nat, length : Nat \ {0},
                footer : Seq(Ref), codec : Nat]

MyRef(n) == [offset |-> chunk[n].offset, length |-> chunk[n].length]

CHILD_REF_SIZE == 16

\* Payload, then the footer of a chunkable node, then the MetaByte.
ChunkLength(n, refs) ==
  PayloadLength[n] + 1 + (IF refs = <<>> THEN 0 ELSE CHILD_REF_SIZE * Len(refs) + 4)

\* The id a job asks for: 0 means "default", which is LZ4 under use_compression.
RequestedId(n) == IF UseCompression /\ Config[n] = 0 THEN 1 ELSE Config[n]

StreamInit == chunk = [n \in {} |-> <<>>] /\ current_offset = 0 /\ stream_end = 0

\* Mutant: the caller is told the offset behind the chunk.
OffsetBehind(length) == current_offset + length

ReturnedOffset(length) == current_offset

\* Mutant: the bytes of the meta byte are not counted.
AdvancedShort(length) == current_offset + length - 1

AdvancedOffset(length) == current_offset + length

\* write_all succeeds: the chunk starts where the stream really ends, the
\* caller is told current_offset.
AppendChunk(n, refs, codec) ==
  LET length == ChunkLength(n, refs)
      record == [at |-> stream_end, offset |-> ReturnedOffset(length),
                 length |-> length, footer |-> refs, codec |-> codec]
  IN /\ chunk' = [m \in DOMAIN chunk \cup {n} |-> IF m = n THEN record ELSE chunk[m]]
     /\ current_offset' = AdvancedOffset(length)
     /\ stream_end' = stream_end + length

\* write_all fails: current_offset is not advanced, though the sink may have
\* accepted all but the last byte, or nothing when flushing the buffer failed.
TearChunk(n, refs) ==
  /\ \E torn \in {0, ChunkLength(n, refs) - 1} : stream_end' = stream_end + torn
  /\ UNCHANGED <<chunk, current_offset>>

StreamTypeOK ==
  /\ DOMAIN chunk \subseteq ChunkId
  /\ chunk \in [DOMAIN chunk -> ChunkRecord]
  /\ current_offset \in Nat
  /\ stream_end \in Nat

(***************************************************************************)
(* What a reader finds by following each ref of a footer to its chunk: the *)
(* refinement mapping to BottomUpWrite.                                    *)
(***************************************************************************)
ChunkAt(ref) == IF \E c \in DOMAIN chunk : MyRef(c) = ref
                  THEN CHOOSE c \in DOMAIN chunk : MyRef(c) = ref
                  ELSE NoParent

document == [n \in DOMAIN chunk |->
               [i \in DOMAIN chunk[n].footer |-> ChunkAt(chunk[n].footer[i])]]
=============================================================================
