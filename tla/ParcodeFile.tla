------------------------------ MODULE ParcodeFile ------------------------------
(***************************************************************************)
(* The V4 file as ParcodeFile reads it: from the header at its end to the  *)
(* root chunk, from a chunk's last byte back to its footer, from the footer *)
(* to the children.  Field sizes are constants; a byte says which byte of   *)
(* which field it is and what the field holds, so a field read at a wrong   *)
(* place shows as Garbage and never as a plausible number.                 *)
(***************************************************************************)
EXTENDS CompressorRegistry, SequencesExt

CONSTANTS GLOBAL_HEADER_SIZE, CHILD_REF_SIZE, COUNT_SIZE

ASSUME FormatAssumption ==
  {GLOBAL_HEADER_SIZE, CHILD_REF_SIZE, COUNT_SIZE} \subseteq Nat \ {0}

\* to_bytes of a number, a ref, a header.
Field(kind, size, value) == [j \in 1 .. size |-> <<kind, j, value>>]

\* from_le_bytes of what is found there.
IsField(bytes, kind, size) ==
  /\ Len(bytes) = size
  /\ \A j \in 1 .. size : bytes[j][1] = kind /\ bytes[j][2] = j /\ bytes[j][3] = bytes[1][3]

\* source.get(start..end); a range that leaves the source gives None.
Within(source, start, end) == start <= end /\ end <= Len(source)
Get(source, start, end) == SubSeq(source, start + 1, end)

-----------------------------------------------------------------------------
(* MetaByte: bit 0 says whether there is a footer, bits 1-3 name the compressor. *)

\* Mutant: two bits for the compressor.
NarrowMetaByte(is_chunkable, id) == (id % 4) * 2 + (IF is_chunkable THEN 1 ELSE 0)

MetaByte(is_chunkable, id) == (id % 8) * 2 + (IF is_chunkable THEN 1 ELSE 0)

IsChunkable(meta) == meta % 2 = 1
CompressionMethod(meta) == (meta \div 2) % 8

\* A node's bytes: the compressed payload, the table of children with its
\* count if there are any, the MetaByte.
FooterSize(count) == IF count = 0 THEN 0 ELSE CHILD_REF_SIZE * count + COUNT_SIZE

Footer(refs) == IF refs = <<>> THEN <<>>
                ELSE FlattenSeq([i \in DOMAIN refs |-> Field("ref", CHILD_REF_SIZE, refs[i])])
                     \o Field("count", COUNT_SIZE, Len(refs))

EncodeChunk(payload, refs, id) ==
  payload \o Footer(refs) \o Field("meta", 1, MetaByte(refs # <<>>, id))

GlobalHeader(root_ref) == Field("header", GLOBAL_HEADER_SIZE, [version |-> 4, root |-> root_ref])

-----------------------------------------------------------------------------
(* Opening.  `source` is what was mapped or read, `file_size` what the file *)
(* system said: the two are taken one after the other.                     *)

HeaderStart(source, file_size) == file_size - GLOBAL_HEADER_SIZE

HeaderBytes(source, file_size) ==
  LET start == HeaderStart(source, file_size) IN Get(source, start, start + GLOBAL_HEADER_SIZE)

\* init succeeds: magic, version and all fields of a header are there.
Opens(source, file_size) ==
  /\ file_size >= GLOBAL_HEADER_SIZE
  /\ LET start == HeaderStart(source, file_size)
     IN Within(source, start, start + GLOBAL_HEADER_SIZE)
  /\ IsField(HeaderBytes(source, file_size), "header", GLOBAL_HEADER_SIZE)
  /\ HeaderBytes(source, file_size)[1][3].version = 4

ParcodeFile(source, file_size, lz4_flex) ==
  [source |-> source, file_size |-> file_size, registry |-> NewRegistry(lz4_flex),
   root |-> HeaderBytes(source, file_size)[1][3].root]

\* open finds the first `read` bytes of what is being written there and is told
\* a size: of a memory map the bytes come first, without one the size does.
Open(bytes, read, file_size, lz4_flex) ==
  LET source == SubSeq(bytes, 1, read)
  IN IF Opens(source, file_size) THEN Success(ParcodeFile(source, file_size, lz4_flex))
     ELSE Failed

-----------------------------------------------------------------------------
(* Chunk nodes.  A result is Failed (an Err), Success(..) or Garbage.       *)

TotalMetaSize(count) == 1 + COUNT_SIZE + CHILD_REF_SIZE * count

Node(ref, meta, count, payload_end) ==
  Success([offset |-> ref.offset, length |-> ref.length, meta |-> meta,
           child_count |-> count, payload_end |-> payload_end])

\* get_chunk, once the MetaByte said that there is a footer.
GetChunkWithFooter(file, ref, meta) ==
  LET chunk_end == ref.offset + ref.length
      count_start == chunk_end - 1 - COUNT_SIZE
      bytes == Get(file.source, count_start, count_start + COUNT_SIZE)
      count == bytes[1][3]
  IN IF ref.length < 1 + COUNT_SIZE THEN Failed
     ELSE IF ~IsField(bytes, "count", COUNT_SIZE) THEN Garbage
     ELSE IF ref.length < TotalMetaSize(count) THEN Failed
     ELSE Node(ref, meta, count, chunk_end - TotalMetaSize(count))

GetChunk(file, ref) ==
  LET chunk_end == ref.offset + ref.length
      last == Get(file.source, chunk_end - 1, chunk_end)
  IN IF chunk_end > file.file_size \/ ~Within(file.source, chunk_end - 1, chunk_end) THEN Failed
     ELSE IF ~IsField(last, "meta", 1) THEN Garbage
     ELSE IF IsChunkable(last[1][3]) THEN GetChunkWithFooter(file, ref, last[1][3])
     ELSE Node(ref, last[1][3], 0, chunk_end - 1)

RootNode(file) == GetChunk(file, file.root)

\* read_raw: the bytes up to the footer, through the compressor of the MetaByte.
ReadRaw(file, node) ==
  IF ~Within(file.source, node.offset, node.payload_end) THEN Failed
  ELSE Decompress(file.registry, CompressionMethod(node.meta),
                  Get(file.source, node.offset, node.payload_end))

\* get_child_by_index; indices count from 0.
GetChildByIndex(file, node, index) ==
  LET entry_start == node.payload_end + index * CHILD_REF_SIZE
      bytes == Get(file.source, entry_start, entry_start + CHILD_REF_SIZE)
  IN IF index >= node.child_count \/ ~Within(file.source, entry_start, entry_start + CHILD_REF_SIZE)
       THEN Failed
     ELSE IF ~IsField(bytes, "ref", CHILD_REF_SIZE) THEN Garbage
     ELSE GetChunk(file, bytes[1][3])

\* collecting results: all the values, or the first that is none.
AllOrFirstBad(results) ==
  LET bad == {i \in DOMAIN results : ~Ok(results[i])}
  IN IF bad = {} THEN Success([i \in DOMAIN results |-> results[i].value])
     ELSE results[CHOOSE i \in bad : \A j \in bad : i <= j]

\* children: a node for every entry of the footer.
ChildrenOfNode(file, node) ==
  LET results == [i \in 1 .. node.child_count |-> GetChildByIndex(file, node, i - 1)]
  IN AllOrFirstBad(results)

=============================================================================
