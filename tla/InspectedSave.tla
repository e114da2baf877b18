----------------------------- MODULE InspectedSave -----------------------------
(***************************************************************************)
(* A saved file under the inspector.                                       *)
(***************************************************************************)
EXTENDS SaveFile, Inspector

\* A container's payload is read with the compressor the MetaByte names, which is
\* the one that made it or, since an empty payload has no bytes, as good as that.
Named(c, registry) == Registered(registry, Codec(c) % 8)
Undone(c, registry) == Named(c, registry) /\ (Codec(c) <= 7 \/ PayloadLength(c) = 0)

WrittenInfo(c, registry, children) ==
  [offset |-> acked[c], total_length |-> Length[c], payload_size |-> PayloadLength(c),
   child_count |-> Len(Links[c]), compression_algo |-> Codec(c) % 8,
   is_chunkable |-> Links[c] # <<>>,
   node_type_hint |-> IF Links[c] = <<>> THEN "Leaf/Blob"
                      ELSE IF Undone(c, registry) THEN "Container"
                      ELSE IF Named(c, registry) THEN "any" ELSE "Corrupted",
   children |-> children]

\* The report of an inspector that finds the document as it was written.
Written(registry) ==
  LET written[c \in Chunk] ==
        WrittenInfo(c, registry, [i \in DOMAIN Links[c] |-> written[Links[c][i]]])
  IN written

\* The inspector of a file that opens, which may be one still being written,
\* reports every chunk of the document as it was written, and nothing else.
InspectedAsWritten ==
  LET bytes == FileBytes
  IN \A read, size \in 0 .. Len(sink), lz4_flex \in BOOLEAN :
       LET opened == Open(bytes, read, size, lz4_flex)
       IN Ok(opened) =>
            Inspect(opened.value) = Success(Written(opened.value.registry)[RootChunk])
=============================================================================
