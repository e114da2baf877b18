------------------------------- MODULE Inspector -------------------------------
(***************************************************************************)
(* ParcodeInspector: it walks the nodes of an open file from the root and   *)
(* reports what it finds of each.  How it names a container from its        *)
(* payload is left out.                                                    *)
(***************************************************************************)
EXTENDS ParcodeFile

\* By how its payload was read.  One read with another codec than it was written
\* with may fail or be bytes nobody saved, of which any hint may be given.
ContainerHint == [ok |-> "Container", err |-> "Corrupted", garbage |-> "any"]

TypeHint(file, node) == IF node.child_count = 0 THEN "Leaf/Blob"
                        ELSE ContainerHint[ReadRaw(file, node).status]

\* Mutant: the footer counts as payload.
PayloadToMeta(node) == node.length - 1

PayloadLen(node) == node.payload_end - node.offset

ChunkInfo(file, node, children) ==
  [offset |-> node.offset, total_length |-> node.length,
   payload_size |-> PayloadLen(node), child_count |-> node.child_count,
   compression_algo |-> CompressionMethod(node.meta), is_chunkable |-> IsChunkable(node.meta),
   node_type_hint |-> TypeHint(file, node), children |-> children]

\* A node that get_chunk returned lies within the file, and so does its footer.
Nodes(file) ==
  LET place == 0 .. Len(file.source)
  IN [offset : place, length : place, meta : 0 .. 255, child_count : place, payload_end : place]

\* inspect_node; `inspected` is what the calls for the children return.
InspectNode(file, node, inspected) ==
  LET nodes == ChildrenOfNode(file, node)
      below == AllOrFirstBad([i \in DOMAIN nodes.value |-> inspected[nodes.value[i]]])
  IN IF ~Ok(nodes) THEN nodes
     ELSE IF ~Ok(below) THEN below
     ELSE Success(ChunkInfo(file, node, below.value))

\* The recursion, by the levels it may still go down.  A file whose chunks refer
\* to themselves would use up any number, and the code's stack.
Levels(file) ==
  LET level[d \in 0 .. Len(file.source)] ==
        [node \in Nodes(file) |-> IF d = 0 THEN Failed ELSE InspectNode(file, node, level[d - 1])]
  IN level

Inspect(file) == LET node == RootNode(file)
                 IN IF Ok(node) THEN Levels(file)[Len(file.source)][node.value] ELSE node
=============================================================================
