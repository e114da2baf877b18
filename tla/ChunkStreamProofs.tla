-------------------------- MODULE ChunkStreamProofs --------------------------
(***************************************************************************)
(* Facts that the proofs of both executors rest on.  About the tree: slots *)
(* are a numbering of the children of a node, and a set of nodes has a     *)
(* first and a last element.  About the stream of chunks: what a write adds *)
(* and leaves alone, and why a ref leads back to the chunk it was handed    *)
(* out for.                                                                *)
(***************************************************************************)
EXTENDS ChunkStream, Integers, TLAPS, FiniteSetTheorems, WellFoundedInduction

\* The root is a node (the arena is not empty).
LEMMA RootIsNode == Root \in ChunkId
BY NodeCountAssumption DEF Root, ChunkId

\* A node has finitely many children (ChunkTree's Children, Node::parent).
LEMMA ChildrenFinite ==
  ASSUME NEW n
  PROVE  /\ Children(n) \subseteq ChunkId
         /\ IsFiniteSet(Children(n))
         /\ Cardinality(Children(n)) \in Nat
<1>1. Children(n) \subseteq ChunkId  BY DEF Children
<1>2. IsFiniteSet(ChunkId)  BY FS_Interval, NodeCountAssumption DEF ChunkId
<1>. QED  BY <1>1, <1>2, FS_Subset, FS_CardinalityType

\* Every node but the root hangs below an earlier node (visit order).
LEMMA TreeEdge ==
  ASSUME parent \in Trees, NEW n \in ChunkId
  PROVE  /\ parent[n] \in 0 .. N
         /\ n = Root <=> parent[n] = NoParent
         /\ n # Root => parent[n] \in ChunkId /\ parent[n] < n
         /\ n \in Nat /\ n # N
BY NodeCountAssumption DEF Trees, ChunkId, Root, NoParent

\* A child's slot is one of the slots link_parent_child reserved.
LEMMA ParentSlotInRange ==
  ASSUME NEW p, NEW c \in Children(p)
  PROVE  ParentSlot(c) \in Slots(p)
<1> DEFINE below == {s \in Children(p) : s <= c}
<1>1. parent[c] = p /\ c \in ChunkId  BY DEF Children
<1>2. c \in below  BY <1>1, NodeCountAssumption DEF ChunkId
<1>3. IsFiniteSet(below) /\ Cardinality(below) <= Cardinality(Children(p))
      BY ChildrenFinite, FS_Subset
<1>4. Cardinality(below) \in Nat /\ Cardinality(below) # 0
      BY <1>2, <1>3, FS_CardinalityType, FS_EmptySet
<1>5. ParentSlot(c) = Cardinality(below)  BY <1>1 DEF ParentSlot
<1>. QED  BY <1>3, <1>4, <1>5, ChildrenFinite DEF Slots

\* Two siblings never share a slot.
LEMMA ParentSlotInjective ==
  ASSUME NEW p, NEW c \in Children(p), NEW d \in Children(p),
         ParentSlot(c) = ParentSlot(d)
  PROVE  c = d
<1> DEFINE below(x) == {s \in Children(p) : s <= x}
<1>1. parent[c] = p /\ parent[d] = p /\ c \in Nat /\ d \in Nat
      BY NodeCountAssumption DEF Children, ChunkId
<1>2. Children(p) \subseteq Nat  BY NodeCountAssumption DEF Children, ChunkId
<1>3. ASSUME NEW x \in Children(p), NEW y \in Children(p),
             Cardinality(below(x)) = Cardinality(below(y)), x < y
      PROVE  FALSE
  <2>1. below(x) \subseteq below(y) /\ y \in below(y) /\ y \notin below(x)
        BY <1>2, <1>3
  <2>2. IsFiniteSet(below(y))  BY ChildrenFinite, FS_Subset
  <2>. QED  BY <2>1, <2>2, <1>3, FS_Subset
<1>4. Cardinality(below(c)) = Cardinality(below(d))  BY <1>1 DEF ParentSlot
<1>. QED  BY <1>1, <1>3, <1>4

\* Every reserved slot belongs to a child.
LEMMA ParentSlotOnto ==
  ASSUME NEW p, NEW i \in Slots(p)
  PROVE  \E c \in Children(p) : ParentSlot(c) = i
<1> DEFINE f == [c \in Children(p) |-> ParentSlot(c)]
<1>1. f \in [Children(p) -> Slots(p)]  BY ParentSlotInRange
<1>2. f \in Injection(Children(p), Slots(p))
      BY <1>1, ParentSlotInjective DEF Injection, IsInjective
<1>3. IsFiniteSet(Slots(p)) /\ Cardinality(Slots(p)) = Cardinality(Children(p))
      BY ChildrenFinite, FS_Interval DEF Slots
<1>4. f \in Surjection(Children(p), Slots(p))  BY <1>2, <1>3, FS_Injection
<1>. QED  BY <1>4 DEF Surjection

\* ChildSeq lists the children of a node, each at its slot.
LEMMA ChildSeqAtSlot ==
  ASSUME NEW p, NEW i \in Slots(p)
  PROVE  ChildSeq(p)[i] \in Children(p) /\ ParentSlot(ChildSeq(p)[i]) = i
<1>1. \E c \in Children(p) : ParentSlot(c) = i  BY ParentSlotOnto
<1>2. ChildSeq(p)[i] = CHOOSE c \in Children(p) : ParentSlot(c) = i  BY DEF ChildSeq
<1>. QED  BY <1>1, <1>2

\* Induction, told with sets: a set of numbers that has 0 and the successor of
\* each of its elements has them all (ids are indices, ChunkId).
LEMMA AllNumbers ==
  ASSUME NEW T \in SUBSET Nat, 0 \in T, \A k \in T : k + 1 \in T
  PROVE  T = Nat
<1> SUFFICES ASSUME Nat \ T # {} PROVE FALSE  OBVIOUS
<1>1. PICK x \in Nat \ T : \A y \in Nat \ T : ~ (<<y, x>> \in OpToRel(<, Nat))
      BY WFMin, NatLessThanWellFounded
<1>2. \A y \in Nat \ T : ~ (y < x)  BY <1>1 DEF OpToRel
<1>3. x # 0 /\ x - 1 \in Nat /\ x - 1 < x /\ (x - 1) + 1 = x  OBVIOUS
<1>4. x - 1 \in T  BY <1>2, <1>3
<1>. QED  BY <1>3, <1>4

\* A set of nodes has a first one: ids are numbers (ChunkId).
LEMMA FirstNode ==
  ASSUME NEW T \in SUBSET ChunkId, T # {}
  PROVE  \E x \in T : \A y \in T : x <= y
<1>1. T \subseteq Nat  BY NodeCountAssumption DEF ChunkId
<1>2. PICK x \in T : \A y \in T : ~ (<<y, x>> \in OpToRel(<, Nat))
      BY <1>1, WFMin, NatLessThanWellFounded
<1>3. \A y \in T : ~ (y < x)  BY <1>1, <1>2 DEF OpToRel
<1>. QED  BY <1>1, <1>3

\* And a last one.
LEMMA LastNode ==
  ASSUME NEW T \in SUBSET ChunkId, T # {}
  PROVE  \E x \in T : \A y \in T : y <= x
<1> DEFINE mirrored == {N - 1 - x : x \in T}
<1>1. T \subseteq 0 .. (N - 1) /\ N \in Nat \ {0}  BY NodeCountAssumption DEF ChunkId
<1>2. mirrored \in SUBSET ChunkId /\ mirrored # {}
  <2>1. ASSUME NEW x \in T PROVE N - 1 - x \in ChunkId  BY <1>1 DEF ChunkId
  <2>. QED  BY <2>1
<1>3. PICK m \in mirrored : \A y \in mirrored : m <= y  BY <1>2, FirstNode
<1>4. PICK x \in T : m = N - 1 - x  BY <1>3
<1>5. ASSUME NEW y \in T PROVE y <= x  BY <1>1, <1>3, <1>4
<1>. QED  BY <1>5
-----------------------------------------------------------------------------

\* The refs of a node's children, in the order they were linked.
LinkOrder(p) == [i \in Slots(p) |-> MyRef(ChildSeq(p)[i])]

ExtentsBelowOffset ==
  \A n \in DOMAIN chunk : chunk[n].offset + chunk[n].length <= current_offset

ExtentsApart ==
  \A m, n \in DOMAIN chunk :
    m # n => \/ chunk[m].offset + chunk[m].length <= chunk[n].offset
             \/ chunk[n].offset + chunk[n].length <= chunk[m].offset

FootersLinked ==
  \A n \in DOMAIN chunk :
    Children(n) \subseteq DOMAIN chunk /\ chunk[n].footer = LinkOrder(n)

\* What a reader finds behind the footers is the tree, as far as it is written.
TreeWritten == document = [n \in DOMAIN chunk |-> ChildSeq(n)]
-----------------------------------------------------------------------------
\* No chunk is empty: the MetaByte is always there (execute_graph's length).
LEMMA ChunkLengthType ==
  ASSUME NEW n \in ChunkId, NEW s \in Seq(Ref)
  PROVE  ChunkLength(n, s) \in Nat \ {0}
<1>1. PayloadLength[n] \in Nat  BY EncodingAssumption
<1>2. Len(s) \in Nat  OBVIOUS
<1>. QED  BY <1>1, <1>2 DEF ChunkLength, CHILD_REF_SIZE

\* The id a job asks for is a compressor id (JobConfig::compression_id).
LEMMA RequestedIdType ==
  ASSUME NEW n \in ChunkId
  PROVE  RequestedId(n) \in Nat
BY EncodingAssumption DEF RequestedId

\* The ref of a written chunk is a ChildRef, never mistaken for an empty slot.
LEMMA RefType ==
  ASSUME StreamTypeOK, NEW n \in DOMAIN chunk
  PROVE  MyRef(n) \in Ref /\ MyRef(n) # NoRef
BY DEF StreamTypeOK, ChunkRecord, MyRef, Ref, NoRef

\* A successful write_all adds one chunk to the stream.
LEMMA AppendChunkType ==
  ASSUME StreamTypeOK, NEW n \in ChunkId, NEW s \in Seq(Ref), NEW codec \in Nat,
         AppendChunk(n, s, codec)
  PROVE  StreamTypeOK' /\ DOMAIN chunk' = DOMAIN chunk \cup {n}
<1> DEFINE length == ChunkLength(n, s)
           record == [at |-> stream_end, offset |-> current_offset,
                      length |-> length, footer |-> s, codec |-> codec]
<1>1. length \in Nat \ {0}  BY ChunkLengthType
<1>2. record \in ChunkRecord  BY <1>1 DEF ChunkRecord, StreamTypeOK
<1>3. /\ chunk' = [m \in DOMAIN chunk \cup {n} |-> IF m = n THEN record ELSE chunk[m]]
      /\ current_offset' = current_offset + length
      /\ stream_end' = stream_end + length
      BY DEF AppendChunk, ReturnedOffset, AdvancedOffset
<1> HIDE DEF length, record
<1>4. chunk' \in [DOMAIN chunk \cup {n} -> ChunkRecord]  BY <1>2, <1>3 DEF StreamTypeOK
<1>. QED  BY <1>1, <1>3, <1>4 DEF StreamTypeOK

\* A failed write_all leaves chunks and current_offset alone.
LEMMA TearChunkType ==
  ASSUME StreamTypeOK, NEW n \in ChunkId, NEW s \in Seq(Ref), TearChunk(n, s)
  PROVE  StreamTypeOK' /\ UNCHANGED <<chunk, current_offset>>
<1>1. ChunkLength(n, s) \in Nat \ {0}  BY ChunkLengthType
<1>2. PICK torn \in {0, ChunkLength(n, s) - 1} : stream_end' = stream_end + torn
      BY DEF TearChunk
<1>3. torn \in Nat  BY <1>1, <1>2
<1>. QED  BY <1>2, <1>3 DEF TearChunk, StreamTypeOK

\* write_all hands out an extent behind all those it has handed out before.
LEMMA AppendedExtents ==
  ASSUME StreamTypeOK, NEW n \in ChunkId, NEW s \in Seq(Ref), NEW codec \in Nat,
         n \notin DOMAIN chunk, AppendChunk(n, s, codec),
         ExtentsBelowOffset, ExtentsApart
  PROVE  ExtentsBelowOffset' /\ ExtentsApart'
<1> PICK length : length = ChunkLength(n, s)  OBVIOUS
<1>1. length \in Nat \ {0} /\ current_offset \in Nat
      BY ChunkLengthType DEF StreamTypeOK
<1>2. /\ chunk'[n].offset = current_offset /\ chunk'[n].length = length
      /\ \A m \in DOMAIN chunk : chunk'[m] = chunk[m]
      /\ current_offset' = current_offset + length
      /\ DOMAIN chunk' = DOMAIN chunk \cup {n}
      BY DEF AppendChunk, ReturnedOffset, AdvancedOffset
<1>3. \A m \in DOMAIN chunk : chunk[m].offset \in Nat /\ chunk[m].length \in Nat
      BY DEF StreamTypeOK, ChunkRecord
<1>4. ASSUME NEW m \in DOMAIN chunk'
      PROVE  chunk'[m].offset + chunk'[m].length <= current_offset'
      BY <1>1, <1>2, <1>3 DEF ExtentsBelowOffset
<1>5. ASSUME NEW l \in DOMAIN chunk', NEW m \in DOMAIN chunk', l # m
      PROVE  \/ chunk'[l].offset + chunk'[l].length <= chunk'[m].offset
             \/ chunk'[m].offset + chunk'[m].length <= chunk'[l].offset
      BY <1>1, <1>2, <1>3, <1>5 DEF ExtentsBelowOffset, ExtentsApart
<1>. QED  BY <1>4, <1>5 DEF ExtentsBelowOffset, ExtentsApart

\* A chunk's refs are fixed once its children are written.
LEMMA LinkOrderFixed ==
  ASSUME NEW p, parent' = parent, Children(p) \subseteq DOMAIN chunk,
         \A m \in DOMAIN chunk : chunk'[m] = chunk[m]
  PROVE  LinkOrder(p)' = LinkOrder(p)
<1>1. Slots(p)' = Slots(p) /\ ChildSeq(p)' = ChildSeq(p)
      BY DEF Slots, ChildSeq, Children, ParentSlot
<1>2. ASSUME NEW i \in Slots(p) PROVE MyRef(ChildSeq(p)[i])' = MyRef(ChildSeq(p)[i])
  <2>1. chunk'[ChildSeq(p)[i]] = chunk[ChildSeq(p)[i]]  BY ChildSeqAtSlot
  <2>. QED  BY <1>1, <2>1 DEF MyRef
<1>. QED  BY <1>1, <1>2 DEF LinkOrder

\* write_all adds a true footer when it is given the refs in link order.
LEMMA AppendedFooter ==
  ASSUME StreamTypeOK, parent' = parent, NEW n \in ChunkId, NEW codec,
         n \notin DOMAIN chunk, Children(n) \subseteq DOMAIN chunk,
         AppendChunk(n, LinkOrder(n), codec), FootersLinked
  PROVE  FootersLinked'
<1>1. /\ chunk'[n].footer = LinkOrder(n)
      /\ \A m \in DOMAIN chunk : chunk'[m] = chunk[m]
      /\ DOMAIN chunk' = DOMAIN chunk \cup {n}
      BY DEF AppendChunk, ReturnedOffset, AdvancedOffset
<1>2. \A p : Children(p)' = Children(p)  BY DEF Children
<1>3. ASSUME NEW m \in DOMAIN chunk'
      PROVE  Children(m)' \subseteq DOMAIN chunk' /\ chunk'[m].footer = LinkOrder(m)'
  <2>1. Children(m) \subseteq DOMAIN chunk  BY <1>1 DEF FootersLinked
  <2>2. LinkOrder(m)' = LinkOrder(m)  BY <1>1, <2>1, LinkOrderFixed
  <2>. QED  BY <1>1, <1>2, <2>1, <2>2 DEF FootersLinked
<1>. QED  BY <1>3 DEF FootersLinked
-----------------------------------------------------------------------------
\* Extents are apart and not empty, so a ref leads to one chunk (ChildRef).
LEMMA RefNamesOneChunk ==
  ASSUME StreamTypeOK, ExtentsApart, NEW c \in DOMAIN chunk
  PROVE  ChunkAt(MyRef(c)) = c
<1>1. ASSUME NEW d \in DOMAIN chunk, MyRef(d) = MyRef(c) PROVE d = c
  <2>1. chunk[c].offset = chunk[d].offset /\ chunk[c].length = chunk[d].length
        BY <1>1 DEF MyRef
  <2>2. chunk[c].offset \in Nat /\ chunk[c].length \in Nat \ {0}
        BY DEF StreamTypeOK, ChunkRecord
  <2>. QED  BY <1>1, <2>1, <2>2 DEF ExtentsApart
<1>. QED  BY <1>1 DEF ChunkAt

\* Following the refs of true footers leads to the children.
LEMMA FootersLeadToTree ==
  ASSUME StreamTypeOK, ExtentsApart, FootersLinked
  PROVE  TreeWritten
<1>1. ASSUME NEW n \in DOMAIN chunk
      PROVE  [i \in DOMAIN chunk[n].footer |-> ChunkAt(chunk[n].footer[i])] = ChildSeq(n)
  <2>1. Children(n) \subseteq DOMAIN chunk /\ chunk[n].footer = LinkOrder(n)
        BY DEF FootersLinked
  <2>2. ASSUME NEW i \in Slots(n) PROVE ChunkAt(chunk[n].footer[i]) = ChildSeq(n)[i]
        BY <2>1, ChildSeqAtSlot, RefNamesOneChunk DEF LinkOrder
  <2>3. DOMAIN chunk[n].footer = Slots(n)  BY <2>1 DEF LinkOrder
  <2>4. ChildSeq(n) = [i \in Slots(n) |-> ChildSeq(n)[i]]  BY DEF ChildSeq
  <2>. QED  BY <2>2, <2>3, <2>4
<1>. QED  BY <1>1 DEF document, TreeWritten
-----------------------------------------------------------------------------
(***************************************************************************)
(* How long a stream is: the sum of what its chunks take, in whatever      *)
(* order they were written.  A sum over a set of nodes is a function on    *)
(* the sets of nodes; that there is one is shown by induction on N.        *)
(***************************************************************************)
Sums(w, f, M) == /\ f \in [SUBSET M -> Nat]
                 /\ f[{}] = 0
                 /\ \A S \in SUBSET M : \A n \in M \ S : f[S \cup {n}] = f[S] + w[n]

\* Any weights of the nodes can be summed up (chunk lengths, below).
LEMMA SumExists ==
  ASSUME NEW w \in [ChunkId -> Nat]
  PROVE  \E f : Sums(w, f, ChunkId)
<1> DEFINE First(k) == {n \in ChunkId : n < k}
           T == {k \in Nat : \E f : Sums(w, f, First(k))}
<1>1. N \in Nat \ {0} /\ \A n \in ChunkId : n \in Nat /\ n < N
      BY NodeCountAssumption DEF ChunkId
<1>2. 0 \in T
  <2>1. First(0) = {}  BY <1>1
  <2>2. Sums(w, [S \in SUBSET {} |-> 0], {})  BY DEF Sums
  <2>. QED  BY <2>1, <2>2
<1>3. ASSUME NEW k \in T PROVE k + 1 \in T
  <2>1. PICK g : Sums(w, g, First(k))  OBVIOUS
  <2>2. k \in Nat /\ First(k) \subseteq ChunkId  OBVIOUS
  <2>3. CASE k \notin ChunkId
    <3>1. First(k + 1) = First(k)  BY <1>1, <2>2, <2>3
    <3>. QED  BY <2>1, <2>2, <3>1
  <2>4. CASE k \in ChunkId
    <3> DEFINE f == [S \in SUBSET First(k + 1) |->
                       g[S \ {k}] + (IF k \in S THEN w[k] ELSE 0)]
    <3>1. First(k + 1) = First(k) \cup {k} /\ k \notin First(k)
      <4>1. ASSUME NEW n \in ChunkId PROVE n < k + 1 <=> n < k \/ n = k  BY <1>1, <2>2
      <4>2. ~ (k < k)  BY <2>2
      <4>3. First(k + 1) \subseteq First(k) \cup {k}  BY <4>1
      <4>4. First(k) \cup {k} \subseteq First(k + 1)  BY <2>4, <4>1
      <4>. QED  BY <4>2, <4>3, <4>4
    <3>2. First(k + 1) \subseteq ChunkId  OBVIOUS
    <3> HIDE DEF First
    <3>3. w[k] \in Nat /\ \A S \in SUBSET First(k) : g[S] \in Nat
          BY <2>1, <2>4 DEF Sums
    <3>4. ASSUME NEW S \in SUBSET First(k + 1)
          PROVE  S \ {k} \in SUBSET First(k) /\ f[S] \in Nat
          BY <3>1, <3>3
    <3>5. f[{}] = 0
      <4>1. f[{}] = g[{} \ {k}] + 0  OBVIOUS
      <4>2. {} \ {k} = {} /\ g[{}] = 0  BY <2>1 DEF Sums
      <4>. QED  BY <4>1, <4>2
    <3>6. ASSUME NEW S \in SUBSET First(k + 1), NEW n \in First(k + 1) \ S
          PROVE  f[S \cup {n}] = f[S] + w[n]
      <4>1. S \cup {n} \in SUBSET First(k + 1) /\ w[n] \in Nat
            BY <3>2
      <4>2. CASE n = k
        <5>1. S \ {k} = S /\ (S \cup {n}) \ {k} = S  BY <4>2
        <5>2. f[S] = g[S] + 0 /\ f[S \cup {n}] = g[S] + w[k]
              BY <4>1, <4>2, <5>1
        <5>3. g[S] \in Nat  BY <3>3, <3>4, <5>1
        <5>. QED  BY <3>3, <4>2, <5>2, <5>3
      <4>3. CASE n # k
        <5>1. n \in First(k) \ (S \ {k}) /\ S \ {k} \in SUBSET First(k)
              BY <3>1, <4>3
        <5>2. (S \cup {n}) \ {k} = (S \ {k}) \cup {n}  BY <4>3
        <5>3. g[(S \ {k}) \cup {n}] = g[S \ {k}] + w[n]  BY <2>1, <5>1 DEF Sums
        <5>4. k \in S \cup {n} <=> k \in S  BY <4>3
        <5>5. g[S \ {k}] \in Nat  BY <3>3, <5>1
        <5>6. /\ f[S] = g[S \ {k}] + (IF k \in S THEN w[k] ELSE 0)
              /\ f[S \cup {n}] = g[S \ {k}] + w[n] + (IF k \in S THEN w[k] ELSE 0)
              BY <4>1, <5>2, <5>3, <5>4
        <5>. QED  BY <3>3, <4>1, <5>5, <5>6
      <4>. QED  BY <4>2, <4>3
    <3>7. f \in [SUBSET First(k + 1) -> Nat]  BY <3>4
    <3>8. Sums(w, f, First(k + 1))  BY <3>5, <3>6, <3>7 DEF Sums
    <3> HIDE DEF f
    <3>9. \E h : Sums(w, h, First(k + 1))  BY <3>8
    <3>. QED  BY <2>2, <3>9
  <2>. QED  BY <2>3, <2>4
<1>4. N \in T
  <2>1. T \subseteq Nat  OBVIOUS
  <2> HIDE DEF T
  <2>2. T = Nat  BY <1>2, <1>3, <2>1, AllNumbers
  <2>. QED  BY <1>1, <2>2
<1>5. First(N) = ChunkId  BY <1>1
<1>. QED  BY <1>4, <1>5

\* What the chunk of a node takes, whatever its refs turn out to be.
NodeLength(n) ==
  PayloadLength[n] + 1 +
    (IF Slots(n) = {} THEN 0 ELSE CHILD_REF_SIZE * Cardinality(Children(n)) + 4)

total == CHOOSE f : Sums([n \in ChunkId |-> NodeLength(n)], f, ChunkId)

\* The lengths of any set of chunks can be summed up.
LEMMA TotalSums == Sums([n \in ChunkId |-> NodeLength(n)], total, ChunkId)
<1>1. [n \in ChunkId |-> NodeLength(n)] \in [ChunkId -> Nat]
  <2>1. ASSUME NEW n \in ChunkId PROVE NodeLength(n) \in Nat
        BY ChildrenFinite, EncodingAssumption DEF NodeLength, CHILD_REF_SIZE
  <2>. QED  BY <2>1
<1>. QED  BY <1>1, SumExists DEF total

\* Only the number of refs matters to the length of a chunk.
LEMMA LengthOfLinked ==
  ASSUME NEW n \in ChunkId
  PROVE  ChunkLength(n, LinkOrder(n)) = NodeLength(n)
<1>1. Cardinality(Children(n)) \in Nat  BY ChildrenFinite
<1>2. Len(LinkOrder(n)) = Cardinality(Children(n)) /\ DOMAIN LinkOrder(n) = Slots(n)
      BY <1>1 DEF LinkOrder, Slots
<1>3. LinkOrder(n) = <<>> <=> Slots(n) = {}  BY <1>2 DEF LinkOrder
<1>. QED  BY <1>2, <1>3 DEF ChunkLength, NodeLength

\* The writer counts the chunks written, each in its length, and nothing else.
OffsetIsTotal == current_offset = total[DOMAIN chunk]

\* Appending a chunk counts it (SeqWriter::write_all moves current_offset).
LEMMA AppendedTotal ==
  ASSUME StreamTypeOK, parent' = parent, NEW n \in ChunkId, NEW codec,
         n \notin DOMAIN chunk, AppendChunk(n, LinkOrder(n), codec), OffsetIsTotal
  PROVE  OffsetIsTotal'
<1>1. /\ current_offset' = current_offset + NodeLength(n)
      /\ DOMAIN chunk' = DOMAIN chunk \cup {n}
      BY LengthOfLinked DEF AppendChunk, AdvancedOffset
<1>2. total' = total
      BY DEF total, NodeLength, Slots, Children
<1>3. total[DOMAIN chunk \cup {n}] = total[DOMAIN chunk] + NodeLength(n)
      BY TotalSums DEF Sums, StreamTypeOK
<1>. QED  BY <1>1, <1>2, <1>3 DEF OffsetIsTotal

\* What "ok" promises of the stream whichever executor filled it: every chunk,
\* each leading to its children, and not a byte besides.
TreeDelivered == /\ DOMAIN chunk = ChunkId
                 /\ document = [n \in ChunkId |-> ChildSeq(n)]
                 /\ stream_end = total[ChunkId]
=============================================================================
