------------------------- MODULE SerialExecutorProofs -------------------------
(***************************************************************************)
(* Proofs about execute_graph_serial, for every tree and every size.       *)
(*                                                                         *)
(* The loop's position says everything: the nodes from `left` on are       *)
(* written, and no other; a slot of a node still to be visited is filled   *)
(* exactly when its child is written.  The refs in a node's slots when its *)
(* turn comes, the answer, and the refinement of BottomUpWrite follow.     *)
(***************************************************************************)
EXTENDS SerialExecutor, ChunkStreamProofs

TypeOK ==
  /\ parent \in Trees
  /\ left \in 0 .. N
  /\ completed \in [ChunkId -> Seq(Ref)]
  /\ StreamTypeOK
  /\ root_result \in Ref
  /\ outcome \in {"none", "ok", "err", "panic"}

WrittenFromLeft == DOMAIN chunk = {n \in ChunkId : n >= left}

\* The iteration that fails takes the slots of its node with it.
SlotsFollowLeft ==
  outcome = "none" =>
    \A n \in ChunkId : n < left =>
      /\ Len(completed[n]) = Cardinality(Children(n))
      /\ \A c \in Children(n) :
           completed[n][ParentSlot(c)] = IF c >= left THEN MyRef(c) ELSE NoRef

StreamTrue == /\ \A n \in DOMAIN chunk : chunk[n].at = chunk[n].offset
              /\ outcome \in {"none", "ok"} => current_offset = stream_end

CodecsTrue == \A n \in DOMAIN chunk : chunk[n].codec = SerialCodec(n)

RootLast == left = 0 => /\ root_result = MyRef(Root)
                        /\ chunk[Root].at + chunk[Root].length = stream_end

OkAfterLoop == outcome = "ok" => left = 0

IInv == /\ TypeOK
        /\ WrittenFromLeft
        /\ SlotsFollowLeft
        /\ ExtentsBelowOffset
        /\ ExtentsApart
        /\ FootersLinked
        /\ StreamTrue
        /\ OffsetIsTotal
        /\ CodecsTrue
        /\ RootLast
        /\ OkAfterLoop
-----------------------------------------------------------------------------
\* The node whose turn it is comes after its parent and before its children.
LEMMA TurnOfNode ==
  ASSUME TypeOK, NEW n \in ChunkId, Visiting(n)
  PROVE  /\ outcome = "none" /\ left = n + 1 /\ n < left
         /\ \A c \in Children(n) : c \in ChunkId /\ c # Root /\ n < c /\ c >= left
         /\ n # Root => parent[n] \in ChunkId /\ parent[n] < n /\ n \in Children(parent[n])
         /\ n = Root <=> left = 1
<1>1. n \in Nat /\ left \in Nat /\ left = n + 1 /\ outcome = "none"
      BY NodeCountAssumption DEF Visiting, TypeOK, ChunkId
<1>2. ASSUME NEW c \in Children(n) PROVE c \in ChunkId /\ c # Root /\ n < c /\ c >= left
  <2>1. c \in ChunkId /\ parent[c] = n  BY DEF Children
  <2>2. c # Root  BY <2>1, TreeEdge DEF TypeOK, NoParent
  <2>3. n < c /\ c \in Nat  BY <2>1, <2>2, TreeEdge DEF TypeOK
  <2>. QED  BY <1>1, <2>1, <2>2, <2>3
<1>3. n # Root => parent[n] \in ChunkId /\ parent[n] < n /\ n \in Children(parent[n])
      BY TreeEdge DEF TypeOK, Children
<1>. QED  BY <1>1, <1>2, <1>3 DEF Root

\* The iteration finds every slot of its node filled, in link order.
LEMMA SlotsFull ==
  ASSUME IInv, NEW n \in ChunkId, Visiting(n)
  PROVE  /\ n \notin DOMAIN chunk
         /\ Children(n) \subseteq DOMAIN chunk
         /\ completed[n] = LinkOrder(n)
         /\ ~MissingChild(n)
<1> USE DEF IInv
<1>1. outcome = "none" /\ n < left /\ left = n + 1 /\ n \in Nat
      BY TurnOfNode, NodeCountAssumption DEF ChunkId
<1>2. n \notin DOMAIN chunk  BY <1>1 DEF WrittenFromLeft
<1>3. ASSUME NEW c \in Children(n) PROVE c \in DOMAIN chunk /\ c >= left
      BY TurnOfNode DEF WrittenFromLeft
<1>4. /\ Len(completed[n]) = Cardinality(Children(n))
      /\ \A c \in Children(n) : completed[n][ParentSlot(c)] = MyRef(c)
      BY <1>1, <1>3 DEF SlotsFollowLeft
<1>5. completed[n] \in Seq(Ref)  BY DEF TypeOK
<1>6. DOMAIN completed[n] = Slots(n)  BY <1>4, <1>5 DEF Slots
<1>7. ASSUME NEW i \in Slots(n)
      PROVE  completed[n][i] = MyRef(ChildSeq(n)[i]) /\ completed[n][i] # NoRef
  <2> DEFINE c == ChildSeq(n)[i]
  <2>1. c \in Children(n) /\ ParentSlot(c) = i  BY ChildSeqAtSlot
  <2> HIDE DEF c
  <2>2. completed[n][i] = MyRef(c)  BY <1>4, <2>1
  <2>3. MyRef(c) # NoRef  BY <1>3, <2>1, RefType DEF TypeOK
  <2>. QED  BY <2>2, <2>3 DEF c
<1>8. completed[n] = LinkOrder(n)  BY <1>5, <1>6, <1>7 DEF LinkOrder
<1>. QED  BY <1>2, <1>3, <1>6, <1>7, <1>8 DEF MissingChild

\* A successful iteration appends the node's chunk to the stream, footer and
\* all, and the stream stays true.
LEMMA ProcessAppends ==
  ASSUME IInv, NEW n \in ChunkId, Process(n)
  PROVE  /\ StreamTypeOK' /\ DOMAIN chunk' = DOMAIN chunk \cup {n}
         /\ ExtentsBelowOffset' /\ ExtentsApart' /\ FootersLinked'
         /\ \A m \in DOMAIN chunk : chunk'[m] = chunk[m]
         /\ chunk'[n].at = stream_end /\ chunk'[n].offset = current_offset
         /\ chunk'[n].at + chunk'[n].length = stream_end'
         /\ current_offset' = stream_end'
         /\ OffsetIsTotal' /\ CodecsTrue'
<1> USE DEF IInv
<1>1. Visiting(n) /\ parent' = parent /\ AppendChunk(n, completed[n], SerialCodec(n))
      BY DEF Process
<1>2. /\ n \notin DOMAIN chunk /\ Children(n) \subseteq DOMAIN chunk
      /\ completed[n] = LinkOrder(n)
      BY <1>1, SlotsFull
<1>3. LinkOrder(n) \in Seq(Ref) /\ StreamTypeOK  BY <1>2 DEF TypeOK
<1>4. SerialCodec(n) \in Nat  BY RequestedIdType DEF SerialCodec
<1>5. AppendChunk(n, LinkOrder(n), SerialCodec(n))  BY <1>1, <1>2
<1>6. StreamTypeOK' /\ DOMAIN chunk' = DOMAIN chunk \cup {n}
      BY <1>3, <1>4, <1>5, AppendChunkType
<1>7. ExtentsBelowOffset' /\ ExtentsApart'
      BY <1>2, <1>3, <1>4, <1>5, AppendedExtents
<1>8. FootersLinked'  BY <1>1, <1>2, <1>3, <1>5, AppendedFooter
<1>9. current_offset = stream_end  BY <1>1 DEF StreamTrue, Visiting
<1>10. /\ \A m \in DOMAIN chunk : chunk'[m] = chunk[m]
       /\ chunk'[n].at = stream_end /\ chunk'[n].offset = current_offset
       /\ chunk'[n].at + chunk'[n].length = stream_end'
       /\ current_offset' = stream_end'
       BY <1>2, <1>5, <1>9 DEF AppendChunk, ReturnedOffset, AdvancedOffset
<1>11. OffsetIsTotal'  BY <1>1, <1>2, <1>3, <1>5, AppendedTotal
<1>12. CodecsTrue'
  <2>1. chunk'[n].codec = SerialCodec(n)  BY <1>2, <1>5 DEF AppendChunk
  <2>. QED  BY <1>6, <1>10, <2>1 DEF CodecsTrue, SerialCodec, RequestedId
<1>. QED  BY <1>6, <1>7, <1>8, <1>10, <1>11, <1>12

\* It stores the ref of the node in the slot its parent keeps for it, and in
\* no other.
LEMMA ProcessSlots ==
  ASSUME IInv, NEW n \in ChunkId, Process(n)
  PROVE  /\ completed' \in [ChunkId -> Seq(Ref)]
         /\ SlotsFollowLeft'
<1> USE DEF IInv
<1> PICK p : p = parent[n]  OBVIOUS
<1> PICK ref : ref = MyRef(n)'  OBVIOUS
<1>1. Visiting(n) /\ parent' = parent /\ outcome' = outcome /\ left' = left - 1
      BY DEF Process, NextLeft
<1>2. /\ outcome = "none" /\ left = n + 1 /\ n \in Nat
      /\ n # Root => p \in ChunkId /\ p < n /\ n \in Children(p)
      BY <1>1, TurnOfNode, NodeCountAssumption DEF ChunkId
<1>3. \A q : Children(q)' = Children(q) /\ Children(q) \subseteq ChunkId
      BY <1>1 DEF Children
<1>4. \A c \in ChunkId : ParentSlot(c)' = ParentSlot(c)
      BY <1>1, <1>3 DEF ParentSlot, Children
<1>5. ref \in Ref
  <2>1. StreamTypeOK' /\ n \in DOMAIN chunk'  BY ProcessAppends
  <2>. QED  BY <2>1 DEF MyRef, Ref, StreamTypeOK, ChunkRecord
<1>6. \A c \in ChunkId : c >= left => MyRef(c)' = MyRef(c)
      BY ProcessAppends DEF WrittenFromLeft, MyRef
<1>7. n = Root => completed' = [completed EXCEPT ![n] = <<>>]
      BY TreeEdge DEF Process, TypeOK
<1>8. n # Root => completed' = [completed EXCEPT ![n] = <<>>, ![p][ParentSlot(n)] = ref]
      BY TreeEdge DEF Process, ResultSlot, TypeOK
<1>9. n # Root => /\ ParentSlot(n) \in DOMAIN completed[p]
                  /\ completed[p] \in Seq(Ref)
  <2> SUFFICES ASSUME n # Root
               PROVE  ParentSlot(n) \in DOMAIN completed[p] /\ completed[p] \in Seq(Ref)
      OBVIOUS
  <2>1. ParentSlot(n) \in Slots(p)  BY <1>2, ParentSlotInRange
  <2>2. p < left /\ completed[p] \in Seq(Ref)
        BY <1>2, NodeCountAssumption DEF TypeOK, ChunkId
  <2>3. Len(completed[p]) = Cardinality(Children(p))
        BY <1>2, <2>2 DEF SlotsFollowLeft
  <2>. QED  BY <2>1, <2>2, <2>3 DEF Slots
<1>10. \A q \in ChunkId \ {n, p} : completed'[q] = completed[q]
       BY <1>2, <1>7, <1>8 DEF TypeOK
<1>11. n # Root => completed'[p] = [completed[p] EXCEPT ![ParentSlot(n)] = ref]
       BY <1>2, <1>8 DEF TypeOK
<1>12. completed' \in [ChunkId -> Seq(Ref)]
  <2> DEFINE taken == [completed EXCEPT ![n] = <<>>]
  <2>1. taken \in [ChunkId -> Seq(Ref)] /\ \A q \in ChunkId \ {n} : taken[q] = completed[q]
        BY DEF TypeOK
  <2>2. CASE n = Root  BY <1>7, <2>1, <2>2
  <2>3. CASE n # Root
    <3>1. [completed[p] EXCEPT ![ParentSlot(n)] = ref] \in Seq(Ref)
          BY <1>5, <1>9, <2>3
    <3>2. p \in ChunkId /\ p # n /\ taken[p] = completed[p]  BY <1>2, <2>1, <2>3
    <3>3. completed' = [taken EXCEPT ![p] = [taken[p] EXCEPT ![ParentSlot(n)] = ref]]
          BY <1>8, <2>3
    <3> HIDE DEF taken
    <3>. QED  BY <2>1, <3>1, <3>2, <3>3
  <2>. QED  BY <2>2, <2>3
<1>13. ASSUME NEW q \in ChunkId, q < left'
       PROVE  /\ Len(completed'[q]) = Cardinality(Children(q))
              /\ \A c \in Children(q) :
                   completed'[q][ParentSlot(c)] = IF c >= left' THEN MyRef(c)' ELSE NoRef
  <2>1. q # n /\ q < left /\ q \in Nat
        BY <1>1, <1>2, <1>13, NodeCountAssumption DEF ChunkId
  <2>2. /\ Len(completed[q]) = Cardinality(Children(q))
        /\ \A c \in Children(q) :
             completed[q][ParentSlot(c)] = IF c >= left THEN MyRef(c) ELSE NoRef
        BY <1>2, <2>1 DEF SlotsFollowLeft
  <2>3. \A c \in Children(q) : c \in ChunkId /\ c \in Nat
        BY <1>3, NodeCountAssumption DEF ChunkId
  <2>4. CASE n = Root \/ q # p
    <3>1. completed'[q] = completed[q]  BY <1>7, <1>10, <2>1, <2>4 DEF TypeOK
    <3>2. n \notin Children(q)
      <4>1. CASE n = Root
            BY <4>1, TreeEdge, NodeCountAssumption DEF Children, TypeOK, NoParent, ChunkId
      <4>2. CASE q # p  BY <4>2 DEF Children
      <4>. QED  BY <2>4, <4>1, <4>2
    <3>3. \A c \in Children(q) : c >= left' <=> c >= left
          BY <1>1, <1>2, <2>3, <3>2
    <3>. QED  BY <1>6, <2>2, <2>3, <3>1, <3>3
  <2>5. CASE n # Root /\ q = p
    <3>1. completed[p] \in Seq(Ref) /\ ParentSlot(n) \in DOMAIN completed[p]
          BY <1>9, <2>5
    <3>2. completed'[p] = [completed[p] EXCEPT ![ParentSlot(n)] = ref]
          BY <1>11, <2>5
    <3>3. Len(completed'[p]) = Len(completed[p])  BY <3>1, <3>2
    <3>4. ASSUME NEW c \in Children(p)
          PROVE  completed'[p][ParentSlot(c)] = IF c >= left' THEN MyRef(c)' ELSE NoRef
      <4>1. CASE c = n  BY <1>1, <1>2, <3>1, <3>2, <4>1
      <4>2. CASE c # n
        <5>1. ParentSlot(c) # ParentSlot(n)  BY <1>2, <2>5, <4>2, ParentSlotInjective
        <5>2. ParentSlot(c) \in DOMAIN completed[p]
              BY <2>2, <2>5, <3>1, ParentSlotInRange DEF Slots
        <5>3. completed'[p][ParentSlot(c)] = completed[p][ParentSlot(c)]
              BY <3>2, <5>1, <5>2
        <5>4. c \in ChunkId /\ (c >= left' <=> c >= left)
              BY <1>1, <1>2, <2>3, <2>5, <4>2
        <5>. QED  BY <1>6, <2>2, <2>5, <5>3, <5>4
      <4>. QED  BY <4>1, <4>2
    <3>. QED  BY <2>2, <2>5, <3>3, <3>4
  <2>. QED  BY <2>4, <2>5
<1>14. SlotsFollowLeft'  BY <1>3, <1>4, <1>13 DEF SlotsFollowLeft, NoRef
<1>. QED  BY <1>12, <1>14
-----------------------------------------------------------------------------
\* The call starts with every slot empty and nothing written.
LEMMA InitIInv == Init => IInv
<1> SUFFICES ASSUME Init PROVE IInv  OBVIOUS
<1> USE DEF Init
<1>1. left = N /\ N \in Nat \ {0} /\ DOMAIN chunk = {}
      BY NodeCountAssumption DEF StreamInit
<1>2. \A n \in ChunkId : n \in Nat /\ n < left  BY <1>1 DEF ChunkId
<1>3. ASSUME NEW n \in ChunkId
      PROVE  /\ completed[n] \in Seq(Ref)
             /\ Len(completed[n]) = Cardinality(Children(n))
             /\ \A c \in Children(n) : completed[n][ParentSlot(c)] = NoRef
  <2>1. completed[n] = [i \in 1 .. Cardinality(Children(n)) |-> NoRef]  BY DEF Slots
  <2>2. Cardinality(Children(n)) \in Nat /\ NoRef \in Ref  BY ChildrenFinite DEF NoRef, Ref
  <2>3. completed[n] \in Seq(Ref) /\ Len(completed[n]) = Cardinality(Children(n))
        BY <2>1, <2>2
  <2>. QED  BY <2>1, <2>3, ParentSlotInRange DEF Slots
<1>4. TypeOK
  <2>1. StreamTypeOK  BY DEF StreamTypeOK, StreamInit
  <2>2. completed \in [ChunkId -> Seq(Ref)]  BY <1>3
  <2>. QED  BY <1>1, <2>1, <2>2 DEF TypeOK, NoRef, Ref
<1>5. WrittenFromLeft  BY <1>1, <1>2 DEF WrittenFromLeft
<1>6. SlotsFollowLeft
  <2>1. \A n \in ChunkId : \A c \in Children(n) : c \in ChunkId  BY DEF Children
  <2>. QED  BY <1>1, <1>2, <1>3, <2>1 DEF SlotsFollowLeft
<1>7. ExtentsBelowOffset /\ ExtentsApart /\ FootersLinked
      BY <1>1 DEF ExtentsBelowOffset, ExtentsApart, FootersLinked
<1>8. StreamTrue  BY <1>1 DEF StreamTrue, StreamInit
<1>9. OffsetIsTotal  BY <1>1, TotalSums DEF OffsetIsTotal, StreamInit, Sums
<1>. QED  BY <1>1, <1>4, <1>5, <1>6, <1>7, <1>8, <1>9 DEF IInv, CodecsTrue, RootLast,
          OkAfterLoop

\* An iteration that succeeds.
LEMMA ProcessIInv ==
  ASSUME IInv, NEW n \in ChunkId, Process(n)
  PROVE  IInv'
<1> USE DEF IInv
<1>1. /\ Visiting(n) /\ outcome' = outcome /\ parent' = parent /\ left' = left - 1
      BY DEF Process, NextLeft
<1>2. /\ outcome = "none" /\ left = n + 1 /\ n \in Nat /\ left \in 0 .. N /\ (n = Root <=> left = 1)
      BY <1>1, TurnOfNode, NodeCountAssumption DEF ChunkId, TypeOK
<1>3. /\ StreamTypeOK' /\ DOMAIN chunk' = DOMAIN chunk \cup {n}
      /\ ExtentsBelowOffset' /\ ExtentsApart' /\ FootersLinked'
      /\ \A m \in DOMAIN chunk : chunk'[m] = chunk[m]
      /\ chunk'[n].at = stream_end /\ chunk'[n].offset = current_offset
      /\ chunk'[n].at + chunk'[n].length = stream_end'
      /\ current_offset' = stream_end'
      /\ OffsetIsTotal' /\ CodecsTrue'
      BY ProcessAppends
<1>4. completed' \in [ChunkId -> Seq(Ref)] /\ SlotsFollowLeft'  BY ProcessSlots
<1>5. /\ n = Root => root_result' = MyRef(Root)'
      /\ n # Root => root_result' = root_result
      BY TreeEdge DEF Process, TypeOK
<1>6. root_result' \in Ref
  <2>1. MyRef(n)' \in Ref
    <3>1. StreamTypeOK' /\ n \in DOMAIN chunk'  BY <1>3
    <3>. QED  BY <3>1 DEF MyRef, Ref, StreamTypeOK, ChunkRecord
  <2>. QED  BY <1>5, <2>1 DEF TypeOK
<1>7. TypeOK'  BY <1>1, <1>2, <1>3, <1>4, <1>6, NodeCountAssumption DEF TypeOK
<1>8. WrittenFromLeft'
  <2>1. \A m \in ChunkId : m \in Nat  BY NodeCountAssumption DEF ChunkId
  <2>2. \A m \in ChunkId : m >= left' <=> m >= left \/ m = n  BY <1>1, <1>2, <2>1
  <2>. QED  BY <1>3, <2>2 DEF WrittenFromLeft
<1>9. StreamTrue'
  <2>1. current_offset = stream_end  BY <1>2 DEF StreamTrue
  <2>. QED  BY <1>3, <2>1 DEF StreamTrue
<1>10. RootLast'  BY <1>1, <1>2, <1>3, <1>5 DEF RootLast
<1>11. OkAfterLoop'  BY <1>1, <1>2 DEF OkAfterLoop
<1>. QED  BY <1>3, <1>4, <1>7, <1>8, <1>9, <1>10, <1>11

\* A step that writes no chunk: a failing iteration, the end of the loop.
LEMMA EndIInv ==
  ASSUME IInv, UNCHANGED <<parent, left, chunk, current_offset, root_result>>,
         completed' \in [ChunkId -> Seq(Ref)],
         StreamTypeOK', outcome = "none",
         left = 0 => stream_end' = stream_end,
         outcome' \in {"ok", "err", "panic"},
         outcome' = "ok" => left = 0
  PROVE  IInv'
<1> USE DEF IInv
<1>1. TypeOK'  BY DEF TypeOK
<1>2. WrittenFromLeft'  BY DEF WrittenFromLeft
<1>3. SlotsFollowLeft'  BY DEF SlotsFollowLeft
<1>4. \A m : LinkOrder(m)' = LinkOrder(m) /\ Children(m)' = Children(m)
      BY DEF LinkOrder, Slots, ChildSeq, Children, ParentSlot, MyRef
<1>5. ExtentsBelowOffset' /\ ExtentsApart' /\ FootersLinked'
      BY <1>4 DEF ExtentsBelowOffset, ExtentsApart, FootersLinked
<1>6. StreamTrue' /\ OffsetIsTotal' /\ CodecsTrue'
      BY DEF StreamTrue, OffsetIsTotal, total, NodeLength, Slots, Children, CodecsTrue,
         SerialCodec, RequestedId
<1>7. RootLast'  BY DEF RootLast, MyRef
<1>8. OkAfterLoop'  BY DEF OkAfterLoop
<1>. QED  BY <1>1, <1>2, <1>3, <1>5, <1>6, <1>7, <1>8

\* When the loop is over the root's ref is there: "no root found" cannot occur.
LEMMA FinishIsOk ==
  ASSUME IInv, Finish
  PROVE  outcome' = "ok" /\ left = 0 /\ outcome = "none"
<1>1. left = 0 /\ outcome = "none"  BY DEF Finish
<1>2. Root \in DOMAIN chunk
      BY <1>1, RootIsNode DEF IInv, WrittenFromLeft, Root
<1>3. root_result # NoRef
      BY <1>1, <1>2, RefType DEF IInv, RootLast, TypeOK
<1>. QED  BY <1>1, <1>3 DEF Finish

\* Every step of the executor keeps the invariant.
LEMMA NextIInv == IInv /\ [Next]_vars => IInv'
<1> SUFFICES ASSUME IInv, [Next]_vars PROVE IInv'  OBVIOUS
<1>1. ASSUME NEW n \in ChunkId, Process(n) PROVE IInv'  BY <1>1, ProcessIInv
<1>2. ASSUME NEW n \in ChunkId, EncodeError(n) \/ EncodePanic(n) \/ WriteError(n)
      PROVE  IInv'
  <2>1. /\ UNCHANGED <<parent, left, chunk, current_offset, root_result>>
        /\ outcome' \in {"err", "panic"} /\ left # 0 /\ outcome = "none"
        /\ completed' = [completed EXCEPT ![n] = <<>>]
        BY <1>2 DEF EncodeError, EncodePanic, WriteError, TearChunk, streamVars, Visiting,
           IInv, TypeOK
  <2>2. completed' \in [ChunkId -> Seq(Ref)]  BY <2>1 DEF IInv, TypeOK
  <2>3. StreamTypeOK'
    <3>1. CASE WriteError(n)
      <4>1. StreamTypeOK /\ completed[n] \in Seq(Ref) /\ TearChunk(n, completed[n])
            BY <3>1 DEF WriteError, IInv, TypeOK
      <4>. QED  BY <4>1, TearChunkType
    <3>2. CASE EncodeError(n) \/ EncodePanic(n)
          BY <3>2 DEF EncodeError, EncodePanic, streamVars, StreamTypeOK, IInv, TypeOK
    <3>. QED  BY <1>2, <3>1, <3>2
  <2>. QED  BY <2>1, <2>2, <2>3, EndIInv
<1>3. CASE Finish \/ FlushError
  <2>1. /\ UNCHANGED <<parent, left, completed, streamVars, root_result>>
        /\ outcome' \in {"ok", "err", "panic"} /\ left = 0 /\ outcome = "none"
        BY <1>3, FinishIsOk DEF Finish, FlushError
  <2>. QED  BY <2>1, EndIInv DEF streamVars, IInv, TypeOK, StreamTypeOK
<1>4. CASE UNCHANGED vars
  <2>1. \A m : LinkOrder(m)' = LinkOrder(m) /\ Children(m)' = Children(m) /\ MyRef(m)' = MyRef(m)
                /\ ParentSlot(m)' = ParentSlot(m)
        BY <1>4 DEF LinkOrder, Slots, ChildSeq, Children, ParentSlot, MyRef, vars, streamVars
  <2>2. SlotsFollowLeft'
        BY <1>4, <2>1 DEF SlotsFollowLeft, NoRef, vars, streamVars, IInv
  <2>3. OffsetIsTotal' /\ CodecsTrue'
        BY <1>4 DEF IInv, OffsetIsTotal, total, NodeLength, Slots, Children, CodecsTrue,
           SerialCodec, RequestedId, vars, streamVars
  <2>. QED  BY <1>4, <2>1, <2>2, <2>3 DEF vars, streamVars, IInv, TypeOK, StreamTypeOK,
            WrittenFromLeft, ExtentsBelowOffset, ExtentsApart, FootersLinked, StreamTrue,
            RootLast, OkAfterLoop
<1>. QED  BY <1>1, <1>2, <1>3, <1>4 DEF Next, Iterate, Returned

\* The inductive invariant holds in every reachable state.
LEMMA AlwaysIInv == Spec => []IInv
BY InitIInv, NextIInv, PTL DEF Spec

\* In an environment that injects no fault, and with every compressor the jobs
\* ask for registered, the call cannot fail.
LEMMA NothingFails ==
  ASSUME Faults = {}, \A n \in ChunkId : RequestedId(n) \in Registered,
         IInv, [Next]_vars, outcome \in {"none", "ok"}
  PROVE  outcome' \in {"none", "ok"}
<1>1. ASSUME NEW n \in ChunkId, EncodeError(n) PROVE FALSE
  <2>1. Visiting(n) /\ (MissingChild(n) \/ SerialCodec(n) \notin Registered)
        BY <1>1 DEF EncodeError
  <2>2. ~MissingChild(n)  BY <2>1, SlotsFull
  <2>3. SerialCodec(n) \in Registered  BY DEF SerialCodec
  <2>. QED  BY <2>1, <2>2, <2>3
<1>2. ASSUME NEW n \in ChunkId, EncodePanic(n) \/ WriteError(n) PROVE FALSE
      BY <1>2 DEF EncodePanic, WriteError
<1>3. ~FlushError  BY DEF FlushError
<1>4. ASSUME NEW n \in ChunkId, Process(n) PROVE outcome' = outcome  BY <1>4 DEF Process
<1>5. CASE UNCHANGED vars  BY <1>5 DEF vars
<1>. QED  BY <1>1, <1>2, <1>3, <1>4, <1>5, FinishIsOk DEF Next, Iterate, Returned

\* The iteration that reaches a node finds the refs of all its children in its
\* slots, in link order, so "Missing child result" cannot occur.
THEOREM SerialChildrenReady == Spec => []ChildrenReady
<1>1. ASSUME IInv, NEW n \in ChunkId, Visiting(n)
      PROVE  /\ Children(n) \subseteq DOMAIN chunk
             /\ completed[n] = [i \in Slots(n) |-> MyRef(ChildSeq(n)[i])]
      BY <1>1, SlotsFull DEF LinkOrder
<1>2. IInv => ChildrenReady  BY <1>1 DEF ChildrenReady
<1>. QED  BY <1>2, AlwaysIInv, PTL

\* "ok" only with the whole tree in the stream, every ref true, the root last.
THEOREM SerialOkIsWhole == Spec => []OkMeansWholeTree
<1>1. ASSUME IInv, outcome = "ok"
      PROVE  /\ DOMAIN chunk = ChunkId
             /\ \A n \in ChunkId : chunk[n].at = chunk[n].offset
             /\ root_result = MyRef(Root)
             /\ chunk[Root].at + chunk[Root].length = stream_end
  <2> USE DEF IInv
  <2>1. left = 0  BY <1>1 DEF OkAfterLoop
  <2>2. DOMAIN chunk = ChunkId
        BY <1>1, <2>1, NodeCountAssumption DEF WrittenFromLeft, ChunkId
  <2>. QED  BY <1>1, <2>1, <2>2 DEF StreamTrue, RootLast
<1>2. IInv => OkMeansWholeTree  BY <1>1 DEF OkMeansWholeTree
<1>. QED  BY <1>2, AlwaysIInv, PTL
-----------------------------------------------------------------------------
(***************************************************************************)
(* The refinement: a successful iteration emits its node, the end of the   *)
(* call, however it comes, is Succeed or Fail.                             *)
(***************************************************************************)

\* Footers lead to the children, before a step and after it.
LEMMA DocumentIsTree == IInv => TreeWritten
BY FootersLeadToTree DEF IInv, TypeOK

\* And so they do in the next state.
LEMMA DocumentStaysTree == IInv' => TreeWritten'
BY DocumentIsTree, PTL

\* "ok" says that the whole tree is in the stream, and nothing else.
LEMMA OkDelivers == IInv /\ outcome = "ok" => TreeDelivered
<1> SUFFICES ASSUME IInv, outcome = "ok" PROVE TreeDelivered  OBVIOUS
<1>1. DOMAIN chunk = ChunkId
      BY NodeCountAssumption DEF IInv, OkAfterLoop, WrittenFromLeft, ChunkId
<1>2. TreeWritten  BY DocumentIsTree
<1>3. stream_end = total[ChunkId]  BY <1>1 DEF IInv, StreamTrue, OffsetIsTotal
<1>. QED  BY <1>1, <1>2, <1>3 DEF TreeWritten, TreeDelivered

\* While the tree stands, the document changes only with the set of chunks.
LEMMA DocumentOfChunks ==
  ASSUME IInv, IInv', parent' = parent
  PROVE  /\ document = [m \in DOMAIN chunk |-> ChildSeq(m)]
         /\ document' = [m \in DOMAIN chunk' |-> ChildSeq(m)]
<1>1. \A m : ChildSeq(m)' = ChildSeq(m)
      BY DEF ChildSeq, Children, Slots, ParentSlot
<1>2. TreeWritten /\ TreeWritten'  BY DocumentIsTree, DocumentStaysTree
<1> HIDE DEF document
<1>. QED  BY <1>1, <1>2 DEF TreeWritten

\* An iteration that writes its node emits it (one turn of execute_graph_serial).
LEMMA ProcessRefines ==
  ASSUME IInv, IInv', NEW n \in ChunkId, Process(n)
  PROVE  Abstract!Next
<1>1. Visiting(n) /\ parent' = parent /\ outcome' = outcome /\ outcome = "none"
      BY DEF Process, Visiting
<1>2. n \notin DOMAIN chunk /\ Children(n) \subseteq DOMAIN chunk  BY <1>1, SlotsFull
<1>3. DOMAIN chunk' = DOMAIN chunk \cup {n}  BY ProcessAppends
<1>4. /\ document = [m \in DOMAIN chunk |-> ChildSeq(m)]
      /\ document' = [m \in DOMAIN chunk' |-> ChildSeq(m)]
      BY <1>1, DocumentOfChunks
<1> HIDE DEF document
<1>5. document' = [m \in DOMAIN document \cup {n} |->
                     IF m = n THEN ChildSeq(n) ELSE document[m]]
      BY <1>2, <1>3, <1>4
<1>6. Abstract!ChildSeq(n) = ChildSeq(n) /\ Abstract!Children(n) = Children(n)
      BY DEF Abstract!Children, Abstract!ChildSeq, Abstract!ParentSlot, Abstract!Slots,
         Abstract!ChunkId, Abstract!Cardinality, Abstract!IsFiniteSet, Children, ChildSeq,
         ParentSlot, Slots, ChunkId, Cardinality, IsFiniteSet
<1>7. Abstract!Emit(n)  BY <1>1, <1>2, <1>4, <1>5, <1>6 DEF Abstract!Emit
<1>. QED  BY <1>7 DEF Abstract!Next, Abstract!ChunkId, ChunkId

\* An iteration that fails, the end of the loop, a failing flush.
LEMMA EndRefines ==
  ASSUME IInv, IInv', outcome = "none",
         UNCHANGED <<parent, chunk>>,
         outcome' \in {"ok", "err", "panic"}
  PROVE  Abstract!Next
<1>1. document' = document /\ DOMAIN document = DOMAIN chunk
  <2>1. /\ document = [m \in DOMAIN chunk |-> ChildSeq(m)]
        /\ document' = [m \in DOMAIN chunk' |-> ChildSeq(m)]
        BY DocumentOfChunks
  <2> HIDE DEF document
  <2>. QED  BY <2>1
<1> HIDE DEF document
<1>2. CASE outcome' = "ok"
  <2>1. left' = 0  BY <1>2 DEF IInv, OkAfterLoop
  <2>2. DOMAIN chunk' = {n \in ChunkId : n >= left'}  BY DEF IInv, WrittenFromLeft
  <2>3. DOMAIN chunk = ChunkId  BY <2>1, <2>2, NodeCountAssumption DEF ChunkId
  <2>. QED  BY <1>1, <1>2, <2>3 DEF Abstract!Next, Abstract!Succeed, Abstract!ChunkId, ChunkId
<1>3. CASE outcome' # "ok"  BY <1>1, <1>3 DEF Abstract!Next, Abstract!Fail
<1>. QED  BY <1>2, <1>3

\* The serial executor implements BottomUpWrite.
THEOREM SerialRefines == Spec => WritesBottomUp
<1>1. Init => Abstract!Init
  <2>1. Init => document = [n \in {} |-> <<>>]  BY DEF Init, StreamInit, document
  <2> HIDE DEF document
  <2>. QED  BY <2>1
       DEF Init, Abstract!Init, Abstract!Trees, Abstract!ChunkId, Abstract!Root,
           Abstract!NoParent, Trees, ChunkId, Root, NoParent
<1>2. IInv /\ IInv' /\ [Next]_vars => [Abstract!Next]_(Abstract!vars)
  <2> SUFFICES ASSUME IInv, IInv', [Next]_vars PROVE [Abstract!Next]_(Abstract!vars)
      OBVIOUS
  <2>1. CASE UNCHANGED vars
        BY <2>1 DEF vars, streamVars, Abstract!vars, document, ChunkAt, MyRef
  <2>2. ASSUME NEW n \in ChunkId, EncodeError(n) \/ EncodePanic(n) \/ WriteError(n)
        PROVE  Abstract!Next
    <3>1. /\ outcome = "none" /\ UNCHANGED <<parent, chunk>> /\ outcome' \in {"err", "panic"}
          BY <2>2 DEF EncodeError, EncodePanic, WriteError, TearChunk, streamVars, Visiting
    <3>. QED  BY <3>1, EndRefines
  <2>3. CASE Finish \/ FlushError
    <3>1. /\ outcome = "none" /\ UNCHANGED <<parent, chunk>>
          /\ outcome' \in {"ok", "err", "panic"}
          BY <2>3, FinishIsOk DEF Finish, FlushError, streamVars
    <3>. QED  BY <3>1, EndRefines
  <2>. QED  BY <2>1, <2>2, <2>3, ProcessRefines DEF Next, Iterate, Returned
<1>. QED  BY <1>1, <1>2, AlwaysIInv, PTL DEF Spec, WritesBottomUp, Abstract!Spec
=============================================================================
