---------------------------- MODULE SaveFileProofs ----------------------------
(***************************************************************************)
(* Proofs about SeqWriter and the save that uses it, for every document,    *)
(* every length, every capacity of the BufWriter, every fault of the sink   *)
(* and every moment at which the process dies.                             *)
(*                                                                         *)
(* Of the writer the invariant says where the call in progress stands: how  *)
(* much of its block is already the end of the stream, and what is still to *)
(* come.  Blocks are appended, whole or torn, and nothing else happens.     *)
(* Of save it says that the header is the last block and that no byte of it *)
(* is in the stream before every chunk is, where its ref says: so a file    *)
(* that ends with a header is read back from it byte by byte, and the       *)
(* inspector, whose recursion is told by its depth, comes to an end because *)
(* children are written below their parents.                               *)
(***************************************************************************)
EXTENDS InspectedSave, SequenceTheorems, WellFoundedInduction, TLAPS

Byte == Block \X Nat

\* The bytes of the block being written that the sink has.
Stored == IF call.op \in Block THEN Length[call.op] - Len(call.rest) ELSE 0

\* The first w bytes of block b end the sequence s; what follows them starts t.
EndsWith(s, b, w) == w <= Len(s) /\ \A i \in 1 .. w : s[Len(s) - w + i] = <<b, i>>

GoesOn(t, b, w) == \A i \in 1 .. Len(t) : t[i] = <<b, w + i>>

\* The block being written is stored in order, at the end of the stream, and
\* only a block as long as the buffer bypasses it, when it is empty.
CallTrue ==
  call.op \in Block =>
    /\ call.op \notin DOMAIN acked
    /\ Stored \in 0 .. Length[call.op]
    /\ EndsWith(Stream, call.op, Stored) /\ GoesOn(call.rest, call.op, Stored)
    /\ call.flushing \/ Length[call.op] < WRITE_BUFFER_SIZE => Stored = 0
    /\ ~call.flushing => IF Length[call.op] >= WRITE_BUFFER_SIZE
                           THEN buf = <<>> ELSE Length[call.op] <= Spare

FlushTrue == call.op = "flush" /\ ~call.flushing => buf = <<>>

\* What is appended is of the block being written.
OfTheBlock(t) ==
  \A i \in 1 .. Len(t) : /\ call.op \in Block /\ t[i][1] = call.op
                         /\ t[i][2] \in 1 .. Length[call.op]

\* A refused block may have left some bytes behind, which current_offset does
\* not count; nothing else parts it from the end of the stream.
OffsetFollows == /\ current_offset + Stored <= Len(Stream)
                 /\ refused = {} => current_offset + Stored = Len(Stream)

\* A block acknowledged before a flush that returned Ok is in the sink, where
\* write_all said: "Forces data to disk" (io.rs).
SyncedInSink ==
  \A b \in synced :
    \E at \in acked[b] .. Len(sink) : Holds(sink, b, at) /\ (refused = {} => at = acked[b])

IInv == TypeOK /\ CallTrue /\ FlushTrue /\ OffsetFollows /\ OffsetsTrue /\ SyncedInSink
-----------------------------------------------------------------------------
\* A block is as long as Length says, and made of its own bytes.
LEMMA BlockBytes ==
  ASSUME NEW b \in Block
  PROVE  /\ Length[b] \in Nat \ {0}
         /\ Bytes(b) \in Seq(Byte) /\ Len(Bytes(b)) = Length[b]
         /\ \A i \in 1 .. Length[b] : Bytes(b)[i] = <<b, i>>
<1>1. Length[b] \in Nat \ {0}  BY WriterAssumption
<1>. QED  BY <1>1 DEF Bytes, Byte

\* The n elements of a sequence after the first k.
LEMMA Piece ==
  ASSUME NEW s \in Seq(Byte), NEW k \in Nat, NEW n \in Nat, k + n <= Len(s)
  PROVE  /\ SubSeq(s, k + 1, k + n) \in Seq(Byte)
         /\ Len(SubSeq(s, k + 1, k + n)) = n
         /\ \A i \in 1 .. n : SubSeq(s, k + 1, k + n)[i] = s[k + i]
<1> PICK first \in Int : first = k + 1  OBVIOUS
<1> PICK last \in Int : last = k + n  OBVIOUS
<1>1. \A i \in first .. last : s[i] \in Byte  OBVIOUS
<1>2. /\ SubSeq(s, first, last) \in Seq(Byte)
      /\ Len(SubSeq(s, first, last)) = IF first <= last THEN last - first + 1 ELSE 0
      /\ \A i \in 1 .. last - first + 1 : SubSeq(s, first, last)[i] = s[first + i - 1]
      BY <1>1, SubSeqProperties
<1>3. /\ last - first + 1 = n
      /\ (IF first <= last THEN last - first + 1 ELSE 0) = n
      /\ \A i \in 1 .. n : first + i - 1 = k + i
      OBVIOUS
<1>. QED  BY <1>2, <1>3

\* Whether a sequence holds a block can be read off its elements.
LEMMA HoldsBytes ==
  ASSUME NEW s \in Seq(Byte), NEW b \in Block, NEW at \in Nat
  PROVE  Holds(s, b, at) <=> /\ at + Length[b] <= Len(s)
                             /\ \A i \in 1 .. Length[b] : s[at + i] = <<b, i>>
<1> DEFINE part == SubSeq(s, at + 1, at + Length[b])
<1>1. Length[b] \in Nat \ {0} /\ Len(s) \in Nat  BY BlockBytes
<1>2. SUFFICES ASSUME at + Length[b] <= Len(s)
               PROVE  part = Bytes(b) <=> \A i \in 1 .. Length[b] : s[at + i] = <<b, i>>
      BY <1>2 DEF Holds
<1>3. /\ part \in Seq(Byte) /\ Len(part) = Length[b]
      /\ \A i \in 1 .. Length[b] : part[i] = s[at + i]
      BY <1>1, <1>2, Piece
<1> HIDE DEF part
<1>4. ASSUME \A i \in 1 .. Length[b] : s[at + i] = <<b, i>> PROVE part = Bytes(b)
  <2>1. \A i \in 1 .. Len(part) : part[i] = Bytes(b)[i]  BY <1>3, <1>4, BlockBytes
  <2>. QED  BY <1>3, <2>1, BlockBytes, SeqEqual
<1>5. part = Bytes(b) => \A i \in 1 .. Length[b] : s[at + i] = <<b, i>>
      BY <1>3, BlockBytes
<1>. QED  BY <1>4, <1>5

\* What is appended to a sequence disturbs no block it holds.
LEMMA HoldsStays ==
  ASSUME NEW s \in Seq(Byte), NEW t \in Seq(Byte), NEW b \in Block, NEW at \in Nat,
         Holds(s, b, at)
  PROVE  Holds(s \o t, b, at)
<1>1. Length[b] \in Nat \ {0} /\ Len(s) \in Nat /\ Len(t) \in Nat  BY BlockBytes
<1>2. at + Length[b] <= Len(s) /\ \A i \in 1 .. Length[b] : s[at + i] = <<b, i>>
      BY HoldsBytes
<1>3. s \o t \in Seq(Byte) /\ Len(s \o t) = Len(s) + Len(t)  BY ConcatProperties
<1>4. \A i \in 1 .. Length[b] : (s \o t)[at + i] = s[at + i]
      BY <1>1, <1>2, ConcatProperties
<1>5. \A i \in 1 .. Length[b] : (s \o t)[at + i] = <<b, i>>  BY <1>2, <1>4
<1>6. at + Length[b] <= Len(s \o t)  BY <1>1, <1>2, <1>3
<1> PICK whole \in Seq(Byte) : whole = s \o t  BY <1>3
<1>7. Holds(whole, b, at)  BY <1>5, <1>6, HoldsBytes
<1>. QED  BY <1>7

\* Taking a sequence apart and appending the pieces changes nothing.
LEMMA SplitBytes ==
  ASSUME NEW s \in Seq(Byte), NEW k \in 1 .. Len(s)
  PROVE  /\ SubSeq(s, 1, k) \in Seq(Byte) /\ SubSeq(s, k + 1, Len(s)) \in Seq(Byte)
         /\ Len(SubSeq(s, 1, k)) = k /\ Len(SubSeq(s, k + 1, Len(s))) = Len(s) - k
         /\ \A i \in 1 .. k : SubSeq(s, 1, k)[i] = s[i]
         /\ \A i \in 1 .. Len(s) - k : SubSeq(s, k + 1, Len(s))[i] = s[k + i]
         /\ SubSeq(s, 1, k) \o SubSeq(s, k + 1, Len(s)) = s
<1> DEFINE l == SubSeq(s, 1, k)
           r == SubSeq(s, k + 1, Len(s))
<1>1. Len(s) \in Nat /\ k \in Nat /\ \A i \in 1 .. Len(s) : s[i] \in Byte  OBVIOUS
<1>2. l \in Seq(Byte) /\ Len(l) = k /\ \A i \in 1 .. k : l[i] = s[i]
  <2>1. 0 + 1 = 1 /\ 0 + k = k /\ k <= Len(s) /\ \A i \in 1 .. k : 0 + i = i  BY <1>1
  <2>. QED  BY <1>1, <2>1, Piece
<1>3. r \in Seq(Byte) /\ Len(r) = Len(s) - k /\ \A i \in 1 .. Len(s) - k : r[i] = s[k + i]
  <2> PICK m \in Nat : m = Len(s)  OBVIOUS
  <2>0. k \in 1 .. m /\ m - k \in Nat  OBVIOUS
  <2> PICK n \in Nat : n = m - k  BY <2>0
  <2>1. k + n = Len(s) /\ Len(s) - k = n  BY <2>0
  <2>2. /\ SubSeq(s, k + 1, k + n) \in Seq(Byte) /\ Len(SubSeq(s, k + 1, k + n)) = n
        /\ \A i \in 1 .. n : SubSeq(s, k + 1, k + n)[i] = s[k + i]
        BY <1>1, <2>1, Piece
  <2>. QED  BY <2>1, <2>2
<1> HIDE DEF l, r
<1>4. l \o r = s
  <2>1. l \o r \in Seq(Byte) /\ Len(l \o r) = Len(s)
    <3>1. l \o r \in Seq(Byte) /\ Len(l \o r) = Len(l) + Len(r)
          BY <1>2, <1>3, ConcatProperties
    <3>. QED  BY <1>1, <1>2, <1>3, <3>1
  <2>2. ASSUME NEW i \in 1 .. Len(s) PROVE (l \o r)[i] = s[i]
    <3>1. (l \o r)[i] = IF i <= k THEN l[i] ELSE r[i - k]
          BY <1>1, <1>2, <1>3, ConcatProperties
    <3>2. CASE i <= k  BY <1>1, <1>2, <3>1, <3>2
    <3>3. CASE ~(i <= k)
      <4>1. i - k \in 1 .. Len(s) - k /\ k + (i - k) = i  BY <1>1, <3>3
      <4>. QED  BY <1>3, <3>1, <3>3, <4>1
    <3>. QED  BY <3>2, <3>3
  <2>. QED  BY <2>1, <2>2, SeqEqual
<1>. QED  BY <1>2, <1>3, <1>4 DEF l, r

\* A block of which w bytes end the sequence goes on with the next ones.
LEMMA BlockGoesOn ==
  ASSUME NEW s \in Seq(Byte), NEW l \in Seq(Byte), NEW b \in Block, NEW w \in Nat,
         EndsWith(s, b, w), GoesOn(l, b, w)
  PROVE  EndsWith(s \o l, b, w + Len(l))
<1> PICK m \in Nat : m = Len(s)  OBVIOUS
<1> PICK k \in Nat : k = Len(l)  OBVIOUS
<1>1. s \o l \in Seq(Byte) /\ Len(s \o l) = m + k  BY ConcatProperties
<1>2. /\ w <= m
      /\ \A i \in 1 .. w : s[m - w + i] = <<b, i>>
      /\ \A i \in 1 .. k : l[i] = <<b, w + i>>
      BY DEF EndsWith, GoesOn
<1>3. ASSUME NEW i \in 1 .. w + k PROVE (s \o l)[m - w + i] = <<b, i>>
  <2>0. m - w + i \in Nat  BY <1>2
  <2> PICK j \in Nat : j = m - w + i  BY <2>0
  <2>1. j \in 1 .. m + k  BY <1>2
  <2>2. (s \o l)[j] = IF j <= m THEN s[j] ELSE l[j - m]  BY <2>1, ConcatProperties
  <2>3. CASE i <= w
    <3>1. j <= m /\ i \in 1 .. w  BY <1>2, <2>3
    <3>. QED  BY <1>2, <2>2, <3>1
  <2>4. CASE ~(i <= w)
    <3> PICK o \in Nat : o = i - w  BY <2>4
    <3>1. ~(j <= m) /\ j - m = o /\ o \in 1 .. k /\ w + o = i  BY <1>2, <2>4
    <3>. QED  BY <1>2, <2>2, <3>1
  <2>. QED  BY <2>3, <2>4
<1>4. w + k <= m + k  BY <1>2
<1>5. ASSUME NEW i \in 1 .. w + k
      PROVE  (s \o l)[Len(s \o l) - (w + k) + i] = <<b, i>>
  <2>1. Len(s \o l) - (w + k) + i = m - w + i  BY <1>1
  <2>. QED  BY <1>3, <2>1
<1>6. EndsWith(s \o l, b, w + k)  BY <1>1, <1>4, <1>5 DEF EndsWith
<1>. QED  BY <1>6

-----------------------------------------------------------------------------
\* The stream is a sequence of bytes.
LEMMA StreamType ==
  ASSUME TypeOK
  PROVE  Stream \in Seq(Byte) /\ Len(Stream) = Len(sink) + Len(buf)
<1>1. sink \in Seq(Byte) /\ buf \in Seq(Byte)  BY DEF TypeOK, Byte
<1>. QED  BY <1>1, ConcatProperties DEF Stream

\* What is acknowledged stays true of a stream that has grown.
LEMMA AckedHeld ==
  ASSUME TypeOK, OffsetsTrue, NEW t \in Seq(Byte), NEW b \in DOMAIN acked
  PROVE  \E at \in acked[b] .. Len(Stream \o t) :
           Holds(Stream \o t, b, at) /\ (refused = {} => at = acked[b])
<1>1. Stream \in Seq(Byte) /\ Len(Stream \o t) = Len(Stream) + Len(t)
      BY StreamType, ConcatProperties
<1>2. PICK at \in acked[b] .. Len(Stream) :
             Holds(Stream, b, at) /\ (refused = {} => at = acked[b])
      BY DEF OffsetsTrue
<1>3. b \in Block /\ acked[b] \in Nat /\ at \in Nat  BY <1>1, <1>2 DEF TypeOK
<1>4. Holds(Stream \o t, b, at)  BY <1>1, <1>2, <1>3, HoldsStays
<1>5. at \in acked[b] .. Len(Stream \o t)  BY <1>1, <1>2, <1>3
<1>. QED  BY <1>2, <1>4, <1>5

\* A step that answers no block leaves the answers true.
LEMMA AckedStays ==
  ASSUME TypeOK, OffsetsTrue, NEW t \in Seq(Byte), Stream' = Stream \o t,
         acked' = acked, refused \subseteq refused'
  PROVE  OffsetsTrue'
<1>1. ASSUME NEW b \in DOMAIN acked
      PROVE  \E at \in acked[b] .. Len(Stream \o t) :
               Holds(Stream \o t, b, at) /\ (refused' = {} => at = acked[b])
      BY AckedHeld
<1>. QED  BY <1>1 DEF OffsetsTrue

\* What is in the sink stays there.
LEMMA SyncedStays ==
  ASSUME TypeOK, SyncedInSink, NEW t \in Seq(Byte), sink' = sink \o t,
         synced' = synced, \A b \in synced : acked'[b] = acked[b],
         refused \subseteq refused'
  PROVE  SyncedInSink'
<1>1. sink \in Seq(Byte)  BY DEF TypeOK, Byte
<1>2. Len(sink \o t) = Len(sink) + Len(t)  BY <1>1, ConcatProperties
<1>3. ASSUME NEW b \in synced
      PROVE  \E at \in acked[b] .. Len(sink \o t) :
               Holds(sink \o t, b, at) /\ (refused' = {} => at = acked[b])
  <2>1. PICK at \in acked[b] .. Len(sink) :
               Holds(sink, b, at) /\ (refused = {} => at = acked[b])
        BY DEF SyncedInSink
  <2>2. b \in Block /\ acked[b] \in Nat /\ at \in Nat  BY <2>1, <1>1 DEF TypeOK
  <2>3. Holds(sink \o t, b, at)  BY <1>1, <2>1, <2>2, HoldsStays
  <2>4. at \in acked[b] .. Len(sink \o t)  BY <1>1, <1>2, <2>1, <2>2
  <2>5. refused' = {} => at = acked[b]  BY <2>1
  <2>. QED  BY <2>3, <2>4, <2>5
<1>. QED  BY <1>3 DEF SyncedInSink

\* A step that leaves the stream and the answers alone, or refuses a block.
LEMMA QuietStep ==
  ASSUME TypeOK, OffsetsTrue, SyncedInSink, UNCHANGED <<sink, buf, acked, synced>>,
         refused \subseteq refused'
  PROVE  OffsetsTrue' /\ SyncedInSink'
<1>1. <<>> \in Seq(Byte)  OBVIOUS
<1>2. sink \in Seq(Byte) /\ Stream \in Seq(Byte)  BY StreamType DEF TypeOK, Byte
<1>3. sink' = sink \o <<>> /\ Stream' = Stream \o <<>>
      BY <1>2, ConcatEmptySeq DEF Stream
<1>. QED  BY <1>1, <1>3, AckedStays, SyncedStays

\* Nothing is written at first.
LEMMA InitIInv == SeqWriterInit => IInv
<1> SUFFICES ASSUME SeqWriterInit PROVE IInv  OBVIOUS
<1> USE DEF SeqWriterInit, Idle
<1>1. call.op \notin Block  BY WriterAssumption
<1>2. Len(Stream) = 0  BY ConcatProperties DEF Stream
<1>3. TypeOK
  <2>1. <<>> \in Seq(Block \X Nat) /\ Len(<<>>) = 0 /\ Len(<<>>) <= WRITE_BUFFER_SIZE
        BY WriterAssumption
  <2>2. call \in [op : Block \cup {"none", "flush", "drop"}, flushing : BOOLEAN,
                  rest : Seq(Block \X Nat)]
        BY <2>1
  <2>3. DOMAIN acked = {} /\ acked \in [DOMAIN acked -> Nat]  OBVIOUS
  <2>. QED  BY <2>1, <2>2, <2>3 DEF TypeOK
<1>. QED  BY <1>1, <1>2, <1>3
     DEF IInv, CallTrue, FlushTrue, OffsetFollows, OffsetsTrue, SyncedInSink, Stored

\* A call of write_all starts; a block that fits is not flushed for, and one as
\* long as the buffer fits only when nothing is buffered.
LEMMA WriteAllIInv ==
  ASSUME IInv, NEW b \in Block, WriteAll(b)
  PROVE  IInv'
<1> USE DEF IInv
<1>1. /\ ~InCall /\ b \notin DOMAIN acked
      /\ call' = [op |-> b, flushing |-> Length[b] > Spare, rest |-> Bytes(b)]
      /\ UNCHANGED <<sink, buf, panicked, poisoned, current_offset, acked, refused, synced>>
      BY DEF WriteAll, FlushesFirst
<1>2. call.op = "none" /\ call.op \notin Block  BY <1>1, WriterAssumption DEF InCall
<1>3. Stored = 0 /\ Stored' = 0  BY <1>1, <1>2, BlockBytes DEF Stored
<1>4. Stream' = Stream /\ Stream \in Seq(Byte)  BY <1>1, StreamType DEF Stream
<1>5. TypeOK'  BY <1>1, BlockBytes DEF TypeOK, Byte
<1>6. ~call'.flushing => IF Length[b] >= WRITE_BUFFER_SIZE
                           THEN buf = <<>> ELSE Length[b] <= Spare
  <2>1. Len(buf) \in Nat /\ Spare = WRITE_BUFFER_SIZE - Len(buf)
        /\ Length[b] \in Nat /\ WRITE_BUFFER_SIZE \in Nat
        BY BlockBytes, WriterAssumption DEF TypeOK, Spare
  <2>2. ~call'.flushing => Length[b] <= Spare
    <3>1. call'.flushing = (Length[b] > Spare)  BY <1>1
    <3>2. ~(Length[b] > Spare) => Length[b] <= Spare  BY <2>1
    <3>. QED  BY <3>1, <3>2
  <2>3. Len(buf) = 0 => buf = <<>>  BY DEF TypeOK
  <2>. QED  BY <2>1, <2>2, <2>3
<1>7. CallTrue'
  <2>1. Spare' = Spare  BY <1>1 DEF Spare
  <2>2. EndsWith(Stream, b, 0)  BY <1>4 DEF EndsWith
  <2>3. GoesOn(Bytes(b), b, 0)  BY BlockBytes DEF GoesOn
  <2>. QED  BY <1>1, <1>3, <1>4, <1>6, <2>1, <2>2, <2>3, BlockBytes DEF CallTrue
<1>8. FlushTrue'  BY <1>1, WriterAssumption DEF FlushTrue
<1>9. OffsetFollows'  BY <1>1, <1>3, <1>4 DEF OffsetFollows
<1>. QED  BY <1>1, <1>5, <1>7, <1>8, <1>9, QuietStep
\* Calls that write nothing themselves: a write_all that finds the mutex
\* poisoned, and the start of a flush or of the drop.
LEMMA OtherCallIInv ==
  ASSUME IInv, (\E b \in Block : WriteAllPoisoned(b)) \/ Flush \/ Drop
  PROVE  IInv'
<1> USE DEF IInv
<1>1. /\ ~InCall
      /\ UNCHANGED <<sink, buf, current_offset, acked, synced>>
      /\ refused \subseteq refused'
      BY DEF WriteAllPoisoned, Flush, Drop
<1>2. call.op \notin Block  BY <1>1, WriterAssumption DEF InCall
<1>3. call'.op \notin Block /\ TypeOK' /\ FlushTrue'
  <2>1. CASE \E b \in Block : WriteAllPoisoned(b)
        BY <1>2, <2>1 DEF WriteAllPoisoned, TypeOK, InCall, FlushTrue
  <2>2. CASE Flush
        BY <2>2, WriterAssumption DEF Flush, TypeOK, FlushTrue
  <2>3. CASE Drop
        BY <2>3, WriterAssumption DEF Drop, TypeOK, FlushTrue
  <2>. QED  BY <2>1, <2>2, <2>3
<1>4. Stored = 0 /\ Stored' = 0  BY <1>2, <1>3 DEF Stored
<1>5. Stream' = Stream  BY <1>1 DEF Stream
<1>6. OffsetFollows'  BY <1>1, <1>4, <1>5 DEF OffsetFollows
<1>7. CallTrue'  BY <1>3 DEF CallTrue
<1>. QED  BY <1>1, <1>3, <1>6, <1>7, QuietStep

\* flush_buf moves bytes from the buffer to the sink: the stream stays.
LEMMA SinkTakesBufferIInv ==
  ASSUME IInv, SinkTakesBuffer
  PROVE  IInv' /\ Stream' = Stream
<1> USE DEF IInv
<1>1. sink \in Seq(Byte) /\ buf \in Seq(Byte)  BY DEF TypeOK, Byte
<1>2. /\ call.flushing
      /\ UNCHANGED <<panicked, poisoned, current_offset, call, acked, refused, synced>>
      BY DEF SinkTakesBuffer
<1>3. PICK l \in Seq(Byte), r \in Seq(Byte) :
             /\ sink' = sink \o l /\ buf' = r /\ l \o r = buf /\ Len(r) <= Len(buf)
  <2>1. PICK k \in 1 .. Len(buf) : /\ sink' = sink \o SubSeq(buf, 1, k)
                                   /\ buf' = SubSeq(buf, k + 1, Len(buf))
        BY DEF SinkTakesBuffer
  <2>2. /\ SubSeq(buf, 1, k) \in Seq(Byte) /\ SubSeq(buf, k + 1, Len(buf)) \in Seq(Byte)
        /\ Len(SubSeq(buf, k + 1, Len(buf))) = Len(buf) - k
        /\ SubSeq(buf, 1, k) \o SubSeq(buf, k + 1, Len(buf)) = buf
        BY <1>1, SplitBytes
  <2>3. Len(buf) - k <= Len(buf)  BY <1>1
  <2>. QED  BY <2>1, <2>2, <2>3
<1>4. (sink \o l) \o r = sink \o (l \o r)  BY <1>1, ConcatAssociative
<1>5. Stream' = Stream  BY <1>3, <1>4 DEF Stream
<1>6. sink' \in Seq(Byte) /\ buf' \in Seq(Byte) /\ Len(buf') <= WRITE_BUFFER_SIZE
  <2>1. sink' \in Seq(Byte)  BY <1>1, <1>3, ConcatProperties
  <2>2. Len(buf) \in Nat /\ Len(buf) <= WRITE_BUFFER_SIZE /\ Len(r) \in Nat
        BY <1>1 DEF TypeOK
  <2>. QED  BY <1>3, <2>1, <2>2, WriterAssumption
<1>7. TypeOK'  BY <1>2, <1>6 DEF TypeOK, Byte
<1>8. Stored' = Stored  BY <1>2 DEF Stored
<1>9. CallTrue' /\ FlushTrue' /\ OffsetFollows'
      BY <1>2, <1>5, <1>8 DEF CallTrue, FlushTrue, OffsetFollows
<1>10. OffsetsTrue'  BY <1>2, <1>5 DEF OffsetsTrue
<1>11. SyncedInSink'  BY <1>2, <1>3, SyncedStays
<1>. QED  BY <1>5, <1>7, <1>9, <1>10, <1>11

\* The buffer is empty: a long block may now bypass it, a short one fits.
LEMMA BufferFlushedIInv ==
  ASSUME IInv, BufferFlushed
  PROVE  IInv'
<1> USE DEF IInv
<1>1. /\ call.flushing /\ buf = <<>> /\ call' = [call EXCEPT !.flushing = FALSE]
      /\ UNCHANGED <<sink, buf, panicked, poisoned, current_offset, acked, refused, synced>>
      BY DEF BufferFlushed
<1>2. call'.op = call.op /\ call'.rest = call.rest /\ call'.flushing = FALSE
      BY <1>1 DEF TypeOK
<1>3. TypeOK'  BY <1>1 DEF TypeOK
<1>4. Stored' = Stored /\ Stream' = Stream  BY <1>1, <1>2 DEF Stored, Stream
<1>5. FlushTrue' /\ OffsetFollows'  BY <1>1, <1>2, <1>4 DEF FlushTrue, OffsetFollows
<1>6. CallTrue'
  <2>1. Spare' = WRITE_BUFFER_SIZE /\ WRITE_BUFFER_SIZE \in Nat
        BY <1>1, WriterAssumption DEF Spare
  <2>2. call.op \in Block => Length[call.op] >= WRITE_BUFFER_SIZE \/ Length[call.op] <= Spare'
        BY <2>1, BlockBytes
  <2>. QED  BY <1>1, <1>2, <1>4, <2>2 DEF CallTrue
<1>. QED  BY <1>1, <1>3, <1>5, <1>6, QuietStep

\* A long block goes to the sink piece by piece: the stream ends with what it
\* has taken.
LEMMA SinkTakesBlockIInv ==
  ASSUME IInv, SinkTakesBlock
  PROVE  /\ IInv'
         /\ \E t \in Seq(Byte) :
              Stream' = Stream \o t /\ sink' = sink \o t /\ OfTheBlock(t)
<1> USE DEF IInv
<1>0. PICK b \in Block : b = call.op  BY DEF SinkTakesBlock
<1>1. /\ ~call.flushing /\ Length[b] >= WRITE_BUFFER_SIZE
      /\ UNCHANGED <<buf, panicked, poisoned, current_offset, acked, refused, synced>>
      BY <1>0 DEF SinkTakesBlock
<1>2. sink \in Seq(Byte) /\ buf = <<>> /\ call.rest \in Seq(Byte)
      BY <1>0, <1>1 DEF TypeOK, CallTrue, Byte
<1>3. PICK n \in Nat, k \in Nat, l \in Seq(Byte), r \in Seq(Byte) :
             /\ n = Len(call.rest) /\ k <= n /\ Len(l) = k /\ Len(r) = n - k
             /\ sink' = sink \o l /\ call' = [call EXCEPT !.rest = r]
             /\ \A i \in 1 .. k : l[i] = call.rest[i]
             /\ \A i \in 1 .. n - k : r[i] = call.rest[k + i]
  <2> PICK rest \in Seq(Byte) : rest = call.rest  BY <1>2
  <2>1. PICK k \in 1 .. Len(rest) :
               /\ sink' = sink \o SubSeq(rest, 1, k)
               /\ call' = [call EXCEPT !.rest = SubSeq(rest, k + 1, Len(rest))]
        BY DEF SinkTakesBlock
  <2>2. Len(rest) \in Nat /\ k \in Nat /\ k <= Len(rest)  OBVIOUS
  <2>3. PICK l \in Seq(Byte), r \in Seq(Byte) :
               /\ l = SubSeq(rest, 1, k) /\ r = SubSeq(rest, k + 1, Len(rest))
               /\ Len(l) = k /\ Len(r) = Len(rest) - k
               /\ \A i \in 1 .. k : l[i] = rest[i]
               /\ \A i \in 1 .. Len(rest) - k : r[i] = rest[k + i]
        BY SplitBytes
  <2>4. sink' = sink \o l /\ call' = [call EXCEPT !.rest = r]  BY <2>1, <2>3
  <2> WITNESS Len(rest) \in Nat, k \in Nat, l \in Seq(Byte), r \in Seq(Byte)
  <2>. QED  BY <2>2, <2>3, <2>4
<1>4. call'.op = b /\ call'.rest = r /\ ~call'.flushing  BY <1>0, <1>1, <1>3 DEF TypeOK
<1>5. PICK len \in Nat : len = Length[b]  BY BlockBytes
<1>6. PICK end \in Nat : end = Len(Stream)  BY StreamType
<1>7. PICK w \in Nat : w = Stored  BY <1>0 DEF CallTrue
<1>8. w + n = len  BY <1>0, <1>3, <1>5, <1>7 DEF Stored
<1>9. Stored' = w + k
  <2>1. Stored' = len - (n - k)  BY <1>3, <1>4, <1>5 DEF Stored
  <2>. QED  BY <1>8, <2>1
<1>10. Stream = sink /\ Stream' = Stream \o l /\ sink' = sink \o l /\ Stream \in Seq(Byte)
  <2>1. sink \o l \in Seq(Byte)  BY <1>2, ConcatProperties
  <2>. QED  BY <1>1, <1>2, <1>3, <2>1, ConcatEmptySeq DEF Stream
<1>11. /\ b \notin DOMAIN acked /\ w <= end
       /\ EndsWith(Stream, b, w) /\ GoesOn(call.rest, b, w)
       BY <1>0, <1>6, <1>7 DEF CallTrue, EndsWith
<1>12. Len(Stream') = end + k /\ EndsWith(Stream', b, w + k)
  <2>1. \A i \in 1 .. k : i \in 1 .. n  BY <1>3
  <2>2. GoesOn(l, b, w)  BY <1>3, <1>11, <2>1 DEF GoesOn
  <2> PICK s \in Seq(Byte) : s = Stream  BY <1>10
  <2>3. EndsWith(s \o l, b, w + Len(l))  BY <1>11, <2>2, BlockGoesOn
  <2>4. Len(s \o l) = Len(s) + Len(l)  BY ConcatProperties
  <2>5. Len(s \o l) = end + k  BY <1>3, <1>6, <2>4
  <2>. QED  BY <1>3, <1>10, <2>3, <2>5
<1>13. TypeOK'
  <2>1. sink' \in Seq(Byte)  BY <1>2, <1>10, ConcatProperties
  <2>2. call' \in [op : Block \cup {"none", "flush", "drop"}, flushing : BOOLEAN,
                   rest : Seq(Block \X Nat)]
        BY <1>3 DEF TypeOK, Byte
  <2>. QED  BY <1>1, <2>1, <2>2 DEF TypeOK, Byte
<1>14. CallTrue'
  <2>0. k <= n /\ w <= end  BY <1>3, <1>11
  <2>1. w + k \in 0 .. len /\ w + k <= end + k  BY <1>8, <2>0
  <2>2. GoesOn(r, b, w + k)
    <3>1. \A i \in 1 .. n - k : k + i \in 1 .. n /\ w + (k + i) = (w + k) + i  BY <1>3
    <3>. QED  BY <1>3, <1>11, <3>1 DEF GoesOn
  <2>4. ~(len < WRITE_BUFFER_SIZE)  BY <1>1, <1>5, WriterAssumption
  <2>. QED  BY <1>1, <1>2, <1>4, <1>5, <1>9, <1>11, <1>12, <2>1, <2>2, <2>4
       DEF CallTrue
<1>15. FlushTrue'  BY <1>4, WriterAssumption DEF FlushTrue
<1>16. OffsetFollows'
  <2>1. current_offset \in Nat /\ current_offset + w <= end
        /\ (refused = {} => current_offset + w = end)
        BY <1>6, <1>7 DEF OffsetFollows, TypeOK
  <2>2. current_offset + (w + k) <= end + k
        /\ (refused = {} => current_offset + (w + k) = end + k)
        BY <2>1
  <2>. QED  BY <1>1, <1>9, <1>12, <2>2 DEF OffsetFollows
<1>17. OffsetsTrue'  BY <1>1, <1>10, AckedStays
<1>18. SyncedInSink'  BY <1>1, <1>10, SyncedStays
<1>19. OfTheBlock(l)
  <2>1. ASSUME NEW i \in 1 .. k PROVE l[i] = <<b, w + i>> /\ w + i \in 1 .. len
    <3>0. k <= n  BY <1>3
    <3>1. i \in 1 .. n /\ w + i \in 1 .. len  BY <3>0, <1>8
    <3>. QED  BY <1>3, <1>11, <3>1 DEF GoesOn
  <2>. QED  BY <1>0, <1>3, <1>5, <2>1 DEF OfTheBlock
<1>. QED  BY <1>10, <1>13, <1>14, <1>15, <1>16, <1>17, <1>18, <1>19

\* The bytes of a block at the end of a sequence are where that block is held.
LEMMA HeldAtEnd ==
  ASSUME NEW s \in Seq(Byte), NEW b \in Block, EndsWith(s, b, Length[b])
  PROVE  Len(s) - Length[b] \in Nat /\ Holds(s, b, Len(s) - Length[b])
<1> PICK m \in Nat : m = Len(s)  OBVIOUS
<1> PICK len \in Nat : len = Length[b]  BY BlockBytes
<1>1. len <= m /\ \A i \in 1 .. len : s[m - len + i] = <<b, i>>  BY DEF EndsWith
<1>2. m - len \in Nat  BY <1>1
<1> PICK at \in Nat : at = m - len  BY <1>2
<1>3. at + len <= m /\ \A i \in 1 .. len : s[at + i] = <<b, i>>  BY <1>1
<1>4. Holds(s, b, at)  BY <1>3, HoldsBytes
<1>. QED  BY <1>2, <1>4

\* When write_all returns, its block is the end of the stream, and as far from
\* its beginning as the offset it hands out, or farther.
LEMMA WriteOkAppends ==
  ASSUME IInv, WriteOk
  PROVE  /\ call.op \in Block /\ call.op \notin DOMAIN acked
         /\ buf' \in Seq(Byte) /\ Len(buf') <= WRITE_BUFFER_SIZE /\ sink' = sink
         /\ EndsWith(Stream', call.op, Length[call.op])
         /\ current_offset + Length[call.op] <= Len(Stream')
         /\ refused = {} => current_offset + Length[call.op] = Len(Stream')
         /\ \E t \in Seq(Byte) : Stream' = Stream \o t /\ OfTheBlock(t)
<1> USE DEF IInv
<1>0. PICK b \in Block : b = call.op  BY DEF WriteOk
<1>1. /\ ~call.flushing /\ UNCHANGED <<sink, refused>>
      /\ IF Length[b] >= WRITE_BUFFER_SIZE THEN call.rest = <<>> /\ UNCHANGED buf
         ELSE buf' = buf \o call.rest
      BY <1>0 DEF WriteOk
<1>2. PICK rest \in Seq(Byte) : rest = call.rest  BY DEF TypeOK, Byte
<1>3. PICK len \in Nat : len = Length[b]  BY BlockBytes
<1>4. PICK n \in Nat : n = Len(rest)  OBVIOUS
<1>5. PICK w \in Nat : w = Stored  BY <1>0 DEF CallTrue
<1>6. w + n = len  BY <1>0, <1>2, <1>3, <1>4, <1>5 DEF Stored
<1>7. PICK s \in Seq(Byte) : s = Stream  BY StreamType
<1>8. PICK end \in Nat : end = Len(s)  OBVIOUS
<1>9. /\ b \notin DOMAIN acked /\ EndsWith(s, b, w) /\ GoesOn(rest, b, w)
      /\ len < WRITE_BUFFER_SIZE => w = 0 /\ len <= Spare
      BY <1>0, <1>1, <1>2, <1>3, <1>5, <1>7, WriterAssumption DEF CallTrue
<1>10. /\ current_offset \in Nat /\ current_offset + w <= end
       /\ refused = {} => current_offset + w = end
       BY <1>5, <1>7, <1>8 DEF OffsetFollows, TypeOK
<1>11. sink \in Seq(Byte) /\ buf \in Seq(Byte) /\ Len(buf) <= WRITE_BUFFER_SIZE
       BY DEF TypeOK, Byte
<1>12. s \o rest \in Seq(Byte) /\ Len(s \o rest) = end + n
  <2>1. s \o rest \in Seq(Byte) /\ Len(s \o rest) = Len(s) + Len(rest)
        BY ConcatProperties
  <2>. QED  BY <1>4, <1>8, <2>1
<1>13. Stream' = s \o rest /\ buf' \in Seq(Byte) /\ Len(buf') <= WRITE_BUFFER_SIZE
  <2>1. CASE Length[b] >= WRITE_BUFFER_SIZE
    <3>1. rest = <<>> /\ buf' = buf  BY <1>1, <1>2, <2>1
    <3>2. Stream' = s  BY <1>1, <1>7, <3>1 DEF Stream
    <3>. QED  BY <1>11, <3>1, <3>2, ConcatEmptySeq
  <2>2. CASE ~(Length[b] >= WRITE_BUFFER_SIZE)
    <3>1. buf' = buf \o rest  BY <1>1, <1>2, <2>2
    <3>2. (sink \o buf) \o rest = sink \o (buf \o rest)  BY <1>11, ConcatAssociative
    <3>3. Stream' = s \o rest  BY <1>1, <1>7, <3>1, <3>2 DEF Stream
    <3>4. buf \o rest \in Seq(Byte) /\ Len(buf \o rest) = Len(buf) + Len(rest)
          BY <1>11, ConcatProperties
    <3>5. n <= WRITE_BUFFER_SIZE - Len(buf) /\ Len(buf) \in Nat
          BY <1>3, <1>6, <1>9, <1>11, <2>2, WriterAssumption DEF Spare
    <3>6. Len(buf) + n <= WRITE_BUFFER_SIZE  BY <3>5, WriterAssumption
    <3>. QED  BY <1>4, <3>1, <3>3, <3>4, <3>6
  <2>. QED  BY <2>1, <2>2
<1>14. EndsWith(s \o rest, b, len)
  <2>1. EndsWith(s \o rest, b, w + Len(rest))  BY <1>9, BlockGoesOn
  <2>. QED  BY <1>4, <1>6, <2>1
<1>15. /\ current_offset + len <= end + n
       /\ refused = {} => current_offset + len = end + n
       BY <1>6, <1>10
<1>16. OfTheBlock(rest)
  <2>1. ASSUME NEW i \in 1 .. n PROVE rest[i] = <<b, w + i>> /\ w + i \in 1 .. len
        BY <1>4, <1>6, <1>9 DEF GoesOn
  <2>. QED  BY <1>0, <1>3, <1>4, <2>1 DEF OfTheBlock
<1>. QED  BY <1>0, <1>1, <1>3, <1>7, <1>9, <1>12, <1>13, <1>14, <1>15, <1>16

\* write_all returns Ok.
LEMMA WriteOkIInv ==
  ASSUME IInv, WriteOk
  PROVE  IInv'
<1> USE DEF IInv
<1>0. PICK b \in Block : b = call.op  BY DEF WriteOk
<1>1. /\ current_offset' = current_offset + Length[b]
      /\ acked' = [x \in DOMAIN acked \cup {b} |->
                     IF x = b THEN current_offset ELSE acked[x]]
      /\ call' = Idle
      /\ UNCHANGED <<sink, panicked, poisoned, refused, synced>>
      BY <1>0 DEF WriteOk, StartOffset
<1>2. /\ b \notin DOMAIN acked
      /\ buf' \in Seq(Byte) /\ Len(buf') <= WRITE_BUFFER_SIZE
      /\ EndsWith(Stream', b, Length[b])
      /\ current_offset + Length[b] <= Len(Stream')
      /\ refused = {} => current_offset + Length[b] = Len(Stream')
      BY <1>0, WriteOkAppends
<1>3. PICK t \in Seq(Byte) : Stream' = Stream \o t  BY WriteOkAppends
<1>4. call'.op \notin Block /\ call'.op = "none"  BY <1>1, WriterAssumption DEF Idle
<1>5. TypeOK'
  <2>1. call' \in [op : Block \cup {"none", "flush", "drop"}, flushing : BOOLEAN,
                   rest : Seq(Block \X Nat)]
        BY <1>1 DEF Idle
  <2>2. current_offset \in Nat /\ current_offset' \in Nat
        BY <1>1, BlockBytes DEF TypeOK
  <2>3. DOMAIN acked' \subseteq Block /\ acked' \in [DOMAIN acked' -> Nat]
        BY <1>1, <2>2 DEF TypeOK
  <2>. QED  BY <1>1, <1>2, <2>1, <2>2, <2>3 DEF TypeOK, Byte
<1>6. CallTrue' /\ FlushTrue'  BY <1>4 DEF CallTrue, FlushTrue
<1>7. OffsetFollows'
  <2>1. Stored' = 0 /\ current_offset' \in Nat  BY <1>4, <1>5 DEF Stored, TypeOK
  <2>. QED  BY <1>1, <1>2, <2>1 DEF OffsetFollows
<1>8. OffsetsTrue'
  <2>1. Stream' \in Seq(Byte)  BY <1>3, StreamType, ConcatProperties
  <2> PICK s \in Seq(Byte) : s = Stream'  BY <2>1
  <2>2. ASSUME NEW x \in DOMAIN acked
        PROVE  \E at \in acked'[x] .. Len(s) :
                 Holds(s, x, at) /\ (refused' = {} => at = acked'[x])
    <3>1. acked'[x] = acked[x]  BY <1>1, <1>2
    <3>. QED  BY <1>1, <1>3, <3>1, AckedHeld
  <2>3. \E at \in acked'[b] .. Len(s) :
           Holds(s, b, at) /\ (refused' = {} => at = acked'[b])
    <3>1. Holds(s, b, Len(s) - Length[b]) /\ Len(s) - Length[b] \in Nat
          BY <1>2, HeldAtEnd
    <3> PICK at \in Nat : at = Len(s) - Length[b]  BY <3>1
    <3>2. acked'[b] = current_offset /\ current_offset \in Nat  BY <1>1 DEF TypeOK
    <3>3. Length[b] \in Nat /\ Len(s) \in Nat  BY BlockBytes
    <3>4. current_offset + Length[b] <= Len(s)
          /\ (refused = {} => current_offset + Length[b] = Len(s))
          BY <1>2
    <3>5. at \in current_offset .. Len(s) /\ (refused = {} => at = current_offset)
          BY <3>2, <3>3, <3>4
    <3>. QED  BY <1>1, <3>1, <3>2, <3>5
  <2>4. DOMAIN acked' = DOMAIN acked \cup {b}  BY <1>1
  <2>5. \A x \in DOMAIN acked' : \E at \in acked'[x] .. Len(s) :
           Holds(s, x, at) /\ (refused' = {} => at = acked'[x])
        BY <2>2, <2>3, <2>4
  <2>. QED  BY <2>5 DEF OffsetsTrue
<1>9. SyncedInSink'
  <2>1. <<>> \in Seq(Byte) /\ sink \in Seq(Byte)  BY DEF TypeOK, Byte
  <2>2. sink' = sink \o <<>>  BY <1>1, <2>1, ConcatEmptySeq
  <2>3. \A x \in synced : acked'[x] = acked[x]  BY <1>1, <1>2 DEF TypeOK
  <2>. QED  BY <1>1, <2>1, <2>2, <2>3, SyncedStays
<1>. QED  BY <1>5, <1>6, <1>7, <1>8, <1>9

\* A flush that returns Ok leaves nothing in the buffer: what was acknowledged
\* by then is in the sink.
LEMMA FlushOkIInv ==
  ASSUME IInv, FlushOk
  PROVE  IInv'
<1> USE DEF IInv
<1>1. /\ call.op = "flush" /\ ~call.flushing /\ synced' = DOMAIN acked /\ call' = Idle
      /\ UNCHANGED <<sink, buf, panicked, poisoned, current_offset, acked, refused>>
      BY DEF FlushOk
<1>2. call.op \notin Block /\ call'.op \notin Block /\ call'.op = "none"
      BY <1>1, WriterAssumption DEF Idle
<1>3. sink \in Seq(Byte) /\ buf = <<>>  BY <1>1 DEF TypeOK, Byte, FlushTrue
<1>4. Stream = sink /\ Stream' = Stream  BY <1>1, <1>3, ConcatEmptySeq DEF Stream
<1>5. TypeOK'
  <2>1. call' \in [op : Block \cup {"none", "flush", "drop"}, flushing : BOOLEAN,
                   rest : Seq(Block \X Nat)]
        BY <1>1 DEF Idle
  <2>. QED  BY <1>1, <2>1 DEF TypeOK
<1>6. CallTrue' /\ FlushTrue'  BY <1>2 DEF CallTrue, FlushTrue
<1>7. OffsetFollows'
  <2>1. Stored = 0 /\ Stored' = 0  BY <1>2 DEF Stored
  <2>. QED  BY <1>1, <1>4, <2>1 DEF OffsetFollows
<1>8. OffsetsTrue'  BY <1>1, <1>4 DEF OffsetsTrue
<1>9. SyncedInSink'  BY <1>1, <1>4 DEF OffsetsTrue, SyncedInSink
<1>. QED  BY <1>5, <1>6, <1>7, <1>8, <1>9

\* The sink fails or panics: the block being written is refused, the bytes of
\* it that were stored stay behind.
LEMMA SinkFailsIInv ==
  ASSUME IInv, SinkError \/ SinkPanic
  PROVE  IInv'
<1> USE DEF IInv
<1>1. /\ refused' = refused \cup ({call.op} \cap Block)
      /\ UNCHANGED <<sink, buf, current_offset, acked, synced>>
      BY DEF SinkError, SinkPanic
<1>2. \/ call' = Idle
      \/ call.op = "drop" /\ call' = [call EXCEPT !.flushing = FALSE]
      BY DEF SinkError, SinkPanic
<1>3. call'.op \notin Block /\ call'.op # "flush"
      BY <1>2, WriterAssumption DEF Idle, TypeOK
<1>4. TypeOK'
  <2>1. call' \in [op : Block \cup {"none", "flush", "drop"}, flushing : BOOLEAN,
                   rest : Seq(Block \X Nat)]
    <3>1. CASE call' = Idle
      <4>1. <<>> \in Seq(Block \X Nat)  OBVIOUS
      <4>. QED  BY <3>1, <4>1 DEF Idle
    <3>2. CASE call' = [call EXCEPT !.flushing = FALSE]  BY <3>2 DEF TypeOK
    <3>. QED  BY <1>2, <3>1, <3>2
  <2>2. panicked' \in BOOLEAN /\ poisoned' \in BOOLEAN
        BY DEF SinkError, SinkPanic, TypeOK
  <2>. QED  BY <1>1, <2>1, <2>2 DEF TypeOK
<1>5. CallTrue' /\ FlushTrue'  BY <1>3 DEF CallTrue, FlushTrue
<1>6. OffsetFollows'
  <2>1. Stream' = Stream /\ Stored' = 0  BY <1>1, <1>3 DEF Stream, Stored
  <2>2. /\ current_offset \in Nat /\ Len(Stream) \in Nat /\ Stored \in Nat
        /\ current_offset + Stored <= Len(Stream)
        /\ refused = {} => current_offset + Stored = Len(Stream)
        BY StreamType DEF TypeOK, CallTrue, Stored, OffsetFollows
  <2>3. refused' = {} => refused = {} /\ Stored = 0  BY <1>1 DEF Stored
  <2>. QED  BY <1>1, <2>1, <2>2, <2>3 DEF OffsetFollows
<1>. QED  BY <1>1, <1>4, <1>5, <1>6, QuietStep

\* The writer keeps its invariant in every step.
LEMMA NextIInv == IInv /\ [SeqWriterNext]_seqWriterVars => IInv'
<1> SUFFICES ASSUME IInv, [SeqWriterNext]_seqWriterVars PROVE IInv'  OBVIOUS
<1>1. CASE UNCHANGED seqWriterVars
      BY <1>1 DEF seqWriterVars, IInv, TypeOK, CallTrue, FlushTrue, OffsetFollows, OffsetsTrue,
         SyncedInSink, Stream, Stored, Spare
<1>2. CASE \E b \in Block : WriteAll(b)  BY <1>2, WriteAllIInv
<1>3. CASE (\E b \in Block : WriteAllPoisoned(b)) \/ Flush \/ Drop
      BY <1>3, OtherCallIInv
<1>4. CASE InCallStep
      BY <1>4, SinkTakesBufferIInv, BufferFlushedIInv, SinkTakesBlockIInv, WriteOkIInv,
         FlushOkIInv, SinkFailsIInv DEF InCallStep
<1>. QED  BY <1>1, <1>2, <1>3, <1>4 DEF SeqWriterNext, Gone

\* The invariant holds of the writer, whatever is called and whatever fails.
LEMMA AlwaysIInv == SeqWriterSpec => []IInv
BY InitIInv, NextIInv, PTL DEF SeqWriterSpec
-----------------------------------------------------------------------------
\* The buffer never outgrows its capacity, and every variable has its type.
THEOREM WriterTypeCorrect == SeqWriterSpec => []TypeOK
<1>1. IInv => TypeOK  BY DEF IInv
<1>. QED  BY <1>1, AlwaysIInv, PTL

\* "Returns the byte offset where the chunk begins" (io.rs): so it does as long
\* as no write was refused, and an acknowledged block is whole in any case.
THEOREM OffsetsAreTrue == SeqWriterSpec => []OffsetsTrue
<1>1. IInv => OffsetsTrue  BY DEF IInv
<1>. QED  BY <1>1, AlwaysIInv, PTL

\* What was acknowledged before a flush returned Ok is in the sink, whatever
\* fails afterwards: a process killed then loses none of it.
THEOREM FlushedIsInSink == SeqWriterSpec => []SyncedInSink
<1>1. IInv => SyncedInSink  BY DEF IInv
<1>. QED  BY <1>1, AlwaysIInv, PTL

\* Appending disturbs nothing that was there.
LEMMA PrefixStays ==
  ASSUME NEW s \in Seq(Byte), NEW t \in Seq(Byte)
  PROVE  /\ Len(s \o t) >= Len(s)
         /\ SubSeq(s \o t, 1, Len(s)) = s
         /\ \A i \in 1 .. Len(s) : (s \o t)[i] = s[i]
<1> PICK w \in Seq(Byte) : w = s \o t  BY ConcatProperties
<1> PICK n \in Nat : n = Len(s)  OBVIOUS
<1>1. Len(w) = n + Len(t) /\ n <= Len(w)  BY ConcatProperties
<1>2. \A i \in 1 .. n : w[i] = s[i]  BY ConcatProperties
<1>3. 0 + 1 = 1 /\ 0 + n = n /\ \A i \in 1 .. n : 0 + i = i  OBVIOUS
<1>4. /\ SubSeq(w, 1, n) \in Seq(Byte) /\ Len(SubSeq(w, 1, n)) = n
      /\ \A i \in 1 .. n : SubSeq(w, 1, n)[i] = w[i]
      BY <1>1, <1>3, Piece
<1>5. SubSeq(w, 1, n) = s  BY <1>2, <1>4, SeqEqual
<1>. QED  BY <1>1, <1>2, <1>5

\* Every step appends to the sink and to the stream, and to the stream nothing
\* but bytes of the block being written.
LEMMA StepAppends ==
  ASSUME IInv, SeqWriterNext
  PROVE  /\ \E t \in Seq(Byte) : sink' = sink \o t
         /\ \E t \in Seq(Byte) : Stream' = Stream \o t /\ OfTheBlock(t)
<1> USE DEF IInv
<1>1. sink \in Seq(Byte) /\ Stream \in Seq(Byte) /\ <<>> \in Seq(Byte)
      BY StreamType DEF TypeOK, Byte
<1>2. sink = sink \o <<>> /\ Stream = Stream \o <<>>  BY <1>1, ConcatEmptySeq
<1>3. OfTheBlock(<<>>)
  <2>1. Len(<<>>) = 0 /\ 1 .. 0 = {}  OBVIOUS
  <2>. QED  BY <2>1 DEF OfTheBlock
<1>4. CASE SinkTakesBuffer
  <2>1. Stream' = Stream  BY <1>4, SinkTakesBufferIInv
  <2>2. PICK k \in 1 .. Len(buf) : sink' = sink \o SubSeq(buf, 1, k)
        BY <1>4 DEF SinkTakesBuffer
  <2>3. SubSeq(buf, 1, k) \in Seq(Byte)  BY SplitBytes DEF TypeOK, Byte
  <2>. QED  BY <1>1, <1>2, <1>3, <2>1, <2>2, <2>3
<1>5. CASE SinkTakesBlock  BY <1>5, SinkTakesBlockIInv
<1>6. CASE WriteOk
  <2>1. sink' = sink  BY <1>6 DEF WriteOk
  <2>. QED  BY <1>1, <1>2, <1>6, <2>1, WriteOkAppends
<1>7. CASE ~SinkTakesBuffer /\ ~SinkTakesBlock /\ ~WriteOk
  <2>1. sink' = sink /\ buf' = buf
        BY <1>7 DEF SeqWriterNext, InCallStep, WriteAll, WriteAllPoisoned, Flush, Drop,
           BufferFlushed, FlushOk, SinkError, SinkPanic, Gone, seqWriterVars
  <2>2. Stream' = Stream  BY <2>1 DEF Stream
  <2>. QED  BY <1>1, <1>2, <1>3, <2>1, <2>2
<1>. QED  BY <1>4, <1>5, <1>6, <1>7

\* A killed process leaves a prefix of what the writer was given.
THEOREM SinkIsAPrefix == SeqWriterSpec => SinkGrowsInOrder
<1>1. ASSUME IInv, SeqWriterNext
      PROVE  /\ Len(sink') >= Len(sink)
             /\ SubSeq(sink', 1, Len(sink)) = sink
             /\ \A i \in 1 .. Len(Stream) : Stream'[i] = Stream[i]
  <2>1. sink \in Seq(Byte) /\ Stream \in Seq(Byte)
        BY <1>1, StreamType DEF IInv, TypeOK, Byte
  <2>2. PICK t \in Seq(Byte) : sink' = sink \o t  BY <1>1, StepAppends
  <2>3. PICK u \in Seq(Byte) : Stream' = Stream \o u  BY <1>1, StepAppends
  <2>. QED  BY <2>1, <2>2, <2>3, PrefixStays
<1>2. IInv /\ [SeqWriterNext]_seqWriterVars =>
        [/\ Len(sink') >= Len(sink)
         /\ SubSeq(sink', 1, Len(sink)) = sink
         /\ \A i \in 1 .. Len(Stream) : Stream'[i] = Stream[i]]_seqWriterVars
      BY <1>1
<1>. QED  BY <1>2, AlwaysIInv, PTL DEF SeqWriterSpec, SinkGrowsInOrder
-----------------------------------------------------------------------------
(***************************************************************************)
(* save: its steps are the writer's, and what is in the stream when a       *)
(* header is in it.                                                        *)
(***************************************************************************)

\* Every chunk is acknowledged, and nothing was refused but perhaps the header.
Whole == Chunk \subseteq DOMAIN acked /\ refused \subseteq {Header}

Reached(b) == call.op = b \/ b \in DOMAIN acked \cup refused

\* The header comes last, and a flush of save's own after it.
HeaderAfterChunks ==
  /\ phase = "header" \/ Reached(Header) => Whole
  /\ call.op \in Chunk => phase = "execute"
  /\ phase = "header" /\ call.op = "flush" => Header \in DOMAIN acked
  /\ phase \in {"header", "ok"} => refused = {}
  /\ phase = "ok" => Header \in DOMAIN acked /\ buf = <<>> /\ call.op \notin Block
  /\ Header \in DOMAIN acked => current_offset = acked[Header] + Length[Header]

BytesTrue == \A i \in 1 .. Len(Stream) : Stream[i][2] \in 1 .. Length[Stream[i][1]]

\* As long as no chunk was refused, each is where its ref says.
ChunksInPlace ==
  refused \subseteq {Header} => \A c \in Chunk \cap DOMAIN acked : Holds(Stream, c, acked[c])

\* A byte of a header has the whole document before it.
HeaderAboveChunks ==
  \A i \in 1 .. Len(Stream) :
    Stream[i][1] = Header => Whole /\ \A c \in Chunk : acked[c] + Length[c] < i

SaveInv == /\ IInv
           /\ SaveTypeOK
           /\ HeaderAfterChunks
           /\ BytesTrue
           /\ ChunksInPlace
           /\ HeaderAboveChunks

\* Every step of save is a step of the writer, or none.
LEMMA SaveSteps == [Next]_vars => [SeqWriterNext]_seqWriterVars
<1> SUFFICES ASSUME [Next]_vars PROVE [SeqWriterNext]_seqWriterVars  OBVIOUS
<1> USE DEF SeqWriterNext
<1>1. CASE UNCHANGED vars \/ Ended  BY <1>1 DEF vars, Ended
<1>2. CASE Create \/ ExecuteOk \/ ExecuteFails \/ Kill
      BY <1>2 DEF Create, ExecuteOk, ExecuteFails, Kill
<1>3. CASE \E c \in Chunk : WriteChunk(c)  BY <1>3, SaveAssumption DEF WriteChunk
<1>4. CASE WriteHeader  BY <1>4, SaveAssumption DEF WriteHeader
<1>5. CASE FlushChunks \/ FlushAll \/ DropWriter
      BY <1>5 DEF FlushChunks, FlushAll, DropWriter
<1>6. CASE WriterStep  BY <1>6 DEF WriterStep, InCallStep
<1>. QED  BY <1>1, <1>2, <1>3, <1>4, <1>5, <1>6 DEF Next

\* save uses a SeqWriter as it is meant to be used, so what holds of the writer
\* holds in save.
THEOREM SaveUsesWriter == Spec => SeqWriterSpec
<1>1. Init => SeqWriterInit  BY DEF Init
<1>. QED  BY <1>1, SaveSteps, PTL DEF Spec, SeqWriterSpec

\* A step of the writer acknowledges the block being written, if any, takes no
\* acknowledgement back, and refuses nothing that it has acknowledged.
LEMMA WriterProgress ==
  ASSUME IInv, SeqWriterNext
  PROVE  /\ DOMAIN acked \subseteq DOMAIN acked'
         /\ \A b \in DOMAIN acked : acked'[b] = acked[b]
         /\ DOMAIN acked' \subseteq DOMAIN acked \cup ({call.op} \cap Block)
         /\ refused \subseteq refused'
         /\ refused' \subseteq refused \cup (Block \ DOMAIN acked)
         /\ acked' # acked => refused' = refused
<1> USE DEF IInv
<1>1. CASE WriteOk
  <2>1. /\ call.op \in Block /\ refused' = refused
        /\ acked' = [b \in DOMAIN acked \cup {call.op} |->
                       IF b = call.op THEN current_offset ELSE acked[b]]
        BY <1>1 DEF WriteOk, StartOffset
  <2>2. call.op \notin DOMAIN acked  BY <2>1 DEF CallTrue
  <2>. QED  BY <2>1, <2>2
<1>2. CASE ~WriteOk
  <2>1. acked' = acked
        BY <1>2 DEF SeqWriterNext, InCallStep, WriteAll, WriteAllPoisoned, Flush, Drop,
           SinkTakesBuffer, BufferFlushed, SinkTakesBlock, FlushOk, SinkError, SinkPanic, Gone,
           seqWriterVars
  <2>2. CASE SinkError \/ SinkPanic
    <3>1. refused' = refused \cup ({call.op} \cap Block)  BY <2>2 DEF SinkError, SinkPanic
    <3>2. call.op \in Block => call.op \notin DOMAIN acked  BY DEF CallTrue
    <3>. QED  BY <2>1, <3>1, <3>2
  <2>3. CASE \E b \in Block : WriteAllPoisoned(b)  BY <2>1, <2>3 DEF WriteAllPoisoned
  <2>4. CASE ~(SinkError \/ SinkPanic) /\ ~\E b \in Block : WriteAllPoisoned(b)
    <3>1. refused' = refused
          BY <1>2, <2>4 DEF SeqWriterNext, InCallStep, WriteAll, Flush, Drop,
             SinkTakesBuffer, BufferFlushed, SinkTakesBlock, FlushOk, Gone, seqWriterVars
    <3>. QED  BY <2>1, <3>1
  <2>. QED  BY <2>2, <2>3, <2>4
<1>. QED  BY <1>1, <1>2

\* What is whole stays whole.
LEMMA WholeStays ==
  ASSUME IInv, SeqWriterNext, Whole
  PROVE  Whole' /\ \A c \in Chunk : acked'[c] = acked[c]
<1>1. Block = Chunk \cup {Header}  BY SaveAssumption
<1>. QED  BY <1>1, WriterProgress DEF Whole

\* A block whose bytes are in a stream ends within it.
LEMMA HeldWithin ==
  ASSUME NEW s \in Seq(Byte), NEW b \in Block, NEW at \in Nat, Holds(s, b, at)
  PROVE  at + Length[b] <= Len(s) /\ \A k \in 1 .. Length[b] : s[at + k] = <<b, k>>
BY HoldsBytes

\* The bytes of a stream that has grown are the old ones, and new ones after them.
LEMMA Grown ==
  ASSUME NEW s \in Seq(Byte), NEW t \in Seq(Byte), NEW i \in 1 .. Len(s \o t)
  PROVE  \/ i \in 1 .. Len(s) /\ (s \o t)[i] = s[i]
         \/ /\ i > Len(s) /\ i - Len(s) \in 1 .. Len(t)
            /\ (s \o t)[i] = t[i - Len(s)]
<1> PICK m \in Nat : m = Len(s)  OBVIOUS
<1> PICK n \in Nat : n = Len(t)  OBVIOUS
<1>1. i \in 1 .. (m + n)  BY ConcatProperties
<1>2. CASE i <= m  BY <1>1, <1>2, ConcatProperties
<1>3. CASE i > m
  <2> PICK j \in 1 .. n : i = m + j
    <3>1. i - m \in 1 .. n /\ i = m + (i - m)  BY <1>1, <1>3
    <3>. QED  BY <3>1
  <2>1. (s \o t)[m + j] = t[j]  BY ConcatProperties
  <2>. QED  BY <2>1, <1>3
<1>. QED  BY <1>1, <1>2, <1>3

\* A step of the writer leaves every chunk acknowledged where its ref says.
LEMMA ChunksStayInPlace ==
  ASSUME SaveInv, IInv', SeqWriterNext
  PROVE  ChunksInPlace'
<1> USE DEF SaveInv, IInv
<1>1. SUFFICES ASSUME refused' \subseteq {Header}, NEW c \in Chunk \cap DOMAIN acked'
               PROVE  Holds(Stream', c, acked'[c])
      BY DEF ChunksInPlace, Holds
<1>2. c \in Block /\ Header \notin Chunk /\ Block = Chunk \cup {Header}
      BY <1>1, SaveAssumption
<1>3. PICK s \in Seq(Byte) : s = Stream  BY StreamType
<1>4. PICK t \in Seq(Byte) : Stream' = s \o t  BY <1>3, StepAppends
<1>5. CASE c \in DOMAIN acked
  <2>1. acked'[c] = acked[c] /\ acked[c] \in Nat  BY <1>5, WriterProgress DEF TypeOK
  <2>2. Holds(s, c, acked[c])
        BY <1>1, <1>3, <1>5, WriterProgress DEF ChunksInPlace
  <2>. QED  BY <1>2, <1>4, <2>1, <2>2, HoldsStays
<1>6. CASE c \notin DOMAIN acked
  <2>1. refused' = refused  BY <1>1, <1>6, WriterProgress
  <2>2. Header \notin refused
    <3>1. Header \in refused => Whole  BY DEF HeaderAfterChunks, Reached
    <3>. QED  BY <1>1, <1>6, <3>1 DEF Whole
  <2>3. refused' = {}  BY <1>1, <2>1, <2>2
  <2>4. PICK at : Holds(Stream', c, at) /\ at = acked'[c]
        BY <1>1, <2>3 DEF OffsetsTrue, Holds
  <2>. QED  BY <2>4
<1>. QED  BY <1>5, <1>6

\* And a header is only ever appended to a whole document.
LEMMA HeaderStaysAbove ==
  ASSUME SaveInv, IInv', SeqWriterNext
  PROVE  BytesTrue' /\ HeaderAboveChunks'
<1> USE DEF SaveInv, IInv
<1>1. PICK s \in Seq(Byte) : s = Stream  BY StreamType
<1>2. PICK t \in Seq(Byte) : Stream' = s \o t /\ OfTheBlock(t)  BY <1>1, StepAppends
<1>3. ASSUME NEW i \in 1 .. Len(s \o t)
      PROVE  /\ (s \o t)[i][2] \in 1 .. Length[(s \o t)[i][1]]
             /\ (s \o t)[i][1] = Header =>
                  Whole' /\ \A c \in Chunk : acked'[c] + Length[c] < i
  <2>1. CASE i \in 1 .. Len(s) /\ (s \o t)[i] = s[i]
    <3>1. s[i][2] \in 1 .. Length[s[i][1]]  BY <1>1, <2>1 DEF BytesTrue
    <3>2. ASSUME s[i][1] = Header
          PROVE  Whole' /\ \A c \in Chunk : acked'[c] + Length[c] < i
      <4>1. Whole /\ \A c \in Chunk : acked[c] + Length[c] < i
            BY <1>1, <2>1, <3>2 DEF HeaderAboveChunks
      <4>. QED  BY <4>1, WholeStays
    <3>. QED  BY <2>1, <3>1, <3>2
  <2>2. CASE i > Len(s) /\ i - Len(s) \in 1 .. Len(t) /\ (s \o t)[i] = t[i - Len(s)]
    <3>1. /\ call.op \in Block /\ (s \o t)[i][1] = call.op
          /\ (s \o t)[i][2] \in 1 .. Length[call.op]
          BY <1>2, <2>2 DEF OfTheBlock
    <3>2. ASSUME call.op = Header
          PROVE  Whole' /\ \A c \in Chunk : acked'[c] + Length[c] < i
      <4>1. Whole  BY <3>2 DEF HeaderAfterChunks, Reached
      <4>2. ASSUME NEW c \in Chunk PROVE acked[c] + Length[c] < i
        <5>1. c \in Block /\ c \in DOMAIN acked /\ acked[c] \in Nat
              BY <4>1, SaveAssumption DEF Whole, TypeOK
        <5>2. Holds(s, c, acked[c])  BY <1>1, <4>1, <5>1 DEF ChunksInPlace, Whole
        <5>3. acked[c] + Length[c] <= Len(s)  BY <5>1, <5>2, HeldWithin
        <5>4. Length[c] \in Nat /\ Len(s) \in Nat /\ i \in Int  BY <5>1, BlockBytes
        <5>. QED  BY <5>1, <5>3, <5>4, <2>2
      <4>. QED  BY <4>1, <4>2, WholeStays
    <3>. QED  BY <3>1, <3>2
  <2>. QED  BY <2>1, <2>2, Grown
<1>4. BytesTrue'  BY <1>2, <1>3 DEF BytesTrue
<1>5. HeaderAboveChunks'  BY <1>2, <1>3 DEF HeaderAboveChunks
<1>. QED  BY <1>4, <1>5

\* Before save has done anything.
LEMMA InitSaveInv == Init => SaveInv
<1> SUFFICES ASSUME Init PROVE SaveInv  OBVIOUS
<1>1. IInv  BY InitIInv DEF Init
<1>2. /\ phase = "create" /\ killed = FALSE /\ call = Idle /\ sink = <<>> /\ buf = <<>>
      /\ DOMAIN acked = {} /\ refused = {}
      BY DEF Init, SeqWriterInit
<1>3. Header \in Block /\ Chunk \subseteq Block /\ call.op \notin Block
      BY <1>2, SaveAssumption, WriterAssumption DEF Idle
<1>4. HeaderAfterChunks  BY <1>2, <1>3 DEF HeaderAfterChunks, Reached
<1>5. 1 .. Len(Stream) = {}
  <2>1. Len(Stream) = 0  BY <1>2, ConcatProperties DEF Stream
  <2>. QED  BY <2>1
<1>6. BytesTrue /\ ChunksInPlace /\ HeaderAboveChunks
      BY <1>2, <1>5 DEF BytesTrue, ChunksInPlace, HeaderAboveChunks
<1>7. SaveTypeOK  BY <1>1, <1>2 DEF SaveTypeOK, IInv
<1>. QED  BY <1>1, <1>4, <1>6, <1>7 DEF SaveInv

\* The steps of save that leave the writer alone.
LEMMA PhaseStep ==
  ASSUME SaveInv, Create \/ ExecuteOk \/ ExecuteFails \/ Kill
  PROVE  HeaderAfterChunks' /\ SaveTypeOK'
<1> USE DEF SaveInv
<1>1. UNCHANGED seqWriterVars  BY DEF Create, ExecuteOk, ExecuteFails, Kill
<1>2. Whole' <=> Whole  BY <1>1 DEF seqWriterVars, Whole
<1>3. Reached(Header)' <=> Reached(Header)  BY <1>1 DEF seqWriterVars, Reached
<1>4. Header \in Block /\ Header \notin Chunk /\ Block = Chunk \cup {Header}
      BY SaveAssumption
<1>5. TypeOK'  BY <1>1 DEF seqWriterVars, SaveTypeOK, TypeOK
<1>6. SaveTypeOK'
      BY <1>5 DEF SaveTypeOK, Returning, Create, ExecuteOk, ExecuteFails, Kill
<1>7. CASE Create
  <2>1. phase' \in {"execute", "no_file"} /\ call.op \notin Chunk
        BY <1>7 DEF Create, Running, HeaderAfterChunks
  <2>. QED  BY <1>1, <1>2, <1>3, <1>6, <2>1 DEF HeaderAfterChunks, seqWriterVars
<1>8. CASE ExecuteOk
  <2>1. /\ phase' = "header" /\ call.op = "none" /\ Chunk = DOMAIN acked /\ refused = {}
        BY <1>8 DEF ExecuteOk, Running, InCall
  <2>2. "none" \notin Block  BY WriterAssumption
  <2>. QED  BY <1>1, <1>2, <1>3, <1>4, <1>6, <2>1, <2>2
            DEF HeaderAfterChunks, seqWriterVars, Whole
<1>9. CASE ExecuteFails
  <2>1. phase' \in {"err", "panic"} /\ call.op = "none"
        BY <1>9 DEF ExecuteFails, Running, InCall
  <2>2. "none" \notin Block  BY WriterAssumption
  <2>. QED  BY <1>1, <1>2, <1>3, <1>4, <1>6, <2>1, <2>2 DEF HeaderAfterChunks, seqWriterVars
<1>10. CASE Kill
  <2>1. phase' = phase  BY <1>10 DEF Kill
  <2>. QED  BY <1>1, <1>2, <1>3, <1>6, <2>1 DEF HeaderAfterChunks, seqWriterVars
<1>. QED  BY <1>7, <1>8, <1>9, <1>10

\* The steps that begin a call of the writer, or that a poisoned one refuses.
LEMMA CallStep ==
  ASSUME SaveInv, IInv',
         (\E c \in Chunk : WriteChunk(c)) \/ FlushChunks \/ WriteHeader \/ FlushAll \/ DropWriter
  PROVE  HeaderAfterChunks' /\ SaveTypeOK'
<1> USE DEF SaveInv
<1>1. phase' = phase /\ killed' = killed /\ ~InCall
      BY DEF WriteChunk, FlushChunks, WriteHeader, FlushAll, DropWriter, Running
<1>2. SaveTypeOK'  BY <1>1 DEF SaveTypeOK, IInv
<1>3. Header \in Block /\ Header \notin Chunk /\ Block = Chunk \cup {Header}
      BY SaveAssumption
<1>4. Block \cap {"none", "flush", "drop"} = {}  BY WriterAssumption
<1>5. CASE \E c \in Chunk : WriteChunk(c)
  <2> PICK c \in Chunk : WriteChunk(c)  BY <1>5
  <2>1. /\ phase = "execute" /\ UNCHANGED <<buf, current_offset, acked>>
        /\ c \notin DOMAIN acked
        /\ \/ call'.op = c /\ refused' = refused
           \/ call' = call /\ refused' = refused \cup {c}
        BY DEF WriteChunk, Running, WriteAll, WriteAllPoisoned
  <2>2. ~Reached(Header)  BY <2>1 DEF HeaderAfterChunks, Whole
  <2>3. ~Reached(Header)'  BY <1>3, <2>1, <2>2 DEF Reached
  <2>4. call.op = "none"  BY <1>1 DEF InCall
  <2>5. Header \notin DOMAIN acked'  BY <2>3 DEF Reached
  <2>. QED  BY <1>1, <1>2, <1>4, <2>1, <2>3, <2>4, <2>5 DEF HeaderAfterChunks
<1>6. CASE FlushChunks \/ FlushAll \/ DropWriter
  <2>1. /\ call'.op \in {"flush", "drop"}
        /\ UNCHANGED <<buf, current_offset, acked, refused>>
        /\ phase = "header" => Header \in DOMAIN acked
        BY <1>6 DEF FlushChunks, FlushAll, DropWriter, Running, Returning, Flush, Drop
  <2>2. Whole' <=> Whole  BY <2>1 DEF Whole
  <2>3. Reached(Header)' => Reached(Header)  BY <1>3, <1>4, <2>1 DEF Reached
  <2>. QED  BY <1>1, <1>2, <1>3, <1>4, <2>1, <2>2, <2>3 DEF HeaderAfterChunks
<1>7. CASE WriteHeader
  <2>1. /\ phase = "header" /\ call'.op = Header
        /\ UNCHANGED <<buf, current_offset, acked, refused>>
        BY <1>7 DEF WriteHeader, WriteAll, Running
  <2>2. Whole'  BY <2>1 DEF HeaderAfterChunks, Whole
  <2>. QED  BY <1>1, <1>2, <1>3, <1>4, <2>1, <2>2 DEF HeaderAfterChunks
<1>. QED  BY <1>5, <1>6, <1>7

\* The steps inside a call of the writer, and what save makes of how it ends.
LEMMA InsideStep ==
  ASSUME SaveInv, IInv', WriterStep
  PROVE  HeaderAfterChunks' /\ SaveTypeOK'
<1> USE DEF SaveInv
<1>1. Header \in Block /\ Header \notin Chunk /\ Block = Chunk \cup {Header}
      BY SaveAssumption
<1>2. Block \cap {"none", "flush", "drop"} = {}  BY WriterAssumption
<1>3. SeqWriterNext  BY DEF WriterStep, SeqWriterNext, InCallStep
<1>4. Whole => Whole'  BY <1>3, WholeStays
<1>5. SaveTypeOK'
  <2>1. killed' = killed  BY DEF WriterStep
  <2>2. phase' \in {phase, "ok", "err", "panic"}  BY DEF WriterStep
  <2>. QED  BY <2>1, <2>2 DEF SaveTypeOK, IInv, Returning
<1>6. CASE (SinkTakesBuffer \/ BufferFlushed \/ SinkTakesBlock) /\ UNCHANGED phase
  <2>1. /\ UNCHANGED <<current_offset, acked, refused, phase>>
        /\ call' \in {call, [call EXCEPT !.flushing = FALSE],
                      [call EXCEPT !.rest = call'.rest]}
        BY <1>6 DEF SinkTakesBuffer, BufferFlushed, SinkTakesBlock
  <2>2. call'.op = call.op  BY <2>1 DEF IInv, TypeOK
  <2>3. buf = <<>> /\ call.op \notin Block => buf' = <<>>
    <3>1. CASE SinkTakesBuffer
      <4>1. Len(buf) > 0  BY <3>1 DEF SinkTakesBuffer, IInv, TypeOK
      <4>. QED  BY <4>1
    <3>2. CASE BufferFlushed \/ SinkTakesBlock  BY <3>2 DEF BufferFlushed, SinkTakesBlock
    <3>. QED  BY <1>6, <3>1, <3>2
  <2>4. Reached(Header)' <=> Reached(Header)  BY <2>1, <2>2 DEF Reached
  <2>. QED  BY <1>4, <1>5, <2>1, <2>2, <2>3, <2>4 DEF HeaderAfterChunks
<1>7. CASE WriteOk /\ UNCHANGED phase
  <2>1. /\ call.op \in Block /\ call'.op = "none" /\ refused' = refused
        /\ DOMAIN acked' = DOMAIN acked \cup {call.op}
        /\ acked'[call.op] = current_offset
        /\ current_offset' = current_offset + Length[call.op]
        BY <1>7 DEF WriteOk, StartOffset, Idle
  <2>2. call.op \notin DOMAIN acked  BY <2>1 DEF IInv, CallTrue
  <2>3. Reached(Header)' => Reached(Header)  BY <1>1, <1>2, <2>1 DEF Reached
  <2>4. Header \in DOMAIN acked' => call.op = Header
    <3>1. Header \in DOMAIN acked => call.op \notin Chunk
          BY <2>2 DEF HeaderAfterChunks, Reached, Whole
    <3>. QED  BY <1>1, <2>1, <2>2, <3>1
  <2>5. Header \in DOMAIN acked' =>
          current_offset' = acked'[Header] + Length[Header]
        BY <2>1, <2>4
  <2>6. phase # "ok"  BY <2>1 DEF HeaderAfterChunks
  <2>. QED  BY <1>1, <1>2, <1>4, <1>5, <1>7, <2>1, <2>3, <2>5, <2>6 DEF HeaderAfterChunks
<1>8. CASE FlushOk /\ phase' = IF phase = "header" THEN "ok" ELSE phase
  <2>1. /\ call.op = "flush" /\ ~call.flushing /\ call'.op = "none"
        /\ UNCHANGED <<buf, current_offset, acked, refused>>
        BY <1>8 DEF FlushOk, Idle
  <2>2. buf = <<>>  BY <2>1 DEF IInv, FlushTrue
  <2>3. Reached(Header)' => Reached(Header)  BY <1>1, <1>2, <2>1 DEF Reached
  <2>4. phase' # "header" /\ (phase' = "ok" => phase \in {"header", "ok"})  BY <1>8
  <2>5. call'.op \notin Block  BY <1>2, <2>1
  <2>6. phase' = "ok" => refused' = {} /\ Header \in DOMAIN acked' /\ buf' = <<>>
        BY <2>1, <2>2, <2>4 DEF HeaderAfterChunks
  <2>7. Header \in DOMAIN acked' => current_offset' = acked'[Header] + Length[Header]
        BY <2>1 DEF HeaderAfterChunks
  <2>8. Reached(Header)' => Whole'  BY <1>4, <2>3 DEF HeaderAfterChunks
  <2>. QED  BY <1>1, <1>5, <2>1, <2>4, <2>5, <2>6, <2>7, <2>8 DEF HeaderAfterChunks
<1>9. CASE /\ SinkError \/ SinkPanic
           /\ phase' \in IF call.op = "flush" \/ phase = "header"
                           THEN {"err", "panic"} ELSE {phase}
  <2>1. /\ UNCHANGED <<buf, current_offset, acked>>
        /\ refused' = refused \cup ({call.op} \cap Block)
        /\ call'.op \in {"none", "drop"}
        BY <1>9 DEF SinkError, SinkPanic, Idle, IInv, TypeOK
  <2>2. phase' # "header" /\ (phase' = "ok" => phase = "ok")  BY <1>9
  <2>3. Reached(Header)' => Reached(Header)  BY <1>1, <1>2, <2>1 DEF Reached
  <2>4. call'.op \notin Block  BY <1>2, <2>1
  <2>5. phase' = "ok" => refused' = {} /\ Header \in DOMAIN acked' /\ buf' = <<>>
        BY <2>1, <2>2 DEF HeaderAfterChunks
  <2>6. Header \in DOMAIN acked' => current_offset' = acked'[Header] + Length[Header]
        BY <2>1 DEF HeaderAfterChunks
  <2>7. Reached(Header)' => Whole'  BY <1>4, <2>3 DEF HeaderAfterChunks
  <2>. QED  BY <1>1, <1>5, <2>1, <2>2, <2>4, <2>5, <2>6, <2>7 DEF HeaderAfterChunks
<1>. QED  BY <1>6, <1>7, <1>8, <1>9 DEF WriterStep

\* Every step of save keeps the invariant.
LEMMA NextSaveInv == SaveInv /\ [Next]_vars => SaveInv'
<1> SUFFICES ASSUME SaveInv, [Next]_vars PROVE SaveInv'  OBVIOUS
<1>1. IInv'  BY SaveSteps, NextIInv DEF SaveInv
<1>2. HeaderAfterChunks' /\ SaveTypeOK'
  <2>1. CASE UNCHANGED vars \/ Ended
    <3>1. UNCHANGED vars  BY <2>1 DEF Ended
    <3>. QED  BY <3>1 DEF SaveInv, vars, seqWriterVars, HeaderAfterChunks, Reached, Whole,
                          SaveTypeOK, TypeOK
  <2>. QED  BY <1>1, <2>1, PhaseStep, CallStep, InsideStep DEF Next
<1>3. ChunksInPlace' /\ BytesTrue' /\ HeaderAboveChunks'
  <2>1. CASE SeqWriterNext  BY <1>1, <2>1, ChunksStayInPlace, HeaderStaysAbove
  <2>2. CASE UNCHANGED seqWriterVars
    <3>1. Stream' = Stream  BY <2>2 DEF seqWriterVars, Stream
    <3>. QED  BY <2>2, <3>1 DEF SaveInv, seqWriterVars, ChunksInPlace, BytesTrue,
                          HeaderAboveChunks, Whole, Holds
  <2>. QED  BY <2>1, <2>2, SaveSteps
<1>. QED  BY <1>1, <1>2, <1>3 DEF SaveInv

\* It holds throughout a save.
LEMMA AlwaysSaveInv == Spec => []SaveInv
BY InitSaveInv, NextSaveInv, PTL DEF Spec

\* The variables of the writer and of save keep their types; the buffer never
\* outgrows its capacity.
THEOREM SaveTypeCorrect == Spec => []SaveTypeOK
<1>1. SaveInv => SaveTypeOK  BY DEF SaveInv
<1>. QED  BY <1>1, AlwaysSaveInv, PTL
-----------------------------------------------------------------------------
(***************************************************************************)
(* The bytes of a chunk: its payload, a ref for each child in link order,   *)
(* their number, the MetaByte.                                             *)
(***************************************************************************)
Value == {[of |-> c, by |-> Codec(c)] : c \in Chunk} \cup {RefOf(c) : c \in Chunk} \cup Nat
         \cup {[version |-> 4, root |-> RefOf(RootChunk)]}

Cell == {"payload", "ref", "count", "meta", "header"} \X Nat \X Value

\* Proof by counting up: a set with 0 and the successor of each member.
LEMMA AllNumbers ==
  ASSUME NEW T \in SUBSET Nat, 0 \in T, \A k \in T : k + 1 \in T
  PROVE  T = Nat
<1> SUFFICES ASSUME Nat \ T # {} PROVE FALSE  OBVIOUS
<1>1. PICK x \in Nat \ T : \A y \in Nat \ T : ~ (<<y, x>> \in OpToRel(<, Nat))
      BY WFMin, NatLessThanWellFounded
<1>2. \A y \in Nat \ T : ~ (y < x)  BY <1>1 DEF OpToRel
<1>3. x # 0 /\ x - 1 \in Nat /\ x - 1 < x /\ (x - 1) + 1 = x  OBVIOUS
<1>4. x - 1 \in T  BY <1>2, <1>3
<1>. QED  BY <1>3, <1>4

\* A field is as many bytes as it says, each knowing its place.
LEMMA FieldBytes ==
  ASSUME NEW kind \in {"payload", "ref", "count", "meta", "header"}, NEW size \in Nat,
         NEW value \in Value
  PROVE  /\ Field(kind, size, value) \in Seq(Cell)
         /\ Len(Field(kind, size, value)) = size
         /\ \A j \in 1 .. size : Field(kind, size, value)[j] = <<kind, j, value>>
<1>1. \A j \in 1 .. size : <<kind, j, value>> \in Cell  BY DEF Cell
<1>. QED  BY <1>1 DEF Field

\* The refs of n children one after the other.
RefsIn(t, refs, n) ==
  /\ t \in Seq(Cell) /\ Len(t) = n * CHILD_REF_SIZE
  /\ \A i \in 1 .. n : \A j \in 1 .. CHILD_REF_SIZE :
       t[(i - 1) * CHILD_REF_SIZE + j] = <<"ref", j, refs[i]>>
  /\ \A k \in 1 .. n * CHILD_REF_SIZE : t[k][1] = "ref"

\* A byte of one of them is a byte of them all.
LEMMA PlaceBelow ==
  ASSUME NEW q \in Nat, NEW size \in Nat, NEW p \in Nat, NEW len \in Nat,
         q + size = p, p <= len, NEW j \in 1 .. size
  PROVE  q + j \in 1 .. len
OBVIOUS

\* A byte of the i-th of n entries is a byte of the table.
LEMMA EntryInTable ==
  ASSUME NEW n \in Nat, NEW size \in Nat, NEW i \in 1 .. n, NEW j \in 1 .. size
  PROVE  (i - 1) * size + j \in 1 .. n * size
<1>1. i * size <= n * size
  <2>1. n - i \in Nat  OBVIOUS
  <2>2. (n - i) * size \in Nat  BY <2>1
  <2>3. (n - i) * size = n * size - i * size  OBVIOUS
  <2>. QED  BY <2>2, <2>3
<1>2. i - 1 \in Nat /\ (i - 1) * size \in Nat /\ (i - 1) * size = i * size - size  OBVIOUS
<1> PICK q \in Nat : q = (i - 1) * size  BY <1>2
<1> PICK p \in Nat : p = i * size  OBVIOUS
<1> PICK len \in Nat : len = n * size  OBVIOUS
<1>3. p <= len /\ q + size = p  BY <1>1, <1>2
<1>. QED  BY <1>3, PlaceBelow

\* One more of them.
LEMMA OneRefMore ==
  ASSUME NEW n \in Nat, NEW refs, NEW t, RefsIn(t, refs, n), refs[n + 1] \in Value
  PROVE  RefsIn(t \o Field("ref", CHILD_REF_SIZE, refs[n + 1]), refs, n + 1)
<1> PICK S \in Nat \ {0} : S = CHILD_REF_SIZE  BY FormatAssumption
<1> PICK u \in Seq(Cell) : u = Field("ref", S, refs[n + 1])  BY FieldBytes
<1>1. Len(u) = S /\ \A j \in 1 .. S : u[j] = <<"ref", j, refs[n + 1]>>  BY FieldBytes
<1> PICK len \in Nat : len = n * S  OBVIOUS
<1>2. /\ t \in Seq(Cell) /\ Len(t) = len
      /\ \A i \in 1 .. n : \A j \in 1 .. S : t[(i - 1) * S + j] = <<"ref", j, refs[i]>>
      /\ \A k \in 1 .. len : t[k][1] = "ref"
      BY DEF RefsIn
<1>3. (n + 1) * S = len + S  OBVIOUS
<1> PICK w \in Seq(Cell) : w = t \o u  BY <1>2, ConcatProperties
<1>4. /\ Len(w) = len + S
      /\ \A k \in 1 .. len : w[k] = t[k]
      /\ \A j \in 1 .. S : w[len + j] = u[j]
  <2>1. t \in Seq(Cell) /\ Len(t) = len /\ Len(u) = S  BY <1>1, <1>2
  <2>2. Len(w) = Len(t) + Len(u)  BY <2>1, ConcatProperties
  <2>3. \A k \in 1 .. Len(t) : w[k] = t[k]  BY <2>1, ConcatProperties
  <2>4. \A j \in 1 .. Len(u) : w[Len(t) + j] = u[j]  BY <2>1, ConcatProperties
  <2>. QED  BY <2>1, <2>2, <2>3, <2>4
<1>5. ASSUME NEW i \in 1 .. n + 1, NEW j \in 1 .. S
      PROVE  w[(i - 1) * S + j] = <<"ref", j, refs[i]>>
  <2>1. CASE i = n + 1
    <3>1. (i - 1) * S + j = len + j  BY <2>1
    <3>. QED  BY <1>1, <1>4, <2>1, <3>1
  <2>2. CASE i # n + 1
    <3>1. i \in 1 .. n  BY <2>2
    <3>3. (i - 1) * S + j \in 1 .. len  BY <3>1, EntryInTable
    <3>. QED  BY <1>2, <1>4, <3>1, <3>3
  <2>. QED  BY <2>1, <2>2
<1>6. ASSUME NEW k \in 1 .. len + S PROVE w[k][1] = "ref"
  <2>1. CASE k \in 1 .. len  BY <1>2, <1>4, <2>1
  <2>2. CASE k \notin 1 .. len
    <3>1. k - len \in 1 .. S /\ len + (k - len) = k  BY <2>2
    <3>. QED  BY <1>1, <1>4, <3>1
  <2>. QED  BY <2>1, <2>2
<1>. QED  BY <1>3, <1>4, <1>5, <1>6 DEF RefsIn

\* The footer's table, written ref by ref (process_node's loop over its children).
LEMMA RefTable ==
  ASSUME NEW n \in Nat \ {0}, NEW refs, \A i \in 1 .. n : refs[i] \in Value
  PROVE  RefsIn(FlattenSeq([i \in 1 .. n |-> Field("ref", CHILD_REF_SIZE, refs[i])]), refs, n)
<1> DEFINE seqs == [i \in 1 .. n |-> Field("ref", CHILD_REF_SIZE, refs[i])]
           Flat(m, f) == f = [i \in 1 .. m |-> IF i = 1 THEN seqs[i] ELSE f[i - 1] \o seqs[i]]
<1>1. FlattenSeq(seqs) = (CHOOSE f : Flat(n, f))[n]
  <2>1. Len(seqs) = n  OBVIOUS
  <2>. QED  BY <2>1 DEF FlattenSeq
<1>2. \A i \in 1 .. n : seqs[i] = Field("ref", CHILD_REF_SIZE, refs[i])  OBVIOUS
<1> HIDE DEF seqs
<1>3. \E f : Flat(n, f)
  <2> DEFINE T == {m \in Nat : \E f : Flat(m + 1, f)}
  <2>1. 0 \in T
    <3> DEFINE f == [i \in 1 .. 1 |-> seqs[1]]
    <3>1. Flat(0 + 1, f)  OBVIOUS
    <3>. QED  BY <3>1
  <2>2. ASSUME NEW m \in T PROVE m + 1 \in T
    <3>1. m \in Nat  OBVIOUS
    <3>2. PICK f : Flat(m + 1, f)  OBVIOUS
    <3> DEFINE g == [i \in 1 .. (m + 1) + 1 |->
                       IF i <= m + 1 THEN f[i] ELSE f[m + 1] \o seqs[i]]
    <3>3. ASSUME NEW i \in 1 .. (m + 1) + 1
          PROVE  g[i] = IF i = 1 THEN seqs[i] ELSE g[i - 1] \o seqs[i]
      <4>1. CASE i <= m + 1
        <5>1. i \in 1 .. m + 1  BY <3>1, <4>1
        <5>2. f[i] = IF i = 1 THEN seqs[i] ELSE f[i - 1] \o seqs[i]  BY <3>2, <5>1
        <5>3. i # 1 => i - 1 \in 1 .. (m + 1) + 1 /\ i - 1 <= m + 1  BY <3>1, <5>1
        <5>. QED  BY <4>1, <5>2, <5>3
      <4>2. CASE ~(i <= m + 1)
        <5>1. i # 1 /\ i - 1 = m + 1 /\ m + 1 \in 1 .. (m + 1) + 1 /\ m + 1 <= m + 1
              BY <3>1, <4>2
        <5>. QED  BY <4>2, <5>1
      <4>. QED  BY <4>1, <4>2
    <3>4. g = [i \in 1 .. (m + 1) + 1 |-> g[i]]  OBVIOUS
    <3> HIDE DEF g
    <3>5. Flat((m + 1) + 1, g)  BY <3>3, <3>4
    <3> HIDE DEF Flat
    <3>. QED  BY <3>1, <3>5
  <2> HIDE DEF Flat
  <2>3. T \in SUBSET Nat  OBVIOUS
  <2> HIDE DEF T
  <2>4. T = Nat  BY <2>1, <2>2, <2>3, AllNumbers
  <2>5. n - 1 \in T /\ (n - 1) + 1 = n  BY <2>4
  <2> USE DEF T
  <2>. QED  BY <2>5
<1> HIDE DEF Flat
<1>4. PICK f : Flat(n, f) /\ FlattenSeq(seqs) = f[n]  BY <1>1, <1>3
<1> USE DEF Flat
<1>5. RefsIn(f[n], refs, n)
  <2> DEFINE T == {m \in Nat : m + 1 <= n => RefsIn(f[m + 1], refs, m + 1)}
  <2>1. 0 \in T
    <3>1. RefsIn(<<>>, refs, 0)
      <4>1. <<>> \in Seq(Cell) /\ Len(<<>>) = 0 /\ 0 * CHILD_REF_SIZE = 0 /\ 1 .. 0 = {}
            BY FormatAssumption
      <4>. QED  BY <4>1 DEF RefsIn
    <3>2. refs[0 + 1] \in Value /\ CHILD_REF_SIZE \in Nat  BY FormatAssumption
    <3>3. RefsIn(<<>> \o Field("ref", CHILD_REF_SIZE, refs[0 + 1]), refs, 0 + 1)
          BY <3>1, <3>2, OneRefMore
    <3>4. Field("ref", CHILD_REF_SIZE, refs[0 + 1]) \in Seq(Cell)  BY <3>2, FieldBytes
    <3>5. f[0 + 1] = Field("ref", CHILD_REF_SIZE, refs[0 + 1])  BY <1>2, <1>4
    <3>6. <<>> \o f[0 + 1] = f[0 + 1]  BY <3>4, <3>5, ConcatEmptySeq
    <3>. QED  BY <3>3, <3>5, <3>6
  <2>2. ASSUME NEW m \in T PROVE m + 1 \in T
    <3> SUFFICES ASSUME (m + 1) + 1 <= n PROVE RefsIn(f[(m + 1) + 1], refs, (m + 1) + 1)
        OBVIOUS
    <3>1. m \in Nat /\ m + 1 \in Nat /\ m + 1 <= n /\ (m + 1) + 1 \in 1 .. n
          /\ (m + 1) + 1 # 1 /\ ((m + 1) + 1) - 1 = m + 1
          OBVIOUS
    <3>2. RefsIn(f[m + 1], refs, m + 1)  BY <3>1
    <3>3. f[(m + 1) + 1] = f[m + 1] \o Field("ref", CHILD_REF_SIZE, refs[(m + 1) + 1])
          BY <1>2, <1>4, <3>1
    <3>4. refs[(m + 1) + 1] \in Value  BY <3>1
    <3>. QED  BY <3>1, <3>2, <3>3, <3>4, OneRefMore
  <2>3. T \in SUBSET Nat  OBVIOUS
  <2> HIDE DEF T
  <2>4. T = Nat  BY <2>1, <2>2, <2>3, AllNumbers
  <2>5. n - 1 \in T /\ (n - 1) + 1 = n /\ n <= n  BY <2>4
  <2> USE DEF T
  <2>. QED  BY <2>5
<1> USE DEF seqs
<1>. QED  BY <1>4, <1>5

\* Bytes 1 to len of a chunk: `size` bytes of payload and its footer's n refs.
LEMMA EncodedParts ==
  ASSUME NEW c \in Chunk, NEW n \in Nat, n = Len(Links[c]),
         NEW size \in Nat, size = PayloadLength(c)
  PROVE  /\ Payload(c) \in Seq(Cell) /\ Len(Payload(c)) = size
         /\ \A k \in 1 .. size :
              Payload(c)[k] = <<"payload", k, [of |-> c, by |-> Codec(c)]>>
         /\ Codec(c) \in 0 .. 255
         /\ Length[c] = size + (FooterSize(n) + 1)
         /\ DOMAIN Links[c] = 1 .. n /\ (Links[c] = <<>> <=> n = 0)
         /\ \A i \in 1 .. n : Links[c][i] \in Chunk
<1> PICK links \in Seq(Chunk) : links = Links[c]  BY SaveAssumption
<1>1. DOMAIN Links[c] = 1 .. n /\ (Links[c] = <<>> <=> n = 0)
      /\ \A i \in 1 .. n : Links[c][i] \in Chunk
      OBVIOUS
<1>2. Codec(c) \in 0 .. 255
  <2>1. Config[c] \in 0 .. 255  BY SaveAssumption
  <2>. QED  BY <2>1 DEF Codec
<1>3. [of |-> c, by |-> Codec(c)] \in Value  BY DEF Value
<1>4. Payload(c) = Field("payload", size, [of |-> c, by |-> Codec(c)])
      BY DEF Payload, Compressed, Field
<1>5. FooterSize(n) \in Nat
  <2>1. CHILD_REF_SIZE * n \in Nat /\ COUNT_SIZE \in Nat  BY FormatAssumption
  <2>. QED  BY <2>1 DEF FooterSize
<1>6. Length[c] \in Nat  BY SaveAssumption, BlockBytes
<1>7. Length[c] = size + (FooterSize(n) + 1)  BY <1>5, <1>6 DEF PayloadLength
<1>8. /\ Payload(c) \in Seq(Cell) /\ Len(Payload(c)) = size
      /\ \A k \in 1 .. size :
           Payload(c)[k] = <<"payload", k, [of |-> c, by |-> Codec(c)]>>
  <2>1. PICK v \in Value : v = [of |-> c, by |-> Codec(c)]  BY <1>3
  <2>2. PICK p : p = Field("payload", size, v)  OBVIOUS
  <2>3. p \in Seq(Cell) /\ Len(p) = size /\ \A k \in 1 .. size : p[k] = <<"payload", k, v>>
        BY <2>2, FieldBytes
  <2>. QED  BY <1>4, <2>1, <2>2, <2>3
<1>. QED  BY <1>1, <1>2, <1>7, <1>8

\* One sequence of bytes after another: w is s, of m bytes, and then t, of n.
Joined(w, s, t, m, n) ==
  /\ w \in Seq(Cell) /\ Len(w) = m + n
  /\ \A k \in 1 .. m : w[k] = s[k]
  /\ \A j \in 1 .. n : w[m + j] = t[j]
  /\ \A k \in 1 .. m + n : \/ k \in 1 .. m /\ w[k] = s[k]
                           \/ k - m \in 1 .. n /\ w[k] = t[k - m]

\* So it is when they are concatenated.
LEMMA Appended ==
  ASSUME NEW s \in Seq(Cell), NEW t \in Seq(Cell), NEW m \in Nat, NEW n \in Nat,
         m = Len(s), n = Len(t)
  PROVE  Joined(s \o t, s, t, m, n)
<1>1. /\ s \o t \in Seq(Cell) /\ Len(s \o t) = m + n
      /\ \A k \in 1 .. m : (s \o t)[k] = s[k]
      /\ \A j \in 1 .. n : (s \o t)[m + j] = t[j]
      BY ConcatProperties
<1>2. ASSUME NEW k \in 1 .. m + n, k \notin 1 .. m
      PROVE  k - m \in 1 .. n /\ (s \o t)[k] = t[k - m]
  <2>1. k - m \in 1 .. n /\ m + (k - m) = k  BY <1>2
  <2>. QED  BY <1>1, <2>1
<1>. QED  BY <1>1, <1>2 DEF Joined

\* The footer f of n children: the refs, then their number.
FooterIn(f, refs, n) ==
  /\ f \in Seq(Cell) /\ Len(f) = FooterSize(n)
  /\ \A i \in 1 .. n : \A j \in 1 .. CHILD_REF_SIZE :
       f[(i - 1) * CHILD_REF_SIZE + j] = <<"ref", j, refs[i]>>
  /\ \A j \in 1 .. COUNT_SIZE : f[n * CHILD_REF_SIZE + j] = <<"count", j, n>>
  /\ \A k \in 1 .. FooterSize(n) : f[k][1] \in {"ref", "count"}

\* So it is written, if there are any.
LEMMA EncodedFooter ==
  ASSUME NEW n \in Nat \ {0}, NEW refs, DOMAIN refs = 1 .. n, Len(refs) = n, refs # <<>>,
         \A i \in 1 .. n : refs[i] \in Value
  PROVE  FooterIn(Footer(refs), refs, n)
<1>1. PICK S \in Nat \ {0}, C \in Nat \ {0} : S = CHILD_REF_SIZE /\ C = COUNT_SIZE
      BY FormatAssumption
<1>2. PICK m \in Nat : m = n * S  OBVIOUS
<1>3. PICK t : t = FlattenSeq([i \in 1 .. n |-> Field("ref", S, refs[i])])  OBVIOUS
<1>4. RefsIn(t, refs, n)  BY <1>1, <1>3, RefTable
<1>5. PICK u : u = Field("count", C, n)  OBVIOUS
<1>6. u \in Seq(Cell) /\ Len(u) = C /\ \A j \in 1 .. C : u[j] = <<"count", j, n>>
  <2>1. n \in Value  BY DEF Value
  <2>. QED  BY <1>5, <2>1, FieldBytes
<1>7. /\ t \in Seq(Cell) /\ Len(t) = m
      /\ \A i \in 1 .. n : \A j \in 1 .. S : t[(i - 1) * S + j] = <<"ref", j, refs[i]>>
      /\ \A k \in 1 .. m : t[k][1] = "ref"
      BY <1>1, <1>2, <1>4 DEF RefsIn
<1>8. PICK w : w = t \o u  OBVIOUS
<1>9. Footer(refs) = w  BY <1>1, <1>3, <1>5, <1>8 DEF Footer
<1>10. FooterSize(n) = m + C
  <2>1. S * n = n * S  OBVIOUS
  <2>. QED  BY <1>1, <1>2, <2>1 DEF FooterSize
<1>11. Joined(w, t, u, m, C)
  <2>1. t \in Seq(Cell) /\ m = Len(t)  BY <1>7
  <2>2. u \in Seq(Cell) /\ C = Len(u)  BY <1>6
  <2>. QED  BY <1>8, <2>1, <2>2, Appended
<1>12. ASSUME NEW i \in 1 .. n, NEW j \in 1 .. S
       PROVE  w[(i - 1) * S + j] = <<"ref", j, refs[i]>>
  <2>1. (i - 1) * S + j \in 1 .. m  BY <1>2, EntryInTable
  <2>. QED  BY <1>7, <1>11, <2>1 DEF Joined
<1>13. \A j \in 1 .. C : w[m + j] = <<"count", j, n>>  BY <1>6, <1>11 DEF Joined
<1>14. ASSUME NEW k \in 1 .. m + C PROVE w[k][1] \in {"ref", "count"}
  <2>1. CASE k \in 1 .. m /\ w[k] = t[k]  BY <1>7, <2>1
  <2>2. CASE k - m \in 1 .. C /\ w[k] = u[k - m]  BY <1>6, <2>2
  <2>. QED  BY <1>11, <2>1, <2>2 DEF Joined
<1>15. \A i \in 1 .. n : \A j \in 1 .. CHILD_REF_SIZE :
         Footer(refs)[(i - 1) * CHILD_REF_SIZE + j] = <<"ref", j, refs[i]>>
       BY <1>1, <1>9, <1>12
<1>16. \A j \in 1 .. COUNT_SIZE : Footer(refs)[n * CHILD_REF_SIZE + j] = <<"count", j, n>>
       BY <1>1, <1>2, <1>9, <1>13
<1>17. \A k \in 1 .. FooterSize(n) : Footer(refs)[k][1] \in {"ref", "count"}
       BY <1>9, <1>10, <1>14
<1>. QED  BY <1>9, <1>10, <1>11, <1>15, <1>16, <1>17 DEF Joined, FooterIn

\* What a chunk is written as, byte by byte; none of them is one of a header.
EncodedAs(c, n, size) ==
  /\ Encode(c) \in Seq(Cell) /\ Len(Encode(c)) = Length[c]
  /\ \A k \in 1 .. size :
       Encode(c)[k] = <<"payload", k, [of |-> c, by |-> Codec(c)]>>
  /\ \A i \in 1 .. n : \A j \in 1 .. CHILD_REF_SIZE :
       Encode(c)[size + ((i - 1) * CHILD_REF_SIZE + j)] = <<"ref", j, RefOf(Links[c][i])>>
  /\ n > 0 => \A j \in 1 .. COUNT_SIZE :
                Encode(c)[size + (n * CHILD_REF_SIZE + j)] = <<"count", j, n>>
  /\ Encode(c)[Length[c]] = <<"meta", 1, MetaByte(n > 0, Codec(c))>>
  /\ \A k \in 1 .. Length[c] : Encode(c)[k][1] # "header"

\* EncodeChunk, for every chunk of the document (and every state of the save).
LEMMA ChunkBytes ==
  ASSUME NEW c \in Chunk, NEW n \in Nat, n = Len(Links[c]),
         NEW size \in Nat, size = PayloadLength(c)
  PROVE  EncodedAs(c, n, size)
<1>1. PICK p : p = Payload(c)  OBVIOUS
<1>2. PICK refs : refs = [i \in DOMAIN Links[c] |-> RefOf(Links[c][i])]  OBVIOUS
<1>3. PICK f : f = Footer(refs)  OBVIOUS
<1>4. PICK v : v = MetaByte(n > 0, Codec(c))  OBVIOUS
<1>5. PICK mt : mt = Field("meta", 1, v)  OBVIOUS
<1>6. /\ p \in Seq(Cell) /\ Len(p) = size
      /\ \A k \in 1 .. size : p[k] = <<"payload", k, [of |-> c, by |-> Codec(c)]>>
      BY <1>1, EncodedParts
<1>7. /\ DOMAIN Links[c] = 1 .. n /\ (Links[c] = <<>> <=> n = 0)
      /\ \A i \in 1 .. n : Links[c][i] \in Chunk
      BY EncodedParts
<1>8. v \in Nat
  <2>1. Codec(c) \in 0 .. 255  BY EncodedParts
  <2>2. \A id \in 0 .. 255 : (id % 8) \in Nat  OBVIOUS
  <2>3. (Codec(c) % 8) \in Nat  BY <2>1, <2>2
  <2>. QED  BY <1>4, <2>3 DEF MetaByte
<1>9. mt \in Seq(Cell) /\ Len(mt) = 1 /\ mt[1] = <<"meta", 1, v>>
  <2>1. v \in Value /\ 1 \in Nat /\ 1 \in 1 .. 1  BY <1>8 DEF Value
  <2>. QED  BY <1>5, <2>1, FieldBytes
<1>10. DOMAIN refs = 1 .. n /\ Len(refs) = n /\ (refs # <<>> <=> n > 0)
       /\ \A i \in 1 .. n : refs[i] = RefOf(Links[c][i]) /\ refs[i] \in Value
  <2>1. refs = [i \in 1 .. n |-> RefOf(Links[c][i])]  BY <1>2, <1>7
  <2>2. DOMAIN refs = 1 .. n /\ Len(refs) = n  BY <2>1
  <2>3. refs # <<>> <=> n > 0
    <3>1. CASE n = 0  BY <2>1, <3>1
    <3>2. CASE n > 0
      <4>1. 1 \in DOMAIN refs /\ DOMAIN <<>> = {}  BY <2>2, <3>2
      <4>. QED  BY <3>2, <4>1
    <3>. QED  BY <3>1, <3>2
  <2>4. \A i \in 1 .. n : refs[i] = RefOf(Links[c][i])  BY <2>1
  <2>5. \A i \in 1 .. n : refs[i] \in Value  BY <1>7, <2>4 DEF Value
  <2>. QED  BY <2>2, <2>3, <2>4, <2>5
<1>11. PICK fs \in Nat : fs = FooterSize(n)
  <2>1. CHILD_REF_SIZE * n \in Nat /\ COUNT_SIZE \in Nat  BY FormatAssumption
  <2>. QED  BY <2>1 DEF FooterSize
<1>12. /\ f \in Seq(Cell) /\ Len(f) = fs
       /\ \A k \in 1 .. fs : f[k][1] \in {"ref", "count"}
  <2>1. CASE n = 0
    <3>1. f = <<>> /\ fs = 0  BY <1>3, <1>10, <1>11, <2>1 DEF Footer, FooterSize
    <3>2. 1 .. 0 = {}  OBVIOUS
    <3>. QED  BY <3>1, <3>2
  <2>2. CASE n > 0
    <3>1. n \in Nat \ {0} /\ refs # <<>>  BY <1>10, <2>2
    <3>2. FooterIn(f, refs, n)  BY <1>3, <1>10, <3>1, EncodedFooter
    <3>. QED  BY <1>11, <3>2 DEF FooterIn
  <2>. QED  BY <2>1, <2>2
<1>13. Length[c] = size + (fs + 1)  BY <1>11, EncodedParts
<1>14. Encode(c) = (p \o f) \o mt
  <2>1. c # Header  BY SaveAssumption
  <2>2. (refs # <<>>) = (n > 0)  BY <1>10
  <2>3. Field("meta", 1, MetaByte(refs # <<>>, Codec(c))) = mt  BY <1>4, <1>5, <2>2
  <2>4. Encode(c) = EncodeChunk(p, refs, Codec(c))  BY <1>1, <1>2, <2>1 DEF Encode
  <2>. QED  BY <1>3, <2>3, <2>4 DEF EncodeChunk
<1>15. PICK pf : pf = p \o f  OBVIOUS
<1>16. PICK e : e = pf \o mt  OBVIOUS
<1>17. Joined(pf, p, f, size, fs)
  <2>1. p \in Seq(Cell) /\ size = Len(p)  BY <1>6
  <2>2. f \in Seq(Cell) /\ fs = Len(f)  BY <1>12
  <2>. QED  BY <1>15, <2>1, <2>2, Appended
<1>18. Joined(e, pf, mt, size + fs, 1)
  <2>1. pf \in Seq(Cell) /\ size + fs = Len(pf) /\ size + fs \in Nat  BY <1>17 DEF Joined
  <2>2. mt \in Seq(Cell) /\ 1 = Len(mt)  BY <1>9
  <2>. QED  BY <1>16, <2>1, <2>2, Appended
<1>19. Encode(c) = e /\ Len(e) = Length[c] /\ Length[c] = (size + fs) + 1
       BY <1>13, <1>14, <1>15, <1>16, <1>18 DEF Joined
<1>20. \A k \in 1 .. size : e[k] = <<"payload", k, [of |-> c, by |-> Codec(c)]>>
  <2>1. \A k \in 1 .. size : k \in 1 .. size + fs  OBVIOUS
  <2>. QED  BY <1>6, <1>17, <1>18, <2>1 DEF Joined
<1>21. \A j \in 1 .. fs : e[size + j] = f[j]
  <2>1. \A j \in 1 .. fs : size + j \in 1 .. size + fs  OBVIOUS
  <2>. QED  BY <1>17, <1>18, <2>1 DEF Joined
<1>22. e[Length[c]] = <<"meta", 1, v>>
  <2>1. 1 \in 1 .. 1  OBVIOUS
  <2>. QED  BY <1>9, <1>18, <1>19, <2>1 DEF Joined
<1>23. ASSUME NEW k \in 1 .. Length[c] PROVE e[k][1] # "header"
  <2>1. CASE k = Length[c]  BY <1>22, <2>1
  <2>2. CASE k # Length[c]
    <3>1. k \in 1 .. size + fs  BY <1>19, <2>2
    <3>2. CASE k \in 1 .. size /\ pf[k] = p[k]  BY <1>6, <1>18, <3>1, <3>2 DEF Joined
    <3>3. CASE k - size \in 1 .. fs /\ pf[k] = f[k - size]  BY <1>12, <1>18, <3>1, <3>3 DEF Joined
    <3>. QED  BY <1>17, <3>1, <3>2, <3>3 DEF Joined
  <2>. QED  BY <2>1, <2>2
<1>24. ASSUME n > 0
       PROVE  /\ \A i \in 1 .. n : \A j \in 1 .. CHILD_REF_SIZE :
                   e[size + ((i - 1) * CHILD_REF_SIZE + j)] = <<"ref", j, RefOf(Links[c][i])>>
              /\ \A j \in 1 .. COUNT_SIZE :
                   e[size + (n * CHILD_REF_SIZE + j)] = <<"count", j, n>>
  <2>1. PICK S \in Nat \ {0}, C \in Nat \ {0} : S = CHILD_REF_SIZE /\ C = COUNT_SIZE
        BY FormatAssumption
  <2>2. PICK m \in Nat : m = n * S  OBVIOUS
  <2>3. n \in Nat \ {0} /\ refs # <<>>  BY <1>10, <1>24
  <2>4. /\ \A i \in 1 .. n : \A j \in 1 .. S : f[(i - 1) * S + j] = <<"ref", j, refs[i]>>
        /\ \A j \in 1 .. C : f[m + j] = <<"count", j, n>>
    <3>1. FooterIn(f, refs, n)  BY <1>3, <1>10, <2>3, EncodedFooter
    <3>. QED  BY <2>1, <2>2, <3>1 DEF FooterIn
  <2>5. fs = m + C
    <3>1. S * n = n * S /\ n # 0  BY <1>24
    <3>. QED  BY <1>11, <2>1, <2>2, <3>1 DEF FooterSize
  <2>6. ASSUME NEW i \in 1 .. n, NEW j \in 1 .. S
        PROVE  e[size + ((i - 1) * S + j)] = <<"ref", j, RefOf(Links[c][i])>>
    <3>1. PICK k \in 1 .. m : k = (i - 1) * S + j  BY <2>2, EntryInTable
    <3>2. k \in 1 .. fs  BY <2>5
    <3>3. f[k] = <<"ref", j, refs[i]>>  BY <2>4, <3>1
    <3>. QED  BY <1>10, <1>21, <3>1, <3>2, <3>3
  <2>7. ASSUME NEW j \in 1 .. C PROVE e[size + (m + j)] = <<"count", j, n>>
    <3>1. m + j \in 1 .. fs  BY <2>5
    <3>. QED  BY <1>21, <2>4, <3>1
  <2>. QED  BY <2>1, <2>2, <2>6, <2>7
<1>25. \A i \in 1 .. n : n > 0  OBVIOUS
<1>. QED  BY <1>4, <1>18, <1>19, <1>20, <1>22, <1>23, <1>24, <1>25 DEF EncodedAs, Joined

\* Whatever its payload and its links: a chunk is as long as Length says and no
\* byte of it could be one of a header.
LEMMA ChunkEncoded ==
  ASSUME NEW c \in Chunk
  PROVE  /\ Encode(c) \in Seq(Cell) /\ Len(Encode(c)) = Length[c]
         /\ \A k \in 1 .. Length[c] : Encode(c)[k][1] # "header"
<1>1. PICK n \in Nat : n = Len(Links[c])
  <2>1. Links[c] \in Seq(Chunk)  BY SaveAssumption
  <2>. QED  BY <2>1
<1>2. PICK len \in Nat : len = Length[c] /\ len > FooterSize(n)
      BY <1>1, SaveAssumption, BlockBytes
<1>3. PICK fs \in Nat : fs = FooterSize(n)
  <2>1. CHILD_REF_SIZE * n \in Nat /\ COUNT_SIZE \in Nat  BY FormatAssumption
  <2>. QED  BY <2>1 DEF FooterSize
<1>4. PICK size \in Nat : size = PayloadLength(c)
  <2>1. PayloadLength(c) = len - 1 - fs  BY <1>1, <1>2, <1>3 DEF PayloadLength
  <2>2. len - 1 - fs \in Nat  BY <1>2, <1>3
  <2>. QED  BY <2>1, <2>2
<1>5. EncodedAs(c, n, size)  BY <1>1, <1>4, ChunkBytes
<1>. QED  BY <1>5 DEF EncodedAs
-----------------------------------------------------------------------------
(***************************************************************************)
(* Reading: a file in which every chunk is where its ref says.             *)
(***************************************************************************)
HasChunks(file) ==
  /\ file.source \in Seq(Cell) /\ file.file_size \in Nat
  /\ \A c \in Chunk : /\ acked[c] \in Nat
                      /\ acked[c] + Length[c] <= file.file_size
                      /\ acked[c] + Length[c] <= Len(file.source)
                      /\ \A k \in 1 .. Length[c] : file.source[acked[c] + k] = Encode(c)[k]

\* The n bytes of s after the first k (Get).
LEMMA GetBytes ==
  ASSUME NEW s \in Seq(Cell), NEW k \in Nat, NEW n \in Nat, k + n <= Len(s)
  PROVE  /\ Len(Get(s, k, k + n)) = n /\ Within(s, k, k + n)
         /\ \A i \in 1 .. n : Get(s, k, k + n)[i] = s[k + i]
<1> PICK first \in Int : first = k + 1  OBVIOUS
<1> PICK last \in Int : last = k + n  OBVIOUS
<1>1. \A i \in first .. last : s[i] \in Cell  OBVIOUS
<1>2. /\ Len(SubSeq(s, first, last)) = IF first <= last THEN last - first + 1 ELSE 0
      /\ \A i \in 1 .. last - first + 1 : SubSeq(s, first, last)[i] = s[first + i - 1]
      BY <1>1, SubSeqProperties
<1>3. Len(SubSeq(s, first, last)) = n
  <2>1. CASE n = 0  BY <1>2, <2>1
  <2>2. CASE n > 0  BY <1>2, <2>2
  <2>. QED  BY <2>1, <2>2
<1>4. \A i \in 1 .. n : i \in 1 .. last - first + 1 /\ first + i - 1 = k + i  OBVIOUS
<1>5. Within(s, k, k + n)  BY DEF Within
<1>. QED  BY <1>2, <1>3, <1>4, <1>5 DEF Get

\* A field of n bytes that chunk c was written with, after `at` other bytes.
FieldOf(c, at, n, kind, value) ==
  at + n <= Length[c] /\ \A j \in 1 .. n : Encode(c)[at + j] = <<kind, j, value>>

\* The field that a file has from `start`.
FieldAt(file, start, n, kind, value) ==
  /\ Within(file.source, start, start + n)
  /\ IsField(Get(file.source, start, start + n), kind, n)
  /\ Get(file.source, start, start + n)[1][3] = value

\* A field that a chunk was written with is found where it was written.
LEMMA FieldFound ==
  ASSUME NEW file, HasChunks(file), NEW c \in Chunk, NEW start \in Nat, NEW at \in Nat,
         NEW n \in Nat \ {0}, start = acked[c] + at, NEW kind, NEW value,
         FieldOf(c, at, n, kind, value)
  PROVE  FieldAt(file, start, n, kind, value)
<1>1. PICK s \in Seq(Cell) : s = file.source  BY DEF HasChunks
<1>2. PICK off \in Nat : off = acked[c]  BY DEF HasChunks
<1>3. PICK len \in Nat : len = Length[c]  BY SaveAssumption, BlockBytes
<1>4. off + len <= Len(s) /\ \A k \in 1 .. len : s[off + k] = Encode(c)[k]
      BY <1>1, <1>2, <1>3 DEF HasChunks
<1>5. start + n <= Len(s)
  <2>1. start = off + at /\ at + n <= len  BY <1>2, <1>3 DEF FieldOf
  <2>2. Len(s) \in Nat  OBVIOUS
  <2>. QED  BY <1>4, <2>1, <2>2
<1>6. PICK g : g = Get(s, start, start + n)  OBVIOUS
<1>7. Len(g) = n /\ Within(s, start, start + n) /\ \A i \in 1 .. n : g[i] = s[start + i]
      BY <1>5, <1>6, GetBytes
<1>8. ASSUME NEW j \in 1 .. n PROVE g[j] = <<kind, j, value>>
  <2>1. start = off + at /\ at + n <= len  BY <1>2, <1>3 DEF FieldOf
  <2>2. at + j \in 1 .. len /\ start + j = off + (at + j)  BY <2>1
  <2>3. s[off + (at + j)] = Encode(c)[at + j]  BY <1>4, <2>2
  <2>. QED  BY <1>7, <2>2, <2>3 DEF FieldOf
<1>9. 1 \in 1 .. n  OBVIOUS
<1>10. IsField(g, kind, n) /\ g[1][3] = value  BY <1>7, <1>8, <1>9 DEF IsField
<1>. QED  BY <1>1, <1>6, <1>7, <1>10 DEF FieldAt

\* The MetaByte tells a chunk with a footer from one without, and the compressor
\* modulo 8.
LEMMA MetaByteBack ==
  ASSUME NEW id \in 0 .. 255, NEW has_footer \in BOOLEAN
  PROVE  /\ IsChunkable(MetaByte(has_footer, id)) <=> has_footer
         /\ CompressionMethod(MetaByte(has_footer, id)) = id % 8
<1>1. PICK q \in 0 .. 7 : q = (id % 8)  OBVIOUS
<1>2. \A x \in 0 .. 7 : /\ (x * 2) % 2 = 0 /\ (x * 2 + 1) % 2 = 1
                        /\ (x * 2) \div 2 = x /\ (x * 2 + 1) \div 2 = x
                        /\ (x % 8) = x
      OBVIOUS
<1>3. CASE has_footer
  <2>1. MetaByte(has_footer, id) = q * 2 + 1  BY <1>1, <1>3 DEF MetaByte
  <2>. QED  BY <1>1, <1>2, <1>3, <2>1 DEF IsChunkable, CompressionMethod
<1>4. CASE ~has_footer
  <2>1. MetaByte(has_footer, id) = q * 2  BY <1>1, <1>4 DEF MetaByte
  <2>. QED  BY <1>1, <1>2, <1>4, <2>1 DEF IsChunkable, CompressionMethod
<1>. QED  BY <1>3, <1>4

\* get_chunk, given a chunk's ref, finds its node.
LEMMA ChunkFound ==
  ASSUME NEW file, HasChunks(file), NEW c \in Chunk
  PROVE  GetChunk(file, RefOf(c)) = Success(NodeOf(c))
<1>1. PICK n \in Nat : n = Len(Links[c])
  <2>1. Links[c] \in Seq(Chunk)  BY SaveAssumption
  <2>. QED  BY <2>1
<1>2. PICK len \in Nat : len = Length[c]  BY SaveAssumption, BlockBytes
<1>3. PICK off \in Nat : off = acked[c]  BY DEF HasChunks
<1>4. PICK fs \in Nat : fs = FooterSize(n)
  <2>1. CHILD_REF_SIZE * n \in Nat /\ COUNT_SIZE \in Nat  BY FormatAssumption
  <2>. QED  BY <2>1 DEF FooterSize
<1>5. PICK size \in Nat : size = PayloadLength(c) /\ len = size + (fs + 1)
  <2>1. len > fs  BY <1>1, <1>2, <1>4, SaveAssumption
  <2>2. PayloadLength(c) = len - 1 - fs  BY <1>1, <1>2, <1>4 DEF PayloadLength
  <2>3. len - 1 - fs \in Nat /\ len = (len - 1 - fs) + (fs + 1)  BY <2>1
  <2>. QED  BY <2>2, <2>3
<1>6. EncodedAs(c, n, size)  BY <1>1, <1>5, ChunkBytes
<1>7. Codec(c) \in 0 .. 255 /\ (Links[c] = <<>> <=> n = 0)
      BY <1>1, <1>5, EncodedParts
<1>8. PICK meta : meta = MetaByte(n > 0, Codec(c))  OBVIOUS
<1>9. IsChunkable(meta) <=> n > 0
  <2>1. (n > 0) \in BOOLEAN  OBVIOUS
  <2>. QED  BY <1>7, <1>8, <2>1, MetaByteBack
<1>10. PICK end \in Nat : end = off + len /\ end - 1 = off + (size + fs) /\ end - 1 \in Nat
  <2>1. off + len \in Nat /\ (off + len) - 1 = off + (size + fs) /\ (off + len) - 1 \in Nat
        BY <1>5
  <2>. QED  BY <2>1
<1>11. end <= file.file_size /\ file.file_size \in Nat /\ file.source \in Seq(Cell)
       BY <1>2, <1>3, <1>10 DEF HasChunks
<1>12. /\ Within(file.source, end - 1, end)
       /\ IsField(Get(file.source, end - 1, end), "meta", 1)
       /\ Get(file.source, end - 1, end)[1][3] = meta
  <2>1. Encode(c)[len] = <<"meta", 1, meta>>  BY <1>2, <1>6, <1>8 DEF EncodedAs
  <2>2. \A j \in 1 .. 1 : Encode(c)[(size + fs) + j] = <<"meta", j, meta>>
    <3>1. len = (size + fs) + 1 /\ \A j \in 1 .. 1 : j = 1  BY <1>5
    <3>. QED  BY <2>1, <3>1
  <2>3. (size + fs) + 1 <= Length[c] /\ size + fs \in Nat /\ end - 1 = acked[c] + (size + fs)
        /\ 1 \in Nat \ {0} /\ (end - 1) + 1 = end
        BY <1>2, <1>3, <1>5, <1>10
  <2>4. PICK start \in Nat : start = end - 1  BY <1>10
  <2>5. PICK at \in Nat : at = size + fs  OBVIOUS
  <2>6. FieldOf(c, at, 1, "meta", meta)  BY <2>2, <2>3, <2>5 DEF FieldOf
  <2>7. start = acked[c] + at /\ 1 \in Nat \ {0} /\ start + 1 = end  BY <2>3, <2>4, <2>5
  <2>8. FieldAt(file, start, 1, "meta", meta)  BY <2>6, <2>7, FieldFound
  <2>. QED  BY <2>4, <2>7, <2>8 DEF FieldAt
<1>13. NodeOf(c) = [offset |-> off, length |-> len, meta |-> meta, child_count |-> n,
                    payload_end |-> off + size]
  <2>1. (Links[c] # <<>>) = (n > 0)  BY <1>1, <1>7
  <2>. QED  BY <1>1, <1>2, <1>3, <1>5, <1>8, <2>1 DEF NodeOf
<1>14. CASE n = 0
  <2>1. fs = 0  BY <1>4, <1>14 DEF FooterSize
  <2>2. end - 1 = off + size  BY <1>10, <2>1
  <2>3. GetChunk(file, RefOf(c)) = Node(RefOf(c), meta, 0, end - 1)
        BY <1>2, <1>3, <1>9, <1>10, <1>11, <1>12, <1>14 DEF GetChunk, RefOf
  <2>. QED  BY <1>2, <1>3, <1>13, <1>14, <2>2, <2>3 DEF Node, RefOf
<1>15. CASE n > 0
  <2>1. PICK S \in Nat \ {0}, C \in Nat \ {0} : S = CHILD_REF_SIZE /\ C = COUNT_SIZE
        BY FormatAssumption
  <2>2. PICK m \in Nat : m = n * S  OBVIOUS
  <2>3. fs = m + C
    <3>1. S * n = n * S /\ n # 0  BY <1>15
    <3>. QED  BY <1>4, <2>1, <2>2, <3>1 DEF FooterSize
  <2>4. TotalMetaSize(n) = (1 + C) + m
    <3>1. S * n = n * S  OBVIOUS
    <3>. QED  BY <2>1, <2>2, <3>1 DEF TotalMetaSize
  <2>5. PICK start \in Nat : start = off + (size + m) /\ start = (end - 1) - C
        /\ start + C = (end - 1)
    <3>1. off + (size + m) \in Nat  OBVIOUS
    <3>2. end - 1 = off + (size + (m + C))  BY <1>10, <2>3
    <3>3. off + (size + m) = (end - 1) - C  BY <3>2
    <3>. QED  BY <3>1, <3>2, <3>3
  <2>6. PICK bytes : bytes = Get(file.source, start, start + C)  OBVIOUS
  <2>7. IsField(bytes, "count", C) /\ bytes[1][3] = n
    <3>1. PICK at \in Nat : at = size + m  OBVIOUS
    <3>2. \A j \in 1 .. C : Encode(c)[size + (m + j)] = <<"count", j, n>>
          BY <1>6, <1>15, <2>1, <2>2 DEF EncodedAs
    <3>3. \A j \in 1 .. C : at + j = size + (m + j)  BY <3>1
    <3>4. \A j \in 1 .. C : Encode(c)[at + j] = <<"count", j, n>>  BY <3>2, <3>3
    <3>5. start = acked[c] + at /\ at + C <= Length[c]
          BY <1>2, <1>3, <1>5, <2>3, <2>5, <3>1
    <3>6. FieldAt(file, start, C, "count", n)  BY <3>4, <3>5, FieldFound DEF FieldOf
    <3>. QED  BY <2>6, <3>6 DEF FieldAt
  <2>8. ~(len < 1 + C) /\ ~(len < (1 + C) + m) /\ end - ((1 + C) + m) = off + size
        BY <1>5, <1>10, <2>3
  <2>9. RefOf(c).offset + RefOf(c).length = end /\ RefOf(c).length = len
        BY <1>2, <1>3, <1>10 DEF RefOf
  <2>10. GetChunkWithFooter(file, RefOf(c), meta) = Node(RefOf(c), meta, n, off + size)
         BY <2>1, <2>4, <2>5, <2>6, <2>7, <2>8, <2>9 DEF GetChunkWithFooter
  <2>11. GetChunk(file, RefOf(c)) = GetChunkWithFooter(file, RefOf(c), meta)
         BY <1>9, <1>10, <1>11, <1>12, <1>15, <2>9 DEF GetChunk
  <2>. QED  BY <1>2, <1>3, <1>13, <2>10, <2>11 DEF Node, RefOf
<1>. QED  BY <1>1, <1>14, <1>15

\* The place of a chunk's footer and payload in the file.
LEMMA NodePlaces ==
  ASSUME NEW file, HasChunks(file), NEW c \in Chunk
  PROVE  \E n \in Nat, size \in Nat, off \in Nat :
           /\ n = Len(Links[c]) /\ DOMAIN Links[c] = 1 .. n
           /\ size = PayloadLength(c) /\ off = acked[c]
           /\ Length[c] \in Nat /\ Length[c] = size + (FooterSize(n) + 1)
           /\ NodeOf(c).child_count = n /\ NodeOf(c).offset = off
           /\ NodeOf(c).payload_end = off + size
           /\ NodeOf(c).meta = MetaByte(n > 0, Codec(c))
<1>1. PICK n \in Nat : n = Len(Links[c])
  <2>1. Links[c] \in Seq(Chunk)  BY SaveAssumption
  <2>. QED  BY <2>1
<1>2. PICK len \in Nat : len = Length[c]  BY SaveAssumption, BlockBytes
<1>3. PICK off \in Nat : off = acked[c]  BY DEF HasChunks
<1>4. PICK fs \in Nat : fs = FooterSize(n)
  <2>1. CHILD_REF_SIZE * n \in Nat /\ COUNT_SIZE \in Nat  BY FormatAssumption
  <2>. QED  BY <2>1 DEF FooterSize
<1>5. PICK size \in Nat : size = PayloadLength(c)
  <2>1. len > fs  BY <1>1, <1>2, <1>4, SaveAssumption
  <2>2. PayloadLength(c) = len - 1 - fs  BY <1>1, <1>2, <1>4 DEF PayloadLength
  <2>3. len - 1 - fs \in Nat  BY <2>1
  <2>. QED  BY <2>2, <2>3
<1>6. /\ DOMAIN Links[c] = 1 .. n /\ (Links[c] = <<>> <=> n = 0)
      /\ Length[c] = size + (FooterSize(n) + 1)
      BY <1>1, <1>5, EncodedParts
<1>7. (Links[c] # <<>>) = (n > 0)  BY <1>6
<1>8. /\ NodeOf(c).child_count = n /\ NodeOf(c).offset = off
      /\ NodeOf(c).payload_end = off + size /\ NodeOf(c).meta = MetaByte(n > 0, Codec(c))
      BY <1>1, <1>3, <1>5, <1>7 DEF NodeOf
<1>. QED  BY <1>1, <1>2, <1>3, <1>5, <1>6, <1>8

\* get_child_by_index follows the entry of the footer to that child.
LEMMA ChildFound ==
  ASSUME NEW file, HasChunks(file), NEW c \in Chunk, NEW i \in DOMAIN Links[c]
  PROVE  GetChildByIndex(file, NodeOf(c), i - 1) = Success(NodeOf(Links[c][i]))
<1>1. PICK n \in Nat, size \in Nat, off \in Nat :
             /\ n = Len(Links[c]) /\ DOMAIN Links[c] = 1 .. n
             /\ size = PayloadLength(c) /\ off = acked[c]
             /\ Length[c] \in Nat /\ Length[c] = size + (FooterSize(n) + 1)
             /\ NodeOf(c).child_count = n /\ NodeOf(c).payload_end = off + size
      BY NodePlaces
<1>2. i \in 1 .. n /\ Links[c][i] \in Chunk  BY <1>1, EncodedParts
<1>3. PICK S \in Nat \ {0}, C \in Nat \ {0} : S = CHILD_REF_SIZE /\ C = COUNT_SIZE
      BY FormatAssumption
<1>4. PICK m \in Nat : m = n * S  OBVIOUS
<1>5. PICK len \in Nat : len = Length[c] /\ len = size + ((m + C) + 1)
  <2>1. S * n = n * S /\ n # 0  BY <1>2
  <2>2. FooterSize(n) = m + C  BY <1>3, <1>4, <2>1 DEF FooterSize
  <2>. QED  BY <1>1, <2>2
<1>6. PICK q \in Nat : q = (i - 1) * S  BY <1>2
<1>7. q + S <= m
  <2>1. S \in 1 .. S  OBVIOUS
  <2>2. (i - 1) * S + S \in 1 .. n * S  BY <1>2, <2>1, EntryInTable
  <2>. QED  BY <1>4, <1>6, <2>2
<1>8. PICK at \in Nat, start \in Nat : at = size + q /\ start = (off + size) + q
      OBVIOUS
<1>9. FieldOf(c, at, S, "ref", RefOf(Links[c][i]))
  <2>1. EncodedAs(c, n, size)  BY <1>1, ChunkBytes
  <2>2. \A j \in 1 .. S : Encode(c)[size + ((i - 1) * S + j)] = <<"ref", j, RefOf(Links[c][i])>>
        BY <1>2, <1>3, <2>1 DEF EncodedAs
  <2>3. \A j \in 1 .. S : size + (q + j) = at + j  BY <1>8
  <2>4. \A j \in 1 .. S : Encode(c)[at + j] = <<"ref", j, RefOf(Links[c][i])>>
        BY <1>6, <2>2, <2>3
  <2>5. at + S <= Length[c]  BY <1>5, <1>7, <1>8
  <2>. QED  BY <2>4, <2>5 DEF FieldOf
<1>10. FieldAt(file, start, S, "ref", RefOf(Links[c][i]))
  <2>1. start = acked[c] + at  BY <1>1, <1>8
  <2>. QED  BY <1>9, <2>1, FieldFound
<1>11. ~(i - 1 >= n)  BY <1>2
<1>12. NodeOf(c).payload_end + (i - 1) * CHILD_REF_SIZE = start
       BY <1>1, <1>3, <1>6, <1>8
<1>13. GetChildByIndex(file, NodeOf(c), i - 1) = GetChunk(file, RefOf(Links[c][i]))
       BY <1>1, <1>3, <1>10, <1>11, <1>12 DEF GetChildByIndex, FieldAt
<1>. QED  BY <1>2, <1>13, ChunkFound

\* A list of good results is collected as the list of their values.
LEMMA AllGood ==
  ASSUME NEW n \in Nat, NEW results, NEW values,
         results = [i \in 1 .. n |-> Success(values[i])]
  PROVE  AllOrFirstBad(results) = Success([i \in 1 .. n |-> values[i]])
<1>1. \A i \in 1 .. n : Ok(results[i]) /\ results[i].value = values[i]  BY DEF Ok, Success
<1>2. DOMAIN results = 1 .. n  OBVIOUS
<1>3. {i \in DOMAIN results : ~Ok(results[i])} = {}  BY <1>1, <1>2
<1>4. [i \in DOMAIN results |-> results[i].value] = [i \in 1 .. n |-> values[i]]
      BY <1>1, <1>2
<1>. QED  BY <1>3, <1>4 DEF AllOrFirstBad

\* children finds the node of every child, in link order.
LEMMA ChildrenFound ==
  ASSUME NEW file, HasChunks(file), NEW c \in Chunk
  PROVE  ChildrenOfNode(file, NodeOf(c))
           = Success([i \in DOMAIN Links[c] |-> NodeOf(Links[c][i])])
<1>1. PICK n \in Nat : DOMAIN Links[c] = 1 .. n /\ NodeOf(c).child_count = n
      BY NodePlaces
<1>2. PICK values : values = [i \in 1 .. n |-> NodeOf(Links[c][i])]  OBVIOUS
<1>3. PICK results : results = [i \in 1 .. n |-> GetChildByIndex(file, NodeOf(c), i - 1)]
      OBVIOUS
<1>4. \A i \in 1 .. n : results[i] = Success(values[i])
      BY <1>1, <1>2, <1>3, ChildFound
<1>5. results = [i \in 1 .. n |-> Success(values[i])]  BY <1>3, <1>4
<1>6. AllOrFirstBad(results) = Success([i \in 1 .. n |-> values[i]])  BY <1>5, AllGood
<1>7. [i \in 1 .. n |-> values[i]] = [i \in DOMAIN Links[c] |-> NodeOf(Links[c][i])]
      BY <1>1, <1>2
<1>. QED  BY <1>1, <1>3, <1>6, <1>7 DEF ChildrenOfNode

\* A reader has no compressor but NoCompression and perhaps LZ4, each at its id.
LEMMA ReaderRegistry ==
  ASSUME NEW lz4 \in BOOLEAN, NEW id \in 0 .. 7, Registered(NewRegistry(lz4), id)
  PROVE  NewRegistry(lz4)[id] = id
<1>1. EmptyRegistry = [i \in 0 .. 7 |-> 256]  BY DEF EmptyRegistry, NoAlgorithm
<1>2. 0 .. 7 \cup 0 .. 0 = 0 .. 7 /\ 0 .. 7 \cup 0 .. 1 = 0 .. 7  OBVIOUS
<1>3. PICK r : r = Register(EmptyRegistry, 0)  OBVIOUS
<1>4. r = [i \in 0 .. 7 |-> IF i = 0 THEN 0 ELSE 256]
      BY <1>1, <1>2, <1>3 DEF Register, NoAlgorithm
<1>5. CASE lz4
  <2>1. NewRegistry(lz4) = [i \in 0 .. 7 |-> IF i = 1 THEN 1 ELSE r[i]]
        BY <1>2, <1>3, <1>4, <1>5 DEF NewRegistry, Register
  <2>. QED  BY <1>4, <2>1 DEF Registered, NoAlgorithm
<1>6. CASE ~lz4
  <2>1. NewRegistry(lz4) = r  BY <1>3, <1>6 DEF NewRegistry
  <2>. QED  BY <1>4, <2>1 DEF Registered, NoAlgorithm
<1>. QED  BY <1>5, <1>6

\* read_raw hands the bytes of a chunk's payload to the compressor its MetaByte names.
LEMMA RawFound ==
  ASSUME NEW file, HasChunks(file), NEW c \in Chunk
  PROVE  ReadRaw(file, NodeOf(c)) = Decompress(file.registry, Codec(c) % 8, Payload(c))
<1>1. PICK n \in Nat, size \in Nat, off \in Nat :
             /\ n = Len(Links[c]) /\ size = PayloadLength(c) /\ off = acked[c]
             /\ Length[c] \in Nat /\ Length[c] = size + (FooterSize(n) + 1)
             /\ NodeOf(c).offset = off /\ NodeOf(c).payload_end = off + size
             /\ NodeOf(c).meta = MetaByte(n > 0, Codec(c))
      BY NodePlaces
<1>2. PICK id \in 0 .. 255 : id = Codec(c)  BY <1>1, EncodedParts
<1>3. CompressionMethod(NodeOf(c).meta) = id % 8
  <2>1. (n > 0) \in BOOLEAN  OBVIOUS
  <2>. QED  BY <1>1, <1>2, <2>1, MetaByteBack
<1>4. PICK s \in Seq(Cell) : s = file.source  BY DEF HasChunks
<1>5. off + size <= Len(s) /\ \A k \in 1 .. size : s[off + k] = Encode(c)[k]
  <2>1. PICK len \in Nat : len = Length[c] /\ size <= len
    <3>1. CHILD_REF_SIZE * n \in Nat /\ COUNT_SIZE \in Nat  BY FormatAssumption
    <3>2. FooterSize(n) \in Nat  BY <3>1 DEF FooterSize
    <3>. QED  BY <1>1, <3>2
  <2>2. off + len <= Len(s) /\ \A k \in 1 .. len : s[off + k] = Encode(c)[k]
        BY <1>1, <1>4, <2>1 DEF HasChunks
  <2>3. Len(s) \in Nat /\ \A k \in 1 .. size : k \in 1 .. len  BY <2>1
  <2>. QED  BY <2>1, <2>2, <2>3
<1>6. PICK raw : raw = Get(s, off, off + size)  OBVIOUS
<1>7. Len(raw) = size /\ Within(s, off, off + size) /\ \A k \in 1 .. size : raw[k] = s[off + k]
      BY <1>5, <1>6, GetBytes
<1>8. PICK p : p = Payload(c)  OBVIOUS
<1>9. p \in Seq(Cell) /\ Len(p) = size
      /\ \A k \in 1 .. size : p[k] = <<"payload", k, [of |-> c, by |-> id]>>
      BY <1>1, <1>2, <1>8, EncodedParts
<1>10. EncodedAs(c, n, size)  BY <1>1, ChunkBytes
<1>11. \A k \in 1 .. size : raw[k] = p[k]
       BY <1>2, <1>5, <1>7, <1>9, <1>10 DEF EncodedAs
<1>12. raw = p
  <2>1. raw \in Seq(Cell)
    <3>1. off + 1 \in Int /\ off + size \in Int /\ \A i \in off + 1 .. off + size : i \in 1 .. Len(s)
          BY <1>5
    <3>2. \A i \in off + 1 .. off + size : s[i] \in Cell  BY <3>1
    <3>. QED  BY <1>6, <3>1, <3>2, SubSeqProperties DEF Get
  <2>. QED  BY <1>7, <1>9, <1>11, <2>1, SeqEqual
<1>. QED  BY <1>1, <1>2, <1>3, <1>4, <1>6, <1>7, <1>8, <1>12 DEF ReadRaw

\* It is decompressed if the reader has a compressor of that number, and the one
\* that made it unless there is nothing to decompress.
LEMMA PayloadUndone ==
  ASSUME NEW lz4 \in BOOLEAN, NEW c \in Chunk
  PROVE  /\ Undone(c, NewRegistry(lz4)) =>
              Decompress(NewRegistry(lz4), Codec(c) % 8, Payload(c)) = Success(Payload(c))
         /\ Named(c, NewRegistry(lz4)) /\ ~Undone(c, NewRegistry(lz4)) =>
              Decompress(NewRegistry(lz4), Codec(c) % 8, Payload(c)) = Garbage
         /\ ~Named(c, NewRegistry(lz4)) =>
              Decompress(NewRegistry(lz4), Codec(c) % 8, Payload(c)) = Failed
<1>1. PICK size \in Nat : size = PayloadLength(c)
  <2>1. Links[c] \in Seq(Chunk)  BY SaveAssumption
  <2>2. PICK n \in Nat : n = Len(Links[c])  BY <2>1
  <2>3. PICK fs \in Nat : fs = FooterSize(n)
    <3>1. CHILD_REF_SIZE * n \in Nat /\ COUNT_SIZE \in Nat  BY FormatAssumption
    <3>. QED  BY <3>1 DEF FooterSize
  <2>4. PICK len \in Nat : len = Length[c]  BY SaveAssumption, BlockBytes
  <2>5. len > fs  BY <2>2, <2>3, <2>4, SaveAssumption
  <2>6. PayloadLength(c) = len - 1 - fs  BY <2>2, <2>3, <2>4 DEF PayloadLength
  <2>7. len - 1 - fs \in Nat  BY <2>5
  <2>. QED  BY <2>6, <2>7
<1>2. PICK p : p = Payload(c)  OBVIOUS
<1>3. /\ p \in Seq(Cell) /\ Len(p) = size
      /\ \A k \in 1 .. size : p[k] = <<"payload", k, [of |-> c, by |-> Codec(c)]>>
      /\ Codec(c) \in 0 .. 255
  <2>1. PICK n \in Nat : n = Len(Links[c])
    <3>1. Links[c] \in Seq(Chunk)  BY SaveAssumption
    <3>. QED  BY <3>1
  <2>2. /\ Payload(c) \in Seq(Cell) /\ Len(Payload(c)) = size
        /\ \A k \in 1 .. size : Payload(c)[k] = <<"payload", k, [of |-> c, by |-> Codec(c)]>>
        /\ Codec(c) \in 0 .. 255
        BY <1>1, <2>1, EncodedParts
  <2>. QED  BY <1>2, <2>2
<1>4. PICK id \in 0 .. 255 : id = Codec(c)  BY <1>3
<1>5. PICK low \in 0 .. 7 : low = id % 8 /\ (low = id <=> id <= 7)  OBVIOUS
<1>6. PICK registry : registry = NewRegistry(lz4)  OBVIOUS
<1>7. Undone(c, registry) <=> Registered(registry, low) /\ (id <= 7 \/ size = 0)
      BY <1>1, <1>4, <1>5 DEF Undone, Named
<1>8. CASE ~Registered(registry, low)
  <2>1. Decompress(registry, low, p) = Failed  BY <1>8 DEF Decompress
  <2>. QED  BY <1>2, <1>4, <1>5, <1>6, <1>7, <1>8, <2>1 DEF Named
<1>9. CASE Registered(registry, low)
  <2>1. registry[low] = low  BY <1>6, <1>9, ReaderRegistry
  <2>2. DOMAIN p = 1 .. size  BY <1>3
  <2>3. \A k \in 1 .. size : p[k][1] = "payload" /\ p[k][3].by = id  BY <1>3, <1>4
  <2>4. CASE id <= 7 \/ size = 0
    <3>1. \A k \in DOMAIN p : p[k][1] = "payload" /\ p[k][3].by = registry[low]
          BY <1>5, <2>1, <2>2, <2>3, <2>4
    <3>2. Decompress(registry, low, p) = Success(p)  BY <1>9, <3>1 DEF Decompress
    <3>. QED  BY <1>2, <1>4, <1>5, <1>6, <1>7, <1>9, <2>4, <3>2 DEF Named
  <2>5. CASE ~(id <= 7 \/ size = 0)
    <3>1. 1 \in 1 .. size  BY <2>5
    <3>2. p[1][3].by # registry[low]  BY <1>5, <2>1, <2>3, <2>5, <3>1
    <3>3. ~\A k \in DOMAIN p : p[k][1] = "payload" /\ p[k][3].by = registry[low]
          BY <2>2, <3>1, <3>2
    <3>4. Decompress(registry, low, p) = Garbage  BY <1>9, <3>3 DEF Decompress
    <3>. QED  BY <1>2, <1>4, <1>5, <1>6, <1>7, <1>9, <2>5, <3>4 DEF Named
  <2>. QED  BY <2>4, <2>5
<1>. QED  BY <1>8, <1>9

\* read_raw gives back what was compressed, if the reader has the compressor.
LEMMA PayloadFound ==
  ASSUME NEW file, HasChunks(file), NEW lz4 \in BOOLEAN, file.registry = NewRegistry(lz4),
         NEW c \in Chunk, Codec(c) <= 7
  PROVE  ReadRaw(file, NodeOf(c))
           = IF Readable(c, file.registry) THEN Success(Payload(c)) ELSE Failed
<1>1. Codec(c) \in 0 .. 7
  <2>1. Codec(c) \in 0 .. 255
    <3>1. Config[c] \in 0 .. 255  BY SaveAssumption
    <3>. QED  BY <3>1 DEF Codec
  <2>. QED  BY <2>1
<1>2. (Codec(c) % 8) = Codec(c)  BY <1>1
<1>3. /\ Readable(c, file.registry) <=> Registered(file.registry, Codec(c))
      /\ Undone(c, file.registry) <=> Registered(file.registry, Codec(c))
      BY <1>2 DEF Readable, Undone, Named
<1>4. Named(c, file.registry) <=> Registered(file.registry, Codec(c))  BY <1>2 DEF Named
<1>. QED  BY <1>2, <1>3, <1>4, RawFound, PayloadUndone
-----------------------------------------------------------------------------
(***************************************************************************)
(* What the sink holds when a file opens, and when save returns Ok.         *)
(***************************************************************************)

\* The bytes found at the path are those the blocks were encoded as.
LEMMA BytesFound ==
  ASSUME SaveInv
  PROVE  /\ FileBytes \in Seq(Cell) /\ Len(FileBytes) = Len(sink)
         /\ \A i \in 1 .. Len(sink) :
              /\ sink[i][1] \in Block /\ sink[i][2] \in 1 .. Length[sink[i][1]]
              /\ Stream[i] = sink[i]
              /\ FileBytes[i] = Encode(sink[i][1])[sink[i][2]]
<1>1. sink \in Seq(Byte) /\ buf \in Seq(Byte)  BY DEF SaveInv, IInv, TypeOK, Byte
<1>2. PICK len \in Nat : len = Len(sink)  BY <1>1
<1>3. \A i \in 1 .. len : Stream[i] = sink[i] /\ i \in 1 .. Len(Stream)
  <2>1. Len(Stream) = len + Len(buf) /\ \A i \in 1 .. len : Stream[i] = sink[i]
        BY <1>1, <1>2, ConcatProperties DEF Stream
  <2>2. Len(buf) \in Nat  BY <1>1
  <2>. QED  BY <2>1, <2>2
<1>4. \A i \in 1 .. len : sink[i][1] \in Block /\ sink[i][2] \in 1 .. Length[sink[i][1]]
  <2>1. \A i \in 1 .. len : sink[i] \in Byte  BY <1>1, <1>2
  <2>2. \A i \in 1 .. len : Stream[i][2] \in 1 .. Length[Stream[i][1]]
        BY <1>3 DEF SaveInv, BytesTrue
  <2>. QED  BY <1>3, <2>1, <2>2 DEF Byte
<1>5. DOMAIN sink = 1 .. len  BY <1>1, <1>2
<1>6. FileBytes = [i \in 1 .. len |-> Encode(sink[i][1])[sink[i][2]]]
  <2>1. \A i \in 1 .. len : sink[i][1] \in {sink[x][1] : x \in 1 .. len}  OBVIOUS
  <2>2. \A i \in 1 .. len :
          [b \in {sink[x][1] : x \in 1 .. len} |-> Encode(b)][sink[i][1]] = Encode(sink[i][1])
        BY <2>1
  <2>. QED  BY <1>5, <2>2 DEF FileBytes
<1>7. ASSUME NEW i \in 1 .. len PROVE FileBytes[i] \in Cell
  <2>1. PICK b, k : b = sink[i][1] /\ k = sink[i][2] /\ b \in Block /\ k \in 1 .. Length[b]
        BY <1>4
  <2>2. Encode(b)[k] \in Cell
    <3>1. CASE b = Header
      <4>1. PICK v \in Value : v = [version |-> 4, root |-> RefOf(RootChunk)]  BY DEF Value
      <4>2. Encode(b) = Field("header", GLOBAL_HEADER_SIZE, v)
            BY <3>1, <4>1 DEF Encode, GlobalHeader
      <4>3. Length[b] = GLOBAL_HEADER_SIZE /\ GLOBAL_HEADER_SIZE \in Nat
            BY <3>1, SaveAssumption, FormatAssumption
      <4>4. Encode(b)[k] = <<"header", k, v>>  BY <2>1, <4>1, <4>2, <4>3, FieldBytes
      <4>5. k \in Nat  BY <2>1, <4>3
      <4>. QED  BY <4>1, <4>4, <4>5 DEF Cell
    <3>2. CASE b # Header
      <4>1. b \in Chunk  BY <2>1, <3>2, SaveAssumption
      <4>2. Encode(b) \in Seq(Cell) /\ Len(Encode(b)) = Length[b]  BY <4>1, ChunkEncoded
      <4>. QED  BY <2>1, <4>2
    <3>. QED  BY <3>1, <3>2
  <2>. QED  BY <1>6, <2>1, <2>2
<1>8. FileBytes \in Seq(Cell) /\ Len(FileBytes) = len
  <2>1. FileBytes \in [1 .. len -> Cell]  BY <1>6, <1>7
  <2>2. FileBytes \in Seq(Cell)  BY <2>1
  <2>3. DOMAIN FileBytes = 1 .. len  BY <2>1
  <2>. QED  BY <2>2, <2>3
<1>. QED  BY <1>2, <1>3, <1>4, <1>6, <1>8

\* A file that opens has a header at its end, and the whole document before it.
LEMMA OpensWhole ==
  ASSUME SaveInv, NEW read \in 0 .. Len(sink), NEW size \in 0 .. Len(sink),
         NEW lz4 \in BOOLEAN, Opens(SubSeq(FileBytes, 1, read), size)
  PROVE  /\ HasChunks(ParcodeFile(SubSeq(FileBytes, 1, read), size, lz4))
         /\ ParcodeFile(SubSeq(FileBytes, 1, read), size, lz4).root = RefOf(RootChunk)
         /\ Whole
<1>1. PICK len \in Nat : len = Len(sink) /\ read \in 0 .. len /\ size \in 0 .. len
  <2>1. sink \in Seq(Byte)  BY DEF SaveInv, IInv, TypeOK, Byte
  <2>. QED  BY <2>1
<1>2. PICK bytes \in Seq(Cell) : bytes = FileBytes /\ Len(bytes) = len  BY <1>1, BytesFound
<1>3. PICK s : s = SubSeq(bytes, 1, read)  OBVIOUS
<1>4. s \in Seq(Cell) /\ Len(s) = read /\ \A i \in 1 .. read : s[i] = bytes[i]
  <2>1. 0 \in Nat /\ read \in Nat /\ 0 + read <= Len(bytes)  BY <1>1, <1>2
  <2>2. 0 + read = read /\ 0 + 1 = 1 /\ \A i \in 1 .. read : 0 + i = i  BY <2>1
  <2>3. Len(s) = read /\ \A i \in 1 .. read : s[i] = bytes[i]
        BY <1>3, <2>1, <2>2, GetBytes DEF Get
  <2>4. s \in Seq(Cell)
    <3>1. \A i \in 1 .. read : bytes[i] \in Cell  BY <1>1, <1>2
    <3>2. 1 \in Int /\ read \in Int  BY <2>1
    <3>. QED  BY <1>3, <3>1, <3>2, SubSeqProperties
  <2>. QED  BY <2>3, <2>4
<1>5. PICK G \in Nat \ {0} : G = GLOBAL_HEADER_SIZE  BY FormatAssumption
<1>6. PICK start \in Nat : start = size - G /\ start + G <= read /\ start + G = size
  <2>1. size >= G /\ Within(s, size - G, (size - G) + G)
        BY <1>2, <1>3, <1>5 DEF Opens, HeaderStart
  <2>2. (size - G) + G <= read  BY <1>4, <2>1 DEF Within
  <2>3. size - G \in Nat /\ (size - G) + G = size  BY <1>1, <2>1
  <2>. QED  BY <2>2, <2>3
<1>7. PICK h : h = HeaderBytes(s, size)  OBVIOUS
<1>8. h[1] = s[start + 1] /\ h[1][1] = "header"
  <2>1. h = Get(s, start, start + G)  BY <1>5, <1>6, <1>7 DEF HeaderBytes, HeaderStart
  <2>2. \A i \in 1 .. G : h[i] = s[start + i]  BY <1>4, <1>6, <2>1, GetBytes
  <2>3. IsField(h, "header", G)  BY <1>2, <1>3, <1>5, <1>7 DEF Opens
  <2>4. 1 \in 1 .. G  OBVIOUS
  <2>. QED  BY <2>2, <2>3, <2>4 DEF IsField
<1>9. start + 1 \in 1 .. read /\ start + 1 \in 1 .. len  BY <1>1, <1>6
<1>10. PICK b, k :
              /\ b \in Block /\ k \in 1 .. Length[b]
              /\ sink[start + 1][1] = b /\ Stream[start + 1] = sink[start + 1]
              /\ s[start + 1] = Encode(b)[k]
       BY <1>1, <1>2, <1>4, <1>9, BytesFound
<1>11. b = Header
  <2>1. CASE b \in Chunk
    <3>1. Encode(b)[k][1] # "header"  BY <1>10, <2>1, ChunkEncoded
    <3>. QED  BY <1>8, <1>10, <3>1
  <2>. QED  BY <1>10, <2>1, SaveAssumption
<1>12. h[1][3].root = RefOf(RootChunk)
  <2>1. PICK v \in Value : v = [version |-> 4, root |-> RefOf(RootChunk)]  BY DEF Value
  <2>2. Encode(b) = Field("header", G, v)  BY <1>5, <1>11, <2>1 DEF Encode, GlobalHeader
  <2>3. Length[b] = G  BY <1>5, <1>11, SaveAssumption
  <2>4. Encode(b)[k] = <<"header", k, v>>  BY <1>10, <2>2, <2>3, FieldBytes
  <2>. QED  BY <1>8, <1>10, <2>1, <2>4
<1>13. Whole /\ \A c \in Chunk : acked[c] + Length[c] < start + 1
  <2>1. start + 1 \in 1 .. Len(Stream)
    <3>1. sink \in Seq(Byte) /\ buf \in Seq(Byte)  BY DEF SaveInv, IInv, TypeOK, Byte
    <3>2. Len(Stream) = len + Len(buf)  BY <1>1, <3>1, ConcatProperties DEF Stream
    <3>3. Len(buf) \in Nat  BY <3>1
    <3>. QED  BY <1>9, <3>2, <3>3
  <2>. QED  BY <1>10, <1>11, <2>1 DEF SaveInv, HeaderAboveChunks
<1>14. ASSUME NEW c \in Chunk
       PROVE  /\ acked[c] \in Nat /\ acked[c] + Length[c] <= size
              /\ acked[c] + Length[c] <= Len(s)
              /\ \A x \in 1 .. Length[c] : s[acked[c] + x] = Encode(c)[x]
  <2>1. PICK off \in Nat : off = acked[c]  BY <1>13 DEF Whole, SaveInv, SaveTypeOK, TypeOK
  <2>2. PICK n \in Nat : n = Length[c]  BY SaveAssumption, BlockBytes
  <2>3. off + n <= start
    <3>1. off + n < start + 1  BY <1>13, <2>1, <2>2
    <3>. QED  BY <3>1
  <2>4. off + n <= size /\ off + n <= read /\ off + n <= len  BY <1>1, <1>6, <2>3
  <2>5. ASSUME NEW x \in 1 .. n PROVE s[off + x] = Encode(c)[x]
    <3>1. off + x \in 1 .. read /\ off + x \in 1 .. len  BY <2>4
    <3>2. Stream[off + x] = <<c, x>>
      <4>1. Holds(Stream, c, off)  BY <1>13, <2>1 DEF SaveInv, ChunksInPlace, Whole
      <4>2. Stream \in Seq(Byte)  BY StreamType DEF SaveInv, IInv
      <4>3. c \in Block  BY SaveAssumption
      <4>4. PICK t \in Seq(Byte) : t = Stream  BY <4>2
      <4>. QED  BY <2>2, <4>1, <4>3, <4>4, HeldWithin
    <3>3. sink[off + x] = <<c, x>> /\ bytes[off + x] = Encode(c)[x]
          BY <1>1, <1>2, <3>1, <3>2, BytesFound
    <3>. QED  BY <1>4, <3>1, <3>3
  <2>. QED  BY <1>4, <2>1, <2>2, <2>4, <2>5
<1>15. PICK file : file = ParcodeFile(s, size, lz4)  OBVIOUS
<1>16. /\ file.source = s /\ file.file_size = size /\ file.root = h[1][3].root
       BY <1>7, <1>15 DEF ParcodeFile
<1>17. HasChunks(file)  BY <1>1, <1>4, <1>14, <1>16 DEF HasChunks
<1>. QED  BY <1>2, <1>3, <1>12, <1>13, <1>15, <1>16, <1>17

\* Whatever failed and wherever the process died, a file that opens is a whole
\* document: the root is found, every chunk's children are, and every payload is
\* read back, or refused by a reader without its compressor.
THEOREM OpenedFilesAreWhole == Spec => []OpensOnlyIfWhole
<1>1. ASSUME SaveInv, NEW read \in 0 .. Len(sink), NEW size \in 0 .. Len(sink),
             NEW lz4 \in BOOLEAN, Ok(Open(FileBytes, read, size, lz4))
      PROVE  Faithful(Open(FileBytes, read, size, lz4).value)
  <2>1. Opens(SubSeq(FileBytes, 1, read), size)
    <3>1. ~Ok(Failed)  BY DEF Ok, Failed
    <3>. QED  BY <1>1, <3>1 DEF Open
  <2>2. PICK file : file = ParcodeFile(SubSeq(FileBytes, 1, read), size, lz4)  OBVIOUS
  <2>3. Open(FileBytes, read, size, lz4).value = file
        BY <2>1, <2>2 DEF Open, Success
  <2>4. HasChunks(file) /\ file.root = RefOf(RootChunk)  BY <1>1, <2>1, <2>2, OpensWhole
  <2>5. file.registry = NewRegistry(lz4)  BY <2>2 DEF ParcodeFile
  <2>6. RootNode(file) = Success(NodeOf(RootChunk))
        BY <2>4, SaveAssumption, ChunkFound DEF RootNode
  <2>7. ASSUME NEW c \in Chunk
        PROVE  ChildrenOfNode(file, NodeOf(c))
                 = Success([i \in DOMAIN Links[c] |-> NodeOf(Links[c][i])])
        BY <2>4, ChildrenFound
  <2>8. ASSUME NEW c \in Chunk, Codec(c) <= 7
        PROVE  ReadRaw(file, NodeOf(c))
                 = IF Readable(c, file.registry) THEN Success(Payload(c)) ELSE Failed
        BY <2>4, <2>5, <2>8, PayloadFound
  <2>. QED  BY <2>3, <2>6, <2>7, <2>8 DEF Faithful
<1>2. SaveInv => OpensOnlyIfWhole  BY <1>1 DEF OpensOnlyIfWhole
<1>. QED  BY <1>2, AlwaysSaveInv, PTL

\* When save has returned Ok the header is the end of the sink, where open looks
\* for it, though the writer is not dropped yet.
THEOREM SavedFilesOpen == Spec => []OkMeansReadable
<1>1. ASSUME SaveInv, phase = "ok" PROVE Opens(FileBytes, Len(sink))
  <2>1. /\ refused = {} /\ Header \in DOMAIN acked /\ buf = <<>> /\ call.op \notin Block
        /\ current_offset = acked[Header] + Length[Header]
        BY <1>1 DEF SaveInv, HeaderAfterChunks
  <2>2. sink \in Seq(Byte) /\ Stream = sink
    <3>1. sink \in Seq(Byte)  BY <1>1 DEF SaveInv, IInv, TypeOK, Byte
    <3>. QED  BY <2>1, <3>1, ConcatEmptySeq DEF Stream
  <2>3. PICK len \in Nat : len = Len(sink)  BY <2>2
  <2>4. PICK G \in Nat \ {0} : G = GLOBAL_HEADER_SIZE /\ G = Length[Header]
        BY FormatAssumption, SaveAssumption
  <2>5. PICK start \in Nat : start = acked[Header]
        BY <1>1, <2>1 DEF SaveInv, IInv, TypeOK
  <2>6. start + G = len
    <3>1. current_offset \in Nat /\ Stored = 0
          BY <1>1, <2>1 DEF SaveInv, IInv, TypeOK, Stored
    <3>2. current_offset + Stored = len  BY <1>1, <2>1, <2>2, <2>3 DEF SaveInv, IInv, OffsetFollows
    <3>. QED  BY <2>1, <2>4, <2>5, <3>1, <3>2
  <2>7. Holds(sink, Header, start)
        BY <1>1, <2>1, <2>2, <2>5 DEF SaveInv, IInv, OffsetsTrue
  <2>8. \A j \in 1 .. G : sink[start + j] = <<Header, j>>
    <3>1. Header \in Block  BY SaveAssumption
    <3>. QED  BY <2>2, <2>4, <2>7, <3>1, HeldWithin
  <2>9. PICK v \in Value : v = [version |-> 4, root |-> RefOf(RootChunk)]  BY DEF Value
  <2>10. Encode(Header) = Field("header", G, v)  BY <2>4, <2>9 DEF Encode, GlobalHeader
  <2>11. PICK bytes \in Seq(Cell) : bytes = FileBytes /\ Len(bytes) = len
         BY <1>1, <2>3, BytesFound
  <2>12. ASSUME NEW j \in 1 .. G PROVE bytes[start + j] = <<"header", j, v>>
    <3>1. start + j \in 1 .. len  BY <2>6
    <3>2. bytes[start + j] = Encode(Header)[j]  BY <1>1, <2>3, <2>8, <2>11, <3>1, BytesFound
    <3>3. Field("header", G, v)[j] = <<"header", j, v>>  BY FieldBytes
    <3>. QED  BY <2>10, <3>2, <3>3
  <2>13. len - G = start /\ len >= G  BY <2>6
  <2>14. PICK h : h = HeaderBytes(bytes, len)  OBVIOUS
  <2>15. h = Get(bytes, start, start + G)  BY <2>4, <2>13, <2>14 DEF HeaderBytes, HeaderStart
  <2>16. /\ Len(h) = G /\ Within(bytes, start, start + G)
         /\ \A j \in 1 .. G : h[j] = bytes[start + j]
    <3>1. start + G <= Len(bytes)  BY <2>6, <2>11
    <3>. QED  BY <2>15, <3>1, GetBytes
  <2>17. \A j \in 1 .. G : h[j] = <<"header", j, v>>  BY <2>12, <2>16
  <2>18. 1 \in 1 .. G  OBVIOUS
  <2>19. IsField(h, "header", G)  BY <2>16, <2>17, <2>18 DEF IsField
  <2>20. h[1][3].version = 4  BY <2>9, <2>17, <2>18
  <2>. QED  BY <2>3, <2>4, <2>11, <2>13, <2>14, <2>16, <2>19, <2>20 DEF Opens, HeaderStart
<1>2. SaveInv => OkMeansReadable  BY <1>1 DEF OkMeansReadable
<1>. QED  BY <1>2, AlwaysSaveInv, PTL

\* In a save the offsets handed out are true, what a flush acknowledged stays in
\* the sink, and the sink only grows.
THEOREM SaveWritesInOrder == Spec => []OffsetsTrue /\ []SyncedInSink /\ SinkGrowsInOrder
BY SaveUsesWriter, OffsetsAreTrue, FlushedIsInSink, SinkIsAPrefix, PTL
-----------------------------------------------------------------------------
(***************************************************************************)
(* The inspector.  It goes down from chunk to chunk, and comes to an end    *)
(* because a child lies before its parent in the file.                      *)
(***************************************************************************)
ChildrenBelow ==
  /\ \A b \in DOMAIN acked : acked[b] < current_offset
  /\ call.op \in Chunk => \A i \in DOMAIN Links[call.op] : Links[call.op][i] \in DOMAIN acked
  /\ \A c \in Chunk \cap DOMAIN acked : \A i \in DOMAIN Links[c] :
       Links[c][i] \in DOMAIN acked /\ acked[Links[c][i]] < acked[c]

\* A call of write_all for a chunk is made only once its children are written.
LEMMA CallsBottomUp ==
  ASSUME SaveInv, Next, NEW c \in Chunk, call'.op = c, call.op # c
  PROVE  acked' = acked /\ \A i \in DOMAIN Links[c] : Links[c][i] \in DOMAIN acked
<1>1. c \in Block /\ c # Header /\ c \notin {"none", "flush", "drop"}
      BY SaveAssumption, WriterAssumption
<1>2. CASE \E x \in Chunk : WriteChunk(x)
  <2> PICK x \in Chunk : WriteChunk(x)  BY <1>2
  <2>1. acked' = acked /\ ToSet(Links[x]) \subseteq DOMAIN acked /\ call'.op \in {x, call.op}
        BY DEF WriteChunk, WriteAll, WriteAllPoisoned
  <2>2. x = c  BY <2>1
  <2>. QED  BY <2>1, <2>2 DEF ToSet
<1>3. CASE WriteHeader \/ FlushChunks \/ FlushAll \/ DropWriter
      BY <1>1, <1>3 DEF WriteHeader, FlushChunks, FlushAll, DropWriter, WriteAll, Flush, Drop
<1>4. CASE WriterStep
  <2>1. call'.op \in {"none", call.op}
    <3>1. CASE SinkTakesBuffer  BY <3>1 DEF SinkTakesBuffer
    <3>2. CASE BufferFlushed \/ SinkTakesBlock
          BY <3>2 DEF BufferFlushed, SinkTakesBlock, SaveInv, IInv, TypeOK
    <3>3. CASE WriteOk \/ FlushOk  BY <3>3 DEF WriteOk, FlushOk, Idle
    <3>4. CASE SinkError \/ SinkPanic
          BY <3>4 DEF SinkError, SinkPanic, Idle, SaveInv, IInv, TypeOK
    <3>. QED  BY <1>4, <3>1, <3>2, <3>3, <3>4 DEF WriterStep
  <2>. QED  BY <1>1, <2>1
<1>5. CASE Create \/ ExecuteOk \/ ExecuteFails \/ Kill \/ Ended
  <2>1. UNCHANGED call
        BY <1>5 DEF Create, ExecuteOk, ExecuteFails, Kill, Ended, vars, seqWriterVars
  <2>. QED  BY <2>1
<1>. QED  BY <1>2, <1>3, <1>4, <1>5 DEF Next

\* current_offset only moves as a block is acknowledged, by its length.
LEMMA OffsetAdvances ==
  ASSUME SaveInv, SeqWriterNext
  PROVE  \/ acked' = acked /\ current_offset' = current_offset
         \/ /\ call.op \in Block /\ call.op \notin DOMAIN acked
            /\ DOMAIN acked' = DOMAIN acked \cup {call.op}
            /\ acked'[call.op] = current_offset
            /\ \A b \in DOMAIN acked : acked'[b] = acked[b]
            /\ current_offset < current_offset'
            /\ call'.op = "none"
<1>1. CASE WriteOk
  <2>1. /\ call.op \in Block /\ call'.op = "none"
        /\ acked' = [b \in DOMAIN acked \cup {call.op} |->
                       IF b = call.op THEN current_offset ELSE acked[b]]
        /\ current_offset' = current_offset + Length[call.op]
        BY <1>1 DEF WriteOk, StartOffset, Idle
  <2>2. call.op \notin DOMAIN acked  BY <2>1 DEF SaveInv, IInv, CallTrue
  <2>3. current_offset < current_offset'
    <3>1. PICK len \in Nat \ {0} : len = Length[call.op]  BY <2>1, WriterAssumption
    <3>2. PICK off \in Nat : off = current_offset  BY DEF SaveInv, IInv, TypeOK
    <3>. QED  BY <2>1, <3>1, <3>2
  <2>. QED  BY <2>1, <2>2, <2>3
<1>2. CASE ~WriteOk
      BY <1>2 DEF SeqWriterNext, InCallStep, WriteAll, WriteAllPoisoned, Flush, Drop,
         SinkTakesBuffer, BufferFlushed, SinkTakesBlock, FlushOk, SinkError, SinkPanic, Gone,
         seqWriterVars
<1>. QED  BY <1>1, <1>2

\* Before anything is written.
LEMMA InitChildrenBelow == Init => ChildrenBelow
<1> SUFFICES ASSUME Init PROVE ChildrenBelow  OBVIOUS
<1>1. DOMAIN acked = {} /\ call.op = "none"  BY DEF Init, SeqWriterInit, Idle
<1>2. "none" \notin Chunk  BY SaveAssumption, WriterAssumption
<1>. QED  BY <1>1, <1>2 DEF ChildrenBelow

\* A chunk goes to the end of the file, above everything that is there.
LEMMA NextChildrenBelow == SaveInv /\ ChildrenBelow /\ [Next]_vars => ChildrenBelow'
<1> SUFFICES ASSUME SaveInv, ChildrenBelow, [Next]_vars PROVE ChildrenBelow'  OBVIOUS
<1>1. CASE UNCHANGED seqWriterVars
      BY <1>1 DEF ChildrenBelow, seqWriterVars
<1>2. CASE Next /\ SeqWriterNext
  <2>1. call'.op \in Chunk => \A i \in DOMAIN Links[call'.op] : Links[call'.op][i] \in DOMAIN acked'
    <3> SUFFICES ASSUME call'.op \in Chunk
                 PROVE  \A i \in DOMAIN Links[call'.op] : Links[call'.op][i] \in DOMAIN acked'
        OBVIOUS
    <3>1. CASE call'.op # call.op  BY <1>2, <3>1, CallsBottomUp
    <3>2. CASE call'.op = call.op
      <4>1. DOMAIN acked \subseteq DOMAIN acked'  BY <1>2, WriterProgress DEF SaveInv
      <4>2. \A i \in DOMAIN Links[call.op] : Links[call.op][i] \in DOMAIN acked
            BY <3>2 DEF ChildrenBelow
      <4>. QED  BY <3>2, <4>1, <4>2
    <3>. QED  BY <3>1, <3>2
  <2>2. CASE acked' = acked /\ current_offset' = current_offset
        BY <2>1, <2>2 DEF ChildrenBelow
  <2>3. CASE ~(acked' = acked /\ current_offset' = current_offset)
    <3>1. PICK b \in Block :
             /\ b = call.op /\ b \notin DOMAIN acked
             /\ DOMAIN acked' = DOMAIN acked \cup {b}
             /\ acked'[b] = current_offset
             /\ \A x \in DOMAIN acked : acked'[x] = acked[x]
             /\ current_offset < current_offset'
          BY <1>2, <2>3, OffsetAdvances
    <3>2. current_offset \in Nat /\ current_offset' \in Nat
          /\ \A x \in DOMAIN acked : acked[x] \in Nat
      <4>1. IInv'  BY <1>2, NextIInv DEF SaveInv
      <4>. QED  BY <4>1 DEF SaveInv, IInv, TypeOK
    <3>3. \A x \in DOMAIN acked' : acked'[x] < current_offset'
      <4>1. ASSUME NEW x \in DOMAIN acked PROVE acked'[x] < current_offset'
        <5>1. acked[x] < current_offset /\ acked'[x] = acked[x]  BY <3>1 DEF ChildrenBelow
        <5>. QED  BY <3>1, <3>2, <5>1
      <4>. QED  BY <3>1, <4>1
    <3>4. ASSUME NEW c \in Chunk \cap DOMAIN acked', NEW i \in DOMAIN Links[c]
          PROVE  Links[c][i] \in DOMAIN acked' /\ acked'[Links[c][i]] < acked'[c]
      <4>1. CASE c = b
        <5>1. Links[c][i] \in DOMAIN acked  BY <3>1, <4>1 DEF ChildrenBelow
        <5>2. acked[Links[c][i]] < current_offset  BY <5>1 DEF ChildrenBelow
        <5>. QED  BY <3>1, <4>1, <5>1, <5>2
      <4>2. CASE c # b
        <5>1. c \in DOMAIN acked  BY <3>1, <4>2
        <5>2. Links[c][i] \in DOMAIN acked /\ acked[Links[c][i]] < acked[c]
              BY <5>1 DEF ChildrenBelow
        <5>. QED  BY <3>1, <5>1, <5>2
      <4>. QED  BY <4>1, <4>2
    <3>. QED  BY <2>1, <3>3, <3>4 DEF ChildrenBelow
  <2>. QED  BY <2>2, <2>3
<1>. QED  BY <1>1, <1>2, SaveSteps DEF vars

\* In the document that save writes, children lie before their parents.
LEMMA AlwaysChildrenBelow == Spec => []ChildrenBelow
BY InitChildrenBelow, NextChildrenBelow, AlwaysSaveInv, PTL DEF Spec

\* The report that `written` asks of every chunk of a set.
IsWritten(f, S, registry) ==
  f = [c \in S |-> WrittenInfo(c, registry, [i \in DOMAIN Links[c] |-> f[Links[c][i]]])]

Below(d) == {c \in Chunk : acked[c] < d}

\* The reports of a document's chunks, from those of their children.
LEMMA WrittenExists ==
  ASSUME ChildrenBelow, Chunk \subseteq DOMAIN acked, \A c \in Chunk : acked[c] \in Nat,
         NEW registry, NEW d \in Nat
  PROVE  \E f : IsWritten(f, Below(d), registry)
<1> DEFINE T == {m \in Nat : \E f : IsWritten(f, Below(m), registry)}
<1>1. 0 \in T
  <2>1. Below(0) = {}
    <3>1. \A c \in Chunk : ~(acked[c] < 0)  OBVIOUS
    <3>. QED  BY <3>1 DEF Below
  <2>2. PICK f : f = [c \in {} |-> WrittenInfo(c, registry, <<>>)]  OBVIOUS
  <2>3. DOMAIN f = {} /\ f = [c \in {} |-> WrittenInfo(c, registry, [i \in DOMAIN Links[c] |-> f[Links[c][i]]])]
        BY <2>2
  <2>4. IsWritten(f, Below(0), registry)  BY <2>1, <2>3 DEF IsWritten
  <2>. QED  BY <2>4
<1>2. ASSUME NEW m \in T PROVE m + 1 \in T
  <2>1. m \in Nat  OBVIOUS
  <2>2. PICK f : IsWritten(f, Below(m), registry)  OBVIOUS
  <2>3. \A c \in Below(m) :
          f[c] = WrittenInfo(c, registry, [i \in DOMAIN Links[c] |-> f[Links[c][i]]])
        BY <2>2 DEF IsWritten
  <2>4. PICK g : g = [c \in Below(m + 1) |->
                        WrittenInfo(c, registry, [i \in DOMAIN Links[c] |-> f[Links[c][i]]])]
        OBVIOUS
  <2>5. ASSUME NEW c \in Below(m + 1), NEW i \in DOMAIN Links[c]
        PROVE  Links[c][i] \in Below(m) /\ Links[c][i] \in Below(m + 1)
    <3>1. c \in Chunk /\ c \in DOMAIN acked /\ acked[c] < m + 1  BY DEF Below
    <3>2. acked[Links[c][i]] < acked[c]  BY <3>1 DEF ChildrenBelow
    <3>3. Links[c][i] \in Chunk
      <4>1. Links[c] \in Seq(Chunk)  BY <3>1, SaveAssumption
      <4>. QED  BY <4>1
    <3>4. acked[c] \in Nat /\ acked[Links[c][i]] \in Nat  BY <3>1, <3>3
    <3>5. acked[Links[c][i]] < m /\ acked[Links[c][i]] < m + 1  BY <2>1, <3>1, <3>2, <3>4
    <3>. QED  BY <3>3, <3>5 DEF Below
  <2>6. \A c \in Below(m + 1) : \A i \in DOMAIN Links[c] : g[Links[c][i]] = f[Links[c][i]]
        BY <2>3, <2>4, <2>5
  <2>7. ASSUME NEW c \in Below(m + 1)
        PROVE  WrittenInfo(c, registry, [i \in DOMAIN Links[c] |-> f[Links[c][i]]])
                 = WrittenInfo(c, registry, [i \in DOMAIN Links[c] |-> g[Links[c][i]]])
    <3>1. [i \in DOMAIN Links[c] |-> f[Links[c][i]]] = [i \in DOMAIN Links[c] |-> g[Links[c][i]]]
          BY <2>6
    <3>. QED  BY <3>1
  <2>8. IsWritten(g, Below(m + 1), registry)  BY <2>4, <2>7 DEF IsWritten
  <2>. QED  BY <2>1, <2>8
<1>3. T \in SUBSET Nat  OBVIOUS
<1> HIDE DEF T
<1>4. T = Nat  BY <1>1, <1>2, <1>3, AllNumbers
<1>5. d \in T  BY <1>4
<1>. QED  BY <1>5 DEF T

\* So the document has a report, the root's.
LEMMA WrittenIs ==
  ASSUME SaveInv, ChildrenBelow, Whole, NEW registry, NEW c \in Chunk
  PROVE  Written(registry)[c]
           = WrittenInfo(c, registry, [i \in DOMAIN Links[c] |-> Written(registry)[Links[c][i]]])
<1>1. Chunk \subseteq DOMAIN acked  BY DEF Whole
<1>2. PICK d \in Nat : d = current_offset  BY DEF SaveInv, IInv, TypeOK
<1>3. \A x \in Chunk : acked[x] \in Nat /\ acked[x] < d
      BY <1>1, <1>2 DEF SaveInv, IInv, TypeOK, ChildrenBelow
<1>4. Below(d) = Chunk  BY <1>3 DEF Below
<1>5. \E f : IsWritten(f, Chunk, registry)  BY <1>1, <1>3, <1>4, WrittenExists
<1>6. Written(registry) = CHOOSE f : IsWritten(f, Chunk, registry)  BY DEF Written, IsWritten
<1>7. IsWritten(Written(registry), Chunk, registry)  BY <1>5, <1>6
<1> PICK w : w = Written(registry)  OBVIOUS
<1>8. w = [x \in Chunk |-> WrittenInfo(x, registry, [i \in DOMAIN Links[x] |-> w[Links[x][i]]])]
      BY <1>7 DEF IsWritten
<1>9. w[c] = WrittenInfo(c, registry, [i \in DOMAIN Links[c] |-> w[Links[c][i]]])
      BY <1>8
<1>. QED  BY <1>9

\* The reports an inspector makes within so many levels.
IsLevels(f, m, file) ==
  f = [d \in 0 .. m |->
         [node \in Nodes(file) |-> IF d = 0 THEN Failed ELSE InspectNode(file, node, f[d - 1])]]

\* There are such for every number of levels.
LEMMA LevelsExist ==
  ASSUME NEW file, NEW m \in Nat
  PROVE  \E f : IsLevels(f, m, file)
<1> DEFINE T == {n \in Nat : \E f : IsLevels(f, n, file)}
<1>1. 0 \in T
  <2>1. PICK f : f = [d \in 0 .. 0 |-> [node \in Nodes(file) |-> Failed]]  OBVIOUS
  <2>2. f = [d \in 0 .. 0 |->
               [node \in Nodes(file) |-> IF d = 0 THEN Failed ELSE InspectNode(file, node, f[d - 1])]]
    <3>1. \A d \in 0 .. 0 : d = 0  OBVIOUS
    <3>2. \A d \in 0 .. 0 : [node \in Nodes(file) |-> Failed]
             = [node \in Nodes(file) |-> IF d = 0 THEN Failed ELSE InspectNode(file, node, f[d - 1])]
          BY <3>1
    <3>. QED  BY <2>1, <3>2
  <2>3. IsLevels(f, 0, file)  BY <2>2 DEF IsLevels
  <2>. QED  BY <2>3
<1>2. ASSUME NEW n \in T PROVE n + 1 \in T
  <2>1. n \in Nat  OBVIOUS
  <2>2. PICK f : IsLevels(f, n, file)  OBVIOUS
  <2>3. \A d \in 0 .. n : f[d] =
          [node \in Nodes(file) |-> IF d = 0 THEN Failed ELSE InspectNode(file, node, f[d - 1])]
        BY <2>2 DEF IsLevels
  <2>4. PICK last : last = [node \in Nodes(file) |-> InspectNode(file, node, f[n])]  OBVIOUS
  <2>5. PICK g : g = [d \in 0 .. n + 1 |-> IF d = n + 1 THEN last ELSE f[d]]  OBVIOUS
  <2>6. ASSUME NEW d \in 0 .. n + 1
        PROVE  g[d] = [node \in Nodes(file) |->
                         IF d = 0 THEN Failed ELSE InspectNode(file, node, g[d - 1])]
    <3>1. CASE d = 0
      <4>1. g[d] = f[d] /\ d \in 0 .. n  BY <2>1, <2>5, <3>1
      <4>2. f[d] = [node \in Nodes(file) |-> Failed]  BY <2>3, <3>1, <4>1
      <4>. QED  BY <3>1, <4>1, <4>2
    <3>2. CASE d # 0
      <4>1. d - 1 \in 0 .. n + 1 /\ d - 1 # n + 1 /\ d - 1 \in 0 .. n  BY <2>1, <3>2
      <4>2. g[d - 1] = f[d - 1]  BY <2>5, <4>1
      <4>3. g[d] = [node \in Nodes(file) |-> InspectNode(file, node, f[d - 1])]
        <5>1. CASE d = n + 1
          <6>1. d - 1 = n /\ g[d] = last  BY <2>1, <2>5, <5>1
          <6>. QED  BY <2>4, <6>1
        <5>2. CASE d # n + 1
          <6>1. d \in 0 .. n /\ g[d] = f[d]  BY <2>1, <2>5, <5>2
          <6>. QED  BY <2>3, <3>2, <6>1
        <5>. QED  BY <5>1, <5>2
      <4>. QED  BY <3>2, <4>2, <4>3
    <3>. QED  BY <3>1, <3>2
  <2>7. g = [d \in 0 .. n + 1 |->
               [node \in Nodes(file) |-> IF d = 0 THEN Failed ELSE InspectNode(file, node, g[d - 1])]]
    <3>1. PICK h : h = [d \in 0 .. n + 1 |->
             [node \in Nodes(file) |-> IF d = 0 THEN Failed ELSE InspectNode(file, node, g[d - 1])]]
          OBVIOUS
    <3>2. \A d \in 0 .. n + 1 : g[d] = h[d]  BY <2>6, <3>1
    <3>3. g = h  BY <2>5, <3>1, <3>2
    <3>. QED  BY <3>1, <3>3
  <2>8. IsLevels(g, n + 1, file)  BY <2>7 DEF IsLevels
  <2>. QED  BY <2>1, <2>8
<1>3. T \in SUBSET Nat  OBVIOUS
<1> HIDE DEF T
<1>4. T = Nat  BY <1>1, <1>2, <1>3, AllNumbers
<1>5. m \in T  BY <1>4
<1>. QED  BY <1>5 DEF T

\* One level more is one call of inspect_node.
LEMMA LevelAbove ==
  ASSUME NEW file, Len(file.source) \in Nat, NEW d \in 1 .. Len(file.source),
         NEW node \in Nodes(file)
  PROVE  Levels(file)[d][node] = InspectNode(file, node, Levels(file)[d - 1])
<1>1. PICK m \in Nat : m = Len(file.source)  OBVIOUS
<1>2. Levels(file) = CHOOSE f : IsLevels(f, m, file)  BY <1>1 DEF Levels, IsLevels
<1>3. PICK f : f = Levels(file) /\ IsLevels(f, m, file)  BY <1>1, <1>2, LevelsExist
<1>4. d \in 0 .. m /\ d # 0  BY <1>1
<1>5. f[d] = [x \in Nodes(file) |-> IF d = 0 THEN Failed ELSE InspectNode(file, x, f[d - 1])]
      BY <1>3, <1>4 DEF IsLevels
<1>. QED  BY <1>3, <1>4, <1>5

\* The node of a chunk is within the file.
LEMMA NodeWithin ==
  ASSUME NEW file, HasChunks(file), NEW c \in Chunk
  PROVE  NodeOf(c) \in Nodes(file)
<1>1. PICK n \in Nat, size \in Nat, off \in Nat :
             /\ n = Len(Links[c]) /\ size = PayloadLength(c) /\ off = acked[c]
             /\ Length[c] \in Nat /\ Length[c] = size + (FooterSize(n) + 1)
      BY NodePlaces
<1>2. PICK len \in Nat : len = Length[c]  BY <1>1
<1>3. PICK m \in Nat : m = Len(file.source) /\ off + len <= m  BY <1>1, <1>2 DEF HasChunks
<1>4. PICK fs \in Nat : fs = FooterSize(n) /\ n <= fs
  <2>1. PICK S \in Nat \ {0}, C \in Nat \ {0} : S = CHILD_REF_SIZE /\ C = COUNT_SIZE
        BY FormatAssumption
  <2>2. CASE n = 0
    <3>1. FooterSize(n) = 0  BY <2>2 DEF FooterSize
    <3>. QED  BY <2>2, <3>1
  <2>3. CASE n # 0
    <3>1. FooterSize(n) = S * n + C  BY <2>1, <2>3 DEF FooterSize
    <3>2. S - 1 \in Nat /\ S * n = (S - 1) * n + n  OBVIOUS
    <3>3. PICK k \in Nat : k = (S - 1) * n  BY <3>2
    <3>4. FooterSize(n) = k + n + C  BY <3>1, <3>2, <3>3
    <3>5. k + n + C \in Nat /\ n <= k + n + C  OBVIOUS
    <3>. QED  BY <3>4, <3>5
  <2>. QED  BY <2>2, <2>3
<1>5. off \in 0 .. m /\ len \in 0 .. m /\ n \in 0 .. m /\ off + size \in 0 .. m
  <2>1. len = size + (fs + 1)  BY <1>1, <1>2, <1>4
  <2>. QED  BY <1>3, <1>4, <2>1
<1>6. PICK meta : meta = MetaByte(Links[c] # <<>>, Codec(c))  OBVIOUS
<1>7. meta \in 0 .. 255
  <2>1. PICK id \in 0 .. 255 : id = Codec(c)  BY <1>1, EncodedParts
  <2>2. PICK low \in 0 .. 7 : low = (id % 8)  OBVIOUS
  <2>3. meta \in {low * 2, low * 2 + 1}
    <3>1. CASE Links[c] = <<>>
      <4>1. meta = low * 2 + 0  BY <1>6, <2>1, <2>2, <3>1 DEF MetaByte
      <4>. QED  BY <4>1
    <3>2. CASE Links[c] # <<>>
      <4>1. meta = low * 2 + 1  BY <1>6, <2>1, <2>2, <3>2 DEF MetaByte
      <4>. QED  BY <4>1
    <3>. QED  BY <3>1, <3>2
  <2>. QED  BY <2>3
<1>8. NodeOf(c) = [offset |-> off, length |-> len, meta |-> meta, child_count |-> n,
                   payload_end |-> off + size]
      BY <1>1, <1>2, <1>6 DEF NodeOf
<1>9. Nodes(file) = [offset : 0 .. m, length : 0 .. m, meta : 0 .. 255, child_count : 0 .. m,
                     payload_end : 0 .. m]
      BY <1>3 DEF Nodes
<1>. QED  BY <1>5, <1>7, <1>8, <1>9

\* What is reported of a chunk's own node is as it was written.
LEMMA InfoFound ==
  ASSUME NEW file, HasChunks(file), NEW lz4 \in BOOLEAN, file.registry = NewRegistry(lz4),
         NEW c \in Chunk, NEW children
  PROVE  ChunkInfo(file, NodeOf(c), children) = WrittenInfo(c, file.registry, children)
<1>1. PICK n \in Nat, size \in Nat, off \in Nat :
             /\ n = Len(Links[c]) /\ size = PayloadLength(c) /\ off = acked[c]
             /\ NodeOf(c).child_count = n /\ NodeOf(c).offset = off
             /\ NodeOf(c).payload_end = off + size
             /\ NodeOf(c).meta = MetaByte(n > 0, Codec(c))
      BY NodePlaces
<1>2. Codec(c) \in 0 .. 255 /\ (Links[c] = <<>> <=> n = 0)  BY <1>1, EncodedParts
<1>3. PICK node : node = NodeOf(c)  OBVIOUS
<1>4. node.length = Length[c]  BY <1>3 DEF NodeOf
<1>5. PayloadLen(node) = size
  <2>1. (off + size) - off = size  OBVIOUS
  <2>. QED  BY <1>1, <1>3, <2>1 DEF PayloadLen
<1>6. CompressionMethod(node.meta) = Codec(c) % 8
  <2>1. PICK id \in 0 .. 255 : id = Codec(c)  BY <1>2
  <2>2. (n > 0) \in BOOLEAN  OBVIOUS
  <2>3. CompressionMethod(MetaByte(n > 0, id)) = id % 8  BY <2>2, MetaByteBack
  <2>. QED  BY <1>1, <1>3, <2>1, <2>3
<1>7. IsChunkable(node.meta) = (Links[c] # <<>>)
  <2>1. (n > 0) \in BOOLEAN /\ (n > 0 <=> n # 0)  OBVIOUS
  <2>2. IsChunkable(node.meta) <=> n > 0  BY <1>1, <1>2, <1>3, <2>1, MetaByteBack
  <2>3. IsChunkable(node.meta) \in BOOLEAN  BY DEF IsChunkable
  <2>. QED  BY <1>2, <2>1, <2>2, <2>3
<1>8. TypeHint(file, node) = IF Links[c] = <<>> THEN "Leaf/Blob"
                             ELSE IF Undone(c, file.registry) THEN "Container"
                             ELSE IF Named(c, file.registry) THEN "any" ELSE "Corrupted"
  <2>1. ReadRaw(file, node) = Decompress(file.registry, Codec(c) % 8, Payload(c))
        BY <1>3, RawFound
  <2>2. PICK status : status = ReadRaw(file, node).status  OBVIOUS
  <2>3. status = IF Undone(c, file.registry) THEN "ok"
                 ELSE IF Named(c, file.registry) THEN "garbage" ELSE "err"
    <3>1. CASE Undone(c, file.registry)
      <4>1. ReadRaw(file, node) = Success(Payload(c))  BY <2>1, <3>1, PayloadUndone
      <4>. QED  BY <2>2, <3>1, <4>1 DEF Success
    <3>2. CASE ~Undone(c, file.registry) /\ Named(c, file.registry)
      <4>1. ReadRaw(file, node) = Garbage  BY <2>1, <3>2, PayloadUndone
      <4>. QED  BY <2>2, <3>2, <4>1 DEF Garbage
    <3>3. CASE ~Named(c, file.registry)
      <4>1. ReadRaw(file, node) = Failed  BY <2>1, <3>3, PayloadUndone
      <4>. QED  BY <2>2, <3>3, <4>1 DEF Failed, Undone
    <3>. QED  BY <3>1, <3>2, <3>3
  <2>4. TypeHint(file, node) = IF n = 0 THEN "Leaf/Blob" ELSE ContainerHint[status]
        BY <1>1, <1>3, <2>2 DEF TypeHint
  <2>. QED  BY <1>2, <2>3, <2>4 DEF ContainerHint
<1>9. PICK hint : hint = TypeHint(file, node)  OBVIOUS
<1>10. ChunkInfo(file, node, children)
         = [offset |-> acked[c], total_length |-> Length[c], payload_size |-> PayloadLength(c),
            child_count |-> Len(Links[c]), compression_algo |-> Codec(c) % 8,
            is_chunkable |-> Links[c] # <<>>, node_type_hint |-> hint, children |-> children]
  <2>1. node.offset = acked[c] /\ node.child_count = Len(Links[c])  BY <1>3 DEF NodeOf
  <2>. QED  BY <1>1, <1>4, <1>5, <1>6, <1>7, <1>9, <2>1 DEF ChunkInfo
<1>11. WrittenInfo(c, file.registry, children)
         = [offset |-> acked[c], total_length |-> Length[c], payload_size |-> PayloadLength(c),
            child_count |-> Len(Links[c]), compression_algo |-> Codec(c) % 8,
            is_chunkable |-> Links[c] # <<>>, node_type_hint |-> hint, children |-> children]
       BY <1>8, <1>9 DEF WrittenInfo
<1>. QED  BY <1>3, <1>10, <1>11

\* A chunk is reported as it was written if its children are.
LEMMA NodeInspected ==
  ASSUME NEW file, HasChunks(file), NEW lz4 \in BOOLEAN, file.registry = NewRegistry(lz4),
         NEW c \in Chunk, NEW inspected, NEW written,
         \A i \in DOMAIN Links[c] :
           inspected[NodeOf(Links[c][i])] = Success(written[Links[c][i]])
  PROVE  InspectNode(file, NodeOf(c), inspected)
           = Success(WrittenInfo(c, file.registry, [i \in DOMAIN Links[c] |-> written[Links[c][i]]]))
<1>1. PICK n \in Nat : DOMAIN Links[c] = 1 .. n  BY NodePlaces
<1>2. PICK kids : kids = [i \in 1 .. n |-> NodeOf(Links[c][i])]  OBVIOUS
<1>3. PICK reports : reports = [i \in 1 .. n |-> written[Links[c][i]]]  OBVIOUS
<1>4. PICK nodes : nodes = ChildrenOfNode(file, NodeOf(c))  OBVIOUS
<1>5. nodes = Success(kids)  BY <1>1, <1>2, <1>4, ChildrenFound
<1>6. Ok(nodes) /\ nodes.value = kids  BY <1>5 DEF Ok, Success
<1>7. PICK results : results = [i \in DOMAIN kids |-> inspected[kids[i]]]  OBVIOUS
<1>8. results = [i \in 1 .. n |-> Success(reports[i])]
  <2>1. DOMAIN kids = 1 .. n  BY <1>2
  <2>2. \A i \in 1 .. n : inspected[kids[i]] = Success(reports[i])  BY <1>1, <1>2, <1>3
  <2>. QED  BY <1>7, <2>1, <2>2
<1>9. AllOrFirstBad(results) = Success([i \in 1 .. n |-> reports[i]])  BY <1>8, AllGood
<1>10. [i \in 1 .. n |-> reports[i]] = reports  BY <1>3
<1>11. PICK below : below = AllOrFirstBad(results)  OBVIOUS
<1>12. Ok(below) /\ below.value = reports  BY <1>9, <1>10, <1>11 DEF Ok, Success
<1>13. InspectNode(file, NodeOf(c), inspected) = Success(ChunkInfo(file, NodeOf(c), reports))
       BY <1>4, <1>6, <1>7, <1>11, <1>12 DEF InspectNode
<1>. QED  BY <1>1, <1>3, <1>13, InfoFound

\* Chunks below a place in the file are reported as written within as many levels.
LEMMA ReportsTrue ==
  ASSUME SaveInv, ChildrenBelow, Whole, NEW file, HasChunks(file),
         NEW lz4 \in BOOLEAN, file.registry = NewRegistry(lz4),
         NEW d \in 0 .. Len(file.source), NEW c \in Below(d)
  PROVE  Levels(file)[d][NodeOf(c)] = Success(Written(file.registry)[c])
<1>1. PICK m \in Nat : m = Len(file.source)  BY DEF HasChunks
<1>2. PICK w : w = Written(file.registry)  OBVIOUS
<1>3. PICK levels : levels = Levels(file)  OBVIOUS
<1> DEFINE T == {k \in Nat : k <= m => \A x \in Below(k) : levels[k][NodeOf(x)] = Success(w[x])}
<1>4. 0 \in T
  <2>1. \A x \in Chunk : ~(acked[x] < 0)  BY DEF HasChunks
  <2>2. Below(0) = {}  BY <2>1 DEF Below
  <2>. QED  BY <2>2
<1>5. ASSUME NEW k \in T PROVE k + 1 \in T
  <2>1. k \in Nat  OBVIOUS
  <2>2. ASSUME k + 1 <= m, NEW x \in Below(k + 1)
        PROVE  levels[k + 1][NodeOf(x)] = Success(w[x])
    <3>1. x \in Chunk /\ acked[x] < k + 1  BY DEF Below
    <3>2. ASSUME NEW i \in DOMAIN Links[x] PROVE Links[x][i] \in Below(k)
      <4>1. acked[Links[x][i]] < acked[x]  BY <3>1 DEF ChildrenBelow, Whole
      <4>2. Links[x][i] \in Chunk
        <5>1. Links[x] \in Seq(Chunk)  BY <3>1, SaveAssumption
        <5>. QED  BY <5>1
      <4>3. acked[x] \in Nat /\ acked[Links[x][i]] \in Nat  BY <3>1, <4>2 DEF HasChunks
      <4>4. acked[Links[x][i]] < k  BY <2>1, <3>1, <4>1, <4>3
      <4>. QED  BY <4>2, <4>4 DEF Below
    <3>3. k <= m  BY <1>1, <2>1, <2>2
    <3>4. \A y \in Below(k) : levels[k][NodeOf(y)] = Success(w[y])  BY <3>3
    <3>5. PICK inspected : inspected = levels[k]  OBVIOUS
    <3>6. \A i \in DOMAIN Links[x] : inspected[NodeOf(Links[x][i])] = Success(w[Links[x][i]])
          BY <3>2, <3>4, <3>5
    <3>7. InspectNode(file, NodeOf(x), inspected)
            = Success(WrittenInfo(x, file.registry, [i \in DOMAIN Links[x] |-> w[Links[x][i]]]))
          BY <3>1, <3>6, NodeInspected
    <3>8. w[x] = WrittenInfo(x, file.registry, [i \in DOMAIN Links[x] |-> w[Links[x][i]]])
          BY <1>2, <3>1, WrittenIs
    <3>9. levels[k + 1][NodeOf(x)] = InspectNode(file, NodeOf(x), inspected)
      <4>1. k + 1 \in 1 .. Len(file.source) /\ (k + 1) - 1 = k  BY <1>1, <2>1, <2>2
      <4>2. NodeOf(x) \in Nodes(file)  BY <3>1, NodeWithin
      <4>3. Levels(file)[k + 1][NodeOf(x)] = InspectNode(file, NodeOf(x), Levels(file)[(k + 1) - 1])
            BY <1>1, <4>1, <4>2, LevelAbove
      <4>. QED  BY <1>3, <3>5, <4>1, <4>3
    <3>. QED  BY <3>7, <3>8, <3>9
  <2>. QED  BY <2>1, <2>2
<1>6. T \in SUBSET Nat  OBVIOUS
<1>7. T = Nat
  <2> HIDE DEF T
  <2>. QED  BY <1>4, <1>5, <1>6, AllNumbers
<1>8. d \in T /\ d <= m  BY <1>1, <1>7
<1>. QED  BY <1>2, <1>3, <1>8

\* The inspector of a file that opens reports the document chunk by chunk as it
\* was written, to any depth: offsets, lengths, compressors, which containers it
\* can decompress, and the children in link order.
THEOREM InspectorReportsDocument == Spec => []InspectedAsWritten
<1>1. ASSUME SaveInv, ChildrenBelow, NEW read \in 0 .. Len(sink), NEW size \in 0 .. Len(sink),
             NEW lz4 \in BOOLEAN, Ok(Open(FileBytes, read, size, lz4))
      PROVE  Inspect(Open(FileBytes, read, size, lz4).value)
               = Success(Written(Open(FileBytes, read, size, lz4).value.registry)[RootChunk])
  <2>1. Opens(SubSeq(FileBytes, 1, read), size)
    <3>1. ~Ok(Failed)  BY DEF Ok, Failed
    <3>. QED  BY <1>1, <3>1 DEF Open
  <2>2. PICK file : file = ParcodeFile(SubSeq(FileBytes, 1, read), size, lz4)  OBVIOUS
  <2>3. Open(FileBytes, read, size, lz4).value = file
        BY <2>1, <2>2 DEF Open, Success
  <2>4. HasChunks(file) /\ file.root = RefOf(RootChunk) /\ Whole
        BY <1>1, <2>1, <2>2, OpensWhole
  <2>5. file.registry = NewRegistry(lz4)  BY <2>2 DEF ParcodeFile
  <2>6. PICK node : node = RootNode(file)  OBVIOUS
  <2>7. node = Success(NodeOf(RootChunk))
        BY <2>4, <2>6, SaveAssumption, ChunkFound DEF RootNode
  <2>8. Ok(node) /\ node.value = NodeOf(RootChunk)  BY <2>7 DEF Ok, Success
  <2>9. PICK m \in Nat : m = Len(file.source)  BY <2>4 DEF HasChunks
  <2>10. RootChunk \in Below(m)
    <3>1. RootChunk \in Chunk /\ RootChunk \in Block  BY SaveAssumption
    <3>2. PICK len \in Nat \ {0} : len = Length[RootChunk]  BY <3>1, WriterAssumption
    <3>3. acked[RootChunk] \in Nat /\ acked[RootChunk] + len <= m
          BY <2>4, <2>9, <3>1, <3>2 DEF HasChunks
    <3>4. acked[RootChunk] < m  BY <3>3
    <3>. QED  BY <3>1, <3>4 DEF Below
  <2>11. m \in 0 .. Len(file.source)  BY <2>9
  <2>12. Levels(file)[m][NodeOf(RootChunk)] = Success(Written(file.registry)[RootChunk])
         BY <1>1, <2>4, <2>5, <2>10, <2>11, ReportsTrue
  <2>13. Inspect(file) = Levels(file)[m][NodeOf(RootChunk)]
         BY <2>6, <2>8, <2>9 DEF Inspect
  <2>. QED  BY <2>3, <2>12, <2>13
<1>2. SaveInv /\ ChildrenBelow => InspectedAsWritten  BY <1>1 DEF InspectedAsWritten
<1>. QED  BY <1>2, AlwaysSaveInv, AlwaysChildrenBelow, PTL
=============================================================================
