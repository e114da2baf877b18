------------------------------ MODULE SeqWriter ------------------------------
(***************************************************************************)
(* SeqWriter: a BufWriter behind a mutex, shared by the executor's tasks,  *)
(* with the sink below it taking bytes in pieces, failing or panicking.    *)
(* The mutex serialises calls, so one call is in progress at a time, but   *)
(* the sink is observable (and the process may die) between two pieces.    *)
(*                                                                         *)
(* A byte is <<b, i>>, byte i of the block b it belongs to.                *)
(***************************************************************************)
EXTENDS Naturals, Sequences, FiniteSets

CONSTANTS Block,              \* what is written: chunks, a header
          Length,             \* block -> its bytes
          WRITE_BUFFER_SIZE,  \* the BufWriter's capacity
          SinkFaults          \* which faults the sink may produce

ASSUME WriterAssumption ==
  /\ Length \in [Block -> Nat \ {0}]
  /\ WRITE_BUFFER_SIZE \in Nat \ {0}
  /\ Block \cap {"none", "flush", "drop"} = {}     \* call.op tells them apart
  /\ SinkFaults \subseteq {"error", "panic"}

VARIABLES sink,             \* bytes the sink has accepted
          buf,              \* BufWriter's buffer
          panicked,         \* BufWriter's flag: the sink panicked in a call
          poisoned,         \* the mutex is poisoned
          current_offset,   \* WriterState::current_offset
          call,             \* the call that holds the mutex
          acked,            \* blocks whose write_all returned Ok -> the offset
          refused,          \* blocks whose write_all did not return Ok
          synced            \* blocks acknowledged before a flush that returned Ok

seqWriterVars == <<sink, buf, panicked, poisoned, current_offset, call, acked,
                   refused, synced>>

Bytes(b) == [i \in 1 .. Length[b] |-> <<b, i>>]

Stream == sink \o buf

Spare == WRITE_BUFFER_SIZE - Len(buf)

\* A call is idle, a write_all of block `block`, a flush or the final drop.
\* While `flushing` it is in BufWriter::flush_buf; `rest` is still to be stored.
Idle == [op |-> "none", flushing |-> FALSE, rest |-> <<>>]
InCall == call.op # "none"

SeqWriterInit ==
  /\ sink = <<>>
  /\ buf = <<>>
  /\ panicked = FALSE
  /\ poisoned = FALSE
  /\ current_offset = 0
  /\ call = Idle
  /\ acked = [b \in {} |-> 0]
  /\ refused = {}
  /\ synced = {}

\* Mutant: a block as long as the buffer overtakes what is buffered.
FlushesIfShort(b) == Length[b] > Spare /\ Length[b] < WRITE_BUFFER_SIZE

FlushesFirst(b) == Length[b] > Spare

\* write_all takes the lock; BufWriter flushes first a block that does not fit.
WriteAll(b) ==
  /\ ~InCall /\ ~poisoned
  /\ b \notin DOMAIN acked \cup refused
  /\ call' = [op |-> b, flushing |-> FlushesFirst(b), rest |-> Bytes(b)]
  /\ UNCHANGED <<sink, buf, panicked, poisoned, current_offset, acked, refused, synced>>

WriteAllPoisoned(b) ==
  /\ ~InCall /\ poisoned
  /\ b \notin DOMAIN acked \cup refused
  /\ refused' = refused \cup {b}
  /\ UNCHANGED <<sink, buf, panicked, poisoned, current_offset, call, acked, synced>>

Flush ==
  /\ ~InCall /\ ~poisoned
  /\ call' = [op |-> "flush", flushing |-> TRUE, rest |-> <<>>]
  /\ UNCHANGED <<sink, buf, panicked, poisoned, current_offset, acked, refused, synced>>

\* Dropping the writer flushes what is buffered, unless the sink panicked.
Drop ==
  /\ ~InCall
  /\ call' = [op |-> "drop", flushing |-> ~panicked, rest |-> <<>>]
  /\ UNCHANGED <<sink, buf, panicked, poisoned, current_offset, acked, refused, synced>>

\* flush_buf: the sink accepts some of the buffer.
SinkTakesBuffer ==
  /\ InCall /\ call.flushing
  /\ \E k \in 1 .. Len(buf) :
       /\ sink' = sink \o SubSeq(buf, 1, k)
       /\ buf' = SubSeq(buf, k + 1, Len(buf))
  /\ UNCHANGED <<panicked, poisoned, current_offset, call, acked, refused, synced>>

BufferFlushed ==
  /\ InCall /\ call.flushing /\ buf = <<>>
  /\ call' = [call EXCEPT !.flushing = FALSE]
  /\ UNCHANGED <<sink, buf, panicked, poisoned, current_offset, acked, refused, synced>>

\* A block as long as the buffer goes straight to the sink.
SinkTakesBlock ==
  /\ call.op \in Block /\ ~call.flushing
  /\ Length[call.op] >= WRITE_BUFFER_SIZE
  /\ \E k \in 1 .. Len(call.rest) :
       /\ sink' = sink \o SubSeq(call.rest, 1, k)
       /\ call' = [call EXCEPT !.rest = SubSeq(@, k + 1, Len(@))]
  /\ UNCHANGED <<buf, panicked, poisoned, current_offset, acked, refused, synced>>

\* Mutant: the offset returned is read after it was advanced.
OffsetAfter(b) == current_offset + Length[b]

StartOffset(b) == current_offset

\* The call returns Ok: a shorter block is in the buffer, a longer one in the
\* sink; only now is current_offset advanced.
WriteOk ==
  /\ call.op \in Block /\ ~call.flushing
  /\ IF Length[call.op] >= WRITE_BUFFER_SIZE
       THEN call.rest = <<>> /\ UNCHANGED buf
       ELSE buf' = buf \o call.rest
  /\ current_offset' = current_offset + Length[call.op]
  /\ acked' = [b \in DOMAIN acked \cup {call.op} |->
                 IF b = call.op THEN StartOffset(b) ELSE acked[b]]
  /\ call' = Idle
  /\ UNCHANGED <<sink, panicked, poisoned, refused, synced>>

FlushOk ==
  /\ call.op = "flush" /\ ~call.flushing
  /\ synced' = DOMAIN acked
  /\ call' = Idle
  /\ UNCHANGED <<sink, buf, panicked, poisoned, current_offset, acked, refused>>

\* The sink is being written to: it may fail instead, in any call.
AtSink == \/ call.flushing /\ buf # <<>>
          \/ /\ call.op \in Block /\ ~call.flushing /\ call.rest # <<>>
             /\ Length[call.op] >= WRITE_BUFFER_SIZE

\* The drop ignores an error; the other calls report it.
SinkError ==
  /\ "error" \in SinkFaults
  /\ AtSink
  /\ call' = IF call.op = "drop" THEN [call EXCEPT !.flushing = FALSE] ELSE Idle
  /\ refused' = refused \cup ({call.op} \cap Block)
  /\ UNCHANGED <<sink, buf, panicked, poisoned, current_offset, acked, synced>>

\* A panic unwinds through the lock guard and poisons the mutex.
SinkPanic ==
  /\ "panic" \in SinkFaults
  /\ AtSink /\ call.op # "drop"
  /\ panicked' = TRUE
  /\ poisoned' = TRUE
  /\ call' = Idle
  /\ refused' = refused \cup ({call.op} \cap Block)
  /\ UNCHANGED <<sink, buf, current_offset, acked, synced>>

InCallStep == \/ SinkTakesBuffer \/ BufferFlushed \/ SinkTakesBlock
              \/ WriteOk \/ FlushOk \/ SinkError \/ SinkPanic

Dropped == call.op = "drop" /\ ~call.flushing

Gone == Dropped /\ UNCHANGED seqWriterVars

SeqWriterNext == \/ \E b \in Block : WriteAll(b) \/ WriteAllPoisoned(b)
        \/ Flush \/ Drop \/ InCallStep \/ Gone

SeqWriterSpec == SeqWriterInit /\ [][SeqWriterNext]_seqWriterVars
-----------------------------------------------------------------------------
TypeOK ==
  /\ sink \in Seq(Block \X Nat)
  /\ buf \in Seq(Block \X Nat) /\ Len(buf) <= WRITE_BUFFER_SIZE
  /\ panicked \in BOOLEAN
  /\ poisoned \in BOOLEAN
  /\ current_offset \in Nat
  /\ call \in [op : Block \cup {"none", "flush", "drop"}, flushing : BOOLEAN,
               rest : Seq(Block \X Nat)]
  /\ DOMAIN acked \subseteq Block
  /\ acked \in [DOMAIN acked -> Nat]
  /\ refused \subseteq Block
  /\ synced \subseteq DOMAIN acked

\* b's bytes are in s, whole and in order, from position `at`.
Holds(s, b, at) == /\ at + Length[b] <= Len(s)
                   /\ SubSeq(s, at + 1, at + Length[b]) = Bytes(b)

\* "Returns the byte offset where the chunk begins" (io.rs:69): each offset
\* handed out is where the block is in the stream, however the blocks were split
\* between the buffer and the sink.  A refused write only pushes later blocks
\* up: an acknowledged block is never lost, split or overwritten.
OffsetsTrue ==
  \A b \in DOMAIN acked :
    \E at \in acked[b] .. Len(Stream) : Holds(Stream, b, at) /\ (refused = {} => at = acked[b])

\* The sink only ever grows, and by what the stream held in that order: a
\* process killed at any moment leaves a prefix of the stream behind.
SinkGrowsInOrder ==
  [][/\ Len(sink') >= Len(sink)
     /\ SubSeq(sink', 1, Len(sink)) = sink
     /\ \A i \in 1 .. Len(Stream) : Stream'[i] = Stream[i]]_seqWriterVars
=============================================================================
