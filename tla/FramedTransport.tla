--------------------------- MODULE FramedTransport ---------------------------
(***************************************************************************)
(* One direction of FramedTransport (transport.rs): a sender that writes   *)
(* length-prefixed frames to a byte stream, and a receiver that reads them *)
(* back through the resumable RecvBuf, possibly into buffers of a          *)
(* BufferPool.  Every await of the code is a place where the future can be *)
(* dropped: a read or a write moves an arbitrary number of bytes, and both *)
(* recv and send may be cancelled between any two of them.                 *)
(*                                                                         *)
(* Bytes are digits in Base (256 in the code) and a length is LenBytes     *)
(* digits (8 in the code), so that what the receiver does with bytes that  *)
(* are not what it thinks they are is computed, not assumed.  The stream   *)
(* is kept as the whole history of accepted bytes (wire) and a read        *)
(* position (rpos).                                                        *)
(***************************************************************************)
EXTENDS BigEndian, SequencesExt

CONSTANTS
    Format,          \* FrameFormat: "Tcp" or "Ipc"
    MAX_FRAME_BYTES, \* largest payload recv accepts
    Messages,        \* the messages sent: records [header, body] of byte sequences
    MaxSends,        \* bound: number of send() calls
    StreamCap,       \* bound: bytes the stream holds between writer and reader
    max_bufs,        \* BufferPool: buffers held at most
    max_buf_bytes    \* BufferPool: largest capacity kept

ASSUME FrameAssumption ==
    /\ Format \in {"Tcp", "Ipc"}
    /\ MAX_FRAME_BYTES \in Nat /\ MAX_FRAME_BYTES < UsizeLimit
    /\ StreamCap \in Nat \ {0}
    /\ MaxSends \in Nat
    /\ max_bufs \in Nat /\ max_buf_bytes \in Nat

ASSUME MessageAssumption ==
    \A m \in Messages : /\ m.header \in Seq(Byte) /\ m.body \in Seq(Byte)
                        /\ Len(m.header) + Len(m.body) < LenLimit

VARIABLES
    frame,     \* bytes of the frame being sent, <<>> when no send() is running
    written,   \* how many of them the stream has accepted
    sends,     \* send() calls so far
    sent,      \* payloads of the sends that ran to completion
    wire,      \* every byte the stream has accepted
    rpos,      \* how many of them have been read
    open,      \* the connection is up
    limit,     \* once it is down: the last byte that still arrives
    rx,        \* RecvBuf: phase, len_buf, body, cap (capacity of body), body_filled
    recving,   \* running receive future: "no", "recv" or "recv_pooled"
    bufs,      \* BufferPool::bufs, last one on top
    hand,      \* the received message the application holds (at most one)
    delivered, \* payloads returned by the receive calls
    rejected,  \* a receive returned BadFrameType or FrameTooLarge
    damaged,   \* the sender put something unframeable on the wire
    intact     \* how many sends completed before that

txvars   == <<frame, written, sends, sent, damaged, intact>>
linkvars == <<open, limit>>
poolvars == <<bufs, hand>>
vars == <<frame, written, sends, sent, wire, rpos, open, limit, rx, recving,
          bufs, hand, delivered, rejected, damaged, intact>>

------------------------------------------------------------------------------
(* Encoding *)

\* Payload bytes of a message: header first, then body.
WireBody(m) == m.header \o m.body

\* Bytes in front of the payload.
needed == IF Format = "Ipc" THEN LenBytes + 1 ELSE LenBytes

\* Mutant: an IPC frame goes out without its type byte.
FrameNoType(m) == ToBe(Len(WireBody(m))) \o WireBody(m)

\* The bytes send() writes for m.
Frame(m) == (IF Format = "Ipc" THEN <<1>> ELSE <<>>)
                \o ToBe(Len(WireBody(m))) \o WireBody(m)

\* What the filled length header says: the length as declared and as recv takes it.
BadType(b)  == Format = "Ipc" /\ b[1] # 1
Declared(b) == FromBe(IF Format = "Ipc" THEN Tail(b) ELSE b)

\* Mutant: the cast is to an integer that holds no more than the limit.
PayloadLenNarrow(b) == Declared(b) % (MAX_FRAME_BYTES + 1)

PayloadLen(b) == AsUsize(Declared(b))

------------------------------------------------------------------------------
(* Buffers *)

Zeros(n) == [i \in 1 .. n |-> 0]

\* Capacity of a Vec after resize(len): unchanged if it fits, else amortised growth.
Grow(cap, len) == IF len <= cap THEN cap
                  ELSE IF 2 * cap > len THEN 2 * cap ELSE len

\* Vec::resize(len, 0): keeps the old contents up to len, zeros beyond.
Resize(buf, len) ==
    [data |-> [i \in 1 .. len |-> IF i <= Len(buf.data) THEN buf.data[i] ELSE 0],
     cap  |-> Grow(buf.cap, len)]

\* BufferPool::take: the most recently recycled buffer, or an empty Vec.
Take == IF bufs = <<>> THEN [data |-> <<>>, cap |-> 0] ELSE Last(bufs)

\* alloc_body: a zeroed Vec for recv, a resized pool buffer for recv_pooled.
AllocBody(len) == IF recving = "recv_pooled" THEN Resize(Take, len)
                  ELSE [data |-> Zeros(len), cap |-> len]

PoolAfterAlloc == IF recving = "recv_pooled" /\ bufs # <<>> THEN Front(bufs) ELSE bufs

------------------------------------------------------------------------------
Init ==
    /\ frame = <<>> /\ written = 0 /\ sends = 0 /\ sent = <<>>
    /\ wire = <<>> /\ rpos = 0 /\ open = TRUE /\ limit = 0
    /\ rx = [phase |-> "Idle", len_buf |-> <<>>, body |-> <<>>, cap |-> 0,
             body_filled |-> 0]
    /\ recving = "no" /\ bufs = <<>> /\ hand = <<>>
    /\ delivered = <<>> /\ rejected = FALSE
    /\ damaged = FALSE /\ intact = 0

------------------------------------------------------------------------------
(* Sender *)

\* send(msg) is called.  Nothing limits the size of an outgoing message.
Send(m) ==
    /\ frame = <<>> /\ sends < MaxSends
    /\ frame' = Frame(m) /\ written' = 0 /\ sends' = sends + 1
    /\ damaged' = (damaged \/ Len(WireBody(m)) > MAX_FRAME_BYTES)
    /\ UNCHANGED <<sent, intact, wire, rpos, linkvars, rx, recving, poolvars,
                   delivered, rejected>>

\* The write_all loops: the stream accepts n more bytes of the frame.  With
\* the last one send() returns Ok.
WriteSome(n) ==
    /\ frame # <<>> /\ open
    /\ n \in 1 .. Len(frame) - written
    /\ Len(wire) + n - rpos <= StreamCap
    /\ wire' = wire \o SubSeq(frame, written + 1, written + n)
    /\ IF written + n = Len(frame)
       THEN /\ frame' = <<>> /\ written' = 0
            /\ sent' = Append(sent, SubSeq(frame, needed + 1, Len(frame)))
            /\ intact' = IF damaged THEN intact ELSE intact + 1
       ELSE /\ written' = written + n
            /\ UNCHANGED <<frame, sent, intact>>
    /\ UNCHANGED <<sends, damaged, rpos, linkvars, rx, recving, poolvars,
                   delivered, rejected>>

\* Mutant: the position in the frame is kept.
AbandonKeepsWritten ==
    /\ frame # <<>>
    /\ frame' = <<>>
    /\ damaged' = (damaged \/ (open /\ written > 0))
    /\ UNCHANGED <<written, sends, sent, intact, wire, rpos, linkvars, rx, recving,
                   poolvars, delivered, rejected>>

\* The send() future is dropped, or a write fails because the connection is
\* down: what was not written yet never will be.
AbandonSend ==
    /\ frame # <<>>
    /\ frame' = <<>> /\ written' = 0
    /\ damaged' = (damaged \/ (open /\ written > 0))
    /\ UNCHANGED <<sends, sent, intact, wire, rpos, linkvars, rx, recving,
                   poolvars, delivered, rejected>>

\* The connection goes down; of the bytes under way only a prefix arrives.
Break ==
    /\ open
    /\ open' = FALSE
    /\ limit' \in rpos .. Len(wire)
    /\ UNCHANGED <<txvars, wire, rpos, rx, recving, poolvars, delivered, rejected>>

------------------------------------------------------------------------------
(* Receiver *)

Available == (IF open THEN Len(wire) ELSE limit) - rpos

\* Mutant: every call starts a fresh length header, as if it were not resumable.
RecvFresh(mode) ==
    /\ recving = "no"
    /\ recving' = mode
    /\ rx' = [rx EXCEPT !.phase = "Len", !.len_buf = <<>>]
    /\ UNCHANGED <<txvars, wire, rpos, linkvars, poolvars, delivered, rejected>>

\* recv() or recv_pooled() is called and runs to its first read.
Recv(mode) ==
    /\ recving = "no"
    /\ recving' = mode
    /\ rx' = IF rx.phase = "Idle" THEN [rx EXCEPT !.phase = "Len", !.len_buf = <<>>]
             ELSE rx
    /\ UNCHANGED <<txvars, wire, rpos, linkvars, poolvars, delivered, rejected>>

\* The next n bytes of the stream.
Chunk(n) == SubSeq(wire, rpos + 1, rpos + n)

\* Mutant: the header is not recognised as complete when it just is.
ReadLenLate(n) ==
    /\ recving # "no" /\ rx.phase = "Len"
    /\ n \in 1 .. Available /\ Len(rx.len_buf) + n <= needed
    /\ rpos' = rpos + n
    /\ rx' = [rx EXCEPT !.len_buf = @ \o Chunk(n)]
    /\ UNCHANGED <<txvars, wire, linkvars, recving, poolvars, delivered, rejected>>

\* A read in the Len phase that leaves the length header incomplete.
ReadLen(n) ==
    /\ recving # "no" /\ rx.phase = "Len"
    /\ n \in 1 .. Available /\ Len(rx.len_buf) + n < needed
    /\ rpos' = rpos + n
    /\ rx' = [rx EXCEPT !.len_buf = @ \o Chunk(n)]
    /\ UNCHANGED <<txvars, wire, linkvars, recving, poolvars, delivered, rejected>>

\* A read that completes the length header.
LenFilled(n) ==
    /\ recving # "no" /\ rx.phase = "Len"
    /\ n \in 1 .. Available /\ Len(rx.len_buf) + n = needed
    /\ rpos' = rpos + n
    /\ UNCHANGED <<txvars, wire, linkvars>>

\* ... whose type byte or length is refused: back to Idle with an error.
ReadLenRefused(n) ==
    LET b == rx.len_buf \o Chunk(n) IN
    /\ LenFilled(n)
    /\ BadType(b) \/ PayloadLen(b) > MAX_FRAME_BYTES
    /\ rx' = [rx EXCEPT !.phase = "Idle", !.len_buf = b]
    /\ recving' = "no" /\ rejected' = TRUE
    /\ UNCHANGED <<poolvars, delivered>>

\* ... of a frame with a payload: the body buffer is allocated.
ReadLenBody(n) ==
    LET b == rx.len_buf \o Chunk(n)
        body == AllocBody(PayloadLen(b)) IN
    /\ LenFilled(n)
    /\ ~BadType(b) /\ PayloadLen(b) \in 1 .. MAX_FRAME_BYTES
    /\ rx' = [phase |-> "Body", len_buf |-> b, body |-> body.data,
              cap |-> body.cap, body_filled |-> 0]
    /\ bufs' = PoolAfterAlloc
    /\ UNCHANGED <<recving, hand, delivered, rejected>>

\* The message is complete: it leaves the RecvBuf, the call returns Ok.
Complete(body, cap) ==
    /\ delivered' = Append(delivered, body)
    /\ hand' = <<[data |-> body, cap |-> cap]>>
    /\ recving' = "no"
    /\ UNCHANGED rejected

\* ... of an empty frame: there is nothing to wait for.
ReadLenEmpty(n) ==
    LET b == rx.len_buf \o Chunk(n)
        body == AllocBody(0) IN
    /\ LenFilled(n)
    /\ ~BadType(b) /\ PayloadLen(b) = 0
    /\ rx' = [phase |-> "Idle", len_buf |-> b, body |-> <<>>, cap |-> 0,
              body_filled |-> 0]
    /\ bufs' = PoolAfterAlloc
    /\ Complete(body.data, body.cap)

\* The body buffer after n more bytes have been read into it.
Filled(n) == [i \in 1 .. Len(rx.body) |->
                 IF i \in rx.body_filled + 1 .. rx.body_filled + n
                 THEN wire[rpos + i - rx.body_filled] ELSE rx.body[i]]

\* A read in the Body phase.
ReadBody(n) ==
    /\ recving # "no" /\ rx.phase = "Body"
    /\ n \in 1 .. Available /\ rx.body_filled + n <= Len(rx.body)
    /\ rpos' = rpos + n
    /\ IF rx.body_filled + n = Len(rx.body)
       THEN /\ rx' = [rx EXCEPT !.phase = "Idle", !.body = <<>>, !.cap = 0,
                                !.body_filled = @ + n]
            /\ Complete(Filled(n), rx.cap)
       ELSE /\ rx' = [rx EXCEPT !.body = Filled(n), !.body_filled = @ + n]
            /\ UNCHANGED <<recving, hand, delivered, rejected>>
    /\ UNCHANGED <<txvars, wire, linkvars, bufs>>

\* A read returns 0: Closed.  The RecvBuf keeps what it has.
ReadEof ==
    /\ recving # "no" /\ ~open /\ Available = 0
    /\ recving' = "no"
    /\ UNCHANGED <<txvars, wire, rpos, linkvars, rx, poolvars, delivered, rejected>>

\* Mutant: what was read so far is lost with the future.
CancelRecvForgets ==
    /\ recving # "no"
    /\ recving' = "no"
    /\ rx' = [rx EXCEPT !.phase = "Idle"]
    /\ UNCHANGED <<txvars, wire, rpos, linkvars, poolvars, delivered, rejected>>

\* The receive future is dropped between two reads.
CancelRecv ==
    /\ recving # "no"
    /\ recving' = "no"
    /\ UNCHANGED <<txvars, wire, rpos, linkvars, rx, poolvars, delivered, rejected>>

\* BufferPool::recycle of the message in hand.
Recycle ==
    /\ hand # <<>>
    /\ bufs' = IF Len(bufs) < max_bufs /\ hand[1].cap <= max_buf_bytes
               THEN Append(bufs, hand[1]) ELSE bufs
    /\ hand' = <<>>
    /\ UNCHANGED <<txvars, wire, rpos, linkvars, rx, recving, delivered, rejected>>

------------------------------------------------------------------------------
Write == \E n \in 1 .. StreamCap : WriteSome(n)

Read == \E n \in 1 .. StreamCap : \/ ReadLen(n) \/ ReadLenRefused(n)
                                  \/ ReadLenBody(n) \/ ReadLenEmpty(n)
                                  \/ ReadBody(n)

Next ==
    \/ \E m \in Messages : Send(m)
    \/ Write
    \/ AbandonSend
    \/ Break
    \/ \E mode \in {"recv", "recv_pooled"} : Recv(mode)
    \/ Read
    \/ ReadEof
    \/ CancelRecv
    \/ Recycle

Spec == Init /\ [][Next]_vars

\* The runtime polls a send or receive future whose stream is ready, and the
\* application calls recv again.  A receive may be cancelled and reissued for
\* ever, so a read is only enabled again and again: strong fairness says that
\* not every call is dropped before its first poll.
FairSpec == Spec /\ WF_vars(Write) /\ SF_vars(Read)
                 /\ WF_vars(Recv("recv") \/ Recv("recv_pooled"))

------------------------------------------------------------------------------
(* Properties *)

Buffer == [data : Seq(Byte), cap : Nat]

\* Types of the state, and the bounds the code relies on when it slices
\* len_buf[filled..needed] and body[filled..]: recv never holds more than one
\* frame's worth of memory, never indexes past its buffers, and never rests with a
\* buffer that is already full (it would call read with an empty slice and take
\* its 0 for end of stream).
TypeOK ==
    /\ frame \in Seq(Byte) /\ written \in Nat /\ written <= Len(frame)
    /\ sends \in 0 .. MaxSends /\ sent \in Seq(Seq(Byte))
    /\ wire \in Seq(Byte) /\ rpos \in 0 .. Len(wire)
    /\ open \in BOOLEAN /\ limit \in Nat /\ limit <= Len(wire)
    /\ rx \in [phase : {"Idle", "Len", "Body"}, len_buf : Seq(Byte),
               body : Seq(Byte), cap : Nat, body_filled : Nat]
    /\ recving \in {"no", "recv", "recv_pooled"}
    /\ bufs \in Seq(Buffer) /\ hand \in Seq(Buffer) /\ Len(hand) <= 1
    /\ delivered \in Seq(Seq(Byte))
    /\ rejected \in BOOLEAN /\ damaged \in BOOLEAN
    /\ intact \in Nat /\ intact <= Len(sent)
    /\ rx.phase = "Len"  => Len(rx.len_buf) < needed
    /\ rx.phase = "Body" => /\ rx.body_filled < Len(rx.body)
                            /\ Len(rx.body) <= MAX_FRAME_BYTES
    /\ Len(bufs) <= max_bufs

\* Whatever the chunking, and however often recv is cancelled and resumed in
\* either mode, the messages sent before anything unframeable went on the wire
\* come out unchanged, in order, without loss or repetition; with nothing
\* unframeable on it, nothing else comes out; and a receive reports BadFrameType or
\* FrameTooLarge only if the sender abandoned a frame halfway or sent one above the
\* limit: framing never slips by itself.
PrefixIntact ==
    /\ \A i \in 1 .. Len(delivered) : i <= intact => delivered[i] = sent[i]
    /\ ~damaged => Len(delivered) <= Len(sent)
    /\ rejected => damaged

\* The direction implements an SP channel up to the first damage.
Channel == INSTANCE SPChannel WITH
               Payload   <- {WireBody(m) : m \in Messages},
               sent      <- SubSeq(sent, 1, intact),
               delivered <- SubSeq(delivered, 1,
                                IF Len(delivered) < intact THEN Len(delivered)
                                                           ELSE intact)
ChannelSpec == Channel!ChanSpec

\* No frame is handed out that declared more than MAX_FRAME_BYTES: frames whose
\* declared length exceeds it "are rejected" (the doc of MAX_FRAME_BYTES,
\* transport.rs:62).  It needs a usize as wide as the length field.
OversizeRejected ==
    [][delivered' # delivered => Declared(rx'.len_buf) <= MAX_FRAME_BYTES]_vars

\* Every message sent before any damage reaches a receiver that keeps calling
\* recv, however many of the calls are cancelled, unless the connection breaks.
SentIsDelivered ==
    \A k \in 1 .. MaxSends : (intact >= k) ~> (Len(delivered) >= k \/ ~open)
==============================================================================
