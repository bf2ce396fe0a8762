------------------------------ MODULE Message -------------------------------
(***************************************************************************)
(* The two message buffers (message.rs) side by side: a Message and a      *)
(* ZeroCopyMessage<N> that go through the same operations of the trait     *)
(* MessageBuf, as the protocol state machines apply them; and what happens *)
(* to a message on its way: encode_frame and decode_frame (codec.rs) and   *)
(* the TTL header of PAIR1 (protocols/pair.rs).                            *)
(*                                                                         *)
(* Offsets are those of the code, from 0.  Bytes are digits in Base (256), *)
(* a frame length has LenBytes of them (8), the TTL field TtlLen (4): its  *)
(* first byte is the end-of-path mark, its last one carries the TTL in the *)
(* bits below TtlMask (16).                                                *)
(***************************************************************************)
EXTENDS BigEndian

CONSTANTS
    TtlLen, TtlMask,
    MaxTtl,  \* max_ttl of the Pair1State
    N,       \* size of the array of a ZeroCopyMessage
    Data,    \* the byte strings the application appends
    MaxLen   \* bound: bytes in a header and in a body

\* An SP header fits the header region (in the code, 4 <= 16 / 4), and a message with
\* its length fits the memory.
ASSUME MessageAssumption ==
    /\ MaxLen \in Nat
    /\ TtlLen \in Nat \ {0, 1} /\ TtlMask \in 2 .. Base /\ MaxTtl \in 1 .. TtlMask - 1
    /\ Base % 2 = 0
    /\ N \in Nat /\ TtlLen <= N \div 4 /\ TtlLen <= MaxLen
    /\ Data \subseteq Seq(Byte)
    /\ 2 * MaxLen < LenLimit /\ LenBytes + 2 * MaxLen < UsizeLimit

VARIABLES
    m,                           \* Message: its two Vecs
    buf, h_end, b_start, b_end,  \* ZeroCopyMessage
    live                         \* FALSE once the ZeroCopyMessage has panicked, or Message
                                 \* has gone through an operation the other does not have

zcvars == <<buf, h_end, b_start, b_end>>
vars == <<m, zcvars, live>>

HEADER_CAP == N \div 4
Offsets == 0 .. N - 1

\* header() and body() of the ZeroCopyMessage.
Slice(a, b) == [k \in 1 .. b - a |-> buf[a + k - 1]]
zc_header == Slice(0, h_end)
zc_body   == Slice(b_start, b_end)

Zeros == [k \in Offsets |-> 0]

Init ==
    /\ m = [header |-> <<>>, body |-> <<>>]
    /\ buf = Zeros /\ h_end = 0 /\ b_start = HEADER_CAP /\ b_end = HEADER_CAP
    /\ live = TRUE

------------------------------------------------------------------------------
(* ZeroCopyMessage *)

\* copy_from_slice into b from offset a.
Copied(b, a, d) == [k \in Offsets |-> IF k \in a .. a + Len(d) - 1 THEN d[k - a + 1] ELSE b[k]]

\* There is no ZeroCopyMessage any more.  Its fields get the values of a new one,
\* which nothing reads.
ZcGone ==
    /\ live' = FALSE
    /\ buf' = Zeros /\ h_end' = 0 /\ b_start' = HEADER_CAP /\ b_end' = HEADER_CAP

ZcPushBack(d) ==
    IF live /\ b_end + Len(d) <= N
    THEN /\ buf' = Copied(buf, b_end, d) /\ b_end' = b_end + Len(d)
         /\ UNCHANGED <<h_end, b_start, live>>
    ELSE ZcGone

\* Mutant: the header may grow as long as there is room in the array.
ZcHeaderPushBackUnchecked(d) ==
    IF live /\ h_end + Len(d) <= N
    THEN /\ buf' = Copied(buf, h_end, d) /\ h_end' = h_end + Len(d)
         /\ UNCHANGED <<b_start, b_end, live>>
    ELSE ZcGone

ZcHeaderPushBack(d) ==
    IF live /\ h_end + Len(d) <= HEADER_CAP
    THEN /\ buf' = Copied(buf, h_end, d) /\ h_end' = h_end + Len(d)
         /\ UNCHANGED <<b_start, b_end, live>>
    ELSE ZcGone

\* Mutant: the end of the body is moved with its start.
ZcTrimFrontShifts(n) ==
    IF live /\ b_start + n <= b_end
    THEN b_start' = b_start + n /\ b_end' = b_end + n /\ UNCHANGED <<buf, h_end, live>>
    ELSE ZcGone

\* Only the start of the body moves.
ZcTrimFront(n) ==
    IF live /\ b_start + n <= b_end
    THEN b_start' = b_start + n /\ UNCHANGED <<buf, h_end, b_end, live>>
    ELSE ZcGone

\* A new() one that takes the bytes of a received message.
ZcReceive(d) ==
    IF live /\ HEADER_CAP + Len(d) <= N
    THEN /\ buf' = Copied(Zeros, HEADER_CAP, d)
         /\ h_end' = 0 /\ b_start' = HEADER_CAP /\ b_end' = HEADER_CAP + Len(d)
         /\ UNCHANGED live
    ELSE ZcGone

------------------------------------------------------------------------------
(* codec.rs *)

encode_frame(msg) == ToBe(Len(msg.header) + Len(msg.body)) \o msg.header \o msg.body

Incomplete == [body |-> <<>>, used |-> 0]

\* Mutant: the end of the frame is compared, an addition that wraps.
decode_frame_adds(src) ==
    LET len == AsUsize(FromBe(SubSeq(src, 1, LenBytes)))
        end == AsUsize(LenBytes + len) IN
    IF Len(src) < LenBytes \/ Len(src) < end THEN Incomplete
    ELSE [body |-> SubSeq(src, LenBytes + 1, end), used |-> LenBytes + len]

\* The first frame of src as a body, and how many bytes it took.
decode_frame(src) ==
    LET len == AsUsize(FromBe(SubSeq(src, 1, LenBytes))) IN
    IF Len(src) < LenBytes \/ Len(src) - LenBytes < len THEN Incomplete
    ELSE [body |-> SubSeq(src, LenBytes + 1, LenBytes + len), used |-> LenBytes + len]

------------------------------------------------------------------------------
(* protocols/pair.rs *)

Ttls == 1 .. TtlMask - 1

TtlField(t) == [k \in 1 .. TtlLen |-> IF k = 1 THEN Base \div 2 ELSE IF k = TtlLen THEN t ELSE 0]

\* Mutant: the TTL is read off the first byte of the field.
TtlOfFirst(b) == b[1] % TtlMask

\* raw & 0x0F
TtlOf(b) == b[TtlLen] % TtlMask

\* What process_incoming makes of a body.
Processed(b) ==
    IF Len(b) < TtlLen THEN [ttl |-> 0, err |-> "MessageTooShort", trim |-> 0]
    ELSE IF TtlOf(b) = 0 THEN [ttl |-> 0, err |-> "TtlExpired", trim |-> TtlLen]
    ELSE [ttl |-> TtlOf(b), err |-> "no", trim |-> TtlLen]

------------------------------------------------------------------------------
(* Operations of the trait, on both *)

PushBack(d) ==
    /\ Len(m.body) + Len(d) <= MaxLen
    /\ m' = [m EXCEPT !.body = @ \o d]
    /\ ZcPushBack(d)

HeaderPushBack(d) ==
    /\ Len(m.header) + Len(d) <= MaxLen
    /\ m' = [m EXCEPT !.header = @ \o d]
    /\ ZcHeaderPushBack(d)

\* Vec::drain(..n)
Drained(v, n) == SubSeq(v, n + 1, Len(v))

\* Beyond the end of the body both panic.
TrimFront(n) ==
    /\ n <= Len(m.body)
    /\ m' = [m EXCEPT !.body = Drained(@, n)]
    /\ ZcTrimFront(n)

attach_ttl ==
    /\ Len(m.header) + TtlLen <= MaxLen
    /\ m' = [m EXCEPT !.header = @ \o TtlField(MaxTtl)]
    /\ ZcHeaderPushBack(TtlField(MaxTtl))

\* The field is consumed before the TTL is looked at: an expired message has lost
\* it, one that is too short is as it was.
process_incoming ==
    LET r == Processed(m.body) IN
    /\ m' = [m EXCEPT !.body = Drained(@, r.trim)]
    /\ IF r.trim > 0 THEN ZcTrimFront(r.trim) ELSE UNCHANGED <<zcvars, live>>

\* The message is sent and received: header and body are the bytes of a frame, or
\* those of a WebSocket message or a datagram, and go into a new message's body.
Transfer ==
    LET d == decode_frame(encode_frame(m)).body IN
    /\ Len(d) <= MaxLen
    /\ m' = [header |-> <<>>, body |-> d]
    /\ ZcReceive(zc_header \o zc_body)

------------------------------------------------------------------------------
(* Operations of Message alone *)

\* Mutant: the new bytes are written before the old ones are moved.
PrependedOver(v, d) ==
    LET grown == [k \in 1 .. Len(v) + Len(d) |-> IF k <= Len(v) THEN v[k] ELSE 0]
        over  == [k \in DOMAIN grown |-> IF k <= Len(d) THEN d[k] ELSE grown[k]]
    IN [k \in DOMAIN grown |-> IF k > Len(d) THEN over[k - Len(d)] ELSE over[k]]

\* resize, copy_within(0..old_len, data.len()), copy_from_slice.
Prepended(v, d) ==
    LET grown == [k \in 1 .. Len(v) + Len(d) |-> IF k <= Len(v) THEN v[k] ELSE 0]
        moved == [k \in DOMAIN grown |-> IF k > Len(d) THEN grown[k - Len(d)] ELSE grown[k]]
    IN [k \in DOMAIN grown |-> IF k <= Len(d) THEN d[k] ELSE moved[k]]

\* truncate(len.saturating_sub(n))
Truncated(v, n) == SubSeq(v, 1, IF n <= Len(v) THEN Len(v) - n ELSE 0)

PushFront(d) ==
    /\ Len(m.body) + Len(d) <= MaxLen
    /\ m' = [m EXCEPT !.body = Prepended(@, d)] /\ ZcGone
HeaderPushFront(d) ==
    /\ Len(m.header) + Len(d) <= MaxLen
    /\ m' = [m EXCEPT !.header = Prepended(@, d)] /\ ZcGone
HeaderTrimFront(n) ==
    /\ n <= Len(m.header)
    /\ m' = [m EXCEPT !.header = Drained(@, n)] /\ ZcGone
TrimBack(n)       == m' = [m EXCEPT !.body = Truncated(@, n)] /\ ZcGone
HeaderTrimBack(n) == m' = [m EXCEPT !.header = Truncated(@, n)] /\ ZcGone

------------------------------------------------------------------------------
Next ==
    \/ \E d \in Data : \/ PushBack(d) \/ HeaderPushBack(d)
                       \/ PushFront(d) \/ HeaderPushFront(d)
    \/ \E n \in 1 .. MaxLen : \/ TrimFront(n) \/ HeaderTrimFront(n)
                              \/ TrimBack(n) \/ HeaderTrimBack(n)
    \/ attach_ttl
    \/ process_incoming \/ Transfer

Spec == Init /\ [][Next]_vars

------------------------------------------------------------------------------
(* Properties *)

\* The regions of the ZeroCopyMessage stay in their order.
TypeOK ==
    /\ m \in [header : Seq(Byte), body : Seq(Byte)]
    /\ Len(m.header) <= MaxLen /\ Len(m.body) <= MaxLen
    /\ buf \in [Offsets -> Byte]
    /\ h_end \in 0 .. HEADER_CAP
    /\ b_start \in HEADER_CAP .. b_end /\ b_end \in HEADER_CAP .. N
    /\ live \in BOOLEAN

\* The two implementations of MessageBuf are interchangeable, as the protocol
\* state machines that are generic over them need: as long as the fixed array is
\* not exhausted, the offsets of the ZeroCopyMessage show the same header and the
\* same body as the two Vecs, however trims, appends and received messages follow
\* each other.
SameView == live => zc_header = m.header /\ zc_body = m.body

\* Every operation of Message, with its resizing and moving of bytes, does what
\* MessageBuf says.
Abs == INSTANCE MessageBuf WITH
    header <- m.header, body <- m.body, Data <- Data \cup {TtlField(MaxTtl)}
MessageSpec == Abs!Spec

\* The stateless codec: whatever split into header and body a message has,
\* decode_frame finds all of it in front of any bytes that follow, takes exactly
\* that frame off them, and asks for more as long as one byte is missing.  On bytes
\* that were never a frame it does not reach past their end, however large the
\* length they read as and however narrow usize is.
CodecExact ==
    LET w == encode_frame(m) IN
    /\ \A k \in 0 .. Len(w) - 1 : decode_frame(SubSeq(w, 1, k)) = Incomplete
    /\ \A x \in Data \cup {<<>>, w} :
          decode_frame(w \o x) = [body |-> m.header \o m.body, used |-> Len(w)]
    /\ decode_frame(m.body).used <= Len(m.body)

\* A PAIR1 message arrives with the TTL it was sent with and the body it had: the
\* field that attach_ttl puts into the header is the one process_incoming takes
\* off the body.  (A message that already has a header, because it was sent
\* before, arrives with that header in front of its body instead.)
Pair1Delivers == m.header = <<>> =>
    \A t \in Ttls :
        LET got == decode_frame(encode_frame([m EXCEPT !.header = TtlField(t)])).body
            r   == Processed(got)
        IN r.err = "no" /\ r.ttl = t /\ Drained(got, r.trim) = m.body
==============================================================================
