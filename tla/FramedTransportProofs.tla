------------------------ MODULE FramedTransportProofs ------------------------
(***************************************************************************)
(* Proofs about FramedTransport: for every set of messages, every chunking *)
(* of the stream, every frame format and every size of the pool, what      *)
(* recv and recv_pooled deliver is what send was given.                    *)
(***************************************************************************)
EXTENDS FramedTransport, BigEndianProofs, TLAPS

Bytes == Seq(Byte)

------------------------------------------------------------------------------
(* Sequences *)

\* Sequences with the same elements are the same.
LEMMA SameSeq ==
    ASSUME NEW S, NEW s \in Seq(S), NEW t \in Seq(S), Len(s) = Len(t),
           \A j \in 1 .. Len(s) : s[j] = t[j]
    PROVE  s = t
OBVIOUS

\* The elements of a concatenation.
LEMMA ConcatSeq ==
    ASSUME NEW S, NEW s \in Seq(S), NEW t \in Seq(S)
    PROVE  /\ s \o t \in Seq(S) /\ Len(s \o t) = Len(s) + Len(t)
           /\ Len(s) \in Nat /\ Len(t) \in Nat
           /\ \A j \in 1 .. Len(s) : (s \o t)[j] = s[j]
           /\ \A j \in 1 .. Len(t) : (s \o t)[Len(s) + j] = t[j]
OBVIOUS

\* The elements after an append.
LEMMA AppendSeq ==
    ASSUME NEW S, NEW s \in Seq(S), NEW e \in S
    PROVE  /\ Append(s, e) \in Seq(S) /\ Len(Append(s, e)) = Len(s) + 1 /\ Len(s) \in Nat
           /\ \A j \in 1 .. Len(s) : Append(s, e)[j] = s[j]
           /\ Append(s, e)[Len(s) + 1] = e
OBVIOUS

\* Bytes a+1 to a+n of a sequence.
LEMMA Part ==
    ASSUME NEW S, NEW s \in Seq(S), NEW a \in Nat, NEW n \in Nat, a + n <= Len(s)
    PROVE  /\ SubSeq(s, a + 1, a + n) \in Seq(S) /\ Len(SubSeq(s, a + 1, a + n)) = n
           /\ \A j \in 1 .. n : SubSeq(s, a + 1, a + n)[j] = s[a + j]
OBVIOUS

\* A function on 1 .. n is a sequence.
LEMMA FcnSeq ==
    ASSUME NEW S, NEW n \in Nat, NEW f \in [1 .. n -> S]
    PROVE  f \in Seq(S) /\ Len(f) = n
OBVIOUS

------------------------------------------------------------------------------
(* Frames *)

\* What the assumptions say about the constants.
LEMMA Constants ==
    /\ Base \in Nat /\ Base > 1 /\ LenBytes \in Nat /\ LenBytes > 0 /\ LenLimit \in Nat
    /\ MAX_FRAME_BYTES \in Nat /\ UsizeLimit \in Nat /\ MAX_FRAME_BYTES < UsizeLimit /\ MaxSends \in Nat /\ StreamCap \in Nat
    /\ max_bufs \in Nat /\ max_buf_bytes \in Nat
    /\ needed \in Nat /\ needed > 0 /\ 0 \in Byte /\ 1 \in Byte
BY FrameAssumption, BigEndianAssumption, LengthField DEF needed, Byte

\* What comes in front of a payload of n bytes.
Prefix(n) == (IF Format = "Ipc" THEN <<1>> ELSE <<>>) \o ToBe(n)

\* The receiver reads off a length header what the sender put into it, if a usize can
\* hold it: any length up to MAX_FRAME_BYTES.
LEMMA PrefixSays ==
    ASSUME NEW n \in Nat, n < LenLimit
    PROVE  /\ Prefix(n) \in Bytes /\ Len(Prefix(n)) = needed
           /\ ~BadType(Prefix(n)) /\ (n <= MAX_FRAME_BYTES => PayloadLen(Prefix(n)) = n)
<1>1. ToBe(n) \in [1 .. LenBytes -> Byte] /\ FromBe(ToBe(n)) = n
  <2>1. n \in 0 .. LenLimit - 1
    BY Constants
  <2> QED BY <2>1, LengthField
<1>2. ToBe(n) \in Seq(Byte) /\ Len(ToBe(n)) = LenBytes
  BY <1>1, FcnSeq, Constants
<1> DEFINE t == ToBe(n)
<1> HIDE DEF t
<1>3. t \in Seq(Byte) /\ Len(t) = LenBytes /\ FromBe(t) = n
  BY <1>1, <1>2 DEF t
<1>u. n <= MAX_FRAME_BYTES => AsUsize(n) = n
  BY UsizeHolds, Constants
<1>4. CASE Format = "Ipc"
  <2>1. Prefix(n) = <<1>> \o t
    BY <1>4 DEF Prefix, t
  <2>2. <<1>> \in Seq(Byte) /\ Len(<<1>>) = 1 /\ <<1>>[1] = 1
    BY Constants
  <2>3. <<1>> \o t \in Seq(Byte) /\ Len(<<1>> \o t) = 1 + LenBytes /\ (<<1>> \o t)[1] = 1
    BY <1>3, <2>2, ConcatSeq, Constants
  <2>4. Tail(<<1>> \o t) = t
    BY <1>3, <2>2
  <2>5. PayloadLen(Prefix(n)) = AsUsize(n)
    BY <1>3, <1>4, <2>1, <2>4 DEF PayloadLen, Declared
  <2>6. ~BadType(Prefix(n))
    BY <2>1, <2>3 DEF BadType
  <2>7. 1 + LenBytes = needed
    BY <1>4, Constants DEF needed
  <2> QED BY <1>u, <2>1, <2>3, <2>5, <2>6, <2>7 DEF Bytes
<1>5. CASE Format # "Ipc"
  <2>1. <<>> \o t = t
    BY <1>3
  <2>2. Prefix(n) = t
    BY <1>5, <2>1 DEF Prefix, t
  <2>3. PayloadLen(Prefix(n)) = AsUsize(n) /\ ~BadType(Prefix(n))
    BY <1>3, <1>5, <2>2 DEF PayloadLen, Declared, BadType
  <2>4. LenBytes = needed
    BY <1>5 DEF needed
  <2> QED BY <1>3, <1>u, <2>2, <2>3, <2>4 DEF Bytes
<1> QED BY <1>4, <1>5

\* Any bytes in the length field announce a length.
LEMMA PayloadLenNat ==
    ASSUME NEW b \in Bytes, Len(b) = needed
    PROVE  PayloadLen(b) \in Nat
<1>1. \A q \in Seq(Byte) : Len(q) = LenBytes => AsUsize(FromBe(q)) \in Nat
  <2>1. \A q \in Seq(Byte) : q \in [1 .. Len(q) -> Byte]
    OBVIOUS
  <2> QED BY <2>1, LengthField, UsizeHolds
<1>2. CASE Format = "Ipc"
  <2>1. Tail(b) \in Seq(Byte) /\ Len(Tail(b)) = LenBytes
    <3>1. \A q \in Seq(Byte) : Len(q) = LenBytes + 1 => Tail(q) \in Seq(Byte) /\ Len(Tail(q)) = LenBytes
      BY Constants
    <3> QED BY <1>2, <3>1 DEF Bytes, needed
  <2> QED BY <1>1, <1>2, <2>1 DEF PayloadLen, Declared
<1>3. CASE Format # "Ipc"
  BY <1>1, <1>3 DEF PayloadLen, Declared, needed, Bytes
<1> QED BY <1>2, <1>3

\* The payload of a message is a sequence of bytes that the length field can announce.
LEMMA PayloadBytes ==
    ASSUME NEW m \in Messages
    PROVE  WireBody(m) \in Bytes /\ Len(WireBody(m)) \in Nat /\ Len(WireBody(m)) < LenLimit
<1>1. m.header \in Seq(Byte) /\ m.body \in Seq(Byte) /\ Len(m.header) + Len(m.body) < LenLimit
  BY MessageAssumption
<1>2. /\ WireBody(m) \in Seq(Byte) /\ Len(WireBody(m)) = Len(m.header) + Len(m.body)
  BY <1>1, ConcatSeq DEF WireBody
<1>3. \A q \in Seq(Byte) : Len(q) \in Nat
  OBVIOUS
<1> QED BY <1>1, <1>2, <1>3 DEF Bytes

\* A frame is its prefix and its payload.
LEMMA FrameBytes ==
    ASSUME NEW m \in Messages
    PROVE  /\ Frame(m) \in Bytes /\ Len(Frame(m)) = needed + Len(WireBody(m))
           /\ \A j \in 1 .. needed : Frame(m)[j] = Prefix(Len(WireBody(m)))[j]
           /\ \A j \in 1 .. Len(WireBody(m)) : Frame(m)[needed + j] = WireBody(m)[j]
           /\ SubSeq(Frame(m), needed + 1, Len(Frame(m))) = WireBody(m)
           /\ Frame(m) # <<>>
<1> DEFINE w == WireBody(m)
           p == Prefix(Len(w))
<1>1. w \in Seq(Byte) /\ Len(w) \in Nat /\ Len(w) < LenLimit
  BY PayloadBytes DEF Bytes
<1>2. Frame(m) = p \o w
  BY DEF Frame, Prefix
<1> HIDE DEF w
<1>3. p \in Seq(Byte) /\ Len(p) = needed
  BY <1>1, PrefixSays DEF Bytes
<1> HIDE DEF p
<1>4. /\ Frame(m) \in Seq(Byte) /\ Len(Frame(m)) = needed + Len(w)
      /\ \A j \in 1 .. needed : Frame(m)[j] = p[j]
      /\ \A j \in 1 .. Len(w) : Frame(m)[needed + j] = w[j]
  <2>1. ASSUME NEW s \in Seq(Byte), NEW t \in Seq(Byte)
        PROVE  /\ s \o t \in Seq(Byte) /\ Len(s \o t) = Len(s) + Len(t)
               /\ \A j \in 1 .. Len(s) : (s \o t)[j] = s[j]
               /\ \A j \in 1 .. Len(t) : (s \o t)[Len(s) + j] = t[j]
    OBVIOUS
  <2> QED BY <1>1, <1>2, <1>3, <2>1
<1>5. SubSeq(Frame(m), needed + 1, Len(Frame(m))) = w
  <2> DEFINE u == SubSeq(Frame(m), needed + 1, needed + Len(w))
  <2>1. u \in Seq(Byte) /\ Len(u) = Len(w) /\ \A j \in 1 .. Len(w) : u[j] = Frame(m)[needed + j]
    <3>1. needed + Len(w) <= Len(Frame(m)) /\ needed \in Nat
      BY <1>1, <1>4, Constants
    <3> QED BY <1>1, <1>4, <3>1, Part
  <2> HIDE DEF u
  <2>2. u = w
    BY <1>1, <1>4, <2>1, SameSeq
  <2> QED BY <1>4, <2>2 DEF u
<1>6. Frame(m) # <<>>
  <2>1. Len(<<>>) = 0
    OBVIOUS
  <2> QED BY <1>1, <1>4, <2>1, Constants
<1> QED BY <1>4, <1>5, <1>6 DEF w, p, Bytes

------------------------------------------------------------------------------
(* Types *)

TxTypes ==
    /\ frame \in Bytes /\ written \in Nat /\ written <= Len(frame)
    /\ sends \in 0 .. MaxSends /\ sent \in Seq(Bytes)
    /\ damaged \in BOOLEAN /\ intact \in Nat /\ intact <= Len(sent)

LinkTypes ==
    /\ wire \in Bytes /\ rpos \in 0 .. Len(wire)
    /\ open \in BOOLEAN /\ limit \in Nat /\ limit <= Len(wire)

RxTypes ==
    /\ rx \in [phase : {"Idle", "Len", "Body"}, len_buf : Bytes, body : Bytes, cap : Nat,
               body_filled : Nat]
    /\ recving \in {"no", "recv", "recv_pooled"}
    /\ rx.phase = "Len"  => Len(rx.len_buf) < needed
    /\ rx.phase = "Body" => rx.body_filled < Len(rx.body) /\ Len(rx.body) <= MAX_FRAME_BYTES

PoolTypes ==
    /\ bufs \in Seq(Buffer) /\ Len(bufs) <= max_bufs
    /\ hand \in Seq(Buffer) /\ Len(hand) <= 1

OutTypes == delivered \in Seq(Bytes) /\ rejected \in BOOLEAN

Types == TxTypes /\ LinkTypes /\ RxTypes /\ PoolTypes /\ OutTypes

\* The type invariant in five parts.
LEMMA TypeParts == TypeOK <=> Types
BY DEF TypeOK, Types, TxTypes, LinkTypes, RxTypes, PoolTypes, OutTypes, Bytes

\* send() is writing the frame of a message that it was given, and one that the
\* receiver accepts unless the stream counts as damaged.
Fits(p) == Len(p) <= MAX_FRAME_BYTES

Sending == frame # <<>> =>
    /\ written < Len(frame)
    /\ \E m \in Messages : frame = Frame(m) /\ (damaged \/ Fits(WireBody(m)))

\* What the sender's types say about its lengths.
LEMMA TxFacts ==
    ASSUME TxTypes
    PROVE  /\ frame \in Bytes /\ written \in Nat /\ Len(frame) \in Nat /\ written <= Len(frame)
           /\ sent \in Seq(Bytes) /\ Len(sent) \in Nat /\ intact \in Nat /\ intact <= Len(sent)
           /\ frame = <<>> => written = 0
<1>1. frame \in Seq(Byte) /\ written \in Nat /\ written <= Len(frame) /\ sent \in Seq(Bytes)
      /\ intact \in Nat /\ intact <= Len(sent)
  BY DEF TxTypes, Bytes
<1>2. Len(frame) \in Nat /\ Len(sent) \in Nat
  BY <1>1
<1>3. frame = <<>> => written = 0
  <2>1. Len(<<>>) = 0
    OBVIOUS
  <2> QED BY <1>1, <2>1
<1> QED BY <1>1, <1>2, <1>3 DEF Bytes

\* What the stream's types say about its offsets.
LEMMA LinkFacts ==
    ASSUME LinkTypes
    PROVE  /\ wire \in Bytes /\ Len(wire) \in Nat /\ rpos \in Nat /\ rpos <= Len(wire)
           /\ limit \in Nat /\ limit <= Len(wire) /\ Available \in Int /\ rpos + Available <= Len(wire)
<1>1. wire \in Seq(Byte) /\ rpos \in 0 .. Len(wire) /\ limit \in Nat /\ limit <= Len(wire)
  BY DEF LinkTypes, Bytes
<1>2. Len(wire) \in Nat
  BY <1>1
<1>3. rpos \in Nat /\ rpos <= Len(wire)
  BY <1>1, <1>2
<1>4. Available = Len(wire) - rpos \/ Available = limit - rpos
  BY DEF Available
<1> QED BY <1>1, <1>2, <1>3, <1>4 DEF Bytes

\* The bytes a read takes.
LEMMA ChunkBytes ==
    ASSUME LinkTypes, NEW n \in 1 .. Available
    PROVE  /\ n \in Nat /\ n > 0 /\ rpos + n \in Nat /\ rpos + n <= Len(wire)
           /\ Chunk(n) \in Bytes /\ Len(Chunk(n)) = n
           /\ \A j \in 1 .. n : Chunk(n)[j] = wire[rpos + j]
<1>1. n \in Nat /\ n > 0 /\ rpos + n \in Nat /\ rpos + n <= Len(wire)
  BY LinkFacts
<1>2. wire \in Seq(Byte) /\ rpos \in Nat
  BY LinkFacts DEF Bytes
<1> QED BY <1>1, <1>2, Part DEF Chunk, Bytes

\* Starting a send keeps the types and builds the frame of a message.
LEMMA SendTypes ==
    ASSUME Types, Sending, NEW m \in Messages, Send(m)
    PROVE  Types' /\ Sending'
<1>1. /\ frame' = Frame(m) /\ written' = 0 /\ sends < MaxSends /\ sends' = sends + 1
      /\ damaged' = (damaged \/ Len(WireBody(m)) > MAX_FRAME_BYTES)
      /\ UNCHANGED <<sent, intact>>
      /\ UNCHANGED <<wire, rpos, open, limit, rx, recving, bufs, hand, delivered, rejected>>
  BY DEF Send, linkvars, poolvars
<1>2. Frame(m) \in Bytes /\ Len(Frame(m)) = needed + Len(WireBody(m)) /\ Len(WireBody(m)) \in Nat
  BY FrameBytes, PayloadBytes
<1>3. 0 < Len(Frame(m)) /\ 0 <= Len(Frame(m)) /\ 0 \in Nat
  BY <1>2, Constants
<1>4. sends' \in 0 .. MaxSends
  BY <1>1, Constants DEF Types, TxTypes
<1>5. TxTypes'
  BY <1>1, <1>2, <1>3, <1>4 DEF Types, TxTypes
<1>6. LinkTypes' /\ RxTypes'
  BY <1>1 DEF Types, LinkTypes, RxTypes
<1>7. PoolTypes' /\ OutTypes'
  BY <1>1 DEF Types, PoolTypes, OutTypes
<1>8. Sending'
  <2>1. damaged' \/ Fits(WireBody(m))
    <3>1. Len(WireBody(m)) > MAX_FRAME_BYTES \/ Len(WireBody(m)) <= MAX_FRAME_BYTES
      BY <1>2, Constants
    <3> QED BY <1>1, <3>1 DEF Fits
  <2>2. frame' = Frame(m) /\ (damaged' \/ Fits(WireBody(m)))
    BY <1>1, <2>1
  <2> QED BY <1>1, <1>3, <2>2 DEF Sending
<1> QED BY <1>5, <1>6, <1>7, <1>8 DEF Types

\* What a write takes out of the frame.
LEMMA WrittenBytes ==
    ASSUME TxTypes, LinkTypes, NEW n \in 1 .. Len(frame) - written,
           wire' = wire \o SubSeq(frame, written + 1, written + n)
    PROVE  /\ n \in Nat /\ n > 0 /\ written + n \in Nat /\ written + n <= Len(frame)
           /\ wire' \in Bytes /\ Len(wire') = Len(wire) + n
           /\ \A j \in 1 .. Len(wire) : wire'[j] = wire[j]
           /\ \A j \in 1 .. n : wire'[Len(wire) + j] = frame[written + j]
<1>1. n \in Nat /\ n > 0 /\ written + n \in Nat /\ written + n <= Len(frame)
  BY TxFacts
<1> DEFINE c == SubSeq(frame, written + 1, written + n)
<1>2. c \in Seq(Byte) /\ Len(c) = n /\ \A j \in 1 .. n : c[j] = frame[written + j]
  <2>1. frame \in Seq(Byte) /\ written \in Nat
    BY TxFacts DEF Bytes
  <2> QED BY <1>1, <2>1, Part
<1>3. wire' = wire \o c /\ wire \in Seq(Byte)
  BY LinkFacts DEF Bytes
<1> HIDE DEF c
<1>4. /\ wire \o c \in Seq(Byte) /\ Len(wire \o c) = Len(wire) + Len(c)
      /\ \A j \in 1 .. Len(wire) : (wire \o c)[j] = wire[j]
      /\ \A j \in 1 .. Len(c) : (wire \o c)[Len(wire) + j] = c[j]
  <2>1. c \in Seq(Byte) /\ wire \in Seq(Byte)
    BY <1>2, <1>3
  <2> QED BY <2>1, ConcatSeq
<1> QED BY <1>1, <1>2, <1>3, <1>4 DEF Bytes

\* Writing some bytes keeps the types and the frame.
LEMMA WriteTypes ==
    ASSUME Types, Sending, NEW n, WriteSome(n)
    PROVE  Types' /\ Sending'
<1>1. /\ n \in 1 .. Len(frame) - written /\ frame # <<>>
      /\ wire' = wire \o SubSeq(frame, written + 1, written + n)
      /\ UNCHANGED <<sends, damaged>>
      /\ UNCHANGED <<rpos, open, limit, rx, recving, bufs, hand, delivered, rejected>>
  BY DEF WriteSome, linkvars, poolvars
<1>2. /\ n \in Nat /\ n > 0 /\ written + n \in Nat /\ written + n <= Len(frame)
      /\ wire' \in Bytes /\ Len(wire') = Len(wire) + n
  BY <1>1, WrittenBytes DEF Types
<1>3. LinkTypes'
  <2>1. rpos \in 0 .. Len(wire') /\ limit \in Nat /\ limit <= Len(wire') /\ open \in BOOLEAN
    BY <1>2, LinkFacts DEF Types, LinkTypes
  <2> QED BY <1>1, <1>2, <2>1 DEF LinkTypes
<1>4. RxTypes' /\ PoolTypes' /\ OutTypes'
  <2>1. RxTypes'
    BY <1>1 DEF Types, RxTypes
  <2> QED BY <1>1, <2>1 DEF Types, PoolTypes, OutTypes
<1>5. CASE written + n = Len(frame)
  <2>1. /\ frame' = <<>> /\ written' = 0
        /\ sent' = Append(sent, SubSeq(frame, needed + 1, Len(frame)))
        /\ intact' = IF damaged THEN intact ELSE intact + 1
    BY <1>5 DEF WriteSome
  <2>2. SubSeq(frame, needed + 1, Len(frame)) \in Bytes
    <3>1. PICK m \in Messages : frame = Frame(m)
      BY <1>1 DEF Sending
    <3> QED BY <3>1, FrameBytes, PayloadBytes
  <2>3. sent' \in Seq(Bytes) /\ Len(sent') = Len(sent) + 1
    BY <2>1, <2>2, AppendSeq, TxFacts DEF Types
  <2>4. intact' \in Nat /\ intact' <= Len(sent')
    BY <2>1, <2>3, TxFacts DEF Types
  <2>5. <<>> \in Bytes /\ Len(<<>>) = 0
    BY DEF Bytes
  <2>6. TxTypes'
    BY <1>1, <2>1, <2>3, <2>4, <2>5 DEF Types, TxTypes
  <2> QED BY <1>3, <1>4, <2>1, <2>6 DEF Types, Sending
<1>6. CASE written + n # Len(frame)
  <2>1. written' = written + n /\ UNCHANGED <<frame, sent, intact>>
    BY <1>6 DEF WriteSome
  <2>2. written' < Len(frame)
    BY <1>2, <1>6, <2>1, TxFacts DEF Types
  <2>3. TxTypes'
    BY <1>1, <1>2, <2>1 DEF Types, TxTypes
  <2>4. Sending'
    BY <1>1, <2>1, <2>2 DEF Sending
  <2> QED BY <1>3, <1>4, <2>3, <2>4 DEF Types
<1> QED BY <1>5, <1>6

\* Dropping a send keeps the types.
LEMMA AbandonTypes == ASSUME Types, Sending, AbandonSend PROVE Types' /\ Sending'
<1>1. /\ frame' = <<>> /\ written' = 0 /\ damaged' = (damaged \/ (open /\ written > 0))
      /\ UNCHANGED <<sends, sent, intact>>
      /\ UNCHANGED <<wire, rpos, open, limit, rx, recving, bufs, hand, delivered, rejected>>
  BY DEF AbandonSend, linkvars, poolvars
<1>2. <<>> \in Bytes /\ Len(<<>>) = 0
  BY DEF Bytes
<1>3. damaged' \in BOOLEAN
  BY <1>1
<1>4. TxTypes'
  BY <1>1, <1>2, <1>3 DEF Types, TxTypes
<1>5. LinkTypes' /\ RxTypes'
  BY <1>1 DEF Types, LinkTypes, RxTypes
<1>6. PoolTypes' /\ OutTypes'
  BY <1>1 DEF Types, PoolTypes, OutTypes
<1> QED BY <1>1, <1>4, <1>5, <1>6 DEF Types, Sending

\* Losing the connection keeps the types.
LEMMA BreakTypes == ASSUME Types, Sending, Break PROVE Types' /\ Sending'
<1>1. /\ open' = FALSE /\ limit' \in rpos .. Len(wire)
      /\ UNCHANGED <<frame, written, sends, sent, damaged, intact>>
      /\ UNCHANGED <<wire, rpos, rx, recving, bufs, hand, delivered, rejected>>
  BY DEF Break, txvars, poolvars
<1>2. limit' \in Nat /\ limit' <= Len(wire)
  BY <1>1, LinkFacts DEF Types
<1>3. LinkTypes'
  BY <1>1, <1>2 DEF Types, LinkTypes
<1>4. TxTypes' /\ Sending'
  BY <1>1 DEF Types, TxTypes, Sending
<1>5. RxTypes' /\ PoolTypes' /\ OutTypes'
  <2>1. RxTypes'
    BY <1>1 DEF Types, RxTypes
  <2> QED BY <1>1, <2>1 DEF Types, PoolTypes, OutTypes
<1> QED BY <1>3, <1>4, <1>5 DEF Types

\* What the RecvBuf's types say about its lengths.
LEMMA RxFacts ==
    ASSUME RxTypes
    PROVE  /\ rx.len_buf \in Bytes /\ Len(rx.len_buf) \in Nat /\ rx.body \in Bytes /\ Len(rx.body) \in Nat
           /\ rx.cap \in Nat /\ rx.body_filled \in Nat /\ rx.phase \in {"Idle", "Len", "Body"}
<1>1. /\ rx.len_buf \in Seq(Byte) /\ rx.body \in Seq(Byte)
      /\ rx.cap \in Nat /\ rx.body_filled \in Nat /\ rx.phase \in {"Idle", "Len", "Body"}
  BY DEF RxTypes, Bytes
<1>2. \A q \in Seq(Byte) : Len(q) \in Nat
  OBVIOUS
<1> QED BY <1>1, <1>2 DEF Bytes

\* The length header after a read.
LEMMA HeaderBytes ==
    ASSUME LinkTypes, RxTypes, NEW n \in 1 .. Available
    PROVE  /\ rx.len_buf \o Chunk(n) \in Bytes
           /\ Len(rx.len_buf \o Chunk(n)) = Len(rx.len_buf) + n
           /\ \A j \in 1 .. Len(rx.len_buf) : (rx.len_buf \o Chunk(n))[j] = rx.len_buf[j]
           /\ \A j \in 1 .. n : (rx.len_buf \o Chunk(n))[Len(rx.len_buf) + j] = wire[rpos + j]
<1> DEFINE c == Chunk(n)
<1>1. c \in Seq(Byte) /\ Len(c) = n /\ \A j \in 1 .. n : c[j] = wire[rpos + j]
  BY ChunkBytes DEF Bytes
<1>2. rx.len_buf \in Seq(Byte)
  BY RxFacts DEF Bytes
<1> HIDE DEF c
<1>3. /\ rx.len_buf \o c \in Seq(Byte) /\ Len(rx.len_buf \o c) = Len(rx.len_buf) + Len(c)
      /\ \A j \in 1 .. Len(rx.len_buf) : (rx.len_buf \o c)[j] = rx.len_buf[j]
      /\ \A j \in 1 .. Len(c) : (rx.len_buf \o c)[Len(rx.len_buf) + j] = c[j]
  <2>1. c \in Seq(Byte)
    BY <1>1
  <2> QED BY <1>2, <2>1, ConcatSeq
<1> QED BY <1>1, <1>3 DEF Bytes, c

\* A body buffer has the announced length, new or pooled, and the pool shrinks by it.
LEMMA AllocBuffer ==
    ASSUME PoolTypes, NEW len \in Nat
    PROVE  /\ AllocBody(len) \in Buffer /\ Len(AllocBody(len).data) = len
           /\ PoolAfterAlloc \in Seq(Buffer) /\ Len(PoolAfterAlloc) <= max_bufs
<1>1. bufs \in Seq(Buffer) /\ Len(bufs) <= max_bufs /\ Len(bufs) \in Nat
  BY DEF PoolTypes
<1>2. Take \in Buffer
  <2>1. CASE bufs = <<>>
    <3>1. <<>> \in Seq(Byte) /\ 0 \in Nat
      OBVIOUS
    <3> QED BY <2>1, <3>1 DEF Take, Buffer
  <2>2. CASE bufs # <<>>
    <3>1. Len(bufs) \in 1 .. Len(bufs)
      BY <1>1, <2>2
    <3>2. bufs[Len(bufs)] \in Buffer
      BY <1>1, <3>1
    <3> QED BY <2>2, <3>2 DEF Take, Last
  <2> QED BY <2>1, <2>2
<1>3. ASSUME NEW v \in Buffer PROVE Resize(v, len) \in Buffer /\ Len(Resize(v, len).data) = len
  <2>1. v.data \in Seq(Byte) /\ v.cap \in Nat
    BY DEF Buffer
  <2> DEFINE f == [i \in 1 .. len |-> IF i <= Len(v.data) THEN v.data[i] ELSE 0]
  <2>2. f \in [1 .. len -> Byte]
    <3>1. \A i \in 1 .. len : i <= Len(v.data) => v.data[i] \in Byte
      BY <2>1
    <3> QED BY <3>1, Constants
  <2>3. f \in Seq(Byte) /\ Len(f) = len
    BY <2>2, FcnSeq
  <2>4. Grow(v.cap, len) \in Nat
    BY <2>1 DEF Grow
  <2> HIDE DEF f
  <2>5. Resize(v, len) = [data |-> f, cap |-> Grow(v.cap, len)]
    BY DEF Resize, f
  <2> QED BY <2>3, <2>4, <2>5 DEF Buffer
<1>4. Zeros(len) \in Seq(Byte) /\ Len(Zeros(len)) = len
  <2>1. Zeros(len) \in [1 .. len -> Byte]
    BY Constants DEF Zeros
  <2> QED BY <2>1, FcnSeq
<1>5. AllocBody(len) \in Buffer /\ Len(AllocBody(len).data) = len
  <2>1. CASE recving = "recv_pooled"
    BY <1>2, <1>3, <2>1 DEF AllocBody
  <2>2. CASE recving # "recv_pooled"
    BY <1>4, <2>2 DEF AllocBody, Buffer
  <2> QED BY <2>1, <2>2
<1>6. PoolAfterAlloc \in Seq(Buffer) /\ Len(PoolAfterAlloc) <= max_bufs
  <2>1. CASE recving = "recv_pooled" /\ bufs # <<>>
    <3>1. Len(bufs) - 1 \in Nat /\ 0 + (Len(bufs) - 1) <= Len(bufs) /\ 0 + (Len(bufs) - 1) = Len(bufs) - 1
      BY <1>1, <2>1
    <3>2. /\ SubSeq(bufs, 0 + 1, 0 + (Len(bufs) - 1)) \in Seq(Buffer)
          /\ Len(SubSeq(bufs, 0 + 1, 0 + (Len(bufs) - 1))) = Len(bufs) - 1
      <4>1. 0 \in Nat
        OBVIOUS
      <4> QED BY <1>1, <3>1, <4>1, Part
    <3>3. SubSeq(bufs, 1, Len(bufs) - 1) \in Seq(Buffer) /\ Len(SubSeq(bufs, 1, Len(bufs) - 1)) = Len(bufs) - 1
      BY <3>1, <3>2
    <3>4. PoolAfterAlloc = SubSeq(bufs, 1, Len(bufs) - 1)
      BY <2>1 DEF PoolAfterAlloc, Front
    <3> QED BY <1>1, <3>3, <3>4, Constants
  <2>2. CASE ~(recving = "recv_pooled" /\ bufs # <<>>)
    BY <1>1, <2>2 DEF PoolAfterAlloc
  <2> QED BY <2>1, <2>2
<1> QED BY <1>5, <1>6

\* Reading n bytes into the body leaves those in front of them alone.
LEMMA FilledBytes ==
    ASSUME LinkTypes, RxTypes, NEW n \in 1 .. Available, rx.body_filled + n <= Len(rx.body)
    PROVE  /\ Filled(n) \in Bytes /\ Len(Filled(n)) = Len(rx.body)
           /\ \A j \in 1 .. rx.body_filled : Filled(n)[j] = rx.body[j]
           /\ \A j \in 1 .. n : Filled(n)[rx.body_filled + j] = wire[rpos + j]
<1>1. /\ rx.body \in Seq(Byte) /\ Len(rx.body) \in Nat /\ rx.body_filled \in Nat
      /\ n \in Nat /\ n > 0 /\ rpos + n <= Len(wire) /\ wire \in Seq(Byte) /\ rpos \in Nat
  BY RxFacts, LinkFacts, ChunkBytes DEF Bytes
<1>2. \A i \in 1 .. Len(rx.body) : i \in rx.body_filled + 1 .. rx.body_filled + n
                                     => rpos + i - rx.body_filled \in 1 .. Len(wire)
  <2>1. Len(wire) \in Nat
    BY LinkFacts
  <2> QED BY <1>1, <2>1
<1>3. Filled(n) \in [1 .. Len(rx.body) -> Byte]
  <2>1. \A i \in 1 .. Len(wire) : wire[i] \in Byte
    BY <1>1
  <2>2. \A i \in 1 .. Len(rx.body) : rx.body[i] \in Byte
    BY <1>1
  <2> QED BY <1>2, <2>1, <2>2 DEF Filled
<1>4. Filled(n) \in Seq(Byte) /\ Len(Filled(n)) = Len(rx.body)
  BY <1>1, <1>3, FcnSeq
<1>5. ASSUME NEW j \in 1 .. rx.body_filled PROVE Filled(n)[j] = rx.body[j]
  <2>1. j \in 1 .. Len(rx.body) /\ j \notin rx.body_filled + 1 .. rx.body_filled + n
    BY <1>1
  <2> QED BY <2>1 DEF Filled
<1>6. ASSUME NEW j \in 1 .. n PROVE Filled(n)[rx.body_filled + j] = wire[rpos + j]
  <2>1. /\ rx.body_filled + j \in 1 .. Len(rx.body)
        /\ rx.body_filled + j \in rx.body_filled + 1 .. rx.body_filled + n
        /\ rpos + (rx.body_filled + j) - rx.body_filled = rpos + j
    <3>1. PICK f \in Nat, l \in Nat, r \in Nat : f = rx.body_filled /\ l = Len(rx.body) /\ r = rpos
      BY <1>1
    <3>2. j \in Nat /\ j > 0 /\ j <= n /\ n \in Nat /\ f + n <= l
      BY <1>1, <3>1
    <3>3. f + j \in 1 .. l /\ f + j \in f + 1 .. f + n /\ r + (f + j) - f = r + j
      BY ONLY <3>2, f \in Nat, l \in Nat, r \in Nat
    <3> QED BY <3>1, <3>3
  <2> QED BY <2>1 DEF Filled
<1> QED BY <1>4, <1>5, <1>6 DEF Bytes

\* What every step of the receiver leaves alone.
RxOnly == UNCHANGED <<frame, written, sends, sent, damaged, intact, wire, open, limit>>

\* A step of the receiver concerns its own types only.
LEMMA RxOnlyTypes ==
    ASSUME Types, Sending, RxOnly, rpos' \in 0 .. Len(wire), RxTypes', PoolTypes', OutTypes'
    PROVE  Types' /\ Sending'
<1>1. UNCHANGED <<frame, written, sends, sent, damaged, intact>> /\ UNCHANGED <<wire, open, limit>>
  BY DEF RxOnly
<1>2. TxTypes'
  BY <1>1 DEF Types, TxTypes
<1>3. LinkTypes'
  BY <1>1 DEF Types, LinkTypes
<1>4. Sending'
  BY <1>1 DEF Sending
<1> QED BY <1>2, <1>3, <1>4 DEF Types

\* Calling recv or recv_pooled keeps the types.
LEMMA RecvTypes ==
    ASSUME Types, Sending, NEW mode \in {"recv", "recv_pooled"}, Recv(mode)
    PROVE  Types' /\ Sending'
<1>1. /\ RxOnly /\ UNCHANGED <<rpos, bufs, hand, delivered, rejected>> /\ recving' = mode
      /\ rx' = IF rx.phase = "Idle" THEN [rx EXCEPT !.phase = "Len", !.len_buf = <<>>] ELSE rx
  BY DEF Recv, RxOnly, txvars, linkvars, poolvars
<1>2. RxTypes'
  <2>1. CASE rx.phase = "Idle"
    <3>1. rx' = [rx EXCEPT !.phase = "Len", !.len_buf = <<>>]
      BY <1>1, <2>1
    <3>2. <<>> \in Bytes /\ Len(<<>>) < needed
      BY Constants DEF Bytes
    <3> QED BY <1>1, <3>1, <3>2 DEF Types, RxTypes
  <2>2. CASE rx.phase # "Idle"
    BY <1>1, <2>2 DEF Types, RxTypes
  <2> QED BY <2>1, <2>2
<1>3. PoolTypes' /\ OutTypes'
  BY <1>1 DEF Types, PoolTypes, OutTypes
<1>4. rpos' \in 0 .. Len(wire)
  BY <1>1 DEF Types, LinkTypes
<1> QED BY <1>1, <1>2, <1>3, <1>4, RxOnlyTypes

\* An end of file, a dropped receive and a recycled buffer leave what was received alone.
LEMMA QuietTypes ==
    ASSUME Types, Sending, ReadEof \/ CancelRecv \/ Recycle
    PROVE  Types' /\ Sending' /\ RxOnly /\ UNCHANGED <<rpos, rx, delivered, rejected>>
<1>1. RxOnly /\ UNCHANGED <<rpos, rx, delivered, rejected>>
  BY DEF ReadEof, CancelRecv, Recycle, RxOnly, txvars, linkvars, poolvars
<1>2. RxTypes'
  <2>1. recving' \in {"no", "recv", "recv_pooled"}
    BY DEF ReadEof, CancelRecv, Recycle, Types, RxTypes
  <2> QED BY <1>1, <2>1 DEF Types, RxTypes
<1>3. PoolTypes'
  <2>1. CASE Recycle
    <3>1. hand' = <<>> /\ <<>> \in Seq(Buffer) /\ Len(<<>>) <= 1
      BY <2>1 DEF Recycle
    <3>2. bufs \in Seq(Buffer) /\ Len(bufs) <= max_bufs /\ Len(bufs) \in Nat
      BY DEF Types, PoolTypes
    <3>3. hand[1] \in Buffer
      <4>1. hand \in Seq(Buffer) /\ hand # <<>>
        BY <2>1 DEF Recycle, Types, PoolTypes
      <4>2. 1 \in 1 .. Len(hand)
        BY <4>1
      <4> QED BY <4>1, <4>2
    <3>4. CASE Len(bufs) < max_bufs /\ hand[1].cap <= max_buf_bytes
      <4>1. bufs' = Append(bufs, hand[1])
        BY <2>1, <3>4 DEF Recycle
      <4>2. bufs' \in Seq(Buffer) /\ Len(bufs') = Len(bufs) + 1
        BY <3>2, <3>3, <4>1, AppendSeq
      <4>3. Len(bufs') <= max_bufs
        BY <3>2, <3>4, <4>2, Constants
      <4> QED BY <3>1, <4>2, <4>3 DEF PoolTypes
    <3>5. CASE ~(Len(bufs) < max_bufs /\ hand[1].cap <= max_buf_bytes)
      <4>1. bufs' = bufs
        BY <2>1, <3>5 DEF Recycle
      <4> QED BY <3>1, <3>2, <4>1 DEF PoolTypes
    <3> QED BY <3>4, <3>5
  <2>2. CASE ReadEof \/ CancelRecv
    <3>1. UNCHANGED <<bufs, hand>>
      BY <2>2 DEF ReadEof, CancelRecv, poolvars
    <3> QED BY <3>1 DEF Types, PoolTypes
  <2> QED BY <2>1, <2>2
<1>4. OutTypes'
  BY <1>1 DEF Types, OutTypes
<1>5. rpos' \in 0 .. Len(wire)
  BY <1>1 DEF Types, LinkTypes
<1>6. Types' /\ Sending'
  BY <1>1, <1>2, <1>3, <1>4, <1>5, RxOnlyTypes
<1> QED BY <1>1, <1>6

\* Reading stays within the stream.
LEMMA ReadPos ==
    ASSUME Types, NEW n \in 1 .. Available, rpos' = rpos + n
    PROVE  rpos' \in 0 .. Len(wire)
<1>1. rpos + n \in Nat /\ rpos + n <= Len(wire) /\ Len(wire) \in Nat
  BY ChunkBytes, LinkFacts DEF Types
<1> QED BY <1>1

\* Reading a part of the prefix appends it to the length buffer.
LEMMA ReadLenTypes ==
    ASSUME Types, Sending, NEW n, ReadLen(n)
    PROVE  /\ Types' /\ Sending' /\ RxOnly /\ n \in 1 .. Available /\ rpos' = rpos + n
           /\ UNCHANGED <<delivered, rejected>> /\ rx.phase = "Len" /\ rx'.phase = "Len"
           /\ rx'.len_buf = rx.len_buf \o Chunk(n)
<1>1. /\ RxOnly /\ UNCHANGED <<recving, bufs, hand, delivered, rejected>> /\ rpos' = rpos + n
      /\ n \in 1 .. Available /\ Len(rx.len_buf) + n < needed /\ rx.phase = "Len"
      /\ rx' = [rx EXCEPT !.len_buf = rx.len_buf \o Chunk(n)]
  BY DEF ReadLen, RxOnly, txvars, linkvars, poolvars
<1>2. rx.len_buf \o Chunk(n) \in Bytes /\ Len(rx.len_buf \o Chunk(n)) = Len(rx.len_buf) + n
  BY <1>1, HeaderBytes DEF Types
<1>3. RxTypes'
  BY <1>1, <1>2 DEF Types, RxTypes
<1>4. rx'.phase = "Len" /\ rx'.len_buf = rx.len_buf \o Chunk(n)
  BY <1>1 DEF Types, RxTypes
<1>5. PoolTypes' /\ OutTypes'
  BY <1>1 DEF Types, PoolTypes, OutTypes
<1> QED BY <1>1, <1>3, <1>4, <1>5, ReadPos, RxOnlyTypes

\* Reading the rest of the prefix completes the length buffer.
LEMMA FilledHeader ==
    ASSUME Types, NEW n, LenFilled(n)
    PROVE  /\ RxOnly /\ rpos' = rpos + n /\ n \in 1 .. Available /\ rx.phase = "Len"
           /\ rx.len_buf \o Chunk(n) \in Bytes /\ Len(rx.len_buf \o Chunk(n)) = needed
           /\ PayloadLen(rx.len_buf \o Chunk(n)) \in Nat /\ Len(rx.len_buf) + n = needed
<1>1. RxOnly /\ rpos' = rpos + n /\ n \in 1 .. Available /\ Len(rx.len_buf) + n = needed /\ rx.phase = "Len"
  BY DEF LenFilled, RxOnly, txvars, linkvars
<1>2. rx.len_buf \o Chunk(n) \in Bytes /\ Len(rx.len_buf \o Chunk(n)) = Len(rx.len_buf) + n
  BY <1>1, HeaderBytes DEF Types
<1> QED BY <1>1, <1>2, PayloadLenNat

\* A length that is too large is refused, and nothing is delivered.
LEMMA ReadLenRefusedTypes ==
    ASSUME Types, Sending, NEW n, ReadLenRefused(n)
    PROVE  /\ Types' /\ Sending' /\ UNCHANGED delivered /\ rejected' = TRUE
           /\ rx'.phase = "Idle"
<1> DEFINE b == rx.len_buf \o Chunk(n)
<1>1. /\ LenFilled(n) /\ rx' = [rx EXCEPT !.phase = "Idle", !.len_buf = b]
      /\ recving' = "no" /\ rejected' = TRUE /\ UNCHANGED <<bufs, hand, delivered>>
  BY DEF ReadLenRefused, poolvars
<1>2. RxOnly /\ rpos' = rpos + n /\ n \in 1 .. Available /\ b \in Bytes
  BY <1>1, FilledHeader
<1> HIDE DEF b
<1>3. RxTypes' /\ rx'.phase = "Idle"
  BY <1>1, <1>2 DEF Types, RxTypes
<1>4. PoolTypes' /\ OutTypes'
  BY <1>1 DEF Types, PoolTypes, OutTypes
<1> QED BY <1>1, <1>2, <1>3, <1>4, ReadPos, RxOnlyTypes

\* A length that is accepted makes a body of that length.
LEMMA ReadLenBodyTypes ==
    ASSUME Types, Sending, NEW n, ReadLenBody(n)
    PROVE  /\ Types' /\ Sending' /\ UNCHANGED <<delivered, rejected>>
           /\ rx'.phase = "Body" /\ rx'.len_buf = rx.len_buf \o Chunk(n)
           /\ Len(rx'.body) = PayloadLen(rx.len_buf \o Chunk(n)) /\ rx'.body_filled = 0
<1> DEFINE b == rx.len_buf \o Chunk(n)
           body == AllocBody(PayloadLen(b))
<1>1. /\ LenFilled(n) /\ PayloadLen(b) \in 1 .. MAX_FRAME_BYTES
      /\ rx' = [phase |-> "Body", len_buf |-> b, body |-> body.data, cap |-> body.cap, body_filled |-> 0]
      /\ bufs' = PoolAfterAlloc /\ UNCHANGED <<recving, hand, delivered, rejected>>
  BY DEF ReadLenBody
<1>2. RxOnly /\ rpos' = rpos + n /\ n \in 1 .. Available /\ b \in Bytes /\ PayloadLen(b) \in Nat
  BY <1>1, FilledHeader
<1>3. /\ body \in Buffer /\ Len(body.data) = PayloadLen(b)
      /\ PoolAfterAlloc \in Seq(Buffer) /\ Len(PoolAfterAlloc) <= max_bufs
  BY <1>2, AllocBuffer DEF Types
<1>4. PayloadLen(b) > 0 /\ PayloadLen(b) <= MAX_FRAME_BYTES
  BY <1>1, Constants
<1> HIDE DEF b, body
<1>5. body.data \in Bytes /\ body.cap \in Nat
  BY <1>3 DEF Buffer, Bytes
<1>6. rx'.phase = "Body" /\ rx'.len_buf = b /\ rx'.body = body.data /\ rx'.body_filled = 0
  BY <1>1
<1>7. RxTypes'
  <2>1. /\ rx' \in [phase : {"Idle", "Len", "Body"}, len_buf : Bytes, body : Bytes, cap : Nat, body_filled : Nat]
    BY <1>1, <1>2, <1>5
  <2>2. recving' \in {"no", "recv", "recv_pooled"}
    BY <1>1 DEF Types, RxTypes
  <2>3. rx'.body_filled < Len(rx'.body) /\ Len(rx'.body) <= MAX_FRAME_BYTES
    BY <1>3, <1>4, <1>6
  <2> QED BY <1>6, <2>1, <2>2, <2>3 DEF RxTypes
<1>8. PoolTypes' /\ OutTypes'
  BY <1>1, <1>3 DEF Types, PoolTypes, OutTypes
<1>9. Types' /\ Sending'
  BY <1>2, <1>7, <1>8, ReadPos, RxOnlyTypes
<1> QED BY <1>1, <1>3, <1>6, <1>9 DEF b

\* A completed receive hands out one body.
LEMMA CompleteTypes ==
    ASSUME Types, NEW body \in Bytes, NEW cap \in Nat, Complete(body, cap)
    PROVE  /\ OutTypes' /\ hand' \in Seq(Buffer) /\ Len(hand') <= 1 /\ recving' = "no"
           /\ UNCHANGED rejected /\ delivered' = Append(delivered, body)
<1>1. /\ delivered' = Append(delivered, body) /\ hand' = <<[data |-> body, cap |-> cap]>>
      /\ recving' = "no" /\ UNCHANGED rejected
  BY DEF Complete
<1>2. delivered' \in Seq(Bytes)
  BY <1>1, AppendSeq DEF Types, OutTypes
<1>3. [data |-> body, cap |-> cap] \in Buffer
  BY DEF Buffer, Bytes
<1>4. \A x \in Buffer : <<x>> \in Seq(Buffer) /\ Len(<<x>>) <= 1
  OBVIOUS
<1> QED BY <1>1, <1>2, <1>3, <1>4 DEF Types, OutTypes

\* A frame without payload is delivered at once.
LEMMA ReadLenEmptyTypes ==
    ASSUME Types, Sending, NEW n, ReadLenEmpty(n)
    PROVE  /\ Types' /\ Sending' /\ UNCHANGED rejected /\ rx'.phase = "Idle"
           /\ PayloadLen(rx.len_buf \o Chunk(n)) = 0 /\ delivered' = Append(delivered, <<>>)
<1> DEFINE b == rx.len_buf \o Chunk(n)
           body == AllocBody(0)
<1>1. /\ LenFilled(n) /\ PayloadLen(b) = 0
      /\ rx' = [phase |-> "Idle", len_buf |-> b, body |-> <<>>, cap |-> 0, body_filled |-> 0]
      /\ bufs' = PoolAfterAlloc /\ Complete(body.data, body.cap)
  BY DEF ReadLenEmpty
<1>2. RxOnly /\ rpos' = rpos + n /\ n \in 1 .. Available /\ b \in Bytes
  BY <1>1, FilledHeader
<1>3. /\ body \in Buffer /\ Len(body.data) = 0
      /\ PoolAfterAlloc \in Seq(Buffer) /\ Len(PoolAfterAlloc) <= max_bufs
  <2>1. 0 \in Nat
    OBVIOUS
  <2> QED BY <2>1, AllocBuffer DEF Types
<1> HIDE DEF b, body
<1>4. body.data \in Bytes /\ body.cap \in Nat
  BY <1>3 DEF Buffer, Bytes
<1>5. body.data = <<>>
  <2>1. \A q \in Seq(Byte) : Len(q) = 0 => q = <<>>
    OBVIOUS
  <2> QED BY <1>3, <1>4, <2>1 DEF Bytes
<1>6. /\ OutTypes' /\ hand' \in Seq(Buffer) /\ Len(hand') <= 1 /\ recving' = "no"
      /\ UNCHANGED rejected /\ delivered' = Append(delivered, <<>>)
  BY <1>1, <1>4, <1>5, CompleteTypes
<1>7. RxTypes' /\ rx'.phase = "Idle"
  <2>1. <<>> \in Bytes /\ 0 \in Nat
    BY DEF Bytes
  <2> QED BY <1>1, <1>2, <1>6, <2>1 DEF RxTypes
<1>8. PoolTypes'
  BY <1>1, <1>3, <1>6 DEF PoolTypes
<1>9. Types' /\ Sending'
  BY <1>2, <1>6, <1>7, <1>8, ReadPos, RxOnlyTypes
<1> QED BY <1>1, <1>6, <1>7, <1>9 DEF b

\* Reading a part of the body fills it that far, reading the rest delivers it.
LEMMA ReadBodyTypes ==
    ASSUME Types, Sending, NEW n, ReadBody(n)
    PROVE  /\ Types' /\ Sending' /\ RxOnly /\ UNCHANGED rejected
           /\ n \in 1 .. Available /\ rpos' = rpos + n
           /\ rx.phase = "Body" /\ rx.body_filled + n <= Len(rx.body)
           /\ \/ /\ rx.body_filled + n = Len(rx.body) /\ rx'.phase = "Idle"
                 /\ delivered' = Append(delivered, Filled(n))
              \/ /\ rx.body_filled + n # Len(rx.body) /\ rx'.phase = "Body"
                 /\ rx'.len_buf = rx.len_buf /\ rx'.body = Filled(n)
                 /\ rx'.body_filled = rx.body_filled + n /\ UNCHANGED delivered
<1>1. /\ RxOnly /\ rpos' = rpos + n /\ n \in 1 .. Available /\ rx.phase = "Body"
      /\ rx.body_filled + n <= Len(rx.body) /\ UNCHANGED bufs
  BY DEF ReadBody, RxOnly, txvars, linkvars
<1>2. Filled(n) \in Bytes /\ Len(Filled(n)) = Len(rx.body)
  BY <1>1, FilledBytes DEF Types
<1>3. rx.body_filled + n \in Nat /\ rx.cap \in Nat /\ Len(rx.body) \in Nat /\ Len(rx.body) <= MAX_FRAME_BYTES
  BY <1>1, RxFacts, ChunkBytes DEF Types, RxTypes
<1>4. CASE rx.body_filled + n = Len(rx.body)
  <2>1. /\ rx' = [rx EXCEPT !.phase = "Idle", !.body = <<>>, !.cap = 0, !.body_filled = rx.body_filled + n]
        /\ Complete(Filled(n), rx.cap)
    BY <1>4 DEF ReadBody
  <2>2. /\ OutTypes' /\ hand' \in Seq(Buffer) /\ Len(hand') <= 1 /\ recving' = "no"
        /\ UNCHANGED rejected /\ delivered' = Append(delivered, Filled(n))
    BY <1>2, <1>3, <2>1, CompleteTypes
  <2>3. RxTypes' /\ rx'.phase = "Idle"
    <3>1. <<>> \in Bytes /\ 0 \in Nat
      BY DEF Bytes
    <3> QED BY <1>3, <2>1, <2>2, <3>1 DEF Types, RxTypes
  <2>4. PoolTypes'
    BY <1>1, <2>2 DEF Types, PoolTypes
  <2>5. Types' /\ Sending'
    BY <1>1, <2>2, <2>3, <2>4, ReadPos, RxOnlyTypes
  <2> QED BY <1>1, <1>4, <2>2, <2>3, <2>5
<1>5. CASE rx.body_filled + n # Len(rx.body)
  <2>1. /\ rx' = [rx EXCEPT !.body = Filled(n), !.body_filled = rx.body_filled + n]
        /\ UNCHANGED <<recving, hand, delivered, rejected>>
    BY <1>5 DEF ReadBody
  <2>2. rx.body_filled + n < Len(rx.body)
    BY <1>1, <1>3, <1>5
  <2>3. /\ rx'.phase = "Body" /\ rx'.len_buf = rx.len_buf /\ rx'.body = Filled(n)
        /\ rx'.body_filled = rx.body_filled + n
    BY <1>1, <2>1 DEF Types, RxTypes
  <2>4. RxTypes'
    <3>1. rx' \in [phase : {"Idle", "Len", "Body"}, len_buf : Bytes, body : Bytes, cap : Nat, body_filled : Nat]
      BY <1>2, <1>3, <2>1 DEF Types, RxTypes
    <3>2. recving' \in {"no", "recv", "recv_pooled"}
      BY <2>1 DEF Types, RxTypes
    <3>3. rx'.body_filled < Len(rx'.body) /\ Len(rx'.body) <= MAX_FRAME_BYTES
      BY <1>2, <1>3, <2>2, <2>3
    <3> QED BY <2>3, <3>1, <3>2, <3>3 DEF RxTypes
  <2>5. PoolTypes' /\ OutTypes'
    BY <1>1, <2>1 DEF Types, PoolTypes, OutTypes
  <2>6. Types' /\ Sending'
    BY <1>1, <2>4, <2>5, ReadPos, RxOnlyTypes
  <2> QED BY <1>1, <1>5, <2>1, <2>3, <2>6
<1> QED BY <1>4, <1>5

------------------------------------------------------------------------------
(* The inductive invariant *)

\* From offset a on the wire holds a frame with payload p, as far as it goes.
Holds(a, p) ==
    /\ \A j \in 1 .. needed : a + j <= Len(wire) => wire[a + j] = Prefix(Len(p))[j]
    /\ \A j \in 1 .. Len(p) : a + needed + j <= Len(wire) => wire[a + needed + j] = p[j]

\* st[i] is where the i-th frame starts; the intact ones lie on the wire one behind
\* the other, each of a size that the receiver accepts.
Laid(st) ==
    /\ st \in Seq(Nat) /\ Len(st) = intact + 1 /\ st[1] = 0
    /\ \A i \in 1 .. intact : /\ st[i + 1] = st[i] + needed + Len(sent[i])
                              /\ Fits(sent[i]) /\ Len(sent[i]) < LenLimit
                              /\ Holds(st[i], sent[i])
    /\ \A i \in 1 .. intact + 1 : st[i] <= Len(wire)

\* A frame that is not complete yet, or never will be.
Partial(a) == \E m \in Messages : /\ Fits(WireBody(m)) /\ Holds(a, WireBody(m))
                                  /\ Len(wire) < a + needed + Len(WireBody(m))

\* Without damage there is nothing behind the intact frames but the beginning of
\* the one that is being sent.
Underway(st) == ~damaged =>
    /\ intact = Len(sent)
    /\ Len(wire) = st[intact + 1] \/ Partial(st[intact + 1])
    /\ open => /\ Len(wire) = st[intact + 1] + written
               /\ \A j \in 1 .. written : wire[st[intact + 1] + j] = frame[j]

Got == Len(delivered)

\* The receiver is in a frame that was sent before any damage.
InSync == Got < intact \/ (Got = intact /\ ~damaged)

\* How much of it the RecvBuf has.
Consumed == IF rx.phase = "Idle" THEN 0
            ELSE IF rx.phase = "Len" THEN Len(rx.len_buf) ELSE needed + rx.body_filled

\* In sync the RecvBuf holds the beginning of the frame behind the last delivered one.
Received(st) == InSync =>
    /\ rpos = st[Got + 1] + Consumed
    /\ rx.phase # "Idle" => \A j \in 1 .. Len(rx.len_buf) : rx.len_buf[j] = wire[st[Got + 1] + j]
    /\ rx.phase = "Body" =>
          /\ Len(rx.len_buf) = needed /\ Len(rx.body) = PayloadLen(rx.len_buf)
          /\ \A j \in 1 .. rx.body_filled : rx.body[j] = wire[st[Got + 1] + needed + j]

\* What came out: the intact messages in order, and nothing else without damage.
Handed ==
    /\ \A i \in 1 .. Len(delivered) : i <= intact => delivered[i] = sent[i]
    /\ ~damaged => Len(delivered) <= intact
    /\ rejected => damaged

Framed(st) == Laid(st) /\ Underway(st) /\ Received(st)

IInv == Types /\ Sending /\ Handed /\ \E st : Framed(st)

\* Where the frames of a wire start.
LEMMA Frames ==
    ASSUME Types, NEW st, Laid(st)
    PROVE  /\ \A i \in 1 .. intact + 1 : st[i] \in Nat /\ st[i] <= Len(wire)
           /\ \A i \in 1 .. intact : sent[i] \in Bytes /\ Len(sent[i]) \in Nat
           /\ intact + 1 \in 1 .. intact + 1 /\ intact \in Nat /\ Len(wire) \in Nat
<1>1. st \in Seq(Nat) /\ Len(st) = intact + 1 /\ \A i \in 1 .. intact + 1 : st[i] <= Len(wire)
  BY DEF Laid
<1>2. sent \in Seq(Bytes) /\ intact \in Nat /\ intact <= Len(sent) /\ Len(sent) \in Nat /\ Len(wire) \in Nat
  BY TxFacts, LinkFacts DEF Types
<1>3. \A i \in 1 .. intact + 1 : st[i] \in Nat
  BY <1>1
<1>4. \A i \in 1 .. intact : sent[i] \in Bytes
  <2>1. \A i \in 1 .. intact : i \in 1 .. Len(sent)
    BY <1>2
  <2>2. \A i \in 1 .. Len(sent) : sent[i] \in Bytes
    BY <1>2
  <2> QED BY <2>1, <2>2
<1>5. \A q \in Bytes : Len(q) \in Nat
  BY DEF Bytes
<1>6. intact + 1 \in 1 .. intact + 1
  BY <1>2
<1> QED BY <1>1, <1>2, <1>3, <1>4, <1>5, <1>6

\* The counts of deliveries and of intact frames are numbers.
LEMMA GotNat == ASSUME Types PROVE Got \in Nat /\ intact \in Nat
BY TxFacts DEF Types, OutTypes, Got

\* A receiver in sync is in a frame that has a start.
LEMMA SyncedAt ==
    ASSUME Types, NEW st, Laid(st), InSync
    PROVE  /\ Got \in Nat /\ Got <= intact /\ Got + 1 \in 1 .. intact + 1
           /\ st[Got + 1] \in Nat /\ st[Got + 1] <= Len(wire)
<1>1. Got \in Nat /\ intact \in Nat
  BY GotNat
<1>2. Got <= intact /\ Got + 1 \in 1 .. intact + 1
  BY <1>1 DEF InSync
<1> QED BY <1>1, <1>2, Frames

\* A receiver is out of sync only behind the last intact frame of a damaged wire.
LEMMA OutOfSync == ASSUME Types, Handed, ~InSync PROVE damaged /\ Got >= intact
<1>1. Got \in Nat /\ intact \in Nat
  BY GotNat
<1>2. damaged
  <2>1. ASSUME ~damaged PROVE FALSE
    <3>1. Got <= intact
      BY <2>1 DEF Handed, Got
    <3>2. Got < intact \/ Got = intact
      BY <1>1, <3>1
    <3> QED BY <2>1, <3>2 DEF InSync
  <2> QED BY <2>1
<1>3. Got >= intact
  BY <1>1 DEF InSync
<1> QED BY <1>2, <1>3

\* What a complete length header says to a receiver that is in sync.
LEMMA Announced ==
    ASSUME Types, NEW st, Laid(st), Underway(st), InSync,
           NEW b \in Bytes, Len(b) = needed, st[Got + 1] + needed <= Len(wire),
           \A j \in 1 .. needed : b[j] = wire[st[Got + 1] + j]
    PROVE  /\ ~BadType(b)
           /\ \E p \in Bytes :
                 /\ PayloadLen(b) = Len(p) /\ Len(p) \in Nat /\ Fits(p) /\ Holds(st[Got + 1], p)
                 /\ \/ /\ Got < intact /\ p = sent[Got + 1]
                       /\ st[Got + 2] = st[Got + 1] + needed + Len(p)
                    \/ Len(wire) < st[Got + 1] + needed + Len(p)
<1> DEFINE a == st[Got + 1]
<1>1. Got \in Nat /\ Got <= intact /\ a \in Nat /\ intact \in Nat /\ Len(wire) \in Nat /\ needed \in Nat
  BY SyncedAt, Frames, Constants
<1>2. ASSUME NEW p \in Bytes, Len(p) \in Nat, Len(p) < LenLimit, Fits(p), Holds(a, p)
      PROVE  ~BadType(b) /\ PayloadLen(b) = Len(p)
  <2>1. Prefix(Len(p)) \in Seq(Byte) /\ Len(Prefix(Len(p))) = needed
        /\ ~BadType(Prefix(Len(p))) /\ PayloadLen(Prefix(Len(p))) = Len(p)
    BY <1>2, PrefixSays DEF Bytes, Fits
  <2>2. \A j \in 1 .. needed : a + j <= Len(wire)
    BY <1>1
  <2>3. \A j \in 1 .. needed : b[j] = Prefix(Len(p))[j]
    BY <1>2, <2>2 DEF Holds
  <2>4. b = Prefix(Len(p))
    <3> DEFINE x == Prefix(Len(p))
    <3>1. x \in Seq(Byte) /\ b \in Seq(Byte) /\ Len(b) = Len(x) /\ \A j \in 1 .. Len(b) : b[j] = x[j]
      BY <2>1, <2>3 DEF Bytes
    <3> HIDE DEF x
    <3>2. b = x
      BY <3>1, SameSeq
    <3> QED BY <3>2 DEF x
  <2> QED BY <2>1, <2>4
<1>3. CASE Got < intact
  <2>1. Got + 1 \in 1 .. intact /\ (Got + 1) + 1 = Got + 2
    BY <1>1, <1>3
  <2>2. /\ sent[Got + 1] \in Bytes /\ Len(sent[Got + 1]) \in Nat /\ Len(sent[Got + 1]) < LenLimit
        /\ Holds(a, sent[Got + 1]) /\ Fits(sent[Got + 1])
        /\ st[Got + 2] = a + needed + Len(sent[Got + 1])
    BY <2>1, Frames DEF Laid
  <2>3. ~BadType(b) /\ PayloadLen(b) = Len(sent[Got + 1])
    BY <1>2, <2>2
  <2> QED BY <1>3, <2>2, <2>3
<1>4. CASE ~(Got < intact)
  <2>1. Got = intact /\ ~damaged
    BY <1>4 DEF InSync
  <2>2. Len(wire) # a
    BY <1>1, Constants
  <2>3. Partial(a)
    BY <2>1, <2>2 DEF Underway
  <2>4. PICK m \in Messages : /\ Fits(WireBody(m)) /\ Holds(a, WireBody(m))
                              /\ Len(wire) < a + needed + Len(WireBody(m))
    BY <2>3 DEF Partial
  <2>5. WireBody(m) \in Bytes /\ Len(WireBody(m)) \in Nat /\ Len(WireBody(m)) < LenLimit
    BY PayloadBytes
  <2>6. ~BadType(b) /\ PayloadLen(b) = Len(WireBody(m))
    BY <1>2, <2>4, <2>5
  <2> QED BY <2>4, <2>5, <2>6
<1> QED BY <1>3, <1>4

\* A receiver that is in sync completes the next message, and no other.
LEMMA Completed ==
    ASSUME Types, NEW st, Laid(st), Underway(st), InSync,
           NEW b \in Bytes, Len(b) = needed,
           \A j \in 1 .. needed : b[j] = wire[st[Got + 1] + j],
           NEW body \in Bytes, Len(body) = PayloadLen(b),
           st[Got + 1] + needed + Len(body) <= Len(wire),
           \A j \in 1 .. Len(body) : body[j] = wire[st[Got + 1] + needed + j]
    PROVE  /\ Got < intact /\ body = sent[Got + 1]
           /\ st[Got + 2] = st[Got + 1] + needed + Len(body)
<1> DEFINE a == st[Got + 1]
<1>1. a \in Nat /\ Len(wire) \in Nat /\ needed \in Nat /\ Len(body) \in Nat
  <2>1. \A q \in Bytes : Len(q) \in Nat
    BY DEF Bytes
  <2> QED BY <2>1, SyncedAt, Frames, Constants
<1>2. a + needed <= Len(wire)
  BY <1>1
<1>3. PICK p \in Bytes :
         /\ PayloadLen(b) = Len(p) /\ Len(p) \in Nat /\ Holds(a, p)
         /\ \/ /\ Got < intact /\ p = sent[Got + 1]
               /\ st[Got + 2] = a + needed + Len(p)
            \/ Len(wire) < a + needed + Len(p)
  BY <1>2, Announced
<1>4. Len(body) = Len(p)
  BY <1>3
<1>5. ~(Len(wire) < a + needed + Len(p))
  BY <1>1, <1>4
<1>6. Got < intact /\ p = sent[Got + 1] /\ st[Got + 2] = a + needed + Len(p)
  BY <1>3, <1>5
<1>7. body = p
  <2>1. \A j \in 1 .. Len(p) : a + needed + j <= Len(wire)
    BY <1>1, <1>4
  <2>2. \A j \in 1 .. Len(p) : body[j] = p[j]
    BY <1>3, <1>4, <2>1 DEF Holds
  <2>3. body \in Seq(Byte) /\ p \in Seq(Byte) /\ \A j \in 1 .. Len(body) : body[j] = p[j]
    BY <1>4, <2>2 DEF Bytes
  <2> QED BY <1>4, <2>3, SameSeq
<1> QED BY <1>4, <1>6, <1>7

------------------------------------------------------------------------------
(* Steps of the receiver *)

\* Receiving does not change what is on the wire.
LEMMA RxOnlyLaid ==
    ASSUME RxOnly, NEW st, Laid(st), Underway(st)
    PROVE  Laid(st)' /\ Underway(st)'
<1>1. UNCHANGED <<frame, written, sent, damaged, intact, wire, open>>
  BY DEF RxOnly
<1>2. \A a, p : Holds(a, p)' <=> Holds(a, p)
  BY <1>1 DEF Holds
<1>3. \A a : Partial(a)' <=> Partial(a)
  BY <1>1, <1>2 DEF Partial
<1>4. Laid(st)'
  BY <1>1, <1>2 DEF Laid, Fits
<1>5. Underway(st)'
  BY <1>1, <1>3 DEF Underway
<1> QED BY <1>4, <1>5

\* Steps that receive nothing keep the receiver in sync.
LEMMA QuietStep ==
    ASSUME RxOnly, UNCHANGED <<rpos, rx, delivered, rejected>>, Handed, NEW st, Framed(st)
    PROVE  Handed' /\ Framed(st)'
<1>1. UNCHANGED <<damaged, intact, wire, sent>> /\ UNCHANGED <<rpos, rx, delivered, rejected>>
  BY DEF RxOnly
<1>2. Laid(st)' /\ Underway(st)'
  BY RxOnlyLaid DEF Framed
<1>3. Received(st)'
  BY <1>1 DEF Framed, Received, InSync, Got, Consumed
<1>4. Handed'
  BY <1>1 DEF Handed
<1> QED BY <1>2, <1>3, <1>4 DEF Framed

\* A new or a resumed receive goes on where the RecvBuf stands.
LEMMA RecvStep ==
    ASSUME Types, Handed, NEW st, Framed(st), NEW mode, Recv(mode)
    PROVE  Handed' /\ Framed(st)'
<1>1. RxOnly /\ UNCHANGED <<rpos, delivered, rejected>>
  BY DEF Recv, RxOnly, txvars, linkvars
<1>2. CASE rx.phase # "Idle"
  <2>1. UNCHANGED <<rpos, rx, delivered, rejected>>
    BY <1>1, <1>2 DEF Recv
  <2> QED BY <1>1, <2>1, QuietStep
<1>3. CASE rx.phase = "Idle"
  <2>1. rx'.phase = "Len" /\ rx'.len_buf = <<>> /\ Len(<<>>) = 0
    BY <1>3 DEF Recv, Types, RxTypes
  <2>2. UNCHANGED <<damaged, intact, wire, sent>>
    BY <1>1 DEF RxOnly
  <2>3. Consumed' = 0 /\ Consumed = 0
    BY <1>3, <2>1 DEF Consumed
  <2>4. Received(st)'
    <3>1. InSync' => InSync
      BY <1>1, <2>2 DEF InSync, Got
    <3>2. InSync' => rpos' = st[Got + 1]' + Consumed'
      BY <1>1, <2>3, <3>1 DEF Framed, Received, Got
    <3>3. \A j \in 1 .. Len(rx'.len_buf) : FALSE
      BY <2>1
    <3> QED BY <2>1, <3>2, <3>3 DEF Received
  <2>5. Handed'
    BY <1>1, <2>2 DEF Handed
  <2> QED BY <1>1, <2>4, <2>5, RxOnlyLaid DEF Framed
<1> QED BY <1>2, <1>3

\* The length header after a read, seen from the start of the frame.
LEMMA HeaderSeen ==
    ASSUME Types, NEW st, Framed(st), InSync, rx.phase = "Len", NEW n \in 1 .. Available
    PROVE  /\ \A j \in 1 .. Len(rx.len_buf) + n : (rx.len_buf \o Chunk(n))[j] = wire[st[Got + 1] + j]
           /\ rpos + n = st[Got + 1] + (Len(rx.len_buf) + n) /\ rpos + n <= Len(wire)
<1> DEFINE a == st[Got + 1]
           l == Len(rx.len_buf)
           b == rx.len_buf \o Chunk(n)
<1>1. a \in Nat /\ l \in Nat /\ n \in Nat /\ rpos \in Nat /\ rpos + n <= Len(wire)
  BY SyncedAt, RxFacts, ChunkBytes, LinkFacts DEF Types, Framed
<1>2. rpos = a + l /\ \A j \in 1 .. l : rx.len_buf[j] = wire[a + j]
  BY DEF Framed, Received, Consumed
<1>3. /\ \A j \in 1 .. l : b[j] = rx.len_buf[j]
      /\ \A j \in 1 .. n : b[l + j] = wire[rpos + j]
  BY HeaderBytes DEF Types
<1> HIDE DEF a, b, l
<1>4. ASSUME NEW j \in 1 .. l + n PROVE b[j] = wire[a + j]
  <2>1. CASE j <= l
    <3>1. j \in 1 .. l
      BY <1>1, <2>1
    <3> QED BY <1>2, <1>3, <3>1
  <2>2. CASE j > l
    <3>1. j - l \in 1 .. n /\ l + (j - l) = j /\ rpos + (j - l) = a + j
      BY <1>1, <1>2, <2>2
    <3> QED BY <1>3, <3>1
  <2>3. j <= l \/ j > l
    BY <1>1
  <2> QED BY <2>1, <2>2, <2>3
<1>5. rpos + n = a + (l + n)
  BY <1>1, <1>2
<1> QED BY <1>1, <1>4, <1>5 DEF a, b, l

\* A part of the prefix, read in sync, is that part of the frame's prefix.
LEMMA ReadLenStep ==
    ASSUME Types, Sending, Handed, NEW st, Framed(st), NEW n, ReadLen(n)
    PROVE  Handed' /\ Framed(st)'
<1>1. /\ RxOnly /\ n \in 1 .. Available /\ rpos' = rpos + n
      /\ UNCHANGED <<delivered, rejected>> /\ rx.phase = "Len" /\ rx'.phase = "Len"
      /\ rx'.len_buf = rx.len_buf \o Chunk(n)
  BY ReadLenTypes
<1>2. UNCHANGED <<damaged, intact, wire, sent>>
  BY <1>1 DEF RxOnly
<1>3. Len(rx'.len_buf) = Len(rx.len_buf) + n
  BY <1>1, HeaderBytes DEF Types
<1>4. InSync' = InSync /\ Got' = Got
  BY <1>1, <1>2 DEF InSync, Got
<1>5. Consumed' = Len(rx.len_buf) + n
  BY <1>1, <1>3 DEF Consumed
<1>6. Received(st)'
  <2>1. ASSUME InSync
        PROVE  /\ rpos' = st[Got' + 1] + Consumed'
               /\ \A j \in 1 .. Len(rx'.len_buf) : rx'.len_buf[j] = wire'[st[Got' + 1] + j]
    BY <1>1, <1>2, <1>3, <1>4, <1>5, <2>1, HeaderSeen
  <2> QED BY <1>1, <1>4, <2>1 DEF Received
<1>7. Handed'
  BY <1>1, <1>2 DEF Handed
<1> QED BY <1>1, <1>6, <1>7, RxOnlyLaid DEF Framed

\* A refusal means damage: the receiver was not in sync.
LEMMA ReadLenRefusedStep ==
    ASSUME Types, Sending, Handed, NEW st, Framed(st), NEW n, ReadLenRefused(n)
    PROVE  Handed' /\ Framed(st)'
<1> DEFINE b == rx.len_buf \o Chunk(n)
<1>1. LenFilled(n) /\ (BadType(b) \/ PayloadLen(b) > MAX_FRAME_BYTES) /\ UNCHANGED delivered
  BY DEF ReadLenRefused
<1>2. /\ RxOnly /\ n \in 1 .. Available /\ rx.phase = "Len" /\ b \in Bytes /\ Len(b) = needed
      /\ Len(rx.len_buf) + n = needed
  BY <1>1, FilledHeader
<1>3. UNCHANGED <<damaged, intact, wire, sent>>
  BY <1>2 DEF RxOnly
<1>4. ~InSync
  <2>1. ASSUME InSync PROVE FALSE
    <3>1. /\ \A j \in 1 .. needed : b[j] = wire[st[Got + 1] + j]
          /\ st[Got + 1] + needed <= Len(wire)
      BY <1>2, <2>1, HeaderSeen
    <3>2. ~BadType(b) /\ \E p \in Bytes : PayloadLen(b) = Len(p) /\ Len(p) \in Nat /\ Fits(p)
      BY <1>2, <2>1, <3>1, Announced DEF Framed
    <3>3. ~(PayloadLen(b) > MAX_FRAME_BYTES)
      BY <3>2, Constants DEF Fits
    <3> QED BY <1>1, <3>2, <3>3
  <2> QED BY <2>1
<1>5. damaged
  BY <1>4, OutOfSync
<1>6. ~InSync'
  BY <1>1, <1>3, <1>4 DEF InSync, Got
<1>7. Received(st)'
  BY <1>6 DEF Received
<1>8. Handed'
  BY <1>1, <1>3, <1>5 DEF Handed
<1> QED BY <1>2, <1>7, <1>8, RxOnlyLaid DEF Framed

\* A prefix read in sync announces the length of the payload that was sent.
LEMMA ReadLenBodyStep ==
    ASSUME Types, Sending, Handed, NEW st, Framed(st), NEW n, ReadLenBody(n)
    PROVE  Handed' /\ Framed(st)'
<1> DEFINE b == rx.len_buf \o Chunk(n)
<1>1. LenFilled(n)
  BY DEF ReadLenBody
<1>2. /\ RxOnly /\ n \in 1 .. Available /\ rx.phase = "Len" /\ b \in Bytes /\ Len(b) = needed
      /\ Len(rx.len_buf) + n = needed /\ rpos' = rpos + n
  BY <1>1, FilledHeader
<1>3. /\ UNCHANGED <<delivered, rejected>> /\ rx'.phase = "Body" /\ rx'.len_buf = b
      /\ Len(rx'.body) = PayloadLen(b) /\ rx'.body_filled = 0
  BY ReadLenBodyTypes
<1>4. UNCHANGED <<damaged, intact, wire, sent>>
  BY <1>2 DEF RxOnly
<1>5. InSync' = InSync /\ Got' = Got
  BY <1>3, <1>4 DEF InSync, Got
<1>6. Consumed' = needed
  BY <1>3, Constants DEF Consumed
<1>7. Received(st)'
  <2>1. ASSUME InSync
        PROVE  /\ rpos' = st[Got' + 1] + Consumed'
               /\ \A j \in 1 .. Len(rx'.len_buf) : rx'.len_buf[j] = wire'[st[Got' + 1] + j]
    BY <1>2, <1>3, <1>4, <1>5, <1>6, <2>1, HeaderSeen
  <2>2. \A j \in 1 .. rx'.body_filled : FALSE
    BY <1>3
  <2>3. Len(rx'.len_buf) = needed /\ Len(rx'.body) = PayloadLen(rx'.len_buf)
    BY <1>2, <1>3
  <2> QED BY <1>3, <1>5, <2>1, <2>2, <2>3 DEF Received
<1>8. Handed'
  BY <1>3, <1>4 DEF Handed
<1> QED BY <1>2, <1>7, <1>8, RxOnlyLaid DEF Framed

\* A message leaves the receiver: if it is in sync, the next one that was sent.
LEMMA DeliverStep ==
    ASSUME Types, Handed, NEW st, Framed(st), RxOnly, NEW body \in Bytes,
           delivered' = Append(delivered, body), UNCHANGED rejected, rx'.phase = "Idle",
           InSync => Got < intact /\ body = sent[Got + 1] /\ st[Got + 2] = rpos'
    PROVE  Handed' /\ Framed(st)'
<1>1. UNCHANGED <<damaged, intact, wire, sent>>
  BY DEF RxOnly
<1>2. Got \in Nat /\ intact \in Nat
  BY GotNat
<1>3. /\ Got' = Got + 1 /\ \A j \in 1 .. Got : delivered'[j] = delivered[j]
      /\ delivered'[Got + 1] = body
  <2>1. delivered \in Seq(Bytes)
    BY DEF Types, OutTypes
  <2>2. /\ Len(Append(delivered, body)) = Len(delivered) + 1
        /\ \A j \in 1 .. Len(delivered) : Append(delivered, body)[j] = delivered[j]
        /\ Append(delivered, body)[Len(delivered) + 1] = body
    BY <2>1, AppendSeq
  <2> QED BY <2>2 DEF Got
<1>4. Got < intact => InSync
  BY DEF InSync
<1>5. Received(st)'
  <2>1. ASSUME InSync' PROVE rpos' = st[Got' + 1] + Consumed'
    <3>1. Got + 1 <= intact
      BY <1>1, <1>2, <1>3, <2>1 DEF InSync
    <3>2. InSync
      BY <1>2, <1>4, <3>1
    <3>3. Consumed' = 0
      BY DEF Consumed
    <3>4. Got' + 1 = Got + 2
      BY <1>2, <1>3
    <3>5. st[Got + 2] = rpos'
      BY <3>2
    <3>6. rpos' \in Nat
      <4>1. Got + 2 \in 1 .. intact + 1
        BY <1>2, <3>1
      <4> QED BY <3>5, <4>1, Frames DEF Framed
    <3> QED BY <3>3, <3>4, <3>5, <3>6
  <2> QED BY <2>1 DEF Received
<1>6. Handed'
  <2>1. ASSUME NEW i \in 1 .. Got + 1, i <= intact PROVE delivered'[i] = sent[i]
    <3>1. CASE i \in 1 .. Got
      BY <1>3, <2>1, <3>1 DEF Handed, Got
    <3>2. CASE i \notin 1 .. Got
      <4>1. i = Got + 1
        BY <1>2, <3>2
      <4>2. InSync
        BY <1>2, <1>4, <2>1, <4>1
      <4> QED BY <1>3, <4>1, <4>2
    <3> QED BY <3>1, <3>2
  <2>2. ASSUME ~damaged PROVE Got + 1 <= intact
    <3>1. InSync
      BY <2>2, OutOfSync
    <3> QED BY <1>2, <3>1
  <2>3. rejected' => damaged'
    BY <1>1 DEF Handed
  <2>4. Len(delivered') = Got + 1
    BY <1>3 DEF Got
  <2> QED BY <1>1, <2>1, <2>2, <2>3, <2>4 DEF Handed
<1> QED BY <1>5, <1>6, RxOnlyLaid DEF Framed

\* ... also if there is none, and the receiver is at the start of the next frame.
LEMMA ReadLenEmptyStep ==
    ASSUME Types, Sending, Handed, NEW st, Framed(st), NEW n, ReadLenEmpty(n)
    PROVE  Handed' /\ Framed(st)'
<1> DEFINE b == rx.len_buf \o Chunk(n)
<1>1. LenFilled(n)
  BY DEF ReadLenEmpty
<1>2. /\ RxOnly /\ n \in 1 .. Available /\ rx.phase = "Len" /\ b \in Bytes /\ Len(b) = needed
      /\ Len(rx.len_buf) + n = needed /\ rpos' = rpos + n
  BY <1>1, FilledHeader
<1>3. /\ UNCHANGED rejected /\ rx'.phase = "Idle" /\ PayloadLen(b) = 0
      /\ delivered' = Append(delivered, <<>>)
  BY ReadLenEmptyTypes
<1>4. <<>> \in Bytes /\ Len(<<>>) = 0
  BY DEF Bytes
<1>5. ASSUME InSync PROVE Got < intact /\ <<>> = sent[Got + 1] /\ st[Got + 2] = rpos'
  <2>1. /\ \A j \in 1 .. needed : b[j] = wire[st[Got + 1] + j]
        /\ rpos + n = st[Got + 1] + needed /\ rpos + n <= Len(wire)
    BY <1>2, <1>5, HeaderSeen
  <2>2. st[Got + 1] \in Nat /\ needed \in Nat
    BY <1>5, SyncedAt, Constants DEF Framed
  <2>3. st[Got + 1] + needed + Len(<<>>) = rpos + n
    BY <1>4, <2>1, <2>2
  <2>4. \A j \in 1 .. Len(<<>>) : <<>>[j] = wire[st[Got + 1] + needed + j]
    BY <1>4
  <2>5. st[Got + 1] + needed + Len(<<>>) <= Len(wire)
    BY <2>1, <2>3
  <2>6. Len(<<>>) = PayloadLen(b)
    BY <1>3, <1>4
  <2>7. Laid(st) /\ Underway(st)
    BY DEF Framed
  <2> HIDE DEF b
  <2>8. /\ Got < intact /\ <<>> = sent[Got + 1] /\ st[Got + 2] = st[Got + 1] + needed + Len(<<>>)
    BY <1>2, <1>4, <1>5, <2>1, <2>4, <2>5, <2>6, <2>7, Completed
  <2> QED BY <1>2, <2>3, <2>8
<1> QED BY <1>2, <1>3, <1>4, <1>5, DeliverStep

\* The body after a read, seen from the start of the frame.
LEMMA BodySeen ==
    ASSUME Types, NEW st, Framed(st), InSync, rx.phase = "Body", NEW n \in 1 .. Available,
           rx.body_filled + n <= Len(rx.body)
    PROVE  /\ \A j \in 1 .. rx.body_filled + n : Filled(n)[j] = wire[st[Got + 1] + needed + j]
           /\ rpos + n = st[Got + 1] + needed + (rx.body_filled + n) /\ rpos + n <= Len(wire)
<1> DEFINE a == st[Got + 1]
           f == rx.body_filled
<1>1. a \in Nat /\ f \in Nat /\ n \in Nat /\ rpos \in Nat /\ needed \in Nat /\ rpos + n <= Len(wire)
  BY SyncedAt, RxFacts, ChunkBytes, LinkFacts, Constants DEF Types, Framed
<1>2. rpos = a + (needed + f) /\ \A j \in 1 .. f : rx.body[j] = wire[a + needed + j]
  BY DEF Framed, Received, Consumed
<1>3. /\ \A j \in 1 .. f : Filled(n)[j] = rx.body[j]
      /\ \A j \in 1 .. n : Filled(n)[f + j] = wire[rpos + j]
  BY FilledBytes DEF Types
<1> HIDE DEF a, f
<1>4. ASSUME NEW j \in 1 .. f + n PROVE Filled(n)[j] = wire[a + needed + j]
  <2>1. CASE j <= f
    <3>1. j \in 1 .. f
      BY <1>1, <2>1
    <3> QED BY <1>2, <1>3, <3>1
  <2>2. CASE j > f
    <3>1. j - f \in 1 .. n /\ f + (j - f) = j /\ rpos + (j - f) = a + needed + j
      BY <1>1, <1>2, <2>2
    <3> QED BY <1>3, <3>1
  <2>3. j <= f \/ j > f
    BY <1>1
  <2> QED BY <2>1, <2>2, <2>3
<1>5. rpos + n = a + needed + (f + n)
  BY <1>1, <1>2
<1> QED BY <1>1, <1>4, <1>5 DEF a, f

\* A body read in sync is the payload that was sent, and the receiver is at the start of
\* the next frame.
LEMMA ReadBodyStep ==
    ASSUME Types, Sending, Handed, NEW st, Framed(st), NEW n, ReadBody(n)
    PROVE  Handed' /\ Framed(st)'
<1>1. /\ RxOnly /\ UNCHANGED rejected /\ n \in 1 .. Available /\ rpos' = rpos + n
      /\ rx.phase = "Body" /\ rx.body_filled + n <= Len(rx.body)
  BY ReadBodyTypes
<1>2. Filled(n) \in Bytes /\ Len(Filled(n)) = Len(rx.body)
  BY <1>1, FilledBytes DEF Types
<1>3. CASE rx.body_filled + n = Len(rx.body)
  <2>1. rx'.phase = "Idle" /\ delivered' = Append(delivered, Filled(n))
    BY <1>3, ReadBodyTypes
  <2>2. ASSUME InSync PROVE Got < intact /\ Filled(n) = sent[Got + 1] /\ st[Got + 2] = rpos'
    <3>1. /\ \A j \in 1 .. Len(Filled(n)) : Filled(n)[j] = wire[st[Got + 1] + needed + j]
          /\ rpos + n = st[Got + 1] + needed + Len(Filled(n)) /\ rpos + n <= Len(wire)
      BY <1>1, <1>2, <1>3, <2>2, BodySeen
    <3>2. /\ rx.len_buf \in Bytes /\ Len(rx.len_buf) = needed /\ Len(Filled(n)) = PayloadLen(rx.len_buf)
          /\ \A j \in 1 .. needed : rx.len_buf[j] = wire[st[Got + 1] + j]
      BY <1>1, <1>2, <2>2, RxFacts DEF Types, Framed, Received
    <3>3. Laid(st) /\ Underway(st)
      BY DEF Framed
    <3>4. st[Got + 1] + needed + Len(Filled(n)) <= Len(wire)
      BY <3>1
    <3>5. /\ Got < intact /\ Filled(n) = sent[Got + 1]
          /\ st[Got + 2] = st[Got + 1] + needed + Len(Filled(n))
      BY <1>2, <2>2, <3>1, <3>2, <3>3, <3>4, Completed
    <3> QED BY <1>1, <3>1, <3>5
  <2> QED BY <1>1, <1>2, <2>1, <2>2, DeliverStep
<1>4. CASE rx.body_filled + n # Len(rx.body)
  <2>1. /\ rx'.phase = "Body" /\ rx'.len_buf = rx.len_buf /\ rx'.body = Filled(n)
        /\ rx'.body_filled = rx.body_filled + n /\ UNCHANGED delivered
    BY <1>4, ReadBodyTypes
  <2>2. UNCHANGED <<damaged, intact, wire, sent>>
    BY <1>1 DEF RxOnly
  <2>3. InSync' = InSync /\ Got' = Got
    BY <2>1, <2>2 DEF InSync, Got
  <2>4. Consumed' = needed + (rx.body_filled + n)
    BY <2>1 DEF Consumed
  <2>5. ASSUME InSync
        PROVE  /\ rpos' = st[Got' + 1] + Consumed'
               /\ \A j \in 1 .. rx'.body_filled : rx'.body[j] = wire'[st[Got' + 1] + needed + j]
    <3>1. /\ \A j \in 1 .. rx.body_filled + n : Filled(n)[j] = wire[st[Got + 1] + needed + j]
          /\ rpos + n = st[Got + 1] + needed + (rx.body_filled + n)
      BY <1>1, <2>5, BodySeen
    <3>2. st[Got + 1] \in Nat /\ needed \in Nat /\ rx.body_filled \in Nat /\ n \in Nat
      BY <1>1, <2>5, SyncedAt, Constants, RxFacts, ChunkBytes DEF Framed, Types
    <3>3. rpos' = st[Got + 1] + (needed + (rx.body_filled + n))
      BY <1>1, <3>1, <3>2
    <3> QED BY <2>1, <2>2, <2>3, <2>4, <3>1, <3>3
  <2>6. ASSUME InSync
        PROVE  /\ \A j \in 1 .. Len(rx'.len_buf) : rx'.len_buf[j] = wire'[st[Got' + 1] + j]
               /\ Len(rx'.len_buf) = needed /\ Len(rx'.body) = PayloadLen(rx'.len_buf)
    BY <1>1, <1>2, <2>1, <2>2, <2>3, <2>6 DEF Framed, Received
  <2>7. Received(st)'
    BY <2>1, <2>3, <2>5, <2>6 DEF Received
  <2>8. Handed'
    BY <1>1, <2>1, <2>2 DEF Handed
  <2> QED BY <1>1, <2>7, <2>8, RxOnlyLaid DEF Framed
<1> QED BY <1>3, <1>4

------------------------------------------------------------------------------
(* Steps of the sender *)

\* What every step of the sender leaves alone.
TxOnly == UNCHANGED <<rpos, rx, delivered, rejected>>

\* The beginning of the wire is what it was.
WireGrows == /\ wire' \in Bytes /\ Len(wire') >= Len(wire) /\ Len(wire') \in Nat
             /\ \A j \in 1 .. Len(wire) : wire'[j] = wire[j]

\* A complete frame stays on the wire.
LEMMA HoldsStill ==
    ASSUME Types, WireGrows, NEW a \in Nat, NEW p \in Bytes, Holds(a, p),
           a + needed + Len(p) <= Len(wire)
    PROVE  Holds(a, p)'
<1>1. Len(p) \in Nat /\ needed \in Nat /\ Len(wire) \in Nat
  BY Constants, LinkFacts DEF Types, Bytes
<1>2. \A j \in 1 .. needed : a + j \in 1 .. Len(wire) /\ a + j <= Len(wire)
  BY <1>1
<1>3. \A j \in 1 .. Len(p) : a + needed + j \in 1 .. Len(wire) /\ a + needed + j <= Len(wire)
  BY <1>1
<1>4. \A j \in 1 .. needed : wire'[a + j] = Prefix(Len(p))[j]
  BY <1>2 DEF Holds, WireGrows
<1>5. \A j \in 1 .. Len(p) : wire'[a + needed + j] = p[j]
  BY <1>3 DEF Holds, WireGrows
<1> QED BY <1>4, <1>5 DEF Holds

\* ... and so do all of them.
LEMMA LaidStill ==
    ASSUME Types, WireGrows, NEW st, Laid(st), NEW i \in 1 .. intact, sent'[i] = sent[i]
    PROVE  Holds(st[i], sent[i])'
<1>1. intact \in Nat
  BY GotNat
<1>2. i \in 1 .. intact + 1 /\ i + 1 \in 1 .. intact + 1
  BY <1>1
<1>3. /\ st[i] \in Nat /\ sent[i] \in Bytes /\ st[i + 1] <= Len(wire)
      /\ st[i + 1] = st[i] + needed + Len(sent[i]) /\ Holds(st[i], sent[i])
  BY <1>2, Frames DEF Laid
<1>4. \A p : p = sent[i] => Holds(st[i], p)'
  BY <1>3, HoldsStill
<1> QED BY <1>4 DEF Holds

\* The receiver does not see what is written behind its read position.
LEMMA ReceivedStill ==
    ASSUME Types, TxOnly, WireGrows, NEW st, Laid(st), Received(st), NEW ts,
           InSync' => InSync, \A i \in 1 .. intact + 1 : ts[i] = st[i]
    PROVE  Received(ts)'
<1>1. UNCHANGED <<rpos, rx, delivered>>
  BY DEF TxOnly
<1>2. SUFFICES ASSUME InSync'
               PROVE  /\ rpos' = ts[Got' + 1] + Consumed'
                      /\ rx'.phase # "Idle" => \A j \in 1 .. Len(rx'.len_buf) : rx'.len_buf[j] = wire'[ts[Got' + 1] + j]
                      /\ rx'.phase = "Body" =>
                            /\ Len(rx'.len_buf) = needed /\ Len(rx'.body) = PayloadLen(rx'.len_buf)
                            /\ \A j \in 1 .. rx'.body_filled : rx'.body[j] = wire'[ts[Got' + 1] + needed + j]
  BY DEF Received
<1> DEFINE a == st[Got + 1]
<1>3. InSync
  BY <1>2
<1>4. Got' = Got /\ ts[Got + 1] = a /\ a \in Nat /\ Consumed' = Consumed
  BY <1>1, <1>3, SyncedAt DEF Got, Consumed
<1>5. /\ rpos = a + Consumed /\ rpos <= Len(wire) /\ Len(wire) \in Nat
      /\ rx.phase # "Idle" => \A j \in 1 .. Len(rx.len_buf) : rx.len_buf[j] = wire[a + j]
      /\ rx.phase = "Body" =>
            /\ Len(rx.len_buf) = needed /\ Len(rx.body) = PayloadLen(rx.len_buf)
            /\ \A j \in 1 .. rx.body_filled : rx.body[j] = wire[a + needed + j]
  BY <1>3, LinkFacts DEF Types, Received
<1>6. Len(rx.len_buf) \in Nat /\ rx.body_filled \in Nat /\ needed \in Nat /\ rx.phase \in {"Idle", "Len", "Body"}
  BY RxFacts, Constants DEF Types
<1> HIDE DEF a
<1>7. rx.phase = "Len" => Consumed = Len(rx.len_buf)
  BY DEF Consumed
<1>8. rx.phase = "Body" => Consumed = needed + rx.body_filled
  BY DEF Consumed
<1>9. rx.phase # "Idle" => \A j \in 1 .. Len(rx.len_buf) : a + j \in 1 .. Len(wire)
  <2>1. CASE rx.phase = "Len"
    BY <1>4, <1>5, <1>6, <1>7, <2>1
  <2>2. CASE rx.phase = "Body"
    BY <1>4, <1>5, <1>6, <1>8, <2>2
  <2> QED BY <1>6, <2>1, <2>2
<1>10. rx.phase = "Body" => \A j \in 1 .. rx.body_filled : a + needed + j \in 1 .. Len(wire)
  BY <1>4, <1>5, <1>6, <1>8
<1>11. rx.phase # "Idle" => \A j \in 1 .. Len(rx.len_buf) : rx.len_buf[j] = wire'[a + j]
  BY <1>5, <1>9 DEF WireGrows
<1>12. rx.phase = "Body" => \A j \in 1 .. rx.body_filled : rx.body[j] = wire'[a + needed + j]
  BY <1>5, <1>10 DEF WireGrows
<1> QED BY <1>1, <1>4, <1>5, <1>11, <1>12

\* Steps that write nothing.
LEMMA SilentStep ==
    ASSUME Types, Handed, NEW st, Framed(st), TxOnly, UNCHANGED <<sent, intact, wire>>,
           damaged => damaged', Underway(st)'
    PROVE  Handed' /\ Framed(st)'
<1>1. UNCHANGED <<rpos, rx, delivered, rejected>>
  BY DEF TxOnly
<1>2. \A a, p : Holds(a, p)' <=> Holds(a, p)
  BY DEF Holds
<1>3. Laid(st)'
  BY <1>2 DEF Framed, Laid, Fits
<1>4. InSync' => InSync
  BY <1>1 DEF InSync, Got
<1>5. Received(st)'
  <2>1. Got' = Got /\ Consumed' = Consumed
    BY <1>1 DEF Got, Consumed
  <2> QED BY <1>1, <1>4, <2>1 DEF Framed, Received
<1>6. Handed'
  BY <1>1 DEF Handed
<1> QED BY <1>3, <1>5, <1>6 DEF Framed

\* Starting a send puts nothing on the wire.
LEMMA SendStep ==
    ASSUME Types, Handed, NEW st, Framed(st), NEW m, Send(m)
    PROVE  Handed' /\ Framed(st)'
<1>1. /\ frame = <<>> /\ written' = 0 /\ UNCHANGED <<sent, intact, wire>> /\ UNCHANGED open /\ TxOnly
      /\ damaged' = (damaged \/ Len(WireBody(m)) > MAX_FRAME_BYTES)
  BY DEF Send, TxOnly, linkvars
<1>2. written = 0
  BY <1>1, TxFacts DEF Types
<1>3. damaged => damaged'
  BY <1>1
<1>4. Underway(st)'
  <2>1. \A a : Partial(a)' <=> Partial(a)
    BY <1>1 DEF Partial, Holds
  <2>2. \A j \in 1 .. written' : FALSE
    BY <1>1
  <2>3. ~damaged' => (Len(wire) = st[intact + 1] \/ Partial(st[intact + 1]))'
    BY <1>1, <1>3, <2>1 DEF Framed, Underway
  <2>4. ~damaged' => intact' = Len(sent') /\ (open' => Len(wire') = st[intact' + 1] + written')
    BY <1>1, <1>2, <1>3 DEF Framed, Underway
  <2> QED BY <2>2, <2>3, <2>4 DEF Underway
<1> QED BY <1>1, <1>3, <1>4, SilentStep

\* A send dropped before its first byte damages nothing; one dropped later is damage.
LEMMA AbandonStep ==
    ASSUME Types, Handed, NEW st, Framed(st), AbandonSend
    PROVE  Handed' /\ Framed(st)'
<1>1. /\ written' = 0 /\ UNCHANGED <<sent, intact, wire>> /\ UNCHANGED open /\ TxOnly
      /\ damaged' = (damaged \/ (open /\ written > 0))
  BY DEF AbandonSend, TxOnly, linkvars
<1>2. damaged => damaged'
  BY <1>1
<1>3. ~damaged' /\ open => written = 0
  <2>1. written > 0 \/ written = 0
    BY TxFacts DEF Types
  <2> QED BY <1>1, <2>1
<1>4. Underway(st)'
  <2>1. \A a : Partial(a)' <=> Partial(a)
    BY <1>1 DEF Partial, Holds
  <2>2. \A j \in 1 .. written' : FALSE
    BY <1>1
  <2>3. ~damaged' => (Len(wire) = st[intact + 1] \/ Partial(st[intact + 1]))'
    BY <1>1, <1>2, <2>1 DEF Framed, Underway
  <2>4. ~damaged' => intact' = Len(sent') /\ (open' => Len(wire') = st[intact' + 1] + written')
    BY <1>1, <1>2, <1>3 DEF Framed, Underway
  <2> QED BY <2>2, <2>3, <2>4 DEF Underway
<1> QED BY <1>1, <1>2, <1>4, SilentStep

\* A lost connection may leave a frame that is never completed.
LEMMA BreakStep ==
    ASSUME Types, Handed, NEW st, Framed(st), Break
    PROVE  Handed' /\ Framed(st)'
<1>1. /\ UNCHANGED <<sent, intact, wire, damaged>> /\ open' = FALSE /\ TxOnly
  BY DEF Break, TxOnly, txvars
<1>2. Underway(st)'
  <2>1. \A a : Partial(a)' <=> Partial(a)
    BY <1>1 DEF Partial, Holds
  <2>2. ~damaged' => (Len(wire) = st[intact + 1] \/ Partial(st[intact + 1]))'
    BY <1>1, <2>1 DEF Framed, Underway
  <2>3. ~damaged' => intact' = Len(sent')
    BY <1>1 DEF Framed, Underway
  <2> QED BY <1>1, <2>2, <2>3 DEF Underway
<1> QED BY <1>1, <1>2, SilentStep

\* What has been written of a frame is the beginning of it.
LEMMA HoldsWritten ==
    ASSUME NEW m \in Messages, frame = Frame(m), NEW a \in Nat, NEW l \in Nat, l <= Len(frame),
           Len(wire') = a + l, \A j \in 1 .. l : wire'[a + j] = frame[j]
    PROVE  Holds(a, WireBody(m))'
<1> DEFINE w == WireBody(m)
<1>1. /\ Len(w) \in Nat /\ needed \in Nat
      /\ \A j \in 1 .. needed : frame[j] = Prefix(Len(w))[j]
      /\ \A j \in 1 .. Len(w) : frame[needed + j] = w[j]
  BY FrameBytes, PayloadBytes, Constants
<1>2. ASSUME NEW j \in 1 .. needed, a + j <= Len(wire') PROVE wire'[a + j] = Prefix(Len(w))[j]
  <2>1. j \in 1 .. l
    BY <1>1, <1>2
  <2> QED BY <1>1, <2>1
<1>3. ASSUME NEW j \in 1 .. Len(w), a + needed + j <= Len(wire') PROVE wire'[a + needed + j] = w[j]
  <2>1. needed + j \in 1 .. l /\ a + (needed + j) = a + needed + j
    BY <1>1, <1>3
  <2>2. wire'[a + (needed + j)] = frame[needed + j]
    BY <2>1
  <2> QED BY <1>1, <2>1, <2>2
<1> HIDE DEF w
<1>4. Holds(a, w)'
  BY <1>2, <1>3 DEF Holds
<1> QED BY <1>4 DEF w

\* Writing lengthens the frame under way; the last byte of an acceptable frame makes it
\* intact and its end the start of the next one.
LEMMA WriteStep ==
    ASSUME Types, Sending, Handed, NEW st, Framed(st), NEW n, WriteSome(n)
    PROVE  Handed' /\ \E ts : Framed(ts)'
<1>1. /\ n \in 1 .. Len(frame) - written /\ frame # <<>> /\ open /\ UNCHANGED <<open, damaged>> /\ TxOnly
      /\ wire' = wire \o SubSeq(frame, written + 1, written + n)
  BY DEF WriteSome, TxOnly, linkvars
<1>2. /\ n \in Nat /\ n > 0 /\ written + n \in Nat /\ written + n <= Len(frame)
      /\ wire' \in Bytes /\ Len(wire') = Len(wire) + n
      /\ \A j \in 1 .. Len(wire) : wire'[j] = wire[j]
      /\ \A j \in 1 .. n : wire'[Len(wire) + j] = frame[written + j]
  BY <1>1, WrittenBytes DEF Types
<1>3. Laid(st) /\ Underway(st) /\ Received(st)
  BY DEF Framed
<1>4. intact \in Nat /\ Len(wire) \in Nat /\ written \in Nat /\ Len(frame) \in Nat
  BY <1>3, Frames, TxFacts DEF Types
<1>a. PICK a \in Nat : a = st[intact + 1]
  BY <1>3, Frames
<1>5. WireGrows
  <2>1. Len(wire') >= Len(wire) /\ Len(wire') \in Nat
    BY <1>2, <1>4
  <2> QED BY <1>2, <2>1 DEF WireGrows
<1>6. UNCHANGED <<rpos, rx, delivered, rejected>>
  BY <1>1 DEF TxOnly
<1>7. /\ st \in Seq(Nat) /\ Len(st) = intact + 1 /\ st[1] = 0
      /\ \A i \in 1 .. intact : /\ st[i + 1] = st[i] + needed + Len(sent[i])
                                /\ Fits(sent[i]) /\ Len(sent[i]) < LenLimit
      /\ \A i \in 1 .. intact + 1 : st[i] \in Nat /\ st[i] <= Len(wire')
  <2>1. \A x \in Nat : x <= Len(wire) => x <= Len(wire')
    BY <1>2, <1>4
  <2> QED BY <1>3, <2>1, Frames DEF Laid
<1>8. \A i \in 1 .. intact : i \in 1 .. Len(sent)
  BY <1>4, TxFacts DEF Types
\* The frame in the making, when there is no damage.
<1>9. ASSUME ~damaged
      PROVE  /\ intact = Len(sent) /\ Len(wire') = a + (written + n)
             /\ \A j \in 1 .. written + n : wire'[a + j] = frame[j]
  <2>1. /\ intact = Len(sent) /\ Len(wire) = a + written
        /\ \A j \in 1 .. written : wire[a + j] = frame[j]
    BY <1>1, <1>3, <1>9, <1>a DEF Underway
  <2>2. Len(wire') = a + (written + n)
    BY <1>2, <1>4, <2>1
  <2>3. ASSUME NEW j \in 1 .. written + n PROVE wire'[a + j] = frame[j]
    <3>1. CASE j <= written
      <4>1. j \in 1 .. written /\ a + j \in 1 .. Len(wire)
        BY <1>2, <1>4, <2>1, <3>1
      <4> QED BY <1>2, <2>1, <4>1
    <3>2. CASE j > written
      <4>1. j - written \in 1 .. n /\ Len(wire) + (j - written) = a + j /\ written + (j - written) = j
        BY <1>2, <1>4, <2>1, <3>2
      <4> QED BY <1>2, <4>1
    <3>3. j <= written \/ j > written
      BY <1>4
    <3> QED BY <3>1, <3>2, <3>3
  <2> QED BY <2>1, <2>2, <2>3
\* No new frame counts.
<1>10. ASSUME intact' = intact, \A i \in 1 .. intact : sent'[i] = sent[i], Underway(st)'
       PROVE  Handed' /\ Framed(st)'
  <2>1. Laid(st)'
    <3>1. \A i \in 1 .. intact : Holds(st[i], sent[i])'
      BY <1>3, <1>5, <1>10, LaidStill
    <3> QED BY <1>7, <1>10, <3>1 DEF Laid, Fits
  <2>2. InSync' => InSync
    BY <1>1, <1>6, <1>10 DEF InSync, Got
  <2>3. Received(st)'
    BY <1>1, <1>3, <1>5, <2>2, ReceivedStill
  <2>4. Handed'
    <3>1. \A i \in 1 .. Len(delivered) : i <= intact => i \in 1 .. intact
      BY <1>4
    <3>2. \A i \in 1 .. Len(delivered') : i <= intact' => delivered'[i] = sent'[i]
      BY <1>6, <1>10, <3>1 DEF Handed
    <3> QED BY <1>1, <1>6, <1>10, <3>2 DEF Handed
  <2> QED BY <1>10, <2>1, <2>3, <2>4 DEF Framed
<1>11. CASE written + n # Len(frame)
  <2>1. written' = written + n /\ UNCHANGED <<frame, sent, intact>>
    BY <1>11 DEF WriteSome
  <2>2. Underway(st)'
    <3>1. ASSUME ~damaged PROVE Partial(st[intact + 1])'
      <4>1. PICK m \in Messages : frame = Frame(m) /\ Fits(WireBody(m))
        BY <1>1, <3>1 DEF Sending
      <4>2. Holds(a, WireBody(m))'
        <5>1. Len(wire') = a + (written + n) /\ \A j \in 1 .. written + n : wire'[a + j] = frame[j]
          BY <1>9, <3>1
        <5> QED BY <1>2, <1>4, <4>1, <5>1, HoldsWritten
      <4>3. Len(wire') < a + needed + Len(WireBody(m))
        <5>1. Len(frame) = needed + Len(WireBody(m)) /\ Len(WireBody(m)) \in Nat /\ needed \in Nat
          BY <4>1, FrameBytes, PayloadBytes, Constants
        <5>2. Len(wire') = a + (written + n)
          BY <1>9, <3>1
        <5>3. written + n < Len(frame) /\ written \in Nat /\ n \in Nat /\ a \in Nat
          BY <1>2, <1>4, <1>11
        <5>4. \A x, w, f, b, l \in Nat : w < f /\ f = b + l => x + w < x + b + l
          OBVIOUS
        <5>5. written + n \in Nat /\ Len(frame) \in Nat
          BY <5>1, <5>3
        <5> QED BY <5>1, <5>2, <5>3, <5>4, <5>5
      <4>4. Partial(a)'
        BY <2>1, <4>1, <4>2, <4>3 DEF Partial, Fits
      <4> QED BY <1>a, <2>1, <4>4
    <3>2. ~damaged => /\ intact' = Len(sent') /\ Len(wire') = st[intact' + 1] + written'
                      /\ \A j \in 1 .. written' : wire'[st[intact' + 1] + j] = frame'[j]
      BY <1>9, <1>a, <2>1
    <3> QED BY <1>1, <3>1, <3>2 DEF Underway
  <2>3. Handed' /\ Framed(st)'
    BY <1>10, <2>1, <2>2
  <2> QED BY <2>3
<1>12. CASE written + n = Len(frame)
  <2>1. /\ frame' = <<>> /\ written' = 0
        /\ sent' = Append(sent, SubSeq(frame, needed + 1, Len(frame)))
        /\ intact' = IF damaged THEN intact ELSE intact + 1
    BY <1>12 DEF WriteSome
  <2>2. PICK m \in Messages : frame = Frame(m) /\ (damaged \/ Fits(WireBody(m)))
    BY <1>1 DEF Sending
  <2> DEFINE w == WireBody(m)
  <2>3. /\ w \in Bytes /\ Len(w) \in Nat /\ Len(w) < LenLimit
        /\ Len(frame) = needed + Len(w) /\ SubSeq(frame, needed + 1, Len(frame)) = w
    BY <2>2, FrameBytes, PayloadBytes
  <2>4. /\ \A i \in 1 .. Len(sent) : sent'[i] = sent[i]
        /\ sent'[Len(sent) + 1] = w /\ Len(sent') = Len(sent) + 1
    BY <2>1, <2>3, AppendSeq, TxFacts DEF Types
  <2>5. \A i \in 1 .. intact : sent'[i] = sent[i]
    BY <1>8, <2>4
  <2>6. CASE damaged
    <3>1. intact' = intact /\ Underway(st)'
      BY <1>1, <2>1, <2>6 DEF Underway
    <3> QED BY <1>10, <2>5, <3>1
  <2>7. CASE ~damaged
    <3>0. PICK ts : ts = Append(st, Len(wire'))
      OBVIOUS
    <3>1. intact' = intact + 1 /\ intact = Len(sent)
      BY <1>9, <2>1, <2>7
    <3>2. /\ ts \in Seq(Nat) /\ Len(ts) = intact + 2 /\ ts[intact + 2] = Len(wire')
          /\ \A i \in 1 .. intact + 1 : ts[i] = st[i]
      <4>1. Len(wire') \in Nat
        BY <1>5 DEF WireGrows
      <4>2. (intact + 1) + 1 = intact + 2
        BY <1>4
      <4>3. \A x \in Nat : /\ Append(st, x) \in Seq(Nat) /\ Len(Append(st, x)) = Len(st) + 1
                           /\ \A i \in 1 .. Len(st) : Append(st, x)[i] = st[i]
                           /\ Append(st, x)[Len(st) + 1] = x
        BY <1>7, AppendSeq
      <4> QED BY <1>7, <3>0, <4>1, <4>2, <4>3
    <3>3. Fits(w) /\ Len(wire') = a + needed + Len(w)
      <4>1. Len(wire') = a + (written + n)
        BY <1>9, <2>7
      <4>2. Len(wire') = a + needed + Len(w)
        BY <1>4, <1>12, <2>3, <4>1, Constants
      <4> QED BY <2>2, <2>7, <4>2
    <3>4. Holds(a, w)'
      <4>1. /\ Len(wire') = a + (written + n) /\ \A j \in 1 .. written + n : wire'[a + j] = frame[j]
        BY <1>9, <2>7
      <4> QED BY <1>2, <1>4, <2>2, <4>1, HoldsWritten
    <3> HIDE DEF w
    <3>5. ASSUME NEW i \in 1 .. intact + 1
          PROVE  /\ ts[i + 1] = ts[i] + needed + Len(sent'[i])
                 /\ Fits(sent'[i]) /\ Len(sent'[i]) < LenLimit /\ Holds(ts[i], sent[i])'
      <4>1. CASE i \in 1 .. intact
        <5>1. i + 1 \in 1 .. intact + 1 /\ i \in 1 .. intact + 1
          BY <1>4, <4>1
        <5>2. Holds(st[i], sent[i])'
          BY <1>3, <1>5, <2>5, <4>1, LaidStill
        <5>3. ts[i] = st[i] /\ ts[i + 1] = st[i + 1] /\ sent'[i] = sent[i]
          BY <2>5, <3>2, <4>1, <5>1
        <5> QED BY <1>7, <4>1, <5>2, <5>3
      <4>2. CASE i \notin 1 .. intact
        <5>1. i = intact + 1 /\ i + 1 = intact + 2
          BY <1>4, <4>2
        <5>2. ts[i] = a /\ ts[i + 1] = Len(wire') /\ sent'[i] = w
          BY <1>a, <2>4, <3>1, <3>2, <5>1
        <5> QED BY <2>3, <3>3, <3>4, <5>2
      <4> QED BY <4>1, <4>2
    <3>6. Laid(ts)'
      <4>1. intact' + 1 = intact + 2 /\ 1 \in 1 .. intact + 1
        BY <1>4, <3>1
      <4>2. ts[1] = 0
        BY <1>7, <3>2, <4>1
      <4>3. ASSUME NEW i \in 1 .. intact + 2 PROVE ts[i] <= Len(wire')
        <5>1. CASE i \in 1 .. intact + 1
          BY <1>7, <3>2, <5>1
        <5>2. CASE i \notin 1 .. intact + 1
          <6>1. i = intact + 2
            BY <1>4, <5>2
          <6>2. Len(wire') <= Len(wire')
            BY <1>5 DEF WireGrows
          <6> QED BY <3>2, <6>1, <6>2
        <5> QED BY <5>1, <5>2
      <4> QED BY <3>1, <3>2, <3>5, <4>1, <4>2, <4>3 DEF Laid
    <3>7. Underway(ts)'
      <4>1. intact' + 1 = intact + 2 /\ intact' = Len(sent')
        BY <1>4, <2>4, <3>1
      <4>2. Len(wire') = ts[intact' + 1] /\ Len(wire') = ts[intact' + 1] + written'
        BY <1>5, <2>1, <3>2, <4>1 DEF WireGrows
      <4>3. \A j \in 1 .. written' : FALSE
        BY <2>1
      <4> QED BY <4>1, <4>2, <4>3 DEF Underway
    <3>8. Len(delivered) <= intact /\ Got \in Nat
      BY <2>7, GotNat DEF Handed
    <3>9. InSync
      BY <1>4, <2>7, <3>8 DEF InSync, Got
    <3>10. Received(ts)'
      BY <1>1, <1>3, <1>5, <3>2, <3>9, ReceivedStill
    <3>11. Handed'
      <4>1. \A i \in 1 .. Len(delivered) : i \in 1 .. intact /\ i <= intact
        BY <1>4, <3>8 DEF Got
      <4>2. \A i \in 1 .. Len(delivered') : delivered'[i] = sent'[i]
        BY <1>6, <2>5, <4>1 DEF Handed
      <4>3. Len(delivered') <= intact'
        BY <1>4, <1>6, <3>1, <3>8 DEF Got
      <4> QED BY <1>1, <1>6, <4>2, <4>3 DEF Handed
    <3>12. Framed(ts)'
      BY <3>6, <3>7, <3>10 DEF Framed
    <3> QED BY <3>11, <3>12
  <2> QED BY <2>6, <2>7
<1> QED BY <1>11, <1>12

------------------------------------------------------------------------------
(* Every step *)

\* A stuttering step changes nothing.
LEMMA Untouched ==
    ASSUME Types, Sending, UNCHANGED vars
    PROVE  Types' /\ Sending' /\ RxOnly /\ UNCHANGED <<rpos, rx, delivered, rejected>>
<1>1. /\ UNCHANGED <<frame, written, sends, sent, damaged, intact>>
      /\ UNCHANGED <<wire, open, limit>> /\ UNCHANGED <<rx, recving>> /\ UNCHANGED <<bufs, hand>>
      /\ UNCHANGED <<rpos, delivered, rejected>>
  BY DEF vars
<1>2. RxTypes' /\ PoolTypes' /\ OutTypes' /\ RxOnly
  BY <1>1 DEF Types, RxTypes, PoolTypes, OutTypes, RxOnly
<1>3. rpos' \in 0 .. Len(wire)
  BY <1>1 DEF Types, LinkTypes
<1> QED BY <1>1, <1>2, <1>3, RxOnlyTypes

\* The invariant holds on a new connection.
LEMMA FramedInit == Init => IInv
<1> SUFFICES ASSUME Init PROVE IInv
  OBVIOUS
<1>1. <<>> \in Bytes /\ Len(<<>>) = 0 /\ <<>> \in Seq(Bytes) /\ <<>> \in Seq(Buffer)
  BY DEF Bytes
<1>2. /\ frame = <<>> /\ written = 0 /\ sends = 0 /\ sent = <<>> /\ wire = <<>> /\ rpos = 0
      /\ open = TRUE /\ limit = 0 /\ recving = "no" /\ bufs = <<>> /\ hand = <<>>
      /\ delivered = <<>> /\ rejected = FALSE /\ damaged = FALSE /\ intact = 0
  BY DEF Init
<1>3. /\ rx \in [phase : {"Idle", "Len", "Body"}, len_buf : Bytes, body : Bytes, cap : Nat, body_filled : Nat]
      /\ rx.phase = "Idle"
  <2>1. 0 \in Nat
    OBVIOUS
  <2> QED BY <1>1, <2>1 DEF Init
<1>4. Types
  <2>1. TxTypes
    <3>1. 0 \in Nat /\ 0 <= Len(<<>>) /\ 0 \in 0 .. MaxSends
      BY <1>1, Constants
    <3> QED BY <1>1, <1>2, <3>1 DEF TxTypes
  <2>2. LinkTypes
    BY <1>1, <1>2 DEF LinkTypes
  <2>3. RxTypes
    BY <1>2, <1>3 DEF RxTypes
  <2>4. PoolTypes /\ OutTypes
    <3>1. Len(<<>>) <= max_bufs /\ Len(<<>>) <= 1
      BY <1>1, Constants
    <3> QED BY <1>1, <1>2, <3>1 DEF PoolTypes, OutTypes
  <2> QED BY <2>1, <2>2, <2>3, <2>4 DEF Types
<1>5. Sending /\ Handed
  BY <1>1, <1>2 DEF Sending, Handed
<1>6. Framed(<<0>>)
  <2>1. <<0>> \in Seq(Nat) /\ Len(<<0>>) = 1 /\ <<0>>[1] = 0 /\ 0 + 1 = 1
    OBVIOUS
  <2>2. (\A i \in 1 .. 0 : FALSE) /\ (\A i \in 1 .. 1 : i = 1)
    OBVIOUS
  <2>3. Laid(<<0>>)
    BY <1>1, <1>2, <2>1, <2>2 DEF Laid
  <2>4. Underway(<<0>>)
    BY <1>1, <1>2, <2>1, <2>2 DEF Underway
  <2>5. Received(<<0>>)
    BY <1>1, <1>2, <1>3, <2>1 DEF Received, Got, Consumed
  <2> QED BY <2>3, <2>4, <2>5 DEF Framed
<1> QED BY <1>4, <1>5, <1>6 DEF IInv

\* Every step keeps it.
LEMMA FramedStep == IInv /\ [Next]_vars => IInv'
<1> SUFFICES ASSUME IInv, [Next]_vars PROVE IInv'
  OBVIOUS
<1>1. Types /\ Sending /\ Handed
  BY DEF IInv
<1>2. PICK st : Framed(st)
  BY DEF IInv
\* All steps but a write keep the frames where they are.
<1>3. ASSUME Types', Sending', Handed', Framed(st)' PROVE IInv'
  BY <1>3 DEF IInv
<1>4. ASSUME NEW m \in Messages, Send(m) PROVE IInv'
  BY <1>1, <1>2, <1>3, <1>4, SendTypes, SendStep
<1>5. ASSUME NEW n, WriteSome(n) PROVE IInv'
  <2>1. Types' /\ Sending' /\ Handed'
    BY <1>1, <1>2, <1>5, WriteTypes, WriteStep
  <2>2. \E ts : Framed(ts)'
    BY <1>1, <1>2, <1>5, WriteStep
  <2> QED BY <2>1, <2>2 DEF IInv
<1>6. CASE AbandonSend
  BY <1>1, <1>2, <1>3, <1>6, AbandonTypes, AbandonStep
<1>7. CASE Break
  BY <1>1, <1>2, <1>3, <1>7, BreakTypes, BreakStep
<1>8. ASSUME NEW mode \in {"recv", "recv_pooled"}, Recv(mode) PROVE IInv'
  BY <1>1, <1>2, <1>3, <1>8, RecvTypes, RecvStep
<1>9. ASSUME NEW n, ReadLen(n) PROVE IInv'
  BY <1>1, <1>2, <1>3, <1>9, ReadLenTypes, ReadLenStep
<1>10. ASSUME NEW n, ReadLenRefused(n) PROVE IInv'
  BY <1>1, <1>2, <1>3, <1>10, ReadLenRefusedTypes, ReadLenRefusedStep
<1>11. ASSUME NEW n, ReadLenBody(n) PROVE IInv'
  BY <1>1, <1>2, <1>3, <1>11, ReadLenBodyTypes, ReadLenBodyStep
<1>12. ASSUME NEW n, ReadLenEmpty(n) PROVE IInv'
  BY <1>1, <1>2, <1>3, <1>12, ReadLenEmptyTypes, ReadLenEmptyStep
<1>13. ASSUME NEW n, ReadBody(n) PROVE IInv'
  BY <1>1, <1>2, <1>3, <1>13, ReadBodyTypes, ReadBodyStep
<1>14. CASE ReadEof \/ CancelRecv \/ Recycle
  BY <1>1, <1>2, <1>3, <1>14, QuietTypes, QuietStep
<1>15. CASE UNCHANGED vars
  BY <1>1, <1>2, <1>3, <1>15, Untouched, QuietStep
<1> QED BY <1>4, <1>5, <1>6, <1>7, <1>8, <1>9, <1>10, <1>11, <1>12, <1>13, <1>14, <1>15
        DEF Next, Write, Read

\* It holds in every reachable state.
LEMMA IInvAlways == Spec => []IInv
BY FramedInit, FramedStep, PTL DEF Spec

------------------------------------------------------------------------------
(* Theorems *)

\* The RecvBuf never holds more than one frame of at most MAX_FRAME_BYTES, never
\* rests with a full buffer, and the pool stays within max_bufs.
THEOREM FramedTypes == Spec => []TypeOK
<1>1. IInv => TypeOK
  BY TypeParts DEF IInv
<1> QED BY <1>1, IInvAlways, PTL

\* Whatever the chunks in which bytes are written and read, and wherever recv,
\* recv_pooled and send are dropped, what was sent before any damage comes out
\* unchanged and in order, nothing else comes out without damage, and an error is
\* never the receiver's own doing.
THEOREM FramingNeverSlips == Spec => []PrefixIntact
<1>1. ASSUME IInv PROVE PrefixIntact
  <2>1. Handed /\ intact <= Len(sent) /\ intact \in Nat /\ Len(sent) \in Nat /\ Len(delivered) \in Nat
    BY <1>1, TxFacts, GotNat DEF IInv, Types, Got
  <2>2. ~damaged => Len(delivered) <= Len(sent)
    BY <2>1 DEF Handed
  <2> QED BY <2>1, <2>2 DEF Handed, PrefixIntact
<1> QED BY <1>1, IInvAlways, PTL

\* While a body is read its length header is the one that was accepted.
Announces == rx.phase = "Body" => Declared(rx.len_buf) <= MAX_FRAME_BYTES

\* With a usize as wide as the length field recv compares what the sender declared.
LEMMA WideUsize ==
    ASSUME LenLimit <= UsizeLimit, NEW b \in Bytes, Len(b) = needed
    PROVE  PayloadLen(b) = Declared(b)
<1>1. \A q \in Seq(Byte) : Len(q) = LenBytes => FromBe(q) \in Nat /\ FromBe(q) < UsizeLimit
  <2>1. \A q \in Seq(Byte) : q \in [1 .. Len(q) -> Byte]
    OBVIOUS
  <2> QED BY <2>1, LengthField, Constants
<1>2. CASE Format = "Ipc"
  <2>1. \A q \in Seq(Byte) : Len(q) = LenBytes + 1 => Tail(q) \in Seq(Byte) /\ Len(Tail(q)) = LenBytes
    BY Constants
  <2>2. Tail(b) \in Seq(Byte) /\ Len(Tail(b)) = LenBytes
    BY <1>2, <2>1 DEF Bytes, needed
  <2> QED BY <1>1, <1>2, <2>2, UsizeHolds DEF PayloadLen, Declared
<1>3. CASE Format # "Ipc"
  BY <1>1, <1>3, UsizeHolds DEF PayloadLen, Declared, needed, Bytes
<1> QED BY <1>2, <1>3

\* A header that completes to an accepted length declared no more than the limit.
LEMMA Accepted ==
    ASSUME LenLimit <= UsizeLimit, Types, NEW n, LenFilled(n),
           PayloadLen(rx.len_buf \o Chunk(n)) <= MAX_FRAME_BYTES
    PROVE  Declared(rx.len_buf \o Chunk(n)) <= MAX_FRAME_BYTES
BY FilledHeader, WideUsize

\* One step: the header of a frame in progress, and of a frame that is handed out.
LEMMA AnnouncesStep ==
    ASSUME LenLimit <= UsizeLimit, IInv, Announces, [Next]_vars
    PROVE  /\ Announces'
           /\ delivered' # delivered => Declared(rx'.len_buf) <= MAX_FRAME_BYTES
<1> DEFINE Goal == /\ Announces'
                   /\ delivered' # delivered => Declared(rx'.len_buf) <= MAX_FRAME_BYTES
<1>1. Types
  BY DEF IInv
<1>2. rx \in [phase : {"Idle", "Len", "Body"}, len_buf : Bytes, body : Bytes, cap : Nat,
              body_filled : Nat]
  BY <1>1 DEF Types, RxTypes
<1>3. ASSUME UNCHANGED delivered, rx' = rx \/ rx'.phase # "Body" PROVE Goal
  BY <1>3 DEF Announces
<1>4. ASSUME NEW m \in Messages, Send(m) PROVE Goal
  BY <1>3, <1>4 DEF Send
<1>5. ASSUME NEW n, WriteSome(n) PROVE Goal
  BY <1>3, <1>5 DEF WriteSome
<1>6. CASE AbandonSend \/ Break
  BY <1>3, <1>6 DEF AbandonSend, Break
<1>7. ASSUME NEW mode, Recv(mode) PROVE Goal
  <2>1. UNCHANGED delivered /\ (rx' = rx \/ rx'.phase # "Body")
    BY <1>2, <1>7 DEF Recv
  <2> QED BY <1>3, <2>1
<1>8. ASSUME NEW n, ReadLen(n) PROVE Goal
  <2>1. UNCHANGED delivered /\ rx'.phase # "Body"
    BY <1>2, <1>8 DEF ReadLen
  <2> QED BY <1>3, <2>1
<1>9. ASSUME NEW n, ReadLenRefused(n) PROVE Goal
  <2>1. UNCHANGED delivered /\ rx'.phase # "Body"
    BY <1>2, <1>9 DEF ReadLenRefused
  <2> QED BY <1>3, <2>1
<1>10. ASSUME NEW n, ReadLenBody(n) PROVE Goal
  <2>1. /\ LenFilled(n) /\ PayloadLen(rx.len_buf \o Chunk(n)) \in 1 .. MAX_FRAME_BYTES
        /\ rx'.len_buf = rx.len_buf \o Chunk(n) /\ UNCHANGED delivered
    BY <1>10 DEF ReadLenBody
  <2>2. Declared(rx'.len_buf) <= MAX_FRAME_BYTES
    BY <1>1, <2>1, Accepted, Constants
  <2> QED BY <2>1, <2>2 DEF Announces
<1>11. ASSUME NEW n, ReadLenEmpty(n) PROVE Goal
  <2>1. /\ LenFilled(n) /\ PayloadLen(rx.len_buf \o Chunk(n)) = 0
        /\ rx'.len_buf = rx.len_buf \o Chunk(n)
    BY <1>11 DEF ReadLenEmpty
  <2>2. Declared(rx'.len_buf) <= MAX_FRAME_BYTES
    BY <1>1, <2>1, Accepted, Constants
  <2> QED BY <2>2 DEF Announces
<1>12. ASSUME NEW n, ReadBody(n) PROVE Goal
  <2>1. rx.phase = "Body" /\ rx'.len_buf = rx.len_buf
    BY <1>2, <1>12 DEF ReadBody
  <2> QED BY <2>1 DEF Announces
<1>13. CASE ReadEof \/ CancelRecv \/ Recycle
  BY <1>3, <1>13 DEF ReadEof, CancelRecv, Recycle
<1>14. CASE UNCHANGED vars
  BY <1>3, <1>14 DEF vars
<1> QED BY <1>4, <1>5, <1>6, <1>7, <1>8, <1>9, <1>10, <1>11, <1>12, <1>13, <1>14
        DEF Next, Write, Read

\* Where a usize holds every value of the length field, no frame that declared more
\* than MAX_FRAME_BYTES is handed out, whatever came before it on the stream.
THEOREM OversizeIsRejected ==
    ASSUME LenLimit <= UsizeLimit
    PROVE  Spec => OversizeRejected
<1>1. Init => Announces
  BY DEF Init, Announces
<1>2. IInv /\ Announces /\ [Next]_vars => Announces'
  BY AnnouncesStep
<1>3. IInv /\ Announces /\ [Next]_vars
        => [delivered' # delivered => Declared(rx'.len_buf) <= MAX_FRAME_BYTES]_vars
  BY AnnouncesStep
<1> QED BY <1>1, <1>2, <1>3, IInvAlways, PTL DEF Spec, OversizeRejected

------------------------------------------------------------------------------
(* The direction implements SPChannel *)

\* The refinement mapping.
ChanSent == SubSeq(sent, 1, intact)
Shared   == IF Len(delivered) < intact THEN Len(delivered) ELSE intact
ChanGot  == SubSeq(delivered, 1, Shared)

\* The elements of a prefix.
LEMMA FirstOnes ==
    ASSUME NEW S, NEW s \in Seq(S), NEW n \in Nat, n <= Len(s)
    PROVE  SubSeq(s, 1, n) \in Seq(S) /\ Len(SubSeq(s, 1, n)) = n /\ \A j \in 1 .. n : SubSeq(s, 1, n)[j] = s[j]
OBVIOUS

\* A sequence that grows keeps its beginning.
LEMMA HeadKept ==
    ASSUME NEW S, NEW s \in Seq(S), NEW t \in Seq(S), NEW n \in Nat, n <= Len(s), n <= Len(t),
           \A j \in 1 .. n : t[j] = s[j]
    PROVE  SubSeq(t, 1, n) = SubSeq(s, 1, n)
<1> DEFINE u == SubSeq(t, 1, n)
           v == SubSeq(s, 1, n)
<1>1. u \in Seq(S) /\ Len(u) = n /\ \A j \in 1 .. n : u[j] = t[j]
  BY FirstOnes
<1>2. v \in Seq(S) /\ Len(v) = n /\ \A j \in 1 .. n : v[j] = s[j]
  BY FirstOnes
<1> HIDE DEF u, v
<1>3. u = v
  BY <1>1, <1>2, SameSeq
<1> QED BY <1>3 DEF u, v

\* A prefix that grows by one element.
LEMMA HeadGrows ==
    ASSUME NEW S, NEW s \in Seq(S), NEW e \in S
    PROVE  /\ SubSeq(Append(s, e), 1, Len(s) + 1) = Append(SubSeq(s, 1, Len(s)), e)
           /\ SubSeq(s, 1, Len(s)) = s
<1>1. \A q \in Seq(S) : SubSeq(q, 1, Len(q)) = q
  OBVIOUS
<1>2. Append(s, e) \in Seq(S) /\ Len(Append(s, e)) = Len(s) + 1
  BY AppendSeq
<1>3. SubSeq(Append(s, e), 1, Len(s) + 1) = Append(s, e)
  BY <1>1, <1>2
<1>4. SubSeq(s, 1, Len(s)) = s
  BY <1>1
<1> QED BY <1>3, <1>4

\* What was delivered of the intact messages is a number of them.
LEMMA SharedFacts ==
    ASSUME Types
    PROVE  /\ Shared \in Nat /\ Shared <= Len(delivered) /\ Shared <= intact
           /\ delivered \in Seq(Bytes) /\ sent \in Seq(Bytes) /\ intact \in Nat /\ intact <= Len(sent)
           /\ Len(delivered) \in Nat /\ Len(sent) \in Nat
<1>1. /\ delivered \in Seq(Bytes) /\ sent \in Seq(Bytes) /\ intact \in Nat /\ intact <= Len(sent)
      /\ Len(sent) \in Nat /\ Len(delivered) \in Nat
  BY TxFacts, GotNat DEF Types, OutTypes, Got
<1> QED BY <1>1 DEF Shared

\* A step that completes neither a send nor a receive.
LEMMA ChanQuiet ==
    ASSUME UNCHANGED <<sent, intact, delivered>>
    PROVE  ChanSent' = ChanSent /\ ChanGot' = ChanGot
BY DEF ChanSent, ChanGot, Shared

\* Writing sends on the abstract channel at most one message, that of a completed frame.
LEMMA ChanWrite ==
    ASSUME IInv, IInv', NEW n, WriteSome(n)
    PROVE  /\ ChanGot' = ChanGot
           /\ ChanSent' = ChanSent \/ \E m \in Messages : ChanSent' = Append(ChanSent, WireBody(m))
<1>1. Types /\ Sending /\ Handed
  BY DEF IInv
<1>2. UNCHANGED <<delivered, damaged>>
  BY DEF WriteSome
<1>3. /\ Shared \in Nat /\ Shared <= Len(delivered) /\ Shared <= intact
      /\ delivered \in Seq(Bytes) /\ sent \in Seq(Bytes) /\ intact \in Nat /\ intact <= Len(sent)
      /\ Len(delivered) \in Nat /\ Len(sent) \in Nat
  BY <1>1, SharedFacts
<1>4. CASE written + n # Len(frame)
  <2>1. UNCHANGED <<sent, intact, delivered>>
    BY <1>2, <1>4 DEF WriteSome
  <2> QED BY <2>1, ChanQuiet
<1>5. CASE written + n = Len(frame)
  <2>1. /\ sent' = Append(sent, SubSeq(frame, needed + 1, Len(frame)))
        /\ intact' = IF damaged THEN intact ELSE intact + 1
    BY <1>5 DEF WriteSome
  <2>2. PICK m \in Messages : frame = Frame(m)
    BY <1>1 DEF Sending, WriteSome
  <2>3. WireBody(m) \in Bytes /\ sent' = Append(sent, WireBody(m))
    BY <2>1, <2>2, FrameBytes, PayloadBytes
  <2>4. CASE damaged
    <3>1. intact' = intact
      BY <2>1, <2>4
    <3>2. ChanSent' = ChanSent
      <4>1. /\ sent' \in Seq(Bytes) /\ Len(sent') = Len(sent) + 1
            /\ \A j \in 1 .. Len(sent) : sent'[j] = sent[j]
        BY <1>3, <2>3, AppendSeq
      <4>2. intact <= Len(sent') /\ \A j \in 1 .. intact : j \in 1 .. Len(sent)
        BY <1>3, <4>1
      <4>3. \A t \in Seq(Bytes) : intact <= Len(t) /\ (\A j \in 1 .. intact : t[j] = sent[j])
                                  => SubSeq(t, 1, intact) = SubSeq(sent, 1, intact)
        BY <1>3, HeadKept
      <4>4. SubSeq(sent', 1, intact) = SubSeq(sent, 1, intact)
        BY <4>1, <4>2, <4>3
      <4> QED BY <3>1, <4>4 DEF ChanSent
    <3>3. ChanGot' = ChanGot
      BY <1>2, <3>1 DEF ChanGot, Shared
    <3> QED BY <3>2, <3>3
  <2>5. CASE ~damaged
    <3>1. intact = Len(sent) /\ intact' = Len(sent) + 1 /\ Len(delivered) <= intact
      BY <1>1, <2>1, <2>5 DEF IInv, Framed, Underway, Handed
    <3>2. ChanSent' = Append(ChanSent, WireBody(m))
      <4>1. \A e \in Bytes : SubSeq(Append(sent, e), 1, Len(sent) + 1) = Append(SubSeq(sent, 1, Len(sent)), e)
        BY <1>3, HeadGrows
      <4> QED BY <2>3, <3>1, <4>1 DEF ChanSent
    <3>3. Shared' = Len(delivered) /\ Shared = Len(delivered)
      BY <1>2, <1>3, <3>1 DEF Shared
    <3>4. ChanGot' = ChanGot
      BY <1>2, <3>3 DEF ChanGot
    <3> QED BY <3>2, <3>4
  <2> QED BY <2>4, <2>5
<1> QED BY <1>4, <1>5

\* A delivery is the abstract channel's next one, or behind the damage and none of its.
LEMMA ChanDeliver ==
    ASSUME IInv, IInv', UNCHANGED <<sent, intact>>, NEW body \in Bytes, delivered' = Append(delivered, body)
    PROVE  /\ ChanSent' = ChanSent
           /\ \/ ChanGot' = ChanGot
              \/ /\ Len(ChanGot) < Len(ChanSent)
                 /\ ChanGot' = Append(ChanGot, ChanSent[Len(ChanGot) + 1])
<1>1. /\ Shared \in Nat /\ Shared <= Len(delivered) /\ Shared <= intact
      /\ delivered \in Seq(Bytes) /\ sent \in Seq(Bytes) /\ intact \in Nat /\ intact <= Len(sent)
      /\ Len(delivered) \in Nat /\ Len(sent) \in Nat
  BY SharedFacts DEF IInv
<1>2. ChanSent' = ChanSent
  BY DEF ChanSent
<1>3. /\ delivered' \in Seq(Bytes) /\ Len(delivered') = Len(delivered) + 1
      /\ \A j \in 1 .. Len(delivered) : delivered'[j] = delivered[j]
      /\ delivered'[Len(delivered) + 1] = body
  BY <1>1, AppendSeq
<1>4. CASE Len(delivered) < intact
  <2>1. Shared = Len(delivered) /\ Shared' = Len(delivered) + 1
    BY <1>1, <1>3, <1>4 DEF Shared
  <2>2. body = sent[Len(delivered) + 1]
    <3>1. Len(delivered) + 1 \in 1 .. Len(delivered') /\ Len(delivered) + 1 <= intact
      BY <1>1, <1>3, <1>4
    <3>2. \A i \in 1 .. Len(delivered') : i <= intact' => delivered'[i] = sent'[i]
      BY DEF IInv, Handed
    <3> QED BY <1>3, <3>1, <3>2
  <2>3. ChanGot = delivered /\ ChanGot' = Append(delivered, body)
    <3>1. /\ SubSeq(Append(delivered, body), 1, Len(delivered) + 1) = Append(SubSeq(delivered, 1, Len(delivered)), body)
          /\ SubSeq(delivered, 1, Len(delivered)) = delivered
      BY <1>1, HeadGrows
    <3> QED BY <2>1, <3>1 DEF ChanGot
  <2>4. Len(ChanSent) = intact /\ ChanSent[Len(delivered) + 1] = sent[Len(delivered) + 1]
    <3>1. Len(delivered) + 1 \in 1 .. intact
      BY <1>1, <1>4
    <3>2. Len(SubSeq(sent, 1, intact)) = intact /\ \A j \in 1 .. intact : SubSeq(sent, 1, intact)[j] = sent[j]
      BY <1>1, FirstOnes
    <3> QED BY <3>1, <3>2 DEF ChanSent
  <2> QED BY <1>2, <1>4, <2>2, <2>3, <2>4
<1>5. CASE ~(Len(delivered) < intact)
  <2>1. Shared = intact /\ Shared' = intact /\ intact <= Len(delivered) /\ intact <= Len(delivered')
    BY <1>1, <1>3, <1>5 DEF Shared
  <2>2. \A j \in 1 .. intact : delivered'[j] = delivered[j]
    BY <1>1, <1>3, <2>1
  <2>3. \A t \in Seq(Bytes) : intact <= Len(t) /\ (\A j \in 1 .. intact : t[j] = delivered[j])
                              => SubSeq(t, 1, intact) = SubSeq(delivered, 1, intact)
    BY <1>1, <2>1, HeadKept
  <2>4. ChanGot' = ChanGot
    BY <1>3, <2>1, <2>2, <2>3 DEF ChanGot
  <2> QED BY <1>2, <2>4
<1> QED BY <1>4, <1>5

\* Up to the first damage the direction is a channel that delivers what was sent,
\* in order: the promise that the socket modules build on.
THEOREM ImplementsChannel == Spec => ChannelSpec
<1>1. Init => Channel!ChanInit
  <2> SUFFICES ASSUME Init PROVE Channel!ChanInit
    OBVIOUS
  <2>1. sent = <<>> /\ delivered = <<>> /\ intact = 0 /\ Len(<<>>) = 0 /\ SubSeq(<<>>, 1, 0) = <<>>
    BY DEF Init
  <2>2. (IF Len(delivered) < intact THEN Len(delivered) ELSE intact) = 0
    BY <2>1
  <2> QED BY <2>1, <2>2 DEF Channel!ChanInit
<1>2. IInv /\ IInv' /\ [Next]_vars => [Channel!ChanNext]_(Channel!chanvars)
  <2> SUFFICES ASSUME IInv, IInv', [Next]_vars PROVE [Channel!ChanNext]_(Channel!chanvars)
    OBVIOUS
  <2>1. ASSUME ChanSent' = ChanSent, ChanGot' = ChanGot PROVE UNCHANGED Channel!chanvars
    BY <2>1 DEF ChanSent, ChanGot, Shared, Channel!chanvars
  <2>2. ASSUME NEW m \in Messages, ChanSent' = Append(ChanSent, WireBody(m)), ChanGot' = ChanGot
        PROVE  Channel!ChanNext
    BY <2>2 DEF ChanSent, ChanGot, Shared, Channel!ChanNext, Channel!ChanSend
  <2>3. ASSUME ChanSent' = ChanSent, Len(ChanGot) < Len(ChanSent),
               ChanGot' = Append(ChanGot, ChanSent[Len(ChanGot) + 1])
        PROVE  Channel!ChanNext
    BY <2>3 DEF ChanSent, ChanGot, Shared, Channel!ChanNext, Channel!ChanRecv
  <2>4. Types /\ Sending
    BY DEF IInv
  <2>5. ASSUME NEW n, WriteSome(n) PROVE [Channel!ChanNext]_(Channel!chanvars)
    BY <2>1, <2>2, <2>5, ChanWrite
  <2>6. ASSUME NEW body \in Bytes, UNCHANGED <<sent, intact>>, delivered' = Append(delivered, body)
        PROVE  [Channel!ChanNext]_(Channel!chanvars)
    BY <2>1, <2>3, <2>6, ChanDeliver
  <2>7. ASSUME UNCHANGED <<sent, intact, delivered>> PROVE [Channel!ChanNext]_(Channel!chanvars)
    BY <2>1, <2>7, ChanQuiet
  <2>8. ASSUME NEW n, ReadLenEmpty(n) PROVE [Channel!ChanNext]_(Channel!chanvars)
    <3>1. delivered' = Append(delivered, <<>>) /\ <<>> \in Bytes
      BY <2>4, <2>8, ReadLenEmptyTypes DEF Bytes
    <3>2. UNCHANGED <<sent, intact>>
      BY <2>8 DEF ReadLenEmpty, LenFilled, txvars
    <3> QED BY <2>6, <3>1, <3>2
  <2>9. ASSUME NEW n, ReadBody(n) PROVE [Channel!ChanNext]_(Channel!chanvars)
    <3>1. UNCHANGED <<sent, intact>>
      BY <2>9 DEF ReadBody, txvars
    <3>2. Filled(n) \in Bytes
      BY <2>4, <2>9, ReadBodyTypes, FilledBytes DEF Types
    <3>3. delivered' = Append(delivered, Filled(n)) \/ UNCHANGED delivered
      BY <2>4, <2>9, ReadBodyTypes
    <3> QED BY <2>6, <2>7, <3>1, <3>2, <3>3
  <2>10. ASSUME NEW m, Send(m) PROVE UNCHANGED <<sent, intact, delivered>>
    BY <2>10 DEF Send
  <2>11. ASSUME NEW mode, Recv(mode) PROVE UNCHANGED <<sent, intact, delivered>>
    BY <2>11 DEF Recv, txvars
  <2>12. ASSUME NEW n, ReadLen(n) \/ ReadLenRefused(n) \/ ReadLenBody(n)
         PROVE  UNCHANGED <<sent, intact, delivered>>
    BY <2>12 DEF ReadLen, ReadLenRefused, ReadLenBody, LenFilled, txvars
  <2>13. ASSUME AbandonSend \/ Break \/ ReadEof \/ CancelRecv \/ Recycle \/ UNCHANGED vars
         PROVE  UNCHANGED <<sent, intact, delivered>>
    BY <2>13 DEF AbandonSend, Break, ReadEof, CancelRecv, Recycle, txvars, vars
  <2> QED BY <2>5, <2>7, <2>8, <2>9, <2>10, <2>11, <2>12, <2>13 DEF Next, Write, Read
<1> QED BY <1>1, <1>2, IInvAlways, PTL DEF Spec, ChannelSpec, Channel!ChanSpec
==============================================================================
