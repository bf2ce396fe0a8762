---------------------------- MODULE MessageProofs ----------------------------
(***************************************************************************)
(* Proofs about Message: for every size of the ZeroCopyMessage's array,    *)
(* every set of byte strings, every base and every width of the length and *)
(* of the TTL field.                                                       *)
(***************************************************************************)
EXTENDS Message, BigEndianProofs, TLAPS

------------------------------------------------------------------------------
(* Sequences *)

\* Sequences with the same elements are the same.
LEMMA SameSeq ==
    ASSUME NEW S, NEW s \in Seq(S), NEW t \in Seq(S), Len(s) = Len(t),
           \A k \in 1 .. Len(s) : s[k] = t[k]
    PROVE  s = t
OBVIOUS

\* The elements of a concatenation.
LEMMA ConcatSeq ==
    ASSUME NEW S, NEW s \in Seq(S), NEW t \in Seq(S)
    PROVE  /\ s \o t \in Seq(S) /\ Len(s \o t) = Len(s) + Len(t)
           /\ \A k \in 1 .. Len(s) : (s \o t)[k] = s[k]
           /\ \A k \in 1 .. Len(t) : (s \o t)[Len(s) + k] = t[k]
OBVIOUS

\* The elements of a part.
LEMMA Part ==
    ASSUME NEW S, NEW s \in Seq(S), NEW a \in 1 .. Len(s) + 1, NEW b \in 0 .. Len(s), a <= b + 1
    PROVE  /\ SubSeq(s, a, b) \in Seq(S) /\ Len(SubSeq(s, a, b)) = b - a + 1
           /\ \A k \in 1 .. b - a + 1 : SubSeq(s, a, b)[k] = s[a + k - 1]
OBVIOUS

\* A function on 1 .. n is a sequence.
LEMMA FcnSeq ==
    ASSUME NEW S, NEW n \in Nat, NEW f \in [1 .. n -> S]
    PROVE  f \in Seq(S) /\ Len(f) = n
OBVIOUS

\* Taking a concatenation apart again.
LEMMA Unconcat ==
    ASSUME NEW S, NEW s \in Seq(S), NEW t \in Seq(S), NEW x \in Seq(S)
    PROVE  /\ SubSeq(s \o t \o x, 1, Len(s)) = s
           /\ SubSeq(s \o t \o x, Len(s) + 1, Len(s) + Len(t)) = t
<1> DEFINE w == s \o t \o x
<1>1. /\ w \in Seq(S) /\ Len(w) = Len(s) + Len(t) + Len(x)
      /\ Len(s) \in Nat /\ Len(t) \in Nat /\ Len(x) \in Nat
      /\ \A k \in 1 .. Len(s) : w[k] = s[k]
      /\ \A k \in 1 .. Len(t) : w[Len(s) + k] = t[k]
  <2>1. /\ s \o t \in Seq(S) /\ Len(s \o t) = Len(s) + Len(t)
        /\ \A k \in 1 .. Len(s) : (s \o t)[k] = s[k]
        /\ \A k \in 1 .. Len(t) : (s \o t)[Len(s) + k] = t[k]
    BY ConcatSeq
  <2>2. /\ w \in Seq(S) /\ Len(w) = Len(s \o t) + Len(x)
        /\ \A k \in 1 .. Len(s \o t) : w[k] = (s \o t)[k]
    BY <2>1, ConcatSeq
  <2>3. Len(s) \in Nat /\ Len(t) \in Nat /\ Len(x) \in Nat
    OBVIOUS
  <2> HIDE DEF w
  <2>4. \A k \in 1 .. Len(s) : w[k] = s[k]
    <3>1. \A k \in 1 .. Len(s) : k \in 1 .. Len(s \o t)
      BY <2>1, <2>3
    <3> QED BY <2>1, <2>2, <3>1
  <2>5. \A k \in 1 .. Len(t) : w[Len(s) + k] = t[k]
    <3>1. \A k \in 1 .. Len(t) : Len(s) + k \in 1 .. Len(s \o t)
      BY <2>1, <2>3
    <3> QED BY <2>1, <2>2, <3>1
  <2> QED BY <2>1, <2>2, <2>3, <2>4, <2>5
<1> HIDE DEF w
<1>2. SubSeq(w, 1, Len(s)) = s
  <2>1. /\ SubSeq(w, 1, Len(s)) \in Seq(S) /\ Len(SubSeq(w, 1, Len(s))) = Len(s)
        /\ \A k \in 1 .. Len(s) : SubSeq(w, 1, Len(s))[k] = w[k]
    BY <1>1
  <2> QED BY <1>1, <2>1, SameSeq
<1>3. SubSeq(w, Len(s) + 1, Len(s) + Len(t)) = t
  <2> DEFINE u == SubSeq(w, Len(s) + 1, Len(s) + Len(t))
  <2>1. /\ u \in Seq(S) /\ Len(u) = Len(t)
        /\ \A k \in 1 .. Len(t) : u[k] = w[Len(s) + k]
    BY <1>1
  <2> HIDE DEF u
  <2>2. u = t
    BY <1>1, <2>1, SameSeq
  <2> QED BY <2>2 DEF u
<1> QED BY <1>2, <1>3 DEF w

------------------------------------------------------------------------------
(* The codec *)

Bytes == Seq(Byte)

\* What the assumptions say about the constants.
LEMMA Constants ==
    /\ Base \in Nat /\ Base > 1 /\ LenBytes \in Nat /\ LenBytes > 0 /\ MaxLen \in Nat /\ N \in Nat
    /\ TtlLen \in Nat /\ TtlLen > 1 /\ TtlMask \in 2 .. Base /\ MaxTtl \in Ttls
    /\ HEADER_CAP \in Nat /\ TtlLen <= HEADER_CAP /\ HEADER_CAP <= N /\ TtlLen <= MaxLen
    /\ LenLimit \in Nat /\ 2 * MaxLen < LenLimit
    /\ UsizeLimit \in Nat /\ 2 * MaxLen < UsizeLimit
<1>1. N \div 4 \in Nat /\ N \div 4 <= N
  BY MessageAssumption
<1> QED BY <1>1, MessageAssumption, BigEndianAssumption, LengthField DEF HEADER_CAP, Ttls

\* The lengths that both the length field and a usize hold.
Lengths == {n \in Nat : n < LenLimit /\ n < UsizeLimit}

\* A length that fits is written in LenBytes bytes and read back.
LEMMA LengthPrefix ==
    ASSUME NEW n \in Lengths
    PROVE  ToBe(n) \in Bytes /\ Len(ToBe(n)) = LenBytes /\ AsUsize(FromBe(ToBe(n))) = n
<1>1. n \in Nat /\ n \in 0 .. LenLimit - 1 /\ n < UsizeLimit
  BY Constants DEF Lengths
<1>2. ToBe(n) \in [1 .. LenBytes -> Byte] /\ FromBe(ToBe(n)) = n
  BY <1>1, LengthField
<1>3. AsUsize(n) = n
  BY <1>1, UsizeHolds
<1> QED BY <1>2, <1>3, FcnSeq, Constants DEF Bytes

\* encode_frame, and decode_frame of what it yields with anything behind it.
LEMMA RoundTrip ==
    ASSUME NEW hd \in Bytes, NEW bd \in Bytes, NEW x \in Bytes, Len(hd) + Len(bd) \in Lengths,
           NEW msg, msg.header = hd, msg.body = bd
    PROVE  /\ encode_frame(msg) = ToBe(Len(hd \o bd)) \o (hd \o bd)
           /\ encode_frame(msg) \in Bytes
           /\ Len(encode_frame(msg)) = LenBytes + Len(hd \o bd)
           /\ decode_frame(encode_frame(msg) \o x) = [body |-> hd \o bd, used |-> Len(encode_frame(msg))]
<1> DEFINE p == hd \o bd
           h == ToBe(Len(p))
           w == encode_frame(msg)
<1>1. p \in Bytes /\ Len(p) = Len(hd) + Len(bd) /\ Len(hd) \in Nat /\ Len(bd) \in Nat
  BY ConcatSeq DEF Bytes
<1>2. Len(p) \in Lengths /\ Len(p) \in Nat
  BY <1>1
<1>3. h \in Bytes /\ Len(h) = LenBytes /\ AsUsize(FromBe(h)) = Len(p)
  BY <1>2, LengthPrefix
<1>4. w = h \o p
  <2>1. w = (h \o hd) \o bd
    BY <1>1 DEF encode_frame
  <2>2. \A q \in Bytes : (q \o hd) \o bd = q \o (hd \o bd)
    BY DEF Bytes
  <2> HIDE DEF h, w
  <2> QED BY <1>3, <2>1, <2>2
<1> HIDE DEF h, p, w
<1>5. w \in Bytes /\ Len(w) = LenBytes + Len(p)
  <2>1. h \in Seq(Byte) /\ p \in Seq(Byte)
    BY <1>1, <1>3 DEF Bytes
  <2>2. h \o p \in Seq(Byte) /\ Len(h \o p) = Len(h) + Len(p)
    BY <2>1, ConcatSeq
  <2> QED BY <1>3, <1>4, <2>2 DEF Bytes
<1>6. Len(w \o x) = Len(w) + Len(x) /\ Len(x) \in Nat
  <2>1. w \in Seq(Byte) /\ x \in Seq(Byte)
    BY <1>5 DEF Bytes
  <2> QED BY <2>1
<1>7. SubSeq(w \o x, 1, LenBytes) = h /\ SubSeq(w \o x, LenBytes + 1, LenBytes + Len(p)) = p
  <2>1. h \in Seq(Byte) /\ p \in Seq(Byte) /\ x \in Seq(Byte)
    BY <1>1, <1>3 DEF Bytes
  <2>2. /\ SubSeq((h \o p) \o x, 1, Len(h)) = h
        /\ SubSeq((h \o p) \o x, Len(h) + 1, Len(h) + Len(p)) = p
    BY <2>1, Unconcat
  <2> QED BY <1>3, <1>4, <2>2
<1>8. ~(Len(w \o x) < LenBytes \/ Len(w \o x) - LenBytes < Len(p))
  BY <1>2, <1>5, <1>6, Constants
<1>9. decode_frame(w \o x) = [body |-> p, used |-> Len(w)]
  BY <1>3, <1>5, <1>7, <1>8 DEF decode_frame
<1> QED BY <1>4, <1>5, <1>9 DEF w, p, h

\* decode_frame gets back from encode_frame's bytes header and body in one.
LEMMA RoundTripAlone ==
    ASSUME NEW hd \in Bytes, NEW bd \in Bytes, Len(hd) + Len(bd) \in Lengths,
           NEW msg, msg.header = hd, msg.body = bd
    PROVE  decode_frame(encode_frame(msg)).body = hd \o bd
<1>1. <<>> \in Bytes
  BY DEF Bytes
<1>2. /\ encode_frame(msg) \in Bytes
      /\ decode_frame(encode_frame(msg) \o <<>>) = [body |-> hd \o bd, used |-> Len(encode_frame(msg))]
  BY <1>1, RoundTrip
<1>3. \A q \in Bytes : q \o <<>> = q
  BY DEF Bytes
<1>4. encode_frame(msg) \o <<>> = encode_frame(msg)
  BY <1>2, <1>3
<1> QED BY <1>2, <1>4

\* The TTL field has its length, with the TTL in its last byte.
LEMMA TtlFieldBytes ==
    ASSUME NEW t \in Ttls
    PROVE  /\ TtlField(t) \in Bytes /\ Len(TtlField(t)) = TtlLen
           /\ TtlField(t)[TtlLen] = t
<1>1. t \in Byte /\ 0 \in Byte
  BY Constants DEF Ttls, Byte
<1>2. Base \div 2 \in Byte
  BY Constants DEF Byte
<1>3. TtlField(t) \in [1 .. TtlLen -> Byte]
  BY <1>1, <1>2, Constants DEF TtlField
<1>4. TtlField(t)[TtlLen] = t
  BY Constants DEF TtlField
<1> QED BY <1>3, <1>4, FcnSeq, Constants DEF Bytes

------------------------------------------------------------------------------
(* The inductive invariant *)

\* The two Vecs, and the array with its regions in order.
Vecs == /\ m \in [header : Bytes, body : Bytes]
        /\ Len(m.header) <= MaxLen /\ Len(m.body) <= MaxLen

Regions == /\ buf \in [Offsets -> Byte]
           /\ h_end \in 0 .. HEADER_CAP
           /\ b_start \in HEADER_CAP .. b_end /\ b_end \in HEADER_CAP .. N
           /\ live \in BOOLEAN

\* SameView, byte by byte.
HeaderShown == live => /\ Len(m.header) = h_end
                       /\ \A k \in 1 .. h_end : m.header[k] = buf[k - 1]
BodyShown == live => /\ Len(m.body) = b_end - b_start
                     /\ \A k \in 1 .. b_end - b_start : m.body[k] = buf[b_start + k - 1]

IInv == Vecs /\ Regions /\ HeaderShown /\ BodyShown

\* The type invariant in two parts: the Vecs and the array.
LEMMA TypeParts == TypeOK <=> Vecs /\ Regions
BY DEF TypeOK, Vecs, Regions, Bytes

\* What the Vecs' types say about their lengths.
LEMMA VecFacts ==
    ASSUME Vecs
    PROVE  /\ m.header \in Bytes /\ m.body \in Bytes /\ Len(m.header) \in Nat /\ Len(m.body) \in Nat
           /\ Len(m.header) <= MaxLen /\ Len(m.body) <= MaxLen
           /\ Len(m.header) + Len(m.body) \in Lengths
<1>1. m.header \in Bytes /\ m.body \in Bytes /\ Len(m.header) <= MaxLen /\ Len(m.body) <= MaxLen
  BY DEF Vecs
<1>2. \A q \in Bytes : Len(q) \in Nat
  BY DEF Bytes
<1>3. Len(m.header) \in Nat /\ Len(m.body) \in Nat
  BY <1>1, <1>2
<1>4. \A p, q \in Nat : p <= MaxLen /\ q <= MaxLen => p + q \in Lengths
  BY Constants DEF Lengths
<1> QED BY <1>1, <1>3, <1>4

\* The offsets in their order.
LEMMA RegionFacts ==
    ASSUME Regions
    PROVE  /\ h_end \in Nat /\ b_start \in Nat /\ b_end \in Nat
           /\ h_end <= HEADER_CAP /\ HEADER_CAP <= b_start /\ b_start <= b_end /\ b_end <= N
           /\ HEADER_CAP \in Nat /\ N \in Nat
BY Constants DEF Regions

\* The bytes of a slice of the array.
LEMMA SliceSeq ==
    ASSUME Regions, NEW a \in Nat, NEW b \in Nat, a <= b, b <= N
    PROVE  /\ Slice(a, b) \in Bytes /\ Len(Slice(a, b)) = b - a
           /\ \A k \in 1 .. b - a : Slice(a, b)[k] = buf[a + k - 1]
<1>1. b - a \in Nat /\ N \in Nat
  BY Constants
<1>2. \A k \in 1 .. b - a : a + k - 1 \in Offsets
  BY <1>1 DEF Offsets
<1>3. Slice(a, b) \in [1 .. b - a -> Byte]
  BY <1>2 DEF Slice, Regions
<1>4. \A k \in 1 .. b - a : Slice(a, b)[k] = buf[a + k - 1]
  BY DEF Slice
<1> QED BY <1>1, <1>3, <1>4, FcnSeq DEF Bytes

\* SameView is the equality of all bytes.
LEMMA ShownIsSame == ASSUME Vecs, Regions PROVE SameView <=> HeaderShown /\ BodyShown
<1>1. /\ zc_header \in Bytes /\ Len(zc_header) = h_end
      /\ \A k \in 1 .. h_end : zc_header[k] = buf[k - 1]
  <2>1. /\ Slice(0, h_end) \in Bytes /\ Len(Slice(0, h_end)) = h_end - 0
        /\ \A k \in 1 .. h_end - 0 : Slice(0, h_end)[k] = buf[0 + k - 1]
    <3>1. 0 \in Nat /\ h_end \in Nat /\ 0 <= h_end /\ h_end <= N
      BY RegionFacts
    <3> QED BY <3>1, SliceSeq
  <2>2. h_end - 0 = h_end /\ \A k \in 1 .. h_end : 0 + k - 1 = k - 1
    BY RegionFacts
  <2> QED BY <2>1, <2>2 DEF zc_header
<1>2. /\ zc_body \in Bytes /\ Len(zc_body) = b_end - b_start
      /\ \A k \in 1 .. b_end - b_start : zc_body[k] = buf[b_start + k - 1]
  BY SliceSeq, RegionFacts DEF zc_body
<1>3. m.header \in Bytes /\ m.body \in Bytes
  BY VecFacts
<1>4. zc_header = m.header <=> /\ Len(m.header) = h_end
                               /\ \A k \in 1 .. h_end : m.header[k] = buf[k - 1]
  <2>1. ASSUME Len(m.header) = h_end, \A k \in 1 .. h_end : m.header[k] = buf[k - 1]
        PROVE  zc_header = m.header
    <3>1. /\ zc_header \in Seq(Byte) /\ m.header \in Seq(Byte) /\ Len(zc_header) = Len(m.header)
          /\ \A k \in 1 .. Len(zc_header) : zc_header[k] = m.header[k]
      BY <1>1, <1>3, <2>1 DEF Bytes
    <3> QED BY <3>1, SameSeq
  <2>2. ASSUME zc_header = m.header
        PROVE  Len(m.header) = h_end /\ \A k \in 1 .. h_end : m.header[k] = buf[k - 1]
    BY <1>1, <2>2
  <2> QED BY <2>1, <2>2
<1>5. zc_body = m.body <=> /\ Len(m.body) = b_end - b_start
                           /\ \A k \in 1 .. b_end - b_start : m.body[k] = buf[b_start + k - 1]
  <2>1. ASSUME Len(m.body) = b_end - b_start, \A k \in 1 .. b_end - b_start : m.body[k] = buf[b_start + k - 1]
        PROVE  zc_body = m.body
    <3>1. /\ zc_body \in Seq(Byte) /\ m.body \in Seq(Byte) /\ Len(zc_body) = Len(m.body)
          /\ \A k \in 1 .. Len(zc_body) : zc_body[k] = m.body[k]
      BY <1>2, <1>3, <2>1 DEF Bytes
    <3> QED BY <3>1, SameSeq
  <2>2. ASSUME zc_body = m.body
        PROVE  Len(m.body) = b_end - b_start /\ \A k \in 1 .. b_end - b_start : m.body[k] = buf[b_start + k - 1]
    BY <1>2, <2>2
  <2> QED BY <2>1, <2>2
<1> QED BY <1>4, <1>5 DEF SameView, HeaderShown, BodyShown

------------------------------------------------------------------------------
(* Operations of the ZeroCopyMessage *)

\* copy_from_slice writes its bytes and no others.
LEMMA CopiedBytes ==
    ASSUME NEW b \in [Offsets -> Byte], NEW a \in Nat, NEW d \in Bytes
    PROVE  /\ Copied(b, a, d) \in [Offsets -> Byte]
           /\ \A k \in Offsets : k \notin a .. a + Len(d) - 1 => Copied(b, a, d)[k] = b[k]
           /\ \A k \in 1 .. Len(d) : a + k - 1 \in Offsets => Copied(b, a, d)[a + k - 1] = d[k]
<1>1. Len(d) \in Nat /\ \A k \in 1 .. Len(d) : d[k] \in Byte
  BY DEF Bytes
<1>2. \A k \in Offsets : k \in Int
  BY Constants DEF Offsets
<1>3. \A k \in Offsets : k \in a .. a + Len(d) - 1 => k - a + 1 \in 1 .. Len(d)
  BY <1>1, <1>2
<1>4. Copied(b, a, d) \in [Offsets -> Byte]
  BY <1>1, <1>3 DEF Copied
<1>5. \A k \in Offsets : k \notin a .. a + Len(d) - 1 => Copied(b, a, d)[k] = b[k]
  BY DEF Copied
<1>6. ASSUME NEW k \in 1 .. Len(d), a + k - 1 \in Offsets PROVE Copied(b, a, d)[a + k - 1] = d[k]
  <2>1. a + k - 1 \in a .. a + Len(d) - 1 /\ (a + k - 1) - a + 1 = k
    BY <1>1
  <2> QED BY <1>6, <2>1 DEF Copied
<1> QED BY <1>4, <1>5, <1>6

\* A new array is one of bytes.
LEMMA ZerosBytes == Zeros \in [Offsets -> Byte]
<1>1. 0 \in Byte
  BY Constants DEF Byte
<1> QED BY <1>1 DEF Zeros

\* After a panic there is nothing left to compare.
LEMMA GoneOK == ASSUME ZcGone PROVE Regions' /\ HeaderShown' /\ BodyShown'
<1>1. live' = FALSE
  BY DEF ZcGone
<1>2. Regions'
  <2>1. 0 \in 0 .. HEADER_CAP /\ HEADER_CAP \in HEADER_CAP .. HEADER_CAP /\ HEADER_CAP \in HEADER_CAP .. N
    BY Constants
  <2>2. /\ buf' = Zeros /\ h_end' = 0 /\ b_start' = HEADER_CAP /\ b_end' = HEADER_CAP
    BY DEF ZcGone
  <2> QED BY <1>1, <2>1, <2>2, ZerosBytes DEF Regions
<1> QED BY <1>1, <1>2 DEF HeaderShown, BodyShown

\* A view v of the bytes from offset a on, when bytes d come behind them.
LEMMA ShownGrows ==
    ASSUME NEW b \in [Offsets -> Byte], NEW a \in Nat, NEW v \in Bytes, NEW d \in Bytes,
           a + Len(v) + Len(d) <= N, \A k \in 1 .. Len(v) : v[k] = b[a + k - 1]
    PROVE  \A k \in 1 .. Len(v \o d) : (v \o d)[k] = Copied(b, a + Len(v), d)[a + k - 1]
<1>1. Len(d) \in Nat /\ Len(v) \in Nat /\ N \in Nat
  BY Constants DEF Bytes
<1>2. /\ Len(v \o d) = Len(v) + Len(d)
      /\ \A k \in 1 .. Len(v) : (v \o d)[k] = v[k]
      /\ \A k \in 1 .. Len(d) : (v \o d)[Len(v) + k] = d[k]
  BY ConcatSeq DEF Bytes
<1>3. a + Len(v) \in Nat
  BY <1>1
<1>4. /\ \A x \in Offsets : x \notin a + Len(v) .. a + Len(v) + Len(d) - 1
                             => Copied(b, a + Len(v), d)[x] = b[x]
      /\ \A k \in 1 .. Len(d) : a + Len(v) + k - 1 \in Offsets
                             => Copied(b, a + Len(v), d)[a + Len(v) + k - 1] = d[k]
  BY <1>3, CopiedBytes
<1>5. ASSUME NEW k \in 1 .. Len(v) PROVE (v \o d)[k] = Copied(b, a + Len(v), d)[a + k - 1]
  <2>1. a + k - 1 \in Offsets /\ a + k - 1 \notin a + Len(v) .. a + Len(v) + Len(d) - 1
    BY <1>1 DEF Offsets
  <2> QED BY <1>2, <1>4, <2>1
<1>6. ASSUME NEW k \in 1 .. Len(d)
      PROVE  (v \o d)[Len(v) + k] = Copied(b, a + Len(v), d)[a + (Len(v) + k) - 1]
  <2>1. a + Len(v) + k - 1 \in Offsets /\ a + Len(v) + k - 1 = a + (Len(v) + k) - 1
    BY <1>1 DEF Offsets
  <2> QED BY <1>2, <1>4, <2>1
<1>7. ASSUME NEW k \in 1 .. Len(v \o d) PROVE (v \o d)[k] = Copied(b, a + Len(v), d)[a + k - 1]
  <2>1. CASE k <= Len(v)
    <3>1. k \in 1 .. Len(v)
      BY <1>1, <2>1
    <3> QED BY <1>5, <3>1
  <2>2. CASE k > Len(v)
    <3>1. k - Len(v) \in 1 .. Len(d) /\ Len(v) + (k - Len(v)) = k
      BY <1>1, <1>2, <2>2
    <3> QED BY <1>6, <3>1
  <2> QED BY <1>1, <2>1, <2>2
<1> QED BY <1>7

\* push_back on the array does what it does on the Vec, or panics.
LEMMA PushBackOK ==
    ASSUME Vecs, Regions, HeaderShown, BodyShown, NEW d \in Bytes, ZcPushBack(d),
           m'.header = m.header, m'.body = m.body \o d
    PROVE  Regions' /\ HeaderShown' /\ BodyShown'
<1>1. CASE ~(live /\ b_end + Len(d) <= N)
  BY <1>1, GoneOK DEF ZcPushBack
<1>2. CASE live /\ b_end + Len(d) <= N
  <2>1. /\ buf' = Copied(buf, b_end, d) /\ b_end' = b_end + Len(d)
        /\ UNCHANGED <<h_end, b_start, live>>
    BY <1>2 DEF ZcPushBack
  <2>2. Len(d) \in Nat
    BY DEF Bytes
  <2>3. buf \in [Offsets -> Byte] /\ buf' \in [Offsets -> Byte]
    BY <2>1, CopiedBytes, RegionFacts DEF Regions
  <2>4. Regions'
    <3>1. b_end' \in HEADER_CAP .. N /\ b_start' \in HEADER_CAP .. b_end'
      BY <1>2, <2>1, <2>2, RegionFacts
    <3> QED BY <2>1, <2>3, <3>1 DEF Regions
  <2>5. HeaderShown'
    <3>1. \A k \in 1 .. h_end : k - 1 \in Offsets /\ k - 1 \notin b_end .. b_end + Len(d) - 1
      BY <2>2, RegionFacts DEF Offsets
    <3>2. \A k \in 1 .. h_end : buf'[k - 1] = buf[k - 1]
      <4>1. b_end \in Nat
        BY RegionFacts
      <4>2. \A x \in Offsets : x \notin b_end .. b_end + Len(d) - 1 => buf'[x] = buf[x]
        BY <2>1, <2>3, <4>1, CopiedBytes
      <4> QED BY <3>1, <4>2
    <3> QED BY <1>2, <2>1, <3>2 DEF HeaderShown
  <2>6. BodyShown'
    <3>1. /\ m.body \in Bytes /\ Len(m.body) = b_end - b_start
          /\ \A k \in 1 .. b_end - b_start : m.body[k] = buf[b_start + k - 1]
      BY <1>2, VecFacts DEF BodyShown
    <3>2. b_start \in Nat /\ b_start + Len(m.body) = b_end /\ b_start + Len(m.body) + Len(d) <= N
      BY <1>2, <2>2, <3>1, RegionFacts
    <3>3. \A k \in 1 .. Len(m.body \o d) :
             (m.body \o d)[k] = Copied(buf, b_start + Len(m.body), d)[b_start + k - 1]
      <4>1. \A k \in 1 .. Len(m.body) : m.body[k] = buf[b_start + k - 1]
        BY <3>1
      <4> QED BY <2>3, <3>1, <3>2, <4>1, ShownGrows
    <3>4. Len(m.body \o d) = b_end' - b_start'
      <4>1. Len(m.body \o d) = Len(m.body) + Len(d)
        BY <3>1, ConcatSeq DEF Bytes
      <4> QED BY <2>1, <2>2, <3>1, <4>1, RegionFacts
    <3> QED BY <2>1, <3>2, <3>3, <3>4 DEF BodyShown
  <2> QED BY <2>4, <2>5, <2>6
<1> QED BY <1>1, <1>2

\* ... and so does header_push_back, which stays clear of the body.
LEMMA HeaderPushBackOK ==
    ASSUME Vecs, Regions, HeaderShown, BodyShown, NEW d \in Bytes, ZcHeaderPushBack(d),
           m'.header = m.header \o d, m'.body = m.body
    PROVE  Regions' /\ HeaderShown' /\ BodyShown'
<1>1. CASE ~(live /\ h_end + Len(d) <= HEADER_CAP)
  BY <1>1, GoneOK DEF ZcHeaderPushBack
<1>2. CASE live /\ h_end + Len(d) <= HEADER_CAP
  <2>1. /\ buf' = Copied(buf, h_end, d) /\ h_end' = h_end + Len(d)
        /\ UNCHANGED <<b_start, b_end, live>>
    BY <1>2 DEF ZcHeaderPushBack
  <2>2. Len(d) \in Nat
    BY DEF Bytes
  <2>3. buf \in [Offsets -> Byte] /\ buf' \in [Offsets -> Byte]
    BY <2>1, CopiedBytes, RegionFacts DEF Regions
  <2>4. Regions'
    <3>1. h_end' \in 0 .. HEADER_CAP
      BY <1>2, <2>1, <2>2, RegionFacts
    <3> QED BY <2>1, <2>3, <3>1 DEF Regions
  <2>5. BodyShown'
    <3>1. \A k \in 1 .. b_end - b_start :
             b_start + k - 1 \in Offsets /\ b_start + k - 1 \notin h_end .. h_end + Len(d) - 1
      BY <1>2, <2>2, RegionFacts DEF Offsets
    <3>2. ASSUME NEW k \in 1 .. b_end - b_start PROVE buf'[b_start + k - 1] = buf[b_start + k - 1]
      <4>1. h_end \in Nat
        BY RegionFacts
      <4>2. \A x \in Offsets : x \notin h_end .. h_end + Len(d) - 1 => buf'[x] = buf[x]
        BY <2>1, <2>3, <4>1, CopiedBytes
      <4> QED BY <3>1, <4>2
    <3> QED BY <1>2, <2>1, <3>2 DEF BodyShown
  <2>6. HeaderShown'
    <3>1. /\ m.header \in Bytes /\ Len(m.header) = h_end
          /\ \A k \in 1 .. h_end : m.header[k] = buf[k - 1]
      BY <1>2, VecFacts DEF HeaderShown
    <3>2. 0 + Len(m.header) = h_end /\ 0 + Len(m.header) + Len(d) <= N
      BY <1>2, <2>2, <3>1, RegionFacts
    <3>3. \A k \in 1 .. Len(m.header \o d) :
             (m.header \o d)[k] = Copied(buf, 0 + Len(m.header), d)[0 + k - 1]
      <4>1. PICK z \in Nat : z = 0
        OBVIOUS
      <4>2. z + Len(m.header) + Len(d) <= N /\ \A k \in 1 .. Len(m.header) : m.header[k] = buf[z + k - 1]
        BY <3>1, <3>2, <4>1
      <4>3. \A k \in 1 .. Len(m.header \o d) :
               (m.header \o d)[k] = Copied(buf, z + Len(m.header), d)[z + k - 1]
        BY <2>3, <3>1, <4>2, ShownGrows
      <4> QED BY <4>1, <4>3
    <3>4. Len(m.header \o d) = h_end'
      <4>1. m.header \in Seq(Byte) /\ d \in Seq(Byte)
        BY <3>1 DEF Bytes
      <4>2. Len(m.header \o d) = Len(m.header) + Len(d)
        BY <4>1, ConcatSeq
      <4> QED BY <2>1, <3>1, <4>2
    <3>5. \A k \in 1 .. h_end' : 0 + k - 1 = k - 1
      BY <2>4, RegionFacts DEF Regions
    <3> QED BY <2>1, <3>2, <3>3, <3>4, <3>5 DEF HeaderShown
  <2> QED BY <2>4, <2>5, <2>6
<1> QED BY <1>1, <1>2

\* Draining takes the first bytes off.
LEMMA DrainedBytes ==
    ASSUME NEW v \in Bytes, NEW n \in 0 .. Len(v)
    PROVE  /\ Drained(v, n) \in Bytes /\ Len(Drained(v, n)) = Len(v) - n
           /\ \A k \in 1 .. Len(v) - n : Drained(v, n)[k] = v[n + k]
<1>1. v \in Seq(Byte) /\ Len(v) \in Nat
  BY DEF Bytes
<1>2. n + 1 \in 1 .. Len(v) + 1 /\ Len(v) \in 0 .. Len(v) /\ n + 1 <= Len(v) + 1
  BY <1>1
<1>3. Len(v) - (n + 1) + 1 = Len(v) - n /\ \A k \in 1 .. Len(v) - n : (n + 1) + k - 1 = n + k
  BY <1>1
<1>4. /\ SubSeq(v, n + 1, Len(v)) \in Seq(Byte)
      /\ Len(SubSeq(v, n + 1, Len(v))) = Len(v) - (n + 1) + 1
      /\ \A k \in 1 .. Len(v) - (n + 1) + 1 : SubSeq(v, n + 1, Len(v))[k] = v[(n + 1) + k - 1]
  BY <1>1, <1>2, Part
<1> QED BY <1>3, <1>4 DEF Drained, Bytes

\* push_front and header_push_front: resize, move and copy amount to a concatenation.
LEMMA PrependedIsConcat ==
    ASSUME NEW v \in Bytes, NEW d \in Bytes
    PROVE  Prepended(v, d) = d \o v
<1> DEFINE n == Len(v) + Len(d)
           grown == [k \in 1 .. n |-> IF k <= Len(v) THEN v[k] ELSE 0]
           moved == [k \in DOMAIN grown |-> IF k > Len(d) THEN grown[k - Len(d)] ELSE grown[k]]
           r == [k \in DOMAIN grown |-> IF k <= Len(d) THEN d[k] ELSE moved[k]]
<1>1. v \in Seq(Byte) /\ d \in Seq(Byte) /\ Len(v) \in Nat /\ Len(d) \in Nat /\ n \in Nat
  BY DEF Bytes
<1>2. Prepended(v, d) = r
  BY DEF Prepended
<1>3. DOMAIN grown = 1 .. n /\ \A k \in 1 .. n : k <= Len(v) => grown[k] = v[k]
  OBVIOUS
<1> HIDE DEF n, grown
<1>4. \A k \in 1 .. n : k > Len(d) => moved[k] = grown[k - Len(d)]
  BY <1>3
<1> HIDE DEF moved
<1>5. \A k \in 1 .. n : r[k] = IF k <= Len(d) THEN d[k] ELSE moved[k]
  BY <1>3
<1>6. ASSUME NEW k \in 1 .. n, k > Len(d) PROVE r[k] = v[k - Len(d)] /\ k - Len(d) \in 1 .. Len(v)
  <2>1. k - Len(d) \in 1 .. n /\ k - Len(d) <= Len(v) /\ k - Len(d) \in 1 .. Len(v) /\ ~(k <= Len(d))
    BY <1>1, <1>6 DEF n
  <2> QED BY <1>3, <1>4, <1>5, <1>6, <2>1
<1>7. /\ d \o v \in Seq(Byte) /\ Len(d \o v) = Len(d) + Len(v)
      /\ \A k \in 1 .. Len(d) : (d \o v)[k] = d[k]
      /\ \A k \in 1 .. Len(v) : (d \o v)[Len(d) + k] = v[k]
  BY <1>1, ConcatSeq
<1>8. Len(d \o v) = n
  BY <1>1, <1>7 DEF n
<1>9. ASSUME NEW k \in 1 .. n PROVE r[k] = (d \o v)[k]
  <2>1. CASE k <= Len(d)
    <3>1. k \in 1 .. Len(d)
      BY <1>1, <2>1
    <3> QED BY <1>5, <1>7, <2>1, <3>1
  <2>2. CASE k > Len(d)
    <3>1. r[k] = v[k - Len(d)] /\ k - Len(d) \in 1 .. Len(v)
      BY <1>6, <2>2
    <3>2. Len(d) + (k - Len(d)) = k
      BY <1>1
    <3> QED BY <1>7, <3>1, <3>2
  <2>3. k <= Len(d) \/ k > Len(d)
    BY <1>1
  <2> QED BY <2>1, <2>2, <2>3
<1>10. r \in Seq(Byte) /\ Len(r) = n
  <2>1. \A k \in 1 .. n : (d \o v)[k] \in Byte
    BY <1>7, <1>8
  <2>2. r \in [1 .. n -> Byte]
    <3>1. r = [k \in 1 .. n |-> IF k <= Len(d) THEN d[k] ELSE moved[k]]
      BY <1>3
    <3> HIDE DEF r
    <3>2. \A k \in 1 .. n : r[k] \in Byte
      BY <1>9, <2>1
    <3> QED BY <3>1, <3>2
  <2> QED BY <1>1, <2>2, FcnSeq
<1> HIDE DEF r
<1>11. r = d \o v
  BY <1>7, <1>8, <1>9, <1>10, SameSeq
<1> QED BY <1>2, <1>11

\* Truncating takes the last bytes off.
LEMMA TruncatedBytes ==
    ASSUME NEW v \in Bytes, NEW n \in Nat
    PROVE  Truncated(v, n) \in Bytes /\ Len(Truncated(v, n)) <= Len(v) /\ Len(Truncated(v, n)) \in Nat
<1> DEFINE e == IF n <= Len(v) THEN Len(v) - n ELSE 0
<1>1. v \in Seq(Byte) /\ Len(v) \in Nat
  BY DEF Bytes
<1>2. e \in 0 .. Len(v) /\ 1 \in 1 .. Len(v) + 1 /\ 1 <= e + 1
  BY <1>1
<1>3. Truncated(v, n) = SubSeq(v, 1, e)
  BY DEF Truncated
<1> HIDE DEF e
<1>4. SubSeq(v, 1, e) \in Seq(Byte) /\ Len(SubSeq(v, 1, e)) = e - 1 + 1
  BY <1>1, <1>2, Part
<1> QED BY <1>1, <1>2, <1>3, <1>4 DEF Bytes

\* trim_front by moving an offset does what draining does.
LEMMA TrimFrontOK ==
    ASSUME Vecs, Regions, HeaderShown, BodyShown, NEW n \in 0 .. Len(m.body), ZcTrimFront(n),
           m'.header = m.header, m'.body = Drained(m.body, n)
    PROVE  Regions' /\ HeaderShown' /\ BodyShown'
<1>1. CASE ~(live /\ b_start + n <= b_end)
  BY <1>1, GoneOK DEF ZcTrimFront
<1>2. CASE live /\ b_start + n <= b_end
  <2>1. b_start' = b_start + n /\ UNCHANGED <<buf, h_end, b_end, live>>
    BY <1>2 DEF ZcTrimFront
  <2>2. n \in Nat
    BY VecFacts
  <2>3. Regions'
    <3>1. b_start' \in HEADER_CAP .. b_end'
      BY <1>2, <2>1, <2>2, RegionFacts
    <3> QED BY <2>1, <3>1 DEF Regions
  <2>4. HeaderShown'
    BY <2>1 DEF HeaderShown
  <2>5. BodyShown'
    <3>1. /\ Len(m.body) = b_end - b_start
          /\ \A k \in 1 .. b_end - b_start : m.body[k] = buf[b_start + k - 1]
      BY <1>2 DEF BodyShown
    <3>2. /\ Len(Drained(m.body, n)) = Len(m.body) - n
          /\ \A k \in 1 .. Len(m.body) - n : Drained(m.body, n)[k] = m.body[n + k]
      BY VecFacts, DrainedBytes
    <3>3. b_end' - b_start' = Len(m.body) - n
      BY <2>1, <2>2, <3>1, RegionFacts
    <3>4. ASSUME NEW k \in 1 .. Len(m.body) - n PROVE Drained(m.body, n)[k] = buf'[b_start' + k - 1]
      <4>1. n + k \in 1 .. b_end - b_start /\ b_start + (n + k) - 1 = (b_start + n) + k - 1
        BY <2>2, <3>1, RegionFacts
      <4> QED BY <2>1, <3>1, <3>2, <4>1
    <3> QED BY <3>2, <3>3, <3>4 DEF BodyShown
  <2> QED BY <2>3, <2>4, <2>5
<1> QED BY <1>1, <1>2

\* Receiving into the array does what receiving into the Vec does, or panics.
LEMMA ReceiveOK ==
    ASSUME Vecs, Regions, HeaderShown, BodyShown, ZcReceive(zc_header \o zc_body),
           m'.header = <<>>, m'.body = m.header \o m.body
    PROVE  Regions' /\ HeaderShown' /\ BodyShown'
<1> DEFINE d == zc_header \o zc_body
<1>1. CASE ~(live /\ HEADER_CAP + Len(d) <= N)
  BY <1>1, GoneOK DEF ZcReceive
<1>2. CASE live /\ HEADER_CAP + Len(d) <= N
  <2>1. /\ buf' = Copied(Zeros, HEADER_CAP, d) /\ h_end' = 0 /\ b_start' = HEADER_CAP
        /\ b_end' = HEADER_CAP + Len(d) /\ live' = live
    BY <1>2 DEF ZcReceive
  <2>2. d = m.header \o m.body
    BY <1>2, ShownIsSame DEF SameView
  <2>3. d \in Bytes /\ Len(d) \in Nat
    <3>1. m.header \in Seq(Byte) /\ m.body \in Seq(Byte)
      BY VecFacts DEF Bytes
    <3>2. m.header \o m.body \in Seq(Byte)
      BY <3>1, ConcatSeq
    <3>3. \A q \in Seq(Byte) : Len(q) \in Nat
      OBVIOUS
    <3> QED BY <2>2, <3>2, <3>3 DEF Bytes
  <2> HIDE DEF d
  <2>4. /\ buf' \in [Offsets -> Byte]
        /\ \A k \in 1 .. Len(d) : HEADER_CAP + k - 1 \in Offsets => buf'[HEADER_CAP + k - 1] = d[k]
    <3>1. HEADER_CAP \in Nat
      BY Constants
    <3> QED BY <2>1, <2>3, <3>1, ZerosBytes, CopiedBytes
  <2>5. Regions'
    <3>1. 0 \in 0 .. HEADER_CAP /\ b_start' \in HEADER_CAP .. b_end' /\ b_end' \in HEADER_CAP .. N
      BY <1>2, <2>1, <2>3, Constants
    <3> QED BY <2>1, <2>4, <3>1 DEF Regions
  <2>6. HeaderShown'
    BY <2>1 DEF HeaderShown
  <2>7. BodyShown'
    <3>1. b_end' - b_start' = Len(d)
      BY <2>1, <2>3, Constants
    <3>2. ASSUME NEW k \in 1 .. Len(d) PROVE d[k] = buf'[b_start' + k - 1]
      <4>1. HEADER_CAP + k - 1 \in Offsets
        BY <1>2, <2>3, Constants DEF Offsets
      <4> QED BY <2>1, <2>4, <4>1
    <3> QED BY <2>2, <3>1, <3>2 DEF BodyShown
  <2> QED BY <2>5, <2>6, <2>7
<1> QED BY <1>1, <1>2

------------------------------------------------------------------------------
(* Every operation *)

\* What the operations do to the two Vecs, and what it amounts to in MessageBuf.
LEMMA VecsChange ==
    ASSUME Vecs, NEW v \in Bytes, Len(v) <= MaxLen
    PROVE  /\ m' = [m EXCEPT !.body = v] => Vecs' /\ m'.header = m.header /\ m'.body = v
           /\ m' = [m EXCEPT !.header = v] => Vecs' /\ m'.header = v /\ m'.body = m.body
BY DEF Vecs

\* A concatenation of bytes.
LEMMA Concatenated ==
    ASSUME NEW v \in Bytes, NEW d \in Bytes
    PROVE  v \o d \in Bytes /\ Len(v \o d) = Len(v) + Len(d) /\ Len(v) \in Nat /\ Len(d) \in Nat
BY ConcatSeq DEF Bytes

\* push_back keeps the invariant and is MessageBuf's.
LEMMA PushBackStep == ASSUME IInv, NEW d \in Data, PushBack(d) PROVE IInv' /\ Abs!push_back(d)
<1>1. d \in Bytes
  BY MessageAssumption DEF Bytes
<1>2. m.body \o d \in Bytes /\ Len(m.body \o d) <= MaxLen
  BY <1>1, Concatenated, VecFacts DEF IInv, PushBack
<1>3. Vecs' /\ m'.header = m.header /\ m'.body = m.body \o d
  BY <1>2, VecsChange DEF IInv, PushBack
<1>4. Regions' /\ HeaderShown' /\ BodyShown'
  BY <1>1, <1>3, PushBackOK DEF IInv, PushBack
<1> QED BY <1>3, <1>4 DEF IInv, Abs!push_back

\* header_push_back keeps the invariant and is MessageBuf's, also from attach_ttl.
LEMMA HeaderStep ==
    ASSUME IInv, NEW d \in Bytes, Len(m.header) + Len(d) <= MaxLen,
           m' = [m EXCEPT !.header = @ \o d], ZcHeaderPushBack(d)
    PROVE  IInv' /\ Abs!header_push_back(d)
<1>1. m.header \o d \in Bytes /\ Len(m.header \o d) <= MaxLen
  BY Concatenated, VecFacts DEF IInv
<1>2. m' = [m EXCEPT !.header = m.header \o d]
  OBVIOUS
<1>3. Vecs' /\ m'.header = m.header \o d /\ m'.body = m.body
  BY <1>1, <1>2, VecsChange DEF IInv
<1>4. Regions' /\ HeaderShown' /\ BodyShown'
  BY <1>3, HeaderPushBackOK DEF IInv
<1> QED BY <1>3, <1>4 DEF IInv, Abs!header_push_back

\* trim_front keeps the invariant and is MessageBuf's.
LEMMA TrimStep ==
    ASSUME IInv, NEW n \in 0 .. Len(m.body), m' = [m EXCEPT !.body = Drained(@, n)], ZcTrimFront(n)
    PROVE  IInv' /\ Abs!trim_front(n)
<1>1. Drained(m.body, n) \in Bytes /\ Len(Drained(m.body, n)) <= MaxLen
  <2>1. Drained(m.body, n) \in Bytes /\ Len(Drained(m.body, n)) = Len(m.body) - n
    BY DrainedBytes, VecFacts DEF IInv
  <2>2. Len(m.body) - n <= MaxLen
    BY VecFacts, Constants DEF IInv
  <2> QED BY <2>1, <2>2
<1>2. m' = [m EXCEPT !.body = Drained(m.body, n)]
  OBVIOUS
<1>3. Vecs' /\ m'.header = m.header /\ m'.body = Drained(m.body, n)
  BY <1>1, <1>2, VecsChange DEF IInv
<1>4. Regions' /\ HeaderShown' /\ BodyShown'
  BY <1>3, TrimFrontOK DEF IInv
<1>5. n <= Len(m.body)
  BY VecFacts DEF IInv
<1> QED BY <1>3, <1>4, <1>5 DEF IInv, Abs!trim_front, Drained

\* process_incoming takes off a whole TTL field or nothing.
LEMMA ProcessedTrim ==
    ASSUME NEW b \in Bytes
    PROVE  Processed(b).trim = (IF Len(b) < TtlLen THEN 0 ELSE TtlLen) /\ Processed(b).trim \in 0 .. Len(b)
<1>1. Len(b) \in Nat
  BY DEF Bytes
<1>2. Processed(b).trim = IF Len(b) < TtlLen THEN 0 ELSE TtlLen
  BY DEF Processed
<1> QED BY <1>1, <1>2, Constants

\* process_incoming keeps the invariant and is a trim_front or nothing.
LEMMA ProcessStep ==
    ASSUME IInv, process_incoming
    PROVE  IInv' /\ (\/ UNCHANGED <<m.header, m.body>>
                     \/ Abs!trim_front(TtlLen) /\ TtlLen \in 0 .. Len(m.body))
<1> DEFINE n == Processed(m.body).trim
<1>1. n = (IF Len(m.body) < TtlLen THEN 0 ELSE TtlLen) /\ n \in 0 .. Len(m.body)
  BY ProcessedTrim, VecFacts DEF IInv
<1>2. /\ m' = [m EXCEPT !.body = Drained(@, n)]
      /\ IF n > 0 THEN ZcTrimFront(n) ELSE UNCHANGED <<zcvars, live>>
  BY DEF process_incoming
<1> HIDE DEF n
<1>3. CASE n > 0
  <2>1. n = TtlLen
    BY <1>1, <1>3
  <2>2. IInv' /\ Abs!trim_front(n)
    BY <1>1, <1>2, <1>3, TrimStep
  <2> QED BY <1>1, <2>1, <2>2
<1>4. CASE ~(n > 0)
  <2>1. n = 0
    BY <1>1, <1>4, Constants
  <2>2. Drained(m.body, 0) = m.body
    <3>1. \A v \in Seq(Byte) : SubSeq(v, 0 + 1, Len(v)) = v
      OBVIOUS
    <3> QED BY <3>1, VecFacts DEF IInv, Drained, Bytes
  <2>3. m' = [m EXCEPT !.body = m.body] /\ UNCHANGED <<zcvars, live>>
    BY <1>2, <1>4, <2>1, <2>2
  <2>4. m' = m
    BY <2>3 DEF IInv, Vecs
  <2>5. UNCHANGED <<m, buf, h_end, b_start, b_end, live>>
    BY <2>3, <2>4 DEF zcvars
  <2>6. Vecs' /\ Regions'
    BY <2>5 DEF IInv, Vecs, Regions
  <2>7. HeaderShown' /\ BodyShown'
    BY <2>5 DEF IInv, HeaderShown, BodyShown
  <2>8. UNCHANGED <<m.header, m.body>>
    BY <2>4
  <2>9. IInv'
    BY <2>6, <2>7 DEF IInv
  <2> QED BY <2>8, <2>9
<1> QED BY <1>3, <1>4

\* Sending and receiving keeps the invariant and makes one body of header and body.
LEMMA TransferStep == ASSUME IInv, Transfer PROVE IInv' /\ Abs!transfer
<1> DEFINE d == m.header \o m.body
<1>1. decode_frame(encode_frame(m)).body = d
  BY RoundTripAlone, VecFacts DEF IInv
<1>2. /\ Len(d) <= MaxLen /\ m' = [header |-> <<>>, body |-> d] /\ ZcReceive(zc_header \o zc_body)
  BY <1>1 DEF Transfer
<1>3. d \in Bytes /\ <<>> \in Bytes /\ Len(<<>>) = 0 /\ 0 <= MaxLen
  BY Concatenated, VecFacts, Constants DEF IInv, Bytes
<1>4. m'.header = <<>> /\ m'.body = d
  BY <1>2
<1>5. Vecs'
  BY <1>2, <1>3 DEF Vecs
<1>6. Regions' /\ HeaderShown' /\ BodyShown'
  BY <1>2, <1>4, ReceiveOK DEF IInv
<1> QED BY <1>4, <1>5, <1>6 DEF IInv, Abs!transfer

\* Resizing and moving the bytes back puts the new ones in front.
LEMMA PushFrontStep ==
    ASSUME IInv, NEW d \in Data, PushFront(d) \/ HeaderPushFront(d)
    PROVE  IInv' /\ (Abs!push_front(d) \/ Abs!header_push_front(d))
<1>1. d \in Bytes
  BY MessageAssumption DEF Bytes
<1>2. Regions' /\ HeaderShown' /\ BodyShown'
  BY GoneOK DEF PushFront, HeaderPushFront
<1>3. CASE PushFront(d)
  <2>1. Prepended(m.body, d) = d \o m.body
    BY <1>1, PrependedIsConcat, VecFacts DEF IInv
  <2>2. d \o m.body \in Bytes /\ Len(d \o m.body) <= MaxLen
    BY <1>1, <1>3, Concatenated, VecFacts DEF IInv, PushFront
  <2>3. m' = [m EXCEPT !.body = d \o m.body]
    BY <1>3, <2>1 DEF PushFront
  <2>4. Vecs' /\ m'.header = m.header /\ m'.body = d \o m.body
    BY <2>2, <2>3, VecsChange DEF IInv
  <2> QED BY <1>2, <2>4 DEF IInv, Abs!push_front
<1>4. CASE HeaderPushFront(d)
  <2>1. Prepended(m.header, d) = d \o m.header
    BY <1>1, PrependedIsConcat, VecFacts DEF IInv
  <2>2. d \o m.header \in Bytes /\ Len(d \o m.header) <= MaxLen
    <3>1. d \o m.header \in Bytes /\ Len(d \o m.header) = Len(d) + Len(m.header)
      BY <1>1, Concatenated, VecFacts DEF IInv
    <3>2. Len(d) \in Nat /\ Len(m.header) \in Nat /\ Len(m.header) + Len(d) <= MaxLen
      BY <1>1, <1>4, Concatenated, VecFacts DEF IInv, HeaderPushFront
    <3> QED BY <3>1, <3>2, Constants
  <2>3. m' = [m EXCEPT !.header = d \o m.header]
    BY <1>4, <2>1 DEF HeaderPushFront
  <2>4. Vecs' /\ m'.header = d \o m.header /\ m'.body = m.body
    BY <2>2, <2>3, VecsChange DEF IInv
  <2> QED BY <1>2, <2>4 DEF IInv, Abs!header_push_front
<1> QED BY <1>3, <1>4

\* header_trim_front is MessageBuf's.
LEMMA HeaderTrimFrontStep ==
    ASSUME IInv, NEW n \in 1 .. MaxLen, HeaderTrimFront(n)
    PROVE  IInv' /\ Abs!header_trim_front(n) /\ n \in 0 .. Len(m.header)
<1>1. n \in 0 .. Len(m.header) /\ n <= Len(m.header)
  BY VecFacts, Constants DEF IInv, HeaderTrimFront
<1>2. Drained(m.header, n) \in Bytes /\ Len(Drained(m.header, n)) <= MaxLen
  <2>1. Drained(m.header, n) \in Bytes /\ Len(Drained(m.header, n)) = Len(m.header) - n
    BY <1>1, DrainedBytes, VecFacts DEF IInv
  <2>2. Len(m.header) - n <= MaxLen
    BY VecFacts, Constants DEF IInv
  <2> QED BY <2>1, <2>2
<1>3. m' = [m EXCEPT !.header = Drained(m.header, n)]
  BY DEF HeaderTrimFront
<1>4. Vecs' /\ m'.header = Drained(m.header, n) /\ m'.body = m.body
  BY <1>2, <1>3, VecsChange DEF IInv
<1>5. Regions' /\ HeaderShown' /\ BodyShown'
  BY GoneOK DEF HeaderTrimFront
<1> QED BY <1>1, <1>4, <1>5 DEF IInv, Abs!header_trim_front, Drained

\* truncate() to a length that would be negative empties the Vec, as trimming all of it does.
LEMMA TruncatedIsTrimmed ==
    ASSUME NEW v \in Bytes, NEW n \in Nat
    PROVE  \E j \in 0 .. Len(v) : Truncated(v, n) = SubSeq(v, 1, Len(v) - j)
<1>1. Len(v) \in Nat
  BY DEF Bytes
<1>2. CASE n <= Len(v)
  <2>1. n \in 0 .. Len(v) /\ Truncated(v, n) = SubSeq(v, 1, Len(v) - n)
    BY <1>1, <1>2 DEF Truncated
  <2> QED BY <2>1
<1>3. CASE ~(n <= Len(v))
  <2>1. Len(v) \in 0 .. Len(v) /\ Len(v) - Len(v) = 0 /\ Truncated(v, n) = SubSeq(v, 1, 0)
    BY <1>1, <1>3 DEF Truncated
  <2> QED BY <2>1
<1> QED BY <1>2, <1>3

\* trim_back and header_trim_back are MessageBuf's, and saturate.
LEMMA TrimBackStep ==
    ASSUME IInv, NEW n \in 1 .. MaxLen, TrimBack(n) \/ HeaderTrimBack(n)
    PROVE  IInv' /\ \/ \E j \in 0 .. Len(m.body) : Abs!trim_back(j)
                    \/ \E j \in 0 .. Len(m.header) : Abs!header_trim_back(j)
<1>1. n \in Nat
  BY Constants
<1>2. Regions' /\ HeaderShown' /\ BodyShown'
  BY GoneOK DEF TrimBack, HeaderTrimBack
<1>3. ASSUME NEW v \in Bytes, Len(v) <= MaxLen
      PROVE  Truncated(v, n) \in Bytes /\ Len(Truncated(v, n)) <= MaxLen
  <2>1. Truncated(v, n) \in Bytes /\ Len(Truncated(v, n)) <= Len(v) /\ Len(Truncated(v, n)) \in Nat
    BY <1>1, TruncatedBytes
  <2>2. Len(v) \in Nat
    BY DEF Bytes
  <2> QED BY <1>3, <2>1, <2>2, Constants
<1>4. CASE TrimBack(n)
  <2>1. m' = [m EXCEPT !.body = Truncated(m.body, n)]
    BY <1>4 DEF TrimBack
  <2>2. Vecs' /\ m'.header = m.header /\ m'.body = Truncated(m.body, n)
    BY <1>3, <2>1, VecsChange, VecFacts DEF IInv
  <2>3. PICK j \in 0 .. Len(m.body) : Truncated(m.body, n) = SubSeq(m.body, 1, Len(m.body) - j)
    BY <1>1, TruncatedIsTrimmed, VecFacts DEF IInv
  <2>4. Abs!trim_back(j)
    BY <2>2, <2>3 DEF Abs!trim_back
  <2> QED BY <1>2, <2>2, <2>4 DEF IInv
<1>5. CASE HeaderTrimBack(n)
  <2>1. m' = [m EXCEPT !.header = Truncated(m.header, n)]
    BY <1>5 DEF HeaderTrimBack
  <2>2. Vecs' /\ m'.header = Truncated(m.header, n) /\ m'.body = m.body
    BY <1>3, <2>1, VecsChange, VecFacts DEF IInv
  <2>3. PICK j \in 0 .. Len(m.header) : Truncated(m.header, n) = SubSeq(m.header, 1, Len(m.header) - j)
    BY <1>1, TruncatedIsTrimmed, VecFacts DEF IInv
  <2>4. Abs!header_trim_back(j)
    BY <2>2, <2>3 DEF Abs!header_trim_back
  <2> QED BY <1>2, <2>2, <2>4 DEF IInv
<1> QED BY <1>4, <1>5

\* The whole step: the invariant is kept, and MessageBuf allows it.
LEMMA MessageStep == ASSUME IInv, Next PROVE IInv' /\ [Abs!Next]_<<m.header, m.body>>
<1>1. ASSUME NEW d \in Data, PushBack(d) PROVE IInv' /\ Abs!Next
  <2>1. IInv' /\ Abs!push_back(d)
    BY <1>1, PushBackStep
  <2> QED BY <2>1 DEF Abs!Next
<1>2. ASSUME NEW d \in Data, HeaderPushBack(d) PROVE IInv' /\ Abs!Next
  <2>1. d \in Bytes
    BY MessageAssumption DEF Bytes
  <2>2. IInv' /\ Abs!header_push_back(d)
    BY <1>2, <2>1, HeaderStep DEF HeaderPushBack
  <2> QED BY <2>2 DEF Abs!Next
<1>3. ASSUME NEW d \in Data, PushFront(d) \/ HeaderPushFront(d) PROVE IInv' /\ Abs!Next
  <2>1. IInv' /\ (Abs!push_front(d) \/ Abs!header_push_front(d))
    BY <1>3, PushFrontStep
  <2> QED BY <2>1 DEF Abs!Next
<1>4. ASSUME NEW n \in 1 .. MaxLen, TrimFront(n) PROVE IInv' /\ Abs!Next
  <2>1. n \in 0 .. Len(m.body)
    BY <1>4, VecFacts, Constants DEF IInv, TrimFront
  <2>2. IInv' /\ Abs!trim_front(n)
    BY <1>4, <2>1, TrimStep DEF TrimFront
  <2> QED BY <2>1, <2>2 DEF Abs!Next
<1>5. ASSUME NEW n \in 1 .. MaxLen, HeaderTrimFront(n) PROVE IInv' /\ Abs!Next
  <2>1. IInv' /\ Abs!header_trim_front(n) /\ n \in 0 .. Len(m.header)
    BY <1>5, HeaderTrimFrontStep
  <2> QED BY <2>1 DEF Abs!Next
<1>6. ASSUME NEW n \in 1 .. MaxLen, TrimBack(n) \/ HeaderTrimBack(n) PROVE IInv' /\ Abs!Next
  <2>1. IInv' /\ (\/ \E j \in 0 .. Len(m.body) : Abs!trim_back(j)
                  \/ \E j \in 0 .. Len(m.header) : Abs!header_trim_back(j))
    BY <1>6, TrimBackStep
  <2> QED BY <2>1 DEF Abs!Next
<1>7. CASE attach_ttl
  <2>1. TtlField(MaxTtl) \in Bytes /\ Len(TtlField(MaxTtl)) = TtlLen
    BY Constants, TtlFieldBytes
  <2>2. IInv' /\ Abs!header_push_back(TtlField(MaxTtl))
    BY <1>7, <2>1, HeaderStep DEF attach_ttl
  <2> QED BY <2>2 DEF Abs!Next
<1>8. CASE process_incoming
  <2>1. IInv' /\ (\/ UNCHANGED <<m.header, m.body>>
                  \/ Abs!trim_front(TtlLen) /\ TtlLen \in 0 .. Len(m.body))
    BY <1>8, ProcessStep
  <2> QED BY <2>1 DEF Abs!Next
<1>9. CASE Transfer
  <2>1. IInv' /\ Abs!transfer
    BY <1>9, TransferStep
  <2> QED BY <2>1 DEF Abs!Next
<1> QED BY <1>1, <1>2, <1>3, <1>4, <1>5, <1>6, <1>7, <1>8, <1>9 DEF Next

\* A stuttering step changes neither.
LEMMA Stutters == ASSUME IInv, UNCHANGED vars PROVE IInv' /\ UNCHANGED <<m.header, m.body>>
<1>1. UNCHANGED <<m, buf, h_end, b_start, b_end, live>>
  BY DEF vars, zcvars
<1>2. Vecs' /\ Regions'
  BY <1>1 DEF IInv, Vecs, Regions
<1>3. HeaderShown' /\ BodyShown'
  BY <1>1 DEF IInv, HeaderShown, BodyShown
<1>4. m'.header = m.header /\ m'.body = m.body
  BY <1>1
<1> QED BY <1>2, <1>3, <1>4 DEF IInv

\* Two new messages satisfy the invariant, and MessageBuf's initial condition.
LEMMA MessageInit == ASSUME Init PROVE IInv /\ Abs!Init
<1>1. m.header = <<>> /\ m.body = <<>> /\ m = [header |-> <<>>, body |-> <<>>]
  BY DEF Init
<1>2. Vecs
  <2>1. <<>> \in Bytes /\ Len(<<>>) = 0 /\ 0 <= MaxLen
    BY Constants DEF Bytes
  <2> QED BY <1>1, <2>1 DEF Vecs
<1>3. Regions
  <2>1. 0 \in 0 .. HEADER_CAP /\ HEADER_CAP \in HEADER_CAP .. HEADER_CAP /\ HEADER_CAP \in HEADER_CAP .. N
    BY Constants
  <2> QED BY <2>1, ZerosBytes DEF Init, Regions
<1>4. HeaderShown
  <2>1. Len(<<>>) = 0 /\ \A k \in 1 .. 0 : FALSE
    OBVIOUS
  <2>2. h_end = 0
    BY DEF Init
  <2> QED BY <1>1, <2>1, <2>2 DEF HeaderShown
<1>5. BodyShown
  <2>1. b_end - b_start = 0
    BY Constants DEF Init
  <2>2. Len(<<>>) = 0 /\ \A k \in 1 .. 0 : FALSE
    OBVIOUS
  <2> QED BY <1>1, <2>1, <2>2 DEF BodyShown
<1> QED BY <1>1, <1>2, <1>3, <1>4, <1>5 DEF IInv, Abs!Init

\* The invariant holds in every reachable state.
LEMMA IInvAlways == Spec => []IInv
<1>1. Init => IInv
  BY MessageInit
<1>2. IInv /\ [Next]_vars => IInv'
  BY MessageStep, Stutters
<1> QED BY <1>1, <1>2, PTL DEF Spec

------------------------------------------------------------------------------
(* Theorems *)

\* The two Vecs hold bytes, and the offsets of the ZeroCopyMessage keep its regions
\* in their order inside the array, for every array size.
THEOREM MessageTypes == Spec => []TypeOK
<1>1. IInv => TypeOK
  BY TypeParts DEF IInv
<1> QED BY <1>1, IInvAlways, PTL

\* As long as its array is not exhausted, the ZeroCopyMessage shows the header and
\* the body that the Message has: the two implementations of the trait MessageBuf
\* cannot be told apart by any sequence of its operations.
THEOREM BuffersAgree == Spec => []SameView
<1>1. IInv => SameView
  BY ShownIsSame DEF IInv
<1> QED BY <1>1, IInvAlways, PTL

\* Message implements MessageBuf: moving bytes about to put some in front, draining
\* and truncating do what the trait says, and sending a message through the codec
\* delivers its header and its body as one body.
THEOREM MessageImplementsMessageBuf == Spec => MessageSpec
<1>1. Init => Abs!Init
  BY MessageInit
<1>2. IInv /\ [Next]_vars => [Abs!Next]_<<m.header, m.body>>
  BY MessageStep, Stutters
<1> QED BY <1>1, <1>2, IInvAlways, PTL DEF Spec, MessageSpec, Abs!Spec

\* decode_frame asks for more as long as a byte of the frame is missing.
LEMMA PrefixIncomplete ==
    ASSUME NEW n \in Lengths, NEW p \in Bytes, Len(p) = n,
           NEW k \in 0 .. LenBytes + n - 1
    PROVE  decode_frame(SubSeq(ToBe(n) \o p, 1, k)) = Incomplete
<1> DEFINE h == ToBe(n)
           w == h \o p
           s == SubSeq(w, 1, k)
<1>1. h \in Seq(Byte) /\ Len(h) = LenBytes /\ AsUsize(FromBe(h)) = n /\ p \in Seq(Byte) /\ n \in Nat
  BY LengthPrefix DEF Bytes, Lengths
<1> HIDE DEF h
<1>2. w \in Seq(Byte) /\ Len(w) = LenBytes + n /\ \A j \in 1 .. LenBytes : w[j] = h[j]
  BY <1>1, ConcatSeq
<1> HIDE DEF w
<1>3. s \in Seq(Byte) /\ Len(s) = k /\ \A j \in 1 .. k : s[j] = w[j]
  <2>1. 1 \in 1 .. Len(w) + 1 /\ k \in 0 .. Len(w) /\ 1 <= k + 1 /\ k - 1 + 1 = k
    BY <1>1, <1>2, Constants
  <2>2. SubSeq(w, 1, k) \in Seq(Byte) /\ Len(SubSeq(w, 1, k)) = k - 1 + 1
        /\ \A j \in 1 .. k - 1 + 1 : SubSeq(w, 1, k)[j] = w[1 + j - 1]
    BY <1>2, <2>1, Part
  <2>3. \A j \in 1 .. k : 1 + j - 1 = j
    OBVIOUS
  <2> QED BY <2>1, <2>2, <2>3
<1> HIDE DEF s
<1>4. ASSUME k < LenBytes PROVE decode_frame(s) = Incomplete
  BY <1>3, <1>4 DEF decode_frame
<1>5. ASSUME k >= LenBytes PROVE decode_frame(s) = Incomplete
  <2>1. SubSeq(s, 1, LenBytes) \in Seq(Byte) /\ Len(SubSeq(s, 1, LenBytes)) = LenBytes
        /\ \A j \in 1 .. LenBytes : SubSeq(s, 1, LenBytes)[j] = s[j]
    <3>1. 1 \in 1 .. Len(s) + 1 /\ LenBytes \in 0 .. Len(s) /\ 1 <= LenBytes + 1
          /\ LenBytes - 1 + 1 = LenBytes
      BY <1>1, <1>3, <1>5, Constants
    <3>2. SubSeq(s, 1, LenBytes) \in Seq(Byte) /\ Len(SubSeq(s, 1, LenBytes)) = LenBytes - 1 + 1
          /\ \A j \in 1 .. LenBytes - 1 + 1 : SubSeq(s, 1, LenBytes)[j] = s[1 + j - 1]
      BY <1>3, <3>1, Part
    <3>3. \A j \in 1 .. LenBytes : 1 + j - 1 = j
      OBVIOUS
    <3> QED BY <3>1, <3>2, <3>3
  <2>2. \A j \in 1 .. LenBytes : j \in 1 .. k
    BY <1>1, <1>5, Constants
  <2>3. \A j \in 1 .. LenBytes : SubSeq(s, 1, LenBytes)[j] = h[j]
    BY <1>2, <1>3, <2>1, <2>2
  <2>4. SubSeq(s, 1, LenBytes) = h
    <3> DEFINE q == SubSeq(s, 1, LenBytes)
    <3>1. q \in Seq(Byte) /\ Len(q) = Len(h) /\ \A j \in 1 .. Len(q) : q[j] = h[j]
      BY <1>1, <2>1, <2>3
    <3> HIDE DEF q
    <3>2. q = h
      BY <1>1, <3>1, SameSeq
    <3> QED BY <3>2 DEF q
  <2>5. Len(s) - LenBytes < n
    BY <1>1, <1>3, Constants
  <2>6. Len(s) - LenBytes < AsUsize(FromBe(SubSeq(s, 1, LenBytes)))
    BY <1>1, <2>4, <2>5
  <2> QED BY <2>6 DEF decode_frame
<1>6. decode_frame(s) = Incomplete
  <2>1. k < LenBytes \/ k >= LenBytes
    BY Constants
  <2> QED BY <1>4, <1>5, <2>1
<1> QED BY <1>6 DEF s, w, h

\* decode_frame never takes more than there is.
LEMMA NeverBeyond ==
    ASSUME NEW s \in Bytes
    PROVE  decode_frame(s).used <= Len(s)
<1> DEFINE len == AsUsize(FromBe(SubSeq(s, 1, LenBytes)))
<1>1. Len(s) \in Nat
  BY DEF Bytes
<1>2. CASE Len(s) < LenBytes \/ Len(s) - LenBytes < len
  <2>1. decode_frame(s).used = 0
    BY <1>2 DEF decode_frame, Incomplete
  <2> QED BY <1>1, <2>1
<1>3. CASE ~(Len(s) < LenBytes \/ Len(s) - LenBytes < len)
  <2>1. decode_frame(s).used = LenBytes + len
    BY <1>3 DEF decode_frame
  <2>2. len \in Nat
    <3>1. LenBytes \in 0 .. Len(s) /\ LenBytes - 1 + 1 = LenBytes /\ 1 \in 1 .. Len(s) + 1 /\ 1 <= LenBytes + 1
      BY <1>1, <1>3, Constants
    <3>2. SubSeq(s, 1, LenBytes) \in Seq(Byte) /\ Len(SubSeq(s, 1, LenBytes)) = LenBytes
      BY <3>1, Part DEF Bytes
    <3>3. SubSeq(s, 1, LenBytes) \in [1 .. LenBytes -> Byte]
      <4>1. \A q \in Seq(Byte) : q \in [1 .. Len(q) -> Byte]
        OBVIOUS
      <4> QED BY <3>2, <4>1
    <3> QED BY <3>3, LengthField, UsizeHolds
  <2> HIDE DEF len
  <2> QED BY <1>1, <1>3, <2>1, <2>2, Constants
<1> QED BY <1>2, <1>3

\* The stateless codec, for messages of any size a frame can announce: decode_frame
\* takes exactly the frame that encode_frame wrote off the bytes it is given,
\* whatever follows them, and waits for the last byte of it; on any other bytes it
\* stays within them.
THEOREM FramesAreExact == Spec => []CodecExact
<1>1. ASSUME IInv PROVE CodecExact
  <2> DEFINE w == encode_frame(m)
             p == m.header \o m.body
  <2>1. /\ m.header \in Bytes /\ m.body \in Bytes /\ Len(m.header) + Len(m.body) \in Lengths
        /\ Len(m.header) \in Nat /\ Len(m.body) \in Nat
    BY <1>1, VecFacts DEF IInv
  <2>2. p \in Bytes /\ Len(p) = Len(m.header) + Len(m.body)
    BY <2>1, Concatenated
  <2>3. Len(p) \in Lengths /\ Len(p) \in Nat
    <3>1. \A l \in Lengths : l \in Nat
      BY DEF Lengths
    <3> HIDE DEF p
    <3> QED BY <2>1, <2>2, <3>1
  <2>4. \A x \in Bytes : /\ w = ToBe(Len(p)) \o p /\ w \in Bytes /\ Len(w) = LenBytes + Len(p)
                         /\ decode_frame(w \o x) = [body |-> p, used |-> Len(w)]
    BY <2>1, RoundTrip
  <2>5. <<>> \in Bytes /\ Data \subseteq Bytes
    BY MessageAssumption DEF Bytes
  <2>6. w = ToBe(Len(p)) \o p /\ w \in Bytes /\ Len(w) = LenBytes + Len(p)
    BY <2>4, <2>5
  <2>7. \A x \in Data \cup {<<>>, w} : decode_frame(w \o x) = [body |-> p, used |-> Len(w)]
    BY <2>4, <2>5, <2>6
  <2> HIDE DEF p, w
  <2>8. ASSUME NEW k \in 0 .. Len(w) - 1 PROVE decode_frame(SubSeq(w, 1, k)) = Incomplete
    <3>1. k \in 0 .. LenBytes + Len(p) - 1
      BY <2>3, <2>6, <2>8, Constants
    <3>2. decode_frame(SubSeq(ToBe(Len(p)) \o p, 1, k)) = Incomplete
      BY <2>2, <2>3, <3>1, PrefixIncomplete
    <3> QED BY <2>6, <3>2
  <2>9. decode_frame(m.body).used <= Len(m.body)
    BY <2>1, NeverBeyond
  <2> QED BY <2>7, <2>8, <2>9 DEF CodecExact, p, w
<1> QED BY <1>1, IInvAlways, PTL

\* PAIR1 carries every TTL and every body across: what attach_ttl puts into the
\* header is what process_incoming finds at the front of the received body, and
\* the rest is the body that was sent.
THEOREM Pair1DeliversAlways == Spec => []Pair1Delivers
<1>1. ASSUME IInv, NEW t \in Ttls
      PROVE  LET got == decode_frame(encode_frame([m EXCEPT !.header = TtlField(t)])).body
                 r   == Processed(got)
             IN r.err = "no" /\ r.ttl = t /\ Drained(got, r.trim) = m.body
  <2> DEFINE f == TtlField(t)
             msg == [m EXCEPT !.header = f]
             got == f \o m.body
  <2>1. m.body \in Bytes /\ Len(m.body) \in Nat /\ Len(m.body) <= MaxLen
    BY <1>1, VecFacts DEF IInv
  <2>2. f \in Bytes /\ Len(f) = TtlLen /\ f[TtlLen] = t
    BY TtlFieldBytes
  <2>3. msg.header = f /\ msg.body = m.body
    BY <1>1 DEF IInv, Vecs
  <2> HIDE DEF f, msg
  <2>4. decode_frame(encode_frame(msg)).body = got
    <3>1. Len(f) + Len(m.body) \in Lengths
      BY <2>1, <2>2, Constants DEF Lengths
    <3> QED BY <2>1, <2>2, <2>3, <3>1, RoundTripAlone
  <2>5. Len(got) = TtlLen + Len(m.body) /\ got[TtlLen] = t
    <3>1. /\ Len(got) = Len(f) + Len(m.body)
          /\ \A k \in 1 .. Len(f) : got[k] = f[k]
      <4>1. f \in Seq(Byte) /\ m.body \in Seq(Byte)
        BY <2>1, <2>2 DEF Bytes
      <4> QED BY <4>1, ConcatSeq
    <3>2. TtlLen \in 1 .. Len(f)
      BY <2>2, Constants
    <3> QED BY <2>2, <3>1, <3>2
  <2>6. SubSeq(got, TtlLen + 1, Len(got)) = m.body
    <3>1. SubSeq(f \o m.body \o <<>>, Len(f) + 1, Len(f) + Len(m.body)) = m.body
      BY <2>1, <2>2, Unconcat DEF Bytes
    <3>2. \A a, b \in Seq(Byte) : a \o b \o <<>> = a \o b
      OBVIOUS
    <3>3. f \o m.body \o <<>> = got
      BY <2>1, <2>2, <3>2 DEF Bytes
    <3> QED BY <2>2, <2>5, <3>1, <3>3
  <2> HIDE DEF got
  <2>7. TtlOf(got) = t /\ t # 0
    <3>1. t % TtlMask = t /\ t # 0
      BY Constants DEF Ttls
    <3> QED BY <2>5, <3>1 DEF TtlOf
  <2>8. ~(Len(got) < TtlLen)
    BY <2>1, <2>5, Constants
  <2>9. Processed(got) = [ttl |-> t, err |-> "no", trim |-> TtlLen]
    BY <2>7, <2>8 DEF Processed
  <2>10. Drained(got, TtlLen) = m.body
    BY <2>6 DEF Drained
  <2> QED BY <2>4, <2>9, <2>10 DEF msg, f
<1>2. IInv => Pair1Delivers
  BY <1>1 DEF Pair1Delivers
<1> QED BY <1>2, IInvAlways, PTL
==============================================================================
