----------------------------- MODULE MessageBuf -----------------------------
(***************************************************************************)
(* What the trait MessageBuf and the doc comments of Message promise       *)
(* (message.rs): a header and a body that do not overlap, each of which    *)
(* changes at the ends only.  An operation that panics changes nothing.    *)
(***************************************************************************)
EXTENDS Integers, Sequences

CONSTANT Data   \* the byte strings operations are called with

VARIABLES header, body

Init == header = <<>> /\ body = <<>>

push_back(d)         == body' = body \o d /\ UNCHANGED header
push_front(d)        == body' = d \o body /\ UNCHANGED header
header_push_back(d)  == header' = header \o d /\ UNCHANGED body
header_push_front(d) == header' = d \o header /\ UNCHANGED body

\* The n first bytes go, or the n last ones.
trim_front(n)        == n <= Len(body) /\ body' = SubSeq(body, n + 1, Len(body)) /\ UNCHANGED header
header_trim_front(n) == n <= Len(header) /\ header' = SubSeq(header, n + 1, Len(header)) /\ UNCHANGED body
trim_back(n)         == body' = SubSeq(body, 1, Len(body) - n) /\ UNCHANGED header
header_trim_back(n)  == header' = SubSeq(header, 1, Len(header) - n) /\ UNCHANGED body

\* The peer gets the bytes of the header first, all of them in its body.
transfer == header' = <<>> /\ body' = header \o body

Next ==
    \/ \E d \in Data : push_back(d) \/ push_front(d) \/ header_push_back(d) \/ header_push_front(d)
    \/ \E n \in 0 .. Len(body) : trim_front(n) \/ trim_back(n)
    \/ \E n \in 0 .. Len(header) : header_trim_front(n) \/ header_trim_back(n)
    \/ transfer

Spec == Init /\ [][Next]_<<header, body>>
=============================================================================
