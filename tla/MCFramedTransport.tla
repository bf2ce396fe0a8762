------------------------- MODULE MCFramedTransport -------------------------
(* Instances of FramedTransport for TLC. *)
EXTENDS FramedTransport

\* An empty message, a body only, a header with a body.
MCMessages == {[header |-> <<>>, body |-> <<>>],
               [header |-> <<>>, body |-> <<1>>],
               [header |-> <<1>>, body |-> <<0>>]}

\* One more message, above the limit of two bytes.
MCMessagesOversize == MCMessages \cup {[header |-> <<0>>, body |-> <<1, 1>>]}
=============================================================================
