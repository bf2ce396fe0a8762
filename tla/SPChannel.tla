------------------------------ MODULE SPChannel ------------------------------
(***************************************************************************)
(* What one direction of an SP connection promises the sockets above it:   *)
(* whole messages, in the order they were sent, none twice and none        *)
(* invented.  A connection may fail, so nothing says that every message    *)
(* arrives.  FramedTransport implements this specification; the socket     *)
(* modules (ReqRep, Survey, Pipeline, Fanout) rely on it when they model   *)
(* a connection as a queue of messages.                                    *)
(***************************************************************************)
EXTENDS Naturals, Sequences

CONSTANT Payload    \* what a message can carry

VARIABLES sent,     \* every message accepted for sending, in order
          delivered \* every message handed to the receiver, in order

chanvars == <<sent, delivered>>

ChanInit == sent = <<>> /\ delivered = <<>>

ChanSend == /\ \E p \in Payload : sent' = Append(sent, p)
            /\ UNCHANGED delivered

ChanRecv == /\ Len(delivered) < Len(sent)
            /\ delivered' = Append(delivered, sent[Len(delivered) + 1])
            /\ UNCHANGED sent

ChanNext == ChanSend \/ ChanRecv

ChanSpec == ChanInit /\ [][ChanNext]_chanvars
==============================================================================
