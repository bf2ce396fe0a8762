------------------------------ MODULE Datagram ------------------------------
(***************************************************************************)
(* The UDP transport (transport/udp.rs) under its hardest load: several    *)
(* Req0 sockets, each dialled to the same Rep0.  There is no handshake and *)
(* no connection.  A dialler's socket is connected and takes datagrams of  *)
(* the server only; the server has one socket for everybody, takes what    *)
(* any program sends to it, and sends to the address it heard from last.   *)
(* Each Req0 counts its requests from 1, so ids of different clients are   *)
(* the same ids.  (They stay below the high bit here; ReqRep is about it.) *)
(*                                                                         *)
(* Datagrams are lost, doubled and reordered, the server crashes and comes *)
(* back, calls and Responders are dropped.  A request's payload is its     *)
(* client and number, and the server echoes it.                            *)
(***************************************************************************)
EXTENDS Integers

CONSTANTS
    Clients, Server, Stranger, \* addresses; Stranger: some other program
    Nobody,                    \* peer: None
    MaxCalls,                  \* bound: request() calls per client
    Once,                      \* bound: the clients that make one call only
    MaxFaults                  \* bound: losses, duplicates, strays, crashes, drops

ASSUME DatagramAssumption ==
    /\ Server \notin Clients /\ Stranger \notin Clients \cup {Server}
    /\ Nobody \notin Clients \cup {Server, Stranger}
    /\ MaxCalls \in Nat /\ MaxFaults \in Nat /\ Once \subseteq Clients

Calls == 1 .. MaxCalls
Short == 0         \* in the place of an id: fewer than four bytes

Payload == (Clients \cup {Stranger}) \X (Calls \cup {0})
NoPayload == <<Nobody, 0>>

Datagrams == [from : Clients \cup {Server, Stranger}, to : Clients \cup {Server},
              id : Calls \cup {Short}, body : Payload]
NoRequest == [id |-> Short, body |-> NoPayload]

VARIABLES
    calls,  \* per client: calls made; the last one's number is its id
    pc,     \* per client: "idle", "send" or "recv": where request() is
    err,    \* per client: an ICMP error is waiting on its socket
    got,    \* per client and call: the payload request() returned
    net,    \* datagrams on the wire and in socket buffers
    up,     \* the server runs
    peer,   \* UdpTransport::peer of the server
    req,    \* the request its Responder is for
    faults

clientvars == <<calls, pc, err, got>>
servervars == <<up, peer, req>>
udpvars == <<clientvars, net, servervars, faults>>

UdpInit ==
    /\ calls = [c \in Clients |-> 0] /\ pc = [c \in Clients |-> "idle"]
    /\ err = [c \in Clients |-> FALSE]
    /\ got = [c \in Clients |-> [k \in Calls |-> NoPayload]]
    /\ net = {} /\ up = TRUE /\ peer = Nobody /\ req = NoRequest
    /\ faults = 0

Fault == faults < MaxFaults /\ faults' = faults + 1
Goes(c, p) == pc' = [pc EXCEPT ![c] = p]

\* d is taken off its socket, and may come a second time.
Taken(d) ==
    \/ net' = net \ {d} /\ UNCHANGED faults
    \/ net' = net /\ Fault

------------------------------------------------------------------------------
(* Req0 over a connected UdpTransport *)

Call(c) ==
    /\ pc[c] = "idle" /\ calls[c] < MaxCalls /\ (c \in Once => calls[c] = 0)
    /\ calls' = [calls EXCEPT ![c] = @ + 1] /\ Goes(c, "send")
    /\ UNCHANGED <<err, got, net, servervars, faults>>

\* UdpTransport::send: id and payload are one datagram.
Send(c) ==
    /\ pc[c] = "send" /\ ~err[c]
    /\ net' = net \cup {[from |-> c, to |-> Server, id |-> calls[c], body |-> <<c, calls[c]>>]}
    /\ Goes(c, "recv")
    /\ UNCHANGED <<calls, err, got, servervars, faults>>

\* send or recv fails, and request() with it: the kernel reports an ICMP error, or
\* the message does not fit a datagram.
RequestFails(c) ==
    /\ \/ pc[c] # "idle" /\ err[c] /\ UNCHANGED faults
       \/ pc[c] = "send" /\ Fault
    /\ err' = [err EXCEPT ![c] = FALSE] /\ Goes(c, "idle")
    /\ UNCHANGED <<calls, got, net, servervars>>

\* recv, and process_incoming: a reply to an earlier call is skipped.
Recv(c, d) ==
    /\ pc[c] = "recv" /\ ~err[c] /\ d.to = c
    /\ Taken(d)
    /\ IF d.id = calls[c]
       THEN got' = [got EXCEPT ![c][d.id] = d.body] /\ Goes(c, "idle")
       ELSE UNCHANGED <<got, pc>>
    /\ UNCHANGED <<calls, err, servervars>>

\* Mutant: the timeout only starts another receive.
ResendForgets(c) ==
    /\ pc[c] = "recv" /\ ~err[c] /\ Goes(c, "recv")
    /\ UNCHANGED <<calls, err, got, net, servervars, faults>>

\* resend_time elapses, and the request is sent again.
ResendTimeout(c) ==
    /\ pc[c] = "recv" /\ ~err[c] /\ Goes(c, "send")
    /\ UNCHANGED <<calls, err, got, net, servervars, faults>>

\* The request future is dropped.
Cancel(c) ==
    /\ pc[c] # "idle" /\ Fault /\ Goes(c, "idle")
    /\ UNCHANGED <<calls, err, got, net, servervars>>

------------------------------------------------------------------------------
(* Rep0 over a bound UdpTransport *)

\* Mutant: the peer is the sender of the first datagram.
PeerFirst(d) == IF peer = Nobody THEN d.from ELSE peer

\* recv records the sender of every datagram.
PeerAfter(d) == d.from

\* receive: a datagram without an id is an error, and leaves no Responder.
Receive(d) ==
    /\ up /\ req = NoRequest /\ d.to = Server
    /\ Taken(d)
    /\ peer' = PeerAfter(d)
    /\ req' = IF d.id = Short THEN NoRequest ELSE [id |-> d.id, body |-> d.body]
    /\ UNCHANGED <<clientvars, up>>

\* Responder::reply, with the id of the request.
Reply ==
    /\ req # NoRequest
    /\ net' = IF peer = Stranger THEN net
              ELSE net \cup {[from |-> Server, to |-> peer, id |-> req.id, body |-> req.body]}
    /\ req' = NoRequest
    /\ UNCHANGED <<clientvars, up, peer, faults>>

\* The Responder is dropped, or its reply does not fit a datagram.
DropResponder ==
    /\ req # NoRequest /\ Fault /\ req' = NoRequest
    /\ UNCHANGED <<clientvars, net, up, peer>>

Crash ==
    /\ up /\ Fault
    /\ up' = FALSE /\ peer' = Nobody /\ req' = NoRequest
    /\ net' \in {net, {d \in net : d.to # Server}}
    /\ UNCHANGED clientvars

\* listen binds a new socket: it knows no peer.
Restart ==
    /\ ~up /\ up' = TRUE
    /\ UNCHANGED <<clientvars, net, peer, req, faults>>

------------------------------------------------------------------------------
(* The network *)

Lose(d) == Fault /\ net' = net \ {d} /\ UNCHANGED <<clientvars, servervars>>

\* Nobody has the port: the sender's host may be told.
Unreachable(d) ==
    /\ ~up /\ d.to = Server /\ net' = net \ {d}
    /\ err' \in {err, [c \in Clients |-> err[c] \/ c = d.from]}
    /\ UNCHANGED <<calls, pc, got, servervars, faults>>

\* Another program sends to the server: too short, or read as a request.
Stray ==
    /\ Fault
    /\ \E k \in Calls \cup {Short} :
          net' = net \cup {[from |-> Stranger, to |-> Server, id |-> k, body |-> <<Stranger, k>>]}
    /\ UNCHANGED <<clientvars, servervars>>

UdpNext ==
    \/ \E c \in Clients : \/ Call(c) \/ Send(c) \/ RequestFails(c) \/ ResendTimeout(c) \/ Cancel(c)
                          \/ \E d \in net : Recv(c, d)
    \/ \E d \in net : Receive(d) \/ Lose(d) \/ Unreachable(d)
    \/ Reply \/ DropResponder \/ Crash \/ Restart \/ Stray

UdpSpec == UdpInit /\ [][UdpNext]_udpvars

\* Tasks run and the server is started again.  Every sender's datagrams get their
\* turn in the server's socket buffer, however many the others send; and a client
\* is not always just sending again when an answer arrives.
ReceiveFrom(a) == \E d \in net : d.from = a /\ Receive(d)
RecvReply(c) == \E d \in net : d.to = c /\ d.id = calls[c] /\ Recv(c, d)
FairUdpSpec ==
    /\ UdpSpec /\ WF_udpvars(Reply) /\ WF_udpvars(Restart)
    /\ \A c \in Clients : /\ WF_udpvars(Send(c)) /\ WF_udpvars(RequestFails(c))
                          /\ WF_udpvars(ResendTimeout(c))
                          /\ SF_udpvars(ReceiveFrom(c)) /\ SF_udpvars(RecvReply(c))

------------------------------------------------------------------------------
(* Properties *)

\* The types, the induction hypothesis of LinkProofs; a request in the server's hands
\* has a peer to be answered to.
UdpTypeOK ==
    /\ calls \in [Clients -> 0 .. MaxCalls] /\ pc \in [Clients -> {"idle", "send", "recv"}]
    /\ err \in [Clients -> BOOLEAN]
    /\ got \in [Clients -> [Calls -> Payload \cup {NoPayload}]]
    /\ net \subseteq Datagrams
    /\ up \in BOOLEAN /\ peer \in Clients \cup {Stranger, Nobody}
    /\ req \in {NoRequest} \cup [id : Calls, body : Payload]
    /\ (req # NoRequest => up /\ peer # Nobody)
    /\ faults \in 0 .. MaxFaults

\* A call returns the answer to itself, although the ids of all clients are the
\* same, the server sends to whoever it heard from last, and old, doubled and
\* foreign datagrams are under way: while a Responder exists the peer is the one
\* that asked, since nothing else is received meanwhile.
ReplyIsOwn ==
    /\ \A c \in Clients, k \in Calls : got[c][k] \in {NoPayload, <<c, k>>}
    /\ req # NoRequest => req.body[1] = peer

\* With resend_time every call ends, by its reply or by an error, if datagrams
\* are not lost for ever.
CallsEnd == \A c \in Clients : pc[c] # "idle" ~> pc[c] = "idle"
==============================================================================
