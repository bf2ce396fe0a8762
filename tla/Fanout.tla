------------------------------- MODULE Fanout -------------------------------
(***************************************************************************)
(* A hub with many peers: Pub0 (pubsub0.rs), Bus0 (bus0.rs) and Push0Fan   *)
(* (pipeline0.rs).  All keep a Vec of transports and admit connections     *)
(* through a listener.  Pub0 and Bus0 send each message to every peer in a *)
(* loop that removes the peers whose send fails with swap_remove; Bus0     *)
(* polls the peers for incoming messages; Push0Fan sends each message to   *)
(* one worker, in turn, and removes nobody.                                *)
(* Peers connect, shake hands late or wrongly, read slowly and break at    *)
(* any point of these loops; every operation may be dropped halfway.       *)
(*                                                                         *)
(* Connections are numbered in the order in which they are opened; a peer  *)
(* that redials is another one.  The hub's messages are 1, 2, ...          *)
(***************************************************************************)
EXTENDS Integers, Sequences, SequencesExt

CONSTANTS
    Scenarios,  \* what is explored: a set of Scenario records
    MaxConns,   \* bound: connections of any scenario
    MaxMsgs,    \* bound: publish(), broadcast() or push() calls of any scenario
    Cap         \* bound: messages a stream buffers, per direction

\* "BusStream" is Bus0::bind with its AcceptStream, "BusDial" is Bus0::dial.
HubKinds == {"Pub0", "Bus0", "BusStream", "BusDial", "PushFan"}

Conns == 1 .. MaxConns

\* A hub and the bounds it is explored under: connections peers may open, messages
\* sent, futures dropped, peers that shake hands under the wrong protocol, and peers
\* with messages for the hub at one time.
Scenario == [kind : HubKinds, conns : 0 .. MaxConns, msgs : 0 .. MaxMsgs,
             cancels : Nat, bad : Nat, talk : Nat]

ASSUME FanoutAssumption ==
    /\ MaxConns \in Nat /\ MaxMsgs \in Nat /\ Cap \in Nat \ {0}
    /\ Scenarios \subseteq Scenario

NoConn == 0

VARIABLES
    \* the hub
    sc,       \* the scenario
    peers,    \* subscribers, peers or workers: a sequence of connections
    next,     \* Push0Fan: the worker whose turn it is
    pc,       \* "idle", "wait", "drain", "handshake", "send", "push", "poll", "yield" or "from"
    op,       \* the operation running: "none", "wait", "publish" (or broadcast, push),
              \* "accept_pending", "recv_any", "recv_from"
    want,     \* the n of wait_for_subscribers or listen_and_accept (0 before it)
    i,        \* loop index, or the peer push and recv_from are about
    shaking,  \* the connection whose handshake the hub is in
    \* AcceptStream
    acc,      \* the connection whose handshake accept() is in
    ready,    \* accepted peers not added to the hub yet
    \* connections
    conn,     \* "new", "up", "broken" (by peer or network) or "closed" (by the hub)
    hello,    \* what the peer has sent of its handshake: "none", "good" or "bad"
    backlog,  \* connections the listener has not accepted yet
    sentTo,   \* messages accepted by the connection's send()
    nread,    \* how many of them the peer has read
    inbox,    \* how many messages from the peer wait to be received
    \* history
    nmsg,     \* messages published
    targets,  \* peers at the start of the send loop
    cancels

kind == sc.kind

hubvars  == <<peers, next, pc, op, want, i, shaking>>
accvars  == <<sc, acc, ready>>
connvars == <<conn, hello, backlog, sentTo, nread, inbox>>
histvars == <<nmsg, targets, cancels>>
vars == <<hubvars, accvars, connvars, histvars>>

Init ==
    /\ sc \in Scenarios
    /\ peers = <<>> /\ next = 1 /\ pc = "idle" /\ op = "none" /\ want = 0 /\ i = 1
    /\ shaking = NoConn /\ acc = NoConn /\ ready = {}
    /\ conn = [c \in Conns |-> "new"] /\ hello = [c \in Conns |-> "none"]
    /\ backlog = <<>> /\ sentTo = [c \in Conns |-> <<>>]
    /\ nread = [c \in Conns |-> 0] /\ inbox = [c \in Conns |-> 0]
    /\ nmsg = 0 /\ targets = {} /\ cancels = 0

\* The hub drops a transport or a raw connection.
CloseAll(S) == conn' = [c \in Conns |-> IF c \in S /\ conn[c] = "up" THEN "closed"
                                        ELSE conn[c]]
Close(c) == CloseAll({c})

Buses == {"Bus0", "BusStream", "BusDial"}

\* Has the constructor returned?  A Bus0 or Push0Fan exists once it has accepted
\* its first peers, or has dialled its only one.
Constructed == kind \in {"Bus0", "BusDial", "PushFan"} => want > 0 /\ op # "wait"

\* Push0Fan drops its listener on construction; a dialled Bus0 has none.
Listening == kind # "BusDial" /\ ~(kind = "PushFan" /\ Constructed)

------------------------------------------------------------------------------
(* Peers *)

Connect(c) ==
    /\ conn[c] = "new" /\ c <= sc.conns /\ \A d \in 1 .. c - 1 : conn[d] # "new"
    /\ Listening
    /\ conn' = [conn EXCEPT ![c] = "up"]
    /\ backlog' = Append(backlog, c)
    /\ UNCHANGED <<hubvars, accvars, hello, sentTo, nread, inbox, histvars>>

\* FramedTransport::connect of the peer writes its handshake.
Hello(c) ==
    /\ conn[c] = "up" /\ hello[c] = "none"
    /\ \/ hello' = [hello EXCEPT ![c] = "good"]
       \/ /\ Cardinality({d \in Conns : hello[d] = "bad"}) < sc.bad
          /\ hello' = [hello EXCEPT ![c] = "bad"]
    /\ UNCHANGED <<hubvars, accvars, conn, backlog, sentTo, nread, inbox, histvars>>

\* The peer takes a message off the stream.
Read(c) ==
    /\ conn[c] = "up" /\ nread[c] < Len(sentTo[c])
    /\ nread' = [nread EXCEPT ![c] = @ + 1]
    /\ UNCHANGED <<hubvars, accvars, conn, hello, backlog, sentTo, inbox, histvars>>

\* A Bus0 peer broadcasts, once its own connect has succeeded: that takes the
\* hub's handshake, which the hub writes before it reads the peer's.
Talk(c) ==
    /\ kind \in Buses /\ conn[c] = "up" /\ hello[c] = "good" /\ inbox[c] < Cap
    /\ Cardinality({d \in Conns : inbox[d] > 0}) < sc.talk
    /\ c \in Range(peers) \cup ready \cup {shaking, acc}
    /\ inbox' = [inbox EXCEPT ![c] = @ + 1]
    /\ UNCHANGED <<hubvars, accvars, conn, hello, backlog, sentTo, nread, histvars>>

Break(c) ==
    /\ conn[c] = "up"
    /\ conn' = [conn EXCEPT ![c] = "broken"]
    /\ inbox' \in {[inbox EXCEPT ![c] = n] : n \in 0 .. inbox[c]}
    /\ UNCHANGED <<hubvars, accvars, hello, backlog, sentTo, nread, histvars>>

------------------------------------------------------------------------------
(* Admission *)

\* wait_for_subscribers(n), or listen_and_accept(n), which constructs a Bus0 or a
\* Push0Fan.
WaitFor(n) ==
    /\ pc = "idle" /\ n > Len(peers)
    /\ kind = "Pub0" \/ (kind \in {"Bus0", "PushFan"} /\ want = 0)
    /\ pc' = "wait" /\ op' = "wait" /\ want' = n
    /\ UNCHANGED <<peers, next, i, shaking, accvars, connvars, histvars>>

\* Bus0::dial returns with its one peer.
Dial(c) ==
    /\ kind = "BusDial" /\ want = 0 /\ c = 1
    /\ want' = 1 /\ peers' = <<c>>
    /\ conn' = [conn EXCEPT ![c] = "up"] /\ hello' = [hello EXCEPT ![c] = "good"]
    /\ UNCHANGED <<next, pc, op, i, shaking, accvars, backlog, sentTo, nread, inbox, histvars>>

\* accept_pending.
AcceptPending ==
    /\ kind = "Bus0" /\ Constructed /\ pc = "idle"
    /\ pc' = "drain" /\ op' = "accept_pending"
    /\ UNCHANGED <<peers, next, want, i, shaking, accvars, connvars, histvars>>

\* accept_raw (in the biased select of the drain loops) or the accept inside
\* accept_as_transport yields a connection; its handshake is awaited next.
AcceptRaw ==
    /\ pc \in {"wait", "drain"} /\ backlog # <<>>
    /\ shaking' = Head(backlog) /\ backlog' = Tail(backlog)
    /\ pc' = "handshake"
    /\ UNCHANGED <<peers, next, op, want, i, accvars, conn, hello, sentTo, nread, inbox, histvars>>

\* The accept queue is empty, or accept_raw fails, as it may at any time and always
\* does on a QUIC listener: drain_incoming is over, publish goes on to its send loop,
\* accept_pending returns.
DrainDone ==
    /\ pc = "drain"
    /\ IF op = "publish"
       THEN pc' = "send" /\ i' = 1 /\ targets' = Range(peers) /\ UNCHANGED op
       ELSE pc' = "idle" /\ op' = "none" /\ UNCHANGED <<i, targets>>
    /\ UNCHANGED <<peers, next, want, shaking, accvars, connvars, nmsg, cancels>>

\* How FramedTransport::connect of the hub may end: a peer that is gone may
\* have left a good handshake behind.
HandshakeOver(c) == conn[c] # "up" \/ hello[c] # "none"
Outcomes(c) == IF hello[c] # "good" THEN {FALSE}
               ELSE IF conn[c] = "up" THEN {TRUE} ELSE BOOLEAN

\* Mutant: only a handshake that succeeds ends.
HandshakeEndsOk ==
    /\ pc = "handshake" /\ conn[shaking] = "up" /\ hello[shaking] = "good"
    /\ peers' = Append(peers, shaking) /\ shaking' = NoConn
    /\ IF op = "wait" /\ Len(peers) + 1 >= want THEN pc' = "idle" /\ op' = "none"
       ELSE pc' = (IF op = "wait" THEN "wait" ELSE "drain") /\ UNCHANGED op
    /\ UNCHANGED <<next, want, i, accvars, connvars, histvars>>

\* into_transport succeeds, or fails and its error is ignored.  The listener of a
\* Push0Fan is dropped with the last worker, and whoever is still queued with it.
HandshakeEnds ==
    /\ pc = "handshake" /\ HandshakeOver(shaking)
    /\ shaking' = NoConn
    /\ \E ok \in Outcomes(shaking) :
          LET done    == op = "wait" /\ Len(peers') >= want
              refused == IF ok THEN {} ELSE {shaking}
              unheard == IF done /\ kind = "PushFan" THEN Range(backlog) ELSE {}
          IN /\ peers' = IF ok THEN Append(peers, shaking) ELSE peers
             /\ CloseAll(refused \cup unheard)
             /\ backlog' = IF done /\ kind = "PushFan" THEN <<>> ELSE backlog
             /\ IF done THEN pc' = "idle" /\ op' = "none"
                ELSE pc' = (IF op = "wait" THEN "wait" ELSE "drain") /\ UNCHANGED op
    /\ UNCHANGED <<next, want, i, accvars, hello, sentTo, nread, inbox, histvars>>

\* AcceptStream::accept, in a task of its own.
StreamAccept ==
    /\ kind = "BusStream" /\ acc = NoConn /\ backlog # <<>>
    /\ acc' = Head(backlog) /\ backlog' = Tail(backlog)
    /\ UNCHANGED <<hubvars, sc, ready, conn, hello, sentTo, nread, inbox, histvars>>

StreamAccepted ==
    /\ acc # NoConn /\ HandshakeOver(acc)
    /\ \E ok \in Outcomes(acc) :
          IF ok THEN ready' = ready \cup {acc} /\ UNCHANGED conn
                ELSE Close(acc) /\ UNCHANGED ready
    /\ acc' = NoConn
    /\ UNCHANGED <<hubvars, sc, hello, backlog, sentTo, nread, inbox, histvars>>

\* Bus0::add_peer.
AddPeer(c) ==
    /\ pc = "idle" /\ c \in ready
    /\ peers' = Append(peers, c) /\ ready' = ready \ {c}
    /\ UNCHANGED <<next, pc, op, want, i, shaking, sc, acc, connvars, histvars>>

------------------------------------------------------------------------------
(* publish and broadcast *)

Publish ==
    /\ kind # "PushFan" /\ pc = "idle" /\ Constructed /\ nmsg < sc.msgs
    /\ nmsg' = nmsg + 1 /\ op' = "publish"
    /\ IF kind = "Pub0" THEN pc' = "drain" /\ UNCHANGED <<i, targets>>
                        ELSE pc' = "send" /\ i' = 1 /\ targets' = Range(peers)
    /\ UNCHANGED <<peers, next, want, shaking, accvars, connvars, cancels>>

\* Mutant: remove() shifts, and the loop index moves on all the same.
SwapRemoveSkips == /\ peers' = RemoveAt(peers, i) /\ i' = i + 1

\* Mutant: the loop starts over after a removal.
SwapRemoveRestarts ==
    /\ peers' = Front([peers EXCEPT ![i] = Last(peers)]) /\ i' = 1

\* Mutant: the last peer is dropped instead of peer i.
SwapRemoveLast == peers' = Front(peers) /\ UNCHANGED i

\* Vec::swap_remove(i); the index stays.
SwapRemove ==
    /\ peers' = Front([peers EXCEPT ![i] = Last(peers)])
    /\ UNCHANGED i

\* Peer i takes the message; the send waits for room.
SendOk ==
    LET c == peers[i] IN
    /\ pc = "send" /\ i <= Len(peers)
    /\ conn[c] = "up" /\ Len(sentTo[c]) - nread[c] < Cap
    /\ sentTo' = [sentTo EXCEPT ![c] = Append(@, nmsg)]
    /\ i' = i + 1
    /\ UNCHANGED <<peers, next, pc, op, want, shaking, accvars, conn, hello, backlog, nread,
                   inbox, histvars>>

\* Its connection is down: a write may still be accepted ...
SendLost ==
    /\ pc = "send" /\ i <= Len(peers) /\ conn[peers[i]] # "up"
    /\ i' = i + 1
    /\ UNCHANGED <<peers, next, pc, op, want, shaking, accvars, connvars, histvars>>

\* ... or fail, which removes the peer.
SendErr ==
    /\ pc = "send" /\ i <= Len(peers) /\ conn[peers[i]] # "up"
    /\ SwapRemove
    /\ UNCHANGED <<next, pc, op, want, shaking, accvars, connvars, histvars>>

SendDone ==
    /\ pc = "send" /\ i > Len(peers)
    /\ pc' = "idle" /\ op' = "none"
    /\ UNCHANGED <<peers, next, want, i, shaking, accvars, connvars, histvars>>

------------------------------------------------------------------------------
(* Push0Fan::push *)

\* Mutant: a worker whose connection is down cedes its turn to the next one.
PushSkipsDown ==
    /\ kind = "PushFan" /\ pc = "idle" /\ Constructed /\ nmsg < sc.msgs
    /\ nmsg' = nmsg + 1 /\ op' = "publish" /\ pc' = "push"
    /\ i' = IF conn[peers[next]] = "up" THEN next ELSE (next % Len(peers)) + 1
    /\ next' = (i' % Len(peers)) + 1
    /\ targets' = {peers[next]}
    /\ UNCHANGED <<peers, want, shaking, accvars, connvars, cancels>>

\* Mutant: the turn is not taken modulo the number of workers.
PushNoWrap ==
    /\ kind = "PushFan" /\ pc = "idle" /\ Constructed /\ nmsg < sc.msgs
    /\ nmsg' = nmsg + 1 /\ op' = "publish" /\ pc' = "push"
    /\ i' = next /\ next' = next + 1
    /\ targets' = {peers[next]}
    /\ UNCHANGED <<peers, want, shaking, accvars, connvars, cancels>>

\* The turn passes to the next worker before the message is sent.  (A fan that was
\* made for no workers, which WaitFor leaves out, answers NoPeers to every push and
\* changes nothing.)
Push ==
    /\ kind = "PushFan" /\ pc = "idle" /\ Constructed /\ nmsg < sc.msgs
    /\ nmsg' = nmsg + 1 /\ op' = "publish" /\ pc' = "push"
    /\ i' = next /\ next' = (next % Len(peers)) + 1
    /\ targets' = {peers[next]}
    /\ UNCHANGED <<peers, want, shaking, accvars, connvars, cancels>>

\* The worker takes the message ...
PushOk ==
    LET c == peers[i] IN
    /\ pc = "push" /\ conn[c] = "up" /\ Len(sentTo[c]) - nread[c] < Cap
    /\ sentTo' = [sentTo EXCEPT ![c] = Append(@, nmsg)]
    /\ pc' = "idle" /\ op' = "none"
    /\ UNCHANGED <<peers, next, want, i, shaking, accvars, conn, hello, backlog, nread,
                   inbox, histvars>>

\* ... or its connection is down: the write is lost or fails.  Either way the
\* worker keeps its place in the rotation.
PushFails ==
    /\ pc = "push" /\ conn[peers[i]] # "up"
    /\ pc' = "idle" /\ op' = "none"
    /\ UNCHANGED <<peers, next, want, i, shaking, accvars, connvars, histvars>>

------------------------------------------------------------------------------
(* recv_any and recv_from *)

\* Mutant: every pass starts with the last peer.
PassFromLast ==
    /\ IF peers = <<>> THEN i' = 1 /\ pc' = "idle" /\ op' = "none"
                       ELSE i' = Len(peers) /\ pc' = "poll" /\ op' = "recv_any"

\* The outer loop of recv_any, entered by the call or after its yield: NoPeers,
\* or a pass over the peers from the first one on.
PassOrNoPeers ==
    /\ i' = 1
    /\ IF peers = <<>> THEN pc' = "idle" /\ op' = "none"
                       ELSE pc' = "poll" /\ op' = "recv_any"

RecvAny ==
    /\ kind \in Buses /\ Constructed /\ pc = "idle"
    /\ PassOrNoPeers
    /\ UNCHANGED <<peers, next, want, shaking, accvars, connvars, histvars>>

YieldNow ==
    /\ pc = "yield"
    /\ PassOrNoPeers
    /\ UNCHANGED <<peers, next, want, shaking, accvars, connvars, histvars>>

\* Peer i has a message: recv_any returns it.
PollMsg ==
    LET c == peers[i] IN
    /\ pc = "poll" /\ i <= Len(peers) /\ inbox[c] > 0
    /\ inbox' = [inbox EXCEPT ![c] = @ - 1]
    /\ pc' = "idle" /\ op' = "none"
    /\ UNCHANGED <<peers, next, want, i, shaking, accvars, conn, hello, backlog, sentTo, nread, nmsg, targets, cancels>>

\* Its connection is down: it is removed.
PollErr ==
    /\ pc = "poll" /\ i <= Len(peers) /\ inbox[peers[i]] = 0 /\ conn[peers[i]] # "up"
    /\ SwapRemove
    /\ UNCHANGED <<next, pc, op, want, shaking, accvars, connvars, histvars>>

\* Nothing there: on to the next one.
PollNone ==
    /\ pc = "poll" /\ i <= Len(peers) /\ inbox[peers[i]] = 0 /\ conn[peers[i]] = "up"
    /\ i' = i + 1
    /\ UNCHANGED <<peers, next, pc, op, want, shaking, accvars, connvars, histvars>>

PassDone ==
    /\ pc = "poll" /\ i > Len(peers)
    /\ pc' = "yield"
    /\ UNCHANGED <<peers, next, op, want, i, shaking, accvars, connvars, histvars>>

\* recv_from(k) waits for peer k alone (without a peer k it returns NoPeers at once,
\* which changes nothing) ...
RecvFrom(k) ==
    /\ kind \in Buses /\ Constructed /\ pc = "idle" /\ k <= Len(peers)
    /\ pc' = "from" /\ op' = "recv_from" /\ i' = k
    /\ UNCHANGED <<peers, next, want, shaking, accvars, connvars, histvars>>

\* ... returns its message, or its error, which does not remove it.
FromEnds ==
    LET c == peers[i] IN
    /\ pc = "from"
    /\ \/ inbox[c] > 0 /\ inbox' = [inbox EXCEPT ![c] = @ - 1]
       \/ inbox[c] = 0 /\ conn[c] # "up" /\ UNCHANGED inbox
    /\ pc' = "idle" /\ op' = "none"
    /\ UNCHANGED <<peers, next, want, i, shaking, accvars, conn, hello, backlog, sentTo, nread, histvars>>

------------------------------------------------------------------------------
(* Dropped futures *)

\* The running operation is dropped, and a connection in its handshake with it.
\* (What a frame cut off halfway does to its connection is FramedTransport's
\* subject; a constructor that is dropped leaves no Bus0 to speak of.)
Cancel ==
    /\ pc # "idle" /\ cancels < sc.cancels
    /\ kind # "Pub0" => op # "wait"
    /\ cancels' = cancels + 1
    /\ pc' = "idle" /\ op' = "none" /\ shaking' = NoConn
    /\ IF pc = "handshake" THEN Close(shaking) ELSE UNCHANGED conn
    /\ UNCHANGED <<peers, next, want, i, accvars, hello, backlog, sentTo, nread, inbox,
                   nmsg, targets>>

\* Mutant: the listener goes with the future, and its queue with it.
CancelAcceptAll ==
    /\ acc # NoConn /\ cancels < sc.cancels
    /\ cancels' = cancels + 1
    /\ CloseAll({acc} \cup Range(backlog)) /\ acc' = NoConn /\ backlog' = <<>>
    /\ UNCHANGED <<hubvars, sc, ready, hello, sentTo, nread, inbox, nmsg, targets>>

\* A dropped accept() closes the connection whose handshake it was in; the listener
\* stays with the AcceptStream.
CancelAccept ==
    /\ acc # NoConn /\ cancels < sc.cancels
    /\ cancels' = cancels + 1
    /\ Close(acc) /\ acc' = NoConn
    /\ UNCHANGED <<hubvars, sc, ready, hello, backlog, sentTo, nread, inbox,
                   nmsg, targets>>

------------------------------------------------------------------------------
HubStep == \/ AcceptRaw \/ DrainDone \/ HandshakeEnds
           \/ SendOk \/ SendLost \/ SendErr \/ SendDone
           \/ PushOk \/ PushFails \/ FromEnds
           \/ YieldNow \/ PollMsg \/ PollErr \/ PollNone \/ PassDone

Next ==
    \/ \E c \in Conns : \/ Connect(c) \/ Hello(c) \/ Read(c) \/ Talk(c) \/ Break(c)
                        \/ AddPeer(c) \/ Dial(c) \/ RecvFrom(c)
    \/ \E n \in 1 .. sc.conns : WaitFor(n)
    \/ AcceptPending \/ StreamAccept \/ StreamAccepted
    \/ Publish \/ Push \/ RecvAny
    \/ HubStep
    \/ Cancel \/ CancelAccept

Spec == Init /\ [][Next]_vars

\* The hub's task runs; whoever uses a bus calls recv_any again and again.
FairSpec == Spec /\ WF_vars(HubStep) /\ WF_vars(RecvAny)

------------------------------------------------------------------------------
(* Properties *)

\* The turn that push uses as an index without a check is in range, and so is the
\* peer that a running push or recv_from is about.
TypeOK ==
    /\ sc \in Scenarios
    /\ peers \in Seq(Conns) /\ backlog \in Seq(Conns)
    /\ pc \in {"idle", "wait", "drain", "handshake", "send", "push", "poll",
              "yield", "from"}
    /\ op \in {"none", "wait", "publish", "accept_pending", "recv_any", "recv_from"}
    /\ pc = "idle" <=> op = "none"
    /\ want \in Nat /\ i \in Nat \ {0} /\ next \in Nat \ {0}
    /\ pc \in {"push", "from"} => i \in DOMAIN peers
    /\ kind = "PushFan" /\ Constructed => next \in DOMAIN peers
    /\ shaking \in Conns \cup {NoConn} /\ acc \in Conns \cup {NoConn}
    /\ pc = "handshake" <=> shaking # NoConn
    /\ ready \in SUBSET Conns
    /\ conn \in [Conns -> {"new", "up", "broken", "closed"}]
    /\ hello \in [Conns -> {"none", "good", "bad"}]
    /\ sentTo \in [Conns -> Seq(1 .. MaxMsgs)]
    /\ nread \in [Conns -> 0 .. MaxMsgs] /\ inbox \in [Conns -> 0 .. Cap]
    /\ targets \in SUBSET Conns
    /\ nmsg \in 0 .. MaxMsgs
    /\ cancels \in 0 .. sc.cancels

\* A connection that was admitted and is still up stays a peer: neither the send
\* loop nor the poll loop, which both remove peers by swapping the last one into
\* the gap, ever removes the wrong one, and nobody becomes a peer twice.
LivePeersKept ==
    /\ \A j, k \in 1 .. Len(peers) : peers[j] = peers[k] => j = k
    /\ \A c \in Conns : hello[c] = "good" /\ conn[c] = "up" =>
            \/ c \in Range(peers) \cup ready \cup Range(backlog)
            \/ c \in {shaking, acc}

\* The hub never closes a connection whose peer kept to the handshake, with one
\* exception: a future that is dropped while it is in the handshake takes that one
\* connection with it, although the kernel had accepted it (bus0.rs:213-215 says that
\* dropping accept() never loses such a connection), and no other.  (The listener of a
\* Push0Fan goes with the queue of those it never accepted.)
ClosedOnlyByDrop ==
    [][\A c \in Conns : conn[c] = "up" /\ hello[c] = "good" /\ conn'[c] = "closed" =>
           \/ c \in {shaking, acc} /\ cancels' = cancels + 1
           \/ kind = "PushFan" /\ c \in Range(backlog)]_vars

\* publish and broadcast reach everybody: when the loop ends, every peer it
\* started with has been sent the message exactly once, or its connection is
\* down.  Peers removed on the way do not make the loop skip or repeat others.
ReachesAll ==
    [][SendDone \/ PushOk \/ PushFails =>
          \A c \in targets : \/ conn[c] # "up"
                             \/ sentTo'[c] # <<>> /\ Last(sentTo'[c]) = nmsg]_vars

\* No peer ever gets a message twice or out of order, and Push0Fan keeps to its
\* rotation: message m is only ever sent to the worker whose turn it is, whichever
\* pushes before it failed, were lost or were dropped halfway.  A worker whose
\* connection broke costs the pusher that worker's share and nobody else's.
InTurn == \A c \in Conns :
    /\ \A j, k \in 1 .. Len(sentTo[c]) : j < k => sentTo[c][j] < sentTo[c][k]
    /\ kind = "PushFan" =>
          \A m \in Range(sentTo[c]) : c = peers[((m - 1) % Len(peers)) + 1]

\* A peer that is connected and whose stream has no room: it has not read what it was
\* sent.
Unread(c) == conn[c] = "up" /\ Len(sentTo[c]) - nread[c] >= Cap

\* The hub waits for one peer: for its handshake, or for room in its stream.
HeldUp ==
    \/ pc = "handshake" /\ ~HandshakeOver(shaking)
    \/ pc = "send" /\ i <= Len(peers) /\ Unread(peers[i])
    \/ pc = "push" /\ Unread(peers[i])

\* publish, broadcast and push return, whatever breaks, joins or is refused meanwhile,
\* except that one connected peer can hold them up for ever, by silence in the
\* handshake that drain_incoming awaits (pubsub0.rs:55) or by not reading
\* (pubsub0.rs:70).  Nothing is assumed of the peers.
PublishReturns == (op = "publish") ~> (op # "publish" \/ []HeldUp)

\* A peer that is polled before c has a message.
InFront(c) == \E j, k \in DOMAIN peers : j < k /\ peers[k] = c /\ inbox[peers[j]] > 0

\* While the application calls recv_any again and again, a peer that has a message
\* has its turn some time, whatever joins, breaks, is removed or swapped meanwhile.
\* Only the peers polled before it can starve it, if they always have a message too:
\* every call starts with the first peer (bus0.rs:113), which is less than the
\* "round-robin order" of its doc (bus0.rs:106).
OnlyFrontStarves ==
    []<>(op = "recv_any") =>
        \A c \in Conns : \/ []<>~(c \in Range(peers) /\ inbox[c] > 0)
                         \/ []<>InFront(c)
==============================================================================
