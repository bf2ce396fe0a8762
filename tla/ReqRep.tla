------------------------------- MODULE ReqRep -------------------------------
(***************************************************************************)
(* A REQ0 socket shared by several callers through Req0Service, talking to *)
(* a REP0 server over one connection at a time: request ids, resends,      *)
(* stale replies, dropped request futures, lost connections, redialling    *)
(* and a server that goes away and comes back.                             *)
(*                                                                         *)
(* A connection is a pair of message queues (SPChannel).  A queue holds    *)
(* Cap whole messages; Cap = 0 stands for messages larger than what the    *)
(* stream buffers, which get through only while the peer is reading.       *)
(* The one way to lose framing, a send() dropped halfway (FramedTransport, *)
(* AbandonSend), tears that direction of the connection: what its receiver *)
(* gets next is garbage under an arbitrary id, or no message at all.       *)
(*                                                                         *)
(* Ids are u32 in the code; here they are 1 .. 2 * Half - 1, and the bit   *)
(* 0x8000_0000 is worth Half.  The payload of a request is the number of   *)
(* its call, and the server echoes it.                                     *)
(***************************************************************************)
EXTENDS Integers, Sequences

CONSTANTS
    Half,         \* value of the high bit of an id (2^31 in the code)
    MaxCalls,     \* bound: number of request() calls
    Cap,          \* bound: messages a stream buffers
    Resend,       \* resend_time is Some
    Reconnect,    \* the socket was dialled with ReconnectOptions
    max_attempts, \* ReconnectOptions::max_attempts: {} for None, {n} for Some(n)
    Faults,       \* the failures that may happen: "break", "crash", "cancel", "drop"
    MaxFaults     \* bound: how many of them

ASSUME ReqRepAssumption ==
    /\ Half \in Nat \ {0} /\ MaxCalls \in Nat /\ Cap \in Nat /\ MaxFaults \in Nat
    /\ Resend \in BOOLEAN /\ Reconnect \in BOOLEAN
    /\ max_attempts \in SUBSET Nat

Calls   == 1 .. MaxCalls
NoCall  == 0
Garbage == -1
NoMsg   == [id |-> 0, body |-> NoCall]

VARIABLES
    \* callers and Req0Service
    ncalls,   \* calls made so far
    queue,    \* calls waiting for the mutex, in order
    cur,      \* the call that holds it
    result,   \* per call: "none", "reply", "Closed", "ProtocolViolation", "cancelled"
    got,      \* per call: the payload of the reply it returned
    \* Req0 and its Socket
    next_id, sent_id,
    pc,       \* where request() is suspended
    attempts, \* failed attempts of the running reconnect_transport
    \* the connection
    link,     \* "up" or "broken"
    torn,     \* the directions of it in which a frame was abandoned halfway
    c2s, s2c,
    \* the server
    rep,      \* [st, msg]; st is "off", "listening", "ready" (in receive), "handling"
              \* or "orphan" (in receive on a connection the client has given up)
    \* history
    ids,      \* the id each call was given (0: none)
    handled,  \* times the server received each call (at most 2 counted)
    resent,   \* the calls whose resend timer has fired
    tears,    \* sends abandoned halfway
    faults

callvars == <<ncalls, queue, cur, result, got>>
reqvars  == <<next_id, sent_id, pc, attempts>>
linkvars == <<link, torn, c2s, s2c>>
histvars == <<ids, handled, resent, tears, faults>>
vars == <<callvars, reqvars, linkvars, rep, histvars>>

------------------------------------------------------------------------------
(* Req0State, Rep0State *)

\* wrapping_add(1).max(1)
Succ(id) == IF id = 2 * Half - 1 THEN 1 ELSE id + 1

\* id | 0x8000_0000 and wire_id & 0x7fff_ffff
WireId(id) == IF id < Half THEN id + Half ELSE id
Strip(w)   == IF w >= Half THEN w - Half ELSE w

WireIds == Half .. 2 * Half - 1
Message == [id : WireIds, body : Calls \cup {Garbage}]

------------------------------------------------------------------------------
Init ==
    /\ ncalls = 0 /\ queue = <<>> /\ cur = NoCall
    /\ result = [k \in Calls |-> "none"] /\ got = [k \in Calls |-> NoCall]
    /\ next_id = 1 /\ sent_id = 0 /\ pc = "idle" /\ attempts = 0
    /\ link = "up" /\ torn = {} /\ c2s = <<>> /\ s2c = <<>>
    /\ rep = [st |-> "ready", msg |-> NoMsg]
    /\ ids = [k \in Calls |-> 0] /\ handled = [k \in Calls |-> 0]
    /\ resent = {} /\ tears = 0 /\ faults = 0

------------------------------------------------------------------------------
(* Callers *)

\* Req0Service::call: the future queues for the mutex.
Call ==
    /\ ncalls < MaxCalls
    /\ ncalls' = ncalls + 1
    /\ queue' = Append(queue, ncalls + 1)
    /\ UNCHANGED <<cur, result, got, reqvars, linkvars, rep, histvars>>

\* Mutant: the id counter is not advanced.
LockSameId ==
    /\ cur = NoCall /\ queue # <<>>
    /\ cur' = Head(queue) /\ queue' = Tail(queue)
    /\ sent_id' = next_id /\ next_id' = next_id
    /\ ids' = [ids EXCEPT ![Head(queue)] = next_id]
    /\ pc' = "send"
    /\ UNCHANGED <<ncalls, result, got, attempts, linkvars, rep,
                   handled, resent, tears, faults>>

\* The mutex is granted; request() stamps the message and starts to send.
Lock ==
    /\ cur = NoCall /\ queue # <<>>
    /\ cur' = Head(queue) /\ queue' = Tail(queue)
    /\ sent_id' = next_id /\ next_id' = Succ(next_id)
    /\ ids' = [ids EXCEPT ![Head(queue)] = next_id]
    /\ pc' = "send"
    /\ UNCHANGED <<ncalls, result, got, attempts, linkvars, rep,
                   handled, resent, tears, faults>>

\* request() returns r (with payload b) and the mutex is released.
Return(r, b) ==
    /\ result' = [result EXCEPT ![cur] = r]
    /\ got' = [got EXCEPT ![cur] = b]
    /\ cur' = NoCall /\ pc' = "idle"

------------------------------------------------------------------------------
(* Req0::request, Socket::send_raw and Socket::recv_raw *)

Sending == pc \in {"send", "send2"}
Waiting == pc \in {"recv", "recv2"}
Dialling == pc \in {"rc_send", "rc_recv"}

\* A queue takes a message if it has room, or if its reader is waiting for one.
Room(q, reading) == Len(q) < Cap \/ (reading /\ q = <<>>)
ServerReads == rep.st = "ready"

\* A frame m is written to queue q.  In a torn direction it may complete the
\* abandoned frame instead: the receiver sees nothing or something of any shape.
Written(q, dir, m) ==
    {Append(q, m)} \cup
    IF dir \in torn THEN {q} \cup {Append(q, [id |-> w, body |-> Garbage]) : w \in WireIds}
    ELSE {}

\* The request is written.
SendOk ==
    /\ Sending /\ link # "broken" /\ Room(c2s, ServerReads)
    /\ c2s' \in Written(c2s, "c2s", [id |-> WireId(sent_id), body |-> cur])
    /\ pc' = "recv"
    /\ UNCHANGED <<callvars, next_id, sent_id, attempts, link, torn, s2c, rep, histvars>>

\* A write to a connection that is already down may still be accepted.
SendLost ==
    /\ Sending /\ link = "broken"
    /\ pc' = "recv"
    /\ UNCHANGED <<callvars, next_id, sent_id, attempts, linkvars, rep, histvars>>

\* A transport operation fails: redial if that is configured and this is the
\* first failure of the send_raw or recv_raw at hand, else request() fails.
TransportError(first, redial) ==
    \/ /\ pc = first /\ Reconnect
       /\ pc' = redial /\ attempts' = 0
       /\ UNCHANGED <<cur, result, got>>
    \/ /\ pc # first \/ ~Reconnect
       /\ Return("Closed", NoCall)
       /\ UNCHANGED attempts

SendErr ==
    /\ Sending /\ link = "broken"
    /\ TransportError("send", "rc_send")
    /\ UNCHANGED <<ncalls, queue, next_id, sent_id, linkvars, rep, histvars>>

RecvErr ==
    /\ Waiting /\ link = "broken" /\ s2c = <<>>
    /\ TransportError("recv", "rc_recv")
    /\ UNCHANGED <<ncalls, queue, next_id, sent_id, linkvars, rep, histvars>>

\* Mutant: any reply is taken for the reply.
RecvAny ==
    /\ Waiting /\ s2c # <<>>
    /\ s2c' = Tail(s2c)
    /\ Return("reply", Head(s2c).body)
    /\ UNCHANGED <<ncalls, queue, next_id, sent_id, attempts, link, torn,
                   c2s, rep, histvars>>

\* Mutant: the reply's id is compared with its high bit.
RecvUnstripped ==
    /\ Waiting /\ s2c # <<>>
    /\ s2c' = Tail(s2c)
    /\ IF Head(s2c).id = sent_id
       THEN Return("reply", Head(s2c).body)
       ELSE pc' = "recv" /\ UNCHANGED <<cur, result, got>>
    /\ UNCHANGED <<ncalls, queue, next_id, sent_id, attempts, link, torn,
                   c2s, rep, histvars>>

\* A reply arrives: returned if its id is the one sent, else skipped as stale.
RecvReply ==
    /\ Waiting /\ s2c # <<>>
    /\ s2c' = Tail(s2c)
    /\ IF Strip(Head(s2c).id) = sent_id
       THEN Return("reply", Head(s2c).body)
       ELSE pc' = "recv" /\ UNCHANGED <<cur, result, got>>
    /\ UNCHANGED <<ncalls, queue, next_id, sent_id, attempts, link, torn,
                   c2s, rep, histvars>>

\* What comes in a torn direction may be no frame, an error of the transport, or
\* too short for an id (MessageTooShort), which ends the request.
RecvGarbage ==
    /\ Waiting /\ s2c # <<>> /\ Head(s2c).body = Garbage /\ "s2c" \in torn
    /\ s2c' = Tail(s2c)
    /\ \/ TransportError("recv", "rc_recv")
       \/ Return("ProtocolViolation", NoCall) /\ UNCHANGED attempts
    /\ UNCHANGED <<ncalls, queue, next_id, sent_id, link, torn, c2s, rep, histvars>>

\* A dial that the client gives up on may have used up the server's one accept.
MaybeOrphan ==
    \/ UNCHANGED rep
    \/ /\ Dialling /\ rep.st = "listening"
       /\ rep' = [rep EXCEPT !.st = "orphan"]

\* Mutant: the timer is not armed again for the wait after a resend.
ResendOnce ==
    /\ Resend /\ cur \notin resent
    /\ pc = "rc_recv" \/ (Waiting /\ s2c = <<>> /\ link # "broken")
    /\ pc' = "send" /\ resent' = resent \cup {cur}
    /\ MaybeOrphan
    /\ UNCHANGED <<callvars, next_id, sent_id, attempts, linkvars, ids, handled, tears, faults>>

\* resend_time elapses: the recv_raw future is dropped, the request sent again.
\* tokio polls the receive before the timer, so nothing was there to receive.
ResendTimeout ==
    /\ Resend
    /\ pc = "rc_recv" \/ (Waiting /\ s2c = <<>> /\ link # "broken")
    /\ pc' = "send" /\ resent' = resent \cup {cur}
    /\ MaybeOrphan
    /\ UNCHANGED <<callvars, next_id, sent_id, attempts, linkvars, ids, handled, tears, faults>>

\* Mutant: recv_raw also sends the request again.
ConnectOkSends ==
    /\ Dialling /\ rep.st = "listening"
    /\ link' = "up" /\ torn' = {} /\ c2s' = <<>> /\ s2c' = <<>>
    /\ rep' = [rep EXCEPT !.st = "ready"]
    /\ pc' = "send2"
    /\ UNCHANGED <<callvars, next_id, sent_id, attempts, histvars>>

\* connect_transport succeeds: the transport is replaced, and send_raw sends
\* once more, or recv_raw receives once more.
ConnectOk ==
    /\ Dialling /\ rep.st = "listening"
    /\ link' = "up" /\ torn' = {} /\ c2s' = <<>> /\ s2c' = <<>>
    /\ rep' = [rep EXCEPT !.st = "ready"]
    /\ pc' = IF pc = "rc_send" THEN "send2" ELSE "recv2"
    /\ UNCHANGED <<callvars, next_id, sent_id, attempts, histvars>>

\* It fails and the attempts are limited.  After the last one send_raw and
\* recv_raw return the error that made them redial.
ConnectErr ==
    /\ Dialling /\ rep.st # "listening" /\ max_attempts # {}
    /\ attempts' = attempts + 1
    /\ IF \E max \in max_attempts : attempts + 1 >= max
       THEN Return("Closed", NoCall)
       ELSE UNCHANGED <<cur, result, got, pc>>
    /\ UNCHANGED <<ncalls, queue, next_id, sent_id, linkvars, rep, histvars>>

------------------------------------------------------------------------------
(* Rep0 *)

\* The connection is lost; of the messages under way only a prefix arrives.
LoseLink ==
    /\ link' = "broken" /\ UNCHANGED torn
    /\ \E n \in 0 .. Len(s2c) : s2c' = SubSeq(s2c, 1, n)

\* The server application binds again: Rep0::listen accepts one connection.
RepListen ==
    /\ rep.st = "off"
    /\ rep' = [st |-> "listening", msg |-> NoMsg]
    /\ UNCHANGED <<callvars, reqvars, linkvars, histvars>>

\* Rep0::receive.
RepReceive ==
    /\ ServerReads /\ c2s # <<>>
    /\ rep' = [rep EXCEPT !.st = "handling", !.msg = Head(c2s)]
    /\ c2s' = Tail(c2s)
    /\ handled' = [k \in Calls |-> IF k = Head(c2s).body /\ handled[k] < 2
                                   THEN handled[k] + 1 ELSE handled[k]]
    /\ UNCHANGED <<callvars, reqvars, link, torn, s2c, ids, resent, tears, faults>>

\* Rep0::receive fails: the application drops the socket.
RepRecvErr ==
    /\ rep.st = "orphan" \/ (ServerReads /\ link = "broken" /\ c2s = <<>>)
    /\ rep' = [st |-> "off", msg |-> NoMsg]
    /\ UNCHANGED <<callvars, reqvars, linkvars, histvars>>

\* ... also because of garbage that is no frame or too short for an id.
RepRecvGarbage ==
    /\ ServerReads /\ c2s # <<>> /\ Head(c2s).body = Garbage
    /\ rep' = [st |-> "off", msg |-> NoMsg]
    /\ LoseLink /\ c2s' = <<>>
    /\ UNCHANGED <<callvars, reqvars, histvars>>

\* Responder::reply echoes the routing id.
RepReply ==
    /\ rep.st = "handling" /\ link # "broken" /\ Room(s2c, Waiting)
    /\ s2c' \in Written(s2c, "s2c", rep.msg)
    /\ rep' = [rep EXCEPT !.st = "ready", !.msg = NoMsg]
    /\ UNCHANGED <<callvars, reqvars, link, torn, c2s, histvars>>

\* ... over a connection that is down: the write fails or goes nowhere.
RepReplyErr ==
    /\ rep.st = "handling" /\ link = "broken"
    /\ \/ rep' = [rep EXCEPT !.st = "ready", !.msg = NoMsg]
       \/ rep' = [st |-> "off", msg |-> NoMsg]
    /\ UNCHANGED <<callvars, reqvars, linkvars, histvars>>

------------------------------------------------------------------------------
(* Failures *)

Fault(f) == f \in Faults /\ faults < MaxFaults /\ faults' = faults + 1

Break ==
    /\ Fault("break") /\ link # "broken"
    /\ LoseLink
    /\ \E n \in 0 .. Len(c2s) : c2s' = SubSeq(c2s, 1, n)
    /\ UNCHANGED <<callvars, reqvars, rep, ids, handled, resent, tears>>

\* The server process dies, and its connection with it.
RepCrash ==
    /\ Fault("crash") /\ rep.st # "off"
    /\ rep' = [st |-> "off", msg |-> NoMsg]
    /\ IF rep.st \in {"ready", "handling"} THEN LoseLink /\ c2s' = <<>>
       ELSE UNCHANGED linkvars
    /\ UNCHANGED <<callvars, reqvars, ids, handled, resent, tears>>

\* A send is dropped in the middle of a frame.
Tear(dir) ==
    /\ link # "broken"
    /\ torn' = torn \cup {dir} /\ tears' = tears + 1

\* The server drops a Responder without replying, or its reply() halfway.
RepDrop ==
    /\ Fault("drop") /\ rep.st = "handling"
    /\ rep' = [rep EXCEPT !.st = "ready", !.msg = NoMsg]
    /\ Tear("s2c") \/ UNCHANGED <<torn, tears>>
    /\ UNCHANGED <<callvars, reqvars, link, c2s, s2c, ids, handled, resent>>

\* A sequence without its i-th element.
Without(q, i) == [j \in 1 .. Len(q) - 1 |-> IF j < i THEN q[j] ELSE q[j + 1]]

\* A call's future is dropped while it waits for the mutex.
CancelQueued ==
    /\ Fault("cancel")
    /\ \E i \in 1 .. Len(queue) :
          /\ queue' = Without(queue, i)
          /\ result' = [result EXCEPT ![queue[i]] = "cancelled"]
    /\ UNCHANGED <<ncalls, cur, got, reqvars, linkvars, rep, ids, handled,
                   resent, tears>>

\* Mutant: the mutex is not released with the future.
CancelKeepsLock ==
    /\ Fault("cancel") /\ cur # NoCall
    /\ result' = [result EXCEPT ![cur] = "cancelled"] /\ pc' = "idle"
    /\ UNCHANGED <<ncalls, queue, cur, got, next_id, sent_id, attempts,
                   linkvars, rep, ids, handled, resent, tears>>

\* ... or while it holds the mutex.  The socket stays as it is: a frame may be
\* half written, a dial may be half done.
CancelActive ==
    /\ Fault("cancel") /\ cur # NoCall
    /\ Return("cancelled", NoCall)
    /\ MaybeOrphan
    /\ (Sending /\ Tear("c2s")) \/ UNCHANGED <<torn, tears>>
    /\ UNCHANGED <<ncalls, queue, next_id, sent_id, attempts, link, c2s, s2c, ids,
                   handled, resent>>

------------------------------------------------------------------------------
ReqSend == SendOk \/ SendErr
ReqRecv == RecvReply \/ RecvGarbage \/ RecvErr
RepStep == RepListen \/ RepReceive \/ RepRecvErr \/ RepRecvGarbage \/ RepReply \/ RepReplyErr

Next ==
    \/ Call \/ Lock
    \/ ReqSend \/ SendLost \/ ReqRecv \/ ResendTimeout \/ ConnectOk \/ ConnectErr
    \/ RepStep
    \/ Break \/ RepCrash \/ RepDrop \/ CancelQueued \/ CancelActive

Spec == Init /\ [][Next]_vars

\* The mutex, the sockets, the timer and the server run whenever they can, and
\* a server that lost its connection binds again.  A connection that is down
\* does not swallow writes for ever: sending is strongly fair.
FairSpec ==
    /\ Spec
    /\ WF_vars(Lock) /\ SF_vars(ReqSend) /\ WF_vars(ReqRecv)
    /\ WF_vars(ResendTimeout) /\ WF_vars(ConnectOk) /\ WF_vars(ConnectErr)
    /\ WF_vars(RepStep)

------------------------------------------------------------------------------
(* Properties *)

CallersTypeOK ==
    /\ ncalls \in 0 .. MaxCalls /\ queue \in Seq(Calls)
    /\ cur \in Calls \cup {NoCall}
    /\ result \in [Calls -> {"none", "reply", "Closed", "ProtocolViolation", "cancelled"}]
    /\ got \in [Calls -> Calls \cup {NoCall, Garbage}]
ReqTypeOK ==
    /\ next_id \in 1 .. 2 * Half - 1 /\ sent_id \in 0 .. 2 * Half - 1
    /\ pc \in {"idle", "send", "send2", "recv", "recv2", "rc_send", "rc_recv"}
    /\ pc = "idle" <=> cur = NoCall
    /\ pc # "idle" => sent_id # 0
    /\ attempts \in Nat
LinkTypeOK ==
    /\ link \in {"up", "broken"} /\ torn \in SUBSET {"c2s", "s2c"}
    /\ c2s \in Seq(Message) /\ s2c \in Seq(Message)
RepTypeOK ==
    /\ rep \in [st : {"off", "listening", "ready", "orphan", "handling"},
                msg : Message \cup {NoMsg}]
    /\ rep.st = "handling" => rep.msg \in Message
HistoryTypeOK ==
    /\ ids \in [Calls -> 0 .. 2 * Half - 1] /\ handled \in [Calls -> 0 .. 2]
    /\ resent \in SUBSET Calls /\ tears \in Nat /\ faults \in 0 .. MaxFaults

TypeOK == CallersTypeOK /\ ReqTypeOK /\ LinkTypeOK /\ RepTypeOK /\ HistoryTypeOK

\* request() never returns the reply to another call: not after resends, late
\* replies, dropped futures, reconnects or server restarts.  Only a connection
\* torn by a send dropped halfway can feed it garbage.
ReplyIsOwn ==
    \A k \in Calls : result[k] = "reply" =>
        \/ got[k] = k
        \/ got[k] = Garbage /\ tears > 0

\* A request whose resend timer never fired reaches the server at most once,
\* reconnects included: send_raw repeats a send only if the first frame was not
\* completed, and recv_raw, which redials too, does not send at all.  (A call of a
\* socket with resend_time None has no timer.)
AtMostOnceWithoutResend == \A k \in Calls \ resent : handled[k] <= 1

\* What the queues and the server hold is what some call put there: the id on
\* every message is the one stamped once on its call, resends included, no two
\* calls share one, and a call that waits for the mutex has none yet.
Stamped(m, tags, next, cuts) ==
    /\ m.body \in Calls => tags[m.body] \in 1 .. next - 1 /\ m.id = WireId(tags[m.body])
    /\ m.body = Garbage => cuts > 0
AllStamped(q, tags, next, cuts) == \A i \in 1 .. Len(q) : Stamped(q[i], tags, next, cuts)
QueueFresh ==
    /\ next_id - 1 + Len(queue) <= ncalls
    /\ \A i \in 1 .. Len(queue) : queue[i] <= ncalls /\ ids[queue[i]] = 0
    /\ \A i, j \in 1 .. Len(queue) : i < j => queue[i] < queue[j]
    /\ \A k \in Calls : k > ncalls => ids[k] = 0
IdsUnique ==
    /\ \A k \in Calls : ids[k] < next_id
    /\ \A j, k \in Calls : ids[j] = ids[k] /\ ids[j] # 0 => j = k
    /\ cur # NoCall => sent_id = ids[cur] /\ sent_id # 0
MessagesStamped ==
    /\ AllStamped(c2s, ids, next_id, tears)
    /\ AllStamped(s2c, ids, next_id, tears)
    /\ rep.st = "handling" => Stamped(rep.msg, ids, next_id, tears)
    /\ torn # {} => tears > 0
IdsConsistent == QueueFresh /\ IdsUnique /\ MessagesStamped

Torn == link = "up" /\ torn # {}

\* Both sides are blocked in a write, neither reads.
Wedged == /\ Sending /\ link # "broken" /\ ~Room(c2s, ServerReads)
          /\ rep.st = "handling" /\ ~Room(s2c, Waiting)

\* The only ways for a call to hang, when resending and redialling are both
\* configured, are a torn and a wedged connection: otherwise it ends, with a
\* reply, an error of the transport or because its future was dropped.  The
\* mutex is passed on whatever becomes of its holder, and a lost request, reply,
\* connection or server is made up for.
EveryCallReturnsOrStuck ==
    \A k \in Calls : (ncalls >= k) ~> (result[k] # "none" \/ Torn \/ Wedged)

\* reqrep0.rs:81 says that request() skips stale replies and "then waits for
\* the correct reply": a reply to the call in progress that arrives is returned.
CorrectReplyReturned ==
    [][\A k \in Calls : (RecvReply /\ cur = k /\ Head(s2c).body = k)
                            => result'[k] = "reply"]_vars
==============================================================================
