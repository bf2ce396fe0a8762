------------------------------ MODULE Pipeline ------------------------------
(***************************************************************************)
(* Pull0Fan (pipeline0.rs): one reader task per accepted pusher forwards   *)
(* messages into a bounded tokio channel from which pull_any takes them.   *)
(* Pushers send, close and break; the fan admits pushers one by one, may   *)
(* abandon a pull_any and may be dropped at any time, which must end every *)
(* task wherever it is suspended.                                          *)
(*                                                                         *)
(* A pusher's messages are numbered 1, 2, ...; its connection is a queue   *)
(* (SPChannel).                                                            *)
(***************************************************************************)
EXTENDS Integers, Sequences

CONSTANTS
    Pushers,   \* the PUSH0 peers
    ChanCap,   \* capacity of the mpsc channel (n * 4, or 64 after bind)
    StreamCap, \* bound: messages a connection buffers
    MaxMsgs    \* bound: messages per pusher

ASSUME PipelineAssumption ==
    /\ ChanCap \in Nat \ {0}   \* mpsc::channel panics on 0
    /\ StreamCap \in Nat \ {0} /\ MaxMsgs \in Nat

VARIABLES
    peer,   \* per pusher: "dialling", "open", "closed" or "broken"
    sent,   \* per pusher: messages pushed
    stream, \* per pusher: messages under way
    task,   \* per pusher: its reader task: "none", "recv", "sendOk", "sendErr", "done"
    item,   \* per pusher: the message its task is forwarding
    chan,   \* the channel: records [from, msg], msg = 0 for an Err
    fan,    \* "alive" or "dropped"
    pull,   \* pull_any: "idle" or "waiting"
    ended,  \* pull_any has returned NoPeers (the Stream impl: None)
    pulled  \* per pusher: the messages pull_any returned

vars == <<peer, sent, stream, task, item, chan, fan, pull, ended, pulled>>

Init ==
    /\ peer = [p \in Pushers |-> "dialling"] /\ sent = [p \in Pushers |-> 0]
    /\ stream = [p \in Pushers |-> <<>>]
    /\ task = [p \in Pushers |-> "none"] /\ item = [p \in Pushers |-> 0]
    /\ chan = <<>> /\ fan = "alive" /\ pull = "idle" /\ ended = FALSE
    /\ pulled = [p \in Pushers |-> <<>>]

------------------------------------------------------------------------------
(* Pushers *)

\* Push0::push.
Push(p) ==
    /\ peer[p] = "open" /\ sent[p] < MaxMsgs /\ Len(stream[p]) < StreamCap
    /\ sent' = [sent EXCEPT ![p] = @ + 1]
    /\ stream' = [stream EXCEPT ![p] = Append(@, sent[p] + 1)]
    /\ UNCHANGED <<peer, task, item, chan, fan, pull, ended, pulled>>

\* The pusher is dropped: its peer sees end of stream after the last message.
Close(p) ==
    /\ peer[p] = "open"
    /\ peer' = [peer EXCEPT ![p] = "closed"]
    /\ UNCHANGED <<sent, stream, task, item, chan, fan, pull, ended, pulled>>

\* The connection breaks: only a prefix of what is under way arrives.
Break(p) ==
    /\ peer[p] = "open"
    /\ peer' = [peer EXCEPT ![p] = "broken"]
    /\ \E n \in 0 .. Len(stream[p]) : stream' = [stream EXCEPT ![p] = SubSeq(@, 1, n)]
    /\ UNCHANGED <<sent, task, item, chan, fan, pull, ended, pulled>>

------------------------------------------------------------------------------
(* Pull0Fan *)

\* accept_as_transport and spawn_reader: listen_and_accept, or
\* AcceptStream::accept with add_pusher.
AddPusher(p) ==
    /\ fan = "alive" /\ pull = "idle" /\ peer[p] = "dialling"
    /\ peer' = [peer EXCEPT ![p] = "open"]
    /\ task' = [task EXCEPT ![p] = "recv"]
    /\ UNCHANGED <<sent, stream, item, chan, fan, pull, ended, pulled>>

\* pull_any is called, or its future dropped.
PullAny ==
    /\ fan = "alive" /\ pull = "idle" /\ pull' = "waiting"
    /\ UNCHANGED <<peer, sent, stream, task, item, chan, fan, ended, pulled>>

CancelPull ==
    /\ pull = "waiting" /\ pull' = "idle"
    /\ UNCHANGED <<peer, sent, stream, task, item, chan, fan, ended, pulled>>

\* Who can still put something in the channel: the running tasks, and the fan
\* itself through its own tx.
Senders == {p \in Pushers : task[p] \notin {"none", "done"}}
TxHandles == IF fan = "alive" THEN Senders \cup {"fan"} ELSE Senders

\* rx.recv().await resolves: an item, or None once every tx is gone.
RxReady == chan # <<>> \/ TxHandles = {}

\* Mutant: the Err of a pusher is handed on like a message.
PullRecvErr ==
    /\ pull = "waiting" /\ RxReady
    /\ chan' = IF chan = <<>> THEN chan ELSE Tail(chan)
    /\ ended' = (chan = <<>>) /\ pull' = "idle"
    /\ pulled' = IF chan = <<>> THEN pulled
                 ELSE [pulled EXCEPT ![Head(chan).from] = Append(@, Head(chan).msg)]
    /\ UNCHANGED <<peer, sent, stream, task, item, fan>>

\* The loop of pull_any: a message is returned, an Err of one pusher skipped,
\* the end of the channel is NoPeers.
PullRecv ==
    /\ pull = "waiting" /\ RxReady
    /\ chan' = IF chan = <<>> THEN chan ELSE Tail(chan)
    /\ ended' = (chan = <<>>)
    /\ IF chan # <<>> /\ Head(chan).msg = 0
       THEN UNCHANGED <<pull, pulled>>
       ELSE /\ pull' = "idle"
            /\ pulled' = IF chan = <<>> THEN pulled
                         ELSE [pulled EXCEPT ![Head(chan).from] = Append(@, Head(chan).msg)]
    /\ UNCHANGED <<peer, sent, stream, task, item, fan>>

\* Pull0Fan is dropped: rx, tx and the shutdown sender go with it.
Drop ==
    /\ fan = "alive" /\ pull = "idle"
    /\ fan' = "dropped" /\ chan' = <<>>
    /\ UNCHANGED <<peer, sent, stream, task, item, pull, ended, pulled>>

------------------------------------------------------------------------------
(* Reader tasks *)

SetTask(p, st) == task' = [task EXCEPT ![p] = st]

\* select!: transport.recv() is Ok.
ReadMsg(p) ==
    /\ task[p] = "recv" /\ stream[p] # <<>>
    /\ item' = [item EXCEPT ![p] = Head(stream[p])]
    /\ stream' = [stream EXCEPT ![p] = Tail(@)]
    /\ SetTask(p, "sendOk")
    /\ UNCHANGED <<peer, sent, chan, fan, pull, ended, pulled>>

\* Mutant: a disconnect overtakes the messages before it.
ReadErrEarly(p) ==
    /\ task[p] = "recv" /\ peer[p] \in {"closed", "broken"}
    /\ SetTask(p, "sendErr")
    /\ UNCHANGED <<peer, sent, stream, item, chan, fan, pull, ended, pulled>>

\* ... or Err.
ReadErr(p) ==
    /\ task[p] = "recv" /\ stream[p] = <<>> /\ peer[p] \in {"closed", "broken"}
    /\ SetTask(p, "sendErr")
    /\ UNCHANGED <<peer, sent, stream, item, chan, fan, pull, ended, pulled>>

\* Mutant: the task only looks at the shutdown signal when a message comes in.
CancelledOnItem(p) ==
    /\ task[p] = "recv" /\ fan = "dropped" /\ stream[p] # <<>>
    /\ SetTask(p, "done")
    /\ UNCHANGED <<peer, sent, stream, item, chan, fan, pull, ended, pulled>>

\* ... or cancel.changed() fires.
Cancelled(p) ==
    /\ task[p] = "recv" /\ fan = "dropped"
    /\ SetTask(p, "done")
    /\ UNCHANGED <<peer, sent, stream, item, chan, fan, pull, ended, pulled>>

\* Mutant: try_send, a message is dropped when the channel is full.
ForwardTry(p) ==
    /\ task[p] = "sendOk" /\ fan = "alive"
    /\ chan' = IF Len(chan) < ChanCap THEN Append(chan, [from |-> p, msg |-> item[p]])
               ELSE chan
    /\ item' = [item EXCEPT ![p] = 0]
    /\ SetTask(p, "recv")
    /\ UNCHANGED <<peer, sent, stream, fan, pull, ended, pulled>>

\* tx.send(Ok(msg)).await gets its place in the channel.
Forward(p) ==
    /\ task[p] = "sendOk" /\ fan = "alive" /\ Len(chan) < ChanCap
    /\ chan' = Append(chan, [from |-> p, msg |-> item[p]])
    /\ item' = [item EXCEPT ![p] = 0]
    /\ SetTask(p, "recv")
    /\ UNCHANGED <<peer, sent, stream, fan, pull, ended, pulled>>

\* tx.send(Err(e)).await does, and the task is over.
ForwardErr(p) ==
    /\ task[p] = "sendErr" /\ fan = "alive" /\ Len(chan) < ChanCap
    /\ chan' = Append(chan, [from |-> p, msg |-> 0])
    /\ SetTask(p, "done")
    /\ UNCHANGED <<peer, sent, stream, item, fan, pull, ended, pulled>>

\* The receiver is gone: a send fails, also one that was waiting.
ForwardFail(p) ==
    /\ task[p] \in {"sendOk", "sendErr"} /\ fan = "dropped"
    /\ item' = [item EXCEPT ![p] = 0]
    /\ SetTask(p, "done")
    /\ UNCHANGED <<peer, sent, stream, chan, fan, pull, ended, pulled>>

TaskStep(p) == \/ ReadMsg(p) \/ ReadErr(p) \/ Cancelled(p)
               \/ Forward(p) \/ ForwardErr(p) \/ ForwardFail(p)

------------------------------------------------------------------------------
Next ==
    \/ \E p \in Pushers : \/ Push(p) \/ Close(p) \/ Break(p)
                          \/ AddPusher(p) \/ TaskStep(p)
    \/ PullAny \/ CancelPull \/ PullRecv \/ Drop

Spec == Init /\ [][Next]_vars

\* Tasks are scheduled; a send waiting for a full channel is served in turn
\* (tokio's semaphore is a FIFO), and the application calls pull_any again and
\* does not drop every call before it is polled.
FairSpec == /\ Spec
            /\ \A p \in Pushers : SF_vars(TaskStep(p))
            /\ WF_vars(PullAny) /\ SF_vars(PullRecv)

------------------------------------------------------------------------------
(* Properties *)

Numbers == 1 .. MaxMsgs

TypeOK ==
    /\ peer \in [Pushers -> {"dialling", "open", "closed", "broken"}]
    /\ sent \in [Pushers -> 0 .. MaxMsgs]
    /\ stream \in [Pushers -> Seq(Numbers)]
    /\ task \in [Pushers -> {"none", "recv", "sendOk", "sendErr", "done"}]
    /\ item \in [Pushers -> 0 .. MaxMsgs]
    /\ chan \in Seq([from : Pushers, msg : 0 .. MaxMsgs])
    /\ fan \in {"alive", "dropped"} /\ pull \in {"idle", "waiting"}
    /\ ended \in BOOLEAN
    /\ pulled \in [Pushers -> Seq(Numbers)]

\* The first c messages of pusher p have left its task: the ones pull_any has
\* returned, 1, 2, 3, ..., are followed by those in the channel.
InChan(p) == {k \in Numbers : \E i \in 1 .. Len(chan) : chan[i] = [from |-> p, msg |-> k]}
Forwarded(p, c) ==
    /\ \A i \in 1 .. Len(pulled[p]) : pulled[p][i] = i
    /\ Len(pulled[p]) <= c /\ InChan(p) = Len(pulled[p]) + 1 .. c
    /\ \A i, j \in 1 .. Len(chan) :
          i < j /\ chan[i].from = p /\ chan[j].from = p /\ chan[j].msg # 0
              => chan[i].msg < chan[j].msg

\* The others, from c + 1 on, are the one the task holds and those on the connection.
Behind(p, c) ==
    LET read == IF task[p] = "sendOk" THEN c + 1 ELSE c IN
    /\ task[p] = "sendOk" => item[p] = read
    /\ \A i \in 1 .. Len(stream[p]) : stream[p][i] = read + i
    /\ read + Len(stream[p]) <= sent[p]
    /\ peer[p] # "broken" => read + Len(stream[p]) = sent[p]

\* Per pusher, what pull_any has returned followed by what is still under way is
\* 1, 2, 3, ... without gap or repetition, and reaches to the last message
\* pushed unless the connection broke: interleaving the pushers, cancelling
\* pull_any and closing loses, doubles and reorders nothing.  A pusher's
\* disconnect is in the channel only behind its last message.
NothingLost ==
    /\ fan = "alive" => \A p \in Pushers : \E c \in 0 .. sent[p] : Forwarded(p, c) /\ Behind(p, c)
    /\ \A p \in Pushers, i \in 1 .. Len(chan) : chan[i] = [from |-> p, msg |-> 0] =>
          /\ stream[p] = <<>> /\ task[p] = "done"
          /\ \A j \in i + 1 .. Len(chan) : chan[j].from # p

\* Everything pushed is pulled, unless the connection breaks or the fan goes.
PushedIsPulled == \A p \in Pushers, k \in Numbers :
    (sent[p] >= k) ~> (Len(pulled[p]) >= k \/ peer[p] = "broken" \/ fan = "dropped")

\* Dropping the fan ends every reader task, also one whose pusher is idle and
\* one that waits for room in the channel (CHANGELOG.md:95, zombie tasks).
DropEndsTasks == (fan = "dropped") ~> (Senders = {})

\* CHANGELOG.md:203: "the stream ends when all senders close".
StreamEnds == (\A p \in Pushers : peer[p] \in {"closed", "broken"})
                  ~> (ended \/ fan = "dropped")
==============================================================================
