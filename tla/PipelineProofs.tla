--------------------------- MODULE PipelineProofs ---------------------------
(***************************************************************************)
(* Proofs about Pipeline: for every set of pushers, every capacity of the  *)
(* channel and of the connections and any number of messages.              *)
(***************************************************************************)
EXTENDS Pipeline, TLAPS

\* An entry of the channel, and the Err of pusher p.
Entry == [from : Pushers, msg : 0 .. MaxMsgs]
Err(p) == [from |-> p, msg |-> 0]

\* The messages of p are in order, c of them forwarded.
InOrder(p, c) == Forwarded(p, c) /\ Behind(p, c)

\* While the fan is there every pusher's messages are in order.
Ordered == fan = "alive" => \A p \in Pushers : \E c \in 0 .. sent[p] : InOrder(p, c)

\* A task that has seen the end of its connection, or has said so, has nothing left to
\* read and will get nothing more.
Ending == \A p \in Pushers :
    task[p] = "sendErr" \/ (\E i \in 1 .. Len(chan) : chan[i] = Err(p)) =>
        peer[p] \in {"closed", "broken"} /\ stream[p] = <<>>

\* The Err of a pusher is the last of its entries, and its task is over.
ErrLast == \A p \in Pushers, i \in 1 .. Len(chan) : chan[i] = Err(p) =>
    /\ task[p] = "done"
    /\ \A j \in i + 1 .. Len(chan) : chan[j].from # p

\* A pusher that is not yet accepted has no task.
Unaccepted == \A p \in Pushers : peer[p] = "dialling" => task[p] = "none"

\* A channel without a receiver is empty.
Emptied == fan = "dropped" => chan = <<>>

IInv == TypeOK /\ Ordered /\ Ending /\ ErrLast /\ Unaccepted /\ Emptied

\* The invariant holds before anybody has dialled.
LEMMA InvInit == Init => IInv
  <1> SUFFICES ASSUME Init PROVE IInv
    OBVIOUS
  <1> USE PipelineAssumption DEF PipelineAssumption, Init
  <1>1. TypeOK
    <2>1. <<>> \in Seq(Numbers) /\ <<>> \in Seq([from : Pushers, msg : 0 .. MaxMsgs])
      OBVIOUS
    <2>2. stream \in [Pushers -> Seq(Numbers)] /\ pulled \in [Pushers -> Seq(Numbers)]
      BY <2>1
    <2>3. sent \in [Pushers -> 0 .. MaxMsgs] /\ item \in [Pushers -> 0 .. MaxMsgs]
      OBVIOUS
    <2>4. /\ peer \in [Pushers -> {"dialling", "open", "closed", "broken"}]
          /\ task \in [Pushers -> {"none", "recv", "sendOk", "sendErr", "done"}]
      OBVIOUS
    <2> QED BY <2>1, <2>2, <2>3, <2>4 DEF TypeOK
  <1>2. ASSUME NEW p \in Pushers PROVE \E c \in 0 .. sent[p] : InOrder(p, c)
    <2>1. InChan(p) = {}
      BY DEF InChan
    <2>2. InOrder(p, 0)
      BY <2>1 DEF InOrder, Forwarded, Behind
    <2> QED BY <2>2
  <1>3. Ordered
    BY <1>2 DEF Ordered
  <1>4. Ending /\ ErrLast /\ Unaccepted /\ Emptied
    BY DEF Ending, ErrLast, Unaccepted, Emptied
  <1> QED BY <1>1, <1>3, <1>4 DEF IInv

------------------------------------------------------------------------------
(* The channel *)

\* An entry that is put in the channel is in it, behind the ones that were.
LEMMA ChanPut ==
    ASSUME TypeOK, NEW e \in Entry, chan' = Append(chan, e)
    PROVE  /\ chan' \in Seq(Entry) /\ Len(chan') = Len(chan) + 1
           /\ \A i \in 1 .. Len(chan) : chan'[i] = chan[i]
           /\ chan'[Len(chan) + 1] = e
           /\ \A q \in Pushers : e.from # q \/ e.msg = 0 => InChan(q)' = InChan(q)
           /\ \A q \in Pushers : e.from = q /\ e.msg # 0 => InChan(q)' = InChan(q) \cup {e.msg}
  <1> USE PipelineAssumption DEF PipelineAssumption, Entry
  <1>1. /\ chan' \in Seq(Entry) /\ Len(chan') = Len(chan) + 1
        /\ \A i \in 1 .. Len(chan) : chan'[i] = chan[i]
        /\ chan'[Len(chan) + 1] = e
    BY DEF TypeOK
  <1>2. Len(chan) \in Nat
    BY DEF TypeOK
  <1>3. ASSUME NEW q \in Pushers, NEW k \in Numbers
        PROVE  k \in InChan(q)' <=> k \in InChan(q) \/ e = [from |-> q, msg |-> k]
    BY <1>1, <1>2 DEF InChan, Numbers
  <1>4. \A q \in Pushers : InChan(q) \subseteq Numbers /\ InChan(q)' \subseteq Numbers
    BY DEF InChan, Numbers
  <1>5. ASSUME NEW q \in Pushers, e.from # q \/ e.msg = 0 PROVE InChan(q)' = InChan(q)
    <2>1. \A k \in Numbers : e # [from |-> q, msg |-> k]
      BY <1>5 DEF Numbers
    <2> QED BY <1>3, <1>4, <2>1
  <1>6. ASSUME NEW q \in Pushers, e.from = q, e.msg # 0
        PROVE  InChan(q)' = InChan(q) \cup {e.msg}
    <2>1. e = [from |-> q, msg |-> e.msg] /\ e.msg \in Numbers
      BY <1>6 DEF Numbers
    <2>2. \A k \in Numbers : e = [from |-> q, msg |-> k] <=> k = e.msg
      BY <2>1
    <2> QED BY <1>3, <1>4, <2>1, <2>2
  <1> QED BY <1>1, <1>5, <1>6

\* Taking the oldest entry moves the others up by one.
LEMMA ChanTake ==
    ASSUME TypeOK, chan # <<>>, chan' = Tail(chan)
    PROVE  /\ chan[1] \in Entry /\ Head(chan) = chan[1]
           /\ chan' \in Seq(Entry) /\ Len(chan) \in Nat \ {0} /\ Len(chan') = Len(chan) - 1
           /\ \A i \in 1 .. Len(chan') : chan'[i] = chan[i + 1]
  <1>1. chan \in Seq(Entry)
    BY DEF TypeOK, Entry
  <1>2. Len(chan) \in Nat \ {0} /\ chan[1] \in Entry /\ Head(chan) = chan[1]
    BY <1>1
  <1>3. chan' \in Seq(Entry) /\ Len(chan') = Len(chan) - 1
    BY <1>1
  <1>4. \A i \in 1 .. Len(chan') : chan'[i] = chan[i + 1]
    BY <1>1, <1>2, <1>3
  <1> QED BY <1>2, <1>3, <1>4

------------------------------------------------------------------------------
(* The steps *)

\* Two facts of arithmetic.
LEMMA Shifted ==
    /\ \A c \in Nat, n \in Nat : \A m : m = n - 1 => c + 1 + m = c + n
    /\ \A c \in Nat, n \in Nat, t \in Nat : c + 1 + n <= t => c + 1 <= t
  OBVIOUS

\* A step that leaves a pusher's state and the channel alone leaves it in order.
LEMMA InOrderFrame ==
    ASSUME NEW q \in Pushers, NEW c, InOrder(q, c),
           pulled'[q] = pulled[q], task'[q] = task[q], item'[q] = item[q],
           stream'[q] = stream[q], sent'[q] = sent[q], peer'[q] = peer[q],
           chan' = chan
    PROVE  InOrder(q, c)'
  BY DEF InOrder, Forwarded, Behind, InChan

\* Only Pusher p is touched by the step, the channel is not.
Touches(p) == /\ UNCHANGED <<chan, fan>>
              /\ \A q \in Pushers \ {p} :
                    /\ pulled'[q] = pulled[q] /\ task'[q] = task[q] /\ item'[q] = item[q]
                    /\ stream'[q] = stream[q] /\ sent'[q] = sent[q] /\ peer'[q] = peer[q]

\* Then it is enough to look at p.
LEMMA TouchesOne ==
    ASSUME IInv, NEW p \in Pushers, Touches(p), TypeOK',
           fan = "alive" => \E c \in 0 .. sent'[p] : InOrder(p, c)',
           task'[p] = "sendErr" \/ (\E i \in 1 .. Len(chan) : chan[i] = Err(p)) =>
               peer'[p] \in {"closed", "broken"} /\ stream'[p] = <<>>,
           (\E i \in 1 .. Len(chan) : chan[i] = Err(p)) => task'[p] = "done",
           peer'[p] = "dialling" => task'[p] = "none"
    PROVE  IInv'
  <1>1. ASSUME fan' = "alive", NEW q \in Pushers
        PROVE  \E c \in 0 .. sent'[q] : InOrder(q, c)'
    <2>1. CASE q = p
      BY <1>1, <2>1 DEF Touches
    <2>2. CASE q # p
      <3>1. fan = "alive"
        BY <1>1 DEF Touches
      <3>2. PICK c \in 0 .. sent[q] : InOrder(q, c)
        BY <3>1 DEF IInv, Ordered
      <3> QED BY <2>2, <3>2, InOrderFrame DEF Touches
    <2> QED BY <2>1, <2>2
  <1>2. Ordered'
    BY <1>1 DEF Ordered
  <1>3. Ending'
    BY DEF IInv, Ending, Err, Touches
  <1>4. ErrLast'
    BY DEF IInv, ErrLast, Err, Touches
  <1>5. Emptied' /\ Unaccepted'
    BY DEF IInv, Emptied, Unaccepted, Touches
  <1> QED BY <1>2, <1>3, <1>4, <1>5 DEF IInv

\* A pusher's send puts its message behind those it has sent.
LEMMA PushKeeps ==
    ASSUME IInv, NEW p \in Pushers, Push(p)
    PROVE  IInv'
  <1> USE PipelineAssumption DEF PipelineAssumption, Push
  <1>0. TypeOK /\ sent[p] \in 0 .. MaxMsgs /\ sent[p] + 1 \in Numbers /\ stream[p] \in Seq(Numbers)
    BY DEF IInv, TypeOK, Numbers
  <1>1. /\ stream'[p] = Append(stream[p], sent[p] + 1) /\ stream'[p] \in Seq(Numbers)
        /\ Len(stream[p]) \in Nat /\ Len(stream'[p]) = Len(stream[p]) + 1
        /\ sent'[p] = sent[p] + 1
        /\ \A i \in 1 .. Len(stream[p]) : stream'[p][i] = stream[p][i]
        /\ stream'[p][Len(stream[p]) + 1] = sent[p] + 1
    BY <1>0 DEF TypeOK
  <1>2. TypeOK'
    BY <1>0, <1>1 DEF TypeOK
  <1>3. Touches(p)
    BY <1>0 DEF Touches, TypeOK
  <1>4. ASSUME fan = "alive" PROVE \E c \in 0 .. sent'[p] : InOrder(p, c)'
    <2>1. PICK c \in 0 .. sent[p] : InOrder(p, c)
      BY <1>4 DEF IInv, Ordered
    <2>2. Forwarded(p, c)'
      BY <2>1 DEF InOrder, Forwarded, InChan
    <2>3. Behind(p, c)'
      <3>1. \A i \in 1 .. Len(stream'[p]) : i \in 1 .. Len(stream[p]) \/ i = Len(stream[p]) + 1
        BY <1>1
      <3> DEFINE read == IF task[p] = "sendOk" THEN c + 1 ELSE c
      <3>2. read \in Nat /\ read' = read
        BY <1>0
      <3>3. /\ task[p] = "sendOk" => item[p] = read
            /\ \A i \in 1 .. Len(stream[p]) : stream[p][i] = read + i
            /\ read + Len(stream[p]) = sent[p]
        BY <2>1 DEF InOrder, Behind
      <3> HIDE DEF read
      <3>4. /\ \A i \in 1 .. Len(stream'[p]) : stream'[p][i] = read + i
            /\ read + Len(stream'[p]) = sent'[p] /\ read + Len(stream'[p]) <= sent'[p]
        <4>1. \A a, b, x \in Nat : a + b = x => a + (b + 1) = x + 1 /\ a + (b + 1) <= x + 1
          OBVIOUS
        <4>2. sent[p] \in Nat /\ read + Len(stream[p]) = sent[p]
          BY <1>0, <3>3
        <4>3. read + (Len(stream[p]) + 1) = sent[p] + 1 /\ read + (Len(stream[p]) + 1) <= sent[p] + 1
          BY <1>1, <3>2, <4>1, <4>2
        <4>4. \A i \in 1 .. Len(stream'[p]) : stream'[p][i] = read + i
          BY <1>1, <3>1, <3>3, <4>3
        <4> QED BY <1>1, <4>3, <4>4
      <3>5. task'[p] = "sendOk" => item'[p] = read
        BY <3>3
      <3> QED BY <1>0, <1>1, <3>2, <3>4, <3>5 DEF Behind, read
    <2> QED BY <1>0, <1>1, <2>1, <2>2, <2>3 DEF InOrder
  <1>5. ~(task'[p] = "sendErr" \/ (\E i \in 1 .. Len(chan) : chan[i] = Err(p)))
    BY DEF IInv, Ending
  <1>6. peer'[p] # "dialling"
    OBVIOUS
  <1> QED BY <1>2, <1>3, <1>4, <1>5, <1>6, TouchesOne

\* Closing and breaking.
LEMMA CloseKeeps ==
    ASSUME IInv, NEW p \in Pushers, Close(p) \/ Break(p)
    PROVE  IInv'
  <1> USE PipelineAssumption DEF PipelineAssumption
  <1>0. TypeOK /\ stream[p] \in Seq(Numbers) /\ Len(stream[p]) \in Nat
    BY DEF IInv, TypeOK
  <1>1. /\ peer[p] = "open" /\ peer'[p] \in {"closed", "broken"}
        /\ \A q \in Pushers \ {p} : peer'[q] = peer[q] /\ stream'[q] = stream[q]
        /\ peer' \in [Pushers -> {"dialling", "open", "closed", "broken"}]
        /\ UNCHANGED <<sent, task, item, chan, fan, pull, ended, pulled>>
    BY <1>0 DEF Close, Break, TypeOK
  <1>2. /\ stream' \in [Pushers -> Seq(Numbers)]
        /\ Len(stream'[p]) \in 0 .. Len(stream[p])
        /\ peer'[p] = "closed" => stream' = stream
        /\ \A i \in 1 .. Len(stream'[p]) : stream'[p][i] = stream[p][i]
    <2>1. CASE Close(p)
      BY <1>0, <2>1 DEF Close, TypeOK
    <2>2. CASE Break(p)
      <3>1. PICK n \in 0 .. Len(stream[p]) : stream' = [stream EXCEPT ![p] = SubSeq(@, 1, n)]
        BY <2>2 DEF Break
      <3>2. /\ SubSeq(stream[p], 1, n) \in Seq(Numbers) /\ Len(SubSeq(stream[p], 1, n)) = n
            /\ \A i \in 1 .. n : SubSeq(stream[p], 1, n)[i] = stream[p][i]
        BY <1>0, <3>1
      <3>3. peer'[p] = "broken"
        BY <1>0, <2>2 DEF Break, TypeOK
      <3> QED BY <1>0, <3>1, <3>2, <3>3 DEF TypeOK
    <2> QED BY <2>1, <2>2
  <1>3. TypeOK'
    BY <1>0, <1>1, <1>2 DEF TypeOK
  <1>4. Touches(p)
    BY <1>1 DEF Touches
  <1>5. ASSUME fan = "alive" PROVE \E c \in 0 .. sent'[p] : InOrder(p, c)'
    <2>1. PICK c \in 0 .. sent[p] : InOrder(p, c)
      BY <1>5 DEF IInv, Ordered
    <2>2. Forwarded(p, c)'
      BY <1>1, <2>1 DEF InOrder, Forwarded, InChan
    <2>3. Behind(p, c)'
      <3>1. sent[p] \in Nat
        BY <1>0 DEF TypeOK
      <3> DEFINE read == IF task[p] = "sendOk" THEN c + 1 ELSE c
      <3>2. read \in Nat /\ read' = read
        BY <1>1
      <3>3. /\ task[p] = "sendOk" => item[p] = read
            /\ \A i \in 1 .. Len(stream[p]) : stream[p][i] = read + i
            /\ read + Len(stream[p]) = sent[p]
        BY <1>1, <2>1 DEF InOrder, Behind
      <3> HIDE DEF read
      <3>4. /\ \A i \in 1 .. Len(stream'[p]) : stream'[p][i] = read + i
            /\ read + Len(stream'[p]) <= sent'[p]
            /\ peer'[p] # "broken" => read + Len(stream'[p]) = sent'[p]
        BY <1>0, <1>1, <1>2, <3>1, <3>2, <3>3
      <3>5. task'[p] = "sendOk" => item'[p] = read
        BY <1>1, <3>3
      <3> QED BY <1>0, <1>1, <3>2, <3>4, <3>5 DEF Behind, read
    <2> QED BY <1>1, <2>1, <2>2, <2>3 DEF InOrder
  <1>6. ~(task'[p] = "sendErr" \/ (\E i \in 1 .. Len(chan) : chan[i] = Err(p)))
    BY <1>1 DEF IInv, Ending
  <1> QED BY <1>1, <1>3, <1>4, <1>5, <1>6, TouchesOne

\* A new pusher's task starts with an empty connection.
LEMMA AddPusherKeeps ==
    ASSUME IInv, NEW p \in Pushers, AddPusher(p)
    PROVE  IInv'
  <1> USE DEF AddPusher
  <1>0. TypeOK
    BY DEF IInv
  <1>1. TypeOK'
    BY <1>0 DEF TypeOK
  <1>2. Touches(p) /\ task'[p] = "recv" /\ peer'[p] = "open"
    BY <1>0 DEF Touches, TypeOK
  <1>3. ASSUME fan = "alive" PROVE \E c \in 0 .. sent'[p] : InOrder(p, c)'
    <2>1. PICK c \in 0 .. sent[p] : InOrder(p, c)
      BY <1>3 DEF IInv, Ordered
    <2>2. Forwarded(p, c)'
      BY <2>1 DEF InOrder, Forwarded, InChan
    <2>3. task[p] # "sendOk"
      BY <1>0 DEF IInv, Unaccepted
    <2>4. Behind(p, c)'
      BY <1>2, <2>1, <2>3 DEF InOrder, Behind
    <2> QED BY <2>1, <2>2, <2>4 DEF InOrder
  <1>4. ~\E i \in 1 .. Len(chan) : chan[i] = Err(p)
    BY DEF IInv, Ending
  <1> QED BY <1>1, <1>2, <1>3, <1>4, TouchesOne

\* A task takes the next message off its connection.
LEMMA ReadMsgKeeps ==
    ASSUME IInv, NEW p \in Pushers, ReadMsg(p)
    PROVE  IInv'
  <1> USE DEF ReadMsg, SetTask
  <1>0. TypeOK /\ stream[p] \in Seq(Numbers) /\ stream[p] # <<>> /\ sent[p] \in Nat
    BY PipelineAssumption DEF PipelineAssumption, IInv, TypeOK
  <1>1. /\ stream'[p] = Tail(stream[p]) /\ stream'[p] \in Seq(Numbers)
        /\ Len(stream[p]) \in Nat \ {0} /\ Len(stream'[p]) = Len(stream[p]) - 1
        /\ \A i \in 1 .. Len(stream'[p]) : stream'[p][i] = stream[p][i + 1]
        /\ item'[p] = stream[p][1] /\ stream[p][1] \in Numbers
        /\ task'[p] = "sendOk"
    BY <1>0 DEF TypeOK
  <1>2. TypeOK'
    BY <1>0, <1>1 DEF TypeOK, Numbers
  <1>3. Touches(p)
    BY <1>0 DEF Touches, TypeOK
  <1>4. ASSUME fan = "alive" PROVE \E c \in 0 .. sent'[p] : InOrder(p, c)'
    <2>1. PICK c \in 0 .. sent[p] : InOrder(p, c)
      BY <1>4 DEF IInv, Ordered
    <2>2. Forwarded(p, c)'
      BY <2>1 DEF InOrder, Forwarded, InChan
    <2>3. /\ \A i \in 1 .. Len(stream[p]) : stream[p][i] = c + i
          /\ c + Len(stream[p]) <= sent[p]
          /\ peer[p] # "broken" => c + Len(stream[p]) = sent[p]
      BY <2>1 DEF InOrder, Behind
    <2>4. /\ stream[p][1] = c + 1
          /\ \A i \in 1 .. Len(stream'[p]) : stream'[p][i] = c + 1 + i
          /\ c + 1 + Len(stream'[p]) <= sent[p]
          /\ peer[p] # "broken" => c + 1 + Len(stream'[p]) = sent[p]
      <3>1. \A i \in 1 .. Len(stream'[p]) : i + 1 \in 1 .. Len(stream[p])
        BY <1>1
      <3>2. \A i \in 1 .. Len(stream'[p]) : stream'[p][i] = c + 1 + i
        BY <1>1, <2>3, <3>1
      <3>3. c + 1 + Len(stream'[p]) = c + Len(stream[p])
        <4>1. c \in Nat /\ Len(stream[p]) \in Nat /\ Len(stream'[p]) = Len(stream[p]) - 1
          BY <1>0, <1>1
        <4> QED BY <4>1, Shifted
      <3>4. stream[p][1] = c + 1
        BY <1>1, <2>3
      <3> QED BY <2>3, <3>2, <3>3, <3>4
    <2>5. Behind(p, c)'
      BY <1>1, <2>4 DEF Behind
    <2> QED BY <2>1, <2>2, <2>5 DEF InOrder
  <1>5. ~\E i \in 1 .. Len(chan) : chan[i] = Err(p)
    BY <1>0 DEF IInv, Ending
  <1>6. peer'[p] # "dialling"
    BY DEF IInv, Unaccepted
  <1> QED BY <1>1, <1>2, <1>3, <1>4, <1>5, <1>6, TouchesOne

\* A task meets the end of its connection, or is cancelled; its connection is as it was.
LEMMA ReadEndKeeps ==
    ASSUME IInv, NEW p \in Pushers, ReadErr(p) \/ Cancelled(p)
    PROVE  IInv'
  <1>0. TypeOK
    BY DEF IInv
  <1>1. /\ task[p] = "recv" /\ task' = [task EXCEPT ![p] = IF ReadErr(p) THEN "sendErr" ELSE "done"]
        /\ UNCHANGED <<peer, sent, stream, item, chan, fan, pull, ended, pulled>>
        /\ ReadErr(p) => stream[p] = <<>> /\ peer[p] \in {"closed", "broken"}
    BY DEF ReadErr, Cancelled, SetTask
  <1>2. TypeOK'
    BY <1>0, <1>1 DEF TypeOK
  <1>3. Touches(p) /\ task'[p] \in {"sendErr", "done"} /\ (task'[p] = "sendErr" => ReadErr(p))
    BY <1>0, <1>1 DEF Touches, TypeOK
  <1>4. ASSUME fan = "alive" PROVE \E c \in 0 .. sent'[p] : InOrder(p, c)'
    <2>1. PICK c \in 0 .. sent[p] : InOrder(p, c)
      BY <1>4 DEF IInv, Ordered
    <2>2. Forwarded(p, c)'
      BY <1>1, <2>1 DEF InOrder, Forwarded, InChan
    <2>3. Behind(p, c)'
      BY <1>1, <1>3, <2>1 DEF InOrder, Behind
    <2> QED BY <1>1, <2>1, <2>2, <2>3 DEF InOrder
  <1>5. ~\E i \in 1 .. Len(chan) : chan[i] = Err(p)
    BY <1>1 DEF IInv, ErrLast
  <1>6. peer'[p] # "dialling"
    BY <1>1 DEF IInv, Unaccepted
  <1> QED BY <1>1, <1>2, <1>3, <1>4, <1>5, <1>6, TouchesOne

\* The entry that a task has put in the channel: Ending and ErrLast still hold for the
\* other pushers, whose entries are where they were.
LEMMA PutKeepsOthers ==
    ASSUME IInv, NEW p \in Pushers, NEW m \in 0 .. MaxMsgs, NEW q \in Pushers \ {p},
           chan' = Append(chan, [from |-> p, msg |-> m]),
           pulled'[q] = pulled[q], task'[q] = task[q], item'[q] = item[q],
           stream'[q] = stream[q], sent'[q] = sent[q], peer'[q] = peer[q]
    PROVE  /\ \A c : InOrder(q, c) => InOrder(q, c)'
           /\ (\E i \in 1 .. Len(chan') : chan'[i] = Err(q))
                  => \E i \in 1 .. Len(chan) : chan[i] = Err(q)
           /\ \A i \in 1 .. Len(chan') : chan'[i] = Err(q) =>
                  \A j \in i + 1 .. Len(chan') : chan'[j].from # q
  <1> DEFINE e == [from |-> p, msg |-> m]
  <1>0. TypeOK /\ e \in Entry /\ e.from # q /\ Len(chan) \in Nat
    BY DEF IInv, TypeOK, Entry
  <1>1. /\ Len(chan') = Len(chan) + 1
        /\ \A i \in 1 .. Len(chan) : chan'[i] = chan[i]
        /\ chan'[Len(chan) + 1] = e
        /\ InChan(q)' = InChan(q)
    BY <1>0, ChanPut
  <1> HIDE DEF e
  <1>2. \A i \in 1 .. Len(chan') : i \in 1 .. Len(chan) \/ chan'[i].from # q
    BY <1>0, <1>1
  <1>3. ASSUME NEW c, InOrder(q, c) PROVE InOrder(q, c)'
    <2>1. Forwarded(q, c)'
      <3>1. \A i, j \in 1 .. Len(chan') :
               i < j /\ chan'[i].from = q /\ chan'[j].from = q /\ chan'[j].msg # 0
                   => chan'[i].msg < chan'[j].msg
        BY <1>0, <1>1, <1>2, <1>3 DEF InOrder, Forwarded
      <3> QED BY <1>1, <1>3, <3>1 DEF InOrder, Forwarded
    <2>2. Behind(q, c)'
      BY <1>3 DEF InOrder, Behind
    <2> QED BY <2>1, <2>2 DEF InOrder
  <1>4. Err(q).from = q
    BY DEF Err
  <1>5. ASSUME NEW i \in 1 .. Len(chan'), chan'[i] = Err(q)
        PROVE  /\ i \in 1 .. Len(chan) /\ chan[i] = Err(q)
               /\ \A j \in i + 1 .. Len(chan') : chan'[j].from # q
    <2>1. i \in 1 .. Len(chan) /\ chan[i] = Err(q)
      BY <1>1, <1>2, <1>4, <1>5
    <2>2. \A j \in i + 1 .. Len(chan) : chan[j].from # q
      BY <2>1 DEF IInv, ErrLast
    <2>3. ASSUME NEW j \in i + 1 .. Len(chan') PROVE chan'[j].from # q
      <3>1. j \in 1 .. Len(chan')
        BY <2>1, <2>3, <1>0, <1>1
      <3>2. CASE j \in 1 .. Len(chan)
        BY <1>0, <1>1, <2>1, <2>2, <3>2
      <3> QED BY <1>2, <3>1, <3>2
    <2> QED BY <2>1, <2>3
  <1> QED BY <1>3, <1>5

\* A message goes into the channel.
LEMMA ForwardKeeps ==
    ASSUME IInv, NEW p \in Pushers, Forward(p)
    PROVE  IInv'
  <1> USE PipelineAssumption DEF PipelineAssumption
  <1> DEFINE m == item[p]  e == [from |-> p, msg |-> m]
  <1>0. TypeOK /\ m \in 0 .. MaxMsgs /\ e \in Entry /\ Len(chan) \in Nat /\ sent[p] \in 0 .. MaxMsgs
    BY DEF IInv, TypeOK, Entry
  <1>1. /\ task[p] = "sendOk" /\ fan = "alive" /\ task' = [task EXCEPT ![p] = "recv"]
        /\ chan' = Append(chan, e) /\ item' = [item EXCEPT ![p] = 0]
        /\ UNCHANGED <<peer, sent, stream, fan, pull, ended, pulled>>
    BY DEF Forward, SetTask
  <1>2. TypeOK'
    <2>1. chan' \in Seq([from : Pushers, msg : 0 .. MaxMsgs])
      BY <1>0, <1>1, ChanPut DEF Entry
    <2> QED BY <1>0, <1>1, <2>1 DEF TypeOK
  <1>3. PICK c \in 0 .. sent[p] : InOrder(p, c)
    BY <1>1 DEF IInv, Ordered
  <1>4. m = c + 1 /\ c + 1 \in Numbers /\ c + 1 \in 0 .. sent[p]
    <2>1. m = c + 1 /\ c + 1 + Len(stream[p]) <= sent[p]
      BY <1>1, <1>3 DEF InOrder, Behind
    <2>2. Len(stream[p]) \in Nat
      BY <1>0 DEF TypeOK
    <2>3. c \in Nat /\ sent[p] \in Nat /\ sent[p] <= MaxMsgs
      BY <1>0
    <2>4. c + 1 <= sent[p]
      BY <2>1, <2>2, <2>3, Shifted
    <2> QED BY <1>0, <2>1, <2>3, <2>4 DEF Numbers
  <1>5. /\ Len(chan') = Len(chan) + 1
        /\ \A i \in 1 .. Len(chan) : chan'[i] = chan[i]
        /\ chan'[Len(chan) + 1] = e
        /\ InChan(p)' = InChan(p) \cup {m}
    BY <1>0, <1>1, <1>4, ChanPut
  <1>6. InOrder(p, c + 1)'
    <2>1. Forwarded(p, c + 1)'
      <3>1. InChan(p) = Len(pulled[p]) + 1 .. c /\ Len(pulled[p]) <= c /\ Len(pulled[p]) \in Nat
        BY <1>0, <1>3 DEF InOrder, Forwarded, TypeOK
      <3>2. InChan(p)' = Len(pulled[p]) + 1 .. c + 1
        BY <1>3, <1>4, <1>5, <3>1
      <3>3. ASSUME NEW i \in 1 .. Len(chan'), NEW j \in 1 .. Len(chan'), i < j,
                   chan'[i].from = p, chan'[j].from = p, chan'[j].msg # 0
            PROVE  chan'[i].msg < chan'[j].msg
        <4>1. CASE j \in 1 .. Len(chan)
          BY <1>0, <1>3, <1>5, <3>3, <4>1 DEF InOrder, Forwarded
        <4>2. CASE j = Len(chan) + 1
          <5>1. i \in 1 .. Len(chan) /\ chan'[i] = chan[i] /\ chan'[j].msg = c + 1
            BY <1>0, <1>4, <1>5, <3>3, <4>2
          <5>2. chan[i] \in Entry
            <6>1. chan \in Seq(Entry)
              BY <1>0 DEF TypeOK, Entry
            <6> QED BY <5>1, <6>1
          <5>3. CASE chan[i].msg = 0
            BY <1>3, <5>1, <5>3
          <5>4. CASE chan[i].msg # 0
            <6>1. chan[i] = [from |-> p, msg |-> chan[i].msg] /\ chan[i].msg \in Numbers
              BY <3>3, <5>1, <5>2, <5>4 DEF Entry, Numbers
            <6>2. chan[i].msg \in InChan(p)
              BY <5>1, <6>1 DEF InChan
            <6> QED BY <1>3, <3>1, <5>1, <6>2
          <5> QED BY <5>3, <5>4
        <4> QED BY <1>0, <1>5, <4>1, <4>2
      <3> QED BY <1>1, <1>3, <3>1, <3>2, <3>3 DEF InOrder, Forwarded
    <2>2. Behind(p, c + 1)'
      <3>1. task'[p] = "recv"
        BY <1>0, <1>1 DEF TypeOK
      <3> QED BY <1>1, <1>3, <3>1 DEF InOrder, Behind
    <2> QED BY <2>1, <2>2 DEF InOrder
  <1> HIDE DEF m
  <1>7. \A q \in Pushers \ {p} :
           /\ task'[q] = task[q] /\ item'[q] = item[q] /\ stream'[q] = stream[q]
           /\ pulled'[q] = pulled[q] /\ sent'[q] = sent[q] /\ peer'[q] = peer[q]
    BY <1>0, <1>1 DEF TypeOK
  <1>8. ASSUME NEW q \in Pushers \ {p}
        PROVE  /\ \A c2 : InOrder(q, c2) => InOrder(q, c2)'
               /\ (\E i \in 1 .. Len(chan') : chan'[i] = Err(q))
                      => \E i \in 1 .. Len(chan) : chan[i] = Err(q)
               /\ \A i \in 1 .. Len(chan') : chan'[i] = Err(q) =>
                      \A j \in i + 1 .. Len(chan') : chan'[j].from # q
    BY <1>0, <1>1, <1>7, PutKeepsOthers
  <1>9. Ordered'
    <2>1. \A q \in Pushers \ {p} : \E c2 \in 0 .. sent'[q] : InOrder(q, c2)'
      BY <1>1, <1>7, <1>8 DEF IInv, Ordered
    <2>2. \E c2 \in 0 .. sent'[p] : InOrder(p, c2)'
      BY <1>1, <1>4, <1>6
    <2> QED BY <2>1, <2>2 DEF Ordered
  <1>10. \A i \in 1 .. Len(chan') : chan'[i] # Err(p)
    <2>1. \A i \in 1 .. Len(chan) : chan[i] # Err(p)
      BY <1>1 DEF IInv, ErrLast
    <2>2. e # Err(p)
      BY <1>3, <1>4 DEF Err
    <2> QED BY <1>0, <1>5, <2>1, <2>2
  <1>11. task'[p] = "recv"
    BY <1>0, <1>1 DEF TypeOK
  <1>12. Ending' /\ ErrLast'
    <2>1. Ending'
      BY <1>7, <1>8, <1>10, <1>11 DEF IInv, Ending, Err
    <2>2. ErrLast'
      BY <1>7, <1>8, <1>10 DEF IInv, ErrLast, Err
    <2> QED BY <2>1, <2>2
  <1>13. Unaccepted' /\ Emptied'
    BY <1>1, <1>7 DEF IInv, Unaccepted, Emptied
  <1> QED BY <1>2, <1>9, <1>12, <1>13 DEF IInv

\* The Err of a pusher goes into the channel, and its task is over.
LEMMA ForwardErrKeeps ==
    ASSUME IInv, NEW p \in Pushers, ForwardErr(p)
    PROVE  IInv'
  <1> USE PipelineAssumption DEF PipelineAssumption
  <1>0. TypeOK /\ Err(p) \in Entry /\ Len(chan) \in Nat
    BY DEF IInv, TypeOK, Entry, Err
  <1>1. /\ task[p] = "sendErr" /\ fan = "alive" /\ task' = [task EXCEPT ![p] = "done"]
        /\ chan' = Append(chan, Err(p))
        /\ UNCHANGED <<peer, sent, stream, item, fan, pull, ended, pulled>>
    BY DEF ForwardErr, SetTask, Err
  <1>2. TypeOK'
    <2>1. chan' \in Seq([from : Pushers, msg : 0 .. MaxMsgs])
      BY <1>0, <1>1, ChanPut DEF Entry
    <2> QED BY <1>0, <1>1, <2>1 DEF TypeOK
  <1>3. PICK c \in 0 .. sent[p] : InOrder(p, c)
    BY <1>1 DEF IInv, Ordered
  <1>4. /\ Len(chan') = Len(chan) + 1
        /\ \A i \in 1 .. Len(chan) : chan'[i] = chan[i]
        /\ chan'[Len(chan) + 1] = Err(p)
        /\ InChan(p)' = InChan(p)
    BY <1>0, <1>1, ChanPut DEF Err
  <1>5. task'[p] = "done"
    BY <1>0, <1>1 DEF TypeOK
  <1>6. \A i \in 1 .. Len(chan') : chan'[i].msg = 0 \/ (i \in 1 .. Len(chan) /\ chan'[i] = chan[i])
    BY <1>0, <1>4 DEF Err
  <1>7. InOrder(p, c)'
    <2>1. ASSUME NEW i \in 1 .. Len(chan'), NEW j \in 1 .. Len(chan'), i < j,
                 chan'[i].from = p, chan'[j].from = p, chan'[j].msg # 0
          PROVE  chan'[i].msg < chan'[j].msg
      <3>1. j \in 1 .. Len(chan) /\ chan'[j] = chan[j]
        BY <1>6, <2>1
      <3>2. i \in 1 .. Len(chan) /\ chan'[i] = chan[i]
        BY <1>0, <1>4, <2>1, <3>1
      <3> QED BY <1>3, <2>1, <3>1, <3>2 DEF InOrder, Forwarded
    <2>2. Forwarded(p, c)'
      BY <1>1, <1>3, <1>4, <2>1 DEF InOrder, Forwarded
    <2>3. Behind(p, c)'
      BY <1>1, <1>3, <1>5 DEF InOrder, Behind
    <2> QED BY <2>2, <2>3 DEF InOrder
  <1>8. \A q \in Pushers \ {p} :
           /\ task'[q] = task[q] /\ item'[q] = item[q] /\ stream'[q] = stream[q]
           /\ pulled'[q] = pulled[q] /\ sent'[q] = sent[q] /\ peer'[q] = peer[q]
    BY <1>0, <1>1 DEF TypeOK
  <1>9. ASSUME NEW q \in Pushers \ {p}
        PROVE  /\ \A c2 : InOrder(q, c2) => InOrder(q, c2)'
               /\ (\E i \in 1 .. Len(chan') : chan'[i] = Err(q))
                      => \E i \in 1 .. Len(chan) : chan[i] = Err(q)
               /\ \A i \in 1 .. Len(chan') : chan'[i] = Err(q) =>
                      \A j \in i + 1 .. Len(chan') : chan'[j].from # q
    BY <1>1, <1>8, PutKeepsOthers DEF Err
  <1>10. Ordered'
    <2>1. \A q \in Pushers \ {p} : \E c2 \in 0 .. sent'[q] : InOrder(q, c2)'
      BY <1>1, <1>8, <1>9 DEF IInv, Ordered
    <2>2. \E c2 \in 0 .. sent'[p] : InOrder(p, c2)'
      BY <1>1, <1>7
    <2> QED BY <2>1, <2>2 DEF Ordered
  <1>11. Ending'
    BY <1>1, <1>5, <1>8, <1>9 DEF IInv, Ending, Err
  <1>12. ErrLast'
    <2>1. \A i \in 1 .. Len(chan) : chan[i] # Err(p)
      BY <1>1 DEF IInv, ErrLast
    <2>2. ASSUME NEW i \in 1 .. Len(chan'), chan'[i] = Err(p)
          PROVE  \A j \in i + 1 .. Len(chan') : chan'[j].from # p
      <3>1. i = Len(chan')
        BY <1>0, <1>4, <2>1, <2>2
      <3> QED BY <1>0, <1>4, <3>1
    <2> QED BY <1>5, <1>8, <1>9, <2>2 DEF IInv, ErrLast, Err
  <1>13. Unaccepted' /\ Emptied'
    BY <1>1, <1>8 DEF IInv, Unaccepted, Emptied
  <1> QED BY <1>2, <1>10, <1>11, <1>12, <1>13 DEF IInv

\* A send that fails because the receiver is gone, and the end of the fan itself.
LEMMA DropKeeps ==
    ASSUME IInv, Drop \/ \E p \in Pushers : ForwardFail(p)
    PROVE  IInv'
  <1>0. TypeOK
    BY DEF IInv
  <1>1. CASE Drop
    <2>1. TypeOK'
      <3>1. <<>> \in Seq([from : Pushers, msg : 0 .. MaxMsgs])
        OBVIOUS
      <3> QED BY <1>0, <1>1, <3>1 DEF Drop, TypeOK
    <2> QED BY <1>1, <2>1 DEF Drop, IInv, Ordered, Ending, ErrLast, Unaccepted, Emptied
  <1>2. ASSUME NEW p \in Pushers, ForwardFail(p) PROVE IInv'
    <2> USE <1>2 DEF ForwardFail, SetTask
    <2>1. TypeOK' /\ task'[p] = "done"
      BY <1>0, PipelineAssumption DEF TypeOK, PipelineAssumption
    <2>2. Touches(p) /\ chan = <<>>
      BY <1>0 DEF Touches, TypeOK, IInv, Emptied
    <2>3. peer'[p] # "dialling"
      BY DEF IInv, Unaccepted
    <2> QED BY <2>1, <2>2, <2>3, TouchesOne
  <1> QED BY <1>1, <1>2

\* The oldest entry leaves the channel, as a message of its pusher or, an Err, as nothing.
LEMMA PullRecvKeeps ==
    ASSUME IInv, PullRecv
    PROVE  IInv'
  <1> USE PipelineAssumption DEF PipelineAssumption
  <1>0. TypeOK /\ chan \in Seq(Entry)
    BY DEF IInv, TypeOK, Entry
  <1>1. CASE chan = <<>>
    <2>1. UNCHANGED <<peer, sent, stream, task, item, chan, fan, pulled>>
      BY <1>1 DEF PullRecv
    <2>2. TypeOK'
      BY <1>0, <1>1, <2>1 DEF PullRecv, TypeOK
    <2>3. \A q \in Pushers : \A c \in 0 .. sent[q] : InOrder(q, c) => InOrder(q, c)'
      BY <2>1, InOrderFrame
    <2> QED BY <2>1, <2>2, <2>3 DEF IInv, Ordered, Ending, ErrLast, Unaccepted, Emptied
  <1>2. CASE chan # <<>>
    <2> DEFINE e == chan[1]  p == e.from
    <2>1. /\ chan' = Tail(chan)
          /\ UNCHANGED <<peer, sent, stream, task, item, fan>>
          /\ pulled' = IF e.msg = 0 THEN pulled ELSE [pulled EXCEPT ![p] = Append(@, e.msg)]
          /\ ended' = FALSE /\ pull' \in {"idle", "waiting"}
      <3>1. Head(chan) = chan[1]
        BY <1>0, <1>2
      <3>2. pull \in {"idle", "waiting"}
        BY <1>0 DEF TypeOK
      <3> QED BY <1>2, <3>1, <3>2 DEF PullRecv
    <2>2. /\ e \in Entry /\ chan' \in Seq(Entry)
          /\ Len(chan) \in Nat \ {0} /\ Len(chan') = Len(chan) - 1
          /\ \A i \in 1 .. Len(chan') : chan'[i] = chan[i + 1]
      BY <1>0, <1>2, <2>1, ChanTake
    <2>3. TypeOK'
      <3>1. p \in Pushers /\ (e.msg # 0 => e.msg \in Numbers)
        BY <2>2 DEF Entry, Numbers
      <3>2. pulled' \in [Pushers -> Seq(Numbers)]
        <4> HIDE DEF e, p
        <4>1. pulled \in [Pushers -> Seq(Numbers)]
          BY <1>0 DEF TypeOK
        <4>2. e.msg # 0 => Append(pulled[p], e.msg) \in Seq(Numbers)
          BY <3>1, <4>1
        <4> QED BY <2>1, <3>1, <4>1, <4>2
      <3> QED BY <1>0, <2>1, <2>2, <3>2 DEF TypeOK, Entry
    <2>4. \A i \in 1 .. Len(chan') : i + 1 \in 1 .. Len(chan)
      BY <2>2
    <2>5. ASSUME NEW q \in Pushers, NEW k \in Numbers
          PROVE  k \in InChan(q) <=> k \in InChan(q)' \/ e = [from |-> q, msg |-> k]
      <3>1. ASSUME NEW i \in 1 .. Len(chan), chan[i] = [from |-> q, msg |-> k]
            PROVE  k \in InChan(q)' \/ e = [from |-> q, msg |-> k]
        <4>1. CASE i = 1
          BY <3>1, <4>1
        <4>2. CASE i # 1
          <5>1. i - 1 \in 1 .. Len(chan') /\ chan'[i - 1] = chan[i]
            BY <2>2, <4>2
          <5> QED BY <3>1, <5>1 DEF InChan
        <4> QED BY <4>1, <4>2
      <3>2. ASSUME k \in InChan(q)' PROVE k \in InChan(q)
        BY <2>2, <2>4, <3>2 DEF InChan
      <3>3. ASSUME e = [from |-> q, msg |-> k] PROVE k \in InChan(q)
        BY <2>2, <3>3 DEF InChan
      <3> QED BY <3>1, <3>2, <3>3 DEF InChan
    <2>6. \A q \in Pushers : InChan(q) \subseteq Numbers /\ InChan(q)' \subseteq Numbers
      BY DEF InChan
    <2> HIDE DEF e, p
    <2>7. ASSUME NEW q \in Pushers, NEW c \in 0 .. sent[q], InOrder(q, c)
          PROVE  InOrder(q, c)'
      <3>0. /\ c \in Nat /\ pulled[q] \in Seq(Numbers) /\ Len(pulled[q]) \in Nat
            /\ InChan(q) = Len(pulled[q]) + 1 .. c /\ Len(pulled[q]) <= c
            /\ \A i \in 1 .. Len(pulled[q]) : pulled[q][i] = i
        BY <1>0, <2>7 DEF InOrder, Forwarded, TypeOK
      <3>1. \A i, j \in 1 .. Len(chan') :
               i < j /\ chan'[i].from = q /\ chan'[j].from = q /\ chan'[j].msg # 0
                   => chan'[i].msg < chan'[j].msg
        <4> SUFFICES ASSUME NEW i \in 1 .. Len(chan'), NEW j \in 1 .. Len(chan'), i < j,
                            chan'[i].from = q, chan'[j].from = q, chan'[j].msg # 0
                     PROVE  chan'[i].msg < chan'[j].msg
          OBVIOUS
        <4>1. i + 1 \in 1 .. Len(chan) /\ j + 1 \in 1 .. Len(chan) /\ i + 1 < j + 1
          BY <2>2, <2>4
        <4>2. chan'[i] = chan[i + 1] /\ chan'[j] = chan[j + 1]
          BY <2>2
        <4> QED BY <2>7, <4>1, <4>2 DEF InOrder, Forwarded
      <3>2. Behind(q, c)'
        BY <2>1, <2>7 DEF InOrder, Behind
      <3>3. CASE e.from # q \/ e.msg = 0
        <4>1. pulled'[q] = pulled[q]
          BY <1>0, <2>1, <3>3 DEF p, TypeOK
        <4>2. \A k \in Numbers : e # [from |-> q, msg |-> k]
          BY <3>3 DEF Numbers
        <4>3. InChan(q)' = InChan(q)
          BY <2>5, <2>6, <4>2
        <4>4. Forwarded(q, c)'
          BY <3>0, <3>1, <4>1, <4>3 DEF Forwarded
        <4> QED BY <3>2, <4>4 DEF InOrder
      <3>4. CASE e.from = q /\ e.msg # 0
        <4>1. e.msg \in Numbers /\ e = [from |-> q, msg |-> e.msg]
          BY <2>2, <3>4 DEF Entry, Numbers
        <4>2. pulled'[q] = Append(pulled[q], e.msg)
          BY <1>0, <2>1, <3>4 DEF p, TypeOK
        <4>3. e.msg \in Len(pulled[q]) + 1 .. c
          BY <2>5, <3>0, <4>1
        <4>4. ASSUME NEW k \in InChan(q)' PROVE e.msg < k
          <5>1. k \in Numbers
            BY <2>6
          <5>2. PICK i \in 1 .. Len(chan') : chan'[i] = [from |-> q, msg |-> k]
            BY <4>4 DEF InChan
          <5>3. chan[i + 1] = [from |-> q, msg |-> k] /\ i + 1 \in 1 .. Len(chan) /\ 1 < i + 1
            BY <2>2, <2>4, <5>2
          <5>4. 1 \in 1 .. Len(chan) /\ chan[1].from = q /\ chan[1] = e
            BY <2>2, <3>4 DEF e
          <5>5. chan[i + 1].from = q /\ chan[i + 1].msg = k /\ k # 0
            BY <5>1, <5>3 DEF Numbers
          <5> QED BY <2>7, <5>3, <5>4, <5>5 DEF InOrder, Forwarded
        <4>5. e.msg = Len(pulled[q]) + 1
          <5>1. Len(pulled[q]) + 1 \in InChan(q)
            BY <3>0, <4>3
          <5>2. Len(pulled[q]) + 1 \in InChan(q)' \/ e = [from |-> q, msg |-> Len(pulled[q]) + 1]
            BY <2>5, <2>6, <5>1
          <5>3. CASE Len(pulled[q]) + 1 \in InChan(q)'
            BY <3>0, <4>3, <4>4, <5>3
          <5> QED BY <5>2, <5>3, <4>1
        <4>6. InChan(q)' = Len(pulled[q]) + 2 .. c
          <5>1. \A k \in Numbers : k \in InChan(q)' <=> k \in InChan(q) /\ k # e.msg
            <6>1. \A k \in Numbers : e = [from |-> q, msg |-> k] <=> k = e.msg
              BY <4>1
            <6>2. e.msg \notin InChan(q)'
              BY <4>1, <4>4 DEF Numbers
            <6> QED BY <2>5, <6>1, <6>2
          <5>2. \A k : k \in InChan(q)' <=> k \in InChan(q) /\ k # e.msg
            BY <2>6, <5>1
          <5>3. \A k : k \in Len(pulled[q]) + 1 .. c /\ k # Len(pulled[q]) + 1
                          <=> k \in Len(pulled[q]) + 2 .. c
            BY <3>0
          <5> QED BY <3>0, <4>5, <5>2, <5>3
        <4>7. /\ Len(pulled'[q]) = Len(pulled[q]) + 1
              /\ \A i \in 1 .. Len(pulled'[q]) : pulled'[q][i] = i
          <5>1. /\ Len(pulled'[q]) = Len(pulled[q]) + 1
                /\ \A i \in 1 .. Len(pulled[q]) : pulled'[q][i] = pulled[q][i]
                /\ pulled'[q][Len(pulled[q]) + 1] = e.msg
            BY <3>0, <4>1, <4>2
          <5> QED BY <3>0, <4>5, <5>1
        <4>8. Forwarded(q, c)'
          BY <3>0, <3>1, <4>3, <4>5, <4>6, <4>7 DEF Forwarded
        <4> QED BY <3>2, <4>8 DEF InOrder
      <3> QED BY <3>3, <3>4
    <2>8. Ordered'
      BY <2>1, <2>7 DEF IInv, Ordered
    <2>9. Ending' /\ ErrLast'
      <3>1. ASSUME NEW q \in Pushers, NEW i \in 1 .. Len(chan'), chan'[i] = Err(q)
            PROVE  /\ chan[i + 1] = Err(q) /\ i + 1 \in 1 .. Len(chan)
                   /\ \A j \in i + 1 .. Len(chan') : chan'[j].from # q
        <4>1. chan[i + 1] = Err(q) /\ i + 1 \in 1 .. Len(chan)
          BY <2>2, <2>4, <3>1
        <4>2. \A j \in i + 2 .. Len(chan) : chan[j].from # q
          BY <4>1 DEF IInv, ErrLast
        <4>3. ASSUME NEW j \in i + 1 .. Len(chan') PROVE chan'[j].from # q
          <5>1. j + 1 \in i + 2 .. Len(chan) /\ j \in 1 .. Len(chan')
            BY <2>2, <4>3
          <5> QED BY <2>2, <4>2, <5>1
        <4> QED BY <4>1, <4>3
      <3>2. Ending'
        BY <2>1, <3>1 DEF IInv, Ending, Err
      <3>3. ErrLast'
        BY <2>1, <3>1 DEF IInv, ErrLast, Err
      <3> QED BY <3>2, <3>3
    <2>10. Unaccepted' /\ Emptied'
      BY <1>2, <2>1 DEF IInv, Unaccepted, Emptied
    <2> QED BY <2>3, <2>8, <2>9, <2>10 DEF IInv
  <1> QED BY <1>1, <1>2

\* Every step keeps the invariant.
LEMMA InvStep == IInv /\ [Next]_vars => IInv'
  <1> SUFFICES ASSUME IInv, [Next]_vars PROVE IInv'
    OBVIOUS
  <1>1. ASSUME PullAny \/ CancelPull \/ UNCHANGED vars PROVE IInv'
    <2>1. /\ UNCHANGED <<peer, sent, stream, task, item, chan, fan, ended, pulled>>
          /\ pull' \in {"idle", "waiting"}
      BY <1>1 DEF PullAny, CancelPull, vars, IInv, TypeOK
    <2>2. TypeOK'
      BY <2>1 DEF IInv, TypeOK
    <2>3. \A q \in Pushers : \A c \in 0 .. sent[q] : InOrder(q, c) => InOrder(q, c)'
      BY <2>1, InOrderFrame
    <2> QED BY <2>1, <2>2, <2>3 DEF IInv, Ordered, Ending, ErrLast, Unaccepted, Emptied
  <1>2. ASSUME NEW p \in Pushers, TaskStep(p) PROVE IInv'
    BY <1>2, ReadMsgKeeps, ReadEndKeeps, ForwardKeeps, ForwardErrKeeps, DropKeeps DEF TaskStep
  <1> QED BY <1>1, <1>2, PushKeeps, CloseKeeps, AddPusherKeeps, PullRecvKeeps, DropKeeps DEF Next

------------------------------------------------------------------------------

\* The state of the pushers, their tasks and the channel is well typed: pull_any hands
\* out messages and never the Err of a pusher.
THEOREM PipelineTypes == Spec => []TypeOK
  <1>1. IInv => TypeOK
    BY DEF IInv
  <1> QED BY <1>1, InvInit, InvStep, PTL DEF Spec

\* Whatever the number of pushers and the capacity of the channel, between the pushers
\* and pull_any nothing is lost, doubled or overtaken, and a pusher's disconnect comes
\* behind its last message.
THEOREM PipelineLosesNothing == Spec => []NothingLost
  <1>1. IInv => NothingLost
    <2> SUFFICES ASSUME IInv PROVE NothingLost
      OBVIOUS
    <2>1. \A p \in Pushers : Err(p) = [from |-> p, msg |-> 0]
      BY DEF Err
    <2> QED BY <2>1 DEF IInv, Ordered, InOrder, Ending, ErrLast, NothingLost
  <1> QED BY <1>1, InvInit, InvStep, PTL DEF Spec

\* A pull_any that waits borrows the fan, and with it the fan's own tx.
Borrowed == pull = "waiting" => fan = "alive"

\* CHANGELOG.md:203 has the stream end "when all senders close".  It never ends, however
\* many pushers there were and whatever became of them: NoPeers, None in the Stream, is
\* returned when the last tx is gone, and the fan that is being asked holds one.
THEOREM PipelineStreamNeverEnds == Spec => [](~ended)
  <1> DEFINE Inv == Borrowed /\ ~ended
  <1>1. Init => Inv
    BY DEF Init, Borrowed
  <1>2. Inv /\ [Next]_vars => Inv'
    <2> SUFFICES ASSUME Inv, [Next]_vars PROVE Inv'
      OBVIOUS
    <2> USE DEF Borrowed
    <2>1. ASSUME NEW p \in Pushers,
                 Push(p) \/ Close(p) \/ Break(p) \/ AddPusher(p) \/ TaskStep(p)
          PROVE  UNCHANGED <<fan, pull, ended>>
      BY <2>1 DEF Push, Close, Break, AddPusher, TaskStep, ReadMsg, ReadErr, Cancelled,
                  Forward, ForwardErr, ForwardFail
    <2>2. CASE PullAny \/ CancelPull \/ Drop
      BY <2>2 DEF PullAny, CancelPull, Drop
    <2>3. CASE PullRecv
      <3>1. fan = "alive"
        BY <2>3 DEF PullRecv
      <3>2. "fan" \in TxHandles
        BY <3>1 DEF TxHandles
      <3>3. chan # <<>>
        BY <2>3, <3>2 DEF PullRecv, RxReady
      <3> QED BY <2>3, <3>1, <3>3 DEF PullRecv
    <2>4. CASE UNCHANGED vars
      BY <2>4 DEF vars
    <2> QED BY <2>1, <2>2, <2>3, <2>4 DEF Next
  <1> QED BY <1>1, <1>2, PTL DEF Spec
=============================================================================
