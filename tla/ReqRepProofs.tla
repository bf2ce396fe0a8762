---------------------------- MODULE ReqRepProofs ----------------------------
(***************************************************************************)
(* Proofs about ReqRep, for every number of calls, faults and attempts,    *)
(* every stream capacity and every width of the ids.                       *)
(***************************************************************************)
EXTENDS ReqRep, SequenceTheorems, TLAPS

\* A prefix of a sequence has the same element type, and the same elements.
LEMMA PrefixType ==
    ASSUME NEW S, NEW s \in Seq(S), NEW n \in 0 .. Len(s)
    PROVE  /\ SubSeq(s, 1, n) \in Seq(S)
           /\ Len(SubSeq(s, 1, n)) = n
           /\ \A i \in 1 .. n : SubSeq(s, 1, n)[i] = s[i]
  BY SubSeqProperties

\* A sequence without one of its elements has the same element type.
LEMMA WithoutType ==
    ASSUME NEW S, NEW q \in Seq(S), NEW i \in 1 .. Len(q)
    PROVE  /\ Without(q, i) \in Seq(S)
           /\ Len(Without(q, i)) = Len(q) - 1
           /\ \A j \in 1 .. Len(q) - 1 :
                 Without(q, i)[j] = IF j < i THEN q[j] ELSE q[j + 1]
  <1>1. Len(q) \in Nat /\ Len(q) - 1 \in Nat
    OBVIOUS
  <1>2. \A j \in 1 .. Len(q) - 1 : (IF j < i THEN q[j] ELSE q[j + 1]) \in S
    BY <1>1
  <1> QED BY <1>1, <1>2, IsASeq DEF Without

------------------------------------------------------------------------------
(* Types *)

\* Ids and wire ids stay in range.
LEMMA IdTypes ==
    ASSUME NEW id \in 1 .. 2 * Half - 1
    PROVE  WireId(id) \in WireIds /\ Succ(id) \in 1 .. 2 * Half - 1
  BY ReqRepAssumption DEF WireId, WireIds, Succ, ReqRepAssumption

\* What a write leaves in a queue.
LEMMA WrittenIs ==
    ASSUME NEW q, NEW dir, NEW m \in Message, NEW p \in Written(q, dir, m)
    PROVE  /\ p = q \/ \E x \in Message : p = Append(q, x)
           /\ \/ p = q \/ p = Append(q, m)
              \/ /\ torn # {}
                 /\ \E w \in WireIds : p = Append(q, [id |-> w, body |-> Garbage])
  <1>1. \A w \in WireIds : [id |-> w, body |-> Garbage] \in Message
    BY DEF Message
  <1>2. CASE dir \in torn
    BY <1>1, <1>2 DEF Written
  <1>3. CASE dir \notin torn
    BY <1>3 DEF Written
  <1> QED BY <1>2, <1>3

\* The initial state is well typed.
LEMMA TypeInit == Init => TypeOK
  <1> SUFFICES ASSUME Init PROVE TypeOK
    OBVIOUS
  <1> USE ReqRepAssumption DEF ReqRepAssumption, Init, NoCall
  <1>1. CallersTypeOK
    BY DEF CallersTypeOK, Calls
  <1>2. ReqTypeOK
    BY DEF ReqTypeOK
  <1>3. LinkTypeOK
    BY DEF LinkTypeOK
  <1>4. RepTypeOK
    BY DEF RepTypeOK
  <1>5. HistoryTypeOK
    BY DEF HistoryTypeOK
  <1> QED BY <1>1, <1>2, <1>3, <1>4, <1>5 DEF TypeOK

\* Every step keeps the state well typed.
LEMMA TypeStep == TypeOK /\ [Next]_vars => TypeOK'
  <1> SUFFICES ASSUME TypeOK, [Next]_vars PROVE TypeOK'
    OBVIOUS
  <1> USE ReqRepAssumption DEF ReqRepAssumption, callvars, reqvars, linkvars, histvars
  <1>0. CallersTypeOK /\ ReqTypeOK /\ LinkTypeOK /\ RepTypeOK /\ HistoryTypeOK
    BY DEF TypeOK
  <1>1. CASE Call
    <2>1. CallersTypeOK'
      BY <1>0, <1>1 DEF Call, CallersTypeOK, Calls
    <2>2. ReqTypeOK' /\ LinkTypeOK' /\ RepTypeOK' /\ HistoryTypeOK'
      BY <1>0, <1>1 DEF Call, ReqTypeOK, LinkTypeOK, RepTypeOK, HistoryTypeOK
    <2> QED BY <2>1, <2>2 DEF TypeOK
  <1>2. CASE Lock
    <2>1. CallersTypeOK'
      BY <1>0, <1>2 DEF Lock, CallersTypeOK, Calls, NoCall
    <2>2. ReqTypeOK'
      <3>1. cur' = Head(queue) /\ Head(queue) \in Calls
        BY <1>0, <1>2 DEF Lock, CallersTypeOK
      <3>2. cur' # NoCall
        BY <3>1 DEF Calls, NoCall
      <3>3. next_id \in 1 .. 2 * Half - 1 /\ next_id # 0 /\ attempts \in Nat
        BY <1>0 DEF ReqTypeOK
      <3>4. Succ(next_id) \in 1 .. 2 * Half - 1
        BY <3>3, IdTypes
      <3> QED BY <1>2, <3>2, <3>3, <3>4 DEF Lock, ReqTypeOK
    <2>3. HistoryTypeOK'
      <3>1. /\ queue \in Seq(Calls) /\ queue # <<>> /\ next_id \in 0 .. 2 * Half - 1
            /\ ids' = [ids EXCEPT ![Head(queue)] = next_id]
            /\ UNCHANGED <<handled, resent, tears, faults>>
        BY <1>0, <1>2 DEF Lock, CallersTypeOK, ReqTypeOK
      <3>2. ids' \in [Calls -> 0 .. 2 * Half - 1]
        BY <1>0, <3>1 DEF HistoryTypeOK
      <3> QED BY <1>0, <3>1, <3>2 DEF HistoryTypeOK
    <2>4. LinkTypeOK' /\ RepTypeOK'
      BY <1>0, <1>2 DEF Lock, LinkTypeOK, RepTypeOK
    <2> QED BY <2>1, <2>2, <2>3, <2>4 DEF TypeOK
  <1>3. CASE SendOk
    <2>1. ReqTypeOK'
      BY <1>0, <1>3 DEF SendOk, Sending, ReqTypeOK
    <2>2. LinkTypeOK'
      <3>1. cur \in Calls /\ sent_id \in 1 .. 2 * Half - 1
        BY <1>0, <1>3 DEF SendOk, Sending, CallersTypeOK, ReqTypeOK
      <3>2. [id |-> WireId(sent_id), body |-> cur] \in Message
        BY <3>1, IdTypes DEF Message
      <3>4. c2s' = c2s \/ \E m \in Message : c2s' = Append(c2s, m)
        BY <1>3, <3>2, WrittenIs DEF SendOk
      <3>5. c2s' \in Seq(Message)
        BY <1>0, <3>4 DEF LinkTypeOK
      <3> QED BY <1>0, <1>3, <3>5 DEF SendOk, LinkTypeOK
    <2>3. CallersTypeOK' /\ RepTypeOK' /\ HistoryTypeOK'
      BY <1>0, <1>3 DEF SendOk, CallersTypeOK, RepTypeOK, HistoryTypeOK
    <2> QED BY <2>1, <2>2, <2>3 DEF TypeOK
  <1>4. CASE SendErr
    <2>1. CallersTypeOK'
      BY <1>0, <1>4 DEF SendErr, Sending, TransportError, Return, CallersTypeOK, ReqTypeOK, NoCall
    <2>2. ReqTypeOK'
      BY <1>0, <1>4 DEF SendErr, Sending, TransportError, Return, CallersTypeOK, ReqTypeOK, NoCall
    <2>3. LinkTypeOK' /\ RepTypeOK' /\ HistoryTypeOK'
      BY <1>0, <1>4 DEF SendErr, LinkTypeOK, RepTypeOK, HistoryTypeOK
    <2> QED BY <2>1, <2>2, <2>3 DEF TypeOK
  <1>5. CASE SendLost
    <2>1. ReqTypeOK'
      BY <1>0, <1>5 DEF SendLost, Sending, ReqTypeOK
    <2>2. CallersTypeOK' /\ LinkTypeOK' /\ RepTypeOK' /\ HistoryTypeOK'
      BY <1>0, <1>5 DEF SendLost, CallersTypeOK, LinkTypeOK, RepTypeOK, HistoryTypeOK
    <2> QED BY <2>1, <2>2 DEF TypeOK
  <1>6. CASE RecvReply
    <2>1. CallersTypeOK'
      <3>1. Head(s2c).body \in Calls \cup {NoCall, Garbage}
        <4>1. Head(s2c) \in Message
          BY <1>0, <1>6 DEF RecvReply, LinkTypeOK
        <4> QED BY <4>1 DEF Message
      <3>2. cur \in Calls
        BY <1>0, <1>6 DEF RecvReply, Waiting, CallersTypeOK, ReqTypeOK
      <3> QED BY <1>0, <1>6, <3>1, <3>2 DEF RecvReply, Return, CallersTypeOK
    <2>2. ReqTypeOK'
      BY <1>0, <1>6 DEF RecvReply, Waiting, Return, CallersTypeOK, ReqTypeOK, NoCall
    <2>3. LinkTypeOK'
      BY <1>0, <1>6 DEF RecvReply, LinkTypeOK
    <2>4. RepTypeOK' /\ HistoryTypeOK'
      BY <1>0, <1>6 DEF RecvReply, RepTypeOK, HistoryTypeOK
    <2> QED BY <2>1, <2>2, <2>3, <2>4 DEF TypeOK
  <1>23. CASE RecvGarbage
    <2>1. cur \in Calls /\ attempts \in Nat
      BY <1>0, <1>23 DEF RecvGarbage, Waiting, CallersTypeOK, ReqTypeOK
    <2>2. CallersTypeOK'
      BY <1>0, <1>23, <2>1 DEF RecvGarbage, TransportError, Return, CallersTypeOK
    <2>3. ReqTypeOK'
      BY <1>0, <1>23 DEF RecvGarbage, Waiting, TransportError, Return, CallersTypeOK, ReqTypeOK, NoCall
    <2>4. LinkTypeOK'
      BY <1>0, <1>23 DEF RecvGarbage, LinkTypeOK
    <2>5. RepTypeOK' /\ HistoryTypeOK'
      BY <1>0, <1>23 DEF RecvGarbage, RepTypeOK, HistoryTypeOK
    <2> QED BY <2>2, <2>3, <2>4, <2>5 DEF TypeOK
  <1>7. CASE RecvErr
    <2>1. CallersTypeOK'
      BY <1>0, <1>7 DEF RecvErr, Waiting, TransportError, Return, CallersTypeOK, ReqTypeOK, NoCall
    <2>2. ReqTypeOK'
      BY <1>0, <1>7 DEF RecvErr, Waiting, TransportError, Return, CallersTypeOK, ReqTypeOK, NoCall
    <2>3. LinkTypeOK' /\ RepTypeOK' /\ HistoryTypeOK'
      BY <1>0, <1>7 DEF RecvErr, LinkTypeOK, RepTypeOK, HistoryTypeOK
    <2> QED BY <2>1, <2>2, <2>3 DEF TypeOK
  <1>8. CASE ResendTimeout
    <2>1. ReqTypeOK'
      BY <1>0, <1>8 DEF ResendTimeout, Waiting, ReqTypeOK
    <2>2. RepTypeOK'
      BY <1>0, <1>8 DEF ResendTimeout, MaybeOrphan, RepTypeOK
    <2>3. CallersTypeOK' /\ LinkTypeOK' /\ HistoryTypeOK'
      BY <1>0, <1>8 DEF ResendTimeout, Waiting, CallersTypeOK, ReqTypeOK, LinkTypeOK, HistoryTypeOK
    <2> QED BY <2>1, <2>2, <2>3 DEF TypeOK
  <1>9. CASE ConnectOk
    <2>1. ReqTypeOK'
      BY <1>0, <1>9 DEF ConnectOk, Dialling, ReqTypeOK
    <2>2. LinkTypeOK'
      BY <1>0, <1>9 DEF ConnectOk, LinkTypeOK
    <2>3. RepTypeOK'
      BY <1>0, <1>9 DEF ConnectOk, RepTypeOK
    <2>4. CallersTypeOK' /\ HistoryTypeOK'
      BY <1>0, <1>9 DEF ConnectOk, CallersTypeOK, HistoryTypeOK
    <2> QED BY <2>1, <2>2, <2>3, <2>4 DEF TypeOK
  <1>10. CASE ConnectErr
    <2>1. CallersTypeOK'
      BY <1>0, <1>10 DEF ConnectErr, Dialling, Return, CallersTypeOK, ReqTypeOK, NoCall
    <2>2. ReqTypeOK'
      BY <1>0, <1>10 DEF ConnectErr, Dialling, Return, CallersTypeOK, ReqTypeOK, NoCall
    <2>3. LinkTypeOK' /\ RepTypeOK' /\ HistoryTypeOK'
      BY <1>0, <1>10 DEF ConnectErr, LinkTypeOK, RepTypeOK, HistoryTypeOK
    <2> QED BY <2>1, <2>2, <2>3 DEF TypeOK
  <1>11. CASE RepListen
    <2>1. RepTypeOK'
      BY <1>0, <1>11 DEF RepListen, RepTypeOK
    <2>2. CallersTypeOK' /\ ReqTypeOK' /\ LinkTypeOK' /\ HistoryTypeOK'
      BY <1>0, <1>11 DEF RepListen, CallersTypeOK, ReqTypeOK, LinkTypeOK, HistoryTypeOK
    <2> QED BY <2>1, <2>2 DEF TypeOK
  <1>12. CASE RepReceive
    <2>1. LinkTypeOK'
      BY <1>0, <1>12 DEF RepReceive, LinkTypeOK
    <2>2. RepTypeOK'
      <3>1. Head(c2s) \in Message
        BY <1>0, <1>12 DEF RepReceive, LinkTypeOK
      <3>2. rep' = [rep EXCEPT !.st = "handling", !.msg = Head(c2s)]
        BY <1>12 DEF RepReceive
      <3> QED BY <1>0, <3>1, <3>2 DEF RepTypeOK
    <2>3. HistoryTypeOK'
      BY <1>0, <1>12 DEF RepReceive, HistoryTypeOK
    <2>4. CallersTypeOK' /\ ReqTypeOK'
      BY <1>0, <1>12 DEF RepReceive, CallersTypeOK, ReqTypeOK
    <2> QED BY <2>1, <2>2, <2>3, <2>4 DEF TypeOK
  <1>13. CASE RepRecvErr
    <2>1. RepTypeOK'
      BY <1>0, <1>13 DEF RepRecvErr, RepTypeOK
    <2>2. CallersTypeOK' /\ ReqTypeOK' /\ LinkTypeOK' /\ HistoryTypeOK'
      BY <1>0, <1>13 DEF RepRecvErr, CallersTypeOK, ReqTypeOK, LinkTypeOK, HistoryTypeOK
    <2> QED BY <2>1, <2>2 DEF TypeOK
  <1>22. CASE RepRecvGarbage
    <2>1. LinkTypeOK'
      BY <1>0, <1>22, PrefixType DEF RepRecvGarbage, LoseLink, LinkTypeOK
    <2>2. RepTypeOK'
      BY <1>22 DEF RepRecvGarbage, RepTypeOK
    <2>3. CallersTypeOK' /\ ReqTypeOK' /\ HistoryTypeOK'
      BY <1>0, <1>22 DEF RepRecvGarbage, CallersTypeOK, ReqTypeOK, HistoryTypeOK
    <2> QED BY <2>1, <2>2, <2>3 DEF TypeOK
  <1>14. CASE RepReply
    <2>1. LinkTypeOK'
      <3>1. rep.msg \in Message
        BY <1>0, <1>14 DEF RepReply, RepTypeOK
      <3>2. s2c' = s2c \/ \E m \in Message : s2c' = Append(s2c, m)
        BY <1>14, <3>1, WrittenIs DEF RepReply
      <3>3. s2c' \in Seq(Message)
        BY <1>0, <3>2 DEF LinkTypeOK
      <3> QED BY <1>0, <1>14, <3>3 DEF RepReply, LinkTypeOK
    <2>2. RepTypeOK'
      BY <1>0, <1>14 DEF RepReply, RepTypeOK
    <2>3. CallersTypeOK' /\ ReqTypeOK' /\ HistoryTypeOK'
      BY <1>0, <1>14 DEF RepReply, CallersTypeOK, ReqTypeOK, HistoryTypeOK
    <2> QED BY <2>1, <2>2, <2>3 DEF TypeOK
  <1>15. CASE RepReplyErr
    <2>1. RepTypeOK'
      <3>1. CASE rep' = [rep EXCEPT !.st = "ready", !.msg = NoMsg]
        BY <1>0, <3>1 DEF RepTypeOK
      <3>2. CASE rep' = [st |-> "off", msg |-> NoMsg]
        BY <1>0, <3>2 DEF RepTypeOK
      <3> QED BY <1>15, <3>1, <3>2 DEF RepReplyErr
    <2>2. CallersTypeOK' /\ ReqTypeOK' /\ LinkTypeOK' /\ HistoryTypeOK'
      BY <1>0, <1>15 DEF RepReplyErr, CallersTypeOK, ReqTypeOK, LinkTypeOK, HistoryTypeOK
    <2> QED BY <2>1, <2>2 DEF TypeOK
  <1>16. CASE Break
    <2>1. LinkTypeOK'
      BY <1>0, <1>16, PrefixType DEF Break, LoseLink, LinkTypeOK
    <2>2. HistoryTypeOK'
      BY <1>0, <1>16 DEF Break, Fault, HistoryTypeOK
    <2>3. CallersTypeOK' /\ ReqTypeOK' /\ RepTypeOK'
      BY <1>0, <1>16 DEF Break, CallersTypeOK, ReqTypeOK, RepTypeOK
    <2> QED BY <2>1, <2>2, <2>3 DEF TypeOK
  <1>17. CASE RepCrash
    <2>1. LinkTypeOK'
      <3>1. CASE UNCHANGED linkvars
        BY <1>0, <3>1 DEF LinkTypeOK
      <3>2. CASE LoseLink /\ c2s' = <<>>
        BY <1>0, <3>2, PrefixType DEF LoseLink, LinkTypeOK
      <3> QED BY <1>17, <3>1, <3>2 DEF RepCrash
    <2>2. RepTypeOK'
      BY <1>0, <1>17 DEF RepCrash, RepTypeOK
    <2>3. HistoryTypeOK'
      BY <1>0, <1>17 DEF RepCrash, Fault, HistoryTypeOK
    <2>4. CallersTypeOK' /\ ReqTypeOK'
      BY <1>0, <1>17 DEF RepCrash, CallersTypeOK, ReqTypeOK
    <2> QED BY <2>1, <2>2, <2>3, <2>4 DEF TypeOK
  <1>18. CASE RepDrop
    <2>1. RepTypeOK'
      BY <1>0, <1>18 DEF RepDrop, RepTypeOK
    <2>2. HistoryTypeOK'
      BY <1>0, <1>18 DEF RepDrop, Tear, Fault, HistoryTypeOK
    <2>3. CallersTypeOK' /\ ReqTypeOK' /\ LinkTypeOK'
      BY <1>0, <1>18 DEF RepDrop, Tear, CallersTypeOK, ReqTypeOK, LinkTypeOK
    <2> QED BY <2>1, <2>2, <2>3 DEF TypeOK
  <1>19. CASE CancelQueued
    <2>1. CallersTypeOK'
      BY <1>0, <1>19, WithoutType DEF CancelQueued, CallersTypeOK
    <2>2. HistoryTypeOK'
      BY <1>0, <1>19 DEF CancelQueued, Fault, HistoryTypeOK
    <2>3. ReqTypeOK' /\ LinkTypeOK' /\ RepTypeOK'
      BY <1>0, <1>19 DEF CancelQueued, ReqTypeOK, LinkTypeOK, RepTypeOK
    <2> QED BY <2>1, <2>2, <2>3 DEF TypeOK
  <1>20. CASE CancelActive
    <2>1. CallersTypeOK'
      BY <1>0, <1>20 DEF CancelActive, Return, CallersTypeOK, NoCall
    <2>2. ReqTypeOK'
      BY <1>0, <1>20 DEF CancelActive, Return, ReqTypeOK, NoCall
    <2>3. LinkTypeOK'
      BY <1>0, <1>20 DEF CancelActive, Tear, LinkTypeOK
    <2>4. RepTypeOK'
      BY <1>0, <1>20 DEF CancelActive, MaybeOrphan, RepTypeOK
    <2>5. HistoryTypeOK'
      BY <1>0, <1>20 DEF CancelActive, Tear, Fault, HistoryTypeOK
    <2> QED BY <2>1, <2>2, <2>3, <2>4, <2>5 DEF TypeOK
  <1>21. CASE UNCHANGED vars
    BY <1>0, <1>21 DEF vars, TypeOK, CallersTypeOK, ReqTypeOK, LinkTypeOK, RepTypeOK, HistoryTypeOK
  <1> QED
    BY <1>1, <1>2, <1>3, <1>4, <1>5, <1>6, <1>7, <1>8, <1>9, <1>10, <1>11, <1>12, <1>13, <1>14, <1>15, <1>16, <1>17, <1>18, <1>19, <1>20, <1>21, <1>22, <1>23
       DEF Next, ReqSend, ReqRecv, RepStep

\* The state of the callers, the socket, the connection and the server is always
\* well typed: ids stay in range, the mutex is held exactly while request() runs,
\* a server that is handling a request has one.
THEOREM TypeCorrect == Spec => []TypeOK
  <1>1. Init => TypeOK
    BY TypeInit
  <1>2. TypeOK /\ [Next]_vars => TypeOK'
    BY TypeStep
  <1> QED BY <1>1, <1>2, PTL DEF Spec

------------------------------------------------------------------------------
(* Stamped messages *)

\* In a queue of stamped messages the first one and the rest are stamped.
LEMMA StampedTail ==
    ASSUME NEW q \in Seq(Message), NEW f, NEW n, NEW t, q # <<>>, AllStamped(q, f, n, t)
    PROVE  Stamped(Head(q), f, n, t) /\ AllStamped(Tail(q), f, n, t)
  <1>1. Len(q) \in Nat \ {0} /\ Head(q) = q[1]
    OBVIOUS
  <1>2. Len(Tail(q)) = Len(q) - 1 /\ \A i \in 1 .. Len(Tail(q)) : Tail(q)[i] = q[i + 1]
    BY HeadTailProperties
  <1>3. ASSUME NEW i \in 1 .. Len(Tail(q)) PROVE Stamped(Tail(q)[i], f, n, t)
    <2>1. i + 1 \in 1 .. Len(q) /\ Tail(q)[i] = q[i + 1]
      BY <1>1, <1>2
    <2> QED BY <2>1 DEF AllStamped
  <1> QED BY <1>1, <1>3 DEF AllStamped

\* Appending a stamped message keeps a queue stamped.
LEMMA StampedAppend ==
    ASSUME NEW q \in Seq(Message), NEW f, NEW n, NEW t, NEW m \in Message,
           AllStamped(q, f, n, t), Stamped(m, f, n, t)
    PROVE  AllStamped(Append(q, m), f, n, t)
  <1>1. /\ Len(Append(q, m)) = Len(q) + 1 /\ Len(q) \in Nat
        /\ \A i \in 1 .. Len(q) : Append(q, m)[i] = q[i]
        /\ Append(q, m)[Len(q) + 1] = m
    BY AppendProperties
  <1>2. ASSUME NEW i \in 1 .. Len(Append(q, m)) PROVE Stamped(Append(q, m)[i], f, n, t)
    <2>1. CASE i \in 1 .. Len(q)
      <3>1. Append(q, m)[i] = q[i]
        BY <1>1, <2>1
      <3> QED BY <2>1, <3>1 DEF AllStamped
    <2>2. CASE i = Len(q) + 1
      BY <1>1, <2>2
    <2> QED BY <1>1, <2>1, <2>2
  <1> QED BY <1>2 DEF AllStamped

\* Losing a suffix keeps a queue stamped.
LEMMA StampedPrefix ==
    ASSUME NEW q \in Seq(Message), NEW f, NEW n, NEW t, NEW k \in 0 .. Len(q),
           AllStamped(q, f, n, t)
    PROVE  AllStamped(SubSeq(q, 1, k), f, n, t)
  <1>1. /\ Len(SubSeq(q, 1, k)) = k /\ Len(q) \in Nat
        /\ \A i \in 1 .. k : SubSeq(q, 1, k)[i] = q[i]
    BY PrefixType
  <1>2. ASSUME NEW i \in 1 .. k PROVE Stamped(SubSeq(q, 1, k)[i], f, n, t)
    <2>1. SubSeq(q, 1, k)[i] = q[i] /\ i \in 1 .. Len(q)
      BY <1>1
    <2> QED BY <2>1 DEF AllStamped
  <1> QED BY <1>1, <1>2 DEF AllStamped

\* What is written to a queue of stamped messages is stamped, garbage included.
LEMMA StampedWritten ==
    ASSUME NEW q \in Seq(Message), NEW f, NEW n, NEW t, NEW dir, NEW m \in Message,
           AllStamped(q, f, n, t), Stamped(m, f, n, t), torn # {} => t > 0,
           NEW p \in Written(q, dir, m)
    PROVE  AllStamped(p, f, n, t)
  <1>1. CASE p = q
    BY <1>1
  <1>2. CASE p = Append(q, m)
    BY <1>2, StampedAppend
  <1>3. CASE torn # {} /\ \E w \in WireIds : p = Append(q, [id |-> w, body |-> Garbage])
    <2>1. PICK w \in WireIds : p = Append(q, [id |-> w, body |-> Garbage])
      BY <1>3
    <2>2. [id |-> w, body |-> Garbage] \in Message
      BY DEF Message
    <2>3. Stamped([id |-> w, body |-> Garbage], f, n, t)
      BY <1>3 DEF Stamped, Garbage, Calls
    <2> QED BY <2>1, <2>2, <2>3, StampedAppend
  <1> QED BY <1>1, <1>2, <1>3, WrittenIs

\* A message stays stamped when more calls are, and when more sends are abandoned.
LEMMA StampedLater ==
    ASSUME NEW f, NEW n \in Nat, NEW t \in Nat, NEW g, NEW m \in Nat, NEW u \in Nat,
           n <= m, t <= u,
           \A k \in Calls : f[k] \in 1 .. n - 1 => g[k] = f[k],
           NEW x, Stamped(x, f, n, t)
    PROVE  Stamped(x, g, m, u)
  BY DEF Stamped

\* ... and so does a queue of them.
LEMMA AllStampedLater ==
    ASSUME NEW f, NEW n \in Nat, NEW t \in Nat, NEW g, NEW m \in Nat, NEW u \in Nat,
           n <= m, t <= u,
           \A k \in Calls : f[k] \in 1 .. n - 1 => g[k] = f[k],
           NEW q, AllStamped(q, f, n, t)
    PROVE  AllStamped(q, g, m, u)
  <1> SUFFICES ASSUME NEW i \in 1 .. Len(q) PROVE Stamped(q[i], g, m, u)
    BY DEF AllStamped
  <1>1. Stamped(q[i], f, n, t)
    BY DEF AllStamped
  <1> QED BY <1>1 DEF Stamped

------------------------------------------------------------------------------
(* Ids *)

\* As long as the calls do not outnumber the ids below the high bit, the id
\* counter has not reached it, and it has room while a call waits for an id.
LEMMA IdRoom ==
    ASSUME MaxCalls < Half, TypeOK, QueueFresh
    PROVE  /\ next_id \in 1 .. Half
           /\ queue # <<>> => next_id + 1 \in 1 .. Half /\ Succ(next_id) = next_id + 1
  <1>1. /\ next_id \in Nat \ {0} /\ ncalls \in Nat /\ ncalls <= MaxCalls
        /\ queue \in Seq(Calls) /\ Len(queue) \in Nat
        /\ Half \in Nat /\ MaxCalls \in Nat
    BY ReqRepAssumption DEF ReqRepAssumption, TypeOK, CallersTypeOK, ReqTypeOK
  <1>2. next_id - 1 + Len(queue) <= ncalls
    BY DEF QueueFresh
  <1>3. next_id \in 1 .. Half
    BY <1>1, <1>2
  <1>4. ASSUME queue # <<>> PROVE next_id + 1 \in 1 .. Half /\ Succ(next_id) = next_id + 1
    <2>1. Len(queue) >= 1
      BY <1>1, <1>4
    <2>2. next_id + 1 <= Half
      BY <1>1, <1>2, <2>1
    <2> QED BY <1>1, <2>2 DEF Succ
  <1> QED BY <1>3, <1>4

\* The high bit can be put on and taken off an id below it.
LEMMA StripWireId ==
    ASSUME NEW id \in 1 .. Half - 1
    PROVE  Strip(WireId(id)) = id
  BY ReqRepAssumption DEF ReqRepAssumption, Strip, WireId

\* The calls that wait for the mutex have no id, wait in the order in which they
\* were made, and the id counter lags behind the calls that got one.
LEMMA QueueStep ==
    ASSUME MaxCalls < Half, TypeOK, QueueFresh, [Next]_vars
    PROVE  QueueFresh'
  <1>0. /\ next_id \in Nat \ {0} /\ ncalls \in Nat /\ ncalls <= MaxCalls
        /\ queue \in Seq(Calls) /\ Len(queue) \in Nat
        /\ ids \in [Calls -> Nat] /\ MaxCalls \in Nat
    BY ReqRepAssumption DEF ReqRepAssumption, TypeOK, CallersTypeOK, ReqTypeOK, HistoryTypeOK
  <1>1. CASE Call
    <2>1. ncalls' = ncalls + 1 /\ ncalls + 1 \in Calls /\ next_id' = next_id /\ ids' = ids
      BY <1>0, <1>1 DEF Call, reqvars, histvars, Calls
    <2>2. /\ Len(queue') = Len(queue) + 1
          /\ \A i \in 1 .. Len(queue) : queue'[i] = queue[i]
          /\ queue'[Len(queue) + 1] = ncalls + 1
      BY <1>0, <1>1, <2>1, AppendProperties DEF Call
    <2>3. ids[ncalls + 1] = 0
      BY <1>0, <2>1 DEF QueueFresh
    <2>4. next_id' - 1 + Len(queue') <= ncalls'
      BY <1>0, <2>1, <2>2 DEF QueueFresh
    <2>5. \A i \in 1 .. Len(queue') : queue'[i] <= ncalls' /\ ids'[queue'[i]] = 0
      <3> SUFFICES ASSUME NEW i \in 1 .. Len(queue')
                   PROVE  queue'[i] <= ncalls' /\ ids'[queue'[i]] = 0
        OBVIOUS
      <3>1. CASE i \in 1 .. Len(queue)
        <4>1. queue[i] \in Nat
          BY <1>0, <3>1 DEF Calls
        <4>2. queue[i] <= ncalls /\ ids[queue[i]] = 0 /\ queue'[i] = queue[i]
          BY <2>2, <3>1 DEF QueueFresh
        <4>3. queue[i] <= ncalls + 1
          BY <1>0, <4>1, <4>2
        <4> QED BY <2>1, <4>2, <4>3
      <3>2. CASE i = Len(queue) + 1
        BY <1>0, <2>1, <2>2, <2>3, <3>2
      <3> QED BY <1>0, <2>2, <3>1, <3>2
    <2>6. \A i, j \in 1 .. Len(queue') : i < j => queue'[i] < queue'[j]
      <3> SUFFICES ASSUME NEW i \in 1 .. Len(queue'), NEW j \in 1 .. Len(queue'), i < j
                   PROVE  queue'[i] < queue'[j]
        OBVIOUS
      <3>1. i \in 1 .. Len(queue) /\ queue[i] \in Calls
        BY <1>0, <2>2
      <3>2. CASE j \in 1 .. Len(queue)
        BY <2>2, <3>1, <3>2 DEF QueueFresh
      <3>3. CASE j = Len(queue) + 1
        <4>1. queue[i] <= ncalls /\ queue'[i] = queue[i] /\ queue'[j] = ncalls + 1
          BY <2>2, <3>1, <3>3 DEF QueueFresh
        <4>2. queue[i] \in Nat
          BY <3>1 DEF Calls
        <4>3. queue[i] < ncalls + 1
          BY <1>0, <4>1, <4>2
        <4> QED BY <4>1, <4>3
      <3>4. j \in 1 .. Len(queue) \/ j = Len(queue) + 1
        <4>1. j \in 1 .. (Len(queue) + 1)
          BY <2>2
        <4> QED BY <1>0, <4>1
      <3> QED BY <3>2, <3>3, <3>4
    <2>7. \A k \in Calls : k > ncalls' => ids'[k] = 0
      BY <1>0, <2>1 DEF QueueFresh, Calls
    <2> QED BY <2>4, <2>5, <2>6, <2>7 DEF QueueFresh
  <1>2. CASE Lock
    <2>1. /\ queue # <<>> /\ ncalls' = ncalls /\ next_id' = next_id + 1
          /\ Head(queue) \in Calls /\ Head(queue) = queue[1]
          /\ ids' = [ids EXCEPT ![Head(queue)] = next_id]
      BY <1>0, <1>2, IdRoom DEF Lock
    <2>2. /\ Len(queue') = Len(queue) - 1 /\ Len(queue) >= 1
          /\ \A i \in 1 .. Len(queue') : queue'[i] = queue[i + 1]
      BY <1>0, <1>2, <2>1, HeadTailProperties DEF Lock
    <2>3. next_id' - 1 + Len(queue') <= ncalls'
      BY <1>0, <2>1, <2>2 DEF QueueFresh
    <2>4. \A i \in 1 .. Len(queue') : queue'[i] <= ncalls' /\ ids'[queue'[i]] = 0
      <3> SUFFICES ASSUME NEW i \in 1 .. Len(queue')
                   PROVE  queue'[i] <= ncalls' /\ ids'[queue'[i]] = 0
        OBVIOUS
      <3>1. i + 1 \in 1 .. Len(queue) /\ 1 \in 1 .. Len(queue) /\ 1 < i + 1
        BY <1>0, <2>2
      <3>2. queue'[i] = queue[i + 1] /\ queue[i + 1] \in Calls /\ queue[1] \in Calls
        BY <1>0, <2>2, <3>1
      <3>3. queue[1] < queue[i + 1] /\ queue[i + 1] <= ncalls /\ ids[queue[i + 1]] = 0
        BY <3>1 DEF QueueFresh
      <3>4. queue[i + 1] # Head(queue)
        BY <2>1, <3>2, <3>3 DEF Calls
      <3> QED BY <1>0, <2>1, <3>2, <3>3, <3>4
    <2>5. \A i, j \in 1 .. Len(queue') : i < j => queue'[i] < queue'[j]
      <3> SUFFICES ASSUME NEW i \in 1 .. Len(queue'), NEW j \in 1 .. Len(queue'), i < j
                   PROVE  queue'[i] < queue'[j]
        OBVIOUS
      <3>1. i + 1 \in 1 .. Len(queue) /\ j + 1 \in 1 .. Len(queue) /\ i + 1 < j + 1
        BY <1>0, <2>2
      <3> QED BY <2>2, <3>1 DEF QueueFresh
    <2>6. \A k \in Calls : k > ncalls' => ids'[k] = 0
      <3>1. Head(queue) <= ncalls
        BY <1>0, <2>1, <2>2 DEF QueueFresh
      <3>2. ASSUME NEW k \in Calls, k > ncalls PROVE ids'[k] = 0
        <4>1. ids[k] = 0
          BY <3>2 DEF QueueFresh
        <4>2. k # Head(queue)
          BY <1>0, <2>1, <3>1, <3>2 DEF Calls
        <4> QED BY <1>0, <2>1, <4>1, <4>2
      <3> QED BY <2>1, <3>2
    <2> QED BY <2>3, <2>4, <2>5, <2>6 DEF QueueFresh
  <1>3. CASE CancelQueued
    <2>1. ncalls' = ncalls /\ next_id' = next_id /\ ids' = ids
      BY <1>3 DEF CancelQueued, reqvars
    <2>2. PICK n \in 1 .. Len(queue) : queue' = Without(queue, n)
      BY <1>3 DEF CancelQueued
    <2>3. /\ Len(queue') = Len(queue) - 1
          /\ \A j \in 1 .. Len(queue') : queue'[j] = IF j < n THEN queue[j] ELSE queue[j + 1]
      BY <1>0, <2>2, WithoutType
    <2>4. next_id' - 1 + Len(queue') <= ncalls'
      BY <1>0, <2>1, <2>3 DEF QueueFresh
    <2>5. \A i \in 1 .. Len(queue') : queue'[i] <= ncalls' /\ ids'[queue'[i]] = 0
      <3> SUFFICES ASSUME NEW i \in 1 .. Len(queue')
                   PROVE  queue'[i] <= ncalls' /\ ids'[queue'[i]] = 0
        OBVIOUS
      <3>1. i \in 1 .. Len(queue) /\ i + 1 \in 1 .. Len(queue)
        BY <1>0, <2>3
      <3> QED BY <2>1, <2>3, <3>1 DEF QueueFresh
    <2>6. \A i, j \in 1 .. Len(queue') : i < j => queue'[i] < queue'[j]
      <3> SUFFICES ASSUME NEW i \in 1 .. Len(queue'), NEW j \in 1 .. Len(queue'), i < j
                   PROVE  queue'[i] < queue'[j]
        OBVIOUS
      <3>1. /\ i \in 1 .. Len(queue) /\ i + 1 \in 1 .. Len(queue)
            /\ j \in 1 .. Len(queue) /\ j + 1 \in 1 .. Len(queue)
            /\ i < j + 1 /\ i + 1 < j + 1
        BY <1>0, <2>3
      <3>2. CASE j < n
        BY <2>3, <3>1, <3>2 DEF QueueFresh
      <3>3. CASE ~(j < n) /\ i < n
        BY <2>3, <3>1, <3>3 DEF QueueFresh
      <3>4. CASE ~(j < n) /\ ~(i < n)
        BY <2>3, <3>1, <3>4 DEF QueueFresh
      <3> QED BY <3>2, <3>3, <3>4
    <2>7. \A k \in Calls : k > ncalls' => ids'[k] = 0
      BY <2>1 DEF QueueFresh
    <2> QED BY <2>4, <2>5, <2>6, <2>7 DEF QueueFresh
  <1>4. CASE UNCHANGED <<ncalls, queue, next_id, ids>>
    BY <1>4 DEF QueueFresh
  <1>5. Call \/ Lock \/ CancelQueued \/ UNCHANGED <<ncalls, queue, next_id, ids>>
    BY DEF Next, ReqSend, ReqRecv, RepStep, SendOk, SendErr, SendLost, RecvReply, RecvGarbage,
           RecvErr, ResendTimeout, ConnectOk, ConnectErr, RepListen, RepReceive, RepRecvErr, RepRecvGarbage, RepReply,
           RepReplyErr, Break, RepCrash, RepDrop, CancelActive,
           vars, callvars, reqvars, linkvars, histvars
  <1> QED BY <1>1, <1>2, <1>3, <1>4, <1>5

\* A new id differs from all the ids given before, and the call that holds the
\* mutex is the one that got the id of the request under way.
LEMMA UniqueStep ==
    ASSUME MaxCalls < Half, TypeOK, QueueFresh, IdsUnique, [Next]_vars
    PROVE  IdsUnique'
  <1>0. /\ next_id \in Nat \ {0} /\ queue \in Seq(Calls) /\ ids \in [Calls -> Nat]
    BY DEF TypeOK, CallersTypeOK, ReqTypeOK, HistoryTypeOK
  <1>1. CASE Lock
    <2>1. /\ next_id' = next_id + 1 /\ sent_id' = next_id /\ cur' = Head(queue)
          /\ Head(queue) \in Calls /\ ids' = [ids EXCEPT ![Head(queue)] = next_id]
      BY <1>0, <1>1, IdRoom DEF Lock
    <2>2. \A k \in Calls : ids[k] \in Nat /\ ids[k] < next_id
      BY <1>0 DEF IdsUnique
    <2>3. \A k \in Calls : ids'[k] = IF k = Head(queue) THEN next_id ELSE ids[k]
      BY <1>0, <2>1
    <2>4. \A k \in Calls : ids'[k] < next_id'
      BY <1>0, <2>1, <2>2, <2>3
    <2>5. \A j, k \in Calls : ids'[j] = ids'[k] /\ ids'[j] # 0 => j = k
      BY <1>0, <2>2, <2>3 DEF IdsUnique
    <2>6. sent_id' = ids'[cur'] /\ sent_id' # 0
      BY <1>0, <2>1, <2>3
    <2> QED BY <2>4, <2>5, <2>6 DEF IdsUnique
  <1>2. CASE UNCHANGED <<ids, next_id, sent_id>> /\ cur' \in {cur, NoCall}
    BY <1>2 DEF IdsUnique
  <1>3. Lock \/ (UNCHANGED <<ids, next_id, sent_id>> /\ cur' \in {cur, NoCall})
    BY DEF Next, ReqSend, ReqRecv, RepStep, SendOk, SendErr, SendLost, RecvReply, RecvGarbage,
           RecvErr, TransportError, Return, Call,
           ResendTimeout, ConnectOk, ConnectErr, RepListen, RepReceive, RepRecvErr, RepRecvGarbage, RepReply,
           RepReplyErr, Break, RepCrash, RepDrop, CancelQueued, CancelActive,
           vars, callvars, reqvars, linkvars, histvars
  <1> QED BY <1>1, <1>2, <1>3

\* Requests, replies and what the server holds keep the id of their call through
\* sends, resends, echoes, lost connections and redials.
LEMMA MessagesStep ==
    ASSUME MaxCalls < Half, TypeOK, QueueFresh, IdsUnique, MessagesStamped, [Next]_vars
    PROVE  MessagesStamped'
  <1>0. /\ next_id \in Nat \ {0} /\ tears \in Nat
        /\ c2s \in Seq(Message) /\ s2c \in Seq(Message)
        /\ queue \in Seq(Calls) /\ ids \in [Calls -> Nat]
        /\ cur \in Calls \cup {NoCall}
    BY DEF TypeOK, CallersTypeOK, ReqTypeOK, LinkTypeOK, HistoryTypeOK
  <1> DEFINE Fixed == UNCHANGED <<ids, next_id, tears>>
             RepKept == rep' = rep \/ rep'.st # "handling"
  <1>a. /\ AllStamped(c2s, ids, next_id, tears) /\ AllStamped(s2c, ids, next_id, tears)
        /\ rep.st = "handling" => Stamped(rep.msg, ids, next_id, tears)
        /\ torn # {} => tears > 0
    BY DEF MessagesStamped
  <1>b. rep \in [st : {"off", "listening", "ready", "orphan", "handling"},
                 msg : Message \cup {NoMsg}]
    BY DEF TypeOK, RepTypeOK
  <1>c. rep.st = "handling" => rep.msg \in Message
    BY DEF TypeOK, RepTypeOK
  <1>1. CASE Lock
    <2>1. /\ next_id' = next_id + 1 /\ UNCHANGED <<c2s, s2c, rep, torn, tears>>
          /\ ids' = [ids EXCEPT ![Head(queue)] = next_id]
          /\ Head(queue) = queue[1] /\ 1 \in 1 .. Len(queue)
      BY <1>0, <1>1, IdRoom DEF Lock, linkvars
    <2>2. ids[Head(queue)] = 0
      BY <2>1 DEF QueueFresh
    <2>3. /\ next_id' \in Nat /\ next_id <= next_id' /\ next_id \in Nat
          /\ tears \in Nat /\ tears <= tears
          /\ \A k \in Calls : ids[k] \in 1 .. next_id - 1 => ids'[k] = ids[k]
      BY <1>0, <2>1, <2>2
    <2>4. AllStamped(c2s, ids', next_id', tears) /\ AllStamped(s2c, ids', next_id', tears)
      BY <1>0, <1>a, <2>3, AllStampedLater
    <2>5. rep.st = "handling" => Stamped(rep.msg, ids', next_id', tears)
      BY <1>0, <1>a, <2>3, StampedLater
    <2> QED BY <1>a, <2>1, <2>4, <2>5 DEF MessagesStamped
  <1>2. CASE SendOk
    <2>1. Fixed /\ UNCHANGED <<s2c, rep, torn>>
      BY <1>2 DEF SendOk, histvars
    <2>2. AllStamped(c2s', ids, next_id, tears)
      <3>1. cur \in Calls /\ sent_id \in 1 .. 2 * Half - 1
        BY <1>2 DEF SendOk, Sending, TypeOK, CallersTypeOK, ReqTypeOK
      <3>2. sent_id = ids[cur] /\ ids[cur] < next_id
        BY <3>1 DEF IdsUnique, Calls, NoCall
      <3>3. [id |-> WireId(sent_id), body |-> cur] \in Message
        BY <3>1, IdTypes DEF Message
      <3>4. ids[cur] \in 1 .. next_id - 1
        BY <1>0, <3>1, <3>2
      <3>5. Stamped([id |-> WireId(sent_id), body |-> cur], ids, next_id, tears)
        BY <3>1, <3>2, <3>4 DEF Stamped, Garbage, Calls
      <3> QED BY <1>0, <1>2, <1>a, <3>3, <3>5, StampedWritten DEF SendOk
    <2> QED BY <1>a, <2>1, <2>2 DEF MessagesStamped
  <1>3. CASE RecvReply \/ RecvGarbage
    <2>1. Fixed /\ UNCHANGED <<c2s, rep, torn>> /\ s2c' = Tail(s2c) /\ s2c # <<>>
      BY <1>3 DEF RecvReply, RecvGarbage, histvars
    <2>2. AllStamped(s2c', ids, next_id, tears)
      BY <1>0, <1>a, <2>1, StampedTail
    <2> QED BY <1>a, <2>1, <2>2 DEF MessagesStamped
  <1>4. CASE ConnectOk
    <2>1. Fixed /\ c2s' = <<>> /\ s2c' = <<>> /\ torn' = {}
      BY <1>4 DEF ConnectOk, histvars
    <2>2. rep'.st # "handling"
      BY <1>4, <1>b DEF ConnectOk
    <2>3. AllStamped(<< >>, ids, next_id, tears)
      BY DEF AllStamped
    <2> QED BY <2>1, <2>2, <2>3 DEF MessagesStamped
  <1>5. CASE RepReceive
    <2>1. Fixed /\ UNCHANGED <<s2c, torn>> /\ c2s' = Tail(c2s) /\ c2s # <<>>
      BY <1>5 DEF RepReceive, reqvars
    <2>2. Stamped(Head(c2s), ids, next_id, tears) /\ AllStamped(c2s', ids, next_id, tears)
      BY <1>0, <1>a, <2>1, StampedTail
    <2>3. rep'.msg = Head(c2s)
      BY <1>5, <1>b DEF RepReceive
    <2> QED BY <1>a, <2>1, <2>2, <2>3 DEF MessagesStamped
  <1>6. CASE RepReply
    <2>1. Fixed /\ UNCHANGED <<c2s, torn>> /\ rep.st = "handling"
      BY <1>6 DEF RepReply, reqvars, histvars
    <2>2. AllStamped(s2c', ids, next_id, tears)
      BY <1>0, <1>6, <1>a, <1>c, <2>1, StampedWritten DEF RepReply
    <2>3. rep'.st # "handling"
      BY <1>6, <1>b DEF RepReply
    <2> QED BY <1>a, <2>1, <2>2, <2>3 DEF MessagesStamped
  <1>7. CASE Break
    <2>1. Fixed /\ UNCHANGED <<rep, torn>>
      BY <1>7 DEF Break, LoseLink, reqvars
    <2>2. AllStamped(c2s', ids, next_id, tears)
      BY <1>0, <1>7, <1>a, StampedPrefix DEF Break
    <2>3. AllStamped(s2c', ids, next_id, tears)
      BY <1>0, <1>7, <1>a, StampedPrefix DEF Break, LoseLink
    <2> QED BY <1>a, <2>1, <2>2, <2>3 DEF MessagesStamped
  <1>8. CASE RepCrash
    <2>1. Fixed /\ rep'.st # "handling"
      BY <1>8 DEF RepCrash, reqvars
    <2>2. CASE UNCHANGED linkvars
      BY <1>a, <2>1, <2>2 DEF MessagesStamped, linkvars
    <2>3. CASE LoseLink /\ c2s' = <<>>
      <3>1. AllStamped(s2c', ids, next_id, tears)
        BY <1>0, <1>a, <2>3, StampedPrefix DEF LoseLink
      <3>2. AllStamped(c2s', ids, next_id, tears)
        BY <2>3 DEF AllStamped
      <3>3. torn' = torn
        BY <2>3 DEF LoseLink
      <3> QED BY <1>a, <2>1, <3>1, <3>2, <3>3 DEF MessagesStamped
    <2> QED BY <1>8, <2>2, <2>3 DEF RepCrash
  <1>13. CASE RepRecvGarbage
    <2>1. Fixed /\ rep'.st # "handling" /\ LoseLink /\ c2s' = <<>>
      BY <1>13 DEF RepRecvGarbage, reqvars, histvars
    <2>2. AllStamped(s2c', ids, next_id, tears)
      BY <1>0, <1>a, <2>1, StampedPrefix DEF LoseLink
    <2>3. AllStamped(c2s', ids, next_id, tears)
      BY <2>1 DEF AllStamped
    <2>4. torn' = torn
      BY <2>1 DEF LoseLink
    <2> QED BY <1>a, <2>1, <2>2, <2>3, <2>4 DEF MessagesStamped
  <1>9. CASE CancelActive \/ RepDrop
    <2>1. UNCHANGED <<ids, next_id, c2s, s2c>>
      BY <1>9 DEF CancelActive, RepDrop, reqvars
    <2>2. RepKept
      <3>1. CASE CancelActive
        BY <1>b, <3>1 DEF CancelActive, MaybeOrphan
      <3>2. CASE RepDrop
        BY <1>b, <3>2 DEF RepDrop
      <3> QED BY <1>9, <3>1, <3>2
    <2>3. tears' \in Nat /\ tears <= tears' /\ (torn' # {} => tears' > 0)
      BY <1>0, <1>9, <1>a DEF CancelActive, RepDrop, Tear
    <2>4. /\ AllStamped(c2s, ids, next_id, tears') /\ AllStamped(s2c, ids, next_id, tears')
      BY <1>0, <1>a, <2>3, AllStampedLater
    <2>5. rep.st = "handling" => Stamped(rep.msg, ids, next_id, tears')
      BY <1>0, <1>a, <2>3, StampedLater
    <2> QED BY <2>1, <2>2, <2>3, <2>4, <2>5 DEF MessagesStamped
  <1>10. CASE RepListen \/ RepRecvErr \/ RepReplyErr \/ ResendTimeout
    <2>1. Fixed /\ UNCHANGED <<c2s, s2c, torn>>
      BY <1>10 DEF RepListen, RepRecvErr, RepReplyErr, ResendTimeout, linkvars, histvars, reqvars
    <2>2. RepKept
      <3>1. CASE RepListen \/ RepRecvErr
        BY <3>1 DEF RepListen, RepRecvErr
      <3>2. CASE RepReplyErr
        <4>1. CASE rep' = [rep EXCEPT !.st = "ready", !.msg = NoMsg]
          BY <1>b, <4>1
        <4>2. CASE rep' = [st |-> "off", msg |-> NoMsg]
          BY <4>2
        <4> QED BY <3>2, <4>1, <4>2 DEF RepReplyErr
      <3>3. CASE ResendTimeout
        BY <1>b, <3>3 DEF ResendTimeout, MaybeOrphan
      <3> QED BY <1>10, <3>1, <3>2, <3>3
    <2> QED BY <1>a, <2>1, <2>2 DEF MessagesStamped
  <1>11. CASE Fixed /\ UNCHANGED <<c2s, s2c, torn, rep>>
    BY <1>11, <1>a DEF MessagesStamped
  <1>12. \/ Lock \/ SendOk \/ RecvReply \/ RecvGarbage \/ ConnectOk \/ RepReceive \/ RepReply \/ Break
         \/ RepCrash \/ RepRecvGarbage \/ CancelActive
         \/ RepListen \/ RepRecvErr \/ RepReplyErr \/ RepDrop \/ ResendTimeout
         \/ Fixed /\ UNCHANGED <<c2s, s2c, torn, rep>>
    BY DEF Next, ReqSend, ReqRecv, RepStep, SendErr, SendLost, RecvErr, Call, ConnectErr,
           CancelQueued, vars, callvars, reqvars, linkvars, histvars
  <1> QED BY <1>1, <1>2, <1>3, <1>4, <1>5, <1>6, <1>7, <1>8, <1>9, <1>10, <1>11, <1>12, <1>13

------------------------------------------------------------------------------
(* Replies *)

\* A reply whose stripped id is the one sent was sent for the call in progress.
LEMMA MatchIsOwn ==
    ASSUME MaxCalls < Half, TypeOK, QueueFresh, IdsUnique,
           NEW m \in Message, Stamped(m, ids, next_id, tears),
           cur \in Calls
    PROVE  /\ m.body = cur => Strip(m.id) = sent_id
           /\ Strip(m.id) = sent_id => m.body = cur \/ (m.body = Garbage /\ tears > 0)
  <1>1. next_id \in 1 .. Half /\ ids \in [Calls -> Nat] /\ Half \in Nat
    BY IdRoom, ReqRepAssumption DEF ReqRepAssumption, TypeOK, HistoryTypeOK
  <1>2. sent_id = ids[cur] /\ sent_id # 0
    BY DEF IdsUnique, Calls, NoCall
  <1>3. m.body \in Calls \/ m.body = Garbage
    BY DEF Message
  <1>4. CASE m.body \in Calls
    <2>1. ids[m.body] \in 1 .. next_id - 1 /\ m.id = WireId(ids[m.body])
      BY <1>4 DEF Stamped
    <2>2. ids[m.body] \in 1 .. Half - 1
      BY <1>1, <2>1
    <2>3. Strip(m.id) = ids[m.body]
      BY <2>1, <2>2, StripWireId
    <2> QED BY <1>2, <1>4, <2>3 DEF IdsUnique
  <1>5. CASE m.body = Garbage
    <2>1. m.body # cur
      BY <1>5, ReqRepAssumption DEF ReqRepAssumption, Garbage, Calls
    <2> QED BY <1>5, <2>1 DEF Stamped
  <1> QED BY <1>3, <1>4, <1>5

\* A step returns no reply but the one to the call in progress.
LEMMA ReplyStep ==
    ASSUME MaxCalls < Half, TypeOK, QueueFresh, IdsUnique, MessagesStamped, ReplyIsOwn,
           [Next]_vars
    PROVE  ReplyIsOwn'
  <1>0. /\ tears \in Nat /\ cur \in Calls \cup {NoCall}
        /\ result \in [Calls -> {"none", "reply", "Closed", "ProtocolViolation", "cancelled"}]
        /\ got \in [Calls -> Calls \cup {NoCall, Garbage}]
    BY DEF TypeOK, CallersTypeOK, HistoryTypeOK
  <1>1. CASE RecvReply
    <2>1. tears' = tears /\ s2c # <<>>
      BY <1>1 DEF RecvReply, histvars
    <2>2. cur \in Calls
      BY <1>1 DEF RecvReply, Waiting, TypeOK, CallersTypeOK, ReqTypeOK
    <2>3. Head(s2c) \in Message /\ Stamped(Head(s2c), ids, next_id, tears)
      <3>1. s2c \in Seq(Message) /\ AllStamped(s2c, ids, next_id, tears)
        BY DEF TypeOK, LinkTypeOK, MessagesStamped
      <3> QED BY <2>1, <3>1, StampedTail
    <2>4. CASE Strip(Head(s2c).id) = sent_id
      <3>1. Head(s2c).body = cur \/ (Head(s2c).body = Garbage /\ tears > 0)
        BY <2>2, <2>3, <2>4, MatchIsOwn
      <3>2. /\ result' = [result EXCEPT ![cur] = "reply"]
            /\ got' = [got EXCEPT ![cur] = Head(s2c).body]
        BY <1>1, <2>4 DEF RecvReply, Return
      <3> QED BY <1>0, <2>1, <2>2, <3>1, <3>2 DEF ReplyIsOwn
    <2>5. CASE Strip(Head(s2c).id) # sent_id
      BY <1>1, <2>1, <2>5 DEF RecvReply, ReplyIsOwn
    <2> QED BY <2>4, <2>5
  <1>2. CASE CancelActive
    <2>1. /\ tears' \in Nat /\ tears' >= tears
          /\ result' = [result EXCEPT ![cur] = "cancelled"]
          /\ got' = [got EXCEPT ![cur] = NoCall]
      BY <1>0, <1>2 DEF CancelActive, Tear, Return
    <2> QED BY <1>0, <2>1 DEF ReplyIsOwn
  <1>3. CASE \E e \in {"Closed", "ProtocolViolation"} :
                /\ result' = [result EXCEPT ![cur] = e]
                /\ got' = [got EXCEPT ![cur] = NoCall] /\ tears' = tears
    BY <1>0, <1>3 DEF ReplyIsOwn
  <1>4. CASE CancelQueued
    <2>1. PICK i \in 1 .. Len(queue) : result' = [result EXCEPT ![queue[i]] = "cancelled"]
      BY <1>4 DEF CancelQueued
    <2>2. got' = got /\ tears' = tears
      BY <1>4 DEF CancelQueued
    <2> QED BY <1>0, <2>1, <2>2 DEF ReplyIsOwn
  <1>5. CASE UNCHANGED <<result, got>> /\ tears' \in {tears, tears + 1}
    BY <1>0, <1>5 DEF ReplyIsOwn
  <1>6. \/ RecvReply \/ CancelActive \/ CancelQueued
        \/ UNCHANGED <<result, got>> /\ tears' \in {tears, tears + 1}
        \/ \E e \in {"Closed", "ProtocolViolation"} :
              /\ result' = [result EXCEPT ![cur] = e]
              /\ got' = [got EXCEPT ![cur] = NoCall] /\ tears' = tears
    BY DEF Next, ReqSend, ReqRecv, RepStep, SendOk, SendErr, SendLost, RecvGarbage, RecvErr,
           Tear, TransportError, Return, Call, Lock,
           ResendTimeout, ConnectOk, ConnectErr, RepListen, RepReceive, RepRecvErr, RepRecvGarbage, RepReply,
           RepReplyErr, Break, RepCrash, RepDrop,
           vars, callvars, reqvars, linkvars, histvars
  <1> QED BY <1>1, <1>2, <1>3, <1>4, <1>5, <1>6

\* The inductive invariant.
IInv == TypeOK /\ QueueFresh /\ IdsUnique /\ MessagesStamped /\ ReplyIsOwn

\* It holds initially.
LEMMA IInvInit == Init => IInv
  <1> SUFFICES ASSUME Init PROVE IInv
    OBVIOUS
  <1>1. TypeOK
    BY TypeInit
  <1>2. QueueFresh /\ IdsUnique /\ MessagesStamped
    BY DEF Init, QueueFresh, IdsUnique, MessagesStamped, AllStamped, Calls, NoCall
  <1>3. ReplyIsOwn
    BY DEF Init, ReplyIsOwn
  <1> QED BY <1>1, <1>2, <1>3 DEF IInv

\* Every step preserves it.
LEMMA IInvStep ==
    ASSUME MaxCalls < Half, IInv, [Next]_vars
    PROVE  IInv'
  BY TypeStep, QueueStep, UniqueStep, MessagesStep, ReplyStep DEF IInv

\* As long as fewer calls are made than there are ids below the high bit (2^31
\* in the code), every id is stamped on one call only, and every message under
\* way carries the id of its call, through any number of resends, dropped
\* futures, lost connections, redials and server restarts.
THEOREM IdsAreConsistent ==
    ASSUME MaxCalls < Half
    PROVE  Spec => []IdsConsistent
  <1>1. Init => IInv
    BY IInvInit
  <1>2. IInv /\ [Next]_vars => IInv'
    BY IInvStep
  <1>3. IInv => IdsConsistent
    BY DEF IInv, IdsConsistent
  <1> QED BY <1>1, <1>2, <1>3, PTL DEF Spec

\* ... and request() never returns the reply to another call.
THEOREM RepliesAreOwn ==
    ASSUME MaxCalls < Half
    PROVE  Spec => []ReplyIsOwn
  <1>1. Init => IInv
    BY IInvInit
  <1>2. IInv /\ [Next]_vars => IInv'
    BY IInvStep
  <1>3. IInv => ReplyIsOwn
    BY DEF IInv
  <1> QED BY <1>1, <1>2, <1>3, PTL DEF Spec

\* ... and it never skips the reply to the call in progress as a stale one.
THEOREM CorrectRepliesAreReturned ==
    ASSUME MaxCalls < Half
    PROVE  Spec => CorrectReplyReturned
  <1>1. Init => IInv
    BY IInvInit
  <1>2. IInv /\ [Next]_vars => IInv'
    BY IInvStep
  <1>3. IInv /\ [Next]_vars =>
           [\A k \in Calls : (RecvReply /\ cur = k /\ Head(s2c).body = k)
                                 => result'[k] = "reply"]_vars
    <2> SUFFICES ASSUME IInv, NEW k \in Calls, RecvReply, cur = k, Head(s2c).body = k
                 PROVE  result'[k] = "reply"
      OBVIOUS
    <2>1. s2c \in Seq(Message) /\ s2c # <<>> /\ AllStamped(s2c, ids, next_id, tears)
      BY DEF IInv, TypeOK, LinkTypeOK, MessagesStamped, RecvReply
    <2>2. Head(s2c) \in Message /\ Stamped(Head(s2c), ids, next_id, tears)
      BY <2>1, StampedTail
    <2>3. Strip(Head(s2c).id) = sent_id
      BY <2>2, MatchIsOwn DEF IInv
    <2>4. result' = [result EXCEPT ![cur] = "reply"]
      BY <2>3 DEF RecvReply, Return
    <2> QED BY <2>4 DEF IInv, TypeOK, CallersTypeOK
  <1> QED BY <1>1, <1>2, <1>3, PTL DEF Spec, CorrectReplyReturned

------------------------------------------------------------------------------
(* Requests handled at most once *)

\* Call k has left no trace with the server and on the way to it.
Unsent(k, q, h) == h[k] = 0 /\ \A i \in 1 .. Len(q) : q[i].body # k

\* The calls that have yet to send: those not made, those that wait for the
\* mutex, and the one that holds it until its frame is written, whatever
\* connections it fails on, unless this is a resend.
Pending ==
    {k \in Calls : \/ k > ncalls
                   \/ \E i \in 1 .. Len(queue) : queue[i] = k
                   \/ k = cur /\ pc \in {"send", "rc_send", "send2"} /\ k \notin resent}

\* Calls get the mutex in the order in which they are made.
MutexOrder ==
    /\ cur <= ncalls
    /\ \A i \in 1 .. Len(queue) : queue[i] <= ncalls /\ cur < queue[i]
    /\ \A i, j \in 1 .. Len(queue) : i < j => queue[i] < queue[j]

PendingUnsent == \A k \in Pending : Unsent(k, c2s, handled)

\* A call that is not resent is under way once, or was handled once, or neither.
Single(k, q, h) ==
    /\ h[k] <= 1
    /\ h[k] = 1 => \A i \in 1 .. Len(q) : q[i].body # k
    /\ \A i, j \in 1 .. Len(q) : q[i].body = k /\ q[j].body = k => i = j

OnceInv ==
    /\ TypeOK /\ MutexOrder /\ PendingUnsent
    /\ \A k \in Calls \ resent : Single(k, c2s, handled)

\* A request that loses its place in a queue, or its predecessors, is there at
\* most as often as before.
LEMMA ShorterQueue ==
    ASSUME NEW k, NEW h, NEW q, NEW p, NEW d \in Nat,
           Len(p) \in Nat, Len(q) \in Nat, Len(p) + d <= Len(q),
           \A i \in 1 .. Len(p) : p[i] = q[i + d]
    PROVE  /\ Unsent(k, q, h) => Unsent(k, p, h)
           /\ Single(k, q, h) => Single(k, p, h)
  <1>1. \A i \in 1 .. Len(p) : i + d \in 1 .. Len(q) /\ p[i] = q[i + d]
    OBVIOUS
  <1>2. Unsent(k, q, h) => Unsent(k, p, h)
    BY <1>1 DEF Unsent
  <1>3. ASSUME Single(k, q, h) PROVE Single(k, p, h)
    <2>1. h[k] <= 1 /\ (h[k] = 1 => \A i \in 1 .. Len(p) : p[i].body # k)
      BY <1>1, <1>3 DEF Single
    <2>2. ASSUME NEW i \in 1 .. Len(p), NEW j \in 1 .. Len(p), p[i].body = k, p[j].body = k
          PROVE  i = j
      <3>1. i + d = j + d
        BY <1>1, <1>3, <2>2 DEF Single
      <3> QED BY <3>1
    <2> QED BY <2>1, <2>2 DEF Single
  <1> QED BY <1>2, <1>3

\* Whatever a lost connection takes with it, it doubles nothing.
LEMMA LostQueue ==
    ASSUME NEW k, NEW h, NEW q \in Seq(Message), NEW p,
           p = <<>> \/ \E n \in 0 .. Len(q) : p = SubSeq(q, 1, n)
    PROVE  /\ Unsent(k, q, h) => Unsent(k, p, h)
           /\ Single(k, q, h) => Single(k, p, h)
  <1>1. Len(p) \in Nat /\ Len(q) \in Nat /\ Len(p) + 0 <= Len(q)
        /\ \A i \in 1 .. Len(p) : p[i] = q[i + 0]
    <2>1. CASE p = <<>>
      BY <2>1
    <2>2. CASE \E n \in 0 .. Len(q) : p = SubSeq(q, 1, n)
      <3>1. PICK n \in 0 .. Len(q) : p = SubSeq(q, 1, n)
        BY <2>2
      <3> QED BY <3>1, PrefixType
    <2> QED BY <2>1, <2>2
  <1> QED BY <1>1, ShorterQueue

\* Sending the request of another call does not touch this one.
LEMMA OtherSent ==
    ASSUME NEW k, NEW h, NEW q \in Seq(Message), NEW m \in Message, m.body # k
    PROVE  /\ Unsent(k, q, h) => Unsent(k, Append(q, m), h)
           /\ Single(k, q, h) => Single(k, Append(q, m), h)
  <1>1. /\ Len(Append(q, m)) = Len(q) + 1 /\ Len(q) \in Nat
        /\ \A i \in 1 .. Len(q) : Append(q, m)[i] = q[i]
        /\ Append(q, m)[Len(q) + 1] = m
    BY AppendProperties
  <1>2. \A i \in 1 .. Len(Append(q, m)) :
           (Append(q, m)[i]).body = k => i \in 1 .. Len(q) /\ q[i].body = k
    <2> SUFFICES ASSUME NEW i \in 1 .. Len(Append(q, m)), (Append(q, m)[i]).body = k
                 PROVE  i \in 1 .. Len(q) /\ q[i].body = k
      OBVIOUS
    <2>1. i # Len(q) + 1
      BY <1>1
    <2>2. i \in 1 .. Len(q)
      BY <1>1, <2>1
    <2> QED BY <1>1, <2>2
  <1>3. Unsent(k, q, h) => Unsent(k, Append(q, m), h)
    BY <1>2 DEF Unsent
  <1>4. Single(k, q, h) => Single(k, Append(q, m), h)
    BY <1>2 DEF Single
  <1> QED BY <1>3, <1>4

\* The first copy of a request is the only one.
LEMMA FirstSent ==
    ASSUME NEW k, NEW h, NEW q \in Seq(Message), NEW m \in Message, Unsent(k, q, h)
    PROVE  Single(k, Append(q, m), h)
  <1>1. /\ Len(Append(q, m)) = Len(q) + 1 /\ Len(q) \in Nat
        /\ \A i \in 1 .. Len(q) : Append(q, m)[i] = q[i]
    BY AppendProperties
  <1>2. \A i \in 1 .. Len(Append(q, m)) : (Append(q, m)[i]).body = k => i = Len(q) + 1
    <2> SUFFICES ASSUME NEW i \in 1 .. Len(Append(q, m)), (Append(q, m)[i]).body = k
                 PROVE  i = Len(q) + 1
      OBVIOUS
    <2>1. i \notin 1 .. Len(q)
      BY <1>1 DEF Unsent
    <2> QED BY <1>1, <2>1
  <1>3. h[k] = 0
    BY DEF Unsent
  <1> QED BY <1>2, <1>3 DEF Single

------------------------------------------------------------------------------
\* No step makes a call pending that was not, and completing the frame of a
\* request ends its being pending.
LEMMA PendingStep ==
    ASSUME TypeOK, MutexOrder, [Next]_vars
    PROVE  /\ MutexOrder'
           /\ Pending' \subseteq Pending
           /\ SendOk => cur \notin Pending'
  <1>0. /\ ncalls \in Nat /\ ncalls <= MaxCalls /\ MaxCalls \in Nat
        /\ queue \in Seq(Calls) /\ Len(queue) \in Nat
        /\ cur \in Calls \cup {NoCall} /\ cur \in Nat
        /\ \A i \in 1 .. Len(queue) : queue[i] \in Calls /\ queue[i] \in Nat
    BY ReqRepAssumption DEF ReqRepAssumption, TypeOK, CallersTypeOK, Calls, NoCall
  <1>1. CASE Call
    <2>1. /\ ncalls' = ncalls + 1 /\ ncalls + 1 \in Calls
          /\ cur' = cur /\ pc' = pc /\ resent' = resent
      BY <1>0, <1>1 DEF Call, reqvars, histvars, Calls
    <2>2. /\ Len(queue') = Len(queue) + 1
          /\ \A i \in 1 .. Len(queue) : queue'[i] = queue[i]
          /\ queue'[Len(queue) + 1] = ncalls + 1
      BY <1>0, <1>1, <2>1, AppendProperties DEF Call
    <2>3. \A i \in 1 .. Len(queue') :
             \/ i \in 1 .. Len(queue) /\ queue'[i] = queue[i]
             \/ i = Len(queue) + 1 /\ queue'[i] = ncalls + 1
      <3> SUFFICES ASSUME NEW i \in 1 .. Len(queue')
                   PROVE  \/ i \in 1 .. Len(queue) /\ queue'[i] = queue[i]
                          \/ i = Len(queue) + 1 /\ queue'[i] = ncalls + 1
        OBVIOUS
      <3>1. i \in 1 .. Len(queue) \/ i = Len(queue) + 1
        BY <1>0, <2>2
      <3> QED BY <2>2, <3>1
    <2>4. MutexOrder'
      <3>1. cur' <= ncalls'
        BY <1>0, <2>1 DEF MutexOrder
      <3>2. ASSUME NEW i \in 1 .. Len(queue') PROVE queue'[i] <= ncalls' /\ cur' < queue'[i]
        <4>1. CASE i \in 1 .. Len(queue) /\ queue'[i] = queue[i]
          <5>1. queue[i] <= ncalls /\ cur < queue[i] /\ queue[i] \in Nat
            BY <1>0, <4>1 DEF MutexOrder
          <5> QED BY <1>0, <2>1, <4>1, <5>1
        <4>2. CASE i = Len(queue) + 1 /\ queue'[i] = ncalls + 1
          BY <1>0, <2>1, <4>2 DEF MutexOrder
        <4> QED BY <2>3, <4>1, <4>2
      <3>3. ASSUME NEW i \in 1 .. Len(queue'), NEW j \in 1 .. Len(queue'), i < j
            PROVE  queue'[i] < queue'[j]
        <4>1. i \in 1 .. Len(queue) /\ queue'[i] = queue[i]
          BY <1>0, <2>2, <2>3, <3>3
        <4>2. queue[i] <= ncalls /\ queue[i] \in Nat
          BY <1>0, <4>1 DEF MutexOrder
        <4>3. CASE j \in 1 .. Len(queue) /\ queue'[j] = queue[j]
          BY <3>3, <4>1, <4>3 DEF MutexOrder
        <4>4. CASE queue'[j] = ncalls + 1
          BY <1>0, <4>1, <4>2, <4>4
        <4> QED BY <2>3, <4>3, <4>4
      <3> QED BY <3>1, <3>2, <3>3 DEF MutexOrder
    <2>5. ASSUME NEW k \in Pending' PROVE k \in Pending
      <3>1. k \in Calls /\ k \in Nat
        BY DEF Pending, Calls
      <3>2. CASE k > ncalls'
        BY <1>0, <2>1, <3>1, <3>2 DEF Pending
      <3>3. CASE \E i \in 1 .. Len(queue') : queue'[i] = k
        <4>1. PICK i \in 1 .. Len(queue') : queue'[i] = k
          BY <3>3
        <4>2. CASE i \in 1 .. Len(queue) /\ queue'[i] = queue[i]
          BY <3>1, <4>1, <4>2 DEF Pending
        <4>3. CASE queue'[i] = ncalls + 1
          BY <1>0, <3>1, <4>1, <4>3 DEF Pending
        <4> QED BY <2>3, <4>2, <4>3
      <3>4. CASE k = cur /\ pc \in {"send", "rc_send", "send2"} /\ k \notin resent
        BY <3>1, <3>4 DEF Pending
      <3> QED BY <2>1, <2>5, <3>2, <3>3, <3>4 DEF Pending
    <2>6. ~SendOk
      <3>1. SendOk => ncalls' = ncalls
        BY DEF SendOk, callvars
      <3> QED BY <1>0, <2>1, <3>1
    <2> QED BY <2>4, <2>5, <2>6
  <1>2. CASE Lock
    <2>1. /\ queue # <<>> /\ cur = NoCall /\ ncalls' = ncalls /\ cur' = Head(queue)
          /\ Head(queue) = queue[1] /\ queue' = Tail(queue) /\ resent' = resent
      BY <1>0, <1>2 DEF Lock
    <2>2. /\ Len(queue') = Len(queue) - 1 /\ Len(queue) >= 1 /\ 1 \in 1 .. Len(queue)
          /\ \A i \in 1 .. Len(queue') : queue'[i] = queue[i + 1]
      BY <1>0, <2>1, HeadTailProperties
    <2>3. \A i \in 1 .. Len(queue') : i + 1 \in 1 .. Len(queue) /\ 1 < i + 1
      BY <1>0, <2>2
    <2>4. MutexOrder'
      <3>1. cur' <= ncalls'
        BY <2>1, <2>2 DEF MutexOrder
      <3>2. ASSUME NEW i \in 1 .. Len(queue') PROVE queue'[i] <= ncalls' /\ cur' < queue'[i]
        BY <2>1, <2>2, <2>3 DEF MutexOrder
      <3>3. ASSUME NEW i \in 1 .. Len(queue'), NEW j \in 1 .. Len(queue'), i < j
            PROVE  queue'[i] < queue'[j]
        <4>1. i + 1 < j + 1
          BY <3>3
        <4> QED BY <2>2, <2>3, <4>1 DEF MutexOrder
      <3> QED BY <3>1, <3>2, <3>3 DEF MutexOrder
    <2>5. ASSUME NEW k \in Pending' PROVE k \in Pending
      <3>1. k \in Calls
        BY DEF Pending
      <3>2. k > ncalls \/ (\E i \in 1 .. Len(queue) : queue[i] = k)
        BY <2>1, <2>2, <2>3 DEF Pending
      <3> QED BY <3>1, <3>2 DEF Pending
    <2>6. ~SendOk
      <3>1. SendOk => queue' = queue
        BY DEF SendOk, callvars
      <3>2. queue' # queue
        BY <1>0, <2>2
      <3> QED BY <3>1, <3>2
    <2> QED BY <2>4, <2>5, <2>6
  <1>3. CASE CancelQueued
    <2>1. UNCHANGED <<ncalls, cur, pc, resent>> /\ Fault("cancel")
      BY <1>3 DEF CancelQueued, reqvars
    <2>2. PICK n \in 1 .. Len(queue) : queue' = Without(queue, n)
      BY <1>3 DEF CancelQueued
    <2>3. /\ Len(queue') = Len(queue) - 1
          /\ \A j \in 1 .. Len(queue') : queue'[j] = IF j < n THEN queue[j] ELSE queue[j + 1]
      BY <1>0, <2>2, WithoutType
    <2>4. \A i \in 1 .. Len(queue') : i \in 1 .. Len(queue) /\ i + 1 \in 1 .. Len(queue)
      BY <1>0, <2>3
    <2>5. MutexOrder'
      <3>1. \A i \in 1 .. Len(queue') : queue'[i] <= ncalls' /\ cur' < queue'[i]
        BY <2>1, <2>3, <2>4 DEF MutexOrder
      <3>2. ASSUME NEW i \in 1 .. Len(queue'), NEW j \in 1 .. Len(queue'), i < j
            PROVE  queue'[i] < queue'[j]
        <4>1. /\ i \in 1 .. Len(queue) /\ i + 1 \in 1 .. Len(queue)
              /\ j \in 1 .. Len(queue) /\ j + 1 \in 1 .. Len(queue)
              /\ i < j + 1 /\ i + 1 < j + 1
          BY <2>4, <3>2
        <4>2. CASE j < n
          <5>1. i < n
            BY <3>2, <4>2
          <5> QED BY <2>3, <3>2, <4>1, <4>2, <5>1 DEF MutexOrder
        <4>3. CASE ~(j < n) /\ i < n
          BY <2>3, <4>1, <4>3 DEF MutexOrder
        <4>4. CASE ~(j < n) /\ ~(i < n)
          BY <2>3, <4>1, <4>4 DEF MutexOrder
        <4> QED BY <4>2, <4>3, <4>4
      <3> QED BY <2>1, <3>1, <3>2 DEF MutexOrder
    <2>6. ASSUME NEW k \in Pending' PROVE k \in Pending
      <3>1. k \in Calls
        BY DEF Pending
      <3>2. (\E i \in 1 .. Len(queue') : queue'[i] = k) => \E i \in 1 .. Len(queue) : queue[i] = k
        BY <2>3, <2>4
      <3> QED BY <2>1, <3>1, <3>2 DEF Pending
    <2>7. ~SendOk
      <3>1. SendOk => queue' = queue
        BY DEF SendOk, callvars
      <3>2. queue' # queue
        BY <1>0, <2>3
      <3> QED BY <3>1, <3>2
    <2> QED BY <2>5, <2>6, <2>7
  <1>4. CASE SendOk
    <2>1. UNCHANGED <<ncalls, queue, cur, resent>> /\ pc' = "recv"
      BY <1>4 DEF SendOk, callvars, histvars
    <2>2. MutexOrder'
      BY <2>1 DEF MutexOrder
    <2>3. Pending' \subseteq Pending
      BY <2>1 DEF Pending
    <2>4. cur \notin Pending'
      <3>1. ~(cur > ncalls)
        BY <1>0 DEF MutexOrder
      <3>2. \A i \in 1 .. Len(queue) : queue[i] # cur
        BY <1>0 DEF MutexOrder
      <3> QED BY <2>1, <3>1, <3>2 DEF Pending
    <2> QED BY <2>2, <2>3, <2>4
  <1> DEFINE Quiet == /\ UNCHANGED <<ncalls, queue>> /\ ~SendOk
                      /\ resent \subseteq resent'
                      /\ cur' \in {cur, NoCall}
                      /\ \/ pc' = pc
                         \/ pc' \notin {"send", "rc_send", "send2"}
                         \/ pc \in {"send", "rc_send", "send2"}
                         \/ cur \in resent'
  <1>5. CASE Quiet
    <2>1. MutexOrder'
      BY <1>0, <1>5 DEF MutexOrder, NoCall
    <2>2. ASSUME NEW k \in Pending' PROVE k \in Pending
      <3>1. k \in Calls /\ k # NoCall
        BY DEF Pending, Calls, NoCall
      <3> QED BY <1>5, <3>1 DEF Pending
    <2> QED BY <1>5, <2>1, <2>2
  <1>6. Call \/ Lock \/ CancelQueued \/ SendOk \/ Quiet
    <2> SUFFICES ASSUME ~Call, ~Lock, ~CancelQueued, ~SendOk PROVE Quiet
      OBVIOUS
    <2> USE DEF callvars, reqvars, linkvars, histvars
    <2>1. CASE SendErr
      BY <2>1 DEF SendErr, Sending, TransportError, Return
    <2>2. CASE SendLost
      BY <2>2 DEF SendLost
    <2>3. CASE RecvReply
      BY <2>3 DEF RecvReply, Return
    <2>4. CASE RecvErr \/ RecvGarbage
      BY <2>4 DEF RecvErr, RecvGarbage, TransportError, Return
    <2>5. CASE ResendTimeout
      BY <2>5 DEF ResendTimeout
    <2>6. CASE ConnectOk
      BY <2>6 DEF ConnectOk
    <2>7. CASE ConnectErr
      BY <2>7 DEF ConnectErr, Return
    <2>8. CASE RepStep
      BY <2>8 DEF RepStep, RepListen, RepReceive, RepRecvErr, RepRecvGarbage, RepReply, RepReplyErr
    <2>9. CASE Break \/ RepCrash \/ RepDrop
      BY <2>9 DEF Break, RepCrash, RepDrop
    <2>10. CASE CancelActive
      BY <2>10 DEF CancelActive, Return
    <2>11. CASE UNCHANGED vars
      BY <2>11 DEF vars
    <2> QED BY <2>1, <2>2, <2>3, <2>4, <2>5, <2>6, <2>7, <2>8, <2>9, <2>10, <2>11
            DEF Next, ReqSend, ReqRecv
  <1> QED BY <1>1, <1>2, <1>3, <1>4, <1>5, <1>6

\* Nothing of a call is initially on its way.
LEMMA OnceInit == Init => OnceInv
  <1> SUFFICES ASSUME Init PROVE OnceInv
    OBVIOUS
  <1>1. TypeOK
    BY TypeInit
  <1>2. MutexOrder
    BY DEF Init, MutexOrder, NoCall
  <1>3. \A k \in Calls : Unsent(k, c2s, handled) /\ Single(k, c2s, handled)
    BY DEF Init, Unsent, Single
  <1> QED BY <1>1, <1>2, <1>3 DEF OnceInv, PendingUnsent, Pending

\* A request is sent again only by the resend timer: a redialled send_raw had not
\* completed its frame, and a redialled recv_raw does not send.
LEMMA OnceStep == OnceInv /\ [Next]_vars => OnceInv'
  <1> SUFFICES ASSUME OnceInv, [Next]_vars PROVE OnceInv'
    OBVIOUS
  <1>0. /\ TypeOK /\ MutexOrder
        /\ \A k \in Pending : Unsent(k, c2s, handled)
        /\ \A k \in Calls \ resent : Single(k, c2s, handled)
    BY DEF OnceInv, PendingUnsent
  <1>1. /\ c2s \in Seq(Message) /\ Len(c2s) \in Nat /\ handled \in [Calls -> 0 .. 2]
        /\ cur \in Calls \cup {NoCall}
    BY <1>0 DEF TypeOK, LinkTypeOK, HistoryTypeOK, CallersTypeOK
  <1>2. TypeOK'
    BY <1>0, TypeStep
  <1>3. MutexOrder' /\ Pending' \subseteq Pending /\ (SendOk => cur \notin Pending')
    BY <1>0, PendingStep
  <1>p. \A k \in Pending : k \in Calls
    BY DEF Pending
  <1> SUFFICES ASSUME NEW k \in Calls
               PROVE  /\ k \in Pending' => Unsent(k, c2s', handled')
                      /\ k \notin resent' => Single(k, c2s', handled')
    <2>1. PendingUnsent'
      BY <1>3, <1>p DEF PendingUnsent
    <2> QED BY <1>2, <1>3, <2>1 DEF OnceInv
  <1>4. CASE SendOk
    <2>1. handled' = handled /\ resent' = resent
      BY <1>4 DEF SendOk, histvars
    <2>2. cur \in Calls /\ sent_id \in 1 .. 2 * Half - 1 /\ Sending
      BY <1>0, <1>4 DEF TypeOK, SendOk, Sending, CallersTypeOK, ReqTypeOK
    <2>3. [id |-> WireId(sent_id), body |-> cur] \in Message
      BY <2>2, IdTypes DEF Message
    <2>4. CASE c2s' = c2s
      BY <1>0, <1>3, <2>1, <2>4
    <2>5. CASE c2s' = Append(c2s, [id |-> WireId(sent_id), body |-> cur])
      <3>1. CASE k # cur
        <4>1. /\ Unsent(k, c2s, handled) => Unsent(k, c2s', handled)
              /\ Single(k, c2s, handled) => Single(k, c2s', handled)
          BY <1>1, <2>3, <2>5, <3>1, OtherSent
        <4> QED BY <1>0, <1>3, <2>1, <4>1
      <3>2. CASE k = cur
        <4>1. k \notin Pending'
          BY <1>3, <1>4, <3>2
        <4>2. ASSUME k \notin resent PROVE Single(k, c2s', handled)
          <5>1. k \in Pending
            BY <2>2, <3>2, <4>2 DEF Pending, Sending
          <5>2. Unsent(k, c2s, handled)
            BY <1>0, <5>1
          <5> QED BY <1>1, <2>3, <2>5, <5>2, FirstSent
        <4> QED BY <2>1, <4>1, <4>2
      <3> QED BY <3>1, <3>2
    <2>6. CASE \E w \in WireIds : c2s' = Append(c2s, [id |-> w, body |-> Garbage])
      <3>1. PICK w \in WireIds : c2s' = Append(c2s, [id |-> w, body |-> Garbage])
        BY <2>6
      <3>2. [id |-> w, body |-> Garbage] \in Message /\ k # Garbage
        BY <3>1 DEF Message, Calls, Garbage
      <3>3. /\ Unsent(k, c2s, handled) => Unsent(k, c2s', handled)
            /\ Single(k, c2s, handled) => Single(k, c2s', handled)
        BY <1>1, <3>1, <3>2, OtherSent
      <3> QED BY <1>0, <1>3, <2>1, <3>3
    <2>7. c2s' \in Written(c2s, "c2s", [id |-> WireId(sent_id), body |-> cur])
      BY <1>4 DEF SendOk
    <2>8. \/ c2s' = c2s \/ c2s' = Append(c2s, [id |-> WireId(sent_id), body |-> cur])
          \/ \E w \in WireIds : c2s' = Append(c2s, [id |-> w, body |-> Garbage])
      <3> DEFINE m == [id |-> WireId(sent_id), body |-> cur]
      <3>1. m \in Message /\ c2s' \in Written(c2s, "c2s", m)
        BY <2>3, <2>7
      <3> HIDE DEF m
      <3>2. \/ c2s' = c2s \/ c2s' = Append(c2s, m)
            \/ \E w \in WireIds : c2s' = Append(c2s, [id |-> w, body |-> Garbage])
        <4>1. CASE "c2s" \in torn
          BY <3>1, <4>1 DEF Written
        <4>2. CASE "c2s" \notin torn
          BY <3>1, <4>2 DEF Written
        <4> QED BY <4>1, <4>2
      <3> QED BY <3>2 DEF m
    <2> QED BY <2>4, <2>5, <2>6, <2>8
  <1>5. CASE RepReceive
    <2>1. /\ c2s # <<>> /\ c2s' = Tail(c2s) /\ resent' = resent
          /\ handled'[k] = IF k = Head(c2s).body /\ handled[k] < 2
                           THEN handled[k] + 1 ELSE handled[k]
      BY <1>5 DEF RepReceive
    <2>2. /\ Len(c2s') = Len(c2s) - 1 /\ Len(c2s) >= 1 /\ Head(c2s) = c2s[1]
          /\ 1 \in 1 .. Len(c2s) /\ Len(c2s') \in Nat
          /\ \A i \in 1 .. Len(c2s') : c2s'[i] = c2s[i + 1]
      BY <1>1, <2>1, HeadTailProperties
    <2>3. Len(c2s') + 1 <= Len(c2s)
      BY <1>1, <2>2
    <2>4. /\ Unsent(k, c2s, handled) => Unsent(k, c2s', handled)
          /\ Single(k, c2s, handled) => Single(k, c2s', handled)
      BY <1>1, <2>2, <2>3, ShorterQueue
    <2>5. CASE k # Head(c2s).body
      <3>1. handled'[k] = handled[k]
        BY <2>1, <2>5
      <3>2. /\ Unsent(k, c2s', handled) => Unsent(k, c2s', handled')
            /\ Single(k, c2s', handled) => Single(k, c2s', handled')
        BY <3>1 DEF Unsent, Single
      <3> QED BY <1>0, <1>3, <2>1, <2>4, <3>2
    <2>6. CASE k = Head(c2s).body
      <3>1. k \notin Pending'
        BY <1>0, <1>3, <2>2, <2>6 DEF Unsent
      <3>2. ASSUME k \notin resent PROVE Single(k, c2s', handled')
        <4>1. Single(k, c2s, handled)
          BY <1>0, <3>2
        <4>2. handled[k] = 0
          BY <1>1, <2>2, <2>6, <4>1 DEF Single
        <4>3. handled'[k] = 1
          BY <2>1, <2>6, <4>2
        <4>4. ASSUME NEW i \in 1 .. Len(c2s') PROVE c2s'[i].body # k
          <5>1. i + 1 \in 1 .. Len(c2s) /\ i + 1 # 1 /\ c2s'[i] = c2s[i + 1]
            BY <1>1, <2>2
          <5> QED BY <2>2, <2>6, <4>1, <5>1 DEF Single
        <4> QED BY <4>3, <4>4 DEF Single
      <3> QED BY <2>1, <3>1, <3>2
    <2> QED BY <2>5, <2>6
  <1> DEFINE Lost == /\ handled' = handled /\ resent \subseteq resent'
                     /\ \/ c2s' = c2s \/ c2s' = <<>>
                        \/ \E n \in 0 .. Len(c2s) : c2s' = SubSeq(c2s, 1, n)
  <1>6. CASE Lost
    <2>1. /\ Unsent(k, c2s, handled) => Unsent(k, c2s', handled)
          /\ Single(k, c2s, handled) => Single(k, c2s', handled)
      BY <1>1, <1>6, LostQueue
    <2> QED BY <1>0, <1>3, <1>6, <2>1
  <1>7. SendOk \/ RepReceive \/ Lost
    <2> SUFFICES ASSUME ~SendOk, ~RepReceive PROVE Lost
      OBVIOUS
    <2> USE DEF callvars, reqvars, linkvars, histvars
    <2>1. CASE Call \/ Lock \/ SendErr \/ SendLost \/ RecvReply \/ RecvGarbage
                 \/ RecvErr \/ ResendTimeout \/ ConnectErr
      BY <2>1 DEF Call, Lock, SendErr, SendLost, RecvReply, RecvGarbage, RecvErr, ResendTimeout, ConnectErr
    <2>2. CASE ConnectOk \/ RepRecvGarbage
      BY <2>2 DEF ConnectOk, RepRecvGarbage
    <2>3. CASE RepListen \/ RepRecvErr \/ RepReply \/ RepReplyErr
      BY <2>3 DEF RepListen, RepRecvErr, RepReply, RepReplyErr
    <2>4. CASE Break
      BY <2>4 DEF Break
    <2>5. CASE RepCrash
      BY <2>5 DEF RepCrash
    <2>6. CASE RepDrop \/ CancelQueued \/ CancelActive
      BY <2>6 DEF RepDrop, CancelQueued, CancelActive
    <2>7. CASE UNCHANGED vars
      BY <2>7 DEF vars
    <2> QED BY <2>1, <2>2, <2>3, <2>4, <2>5, <2>6, <2>7 DEF Next, ReqSend, ReqRecv, RepStep
  <1> QED BY <1>4, <1>5, <1>6, <1>7

\* A request whose resend timer never fired reaches the server at most once,
\* whatever sends and receives fail and redial, whatever futures are dropped and
\* however often the ids wrap: unlike the theorems on ids, this one needs no bound
\* on the number of calls.
THEOREM HandledOnceWithoutResend == Spec => []AtMostOnceWithoutResend
  <1>1. Init => OnceInv
    BY OnceInit
  <1>2. OnceInv /\ [Next]_vars => OnceInv'
    BY OnceStep
  <1>3. OnceInv => AtMostOnceWithoutResend
    BY DEF OnceInv, AtMostOnceWithoutResend, Single
  <1> QED BY <1>1, <1>2, <1>3, PTL DEF Spec

=============================================================================
