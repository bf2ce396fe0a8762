---------------------------- MODULE SurveyProofs ----------------------------
(***************************************************************************)
(* Proofs about Survey: for every number of respondents, connections and   *)
(* surveys, all capacities, with and without redialling.                   *)
(***************************************************************************)
EXTENDS Survey, TLAPS

------------------------------------------------------------------------------
(* Queues *)

\* Taking the oldest message of a queue moves the others up by one.
LEMMA Taken ==
    ASSUME NEW S, NEW q \in Seq(S), q # <<>>
    PROVE  /\ Len(q) \in Nat \ {0} /\ 1 \in 1 .. Len(q)
           /\ Head(q) = q[1] /\ q[1] \in S /\ Tail(q) \in Seq(S)
           /\ Len(Tail(q)) = Len(q) - 1
           /\ \A a \in 1 .. Len(Tail(q)) : Tail(q)[a] = q[a + 1] /\ a + 1 \in 1 .. Len(q)
  <1>1. Len(q) \in Nat \ {0} /\ Head(q) = q[1] /\ q[1] \in S /\ 1 \in 1 .. Len(q)
    OBVIOUS
  <1>2. Tail(q) \in Seq(S) /\ Len(Tail(q)) = Len(q) - 1
    OBVIOUS
  <1>3. \A a \in 1 .. Len(Tail(q)) : Tail(q)[a] = q[a + 1] /\ a + 1 \in 1 .. Len(q)
    BY <1>1, <1>2
  <1> QED BY <1>1, <1>2, <1>3

\* A new message comes last.
LEMMA Put ==
    ASSUME NEW S, NEW q \in Seq(S), NEW m \in S
    PROVE  /\ Append(q, m) \in Seq(S) /\ Len(q) \in Nat /\ Len(Append(q, m)) = Len(q) + 1
           /\ \A a \in 1 .. Len(q) : Append(q, m)[a] = q[a]
           /\ Append(q, m)[Len(q) + 1] = m
           /\ \A a \in 1 .. Len(Append(q, m)) : a \in 1 .. Len(q) \/ a = Len(q) + 1
  <1>1. /\ Append(q, m) \in Seq(S) /\ Len(q) \in Nat /\ Len(Append(q, m)) = Len(q) + 1
        /\ \A a \in 1 .. Len(q) : Append(q, m)[a] = q[a]
        /\ Append(q, m)[Len(q) + 1] = m
    OBVIOUS
  <1>2. \A a \in 1 .. Len(q) + 1 : a \in 1 .. Len(q) \/ a = Len(q) + 1
    BY <1>1
  <1> QED BY <1>1, <1>2

\* A connection that breaks keeps a prefix.
LEMMA Cut ==
    ASSUME NEW S, NEW q \in Seq(S), NEW n \in 0 .. Len(q)
    PROVE  /\ SubSeq(q, 1, n) \in Seq(S) /\ Len(SubSeq(q, 1, n)) = n
           /\ \A a \in 1 .. n : SubSeq(q, 1, n)[a] = q[a] /\ a \in 1 .. Len(q)
  <1>1. Len(q) \in Nat
    OBVIOUS
  <1>2. n \in Nat /\ n <= Len(q)
    BY <1>1
  <1>3. SubSeq(q, 1, n) \in Seq(S) /\ Len(SubSeq(q, 1, n)) = n
    BY <1>1, <1>2
  <1>4. \A a \in 1 .. n : SubSeq(q, 1, n)[a] = q[a] /\ a \in 1 .. Len(q)
    BY <1>1, <1>2
  <1> QED BY <1>3, <1>4

\* The empty sequence is one over every set.
LEMMA Empty == \A S, q : q = <<>> => q \in Seq(S)
  <1> TAKE S, q
  <1>1. <<>> \in Seq(S)
    OBVIOUS
  <1> QED BY <1>1

\* A sequence over a set is one over every larger set.
LEMMA SeqWider ==
    ASSUME NEW S, NEW T, S \subseteq T, NEW q \in Seq(S)
    PROVE  q \in Seq(T)
  OBVIOUS

------------------------------------------------------------------------------
(* Connections *)

\* A connection is accepted once and belongs to one respondent; one that is not dialled
\* yet is nobody's and carries nothing.
ConnOK ==
    /\ \A j, k \in 1 .. Len(respondents) : respondents[j] = respondents[k] => j = k
    /\ \A j \in 1 .. Len(respondents) : respondents[j] <= nconns
    /\ \A j, k \in 1 .. Len(backlog) : backlog[j] = backlog[k] => j = k
    /\ \A j \in 1 .. Len(backlog) : backlog[j] <= nconns
    /\ \A j \in 1 .. Len(backlog), k \in 1 .. Len(respondents) : backlog[j] # respondents[k]
    /\ \A r \in Respondents : resp[r].conn <= nconns
    /\ \A r, s \in Respondents : resp[r].conn = resp[s].conn /\ resp[r].conn # NoConn => r = s
    /\ \A r \in Respondents : resp[r].st \in {"connecting", "recv", "handling"}
                                  => resp[r].conn # NoConn
    /\ \A c \in Conns : c > nconns => s2r[c] = <<>>

------------------------------------------------------------------------------
(* The running survey *)

\* As long as the ids have not come round, the id of a survey is its number.
Ids == /\ current_id = nsurveys
       /\ nsurveys < IdMax => next_id = nsurveys + 1

\* Messages say which survey they belong to.
Labelled ==
    /\ \A c \in Conns : \A a \in 1 .. Len(s2r[c]) :
          s2r[c][a].id = s2r[c][a].survey /\ s2r[c][a].survey <= nsurveys
    /\ \A c \in Conns : \A a \in 1 .. Len(r2s[c]) :
          r2s[c][a].id = r2s[c][a].survey /\ r2s[c][a].survey <= nsurveys
    /\ \A r \in Respondents :
          resp[r].msg.id = resp[r].msg.survey /\ resp[r].msg.survey <= nsurveys

\* Where the running survey is: on its way on connection c, in the hands of respondent
\* r, answered by r on some connection, its answer collected.
Under(c)     == \E a \in 1 .. Len(s2r[c]) : s2r[c][a].survey = nsurveys
Held(r)      == resp[r].st = "handling" /\ resp[r].msg.survey = nsurveys
Answers(r, c, a) == r2s[c][a].survey = nsurveys /\ r2s[c][a].from = r
Answered(r)  == \E c \in Conns : \E a \in 1 .. Len(r2s[c]) : Answers(r, c, a)
Collected(r) == \E a \in 1 .. Len(responses) : responses[a].from = r

\* It is in one of these places at a time.
Once ==
    /\ \A c \in Conns : \A a, b \in 1 .. Len(s2r[c]) :
          s2r[c][a].survey = nsurveys /\ s2r[c][b].survey = nsurveys => a = b
    /\ \A r \in Respondents, c, d \in Conns :
          \A a \in 1 .. Len(r2s[c]), b \in 1 .. Len(r2s[d]) :
             Answers(r, c, a) /\ Answers(r, d, b) => c = d /\ a = b
    /\ \A r \in Respondents :
          /\ resp[r].conn # NoConn /\ Under(resp[r].conn)
                 => ~Held(r) /\ ~Answered(r) /\ ~Collected(r)
          /\ Held(r) => ~Answered(r) /\ ~Collected(r)
          /\ Answered(r) => ~Collected(r)

\* Whoever is still to be sent the survey does not have it: the connections ahead of
\* the send loop do not carry it, nor do those to respondents that have had it.
Ahead == pc = "send" =>
    \A j \in idx .. Len(respondents) :
        /\ ~Under(respondents[j])
        /\ \A r \in Respondents : resp[r].conn = respondents[j]
               => ~Held(r) /\ ~Answered(r) /\ ~Collected(r)

Current == Ids /\ Labelled /\ Once /\ Ahead /\ ResponsesCurrent

------------------------------------------------------------------------------
TInv == TypeOK /\ ConnOK

\* Nobody is connected at first.
LEMMA TInvInit == Init => TInv
  <1> SUFFICES ASSUME Init PROVE TInv
    OBVIOUS
  <1> USE SurveyAssumption DEF SurveyAssumption, Init
  <1>1. \A S : <<>> \in Seq(S)
    OBVIOUS
  <1>2. NoMsg \in Surveys
    BY DEF NoMsg, Surveys
  <1>3. resp \in [Respondents -> [st : {"dialling", "connecting", "recv", "handling", "off"},
                                  conn : Conns \cup {NoConn}, msg : Surveys]]
    BY <1>2
  <1>4. s2r \in [Conns -> Seq(Surveys)] /\ r2s \in [Conns -> Seq(Responses)]
    BY <1>1
  <1>5. up \in [Conns -> BOOLEAN]
    OBVIOUS
  <1>6. TypeOK
    <2>1. /\ respondents \in Seq(Conns) /\ backlog \in Seq(Conns) /\ responses \in Seq(Responses)
          /\ pending \in Seq(DOMAIN respondents) /\ still \in Seq(DOMAIN respondents)
      BY <1>1
    <2>2. /\ next_id \in 1 .. IdMax /\ current_id \in 0 .. IdMax /\ nconns \in 0 .. MaxConns
          /\ breaks \in 0 .. MaxBreaks /\ nsurveys \in 0 .. MaxSurveys /\ idx \in Nat \ {0}
      OBVIOUS
    <2> QED BY <1>3, <1>4, <1>5, <2>1, <2>2 DEF TypeOK
  <1>7. ConnOK
    BY DEF ConnOK, NoConn, Conns
  <1> QED BY <1>6, <1>7 DEF TInv

\* Steps of the surveyor that leave its respondents and the connections alone.
LEMMA Quiet ==
    ASSUME TInv, UNCHANGED <<respondents, connvars, resp>>,
           next_id' \in 1 .. IdMax, current_id' \in 0 .. IdMax,
           pc' \in {"idle", "send", "poll", "yield"}, idx' \in Nat \ {0},
           pending' \in Seq(DOMAIN respondents), still' \in Seq(DOMAIN respondents),
           responses' \in Seq(Responses), late' \in BOOLEAN,
           nsurveys' \in 0 .. MaxSurveys, asked' \in SUBSET Conns
    PROVE  TInv'
  <1>1. TypeOK'
    BY DEF TInv, TypeOK, connvars
  <1>2. ConnOK'
    BY DEF TInv, ConnOK, connvars
  <1> QED BY <1>1, <1>2 DEF TInv

\* Accepting moves a connection from the backlog to the respondents, or drops it.
LEMMA TAccept == TInv /\ (Accept \/ AcceptErr) => TInv'
  <1> SUFFICES ASSUME TInv, Accept \/ AcceptErr PROVE TInv'
    OBVIOUS
  <1> DEFINE c == Head(backlog)
  <1>0. TypeOK /\ ConnOK /\ backlog \in Seq(Conns) /\ respondents \in Seq(Conns)
    BY DEF TInv, TypeOK
  <1>1. /\ backlog # <<>> /\ backlog' = Tail(backlog)
        /\ respondents' = respondents \/ respondents' = Append(respondents, c)
        /\ UNCHANGED <<next_id, current_id, pc, idx, pending, still, responses, late,
                       nsurveys, asked, nconns, up, s2r, r2s, breaks>>
    BY DEF Accept, AcceptErr
  <1>2. /\ Len(backlog) \in Nat \ {0} /\ 1 \in 1 .. Len(backlog)
        /\ c = backlog[1] /\ c \in Conns /\ backlog' \in Seq(Conns)
        /\ Len(backlog') = Len(backlog) - 1
        /\ \A a \in 1 .. Len(backlog') : backlog'[a] = backlog[a + 1] /\ a + 1 \in 1 .. Len(backlog)
    BY <1>0, <1>1, Taken
  <1>3. /\ resp' \in [Respondents -> [st : {"dialling", "connecting", "recv", "handling", "off"},
                                      conn : Conns \cup {NoConn}, msg : Surveys]]
        /\ \A r \in Respondents : resp'[r].conn = resp[r].conn
        /\ \A r \in Respondents : resp'[r].st = resp[r].st \/ resp[r].conn = c
    <2>1. CASE AcceptErr
      BY <1>0, <2>1 DEF AcceptErr, TypeOK
    <2>2. CASE Accept
      <3>1. resp' = [r \in Respondents |-> IF resp[r].conn = c
                                           THEN [resp[r] EXCEPT !.st = "recv"] ELSE resp[r]]
        BY <2>2 DEF Accept
      <3> HIDE DEF c
      <3>2. resp \in [Respondents -> [st : {"dialling", "connecting", "recv", "handling", "off"},
                                      conn : Conns \cup {NoConn}, msg : Surveys]]
        BY <1>0 DEF TypeOK
      <3> QED BY <3>1, <3>2
    <2> QED BY <2>1, <2>2
  <1> HIDE DEF c
  <1>4. /\ respondents' \in Seq(Conns) /\ Len(respondents) \in Nat
        /\ Len(respondents') \in {Len(respondents), Len(respondents) + 1}
        /\ \A k \in 1 .. Len(respondents) : respondents'[k] = respondents[k]
        /\ \A k \in 1 .. Len(respondents') :
              k \in 1 .. Len(respondents) \/ (k = Len(respondents) + 1 /\ respondents'[k] = c)
    <2>0. Len(respondents) \in Nat
      BY <1>0
    <2>1. CASE respondents' = respondents
      BY <1>0, <2>0, <2>1
    <2>2. CASE respondents' = Append(respondents, c)
      BY <1>0, <1>2, <2>0, <2>2, Put
    <2> QED BY <1>1, <2>1, <2>2
  <1>5. TypeOK'
    <2>1. DOMAIN respondents = 1 .. Len(respondents) /\ DOMAIN respondents' = 1 .. Len(respondents')
      BY <1>0, <1>4
    <2>2. DOMAIN respondents \subseteq DOMAIN respondents'
      <3>1. Len(respondents) <= Len(respondents') /\ Len(respondents') \in Nat
        BY <1>4
      <3>2. \A k \in 1 .. Len(respondents) : k \in 1 .. Len(respondents')
        BY <1>4, <3>1
      <3> QED BY <2>1, <3>2
    <2>3. pending' \in Seq(DOMAIN respondents') /\ still' \in Seq(DOMAIN respondents')
      BY <1>0, <1>1, <2>2, SeqWider DEF TypeOK
    <2> QED BY <1>0, <1>1, <1>2, <1>3, <1>4, <2>3 DEF TypeOK
  <1>6. ConnOK'
    <2>1. \A j \in 1 .. Len(backlog') : backlog'[j] # c
      <3>1. ASSUME NEW j \in 1 .. Len(backlog'), backlog'[j] = c PROVE FALSE
        <4>1. backlog[j + 1] = backlog[1] /\ j + 1 \in 1 .. Len(backlog)
          BY <1>2, <3>1
        <4>2. j + 1 = 1
          BY <1>0, <1>2, <4>1 DEF ConnOK
        <4> QED BY <4>2
      <3> QED BY <3>1
    <2>2. \A k \in 1 .. Len(respondents) : respondents[k] # c
      BY <1>0, <1>2 DEF ConnOK
    <2>3. /\ \A j, k \in 1 .. Len(respondents') : respondents'[j] = respondents'[k] => j = k
          /\ \A j \in 1 .. Len(respondents') : respondents'[j] <= nconns'
      <3>1. ASSUME NEW j \in 1 .. Len(respondents'), NEW k \in 1 .. Len(respondents'),
                   respondents'[j] = respondents'[k]
            PROVE  j = k
        <4>1. CASE j \in 1 .. Len(respondents) /\ k \in 1 .. Len(respondents)
          BY <1>0, <1>4, <3>1, <4>1 DEF ConnOK
        <4> QED BY <1>4, <2>2, <3>1, <4>1
      <3>2. c <= nconns /\ nconns' = nconns
        BY <1>0, <1>1, <1>2 DEF ConnOK
      <3>3. \A j \in 1 .. Len(respondents) : respondents[j] <= nconns
        BY <1>0 DEF ConnOK
      <3>4. \A j \in 1 .. Len(respondents') : respondents'[j] <= nconns'
        BY <1>4, <3>2, <3>3
      <3> QED BY <3>1, <3>4
    <2>4. /\ \A j, k \in 1 .. Len(backlog') : backlog'[j] = backlog'[k] => j = k
          /\ \A j \in 1 .. Len(backlog') : backlog'[j] <= nconns'
      <3>1. ASSUME NEW j \in 1 .. Len(backlog'), NEW k \in 1 .. Len(backlog'),
                   backlog'[j] = backlog'[k]
            PROVE  j = k
        <4>1. j + 1 = k + 1
          BY <1>0, <1>2, <3>1 DEF ConnOK
        <4> QED BY <1>2, <4>1
      <3> QED BY <1>0, <1>1, <1>2, <3>1 DEF ConnOK
    <2>5. \A j \in 1 .. Len(backlog'), k \in 1 .. Len(respondents') : backlog'[j] # respondents'[k]
      BY <1>0, <1>2, <1>4, <2>1 DEF ConnOK
    <2>6. /\ \A r \in Respondents : resp'[r].conn <= nconns'
          /\ \A r, s \in Respondents :
                resp'[r].conn = resp'[s].conn /\ resp'[r].conn # NoConn => r = s
          /\ \A r \in Respondents : resp'[r].st \in {"connecting", "recv", "handling"}
                                        => resp'[r].conn # NoConn
          /\ \A d \in Conns : d > nconns' => s2r'[d] = <<>>
      <3>1. c # NoConn
        BY <1>2 DEF Conns, NoConn
      <3>2. \A r \in Respondents : resp'[r].conn <= nconns'
        BY <1>0, <1>1, <1>3 DEF ConnOK
      <3>3. \A r, s \in Respondents :
                resp'[r].conn = resp'[s].conn /\ resp'[r].conn # NoConn => r = s
        BY <1>0, <1>3 DEF ConnOK
      <3>4. \A r \in Respondents : resp'[r].st \in {"connecting", "recv", "handling"}
                                        => resp'[r].conn # NoConn
        BY <1>0, <1>3, <3>1 DEF ConnOK
      <3> QED BY <1>0, <1>1, <3>2, <3>3, <3>4 DEF ConnOK
    <2> QED BY <2>3, <2>4, <2>5, <2>6 DEF ConnOK
  <1> QED BY <1>5, <1>6 DEF TInv

\* A queue of one connection is replaced, or a message is taken up or given back:
\* nothing else in ConnOK changes.
LEMMA TQueues ==
    ASSUME TInv, UNCHANGED <<next_id, current_id, respondents, pc, still, late, nsurveys,
                             nconns, backlog>>,
           idx' \in Nat \ {0}, pending' \in Seq(DOMAIN respondents),
           responses' \in Seq(Responses), asked' \in SUBSET Conns,
           up' \in [Conns -> BOOLEAN], breaks' \in 0 .. MaxBreaks,
           s2r' \in [Conns -> Seq(Surveys)], r2s' \in [Conns -> Seq(Responses)],
           \A c \in Conns : c > nconns => s2r'[c] = <<>>,
           resp' \in [Respondents -> [st : {"dialling", "connecting", "recv", "handling", "off"},
                                      conn : Conns \cup {NoConn}, msg : Surveys]],
           \A r \in Respondents :
              \/ resp'[r].conn = resp[r].conn /\ resp[r].conn # NoConn
              \/ resp'[r].conn = resp[r].conn /\ resp'[r].st = resp[r].st
              \/ resp'[r].conn = NoConn /\ resp'[r].st \in {"dialling", "off"}
    PROVE  TInv'
  <1>1. TypeOK'
    BY DEF TInv, TypeOK
  <1>2. /\ \A j, k \in 1 .. Len(respondents') : respondents'[j] = respondents'[k] => j = k
        /\ \A j \in 1 .. Len(respondents') : respondents'[j] <= nconns'
        /\ \A j, k \in 1 .. Len(backlog') : backlog'[j] = backlog'[k] => j = k
        /\ \A j \in 1 .. Len(backlog') : backlog'[j] <= nconns'
        /\ \A j \in 1 .. Len(backlog'), k \in 1 .. Len(respondents') : backlog'[j] # respondents'[k]
        /\ \A c \in Conns : c > nconns' => s2r'[c] = <<>>
    BY DEF TInv, ConnOK
  <1>3. \A r \in Respondents : resp'[r].conn <= nconns'
    <2>1. NoConn <= nconns
      BY SurveyAssumption DEF SurveyAssumption, NoConn, TInv, TypeOK
    <2> QED BY <2>1 DEF TInv, ConnOK
  <1>4. \A r, s \in Respondents : resp'[r].conn = resp'[s].conn /\ resp'[r].conn # NoConn => r = s
    BY DEF TInv, ConnOK
  <1>5. \A r \in Respondents : resp'[r].st \in {"connecting", "recv", "handling"}
                                   => resp'[r].conn # NoConn
    BY DEF TInv, ConnOK
  <1> QED BY <1>1, <1>2, <1>3, <1>4, <1>5 DEF TInv, ConnOK

\* What the respondents do.
LEMMA TRespondent ==
    ASSUME TInv, NEW r \in Respondents,
           Dial(r) \/ DialErr(r) \/ Receive(r) \/ ReceiveErr(r) \/ Respond(r) \/ Skip(r)
    PROVE  TInv'
  <1> DEFINE c == resp[r].conn
             Resp == [st : {"dialling", "connecting", "recv", "handling", "off"},
                      conn : Conns \cup {NoConn}, msg : Surveys]
  <1>0. TypeOK /\ ConnOK /\ resp \in [Respondents -> Resp] /\ resp[r] \in Resp /\ NoMsg \in Surveys
    <2>1. NoMsg \in Surveys
      BY SurveyAssumption DEF SurveyAssumption, NoMsg, Surveys
    <2> QED BY <2>1 DEF TInv, TypeOK
  <1>1. CASE Dial(r)
    <2> DEFINE d == nconns + 1
    <2>1. /\ d \in Conns /\ nconns' = d /\ up' = [up EXCEPT ![d] = TRUE]
          /\ backlog' = Append(backlog, d)
          /\ resp' = [resp EXCEPT ![r] = [st |-> "connecting", conn |-> d, msg |-> NoMsg]]
          /\ UNCHANGED <<survvars, s2r, r2s, breaks>>
      BY <1>0, <1>1, SurveyAssumption DEF SurveyAssumption, Dial, TypeOK, Conns
    <2>2. nconns \in Nat /\ d \in Nat /\ d > nconns
      BY <1>0, SurveyAssumption DEF SurveyAssumption, TypeOK
    <2> HIDE DEF d
    <2>3. [st |-> "connecting", conn |-> d, msg |-> NoMsg] \in Resp
      BY <1>0, <2>1
    <2>4. resp' \in [Respondents -> Resp]
      BY <1>0, <2>1, <2>3
    <2>5. TypeOK'
      <3>1. backlog' \in Seq(Conns) /\ up' \in [Conns -> BOOLEAN] /\ nconns' \in 0 .. MaxConns
        BY <1>0, <2>1, SurveyAssumption DEF SurveyAssumption, TypeOK, Conns
      <3> QED BY <1>0, <2>1, <2>4, <3>1 DEF TypeOK, survvars
    <2>6. /\ Len(backlog) \in Nat /\ Len(backlog') = Len(backlog) + 1
          /\ \A a \in 1 .. Len(backlog) : backlog'[a] = backlog[a]
          /\ \A a \in 1 .. Len(backlog') : a \in 1 .. Len(backlog) \/ (a = Len(backlog) + 1 /\ backlog'[a] = d)
      <3>1. backlog \in Seq(Conns)
        BY <1>0 DEF TypeOK
      <3> QED BY <2>1, <3>1, Put
    <2>7. /\ \A j \in 1 .. Len(respondents) : respondents[j] \in Conns /\ respondents[j] <= nconns
          /\ \A j \in 1 .. Len(backlog) : backlog[j] \in Conns /\ backlog[j] <= nconns
          /\ \A s \in Respondents : resp[s].conn \in Conns \cup {NoConn} /\ resp[s].conn <= nconns
      <3>1. respondents \in Seq(Conns) /\ backlog \in Seq(Conns)
        BY <1>0 DEF TypeOK
      <3>2. /\ \A j \in 1 .. Len(respondents) : respondents[j] \in Conns
            /\ \A j \in 1 .. Len(backlog) : backlog[j] \in Conns
        BY <3>1
      <3>3. \A s \in Respondents : resp[s].conn \in Conns \cup {NoConn}
        BY <1>0
      <3> QED BY <1>0, <3>2, <3>3 DEF ConnOK
    <2>8. \A x \in Conns \cup {NoConn} : x <= nconns => x # d /\ x <= d
      BY <2>1, <2>2, SurveyAssumption DEF SurveyAssumption, Conns, NoConn
    <2>9. ConnOK'
      <3>1. /\ \A j, k \in 1 .. Len(respondents') : respondents'[j] = respondents'[k] => j = k
            /\ \A j \in 1 .. Len(respondents') : respondents'[j] <= nconns'
        BY <1>0, <2>1, <2>7, <2>8 DEF ConnOK, survvars
      <3>2. \A j \in 1 .. Len(backlog') : backlog'[j] <= nconns'
        <4>1. \A j \in 1 .. Len(backlog) : backlog[j] <= d
          BY <2>7, <2>8
        <4>2. d <= d
          BY <2>2
        <4> QED BY <2>1, <2>6, <4>1, <4>2
      <3>3. \A j, k \in 1 .. Len(backlog') : backlog'[j] = backlog'[k] => j = k
        BY <1>0, <2>6, <2>7, <2>8 DEF ConnOK
      <3>4. \A j \in 1 .. Len(backlog'), k \in 1 .. Len(respondents') : backlog'[j] # respondents'[k]
        BY <1>0, <2>1, <2>6, <2>7, <2>8 DEF ConnOK, survvars
      <3>5. \A s \in Respondents : IF s = r THEN resp'[s].conn = d ELSE resp'[s] = resp[s]
        BY <1>0, <2>1
      <3>6. \A s \in Respondents : resp'[s].conn <= nconns'
        <4>1. \A s \in Respondents : resp[s].conn <= d
          BY <2>7, <2>8
        <4>2. d <= d
          BY <2>2
        <4> QED BY <2>1, <3>5, <4>1, <4>2
      <3>7. \A s, t \in Respondents :
               resp'[s].conn = resp'[t].conn /\ resp'[s].conn # NoConn => s = t
        BY <1>0, <2>7, <2>8, <3>5 DEF ConnOK
      <3>8. \A s \in Respondents : resp'[s].st \in {"connecting", "recv", "handling"}
                                       => resp'[s].conn # NoConn
        BY <1>0, <2>1, <3>5 DEF ConnOK, Conns, NoConn
      <3>9. \A x \in Conns : x > nconns' => s2r'[x] = <<>>
        <4>1. \A x \in Conns : x > d => x > nconns
          BY <2>2 DEF Conns
        <4> QED BY <1>0, <2>1, <4>1 DEF ConnOK
      <3> QED BY <3>1, <3>2, <3>3, <3>4, <3>6, <3>7, <3>8, <3>9 DEF ConnOK
    <2> QED BY <2>5, <2>9 DEF TInv
  <1>2. CASE DialErr(r) \/ ReceiveErr(r)
    <2>1. /\ UNCHANGED <<survvars, connvars>>
          /\ \/ resp' = [resp EXCEPT ![r].st = "dialling", ![r].conn = NoConn]
             \/ resp' = [resp EXCEPT ![r].st = "off", ![r].conn = NoConn]
      BY <1>2 DEF DialErr, ReceiveErr
    <2>2. resp' \in [Respondents -> Resp] /\ resp'[r].conn = NoConn /\ resp'[r].st \in {"dialling", "off"}
      BY <1>0, <2>1
    <2>3. \A s \in Respondents \ {r} : resp'[s] = resp[s]
      BY <1>0, <2>1
    <2> QED BY <1>0, <2>1, <2>2, <2>3, TQueues DEF TypeOK, ConnOK, survvars, connvars
  <1>3. CASE Receive(r)
    <2>1. /\ resp[r].st = "recv" /\ s2r[c] # <<>> /\ c \in Conns /\ s2r[c] \in Seq(Surveys)
      BY <1>0, <1>3 DEF Receive, TypeOK, ConnOK
    <2>2. /\ resp' = [resp EXCEPT ![r].st = "handling", ![r].msg = Head(s2r[c])]
          /\ s2r' = [s2r EXCEPT ![c] = Tail(s2r[c])]
          /\ UNCHANGED <<survvars, nconns, up, r2s, backlog, breaks>>
      BY <1>3 DEF Receive
    <2>3. Head(s2r[c]) \in Surveys /\ Tail(s2r[c]) \in Seq(Surveys)
      BY <2>1, Taken
    <2>4. /\ resp' \in [Respondents -> Resp] /\ resp'[r].conn = resp[r].conn
          /\ \A s \in Respondents \ {r} : resp'[s] = resp[s]
      BY <1>0, <2>2, <2>3
    <2>5. s2r' \in [Conns -> Seq(Surveys)] /\ \A x \in Conns : x > nconns => s2r'[x] = <<>>
      BY <1>0, <2>1, <2>2, <2>3 DEF TypeOK, ConnOK
    <2>6. resp[r].conn # NoConn
      BY <2>1 DEF Conns, NoConn
    <2> QED BY <1>0, <2>2, <2>4, <2>5, <2>6, TQueues DEF TypeOK, survvars
  <1>4. CASE Respond(r)
    <2> DEFINE m == [id |-> resp[r].msg.id, survey |-> resp[r].msg.survey, from |-> r]
    <2>1. c \in Conns /\ c # NoConn /\ m \in Responses
      BY <1>0, <1>4 DEF Respond, ConnOK, Responses, Surveys, Conns, NoConn
    <2>2. /\ resp' = [resp EXCEPT ![r].st = "recv", ![r].msg = NoMsg]
          /\ r2s' = [r2s EXCEPT ![c] = Append(@, m)]
          /\ UNCHANGED <<survvars, nconns, up, s2r, backlog, breaks>>
      BY <1>4 DEF Respond
    <2> HIDE DEF m
    <2>3. r2s' \in [Conns -> Seq(Responses)]
      BY <1>0, <2>1, <2>2 DEF TypeOK
    <2>4. /\ resp' \in [Respondents -> Resp] /\ resp'[r].conn = resp[r].conn
          /\ \A s \in Respondents \ {r} : resp'[s] = resp[s]
      BY <1>0, <2>2
    <2> QED BY <1>0, <2>1, <2>2, <2>3, <2>4, TQueues DEF TypeOK, ConnOK, survvars
  <1>5. CASE Skip(r)
    <2>1. c # NoConn
      BY <1>0, <1>5 DEF Skip, ConnOK
    <2>2. /\ resp' = [resp EXCEPT ![r].st = "recv", ![r].msg = NoMsg]
          /\ UNCHANGED <<survvars, connvars>>
      BY <1>5 DEF Skip
    <2>3. /\ resp' \in [Respondents -> Resp] /\ resp'[r].conn = resp[r].conn
          /\ \A s \in Respondents \ {r} : resp'[s] = resp[s]
      BY <1>0, <2>2
    <2> QED BY <1>0, <2>1, <2>2, <2>3, TQueues DEF TypeOK, ConnOK, survvars, connvars
  <1> QED BY <1>1, <1>2, <1>3, <1>4, <1>5

\* Every step keeps types and connections in order.
LEMMA TInvStep == TInv /\ [Next]_vars => TInv'
  <1> SUFFICES ASSUME TInv, [Next]_vars PROVE TInv'
    OBVIOUS
  <1> USE SurveyAssumption DEF SurveyAssumption
  <1>0. TypeOK /\ ConnOK
    BY DEF TInv
  <1>1. /\ idx \in Nat \ {0} /\ respondents \in Seq(Conns)
        /\ pending \in Seq(DOMAIN respondents) /\ still \in Seq(DOMAIN respondents)
        /\ \A x \in DOMAIN respondents : /\ Append(pending, x) \in Seq(DOMAIN respondents)
                                         /\ Append(still, x) \in Seq(DOMAIN respondents)
    <2>1. /\ idx \in Nat \ {0} /\ respondents \in Seq(Conns)
          /\ pending \in Seq(DOMAIN respondents) /\ still \in Seq(DOMAIN respondents)
      BY <1>0 DEF TypeOK
    <2> QED BY <2>1, Put
  <1>2. CASE SurveyStart
    <2>1. Succ(next_id) \in 1 .. IdMax /\ next_id \in 0 .. IdMax /\ nsurveys + 1 \in 0 .. MaxSurveys
      BY <1>0, <1>2 DEF SurveyStart, TypeOK, Succ
    <2>2. /\ next_id' \in 1 .. IdMax /\ current_id' \in 0 .. IdMax /\ pc' = "send"
          /\ idx' = 1 /\ pending' = <<>> /\ still' = <<>> /\ responses' = <<>>
          /\ late' = FALSE /\ nsurveys' \in 0 .. MaxSurveys /\ asked' = {}
          /\ UNCHANGED <<respondents, connvars, resp>>
      BY <1>2, <2>1 DEF SurveyStart
    <2>3. /\ pc' \in {"idle", "send", "poll", "yield"} /\ idx' \in Nat \ {0} /\ late' \in BOOLEAN
          /\ pending' \in Seq(DOMAIN respondents) /\ still' \in Seq(DOMAIN respondents)
          /\ responses' \in Seq(Responses) /\ asked' \in SUBSET Conns
      <3>1. pending' \in Seq(DOMAIN respondents) /\ still' \in Seq(DOMAIN respondents)
        BY <2>2, Empty
      <3>2. responses' \in Seq(Responses)
        BY <2>2, Empty
      <3>3. pc' \in {"idle", "send", "poll", "yield"} /\ idx' \in Nat \ {0}
        BY <2>2
      <3>4. late' \in BOOLEAN /\ asked' \in SUBSET Conns
        BY <2>2
      <3> QED BY <3>1, <3>2, <3>3, <3>4
    <2> QED BY <2>2, <2>3, Quiet
  <1>3. CASE SendNext
    <2> DEFINE c == respondents[idx]  m == [id |-> current_id, survey |-> nsurveys]
    <2>1. idx \in 1 .. Len(respondents) /\ idx \in DOMAIN respondents /\ c \in Conns /\ c <= nconns
      <3>1. Len(respondents) \in Nat /\ DOMAIN respondents = 1 .. Len(respondents)
        BY <1>1
      <3>2. idx \in 1 .. Len(respondents)
        BY <1>1, <1>3, <3>1 DEF SendNext
      <3> QED BY <1>0, <1>1, <3>1, <3>2 DEF ConnOK
    <2>2. m \in Surveys
      BY <1>0 DEF TypeOK, Surveys
    <2>3. /\ pending' \in {pending, Append(pending, idx)} /\ asked' \in {asked, asked \cup {c}}
          /\ s2r' = s2r \/ s2r' = [s2r EXCEPT ![c] = Append(@, m)]
          /\ idx' = idx + 1
          /\ UNCHANGED <<next_id, current_id, respondents, pc, still, responses, late,
                         nsurveys, nconns, up, r2s, backlog, breaks, resp>>
      BY <1>3 DEF SendNext
    <2> HIDE DEF c, m
    <2>4. pending' \in Seq(DOMAIN respondents)
      BY <1>1, <2>1, <2>3
    <2>5. s2r' \in [Conns -> Seq(Surveys)]
      <3>1. s2r \in [Conns -> Seq(Surveys)] /\ Append(s2r[c], m) \in Seq(Surveys)
        BY <1>0, <2>1, <2>2, Put DEF TypeOK
      <3> QED BY <2>1, <2>3, <3>1
    <2>6. \A d \in Conns : d > nconns => s2r'[d] = <<>>
      <3>1. nconns \in Nat
        BY <1>0 DEF TypeOK
      <3>2. ~(c > nconns)
        BY <2>1, <3>1 DEF Conns
      <3> QED BY <1>0, <2>3, <3>2 DEF TypeOK, ConnOK
    <2>7. idx' \in Nat \ {0} /\ asked' \in SUBSET Conns
      BY <1>0, <1>1, <2>1, <2>3 DEF TypeOK
    <2>8. \A r \in Respondents : resp'[r].conn = resp[r].conn /\ resp'[r].st = resp[r].st
      BY <2>3
    <2> QED BY <1>0, <2>3, <2>4, <2>5, <2>6, <2>7, <2>8, TQueues DEF TypeOK
  <1>4. CASE SendDone \/ EndRound \/ Yield \/ Deadline \/ CancelSurvey
    <2>1. /\ idx' \in Nat \ {0} /\ pc' \in {"idle", "send", "poll", "yield"}
          /\ pending' \in Seq(DOMAIN respondents) /\ still' \in Seq(DOMAIN respondents)
      <3>1. CASE SendDone
        BY <1>1, <3>1, Empty DEF SendDone, StartRound
      <3>2. CASE EndRound
        BY <1>1, <3>2 DEF EndRound
      <3>4. CASE Yield
        BY <1>1, <3>4, Empty DEF Yield
      <3>3. CASE Deadline \/ CancelSurvey
        BY <1>0, <1>1, <3>3 DEF Deadline, CancelSurvey, TypeOK
      <3> QED BY <1>4, <3>1, <3>2, <3>3, <3>4
    <2>2. UNCHANGED <<next_id, current_id, respondents, responses, nsurveys, connvars, resp>>
      BY <1>4 DEF SendDone, EndRound, Yield, Deadline, CancelSurvey
    <2>3. late' \in BOOLEAN /\ asked' \in SUBSET Conns
      BY <1>0, <1>4 DEF SendDone, EndRound, Yield, Deadline, CancelSurvey, TypeOK
    <2> QED BY <1>0, <2>1, <2>2, <2>3, Quiet DEF TypeOK
  <1>5. ASSUME pc = "poll", idx <= Len(pending) PROVE pending[idx] \in DOMAIN respondents /\ Polled \in Conns
    <2>1. idx \in 1 .. Len(pending)
      BY <1>1, <1>5
    <2>2. pending[idx] \in DOMAIN respondents
      BY <1>1, <2>1
    <2> QED BY <1>1, <2>2 DEF Polled
  <1>6. CASE PollResponse
    <2> DEFINE c == Polled
    <2>1. c \in Conns /\ r2s[c] # <<>> /\ r2s[c] \in Seq(Responses)
      BY <1>0, <1>5, <1>6 DEF PollResponse, TypeOK
    <2>2. Head(r2s[c]) \in Responses /\ Tail(r2s[c]) \in Seq(Responses)
      BY <2>1, Taken
    <2>3. /\ r2s' = [r2s EXCEPT ![c] = Tail(r2s[c])]
          /\ responses' \in {responses, Append(responses, Head(r2s[c]))} /\ idx' = idx + 1
          /\ UNCHANGED <<next_id, current_id, respondents, pc, pending, still, late,
                         nsurveys, asked, nconns, up, s2r, backlog, breaks, resp>>
      BY <1>6 DEF PollResponse
    <2>4. r2s' \in [Conns -> Seq(Responses)] /\ responses' \in Seq(Responses) /\ idx' \in Nat \ {0}
      <3>1. responses \in Seq(Responses) /\ Append(responses, Head(r2s[c])) \in Seq(Responses)
        BY <1>0, <2>2, Put DEF TypeOK
      <3>2. r2s' \in [Conns -> Seq(Responses)]
        BY <1>0, <2>1, <2>2, <2>3 DEF TypeOK
      <3>3. responses' \in Seq(Responses)
        BY <2>3, <3>1
      <3>4. idx' \in Nat \ {0}
        BY <1>1, <2>3
      <3> QED BY <3>2, <3>3, <3>4
    <2> QED BY <1>0, <1>1, <2>3, <2>4, TQueues DEF TypeOK, ConnOK
  <1>7. CASE PollNothing
    <2>1. still' \in Seq(DOMAIN respondents)
      BY <1>1, <1>5, <1>7 DEF PollNothing
    <2> QED BY <1>0, <1>1, <1>7, <2>1, Quiet DEF PollNothing, TypeOK
  <1>8. ASSUME NEW c \in Conns, Break(c) PROVE TInv'
    <2>1. s2r[c] \in Seq(Surveys) /\ r2s[c] \in Seq(Responses)
      BY <1>0 DEF TypeOK
    <2>2. PICK n \in 0 .. Len(s2r[c]) : s2r' = [s2r EXCEPT ![c] = SubSeq(@, 1, n)]
      BY <1>8 DEF Break
    <2>3. PICK k \in 0 .. Len(r2s[c]) : r2s' = [r2s EXCEPT ![c] = SubSeq(@, 1, k)]
      BY <1>8 DEF Break
    <2>4. /\ SubSeq(s2r[c], 1, n) \in Seq(Surveys) /\ SubSeq(r2s[c], 1, k) \in Seq(Responses)
          /\ (s2r[c] = <<>> => SubSeq(s2r[c], 1, n) = <<>>)
      <3>1. SubSeq(s2r[c], 1, n) \in Seq(Surveys) /\ SubSeq(r2s[c], 1, k) \in Seq(Responses)
        BY <2>1, <2>2, <2>3, Cut
      <3>2. ASSUME s2r[c] = <<>> PROVE SubSeq(s2r[c], 1, n) = <<>>
        <4>1. n = 0
          BY <2>2, <3>2
        <4> QED BY <2>1, <4>1, <3>2
      <3> QED BY <3>1, <3>2
    <2>5. s2r' \in [Conns -> Seq(Surveys)] /\ r2s' \in [Conns -> Seq(Responses)]
      BY <1>0, <2>2, <2>3, <2>4 DEF TypeOK
    <2>6. \A d \in Conns : d > nconns => s2r'[d] = <<>>
      BY <1>0, <2>2, <2>4 DEF TypeOK, ConnOK
    <2>7. /\ up' \in [Conns -> BOOLEAN] /\ breaks' \in 0 .. MaxBreaks
          /\ UNCHANGED <<survvars, nconns, backlog, resp>>
      BY <1>0, <1>8 DEF Break, TypeOK
    <2> QED BY <1>0, <2>5, <2>6, <2>7, TQueues DEF TypeOK, ConnOK, survvars
  <1>9. CASE UNCHANGED vars
    BY <1>0, <1>9, Quiet DEF TypeOK, vars, survvars
  <1> QED
    BY <1>2, <1>3, <1>4, <1>6, <1>7, <1>8, <1>9, TAccept, TRespondent DEF Next, Survey

------------------------------------------------------------------------------
(* The running survey is in one place *)

\* No survey is under way at first.
LEMMA CurrentInit == Init => Current
  <1> SUFFICES ASSUME Init PROVE Current
    OBVIOUS
  <1> USE SurveyAssumption DEF SurveyAssumption, Init
  <1>1. Ids
    BY DEF Ids
  <1>2. Labelled
    BY DEF Labelled, NoMsg
  <1>3. /\ \A c \in Conns : Len(s2r[c]) = 0 /\ Len(r2s[c]) = 0
        /\ Len(responses) = 0 /\ \A r \in Respondents : ~Held(r)
    BY DEF Held
  <1>4. (\A c \in Conns : ~Under(c)) /\ \A r \in Respondents : ~Answered(r) /\ ~Collected(r)
    BY <1>3 DEF Under, Answered, Collected
  <1>5. Once
    BY <1>3, <1>4 DEF Once, NoConn
  <1>6. Ahead /\ ResponsesCurrent
    BY <1>3 DEF Ahead, ResponsesCurrent
  <1> QED BY <1>1, <1>2, <1>5, <1>6 DEF Current

\* Nothing changes for the running survey when nobody sends, takes or answers.
LEMMA CurrentQuiet ==
    ASSUME TInv, Current, UNCHANGED <<next_id, current_id, nsurveys, responses, s2r, r2s>>,
           \A r \in Respondents :
              /\ resp'[r].conn \in {resp[r].conn, NoConn}
              /\ Held(r)' => Held(r)
              /\ resp'[r].msg \in {resp[r].msg, NoMsg},
           pc' = "send" => pc = "send" /\ UNCHANGED <<respondents, idx>>
    PROVE  Current'
  <1> USE DEF Current
  <1>0. respondents \in Seq(Conns) /\ idx \in Nat \ {0}
    BY DEF TInv, TypeOK
  <1>1. /\ \A c \in Conns : Under(c)' <=> Under(c)
        /\ \A r \in Respondents : Answered(r)' <=> Answered(r)
        /\ \A r \in Respondents : Collected(r)' <=> Collected(r)
        /\ \A r, c, a : Answers(r, c, a)' <=> Answers(r, c, a)
    BY DEF Under, Answered, Collected, Answers
  <1>2. Ids' /\ ResponsesCurrent'
    BY DEF Ids, ResponsesCurrent
  <1>3. Labelled'
    <2>1. NoMsg.id = NoMsg.survey /\ NoMsg.survey <= nsurveys
      BY SurveyAssumption DEF SurveyAssumption, NoMsg, TInv, TypeOK
    <2> QED BY <2>1 DEF Labelled
  <1>4. Once'
    <2>1. ASSUME NEW r \in Respondents
          PROVE  /\ resp'[r].conn # NoConn /\ Under(resp[r].conn)' /\ resp[r].conn \in Conns
                        => ~Held(r)' /\ ~Answered(r)' /\ ~Collected(r)'
                 /\ Held(r)' => ~Answered(r)' /\ ~Collected(r)'
                 /\ Answered(r)' => ~Collected(r)'
      BY <1>1 DEF Once
    <2>2. \A r \in Respondents : resp'[r].conn # NoConn => resp'[r].conn = resp[r].conn /\ resp[r].conn \in Conns
      BY DEF TInv, TypeOK
    <2>3. \A r \in Respondents : resp'[r].conn # NoConn /\ Under(resp[r].conn)'
                        => ~Held(r)' /\ ~Answered(r)' /\ ~Collected(r)'
      BY <2>1, <2>2
    <2> QED BY <1>1, <2>1, <2>2, <2>3 DEF Once, Under
  <1>5. Ahead'
    <2>1. SUFFICES ASSUME pc' = "send", NEW j \in idx .. Len(respondents)
                   PROVE  /\ ~Under(respondents[j])'
                          /\ \A r \in Respondents : resp'[r].conn = respondents[j]
                                 => ~Held(r)' /\ ~Answered(r)' /\ ~Collected(r)'
      BY DEF Ahead, Under
    <2>2. respondents[j] \in Conns /\ respondents[j] # NoConn
      <3>1. Len(respondents) \in Nat /\ j \in 1 .. Len(respondents)
        BY <1>0
      <3>2. respondents[j] \in Conns
        BY <1>0, <3>1
      <3> QED BY <3>2 DEF Conns, NoConn
    <2>3. /\ ~Under(respondents[j])
          /\ \A r \in Respondents : resp[r].conn = respondents[j]
                 => ~Held(r) /\ ~Answered(r) /\ ~Collected(r)
      BY <2>1 DEF Ahead
    <2> QED BY <1>1, <2>1, <2>2, <2>3 DEF Under
  <1> QED BY <1>2, <1>3, <1>4, <1>5

\* A new survey: no message belongs to it yet.
LEMMA CurrentStart ==
    ASSUME MaxSurveys <= IdMax, TInv, Current, SurveyStart
    PROVE  Current'
  <1> USE SurveyAssumption DEF SurveyAssumption
  <1>0. /\ nsurveys \in Nat /\ nsurveys < MaxSurveys /\ nsurveys' = nsurveys + 1
        /\ current_id' = next_id /\ next_id' = Succ(next_id)
        /\ responses' = <<>> /\ pc' = "send" /\ UNCHANGED <<respondents, s2r, r2s, resp>>
    BY DEF SurveyStart, TInv, TypeOK, connvars
  <1>1. Ids'
    <2>1. next_id = nsurveys + 1
      BY <1>0 DEF Current, Ids
    <2>2. nsurveys + 1 < IdMax => Succ(next_id) = nsurveys + 2
      BY <2>1, <1>0 DEF Succ
    <2> QED BY <1>0, <2>1, <2>2 DEF Ids
  <1>2. /\ \A c \in Conns : \A a \in 1 .. Len(s2r[c]) :
              s2r[c][a].id = s2r[c][a].survey /\ s2r[c][a].survey \in Nat /\ s2r[c][a].survey <= nsurveys
        /\ \A c \in Conns : \A a \in 1 .. Len(r2s[c]) :
              r2s[c][a].id = r2s[c][a].survey /\ r2s[c][a].survey \in Nat /\ r2s[c][a].survey <= nsurveys
        /\ \A r \in Respondents : /\ resp[r].msg.id = resp[r].msg.survey
                                  /\ resp[r].msg.survey \in Nat /\ resp[r].msg.survey <= nsurveys
    <2>1. \A c \in Conns : s2r[c] \in Seq(Surveys) /\ r2s[c] \in Seq(Responses)
      BY DEF TInv, TypeOK
    <2>2. \A c \in Conns : \A a \in 1 .. Len(s2r[c]) : s2r[c][a] \in Surveys
      BY <2>1
    <2>3. \A c \in Conns : \A a \in 1 .. Len(r2s[c]) : r2s[c][a] \in Responses
      BY <2>1
    <2>4. \A r \in Respondents : resp[r].msg \in Surveys
      BY DEF TInv, TypeOK
    <2>5. /\ \A m \in Surveys : m.survey \in Nat
          /\ \A m \in Responses : m.survey \in Nat
      BY DEF Surveys, Responses
    <2> QED BY <2>2, <2>3, <2>4, <2>5 DEF Current, Labelled
  <1>3. \A n \in Nat : n <= nsurveys => n # nsurveys' /\ n <= nsurveys'
    BY <1>0
  <1>4. Labelled'
    BY <1>0, <1>2, <1>3 DEF Labelled
  <1>5. /\ \A c \in Conns : \A a \in 1 .. Len(s2r'[c]) : s2r'[c][a].survey # nsurveys'
        /\ \A c \in Conns : \A a \in 1 .. Len(r2s'[c]) : r2s'[c][a].survey # nsurveys'
        /\ \A r \in Respondents : resp'[r].msg.survey # nsurveys'
    BY <1>0, <1>2, <1>3
  <1>6. /\ \A c \in Conns : ~Under(c)'
        /\ \A r \in Respondents : ~Held(r)' /\ ~Answered(r)' /\ ~Collected(r)'
    <2>1. Len(responses') = 0
      BY <1>0
    <2> QED BY <1>5, <2>1 DEF Under, Held, Answered, Answers, Collected
  <1>7. Once'
    <2>1. \A r \in Respondents : resp'[r].conn # NoConn => resp'[r].conn \in Conns
      BY <1>0 DEF TInv, TypeOK
    <2> QED BY <1>5, <1>6, <2>1 DEF Once, Under, Answers
  <1>8. Ahead'
    <2>1. respondents \in Seq(Conns) /\ idx' = 1 /\ Len(respondents) \in Nat
      BY DEF SurveyStart, TInv, TypeOK
    <2>2. \A j \in 1 .. Len(respondents) : respondents[j] \in Conns
      BY <2>1
    <2> QED BY <1>0, <1>6, <2>1, <2>2 DEF Ahead, Under
  <1>9. ResponsesCurrent'
    BY <1>0 DEF ResponsesCurrent
  <1> QED BY <1>1, <1>4, <1>7, <1>8, <1>9 DEF Current

\* The survey goes out on one connection that does not carry it.
LEMMA CurrentSend ==
    ASSUME TInv, Current, SendNext
    PROVE  Current'
  <1> USE SurveyAssumption DEF SurveyAssumption, Current
  <1> DEFINE c == respondents[idx]  m == [id |-> current_id, survey |-> nsurveys]
  <1>0. /\ pc = "send" /\ idx \in Nat \ {0} /\ respondents \in Seq(Conns) /\ Len(respondents) \in Nat
        /\ nsurveys \in Nat
    BY DEF SendNext, TInv, TypeOK
  <1>1. /\ idx \in 1 .. Len(respondents) /\ c \in Conns /\ c # NoConn
        /\ \A j \in idx + 1 .. Len(respondents) : respondents[j] \in Conns /\ respondents[j] # c
    <2>1. idx \in 1 .. Len(respondents)
      BY <1>0 DEF SendNext
    <2>2. ASSUME NEW j \in idx + 1 .. Len(respondents) PROVE respondents[j] \in Conns /\ respondents[j] # c
      <3>1. j \in 1 .. Len(respondents) /\ j # idx
        BY <1>0, <2>1
      <3> QED BY <1>0, <2>1, <3>1 DEF TInv, ConnOK
    <2>3. c \in Conns
      BY <1>0, <2>1
    <2> QED BY <2>1, <2>2, <2>3 DEF Conns, NoConn
  <1>2. /\ s2r' = s2r \/ s2r' = [s2r EXCEPT ![c] = Append(@, m)]
        /\ idx' = idx + 1
        /\ UNCHANGED <<next_id, current_id, respondents, pc, responses, nsurveys, r2s, resp>>
    BY DEF SendNext
  <1>3. /\ m.id = m.survey /\ m.survey = nsurveys /\ m \in Surveys
    BY DEF Ids, Surveys, TInv, TypeOK
  <1>4. /\ s2r[c] \in Seq(Surveys) /\ s2r'[c] \in {s2r[c], Append(s2r[c], m)}
        /\ \A d \in Conns \ {c} : s2r'[d] = s2r[d]
    BY <1>1, <1>2 DEF TInv, TypeOK
  <1>5. /\ ~Under(c)
        /\ \A r \in Respondents : resp[r].conn = c => ~Held(r) /\ ~Answered(r) /\ ~Collected(r)
    BY <1>0, <1>1 DEF Ahead
  <1> HIDE DEF c, m
  <1>6. /\ \A a \in 1 .. Len(s2r[c]) : s2r[c][a].survey # nsurveys
        /\ Len(s2r[c]) \in Nat
        /\ \A a \in 1 .. Len(s2r'[c]) :
              \/ a \in 1 .. Len(s2r[c]) /\ s2r'[c][a] = s2r[c][a]
              \/ a = Len(s2r[c]) + 1 /\ s2r'[c][a] = m
    <2>1. \A a \in 1 .. Len(s2r[c]) : s2r[c][a].survey # nsurveys
      BY <1>5 DEF Under
    <2>2. CASE s2r'[c] = s2r[c]
      BY <1>4, <2>1, <2>2
    <2>3. CASE s2r'[c] = Append(s2r[c], m)
      BY <1>3, <1>4, <2>1, <2>3, Put
    <2> QED BY <1>4, <2>2, <2>3
  <1>7. /\ \A r \in Respondents : Held(r)' <=> Held(r)
        /\ \A r \in Respondents : Answered(r)' <=> Answered(r)
        /\ \A r \in Respondents : Collected(r)' <=> Collected(r)
        /\ \A d \in Conns \ {c} : Under(d)' <=> Under(d)
    BY <1>2, <1>4 DEF Held, Answered, Answers, Collected, Under
  <1>8. Ids' /\ ResponsesCurrent'
    BY <1>2 DEF Ids, ResponsesCurrent
  <1>9. Labelled'
    <2>1. \A d \in Conns : \A a \in 1 .. Len(s2r'[d]) :
             s2r'[d][a].id = s2r'[d][a].survey /\ s2r'[d][a].survey <= nsurveys
      <3>1. nsurveys <= nsurveys
        BY <1>0
      <3> QED BY <1>3, <1>4, <1>6, <3>1 DEF Labelled
    <2> QED BY <1>2, <2>1 DEF Labelled
  <1>10. Once'
    <2>1. \A d \in Conns : \A a, b \in 1 .. Len(s2r'[d]) :
             s2r'[d][a].survey = nsurveys /\ s2r'[d][b].survey = nsurveys => a = b
      <3>1. \A a, b \in 1 .. Len(s2r'[c]) :
               s2r'[c][a].survey = nsurveys /\ s2r'[c][b].survey = nsurveys => a = b
        <4>1. \A a \in 1 .. Len(s2r'[c]) : s2r'[c][a].survey = nsurveys => a = Len(s2r[c]) + 1
          BY <1>6
        <4> QED BY <4>1
      <3>2. \A d \in Conns \ {c} : \A a, b \in 1 .. Len(s2r'[d]) :
               s2r'[d][a].survey = nsurveys /\ s2r'[d][b].survey = nsurveys => a = b
        BY <1>4 DEF Once
      <3> QED BY <3>1, <3>2
    <2>2. \A r \in Respondents : \A d, e \in Conns :
             \A a \in 1 .. Len(r2s[d]), b \in 1 .. Len(r2s[e]) :
                Answers(r, d, a)' /\ Answers(r, e, b)' => d = e /\ a = b
      BY <1>2 DEF Once, Answers
    <2>3. ASSUME NEW r \in Respondents, resp[r].conn # NoConn, Under(resp[r].conn)'
          PROVE  ~Held(r)' /\ ~Answered(r)' /\ ~Collected(r)'
      <3>1. CASE resp[r].conn = c
        BY <1>5, <1>7, <3>1
      <3>2. CASE resp[r].conn # c
        <4>1. resp[r].conn \in Conns
          BY <2>3 DEF TInv, TypeOK
        <4>2. Under(resp[r].conn)
          BY <1>2, <1>4, <2>3, <3>2, <4>1 DEF Under
        <4> QED BY <1>7, <2>3, <4>2 DEF Once
      <3> QED BY <3>1, <3>2
    <2>4. \A r \in Respondents : /\ Held(r)' => ~Answered(r)' /\ ~Collected(r)'
                                 /\ Answered(r)' => ~Collected(r)'
      BY <1>7 DEF Once
    <2> QED BY <1>2, <2>1, <2>2, <2>3, <2>4 DEF Once
  <1>11. Ahead'
    <2>1. ASSUME NEW j \in idx + 1 .. Len(respondents)
          PROVE  /\ ~Under(respondents[j])'
                 /\ \A r \in Respondents : resp[r].conn = respondents[j]
                        => ~Held(r)' /\ ~Answered(r)' /\ ~Collected(r)'
      <3>1. j \in idx .. Len(respondents)
        BY <1>0
      <3>2. ~Under(respondents[j]) /\ respondents[j] \in Conns \ {c}
        BY <1>0, <1>1, <3>1 DEF Ahead
      <3>3. ~Under(respondents[j])'
        BY <1>2, <1>4, <3>2 DEF Under
      <3> QED BY <1>0, <1>7, <3>1, <3>3 DEF Ahead
    <2> QED BY <1>2, <2>1 DEF Ahead
  <1> QED BY <1>8, <1>9, <1>10, <1>11

\* A respondent on a new connection: it carries nothing, and is not accepted.
LEMMA CurrentDial ==
    ASSUME TInv, Current, NEW r \in Respondents, Dial(r)
    PROVE  Current'
  <1> USE SurveyAssumption DEF SurveyAssumption, Current
  <1> DEFINE d == nconns + 1
  <1>0. /\ d \in Conns /\ d > nconns /\ nconns \in Nat
        /\ resp' = [resp EXCEPT ![r] = [st |-> "connecting", conn |-> d, msg |-> NoMsg]]
        /\ UNCHANGED <<survvars, s2r, r2s>>
    BY DEF Dial, TInv, TypeOK, Conns
  <1>1. ~Under(d)
    <2>1. s2r[d] = <<>>
      BY <1>0 DEF TInv, ConnOK
    <2> QED BY <2>1 DEF Under
  <1>2. \A j \in 1 .. Len(respondents) : respondents[j] # d
    <2>1. \A j \in 1 .. Len(respondents) : respondents[j] <= nconns
      BY DEF TInv, ConnOK
    <2>2. ~(d <= nconns)
      BY <1>0
    <2> QED BY <2>1, <2>2
  <1> HIDE DEF d
  <1>3. /\ resp'[r].conn = d /\ resp'[r].msg = NoMsg /\ ~Held(r)'
        /\ \A s \in Respondents \ {r} : resp'[s] = resp[s]
    BY <1>0 DEF Held, TInv, TypeOK
  <1>4. /\ \A s \in Respondents : Held(s)' => Held(s)
        /\ \A s \in Respondents : Answered(s)' <=> Answered(s)
        /\ \A s \in Respondents : Collected(s)' <=> Collected(s)
        /\ \A c : Under(c)' <=> Under(c)
    BY <1>0, <1>3 DEF Held, Answered, Answers, Collected, Under, survvars
  <1>5. Ids' /\ ResponsesCurrent'
    BY <1>0 DEF Ids, ResponsesCurrent, survvars
  <1>6. Labelled'
    <2>1. NoMsg.id = NoMsg.survey /\ NoMsg.survey <= nsurveys
      BY DEF NoMsg, TInv, TypeOK
    <2> QED BY <1>0, <1>3, <2>1 DEF Labelled, survvars
  <1>7. Once'
    <2>1. \A s \in Respondents : resp'[s].conn # NoConn /\ Under(resp[s].conn)' /\ s # r
                        => ~Held(s)' /\ ~Answered(s)' /\ ~Collected(s)'
      BY <1>0, <1>3, <1>4 DEF Once, Under, survvars
    <2>2. ~Under(resp[r].conn)'
      BY <1>0, <1>1, <1>3 DEF Under, survvars
    <2>3. \A s \in Respondents : /\ Held(s)' => ~Answered(s)' /\ ~Collected(s)'
                                 /\ Answered(s)' => ~Collected(s)'
      BY <1>4 DEF Once
    <2>4. /\ \A c \in Conns : \A a, b \in 1 .. Len(s2r'[c]) :
                s2r'[c][a].survey = nsurveys' /\ s2r'[c][b].survey = nsurveys' => a = b
          /\ \A s \in Respondents, c, e \in Conns :
                \A a \in 1 .. Len(r2s'[c]), b \in 1 .. Len(r2s'[e]) :
                   Answers(s, c, a)' /\ Answers(s, e, b)' => c = e /\ a = b
      BY <1>0 DEF Once, Answers, survvars
    <2> QED BY <2>1, <2>2, <2>3, <2>4 DEF Once
  <1>8. Ahead'
    <2>1. respondents \in Seq(Conns) /\ idx \in Nat \ {0} /\ Len(respondents) \in Nat
      BY DEF TInv, TypeOK
    <2>2. ASSUME pc = "send", NEW j \in idx .. Len(respondents)
          PROVE  /\ ~Under(respondents[j])'
                 /\ \A s \in Respondents : resp'[s].conn = respondents[j]
                        => ~Held(s)' /\ ~Answered(s)' /\ ~Collected(s)'
      <3>1. j \in 1 .. Len(respondents)
        BY <2>1
      <3>2. ~Under(respondents[j])'
        BY <1>0, <2>2 DEF Ahead, Under, survvars
      <3>3. \A s \in Respondents : resp'[s].conn = respondents[j] => s # r /\ resp[s].conn = respondents[j]
        BY <1>2, <1>3, <3>1
      <3> QED BY <1>4, <2>2, <3>2, <3>3 DEF Ahead
    <2> QED BY <1>0, <2>2 DEF Ahead, survvars
  <1> QED BY <1>5, <1>6, <1>7, <1>8

\* A respondent takes a survey off its connection.
LEMMA CurrentReceive ==
    ASSUME TInv, Current, NEW r \in Respondents, Receive(r)
    PROVE  Current'
  <1> USE DEF Current
  <1> DEFINE c == resp[r].conn  q == s2r[c]
  <1>0. /\ resp[r].st = "recv" /\ q # <<>> /\ c \in Conns /\ c # NoConn /\ q \in Seq(Surveys)
        /\ resp' = [resp EXCEPT ![r].st = "handling", ![r].msg = Head(q)]
        /\ s2r' = [s2r EXCEPT ![c] = Tail(q)]
        /\ UNCHANGED <<survvars, r2s>>
    BY DEF Receive, TInv, TypeOK, ConnOK
  <1>1. /\ Len(q) \in Nat \ {0} /\ 1 \in 1 .. Len(q) /\ Head(q) = q[1]
        /\ \A a \in 1 .. Len(Tail(q)) : Tail(q)[a] = q[a + 1] /\ a + 1 \in 1 .. Len(q)
        /\ Len(Tail(q)) \in Nat
    BY <1>0, Taken
  <1>2. /\ resp'[r].conn = c /\ resp'[r].st = "handling" /\ resp'[r].msg = q[1]
        /\ \A s \in Respondents \ {r} : resp'[s] = resp[s]
        /\ s2r'[c] = Tail(q) /\ \A d \in Conns \ {c} : s2r'[d] = s2r[d]
    BY <1>0, <1>1 DEF TInv, TypeOK
  <1>3. \A s \in Respondents \ {r} : resp[s].conn # c
    BY <1>0 DEF TInv, ConnOK
  <1>4. Under(c) <=> \E a \in 1 .. Len(q) : q[a].survey = nsurveys
    BY DEF Under
  <1>5. \A a, b \in 1 .. Len(q) : q[a].survey = nsurveys /\ q[b].survey = nsurveys => a = b
    BY <1>0 DEF Once
  <1>6. /\ \A a \in 1 .. Len(q) : q[a].id = q[a].survey /\ q[a].survey <= nsurveys
    BY <1>0 DEF Labelled
  <1>7. Under(c) => ~Held(r) /\ ~Answered(r) /\ ~Collected(r)
    BY <1>0 DEF Once
  <1> HIDE DEF c, q
  <1>8. /\ \A s \in Respondents \ {r} : Held(s)' <=> Held(s)
        /\ \A s \in Respondents : Answered(s)' <=> Answered(s)
        /\ \A s \in Respondents : Collected(s)' <=> Collected(s)
        /\ Held(r)' => q[1].survey = nsurveys
    BY <1>0, <1>2 DEF Held, Answered, Answers, Collected, survvars
  <1>9. \A d \in Conns : (\E a \in 1 .. Len(s2r'[d]) : s2r'[d][a].survey = nsurveys) => Under(d)
    <2>1. (\E a \in 1 .. Len(Tail(q)) : Tail(q)[a].survey = nsurveys) => Under(c)
      BY <1>1, <1>4
    <2>2. \A d \in Conns \ {c} :
             (\E a \in 1 .. Len(s2r'[d]) : s2r'[d][a].survey = nsurveys) => Under(d)
      BY <1>2 DEF Under
    <2> QED BY <1>2, <2>1, <2>2
  <1>10. (\E a \in 1 .. Len(Tail(q)) : Tail(q)[a].survey = nsurveys) => q[1].survey # nsurveys
    <2>1. ASSUME NEW a \in 1 .. Len(Tail(q)), Tail(q)[a].survey = nsurveys, q[1].survey = nsurveys
          PROVE  FALSE
      <3>1. a + 1 = 1
        BY <1>1, <1>5, <2>1
      <3> QED BY <1>1, <3>1
    <2> QED BY <2>1
  <1>11. Ids' /\ ResponsesCurrent'
    BY <1>0 DEF Ids, ResponsesCurrent, survvars
  <1>12. Labelled'
    <2>1. \A d \in Conns : \A a \in 1 .. Len(s2r'[d]) :
             s2r'[d][a].id = s2r'[d][a].survey /\ s2r'[d][a].survey <= nsurveys
      <3>1. \A a \in 1 .. Len(Tail(q)) :
               Tail(q)[a].id = Tail(q)[a].survey /\ Tail(q)[a].survey <= nsurveys
        BY <1>1, <1>6
      <3>2. \A d \in Conns \ {c} : \A a \in 1 .. Len(s2r'[d]) :
               s2r'[d][a].id = s2r'[d][a].survey /\ s2r'[d][a].survey <= nsurveys
        BY <1>2 DEF Labelled
      <3> QED BY <1>2, <3>1, <3>2
    <2>2. \A s \in Respondents :
             resp'[s].msg.id = resp'[s].msg.survey /\ resp'[s].msg.survey <= nsurveys
      BY <1>1, <1>2, <1>6 DEF Labelled
    <2>3. nsurveys' = nsurveys /\ r2s' = r2s
      BY <1>0 DEF survvars
    <2>4. \A d \in Conns : \A a \in 1 .. Len(r2s[d]) :
             r2s[d][a].id = r2s[d][a].survey /\ r2s[d][a].survey <= nsurveys
      BY DEF Labelled
    <2> QED BY <2>1, <2>2, <2>3, <2>4 DEF Labelled
  <1>13. Once'
    <2>1. \A d \in Conns : \A a, b \in 1 .. Len(s2r'[d]) :
             s2r'[d][a].survey = nsurveys /\ s2r'[d][b].survey = nsurveys => a = b
      <3>1. ASSUME NEW a \in 1 .. Len(Tail(q)), NEW b \in 1 .. Len(Tail(q)),
                   Tail(q)[a].survey = nsurveys, Tail(q)[b].survey = nsurveys
            PROVE  a = b
        <4>1. a + 1 = b + 1
          BY <1>1, <1>5, <3>1
        <4> QED BY <1>1, <4>1
      <3>2. \A d \in Conns \ {c} : \A a, b \in 1 .. Len(s2r'[d]) :
               s2r'[d][a].survey = nsurveys /\ s2r'[d][b].survey = nsurveys => a = b
        BY <1>2 DEF Once
      <3>3. \A a, b \in 1 .. Len(s2r'[c]) :
               s2r'[c][a].survey = nsurveys /\ s2r'[c][b].survey = nsurveys => a = b
        BY <1>2, <3>1
      <3> QED BY <3>2, <3>3
    <2>2. ASSUME NEW s \in Respondents, resp'[s].conn # NoConn,
                 \E a \in 1 .. Len(s2r'[resp'[s].conn]) : s2r'[resp'[s].conn][a].survey = nsurveys
          PROVE  ~Held(s)' /\ ~Answered(s)' /\ ~Collected(s)'
      <3>1. CASE s = r
        <4>1. Under(c) /\ q[1].survey # nsurveys
          BY <1>0, <1>2, <1>9, <1>10, <2>2, <3>1
        <4> QED BY <1>7, <1>8, <3>1, <4>1
      <3>2. CASE s # r
        <4>1. resp'[s] = resp[s] /\ resp[s].conn \in Conns
          BY <1>2, <2>2, <3>2 DEF TInv, TypeOK
        <4>2. Under(resp[s].conn)
          BY <1>9, <2>2, <4>1
        <4> QED BY <1>8, <2>2, <3>2, <4>1, <4>2 DEF Once
      <3> QED BY <3>1, <3>2
    <2>3. \A s \in Respondents : Held(s)' => ~Answered(s)' /\ ~Collected(s)'
      BY <1>1, <1>4, <1>7, <1>8 DEF Once
    <2>4. \A s \in Respondents : Answered(s)' => ~Collected(s)'
      BY <1>8 DEF Once
    <2>5. \A s \in Respondents : \A d, e \in Conns :
             \A a \in 1 .. Len(r2s'[d]), b \in 1 .. Len(r2s'[e]) :
                Answers(s, d, a)' /\ Answers(s, e, b)' => d = e /\ a = b
      BY <1>0 DEF Once, Answers, survvars
    <2> QED BY <1>0, <2>1, <2>2, <2>3, <2>4, <2>5 DEF Once, Under, survvars
  <1>14. Ahead'
    <2>1. respondents \in Seq(Conns) /\ idx \in Nat \ {0} /\ Len(respondents) \in Nat
      BY DEF TInv, TypeOK
    <2>2. ASSUME pc = "send", NEW j \in idx .. Len(respondents)
          PROVE  /\ ~\E a \in 1 .. Len(s2r'[respondents[j]]) : s2r'[respondents[j]][a].survey = nsurveys
                 /\ \A s \in Respondents : resp'[s].conn = respondents[j]
                        => ~Held(s)' /\ ~Answered(s)' /\ ~Collected(s)'
      <3>1. j \in 1 .. Len(respondents)
        BY <2>1
      <3>2. respondents[j] \in Conns /\ ~Under(respondents[j])
        BY <2>1, <2>2, <3>1 DEF Ahead
      <3>3. respondents[j] = c => ~Held(r)'
        BY <1>1, <1>4, <1>8, <3>2
      <3>4. \A s \in Respondents : resp'[s].conn = respondents[j] => resp[s].conn = respondents[j]
        BY <1>2 DEF c
      <3>5. \A s \in Respondents : resp[s].conn = respondents[j]
                 => ~Held(s) /\ ~Answered(s) /\ ~Collected(s)
        BY <2>2 DEF Ahead
      <3> QED BY <1>2, <1>8, <1>9, <3>2, <3>3, <3>4, <3>5
    <2>3. UNCHANGED <<respondents, pc, idx, nsurveys>>
      BY <1>0 DEF survvars
    <2> QED BY <2>2, <2>3 DEF Ahead, Under
  <1> QED BY <1>11, <1>12, <1>13, <1>14

\* A respondent answers what it holds.
LEMMA CurrentRespond ==
    ASSUME TInv, Current, NEW r \in Respondents, Respond(r)
    PROVE  Current'
  <1> USE DEF Current
  <1> DEFINE c == resp[r].conn  q == r2s[c]
             m == [id |-> resp[r].msg.id, survey |-> resp[r].msg.survey, from |-> r]
  <1>0. /\ resp[r].st = "handling" /\ c \in Conns /\ q \in Seq(Responses) /\ m \in Responses
        /\ resp' = [resp EXCEPT ![r].st = "recv", ![r].msg = NoMsg]
        /\ r2s' = [r2s EXCEPT ![c] = Append(q, m)]
        /\ UNCHANGED <<survvars, s2r>>
    <2>1. resp[r].st = "handling" /\ c \in Conns /\ q \in Seq(Responses)
      BY DEF Respond, TInv, TypeOK, ConnOK
    <2>2. resp[r].msg \in Surveys
      BY DEF TInv, TypeOK
    <2> QED BY <2>1, <2>2 DEF Respond, Surveys, Responses
  <1>1. /\ m.from = r /\ m.survey = resp[r].msg.survey /\ m.id = m.survey /\ m.survey <= nsurveys
        /\ Held(r) <=> m.survey = nsurveys
    BY <1>0 DEF Labelled, Held
  <1> HIDE DEF m
  <1>2. /\ Len(q) \in Nat /\ Len(Append(q, m)) = Len(q) + 1
        /\ \A a \in 1 .. Len(q) : Append(q, m)[a] = q[a]
        /\ Append(q, m)[Len(q) + 1] = m
        /\ \A a \in 1 .. Len(Append(q, m)) : a \in 1 .. Len(q) \/ a = Len(q) + 1
    BY <1>0, Put
  <1>3. /\ resp'[r].conn = resp[r].conn /\ resp'[r].msg = NoMsg /\ ~Held(r)'
        /\ \A s \in Respondents \ {r} : resp'[s] = resp[s]
        /\ r2s'[c] = Append(q, m) /\ \A d \in Conns \ {c} : r2s'[d] = r2s[d]
    BY <1>0 DEF TInv, TypeOK, Held
  <1>4. UNCHANGED <<next_id, current_id, nsurveys, responses, pc, respondents, idx>>
    BY <1>0 DEF survvars
  <1>5. \A s \in Respondents, a \in 1 .. Len(q) : Answers(s, c, a) <=> q[a].survey = nsurveys /\ q[a].from = s
    BY DEF Answers
  <1> HIDE DEF c, q
  <1>6. ASSUME NEW s \in Respondents, NEW d \in Conns, NEW a \in 1 .. Len(r2s'[d]), Answers(s, d, a)'
        PROVE  \/ a \in 1 .. Len(r2s[d]) /\ Answers(s, d, a)
               \/ s = r /\ d = c /\ a = Len(q) + 1 /\ Held(r)
    <2>0. r2s'[d][a].survey = nsurveys /\ r2s'[d][a].from = s
      BY <1>4, <1>6 DEF Answers
    <2>1. CASE d # c
      BY <1>3, <2>0, <2>1 DEF Answers
    <2>2. CASE d = c
      <3>1. CASE a \in 1 .. Len(q)
        BY <1>2, <1>3, <1>5, <2>0, <2>2, <3>1 DEF q
      <3>2. CASE a = Len(q) + 1
        BY <1>1, <1>2, <1>3, <2>0, <2>2, <3>2
      <3> QED BY <1>2, <1>3, <2>2, <3>1, <3>2
    <2> QED BY <2>1, <2>2
  <1>7. /\ \A s \in Respondents : Answered(s)' => Answered(s) \/ (s = r /\ Held(r))
        /\ \A s \in Respondents : Held(s)' => Held(s)
        /\ \A s \in Respondents : Collected(s)' <=> Collected(s)
        /\ \A d : Under(d)' <=> Under(d)
    <2>1. \A s \in Respondents : Answered(s)' => Answered(s) \/ (s = r /\ Held(r))
      BY <1>6 DEF Answered
    <2>2. \A s \in Respondents : Held(s)' => Held(s)
      BY <1>3, <1>4 DEF Held
    <2> QED BY <1>0, <1>4, <2>1, <2>2 DEF Collected, Under
  <1>8. Ids' /\ ResponsesCurrent'
    BY <1>4 DEF Ids, ResponsesCurrent
  <1>9. Labelled'
    <2>1. \A a \in 1 .. Len(r2s'[c]) :
             r2s'[c][a].id = r2s'[c][a].survey /\ r2s'[c][a].survey <= nsurveys
      BY <1>0, <1>1, <1>2, <1>3 DEF Labelled, q
    <2>2. \A d \in Conns \ {c} : \A a \in 1 .. Len(r2s'[d]) :
             r2s'[d][a].id = r2s'[d][a].survey /\ r2s'[d][a].survey <= nsurveys
      BY <1>3 DEF Labelled
    <2>3. NoMsg.id = NoMsg.survey /\ NoMsg.survey <= nsurveys
      BY SurveyAssumption DEF SurveyAssumption, NoMsg, TInv, TypeOK
    <2>4. \A s \in Respondents :
             resp'[s].msg.id = resp'[s].msg.survey /\ resp'[s].msg.survey <= nsurveys
      BY <1>3, <2>3 DEF Labelled
    <2>5. \A d \in Conns : \A a \in 1 .. Len(r2s'[d]) :
             r2s'[d][a].id = r2s'[d][a].survey /\ r2s'[d][a].survey <= nsurveys
      BY <2>1, <2>2
    <2>6. s2r' = s2r /\ nsurveys' = nsurveys
      BY <1>0, <1>4
    <2> QED BY <2>4, <2>5, <2>6 DEF Labelled
  <1>10. Once'
    <2>1. \A s \in Respondents : \A d, e \in Conns :
             \A a \in 1 .. Len(r2s'[d]), b \in 1 .. Len(r2s'[e]) :
                Answers(s, d, a)' /\ Answers(s, e, b)' => d = e /\ a = b
      <3> SUFFICES ASSUME NEW s \in Respondents, NEW d \in Conns, NEW e \in Conns,
                          NEW a \in 1 .. Len(r2s'[d]), NEW b \in 1 .. Len(r2s'[e]),
                          Answers(s, d, a)', Answers(s, e, b)'
                   PROVE  d = e /\ a = b
        OBVIOUS
      <3>1. CASE s = r /\ Held(r)
        <4>1. ~Answered(r)
          BY <3>1 DEF Once
        <4> QED BY <1>6, <3>1, <4>1 DEF Answered
      <3>2. CASE ~(s = r /\ Held(r))
        <4>1. a \in 1 .. Len(r2s[d]) /\ Answers(s, d, a) /\ b \in 1 .. Len(r2s[e]) /\ Answers(s, e, b)
          BY <1>6, <3>2
        <4> QED BY <4>1 DEF Once
      <3> QED BY <3>1, <3>2
    <2>2. \A s \in Respondents : resp'[s].conn = resp[s].conn
      BY <1>3
    <2>3. \A s \in Respondents : resp[s].conn # NoConn /\ Under(resp[s].conn)
                        => ~Held(s)' /\ ~Answered(s)' /\ ~Collected(s)'
      BY <1>7 DEF Once
    <2>4. \A s \in Respondents : /\ Held(s)' => ~Answered(s)' /\ ~Collected(s)'
                                 /\ Answered(s)' => ~Collected(s)'
      BY <1>3, <1>7 DEF Once
    <2>5. \A d \in Conns : \A a, b \in 1 .. Len(s2r'[d]) :
             s2r'[d][a].survey = nsurveys' /\ s2r'[d][b].survey = nsurveys' => a = b
      BY <1>0, <1>4 DEF Once
    <2> QED BY <1>0, <1>4, <2>1, <2>2, <2>3, <2>4, <2>5 DEF Once, Under
  <1>11. Ahead'
    <2>1. ASSUME pc = "send", NEW j \in idx .. Len(respondents)
          PROVE  \A s \in Respondents : resp'[s].conn = respondents[j]
                        => ~Held(s)' /\ ~Answered(s)' /\ ~Collected(s)'
      <3>1. \A s \in Respondents : resp'[s].conn = resp[s].conn
        BY <1>3
      <3>2. \A s \in Respondents : resp[s].conn = respondents[j]
                        => ~Held(s) /\ ~Answered(s) /\ ~Collected(s)
        BY <2>1 DEF Ahead
      <3> QED BY <1>7, <3>1, <3>2
    <2> QED BY <1>0, <1>4, <2>1 DEF Ahead, Under
  <1> QED BY <1>8, <1>9, <1>10, <1>11

\* The surveyor takes an answer off a connection.  It keeps it if the id is current, and
\* then it is the first answer of that respondent.
LEMMA CurrentPoll ==
    ASSUME TInv, Current, NEW c \in Conns, r2s[c] # <<>>,
           r2s' = [r2s EXCEPT ![c] = Tail(r2s[c])],
           responses' = IF Head(r2s[c]).id = current_id
                        THEN Append(responses, Head(r2s[c])) ELSE responses,
           pc # "send",
           UNCHANGED <<next_id, current_id, respondents, pc, nsurveys, s2r, resp>>
    PROVE  Current'
  <1> USE DEF Current
  <1> DEFINE q == r2s[c]  m == q[1]  r == m.from
  <1>0. q \in Seq(Responses) /\ responses \in Seq(Responses) /\ q # <<>>
    BY DEF TInv, TypeOK
  <1>1. /\ Len(q) \in Nat \ {0} /\ 1 \in 1 .. Len(q) /\ Head(q) = m /\ m \in Responses
        /\ \A a \in 1 .. Len(Tail(q)) : Tail(q)[a] = q[a + 1] /\ a + 1 \in 1 .. Len(q)
        /\ Len(Tail(q)) \in Nat
    BY <1>0, Taken
  <1>2. r2s'[c] = Tail(q) /\ \A d \in Conns \ {c} : r2s'[d] = r2s[d]
    BY DEF TInv, TypeOK
  <1>3. /\ r \in Respondents /\ (m.id = current_id <=> m.survey = nsurveys)
        /\ (m.survey = nsurveys => Answers(r, c, 1) /\ Answered(r))
    <2>1. m.id = m.survey /\ current_id = nsurveys
      BY <1>1 DEF Labelled, Ids
    <2>2. r \in Respondents
      BY <1>1 DEF Responses
    <2>3. m.survey = nsurveys => Answers(r, c, 1)
      BY DEF Answers
    <2> QED BY <1>1, <2>1, <2>2, <2>3 DEF Answered
  <1>4. responses' = IF m.survey = nsurveys THEN Append(responses, m) ELSE responses
    BY <1>1, <1>3
  <1>5. \A s \in Respondents : \A a \in 1 .. Len(Tail(q)) :
           Answers(s, c, a)' <=> Answers(s, c, a + 1)
    BY <1>1, <1>2 DEF Answers
  <1> HIDE DEF m, r
  <1>6. ASSUME NEW s \in Respondents, Answered(s)'
        PROVE  Answered(s) /\ ~(s = r /\ m.survey = nsurveys)
    <2>1. PICK d \in Conns : \E a \in 1 .. Len(r2s'[d]) : Answers(s, d, a)'
      BY <1>6 DEF Answered
    <2>2. PICK a \in 1 .. Len(r2s'[d]) : Answers(s, d, a)'
      BY <2>1
    <2>3. CASE d # c
      <3>1. a \in 1 .. Len(r2s[d]) /\ Answers(s, d, a)
        BY <1>2, <2>2, <2>3 DEF Answers
      <3>2. ~(s = r /\ m.survey = nsurveys)
        BY <1>1, <1>3, <2>3, <3>1 DEF Once
      <3> QED BY <3>1, <3>2 DEF Answered
    <2>4. CASE d = c
      <3>1. a \in 1 .. Len(Tail(q))
        BY <1>2, <2>4
      <3>2. a + 1 \in 1 .. Len(q) /\ Answers(s, c, a + 1) /\ a + 1 # 1
        BY <1>1, <1>5, <2>2, <2>4, <3>1
      <3>3. ~(s = r /\ m.survey = nsurveys)
        BY <1>1, <1>3, <3>2 DEF Once
      <3> QED BY <3>2, <3>3 DEF Answered
    <2> QED BY <2>3, <2>4
  <1>7. \A s \in Respondents : Held(s)' <=> Held(s)
    BY DEF Held
  <1>8. /\ Len(responses) \in Nat
        /\ \A a \in 1 .. Len(responses') :
              \/ a \in 1 .. Len(responses) /\ responses'[a] = responses[a]
              \/ a = Len(responses) + 1 /\ responses'[a] = m /\ m.survey = nsurveys
    <2>1. CASE m.survey = nsurveys
      BY <1>0, <1>1, <1>4, <2>1, Put
    <2>2. CASE m.survey # nsurveys
      BY <1>0, <1>4, <2>2
    <2> QED BY <2>1, <2>2
  <1>9. \A s \in Respondents : Collected(s)' => Collected(s) \/ (s = r /\ m.survey = nsurveys)
    BY <1>8 DEF Collected, r
  <1>10. Ids'
    BY DEF Ids
  <1>11. ResponsesCurrent'
    <2>1. \A a \in 1 .. Len(responses') : responses'[a].survey = nsurveys
      BY <1>8 DEF ResponsesCurrent
    <2>2. m.survey = nsurveys => \A a \in 1 .. Len(responses) : responses[a].from # m.from
      BY <1>3 DEF Once, Collected, r
    <2>3. \A a, b \in 1 .. Len(responses') : responses'[a].from = responses'[b].from => a = b
      BY <1>8, <2>2 DEF ResponsesCurrent
    <2> QED BY <2>1, <2>3 DEF ResponsesCurrent
  <1>12. Labelled'
    <2>1. \A a \in 1 .. Len(r2s'[c]) :
             r2s'[c][a].id = r2s'[c][a].survey /\ r2s'[c][a].survey <= nsurveys
      BY <1>1, <1>2 DEF Labelled
    <2>2. \A d \in Conns \ {c} : \A a \in 1 .. Len(r2s'[d]) :
             r2s'[d][a].id = r2s'[d][a].survey /\ r2s'[d][a].survey <= nsurveys
      BY <1>2 DEF Labelled
    <2> QED BY <2>1, <2>2 DEF Labelled
  <1>13. Once'
    <2>1. ASSUME NEW s \in Respondents, NEW d \in Conns, NEW a \in 1 .. Len(r2s'[d]), Answers(s, d, a)'
          PROVE  \E b \in 1 .. Len(r2s[d]) : Answers(s, d, b) /\ b = IF d = c THEN a + 1 ELSE a
      <3>1. CASE d = c
        BY <1>1, <1>2, <1>5, <2>1, <3>1
      <3>2. CASE d # c
        BY <1>2, <2>1, <3>2 DEF Answers
      <3> QED BY <3>1, <3>2
    <2>2. \A s \in Respondents : \A d, e \in Conns :
             \A a \in 1 .. Len(r2s'[d]), b \in 1 .. Len(r2s'[e]) :
                Answers(s, d, a)' /\ Answers(s, e, b)' => d = e /\ a = b
      <3> SUFFICES ASSUME NEW s \in Respondents, NEW d \in Conns, NEW e \in Conns,
                          NEW a \in 1 .. Len(r2s'[d]), NEW b \in 1 .. Len(r2s'[e]),
                          Answers(s, d, a)', Answers(s, e, b)'
                   PROVE  d = e /\ a = b
        OBVIOUS
      <3>1. PICK x \in 1 .. Len(r2s[d]) : Answers(s, d, x) /\ x = IF d = c THEN a + 1 ELSE a
        BY <2>1
      <3>2. PICK y \in 1 .. Len(r2s[e]) : Answers(s, e, y) /\ y = IF e = c THEN b + 1 ELSE b
        BY <2>1
      <3>3. d = e /\ x = y
        BY <3>1, <3>2 DEF Once
      <3> QED BY <3>1, <3>2, <3>3
    <2>3. \A s \in Respondents : resp[s].conn # NoConn /\ Under(resp[s].conn)
                        => ~Held(s)' /\ ~Answered(s)' /\ ~Collected(s)'
      BY <1>3, <1>6, <1>7, <1>9 DEF Once
    <2>4. \A s \in Respondents : /\ Held(s)' => ~Answered(s)' /\ ~Collected(s)'
                                 /\ Answered(s)' => ~Collected(s)'
      BY <1>3, <1>6, <1>7, <1>9 DEF Once
    <2>5. \A d \in Conns : \A a, b \in 1 .. Len(s2r'[d]) :
             s2r'[d][a].survey = nsurveys' /\ s2r'[d][b].survey = nsurveys' => a = b
      BY DEF Once
    <2> QED BY <2>2, <2>3, <2>4, <2>5 DEF Once, Under
  <1>14. Ahead'
    BY DEF Ahead
  <1> QED BY <1>10, <1>11, <1>12, <1>13, <1>14

\* A connection breaks: what it still delivers is a prefix of what it carried.
LEMMA CurrentBreak ==
    ASSUME TInv, Current, NEW c \in Conns, Break(c)
    PROVE  Current'
  <1> USE DEF Current
  <1>0. s2r[c] \in Seq(Surveys) /\ r2s[c] \in Seq(Responses)
    BY DEF TInv, TypeOK
  <1>1. UNCHANGED <<next_id, current_id, nsurveys, responses, pc, respondents, idx, resp>>
    BY DEF Break, survvars
  <1>2. \A d \in Conns : \A a \in 1 .. Len(s2r'[d]) : a \in 1 .. Len(s2r[d]) /\ s2r'[d][a] = s2r[d][a]
    <2>1. PICK n \in 0 .. Len(s2r[c]) : s2r' = [s2r EXCEPT ![c] = SubSeq(@, 1, n)]
      BY DEF Break
    <2>2. s2r'[c] = SubSeq(s2r[c], 1, n) /\ \A d \in Conns \ {c} : s2r'[d] = s2r[d]
      BY <2>1 DEF TInv, TypeOK
    <2>3. \A a \in 1 .. Len(s2r'[c]) : a \in 1 .. Len(s2r[c]) /\ s2r'[c][a] = s2r[c][a]
      BY <1>0, <2>2, Cut
    <2> QED BY <2>2, <2>3
  <1>3. \A d \in Conns : \A a \in 1 .. Len(r2s'[d]) : a \in 1 .. Len(r2s[d]) /\ r2s'[d][a] = r2s[d][a]
    <2>1. PICK n \in 0 .. Len(r2s[c]) : r2s' = [r2s EXCEPT ![c] = SubSeq(@, 1, n)]
      BY DEF Break
    <2>2. r2s'[c] = SubSeq(r2s[c], 1, n) /\ \A d \in Conns \ {c} : r2s'[d] = r2s[d]
      BY <2>1 DEF TInv, TypeOK
    <2>3. \A a \in 1 .. Len(r2s'[c]) : a \in 1 .. Len(r2s[c]) /\ r2s'[c][a] = r2s[c][a]
      BY <1>0, <2>2, Cut
    <2> QED BY <2>2, <2>3
  <1>4. /\ \A d \in Conns : Under(d)' => Under(d)
        /\ \A s \in Respondents : Held(s)' <=> Held(s)
        /\ \A s \in Respondents : Collected(s)' <=> Collected(s)
        /\ \A s \in Respondents, d \in Conns : \A a \in 1 .. Len(r2s'[d]) :
              Answers(s, d, a)' => Answers(s, d, a)
    BY <1>1, <1>2, <1>3 DEF Under, Held, Collected, Answers
  <1>5. \A s \in Respondents : Answered(s)' => Answered(s)
    BY <1>3, <1>4 DEF Answered
  <1>6. Ids' /\ ResponsesCurrent'
    BY <1>1 DEF Ids, ResponsesCurrent
  <1>7. Labelled'
    BY <1>1, <1>2, <1>3 DEF Labelled
  <1>8. Once'
    <2>1. \A d \in Conns : \A a, b \in 1 .. Len(s2r'[d]) :
             s2r'[d][a].survey = nsurveys' /\ s2r'[d][b].survey = nsurveys' => a = b
      BY <1>1, <1>2 DEF Once
    <2>2. \A s \in Respondents : \A d, e \in Conns :
             \A a \in 1 .. Len(r2s'[d]), b \in 1 .. Len(r2s'[e]) :
                Answers(s, d, a)' /\ Answers(s, e, b)' => d = e /\ a = b
      BY <1>3, <1>4 DEF Once
    <2>3. ASSUME NEW s \in Respondents, resp[s].conn # NoConn, Under(resp[s].conn)'
          PROVE  ~Held(s)' /\ ~Answered(s)' /\ ~Collected(s)'
      <3>1. resp[s].conn \in Conns
        BY <2>3 DEF TInv, TypeOK
      <3>2. Under(resp[s].conn)
        BY <1>1, <1>2, <2>3, <3>1 DEF Under
      <3> QED BY <1>4, <1>5, <2>3, <3>2 DEF Once
    <2>4. \A s \in Respondents : /\ Held(s)' => ~Answered(s)' /\ ~Collected(s)'
                                 /\ Answered(s)' => ~Collected(s)'
      BY <1>4, <1>5 DEF Once
    <2> QED BY <1>1, <2>1, <2>2, <2>3, <2>4 DEF Once
  <1>9. Ahead'
    <2>1. respondents \in Seq(Conns) /\ idx \in Nat \ {0} /\ Len(respondents) \in Nat
      BY DEF TInv, TypeOK
    <2>2. ASSUME pc = "send", NEW j \in idx .. Len(respondents)
          PROVE  /\ ~Under(respondents[j])'
                 /\ \A s \in Respondents : resp[s].conn = respondents[j]
                        => ~Held(s)' /\ ~Answered(s)' /\ ~Collected(s)'
      <3>1. j \in 1 .. Len(respondents)
        BY <2>1
      <3>2. respondents[j] \in Conns /\ ~Under(respondents[j])
        BY <2>1, <2>2, <3>1 DEF Ahead
      <3>3. ~Under(respondents[j])'
        BY <1>1, <1>2, <3>2 DEF Under
      <3> QED BY <1>4, <1>5, <2>2, <3>3 DEF Ahead
    <2> QED BY <1>1, <2>2 DEF Ahead
  <1> QED BY <1>6, <1>7, <1>8, <1>9

\* As long as the ids have not come round, every step keeps the running survey in one place.
LEMMA CurrentStep ==
    ASSUME MaxSurveys <= IdMax, TInv, Current, [Next]_vars
    PROVE  Current'
  <1>0. /\ respondents \in Seq(Conns) /\ pending \in Seq(DOMAIN respondents) /\ idx \in Nat \ {0}
        /\ backlog \in Seq(Conns)
        /\ resp \in [Respondents -> [st : {"dialling", "connecting", "recv", "handling", "off"},
                                     conn : Conns \cup {NoConn}, msg : Surveys]]
    BY DEF TInv, TypeOK
  <1>1. CASE Accept \/ AcceptErr
    <2>1. /\ UNCHANGED <<next_id, current_id, nsurveys, responses, s2r, r2s, pc>> /\ pc = "idle"
      BY <1>1 DEF Accept, AcceptErr
    <2>2. \A r \in Respondents : /\ resp'[r].conn = resp[r].conn /\ resp'[r].msg = resp[r].msg
                                 /\ resp'[r].st \in {resp[r].st, "recv"}
      <3>1. CASE AcceptErr
        BY <3>1 DEF AcceptErr
      <3>2. CASE Accept
        <4>1. resp' = [r \in Respondents |-> IF resp[r].conn = Head(backlog)
                                             THEN [resp[r] EXCEPT !.st = "recv"] ELSE resp[r]]
          BY <3>2 DEF Accept
        <4> QED BY <1>0, <4>1
      <3> QED BY <1>1, <3>1, <3>2
    <2>3. \A r \in Respondents : Held(r)' => Held(r)
      BY <2>1, <2>2 DEF Held
    <2> QED BY <2>1, <2>2, <2>3, CurrentQuiet
  <1>2. CASE SendDone \/ PollNothing \/ EndRound \/ Yield \/ Deadline \/ CancelSurvey \/ UNCHANGED vars
    <2>1. /\ UNCHANGED <<next_id, current_id, nsurveys, responses, s2r, r2s, resp, respondents>>
          /\ pc' = "send" => pc = "send" /\ UNCHANGED idx
      BY <1>2 DEF SendDone, StartRound, PollNothing, EndRound, Yield, Deadline, CancelSurvey,
                  vars, survvars, connvars
    <2>2. \A r \in Respondents : Held(r)' <=> Held(r)
      BY <2>1 DEF Held
    <2> QED BY <2>1, <2>2, CurrentQuiet
  <1>3. CASE PollResponse
    <2>1. Polled \in Conns
      <3>1. idx \in 1 .. Len(pending)
        BY <1>0, <1>3 DEF PollResponse
      <3>2. pending[idx] \in DOMAIN respondents
        BY <1>0, <3>1
      <3> QED BY <1>0, <3>2 DEF Polled
    <2> QED BY <1>3, <2>1, CurrentPoll DEF PollResponse
  <1>4. ASSUME NEW r \in Respondents, DialErr(r) \/ ReceiveErr(r) \/ Skip(r) PROVE Current'
    <2>1. UNCHANGED <<survvars, connvars>>
      BY <1>4 DEF DialErr, ReceiveErr, Skip
    <2>2. /\ \A s \in Respondents \ {r} : resp'[s] = resp[s]
          /\ resp'[r].conn \in {resp[r].conn, NoConn} /\ resp'[r].msg \in {resp[r].msg, NoMsg}
          /\ resp'[r].st # "handling"
      BY <1>0, <1>4 DEF DialErr, ReceiveErr, Skip
    <2>3. \A s \in Respondents : Held(s)' => Held(s)
      BY <2>1, <2>2 DEF Held, survvars
    <2> QED BY <2>1, <2>2, <2>3, CurrentQuiet DEF survvars, connvars
  <1> QED
    BY <1>1, <1>2, <1>3, <1>4, CurrentStart, CurrentSend, CurrentDial, CurrentReceive,
       CurrentRespond, CurrentBreak DEF Next, Survey

------------------------------------------------------------------------------

\* The state of the surveyor, the connections and the respondents is well typed: the
\* indices kept in pending and still always are positions in the list of respondents.
THEOREM SurveyTypes == Spec => []TypeOK
  <1>1. TInv => TypeOK
    BY DEF TInv
  <1> QED BY <1>1, TInvInit, TInvStep, PTL DEF Spec

\* survey_with_timeout returns only answers to the survey it sent and at most one per
\* respondent, however many respondents break, redial, answer late or are listed twice,
\* as long as no more surveys are made than there are survey ids (2^32 - 1).
THEOREM SurveyAnswersAreCurrent ==
    ASSUME MaxSurveys <= IdMax
    PROVE  Spec => []ResponsesCurrent
  <1> DEFINE Both == TInv /\ Current
  <1>1. Init => Both
    BY TInvInit, CurrentInit
  <1>2. Both /\ [Next]_vars => Both'
    BY TInvStep, CurrentStep
  <1>3. Both => ResponsesCurrent
    BY DEF Current
  <1> QED BY <1>1, <1>2, <1>3, PTL DEF Spec
=============================================================================
