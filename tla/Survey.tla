------------------------------- MODULE Survey -------------------------------
(***************************************************************************)
(* A SURVEYOR0 socket and its RESPONDENT0 peers: survey_with_timeout with  *)
(* its sequential sends, its polling rounds and its deadline; late answers *)
(* that arrive during the next survey; connections that break, redials     *)
(* that have to be accepted again.                                         *)
(*                                                                         *)
(* Every connection has a number, given when it is dialled, and two        *)
(* message queues (SPChannel).  A survey carries the number of the survey  *)
(* call, and a response carries that number and the respondent it is from. *)
(***************************************************************************)
EXTENDS Integers, Sequences

CONSTANTS
    Respondents, \* the respondent processes
    IdMax,       \* largest survey id (2^32 - 1 in the code)
    MaxSurveys,  \* bound: number of survey() calls
    MaxConns,    \* bound: number of connections ever dialled
    Cap,         \* bound: messages a stream buffers
    MaxBreaks,   \* bound: number of connections that break
    Reconnect    \* respondents were dialled with ReconnectOptions

ASSUME SurveyAssumption ==
    /\ IdMax \in Nat \ {0} /\ MaxSurveys \in Nat /\ MaxConns \in Nat
    /\ Cap \in Nat \ {0} /\ MaxBreaks \in Nat /\ Reconnect \in BOOLEAN

Conns  == 1 .. MaxConns
NoConn == 0
NoMsg  == [id |-> 0, survey |-> 0]

VARIABLES
    \* Surveyor0
    next_id, current_id,
    respondents, \* accepted connections, in order; never removed
    pc,          \* "idle", "send", "poll" or "yield"
    idx,         \* position in the loop of pc
    pending,     \* indices into respondents still waited for
    still,       \* still_pending of the round
    responses,   \* responses of the running or last survey
    late,        \* its deadline has passed
    nsurveys,    \* surveys started
    asked,       \* connections the survey was sent on
    \* connections
    nconns, up, s2r, r2s,
    backlog,     \* dialled, not accepted yet
    breaks,
    \* respondents
    resp         \* [st, conn, msg]

survvars == <<next_id, current_id, respondents, pc, idx, pending, still, responses,
              late, nsurveys, asked>>
connvars == <<nconns, up, s2r, r2s, backlog, breaks>>
vars == <<survvars, connvars, resp>>

\* Mutant: the id counter does not wrap.
SuccNoWrap(id) == id + 1

\* wrapping_add(1).max(1)
Succ(id) == IF id = IdMax THEN 1 ELSE id + 1

Init ==
    /\ next_id = 1 /\ current_id = 0 /\ respondents = <<>>
    /\ pc = "idle" /\ idx = 1 /\ pending = <<>> /\ still = <<>>
    /\ responses = <<>> /\ late = FALSE /\ nsurveys = 0 /\ asked = {}
    /\ nconns = 0 /\ up = [c \in Conns |-> FALSE] /\ backlog = <<>> /\ breaks = 0
    /\ s2r = [c \in Conns |-> <<>>] /\ r2s = [c \in Conns |-> <<>>]
    /\ resp = [r \in Respondents |-> [st |-> "dialling", conn |-> NoConn, msg |-> NoMsg]]

------------------------------------------------------------------------------
(* Surveyor0 *)

\* accept_as_transport in wait_for_respondents, accept_pending and
\* AcceptStream::accept: the oldest waiting connection completes its handshake.
Accept ==
    /\ pc = "idle" /\ backlog # <<>> /\ up[Head(backlog)]
    /\ backlog' = Tail(backlog)
    /\ respondents' = Append(respondents, Head(backlog))
    /\ resp' = [r \in Respondents |-> IF resp[r].conn = Head(backlog)
                                      THEN [resp[r] EXCEPT !.st = "recv"] ELSE resp[r]]
    /\ UNCHANGED <<next_id, current_id, pc, idx, pending, still, responses, late,
                   nsurveys, asked, nconns, up, s2r, r2s, breaks>>

\* ... or is already gone: an error the surveyor ignores, unless the handshake
\* of the respondent was left behind and makes a respondent of it.
AcceptErr ==
    /\ pc = "idle" /\ backlog # <<>> /\ ~up[Head(backlog)]
    /\ backlog' = Tail(backlog)
    /\ respondents' \in {respondents, Append(respondents, Head(backlog))}
    /\ UNCHANGED <<next_id, current_id, pc, idx, pending, still, responses, late,
                   nsurveys, asked, nconns, up, s2r, r2s, breaks, resp>>

\* survey_with_timeout is called: prepare_survey, and the deadline is set.
SurveyStart ==
    /\ pc = "idle" /\ nsurveys < MaxSurveys
    /\ nsurveys' = nsurveys + 1
    /\ current_id' = next_id /\ next_id' = Succ(next_id)
    /\ pc' = "send" /\ idx' = 1 /\ pending' = <<>> /\ still' = <<>>
    /\ responses' = <<>> /\ late' = FALSE /\ asked' = {}
    /\ UNCHANGED <<respondents, connvars, resp>>

\* Mutant: the error of a send to a dead connection is not looked at.
SendNextWaits ==
    LET c == respondents[idx] IN
    /\ pc = "send" /\ idx <= Len(respondents) /\ up[c] /\ Len(s2r[c]) < Cap
    /\ s2r' = [s2r EXCEPT ![c] = Append(@, [id |-> current_id, survey |-> nsurveys])]
    /\ pending' = Append(pending, idx) /\ asked' = asked \cup {c}
    /\ idx' = idx + 1
    /\ UNCHANGED <<next_id, current_id, respondents, pc, still, responses, late,
                   nsurveys, nconns, up, r2s, backlog, breaks, resp>>

\* The send loop: respondent idx gets the survey, or its send fails.  The send
\* waits for room in the stream whatever the deadline.
SendNext ==
    LET c == respondents[idx] IN
    /\ pc = "send" /\ idx <= Len(respondents)
    /\ \/ /\ up[c] /\ Len(s2r[c]) < Cap
          /\ s2r' = [s2r EXCEPT ![c] = Append(@, [id |-> current_id, survey |-> nsurveys])]
          /\ pending' = Append(pending, idx) /\ asked' = asked \cup {c}
       \/ /\ ~up[c]   \* a write to a dead connection may be accepted nevertheless
          /\ pending' \in {pending, Append(pending, idx)}
          /\ UNCHANGED <<s2r, asked>>
    /\ idx' = idx + 1
    /\ UNCHANGED <<next_id, current_id, respondents, pc, still, responses, late,
                   nsurveys, nconns, up, r2s, backlog, breaks, resp>>

\* The for loop over pending starts, if there is anything to wait for.
StartRound == IF pending = <<>> THEN pc' = "idle" ELSE pc' = "poll"

SendDone ==
    /\ pc = "send" /\ idx > Len(respondents)
    /\ StartRound /\ idx' = 1 /\ still' = <<>>
    /\ UNCHANGED <<next_id, current_id, respondents, pending, responses, late,
                   nsurveys, asked, connvars, resp>>

\* The connection polled at position idx of the round.
Polled == respondents[pending[idx]]

\* Mutant: the id of a response is not compared with current_id.
PollUnchecked ==
    /\ pc = "poll" /\ idx <= Len(pending) /\ r2s[Polled] # <<>>
    /\ r2s' = [r2s EXCEPT ![Polled] = Tail(@)]
    /\ responses' = Append(responses, Head(r2s[Polled]))
    /\ idx' = idx + 1
    /\ UNCHANGED <<next_id, current_id, respondents, pc, pending, still, late,
                   nsurveys, asked, nconns, up, s2r, backlog, breaks, resp>>

\* A response is ready: kept if it answers this survey.  Either way the
\* respondent is not polled again.
PollResponse ==
    /\ pc = "poll" /\ idx <= Len(pending) /\ r2s[Polled] # <<>>
    /\ r2s' = [r2s EXCEPT ![Polled] = Tail(@)]
    /\ responses' = IF Head(r2s[Polled]).id = current_id
                    THEN Append(responses, Head(r2s[Polled])) ELSE responses
    /\ idx' = idx + 1
    /\ UNCHANGED <<next_id, current_id, respondents, pc, pending, still, late,
                   nsurveys, asked, nconns, up, s2r, backlog, breaks, resp>>

\* The connection has failed, or nothing is there yet.
PollNothing ==
    /\ pc = "poll" /\ idx <= Len(pending) /\ r2s[Polled] = <<>>
    /\ still' = IF up[Polled] THEN Append(still, pending[idx]) ELSE still
    /\ idx' = idx + 1
    /\ UNCHANGED <<next_id, current_id, respondents, pc, pending, responses, late,
                   nsurveys, asked, connvars, resp>>

\* The round is over: return if nobody is left, else look at the deadline.
EndRound ==
    /\ pc = "poll" /\ idx > Len(pending)
    /\ pending' = still
    /\ pc' = IF still = <<>> THEN "idle" ELSE "yield"
    /\ UNCHANGED <<next_id, current_id, respondents, idx, still, responses, late,
                   nsurveys, asked, connvars, resp>>

\* Mutant: a round that found nothing new is not followed by a look at the clock.
YieldForever ==
    /\ pc = "yield"
    /\ pc' = "poll" /\ idx' = 1 /\ still' = <<>>
    /\ UNCHANGED <<next_id, current_id, respondents, pending, responses, late,
                   nsurveys, asked, connvars, resp>>

\* Past the deadline survey_with_timeout returns what it has, before it, it polls again.
Yield ==
    /\ pc = "yield"
    /\ IF late THEN pc' = "idle" /\ UNCHANGED <<idx, still>>
               ELSE pc' = "poll" /\ idx' = 1 /\ still' = <<>>
    /\ UNCHANGED <<next_id, current_id, respondents, pending, responses, late,
                   nsurveys, asked, connvars, resp>>

Deadline ==
    /\ pc # "idle" /\ ~late
    /\ late' = TRUE
    /\ UNCHANGED <<next_id, current_id, respondents, pc, idx, pending, still,
                   responses, nsurveys, asked, connvars, resp>>

\* The survey future is dropped.  (What a frame cut off halfway does to its
\* connection is FramedTransport's subject.)
CancelSurvey ==
    /\ pc # "idle" /\ pc' = "idle" /\ asked' = {}
    /\ UNCHANGED <<next_id, current_id, respondents, idx, pending, still, responses, late,
                   nsurveys, connvars, resp>>

------------------------------------------------------------------------------
(* Respondent0 *)

\* connect_transport: the connection waits to be accepted.
Dial(r) ==
    /\ resp[r].st = "dialling" /\ nconns < MaxConns
    /\ nconns' = nconns + 1
    /\ up' = [up EXCEPT ![nconns + 1] = TRUE]
    /\ backlog' = Append(backlog, nconns + 1)
    /\ resp' = [resp EXCEPT ![r] = [st |-> "connecting", conn |-> nconns + 1, msg |-> NoMsg]]
    /\ UNCHANGED <<survvars, s2r, r2s, breaks>>

DialErr(r) ==
    /\ resp[r].st = "connecting" /\ ~up[resp[r].conn]
    /\ resp' = [resp EXCEPT ![r].st = "dialling", ![r].conn = NoConn]
    /\ UNCHANGED <<survvars, connvars>>

\* Respondent0::receive.
Receive(r) ==
    LET c == resp[r].conn IN
    /\ resp[r].st = "recv" /\ s2r[c] # <<>>
    /\ resp' = [resp EXCEPT ![r].st = "handling", ![r].msg = Head(s2r[c])]
    /\ s2r' = [s2r EXCEPT ![c] = Tail(@)]
    /\ UNCHANGED <<survvars, nconns, up, r2s, backlog, breaks>>

\* ... fails: redial, or give up.
ReceiveErr(r) ==
    LET c == resp[r].conn IN
    /\ resp[r].st = "recv" /\ s2r[c] = <<>> /\ ~up[c]
    /\ resp' = [resp EXCEPT ![r].st = IF Reconnect THEN "dialling" ELSE "off",
                            ![r].conn = NoConn]
    /\ UNCHANGED <<survvars, connvars>>

\* SurveyHandle::respond echoes the survey id.
Respond(r) ==
    LET c == resp[r].conn IN
    /\ resp[r].st = "handling" /\ up[c] /\ Len(r2s[c]) < Cap
    /\ r2s' = [r2s EXCEPT ![c] = Append(@, [id |-> resp[r].msg.id,
                                            survey |-> resp[r].msg.survey, from |-> r])]
    /\ resp' = [resp EXCEPT ![r].st = "recv", ![r].msg = NoMsg]
    /\ UNCHANGED <<survvars, nconns, up, s2r, backlog, breaks>>

\* The handle is dropped, or the send fails.
Skip(r) ==
    /\ resp[r].st = "handling"
    /\ resp' = [resp EXCEPT ![r].st = "recv", ![r].msg = NoMsg]
    /\ UNCHANGED <<survvars, connvars>>

------------------------------------------------------------------------------
\* A connection breaks; of the messages under way only prefixes arrive.
Break(c) ==
    /\ breaks < MaxBreaks /\ up[c]
    /\ breaks' = breaks + 1
    /\ up' = [up EXCEPT ![c] = FALSE]
    /\ \E n \in 0 .. Len(s2r[c]) : s2r' = [s2r EXCEPT ![c] = SubSeq(@, 1, n)]
    /\ \E n \in 0 .. Len(r2s[c]) : r2s' = [r2s EXCEPT ![c] = SubSeq(@, 1, n)]
    /\ UNCHANGED <<survvars, nconns, backlog, resp>>

Survey == SendNext \/ SendDone \/ PollResponse \/ PollNothing \/ EndRound \/ Yield

Next ==
    \/ Accept \/ AcceptErr \/ SurveyStart \/ Survey \/ Deadline
    \/ CancelSurvey
    \/ \E r \in Respondents : \/ Dial(r) \/ DialErr(r)
                              \/ Receive(r) \/ ReceiveErr(r)
                              \/ Respond(r) \/ Skip(r)
    \/ \E c \in Conns : Break(c)

Spec == Init /\ [][Next]_vars

\* The surveyor's task runs, and the clock reaches the deadline.
FairSpec == Spec /\ WF_vars(Survey) /\ WF_vars(Deadline)

------------------------------------------------------------------------------
(* Properties *)

Surveys   == [id : 0 .. IdMax, survey : 0 .. MaxSurveys]
Responses == [id : 0 .. IdMax, survey : 0 .. MaxSurveys, from : Respondents]

TypeOK ==
    /\ next_id \in 1 .. IdMax /\ current_id \in 0 .. IdMax
    /\ respondents \in Seq(Conns)
    /\ pc \in {"idle", "send", "poll", "yield"} /\ idx \in Nat \ {0}
    /\ pending \in Seq(DOMAIN respondents) /\ still \in Seq(DOMAIN respondents)
    /\ responses \in Seq(Responses)
    /\ late \in BOOLEAN /\ nsurveys \in 0 .. MaxSurveys /\ asked \in SUBSET Conns
    /\ nconns \in 0 .. MaxConns /\ up \in [Conns -> BOOLEAN]
    /\ s2r \in [Conns -> Seq(Surveys)] /\ r2s \in [Conns -> Seq(Responses)]
    /\ backlog \in Seq(Conns) /\ breaks \in 0 .. MaxBreaks
    /\ resp \in [Respondents ->
                    [st : {"dialling", "connecting", "recv", "handling", "off"},
                     conn : Conns \cup {NoConn}, msg : Surveys]]

\* A survey returns only answers to itself, and at most one from each respondent,
\* although answers to earlier surveys arrive during it and a respondent that
\* redialled is in the list twice.
ResponsesCurrent ==
    /\ \A i \in 1 .. Len(responses) : responses[i].survey = nsurveys
    /\ \A i, j \in 1 .. Len(responses) :
            responses[i].from = responses[j].from => i = j

\* A survey that returns before its deadline has waited for every respondent it
\* asked: each was heard, or lost its connection.
\* survey0.rs:135: "collect all responses arriving within `self.survey_time`".
EarlyReturnComplete ==
    pc = "idle" /\ ~late =>
        \A c \in asked : \/ ~up[c]
                         \/ \E i \in 1 .. Len(responses), r \in Respondents :
                                responses[i].from = r /\ resp[r].conn = c

\* The survey is in its send loop, at a respondent that is connected and whose
\* stream has no room: it has not read what it was sent.
HeldUp ==
    /\ pc = "send" /\ idx <= Len(respondents)
    /\ up[respondents[idx]] /\ Len(s2r[respondents[idx]]) >= Cap

\* Every survey call returns, whether anybody answers, breaks or joins, except
\* that one respondent that stays connected and never reads holds it up for
\* ever: the deadline does not cover the send loop (survey0.rs:154-159).
\* Nothing is assumed of the respondents.
SurveyReturns == (pc # "idle") ~> (pc = "idle" \/ []HeldUp)
==============================================================================
