-------------------------------- MODULE Sub0 --------------------------------
(***************************************************************************)
(* A SUB0 socket (socket/pubsub0.rs) with its subscription filter          *)
(* (protocols/pubsub.rs) and the redialling loop it shares with every      *)
(* socket that has ReconnectOptions (reconnect_transport in socket.rs).    *)
(* The filter looks up an ordered set of prefixes, so bodies and prefixes  *)
(* are byte sequences and their order is the one of Vec<u8>.               *)
(***************************************************************************)
EXTENDS Integers, Sequences, SequencesExt

CONSTANTS
    Byte,    \* the byte values in use
    MaxLen,  \* bound: bytes of a body or prefix
    Cap,     \* bound: messages the connection buffers
    Options  \* the ReconnectOptions in use

\* max_attempts is {} for None and {n} for Some(n).
ASSUME Sub0Assumption ==
    /\ Byte \subseteq Nat /\ MaxLen \in Nat /\ Cap \in Nat \ {0}
    /\ \A o \in Options : /\ o.min_backoff \in Nat /\ o.max_backoff \in Nat
                          /\ o.max_attempts \in SUBSET Nat

Bodies == SeqOf(Byte, MaxLen)

VARIABLES
    reconnect,     \* the socket's ReconnectOptions: {} for None, {o} for Some(o)
    subscriptions, \* Sub0State
    next_pc,  \* next(): "idle", "recv", or in reconnect_transport: "sleep", "dial",
              \* "hello" (connected, the publisher's handshake is awaited)
    attempts, \* failed attempts of the running reconnect_transport
    backoff,  \* its delay
    result,   \* of the last next(): "none", "Ok", "Closed" or "ReconnectExhausted"
    link,     \* the connection: "up", "down", or "dialled": the publisher has not
              \* written its handshake yet
    server,   \* the publisher is listening
    stream    \* messages under way

sockvars == <<reconnect, subscriptions, next_pc, attempts, backoff, result>>
subvars == <<sockvars, link, server, stream>>

SubInit ==
    /\ reconnect \in {{}} \cup {{o} : o \in Options}
    /\ subscriptions = {} /\ next_pc = "idle" /\ attempts = 0 /\ backoff = 0
    /\ result = "none" /\ link = "up" /\ server = TRUE /\ stream = <<>>

------------------------------------------------------------------------------
(* Sub0State *)

\* Ord of byte slices: the first difference decides, else the length.
Common(a, b) == 1 .. (IF Len(a) < Len(b) THEN Len(a) ELSE Len(b))
SliceLeq(a, b) ==
    \/ \E k \in Common(a, b) : a[k] < b[k] /\ \A j \in 1 .. k - 1 : a[j] = b[j]
    \/ Len(a) <= Len(b) /\ \A k \in Common(a, b) : a[k] = b[k]

\* Mutant: the range excludes its end.
matches_exclusive(subs, body) ==
    \E p \in {q \in subs : SliceLeq(q, body) /\ q # body} : IsPrefix(p, body)

\* range(..=body).any(|prefix| body.starts_with(prefix))
matches(subs, body) == \E p \in {q \in subs : SliceLeq(q, body)} : IsPrefix(p, body)

------------------------------------------------------------------------------
(* Sub0 *)

subscribe_to(p) ==
    /\ next_pc = "idle"
    /\ subscriptions' = subscriptions \cup {p}
    /\ UNCHANGED <<reconnect, next_pc, attempts, backoff, result, link, server, stream>>

unsubscribe_from(p) ==
    /\ next_pc = "idle"
    /\ subscriptions' = subscriptions \ {p}
    /\ UNCHANGED <<reconnect, next_pc, attempts, backoff, result, link, server, stream>>

\* next() is called.
NextCall ==
    /\ next_pc = "idle" /\ next_pc' = "recv" /\ result' = "none"
    /\ UNCHANGED <<reconnect, subscriptions, attempts, backoff, link, server, stream>>

\* Mutant: a message that does not match ends the call.
NextMsgStops ==
    /\ next_pc = "recv" /\ stream # <<>>
    /\ stream' = Tail(stream)
    /\ next_pc' = "idle" /\ result' = "Ok"
    /\ UNCHANGED <<reconnect, subscriptions, attempts, backoff, link, server>>

\* A message arrives: returned if it matches, else next() goes on.
NextMsg ==
    /\ next_pc = "recv" /\ stream # <<>>
    /\ stream' = Tail(stream)
    /\ IF matches(subscriptions, Head(stream))
       THEN next_pc' = "idle" /\ result' = "Ok"
       ELSE UNCHANGED <<next_pc, result>>
    /\ UNCHANGED <<reconnect, subscriptions, attempts, backoff, link, server>>

\* Mutant: without ReconnectOptions it redials nevertheless.
NextErrRedials ==
    /\ next_pc = "recv" /\ stream = <<>> /\ link = "down"
    /\ next_pc' = "sleep" /\ attempts' = 0
    /\ backoff' \in IF reconnect = {} THEN {0} ELSE {o.min_backoff : o \in reconnect}
    /\ UNCHANGED <<reconnect, subscriptions, result, link, server, stream>>

\* The connection fails: return the error, or redial.
NextErr ==
    /\ next_pc = "recv" /\ stream = <<>> /\ link = "down"
    /\ \/ /\ reconnect = {} /\ next_pc' = "idle" /\ result' = "Closed"
          /\ UNCHANGED <<attempts, backoff>>
       \/ \E o \in reconnect : /\ next_pc' = "sleep" /\ attempts' = 0
                               /\ backoff' = o.min_backoff /\ UNCHANGED result
    /\ UNCHANGED <<reconnect, subscriptions, link, server, stream>>

\* reconnect_transport: sleep(backoff) is over.
SleepOver ==
    /\ next_pc = "sleep" /\ next_pc' = "dial"
    /\ UNCHANGED <<reconnect, subscriptions, attempts, backoff, result, link, server, stream>>

\* connect_transport has a connection and waits, without a timeout, for the
\* publisher's handshake.
Dialled ==
    /\ next_pc = "dial" /\ server
    /\ next_pc' = "hello" /\ link' = "dialled"
    /\ UNCHANGED <<reconnect, subscriptions, attempts, backoff, result, server, stream>>

\* It succeeds: next() receives from the new transport.  (A publisher that breaks
\* off after it has written its handshake does so behind this step.)
DialOk ==
    /\ next_pc = "hello" /\ link = "up" /\ next_pc' = "recv"
    /\ UNCHANGED <<reconnect, subscriptions, attempts, backoff, result, link, server, stream>>

\* The next delay.
Doubled(o) == IF 2 * backoff < o.max_backoff THEN 2 * backoff ELSE o.max_backoff

\* Mutant: the limit is looked at before the attempt is counted.
DialErrLate ==
    /\ next_pc = "dial" \/ (next_pc = "hello" /\ link # "dialled")
    /\ link' = "down" /\ stream' = <<>>
    /\ attempts' = attempts + 1
    /\ \E o \in reconnect :
          IF \E max \in o.max_attempts : attempts >= max
          THEN next_pc' = "idle" /\ result' = "ReconnectExhausted" /\ UNCHANGED backoff
          ELSE next_pc' = "sleep" /\ backoff' = Doubled(o) /\ UNCHANGED result
    /\ UNCHANGED <<reconnect, subscriptions, server>>

\* Mutant: failed attempts are not counted.
DialErrUncounted ==
    /\ next_pc = "dial" \/ (next_pc = "hello" /\ link # "dialled")
    /\ link' = "down" /\ stream' = <<>>
    /\ \E o \in reconnect : next_pc' = "sleep" /\ backoff' = Doubled(o)
    /\ UNCHANGED <<reconnect, subscriptions, attempts, result, server>>

\* Mutant: the delay is doubled without a limit.
DialErrUnbounded ==
    /\ next_pc = "dial" \/ (next_pc = "hello" /\ link # "dialled")
    /\ link' = "down" /\ stream' = <<>> /\ attempts' = attempts + 1
    /\ next_pc' = "sleep" /\ backoff' = 2 * backoff
    /\ UNCHANGED <<reconnect, subscriptions, result, server>>

\* It fails: no connection, the publisher listening or not, or one that breaks or
\* is refused in the handshake.  Give up, or sleep twice as long.  Without a limit
\* the count of attempts does not matter and is not kept.
DialErr ==
    /\ next_pc = "dial" \/ (next_pc = "hello" /\ link # "dialled")
    /\ link' = "down" /\ stream' = <<>>
    /\ \E o \in reconnect :
          /\ attempts' = IF o.max_attempts = {} THEN attempts ELSE attempts + 1
          /\ IF \E max \in o.max_attempts : attempts + 1 >= max
             THEN next_pc' = "idle" /\ result' = "ReconnectExhausted" /\ UNCHANGED backoff
             ELSE next_pc' = "sleep" /\ backoff' = Doubled(o) /\ UNCHANGED result
    /\ UNCHANGED <<reconnect, subscriptions, server>>

\* The next() future is dropped, and with it a connection in its handshake.
CancelNext ==
    /\ next_pc # "idle" /\ next_pc' = "idle"
    /\ IF next_pc = "hello" THEN link' = "down" /\ stream' = <<>>
                            ELSE UNCHANGED <<link, stream>>
    /\ UNCHANGED <<reconnect, subscriptions, attempts, backoff, result, server>>

------------------------------------------------------------------------------
(* The publisher *)

\* It accepts the connection and shakes hands: Pub0 does so in publish and
\* wait_for_subscribers only.
ShakeHands ==
    /\ link = "dialled" /\ link' = "up"
    /\ UNCHANGED <<sockvars, server, stream>>

Publish(b) ==
    /\ link = "up" /\ Len(stream) < Cap
    /\ stream' = Append(stream, b)
    /\ UNCHANGED <<sockvars, link, server>>

\* The connection breaks, or the publisher goes away.
Disconnect ==
    /\ link # "down" /\ link' = "down"
    /\ server' \in BOOLEAN
    /\ \E n \in 0 .. Len(stream) : stream' = SubSeq(stream, 1, n)
    /\ UNCHANGED sockvars

ServerBack ==
    /\ ~server /\ server' = TRUE
    /\ UNCHANGED <<sockvars, link, stream>>

------------------------------------------------------------------------------
SocketStep == NextMsg \/ NextErr \/ SleepOver \/ Dialled \/ DialOk \/ DialErr

SubNext ==
    \/ \E p \in Bodies : subscribe_to(p) \/ unsubscribe_from(p) \/ Publish(p)
    \/ NextCall \/ SocketStep \/ CancelNext
    \/ ShakeHands \/ Disconnect \/ ServerBack

SubSpec == SubInit /\ [][SubNext]_subvars

\* The socket's task runs, and the kernel's connect succeeds or fails in the end.
\* Nothing is assumed of the publisher: not that it comes back, nor that it shakes
\* hands.
FairSubSpec == SubSpec /\ WF_subvars(SocketStep)

------------------------------------------------------------------------------
(* Properties *)

\* reconnect_transport is running.
Redials == next_pc \in {"sleep", "dial", "hello"}

\* The types, the induction hypothesis of LinkProofs; a connection of its own making is
\* in the handshake only while connect_transport runs.
SubTypeOK ==
    /\ reconnect \in {{}} \cup {{o} : o \in Options}
    /\ subscriptions \in SUBSET Bodies
    /\ next_pc \in {"idle", "recv", "sleep", "dial", "hello"}
    /\ attempts \in Nat /\ backoff \in Nat
    /\ result \in {"none", "Ok", "Closed", "ReconnectExhausted"}
    /\ link \in {"up", "down", "dialled"} /\ server \in BOOLEAN /\ stream \in Seq(Bodies)
    /\ Redials => reconnect # {}
    /\ next_pc \in {"sleep", "dial"} => link = "down" /\ stream = <<>>
    /\ link = "dialled" => next_pc = "hello"

\* next() returns a message if and only if it takes one off the connection that
\* starts with a subscription: the range query, which looks no further than the
\* body itself in the order of the prefixes, lets no other through and drops none
\* that does, whatever set of subscriptions was built, before or after a reconnect.
NextFilters ==
    [][NextMsg => ((next_pc' = "idle")
                       <=> \E p \in subscriptions : IsPrefix(p, Head(stream)))]_subvars

\* socket.rs:828: "Maximum number of attempts before returning an error": the redial
\* loop makes no more attempts than that (with a maximum of 0 it makes one), it gives
\* up only if there is a maximum and not before it has made them all, and its delays
\* stay between min_backoff and max_backoff if the first does not exceed the second.
\* Only a socket that has ReconnectOptions redials, and not before the old connection is
\* down and what had arrived on it is read.
RedialWithinLimits ==
    /\ \A o \in reconnect :
          /\ \A max \in o.max_attempts : attempts <= max \/ attempts = 1
          /\ Redials /\ o.min_backoff <= o.max_backoff
                => backoff \in o.min_backoff .. o.max_backoff
    /\ result = "ReconnectExhausted" =>
          \E o \in reconnect : \E max \in o.max_attempts : attempts >= max
    /\ Redials => reconnect # {}
    /\ next_pc \in {"sleep", "dial"} => link = "down" /\ stream = <<>>

\* With a limit on the attempts a redial comes to an end, however the publisher
\* comes and goes meanwhile: connected, given up or dropped.  The one exception is a
\* publisher that takes the connection and stays silent: the handshake is awaited
\* without a timeout (socket.rs:855), so the attempt is neither over nor counted.
RedialEnds ==
    (Redials /\ \E o \in reconnect : o.max_attempts # {})
        ~> (~Redials \/ [](next_pc = "hello" /\ link = "dialled"))
==============================================================================
