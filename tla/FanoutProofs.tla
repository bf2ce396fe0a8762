---------------------------- MODULE FanoutProofs ----------------------------
(***************************************************************************)
(* Proofs about Fanout: for all sets of scenarios, that is every kind of   *)
(* hub with any numbers of connections, messages, dropped futures, wrong   *)
(* handshakes and talkers, and every stream capacity.                      *)
(***************************************************************************)
EXTENDS Fanout, TLAPS

------------------------------------------------------------------------------
(* The inductive invariant *)

\* Which operations the kinds of hub run, and what they have before they exist.
Control ==
    /\ pc \in {"send", "push"} => op = "publish"
    /\ pc = "wait" => op = "wait"
    /\ op = "wait" => pc \in {"wait", "handshake"} /\ want > 0
    /\ kind # "BusStream" => acc = NoConn /\ ready = {}
    /\ kind = "BusDial" =>
          /\ backlog = <<>> /\ pc \in {"idle", "send", "poll", "yield", "from"}
          /\ want = 0 => pc = "idle" /\ peers = <<>>
    /\ kind = "PushFan" =>
          /\ pc \in {"idle", "wait", "handshake", "push"} /\ (pc = "handshake" => op = "wait")
          /\ want = 0 \/ op = "wait" => nmsg = 0 /\ next = 1
          /\ want > 0 /\ op # "wait" => Len(peers) > 0
          /\ want = 0 => pc = "idle"

Distinct(s) == \A j, k \in 1 .. Len(s) : s[j] = s[k] => j = k

\* Where a connection is: every one that is up has a place, and no connection has two.
Placed(c) == c \in Range(peers) \cup ready \cup Range(backlog) \cup {shaking, acc}
Apart ==
    /\ Distinct(peers) /\ Distinct(backlog)
    /\ Range(peers) \cap Range(backlog) = {}
    /\ ready \cap (Range(peers) \cup Range(backlog)) = {}
    /\ shaking \notin Range(peers) \cup Range(backlog) \cup ready
    /\ acc \notin Range(peers) \cup Range(backlog) \cup ready
    /\ shaking = acc => shaking = NoConn
Where == Apart /\ \A c \in Conns : /\ conn[c] = "up" => Placed(c)
                                   /\ conn[c] = "new" => ~Placed(c)

\* Connection c has not been sent message nmsg, so nmsg comes after all it was sent.
Fresh(c) == Len(sentTo[c]) < nmsg /\ \A k \in 1 .. Len(sentTo[c]) : sentTo[c][k] < nmsg
InOrder == \A c \in Conns :
    /\ nread[c] <= Len(sentTo[c]) /\ Len(sentTo[c]) <= nmsg
    /\ \A k \in 1 .. Len(sentTo[c]) : sentTo[c][k] <= nmsg
    /\ \A j, k \in 1 .. Len(sentTo[c]) : j < k => sentTo[c][j] < sentTo[c][k]
Sent ==
    /\ InOrder
    /\ op = "publish" /\ pc # "send" => nmsg > 0 /\ \A c \in Conns : Fresh(c)
    /\ pc = "send" => nmsg > 0 /\ \A j \in i .. Len(peers) : Fresh(peers[j])

\* Whom the send loop has dealt with: everybody it started with is still ahead of it,
\* has been sent the message, or is down.
Dealt(c) == \/ conn[c] # "up"
            \/ \E j \in i .. Len(peers) : peers[j] = c
            \/ sentTo[c] # <<>> /\ Last(sentTo[c]) = nmsg
Served ==
    /\ pc = "send" => \A c \in targets : conn[c] # "new" /\ Dealt(c)
    /\ pc = "push" => targets = {peers[i]}

\* Push0Fan: message m belongs to the worker at this position.
Turn(m) == ((m - 1) % Len(peers)) + 1
Rotation == kind = "PushFan" =>
    /\ want > 0 /\ op # "wait" => next = Turn(nmsg + 1)
    /\ pc = "push" => i = Turn(nmsg)
    /\ \A c \in Conns : \A k \in 1 .. Len(sentTo[c]) : c = peers[Turn(sentTo[c][k])]

IInv == TypeOK /\ Control /\ Where /\ Sent /\ Served /\ Rotation

------------------------------------------------------------------------------
(* Sequences of connections *)

\* The elements of a sequence over S are in S.
LEMMA RangeWithin == ASSUME NEW S, NEW s \in Seq(S) PROVE Range(s) \subseteq S
BY DEF Range

\* Positions and elements of a sequence.
LEMMA SeqRange ==
    ASSUME NEW S, NEW s \in Seq(S)
    PROVE  /\ \A k \in 1 .. Len(s) : s[k] \in Range(s)
           /\ \A x \in Range(s) : \E k \in 1 .. Len(s) : s[k] = x
<1>1. \A k \in 1 .. Len(s) : s[k] \in Range(s)
  BY DEF Range
<1>2. \A x \in Range(s) : \E k \in 1 .. Len(s) : s[k] = x
  BY DEF Range
<1> QED BY <1>1, <1>2

\* An empty Vec has no peers.
LEMMA RangeOfEmpty == Range(<<>>) = {}
BY DEF Range

\* What push() makes of a list of connections.
LEMMA Appended ==
    ASSUME NEW S, NEW s \in Seq(S), NEW e \in S
    PROVE  /\ Append(s, e) \in Seq(S) /\ Len(Append(s, e)) = Len(s) + 1
           /\ \A k \in 1 .. Len(s) : Append(s, e)[k] = s[k]
           /\ Append(s, e)[Len(s) + 1] = e
           /\ Range(Append(s, e)) = Range(s) \cup {e}
           /\ Distinct(s) /\ e \notin Range(s) => Distinct(Append(s, e))
<1> DEFINE t == Append(s, e)
<1>1. /\ t \in Seq(S) /\ Len(t) = Len(s) + 1 /\ Len(s) \in Nat
      /\ \A k \in 1 .. Len(s) : t[k] = s[k]
      /\ t[Len(s) + 1] = e
  OBVIOUS
<1> HIDE DEF t
<1>2. \A x : x \in Range(t) <=> x \in Range(s) \cup {e}
  <2>1. SUFFICES ASSUME NEW x PROVE x \in Range(t) <=> x \in Range(s) \cup {e}
    OBVIOUS
  <2>2. ASSUME x \in Range(t) PROVE x \in Range(s) \cup {e}
    <3>1. PICK k \in 1 .. Len(t) : t[k] = x
      BY <1>1, <2>2, SeqRange
    <3>2. CASE k = Len(s) + 1
      BY <1>1, <3>1, <3>2
    <3>3. CASE k # Len(s) + 1
      <4>1. k \in 1 .. Len(s) /\ s[k] = x
        BY <1>1, <3>1, <3>3
      <4> QED BY <4>1, SeqRange
    <3> QED BY <3>2, <3>3
  <2>3. ASSUME x \in Range(s) PROVE x \in Range(t)
    <3>1. PICK k \in 1 .. Len(s) : s[k] = x
      BY <2>3, SeqRange
    <3>2. k \in 1 .. Len(t) /\ t[k] = x
      BY <1>1, <3>1
    <3> QED BY <3>2, <1>1, SeqRange
  <2>4. e \in Range(t)
    <3>1. Len(t) \in 1 .. Len(t) /\ t[Len(t)] = e
      BY <1>1
    <3> QED BY <3>1, <1>1, SeqRange
  <2> QED BY <2>2, <2>3, <2>4
<1>3. ASSUME Distinct(s), e \notin Range(s) PROVE Distinct(t)
  <2>1. \A k \in 1 .. Len(s) : s[k] # e
    BY <1>3, SeqRange
  <2> QED BY <1>1, <1>3, <2>1 DEF Distinct
<1> QED BY <1>1, <1>2, <1>3 DEF t

\* What accepting the oldest connection makes of the backlog.
LEMMA TakenOff ==
    ASSUME NEW S, NEW s \in Seq(S), s # <<>>
    PROVE  /\ Head(s) \in S /\ Tail(s) \in Seq(S)
           /\ Head(s) \in Range(s)
           /\ Range(s) = Range(Tail(s)) \cup {Head(s)}
           /\ Distinct(s) => Distinct(Tail(s)) /\ Head(s) \notin Range(Tail(s))
<1> DEFINE t == Tail(s)
           h == Head(s)
<1>1. /\ h = s[1] /\ h \in S /\ t \in Seq(S) /\ Len(s) \in Nat \ {0}
      /\ Len(t) = Len(s) - 1 /\ \A k \in 1 .. Len(t) : t[k] = s[k + 1]
  OBVIOUS
<1> HIDE DEF t, h
<1>2. h \in Range(s)
  BY <1>1, SeqRange
<1>3. \A x : x \in Range(s) <=> x \in Range(t) \cup {h}
  <2>1. SUFFICES ASSUME NEW x PROVE x \in Range(s) <=> x \in Range(t) \cup {h}
    OBVIOUS
  <2>2. ASSUME x \in Range(t) PROVE x \in Range(s)
    <3>1. PICK k \in 1 .. Len(t) : t[k] = x
      BY <1>1, <2>2, SeqRange
    <3>2. k + 1 \in 1 .. Len(s) /\ s[k + 1] = x
      BY <1>1, <3>1
    <3> QED BY <3>2, SeqRange
  <2>3. ASSUME x \in Range(s), x # h PROVE x \in Range(t)
    <3>1. PICK k \in 1 .. Len(s) : s[k] = x
      BY <2>3, SeqRange
    <3>2. k - 1 \in 1 .. Len(t) /\ t[k - 1] = x
      BY <1>1, <2>3, <3>1
    <3> QED BY <3>2, <1>1, SeqRange
  <2> QED BY <1>2, <2>2, <2>3
<1>4. ASSUME Distinct(s) PROVE Distinct(t) /\ h \notin Range(t)
  <2>1. Distinct(t)
    BY <1>1, <1>4 DEF Distinct
  <2>2. ASSUME h \in Range(t) PROVE FALSE
    <3>1. PICK k \in 1 .. Len(t) : t[k] = h
      BY <1>1, <2>2, SeqRange
    <3>2. k + 1 \in 1 .. Len(s) /\ 1 \in 1 .. Len(s) /\ s[k + 1] = s[1] /\ k + 1 # 1
      BY <1>1, <3>1
    <3> QED BY <3>2, <1>4 DEF Distinct
  <2> QED BY <2>1, <2>2
<1> QED BY <1>1, <1>2, <1>3, <1>4 DEF t, h

\* Vec::swap_remove: what is left, and where.  Nobody from position j on is passed over.
LEMMA SwapRemoved ==
    ASSUME NEW S, NEW s \in Seq(S), NEW j \in 1 .. Len(s), Distinct(s)
    PROVE  LET t == Front([s EXCEPT ![j] = Last(s)]) IN
           /\ t \in Seq(S) /\ Len(t) = Len(s) - 1 /\ Distinct(t)
           /\ Range(t) = Range(s) \ {s[j]}
           /\ \A k \in j .. Len(t) : \E l \in j .. Len(s) : t[k] = s[l]
           /\ \A l \in j .. Len(s) : l # j => \E k \in j .. Len(t) : t[k] = s[l]
<1> DEFINE u == [s EXCEPT ![j] = Last(s)]
           t == Front(u)
<1>1. Len(s) \in Nat \ {0} /\ Len(s) \in 1 .. Len(s) /\ j \in Nat
  OBVIOUS
<1>2. u \in Seq(S) /\ Len(u) = Len(s) /\ \A k \in 1 .. Len(s) : u[k] = IF k = j THEN s[Len(s)] ELSE s[k]
  BY <1>1 DEF Last
<1> HIDE DEF u
<1>3. t \in Seq(S) /\ Len(t) = Len(s) - 1 /\ \A k \in 1 .. Len(s) - 1 : t[k] = u[k]
  BY <1>1, <1>2 DEF Front
<1> HIDE DEF t
<1>4. \A k \in 1 .. Len(t) : t[k] = IF k = j THEN s[Len(s)] ELSE s[k]
  BY <1>1, <1>2, <1>3
<1>5. Distinct(t)
  <2>1. SUFFICES ASSUME NEW a \in 1 .. Len(t), NEW b \in 1 .. Len(t), t[a] = t[b] PROVE a = b
    BY DEF Distinct
  <2>2. a \in 1 .. Len(s) /\ b \in 1 .. Len(s) /\ a # Len(s) /\ b # Len(s)
    BY <1>1, <1>3
  <2> QED BY <1>1, <1>4, <2>1, <2>2 DEF Distinct
<1>6. \A x : x \in Range(t) => x \in Range(s) \ {s[j]}
  <2>1. SUFFICES ASSUME NEW x, x \in Range(t) PROVE x \in Range(s) \ {s[j]}
    OBVIOUS
  <2>2. PICK k \in 1 .. Len(t) : t[k] = x
    BY <1>3, <2>1, SeqRange
  <2>3. k \in 1 .. Len(s) /\ k # Len(s)
    BY <1>1, <1>3
  <2>4. PICK l \in 1 .. Len(s) : l # j /\ x = s[l]
    <3>1. CASE k = j
      BY <1>1, <1>4, <2>2, <2>3, <3>1
    <3>2. CASE k # j
      BY <1>4, <2>2, <2>3, <3>2
    <3> QED BY <3>1, <3>2
  <2> QED BY <2>4, SeqRange DEF Distinct
<1>7. \A l \in 1 .. Len(s) : l # j => \E k \in 1 .. Len(t) : t[k] = s[l] /\ (l >= j => k >= j)
  <2>1. SUFFICES ASSUME NEW l \in 1 .. Len(s), l # j
                 PROVE  \E k \in 1 .. Len(t) : t[k] = s[l] /\ (l >= j => k >= j)
    OBVIOUS
  <2>2. CASE l = Len(s)
    <3>1. j \in 1 .. Len(t) /\ t[j] = s[l]
      BY <1>1, <1>3, <1>4, <2>1, <2>2
    <3> QED BY <3>1
  <2>3. CASE l # Len(s)
    <3>1. l \in 1 .. Len(t) /\ t[l] = s[l]
      BY <1>1, <1>3, <1>4, <2>1, <2>3
    <3> QED BY <3>1
  <2> QED BY <2>2, <2>3
<1>8. \A x : x \in Range(s) \ {s[j]} => x \in Range(t)
  <2>1. SUFFICES ASSUME NEW x, x \in Range(s), x # s[j] PROVE x \in Range(t)
    OBVIOUS
  <2>2. PICK l \in 1 .. Len(s) : s[l] = x
    BY <2>1, SeqRange
  <2>3. l # j
    BY <2>1, <2>2
  <2> QED BY <1>3, <1>7, <2>2, <2>3, SeqRange
<1>9. \A k \in j .. Len(t) : \E l \in j .. Len(s) : t[k] = s[l]
  <2>1. SUFFICES ASSUME NEW k \in j .. Len(t) PROVE \E l \in j .. Len(s) : t[k] = s[l]
    OBVIOUS
  <2>2. k \in 1 .. Len(t) /\ k \in j .. Len(s) /\ Len(s) \in j .. Len(s)
    BY <1>1, <1>3
  <2> QED BY <1>4, <2>2
<1>10. \A l \in j .. Len(s) : l # j => \E k \in j .. Len(t) : t[k] = s[l]
  <2>1. SUFFICES ASSUME NEW l \in j .. Len(s), l # j PROVE \E k \in j .. Len(t) : t[k] = s[l]
    OBVIOUS
  <2>2. l \in 1 .. Len(s) /\ l >= j
    BY <1>1
  <2>3. PICK k \in 1 .. Len(t) : t[k] = s[l] /\ k >= j
    BY <1>7, <2>1, <2>2
  <2>4. k \in j .. Len(t)
    BY <1>1, <1>3, <2>3
  <2> QED BY <2>3, <2>4
<1>11. Range(t) = Range(s) \ {s[j]}
  BY <1>6, <1>8
<1> QED BY <1>3, <1>5, <1>9, <1>10, <1>11 DEF t, u

\* The rotation's arithmetic: the successor of a position is the position of the successor.
LEMMA DivMod == ASSUME NEW n \in Nat, NEW L \in Nat, L > 0
  PROVE /\ n \div L \in Nat /\ n % L \in Nat /\ n % L < L /\ n = L * (n \div L) + (n % L)
<1>1. n \div L \in Nat OBVIOUS
<1>2. n % L \in Nat /\ n % L < L OBVIOUS
<1>3. n = L * (n \div L) + (n % L) OBVIOUS
<1> QED BY <1>1, <1>2, <1>3
\* A remainder is determined by the number it is a remainder of.
LEMMA Uniq ==
    ASSUME NEW L \in Nat, NEW a \in Nat, NEW b \in Nat, NEW r \in Nat, NEW t \in Nat,
           L > 0, r < L, t < L, L * a + r = L * b + t
    PROVE  r = t
<1>1. CASE a < b
  <2>1. L * (a + 1) <= L * b BY <1>1
  <2>2. L * (a + 1) = L * a + L OBVIOUS
  <2>3. L * a \in Nat /\ L * b \in Nat OBVIOUS
  <2> QED BY <2>1, <2>2, <2>3
<1>2. CASE b < a
  <2>1. L * (b + 1) <= L * a BY <1>2
  <2>2. L * (b + 1) = L * b + L OBVIOUS
  <2>3. L * a \in Nat /\ L * b \in Nat OBVIOUS
  <2> QED BY <2>1, <2>2, <2>3
<1>3. CASE a = b
  <2>1. L * a = L * b /\ L * a \in Nat BY <1>3
  <2> QED BY <2>1
<1> QED BY <1>1, <1>2, <1>3
\* Adding one before or after taking the remainder makes no difference.
LEMMA NextTurn == ASSUME NEW n \in Nat, NEW L \in Nat, L > 0 PROVE ((n % L) + 1) % L = (n + 1) % L
<1> DEFINE r == n % L 
           q == n \div L
           r1 == (n + 1) % L
           q1 == (n + 1) \div L
<1>1. q \in Nat /\ r \in Nat /\ r < L /\ n = L * q + r
  BY DivMod
<1>2. q1 \in Nat /\ r1 \in Nat /\ r1 < L /\ n + 1 = L * q1 + r1
  <2>1. n + 1 \in Nat OBVIOUS
  <2> QED BY <2>1, DivMod
<1>a. ASSUME NEW m \in Nat, m < L PROVE m % L = m
  BY <1>a
<1>b. L % L = 0
  OBVIOUS
<1> HIDE DEF r, q, r1, q1
<1>c. L * q \in Nat /\ L * q1 \in Nat BY <1>1, <1>2
<1>3. CASE r + 1 < L
  <2>1. L * q + (r + 1) = L * q1 + r1 BY <1>1, <1>2, <1>c
  <2>2. r1 = r + 1 BY <1>1, <1>2, <1>3, <2>1, Uniq
  <2>3. (r + 1) % L = r + 1 BY <1>1, <1>3, <1>a
  <2> QED BY <2>2, <2>3 DEF r, r1
<1>4. CASE r + 1 = L
  <2>1. L * (q + 1) = L * q + L BY <1>1
  <2>2. L * (q + 1) + 0 = L * q1 + r1 BY <1>1, <1>2, <1>4, <1>c, <2>1
  <2>3. q + 1 \in Nat BY <1>1
  <2>4. r1 = 0 BY <1>1, <1>2, <2>2, <2>3, Uniq
  <2> QED BY <2>4, <1>4, <1>b DEF r, r1
<1>5. r + 1 < L \/ r + 1 = L BY <1>1
<1> QED BY <1>3, <1>4, <1>5

------------------------------------------------------------------------------
(* Types *)

ConnTypes ==
    /\ backlog \in Seq(Conns) /\ ready \in SUBSET Conns
    /\ conn \in [Conns -> {"new", "up", "broken", "closed"}]
    /\ hello \in [Conns -> {"none", "good", "bad"}]
    /\ sentTo \in [Conns -> Seq(1 .. MaxMsgs)]
    /\ nread \in [Conns -> 0 .. MaxMsgs] /\ inbox \in [Conns -> 0 .. Cap]

HubTypes ==
    /\ sc \in Scenarios /\ peers \in Seq(Conns)
    /\ pc \in {"idle", "wait", "drain", "handshake", "send", "push", "poll", "yield", "from"}
    /\ op \in {"none", "wait", "publish", "accept_pending", "recv_any", "recv_from"}
    /\ pc = "idle" <=> op = "none"
    /\ want \in Nat /\ i \in Nat \ {0} /\ next \in Nat \ {0}
    /\ shaking \in Conns \cup {NoConn} /\ acc \in Conns \cup {NoConn}
    /\ pc = "handshake" <=> shaking # NoConn
    /\ targets \in SUBSET Conns /\ nmsg \in 0 .. MaxMsgs /\ cancels \in 0 .. sc.cancels

Indices ==
    /\ pc \in {"push", "from"} => i \in DOMAIN peers
    /\ kind = "PushFan" /\ Constructed => next \in DOMAIN peers

\* The type invariant in three parts: connections, hub, indices.
LEMMA TypeParts == TypeOK <=> ConnTypes /\ HubTypes /\ Indices
BY DEF TypeOK, ConnTypes, HubTypes, Indices

\* A scenario's numbers are within their bounds.
LEMMA ScenarioOK == ASSUME HubTypes
    PROVE  /\ kind \in HubKinds /\ sc.conns \in 0 .. MaxConns /\ sc.msgs \in 0 .. MaxMsgs
           /\ sc.cancels \in Nat /\ sc.bad \in Nat /\ sc.talk \in Nat
BY FanoutAssumption DEF HubTypes, Scenario, kind

\* Connections are numbers, and none of them is NoConn.
LEMMA ConnIsNat == Conns \subseteq Nat \ {NoConn} /\ MaxConns \in Nat /\ MaxMsgs \in Nat /\ Cap \in Nat
BY FanoutAssumption DEF Conns, NoConn

\* Closing connections keeps their states well typed.
LEMMA Closing == ASSUME NEW S, CloseAll(S), ConnTypes
    PROVE  conn' \in [Conns -> {"new", "up", "broken", "closed"}]
BY DEF CloseAll, ConnTypes

\* Every step keeps the types of the connections.
LEMMA ConnTypesStep == ASSUME IInv, Next PROVE ConnTypes'
<1> USE DEF hubvars, accvars, connvars, histvars
<1>t. ConnTypes /\ HubTypes /\ Sent
  BY TypeParts DEF IInv
<1>i. /\ peers \in Seq(Conns) /\ shaking \in Conns \cup {NoConn} /\ acc \in Conns \cup {NoConn}
      /\ nmsg \in 0 .. MaxMsgs /\ i \in Nat \ {0} /\ Len(peers) \in Nat
  BY <1>t DEF HubTypes
<1>1. ASSUME NEW c \in Conns, \/ Connect(c) \/ Hello(c) \/ Read(c) \/ Talk(c) \/ Break(c)
                              \/ AddPeer(c) \/ Dial(c)
      PROVE  ConnTypes'
  <2>1. CASE Connect(c)
    <3>1. Append(backlog, c) \in Seq(Conns)
      BY <1>t, Appended DEF ConnTypes
    <3> QED BY <1>t, <2>1, <3>1 DEF Connect, ConnTypes
  <2>2. CASE Hello(c)
    BY <1>t, <2>2 DEF Hello, ConnTypes
  <2>3. CASE Read(c)
    <3>1. nread[c] + 1 \in 0 .. MaxMsgs
      <4>1. /\ nread[c] < Len(sentTo[c]) /\ Len(sentTo[c]) <= nmsg /\ nread[c] \in 0 .. MaxMsgs
            /\ Len(sentTo[c]) \in Nat
        BY <1>t, <2>3 DEF Read, ConnTypes, Sent, InOrder
      <4> QED BY <4>1, <1>i, ConnIsNat
    <3> QED BY <1>t, <2>3, <3>1 DEF Read, ConnTypes
  <2>4. CASE Talk(c)
    <3>1. inbox[c] + 1 \in 0 .. Cap
      BY <1>t, <2>4, ConnIsNat DEF Talk, ConnTypes
    <3> QED BY <1>t, <2>4, <3>1 DEF Talk, ConnTypes
  <2>5. CASE Break(c)
    <3>1. PICK n \in 0 .. inbox[c] : inbox' = [inbox EXCEPT ![c] = n]
      BY <2>5 DEF Break
    <3>2. n \in 0 .. Cap
      BY <1>t, <3>1, ConnIsNat DEF ConnTypes
    <3> QED BY <1>t, <2>5, <3>1, <3>2 DEF Break, ConnTypes
  <2>6. CASE AddPeer(c)
    BY <1>t, <2>6 DEF AddPeer, ConnTypes
  <2>7. CASE Dial(c)
    BY <1>t, <2>7 DEF Dial, ConnTypes
  <2> QED BY <1>1, <2>1, <2>2, <2>3, <2>4, <2>5, <2>6, <2>7
<1>2. CASE AcceptRaw
  <2>1. Tail(backlog) \in Seq(Conns)
    BY <1>2, <1>t, TakenOff DEF AcceptRaw, ConnTypes
  <2> QED BY <1>2, <1>t, <2>1 DEF AcceptRaw, ConnTypes
<1>3. CASE HandshakeEnds
  <2>1. PICK S : CloseAll(S)
    BY <1>3 DEF HandshakeEnds
  <2>2. backlog' \in Seq(Conns)
    BY <1>3, <1>t DEF HandshakeEnds, ConnTypes
  <2>3. conn' \in [Conns -> {"new", "up", "broken", "closed"}]
    BY <1>t, <2>1, Closing
  <2> QED BY <1>3, <1>t, <2>2, <2>3 DEF HandshakeEnds, ConnTypes
<1>4. CASE StreamAccept
  <2>1. Tail(backlog) \in Seq(Conns)
    BY <1>4, <1>t, TakenOff DEF StreamAccept, ConnTypes
  <2> QED BY <1>4, <1>t, <2>1 DEF StreamAccept, ConnTypes
<1>5. CASE StreamAccepted
  <2>1. UNCHANGED conn \/ Close(acc)
    BY <1>5 DEF StreamAccepted
  <2>2. conn' \in [Conns -> {"new", "up", "broken", "closed"}]
    BY <1>t, <2>1, Closing DEF Close, ConnTypes
  <2>3. ready' = ready \/ ready' = ready \cup {acc}
    BY <1>5 DEF StreamAccepted
  <2>4. acc \in Conns
    BY <1>5, <1>i DEF StreamAccepted
  <2> QED BY <1>5, <1>t, <2>2, <2>3, <2>4 DEF StreamAccepted, ConnTypes
<1>6. CASE SendOk \/ PushOk
  <2>1. /\ sentTo' = [sentTo EXCEPT ![peers[i]] = Append(@, nmsg)]
        /\ UNCHANGED <<backlog, ready, conn, hello, nread, inbox>>
    BY <1>6 DEF SendOk, PushOk
  <2>2. nmsg \in 1 .. MaxMsgs
    BY <1>6, <1>t, <1>i DEF SendOk, PushOk, Sent, IInv, Control
  <2>3. ASSUME NEW c \in Conns PROVE Append(sentTo[c], nmsg) \in Seq(1 .. MaxMsgs)
    <3>1. sentTo[c] \in Seq(1 .. MaxMsgs)
      BY <1>t DEF ConnTypes
    <3> QED BY <3>1, <2>2, Appended
  <2>4. sentTo' \in [Conns -> Seq(1 .. MaxMsgs)]
    BY <1>t, <2>1, <2>3 DEF ConnTypes
  <2> QED BY <1>t, <2>1, <2>4 DEF ConnTypes
<1>7. CASE PollMsg \/ FromEnds
  <2>1. UNCHANGED <<backlog, ready, conn, hello, sentTo, nread>>
    BY <1>7 DEF PollMsg, FromEnds
  <2>2. UNCHANGED inbox \/ (inbox[peers[i]] > 0 /\ inbox' = [inbox EXCEPT ![peers[i]] = @ - 1])
    BY <1>7 DEF PollMsg, FromEnds
  <2>3. ASSUME NEW c \in Conns, inbox[c] > 0 PROVE inbox[c] - 1 \in 0 .. Cap
    BY <1>t, <2>3, ConnIsNat DEF ConnTypes
  <2>4. peers[i] \in Conns
    <3>1. i \in 1 .. Len(peers)
      BY <1>7, <1>i, TypeParts DEF PollMsg, FromEnds, IInv, Indices
    <3> QED BY <3>1, <1>i
  <2>5. inbox' \in [Conns -> 0 .. Cap]
    BY <1>t, <2>2, <2>3, <2>4 DEF ConnTypes
  <2> QED BY <1>t, <2>1, <2>5 DEF ConnTypes
<1>8. CASE Cancel \/ CancelAccept
  <2>1. UNCHANGED conn \/ Close(shaking) \/ Close(acc)
    BY <1>8 DEF Cancel, CancelAccept
  <2>2. conn' \in [Conns -> {"new", "up", "broken", "closed"}]
    BY <1>t, <2>1, Closing DEF Close, ConnTypes
  <2>3. UNCHANGED <<backlog, ready, hello, sentTo, nread, inbox>>
    BY <1>8 DEF Cancel, CancelAccept
  <2> QED BY <1>t, <2>2, <2>3 DEF ConnTypes
<1>9. ASSUME UNCHANGED <<connvars, ready>> PROVE ConnTypes'
  BY <1>t, <1>9 DEF ConnTypes
<1>10. CASE \E c \in Conns : RecvFrom(c)
  BY <1>9, <1>10 DEF RecvFrom
<1>11. CASE \E n \in 1 .. sc.conns : WaitFor(n)
  BY <1>9, <1>11 DEF WaitFor
<1>12. CASE AcceptPending \/ Publish \/ Push \/ RecvAny \/ YieldNow \/ DrainDone
  BY <1>9, <1>12 DEF AcceptPending, Publish, Push, RecvAny, YieldNow, DrainDone
<1>13. CASE SendLost \/ SendErr \/ SendDone \/ PushFails \/ PollErr \/ PollNone \/ PassDone
  BY <1>9, <1>13 DEF SendLost, SendErr, SendDone, PushFails, PollErr, PollNone, PassDone
<1> QED BY <1>1, <1>2, <1>3, <1>4, <1>5, <1>6, <1>7, <1>8, <1>10, <1>11, <1>12, <1>13
        DEF Next, HubStep

\* Every step keeps the types of the hub.
LEMMA HubTypesStep == ASSUME IInv, Next PROVE HubTypes'
<1> USE DEF hubvars, accvars, connvars, histvars
<1>t. ConnTypes /\ HubTypes /\ Control /\ Where
  BY TypeParts DEF IInv
<1>i. /\ peers \in Seq(Conns) /\ backlog \in Seq(Conns) /\ ready \subseteq Conns
      /\ want \in Nat /\ nmsg \in 0 .. MaxMsgs /\ i \in Nat \ {0} /\ Len(peers) \in Nat
      /\ sc.conns \in 0 .. MaxConns /\ sc.msgs \in 0 .. MaxMsgs /\ sc.cancels \in Nat
      /\ cancels \in Nat /\ MaxMsgs \in Nat /\ Range(peers) \subseteq Conns
  <2>1. /\ sc.conns \in 0 .. MaxConns /\ sc.msgs \in 0 .. MaxMsgs /\ sc.cancels \in Nat
        /\ MaxMsgs \in Nat
    BY <1>t, ScenarioOK, ConnIsNat
  <2>2. peers \in Seq(Conns)
    BY <1>t DEF HubTypes
  <2>3. Range(peers) \subseteq Conns /\ Len(peers) \in Nat
    BY <2>2, RangeWithin
  <2>4. backlog \in Seq(Conns) /\ ready \subseteq Conns
    BY <1>t DEF ConnTypes
  <2>5. want \in Nat /\ nmsg \in 0 .. MaxMsgs /\ i \in Nat \ {0} /\ cancels \in 0 .. sc.cancels
    BY <1>t DEF HubTypes
  <2> QED BY <2>1, <2>2, <2>3, <2>4, <2>5
<1>1. ASSUME NEW c \in Conns, \/ Connect(c) \/ Hello(c) \/ Read(c) \/ Talk(c) \/ Break(c)
                              \/ AddPeer(c) \/ Dial(c) \/ RecvFrom(c)
      PROVE  HubTypes'
  <2>1. CASE AddPeer(c)
    <3>1. Append(peers, c) \in Seq(Conns)
      BY <1>i, Appended
    <3> QED BY <1>t, <2>1, <3>1 DEF AddPeer, HubTypes
  <2>2. CASE Dial(c)
    <3>1. <<c>> \in Seq(Conns)
      OBVIOUS
    <3> QED BY <1>t, <2>2, <3>1 DEF Dial, HubTypes
  <2>3. CASE RecvFrom(c)
    <3>1. c \in Nat \ {0}
      BY ConnIsNat DEF NoConn
    <3> QED BY <1>t, <2>3, <3>1 DEF RecvFrom, HubTypes
  <2>4. CASE Connect(c) \/ Hello(c) \/ Read(c) \/ Talk(c) \/ Break(c)
    <3>1. UNCHANGED <<hubvars, accvars, histvars>>
      BY <2>4 DEF Connect, Hello, Read, Talk, Break
    <3> QED BY <1>t, <3>1 DEF HubTypes
  <2> QED BY <1>1, <2>1, <2>2, <2>3, <2>4
<1>2. ASSUME NEW n \in 1 .. sc.conns, WaitFor(n) PROVE HubTypes'
  <2>1. n \in Nat
    BY <1>i
  <2> QED BY <1>t, <1>2, <2>1 DEF WaitFor, HubTypes
<1>3. CASE AcceptRaw
  <2>1. Head(backlog) \in Conns /\ Head(backlog) # NoConn
    BY <1>3, <1>i, TakenOff, ConnIsNat DEF AcceptRaw
  <2> QED BY <1>3, <1>t, <2>1 DEF AcceptRaw, HubTypes
<1>4. CASE StreamAccept
  <2>1. Head(backlog) \in Conns
    BY <1>4, <1>i, TakenOff DEF StreamAccept
  <2> QED BY <1>4, <1>t, <2>1 DEF StreamAccept, HubTypes
<1>5. CASE HandshakeEnds
  <2>1. shaking \in Conns
    BY <1>5, <1>t DEF HandshakeEnds, HubTypes
  <2>2. peers' \in Seq(Conns)
    <3>1. Append(peers, shaking) \in Seq(Conns)
      BY <1>i, <2>1, Appended
    <3> QED BY <1>5, <1>i, <3>1 DEF HandshakeEnds
  <2>3. /\ (pc' = "idle" /\ op' = "none") \/ (pc' \in {"wait", "drain"} /\ op' = op /\ op # "none")
        /\ shaking' = NoConn /\ UNCHANGED <<next, want, i, accvars, histvars>>
    BY <1>5, <1>t DEF HandshakeEnds, HubTypes
  <2> QED BY <1>t, <2>2, <2>3 DEF HubTypes
<1>6. CASE SendErr \/ PollErr
  <2>1. SwapRemove /\ UNCHANGED <<next, pc, op, want, shaking, accvars, histvars>>
    BY <1>6 DEF SendErr, PollErr
  <2>2. i \in 1 .. Len(peers)
    BY <1>6, <1>i DEF SendErr, PollErr
  <2>3. Distinct(peers)
    BY <1>t DEF Where, Apart
  <2>4. peers' \in Seq(Conns) /\ i' = i
    BY <1>i, <2>1, <2>2, <2>3, SwapRemoved DEF SwapRemove
  <2> QED BY <1>t, <2>1, <2>4 DEF HubTypes
<1>7. CASE SendOk \/ SendLost \/ PollNone
  <2>1. i' = i + 1 /\ UNCHANGED <<peers, next, pc, op, want, shaking, accvars, histvars>>
    BY <1>7 DEF SendOk, SendLost, PollNone
  <2>2. i' \in Nat \ {0}
    BY <1>i, <2>1
  <2> QED BY <1>t, <2>1, <2>2 DEF HubTypes
<1>8. CASE Publish \/ Push
  <2>1. nmsg' \in 0 .. MaxMsgs
    BY <1>8, <1>i DEF Publish, Push
  <2>2. CASE Publish
    <3>1. targets' \subseteq Conns /\ i' \in Nat \ {0}
      BY <2>2, <1>t, <1>i DEF Publish, HubTypes
    <3> QED BY <1>t, <2>1, <2>2, <3>1 DEF Publish, HubTypes
  <2>3. CASE Push
    <3>1. next \in 1 .. Len(peers)
      BY <2>3, <1>i, TypeParts DEF Push, IInv, Indices
    <3>2. targets' \subseteq Conns
      BY <1>i, <2>3, <3>1 DEF Push
    <3>3. next' \in Nat \ {0}
      <4>1. next % Len(peers) \in Nat
        BY <1>i, <3>1, DivMod
      <4> QED BY <2>3, <4>1 DEF Push
    <3>4. i' \in Nat \ {0}
      BY <2>3, <1>t DEF Push, HubTypes
    <3> QED BY <1>t, <2>1, <2>3, <3>2, <3>3, <3>4 DEF Push, HubTypes
  <2> QED BY <1>8, <2>2, <2>3
<1>9. CASE DrainDone
  <2>1. targets' \subseteq Conns /\ i' \in Nat \ {0}
    BY <1>9, <1>t, <1>i DEF DrainDone, HubTypes
  <2> QED BY <1>9, <1>t, <2>1 DEF DrainDone, HubTypes
<1>10. CASE Cancel \/ CancelAccept
  <2>1. cancels' \in 0 .. sc.cancels
    BY <1>10, <1>i DEF Cancel, CancelAccept
  <2>2. CASE Cancel
    BY <1>t, <2>1, <2>2 DEF Cancel, HubTypes
  <2>3. CASE CancelAccept
    BY <1>t, <2>1, <2>3 DEF CancelAccept, HubTypes
  <2> QED BY <1>10, <2>2, <2>3
<1>11. CASE RecvAny \/ YieldNow
  <2>1. PassOrNoPeers /\ UNCHANGED <<peers, next, want, shaking, accvars, histvars>>
    BY <1>11 DEF RecvAny, YieldNow
  <2>2. shaking = NoConn
    BY <1>11, <1>t DEF RecvAny, YieldNow, HubTypes
  <2> QED BY <1>t, <2>1, <2>2 DEF PassOrNoPeers, HubTypes
<1>12. CASE AcceptPending \/ StreamAccepted
  BY <1>12, <1>t DEF AcceptPending, StreamAccepted, HubTypes
<1>13. CASE SendDone \/ PushOk \/ PushFails \/ FromEnds \/ PollMsg
  <2>1. /\ pc' = "idle" /\ op' = "none" /\ pc # "handshake"
        /\ UNCHANGED <<peers, next, want, i, shaking, accvars, histvars>>
    BY <1>13 DEF SendDone, PushOk, PushFails, FromEnds, PollMsg
  <2> QED BY <1>t, <2>1 DEF HubTypes
<1>14. CASE PassDone
  BY <1>14, <1>t DEF PassDone, HubTypes
<1> QED BY <1>1, <1>2, <1>3, <1>4, <1>5, <1>6, <1>7, <1>8, <1>9, <1>10, <1>11, <1>12, <1>13, <1>14
        DEF Next, HubStep

------------------------------------------------------------------------------
(* Control *)

\* Every step leaves a hub in an operation of its kind.
LEMMA ControlStep == ASSUME IInv, Next PROVE Control'
<1> USE DEF hubvars, accvars, connvars, histvars
<1>t. ConnTypes /\ HubTypes /\ Control
  BY TypeParts DEF IInv
<1>i. /\ peers \in Seq(Conns) /\ Len(peers) \in Nat /\ want \in Nat /\ shaking \in Conns \cup {NoConn}
      /\ pc = "handshake" <=> shaking # NoConn
      /\ pc = "idle" <=> op = "none"
  BY <1>t DEF HubTypes
<1>1. ASSUME NEW c \in Conns, \/ Connect(c) \/ Hello(c) \/ Read(c) \/ Talk(c) \/ Break(c)
                              \/ AddPeer(c) \/ Dial(c) \/ RecvFrom(c)
      PROVE  Control'
  <2>1. CASE Connect(c)
    <3>1. kind # "BusDial" /\ UNCHANGED <<hubvars, accvars, histvars>>
      BY <2>1 DEF Connect, Listening
    <3> QED BY <1>t, <3>1 DEF Control, kind
  <2>2. CASE Hello(c) \/ Read(c) \/ Talk(c) \/ Break(c)
    <3>1. UNCHANGED <<hubvars, accvars, histvars, backlog>>
      BY <2>2 DEF Hello, Read, Talk, Break
    <3> QED BY <1>t, <3>1 DEF Control, kind
  <2>3. CASE AddPeer(c)
    <3>1. kind = "BusStream" /\ UNCHANGED <<pc, op, want, acc, sc, backlog, histvars, next>>
      BY <2>3, <1>t DEF AddPeer, Control
    <3> QED BY <1>t, <3>1 DEF Control, kind
  <2>4. CASE Dial(c)
    BY <1>t, <2>4 DEF Dial, Control, kind
  <2>5. CASE RecvFrom(c)
    BY <1>t, <2>5 DEF RecvFrom, Control, kind, Buses, Constructed
  <2> QED BY <1>1, <2>1, <2>2, <2>3, <2>4, <2>5
<1>2. ASSUME NEW n \in 1 .. sc.conns, WaitFor(n) PROVE Control'
  <2>1. n > 0
    BY <1>t, ScenarioOK, ConnIsNat
  <2> QED BY <1>t, <1>2, <2>1 DEF WaitFor, Control, kind
<1>3. CASE AcceptRaw
  BY <1>t, <1>3 DEF AcceptRaw, Control, kind
<1>4. CASE StreamAccept \/ StreamAccepted
  <2>1. kind = "BusStream" /\ UNCHANGED <<hubvars, sc, histvars>>
    BY <1>4, <1>t DEF StreamAccept, StreamAccepted, Control
  <2> QED BY <1>t, <2>1 DEF Control, kind
<1>5. CASE HandshakeEnds
  <2>1. kind # "BusDial" /\ kind' = kind /\ (kind = "PushFan" => op = "wait")
    BY <1>5, <1>t DEF HandshakeEnds, Control, kind
  <2>2. UNCHANGED <<next, want, i, accvars, histvars>>
    BY <1>5 DEF HandshakeEnds
  <2>3. CASE pc' = "idle" /\ op' = "none"
    <3>1. kind = "PushFan" => Len(peers') >= want /\ want > 0
      BY <1>5, <1>t, <2>1, <2>3 DEF HandshakeEnds, Control
    <3>2. kind = "PushFan" => Len(peers') > 0
      <4>1. Len(peers') \in Nat
        BY HubTypesStep DEF HubTypes
      <4> QED BY <3>1, <4>1, <1>i
    <3> QED BY <1>t, <2>1, <2>2, <2>3, <3>1, <3>2 DEF Control, kind
  <2>4. CASE pc' = (IF op = "wait" THEN "wait" ELSE "drain") /\ op' = op
    BY <1>t, <2>1, <2>2, <2>4 DEF Control, kind
  <2> QED BY <1>5, <2>3, <2>4 DEF HandshakeEnds
<1>6. CASE SendErr \/ PollErr
  <2>1. UNCHANGED <<next, pc, op, want, shaking, accvars, backlog, histvars>> /\ pc \in {"send", "poll"}
    BY <1>6 DEF SendErr, PollErr
  <2>2. kind # "PushFan" /\ (kind = "BusDial" => want # 0)
    BY <1>t, <2>1 DEF Control
  <2> QED BY <1>t, <2>1, <2>2 DEF Control, kind
<1>7. CASE SendOk \/ SendLost \/ PollNone
  <2>1. UNCHANGED <<peers, next, pc, op, want, shaking, accvars, backlog, histvars>>
    BY <1>7 DEF SendOk, SendLost, PollNone
  <2> QED BY <1>t, <2>1 DEF Control, kind
<1>8. CASE Publish
  BY <1>t, <1>8 DEF Publish, Control, kind, Constructed
<1>9. CASE Push
  BY <1>t, <1>9 DEF Push, Control, kind, Constructed
<1>10. CASE DrainDone
  BY <1>t, <1>10 DEF DrainDone, Control, kind
<1>11. CASE Cancel
  BY <1>t, <1>i, <1>11 DEF Cancel, Control, kind
<1>12. CASE CancelAccept
  BY <1>t, <1>12 DEF CancelAccept, Control, kind
<1>13. CASE RecvAny \/ YieldNow
  <2>1. PassOrNoPeers /\ UNCHANGED <<peers, next, want, shaking, accvars, backlog, histvars>>
    BY <1>13 DEF RecvAny, YieldNow
  <2>2. kind # "PushFan" /\ (kind = "BusDial" => want # 0)
    BY <1>13, <1>t, <1>i DEF RecvAny, YieldNow, Control, Constructed, Buses
  <2> QED BY <1>t, <2>1, <2>2 DEF PassOrNoPeers, Control, kind
<1>14. CASE AcceptPending
  BY <1>t, <1>14 DEF AcceptPending, Control, kind
<1>15. CASE SendDone \/ PushOk \/ PushFails \/ FromEnds \/ PollMsg
  <2>1. /\ pc' = "idle" /\ op' = "none" /\ pc \notin {"wait", "handshake"} /\ op # "none"
        /\ UNCHANGED <<peers, next, want, i, shaking, accvars, backlog, histvars>>
    BY <1>15, <1>i DEF SendDone, PushOk, PushFails, FromEnds, PollMsg
  <2> QED BY <1>t, <1>i, <2>1 DEF Control, kind
<1>16. CASE PassDone
  BY <1>t, <1>16 DEF PassDone, Control, kind
<1> QED BY <1>1, <1>2, <1>3, <1>4, <1>5, <1>6, <1>7, <1>8, <1>9, <1>10, <1>11, <1>12, <1>13, <1>14,
           <1>15, <1>16 DEF Next, HubStep

------------------------------------------------------------------------------
(* Places *)

\* Where, with the sequences as sets: the form in which the steps use it.
LEMMA PlacesAreSets ==
    ASSUME ConnTypes, HubTypes
    PROVE  Range(peers) \subseteq Conns /\ Range(backlog) \subseteq Conns
BY RangeWithin DEF ConnTypes, HubTypes

\* Accepting, shaking hands, swap_remove and dropped futures leave every connection that is
\* up in one place.
LEMMA WhereStep == ASSUME IInv, Next PROVE Where'
<1> USE DEF hubvars, accvars, connvars, histvars
<1>t. ConnTypes /\ HubTypes /\ Control /\ Where
  BY TypeParts DEF IInv
<1>i. /\ peers \in Seq(Conns) /\ backlog \in Seq(Conns) /\ ready \subseteq Conns
      /\ shaking \in Conns \cup {NoConn} /\ acc \in Conns \cup {NoConn}
      /\ Range(peers) \subseteq Conns /\ Range(backlog) \subseteq Conns /\ NoConn \notin Conns
      /\ i \in Nat \ {0} /\ Len(peers) \in Nat
      /\ pc = "handshake" <=> shaking # NoConn
  <2>1. Range(peers) \subseteq Conns /\ Range(backlog) \subseteq Conns /\ NoConn \notin Conns
    BY <1>t, PlacesAreSets, ConnIsNat
  <2> QED BY <1>t, <2>1 DEF HubTypes, ConnTypes
<1>a. Distinct(peers) /\ Distinct(backlog)
  BY <1>t DEF Where, Apart
<1>1. ASSUME NEW c \in Conns, \/ Connect(c) \/ Hello(c) \/ Read(c) \/ Talk(c) \/ Break(c)
                              \/ AddPeer(c) \/ Dial(c)
      PROVE  Where'
  <2>1. CASE Connect(c)
    <3>1. conn[c] = "new" /\ ~Placed(c)
      BY <2>1, <1>t DEF Connect, Where
    <3>2. c \notin Range(backlog)
      BY <3>1 DEF Placed
    <3>3. /\ Range(backlog') = Range(backlog) \cup {c} /\ Distinct(backlog')
          /\ UNCHANGED <<peers, shaking, ready, acc>>
      BY <2>1, <1>i, <1>a, <3>2, Appended DEF Connect
    <3>4. \A d \in Conns : conn'[d] = IF d = c THEN "up" ELSE conn[d]
      BY <2>1, <1>t DEF Connect, ConnTypes
    <3> QED BY <1>t, <1>i, <3>1, <3>3, <3>4 DEF Where, Apart, Placed
  <2>2. CASE Hello(c) \/ Read(c) \/ Talk(c)
    <3>1. UNCHANGED <<peers, backlog, ready, shaking, acc, conn>>
      BY <2>2 DEF Hello, Read, Talk
    <3> QED BY <1>t, <3>1 DEF Where, Apart, Placed
  <2>3. CASE Break(c)
    <3>1. UNCHANGED <<peers, backlog, ready, shaking, acc>>
      BY <2>3 DEF Break
    <3>2. \A d \in Conns : conn'[d] = IF d = c THEN "broken" ELSE conn[d]
      BY <2>3, <1>t DEF Break, ConnTypes
    <3> QED BY <1>t, <3>1, <3>2 DEF Where, Apart, Placed
  <2>4. CASE AddPeer(c)
    <3>1. c \notin Range(peers)
      BY <2>4, <1>t DEF AddPeer, Where, Apart
    <3>2. /\ Range(peers') = Range(peers) \cup {c} /\ Distinct(peers') /\ c \in ready
          /\ ready' = ready \ {c} /\ UNCHANGED <<backlog, shaking, acc, conn>>
      BY <2>4, <1>i, <1>a, <3>1, Appended DEF AddPeer
    <3> QED BY <1>t, <1>i, <3>2 DEF Where, Apart, Placed
  <2>5. CASE Dial(c)
    <3>1. /\ peers = <<>> /\ backlog = <<>> /\ ready = {} /\ acc = NoConn /\ shaking = NoConn
      BY <2>5, <1>t, <1>i DEF Dial, Control
    <3>2. UNCHANGED <<backlog, shaking, ready, acc>> /\ peers' = Append(peers, c)
      BY <2>5, <3>1 DEF Dial
    <3>3. Range(peers') = {c} /\ Distinct(peers') /\ Range(backlog) = {}
      <4>1. Range(peers) = {} /\ Range(backlog) = {}
        BY <3>1, RangeOfEmpty
      <4>2. Range(peers') = Range(peers) \cup {c} /\ Distinct(peers')
        BY <1>i, <1>a, <3>2, <4>1, Appended
      <4> QED BY <4>1, <4>2
    <3>4. \A d \in Conns : conn'[d] = IF d = c THEN "up" ELSE conn[d]
      BY <2>5, <1>t DEF Dial, ConnTypes
    <3>5. \A d \in Conns : conn[d] # "up"
      <4>1. Range(peers) = {}
        BY <3>1, RangeOfEmpty
      <4> QED BY <1>t, <1>i, <3>1, <3>3, <4>1 DEF Where, Placed
    <3> QED BY <1>t, <1>i, <3>1, <3>2, <3>3, <3>4, <3>5 DEF Where, Apart, Placed
  <2> QED BY <1>1, <2>1, <2>2, <2>3, <2>4, <2>5
<1>2. CASE AcceptRaw \/ StreamAccept
  <2>1. backlog # <<>> /\ backlog' = Tail(backlog) /\ UNCHANGED <<peers, ready, conn>>
    BY <1>2 DEF AcceptRaw, StreamAccept
  <2>2. \/ shaking' = Head(backlog) /\ acc' = acc /\ shaking = NoConn
        \/ acc' = Head(backlog) /\ shaking' = shaking /\ acc = NoConn
    BY <1>2, <1>i DEF AcceptRaw, StreamAccept
  <2>3. PICK h \in Conns : /\ h = Head(backlog) /\ Range(backlog) = Range(backlog') \cup {h}
                           /\ Distinct(backlog') /\ h \notin Range(backlog')
    BY <1>i, <1>a, <2>1, TakenOff
  <2>4. Apart'
    BY <1>t, <1>i, <2>1, <2>2, <2>3 DEF Where, Apart
  <2>5. \A c \in Conns : Placed(c)' <=> Placed(c)
    BY <1>i, <2>1, <2>2, <2>3 DEF Placed
  <2> QED BY <1>t, <2>1, <2>4, <2>5 DEF Where
<1>3. CASE HandshakeEnds
  <2>1. shaking \in Conns /\ pc = "handshake"
    BY <1>3, <1>i DEF HandshakeEnds
  <2> DEFINE done == op = "wait" /\ Len(peers') >= want
             U == IF done /\ kind = "PushFan" THEN Range(backlog) ELSE {}
             R(ok) == IF ok THEN {} ELSE {shaking}
  <2>2. PICK ok \in BOOLEAN : /\ peers' = IF ok THEN Append(peers, shaking) ELSE peers
                              /\ CloseAll(R(ok) \cup U)
    BY <1>3 DEF HandshakeEnds, Outcomes
  <2>3. U \subseteq Range(backlog) /\ ((backlog' = backlog /\ U = {}) \/ (backlog' = <<>> /\ U = Range(backlog)))
    BY <1>3 DEF HandshakeEnds
  <2> DEFINE S == R(ok) \cup U
  <2>s. CloseAll(S) /\ \A c : c \in S <=> c \in U \/ (c = shaking /\ ~ok)
    BY <2>2
  <2> HIDE DEF S, U
  <2>4. shaking' = NoConn /\ UNCHANGED <<ready, acc>>
    BY <1>3 DEF HandshakeEnds
  <2>5. Range(peers') = Range(peers) \cup (IF ok THEN {shaking} ELSE {}) /\ Distinct(peers')
    <3>1. shaking \notin Range(peers)
      BY <1>t DEF Where, Apart
    <3> QED BY <1>i, <1>a, <2>1, <2>2, <3>1, Appended
  <2>6. /\ Range(backlog') \subseteq Range(backlog) /\ Distinct(backlog')
        /\ \A c \in Range(backlog) : c \notin U => c \in Range(backlog')
    BY <1>a, <2>3, RangeOfEmpty DEF Distinct
  <2>7. \A c \in Conns :
           /\ conn'[c] = "up" <=> conn[c] = "up" /\ c \notin S
           /\ conn'[c] = "new" <=> conn[c] = "new"
    BY <1>t, <2>s DEF CloseAll, ConnTypes
  <2>8. Apart'
    BY <1>t, <1>i, <2>1, <2>4, <2>5, <2>6 DEF Where, Apart
  <2>9. ASSUME NEW c \in Conns, conn'[c] = "up" PROVE Placed(c)'
    <3>1. Placed(c) /\ c \notin U /\ (~ok => c # shaking)
      BY <1>t, <2>s, <2>7, <2>9 DEF Where
    <3> QED BY <1>i, <2>1, <2>4, <2>5, <2>6, <3>1 DEF Placed
  <2>10. ASSUME NEW c \in Conns, conn'[c] = "new" PROVE ~Placed(c)'
    <3>1. ~Placed(c)
      BY <1>t, <2>7, <2>10 DEF Where
    <3> QED BY <1>i, <2>4, <2>5, <2>6, <3>1 DEF Placed
  <2> QED BY <2>8, <2>9, <2>10 DEF Where
<1>6. ASSUME UNCHANGED <<peers, backlog, ready, shaking, acc, conn>> PROVE Where'
  BY <1>t, <1>6 DEF Where, Apart, Placed
<1>4. CASE StreamAccepted
  <2>1. acc \in Conns /\ acc' = NoConn /\ UNCHANGED <<peers, backlog, shaking>>
    BY <1>4, <1>i DEF StreamAccepted
  <2>2. CASE ready' = ready \cup {acc} /\ UNCHANGED conn
    BY <1>t, <1>i, <2>1, <2>2 DEF Where, Apart, Placed
  <2>3. CASE Close(acc) /\ UNCHANGED ready
    <3>1. \A c \in Conns : /\ conn'[c] = "up" <=> conn[c] = "up" /\ c \notin {acc}
                           /\ conn'[c] = "new" <=> conn[c] = "new"
      BY <1>t, <2>3 DEF Close, CloseAll, ConnTypes
    <3> QED BY <1>t, <1>i, <2>1, <2>3, <3>1 DEF Where, Apart, Placed
  <2> QED BY <1>4, <2>2, <2>3 DEF StreamAccepted
<1>12. CASE CancelAccept
  <2>1. acc \in Conns /\ acc' = NoConn /\ UNCHANGED <<peers, backlog, ready, shaking>> /\ Close(acc)
    BY <1>12, <1>i DEF CancelAccept
  <2>2. \A c \in Conns : /\ conn'[c] = "up" <=> conn[c] = "up" /\ c \notin {acc}
                         /\ conn'[c] = "new" <=> conn[c] = "new"
    BY <1>t, <2>1 DEF Close, CloseAll, ConnTypes
  <2> QED BY <1>t, <1>i, <2>1, <2>2 DEF Where, Apart, Placed
<1>13. CASE Cancel
  <2>1. shaking' = NoConn /\ UNCHANGED <<peers, backlog, ready, acc>>
    BY <1>13 DEF Cancel
  <2>2. CASE pc = "handshake"
    <3>1. Close(shaking)
      BY <1>13, <2>2 DEF Cancel
    <3>2. \A c \in Conns : /\ conn'[c] = "up" <=> conn[c] = "up" /\ c \notin {shaking}
                           /\ conn'[c] = "new" <=> conn[c] = "new"
      BY <1>t, <3>1 DEF Close, CloseAll, ConnTypes
    <3> QED BY <1>t, <1>i, <2>1, <2>2, <3>2 DEF Where, Apart, Placed
  <2>3. CASE pc # "handshake"
    BY <1>6, <1>13, <1>i, <2>3 DEF Cancel
  <2> QED BY <2>2, <2>3
<1>5. CASE SendErr \/ PollErr
  <2>1. i \in 1 .. Len(peers) /\ conn[peers[i]] # "up"
    BY <1>5, <1>i DEF SendErr, PollErr
  <2>2. SwapRemove /\ UNCHANGED <<backlog, ready, shaking, acc, conn>>
    BY <1>5 DEF SendErr, PollErr
  <2>3. Range(peers') = Range(peers) \ {peers[i]} /\ Distinct(peers')
    <3>1. peers' = Front([peers EXCEPT ![i] = Last(peers)])
      BY <2>2 DEF SwapRemove
    <3>2. Range(peers') = Range(peers) \ {peers[i]}
      BY <1>i, <1>a, <2>1, <3>1, SwapRemoved
    <3>3. Distinct(peers')
      BY <1>i, <1>a, <2>1, <3>1, SwapRemoved
    <3> QED BY <3>2, <3>3
  <2> QED BY <1>t, <1>i, <2>1, <2>2, <2>3 DEF Where, Apart, Placed
<1>7. CASE \E c \in Conns : RecvFrom(c)
  BY <1>6, <1>7 DEF RecvFrom
<1>8. CASE \E n \in 1 .. sc.conns : WaitFor(n)
  BY <1>6, <1>8 DEF WaitFor
<1>9. CASE AcceptPending \/ Publish \/ Push \/ RecvAny \/ YieldNow \/ DrainDone
  BY <1>6, <1>9 DEF AcceptPending, Publish, Push, RecvAny, YieldNow, DrainDone
<1>10. CASE SendOk \/ SendLost \/ SendDone \/ PushOk \/ PushFails
  BY <1>6, <1>10 DEF SendOk, SendLost, SendDone, PushOk, PushFails
<1>11. CASE FromEnds \/ PollMsg \/ PollNone \/ PassDone
  BY <1>6, <1>11 DEF FromEnds, PollMsg, PollNone, PassDone
<1> QED BY <1>1, <1>2, <1>3, <1>4, <1>5, <1>7, <1>8, <1>9, <1>10, <1>11, <1>12, <1>13
    DEF Next, HubStep

------------------------------------------------------------------------------
(* What has been sent *)

\* The messages sent to a connection are numbers.
LEMMA MessagesAreNats ==
    ASSUME MaxMsgs \in Nat, NEW q \in Seq(1 .. MaxMsgs)
    PROVE  Len(q) \in Nat /\ \A k \in 1 .. Len(q) : q[k] \in Nat
<1>1. \A k \in 1 .. Len(q) : q[k] \in 1 .. MaxMsgs
  OBVIOUS
<1> QED BY <1>1

\* Sending message nmsg to a connection that has not had it keeps the order.
LEMMA SentGrows ==
    ASSUME NEW c \in Conns, ConnTypes, nmsg \in 0 .. MaxMsgs, InOrder, Fresh(c),
           sentTo' = [sentTo EXCEPT ![c] = Append(@, nmsg)], UNCHANGED <<nread, nmsg>>
    PROVE  /\ InOrder'
           /\ \A d \in Conns : d # c => sentTo'[d] = sentTo[d]
           /\ Len(sentTo'[c]) = Len(sentTo[c]) + 1
           /\ sentTo'[c][Len(sentTo[c]) + 1] = nmsg
           /\ \A k \in 1 .. Len(sentTo[c]) : sentTo'[c][k] = sentTo[c][k]
<1>1. sentTo[c] \in Seq(1 .. MaxMsgs) /\ nmsg \in Nat /\ MaxMsgs \in Nat
  BY ConnIsNat DEF ConnTypes
<1>2. nmsg \in 1 .. MaxMsgs
  BY <1>1 DEF Fresh
<1>3. sentTo'[c] = Append(sentTo[c], nmsg) /\ \A d \in Conns : d # c => sentTo'[d] = sentTo[d]
  BY DEF ConnTypes
<1>4. /\ Len(sentTo'[c]) = Len(sentTo[c]) + 1 /\ Len(sentTo[c]) \in Nat
      /\ sentTo'[c][Len(sentTo[c]) + 1] = nmsg
      /\ \A k \in 1 .. Len(sentTo[c]) : sentTo'[c][k] = sentTo[c][k]
  BY <1>1, <1>2, <1>3, Appended
<1>5. ASSUME NEW d \in Conns
      PROVE  /\ nread[d] <= Len(sentTo'[d]) /\ Len(sentTo'[d]) <= nmsg
             /\ \A k \in 1 .. Len(sentTo'[d]) : sentTo'[d][k] <= nmsg
             /\ \A j, k \in 1 .. Len(sentTo'[d]) : j < k => sentTo'[d][j] < sentTo'[d][k]
  <2>1. CASE d # c
    BY <1>3, <2>1 DEF InOrder
  <2>2. CASE d = c
    <3>1. nread[c] \in Nat /\ nread[c] <= Len(sentTo[c]) /\ Len(sentTo[c]) < nmsg
      BY DEF InOrder, Fresh, ConnTypes
    <3>2. \A k \in 1 .. Len(sentTo[c]) : sentTo[c][k] < nmsg /\ sentTo[c][k] \in Nat
      BY <1>1 DEF Fresh
    <3>3. \A j, k \in 1 .. Len(sentTo[c]) : j < k => sentTo[c][j] < sentTo[c][k]
      BY DEF InOrder
    <3>4. \A k \in 1 .. Len(sentTo'[c]) : k \in 1 .. Len(sentTo[c]) \/ k = Len(sentTo[c]) + 1
      BY <1>4
    <3>5. \A k \in 1 .. Len(sentTo'[c]) : sentTo'[c][k] <= nmsg
      BY <1>1, <1>4, <3>2, <3>4
    <3>6. ASSUME NEW j \in 1 .. Len(sentTo'[c]), NEW k \in 1 .. Len(sentTo'[c]), j < k
          PROVE  sentTo'[c][j] < sentTo'[c][k]
      <4>1. j \in 1 .. Len(sentTo[c])
        BY <1>4, <3>6
      <4> QED BY <1>4, <3>2, <3>3, <3>4, <3>6, <4>1
    <3>7. nread[c] <= Len(sentTo'[c]) /\ Len(sentTo'[c]) <= nmsg
      BY <1>1, <1>4, <3>1
    <3> QED BY <2>2, <3>5, <3>6, <3>7
  <2> QED BY <2>1, <2>2
<1>6. InOrder'
  BY <1>5 DEF InOrder
<1> QED BY <1>3, <1>4, <1>6

\* The peers the loops and push() use are connections.
LEMMA PeersAreConns ==
    ASSUME HubTypes, Indices
    PROVE  /\ \A j \in 1 .. Len(peers) : peers[j] \in Conns
           /\ \A j \in i .. Len(peers) : peers[j] \in Conns
           /\ pc \in {"push", "from"} => i \in 1 .. Len(peers) /\ peers[i] \in Conns
<1>1. peers \in Seq(Conns) /\ i \in Nat \ {0}
  BY DEF HubTypes
<1>2. \A j \in 1 .. Len(peers) : peers[j] \in Conns
  BY <1>1
<1>3. \A j \in i .. Len(peers) : j \in 1 .. Len(peers)
  BY <1>1
<1>4. pc \in {"push", "from"} => i \in 1 .. Len(peers)
  BY <1>1 DEF Indices
<1> QED BY <1>2, <1>3, <1>4

\* Every step keeps the messages of each connection in order.
LEMMA SentStep == ASSUME IInv, Next PROVE Sent'
<1> USE DEF hubvars, accvars, connvars, histvars
<1>t. ConnTypes /\ HubTypes /\ Indices /\ Control /\ Where /\ Sent
  BY TypeParts DEF IInv
<1>i. /\ peers \in Seq(Conns) /\ nmsg \in 0 .. MaxMsgs /\ MaxMsgs \in Nat /\ nmsg \in Nat
      /\ i \in Nat \ {0} /\ Len(peers) \in Nat
      /\ pc = "idle" <=> op = "none"
  BY <1>t, ConnIsNat DEF HubTypes
<1>d. Distinct(peers)
  BY <1>t DEF Where, Apart
<1>p. \A j \in 1 .. Len(peers) : peers[j] \in Conns
  BY <1>t, PeersAreConns
<1>l. ASSUME NEW c \in Conns
      PROVE  Len(sentTo[c]) \in Nat /\ \A k \in 1 .. Len(sentTo[c]) : sentTo[c][k] \in Nat
  <2>1. sentTo[c] \in Seq(1 .. MaxMsgs)
    BY <1>t DEF ConnTypes
  <2> QED BY <2>1, <1>i, MessagesAreNats
<1>1. ASSUME UNCHANGED <<sentTo, nread, nmsg>>, 
             op' = "publish" /\ pc' # "send" => op = "publish" /\ pc # "send",
             pc' = "send" => pc = "send" /\ UNCHANGED <<i, peers>>
      PROVE  Sent'
  BY <1>t, <1>1 DEF Sent, InOrder, Fresh
<1>2. ASSUME NEW c \in Conns, \/ Connect(c) \/ Hello(c) \/ Talk(c) \/ Break(c) \/ AddPeer(c)
                              \/ RecvFrom(c)
      PROVE  Sent'
  BY <1>1, <1>2 DEF Connect, Hello, Talk, Break, AddPeer, RecvFrom
<1>3. ASSUME NEW c \in Conns, Dial(c) PROVE Sent'
  BY <1>1, <1>3, <1>t DEF Dial, Control
<1>4. ASSUME NEW n \in 1 .. sc.conns, WaitFor(n) PROVE Sent'
  BY <1>1, <1>4 DEF WaitFor
<1>5. ASSUME NEW c \in Conns, Read(c) PROVE Sent'
  <2>1. /\ UNCHANGED <<sentTo, nmsg, op, pc, i, peers>>
        /\ \A d \in Conns : nread'[d] <= Len(sentTo[d])
    <3>1. nread[c] < Len(sentTo[c]) /\ nread' = [nread EXCEPT ![c] = @ + 1]
      BY <1>5 DEF Read
    <3>2. nread \in [Conns -> 0 .. MaxMsgs] /\ nread[c] \in Nat
      BY <1>t DEF ConnTypes
    <3>3. ASSUME NEW d \in Conns PROVE nread'[d] <= Len(sentTo[d])
      <4>1. CASE d = c
        <5>1. nread'[c] = nread[c] + 1
          BY <3>1, <3>2
        <5> QED BY <1>l, <3>1, <3>2, <4>1, <5>1
      <4>2. CASE d # c
        BY <1>t, <3>1, <3>2, <4>2 DEF Sent, InOrder
      <4> QED BY <4>1, <4>2
    <3> QED BY <1>5, <3>3 DEF Read
  <2> QED BY <1>t, <2>1 DEF Sent, InOrder, Fresh
<1>6. CASE Publish \/ Push
  <2>1. nmsg' = nmsg + 1 /\ UNCHANGED <<sentTo, nread, peers>>
    BY <1>6 DEF Publish, Push
  <2>2. ASSUME NEW c \in Conns
        PROVE  /\ Len(sentTo[c]) < nmsg' /\ Len(sentTo[c]) <= nmsg'
               /\ \A k \in 1 .. Len(sentTo[c]) : sentTo[c][k] < nmsg' /\ sentTo[c][k] <= nmsg'
    <3>1. Len(sentTo[c]) <= nmsg /\ \A k \in 1 .. Len(sentTo[c]) : sentTo[c][k] <= nmsg
      BY <1>t DEF Sent, InOrder
    <3> QED BY <1>i, <1>l, <2>1, <3>1
  <2>3. \A c \in Conns : Fresh(c)'
    BY <2>1, <2>2 DEF Fresh
  <2>4. InOrder'
    BY <1>t, <2>1, <2>2 DEF Sent, InOrder
  <2>5. nmsg' > 0
    BY <1>i, <2>1
  <2>6. pc' = "send" => i' = 1
    BY <1>6 DEF Publish, Push
  <2>7. pc' = "send" => \A j \in i' .. Len(peers') : Fresh(peers[j])'
    BY <1>p, <2>1, <2>3, <2>6
  <2> QED BY <2>3, <2>4, <2>5, <2>7 DEF Sent
<1>7. CASE DrainDone
  <2>1. CASE op = "publish"
    <3>1. pc' = "send" /\ i' = 1 /\ pc # "send" /\ UNCHANGED <<sentTo, nread, nmsg, peers>>
      BY <1>7, <2>1 DEF DrainDone
    <3>2. nmsg > 0 /\ \A c \in Conns : Fresh(c)
      BY <1>t, <2>1, <3>1 DEF Sent
    <3>3. \A j \in i' .. Len(peers') : Fresh(peers[j])'
      BY <1>p, <3>1, <3>2 DEF Fresh
    <3> QED BY <1>t, <3>1, <3>2, <3>3 DEF Sent, InOrder
  <2>2. CASE op # "publish"
    BY <1>1, <1>7, <2>2 DEF DrainDone
  <2> QED BY <2>1, <2>2
<1>8. CASE SendOk
  <2>1. /\ pc = "send" /\ pc' = "send" /\ i \in 1 .. Len(peers) /\ i' = i + 1
        /\ sentTo' = [sentTo EXCEPT ![peers[i]] = Append(@, nmsg)]
        /\ UNCHANGED <<nread, nmsg, peers>>
    BY <1>8, <1>i DEF SendOk
  <2>2. peers[i] \in Conns /\ Fresh(peers[i]) /\ nmsg > 0
    BY <1>t, <1>i, <1>p, <2>1 DEF Sent
  <2>3. InOrder' /\ \A d \in Conns : d # peers[i] => sentTo'[d] = sentTo[d]
    BY <1>t, <1>i, <2>1, <2>2, SentGrows DEF Sent
  <2>4. ASSUME NEW j \in i + 1 .. Len(peers) PROVE Fresh(peers[j])'
    <3>1. j \in 1 .. Len(peers) /\ j \in i .. Len(peers) /\ j # i
      BY <1>i
    <3>2. peers[j] # peers[i] /\ peers[j] \in Conns
      BY <1>d, <1>p, <2>1, <3>1 DEF Distinct
    <3>3. Fresh(peers[j])
      BY <1>t, <2>1, <3>1 DEF Sent
    <3> QED BY <2>1, <2>3, <3>2, <3>3 DEF Fresh
  <2> QED BY <2>1, <2>2, <2>3, <2>4 DEF Sent
<1>9. CASE SendLost
  <2>1. pc = "send" /\ i' = i + 1 /\ UNCHANGED <<sentTo, nread, nmsg, peers, op, pc>>
    BY <1>9 DEF SendLost
  <2>2. \A j \in i + 1 .. Len(peers) : j \in i .. Len(peers)
    BY <1>i
  <2> QED BY <1>t, <2>1, <2>2 DEF Sent, InOrder, Fresh
<1>10. CASE SendErr
  <2>1. /\ pc = "send" /\ i \in 1 .. Len(peers) /\ i' = i /\ UNCHANGED <<sentTo, nread, nmsg, op, pc>>
        /\ peers' = Front([peers EXCEPT ![i] = Last(peers)])
    BY <1>10, <1>i DEF SendErr, SwapRemove
  <2>2. \A k \in i .. Len(peers') : \E l \in i .. Len(peers) : peers'[k] = peers[l]
    BY <1>i, <1>d, <2>1, SwapRemoved
  <2>3. \A k \in i .. Len(peers') : Fresh(peers[k])'
    BY <1>t, <2>1, <2>2 DEF Sent, Fresh
  <2> QED BY <1>t, <2>1, <2>3 DEF Sent, InOrder
<1>11. CASE PushOk
  <2>1. /\ pc' = "idle" /\ op' = "none" /\ pc = "push"
        /\ sentTo' = [sentTo EXCEPT ![peers[i]] = Append(@, nmsg)] /\ UNCHANGED <<nread, nmsg>>
    BY <1>11 DEF PushOk
  <2>2. peers[i] \in Conns /\ Fresh(peers[i])
    BY <1>t, <2>1, PeersAreConns DEF Control, Sent
  <2>3. InOrder'
    BY <1>t, <1>i, <2>1, <2>2, SentGrows DEF Sent
  <2> QED BY <2>1, <2>3 DEF Sent
<1>12. CASE AcceptRaw \/ StreamAccept \/ StreamAccepted \/ AcceptPending
  BY <1>1, <1>12 DEF AcceptRaw, StreamAccept, StreamAccepted, AcceptPending
<1>13. CASE HandshakeEnds
  <2>1. UNCHANGED <<sentTo, nread, nmsg>> /\ pc' # "send" /\ pc = "handshake"
        /\ op' \in {"none", op}
    BY <1>13 DEF HandshakeEnds
  <2> QED BY <1>1, <2>1
<1>14. CASE RecvAny \/ YieldNow
  <2>1. UNCHANGED <<sentTo, nread, nmsg>> /\ PassOrNoPeers
    BY <1>14 DEF RecvAny, YieldNow
  <2> QED BY <1>1, <2>1 DEF PassOrNoPeers
<1>15. CASE SendDone \/ PushFails \/ FromEnds \/ PollMsg \/ Cancel \/ CancelAccept
  <2>1. CASE CancelAccept
    BY <1>1, <2>1 DEF CancelAccept
  <2>2. CASE SendDone \/ PushFails \/ FromEnds \/ PollMsg \/ Cancel
    <3>1. UNCHANGED <<sentTo, nread, nmsg>> /\ op' = "none" /\ pc' = "idle"
      BY <2>2 DEF SendDone, PushFails, FromEnds, PollMsg, Cancel
    <3> QED BY <1>1, <3>1
  <2> QED BY <1>15, <2>1, <2>2
<1>16. CASE PollErr \/ PollNone \/ PassDone
  <2>1. UNCHANGED <<sentTo, nread, nmsg, op>> /\ pc' # "send" /\ pc # "send"
    BY <1>16 DEF PollErr, PollNone, PassDone
  <2> QED BY <1>1, <2>1
<1> QED BY <1>2, <1>3, <1>4, <1>5, <1>6, <1>7, <1>8, <1>9, <1>10, <1>11, <1>12, <1>13, <1>14,
           <1>15, <1>16 DEF Next, HubStep

\* A step other than Connect and Dial turns no connection up or new, and only SendOk and PushOk
\* send.
LEMMA UpStays ==
    ASSUME IInv, Next, NEW c \in Conns, conn[c] # "new"
    PROVE  conn'[c] # "new" /\ (conn'[c] = "up" => conn[c] = "up" \/ pc = "idle")
<1> USE DEF hubvars, accvars, connvars, histvars
<1>t. ConnTypes /\ Control
  BY TypeParts DEF IInv
<1>1. ASSUME UNCHANGED conn PROVE conn'[c] # "new" /\ (conn'[c] = "up" => conn[c] = "up" \/ pc = "idle")
  BY <1>1
<1>2. ASSUME NEW S, CloseAll(S) PROVE conn'[c] # "new" /\ (conn'[c] = "up" => conn[c] = "up" \/ pc = "idle")
  BY <1>2, <1>t DEF CloseAll, ConnTypes
<1>3. CASE \E d \in Conns : Connect(d) \/ Break(d) \/ Dial(d)
  <2>1. PICK d \in Conns : Connect(d) \/ Break(d) \/ Dial(d)
    BY <1>3
  <2>2. CASE Connect(d)
    BY <1>t, <2>2 DEF Connect, ConnTypes
  <2>3. CASE Break(d)
    BY <1>t, <2>3 DEF Break, ConnTypes
  <2>4. CASE Dial(d)
    BY <1>t, <2>4 DEF Dial, ConnTypes, Control
  <2> QED BY <2>1, <2>2, <2>3, <2>4
<1>4. CASE \E d \in Conns : Hello(d) \/ Read(d) \/ Talk(d) \/ AddPeer(d) \/ RecvFrom(d)
  BY <1>1, <1>4 DEF Hello, Read, Talk, AddPeer, RecvFrom
<1>5. CASE \E n \in 1 .. sc.conns : WaitFor(n)
  BY <1>1, <1>5 DEF WaitFor
<1>6. CASE AcceptPending \/ Publish \/ Push \/ RecvAny \/ YieldNow \/ DrainDone
  BY <1>1, <1>6 DEF AcceptPending, Publish, Push, RecvAny, YieldNow, DrainDone
<1>7. CASE SendOk \/ SendLost \/ SendErr \/ SendDone \/ PushOk \/ PushFails \/ AcceptRaw \/ StreamAccept
  BY <1>1, <1>7 DEF SendOk, SendLost, SendErr, SendDone, PushOk, PushFails, AcceptRaw, StreamAccept
<1>8. CASE FromEnds \/ PollMsg \/ PollErr \/ PollNone \/ PassDone
  BY <1>1, <1>8 DEF FromEnds, PollMsg, PollErr, PollNone, PassDone
<1>9. CASE HandshakeEnds \/ StreamAccepted \/ Cancel \/ CancelAccept
  <2>1. UNCHANGED conn \/ \E S : CloseAll(S)
    BY <1>9 DEF HandshakeEnds, StreamAccepted, Cancel, CancelAccept, Close
  <2> QED BY <1>1, <1>2, <2>1
<1> QED BY <1>3, <1>4, <1>5, <1>6, <1>7, <1>8, <1>9 DEF Next, HubStep

\* Every step of the send loop deals with the peer at its index and skips none, whether it
\* goes on or lets swap_remove put another one there.
LEMMA ServedStep == ASSUME IInv, Next PROVE Served'
<1> USE DEF hubvars, accvars, connvars, histvars
<1>t. ConnTypes /\ HubTypes /\ Indices /\ Control /\ Where /\ Sent /\ Served
  BY TypeParts DEF IInv
<1>i. /\ peers \in Seq(Conns) /\ nmsg \in 0 .. MaxMsgs /\ targets \subseteq Conns
      /\ i \in Nat \ {0} /\ Len(peers) \in Nat
  BY <1>t, ConnIsNat DEF HubTypes
<1>d. Distinct(peers)
  BY <1>t DEF Where, Apart
<1>1. ASSUME pc' = "send" => pc = "send" /\ UNCHANGED <<i, peers, sentTo, nmsg, targets>>,
             pc' = "push" => pc = "push" /\ UNCHANGED <<i, peers, targets>>
      PROVE  Served'
  <2>1. ASSUME pc' = "send", NEW c \in targets' PROVE conn'[c] # "new" /\ Dealt(c)'
    <3>1. c \in targets /\ c \in Conns /\ pc = "send" /\ conn[c] # "new" /\ Dealt(c)
      BY <1>t, <1>i, <1>1, <2>1 DEF Served
    <3>2. conn'[c] # "new" /\ (conn'[c] = "up" => conn[c] = "up")
      BY <3>1, UpStays
    <3> QED BY <1>1, <2>1, <3>1, <3>2 DEF Dealt
  <2>2. pc' = "push" => targets' = {peers'[i']}
    BY <1>t, <1>1 DEF Served
  <2> QED BY <2>1, <2>2 DEF Served
<1>2. ASSUME NEW c \in Conns, \/ Connect(c) \/ Hello(c) \/ Read(c) \/ Talk(c) \/ Break(c)
                              \/ AddPeer(c) \/ RecvFrom(c)
      PROVE  Served'
  BY <1>1, <1>2 DEF Connect, Hello, Read, Talk, Break, AddPeer, RecvFrom
<1>3. ASSUME NEW c \in Conns, Dial(c) PROVE Served'
  BY <1>1, <1>3, <1>t DEF Dial, Control
<1>4. ASSUME NEW n \in 1 .. sc.conns, WaitFor(n) PROVE Served'
  BY <1>1, <1>4 DEF WaitFor
<1>5. ASSUME pc' = "send", i' = 1, targets' = Range(peers), UNCHANGED <<peers, conn>> PROVE Served'
  <2>1. ASSUME NEW c \in targets' PROVE conn'[c] # "new" /\ Dealt(c)'
    <3>1. c \in Range(peers)
      BY <1>5, <2>1
    <3>2. c \in Conns
      BY <1>i, <3>1, RangeWithin
    <3>3. conn[c] # "new"
      BY <1>t, <3>1, <3>2 DEF Where, Placed
    <3>4. PICK j \in 1 .. Len(peers) : peers[j] = c
      BY <1>i, <3>1, SeqRange
    <3> QED BY <1>5, <3>3, <3>4 DEF Dealt
  <2> QED BY <1>5, <2>1 DEF Served
<1>6. CASE Publish \/ DrainDone
  <2>1. CASE pc' = "send"
    BY <1>5, <1>6, <2>1 DEF Publish, DrainDone
  <2>2. CASE pc' # "send"
    BY <1>1, <1>6, <2>2 DEF Publish, DrainDone
  <2> QED BY <2>1, <2>2
<1>7. CASE Push
  BY <1>7 DEF Push, Served
<1>8. CASE SendOk
  <2>1. /\ pc = "send" /\ pc' = "send" /\ i \in 1 .. Len(peers) /\ i' = i + 1
        /\ sentTo' = [sentTo EXCEPT ![peers[i]] = Append(@, nmsg)]
        /\ UNCHANGED <<nread, nmsg, peers, targets, conn>>
    BY <1>8, <1>i DEF SendOk
  <2>2. peers[i] \in Conns /\ Fresh(peers[i])
    <3>1. i \in i .. Len(peers)
      BY <2>1
    <3> QED BY <1>t, <1>i, <2>1, <3>1 DEF Sent
  <2>3. /\ \A d \in Conns : d # peers[i] => sentTo'[d] = sentTo[d]
        /\ Len(sentTo'[peers[i]]) = Len(sentTo[peers[i]]) + 1
        /\ sentTo'[peers[i]][Len(sentTo[peers[i]]) + 1] = nmsg
    BY <1>t, <1>i, <2>1, <2>2, SentGrows DEF Sent
  <2>4. sentTo'[peers[i]] # <<>> /\ Last(sentTo'[peers[i]]) = nmsg
    <3>1. Len(sentTo[peers[i]]) \in Nat
      BY <1>t, <2>2 DEF ConnTypes
    <3>2. Len(sentTo'[peers[i]]) > 0 /\ sentTo'[peers[i]][Len(sentTo'[peers[i]])] = nmsg
      BY <2>3, <3>1
    <3>3. sentTo'[peers[i]] # <<>>
      BY <3>2
    <3> QED BY <3>2, <3>3 DEF Last
  <2>5. ASSUME NEW c \in targets PROVE conn'[c] # "new" /\ Dealt(c)'
    <3>1. c \in Conns /\ conn[c] # "new" /\ Dealt(c)
      BY <1>t, <1>i, <2>1 DEF Served
    <3>2. CASE c = peers[i]
      BY <2>1, <2>4, <3>1, <3>2 DEF Dealt
    <3>3. CASE c # peers[i]
      <4>1. \A j \in i .. Len(peers) : peers[j] = c => j \in i + 1 .. Len(peers)
        BY <1>i, <3>3
      <4> QED BY <2>1, <2>3, <3>1, <3>3, <4>1 DEF Dealt
    <3> QED BY <3>2, <3>3
  <2> QED BY <2>1, <2>5 DEF Served
<1>9. CASE SendLost \/ SendErr
  <2>1. /\ pc = "send" /\ pc' = "send" /\ i \in 1 .. Len(peers) /\ conn[peers[i]] # "up"
        /\ UNCHANGED <<sentTo, nmsg, targets, conn>>
    BY <1>9, <1>i DEF SendLost, SendErr
  <2>2. ASSUME NEW l \in i .. Len(peers), l # i PROVE \E k \in i' .. Len(peers') : peers'[k] = peers[l]
    <3>1. CASE SendLost
      <4>1. i' = i + 1 /\ peers' = peers /\ l \in i + 1 .. Len(peers)
        BY <1>i, <2>2, <3>1 DEF SendLost
      <4> QED BY <4>1
    <3>2. CASE SendErr
      <4>1. peers' = Front([peers EXCEPT ![i] = Last(peers)]) /\ i' = i
        BY <3>2 DEF SendErr, SwapRemove
      <4>2. i \in 1 .. Len(peers)
        BY <2>1
      <4>3. \E k \in i .. Len(peers') : peers'[k] = peers[l]
        <5> DEFINE t == Front([peers EXCEPT ![i] = Last(peers)])
        <5>1. \A j \in i .. Len(peers) : j # i => \E k \in i .. Len(t) : t[k] = peers[j]
          BY <1>i, <1>d, <4>2, SwapRemoved
        <5> HIDE DEF t
        <5>2. peers' = t
          BY <4>1 DEF t
        <5> QED BY <2>2, <5>1, <5>2
      <4> QED BY <4>1, <4>3
    <3> QED BY <1>9, <3>1, <3>2
  <2>3. ASSUME NEW c \in targets PROVE conn'[c] # "new" /\ Dealt(c)'
    <3>1. c \in Conns /\ conn[c] # "new" /\ Dealt(c)
      BY <1>t, <1>i, <2>1 DEF Served
    <3>2. CASE c = peers[i]
      BY <2>1, <3>1, <3>2 DEF Dealt
    <3>3. CASE c # peers[i]
      BY <2>1, <2>2, <3>1, <3>3 DEF Dealt
    <3> QED BY <3>2, <3>3
  <2> QED BY <2>1, <2>3 DEF Served
<1>10. CASE AcceptRaw \/ StreamAccept \/ StreamAccepted \/ AcceptPending
  BY <1>1, <1>10 DEF AcceptRaw, StreamAccept, StreamAccepted, AcceptPending
<1>11. CASE HandshakeEnds
  <2>1. pc' \notin {"send", "push"}
    BY <1>11 DEF HandshakeEnds
  <2> QED BY <1>1, <2>1
<1>12. CASE RecvAny \/ YieldNow
  <2>1. pc' \notin {"send", "push"}
    BY <1>12 DEF RecvAny, YieldNow, PassOrNoPeers
  <2> QED BY <1>1, <2>1
<1>13. CASE CancelAccept
  BY <1>1, <1>13 DEF CancelAccept
<1>14. CASE SendDone \/ PushOk \/ PushFails \/ FromEnds \/ PollMsg \/ Cancel \/ PollErr \/ PollNone \/ PassDone
  <2>1. pc' \notin {"send", "push"}
    BY <1>14 DEF SendDone, PushOk, PushFails, FromEnds, PollMsg, Cancel, PollErr, PollNone, PassDone
  <2> QED BY <1>1, <2>1
<1> QED BY <1>2, <1>3, <1>4, <1>6, <1>7, <1>8, <1>9, <1>10, <1>11, <1>12, <1>13, <1>14 DEF Next, HubStep

------------------------------------------------------------------------------
(* The rotation of Push0Fan *)

\* The turn of the next message is the position of a worker.
LEMMA TurnInRange ==
    ASSUME NEW m \in Nat, Len(peers) \in Nat, Len(peers) > 0
    PROVE  Turn(m + 1) = (m % Len(peers)) + 1 /\ Turn(m + 1) \in 1 .. Len(peers)
<1>1. Turn(m + 1) = (m % Len(peers)) + 1
  <2>1. (m + 1) - 1 = m
    OBVIOUS
  <2> QED BY <2>1 DEF Turn
<1>2. m % Len(peers) \in Nat /\ m % Len(peers) < Len(peers)
  BY DivMod
<1>3. (m % Len(peers)) + 1 \in 1 .. Len(peers)
  BY <1>2
<1> QED BY <1>1, <1>3

\* What the steps of a Push0Fan do to the rotation, but for the four that matter.
LEMMA FanSteps ==
    ASSUME IInv, Next, kind = "PushFan"
    PROVE  \/ HandshakeEnds \/ Push \/ PushOk \/ \E n \in 1 .. sc.conns : WaitFor(n)
           \/ /\ UNCHANGED <<peers, next, sentTo, nmsg, want, sc>>
              /\ op' = "wait" <=> op = "wait"
              /\ pc' = "push" => pc = "push" /\ i' = i
<1> USE DEF hubvars, accvars, connvars, histvars
<1>t. HubTypes /\ Control
  BY TypeParts DEF IInv
<1>c. /\ pc \in {"idle", "wait", "handshake", "push"} /\ ready = {} /\ acc = NoConn
      /\ pc \in {"wait", "handshake"} => op = "wait"
      /\ pc \in {"idle", "push"} => op # "wait"
  BY <1>t DEF Control, HubTypes
<1>1. CASE \E c \in Conns : Connect(c) \/ Hello(c) \/ Read(c) \/ Talk(c) \/ Break(c)
  BY <1>1 DEF Connect, Hello, Read, Talk, Break
<1>2. ASSUME NEW c \in Conns, AddPeer(c) \/ Dial(c) \/ RecvFrom(c) PROVE FALSE
  BY <1>2, <1>c DEF AddPeer, Dial, RecvFrom, Buses
<1>3. CASE AcceptPending \/ StreamAccept \/ StreamAccepted \/ Publish \/ RecvAny \/ CancelAccept
  BY <1>3, <1>c DEF AcceptPending, StreamAccept, StreamAccepted, Publish, RecvAny, CancelAccept, Buses
<1>4. CASE DrainDone \/ SendOk \/ SendLost \/ SendErr \/ SendDone \/ FromEnds
           \/ YieldNow \/ PollMsg \/ PollErr \/ PollNone \/ PassDone
  BY <1>4, <1>c DEF DrainDone, SendOk, SendLost, SendErr, SendDone, FromEnds, YieldNow,
                    PollMsg, PollErr, PollNone, PassDone
<1>5. CASE AcceptRaw
  BY <1>5, <1>c DEF AcceptRaw
<1>6. CASE PushFails
  BY <1>6, <1>c DEF PushFails
<1>7. CASE Cancel
  BY <1>7, <1>c DEF Cancel
<1> QED BY <1>1, <1>2, <1>3, <1>4, <1>5, <1>6, <1>7 DEF Next, HubStep

\* push() advances the rotation by one, also when the worker whose turn it was fails.
LEMMA RotationStep == ASSUME IInv, Next PROVE Rotation'
<1> USE DEF hubvars, accvars, connvars, histvars
<1>k. kind' = kind
  <2>1. UNCHANGED sc
    BY DEF Next, HubStep, Connect, Hello, Read, Talk, Break, AddPeer, Dial, RecvFrom, WaitFor, AcceptPending,
           StreamAccept, StreamAccepted, Publish, Push, RecvAny, AcceptRaw, DrainDone, HandshakeEnds,
           SendOk, SendLost, SendErr, SendDone, PushOk, PushFails, FromEnds, YieldNow, PollMsg, PollErr,
           PollNone, PassDone, Cancel, CancelAccept
  <2> QED BY <2>1 DEF kind
<1>s. SUFFICES ASSUME kind = "PushFan"
               PROVE  /\ want' > 0 /\ op' # "wait" => next' = Turn(nmsg + 1)'
                      /\ pc' = "push" => i' = Turn(nmsg)'
                      /\ \A c \in Conns : \A k \in 1 .. Len(sentTo'[c]) : c = peers'[Turn(sentTo[c][k])']
  BY <1>k DEF Rotation
<1>t. ConnTypes /\ HubTypes /\ Indices /\ Control /\ Sent /\ Rotation
  BY TypeParts DEF IInv
<1>i. /\ peers \in Seq(Conns) /\ nmsg \in 0 .. MaxMsgs /\ nmsg \in Nat /\ Len(peers) \in Nat
  BY <1>t, ConnIsNat DEF HubTypes
<1>z. ASSUME nmsg = 0, NEW c \in Conns PROVE Len(sentTo[c]) = 0
  <2>1. Len(sentTo[c]) <= 0 /\ Len(sentTo[c]) \in Nat
    BY <1>t, <1>z DEF Sent, InOrder, ConnTypes
  <2> QED BY <2>1
<1>1. CASE HandshakeEnds
  <2>1. op = "wait" /\ nmsg = 0 /\ next = 1 /\ UNCHANGED <<next, nmsg, sentTo, want>> /\ pc' # "push"
    BY <1>1, <1>s, <1>t DEF HandshakeEnds, Control
  <2>2. ASSUME want' > 0, op' # "wait" PROVE next' = Turn(nmsg + 1)'
    <3>1. Len(peers') > 0 /\ Len(peers') \in Nat
      BY <1>k, <1>s, <2>2, ControlStep, HubTypesStep DEF Control, HubTypes
    <3>2. 0 % Len(peers') = 0
      BY <3>1
    <3>3. Turn(nmsg + 1)' = (0 % Len(peers')) + 1
      BY <2>1 DEF Turn
    <3> QED BY <2>1, <3>2, <3>3
  <2> QED BY <1>z, <2>1, <2>2
<1>2. CASE Push
  <2>1. /\ nmsg' = nmsg + 1 /\ i' = next /\ next' = (next % Len(peers)) + 1 /\ UNCHANGED <<peers, sentTo, want>>
        /\ want > 0 /\ op # "wait" /\ Len(peers) > 0
    BY <1>2, <1>s, <1>t DEF Push, Constructed, Control
  <2>2. next = Turn(nmsg + 1) /\ Turn(nmsg + 1) = (nmsg % Len(peers)) + 1
    BY <1>s, <1>t, <1>i, <2>1, TurnInRange DEF Rotation
  <2>3. i' = Turn(nmsg)'
    BY <2>1, <2>2 DEF Turn
  <2>4. next' = Turn(nmsg + 1)'
    <3>1. next % Len(peers) = (nmsg + 1) % Len(peers)
      BY <1>i, <2>1, <2>2, NextTurn
    <3>2. Turn(nmsg + 1)' = ((nmsg + 1) % Len(peers)) + 1
      <4>1. (nmsg' + 1) - 1 = nmsg + 1
        BY <1>i, <2>1
      <4> QED BY <2>1, <4>1 DEF Turn
    <3> QED BY <2>1, <3>1, <3>2
  <2>5. \A c \in Conns : \A k \in 1 .. Len(sentTo'[c]) : c = peers'[Turn(sentTo[c][k])']
    BY <1>s, <1>t, <2>1 DEF Rotation, Turn
  <2> QED BY <2>3, <2>4, <2>5
<1>3. CASE PushOk
  <2>1. /\ UNCHANGED <<peers, next, nmsg, want>> /\ pc' = "idle" /\ pc = "push" /\ op # "wait"
        /\ sentTo' = [sentTo EXCEPT ![peers[i]] = Append(@, nmsg)] /\ UNCHANGED nread
    BY <1>3, <1>t DEF PushOk, Control
  <2>2. peers[i] \in Conns /\ Fresh(peers[i]) /\ i = Turn(nmsg)
    BY <1>s, <1>t, <2>1, PeersAreConns DEF Control, Sent, Rotation
  <2>3. /\ \A d \in Conns : d # peers[i] => sentTo'[d] = sentTo[d]
        /\ Len(sentTo'[peers[i]]) = Len(sentTo[peers[i]]) + 1
        /\ sentTo'[peers[i]][Len(sentTo[peers[i]]) + 1] = nmsg
        /\ \A k \in 1 .. Len(sentTo[peers[i]]) : sentTo'[peers[i]][k] = sentTo[peers[i]][k]
    BY <1>t, <1>i, <2>1, <2>2, SentGrows DEF Sent
  <2>4. ASSUME NEW c \in Conns, NEW k \in 1 .. Len(sentTo'[c]) PROVE c = peers'[Turn(sentTo[c][k])']
    <3>1. Turn(sentTo[c][k])' = ((sentTo'[c][k] - 1) % Len(peers)) + 1
      BY <2>1 DEF Turn
    <3>2. CASE c # peers[i]
      <4>1. sentTo'[c] = sentTo[c]
        BY <2>3, <3>2
      <4> QED BY <1>s, <1>t, <2>1, <2>4, <3>1, <4>1 DEF Rotation, Turn
    <3>3. CASE c = peers[i] /\ k # Len(sentTo[peers[i]]) + 1
      <4>1. Len(sentTo[c]) \in Nat
        BY <1>t DEF ConnTypes
      <4>2. k \in 1 .. Len(sentTo[c]) /\ sentTo'[c][k] = sentTo[c][k]
        BY <2>3, <2>4, <3>3, <4>1
      <4> QED BY <1>s, <1>t, <2>1, <3>1, <4>2 DEF Rotation, Turn
    <3>4. CASE c = peers[i] /\ k = Len(sentTo[peers[i]]) + 1
      <4>1. sentTo'[c][k] = nmsg
        BY <2>3, <3>4
      <4> QED BY <2>1, <2>2, <3>1, <3>4, <4>1 DEF Turn
    <3> QED BY <3>2, <3>3, <3>4
  <2>5. want' > 0 /\ op' # "wait" => next' = Turn(nmsg + 1)'
    BY <1>s, <1>t, <2>1 DEF Rotation, Turn
  <2> QED BY <2>1, <2>4, <2>5
<1>4. CASE \E n \in 1 .. sc.conns : WaitFor(n)
  <2>1. op' = "wait" /\ pc' = "wait" /\ UNCHANGED <<peers, sentTo>>
    BY <1>4 DEF WaitFor
  <2> QED BY <1>s, <1>t, <2>1 DEF Rotation, Turn
<1>5. CASE /\ UNCHANGED <<peers, next, sentTo, nmsg, want, sc>>
           /\ op' = "wait" <=> op = "wait"
           /\ pc' = "push" => pc = "push" /\ i' = i
  BY <1>s, <1>t, <1>5 DEF Rotation, Turn
<1> QED BY <1>s, <1>1, <1>2, <1>3, <1>4, <1>5, FanSteps

\* Every step keeps the loop indices within the list of peers.
LEMMA IndicesStep == ASSUME IInv, Next PROVE Indices'
<1> USE DEF hubvars, accvars, connvars, histvars
<1>t. HubTypes /\ Indices /\ Control
  BY TypeParts DEF IInv
<1>1. ASSUME kind' = "PushFan", Constructed' PROVE next' \in DOMAIN peers'
  <2>1. Control' /\ HubTypes' /\ Rotation'
    BY ControlStep, HubTypesStep, RotationStep
  <2>2. want' > 0 /\ op' # "wait"
    BY <1>1 DEF Constructed
  <2>3. peers' \in Seq(Conns) /\ Len(peers') \in Nat /\ Len(peers') > 0 /\ next' = Turn(nmsg + 1)' /\ nmsg' \in Nat
    BY <1>1, <2>1, <2>2, ConnIsNat DEF Control, HubTypes, Rotation
  <2>4. Turn(nmsg + 1)' \in 1 .. Len(peers')
    <3>1. Turn(nmsg + 1)' = (nmsg' % Len(peers')) + 1
      <4>1. nmsg' \in Nat
        BY <2>3
      <4>2. \A m \in Nat : (m + 1) - 1 = m
        OBVIOUS
      <4> QED BY <4>1, <4>2 DEF Turn
    <3>2. nmsg' % Len(peers') \in Nat /\ nmsg' % Len(peers') < Len(peers')
      BY <2>3, DivMod
    <3>3. (nmsg' % Len(peers')) + 1 \in 1 .. Len(peers')
      BY <2>3, <3>2
    <3> QED BY <3>1, <3>3
  <2> QED BY <2>3, <2>4
<1>2. ASSUME pc' \in {"push", "from"} => pc = pc' /\ UNCHANGED <<i, peers>>
      PROVE  pc' \in {"push", "from"} => i' \in DOMAIN peers'
  BY <1>t, <1>2 DEF Indices
<1>3. pc' \in {"push", "from"} => i' \in DOMAIN peers'
  <2>1. CASE \E c \in Conns : Connect(c) \/ Hello(c) \/ Read(c) \/ Talk(c) \/ Break(c) \/ AddPeer(c)
    BY <1>2, <2>1 DEF Connect, Hello, Read, Talk, Break, AddPeer
  <2>2. CASE \E c \in Conns : Dial(c)
    BY <1>2, <1>t, <2>2 DEF Dial, Control
  <2>3. CASE \E c \in Conns : RecvFrom(c)
    <3>1. PICK c \in Conns : RecvFrom(c)
      BY <2>3
    <3>2. c \in 1 .. Len(peers) /\ i' = c /\ peers' = peers
      BY <3>1, <1>t, ConnIsNat DEF RecvFrom, HubTypes, NoConn
    <3> QED BY <1>t, <3>2 DEF HubTypes
  <2>4. CASE \E n \in 1 .. sc.conns : WaitFor(n)
    BY <1>2, <2>4 DEF WaitFor
  <2>5. CASE Push
    BY <1>t, <2>5 DEF Push, Indices
  <2>6. CASE AcceptPending \/ StreamAccept \/ StreamAccepted \/ Publish \/ AcceptRaw \/ DrainDone \/ CancelAccept
    BY <1>2, <2>6 DEF AcceptPending, StreamAccept, StreamAccepted, Publish, AcceptRaw, DrainDone, CancelAccept
  <2>7. CASE HandshakeEnds \/ RecvAny \/ YieldNow \/ Cancel
    <3>1. pc' \notin {"push", "from"}
      BY <2>7 DEF HandshakeEnds, RecvAny, YieldNow, PassOrNoPeers, Cancel
    <3> QED BY <3>1
  <2>8. CASE SendOk \/ SendLost \/ SendErr \/ SendDone \/ PushOk \/ PushFails
    BY <1>2, <2>8 DEF SendOk, SendLost, SendErr, SendDone, PushOk, PushFails
  <2>9. CASE FromEnds \/ PollMsg \/ PollErr \/ PollNone \/ PassDone
    BY <1>2, <2>9 DEF FromEnds, PollMsg, PollErr, PollNone, PassDone
  <2> QED BY <2>1, <2>2, <2>3, <2>4, <2>5, <2>6, <2>7, <2>8, <2>9 DEF Next, HubStep
<1> QED BY <1>1, <1>3 DEF Indices

------------------------------------------------------------------------------
(* The theorems *)

\* A new hub satisfies the invariant.
LEMMA IInvInit == Init => IInv
<1> SUFFICES ASSUME Init PROVE IInv
  OBVIOUS
<1>1. <<>> \in Seq(Conns) /\ <<>> \in Seq(1 .. MaxMsgs) /\ Len(<<>>) = 0
  OBVIOUS
<1>2. ConnTypes
  BY <1>1, ConnIsNat DEF Init, ConnTypes
<1>3. HubTypes
  <2>1. sc.cancels \in Nat
    BY FanoutAssumption DEF Init, Scenario
  <2> QED BY <1>1, <2>1, ConnIsNat DEF Init, HubTypes
<1>4. Indices
  BY DEF Init, Indices, Constructed, kind
<1>5. Control
  BY DEF Init, Control, kind
<1>6. Where
  <2>1. Range(peers) = {} /\ Range(backlog) = {}
    BY RangeOfEmpty DEF Init
  <2>2. Distinct(peers) /\ Distinct(backlog)
    BY <1>1 DEF Init, Distinct
  <2> QED BY <2>1, <2>2, ConnIsNat DEF Init, Where, Apart, Placed
<1>7. Sent
  BY <1>1 DEF Init, Sent, InOrder
<1>8. Served
  BY DEF Init, Served
<1>9. Rotation
  BY <1>1 DEF Init, Rotation
<1> QED BY <1>2, <1>3, <1>4, <1>5, <1>6, <1>7, <1>8, <1>9, TypeParts DEF IInv

\* Every step keeps it.
LEMMA IInvNext == IInv /\ [Next]_vars => IInv'
<1> SUFFICES ASSUME IInv, [Next]_vars PROVE IInv'
  OBVIOUS
<1>1. CASE Next
  <2>1. TypeOK'
    <3>1. ConnTypes' /\ HubTypes' /\ Indices'
      BY <1>1, ConnTypesStep, HubTypesStep, IndicesStep
    <3> QED BY <3>1 DEF TypeOK, ConnTypes, HubTypes, Indices
  <2> QED BY <1>1, <2>1, ControlStep, WhereStep, SentStep, ServedStep, RotationStep DEF IInv
<1>2. CASE UNCHANGED vars
  <2>1. /\ UNCHANGED <<sc, peers, next, pc, op, want, i, shaking, acc, ready>>
        /\ UNCHANGED <<conn, hello, backlog, sentTo, nread, inbox, nmsg, targets, cancels>>
    BY <1>2 DEF vars, hubvars, accvars, connvars, histvars
  <2>2. TypeOK'
    BY <2>1 DEF IInv, TypeOK, kind, Constructed
  <2>3. Control'
    BY <2>1 DEF IInv, Control, kind
  <2>4. Where'
    BY <2>1 DEF IInv, Where, Apart, Placed
  <2>5. Sent'
    BY <2>1 DEF IInv, Sent, InOrder, Fresh
  <2>6. Served'
    BY <2>1 DEF IInv, Served, Dealt
  <2>7. Rotation'
    BY <2>1 DEF IInv, Rotation, Turn, kind
  <2> QED BY <2>2, <2>3, <2>4, <2>5, <2>6, <2>7 DEF IInv
<1> QED BY <1>1, <1>2

\* It holds in every reachable state.
LEMMA IInvAlways == Spec => []IInv
BY IInvInit, IInvNext, PTL DEF Spec

\* Every hub keeps its types; in particular the index that push() uses without a check, and
\* the one that recv_from() has checked, are those of peers.
THEOREM FanoutTypes == Spec => []TypeOK
<1>1. IInv => TypeOK
  BY DEF IInv
<1> QED BY <1>1, IInvAlways, PTL

\* publish(), broadcast() and recv_any() never remove a peer that is up, and no connection
\* becomes a peer twice, whichever peers swap_remove moves.
THEOREM FanoutKeepsLivePeers == Spec => []LivePeersKept
<1>1. IInv => LivePeersKept
  BY DEF IInv, Where, Apart, Distinct, Placed, LivePeersKept
<1> QED BY <1>1, IInvAlways, PTL

\* Only a future dropped in the handshake, or the end of a Push0Fan's listener, closes a
\* connection whose peer kept to the handshake.
THEOREM FanoutClosedOnlyByDrop == Spec => ClosedOnlyByDrop
<1> DEFINE Justified(c) == \/ c \in {shaking, acc} /\ cancels' = cancels + 1
                           \/ kind = "PushFan" /\ c \in Range(backlog)
<1>1. ASSUME IInv, [Next]_vars, NEW c \in Conns, conn[c] = "up", hello[c] = "good", conn'[c] = "closed"
      PROVE  Justified(c)
  <2> USE DEF hubvars, accvars, connvars, histvars
  <2>t. conn \in [Conns -> {"new", "up", "broken", "closed"}]
    BY <1>1, TypeParts DEF IInv, ConnTypes
  <2>1. ASSUME UNCHANGED conn PROVE FALSE
    BY <1>1, <2>1
  <2>2. ASSUME NEW S, CloseAll(S) PROVE c \in S
    BY <1>1, <2>2 DEF CloseAll
  <2>3. ASSUME NEW d \in Conns, Connect(d) \/ Dial(d) \/ Break(d) PROVE FALSE
    BY <1>1, <2>t, <2>3 DEF Connect, Dial, Break
  <2>4. CASE HandshakeEnds
    <3>1. PICK ok \in Outcomes(shaking) :
              CloseAll((IF ok THEN {} ELSE {shaking})
                  \cup (IF (op = "wait" /\ Len(peers') >= want) /\ kind = "PushFan" THEN Range(backlog) ELSE {}))
      BY <2>4 DEF HandshakeEnds
    <3>2. c = shaking => ok
      BY <1>1 DEF Outcomes
    <3> QED BY <2>2, <3>1, <3>2
  <2>5. CASE StreamAccepted
    <3>1. PICK ok \in Outcomes(acc) : IF ok THEN UNCHANGED conn ELSE CloseAll({acc})
      BY <2>5 DEF StreamAccepted, Close
    <3>2. c = acc => ok
      BY <1>1 DEF Outcomes
    <3> QED BY <2>1, <2>2, <3>1, <3>2
  <2>6. CASE Cancel
    BY <2>1, <2>2, <2>6 DEF Cancel, Close
  <2>7. CASE CancelAccept
    BY <2>2, <2>7 DEF CancelAccept, Close
  <2>8. ASSUME NEW d \in Conns, Hello(d) \/ Read(d) \/ Talk(d) \/ AddPeer(d) \/ RecvFrom(d) PROVE FALSE
    BY <2>1, <2>8 DEF Hello, Read, Talk, AddPeer, RecvFrom
  <2>9. ASSUME NEW n, WaitFor(n) PROVE FALSE
    BY <2>1, <2>9 DEF WaitFor
  <2>10. CASE AcceptPending \/ StreamAccept \/ Publish \/ Push \/ RecvAny
    BY <2>1, <2>10 DEF AcceptPending, StreamAccept, Publish, Push, RecvAny
  <2>11. CASE AcceptRaw \/ DrainDone \/ SendOk \/ SendLost \/ SendErr \/ SendDone
    BY <2>1, <2>11 DEF AcceptRaw, DrainDone, SendOk, SendLost, SendErr, SendDone
  <2>12. CASE PushOk \/ PushFails \/ FromEnds \/ YieldNow \/ PollMsg \/ PollErr \/ PollNone \/ PassDone
    BY <2>1, <2>12 DEF PushOk, PushFails, FromEnds, YieldNow, PollMsg, PollErr, PollNone, PassDone
  <2>13. CASE UNCHANGED vars
    BY <2>1, <2>13 DEF vars
  <2> HIDE DEF Justified
  <2> QED BY <1>1, <2>3, <2>4, <2>5, <2>6, <2>7, <2>8, <2>9, <2>10, <2>11, <2>12, <2>13 DEF Next, HubStep
<1>2. ASSUME IInv, [Next]_vars
      PROVE  [\A c \in Conns : conn[c] = "up" /\ hello[c] = "good" /\ conn'[c] = "closed"
                                  => Justified(c)]_vars
  BY <1>1, <1>2
<1> QED BY <1>2, IInvAlways, PTL DEF ClosedOnlyByDrop, Spec

\* No peer gets a message twice or out of order, and message m of a Push0Fan goes to the
\* worker whose turn it is, for every number of workers.
THEOREM FanoutInTurn == Spec => []InTurn
<1>1. IInv => InTurn
  <2> SUFFICES ASSUME IInv, NEW c \in Conns
               PROVE  /\ \A j, k \in 1 .. Len(sentTo[c]) : j < k => sentTo[c][j] < sentTo[c][k]
                      /\ kind = "PushFan" =>
                            \A m \in Range(sentTo[c]) : c = peers[((m - 1) % Len(peers)) + 1]
    BY DEF InTurn
  <2>1. \A j, k \in 1 .. Len(sentTo[c]) : j < k => sentTo[c][j] < sentTo[c][k]
    BY DEF IInv, Sent, InOrder
  <2>2. ASSUME kind = "PushFan", NEW m \in Range(sentTo[c])
        PROVE  c = peers[((m - 1) % Len(peers)) + 1]
    <3>1. sentTo[c] \in Seq(1 .. MaxMsgs)
      BY DEF IInv, TypeOK
    <3>2. PICK k \in 1 .. Len(sentTo[c]) : sentTo[c][k] = m
      BY <2>2, <3>1, SeqRange
    <3> QED BY <2>2, <3>2 DEF IInv, Rotation, Turn
  <2> QED BY <2>1, <2>2
<1> QED BY <1>1, IInvAlways, PTL

\* When publish(), broadcast() or push() ends, every peer it started with has been sent the
\* message or is down: the removals on the way make the loop skip nobody.
THEOREM FanoutReachesAll == Spec => ReachesAll
<1> DEFINE Reached == SendDone \/ PushOk \/ PushFails =>
                         \A c \in targets : \/ conn[c] # "up"
                                            \/ sentTo'[c] # <<>> /\ Last(sentTo'[c]) = nmsg
<1>1. ASSUME IInv PROVE [Reached]_vars
  <2> SUFFICES ASSUME SendDone \/ PushOk \/ PushFails, NEW c \in targets, conn[c] = "up"
               PROVE  sentTo'[c] # <<>> /\ Last(sentTo'[c]) = nmsg
    OBVIOUS
  <2>t. ConnTypes /\ HubTypes /\ Indices /\ Control /\ Sent /\ Served
    BY <1>1, TypeParts DEF IInv
  <2>1. CASE SendDone
    <3>1. pc = "send" /\ i > Len(peers) /\ UNCHANGED sentTo /\ i \in Nat /\ Len(peers) \in Nat
      BY <2>1, <2>t DEF SendDone, connvars, HubTypes
    <3>2. Dealt(c) /\ i .. Len(peers) = {}
      BY <2>t, <3>1 DEF Served
    <3> QED BY <3>1, <3>2 DEF Dealt
  <2>2. CASE PushOk
    <3>1. /\ pc = "push" /\ c = peers[i] /\ nmsg \in 0 .. MaxMsgs
          /\ sentTo' = [sentTo EXCEPT ![peers[i]] = Append(@, nmsg)] /\ UNCHANGED <<nread, nmsg>>
      BY <2>2, <2>t DEF PushOk, Served, HubTypes, histvars
    <3>2. peers[i] \in Conns /\ Fresh(peers[i])
      BY <2>t, <3>1, PeersAreConns DEF Control, Sent
    <3>3. Len(sentTo'[c]) = Len(sentTo[c]) + 1 /\ sentTo'[c][Len(sentTo[c]) + 1] = nmsg
      BY <2>t, <3>1, <3>2, SentGrows DEF Sent
    <3>4. Len(sentTo[c]) \in Nat
      BY <2>t, <3>1, <3>2 DEF ConnTypes
    <3>5. Len(sentTo'[c]) > 0 /\ sentTo'[c][Len(sentTo'[c])] = nmsg
      BY <3>3, <3>4
    <3>6. sentTo'[c] # <<>>
      BY <3>5
    <3> QED BY <3>5, <3>6 DEF Last
  <2>3. CASE PushFails
    BY <2>3, <2>t DEF PushFails, Served
  <2> QED BY <2>1, <2>2, <2>3
<1> QED BY <1>1, IInvAlways, PTL DEF ReachesAll
=============================================================================
