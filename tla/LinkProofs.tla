----------------------------- MODULE LinkProofs -----------------------------
(***************************************************************************)
(* Proofs about how two ends get at each other.  Connect and Handshake:    *)
(* for every set of protocols, known and unknown, every length of          *)
(* handshake and first frame, every stream capacity, all schemes, and all  *)
(* orders in which ends come, fail and are dropped.  Sub0, which dials     *)
(* again when its connection is lost: for all ReconnectOptions, prefixes   *)
(* and bodies.  Datagram, where there is no connection: for every set of   *)
(* clients and every number of calls, of lost, doubled and foreign         *)
(* datagrams, crashes and dropped futures.                                 *)
(***************************************************************************)
EXTENDS Connect, Sub0, Datagram, TLAPS

------------------------------------------------------------------------------
(* The tables of codec.rs *)

\* expected_peer is its own inverse: if one end expects the other's protocol, the
\* other expects the first one's.
LEMMA ExpectedPeerInverse ==
    ASSUME NEW p, NEW q, q = expected_peer(p)
    PROVE  p = expected_peer(q)
  BY DEF expected_peer

\* A known protocol and the one it expects are a documented pair.
LEMMA ExpectedPairs ==
    ASSUME NEW p \in Known
    PROVE  {p, expected_peer(p)} \in Pairs
  BY DEF Known, Pairs, expected_peer

\* The WebSocket names tell known protocols apart, except the two PAIRs.
LEMMA NamesPair ==
    ASSUME NEW p, NEW q, p \in Known \/ q \in Known,
           ws_subprotocol(expected_peer(p)) = ws_subprotocol(q)
    PROVE  {p, q} \in Pairs \/ {p, q} = {"PAIR0", "PAIR1"}
  BY DEF Known, Pairs, expected_peer, ws_subprotocol

\* A program that names no subprotocol does not name that of any SP protocol.
LEMMA NoName ==
    ASSUME NEW p PROVE ws_subprotocol(p) # "none"
  BY DEF ws_subprotocol

------------------------------------------------------------------------------
(* The handshake *)

\* On a byte stream an end that has accepted or found the other incompatible has
\* read exactly the handshake, and its result is what the two protocols say.
SpDecided == scheme = "sp" => \A e \in Ends :
    /\ st[e] = "ok" => verdict(e) = "ok" /\ read[e] = HsLen
    /\ st[e] = "IncompatibleProtocol" => verdict(e) = "IncompatibleProtocol"

\* Does the listener have the name the dialer asks for?
NamesFit == ws_subprotocol(expected_peer(proto["dialer"])) = ws_subprotocol(proto["listener"])

Both == \A e \in Ends : form[e] = "sp"

\* In a WebSocket upgrade an SP end that has accepted knows that the other is one and
\* what the names say; of two SP ends one that has refused knows that too, and the
\* listener has answered because it has decided.
WsDecided == scheme = "ws" =>
    /\ \A e \in Ends : /\ form[e] = "sp" /\ st[e] = "ok" => Both /\ NamesFit
                       /\ Both /\ st[e] = "IncompatibleProtocol" => ~NamesFit
    /\ Both /\ wrote["listener"] = HsLen
          => st["listener"] \in {"ok", "IncompatibleProtocol"}

HsInv == HsTypeOK /\ SpDecided /\ WsDecided

\* A step of the handshake, or the failure of an end on the way to it.
HsNext ==
    \/ \E e \in Ends :
          \/ \E n \in 1 .. StreamCap : WriteSome(e, n) \/ ReadSome(e, n) \/ SendFrame(e, n)
          \/ WriteErr(e) \/ ReadErr(e) \/ WsErr(e) \/ Drop(e)
          \/ \E r \in {"NotConnected", "Closed", "InvalidMagic"} : Undecided(e) /\ Fails(e, r)
    \/ WsRequest \/ WsUpgrade \/ WsResponse \/ Break

\* The initial states of the handshake satisfy the invariant.
LEMMA HsInvInit == HsInit => HsInv
  <1> SUFFICES ASSUME HsInit PROVE HsInv
    OBVIOUS
  <1> USE HandshakeAssumption DEF HandshakeAssumption, HsInit, Ends
  <1>1. HsTypeOK
    <2>1. st \in [Ends -> Results \cup {"writing", "reading"}]
      BY DEF Results
    <2>2. wrote \in [Ends -> 0 .. HsLen + FrameLen] /\ read \in [Ends -> 0 .. HsLen]
      OBVIOUS
    <2> QED BY <2>1, <2>2 DEF HsTypeOK
  <1>2. SpDecided /\ WsDecided
    BY DEF SpDecided, WsDecided
  <1> QED BY <1>1, <1>2 DEF HsInv

\* An end whose call fails or is dropped neither accepts nor refuses the other.
LEMMA FailureKeeps ==
    ASSUME HsInv, NEW e \in Ends, NEW r \in Results \ {"ok", "IncompatibleProtocol"},
           Undecided(e), Fails(e, r)
    PROVE  HsInv'
  <1> USE DEF Ends
  <1>1. /\ st' = [st EXCEPT ![e] = r] /\ UNCHANGED <<scheme, proto, form, wrote, read, broken>>
        /\ st[e] \in {"writing", "reading"}
    BY DEF Fails, Finish, Undecided
  <1>2. HsTypeOK'
    BY <1>1 DEF HsInv, HsTypeOK
  <1>3. SpDecided'
    BY <1>1 DEF HsInv, HsTypeOK, SpDecided, verdict, Other
  <1>4. WsDecided'
    BY <1>1 DEF HsInv, HsTypeOK, WsDecided, NamesFit, Both
  <1> QED BY <1>2, <1>3, <1>4 DEF HsInv

\* Steps of the handshake preserve the invariant.
LEMMA HsInvStep == HsInv /\ [HsNext]_hsvars => HsInv'
  <1> SUFFICES ASSUME HsInv, [HsNext]_hsvars PROVE HsInv'
    OBVIOUS
  <1> USE HandshakeAssumption DEF HandshakeAssumption, Ends
  <1>0. HsTypeOK /\ SpDecided /\ WsDecided
    BY DEF HsInv
  <1>1. ASSUME NEW e \in Ends, NEW n \in 1 .. StreamCap, WriteSome(e, n) PROVE HsInv'
    <2>1. HsTypeOK'
      BY <1>0, <1>1 DEF WriteSome, Finish, HsTypeOK
    <2>2. SpDecided' /\ WsDecided'
      BY <1>0, <1>1 DEF WriteSome, Finish, HsTypeOK, SpDecided, WsDecided, verdict, Other
    <2> QED BY <2>1, <2>2 DEF HsInv
  <1>2. ASSUME NEW e \in Ends, NEW n \in 1 .. StreamCap, ReadSome(e, n) PROVE HsInv'
    <2>1. verdict(e) \in Results
      BY DEF verdict, Results, Errors
    <2>2. HsTypeOK'
      BY <1>0, <1>2, <2>1 DEF ReadSome, Finish, HsTypeOK
    <2>3. SpDecided' /\ WsDecided'
      BY <1>0, <1>2 DEF ReadSome, Finish, HsTypeOK, SpDecided, WsDecided, verdict, Other
    <2> QED BY <2>2, <2>3 DEF HsInv
  <1>3. ASSUME NEW e \in Ends, NEW n \in 1 .. StreamCap, SendFrame(e, n) PROVE HsInv'
    <2>1. HsTypeOK'
      BY <1>0, <1>3 DEF SendFrame, HsTypeOK
    <2>2. SpDecided' /\ WsDecided'
      BY <1>0, <1>3 DEF SendFrame, HsTypeOK, SpDecided, WsDecided, verdict, Other
    <2> QED BY <2>1, <2>2 DEF HsInv
  <1>4. ASSUME NEW e \in Ends, WriteErr(e) PROVE HsInv'
    <2>1. HsTypeOK'
      BY <1>0, <1>4 DEF WriteErr, Finish, HsTypeOK, Results, Errors
    <2>2. SpDecided' /\ WsDecided'
      BY <1>0, <1>4 DEF WriteErr, Finish, HsTypeOK, SpDecided, WsDecided, verdict, Other
    <2> QED BY <2>1, <2>2 DEF HsInv
  <1>5. ASSUME NEW e \in Ends, NEW r \in {"NotConnected", "Closed", "InvalidMagic"},
               Undecided(e), Fails(e, r)
        PROVE  HsInv'
    BY <1>5, FailureKeeps DEF Results, Errors
  <1>6. ASSUME NEW e \in Ends, ReadErr(e) \/ WsErr(e) PROVE HsInv'
    <2>1. Undecided(e) /\ Fails(e, "Closed")
      BY <1>6 DEF ReadErr, WsErr, Undecided, Fails
    <2> QED BY <2>1, FailureKeeps DEF Results, Errors
  <1>7. ASSUME NEW e \in Ends, Drop(e) PROVE HsInv'
    <2>1. Undecided(e) /\ Fails(e, "dropped")
      BY <1>7 DEF Drop, Undecided, Fails
    <2> QED BY <2>1, FailureKeeps DEF Results, Errors
  <1>8. CASE WsRequest
    <2>1. HsTypeOK'
      BY <1>0, <1>8 DEF WsRequest, Finish, HsTypeOK
    <2>2. SpDecided' /\ WsDecided'
      BY <1>0, <1>8 DEF WsRequest, Finish, HsTypeOK, SpDecided, WsDecided, NamesFit, Both
    <2> QED BY <2>1, <2>2 DEF HsInv
  <1>9. CASE WsUpgrade
    <2> DEFINE r == IF "http" \in {form[e] : e \in Ends} THEN "Closed"
                    ELSE IF form["listener"] = "sp" /\ Wanted # Echoed
                    THEN "IncompatibleProtocol" ELSE "ok"
               w == IF form["dialer"] = "http" THEN 0 ELSE HsLen
    <2>1. /\ scheme = "ws" /\ UNCHANGED <<scheme, proto, form, read, broken>>
          /\ wrote' = [wrote EXCEPT !["listener"] = w]
          /\ st' = [st EXCEPT !["listener"] = r]
      BY <1>9 DEF WsUpgrade, Finish
    <2>2. r \in Results /\ w \in 0 .. HsLen + FrameLen
      BY DEF Results, Errors
    <2>3. HsTypeOK'
      BY <1>0, <2>1, <2>2 DEF HsTypeOK
    <2>4. (NamesFit' <=> NamesFit) /\ (Both' <=> Both)
      BY <2>1 DEF NamesFit, Both
    <2>5. Both => r = IF NamesFit THEN "ok" ELSE "IncompatibleProtocol"
      BY DEF Both, NamesFit, Wanted, Echoed
    <2>6. form["listener"] = "sp" /\ r = "ok" => Both /\ NamesFit
      BY NoName DEF Both, NamesFit, Wanted, Echoed
    <2> HIDE DEF r, w
    <2>7. SpDecided'
      BY <2>1 DEF SpDecided
    <2>8. WsDecided'
      <3>1. /\ st'["listener"] = r /\ st'["dialer"] = st["dialer"]
            /\ form'["listener"] = form["listener"] /\ form'["dialer"] = form["dialer"]
        BY <1>0, <2>1 DEF HsTypeOK
      <3> QED BY <1>0, <2>1, <2>4, <2>5, <2>6, <3>1 DEF WsDecided
    <2> QED BY <2>3, <2>7, <2>8 DEF HsInv
  <1>10. CASE WsResponse
    <2> DEFINE r == IF st["listener"] = "ok" /\ Echoed = Wanted THEN "ok"
                    ELSE "IncompatibleProtocol"
    <2>1. /\ scheme = "ws" /\ UNCHANGED <<scheme, proto, form, wrote, read, broken>>
          /\ wrote["listener"] = HsLen
          /\ st' = [st EXCEPT !["dialer"] = r]
      BY <1>10 DEF WsResponse, Finish
    <2>2. r \in Results
      BY DEF Results, Errors
    <2>3. HsTypeOK'
      BY <1>0, <2>1, <2>2 DEF HsTypeOK
    <2>4. (NamesFit' <=> NamesFit) /\ (Both' <=> Both)
      BY <2>1 DEF NamesFit, Both
    <2>5. Both /\ r = "IncompatibleProtocol" => ~NamesFit
      BY <1>0, <2>1 DEF WsDecided, Both, NamesFit, Wanted, Echoed
    <2>6. form["dialer"] = "sp" /\ r = "ok" => Both /\ NamesFit
      BY NoName DEF Both, NamesFit, Wanted, Echoed
    <2> HIDE DEF r
    <2>7. SpDecided'
      BY <2>1 DEF SpDecided
    <2>8. WsDecided'
      <3>1. /\ st'["dialer"] = r /\ st'["listener"] = st["listener"]
            /\ form'["listener"] = form["listener"] /\ form'["dialer"] = form["dialer"]
            /\ wrote'["listener"] = wrote["listener"]
        BY <1>0, <2>1 DEF HsTypeOK
      <3> QED BY <1>0, <2>1, <2>4, <2>5, <2>6, <3>1 DEF WsDecided
    <2> QED BY <2>3, <2>7, <2>8 DEF HsInv
  <1>11. CASE Break
    BY <1>0, <1>11 DEF Break, HsInv, HsTypeOK, SpDecided, WsDecided, NamesFit, Both, verdict, Other
  <1>12. CASE UNCHANGED hsvars
    BY <1>0, <1>12 DEF hsvars, HsInv, HsTypeOK, SpDecided, WsDecided, NamesFit, Both, verdict, Other
  <1> QED
    BY <1>1, <1>2, <1>3, <1>4, <1>5, <1>6, <1>7, <1>8, <1>9, <1>10, <1>11, <1>12
       DEF HsNext

\* The invariant says that the ends agree ...
LEMMA InvAgreement == HsInv => Agreement
  <1> SUFFICES ASSUME HsInv, NEW e \in Ends, form[e] = "sp", st[e] = "ok"
               PROVE  /\ st[Other(e)] # "IncompatibleProtocol"
                      /\ form[Other(e)] = "sp"
                      /\ scheme = "sp" => read[e] = HsLen
    BY DEF Agreement
  <1>0. Other(e) \in Ends /\ Other(Other(e)) = e
    BY DEF Ends, Other
  <1>1. CASE scheme = "sp"
    <2>1. verdict(e) = "ok" /\ read[e] = HsLen
      BY <1>1 DEF HsInv, SpDecided
    <2>2. form[Other(e)] = "sp" /\ proto[Other(e)] = expected_peer(proto[e])
      BY <1>0, <1>1, <2>1 DEF verdict, HsInv, HsTypeOK, Forms
    <2>3. proto[e] = expected_peer(proto[Other(e)])
      BY <2>2, ExpectedPeerInverse
    <2>4. verdict(Other(e)) # "IncompatibleProtocol"
      BY <1>0, <2>3 DEF verdict
    <2> QED BY <1>0, <1>1, <2>1, <2>2, <2>4 DEF HsInv, SpDecided
  <1>2. CASE scheme = "ws"
    BY <1>0, <1>2 DEF HsInv, WsDecided, Both
  <1>3. scheme \in {"sp", "ws"}
    BY HandshakeAssumption DEF HandshakeAssumption, HsInv, HsTypeOK
  <1> QED BY <1>1, <1>2, <1>3

\* ... and that only documented pairs accept each other.
LEMMA InvMatchedPairs == HsInv => MatchedPairs
  <1> DEFINE both == {proto["dialer"], proto["listener"]}
  <1>0. {proto[e] : e \in Ends} = both
    BY DEF Ends
  <1> HIDE DEF both
  <1> SUFFICES ASSUME HsInv, NEW e \in Ends, form[e] = "sp", st[e] = "ok"
               PROVE  \/ both \in Pairs
                      \/ scheme = "ws" /\ both = {"PAIR0", "PAIR1"}
                      \/ both \cap Known = {} /\ (scheme = "sp" => \E p \in both : both = {p})
    BY <1>0 DEF MatchedPairs
  <1>1. CASE scheme = "sp"
    <2>1. verdict(e) = "ok"
      BY <1>1 DEF HsInv, SpDecided
    <2>2. proto[Other(e)] = expected_peer(proto[e])
      BY <2>1 DEF verdict
    <2>3. {proto[e], expected_peer(proto[e])} = both
      BY <2>2 DEF both, Ends, Other
    <2>4. CASE proto[e] \in Known
      BY <2>3, <2>4, ExpectedPairs
    <2>5. CASE proto[e] \notin Known
      <3>1. expected_peer(proto[e]) = proto[e]
        BY <2>5 DEF Known, Pairs, expected_peer
      <3>2. both = {proto[e]}
        BY <2>3, <3>1
      <3> QED BY <2>5, <3>2
    <2> QED BY <2>4, <2>5
  <1>2. CASE scheme = "ws"
    <2>1. ws_subprotocol(expected_peer(proto["dialer"])) = ws_subprotocol(proto["listener"])
      BY <1>2 DEF HsInv, WsDecided, NamesFit
    <2>2. CASE proto["dialer"] \in Known \/ proto["listener"] \in Known
      BY <1>2, <2>1, <2>2, NamesPair DEF both
    <2>3. CASE proto["dialer"] \notin Known /\ proto["listener"] \notin Known
      BY <1>2, <2>3 DEF both
    <2> QED BY <2>2, <2>3
  <1>3. scheme \in {"sp", "ws"}
    BY HandshakeAssumption DEF HandshakeAssumption, HsInv, HsTypeOK
  <1> QED BY <1>1, <1>2, <1>3

------------------------------------------------------------------------------
(* From the URL to the handshake *)

\* The state of the listen and dial calls is well typed.
SetupOK ==
    /\ url \in [Ends -> Urls] /\ op["listener"] \in ListenOps /\ op["dialer"] \in DialOps
    /\ usable \in [Ends -> BOOLEAN] /\ trusted \in BOOLEAN /\ stale \in BOOLEAN
    /\ at \in [Ends -> {"start", "bound", "tls", "up"}] /\ at["dialer"] # "bound"
    /\ listening \in BOOLEAN /\ (listening => at["listener"] # "start")

IInv == HsInv /\ SetupOK

\* The invariant holds before either end is called.
LEMMA InvInit == Init => IInv
  <1> SUFFICES ASSUME Init PROVE IInv
    OBVIOUS
  <1>1. HsInv
    BY HsInvInit DEF Init
  <1>2. SetupOK
    <2>1. op["listener"] \in ListenOps /\ op["dialer"] \in DialOps
      BY DEF Init, ListenOps, DialOps
    <2>2. usable \in [Ends -> BOOLEAN] /\ trusted \in BOOLEAN /\ stale \in BOOLEAN
      BY DEF Init
    <2>3. /\ at \in [Ends -> {"start", "bound", "tls", "up"}] /\ at["dialer"] # "bound"
          /\ listening = FALSE
      BY DEF Init, Ends
    <2> QED BY <2>1, <2>2, <2>3 DEF Init, SetupOK
  <1> QED BY <1>1, <1>2 DEF IInv

\* What a step of the calls does to the handshake is a step of the handshake, or the
\* failure of an end that has no result yet.
LEMMA NextIsHsNext == Next => [HsNext]_hsvars
  <1> SUFFICES ASSUME Next PROVE [HsNext]_hsvars
    OBVIOUS
  <1> USE DEF Ends
  <1>1. CASE Bind
    BY <1>1 DEF Bind, HsNext
  <1>2. CASE Accept
    BY <1>2 DEF Accept
  <1>3. CASE AcceptErr
    BY <1>3 DEF AcceptErr, HsNext
  <1>4. CASE Dial
    BY <1>4 DEF Dial, HsNext
  <1>5. ASSUME NEW e \in Ends, TlsDone(e) PROVE [HsNext]_hsvars
    BY <1>5 DEF TlsDone
  <1>6. ASSUME NEW e \in Ends, TlsErr(e) PROVE [HsNext]_hsvars
    BY <1>6 DEF TlsErr, HsNext
  <1>7. ASSUME NEW e \in Ends, Misread(e) PROVE [HsNext]_hsvars
    <2>1. Nonsense(Language(e)) \in {"NotConnected", "Closed", "InvalidMagic"}
      BY DEF Nonsense
    <2> QED BY <1>7, <2>1 DEF Misread, HsNext
  <1>8. ASSUME NEW e \in Ends, HsStep(e) PROVE [HsNext]_hsvars
    BY <1>8 DEF HsStep, HsNext
  <1>9. ASSUME NEW e \in Ends, KcpErr(e) PROVE [HsNext]_hsvars
    BY <1>9 DEF KcpErr, HsNext
  <1>10. ASSUME NEW e \in Ends, DropCall(e) PROVE [HsNext]_hsvars
    BY <1>10 DEF DropCall, HsNext
  <1>11. ASSUME NEW e \in Ends, NEW n \in 1 .. StreamCap, FirstFrame(e, n)
         PROVE  [HsNext]_hsvars
    BY <1>11 DEF FirstFrame, HsNext
  <1>12. CASE BreakConnection
    BY <1>12 DEF BreakConnection, HsNext
  <1> QED
    BY <1>1, <1>2, <1>3, <1>4, <1>5, <1>6, <1>7, <1>8, <1>9, <1>10, <1>11, <1>12 DEF Next

\* No step leaves the types of the calls.
LEMMA SetupStep == SetupOK /\ [Next]_vars => SetupOK'
  <1> SUFFICES ASSUME SetupOK, [Next]_vars PROVE SetupOK'
    OBVIOUS
  <1> USE DEF Ends, SetupOK
  <1>0. ASSUME UNCHANGED setup PROVE SetupOK'
    BY <1>0 DEF setup
  <1>1. CASE Bind
    BY <1>0, <1>1 DEF Bind, Reaches
  <1>2. CASE Accept
    BY <1>2 DEF Accept, Reaches
  <1>3. CASE AcceptErr
    BY <1>3 DEF AcceptErr
  <1>4. CASE Dial
    BY <1>0, <1>4 DEF Dial, Reaches
  <1>5. ASSUME NEW e \in Ends, TlsDone(e) PROVE SetupOK'
    <2>1. at' = [at EXCEPT ![e] = "up"] /\ UNCHANGED <<url, op, usable, trusted, stale, listening>>
      BY <1>5 DEF TlsDone, Reaches
    <2> QED BY <2>1
  <1>6. ASSUME NEW e \in Ends, DropCall(e) PROVE SetupOK'
    BY <1>6 DEF DropCall
  <1>7. ASSUME NEW e \in Ends, TlsErr(e) \/ Misread(e) \/ HsStep(e) \/ KcpErr(e)
        PROVE  SetupOK'
    BY <1>0, <1>7 DEF TlsErr, Misread, HsStep, KcpErr
  <1>8. ASSUME NEW e \in Ends, NEW n \in 1 .. StreamCap, FirstFrame(e, n) PROVE SetupOK'
    BY <1>0, <1>8 DEF FirstFrame
  <1>9. CASE BreakConnection
    BY <1>0, <1>9 DEF BreakConnection
  <1>10. CASE UNCHANGED vars
    BY <1>0, <1>10 DEF vars
  <1> QED BY <1>1, <1>2, <1>3, <1>4, <1>5, <1>6, <1>7, <1>8, <1>9, <1>10 DEF Next

\* Every step keeps it.
LEMMA InvStep == IInv /\ [Next]_vars => IInv'
  <1> SUFFICES ASSUME IInv, [Next]_vars PROVE IInv'
    OBVIOUS
  <1>1. [HsNext]_hsvars
    BY NextIsHsNext DEF vars
  <1> QED BY <1>1, HsInvStep, SetupStep DEF IInv

------------------------------------------------------------------------------

\* The state of the two calls and of the handshake is well typed; a listener that
\* exists is bound.
THEOREM ConnectTypes == Spec => []TypeOK
  <1>1. IInv => TypeOK
    BY DEF IInv, HsInv, SetupOK, TypeOK
  <1> QED BY <1>1, InvInit, InvStep, PTL DEF Spec

\* Two ends never disagree about each other, whatever protocols, ids no table knows
\* included, meet over whichever scheme: on a byte stream because expected_peer is its
\* own inverse and each end judges the whole handshake of the other, in a WebSocket
\* upgrade because the dialer believes the listener.
THEOREM EndsAgree == Spec => []Agreement
  <1>1. IInv => Agreement
    BY InvAgreement DEF IInv
  <1> QED BY <1>1, InvInit, InvStep, PTL DEF Spec

\* A connection is accepted between documented pairs only, between PAIR0 and PAIR1 over
\* a WebSocket, and between ids that are in no pair: over a byte stream equal ones.
THEOREM OnlyPairsConnect == Spec => []MatchedPairs
  <1>1. IInv => MatchedPairs
    BY InvMatchedPairs DEF IInv
  <1> QED BY <1>1, InvInit, InvStep, PTL DEF Spec

------------------------------------------------------------------------------
(* Connecting again: a SUB0 socket and its redialling loop *)

\* Bodies and prefixes are sequences of numbers, whatever their length.
LEMMA BodySeqs ==
    ASSUME NEW b \in Bodies
    PROVE  /\ b \in Seq(Nat) /\ Len(b) \in Nat
           /\ \A k \in 1 .. Len(b) : b[k] \in Nat
  <1>1. PICK m \in 0 .. MaxLen : b \in [1 .. m -> Byte]
    BY DEF Bodies, SeqOf
  <1>2. m \in Nat /\ Byte \subseteq Nat
    BY Sub0Assumption
  <1>3. b \in [1 .. m -> Nat]
    BY <1>1, <1>2
  <1>4. b \in Seq(Nat)
    BY <1>2, <1>3
  <1> QED BY <1>4

\* In the order of Vec<u8> a prefix of a body does not come behind it: the end of the
\* range query is not too early.
LEMMA PrefixLeq ==
    ASSUME NEW p \in Bodies, NEW b \in Bodies, IsPrefix(p, b)
    PROVE  SliceLeq(p, b)
  <1>1. p \in Seq(Nat) /\ b \in Seq(Nat) /\ Len(p) \in Nat /\ Len(b) \in Nat
    BY BodySeqs
  <1>2. Len(p) <= Len(b) /\ SubSeq(p, 1, Len(p)) = SubSeq(b, 1, Len(p))
    BY DEF IsPrefix
  <1>3. Common(p, b) = 1 .. Len(p)
    BY <1>1, <1>2 DEF Common
  <1>4. ASSUME NEW k \in 1 .. Len(p) PROVE p[k] = b[k]
    <2>1. SubSeq(p, 1, Len(p))[k] = p[k] /\ SubSeq(b, 1, Len(p))[k] = b[k]
      BY <1>1, <1>2
    <2> QED BY <1>2, <2>1
  <1> QED BY <1>2, <1>3, <1>4 DEF SliceLeq

\* So the query finds a subscription that the body starts with if there is one.
LEMMA QueryIsScan ==
    ASSUME NEW subs \in SUBSET Bodies, NEW b \in Bodies
    PROVE  matches(subs, b) <=> \E p \in subs : IsPrefix(p, b)
  <1>1. ASSUME NEW p \in subs, IsPrefix(p, b) PROVE SliceLeq(p, b)
    BY <1>1, PrefixLeq
  <1> QED BY <1>1 DEF matches

\* While the loop runs another attempt is due, and its delay is in the limits; the
\* attempts of a loop that has ended did not exceed the limit, and reached it if it
\* gave up.  A call that runs has no result yet.
Attempting(o) ==
    /\ Redials => /\ \A max \in o.max_attempts : attempts < max \/ attempts = 0
                  /\ o.min_backoff <= o.max_backoff
                        => o.min_backoff <= backoff /\ backoff <= o.max_backoff
    /\ \A max \in o.max_attempts : attempts <= max \/ attempts = 1
    /\ result = "ReconnectExhausted" => \E max \in o.max_attempts : attempts >= max

Redialling ==
    /\ \A o \in reconnect : Attempting(o)
    /\ next_pc # "idle" => result = "none"
    /\ result = "ReconnectExhausted" => reconnect # {}

SubInv == SubTypeOK /\ Redialling

\* A new socket has subscribed to nothing and has not redialled.
LEMMA SubInvInit == SubInit => SubInv
  BY Sub0Assumption DEF SubInit, SubInv, SubTypeOK, Redialling, Attempting, Redials

\* Steps that leave the loop's state alone, or end it without a result of its own.
LEMMA RedialKept ==
    ASSUME Redialling, UNCHANGED <<reconnect, attempts, backoff>>,
           Redials' => Redials,
           result' = result \/ result' \in {"none", "Ok", "Closed"},
           next_pc' # "idle" => result' = "none"
    PROVE  Redialling'
  BY DEF Redialling, Attempting, Redials

\* Every step keeps types and limits.
LEMMA SubInvStep ==
    ASSUME SubInv, [SubNext]_subvars
    PROVE  SubInv'
  <1>0. SubTypeOK /\ Redialling
    BY DEF SubInv
  <1>o. ASSUME NEW o \in reconnect
        PROVE  /\ o.min_backoff \in Nat /\ o.max_backoff \in Nat
               /\ o.max_attempts \in SUBSET Nat
    <2>1. reconnect = {} \/ \E oo \in Options : reconnect = {oo}
      BY <1>0 DEF SubTypeOK
    <2> QED BY <1>o, <2>1, Sub0Assumption
  <1>e. <<>> \in Seq(Bodies)
    OBVIOUS
  <1>1. ASSUME NEW p \in Bodies, subscribe_to(p) \/ unsubscribe_from(p)
        PROVE  SubInv'
    <2>1. SubTypeOK'
      BY <1>0, <1>1 DEF subscribe_to, unsubscribe_from, SubTypeOK, Redials
    <2>2. Redialling'
      BY <1>0, <1>1, RedialKept DEF subscribe_to, unsubscribe_from, Redials
    <2> QED BY <2>1, <2>2 DEF SubInv
  <1>2. ASSUME NEW p \in Bodies, Publish(p) PROVE SubInv'
    <2>1. Append(stream, p) \in Seq(Bodies)
      BY <1>0, <1>2 DEF SubTypeOK
    <2>2. link = "up" /\ stream' = Append(stream, p) /\ UNCHANGED <<sockvars, link, server>>
      BY <1>2 DEF Publish
    <2>3. SubTypeOK'
      BY <1>0, <2>1, <2>2 DEF sockvars, SubTypeOK, Redials
    <2>4. Redialling'
      BY <1>0, <2>2, RedialKept DEF sockvars, Redials, Redialling
    <2> QED BY <2>3, <2>4 DEF SubInv
  <1>3. CASE NextCall
    <2>1. SubTypeOK'
      BY <1>0, <1>3 DEF NextCall, SubTypeOK, Redials
    <2>2. Redialling'
      BY <1>0, <1>3, RedialKept DEF NextCall, Redials
    <2> QED BY <2>1, <2>2 DEF SubInv
  <1>4. CASE NextMsg
    <2>1. Tail(stream) \in Seq(Bodies)
      BY <1>0, <1>4 DEF NextMsg, SubTypeOK
    <2>2. SubTypeOK'
      BY <1>0, <1>4, <2>1 DEF NextMsg, SubTypeOK, Redials
    <2>3. Redialling'
      BY <1>0, <1>4, RedialKept DEF NextMsg, Redials, Redialling
    <2> QED BY <2>2, <2>3 DEF SubInv
  <1>5. CASE NextErr
    <2>1. CASE reconnect = {}
      <3>1. SubTypeOK'
        BY <1>0, <1>5, <2>1 DEF NextErr, SubTypeOK, Redials
      <3>2. Redialling'
        BY <1>0, <1>5, <2>1 DEF NextErr, Redialling
      <3> QED BY <3>1, <3>2 DEF SubInv
    <2>2. CASE reconnect # {}
      <3>1. PICK o \in Options : reconnect = {o}
        BY <1>0, <2>2 DEF SubTypeOK
      <3>2. /\ next_pc' = "sleep" /\ attempts' = 0 /\ backoff' = o.min_backoff
            /\ UNCHANGED <<reconnect, subscriptions, result, link, server, stream>>
            /\ link = "down" /\ stream = <<>> /\ next_pc = "recv"
        BY <1>5, <3>1 DEF NextErr
      <3>3. SubTypeOK'
        BY <1>0, <1>o, <3>1, <3>2 DEF SubTypeOK, Redials
      <3>4. result' = "none"
        BY <1>0, <3>2 DEF Redialling
      <3>5. Attempting(o)'
        BY <1>o, <3>1, <3>2, <3>4 DEF Attempting, Redials
      <3>6. Redialling'
        BY <3>1, <3>2, <3>4, <3>5 DEF Redialling
      <3> QED BY <3>3, <3>6 DEF SubInv
    <2> QED BY <2>1, <2>2
  <1>6. CASE SleepOver
    <2>1. SubTypeOK'
      BY <1>0, <1>6 DEF SleepOver, SubTypeOK, Redials
    <2>2. Redialling'
      BY <1>0, <1>6, RedialKept DEF SleepOver, Redials, Redialling
    <2> QED BY <2>1, <2>2 DEF SubInv
  <1>7. CASE Dialled
    <2>1. SubTypeOK'
      BY <1>0, <1>7 DEF Dialled, SubTypeOK, Redials
    <2>2. Redialling'
      BY <1>0, <1>7, RedialKept DEF Dialled, Redials, Redialling
    <2> QED BY <2>1, <2>2 DEF SubInv
  <1>8. CASE DialOk
    <2>1. SubTypeOK'
      BY <1>0, <1>8 DEF DialOk, SubTypeOK, Redials
    <2>2. Redialling'
      BY <1>0, <1>8, RedialKept DEF DialOk, Redials, Redialling
    <2> QED BY <2>1, <2>2 DEF SubInv
  <1>9. CASE DialErr
    <2>1. PICK o \in reconnect :
             /\ attempts' = IF o.max_attempts = {} THEN attempts ELSE attempts + 1
             /\ IF \E max \in o.max_attempts : attempts + 1 >= max
                THEN next_pc' = "idle" /\ result' = "ReconnectExhausted" /\ UNCHANGED backoff
                ELSE next_pc' = "sleep" /\ backoff' = Doubled(o) /\ UNCHANGED result
      BY <1>9 DEF DialErr
    <2>2. reconnect = {o}
      BY <1>0, <2>1 DEF SubTypeOK
    <2>3. /\ Redials /\ link' = "down" /\ stream' = <<>>
          /\ UNCHANGED <<reconnect, subscriptions, server>>
      BY <1>9 DEF DialErr, Redials
    <2>4. /\ attempts \in Nat /\ backoff \in Nat
          /\ o.min_backoff \in Nat /\ o.max_backoff \in Nat /\ o.max_attempts \in SUBSET Nat
      BY <1>0, <1>o, <2>1 DEF SubTypeOK
    <2>5. Doubled(o) \in Nat
      BY <2>4 DEF Doubled
    <2>6. SubTypeOK'
      BY <1>0, <1>e, <2>1, <2>2, <2>3, <2>4, <2>5 DEF SubTypeOK, Redials
    <2>7. Attempting(o) /\ result = "none" /\ next_pc # "idle"
      BY <1>0, <2>1, <2>3 DEF Redialling, Redials
    <2>8. Attempting(o)'
      BY <2>1, <2>3, <2>4, <2>7 DEF Attempting, Doubled, Redials
    <2>9. Redialling'
      BY <2>1, <2>2, <2>3, <2>7, <2>8 DEF Redialling
    <2> QED BY <2>6, <2>9 DEF SubInv
  <1>10. CASE CancelNext
    <2>1. SubTypeOK'
      BY <1>0, <1>e, <1>10 DEF CancelNext, SubTypeOK, Redials
    <2>2. Redialling'
      BY <1>0, <1>10, RedialKept DEF CancelNext, Redials
    <2> QED BY <2>1, <2>2 DEF SubInv
  <1>11. CASE Disconnect
    <2>1. PICK n \in 0 .. Len(stream) : stream' = SubSeq(stream, 1, n)
      BY <1>11 DEF Disconnect
    <2>2. stream' \in Seq(Bodies)
      BY <1>0, <2>1 DEF SubTypeOK
    <2>3. /\ link # "down" /\ link' = "down" /\ server' \in BOOLEAN
          /\ UNCHANGED <<reconnect, subscriptions, next_pc, attempts, backoff, result>>
      BY <1>11 DEF Disconnect, sockvars
    <2>4. SubTypeOK'
      BY <1>0, <2>2, <2>3 DEF SubTypeOK, Redials
    <2>5. Redialling'
      BY <1>0, <2>3, RedialKept DEF Redials, Redialling
    <2> QED BY <2>4, <2>5 DEF SubInv
  <1>12. CASE ShakeHands \/ ServerBack
    <2>1. SubTypeOK'
      BY <1>0, <1>12 DEF ShakeHands, ServerBack, sockvars, SubTypeOK, Redials
    <2>2. Redialling'
      BY <1>0, <1>12, RedialKept DEF ShakeHands, ServerBack, sockvars, Redials, Redialling
    <2> QED BY <2>1, <2>2 DEF SubInv
  <1>13. CASE UNCHANGED subvars
    BY <1>0, <1>13 DEF subvars, sockvars, SubInv, SubTypeOK, Redialling, Attempting, Redials
  <1> QED
    BY <1>1, <1>2, <1>3, <1>4, <1>5, <1>6, <1>7, <1>8, <1>9, <1>10, <1>11, <1>12, <1>13
       DEF SubNext, SocketStep

\* The socket, its redialling loop and the connection are well typed; a connection that
\* waits for the publisher's handshake is gone with the call that made it.
THEOREM SubTypes == SubSpec => []SubTypeOK
  <1>1. SubInit => SubInv
    BY SubInvInit
  <1>2. SubInv /\ [SubNext]_subvars => SubInv'
    BY SubInvStep
  <1>3. SubInv => SubTypeOK
    BY DEF SubInv
  <1> QED BY <1>1, <1>2, <1>3, PTL DEF SubSpec

\* reconnect_transport makes max_attempts attempts before it gives up, no more (one if
\* that is 0) and no fewer, and sleeps between min_backoff and max_backoff, for all
\* three; it runs only for a socket with ReconnectOptions whose connection is read out.
THEOREM SubRedialsWithinLimits == SubSpec => []RedialWithinLimits
  <1>1. SubInit => SubInv
    BY SubInvInit
  <1>2. SubInv /\ [SubNext]_subvars => SubInv'
    BY SubInvStep
  <1>3. ASSUME SubInv PROVE RedialWithinLimits
    <2>1. \A o \in reconnect : o.min_backoff \in Nat /\ o.max_backoff \in Nat
      BY <1>3, Sub0Assumption DEF SubInv, SubTypeOK
    <2> QED BY <1>3, <2>1
            DEF SubInv, SubTypeOK, Redialling, Attempting, RedialWithinLimits
  <1> QED BY <1>1, <1>2, <1>3, PTL DEF SubSpec

\* next() returns the message it takes off the connection if and only if it starts with
\* a subscription, for bodies and prefixes of every length over every set of bytes.
THEOREM SubFilters == SubSpec => NextFilters
  <1> DEFINE Filters == (next_pc' = "idle")
                            <=> \E p \in subscriptions : IsPrefix(p, Head(stream))
  <1>1. SubInit => SubInv
    BY SubInvInit
  <1>2. SubInv /\ [SubNext]_subvars => SubInv'
    BY SubInvStep
  <1>3. ASSUME SubInv, NextMsg PROVE Filters
    <2>1. subscriptions \in SUBSET Bodies /\ Head(stream) \in Bodies
      BY <1>3 DEF SubInv, SubTypeOK, NextMsg
    <2>2. matches(subscriptions, Head(stream))
             <=> \E p \in subscriptions : IsPrefix(p, Head(stream))
      BY <2>1, QueryIsScan
    <2> QED BY <1>3, <2>2 DEF NextMsg
  <1>4. SubInv => [NextMsg => Filters]_subvars
    BY <1>3
  <1> QED BY <1>1, <1>2, <1>4, PTL DEF SubSpec, NextFilters

------------------------------------------------------------------------------
(* No connection: Req0 and Rep0 over UDP *)

\* What a datagram says about itself.  One to the server has the payload of the
\* program that sent it, if it has an id at all; one to a client is an answer of
\* the server to that client's request of the same number.
WellAddressed(d) ==
    IF d.to = Server
    THEN d.from # Server /\ (d.id # Short => d.body = <<d.from, d.id>>)
    ELSE d.id # Short /\ d.body = <<d.to, d.id>>

\* All datagrams are what they claim to be, and the request in the server's hands
\* is one of the peer its transport has recorded.
NetOK == \A d \in net : WellAddressed(d)
ReqOK == req # NoRequest => req.body = <<peer, req.id>>
GotOK == \A c \in Clients, k \in Calls : got[c][k] \in {NoPayload, <<c, k>>}

\* A request() that is running has taken an id.
CallMade == \A c \in Clients : pc[c] # "idle" => calls[c] # 0

\* The inductive invariant.
UdpInv == UdpTypeOK /\ CallMade /\ NetOK /\ ReqOK /\ GotOK

\* The request of a client is a well-typed and well-addressed datagram.
LEMMA RequestOK ==
    ASSUME NEW c \in Clients, NEW k \in Calls
    PROVE  LET d == [from |-> c, to |-> Server, id |-> k, body |-> <<c, k>>]
           IN  d \in Datagrams /\ WellAddressed(d)
  BY DatagramAssumption DEF DatagramAssumption, Datagrams, WellAddressed, Payload

\* So is one of another program, whatever is in the place of its id.
LEMMA StrayOK ==
    ASSUME NEW k \in Calls \cup {Short}
    PROVE  LET d == [from |-> Stranger, to |-> Server, id |-> k, body |-> <<Stranger, k>>]
           IN  d \in Datagrams /\ WellAddressed(d)
  BY DatagramAssumption DEF DatagramAssumption, Datagrams, WellAddressed, Payload, Short

\* A request that is not NoRequest has an id and a payload.
LEMMA RequestType ==
    ASSUME UdpTypeOK, req # NoRequest
    PROVE  req.id \in Calls /\ req.body \in Payload /\ up /\ peer \in Clients \cup {Stranger}
  BY DEF UdpTypeOK

\* The invariant holds at first: UdpInit establishes the invariant.
LEMMA UdpInvInit == UdpInit => UdpInv
  BY DatagramAssumption
     DEF DatagramAssumption, UdpInit, UdpInv, UdpTypeOK, CallMade, NetOK, ReqOK, GotOK

\* Taking a datagram off a socket adds none, and counts a fault at most.
LEMMA TakenOK ==
    ASSUME UdpTypeOK, NEW d \in net, Taken(d)
    PROVE  net' \subseteq net /\ faults' \in 0 .. MaxFaults
  BY DatagramAssumption DEF DatagramAssumption, UdpTypeOK, Taken, Fault

\* Every step preserves it.
LEMMA UdpInvStep == UdpInv /\ [UdpNext]_udpvars => UdpInv'
  <1> SUFFICES ASSUME UdpInv, [UdpNext]_udpvars PROVE UdpInv'
    OBVIOUS
  <1> USE DatagramAssumption DEF DatagramAssumption, clientvars, servervars
  <1>0. UdpTypeOK /\ CallMade /\ NetOK /\ ReqOK /\ GotOK
    BY DEF UdpInv
  <1>1. ASSUME NEW c \in Clients, Call(c) PROVE UdpInv'
    BY <1>0, <1>1 DEF Call, Goes, UdpInv, UdpTypeOK, CallMade, NetOK, ReqOK, GotOK, NoRequest
  <1>2. ASSUME NEW c \in Clients, Send(c) PROVE UdpInv'
    <2>1. calls[c] \in Calls
      BY <1>0, <1>2 DEF Send, CallMade, Calls, UdpTypeOK
    <2>2. PICK d \in Datagrams : WellAddressed(d) /\ net' = net \cup {d}
      BY <1>2, <2>1, RequestOK DEF Send
    <2>3. UdpTypeOK'
      BY <1>0, <1>2, <2>2 DEF Send, Goes, UdpTypeOK
    <2>4. NetOK'
      BY <1>0, <2>2, <1>2 DEF NetOK, WellAddressed
    <2>5. ReqOK' /\ GotOK'
      BY <1>0, <1>2 DEF Send, ReqOK, GotOK
    <2>6. CallMade'
      BY <1>0, <1>2 DEF Send, Goes, CallMade, UdpTypeOK
    <2> QED BY <2>3, <2>4, <2>5, <2>6 DEF UdpInv
  <1>3. ASSUME NEW c \in Clients, RequestFails(c) PROVE UdpInv'
    BY <1>0, <1>3 DEF RequestFails, Fault, Goes, UdpInv, UdpTypeOK, CallMade, NetOK, ReqOK, GotOK
  <1>4. ASSUME NEW c \in Clients, ResendTimeout(c) PROVE UdpInv'
    BY <1>0, <1>4 DEF ResendTimeout, Goes, UdpInv, UdpTypeOK, CallMade, NetOK, ReqOK, GotOK
  <1>5. ASSUME NEW c \in Clients, Cancel(c) PROVE UdpInv'
    BY <1>0, <1>5 DEF Cancel, Fault, Goes, UdpInv, UdpTypeOK, CallMade, NetOK, ReqOK, GotOK
  <1>6. ASSUME NEW c \in Clients, NEW d \in net, Recv(c, d) PROVE UdpInv'
    <2>1. net' \subseteq net /\ faults' \in 0 .. MaxFaults
      BY <1>0, <1>6, TakenOK DEF Recv
    <2>2. d.id \in Calls /\ d.body = <<c, d.id>> /\ d.body \in Payload
      BY <1>0, <1>6 DEF Recv, NetOK, WellAddressed, UdpTypeOK, Datagrams
    <2>3. UdpTypeOK'
      <3>1. got' \in [Clients -> [Calls -> Payload \cup {NoPayload}]]
        <4>1. [got[c] EXCEPT ![d.id] = d.body] \in [Calls -> Payload \cup {NoPayload}]
          BY <1>0, <2>2 DEF UdpTypeOK
        <4> QED BY <1>0, <1>6, <4>1 DEF Recv, UdpTypeOK
      <3>2. pc' \in [Clients -> {"idle", "send", "recv"}]
        BY <1>0, <1>6 DEF Recv, Goes, UdpTypeOK
      <3> QED BY <1>0, <1>6, <2>1, <3>1, <3>2 DEF Recv, UdpTypeOK
    <2>4. NetOK' /\ ReqOK'
      BY <1>0, <1>6, <2>1 DEF Recv, NetOK, ReqOK
    <2>5. GotOK'
      <3>1. CASE d.id = calls[c]
        <4>1. got' = [got EXCEPT ![c] = [got[c] EXCEPT ![d.id] = d.body]]
          BY <1>6, <3>1 DEF Recv
        <4> QED BY <1>0, <2>2, <4>1 DEF GotOK, UdpTypeOK
      <3>2. CASE d.id # calls[c]
        BY <1>0, <1>6, <3>2 DEF Recv, GotOK
      <3> QED BY <3>1, <3>2
    <2>6. CallMade'
      BY <1>0, <1>6 DEF Recv, Goes, CallMade, UdpTypeOK
    <2> QED BY <2>3, <2>4, <2>5, <2>6 DEF UdpInv
  <1>7. ASSUME NEW d \in net, Receive(d) PROVE UdpInv'
    <2>1. net' \subseteq net /\ faults' \in 0 .. MaxFaults
      BY <1>0, <1>7, TakenOK DEF Receive
    <2>2. /\ peer' = d.from /\ peer' \in Clients \cup {Stranger}
          /\ d.id # Short => d.id \in Calls /\ d.body \in Payload /\ d.body = <<d.from, d.id>>
      BY <1>0, <1>7 DEF Receive, PeerAfter, NetOK, WellAddressed, UdpTypeOK, Datagrams
    <2>3. UdpTypeOK'
      BY <1>0, <1>7, <2>1, <2>2 DEF Receive, UdpTypeOK
    <2>4. NetOK' /\ GotOK'
      BY <1>0, <1>7, <2>1 DEF Receive, NetOK, GotOK
    <2>5. ReqOK'
      BY <1>7, <2>2 DEF Receive, ReqOK
    <2>6. CallMade'
      BY <1>0, <1>7 DEF Receive, CallMade, UdpTypeOK
    <2> QED BY <2>3, <2>4, <2>5, <2>6 DEF UdpInv
  <1>8. ASSUME NEW d \in net, Lose(d) PROVE UdpInv'
    BY <1>0, <1>8 DEF Lose, Fault, UdpInv, UdpTypeOK, CallMade, NetOK, ReqOK, GotOK
  <1>9. ASSUME NEW d \in net, Unreachable(d) PROVE UdpInv'
    <2>1. err' \in [Clients -> BOOLEAN]
      BY <1>0, <1>9 DEF Unreachable, UdpTypeOK
    <2> QED
      BY <1>0, <1>9, <2>1 DEF Unreachable, UdpInv, UdpTypeOK, CallMade, NetOK, ReqOK, GotOK
  <1>10. CASE Reply
    <2>1. req.id \in Calls /\ req.body \in Payload /\ peer \in Clients \cup {Stranger}
      BY <1>0, <1>10, RequestType DEF Reply
    <2>2. net' = net \/ \E d \in Datagrams : WellAddressed(d) /\ net' = net \cup {d}
      <3>1. CASE peer = Stranger
        BY <1>10, <3>1 DEF Reply
      <3>2. CASE peer # Stranger
        <4> DEFINE d == [from |-> Server, to |-> peer, id |-> req.id, body |-> req.body]
        <4>1. net' = net \cup {d}
          BY <1>10, <3>2 DEF Reply
        <4>2. d \in Datagrams
          BY <2>1, <3>2 DEF Datagrams
        <4>3. WellAddressed(d)
          BY <1>0, <1>10, <2>1, <3>2 DEF Reply, ReqOK, WellAddressed, Calls, Short
        <4> QED BY <4>1, <4>2, <4>3
      <3> QED BY <3>1, <3>2
    <2>3. UdpTypeOK'
      BY <1>0, <1>10, <2>2 DEF Reply, UdpTypeOK
    <2>4. NetOK'
      BY <1>0, <2>2 DEF NetOK
    <2>5. ReqOK' /\ GotOK'
      BY <1>0, <1>10 DEF Reply, ReqOK, GotOK
    <2>6. CallMade'
      BY <1>0, <1>10 DEF Reply, CallMade, UdpTypeOK
    <2> QED BY <2>3, <2>4, <2>5, <2>6 DEF UdpInv
  <1>11. CASE DropResponder
    BY <1>0, <1>11 DEF DropResponder, Fault, UdpInv, UdpTypeOK, CallMade, NetOK, ReqOK, GotOK
  <1>12. CASE Crash
    <2>1. net' \subseteq net
      BY <1>12 DEF Crash
    <2>2. /\ up' = FALSE /\ peer' = Nobody /\ req' = NoRequest
          /\ faults' \in 0 .. MaxFaults /\ UNCHANGED clientvars
      BY <1>0, <1>12 DEF Crash, Fault, UdpTypeOK
    <2>3. UdpTypeOK'
      BY <1>0, <2>1, <2>2 DEF UdpTypeOK
    <2>4. NetOK' /\ ReqOK' /\ GotOK' /\ CallMade'
      BY <1>0, <2>1, <2>2 DEF NetOK, ReqOK, GotOK, CallMade
    <2> QED BY <2>3, <2>4 DEF UdpInv
  <1>13. CASE Restart
    BY <1>0, <1>13 DEF Restart, UdpInv, UdpTypeOK, CallMade, NetOK, ReqOK, GotOK
  <1>14. CASE Stray
    <2>1. PICK d \in Datagrams : WellAddressed(d) /\ net' = net \cup {d}
      BY <1>14, StrayOK DEF Stray
    <2>2. UdpTypeOK'
      BY <1>0, <1>14, <2>1 DEF Stray, Fault, UdpTypeOK
    <2>3. NetOK' /\ ReqOK' /\ GotOK' /\ CallMade'
      BY <1>0, <1>14, <2>1 DEF Stray, NetOK, ReqOK, GotOK, CallMade
    <2> QED BY <2>2, <2>3 DEF UdpInv
  <1>15. CASE UNCHANGED udpvars
    BY <1>0, <1>15 DEF udpvars, UdpInv, UdpTypeOK, CallMade, NetOK, ReqOK, GotOK
  <1> QED
    BY <1>1, <1>2, <1>3, <1>4, <1>5, <1>6, <1>7, <1>8, <1>9, <1>10, <1>11, <1>12, <1>13,
       <1>14, <1>15 DEF UdpNext

\* The state of the clients, the network and the server is well typed; a request in
\* the server's hands belongs to a socket that is bound and knows its peer.
THEOREM DatagramTypes == UdpSpec => []UdpTypeOK
  <1>1. UdpInv => UdpTypeOK
    BY DEF UdpInv
  <1> QED BY <1>1, UdpInvInit, UdpInvStep, PTL DEF UdpSpec

\* Every reply goes to the client that asked and is returned by the call it answers,
\* however many clients share the server's one peer field and number their requests
\* alike, and whatever is lost, doubled, reordered or sent by strangers.
THEOREM DatagramRepliesAreOwn == UdpSpec => []ReplyIsOwn
  <1>1. UdpInv => ReplyIsOwn
    BY RequestType DEF UdpInv, ReqOK, GotOK, ReplyIsOwn
  <1> QED BY <1>1, UdpInvInit, UdpInvStep, PTL DEF UdpSpec
=============================================================================
