----------------------------- MODULE Handshake -----------------------------
(***************************************************************************)
(* How two ends of a new connection find out whether their protocols fit:  *)
(* FramedTransport::connect on both sides of a byte stream (transport.rs,  *)
(* codec.rs), and the WebSocket upgrade that takes its place on ws:// and  *)
(* wss:// connections (transport/ws.rs).                                   *)
(*                                                                         *)
(* The handshake is HsLen bytes (8 in the code) of which only three things *)
(* matter: whether magic and reserved bytes are right, and the protocol.   *)
(* An end that has accepted its peer may send its first frame at once,     *)
(* while the other end is still reading the handshake.  How the connection *)
(* comes about, and the specification, are in Connect.                     *)
(***************************************************************************)
EXTENDS Integers

CONSTANTS
    Protocols, \* the protocol ids in use, known and unknown ones
    Schemes,   \* "sp" (byte streams), "ws" (ws:// and wss://), or both
    HsLen,     \* bytes of a handshake
    FrameLen,  \* bytes of the first frame after it
    StreamCap, \* bound: bytes a stream buffers, per direction
    Faults     \* may ends be dropped and connections break?

\* A stream that cannot hold one handshake would block both ends in their write.
ASSUME HandshakeAssumption ==
    /\ HsLen \in Nat \ {0} /\ FrameLen \in Nat
    /\ StreamCap \in Nat /\ StreamCap >= HsLen
    /\ Schemes \subseteq {"sp", "ws"} /\ Faults \in BOOLEAN

Ends == {"dialer", "listener"}
Other(e) == IF e = "dialer" THEN "listener" ELSE "dialer"

VARIABLES
    scheme, \* how this connection is negotiated
    proto, \* per end: its local protocol
    form,  \* per end: what it says: "sp", or what a foreign program does (Forms)
    st,    \* per end: "writing", "reading", or the result of connect
    wrote, \* per end: bytes put on its outgoing stream
    read,  \* per end: bytes connect has read
    broken \* the connection is down

hsvars == <<scheme, proto, form, st, wrote, read, broken>>

\* A foreign program on a byte stream has the magic or the reserved bytes wrong; at
\* the other end of a WebSocket it may upgrade but know of no subprotocol ("plain"),
\* or neither ask for an upgrade nor grant one ("http").
Forms(s) == {"sp"} \cup (IF s = "sp" THEN {"magic", "reserved"} ELSE {"plain", "http"})

\* "NotConnected": there was no stream to shake hands on.
Errors  == {"InvalidMagic", "ReservedNotZero", "IncompatibleProtocol", "Closed", "NotConnected"}
Results == Errors \cup {"ok", "dropped"}

------------------------------------------------------------------------------
(* codec.rs *)

\* Mutant: the entry of RESPONDENT0 repeats that of a symmetric protocol.
expected_peer_typo(p) ==
    CASE p = "REQ0" -> "REP0" [] p = "REP0" -> "REQ0"
      [] p = "PUB0" -> "SUB0" [] p = "SUB0" -> "PUB0"
      [] p = "PUSH0" -> "PULL0" [] p = "PULL0" -> "PUSH0"
      [] p = "SURVEYOR0" -> "RESPONDENT0"
      [] OTHER -> p

\* The protocol the remote end must present.  PAIR0, PAIR1, BUS0 and every id
\* the table does not know pair with themselves.
expected_peer(p) ==
    CASE p = "REQ0" -> "REP0" [] p = "REP0" -> "REQ0"
      [] p = "PUB0" -> "SUB0" [] p = "SUB0" -> "PUB0"
      [] p = "PUSH0" -> "PULL0" [] p = "PULL0" -> "PUSH0"
      [] p = "SURVEYOR0" -> "RESPONDENT0" [] p = "RESPONDENT0" -> "SURVEYOR0"
      [] OTHER -> p

\* Name in the Sec-WebSocket-Protocol header, for the ids that do not have one
\* of their own.
ws_subprotocol(p) ==
    CASE p \in {"PAIR0", "PAIR1"} -> "pair"
      [] p \in {"REQ0", "REP0", "PUB0", "SUB0", "PUSH0", "PULL0", "SURVEYOR0",
                "RESPONDENT0", "BUS0"} -> p
      [] OTHER -> "unknown"

\* Mutant: the peer is not checked.
verdict_unchecked(e) ==
    CASE form[Other(e)] = "magic"    -> "InvalidMagic"
      [] form[Other(e)] = "reserved" -> "ReservedNotZero"
      [] OTHER -> "ok"

\* decode_handshake and check_peer on the bytes of the other end.
verdict(e) ==
    CASE form[Other(e)] = "magic"    -> "InvalidMagic"
      [] form[Other(e)] = "reserved" -> "ReservedNotZero"
      [] proto[Other(e)] # expected_peer(proto[e]) -> "IncompatibleProtocol"
      [] OTHER -> "ok"

------------------------------------------------------------------------------
HsInit ==
    /\ scheme \in Schemes
    /\ proto \in [Ends -> Protocols]
    /\ form \in [Ends -> Forms(scheme)] /\ \E e \in Ends : form[e] = "sp"
    /\ st = [e \in Ends |-> IF scheme = "sp" \/ e = "dialer" THEN "writing"
                            ELSE "reading"]
    /\ wrote = [e \in Ends |-> 0] /\ read = [e \in Ends |-> 0]
    /\ broken = FALSE

Finish(e, r) == st' = [st EXCEPT ![e] = r]
Gone(e) == st[e] \in Errors \cup {"dropped"}

\* Bytes from the other end that have not been read.
Available(e) == wrote[Other(e)] - read[e]

------------------------------------------------------------------------------
(* FramedTransport::connect *)

\* write_all: n bytes of the handshake are accepted by the stream.
WriteSome(e, n) ==
    /\ scheme = "sp" /\ st[e] = "writing" /\ ~broken /\ ~Gone(Other(e))
    /\ wrote[e] + n <= HsLen /\ wrote[e] + n - read[Other(e)] <= StreamCap
    /\ wrote' = [wrote EXCEPT ![e] = @ + n]
    /\ IF wrote[e] + n = HsLen THEN Finish(e, "reading") ELSE UNCHANGED st
    /\ UNCHANGED <<scheme, proto, form, read, broken>>

\* A write to a connection whose other end is gone fails or goes nowhere.
WriteErr(e) ==
    /\ scheme = "sp" /\ st[e] = "writing" /\ (broken \/ Gone(Other(e)))
    /\ Finish(e, "Closed") \/ Finish(e, "reading")
    /\ UNCHANGED <<scheme, proto, form, wrote, read, broken>>

\* Mutant: a read may run past the handshake into the first frame.
ReadBuffered(e, n) ==
    /\ scheme = "sp" /\ st[e] = "reading" /\ ~broken
    /\ n <= Available(e)
    /\ read' = [read EXCEPT ![e] = @ + n]
    /\ IF read[e] + n >= HsLen THEN Finish(e, verdict(e)) ELSE UNCHANGED st
    /\ UNCHANGED <<scheme, proto, form, wrote, broken>>

\* read_exact: n bytes are read, never more than the handshake.  With the last
\* one connect decides.
ReadSome(e, n) ==
    /\ scheme = "sp" /\ st[e] = "reading" /\ ~broken
    /\ n <= Available(e) /\ read[e] + n <= HsLen
    /\ read' = [read EXCEPT ![e] = @ + n]
    /\ IF read[e] + n = HsLen THEN Finish(e, verdict(e)) ELSE UNCHANGED st
    /\ UNCHANGED <<scheme, proto, form, wrote, broken>>

\* End of stream, or an error, before the handshake is complete.  Bytes that the
\* other end left behind may be lost with it.
ReadErr(e) ==
    /\ scheme = "sp" /\ st[e] = "reading"
    /\ broken \/ Gone(Other(e))
    /\ Finish(e, "Closed")
    /\ UNCHANGED <<scheme, proto, form, wrote, read, broken>>

\* The first frame follows.
SendFrame(e, n) ==
    /\ scheme = "sp" /\ st[e] = "ok" /\ ~broken /\ ~Gone(Other(e))
    /\ wrote[e] + n <= HsLen + FrameLen /\ wrote[e] + n - read[Other(e)] <= StreamCap
    /\ wrote' = [wrote EXCEPT ![e] = @ + n]
    /\ UNCHANGED <<scheme, proto, form, st, read, broken>>

------------------------------------------------------------------------------
(* WsTransport::connect and accept *)

\* The name in the dialer's upgrade request, the one of the protocol it expects of the
\* listener, and the name in the listener's answer.
Wanted == IF form["dialer"] = "sp" THEN ws_subprotocol(expected_peer(proto["dialer"]))
          ELSE "none"
Echoed == IF form["listener"] = "sp" THEN ws_subprotocol(proto["listener"]) ELSE "none"

\* The dialer's upgrade request.
WsRequest ==
    /\ scheme = "ws" /\ st["dialer"] = "writing" /\ ~broken
    /\ wrote' = [wrote EXCEPT !["dialer"] = HsLen] /\ Finish("dialer", "reading")
    /\ UNCHANGED <<scheme, proto, form, read, broken>>

\* ws_upgrade: what is no upgrade request gets no answer; in the callback the name
\* must be the listener's own, which is answered, or 400.  A foreign listener grants
\* the upgrade without looking at the name, or does not grant any.
WsUpgrade ==
    /\ scheme = "ws" /\ st["listener"] = "reading" /\ ~broken
    /\ wrote["dialer"] = HsLen
    /\ wrote' = [wrote EXCEPT !["listener"] = IF form["dialer"] = "http" THEN 0 ELSE HsLen]
    /\ Finish("listener", IF "http" \in {form[e] : e \in Ends} THEN "Closed"
                          ELSE IF form["listener"] = "sp" /\ Wanted # Echoed
                          THEN "IncompatibleProtocol" ELSE "ok")
    /\ UNCHANGED <<scheme, proto, form, read, broken>>

\* Mutant: the dialer takes every upgrade it is granted.
WsResponseUnchecked ==
    /\ scheme = "ws" /\ st["dialer"] = "reading" /\ ~broken
    /\ wrote["listener"] = HsLen
    /\ Finish("dialer", IF st["listener"] = "ok" THEN "ok" ELSE "IncompatibleProtocol")
    /\ UNCHANGED <<scheme, proto, form, wrote, read, broken>>

\* The dialer gets the answer: the upgrade must be granted, and the name be the one
\* it asked for.
WsResponse ==
    /\ scheme = "ws" /\ st["dialer"] = "reading" /\ ~broken
    /\ wrote["listener"] = HsLen
    /\ Finish("dialer", IF st["listener"] = "ok" /\ Echoed = Wanted THEN "ok"
                        ELSE "IncompatibleProtocol")
    /\ UNCHANGED <<scheme, proto, form, wrote, read, broken>>

\* Mutant: an end that is gone without an answer is waited for.
WsErrBroken(e) ==
    /\ scheme = "ws" /\ st[e] \in {"writing", "reading"} /\ broken
    /\ Finish(e, "Closed")
    /\ UNCHANGED <<scheme, proto, form, wrote, read, broken>>

\* The connection is lost before the upgrade is complete, and an answer that was
\* under way may be lost with it.
WsErr(e) ==
    /\ scheme = "ws" /\ st[e] \in {"writing", "reading"}
    /\ broken \/ Gone(Other(e))
    /\ Finish(e, "Closed")
    /\ UNCHANGED <<scheme, proto, form, wrote, read, broken>>

------------------------------------------------------------------------------
(* Failures *)

\* The connect future is dropped (a timeout), and the stream with it.
Drop(e) ==
    /\ Faults /\ st[e] \in {"writing", "reading"}
    /\ Finish(e, "dropped")
    /\ UNCHANGED <<scheme, proto, form, wrote, read, broken>>

Break ==
    /\ Faults /\ ~broken /\ broken' = TRUE
    /\ UNCHANGED <<scheme, proto, form, st, wrote, read>>

------------------------------------------------------------------------------
(* Properties *)

HsTypeOK ==
    /\ scheme \in Schemes
    /\ proto \in [Ends -> Protocols]
    /\ form \in [Ends -> Forms(scheme)]
    /\ st \in [Ends -> Results \cup {"writing", "reading"}]
    /\ wrote \in [Ends -> 0 .. HsLen + FrameLen] /\ read \in [Ends -> 0 .. HsLen]
    /\ broken \in BOOLEAN

\* The two ends never disagree: when one SP socket has accepted the other, the
\* other does not find it incompatible, and no SP socket accepts a program that
\* does not speak SP.  An end that has accepted took exactly the handshake off the
\* stream: the first bytes of a frame that is already under way are left to recv.
Agreement == \A e \in Ends : form[e] = "sp" /\ st[e] = "ok" =>
    /\ st[Other(e)] # "IncompatibleProtocol"
    /\ form[Other(e)] = "sp"
    /\ scheme = "sp" => read[e] = HsLen

\* Who may talk to whom, as the doc of expected_peer lists it: codec.rs:64
\* "Asymmetric pairs (REQ-REP, PUB-SUB, PUSH-PULL, SURVEYOR-RESPONDENT) require
\* opposite IDs. Symmetric protocols (PAIR0, PAIR1, BUS0) accept the same ID on
\* both sides".  SP sockets accept each other only if they are such a pair, with two
\* exceptions.  PAIR0 and PAIR1 have one WebSocket name and accept each other there.
\* An id the table does not know expects itself: it is refused by every known
\* protocol and over a byte stream by every other id (the peer check is not skipped,
\* as codec.rs:80 says), and all such ids have one WebSocket name.
Pairs == {{"REQ0", "REP0"}, {"PUB0", "SUB0"}, {"PUSH0", "PULL0"},
          {"SURVEYOR0", "RESPONDENT0"}, {"PAIR0"}, {"PAIR1"}, {"BUS0"}}
Known == UNION Pairs
MatchedPairs ==
    LET both == {proto[e] : e \in Ends} IN
    (\E e \in Ends : form[e] = "sp" /\ st[e] = "ok") =>
        \/ both \in Pairs
        \/ scheme = "ws" /\ both = {"PAIR0", "PAIR1"}
        \/ both \cap Known = {} /\ (scheme = "sp" => \E p \in both : both = {p})
==============================================================================
