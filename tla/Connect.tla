------------------------------ MODULE Connect -------------------------------
(***************************************************************************)
(* From a URL to a connected socket: the listen and dial functions of      *)
(* Socket (socket.rs) with their dispatch on the scheme, the streams they  *)
(* open (transport/*.rs) and what runs on them, the handshake of the       *)
(* module Handshake.                                                       *)
(*                                                                         *)
(* One listener and one dialer are given URLs for one address; the schemes *)
(* may differ (a TCP port and a Unix path do not tell them apart).  Either *)
(* may come first.                                                         *)
(***************************************************************************)
EXTENDS Handshake

CONSTANTS
    Urls,      \* schemes that are tried
    Few        \* bound: the protocols tried over schemes other than tcp and ws

ASSUME ConnectAssumption ==
    /\ Urls \subseteq {"tcp", "ipc", "ipc2", "ws", "wss", "tls+tcp", "quic", "vsock", "kcp"}
    /\ Few \subseteq Protocols

VARIABLES
    url,      \* per end: the scheme of its URL
    op,       \* per end: which of the listen and dial functions is called
    usable,   \* per end: can it use its address, its certificate or its roots?
    trusted,  \* does the dialer trust the certificate?
    stale,    \* is there a socket file at the path, of a process that is gone?
    at,       \* per end: "start", "bound" (listener), "tls", "up"
    listening \* the listener object exists

setup == <<url, op, usable, trusted, stale, at, listening>>
vars == <<hsvars, setup>>

------------------------------------------------------------------------------
(* What a scheme stands for *)

\* Two URLs that can meet: a TCP port and a path do not show their scheme.
OneAddress(s, t) ==
    s = t \/ {s, t} \subseteq {"tcp", "ws", "wss", "tls+tcp"} \/ {s, t} \subseteq {"ipc", "ipc2"}

\* TLS over TCP, and the negotiation on top of it.
Tls(s) == s \in {"wss", "tls+tcp"}
Negotiation(s) == IF s \in {"ws", "wss"} THEN "ws" ELSE "sp"
SameTls == Tls(url["dialer"]) = Tls(url["listener"])
SameStack == SameTls /\ Negotiation(url["dialer"]) = Negotiation(url["listener"])

Secured(s) == s \in {"wss", "tls+tcp", "quic"}

\* The schemes that need a certificate have a listen function of their own, and
\* refuse the plain one.
ListenOps == {"listen", "listen_tls", "listen_tls_tcp", "listen_quic", "listen_kcp_with"}
ListenTakes(f, s) ==
    CASE f = "listen" -> ~Secured(s) [] f = "listen_tls" -> s = "wss"
      [] f = "listen_tls_tcp" -> s = "tls+tcp" [] f = "listen_quic" -> s = "quic"
      [] f = "listen_kcp_with" -> s = "kcp"

\* dial takes every scheme; the others bring a configuration for one.
DialOps == {"dial", "dial_tls_tcp", "dial_quic", "dial_kcp_with"}
DialTakes(f, s) ==
    CASE f = "dial" -> TRUE [] f = "dial_tls_tcp" -> s = "tls+tcp"
      [] f = "dial_quic" -> s = "quic" [] f = "dial_kcp_with" -> s = "kcp"

\* A KCP stream is there as soon as it is made: nobody is asked.
NeedsListener(s) == s # "kcp"

\* The accepting end hears of a QUIC stream, and of a KCP connection, with the
\* first bytes the dialer sends on it.
ShowsWithData(s) == s \in {"quic", "kcp"}

\* Mutant: the file of an earlier listener stays.
remove_file_never(s) == FALSE

\* Before it binds, an ipc listener removes whatever is at its path.
remove_file(s) == s \in {"ipc", "ipc2"}

------------------------------------------------------------------------------
Undecided(e) == st[e] \in {"writing", "reading"}
Fails(e, r) == Finish(e, r) /\ UNCHANGED <<scheme, proto, form, wrote, read, broken>>
Reaches(e, a) == at' = [at EXCEPT ![e] = a]

\* The dialer has a connection, whether or not the listener has accepted it.
Connected == at["dialer"] # "start"

Init ==
    /\ HsInit
    /\ url \in [Ends -> Urls] /\ op \in [Ends -> ListenOps \cup DialOps]
    /\ OneAddress(url["dialer"], url["listener"])
    /\ scheme = Negotiation(url["listener"])
    /\ trusted \in IF Secured(url["listener"]) THEN BOOLEAN ELSE {TRUE}
    /\ stale \in IF url["listener"] \in {"ipc", "ipc2"} THEN BOOLEAN ELSE {FALSE}
    /\ at = [e \in Ends |-> "start"] /\ listening = FALSE
    /\ \/ /\ url["dialer"] = url["listener"] /\ url["listener"] \in {"tcp", "ws"}
          /\ op["listener"] = "listen" /\ op["dialer"] = "dial"
          /\ usable = [e \in Ends |-> TRUE]
       \/ /\ \A e \in Ends : proto[e] \in Few /\ form[e] = "sp"
          /\ op["listener"] \in ListenOps /\ op["dialer"] \in DialOps
          /\ usable \in [Ends -> BOOLEAN]

------------------------------------------------------------------------------
(* The listener *)

\* bind_listener and its variants.
Bind ==
    /\ Undecided("listener") /\ at["listener"] = "start"
    /\ IF /\ ListenTakes(op["listener"], url["listener"]) /\ usable["listener"]
          /\ stale => remove_file(url["listener"])
       THEN /\ Reaches("listener", "bound") /\ listening' = TRUE /\ stale' = FALSE
            /\ UNCHANGED <<hsvars, url, op, usable, trusted>>
       ELSE Fails("listener", "NotConnected") /\ UNCHANGED setup

\* Mutant: the listener is dropped after its connection, whatever the scheme.
AcceptDrops ==
    /\ Undecided("listener") /\ at["listener"] = "bound" /\ Connected
    /\ ShowsWithData(url["listener"]) => wrote["dialer"] > 0
    /\ Reaches("listener", IF Tls(url["listener"]) THEN "tls" ELSE "up")
    /\ listening' = FALSE
    /\ UNCHANGED <<hsvars, url, op, usable, trusted, stale>>

\* The accept of accept_as_transport.  The listener is dropped after one
\* connection, but a KCP stream keeps it alive.
Accept ==
    /\ Undecided("listener") /\ at["listener"] = "bound" /\ Connected
    /\ ShowsWithData(url["listener"]) => wrote["dialer"] > 0
    /\ Reaches("listener", IF Tls(url["listener"]) THEN "tls" ELSE "up")
    /\ listening' = (url["listener"] = "kcp")
    /\ UNCHANGED <<hsvars, url, op, usable, trusted, stale>>

\* The QUIC connection is lost before it has a stream.
AcceptErr ==
    /\ Undecided("listener") /\ at["listener"] = "bound" /\ url["listener"] = "quic"
    /\ Connected /\ (broken \/ Gone("dialer"))
    /\ Fails("listener", "NotConnected") /\ listening' = FALSE
    /\ UNCHANGED <<url, op, usable, trusted, stale, at>>

------------------------------------------------------------------------------
(* The dialer *)

\* connect_stream, and the connect of a WebSocket and of QUIC.
Dial ==
    /\ Undecided("dialer") /\ at["dialer"] = "start"
    /\ IF /\ DialTakes(op["dialer"], url["dialer"]) /\ usable["dialer"]
          /\ NeedsListener(url["dialer"]) => listening
       THEN /\ Reaches("dialer", IF Secured(url["dialer"]) THEN "tls" ELSE "up")
            /\ UNCHANGED <<hsvars, url, op, usable, trusted, stale, listening>>
       ELSE Fails("dialer", "NotConnected") /\ UNCHANGED setup

------------------------------------------------------------------------------
(* TLS, in QUIC too *)

\* The dialer is done when it has seen the certificate, the listener when it has
\* heard from the dialer after that.  QUIC shakes hands inside the accept.
TlsDone(e) ==
    /\ SameTls /\ Undecided(e) /\ at[e] = "tls" /\ trusted /\ ~broken /\ ~Gone(Other(e))
    /\ at[Other(e)] = CASE e = "listener" -> "up"
                        [] url[e] = "quic" -> "bound"
                        [] OTHER -> "tls"
    /\ Reaches(e, "up")
    /\ UNCHANGED <<hsvars, url, op, usable, trusted, stale, listening>>

\* The certificate is refused, or the connection is lost.
TlsErr(e) ==
    /\ Undecided(e) /\ at[e] = "tls"
    /\ broken \/ Gone(Other(e)) \/ (e = "dialer" /\ ~trusted)
    /\ Fails(e, "NotConnected") /\ UNCHANGED setup

------------------------------------------------------------------------------
(* Handshake *)

\* What an end reads and writes at the layer it has reached.
Language(e) == IF at[e] = "tls" THEN "tls" ELSE Negotiation(url[e])

\* Whoever gets there first has written before it reads: the dialer its ClientHello,
\* its upgrade request or its handshake, and FramedTransport::connect its handshake
\* on either side.  Listeners of TLS and WebSockets only answer.
Said(e) == at[e] \in {"tls", "up"} /\ (e = "dialer" \/ Language(e) = "sp")

\* Do the ends meet at one layer in different languages?
Crossed ==
    /\ \A e \in Ends : at[e] \in {"tls", "up"}
    /\ ~SameTls \/ (~SameStack /\ \A e \in Ends : at[e] = "up")

\* What comes of reading bytes of another language: no TLS record, no SP magic or no
\* HTTP is found in them.
Nonsense(l) ==
    CASE l = "tls" -> "NotConnected" [] l = "sp" -> "InvalidMagic" [] OTHER -> "Closed"

\* Mutant: an end whose peer says nothing to it waits for its first bytes.
MisreadOnly(e) ==
    /\ Undecided(e) /\ Crossed /\ Said(Other(e))
    /\ Fails(e, Nonsense(Language(e)))
    /\ UNCHANGED setup

\* An end reads the other's first bytes and fails, or, if the other says nothing to it,
\* sees it go away.
Misread(e) ==
    /\ Undecided(e)
    /\ \/ /\ Crossed /\ Said(Other(e))
          /\ Fails(e, Nonsense(Language(e)))
       \/ /\ ~SameStack /\ at[e] = "up" /\ (broken \/ Gone(Other(e)))
          /\ Fails(e, "Closed")
    /\ UNCHANGED setup

\* The streams are up and move bytes.  Bytes for an accepted KCP stream come
\* through its listener.
Live(e) == SameStack /\ at[e] = "up" /\ (e = "listener" /\ url[e] = "kcp" => listening)

HsStep(e) ==
    /\ Live(e)
    /\ \/ \E n \in 1 .. StreamCap : WriteSome(e, n) \/ ReadSome(e, n)
       \/ WriteErr(e) \/ WsErr(e)
       \/ e = "dialer" /\ (WsRequest \/ WsResponse)
       \/ e = "listener" /\ WsUpgrade
       \/ url[e] # "kcp" /\ ReadErr(e)
    /\ UNCHANGED setup

\* A KCP stream may notice that its peer is gone; it has no end of its own.
KcpErr(e) == Live(e) /\ url[e] = "kcp" /\ ReadErr(e) /\ UNCHANGED setup

FirstFrame(e, n) == Live(e) /\ SendFrame(e, n) /\ UNCHANGED setup

------------------------------------------------------------------------------
(* Failures *)

\* A listen or dial future is dropped, at any point.
DropCall(e) ==
    /\ Drop(e) /\ listening' = (listening /\ e # "listener")
    /\ UNCHANGED <<url, op, usable, trusted, stale, at>>

BreakConnection == Connected /\ Break /\ UNCHANGED setup

Next ==
    \/ Bind \/ Accept \/ AcceptErr \/ Dial
    \/ \E e \in Ends : \/ TlsDone(e) \/ TlsErr(e) \/ Misread(e) \/ HsStep(e)
                       \/ KcpErr(e) \/ DropCall(e)
                       \/ \E n \in 1 .. StreamCap : FirstFrame(e, n)
    \/ BreakConnection

Spec == Init /\ [][Next]_vars

\* The futures are polled when their socket is ready.
FairSpec ==
    /\ Spec /\ WF_vars(Bind) /\ WF_vars(Accept) /\ WF_vars(AcceptErr) /\ WF_vars(Dial)
    /\ \A e \in Ends : /\ WF_vars(TlsDone(e) \/ TlsErr(e)) /\ WF_vars(Misread(e))
                       /\ WF_vars(HsStep(e))

------------------------------------------------------------------------------
(* Properties *)

TypeOK ==
    /\ HsTypeOK
    /\ url \in [Ends -> Urls] /\ op["listener"] \in ListenOps /\ op["dialer"] \in DialOps
    /\ usable \in [Ends -> BOOLEAN] /\ trusted \in BOOLEAN /\ stale \in BOOLEAN
    /\ at \in [Ends -> {"start", "bound", "tls", "up"}] /\ at["dialer"] # "bound"
    /\ listening \in BOOLEAN /\ (listening => at["listener"] # "start")

\* Both ends come to a result, whatever breaks or is dropped, and whichever two
\* schemes meet.  Two ends may wait: a listener to which nobody came, and a KCP
\* end whose peer is gone or never was there.
Waits(e) ==
    \/ e = "listener" /\ at[e] = "bound" /\ ~Connected
    \/ url[e] = "kcp" /\ (broken \/ Gone(Other(e)))
Decides == <>[](\A e \in Ends : st[e] \in Results \/ Waits(e))

\* A listener and a dialer that fit each other get a connection, over every
\* scheme, unless one is dropped or the network fails; a dialer that was too early
\* gets an error and leaves the listener waiting.
Fits ==
    /\ url["dialer"] = url["listener"]
    /\ ListenTakes(op["listener"], url["listener"]) /\ DialTakes(op["dialer"], url["dialer"])
    /\ trusted /\ \A e \in Ends : usable[e] /\ form[e] = "sp"
    /\ {proto["dialer"], proto["listener"]} \in Pairs
TooEarly == st["dialer"] = "NotConnected" /\ Undecided("listener") /\ at["listener"] = "bound"
FittingEndsConnect == Fits ~>
    \/ \A e \in Ends : st[e] = "ok"
    \/ TooEarly \/ broken \/ \E e \in Ends : st[e] = "dropped"
==============================================================================
