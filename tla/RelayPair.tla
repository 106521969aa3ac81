------------------------------ MODULE RelayPair ------------------------------
(***************************************************************************)
(* Two devices that meet through the relay: the class Pair of              *)
(* relay/worker.mjs, which holds at most one web socket of each side, and  *)
(* the connect loop of cmd/deskbridge/relay.go on the devices "a" and "b": *)
(* dial, wait for "ready", inner TLS handshake, serve, hang up and retry.  *)
(* The platform reports the end of a socket some time after it happened.   *)
(* The three handshake messages name the connections they were made for,   *)
(* as TLS binds them to its session; what a session carries is left out.   *)
(***************************************************************************)
EXTENDS Integers, Sequences

CONSTANTS
  MaxConns,   \* bound: connections of a device that exist at a time
  Networks,   \* the networks considered: [prompt, faults], where faults bounds
              \* the local failures and broken connections, and a prompt network
              \* delivers messages and the platform reports events before a
              \* retry delay or a timeout has passed
  None        \* no connection, no session

Side  == {"a", "b"}
Other(s) == IF s = "a" THEN "b" ELSE "a"
Conn  == Side \X (1..MaxConns)
Owner(c) == c[1]

ASSUME RelayAssumption ==
  /\ MaxConns \in Nat
  /\ \A n \in Networks : n.prompt \in BOOLEAN /\ n.faults \in Nat
  /\ None \notin Conn \cup (Conn \X Conn)

VARIABLES
  phase,    \* where each device is in its connect loop
  conn,     \* ws: the connection each device uses
  partner,  \* the connection at the far end of the device's inner TLS
  socket,   \* the relay's end of each connection
  cut,      \* the connections whose network has broken without a sign
  up, down, \* messages under way from and to the device, per connection
  faults,   \* faults so far
  network   \* the network the devices and the relay are on

device == <<phase, conn, partner>>
vars == <<phase, conn, partner, socket, cut, up, down, faults, network>>

Phase == {"resting", "dialing", "waiting", "greeting", "serving"}

(* A handshake message names the connections of a and of b, the others none. *)
Msg(kind, x, y) == [kind |-> kind, a |-> x, b |-> y]
Plain(kind)     == Msg(kind, None, None)
Control == {"request", "accepted", "refused", "ready", "close"}
Frame   == {"hello", "reply", "finished"}
ConnOf(s) == {c \in Conn : Owner(c) = s}
Message ==
  [kind : Control, a : {None}, b : {None}]
    \cup [kind : {"hello"}, a : {None}, b : ConnOf("b")]
    \cup [kind : {"reply", "finished"}, a : ConnOf("a"), b : ConnOf("b")]

Init ==
  /\ phase   = [s \in Side |-> "resting"]
  /\ conn    = [s \in Side |-> None]
  /\ partner = [s \in Side |-> None]
  /\ socket  = [c \in Conn |-> "none"]
  /\ cut     = {}
  /\ up      = [c \in Conn |-> <<>>]
  /\ down    = [c \in Conn |-> <<>>]
  /\ faults  = 0
  /\ network \in Networks

-----------------------------------------------------------------------------
(* The relay.                                                               *)

(* getWebSockets: sockets that are open, or closed by the relay and not yet *)
(* by the device.                                                           *)
Listed(c) == socket[c] \in {"open", "closing"}
Sockets(s) == {c \in Conn : Owner(c) = s /\ Listed(c)}

(* Messages to a device arrive if it uses the connection and has got it.    *)
Refused(c) == down[c] # <<>> /\ Head(down[c]).kind = "refused"
Reaches(c) == c \notin cut /\ conn[Owner(c)] = c /\ ~Refused(c)
Send(c, m) == IF Reaches(c) THEN [down EXCEPT ![c] = Append(@, m)] ELSE down

(* close(): the sockets of C that were open tell their devices.             *)
Closed(C) == [c \in Conn |-> IF c \in C /\ socket[c] = "open" THEN "closing" ELSE socket[c]]
ToldClosed(C) ==
  [c \in Conn |-> IF c \in C /\ socket[c] = "open" /\ Reaches(c)
                    THEN Append(down[c], Plain("close")) ELSE down[c]]

Consumed(c) == [up EXCEPT ![c] = Tail(@)]
Arrives(c, kind) == up[c] # <<>> /\ Head(up[c]).kind = kind

(* "This device is already connected".                                      *)
\* Mutant: the check for an earlier socket is missing.
TakenNever(c) == FALSE
Taken(c) == Sockets(Owner(c)) # {}

(* Pair.fetch refuses a side that is listed.                                *)
FetchRefused(c) ==
  /\ Arrives(c, "request")
  /\ Taken(c)
  /\ down' = Send(c, Plain("refused"))
  /\ up' = [up EXCEPT ![c] = <<>>]
  /\ UNCHANGED <<device, socket, cut, faults, network>>

(* Pair.fetch accepts the first device; it waits.                           *)
FetchFirst(c) ==
  /\ Arrives(c, "request")
  /\ ~Taken(c) /\ Sockets(Other(Owner(c))) = {}
  /\ socket' = [socket EXCEPT ![c] = "open"]
  /\ down' = Send(c, Plain("accepted"))
  /\ up' = Consumed(c)
  /\ UNCHANGED <<device, cut, faults, network>>

(* Pair.fetch accepts the second device and tells both.                     *)
FetchSecond(c, d) ==
  /\ Arrives(c, "request")
  /\ ~Taken(c) /\ d \in Sockets(Other(Owner(c)))
  /\ socket[d] = "open"
  /\ socket' = [socket EXCEPT ![c] = "open"]
  /\ down' = [e \in Conn |->
               CASE e = c /\ Reaches(c) -> down[c] \o <<Plain("accepted"), Plain("ready")>>
                 [] e = d /\ Reaches(d) -> Append(down[d], Plain("ready"))
                 [] OTHER -> down[e]]
  /\ up' = Consumed(c)
  /\ UNCHANGED <<device, cut, faults, network>>

(* Where the peer is closing, send throws after the socket was accepted:    *)
(* the device sees an error, and the platform drops the socket's far end.   *)
FetchThrows(c, d) ==
  /\ Arrives(c, "request")
  /\ ~Taken(c) /\ d \in Sockets(Other(Owner(c)))
  /\ socket[d] = "closing"
  /\ socket' = [socket EXCEPT ![c] = "open"]
  /\ down' = Send(c, Plain("refused"))
  /\ up' = [up EXCEPT ![c] = <<Plain("close")>>]
  /\ UNCHANGED <<device, cut, faults, network>>

(* webSocketMessage: to the peer if it takes it, else the sender is closed. *)
WebSocketMessage(c) ==
  /\ up[c] # <<>> /\ Head(up[c]).kind \in Frame
  /\ up' = Consumed(c)
  /\ LET open == {d \in Sockets(Other(Owner(c))) : socket[d] = "open"}
     IN  IF open # {}
           THEN /\ \E d \in open : down' = Send(d, Head(up[c]))
                /\ UNCHANGED socket
           ELSE /\ socket' = Closed({c})
                /\ down' = ToldClosed({c})
  /\ UNCHANGED <<device, cut, faults, network>>

(* closePair, with which a socket whose end is reported takes all others.   *)
\* Mutant: it closes its own socket only.
ClosePairAlone(c) ==
  /\ socket' = [socket EXCEPT ![c] = "none"]
  /\ UNCHANGED down
ClosePair(c) ==
  LET others == {d \in Conn : Listed(d)} \ {c}
  IN  /\ socket' = [Closed(others) EXCEPT ![c] = "none"]
      /\ down' = ToldClosed(others)

(* The end of a connection is known to the platform once the device has     *)
(* closed it or its network turns out broken.                               *)
Ended(c) == Listed(c) /\ (Arrives(c, "close") \/ c \in cut)

(* webSocketClose, webSocketError: the socket was listed until now.         *)
WebSocketClose(c) ==
  /\ Ended(c)
  /\ ClosePair(c)
  /\ up' = [up EXCEPT ![c] = <<>>]
  /\ UNCHANGED <<device, cut, faults, network>>

(* The platform stops listing a socket before it reports its end ...        *)
Unlist(c) ==
  /\ ~network.prompt
  /\ Ended(c)
  /\ socket' = [socket EXCEPT ![c] = "unreported"]
  /\ up' = [up EXCEPT ![c] = <<>>]
  /\ UNCHANGED <<device, cut, down, faults, network>>

(* ... and webSocketClose, webSocketError run when others may be listed.    *)
WebSocketCloseLate(c) ==
  /\ socket[c] = "unreported"
  /\ ClosePair(c)
  /\ UNCHANGED <<device, cut, up, faults, network>>

-----------------------------------------------------------------------------
(* The devices.                                                             *)

(* A connection nobody remembers: a new one may take its name.              *)
Unused(c) ==
  /\ socket[c] = "none" /\ up[c] = <<>> /\ down[c] = <<>>
  /\ \A s \in Side : c # conn[s] /\ c # partner[s]
  /\ \A d \in Conn : \A q \in {up[d], down[d]} : \A i \in DOMAIN q : c \notin {q[i].a, q[i].b}

(* An abandoned or refused connection the relay has not done with.          *)
Lingers(c) == (c # conn[Owner(c)] \/ Refused(c)) /\ c \notin cut /\ (socket[c] # "none" \/ up[c] # <<>>)

(* runRelay dials; in a prompt network the five seconds since the last      *)
(* attempt were enough for all that was under way.                          *)
Dial(s, c) ==
  /\ phase[s] = "resting"
  /\ Owner(c) = s /\ Unused(c)
  /\ network.prompt => ~ \E d \in Conn : Lingers(d)
  /\ phase' = [phase EXCEPT ![s] = "dialing"]
  /\ conn'  = [conn EXCEPT ![s] = c]
  /\ cut'   = cut \ {c}
  /\ up'    = [up EXCEPT ![c] = <<Plain("request")>>]
  /\ UNCHANGED <<partner, socket, down, faults, network>>

(* Every return of runRelay: the web socket, unless it was refused, is      *)
(* closed by deferred calls, and what still arrives on it is lost.          *)
\* Mutant: the web socket of the ended attempt is kept.
HangUpKeeps(s) ==
  /\ phase' = [phase EXCEPT ![s] = "resting"]
  /\ UNCHANGED <<conn, partner, up, down>>
HangUp(s) ==
  /\ phase'   = [phase EXCEPT ![s] = "resting"]
  /\ conn'    = [conn EXCEPT ![s] = None]
  /\ partner' = [partner EXCEPT ![s] = None]
  /\ up'      = IF Refused(conn[s]) \/ conn[s] \in cut
                  THEN up ELSE [up EXCEPT ![conn[s]] = Append(@, Plain("close"))]
  /\ down'    = [down EXCEPT ![conn[s]] = <<>>]

(* Proceed to a phase with a partner, after sending the messages ms.        *)
Proceed(s, p, d, ms) ==
  /\ phase'   = [phase EXCEPT ![s] = p]
  /\ partner' = [partner EXCEPT ![s] = d]
  /\ up'      = IF conn[s] \in cut THEN up ELSE [up EXCEPT ![conn[s]] = @ \o ms]
  /\ down'    = [down EXCEPT ![conn[s]] = Tail(@)]
  /\ UNCHANGED conn

(* The inner handshake: b says hello, a replies, b is done and says so, a   *)
(* is done.  A message made for another connection fails it.                *)
\* Mutant: the handshake's error is ignored.
BoundNot(s, m) == TRUE
Bound(s, m) == IF s = "a" THEN m.a = conn[s] /\ m.b = partner[s] ELSE m.b = conn[s]
IsHello(s, m)    == s = "a" /\ m.kind = "hello" /\ partner[s] = None
IsReply(s, m)    == s = "b" /\ m.kind = "reply" /\ Bound(s, m)
IsFinished(s, m) == s = "a" /\ m.kind = "finished" /\ partner[s] # None /\ Bound(s, m)

(* One read by runRelay: what its phase expects takes it further, and       *)
(* anything else is an error that ends the connection.                      *)
Read(s) ==
  /\ conn[s] # None /\ down[conn[s]] # <<>>
  /\ LET m == Head(down[conn[s]])
         c == conn[s]
     IN  CASE phase[s] = "dialing" /\ m.kind = "accepted" -> Proceed(s, "waiting", None, <<>>)
           [] phase[s] = "waiting" /\ m.kind = "ready" ->
                Proceed(s, "greeting", None, IF s = "b" THEN <<Msg("hello", None, c)>> ELSE <<>>)
           [] phase[s] = "greeting" /\ IsHello(s, m) ->
                Proceed(s, "greeting", m.b, <<Msg("reply", c, m.b)>>)
           [] phase[s] = "greeting" /\ IsReply(s, m) ->
                Proceed(s, "serving", m.a, <<Msg("finished", m.a, c)>>)
           [] phase[s] = "greeting" /\ IsFinished(s, m) -> Proceed(s, "serving", partner[s], <<>>)
           [] OTHER -> HangUp(s)
  /\ UNCHANGED <<socket, cut, faults, network>>

(* Both devices serve one session over connections that work.               *)
Together ==
  /\ \A s \in Side : phase[s] = "serving" /\ partner[s] = conn[Other(s)]
  /\ \A s \in Side : conn[s] \notin cut /\ socket[conn[s]] = "open"

Quiet == \A c \in Conn : up[c] = <<>> /\ down[c] = <<>>

(* The timeouts: TCP keepalive on a broken network in every phase; 20 s for *)
(* the dial, 15 s for the handshake, yamux keepalive for a session, which   *)
(* in a prompt network pass only where nothing is under way any more.       *)
TimeoutDue(s) ==
  /\ phase[s] # "resting"
  /\ \/ conn[s] \in cut
     \/ phase[s] # "waiting" /\ Quiet /\ ~Together
TimeoutEarly(s) == ~network.prompt /\ phase[s] \in {"dialing", "greeting", "serving"}
TimesOut(s) ==
  /\ TimeoutDue(s) \/ TimeoutEarly(s)
  /\ HangUp(s)
  /\ UNCHANGED <<socket, cut, faults, network>>

(* runRelay fails for a local reason, as a port in use, or is restarted.    *)
Fails(s) ==
  /\ faults < network.faults
  /\ phase[s] # "resting"
  /\ faults' = faults + 1
  /\ HangUp(s)
  /\ UNCHANGED <<socket, cut, network>>

(* A device sleeps or changes networks: its connection breaks without a sign. *)
Break(s) ==
  /\ faults < network.faults
  /\ phase[s] # "resting" /\ conn[s] \notin cut
  /\ faults' = faults + 1
  /\ cut'  = cut \cup {conn[s]}
  /\ up'   = [up EXCEPT ![conn[s]] = <<>>]
  /\ down' = [down EXCEPT ![conn[s]] = <<>>]
  /\ UNCHANGED <<device, socket, network>>

-----------------------------------------------------------------------------
Fetch(c) ==
  \/ FetchRefused(c) \/ FetchFirst(c)
  \/ \E d \in Conn : FetchSecond(c, d) \/ FetchThrows(c, d)
Relay(c) == Fetch(c) \/ WebSocketMessage(c) \/ WebSocketClose(c) \/ WebSocketCloseLate(c)

Next ==
  \/ \E c \in Conn : Relay(c) \/ Unlist(c)
  \/ \E s \in Side, c \in Conn : Dial(s, c)
  \/ \E s \in Side : Read(s) \/ TimesOut(s) \/ Fails(s) \/ Break(s)

(* The relay handles what arrives and the platform reports what has ended;  *)
(* devices read, retry and have timeouts.  Faults and hasty timeouts need   *)
(* not happen.                                                              *)
Fairness ==
  /\ \A c \in Conn : WF_vars(Relay(c))
  /\ \A s \in Side : /\ WF_vars(\E c \in Conn : Dial(s, c))
                     /\ WF_vars(Read(s))
                     /\ WF_vars(TimesOut(s) /\ TimeoutDue(s))

Spec == Init /\ [][Next]_vars
FairSpec == Spec /\ Fairness

-----------------------------------------------------------------------------
(* What each variable may hold: the connection a device uses is its own and  *)
(* its partner the other side's, and it has one unless it rests (runRelay).  *)
TypeOK ==
  /\ phase   \in [Side -> Phase]
  /\ conn    \in [Side -> Conn \cup {None}]
  /\ partner \in [Side -> Conn \cup {None}]
  /\ socket  \in [Conn -> {"none", "open", "closing", "unreported"}]
  /\ cut     \subseteq Conn
  /\ up      \in [Conn -> Seq(Message)]
  /\ down    \in [Conn -> Seq(Message)]
  /\ faults  \in 0..network.faults
  /\ network \in Networks
  /\ \A s \in Side : /\ conn[s] # None => Owner(conn[s]) = s
                     /\ partner[s] # None => Owner(partner[s]) = Other(s)
                     /\ conn[s] = None <=> phase[s] = "resting"

(* A session is the pair of connections it runs over; b offers the sessions *)
(* whose last handshake message is under way.                               *)
SessionOf(s) ==
  IF phase[s] # "serving" THEN None
  ELSE IF s = "a" THEN <<conn[s], partner[s]>> ELSE <<partner[s], conn[s]>>
InTransit == UNION {{q[i] : i \in DOMAIN q} : q \in {up[c] : c \in Conn} \cup {down[c] : c \in Conn}}
Offered == {<<m.a, m.b>> : m \in {n \in InTransit : n.kind = "finished"}}

R == INSTANCE Rendezvous WITH
  Session <- Conn \X Conn, NoSession <- None,
  a <- SessionOf("a"), b <- SessionOf("b"), offered <- Offered

(* However the relay mixes up the frames of old and new connections, the    *)
(* devices only ever meet as Rendezvous says: a serves exactly in sessions   *)
(* b has begun with it, each at most once (relay.go runRelay's handshake).  *)
MeetsAsSpecified == R!Spec

(* In a prompt network a session both devices serve ends only by a fault:   *)
(* no late event of an earlier connection closes it (worker.mjs closePair). *)
SessionLasts == [][network.prompt /\ Together => Together' \/ faults' # faults]_vars

(* In a prompt network, once faults stop, the devices meet and stay together *)
(* (cmdConnect retries for ever, worker.mjs frees the sides it refuses).     *)
MeetAgain == network.prompt => <>[]Together
=============================================================================
