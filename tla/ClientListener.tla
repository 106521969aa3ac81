---------------------------- MODULE ClientListener ----------------------------
(***************************************************************************)
(* The server's side of a connection: ClientListener accepts it,           *)
(* ClientProxyUnknown says hello and makes a proxy, ClientProxy1_0 to 1_3  *)
(* ask for the client's shape and watch its heartbeat, and Server adopts   *)
(* the proxy or refuses it when its name is taken.  All clients here have  *)
(* one name.  Objects are named by their connection; one thread dispatches *)
(* the events of `events', and a timer fires when there are none.          *)
(***************************************************************************)
EXTENDS SessionWire

VARIABLES
  accepting,      \* those of m_clientSockets that are not accepted yet; later the set
                  \* only says which sockets stop() has still to delete
  newClients,     \* m_newClients: the living ClientProxyUnknown
  timers,         \* those whose timer of 30 s runs
  streams,        \* those that own their stream (no proxy has taken it)
  ready,          \* those with m_ready
  proxies,        \* the living proxies
  listening,      \* proxies with stream handlers, which disconnect() removes
  known,          \* proxies that have the client's shape: keep-alives and alarm
  waiting,        \* m_waitingClients
  serving,        \* the client in m_clients
  closing,        \* m_oldClients, each with a timer of 5 s
  events,         \* events to dispatch
  crashed         \* a proxy and its stream were deleted twice

objects  == <<accepting, newClients, timers, streams, ready>>
proxy    == <<proxies, listening, known>>
owners   == <<waiting, serving, closing>>
listener == <<objects, proxy, owners, events, crashed>>

Notice(type, c) == [kind |-> type, of |-> c]
Notices == {"accepted", "acceptFailed", "input", "gone", "ready", "disconnected",
            "success", "failure"}
Announced == Notice("clientAccepted", None)
IsOpen(c) == net[c] = "open"

ListenerTypeOK ==
  /\ \A s \in {accepting, newClients, timers, streams, ready, proxies, listening,
               known, closing} : s \subseteq Conn
  /\ waiting \in Seq(Conn) /\ serving \in Conn \cup {None}
  /\ events \in Seq([kind : Notices, of : Conn] \cup {Announced})
  /\ crashed \in BOOLEAN

ListenerInit ==
  /\ accepting = {} /\ newClients = {} /\ timers = {} /\ streams = {} /\ ready = {}
  /\ proxies = {} /\ listening = {} /\ known = {}
  /\ waiting = <<>> /\ serving = None /\ closing = {}
  /\ events = <<>> /\ crashed = FALSE

-----------------------------------------------------------------------------
Noticing(type, c) == ~crashed /\ events # <<>> /\ Head(events) = Notice(type, c)
Quiet             == ~crashed /\ events = <<>>
Raising(es)       == events' = Tail(events) \o es

(* The server's end of a connection closes: what it has written arrives,     *)
(* what it has not read is lost.                                             *)
CloseStream(c, dn) == down' = Written(dn, c, "eof") /\ up' = [up EXCEPT ![c] = <<>>]

(* A proxy is deleted with its stream, which leaves its socket alone.       *)
DeleteProxy(c) ==
  /\ proxies' = proxies \ {c} /\ listening' = listening \ {c} /\ known' = known \ {c}

-----------------------------------------------------------------------------
(* ClientListener: a connection arrives.                                    *)

HandleClientConnecting(c) ==
  /\ ~crashed /\ net[c] = "dialing"
  /\ net' = [net EXCEPT ![c] = "accepted"]
  /\ accepting' = accepting \cup {c}
  /\ UNCHANGED <<newClients, timers, streams, ready, proxy, owners, events, crashed, up, down>>

(* The packet stream replaces the handlers of the socket; the unknown        *)
(* client's timer starts and hello is said.                                  *)
HandleClientAccepted(c) ==
  /\ Noticing("accepted", c)
  /\ Raising(<<>>)
  /\ accepting' = accepting \ {c}
  /\ newClients' = newClients \cup {c}
  /\ streams' = streams \cup {c} /\ timers' = timers \cup {c}
  /\ down' = Written(down, c, "hello")
  /\ UNCHANGED <<ready, proxy, owners, crashed, net, up>>

DisconnectedOnAccept(c) ==
  /\ Noticing("acceptFailed", c)
  /\ Raising(<<>>)
  /\ accepting' = accepting \ {c}
  /\ UNCHANGED <<newClients, timers, streams, ready, proxy, owners, crashed, wire>>

-----------------------------------------------------------------------------
(* ClientProxyUnknown.                                                      *)

(* The proxy, the handlers and the timer go; the listener is told.          *)
SendFailure(c, others) ==
  /\ events' = Append(others, Notice("failure", c))
  /\ timers' = timers \ {c} /\ ready' = ready \ {c}
  /\ DeleteProxy(c)
  /\ UNCHANGED <<accepting, newClients, streams, owners, crashed>>

(* Stream events reach an unknown client while it owns the stream and waits. *)
Unknown(c) == c \in newClients /\ c \in streams /\ c \in timers

HandleHelloBack(c) ==
  /\ Noticing("input", c) /\ Unknown(c)
  /\ IF Spoken(up, c) /\ Head(up[c]) = "helloBack"
     THEN /\ up' = [up EXCEPT ![c] = Tail(@)]
          /\ down' = Written(down, c, "queryInfo")
          /\ streams' = streams \ {c}
          /\ proxies' = proxies \cup {c} /\ listening' = listening \cup {c}
          /\ Raising(<<>>)
          /\ UNCHANGED <<accepting, newClients, timers, ready, known, owners, crashed>>
     ELSE SendFailure(c, Tail(events)) /\ UNCHANGED <<up, down>>
  /\ UNCHANGED net

(* handleDisconnect and handleWriteError of the unknown client.             *)
HandleUnknownGone(c) ==
  /\ Noticing("gone", c) /\ Unknown(c)
  /\ SendFailure(c, Tail(events))
  /\ UNCHANGED wire

HandleUnknownTimeout(c) ==
  /\ Quiet /\ c \in timers
  /\ SendFailure(c, events)
  /\ UNCHANGED wire

(* The proxy of an unknown client is ready (sendSuccess) ...                *)
HandleReady(c) ==
  /\ Noticing("ready", c) /\ c \in newClients /\ c \in proxies
  /\ Raising(<<Notice("success", c)>>)
  /\ ready' = ready \cup {c} /\ timers' = timers \ {c}
  /\ UNCHANGED <<accepting, newClients, streams, proxy, owners, crashed, wire>>

(* ... or has disconnected, before or after that.                           *)
HandleProxyLost(c) ==
  /\ Noticing("disconnected", c) /\ c \in newClients /\ c \in proxies
  /\ SendFailure(c, Tail(events))
  /\ UNCHANGED wire

-----------------------------------------------------------------------------
(* ClientListener: the unknown client is done.                              *)

(* removeUnknownClient deletes what the unknown client still owns.          *)
RemoveUnknownClient(c) ==
  /\ newClients' = newClients \ {c} /\ timers' = timers \ {c}
  /\ streams' = streams \ {c} /\ ready' = ready \ {c}

HandleUnknownClient(c) ==
  /\ Noticing("success", c) /\ c \in newClients
  /\ IF c \in ready
     THEN /\ waiting' = Append(waiting, c) /\ Raising(<<Announced>>)
          /\ UNCHANGED <<up, down>>
     ELSE /\ Raising(<<>>) /\ UNCHANGED waiting
          /\ IF c \in streams THEN CloseStream(c, down) ELSE UNCHANGED <<up, down>>
  /\ RemoveUnknownClient(c)
  /\ UNCHANGED <<accepting, proxy, serving, closing, crashed, net>>

(* The socket is deleted, unless a proxy had taken the stream.              *)
HandleUnknownFailure(c) ==
  /\ Noticing("failure", c) /\ c \in newClients
  /\ Raising(<<>>)
  /\ IF c \in streams THEN CloseStream(c, down) ELSE UNCHANGED <<up, down>>
  /\ RemoveUnknownClient(c)
  /\ UNCHANGED <<accepting, proxy, owners, crashed, net>>

(* A waiting client has gone: handleClientDisconnected deletes the proxy,    *)
(* and then as its socket the proxy's stream, which is gone by then.         *)
HandleWaitingDisconnected(c) ==
  /\ Noticing("disconnected", c)
  /\ \E i \in 1..Len(waiting) :
       /\ waiting[i] = c
       /\ waiting' = SubSeq(waiting, 1, i - 1) \o SubSeq(waiting, i + 1, Len(waiting))
  /\ Raising(<<>>)
  /\ crashed' = TRUE
  /\ DeleteProxy(c)
  /\ UNCHANGED <<objects, serving, closing, wire>>

-----------------------------------------------------------------------------
(* ClientProxy1_0 .. 1_3: every proxy, whoever owns it.                     *)

(* disconnect(): no more handlers, the stream is closed, the owner is told.  *)
Disconnect(c, others) ==
  /\ listening' = listening \ {c} /\ known' = known \ {c}
  /\ CloseStream(c, down)
  /\ events' = Append(others, Notice("disconnected", c))
  /\ UNCHANGED <<objects, proxies, owners, crashed, net>>

\* Mutant: the heartbeat timer is not started.
HandleProxyDataDeaf(c) ==
  /\ Noticing("input", c) /\ c \in listening
  /\ IF Spoken(up, c)
     THEN /\ up' = [up EXCEPT ![c] = Tail(@)]
          /\ down' = Written(down, c, "infoAck")
          /\ Raising(<<Notice("ready", c)>>)
     ELSE Raising(<<>>) /\ UNCHANGED <<up, down>>
  /\ UNCHANGED <<objects, proxy, owners, crashed, net>>

(* The shape is acknowledged and the owner told; keep-alives and the alarm   *)
(* begin.  Later messages only restart the alarm.                            *)
HandleProxyData(c) ==
  /\ Noticing("input", c) /\ c \in listening
  /\ IF Spoken(up, c)
     THEN /\ up' = [up EXCEPT ![c] = Tail(@)]
          /\ IF Head(up[c]) = "info" /\ c \notin known
             THEN /\ down' = Written(down, c, "infoAck")
                  /\ known' = known \cup {c}
                  /\ Raising(<<Notice("ready", c)>>)
             ELSE Raising(<<>>) /\ UNCHANGED <<down, known>>
     ELSE Raising(<<>>) /\ UNCHANGED <<up, down, known>>
  /\ UNCHANGED <<objects, proxies, listening, owners, crashed, net>>

HandleProxyGone(c) ==
  /\ Noticing("gone", c) /\ c \in listening
  /\ Disconnect(c, Tail(events))

HandleFlatline(c) ==
  /\ Quiet /\ c \in listening /\ c \in known
  /\ Disconnect(c, events)

-----------------------------------------------------------------------------
(* ServerApp and Server.                                                    *)

\* Mutant: a client whose name is taken is told so and forgotten.
AdoptClientForgets ==
  /\ Noticing("clientAccepted", None)
  /\ Raising(<<>>)
  /\ IF waiting = <<>>
     THEN UNCHANGED <<owners, down>>
     ELSE LET c == Head(waiting) IN
          /\ waiting' = Tail(waiting) /\ UNCHANGED closing
          /\ serving' = IF serving = None THEN c ELSE serving
          /\ down' = Written(down, c, IF serving = None THEN "setOptions" ELSE "busy")
  /\ UNCHANGED <<objects, proxy, crashed, net, up>>

(* handleClientConnected takes a waiting client, and adoptClient serves it   *)
(* or closes it because one of its name is connected.                        *)
AdoptClient ==
  /\ Noticing("clientAccepted", None)
  /\ Raising(<<>>)
  /\ IF waiting = <<>>
     THEN UNCHANGED <<owners, down>>
     ELSE LET c == Head(waiting) IN
          /\ waiting' = Tail(waiting)
          /\ IF serving = None
             THEN /\ serving' = c /\ UNCHANGED closing
                  /\ down' = Written(down, c, "setOptions")
             ELSE /\ closing' = closing \cup {c} /\ UNCHANGED serving
                  /\ down' = Written(down, c, "busy")
  /\ UNCHANGED <<objects, proxy, crashed, net, up>>

(* closeClients: a reload without the screen, or a forced reconnection.     *)
CloseClients ==
  /\ ~crashed /\ serving # None
  /\ closing' = closing \cup {serving} /\ serving' = None
  /\ down' = Written(down, serving, "close")
  /\ UNCHANGED <<objects, proxy, waiting, events, crashed, net, up>>

ClientDisconnected(c) ==
  /\ Noticing("disconnected", c) /\ c \in closing \cup {serving}
  /\ Raising(<<>>)
  /\ serving' = IF serving = c THEN None ELSE serving
  /\ closing' = closing \ {c}
  /\ DeleteProxy(c)
  /\ UNCHANGED <<objects, waiting, crashed, wire>>

(* The client took too long to hang up.  Its socket stays open.             *)
ClientCloseTimeout(c) ==
  /\ Quiet /\ c \in closing
  /\ closing' = closing \ {c}
  /\ DeleteProxy(c)
  /\ UNCHANGED <<objects, waiting, serving, events, crashed, wire>>

-----------------------------------------------------------------------------
(* An event whose object is gone, or whose handler was removed.             *)
NoticeHandled(e) ==
  CASE e.kind = "input"        -> Unknown(e.of) \/ e.of \in listening
    [] e.kind = "gone"         -> Unknown(e.of) \/ e.of \in listening
    [] e.kind = "ready"        -> e.of \in newClients /\ e.of \in proxies
    [] e.kind = "disconnected" -> \/ e.of \in newClients /\ e.of \in proxies
                                  \/ \E i \in 1..Len(waiting) : waiting[i] = e.of
                                  \/ e.of \in closing \cup {serving}
    [] e.kind = "success"      -> e.of \in newClients
    [] e.kind = "failure"      -> e.of \in newClients
    [] OTHER                   -> TRUE

IgnoreNotice ==
  /\ ~crashed /\ events # <<>> /\ ~NoticeHandled(Head(events))
  /\ Raising(<<>>)
  /\ UNCHANGED <<objects, proxy, owners, crashed, wire>>
=============================================================================
