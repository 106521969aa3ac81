------------------------------- MODULE Session -------------------------------
(***************************************************************************)
(* A client and the server over connections with faults: ClientSession and *)
(* ClientListener, the network between them, and the circumstances of      *)
(* their timers.  A timer is due when what it waits for cannot come; that  *)
(* it fires before, because the other side was slow, is a fault, as are    *)
(* lost connections, sleep, and a reload that drops the client.            *)
(***************************************************************************)
EXTENDS ClientSession, ClientListener, FiniteSets

CONSTANT MaxFaults   \* bound: faults in a behaviour

ASSUME FaultAssumption == MaxFaults \in Nat

VARIABLE faults

vars == <<client, listener, wire, faults>>

Calm   == UNCHANGED faults
Faulty == faults < MaxFaults /\ faults' = faults + 1
Perhaps(due) == IF due THEN Calm ELSE Faulty

TypeOK == ClientTypeOK /\ ListenerTypeOK /\ WireTypeOK /\ faults \in 0..MaxFaults
Init   == ClientInit /\ ListenerInit /\ WireInit /\ faults = 0

-----------------------------------------------------------------------------
(* The network.  It raises the events of a socket while it exists: for the   *)
(* client the stream it has, for the server one with a reader.               *)

Read(c)    == c \in newClients \cup proxies
Raised(es) == events' = events \o es /\ UNCHANGED <<objects, proxy, owners, crashed>>
Queued(es) ==
  /\ queue' = queue \o es
  /\ UNCHANGED <<app, screen, session, suspended, connectOnResume, restarts, list, target>>
Ends(c)    == IF Read(c) THEN <<Notice("gone", c)>> ELSE <<>>

(* A socket reports its end once or twice (shut down, disconnected).        *)
Gone(c) == {<<On("gone", c)>>, <<On("gone", c), On("gone", c)>>}
IfMine(c, es) == IF link = c THEN es ELSE <<>>

(* The TLS handshake ends well on both sides, or badly, as it must when the  *)
(* client has given up.  A socket whose handshake fails reports that it is   *)
(* disconnected, for which a client that is connecting has no handler.       *)
Opens(c) ==
  /\ net[c] = "accepted" /\ link = c
  /\ net' = [net EXCEPT ![c] = "open"]
  /\ Queued(<<On("connected", c)>>) /\ Raised(<<Notice("accepted", c)>>)
  /\ Calm /\ UNCHANGED <<up, down>>

HandshakeFails(c) ==
  /\ net[c] = "accepted"
  /\ net' = [net EXCEPT ![c] = "none"]
  /\ \E es \in Gone(c) : Queued(IfMine(c, es))
  /\ Raised(<<Notice("acceptFailed", c)>>)
  /\ Perhaps(link # c) /\ UNCHANGED <<up, down>>

DialFails(c) ==
  /\ link = c /\ net[c] \in {"nobody", "dialing"}
  /\ net' = [net EXCEPT ![c] = "none"]
  /\ Queued(<<On("connectFailed", c)>>)
  /\ Perhaps(net[c] = "nobody") /\ UNCHANGED <<listener, up, down>>

(* A message, then the end, is announced to the side that has to read it.   *)
ReachesClient(c) ==
  /\ link = c /\ net[c] = "open"
  /\ \/ /\ Spoken(down, c) /\ \A i \in 1..Len(queue) : queue[i] # On("input", c)
        /\ Queued(<<On("input", c)>>) /\ UNCHANGED down
     \/ /\ Ended(down, c) /\ down' = [down EXCEPT ![c] = Tail(@)]
        /\ \E es \in Gone(c) : Queued(es)
  /\ Calm /\ UNCHANGED <<listener, net, up>>

ReachesServer(c) ==
  /\ Read(c) /\ net[c] = "open"
  /\ \/ /\ Spoken(up, c) /\ \A i \in 1..Len(events) : events[i] # Notice("input", c)
        /\ Raised(<<Notice("input", c)>>) /\ UNCHANGED up
     \/ /\ Ended(up, c) /\ up' = [up EXCEPT ![c] = Tail(@)]
        /\ Raised(<<Notice("gone", c)>>)
  /\ Calm /\ UNCHANGED <<client, net, down>>

(* A connection breaks without a sign, or with one for both sides.          *)
Cuts(c) ==
  /\ net[c] = "open" /\ link = c
  /\ net' = [net EXCEPT ![c] = "cut"]
  /\ up' = [up EXCEPT ![c] = <<>>] /\ down' = [down EXCEPT ![c] = <<>>]
  /\ \/ UNCHANGED <<client, listener>>
     \/ Raised(Ends(c)) /\ \E es \in Gone(c) : Queued(es)
  /\ Faulty

-----------------------------------------------------------------------------
(* The two programs in these circumstances.                                 *)

(* A stream is made at an address that no living object has.                *)
Unused(c) ==
  /\ c # link /\ ~Read(c) /\ c \notin accepting
  /\ \A i \in 1..Len(events) : events[i].of # c

ClientLoop ==
  /\ \/ IgnoreEvent \/ HandleConnected \/ HandleConnectionFailed \/ HandleDisconnected
     \/ HandleHello \/ HandleDisconnectRequested \/ HandleSuspend \/ HandleData
     \/ HandleClientConnected \/ HandleClientFailed \/ HandleClientRefused
     \/ HandleClientDisconnected
  /\ Calm /\ UNCHANGED listener

(* Opening the screen or dialing may fail.                                  *)
Opened == screen' /\ (link' # link \/ queue' = queue)
Starts == \E c \in Conn : Unused(c) /\ StartNode(c) /\ Perhaps(Opened) /\ UNCHANGED listener
Restarts ==
  \E c \in Conn : Unused(c) /\ HandleClientRestart(c) /\ Perhaps(Opened) /\ UNCHANGED listener
Resumes ==
  \E c \in Conn : Unused(c) /\ HandleResume(c) /\ UNCHANGED listener
                  /\ Perhaps(queue' = Tail(queue))

(* Nothing comes any more: no connection, and on an open one no reader.     *)
Silent(c) ==
  \/ net[c] \in {"none", "nobody", "cut"}
  \/ /\ net[c] = "open" /\ ~Read(c) /\ down[c] = <<>>
     /\ \A i \in 1..Len(events) : events[i].of # c

ConnectTimesOut == HandleConnectTimeout /\ Perhaps(Silent(link)) /\ UNCHANGED listener
ServerIsDead    == HandleKeepAliveAlarm /\ Perhaps(Silent(link)) /\ UNCHANGED listener

ServerLoop ==
  /\ \/ IgnoreNotice \/ AdoptClient
     \/ \E c \in Conn :
          \/ HandleClientConnecting(c) \/ HandleClientAccepted(c) \/ DisconnectedOnAccept(c)
          \/ HandleHelloBack(c) \/ HandleUnknownGone(c) \/ HandleReady(c)
          \/ HandleProxyLost(c) \/ HandleUnknownClient(c) \/ HandleUnknownFailure(c)
          \/ HandleWaitingDisconnected(c) \/ HandleProxyData(c) \/ HandleProxyGone(c)
          \/ ClientDisconnected(c)
  /\ Calm /\ UNCHANGED client

ServerTimer(c) ==
  /\ HandleUnknownTimeout(c) \/ HandleFlatline(c) \/ ClientCloseTimeout(c)
  /\ Perhaps(net[c] # "open" \/ link # c) /\ UNCHANGED client

Drops == CloseClients /\ Faulty /\ UNCHANGED client

(* The computer of the client goes to sleep and wakes up.                   *)
Power ==
  /\ app = "running" /\ screen /\ UNCHANGED <<listener, wire>>
  /\ \/ Queued(<<Of("Suspend")>>) /\ Faulty
     \/ /\ Queued(<<Of("Resume")>>)
        /\ Perhaps(suspended /\ \A i \in 1..Len(queue) : queue[i] # Of("Resume"))

Next ==
  \/ Starts \/ Restarts \/ Resumes \/ ClientLoop \/ ConnectTimesOut \/ ServerIsDead
  \/ ServerLoop \/ Drops \/ Power
  \/ \E c \in Conn :
       \/ Opens(c) \/ HandshakeFails(c) \/ DialFails(c) \/ ReachesClient(c)
       \/ ReachesServer(c) \/ Cuts(c) \/ ServerTimer(c)

Spec == Init /\ [][Next]_vars

(* Both loops run, the network delivers, and a timer is served when the      *)
(* queue has been emptied again and again.                                   *)
FairSpec ==
  /\ Spec
  /\ WF_vars(Starts) /\ WF_vars(ClientLoop \/ Resumes) /\ WF_vars(ServerLoop)
  /\ WF_vars(\E c \in Conn : ReachesClient(c))
  /\ \A c \in Conn :
       /\ WF_vars(Opens(c) \/ (Calm /\ (HandshakeFails(c) \/ DialFails(c))))
       /\ WF_vars(ReachesServer(c))
       /\ SF_vars(Calm /\ ServerTimer(c))
  /\ SF_vars(Calm /\ Restarts) /\ SF_vars(Calm /\ ConnectTimesOut)
  /\ SF_vars(Calm /\ ServerIsDead)
  /\ WF_vars(suspended /\ Calm /\ Power)

-----------------------------------------------------------------------------
(* Events that make ClientApp schedule a restart.                           *)
Ending(e) == e.type \in {"Failed", "Refused", "Disconnected"}
EndingPending == \E i \in 1..Len(queue) : Ending(queue[i])

(* A client that has no connection will dial again: a restart is pending or  *)
(* an event that schedules one, or it sleeps and will dial when it wakes.    *)
(* ClientApp::scheduleClientRestart is the only way back, and every path out *)
(* of a connection, startClient and the suspended connect() must lead to it. *)
NeverStranded ==
  app = "running" /\ link = None =>
    \/ restarts > 0
    \/ EndingPending
    \/ suspended /\ connectOnResume

(* A request to drop the connection there is.                               *)
Drop(e)     == e.type \in {"hangUp", "fail", "refuse"} /\ Mine(e)
DropPending == \E i \in 1..Len(queue) : Drop(queue[i])

(* A client that has a connection will notice its end: the connect timer or  *)
(* the alarm runs, or a request to drop the connection is under way.  The    *)
(* watch changes hands in handleHello and is wound up by nobody else.        *)
Watched ==
  link # None => timer \/ alarm \/ DropPending

(* Restart timers are never cancelled, and each may lead to a dial.  What    *)
(* can lead to one, and the connection itself, are one more than the sleeps  *)
(* and wake-ups at most: they do not multiply.                               *)
Count(q, es) == Cardinality({i \in 1..Len(q) : q[i] \in es})
Endings      == {e \in Event : Ending(e)}
Dials == restarts + (IF link = None THEN 0 ELSE 1) + Count(queue, Endings)
RestartsBounded == ~crashed => Dials <= 1 + faults

(* No proxy is forgotten or shared: one that lives is with its unknown       *)
(* client, waiting, served, or about to be closed, one that does not live is *)
(* with nobody, and each that waits has been announced to ServerApp.  A proxy *)
(* passes through four owners in six handlers, any of which it may not       *)
(* survive.                                                                  *)
HasFailed(c) == \E i \in 1..Len(events) : events[i] = Notice("failure", c)
Waits(c)     == \E i \in 1..Len(waiting) : waiting[i] = c
Owners(c) ==
  {o \in {"unknown", "listener", "server", "leaving"} :
     \/ o = "unknown"  /\ c \in newClients /\ c \notin streams /\ ~HasFailed(c)
     \/ o = "listener" /\ Waits(c)
     \/ o = "server"   /\ c = serving
     \/ o = "leaving"  /\ c \in closing}
Announcements == Count(events, {Announced})
EachOwnedOnce ==
  ~crashed =>
    /\ \A c \in Conn : Cardinality(Owners(c)) = IF c \in proxies THEN 1 ELSE 0
    /\ Announcements >= Len(waiting)

(* Connections are neither forgotten, shared nor multiplied, on either side. *)
NoneLost == EachOwnedOnce /\ RestartsBounded

(* In the end - no more faults, the client awake - both are in one session.  *)
InSession  == stage = "ready" /\ serving = link /\ net[link] = "open"
Reconnects == <>[](InSession \/ crashed)
NoCrash == ~crashed
=============================================================================
