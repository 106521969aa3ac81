---------------------------- MODULE ClientSession ----------------------------
(***************************************************************************)
(* A client and its one connection: Client (connect, hello, suspend and    *)
(* resume), the part of ServerProxy that speaks in the handshake and       *)
(* watches the server's keep-alives, and ClientApp, which opens the screen *)
(* and dials again through the addresses of its servers.  One thread       *)
(* dispatches the events of `queue'; a timer fires when the queue is empty.*)
(* An event names its stream by address, and an address is used again.     *)
(***************************************************************************)
EXTENDS SessionWire

CONSTANTS
  Addresses,    \* the number of addresses of each server of the list
  Listening,    \* <<server, address>>: where the server can be reached
  ScreenFaults  \* how opening the screen may fail: "unavailable", "failure"

ASSUME ClientAssumption ==
  /\ Addresses \in Seq(Nat \ {0}) /\ Addresses # <<>>
  /\ ScreenFaults \subseteq {"unavailable", "failure"}

VARIABLES
  app,              \* "starting", "running", "exited"
  screen,           \* m_clientScreen and m_client exist
  link,             \* m_stream
  stage,            \* which handlers the stream has, and whether m_server exists
  timer,            \* m_timer, the connect timer
  alarm,            \* m_keepAliveAlarmTimer is running
  suspended, connectOnResume,
  restarts,         \* pending restart timers
  server, address,  \* m_currentServerIndex, m_lastServerAddressIndex
  aim, resolved,    \* m_serverAddress, m_resolvedAddressesCount
  queue             \* events to dispatch

session == <<link, stage, timer, alarm>>
list    == <<server, address>>
target  == <<aim, resolved>>
client  == <<app, screen, session, suspended, connectOnResume, restarts, list, target, queue>>

Servers == 0..(Len(Addresses) - 1)
Steps == {"idle", "dialing", "greeting", "joining", "ready"}
OfStream == {"connected", "connectFailed", "input", "gone", "hangUp", "fail", "refuse"}
OfClient == {"Connected", "Failed", "Refused", "Disconnected", "Suspend", "Resume"}
On(type, c) == [type |-> type, conn |-> c]
Of(type)    == [type |-> type, conn |-> None]
Event == [type : OfStream, conn : Conn] \cup [type : OfClient, conn : {None}]

ClientTypeOK ==
  /\ app \in {"starting", "running", "exited"} /\ screen \in BOOLEAN
  /\ link \in Conn \cup {None} /\ stage \in Steps
  /\ timer \in BOOLEAN /\ alarm \in BOOLEAN
  /\ suspended \in BOOLEAN /\ connectOnResume \in BOOLEAN
  /\ restarts \in Nat
  /\ server \in Servers /\ address \in Nat
  /\ aim \in Servers /\ resolved \in Nat
  /\ queue \in Seq(Event)

ClientInit ==
  /\ app = "starting" /\ screen = FALSE
  /\ link = None /\ stage = "idle" /\ timer = FALSE /\ alarm = FALSE
  /\ suspended = FALSE /\ connectOnResume = FALSE
  /\ restarts = 0
  /\ server = 0 /\ address = 0 /\ aim = 0 /\ resolved = 0
  /\ queue = <<>>

-----------------------------------------------------------------------------
(* The event loop.                                                          *)

Dispatching(type) == app = "running" /\ queue # <<>> /\ Head(queue).type = type
Idling            == app = "running" /\ queue = <<>>
Posting(es)       == queue' = Tail(queue) \o es
Mine(e)           == e.conn = link

(* The stream still has a handler for the event.                            *)
Handled(e) ==
  CASE e.type \in {"connected", "connectFailed"} -> Mine(e) /\ stage = "dialing"
    [] e.type \in {"input", "gone", "hangUp", "fail", "refuse"} ->
         Mine(e) /\ stage \in {"greeting", "joining", "ready"}
    [] OTHER -> TRUE

IgnoreEvent ==
  /\ app = "running" /\ queue # <<>> /\ ~Handled(Head(queue))
  /\ Posting(<<>>)
  /\ UNCHANGED <<app, screen, session, suspended, connectOnResume, restarts, list, target, wire>>

-----------------------------------------------------------------------------
(* Client.                                                                  *)

(* cleanupTimer, cleanupScreen, cleanupConnecting and cleanupConnection: the *)
(* proxy and the stream are deleted, and the socket closes.                  *)
CleanUp ==
  /\ link' = None /\ stage' = "idle" /\ timer' = FALSE /\ alarm' = FALSE
  /\ IF link = None THEN UNCHANGED wire
     ELSE /\ up'   = Written(up, link, "eof")
          /\ down' = [down EXCEPT ![link] = <<>>]
          /\ UNCHANGED net

(* A new stream begins to connect, watched by the connect timer of 2 s.  An  *)
(* index past the end stands for the last address.                           *)
AddressAt(srv, i) == <<srv, IF i < Addresses[srv + 1] THEN i ELSE Addresses[srv + 1] - 1>>
Dial(c, at) ==
  /\ link' = c /\ stage' = "dialing" /\ timer' = TRUE /\ alarm' = FALSE
  /\ net'  = [net EXCEPT ![c] = IF at \in Listening THEN "dialing" ELSE "nobody"]
  /\ up'   = [up EXCEPT ![c] = <<>>]
  /\ down' = [down EXCEPT ![c] = <<>>]

HandleConnected ==
  /\ Dispatching("connected") /\ Handled(Head(queue))
  /\ stage' = "greeting"
  /\ Posting(<<>>)
  /\ UNCHANGED <<app, screen, link, timer, alarm, suspended, connectOnResume, restarts, list, target,
                 wire>>

HandleConnectionFailed ==
  /\ Dispatching("connectFailed") /\ Handled(Head(queue))
  /\ CleanUp
  /\ Posting(<<Of("Failed")>>)
  /\ UNCHANGED <<app, screen, suspended, connectOnResume, restarts, list, target>>

HandleConnectTimeout ==
  /\ Idling /\ timer
  /\ CleanUp
  /\ queue' = <<Of("Failed")>>
  /\ UNCHANGED <<app, screen, suspended, connectOnResume, restarts, list, target>>

\* Mutant: the stream keeps its handlers.
HandleDisconnectedAgain ==
  /\ Dispatching("gone") /\ Handled(Head(queue))
  /\ Posting(<<Of("Disconnected")>>)
  /\ UNCHANGED <<app, screen, session, suspended, connectOnResume, restarts, list, target, wire>>

(* handleDisconnected and handleOutputError.                                *)
HandleDisconnected ==
  /\ Dispatching("gone") /\ Handled(Head(queue))
  /\ CleanUp
  /\ Posting(<<Of("Disconnected")>>)
  /\ UNCHANGED <<app, screen, suspended, connectOnResume, restarts, list, target>>

\* Mutant: the alarm is not set when the proxy is made.
HandleHelloUnwatched ==
  /\ Dispatching("input") /\ Handled(Head(queue)) /\ stage = "greeting"
  /\ IF Spoken(down, link) /\ Head(down[link]) = "hello"
     THEN /\ down' = [down EXCEPT ![link] = Tail(@)]
          /\ up'   = Written(up, link, "helloBack")
          /\ stage' = "joining" /\ timer' = FALSE /\ UNCHANGED <<alarm, link, net>>
     ELSE CleanUp
  /\ Posting(<<>>)
  /\ UNCHANGED <<app, screen, suspended, connectOnResume, restarts, list, target>>

(* A hello starts the proxy and its alarm and ends the connect timer; what   *)
(* has arrived behind it is announced again.  Anything else is a failure.    *)
HandleHello ==
  /\ Dispatching("input") /\ Handled(Head(queue)) /\ stage = "greeting"
  /\ IF Spoken(down, link) /\ Head(down[link]) = "hello"
     THEN /\ down' = [down EXCEPT ![link] = Tail(@)]
          /\ up'   = Written(up, link, "helloBack")
          /\ stage' = "joining" /\ timer' = FALSE /\ alarm' = TRUE
          /\ \/ Posting(<<>>)
             \/ Spoken(down', link) /\ Posting(<<Head(queue)>>)
          /\ UNCHANGED <<link, net>>
     ELSE CleanUp /\ Posting(<<Of("Failed")>>)
  /\ UNCHANGED <<app, screen, suspended, connectOnResume, restarts, list, target>>

HandleDisconnectRequested ==
  /\ \/ Dispatching("hangUp") /\ Posting(<<Of("Disconnected")>>)
     \/ Dispatching("fail")   /\ Posting(<<Of("Failed")>>)
     \/ Dispatching("refuse") /\ Posting(<<Of("Refused")>>)
  /\ Handled(Head(queue))
  /\ CleanUp
  /\ connectOnResume' = FALSE
  /\ UNCHANGED <<app, screen, suspended, restarts, list, target>>

HandleSuspend ==
  /\ Dispatching("Suspend")
  /\ IF suspended
     THEN /\ Posting(<<>>)
          /\ UNCHANGED <<session, suspended, connectOnResume, wire>>
     ELSE /\ suspended' = TRUE
          /\ connectOnResume' = (stage \in {"joining", "ready"})
          /\ CleanUp
          /\ Posting(<<Of("Disconnected")>>)
  /\ UNCHANGED <<app, screen, restarts, list, target>>

(* Client::connect, not suspended, to the i-th address of a server on a new  *)
(* stream c: it dials, or resolving or opening the socket throws.            *)
Connect(c, srv, i, posted) ==
  IF link # None
  THEN posted = <<>> /\ UNCHANGED <<session, resolved, wire>>
  ELSE \/ /\ posted = <<>> /\ Dial(c, AddressAt(srv, i))
          /\ resolved' = Addresses[srv + 1]
       \/ /\ posted = <<Of("Failed")>> /\ UNCHANGED <<session, wire>>
          /\ resolved' \in {resolved, Addresses[srv + 1]}

HandleResume(c) ==
  /\ Dispatching("Resume")
  /\ suspended' = FALSE
  /\ IF suspended /\ connectOnResume
     THEN /\ connectOnResume' = FALSE
          /\ \E posted \in {<<>>, <<Of("Failed")>>} :
               Connect(c, aim, 0, posted) /\ Posting(posted)
     ELSE Posting(<<>>) /\ UNCHANGED <<session, connectOnResume, resolved, wire>>
  /\ UNCHANGED <<app, screen, restarts, list, aim>>

-----------------------------------------------------------------------------
(* ServerProxy.                                                             *)

(* What the parsers do with a message, and the event they ask for.          *)
Reply(msg) == IF msg = "queryInfo" THEN "info" ELSE ""
Asked(msg) ==
  CASE msg = "close"                      -> <<On("hangUp", link)>>
    [] msg = "busy" /\ stage = "joining"  -> <<On("refuse", link)>>
    [] msg = "setOptions" /\ stage = "joining" -> <<Of("Connected")>>
    [] OTHER                              -> <<>>

(* One message of the loop in handleData.  The event stays at the head of    *)
(* the queue while more has arrived and the message did not end the loop.    *)
HandleData ==
  /\ Dispatching("input") /\ Handled(Head(queue)) /\ stage \in {"joining", "ready"}
  /\ IF Spoken(down, link)
     THEN LET msg == Head(down[link]) IN
          /\ down' = [down EXCEPT ![link] = Tail(@)]
          /\ up'   = IF Reply(msg) = "" THEN up ELSE Written(up, link, Reply(msg))
          /\ stage' = IF msg = "setOptions" THEN "ready" ELSE stage
          /\ \/ Posting(Asked(msg))
             \/ /\ Spoken(down', link) /\ msg \notin {"close", "busy"}
                /\ queue' = queue \o Asked(msg)
     ELSE Posting(<<>>) /\ UNCHANGED <<stage, up, down>>
  /\ UNCHANGED <<app, screen, link, timer, alarm, suspended, connectOnResume, restarts, list, target,
                 net>>

HandleKeepAliveAlarm ==
  /\ Idling /\ alarm
  /\ alarm' = FALSE
  /\ queue' = <<On("fail", link)>>
  /\ UNCHANGED <<app, screen, link, stage, timer, suspended, connectOnResume, restarts, list, target,
                 wire>>

-----------------------------------------------------------------------------
(* ClientApp.                                                               *)

ScheduleRestart == restarts' = restarts + 1

HandleClientConnected ==
  /\ Dispatching("Connected")
  /\ server' = 0 /\ address' = 0
  /\ Posting(<<>>)
  /\ UNCHANGED <<app, screen, session, suspended, connectOnResume, restarts, target, wire>>

\* Mutant: the list of servers is not walked in a circle.
HandleClientFailedOn ==
  /\ Dispatching("Failed")
  /\ IF address + 1 < resolved
     THEN address' = address + 1 /\ UNCHANGED server
     ELSE address' = 0 /\ server' = server + 1
  /\ ScheduleRestart
  /\ Posting(<<>>)
  /\ UNCHANGED <<app, screen, session, suspended, connectOnResume, target, wire>>

(* The next address of this server, or the first one of the next server.    *)
HandleClientFailed ==
  /\ Dispatching("Failed")
  /\ IF address + 1 < resolved
     THEN address' = address + 1 /\ UNCHANGED server
     ELSE address' = 0 /\ server' = (server + 1) % Len(Addresses)
  /\ ScheduleRestart
  /\ Posting(<<>>)
  /\ UNCHANGED <<app, screen, session, suspended, connectOnResume, target, wire>>

\* Mutant: a refused client gives up.
HandleClientRefusedStays ==
  /\ Dispatching("Refused")
  /\ Posting(<<>>)
  /\ UNCHANGED <<app, screen, session, suspended, connectOnResume, restarts, list, target, wire>>

HandleClientRefused ==
  /\ Dispatching("Refused")
  /\ ScheduleRestart
  /\ Posting(<<>>)
  /\ UNCHANGED <<app, screen, session, suspended, connectOnResume, list, target, wire>>

HandleClientDisconnected ==
  /\ Dispatching("Disconnected")
  /\ ScheduleRestart
  /\ Posting(<<>>)
  /\ UNCHANGED <<app, screen, session, suspended, connectOnResume, list, target, wire>>

(* startClient opens the screen if there is none and connects.  `left' is    *)
(* the number of restart timers besides the one that has led here.           *)
StartClient(c, left) ==
  \/ /\ screen' = TRUE /\ aim' = server /\ restarts' = left
     /\ \E posted \in {<<>>, <<Of("Failed")>>} :
          /\ queue' = queue \o posted
          /\ IF suspended
             THEN posted = <<>> /\ connectOnResume' = (link = None \/ connectOnResume)
                  /\ UNCHANGED <<session, resolved, wire>>
             ELSE Connect(c, server, address, posted) /\ UNCHANGED connectOnResume
  \/ /\ ~screen /\ "unavailable" \in ScreenFaults
     /\ restarts' = left + 1
     /\ UNCHANGED <<screen, session, connectOnResume, target, queue, wire>>

ScreenFails(left) ==
  /\ ~screen /\ "failure" \in ScreenFaults
  /\ restarts' = left
  /\ UNCHANGED <<screen, session, connectOnResume, target, queue, wire>>

StartNode(c) ==
  /\ app = "starting"
  /\ \/ app' = "running" /\ StartClient(c, restarts)
     \/ app' = "exited"  /\ ScreenFails(restarts)
  /\ UNCHANGED <<suspended, list>>

(* Unlike startNode, it does not look at what startClient returns.          *)
HandleClientRestart(c) ==
  /\ Idling /\ restarts > 0
  /\ StartClient(c, restarts - 1) \/ ScreenFails(restarts - 1)
  /\ UNCHANGED <<app, suspended, list>>
=============================================================================
