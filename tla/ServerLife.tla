------------------------------ MODULE ServerLife ------------------------------
(***************************************************************************)
(* The life of the server program, engine/src/src/lib/deskflow/            *)
(* ServerApp.cpp: it starts the server with its listener, closes it when   *)
(* the machine sleeps and starts it again when it wakes, and closes it     *)
(* when it is asked to exit.  closeServer() waits for the clients inside   *)
(* an event loop of its own, which dispatches every event there is and     *)
(* ends at any Quit, so closings may nest.  The screens of a running       *)
(* server are ServerScreens, its connections Session.                      *)
(***************************************************************************)
EXTENDS Integers, Sequences, FiniteSets

CONSTANTS
  Client,       \* the clients that connect
  None,         \* nullptr
  MaxStarts,    \* bound on the servers made
  MaxPower,     \* bound on the suspends and resumes heard
  MaxRequests   \* bound on the signals sent (quit, reload)

ASSUME LifeAssumption ==
  /\ MaxStarts \in Nat /\ MaxPower \in Nat /\ MaxRequests \in Nat
  /\ None \notin Nat

VARIABLES
  phase,      \* of mainLoop(): before, in or after its loop()
  state,      \* m_serverState
  server,     \* m_server, by its number
  listening,  \* m_listener is there
  screen,     \* m_serverScreen and m_primaryClient are there
  suspended,  \* m_suspended
  closings,   \* the calls of closeServer(), the innermost last
  watched,    \* servers with a handler of ServerDisconnected
  status,     \* each client's proxy: waiting, or in m_clients or m_oldClients
  freed,      \* the servers deleted
  starts,     \* how many servers were made
  events,     \* the event queue
  awake,      \* environment: the machine
  asked,      \* exit was requested
  crashed,    \* a server was deleted twice
  power, requests

life   == <<phase, state, server, listening, screen, suspended>>
ending == <<closings, watched, freed>>
spent  == <<starts, power, requests>>
vars   == <<life, ending, status, events, awake, asked, crashed, spent>>

Server  == 1..MaxStarts
Reason  == {"suspend", "exit"}
Closing == [server : Server, why : Reason, timer : BOOLEAN]

Quit            == [kind |-> "quit"]
Reload          == [kind |-> "reload"]
Disconnected(s) == [kind |-> "disconnected", server |-> s]
Accepted(s, c)  == [kind |-> "accepted", server |-> s, client |-> c]
Gone(c)         == [kind |-> "gone", client |-> c]
Event == {Quit, Reload} \cup {Disconnected(s) : s \in Server}
           \cup {Accepted(s, c) : s \in Server, c \in Client} \cup {Gone(c) : c \in Client}

TypeOK ==
  /\ phase \in {"starting", "running", "exiting", "ended"}
  /\ state \in {"uninitialized", "initialized", "started"}
  /\ server \in Server \cup {None}
  /\ listening \in BOOLEAN /\ screen \in BOOLEAN /\ suspended \in BOOLEAN
  /\ closings \in Seq(Closing) /\ watched \subseteq Server /\ freed \subseteq Server
  /\ status \in [Client -> {"none", "waiting", "active", "leaving"}]
  /\ events \in Seq(Event)
  /\ awake \in BOOLEAN /\ asked \in BOOLEAN /\ crashed \in BOOLEAN
  /\ starts \in 0..MaxStarts /\ power \in 0..MaxPower /\ requests \in 0..MaxRequests

Init ==
  /\ phase = "starting" /\ state = "uninitialized" /\ server = None
  /\ listening = FALSE /\ screen = FALSE /\ suspended = FALSE
  /\ closings = <<>> /\ watched = {} /\ freed = {}
  /\ status = [c \in Client |-> "none"]
  /\ starts = 0 /\ events = <<>>
  /\ awake = TRUE /\ asked = FALSE /\ crashed = FALSE
  /\ power = 0 /\ requests = 0

-----------------------------------------------------------------------------
(* The Server object, as far as closing it goes.                             *)
InServer(st) == {c \in Client : st[c] \in {"active", "leaving"}}

\* closeClients(): those of cs are told to close, and given 5 s.
Told(cs) == [c \in Client |-> IF c \in cs /\ status[c] = "active" THEN "leaving" ELSE status[c]]

\* What is announced when nobody is left; es is the queue so far.
Announce(s, st, es) ==
  IF InServer(st) = {} THEN Append(es, Disconnected(s)) ELSE es

\* disconnect().
Disconnect(es) ==
  /\ status' = Told(Client)
  /\ events' = Announce(server, status, es)

\* removeActiveClient(), removeOldClient().
Remove(c, es) ==
  /\ status' = [status EXCEPT ![c] = "none"]
  /\ events' = Announce(server, status', es)

-----------------------------------------------------------------------------
(* Starting.  Opening the screen, the listener or the server may fail.       *)
OpenServer ==
  /\ starts < MaxStarts
  /\ starts' = starts + 1 /\ server' = starts + 1 /\ listening' = TRUE
  /\ state' = "started"

\* startServer() once the screen is there.
StartServer ==
  \/ state = "initialized" /\ OpenServer
  \/ UNCHANGED <<state, server, listening, starts>>

\* startNode(), and mainLoop() when it throws.
StartNode ==
  /\ phase = "starting"
  /\ \/ OpenServer /\ screen' = TRUE /\ phase' = "running"
     \/ phase' = "ended" /\ UNCHANGED <<state, server, listening, starts, screen>>
  /\ UNCHANGED <<suspended, ending, status, events, awake, asked, crashed, power, requests>>

-----------------------------------------------------------------------------
(* Closing.                                                                  *)
InLoop == ~crashed /\ (phase = "running" \/ closings # <<>>)
Inner  == closings[Len(closings)]

\* Mutant: the client's own timers are enough.
BeginClosingUntimed(why, es) ==
  /\ Disconnect(es)
  /\ closings' = Append(closings, [server |-> server, why |-> why, timer |-> FALSE])
  /\ watched' = watched \cup {server}
  /\ UNCHANGED <<state, server, listening, screen, suspended, freed>>

\* closeServer() up to its loop().
BeginClosing(why, es) ==
  /\ Disconnect(es)
  /\ closings' = Append(closings, [server |-> server, why |-> why, timer |-> TRUE])
  /\ watched' = watched \cup {server}
  /\ UNCHANGED <<state, server, listening, screen, suspended, freed>>

\* Mutant: a suspended server counts as cleaned up.
CleanUpAwake ==
  /\ phase' = "ended"
  /\ IF suspended THEN UNCHANGED <<screen, state>> ELSE screen' = FALSE /\ state' = "uninitialized"

\* cleanupServer() when the server is stopped.
CleanUp == screen' = FALSE /\ state' = "uninitialized" /\ phase' = "ended"

\* closeServer() from the end of its loop(), where ~Server() disconnects and
\* deletes whoever is left, closeClientListener(), and the caller's rest.
EndClosing ==
  /\ closings' = SubSeq(closings, 1, Len(closings) - 1)
  /\ watched' = watched \ {Inner.server}
  /\ crashed' = (Inner.server \in freed)
  /\ freed' = freed \cup {Inner.server}
  /\ status' = [c \in Client |-> "none"]
  /\ events' = Announce(Inner.server, status, Tail(events))
  /\ server' = None /\ listening' = FALSE
  /\ IF Inner.why = "suspend"
     THEN suspended' = TRUE /\ state' = "initialized" /\ UNCHANGED <<screen, phase>>
     ELSE CleanUp /\ UNCHANGED suspended

-----------------------------------------------------------------------------
(* Dispatching.                                                              *)
Dispatching(e) == InLoop /\ events # <<>> /\ Head(events) = e
Drop == events' = Tail(events) /\ UNCHANGED status

\* A Quit ends the innermost loop(), whoever added it.
HandleQuit ==
  /\ Dispatching(Quit)
  /\ \/ closings # <<>> /\ EndClosing
     \/ /\ closings = <<>> /\ state = "started"
        /\ BeginClosing("exit", Tail(events)) /\ phase' = "exiting"
        /\ UNCHANGED crashed
     \/ /\ closings = <<>> /\ state # "started"
        /\ CleanUp /\ Drop
        /\ UNCHANGED <<server, listening, suspended, ending, crashed>>
  /\ UNCHANGED <<awake, asked, spent>>

\* The handler closeServer() adds.
HandleServerDisconnected(s) ==
  /\ Dispatching(Disconnected(s))
  /\ events' = IF s \in watched THEN Append(Tail(events), Quit) ELSE Tail(events)
  /\ UNCHANGED <<life, ending, status, awake, asked, crashed, spent>>

\* Mutant: closeClientListener() leaves its handler in place.
HandleClientConnectedLate(s, c) ==
  /\ Dispatching(Accepted(s, c))
  /\ events' = Tail(events)
  /\ status' = [status EXCEPT ![c] = "active"]
  /\ UNCHANGED <<life, ending, awake, asked, crashed, spent>>

\* handleClientConnected(), adoptClient(): also while the server closes.
HandleClientConnected(s, c) ==
  /\ Dispatching(Accepted(s, c))
  /\ events' = Tail(events)
  /\ IF listening /\ server = s
     THEN status' = [status EXCEPT ![c] = "active"] ELSE UNCHANGED status
  /\ UNCHANGED <<life, ending, awake, asked, crashed, spent>>

\* Mutant: the handler outlives the proxy.
HandleClientDisconnectedAgain(c) ==
  /\ Dispatching(Gone(c))
  /\ Remove(c, Tail(events))
  /\ UNCHANGED <<life, ending, awake, asked, crashed, spent>>

\* Server::handleClientDisconnected(); its handler went with the proxy.
HandleClientDisconnected(c) ==
  /\ Dispatching(Gone(c))
  /\ IF c \in InServer(status) THEN Remove(c, Tail(events)) ELSE Drop
  /\ UNCHANGED <<life, ending, awake, asked, crashed, spent>>

\* reloadConfig(): a configuration that parses drops some clients.
HandleReload ==
  /\ Dispatching(Reload)
  /\ events' = Tail(events)
  /\ IF phase = "running" /\ server # None
     THEN \E cs \in SUBSET Client : status' = Told(cs) ELSE UNCHANGED status
  /\ UNCHANGED <<life, ending, awake, asked, crashed, spent>>

-----------------------------------------------------------------------------
(* Timers fire when no event waits.                                          *)
Quiet == InLoop /\ events = <<>>

\* closeServer(): 3 s.
ClosingTimeout(i) ==
  /\ Quiet /\ closings[i].timer
  /\ closings' = [closings EXCEPT ![i].timer = FALSE]
  /\ events' = <<Quit>>
  /\ UNCHANGED <<life, watched, freed, status, awake, asked, crashed, spent>>

\* handleClientCloseTimeout(): 5 s.
ClientCloseTimeout(c) ==
  /\ Quiet /\ status[c] = "leaving"
  /\ Remove(c, events)
  /\ UNCHANGED <<life, ending, awake, asked, crashed, spent>>

-----------------------------------------------------------------------------
(* The power messages of the system, delivered at once in any loop().  A     *)
(* change of the clock counts as waking up.                                  *)
HandleSuspend ==
  /\ InLoop /\ awake /\ power < MaxPower
  /\ power' = power + 1 /\ awake' = FALSE
  /\ IF suspended \/ state # "started"
     THEN suspended' = TRUE /\ UNCHANGED <<state, server, listening, screen, ending, status, events>>
     ELSE BeginClosing("suspend", events)
  /\ UNCHANGED <<phase, asked, crashed, starts, requests>>

HandleResume ==
  /\ InLoop /\ power < MaxPower
  /\ power' = power + 1 /\ awake' = TRUE
  /\ IF suspended
     THEN StartServer /\ suspended' = FALSE
     ELSE UNCHANGED <<state, server, listening, suspended, starts>>
  /\ UNCHANGED <<phase, screen, ending, status, events, asked, crashed, requests>>

-----------------------------------------------------------------------------
(* What the environment adds: signals, clients that come and go.             *)
Request(e) ==
  /\ ~crashed /\ phase \in {"running", "exiting"} /\ requests < MaxRequests
  /\ requests' = requests + 1
  /\ events' = Append(events, e)
  /\ asked' = (asked \/ e = Quit)
  /\ UNCHANGED <<life, ending, status, awake, crashed, starts, power>>

Queued(e) == \E i \in 1..Len(events) : events[i] = e

ClientArrives(c) ==
  /\ ~crashed /\ listening /\ status[c] = "none" /\ ~Queued(Gone(c))
  /\ status' = [status EXCEPT ![c] = "waiting"]
  /\ events' = Append(events, Accepted(server, c))
  /\ UNCHANGED <<life, ending, awake, asked, crashed, spent>>

ClientGoes(c) ==
  /\ ~crashed /\ c \in InServer(status) /\ ~Queued(Gone(c))
  /\ events' = Append(events, Gone(c))
  /\ UNCHANGED <<life, ending, status, awake, asked, crashed, spent>>

-----------------------------------------------------------------------------
Dispatch ==
  \/ HandleQuit \/ HandleReload
  \/ \E s \in Server : HandleServerDisconnected(s)
  \/ \E s \in Server, c \in Client : HandleClientConnected(s, c)
  \/ \E c \in Client : HandleClientDisconnected(c)

Next ==
  \/ StartNode \/ Dispatch \/ HandleSuspend \/ HandleResume
  \/ \E i \in 1..Len(closings) : ClosingTimeout(i)
  \/ \E c \in Client : ClientCloseTimeout(c) \/ ClientArrives(c) \/ ClientGoes(c)
  \/ Request(Quit) \/ Request(Reload)

Spec == Init /\ [][Next]_vars

\* loop() dispatches; a timer that is due fires when the queue is next empty,
\* be it now and then.  Clients owe nothing.
Fairness ==
  /\ WF_vars(Dispatch)
  /\ \A i \in 1..MaxPower + 1 : SF_vars(i <= Len(closings) /\ ClosingTimeout(i))
  /\ \A c \in Client : SF_vars(ClientCloseTimeout(c))

FairSpec == Spec /\ Fairness

-----------------------------------------------------------------------------
(* Every client proxy that is connected or closing belongs to a server that  *)
(* is there: none survives the Server whose handlers it holds, though        *)
(* clients are adopted while it closes (ServerApp.cpp:143, :177, Server.cpp: *)
(* 181).                                                                     *)
ClientsHaveServer ==
  ~crashed => /\ InServer(status) # {} => server # None
              /\ server # None => server \notin freed

(* When mainLoop() has returned nothing of the server is left, whatever      *)
(* state the exit found it in: what the assertions of cleanupServer() and    *)
(* stopServer() say (ServerApp.cpp:210, :244), and no closing is under way.  *)
NothingLeft ==
  phase = "ended" /\ ~crashed =>
    /\ server = None /\ ~listening /\ ~screen /\ state = "uninitialized"
    /\ watched = {} /\ closings = <<>>
    /\ \A c \in Client : status[c] = "none"

(* Closing, at any moment and inside another closing, leaves nothing behind. *)
NothingDangles == ClientsHaveServer /\ NothingLeft

(* Timers fire when no event waits (EventQueue.cpp:112), so without this the  *)
(* clients can put off every one of them.                                     *)
QueueDrains == []<>(events = <<>>)

(* A server that is being closed is deleted in the end, however closings nest *)
(* and whoever ends whose loop, with clients that never answer and clients    *)
(* that arrive meanwhile: closeServer()'s own timer (ServerApp.cpp:161).      *)
Closes(s)   == \E i \in 1..Len(closings) : closings[i].server = s
ClosingEnds == QueueDrains => \A s \in Server : Closes(s) ~> s \in freed

(* Every call of closeServer() returns, one inside another as well.          *)
NestedClosingsEnd == closings # <<>> ~> closings = <<>> \/ crashed

(* The main loop ends when exit has been requested (EventTypes.h:19).        *)
EndsWhenAsked == phase \in {"exiting", "ended"} /\ starts > 0 => asked

(* Awake and with nothing under way, the server serves: the comment of       *)
(* mainLoop() has a start that failed retried (ServerApp.cpp:546).           *)
ServesAwake == phase = "running" /\ closings = <<>> /\ ~suspended => state = "started"

(* A server is deleted once.                                                 *)
DeletedOnce == ~crashed

(* A suspended server starts again after the machine woke up.                *)
ServesAgain == [](awake /\ phase = "running" => <>(~suspended \/ ~awake \/ phase # "running"))

(* The program ends once asked to.                                           *)
Ends == asked ~> phase = "ended" \/ crashed
=============================================================================
