---------------------------- MODULE Server_proofs ----------------------------
(***************************************************************************)
(* Proofs about ServerLife: the members and the queue keep their types,    *)
(* and closing the server, at any moment and inside another closing,       *)
(* leaves nothing behind, for any clients, starts, sleeps and signals.     *)
(* About ScreenLinks, for any screens, links and motions: lookups find the *)
(* link there is and lead back, the cursor stays on a connected screen,    *)
(* and only a ring of screens that are off keeps a search from ending.     *)
(***************************************************************************)
EXTENDS ServerLife, ScreenLinks, FiniteSetTheorems, SequenceTheorems,
        WellFoundedInduction, TLAPS

(* Until a server is deleted twice.  Each closing is of the server there is  *)
(* or of one deleted while it waited (AllOrFreed), so one that ends first    *)
(* ends the server there is; only the outermost may be the program's exit    *)
(* (ExitIsOutermost), so after it no closing is left.                        *)
Serves ==
  /\ listening <=> server # None
  /\ state = "started" <=> server # None
  /\ server # None => server \notin freed
  /\ freed \cup ({server} \ {None}) \subseteq 1..starts
  /\ \A c \in Client : status[c] # "none" => server # None

AllOrFreed ==
  \A i \in 1..Len(closings) :
    /\ closings[i].server = server \/ closings[i].server \in freed
    /\ closings[i].server \in 1..starts

ExitIsOutermost ==
  \A i \in 1..Len(closings) : closings[i].why = "exit" => i = 1

WatchedIsClosing == \A s \in watched : \E i \in 1..Len(closings) : closings[i].server = s

Pristine ==
  /\ server = None /\ ~screen /\ state = "uninitialized" /\ closings = <<>>

InOrder ==
  /\ Serves /\ AllOrFreed /\ ExitIsOutermost /\ WatchedIsClosing
  /\ phase \in {"starting", "ended"} => Pristine
  /\ phase = "running" => \A i \in 1..Len(closings) : closings[i].why = "suspend"

LifeInv == TypeOK /\ (crashed \/ InOrder)

-----------------------------------------------------------------------------
(* The sequences the steps make.                                             *)
LEMMA EventsQueued ==
  /\ \A es \in Seq(Event), e \in Event : Append(es, e) \in Seq(Event)
  /\ \A es \in Seq(Event) : es # <<>> => Tail(es) \in Seq(Event)
  /\ \A s \in Server, es \in Seq(Event) : \A st : Announce(s, st, es) \in Seq(Event)
<1>1. \A s \in Server : Disconnected(s) \in Event
  BY DEF Event
<1>2. \A es \in Seq(Event), e \in Event : Append(es, e) \in Seq(Event)
  OBVIOUS
<1>3. \A es \in Seq(Event) : es # <<>> => Tail(es) \in Seq(Event)
  OBVIOUS
<1> QED BY <1>1, <1>2, <1>3 DEF Announce

LEMMA Outermost ==
  ASSUME NEW q \in Seq(Closing), q # <<>>
  PROVE  LET t == SubSeq(q, 1, Len(q) - 1)
         IN  /\ t \in Seq(Closing) /\ Len(q) \in Nat \ {0} /\ Len(t) = Len(q) - 1
             /\ \A i \in 1..Len(t) : t[i] = q[i] /\ i \in 1..Len(q) /\ i # Len(q)
<1> DEFINE m == Len(q) - 1
           t == SubSeq(q, 1, m)
<1>1. Len(q) \in Nat \ {0} /\ \A i \in 1..Len(q) : q[i] \in Closing
  BY EmptySeq, LenProperties
<1>2. m \in Nat /\ \A i \in 1..m : q[i] \in Closing
  BY <1>1
<1>3. /\ t \in Seq(Closing) /\ Len(t) = IF 1 <= m THEN m - 1 + 1 ELSE 0
      /\ \A i \in 1..m - 1 + 1 : t[i] = q[1 + i - 1]
  <2> HIDE DEF m
  <2>1. m \in Int
    BY <1>2
  <2> QED BY <1>2, <2>1, SubSeqProperties
<1> HIDE DEF t
<1>4. Len(t) = m /\ \A i \in 1..m : t[i] = q[i]
  <2> HIDE DEF m
  <2>1. Len(t) = m /\ m - 1 + 1 = m
    BY <1>2, <1>3
  <2>2. \A i \in 1..m : 1 + i - 1 = i
    OBVIOUS
  <2> QED BY <1>3, <2>1, <2>2
<1>5. \A i \in 1..m : i \in 1..Len(q) /\ i # Len(q)
  BY <1>1
<1> QED BY <1>1, <1>3, <1>4, <1>5 DEF t

LEMMA InLoopIsAlive ==
  ASSUME LifeInv, InLoop
  PROVE  ~crashed /\ InOrder /\ TypeOK /\ phase \in {"running", "exiting"}
BY DEF LifeInv, InLoop, InOrder, Pristine, TypeOK

LEMMA InitLifeInv == Init => LifeInv
<1> SUFFICES ASSUME Init PROVE LifeInv
  OBVIOUS
<1>1. <<>> \in Seq(Closing) /\ <<>> \in Seq(Event) /\ Len(<<>>) = 0 /\ 1..0 = {}
  OBVIOUS
<1>2. TypeOK
  <2>1. status \in [Client -> {"none", "waiting", "active", "leaving"}]
    BY DEF Init
  <2>2. closings \in Seq(Closing) /\ events \in Seq(Event)
    BY <1>1 DEF Init
  <2>3. starts \in 0..MaxStarts /\ power \in 0..MaxPower /\ requests \in 0..MaxRequests
    BY LifeAssumption DEF Init
  <2> QED BY <2>1, <2>2, <2>3 DEF Init, TypeOK
<1>3. InOrder
  <2>1. Serves
    BY DEF Init, Serves
  <2>2. AllOrFreed /\ ExitIsOutermost /\ WatchedIsClosing
    BY <1>1 DEF Init, AllOrFreed, ExitIsOutermost, WatchedIsClosing
  <2>3. Pristine /\ phase # "running"
    BY DEF Init, Pristine
  <2> QED BY <2>1, <2>2, <2>3 DEF InOrder
<1> QED BY <1>2, <1>3 DEF LifeInv

LEMMA ClosingBegins ==
  ASSUME TypeOK, InOrder, NEW why \in Reason, NEW es \in Seq(Event),
         BeginClosing(why, es), state = "started", starts' = starts,
         phase' \in {"running", "exiting"}, phase' = "running" => phase = "running",
         why = "exit" => closings = <<>> /\ phase' = "exiting"
  PROVE  /\ InOrder'
         /\ closings' \in Seq(Closing) /\ watched' \subseteq Server
         /\ status' \in [Client -> {"none", "waiting", "active", "leaving"}]
         /\ events' \in Seq(Event)
<1> DEFINE cl == [server |-> server, why |-> why, timer |-> TRUE]
           n  == Len(closings)
<1>1. server \in Server /\ server # None /\ server \notin freed /\ server \in 1..starts
  BY DEF TypeOK, InOrder, Serves
<1>2. cl \in Closing /\ cl.server = server /\ cl.why = why
  BY <1>1 DEF Closing
<1>3. closings \in Seq(Closing) /\ n \in Nat
  BY DEF TypeOK
<1>4. /\ closings' = Append(closings, cl)
      /\ UNCHANGED <<state, server, listening, screen, suspended, freed>>
      /\ watched' = watched \cup {server}
  BY DEF BeginClosing
<1> HIDE DEF cl
<1>5. /\ closings' \in Seq(Closing) /\ Len(closings') = n + 1
      /\ \A i \in 1..n : closings'[i] = closings[i]
      /\ closings'[n + 1] = cl
  BY <1>2, <1>3, <1>4, AppendProperties
<1>6. \A i \in 1..Len(closings') : i \in 1..n \/ i = n + 1
  BY <1>3, <1>5
<1>7. watched' \subseteq Server
  BY <1>1, <1>4 DEF TypeOK
<1>8. status' \in [Client -> {"none", "waiting", "active", "leaving"}]
  BY DEF BeginClosing, Disconnect, Told, TypeOK
<1>9. events' \in Seq(Event)
  BY <1>1, EventsQueued DEF BeginClosing, Disconnect
<1>10. Serves'
  BY <1>1, <1>4 DEF InOrder, Serves
<1>11. AllOrFreed'
  <2> SUFFICES ASSUME NEW i \in 1..Len(closings')
               PROVE  /\ closings'[i].server = server \/ closings'[i].server \in freed
                      /\ closings'[i].server \in 1..starts
    BY <1>4 DEF AllOrFreed
  <2>1. CASE i \in 1..n
    BY <2>1, <1>5 DEF InOrder, AllOrFreed
  <2>2. CASE i = n + 1
    BY <2>2, <1>1, <1>2, <1>5
  <2> QED BY <2>1, <2>2, <1>6
<1>12. ExitIsOutermost'
  <2> SUFFICES ASSUME NEW i \in 1..Len(closings'), closings'[i].why = "exit"
               PROVE  i = 1
    BY DEF ExitIsOutermost
  <2>1. CASE i \in 1..n
    BY <2>1, <1>5 DEF InOrder, ExitIsOutermost
  <2>2. CASE i = n + 1
    <3>1. closings = <<>>
      BY <2>2, <1>2, <1>5
    <3> QED BY <3>1, <2>2
  <2> QED BY <2>1, <2>2, <1>6
<1>13. WatchedIsClosing'
  <2> SUFFICES ASSUME NEW s \in watched'
               PROVE  \E i \in 1..Len(closings') : closings'[i].server = s
    BY DEF WatchedIsClosing
  <2>1. CASE s = server
    <3>1. n + 1 \in 1..Len(closings')
      BY <1>3, <1>5
    <3> QED BY <3>1, <2>1, <1>2, <1>5
  <2>2. CASE s \in watched
    <3>1. PICK i \in 1..n : closings[i].server = s
      BY <2>2 DEF InOrder, WatchedIsClosing
    <3>2. i \in 1..Len(closings')
      BY <1>3, <1>5
    <3> QED BY <3>1, <3>2, <1>5
  <2> QED BY <2>1, <2>2, <1>4
<1>14. phase' = "running" => \A i \in 1..Len(closings') : closings'[i].why = "suspend"
  <2> SUFFICES ASSUME phase' = "running", NEW i \in 1..Len(closings')
               PROVE  closings'[i].why = "suspend"
    OBVIOUS
  <2>1. CASE i \in 1..n
    BY <2>1, <1>5 DEF InOrder
  <2>2. CASE i = n + 1
    BY <2>2, <1>2, <1>5 DEF Reason
  <2> QED BY <2>1, <2>2, <1>6
<1> QED BY <1>5, <1>7, <1>8, <1>9, <1>10, <1>11, <1>12, <1>13, <1>14 DEF InOrder

LEMMA ClosingEndsInOrder ==
  ASSUME TypeOK, InOrder, ~crashed, closings # <<>>, events # <<>>, EndClosing,
         UNCHANGED <<starts, asked, awake, power, requests>>
  PROVE  LifeInv'
<1> DEFINE n == Len(closings)
           s == Inner.server
<1>1. /\ closings' \in Seq(Closing) /\ n \in Nat \ {0} /\ Len(closings') = n - 1
      /\ \A i \in 1..Len(closings') : closings'[i] = closings[i] /\ i \in 1..n /\ i # n
  BY Outermost DEF EndClosing, TypeOK
<1>2. n \in 1..n /\ Inner = closings[n] /\ Inner \in Closing
  BY <1>1 DEF Inner, TypeOK
<1>3. s \in Server /\ Inner.why \in Reason
  BY <1>2 DEF Closing
<1>4. s \in 1..starts /\ (s = server \/ s \in freed)
  BY <1>2 DEF InOrder, AllOrFreed
<1>5. TypeOK'
  <2>1. status' \in [Client -> {"none", "waiting", "active", "leaving"}]
    BY DEF EndClosing
  <2>2. events' \in Seq(Event)
    BY <1>3, EventsQueued DEF EndClosing, TypeOK
  <2>3. /\ watched' \subseteq Server /\ freed' \subseteq Server
        /\ crashed' \in BOOLEAN /\ server' = None /\ listening' = FALSE
    BY <1>3 DEF EndClosing, TypeOK
  <2>4. /\ phase' \in {"starting", "running", "exiting", "ended"}
        /\ state' \in {"uninitialized", "initialized", "started"}
        /\ screen' \in BOOLEAN /\ suspended' \in BOOLEAN
    BY DEF EndClosing, CleanUp, TypeOK
  <2>5. /\ awake' \in BOOLEAN /\ asked' \in BOOLEAN
        /\ starts' \in 0..MaxStarts /\ power' \in 0..MaxPower /\ requests' \in 0..MaxRequests
    BY DEF TypeOK
  <2> QED BY <1>1, <2>1, <2>2, <2>3, <2>4, <2>5 DEF TypeOK
<1> SUFFICES ASSUME ~crashed'
             PROVE  InOrder'
  BY <1>5 DEF LifeInv
<1>6. s = server /\ s \notin freed
  BY <1>4 DEF EndClosing
<1>7. freed' = freed \cup {s} /\ server' = None /\ ~listening'
  BY DEF EndClosing
<1>8. state' # "started"
  BY DEF EndClosing, CleanUp
<1>9. Serves'
  <2>1. freed' \cup ({server'} \ {None}) \subseteq 1..starts'
    BY <1>4, <1>7 DEF InOrder, Serves
  <2>2. \A c \in Client : status'[c] = "none"
    BY DEF EndClosing
  <2> QED BY <1>7, <1>8, <2>1, <2>2 DEF Serves
<1>10. AllOrFreed'
  BY <1>1, <1>6, <1>7 DEF InOrder, AllOrFreed
<1>11. ExitIsOutermost'
  BY <1>1 DEF InOrder, ExitIsOutermost
<1>12. WatchedIsClosing'
  <2> SUFFICES ASSUME NEW w \in watched'
               PROVE  \E i \in 1..Len(closings') : closings'[i].server = w
    BY DEF WatchedIsClosing
  <2>1. w \in watched /\ w # s
    BY DEF EndClosing
  <2>2. PICK i \in 1..n : closings[i].server = w
    BY <2>1 DEF InOrder, WatchedIsClosing
  <2>3. i # n
    BY <2>1, <2>2, <1>2
  <2>4. i \in 1..Len(closings')
    BY <2>2, <2>3, <1>1
  <2> QED BY <2>2, <2>4, <1>1
<1>13. CASE Inner.why = "suspend"
  <2>1. phase' = phase
    BY <1>13 DEF EndClosing
  <2>2. phase \notin {"starting", "ended"}
    BY DEF InOrder, Pristine
  <2>3. phase' = "running" => \A i \in 1..Len(closings') : closings'[i].why = "suspend"
    BY <2>1, <1>1 DEF InOrder
  <2> QED BY <1>9, <1>10, <1>11, <1>12, <2>1, <2>2, <2>3 DEF InOrder
<1>14. CASE Inner.why # "suspend"
  <2>1. n = 1
    BY <1>14, <1>2, <1>3 DEF InOrder, ExitIsOutermost, Reason
  <2>2. closings' = <<>>
    BY <2>1, <1>1, EmptySeq
  <2>3. phase' = "ended" /\ ~screen' /\ state' = "uninitialized"
    BY <1>14 DEF EndClosing, CleanUp
  <2> QED BY <1>7, <1>9, <1>10, <1>11, <1>12, <2>2, <2>3 DEF InOrder, Pristine
<1> QED BY <1>13, <1>14

LEMMA StartsInOrder ==
  ASSUME LifeInv, StartNode
  PROVE  LifeInv'
<1>1. phase = "starting" /\ UNCHANGED <<suspended, closings, watched, freed, status, events, awake,
                                        asked, crashed, power, requests>>
  BY DEF StartNode, ending
<1>2. TypeOK
  BY DEF LifeInv
<1>3. starts \in Nat /\ MaxStarts \in Nat /\ None \notin Nat
  BY <1>2, LifeAssumption DEF TypeOK
<1>4. CASE OpenServer /\ screen' = TRUE /\ phase' = "running"
  <2>1. starts' = starts + 1 /\ starts' \in 1..MaxStarts /\ server' = starts'
    BY <1>2, <1>3, <1>4 DEF OpenServer, TypeOK
  <2>2. TypeOK'
    BY <1>1, <1>2, <1>3, <1>4, <2>1 DEF TypeOK, OpenServer, Server
  <2> SUFFICES ASSUME ~crashed
               PROVE  InOrder'
    BY <1>1, <2>2 DEF LifeInv
  <2>3. InOrder /\ Pristine
    BY <1>1 DEF LifeInv, InOrder
  <2>4. freed \subseteq 1..starts
    BY <2>3 DEF InOrder, Serves
  <2>5. Serves'
    <3>1. listening' = TRUE /\ state' = "started" /\ server' # None
      BY <1>3, <1>4, <2>1 DEF OpenServer
    <3>2. server' \notin freed'
      BY <1>1, <1>3, <2>1, <2>4
    <3>3. freed' \cup ({server'} \ {None}) \subseteq 1..starts'
      <4>1. \A s \in 1..starts : s \in 1..starts'
        BY <1>3, <2>1
      <4>2. server' \in 1..starts'
        BY <1>3, <2>1
      <4> QED BY <1>1, <2>4, <4>1, <4>2
    <3> QED BY <3>1, <3>2, <3>3 DEF Serves
  <2>6. closings' = <<>> /\ 1..Len(closings') = {}
    BY <1>1, <2>3 DEF Pristine
  <2>7. AllOrFreed' /\ ExitIsOutermost' /\ WatchedIsClosing'
    BY <1>1, <2>3, <2>6 DEF InOrder, AllOrFreed, ExitIsOutermost, WatchedIsClosing, Pristine
  <2> QED BY <1>4, <2>5, <2>6, <2>7 DEF InOrder
<1>5. CASE phase' = "ended" /\ UNCHANGED <<state, server, listening, starts, screen>>
  <2>1. TypeOK'
    BY <1>1, <1>2, <1>5 DEF TypeOK
  <2>2. InOrder => InOrder'
    <3> SUFFICES ASSUME InOrder PROVE InOrder'
      OBVIOUS
    <3>1. Serves' /\ AllOrFreed' /\ ExitIsOutermost' /\ WatchedIsClosing'
      <4>1. Serves'
        BY <1>1, <1>5 DEF InOrder, Serves
      <4>2. AllOrFreed' /\ ExitIsOutermost' /\ WatchedIsClosing'
        BY <1>1, <1>5 DEF InOrder, AllOrFreed, ExitIsOutermost, WatchedIsClosing
      <4> QED BY <4>1, <4>2
    <3>2. Pristine'
      BY <1>1, <1>5 DEF InOrder, Pristine
    <3> QED BY <1>5, <3>1, <3>2 DEF InOrder
  <2> QED BY <1>1, <2>1, <2>2 DEF LifeInv
<1> QED BY <1>4, <1>5 DEF StartNode

(* The handlers that leave the members alone: what they do to the proxies    *)
(* and to the queue.                                                         *)
LEMMA HandlersKeepOrder ==
  ASSUME LifeInv, ~crashed, UNCHANGED <<life, watched, freed, crashed, starts>>,
         closings' = closings,
         status' \in [Client -> {"none", "waiting", "active", "leaving"}],
         server = None => \A c \in Client : status'[c] = "none",
         events' \in Seq(Event), awake' \in BOOLEAN, asked' \in BOOLEAN,
         power' \in 0..MaxPower, requests' \in 0..MaxRequests
  PROVE  LifeInv'
<1>1. TypeOK /\ InOrder
  BY DEF LifeInv
<1>2. UNCHANGED <<phase, state, server, listening, screen, suspended>>
  BY DEF life
<1>3. TypeOK'
  BY <1>1, <1>2 DEF TypeOK
<1>4. Serves'
  BY <1>1, <1>2 DEF InOrder, Serves
<1>5. AllOrFreed' /\ ExitIsOutermost' /\ WatchedIsClosing'
  BY <1>1, <1>2 DEF InOrder, AllOrFreed, ExitIsOutermost, WatchedIsClosing
<1>6. phase' \in {"starting", "ended"} => Pristine'
  BY <1>1, <1>2 DEF InOrder, Pristine
<1>7. phase' = "running" => \A i \in 1..Len(closings') : closings'[i].why = "suspend"
  BY <1>1, <1>2 DEF InOrder
<1> QED BY <1>3, <1>4, <1>5, <1>6, <1>7 DEF LifeInv, InOrder

(* Proxies there are none of without a server stay none.                     *)
LEMMA NoServerNoProxies ==
  ASSUME LifeInv, ~crashed
  PROVE  /\ TypeOK
         /\ server = None => \A c \in Client : status[c] = "none"
         /\ \A c \in Client : status[c] # "none" => server \in Server
         /\ listening => server \in Server
BY LifeAssumption DEF LifeInv, InOrder, Serves, TypeOK, Server

LEMMA QuitKeepsOrder ==
  ASSUME LifeInv, HandleQuit
  PROVE  LifeInv'
<1>1. ~crashed /\ InOrder /\ TypeOK /\ phase \in {"running", "exiting"}
  BY InLoopIsAlive DEF HandleQuit, Dispatching
<1>2. events # <<>> /\ Tail(events) \in Seq(Event) /\ UNCHANGED <<awake, asked, starts, power, requests>>
  BY <1>1, EventsQueued DEF HandleQuit, Dispatching, spent, TypeOK
<1>3. CASE closings # <<>> /\ EndClosing
  BY <1>1, <1>2, <1>3, ClosingEndsInOrder
<1>4. CASE /\ closings = <<>> /\ state = "started"
           /\ BeginClosing("exit", Tail(events)) /\ phase' = "exiting" /\ UNCHANGED crashed
  <2>1. /\ InOrder' /\ closings' \in Seq(Closing) /\ watched' \subseteq Server
        /\ status' \in [Client -> {"none", "waiting", "active", "leaving"}]
        /\ events' \in Seq(Event)
    BY <1>1, <1>2, <1>4, ClosingBegins DEF Reason
  <2>2. UNCHANGED <<state, server, listening, screen, suspended, freed>>
    BY <1>4 DEF BeginClosing
  <2>3. TypeOK'
    BY <1>1, <1>2, <1>4, <2>1, <2>2 DEF TypeOK
  <2> QED BY <2>1, <2>3 DEF LifeInv
<1>5. CASE /\ closings = <<>> /\ state # "started" /\ CleanUp /\ Drop
           /\ UNCHANGED <<server, listening, suspended, ending, crashed>>
  <2>1. /\ closings' = <<>> /\ 1..Len(closings') = {}
        /\ UNCHANGED <<server, listening, suspended, closings, watched, freed, crashed, status>>
        /\ events' = Tail(events) /\ screen' = FALSE /\ state' = "uninitialized" /\ phase' = "ended"
    BY <1>5 DEF CleanUp, Drop, ending
  <2>2. TypeOK'
    BY <1>1, <1>2, <2>1 DEF TypeOK
  <2>3. server = None /\ Serves
    BY <1>1, <1>5 DEF InOrder, Serves
  <2>4. Serves'
    BY <1>2, <2>1, <2>3 DEF Serves
  <2>5. AllOrFreed' /\ ExitIsOutermost' /\ WatchedIsClosing'
    BY <1>1, <1>5, <2>1 DEF InOrder, AllOrFreed, ExitIsOutermost, WatchedIsClosing
  <2>6. Pristine'
    BY <2>1, <2>3 DEF Pristine
  <2> QED BY <2>1, <2>2, <2>4, <2>5, <2>6 DEF LifeInv, InOrder
<1> QED BY <1>3, <1>4, <1>5 DEF HandleQuit

LEMMA DispatchKeepsOrder == LifeInv /\ Dispatch => LifeInv'
<1> SUFFICES ASSUME LifeInv, Dispatch
             PROVE  LifeInv'
  OBVIOUS
<1>1. CASE HandleQuit
  BY <1>1, QuitKeepsOrder
<1>2. CASE \/ HandleReload
           \/ \E s \in Server : HandleServerDisconnected(s)
           \/ \E s \in Server, c \in Client : HandleClientConnected(s, c)
           \/ \E c \in Client : HandleClientDisconnected(c)
  <2>1. /\ InLoop /\ events # <<>>
        /\ UNCHANGED <<life, watched, freed, closings, awake, asked, crashed, starts, power, requests>>
    BY <1>2 DEF HandleReload, HandleServerDisconnected, HandleClientConnected,
                HandleClientDisconnected, Dispatching, ending, spent
  <2>2. ~crashed /\ TypeOK
    BY <2>1, InLoopIsAlive
  <2>3. Tail(events) \in Seq(Event)
    BY <2>1, <2>2, EventsQueued DEF TypeOK
  <2>4. /\ status' \in [Client -> {"none", "waiting", "active", "leaving"}]
        /\ server = None => \A c \in Client : status'[c] = "none"
        /\ events' \in Seq(Event)
    <3>1. CASE HandleReload
      BY <2>2, <2>3, <3>1, NoServerNoProxies DEF HandleReload, Told, TypeOK
    <3>2. CASE \E s \in Server : HandleServerDisconnected(s)
      <4>1. status' = status /\ (events' = Tail(events) \/ events' = Append(Tail(events), Quit))
        BY <3>2 DEF HandleServerDisconnected
      <4>2. Quit \in Event
        BY DEF Event
      <4> QED BY <2>2, <2>3, <4>1, <4>2, EventsQueued, NoServerNoProxies DEF TypeOK
    <3>3. CASE \E s \in Server, c \in Client : HandleClientConnected(s, c)
      <4>1. PICK s \in Server, c \in Client : HandleClientConnected(s, c)
        BY <3>3
      <4>2. /\ events' = Tail(events)
            /\ \/ status' = status
               \/ listening /\ status' = [status EXCEPT ![c] = "active"]
        BY <4>1 DEF HandleClientConnected
      <4>3. listening => server # None
        BY <2>2 DEF LifeInv, InOrder, Serves
      <4> QED BY <2>2, <2>3, <4>2, <4>3, NoServerNoProxies DEF TypeOK
    <3>4. CASE \E c \in Client : HandleClientDisconnected(c)
      <4>1. PICK c \in Client : HandleClientDisconnected(c)
        BY <3>4
      <4>2. CASE c \in InServer(status) /\ Remove(c, Tail(events))
        <5>1. status[c] # "none"
          BY <4>2 DEF InServer
        <5>2. server \in Server
          BY <2>2, <5>1, NoServerNoProxies
        <5>3. status' = [status EXCEPT ![c] = "none"] /\ events' \in Seq(Event)
          BY <2>3, <4>2, <5>2, EventsQueued DEF Remove
        <5> QED BY <2>2, <5>3, NoServerNoProxies DEF TypeOK
      <4>3. CASE Drop
        BY <2>2, <2>3, <4>3, NoServerNoProxies DEF Drop, TypeOK
      <4> QED BY <4>1, <4>2, <4>3 DEF HandleClientDisconnected
    <3> QED BY <1>2, <3>1, <3>2, <3>3, <3>4
  <2>5. awake' \in BOOLEAN /\ asked' \in BOOLEAN /\ power' \in 0..MaxPower /\ requests' \in 0..MaxRequests
    BY <2>1, <2>2 DEF TypeOK
  <2> QED BY <2>1, <2>2, <2>4, <2>5, HandlersKeepOrder
<1> QED BY <1>1, <1>2 DEF Dispatch

LEMMA TimersKeepOrder ==
  ASSUME LifeInv,
         \/ \E i \in 1..Len(closings) : ClosingTimeout(i)
         \/ \E c \in Client : ClientCloseTimeout(c)
  PROVE  LifeInv'
<1>1. ~crashed /\ InOrder /\ TypeOK
  BY InLoopIsAlive DEF ClosingTimeout, ClientCloseTimeout, Quiet
<1>2. CASE \E i \in 1..Len(closings) : ClosingTimeout(i)
  <2>1. PICK k \in 1..Len(closings) : ClosingTimeout(k)
    BY <1>2
  <2>2. UNCHANGED <<phase, state, server, listening, screen, suspended, watched, freed, status,
                    awake, asked, crashed, starts, power, requests>>
    BY <2>1 DEF ClosingTimeout, life, spent
  <2>3. /\ closings' \in Seq(Closing) /\ Len(closings') = Len(closings)
        /\ \A i \in 1..Len(closings) : /\ closings'[i].server = closings[i].server
                                       /\ closings'[i].why = closings[i].why
    <3> DEFINE cl == [closings[k] EXCEPT !.timer = FALSE]
    <3>1. closings[k] \in Closing
      BY <1>1 DEF TypeOK
    <3>2. cl \in Closing /\ cl.server = closings[k].server /\ cl.why = closings[k].why
      BY <3>1 DEF Closing
    <3>3. closings' = [closings EXCEPT ![k] = cl]
      BY <2>1 DEF ClosingTimeout
    <3> HIDE DEF cl
    <3> QED BY <1>1, <3>2, <3>3, ExceptSeq DEF TypeOK
  <2>4. events' \in Seq(Event)
    <3>1. Quit \in Event /\ events' = <<Quit>>
      BY <2>1 DEF ClosingTimeout, Event
    <3> QED BY <3>1
  <2>5. TypeOK'
    BY <1>1, <2>2, <2>3, <2>4 DEF TypeOK
  <2>6. Serves' /\ (phase' \in {"starting", "ended"} => Pristine')
    <3>1. phase \notin {"starting", "ended"}
      BY <2>1, InLoopIsAlive DEF ClosingTimeout, Quiet
    <3>2. Serves'
      BY <1>1, <2>2 DEF InOrder, Serves
    <3> QED BY <2>2, <3>1, <3>2
  <2>7. AllOrFreed'
    BY <1>1, <2>2, <2>3 DEF InOrder, AllOrFreed
  <2>8. ExitIsOutermost' /\ WatchedIsClosing'
    BY <1>1, <2>2, <2>3 DEF InOrder, ExitIsOutermost, WatchedIsClosing
  <2>9. phase' = "running" => \A i \in 1..Len(closings') : closings'[i].why = "suspend"
    BY <1>1, <2>2, <2>3 DEF InOrder
  <2> QED BY <2>5, <2>6, <2>7, <2>8, <2>9 DEF LifeInv, InOrder
<1>3. CASE \E c \in Client : ClientCloseTimeout(c)
  <2>1. PICK c \in Client : ClientCloseTimeout(c)
    BY <1>3
  <2>2. server \in Server
    BY <1>1, <2>1, NoServerNoProxies DEF ClientCloseTimeout
  <2>3. status' = [status EXCEPT ![c] = "none"] /\ events' \in Seq(Event)
    BY <1>1, <2>1, <2>2, EventsQueued DEF ClientCloseTimeout, Remove, TypeOK
  <2>4. UNCHANGED <<life, watched, freed, closings, awake, asked, crashed, starts, power, requests>>
    BY <2>1 DEF ClientCloseTimeout, ending, spent
  <2>5. /\ status' \in [Client -> {"none", "waiting", "active", "leaving"}]
        /\ server = None => \A d \in Client : status'[d] = "none"
    BY <1>1, <2>3, NoServerNoProxies DEF TypeOK
  <2>6. awake' \in BOOLEAN /\ asked' \in BOOLEAN /\ power' \in 0..MaxPower /\ requests' \in 0..MaxRequests
    BY <1>1, <2>4 DEF TypeOK
  <2> QED BY <1>1, <2>3, <2>4, <2>5, <2>6, HandlersKeepOrder
<1> QED BY <1>2, <1>3

LEMMA EnvironmentKeepsOrder ==
  ASSUME LifeInv,
         \/ \E c \in Client : ClientArrives(c) \/ ClientGoes(c)
         \/ Request(Quit) \/ Request(Reload)
  PROVE  LifeInv'
<1>1. ~crashed /\ TypeOK
  BY DEF ClientArrives, ClientGoes, Request, LifeInv
<1>2. \A c \in Client : /\ Gone(c) \in Event
                        /\ \A s \in Server : Accepted(s, c) \in Event
  BY DEF Event
<1>3. Quit \in Event /\ Reload \in Event
  BY DEF Event
<1>4. /\ UNCHANGED <<life, watched, freed, closings, awake, crashed, starts, power>>
      /\ asked' \in BOOLEAN
  BY <1>1 DEF ClientArrives, ClientGoes, Request, ending, spent, TypeOK
<1>5. requests' \in 0..MaxRequests
  BY <1>1, LifeAssumption DEF ClientArrives, ClientGoes, Request, spent, TypeOK
<1>6. /\ events' \in Seq(Event)
      /\ status' = status \/ \E c \in Client : /\ server \in Server
                                              /\ status' = [status EXCEPT ![c] = "waiting"]
  <2>1. CASE \E c \in Client : ClientArrives(c)
    <3>1. PICK c \in Client : ClientArrives(c)
      BY <2>1
    <3>2. server \in Server
      BY <1>1, <3>1, NoServerNoProxies DEF ClientArrives
    <3>3. Accepted(server, c) \in Event
      BY <1>2, <3>2
    <3>4. events' = Append(events, Accepted(server, c)) /\ events \in Seq(Event)
      BY <1>1, <3>1 DEF ClientArrives, TypeOK
    <3> QED BY <3>1, <3>2, <3>3, <3>4, EventsQueued DEF ClientArrives
  <2>2. CASE \E c \in Client : ClientGoes(c)
    BY <1>1, <1>2, <2>2, EventsQueued DEF ClientGoes, TypeOK
  <2>3. CASE Request(Quit) \/ Request(Reload)
    BY <1>1, <1>3, <2>3, EventsQueued DEF Request, TypeOK
  <2> QED BY <2>1, <2>2, <2>3
<1>7. /\ status' \in [Client -> {"none", "waiting", "active", "leaving"}]
      /\ server = None => \A c \in Client : status'[c] = "none"
  BY <1>1, <1>6, NoServerNoProxies, LifeAssumption DEF TypeOK, Server
<1>8. awake' \in BOOLEAN /\ power' \in 0..MaxPower
  BY <1>1, <1>4 DEF TypeOK
<1> QED BY <1>1, <1>4, <1>5, <1>6, <1>7, <1>8, HandlersKeepOrder

LEMMA PowerKeepsOrder ==
  ASSUME LifeInv, HandleSuspend \/ HandleResume
  PROVE  LifeInv'
<1>1. ~crashed /\ InOrder /\ TypeOK /\ phase \in {"running", "exiting"}
  BY InLoopIsAlive DEF HandleSuspend, HandleResume
<1>2. starts \in Nat /\ MaxStarts \in Nat /\ None \notin Nat
  BY <1>1, LifeAssumption DEF TypeOK
<1>3. power' \in 0..MaxPower /\ awake' \in BOOLEAN
  <2>1. power \in Nat /\ MaxPower \in Nat
    BY <1>1, LifeAssumption DEF TypeOK
  <2>2. power < MaxPower /\ power' = power + 1 /\ awake' \in BOOLEAN
    BY DEF HandleSuspend, HandleResume
  <2> QED BY <2>1, <2>2
<1>4. CASE HandleSuspend
  <2>1. UNCHANGED <<phase, asked, crashed, starts, requests>>
    BY <1>4 DEF HandleSuspend
  <2>2. CASE suspended' = TRUE /\ UNCHANGED <<state, server, listening, screen, ending, status, events>>
    <3>1. TypeOK'
      BY <1>1, <1>3, <2>1, <2>2 DEF TypeOK, ending
    <3>2. Serves'
      BY <1>1, <2>1, <2>2 DEF InOrder, Serves, ending
    <3>3. AllOrFreed' /\ ExitIsOutermost' /\ WatchedIsClosing'
      BY <1>1, <2>1, <2>2 DEF InOrder, AllOrFreed, ExitIsOutermost, WatchedIsClosing, ending
    <3>4. phase' = "running" => \A i \in 1..Len(closings') : closings'[i].why = "suspend"
      BY <1>1, <2>1, <2>2 DEF InOrder, ending
    <3> QED BY <1>1, <2>1, <3>1, <3>2, <3>3, <3>4 DEF LifeInv, InOrder
  <2>3. CASE state = "started" /\ BeginClosing("suspend", events)
    <3>1. /\ InOrder' /\ closings' \in Seq(Closing) /\ watched' \subseteq Server
          /\ status' \in [Client -> {"none", "waiting", "active", "leaving"}]
          /\ events' \in Seq(Event)
      BY <1>1, <2>1, <2>3, ClosingBegins DEF Reason, TypeOK
    <3>2. UNCHANGED <<state, server, listening, screen, suspended, freed>>
      BY <2>3 DEF BeginClosing
    <3>3. TypeOK'
      BY <1>1, <1>3, <2>1, <3>1, <3>2 DEF TypeOK
    <3> QED BY <3>1, <3>3 DEF LifeInv
  <2> QED BY <1>4, <2>2, <2>3 DEF HandleSuspend
<1>5. CASE HandleResume
  <2>1. UNCHANGED <<phase, screen, closings, watched, freed, status, events, asked, crashed, requests>>
    BY <1>5 DEF HandleResume, ending
  <2>2. suspended' \in BOOLEAN
    BY <1>1, <1>5 DEF HandleResume, TypeOK
  <2>3. CASE UNCHANGED <<state, server, listening, starts>>
    <3>1. TypeOK'
      BY <1>1, <1>3, <2>1, <2>2, <2>3 DEF TypeOK
    <3>2. Serves'
      BY <1>1, <2>1, <2>3 DEF InOrder, Serves
    <3>3. AllOrFreed' /\ ExitIsOutermost' /\ WatchedIsClosing'
      BY <1>1, <2>1, <2>3 DEF InOrder, AllOrFreed, ExitIsOutermost, WatchedIsClosing
    <3>4. phase' = "running" => \A i \in 1..Len(closings') : closings'[i].why = "suspend"
      BY <1>1, <2>1 DEF InOrder
    <3> QED BY <1>1, <2>1, <3>1, <3>2, <3>3, <3>4 DEF LifeInv, InOrder
  <2>4. CASE state = "initialized" /\ OpenServer
    <3>1. starts' = starts + 1 /\ starts' \in 1..MaxStarts /\ server' = starts'
      BY <1>2, <2>4 DEF OpenServer
    <3>2. server' \in Server /\ starts' \in 0..MaxStarts
      BY <1>2, <3>1 DEF Server
    <3>3. TypeOK'
      BY <1>1, <1>3, <2>1, <2>2, <2>4, <3>2 DEF TypeOK, OpenServer
    <3>4. server = None /\ freed \subseteq 1..starts /\ \A s \in 1..starts : s \in 1..starts'
      BY <1>1, <1>2, <2>4, <3>1 DEF InOrder, Serves
    <3>5. Serves'
      <4>1. listening' = TRUE /\ state' = "started" /\ server' # None
        BY <1>2, <2>4, <3>1 DEF OpenServer
      <4>2. server' \notin freed'
        BY <1>2, <2>1, <3>1, <3>4
      <4>3. server' \in 1..starts'
        BY <1>2, <3>1
      <4>4. freed' \cup ({server'} \ {None}) \subseteq 1..starts'
        BY <2>1, <3>4, <4>3
      <4> QED BY <4>1, <4>2, <4>4 DEF Serves
    <3>6. AllOrFreed'
      <4> SUFFICES ASSUME NEW i \in 1..Len(closings)
                   PROVE  closings[i].server \in freed /\ closings[i].server \in 1..starts'
        BY <2>1 DEF AllOrFreed
      <4>1. closings[i].server \in 1..starts /\ (closings[i].server = server \/ closings[i].server \in freed)
        BY <1>1 DEF InOrder, AllOrFreed
      <4>2. None \notin 1..starts
        BY <1>2
      <4> QED BY <3>4, <4>1, <4>2
    <3>7. ExitIsOutermost' /\ WatchedIsClosing'
      BY <1>1, <2>1 DEF InOrder, ExitIsOutermost, WatchedIsClosing
    <3>8. phase' = "running" => \A i \in 1..Len(closings') : closings'[i].why = "suspend"
      BY <1>1, <2>1 DEF InOrder
    <3> QED BY <1>1, <2>1, <3>3, <3>5, <3>6, <3>7, <3>8 DEF LifeInv, InOrder
  <2> QED BY <1>5, <2>3, <2>4 DEF HandleResume, StartServer
<1> QED BY <1>4, <1>5

(* Whatever the program does next keeps the closings in order.               *)
LEMMA NextLifeInv == LifeInv /\ [Next]_vars => LifeInv'
<1> SUFFICES ASSUME LifeInv, [Next]_vars
             PROVE  LifeInv'
  OBVIOUS
<1>1. CASE StartNode
  BY <1>1, StartsInOrder
<1>2. CASE Dispatch
  BY <1>2, DispatchKeepsOrder
<1>3. CASE HandleSuspend \/ HandleResume
  BY <1>3, PowerKeepsOrder
<1>4. CASE \/ \E i \in 1..Len(closings) : ClosingTimeout(i)
           \/ \E c \in Client : ClientCloseTimeout(c)
  BY <1>4, TimersKeepOrder
<1>5. CASE \/ \E c \in Client : ClientArrives(c) \/ ClientGoes(c)
           \/ Request(Quit) \/ Request(Reload)
  BY <1>5, EnvironmentKeepsOrder
<1>6. CASE UNCHANGED vars
  <2>1. UNCHANGED <<phase, state, server, listening, screen, suspended, closings, watched, status,
                    freed, starts, events, awake, asked, crashed, power, requests>>
    BY <1>6 DEF vars, life, ending, spent
  <2>2. TypeOK => TypeOK'
    BY <2>1 DEF TypeOK
  <2>3. Serves => Serves'
    BY <2>1 DEF Serves
  <2>4. AllOrFreed /\ ExitIsOutermost /\ WatchedIsClosing
          => AllOrFreed' /\ ExitIsOutermost' /\ WatchedIsClosing'
    BY <2>1 DEF AllOrFreed, ExitIsOutermost, WatchedIsClosing
  <2>5. Pristine => Pristine'
    BY <2>1 DEF Pristine
  <2> QED BY <2>1, <2>2, <2>3, <2>4, <2>5 DEF LifeInv, InOrder
<1> QED BY <1>1, <1>2, <1>3, <1>4, <1>5, <1>6 DEF Next

LEMMA OrderLeavesNothing == LifeInv => NothingDangles
<1> SUFFICES ASSUME LifeInv PROVE NothingDangles
  OBVIOUS
<1>1. ClientsHaveServer
  BY DEF LifeInv, InOrder, Serves, ClientsHaveServer, InServer
<1>2. NothingLeft
  <2> SUFFICES ASSUME phase = "ended", ~crashed
               PROVE  /\ server = None /\ ~listening /\ ~screen /\ state = "uninitialized"
                      /\ watched = {} /\ closings = <<>> /\ \A c \in Client : status[c] = "none"
    BY DEF NothingLeft
  <2>1. Pristine /\ Serves /\ WatchedIsClosing
    BY DEF LifeInv, InOrder
  <2>2. 1..Len(closings) = {}
    BY <2>1 DEF Pristine
  <2> QED BY <2>1, <2>2 DEF Pristine, Serves, WatchedIsClosing
<1> QED BY <1>1, <1>2 DEF NothingDangles

LEMMA AlwaysInOrder == Spec => []LifeInv
BY InitLifeInv, NextLifeInv, PTL DEF Spec

(* The members of ServerApp, the closings under way and the event queue keep *)
(* their types, however many closings nest (ServerApp.cpp:143).              *)
THEOREM TypeCorrect == Spec => []TypeOK
<1>1. LifeInv => TypeOK
  BY DEF LifeInv
<1> QED BY <1>1, AlwaysInOrder, PTL

(* Until a server is deleted twice no client proxy is without its server,    *)
(* and whatever the exit interrupts, a closing for a sleep included, a main  *)
(* loop that has returned leaves no server, listener, screen, handler or     *)
(* proxy (ServerApp.cpp:143, :177, :210, :244).                              *)
THEOREM NothingDanglesEver == Spec => []NothingDangles
BY OrderLeavesNothing, AlwaysInOrder, PTL

-----------------------------------------------------------------------------
(* ScreenLinks.                                                            *)

(* Links of one side of one screen do not overlap.                         *)
Apart(ls) ==
  \A l, m \in ls : l.from = m.from /\ l.side = m.side /\ l # m
                   => l.part[2] <= m.part[1] \/ m.part[2] <= l.part[1]

(* The order of the numbers, under a name of its own.                      *)
LEMMA LessIsWellFounded ==
    \E Less : /\ IsWellFoundedOn(Less, Nat)
              /\ \A x, y \in Nat : y < x => <<y, x>> \in Less
<1>1. \A x, y \in Nat : y < x => <<y, x>> \in OpToRel(<, Nat)
  BY DEF OpToRel
<1> QED
  BY <1>1, NatLessThanWellFounded, Zenon

LEMMA LeastStart ==
    ASSUME NEW T, T \subseteq Nat, T # {}
    PROVE  \E x \in T : \A y \in T : x <= y
<1>1. PICK Less : /\ IsWellFoundedOn(Less, Nat)
                   /\ \A x, y \in Nat : y < x => <<y, x>> \in Less
  BY LessIsWellFounded
<1>2. PICK x \in T : \A y \in T : ~ (<<y, x>> \in Less)
  BY <1>1, WFMin
<1>3. \A y \in T : ~ (y < x)
  BY <1>1, <1>2, Zenon
<1> QED
  BY <1>3

LEMMA GreatestStart ==
    ASSUME NEW N \in Nat, NEW T, T \subseteq 0..N, T # {}
    PROVE  \E x \in T : \A y \in T : y <= x
<1> DEFINE U == {n \in 0..N : N - n \in T}
<1>1. \A y \in T : N - y \in U /\ N - (N - y) = y
  OBVIOUS
<1>2. U \subseteq Nat /\ U # {}
  <2>1. PICK y : y \in T
    OBVIOUS
  <2>2. N - y \in U
    BY <1>1, <2>1
  <2> QED BY <2>2
<1>3. PICK u \in U : \A v \in U : u <= v
  <2> HIDE DEF U
  <2> QED BY <1>2, LeastStart
<1>4. N - u \in T /\ u \in 0..N
  BY <1>3
<1>5. \A y \in T : y <= N - u
  BY <1>1, <1>3, <1>4
<1> QED
  BY <1>4, <1>5

(* What every link is.                                                     *)
LEMMA LinkFacts ==
    ASSUME NEW l \in Candidates
    PROVE  /\ l.from \in Screen /\ l.side \in Side /\ l.to \in Screen
           /\ l.part[1] \in 0..Parts /\ l.part[2] \in 0..Parts /\ l.part[1] < l.part[2]
           /\ l.onto[1] \in 0..Parts /\ l.onto[2] \in 0..Parts /\ l.onto[1] < l.onto[2]
           /\ l.part \in Int \X Int /\ l.onto \in Int \X Int
<1>1. l \in Link /\ l.part[1] < l.part[2] /\ l.onto[1] < l.onto[2]
  BY LinksAssumption
<1> QED
  BY <1>1 DEF Link

LEMMA ApartOrOverlap ==
    ASSUME NEW x \in Int \X Int, NEW y \in Int \X Int, x[1] < x[2], y[1] < y[2], ~Overlap(x, y)
    PROVE  x[2] <= y[1] \/ y[2] <= x[1]
BY DEF Overlap

(* A part that overlaps neither the link before it nor the one after it    *)
(* overlaps none (Config::Cell::overlaps()).                               *)
LEMMA NoneOverlaps ==
    ASSUME links \subseteq Candidates, Apart(links), NEW k \in Candidates,
           ~Overlaps(OnSide(k.from, k.side), k.part), NEW m \in OnSide(k.from, k.side)
    PROVE  k.part[2] <= m.part[1] \/ m.part[2] <= k.part[1]
<1> DEFINE ls == OnSide(k.from, k.side)
<1>1. ls \subseteq Candidates
  BY DEF OnSide
<1>2. \A l, n \in ls : l # n => l.part[2] <= n.part[1] \/ n.part[2] <= l.part[1]
  BY DEF OnSide, Apart
<1>3. \A l \in After(ls, k.part[1]) \cup Before(ls, k.part[1]) : ~Overlap(l.part, k.part)
  BY DEF Overlaps
<1> HIDE DEF ls
<1>4. /\ k.part[1] \in 0..Parts /\ k.part[2] \in 0..Parts /\ k.part[1] < k.part[2]
      /\ k.part \in Int \X Int
  BY LinkFacts
<1>5. \A l \in ls : /\ l.part[1] \in 0..Parts /\ l.part[2] \in 0..Parts
                    /\ l.part[1] < l.part[2] /\ l.part \in Int \X Int
  BY <1>1, LinkFacts
<1>6. m \in ls
  BY DEF ls
<1>7. Parts \in Nat
  BY LinksAssumption
<1>8. CASE m.part[1] <= k.part[1]
  <2> DEFINE T == {l.part[1] : l \in {n \in ls : n.part[1] <= k.part[1]}}
  <2>1. T \subseteq 0..Parts /\ T # {}
    BY <1>5, <1>6, <1>8
  <2>2. PICK x \in T : \A y \in T : y <= x
    <3> HIDE DEF T
    <3> QED BY <1>7, <2>1, GreatestStart
  <2>3. PICK b \in ls : b.part[1] = x /\ b.part[1] <= k.part[1]
    OBVIOUS
  <2>4. b \in Before(ls, k.part[1])
    BY <2>2, <2>3 DEF Before
  <2>5. b.part[2] <= k.part[1] \/ k.part[2] <= b.part[1]
    BY <1>3, <1>4, <1>5, <2>4, ApartOrOverlap
  <2>6. b.part[2] <= k.part[1]
    BY <1>4, <1>5, <2>3, <2>5
  <2>7. m.part[1] <= b.part[1]
    BY <1>6, <1>8, <2>2, <2>3
  <2> QED
    BY <1>2, <1>4, <1>5, <1>6, <2>6, <2>7
<1>9. CASE m.part[1] > k.part[1]
  <2> DEFINE T == {l.part[1] : l \in {n \in ls : n.part[1] > k.part[1]}}
  <2>1. T \subseteq Nat /\ T # {}
    BY <1>5, <1>6, <1>9
  <2>2. PICK x \in T : \A y \in T : x <= y
    <3> HIDE DEF T
    <3> QED BY <2>1, LeastStart
  <2>3. PICK a \in ls : a.part[1] = x /\ a.part[1] > k.part[1]
    OBVIOUS
  <2>4. a \in After(ls, k.part[1])
    BY <2>2, <2>3 DEF After
  <2>5. a.part[2] <= k.part[1] \/ k.part[2] <= a.part[1]
    BY <1>3, <1>4, <1>5, <2>4, ApartOrOverlap
  <2>6. k.part[2] <= a.part[1]
    BY <1>4, <1>5, <2>3, <2>5
  <2>7. a.part[1] <= m.part[1]
    BY <1>6, <1>9, <2>2, <2>3
  <2> QED
    BY <1>4, <1>5, <1>6, <2>6, <2>7
<1> QED
  BY <1>4, <1>5, <1>6, <1>8, <1>9

(* Cell::add() keeps the links of a side apart.                            *)
LEMMA AddedApart ==
    ASSUME links \subseteq Candidates, Apart(links), NEW k \in Candidates, Added(k) # NoScreen
    PROVE  Added(k) \subseteq Candidates /\ Apart(Added(k))
<1> DEFINE ls   == OnSide(k.from, k.side)
           same == {m \in ls : m.part[1] = k.part[1]}
<1>1. Added(k) = (links \ same) \cup {k}
  BY DEF Added
<1>2. (\E m \in same : m.part = k.part) \/ ~Overlaps(ls, k.part)
  BY DEF Added
<1>3. \A l \in links : l.from = k.from /\ l.side = k.side => l \in ls
  BY DEF OnSide
<1>4. ASSUME NEW m \in ls \ same
      PROVE  k.part[2] <= m.part[1] \/ m.part[2] <= k.part[1]
  <2>1. CASE \E n \in same : n.part = k.part
    <3>1. PICK n \in same : n.part = k.part
      BY <2>1
    <3>2. n # m /\ n \in links /\ m \in links /\ n.from = m.from /\ n.side = m.side
      BY <1>4, <3>1 DEF OnSide
    <3> QED
      BY <3>1, <3>2 DEF Apart
  <2>2. CASE ~Overlaps(ls, k.part)
    BY <2>2, NoneOverlaps
  <2> QED
    BY <1>2, <2>1, <2>2
<1> HIDE DEF ls, same
<1>5. \A m \in links \ same : m.from = k.from /\ m.side = k.side => m \in ls \ same
  BY <1>3
<1>6. Apart(Added(k))
  <2> SUFFICES ASSUME NEW l \in Added(k), NEW m \in Added(k),
                      l.from = m.from, l.side = m.side, l # m
               PROVE  l.part[2] <= m.part[1] \/ m.part[2] <= l.part[1]
    BY DEF Apart
  <2>1. CASE l = k
    BY <1>1, <1>4, <1>5, <2>1
  <2>2. CASE m = k
    BY <1>1, <1>4, <1>5, <2>2
  <2>3. CASE l # k /\ m # k
    BY <1>1, <2>3 DEF Apart
  <2> QED
    BY <2>1, <2>2, <2>3
<1> QED
  BY <1>1, <1>6

-----------------------------------------------------------------------------
(* Fractions.                                                              *)
Ratio == Int \X (Nat \ {0})
OnEdge(t) == t \in Ratio /\ 0 <= t[1] /\ t[1] < t[2]

LEMMA TimesKeeps ==
    ASSUME NEW a \in Int, NEW b \in Int, NEW c \in Nat
    PROVE  /\ a * c \in Int
           /\ a <= b => a * c <= b * c
           /\ a < b /\ c # 0 => a * c < b * c
OBVIOUS

LEMMA TimesNat ==
    ASSUME NEW a \in Nat, NEW b \in Nat
    PROVE  a * b \in Nat /\ (a # 0 /\ b # 0 => a * b # 0)
OBVIOUS

(* Cell::getLink() finds the link a position lies in, if there is one.     *)
LEMMA LinkFound ==
    ASSUME links \subseteq Candidates, Apart(links), NEW s, NEW side, NEW t \in Ratio
    PROVE  GetLink(s, side, t) = {l \in OnSide(s, side) : IsInside(l.part, t)}
<1> DEFINE ls == OnSide(s, side)
<1>1. ls \subseteq Candidates
  BY DEF OnSide
<1>2. \A l, m \in ls : l # m => l.part[2] <= m.part[1] \/ m.part[2] <= l.part[1]
  BY DEF OnSide, Apart
<1>3. ASSUME NEW l \in ls, IsInside(l.part, t), NEW m \in ls,
             m.part[1] * t[2] <= t[1] * Parts
      PROVE  m.part[1] <= l.part[1]
  <2>1. /\ l.part[1] \in Nat /\ l.part[2] \in Nat /\ l.part[1] < l.part[2]
        /\ m.part[1] \in Nat /\ m.part[2] \in Nat /\ m.part[1] < m.part[2]
    BY <1>1, <1>3, LinkFacts
  <2>2. t[1] * Parts < l.part[2] * t[2]
    BY <1>3 DEF IsInside
  <2>3. t[1] \in Int /\ t[2] \in Nat /\ Parts \in Nat
    BY LinksAssumption DEF Ratio
  <2>4. l.part[2] * t[2] \in Int /\ m.part[1] * t[2] \in Int /\ t[1] * Parts \in Int
    BY <2>1, <2>3, TimesKeeps
  <2>5. l.part[2] <= m.part[1] => l.part[2] * t[2] <= m.part[1] * t[2]
    BY <2>1, <2>3, TimesKeeps
  <2>6. ~ (l.part[2] <= m.part[1])
    BY <1>3, <2>2, <2>4, <2>5
  <2> QED
    BY <1>2, <2>1, <2>6
<1>4. \A l \in ls : IsInside(l.part, t) => l.part[1] * t[2] <= t[1] * Parts
  BY DEF IsInside
<1> HIDE DEF ls
<1>5. {l \in {l \in ls : /\ l.part[1] * t[2] <= t[1] * Parts
                         /\ \A m \in ls : m.part[1] * t[2] <= t[1] * Parts
                                          => m.part[1] <= l.part[1]} : IsInside(l.part, t)}
      = {l \in ls : IsInside(l.part, t)}
  BY <1>3, <1>4
<1> QED
  BY <1>5 DEF GetLink, ls

(* ... and there is one at most.                                           *)
LEMMA OneLink ==
    ASSUME links \subseteq Candidates, Apart(links), NEW s, NEW side, NEW t \in Ratio,
           NEW l \in GetLink(s, side, t), NEW m \in GetLink(s, side, t)
    PROVE  l = m
<1>1. /\ l \in OnSide(s, side) /\ IsInside(l.part, t)
      /\ m \in OnSide(s, side) /\ IsInside(m.part, t)
  BY LinkFound
<1>2. l \in Candidates /\ m \in Candidates
  BY <1>1 DEF OnSide
<1>3. /\ l.part[1] \in Nat /\ l.part[2] \in Nat /\ l.part[1] < l.part[2]
      /\ m.part[1] \in Nat /\ m.part[2] \in Nat /\ m.part[1] < m.part[2]
  BY <1>2, LinkFacts
<1>4. /\ l.part[1] * t[2] <= t[1] * Parts /\ t[1] * Parts < l.part[2] * t[2]
      /\ m.part[1] * t[2] <= t[1] * Parts /\ t[1] * Parts < m.part[2] * t[2]
  BY <1>1 DEF IsInside
<1>5. t[1] \in Int /\ t[2] \in Nat /\ Parts \in Nat
  BY LinksAssumption DEF Ratio
<1>6. /\ l.part[2] <= m.part[1] => l.part[2] * t[2] <= m.part[1] * t[2]
      /\ m.part[2] <= l.part[1] => m.part[2] * t[2] <= l.part[1] * t[2]
      /\ l.part[2] * t[2] \in Int /\ m.part[1] * t[2] \in Int /\ t[1] * Parts \in Int
      /\ m.part[2] * t[2] \in Int /\ l.part[1] * t[2] \in Int
  BY <1>3, <1>5, TimesKeeps
<1>7. ~ (l.part[2] <= m.part[1]) /\ ~ (m.part[2] <= l.part[1])
  BY <1>4, <1>6
<1> QED
  BY <1>1, <1>7 DEF OnSide, Apart

-----------------------------------------------------------------------------
(* A link leads from a place in its part of an edge to a place on the other's. *)
LEMMA AcrossParts ==
    ASSUME NEW a1 \in Nat, NEW a2 \in Nat, NEW c1 \in Nat, NEW c2 \in Nat, NEW u \in Int,
           NEW d \in Nat, NEW P \in Nat, d # 0, P # 0, a1 < a2, c1 < c2, c2 <= P,
           a1 * d <= u, u < a2 * d
    PROVE  LET n == (u - a1 * d) * (c2 - c1) + c1 * d * (a2 - a1)
               e == d * P * (a2 - a1)
           IN  n \in Int /\ e \in Nat \ {0} /\ 0 <= n /\ n < e
<1> DEFINE v == u - a1 * d
           w == d * (a2 - a1)
           n == v * (c2 - c1) + c1 * d * (a2 - a1)
<1>1. v \in Nat /\ w \in Nat /\ v < w /\ w # 0
  OBVIOUS
<1>2. c2 - c1 \in Nat /\ c2 - c1 # 0
  OBVIOUS
<1>3. c1 * d * (a2 - a1) = c1 * w /\ d * P * (a2 - a1) = P * w
  OBVIOUS
<1> HIDE DEF v, w
<1>4. v * (c2 - c1) < w * (c2 - c1) /\ 0 <= v * (c2 - c1) /\ v * (c2 - c1) \in Int
  BY <1>1, <1>2, TimesKeeps, TimesNat
<1>5. w * (c2 - c1) + c1 * w = c2 * w
  BY <1>1
<1>6. c2 * w <= P * w /\ c1 * w \in Nat /\ P * w \in Nat /\ P * w # 0 /\ c2 * w \in Nat
  BY <1>1, TimesKeeps, TimesNat
<1>7. n = v * (c2 - c1) + c1 * w
  BY <1>3
<1> HIDE DEF n
<1>8. n \in Int /\ 0 <= n /\ n < P * w
  BY <1>1, <1>2, <1>4, <1>5, <1>6, <1>7
<1> QED
  BY <1>3, <1>6, <1>8 DEF n, v

LEMMA TransformedOnEdge ==
    ASSUME NEW l \in Candidates, NEW t \in Ratio, IsInside(l.part, t)
    PROVE  OnEdge(Transformed(l, t))
<1>1. /\ l.part[1] \in Nat /\ l.part[2] \in Nat /\ l.part[1] < l.part[2]
      /\ l.onto[1] \in Nat /\ l.onto[2] \in Nat /\ l.onto[1] < l.onto[2]
      /\ l.onto[2] <= Parts /\ Parts \in Nat /\ Parts # 0
  BY LinkFacts, LinksAssumption
<1>2. t[1] \in Int /\ t[2] \in Nat /\ t[2] # 0
  BY DEF Ratio
<1>3. /\ l.part[1] * t[2] <= t[1] * Parts /\ t[1] * Parts < l.part[2] * t[2]
      /\ t[1] * Parts \in Int
  BY <1>1, <1>2, TimesKeeps DEF IsInside
<1> DEFINE n == (t[1] * Parts - l.part[1] * t[2]) * (l.onto[2] - l.onto[1])
                  + l.onto[1] * t[2] * (l.part[2] - l.part[1])
           e == t[2] * Parts * (l.part[2] - l.part[1])
<1>4. n \in Int /\ e \in Nat \ {0} /\ 0 <= n /\ n < e
  BY <1>1, <1>2, <1>3, AcrossParts
<1>5. Transformed(l, t) = <<n, e>>
  BY DEF Transformed
<1> HIDE DEF n, e
<1> QED
  BY <1>4, <1>5 DEF OnEdge, Ratio

-----------------------------------------------------------------------------
(* Division.                                                               *)
LEMMA DivBounds ==
    ASSUME NEW n \in Int, NEW d \in Nat, d # 0
    PROVE  /\ n \div d \in Int
           /\ (n \div d) * d <= n /\ n < (n \div d) * d + d
OBVIOUS

LEMMA DivIs ==
    ASSUME NEW n \in Int, NEW d \in Nat, d # 0, NEW q \in Int, q * d <= n, n < q * d + d
    PROVE  n \div d = q
<1> DEFINE r == n \div d
<1>1. r \in Int /\ r * d <= n /\ n < r * d + d
  BY DivBounds
<1> HIDE DEF r
<1>2. ASSUME NEW a \in Int, NEW b \in Int, a < b PROVE a * d + d <= b * d
  <2>1. (a + 1) * d <= b * d /\ (a + 1) * d = a * d + d
    BY <1>2, TimesKeeps
  <2> QED BY <2>1
<1>3. r * d \in Int /\ q * d \in Int
  BY <1>1, TimesKeeps
<1>4. ~ (r < q) /\ ~ (q < r)
  BY <1>1, <1>2, <1>3
<1>5. r = q
  BY <1>1, <1>4
<1> QED
  BY <1>5 DEF r

(* The pixel a fraction of an edge is on.                                  *)
LEMMA PartOfEdge ==
    ASSUME NEW n \in Int, NEW d \in Nat, d # 0, 0 <= n, n < d, NEW S \in Nat, S # 0
    PROVE  (n * S) \div d \in 0..(S - 1)
<1> DEFINE q == (n * S) \div d
<1>1. n * S \in Nat /\ n * S < d * S /\ d * S \in Int
  BY TimesKeeps, TimesNat
<1>2. q \in Int /\ q * d <= n * S /\ n * S < q * d + d
  BY <1>1, DivBounds
<1> HIDE DEF q
<1>3. q * d \in Int /\ S * d = d * S
  BY <1>2, TimesKeeps
<1>4. S <= q => S * d <= q * d
  BY <1>2, TimesKeeps
<1>5. q <= -1 => q * d <= -d
  <2>1. q <= -1 => q * d <= (-1) * d
    BY <1>2, TimesKeeps
  <2> QED BY <2>1
<1>6. ~ (S <= q) /\ ~ (q <= -1)
  BY <1>1, <1>2, <1>3, <1>4, <1>5
<1> QED
  BY <1>2, <1>6 DEF q

-----------------------------------------------------------------------------
(* Screens and their edges.                                                *)
LEMMA ShapeFacts ==
    ASSUME NEW s \in Screen
    PROVE  /\ Shape[s].at[1] \in Int /\ Shape[s].at[2] \in Int
           /\ Shape[s].size[1] \in Nat \ {0} /\ Shape[s].size[2] \in Nat \ {0}
<1>1. /\ Shape[s].at \in Int \X Int
      /\ Shape[s].size \in (Nat \ {0}) \X (Nat \ {0})
  BY ShapeAssumption
<1> QED
  BY <1>1

LEMMA SideFacts ==
    ASSUME NEW side \in Side
    PROVE  /\ Opposite(side) \in Side
           /\ Axis(Opposite(side)) = Axis(side) /\ Across(Opposite(side)) = Across(side)
           /\ Ahead(Opposite(side)) <=> ~Ahead(side)
           /\ \/ Axis(side) = 1 /\ Across(side) = 2
              \/ Axis(side) = 2 /\ Across(side) = 1
BY DEF Side, Opposite, Axis, Across, Ahead

LEMMA FractionIs ==
    ASSUME NEW s \in Screen, NEW side \in Side, NEW p, p[Across(side)] \in Int
    PROVE  Fraction(s, side, p) \in Ratio
<1>1. /\ Shape[s].at[Across(side)] \in Int
      /\ Shape[s].size[Across(side)] \in Nat \ {0}
  BY SideFacts, ShapeFacts
<1> QED
  BY <1>1 DEF Fraction, Ratio

LEMMA PixelOnEdge ==
    ASSUME NEW s \in Screen, NEW side \in Side, NEW t, OnEdge(t)
    PROVE  LET a == Across(side)
           IN  /\ Pixel(s, side, t) \in Int
               /\ Near(s, a) <= Pixel(s, side, t) /\ Pixel(s, side, t) <= Far(s, a)
<1> DEFINE a == Across(side)
           q == (t[1] * Shape[s].size[a]) \div t[2]
<1>1. /\ Shape[s].at[a] \in Int /\ Shape[s].size[a] \in Nat /\ Shape[s].size[a] # 0
  BY SideFacts, ShapeFacts
<1>2. q \in 0..(Shape[s].size[a] - 1)
  BY <1>1, PartOfEdge DEF OnEdge, Ratio
<1>3. Pixel(s, side, t) = q + Shape[s].at[a]
  BY DEF Pixel
<1> HIDE DEF q, a
<1>4. /\ Pixel(s, side, t) \in Int
      /\ Shape[s].at[a] <= Pixel(s, side, t)
      /\ Pixel(s, side, t) <= Shape[s].at[a] + Shape[s].size[a] - 1
  BY <1>1, <1>2, <1>3
<1> QED
  BY <1>4 DEF Near, Far, a

-----------------------------------------------------------------------------
(* There and back.                                                         *)
LEMMA DivCancels ==
    ASSUME NEW a \in Int, NEW b \in Nat, NEW k \in Nat, b # 0, k # 0
    PROVE  (a * k) \div (b * k) = a \div b
<1> DEFINE q == a \div b
<1>1. q \in Int /\ q * b <= a /\ a < q * b + b /\ q * b \in Int
  BY DivBounds, TimesKeeps
<1> HIDE DEF q
<1>2. (q * b) * k <= a * k
  BY <1>1, TimesKeeps
<1>3. a * k < (q * b + b) * k
  BY <1>1, TimesKeeps
<1>4. (q * b) * k = q * (b * k) /\ (q * b + b) * k = q * (b * k) + b * k
  BY <1>1
<1>5. a * k \in Int /\ b * k \in Nat /\ b * k # 0
  BY TimesKeeps, TimesNat
<1>6. q * (b * k) <= a * k /\ a * k < q * (b * k) + b * k
  BY <1>2, <1>3, <1>4
<1>7. (a * k) \div (b * k) = q
  BY <1>1, <1>5, <1>6, DivIs
<1> QED
  BY <1>7 DEF q

(* From the middle of pixel x of S to the pixel y of D it is on, and from  *)
(* the middle of that.                                                     *)
LEMMA MiddleReturns ==
    ASSUME NEW x \in Nat, NEW y \in Int, NEW S \in Nat, NEW D \in Nat, S # 0, x < S, S <= D,
           y = ((2 * x + 1) * D) \div (2 * S)
    PROVE  ((2 * y + 1) * S) \div (2 * D) = x
<1> DEFINE A == y * S
           B == x * D
<1>1. A \in Int /\ B \in Int
  BY TimesKeeps
<1>2. /\ (2 * x + 1) * D = 2 * B + D /\ y * (2 * S) = 2 * A
      /\ (2 * y + 1) * S = 2 * A + S /\ x * (2 * D) = 2 * B
  OBVIOUS
<1>3. 2 * A <= 2 * B + D /\ 2 * B + D < 2 * A + 2 * S
  <2>1. (2 * x + 1) * D \in Int /\ 2 * S \in Nat /\ 2 * S # 0
    BY TimesKeeps
  <2>2. y * (2 * S) <= (2 * x + 1) * D /\ (2 * x + 1) * D < y * (2 * S) + 2 * S
    BY <2>1, DivBounds
  <2> HIDE DEF A, B
  <2> QED
    BY <1>2, <2>2
<1>4. 2 * A = 2 * B + D => S # D
  <2> SUFFICES ASSUME 2 * A = 2 * B + D, S = D PROVE FALSE
    OBVIOUS
  <2>1. 2 * A = (2 * y) * D /\ 2 * B + D = (2 * x + 1) * D
    BY <1>2
  <2>2. 2 * y < 2 * x + 1 \/ 2 * x + 1 < 2 * y
    OBVIOUS
  <2>3. (2 * y) * D < (2 * x + 1) * D \/ (2 * x + 1) * D < (2 * y) * D
    <3>1. D # 0 /\ 2 * y \in Int /\ 2 * x + 1 \in Int
      OBVIOUS
    <3> QED BY <2>2, <3>1, TimesKeeps
  <2>4. (2 * y) * D \in Int /\ (2 * x + 1) * D \in Int
    BY TimesKeeps
  <2> HIDE DEF A, B
  <2> QED
    BY <2>1, <2>3, <2>4
<1>5. (2 * y + 1) * S \in Int /\ 2 * D \in Nat /\ 2 * D # 0
  BY TimesKeeps
<1>6. x * (2 * D) <= (2 * y + 1) * S /\ (2 * y + 1) * S < x * (2 * D) + 2 * D
  <2> HIDE DEF A, B
  <2>1. 2 * B <= 2 * A + S /\ 2 * A + S < 2 * B + 2 * D
    BY <1>1, <1>3, <1>4
  <2> QED
    BY <1>2, <2>1
<1> QED
  BY <1>5, <1>6, DivIs

(* A side with a link of the whole edge has no other.                      *)
LEMMA WholeIsAlone ==
    ASSUME links \subseteq Candidates, Apart(links), NEW s \in Screen, NEW side \in Side,
           NEW d, Linked(s, side, d), NEW t, OnEdge(t)
    PROVE  LET there == Step(s, side, t)
           IN  \E k \in Nat \ {0} : there.t = <<t[1] * k, t[2] * k>>
<1>1. PICK l \in OnSide(s, side) : l.to = d /\ l.part = Whole /\ l.onto = Whole
  BY DEF Linked
<1>2. Parts \in Nat /\ Parts # 0
  BY LinksAssumption
<1>3. t \in Ratio /\ t[1] \in Int /\ t[2] \in Nat /\ 0 <= t[1] /\ t[1] < t[2]
  BY DEF OnEdge, Ratio
<1>4. l.part[1] = 0 /\ l.part[2] = Parts /\ l.onto[1] = 0 /\ l.onto[2] = Parts
  BY <1>1 DEF Whole
<1>5. IsInside(l.part, t)
  <2>1. t[1] * Parts < t[2] * Parts /\ 0 <= t[1] * Parts /\ 0 * t[2] = 0
        /\ Parts * t[2] = t[2] * Parts
    BY <1>2, <1>3, TimesKeeps, TimesNat
  <2> QED
    BY <1>4, <2>1 DEF IsInside
<1>6. l \in GetLink(s, side, t)
  BY <1>1, <1>3, <1>5, LinkFound
<1>7. \A m \in GetLink(s, side, t) : m = l
  BY <1>3, <1>6, OneLink
<1>8. Step(s, side, t) = Along(l, t)
  BY <1>6, <1>7 DEF Step
<1>9. Transformed(l, t) = <<t[1] * (Parts * Parts), t[2] * (Parts * Parts)>>
  <2>1. (t[1] * Parts - 0 * t[2]) * (Parts - 0) + 0 * t[2] * (Parts - 0)
        = t[1] * (Parts * Parts)
    BY <1>2, <1>3
  <2>2. t[2] * Parts * (Parts - 0) = t[2] * (Parts * Parts)
    BY <1>2, <1>3
  <2> QED
    BY <1>4, <2>1, <2>2 DEF Transformed
<1>10. Parts * Parts \in Nat \ {0}
  BY <1>2, TimesNat
<1> QED
  BY <1>8, <1>9, <1>10 DEF Along

LEMMA WholePixel ==
    ASSUME links \subseteq Candidates, Apart(links), NEW s \in Screen, NEW side \in Side,
           NEW d \in Screen, Linked(s, side, d), NEW t, OnEdge(t), NEW e \in Side
    PROVE  Pixel(d, e, Step(s, side, t).t) = Pixel(d, e, t)
<1> DEFINE S == Shape[d].size[Across(e)]
<1>1. PICK k \in Nat \ {0} : Step(s, side, t).t = <<t[1] * k, t[2] * k>>
  BY WholeIsAlone
<1>2. S \in Nat
  BY SideFacts, ShapeFacts
<1>3. t[1] \in Int /\ t[2] \in Nat /\ t[2] # 0
  BY DEF OnEdge, Ratio
<1> HIDE DEF S
<1>4. (t[1] * k) * S = (t[1] * S) * k /\ t[1] * S \in Int
  BY <1>2, <1>3, TimesKeeps
<1>5. ((t[1] * k) * S) \div (t[2] * k) = (t[1] * S) \div t[2]
  BY <1>3, <1>4, DivCancels
<1>6. <<t[1] * k, t[2] * k>>[1] = t[1] * k /\ <<t[1] * k, t[2] * k>>[2] = t[2] * k
  OBVIOUS
<1> QED
  BY <1>1, <1>5, <1>6 DEF Pixel, S

(* Server::mapToFraction() and back.                                       *)
LEMMA Returns ==
    ASSUME links \subseteq Candidates, Apart(links)
    PROVE  ThereAndBack
<1> SUFFICES ASSUME NEW s \in Screen, NEW d \in Screen, NEW side \in Side,
                    Linked(s, side, d), Linked(d, Opposite(side), s),
                    Shape[s].size[Across(side)] <= Shape[d].size[Across(side)],
                    NEW p \in Pixels(s)
             PROVE  LET there == Step(s, side, Fraction(s, side, p))
                        q     == [Shape[d].at EXCEPT ![Across(side)] = Pixel(d, side, there.t)]
                        back  == Step(d, Opposite(side), Fraction(d, Opposite(side), q))
                    IN Pixel(s, side, back.t) = p[Across(side)]
  BY DEF ThereAndBack
<1> DEFINE a    == Across(side)
           S    == Shape[s].size[a]
           D    == Shape[d].size[a]
           x    == p[a] - Shape[s].at[a]
           f    == Fraction(s, side, p)
           y    == (f[1] * D) \div f[2]
           q    == [Shape[d].at EXCEPT ![a] = Pixel(d, side, Step(s, side, f).t)]
           g    == Fraction(d, Opposite(side), q)
<1>1. a \in {1, 2} /\ Across(Opposite(side)) = a /\ Opposite(side) \in Side
  BY SideFacts
<1>2. /\ S \in Nat /\ S # 0 /\ D \in Nat /\ D # 0 /\ S <= D
      /\ Shape[s].at[a] \in Int /\ Shape[d].at[a] \in Int
  BY <1>1, ShapeFacts
<1>3. x \in Nat /\ x < S /\ p[a] = x + Shape[s].at[a]
  <2>1. PICK u \in Near(s, 1)..Far(s, 1), v \in Near(s, 2)..Far(s, 2) : p = <<u, v>>
    BY DEF Pixels
  <2>2. p[a] \in Near(s, a)..Far(s, a)
    BY <1>1, <2>1
  <2> QED
    BY <1>2, <2>2 DEF Near, Far
<1>4. f = <<2 * x + 1, 2 * S>>
  BY DEF Fraction
<1> HIDE DEF x, S, D, f
<1>5. OnEdge(f)
  BY <1>2, <1>3, <1>4 DEF OnEdge, Ratio
<1>6. Pixel(d, side, Step(s, side, f).t) = y + Shape[d].at[a]
  <2>1. Pixel(d, side, Step(s, side, f).t) = Pixel(d, side, f)
    BY <1>5, WholePixel
  <2> QED
    BY <2>1 DEF Pixel, D
<1>7. y = ((2 * x + 1) * D) \div (2 * S) /\ y \in 0..(D - 1)
  BY <1>2, <1>4, <1>5, PartOfEdge DEF OnEdge, Ratio
<1>8. ((2 * y + 1) * S) \div (2 * D) = x
  BY <1>2, <1>3, <1>7, MiddleReturns
<1> HIDE DEF y
<1>9. q[a] = y + Shape[d].at[a]
  <2>1. a \in DOMAIN Shape[d].at
    <3>1. Shape[d].at \in Int \X Int
      BY ShapeAssumption
    <3> QED BY <1>1, <3>1
  <2> QED
    BY <1>6, <2>1
<1> HIDE DEF q
<1>10. g = <<2 * y + 1, 2 * D>>
  <2>1. g = <<2 * (q[a] - Shape[d].at[a]) + 1, 2 * D>>
    BY <1>1 DEF Fraction, D
  <2>2. q[a] - Shape[d].at[a] = y
    BY <1>2, <1>7, <1>9
  <2> QED BY <2>1, <2>2
<1> HIDE DEF g
<1>11. OnEdge(g)
  BY <1>2, <1>7, <1>10 DEF OnEdge, Ratio
<1>12. Pixel(s, side, Step(d, Opposite(side), g).t) = Pixel(s, side, g)
  BY <1>1, <1>11, WholePixel
<1>13. Pixel(s, side, g) = ((2 * y + 1) * S) \div (2 * D) + Shape[s].at[a]
  BY <1>10 DEF Pixel, S
<1>14. Pixel(s, side, Step(d, Opposite(side), g).t) = p[a]
  BY <1>3, <1>8, <1>12, <1>13
<1> QED
  BY <1>14 DEF f, q, g

-----------------------------------------------------------------------------
(* Searching.                                                              *)
LEMMA Upwards ==
    ASSUME NEW N \in Nat, NEW Good, 0 \in Good,
           \A n \in 1..N : n - 1 \in Good => n \in Good
    PROVE  \A n \in 0..N : n \in Good
<1> SUFFICES ASSUME NEW n \in 0..N, n \notin Good
             PROVE  FALSE
  OBVIOUS
<1> DEFINE Bad == {k \in 0..N : k \notin Good}
<1>1. Bad \subseteq Nat /\ n \in Bad
  OBVIOUS
<1>2. PICK k \in Bad : \A j \in Bad : k <= j
  <2> HIDE DEF Bad
  <2> QED
    BY <1>1, LeastStart
<1>3. k \in 1..N
  BY <1>2
<1>4. k - 1 \notin Bad
  BY <1>2, <1>3
<1>5. k - 1 \in Good
  BY <1>3, <1>4
<1> QED
  BY <1>2, <1>3, <1>5

Goes(w, src, side, p, n) ==
  IF n = 0 THEN Step(src, side, Fraction(src, side, p)) ELSE Further(w[n - 1], side)

(* The recursive definition of Walk defines a function.                    *)
LEMMA WalkDef ==
    ASSUME NEW src, NEW side, NEW p
    PROVE  Walk(src, side, p) =
             [n \in 0..MaxWalk |-> Goes(Walk(src, side, p), src, side, p, n)]
<1> DEFINE Good == {k \in 0..MaxWalk :
                      \E g : g = [n \in 0..k |-> Goes(g, src, side, p, n)]}
<1>1. MaxWalk \in Nat
  BY LinksAssumption
<1>2. 0 \in Good
  <2> DEFINE g == [n \in 0..0 |-> Step(src, side, Fraction(src, side, p))]
  <2>1. g = [n \in 0..0 |-> Goes(g, src, side, p, n)]
    BY DEF Goes
  <2> HIDE DEF g
  <2>2. \E f : f = [n \in 0..0 |-> Goes(f, src, side, p, n)]
    BY <2>1
  <2> QED
    BY <1>1, <2>2
<1>3. ASSUME NEW k \in 1..MaxWalk, k - 1 \in Good
      PROVE  k \in Good
  <2>1. PICK g : g = [n \in 0..(k - 1) |-> Goes(g, src, side, p, n)]
    BY <1>3
  <2> DEFINE h == [n \in 0..k |-> IF n = k THEN Further(g[k - 1], side) ELSE g[n]]
  <2>2. \A n \in 0..k : h[n] = Goes(h, src, side, p, n)
    <3> SUFFICES ASSUME NEW n \in 0..k PROVE h[n] = Goes(h, src, side, p, n)
      OBVIOUS
    <3>1. n # 0 => h[n - 1] = g[n - 1]
      OBVIOUS
    <3>2. Goes(h, src, side, p, n) = Goes(g, src, side, p, n)
      BY <3>1 DEF Goes
    <3>3. n # k => g[n] = Goes(g, src, side, p, n)
      BY <2>1
    <3>4. n = k => h[n] = Goes(g, src, side, p, n)
      BY DEF Goes
    <3> QED
      BY <3>2, <3>3, <3>4
  <2>3. h = [n \in 0..k |-> Goes(h, src, side, p, n)]
    BY <2>2
  <2> HIDE DEF h
  <2>4. \E f : f = [n \in 0..k |-> Goes(f, src, side, p, n)]
    BY <2>3
  <2> QED
    BY <1>1, <2>4
<1>4. MaxWalk \in Good
  <2> HIDE DEF Good
  <2> QED
    BY <1>1, <1>2, <1>3, Upwards
<1>5. \E g : g = [n \in 0..MaxWalk |-> Goes(g, src, side, p, n)]
  BY <1>4
<1> HIDE DEF Good
<1> DEFINE F == CHOOSE g : g = [n \in 0..MaxWalk |-> Goes(g, src, side, p, n)]
<1>6. F = [n \in 0..MaxWalk |-> Goes(F, src, side, p, n)]
  BY <1>5
<1>7. Walk(src, side, p) = F
  BY DEF Walk, Goes
<1> QED
  BY <1>6, <1>7

LEMMA WalkAt ==
    ASSUME NEW src, NEW side, NEW p
    PROVE  /\ Walk(src, side, p)[0] = Step(src, side, Fraction(src, side, p))
           /\ \A n \in 1..MaxWalk :
                Walk(src, side, p)[n] = Further(Walk(src, side, p)[n - 1], side)
<1> DEFINE w == Walk(src, side, p)
<1>1. w = [n \in 0..MaxWalk |-> Goes(w, src, side, p, n)]
  BY WalkDef
<1>2. MaxWalk \in Nat
  BY LinksAssumption
<1> HIDE DEF w
<1>3. \A n \in 0..MaxWalk : w[n] = Goes(w, src, side, p, n)
  BY <1>1
<1>4. w[0] = Step(src, side, Fraction(src, side, p))
  BY <1>2, <1>3 DEF Goes
<1>5. \A n \in 1..MaxWalk : w[n] = Further(w[n - 1], side)
  BY <1>2, <1>3 DEF Goes
<1> QED
  BY <1>4, <1>5 DEF w

(* What a search has come to: a screen, or none ahead.                     *)
Found(w) ==
  \/ w.screen = NoScreen /\ w.done = TRUE
  \/ /\ w.screen \in Screen /\ OnEdge(w.t)
     /\ w.done = (w.screen \in connected)

LEMMA StepFinds ==
    ASSUME links \subseteq Candidates, Apart(links), NEW s, NEW side, NEW t \in Ratio
    PROVE  /\ Found(Step(s, side, t))
           /\ ~Step(s, side, t).done =>
                \E l \in OnSide(s, side) : l.to = Step(s, side, t).screen
<1>1. CASE GetLink(s, side, t) = {}
  BY <1>1 DEF Step, Found
<1>2. CASE GetLink(s, side, t) # {}
  <2>1. PICK l \in GetLink(s, side, t) : Step(s, side, t) = Along(l, t)
    BY <1>2 DEF Step
  <2>2. l \in OnSide(s, side) /\ IsInside(l.part, t)
    BY <2>1, LinkFound
  <2>3. l \in Candidates /\ l.to \in Screen
    BY <2>2, LinkFacts DEF OnSide
  <2>4. OnEdge(Transformed(l, t))
    BY <2>2, <2>3, TransformedOnEdge
  <2> QED
    BY <2>1, <2>2, <2>3, <2>4 DEF Along, Found
<1> QED
  BY <1>1, <1>2

LEMMA WalkFinds ==
    ASSUME links \subseteq Candidates, Apart(links), NEW src \in Screen, NEW side \in Side,
           NEW p, p[Across(side)] \in Int
    PROVE  \A n \in 0..MaxWalk : Found(Walk(src, side, p)[n])
<1> DEFINE w == Walk(src, side, p)
           Good == {n \in 0..MaxWalk : Found(w[n])}
<1>1. MaxWalk \in Nat
  BY LinksAssumption
<1>2. 0 \in Good
  <2>1. Found(w[0])
    BY WalkAt, FractionIs, StepFinds
  <2> QED BY <1>1, <2>1
<1>3. ASSUME NEW n \in 1..MaxWalk, n - 1 \in Good PROVE n \in Good
  <2>1. Found(w[n - 1]) /\ w[n] = Further(w[n - 1], side)
    BY <1>3, WalkAt
  <2> HIDE DEF w
  <2>2. CASE w[n - 1].done
    BY <2>1, <2>2 DEF Further
  <2>3. CASE ~w[n - 1].done
    <3>1. w[n - 1].t \in Ratio
      BY <2>1, <2>3 DEF Found, OnEdge
    <3>2. Found(Step(w[n - 1].screen, side, w[n - 1].t))
      BY <3>1, StepFinds
    <3> QED
      BY <2>1, <2>3, <3>2 DEF Further
  <2> QED
    BY <2>2, <2>3
<1>4. \A n \in 0..MaxWalk : n \in Good
  <2> HIDE DEF Good
  <2> QED BY <1>1, <1>2, <1>3, Upwards
<1> QED
  BY <1>4

(* A search that is not over after as many screens as there are has met    *)
(* one of them twice, and none of those in between is connected.           *)
LEMMA EndlessIsRing ==
    ASSUME links \subseteq Candidates, Apart(links), NEW src \in Screen, NEW side \in Side,
           NEW p, p[Across(side)] \in Int, ~GetNeighbor(src, side, p).done
    PROVE  Ring(side)
<1> DEFINE w == Walk(src, side, p)
           Good == {n \in 0..MaxWalk : ~w[MaxWalk - n].done}
           name == [n \in 0..MaxWalk |-> w[n].screen]
<1>1. MaxWalk \in Nat /\ IsFiniteSet(Screen) /\ Cardinality(Screen) <= MaxWalk
  BY LinksAssumption
<1>2. \A n \in 0..MaxWalk : Found(w[n])
  BY WalkFinds
<1>3. \A n \in 1..MaxWalk : w[n] = Further(w[n - 1], side)
  BY WalkAt
<1>4. ~w[MaxWalk].done
  BY DEF GetNeighbor
<1> HIDE DEF w
<1>5. \A n \in 0..MaxWalk : ~w[n].done
  <2>1. 0 \in Good
    BY <1>1, <1>4
  <2>2. ASSUME NEW n \in 1..MaxWalk, n - 1 \in Good PROVE n \in Good
    <3> DEFINE m == MaxWalk - n + 1
    <3>1. m \in 1..MaxWalk /\ m - 1 = MaxWalk - n /\ MaxWalk - (n - 1) = m
      BY <1>1
    <3>2. ~w[m].done
      BY <2>2, <3>1
    <3>3. w[m] = Further(w[m - 1], side)
      BY <1>3, <3>1
    <3> HIDE DEF m
    <3>4. ~w[m - 1].done
      BY <3>2, <3>3 DEF Further
    <3> QED BY <3>1, <3>4
  <2>3. \A n \in 0..MaxWalk : n \in Good
    <3> HIDE DEF Good
    <3> QED BY <1>1, <2>1, <2>2, Upwards
  <2>4. ASSUME NEW n \in 0..MaxWalk PROVE ~w[n].done
    <3>1. MaxWalk - n \in 0..MaxWalk /\ MaxWalk - (MaxWalk - n) = n
      BY <1>1
    <3>2. MaxWalk - n \in Good
      BY <2>3, <3>1
    <3> QED BY <3>1, <3>2
  <2> QED BY <2>4
<1>6. \A n \in 0..MaxWalk : /\ w[n].screen \in Screen \ connected
                            /\ w[n].t \in Ratio
  BY <1>2, <1>5 DEF Found, OnEdge
<1>7. ASSUME NEW n \in 1..MaxWalk
      PROVE  \E l \in OnSide(w[n - 1].screen, side) : l.to = w[n].screen
  <2>1. n - 1 \in 0..MaxWalk /\ n \in 0..MaxWalk
    BY <1>1
  <2>2. w[n] = Step(w[n - 1].screen, side, w[n - 1].t)
    BY <1>3, <1>5, <2>1 DEF Further
  <2>3. ~w[n].done /\ w[n - 1].t \in Ratio
    BY <1>5, <1>6, <2>1
  <2> QED
    BY <2>2, <2>3, StepFinds
<1>8. PICK i \in 0..MaxWalk, j \in 0..MaxWalk : i < j /\ w[i].screen = w[j].screen
  <2>1. name \in [0..MaxWalk -> Screen]
    BY <1>6
  <2>2. IsFiniteSet(0..MaxWalk) /\ Cardinality(0..MaxWalk) = MaxWalk + 1
    BY <1>1, FS_Interval
  <2>3. Cardinality(Screen) \in Nat
    BY <1>1, FS_CardinalityType
  <2>4. \E x, y \in 0..MaxWalk : x # y /\ name[x] = name[y]
    <3> HIDE DEF name
    <3>1. Cardinality(Screen) < Cardinality(0..MaxWalk)
      BY <1>1, <2>2, <2>3
    <3> QED BY <1>1, <2>1, <2>2, <3>1, FS_PigeonHole
  <2>5. PICK x \in 0..MaxWalk, y \in 0..MaxWalk : x # y /\ w[x].screen = w[y].screen
    BY <2>4
  <2>6. x < y \/ y < x
    BY <2>5
  <2> QED BY <2>5, <2>6
<1> DEFINE r == {w[n].screen : n \in i..(j - 1)}
<1>9. r \in SUBSET (Screen \ connected) /\ r # {}
  <2>1. \A n \in i..(j - 1) : n \in 0..MaxWalk
    BY <1>1, <1>8
  <2>2. i \in i..(j - 1)
    BY <1>8
  <2> QED BY <1>6, <2>1, <2>2
<1>10. ASSUME NEW s \in r PROVE \E l \in OnSide(s, side) : l.to \in r
  <2>1. PICK n \in i..(j - 1) : s = w[n].screen
    BY <1>10
  <2>2. n + 1 \in 1..MaxWalk /\ (n + 1) - 1 = n /\ (n + 1 = j \/ n + 1 \in i..(j - 1))
    BY <1>1, <1>8
  <2>3. PICK l \in OnSide(s, side) : l.to = w[n + 1].screen
    BY <1>7, <2>1, <2>2
  <2>4. i \in i..(j - 1)
    BY <1>8
  <2>5. w[n + 1].screen \in r
    BY <1>8, <2>2, <2>4
  <2> QED BY <2>3, <2>5
<1> QED
  <2> HIDE DEF r
  <2> QED BY <1>9, <1>10 DEF Ring

-----------------------------------------------------------------------------
(* Positions.                                                              *)
LEMMA PairExcept ==
    ASSUME NEW p \in Int \X Int, NEW a \in {1, 2}, NEW v \in Int
    PROVE  LET q == [p EXCEPT ![a] = v]
           IN  q \in Int \X Int /\ q[a] = v /\ q[3 - a] = p[3 - a]
OBVIOUS

LEMMA PixelFacts ==
    ASSUME NEW s \in Screen, NEW p
    PROVE  p \in Pixels(s) <=> /\ p \in Int \X Int
                               /\ \A a \in {1, 2} : Near(s, a) <= p[a] /\ p[a] <= Far(s, a)
<1>1. /\ Near(s, 1) \in Int /\ Near(s, 2) \in Int /\ Far(s, 1) \in Int /\ Far(s, 2) \in Int
  BY ShapeFacts DEF Near, Far
<1>2. ASSUME p \in Pixels(s)
      PROVE  p \in Int \X Int /\ \A a \in {1, 2} : Near(s, a) <= p[a] /\ p[a] <= Far(s, a)
  <2>1. PICK x \in Near(s, 1)..Far(s, 1), y \in Near(s, 2)..Far(s, 2) : p = <<x, y>>
    BY <1>2 DEF Pixels
  <2> QED BY <1>1, <2>1
<1>3. ASSUME p \in Int \X Int, \A a \in {1, 2} : Near(s, a) <= p[a] /\ p[a] <= Far(s, a)
      PROVE  p \in Pixels(s)
  <2>1. /\ p = <<p[1], p[2]>> /\ p[1] \in Near(s, 1)..Far(s, 1)
        /\ p[2] \in Near(s, 2)..Far(s, 2)
    BY <1>1, <1>3
  <2> QED BY <2>1 DEF Pixels
<1> QED
  BY <1>2, <1>3

LEMMA AxisFacts ==
    ASSUME NEW s \in Screen, NEW side \in Side
    PROVE  /\ Axis(side) \in {1, 2} /\ Across(side) \in {1, 2}
           /\ Axis(side) = 3 - Across(side) /\ Across(side) = 3 - Axis(side)
           /\ Origin(s, side) \in Int /\ Length(s, side) \in Nat /\ Length(s, side) # 0
           /\ Near(s, Axis(side)) = Origin(s, side)
           /\ Far(s, Axis(side)) = Origin(s, side) + Length(s, side) - 1
BY SideFacts, ShapeFacts DEF Origin, Length, Near, Far

(* A search depends on the place on the edge only.                         *)
LEMMA SearchAcross ==
    ASSUME NEW s, NEW side, NEW p, NEW q, p[Across(side)] = q[Across(side)]
    PROVE  GetNeighbor(s, side, p) = GetNeighbor(s, side, q)
<1> DEFINE D(f) == CHOOSE g : g = [n \in 0..MaxWalk |->
                     IF n = 0 THEN Step(s, side, f) ELSE Further(g[n - 1], side)]
<1>1. Walk(s, side, p) = D(Fraction(s, side, p)) /\ Walk(s, side, q) = D(Fraction(s, side, q))
  BY DEF Walk
<1>2. Fraction(s, side, p) = Fraction(s, side, q)
  BY DEF Fraction
<1> HIDE DEF D
<1> QED
  BY <1>1, <1>2 DEF GetNeighbor

-----------------------------------------------------------------------------
(* Flying over screens.                                                    *)
Flies(w, src, side, p, n) ==
  IF n = 0 THEN Begin(src, side, p, GetNeighbor(src, side, p)) ELSE Cross(w[n - 1], side)

(* The recursive definition of Crossing defines a function.                *)
LEMMA CrossingDef ==
    ASSUME NEW src, NEW side, NEW p, ToGo(src, side, p) \in Nat
    PROVE  Crossing(src, side, p) =
             [n \in 0..ToGo(src, side, p) |-> Flies(Crossing(src, side, p), src, side, p, n)]
<1> DEFINE N == ToGo(src, side, p)
           Good == {k \in 0..N : \E g : g = [n \in 0..k |-> Flies(g, src, side, p, n)]}
<1>1. N \in Nat
  OBVIOUS
<1> HIDE DEF N
<1>2. 0 \in Good
  <2> DEFINE g == [n \in 0..0 |-> Begin(src, side, p, GetNeighbor(src, side, p))]
  <2>1. g = [n \in 0..0 |-> Flies(g, src, side, p, n)]
    BY DEF Flies
  <2> HIDE DEF g
  <2>2. \E f : f = [n \in 0..0 |-> Flies(f, src, side, p, n)]
    BY <2>1
  <2> QED
    BY <1>1, <2>2
<1>3. ASSUME NEW k \in 1..N, k - 1 \in Good
      PROVE  k \in Good
  <2>1. PICK g : g = [n \in 0..(k - 1) |-> Flies(g, src, side, p, n)]
    BY <1>3
  <2> DEFINE h == [n \in 0..k |-> IF n = k THEN Cross(g[k - 1], side) ELSE g[n]]
  <2>2. \A n \in 0..k : h[n] = Flies(h, src, side, p, n)
    <3> SUFFICES ASSUME NEW n \in 0..k PROVE h[n] = Flies(h, src, side, p, n)
      OBVIOUS
    <3>0. k \in Nat /\ k # 0
      BY <1>1
    <3>1. n # 0 => h[n - 1] = g[n - 1]
      BY <3>0
    <3>2. Flies(h, src, side, p, n) = Flies(g, src, side, p, n)
      BY <3>1 DEF Flies
    <3>3. n # k => g[n] = Flies(g, src, side, p, n)
      BY <2>1, <3>0
    <3>4. n = k => h[n] = Flies(g, src, side, p, n)
      BY <3>0 DEF Flies
    <3> QED
      BY <3>2, <3>3, <3>4
  <2>3. h = [n \in 0..k |-> Flies(h, src, side, p, n)]
    BY <2>2
  <2> HIDE DEF h
  <2>4. \E f : f = [n \in 0..k |-> Flies(f, src, side, p, n)]
    BY <2>3
  <2> QED
    BY <1>1, <2>4
<1>4. N \in Good
  <2> HIDE DEF Good
  <2> QED
    BY <1>1, <1>2, <1>3, Upwards
<1>5. \E g : g = [n \in 0..N |-> Flies(g, src, side, p, n)]
  BY <1>4
<1> HIDE DEF Good
<1> DEFINE F == CHOOSE g : g = [n \in 0..N |-> Flies(g, src, side, p, n)]
<1>6. F = [n \in 0..N |-> Flies(F, src, side, p, n)]
  BY <1>5
<1>7. Crossing(src, side, p) = F
  BY DEF Crossing, Flies, N
<1> QED
  BY <1>6, <1>7 DEF N

LEMMA CrossingAt ==
    ASSUME NEW src, NEW side, NEW p, ToGo(src, side, p) \in Nat
    PROVE  /\ Crossing(src, side, p)[0] = Begin(src, side, p, GetNeighbor(src, side, p))
           /\ \A n \in 1..ToGo(src, side, p) :
                Crossing(src, side, p)[n] = Cross(Crossing(src, side, p)[n - 1], side)
<1> DEFINE w == Crossing(src, side, p)
           N == ToGo(src, side, p)
<1>1. w = [n \in 0..N |-> Flies(w, src, side, p, n)]
  BY CrossingDef
<1> HIDE DEF w, N
<1>2. N \in Nat
  BY DEF N
<1>3. \A n \in 0..N : w[n] = Flies(w, src, side, p, n)
  BY <1>1
<1>4. w[0] = Begin(src, side, p, GetNeighbor(src, side, p))
  BY <1>2, <1>3 DEF Flies
<1>5. \A n \in 1..N : w[n] = Cross(w[n - 1], side)
  BY <1>2, <1>3 DEF Flies
<1> QED
  BY <1>4, <1>5 DEF w, N

(* Where a flight over screens has come to.                                *)
Course == [screen : Screen, way : Int, endless : BOOLEAN, p : Int \X Int, there : BOOLEAN]
EndsHere(c, side) == IF Ahead(side) THEN c.way < Length(c.screen, side) ELSE 0 <= c.way
Entered(c, side) ==
  /\ c \in Course /\ c.screen \in connected /\ ~c.endless
  /\ Near(c.screen, Across(side)) <= c.p[Across(side)]
  /\ c.p[Across(side)] <= Far(c.screen, Across(side))
  /\ IF Ahead(side) THEN 0 <= c.way ELSE c.way < Length(c.screen, side)
Flown(c, side) ==
  \/ c.screen = NoScreen /\ c.there = TRUE /\ (c.endless => Ring(side))
  \/ /\ Entered(c, side)
     /\ c.there => EndsHere(c, side) \/ GetNeighbor(c.screen, side, c.p).screen = NoScreen
     /\ ~c.there => ~EndsHere(c, side)
RunsOut(c, side, way, n) ==
  ~c.there => IF Ahead(side) THEN c.way <= way - n - 1 ELSE way + n + 1 <= c.way

LEMMA NeighborFound ==
    ASSUME links \subseteq Candidates, Apart(links), NEW src \in Screen, NEW side \in Side,
           NEW p \in Int \X Int
    PROVE  /\ Found(GetNeighbor(src, side, p))
           /\ ~GetNeighbor(src, side, p).done => Ring(side)
<1>1. p[Across(side)] \in Int
  BY AxisFacts
<1>2. MaxWalk \in 0..MaxWalk
  BY LinksAssumption
<1>3. Found(Walk(src, side, p)[MaxWalk])
  BY <1>1, <1>2, WalkFinds
<1> QED
  BY <1>1, <1>3, EndlessIsRing DEF GetNeighbor

LEMMA EnterFlies ==
    ASSUME NEW good \in Screen, NEW side \in Side, NEW way \in Int, NEW p \in Int \X Int,
           NEW nb, nb.screen \in Screen, nb.screen \in connected, OnEdge(nb.t),
           IF Ahead(side) THEN way >= Length(good, side) ELSE way < 0
    PROVE  LET c == Enter(good, way, p, nb, side)
           IN  /\ Flown(c, side)
               /\ IF Ahead(side) THEN c.way <= way - 1 ELSE way + 1 <= c.way
<1> DEFINE c == Enter(good, way, p, nb, side)
           x == Pixel(nb.screen, side, nb.t)
<1>1. /\ Length(good, side) \in Nat \ {0} /\ Length(nb.screen, side) \in Nat \ {0}
      /\ Across(side) \in {1, 2}
  BY AxisFacts
<1>2. /\ x \in Int /\ Near(nb.screen, Across(side)) <= x /\ x <= Far(nb.screen, Across(side))
  BY PixelOnEdge
<1>3. /\ [p EXCEPT ![Across(side)] = x] \in Int \X Int
      /\ [p EXCEPT ![Across(side)] = x][Across(side)] = x
  BY <1>1, <1>2, PairExcept
<1> HIDE DEF x
<1>4. /\ c.screen = nb.screen /\ c.endless = FALSE
      /\ c.p = [p EXCEPT ![Across(side)] = x]
      /\ c.way = IF Ahead(side) THEN way - Length(good, side) ELSE way + Length(nb.screen, side)
      /\ c.there = IF Ahead(side) THEN c.way < Length(c.screen, side) ELSE c.way >= 0
  BY DEF Enter, x
<1>5. c = [screen |-> c.screen, way |-> c.way, endless |-> c.endless, p |-> c.p, there |-> c.there]
  BY DEF Enter
<1> HIDE DEF c
<1>6. c.way \in Int /\ (c.there <=> EndsHere(c, side)) /\ c.there \in BOOLEAN
  <2>1. c.way \in Int
    BY <1>1, <1>4
  <2>2. CASE Ahead(side)
    <3> DEFINE X == c.way < Length(c.screen, side)
    <3>1. c.there = X
      BY <1>4, <2>2, Zenon
    <3>2. X \in BOOLEAN /\ (X <=> EndsHere(c, side))
      BY <2>1, <2>2 DEF EndsHere
    <3> HIDE DEF X
    <3> QED BY <2>1, <3>1, <3>2, Zenon
  <2>3. CASE ~Ahead(side)
    <3> DEFINE X == c.way >= 0
    <3>1. c.there = X
      BY <1>4, <2>3, Zenon
    <3>2. X \in BOOLEAN /\ (X <=> EndsHere(c, side))
      BY <2>1, <2>3 DEF EndsHere
    <3> HIDE DEF X
    <3> QED BY <2>1, <3>1, <3>2, Zenon
  <2> QED BY <2>2, <2>3
<1>7. c \in Course
  BY <1>3, <1>4, <1>5, <1>6 DEF Course
<1>8. IF Ahead(side) THEN 0 <= c.way ELSE c.way < Length(c.screen, side)
  BY <1>1, <1>4
<1>9. Entered(c, side)
  BY <1>2, <1>3, <1>4, <1>7, <1>8 DEF Entered
<1>10. IF Ahead(side) THEN c.way <= way - 1 ELSE way + 1 <= c.way
  BY <1>1, <1>4
<1> QED
  BY <1>6, <1>9, <1>10 DEF Flown, c

LEMMA BeginFlies ==
    ASSUME links \subseteq Candidates, Apart(links), NEW src \in Screen, NEW side \in Side,
           NEW p \in Int \X Int, Past(side, src, p)
    PROVE  LET c == Begin(src, side, p, GetNeighbor(src, side, p))
           IN  Flown(c, side) /\ RunsOut(c, side, p[Axis(side)] - Origin(src, side), 0)
<1> DEFINE nb == GetNeighbor(src, side, p)
           way == p[Axis(side)] - Origin(src, side)
           c == Begin(src, side, p, nb)
<1>1. Found(nb) /\ (~nb.done => Ring(side))
  BY NeighborFound
<1>2. /\ way \in Int
      /\ IF Ahead(side) THEN way >= Length(src, side) ELSE way < 0
  BY AxisFacts DEF Past
<1> HIDE DEF nb, way
<1>3. ~nb.done => Flown(c, side) /\ RunsOut(c, side, way, 0)
  BY <1>1 DEF Begin, Endless, Nowhere, Flown, RunsOut
<1>4. nb.done /\ nb.screen = NoScreen => Flown(c, side) /\ RunsOut(c, side, way, 0)
  BY DEF Begin, Nowhere, Flown, RunsOut
<1>5. ASSUME nb.done, nb.screen # NoScreen
      PROVE  Flown(c, side) /\ RunsOut(c, side, way, 0)
  <2>1. nb.screen \in Screen /\ nb.screen \in connected /\ OnEdge(nb.t)
    BY <1>1, <1>5 DEF Found
  <2>2. c = Enter(src, way, p, nb, side)
    BY <1>5 DEF Begin, way
  <2>3. Flown(c, side) /\ IF Ahead(side) THEN c.way <= way - 1 ELSE way + 1 <= c.way
    BY <1>2, <2>1, <2>2, EnterFlies
  <2> HIDE DEF c
  <2>4. RunsOut(c, side, way, 0)
    BY <1>2, <2>3 DEF RunsOut
  <2> QED BY <2>3, <2>4
<1>6. Flown(c, side) /\ RunsOut(c, side, way, 0)
  <2> HIDE DEF c
  <2> QED BY <1>3, <1>4, <1>5
<1> QED
  BY <1>6 DEF nb, way

LEMMA CrossFlies ==
    ASSUME links \subseteq Candidates, Apart(links), NEW side \in Side, NEW b, Flown(b, side),
           NEW way \in Int, NEW n \in Nat, n # 0, RunsOut(b, side, way, n - 1)
    PROVE  Flown(Cross(b, side), side) /\ RunsOut(Cross(b, side), side, way, n)
<1>1. CASE b.there
  BY <1>1 DEF Cross, RunsOut
<1>2. CASE ~b.there
  <2> DEFINE nb == GetNeighbor(b.screen, side, b.p)
             c  == Cross(b, side)
  <2>1. /\ Entered(b, side) /\ ~EndsHere(b, side)
        /\ b \in Course /\ b.screen \in Screen /\ b.p \in Int \X Int /\ b.way \in Int
    BY <1>2 DEF Flown, Entered, Course
  <2>2. Found(nb) /\ (~nb.done => Ring(side))
    BY <2>1, NeighborFound
  <2>3. c = Onward(b, side, nb)
    BY <1>2 DEF Cross
  <2>4. IF Ahead(side) THEN b.way >= Length(b.screen, side) ELSE b.way < 0
    BY <2>1, AxisFacts DEF EndsHere
  <2> HIDE DEF nb, c
  <2>5. CASE ~nb.done
    BY <2>2, <2>3, <2>5 DEF Onward, Endless, Nowhere, Flown, RunsOut, c
  <2>6. CASE nb.done /\ nb.screen = NoScreen
    <3>1. c = [b EXCEPT !.there = TRUE]
      BY <2>3, <2>6 DEF Onward
    <3>2. /\ c \in Course /\ c.screen = b.screen /\ c.p = b.p /\ c.way = b.way
          /\ c.there = TRUE /\ c.endless = b.endless
      BY <2>1, <3>1 DEF Course
    <3>3. Entered(c, side)
      BY <2>1, <3>2 DEF Entered
    <3>4. GetNeighbor(c.screen, side, c.p).screen = NoScreen
      BY <2>6, <3>2 DEF nb
    <3> QED
      BY <3>2, <3>3, <3>4 DEF Flown, RunsOut, c
  <2>7. CASE nb.done /\ nb.screen # NoScreen
    <3>1. nb.screen \in Screen /\ nb.screen \in connected /\ OnEdge(nb.t)
      BY <2>2, <2>7 DEF Found
    <3>2. c = Enter(b.screen, b.way, b.p, nb, side)
      BY <2>3, <2>7 DEF Onward
    <3>3. Flown(c, side) /\ IF Ahead(side) THEN c.way <= b.way - 1 ELSE b.way + 1 <= c.way
      BY <2>1, <2>4, <3>1, <3>2, EnterFlies
    <3>4. IF Ahead(side) THEN b.way <= way - n ELSE way + n <= b.way
      BY <1>2, <2>1 DEF RunsOut
    <3>5. ~c.there => c.way \in Int
      <4>1. ~c.there => c \in Course
        BY <3>3 DEF Flown, Entered
      <4> QED BY <4>1 DEF Course
    <3>6. RunsOut(c, side, way, n)
      BY <2>1, <3>3, <3>4, <3>5 DEF RunsOut
    <3> QED
      BY <3>3, <3>6 DEF c
  <2> QED
    BY <2>5, <2>6, <2>7
<1> QED
  BY <1>1, <1>2

(* Every flight ends: where it was to end, where no screen is left to fly  *)
(* to, or nowhere.                                                         *)
LEMMA FlightEnds ==
    ASSUME links \subseteq Candidates, Apart(links), NEW src \in Screen, NEW side \in Side,
           NEW p \in Int \X Int, Past(side, src, p)
    PROVE  Flown(Crossed(src, side, p), side) /\ Crossed(src, side, p).there
<1> DEFINE w == Crossing(src, side, p)
           N == ToGo(src, side, p)
           way == p[Axis(side)] - Origin(src, side)
           Good == {n \in 0..N : Flown(w[n], side) /\ RunsOut(w[n], side, way, n)}
<1>1. way \in Int /\ N \in Nat /\ (N = way \/ N = -way)
  BY AxisFacts DEF ToGo
<1>2. IF Ahead(side) THEN 0 <= way ELSE way < 0
  BY AxisFacts DEF Past
<1>3. w[0] = Begin(src, side, p, GetNeighbor(src, side, p))
      /\ \A n \in 1..N : w[n] = Cross(w[n - 1], side)
  BY <1>1, CrossingAt
<1>4. Flown(w[0], side) /\ RunsOut(w[0], side, way, 0)
  BY <1>3, BeginFlies
<1> HIDE DEF w, N, way
<1>5. 0 \in Good
  BY <1>1, <1>4
<1>6. ASSUME NEW n \in 1..N, n - 1 \in Good PROVE n \in Good
  <2>1. n \in Nat /\ n # 0 /\ n \in 0..N
    BY <1>1
  <2>2. Flown(w[n - 1], side) /\ RunsOut(w[n - 1], side, way, n - 1)
    BY <1>6
  <2>3. Flown(Cross(w[n - 1], side), side) /\ RunsOut(Cross(w[n - 1], side), side, way, n)
    BY <1>1, <2>1, <2>2, CrossFlies
  <2>4. w[n] = Cross(w[n - 1], side)
    BY <1>3
  <2> QED
    BY <2>1, <2>3, <2>4
<1>7. Flown(w[N], side) /\ RunsOut(w[N], side, way, N)
  <2>1. \A n \in 0..N : n \in Good
    <3> HIDE DEF Good
    <3> QED BY <1>1, <1>5, <1>6, Upwards
  <2>2. N \in 0..N
    BY <1>1
  <2> QED BY <2>1, <2>2
<1>8. w[N].there
  <2> SUFFICES ASSUME ~w[N].there PROVE FALSE
    OBVIOUS
  <2>1. Entered(w[N], side) /\ ~EndsHere(w[N], side)
    BY <1>7 DEF Flown
  <2>2. w[N].way \in Int /\ Length(w[N].screen, side) \in Nat
    <3>1. w[N] \in Course
      BY <2>1 DEF Entered
    <3> QED BY <3>1, AxisFacts DEF Course
  <2>3. IF Ahead(side) THEN w[N].way >= 0 ELSE w[N].way < 0
    BY <2>1, <2>2 DEF EndsHere
  <2>4. IF Ahead(side) THEN w[N].way <= way - N - 1 ELSE way + N + 1 <= w[N].way
    BY <1>7 DEF RunsOut
  <2> QED
    BY <1>1, <1>2, <2>2, <2>3, <2>4
<1> QED
  BY <1>7, <1>8 DEF Crossed, w, N

(* Entering the primary.                                                   *)
Bounces(side, p) ==
  /\ InZone(Opposite(side), p)
  /\ GetLink(Primary, Opposite(side), Fraction(Primary, side, p)) # {}

LEMMA JumpZoneAvoided ==
    ASSUME NEW s \in Screen, NEW side \in Side, NEW q \in Int \X Int
    PROVE  LET a == Axis(side)
               r == AvoidJumpZone(s, side, q)
           IN  /\ r \in Int \X Int /\ r[Across(side)] = q[Across(side)]
               /\ Past(side, s, q) => r = q
               /\ Near(s, a) <= q[a] /\ q[a] <= Far(s, a) => Near(s, a) <= r[a] /\ r[a] <= Far(s, a)
               /\ s = Primary => ~Bounces(side, r)
<1> DEFINE a == Axis(side)
           r == AvoidJumpZone(s, side, q)
           back == GetLink(s, Opposite(side), Fraction(s, side, q))
           near == Near(s, a) + Zone
           far == Far(s, a) - Zone
<1>1. /\ a \in {1, 2} /\ Across(side) = 3 - a /\ Across(side) \in {1, 2}
      /\ Axis(Opposite(side)) = a /\ (Ahead(Opposite(side)) <=> ~Ahead(side))
  BY AxisFacts, SideFacts
<1>2. Near(s, a) \in Int /\ Far(s, a) \in Int /\ Zone \in Nat /\ q[a] \in Int
  BY <1>1, ShapeFacts, LinksAssumption DEF Near, Far
<1>3. s = Primary => Near(s, a) + Zone <= Far(s, a)
  <2>1. s = Primary => Zone < Shape[s].size[a]
    BY <1>1, ShapeAssumption
  <2>2. Shape[s].at[a] \in Int /\ Shape[s].size[a] \in Nat
    BY <1>1, ShapeFacts
  <2> QED BY <1>2, <2>1, <2>2 DEF Near, Far
<1>4. r = IF s # Primary \/ back = {} THEN q
          ELSE IF Ahead(side) /\ q[a] < near THEN [q EXCEPT ![a] = near]
          ELSE IF ~Ahead(side) /\ q[a] > far THEN [q EXCEPT ![a] = far]
          ELSE q
  <2>1. /\ near = Shape[s].at[a] + Zone
        /\ far = Shape[s].at[a] + Shape[s].size[a] - 1 - Zone
    <3>1. /\ Shape[s].at[a] \in Int /\ Shape[s].size[a] \in Nat /\ Zone \in Nat
      BY <1>1, ShapeFacts, LinksAssumption
    <3> QED BY <3>1 DEF Near, Far
  <2> QED BY <2>1 DEF AvoidJumpZone
<1>5. near \in Int /\ far \in Int
  BY <1>2
<1>6. /\ [q EXCEPT ![a] = near] \in Int \X Int /\ [q EXCEPT ![a] = near][a] = near
      /\ [q EXCEPT ![a] = near][3 - a] = q[3 - a]
      /\ [q EXCEPT ![a] = far] \in Int \X Int /\ [q EXCEPT ![a] = far][a] = far
      /\ [q EXCEPT ![a] = far][3 - a] = q[3 - a]
  BY <1>1, <1>5, PairExcept
<1> HIDE DEF a, r, back
<1>7. r \in Int \X Int /\ r[Across(side)] = q[Across(side)]
  <2> HIDE DEF near, far
  <2> QED BY <1>1, <1>4, <1>6
<1>8. Past(side, s, q) => r = q
  <2>1. Past(side, s, q) => IF Ahead(side) THEN q[a] > Far(s, a) ELSE q[a] < Near(s, a)
    BY DEF Past, a
  <2>2. Past(side, s, q) /\ s = Primary
        => ~ (Ahead(side) /\ q[a] < near) /\ ~ (~Ahead(side) /\ q[a] > far)
    BY <1>2, <1>3, <2>1
  <2> HIDE DEF near, far
  <2> QED BY <1>4, <2>2
<1>9. Near(s, a) <= q[a] /\ q[a] <= Far(s, a) => Near(s, a) <= r[a] /\ r[a] <= Far(s, a)
  <2>1. r[a] = q[a] \/ (s = Primary /\ (r[a] = near \/ r[a] = far))
    <3> HIDE DEF near, far
    <3> QED BY <1>4, <1>6
  <2> QED BY <1>2, <1>3, <2>1
<1>10. ASSUME s = Primary, Bounces(side, r) PROVE FALSE
  <2>1. Fraction(s, side, r) = Fraction(s, side, q)
    BY <1>7 DEF Fraction
  <2>2. back # {}
    BY <1>10, <2>1 DEF Bounces, back
  <2>3. IF Ahead(side) THEN r[a] >= near ELSE r[a] <= far
    <3> HIDE DEF near, far
    <3>1. CASE Ahead(side)
      <4>1. CASE q[a] < near
        BY <1>4, <1>5, <1>6, <1>10, <2>2, <3>1, <4>1
      <4>2. CASE ~ (q[a] < near)
        BY <1>2, <1>4, <1>5, <1>10, <2>2, <3>1, <4>2
      <4> QED BY <4>1, <4>2
    <3>2. CASE ~Ahead(side)
      <4>1. CASE q[a] > far
        BY <1>4, <1>5, <1>6, <1>10, <2>2, <3>2, <4>1
      <4>2. CASE ~ (q[a] > far)
        BY <1>2, <1>4, <1>5, <1>10, <2>2, <3>2, <4>2
      <4> QED BY <4>1, <4>2
    <3> QED BY <3>1, <3>2
  <2>4. IF Ahead(side) THEN r[a] < near ELSE r[a] > far
    BY <1>1, <1>10 DEF Bounces, InZone
  <2>5. r[a] \in Int
    BY <1>1, <1>7
  <2> QED
    BY <1>5, <2>3, <2>4, <2>5
<1> QED
  BY <1>7, <1>8, <1>9, <1>10 DEF a, r

(* Where a motion leads.                                                   *)
Leads(to, side) ==
  /\ to.endless => Ring(side)
  /\ to.screen # NoScreen =>
       /\ to.screen \in Screen \cap connected
       /\ to.p \in Int \X Int
       /\ \/ to.p \in Pixels(to.screen)
          \/ /\ Past(side, to.screen, to.p)
             /\ GetNeighbor(to.screen, side, to.p).screen = NoScreen
             /\ Near(to.screen, Across(side)) <= to.p[Across(side)]
             /\ to.p[Across(side)] <= Far(to.screen, Across(side))
       /\ to.screen = Primary => ~Bounces(side, to.p)

LEMMA MotionLeads ==
    ASSUME links \subseteq Candidates, Apart(links), NEW src \in Screen, NEW side \in Side,
           NEW p \in Int \X Int, Past(side, src, p)
    PROVE  Leads(MapToNeighbor(src, side, p), side)
<1> DEFINE c == Crossed(src, side, p)
           to == MapToNeighbor(src, side, p)
           a == Axis(side)
           b == Across(side)
           q == [c.p EXCEPT ![a] = c.way + Origin(c.screen, side)]
           r == AvoidJumpZone(c.screen, side, q)
<1>1. Flown(c, side) /\ c.there
  BY FlightEnds
<1>2. to = Landed(c, side)
  BY DEF MapToNeighbor
<1> SUFFICES Leads(to, side)
  OBVIOUS
<1> HIDE DEF c, to
<1>3. CASE c.screen = NoScreen
  <2>1. to = c
    BY <1>2, <1>3 DEF Landed
  <2>2. ~Entered(c, side)
    BY <1>3, LinksAssumption DEF Entered, Course
  <2>3. c.endless => Ring(side)
    BY <1>1, <2>2 DEF Flown
  <2> QED BY <1>3, <2>1, <2>3 DEF Leads
<1>4. CASE c.screen # NoScreen
  <2>1. /\ Entered(c, side) /\ c \in Course /\ c.screen \in Screen /\ c.screen \in connected
        /\ c.p \in Int \X Int /\ c.way \in Int /\ ~c.endless
        /\ Near(c.screen, b) <= c.p[b] /\ c.p[b] <= Far(c.screen, b)
        /\ EndsHere(c, side) \/ GetNeighbor(c.screen, side, c.p).screen = NoScreen
    BY <1>1, <1>4 DEF Flown, Entered, Course
  <2>2. /\ a \in {1, 2} /\ b \in {1, 2} /\ a = 3 - b /\ b = 3 - a
        /\ Origin(c.screen, side) \in Int /\ Length(c.screen, side) \in Nat
        /\ Near(c.screen, a) = Origin(c.screen, side)
        /\ Far(c.screen, a) = Origin(c.screen, side) + Length(c.screen, side) - 1
    BY <2>1, AxisFacts
  <2>3. q \in Int \X Int /\ q[a] = c.way + Origin(c.screen, side) /\ q[b] = c.p[b]
    BY <2>1, <2>2, PairExcept
  <2>4. to = [c EXCEPT !.p = r]
    BY <1>2, <1>4 DEF Landed
  <2> HIDE DEF q
  <2>5. /\ r \in Int \X Int /\ r[b] = q[b]
        /\ Past(side, c.screen, q) => r = q
        /\ Near(c.screen, a) <= q[a] /\ q[a] <= Far(c.screen, a)
           => Near(c.screen, a) <= r[a] /\ r[a] <= Far(c.screen, a)
        /\ c.screen = Primary => ~Bounces(side, r)
    BY <2>1, <2>3, JumpZoneAvoided
  <2> HIDE DEF r
  <2>6. to.p = r /\ to.screen = c.screen
    BY <2>1, <2>4 DEF Course
  <2>9. ~to.endless
    <3>1. to.endless = c.endless
      BY <2>1, <2>4 DEF Course
    <3> QED BY <2>1, <3>1
  <2>7. CASE EndsHere(c, side)
    <3>1. Near(c.screen, a) <= q[a] /\ q[a] <= Far(c.screen, a)
      BY <2>1, <2>2, <2>3, <2>7 DEF EndsHere, Entered
    <3>2. /\ Near(c.screen, a) <= r[a] /\ r[a] <= Far(c.screen, a)
          /\ Near(c.screen, b) <= r[b] /\ r[b] <= Far(c.screen, b)
      BY <2>1, <2>3, <2>5, <3>1
    <3>3. \A x \in {1, 2} : Near(c.screen, x) <= r[x] /\ r[x] <= Far(c.screen, x)
      BY <2>2, <3>2
    <3>4. r \in Pixels(c.screen)
      BY <2>1, <2>5, <3>3, PixelFacts
    <3> QED
      BY <2>1, <2>5, <2>6, <2>9, <3>4 DEF Leads
  <2>8. CASE ~EndsHere(c, side)
    <3>1. Past(side, c.screen, q)
      BY <2>1, <2>2, <2>3, <2>8 DEF EndsHere, Past
    <3>2. r = q
      BY <2>5, <3>1
    <3>3. GetNeighbor(c.screen, side, r) = GetNeighbor(c.screen, side, c.p)
      BY <2>3, <3>2, SearchAcross
    <3>4. GetNeighbor(c.screen, side, r).screen = NoScreen
      BY <2>1, <2>8, <3>3
    <3>5. Near(c.screen, b) <= r[b] /\ r[b] <= Far(c.screen, b)
      BY <2>1, <2>3, <3>2
    <3> HIDE DEF b
    <3>6. /\ to.endless => Ring(side)
          /\ to.screen \in Screen \cap connected /\ to.p \in Int \X Int
          /\ Past(side, to.screen, to.p) /\ GetNeighbor(to.screen, side, to.p).screen = NoScreen
          /\ to.screen = Primary => ~Bounces(side, to.p)
      BY <2>1, <2>5, <2>6, <2>9, <3>1, <3>2, <3>4
    <3>7. /\ Near(to.screen, b) <= to.p[b] /\ to.p[b] <= Far(to.screen, b)
      BY <2>6, <3>5
    <3> QED
      BY <3>6, <3>7 DEF Leads, b
  <2> QED
    BY <2>7, <2>8
<1> QED
  BY <1>3, <1>4

-----------------------------------------------------------------------------
(* The invariant.                                                          *)
LinksTypes ==
  /\ links \subseteq Candidates /\ Apart(links)
  /\ reading \in BOOLEAN /\ hung \in BOOLEAN
  /\ connected \subseteq Screen /\ Primary \in connected /\ active \in connected
  /\ pos \in Int \X Int /\ heading \in Side \cup {NoScreen}
Still == reading => heading = NoScreen /\ ~hung
LinksInv == LinksTypes /\ Still /\ CursorInside /\ NoBounce /\ HangsInRings

LEMMA ClampInside ==
    ASSUME NEW s \in Screen, NEW p \in Int \X Int
    PROVE  /\ Clamp(s, p) \in Pixels(s)
           /\ \A a \in {1, 2} : Near(s, a) <= p[a] /\ p[a] <= Far(s, a) => Clamp(s, p)[a] = p[a]
<1> DEFINE q == Clamp(s, p)
<1>1. \A a \in {1, 2} : Near(s, a) \in Int /\ Far(s, a) \in Int /\ Near(s, a) <= Far(s, a)
  BY ShapeFacts DEF Near, Far
<1>2. \A a \in {1, 2} : q[a] = IF p[a] < Near(s, a) THEN Near(s, a)
                               ELSE IF p[a] > Far(s, a) THEN Far(s, a) ELSE p[a]
  BY DEF Clamp
<1>3. q \in Int \X Int
  <2>1. q = [a \in 1..2 |-> q[a]]
    BY DEF Clamp
  <2>2. q[1] \in Int /\ q[2] \in Int
    BY <1>1, <1>2
  <2>3. q = <<q[1], q[2]>>
    <3> HIDE DEF q
    <3> QED BY <2>1
  <2> HIDE DEF q
  <2> QED BY <2>2, <2>3
<1> HIDE DEF q
<1>4. \A a \in {1, 2} : Near(s, a) <= q[a] /\ q[a] <= Far(s, a)
  BY <1>1, <1>2
<1>5. \A a \in {1, 2} : Near(s, a) <= p[a] /\ p[a] <= Far(s, a) => q[a] = p[a]
  BY <1>1, <1>2
<1>6. q \in Pixels(s)
  BY <1>3, <1>4, PixelFacts
<1> QED
  BY <1>5, <1>6 DEF q

LEMMA CenterInside == Center(Primary) \in Pixels(Primary)
<1> DEFINE q == Center(Primary)
<1>1. Primary \in Screen
  BY LinksAssumption
<1>2. ASSUME NEW a \in {1, 2}
      PROVE  q[a] \in Int /\ Near(Primary, a) <= q[a] /\ q[a] <= Far(Primary, a)
  <2> DEFINE S == Shape[Primary].size[a]
  <2>1. S \in Nat /\ S # 0 /\ Shape[Primary].at[a] \in Int
    BY <1>1, ShapeFacts
  <2>2. q[a] = Shape[Primary].at[a] + S \div 2
    BY DEF Center, Near
  <2> HIDE DEF S, q
  <2>3. S \div 2 \in 0..(S - 1)
    BY <2>1
  <2>4. Near(Primary, a) = Shape[Primary].at[a] /\ Far(Primary, a) = Shape[Primary].at[a] + S - 1
    BY DEF Near, Far, S
  <2> QED BY <2>1, <2>2, <2>3, <2>4
<1>3. q \in Int \X Int
  <2>1. q = [a \in 1..2 |-> q[a]]
    BY DEF Center
  <2>2. q[1] \in Int /\ q[2] \in Int
    BY <1>2
  <2> HIDE DEF q
  <2>3. q = <<q[1], q[2]>>
    BY <2>1
  <2> QED BY <2>2, <2>3
<1> HIDE DEF q
<1> QED
  BY <1>1, <1>2, <1>3, PixelFacts DEF q

-----------------------------------------------------------------------------
(* The parts the steps are made of.                                        *)
LEMMA LandsInside ==
    ASSUME LinksInv, Running, Rest, NEW side \in Side, NEW to, Leads(to, side),
           SwitchScreen(to, side)
    PROVE  LinksInv'
<1>1. /\ active' = to.screen /\ pos' = to.p /\ heading' = side /\ hung' = hung
      /\ beyond' = GetNeighbor(to.screen, side, to.p).screen
      /\ links' = links /\ reading' = reading /\ connected' = connected
      /\ ~reading /\ ~hung
  BY DEF SwitchScreen, Rest, Running
<1>2. /\ to.screen \in Screen /\ to.screen \in connected /\ to.p \in Int \X Int
      /\ to.screen = Primary => ~Bounces(side, to.p)
  BY DEF SwitchScreen, Leads
<1>3. LinksTypes' /\ Still'
  BY <1>1, <1>2 DEF LinksInv, LinksTypes, Still, Apart
<1>4. CursorInside'
  <2>1. CASE to.p \in Pixels(to.screen)
    BY <1>1, <1>2, <2>1 DEF CursorInside, Pixels, Near, Far
  <2>2. CASE to.p \notin Pixels(to.screen)
    <3> DEFINE b == Across(side)
    <3>1. /\ Past(side, to.screen, to.p) /\ GetNeighbor(to.screen, side, to.p).screen = NoScreen
          /\ Near(to.screen, b) <= to.p[b] /\ to.p[b] <= Far(to.screen, b)
      BY <2>2 DEF SwitchScreen, Leads
    <3>2. Clamp(to.screen, to.p)[b] = to.p[b]
      BY <1>2, <3>1, ClampInside, AxisFacts
    <3>3. side # NoScreen
      BY LinksAssumption
    <3>4. Overshot'
      BY <1>1, <3>1, <3>2, <3>3 DEF Overshot, Past, Near, Far, Clamp
    <3> QED
      BY <1>1, <1>2, <3>4 DEF CursorInside
  <2> QED BY <2>1, <2>2
<1>5. NoBounce'
  BY <1>1, <1>2 DEF NoBounce, Bounces, InZone, GetLink, OnSide, Near, Far, Fraction
<1>6. HangsInRings'
  BY <1>1 DEF HangsInRings
<1> QED
  BY <1>3, <1>4, <1>5, <1>6 DEF LinksInv

LEMMA StaysInside ==
    ASSUME LinksInv, Running, Rest, NEW q, q \in Pixels(active), Stay(q)
    PROVE  LinksInv'
<1>1. /\ active' = active /\ pos' = q /\ heading' = NoScreen /\ hung' = hung
      /\ links' = links /\ reading' = reading /\ connected' = connected
      /\ ~reading /\ ~hung
  BY DEF Stay, Rest, Running
<1>2. q \in Int \X Int
  BY PixelFacts DEF LinksInv, LinksTypes
<1>3. LinksTypes' /\ Still'
  BY <1>1, <1>2 DEF LinksInv, LinksTypes, Still, Apart
<1>4. CursorInside' /\ NoBounce' /\ HangsInRings'
  BY <1>1, <1>3 DEF LinksTypes, CursorInside, NoBounce, HangsInRings, Pixels, Near, Far
<1> QED
  BY <1>3, <1>4 DEF LinksInv

LEMMA HangsRinged ==
    ASSUME LinksInv, Running, Rest, NEW side \in Side, NEW to, Leads(to, side), to.endless, Hang
    PROVE  LinksInv'
<1>1. /\ active' = active /\ pos' = pos /\ heading' = heading /\ beyond' = beyond
      /\ links' = links /\ reading' = reading /\ connected' = connected
      /\ hung' = TRUE /\ ~reading /\ ~hung
  BY DEF Hang, Rest, Running
<1>2. LinksTypes' /\ Still'
  BY <1>1 DEF LinksInv, LinksTypes, Still, Apart
<1>3. CursorInside' /\ NoBounce'
  BY <1>1 DEF LinksInv, CursorInside, Overshot, NoBounce, InZone, GetLink, OnSide, Near, Far,
              Fraction, Past, Clamp, Pixels
<1>4. Ring(side)
  BY DEF Leads
<1>5. Ring(side)'
  BY <1>1, <1>4 DEF Ring, OnSide
<1>6. HangsInRings'
  BY <1>5 DEF HangsInRings
<1> QED
  BY <1>2, <1>3, <1>6 DEF LinksInv

-----------------------------------------------------------------------------
(* The steps.                                                              *)
LEMMA LinksInit == InitLinks => LinksInv
<1> SUFFICES ASSUME InitLinks PROVE LinksInv
  OBVIOUS
<1>1. Primary \in Screen
  BY LinksAssumption
<1>2. \A a \in {1, 2} : Near(Primary, a) <= pos[a] /\ pos[a] <= Far(Primary, a)
  BY <1>1, ShapeFacts DEF InitLinks, Near, Far
<1>3. pos \in Int \X Int
  BY <1>1, ShapeAssumption DEF InitLinks
<1>4. pos \in Pixels(Primary)
  BY <1>1, <1>2, <1>3, PixelFacts
<1>5. LinksTypes /\ Still
  BY <1>1, <1>3 DEF InitLinks, LinksTypes, Still, Apart
<1>6. CursorInside /\ NoBounce /\ HangsInRings
  BY <1>4 DEF InitLinks, CursorInside, NoBounce, HangsInRings
<1> QED
  BY <1>5, <1>6 DEF LinksInv

LEMMA ReadLinkKeeps ==
    ASSUME LinksInv, NEW k \in Candidates, ReadLink(k)
    PROVE  LinksInv'
<1>1. /\ active' = active /\ pos' = pos /\ heading' = heading /\ beyond' = beyond
      /\ reading' = reading /\ connected' = connected /\ hung' = hung
      /\ heading = NoScreen /\ ~hung
  BY DEF ReadLink, LinksInv, Still
<1>2. links' \subseteq Candidates /\ Apart(links')
  <2>1. CASE Added(k) = NoScreen
    BY <2>1 DEF ReadLink, Apart
  <2>2. CASE Added(k) # NoScreen
    BY <2>2, AddedApart DEF ReadLink, LinksInv, LinksTypes
  <2> QED BY <2>1, <2>2
<1>3. LinksTypes' /\ Still'
  BY <1>1, <1>2 DEF LinksInv, LinksTypes, Still, Apart
<1>4. CursorInside' /\ NoBounce' /\ HangsInRings'
  BY <1>1 DEF LinksInv, CursorInside, Overshot, NoBounce, HangsInRings, Pixels, Near, Far
<1> QED
  BY <1>3, <1>4 DEF LinksInv

LEMMA EndOfConfigKeeps ==
    ASSUME LinksInv, EndOfConfig
    PROVE  LinksInv'
<1>1. /\ active' = active /\ pos' = pos /\ heading' = heading /\ beyond' = beyond
      /\ links' = links /\ reading' = FALSE /\ connected' = connected /\ hung' = hung
      /\ heading = NoScreen /\ ~hung
  BY DEF EndOfConfig, LinksInv, Still
<1>2. LinksTypes' /\ Still'
  BY <1>1 DEF LinksInv, LinksTypes, Still, Apart
<1>3. CursorInside' /\ NoBounce' /\ HangsInRings'
  BY <1>1 DEF LinksInv, CursorInside, Overshot, NoBounce, HangsInRings, Pixels, Near, Far
<1> QED
  BY <1>2, <1>3 DEF LinksInv

LEMMA PrimaryKeeps ==
    ASSUME LinksInv, NEW p \in Pixels(Primary), OnMouseMovePrimary(p)
    PROVE  LinksInv'
<1> DEFINE to == [side \in Tried(p) |-> MapToNeighbor(Primary, side, Beyond(side, p))]
<1>1. Running /\ Rest /\ active = Primary /\ Primary \in Screen
  BY LinksAssumption DEF OnMouseMovePrimary
<1>2. \/ \E side \in DOMAIN to : SwitchScreen(to[side], side)
      \/ \E side \in DOMAIN to : to[side].endless /\ Hang
      \/ Stay(p)
  BY DEF OnMouseMovePrimary
<1>3. ASSUME NEW side \in Tried(p) PROVE side \in Side /\ Leads(to[side], side)
  <2>1. side \in Side /\ InZone(side, p)
    BY DEF Tried, ZoneOn, Side
  <2> DEFINE a == Axis(side)
             v == IF Ahead(side) THEN p[a] + Zone ELSE p[a] - Zone
  <2>2. p \in Int \X Int /\ a \in {1, 2} /\ Zone \in Nat
    BY <1>1, <2>1, PixelFacts, AxisFacts, LinksAssumption
  <2>3. p[a] \in Int /\ v \in Int
    BY <2>2
  <2>4. Beyond(side, p) = [p EXCEPT ![a] = v]
    BY DEF Beyond
  <2>5. Beyond(side, p) \in Int \X Int /\ Beyond(side, p)[a] = v
    <3> HIDE DEF v, a
    <3> QED BY <2>2, <2>3, <2>4, PairExcept
  <2>6. Near(Primary, a) \in Int /\ Far(Primary, a) \in Int
    BY <1>1, <2>2, ShapeFacts DEF Near, Far
  <2>7. Past(side, Primary, Beyond(side, p))
    BY <2>1, <2>2, <2>3, <2>5, <2>6 DEF Past, InZone
  <2>8. Leads(MapToNeighbor(Primary, side, Beyond(side, p)), side)
    BY <1>1, <2>1, <2>5, <2>7, MotionLeads DEF LinksInv, LinksTypes
  <2> QED
    BY <2>1, <2>8
<1>4. DOMAIN to = Tried(p)
  OBVIOUS
<1> HIDE DEF to
<1>5. CASE \E side \in DOMAIN to : SwitchScreen(to[side], side)
  BY <1>1, <1>3, <1>4, <1>5, LandsInside
<1>6. CASE \E side \in DOMAIN to : to[side].endless /\ Hang
  BY <1>1, <1>3, <1>4, <1>6, HangsRinged
<1>7. CASE Stay(p)
  BY <1>1, <1>7, StaysInside
<1> QED
  BY <1>2, <1>5, <1>6, <1>7

LEMMA SecondaryKeeps ==
    ASSUME LinksInv, NEW d \in Motions, OnMouseMoveSecondary(d)
    PROVE  LinksInv'
<1> DEFINE p == <<pos[1] + d[1], pos[2] + d[2]>>
<1>1. Running /\ Rest /\ active \in Screen
  BY DEF OnMouseMoveSecondary, LinksInv, LinksTypes
<1>2. \/ Left(active, p) = NoScreen /\ Stay(p)
      \/ \E side \in {Left(active, p)} \ {NoScreen} :
           \E to \in {MapToNeighbor(active, side, p)} :
             \/ ~to.endless /\ (SwitchScreen(to, side) \/ Stay(Clamp(active, p)))
             \/ to.endless /\ Hang
  BY DEF OnMouseMoveSecondary
<1>3. p \in Int \X Int
  <2>1. d \in Int \X Int
    BY LinksAssumption
  <2>2. pos[1] + d[1] \in Int /\ pos[2] + d[2] \in Int
    BY <2>1 DEF LinksInv, LinksTypes
  <2> QED BY <2>2
<1> HIDE DEF p
<1>4. CASE Left(active, p) = NoScreen /\ Stay(p)
  <2>1. \A a \in {1, 2} : Near(active, a) \in Int /\ Far(active, a) \in Int /\ p[a] \in Int
    BY <1>1, <1>3, ShapeFacts DEF Near, Far
  <2>2. \A a \in {1, 2} : Near(active, a) <= p[a] /\ p[a] <= Far(active, a)
    BY <1>4, <2>1, LinksAssumption DEF Left, Side
  <2>3. p \in Pixels(active)
    BY <1>1, <1>3, <2>2, PixelFacts
  <2> QED
    BY <1>1, <1>4, <2>3, StaysInside
<1>5. ASSUME NEW side, side = Left(active, p), side # NoScreen
      PROVE  side \in Side /\ Leads(MapToNeighbor(active, side, p), side)
  <2>1. side \in Side /\ Past(side, active, p)
    BY <1>5 DEF Left, Side, Past, Axis, Ahead
  <2>2. Leads(MapToNeighbor(active, side, p), side)
    BY <1>1, <1>3, <2>1, MotionLeads DEF LinksInv, LinksTypes
  <2> QED BY <2>1, <2>2
<1>6. ASSUME NEW side, side = Left(active, p), side # NoScreen,
             SwitchScreen(MapToNeighbor(active, side, p), side)
      PROVE  LinksInv'
  BY <1>1, <1>5, <1>6, LandsInside
<1>7. ASSUME NEW side, side = Left(active, p), side # NoScreen,
             MapToNeighbor(active, side, p).endless, Hang
      PROVE  LinksInv'
  BY <1>1, <1>5, <1>7, HangsRinged
<1>8. ASSUME Stay(Clamp(active, p)) PROVE LinksInv'
  BY <1>1, <1>3, <1>8, ClampInside, StaysInside
<1> QED
  BY <1>2, <1>4, <1>6, <1>7, <1>8

LEMMA AddClientKeeps ==
    ASSUME LinksInv, NEW c \in Screen, AddClient(c)
    PROVE  LinksInv'
<1>1. /\ active' = active /\ pos' = pos /\ heading' = heading /\ beyond' = beyond
      /\ links' = links /\ reading' = reading /\ connected' = connected \cup {c} /\ hung' = hung
      /\ ~hung
  BY DEF AddClient, Running
<1>2. LinksTypes' /\ Still'
  BY <1>1 DEF LinksInv, LinksTypes, Still, Apart
<1>3. CursorInside' /\ NoBounce'
  BY <1>1 DEF LinksInv, CursorInside, Overshot, NoBounce, InZone, GetLink, OnSide, Near, Far,
              Fraction, Past, Clamp, Pixels
<1>4. HangsInRings'
  BY <1>1 DEF HangsInRings
<1> QED
  BY <1>2, <1>3, <1>4 DEF LinksInv

LEMMA RemoveClientKeeps ==
    ASSUME LinksInv, NEW c \in Screen, RemoveClient(c)
    PROVE  LinksInv'
<1>1. /\ links' = links /\ reading' = reading /\ connected' = connected \ {c} /\ hung' = hung
      /\ ~hung /\ ~reading /\ c # Primary /\ Primary \in Screen
  BY LinksAssumption DEF RemoveClient, Running
<1>2. HangsInRings'
  BY <1>1 DEF HangsInRings
<1>3. CASE active = c
  <2>1. active' = Primary /\ pos' = Center(Primary) /\ heading' = NoScreen
    BY <1>3 DEF RemoveClient
  <2>2. Center(Primary) \in Pixels(Primary) /\ Center(Primary) \in Int \X Int
    BY <1>1, CenterInside, PixelFacts
  <2>3. LinksTypes' /\ Still'
    BY <1>1, <2>1, <2>2 DEF LinksInv, LinksTypes, Still, Apart
  <2>4. CursorInside' /\ NoBounce'
    BY <1>1, <2>1, <2>2, <2>3 DEF LinksTypes, CursorInside, NoBounce, Pixels, Near, Far
  <2> QED
    BY <1>2, <2>3, <2>4 DEF LinksInv
<1>4. CASE active # c
  <2>1. active' = active /\ pos' = pos /\ heading' = heading /\ beyond' = beyond
    BY <1>4 DEF RemoveClient
  <2>2. LinksTypes' /\ Still'
    BY <1>1, <1>4, <2>1 DEF LinksInv, LinksTypes, Still, Apart
  <2>3. CursorInside' /\ NoBounce'
    BY <1>1, <1>4, <2>1 DEF LinksInv, CursorInside, Overshot, NoBounce, InZone, GetLink, OnSide,
                            Near, Far, Fraction, Past, Clamp, Pixels
  <2> QED
    BY <1>2, <2>2, <2>3 DEF LinksInv
<1> QED
  BY <1>3, <1>4

LEMMA LinksStep == LinksInv /\ [NextLinks]_linksVars => LinksInv'
<1> SUFFICES ASSUME LinksInv, [NextLinks]_linksVars PROVE LinksInv'
  OBVIOUS
<1>1. CASE EndOfConfig
  BY <1>1, EndOfConfigKeeps
<1>2. CASE \E l \in Candidates : ReadLink(l)
  BY <1>2, ReadLinkKeeps
<1>3. CASE \E p \in Pixels(Primary) : OnMouseMovePrimary(p)
  BY <1>3, PrimaryKeeps
<1>4. CASE \E d \in Motions : OnMouseMoveSecondary(d)
  BY <1>4, SecondaryKeeps
<1>5. CASE \E c \in Screen : AddClient(c) \/ RemoveClient(c)
  BY <1>5, AddClientKeeps, RemoveClientKeeps
<1>6. CASE UNCHANGED linksVars
  <2>1. /\ active' = active /\ pos' = pos /\ heading' = heading /\ beyond' = beyond
        /\ links' = links /\ reading' = reading /\ connected' = connected /\ hung' = hung
    BY <1>6 DEF linksVars
  <2>2. LinksTypes' /\ Still'
    BY <2>1 DEF LinksInv, LinksTypes, Still, Apart
  <2>3. CursorInside' /\ NoBounce'
    BY <2>1 DEF LinksInv, CursorInside, Overshot, NoBounce, InZone, GetLink, OnSide,
                Near, Far, Fraction, Past, Clamp, Pixels
  <2>4. HangsInRings'
    BY <2>1 DEF LinksInv, HangsInRings, Ring, OnSide
  <2> QED
    BY <2>2, <2>3, <2>4 DEF LinksInv
<1> QED
  BY <1>1, <1>2, <1>3, <1>4, <1>5, <1>6 DEF NextLinks

LEMMA LinksInvariant == LinksSpec => []LinksInv
BY LinksInit, LinksStep, PTL DEF LinksSpec

LEMMA MapFromInv == LinksInv => LinksMap
<1> SUFFICES ASSUME LinksInv PROVE LinksFound /\ ThereAndBack
  BY DEF LinksMap
<1>1. links \subseteq Candidates /\ Apart(links)
  BY DEF LinksInv, LinksTypes
<1>2. \A t \in Fractions : t \in Ratio
  <2>1. Parts \in Nat /\ 4 * Parts \in Nat \ {0}
    BY LinksAssumption
  <2> QED BY <2>1 DEF Fractions, Ratio
<1>3. LinksFound
  <2> SUFFICES ASSUME NEW s \in Screen, NEW side \in Side
               PROVE  /\ \A l, m \in OnSide(s, side) :
                           l # m => l.part[2] <= m.part[1] \/ m.part[2] <= l.part[1]
                      /\ \A t \in Fractions :
                           GetLink(s, side, t) = {l \in OnSide(s, side) : IsInside(l.part, t)}
    BY DEF LinksFound
  <2>1. \A l, m \in OnSide(s, side) : l # m => l.part[2] <= m.part[1] \/ m.part[2] <= l.part[1]
    BY <1>1 DEF OnSide, Apart
  <2>2. \A t \in Fractions :
          GetLink(s, side, t) = {l \in OnSide(s, side) : IsInside(l.part, t)}
    BY <1>1, <1>2, LinkFound
  <2> QED BY <2>1, <2>2
<1> QED
  BY <1>1, <1>3, Returns

-----------------------------------------------------------------------------
THEOREM LinksMapped == LinksSpec => []LinksMap
BY LinksInvariant, MapFromInv, PTL

THEOREM CursorStaysInside == LinksSpec => []CursorKept
<1>1. LinksInv => CursorKept
  BY DEF LinksInv, CursorKept
<1> QED
  BY <1>1, LinksInvariant, PTL

THEOREM OnlyRingsHang == LinksSpec => []HangsInRings
<1>1. LinksInv => HangsInRings
  BY DEF LinksInv
<1> QED
  BY <1>1, LinksInvariant, PTL
=============================================================================
