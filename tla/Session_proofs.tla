---------------------------- MODULE Session_proofs ----------------------------
(***************************************************************************)
(* Proofs about Session: its state stays well formed, a client that has a  *)
(* connection is watched, one that has none will dial again, and neither   *)
(* side loses, shares or multiplies its connections.                       *)
(***************************************************************************)
EXTENDS Session, SequenceTheorems, FiniteSetTheorems, FunctionTheorems, TLAPS

-----------------------------------------------------------------------------
(* Events and notices, and the queues they are taken from and put into.     *)

LEMMA Events ==
  /\ \A t \in OfStream : \A c \in Conn : On(t, c) \in Event
  /\ \A t \in OfClient : Of(t) \in Event
  BY DEF On, Of, Event

AnyNotice == [kind : Notices, of : Conn] \cup {Announced}

LEMMA Noticed == \A k \in Notices : \A c \in Conn : Notice(k, c) \in AnyNotice
  BY DEF Notice, AnyNotice

LEMMA TakeType ==
  ASSUME NEW T, NEW q \in Seq(T), q # <<>>
  PROVE  Head(q) \in T /\ Tail(q) \in Seq(T)
  BY HeadTailProperties

LEMMA OneType ==
  ASSUME NEW T, NEW e \in T
  PROVE  <<e>> \in Seq(T)
  OBVIOUS

LEMMA NoneType == ASSUME NEW T PROVE <<>> \in Seq(T)
  OBVIOUS

LEMMA PostingType ==
  ASSUME queue \in Seq(Event), queue # <<>>, NEW es \in Seq(Event), Posting(es)
  PROVE  queue' \in Seq(Event)
  BY TakeType, ConcatProperties DEF Posting

LEMMA RaisingType ==
  ASSUME events \in Seq(AnyNotice), events # <<>>, NEW es \in Seq(AnyNotice), Raising(es)
  PROVE  events' \in Seq(AnyNotice)
  BY TakeType, ConcatProperties DEF Raising

(* Messages written, read, or lost leave the directions well formed.        *)
LEMMA WrittenType ==
  ASSUME NEW M, NEW q \in [Conn -> Seq(M)], NEW c \in Conn, NEW m \in M
  PROVE  Written(q, c, m) \in [Conn -> Seq(M)]
  <1>1. Append(q[c], m) \in Seq(M)
    BY AppendProperties
  <1> QED
    BY <1>1 DEF Written

LEMMA ReadType ==
  ASSUME NEW M, NEW q \in [Conn -> Seq(M)], NEW c \in Conn, q[c] # <<>>
  PROVE  [q EXCEPT ![c] = Tail(@)] \in [Conn -> Seq(M)]
  <1>1. Tail(q[c]) \in Seq(M)
    BY HeadTailProperties
  <1> QED
    BY <1>1

LEMMA WireRead ==
  ASSUME WireTypeOK, NEW c \in Conn
  PROVE  /\ up[c] # <<>> => [up EXCEPT ![c] = Tail(@)] \in [Conn -> Seq(ToServer)]
         /\ down[c] # <<>> => [down EXCEPT ![c] = Tail(@)] \in [Conn -> Seq(ToClient)]
  <1>1. up \in [Conn -> Seq(ToServer)] /\ down \in [Conn -> Seq(ToClient)]
    BY DEF WireTypeOK
  <1> QED
    BY <1>1, ReadType

LEMMA LostType ==
  ASSUME NEW M, NEW q \in [Conn -> Seq(M)], NEW c \in Conn
  PROVE  [q EXCEPT ![c] = <<>>] \in [Conn -> Seq(M)]
  OBVIOUS

-----------------------------------------------------------------------------
(* The client.                                                              *)

SessionOK ==
  /\ link \in Conn \cup {None} /\ stage \in Steps
  /\ timer \in BOOLEAN /\ alarm \in BOOLEAN

LEMMA CleanUpType ==
  ASSUME TypeOK, CleanUp
  PROVE  WireTypeOK' /\ SessionOK'
  <1>1. CASE link = None
    BY <1>1 DEF CleanUp, TypeOK, WireTypeOK, Steps, SessionOK, wire
  <1>2. CASE link # None
    <2>1. link \in Conn /\ "eof" \in ToServer
      BY <1>2 DEF TypeOK, ClientTypeOK, ToServer
    <2>a. up \in [Conn -> Seq(ToServer)] /\ down \in [Conn -> Seq(ToClient)]
      BY DEF TypeOK, WireTypeOK
    <2>b. up' = Written(up, link, "eof") /\ down' = [down EXCEPT ![link] = <<>>]
      BY <1>2 DEF CleanUp
    <2>2. up' \in [Conn -> Seq(ToServer)]
      BY <2>1, <2>a, <2>b, WrittenType
    <2>3. down' \in [Conn -> Seq(ToClient)]
      BY <2>1, <2>a, <2>b, LostType
    <2> QED
      BY <1>2, <2>2, <2>3 DEF CleanUp, TypeOK, WireTypeOK, Steps, SessionOK
  <1> QED
    BY <1>1, <1>2

LEMMA DialType ==
  ASSUME TypeOK, NEW c \in Conn, NEW at, Dial(c, at)
  PROVE  WireTypeOK' /\ SessionOK'
  BY LostType DEF Dial, TypeOK, WireTypeOK, Steps, Stage, SessionOK

LEMMA ServerCount ==
  /\ \A srv \in Servers : Addresses[srv + 1] \in Nat
  /\ 0 \in Servers
  /\ \A srv \in Servers : (srv + 1) % Len(Addresses) \in Servers
  <1>1. Addresses \in Seq(Nat \ {0}) /\ Len(Addresses) \in Nat \ {0}
    BY ClientAssumption, EmptySeq, LenProperties
  <1>2. ASSUME NEW srv \in Servers
        PROVE  Addresses[srv + 1] \in Nat /\ (srv + 1) % Len(Addresses) \in Servers
    <2>1. srv + 1 \in 1..Len(Addresses)
      BY <1>1 DEF Servers
    <2>2. Addresses[srv + 1] \in Nat \ {0}
      BY <1>1, <2>1, ElementOfSeq
    <2>3. (srv + 1) % Len(Addresses) \in 0..(Len(Addresses) - 1)
      BY <1>1, <2>1
    <2> QED
      BY <2>2, <2>3 DEF Servers
  <1>3. 0 \in Servers
    BY <1>1 DEF Servers
  <1> QED
    BY <1>2, <1>3

LEMMA ConnectType ==
  ASSUME TypeOK, NEW c \in Conn, NEW srv \in Servers, NEW i, NEW posted, Connect(c, srv, i, posted)
  PROVE  WireTypeOK' /\ SessionOK' /\ resolved' \in Nat
  <1>1. Addresses[srv + 1] \in Nat
    BY ServerCount
  <1>2. CASE UNCHANGED <<session, wire>>
    BY <1>1, <1>2 DEF Connect, TypeOK, ClientTypeOK, WireTypeOK, session, wire, SessionOK
  <1>3. CASE Dial(c, AddressAt(srv, i)) /\ resolved' = Addresses[srv + 1]
    BY <1>1, <1>3, DialType
  <1> QED
    BY <1>2, <1>3 DEF Connect

(* The two shapes of a handler that takes the head of the queue: one that    *)
(* ends the connection, and one that leaves it alone.                        *)
LEMMA EndingType ==
  ASSUME TypeOK, queue # <<>>, CleanUp, NEW t \in OfClient, Posting(<<Of(t)>>),
         UNCHANGED <<app, screen, suspended, restarts, list, target>>,
         connectOnResume' \in BOOLEAN
  PROVE  ClientTypeOK' /\ WireTypeOK'
  <1>1. <<Of(t)>> \in Seq(Event) /\ queue \in Seq(Event)
    BY Events, OneType DEF TypeOK, ClientTypeOK
  <1>2. queue' \in Seq(Event)
    BY <1>1, PostingType
  <1> QED
    BY <1>2, CleanUpType DEF SessionOK, TypeOK, ClientTypeOK, list, target

LEMMA KeepingType ==
  ASSUME TypeOK, queue # <<>>, NEW es \in Seq(Event), Posting(es), UNCHANGED <<app, screen, wire>>,
         SessionOK', suspended' \in BOOLEAN, connectOnResume' \in BOOLEAN, restarts' \in Nat,
         server' \in Servers, address' \in Nat, UNCHANGED target
  PROVE  ClientTypeOK' /\ WireTypeOK'
  <1>1. queue' \in Seq(Event)
    BY PostingType DEF TypeOK, ClientTypeOK
  <1> QED
    BY <1>1 DEF SessionOK, TypeOK, ClientTypeOK, WireTypeOK, wire, target

(* A client without a connection has no handlers, timer or alarm of one.    *)
Attached == link = None => stage = "idle" /\ ~timer /\ ~alarm

LEMMA HelloType ==
  ASSUME TypeOK, Attached, HandleHello
  PROVE  ClientTypeOK' /\ WireTypeOK'
  <1>1. queue # <<>> /\ queue \in Seq(Event) /\ link \in Conn
    BY DEF HandleHello, Dispatching, Attached, TypeOK, ClientTypeOK
  <1>2. CASE CleanUp /\ Posting(<<Of("Failed")>>)
    BY <1>1, <1>2, EndingType DEF HandleHello, OfClient, TypeOK, ClientTypeOK
  <1>3. CASE Spoken(down, link) /\ Head(down[link]) = "hello"
    <2>1. down' = [down EXCEPT ![link] = Tail(@)] /\ up' = Written(up, link, "helloBack") /\ net' = net
      BY <1>3 DEF HandleHello
    <2>a. up \in [Conn -> Seq(ToServer)] /\ down \in [Conn -> Seq(ToClient)] /\ "helloBack" \in ToServer
      BY DEF TypeOK, WireTypeOK, ToServer
    <2>b. up' \in [Conn -> Seq(ToServer)]
      BY <1>1, <2>1, <2>a, WrittenType
    <2>c. down' \in [Conn -> Seq(ToClient)]
      BY <1>1, <1>3, <2>1, <2>a, ReadType DEF Spoken
    <2>2. WireTypeOK'
      BY <2>1, <2>b, <2>c DEF TypeOK, WireTypeOK
    <2>3. Head(queue) \in Event /\ <<Head(queue)>> \in Seq(Event) /\ <<>> \in Seq(Event)
      BY <1>1, TakeType, OneType
    <2>4. queue' \in Seq(Event)
      BY <1>1, <1>3, <2>3, PostingType DEF HandleHello
    <2> QED
      BY <1>1, <1>3, <2>2, <2>4 DEF HandleHello, TypeOK, ClientTypeOK, Steps, list, target
  <1> QED
    BY <1>2, <1>3 DEF HandleHello

LEMMA DataType ==
  ASSUME TypeOK, Attached, HandleData
  PROVE  ClientTypeOK' /\ WireTypeOK'
  <1>1. queue # <<>> /\ queue \in Seq(Event) /\ link \in Conn /\ <<>> \in Seq(Event)
    <2>1. queue # <<>> /\ link # None
      BY DEF HandleData, Dispatching, Attached
    <2> QED
      BY <2>1, NoneType DEF TypeOK, ClientTypeOK
  <1>2. CASE ~Spoken(down, link)
    <2>1. Posting(<<>>) /\ UNCHANGED <<stage, up, down>>
      BY <1>2 DEF HandleData
    <2> QED
      BY <1>1, <2>1, KeepingType DEF HandleData, SessionOK, TypeOK, ClientTypeOK, wire, list, target
  <1>3. CASE Spoken(down, link)
    <2> DEFINE msg == Head(down[link])
    <2>1. /\ down' = [down EXCEPT ![link] = Tail(@)]
          /\ up' = IF Reply(msg) = "" THEN up ELSE Written(up, link, Reply(msg))
          /\ stage' = IF msg = "setOptions" THEN "ready" ELSE stage
          /\ Posting(Asked(msg)) \/ queue' = queue \o Asked(msg)
      BY <1>3 DEF HandleData
    <2>2. Reply(msg) = "" \/ Reply(msg) \in ToServer
      BY DEF Reply, ToServer
    <2>3. up' \in [Conn -> Seq(ToServer)]
      BY <1>1, <2>1, <2>2, WrittenType DEF TypeOK, WireTypeOK
    <2>4. down' \in [Conn -> Seq(ToClient)]
      BY <1>1, <1>3, <2>1, ReadType DEF TypeOK, WireTypeOK, Spoken
    <2>5. Asked(msg) \in Seq(Event)
      <3>1. <<On("hangUp", link)>> \in Seq(Event) /\ <<On("refuse", link)>> \in Seq(Event)
        BY <1>1, Events, OneType DEF OfStream
      <3>2. <<Of("Connected")>> \in Seq(Event)
        BY Events, OneType DEF OfClient
      <3> QED
        BY <1>1, <3>1, <3>2 DEF Asked
    <2>6. queue' \in Seq(Event)
      <3>1. CASE Posting(Asked(msg))
        BY <1>1, <2>5, <3>1, PostingType
      <3>2. CASE queue' = queue \o Asked(msg)
        BY <1>1, <2>5, <3>2, ConcatProperties
      <3> QED
        BY <2>1, <3>1, <3>2
    <2> QED
      BY <1>1, <2>1, <2>3, <2>4, <2>6
         DEF HandleData, TypeOK, ClientTypeOK, WireTypeOK, Steps, list, target
  <1> QED
    BY <1>2, <1>3

LEMMA ClientLoopType ==
  ASSUME TypeOK, Attached, ClientLoop
  PROVE  ClientTypeOK' /\ WireTypeOK'
  <1> USE NoneType
  <1>1. ASSUME queue # <<>>, Posting(<<>>), UNCHANGED <<app, screen, session, target, wire>>,
               suspended' \in BOOLEAN, connectOnResume' \in BOOLEAN, restarts' \in Nat,
               server' \in Servers, address' \in Nat
        PROVE  ClientTypeOK' /\ WireTypeOK'
    <2>1. SessionOK'
      BY <1>1 DEF SessionOK, session, TypeOK, ClientTypeOK
    <2> QED
      BY <1>1, <2>1, KeepingType
  <1>2. CASE IgnoreEvent
    BY <1>1, <1>2 DEF IgnoreEvent, TypeOK, ClientTypeOK, list
  <1>3. CASE HandleConnected
    <2>1. queue # <<>> /\ SessionOK'
      BY <1>3 DEF HandleConnected, Dispatching, SessionOK, TypeOK, ClientTypeOK, Steps
    <2> QED
      BY <1>3, <2>1, KeepingType DEF HandleConnected, TypeOK, ClientTypeOK, list
  <1>4. CASE HandleConnectionFailed
    BY <1>4, EndingType DEF HandleConnectionFailed, Dispatching, OfClient, TypeOK, ClientTypeOK
  <1>5. CASE HandleDisconnected
    BY <1>5, EndingType DEF HandleDisconnected, Dispatching, OfClient, TypeOK, ClientTypeOK
  <1>6. CASE HandleDisconnectRequested
    <2>1. \E t \in OfClient : Posting(<<Of(t)>>)
      BY <1>6 DEF HandleDisconnectRequested, OfClient
    <2> QED
      BY <1>6, <2>1, EndingType DEF HandleDisconnectRequested, Dispatching
  <1>7. CASE HandleSuspend
    <2>1. CASE suspended
      BY <1>1, <1>7, <2>1 DEF HandleSuspend, Dispatching, TypeOK, ClientTypeOK, list
    <2>2. CASE ~suspended
      <3>1. CleanUp /\ Posting(<<Of("Disconnected")>>) /\ suspended' = TRUE /\ connectOnResume' \in BOOLEAN
        BY <1>7, <2>2 DEF HandleSuspend
      <3>2. queue' \in Seq(Event)
        BY <1>7, <3>1, PostingType, Events, OneType
           DEF HandleSuspend, Dispatching, OfClient, TypeOK, ClientTypeOK
      <3> QED
        BY <1>7, <3>1, <3>2, CleanUpType
           DEF HandleSuspend, SessionOK, TypeOK, ClientTypeOK, list, target
    <2> QED
      BY <2>1, <2>2
  <1>8. CASE HandleClientConnected
    BY <1>1, <1>8, ServerCount DEF HandleClientConnected, Dispatching, TypeOK, ClientTypeOK
  <1>9. CASE HandleClientFailed
    BY <1>1, <1>9, ServerCount
       DEF HandleClientFailed, ScheduleRestart, Dispatching, TypeOK, ClientTypeOK
  <1>10. CASE HandleClientRefused
    BY <1>1, <1>10 DEF HandleClientRefused, ScheduleRestart, Dispatching, TypeOK, ClientTypeOK, list
  <1>11. CASE HandleClientDisconnected
    BY <1>1, <1>11
       DEF HandleClientDisconnected, ScheduleRestart, Dispatching, TypeOK, ClientTypeOK, list
  <1> QED
    BY <1>2, <1>3, <1>4, <1>5, <1>6, <1>7, <1>8, <1>9, <1>10, <1>11, HelloType, DataType
       DEF ClientLoop

LEMMA StartClientType ==
  ASSUME TypeOK, NEW c \in Conn, NEW left \in Nat, StartClient(c, left) \/ ScreenFails(left),
         app' \in {"starting", "running", "exited"}, UNCHANGED <<suspended, list>>
  PROVE  ClientTypeOK' /\ WireTypeOK'
  <1>1. CASE UNCHANGED <<screen, session, connectOnResume, target, queue, wire>> /\ restarts' \in Nat
    BY <1>1 DEF TypeOK, ClientTypeOK, WireTypeOK, session, target, wire, list
  <1>2. ASSUME NEW posted \in {<<>>, <<Of("Failed")>>},
               screen' = TRUE, aim' = server, restarts' = left, queue' = queue \o posted,
               IF suspended
               THEN /\ posted = <<>> /\ connectOnResume' = (link = None \/ connectOnResume)
                    /\ UNCHANGED <<session, resolved, wire>>
               ELSE Connect(c, server, address, posted) /\ UNCHANGED connectOnResume
        PROVE  ClientTypeOK' /\ WireTypeOK'
    <2>1. queue' \in Seq(Event)
      <3>1. posted \in Seq(Event)
        BY Events, OneType, NoneType DEF OfClient
      <3> QED
        BY <1>2, <3>1, ConcatProperties DEF TypeOK, ClientTypeOK
    <2>2. WireTypeOK' /\ SessionOK' /\ resolved' \in Nat
      <3>1. CASE suspended
        BY <1>2, <3>1 DEF TypeOK, ClientTypeOK, WireTypeOK, SessionOK, session, wire
      <3>2. CASE ~suspended
        BY <1>2, <3>2, ConnectType DEF TypeOK, ClientTypeOK
      <3> QED
        BY <3>1, <3>2
    <2>3. connectOnResume' \in BOOLEAN
      BY <1>2 DEF TypeOK, ClientTypeOK
    <2> QED
      BY <1>2, <2>1, <2>2, <2>3 DEF TypeOK, ClientTypeOK, SessionOK, list
  <1>3. left + 1 \in Nat
    OBVIOUS
  <1> QED
    BY <1>1, <1>2, <1>3 DEF StartClient, ScreenFails

LEMMA StartsType ==
  ASSUME TypeOK, Starts \/ Restarts
  PROVE  ClientTypeOK' /\ WireTypeOK'
  <1>1. CASE Starts
    <2>1. PICK c \in Conn : StartNode(c)
      BY <1>1 DEF Starts
    <2>2. restarts \in Nat
      BY DEF TypeOK, ClientTypeOK
    <2> QED
      BY <2>1, <2>2, StartClientType DEF StartNode
  <1>2. CASE Restarts
    <2>1. PICK c \in Conn : HandleClientRestart(c)
      BY <1>2 DEF Restarts
    <2>2. restarts - 1 \in Nat /\ app \in {"starting", "running", "exited"}
      BY <2>1 DEF HandleClientRestart, TypeOK, ClientTypeOK
    <2> QED
      BY <2>1, <2>2, StartClientType DEF HandleClientRestart
  <1> QED
    BY <1>1, <1>2

LEMMA ResumesType ==
  ASSUME TypeOK, Resumes
  PROVE  ClientTypeOK' /\ WireTypeOK'
  <1>1. PICK c \in Conn : HandleResume(c)
    BY DEF Resumes
  <1>2. queue # <<>>
    BY <1>1 DEF HandleResume, Dispatching
  <1>3. CASE suspended /\ connectOnResume
    <2>1. PICK posted \in {<<>>, <<Of("Failed")>>} : Connect(c, aim, 0, posted) /\ Posting(posted)
      BY <1>1, <1>3 DEF HandleResume
    <2>2. WireTypeOK' /\ SessionOK' /\ resolved' \in Nat
      BY <2>1, ConnectType DEF TypeOK, ClientTypeOK
    <2>3. posted \in Seq(Event)
      BY Events, OneType, NoneType DEF OfClient
    <2>4. queue' \in Seq(Event)
      BY <1>2, <2>1, <2>3, PostingType DEF TypeOK, ClientTypeOK
    <2> QED
      BY <1>1, <1>3, <2>2, <2>4 DEF HandleResume, SessionOK, TypeOK, ClientTypeOK, list
  <1>4. CASE ~(suspended /\ connectOnResume)
    <2>1. queue' \in Seq(Event)
      BY <1>1, <1>2, <1>4, NoneType, PostingType DEF HandleResume, TypeOK, ClientTypeOK
    <2> QED
      BY <1>1, <1>4, <2>1 DEF HandleResume, TypeOK, ClientTypeOK, WireTypeOK, session, wire, list
  <1> QED
    BY <1>3, <1>4

LEMMA ClientTimersType ==
  ASSUME TypeOK, Attached, ConnectTimesOut \/ ServerIsDead
  PROVE  ClientTypeOK' /\ WireTypeOK'
  <1>1. CASE ConnectTimesOut
    <2>1. queue' \in Seq(Event)
      BY <1>1, Events, OneType DEF ConnectTimesOut, HandleConnectTimeout, OfClient
    <2> QED
      BY <1>1, <2>1, CleanUpType
         DEF ConnectTimesOut, HandleConnectTimeout, SessionOK, TypeOK, ClientTypeOK, list, target
  <1>2. CASE ServerIsDead
    <2>1. link \in Conn
      BY <1>2 DEF ServerIsDead, HandleKeepAliveAlarm, Attached, TypeOK, ClientTypeOK
    <2>2. queue' \in Seq(Event)
      BY <1>2, <2>1, Events, OneType DEF ServerIsDead, HandleKeepAliveAlarm, OfStream
    <2> QED
      BY <1>2, <2>2 DEF ServerIsDead, HandleKeepAliveAlarm, TypeOK, ClientTypeOK, WireTypeOK,
                        list, target, wire
  <1> QED
    BY <1>1, <1>2

-----------------------------------------------------------------------------
(* The server.                                                              *)

LEMMA CloseStreamType ==
  ASSUME TypeOK, NEW c \in Conn, CloseStream(c, down), net' = net
  PROVE  WireTypeOK'
  <1>1. up \in [Conn -> Seq(ToServer)] /\ down \in [Conn -> Seq(ToClient)] /\ "eof" \in ToClient
    BY DEF TypeOK, WireTypeOK, ToClient
  <1>2. up' \in [Conn -> Seq(ToServer)] /\ down' \in [Conn -> Seq(ToClient)]
    BY <1>1, WrittenType, LostType DEF CloseStream
  <1> QED
    BY <1>2 DEF TypeOK, WireTypeOK

LEMMA SaidType ==
  ASSUME TypeOK, NEW c \in Conn, NEW m \in ToClient, down' = Written(down, c, m), UNCHANGED <<net, up>>
  PROVE  WireTypeOK'
  <1>1. down' \in [Conn -> Seq(ToClient)]
    BY WrittenType DEF TypeOK, WireTypeOK
  <1> QED
    BY <1>1 DEF TypeOK, WireTypeOK

(* A notice is taken, and at most one raised.                               *)
LEMMA NoticesType ==
  ASSUME TypeOK, events # <<>>
  PROVE  /\ Raising(<<>>) => events' \in Seq(AnyNotice)
         /\ \A n \in AnyNotice : Raising(<<n>>) => events' \in Seq(AnyNotice)
         /\ Tail(events) \in Seq(AnyNotice)
  <1>1. events \in Seq(AnyNotice)
    BY DEF TypeOK, ListenerTypeOK, AnyNotice
  <1>2. Raising(<<>>) => events' \in Seq(AnyNotice)
    BY <1>1, NoneType, RaisingType
  <1>3. ASSUME NEW n \in AnyNotice, Raising(<<n>>)
        PROVE  events' \in Seq(AnyNotice)
    BY <1>1, <1>3, OneType, RaisingType
  <1> QED
    BY <1>1, <1>2, <1>3, TakeType

LEMMA SendFailureType ==
  ASSUME TypeOK, NEW c \in Conn, NEW others \in Seq(AnyNotice), SendFailure(c, others)
  PROVE  ListenerTypeOK'
  <1>1. events' \in Seq(AnyNotice)
    BY Noticed, AppendProperties DEF SendFailure, Notices
  <1> QED
    BY <1>1 DEF SendFailure, DeleteProxy, TypeOK, ListenerTypeOK, AnyNotice, owners

LEMMA DisconnectType ==
  ASSUME TypeOK, NEW c \in Conn, NEW others \in Seq(AnyNotice), Disconnect(c, others)
  PROVE  ListenerTypeOK' /\ WireTypeOK'
  <1>1. events' \in Seq(AnyNotice)
    BY Noticed, AppendProperties DEF Disconnect, Notices
  <1> QED
    BY <1>1, CloseStreamType DEF Disconnect, TypeOK, ListenerTypeOK, AnyNotice, owners, objects

LEMMA UnknownType ==
  ASSUME TypeOK, NEW c \in Conn,
         \/ HandleClientConnecting(c) \/ HandleClientAccepted(c) \/ DisconnectedOnAccept(c)
         \/ HandleHelloBack(c) \/ HandleUnknownGone(c) \/ HandleReady(c) \/ HandleProxyLost(c)
         \/ HandleUnknownTimeout(c)
  PROVE  ListenerTypeOK' /\ WireTypeOK'
  <1> USE DEF TypeOK, AnyNotice
  <1>1. CASE HandleClientConnecting(c)
    BY <1>1 DEF HandleClientConnecting, ListenerTypeOK, WireTypeOK, Stage, proxy, owners
  <1>2. CASE HandleClientAccepted(c)
    <2>1. events' \in Seq(AnyNotice)
      BY <1>2, NoticesType DEF HandleClientAccepted, Noticing
    <2>2. WireTypeOK'
      BY <1>2, SaidType DEF HandleClientAccepted, ToClient
    <2> QED
      BY <1>2, <2>1, <2>2 DEF HandleClientAccepted, ListenerTypeOK, proxy, owners
  <1>3. CASE DisconnectedOnAccept(c)
    <2>1. events' \in Seq(AnyNotice)
      BY <1>3, NoticesType DEF DisconnectedOnAccept, Noticing
    <2> QED
      BY <1>3, <2>1 DEF DisconnectedOnAccept, ListenerTypeOK, WireTypeOK, proxy, owners, wire
  <1>4. CASE HandleHelloBack(c)
    <2>1. CASE SendFailure(c, Tail(events)) /\ UNCHANGED <<up, down>>
      BY <1>4, <2>1, NoticesType, SendFailureType DEF HandleHelloBack, Noticing, WireTypeOK
    <2>2. CASE Spoken(up, c) /\ Head(up[c]) = "helloBack"
      <3>1. events' \in Seq(AnyNotice)
        BY <1>4, <2>2, NoticesType DEF HandleHelloBack, Noticing
      <3>2. up \in [Conn -> Seq(ToServer)] /\ down \in [Conn -> Seq(ToClient)] /\ "queryInfo" \in ToClient
        BY DEF WireTypeOK, ToClient
      <3>3. up' = [up EXCEPT ![c] = Tail(@)] /\ down' = Written(down, c, "queryInfo") /\ net' = net
        BY <1>4, <2>2 DEF HandleHelloBack
      <3>4. up' \in [Conn -> Seq(ToServer)]
        BY <2>2, <3>2, <3>3, ReadType DEF Spoken
      <3>5. down' \in [Conn -> Seq(ToClient)]
        BY <3>2, <3>3, WrittenType
      <3> QED
        BY <1>4, <2>2, <3>1, <3>3, <3>4, <3>5 DEF HandleHelloBack, ListenerTypeOK, WireTypeOK, owners
    <2> QED
      BY <1>4, <2>1, <2>2 DEF HandleHelloBack
  <1>5. CASE HandleUnknownGone(c) \/ HandleProxyLost(c)
    BY <1>5, NoticesType, SendFailureType
       DEF HandleUnknownGone, HandleProxyLost, Noticing, WireTypeOK, wire
  <1>6. CASE HandleReady(c)
    <2>1. events' \in Seq(AnyNotice)
      BY <1>6, NoticesType, Noticed DEF HandleReady, Noticing, Notices
    <2> QED
      BY <1>6, <2>1 DEF HandleReady, ListenerTypeOK, WireTypeOK, proxy, owners, wire
  <1>7. CASE HandleUnknownTimeout(c)
    BY <1>7, SendFailureType DEF HandleUnknownTimeout, ListenerTypeOK, WireTypeOK, wire
  <1> QED
    BY <1>1, <1>2, <1>3, <1>4, <1>5, <1>6, <1>7

LEMMA WaitingType ==
  ASSUME waiting \in Seq(Conn)
  PROVE  /\ \A c \in Conn : Append(waiting, c) \in Seq(Conn)
         /\ \A i \in 1..Len(waiting) :
              SubSeq(waiting, 1, i - 1) \o SubSeq(waiting, i + 1, Len(waiting)) \in Seq(Conn)
         /\ waiting # <<>> => Head(waiting) \in Conn /\ Tail(waiting) \in Seq(Conn)
  <1>1. \A c \in Conn : Append(waiting, c) \in Seq(Conn)
    BY AppendProperties
  <1>2. ASSUME NEW i \in 1..Len(waiting)
        PROVE  SubSeq(waiting, 1, i - 1) \o SubSeq(waiting, i + 1, Len(waiting)) \in Seq(Conn)
    <2>1. SubSeq(waiting, 1, i - 1) \in Seq(Conn)
      BY SubSeqProperties
    <2>2. SubSeq(waiting, i + 1, Len(waiting)) \in Seq(Conn)
      BY SubSeqProperties
    <2> QED
      BY <2>1, <2>2, ConcatProperties
  <1> QED
    BY <1>1, <1>2, TakeType

LEMMA ListenerDoneType ==
  ASSUME TypeOK, NEW c \in Conn,
         HandleUnknownClient(c) \/ HandleUnknownFailure(c) \/ HandleWaitingDisconnected(c)
  PROVE  ListenerTypeOK' /\ WireTypeOK'
  <1> USE DEF TypeOK, AnyNotice
  <1>1. CASE HandleUnknownClient(c)
    <2>1. WireTypeOK'
      BY <1>1, CloseStreamType DEF HandleUnknownClient, WireTypeOK
    <2>2. Announced \in AnyNotice /\ waiting \in Seq(Conn)
      BY DEF ListenerTypeOK
    <2>3. events' \in Seq(AnyNotice)
      BY <1>1, <2>2, NoticesType DEF HandleUnknownClient, Noticing
    <2>4. waiting' \in Seq(Conn)
      BY <1>1, <2>2, WaitingType DEF HandleUnknownClient
    <2> QED
      BY <1>1, <2>1, <2>3, <2>4
         DEF HandleUnknownClient, RemoveUnknownClient, ListenerTypeOK, proxy
  <1>2. CASE HandleUnknownFailure(c)
    <2>1. WireTypeOK'
      BY <1>2, CloseStreamType DEF HandleUnknownFailure, WireTypeOK
    <2>2. events' \in Seq(AnyNotice)
      BY <1>2, NoticesType DEF HandleUnknownFailure, Noticing
    <2> QED
      BY <1>2, <2>1, <2>2
         DEF HandleUnknownFailure, RemoveUnknownClient, ListenerTypeOK, proxy, owners
  <1>3. CASE HandleWaitingDisconnected(c)
    <2>1. events' \in Seq(AnyNotice)
      BY <1>3, NoticesType DEF HandleWaitingDisconnected, Noticing
    <2>2. waiting \in Seq(Conn)
      BY DEF ListenerTypeOK
    <2>3. PICK i \in 1..Len(waiting) :
            waiting' = SubSeq(waiting, 1, i - 1) \o SubSeq(waiting, i + 1, Len(waiting))
      BY <1>3 DEF HandleWaitingDisconnected
    <2>4. waiting' \in Seq(Conn)
      BY <2>2, <2>3, WaitingType
    <2>5. /\ DeleteProxy(c) /\ crashed' = TRUE
          /\ UNCHANGED <<objects, serving, closing, wire>>
      BY <1>3 DEF HandleWaitingDisconnected
    <2> QED
      BY <2>1, <2>4, <2>5 DEF DeleteProxy, ListenerTypeOK, WireTypeOK, objects, wire
  <1> QED
    BY <1>1, <1>2, <1>3

LEMMA ProxyType ==
  ASSUME TypeOK, NEW c \in Conn, HandleProxyData(c) \/ HandleProxyGone(c) \/ HandleFlatline(c)
  PROVE  ListenerTypeOK' /\ WireTypeOK'
  <1> USE DEF TypeOK, AnyNotice
  <1>1. CASE HandleProxyData(c)
    <2>1. up \in [Conn -> Seq(ToServer)] /\ down \in [Conn -> Seq(ToClient)] /\ "infoAck" \in ToClient
      BY DEF WireTypeOK, ToClient
    <2>2. \/ up' = up
          \/ up[c] # <<>> /\ up' = [up EXCEPT ![c] = Tail(@)]
      BY <1>1 DEF HandleProxyData, Spoken
    <2>3. up' \in [Conn -> Seq(ToServer)]
      BY <2>1, <2>2, WireRead
    <2>4. down' = down \/ down' = Written(down, c, "infoAck")
      BY <1>1 DEF HandleProxyData
    <2>5. down' \in [Conn -> Seq(ToClient)]
      BY <2>1, <2>4, WrittenType
    <2>6. Notice("ready", c) \in AnyNotice
      BY Noticed DEF Notices
    <2>7. Raising(<<>>) \/ Raising(<<Notice("ready", c)>>)
      BY <1>1 DEF HandleProxyData
    <2>8. events' \in Seq(AnyNotice)
      BY <1>1, <2>6, <2>7, NoticesType DEF HandleProxyData, Noticing
    <2> QED
      BY <1>1, <2>3, <2>5, <2>8 DEF HandleProxyData, ListenerTypeOK, WireTypeOK, objects, owners
  <1>2. CASE HandleProxyGone(c)
    BY <1>2, NoticesType, DisconnectType DEF HandleProxyGone, Noticing
  <1>3. CASE HandleFlatline(c)
    BY <1>3, DisconnectType DEF HandleFlatline, ListenerTypeOK
  <1> QED
    BY <1>1, <1>2, <1>3

LEMMA ServerType ==
  ASSUME TypeOK,
         \/ AdoptClient \/ CloseClients \/ IgnoreNotice
         \/ \E c \in Conn : ClientDisconnected(c) \/ ClientCloseTimeout(c)
  PROVE  ListenerTypeOK' /\ WireTypeOK'
  <1> USE DEF TypeOK, AnyNotice
  <1>1. CASE AdoptClient
    <2>1. events' \in Seq(AnyNotice)
      BY <1>1, NoticesType DEF AdoptClient, Noticing
    <2>2. CASE waiting = <<>>
      BY <1>1, <2>1, <2>2 DEF AdoptClient, ListenerTypeOK, WireTypeOK, objects, proxy, owners
    <2>3. CASE waiting # <<>>
      <3> DEFINE c == Head(waiting)
      <3>1. c \in Conn /\ Tail(waiting) \in Seq(Conn)
        BY <2>3, WaitingType DEF ListenerTypeOK
      <3>2. down' = Written(down, c, "setOptions") \/ down' = Written(down, c, "busy")
        BY <1>1, <2>3 DEF AdoptClient
      <3>3. WireTypeOK'
        BY <1>1, <3>1, <3>2, SaidType DEF AdoptClient, ToClient
      <3> QED
        BY <1>1, <2>1, <2>3, <3>1, <3>3 DEF AdoptClient, ListenerTypeOK, objects, proxy
    <2> QED
      BY <2>2, <2>3
  <1>2. CASE CloseClients
    <2>1. serving \in Conn
      BY <1>2 DEF CloseClients, ListenerTypeOK
    <2>2. WireTypeOK'
      BY <1>2, <2>1, SaidType DEF CloseClients, ToClient
    <2> QED
      BY <1>2, <2>1, <2>2 DEF CloseClients, ListenerTypeOK, objects, proxy
  <1>3. CASE IgnoreNotice
    <2>1. events' \in Seq(AnyNotice)
      BY <1>3, NoticesType DEF IgnoreNotice
    <2> QED
      BY <1>3, <2>1 DEF IgnoreNotice, ListenerTypeOK, WireTypeOK, objects, proxy, owners, wire
  <1>4. ASSUME NEW c \in Conn, ClientDisconnected(c) PROVE ListenerTypeOK' /\ WireTypeOK'
    <2>1. events' \in Seq(AnyNotice)
      BY <1>4, NoticesType DEF ClientDisconnected, Noticing
    <2> QED
      BY <1>4, <2>1 DEF ClientDisconnected, DeleteProxy, ListenerTypeOK, WireTypeOK, objects, wire
  <1>5. ASSUME NEW c \in Conn, ClientCloseTimeout(c) PROVE ListenerTypeOK' /\ WireTypeOK'
    BY <1>5 DEF ClientCloseTimeout, DeleteProxy, ListenerTypeOK, WireTypeOK, objects, wire
  <1> QED
    BY <1>1, <1>2, <1>3, <1>4, <1>5

-----------------------------------------------------------------------------
(* The network.                                                             *)

LEMMA QueuedType ==
  ASSUME TypeOK, NEW es \in Seq(Event), Queued(es)
  PROVE  ClientTypeOK'
  <1>1. queue' \in Seq(Event)
    BY ConcatProperties DEF Queued, TypeOK, ClientTypeOK
  <1> QED
    BY <1>1 DEF Queued, TypeOK, ClientTypeOK, session, list, target

LEMMA RaisedType ==
  ASSUME TypeOK, NEW es \in Seq(AnyNotice), Raised(es)
  PROVE  ListenerTypeOK'
  <1>1. events' \in Seq(AnyNotice)
    BY ConcatProperties DEF Raised, TypeOK, ListenerTypeOK, AnyNotice
  <1> QED
    BY <1>1 DEF Raised, TypeOK, ListenerTypeOK, AnyNotice, objects, proxy, owners

LEMMA EndsType ==
  ASSUME NEW c \in Conn
  PROVE  /\ \A es \in Gone(c) : es \in Seq(Event)
         /\ Ends(c) \in Seq(AnyNotice)
  <1>1. On("gone", c) \in Event /\ Notice("gone", c) \in AnyNotice
    BY Events, Noticed DEF OfStream, Notices
  <1> QED
    BY <1>1, OneType, NoneType DEF Gone, Ends

LEMMA NetworkType ==
  ASSUME TypeOK, NEW c \in Conn,
         \/ Opens(c) \/ HandshakeFails(c) \/ DialFails(c)
         \/ ReachesClient(c) \/ ReachesServer(c) \/ Cuts(c)
  PROVE  ClientTypeOK' /\ ListenerTypeOK' /\ WireTypeOK'
  <1> USE DEF TypeOK
  <1>a. /\ \A t \in OfStream : <<On(t, c)>> \in Seq(Event)
        /\ \A k \in Notices : <<Notice(k, c)>> \in Seq(AnyNotice)
    BY Events, Noticed, OneType
  <1>b. up \in [Conn -> Seq(ToServer)] /\ down \in [Conn -> Seq(ToClient)] /\ net \in [Conn -> Stage]
    BY DEF WireTypeOK
  <1>c. UNCHANGED client => ClientTypeOK'
    BY DEF ClientTypeOK, client, session, list, target
  <1>d. UNCHANGED listener => ListenerTypeOK'
    BY DEF ListenerTypeOK, listener, objects, proxy, owners
  <1>1. CASE Opens(c)
    <2>1. ClientTypeOK' /\ ListenerTypeOK'
      BY <1>1, <1>a, QueuedType, RaisedType DEF Opens, OfStream, Notices
    <2> QED
      BY <1>1, <1>b, <2>1 DEF Opens, WireTypeOK, Stage
  <1>2. CASE HandshakeFails(c)
    <2>1. <<Notice("acceptFailed", c)>> \in Seq(AnyNotice)
      BY <1>a DEF Notices
    <2>2. \A es \in Gone(c) : IfMine(c, es) \in Seq(Event)
      BY EndsType, NoneType DEF IfMine
    <2>3. ClientTypeOK' /\ ListenerTypeOK'
      BY <1>2, <2>1, <2>2, QueuedType, RaisedType DEF HandshakeFails
    <2> QED
      BY <1>2, <1>b, <2>3 DEF HandshakeFails, WireTypeOK, Stage
  <1>3. CASE DialFails(c)
    <2>1. ClientTypeOK'
      BY <1>3, <1>a, QueuedType DEF DialFails, OfStream
    <2> QED
      BY <1>3, <1>b, <1>d, <2>1 DEF DialFails, WireTypeOK, Stage
  <1>4. CASE ReachesClient(c)
    <2>1. ClientTypeOK'
      BY <1>4, <1>a, QueuedType, EndsType DEF ReachesClient, OfStream
    <2>a. \/ down' = down
          \/ down[c] # <<>> /\ down' = [down EXCEPT ![c] = Tail(@)]
      BY <1>4 DEF ReachesClient, Ended
    <2>2. down' \in [Conn -> Seq(ToClient)]
      BY <1>b, <2>a, WireRead
    <2> QED
      BY <1>4, <1>b, <1>d, <2>1, <2>2 DEF ReachesClient, WireTypeOK
  <1>5. CASE ReachesServer(c)
    <2>1. ListenerTypeOK'
      BY <1>5, <1>a, RaisedType DEF ReachesServer, Notices
    <2>a. \/ up' = up
          \/ up[c] # <<>> /\ up' = [up EXCEPT ![c] = Tail(@)]
      BY <1>5 DEF ReachesServer, Ended
    <2>2. up' \in [Conn -> Seq(ToServer)]
      BY <1>b, <2>a, WireRead
    <2> QED
      BY <1>5, <1>b, <1>c, <2>1, <2>2 DEF ReachesServer, WireTypeOK
  <1>6. CASE Cuts(c)
    <2>1. ClientTypeOK' /\ ListenerTypeOK'
      BY <1>6, <1>c, <1>d, QueuedType, RaisedType, EndsType DEF Cuts
    <2>2. up' \in [Conn -> Seq(ToServer)] /\ down' \in [Conn -> Seq(ToClient)]
      BY <1>6, <1>b, LostType DEF Cuts
    <2> QED
      BY <1>6, <1>b, <2>1, <2>2 DEF Cuts, WireTypeOK, Stage
  <1> QED
    BY <1>1, <1>2, <1>3, <1>4, <1>5, <1>6

-----------------------------------------------------------------------------
(* What is inductive: types, a client without connection has no timer, and   *)
(* the one with a connection is watched by the means of its stage.           *)

Watch ==
  /\ Attached
  /\ link # None => stage # "idle"
  /\ stage \in {"dialing", "greeting"} => timer
  /\ stage \in {"joining", "ready"} => alarm \/ DropPending

Inv == TypeOK /\ Watch /\ NeverStranded

LEMMA WatchIsEnough == TypeOK /\ Watch => Watched
  BY DEF TypeOK, ClientTypeOK, Watch, Watched, Steps

LEMMA InvInit == Init => Inv
  <1> SUFFICES ASSUME Init PROVE Inv
    OBVIOUS
  <1> USE DEF Init, ClientInit, ListenerInit, WireInit
  <1>1. ClientTypeOK
    BY ServerCount, NoneType DEF ClientTypeOK, Steps
  <1>2. ListenerTypeOK
    BY NoneType DEF ListenerTypeOK
  <1>3. WireTypeOK
    BY NoneType DEF WireTypeOK, Stage
  <1>4. faults \in 0..MaxFaults
    BY FaultAssumption
  <1> QED
    BY <1>1, <1>2, <1>3, <1>4 DEF Inv, TypeOK, Watch, Attached, NeverStranded

LEMMA FaultsType ==
  ASSUME TypeOK, Calm \/ Faulty
  PROVE  faults' \in 0..MaxFaults
  BY FaultAssumption DEF Calm, Faulty, TypeOK

LEMMA TypeNext ==
  ASSUME TypeOK, Attached, [Next]_vars
  PROVE  TypeOK'
  <1> USE DEF TypeOK, Perhaps
  <1>c. UNCHANGED client => ClientTypeOK'
    BY DEF ClientTypeOK, client, session, list, target
  <1>l. UNCHANGED listener => ListenerTypeOK'
    BY DEF ListenerTypeOK, listener, objects, proxy, owners
  <1>w. UNCHANGED wire => WireTypeOK'
    BY DEF WireTypeOK, wire
  <1>1. CASE Starts \/ Restarts
    <2>1. UNCHANGED listener /\ (Calm \/ Faulty)
      BY <1>1 DEF Starts, Restarts
    <2> QED
      BY <1>1, <1>l, <2>1, StartsType, FaultsType
  <1>2. CASE Resumes
    <2>1. UNCHANGED listener /\ (Calm \/ Faulty)
      BY <1>2 DEF Resumes
    <2> QED
      BY <1>2, <1>l, <2>1, ResumesType, FaultsType
  <1>3. CASE ClientLoop
    <2>1. UNCHANGED listener /\ Calm
      BY <1>3 DEF ClientLoop
    <2> QED
      BY <1>3, <1>l, <2>1, ClientLoopType, FaultsType
  <1>4. CASE ConnectTimesOut \/ ServerIsDead
    <2>1. UNCHANGED listener /\ (Calm \/ Faulty)
      BY <1>4 DEF ConnectTimesOut, ServerIsDead
    <2> QED
      BY <1>4, <1>l, <2>1, ClientTimersType, FaultsType
  <1>5. CASE ServerLoop
    <2>1. UNCHANGED client /\ Calm
      BY <1>5 DEF ServerLoop
    <2> QED
      BY <1>5, <1>c, <2>1, UnknownType, ListenerDoneType, ProxyType, ServerType, FaultsType
         DEF ServerLoop
  <1>6. CASE Drops
    BY <1>6, <1>c, ServerType, FaultsType DEF Drops
  <1>7. CASE Power
    <2>1. \E es \in Seq(Event) : Queued(es)
      BY <1>7, Events, OneType DEF Power, OfClient
    <2>2. UNCHANGED <<listener, wire>> /\ (Calm \/ Faulty)
      BY <1>7 DEF Power
    <2> QED
      BY <1>l, <1>w, <2>1, <2>2, QueuedType, FaultsType
  <1>8. ASSUME NEW c \in Conn,
               \/ Opens(c) \/ HandshakeFails(c) \/ DialFails(c)
               \/ ReachesClient(c) \/ ReachesServer(c) \/ Cuts(c)
        PROVE  TypeOK'
    <2>1. Calm \/ Faulty
      BY <1>8 DEF Opens, HandshakeFails, DialFails, ReachesClient, ReachesServer, Cuts
    <2> QED
      BY <1>8, <2>1, NetworkType, FaultsType
  <1>9. ASSUME NEW c \in Conn, ServerTimer(c)
        PROVE  TypeOK'
    <2>1. UNCHANGED client /\ (Calm \/ Faulty)
      BY <1>9 DEF ServerTimer
    <2> QED
      BY <1>9, <1>c, <2>1, UnknownType, ProxyType, ServerType, FaultsType DEF ServerTimer
  <1>10. CASE UNCHANGED vars
    BY <1>10, <1>c, <1>l, <1>w DEF vars
  <1> QED
    BY <1>1, <1>2, <1>3, <1>4, <1>5, <1>6, <1>7, <1>8, <1>9, <1>10 DEF Next

-----------------------------------------------------------------------------
(* What is pending in a queue stays pending when other events are taken.    *)

LEMMA StaysBehind ==
  ASSUME NEW T, NEW q \in Seq(T), NEW r \in Seq(T), NEW i \in 1..Len(q)
  PROVE  i \in 1..Len(q \o r) /\ (q \o r)[i] = q[i]
  BY ConcatProperties

LEMMA StaysAhead ==
  ASSUME NEW T, NEW q \in Seq(T), q # <<>>, NEW r \in Seq(T), NEW i \in 1..Len(q), q[i] # Head(q)
  PROVE  i - 1 \in 1..Len(Tail(q) \o r) /\ (Tail(q) \o r)[i - 1] = q[i]
  <1>1. Tail(q) \in Seq(T) /\ Len(Tail(q)) = Len(q) - 1 /\ \A j \in 1..Len(Tail(q)) : Tail(q)[j] = q[j + 1]
    BY HeadTailProperties
  <1>2. i # 1
    OBVIOUS
  <1>3. i - 1 \in 1..Len(Tail(q))
    BY <1>1, <1>2, LenProperties
  <1> QED
    BY <1>1, <1>3, StaysBehind

LEMMA Arrives ==
  ASSUME NEW T, NEW q \in Seq(T), NEW e \in T
  PROVE  Len(q) + 1 \in 1..Len(q \o <<e>>) /\ (q \o <<e>>)[Len(q) + 1] = e
  OBVIOUS

LEMMA DropKept ==
  ASSUME TypeOK, DropPending, link' = link, NEW es \in Seq(Event),
         \/ queue # <<>> /\ ~Drop(Head(queue)) /\ Posting(es)
         \/ queue' = queue \o es
         \/ queue' = queue
  PROVE  DropPending'
  <1>1. queue \in Seq(Event)
    BY DEF TypeOK, ClientTypeOK
  <1>2. PICK i \in 1..Len(queue) : Drop(queue[i])
    BY DEF DropPending
  <1>3. \E j \in 1..Len(queue') : queue'[j] = queue[i]
    <2>1. CASE queue # <<>> /\ ~Drop(Head(queue)) /\ Posting(es)
      <3>1. queue[i] # Head(queue)
        BY <1>2, <2>1
      <3>2. i - 1 \in 1..Len(queue') /\ queue'[i - 1] = queue[i]
        BY <1>1, <2>1, <3>1, StaysAhead DEF Posting
      <3> QED
        BY <3>2
    <2>2. CASE queue' = queue \o es
      BY <1>1, <2>2, StaysBehind
    <2>3. CASE queue' = queue
      BY <2>3
    <2> QED
      BY <2>1, <2>2, <2>3
  <1> QED
    BY <1>2, <1>3 DEF DropPending, Drop, Mine

LEMMA EndingKept ==
  ASSUME TypeOK, EndingPending, NEW es \in Seq(Event),
         \/ queue # <<>> /\ ~Ending(Head(queue)) /\ Posting(es)
         \/ queue' = queue \o es
         \/ queue' = queue
  PROVE  EndingPending'
  <1>1. queue \in Seq(Event)
    BY DEF TypeOK, ClientTypeOK
  <1>2. PICK i \in 1..Len(queue) : Ending(queue[i])
    BY DEF EndingPending
  <1>3. \E j \in 1..Len(queue') : queue'[j] = queue[i]
    <2>1. CASE queue # <<>> /\ ~Ending(Head(queue)) /\ Posting(es)
      <3>1. queue[i] # Head(queue)
        BY <1>2, <2>1
      <3>2. i - 1 \in 1..Len(queue') /\ queue'[i - 1] = queue[i]
        BY <1>1, <2>1, <3>1, StaysAhead DEF Posting
      <3> QED
        BY <3>2
    <2>2. CASE queue' = queue \o es
      BY <1>1, <2>2, StaysBehind
    <2>3. CASE queue' = queue
      BY <2>3
    <2> QED
      BY <2>1, <2>2, <2>3
  <1> QED
    BY <1>2, <1>3 DEF EndingPending, Ending

LEMMA EndingPosted ==
  ASSUME queue \in Seq(Event), NEW t \in {"Failed", "Refused", "Disconnected"},
         \/ queue # <<>> /\ Posting(<<Of(t)>>)
         \/ queue' = queue \o <<Of(t)>>
         \/ queue' = <<Of(t)>>
  PROVE  EndingPending'
  <1>1. Of(t) \in Event /\ Ending(Of(t))
    BY Events DEF OfClient, Ending, Of
  <1>2. \E j \in 1..Len(queue') : queue'[j] = Of(t)
    <2>1. CASE queue # <<>> /\ Posting(<<Of(t)>>)
      BY <1>1, <2>1, TakeType, Arrives DEF Posting
    <2>2. CASE queue' = queue \o <<Of(t)>>
      BY <1>1, <2>2, Arrives
    <2>3. CASE queue' = <<Of(t)>>
      BY <2>3
    <2> QED
      BY <2>1, <2>2, <2>3
  <1> QED
    BY <1>1, <1>2 DEF EndingPending, Ending

(* A client that has cleaned up, or dials, is watched as it should be.      *)
LEMMA CleanUpWatch == CleanUp => Watch'
  BY DEF CleanUp, Watch, Attached

LEMMA DialWatch ==
  ASSUME NEW c \in Conn, NEW at, Dial(c, at)
  PROVE  Watch'
  BY WireAssumption DEF Dial, Watch, Attached

LEMMA SameWatch ==
  ASSUME TypeOK, Watch, UNCHANGED session, NEW es \in Seq(Event),
         \/ queue # <<>> /\ ~Drop(Head(queue)) /\ Posting(es)
         \/ queue' = queue \o es
         \/ queue' = queue
  PROVE  Watch'
  <1>1. DropPending => DropPending'
    BY DropKept DEF session
  <1> QED
    BY <1>1 DEF Watch, Attached, session

LEMMA ConnectWatch ==
  ASSUME TypeOK, Watch, NEW c \in Conn, NEW srv, NEW i, NEW posted \in Seq(Event), Connect(c, srv, i, posted),
         \/ queue # <<>> /\ ~Drop(Head(queue)) /\ Posting(posted)
         \/ queue' = queue \o posted
  PROVE  Watch'
  <1>1. CASE UNCHANGED session
    BY <1>1, SameWatch
  <1>2. CASE Dial(c, AddressAt(srv, i))
    BY <1>2, DialWatch
  <1> QED
    BY <1>1, <1>2 DEF Connect

LEMMA StartClientWatch ==
  ASSUME TypeOK, Watch, NEW c \in Conn, NEW left, StartClient(c, left) \/ ScreenFails(left)
  PROVE  Watch'
  <1>1. CASE UNCHANGED <<screen, session, connectOnResume, target, queue, wire>>
    BY <1>1, NoneType, SameWatch
  <1>2. ASSUME NEW posted \in {<<>>, <<Of("Failed")>>}, queue' = queue \o posted,
               UNCHANGED session \/ Connect(c, server, address, posted)
        PROVE  Watch'
    <2>1. posted \in Seq(Event)
      BY Events, OneType, NoneType DEF OfClient
    <2> QED
      BY <1>2, <2>1, SameWatch, ConnectWatch
  <1> QED
    BY <1>1, <1>2 DEF StartClient, ScreenFails

(* A handler that takes an event it handles, and asks for nothing.          *)
LEMMA WatchLoop ==
  ASSUME TypeOK, Watch, ClientLoop
  PROVE  Watch'
  <1> USE NoneType
  <1>1. CASE IgnoreEvent
    <2>1. CASE Drop(Head(queue))
      <3>1. stage \in {"dialing", "idle"}
        BY <1>1, <2>1 DEF IgnoreEvent, Handled, Drop, TypeOK, ClientTypeOK, Steps
      <3> QED
        BY <1>1, <3>1 DEF IgnoreEvent, Watch, Attached, session
    <2>2. CASE ~Drop(Head(queue))
      BY <1>1, <2>2, SameWatch DEF IgnoreEvent
    <2> QED
      BY <2>1, <2>2
  <1>2. CASE HandleConnected
    BY <1>2 DEF HandleConnected, Dispatching, Handled, Watch, Attached
  <1>3. CASE HandleHello
    <2>1. CASE CleanUp
      BY <2>1, CleanUpWatch
    <2>2. CASE stage' = "joining" /\ alarm' = TRUE /\ link' = link
      BY <1>3, <2>2 DEF HandleHello, Watch, Attached
    <2> QED
      BY <1>3, <2>1, <2>2 DEF HandleHello
  <1>4. CASE HandleSuspend
    <2>1. CASE suspended
      <3>1. ~Drop(Head(queue)) /\ queue # <<>>
        BY <1>4 DEF HandleSuspend, Dispatching, Drop
      <3> QED
        BY <1>4, <2>1, <3>1, SameWatch DEF HandleSuspend
    <2>2. CASE ~suspended
      BY <1>4, <2>2, CleanUpWatch DEF HandleSuspend
    <2> QED
      BY <2>1, <2>2
  <1>5. CASE HandleData
    <2>1. queue # <<>> /\ ~Drop(Head(queue)) /\ link # None
      BY <1>5 DEF HandleData, Dispatching, Drop, Watch, Attached
    <2>2. link' = link /\ timer' = timer /\ alarm' = alarm
      BY <1>5 DEF HandleData
    <2>3. stage \in {"joining", "ready"} /\ stage' \in {"joining", "ready"}
      BY <1>5 DEF HandleData
    <2>4. \E es \in Seq(Event) : Posting(es) \/ queue' = queue \o es
      <3>1. \A m : Asked(m) \in Seq(Event)
        <4>1. link \in Conn
          BY <2>1 DEF TypeOK, ClientTypeOK
        <4>2. <<On("hangUp", link)>> \in Seq(Event) /\ <<On("refuse", link)>> \in Seq(Event)
          BY <4>1, Events, OneType DEF OfStream
        <4>3. <<Of("Connected")>> \in Seq(Event)
          BY Events, OneType DEF OfClient
        <4> QED
          BY <4>2, <4>3 DEF Asked
      <3> QED
        BY <1>5, <3>1 DEF HandleData
    <2>5. DropPending => DropPending'
      BY <2>1, <2>2, <2>4, DropKept
    <2> QED
      BY <2>1, <2>2, <2>3, <2>5 DEF Watch, Attached
  <1>6. CASE \/ HandleConnectionFailed \/ HandleDisconnected \/ HandleDisconnectRequested
    BY <1>6, CleanUpWatch DEF HandleConnectionFailed, HandleDisconnected, HandleDisconnectRequested
  <1>7. CASE \/ HandleClientConnected \/ HandleClientFailed \/ HandleClientRefused
             \/ HandleClientDisconnected
    <2>1. queue # <<>> /\ ~Drop(Head(queue)) /\ Posting(<<>>) /\ UNCHANGED session
      BY <1>7 DEF HandleClientConnected, HandleClientFailed, HandleClientRefused,
                  HandleClientDisconnected, Dispatching, Drop
    <2> QED
      BY <2>1, SameWatch
  <1> QED
    BY <1>1, <1>2, <1>3, <1>4, <1>5, <1>6, <1>7 DEF ClientLoop

LEMMA WatchResumes ==
  ASSUME TypeOK, Watch, Resumes
  PROVE  Watch'
  <1>1. PICK c \in Conn : HandleResume(c)
    BY DEF Resumes
  <1>2. queue # <<>> /\ ~Drop(Head(queue))
    BY <1>1 DEF HandleResume, Dispatching, Drop
  <1>3. <<>> \in Seq(Event) /\ <<Of("Failed")>> \in Seq(Event)
    BY Events, OneType, NoneType DEF OfClient
  <1>4. CASE Posting(<<>>) /\ UNCHANGED session
    BY <1>2, <1>3, <1>4, SameWatch
  <1>5. ASSUME NEW posted \in {<<>>, <<Of("Failed")>>}, Connect(c, aim, 0, posted), Posting(posted)
        PROVE  Watch'
    BY <1>2, <1>3, <1>5, ConnectWatch
  <1> QED
    BY <1>1, <1>4, <1>5 DEF HandleResume

LEMMA WatchNext ==
  ASSUME TypeOK, Watch, [Next]_vars
  PROVE  Watch'
  <1> USE NoneType
  <1>0. UNCHANGED client => Watch'
    BY SameWatch DEF client
  <1>1. CASE Starts
    BY <1>1, StartClientWatch DEF Starts, StartNode
  <1>2. CASE Restarts
    BY <1>2, StartClientWatch DEF Restarts, HandleClientRestart
  <1>3. CASE ConnectTimesOut
    BY <1>3, CleanUpWatch DEF ConnectTimesOut, HandleConnectTimeout
  <1>4. CASE ServerIsDead
    <2>1. link # None /\ link' = link /\ stage' = stage /\ timer' = timer /\ queue' = <<On("fail", link)>>
      BY <1>4 DEF ServerIsDead, HandleKeepAliveAlarm, Watch, Attached
    <2>2. queue'[1] = On("fail", link) /\ Len(queue') = 1
      BY <2>1
    <2>3. Drop(On("fail", link))' 
      BY <2>1 DEF Drop, Mine, On
    <2>4. DropPending'
      BY <2>1, <2>2, <2>3 DEF DropPending, Drop, Mine, On
    <2> QED
      BY <2>1, <2>4 DEF Watch, Attached
  <1>5. ASSUME NEW es \in Seq(Event), Queued(es)
        PROVE  Watch'
    BY <1>5, SameWatch DEF Queued
  <1>6. CASE Power
    BY <1>5, <1>6, Events, OneType DEF Power, OfClient
  <1>7. ASSUME NEW c \in Conn,
               \/ Opens(c) \/ HandshakeFails(c) \/ DialFails(c)
               \/ ReachesClient(c) \/ ReachesServer(c) \/ Cuts(c)
        PROVE  Watch'
    <2>1. \A t \in OfStream : <<On(t, c)>> \in Seq(Event)
      BY Events, OneType
    <2>2. \A es \in Gone(c) : es \in Seq(Event)
      BY EndsType
    <2>3. \A es \in Gone(c) : IfMine(c, es) \in Seq(Event)
      BY <2>2 DEF IfMine
    <2>4. UNCHANGED client \/ \E es \in Seq(Event) : Queued(es)
      BY <1>7, <2>1, <2>2, <2>3
         DEF Opens, HandshakeFails, DialFails, ReachesClient, ReachesServer, Cuts, OfStream
    <2> QED
      BY <1>0, <1>5, <2>4
  <1>8. CASE ServerLoop \/ Drops \/ \E c \in Conn : ServerTimer(c)
    BY <1>0, <1>8 DEF ServerLoop, Drops, ServerTimer
  <1>9. CASE UNCHANGED vars
    BY <1>0, <1>9 DEF vars
  <1> QED
    BY <1>1, <1>2, <1>3, <1>4, <1>6, <1>7, <1>8, <1>9, WatchLoop, WatchResumes DEF Next

-----------------------------------------------------------------------------
(* When the screen never fails for good, a client without connection dials.  *)

LEMMA StrandedLoop ==
  ASSUME TypeOK, Watch, NeverStranded, ClientLoop
  PROVE  NeverStranded'
  <1> USE NoneType
  <1>0. queue \in Seq(Event)
    BY DEF TypeOK, ClientTypeOK
  <1>1. ASSUME queue # <<>>, ~Ending(Head(queue)), Posting(<<>>), app' = app, link' = link \/ link' # None,
               UNCHANGED <<restarts, suspended, connectOnResume>>
        PROVE  NeverStranded'
    <2>1. EndingPending => EndingPending'
      BY <1>1, EndingKept
    <2> QED
      BY <1>1, <2>1 DEF NeverStranded
  <1>2. CASE IgnoreEvent
    <2>1. ~Ending(Head(queue)) /\ queue # <<>>
      BY <1>2 DEF IgnoreEvent, Handled, Ending
    <2> QED
      BY <1>1, <1>2, <2>1 DEF IgnoreEvent, session
  <1>3. CASE HandleConnected \/ HandleClientConnected
    BY <1>1, <1>3 DEF HandleConnected, HandleClientConnected, Dispatching, Ending, session
  <1>4. CASE \/ HandleConnectionFailed \/ HandleDisconnected \/ HandleDisconnectRequested
    <2>1. EndingPending'
      BY <1>0, <1>4, EndingPosted
         DEF HandleConnectionFailed, HandleDisconnected, HandleDisconnectRequested, Dispatching
    <2> QED
      BY <2>1 DEF NeverStranded
  <1>5. CASE HandleHello \/ HandleData
    <2>1. CASE link' = link /\ link # None
      BY <2>1 DEF NeverStranded
    <2>2. CASE Posting(<<Of("Failed")>>) /\ HandleHello
      <3>1. EndingPending'
        BY <1>0, <2>2, EndingPosted DEF HandleHello, Dispatching
      <3> QED
        BY <3>1 DEF NeverStranded
    <2>3. link # None
      BY <1>5 DEF HandleHello, HandleData, Watch, Attached
    <2> QED
      BY <1>5, <2>1, <2>2, <2>3 DEF HandleHello, HandleData
  <1>6. CASE HandleSuspend
    <2>1. CASE suspended
      BY <1>1, <1>6, <2>1 DEF HandleSuspend, Dispatching, Ending, session
    <2>2. CASE ~suspended
      <3>1. EndingPending'
        BY <1>0, <1>6, <2>2, EndingPosted DEF HandleSuspend, Dispatching
      <3> QED
        BY <3>1 DEF NeverStranded
    <2> QED
      BY <2>1, <2>2
  <1>7. CASE HandleClientFailed \/ HandleClientRefused \/ HandleClientDisconnected
    <2>1. restarts' > 0
      BY <1>7 DEF HandleClientFailed, HandleClientRefused, HandleClientDisconnected,
                  ScheduleRestart, TypeOK, ClientTypeOK
    <2> QED
      BY <2>1 DEF NeverStranded
  <1> QED
    BY <1>2, <1>3, <1>4, <1>5, <1>6, <1>7 DEF ClientLoop

LEMMA StrandedResumes ==
  ASSUME TypeOK, NeverStranded, Resumes
  PROVE  NeverStranded'
  <1>1. PICK c \in Conn : HandleResume(c)
    BY DEF Resumes
  <1>2. queue # <<>> /\ queue \in Seq(Event) /\ ~Ending(Head(queue)) /\ app' = app /\ restarts' = restarts
    BY <1>1 DEF HandleResume, Dispatching, Ending, TypeOK, ClientTypeOK
  <1>3. CASE suspended /\ connectOnResume
    <2>1. PICK posted \in {<<>>, <<Of("Failed")>>} : Connect(c, aim, 0, posted) /\ Posting(posted)
      BY <1>1, <1>3 DEF HandleResume
    <2>2. CASE posted = <<>>
      <3>1. link' # None
        BY <2>1, <2>2, WireAssumption DEF Connect, Dial, session
      <3> QED
        BY <3>1 DEF NeverStranded
    <2>3. CASE posted = <<Of("Failed")>>
      <3>1. EndingPending'
        BY <1>2, <2>1, <2>3, EndingPosted
      <3> QED
        BY <3>1 DEF NeverStranded
    <2> QED
      BY <2>2, <2>3
  <1>4. CASE ~(suspended /\ connectOnResume)
    <2>1. EndingPending => EndingPending'
      BY <1>1, <1>2, <1>4, NoneType, EndingKept DEF HandleResume
    <2> QED
      BY <1>1, <1>2, <1>4, <2>1 DEF HandleResume, NeverStranded, session
  <1> QED
    BY <1>3, <1>4

LEMMA StrandedStarts ==
  ASSUME TypeOK, NEW c \in Conn, NEW left \in Nat, StartClient(c, left), UNCHANGED suspended
  PROVE  NeverStranded'
  <1>1. CASE restarts' = left + 1
    BY <1>1 DEF NeverStranded
  <1>2. ASSUME NEW posted \in {<<>>, <<Of("Failed")>>}, queue' = queue \o posted,
               IF suspended
               THEN /\ posted = <<>> /\ connectOnResume' = (link = None \/ connectOnResume)
                    /\ UNCHANGED <<session, resolved, wire>>
               ELSE Connect(c, server, address, posted) /\ UNCHANGED connectOnResume
        PROVE  NeverStranded'
    <2>1. CASE suspended
      BY <1>2, <2>1 DEF NeverStranded, session
    <2>2. CASE ~suspended /\ posted = <<>>
      <3>1. link' # None
        BY <1>2, <2>2, WireAssumption DEF Connect, Dial, session
      <3> QED
        BY <3>1 DEF NeverStranded
    <2>3. CASE posted = <<Of("Failed")>>
      <3>1. EndingPending'
        BY <1>2, <2>3, EndingPosted DEF TypeOK, ClientTypeOK
      <3> QED
        BY <3>1 DEF NeverStranded
    <2> QED
      BY <1>2, <2>1, <2>2, <2>3
  <1> QED
    BY <1>1, <1>2 DEF StartClient

LEMMA StrandedNext ==
  ASSUME "failure" \notin ScreenFaults, TypeOK, Watch, NeverStranded, [Next]_vars
  PROVE  NeverStranded'
  <1> USE NoneType
  <1>0. ASSUME NEW es \in Seq(Event), queue' = queue \o es \/ queue' = queue,
               UNCHANGED <<app, link, restarts, suspended, connectOnResume>>
        PROVE  NeverStranded'
    <2>1. EndingPending => EndingPending'
      BY <1>0, EndingKept
    <2> QED
      BY <1>0, <2>1 DEF NeverStranded
  <1>1. CASE Starts
    <2>1. PICK c \in Conn : StartNode(c)
      BY <1>1 DEF Starts
    <2>2. StartClient(c, restarts) /\ UNCHANGED suspended /\ restarts \in Nat
      BY <2>1 DEF StartNode, ScreenFails, TypeOK, ClientTypeOK
    <2> QED
      BY <2>2, StrandedStarts
  <1>2. CASE Restarts
    <2>1. PICK c \in Conn : HandleClientRestart(c)
      BY <1>2 DEF Restarts
    <2>2. StartClient(c, restarts - 1) /\ UNCHANGED suspended /\ restarts - 1 \in Nat
      BY <2>1 DEF HandleClientRestart, ScreenFails, TypeOK, ClientTypeOK
    <2> QED
      BY <2>2, StrandedStarts
  <1>3. CASE ConnectTimesOut
    <2>1. EndingPending'
      BY <1>3, EndingPosted DEF ConnectTimesOut, HandleConnectTimeout, TypeOK, ClientTypeOK
    <2> QED
      BY <2>1 DEF NeverStranded
  <1>4. CASE ServerIsDead
    <2>1. link' # None
      BY <1>4 DEF ServerIsDead, HandleKeepAliveAlarm, Watch, Attached
    <2> QED
      BY <2>1 DEF NeverStranded
  <1>5. CASE Power
    <2>1. \E es \in Seq(Event) : Queued(es)
      BY <1>5, Events, OneType DEF Power, OfClient
    <2> QED
      BY <1>0, <2>1 DEF Queued, session
  <1>6. ASSUME NEW c \in Conn,
               \/ Opens(c) \/ HandshakeFails(c) \/ DialFails(c)
               \/ ReachesClient(c) \/ ReachesServer(c) \/ Cuts(c)
        PROVE  NeverStranded'
    <2>1. \A t \in OfStream : <<On(t, c)>> \in Seq(Event)
      BY Events, OneType
    <2>2. \A es \in Gone(c) : es \in Seq(Event)
      BY EndsType
    <2>3. \A es \in Gone(c) : IfMine(c, es) \in Seq(Event)
      BY <2>2 DEF IfMine
    <2>4. UNCHANGED client \/ \E es \in Seq(Event) : Queued(es)
      BY <1>6, <2>1, <2>2, <2>3
         DEF Opens, HandshakeFails, DialFails, ReachesClient, ReachesServer, Cuts, OfStream
    <2> QED
      BY <1>0, <2>4 DEF Queued, client, session
  <1>7. CASE ServerLoop \/ Drops \/ (\E c \in Conn : ServerTimer(c)) \/ UNCHANGED vars
    <2>1. UNCHANGED client
      BY <1>7 DEF ServerLoop, Drops, ServerTimer, vars
    <2> QED
      BY <1>0, <2>1 DEF client, session
  <1> QED
    BY <1>1, <1>2, <1>3, <1>4, <1>5, <1>6, <1>7, StrandedLoop, StrandedResumes DEF Next

-----------------------------------------------------------------------------
(* Counting the events of a queue.                                          *)

LEMMA CountConcat ==
  ASSUME NEW T, NEW q \in Seq(T), NEW r \in Seq(T), NEW S
  PROVE  /\ Count(q, S) \in Nat
         /\ Count(q \o r, S) = Count(q, S) + Count(r, S)
  <1> DEFINE n == Len(q)
             m == Len(r)
             A == {i \in 1..n : q[i] \in S}
             B == {i \in 1..m : r[i] \in S}
             C == {i \in (n + 1)..(n + m) : r[i - n] \in S}
             f == [i \in B |-> i + n]
  <1>1. /\ n \in Nat /\ m \in Nat /\ Len(q \o r) = n + m
        /\ \A i \in 1..n : (q \o r)[i] = q[i]
        /\ \A i \in (n + 1)..(n + m) : (q \o r)[i] = r[i - n]
    BY ConcatProperties
  <1> HIDE DEF n, m
  <1>2. IsFiniteSet(A) /\ IsFiniteSet(B)
    <2>a. \A k \in Int : IsFiniteSet(1..k)
      BY FS_Interval
    <2>1. IsFiniteSet(1..n) /\ IsFiniteSet(1..m)
      BY <1>1, <2>a
    <2>2. A \in SUBSET (1..n) /\ B \in SUBSET (1..m)
      OBVIOUS
    <2> QED BY <2>1, <2>2, FS_Subset
  <1>3. f \in Bijection(B, C)
    <2>1. f \in [B -> C]
      BY <1>1
    <2>2. \A i, j \in B : f[i] = f[j] => i = j
      BY <1>1
    <2>3. \A k \in C : \E i \in B : f[i] = k
      <3>1. SUFFICES ASSUME NEW k \in C PROVE \E i \in B : f[i] = k
        OBVIOUS
      <3>2. k - n \in B /\ k - n + n = k
        BY <1>1
      <3>3. f[k - n] = k
        BY <3>2
      <3> QED BY <3>2, <3>3
    <2> QED BY <2>1, <2>2, <2>3, Fun_IsBij
  <1>4. IsFiniteSet(C) /\ Cardinality(C) = Cardinality(B)
    BY <1>2, <1>3, FS_Bijection DEF ExistsBijection
  <1>5. A \cap C = {}
    BY <1>1
  <1>6. Cardinality(A \cup C) = Cardinality(A) + Cardinality(C)
    <2>1. Cardinality(A \cap C) = 0
      BY <1>5, FS_EmptySet
    <2>2. Cardinality(A \cup C) = Cardinality(A) + Cardinality(C) - Cardinality(A \cap C)
      BY <1>2, <1>4, FS_Union
    <2>3. Cardinality(A) \in Nat /\ Cardinality(C) \in Nat
      BY <1>2, <1>4, FS_CardinalityType
    <2> QED BY <2>1, <2>2, <2>3
  <1>7. {i \in 1..Len(q \o r) : (q \o r)[i] \in S} = A \cup C
    <2>1. \A i : i \in 1..(n + m) <=> i \in 1..n \/ i \in (n + 1)..(n + m)
      BY <1>1
    <2> QED BY <1>1, <2>1
  <1>8. Cardinality(A) \in Nat
    BY <1>2, FS_CardinalityType
  <1> QED BY <1>4, <1>6, <1>7, <1>8 DEF Count, n, m

LEMMA CountOne ==
  ASSUME NEW e, NEW S
  PROVE  Count(<<e>>, S) = IF e \in S THEN 1 ELSE 0
  <1>1. Len(<<e>>) = 1 /\ <<e>>[1] = e
    OBVIOUS
  <1>2. {i \in 1..Len(<<e>>) : <<e>>[i] \in S} = IF e \in S THEN {1} ELSE {}
    BY <1>1
  <1> QED BY <1>2, FS_Singleton, FS_EmptySet DEF Count

LEMMA CountNone == ASSUME NEW S PROVE Count(<<>>, S) = 0
  <1>1. {i \in 1..Len(<<>>) : <<>>[i] \in S} = {}
    OBVIOUS
  <1> QED BY <1>1, FS_EmptySet DEF Count

LEMMA CountTail ==
  ASSUME NEW T, NEW q \in Seq(T), q # <<>>, NEW S
  PROVE  Count(Tail(q), S) = Count(q, S) - IF Head(q) \in S THEN 1 ELSE 0
  <1>1. Head(q) \in T /\ Tail(q) \in Seq(T) /\ <<Head(q)>> \in Seq(T)
    BY HeadTailProperties
  <1>2. q = <<Head(q)>> \o Tail(q)
    OBVIOUS
  <1>3. Count(q, S) = Count(<<Head(q)>>, S) + Count(Tail(q), S) /\ Count(Tail(q), S) \in Nat
    BY <1>1, <1>2, CountConcat
  <1> QED BY <1>3, CountOne

(* What taking the head and posting, or posting alone, does to a count.     *)
LEMMA CountPosted ==
  ASSUME NEW T, NEW q \in Seq(T), NEW es \in Seq(T), NEW S
  PROVE  /\ Count(q, S) \in Nat /\ Count(es, S) \in Nat
         /\ Count(q \o es, S) = Count(q, S) + Count(es, S)
         /\ q # <<>> => Count(Tail(q) \o es, S)
                          = Count(q, S) - (IF Head(q) \in S THEN 1 ELSE 0) + Count(es, S)
  <1>1. /\ Count(q, S) \in Nat /\ Count(es, S) \in Nat
        /\ Count(q \o es, S) = Count(q, S) + Count(es, S)
    BY CountConcat
  <1>2. ASSUME q # <<>>
        PROVE  Count(Tail(q) \o es, S) = Count(q, S) - (IF Head(q) \in S THEN 1 ELSE 0) + Count(es, S)
    <2>1. Tail(q) \in Seq(T)
      BY <1>2, HeadTailProperties
    <2>2. Count(Tail(q) \o es, S) = Count(Tail(q), S) + Count(es, S)
      BY <2>1, CountConcat
    <2> QED BY <1>2, <2>2, CountTail
  <1> QED BY <1>1, <1>2

-----------------------------------------------------------------------------
(* The client has at most one way to dial more than there were sleeps: a     *)
(* restart timer, its connection, an event that schedules a restart, the     *)
(* start of the program, and waking up connected; each sleep adds one event, *)
(* and turns one of these into two when it is heard.                         *)

Unit(b) == IF b THEN 1 ELSE 0
Costs   == {e \in Event : Ending(e) \/ e.type = "Suspend"}
Spent   == restarts + Unit(link # None) + Count(queue, Costs)
             + Unit(connectOnResume) + Unit(app = "starting")
Asleep  == (connectOnResume => suspended) /\ (suspended => link = None)
Spends  == Asleep /\ Spent <= 1 + faults

LEMMA CountTwo ==
  ASSUME NEW e, NEW S, e \notin S
  PROVE  Count(<<e, e>>, S) = 0
  <1>1. {i \in 1..Len(<<e, e>>) : <<e, e>>[i] \in S} = {}
    OBVIOUS
  <1> QED BY <1>1, FS_EmptySet DEF Count

LEMMA Units == \A b : Unit(b) \in {0, 1}
  BY DEF Unit

LEMMA Weights ==
  /\ Count(<<>>, Costs) = 0
  /\ \A t \in OfClient : Count(<<Of(t)>>, Costs) = Unit(t \in {"Failed", "Refused", "Disconnected", "Suspend"})
  /\ \A t \in OfStream : \A c \in Conn :
       Count(<<On(t, c)>>, Costs) = 0 /\ Count(<<On(t, c), On(t, c)>>, Costs) = 0
  <1>1. ASSUME NEW t \in OfClient
        PROVE  Count(<<Of(t)>>, Costs) = Unit(t \in {"Failed", "Refused", "Disconnected", "Suspend"})
    <2>1. Of(t) \in Costs <=> t \in {"Failed", "Refused", "Disconnected", "Suspend"}
      BY Events DEF Costs, Ending, Of
    <2> QED BY <2>1, CountOne DEF Unit
  <1>2. ASSUME NEW t \in OfStream, NEW c \in Conn
        PROVE  Count(<<On(t, c)>>, Costs) = 0 /\ Count(<<On(t, c), On(t, c)>>, Costs) = 0
    <2>1. On(t, c) \in Event /\ On(t, c) \notin Costs
      BY Events DEF Costs, Ending, On, OfStream
    <2>2. Count(<<On(t, c)>>, Costs) = 0
      BY <2>1, CountOne
    <2> QED BY <2>1, <2>2, CountTwo
  <1> QED BY <1>1, <1>2, CountNone

LEMMA Numbers ==
  ASSUME TypeOK
  PROVE  restarts \in Nat /\ faults \in Nat /\ Count(queue, Costs) \in Nat /\ queue \in Seq(Event)
  <1>1. queue \in Seq(Event)
    BY DEF TypeOK, ClientTypeOK
  <1>2. Count(queue, Costs) \in Nat
    BY <1>1, CountConcat
  <1> QED BY <1>1, <1>2, FaultAssumption DEF TypeOK, ClientTypeOK

LEMMA Taken ==
  ASSUME TypeOK, queue # <<>>, NEW es \in Seq(Event), Posting(es)
  PROVE  /\ Count(es, Costs) \in Nat
         /\ Count(queue', Costs) = Count(queue, Costs)
              - Unit(Head(queue).type \in {"Failed", "Refused", "Disconnected", "Suspend"})
              + Count(es, Costs)
  <1>1. queue \in Seq(Event) /\ Head(queue) \in Event
    BY Numbers, TakeType
  <1>2. Head(queue) \in Costs <=> Head(queue).type \in {"Failed", "Refused", "Disconnected", "Suspend"}
    BY <1>1 DEF Costs, Ending
  <1>3. /\ Count(es, Costs) \in Nat
        /\ Count(Tail(queue) \o es, Costs)
             = Count(queue, Costs) - (IF Head(queue) \in Costs THEN 1 ELSE 0) + Count(es, Costs)
    BY <1>1, CountPosted
  <1> QED BY <1>2, <1>3 DEF Posting, Unit

LEMMA Put ==
  ASSUME TypeOK, NEW es \in Seq(Event), queue' = queue \o es
  PROVE  Count(es, Costs) \in Nat /\ Count(queue', Costs) = Count(queue, Costs) + Count(es, Costs)
  BY Numbers, CountPosted

(* A handler that takes its event, keeps the connection and asks for nothing *)
(* that counts.                                                              *)
LEMMA SpendsNothing ==
  ASSUME TypeOK, Asleep, NEW es \in Seq(Event), Count(es, Costs) = 0,
         \/ queue # <<>> /\ Posting(es)
         \/ queue' = queue \o es
         \/ queue' = queue,
         UNCHANGED <<app, link, suspended, connectOnResume, restarts>>
  PROVE  Asleep' /\ Spent' <= Spent
  <1>1. Count(queue', Costs) \in Int /\ Count(queue', Costs) <= Count(queue, Costs)
    <2>1. CASE queue # <<>> /\ Posting(es)
      <3>1. Count(queue', Costs)
              = Count(queue, Costs)
                  - Unit(Head(queue).type \in {"Failed", "Refused", "Disconnected", "Suspend"}) + 0
        BY <2>1, Taken
      <3> QED BY <3>1, Numbers, Units
    <2>2. CASE queue' = queue \o es
      BY <2>2, Numbers, Put
    <2>3. CASE queue' = queue
      BY <2>3, Numbers
    <2> QED BY <2>1, <2>2, <2>3
  <1>2. Spent' <= Spent
    BY <1>1, Numbers, Units DEF Spent
  <1> QED BY <1>2 DEF Asleep

LEMMA SpendsDial ==
  ASSUME TypeOK, Watch, Asleep, queue # <<>>, link # None, CleanUp,
         NEW t \in {"Failed", "Refused", "Disconnected"}, Posting(<<Of(t)>>),
         UNCHANGED <<app, suspended, restarts>>, connectOnResume' = FALSE \/ connectOnResume' = connectOnResume
  PROVE  Asleep' /\ Spent' <= Spent
  <1>1. <<Of(t)>> \in Seq(Event) /\ Count(<<Of(t)>>, Costs) = 1
    BY Weights, Events, OneType DEF OfClient, Unit
  <1>2. Count(queue', Costs)
          = Count(queue, Costs)
              - Unit(Head(queue).type \in {"Failed", "Refused", "Disconnected", "Suspend"}) + 1
    BY <1>1, Taken
  <1>3. Count(queue', Costs) \in Int /\ Count(queue', Costs) <= Count(queue, Costs) + 1
    BY <1>2, Numbers, Units
  <1>4. link' = None /\ Unit(link' # None) = 0 /\ Unit(link # None) = 1
    BY DEF CleanUp, Unit
  <1>5. /\ Unit(connectOnResume') \in Int /\ Unit(connectOnResume) \in Int
        /\ Unit(connectOnResume') <= Unit(connectOnResume)
    BY DEF Unit
  <1>6. Spent' <= Spent
    BY <1>3, <1>4, <1>5, Numbers, Units DEF Spent
  <1> QED BY <1>4, <1>6 DEF Asleep

LEMMA SpendsLoop ==
  ASSUME TypeOK, Watch, Asleep, ClientLoop
  PROVE  Asleep' /\ Spent' <= Spent
  <1> USE NoneType, Weights
  <1>1. CASE IgnoreEvent
    BY <1>1, SpendsNothing DEF IgnoreEvent, session
  <1>2. CASE HandleConnected
    BY <1>2, SpendsNothing DEF HandleConnected, Dispatching
  <1>3. CASE \/ HandleConnectionFailed \/ HandleDisconnected \/ HandleDisconnectRequested
    <2>1. queue # <<>> /\ link # None
      BY <1>3 DEF HandleConnectionFailed, HandleDisconnected, HandleDisconnectRequested,
                  Dispatching, Handled, Watch, Attached
    <2>2. /\ CleanUp /\ UNCHANGED <<app, suspended, restarts>>
          /\ connectOnResume' = FALSE \/ connectOnResume' = connectOnResume
      BY <1>3 DEF HandleConnectionFailed, HandleDisconnected, HandleDisconnectRequested
    <2>3. \E t \in {"Failed", "Refused", "Disconnected"} : Posting(<<Of(t)>>)
      BY <1>3 DEF HandleConnectionFailed, HandleDisconnected, HandleDisconnectRequested
    <2> QED BY <2>1, <2>2, <2>3, SpendsDial
  <1>4. CASE HandleHello
    <2>1. queue # <<>> /\ link # None /\ UNCHANGED <<app, suspended, connectOnResume, restarts>>
      BY <1>4 DEF HandleHello, Dispatching, Handled, Watch, Attached
    <2>2. CASE CleanUp /\ Posting(<<Of("Failed")>>)
      BY <2>1, <2>2, SpendsDial
    <2>3. CASE link' = link /\ (Posting(<<>>) \/ Posting(<<Head(queue)>>))
      <3>1. Head(queue) \in Event /\ Head(queue) \notin Costs
        BY <1>4, <2>1, Numbers, TakeType DEF HandleHello, Dispatching, Costs, Ending
      <3>2. <<Head(queue)>> \in Seq(Event) /\ Count(<<Head(queue)>>, Costs) = 0
        BY <3>1, OneType, CountOne
      <3> QED BY <2>1, <2>3, <3>2, SpendsNothing
    <2> QED BY <1>4, <2>2, <2>3 DEF HandleHello
  <1>5. CASE HandleSuspend
    <2>1. queue # <<>> /\ Head(queue).type = "Suspend" /\ UNCHANGED <<app, restarts>>
      BY <1>5 DEF HandleSuspend, Dispatching
    <2>2. CASE suspended
      BY <1>5, <2>1, <2>2, SpendsNothing DEF HandleSuspend, session
    <2>3. CASE ~suspended
      <3>1. /\ suspended' = TRUE /\ connectOnResume' = (stage \in {"joining", "ready"})
            /\ CleanUp /\ Posting(<<Of("Disconnected")>>)
        BY <1>5, <2>3 DEF HandleSuspend
      <3>2. <<Of("Disconnected")>> \in Seq(Event) /\ Count(<<Of("Disconnected")>>, Costs) = 1
        BY Events, OneType DEF OfClient, Unit
      <3>3. Count(queue', Costs) = Count(queue, Costs) - 1 + 1
        BY <2>1, <3>1, <3>2, Taken DEF Unit
      <3>4. link' = None /\ Unit(link' # None) = 0 /\ Unit(app' = "starting") = Unit(app = "starting")
        BY <2>1, <3>1 DEF CleanUp, Unit
      <3>5. Unit(connectOnResume) = 0
        BY <2>3 DEF Asleep, Unit
      <3>6. Unit(connectOnResume') <= Unit(link # None)
        <4>1. CASE stage \in {"joining", "ready"}
          BY <4>1, <3>1 DEF Unit, Watch, Attached
        <4>2. CASE stage \notin {"joining", "ready"}
          <5>1. ~connectOnResume'
            BY <4>2, <3>1
          <5>2. Unit(connectOnResume') = 0
            BY <5>1 DEF Unit
          <5> QED BY <5>2, Units
        <4> QED BY <4>1, <4>2
      <3>7. Spent' <= Spent
        <4>1. /\ Unit(connectOnResume') \in {0, 1} /\ Unit(link # None) \in {0, 1}
              /\ Unit(app = "starting") \in {0, 1}
          BY Units
        <4>2. Spent = restarts + Unit(link # None) + Count(queue, Costs) + 0 + Unit(app = "starting")
          BY <3>5 DEF Spent
        <4>3. Spent' = restarts + 0 + Count(queue', Costs) + Unit(connectOnResume') + Unit(app = "starting")
          BY <2>1, <3>4 DEF Spent
        <4> QED BY <3>3, <3>6, <4>1, <4>2, <4>3, Numbers
      <3> QED BY <3>1, <3>4, <3>7 DEF Asleep
    <2> QED BY <2>2, <2>3
  <1>6. CASE HandleData
    <2>1. queue # <<>> /\ UNCHANGED <<app, link, suspended, connectOnResume, restarts>>
      BY <1>6 DEF HandleData, Dispatching
    <2>2. link \in Conn
      BY <1>6 DEF HandleData, Watch, Attached, TypeOK, ClientTypeOK
    <2>3. \A m : Asked(m) \in Seq(Event) /\ Count(Asked(m), Costs) = 0
      <3>1. /\ <<On("hangUp", link)>> \in Seq(Event) /\ <<On("refuse", link)>> \in Seq(Event)
            /\ <<Of("Connected")>> \in Seq(Event)
        BY <2>2, Events, OneType DEF OfStream, OfClient
      <3>2. /\ Count(<<On("hangUp", link)>>, Costs) = 0 /\ Count(<<On("refuse", link)>>, Costs) = 0
            /\ Count(<<Of("Connected")>>, Costs) = 0
        BY <2>2 DEF OfStream, OfClient, Unit
      <3> QED BY <3>1, <3>2 DEF Asked
    <2>4. \E m : Posting(Asked(m)) \/ queue' = queue \o Asked(m) \/ Posting(<<>>)
      BY <1>6 DEF HandleData
    <2> QED BY <2>1, <2>3, <2>4, SpendsNothing
  <1>7. CASE HandleClientConnected
    BY <1>7, SpendsNothing DEF HandleClientConnected, Dispatching, session
  <1>8. CASE HandleClientFailed \/ HandleClientRefused \/ HandleClientDisconnected
    <2>1. /\ queue # <<>> /\ Posting(<<>>) /\ restarts' = restarts + 1
          /\ Head(queue).type \in {"Failed", "Refused", "Disconnected", "Suspend"}
          /\ UNCHANGED <<app, link, suspended, connectOnResume>>
      BY <1>8 DEF HandleClientFailed, HandleClientRefused, HandleClientDisconnected,
                  ScheduleRestart, Dispatching, session
    <2>2. Count(queue', Costs) = Count(queue, Costs) - 1 + 0
      BY <2>1, Taken DEF Unit
    <2>3. Spent' <= Spent
      BY <2>1, <2>2, Numbers, Units DEF Spent
    <2> QED BY <2>1, <2>3 DEF Asleep
  <1> QED
    BY <1>1, <1>2, <1>3, <1>4, <1>5, <1>6, <1>7, <1>8 DEF ClientLoop

LEMMA ConnectSpends ==
  ASSUME TypeOK, NEW c \in Conn, NEW srv, NEW i, NEW posted \in {<<>>, <<Of("Failed")>>},
         Connect(c, srv, i, posted)
  PROVE  /\ posted \in Seq(Event)
         /\ Count(posted, Costs) \in Nat /\ Unit(link' # None) \in Nat
         /\ Unit(link' # None) + Count(posted, Costs) = 1
  <1>1. /\ <<>> \in Seq(Event) /\ <<Of("Failed")>> \in Seq(Event)
        /\ Count(<<>>, Costs) = 0 /\ Count(<<Of("Failed")>>, Costs) = 1
    BY Weights, Events, OneType, NoneType DEF OfClient, Unit
  <1>2. CASE link # None
    BY <1>1, <1>2 DEF Connect, session, Unit
  <1>3. CASE link = None /\ posted = <<>> /\ Dial(c, AddressAt(srv, i))
    BY <1>1, <1>3, WireAssumption DEF Dial, Unit
  <1>4. CASE link = None /\ posted = <<Of("Failed")>> /\ UNCHANGED session
    BY <1>1, <1>4 DEF session, Unit
  <1> QED BY <1>2, <1>3, <1>4 DEF Connect

LEMMA SpendsResumes ==
  ASSUME TypeOK, Asleep, Resumes
  PROVE  Asleep' /\ Spent' <= Spent
  <1>1. PICK c \in Conn : HandleResume(c)
    BY DEF Resumes
  <1>2. queue # <<>> /\ Head(queue).type = "Resume" /\ suspended' = FALSE /\ UNCHANGED <<app, restarts>>
    BY <1>1 DEF HandleResume, Dispatching
  <1>3. CASE suspended /\ connectOnResume
    <2>1. connectOnResume' = FALSE
      BY <1>1, <1>3 DEF HandleResume
    <2>2. PICK posted \in {<<>>, <<Of("Failed")>>} : Connect(c, aim, 0, posted) /\ Posting(posted)
      BY <1>1, <1>3 DEF HandleResume
    <2>3. posted \in Seq(Event) /\ Count(posted, Costs) \in Nat /\ Unit(link' # None) \in Nat
          /\ Unit(link' # None) + Count(posted, Costs) = 1
      BY <2>2, ConnectSpends
    <2>4. Count(queue', Costs) = Count(queue, Costs) - 0 + Count(posted, Costs)
      BY <1>2, <2>2, <2>3, Taken DEF Unit
    <2>5. Unit(connectOnResume') = 0 /\ Unit(connectOnResume) = 1 /\ Unit(link # None) \in {0, 1}
      BY <1>3, <2>1, Units DEF Unit
    <2>6. Spent' = restarts + Unit(link' # None) + Count(queue', Costs) + 0 + Unit(app = "starting")
      BY <1>2, <2>5 DEF Spent
    <2>7. Spent = restarts + Unit(link # None) + Count(queue, Costs) + 1 + Unit(app = "starting")
      BY <2>5 DEF Spent
    <2>9. Spent' <= Spent
      <3>1. Unit(app = "starting") \in {0, 1}
        BY Units
      <3> QED BY <2>3, <2>4, <2>5, <2>6, <2>7, <3>1, Numbers
    <2>8. ~connectOnResume' /\ ~suspended'
      BY <1>2, <2>1
    <2> QED BY <2>8, <2>9 DEF Asleep
  <1>4. CASE ~(suspended /\ connectOnResume)
    <2>1. Posting(<<>>) /\ UNCHANGED <<link, connectOnResume>>
      BY <1>1, <1>4 DEF HandleResume, session
    <2>2. Count(queue', Costs) = Count(queue, Costs) - 0 + 0
      BY <1>2, <2>1, Taken, Weights, NoneType DEF Unit
    <2>3. ~connectOnResume
      BY <1>4 DEF Asleep
    <2>4. Spent' = Spent
      BY <1>2, <2>1, <2>2, Numbers DEF Spent
    <2>5. Spent \in Int
      BY Numbers, Units DEF Spent
    <2> QED BY <1>2, <2>1, <2>3, <2>4, <2>5 DEF Asleep
  <1> QED BY <1>3, <1>4

LEMMA StartClientSpends ==
  ASSUME TypeOK, Asleep, NEW c \in Conn, NEW left \in Nat, StartClient(c, left) \/ ScreenFails(left),
         UNCHANGED suspended
  PROVE  /\ Asleep'
         /\ Spent' <= left + 1 + Unit(link # None) + Count(queue, Costs)
                        + Unit(connectOnResume) + Unit(app' = "starting")
  <1> DEFINE most == left + 1 + Unit(link # None) + Count(queue, Costs)
                       + Unit(connectOnResume) + Unit(app' = "starting")
  <1>1. CASE /\ restarts' = left + 1 \/ restarts' = left
             /\ UNCHANGED <<session, connectOnResume, queue>>
    <2>1. UNCHANGED <<link, connectOnResume, queue>>
      BY <1>1 DEF session
    <2>2. /\ Unit(link # None) \in {0, 1} /\ Unit(connectOnResume) \in {0, 1}
          /\ Unit(app' = "starting") \in {0, 1}
      BY Units
    <2>3. Spent' = restarts' + Unit(link # None) + Count(queue, Costs)
                     + Unit(connectOnResume) + Unit(app' = "starting")
      BY <2>1 DEF Spent
    <2> QED BY <1>1, <2>1, <2>2, <2>3, Numbers DEF Asleep
  <1>2. ASSUME NEW posted \in {<<>>, <<Of("Failed")>>}, restarts' = left, queue' = queue \o posted,
               suspended, posted = <<>>, connectOnResume' = (link = None \/ connectOnResume),
               UNCHANGED session
        PROVE  Asleep' /\ Spent' <= most
    <2>1. link' = link /\ queue' = queue
      BY <1>2, Numbers DEF session
    <2>2. /\ Unit(link # None) \in {0, 1} /\ Unit(connectOnResume) \in {0, 1}
          /\ Unit(connectOnResume') \in {0, 1} /\ Unit(app' = "starting") \in {0, 1}
      BY Units
    <2>3. Spent' = left + Unit(link # None) + Count(queue, Costs)
                     + Unit(connectOnResume') + Unit(app' = "starting")
      BY <1>2, <2>1 DEF Spent
    <2> QED BY <1>2, <2>1, <2>2, <2>3, Numbers DEF Asleep
  <1>3. ASSUME NEW posted \in {<<>>, <<Of("Failed")>>}, restarts' = left, queue' = queue \o posted,
               ~suspended, Connect(c, server, address, posted), UNCHANGED connectOnResume
        PROVE  Asleep' /\ Spent' <= most
    <2>1. posted \in Seq(Event) /\ Count(posted, Costs) \in Nat /\ Unit(link' # None) \in Nat
          /\ Unit(link' # None) + Count(posted, Costs) = 1
      BY <1>3, ConnectSpends
    <2>2. Count(queue', Costs) = Count(queue, Costs) + Count(posted, Costs)
      BY <1>3, <2>1, Put
    <2>3. /\ Unit(link # None) \in {0, 1} /\ Unit(link' # None) \in {0, 1}
          /\ Unit(connectOnResume) \in {0, 1} /\ Unit(app' = "starting") \in {0, 1}
      BY Units
    <2>4. Spent' = left + Unit(link' # None) + Count(queue', Costs)
                     + Unit(connectOnResume) + Unit(app' = "starting")
      BY <1>3 DEF Spent
    <2>5. Spent' <= most
      <3>1. Unit(link' # None) + Count(queue', Costs) = Count(queue, Costs) + 1
        BY <2>1, <2>2, Numbers
      <3>2. Spent' = left + (Count(queue, Costs) + 1) + Unit(connectOnResume) + Unit(app' = "starting")
        BY <2>1, <2>2, <2>3, <2>4, <3>1, Numbers
      <3> QED BY <2>3, <3>2, Numbers
    <2>6. ~suspended' /\ ~connectOnResume'
      BY <1>3 DEF Asleep
    <2>7. Asleep'
      BY <2>6 DEF Asleep
    <2> QED BY <2>5, <2>7
  <1>4. CASE ScreenFails(left)
    BY <1>1, <1>4 DEF ScreenFails
  <1>5. CASE StartClient(c, left)
    <2>1. CASE restarts' = left + 1 /\ UNCHANGED <<session, connectOnResume, queue>>
      BY <1>1, <2>1
    <2>3. CASE ~(restarts' = left + 1 /\ UNCHANGED <<session, connectOnResume, queue>>)
      <3>1. restarts' = left
        BY <1>5, <2>3 DEF StartClient
      <3>2. PICK posted \in {<<>>, <<Of("Failed")>>} :
                 /\ queue' = queue \o posted
                 /\ IF suspended
                    THEN /\ posted = <<>> /\ connectOnResume' = (link = None \/ connectOnResume)
                         /\ UNCHANGED session
                    ELSE Connect(c, server, address, posted) /\ UNCHANGED connectOnResume
        BY <1>5, <2>3 DEF StartClient
      <3>3. CASE suspended
        <4>1. /\ posted = <<>> /\ connectOnResume' = (link = None \/ connectOnResume)
              /\ UNCHANGED session
          BY <3>2, <3>3
        <4> QED BY <1>2, <3>1, <3>2, <3>3, <4>1
      <3>4. CASE ~suspended
        <4>1. Connect(c, server, address, posted) /\ UNCHANGED connectOnResume
          BY <3>2, <3>4
        <4> QED BY <1>3, <3>1, <3>2, <3>4, <4>1
      <3> QED BY <3>3, <3>4
    <2> QED BY <2>1, <2>3
  <1> QED BY <1>4, <1>5

LEMMA SpentType == TypeOK => Spent \in Int
  BY Numbers, Units DEF Spent

LEMMA Chain == \A a, b, m, n \in Int : a <= b /\ b <= 1 + m /\ m <= n => a <= 1 + n
  OBVIOUS

LEMMA SpendsNext ==
  ASSUME TypeOK, TypeOK', Watch, Spends, [Next]_vars
  PROVE  Spends'
  <1> USE NoneType
  <1>a. Spent \in Int /\ faults \in Nat /\ Asleep /\ Spent <= 1 + faults
    BY Numbers, Units DEF Spent, Spends
  <1>b. ASSUME Asleep' /\ Spent' <= Spent, Calm \/ Faulty
        PROVE  Spends'
    <2>1. faults' \in Nat /\ faults <= faults'
      BY <1>a, <1>b DEF Calm, Faulty
    <2>2. (TypeOK => Spent \in Int)'
      BY SpentType, PTL
    <2>3. Spent' \in Int
      BY <2>2
    <2>4. Spent' <= Spent /\ Spent <= 1 + faults /\ Spent \in Int /\ faults \in Int
      BY <1>a, <1>b
    <2>5. faults' \in Int /\ faults <= faults'
      BY <2>1
    <2>6. Spent' <= 1 + faults'
      BY <2>3, <2>4, <2>5, Chain
    <2> QED BY <1>b, <2>6 DEF Spends
  <1>1. CASE Starts
    <2>1. PICK c \in Conn : StartNode(c) /\ Perhaps(Opened)
      BY <1>1 DEF Starts
    <2>2. /\ app = "starting" /\ app' # "starting" /\ UNCHANGED suspended
          /\ StartClient(c, restarts) \/ ScreenFails(restarts)
      BY <2>1 DEF StartNode
    <2>3. /\ Asleep'
          /\ Spent' <= restarts + 1 + Unit(link # None) + Count(queue, Costs)
                         + Unit(connectOnResume) + Unit(app' = "starting")
      BY <1>a, <2>2, StartClientSpends, Numbers
    <2>4. Unit(app' = "starting") = 0 /\ Unit(app = "starting") = 1
      BY <2>2 DEF Unit
    <2>5. Spent' <= Spent
      BY <2>3, <2>4, Numbers, Units DEF Spent
    <2> QED BY <1>b, <2>1, <2>3, <2>5 DEF Perhaps
  <1>2. CASE Restarts
    <2>1. PICK c \in Conn : HandleClientRestart(c) /\ Perhaps(Opened)
      BY <1>2 DEF Restarts
    <2>2. /\ restarts - 1 \in Nat /\ UNCHANGED <<app, suspended>>
          /\ StartClient(c, restarts - 1) \/ ScreenFails(restarts - 1)
      BY <2>1, Numbers DEF HandleClientRestart
    <2>3. /\ Asleep'
          /\ Spent' <= (restarts - 1) + 1 + Unit(link # None) + Count(queue, Costs)
                         + Unit(connectOnResume) + Unit(app' = "starting")
      BY <1>a, <2>2, StartClientSpends
    <2>4. Spent' <= Spent
      BY <2>2, <2>3, Numbers, Units DEF Spent
    <2> QED BY <1>b, <2>1, <2>3, <2>4 DEF Perhaps
  <1>3. CASE Resumes
    BY <1>3, <1>a, <1>b, SpendsResumes DEF Resumes, Perhaps
  <1>4. CASE ClientLoop
    BY <1>4, <1>a, <1>b, SpendsLoop DEF ClientLoop
  <1>5. CASE ConnectTimesOut
    <2>1. /\ queue = <<>> /\ queue' = <<Of("Failed")>> /\ link # None /\ link' = None
          /\ UNCHANGED <<app, suspended, connectOnResume, restarts>> /\ Perhaps(Silent(link))
      BY <1>5 DEF ConnectTimesOut, HandleConnectTimeout, Idling, CleanUp, Watch, Attached
    <2>2. Count(queue', Costs) = 1 /\ Count(queue, Costs) = 0
      BY <2>1, Weights DEF OfClient, Unit
    <2>3. Unit(link' # None) = 0 /\ Unit(link # None) = 1
      BY <2>1 DEF Unit
    <2>4. Spent' <= Spent
      BY <2>1, <2>2, <2>3, Numbers, Units DEF Spent
    <2>5. Asleep'
      BY <1>a, <2>1 DEF Asleep
    <2> QED BY <1>b, <2>1, <2>4, <2>5 DEF Perhaps
  <1>6. CASE ServerIsDead
    <2>1. /\ queue = <<>> /\ queue' = <<On("fail", link)>> /\ link \in Conn
          /\ UNCHANGED <<app, link, suspended, connectOnResume, restarts>> /\ Perhaps(Silent(link))
      BY <1>6 DEF ServerIsDead, HandleKeepAliveAlarm, Idling, Watch, Attached, TypeOK, ClientTypeOK
    <2>2. /\ <<On("fail", link)>> \in Seq(Event) /\ Count(<<On("fail", link)>>, Costs) = 0
          /\ queue' = queue \o <<On("fail", link)>>
      <3>1. "fail" \in OfStream
        BY DEF OfStream
      <3>2. On("fail", link) \in Event /\ Count(<<On("fail", link)>>, Costs) = 0
        BY <2>1, <3>1, Weights, Events
      <3>3. <<On("fail", link)>> \in Seq(Event)
        BY <3>2, OneType
      <3>4. queue' = queue \o <<On("fail", link)>>
        BY <2>1, <3>3
      <3> QED BY <3>2, <3>3, <3>4
    <2>3. Asleep' /\ Spent' <= Spent
      BY <1>a, <2>1, <2>2, SpendsNothing
    <2> QED BY <1>b, <2>1, <2>3 DEF Perhaps
  <1>7. CASE Power
    <2>1. UNCHANGED <<app, link, suspended, connectOnResume, restarts>>
      BY <1>7 DEF Power, Queued, session
    <2>2. CASE Queued(<<Of("Resume")>>) /\ (Calm \/ Faulty)
      <3>1. <<Of("Resume")>> \in Seq(Event) /\ Count(<<Of("Resume")>>, Costs) = 0
        BY Weights, Events, OneType DEF OfClient, Unit
      <3>2. Asleep' /\ Spent' <= Spent
        BY <1>a, <2>1, <2>2, <3>1, SpendsNothing DEF Queued
      <3> QED BY <1>b, <2>2, <3>2
    <2>3. CASE Queued(<<Of("Suspend")>>) /\ Faulty
      <3>1. <<Of("Suspend")>> \in Seq(Event) /\ Count(<<Of("Suspend")>>, Costs) = 1
        BY Weights, Events, OneType DEF OfClient, Unit
      <3>2. Count(queue', Costs) = Count(queue, Costs) + 1
        BY <2>3, <3>1, Put DEF Queued
      <3>3. Spent' = Spent + 1
        BY <2>1, <3>2, Numbers, Units DEF Spent
      <3>4. faults' = faults + 1
        BY <2>3 DEF Faulty
      <3> QED BY <1>a, <2>1, <3>3, <3>4 DEF Spends, Asleep
    <2> QED BY <1>7, <2>2, <2>3 DEF Power, Perhaps
  <1>8. ASSUME NEW c \in Conn,
               \/ Opens(c) \/ HandshakeFails(c) \/ DialFails(c)
               \/ ReachesClient(c) \/ ReachesServer(c) \/ Cuts(c)
        PROVE  Spends'
    <2>1. ASSUME NEW t \in OfStream
          PROVE  <<On(t, c)>> \in Seq(Event) /\ Count(<<On(t, c)>>, Costs) = 0
      <3>1. On(t, c) \in Event /\ Count(<<On(t, c)>>, Costs) = 0
        BY Events, Weights
      <3> QED BY <3>1, OneType
    <2>2. \A es \in Gone(c) : es \in Seq(Event) /\ Count(es, Costs) = 0
      <3>1. "gone" \in OfStream
        BY DEF OfStream
      <3>2. Count(<<On("gone", c)>>, Costs) = 0 /\ Count(<<On("gone", c), On("gone", c)>>, Costs) = 0
        BY <3>1, Weights
      <3> QED BY <3>2, EndsType DEF Gone
    <2>3. \A es \in Gone(c) : IfMine(c, es) \in Seq(Event) /\ Count(IfMine(c, es), Costs) = 0
      BY <2>2, Weights DEF IfMine
    <2>4. UNCHANGED client \/ \E es \in Seq(Event) : Count(es, Costs) = 0 /\ Queued(es)
      BY <1>8, <2>1, <2>2, <2>3
         DEF Opens, HandshakeFails, DialFails, ReachesClient, ReachesServer, Cuts, OfStream
    <2>5. Asleep' /\ Spent' <= Spent
      BY <1>a, <2>4, SpendsNothing, Weights DEF Queued, client, session
    <2>6. Calm \/ Faulty
      BY <1>8 DEF Opens, HandshakeFails, DialFails, ReachesClient, ReachesServer, Cuts, Perhaps
    <2> QED BY <1>b, <2>5, <2>6
  <1>9. CASE ServerLoop \/ Drops \/ (\E c \in Conn : ServerTimer(c)) \/ UNCHANGED vars
    <2>1. UNCHANGED client /\ (Calm \/ Faulty)
      BY <1>9 DEF ServerLoop, Drops, ServerTimer, Perhaps, vars, Calm
    <2>2. Asleep' /\ Spent' <= Spent
      BY <1>a, <2>1, SpendsNothing, Weights DEF client, session
    <2> QED BY <1>b, <2>1, <2>2
  <1> QED
    BY <1>1, <1>2, <1>3, <1>4, <1>5, <1>6, <1>7, <1>8, <1>9 DEF Next

LEMMA SpendsInit == Init => Spends
  <1> SUFFICES ASSUME Init PROVE Spends
    OBVIOUS
  <1>1. restarts = 0 /\ link = None /\ queue = <<>> /\ app = "starting" /\ ~connectOnResume
        /\ ~suspended /\ faults = 0
    BY DEF Init, ClientInit
  <1> QED BY <1>1, Weights DEF Spends, Asleep, Spent, Unit

(* The ways to dial are among what is spent.                                *)
LEMMA SpendsIsBound == TypeOK /\ Spends => RestartsBounded
  <1> SUFFICES ASSUME TypeOK, Spends PROVE Dials <= 1 + faults
    BY DEF RestartsBounded
  <1> DEFINE A == {i \in 1..Len(queue) : queue[i] \in Endings}
             B == {i \in 1..Len(queue) : queue[i] \in Costs}
  <1>1. IsFiniteSet(B) /\ A \subseteq B
    <2>1. Len(queue) \in Int
      BY Numbers
    <2>2. IsFiniteSet(1..Len(queue))
      BY <2>1, FS_Interval
    <2>3. IsFiniteSet(B)
      BY <2>2, FS_Subset
    <2> QED BY <2>3 DEF Endings, Costs
  <1>2. Cardinality(A) \in Nat /\ Cardinality(B) \in Nat /\ Cardinality(A) <= Cardinality(B)
    BY <1>1, FS_Subset, FS_CardinalityType
  <1>3. Count(queue, Endings) \in Nat /\ Count(queue, Endings) <= Count(queue, Costs)
    BY <1>2 DEF Count
  <1>4. (IF link = None THEN 0 ELSE 1) = Unit(link # None)
    BY DEF Unit
  <1>5. Dials <= Spent
    BY <1>3, <1>4, Numbers, Units DEF Dials, Spent
  <1>6. Dials \in Int /\ Spent \in Int
    BY <1>3, <1>4, Numbers, Units DEF Dials, Spent
  <1> QED BY <1>5, <1>6, Numbers DEF Spends

-----------------------------------------------------------------------------
(* Every connection of the server has one owner.  A connection is new to the *)
(* listener until it is accepted, its unknown client decides once, by        *)
(* success or failure, and who does not live is with nobody.                 *)

In(q)     == {q[i] : i \in 1..Len(q)}
NoneOf(c) == \A e \in In(events) : e.of # c
Sole(c)   == \A i, j \in 1..Len(events) : events[i].of = c /\ events[j].of = c => i = j
Young     == {"dialing", "nobody", "accepted"}
Lives(c)  == c \in newClients \cup proxies

Comes(c) ==
  /\ net[c] \in Young => ~Lives(c) /\ NoneOf(c)
  /\ Notice("accepted", c) \in In(events) => ~Lives(c) /\ Sole(c)
Arriving == \A c \in Conn : Comes(c)
Parts ==
  /\ streams \subseteq newClients /\ timers \subseteq newClients
  /\ ready \subseteq newClients \cap proxies /\ listening \subseteq proxies
Decides(c) ==
  /\ c \in timers => Notice("success", c) \notin In(events) /\ Notice("failure", c) \notin In(events)
  /\ c \in proxies <=> c \notin streams /\ Notice("failure", c) \notin In(events)
  /\ Notice("success", c) \in In(events) /\ c \in proxies => c \in ready
Deciding == \A c \in newClients : Decides(c)
OneOwner ==
  /\ \A i, j \in 1..Len(waiting) : waiting[i] = waiting[j] => i = j
  /\ proxies \ newClients = In(waiting) \cup ({serving} \ {None}) \cup closing
  /\ newClients \cap (In(waiting) \cup {serving} \cup closing) = {}
  /\ In(waiting) \cap ({serving} \cup closing) = {}
  /\ serving \notin closing
Owned == Arriving /\ Parts /\ Deciding /\ OneOwner /\ Announcements >= Len(waiting)
OwnersInv == ~crashed => Owned

LEMMA InConcat ==
  ASSUME NEW T, NEW q \in Seq(T), NEW r \in Seq(T)
  PROVE  In(q \o r) = In(q) \cup In(r)
  <1>1. /\ Len(q) \in Nat /\ Len(r) \in Nat /\ Len(q \o r) = Len(q) + Len(r)
        /\ \A i \in 1..Len(q) : (q \o r)[i] = q[i]
        /\ \A i \in (Len(q) + 1)..(Len(q) + Len(r)) : (q \o r)[i] = r[i - Len(q)]
    BY ConcatProperties
  <1>2. ASSUME NEW e \in In(q \o r) PROVE e \in In(q) \cup In(r)
    <2>1. PICK i \in 1..(Len(q) + Len(r)) : e = (q \o r)[i]
      BY <1>1, <1>2 DEF In
    <2>2. CASE i <= Len(q)
      BY <1>1, <2>1, <2>2 DEF In
    <2>3. CASE i > Len(q)
      <3>1. i - Len(q) \in 1..Len(r) /\ e = r[i - Len(q)]
        BY <1>1, <2>1, <2>3
      <3> QED BY <3>1 DEF In
    <2> QED BY <1>1, <2>2, <2>3
  <1>3. ASSUME NEW e \in In(q) PROVE e \in In(q \o r)
    <2>1. PICK i \in 1..Len(q) : e = q[i]
      BY <1>3 DEF In
    <2>2. i \in 1..Len(q \o r) /\ e = (q \o r)[i]
      BY <1>1, <2>1
    <2> QED BY <2>2 DEF In
  <1>4. ASSUME NEW e \in In(r) PROVE e \in In(q \o r)
    <2>1. PICK i \in 1..Len(r) : e = r[i]
      BY <1>4 DEF In
    <2>2. i + Len(q) \in 1..Len(q \o r) /\ e = (q \o r)[i + Len(q)]
      BY <1>1, <2>1
    <2> QED BY <2>2 DEF In
  <1> QED BY <1>2, <1>3, <1>4

LEMMA InOne == (\A e : In(<<e>>) = {e}) /\ In(<<>>) = {}
  <1>1. ASSUME NEW e PROVE In(<<e>>) = {e}
    <2>1. Len(<<e>>) = 1 /\ <<e>>[1] = e
      OBVIOUS
    <2> QED BY <2>1 DEF In
  <1>2. In(<<>>) = {}
    BY DEF In
  <1> QED BY <1>1, <1>2

LEMMA InTail ==
  ASSUME NEW T, NEW q \in Seq(T), q # <<>>
  PROVE  In(q) = {Head(q)} \cup In(Tail(q)) /\ Tail(q) \in Seq(T) /\ Head(q) \in T
  <1>1. Head(q) \in T /\ Tail(q) \in Seq(T) /\ <<Head(q)>> \in Seq(T)
    BY HeadTailProperties
  <1>2. q = <<Head(q)>> \o Tail(q)
    OBVIOUS
  <1>3. In(<<Head(q)>> \o Tail(q)) = In(<<Head(q)>>) \cup In(Tail(q))
    BY <1>1, InConcat
  <1>4. In(q) = In(<<Head(q)>>) \cup In(Tail(q))
    BY <1>2, <1>3
  <1> QED BY <1>1, <1>4, InOne

LEMMA InAppend ==
  ASSUME NEW T, NEW q \in Seq(T), NEW e \in T
  PROVE  In(Append(q, e)) = In(q) \cup {e}
  <1>1. Append(q, e) = q \o <<e>> /\ <<e>> \in Seq(T)
    OBVIOUS
  <1>2. In(q \o <<e>>) = In(q) \cup In(<<e>>)
    BY <1>1, InConcat
  <1> QED BY <1>1, <1>2, InOne

LEMMA CountSwapped ==
  ASSUME NEW T, NEW q \in Seq(T), q # <<>>, NEW r \in Seq(T), NEW S, Head(q) \notin S
  PROVE  Count(q, S) \in Nat /\ Count(Tail(q) \o r, S) = Count(q, S) + Count(r, S)
  <1>1. /\ Count(q, S) \in Nat /\ Count(r, S) \in Nat
        /\ q # <<>> => Count(Tail(q) \o r, S)
                         = Count(q, S) - (IF Head(q) \in S THEN 1 ELSE 0) + Count(r, S)
    BY CountPosted
  <1> QED BY <1>1

LEMMA InTaken ==
  ASSUME NEW T, NEW q \in Seq(T), q # <<>>, NEW r \in Seq(T)
  PROVE  In(Tail(q) \o r) = In(Tail(q)) \cup In(r)
  <1>1. Tail(q) \in Seq(T)
    BY HeadTailProperties
  <1> QED BY <1>1, InConcat

(* How a handler moves the events: it takes one or not, and raises some.    *)
Takes(es) == events # <<>> /\ Raising(es)
Adds(es)  == events' = events \o es

LEMMA Moved ==
  ASSUME events \in Seq(AnyNotice), NEW es \in Seq(AnyNotice)
  PROVE  /\ Takes(es) => /\ In(events) = {Head(events)} \cup In(Tail(events))
                         /\ In(events') = In(Tail(events)) \cup In(es)
                         /\ Head(events) \in AnyNotice
         /\ Adds(es) => In(events') = In(events) \cup In(es)
  <1>1. ASSUME Takes(es)
        PROVE  /\ In(events) = {Head(events)} \cup In(Tail(events)) /\ Head(events) \in AnyNotice
               /\ In(events') = In(Tail(events)) \cup In(es)
    <2>1. events # <<>> /\ events' = Tail(events) \o es
      BY <1>1 DEF Takes, Raising
    <2>2. /\ In(events) = {Head(events)} \cup In(Tail(events)) /\ Head(events) \in AnyNotice
          /\ Tail(events) \in Seq(AnyNotice)
      BY <2>1, InTail
    <2>3. In(Tail(events) \o es) = In(Tail(events)) \cup In(es)
      BY <2>1, InTaken
    <2> QED BY <2>1, <2>2, <2>3
  <1>2. In(events \o es) = In(events) \cup In(es)
    BY InConcat
  <1> QED BY <1>1, <1>2 DEF Adds

(* Who has at most one event keeps it at one while no other comes ...       *)
LEMMA SoleKept ==
  ASSUME events \in Seq(AnyNotice), NEW es \in Seq(AnyNotice), Takes(es) \/ Adds(es),
         NEW c, Sole(c), \A e \in In(es) : e.of # c
  PROVE  Sole(c)'
  <1> DEFINE n == Len(events)
             m == Len(es)
             s == events'
  <1>0. n \in Nat /\ m \in Nat /\ \A k \in 1..m : es[k].of # c
    BY DEF In
  <1>1. CASE Adds(es)
    <2>1. /\ Len(s) = n + m
          /\ \A k \in 1..n : s[k] = events[k]
          /\ \A k \in (n + 1)..(n + m) : s[k] = es[k - n]
      BY <1>1, ConcatProperties DEF Adds
    <2>2. \A k \in 1..Len(s) : s[k].of = c => k \in 1..n /\ events[k].of = c
      <3>1. SUFFICES ASSUME NEW k \in 1..(n + m), s[k].of = c PROVE k \in 1..n /\ events[k].of = c
        BY <2>1
      <3>2. k \notin (n + 1)..(n + m)
        <4>1. ASSUME k \in (n + 1)..(n + m) PROVE FALSE
          <5>1. k - n \in 1..m /\ s[k] = es[k - n]
            BY <1>0, <2>1, <4>1
          <5> QED BY <1>0, <3>1, <5>1
        <4> QED BY <4>1
      <3>3. k \in 1..n
        BY <1>0, <3>2
      <3> QED BY <2>1, <3>1, <3>3
    <2> QED BY <2>2 DEF Sole
  <1>2. CASE Takes(es)
    <2>1. /\ n >= 1 /\ Len(s) = (n - 1) + m
          /\ \A k \in 1..(n - 1) : s[k] = events[k + 1]
          /\ \A k \in n..((n - 1) + m) : s[k] = es[k - (n - 1)]
      <3>1. Tail(events) \in Seq(AnyNotice) /\ Len(Tail(events)) = n - 1 /\ n >= 1
            /\ \A k \in 1..(n - 1) : Tail(events)[k] = events[k + 1]
        BY <1>2, HeadTailProperties, EmptySeq, LenProperties DEF Takes
      <3>2. /\ Len(s) = Len(Tail(events)) + m
            /\ \A k \in 1..Len(Tail(events)) : s[k] = Tail(events)[k]
            /\ \A k \in (Len(Tail(events)) + 1)..(Len(Tail(events)) + m) : s[k] = es[k - Len(Tail(events))]
        BY <1>2, <3>1, ConcatProperties DEF Takes, Raising
      <3> QED BY <1>0, <3>1, <3>2
    <2>2. \A k \in 1..Len(s) : s[k].of = c => k + 1 \in 1..n /\ events[k + 1].of = c
      <3>1. SUFFICES ASSUME NEW k \in 1..((n - 1) + m), s[k].of = c
                     PROVE k + 1 \in 1..n /\ events[k + 1].of = c
        BY <2>1
      <3>2. k \notin n..((n - 1) + m)
        <4>1. ASSUME k \in n..((n - 1) + m) PROVE FALSE
          <5>1. k - (n - 1) \in 1..m /\ s[k] = es[k - (n - 1)]
            BY <1>0, <2>1, <4>1
          <5> QED BY <1>0, <3>1, <5>1
        <4> QED BY <4>1
      <3>3. k \in 1..(n - 1)
        BY <1>0, <2>1, <3>2
      <3> QED BY <1>0, <2>1, <3>1, <3>3
    <2>3. \A i, j \in 1..Len(s) : s[i].of = c /\ s[j].of = c => i + 1 = j + 1
      BY <2>2 DEF Sole
    <2>4. \A i, j \in 1..Len(s) : i + 1 = j + 1 => i = j
      BY <1>0, <2>1
    <2> QED BY <2>3, <2>4 DEF Sole
  <1> QED BY <1>1, <1>2

(* ... is at one when the first comes, and at none when it is taken.        *)
LEMMA SoleFirst ==
  ASSUME events \in Seq(AnyNotice), NEW e \in AnyNotice, Adds(<<e>>), NoneOf(e.of)
  PROVE  Sole(e.of)'
  <1> DEFINE n == Len(events)
             s == events'
  <1>1. /\ n \in Nat /\ Len(s) = n + 1
        /\ \A k \in 1..n : s[k] = events[k]
    BY OneType, ConcatProperties DEF Adds
  <1>2. \A k \in 1..n : events[k].of # e.of
    BY DEF NoneOf, In
  <1>3. \A k \in 1..Len(s) : s[k].of = e.of => k = n + 1
    BY <1>1, <1>2
  <1> QED BY <1>3 DEF Sole

LEMMA SoleTaken ==
  ASSUME events \in Seq(AnyNotice), events # <<>>, Sole(Head(events).of)
  PROVE  \A e \in In(Tail(events)) : e.of # Head(events).of
  <1>1. /\ Len(events) \in Nat /\ Len(events) >= 1 /\ Head(events) = events[1]
        /\ Len(Tail(events)) = Len(events) - 1
        /\ \A k \in 1..(Len(events) - 1) : Tail(events)[k] = events[k + 1]
    BY HeadTailProperties, EmptySeq, LenProperties
  <1>2. SUFFICES ASSUME NEW k \in 1..(Len(events) - 1), events[k + 1].of = events[1].of PROVE FALSE
    BY <1>1 DEF In
  <1>3. k + 1 \in 1..Len(events) /\ 1 \in 1..Len(events) /\ k + 1 # 1
    BY <1>1
  <1> QED BY <1>1, <1>2, <1>3 DEF Sole

(* What each part of the invariant needs to be kept.                        *)
LEMMA NoticeParts ==
  /\ \A k, c : Notice(k, c).kind = k /\ Notice(k, c).of = c
  /\ Announced.kind = "clientAccepted" /\ Announced.of = None
  /\ \A k, c, l, d : Notice(k, c) = Notice(l, d) => k = l /\ c = d
  BY DEF Notice, Announced

LEMMA ListenerTypes ==
  ASSUME TypeOK
  PROVE  /\ events \in Seq(AnyNotice) /\ waiting \in Seq(Conn) /\ serving \in Conn \cup {None}
         /\ newClients \subseteq Conn /\ proxies \subseteq Conn /\ closing \subseteq Conn
         /\ streams \subseteq Conn /\ net \in [Conn -> Stage] /\ None \notin Conn
  BY WireAssumption DEF TypeOK, ListenerTypeOK, WireTypeOK, AnyNotice

LEMMA ComesKept ==
  ASSUME TypeOK, NEW d \in Conn, Comes(d), NEW es \in Seq(AnyNotice), Takes(es) \/ Adds(es),
         net'[d] \in Young => net[d] \in Young \/ (~Lives(d) /\ NoneOf(d)),
         Lives(d)' => Lives(d),
         \A e \in In(es) : e.of = d => e.kind # "accepted" /\ Lives(d)
  PROVE  Comes(d)'
  <1>1. \A e \in In(events') : e \in In(events) \/ e \in In(es)
    BY Moved, ListenerTypes
  <1>2. ASSUME net'[d] \in Young PROVE ~Lives(d)' /\ NoneOf(d)'
    <2>1. ~Lives(d) /\ NoneOf(d)
      BY <1>2 DEF Comes
    <2> QED BY <1>1, <2>1 DEF NoneOf
  <1>3. ASSUME Notice("accepted", d) \in In(events') PROVE ~Lives(d)' /\ Sole(d)'
    <2>1. Notice("accepted", d) \in In(events)
      BY <1>1, <1>3, NoticeParts
    <2>2. ~Lives(d) /\ Sole(d)
      BY <2>1 DEF Comes
    <2>3. \A e \in In(es) : e.of # d
      BY <2>2
    <2> QED BY <2>2, <2>3, SoleKept, ListenerTypes
  <1> QED BY <1>2, <1>3 DEF Comes

LEMMA DecidesKept ==
  ASSUME TypeOK, NEW d, Decides(d), NEW es \in Seq(AnyNotice),
         Adds(es) \/ (Takes(es) /\ Head(events) # Notice("failure", d)),
         d \in timers' => d \in timers, d \in streams' <=> d \in streams,
         d \in proxies' <=> d \in proxies, d \in ready => d \in ready',
         \A e \in In(es) : e.of = d => e.kind \notin {"success", "failure"}
  PROVE  Decides(d)'
  <1>1. \A e \in In(events') : e \in In(events) \/ e \in In(es)
    BY Moved, ListenerTypes
  <1>2. Notice("failure", d) \in In(events) => Notice("failure", d) \in In(events')
    BY Moved, ListenerTypes
  <1>3. Notice("success", d) \notin In(es) /\ Notice("failure", d) \notin In(es)
    BY NoticeParts
  <1>4. Notice("success", d) \in In(events') => Notice("success", d) \in In(events)
    BY <1>1, <1>3
  <1>5. Notice("failure", d) \in In(events') <=> Notice("failure", d) \in In(events)
    BY <1>1, <1>2, <1>3
  <1> QED BY <1>4, <1>5 DEF Decides

(* An announcement is taken only with one who waits.                        *)
LEMMA AnnouncedKept ==
  ASSUME TypeOK, Announcements >= Len(waiting), NEW es \in Seq(AnyNotice),
         Adds(es) \/ (Takes(es) /\ Head(events) # Announced), waiting' = waiting
  PROVE  Announcements' >= Len(waiting')
  <1>1. /\ Count(events, {Announced}) \in Nat /\ Count(es, {Announced}) \in Nat
        /\ Count(events \o es, {Announced}) = Count(events, {Announced}) + Count(es, {Announced})
        /\ events # <<>> => Count(Tail(events) \o es, {Announced})
                              = Count(events, {Announced})
                                  - (IF Head(events) \in {Announced} THEN 1 ELSE 0) + Count(es, {Announced})
    BY ListenerTypes, CountPosted
  <1>2. Len(waiting) \in Nat
    BY ListenerTypes
  <1>3. Count(events', {Announced}) = Count(events, {Announced}) + Count(es, {Announced})
    <2>1. CASE Adds(es)
      BY <1>1, <2>1 DEF Adds
    <2>2. CASE Takes(es) /\ Head(events) # Announced
      <3>1. events # <<>> /\ events' = Tail(events) \o es /\ Head(events) \notin {Announced}
        BY <2>2 DEF Takes, Raising
      <3> QED BY <1>1, <3>1
    <2> QED BY <2>1, <2>2
  <1> QED BY <1>1, <1>2, <1>3 DEF Announcements

LEMMA OneOwnerKept ==
  ASSUME TypeOK, OneOwner, UNCHANGED owners,
         newClients' \subseteq Conn, newClients' \cap (proxies \ newClients) = {},
         proxies' \ newClients' = proxies \ newClients
  PROVE  OneOwner'
  <1>1. waiting' = waiting /\ serving' = serving /\ closing' = closing
    BY DEF owners
  <1>2. /\ \A i, j \in 1..Len(waiting) : waiting[i] = waiting[j] => i = j
        /\ proxies \ newClients = In(waiting) \cup ({serving} \ {None}) \cup closing
        /\ In(waiting) \cap ({serving} \cup closing) = {} /\ serving \notin closing
    BY DEF OneOwner
  <1>3. newClients' \cap (In(waiting) \cup {serving} \cup closing) = {}
    BY <1>2, ListenerTypes
  <1> QED BY <1>1, <1>2, <1>3 DEF OneOwner

LEMMA SomeType ==
  /\ <<>> \in Seq(AnyNotice) /\ In(<<>>) = {}
  /\ \A k \in Notices : \A c \in Conn : <<Notice(k, c)>> \in Seq(AnyNotice)
  /\ <<Announced>> \in Seq(AnyNotice) /\ \A e : In(<<e>>) = {e}
  <1>1. Announced \in AnyNotice
    BY DEF AnyNotice
  <1> QED BY <1>1, Noticed, OneType, NoneType, InOne

-----------------------------------------------------------------------------
(* Handlers of a connection that is not a proxy of an owner.                *)

LEMMA AcceptedOwned ==
  ASSUME TypeOK, Owned, NEW c \in Conn, HandleClientAccepted(c)
  PROVE  Owned'
  <1> USE ListenerTypes, SomeType
  <1>1. /\ Takes(<<>>) /\ Head(events) = Notice("accepted", c) /\ events # <<>>
        /\ newClients' = newClients \cup {c} /\ streams' = streams \cup {c} /\ timers' = timers \cup {c}
        /\ UNCHANGED <<ready, proxies, listening, waiting, serving, closing, net>>
    BY DEF HandleClientAccepted, Noticing, Takes, proxy, owners
  <1>2. Notice("accepted", c) \in In(events)
    BY <1>1, Moved
  <1>3. ~Lives(c) /\ Sole(c) /\ Head(events).of = c
    BY <1>1, <1>2, NoticeParts DEF Owned, Arriving, Comes
  <1>4. /\ In(events') = In(Tail(events))
        /\ \A e \in In(Tail(events)) : e.of # c
    <2>1. In(events') = In(Tail(events)) \cup In(<<>>)
      BY <1>1, Moved
    <2>2. \A e \in In(Tail(events)) : e.of # c
      BY <1>1, <1>3, SoleTaken
    <2> QED BY <2>1, <2>2
  <1>5. Arriving'
    <2>1. ASSUME NEW d \in Conn, d # c PROVE Comes(d)'
      BY <1>1, <2>1, ComesKept DEF Owned, Arriving, Lives
    <2>2. Comes(c)'
      <3>1. net[c] \notin Young
        BY <1>2, <1>3, NoticeParts DEF Owned, Arriving, Comes, NoneOf
      <3>2. Notice("accepted", c) \notin In(events')
        BY <1>4, NoticeParts
      <3> QED BY <1>1, <3>1, <3>2 DEF Comes
    <2> QED BY <2>1, <2>2 DEF Arriving
  <1>6. Parts'
    BY <1>1 DEF Owned, Parts
  <1>7. Deciding'
    <2>1. ASSUME NEW d \in newClients PROVE Decides(d)'
      <3>1. d # c
        BY <1>3 DEF Lives
      <3>2. Decides(d) /\ Head(events) # Notice("failure", d)
        BY <1>1, NoticeParts DEF Owned, Deciding
      <3> QED BY <1>1, <3>1, <3>2, DecidesKept
    <2>2. Decides(c)'
      <3>1. Notice("success", c) \notin In(events') /\ Notice("failure", c) \notin In(events')
        BY <1>4, NoticeParts
      <3> QED BY <1>1, <1>3, <3>1 DEF Decides, Lives
    <2> QED BY <1>1, <2>1, <2>2 DEF Deciding
  <1>8. OneOwner'
    BY <1>1, <1>3, OneOwnerKept DEF Owned, Lives, owners
  <1>9. Announcements' >= Len(waiting')
    BY <1>1, AnnouncedKept, NoticeParts DEF Owned
  <1> QED BY <1>5, <1>6, <1>7, <1>8, <1>9 DEF Owned

(* The unknown client fails, and gives up the proxy.                        *)
LEMMA FailureOwned ==
  ASSUME TypeOK, Owned, NEW c \in newClients, UNCHANGED net,
         \/ Quiet /\ SendFailure(c, events)
         \/ \E k : k # "failure" /\ Noticing(k, c) /\ SendFailure(c, Tail(events))
  PROVE  Owned'
  <1> USE ListenerTypes, SomeType
  <1> DEFINE es == <<Notice("failure", c)>>
  <1>1. es \in Seq(AnyNotice) /\ In(es) = {Notice("failure", c)}
    BY DEF Notices
  <1>2. \/ Adds(es)
        \/ Takes(es) /\ \E k : k # "failure" /\ Head(events) = Notice(k, c)
    <2>1. \A s \in Seq(AnyNotice) : Append(s, Notice("failure", c)) = s \o es
      OBVIOUS
    <2>2. CASE Quiet /\ SendFailure(c, events)
      BY <2>1, <2>2 DEF SendFailure, Adds
    <2>3. ASSUME NEW k, k # "failure", Noticing(k, c), SendFailure(c, Tail(events))
          PROVE  Takes(es) /\ Head(events) = Notice(k, c)
      <3>1. events # <<>> /\ Head(events) = Notice(k, c) /\ Tail(events) \in Seq(AnyNotice)
        BY <2>3, TakeType DEF Noticing
      <3> QED BY <2>1, <2>3, <3>1 DEF SendFailure, Takes, Raising
    <2> QED BY <2>2, <2>3
  <1>3. /\ timers' = timers \ {c} /\ ready' = ready \ {c}
        /\ proxies' = proxies \ {c} /\ listening' = listening \ {c}
        /\ UNCHANGED <<newClients, streams, waiting, serving, closing>>
    BY DEF SendFailure, DeleteProxy, owners
  <1> HIDE DEF es
  <1>4. Arriving'
    <2>1. ASSUME NEW d \in Conn PROVE Comes(d)'
      <3>1. Comes(d)
        BY DEF Owned, Arriving
      <3>2. Lives(d)' => Lives(d)
        BY <1>3 DEF Lives
      <3>3. \A e \in In(es) : e.of = d => e.kind # "accepted" /\ Lives(d)
        BY <1>1, NoticeParts DEF Lives
      <3> QED BY <1>1, <1>2, <3>1, <3>2, <3>3, ComesKept
    <2> QED BY <2>1 DEF Arriving
  <1>5. Parts'
    BY <1>3 DEF Owned, Parts
  <1>6. Deciding'
    <2>1. ASSUME NEW d \in newClients, d # c PROVE Decides(d)'
      <3>1. Decides(d)
        BY DEF Owned, Deciding
      <3>2. \A e \in In(es) : e.of # d
        BY <1>1, <2>1, NoticeParts
      <3>3. Adds(es) \/ (Takes(es) /\ Head(events) # Notice("failure", d))
        BY <1>2, NoticeParts
      <3> QED BY <1>1, <1>2, <1>3, <2>1, <3>1, <3>2, <3>3, DecidesKept
    <2>2. Decides(c)'
      <3>1. Notice("failure", c) \in In(events')
        BY <1>1, <1>2, Moved
      <3> QED BY <1>3, <3>1 DEF Decides
    <2> QED BY <1>3, <2>1, <2>2 DEF Deciding
  <1>7. OneOwner'
    BY <1>3, OneOwnerKept DEF Owned, owners
  <1>8. Announcements' >= Len(waiting')
    <2>1. Adds(es) \/ (Takes(es) /\ Head(events) # Announced)
      BY <1>2, NoticeParts
    <2> QED BY <1>1, <1>2, <1>3, <2>1, AnnouncedKept DEF Owned
  <1> QED BY <1>4, <1>5, <1>6, <1>7, <1>8 DEF Owned

(* A step that only takes or adds notices nobody decides on.                *)
LEMMA NoticesOwned ==
  ASSUME TypeOK, Owned, NEW es \in Seq(AnyNotice),
         UNCHANGED <<newClients, timers, streams, ready, proxies, owners>>,
         listening' \subseteq listening,
         \A d \in Conn : net'[d] \in Young => net[d] \in Young \/ (~Lives(d) /\ NoneOf(d)),
         \A e \in In(es) : e.kind \notin {"success", "failure", "accepted"} /\ Lives(e.of),
         \/ Adds(es)
         \/ /\ Takes(es) /\ Head(events) # Announced
            /\ \A d \in newClients : Head(events) # Notice("failure", d)
  PROVE  Owned'
  <1> USE ListenerTypes
  <1>1. Arriving'
    <2>1. ASSUME NEW d \in Conn PROVE Comes(d)'
      BY ComesKept DEF Owned, Arriving, Lives
    <2> QED BY <2>1 DEF Arriving
  <1>2. Parts'
    BY DEF Owned, Parts
  <1>3. Deciding'
    <2>1. ASSUME NEW d \in newClients PROVE Decides(d)'
      <3>1. Decides(d)
        BY DEF Owned, Deciding
      <3> QED BY <3>1, DecidesKept
    <2> QED BY <2>1 DEF Deciding
  <1>4. OneOwner'
    BY OneOwnerKept DEF Owned
  <1>5. Announcements' >= Len(waiting')
    BY AnnouncedKept DEF Owned, owners
  <1> QED BY <1>1, <1>2, <1>3, <1>4, <1>5 DEF Owned

LEMMA UnknownFailsOwned ==
  ASSUME TypeOK, Owned, NEW c \in Conn,
         \/ HandleUnknownGone(c) \/ HandleUnknownTimeout(c) \/ HandleProxyLost(c)
         \/ HandleHelloBack(c) /\ ~(Spoken(up, c) /\ Head(up[c]) = "helloBack")
  PROVE  Owned'
  <1>1. c \in newClients /\ UNCHANGED net
    BY DEF HandleUnknownGone, HandleUnknownTimeout, HandleProxyLost, HandleHelloBack, Unknown,
           Owned, Parts, wire
  <1>2. \/ Quiet /\ SendFailure(c, events)
        \/ \E k : k # "failure" /\ Noticing(k, c) /\ SendFailure(c, Tail(events))
    BY DEF HandleUnknownGone, HandleUnknownTimeout, HandleProxyLost, HandleHelloBack
  <1> QED BY <1>1, <1>2, FailureOwned

(* The unknown client makes a proxy, which takes the stream.                *)
LEMMA HelloBackOwned ==
  ASSUME TypeOK, Owned, NEW c \in Conn, HandleHelloBack(c)
  PROVE  Owned'
  <1> USE ListenerTypes, SomeType
  <1>1. CASE ~(Spoken(up, c) /\ Head(up[c]) = "helloBack")
    BY <1>1, UnknownFailsOwned
  <1>2. CASE Spoken(up, c) /\ Head(up[c]) = "helloBack"
    <2>1. /\ Takes(<<>>) /\ Head(events) = Notice("input", c) /\ c \in newClients /\ c \in timers
          /\ streams' = streams \ {c}
          /\ proxies' = proxies \cup {c} /\ listening' = listening \cup {c}
          /\ UNCHANGED <<newClients, timers, ready, waiting, serving, closing, net>>
      BY <1>2 DEF HandleHelloBack, Noticing, Unknown, Takes, owners
    <2>2. In(events') \subseteq In(events)
      BY <2>1, Moved
    <2>3. Arriving'
      BY <2>1, ComesKept DEF Owned, Arriving, Lives
    <2>4. Parts'
      BY <2>1 DEF Owned, Parts
    <2>5. Deciding'
      <3>1. ASSUME NEW d \in newClients, d # c PROVE Decides(d)'
        <4>1. Decides(d) /\ Head(events) # Notice("failure", d)
          BY <2>1, NoticeParts DEF Owned, Deciding
        <4>2. Adds(<<>>) \/ (Takes(<<>>) /\ Head(events) # Notice("failure", d))
          BY <2>1, <4>1
        <4> QED BY <2>1, <3>1, <4>1, <4>2, DecidesKept
      <3>2. Decides(c)'
        <4>1. Notice("success", c) \notin In(events) /\ Notice("failure", c) \notin In(events)
          BY <2>1 DEF Owned, Deciding, Decides
        <4> QED BY <2>1, <2>2, <4>1 DEF Decides
      <3> QED BY <2>1, <3>1, <3>2 DEF Deciding
    <2>6. OneOwner'
      <3>1. proxies' \ newClients' = proxies \ newClients /\ newClients' \cap (proxies \ newClients) = {}
        BY <2>1
      <3>2. UNCHANGED owners /\ newClients' \subseteq Conn /\ OneOwner
        BY <2>1 DEF Owned, owners
      <3> QED BY <3>1, <3>2, OneOwnerKept
    <2>7. Announcements' >= Len(waiting')
      <3>1. Head(events) # Announced
        BY <2>1, NoticeParts
      <3> QED BY <2>1, <3>1, AnnouncedKept DEF Owned
    <2> QED BY <2>3, <2>4, <2>5, <2>6, <2>7 DEF Owned
  <1> QED BY <1>1, <1>2

LEMMA ReadyOwned ==
  ASSUME TypeOK, Owned, NEW c \in Conn, HandleReady(c)
  PROVE  Owned'
  <1> USE ListenerTypes, SomeType
  <1> DEFINE es == <<Notice("success", c)>>
  <1>1. es \in Seq(AnyNotice) /\ In(es) = {Notice("success", c)}
    BY DEF Notices
  <1>2. /\ Takes(es) /\ Head(events) = Notice("ready", c) /\ c \in newClients /\ c \in proxies
        /\ ready' = ready \cup {c} /\ timers' = timers \ {c}
        /\ UNCHANGED <<newClients, streams, proxies, listening, waiting, serving, closing, net>>
    BY DEF HandleReady, Noticing, Takes, proxy, owners, wire
  <1> HIDE DEF es
  <1>3. Arriving'
    <2>1. ASSUME NEW d \in Conn PROVE Comes(d)'
      <3>1. \A e \in In(es) : e.of = d => e.kind # "accepted" /\ Lives(d)
        BY <1>1, <1>2, NoticeParts DEF Lives
      <3> QED BY <1>1, <1>2, <3>1, ComesKept DEF Owned, Arriving, Lives
    <2> QED BY <2>1 DEF Arriving
  <1>4. Parts'
    BY <1>2 DEF Owned, Parts
  <1>5. Deciding'
    <2>1. ASSUME NEW d \in newClients, d # c PROVE Decides(d)'
      <3>1. \A e \in In(es) : e.of # d
        BY <1>1, <2>1, NoticeParts
      <3>2. Decides(d) /\ Head(events) # Notice("failure", d)
        BY <1>2, NoticeParts DEF Owned, Deciding
      <3> QED BY <1>1, <1>2, <2>1, <3>1, <3>2, DecidesKept
    <2>2. Decides(c)'
      <3>1. c \notin streams /\ Notice("failure", c) \notin In(events)
        BY <1>2 DEF Owned, Deciding, Decides
      <3>2. Notice("failure", c) \notin In(events')
        BY <1>1, <1>2, <3>1, Moved, NoticeParts
      <3> QED BY <1>2, <3>1, <3>2 DEF Decides
    <2> QED BY <1>2, <2>1, <2>2 DEF Deciding
  <1>6. OneOwner'
    BY <1>2, OneOwnerKept DEF Owned, owners
  <1>7. Announcements' >= Len(waiting')
    BY <1>1, <1>2, AnnouncedKept, NoticeParts DEF Owned
  <1> QED BY <1>3, <1>4, <1>5, <1>6, <1>7 DEF Owned

(* The unknown client goes: into the waiting list, or with all it had.      *)
LEMMA RemovedOwned ==
  ASSUME TypeOK, Owned, NEW c \in newClients, NEW es \in {<<>>, <<Announced>>}, Takes(es),
         Head(events).of = c, RemoveUnknownClient(c), UNCHANGED <<proxies, listening, net>>
  PROVE  Arriving' /\ Parts' /\ Deciding'
  <1> USE ListenerTypes, SomeType
  <1>1. /\ newClients' = newClients \ {c} /\ timers' = timers \ {c}
        /\ streams' = streams \ {c} /\ ready' = ready \ {c}
    BY DEF RemoveUnknownClient
  <1>2. es \in Seq(AnyNotice) /\ \A e \in In(es) : e.kind = "clientAccepted" /\ e.of = None
    <2>1. CASE es = <<>>
      BY <2>1
    <2>2. CASE es = <<Announced>>
      BY <2>2, NoticeParts
    <2> QED BY <2>1, <2>2
  <1>3. Arriving'
    <2>1. ASSUME NEW d \in Conn PROVE Comes(d)'
      BY <1>1, <1>2, ComesKept DEF Owned, Arriving, Lives
    <2> QED BY <2>1 DEF Arriving
  <1>4. Parts'
    BY <1>1 DEF Owned, Parts
  <1>5. Deciding'
    <2>1. ASSUME NEW d \in newClients, d # c PROVE Decides(d)'
      <3>1. Decides(d) /\ Head(events) # Notice("failure", d)
        BY <2>1, NoticeParts DEF Owned, Deciding
      <3>2. \A e \in In(es) : e.of = d => e.kind \notin {"success", "failure"}
        BY <1>2
      <3> QED BY <1>1, <1>2, <2>1, <3>1, <3>2, DecidesKept
    <2> QED BY <1>1, <2>1 DEF Deciding
  <1> QED BY <1>3, <1>4, <1>5

LEMMA UnknownFailureOwned ==
  ASSUME TypeOK, Owned, NEW c \in Conn, HandleUnknownFailure(c)
  PROVE  Owned'
  <1> USE ListenerTypes, SomeType
  <1>1. /\ Takes(<<>>) /\ Head(events) = Notice("failure", c) /\ c \in newClients
        /\ RemoveUnknownClient(c)
        /\ UNCHANGED <<proxies, listening, waiting, serving, closing, net>>
    BY DEF HandleUnknownFailure, Noticing, Takes, proxy, owners
  <1>2. Arriving' /\ Parts' /\ Deciding'
    BY <1>1, RemovedOwned, NoticeParts
  <1>3. c \notin proxies
    <2>1. Notice("failure", c) \in In(events)
      BY <1>1, Moved
    <2> QED BY <1>1, <2>1 DEF Owned, Deciding, Decides
  <1>4. OneOwner'
    <2>1. /\ newClients' = newClients \ {c} /\ proxies' \ newClients' = proxies \ newClients
          /\ newClients' \cap (proxies \ newClients) = {}
      BY <1>1, <1>3 DEF RemoveUnknownClient
    <2>2. UNCHANGED owners /\ newClients' \subseteq Conn /\ OneOwner
      BY <1>1, <2>1 DEF Owned, owners
    <2> QED BY <2>1, <2>2, OneOwnerKept
  <1>5. Announcements' >= Len(waiting')
    <2>1. Head(events) # Announced
      BY <1>1, NoticeParts
    <2> QED BY <1>1, <2>1, AnnouncedKept DEF Owned
  <1> QED BY <1>2, <1>4, <1>5 DEF Owned

LEMMA UnknownClientOwned ==
  ASSUME TypeOK, Owned, NEW c \in Conn, HandleUnknownClient(c)
  PROVE  Owned'
  <1> USE ListenerTypes, SomeType
  <1>1. /\ events # <<>> /\ Head(events) = Notice("success", c) /\ c \in newClients
        /\ RemoveUnknownClient(c)
        /\ UNCHANGED <<proxies, listening, serving, closing, net>>
    BY DEF HandleUnknownClient, Noticing, proxy
  <1>2. Notice("success", c) \in In(events) /\ Head(events) # Announced
    BY <1>1, InTail, NoticeParts
  <1>3. CASE c \notin ready
    <2>1. Takes(<<>>) /\ waiting' = waiting
      BY <1>1, <1>3 DEF HandleUnknownClient, Takes
    <2>2. Arriving' /\ Parts' /\ Deciding'
      BY <1>1, <2>1, RemovedOwned, NoticeParts
    <2>3. c \notin proxies
      BY <1>1, <1>2, <1>3 DEF Owned, Deciding, Decides
    <2>4. OneOwner'
      BY <1>1, <2>1, <2>3, OneOwnerKept DEF Owned, RemoveUnknownClient, owners
    <2>5. Announcements' >= Len(waiting')
      BY <1>2, <2>1, AnnouncedKept DEF Owned
    <2> QED BY <2>2, <2>4, <2>5 DEF Owned
  <1>4. CASE c \in ready
    <2>1. Takes(<<Announced>>) /\ waiting' = Append(waiting, c)
      BY <1>1, <1>4 DEF HandleUnknownClient, Takes
    <2>2. Arriving' /\ Parts' /\ Deciding'
      BY <1>1, <2>1, RemovedOwned, NoticeParts
    <2>3. c \in proxies /\ newClients' = newClients \ {c}
      BY <1>1, <1>4 DEF Owned, Parts, RemoveUnknownClient
    <2>4. In(waiting') = In(waiting) \cup {c}
      <3>1. waiting \in Seq(Conn) /\ c \in Conn
        OBVIOUS
      <3>2. In(Append(waiting, c)) = In(waiting) \cup {c}
        BY <3>1, InAppend
      <3> QED BY <2>1, <3>2
    <2>5. \A i, j \in 1..Len(waiting') : waiting'[i] = waiting'[j] => i = j
      <3>1. /\ Len(waiting') = Len(waiting) + 1 /\ waiting'[Len(waiting) + 1] = c /\ Len(waiting) \in Nat
            /\ \A i \in 1..Len(waiting) : waiting'[i] = waiting[i]
        BY <2>1, AppendProperties
      <3>2. \A i \in 1..Len(waiting) : waiting[i] # c
        BY <1>1 DEF Owned, OneOwner, In
      <3>3. \A i, j \in 1..Len(waiting) : waiting[i] = waiting[j] => i = j
        BY DEF Owned, OneOwner
      <3>4. \A i \in 1..Len(waiting') : i \in 1..Len(waiting) \/ i = Len(waiting) + 1
        BY <3>1
      <3> QED BY <3>1, <3>2, <3>3, <3>4
    <2>6. OneOwner'
      <3>1. /\ proxies \ newClients = In(waiting) \cup ({serving} \ {None}) \cup closing
            /\ newClients \cap (In(waiting) \cup {serving} \cup closing) = {}
            /\ In(waiting) \cap ({serving} \cup closing) = {} /\ serving \notin closing
        BY DEF Owned, OneOwner
      <3>2. /\ proxies' \ newClients' = In(waiting') \cup ({serving'} \ {None}) \cup closing'
            /\ newClients' \cap (In(waiting') \cup {serving'} \cup closing') = {}
            /\ In(waiting') \cap ({serving'} \cup closing') = {} /\ serving' \notin closing'
        BY <1>1, <2>3, <2>4, <3>1
      <3> QED BY <2>5, <3>2 DEF OneOwner
    <2>7. Announcements' >= Len(waiting')
      <3> DEFINE es == <<Announced>>
      <3>1. events \in Seq(AnyNotice) /\ events # <<>> /\ Head(events) \notin {Announced}
        BY <1>1, <1>2
      <3>2. Count(es, {Announced}) = 1 /\ es \in Seq(AnyNotice) /\ events' = Tail(events) \o es
        BY <2>1, CountOne DEF Takes, Raising
      <3> HIDE DEF es
      <3>3. /\ Count(events, {Announced}) \in Nat
            /\ Count(Tail(events) \o es, {Announced}) = Count(events, {Announced}) + Count(es, {Announced})
        BY <3>1, <3>2, CountSwapped
      <3>4. Len(waiting') = Len(waiting) + 1 /\ Len(waiting) \in Nat
        BY <2>1, AppendProperties
      <3> QED BY <3>2, <3>3, <3>4 DEF Owned, Announcements
    <2> QED BY <2>2, <2>6, <2>7 DEF Owned
  <1> QED BY <1>3, <1>4

-----------------------------------------------------------------------------
(* Handlers that move proxies between their owners, or delete them.         *)

LEMMA OwnersMoved ==
  ASSUME TypeOK, Owned, NEW D \in SUBSET Conn, D \cap newClients = {},
         \/ Adds(<<>>)
         \/ Takes(<<>>) /\ \A d \in newClients : Head(events) # Notice("failure", d),
         UNCHANGED <<newClients, timers, streams, ready, net>>,
         proxies' = proxies \ D, listening' = listening \ D
  PROVE  Arriving' /\ Parts' /\ Deciding'
  <1>1. <<>> \in Seq(AnyNotice) /\ In(<<>>) = {}
    BY SomeType
  <1>2. Arriving'
    <2>1. ASSUME NEW d \in Conn PROVE Comes(d)'
      <3>1. Comes(d) /\ (Lives(d)' => Lives(d))
        BY DEF Owned, Arriving, Lives
      <3> QED BY <1>1, <3>1, ComesKept
    <2> QED BY <2>1 DEF Arriving
  <1>3. Parts'
    BY DEF Owned, Parts
  <1>4. Deciding'
    <2>1. ASSUME NEW d \in newClients PROVE Decides(d)'
      <3>1. Decides(d) /\ (d \in proxies' <=> d \in proxies)
        BY DEF Owned, Deciding
      <3> QED BY <1>1, <3>1, DecidesKept
    <2> QED BY <2>1 DEF Deciding
  <1> QED BY <1>2, <1>3, <1>4

LEMMA AddsNothing == TypeOK /\ UNCHANGED events => Adds(<<>>)
  BY ListenerTypes DEF Adds

LEMMA GoneOwned ==
  ASSUME TypeOK, Owned, NEW c \in Conn, ClientDisconnected(c) \/ ClientCloseTimeout(c)
  PROVE  Owned'
  <1>1. /\ c \in closing \cup {serving} /\ c \notin newClients /\ c \notin In(waiting)
        /\ closing' = closing \ {c} /\ proxies' = proxies \ {c} /\ listening' = listening \ {c}
        /\ serving' = (IF serving = c THEN None ELSE serving)
        /\ UNCHANGED <<newClients, timers, streams, ready, net, waiting>>
    <2>1. c \in closing \cup {serving}
      BY DEF ClientDisconnected, ClientCloseTimeout
    <2>2. c \notin newClients /\ c \notin In(waiting)
      BY <2>1 DEF Owned, OneOwner
    <2>3. closing' = closing \ {c} /\ DeleteProxy(c) /\ UNCHANGED <<objects, wire, waiting>>
      BY DEF ClientDisconnected, ClientCloseTimeout
    <2>4. serving' = IF serving = c THEN None ELSE serving
      <3>1. CASE ClientDisconnected(c)
        BY <3>1 DEF ClientDisconnected
      <3>2. CASE ClientCloseTimeout(c)
        BY <3>2 DEF ClientCloseTimeout, Owned, OneOwner
      <3> QED BY <3>1, <3>2
    <2> QED BY <2>1, <2>2, <2>3, <2>4 DEF DeleteProxy, objects, wire
  <1>2. \/ Adds(<<>>)
        \/ Takes(<<>>) /\ Head(events) = Notice("disconnected", c)
    <2>1. CASE ClientDisconnected(c)
      BY <2>1 DEF ClientDisconnected, Noticing, Takes
    <2>2. CASE ClientCloseTimeout(c)
      BY <2>2, AddsNothing DEF ClientCloseTimeout
    <2> QED BY <2>1, <2>2
  <1>3. \/ Adds(<<>>)
        \/ /\ Takes(<<>>) /\ Head(events) # Announced
           /\ \A d \in newClients : Head(events) # Notice("failure", d)
    BY <1>2, NoticeParts
  <1>4. Arriving' /\ Parts' /\ Deciding'
    <2> DEFINE D == {c}
    <2>1. /\ D \in SUBSET Conn /\ D \cap newClients = {}
          /\ proxies' = proxies \ D /\ listening' = listening \ D
      BY <1>1
    <2> HIDE DEF D
    <2> QED BY <1>1, <1>3, <2>1, OwnersMoved
  <1>5. OneOwner'
    <2>1. /\ \A i, j \in 1..Len(waiting) : waiting[i] = waiting[j] => i = j
          /\ proxies \ newClients = In(waiting) \cup ({serving} \ {None}) \cup closing
          /\ newClients \cap (In(waiting) \cup {serving} \cup closing) = {}
          /\ In(waiting) \cap ({serving} \cup closing) = {} /\ serving \notin closing
      BY DEF Owned, OneOwner
    <2>2. None \notin newClients /\ None \notin In(waiting) /\ None \notin closing /\ c # None
      <3>1. newClients \subseteq Conn /\ closing \subseteq Conn /\ proxies \subseteq Conn /\ None \notin Conn
        BY ListenerTypes
      <3> QED BY <2>1, <3>1
    <2>3. proxies' \ newClients' = In(waiting') \cup ({serving'} \ {None}) \cup closing'
      BY <1>1, <2>1, <2>2
    <2>4. /\ newClients' \cap (In(waiting') \cup {serving'} \cup closing') = {}
          /\ In(waiting') \cap ({serving'} \cup closing') = {} /\ serving' \notin closing'
      BY <1>1, <2>1, <2>2
    <2> QED BY <1>1, <2>1, <2>3, <2>4 DEF OneOwner
  <1>6. Announcements' >= Len(waiting')
    BY <1>1, <1>3, AnnouncedKept, SomeType DEF Owned
  <1> QED BY <1>4, <1>5, <1>6 DEF Owned

LEMMA CloseOwned ==
  ASSUME TypeOK, Owned, CloseClients
  PROVE  Owned'
  <1>1. /\ serving # None /\ serving' = None /\ closing' = closing \cup {serving}
        /\ UNCHANGED <<newClients, timers, streams, ready, proxies, listening, net, waiting, events>>
    BY DEF CloseClients, objects, proxy
  <1>2. Adds(<<>>)
    BY <1>1, AddsNothing
  <1>3. Arriving' /\ Parts' /\ Deciding'
    <2>1. proxies' = proxies \ {} /\ listening' = listening \ {}
      BY <1>1
    <2> QED BY <1>1, <1>2, <2>1, OwnersMoved
  <1>4. OneOwner'
    <2>1. /\ \A i, j \in 1..Len(waiting) : waiting[i] = waiting[j] => i = j
          /\ proxies \ newClients = In(waiting) \cup ({serving} \ {None}) \cup closing
          /\ newClients \cap (In(waiting) \cup {serving} \cup closing) = {}
          /\ In(waiting) \cap ({serving} \cup closing) = {} /\ serving \notin closing
      BY DEF Owned, OneOwner
    <2>2. None \notin newClients /\ None \notin In(waiting) /\ None \notin closing
      <3>1. newClients \subseteq Conn /\ closing \subseteq Conn /\ proxies \subseteq Conn /\ None \notin Conn
        BY ListenerTypes
      <3> QED BY <2>1, <3>1
    <2>3. proxies' \ newClients' = In(waiting') \cup ({serving'} \ {None}) \cup closing'
      BY <1>1, <2>1, <2>2
    <2>4. /\ newClients' \cap (In(waiting') \cup {serving'} \cup closing') = {}
          /\ In(waiting') \cap ({serving'} \cup closing') = {} /\ serving' \notin closing'
      BY <1>1, <2>1, <2>2
    <2> QED BY <1>1, <2>1, <2>3, <2>4 DEF OneOwner
  <1>5. Announcements' >= Len(waiting')
    BY <1>1, <1>2, AnnouncedKept, SomeType DEF Owned
  <1> QED BY <1>3, <1>4, <1>5 DEF Owned

(* Without its head a list without repetitions has neither.                 *)
LEMMA DistinctTail ==
  ASSUME NEW T, NEW q \in Seq(T), q # <<>>, \A i, j \in 1..Len(q) : q[i] = q[j] => i = j
  PROVE  /\ Head(q) \notin In(Tail(q)) /\ Len(Tail(q)) = Len(q) - 1 /\ Len(q) \in Nat
         /\ \A i, j \in 1..Len(Tail(q)) : Tail(q)[i] = Tail(q)[j] => i = j
  <1>1. /\ Len(q) \in Nat /\ Len(q) >= 1 /\ Head(q) = q[1] /\ Len(Tail(q)) = Len(q) - 1
        /\ \A k \in 1..(Len(q) - 1) : Tail(q)[k] = q[k + 1]
    BY HeadTailProperties, EmptySeq, LenProperties
  <1>2. ASSUME NEW k \in 1..(Len(q) - 1), q[k + 1] = q[1] PROVE FALSE
    <2>1. k + 1 \in 1..Len(q) /\ 1 \in 1..Len(q) /\ k + 1 # 1
      BY <1>1
    <2> QED BY <1>2, <2>1
  <1>3. ASSUME NEW i \in 1..(Len(q) - 1), NEW j \in 1..(Len(q) - 1), q[i + 1] = q[j + 1] PROVE i = j
    <2>1. i + 1 \in 1..Len(q) /\ j + 1 \in 1..Len(q)
      BY <1>1
    <2>2. i + 1 = j + 1
      BY <1>3, <2>1
    <2> QED BY <1>1, <2>2
  <1> QED BY <1>1, <1>2, <1>3 DEF In

LEMMA AdoptOwned ==
  ASSUME TypeOK, Owned, AdoptClient
  PROVE  Owned'
  <1>1. /\ Takes(<<>>) /\ Head(events) = Announced /\ events # <<>>
        /\ UNCHANGED <<newClients, timers, streams, ready, proxies, listening, net>>
    BY DEF AdoptClient, Noticing, Announced, Takes, objects, proxy
  <1>2. Arriving' /\ Parts' /\ Deciding'
    <2>1. proxies' = proxies \ {} /\ listening' = listening \ {}
      BY <1>1
    <2>2. \A d \in newClients : Head(events) # Notice("failure", d)
      BY <1>1, NoticeParts
    <2> QED BY <1>1, <2>1, <2>2, OwnersMoved
  <1>3. /\ \A i, j \in 1..Len(waiting) : waiting[i] = waiting[j] => i = j
        /\ proxies \ newClients = In(waiting) \cup ({serving} \ {None}) \cup closing
        /\ newClients \cap (In(waiting) \cup {serving} \cup closing) = {}
        /\ In(waiting) \cap ({serving} \cup closing) = {} /\ serving \notin closing
    BY DEF Owned, OneOwner
  <1>4. Announcements \in Nat /\ Announcements' = Announcements - 1
    <2>1. /\ events \in Seq(AnyNotice) /\ Head(events) \in {Announced} /\ events' = Tail(events) \o <<>>
          /\ Tail(events) \in Seq(AnyNotice)
      BY <1>1, TakeType, ListenerTypes DEF Takes, Raising
    <2>2. events' = Tail(events)
      BY <2>1
    <2>3. Count(Tail(events), {Announced}) = Count(events, {Announced}) - IF Head(events) \in {Announced} THEN 1 ELSE 0
      BY <1>1, <2>1, CountTail
    <2>4. Count(events, {Announced}) \in Nat
      BY <2>1, CountPosted
    <2> QED BY <2>1, <2>2, <2>3, <2>4 DEF Announcements
  <1>5. CASE waiting = <<>>
    <2>1. UNCHANGED <<waiting, serving, closing>>
      BY <1>5 DEF AdoptClient, owners
    <2>2. OneOwner'
      BY <1>1, <1>3, <2>1 DEF OneOwner
    <2>3. Announcements' >= Len(waiting')
      <3>1. Count(events', {Announced}) \in Nat
        <4>1. Tail(events) \in Seq(AnyNotice) /\ <<>> \in Seq(AnyNotice)
          BY <1>1, TakeType, ListenerTypes, SomeType
        <4>2. events' \in Seq(AnyNotice)
          BY <1>1, <4>1 DEF Takes, Raising
        <4> QED BY <4>2, CountPosted
      <3>2. Len(waiting') = 0
        BY <1>5, <2>1
      <3> QED BY <3>1, <3>2 DEF Announcements
    <2> QED BY <1>2, <2>2, <2>3 DEF Owned
  <1>6. CASE waiting # <<>>
    <2> DEFINE c == Head(waiting)
    <2>1. /\ c \in Conn /\ In(waiting) = {c} \cup In(Tail(waiting)) /\ c \notin In(Tail(waiting))
          /\ Len(Tail(waiting)) = Len(waiting) - 1 /\ Len(waiting) \in Nat
          /\ \A i, j \in 1..Len(Tail(waiting)) : Tail(waiting)[i] = Tail(waiting)[j] => i = j
      BY <1>3, <1>6, ListenerTypes, InTail, DistinctTail
    <2>2. /\ waiting' = Tail(waiting)
          /\ \/ serving = None /\ serving' = c /\ closing' = closing
             \/ serving # None /\ serving' = serving /\ closing' = closing \cup {c}
      BY <1>6 DEF AdoptClient
    <2> HIDE DEF c
    <2>3. None \notin newClients /\ None \notin In(waiting) /\ None \notin closing /\ c # None
      <3>1. newClients \subseteq Conn /\ closing \subseteq Conn /\ proxies \subseteq Conn /\ None \notin Conn
        BY ListenerTypes
      <3> QED BY <1>3, <2>1, <3>1
    <2>4. OneOwner'
      <3>1. /\ proxies' \ newClients' = proxies \ newClients /\ newClients' = newClients
            /\ In(waiting') = In(Tail(waiting))
        BY <1>1, <2>2
      <3>2. proxies' \ newClients' = In(waiting') \cup ({serving'} \ {None}) \cup closing'
        BY <1>3, <2>1, <2>2, <2>3, <3>1
      <3>3. newClients' \cap (In(waiting') \cup {serving'} \cup closing') = {}
        BY <1>3, <2>1, <2>2, <2>3, <3>1
      <3>4. In(waiting') \cap ({serving'} \cup closing') = {} /\ serving' \notin closing'
        BY <1>3, <2>1, <2>2, <2>3, <3>1
      <3>5. \A i, j \in 1..Len(waiting') : waiting'[i] = waiting'[j] => i = j
        BY <2>1, <2>2
      <3> QED BY <3>2, <3>3, <3>4, <3>5 DEF OneOwner
    <2>5. Announcements' >= Len(waiting')
      BY <1>4, <2>1, <2>2 DEF Owned
    <2> QED BY <1>2, <2>4, <2>5 DEF Owned
  <1> QED BY <1>5, <1>6

LEMMA StaysOwned ==
  ASSUME TypeOK, Owned, UNCHANGED listener,
         \A d \in Conn : net'[d] \in Young => net[d] \in Young \/ (~Lives(d) /\ NoneOf(d))
  PROVE  Owned'
  <1>1. /\ UNCHANGED <<newClients, timers, streams, ready, proxies, owners, listening, events>>
        /\ listening' \subseteq listening
    BY DEF listener, objects, proxy
  <1> QED BY <1>1, AddsNothing, NoticesOwned, SomeType

(* A notice to one who lives, which nobody decides on.                      *)
LEMMA ToldOwned ==
  ASSUME TypeOK, Owned, NEW c \in Conn, Lives(c), NEW k \in {"input", "gone", "ready", "disconnected"},
         \/ Adds(<<Notice(k, c)>>)
         \/ /\ Takes(<<Notice(k, c)>>)
            /\ \E l \in {"input", "gone"} : Head(events) = Notice(l, c),
         UNCHANGED <<newClients, timers, streams, ready, proxies, owners>>, listening' \subseteq listening,
         \A d \in Conn : net'[d] \in Young => net[d] \in Young
  PROVE  Owned'
  <1> DEFINE es == <<Notice(k, c)>>
  <1>1. es \in Seq(AnyNotice) /\ In(es) = {Notice(k, c)}
    BY SomeType DEF Notices
  <1>2. \/ Adds(es)
        \/ /\ Takes(es) /\ Head(events) # Announced
           /\ \A d \in newClients : Head(events) # Notice("failure", d)
    BY NoticeParts
  <1> HIDE DEF es
  <1>3. \A e \in In(es) : e.kind \notin {"success", "failure", "accepted"} /\ Lives(e.of)
    BY <1>1, NoticeParts
  <1> QED BY <1>1, <1>2, <1>3, NoticesOwned

(* A notice is taken, and nothing else happens to owners.                   *)
LEMMA TakenOwned ==
  ASSUME TypeOK, Owned, Takes(<<>>), Head(events) # Announced,
         \A d \in newClients : Head(events) # Notice("failure", d),
         UNCHANGED <<newClients, timers, streams, ready, proxies, listening, owners, net>>
  PROVE  Owned'
  <1>1. listening' \subseteq listening
    OBVIOUS
  <1> QED BY <1>1, NoticesOwned, SomeType

LEMMA ProxyOwned ==
  ASSUME TypeOK, Owned, NEW c \in Conn, HandleProxyData(c) \/ HandleProxyGone(c) \/ HandleFlatline(c)
  PROVE  Owned'
  <1>1. /\ Lives(c) /\ listening' \subseteq listening
        /\ UNCHANGED <<newClients, timers, streams, ready, proxies, owners, net>>
    BY DEF HandleProxyData, HandleProxyGone, HandleFlatline, Disconnect, Owned, Parts, Lives, objects
  <1>2. CASE HandleProxyData(c)
    <2>1. Head(events) = Notice("input", c) /\ (Takes(<<>>) \/ Takes(<<Notice("ready", c)>>))
      BY <1>2 DEF HandleProxyData, Noticing, Takes
    <2>2. CASE Takes(<<>>)
      <3>1. listening' = listening
        BY <1>2 DEF HandleProxyData
      <3> QED BY <1>1, <2>1, <2>2, <3>1, TakenOwned, NoticeParts
    <2>3. CASE Takes(<<Notice("ready", c)>>)
      BY <1>1, <2>1, <2>3, ToldOwned
    <2> QED BY <2>1, <2>2, <2>3
  <1>3. CASE HandleProxyGone(c) \/ HandleFlatline(c)
    <2> DEFINE n == Notice("disconnected", c)
    <2>1. \A s \in Seq(AnyNotice) : Append(s, n) = s \o <<n>>
      <3>1. n \in AnyNotice
        BY Noticed DEF Notices
      <3> QED BY <3>1, AppendIsConcat
    <2>2. CASE HandleProxyGone(c)
      <3>1. events # <<>> /\ Head(events) = Notice("gone", c) /\ events' = Append(Tail(events), n)
        BY <2>2 DEF HandleProxyGone, Noticing, Disconnect
      <3>2. Tail(events) \in Seq(AnyNotice)
        BY <3>1, TakeType, ListenerTypes
      <3>3. Takes(<<n>>)
        BY <2>1, <3>1, <3>2 DEF Takes, Raising
      <3> QED BY <1>1, <3>1, <3>3, ToldOwned
    <2>3. CASE HandleFlatline(c)
      <3>1. events' = Append(events, n)
        BY <2>3 DEF HandleFlatline, Disconnect
      <3>2. Adds(<<n>>)
        BY <2>1, <3>1, ListenerTypes DEF Adds
      <3> QED BY <1>1, <3>2, ToldOwned
    <2> QED BY <1>3, <2>2, <2>3
  <1> QED BY <1>2, <1>3

LEMMA RestOwned ==
  ASSUME TypeOK, Owned,
         \/ IgnoreNotice
         \/ \E c \in Conn : HandleClientConnecting(c) \/ DisconnectedOnAccept(c)
  PROVE  Owned'
  <1>1. CASE IgnoreNotice
    <2>1. /\ Takes(<<>>) /\ ~NoticeHandled(Head(events))
          /\ UNCHANGED <<newClients, timers, streams, ready, proxies, listening, owners, net>>
      BY <1>1 DEF IgnoreNotice, Takes, objects, proxy, wire
    <2>2. Head(events) # Announced
      BY <2>1, NoticeParts DEF NoticeHandled
    <2>3. \A d \in newClients : Head(events) # Notice("failure", d)
      BY <2>1, NoticeParts DEF NoticeHandled
    <2> QED BY <2>1, <2>2, <2>3, TakenOwned
  <1>2. ASSUME NEW c \in Conn, HandleClientConnecting(c) PROVE Owned'
    <2>1. /\ UNCHANGED <<newClients, timers, streams, ready, proxies, listening, owners, events>>
          /\ net[c] = "dialing" /\ net' = [net EXCEPT ![c] = "accepted"]
      BY <1>2 DEF HandleClientConnecting, proxy
    <2>2. \A d \in Conn : net'[d] \in Young => net[d] \in Young
      BY <2>1, ListenerTypes DEF Young
    <2>3. Adds(<<>>) /\ listening' \subseteq listening
      BY <2>1, AddsNothing
    <2> QED BY <2>1, <2>2, <2>3, NoticesOwned, SomeType
  <1>3. ASSUME NEW c \in Conn, DisconnectedOnAccept(c) PROVE Owned'
    <2>1. /\ Takes(<<>>) /\ Head(events) = Notice("acceptFailed", c)
          /\ UNCHANGED <<newClients, timers, streams, ready, proxies, listening, owners, net>>
      BY <1>3 DEF DisconnectedOnAccept, Noticing, Takes, proxy, wire
    <2> QED BY <2>1, NoticeParts, TakenOwned
  <1> QED BY <1>1, <1>2, <1>3

LEMMA ServerOwned ==
  ASSUME TypeOK, OwnersInv, ServerLoop \/ Drops \/ \E c \in Conn : ServerTimer(c)
  PROVE  OwnersInv'
  <1>1. CASE ServerLoop
    <2>1. ~crashed /\ Owned
      BY <1>1 DEF ServerLoop, OwnersInv, IgnoreNotice, AdoptClient, HandleClientConnecting,
                  HandleClientAccepted, DisconnectedOnAccept, HandleHelloBack, HandleUnknownGone,
                  HandleReady, HandleProxyLost, HandleUnknownClient, HandleUnknownFailure,
                  HandleWaitingDisconnected, HandleProxyData, HandleProxyGone, ClientDisconnected,
                  Noticing
    <2>2. CASE IgnoreNotice \/ AdoptClient
      BY <2>1, <2>2, RestOwned, AdoptOwned DEF OwnersInv
    <2>3. ASSUME NEW c \in Conn,
                 \/ HandleClientConnecting(c) \/ HandleClientAccepted(c) \/ DisconnectedOnAccept(c)
                 \/ HandleHelloBack(c) \/ HandleUnknownGone(c) \/ HandleReady(c) \/ HandleProxyLost(c)
          PROVE  OwnersInv'
      BY <2>1, <2>3, RestOwned, AcceptedOwned, HelloBackOwned, UnknownFailsOwned, ReadyOwned
         DEF OwnersInv
    <2>4. ASSUME NEW c \in Conn,
                 \/ HandleUnknownClient(c) \/ HandleUnknownFailure(c) \/ HandleWaitingDisconnected(c)
                 \/ HandleProxyData(c) \/ HandleProxyGone(c) \/ ClientDisconnected(c)
          PROVE  OwnersInv'
      <3>1. HandleWaitingDisconnected(c) => crashed'
        BY DEF HandleWaitingDisconnected
      <3> QED BY <2>1, <2>4, <3>1, UnknownClientOwned, UnknownFailureOwned, ProxyOwned, GoneOwned
              DEF OwnersInv
    <2> QED BY <1>1, <2>2, <2>3, <2>4 DEF ServerLoop
  <1>2. CASE Drops
    BY <1>2, CloseOwned DEF Drops, CloseClients, OwnersInv
  <1>3. ASSUME NEW c \in Conn, ServerTimer(c) PROVE OwnersInv'
    <2>1. HandleUnknownTimeout(c) \/ HandleFlatline(c) \/ ClientCloseTimeout(c)
      BY <1>3 DEF ServerTimer
    <2>2. ~crashed /\ Owned
      BY <2>1 DEF HandleUnknownTimeout, HandleFlatline, ClientCloseTimeout, Quiet, OwnersInv
    <2> QED BY <2>1, <2>2, UnknownFailsOwned, ProxyOwned, GoneOwned DEF OwnersInv
  <1> QED BY <1>1, <1>2, <1>3

-----------------------------------------------------------------------------
(* The network and the client.                                              *)

(* A connection is told of when it is accepted, to nobody before.           *)
LEMMA NewsOwned ==
  ASSUME TypeOK, Owned, NEW c \in Conn, net[c] = "accepted",
         NEW k \in {"accepted", "acceptFailed"}, Raised(<<Notice(k, c)>>),
         net'[c] \notin Young, \A d \in Conn \ {c} : net'[d] = net[d]
  PROVE  Owned'
  <1> DEFINE es == <<Notice(k, c)>>
  <1>1. es \in Seq(AnyNotice) /\ In(es) = {Notice(k, c)} /\ Notice(k, c) \in AnyNotice
    BY SomeType, Noticed DEF Notices
  <1>2. ~Lives(c) /\ NoneOf(c)
    BY DEF Owned, Arriving, Comes, Young
  <1>3. /\ Adds(es)
        /\ UNCHANGED <<newClients, timers, streams, ready, proxies, listening, owners, waiting>>
    BY DEF Raised, Adds, objects, proxy, owners
  <1>4. Sole(c)'
    BY <1>1, <1>2, <1>3, SoleFirst, ListenerTypes, NoticeParts
  <1> HIDE DEF es
  <1>5. Arriving'
    <2>1. ASSUME NEW d \in Conn, d # c PROVE Comes(d)'
      <3>1. Comes(d) /\ net'[d] = net[d] /\ (Lives(d)' => Lives(d))
        BY <1>3, <2>1, ListenerTypes DEF Owned, Arriving, Lives
      <3>2. \A e \in In(es) : e.of # d
        BY <1>1, <2>1, NoticeParts
      <3> QED BY <1>1, <1>3, <3>1, <3>2, ComesKept
    <2>2. Comes(c)'
      <3>1. net'[c] \notin Young
        OBVIOUS
      <3>2. ~Lives(c)'
        BY <1>2, <1>3 DEF Lives
      <3> QED BY <1>4, <3>1, <3>2 DEF Comes
    <2> QED BY <2>1, <2>2 DEF Arriving
  <1>6. Parts'
    BY <1>3 DEF Owned, Parts
  <1>7. Deciding'
    <2>1. ASSUME NEW d \in newClients PROVE Decides(d)'
      <3>1. Decides(d)
        BY DEF Owned, Deciding
      <3>2. \A e \in In(es) : e.kind \notin {"success", "failure"}
        BY <1>1, NoticeParts
      <3> QED BY <1>1, <1>3, <3>1, <3>2, DecidesKept
    <2> QED BY <1>3, <2>1 DEF Deciding
  <1>8. OneOwner'
    <2>1. /\ newClients' \subseteq Conn /\ newClients' \cap (proxies \ newClients) = {}
          /\ proxies' \ newClients' = proxies \ newClients
      BY <1>3, ListenerTypes
    <2> QED BY <1>3, <2>1, OneOwnerKept DEF Owned
  <1>9. Announcements' >= Len(waiting')
    BY <1>1, <1>3, AnnouncedKept DEF Owned
  <1> QED BY <1>5, <1>6, <1>7, <1>8, <1>9 DEF Owned

LEMMA NetworkOwned ==
  ASSUME TypeOK, OwnersInv, NEW c \in Conn,
         \/ Opens(c) \/ HandshakeFails(c) \/ DialFails(c)
         \/ ReachesClient(c) \/ ReachesServer(c) \/ Cuts(c)
  PROVE  OwnersInv'
  <1>1. crashed' = crashed
    BY DEF Opens, HandshakeFails, DialFails, ReachesClient, ReachesServer, Cuts, Raised, listener
  <1>2. SUFFICES ASSUME Owned PROVE Owned'
    BY <1>1 DEF OwnersInv
  <1>3. CASE Opens(c)
    <2>1. /\ net[c] = "accepted" /\ net' = [net EXCEPT ![c] = "open"]
          /\ Raised(<<Notice("accepted", c)>>)
      BY <1>3 DEF Opens
    <2>2. net'[c] \notin Young /\ \A d \in Conn \ {c} : net'[d] = net[d]
      BY <2>1, ListenerTypes DEF Young
    <2> QED BY <1>2, <2>1, <2>2, NewsOwned
  <1>4. CASE HandshakeFails(c)
    <2>1. /\ net[c] = "accepted" /\ net' = [net EXCEPT ![c] = "none"]
          /\ Raised(<<Notice("acceptFailed", c)>>)
      BY <1>4 DEF HandshakeFails
    <2>2. net'[c] \notin Young /\ \A d \in Conn \ {c} : net'[d] = net[d]
      BY <2>1, ListenerTypes DEF Young
    <2> QED BY <1>2, <2>1, <2>2, NewsOwned
  <1>5. CASE DialFails(c) \/ ReachesClient(c)
    <2>1. UNCHANGED listener /\ (net' = net \/ net' = [net EXCEPT ![c] = "none"])
      BY <1>5 DEF DialFails, ReachesClient
    <2>2. \A d \in Conn : net'[d] \in Young => net[d] \in Young
      <3>1. CASE net' = net
        BY <3>1
      <3>2. CASE net' = [net EXCEPT ![c] = "none"]
        BY <3>2, ListenerTypes DEF Young
      <3> QED BY <2>1, <3>1, <3>2
    <2> QED BY <1>2, <2>1, <2>2, StaysOwned
  <1>6. ASSUME NEW k \in {"input", "gone"}, Lives(c), Raised(<<Notice(k, c)>>),
               net' = net \/ net' = [net EXCEPT ![c] = "cut"]
        PROVE  Owned'
    <2>1. /\ Adds(<<Notice(k, c)>>)
          /\ UNCHANGED <<newClients, timers, streams, ready, proxies, listening, owners>>
      BY <1>6 DEF Raised, Adds, objects, proxy
    <2>2. \A d \in Conn : net'[d] \in Young => net[d] \in Young
      <3>1. CASE net' = net
        BY <3>1
      <3>2. CASE net' = [net EXCEPT ![c] = "cut"]
        BY <3>2, ListenerTypes DEF Young
      <3> QED BY <1>6, <3>1, <3>2
    <2>3. listening' \subseteq listening
      BY <2>1
    <2> QED BY <1>2, <1>6, <2>1, <2>2, <2>3, ToldOwned
  <1>7. CASE ReachesServer(c)
    BY <1>6, <1>7 DEF ReachesServer, Read, Lives
  <1>8. CASE Cuts(c)
    <2>1. net' = [net EXCEPT ![c] = "cut"] /\ (UNCHANGED listener \/ Raised(Ends(c)))
      BY <1>8 DEF Cuts
    <2>2. CASE UNCHANGED listener \/ (Raised(Ends(c)) /\ ~Read(c))
      <3>1. UNCHANGED listener
        <4>1. CASE Raised(Ends(c)) /\ ~Read(c)
          <5>1. Raised(<<>>)
            BY <4>1 DEF Ends
          <5>2. events' = events
            BY <5>1, ListenerTypes DEF Raised
          <5> QED BY <5>1, <5>2 DEF Raised, listener
        <4> QED BY <2>2, <4>1
      <3>2. \A d \in Conn : net'[d] \in Young => net[d] \in Young
        BY <2>1, ListenerTypes DEF Young
      <3> QED BY <1>2, <3>1, <3>2, StaysOwned
    <2>3. CASE Raised(Ends(c)) /\ Read(c)
      BY <1>6, <2>1, <2>3 DEF Ends, Read, Lives
    <2> QED BY <2>1, <2>2, <2>3
  <1> QED BY <1>2, <1>3, <1>4, <1>5, <1>7, <1>8

(* A client dials with a connection that nobody knows.                      *)
Dialed(c) == net' = net \/ \E s \in Stage : net' = [net EXCEPT ![c] = s]

LEMMA ConnectDials ==
  ASSUME NEW c \in Conn, NEW srv, NEW i, NEW posted, Connect(c, srv, i, posted)
  PROVE  Dialed(c)
  BY DEF Connect, Dial, Dialed, Stage, wire

LEMMA StartDials ==
  ASSUME NEW c \in Conn, NEW left, StartClient(c, left) \/ ScreenFails(left)
  PROVE  Dialed(c)
  <1>1. net' = net \/ \E srv, i, posted : Connect(c, srv, i, posted)
    BY DEF StartClient, ScreenFails, wire
  <1> QED BY <1>1, ConnectDials DEF Dialed

LEMMA ClientOwned ==
  ASSUME TypeOK, OwnersInv,
         \/ Starts \/ Restarts \/ Resumes \/ ClientLoop \/ ConnectTimesOut \/ ServerIsDead \/ Power
         \/ UNCHANGED vars
  PROVE  OwnersInv'
  <1>1. UNCHANGED listener
    BY DEF Starts, Restarts, Resumes, ClientLoop, ConnectTimesOut, ServerIsDead, Power, vars
  <1>2. SUFFICES ASSUME Owned PROVE Owned'
    BY <1>1 DEF OwnersInv, listener
  <1>3. net' = net \/ \E c \in Conn : Unused(c) /\ Dialed(c)
    <2>1. CASE Starts
      BY <2>1, StartDials DEF Starts, StartNode
    <2>2. CASE Restarts
      BY <2>2, StartDials DEF Restarts, HandleClientRestart
    <2>3. CASE Resumes
      <3>1. PICK c \in Conn : Unused(c) /\ HandleResume(c)
        BY <2>3 DEF Resumes
      <3>2. net' = net \/ \E posted : Connect(c, aim, 0, posted)
        BY <3>1 DEF HandleResume, wire
      <3> QED BY <3>1, <3>2, ConnectDials
    <2>4. CASE ClientLoop
      BY <2>4 DEF ClientLoop, IgnoreEvent, HandleConnected, HandleConnectionFailed, HandleDisconnected,
             HandleHello, HandleDisconnectRequested, HandleSuspend, HandleData, HandleClientConnected,
             HandleClientFailed, HandleClientRefused, HandleClientDisconnected, ScheduleRestart,
             CleanUp, wire
    <2>5. CASE ConnectTimesOut \/ ServerIsDead
      BY <2>5 DEF ConnectTimesOut, HandleConnectTimeout, ServerIsDead, HandleKeepAliveAlarm, CleanUp, wire
    <2>6. CASE Power \/ UNCHANGED vars
      BY <2>6 DEF Power, vars, wire
    <2> QED BY <2>1, <2>2, <2>3, <2>4, <2>5, <2>6
  <1>4. \A d \in Conn : net'[d] \in Young => net[d] \in Young \/ (~Lives(d) /\ NoneOf(d))
    <2>1. CASE net' = net
      BY <2>1
    <2>2. ASSUME NEW c \in Conn, Unused(c), Dialed(c), NEW d \in Conn
          PROVE  net'[d] \in Young => net[d] \in Young \/ (~Lives(d) /\ NoneOf(d))
      <3>1. ~Lives(c) /\ NoneOf(c)
        BY <2>2 DEF Unused, Read, Lives, NoneOf, In
      <3>2. d # c => net'[d] = net[d]
        BY <2>2, ListenerTypes DEF Dialed
      <3> QED BY <3>1, <3>2
    <2> QED BY <1>3, <2>1, <2>2
  <1> QED BY <1>1, <1>2, <1>4, StaysOwned

LEMMA OwnersNext ==
  ASSUME TypeOK, OwnersInv, [Next]_vars
  PROVE  OwnersInv'
  <1>1. CASE \E c \in Conn : \/ Opens(c) \/ HandshakeFails(c) \/ DialFails(c)
                             \/ ReachesClient(c) \/ ReachesServer(c) \/ Cuts(c)
    BY <1>1, NetworkOwned
  <1>2. CASE ServerLoop \/ Drops \/ \E c \in Conn : ServerTimer(c)
    BY <1>2, ServerOwned
  <1>3. CASE \/ Starts \/ Restarts \/ Resumes \/ ClientLoop \/ ConnectTimesOut \/ ServerIsDead \/ Power
             \/ UNCHANGED vars
    BY <1>3, ClientOwned
  <1> QED BY <1>1, <1>2, <1>3 DEF Next

LEMMA OwnersInit == Init => OwnersInv
  <1> SUFFICES ASSUME Init PROVE Owned
    BY DEF OwnersInv
  <1>1. /\ newClients = {} /\ timers = {} /\ streams = {} /\ ready = {} /\ proxies = {}
        /\ listening = {} /\ waiting = <<>> /\ serving = None /\ closing = {} /\ events = <<>>
        /\ net = [c \in Conn |-> "none"]
    BY DEF Init, ListenerInit, WireInit
  <1>2. In(events) = {} /\ In(waiting) = {}
    BY <1>1, InOne
  <1>3. Arriving
    BY <1>1, <1>2 DEF Arriving, Comes, Young
  <1>4. Parts /\ Deciding
    BY <1>1 DEF Parts, Deciding
  <1>5. OneOwner
    <2>1. Len(waiting) = 0
      BY <1>1
    <2> QED BY <1>1, <1>2, <2>1 DEF OneOwner
  <1>6. Announcements = 0 /\ Len(waiting) = 0
    BY <1>1, CountNone DEF Announcements
  <1> QED BY <1>3, <1>4, <1>5, <1>6 DEF Owned

(* One owner for each that lives, none for the others.                      *)
LEMMA OwnersAreOne == TypeOK /\ OwnersInv => EachOwnedOnce
  <1> SUFFICES ASSUME TypeOK, Owned
               PROVE  /\ \A c \in Conn : Cardinality(Owners(c)) = IF c \in proxies THEN 1 ELSE 0
                      /\ Announcements >= Len(waiting)
    BY DEF OwnersInv, EachOwnedOnce
  <1>1. ASSUME NEW c \in Conn
        PROVE  Cardinality(Owners(c)) = IF c \in proxies THEN 1 ELSE 0
    <2>1. /\ HasFailed(c) <=> Notice("failure", c) \in In(events)
          /\ Waits(c) <=> c \in In(waiting)
      BY DEF HasFailed, Waits, In
    <2>2. c \in newClients => (c \in proxies <=> c \notin streams /\ ~HasFailed(c))
      BY <2>1 DEF Owned, Deciding, Decides
    <2>3. /\ proxies \ newClients = In(waiting) \cup ({serving} \ {None}) \cup closing
          /\ newClients \cap (In(waiting) \cup {serving} \cup closing) = {}
          /\ In(waiting) \cap ({serving} \cup closing) = {} /\ serving \notin closing
      BY DEF Owned, OneOwner
    <2>4. c # None
      BY ListenerTypes
    <2>5. CASE c \in newClients
      <3>1. ~Waits(c) /\ c # serving /\ c \notin closing
        BY <2>1, <2>3, <2>5
      <3>2. Owners(c) = IF c \in proxies THEN {"unknown"} ELSE {}
        BY <2>2, <2>5, <3>1 DEF Owners
      <3> QED BY <3>2, FS_Singleton, FS_EmptySet
    <2>6. CASE c \notin newClients
      <3>1. c \in proxies <=> Waits(c) \/ c = serving \/ c \in closing
        BY <2>1, <2>3, <2>4, <2>6
      <3>2. /\ Waits(c) => c # serving /\ c \notin closing
            /\ c = serving => c \notin closing
        BY <2>1, <2>3
      <3>3. CASE Waits(c)
        <4>1. Owners(c) = {"listener"} /\ c \in proxies
          BY <2>6, <3>1, <3>2, <3>3 DEF Owners
        <4> QED BY <4>1, FS_Singleton
      <3>4. CASE c = serving
        <4>1. Owners(c) = {"server"} /\ c \in proxies
          BY <2>6, <3>1, <3>2, <3>4 DEF Owners
        <4> QED BY <4>1, FS_Singleton
      <3>5. CASE c \in closing
        <4>1. Owners(c) = {"leaving"} /\ c \in proxies
          BY <2>6, <3>1, <3>2, <3>5 DEF Owners
        <4> QED BY <4>1, FS_Singleton
      <3>6. CASE ~Waits(c) /\ c # serving /\ c \notin closing
        <4>1. Owners(c) = {} /\ c \notin proxies
          BY <2>6, <3>1, <3>6 DEF Owners
        <4> QED BY <4>1, FS_EmptySet
      <3> QED BY <3>3, <3>4, <3>5, <3>6
    <2> QED BY <2>5, <2>6
  <1> QED BY <1>1 DEF Owned

-----------------------------------------------------------------------------
(* Every variable keeps its type, for any connections, servers and faults:   *)
(* TypeOK alone is not inductive, for the alarm of a client without a        *)
(* connection would post an event of none.                                   *)
THEOREM TypeCorrect == Spec => []TypeOK
  <1>1. Init => TypeOK /\ Watch
    BY InvInit DEF Inv
  <1>2. TypeOK /\ Watch /\ [Next]_vars => TypeOK' /\ Watch'
    BY TypeNext, WatchNext DEF Watch
  <1> QED
    BY <1>1, <1>2, PTL DEF Spec

(* A client that has a connection always has the connect timer, the alarm    *)
(* or a request that will end it (Client::setupTimer, ServerProxy's alarm).  *)
THEOREM AlwaysWatched == Spec => []Watched
  <1>1. Init => TypeOK /\ Watch
    BY InvInit DEF Inv
  <1>2. TypeOK /\ Watch /\ [Next]_vars => TypeOK' /\ Watch'
    BY TypeNext, WatchNext DEF Watch
  <1> QED
    BY <1>1, <1>2, WatchIsEnough, PTL DEF Spec

(* A client whose screen can always be opened, if not at once, never stops   *)
(* trying (ClientApp::startClient, Client::connect and every clean-up).      *)
THEOREM AlwaysTries ==
  ASSUME "failure" \notin ScreenFaults
  PROVE  Spec => []NeverStranded
  <1>1. Init => Inv
    BY InvInit
  <1>2. Inv /\ [Next]_vars => Inv'
    BY TypeNext, WatchNext, StrandedNext DEF Inv, Watch
  <1>3. Inv => NeverStranded
    BY DEF Inv
  <1> QED
    BY <1>1, <1>2, <1>3, PTL DEF Spec

(* Every proxy that lives has one owner, one that does not has none, each    *)
(* that waits has been announced (ClientListener, ClientProxyUnknown, Server *)
(* and ServerApp pass it on), and the client's ways to dial are not more     *)
(* than its sleeps and wake-ups allow (ClientApp::scheduleClientRestart).    *)
THEOREM NoneIsLost == Spec => []NoneLost
  <1> DEFINE LostInv == TypeOK /\ Watch /\ Spends /\ OwnersInv
  <1>1. Init => LostInv
    BY InvInit, SpendsInit, OwnersInit DEF Inv
  <1>2. LostInv /\ [Next]_vars => LostInv'
    <2> SUFFICES ASSUME LostInv, [Next]_vars PROVE LostInv'
      OBVIOUS
    <2>1. TypeOK' /\ Watch'
      BY TypeNext, WatchNext DEF Watch
    <2>2. Spends'
      BY <2>1, SpendsNext
    <2>3. OwnersInv'
      BY OwnersNext
    <2> QED BY <2>1, <2>2, <2>3
  <1>3. LostInv => NoneLost
    BY SpendsIsBound, OwnersAreOne DEF NoneLost
  <1> QED
    BY <1>1, <1>2, <1>3, PTL DEF Spec
=============================================================================
