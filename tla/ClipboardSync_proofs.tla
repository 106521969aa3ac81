------------------------ MODULE ClipboardSync_proofs ------------------------
(***************************************************************************)
(* Proofs about ClipboardSync, for any clients, users and bounds: sequence *)
(* numbers tell the visits of the cursor apart; and where nothing is       *)
(* copied on a screen the user is not at, contents come from the owner, a  *)
(* clean screen is up to date, and a user who waits finds his latest copy. *)
(***************************************************************************)
EXTENDS ClipboardSync, TLAPS

(* Appending to and taking from a stream or an event queue.                  *)
LEMMA AppendKeeps ==
  ASSUME NEW S, NEW s \in Seq(S), NEW m \in S
  PROVE  Append(s, m) \in Seq(S)
OBVIOUS

LEMMA TailKeeps ==
  ASSUME NEW S, NEW s \in Seq(S), s # <<>>
  PROVE  Head(s) \in S /\ Tail(s) \in Seq(S)
OBVIOUS

LEMMA UnderAppend ==
  ASSUME NEW S, NEW s \in Seq(S), NEW m, NEW n \in Int, Under(s, n), m.seq < n
  PROVE  Under(Append(s, m), n)
<1>1. /\ Len(Append(s, m)) = Len(s) + 1 /\ Len(s) \in Nat
      /\ \A i \in 1..Len(s) + 1 : Append(s, m)[i] = IF i = Len(s) + 1 THEN m ELSE s[i]
  OBVIOUS
<1> QED BY <1>1 DEF Under

LEMMA UnderTail ==
  ASSUME NEW S, NEW s \in Seq(S), s # <<>>, NEW n, Under(s, n)
  PROVE  Head(s).seq < n /\ Under(Tail(s), n)
<1>1. /\ Len(Tail(s)) = Len(s) - 1 /\ Len(s) \in Nat \ {0} /\ Head(s) = s[1]
      /\ \A i \in 1..Len(s) - 1 : Tail(s)[i] = s[i + 1]
  OBVIOUS
<1> QED BY <1>1 DEF Under

LEMMA UnderMore ==
  ASSUME NEW s, NEW m \in Int, NEW n \in Int, m <= n, Under(s, m),
         \A i \in 1..Len(s) : s[i].seq \in Int
  PROVE  Under(s, n)
BY DEF Under

LEMMA SentUnderMore ==
  ASSUME NEW S, S = Message \/ S = Event, NEW s \in Seq(S), NEW m \in Int, NEW n \in Int,
         m <= n, Under(s, m)
  PROVE  Under(s, n)
<1>1. \A e \in S : e.seq \in Int
  <2>1. \A e \in Message : e.seq \in Int
    BY DEF Message, SeqNum
  <2>2. \A e \in Event : e.seq \in Int
    BY DEF Event, SeqNum
  <2> QED BY <2>1, <2>2
<1>2. \A i \in 1..Len(s) : s[i] \in S
  OBVIOUS
<1> QED BY <1>1, <1>2, UnderMore

-----------------------------------------------------------------------------
(* The operators of the server keep its state well formed, leave the cursor  *)
(* and the sequence numbers alone, and queue at most a transfer.             *)
Transfer(sv, nw) ==
  /\ nw.active = sv.active /\ nw.seqNum = sv.seqNum /\ nw.enterSeq = sv.enterSeq
  /\ nw.clipSeq = sv.clipSeq
  /\ \/ nw.queue = sv.queue
     \/ \E e \in Event : e.seq = 0 /\ nw.queue = Append(sv.queue, e)

LEMMA SetClipboardKeeps ==
  ASSUME NEW sv \in ServerState, NEW s \in Screen
  PROVE  SetClipboard(sv, s) \in ServerState /\ Transfer(sv, SetClipboard(sv, s))
<1>1. CASE ~sv.dirty[s]
  BY <1>1 DEF SetClipboard, Transfer
<1>2. CASE sv.dirty[s] /\ s = Primary
  <2> DEFINE nw == [sv EXCEPT !.dirty[s] = FALSE, !.content = sv.clip]
  <2>1. nw \in ServerState /\ Transfer(sv, nw)
    BY DEF ServerState, Transfer
  <2> QED BY <1>2, <2>1 DEF SetClipboard
<1>3. CASE sv.dirty[s] /\ s # Primary
  <2> DEFINE e == Msg("sending", s, 0, sv.clip)
  <2> DEFINE nw == [sv EXCEPT !.dirty[s] = FALSE, !.stored[s] = sv.clip, !.queue = Append(@, e)]
  <2>1. e \in Event /\ e.seq = 0
    BY ClipboardAssumption DEF ServerState, Event, Msg, SeqNum
  <2>2. s \in Client
    BY <1>3 DEF Screen
  <2> HIDE DEF e
  <2>3. Append(sv.queue, e) \in Seq(Event)
    BY <2>1, AppendKeeps DEF ServerState
  <2>4. nw \in ServerState
    BY <2>2, <2>3 DEF ServerState
  <2>5. Transfer(sv, nw)
    BY <2>1 DEF ServerState, Transfer
  <2>6. SetClipboard(sv, s) = nw
    BY <1>3 DEF SetClipboard, e
  <2> QED BY <2>4, <2>5, <2>6
<1> QED BY <1>1, <1>2, <1>3 DEF ServerState

LEMMA ClipboardChangedKeeps ==
  ASSUME NEW sv \in ServerState, NEW s \in Screen, NEW n \in Int
  PROVE  ClipboardChanged(sv, s, n) \in ServerState /\ Transfer(sv, ClipboardChanged(sv, s, n))
<1> DEFINE v == GetClipboard(sv, s)
           got == [sv EXCEPT !.clip = v]
           news == [got EXCEPT !.data = v, !.dirty = [x \in Screen |-> x # s]]
<1>1. v \in Contents
  BY DEF GetClipboard, ServerState, Screen
<1> HIDE DEF v
<1>2. got \in ServerState /\ Transfer(sv, got)
  BY <1>1 DEF ServerState, Transfer
<1>3. news \in ServerState /\ Transfer(sv, news) /\ news.active = sv.active /\ news.queue = sv.queue
      /\ sv.active \in Screen
  BY <1>1 DEF ServerState, Transfer
<1>4. SetClipboard(news, sv.active) \in ServerState /\ Transfer(news, SetClipboard(news, sv.active))
  BY <1>3, SetClipboardKeeps
<1>5. Transfer(sv, SetClipboard(news, sv.active))
  <2> HIDE DEF news
  <2> QED BY <1>3, <1>4 DEF Transfer
<1>6. Transfer(sv, sv)
  BY DEF Transfer
<1>7. ClipboardChanged(sv, s, n) \in {sv, got, SetClipboard(news, sv.active)}
  BY DEF ClipboardChanged, v
<1> HIDE DEF got, news
<1> QED BY <1>2, <1>4, <1>5, <1>6, <1>7

(* A grab takes the grabber's sequence number and nothing else of the order. *)
LEMMA ClipboardGrabbedKeeps ==
  ASSUME NEW sv \in ServerState, NEW g \in Screen, NEW n \in SeqNum
  PROVE  LET nw == ClipboardGrabbed(sv, g, n)
         IN  nw \in ServerState /\ nw.clipSeq = n /\ Transfer([sv EXCEPT !.clipSeq = n], nw)
<1> DEFINE owned == [sv EXCEPT !.owner = g, !.clipSeq = n, !.clip = Empty, !.data = Empty]
           told == GrabOthers(owned, g)
           base == [sv EXCEPT !.clipSeq = n]
<1>1. told \in ServerState /\ told.clipSeq = n /\ base.clipSeq = n /\ Transfer(base, told)
      /\ told.queue = base.queue
  BY DEF GrabOthers, ServerState, Transfer, Contents
<1>2. n \in Int /\ Primary \in Screen
  BY ClipboardAssumption DEF SeqNum, Screen
<1> HIDE DEF told, base, owned
<1>3. ClipboardChanged(told, Primary, n) \in ServerState
      /\ Transfer(told, ClipboardChanged(told, Primary, n))
  BY <1>1, <1>2, ClipboardChangedKeeps
<1>4. Transfer(base, ClipboardChanged(told, Primary, n))
  BY <1>1, <1>3 DEF Transfer
<1>5. ClipboardGrabbed(sv, g, n) \in {told, ClipboardChanged(told, Primary, n)}
  BY DEF ClipboardGrabbed, told, owned
<1>6. \A nw : Transfer(base, nw) => nw.clipSeq = base.clipSeq
  BY DEF Transfer
<1>7. ClipboardGrabbed(sv, g, n) \in ServerState /\ Transfer(base, ClipboardGrabbed(sv, g, n))
  BY <1>1, <1>3, <1>4, <1>5
<1> QED BY <1>1, <1>6, <1>7 DEF base

(* What the clients' handlers keep: the state is well formed, the number is  *)
(* the one of the last enter, and only a transfer with it is queued.         *)
LEMMA SendClipboardKeeps ==
  ASSUME NEW cl \in ClientState, NEW c \in Client
  PROVE  LET nw == SendClipboard(cl, c)
         IN  /\ nw \in ClientState /\ nw.seqNum = cl.seqNum
             /\ \/ nw.queue = cl.queue
                \/ \E e \in Event : e.seq = cl.seqNum /\ nw.queue = Append(cl.queue, e)
<1> DEFINE e == Msg("sending", c, cl.seqNum, cl.content)
           nw == [cl EXCEPT !.time = cl.content, !.sent = TRUE, !.data = cl.content,
                            !.queue = Append(@, e)]
<1>1. e \in Event /\ e.seq = cl.seqNum
  BY DEF ClientState, Event, Msg, Screen
<1> HIDE DEF e
<1>2. Append(cl.queue, e) \in Seq(Event)
  BY <1>1, AppendKeeps DEF ClientState
<1>3. nw \in ClientState /\ nw.seqNum = cl.seqNum /\ nw.queue = Append(cl.queue, e)
  BY <1>2 DEF ClientState
<1>4. [cl EXCEPT !.time = cl.content] \in ClientState
      /\ [cl EXCEPT !.time = cl.content].seqNum = cl.seqNum
      /\ [cl EXCEPT !.time = cl.content].queue = cl.queue
  BY DEF ClientState
<1>5. SendClipboard(cl, c) \in {cl, [cl EXCEPT !.time = cl.content], nw}
  BY DEF SendClipboard, e
<1> HIDE DEF nw
<1> QED BY <1>1, <1>3, <1>4, <1>5

LEMMA ObeyKeeps ==
  ASSUME NEW cl \in ClientState, NEW c \in Client, NEW m \in Message
  PROVE  LET nw == Obey(cl, c, m)
         IN  /\ nw \in ClientState
             /\ nw.seqNum = IF m.kind = "enter" THEN m.seq ELSE cl.seqNum
             /\ \/ nw.queue = cl.queue
                \/ \E e \in Event : e.seq = cl.seqNum /\ nw.queue = Append(cl.queue, e)
<1>1. CASE m.kind = "enter"
  <2>1. [cl EXCEPT !.active = TRUE, !.seqNum = m.seq] \in ClientState
        /\ [cl EXCEPT !.active = TRUE, !.seqNum = m.seq].seqNum = m.seq
        /\ [cl EXCEPT !.active = TRUE, !.seqNum = m.seq].queue = cl.queue
    BY DEF ClientState, Message
  <2> QED BY <1>1, <2>1 DEF Obey
<1>2. CASE m.kind = "leave"
  <2> DEFINE gone == [cl EXCEPT !.active = FALSE]
  <2>1. gone \in ClientState /\ gone.seqNum = cl.seqNum /\ gone.queue = cl.queue
    BY DEF ClientState
  <2>2. Obey(cl, c, m) = IF cl.own THEN SendClipboard(gone, c) ELSE gone
    BY <1>2 DEF Obey
  <2> HIDE DEF gone
  <2> QED BY <1>2, <2>1, <2>2, SendClipboardKeeps
<1>3. CASE m.kind = "grab"
  <2>1. LET nw == [cl EXCEPT !.content = Empty, !.own = FALSE, !.sent = FALSE]
        IN  nw \in ClientState /\ nw.seqNum = cl.seqNum /\ nw.queue = cl.queue
    BY DEF ClientState, Contents
  <2> QED BY <1>3, <2>1 DEF Obey
<1>4. CASE m.kind = "clip"
  <2>1. LET nw == [cl EXCEPT !.content = m.value, !.own = FALSE, !.sent = FALSE]
        IN  nw \in ClientState /\ nw.seqNum = cl.seqNum /\ nw.queue = cl.queue
    BY DEF ClientState, Message
  <2> QED BY <1>4, <2>1 DEF Obey
<1> QED BY <1>1, <1>2, <1>3, <1>4 DEF Message

-----------------------------------------------------------------------------
(* The inductive invariant: no number is newer than the server's, and only   *)
(* the active screen may have the server's.                                  *)
Bounded ==
  LET n == server.seqNum + 1
  IN  /\ server.clipSeq < n /\ server.enterSeq < n /\ Under(server.queue, n)
      /\ \A c \in Client : /\ client[c].seqNum < n /\ Under(client[c].queue, n)
                           /\ Under(toClient[c], n) /\ Under(toServer[c], n)

SeqInv == TypeOK /\ Bounded /\ LeftAreOlder

LEMMA InitSeqInv == Init => SeqInv
<1> SUFFICES ASSUME Init PROVE SeqInv
  OBVIOUS
<1> USE ClipboardAssumption
<1>1. /\ server.queue = <<>> /\ server.seqNum = 0 /\ server.clipSeq = 0 /\ server.enterSeq = 0
      /\ toClient = [c \in Client |-> <<>>] /\ toServer = [c \in Client |-> <<>>]
      /\ \A c \in Client : client[c].queue = <<>> /\ client[c].seqNum = 0
  BY DEF Init
<1>2. server \in ServerState
  BY DEF Init, ServerState, Screen, SeqNum, Contents, Empty
<1>3. client \in [Client -> ClientState]
  <2>1. [active |-> FALSE, seqNum |-> 0, own |-> FALSE, sent |-> FALSE,
         time |-> Never, data |-> Empty, content |-> Empty, queue |-> <<>>] \in ClientState
    BY DEF ClientState, SeqNum, Contents, Never, Empty
  <2> QED BY <2>1 DEF Init
<1>4. TypeOK
  <2>1. toClient \in [Client -> Seq(Message)] /\ toServer \in [Client -> Seq(Message)]
    BY <1>1
  <2>2. copies \in 0..MaxCopies /\ habit \in Habits
    BY DEF Init
  <2> QED BY <1>2, <1>3, <2>1, <2>2 DEF TypeOK
<1>5. \A n \in Int : Under(<<>>, n)
  BY DEF Under
<1>6. Bounded
  BY <1>1, <1>5 DEF Bounded
<1> QED BY <1>1, <1>4, <1>6 DEF SeqInv, LeftAreOlder

(* A step that leaves the cursor and the clients' numbers alone, queues on   *)
(* the server numbers it knows, and writes to clients only messages with     *)
(* number 0.                                                                 *)
LEMMA ServerQuiet ==
  ASSUME SeqInv, server' \in ServerState,
         server'.active = server.active, server'.seqNum = server.seqNum,
         server'.enterSeq = server.enterSeq, server'.clipSeq <= server.seqNum,
         Under(server'.queue, server.seqNum + 1),
         client' \in [Client -> ClientState],
         \A c \in Client : client'[c].seqNum = client[c].seqNum /\ client'[c].queue = client[c].queue,
         toClient' \in [Client -> Seq(Message)],
         \A c \in Client :
           toClient'[c] = toClient[c]
           \/ \E m \in Message : m.seq = 0 /\ toClient'[c] = Append(toClient[c], m),
         toServer' \in [Client -> Seq(Message)],
         \A c \in Client : Under(toServer'[c], server.seqNum + 1),
         copies' \in 0..MaxCopies, UNCHANGED habit
  PROVE  SeqInv'
<1>1. server.seqNum \in Nat /\ server'.clipSeq \in Nat /\ server.enterSeq \in Nat
  BY DEF SeqInv, TypeOK, ServerState, SeqNum
<1>2. TypeOK'
  BY DEF SeqInv, TypeOK
<1>3. ASSUME NEW c \in Client, NEW n \in Nat \ {0}, Under(toClient[c], n)
      PROVE  Under(toClient'[c], n)
  <2>1. CASE toClient'[c] = toClient[c]
    BY <1>3, <2>1
  <2>2. ASSUME NEW m \in Message, m.seq = 0, toClient'[c] = Append(toClient[c], m)
        PROVE  Under(toClient'[c], n)
    <3>1. toClient[c] \in Seq(Message)
      BY DEF SeqInv, TypeOK
    <3> QED BY <1>3, <2>2, <3>1, UnderAppend
  <2> QED BY <2>1, <2>2
<1>4. Bounded'
  BY <1>1, <1>3 DEF SeqInv, Bounded
<1>5. LeftAreOlder'
  BY <1>1, <1>3 DEF SeqInv, LeftAreOlder
<1> QED BY <1>2, <1>4, <1>5 DEF SeqInv

(* Taking an event from the server's queue.                                  *)
LEMMA TakeEvent ==
  ASSUME SeqInv, server.queue # <<>>
  PROVE  LET sv == [server EXCEPT !.queue = Tail(@)]
             e  == Head(server.queue)
         IN  /\ e \in Event /\ e.seq < server.seqNum + 1
             /\ sv \in ServerState /\ sv.active = server.active /\ sv.seqNum = server.seqNum
             /\ sv.enterSeq = server.enterSeq /\ sv.clipSeq = server.clipSeq
             /\ sv.clipSeq < server.seqNum + 1
             /\ Under(sv.queue, server.seqNum + 1) /\ server.seqNum \in Nat
<1>1. server.queue \in Seq(Event) /\ server \in ServerState /\ server.seqNum \in Nat
  BY DEF SeqInv, TypeOK, ServerState, SeqNum
<1>2. Head(server.queue) \in Event /\ Tail(server.queue) \in Seq(Event)
  BY <1>1, TailKeeps
<1>3. Head(server.queue).seq < server.seqNum + 1 /\ Under(Tail(server.queue), server.seqNum + 1)
  BY <1>1, UnderTail DEF SeqInv, Bounded
<1>4. [server EXCEPT !.queue = Tail(@)] \in ServerState
      /\ [server EXCEPT !.queue = Tail(@)].queue = Tail(server.queue)
  BY <1>1, <1>2 DEF ServerState
<1> QED BY <1>1, <1>2, <1>3, <1>4 DEF SeqInv, Bounded, ServerState

LEMMA UnderTransfer ==
  ASSUME NEW sv \in ServerState, NEW nw, Transfer(sv, nw), NEW n \in Nat, Under(sv.queue, n + 1)
  PROVE  Under(nw.queue, n + 1)
<1>1. sv.queue \in Seq(Event)
  BY DEF ServerState
<1>2. CASE nw.queue = sv.queue
  BY <1>2
<1>3. ASSUME NEW e \in Event, e.seq = 0, nw.queue = Append(sv.queue, e)
      PROVE  Under(nw.queue, n + 1)
  BY <1>1, <1>3, UnderAppend
<1> QED BY <1>2, <1>3 DEF Transfer

-----------------------------------------------------------------------------
(* The steps of the server.                                                  *)
LEMMA HandleGrabbedKeeps == SeqInv /\ HandleGrabbed => SeqInv'
<1> SUFFICES ASSUME SeqInv, HandleGrabbed PROVE SeqInv'
  OBVIOUS
<1> DEFINE e  == Head(server.queue)
           sv == [server EXCEPT !.queue = Tail(@)]
           n  == server.seqNum
           base == [sv EXCEPT !.clipSeq = e.seq]
<1>1. /\ e \in Event /\ e.seq < n + 1 /\ n \in Nat
      /\ sv \in ServerState /\ sv.active = server.active /\ sv.seqNum = n
      /\ sv.enterSeq = server.enterSeq /\ sv.clipSeq = server.clipSeq /\ sv.clipSeq < n + 1
      /\ Under(sv.queue, n + 1)
  BY TakeEvent DEF HandleGrabbed
<1>2. UNCHANGED <<client, toServer, copies, habit>> /\ e.kind = "grabbed"
      /\ \/ server' = sv /\ UNCHANGED toClient
         \/ server' = ClipboardGrabbed(sv, e.screen, e.seq) /\ toClient' = TellGrab(toClient, e.screen)
  BY DEF HandleGrabbed
<1>3. e.screen \in Screen /\ e.seq \in SeqNum /\ e.seq \in Nat /\ sv.clipSeq \in Nat
  <2> HIDE DEF sv, e
  <2>1. e.screen \in Screen /\ e.seq \in SeqNum /\ sv.clipSeq \in SeqNum
    BY <1>1 DEF Event, ServerState
  <2> QED BY <2>1 DEF SeqNum
<1>4. base \in ServerState /\ base.active = sv.active /\ base.seqNum = sv.seqNum
      /\ base.enterSeq = sv.enterSeq /\ base.queue = sv.queue /\ base.clipSeq = e.seq
  <2> HIDE DEF sv, e
  <2> QED BY <1>1, <1>3 DEF ServerState
<1> HIDE DEF e, sv
<1>5. ClipboardGrabbed(sv, e.screen, e.seq) \in ServerState
      /\ ClipboardGrabbed(sv, e.screen, e.seq).clipSeq = e.seq
      /\ Transfer(base, ClipboardGrabbed(sv, e.screen, e.seq))
  BY <1>1, <1>3, ClipboardGrabbedKeeps
<1> HIDE DEF base
<1>6. /\ server' \in ServerState /\ server'.active = server.active /\ server'.seqNum = n
      /\ server'.enterSeq = server.enterSeq /\ server'.clipSeq <= n
      /\ Under(server'.queue, n + 1)
  <2>1. CASE server' = sv
    BY <1>1, <1>3, <2>1
  <2>2. CASE server' = ClipboardGrabbed(sv, e.screen, e.seq)
    <3>1. Under(base.queue, n + 1)
      BY <1>1, <1>4
    <3>2. Under(server'.queue, n + 1)
      BY <1>1, <1>4, <1>5, <2>2, <3>1, UnderTransfer
    <3> QED BY <1>1, <1>3, <1>4, <1>5, <2>2, <3>2 DEF Transfer
  <2> QED BY <1>2, <2>1, <2>2
<1>7. /\ toClient' \in [Client -> Seq(Message)]
      /\ \A c \in Client :
           toClient'[c] = toClient[c]
           \/ \E m \in Message : m.seq = 0 /\ toClient'[c] = Append(toClient[c], m)
  <2>1. toClient \in [Client -> Seq(Message)]
    BY DEF SeqInv, TypeOK
  <2>2. CASE UNCHANGED toClient
    BY <2>1, <2>2
  <2>3. CASE toClient' = TellGrab(toClient, e.screen)
    <3>1. ASSUME NEW c \in Client
          PROVE  Msg("grab", c, 0, Empty) \in Message /\ Msg("grab", c, 0, Empty).seq = 0
      BY ClipboardAssumption DEF Message, Msg, Screen, SeqNum, Contents, Empty
    <3>2. ASSUME NEW c \in Client
          PROVE  Append(toClient[c], Msg("grab", c, 0, Empty)) \in Seq(Message)
      <4>1. toClient[c] \in Seq(Message) /\ Msg("grab", c, 0, Empty) \in Message
        BY <2>1, <3>1
      <4> QED BY <4>1, AppendKeeps
    <3>3. toClient' = [c \in Client |-> IF c = e.screen THEN toClient[c]
                                        ELSE Append(toClient[c], Msg("grab", c, 0, Empty))]
      BY <2>3 DEF TellGrab
    <3>4. \A c \in Client : toClient[c] \in Seq(Message)
      BY <2>1
    <3> QED BY <3>1, <3>2, <3>3, <3>4
  <2> QED BY <1>2, <2>2, <2>3
<1> HIDE DEF n
<1>8. client \in [Client -> ClientState] /\ toServer \in [Client -> Seq(Message)]
      /\ copies \in 0..MaxCopies /\ \A c \in Client : Under(toServer[c], server.seqNum + 1)
  BY DEF SeqInv, TypeOK, Bounded
<1> QED BY <1>2, <1>6, <1>7, <1>8, ServerQuiet DEF n

LEMMA HandleChangedKeeps == SeqInv /\ HandleChanged => SeqInv'
<1> SUFFICES ASSUME SeqInv, HandleChanged PROVE SeqInv'
  OBVIOUS
<1> DEFINE e  == Head(server.queue)
           sv == [server EXCEPT !.queue = Tail(@)]
           n  == server.seqNum
<1>1. /\ e \in Event /\ e.seq < n + 1 /\ n \in Nat
      /\ sv \in ServerState /\ sv.active = server.active /\ sv.seqNum = n
      /\ sv.enterSeq = server.enterSeq /\ sv.clipSeq = server.clipSeq /\ sv.clipSeq < n + 1
      /\ Under(sv.queue, n + 1)
  BY TakeEvent DEF HandleChanged
<1>2. UNCHANGED <<client, toClient, toServer, copies, habit>>
      /\ server' = ClipboardChanged(sv, e.screen, e.seq)
  BY DEF HandleChanged
<1> HIDE DEF e, sv
<1>3. e.screen \in Screen /\ e.seq \in Int /\ sv.clipSeq \in Nat
  <2>1. e.screen \in Screen /\ e.seq \in SeqNum /\ sv.clipSeq \in SeqNum
    BY <1>1 DEF Event, ServerState
  <2> QED BY <2>1 DEF SeqNum
<1>4. server' \in ServerState /\ Transfer(sv, server')
  BY <1>1, <1>2, <1>3, ClipboardChangedKeeps
<1>5. Under(server'.queue, n + 1)
  BY <1>1, <1>4, UnderTransfer
<1>6. /\ server'.active = server.active /\ server'.seqNum = n
      /\ server'.enterSeq = server.enterSeq /\ server'.clipSeq <= n
  BY <1>1, <1>3, <1>4 DEF Transfer
<1> HIDE DEF n
<1>7. client \in [Client -> ClientState] /\ toServer \in [Client -> Seq(Message)]
      /\ toClient \in [Client -> Seq(Message)]
      /\ copies \in 0..MaxCopies /\ \A c \in Client : Under(toServer[c], server.seqNum + 1)
  BY DEF SeqInv, TypeOK, Bounded
<1> QED BY <1>2, <1>4, <1>5, <1>6, <1>7, ServerQuiet DEF n

LEMMA HandleSendingKeeps == SeqInv /\ HandleSending => SeqInv'
<1> SUFFICES ASSUME SeqInv, HandleSending PROVE SeqInv'
  OBVIOUS
<1> DEFINE e  == Head(server.queue)
           sv == [server EXCEPT !.queue = Tail(@)]
           n  == server.seqNum
           m  == Msg("clip", e.screen, 0, e.value)
<1>1. /\ e \in Event /\ n \in Nat
      /\ sv \in ServerState /\ sv.active = server.active /\ sv.seqNum = n
      /\ sv.enterSeq = server.enterSeq /\ sv.clipSeq = server.clipSeq /\ sv.clipSeq < n + 1
      /\ Under(sv.queue, n + 1)
  BY TakeEvent DEF HandleSending
<1>2. UNCHANGED <<client, toServer, copies, habit>> /\ server' = sv
      /\ toClient' = Write(toClient, e.screen, m)
  BY DEF HandleSending
<1> HIDE DEF e, sv
<1>3. m \in Message /\ m.seq = 0
  BY <1>1, ClipboardAssumption DEF Event, Message, Msg, SeqNum
<1> HIDE DEF m
<1>4. sv.clipSeq <= n
  <2>1. sv.clipSeq \in SeqNum
    BY <1>1 DEF ServerState
  <2> QED BY <1>1, <2>1 DEF SeqNum
<1>5. client \in [Client -> ClientState] /\ toServer \in [Client -> Seq(Message)]
      /\ toClient \in [Client -> Seq(Message)]
      /\ copies \in 0..MaxCopies /\ \A c \in Client : Under(toServer[c], server.seqNum + 1)
  BY DEF SeqInv, TypeOK, Bounded
<1>6. /\ toClient' \in [Client -> Seq(Message)]
      /\ \A c \in Client :
           toClient'[c] = toClient[c] \/ toClient'[c] = Append(toClient[c], m)
  <2>1. toClient' = [toClient EXCEPT ![e.screen] = Append(@, m)]
    BY <1>2 DEF Write
  <2>2. \A c \in Client : Append(toClient[c], m) \in Seq(Message)
    BY <1>3, <1>5, AppendKeeps
  <2> QED BY <1>5, <2>1, <2>2
<1> HIDE DEF n
<1> QED BY <1>1, <1>2, <1>3, <1>4, <1>5, <1>6, ServerQuiet DEF n

LEMMA ReceiveKeeps ==
  ASSUME SeqInv, NEW c \in Client, Receive(c)
  PROVE  SeqInv'
<1> DEFINE m == Head(toServer[c])
           n == server.seqNum
           e == Msg(IF m.kind = "grab" THEN "grabbed" ELSE "changed", c, m.seq, Empty)
<1>1. /\ server \in ServerState /\ n \in Nat /\ server.clipSeq < n + 1 /\ server.clipSeq \in Nat
      /\ Under(server.queue, n + 1) /\ server.queue \in Seq(Event)
      /\ client \in [Client -> ClientState] /\ toClient \in [Client -> Seq(Message)]
      /\ toServer \in [Client -> Seq(Message)] /\ copies \in 0..MaxCopies
      /\ \A d \in Client : Under(toServer[d], n + 1)
  BY DEF SeqInv, TypeOK, Bounded, ServerState, SeqNum
<1>2. m \in Message /\ Tail(toServer[c]) \in Seq(Message)
      /\ m.seq < n + 1 /\ Under(Tail(toServer[c]), n + 1)
  <2>1. toServer[c] \in Seq(Message) /\ toServer[c] # <<>> /\ Under(toServer[c], n + 1)
    BY <1>1 DEF Receive
  <2> QED BY <2>1, TailKeeps, UnderTail
<1>3. e \in Event /\ e.seq = m.seq /\ m.value \in Contents
  BY <1>2 DEF Event, Message, Msg, Screen, Contents
<1>4. Append(server.queue, e) \in Seq(Event) /\ Under(Append(server.queue, e), n + 1)
  BY <1>1, <1>2, <1>3, AppendKeeps, UnderAppend
<1>5. /\ toServer' = [toServer EXCEPT ![c] = Tail(@)] /\ UNCHANGED <<client, toClient, copies, habit>>
      /\ \/ server' = [server EXCEPT !.queue = Append(@, e)]
         \/ server' = [server EXCEPT !.stored[c] = m.value, !.queue = Append(@, e)]
  BY DEF Receive
<1> HIDE DEF m, e
<1>6. /\ server' \in ServerState /\ server'.active = server.active /\ server'.seqNum = n
      /\ server'.enterSeq = server.enterSeq /\ server'.clipSeq = server.clipSeq
      /\ server'.queue = Append(server.queue, e)
  <2> DEFINE q == Append(server.queue, e)
             saved == [server.stored EXCEPT ![c] = m.value]
  <2>1. saved \in [Client -> Contents]
    BY <1>1, <1>3 DEF ServerState
  <2>2. \/ server' = [server EXCEPT !.queue = q]
        \/ server' = [server EXCEPT !.stored = saved, !.queue = q]
    BY <1>1, <1>5 DEF ServerState
  <2> HIDE DEF q, saved
  <2>3. q \in Seq(Event)
    BY <1>4 DEF q
  <2>4. server' \in ServerState /\ server'.active = server.active /\ server'.seqNum = n
        /\ server'.enterSeq = server.enterSeq /\ server'.clipSeq = server.clipSeq
        /\ server'.queue = q
    BY <1>1, <2>1, <2>2, <2>3 DEF ServerState
  <2> QED BY <2>4 DEF q
<1>7. toServer' \in [Client -> Seq(Message)] /\ \A d \in Client : Under(toServer'[d], n + 1)
  <2>1. toServer' \in [Client -> Seq(Message)]
        /\ \A d \in Client : toServer'[d] = IF d = c THEN Tail(toServer[c]) ELSE toServer[d]
    BY <1>1, <1>2, <1>5
  <2> QED BY <1>1, <1>2, <2>1
<1> HIDE DEF n
<1>8. server'.clipSeq <= n
  BY <1>1, <1>6
<1> QED BY <1>1, <1>4, <1>5, <1>6, <1>7, <1>8, ServerQuiet DEF n

(* switchScreen: the new visit has a number nobody has seen.                 *)
LEMMA SwitchScreenKeeps ==
  ASSUME SeqInv, NEW dst \in Screen, SwitchScreen(dst)
  PROVE  SeqInv'
<1> DEFINE src  == server.active
           n    == server.seqNum
           left == IF src = Primary /\ server.owner = Primary
                   THEN ClipboardChanged(server, Primary, server.clipSeq) ELSE server
           over == [left EXCEPT !.active = dst, !.seqNum = n + 1,
                                !.enterSeq = IF dst = Primary THEN n + 1 ELSE @]
           gone == IF src = Primary THEN toClient
                   ELSE Write(toClient, src, Msg("leave", src, 0, Empty))
           into == Msg("enter", dst, n + 1, Empty)
<1>1. /\ server \in ServerState /\ n \in Nat /\ server.clipSeq < n + 1 /\ server.clipSeq \in Nat
      /\ server.enterSeq < n + 1 /\ server.enterSeq \in Nat /\ src \in Screen
      /\ Under(server.queue, n + 1) /\ server.queue \in Seq(Event)
      /\ client \in [Client -> ClientState] /\ toClient \in [Client -> Seq(Message)]
      /\ toServer \in [Client -> Seq(Message)] /\ copies \in 0..MaxCopies /\ habit \in Habits
      /\ \A d \in Client : /\ client[d].seqNum < n + 1 /\ Under(client[d].queue, n + 1)
                           /\ Under(toClient[d], n + 1) /\ Under(toServer[d], n + 1)
  BY DEF SeqInv, TypeOK, Bounded, ServerState, SeqNum
<1>2. /\ dst # src /\ n + 1 \in SeqNum /\ 0 \in SeqNum
      /\ UNCHANGED <<client, toServer, copies, habit>>
      /\ server' \in {over, SetClipboard(over, dst)}
      /\ toClient' = IF dst = Primary THEN gone ELSE Write(gone, dst, into)
  <2>1. n + 1 \in SeqNum /\ 0 \in SeqNum
    BY <1>1, ClipboardAssumption DEF SwitchScreen, SeqNum
  <2>2. n + 1 = NextSeq
    BY DEF NextSeq
  <2> QED BY <2>1, <2>2 DEF SwitchScreen
<1>3. left \in ServerState /\ left.clipSeq = server.clipSeq /\ left.enterSeq = server.enterSeq
      /\ Under(left.queue, n + 1)
  <2>1. Primary \in Screen /\ server.clipSeq \in Int
    BY <1>1 DEF Screen
  <2>2. ClipboardChanged(server, Primary, server.clipSeq) \in ServerState
        /\ Transfer(server, ClipboardChanged(server, Primary, server.clipSeq))
    BY <1>1, <2>1, ClipboardChangedKeeps
  <2>3. Under(ClipboardChanged(server, Primary, server.clipSeq).queue, n + 1)
    BY <1>1, <2>2, UnderTransfer
  <2> QED BY <1>1, <2>2, <2>3 DEF Transfer
<1> HIDE DEF left
<1>4. /\ over \in ServerState /\ over.active = dst /\ over.seqNum = n + 1
      /\ over.clipSeq = server.clipSeq /\ over.enterSeq <= n + 1 /\ over.queue = left.queue
  <2>1. \/ over = [left EXCEPT !.active = dst, !.seqNum = n + 1, !.enterSeq = n + 1]
        \/ over = [left EXCEPT !.active = dst, !.seqNum = n + 1, !.enterSeq = left.enterSeq]
    OBVIOUS
  <2> DEFINE k == n + 1
  <2>2. k \in SeqNum /\ left.enterSeq <= k /\ dst \in Screen /\ k <= k
    BY <1>1, <1>2, <1>3
  <2> HIDE DEF over, k, n
  <2>3. \/ over = [left EXCEPT !.active = dst, !.seqNum = k, !.enterSeq = k]
        \/ over = [left EXCEPT !.active = dst, !.seqNum = k, !.enterSeq = left.enterSeq]
    BY <2>1 DEF k
  <2>4. /\ over \in ServerState /\ over.active = dst /\ over.seqNum = k
        /\ over.clipSeq = left.clipSeq /\ over.enterSeq \in {k, left.enterSeq} /\ over.queue = left.queue
    BY <1>3, <2>2, <2>3 DEF ServerState
  <2> QED BY <1>3, <2>2, <2>4 DEF k
<1> HIDE DEF over
<1>5. /\ server' \in ServerState /\ server'.active = dst /\ server'.seqNum = n + 1
      /\ server'.clipSeq = server.clipSeq /\ server'.enterSeq <= n + 1
      /\ Under(server'.queue, n + 1)
  <2>1. SetClipboard(over, dst) \in ServerState /\ Transfer(over, SetClipboard(over, dst))
    BY <1>4, SetClipboardKeeps
  <2>2. Under(over.queue, n + 1)
    BY <1>3, <1>4
  <2>3. Under(SetClipboard(over, dst).queue, n + 1)
    BY <1>1, <1>4, <2>1, <2>2, UnderTransfer
  <2> QED BY <1>2, <1>4, <2>1, <2>2, <2>3 DEF Transfer
<1>6. /\ gone \in [Client -> Seq(Message)]
      /\ \A d \in Client : Under(gone[d], n + 1)
  <2>1. CASE src = Primary
    BY <1>1, <2>1
  <2>2. CASE src # Primary
    <3> DEFINE m == Msg("leave", src, 0, Empty)
    <3>1. src \in Client /\ m \in Message /\ m.seq = 0
      BY <1>1, <1>2, <2>2 DEF Screen, Message, Msg, Contents
    <3> HIDE DEF m
    <3>2. toClient[src] \in Seq(Message) /\ Under(toClient[src], n + 1)
      BY <1>1, <3>1
    <3>3. Append(toClient[src], m) \in Seq(Message) /\ Under(Append(toClient[src], m), n + 1)
      BY <1>1, <3>1, <3>2, AppendKeeps, UnderAppend
    <3>4. gone = [toClient EXCEPT ![src] = Append(toClient[src], m)]
      BY <1>1, <2>2, <3>1 DEF Write, m
    <3> HIDE DEF gone, src
    <3>5. \A d \in Client : gone[d] = IF d = src THEN Append(toClient[src], m) ELSE toClient[d]
      BY <1>1, <3>1, <3>4
    <3> QED BY <1>1, <3>3, <3>4, <3>5
  <2> QED BY <2>1, <2>2
<1> HIDE DEF gone
<1>7. /\ toClient' \in [Client -> Seq(Message)]
      /\ \A d \in Client \ {dst} : Under(toClient'[d], n + 1)
      /\ \A d \in Client : Under(toClient'[d], n + 2)
  <2>1. \A d \in Client : Under(gone[d], n + 2)
    <3>1. n + 1 \in Int /\ n + 2 \in Int /\ n + 1 <= n + 2
      BY <1>1
    <3> HIDE DEF n
    <3> QED BY <1>6, <3>1, SentUnderMore
  <2>2. CASE dst = Primary
    BY <1>2, <1>6, <2>1, <2>2
  <2>3. CASE dst # Primary
    <3>1. dst \in Client /\ into \in Message /\ into.seq = n + 1
      BY <1>2, <2>3 DEF Screen, Message, Msg, Contents
    <3> HIDE DEF into
    <3>2. Append(gone[dst], into) \in Seq(Message)
      BY <1>6, <3>1, AppendKeeps
    <3>3. Under(Append(gone[dst], into), n + 2)
      <4>1. gone[dst] \in Seq(Message) /\ Under(gone[dst], n + 2) /\ n + 2 \in Int /\ into.seq < n + 2
        BY <1>1, <1>6, <2>1, <3>1
      <4> QED BY <3>1, <4>1, UnderAppend
    <3>4. toClient' = [gone EXCEPT ![dst] = Append(gone[dst], into)]
      BY <1>2, <1>6, <2>3, <3>1 DEF Write
    <3>5. \A d \in Client : toClient'[d] = IF d = dst THEN Append(gone[dst], into) ELSE gone[d]
      BY <1>6, <3>1, <3>4
    <3> QED BY <1>6, <2>1, <3>2, <3>3, <3>4, <3>5
  <2> QED BY <2>2, <2>3
<1> HIDE DEF into
<1>8. TypeOK'
  BY <1>1, <1>2, <1>5, <1>7 DEF TypeOK
<1>9. Bounded'
  <2>1. n + 1 \in Int /\ n + 2 \in Int /\ n + 1 <= n + 2 /\ server'.seqNum + 1 = n + 2
    BY <1>1, <1>5
  <2>2. /\ server'.clipSeq < n + 2 /\ server'.enterSeq < n + 2
        /\ \A d \in Client : client'[d].seqNum < n + 2
    <3>1. server'.enterSeq \in Nat /\ \A d \in Client : client[d].seqNum \in Nat
      BY <1>1, <1>5 DEF ServerState, ClientState, SeqNum
    <3>2. \A d \in Client : client'[d].seqNum < n + 2
      BY <1>1, <1>2, <3>1
    <3> QED BY <1>1, <1>5, <3>1, <3>2
  <2> HIDE DEF n
  <2>3. Under(server'.queue, n + 2)
    <3>1. server'.queue \in Seq(Event)
      BY <1>5 DEF ServerState
    <3> QED BY <1>5, <2>1, <3>1, SentUnderMore
  <2>4. \A d \in Client : Under(client'[d].queue, n + 2) /\ Under(toServer'[d], n + 2)
    <3>1. \A d \in Client : client[d].queue \in Seq(Event) /\ toServer[d] \in Seq(Message)
      BY <1>1 DEF ClientState
    <3>2. \A d \in Client : Under(client[d].queue, n + 2) /\ Under(toServer[d], n + 2)
      BY <1>1, <2>1, <3>1, SentUnderMore
    <3> QED BY <1>2, <3>2
  <2> QED BY <1>7, <2>1, <2>2, <2>3, <2>4 DEF Bounded
<1>10. LeftAreOlder'
  <2>1. \A d \in Client : client'[d].seqNum < n + 1
    BY <1>1, <1>2
  <2> HIDE DEF n
  <2> QED BY <1>5, <1>7, <2>1 DEF LeftAreOlder
<1> QED BY <1>8, <1>9, <1>10 DEF SeqInv

-----------------------------------------------------------------------------
(* The steps of a client.                                                    *)
LEMMA ClientQuiet ==
  ASSUME SeqInv, NEW c \in Client, NEW cl \in ClientState,
         client' = [client EXCEPT ![c] = cl],
         cl.seqNum < server.seqNum + 1,
         c # server.active /\ server.seqNum > 0 => cl.seqNum < server.seqNum,
         Under(cl.queue, server.seqNum + 1),
         UNCHANGED <<server, habit>>, copies' \in 0..MaxCopies,
         toClient' \in [Client -> Seq(Message)],
         \A d \in Client : \A n \in Int : Under(toClient[d], n) => Under(toClient'[d], n),
         toServer' \in [Client -> Seq(Message)],
         \A d \in Client : Under(toServer'[d], server.seqNum + 1)
  PROVE  SeqInv'
<1>1. client' \in [Client -> ClientState] /\ server.seqNum \in Int
      /\ \A d \in Client : client'[d] = IF d = c THEN cl ELSE client[d]
  BY DEF SeqInv, TypeOK, ServerState, SeqNum
<1>2. TypeOK'
  BY <1>1 DEF SeqInv, TypeOK
<1>3. Bounded'
  BY <1>1 DEF SeqInv, Bounded
<1>4. LeftAreOlder'
  BY <1>1 DEF SeqInv, LeftAreOlder
<1> QED BY <1>2, <1>3, <1>4 DEF SeqInv

(* What the invariant says of one client.                                    *)
LEMMA ClientFacts ==
  ASSUME SeqInv, NEW c \in Client
  PROVE  /\ server.seqNum \in Nat /\ client[c] \in ClientState /\ client[c].seqNum \in Nat
         /\ client[c].seqNum \in SeqNum
         /\ client[c].queue \in Seq(Event) /\ Under(client[c].queue, server.seqNum + 1)
         /\ client[c].seqNum < server.seqNum + 1
         /\ c # server.active /\ server.seqNum > 0 => client[c].seqNum < server.seqNum
         /\ toClient \in [Client -> Seq(Message)] /\ toServer \in [Client -> Seq(Message)]
         /\ \A d \in Client : Under(toClient[d], server.seqNum + 1) /\ Under(toServer[d], server.seqNum + 1)
         /\ copies \in 0..MaxCopies
BY DEF SeqInv, TypeOK, Bounded, LeftAreOlder, ServerState, ClientState, SeqNum

LEMMA QueueUnder ==
  ASSUME NEW q \in Seq(Event), NEW r, NEW k \in Nat, NEW n \in Nat, k < n + 1, Under(q, n + 1),
         r = q \/ \E e \in Event : e.seq = k /\ r = Append(q, e)
  PROVE  Under(r, n + 1)
<1>1. ASSUME NEW e \in Event, e.seq = k, r = Append(q, e) PROVE Under(r, n + 1)
  BY <1>1, UnderAppend
<1> QED BY <1>1

LEMMA ParseMessageKeeps ==
  ASSUME SeqInv, NEW c \in Client, ParseMessage(c)
  PROVE  SeqInv'
<1> DEFINE m  == Head(toClient[c])
           cl == Obey(client[c], c, m)
           n  == server.seqNum
<1>1. /\ toClient[c] \in Seq(Message) /\ toClient[c] # <<>> /\ Under(toClient[c], n + 1)
      /\ client' = [client EXCEPT ![c] = cl] /\ toClient' = [toClient EXCEPT ![c] = Tail(@)]
      /\ UNCHANGED <<server, toServer, copies, habit>>
  BY ClientFacts DEF ParseMessage, SeqInv, TypeOK
<1>2. m \in Message /\ Tail(toClient[c]) \in Seq(Message) /\ m.seq < n + 1
      /\ (c # server.active /\ n > 0 => m.seq < n)
  <2>1. c # server.active /\ n > 0 => Under(toClient[c], n)
    BY DEF SeqInv, LeftAreOlder
  <2> QED BY <1>1, <2>1, TailKeeps, UnderTail
<1>3. \A d \in Client : \A k \in Int : Under(toClient[d], k) => Under(toClient'[d], k)
  <2>1. \A d \in Client : toClient'[d] = IF d = c THEN Tail(toClient[c]) ELSE toClient[d]
    BY <1>1, ClientFacts
  <2>2. \A k \in Int : Under(toClient[c], k) => Under(Tail(toClient[c]), k)
    BY <1>1, UnderTail
  <2> QED BY <2>1, <2>2
<1>4. toClient' \in [Client -> Seq(Message)]
  BY <1>1, <1>2, ClientFacts
<1>5. /\ cl \in ClientState
      /\ cl.seqNum = IF m.kind = "enter" THEN m.seq ELSE client[c].seqNum
      /\ \/ cl.queue = client[c].queue
         \/ \E e \in Event : e.seq = client[c].seqNum /\ cl.queue = Append(client[c].queue, e)
  BY <1>2, ClientFacts, ObeyKeeps
<1> HIDE DEF cl, m
<1>6. Under(cl.queue, n + 1)
  <2>1. /\ client[c].queue \in Seq(Event) /\ Under(client[c].queue, n + 1) /\ n \in Nat
        /\ client[c].seqNum \in Nat /\ client[c].seqNum < n + 1
    BY ClientFacts
  <2> QED BY <1>5, <2>1, QueueUnder
<1>7. cl.seqNum < n + 1 /\ (c # server.active /\ n > 0 => cl.seqNum < n)
  BY <1>2, <1>5, ClientFacts
<1>8. toServer' \in [Client -> Seq(Message)] /\ \A d \in Client : Under(toServer'[d], n + 1)
  BY <1>1, ClientFacts
<1>9. copies' \in 0..MaxCopies
  BY <1>1, ClientFacts
<1> QED BY <1>1, <1>3, <1>4, <1>5, <1>6, <1>7, <1>8, <1>9, ClientQuiet DEF n

(* What a client writes carries its own number or none.                      *)
LEMMA WriteKeeps ==
  ASSUME SeqInv, NEW c \in Client, NEW m \in Message, m.seq < server.seqNum + 1,
         toServer' = Write(toServer, c, m)
  PROVE  toServer' \in [Client -> Seq(Message)]
         /\ \A d \in Client : Under(toServer'[d], server.seqNum + 1)
<1>1. server.seqNum + 1 \in Int /\ toServer[c] \in Seq(Message) /\ toServer \in [Client -> Seq(Message)]
      /\ \A d \in Client : Under(toServer[d], server.seqNum + 1)
  BY ClientFacts
<1>2. Append(toServer[c], m) \in Seq(Message) /\ Under(Append(toServer[c], m), server.seqNum + 1)
  BY <1>1, AppendKeeps, UnderAppend
<1> QED BY <1>1, <1>2 DEF Write

LEMMA OwnClipboardKeeps ==
  ASSUME SeqInv, NEW c \in Client, OwnClipboard(c)
  PROVE  SeqInv'
<1> DEFINE own == [client[c] EXCEPT !.queue = Tail(@), !.own = TRUE, !.sent = FALSE, !.time = Never]
           cl  == IF own.active THEN own ELSE SendClipboard(own, c)
           m   == Msg("grab", c, client[c].seqNum, Empty)
           n   == server.seqNum
<1>1. /\ client[c].queue # <<>> /\ client' = [client EXCEPT ![c] = cl]
      /\ toServer' = Write(toServer, c, m) /\ UNCHANGED <<server, toClient, copies, habit>>
  <2>1. client \in [Client -> ClientState]
    BY DEF SeqInv, TypeOK
  <2> QED BY <2>1 DEF OwnClipboard
<1>2. Tail(client[c].queue) \in Seq(Event) /\ Under(Tail(client[c].queue), n + 1)
  BY <1>1, ClientFacts, TailKeeps, UnderTail
<1>3. own \in ClientState /\ own.seqNum = client[c].seqNum /\ own.queue = Tail(client[c].queue)
  <2> DEFINE q == Tail(client[c].queue)
  <2>1. q \in Seq(Event) /\ client[c] \in ClientState
    BY <1>2, ClientFacts
  <2>2. own = [client[c] EXCEPT !.queue = q, !.own = TRUE, !.sent = FALSE, !.time = Never]
    BY <2>1
  <2> HIDE DEF q, own
  <2>3. own \in ClientState /\ own.seqNum = client[c].seqNum /\ own.queue = q
    BY <2>1, <2>2 DEF ClientState
  <2> QED BY <2>3 DEF q
<1> HIDE DEF own
<1>4. cl \in ClientState /\ cl.seqNum = client[c].seqNum /\ Under(cl.queue, n + 1)
  <2>1. LET nw == SendClipboard(own, c)
        IN  /\ nw \in ClientState /\ nw.seqNum = own.seqNum
            /\ \/ nw.queue = own.queue
               \/ \E e \in Event : e.seq = own.seqNum /\ nw.queue = Append(own.queue, e)
    BY <1>3, SendClipboardKeeps
  <2>2. Under(SendClipboard(own, c).queue, n + 1)
    <3>1. /\ own.queue \in Seq(Event) /\ Under(own.queue, n + 1) /\ n \in Nat
          /\ own.seqNum \in Nat /\ own.seqNum < n + 1
      BY <1>2, <1>3, ClientFacts
    <3> QED BY <2>1, <3>1, QueueUnder
  <2> QED BY <1>2, <1>3, <2>1, <2>2
<1> HIDE DEF cl
<1>5. m \in Message /\ m.seq < n + 1
  BY ClientFacts DEF Message, Msg, Screen, Contents
<1> HIDE DEF m
<1>6. toServer' \in [Client -> Seq(Message)] /\ \A d \in Client : Under(toServer'[d], n + 1)
  BY <1>1, <1>5, WriteKeeps
<1>7. /\ toClient' \in [Client -> Seq(Message)] /\ copies' \in 0..MaxCopies
      /\ \A d \in Client : \A k \in Int : Under(toClient[d], k) => Under(toClient'[d], k)
  BY <1>1, ClientFacts
<1>8. cl.seqNum < n + 1 /\ (c # server.active /\ n > 0 => cl.seqNum < n)
  BY <1>4, ClientFacts
<1> QED BY <1>1, <1>4, <1>6, <1>7, <1>8, ClientQuiet DEF n

LEMMA SendChunksKeeps ==
  ASSUME SeqInv, NEW c \in Client, SendChunks(c)
  PROVE  SeqInv'
<1> DEFINE e  == Head(client[c].queue)
           cl == [client[c] EXCEPT !.queue = Tail(@)]
           m  == Msg("clip", c, e.seq, e.value)
           n  == server.seqNum
<1>1. /\ client[c].queue # <<>> /\ client' = [client EXCEPT ![c] = cl]
      /\ toServer' = Write(toServer, c, m) /\ UNCHANGED <<server, toClient, copies, habit>>
  <2>1. client \in [Client -> ClientState]
    BY DEF SeqInv, TypeOK
  <2> QED BY <2>1 DEF SendChunks
<1>2. /\ Tail(client[c].queue) \in Seq(Event) /\ Under(Tail(client[c].queue), n + 1)
      /\ e \in Event /\ e.seq < n + 1
  BY <1>1, ClientFacts, TailKeeps, UnderTail
<1>3. cl \in ClientState /\ cl.seqNum = client[c].seqNum /\ cl.queue = Tail(client[c].queue)
  <2> DEFINE q == Tail(client[c].queue)
  <2>1. q \in Seq(Event) /\ client[c] \in ClientState
    BY <1>2, ClientFacts
  <2>2. cl = [client[c] EXCEPT !.queue = q]
    BY <2>1
  <2> HIDE DEF q, cl
  <2>3. cl \in ClientState /\ cl.seqNum = client[c].seqNum /\ cl.queue = q
    BY <2>1, <2>2 DEF ClientState
  <2> QED BY <2>3 DEF q
<1>4. m \in Message /\ m.seq < n + 1
  BY <1>2 DEF Message, Event, Msg, Screen
<1> HIDE DEF cl, e, m
<1>5. toServer' \in [Client -> Seq(Message)] /\ \A d \in Client : Under(toServer'[d], n + 1)
  BY <1>1, <1>4, WriteKeeps
<1>6. /\ toClient' \in [Client -> Seq(Message)] /\ copies' \in 0..MaxCopies
      /\ \A d \in Client : \A k \in Int : Under(toClient[d], k) => Under(toClient'[d], k)
  BY <1>1, ClientFacts
<1>7. cl.seqNum < n + 1 /\ (c # server.active /\ n > 0 => cl.seqNum < n)
  BY <1>3, ClientFacts
<1>8. Under(cl.queue, n + 1)
  BY <1>2, <1>3
<1> QED BY <1>1, <1>3, <1>5, <1>6, <1>7, <1>8, ClientQuiet DEF n

-----------------------------------------------------------------------------
(* The user copies, on the server's screen or on a client's.                 *)
LEMMA CopyKeeps ==
  ASSUME SeqInv, NEW s \in Screen, Copy(s)
  PROVE  SeqInv'
<1> DEFINE n == server.seqNum
<1>1. /\ copies' \in 0..MaxCopies /\ copies' \in Contents /\ 0 \in SeqNum
      /\ UNCHANGED <<toClient, toServer, habit>>
  BY ClipboardAssumption DEF SeqInv, TypeOK, Copy, Contents, Copies, SeqNum
<1>2. CASE s = Primary
  <2> DEFINE e == Msg("grabbed", s, server.enterSeq, Empty)
             v == copies'
             q == Append(server.queue, e)
  <2>1. /\ server \in ServerState /\ n \in Nat /\ server.enterSeq \in SeqNum /\ server.enterSeq < n + 1
        /\ server.clipSeq < n + 1 /\ server.clipSeq \in Nat /\ Under(server.queue, n + 1)
        /\ server.queue \in Seq(Event) /\ client \in [Client -> ClientState]
        /\ toClient \in [Client -> Seq(Message)] /\ toServer \in [Client -> Seq(Message)]
        /\ \A d \in Client : Under(toServer[d], n + 1)
    BY DEF SeqInv, TypeOK, Bounded, ServerState, SeqNum
  <2>2. server' = [server EXCEPT !.content = v, !.queue = q] /\ UNCHANGED client
    BY <1>2 DEF Copy
  <2>3. e \in Event /\ e.seq < n + 1
    BY <2>1 DEF Event, Msg, Contents
  <2> HIDE DEF e
  <2>4. q \in Seq(Event) /\ Under(q, n + 1)
    BY <2>1, <2>3, AppendKeeps, UnderAppend
  <2>5. v \in Contents
    BY <1>1
  <2> HIDE DEF q, v
  <2>6. /\ server' \in ServerState /\ server'.active = server.active /\ server'.seqNum = server.seqNum
        /\ server'.enterSeq = server.enterSeq /\ server'.clipSeq = server.clipSeq
        /\ server'.queue = q
    BY <2>1, <2>2, <2>4, <2>5 DEF ServerState
  <2>7. server'.clipSeq <= n
    <3> HIDE DEF n
    <3> QED BY <2>1, <2>6
  <2> QED BY <1>1, <2>1, <2>2, <2>4, <2>6, <2>7, ServerQuiet
<1>3. CASE s # Primary
  <2> DEFINE e  == Msg("grabbed", s, 0, Empty)
             v  == copies'
             q  == Append(client[s].queue, e)
             cl == [client[s] EXCEPT !.content = v, !.queue = q]
  <2>1. s \in Client
    BY <1>3 DEF Screen
  <2>2. client' = [client EXCEPT ![s] = cl] /\ UNCHANGED server
    <3>1. client \in [Client -> ClientState]
      BY DEF SeqInv, TypeOK
    <3> QED BY <1>3, <2>1, <3>1 DEF Copy
  <2>3. e \in Event /\ e.seq < n + 1
    BY <1>1, <2>1, ClientFacts DEF Event, Msg, Contents
  <2> HIDE DEF e
  <2>4. q \in Seq(Event) /\ Under(q, n + 1)
    BY <2>1, <2>3, ClientFacts, AppendKeeps, UnderAppend
  <2>5. v \in Contents /\ client[s] \in ClientState
    BY <1>1, <2>1, ClientFacts
  <2> HIDE DEF q, v
  <2>6. cl \in ClientState /\ cl.seqNum = client[s].seqNum /\ cl.queue = q
    BY <2>4, <2>5 DEF ClientState
  <2> HIDE DEF cl
  <2>7. cl.seqNum < n + 1 /\ (s # server.active /\ n > 0 => cl.seqNum < n)
    BY <2>1, <2>6, ClientFacts
  <2>8. /\ toClient' \in [Client -> Seq(Message)] /\ toServer' \in [Client -> Seq(Message)]
        /\ \A d \in Client : Under(toServer'[d], n + 1)
        /\ \A d \in Client : \A k \in Int : Under(toClient[d], k) => Under(toClient'[d], k)
    BY <1>1, <2>1, ClientFacts
  <2> QED BY <1>1, <2>1, <2>2, <2>4, <2>6, <2>7, <2>8, ClientQuiet
<1> QED BY <1>2, <1>3

-----------------------------------------------------------------------------
LEMMA SeqInvNext == SeqInv /\ [Next]_vars => SeqInv'
<1> SUFFICES ASSUME SeqInv, [Next]_vars PROVE SeqInv'
  OBVIOUS
<1>1. CASE ServerStep
  BY <1>1, HandleGrabbedKeeps, HandleChangedKeeps, HandleSendingKeeps DEF ServerStep
<1>2. ASSUME NEW c \in Client, Receive(c) \/ ClientStep(c) PROVE SeqInv'
  BY <1>2, ReceiveKeeps, ParseMessageKeeps, OwnClipboardKeeps, SendChunksKeeps DEF ClientStep
<1>3. ASSUME NEW s \in Screen, SwitchScreen(s) \/ Copy(s) PROVE SeqInv'
  BY <1>3, SwitchScreenKeeps, CopyKeeps
<1>4. CASE UNCHANGED vars
  BY <1>4 DEF vars, SeqInv, TypeOK, Bounded, LeftAreOlder, Under
<1> QED BY <1>1, <1>2, <1>3, <1>4 DEF Next

LEMMA SeqInvImplies == SeqInv => TypeOK /\ SeqOrdersVisits
BY DEF SeqInv, TypeOK, Bounded, SeqOrdersVisits, ServerState, SeqNum

(* The members of the server, the clients, their queues and the streams keep *)
(* the types and ranges the code gives them.                                 *)
THEOREM TypeCorrect == Spec => []TypeOK
BY InitSeqInv, SeqInvNext, SeqInvImplies, PTL DEF Spec

(* Whatever the user does and however late messages are, a screen the cursor *)
(* is not on never has the number of the present visit, so a grab it sends   *)
(* is older than the visit, and the owner's number never is newer than it    *)
(* (Server::switchScreen, handleClipboardGrabbed).                           *)
THEOREM VisitsOrdered == Spec => []SeqOrdersVisits
BY InitSeqInv, SeqInvNext, SeqInvImplies, PTL DEF Spec
-----------------------------------------------------------------------------
(* Who may speak for the clipboard.  Every number in use belongs to the      *)
(* screen the cursor was on in that visit (v), contents follow a grab with   *)
(* their number or a newer one, and the server's own grabs are in order.     *)
GrabIn(q, n, c, k) == \E j \in 1..n : q[j].kind = "grabbed" /\ q[j].screen = c /\ q[j].seq >= k
Hears(sv, c, k)    == sv.clipSeq >= k \/ GrabIn(sv.queue, Len(sv.queue), c, k)
GrabSent(out, n, k) == \E j \in 1..n : out[j].kind = "grab" /\ out[j].seq >= k
Claimed(c, out, sv, k) == Hears(sv, c, k) \/ GrabSent(out, Len(out), k)

EventInv(q, i, cs, v) ==
  /\ q[i].kind # "sending" => v[q[i].seq] = q[i].screen
  /\ q[i].kind = "changed" => cs >= q[i].seq \/ GrabIn(q, i - 1, q[i].screen, q[i].seq)
  /\ q[i].kind = "grabbed" /\ q[i].screen = Primary =>
       /\ q[i].seq >= cs
       /\ \A j \in 1..i - 1 : q[j].kind = "grabbed" => q[j].seq <= q[i].seq
QueueInv(q, cs, v) == \A i \in 1..Len(q) : EventInv(q, i, cs, v)

ServerInv(sv, v) ==
  /\ v[sv.seqNum] = sv.active /\ v[sv.enterSeq] = Primary /\ v[sv.clipSeq] = sv.owner
  /\ sv.active = Primary => sv.enterSeq = sv.seqNum
  /\ QueueInv(sv.queue, sv.clipSeq, v)

\* Its queue and streams name a client by the numbers of its own visits.
NamedClient(c, cl, to, out, v) ==
  /\ (~cl.active /\ ~cl.own /\ cl.queue = <<>>) \/ v[cl.seqNum] = c
  /\ \A i \in 1..Len(out) : v[out[i].seq] = c
  /\ \A i \in 1..Len(cl.queue) : cl.queue[i].kind = "sending" => v[cl.queue[i].seq] = c
  /\ \A i \in 1..Len(to) : to[i].kind = "enter" => v[to[i].seq] = c

\* A client that was active has left before message i of the stream q.
Out(q, active, i) ==
  \/ \E k \in 1..i - 1 : q[k].kind = "leave" /\ \A j \in k + 1..i - 1 : q[j].kind # "enter"
  \/ ~active /\ \A j \in 1..i - 1 : q[j].kind # "enter"

\* The cursor enters and leaves in turn, with rising numbers.
CursorClient(c, cl, to, at, n) ==
  /\ \A i \in 1..Len(to) :
       to[i].kind = "enter" =>
         /\ Out(to, cl.active, i) /\ to[i].seq > cl.seqNum
         /\ \A j \in 1..i - 1 : to[j].kind = "enter" => to[j].seq < to[i].seq
  /\ at # c => Out(to, cl.active, Len(to) + 1)
  /\ at = c => \/ cl.seqNum = n
               \/ \E i \in 1..Len(to) : to[i].kind = "enter" /\ to[i].seq = n

Copied(cl) == \E i \in 1..Len(cl.queue) : cl.queue[i].kind = "grabbed"

OrderClient(c, cl, out, sv) ==
  /\ \A i \in 1..Len(out) :
       out[i].kind # "grab" => Hears(sv, c, out[i].seq) \/ GrabSent(out, i - 1, out[i].seq)
  /\ \A i \in 1..Len(cl.queue) :
       cl.queue[i].kind = "sending" =>
         /\ cl.queue[i].seq <= cl.seqNum
         /\ \/ Claimed(c, out, sv, cl.queue[i].seq)
            \/ \E j \in 1..i - 1 : cl.queue[j].kind = "grabbed"
  /\ cl.own => \/ Copied(cl)
               \/ cl.active /\ Claimed(c, out, sv, cl.seqNum)
               \/ cl.time = cl.content
               \/ cl.content \in habit.oversize

ClientInv(c, v) ==
  /\ NamedClient(c, client[c], toClient[c], toServer[c], v)
  /\ CursorClient(c, client[c], toClient[c], server.active, server.seqNum)
  /\ OrderClient(c, client[c], toServer[c], server)

Visits   == [SeqNum -> Screen]
Agreed(v) == ServerInv(server, v) /\ \A c \in Client : ClientInv(c, v)
Ordered  == \E v \in Visits : Agreed(v)
OwnerInv == SeqInv /\ (habit.background \/ Ordered)

(* An event is taken from the server's queue; a grab that was taken counts.  *)
LEMMA QueueTaken ==
  ASSUME NEW q \in Seq(Event), q # <<>>, NEW cs \in SeqNum, NEW ct \in SeqNum, NEW v \in Visits,
         QueueInv(q, cs, v), ct >= cs, ct = cs \/ (ct = Head(q).seq /\ Head(q).kind = "grabbed"),
         Head(q).kind = "grabbed" => ct >= Head(q).seq
  PROVE  /\ QueueInv(Tail(q), ct, v)
         /\ \A c \in Screen, k \in SeqNum :
              cs >= k \/ GrabIn(q, Len(q), c, k) => ct >= k \/ GrabIn(Tail(q), Len(Tail(q)), c, k)
<1> DEFINE t == Tail(q)
<1>1. /\ t \in Seq(Event) /\ Len(t) = Len(q) - 1 /\ Len(q) \in Nat \ {0} /\ Head(q) = q[1]
      /\ \A i \in 1..Len(q) - 1 : t[i] = q[i + 1]
      /\ \A i \in 1..Len(q) : q[i].seq \in Int
  <2>1. \A i \in 1..Len(q) : q[i] \in Event
    OBVIOUS
  <2>2. \A e \in Event : e.seq \in Int
    BY DEF Event, SeqNum
  <2> QED BY <2>1, <2>2
<1> HIDE DEF t
<1>2. cs \in Int /\ ct \in Int
  BY DEF SeqNum
<1>3. ASSUME NEW c, NEW k \in Int, NEW n \in 1..Len(q), GrabIn(q, n, c, k)
      PROVE  ct >= k \/ GrabIn(t, n - 1, c, k)
  <2>1. PICK j \in 1..n : q[j].kind = "grabbed" /\ q[j].screen = c /\ q[j].seq >= k
    BY <1>3 DEF GrabIn
  <2>2. CASE j = 1
    BY <1>1, <1>2, <2>1, <2>2
  <2>3. CASE j # 1
    <3>1. j - 1 \in 1..n - 1 /\ t[j - 1] = q[j]
      BY <1>1, <2>1, <2>3
    <3> QED BY <2>1, <3>1 DEF GrabIn
  <2> QED BY <2>2, <2>3
<1>4. ASSUME NEW i \in 1..Len(t) PROVE EventInv(t, i, ct, v)
  <2>1. i + 1 \in 1..Len(q) /\ t[i] = q[i + 1] /\ EventInv(q, i + 1, cs, v)
        /\ q[i + 1].seq \in Int /\ i \in 1..Len(q)
    BY <1>1 DEF QueueInv
  <2>2. ASSUME t[i].kind = "changed"
        PROVE  ct >= t[i].seq \/ GrabIn(t, i - 1, t[i].screen, t[i].seq)
    <3>1. cs >= t[i].seq \/ GrabIn(q, i, t[i].screen, t[i].seq)
      BY <1>1, <2>1, <2>2 DEF EventInv
    <3> QED BY <1>2, <1>3, <2>1, <3>1
  <2>3. ASSUME t[i].kind = "grabbed", t[i].screen = Primary
        PROVE  t[i].seq >= ct /\ \A j \in 1..i - 1 : t[j].kind = "grabbed" => t[j].seq <= t[i].seq
    <3>1. q[i + 1].seq >= cs
          /\ \A j \in 1..i : q[j].kind = "grabbed" => q[j].seq <= q[i + 1].seq
      BY <1>1, <2>1, <2>3 DEF EventInv
    <3>2. t[i].seq >= ct
      BY <1>1, <1>2, <2>1, <3>1
    <3>3. ASSUME NEW j \in 1..i - 1, t[j].kind = "grabbed" PROVE t[j].seq <= t[i].seq
      <4>1. j + 1 \in 1..i /\ t[j] = q[j + 1]
        BY <1>1
      <4> QED BY <2>1, <3>1, <3>3, <4>1
    <3> QED BY <3>2, <3>3
  <2>4. t[i].kind # "sending" => v[t[i].seq] = t[i].screen
    BY <2>1 DEF EventInv
  <2> QED BY <2>2, <2>3, <2>4 DEF EventInv
<1>5. \A c \in Screen, k \in SeqNum : cs >= k \/ GrabIn(q, Len(q), c, k) => ct >= k \/ GrabIn(t, Len(t), c, k)
  <2>1. \A k \in SeqNum : k \in Int
    BY DEF SeqNum
  <2> QED BY <1>1, <1>2, <1>3, <2>1
<1> QED BY <1>4, <1>5 DEF QueueInv, t

(* Transfers are queued behind.                                              *)
Sends(q, r) ==
  /\ Len(r) >= Len(q) /\ \A i \in 1..Len(q) : r[i] = q[i]
  /\ \A i \in 1..Len(r) : i > Len(q) => r[i].kind = "sending"

LEMMA SendsAppend ==
  ASSUME NEW q \in Seq(Event), NEW e \in Event, e.kind = "sending"
  PROVE  Sends(q, Append(q, e))
<1>1. /\ Len(Append(q, e)) = Len(q) + 1 /\ Len(q) \in Nat
      /\ \A i \in 1..Len(q) + 1 : Append(q, e)[i] = IF i = Len(q) + 1 THEN e ELSE q[i]
  OBVIOUS
<1> QED BY <1>1 DEF Sends

LEMMA SendsTwice ==
  ASSUME NEW q \in Seq(Event), NEW r \in Seq(Event), NEW s \in Seq(Event), Sends(q, r), Sends(r, s)
  PROVE  Sends(q, s)
<1>1. /\ Len(q) \in Nat /\ Len(r) \in Nat /\ Len(s) \in Nat
      /\ Len(s) >= Len(r) /\ \A i \in 1..Len(r) : s[i] = r[i]
      /\ Len(r) >= Len(q) /\ \A i \in 1..Len(q) : r[i] = q[i]
      /\ \A i \in 1..Len(r) : i > Len(q) => r[i].kind = "sending"
      /\ \A i \in 1..Len(s) : i > Len(r) => s[i].kind = "sending"
  BY DEF Sends
<1>2. ASSUME NEW i \in 1..Len(s), i > Len(q) PROVE s[i].kind = "sending"
  <2>1. CASE i > Len(r)
    BY <1>1, <2>1
  <2>2. CASE ~(i > Len(r))
    <3>1. i \in 1..Len(r)
      BY <1>1, <2>2
    <3> QED BY <1>1, <1>2, <3>1
  <2> QED BY <2>1, <2>2
<1>3. Len(s) >= Len(q) /\ \A i \in 1..Len(q) : s[i] = q[i]
  BY <1>1
<1> QED BY <1>2, <1>3 DEF Sends

LEMMA QueueSends ==
  ASSUME NEW q \in Seq(Event), NEW r \in Seq(Event), Sends(q, r), NEW cs, NEW v, QueueInv(q, cs, v)
  PROVE  /\ QueueInv(r, cs, v)
         /\ \A c, k : GrabIn(q, Len(q), c, k) => GrabIn(r, Len(r), c, k)
<1>1. /\ Len(q) \in Nat /\ Len(r) \in Nat /\ Len(r) >= Len(q) /\ \A i \in 1..Len(q) : r[i] = q[i]
      /\ \A i \in 1..Len(r) : i > Len(q) => r[i].kind = "sending"
  BY DEF Sends
<1>2. ASSUME NEW i \in 1..Len(r) PROVE EventInv(r, i, cs, v)
  <2>1. CASE i > Len(q)
    BY <1>1, <2>1 DEF EventInv
  <2>2. CASE i <= Len(q)
    <3>1. EventInv(q, i, cs, v) /\ r[i] = q[i] /\ \A j \in 1..i - 1 : r[j] = q[j]
      BY <1>1, <2>2 DEF QueueInv
    <3>2. \A c, k : GrabIn(q, i - 1, c, k) <=> GrabIn(r, i - 1, c, k)
      BY <3>1 DEF GrabIn
    <3> QED BY <3>1, <3>2 DEF EventInv
  <2> QED BY <1>1, <2>1, <2>2
<1>3. \A c, k : GrabIn(q, Len(q), c, k) => GrabIn(r, Len(r), c, k)
  BY <1>1 DEF GrabIn
<1> QED BY <1>2, <1>3 DEF QueueInv

(* A client's message, or the server's own copy, is queued as an event.      *)
LEMMA QueueAppend ==
  ASSUME NEW q \in Seq(Event), NEW e \in Event, NEW cs, NEW v, QueueInv(q, cs, v),
         v[e.seq] = e.screen,
         e.kind = "changed" => cs >= e.seq \/ GrabIn(q, Len(q), e.screen, e.seq),
         e.kind = "grabbed" /\ e.screen = Primary =>
           e.seq >= cs /\ \A j \in 1..Len(q) : q[j].kind = "grabbed" => q[j].seq <= e.seq
  PROVE  LET r == Append(q, e)
         IN  /\ QueueInv(r, cs, v)
             /\ \A c, k : GrabIn(q, Len(q), c, k) => GrabIn(r, Len(r), c, k)
             /\ e.kind = "grabbed" => \A k : e.seq >= k => GrabIn(r, Len(r), e.screen, k)
<1> DEFINE r == Append(q, e)
<1>1. /\ Len(r) = Len(q) + 1 /\ Len(q) \in Nat /\ r[Len(q) + 1] = e
      /\ \A i \in 1..Len(q) : r[i] = q[i]
  OBVIOUS
<1> HIDE DEF r
<1>2. ASSUME NEW n \in 0..Len(q) PROVE \A c, k : GrabIn(q, n, c, k) <=> GrabIn(r, n, c, k)
  <2>1. \A j \in 1..n : r[j] = q[j]
    BY <1>1
  <2> QED BY <2>1 DEF GrabIn
<1>3. ASSUME NEW i \in 1..Len(r) PROVE EventInv(r, i, cs, v)
  <2>1. CASE i = Len(q) + 1
    <3>1. r[i] = e /\ i - 1 = Len(q) /\ \A j \in 1..i - 1 : r[j] = q[j]
      BY <1>1, <2>1
    <3>2. GrabIn(q, Len(q), e.screen, e.seq) <=> GrabIn(r, i - 1, e.screen, e.seq)
      BY <1>1, <1>2, <3>1
    <3> QED BY <3>1, <3>2 DEF EventInv
  <2>2. CASE i <= Len(q)
    <3>1. EventInv(q, i, cs, v) /\ r[i] = q[i] /\ i - 1 \in 0..Len(q) /\ \A j \in 1..i - 1 : r[j] = q[j]
      BY <1>1, <2>2 DEF QueueInv
    <3> QED BY <1>2, <3>1 DEF EventInv
  <2> QED BY <1>1, <2>1, <2>2
<1>4. \A c, k : GrabIn(q, Len(q), c, k) => GrabIn(r, Len(r), c, k)
  BY <1>1 DEF GrabIn
<1>5. e.kind = "grabbed" => \A k : e.seq >= k => GrabIn(r, Len(r), e.screen, k)
  BY <1>1 DEF GrabIn
<1> QED BY <1>3, <1>4, <1>5 DEF QueueInv, r

(* The operators of the server that leave the owner and the visits alone.    *)
SameVisit(sv, nw) ==
  /\ nw \in ServerState
  /\ nw.active = sv.active /\ nw.seqNum = sv.seqNum /\ nw.enterSeq = sv.enterSeq
  /\ nw.clipSeq = sv.clipSeq /\ nw.owner = sv.owner
  /\ Sends(sv.queue, nw.queue)

LEMMA SendsSame == ASSUME NEW q \in Seq(Event) PROVE Sends(q, q)
BY DEF Sends

LEMMA SameVisitSame == ASSUME NEW sv \in ServerState PROVE SameVisit(sv, sv)
BY SendsSame DEF SameVisit, ServerState

LEMMA SameVisitTwice ==
  ASSUME NEW sv \in ServerState, NEW mid, NEW nw, SameVisit(sv, mid), SameVisit(mid, nw)
  PROVE  SameVisit(sv, nw)
<1>1. sv.queue \in Seq(Event) /\ mid.queue \in Seq(Event) /\ nw.queue \in Seq(Event)
  BY DEF SameVisit, ServerState
<1>2. Sends(sv.queue, nw.queue)
  BY <1>1, SendsTwice DEF SameVisit
<1> QED BY <1>2 DEF SameVisit

LEMMA SetClipboardSame ==
  ASSUME NEW sv \in ServerState, NEW s \in Screen
  PROVE  SameVisit(sv, SetClipboard(sv, s))
<1>1. SetClipboard(sv, s) \in ServerState
  BY SetClipboardKeeps
<1>2. sv.queue \in Seq(Event)
  BY DEF ServerState
<1>3. CASE ~sv.dirty[s]
  BY <1>3, SameVisitSame DEF SetClipboard
<1>4. CASE sv.dirty[s] /\ s = Primary
  <2> DEFINE nw == [sv EXCEPT !.dirty[s] = FALSE, !.content = sv.clip]
  <2>1. /\ nw.active = sv.active /\ nw.seqNum = sv.seqNum /\ nw.enterSeq = sv.enterSeq
        /\ nw.clipSeq = sv.clipSeq /\ nw.owner = sv.owner /\ nw.queue = sv.queue
    BY DEF ServerState
  <2>2. SetClipboard(sv, s) = nw
    BY <1>4 DEF SetClipboard
  <2> QED BY <1>1, <1>2, <2>1, <2>2, SendsSame DEF SameVisit
<1>5. CASE sv.dirty[s] /\ s # Primary
  <2> DEFINE e == Msg("sending", s, 0, sv.clip)
  <2> DEFINE nw == [sv EXCEPT !.dirty[s] = FALSE, !.stored[s] = sv.clip, !.queue = Append(@, e)]
  <2>1. e \in Event /\ e.kind = "sending"
    BY ClipboardAssumption DEF ServerState, Event, Msg, SeqNum
  <2> HIDE DEF e
  <2>2. /\ nw.active = sv.active /\ nw.seqNum = sv.seqNum /\ nw.enterSeq = sv.enterSeq
        /\ nw.clipSeq = sv.clipSeq /\ nw.owner = sv.owner /\ nw.queue = Append(sv.queue, e)
    BY DEF ServerState
  <2>3. Sends(sv.queue, nw.queue)
    BY <1>2, <2>1, <2>2, SendsAppend
  <2>4. SetClipboard(sv, s) = nw
    BY <1>5 DEF SetClipboard, e
  <2> QED BY <1>1, <2>2, <2>3, <2>4 DEF SameVisit
<1> QED BY <1>3, <1>4, <1>5 DEF ServerState

LEMMA ClipboardChangedSame ==
  ASSUME NEW sv \in ServerState, NEW s \in Screen, NEW n \in Int
  PROVE  SameVisit(sv, ClipboardChanged(sv, s, n))
<1> DEFINE v == GetClipboard(sv, s)
           got == [sv EXCEPT !.clip = v]
           news == [got EXCEPT !.data = v, !.dirty = [x \in Screen |-> x # s]]
<1>1. v \in Contents
  BY DEF GetClipboard, ServerState, Screen
<1> HIDE DEF v
<1>2. sv.queue \in Seq(Event) /\ sv.active \in Screen
  BY DEF ServerState
<1>3. SameVisit(sv, got)
  <2>1. got \in ServerState /\ got.queue = sv.queue
    BY <1>1 DEF ServerState
  <2>2. got.active = sv.active /\ got.seqNum = sv.seqNum /\ got.enterSeq = sv.enterSeq
        /\ got.clipSeq = sv.clipSeq /\ got.owner = sv.owner
    BY DEF ServerState
  <2> QED BY <1>2, <2>1, <2>2, SendsSame DEF SameVisit
<1>4. SameVisit(sv, news) /\ news.active = sv.active
  <2>1. news \in ServerState /\ news.queue = sv.queue
    BY <1>1 DEF ServerState
  <2>2. news.active = sv.active /\ news.seqNum = sv.seqNum /\ news.enterSeq = sv.enterSeq
        /\ news.clipSeq = sv.clipSeq /\ news.owner = sv.owner
    BY DEF ServerState
  <2> QED BY <1>2, <2>1, <2>2, SendsSame DEF SameVisit
<1>5. ClipboardChanged(sv, s, n) \in {sv, got, SetClipboard(news, sv.active)}
  BY DEF ClipboardChanged, v
<1> HIDE DEF got, news
<1>6. SameVisit(news, SetClipboard(news, sv.active))
  BY <1>2, <1>4, SetClipboardSame DEF SameVisit
<1> QED BY <1>3, <1>4, <1>5, <1>6, SameVisitSame, SameVisitTwice

(* A grab that is accepted: the grabber owns the clipboard from now on.      *)
LEMMA ClipboardGrabbedOwner ==
  ASSUME NEW sv \in ServerState, NEW g \in Screen, NEW n \in SeqNum
  PROVE  LET owned == [sv EXCEPT !.owner = g, !.clipSeq = n]
         IN  owned \in ServerState /\ SameVisit(owned, ClipboardGrabbed(sv, g, n))
<1> DEFINE owned == [sv EXCEPT !.owner = g, !.clipSeq = n]
           empty == [sv EXCEPT !.owner = g, !.clipSeq = n, !.clip = Empty, !.data = Empty]
           told  == GrabOthers(empty, g)
<1>1. owned \in ServerState /\ sv.queue \in Seq(Event) /\ owned.queue = sv.queue
      /\ owned.active = sv.active /\ owned.seqNum = sv.seqNum /\ owned.enterSeq = sv.enterSeq
      /\ owned.clipSeq = n /\ owned.owner = g
  BY DEF ServerState
<1>2. told \in ServerState /\ told.queue = sv.queue
      /\ told.active = sv.active /\ told.seqNum = sv.seqNum /\ told.enterSeq = sv.enterSeq
      /\ told.clipSeq = n /\ told.owner = g
  BY DEF GrabOthers, ServerState, Contents
<1>3. ClipboardGrabbed(sv, g, n) \in {told, ClipboardChanged(told, Primary, n)}
  BY DEF ClipboardGrabbed
<1> HIDE DEF owned, told
<1>4. SameVisit(owned, told)
  BY <1>1, <1>2, SendsSame DEF SameVisit
<1>5. SameVisit(told, ClipboardChanged(told, Primary, n))
  <2>1. Primary \in Screen /\ n \in Int
    BY DEF Screen, SeqNum
  <2> QED BY <1>2, <2>1, ClipboardChangedSame
<1> QED BY <1>1, <1>3, <1>4, <1>5, SameVisitTwice DEF owned

LEMMA SameVisitKeeps ==
  ASSUME NEW sv \in ServerState, NEW nw, SameVisit(sv, nw), NEW v, ServerInv(sv, v)
  PROVE  ServerInv(nw, v) /\ \A c, k : Hears(sv, c, k) => Hears(nw, c, k)
<1>1. sv.queue \in Seq(Event) /\ nw.queue \in Seq(Event) /\ Sends(sv.queue, nw.queue)
  BY DEF ServerState, SameVisit
<1>2. QueueInv(nw.queue, sv.clipSeq, v)
      /\ \A c, k : GrabIn(sv.queue, Len(sv.queue), c, k) => GrabIn(nw.queue, Len(nw.queue), c, k)
  BY <1>1, QueueSends DEF ServerInv
<1> QED BY <1>2 DEF ServerInv, SameVisit, Hears

-----------------------------------------------------------------------------
(* A client that does nothing, while the server writes to it.                *)
LEMMA OutPrefix ==
  ASSUME NEW q, NEW r, NEW a, NEW i \in Int, \A j \in 1..i - 1 : r[j] = q[j], Out(q, a, i)
  PROVE  Out(r, a, i)
BY DEF Out

LEMMA SeqNat ==
  /\ \A k \in SeqNum : k \in Nat /\ k \in Int
  /\ \A e \in Event : e.seq \in SeqNum
  /\ \A m \in Message : m.seq \in SeqNum
BY DEF SeqNum, Event, Message

LEMMA AppendAt ==
  ASSUME NEW S, NEW q \in Seq(S), NEW m \in S
  PROVE  /\ Append(q, m) \in Seq(S) /\ Len(Append(q, m)) = Len(q) + 1 /\ Len(q) \in Nat
         /\ Append(q, m)[Len(q) + 1] = m /\ \A i \in 1..Len(q) : Append(q, m)[i] = q[i]
OBVIOUS

LEMMA TailAt ==
  ASSUME NEW S, NEW q \in Seq(S), q # <<>>
  PROVE  /\ Tail(q) \in Seq(S) /\ Len(Tail(q)) = Len(q) - 1 /\ Len(q) \in Nat \ {0}
         /\ Head(q) = q[1] /\ Head(q) \in S /\ \A i \in 1..Len(q) - 1 : Tail(q)[i] = q[i + 1]
OBVIOUS

LEMMA CursorAppend ==
  ASSUME NEW c, NEW cl, NEW to \in Seq(Message), NEW at, NEW n, CursorClient(c, cl, to, at, n),
         NEW m \in Message, m.kind # "enter"
  PROVE  CursorClient(c, cl, Append(to, m), at, n)
<1> DEFINE r == Append(to, m)
<1>1. /\ Len(r) = Len(to) + 1 /\ Len(to) \in Nat /\ r[Len(to) + 1] = m
      /\ \A i \in 1..Len(to) : r[i] = to[i]
  BY AppendAt
<1> HIDE DEF r
<1>2. ASSUME NEW i \in 1..Len(r), r[i].kind = "enter"
      PROVE  /\ Out(r, cl.active, i) /\ r[i].seq > cl.seqNum
             /\ \A j \in 1..i - 1 : r[j].kind = "enter" => r[j].seq < r[i].seq
  <2>1. i \in 1..Len(to) /\ \A j \in 1..i : r[j] = to[j]
    BY <1>1, <1>2
  <2>2. /\ Out(to, cl.active, i) /\ to[i].seq > cl.seqNum
        /\ \A j \in 1..i - 1 : to[j].kind = "enter" => to[j].seq < to[i].seq
    BY <1>2, <2>1 DEF CursorClient
  <2> QED BY <2>1, <2>2, OutPrefix
<1>3. ASSUME at # c PROVE Out(r, cl.active, Len(r) + 1)
  <2>1. Out(to, cl.active, Len(to) + 1)
    BY <1>3 DEF CursorClient
  <2> QED BY <1>1, <2>1 DEF Out
<1>4. at = c => \/ cl.seqNum = n
                \/ \E i \in 1..Len(r) : r[i].kind = "enter" /\ r[i].seq = n
  BY <1>1 DEF CursorClient
<1> QED BY <1>2, <1>3, <1>4 DEF CursorClient, r

LEMMA NamedAppend ==
  ASSUME NEW c, NEW cl, NEW to \in Seq(Message), NEW out, NEW v, NamedClient(c, cl, to, out, v),
         NEW m \in Message, m.kind = "enter" => v[m.seq] = c
  PROVE  NamedClient(c, cl, Append(to, m), out, v)
BY AppendAt DEF NamedClient

LEMMA OrderMore ==
  ASSUME NEW c, NEW cl \in ClientState, NEW out \in Seq(Message), NEW sv, NEW nw,
         OrderClient(c, cl, out, sv), \A k \in SeqNum : Hears(sv, c, k) => Hears(nw, c, k)
  PROVE  OrderClient(c, cl, out, nw)
<1>1. /\ \A i \in 1..Len(out) : out[i].seq \in SeqNum
      /\ cl.seqNum \in SeqNum /\ \A i \in 1..Len(cl.queue) : cl.queue[i].seq \in SeqNum
  BY SeqNat DEF ClientState
<1> QED BY <1>1 DEF OrderClient, Claimed

LEMMA ClientUnmoved ==
  ASSUME SeqInv, NEW v, NEW c \in Client, ClientInv(c, v),
         client'[c] = client[c], toServer'[c] = toServer[c], habit' = habit,
         server'.active = server.active, server'.seqNum = server.seqNum,
         \A k \in SeqNum : Hears(server, c, k) => Hears(server', c, k),
         \/ toClient'[c] = toClient[c]
         \/ \E m \in Message : m.kind # "enter" /\ toClient'[c] = Append(toClient[c], m)
  PROVE  ClientInv(c, v)'
<1>1. toClient[c] \in Seq(Message) /\ toServer[c] \in Seq(Message) /\ client[c] \in ClientState
  BY DEF SeqInv, TypeOK
<1>2. NamedClient(c, client[c], toClient'[c], toServer[c], v)
      /\ CursorClient(c, client[c], toClient'[c], server.active, server.seqNum)
  BY <1>1, NamedAppend, CursorAppend DEF ClientInv
<1>3. OrderClient(c, client[c], toServer[c], server')
  BY <1>1, OrderMore DEF ClientInv
<1> QED BY <1>2, <1>3 DEF ClientInv, OrderClient

-----------------------------------------------------------------------------
(* The steps of the server.                                                  *)
LEMMA HandleGrabbedAgrees ==
  ASSUME SeqInv, NEW v \in Visits, Agreed(v), HandleGrabbed
  PROVE  Agreed(v)'
<1> DEFINE q  == server.queue
           e  == Head(q)
           sv == [server EXCEPT !.queue = Tail(@)]
           owned == [sv EXCEPT !.owner = e.screen, !.clipSeq = e.seq]
<1>1. /\ server \in ServerState /\ q \in Seq(Event) /\ q # <<>> /\ e.kind = "grabbed"
      /\ Tail(q) \in Seq(Event) /\ e \in Event /\ e = q[1] /\ 1 \in 1..Len(q)
      /\ e.seq \in SeqNum /\ e.screen \in Screen /\ server.clipSeq \in SeqNum
      /\ e.seq \in Nat /\ server.clipSeq \in Nat /\ sv \in ServerState
  <2>1. server \in ServerState /\ q \in Seq(Event) /\ q # <<>> /\ e.kind = "grabbed"
    BY DEF HandleGrabbed, SeqInv, TypeOK, ServerState
  <2>2. e \in Event /\ Tail(q) \in Seq(Event) /\ e = q[1] /\ Len(q) \in Nat \ {0}
    BY <2>1, TailAt
  <2>3. sv \in ServerState
    BY <2>1, <2>2 DEF ServerState
  <2>4. e.seq \in SeqNum /\ e.screen \in Screen /\ server.clipSeq \in SeqNum
    BY <2>1, <2>2 DEF Event, ServerState
  <2> HIDE DEF q, e, sv
  <2>5. e.seq \in Nat /\ server.clipSeq \in Nat
    BY <2>4, SeqNat
  <2> QED BY <2>1, <2>2, <2>3, <2>4, <2>5
<1>2. /\ sv.active = server.active /\ sv.seqNum = server.seqNum /\ sv.enterSeq = server.enterSeq
      /\ sv.clipSeq = server.clipSeq /\ sv.owner = server.owner /\ sv.queue = Tail(q)
  BY <1>1 DEF ServerState
<1>3. /\ UNCHANGED <<client, toServer, habit>>
      /\ \/ Stale(sv, e.screen, e.seq) /\ server' = sv /\ UNCHANGED toClient
         \/ /\ ~Stale(sv, e.screen, e.seq)
            /\ server' = ClipboardGrabbed(sv, e.screen, e.seq)
            /\ toClient' = TellGrab(toClient, e.screen)
  BY DEF HandleGrabbed
<1>4. /\ owned \in ServerState /\ owned.queue = Tail(q) /\ owned.clipSeq = e.seq /\ owned.owner = e.screen
      /\ owned.active = sv.active /\ owned.seqNum = sv.seqNum /\ owned.enterSeq = sv.enterSeq
  <2> HIDE DEF sv, e, q
  <2> QED BY <1>1, <1>2 DEF ServerState
<1>5. QueueInv(q, server.clipSeq, v) /\ ServerInv(server, v) /\ EventInv(q, 1, server.clipSeq, v)
  BY <1>1 DEF Agreed, ServerInv, QueueInv
<1> HIDE DEF q, e, sv, owned
<1>6. CASE Stale(sv, e.screen, e.seq)
  <2>1. server' = sv /\ UNCHANGED toClient
    BY <1>3, <1>6
  <2>2. server.clipSeq >= e.seq
    BY <1>1, <1>2, <1>6 DEF Stale
  <2>3. /\ QueueInv(Tail(q), server.clipSeq, v)
        /\ \A c \in Screen, k \in SeqNum :
             server.clipSeq >= k \/ GrabIn(q, Len(q), c, k)
               => server.clipSeq >= k \/ GrabIn(Tail(q), Len(Tail(q)), c, k)
    BY <1>1, <1>5, <2>2, QueueTaken
  <2>4. ServerInv(server', v)
    BY <1>2, <1>5, <2>1, <2>3 DEF ServerInv
  <2>5. \A c \in Client, k \in SeqNum : Hears(server, c, k) => Hears(server', c, k)
    BY <1>2, <2>1, <2>3 DEF Hears, q, Screen
  <2>6. ASSUME NEW c \in Client PROVE ClientInv(c, v)'
    BY <1>2, <1>3, <2>1, <2>5, ClientUnmoved DEF Agreed
  <2> QED BY <2>4, <2>6 DEF Agreed
<1>7. CASE ~Stale(sv, e.screen, e.seq)
  <2>1. server' = ClipboardGrabbed(sv, e.screen, e.seq) /\ toClient' = TellGrab(toClient, e.screen)
    BY <1>3, <1>7
  <2>2. e.seq >= server.clipSeq
    <3>1. CASE e.screen = Primary
      BY <1>1, <1>5, <3>1 DEF EventInv
    <3>2. CASE e.screen # Primary
      BY <1>1, <1>2, <1>7, <3>2 DEF Stale
    <3> QED BY <3>1, <3>2
  <2>3. /\ QueueInv(Tail(q), e.seq, v)
        /\ \A c \in Screen, k \in SeqNum :
             server.clipSeq >= k \/ GrabIn(q, Len(q), c, k)
               => e.seq >= k \/ GrabIn(Tail(q), Len(Tail(q)), c, k)
    <3>1. e.seq >= e.seq /\ e.seq = Head(q).seq /\ Head(q).kind = "grabbed"
      BY <1>1 DEF e
    <3> QED BY <1>1, <1>5, <2>2, <3>1, QueueTaken
  <2>4. ServerInv(owned, v)
    <3>1. v[e.seq] = e.screen
      BY <1>1, <1>5 DEF EventInv
    <3> QED BY <1>2, <1>4, <1>5, <2>3, <3>1 DEF ServerInv
  <2>5. SameVisit(owned, server')
    BY <1>1, <2>1, ClipboardGrabbedOwner DEF owned
  <2>6. ServerInv(server', v) /\ \A c, k : Hears(owned, c, k) => Hears(server', c, k)
    BY <1>4, <2>4, <2>5, SameVisitKeeps
  <2>7. \A c \in Client, k \in SeqNum : Hears(server, c, k) => Hears(server', c, k)
    <3>1. \A c \in Client, k \in SeqNum : Hears(server, c, k) => Hears(owned, c, k)
      BY <1>4, <2>3 DEF Hears, q, Screen
    <3> QED BY <2>6, <3>1
  <2>8. ASSUME NEW c \in Client PROVE ClientInv(c, v)'
    <3> DEFINE m == Msg("grab", c, 0, Empty)
    <3>1. m \in Message /\ m.kind # "enter"
      BY ClipboardAssumption DEF Message, Msg, Screen, SeqNum, Contents, Empty
    <3>2. toClient'[c] = toClient[c] \/ toClient'[c] = Append(toClient[c], m)
      BY <2>1 DEF TellGrab
    <3> HIDE DEF m
    <3>3. server'.active = server.active /\ server'.seqNum = server.seqNum
      BY <1>2, <1>4, <2>5 DEF SameVisit
    <3> QED BY <1>3, <2>7, <3>1, <3>2, <3>3, ClientUnmoved DEF Agreed
  <2> QED BY <2>6, <2>8 DEF Agreed
<1> QED BY <1>6, <1>7

(* Events that are no grabs: what was taken before the handler changes it.   *)
LEMMA OtherTaken ==
  ASSUME SeqInv, NEW v \in Visits, Agreed(v), server.queue # <<>>,
         Head(server.queue).kind # "grabbed"
  PROVE  LET sv == [server EXCEPT !.queue = Tail(@)]
         IN  /\ sv \in ServerState /\ ServerInv(sv, v)
             /\ sv.active = server.active /\ sv.seqNum = server.seqNum
             /\ \A c \in Client, k \in SeqNum : Hears(server, c, k) => Hears(sv, c, k)
<1> DEFINE q  == server.queue
           sv == [server EXCEPT !.queue = Tail(@)]
<1>1. /\ server \in ServerState /\ q \in Seq(Event) /\ server.clipSeq \in SeqNum
      /\ server.clipSeq >= server.clipSeq /\ Tail(q) \in Seq(Event)
      /\ q # <<>> /\ Head(q).kind # "grabbed" /\ server.clipSeq = server.clipSeq
  <2>1. server \in ServerState /\ q \in Seq(Event) /\ server.clipSeq \in SeqNum
    BY DEF SeqInv, TypeOK, ServerState
  <2>2. server.clipSeq \in Nat
    BY <2>1, SeqNat
  <2> QED BY <2>1, <2>2, TailAt
<1>2. /\ sv.active = server.active /\ sv.seqNum = server.seqNum /\ sv.enterSeq = server.enterSeq
      /\ sv.clipSeq = server.clipSeq /\ sv.owner = server.owner /\ sv.queue = Tail(q)
      /\ sv \in ServerState
  BY <1>1 DEF ServerState
<1>3. QueueInv(q, server.clipSeq, v) /\ ServerInv(server, v)
  BY DEF Agreed, ServerInv
<1> HIDE DEF sv
<1>4. /\ QueueInv(Tail(q), server.clipSeq, v)
      /\ \A c \in Screen, k \in SeqNum :
           server.clipSeq >= k \/ GrabIn(q, Len(q), c, k)
             => server.clipSeq >= k \/ GrabIn(Tail(q), Len(Tail(q)), c, k)
  <2> DEFINE cs == server.clipSeq
  <2>1. /\ q \in Seq(Event) /\ q # <<>> /\ cs \in SeqNum /\ QueueInv(q, cs, v) /\ cs >= cs
        /\ ~(Head(q).kind = "grabbed")
    BY <1>1, <1>3
  <2> HIDE DEF q, cs
  <2>2. /\ QueueInv(Tail(q), cs, v)
        /\ \A c \in Screen, k \in SeqNum :
             cs >= k \/ GrabIn(q, Len(q), c, k) => cs >= k \/ GrabIn(Tail(q), Len(Tail(q)), c, k)
    BY <2>1, QueueTaken
  <2> QED BY <2>2 DEF cs
<1>5. ServerInv(sv, v)
  BY <1>2, <1>3, <1>4 DEF ServerInv
<1>6. \A c \in Client, k \in SeqNum : Hears(server, c, k) => Hears(sv, c, k)
  BY <1>2, <1>4 DEF Hears, Screen
<1> QED BY <1>2, <1>5, <1>6 DEF sv

LEMMA HandleChangedAgrees ==
  ASSUME SeqInv, NEW v \in Visits, Agreed(v), HandleChanged
  PROVE  Agreed(v)'
<1> DEFINE e  == Head(server.queue)
           sv == [server EXCEPT !.queue = Tail(@)]
<1>1. /\ server.queue # <<>> /\ e.kind = "changed" /\ server' = ClipboardChanged(sv, e.screen, e.seq)
      /\ UNCHANGED <<client, toClient, toServer, habit>>
  BY DEF HandleChanged
<1>2. /\ sv \in ServerState /\ ServerInv(sv, v)
      /\ sv.active = server.active /\ sv.seqNum = server.seqNum
      /\ \A c \in Client, k \in SeqNum : Hears(server, c, k) => Hears(sv, c, k)
  BY <1>1, OtherTaken
<1>3. e.screen \in Screen /\ e.seq \in Int
  <2>1. e \in Event
    BY <1>1, TailAt DEF SeqInv, TypeOK, ServerState
  <2> QED BY <2>1 DEF Event, SeqNum
<1> HIDE DEF e, sv
<1>4. SameVisit(sv, server')
  BY <1>1, <1>2, <1>3, ClipboardChangedSame
<1>5. ServerInv(server', v) /\ \A c, k : Hears(sv, c, k) => Hears(server', c, k)
  BY <1>2, <1>4, SameVisitKeeps
<1>6. ASSUME NEW c \in Client PROVE ClientInv(c, v)'
  BY <1>1, <1>2, <1>4, <1>5, ClientUnmoved DEF Agreed, SameVisit
<1> QED BY <1>5, <1>6 DEF Agreed

LEMMA HandleSendingAgrees ==
  ASSUME SeqInv, NEW v \in Visits, Agreed(v), HandleSending
  PROVE  Agreed(v)'
<1> DEFINE e  == Head(server.queue)
           sv == [server EXCEPT !.queue = Tail(@)]
           m  == Msg("clip", e.screen, 0, e.value)
<1>1. /\ server.queue # <<>> /\ e.kind = "sending" /\ server' = sv
      /\ toClient' = Write(toClient, e.screen, m)
      /\ UNCHANGED <<client, toServer, habit>>
  BY DEF HandleSending
<1>2. /\ ServerInv(sv, v)
      /\ sv.active = server.active /\ sv.seqNum = server.seqNum
      /\ \A c \in Client, k \in SeqNum : Hears(server, c, k) => Hears(sv, c, k)
  BY <1>1, OtherTaken
<1>3. m \in Message /\ m.kind # "enter"
  <2>1. e \in Event
    BY <1>1, TailAt DEF SeqInv, TypeOK, ServerState
  <2> QED BY <2>1, ClipboardAssumption DEF Event, Message, Msg, SeqNum
<1> HIDE DEF e, sv, m
<1>4. \A c \in Client : toClient'[c] = toClient[c] \/ toClient'[c] = Append(toClient[c], m)
  BY <1>1 DEF SeqInv, TypeOK, Write
<1>5. ASSUME NEW c \in Client PROVE ClientInv(c, v)'
  BY <1>1, <1>2, <1>3, <1>4, ClientUnmoved DEF Agreed
<1> QED BY <1>1, <1>2, <1>5 DEF Agreed

(* A client's message is taken from its stream: what a grab said is known.   *)
LEMMA OrderTaken ==
  ASSUME NEW c, NEW cl \in ClientState, NEW out \in Seq(Message), out # <<>>, NEW sv, NEW nw,
         OrderClient(c, cl, out, sv), \A k \in SeqNum : Hears(sv, c, k) => Hears(nw, c, k),
         Head(out).kind = "grab" => \A k : Head(out).seq >= k => Hears(nw, c, k)
  PROVE  OrderClient(c, cl, Tail(out), nw)
<1> DEFINE t == Tail(out)
<1>1. /\ Len(t) = Len(out) - 1 /\ Len(out) \in Nat \ {0} /\ Head(out) = out[1]
      /\ \A i \in 1..Len(out) - 1 : t[i] = out[i + 1]
  BY TailAt
<1>2. /\ \A i \in 1..Len(out) : out[i].seq \in SeqNum
      /\ cl.seqNum \in SeqNum /\ \A i \in 1..Len(cl.queue) : cl.queue[i].seq \in SeqNum
  BY SeqNat DEF ClientState
<1> HIDE DEF t
<1>3. ASSUME NEW k \in SeqNum, NEW n \in 1..Len(out), GrabSent(out, n, k)
      PROVE  Hears(nw, c, k) \/ GrabSent(t, n - 1, k)
  <2>1. PICK j \in 1..n : out[j].kind = "grab" /\ out[j].seq >= k
    BY <1>3 DEF GrabSent
  <2>2. CASE j = 1
    BY <1>1, <2>1, <2>2
  <2>3. CASE j # 1
    <3>1. j - 1 \in 1..n - 1 /\ t[j - 1] = out[j]
      BY <1>1, <2>1, <2>3
    <3> QED BY <2>1, <3>1 DEF GrabSent
  <2> QED BY <2>2, <2>3
<1>4. \A k \in SeqNum : Claimed(c, out, sv, k) => Claimed(c, t, nw, k)
  BY <1>1, <1>3 DEF Claimed
<1>5. ASSUME NEW i \in 1..Len(t), t[i].kind # "grab"
      PROVE  Hears(nw, c, t[i].seq) \/ GrabSent(t, i - 1, t[i].seq)
  <2>1. i + 1 \in 1..Len(out) /\ t[i] = out[i + 1] /\ i \in 1..Len(out)
    BY <1>1
  <2>2. Hears(sv, c, t[i].seq) \/ GrabSent(out, i, t[i].seq)
    BY <1>5, <2>1 DEF OrderClient
  <2> QED BY <1>2, <1>3, <2>1, <2>2
<1> QED BY <1>2, <1>4, <1>5 DEF OrderClient, t

LEMMA ReceiveAgrees ==
  ASSUME SeqInv, NEW v \in Visits, Agreed(v), NEW c \in Client, Receive(c)
  PROVE  Agreed(v)'
<1> DEFINE m == Head(toServer[c])
           e == Msg(IF m.kind = "grab" THEN "grabbed" ELSE "changed", c, m.seq, Empty)
           q == server.queue
<1>1. /\ server \in ServerState /\ q \in Seq(Event) /\ toServer \in [Client -> Seq(Message)]
      /\ toServer[c] \in Seq(Message) /\ toServer[c] # <<>> /\ client[c] \in ClientState
  BY DEF SeqInv, TypeOK, ServerState, Receive
<1>2. m \in Message /\ m = toServer[c][1] /\ 1 \in 1..Len(toServer[c])
  BY <1>1, TailAt
<1>3. e \in Event /\ e.seq = m.seq /\ e.screen = c /\ c # Primary /\ e.kind # "sending"
      /\ (m.kind = "grab" <=> e.kind = "grabbed") /\ (m.kind # "grab" <=> e.kind = "changed")
  BY <1>2, ClipboardAssumption DEF Event, Message, Msg, Screen, Contents
<1>4. /\ toServer' = [toServer EXCEPT ![c] = Tail(@)] /\ UNCHANGED <<client, toClient, habit>>
      /\ \/ server' = [server EXCEPT !.queue = Append(@, e)]
         \/ server' = [server EXCEPT !.stored[c] = m.value, !.queue = Append(@, e)]
  BY DEF Receive
<1> HIDE DEF m, e
<1>5. /\ server'.active = server.active /\ server'.seqNum = server.seqNum
      /\ server'.enterSeq = server.enterSeq /\ server'.clipSeq = server.clipSeq
      /\ server'.owner = server.owner /\ server'.queue = Append(q, e)
  BY <1>1, <1>4 DEF ServerState
<1>6. v[m.seq] = c /\ ServerInv(server, v) /\ QueueInv(q, server.clipSeq, v)
  BY <1>2 DEF Agreed, ClientInv, NamedClient, ServerInv
<1>7. m.kind # "grab" => Hears(server, c, m.seq)
  <2>1. m.kind # "grab" => Hears(server, c, m.seq) \/ GrabSent(toServer[c], 1 - 1, m.seq)
    BY <1>2 DEF Agreed, ClientInv, OrderClient
  <2>2. ~GrabSent(toServer[c], 1 - 1, m.seq)
    BY DEF GrabSent
  <2> QED BY <2>1, <2>2
<1>8. /\ QueueInv(Append(q, e), server.clipSeq, v)
      /\ \A d, k : GrabIn(q, Len(q), d, k) => GrabIn(Append(q, e), Len(Append(q, e)), d, k)
      /\ e.kind = "grabbed" =>
           \A k : e.seq >= k => GrabIn(Append(q, e), Len(Append(q, e)), c, k)
  <2>1. e.kind = "changed" => server.clipSeq >= e.seq \/ GrabIn(q, Len(q), e.screen, e.seq)
    BY <1>3, <1>7 DEF Hears
  <2> HIDE DEF q
  <2> QED BY <1>1, <1>3, <1>6, <2>1, QueueAppend
<1>9. ServerInv(server', v)
  BY <1>5, <1>6, <1>8 DEF ServerInv
<1>10. \A d, k : Hears(server, d, k) => Hears(server', d, k)
  BY <1>5, <1>8 DEF Hears
<1>11. m.kind = "grab" => \A k : m.seq >= k => Hears(server', c, k)
  BY <1>3, <1>5, <1>8 DEF Hears
<1>12. ClientInv(c, v)'
  <2>1. client'[c] = client[c] /\ toClient'[c] = toClient[c] /\ toServer'[c] = Tail(toServer[c])
    BY <1>1, <1>4
  <2>2. OrderClient(c, client[c], Tail(toServer[c]), server')
    <3>1. OrderClient(c, client[c], toServer[c], server)
      BY DEF Agreed, ClientInv
    <3> QED BY <1>1, <1>10, <1>11, <3>1, OrderTaken DEF m
  <2>3. NamedClient(c, client[c], toClient[c], Tail(toServer[c]), v)
    <3>1. NamedClient(c, client[c], toClient[c], toServer[c], v)
      BY DEF Agreed, ClientInv
    <3>2. \A i \in 1..Len(Tail(toServer[c])) :
            i + 1 \in 1..Len(toServer[c]) /\ Tail(toServer[c])[i] = toServer[c][i + 1]
      BY <1>1, TailAt
    <3> QED BY <3>1, <3>2 DEF NamedClient
  <2>4. CursorClient(c, client[c], toClient[c], server.active, server.seqNum)
    BY DEF Agreed, ClientInv
  <2> QED BY <1>4, <1>5, <2>1, <2>2, <2>3, <2>4 DEF ClientInv, OrderClient
<1>13. ASSUME NEW d \in Client, d # c PROVE ClientInv(d, v)'
  <2>1. client'[d] = client[d] /\ toClient'[d] = toClient[d] /\ toServer'[d] = toServer[d]
    BY <1>1, <1>4, <1>13
  <2> QED BY <1>4, <1>5, <1>10, <2>1, ClientUnmoved DEF Agreed
<1> QED BY <1>9, <1>12, <1>13 DEF Agreed

-----------------------------------------------------------------------------
(* switchScreen: a new number, and it is the new screen's.                   *)
LEMMA CursorLeave ==
  ASSUME NEW c, NEW cl, NEW to \in Seq(Message), NEW at, NEW n, CursorClient(c, cl, to, at, n),
         NEW m \in Message, m.kind = "leave", NEW dst, dst # c, NEW n2
  PROVE  CursorClient(c, cl, Append(to, m), dst, n2)
<1> DEFINE r == Append(to, m)
<1>1. /\ Len(r) = Len(to) + 1 /\ Len(to) \in Nat /\ r[Len(to) + 1] = m
      /\ \A i \in 1..Len(to) : r[i] = to[i]
  BY AppendAt
<1>2. CursorClient(c, cl, r, at, n)
  BY CursorAppend
<1> HIDE DEF r
<1>3. Out(r, cl.active, Len(r) + 1)
  BY <1>1 DEF Out
<1> QED BY <1>2, <1>3 DEF CursorClient, r

LEMMA CursorEnter ==
  ASSUME NEW c, NEW cl, NEW to \in Seq(Message), NEW at, NEW n, CursorClient(c, cl, to, at, n),
         at # c, NEW m \in Message, m.kind = "enter", cl.seqNum < m.seq, Under(to, m.seq)
  PROVE  CursorClient(c, cl, Append(to, m), c, m.seq)
<1> DEFINE r == Append(to, m)
<1>1. /\ Len(r) = Len(to) + 1 /\ Len(to) \in Nat /\ r[Len(to) + 1] = m
      /\ \A i \in 1..Len(to) : r[i] = to[i]
  BY AppendAt
<1> HIDE DEF r
<1>2. ASSUME NEW i \in 1..Len(r), r[i].kind = "enter"
      PROVE  /\ Out(r, cl.active, i) /\ r[i].seq > cl.seqNum
             /\ \A j \in 1..i - 1 : r[j].kind = "enter" => r[j].seq < r[i].seq
  <2>1. CASE i = Len(r)
    <3>1. Out(to, cl.active, i) /\ \A j \in 1..i - 1 : r[j] = to[j]
      BY <1>1, <2>1 DEF CursorClient
    <3>2. cl.seqNum < m.seq => m.seq > cl.seqNum
      OBVIOUS
    <3> QED BY <1>1, <2>1, <3>1, <3>2, OutPrefix DEF Under
  <2>2. CASE i # Len(r)
    <3>1. i \in 1..Len(to) /\ \A j \in 1..i : r[j] = to[j]
      BY <1>1, <2>2
    <3>2. /\ Out(to, cl.active, i) /\ to[i].seq > cl.seqNum
          /\ \A j \in 1..i - 1 : to[j].kind = "enter" => to[j].seq < to[i].seq
      BY <1>2, <3>1 DEF CursorClient
    <3> QED BY <3>1, <3>2, OutPrefix
  <2> QED BY <2>1, <2>2
<1>3. \E i \in 1..Len(r) : r[i].kind = "enter" /\ r[i].seq = m.seq
  BY <1>1
<1> QED BY <1>2, <1>3 DEF CursorClient, r

LEMMA SwitchScreenAgrees ==
  ASSUME SeqInv, NEW v \in Visits, Agreed(v), NEW dst \in Screen, SwitchScreen(dst),
         NEW w, w = [v EXCEPT ![server.seqNum + 1] = dst]
  PROVE  w \in Visits /\ Agreed(w)'
<1> DEFINE src  == server.active
           n    == server.seqNum
           left == IF src = Primary /\ server.owner = Primary
                   THEN ClipboardChanged(server, Primary, server.clipSeq) ELSE server
           over == [left EXCEPT !.active = dst, !.seqNum = n + 1,
                                !.enterSeq = IF dst = Primary THEN n + 1 ELSE @]
           gone == IF src = Primary THEN toClient
                   ELSE Write(toClient, src, Msg("leave", src, 0, Empty))
           into == Msg("enter", dst, n + 1, Empty)
<1>1. /\ server \in ServerState /\ n \in Nat /\ server.clipSeq \in 0..n
      /\ server.enterSeq \in 0..n /\ src \in Screen
      /\ Under(server.queue, n + 1) /\ server.queue \in Seq(Event)
      /\ client \in [Client -> ClientState] /\ toClient \in [Client -> Seq(Message)]
      /\ toServer \in [Client -> Seq(Message)]
      /\ \A d \in Client : /\ client[d].seqNum \in 0..n /\ Under(client[d].queue, n + 1)
                           /\ Under(toClient[d], n + 1) /\ Under(toServer[d], n + 1)
                           /\ client[d].queue \in Seq(Event)
  <2>1. /\ server \in ServerState /\ src \in Screen /\ server.queue \in Seq(Event)
        /\ client \in [Client -> ClientState] /\ toClient \in [Client -> Seq(Message)]
        /\ toServer \in [Client -> Seq(Message)]
        /\ \A d \in Client : client[d].queue \in Seq(Event)
    BY DEF SeqInv, TypeOK, ServerState, ClientState
  <2>2. /\ n \in Nat /\ server.clipSeq \in Nat /\ server.enterSeq \in Nat
        /\ \A d \in Client : client[d].seqNum \in Nat
    BY <2>1 DEF ServerState, ClientState, SeqNum
  <2> QED BY <2>1, <2>2 DEF SeqInv, Bounded
<1>2. /\ dst # src /\ n + 1 \in SeqNum /\ UNCHANGED <<client, toServer, habit>>
      /\ server' \in {over, SetClipboard(over, dst)}
      /\ toClient' = IF dst = Primary THEN gone ELSE Write(gone, dst, into)
  <2>1. n + 1 \in SeqNum
    BY <1>1, ClipboardAssumption DEF SwitchScreen, SeqNum
  <2>2. n + 1 = NextSeq
    BY DEF NextSeq
  <2> QED BY <2>1, <2>2 DEF SwitchScreen
<1>3. /\ w \in Visits /\ w[n + 1] = dst
      /\ \A k \in Int : k < n + 1 /\ k \in SeqNum => w[k] = v[k]
  BY <1>1, <1>2 DEF Visits, SeqNum
<1>4. SameVisit(server, left)
  <2>1. Primary \in Screen /\ server.clipSeq \in Int
    BY <1>1 DEF Screen
  <2> QED BY <1>1, <2>1, ClipboardChangedSame, SameVisitSame
<1>5. ServerInv(left, v) /\ \A c, k : Hears(server, c, k) => Hears(left, c, k)
  BY <1>1, <1>4, SameVisitKeeps DEF Agreed
<1>6. /\ left \in ServerState /\ left.clipSeq = server.clipSeq /\ left.owner = server.owner
      /\ left.enterSeq = server.enterSeq /\ left.queue \in Seq(Event) /\ Under(left.queue, n + 1)
  <2>1. Under(left.queue, n + 1)
    <3>1. Primary \in Screen /\ server.clipSeq \in Int
      BY <1>1 DEF Screen
    <3>2. Transfer(server, ClipboardChanged(server, Primary, server.clipSeq))
      BY <1>1, <3>1, ClipboardChangedKeeps
    <3>3. Under(ClipboardChanged(server, Primary, server.clipSeq).queue, n + 1)
      BY <1>1, <3>2, UnderTransfer
    <3> QED BY <1>1, <3>3
  <2> QED BY <1>4, <2>1 DEF SameVisit, ServerState
<1> HIDE DEF left
<1>7. /\ over \in ServerState /\ over.active = dst /\ over.seqNum = n + 1
      /\ over.clipSeq = server.clipSeq /\ over.queue = left.queue /\ over.owner = server.owner
      /\ over.enterSeq = IF dst = Primary THEN n + 1 ELSE server.enterSeq
  <2> DEFINE k == n + 1
             f == IF dst = Primary THEN k ELSE left.enterSeq
  <2>1. k \in SeqNum /\ f \in SeqNum /\ over = [left EXCEPT !.active = dst, !.seqNum = k, !.enterSeq = f]
    BY <1>2, <1>6 DEF ServerState
  <2> HIDE DEF over, k, f, n
  <2>2. /\ over \in ServerState /\ over.active = dst /\ over.seqNum = k
        /\ over.clipSeq = left.clipSeq /\ over.queue = left.queue /\ over.owner = left.owner
        /\ over.enterSeq = f
    BY <1>6, <2>1 DEF ServerState
  <2> QED BY <1>6, <2>2 DEF k, f
<1> HIDE DEF over
<1>8. ServerInv(over, w)
  <2>1. \A i \in 1..Len(left.queue) : left.queue[i].seq < n + 1 /\ left.queue[i].seq \in SeqNum
                                      /\ left.queue[i].seq \in Int
    <3>1. \A i \in 1..Len(left.queue) : left.queue[i] \in Event
      BY <1>6
    <3>2. \A e \in Event : e.seq \in SeqNum /\ e.seq \in Int
      BY SeqNat
    <3>3. \A i \in 1..Len(left.queue) : left.queue[i].seq < n + 1
      BY <1>6 DEF Under
    <3> QED BY <3>1, <3>2, <3>3
  <2>2. QueueInv(left.queue, server.clipSeq, w)
    BY <1>3, <1>5, <1>6, <2>1 DEF ServerInv, QueueInv, EventInv
  <2>3. w[server.clipSeq] = server.owner /\ w[server.enterSeq] = Primary
    <3>1. /\ v[server.clipSeq] = server.owner /\ v[server.enterSeq] = Primary
          /\ server.clipSeq \in SeqNum /\ server.enterSeq \in SeqNum
      BY <1>1, <1>5, <1>6 DEF ServerInv, ServerState
    <3> QED BY <1>1, <1>3, <3>1
  <2> QED BY <1>3, <1>7, <2>2, <2>3 DEF ServerInv
<1>9. /\ SameVisit(over, server') /\ ServerInv(server', w)
      /\ \A c, k : Hears(server, c, k) => Hears(server', c, k)
  <2>1. SameVisit(over, server')
    BY <1>2, <1>7, SetClipboardSame, SameVisitSame
  <2>2. \A c, k : Hears(left, c, k) => Hears(over, c, k)
    BY <1>6, <1>7 DEF Hears
  <2> QED BY <1>5, <1>7, <1>8, <2>1, <2>2, SameVisitKeeps
<1>10. server'.active = dst /\ server'.seqNum = n + 1
  BY <1>7, <1>9 DEF SameVisit
<1>11. ASSUME NEW c \in Client PROVE ClientInv(c, w)'
  <2> DEFINE cl == client[c]
             to == toClient[c]
             bye == Msg("leave", src, 0, Empty)
  <2>1. /\ cl \in ClientState /\ to \in Seq(Message) /\ toServer[c] \in Seq(Message)
        /\ NamedClient(c, cl, to, toServer[c], v) /\ CursorClient(c, cl, to, src, n)
        /\ OrderClient(c, cl, toServer[c], server)
    BY <1>1 DEF Agreed, ClientInv
  <2>2. OrderClient(c, cl, toServer[c], server')
    BY <1>9, <2>1, OrderMore
  <2>3. NamedClient(c, cl, to, toServer[c], w)
    <3>1. /\ \A i \in 1..Len(toServer[c]) : toServer[c][i].seq < n + 1 /\ toServer[c][i].seq \in SeqNum
          /\ \A i \in 1..Len(cl.queue) : cl.queue[i].seq < n + 1 /\ cl.queue[i].seq \in SeqNum
          /\ \A i \in 1..Len(to) : to[i].seq < n + 1 /\ to[i].seq \in SeqNum
      <4>1. /\ \A i \in 1..Len(toServer[c]) : toServer[c][i] \in Message
            /\ \A i \in 1..Len(to) : to[i] \in Message
            /\ \A i \in 1..Len(cl.queue) : cl.queue[i] \in Event
        BY <1>1, <2>1
      <4> QED BY <1>1, <4>1, SeqNat DEF Under
    <3>2. cl.seqNum < n + 1 /\ cl.seqNum \in SeqNum
      BY <1>1, <2>1 DEF ClientState
    <3>3. \A k \in SeqNum : k < n + 1 => w[k] = v[k]
      BY <1>3, SeqNat
    <3> QED BY <2>1, <3>1, <3>2, <3>3 DEF NamedClient
  <2>4. CASE c = src
    <3>1. bye \in Message /\ bye.kind = "leave"
      BY <1>1, ClipboardAssumption DEF Message, Msg, SeqNum, Contents
    <3>2. gone[c] = Append(to, bye) /\ toClient'[c] = gone[c] /\ src # Primary
      BY <1>1, <1>2, <2>4, ClipboardAssumption DEF Write
    <3> HIDE DEF bye
    <3>3. CursorClient(c, cl, toClient'[c], dst, n + 1)
      BY <1>2, <2>1, <2>4, <3>1, <3>2, CursorLeave
    <3>4. NamedClient(c, cl, toClient'[c], toServer[c], w)
      BY <2>1, <2>3, <3>1, <3>2, NamedAppend
    <3> QED BY <1>2, <1>10, <2>2, <3>3, <3>4 DEF ClientInv, OrderClient
  <2>5. CASE c = dst
    <3>1. into \in Message /\ into.kind = "enter" /\ into.seq = n + 1
      BY <1>1, <1>2, <2>5, ClipboardAssumption DEF Message, Msg, SeqNum, Contents
    <3>2. toClient'[c] = Append(to, into)
      <4>2. gone[c] = to /\ DOMAIN gone = Client
        BY <1>1, <1>2, <2>5 DEF Write
      <4>3. c # Primary
        BY ClipboardAssumption
      <4> HIDE DEF gone, into, to
      <4> QED BY <1>2, <2>5, <4>2, <4>3 DEF Write
    <3> HIDE DEF into
    <3>3. CursorClient(c, cl, toClient'[c], c, into.seq)
      <4>1. cl.seqNum < into.seq /\ Under(to, into.seq) /\ src # c
        BY <1>1, <1>2, <2>5, <3>1
      <4> QED BY <2>1, <3>1, <3>2, <4>1, CursorEnter
    <3>4. NamedClient(c, cl, toClient'[c], toServer[c], w)
      <4>1. w[into.seq] = c
        BY <1>3, <2>5, <3>1
      <4> HIDE DEF to, cl
      <4>2. to \in Seq(Message) /\ into \in Message
        BY <2>1, <3>1
      <4>3. NamedClient(c, cl, Append(to, into), toServer[c], w)
        BY <2>3, <4>1, <4>2, NamedAppend
      <4> QED BY <3>2, <4>3
    <3> QED BY <1>2, <1>10, <2>2, <2>5, <3>1, <3>3, <3>4 DEF ClientInv, OrderClient
  <2>6. CASE c # src /\ c # dst
    <3>1. toClient'[c] = to
      <4>1. gone[c] = to /\ DOMAIN gone = Client
        BY <1>1, <2>6 DEF Write
      <4> HIDE DEF gone, into, to
      <4> QED BY <1>2, <2>6, <4>1 DEF Write
    <3>2. CursorClient(c, cl, to, dst, n + 1)
      BY <2>1, <2>6 DEF CursorClient
    <3> QED BY <1>2, <1>10, <2>2, <2>3, <3>1, <3>2 DEF ClientInv, OrderClient
  <2> QED BY <2>4, <2>5, <2>6
<1> QED BY <1>3, <1>9, <1>11 DEF Agreed

-----------------------------------------------------------------------------
(* The steps of a client.                                                    *)
LEMMA SendClipboardDoes ==
  ASSUME NEW cl \in ClientState, NEW c \in Client
  PROVE  LET nw == SendClipboard(cl, c)
             e  == Msg("sending", c, cl.seqNum, cl.content)
         IN  /\ nw \in ClientState
             /\ nw.active = cl.active /\ nw.seqNum = cl.seqNum /\ nw.own = cl.own
             /\ nw.content = cl.content
             /\ nw.time = nw.content \/ nw.content \in habit.oversize
             /\ \/ nw.queue = cl.queue
                \/ /\ nw.queue = Append(cl.queue, e) /\ nw.sent
                   /\ cl.time # cl.content /\ cl.content \notin habit.oversize
             /\ cl.time = cl.content \/ cl.content \in habit.oversize => nw = cl
             /\ cl.time # cl.content /\ cl.content \notin habit.oversize /\ ~cl.sent =>
                  nw.queue = Append(cl.queue, e) /\ nw.time = cl.content
             /\ e \in Event
<1> DEFINE e  == Msg("sending", c, cl.seqNum, cl.content)
           nw == [cl EXCEPT !.time = cl.content, !.sent = TRUE, !.data = cl.content,
                            !.queue = Append(@, e)]
           tm == [cl EXCEPT !.time = cl.content]
<1>1. e \in Event /\ SendClipboard(cl, c) \in ClientState
  BY SendClipboardKeeps DEF ClientState, Event, Msg, Screen
<1> HIDE DEF e
<1>2. /\ nw.active = cl.active /\ nw.seqNum = cl.seqNum /\ nw.own = cl.own
      /\ nw.content = cl.content /\ nw.time = cl.content /\ nw.queue = Append(cl.queue, e) /\ nw.sent
      /\ tm.active = cl.active /\ tm.seqNum = cl.seqNum /\ tm.own = cl.own
      /\ tm.content = cl.content /\ tm.time = cl.content /\ tm.queue = cl.queue
  BY DEF ClientState
<1>3. CASE cl.time = cl.content \/ cl.content \in habit.oversize
  <2>1. SendClipboard(cl, c) = cl
    BY <1>3 DEF SendClipboard
  <2> QED BY <1>1, <1>3, <2>1 DEF e
<1>4. CASE ~(cl.time = cl.content \/ cl.content \in habit.oversize)
  <2>1. CASE cl.sent /\ cl.content = cl.data
    <3>1. SendClipboard(cl, c) = tm
      BY <1>4, <2>1 DEF SendClipboard
    <3> HIDE DEF tm, nw
    <3> QED BY <1>1, <1>2, <1>4, <2>1, <3>1 DEF e
  <2>2. CASE ~(cl.sent /\ cl.content = cl.data)
    <3>1. SendClipboard(cl, c) = nw
      BY <1>4, <2>2 DEF SendClipboard, e
    <3> HIDE DEF tm, nw
    <3> QED BY <1>1, <1>2, <1>4, <3>1 DEF e
  <2> QED BY <2>1, <2>2
<1> QED BY <1>3, <1>4

LEMMA ObeyDoes ==
  ASSUME NEW cl \in ClientState, NEW c \in Client, NEW m \in Message
  PROVE  LET nw == Obey(cl, c, m)
             e  == Msg("sending", c, cl.seqNum, cl.content)
         IN  /\ nw \in ClientState
             /\ nw.active = IF m.kind = "enter" THEN TRUE ELSE IF m.kind = "leave" THEN FALSE ELSE cl.active
             /\ nw.seqNum = IF m.kind = "enter" THEN m.seq ELSE cl.seqNum
             /\ m.kind \in {"grab", "clip"} =>
                  /\ ~nw.own /\ ~nw.sent /\ nw.queue = cl.queue
                  /\ nw.content = IF m.kind = "clip" THEN m.value ELSE Empty
             /\ m.kind \notin {"grab", "clip"} => nw.own = cl.own /\ nw.content = cl.content
             /\ m.kind = "enter" \/ (m.kind = "leave" /\ ~cl.own) =>
                  nw.queue = cl.queue /\ nw.time = cl.time /\ nw.sent = cl.sent
             /\ m.kind = "leave" /\ cl.own =>
                  /\ nw.time = nw.content \/ nw.content \in habit.oversize
                  /\ \/ nw.queue = cl.queue
                     \/ /\ nw.queue = Append(cl.queue, e) /\ nw.sent
                        /\ cl.time # cl.content /\ cl.content \notin habit.oversize
                  /\ cl.time = cl.content \/ cl.content \in habit.oversize =>
                       nw.queue = cl.queue /\ nw.time = cl.time /\ nw.sent = cl.sent
                  /\ cl.time # cl.content /\ cl.content \notin habit.oversize /\ ~cl.sent =>
                       nw.queue = Append(cl.queue, e) /\ nw.time = cl.content
             /\ e \in Event
<1> DEFINE e  == Msg("sending", c, cl.seqNum, cl.content)
<1>0. e \in Event /\ Obey(cl, c, m) \in ClientState /\ m.kind \in {"enter", "leave", "grab", "clip"}
  BY ObeyKeeps DEF ClientState, Event, Msg, Screen, Message
<1>1. CASE m.kind = "enter"
  <2> DEFINE nw == [cl EXCEPT !.active = TRUE, !.seqNum = m.seq]
  <2>1. /\ nw.active = TRUE /\ nw.seqNum = m.seq /\ nw.own = cl.own /\ nw.content = cl.content
        /\ nw.queue = cl.queue /\ nw.time = cl.time /\ nw.sent = cl.sent
    BY DEF ClientState
  <2>2. Obey(cl, c, m) = nw
    BY <1>1 DEF Obey
  <2> HIDE DEF nw
  <2> QED BY <1>0, <1>1, <2>1, <2>2
<1>2. CASE m.kind = "leave"
  <2> DEFINE gone == [cl EXCEPT !.active = FALSE]
  <2>1. /\ gone \in ClientState /\ gone.active = FALSE /\ gone.seqNum = cl.seqNum /\ gone.own = cl.own
        /\ gone.content = cl.content /\ gone.queue = cl.queue /\ gone.time = cl.time /\ gone.sent = cl.sent
    BY DEF ClientState
  <2>2. Obey(cl, c, m) = IF cl.own THEN SendClipboard(gone, c) ELSE gone
    BY <1>2 DEF Obey
  <2> HIDE DEF gone
  <2>3. CASE ~cl.own
    BY <1>0, <1>2, <2>1, <2>2, <2>3
  <2>4. CASE cl.own
    <3>1. Obey(cl, c, m) = SendClipboard(gone, c) /\ e = Msg("sending", c, gone.seqNum, gone.content)
      BY <2>1, <2>2, <2>4
    <3> DEFINE nw == SendClipboard(gone, c)
    <3> HIDE DEF e
    <3>2. /\ nw.active = gone.active /\ nw.seqNum = gone.seqNum /\ nw.own = gone.own
          /\ nw.content = gone.content
          /\ nw.time = nw.content \/ nw.content \in habit.oversize
          /\ \/ nw.queue = gone.queue
             \/ /\ nw.queue = Append(gone.queue, e) /\ nw.sent
                /\ gone.time # gone.content /\ gone.content \notin habit.oversize
          /\ gone.time = gone.content \/ gone.content \in habit.oversize => nw = gone
          /\ gone.time # gone.content /\ gone.content \notin habit.oversize /\ ~gone.sent =>
               nw.queue = Append(gone.queue, e) /\ nw.time = gone.content
      BY <2>1, <3>1, SendClipboardDoes
    <3> HIDE DEF nw
    <3>3. Obey(cl, c, m) = nw
      BY <3>1 DEF nw
    <3> QED BY <1>0, <1>2, <2>1, <2>4, <3>2, <3>3 DEF e
  <2> QED BY <2>3, <2>4
<1>3. CASE m.kind = "grab"
  <2> DEFINE nw == [cl EXCEPT !.content = Empty, !.own = FALSE, !.sent = FALSE]
  <2>1. /\ nw.active = cl.active /\ nw.seqNum = cl.seqNum /\ nw.own = FALSE /\ nw.sent = FALSE
        /\ nw.content = Empty /\ nw.queue = cl.queue
    BY DEF ClientState
  <2>2. Obey(cl, c, m) = nw
    BY <1>3 DEF Obey
  <2> HIDE DEF nw
  <2> QED BY <1>0, <1>3, <2>1, <2>2
<1>4. CASE m.kind = "clip"
  <2> DEFINE nw == [cl EXCEPT !.content = m.value, !.own = FALSE, !.sent = FALSE]
  <2>1. /\ nw.active = cl.active /\ nw.seqNum = cl.seqNum /\ nw.own = FALSE /\ nw.sent = FALSE
        /\ nw.content = m.value /\ nw.queue = cl.queue
    BY DEF ClientState
  <2>2. Obey(cl, c, m) = nw
    BY <1>4 DEF Obey
  <2> HIDE DEF nw
  <2> QED BY <1>0, <1>4, <2>1, <2>2
<1> QED BY <1>0, <1>1, <1>2, <1>3, <1>4

LEMMA CursorTaken ==
  ASSUME NEW c, NEW cl, NEW to \in Seq(Message), to # <<>>, NEW at, NEW n \in Nat, NEW nw,
         CursorClient(c, cl, to, at, n), Under(to, n + 1), cl.seqNum \in Nat,
         nw.active = IF Head(to).kind = "enter" THEN TRUE
                     ELSE IF Head(to).kind = "leave" THEN FALSE ELSE cl.active,
         nw.seqNum = IF Head(to).kind = "enter" THEN Head(to).seq ELSE cl.seqNum
  PROVE  /\ CursorClient(c, nw, Tail(to), at, n)
         /\ Head(to).kind = "enter" => ~cl.active /\ Head(to).seq > cl.seqNum
<1> DEFINE t == Tail(to)
           m == Head(to)
<1>1. /\ Len(t) = Len(to) - 1 /\ Len(to) \in Nat \ {0} /\ m = to[1]
      /\ \A i \in 1..Len(to) - 1 : t[i] = to[i + 1]
      /\ \A i \in 1..Len(to) : to[i].seq \in Nat /\ to[i].seq < n + 1
  <2>1. \A i \in 1..Len(to) : to[i] \in Message
    OBVIOUS
  <2> QED BY <2>1, TailAt, SeqNat DEF Under
<1>2. m.kind = "enter" => ~cl.active /\ m.seq > cl.seqNum
  <2>1. m.kind = "enter" => Out(to, cl.active, 1) /\ m.seq > cl.seqNum
    BY <1>1 DEF CursorClient
  <2>2. Out(to, cl.active, 1) => ~cl.active
    BY DEF Out
  <2> QED BY <2>1, <2>2
<1> HIDE DEF t, m
<1>3. ASSUME NEW i \in 1..Len(to), Out(to, cl.active, i + 1)
      PROVE  Out(t, nw.active, i)
  <2>0. nw.active = IF m.kind = "enter" THEN TRUE ELSE IF m.kind = "leave" THEN FALSE ELSE cl.active
    BY DEF m
  <2>1. ASSUME NEW k \in 1..i, to[k].kind = "leave", \A j \in k + 1..i : to[j].kind # "enter"
        PROVE  Out(t, nw.active, i)
    <3>1. CASE k = 1
      <4>1. ~nw.active
        BY <1>1, <2>0, <2>1, <3>1
      <4>2. \A j \in 1..i - 1 : t[j].kind # "enter"
        <5>1. \A j \in 1..i - 1 : t[j] = to[j + 1] /\ j + 1 \in k + 1..i
          BY <1>1, <3>1
        <5> QED BY <2>1, <5>1
      <4> QED BY <4>1, <4>2 DEF Out
    <3>2. CASE k # 1
      <4>1. k - 1 \in 1..i - 1 /\ t[k - 1] = to[k]
        BY <1>1, <3>2
      <4>2. \A j \in (k - 1) + 1..i - 1 : t[j] = to[j + 1] /\ j + 1 \in k + 1..i
        BY <1>1, <3>2
      <4> QED BY <2>1, <4>1, <4>2 DEF Out
    <3> QED BY <3>1, <3>2
  <2>2. ASSUME ~cl.active, \A j \in 1..i : to[j].kind # "enter"
        PROVE  Out(t, nw.active, i)
    <3>1. ~nw.active
      BY <1>1, <2>0, <2>2
    <3>2. \A j \in 1..i - 1 : t[j] = to[j + 1] /\ j + 1 \in 1..i
      BY <1>1
    <3> QED BY <2>2, <3>1, <3>2 DEF Out
  <2>3. (i + 1) - 1 = i
    OBVIOUS
  <2> QED BY <1>3, <2>1, <2>2, <2>3 DEF Out
<1>4. ASSUME NEW i \in 1..Len(t), t[i].kind = "enter"
      PROVE  /\ Out(t, nw.active, i) /\ t[i].seq > nw.seqNum
             /\ \A j \in 1..i - 1 : t[j].kind = "enter" => t[j].seq < t[i].seq
  <2>1. i + 1 \in 1..Len(to) /\ t[i] = to[i + 1] /\ i \in 1..Len(to)
        /\ \A j \in 1..i - 1 : t[j] = to[j + 1] /\ j + 1 \in 1..i
    BY <1>1
  <2>2. /\ Out(to, cl.active, i + 1) /\ to[i + 1].seq > cl.seqNum
        /\ \A j \in 1..i : to[j].kind = "enter" => to[j].seq < to[i + 1].seq
    BY <1>4, <2>1 DEF CursorClient
  <2>3. t[i].seq > nw.seqNum
    <3>1. CASE m.kind = "enter"
      <4>1. nw.seqNum = to[1].seq /\ 1 \in 1..i /\ to[1].kind = "enter"
        BY <1>1, <3>1 DEF m
      <4>2. to[1].seq < to[i + 1].seq
        BY <2>2, <4>1
      <4> QED BY <1>1, <2>1, <4>1, <4>2
    <3>2. CASE m.kind # "enter"
      BY <2>1, <2>2, <3>2 DEF m
    <3> QED BY <3>1, <3>2
  <2> QED BY <1>3, <2>1, <2>2, <2>3
<1>5. ASSUME at # c PROVE Out(t, nw.active, Len(t) + 1)
  <2>1. Out(to, cl.active, Len(to) + 1) /\ Len(to) \in 1..Len(to) /\ Len(t) + 1 = Len(to)
    BY <1>1, <1>5 DEF CursorClient
  <2> QED BY <1>3, <2>1
<1>6. ASSUME at = c
      PROVE  \/ nw.seqNum = n
             \/ \E i \in 1..Len(t) : t[i].kind = "enter" /\ t[i].seq = n
  <2>1. \/ cl.seqNum = n
        \/ \E i \in 1..Len(to) : to[i].kind = "enter" /\ to[i].seq = n
    BY <1>6 DEF CursorClient
  <2>2. CASE cl.seqNum = n
    <3>1. m.kind # "enter"
      BY <1>1, <1>2, <2>2
    <3> QED BY <2>2, <3>1 DEF m
  <2>3. ASSUME NEW i \in 1..Len(to), to[i].kind = "enter", to[i].seq = n
        PROVE  \/ nw.seqNum = n
               \/ \E k \in 1..Len(t) : t[k].kind = "enter" /\ t[k].seq = n
    <3>1. CASE i = 1
      BY <1>1, <2>3, <3>1 DEF m
    <3>2. CASE i # 1
      <4>1. i - 1 \in 1..Len(t) /\ t[i - 1] = to[i]
        BY <1>1, <3>2
      <4> QED BY <2>3, <4>1
    <3> QED BY <3>1, <3>2
  <2> QED BY <2>1, <2>2, <2>3
<1> QED BY <1>2, <1>4, <1>5, <1>6 DEF CursorClient, t, m

(* A transfer joins a client's queue only behind a grab, or once one with    *)
(* its number is known.                                                      *)
LEMMA OrderSends ==
  ASSUME NEW c, NEW cl \in ClientState, NEW nw \in ClientState, NEW out, NEW sv,
         OrderClient(c, cl, out, sv), nw.seqNum >= cl.seqNum,
         \/ nw.queue = cl.queue
         \/ \E e \in Event : /\ e.kind = "sending" /\ e.seq = cl.seqNum
                             /\ nw.queue = Append(cl.queue, e)
                             /\ Copied(cl) \/ Claimed(c, out, sv, cl.seqNum),
         nw.own => \/ Copied(cl)
                   \/ nw.active /\ Claimed(c, out, sv, nw.seqNum)
                   \/ nw.time = nw.content
                   \/ nw.content \in habit.oversize
  PROVE  OrderClient(c, nw, out, sv)
<1> DEFINE q == cl.queue
           r == nw.queue
<1>1. q \in Seq(Event) /\ Len(q) \in Nat /\ cl.seqNum \in Int /\ nw.seqNum \in Int
      /\ \A i \in 1..Len(q) : q[i].seq \in Int
  <2>1. q \in Seq(Event) /\ cl.seqNum \in SeqNum /\ nw.seqNum \in SeqNum
    BY DEF ClientState
  <2>2. \A i \in 1..Len(q) : q[i] \in Event
    BY <2>1
  <2> QED BY <2>1, <2>2, SeqNat
<1>2. CASE r = q
  BY <1>1, <1>2 DEF OrderClient, Copied
<1>3. ASSUME NEW e \in Event, e.kind = "sending", e.seq = cl.seqNum, r = Append(q, e),
             Copied(cl) \/ Claimed(c, out, sv, cl.seqNum)
      PROVE  OrderClient(c, nw, out, sv)
  <2>1. Len(r) = Len(q) + 1 /\ r[Len(q) + 1] = e /\ \A i \in 1..Len(q) : r[i] = q[i]
    BY <1>1, <1>3, AppendAt
  <2>2. Copied(cl) => Copied(nw)
    BY <1>1, <2>1 DEF Copied
  <2>3. ASSUME NEW i \in 1..Len(r), r[i].kind = "sending"
        PROVE  /\ r[i].seq <= nw.seqNum
               /\ Claimed(c, out, sv, r[i].seq) \/ \E j \in 1..i - 1 : r[j].kind = "grabbed"
    <3>1. CASE i = Len(q) + 1
      <4>1. r[i].seq = cl.seqNum /\ i - 1 = Len(q)
        BY <1>1, <1>3, <2>1, <3>1
      <4>2. Copied(cl) => \E j \in 1..i - 1 : r[j].kind = "grabbed"
        BY <2>1, <4>1 DEF Copied
      <4> QED BY <1>1, <1>3, <4>1, <4>2
    <3>2. CASE i # Len(q) + 1
      <4>1. i \in 1..Len(q) /\ r[i] = q[i] /\ \A j \in 1..i - 1 : r[j] = q[j]
        <5>1. i \in 1..Len(q)
          BY <1>1, <2>1, <3>2
        <5>2. \A j \in 1..i - 1 : j \in 1..Len(q)
          BY <1>1, <5>1
        <5> QED BY <2>1, <5>1, <5>2
      <4>2. /\ q[i].seq <= cl.seqNum
            /\ Claimed(c, out, sv, q[i].seq) \/ \E j \in 1..i - 1 : q[j].kind = "grabbed"
        BY <2>3, <4>1 DEF OrderClient
      <4> QED BY <1>1, <4>1, <4>2
    <3> QED BY <3>1, <3>2
  <2> QED BY <2>2, <2>3 DEF OrderClient
<1> QED BY <1>2, <1>3

LEMMA NamedSends ==
  ASSUME NEW c, NEW cl \in ClientState, NEW nw \in ClientState, NEW to \in Seq(Message), to # <<>>, NEW out,
         NEW v, NamedClient(c, cl, to, out, v),
         \/ nw.seqNum = cl.seqNum /\ (nw.active => cl.active) /\ (nw.own => cl.own)
         \/ Head(to).kind = "enter" /\ nw.seqNum = Head(to).seq,
         \/ nw.queue = cl.queue
         \/ \E e \in Event : e.seq = cl.seqNum /\ nw.queue = Append(cl.queue, e) /\ cl.own
  PROVE  NamedClient(c, nw, Tail(to), out, v)
<1>1. /\ Len(Tail(to)) = Len(to) - 1 /\ Len(to) \in Nat \ {0} /\ Head(to) = to[1] /\ 1 \in 1..Len(to)
      /\ \A i \in 1..Len(Tail(to)) : i + 1 \in 1..Len(to) /\ Tail(to)[i] = to[i + 1]
  BY TailAt
<1>2. /\ (~nw.active /\ ~nw.own /\ cl.queue = <<>>) \/ v[nw.seqNum] = c
      /\ \A i \in 1..Len(out) : v[out[i].seq] = c
      /\ \A i \in 1..Len(cl.queue) : cl.queue[i].kind = "sending" => v[cl.queue[i].seq] = c
      /\ \A i \in 1..Len(Tail(to)) : Tail(to)[i].kind = "enter" => v[Tail(to)[i].seq] = c
      /\ cl.own => v[cl.seqNum] = c
  BY <1>1 DEF NamedClient
<1>3. CASE nw.queue = cl.queue
  BY <1>2, <1>3 DEF NamedClient
<1>4. ASSUME NEW e \in Event, e.seq = cl.seqNum, nw.queue = Append(cl.queue, e), cl.own
      PROVE  NamedClient(c, nw, Tail(to), out, v)
  <2>1. /\ Len(nw.queue) = Len(cl.queue) + 1 /\ Len(cl.queue) \in Nat /\ nw.queue[Len(cl.queue) + 1] = e
        /\ \A i \in 1..Len(cl.queue) : nw.queue[i] = cl.queue[i]
    <3>1. cl.queue \in Seq(Event)
      BY DEF ClientState
    <3> QED BY <1>4, <3>1, AppendAt
  <2>2. v[nw.seqNum] = c
    BY <1>1, <1>2, <1>4 DEF NamedClient
  <2>3. \A i \in 1..Len(nw.queue) : nw.queue[i].kind = "sending" => v[nw.queue[i].seq] = c
    BY <1>2, <1>4, <2>1
  <2> QED BY <1>2, <2>2, <2>3 DEF NamedClient
<1> QED BY <1>3, <1>4

LEMMA ClientMoves ==
  ASSUME SeqInv, NEW v, Agreed(v), NEW c \in Client, UNCHANGED <<server, habit>>,
         \A d \in Client \ {c} : /\ client'[d] = client[d] /\ toClient'[d] = toClient[d]
                                 /\ toServer'[d] = toServer[d],
         NamedClient(c, client'[c], toClient'[c], toServer'[c], v),
         CursorClient(c, client'[c], toClient'[c], server.active, server.seqNum),
         OrderClient(c, client'[c], toServer'[c], server)
  PROVE  Agreed(v)'
<1>1. ServerInv(server', v)
  BY DEF Agreed
<1>2. ClientInv(c, v)'
  BY DEF ClientInv, OrderClient
<1>3. ASSUME NEW d \in Client \ {c} PROVE ClientInv(d, v)'
  <2>1. client'[d] = client[d] /\ toClient'[d] = toClient[d] /\ toServer'[d] = toServer[d]
    OBVIOUS
  <2>2. ClientInv(d, v) /\ server' = server /\ habit' = habit
    BY DEF Agreed
  <2> QED BY <2>1, <2>2 DEF ClientInv, OrderClient
<1> QED BY <1>1, <1>2, <1>3 DEF Agreed

LEMMA ParseMessageAgrees ==
  ASSUME SeqInv, NEW v \in Visits, Agreed(v), NEW c \in Client, ParseMessage(c)
  PROVE  Agreed(v)'
<1> DEFINE to == toClient[c]
           m  == Head(to)
           cl == client[c]
           nw == Obey(cl, c, m)
           out == toServer[c]
           e  == Msg("sending", c, cl.seqNum, cl.content)
<1>1. /\ to \in Seq(Message) /\ to # <<>> /\ m \in Message /\ cl \in ClientState
      /\ cl.seqNum \in Nat /\ server.seqNum \in Nat /\ Under(to, server.seqNum + 1)
      /\ m.kind \in {"enter", "leave", "grab", "clip"} /\ m.seq \in Nat
  <2>1. to \in Seq(Message) /\ to # <<>> /\ cl \in ClientState /\ cl.seqNum \in Nat
        /\ server.seqNum \in Nat /\ Under(to, server.seqNum + 1)
    BY ClientFacts DEF ParseMessage
  <2>2. m \in Message
    BY <2>1, TailAt
  <2>3. m.kind \in {"enter", "leave", "grab", "clip"} /\ m.seq \in SeqNum
    BY <2>2 DEF Message
  <2> HIDE DEF m
  <2>4. m.seq \in Nat
    BY <2>3, SeqNat
  <2> QED BY <2>1, <2>2, <2>3, <2>4
<1>2. /\ UNCHANGED <<server, toServer, habit>> /\ client'[c] = nw /\ toClient'[c] = Tail(to)
      /\ \A d \in Client \ {c} : /\ client'[d] = client[d] /\ toClient'[d] = toClient[d]
                                 /\ toServer'[d] = toServer[d]
  BY ClientFacts DEF ParseMessage, SeqInv, TypeOK
<1>3. /\ nw \in ClientState
      /\ nw.active = IF m.kind = "enter" THEN TRUE ELSE IF m.kind = "leave" THEN FALSE ELSE cl.active
      /\ nw.seqNum = IF m.kind = "enter" THEN m.seq ELSE cl.seqNum
      /\ m.kind \in {"grab", "clip"} => ~nw.own /\ nw.queue = cl.queue
      /\ m.kind \notin {"grab", "clip"} => nw.own = cl.own /\ nw.content = cl.content
      /\ m.kind = "enter" \/ (m.kind = "leave" /\ ~cl.own) => nw.queue = cl.queue /\ nw.time = cl.time
      /\ m.kind = "leave" /\ cl.own =>
           /\ nw.time = nw.content \/ nw.content \in habit.oversize
           /\ \/ nw.queue = cl.queue
              \/ /\ nw.queue = Append(cl.queue, e)
                 /\ cl.time # cl.content /\ cl.content \notin habit.oversize
      /\ e \in Event /\ e.kind = "sending" /\ e.seq = cl.seqNum
  <2> HIDE DEF m, cl, to
  <2>1. e.kind = "sending" /\ e.seq = cl.seqNum
    BY DEF Msg
  <2>2. cl \in ClientState /\ m \in Message /\ c \in Client
    BY <1>1
  <2>3. /\ nw \in ClientState /\ e \in Event
        /\ nw.active = IF m.kind = "enter" THEN TRUE ELSE IF m.kind = "leave" THEN FALSE ELSE cl.active
        /\ nw.seqNum = IF m.kind = "enter" THEN m.seq ELSE cl.seqNum
    BY <2>2, ObeyDoes
  <2>4. /\ m.kind \in {"grab", "clip"} => ~nw.own /\ nw.queue = cl.queue
        /\ m.kind \notin {"grab", "clip"} => nw.own = cl.own /\ nw.content = cl.content
        /\ m.kind = "enter" \/ (m.kind = "leave" /\ ~cl.own) => nw.queue = cl.queue /\ nw.time = cl.time
    BY <2>2, ObeyDoes
  <2>5. m.kind = "leave" /\ cl.own =>
           /\ nw.time = nw.content \/ nw.content \in habit.oversize
           /\ \/ nw.queue = cl.queue
              \/ /\ nw.queue = Append(cl.queue, e)
                 /\ cl.time # cl.content /\ cl.content \notin habit.oversize
    <3>1. m.kind = "leave" /\ cl.own =>
             /\ nw.time = nw.content \/ nw.content \in habit.oversize
             /\ \/ nw.queue = cl.queue
                \/ /\ nw.queue = Append(cl.queue, e) /\ nw.sent
                   /\ cl.time # cl.content /\ cl.content \notin habit.oversize
      BY <2>2, ObeyDoes, Zenon
    <3> QED BY <3>1
  <2> QED BY <2>1, <2>3, <2>4, <2>5
<1> HIDE DEF m, nw, e
<1>4. /\ NamedClient(c, cl, to, out, v) /\ CursorClient(c, cl, to, server.active, server.seqNum)
      /\ OrderClient(c, cl, out, server)
  BY DEF Agreed, ClientInv
<1>5. CursorClient(c, nw, Tail(to), server.active, server.seqNum)
      /\ (m.kind = "enter" => ~cl.active /\ m.seq > cl.seqNum)
  BY <1>1, <1>3, <1>4, CursorTaken DEF m
<1> HIDE DEF to, cl, out
<1>6. \/ nw.queue = cl.queue
      \/ /\ nw.queue = Append(cl.queue, e) /\ cl.own
         /\ Copied(cl) \/ Claimed(c, out, server, cl.seqNum)
  BY <1>1, <1>3, <1>4 DEF OrderClient
<1>7. NamedClient(c, nw, Tail(to), out, v)
  <2>1. \/ nw.seqNum = cl.seqNum /\ (nw.active => cl.active) /\ (nw.own => cl.own)
        \/ Head(to).kind = "enter" /\ nw.seqNum = Head(to).seq
    BY <1>1, <1>3 DEF m
  <2> QED BY <1>1, <1>3, <1>4, <1>6, <2>1, NamedSends
<1>8. OrderClient(c, nw, out, server)
  <2>1. nw.own => \/ Copied(cl)
                  \/ nw.active /\ Claimed(c, out, server, nw.seqNum)
                  \/ nw.time = nw.content
                  \/ nw.content \in habit.oversize
    BY <1>1, <1>3, <1>4, <1>5 DEF OrderClient
  <2>2. nw.seqNum >= cl.seqNum
    BY <1>1, <1>3, <1>5
  <2> QED BY <1>1, <1>3, <1>4, <1>6, <2>1, <2>2, OrderSends
<1> QED BY <1>2, <1>5, <1>7, <1>8, ClientMoves DEF out

(* The next event of a client is handled: a grab, or a transfer whose number *)
(* is known, for no grab is before it.                                       *)
LEMMA OrderWrites ==
  ASSUME NEW c, NEW cl \in ClientState, NEW nw \in ClientState, NEW out \in Seq(Message), NEW sv,
         OrderClient(c, cl, out, sv), cl.queue # <<>>,
         nw.queue = Tail(cl.queue), nw.seqNum = cl.seqNum,
         NEW m \in Message,
         \/ m.kind = "grab" /\ m.seq = cl.seqNum /\ ~nw.own
         \/ /\ m.kind = "clip" /\ Head(cl.queue).kind = "sending" /\ m.seq = Head(cl.queue).seq
            /\ nw.active = cl.active /\ nw.own = cl.own /\ nw.time = cl.time /\ nw.content = cl.content
  PROVE  /\ OrderClient(c, nw, Append(out, m), sv)
         /\ m.kind = "grab" => Claimed(c, Append(out, m), sv, cl.seqNum)
<1> DEFINE q == cl.queue
           t == Tail(q)
           r == Append(out, m)
<1>1. /\ q \in Seq(Event) /\ Len(q) \in Nat \ {0} /\ Len(t) = Len(q) - 1 /\ Head(q) = q[1] /\ 1 \in 1..Len(q)
      /\ \A i \in 1..Len(t) : i + 1 \in 1..Len(q) /\ t[i] = q[i + 1]
      /\ \A i \in 1..Len(q) : q[i].seq \in Nat
      /\ cl.seqNum \in Nat
  <2>1. q \in Seq(Event) /\ cl.seqNum \in SeqNum
    BY DEF ClientState
  <2>2. \A i \in 1..Len(q) : q[i] \in Event
    BY <2>1
  <2> HIDE DEF q
  <2>3. /\ Len(q) \in Nat \ {0} /\ Len(t) = Len(q) - 1 /\ Head(q) = q[1]
        /\ \A i \in 1..Len(t) : i + 1 \in 1..Len(q) /\ t[i] = q[i + 1]
    <3>1. q # <<>>
      BY DEF q
    <3> QED BY <2>1, <3>1, TailAt
  <2> QED BY <2>1, <2>2, <2>3, SeqNat
<1>2. /\ Len(r) = Len(out) + 1 /\ Len(out) \in Nat /\ r[Len(out) + 1] = m
      /\ \A i \in 1..Len(out) : r[i] = out[i]
  BY AppendAt
<1>3. /\ \A i \in 1..Len(out) :
           out[i].kind # "grab" => Hears(sv, c, out[i].seq) \/ GrabSent(out, i - 1, out[i].seq)
      /\ \A i \in 1..Len(q) :
           q[i].kind = "sending" =>
             /\ q[i].seq <= cl.seqNum
             /\ Claimed(c, out, sv, q[i].seq) \/ \E j \in 1..i - 1 : q[j].kind = "grabbed"
  BY DEF OrderClient
<1>4. cl.own => \/ Copied(cl) \/ (cl.active /\ Claimed(c, out, sv, cl.seqNum))
                \/ cl.time = cl.content \/ cl.content \in habit.oversize
  BY DEF OrderClient
<1>5. nw.queue = t
  OBVIOUS
<1> HIDE DEF q, t, r
<1>6. /\ \A n \in 0..Len(out) : \A k : GrabSent(out, n, k) => GrabSent(r, n, k)
      /\ \A k : GrabSent(out, Len(out), k) => GrabSent(r, Len(r), k)
      /\ m.kind = "grab" => \A k : m.seq >= k => GrabSent(r, Len(r), k)
  BY <1>2 DEF GrabSent
<1>7. \A k : Claimed(c, out, sv, k) => Claimed(c, r, sv, k)
  BY <1>6 DEF Claimed
<1>8. m.kind = "grab" => \A k : m.seq >= k => Claimed(c, r, sv, k)
  BY <1>6 DEF Claimed
<1>9. m.kind = "clip" => Claimed(c, out, sv, m.seq)
  BY <1>1, <1>3 DEF q
<1>10. ASSUME NEW i \in 1..Len(r), r[i].kind # "grab"
       PROVE  Hears(sv, c, r[i].seq) \/ GrabSent(r, i - 1, r[i].seq)
  <2>1. CASE i = Len(r)
    <3>1. r[i] = m /\ i - 1 = Len(out) /\ m.kind = "clip"
      BY <1>2, <1>10, <2>1
    <3>2. Hears(sv, c, m.seq) \/ GrabSent(out, Len(out), m.seq)
      BY <1>9, <3>1 DEF Claimed
    <3> QED BY <1>2, <1>6, <3>1, <3>2
  <2>2. CASE i # Len(r)
    <3>1. i \in 1..Len(out) /\ r[i] = out[i] /\ i - 1 \in 0..Len(out)
      BY <1>2, <2>2
    <3> QED BY <1>3, <1>6, <1>10, <3>1
  <2> QED BY <2>1, <2>2
<1>11. ASSUME NEW i \in 1..Len(t), t[i].kind = "sending"
       PROVE  /\ t[i].seq <= nw.seqNum
              /\ Claimed(c, r, sv, t[i].seq) \/ \E j \in 1..i - 1 : t[j].kind = "grabbed"
  <2>1. /\ i + 1 \in 1..Len(q) /\ t[i] = q[i + 1] /\ (i + 1) - 1 = i
        /\ q[i + 1].seq \in Nat /\ q[i + 1].kind = "sending"
    <3>1. i + 1 \in 1..Len(q) /\ t[i] = q[i + 1] /\ i \in Int
      BY <1>1
    <3> QED BY <1>1, <1>11, <3>1
  <2>2. /\ q[i + 1].seq <= cl.seqNum
        /\ Claimed(c, out, sv, q[i + 1].seq) \/ \E j \in 1..i : q[j].kind = "grabbed"
    BY <1>3, <2>1
  <2>3. CASE m.kind = "grab"
    BY <1>1, <1>8, <2>1, <2>2, <2>3
  <2>4. ASSUME m.kind = "clip", NEW j \in 1..i, q[j].kind = "grabbed"
        PROVE  \E k \in 1..i - 1 : t[k].kind = "grabbed"
    <3>1. j # 1
      BY <1>1, <2>4 DEF q
    <3>2. j - 1 \in 1..i - 1 /\ t[j - 1] = q[j]
      BY <1>1, <3>1
    <3> QED BY <2>4, <3>2
  <2> QED BY <1>7, <2>1, <2>2, <2>3, <2>4
<1>12. nw.own => \/ Copied(nw) \/ (nw.active /\ Claimed(c, r, sv, nw.seqNum))
                 \/ nw.time = nw.content \/ nw.content \in habit.oversize
  <2>1. ASSUME m.kind = "clip", Copied(cl) PROVE Copied(nw)
    <3>1. PICK j \in 1..Len(q) : q[j].kind = "grabbed"
      BY <2>1 DEF Copied, q
    <3>2. j # 1
      BY <1>1, <2>1, <3>1 DEF q
    <3>3. j - 1 \in 1..Len(t) /\ t[j - 1] = q[j]
      BY <1>1, <3>2
    <3> QED BY <1>5, <3>1, <3>3 DEF Copied
  <2> QED BY <1>4, <1>7, <2>1
<1>13. OrderClient(c, nw, r, sv)
  BY <1>5, <1>10, <1>11, <1>12 DEF OrderClient
<1>14. m.kind = "grab" => Claimed(c, r, sv, cl.seqNum)
  BY <1>1, <1>8
<1> QED BY <1>13, <1>14 DEF r

LEMMA NamedWrites ==
  ASSUME NEW c, NEW cl \in ClientState, NEW nw \in ClientState, NEW to, NEW out \in Seq(Message), NEW v,
         NamedClient(c, cl, to, out, v), cl.queue # <<>>, nw.seqNum = cl.seqNum,
         \/ nw.queue = Tail(cl.queue)
         \/ \E e \in Event : e.seq = cl.seqNum /\ nw.queue = Append(Tail(cl.queue), e),
         NEW m \in Message,
         m.seq = cl.seqNum \/ (Head(cl.queue).kind = "sending" /\ m.seq = Head(cl.queue).seq)
  PROVE  NamedClient(c, nw, to, Append(out, m), v)
<1> DEFINE q == cl.queue
           t == Tail(q)
           r == nw.queue
<1>1. /\ Len(q) \in Nat \ {0} /\ Len(t) = Len(q) - 1 /\ t \in Seq(Event) /\ Head(q) = q[1] /\ 1 \in 1..Len(q)
      /\ \A i \in 1..Len(t) : i + 1 \in 1..Len(q) /\ t[i] = q[i + 1]
  <2>1. q \in Seq(Event)
    BY DEF ClientState
  <2> QED BY <2>1, TailAt
<1>2. /\ Len(Append(out, m)) = Len(out) + 1 /\ Len(out) \in Nat /\ Append(out, m)[Len(out) + 1] = m
      /\ \A i \in 1..Len(out) : Append(out, m)[i] = out[i]
  BY AppendAt
<1>3. v[cl.seqNum] = c
  BY DEF NamedClient
<1>4. \A i \in 1..Len(q) : q[i].kind = "sending" => v[q[i].seq] = c
  BY DEF NamedClient
<1>5. v[m.seq] = c
  BY <1>1, <1>3, <1>4
<1>6. \A i \in 1..Len(Append(out, m)) : v[Append(out, m)[i].seq] = c
  BY <1>2, <1>5 DEF NamedClient
<1>7. \A i \in 1..Len(t) : t[i].kind = "sending" => v[t[i].seq] = c
  BY <1>1, <1>4
<1>8. \A i \in 1..Len(r) : r[i].kind = "sending" => v[r[i].seq] = c
  <2>1. ASSUME NEW e \in Event, e.seq = cl.seqNum, r = Append(t, e)
        PROVE  \A i \in 1..Len(r) : r[i].kind = "sending" => v[r[i].seq] = c
    <3>1. Len(r) = Len(t) + 1 /\ r[Len(t) + 1] = e /\ Len(t) \in Nat /\ \A i \in 1..Len(t) : r[i] = t[i]
      BY <1>1, <2>1, AppendAt
    <3> QED BY <1>3, <1>7, <2>1, <3>1
  <2> QED BY <1>7, <2>1
<1> QED BY <1>3, <1>6, <1>8 DEF NamedClient

LEMMA OwnClipboardAgrees ==
  ASSUME SeqInv, NEW v \in Visits, Agreed(v), NEW c \in Client, OwnClipboard(c)
  PROVE  Agreed(v)'
<1> DEFINE cl  == client[c]
           t   == Tail(cl.queue)
           nil == [cl EXCEPT !.queue = t, !.own = FALSE]
           own == [cl EXCEPT !.queue = t, !.own = TRUE, !.sent = FALSE, !.time = Never]
           nw  == IF own.active THEN own ELSE SendClipboard(own, c)
           m   == Msg("grab", c, cl.seqNum, Empty)
           e   == Msg("sending", c, own.seqNum, own.content)
           out == toServer[c]
<1>1. /\ client \in [Client -> ClientState] /\ cl \in ClientState /\ cl.queue # <<>> /\ t \in Seq(Event)
      /\ Head(cl.queue).kind = "grabbed" /\ out \in Seq(Message) /\ cl.seqNum \in Int
      /\ toServer \in [Client -> Seq(Message)]
  <2>1. client \in [Client -> ClientState] /\ cl \in ClientState /\ out \in Seq(Message) /\ cl.queue # <<>>
        /\ Head(cl.queue).kind = "grabbed" /\ toServer \in [Client -> Seq(Message)]
    BY DEF SeqInv, TypeOK, OwnClipboard
  <2>2. cl.seqNum \in SeqNum /\ cl.queue \in Seq(Event)
    BY <2>1 DEF ClientState
  <2> HIDE DEF cl
  <2>3. t \in Seq(Event)
    BY <2>1, <2>2, TailAt
  <2> QED BY <2>1, <2>2, <2>3, SeqNat
<1>2. /\ client' = [client EXCEPT ![c] = nw] /\ toServer' = [toServer EXCEPT ![c] = Append(@, m)]
      /\ UNCHANGED <<server, toClient, habit>>
  BY <1>1 DEF OwnClipboard, Write
<1>3. /\ nil \in ClientState /\ nil.queue = t /\ nil.seqNum = cl.seqNum /\ ~nil.own
      /\ own \in ClientState /\ own.queue = t /\ own.seqNum = cl.seqNum /\ own.active = cl.active
  <2> HIDE DEF cl, t
  <2> QED BY <1>1 DEF ClientState
<1>4. m \in Message /\ m.kind = "grab" /\ m.seq = cl.seqNum
  <2>1. cl.seqNum \in SeqNum
    BY <1>1 DEF ClientState
  <2> QED BY <2>1 DEF Message, Msg, Screen, Contents
<1>5. /\ nw \in ClientState /\ nw.seqNum = cl.seqNum /\ nw.active = cl.active
      /\ \/ nw.queue = t
         \/ e \in Event /\ e.kind = "sending" /\ e.seq = cl.seqNum /\ nw.queue = Append(t, e)
      /\ (nw.active \/ nw.time = nw.content \/ nw.content \in habit.oversize)
  <2> HIDE DEF own, cl, t
  <2>1. e.kind = "sending" /\ e.seq = own.seqNum
    BY DEF Msg
  <2>2. CASE own.active
    BY <1>3, <2>2
  <2>3. CASE ~own.active
    <3> DEFINE sc == SendClipboard(own, c)
    <3> HIDE DEF e
    <3>1. /\ sc \in ClientState /\ sc.active = own.active /\ sc.seqNum = own.seqNum
          /\ sc.time = sc.content \/ sc.content \in habit.oversize
          /\ sc.queue = own.queue \/ sc.queue = Append(own.queue, e)
          /\ e \in Event
      BY <1>3, SendClipboardDoes DEF e
    <3>2. nw = sc
      BY <2>3
    <3> HIDE DEF nw, sc
    <3> QED BY <1>3, <2>1, <3>1, <3>2
  <2> QED BY <2>2, <2>3
<1>6. /\ NamedClient(c, cl, toClient[c], out, v)
      /\ CursorClient(c, cl, toClient[c], server.active, server.seqNum)
      /\ OrderClient(c, cl, out, server)
  BY DEF Agreed, ClientInv
<1> HIDE DEF nil, own, nw, m, e, cl, out
<1>7. OrderClient(c, nil, Append(out, m), server) /\ Claimed(c, Append(out, m), server, cl.seqNum)
  BY <1>1, <1>3, <1>4, <1>6, OrderWrites
<1> HIDE DEF t
<1>8. OrderClient(c, nw, Append(out, m), server)
  <2>1. /\ nw.seqNum >= nil.seqNum
        /\ Claimed(c, Append(out, m), server, nil.seqNum)
        /\ nw.own => \/ nw.active /\ Claimed(c, Append(out, m), server, nw.seqNum)
                     \/ nw.time = nw.content \/ nw.content \in habit.oversize
    BY <1>1, <1>3, <1>5, <1>7
  <2>2. nw.queue = nil.queue \/ (e \in Event /\ e.kind = "sending" /\ e.seq = nil.seqNum /\ nw.queue = Append(nil.queue, e))
    BY <1>3, <1>5
  <2> QED BY <1>3, <1>5, <1>7, <2>1, <2>2, OrderSends
<1>9. NamedClient(c, nw, toClient[c], Append(out, m), v)
  BY <1>1, <1>4, <1>5, <1>6, NamedWrites DEF t
<1>10. CursorClient(c, nw, toClient[c], server.active, server.seqNum)
  BY <1>5, <1>6 DEF CursorClient, Out
<1>11. /\ client'[c] = nw /\ toServer'[c] = Append(out, m) /\ toClient' = toClient
       /\ \A d \in Client \ {c} : client'[d] = client[d] /\ toServer'[d] = toServer[d]
  BY <1>1, <1>2 DEF out
<1> QED BY <1>2, <1>8, <1>9, <1>10, <1>11, ClientMoves

LEMMA SendChunksAgrees ==
  ASSUME SeqInv, NEW v \in Visits, Agreed(v), NEW c \in Client, SendChunks(c)
  PROVE  Agreed(v)'
<1> DEFINE cl  == client[c]
           e   == Head(cl.queue)
           t   == Tail(cl.queue)
           nw  == [cl EXCEPT !.queue = t]
           m   == Msg("clip", c, e.seq, e.value)
           out == toServer[c]
<1>1. /\ client \in [Client -> ClientState] /\ cl \in ClientState /\ cl.queue # <<>> /\ t \in Seq(Event)
      /\ e.kind = "sending" /\ out \in Seq(Message) /\ e \in Event
      /\ toServer \in [Client -> Seq(Message)]
  <2>1. client \in [Client -> ClientState] /\ cl \in ClientState /\ out \in Seq(Message) /\ cl.queue # <<>>
        /\ e.kind = "sending" /\ toServer \in [Client -> Seq(Message)]
    BY DEF SeqInv, TypeOK, SendChunks
  <2>2. cl.queue \in Seq(Event)
    BY <2>1 DEF ClientState
  <2> HIDE DEF cl
  <2>3. t \in Seq(Event) /\ e \in Event
    BY <2>1, <2>2, TailAt
  <2> QED BY <2>1, <2>2, <2>3
<1>2. /\ client' = [client EXCEPT ![c] = nw] /\ toServer' = [toServer EXCEPT ![c] = Append(@, m)]
      /\ UNCHANGED <<server, toClient, habit>>
  BY <1>1 DEF SendChunks, Write
<1> HIDE DEF e
<1>3. /\ nw \in ClientState /\ nw.queue = t /\ nw.seqNum = cl.seqNum /\ nw.active = cl.active
      /\ nw.own = cl.own /\ nw.time = cl.time /\ nw.content = cl.content
  <2> HIDE DEF cl, t
  <2> QED BY <1>1 DEF ClientState
<1>4. m \in Message /\ m.kind = "clip" /\ m.seq = e.seq
  BY <1>1 DEF Message, Msg, Screen, Event
<1>6. /\ NamedClient(c, cl, toClient[c], out, v)
      /\ CursorClient(c, cl, toClient[c], server.active, server.seqNum)
      /\ OrderClient(c, cl, out, server)
  BY DEF Agreed, ClientInv
<1> HIDE DEF nw, m, cl, out
<1>7. OrderClient(c, nw, Append(out, m), server)
  BY <1>1, <1>3, <1>4, <1>6, OrderWrites DEF e
<1>8. NamedClient(c, nw, toClient[c], Append(out, m), v)
  BY <1>1, <1>3, <1>4, <1>6, NamedWrites DEF e
<1>9. CursorClient(c, nw, toClient[c], server.active, server.seqNum)
  BY <1>3, <1>6 DEF CursorClient, Out
<1>10. /\ client'[c] = nw /\ toServer'[c] = Append(out, m) /\ toClient' = toClient
       /\ \A d \in Client \ {c} : client'[d] = client[d] /\ toServer'[d] = toServer[d]
  BY <1>1, <1>2 DEF out
<1> QED BY <1>2, <1>7, <1>8, <1>9, <1>10, ClientMoves

(* A user copies only where he is: the copy belongs to the present visit.    *)
LEMMA CopyAgrees ==
  ASSUME SeqInv, NEW v \in Visits, Agreed(v), ~habit.background, NEW s \in Screen, Copy(s)
  PROVE  Agreed(v)'
<1>1. UNCHANGED <<toClient, toServer, habit>> /\ copies' = copies + 1
  BY DEF Copy
<1>2. CASE s = Primary
  <2> DEFINE q == server.queue
             e == Msg("grabbed", s, server.enterSeq, Empty)
             x == copies'
  <2>1. /\ server \in ServerState /\ q \in Seq(Event) /\ server.active = Primary /\ ServerInv(server, v)
        /\ server.enterSeq \in SeqNum /\ server.clipSeq \in Nat /\ server.seqNum \in Nat
        /\ server.clipSeq < server.seqNum + 1 /\ Under(q, server.seqNum + 1)
    <3>1. server \in ServerState /\ q \in Seq(Event) /\ server.active = Primary /\ ServerInv(server, v)
          /\ server.enterSeq \in SeqNum /\ server.clipSeq \in SeqNum /\ server.seqNum \in SeqNum
      BY <1>2 DEF SeqInv, TypeOK, ServerState, Copy, Agreed
    <3> QED BY <3>1, SeqNat DEF SeqInv, Bounded
  <2>2. e \in Event /\ e.kind = "grabbed" /\ e.screen = Primary /\ e.seq = server.enterSeq
    BY <1>2, <2>1 DEF Event, Msg, Contents
  <2>3. server' = [server EXCEPT !.content = x, !.queue = Append(q, e)] /\ UNCHANGED client
    BY <1>2 DEF Copy
  <2>4. server.enterSeq = server.seqNum /\ v[server.enterSeq] = Primary /\ QueueInv(q, server.clipSeq, v)
    BY <2>1 DEF ServerInv
  <2> HIDE DEF e, q, x
  <2>5. /\ server'.active = server.active /\ server'.seqNum = server.seqNum
        /\ server'.enterSeq = server.enterSeq /\ server'.clipSeq = server.clipSeq
        /\ server'.owner = server.owner /\ server'.queue = Append(q, e)
    BY <2>1, <2>3 DEF ServerState
  <2>6. /\ e.seq >= server.clipSeq
        /\ \A j \in 1..Len(q) : q[j].kind = "grabbed" => q[j].seq <= e.seq
    <3>1. \A j \in 1..Len(q) : q[j].seq < server.seqNum + 1 /\ q[j].seq \in Nat
      <4>1. \A j \in 1..Len(q) : q[j] \in Event
        BY <2>1
      <4> QED BY <2>1, <4>1, SeqNat DEF Under
    <3> QED BY <2>1, <2>2, <2>4, <3>1
  <2>7. /\ QueueInv(Append(q, e), server.clipSeq, v)
        /\ \A c, k : GrabIn(q, Len(q), c, k) => GrabIn(Append(q, e), Len(Append(q, e)), c, k)
    BY <2>1, <2>2, <2>4, <2>6, QueueAppend
  <2>8. ServerInv(server', v) /\ \A c, k : Hears(server, c, k) => Hears(server', c, k)
    BY <2>1, <2>5, <2>7 DEF ServerInv, Hears, q
  <2>9. ASSUME NEW c \in Client PROVE ClientInv(c, v)'
    BY <1>1, <2>3, <2>5, <2>8, ClientUnmoved DEF Agreed
  <2> QED BY <2>8, <2>9 DEF Agreed
<1>3. CASE s # Primary
  <2> DEFINE cl  == client[s]
             q   == cl.queue
             e   == Msg("grabbed", s, 0, Empty)
             x   == copies'
             r   == Append(q, e)
             nw  == [cl EXCEPT !.content = x, !.queue = r]
             out == toServer[s]
  <2>1. /\ s \in Client /\ client \in [Client -> ClientState] /\ cl \in ClientState /\ q \in Seq(Event)
        /\ cl.active /\ UNCHANGED server
    BY <1>3 DEF SeqInv, TypeOK, ClientState, Screen, Copy
  <2>2. client' = [client EXCEPT ![s] = nw]
    BY <1>3, <2>1 DEF Copy
  <2>3. e.kind = "grabbed" /\ e \in Event /\ x \in Contents
    BY ClipboardAssumption DEF Event, Msg, SeqNum, Contents, Copies, SeqInv, TypeOK, Copy
  <2> HIDE DEF e, x, q
  <2>4. r \in Seq(Event) /\ Len(r) = Len(q) + 1 /\ Len(q) \in Nat /\ r[Len(q) + 1] = e /\ \A i \in 1..Len(q) : r[i] = q[i]
    BY <2>1, <2>3, AppendAt
  <2> HIDE DEF r
  <2>5. /\ nw \in ClientState /\ nw.queue = r /\ nw.seqNum = cl.seqNum /\ nw.active /\ nw.active = cl.active
    <3> HIDE DEF cl
    <3> QED BY <2>1, <2>3, <2>4 DEF ClientState
  <2>6. /\ NamedClient(s, cl, toClient[s], out, v)
        /\ CursorClient(s, cl, toClient[s], server.active, server.seqNum)
        /\ OrderClient(s, cl, out, server)
    BY <2>1 DEF Agreed, ClientInv
  <2> HIDE DEF nw, cl, out
  <2>7. Copied(nw)
    <3>1. Len(r) \in 1..Len(r) /\ r[Len(r)].kind = "grabbed"
      BY <2>3, <2>4
    <3> QED BY <2>5, <3>1 DEF Copied
  <2>8. OrderClient(s, nw, out, server)
    <3>1. ASSUME NEW i \in 1..Len(r), r[i].kind = "sending"
          PROVE  /\ r[i].seq <= cl.seqNum
                 /\ Claimed(s, out, server, r[i].seq) \/ \E j \in 1..i - 1 : r[j].kind = "grabbed"
      <4>1. i \in 1..Len(q) /\ r[i] = q[i] /\ \A j \in 1..i - 1 : r[j] = q[j]
        <5>1. i # Len(q) + 1
          BY <2>3, <2>4, <3>1
        <5> QED BY <2>4, <5>1
      <4> QED BY <2>6, <3>1, <4>1 DEF OrderClient, q
    <3> QED BY <2>5, <2>6, <2>7, <3>1 DEF OrderClient
  <2>9. NamedClient(s, nw, toClient[s], out, v)
    <3>1. v[cl.seqNum] = s
      BY <2>5, <2>6 DEF NamedClient
    <3>2. \A i \in 1..Len(r) : r[i].kind = "sending" => v[r[i].seq] = s
      BY <2>3, <2>4, <2>6 DEF NamedClient, q
    <3> QED BY <2>5, <2>6, <3>1, <3>2 DEF NamedClient
  <2>10. CursorClient(s, nw, toClient[s], server.active, server.seqNum)
    BY <2>5, <2>6 DEF CursorClient, Out
  <2>11. /\ client'[s] = nw /\ toServer' = toServer /\ toClient' = toClient
         /\ \A d \in Client \ {s} : client'[d] = client[d]
    BY <1>1, <2>1, <2>2
  <2> QED BY <1>1, <2>1, <2>8, <2>9, <2>10, <2>11, ClientMoves DEF out
<1> QED BY <1>2, <1>3

-----------------------------------------------------------------------------
LEMMA InitOwnerInv == Init => OwnerInv
<1> SUFFICES ASSUME Init PROVE OwnerInv
  OBVIOUS
<1> DEFINE v == [n \in SeqNum |-> Primary]
<1>1. SeqInv /\ v \in Visits /\ 0 \in SeqNum /\ v[0] = Primary
  BY InitSeqInv, ClipboardAssumption DEF Visits, Screen, SeqNum
<1> HIDE DEF v
<1>2. ServerInv(server, v)
  <2>1. /\ server.active = Primary /\ server.seqNum = 0 /\ server.owner = Primary /\ server.clipSeq = 0
        /\ server.enterSeq = 0 /\ server.queue = <<>>
    BY DEF Init
  <2> QED BY <1>1, <2>1 DEF ServerInv, QueueInv
<1>3. ASSUME NEW c \in Client PROVE ClientInv(c, v)
  <2>1. /\ ~client[c].active /\ ~client[c].own /\ client[c].queue = <<>>
        /\ toClient[c] = <<>> /\ toServer[c] = <<>> /\ server.active # c
    BY ClipboardAssumption DEF Init
  <2> QED BY <2>1 DEF ClientInv, NamedClient, CursorClient, OrderClient, Out
<1> QED BY <1>1, <1>2, <1>3 DEF OwnerInv, Ordered, Agreed

LEMMA HabitKept == [Next]_vars => habit' = habit
BY DEF Next, vars, ServerStep, ClientStep, HandleGrabbed, HandleChanged, HandleSending, Receive,
       ParseMessage, OwnClipboard, SendChunks, SwitchScreen, Copy

LEMMA OrderedNext ==
  ASSUME SeqInv, Ordered, ~habit.background, [Next]_vars
  PROVE  Ordered'
<1>1. PICK v \in Visits : Agreed(v)
  BY DEF Ordered
<1>2. SUFFICES \E w \in Visits : Agreed(w)'
  BY DEF Ordered
<1>3. CASE ServerStep
  BY <1>1, <1>3, HandleGrabbedAgrees, HandleChangedAgrees, HandleSendingAgrees DEF ServerStep
<1>4. ASSUME NEW c \in Client, Receive(c) \/ ClientStep(c)
      PROVE  \E w \in Visits : Agreed(w)'
  BY <1>1, <1>4, ReceiveAgrees, ParseMessageAgrees, OwnClipboardAgrees, SendChunksAgrees DEF ClientStep
<1>5. ASSUME NEW s \in Screen, SwitchScreen(s)
      PROVE  \E w \in Visits : Agreed(w)'
  <2>1. PICK w : w = [v EXCEPT ![server.seqNum + 1] = s]
    OBVIOUS
  <2> QED BY <1>1, <1>5, <2>1, SwitchScreenAgrees
<1>6. ASSUME NEW s \in Screen, Copy(s)
      PROVE  \E w \in Visits : Agreed(w)'
  BY <1>1, <1>6, CopyAgrees
<1>7. CASE UNCHANGED vars
  <2>1. server' = server /\ client' = client /\ toClient' = toClient /\ toServer' = toServer /\ habit' = habit
    BY <1>7 DEF vars
  <2>2. Agreed(v)'
    BY <1>1, <2>1 DEF Agreed, ClientInv, OrderClient
  <2> QED BY <2>2
<1> QED BY <1>3, <1>4, <1>5, <1>6, <1>7 DEF Next

LEMMA OwnerInvNext == OwnerInv /\ [Next]_vars => OwnerInv'
BY SeqInvNext, OrderedNext, HabitKept DEF OwnerInv

LEMMA OwnerInvImplies == OwnerInv => (~habit.background => OwnerSends)
<1> SUFFICES ASSUME SeqInv, Ordered, server.queue # <<>>,
                    Head(server.queue).kind = "changed", Head(server.queue).seq >= server.clipSeq
             PROVE  Head(server.queue).screen = server.owner
  BY DEF OwnerInv, OwnerSends
<1>1. PICK v \in Visits : Agreed(v)
  BY DEF Ordered
<1> DEFINE q == server.queue
<1>2. q \in Seq(Event) /\ Head(q) = q[1] /\ 1 \in 1..Len(q) /\ Head(q).seq \in Nat /\ server.clipSeq \in Nat
  <2>1. q \in Seq(Event) /\ server.clipSeq \in SeqNum
    BY DEF SeqInv, TypeOK, ServerState
  <2> HIDE DEF q
  <2>2. q # <<>>
    BY DEF q
  <2>3. Head(q) = q[1] /\ 1 \in 1..Len(q) /\ Head(q) \in Event
    BY <2>1, <2>2, TailAt
  <2> QED BY <2>1, <2>3, SeqNat
<1>3. EventInv(q, 1, server.clipSeq, v) /\ v[server.clipSeq] = server.owner
  BY <1>1, <1>2 DEF Agreed, ServerInv, QueueInv
<1>4. ~GrabIn(q, 1 - 1, Head(q).screen, Head(q).seq)
  BY DEF GrabIn
<1>5. server.clipSeq >= Head(q).seq /\ v[Head(q).seq] = Head(q).screen
  BY <1>2, <1>3, <1>4 DEF EventInv
<1> QED BY <1>2, <1>3, <1>5

(* The assertion in onClipboardChanged (Server.cpp:1541) for users who copy  *)
(* only on the screen they are at, however fast they act and however late    *)
(* messages and events are: data that is not out of date comes from the      *)
(* screen that owns the clipboard.  (A program that copies on a screen the   *)
(* cursor has left may stamp its grab with another screen's visit.)          *)
THEOREM OwnerSendsData == Spec => [](~habit.background => OwnerSends)
BY InitOwnerInv, OwnerInvNext, OwnerInvImplies, PTL DEF Spec

-----------------------------------------------------------------------------
(* What a clean screen shows.  Of the transfers under way to it the last     *)
(* one counts: in the server's queue, else in the stream, else what it has.  *)
Sending(e, c)   == e.kind = "sending" /\ e.screen = c
NoneSent(q, c)  == \A i \in 1..Len(q) : ~Sending(q[i], c)
LastSent(q, c, d) ==
  \A i \in 1..Len(q) :
    Sending(q[i], c) /\ (\A j \in i + 1..Len(q) : ~Sending(q[j], c)) => q[i].value = d
Writes(m)       == m.kind \in {"grab", "clip"}
NoneWritten(to) == \A i \in 1..Len(to) : ~Writes(to[i])
LastWritten(to, d) ==
  \A i \in 1..Len(to) :
    Writes(to[i]) /\ (\A j \in i + 1..Len(to) : ~Writes(to[j])) => to[i].kind = "clip" /\ to[i].value = d
PrimaryGrabs(q) == \E i \in 1..Len(q) : q[i].kind = "grabbed" /\ q[i].screen = Primary

CleanClient(c, q, to, cl, d) ==
  /\ LastSent(q, c, d)
  /\ NoneSent(q, c) => LastWritten(to, d)
  /\ NoneSent(q, c) /\ NoneWritten(to) => cl.own \/ Copied(cl) \/ cl.content = d

Clean(sv, out, cls) ==
  /\ sv.clip = sv.data \/ sv.clip \in habit.oversize
  /\ ~sv.dirty[Primary] /\ sv.owner # Primary => sv.content = sv.data \/ PrimaryGrabs(sv.queue)
  /\ \A c \in Client :
       ~sv.dirty[c] /\ sv.owner # c => CleanClient(c, sv.queue, out[c], cls[c], sv.data)

CleanInv == OwnerInv /\ (habit.background \/ Clean(server, toClient, client))

(* A queue or a stream grows by one, or its first element is taken.          *)
LEMMA SentAppend ==
  ASSUME NEW q \in Seq(Event), NEW e \in Event, NEW c, NEW d
  PROVE  /\ Sending(e, c) /\ e.value = d => LastSent(Append(q, e), c, d) /\ ~NoneSent(Append(q, e), c)
         /\ ~Sending(e, c) /\ LastSent(q, c, d) => LastSent(Append(q, e), c, d)
         /\ NoneSent(Append(q, e), c) => NoneSent(q, c)
         /\ PrimaryGrabs(q) => PrimaryGrabs(Append(q, e))
         /\ e.kind = "grabbed" /\ e.screen = Primary => PrimaryGrabs(Append(q, e))
<1> DEFINE r == Append(q, e)
<1>1. /\ Len(r) = Len(q) + 1 /\ Len(q) \in Nat /\ r[Len(q) + 1] = e
      /\ \A i \in 1..Len(q) : r[i] = q[i]
  BY AppendAt
<1> HIDE DEF r
<1>2. ASSUME Sending(e, c), e.value = d PROVE LastSent(r, c, d) /\ ~NoneSent(r, c)
  <2>1. ASSUME NEW i \in 1..Len(r), i # Len(r) PROVE \E j \in i + 1..Len(r) : Sending(r[j], c)
    <3>1. Len(r) \in i + 1..Len(r) /\ r[Len(r)] = e
      BY <1>1, <2>1
    <3> QED BY <1>2, <3>1
  <2>2. Len(r) \in 1..Len(r) /\ r[Len(r)] = e
    BY <1>1
  <2> QED BY <1>2, <2>1, <2>2 DEF LastSent, NoneSent
<1>3. ASSUME ~Sending(e, c), LastSent(q, c, d) PROVE LastSent(r, c, d)
  <2> SUFFICES ASSUME NEW i \in 1..Len(r), Sending(r[i], c), \A j \in i + 1..Len(r) : ~Sending(r[j], c)
               PROVE  r[i].value = d
    BY DEF LastSent
  <2>1. i \in 1..Len(q) /\ r[i] = q[i]
    <3>1. i # Len(q) + 1
      BY <1>1, <1>3
    <3> QED BY <1>1, <3>1
  <2>2. \A j \in i + 1..Len(q) : ~Sending(q[j], c)
    BY <1>1, <2>1
  <2> QED BY <1>3, <2>1, <2>2 DEF LastSent
<1>4. NoneSent(r, c) => NoneSent(q, c)
  BY <1>1 DEF NoneSent
<1>5. PrimaryGrabs(q) => PrimaryGrabs(r)
  BY <1>1 DEF PrimaryGrabs
<1>6. e.kind = "grabbed" /\ e.screen = Primary => PrimaryGrabs(r)
  BY <1>1 DEF PrimaryGrabs
<1> QED BY <1>2, <1>3, <1>4, <1>5, <1>6 DEF r

LEMMA SentTail ==
  ASSUME NEW q \in Seq(Event), q # <<>>, NEW c, NEW d, LastSent(q, c, d)
  PROVE  /\ LastSent(Tail(q), c, d)
         /\ NoneSent(Tail(q), c) /\ Sending(Head(q), c) => Head(q).value = d
         /\ NoneSent(Tail(q), c) /\ ~Sending(Head(q), c) => NoneSent(q, c)
<1> DEFINE t == Tail(q)
<1>1. /\ Len(t) = Len(q) - 1 /\ Len(q) \in Nat \ {0} /\ Head(q) = q[1]
      /\ \A i \in 1..Len(q) - 1 : t[i] = q[i + 1]
  BY TailAt
<1> HIDE DEF t
<1>2. ASSUME NEW i \in 1..Len(t), Sending(t[i], c), \A j \in i + 1..Len(t) : ~Sending(t[j], c)
      PROVE  t[i].value = d
  <2>1. i + 1 \in 1..Len(q) /\ t[i] = q[i + 1]
    BY <1>1
  <2>2. ASSUME NEW j \in i + 2..Len(q) PROVE ~Sending(q[j], c)
    <3>1. j - 1 \in i + 1..Len(t) /\ t[j - 1] = q[j]
      BY <1>1
    <3> QED BY <1>2, <3>1
  <2>3. (i + 1) + 1 = i + 2
    OBVIOUS
  <2> QED BY <1>2, <2>1, <2>2, <2>3 DEF LastSent
<1>3. ASSUME NoneSent(t, c) PROVE \A j \in 2..Len(q) : ~Sending(q[j], c)
  <2>1. ASSUME NEW j \in 2..Len(q) PROVE ~Sending(q[j], c)
    <3>1. j - 1 \in 1..Len(t) /\ t[j - 1] = q[j]
      BY <1>1
    <3> QED BY <1>3, <3>1 DEF NoneSent
  <2> QED BY <2>1
<1>4. NoneSent(t, c) /\ Sending(q[1], c) => q[1].value = d
  <2>1. 1 \in 1..Len(q) /\ 1 + 1 = 2
    BY <1>1
  <2> QED BY <1>3, <2>1 DEF LastSent
<1>5. NoneSent(t, c) /\ ~Sending(q[1], c) => NoneSent(q, c)
  <2>1. \A j \in 1..Len(q) : j = 1 \/ j \in 2..Len(q)
    BY <1>1
  <2> QED BY <1>3, <2>1 DEF NoneSent
<1> QED BY <1>1, <1>2, <1>4, <1>5 DEF LastSent, t

LEMMA WrittenAppend ==
  ASSUME NEW q \in Seq(Message), NEW m \in Message, NEW d
  PROVE  /\ m.kind = "clip" /\ m.value = d => LastWritten(Append(q, m), d)
         /\ ~Writes(m) /\ LastWritten(q, d) => LastWritten(Append(q, m), d)
         /\ NoneWritten(Append(q, m)) => NoneWritten(q) /\ ~Writes(m)
<1> DEFINE r == Append(q, m)
<1>1. /\ Len(r) = Len(q) + 1 /\ Len(q) \in Nat /\ r[Len(q) + 1] = m
      /\ \A i \in 1..Len(q) : r[i] = q[i]
  BY AppendAt
<1> HIDE DEF r
<1>2. ASSUME m.kind = "clip", m.value = d PROVE LastWritten(r, d)
  <2>1. ASSUME NEW i \in 1..Len(r), i # Len(r) PROVE \E j \in i + 1..Len(r) : Writes(r[j])
    <3>1. Len(r) \in i + 1..Len(r) /\ r[Len(r)] = m
      BY <1>1, <2>1
    <3> QED BY <1>2, <3>1 DEF Writes
  <2>2. Len(r) \in 1..Len(r) /\ r[Len(r)] = m
    BY <1>1
  <2> QED BY <1>2, <2>1, <2>2 DEF LastWritten
<1>3. ASSUME ~Writes(m), LastWritten(q, d) PROVE LastWritten(r, d)
  <2> SUFFICES ASSUME NEW i \in 1..Len(r), Writes(r[i]), \A j \in i + 1..Len(r) : ~Writes(r[j])
               PROVE  r[i].kind = "clip" /\ r[i].value = d
    BY DEF LastWritten
  <2>1. i \in 1..Len(q) /\ r[i] = q[i]
    <3>1. i # Len(q) + 1
      BY <1>1, <1>3
    <3> QED BY <1>1, <3>1
  <2>2. \A j \in i + 1..Len(q) : ~Writes(q[j])
    BY <1>1, <2>1
  <2> QED BY <1>3, <2>1, <2>2 DEF LastWritten
<1>4. NoneWritten(r) => NoneWritten(q) /\ ~Writes(m)
  BY <1>1 DEF NoneWritten
<1> QED BY <1>2, <1>3, <1>4 DEF r

LEMMA WrittenTail ==
  ASSUME NEW q \in Seq(Message), q # <<>>, NEW d, LastWritten(q, d)
  PROVE  /\ LastWritten(Tail(q), d)
         /\ NoneWritten(Tail(q)) /\ Writes(Head(q)) => Head(q).kind = "clip" /\ Head(q).value = d
         /\ NoneWritten(Tail(q)) /\ ~Writes(Head(q)) => NoneWritten(q)
<1> DEFINE t == Tail(q)
<1>1. /\ Len(t) = Len(q) - 1 /\ Len(q) \in Nat \ {0} /\ Head(q) = q[1]
      /\ \A i \in 1..Len(q) - 1 : t[i] = q[i + 1]
  BY TailAt
<1> HIDE DEF t
<1>2. ASSUME NEW i \in 1..Len(t), Writes(t[i]), \A j \in i + 1..Len(t) : ~Writes(t[j])
      PROVE  t[i].kind = "clip" /\ t[i].value = d
  <2>1. i + 1 \in 1..Len(q) /\ t[i] = q[i + 1]
    BY <1>1
  <2>2. ASSUME NEW j \in i + 2..Len(q) PROVE ~Writes(q[j])
    <3>1. j - 1 \in i + 1..Len(t) /\ t[j - 1] = q[j]
      BY <1>1
    <3> QED BY <1>2, <3>1
  <2>3. (i + 1) + 1 = i + 2
    OBVIOUS
  <2> QED BY <1>2, <2>1, <2>2, <2>3 DEF LastWritten
<1>3. ASSUME NoneWritten(t) PROVE \A j \in 2..Len(q) : ~Writes(q[j])
  <2>1. ASSUME NEW j \in 2..Len(q) PROVE ~Writes(q[j])
    <3>1. j - 1 \in 1..Len(t) /\ t[j - 1] = q[j]
      BY <1>1
    <3> QED BY <1>3, <3>1 DEF NoneWritten
  <2> QED BY <2>1
<1>4. NoneWritten(t) /\ Writes(q[1]) => q[1].kind = "clip" /\ q[1].value = d
  <2>1. 1 \in 1..Len(q) /\ 1 + 1 = 2
    BY <1>1
  <2> QED BY <1>3, <2>1 DEF LastWritten
<1>5. NoneWritten(t) /\ ~Writes(q[1]) => NoneWritten(q)
  <2>1. \A j \in 1..Len(q) : j = 1 \/ j \in 2..Len(q)
    BY <1>1
  <2> QED BY <1>3, <2>1 DEF NoneWritten
<1> QED BY <1>1, <1>2, <1>4, <1>5 DEF LastWritten, t

(* The server's operators keep clean screens current.                        *)
LEMMA CleanAppend ==
  ASSUME NEW q \in Seq(Event), NEW e \in Event, NEW c, NEW to, NEW cl, NEW d,
         CleanClient(c, q, to, cl, d), ~Sending(e, c)
  PROVE  CleanClient(c, Append(q, e), to, cl, d)
BY SentAppend DEF CleanClient

LEMMA CleanSent ==
  ASSUME NEW q \in Seq(Event), NEW e \in Event, NEW c, NEW to, NEW cl, Sending(e, c)
  PROVE  CleanClient(c, Append(q, e), to, cl, e.value)
<1>1. LastSent(Append(q, e), c, e.value) /\ ~NoneSent(Append(q, e), c)
  BY SentAppend
<1> QED BY <1>1 DEF CleanClient

LEMMA SetClipboardCleans ==
  ASSUME NEW sv \in ServerState, NEW s \in Screen, NEW out, NEW cls, Clean(sv, out, cls),
         sv.clip = sv.data
  PROVE  Clean(SetClipboard(sv, s), out, cls)
<1>1. CASE ~sv.dirty[s]
  BY <1>1 DEF SetClipboard
<1>2. CASE sv.dirty[s] /\ s = Primary
  <2> DEFINE nw == [sv EXCEPT !.dirty[s] = FALSE, !.content = sv.clip]
  <2>1. /\ nw.clip = sv.clip /\ nw.data = sv.data /\ nw.owner = sv.owner /\ nw.queue = sv.queue
        /\ nw.content = sv.clip /\ \A c \in Client : nw.dirty[c] = sv.dirty[c]
    BY <1>2, ClipboardAssumption DEF ServerState, Screen
  <2>2. SetClipboard(sv, s) = nw
    BY <1>2 DEF SetClipboard
  <2> HIDE DEF nw
  <2> QED BY <2>1, <2>2 DEF Clean
<1>3. CASE sv.dirty[s] /\ s # Primary
  <2> DEFINE e == Msg("sending", s, 0, sv.clip)
  <2> DEFINE nw == [sv EXCEPT !.dirty[s] = FALSE, !.stored[s] = sv.clip, !.queue = Append(@, e)]
  <2>1. /\ e \in Event /\ e.value = sv.data /\ Sending(e, s) /\ e.kind # "grabbed"
        /\ \A c \in Client : c # s => ~Sending(e, c)
    BY ClipboardAssumption DEF ServerState, Event, Msg, SeqNum, Sending
  <2> HIDE DEF e
  <2>2. /\ nw.clip = sv.clip /\ nw.data = sv.data /\ nw.owner = sv.owner
        /\ nw.queue = Append(sv.queue, e) /\ nw.content = sv.content /\ sv.queue \in Seq(Event)
        /\ nw.dirty[Primary] = sv.dirty[Primary]
        /\ \A c \in Client : c # s => nw.dirty[c] = sv.dirty[c]
    BY <1>3 DEF ServerState, Screen
  <2>3. SetClipboard(sv, s) = nw
    BY <1>3 DEF SetClipboard, e
  <2> HIDE DEF nw
  <2>4. PrimaryGrabs(sv.queue) => PrimaryGrabs(nw.queue)
    BY <2>1, <2>2, SentAppend
  <2>5. ASSUME NEW c \in Client, ~nw.dirty[c], nw.owner # c
        PROVE  CleanClient(c, nw.queue, out[c], cls[c], nw.data)
    <3>1. CASE c = s
      BY <2>1, <2>2, <3>1, CleanSent
    <3>2. CASE c # s
      <4>1. CleanClient(c, sv.queue, out[c], cls[c], sv.data)
        BY <2>2, <2>5, <3>2 DEF Clean
      <4> QED BY <2>1, <2>2, <3>2, <4>1, CleanAppend
    <3> QED BY <3>1, <3>2
  <2> QED BY <2>2, <2>3, <2>4, <2>5 DEF Clean
<1> QED BY <1>1, <1>2, <1>3 DEF ServerState

LEMMA ClipboardChangedCleans ==
  ASSUME NEW sv \in ServerState, NEW s \in Screen, NEW n, NEW out, NEW cls, Clean(sv, out, cls),
         s = sv.owner \/ n < sv.clipSeq
  PROVE  Clean(ClipboardChanged(sv, s, n), out, cls)
<1> DEFINE v == GetClipboard(sv, s)
           got == [sv EXCEPT !.clip = v]
           news == [got EXCEPT !.data = v, !.dirty = [x \in Screen |-> x # s]]
<1>1. v \in Contents
  BY DEF GetClipboard, ServerState, Screen
<1> HIDE DEF v
<1>2. CASE n < sv.clipSeq
  BY <1>2 DEF ClipboardChanged
<1>3. CASE ~(n < sv.clipSeq) /\ (v \in habit.oversize \/ v = sv.data)
  <2>1. /\ got.clip = v /\ got.data = sv.data /\ got.owner = sv.owner /\ got.queue = sv.queue
        /\ got.content = sv.content /\ got.dirty = sv.dirty
    BY DEF ServerState
  <2>2. ClipboardChanged(sv, s, n) = got
    BY <1>3 DEF ClipboardChanged, v
  <2> HIDE DEF got
  <2>3. got.clip = got.data \/ got.clip \in habit.oversize
    BY <1>3, <2>1
  <2> QED BY <2>1, <2>2, <2>3 DEF Clean
<1>4. CASE ~(n < sv.clipSeq) /\ ~(v \in habit.oversize \/ v = sv.data)
  <2>1. news \in ServerState /\ sv.active \in Screen
    BY <1>1 DEF ServerState
  <2>2. /\ news.clip = v /\ news.data = v /\ news.owner = sv.owner /\ news.queue = sv.queue
        /\ news.content = sv.content /\ \A x \in Screen : news.dirty[x] = (x # s)
    BY DEF ServerState
  <2>3. ClipboardChanged(sv, s, n) = SetClipboard(news, sv.active)
    BY <1>4 DEF ClipboardChanged, v
  <2> HIDE DEF news
  <2>4. s = sv.owner
    BY <1>4
  <2>5. Clean(news, out, cls)
    BY <2>2, <2>4 DEF Clean, Screen
  <2> QED BY <2>1, <2>2, <2>3, <2>5, SetClipboardCleans
<1> QED BY <1>2, <1>3, <1>4

(* A grab makes every other screen dirty.                                    *)
LEMMA ClipboardGrabbedCleans ==
  ASSUME NEW sv \in ServerState, NEW g \in Screen, NEW n \in SeqNum, NEW out, NEW cls
  PROVE  Clean(ClipboardGrabbed(sv, g, n), out, cls)
<1> DEFINE empty == [sv EXCEPT !.owner = g, !.clipSeq = n, !.clip = Empty, !.data = Empty]
           told  == GrabOthers(empty, g)
<1>1. /\ told \in ServerState /\ told.owner = g /\ told.clip = told.data
      /\ \A x \in Screen : told.dirty[x] = (x # g)
  BY DEF GrabOthers, ServerState, Contents
<1>2. \/ ClipboardGrabbed(sv, g, n) = told
      \/ g = Primary /\ ClipboardGrabbed(sv, g, n) = ClipboardChanged(told, Primary, n)
  BY DEF ClipboardGrabbed
<1> HIDE DEF told
<1>3. Clean(told, out, cls)
  BY <1>1 DEF Clean, Screen
<1> QED BY <1>1, <1>2, <1>3, ClipboardChangedCleans

(* An event that is neither a transfer nor a grab of the server's own goes.  *)
LEMMA CleanTaken ==
  ASSUME NEW sv \in ServerState, sv.queue # <<>>, NEW out, NEW cls, Clean(sv, out, cls),
         Head(sv.queue).kind # "sending",
         ~(Head(sv.queue).kind = "grabbed" /\ Head(sv.queue).screen = Primary)
  PROVE  Clean([sv EXCEPT !.queue = Tail(@)], out, cls)
<1> DEFINE q  == sv.queue
           t  == Tail(q)
           nw == [sv EXCEPT !.queue = t]
<1>1. q \in Seq(Event) /\ q # <<>>
  BY DEF ServerState
<1>2. /\ nw.clip = sv.clip /\ nw.data = sv.data /\ nw.owner = sv.owner /\ nw.queue = t
      /\ nw.content = sv.content /\ nw.dirty = sv.dirty
  BY DEF ServerState
<1> HIDE DEF nw
<1>3. PrimaryGrabs(q) => PrimaryGrabs(t)
  <2>1. ASSUME NEW i \in 1..Len(q), q[i].kind = "grabbed", q[i].screen = Primary
        PROVE  PrimaryGrabs(t)
    <3> HIDE DEF q
    <3>1. /\ Len(t) = Len(q) - 1 /\ Len(q) \in Nat \ {0} /\ Head(q) = q[1]
          /\ \A k \in 1..Len(q) - 1 : t[k] = q[k + 1]
      BY <1>1, TailAt
    <3>2. i # 1
      BY <2>1, <3>1 DEF q
    <3>3. i - 1 \in 1..Len(t) /\ t[i - 1] = q[i]
      BY <3>1, <3>2
    <3> QED BY <2>1, <3>3 DEF PrimaryGrabs
  <2> QED BY <2>1 DEF PrimaryGrabs
<1>4. ASSUME NEW c \in Client, ~sv.dirty[c], sv.owner # c
      PROVE  CleanClient(c, t, out[c], cls[c], sv.data)
  <2>1. CleanClient(c, q, out[c], cls[c], sv.data) /\ ~Sending(Head(q), c)
    BY <1>4 DEF Clean, Sending
  <2>2. LastSent(t, c, sv.data) /\ (NoneSent(t, c) => NoneSent(q, c))
    BY <1>1, <2>1, SentTail DEF CleanClient
  <2> QED BY <2>1, <2>2 DEF CleanClient
<1> QED BY <1>2, <1>3, <1>4 DEF Clean, nw

(* The steps of the server.                                                  *)
LEMMA HandleGrabbedCleans ==
  ASSUME SeqInv, Clean(server, toClient, client), HandleGrabbed
  PROVE  Clean(server', toClient', client')
<1> DEFINE e  == Head(server.queue)
           sv == [server EXCEPT !.queue = Tail(@)]
<1>1. /\ server \in ServerState /\ sv \in ServerState /\ e \in Event /\ e.screen \in Screen /\ e.seq \in SeqNum
      /\ server.queue # <<>> /\ e.kind = "grabbed" /\ client' = client
  BY TakeEvent DEF HandleGrabbed, SeqInv, TypeOK, Event
<1>2. CASE Stale(sv, e.screen, e.seq)
  <2>1. server' = sv /\ toClient' = toClient /\ e.screen # Primary
    BY <1>2 DEF HandleGrabbed, Stale
  <2> QED BY <1>1, <2>1, CleanTaken
<1>3. CASE ~Stale(sv, e.screen, e.seq)
  <2>1. server' = ClipboardGrabbed(sv, e.screen, e.seq)
    BY <1>3 DEF HandleGrabbed
  <2> HIDE DEF sv, e
  <2> QED BY <1>1, <2>1, ClipboardGrabbedCleans
<1> QED BY <1>2, <1>3

LEMMA HandleChangedCleans ==
  ASSUME SeqInv, Clean(server, toClient, client), OwnerSends, HandleChanged
  PROVE  Clean(server', toClient', client')
<1> DEFINE e  == Head(server.queue)
           sv == [server EXCEPT !.queue = Tail(@)]
<1>1. /\ server \in ServerState /\ sv \in ServerState /\ e \in Event /\ e.screen \in Screen /\ e.seq \in SeqNum
      /\ server.queue # <<>> /\ e.kind = "changed" /\ UNCHANGED <<client, toClient>>
      /\ server' = ClipboardChanged(sv, e.screen, e.seq)
      /\ sv.clipSeq \in SeqNum /\ sv.clipSeq = server.clipSeq /\ sv.owner = server.owner
  BY TakeEvent DEF HandleChanged, SeqInv, TypeOK, Event, ServerState
<1>2. e.screen = sv.owner \/ e.seq < sv.clipSeq
  <2>1. e.seq >= sv.clipSeq => e.screen = sv.owner
    BY <1>1 DEF OwnerSends
  <2> HIDE DEF e, sv
  <2> QED BY <1>1, <2>1, SeqNat
<1>3. Clean(sv, toClient, client)
  BY <1>1, CleanTaken
<1> HIDE DEF e, sv
<1> QED BY <1>1, <1>2, <1>3, ClipboardChangedCleans

LEMMA HandleSendingCleans ==
  ASSUME SeqInv, Clean(server, toClient, client), HandleSending
  PROVE  Clean(server', toClient', client')
<1> DEFINE q == server.queue
           e == Head(q)
           m == Msg("clip", e.screen, 0, e.value)
           d == server.data
<1>1. /\ server \in ServerState /\ q \in Seq(Event) /\ q # <<>> /\ e \in Event /\ e.kind = "sending"
      /\ toClient \in [Client -> Seq(Message)]
      /\ server' = [server EXCEPT !.queue = Tail(q)] /\ client' = client
      /\ toClient' = [toClient EXCEPT ![e.screen] = Append(@, m)]
  BY TakeEvent DEF HandleSending, SeqInv, TypeOK, ServerState, Write
<1>2. /\ server'.clip = server.clip /\ server'.data = d /\ server'.owner = server.owner
      /\ server'.queue = Tail(q) /\ server'.content = server.content /\ server'.dirty = server.dirty
  BY <1>1 DEF ServerState
<1>3. m \in Message /\ m.kind = "clip" /\ m.value = e.value /\ Writes(m)
  BY <1>1, ClipboardAssumption DEF Message, Msg, Event, SeqNum, Writes
<1>4. PrimaryGrabs(q) => PrimaryGrabs(Tail(q))
  <2>1. ASSUME NEW i \in 1..Len(q), q[i].kind = "grabbed", q[i].screen = Primary
        PROVE  PrimaryGrabs(Tail(q))
    <3> HIDE DEF q
    <3>1. /\ Len(Tail(q)) = Len(q) - 1 /\ Len(q) \in Nat \ {0} /\ Head(q) = q[1]
          /\ \A k \in 1..Len(q) - 1 : Tail(q)[k] = q[k + 1]
      BY <1>1, TailAt
    <3>2. i # 1
      BY <1>1, <2>1, <3>1
    <3>3. i - 1 \in 1..Len(Tail(q)) /\ Tail(q)[i - 1] = q[i]
      BY <3>1, <3>2
    <3> QED BY <2>1, <3>3 DEF PrimaryGrabs
  <2> QED BY <2>1 DEF PrimaryGrabs
<1> HIDE DEF m, q, e, d
<1>5. ASSUME NEW c \in Client, ~server.dirty[c], server.owner # c
      PROVE  CleanClient(c, Tail(q), toClient'[c], client[c], d)
  <2>1. CleanClient(c, q, toClient[c], client[c], d) /\ toClient[c] \in Seq(Message)
    BY <1>1, <1>5 DEF Clean, q, d
  <2>2. /\ LastSent(Tail(q), c, d)
        /\ NoneSent(Tail(q), c) /\ Sending(e, c) => e.value = d
        /\ NoneSent(Tail(q), c) /\ ~Sending(e, c) => NoneSent(q, c)
    BY <1>1, <2>1, SentTail DEF CleanClient, e
  <2>3. CASE e.screen = c
    <3>1. toClient'[c] = Append(toClient[c], m) /\ Sending(e, c)
      BY <1>1, <2>3 DEF Sending
    <3>2. NoneSent(Tail(q), c) => LastWritten(toClient'[c], d)
      BY <1>3, <2>1, <2>2, <3>1, WrittenAppend
    <3>3. ~NoneWritten(toClient'[c])
      BY <1>3, <2>1, <3>1, WrittenAppend
    <3> QED BY <2>2, <3>2, <3>3 DEF CleanClient
  <2>4. CASE e.screen # c
    <3>1. toClient'[c] = toClient[c] /\ ~Sending(e, c)
      BY <1>1, <2>4 DEF Sending
    <3> QED BY <2>1, <2>2, <3>1 DEF CleanClient
  <2> QED BY <2>3, <2>4
<1> QED BY <1>1, <1>2, <1>4, <1>5 DEF Clean, q, d

LEMMA ReceiveCleans ==
  ASSUME SeqInv, Clean(server, toClient, client), NEW c \in Client, Receive(c)
  PROVE  Clean(server', toClient', client')
<1> DEFINE m == Head(toServer[c])
           e == Msg(IF m.kind = "grab" THEN "grabbed" ELSE "changed", c, m.seq, Empty)
           q == server.queue
<1>1. /\ server \in ServerState /\ q \in Seq(Event) /\ toServer[c] \in Seq(Message) /\ toServer[c] # <<>>
      /\ UNCHANGED <<client, toClient>>
      /\ \/ server' = [server EXCEPT !.queue = Append(@, e)]
         \/ server' = [server EXCEPT !.stored[c] = m.value, !.queue = Append(@, e)]
  BY DEF SeqInv, TypeOK, ServerState, Receive
<1>2. m \in Message
  BY <1>1, TailAt
<1>3. e \in Event /\ e.kind # "sending"
  BY <1>2, ClipboardAssumption DEF Event, Message, Msg, Screen, Contents
<1> HIDE DEF m, e
<1>4. /\ server'.clip = server.clip /\ server'.data = server.data /\ server'.owner = server.owner
      /\ server'.queue = Append(q, e) /\ server'.content = server.content /\ server'.dirty = server.dirty
  BY <1>1 DEF ServerState
<1>5. PrimaryGrabs(q) => PrimaryGrabs(Append(q, e))
  BY <1>1, <1>3, SentAppend
<1>6. ASSUME NEW d \in Client, ~server.dirty[d], server.owner # d
      PROVE  CleanClient(d, Append(q, e), toClient[d], client[d], server.data)
  <2>1. CleanClient(d, q, toClient[d], client[d], server.data) /\ ~Sending(e, d)
    BY <1>3, <1>6 DEF Clean, Sending
  <2> QED BY <1>1, <1>3, <2>1, CleanAppend
<1> QED BY <1>1, <1>4, <1>5, <1>6 DEF Clean

(* The cursor's messages write no clipboard.                                 *)
LEMMA CleanWrites ==
  ASSUME NEW sv, NEW out \in [Client -> Seq(Message)], NEW new, NEW cls, Clean(sv, out, cls),
         \A c \in Client : \/ new[c] = out[c]
                           \/ \E m \in Message : ~Writes(m) /\ new[c] = Append(out[c], m)
  PROVE  Clean(sv, new, cls)
<1>1. ASSUME NEW c \in Client, NEW d, CleanClient(c, sv.queue, out[c], cls[c], d)
      PROVE  CleanClient(c, sv.queue, new[c], cls[c], d)
  <2>1. ASSUME NEW m \in Message, ~Writes(m), new[c] = Append(out[c], m)
        PROVE  /\ LastWritten(out[c], d) => LastWritten(new[c], d)
               /\ NoneWritten(new[c]) => NoneWritten(out[c])
    BY <2>1, WrittenAppend
  <2> QED BY <1>1, <2>1 DEF CleanClient
<1> QED BY <1>1 DEF Clean

LEMMA SwitchScreenCleans ==
  ASSUME SeqInv, Clean(server, toClient, client), NEW dst \in Screen, SwitchScreen(dst)
  PROVE  Clean(server', toClient', client')
<1> DEFINE src  == server.active
           n    == server.seqNum + 1
           left == IF src = Primary /\ server.owner = Primary
                   THEN ClipboardChanged(server, Primary, server.clipSeq) ELSE server
           over == [left EXCEPT !.active = dst, !.seqNum = n,
                                !.enterSeq = IF dst = Primary THEN n ELSE @]
           bye  == Msg("leave", src, 0, Empty)
           into == Msg("enter", dst, n, Empty)
           gone == IF src = Primary THEN toClient ELSE Write(toClient, src, bye)
<1>1. /\ server \in ServerState /\ src \in Screen /\ dst # src /\ client' = client /\ n \in SeqNum
      /\ toClient \in [Client -> Seq(Message)] /\ server.clipSeq \in Int
      /\ server' = IF over.clip \in habit.oversize THEN over ELSE SetClipboard(over, dst)
      /\ toClient' = IF dst = Primary THEN gone ELSE Write(gone, dst, into)
  <2>1. /\ server \in ServerState /\ src \in Screen /\ toClient \in [Client -> Seq(Message)]
        /\ server.clipSeq \in Int /\ server.seqNum \in Nat
    BY DEF SeqInv, TypeOK, ServerState, SeqNum
  <2>2. n = NextSeq
    BY DEF NextSeq
  <2>3. n \in SeqNum
    BY <2>1, ClipboardAssumption DEF SwitchScreen, SeqNum
  <2> QED BY <2>1, <2>2, <2>3 DEF SwitchScreen
<1>2. left \in ServerState /\ Clean(left, toClient, client)
  BY <1>1, ClipboardChangedKeeps, ClipboardChangedCleans DEF Screen
<1> HIDE DEF left, src, n
<1>3. /\ over \in ServerState /\ over.clip = left.clip /\ over.data = left.data /\ over.owner = left.owner
      /\ over.queue = left.queue /\ over.content = left.content /\ over.dirty = left.dirty
  BY <1>1, <1>2 DEF ServerState
<1> HIDE DEF over
<1>4. Clean(over, toClient, client)
  BY <1>2, <1>3 DEF Clean
<1>5. Clean(server', toClient, client)
  <2>1. over.clip \notin habit.oversize => over.clip = over.data
    BY <1>4 DEF Clean
  <2> QED BY <1>1, <1>3, <1>4, <2>1, SetClipboardCleans
<1>6. ASSUME NEW c \in Client
      PROVE  \/ toClient'[c] = toClient[c]
             \/ \E m \in Message : ~Writes(m) /\ toClient'[c] = Append(toClient[c], m)
  <2>1. bye \in Message /\ ~Writes(bye) /\ into \in Message /\ ~Writes(into)
    BY <1>1, ClipboardAssumption DEF Message, Msg, SeqNum, Contents, Writes
  <2> HIDE DEF bye, into
  <2>2. c # Primary
    BY ClipboardAssumption
  <2>3. gone[c] = (IF c = src THEN Append(toClient[c], bye) ELSE toClient[c]) /\ DOMAIN gone = Client
    BY <1>1, <2>2 DEF Write
  <2> HIDE DEF gone
  <2>4. toClient'[c] = IF c = dst THEN Append(gone[c], into) ELSE gone[c]
    BY <1>1, <2>2, <2>3 DEF Write
  <2> QED BY <1>1, <2>1, <2>3, <2>4
<1> QED BY <1>1, <1>5, <1>6, CleanWrites

(* The steps of a client, and the user's copies.                             *)
LEMMA CleanMoves ==
  ASSUME Clean(server, toClient, client), NEW c \in Client, UNCHANGED server,
         \A d \in Client \ {c} : client'[d] = client[d] /\ toClient'[d] = toClient[d],
         \A q, d : CleanClient(c, q, toClient[c], client[c], d) =>
                   CleanClient(c, q, toClient'[c], client'[c], d)
  PROVE  Clean(server', toClient', client')
<1>1. ASSUME NEW d \in Client, ~server.dirty[d], server.owner # d
      PROVE  CleanClient(d, server.queue, toClient'[d], client'[d], server.data)
  <2>1. CleanClient(d, server.queue, toClient[d], client[d], server.data)
    BY <1>1 DEF Clean
  <2>2. CASE d = c
    BY <2>1, <2>2
  <2>3. CASE d # c
    BY <2>1, <2>3
  <2> QED BY <2>2, <2>3
<1> QED BY <1>1 DEF Clean

LEMMA ParseMessageCleans ==
  ASSUME SeqInv, Clean(server, toClient, client), NEW c \in Client, ParseMessage(c)
  PROVE  Clean(server', toClient', client')
<1> DEFINE to == toClient[c]
           m  == Head(to)
           cl == client[c]
           nw == Obey(cl, c, m)
           e  == Msg("sending", c, cl.seqNum, cl.content)
<1>1. /\ to \in Seq(Message) /\ to # <<>> /\ cl \in ClientState /\ m \in Message /\ cl.queue \in Seq(Event)
      /\ client \in [Client -> ClientState] /\ toClient \in [Client -> Seq(Message)]
  <2>1. to \in Seq(Message) /\ to # <<>>
    BY DEF SeqInv, TypeOK, ParseMessage
  <2> HIDE DEF to
  <2>2. m \in Message
    BY <2>1, TailAt
  <2> QED BY <2>1, <2>2 DEF SeqInv, TypeOK, ClientState
<1>2. /\ client' = [client EXCEPT ![c] = nw] /\ toClient' = [toClient EXCEPT ![c] = Tail(@)]
      /\ UNCHANGED server
  BY <1>1 DEF ParseMessage
<1> HIDE DEF m, cl
<1>3. /\ m.kind \in {"grab", "clip"} =>
           nw.queue = cl.queue /\ (m.kind = "clip" => nw.content = m.value)
      /\ m.kind \notin {"grab", "clip"} =>
           nw.own = cl.own /\ nw.content = cl.content /\ (Copied(cl) => Copied(nw))
  <2>1. e.kind = "sending"
    BY DEF Msg
  <2> HIDE DEF e
  <2>2. m.kind \in {"grab", "clip"} =>
          nw.queue = cl.queue /\ nw.content = IF m.kind = "clip" THEN m.value ELSE Empty
    BY <1>1, ObeyDoes
  <2>3. m.kind \notin {"grab", "clip"} => nw.own = cl.own /\ nw.content = cl.content
    BY <1>1, ObeyDoes
  <2>4. nw.queue = cl.queue \/ \E x \in Event : nw.queue = Append(cl.queue, x)
    BY <1>1, ObeyKeeps
  <2>5. ASSUME NEW x \in Event, nw.queue = Append(cl.queue, x), Copied(cl) PROVE Copied(nw)
    <3>1. Len(nw.queue) = Len(cl.queue) + 1 /\ Len(cl.queue) \in Nat
          /\ \A i \in 1..Len(cl.queue) : nw.queue[i] = cl.queue[i]
      BY <1>1, <2>5, AppendAt
    <3> QED BY <2>5, <3>1 DEF Copied
  <2>6. Copied(cl) => Copied(nw)
    BY <2>4, <2>5 DEF Copied
  <2> QED BY <2>2, <2>3, <2>6
<1> HIDE DEF nw, to
<1>4. ASSUME NEW q, NEW d, CleanClient(c, q, to, cl, d)
      PROVE  CleanClient(c, q, Tail(to), nw, d)
  <2>1. CASE NoneSent(q, c)
    <3>1. /\ LastWritten(Tail(to), d)
          /\ NoneWritten(Tail(to)) /\ Writes(m) => m.kind = "clip" /\ m.value = d
          /\ NoneWritten(Tail(to)) /\ ~Writes(m) => NoneWritten(to)
      BY <1>1, <1>4, <2>1, WrittenTail DEF CleanClient, m
    <3>2. ASSUME NoneWritten(Tail(to)) PROVE nw.own \/ Copied(nw) \/ nw.content = d
      <4>1. CASE Writes(m)
        BY <1>3, <3>1, <3>2, <4>1
      <4>2. CASE ~Writes(m)
        <5>1. cl.own \/ Copied(cl) \/ cl.content = d
          BY <1>4, <2>1, <3>1, <3>2, <4>2 DEF CleanClient
        <5> QED BY <1>3, <4>2, <5>1 DEF Writes
      <4> QED BY <4>1, <4>2
    <3> QED BY <1>4, <3>1, <3>2 DEF CleanClient
  <2>2. CASE ~NoneSent(q, c)
    BY <1>4, <2>2 DEF CleanClient
  <2> QED BY <2>1, <2>2
<1>5. /\ client'[c] = nw /\ toClient'[c] = Tail(to)
      /\ \A d \in Client \ {c} : client'[d] = client[d] /\ toClient'[d] = toClient[d]
  BY <1>1, <1>2 DEF to
<1>6. \A q, d : CleanClient(c, q, toClient[c], client[c], d) => CleanClient(c, q, toClient'[c], client'[c], d)
  BY <1>4, <1>5 DEF to, cl
<1>7. server' = server
  BY <1>2
<1> HIDE DEF to, cl
<1> QED BY <1>5, <1>6, <1>7, CleanMoves

LEMMA OwnClipboardCleans ==
  ASSUME SeqInv, Clean(server, toClient, client), NEW c \in Client, OwnClipboard(c)
  PROVE  Clean(server', toClient', client')
<1> DEFINE cl  == client[c]
           t   == Tail(cl.queue)
           own == [cl EXCEPT !.queue = t, !.own = TRUE, !.sent = FALSE, !.time = Never]
           nw  == IF own.active THEN own ELSE SendClipboard(own, c)
<1>1. /\ client \in [Client -> ClientState] /\ cl \in ClientState /\ t \in Seq(Event)
      /\ client' = [client EXCEPT ![c] = nw] /\ UNCHANGED <<server, toClient>>
  <2>1. client \in [Client -> ClientState] /\ cl \in ClientState /\ cl.queue # <<>> /\ cl.queue \in Seq(Event)
    BY DEF SeqInv, TypeOK, OwnClipboard, ClientState
  <2>2. t \in Seq(Event)
    <3> HIDE DEF cl
    <3> QED BY <2>1, TailAt
  <2> QED BY <2>1, <2>2 DEF OwnClipboard
<1>2. own \in ClientState /\ own.own
  <2> HIDE DEF cl, t
  <2> QED BY <1>1 DEF ClientState
<1> HIDE DEF own
<1>3. nw.own
  <2>1. SendClipboard(own, c).own = own.own
    BY <1>2, SendClipboardDoes
  <2> QED BY <1>2, <2>1
<1> HIDE DEF nw
<1>4. client'[c] = nw /\ \A d \in Client \ {c} : client'[d] = client[d]
  BY <1>1
<1>5. \A q, d : CleanClient(c, q, toClient[c], client[c], d) => CleanClient(c, q, toClient'[c], client'[c], d)
  BY <1>1, <1>3, <1>4 DEF CleanClient
<1> QED BY <1>1, <1>4, <1>5, CleanMoves

LEMMA SendChunksCleans ==
  ASSUME SeqInv, Clean(server, toClient, client), NEW c \in Client, SendChunks(c)
  PROVE  Clean(server', toClient', client')
<1> DEFINE cl == client[c]
           q  == cl.queue
           t  == Tail(q)
           nw == [cl EXCEPT !.queue = t]
<1>1. /\ client \in [Client -> ClientState] /\ cl \in ClientState /\ q \in Seq(Event) /\ q # <<>>
      /\ Head(q).kind = "sending"
      /\ client' = [client EXCEPT ![c] = nw] /\ UNCHANGED <<server, toClient>>
  <2>1. client \in [Client -> ClientState] /\ cl \in ClientState
    BY DEF SeqInv, TypeOK
  <2> QED BY <2>1 DEF SendChunks, ClientState
<1> HIDE DEF q
<1>2. /\ Len(t) = Len(q) - 1 /\ Len(q) \in Nat \ {0} /\ Head(q) = q[1] /\ t \in Seq(Event)
      /\ \A k \in 1..Len(q) - 1 : t[k] = q[k + 1]
  BY <1>1, TailAt
<1>3. nw.own = cl.own /\ nw.content = cl.content /\ nw.queue = t
  <2> HIDE DEF cl, t
  <2> QED BY <1>1, <1>2 DEF ClientState
<1> HIDE DEF nw
<1>4. Copied(cl) => Copied(nw)
  <2>1. ASSUME NEW i \in 1..Len(q), q[i].kind = "grabbed" PROVE Copied(nw)
    <3>1. i # 1
      BY <1>1, <1>2, <2>1
    <3>2. i - 1 \in 1..Len(t) /\ t[i - 1] = q[i]
      BY <1>2, <3>1
    <3> QED BY <1>3, <2>1, <3>2 DEF Copied
  <2> QED BY <2>1 DEF Copied, q
<1>5. client'[c] = nw /\ \A d \in Client \ {c} : client'[d] = client[d]
  BY <1>1
<1>6. \A r, d : CleanClient(c, r, toClient[c], client[c], d) => CleanClient(c, r, toClient'[c], client'[c], d)
  BY <1>1, <1>3, <1>4, <1>5 DEF CleanClient
<1> QED BY <1>1, <1>5, <1>6, CleanMoves

LEMMA CopyCleans ==
  ASSUME SeqInv, Clean(server, toClient, client), NEW s \in Screen, Copy(s)
  PROVE  Clean(server', toClient', client')
<1>1. UNCHANGED toClient
  BY DEF Copy
<1>2. CASE s = Primary
  <2> DEFINE q == server.queue
             e == Msg("grabbed", s, server.enterSeq, Empty)
             x == copies'
  <2>1. server \in ServerState /\ q \in Seq(Event)
    BY DEF SeqInv, TypeOK, ServerState
  <2>2. e \in Event /\ e.kind = "grabbed" /\ e.screen = Primary
    BY <1>2, <2>1 DEF Event, Msg, Contents, ServerState
  <2>3. server' = [server EXCEPT !.content = x, !.queue = Append(q, e)] /\ UNCHANGED client
    BY <1>2 DEF Copy
  <2> HIDE DEF e, q, x
  <2>4. /\ server'.clip = server.clip /\ server'.data = server.data /\ server'.owner = server.owner
        /\ server'.queue = Append(q, e) /\ server'.dirty = server.dirty
    BY <2>1, <2>3 DEF ServerState
  <2>5. PrimaryGrabs(Append(q, e))
    BY <2>1, <2>2, SentAppend
  <2>6. ASSUME NEW c \in Client, ~server.dirty[c], server.owner # c
        PROVE  CleanClient(c, Append(q, e), toClient[c], client[c], server.data)
    <3>1. CleanClient(c, q, toClient[c], client[c], server.data) /\ ~Sending(e, c)
      BY <2>2, <2>6 DEF Clean, Sending, q
    <3> QED BY <2>1, <2>2, <3>1, CleanAppend
  <2> QED BY <1>1, <2>3, <2>4, <2>5, <2>6 DEF Clean
<1>3. CASE s # Primary
  <2> DEFINE cl == client[s]
             q  == cl.queue
             e  == Msg("grabbed", s, 0, Empty)
             x  == copies'
             r  == Append(q, e)
             nw == [cl EXCEPT !.content = x, !.queue = r]
  <2>1. /\ s \in Client /\ client \in [Client -> ClientState] /\ cl \in ClientState /\ q \in Seq(Event)
        /\ UNCHANGED server
    BY <1>3 DEF SeqInv, TypeOK, ClientState, Screen, Copy
  <2>2. client' = [client EXCEPT ![s] = nw]
    BY <1>3, <2>1 DEF Copy
  <2>3. e.kind = "grabbed" /\ e \in Event
    BY ClipboardAssumption DEF Event, Msg, SeqNum, Contents
  <2> HIDE DEF e, x, q
  <2>4. Len(r) = Len(q) + 1 /\ Len(q) \in Nat /\ r[Len(q) + 1] = e
    BY <2>1, <2>3, AppendAt
  <2> HIDE DEF r
  <2>5. nw.queue = r
    <3> HIDE DEF cl
    <3> QED BY <2>1 DEF ClientState
  <2> HIDE DEF nw
  <2>6. Copied(nw)
    BY <2>3, <2>4, <2>5 DEF Copied
  <2>7. client'[s] = nw /\ \A d \in Client \ {s} : client'[d] = client[d]
    BY <2>1, <2>2
  <2>8. \A w, d : CleanClient(s, w, toClient[s], client[s], d) => CleanClient(s, w, toClient'[s], client'[s], d)
    BY <1>1, <2>6, <2>7 DEF CleanClient
  <2> QED BY <1>1, <2>1, <2>7, <2>8, CleanMoves
<1> QED BY <1>2, <1>3

-----------------------------------------------------------------------------
LEMMA InitCleanInv == Init => CleanInv
<1> SUFFICES ASSUME Init PROVE Clean(server, toClient, client)
  BY InitOwnerInv DEF CleanInv
<1> QED BY ClipboardAssumption DEF Init, Clean, Screen

LEMMA CleanNext ==
  ASSUME OwnerInv, Clean(server, toClient, client), ~habit.background, [Next]_vars
  PROVE  Clean(server, toClient, client)'
<1>1. SeqInv /\ OwnerSends /\ habit' = habit
  BY OwnerInvImplies, HabitKept DEF OwnerInv
<1>2. SUFFICES Clean(server', toClient', client')
  BY <1>1 DEF Clean
<1>3. CASE ServerStep
  BY <1>1, <1>3, HandleGrabbedCleans, HandleChangedCleans, HandleSendingCleans DEF ServerStep
<1>4. ASSUME NEW c \in Client, Receive(c) \/ ClientStep(c)
      PROVE  Clean(server', toClient', client')
  BY <1>1, <1>4, ReceiveCleans, ParseMessageCleans, OwnClipboardCleans, SendChunksCleans DEF ClientStep
<1>5. ASSUME NEW s \in Screen, SwitchScreen(s) \/ Copy(s)
      PROVE  Clean(server', toClient', client')
  BY <1>1, <1>5, SwitchScreenCleans, CopyCleans
<1>6. CASE UNCHANGED vars
  BY <1>6 DEF vars
<1> QED BY <1>3, <1>4, <1>5, <1>6 DEF Next

LEMMA CleanInvNext == CleanInv /\ [Next]_vars => CleanInv'
BY OwnerInvNext, CleanNext, HabitKept DEF CleanInv

LEMMA CleanInvImplies == CleanInv => (~habit.background => CleanIsCurrent)
<1> SUFFICES ASSUME Clean(server, toClient, client), Settled, NEW s \in Screen,
                    ~server.dirty[s], s # server.owner, s = Primary \/ ~client[s].own
             PROVE  Content(s) = server.data
  BY DEF CleanInv, CleanIsCurrent
<1>1. CASE s = Primary
  <2>1. server.content = server.data \/ PrimaryGrabs(server.queue)
    BY <1>1 DEF Clean
  <2> QED BY <1>1, <2>1 DEF Settled, PrimaryGrabs, Content
<1>2. CASE s # Primary
  <2>1. s \in Client /\ ~client[s].own
    BY <1>2 DEF Screen
  <2>2. CleanClient(s, server.queue, toClient[s], client[s], server.data)
    BY <2>1 DEF Clean
  <2>3. NoneSent(server.queue, s) /\ NoneWritten(toClient[s]) /\ ~Copied(client[s])
    BY <2>1 DEF Settled, NoneSent, NoneWritten, Copied
  <2> QED BY <1>2, <2>1, <2>2, <2>3 DEF CleanClient, Content
<1> QED BY <1>1, <1>2

(* For the same users: once nothing is under way, a screen that the server   *)
(* counts as clean shows what the server holds, unless it owns the clipboard *)
(* or believes so; no transfer that is late or crosses a grab leaves old     *)
(* data the next visit would not replace (setClipboard, grabClipboard).      *)
THEOREM CleanScreensCurrent == Spec => [](~habit.background => CleanIsCurrent)
BY InitCleanInv, CleanInvNext, CleanInvImplies, PTL DEF Spec

-----------------------------------------------------------------------------
(* What a patient user finds.  Between two of his acts either the copy's     *)
(* grab is on its way and alone, or the server serves the latest copy: it    *)
(* has it, or its owner keeps it or is sending it.                           *)
HasKind(q, kind) == \E i \in 1..Len(q) : q[i].kind = kind

ServerKeeps(sv) ==
  /\ ~sv.dirty[sv.owner] /\ sv.clip \in {Empty, copies}
  /\ sv.owner = Primary =>
       sv.content = copies /\ (copies \in habit.oversize \/ sv.active = Primary \/ sv.data = copies)
  /\ \A i \in 1..Len(sv.queue) :
       \/ sv.queue[i].kind = "sending" /\ sv.queue[i].screen # sv.owner
       \/ /\ sv.queue[i].kind = "changed" /\ sv.queue[i].screen = sv.owner
          /\ sv.queue[i].seq >= sv.clipSeq /\ GetClipboard(sv, sv.owner) = copies

ServerServes(sv) ==
  ServerKeeps(sv) /\ (sv.data = copies => copies \in habit.oversize \/ ~sv.dirty[sv.active])

OtherServes(cl, to, out) ==
  cl.queue = <<>> /\ out = <<>> /\ (cl.own => to # <<>> /\ Head(to).kind = "grab")

OwnerServes(c, sv, cl, to, out) ==
  /\ cl.own /\ cl.content = copies /\ cl.seqNum >= sv.clipSeq /\ NoneWritten(to)
  /\ cl.sent => cl.time = copies
  /\ \A i \in 1..Len(cl.queue) :
       cl.queue[i].kind = "sending" /\ cl.queue[i].value = copies /\ cl.queue[i].seq >= sv.clipSeq
  /\ \A i \in 1..Len(out) : out[i].kind = "clip" /\ out[i].value = copies /\ out[i].seq >= sv.clipSeq
  /\ copies \notin habit.oversize =>
       IF cl.time = copies
       THEN sv.data = copies \/ cl.queue # <<>> \/ out # <<>> \/ HasKind(sv.queue, "changed")
       ELSE sv.active = c \/ HasKind(to, "leave")

ClientServes(c, sv, cl, to, out) ==
  IF sv.owner = c THEN OwnerServes(c, sv, cl, to, out) ELSE OtherServes(cl, to, out)

Served ==
  /\ ServerServes(server)
  /\ \A c \in Client : ClientServes(c, server, client[c], toClient[c], toServer[c])

(* The grab of a copy on the active screen, and where it is.                 *)
GrabWaits(q, s)  == Len(q) = 1 /\ q[1].kind = "grabbed" /\ q[1].screen = s
ClientGrabs(s, sv, cl, out) ==
  /\ cl.active /\ cl.seqNum = sv.seqNum
  /\ \/ GrabWaits(cl.queue, s) /\ out = <<>> /\ sv.queue = <<>>
     \/ /\ cl.own /\ ~cl.sent /\ cl.time = Never /\ cl.queue = <<>>
        /\ \/ Len(out) = 1 /\ out[1].kind = "grab" /\ out[1].seq = cl.seqNum /\ sv.queue = <<>>
           \/ GrabWaits(sv.queue, s) /\ sv.queue[1].seq = cl.seqNum /\ out = <<>>

Copying(s) ==
  /\ server.active = s /\ Content(s) = copies
  /\ \A c \in Client : toClient[c] = <<>> /\ (c # s => client[c].queue = <<>> /\ toServer[c] = <<>>)
  /\ IF s = Primary THEN GrabWaits(server.queue, s)
     ELSE ClientGrabs(s, server, client[s], toServer[s])

PatientInv ==
  CleanInv /\ (habit.background \/ habit.hasty \/ Served \/ \E s \in Screen : Copying(s))

LEMMA ServedFrom ==
  ASSUME UNCHANGED <<copies, habit>>, ServerServes(server'),
         \A c \in Client : ClientServes(c, server', client'[c], toClient'[c], toServer'[c])
  PROVE  Served'
BY DEF Served, ServerServes, ServerKeeps, ClientServes, OwnerServes, OtherServes, GetClipboard

(* A server that keeps the owner, and forgets no copy it has or is told of.  *)
Serving(sv, nw) ==
  /\ nw \in ServerState /\ nw.owner = sv.owner /\ nw.clipSeq = sv.clipSeq /\ nw.active = sv.active
  /\ sv.data = copies => nw.data = copies
  /\ HasKind(sv.queue, "changed") =>
       HasKind(nw.queue, "changed") \/ nw.data = copies \/ copies \in habit.oversize

LEMMA ServingClient ==
  ASSUME NEW c, NEW sv, NEW nw, Serving(sv, nw), NEW cl, NEW to, NEW out,
         ClientServes(c, sv, cl, to, out)
  PROVE  ClientServes(c, nw, cl, to, out)
<1>1. CASE sv.owner = c
  BY <1>1 DEF Serving, ClientServes, OwnerServes
<1>2. CASE sv.owner # c
  BY <1>2 DEF Serving, ClientServes
<1> QED BY <1>1, <1>2

LEMMA KindAppend ==
  ASSUME NEW S, NEW q \in Seq(S), NEW e \in S, NEW kind
  PROVE  /\ HasKind(q, kind) => HasKind(Append(q, e), kind)
         /\ e.kind = kind => HasKind(Append(q, e), kind)
<1>1. /\ Len(Append(q, e)) = Len(q) + 1 /\ Len(q) \in Nat /\ Append(q, e)[Len(q) + 1] = e
      /\ \A i \in 1..Len(q) : Append(q, e)[i] = q[i]
  BY AppendAt
<1> QED BY <1>1 DEF HasKind

LEMMA KindTail ==
  ASSUME NEW S, NEW q \in Seq(S), q # <<>>, NEW kind, Head(q).kind # kind, HasKind(q, kind)
  PROVE  HasKind(Tail(q), kind)
<1>1. /\ Len(Tail(q)) = Len(q) - 1 /\ Len(q) \in Nat \ {0} /\ Head(q) = q[1]
      /\ \A i \in 1..Len(q) - 1 : Tail(q)[i] = q[i + 1]
  BY TailAt
<1>2. PICK i \in 1..Len(q) : q[i].kind = kind
  BY DEF HasKind
<1>3. i # 1
  BY <1>1, <1>2
<1>4. i - 1 \in 1..Len(Tail(q)) /\ Tail(q)[i - 1] = q[i]
  BY <1>1, <1>3
<1> QED BY <1>2, <1>4 DEF HasKind

LEMMA SetClipboardServes ==
  ASSUME NEW sv \in ServerState, ServerKeeps(sv)
  PROVE  LET nw == SetClipboard(sv, sv.active)
         IN  ServerServes(nw) /\ Serving(sv, nw)
<1> DEFINE s  == sv.active
           nw == SetClipboard(sv, s)
<1>1. s \in Screen /\ nw \in ServerState /\ sv.queue \in Seq(Event) /\ sv.dirty[s] \in BOOLEAN
  BY SetClipboardKeeps DEF ServerState
<1>2. CASE ~sv.dirty[s]
  <2>1. nw = sv
    BY <1>2 DEF SetClipboard
  <2> QED BY <1>2, <2>1 DEF ServerServes, Serving
<1>3. CASE sv.dirty[s] /\ s = Primary
  <2> DEFINE xx == [sv EXCEPT !.dirty[s] = FALSE, !.content = sv.clip]
  <2>1. /\ xx.active = s /\ xx.owner = sv.owner /\ xx.clipSeq = sv.clipSeq /\ xx.clip = sv.clip
        /\ xx.data = sv.data /\ xx.queue = sv.queue /\ xx.stored = sv.stored
        /\ ~xx.dirty[s] /\ sv.owner # Primary
        /\ xx.dirty[sv.owner] = sv.dirty[sv.owner]
    BY <1>3 DEF ServerState, ServerKeeps
  <2>2. nw = xx
    BY <1>3 DEF SetClipboard
  <2> HIDE DEF xx, nw
  <2>3. GetClipboard(nw, nw.owner) = GetClipboard(sv, sv.owner)
    BY <2>1, <2>2 DEF GetClipboard
  <2>4. ServerServes(nw)
    BY <1>3, <2>1, <2>2, <2>3 DEF ServerServes, ServerKeeps
  <2>5. Serving(sv, nw)
    BY <1>1, <2>1, <2>2 DEF Serving
  <2> QED BY <2>4, <2>5 DEF nw
<1>4. CASE sv.dirty[s] /\ s # Primary
  <2> DEFINE e  == Msg("sending", s, 0, sv.clip)
             q  == sv.queue
             xx == [sv EXCEPT !.dirty[s] = FALSE, !.stored[s] = sv.clip, !.queue = Append(@, e)]
  <2>1. e \in Event /\ e.kind = "sending" /\ e.screen = s
    BY ClipboardAssumption DEF ServerState, Event, Msg, SeqNum
  <2> HIDE DEF e
  <2>2. /\ xx.active = s /\ xx.owner = sv.owner /\ xx.clipSeq = sv.clipSeq /\ xx.clip = sv.clip
        /\ xx.data = sv.data /\ xx.content = sv.content
        /\ xx.queue = Append(q, e) /\ ~xx.dirty[s] /\ sv.owner # s
        /\ xx.dirty[sv.owner] = sv.dirty[sv.owner]
        /\ sv.owner # Primary => xx.stored[sv.owner] = sv.stored[sv.owner]
    BY <1>4 DEF ServerState, ServerKeeps, Screen
  <2>3. nw = xx
    BY <1>4 DEF SetClipboard, e
  <2> HIDE DEF xx, nw, q
  <2>4. GetClipboard(nw, nw.owner) = GetClipboard(sv, sv.owner)
    BY <2>2, <2>3 DEF GetClipboard
  <2>5. /\ Len(nw.queue) = Len(q) + 1 /\ Len(q) \in Nat /\ nw.queue[Len(q) + 1] = e
        /\ \A i \in 1..Len(q) : nw.queue[i] = q[i]
    BY <1>1, <2>1, <2>2, <2>3, AppendAt DEF q
  <2>6. ASSUME NEW i \in 1..Len(nw.queue)
        PROVE  \/ nw.queue[i].kind = "sending" /\ nw.queue[i].screen # nw.owner
               \/ /\ nw.queue[i].kind = "changed" /\ nw.queue[i].screen = nw.owner
                  /\ nw.queue[i].seq >= nw.clipSeq /\ GetClipboard(nw, nw.owner) = copies
    <3>1. CASE i = Len(q) + 1
      BY <2>1, <2>2, <2>3, <2>5, <3>1
    <3>2. CASE i # Len(q) + 1
      <4>1. i \in 1..Len(q)
        BY <2>5, <3>2
      <4>2. nw.queue[i] = sv.queue[i] /\ i \in 1..Len(sv.queue)
        BY <2>5, <4>1 DEF q
      <4> QED BY <2>2, <2>3, <2>4, <4>2 DEF ServerKeeps
    <3> QED BY <3>1, <3>2
  <2>7. ServerServes(nw)
    BY <1>4, <2>2, <2>3, <2>6 DEF ServerServes, ServerKeeps
  <2>8. Serving(sv, nw)
    <3>1. HasKind(q, "changed") => HasKind(Append(q, e), "changed")
      BY <1>1, <2>1, KindAppend DEF q
    <3> QED BY <1>1, <2>2, <2>3, <3>1 DEF Serving, q
  <2> QED BY <2>7, <2>8 DEF nw
<1> QED BY <1>1, <1>2, <1>3, <1>4

LEMMA ServingTwice ==
  ASSUME NEW sv, NEW mid, NEW nw, Serving(sv, mid), Serving(mid, nw)
  PROVE  Serving(sv, nw)
BY DEF Serving

(* The owner's latest copy arrives.                                          *)
LEMMA ClipboardChangedServes ==
  ASSUME NEW sv \in ServerState, ServerServes(sv), NEW n, ~(n < sv.clipSeq),
         GetClipboard(sv, sv.owner) = copies
  PROVE  LET nw == ClipboardChanged(sv, sv.owner, n)
         IN  /\ ServerServes(nw) /\ Serving(sv, nw)
             /\ nw.data = copies \/ copies \in habit.oversize
<1> DEFINE s    == sv.owner
           got  == [sv EXCEPT !.clip = copies]
           news == [got EXCEPT !.data = copies, !.dirty = [x \in Screen |-> x # s]]
           nw   == ClipboardChanged(sv, s, n)
<1>1. copies \in Contents /\ s \in Screen /\ sv.active \in Screen
  BY DEF GetClipboard, ServerState, Screen
<1>2. CASE copies \in habit.oversize \/ copies = sv.data
  <2>1. /\ got.active = sv.active /\ got.owner = s /\ got.clipSeq = sv.clipSeq /\ got.clip = copies
        /\ got.data = sv.data /\ got.queue = sv.queue /\ got.stored = sv.stored
        /\ got.content = sv.content /\ got.dirty = sv.dirty /\ got \in ServerState
    BY <1>1 DEF ServerState
  <2>2. nw = got
    BY <1>2 DEF ClipboardChanged
  <2> HIDE DEF got, nw
  <2>3. GetClipboard(nw, s) = GetClipboard(sv, s)
    BY <2>1, <2>2 DEF GetClipboard
  <2>4. ServerServes(nw)
    BY <2>1, <2>2, <2>3 DEF ServerServes, ServerKeeps
  <2>5. Serving(sv, nw)
    BY <2>1, <2>2 DEF Serving
  <2> QED BY <1>2, <2>1, <2>2, <2>4, <2>5 DEF nw
<1>3. CASE ~(copies \in habit.oversize \/ copies = sv.data)
  <2>1. /\ news.active = sv.active /\ news.owner = s /\ news.clipSeq = sv.clipSeq /\ news.clip = copies
        /\ news.data = copies /\ news.queue = sv.queue /\ news.stored = sv.stored
        /\ news.content = sv.content /\ ~news.dirty[s] /\ news \in ServerState
    BY <1>1 DEF ServerState
  <2>2. nw = SetClipboard(news, news.active)
    <3>1. nw = SetClipboard(news, sv.active)
      BY <1>3 DEF ClipboardChanged
    <3> QED BY <2>1, <3>1
  <2> HIDE DEF news, nw
  <2>3. GetClipboard(news, s) = GetClipboard(sv, s)
    BY <2>1 DEF GetClipboard
  <2>4. ServerKeeps(news)
    BY <2>1, <2>3 DEF ServerServes, ServerKeeps
  <2>5. Serving(sv, news)
    BY <2>1 DEF Serving
  <2>6. ServerServes(nw) /\ Serving(news, nw)
    BY <2>1, <2>2, <2>4, SetClipboardServes
  <2>7. Serving(sv, nw) /\ nw.data = copies
    BY <2>1, <2>5, <2>6, ServingTwice DEF Serving
  <2> QED BY <2>6, <2>7 DEF nw
<1> QED BY <1>2, <1>3

(* The next event of a server that serves.                                   *)
LEMMA ServesTaken ==
  ASSUME NEW sv \in ServerState, sv.queue # <<>>, ServerServes(sv)
  PROVE  LET e  == Head(sv.queue)
             nw == [sv EXCEPT !.queue = Tail(@)]
         IN  /\ ServerServes(nw) /\ e.kind # "grabbed"
             /\ e.kind # "changed" => Serving(sv, nw) /\ e.screen # sv.owner
             /\ e.kind = "changed" => /\ e.screen = sv.owner /\ e.seq >= sv.clipSeq
                                      /\ GetClipboard(nw, sv.owner) = copies
             /\ nw \in ServerState /\ nw.owner = sv.owner /\ nw.clipSeq = sv.clipSeq
             /\ nw.active = sv.active /\ nw.data = sv.data
<1> DEFINE q  == sv.queue
           e  == Head(q)
           t  == Tail(q)
           nw == [sv EXCEPT !.queue = t]
<1>1. q \in Seq(Event) /\ q # <<>>
  BY DEF ServerState
<1>2. /\ Len(t) = Len(q) - 1 /\ Len(q) \in Nat \ {0} /\ e = q[1] /\ t \in Seq(Event) /\ 1 \in 1..Len(q)
      /\ \A k \in 1..Len(t) : k + 1 \in 1..Len(q) /\ t[k] = q[k + 1]
  <2> HIDE DEF q
  <2> QED BY <1>1, TailAt
<1>3. /\ nw \in ServerState /\ nw.active = sv.active /\ nw.owner = sv.owner /\ nw.clipSeq = sv.clipSeq
      /\ nw.clip = sv.clip /\ nw.data = sv.data /\ nw.queue = t /\ nw.stored = sv.stored
      /\ nw.content = sv.content /\ nw.dirty = sv.dirty
  <2> HIDE DEF t
  <2> QED BY <1>2 DEF ServerState
<1> HIDE DEF t, e, nw
<1>4. GetClipboard(nw, sv.owner) = GetClipboard(sv, sv.owner)
  BY <1>3 DEF GetClipboard
<1>5. ASSUME NEW i \in 1..Len(q)
      PROVE  \/ q[i].kind = "sending" /\ q[i].screen # sv.owner
             \/ /\ q[i].kind = "changed" /\ q[i].screen = sv.owner
                /\ q[i].seq >= sv.clipSeq /\ GetClipboard(nw, sv.owner) = copies
  BY <1>4 DEF ServerServes, ServerKeeps
<1> HIDE DEF q
<1>6. ServerServes(nw)
  <2>1. ASSUME NEW k \in 1..Len(t)
        PROVE  \/ t[k].kind = "sending" /\ t[k].screen # sv.owner
               \/ /\ t[k].kind = "changed" /\ t[k].screen = sv.owner
                  /\ t[k].seq >= sv.clipSeq /\ GetClipboard(nw, sv.owner) = copies
    <3>1. k + 1 \in 1..Len(q) /\ t[k] = q[k + 1]
      BY <1>2
    <3> QED BY <1>5, <3>1
  <2> QED BY <1>3, <2>1 DEF ServerServes, ServerKeeps
<1>7. e.kind # "changed" => Serving(sv, nw)
  <2>1. e.kind # "changed" /\ HasKind(q, "changed") => HasKind(t, "changed")
    BY <1>1, KindTail DEF t, e
  <2> QED BY <1>3, <2>1 DEF Serving, q
<1> QED BY <1>2, <1>3, <1>5, <1>6, <1>7 DEF nw, t, e, q

(* The steps while the latest copy is served: a message or an event is       *)
(* handled, and the copy stays where it is or comes nearer.                  *)
LEMMA HandleChangedServes ==
  ASSUME SeqInv, Served, HandleChanged
  PROVE  Served'
<1> DEFINE e  == Head(server.queue)
           sv == [server EXCEPT !.queue = Tail(@)]
<1>1. /\ server \in ServerState /\ server.queue # <<>> /\ e.kind = "changed" /\ e.seq \in Nat
      /\ server' = ClipboardChanged(sv, e.screen, e.seq)
      /\ UNCHANGED <<client, toClient, toServer, copies, habit>>
  <2>1. e.seq \in Nat
    BY TakeEvent, SeqNat DEF HandleChanged
  <2> QED BY <2>1 DEF HandleChanged, SeqInv, TypeOK
<1>2. /\ ServerServes(sv) /\ e.screen = sv.owner /\ e.seq >= sv.clipSeq
      /\ GetClipboard(sv, sv.owner) = copies
      /\ sv \in ServerState /\ sv.owner = server.owner /\ sv.clipSeq = server.clipSeq
      /\ sv.active = server.active /\ sv.data = server.data
  BY <1>1, ServesTaken DEF Served
<1> HIDE DEF sv, e
<1>3. ~(e.seq < sv.clipSeq)
  <2>1. sv.clipSeq \in Nat
    BY <1>2, SeqNat DEF ServerState
  <2> QED BY <1>1, <1>2, <2>1
<1>4. /\ ServerServes(server') /\ Serving(sv, server')
      /\ server'.data = copies \/ copies \in habit.oversize
  BY <1>1, <1>2, <1>3, ClipboardChangedServes
<1>5. Serving(server, server')
  BY <1>2, <1>4 DEF Serving
<1>6. ASSUME NEW c \in Client
      PROVE  ClientServes(c, server', client'[c], toClient'[c], toServer'[c])
  BY <1>1, <1>5, ServingClient DEF Served
<1> QED BY <1>1, <1>4, <1>6, ServedFrom

LEMMA HeadAppend ==
  ASSUME NEW S, NEW q \in Seq(S), q # <<>>, NEW e \in S
  PROVE  Append(q, e) # <<>> /\ Head(Append(q, e)) = Head(q)
OBVIOUS

LEMMA HandleSendingServes ==
  ASSUME SeqInv, Served, HandleSending
  PROVE  Served'
<1> DEFINE e  == Head(server.queue)
           sv == [server EXCEPT !.queue = Tail(@)]
           m  == Msg("clip", e.screen, 0, e.value)
<1>1. /\ server \in ServerState /\ server.queue # <<>> /\ e.kind = "sending" /\ e \in Event
      /\ toClient \in [Client -> Seq(Message)]
      /\ server' = sv /\ toClient' = [toClient EXCEPT ![e.screen] = Append(@, m)]
      /\ UNCHANGED <<client, toServer, copies, habit>>
  BY TakeEvent DEF HandleSending, SeqInv, TypeOK, Write
<1>2. ServerServes(server') /\ Serving(server, server') /\ e.screen # server.owner
  BY <1>1, ServesTaken DEF Served
<1>3. m \in Message
  BY <1>1, ClipboardAssumption DEF Message, Msg, Event, SeqNum
<1> HIDE DEF sv, e, m
<1>4. ASSUME NEW c \in Client
      PROVE  ClientServes(c, server', client'[c], toClient'[c], toServer'[c])
  <2>1. ClientServes(c, server', client'[c], toClient[c], toServer'[c])
    BY <1>1, <1>2, ServingClient DEF Served
  <2>2. CASE c = server.owner
    <3>1. toClient'[c] = toClient[c]
      BY <1>1, <1>2, <2>2
    <3> QED BY <2>1, <3>1
  <2>3. CASE c # server.owner
    <3>1. server'.owner # c
      BY <1>2, <2>3 DEF Serving
    <3>2. toClient'[c] = toClient[c] \/ toClient'[c] = Append(toClient[c], m)
      BY <1>1
    <3>3. toClient[c] \in Seq(Message)
      BY <1>1
    <3>4. toClient[c] # <<>> => Append(toClient[c], m) # <<>> /\ Head(Append(toClient[c], m)) = Head(toClient[c])
      BY <1>3, <3>3, HeadAppend
    <3> QED BY <2>1, <3>1, <3>2, <3>4 DEF ClientServes, OtherServes
  <2> QED BY <2>2, <2>3
<1> QED BY <1>1, <1>2, <1>4, ServedFrom

LEMMA ReceiveServes ==
  ASSUME SeqInv, Served, NEW c \in Client, Receive(c)
  PROVE  Served'
<1> DEFINE out == toServer[c]
           m   == Head(out)
           e   == Msg("changed", c, m.seq, Empty)
           q   == server.queue
<1>1. /\ server \in ServerState /\ q \in Seq(Event) /\ out \in Seq(Message) /\ out # <<>>
      /\ toServer \in [Client -> Seq(Message)]
      /\ toServer' = [toServer EXCEPT ![c] = Tail(@)] /\ UNCHANGED <<client, toClient, copies, habit>>
  BY DEF SeqInv, TypeOK, ServerState, Receive
<1>2. server.owner = c /\ OwnerServes(c, server, client[c], toClient[c], out)
  BY <1>1 DEF Served, ClientServes, OtherServes
<1>3. /\ m = out[1] /\ 1 \in 1..Len(out) /\ m \in Message
      /\ \A i \in 1..Len(Tail(out)) : i + 1 \in 1..Len(out) /\ Tail(out)[i] = out[i + 1]
  <2> HIDE DEF out
  <2> QED BY <1>1, TailAt
<1>4. m.kind = "clip" /\ m.value = copies /\ m.seq >= server.clipSeq
  BY <1>2, <1>3 DEF OwnerServes
<1>5. server' = [server EXCEPT !.stored[c] = copies, !.queue = Append(@, e)]
  BY <1>4 DEF Receive
<1>6. e \in Event /\ e.kind = "changed" /\ e.screen = c /\ e.seq = m.seq
  BY <1>3, ClipboardAssumption DEF Event, Message, Msg, Screen, Contents
<1> HIDE DEF m, e, out
<1>7. copies \in Contents /\ c # Primary
  BY <1>3, <1>4, ClipboardAssumption DEF Message
<1>8. /\ server' \in ServerState /\ server'.clip = server.clip /\ server'.data = server.data
      /\ server'.owner = server.owner /\ server'.clipSeq = server.clipSeq /\ server'.active = server.active
      /\ server'.queue = Append(q, e) /\ server'.content = server.content /\ server'.dirty = server.dirty
      /\ server'.stored[c] = copies
  <2>1. Append(q, e) \in Seq(Event)
    BY <1>1, <1>6, AppendKeeps
  <2> QED BY <1>1, <1>5, <1>7, <2>1 DEF ServerState
<1>9. GetClipboard(server', server'.owner) = copies
  BY <1>2, <1>7, <1>8 DEF GetClipboard
<1> HIDE DEF q
<1>10. ServerServes(server')
  <2>1. ASSUME NEW i \in 1..Len(server'.queue)
        PROVE  \/ server'.queue[i].kind = "sending" /\ server'.queue[i].screen # server'.owner
               \/ /\ server'.queue[i].kind = "changed" /\ server'.queue[i].screen = server'.owner
                  /\ server'.queue[i].seq >= server'.clipSeq /\ GetClipboard(server', server'.owner) = copies
    <3>1. /\ Len(server'.queue) = Len(q) + 1 /\ Len(q) \in Nat /\ server'.queue[Len(q) + 1] = e
          /\ \A k \in 1..Len(q) : server'.queue[k] = q[k]
      BY <1>1, <1>6, <1>8, AppendAt
    <3>2. CASE i = Len(q) + 1
      BY <1>2, <1>4, <1>6, <1>8, <1>9, <3>1, <3>2
    <3>3. CASE i # Len(q) + 1
      <4>1. i \in 1..Len(q)
        BY <3>1, <3>3
      <4>2. server'.queue[i] = server.queue[i] /\ i \in 1..Len(server.queue)
        BY <3>1, <4>1 DEF q
      <4>3. \/ server.queue[i].kind = "sending" /\ server.queue[i].screen # server.owner
            \/ /\ server.queue[i].kind = "changed" /\ server.queue[i].screen = server.owner
               /\ server.queue[i].seq >= server.clipSeq
        BY <4>2 DEF Served, ServerServes, ServerKeeps
      <4> QED BY <1>8, <1>9, <4>2, <4>3
    <3> QED BY <3>2, <3>3
  <2>2. /\ ~server.dirty[c] /\ server.clip \in {Empty, copies}
        /\ server.data = copies => copies \in habit.oversize \/ ~server.dirty[server.active]
    BY <1>2 DEF Served, ServerServes, ServerKeeps
  <2>3. copies' = copies /\ habit' = habit
    BY <1>1
  <2> QED BY <1>2, <1>7, <1>8, <2>1, <2>2, <2>3 DEF ServerServes, ServerKeeps
<1>11. HasKind(server'.queue, "changed") /\ Serving(server, server')
  <2>1. HasKind(Append(q, e), "changed")
    BY <1>1, <1>6, KindAppend
  <2> QED BY <1>8, <2>1 DEF Serving
<1>12. ClientServes(c, server', client'[c], toClient'[c], toServer'[c])
  <2>1. toServer'[c] = Tail(out)
    BY <1>1 DEF out
  <2>2. \A i \in 1..Len(Tail(out)) : /\ Tail(out)[i].kind = "clip" /\ Tail(out)[i].value = copies
                                     /\ Tail(out)[i].seq >= server.clipSeq
    BY <1>2, <1>3 DEF OwnerServes
  <2>3. OwnerServes(c, server', client[c], toClient[c], Tail(out))
    BY <1>2, <1>8, <1>11, <2>2 DEF OwnerServes
  <2>4. client'[c] = client[c] /\ toClient'[c] = toClient[c] /\ server'.owner = c
    BY <1>1, <1>2, <1>8
  <2> QED BY <2>1, <2>3, <2>4 DEF ClientServes
<1>13. ASSUME NEW d \in Client \ {c}
       PROVE  ClientServes(d, server', client'[d], toClient'[d], toServer'[d])
  <2>1. ClientServes(d, server, client[d], toClient[d], toServer[d])
    BY DEF Served
  <2>2. toServer'[d] = toServer[d]
    BY <1>1
  <2> QED BY <1>1, <1>11, <2>1, <2>2, ServingClient
<1> QED BY <1>1, <1>10, <1>12, <1>13, ServedFrom

(* A client's step.                                                          *)
LEMMA ClientMovesServes ==
  ASSUME Served, NEW c \in Client, UNCHANGED <<server, copies, habit>>,
         \A d \in Client \ {c} : /\ client'[d] = client[d] /\ toClient'[d] = toClient[d]
                                 /\ toServer'[d] = toServer[d],
         ClientServes(c, server, client'[c], toClient'[c], toServer'[c])
  PROVE  Served'
<1>1. ServerServes(server')
  BY DEF Served
<1>2. ASSUME NEW d \in Client
      PROVE  ClientServes(d, server', client'[d], toClient'[d], toServer'[d])
  <2>1. CASE d = c
    BY <2>1
  <2>2. CASE d # c
    BY <2>2 DEF Served
  <2> QED BY <2>1, <2>2
<1> QED BY <1>1, <1>2, ServedFrom

LEMMA ParseMessageServes ==
  ASSUME OwnerInv, ~habit.background, Served, NEW c \in Client, ParseMessage(c)
  PROVE  Served'
<1> DEFINE to == toClient[c]
           t  == Tail(to)
           m  == Head(to)
           cl == client[c]
           nw == Obey(cl, c, m)
           out == toServer[c]
           e  == Msg("sending", c, cl.seqNum, cl.content)
<1>1. /\ to \in Seq(Message) /\ to # <<>> /\ cl \in ClientState /\ cl.queue \in Seq(Event)
      /\ cl.seqNum \in Nat /\ server.clipSeq \in Nat /\ server.seqNum \in Nat
      /\ Under(to, server.seqNum + 1)
      /\ client \in [Client -> ClientState] /\ toClient \in [Client -> Seq(Message)]
  <2>1. SeqInv
    BY DEF OwnerInv
  <2> QED BY <2>1, ClientFacts DEF SeqInv, TypeOK, ParseMessage, ServerState, SeqNum
<1>2. /\ client'[c] = nw /\ toClient'[c] = t /\ UNCHANGED <<server, toServer, copies, habit>>
      /\ \A d \in Client \ {c} : client'[d] = client[d] /\ toClient'[d] = toClient[d]
  BY <1>1 DEF ParseMessage
<1>3. PICK v \in Visits : CursorClient(c, cl, to, server.active, server.seqNum)
  BY DEF OwnerInv, Ordered, Agreed, ClientInv
<1>4. m.kind = "enter" => m.seq > cl.seqNum
  <2> DEFINE x == [active |-> IF m.kind = "enter" THEN TRUE ELSE IF m.kind = "leave" THEN FALSE ELSE cl.active,
                   seqNum |-> IF m.kind = "enter" THEN m.seq ELSE cl.seqNum]
  <2>1. /\ x.active = IF m.kind = "enter" THEN TRUE ELSE IF m.kind = "leave" THEN FALSE ELSE cl.active
        /\ x.seqNum = IF m.kind = "enter" THEN m.seq ELSE cl.seqNum
    OBVIOUS
  <2> HIDE DEF x, to, cl
  <2> QED BY <1>1, <1>3, <2>1, CursorTaken
<1> HIDE DEF t, m, nw, cl, out
<1>5. /\ Len(t) = Len(to) - 1 /\ Len(to) \in Nat \ {0} /\ m = to[1] /\ 1 \in 1..Len(to)
      /\ m \in Message /\ \A i \in 1..Len(t) : i + 1 \in 1..Len(to) /\ t[i] = to[i + 1]
  <2> HIDE DEF to
  <2> QED BY <1>1, TailAt DEF t, m
<1>6. m.kind \in {"enter", "leave", "grab", "clip"} /\ m.seq \in Nat
  BY <1>5, SeqNat DEF Message
<1>7. /\ m.kind \in {"grab", "clip"} => ~nw.own /\ nw.queue = cl.queue
      /\ m.kind \notin {"grab", "clip"} => nw.own = cl.own /\ nw.content = cl.content
      /\ m.kind = "enter" \/ (m.kind = "leave" /\ ~cl.own) =>
           nw.queue = cl.queue /\ nw.time = cl.time /\ nw.sent = cl.sent
      /\ m.kind = "leave" /\ cl.own =>
           /\ cl.time = cl.content \/ cl.content \in habit.oversize =>
                nw.queue = cl.queue /\ nw.time = cl.time /\ nw.sent = cl.sent
           /\ cl.time # cl.content /\ cl.content \notin habit.oversize /\ ~cl.sent =>
                nw.queue = Append(cl.queue, e) /\ nw.time = cl.content
      /\ nw.seqNum = IF m.kind = "enter" THEN m.seq ELSE cl.seqNum
      /\ e \in Event
  <2>1. cl \in ClientState /\ m \in Message /\ c \in Client
    BY <1>1, <1>5
  <2>2. /\ m.kind \in {"grab", "clip"} => ~nw.own /\ nw.queue = cl.queue
        /\ m.kind \notin {"grab", "clip"} => nw.own = cl.own /\ nw.content = cl.content
    BY <2>1, ObeyDoes DEF nw
  <2>3. m.kind = "enter" \/ (m.kind = "leave" /\ ~cl.own) =>
          nw.queue = cl.queue /\ nw.time = cl.time /\ nw.sent = cl.sent
    BY <2>1, ObeyDoes DEF nw
  <2>4. m.kind = "leave" /\ cl.own =>
           /\ cl.time = cl.content \/ cl.content \in habit.oversize =>
                nw.queue = cl.queue /\ nw.time = cl.time /\ nw.sent = cl.sent
           /\ cl.time # cl.content /\ cl.content \notin habit.oversize /\ ~cl.sent =>
                nw.queue = Append(cl.queue, e) /\ nw.time = cl.content
    <3>1. m.kind = "leave" /\ cl.own =>
             /\ nw.time = nw.content \/ nw.content \in habit.oversize
             /\ \/ nw.queue = cl.queue
                \/ /\ nw.queue = Append(cl.queue, e) /\ nw.sent
                   /\ cl.time # cl.content /\ cl.content \notin habit.oversize
             /\ cl.time = cl.content \/ cl.content \in habit.oversize =>
                  nw.queue = cl.queue /\ nw.time = cl.time /\ nw.sent = cl.sent
             /\ cl.time # cl.content /\ cl.content \notin habit.oversize /\ ~cl.sent =>
                  nw.queue = Append(cl.queue, e) /\ nw.time = cl.content
      BY <2>1, ObeyDoes, Zenon DEF nw
    <3> QED BY <3>1
  <2>5. e \in Event /\ nw.seqNum = IF m.kind = "enter" THEN m.seq ELSE cl.seqNum
    BY <2>1, ObeyDoes, Zenon DEF nw
  <2> QED BY <2>2, <2>3, <2>4, <2>5
<1>8. ASSUME server.owner # c PROVE OtherServes(nw, t, out)
  <2>1. cl.queue = <<>> /\ out = <<>> /\ (cl.own => m.kind = "grab")
    BY <1>8 DEF Served, ClientServes, OtherServes, cl, m, out
  <2>2. CASE m.kind \in {"grab", "clip"}
    <3>1. ~nw.own /\ nw.queue = cl.queue
      BY <1>7, <2>2
    <3> QED BY <2>1, <3>1 DEF OtherServes
  <2>3. CASE m.kind \in {"enter", "leave"}
    <3>1. nw.own = cl.own /\ ~cl.own
      BY <1>7, <2>1, <2>3
    <3>2. nw.queue = cl.queue
      BY <1>7, <2>3, <3>1
    <3> QED BY <2>1, <3>1, <3>2 DEF OtherServes
  <2> QED BY <1>6, <2>2, <2>3
<1>9. ASSUME server.owner = c PROVE OwnerServes(c, server, nw, t, out)
  <2>1. OwnerServes(c, server, cl, to, out)
    BY <1>9 DEF Served, ClientServes, cl, out
  <2>2. /\ cl.own /\ cl.content = copies /\ cl.seqNum >= server.clipSeq
        /\ cl.sent => cl.time = copies
        /\ m.kind \in {"enter", "leave"} /\ NoneWritten(t)
    BY <1>5, <1>6, <2>1 DEF OwnerServes, NoneWritten, Writes
  <2>3. nw.own /\ nw.content = copies
    BY <1>7, <2>2
  <2>4. m.kind # "leave" /\ HasKind(to, "leave") => HasKind(t, "leave")
    BY <1>1, KindTail DEF t, m
  <2>5. CASE m.kind = "enter"
    <3>1. /\ nw.queue = cl.queue /\ nw.time = cl.time /\ nw.sent = cl.sent /\ nw.seqNum = m.seq
      BY <1>7, <2>5
    <3>2. nw.seqNum >= server.clipSeq
      BY <1>1, <1>4, <1>6, <2>2, <2>5, <3>1
    <3> QED BY <2>1, <2>2, <2>3, <2>4, <2>5, <3>1, <3>2 DEF OwnerServes
  <2>6. CASE m.kind = "leave" /\ (cl.time = cl.content \/ cl.content \in habit.oversize)
    <3>1. /\ nw.queue = cl.queue /\ nw.time = cl.time /\ nw.sent = cl.sent /\ nw.seqNum = cl.seqNum
      BY <1>7, <2>2, <2>6
    <3> QED BY <2>1, <2>2, <2>3, <2>6, <3>1 DEF OwnerServes
  <2>7. CASE m.kind = "leave" /\ ~(cl.time = cl.content \/ cl.content \in habit.oversize)
    <3>1. /\ nw.queue = Append(cl.queue, e) /\ nw.time = copies /\ nw.seqNum = cl.seqNum /\ e \in Event
      BY <1>7, <2>2, <2>7
    <3>2. e.kind = "sending" /\ e.value = copies /\ e.seq = cl.seqNum
      BY <2>2 DEF Msg
    <3> HIDE DEF e
    <3>3. /\ Len(nw.queue) = Len(cl.queue) + 1 /\ Len(cl.queue) \in Nat /\ nw.queue[Len(cl.queue) + 1] = e
          /\ \A i \in 1..Len(cl.queue) : nw.queue[i] = cl.queue[i]
      BY <1>1, <3>1, AppendAt
    <3>4. nw.queue # <<>>
      BY <3>3
    <3>5. \A i \in 1..Len(cl.queue) : /\ cl.queue[i].kind = "sending" /\ cl.queue[i].value = copies
                                      /\ cl.queue[i].seq >= server.clipSeq
      BY <2>1 DEF OwnerServes
    <3>6. \A i \in 1..Len(nw.queue) : /\ nw.queue[i].kind = "sending" /\ nw.queue[i].value = copies
                                      /\ nw.queue[i].seq >= server.clipSeq
      BY <2>2, <3>2, <3>3, <3>5
    <3>7. \A i \in 1..Len(out) : out[i].kind = "clip" /\ out[i].value = copies /\ out[i].seq >= server.clipSeq
      BY <2>1 DEF OwnerServes
    <3> QED BY <2>2, <2>3, <3>1, <3>4, <3>6, <3>7 DEF OwnerServes
  <2> QED BY <2>2, <2>5, <2>6, <2>7
<1>10. ClientServes(c, server, client'[c], toClient'[c], toServer'[c])
  BY <1>2, <1>8, <1>9 DEF ClientServes, out
<1> QED BY <1>2, <1>10, ClientMovesServes

LEMMA SendChunksServes ==
  ASSUME SeqInv, Served, NEW c \in Client, SendChunks(c)
  PROVE  Served'
<1> DEFINE cl  == client[c]
           q   == cl.queue
           t   == Tail(q)
           h   == Head(q)
           out == toServer[c]
           m   == Msg("clip", c, h.seq, h.value)
           r   == Append(out, m)
           nw  == [cl EXCEPT !.queue = t]
<1>1. /\ client \in [Client -> ClientState] /\ cl \in ClientState /\ q \in Seq(Event) /\ q # <<>>
      /\ out \in Seq(Message) /\ toServer \in [Client -> Seq(Message)]
      /\ client' = [client EXCEPT ![c] = nw] /\ toServer' = [toServer EXCEPT ![c] = r]
      /\ UNCHANGED <<server, toClient, copies, habit>>
  BY DEF SeqInv, TypeOK, SendChunks, Write, ClientState
<1>2. server.owner = c /\ OwnerServes(c, server, cl, toClient[c], out)
  BY <1>1 DEF Served, ClientServes, OtherServes
<1> HIDE DEF q, t, h
<1>3. /\ Len(t) = Len(q) - 1 /\ Len(q) \in Nat \ {0} /\ h = q[1] /\ 1 \in 1..Len(q) /\ h \in Event
      /\ t \in Seq(Event) /\ \A i \in 1..Len(t) : i + 1 \in 1..Len(q) /\ t[i] = q[i + 1]
  BY <1>1, TailAt DEF t, h
<1>4. \A i \in 1..Len(q) : q[i].kind = "sending" /\ q[i].value = copies /\ q[i].seq >= server.clipSeq
  BY <1>2 DEF OwnerServes, q
<1>5. /\ m \in Message /\ m.kind = "clip" /\ m.value = copies /\ m.seq >= server.clipSeq
  BY <1>3, <1>4 DEF Message, Event, Msg, Screen
<1> HIDE DEF m, out, r
<1>6. /\ Len(r) = Len(out) + 1 /\ Len(out) \in Nat /\ r[Len(out) + 1] = m
      /\ \A i \in 1..Len(out) : r[i] = out[i]
  BY <1>1, <1>5, AppendAt DEF r
<1>7. /\ nw.active = cl.active /\ nw.seqNum = cl.seqNum /\ nw.own = cl.own /\ nw.sent = cl.sent
      /\ nw.time = cl.time /\ nw.content = cl.content /\ nw.queue = t
  <2> HIDE DEF cl
  <2> QED BY <1>1 DEF ClientState
<1> HIDE DEF nw
<1>8. /\ \A i \in 1..Len(t) : t[i].kind = "sending" /\ t[i].value = copies /\ t[i].seq >= server.clipSeq
      /\ \A i \in 1..Len(r) : r[i].kind = "clip" /\ r[i].value = copies /\ r[i].seq >= server.clipSeq
      /\ r # <<>>
  <2>1. \A i \in 1..Len(out) : out[i].kind = "clip" /\ out[i].value = copies /\ out[i].seq >= server.clipSeq
    BY <1>2 DEF OwnerServes
  <2>2. r # <<>>
    BY <1>6
  <2>3. \A i \in 1..Len(t) : t[i].kind = "sending" /\ t[i].value = copies /\ t[i].seq >= server.clipSeq
    BY <1>3, <1>4
  <2>4. \A i \in 1..Len(r) : r[i].kind = "clip" /\ r[i].value = copies /\ r[i].seq >= server.clipSeq
    BY <1>5, <1>6, <2>1
  <2> QED BY <2>2, <2>3, <2>4
<1>9. OwnerServes(c, server, nw, toClient[c], r)
  BY <1>2, <1>7, <1>8 DEF OwnerServes
<1>10. /\ client'[c] = nw /\ toServer'[c] = r /\ toClient' = toClient
       /\ \A d \in Client \ {c} : client'[d] = client[d] /\ toServer'[d] = toServer[d]
  BY <1>1
<1>11. ClientServes(c, server, client'[c], toClient'[c], toServer'[c])
  BY <1>2, <1>9, <1>10 DEF ClientServes
<1> QED BY <1>1, <1>10, <1>11, ClientMovesServes

(* The cursor moves when nothing is under way: the screen it comes to is     *)
(* sent what the server has, and the owner it leaves is told to send.        *)
LEMMA SwitchScreenServes ==
  ASSUME SeqInv, Served, ~habit.hasty, NEW dst \in Screen, SwitchScreen(dst)
  PROVE  Served'
<1> DEFINE src  == server.active
           n    == server.seqNum + 1
           left == IF src = Primary /\ server.owner = Primary
                   THEN ClipboardChanged(server, Primary, server.clipSeq) ELSE server
           over == [left EXCEPT !.active = dst, !.seqNum = n,
                                !.enterSeq = IF dst = Primary THEN n ELSE @]
           bye  == Msg("leave", src, 0, Empty)
           into == Msg("enter", dst, n, Empty)
           gone == IF src = Primary THEN toClient ELSE Write(toClient, src, bye)
<1>1. /\ server \in ServerState /\ src \in Screen /\ dst # src /\ n \in SeqNum /\ Settled
      /\ toClient \in [Client -> Seq(Message)] /\ server.clipSeq \in Int
      /\ server' = IF over.clip \in habit.oversize THEN over ELSE SetClipboard(over, dst)
      /\ toClient' = IF dst = Primary THEN gone ELSE Write(gone, dst, into)
      /\ UNCHANGED <<client, toServer, copies, habit>>
  <2>1. /\ server \in ServerState /\ src \in Screen /\ toClient \in [Client -> Seq(Message)]
        /\ server.clipSeq \in Int /\ server.seqNum \in Nat
    BY DEF SeqInv, TypeOK, ServerState, SeqNum
  <2>2. n = NextSeq
    BY DEF NextSeq
  <2>3. n \in SeqNum
    BY <2>1, ClipboardAssumption DEF SwitchScreen, SeqNum
  <2> QED BY <2>1, <2>2, <2>3 DEF SwitchScreen
<1>2. ServerServes(server)
  BY DEF Served
<1>3. /\ left \in ServerState /\ ServerServes(left) /\ Serving(server, left)
      /\ src = Primary /\ server.owner = Primary => left.data = copies \/ copies \in habit.oversize
  <2>1. CASE src = Primary /\ server.owner = Primary
    <3>1. GetClipboard(server, server.owner) = copies
      BY <1>2, <2>1 DEF GetClipboard, ServerServes, ServerKeeps
    <3>2. ~(server.clipSeq < server.clipSeq)
      BY <1>1
    <3>3. left = ClipboardChanged(server, server.owner, server.clipSeq)
      BY <2>1
    <3> HIDE DEF left
    <3> QED BY <1>1, <1>2, <3>1, <3>2, <3>3, ClipboardChangedServes DEF Serving
  <2>2. CASE ~(src = Primary /\ server.owner = Primary)
    <3>1. left = server
      BY <2>2
    <3> HIDE DEF left
    <3> QED BY <1>1, <1>2, <2>2, <3>1 DEF Serving
  <2> QED BY <2>1, <2>2
<1> HIDE DEF left, n
<1>4. /\ over \in ServerState /\ over.clip = left.clip /\ over.data = left.data /\ over.owner = left.owner
      /\ over.queue = left.queue /\ over.content = left.content /\ over.dirty = left.dirty
      /\ over.stored = left.stored /\ over.clipSeq = left.clipSeq /\ over.active = dst
  BY <1>1, <1>3 DEF ServerState
<1> HIDE DEF over
<1>5. ServerKeeps(over)
  <2>1. GetClipboard(over, over.owner) = GetClipboard(left, left.owner)
    BY <1>4 DEF GetClipboard
  <2>2. over.owner = Primary =>
          over.content = copies /\ (copies \in habit.oversize \/ over.active = Primary \/ over.data = copies)
    BY <1>3, <1>4 DEF ServerServes, ServerKeeps, Serving
  <2> QED BY <1>3, <1>4, <2>1, <2>2 DEF ServerServes, ServerKeeps
<1>6. ServerServes(server') /\ Serving(over, server')
  <2>1. CASE over.clip \in habit.oversize
    <3>1. over.clip = copies
      <4>1. habit.oversize \subseteq Copies
        BY ClipboardAssumption DEF SeqInv, TypeOK
      <4>2. Empty \notin Copies
        BY ClipboardAssumption DEF Copies, Empty
      <4> QED BY <1>5, <2>1, <4>1, <4>2 DEF ServerKeeps
    <3>2. server' = over
      BY <1>1, <2>1
    <3> QED BY <1>4, <1>5, <2>1, <3>1, <3>2 DEF ServerServes, Serving
  <2>2. CASE ~(over.clip \in habit.oversize)
    <3>1. server' = SetClipboard(over, over.active)
      BY <1>1, <1>4, <2>2
    <3> QED BY <1>4, <1>5, <3>1, SetClipboardServes
  <2> QED BY <2>1, <2>2
<1>7. /\ server'.owner = server.owner /\ server'.clipSeq = server.clipSeq
      /\ server.data = copies => server'.data = copies
  BY <1>3, <1>4, <1>6 DEF Serving
<1> HIDE DEF src
<1>8. ASSUME NEW c \in Client
      PROVE  /\ toClient'[c] \in Seq(Message) /\ NoneWritten(toClient'[c])
             /\ c = src => HasKind(toClient'[c], "leave")
  <2>1. /\ bye \in Message /\ ~Writes(bye) /\ into \in Message /\ ~Writes(into) /\ bye.kind = "leave"
    BY <1>1, ClipboardAssumption DEF Message, Msg, SeqNum, Contents, Writes
  <2> HIDE DEF bye, into
  <2>2. c # Primary /\ toClient[c] = <<>>
    BY <1>1, ClipboardAssumption DEF Settled
  <2>3. gone[c] = (IF c = src THEN <<bye>> ELSE <<>>) /\ DOMAIN gone = Client
    <3>1. Append(<<>>, bye) = <<bye>>
      BY <2>1
    <3> QED BY <1>1, <2>2, <3>1 DEF Write
  <2> HIDE DEF gone
  <2>4. toClient'[c] = IF c = dst THEN Append(gone[c], into) ELSE gone[c]
    BY <1>1, <2>2, <2>3 DEF Write
  <2>5. CASE c = src
    <3>1. toClient'[c] = <<bye>>
      BY <1>1, <2>3, <2>4, <2>5
    <3> QED BY <2>1, <2>5, <3>1 DEF NoneWritten, HasKind
  <2>6. CASE c = dst
    <3>1. c # src /\ toClient'[c] = <<into>>
      BY <1>1, <2>1, <2>3, <2>4, <2>6
    <3> QED BY <2>1, <3>1 DEF NoneWritten
  <2>7. CASE c # src /\ c # dst
    <3>1. toClient'[c] = <<>>
      BY <2>3, <2>4, <2>7
    <3> QED BY <2>7, <3>1 DEF NoneWritten
  <2> QED BY <2>5, <2>6, <2>7
<1>9. ASSUME NEW c \in Client
      PROVE  ClientServes(c, server', client'[c], toClient'[c], toServer'[c])
  <2>1. /\ client[c].queue = <<>> /\ toClient[c] = <<>> /\ toServer[c] = <<>> /\ server.queue = <<>>
    BY <1>1 DEF Settled
  <2>2. ClientServes(c, server, client[c], <<>>, <<>>)
    BY <2>1 DEF Served
  <2>3. CASE server.owner = c
    <3>1. /\ client[c].own /\ client[c].content = copies /\ client[c].seqNum >= server.clipSeq
          /\ client[c].sent => client[c].time = copies
          /\ copies \notin habit.oversize =>
               IF client[c].time = copies THEN server.data = copies ELSE server.active = c
      BY <2>1, <2>2, <2>3 DEF ClientServes, OwnerServes, HasKind
    <3>2. OwnerServes(c, server', client[c], toClient'[c], <<>>)
      BY <1>7, <1>8, <2>1, <3>1 DEF OwnerServes, src
    <3> QED BY <1>1, <1>7, <2>1, <2>3, <3>2 DEF ClientServes
  <2>4. CASE server.owner # c
    <3>1. ~client[c].own
      BY <2>2, <2>4 DEF ClientServes, OtherServes
    <3> QED BY <1>1, <1>7, <2>1, <2>4, <3>1 DEF ClientServes, OtherServes
  <2> QED BY <2>3, <2>4
<1> QED BY <1>1, <1>6, <1>9, ServedFrom

(* A copy, and the way of its grab.                                          *)
LEMMA OneElement ==
  /\ \A e : Len(<<e>>) = 1 /\ <<e>>[1] = e /\ <<e>> # <<>> /\ Append(<<>>, e) = <<e>>
  /\ \A S : \A q \in Seq(S) : Len(q) = 1 => Head(q) = q[1] /\ Tail(q) = <<>>
<1>1. ASSUME NEW S, NEW q \in Seq(S), Len(q) = 1 PROVE Head(q) = q[1] /\ Tail(q) = <<>>
  <2>1. q # <<>>
    BY <1>1
  <2>2. Tail(q) \in Seq(S) /\ Len(Tail(q)) = 0 /\ Head(q) = q[1]
    BY <1>1, <2>1, TailAt
  <2>3. \A t \in Seq(S) : Len(t) = 0 => t = <<>>
    OBVIOUS
  <2> QED BY <2>2, <2>3
<1> QED BY <1>1

LEMMA CopyGrabs ==
  ASSUME OwnerInv, ~habit.background, ~habit.hasty, NEW s \in Screen, Copy(s)
  PROVE  Copying(s)'
<1>1. /\ SeqInv /\ Settled /\ toClient' = toClient /\ toServer' = toServer
      /\ server \in ServerState /\ client \in [Client -> ClientState]
  BY DEF Copy, OwnerInv, SeqInv, TypeOK
<1>2. CASE s = Primary
  <2> DEFINE e == Msg("grabbed", s, server.enterSeq, Empty)
             x == copies'
  <2>1. /\ server.active = Primary /\ client' = client
        /\ server' = [server EXCEPT !.content = x, !.queue = Append(@, e)]
    BY <1>2 DEF Copy
  <2>2. e.kind = "grabbed" /\ e.screen = s /\ server.queue = <<>>
    BY <1>1 DEF Msg, Settled
  <2> HIDE DEF e, x
  <2>3. server'.active = s /\ server'.content = x /\ server'.queue = <<e>>
    <3>1. Append(server.queue, e) = <<e>>
      BY <2>2
    <3> QED BY <1>1, <1>2, <2>1, <3>1 DEF ServerState
  <2>4. GrabWaits(server'.queue, s)
    BY <2>2, <2>3 DEF GrabWaits
  <2> QED BY <1>1, <1>2, <2>1, <2>3, <2>4 DEF Copying, Content, Settled, x
<1>3. CASE s # Primary
  <2> DEFINE e  == Msg("grabbed", s, 0, Empty)
             x  == copies'
             cl == client[s]
             nw == [cl EXCEPT !.content = x, !.queue = Append(@, e)]
  <2>1. /\ s \in Client /\ cl.active /\ server' = server /\ cl \in ClientState
        /\ client' = [client EXCEPT ![s] = nw]
    BY <1>1, <1>3 DEF Copy, Screen
  <2>2. /\ e.kind = "grabbed" /\ e.screen = s /\ cl.queue = <<>> /\ toClient[s] = <<>> /\ toServer[s] = <<>>
        /\ server.queue = <<>>
    BY <1>1, <2>1 DEF Msg, Settled
  <2>3. server.active = s /\ cl.seqNum = server.seqNum
    <3>1. CursorClient(s, cl, <<>>, server.active, server.seqNum)
      BY <2>1, <2>2 DEF OwnerInv, Ordered, Agreed, ClientInv
    <3>2. Out(<<>>, cl.active, 1) => ~cl.active
      BY DEF Out
    <3>3. /\ server.active # s => Out(<<>>, cl.active, Len(<<>>) + 1)
          /\ server.active = s =>
               \/ cl.seqNum = server.seqNum
               \/ \E i \in 1..Len(<<>>) : <<>>[i].kind = "enter" /\ <<>>[i].seq = server.seqNum
      BY <3>1 DEF CursorClient
    <3> HIDE DEF cl
    <3>4. Len(<<>>) = 0 /\ 1..0 = {} /\ 0 + 1 = 1
      OBVIOUS
    <3> QED BY <2>1, <3>2, <3>3, <3>4
  <2> HIDE DEF e, x, cl
  <2>4. /\ nw.active = cl.active /\ nw.seqNum = cl.seqNum /\ nw.content = x /\ nw.queue = <<e>>
    <3>1. Append(cl.queue, e) = <<e>>
      BY <2>2
    <3> QED BY <2>1, <3>1 DEF ClientState
  <2> HIDE DEF nw
  <2>5. client'[s] = nw /\ \A c \in Client \ {s} : client'[c] = client[c]
    BY <1>1, <2>1
  <2>6. ClientGrabs(s, server', client'[s], toServer'[s])
    <3>1. GrabWaits(client'[s].queue, s)
      BY <2>2, <2>4, <2>5, OneElement DEF GrabWaits
    <3>2. client'[s].active /\ client'[s].seqNum = server'.seqNum /\ toServer'[s] = <<>> /\ server'.queue = <<>>
      BY <1>1, <2>1, <2>2, <2>3, <2>4, <2>5
    <3> QED BY <3>1, <3>2 DEF ClientGrabs
  <2>7. \A c \in Client : /\ toClient'[c] = <<>>
                          /\ c # s => client'[c].queue = <<>> /\ toServer'[c] = <<>>
    BY <1>1, <2>5 DEF Settled
  <2> QED BY <1>3, <2>1, <2>3, <2>4, <2>5, <2>6, <2>7 DEF Copying, Content, x
<1> QED BY <1>2, <1>3

LEMMA CopyingUnsettled == ASSUME NEW s \in Screen, Copying(s) PROVE ~Settled
<1>1. CASE s = Primary
  BY <1>1 DEF Copying, Settled, GrabWaits
<1>2. CASE s # Primary
  BY <1>2 DEF Copying, Settled, ClientGrabs, GrabWaits, Screen
<1> QED BY <1>1, <1>2

LEMMA OwnClipboardCopying ==
  ASSUME SeqInv, NEW s \in Screen, Copying(s), NEW c \in Client, OwnClipboard(c)
  PROVE  Copying(s)'
<1> DEFINE cl == client[c]
           q  == cl.queue
           t  == Tail(q)
           nw == [cl EXCEPT !.queue = t, !.own = TRUE, !.sent = FALSE, !.time = Never]
           m  == Msg("grab", c, cl.seqNum, Empty)
           out == toServer[c]
<1>1. /\ client \in [Client -> ClientState] /\ cl \in ClientState /\ q # <<>> /\ q \in Seq(Event)
      /\ toServer \in [Client -> Seq(Message)]
      /\ UNCHANGED <<server, toClient, copies, habit>>
  BY DEF SeqInv, TypeOK, OwnClipboard, ClientState
<1>2. c = s /\ s # Primary
  BY <1>1, ClipboardAssumption DEF Copying
<1>3. /\ cl.active /\ cl.seqNum = server.seqNum /\ Len(q) = 1 /\ out = <<>> /\ server.queue = <<>>
  BY <1>1, <1>2 DEF Copying, ClientGrabs, GrabWaits
<1>4. t = <<>>
  BY <1>1, <1>3, OneElement
<1>5. /\ nw.active = cl.active /\ nw.own /\ nw.sent = FALSE /\ nw.time = Never /\ nw.queue = t
      /\ nw.seqNum = cl.seqNum /\ nw.content = cl.content
  <2> HIDE DEF cl, t
  <2> QED BY <1>1 DEF ClientState
<1>6. client' = [client EXCEPT ![c] = nw] /\ toServer' = [toServer EXCEPT ![c] = Append(@, m)]
  BY <1>3, <1>5 DEF OwnClipboard, Write
<1>7. m.kind = "grab" /\ m.seq = cl.seqNum
  BY DEF Msg
<1> HIDE DEF m, nw
<1>8. toServer'[c] = <<m>> /\ client'[c] = nw
      /\ \A d \in Client \ {c} : client'[d] = client[d] /\ toServer'[d] = toServer[d]
  <2>1. Append(out, m) = <<m>>
    BY <1>3
  <2> QED BY <1>1, <1>6, <2>1
<1> HIDE DEF cl, q, t, out
<1>9. ClientGrabs(s, server', client'[s], toServer'[s])
  <2>1. nw.active /\ nw.seqNum = server'.seqNum /\ nw.own /\ ~nw.sent /\ nw.time = Never /\ nw.queue = <<>>
    BY <1>1, <1>3, <1>4, <1>5
  <2>2. Len(<<m>>) = 1 /\ <<m>>[1].kind = "grab" /\ <<m>>[1].seq = nw.seqNum /\ server'.queue = <<>>
    BY <1>1, <1>3, <1>5, <1>7, OneElement
  <2> QED BY <1>2, <1>8, <2>1, <2>2 DEF ClientGrabs
<1>10. server'.active = s /\ Content(s)' = copies'
  BY <1>1, <1>2, <1>5, <1>8 DEF Copying, Content, cl
<1>11. \A d \in Client : /\ toClient'[d] = <<>>
                         /\ d # s => client'[d].queue = <<>> /\ toServer'[d] = <<>>
  BY <1>1, <1>2, <1>8 DEF Copying
<1> QED BY <1>2, <1>9, <1>10, <1>11 DEF Copying

LEMMA ReceiveCopying ==
  ASSUME SeqInv, NEW s \in Screen, Copying(s), NEW c \in Client, Receive(c)
  PROVE  Copying(s)'
<1> DEFINE out == toServer[c]
           m   == Head(out)
           e   == Msg("grabbed", c, m.seq, Empty)
<1>1. /\ server \in ServerState /\ out \in Seq(Message) /\ out # <<>>
      /\ toServer \in [Client -> Seq(Message)]
      /\ toServer' = [toServer EXCEPT ![c] = Tail(@)] /\ UNCHANGED <<client, toClient, copies, habit>>
  BY DEF SeqInv, TypeOK, Receive
<1>2. c = s /\ s # Primary
  BY <1>1, ClipboardAssumption DEF Copying
<1>3. /\ client[s].active /\ client[s].seqNum = server.seqNum /\ server.active = s
      /\ client[s].own /\ ~client[s].sent /\ client[s].time = Never /\ client[s].queue = <<>>
      /\ Len(out) = 1 /\ out[1].kind = "grab" /\ out[1].seq = client[s].seqNum /\ server.queue = <<>>
  BY <1>1, <1>2 DEF Copying, ClientGrabs, GrabWaits
<1>4. m = out[1] /\ Tail(out) = <<>>
  BY <1>1, <1>3, OneElement
<1>5. server' = [server EXCEPT !.queue = Append(@, e)] /\ e.kind = "grabbed" /\ e.screen = s /\ e.seq = m.seq
  BY <1>2, <1>3, <1>4 DEF Receive, Msg
<1> HIDE DEF e, m
<1>6. server'.queue = <<e>> /\ server'.active = s /\ server'.seqNum = server.seqNum
  <2>1. Append(server.queue, e) = <<e>>
    BY <1>3
  <2> QED BY <1>1, <1>3, <1>5, <2>1 DEF ServerState
<1>7. toServer'[c] = <<>> /\ \A d \in Client \ {c} : toServer'[d] = toServer[d]
  BY <1>1, <1>4
<1> HIDE DEF out
<1>8. ClientGrabs(s, server', client'[s], toServer'[s])
  BY <1>1, <1>2, <1>3, <1>4, <1>5, <1>6, <1>7 DEF ClientGrabs, GrabWaits
<1>9. Content(s)' = copies'
  BY <1>1, <1>2 DEF Copying, Content
<1>10. \A d \in Client : /\ toClient'[d] = <<>>
                         /\ d # s => client'[d].queue = <<>> /\ toServer'[d] = <<>>
  BY <1>1, <1>2, <1>7 DEF Copying
<1> QED BY <1>2, <1>6, <1>8, <1>9, <1>10 DEF Copying

LEMMA HandleGrabbedServes ==
  ASSUME SeqInv, NEW s \in Screen, Copying(s), HandleGrabbed
  PROVE  Served'
<1> DEFINE q  == server.queue
           e  == Head(q)
           sv == [server EXCEPT !.queue = Tail(@)]
           nw == [server EXCEPT !.queue = <<>>, !.owner = s, !.clipSeq = e.seq, !.clip = Empty,
                                !.data = Empty, !.dirty = [x \in Screen |-> x # s],
                                !.content = IF s = Primary THEN @ ELSE Empty]
           grab(c) == Msg("grab", c, 0, Empty)
<1>1. /\ server \in ServerState /\ q \in Seq(Event) /\ q # <<>> /\ toClient \in [Client -> Seq(Message)]
      /\ UNCHANGED <<client, toServer, copies, habit>>
  BY DEF SeqInv, TypeOK, ServerState, HandleGrabbed
<1>2. /\ GrabWaits(q, s) /\ server.active = s /\ Content(s) = copies
      /\ \A c \in Client : toClient[c] = <<>> /\ toServer[c] = <<>> /\ client[c].queue = <<>>
      /\ s # Primary => /\ s \in Client /\ client[s].own /\ ~client[s].sent /\ client[s].time = Never
                        /\ e.seq = client[s].seqNum /\ client[s].seqNum = server.seqNum
  <2>1. CASE s = Primary
    BY <2>1, ClipboardAssumption DEF Copying
  <2>2. CASE s # Primary
    <3>1. s \in Client /\ ClientGrabs(s, server, client[s], toServer[s])
      BY <2>2 DEF Copying, Screen
    <3>2. /\ GrabWaits(q, s) /\ toServer[s] = <<>> /\ client[s].queue = <<>>
          /\ client[s].own /\ ~client[s].sent /\ client[s].time = Never
          /\ q[1].seq = client[s].seqNum /\ client[s].seqNum = server.seqNum
      BY <1>1, <3>1 DEF ClientGrabs, GrabWaits
    <3>3. e = q[1]
      BY <1>1, <3>2, OneElement DEF GrabWaits
    <3> HIDE DEF e, q
    <3> QED BY <2>2, <3>1, <3>2, <3>3 DEF Copying
  <2> QED BY <2>1, <2>2
<1>3. /\ e = q[1] /\ e.screen = s /\ Tail(q) = <<>> /\ e.seq \in SeqNum
  <2>1. e = q[1] /\ e.screen = s /\ Tail(q) = <<>>
    BY <1>1, <1>2, OneElement DEF GrabWaits
  <2>2. e \in Event
    <3> HIDE DEF q
    <3> QED BY <1>1, TailAt
  <2> HIDE DEF e, q
  <2> QED BY <2>1, <2>2, SeqNat
<1>4. /\ server.clipSeq <= server.seqNum /\ server.clipSeq \in Int /\ server.seqNum \in Int
  BY SeqInvImplies DEF SeqInv, SeqOrdersVisits, TypeOK, ServerState, SeqNum
<1>5. sv \in ServerState /\ sv.clipSeq = server.clipSeq /\ sv.active = s /\ sv.queue = <<>>
  <2>1. sv = [server EXCEPT !.queue = <<>>]
    BY <1>3
  <2>2. <<>> \in Seq(Event)
    OBVIOUS
  <2> HIDE DEF sv
  <2> QED BY <1>1, <1>2, <2>1, <2>2 DEF ServerState
<1> HIDE DEF e
<1>6. ~Stale(sv, e.screen, e.seq)
  BY <1>2, <1>3, <1>4, <1>5 DEF Stale
<1>7. server' = nw /\ toClient' = TellGrab(toClient, s)
  <2>1. server' = ClipboardGrabbed(sv, s, e.seq) /\ toClient' = TellGrab(toClient, s)
    BY <1>3, <1>6 DEF HandleGrabbed, e, q
  <2>2. sv = [server EXCEPT !.queue = <<>>]
    BY <1>3
  <2>3. ClipboardGrabbed(sv, s, e.seq)
          = GrabOthers([sv EXCEPT !.owner = s, !.clipSeq = e.seq, !.clip = Empty, !.data = Empty], s)
    <3> HIDE DEF sv
    <3> QED BY <1>5 DEF ClipboardGrabbed, GrabOthers, ServerState
  <2>4. GrabOthers([sv EXCEPT !.owner = s, !.clipSeq = e.seq, !.clip = Empty, !.data = Empty], s) = nw
    BY <1>1, <2>2 DEF GrabOthers, ServerState
  <2> QED BY <2>1, <2>3, <2>4
<1>8. /\ nw.owner = s /\ nw.clipSeq = e.seq /\ nw.clip = Empty /\ nw.data = Empty /\ nw.queue = <<>>
      /\ nw.active = s /\ ~nw.dirty[s] /\ nw.content = IF s = Primary THEN server.content ELSE Empty
  <2> HIDE DEF e
  <2> QED BY <1>1, <1>2 DEF ServerState
<1> HIDE DEF nw, sv, q
<1>9. ServerServes(server')
  <2>1. s = Primary => server.content = copies
    BY <1>2 DEF Content
  <2>2. Len(nw.queue) = 0 /\ 1..0 = {}
    BY <1>8
  <2> QED BY <1>7, <1>8, <2>1, <2>2 DEF ServerServes, ServerKeeps
<1>10. ASSUME NEW c \in Client
       PROVE  ClientServes(c, server', client'[c], toClient'[c], toServer'[c])
  <2>1. /\ toClient'[c] = IF c = s THEN <<>> ELSE <<grab(c)>>
        /\ grab(c).kind = "grab" /\ toServer'[c] = <<>> /\ client'[c] = client[c]
        /\ client[c].queue = <<>>
    <3>1. grab(c).kind = "grab"
      BY DEF Msg
    <3>2. toClient'[c] = IF c = s THEN toClient[c] ELSE Append(toClient[c], grab(c))
      BY <1>7 DEF TellGrab
    <3>3. Append(<<>>, grab(c)) = <<grab(c)>>
      BY OneElement
    <3> QED BY <1>1, <1>2, <3>1, <3>2, <3>3
  <2>2. CASE c = s
    <3>1. c # Primary
      BY ClipboardAssumption
    <3>2. copies # Never /\ client[c].content = copies
      <4>1. copies \in 0..MaxCopies
        BY DEF SeqInv, TypeOK
      <4> QED BY <1>2, <2>2, <3>1, <4>1 DEF Never, Content
    <3>3. e.seq <= client[c].seqNum
      BY <1>2, <1>3, <1>4, <2>2, <3>1
    <3>4. /\ Len(<<>>) = 0 /\ 1..0 = {}
      OBVIOUS
    <3>5. OwnerServes(c, server', client[c], <<>>, <<>>)
      BY <1>2, <1>7, <1>8, <2>1, <2>2, <3>1, <3>2, <3>3, <3>4 DEF OwnerServes, NoneWritten
    <3> QED BY <1>7, <1>8, <2>1, <2>2, <3>5 DEF ClientServes
  <2>3. CASE c # s
    <3>1. <<grab(c)>> # <<>> /\ Head(<<grab(c)>>) = grab(c)
      OBVIOUS
    <3> QED BY <1>7, <1>8, <2>1, <2>3, <3>1 DEF ClientServes, OtherServes
  <2> QED BY <2>2, <2>3
<1> QED BY <1>1, <1>9, <1>10, ServedFrom

-----------------------------------------------------------------------------
LEMMA InitPatientInv == Init => PatientInv
<1> SUFFICES ASSUME Init PROVE Served
  BY InitCleanInv DEF PatientInv
<1>1. /\ Len(<<>>) = 0 /\ 1..0 = {}
  OBVIOUS
<1>2. ServerServes(server)
  BY <1>1, ClipboardAssumption DEF Init, ServerServes, ServerKeeps, Screen, Empty
<1>3. ASSUME NEW c \in Client PROVE ClientServes(c, server, client[c], toClient[c], toServer[c])
  <2>1. server.owner # c
    BY ClipboardAssumption DEF Init
  <2> QED BY <2>1 DEF Init, ClientServes, OtherServes
<1> QED BY <1>2, <1>3 DEF Served

LEMMA ServedNext ==
  ASSUME OwnerInv, ~habit.background, ~habit.hasty, Served, [Next]_vars
  PROVE  Served' \/ \E s \in Screen : Copying(s)'
<1>1. SeqInv
  BY DEF OwnerInv
<1>2. CASE HandleGrabbed
  BY <1>1, <1>2, ServesTaken DEF HandleGrabbed, Served, SeqInv, TypeOK
<1>3. CASE HandleChanged \/ HandleSending
  BY <1>1, <1>3, HandleChangedServes, HandleSendingServes
<1>4. ASSUME NEW c \in Client, OwnClipboard(c) PROVE FALSE
  <2>1. /\ client[c].queue \in Seq(Event) /\ client[c].queue # <<>> /\ Head(client[c].queue).kind = "grabbed"
    BY <1>1, <1>4, ClientFacts DEF OwnClipboard
  <2>2. Head(client[c].queue) = client[c].queue[1] /\ 1 \in 1..Len(client[c].queue)
    BY <2>1
  <2> QED BY <2>1, <2>2 DEF Served, ClientServes, OwnerServes, OtherServes
<1>5. ASSUME NEW c \in Client, Receive(c) \/ ParseMessage(c) \/ SendChunks(c) PROVE Served'
  BY <1>1, <1>5, ReceiveServes, ParseMessageServes, SendChunksServes
<1>6. ASSUME NEW s \in Screen, SwitchScreen(s) PROVE Served'
  BY <1>1, <1>6, SwitchScreenServes
<1>7. ASSUME NEW s \in Screen, Copy(s) PROVE Copying(s)'
  BY <1>7, CopyGrabs
<1>8. CASE UNCHANGED vars
  <2>1. ServerServes(server') /\ UNCHANGED <<server, client, toClient, toServer, copies, habit>>
    BY <1>8 DEF vars, Served
  <2>2. \A c \in Client : ClientServes(c, server', client'[c], toClient'[c], toServer'[c])
    BY <2>1 DEF Served
  <2> QED BY <2>1, <2>2, ServedFrom
<1> QED BY <1>2, <1>3, <1>4, <1>5, <1>6, <1>7, <1>8 DEF Next, ServerStep, ClientStep

LEMMA CopyingNext ==
  ASSUME OwnerInv, ~habit.background, ~habit.hasty, NEW s \in Screen, Copying(s), [Next]_vars
  PROVE  Served' \/ Copying(s)'
<1>1. SeqInv /\ ~Settled
  BY CopyingUnsettled DEF OwnerInv
<1>2. CASE HandleGrabbed
  BY <1>1, <1>2, HandleGrabbedServes
<1>3. CASE HandleChanged \/ HandleSending
  <2>1. server.queue \in Seq(Event) /\ server.queue # <<>> /\ Head(server.queue).kind # "grabbed"
    BY <1>1, <1>3 DEF HandleChanged, HandleSending, SeqInv, TypeOK, ServerState
  <2>2. GrabWaits(server.queue, s)
    BY <2>1 DEF Copying, ClientGrabs
  <2> QED BY <2>1, <2>2, OneElement DEF GrabWaits
<1>4. ASSUME NEW c \in Client, Receive(c) \/ OwnClipboard(c) PROVE Copying(s)'
  BY <1>1, <1>4, ReceiveCopying, OwnClipboardCopying
<1>5. ASSUME NEW c \in Client, ParseMessage(c) PROVE FALSE
  BY <1>5 DEF ParseMessage, Copying
<1>6. ASSUME NEW c \in Client, SendChunks(c) PROVE FALSE
  <2>1. client[c].queue \in Seq(Event) /\ client[c].queue # <<>> /\ Head(client[c].queue).kind = "sending"
    BY <1>1, <1>6, ClientFacts DEF SendChunks
  <2>2. c = s /\ s # Primary
    BY <2>1, ClipboardAssumption DEF Copying
  <2>3. GrabWaits(client[c].queue, s)
    BY <2>1, <2>2 DEF Copying, ClientGrabs
  <2> QED BY <2>1, <2>3, OneElement DEF GrabWaits
<1>7. ASSUME NEW t \in Screen, SwitchScreen(t) \/ Copy(t) PROVE FALSE
  BY <1>1, <1>7 DEF SwitchScreen, Copy
<1>8. CASE UNCHANGED vars
  BY <1>8 DEF vars, Copying, Content, ClientGrabs, GrabWaits
<1> QED BY <1>2, <1>3, <1>4, <1>5, <1>6, <1>7, <1>8 DEF Next, ServerStep, ClientStep

LEMMA PatientInvNext == PatientInv /\ [Next]_vars => PatientInv'
<1> SUFFICES ASSUME PatientInv, [Next]_vars, ~habit.background, ~habit.hasty
             PROVE  Served' \/ \E s \in Screen : Copying(s)'
  BY CleanInvNext, HabitKept DEF PatientInv
<1>1. OwnerInv
  BY DEF PatientInv, CleanInv
<1>2. CASE Served
  BY <1>1, <1>2, ServedNext
<1>3. ASSUME NEW s \in Screen, Copying(s) PROVE Served' \/ Copying(s)'
  BY <1>1, <1>3, CopyingNext
<1> QED BY <1>2, <1>3 DEF PatientInv

LEMMA PatientInvImplies == PatientInv => (~habit.background => PatientUserServed)
<1> SUFFICES ASSUME PatientInv, ~habit.background, ~habit.hasty, Settled
             PROVE  /\ \A c \in Client : client[c].own <=> server.owner = c
                    /\ copies \notin habit.oversize => Content(server.active) = copies
  BY DEF PatientUserServed, PatientOwnerAgreed, OwnerAgreed, LatestOnActive
<1>1. Served /\ Clean(server, toClient, client) /\ server.active \in Screen /\ server.owner \in Screen
      /\ client \in [Client -> ClientState]
  BY CopyingUnsettled DEF PatientInv, CleanInv, OwnerInv, SeqInv, TypeOK, ServerState
<1>2. ASSUME NEW c \in Client
      PROVE  /\ server.owner = c => OwnerServes(c, server, client[c], <<>>, <<>>) /\ client[c].queue = <<>>
             /\ server.owner # c => ~client[c].own
  <2>1. toClient[c] = <<>> /\ toServer[c] = <<>> /\ client[c].queue = <<>>
    BY DEF Settled
  <2> QED BY <1>1, <2>1 DEF Served, ClientServes, OtherServes
<1>3. \A c \in Client : client[c].own <=> server.owner = c
  BY <1>1, <1>2 DEF OwnerServes
<1>4. ASSUME copies \notin habit.oversize PROVE Content(server.active) = copies
  <2>1. CASE server.active = server.owner
    <3>1. CASE server.owner = Primary
      BY <1>1, <2>1, <3>1 DEF Served, ServerServes, ServerKeeps, Content
    <3>2. CASE server.owner # Primary
      BY <1>1, <1>2, <2>1, <3>2 DEF OwnerServes, Content, Screen
    <3> QED BY <3>1, <3>2
  <2>2. CASE server.active # server.owner
    <3>1. server.data = copies
      <4>1. CASE server.owner = Primary
        BY <1>1, <1>4, <2>2, <4>1 DEF Served, ServerServes, ServerKeeps
      <4>2. CASE server.owner # Primary
        <5>1. ~HasKind(server.queue, "changed") /\ ~HasKind(<<>>, "leave")
          BY DEF Settled, HasKind
        <5> QED BY <1>1, <1>2, <1>4, <2>2, <4>2, <5>1 DEF OwnerServes, Screen
      <4> QED BY <4>1, <4>2
    <3>2. ~server.dirty[server.active]
      BY <1>1, <1>4, <3>1 DEF Served, ServerServes
    <3>3. server.active # Primary => ~client[server.active].own
      BY <1>1, <1>2, <2>2 DEF Screen
    <3>4. CleanIsCurrent
      BY CleanInvImplies DEF PatientInv
    <3> QED BY <1>1, <2>2, <3>1, <3>2, <3>3, <3>4 DEF CleanIsCurrent
  <2> QED BY <2>1, <2>2
<1> QED BY <1>3, <1>4

(* A user who copies only where he is and lets the screens settle finds his  *)
(* latest copy on every screen he comes to, unless it is too big to be sent, *)
(* and the server and the clients agree on who owns the clipboard            *)
(* (switchScreen, handleClipboardGrabbed, onClipboardChanged).               *)
THEOREM PatientUsersServed == Spec => [](~habit.background => PatientUserServed)
BY InitPatientInv, PatientInvNext, PatientInvImplies, PTL DEF Spec
=============================================================================
