---------------------------- MODULE ClipboardSync ----------------------------
(***************************************************************************)
(* One clipboard shared by the server's screen and the clients' screens:   *)
(* Server.cpp (owner, sequence number, data), ClientProxy1_0/1_6 and       *)
(* PrimaryClient (dirty flags, copies), Client.cpp and ServerProxy.cpp     *)
(* (own/sent/time), and the wires between them.  A clipboard's contents    *)
(* are the number of the user's copy they come from.  A grab is written    *)
(* to the stream at once, while contents go through the sender's event     *)
(* queue: a later grab may overtake them.  A transfer is one message, for  *)
(* only its end chunk changes anything.  Clients stay connected.           *)
(***************************************************************************)
EXTENDS Integers, Sequences

CONSTANTS
  Client,      \* connected clients
  Primary,     \* the server's own screen
  MaxCopies,   \* bound: how often the user copies
  MaxSwitches, \* bound: how often the cursor changes screens
  Habits       \* the users considered: [background, hasty, oversize]

Screen == Client \cup {Primary}
Empty  == 0    \* an emptied clipboard
Never  == -1   \* m_timeClipboard == 0
Copies == 1..MaxCopies
Contents == {Empty} \cup Copies
SeqNum == 0..MaxSwitches

ASSUME ClipboardAssumption ==
  /\ Primary \notin Client
  /\ MaxCopies \in Nat /\ MaxSwitches \in Nat
  /\ Habits \subseteq [background : BOOLEAN, hasty : BOOLEAN, oversize : SUBSET Copies]

VARIABLES
  server,   \* the Server, its PrimaryClient and its event queue
  client,   \* the Client, ServerProxy and event queue of each client
  toClient, toServer,  \* the streams, per client
  copies,   \* how many copies the user has made
  habit     \* background: programs also copy on screens the user is not at;
            \* hasty: the user acts while messages and events are under way;
            \* oversize: the copies whose data exceeds the clipboard size limit

vars == <<server, client, toClient, toServer, copies, habit>>

(* An event or a message: the screen it is about, a sequence number and     *)
(* contents, where its kind has them.                                       *)
Msg(kind, s, seq, v) == [kind |-> kind, screen |-> s, seq |-> seq, value |-> v]
Message == [kind : {"enter", "leave", "grab", "clip"}, screen : Screen, seq : SeqNum, value : Contents]
Event   == [kind : {"grabbed", "changed", "sending"}, screen : Screen, seq : SeqNum, value : Contents]

Init ==
  /\ server = [active  |-> Primary, seqNum |-> 0,
               owner   |-> Primary, clipSeq |-> 0, clip |-> Empty, data |-> Empty,
               dirty   |-> [s \in Screen |-> s # Primary],
               stored  |-> [c \in Client |-> Empty],
               content |-> Empty, enterSeq |-> 0, queue |-> <<>>]
  /\ client = [c \in Client |->
                [active |-> FALSE, seqNum |-> 0, own |-> FALSE, sent |-> FALSE,
                 time |-> Never, data |-> Empty, content |-> Empty, queue |-> <<>>]]
  /\ toClient = [c \in Client |-> <<>>]
  /\ toServer = [c \in Client |-> <<>>]
  /\ copies = 0
  /\ habit \in Habits

-----------------------------------------------------------------------------
(* The server.  A handler maps a state of it to the next one; "out" are the *)
(* streams to the clients.                                                  *)
Write(out, c, m) == [out EXCEPT ![c] = Append(@, m)]

(* setClipboard on screen s: PrimaryClient and ClientProxy1_6. *)
SetClipboard(sv, s) ==
  IF ~sv.dirty[s] THEN sv
  ELSE IF s = Primary
  THEN [sv EXCEPT !.dirty[s] = FALSE, !.content = sv.clip]
  ELSE [sv EXCEPT !.dirty[s] = FALSE, !.stored[s] = sv.clip,
                  !.queue = Append(@, Msg("sending", s, 0, sv.clip))]

(* What the sender's proxy has: its screen's clipboard, or the last one received. *)
GetClipboard(sv, s) == IF s = Primary THEN sv.content ELSE sv.stored[s]

\* Mutant: new data does not make the other screens dirty again.
ClipboardChangedClean(sv, sender, seq) ==
  IF seq < sv.clipSeq \/ GetClipboard(sv, sender) \in habit.oversize \cup {sv.data} THEN sv
  ELSE SetClipboard([sv EXCEPT !.clip = GetClipboard(sv, sender), !.data = GetClipboard(sv, sender)],
                    sv.active)

ClipboardChanged(sv, sender, seq) ==
  IF seq < sv.clipSeq THEN sv
  ELSE LET v   == GetClipboard(sv, sender)
           got == [sv EXCEPT !.clip = v]
       IN  IF v \in habit.oversize \/ v = sv.data THEN got
           ELSE SetClipboard([got EXCEPT !.data = v,
                                         !.dirty = [s \in Screen |-> s # sender]],
                             sv.active)

(* grabClipboard on every screen but the grabber; the primary's is emptied. *)
\* Mutant: only the primary's screen becomes dirty.
GrabOthersPrimaryOnly(sv, grabber) ==
  IF grabber = Primary THEN sv
  ELSE [sv EXCEPT !.dirty = [@ EXCEPT ![Primary] = TRUE, ![grabber] = FALSE], !.content = Empty]

GrabOthers(sv, grabber) ==
  [sv EXCEPT !.dirty = [s \in Screen |-> s # grabber],
             !.content = IF grabber = Primary THEN @ ELSE Empty]

\* Mutant: only the active screen is told.
TellGrabActive(out, grabber) ==
  [c \in Client |-> IF c # server.active THEN out[c] ELSE Append(out[c], Msg("grab", c, 0, Empty))]

TellGrab(out, grabber) ==
  [c \in Client |-> IF c = grabber THEN out[c] ELSE Append(out[c], Msg("grab", c, 0, Empty))]

\* Mutant: the last grab to arrive wins.
StaleNever(sv, grabber, seq) == FALSE

Stale(sv, grabber, seq) == grabber # Primary /\ seq < sv.clipSeq

ClipboardGrabbed(sv, grabber, seq) ==
  LET owned == [sv EXCEPT !.owner = grabber, !.clipSeq = seq, !.clip = Empty, !.data = Empty]
      told  == GrabOthers(owned, grabber)
  IN  IF grabber = Primary /\ sv.active # Primary
      THEN ClipboardChanged(told, Primary, seq) ELSE told

(* The server's event loop handles the next event. *)
HandleGrabbed ==
  /\ server.queue # <<>>
  /\ LET e  == Head(server.queue)
         sv == [server EXCEPT !.queue = Tail(@)]
     IN  /\ e.kind = "grabbed"
         /\ IF Stale(sv, e.screen, e.seq)
            THEN server' = sv /\ UNCHANGED toClient
            ELSE /\ server' = ClipboardGrabbed(sv, e.screen, e.seq)
                 /\ toClient' = TellGrab(toClient, e.screen)
  /\ UNCHANGED <<client, toServer, copies, habit>>

HandleChanged ==
  /\ server.queue # <<>>
  /\ LET e == Head(server.queue)
     IN  /\ e.kind = "changed"
         /\ server' = ClipboardChanged([server EXCEPT !.queue = Tail(@)], e.screen, e.seq)
  /\ UNCHANGED <<client, toClient, toServer, copies, habit>>

HandleSending ==
  /\ server.queue # <<>>
  /\ LET e == Head(server.queue)
     IN  /\ e.kind = "sending"
         /\ server' = [server EXCEPT !.queue = Tail(@)]
         /\ toClient' = Write(toClient, e.screen, Msg("clip", e.screen, 0, e.value))
  /\ UNCHANGED <<client, toServer, copies, habit>>

(* recvGrabClipboard and recvClipboard: parsed now, handled as an event later. *)
Receive(c) ==
  /\ toServer[c] # <<>>
  /\ LET m == Head(toServer[c])
     IN  server' = IF m.kind = "grab"
                   THEN [server EXCEPT !.queue = Append(@, Msg("grabbed", c, m.seq, Empty))]
                   ELSE [server EXCEPT !.stored[c] = m.value,
                                       !.queue = Append(@, Msg("changed", c, m.seq, Empty))]
  /\ toServer' = [toServer EXCEPT ![c] = Tail(@)]
  /\ UNCHANGED <<client, toClient, copies, habit>>

Settled ==
  /\ server.queue = <<>>
  /\ \A c \in Client : client[c].queue = <<>> /\ toClient[c] = <<>> /\ toServer[c] = <<>>

\* Mutant: the number is incremented by enter and by the caller.
NextSeqTwice == server.seqNum + 2
\* Mutant: the number counts only the times the cursor leaves the primary screen.
NextSeqLeaving == IF server.active = Primary THEN server.seqNum + 1 ELSE server.seqNum

NextSeq == server.seqNum + 1

(* switchScreen: leave, collect the primary's clipboard, enter, send. *)
SwitchScreen(dst) ==
  /\ dst # server.active /\ server.seqNum < MaxSwitches
  /\ habit.hasty \/ Settled
  /\ LET src  == server.active
         left == IF src = Primary /\ server.owner = Primary
                 THEN ClipboardChanged(server, Primary, server.clipSeq) ELSE server
         seq  == NextSeq
         over == [left EXCEPT !.active = dst, !.seqNum = seq,
                              !.enterSeq = IF dst = Primary THEN seq ELSE @]
         gone == IF src = Primary THEN toClient
                 ELSE Write(toClient, src, Msg("leave", src, 0, Empty))
     IN  /\ server' = IF over.clip \in habit.oversize THEN over ELSE SetClipboard(over, dst)
         /\ toClient' = IF dst = Primary THEN gone
                        ELSE Write(gone, dst, Msg("enter", dst, seq, Empty))
  /\ UNCHANGED <<client, toServer, copies, habit>>

-----------------------------------------------------------------------------
(* A client.  sendClipboard puts the transfer in the client's event queue. *)
SendClipboard(cl, c) ==
  IF cl.time = cl.content \/ cl.content \in habit.oversize THEN cl
  ELSE IF cl.sent /\ cl.content = cl.data THEN [cl EXCEPT !.time = cl.content]
  ELSE [cl EXCEPT !.time = cl.content, !.sent = TRUE, !.data = cl.content,
                  !.queue = Append(@, Msg("sending", c, cl.seqNum, cl.content))]

Obey(cl, c, m) ==
  CASE m.kind = "enter" -> [cl EXCEPT !.active = TRUE, !.seqNum = m.seq]
    [] m.kind = "leave" -> LET gone == [cl EXCEPT !.active = FALSE]
                           IN  IF cl.own THEN SendClipboard(gone, c) ELSE gone
    [] m.kind = "grab"  -> [cl EXCEPT !.content = Empty, !.own = FALSE, !.sent = FALSE]
    [] m.kind = "clip"  -> [cl EXCEPT !.content = m.value, !.own = FALSE, !.sent = FALSE]

ParseMessage(c) ==
  /\ toClient[c] # <<>>
  /\ client' = [client EXCEPT ![c] = Obey(@, c, Head(toClient[c]))]
  /\ toClient' = [toClient EXCEPT ![c] = Tail(@)]
  /\ UNCHANGED <<server, toServer, copies, habit>>

(* Client::handleClipboardGrabbed: the grab is written at once. *)
OwnClipboard(c) ==
  /\ client[c].queue # <<>> /\ Head(client[c].queue).kind = "grabbed"
  /\ LET cl == [client[c] EXCEPT !.queue = Tail(@), !.own = TRUE, !.sent = FALSE, !.time = Never]
     IN  client' = [client EXCEPT ![c] = IF cl.active THEN cl ELSE SendClipboard(cl, c)]
  /\ toServer' = Write(toServer, c, Msg("grab", c, client[c].seqNum, Empty))
  /\ UNCHANGED <<server, toClient, copies, habit>>

SendChunks(c) ==
  /\ client[c].queue # <<>>
  /\ LET e == Head(client[c].queue)
     IN  /\ e.kind = "sending"
         /\ toServer' = Write(toServer, c, Msg("clip", c, e.seq, e.value))
  /\ client' = [client EXCEPT ![c].queue = Tail(@)]
  /\ UNCHANGED <<server, toClient, copies, habit>>

-----------------------------------------------------------------------------
(* The user copies: the platform changes the clipboard and queues a grab    *)
(* event (sendClipboardEvent), stamped with the screen's sequence number.   *)
Copy(s) ==
  /\ copies < MaxCopies
  /\ habit.hasty \/ Settled
  /\ habit.background \/ (IF s = Primary THEN server.active = Primary ELSE client[s].active)
  /\ copies' = copies + 1
  /\ IF s = Primary
     THEN /\ server' = [server EXCEPT !.content = copies',
                         !.queue = Append(@, Msg("grabbed", s, server.enterSeq, Empty))]
          /\ UNCHANGED client
     ELSE /\ client' = [client EXCEPT ![s].content = copies',
                         ![s].queue = Append(@, Msg("grabbed", s, 0, Empty))]
          /\ UNCHANGED server
  /\ UNCHANGED <<toClient, toServer, habit>>

ServerStep == HandleGrabbed \/ HandleChanged \/ HandleSending
ClientStep(c) == ParseMessage(c) \/ OwnClipboard(c) \/ SendChunks(c)

Next ==
  \/ ServerStep
  \/ \E c \in Client : Receive(c) \/ ClientStep(c)
  \/ \E s \in Screen : SwitchScreen(s) \/ Copy(s)

Spec == Init /\ [][Next]_vars

-----------------------------------------------------------------------------
ServerState ==
  [active : Screen, seqNum : SeqNum, owner : Screen, clipSeq : SeqNum, clip : Contents,
   data : Contents, dirty : [Screen -> BOOLEAN], stored : [Client -> Contents],
   content : Contents, enterSeq : SeqNum, queue : Seq(Event)]
ClientState ==
  [active : BOOLEAN, seqNum : SeqNum, own : BOOLEAN, sent : BOOLEAN,
   time : {Never} \cup Contents, data : Contents, content : Contents, queue : Seq(Event)]

(* Every variable stays in the range its C++ member can hold. *)
TypeOK ==
  /\ server \in ServerState
  /\ client \in [Client -> ClientState]
  /\ toClient \in [Client -> Seq(Message)] /\ toServer \in [Client -> Seq(Message)]
  /\ copies \in 0..MaxCopies /\ habit \in Habits

Under(msgs, n) == \A i \in 1..Len(msgs) : msgs[i].seq < n

(* A sequence number tells the visits apart: a client the cursor has left,  *)
(* or will enter later, knows and is sent only older numbers, so its grabs  *)
(* cannot pass for the present visit's; and the owner's number is never     *)
(* newer than the visit, so the active client's grab is never ignored       *)
(* (Server.cpp:1270, 507).                                                  *)
LeftAreOlder ==
  \A c \in Client \ {server.active} :
    server.seqNum > 0 => client[c].seqNum < server.seqNum /\ Under(toClient[c], server.seqNum)

SeqOrdersVisits == LeftAreOlder /\ server.clipSeq <= server.seqNum

(* The assertion in onClipboardChanged: data that is not out of date comes  *)
(* from the screen that owns the clipboard (Server.cpp:1541).               *)
OwnerSends ==
  server.queue # <<>> =>
    LET e == Head(server.queue)
    IN  e.kind = "changed" /\ e.seq >= server.clipSeq => e.screen = server.owner

Content(s) == IF s = Primary THEN server.content ELSE client[s].content

(* When nothing is under way, a screen the server counts as clean shows     *)
(* what the server holds, unless it owns the clipboard or believes so: a    *)
(* transfer that is late or crosses a grab never leaves a screen with old   *)
(* data that the next visit would not replace.                              *)
CleanIsCurrent ==
  Settled =>
    \A s \in Screen :
      \/ server.dirty[s] \/ s = server.owner \/ (s # Primary /\ client[s].own)
      \/ Content(s) = server.data

(* When nothing is under way the server and the clients agree on the owner  *)
(* (handleClipboardGrabbed on both sides; ProtocolTypes.h:395).             *)
OwnerAgreed ==
  Settled => \A c \in Client : client[c].own <=> server.owner = c

(* The same for a user who waits for the screens to settle.                 *)
PatientOwnerAgreed == ~habit.hasty => OwnerAgreed

(* What the feature promises to such a user: the screen he is at shows the  *)
(* latest copy, wherever it was made, unless it is too big to be sent       *)
(* (switchScreen, onClipboardChanged).                                      *)
LatestOnActive ==
  ~habit.hasty /\ Settled /\ copies \notin habit.oversize => Content(server.active) = copies

(* Both, for such a user.                                                   *)
PatientUserServed == PatientOwnerAgreed /\ LatestOnActive
=============================================================================
