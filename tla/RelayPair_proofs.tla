-------------------------- MODULE RelayPair_proofs --------------------------
(***************************************************************************)
(* Proofs about RelayPair: its state stays well formed, which for the      *)
(* messages under way says who may have been their author; the devices     *)
(* meet as Rendezvous says; and in a prompt network a session lasts.       *)
(***************************************************************************)
EXTENDS RelayPair, SequenceTheorems, TLAPS

(* Every kind of control message is a message.                              *)
LEMMA PlainMessage == \A k \in Control : Plain(k) \in Message
  BY DEF Plain, Msg, Message

(* A message leaves a queue of messages behind when it is taken.            *)
LEMMA TakeMessage ==
  ASSUME NEW q \in Seq(Message), q # <<>>
  PROVE  Head(q) \in Message /\ Tail(q) \in Seq(Message)
  BY HeadTailProperties

(* What the relay sends and closes keeps the queues well formed.            *)
LEMMA SendType ==
  ASSUME TypeOK, NEW c \in Conn, NEW m \in Message
  PROVE  Send(c, m) \in [Conn -> Seq(Message)]
  <1>1. Append(down[c], m) \in Seq(Message)
    BY AppendProperties DEF TypeOK
  <1> QED
    BY <1>1 DEF Send, TypeOK

LEMMA ToldClosedType ==
  ASSUME TypeOK, NEW C
  PROVE  ToldClosed(C) \in [Conn -> Seq(Message)]
  <1>1. Plain("close") \in Message
    BY PlainMessage DEF Control
  <1>2. \A c \in Conn : Append(down[c], Plain("close")) \in Seq(Message)
    BY <1>1, AppendProperties DEF TypeOK
  <1> QED
    BY <1>2 DEF ToldClosed, TypeOK

LEMMA ClosedType ==
  ASSUME TypeOK, NEW C
  PROVE  Closed(C) \in [Conn -> {"none", "open", "closing", "unreported"}]
  BY DEF Closed, TypeOK

LEMMA ClosePairType ==
  ASSUME TypeOK, NEW c \in Conn, ClosePair(c)
  PROVE  /\ socket' \in [Conn -> {"none", "open", "closing", "unreported"}]
         /\ down' \in [Conn -> Seq(Message)]
  BY ClosedType, ToldClosedType DEF ClosePair

(* A device that hangs up, or proceeds with a partner of the other side,    *)
(* leaves a well-formed device and well-formed queues.                      *)
DeviceOK ==
  /\ phase   \in [Side -> Phase]
  /\ conn    \in [Side -> Conn \cup {None}]
  /\ partner \in [Side -> Conn \cup {None}]
  /\ up      \in [Conn -> Seq(Message)]
  /\ down    \in [Conn -> Seq(Message)]
  /\ \A s \in Side : /\ conn[s] # None => Owner(conn[s]) = s
                     /\ partner[s] # None => Owner(partner[s]) = Other(s)
                     /\ conn[s] = None <=> phase[s] = "resting"

LEMMA HangUpType ==
  ASSUME TypeOK, NEW s \in Side, phase[s] # "resting", HangUp(s)
  PROVE  DeviceOK'
  <1>1. conn[s] \in Conn
    BY DEF TypeOK
  <1>2. Append(up[conn[s]], Plain("close")) \in Seq(Message)
    BY <1>1, PlainMessage, AppendProperties DEF TypeOK, Control
  <1>3. up' \in [Conn -> Seq(Message)]
    BY <1>2 DEF HangUp, TypeOK
  <1>4. down' \in [Conn -> Seq(Message)]
    BY <1>1 DEF HangUp, TypeOK
  <1> QED
    BY <1>3, <1>4 DEF HangUp, TypeOK, DeviceOK, Phase

LEMMA ProceedType ==
  ASSUME TypeOK, NEW s \in Side, conn[s] # None, down[conn[s]] # <<>>,
         NEW p \in Phase \ {"resting"}, NEW d \in ConnOf(Other(s)) \cup {None},
         NEW ms \in Seq(Message), Proceed(s, p, d, ms)
  PROVE  DeviceOK'
  <1>1. conn[s] \in Conn
    BY DEF TypeOK
  <1>2. up[conn[s]] \o ms \in Seq(Message)
    BY <1>1, ConcatProperties DEF TypeOK
  <1>3. Tail(down[conn[s]]) \in Seq(Message)
    BY <1>1, TakeMessage DEF TypeOK
  <1>4. up' \in [Conn -> Seq(Message)]
    BY <1>2 DEF Proceed, TypeOK
  <1>5. down' \in [Conn -> Seq(Message)]
    BY <1>3 DEF Proceed, TypeOK
  <1>6. phase' \in [Side -> Phase] /\ partner' \in [Side -> Conn \cup {None}]
    BY DEF Proceed, TypeOK, ConnOf
  <1> QED
    BY <1>4, <1>5, <1>6 DEF Proceed, TypeOK, DeviceOK, ConnOf

LEMMA ReadType ==
  ASSUME TypeOK, NEW s \in Side, Read(s)
  PROVE  DeviceOK'
  <1> DEFINE c == conn[s]
             m == Head(down[c])
  <1>1. c \in Conn /\ c # None /\ down[c] # <<>> /\ phase[s] # "resting" /\ Owner(c) = s
    BY DEF Read, TypeOK
  <1>2. m \in Message
    BY <1>1, TakeMessage DEF TypeOK
  <1>3. << >> \in Seq(Message)
    OBVIOUS
  <1>4. ASSUME NEW x \in Message PROVE <<x>> \in Seq(Message)
    OBVIOUS
  <1>5. CASE phase[s] = "dialing" /\ m.kind = "accepted"
    <2>1. Proceed(s, "waiting", None, <<>>)
      BY <1>5 DEF Read
    <2> QED
      BY <2>1, <1>1, <1>3, ProceedType DEF Phase
  <1>6. CASE phase[s] = "waiting" /\ m.kind = "ready"
    <2> DEFINE ms == IF s = "b" THEN <<Msg("hello", None, c)>> ELSE <<>>
    <2>1. Proceed(s, "greeting", None, ms)
      BY <1>6 DEF Read
    <2>2. s = "b" => Msg("hello", None, c) \in Message
      BY <1>1 DEF Msg, Message, ConnOf
    <2>3. ms \in Seq(Message)
      BY <2>2, <1>3, <1>4
    <2> HIDE DEF ms
    <2> QED
      BY <2>1, <2>3, <1>1, ProceedType DEF Phase
  <1>7. CASE phase[s] = "greeting" /\ IsHello(s, m)
    <2>1. Proceed(s, "greeting", m.b, <<Msg("reply", c, m.b)>>)
      BY <1>7 DEF Read, IsHello, IsReply, IsFinished
    <2>2. m.b \in ConnOf("b") /\ Other(s) = "b"
      BY <1>2, <1>7 DEF IsHello, Message, Control, Other
    <2>3. Msg("reply", c, m.b) \in Message
      BY <1>1, <1>7, <2>2 DEF Msg, Message, ConnOf, IsHello
    <2>4. <<Msg("reply", c, m.b)>> \in Seq(Message)
      BY <2>3, <1>4
    <2> QED
      BY <2>1, <2>2, <2>4, <1>1, ProceedType DEF Phase
  <1>8. CASE phase[s] = "greeting" /\ IsReply(s, m)
    <2>1. Proceed(s, "serving", m.a, <<Msg("finished", m.a, c)>>)
      BY <1>8 DEF Read, IsHello, IsReply, IsFinished
    <2>2. m.a \in ConnOf("a") /\ Other(s) = "a"
      BY <1>2, <1>8 DEF IsReply, Message, Control, Other
    <2>3. Msg("finished", m.a, c) \in Message
      BY <1>1, <1>8, <2>2 DEF Msg, Message, ConnOf, IsReply
    <2>4. <<Msg("finished", m.a, c)>> \in Seq(Message)
      BY <2>3, <1>4
    <2> QED
      BY <2>1, <2>2, <2>4, <1>1, ProceedType DEF Phase
  <1>9. CASE phase[s] = "greeting" /\ IsFinished(s, m)
    <2>1. Proceed(s, "serving", partner[s], <<>>)
      BY <1>9 DEF Read, IsHello, IsReply, IsFinished
    <2>2. partner[s] \in ConnOf(Other(s))
      BY <1>9 DEF IsFinished, TypeOK, ConnOf
    <2> QED
      BY <2>1, <2>2, <1>1, <1>3, ProceedType DEF Phase
  <1>10. CASE ~ \/ phase[s] = "dialing" /\ m.kind = "accepted"
                \/ phase[s] = "waiting" /\ m.kind = "ready"
                \/ phase[s] = "greeting" /\ IsHello(s, m)
                \/ phase[s] = "greeting" /\ IsReply(s, m)
                \/ phase[s] = "greeting" /\ IsFinished(s, m)
    <2>1. HangUp(s)
      BY <1>10 DEF Read
    <2> QED
      BY <2>1, <1>1, HangUpType
  <1> QED
    BY <1>5, <1>6, <1>7, <1>8, <1>9, <1>10

LEMMA RelayType ==
  ASSUME TypeOK, NEW c \in Conn, Relay(c) \/ Unlist(c)
  PROVE  TypeOK'
  <1>1. \A k \in Control : Plain(k) \in Message
    BY PlainMessage
  <1>2. \A k \in Control : Send(c, Plain(k)) \in [Conn -> Seq(Message)]
    BY <1>1, SendType
  <1>3. up[c] # <<>> => Consumed(c) \in [Conn -> Seq(Message)]
    BY TakeMessage DEF Consumed, TypeOK
  <1>4. CASE FetchRefused(c)
    BY <1>2, <1>4 DEF FetchRefused, TypeOK, device, Control
  <1>5. CASE FetchFirst(c)
    BY <1>2, <1>3, <1>5 DEF FetchFirst, Arrives, TypeOK, device, Control
  <1>6. ASSUME NEW d \in Conn, FetchSecond(c, d) PROVE TypeOK'
    <2>1. \A e \in Conn : Append(down[e], Plain("ready")) \in Seq(Message)
      BY <1>1, AppendProperties DEF TypeOK, Control
    <2>2. <<Plain("accepted"), Plain("ready")>> \in Seq(Message)
      BY <1>1 DEF Control
    <2>3. \A e \in Conn : down[e] \o <<Plain("accepted"), Plain("ready")>> \in Seq(Message)
      BY <2>2, ConcatProperties DEF TypeOK
    <2>4. down' \in [Conn -> Seq(Message)]
      BY <1>6, <2>1, <2>3 DEF FetchSecond, TypeOK
    <2>5. up' \in [Conn -> Seq(Message)]
      BY <1>3, <1>6 DEF FetchSecond, Arrives
    <2> QED
      BY <1>6, <2>4, <2>5 DEF FetchSecond, TypeOK, device
  <1>7. ASSUME NEW d \in Conn, FetchThrows(c, d) PROVE TypeOK'
    <2>1. <<Plain("close")>> \in Seq(Message)
      BY <1>1 DEF Control
    <2>2. up' \in [Conn -> Seq(Message)]
      BY <1>7, <2>1 DEF FetchThrows, TypeOK
    <2> QED
      BY <1>2, <1>7, <2>2 DEF FetchThrows, TypeOK, device, Control
  <1>8. CASE WebSocketMessage(c)
    <2>1. up' \in [Conn -> Seq(Message)]
      BY <1>3, <1>8 DEF WebSocketMessage
    <2>2. Head(up[c]) \in Message
      BY <1>8, TakeMessage DEF WebSocketMessage, TypeOK
    <2>3. \A d \in Conn : Send(d, Head(up[c])) \in [Conn -> Seq(Message)]
      BY <2>2, SendType
    <2>4. Sockets(Other(Owner(c))) \subseteq Conn
      BY DEF Sockets
    <2>5. /\ socket' \in [Conn -> {"none", "open", "closing", "unreported"}]
          /\ down' \in [Conn -> Seq(Message)]
      BY <1>8, <2>3, <2>4, ClosedType, ToldClosedType DEF WebSocketMessage, TypeOK
    <2> QED
      BY <1>8, <2>1, <2>5 DEF WebSocketMessage, TypeOK, device
  <1>9. CASE WebSocketClose(c)
    BY <1>9, ClosePairType DEF WebSocketClose, TypeOK, device
  <1>10. CASE WebSocketCloseLate(c)
    BY <1>10, ClosePairType DEF WebSocketCloseLate, TypeOK, device
  <1>11. CASE Unlist(c)
    BY <1>11 DEF Unlist, TypeOK, device
  <1> QED
    BY <1>4, <1>5, <1>6, <1>7, <1>8, <1>9, <1>10, <1>11 DEF Relay, Fetch

LEMMA DeviceType ==
  ASSUME TypeOK, NEW s \in Side,
         Read(s) \/ TimesOut(s) \/ Fails(s) \/ Break(s) \/ \E c \in Conn : Dial(s, c)
  PROVE  TypeOK'
  <1>1. CASE Read(s)
    <2>1. DeviceOK'
      BY <1>1, ReadType
    <2> QED
      BY <1>1, <2>1 DEF Read, DeviceOK, TypeOK
  <1>2. CASE TimesOut(s)
    <2>1. DeviceOK'
      BY <1>2, HangUpType DEF TimesOut, TimeoutDue, TimeoutEarly
    <2> QED
      BY <1>2, <2>1 DEF TimesOut, DeviceOK, TypeOK
  <1>3. CASE Fails(s)
    <2>1. DeviceOK'
      BY <1>3, HangUpType DEF Fails
    <2>2. network \in Networks /\ network.faults \in Nat
      BY RelayAssumption DEF TypeOK
    <2>3. faults' \in 0..network'.faults
      BY <1>3, <2>2 DEF Fails, TypeOK
    <2> QED
      BY <1>3, <2>1, <2>3 DEF Fails, DeviceOK, TypeOK
  <1>4. CASE Break(s)
    <2>1. conn[s] \in Conn
      BY <1>4 DEF Break, TypeOK
    <2>2. network \in Networks /\ network.faults \in Nat
      BY RelayAssumption DEF TypeOK
    <2>3. faults' \in 0..network'.faults
      BY <1>4, <2>2 DEF Break, TypeOK
    <2>4. up' \in [Conn -> Seq(Message)] /\ down' \in [Conn -> Seq(Message)]
      BY <1>4, <2>1 DEF Break, TypeOK
    <2> QED
      BY <1>4, <2>1, <2>3, <2>4 DEF Break, TypeOK, device
  <1>5. ASSUME NEW c \in Conn, Dial(s, c) PROVE TypeOK'
    <2>1. <<Plain("request")>> \in Seq(Message)
      BY PlainMessage DEF Control
    <2>2. up' \in [Conn -> Seq(Message)]
      BY <1>5, <2>1 DEF Dial, TypeOK
    <2>3. c # None
      BY RelayAssumption
    <2> QED
      BY <1>5, <2>2, <2>3 DEF Dial, TypeOK, Phase
  <1> QED
    BY <1>1, <1>2, <1>3, <1>4, <1>5

(* The state stays well formed; in particular a device's connection is its  *)
(* own, its partner the other side's, and a handshake message names a       *)
(* connection of each side that has taken part.                             *)
THEOREM TypeCorrect == Spec => []TypeOK
  <1>1. Init => TypeOK
    <2> SUFFICES ASSUME Init PROVE TypeOK
      OBVIOUS
    <2>1. network.faults \in Nat
      BY RelayAssumption DEF Init
    <2>2. faults \in 0..network.faults
      BY <2>1 DEF Init
    <2> QED
      BY <2>2 DEF Init, TypeOK, Phase
  <1>2. TypeOK /\ [Next]_vars => TypeOK'
    <2> SUFFICES ASSUME TypeOK, [Next]_vars PROVE TypeOK'
      OBVIOUS
    <2>1. CASE Next
      BY <2>1, RelayType, DeviceType DEF Next
    <2>2. CASE UNCHANGED vars
      BY <2>2 DEF vars, TypeOK
    <2> QED
      BY <2>1, <2>2
  <1> QED
    BY <1>1, <1>2, PTL DEF Spec

-----------------------------------------------------------------------------
(* That the devices meet as Rendezvous says rests on the last handshake      *)
(* message: a connection of b sends at most one, not before b serves, and    *)
(* the relay, whatever it mixes up, never doubles a message.                 *)

(* The last handshake messages in a queue, and that none is there twice.     *)
Finals(q) == {m \in {q[i] : i \in 1..Len(q)} : m.kind = "finished"}
OnceIn(q) ==
  \A i, j \in 1..Len(q) :
    q[i].kind = "finished" /\ q[j].kind = "finished" /\ q[i].b = q[j].b => i = j
Foreign(M, N) == \A m \in M, n \in N : m.b # n.b

FinalsUp   == UNION {Finals(up[c]) : c \in Conn}
FinalsDown == UNION {Finals(down[c]) : c \in Conn}

(* A last message is in one place.                                           *)
EachOnce ==
  /\ \A c \in Conn : OnceIn(up[c]) /\ OnceIn(down[c])
  /\ \A c, d \in Conn : Foreign(Finals(up[c]), Finals(down[d]))
  /\ \A c, d \in Conn : c # d => /\ Foreign(Finals(up[c]), Finals(up[d]))
                                 /\ Foreign(Finals(down[c]), Finals(down[d]))

(* A connection b has not got to serving with is in no session of a's.       *)
NotYet ==
  phase["b"] # "serving" =>
    /\ \A m \in FinalsUp \cup FinalsDown : m.b # conn["b"]
    /\ phase["a"] = "serving" => partner["a"] # conn["b"]

(* Nothing reaches a device over a broken connection, and one that serves    *)
(* has a partner.                                                            *)
CutSilent  == \A c \in cut : down[c] = <<>>
ServesWith == \A s \in Side : phase[s] = "serving" => partner[s] # None

MeetInv == TypeOK /\ EachOnce /\ NotYet /\ CutSilent /\ ServesWith

(* A queue that loses last messages, or gets others, gains none.             *)
Loses(q, r) == Finals(r) \subseteq Finals(q) /\ (OnceIn(q) => OnceIn(r))

LEMMA LosesSelf == \A q : Loses(q, q)
  BY DEF Loses

LEMMA LosesEmpty == \A q : Loses(q, <<>>) /\ Finals(<<>>) = {}
  BY DEF Loses, Finals, OnceIn

LEMMA LosesAll ==
  ASSUME NEW q, NEW m \in Message, m.kind # "finished"
  PROVE  Loses(q, <<m>>) /\ Finals(<<m>>) = {}
  <1>1. Len(<<m>>) = 1 /\ <<m>>[1] = m
    OBVIOUS
  <1> QED
    BY <1>1 DEF Loses, Finals, OnceIn

LEMMA FinalsAppend ==
  ASSUME NEW q \in Seq(Message), NEW m \in Message
  PROVE  /\ m.kind # "finished" => Loses(q, Append(q, m)) /\ Finals(Append(q, m)) = Finals(q)
         /\ m.kind = "finished" => Finals(Append(q, m)) = Finals(q) \cup {m}
         /\ OnceIn(q) /\ Foreign(Finals(q), {m}) => OnceIn(Append(q, m))
  <1> DEFINE r == Append(q, m)
  <1>1. /\ Len(r) = Len(q) + 1 /\ Len(q) \in Nat
        /\ \A i \in 1..Len(q) : r[i] = q[i]
        /\ r[Len(q) + 1] = m
    OBVIOUS
  <1> HIDE DEF r
  <1>2. {r[i] : i \in 1..Len(r)} = {q[i] : i \in 1..Len(q)} \cup {m}
    BY <1>1
  <1>3. /\ m.kind # "finished" => Finals(r) = Finals(q)
        /\ m.kind = "finished" => Finals(r) = Finals(q) \cup {m}
    BY <1>2 DEF Finals
  <1>4. ASSUME OnceIn(q), m.kind # "finished" \/ Foreign(Finals(q), {m})
        PROVE  OnceIn(r)
    <2>1. SUFFICES ASSUME NEW i \in 1..Len(r), NEW j \in 1..Len(r),
                          r[i].kind = "finished", r[j].kind = "finished", r[i].b = r[j].b
                   PROVE  i = j
      BY DEF OnceIn
    <2>2. CASE i \in 1..Len(q) /\ j \in 1..Len(q)
      BY <1>1, <1>4, <2>1, <2>2 DEF OnceIn
    <2>3. CASE i \in 1..Len(q) /\ j = Len(q) + 1
      BY <1>1, <1>4, <2>1, <2>3 DEF Foreign, Finals
    <2>4. CASE i = Len(q) + 1 /\ j \in 1..Len(q)
      BY <1>1, <1>4, <2>1, <2>4 DEF Foreign, Finals
    <2> QED
      BY <1>1, <2>2, <2>3, <2>4
  <1> QED
    BY <1>3, <1>4 DEF Loses, r

LEMMA FinalsTail ==
  ASSUME NEW q \in Seq(Message), q # <<>>
  PROVE  /\ Loses(q, Tail(q))
         /\ Head(q).kind # "finished" => Finals(Tail(q)) = Finals(q)
         /\ Head(q).kind = "finished" =>
              /\ Finals(q) = Finals(Tail(q)) \cup {Head(q)}
              /\ OnceIn(q) => Foreign(Finals(Tail(q)), {Head(q)})
  <1> DEFINE r == Tail(q)
  <1>1. /\ Len(r) = Len(q) - 1 /\ Len(q) \in Nat \ {0}
        /\ \A i \in 1..Len(r) : r[i] = q[i + 1]
        /\ Head(q) = q[1]
    BY EmptySeq, HeadTailProperties
  <1> HIDE DEF r
  <1>2. {q[i] : i \in 1..Len(q)} = {r[i] : i \in 1..Len(r)} \cup {q[1]}
    <2>1. ASSUME NEW i \in 1..Len(q), i # 1 PROVE q[i] \in {r[k] : k \in 1..Len(r)}
      <3>1. i - 1 \in 1..Len(r) /\ r[i - 1] = q[i]
        BY <1>1, <2>1
      <3> QED
        BY <3>1
    <2>2. ASSUME NEW i \in 1..Len(r) PROVE r[i] \in {q[k] : k \in 1..Len(q)}
      <3>1. i + 1 \in 1..Len(q) /\ r[i] = q[i + 1]
        BY <1>1
      <3> QED
        BY <3>1
    <2>3. 1 \in 1..Len(q)
      BY <1>1
    <2> QED
      BY <2>1, <2>2, <2>3
  <1>3. ASSUME OnceIn(q) PROVE OnceIn(r)
    <2>1. SUFFICES ASSUME NEW i \in 1..Len(r), NEW j \in 1..Len(r),
                          r[i].kind = "finished", r[j].kind = "finished", r[i].b = r[j].b
                   PROVE  i = j
      BY DEF OnceIn
    <2>2. i + 1 \in 1..Len(q) /\ j + 1 \in 1..Len(q) /\ r[i] = q[i + 1] /\ r[j] = q[j + 1]
      BY <1>1
    <2>3. i + 1 = j + 1
      BY <1>3, <2>1, <2>2 DEF OnceIn
    <2> QED
      BY <2>3
  <1>4. ASSUME OnceIn(q), q[1].kind = "finished", NEW m \in Finals(r)
        PROVE  m.b # q[1].b
    <2>1. PICK i \in 1..Len(r) : m = r[i] /\ m.kind = "finished"
      BY DEF Finals
    <2>2. i + 1 \in 1..Len(q) /\ i + 1 # 1 /\ m = q[i + 1] /\ 1 \in 1..Len(q)
      BY <1>1, <2>1
    <2> QED
      BY <1>4, <2>1, <2>2 DEF OnceIn
  <1>5. /\ Finals(r) \subseteq Finals(q)
        /\ q[1].kind = "finished" => Finals(q) = Finals(r) \cup {q[1]}
        /\ q[1].kind # "finished" => Finals(q) = Finals(r)
    BY <1>2 DEF Finals
  <1> QED
    BY <1>1, <1>3, <1>4, <1>5 DEF Loses, Foreign, r

(* The offers Rendezvous speaks of are the last messages under way.          *)
OfferedAreFinals == Offered = {<<m.a, m.b>> : m \in FinalsUp \cup FinalsDown}

LEMMA OfferedFinals == TypeOK => OfferedAreFinals
  <1> SUFFICES ASSUME TypeOK PROVE OfferedAreFinals
    OBVIOUS
  <1>1. \A c \in Conn : DOMAIN up[c] = 1..Len(up[c]) /\ DOMAIN down[c] = 1..Len(down[c])
    BY DEF TypeOK
  <1>2. {n \in InTransit : n.kind = "finished"} = FinalsUp \cup FinalsDown
    BY <1>1 DEF InTransit, FinalsUp, FinalsDown, Finals
  <1> QED
    BY <1>2 DEF Offered, OfferedAreFinals

LEMMA OfferedFinalsNext == TypeOK' => OfferedAreFinals'
  BY OfferedFinals, PTL

LEMMA FinalsType ==
  ASSUME TypeOK, NEW m \in FinalsUp \cup FinalsDown
  PROVE  m.kind = "finished" /\ m.a \in ConnOf("a") /\ m.b \in ConnOf("b") /\ m \in Message
         /\ m = [kind |-> "finished", a |-> m.a, b |-> m.b]
  <1>1. \A c \in Conn : up[c] \in Seq(Message) /\ down[c] \in Seq(Message)
    BY DEF TypeOK
  <1>2. \A q \in Seq(Message) : \A i \in 1..Len(q) : q[i] \in Message
    OBVIOUS
  <1>3. m \in Message /\ m.kind = "finished"
    BY <1>1, <1>2 DEF FinalsUp, FinalsDown, Finals
  <1> QED
    BY <1>3 DEF Message, Control

(* A step in which every queue only loses last messages.                     *)
Losing == \A c \in Conn : Loses(up[c], up'[c]) /\ Loses(down[c], down'[c])

LEMMA LosingKeeps ==
  ASSUME EachOnce, Losing
  PROVE  EachOnce' /\ FinalsUp' \subseteq FinalsUp /\ FinalsDown' \subseteq FinalsDown
  <1>1. \A c \in Conn : /\ Finals(up'[c]) \subseteq Finals(up[c])
                        /\ Finals(down'[c]) \subseteq Finals(down[c])
                        /\ OnceIn(up'[c]) /\ OnceIn(down'[c])
    BY DEF Losing, Loses, EachOnce
  <1>2. FinalsUp' \subseteq FinalsUp /\ FinalsDown' \subseteq FinalsDown
    BY <1>1 DEF FinalsUp, FinalsDown
  <1>3. \A c, d \in Conn : Foreign(Finals(up'[c]), Finals(down'[d]))
    BY <1>1 DEF EachOnce, Foreign
  <1>4. \A c, d \in Conn : c # d => /\ Foreign(Finals(up'[c]), Finals(up'[d]))
                                    /\ Foreign(Finals(down'[c]), Finals(down'[d]))
    BY <1>1 DEF EachOnce, Foreign
  <1> QED
    BY <1>1, <1>2, <1>3, <1>4 DEF EachOnce

(* What the relay sends and the closing of sockets lose nothing and go only  *)
(* to devices that listen.                                                   *)
LEMMA SendLoses ==
  ASSUME TypeOK, CutSilent, NEW c \in Conn, NEW k \in Control
  PROVE  \A d \in Conn : /\ Loses(down[d], Send(c, Plain(k))[d])
                         /\ d \in cut => Send(c, Plain(k))[d] = <<>>
  <1>1. Plain(k) \in Message /\ Plain(k).kind # "finished"
    BY PlainMessage DEF Plain, Msg, Control
  <1>2. Loses(down[c], Append(down[c], Plain(k)))
    BY <1>1, FinalsAppend DEF TypeOK
  <1>3. \A d \in Conn : Send(c, Plain(k))[d] =
          IF Reaches(c) /\ d = c THEN Append(down[c], Plain(k)) ELSE down[d]
    BY DEF Send, TypeOK
  <1> QED
    BY <1>2, <1>3, LosesSelf DEF Reaches, CutSilent

LEMMA ToldClosedLoses ==
  ASSUME TypeOK, CutSilent, NEW C
  PROVE  \A d \in Conn : /\ Loses(down[d], ToldClosed(C)[d])
                         /\ d \in cut => ToldClosed(C)[d] = <<>>
  <1>1. Plain("close") \in Message /\ Plain("close").kind # "finished"
    BY PlainMessage DEF Plain, Msg, Control
  <1>2. \A d \in Conn : Loses(down[d], Append(down[d], Plain("close")))
    BY <1>1, FinalsAppend DEF TypeOK
  <1> QED
    BY <1>2, LosesSelf DEF ToldClosed, Reaches, CutSilent

LEMMA ConsumedLoses ==
  ASSUME TypeOK, NEW c \in Conn, up[c] # <<>>
  PROVE  \A d \in Conn : Loses(up[d], Consumed(c)[d])
  <1>1. up[c] \in Seq(Message) /\ Loses(up[c], Tail(up[c]))
    BY FinalsTail DEF TypeOK
  <1> QED
    BY <1>1, LosesSelf DEF Consumed, TypeOK

LEMMA RelayLoses ==
  ASSUME TypeOK, CutSilent, NEW c \in Conn,
         Fetch(c) \/ WebSocketClose(c) \/ WebSocketCloseLate(c) \/ Unlist(c)
  PROVE  Losing /\ CutSilent'
  <1>1. \A d \in Conn : Loses(up[d], up[d]) /\ Loses(down[d], down[d]) /\ Loses(up[d], <<>>)
    BY LosesSelf, LosesEmpty
  <1>2. ASSUME NEW k \in Control, down' = Send(c, Plain(k)), cut' = cut
        PROVE  (\A d \in Conn : Loses(down[d], down'[d])) /\ CutSilent'
    <2>1. \A d \in Conn : Loses(down[d], down'[d]) /\ (d \in cut => down'[d] = <<>>)
      BY <1>2, SendLoses
    <2>2. cut \subseteq Conn
      BY DEF TypeOK
    <2> QED
      BY <1>2, <2>1, <2>2 DEF CutSilent
  <1>3. ASSUME up' = Consumed(c), up[c] # <<>>
        PROVE  \A d \in Conn : Loses(up[d], up'[d])
    BY <1>3, ConsumedLoses
  <1>4. ASSUME up' = [up EXCEPT ![c] = <<>>]
        PROVE  \A d \in Conn : Loses(up[d], up'[d])
    BY <1>1, <1>4 DEF TypeOK
  <1>5. ASSUME ClosePair(c), cut' = cut
        PROVE  (\A d \in Conn : Loses(down[d], down'[d])) /\ CutSilent'
    <2> DEFINE others == {d \in Conn : Listed(d)} \ {c}
    <2>1. down' = ToldClosed(others)
      BY <1>5 DEF ClosePair
    <2> HIDE DEF others
    <2>2. \A d \in Conn : Loses(down[d], down'[d]) /\ (d \in cut => down'[d] = <<>>)
      BY <2>1, ToldClosedLoses
    <2>3. cut \subseteq Conn
      BY DEF TypeOK
    <2> QED
      BY <1>5, <2>2, <2>3 DEF CutSilent
  <1>6. CASE FetchRefused(c)
    <2>1. down' = Send(c, Plain("refused")) /\ up' = [up EXCEPT ![c] = <<>>] /\ cut' = cut
      BY <1>6 DEF FetchRefused
    <2> QED
      BY <2>1, <1>2, <1>4 DEF Losing, Control
  <1>7. CASE FetchFirst(c)
    <2>1. down' = Send(c, Plain("accepted")) /\ up' = Consumed(c) /\ cut' = cut /\ up[c] # <<>>
      BY <1>7 DEF FetchFirst, Arrives
    <2> QED
      BY <2>1, <1>2, <1>3 DEF Losing, Control
  <1>8. ASSUME NEW d \in Conn, FetchSecond(c, d) PROVE Losing /\ CutSilent'
    <2>1. Plain("accepted") \in Message /\ Plain("ready") \in Message
          /\ Plain("accepted").kind # "finished" /\ Plain("ready").kind # "finished"
      BY PlainMessage DEF Plain, Msg, Control
    <2>2. \A e \in Conn : down[e] \in Seq(Message)
      BY DEF TypeOK
    <2>3. ASSUME NEW e \in Conn
          PROVE  Loses(down[e], down[e] \o <<Plain("accepted"), Plain("ready")>>)
      <3> DEFINE q == Append(down[e], Plain("accepted"))
      <3>1. q \in Seq(Message)
        BY <2>1, <2>2, AppendProperties
      <3>4. Loses(down[e], q)
        BY <2>1, <2>2, FinalsAppend
      <3>2. down[e] \o <<Plain("accepted"), Plain("ready")>> = Append(q, Plain("ready"))
        <4> HIDE DEF Plain
        <4> QED
          BY <2>1, <2>2
      <3> HIDE DEF q
      <3>3. Loses(q, Append(q, Plain("ready")))
        BY <2>1, <3>1, FinalsAppend
      <3> QED
        BY <3>2, <3>3, <3>4 DEF Loses
    <2>4. \A e \in Conn : Loses(down[e], Append(down[e], Plain("ready")))
      BY <2>1, <2>2, FinalsAppend
    <2>5. \A e \in Conn : /\ down'[e] \in {down[e], Append(down[e], Plain("ready")),
                                          down[e] \o <<Plain("accepted"), Plain("ready")>>}
                          /\ e \in cut => down'[e] = down[e]
      BY <1>8 DEF FetchSecond, Reaches
    <2>6. \A e \in Conn : Loses(down[e], down'[e])
      BY <1>1, <2>3, <2>4, <2>5
    <2>7. CutSilent'
      BY <1>8, <2>5 DEF FetchSecond, CutSilent, TypeOK
    <2>8. up' = Consumed(c) /\ up[c] # <<>>
      BY <1>8 DEF FetchSecond, Arrives
    <2> QED
      BY <1>3, <2>6, <2>7, <2>8 DEF Losing
  <1>9. ASSUME NEW d \in Conn, FetchThrows(c, d) PROVE Losing /\ CutSilent'
    <2>1. /\ down' = Send(c, Plain("refused")) /\ cut' = cut
          /\ up' = [up EXCEPT ![c] = <<Plain("close")>>]
      BY <1>9 DEF FetchThrows
    <2>2. Loses(up[c], <<Plain("close")>>)
      <3>1. Plain("close") \in Message /\ Plain("close").kind # "finished"
        BY PlainMessage DEF Plain, Msg, Control
      <3> QED
        BY <3>1, LosesAll
    <2>3. \A e \in Conn : Loses(up[e], up'[e])
      BY <1>1, <2>1, <2>2 DEF TypeOK
    <2> QED
      BY <1>2, <2>1, <2>3 DEF Losing, Control
  <1>10. CASE WebSocketClose(c)
    BY <1>4, <1>5, <1>10 DEF WebSocketClose, Losing
  <1>11. CASE WebSocketCloseLate(c)
    BY <1>1, <1>5, <1>11 DEF WebSocketCloseLate, Losing
  <1>12. CASE Unlist(c)
    BY <1>1, <1>4, <1>12 DEF Unlist, Losing, CutSilent
  <1> QED
    BY <1>6, <1>7, <1>8, <1>9, <1>10, <1>11, <1>12 DEF Fetch

(* webSocketMessage moves a message, or loses it.                            *)
LEMMA MessageMoves ==
  ASSUME TypeOK, CutSilent, EachOnce, NEW c \in Conn, WebSocketMessage(c)
  PROVE  /\ EachOnce' /\ CutSilent'
         /\ FinalsUp' \cup FinalsDown' \subseteq FinalsUp \cup FinalsDown
  <1> DEFINE m == Head(up[c])
  <1>1. up[c] # <<>> /\ up' = Consumed(c) /\ cut' = cut
    BY DEF WebSocketMessage
  <1>2. m \in Message /\ up[c] \in Seq(Message)
    BY <1>1, TakeMessage DEF TypeOK
  <1>3. \A e \in Conn : Loses(up[e], up'[e])
    BY <1>1, ConsumedLoses
  <1>4. cut \subseteq Conn /\ \A e \in Conn : down[e] \in Seq(Message)
    BY DEF TypeOK
  <1>5. ASSUME down' = ToldClosed({c})
        PROVE  /\ EachOnce' /\ CutSilent'
               /\ FinalsUp' \cup FinalsDown' \subseteq FinalsUp \cup FinalsDown
    <2>1. \A e \in Conn : Loses(down[e], down'[e]) /\ (e \in cut => down'[e] = <<>>)
      BY <1>5, ToldClosedLoses
    <2>2. CutSilent'
      BY <1>1, <1>4, <2>1 DEF CutSilent
    <2> QED
      BY <1>3, <2>1, <2>2, LosingKeeps DEF Losing
  <1>6. ASSUME NEW d \in Conn, down' = Send(d, m)
        PROVE  /\ EachOnce' /\ CutSilent'
               /\ FinalsUp' \cup FinalsDown' \subseteq FinalsUp \cup FinalsDown
    <2>1. /\ \A e \in Conn : e # d => down'[e] = down[e]
          /\ down'[d] \in {down[d], Append(down[d], m)}
          /\ d \in cut => down'[d] = down[d]
      BY <1>6 DEF Send, Reaches, TypeOK
    <2>2. CutSilent'
      BY <1>1, <1>4, <2>1 DEF CutSilent
    <2>3. CASE m.kind # "finished" \/ down'[d] = down[d]
      <3>1. Loses(down[d], down'[d])
        <4> HIDE DEF m
        <4>1. m.kind # "finished" => Loses(down[d], Append(down[d], m))
          BY <1>2, <1>4, FinalsAppend
        <4>2. Loses(down[d], down[d])
          BY LosesSelf
        <4> QED
          BY <2>1, <2>3, <4>1, <4>2
      <3>2. Losing
        BY <1>3, <2>1, <3>1, LosesSelf DEF Losing
      <3> QED
        BY <2>2, <3>2, LosingKeeps
    <2>4. CASE m.kind = "finished" /\ down'[d] = Append(down[d], m)
      <3>1. /\ Finals(up[c]) = Finals(up'[c]) \cup {m} /\ Foreign(Finals(up'[c]), {m})
        <4>1. up'[c] = Tail(up[c])
          BY <1>1 DEF Consumed, TypeOK
        <4>2. OnceIn(up[c])
          BY DEF EachOnce
        <4> QED
          BY <1>1, <1>2, <2>4, <4>1, <4>2, FinalsTail
      <3>2. \A e \in Conn : Finals(up'[e]) \subseteq Finals(up[e]) /\ OnceIn(up'[e])
        BY <1>3 DEF Loses, EachOnce
      <3>3. \A e \in Conn : Foreign(Finals(down[e]), {m})
        BY <3>1 DEF EachOnce, Foreign
      <3>4. Finals(down'[d]) = Finals(down[d]) \cup {m} /\ OnceIn(down'[d])
        <4>1. OnceIn(down[d]) /\ Foreign(Finals(down[d]), {m})
          BY <3>3 DEF EachOnce
        <4> QED
          BY <1>2, <1>4, <2>4, <4>1, FinalsAppend
      <3>5. \A e \in Conn : Foreign(Finals(up'[e]), {m})
        <4>1. \A e \in Conn : e # c => Foreign(Finals(up[e]), {m})
          BY <3>1 DEF EachOnce, Foreign
        <4> QED
          BY <3>1, <3>2, <4>1 DEF Foreign
      <3>6. \A e \in Conn : Finals(down'[e]) \subseteq Finals(down[e]) \cup {m} /\ OnceIn(down'[e])
        BY <2>1, <3>4 DEF EachOnce
      <3>7. \A e, f \in Conn : Foreign(Finals(up'[e]), Finals(down'[f]))
        BY <3>2, <3>5, <3>6 DEF EachOnce, Foreign
      <3>8. \A e, f \in Conn : e # f => Foreign(Finals(up'[e]), Finals(up'[f]))
        BY <3>2 DEF EachOnce, Foreign
      <3>9. \A e, f \in Conn : e # f => Foreign(Finals(down'[e]), Finals(down'[f]))
        BY <2>1, <3>3, <3>4 DEF EachOnce, Foreign
      <3>10. FinalsUp' \cup FinalsDown' \subseteq FinalsUp \cup FinalsDown
        BY <3>1, <3>2, <3>6 DEF FinalsUp, FinalsDown
      <3> QED
        BY <2>2, <3>2, <3>6, <3>7, <3>8, <3>9, <3>10 DEF EachOnce
    <2> QED
      BY <2>1, <2>3, <2>4
  <1>7. Sockets(Other(Owner(c))) \subseteq Conn
    BY DEF Sockets
  <1>8. down' = ToldClosed({c}) \/ \E d \in Conn : down' = Send(d, m)
    BY <1>7 DEF WebSocketMessage
  <1> HIDE DEF m
  <1> QED
    BY <1>5, <1>6, <1>8

-----------------------------------------------------------------------------
(* The sessions of the devices, side by side with Rendezvous.                *)
SessionsAre ==
  /\ phase["a"] = "serving" => SessionOf("a") = <<conn["a"], partner["a"]>>
  /\ phase["b"] = "serving" => SessionOf("b") = <<partner["b"], conn["b"]>>
  /\ \A s \in Side : phase[s] # "serving" => SessionOf(s) = None

LEMMA Sessions == SessionsAre
  <1>1. phase["a"] = "serving" => SessionOf("a") = <<conn["a"], partner["a"]>>
    BY DEF SessionOf
  <1>2. phase["b"] = "serving" => SessionOf("b") = <<partner["b"], conn["b"]>>
    BY DEF SessionOf
  <1>3. \A s \in Side : phase[s] # "serving" => SessionOf(s) = None
    BY DEF SessionOf
  <1> QED
    BY <1>1, <1>2, <1>3 DEF SessionsAre

LEMMA SessionsNext == SessionsAre'
  BY Sessions, PTL

(* A step in which nobody takes up a session and none is offered.            *)
LEMMA LeaveStep ==
  ASSUME TypeOK, TypeOK', FinalsUp' \cup FinalsDown' \subseteq FinalsUp \cup FinalsDown,
         \A s \in Side : phase'[s] = "serving" =>
           phase[s] = "serving" /\ conn'[s] = conn[s] /\ partner'[s] = partner[s]
  PROVE  R!Next
  <1>1. Offered' \subseteq Offered
    <2>1. Offered' = {<<m.a, m.b>> : m \in FinalsUp' \cup FinalsDown'}
      BY OfferedFinalsNext DEF OfferedAreFinals
    <2>2. Offered = {<<m.a, m.b>> : m \in FinalsUp \cup FinalsDown}
      BY OfferedFinals DEF OfferedAreFinals
    <2> QED
      BY <2>1, <2>2
  <1>2. SessionOf("a")' \in {SessionOf("a"), None}
    <2>1. CASE phase'["a"] = "serving"
      BY <2>1, Sessions, SessionsNext DEF SessionsAre, Side
    <2>2. CASE phase'["a"] # "serving"
      BY <2>2, SessionsNext DEF SessionsAre, Side
    <2> QED
      BY <2>1, <2>2
  <1>3. SessionOf("b")' \in {SessionOf("b"), None}
    <2>1. CASE phase'["b"] = "serving"
      BY <2>1, Sessions, SessionsNext DEF SessionsAre, Side
    <2>2. CASE phase'["b"] # "serving"
      BY <2>2, SessionsNext DEF SessionsAre, Side
    <2> QED
      BY <2>1, <2>2
  <1> QED
    BY <1>1, <1>2, <1>3 DEF R!Next, R!Leave

(* A step of the relay.                                                      *)
LEMMA RelayMeets ==
  ASSUME MeetInv, NEW c \in Conn, Relay(c) \/ Unlist(c)
  PROVE  MeetInv' /\ R!Next
  <1> USE DEF MeetInv
  <1>1. TypeOK' /\ UNCHANGED <<phase, conn, partner, cut>>
    <2>1. UNCHANGED <<phase, conn, partner, cut>>
      BY DEF Relay, Fetch, FetchRefused, FetchFirst, FetchSecond, FetchThrows,
             WebSocketMessage, WebSocketClose, WebSocketCloseLate, Unlist, device
    <2> QED
      BY <2>1, RelayType
  <1>2. /\ EachOnce' /\ CutSilent'
        /\ FinalsUp' \cup FinalsDown' \subseteq FinalsUp \cup FinalsDown
    <2>1. CASE WebSocketMessage(c)
      BY <2>1, MessageMoves
    <2>2. CASE Fetch(c) \/ WebSocketClose(c) \/ WebSocketCloseLate(c) \/ Unlist(c)
      BY <2>2, RelayLoses, LosingKeeps
    <2> QED
      BY <2>1, <2>2 DEF Relay
  <1>3. NotYet' /\ ServesWith'
    BY <1>1, <1>2 DEF NotYet, ServesWith
  <1> QED
    BY <1>1, <1>2, <1>3, LeaveStep

(* A device dials.                                                           *)
LEMMA DialMeets ==
  ASSUME MeetInv, NEW s \in Side, NEW c \in Conn, Dial(s, c)
  PROVE  MeetInv' /\ R!Next
  <1> USE DEF MeetInv
  <1>1. /\ TypeOK' /\ Owner(c) = s /\ Unused(c)
        /\ phase' = [phase EXCEPT ![s] = "dialing"] /\ conn' = [conn EXCEPT ![s] = c]
        /\ cut' = cut \ {c} /\ up' = [up EXCEPT ![c] = <<Plain("request")>>]
        /\ UNCHANGED <<partner, down>>
    BY DeviceType DEF Dial
  <1>2. Losing
    <2>1. Plain("request") \in Message /\ Plain("request").kind # "finished"
      BY PlainMessage DEF Plain, Msg, Control
    <2>2. Loses(up[c], <<Plain("request")>>)
      BY <2>1, LosesAll
    <2> QED
      BY <1>1, <2>2, LosesSelf DEF Losing, TypeOK
  <1>3. EachOnce' /\ FinalsUp' \cup FinalsDown' \subseteq FinalsUp \cup FinalsDown
    BY <1>2, LosingKeeps
  <1>4. CutSilent' /\ ServesWith'
    BY <1>1 DEF CutSilent, ServesWith, TypeOK
  <1>5. \A t \in Side : phase'[t] = "serving" =>
           phase[t] = "serving" /\ conn'[t] = conn[t] /\ partner'[t] = partner[t]
    BY <1>1 DEF TypeOK
  <1>6. NotYet'
    <2>1. CASE s = "a"
      BY <1>1, <1>3, <1>5, <2>1 DEF NotYet, TypeOK, Side
    <2>2. CASE s = "b"
      <3>1. conn'["b"] = c /\ partner'["a"] # c
        BY <1>1, <2>2 DEF Unused, TypeOK, Side
      <3>2. ASSUME NEW m \in FinalsUp \cup FinalsDown PROVE m.b # c
        <4>1. \A d \in Conn : DOMAIN up[d] = 1..Len(up[d]) /\ DOMAIN down[d] = 1..Len(down[d])
          BY DEF TypeOK
        <4>2. PICK d \in Conn : m \in Finals(up[d]) \/ m \in Finals(down[d])
          BY DEF FinalsUp, FinalsDown
        <4>3. PICK q \in {up[d], down[d]} : \E i \in DOMAIN q : m = q[i]
          BY <4>1, <4>2 DEF Finals
        <4> QED
          BY <1>1, <4>3 DEF Unused
      <3> QED
        BY <1>3, <3>1, <3>2 DEF NotYet
    <2> QED
      BY <2>1, <2>2 DEF Side
  <1> QED
    BY <1>1, <1>3, <1>4, <1>5, <1>6, LeaveStep

(* A device hangs up.                                                        *)
LEMMA HangUpMeets ==
  ASSUME MeetInv, TypeOK', NEW s \in Side, phase[s] # "resting", HangUp(s), cut' = cut
  PROVE  MeetInv' /\ R!Next
  <1> USE DEF MeetInv
  <1>1. /\ phase' = [phase EXCEPT ![s] = "resting"] /\ conn' = [conn EXCEPT ![s] = None]
        /\ partner' = [partner EXCEPT ![s] = None]
        /\ \/ up' = up
           \/ up' = [up EXCEPT ![conn[s]] = Append(@, Plain("close"))]
        /\ down' = [down EXCEPT ![conn[s]] = <<>>]
        /\ conn[s] \in Conn
    BY DEF HangUp, TypeOK
  <1>2. Losing
    <2>1. Plain("close") \in Message /\ Plain("close").kind # "finished"
      BY PlainMessage DEF Plain, Msg, Control
    <2>2. up[conn[s]] \in Seq(Message)
      BY <1>1 DEF TypeOK
    <2>3. Loses(up[conn[s]], Append(up[conn[s]], Plain("close")))
      BY <2>1, <2>2, FinalsAppend
    <2>4. \A d \in Conn : Loses(up[d], up'[d])
      BY <1>1, <2>3, LosesSelf DEF TypeOK
    <2>5. \A d \in Conn : Loses(down[d], down'[d])
      BY <1>1, LosesSelf, LosesEmpty DEF TypeOK
    <2> QED
      BY <2>4, <2>5 DEF Losing
  <1>3. EachOnce' /\ FinalsUp' \cup FinalsDown' \subseteq FinalsUp \cup FinalsDown
    BY <1>2, LosingKeeps
  <1>4. CutSilent' /\ ServesWith'
    BY <1>1 DEF CutSilent, ServesWith, TypeOK
  <1>5. \A t \in Side : phase'[t] = "serving" =>
           phase[t] = "serving" /\ conn'[t] = conn[t] /\ partner'[t] = partner[t]
    BY <1>1 DEF TypeOK
  <1>6. NotYet'
    <2>1. CASE s = "a"
      BY <1>1, <1>3, <1>5, <2>1 DEF NotYet, TypeOK, Side
    <2>2. CASE s = "b"
      <3>1. conn'["b"] = None
        BY <1>1, <2>2 DEF TypeOK, Side
      <3>2. \A m \in FinalsUp \cup FinalsDown : m.b # None
        BY FinalsType, RelayAssumption DEF ConnOf
      <3>3. phase'["a"] = "serving" => partner'["a"] # None
        BY <1>4 DEF ServesWith, Side
      <3> QED
        BY <1>3, <3>1, <3>2, <3>3 DEF NotYet
    <2> QED
      BY <2>1, <2>2 DEF Side
  <1> QED
    BY <1>3, <1>4, <1>5, <1>6, LeaveStep

(* A connection breaks.                                                      *)
LEMMA BreakMeets ==
  ASSUME MeetInv, NEW s \in Side, Break(s)
  PROVE  MeetInv' /\ R!Next
  <1> USE DEF MeetInv
  <1>1. /\ TypeOK' /\ UNCHANGED <<phase, conn, partner>> /\ conn[s] \in Conn
        /\ cut' = cut \cup {conn[s]}
        /\ up' = [up EXCEPT ![conn[s]] = <<>>] /\ down' = [down EXCEPT ![conn[s]] = <<>>]
    BY DeviceType DEF Break, device, TypeOK
  <1>2. Losing
    BY <1>1, LosesSelf, LosesEmpty DEF Losing, TypeOK
  <1>3. EachOnce' /\ FinalsUp' \cup FinalsDown' \subseteq FinalsUp \cup FinalsDown
    BY <1>2, LosingKeeps
  <1>4. CutSilent' /\ ServesWith' /\ NotYet'
    BY <1>1, <1>3 DEF CutSilent, ServesWith, NotYet, TypeOK
  <1> QED
    BY <1>1, <1>3, <1>4, LeaveStep

(* What a read that is not the end of the handshake does to the queues.      *)
LEMMA ProceedLoses ==
  ASSUME TypeOK, NEW s \in Side, conn[s] \in Conn, down[conn[s]] # <<>>, NEW p, NEW d,
         NEW ms, ms = <<>> \/ \E m \in Message : ms = <<m>> /\ m.kind # "finished",
         Proceed(s, p, d, ms)
  PROVE  Losing
  <1> DEFINE c == conn[s]
  <1>1. up[c] \in Seq(Message) /\ down[c] \in Seq(Message)
    BY DEF TypeOK
  <1>2. Loses(up[c], up[c] \o ms)
    <2>1. CASE ms = <<>>
      <3>1. up[c] \o ms = up[c]
        BY <1>1, <2>1
      <3> QED
        BY <3>1, LosesSelf
    <2>2. ASSUME NEW m \in Message, ms = <<m>>, m.kind # "finished"
          PROVE  Loses(up[c], up[c] \o ms)
      <3>1. up[c] \o ms = Append(up[c], m)
        BY <1>1, <2>2
      <3> QED
        BY <1>1, <2>2, <3>1, FinalsAppend
    <2> QED
      BY <2>1, <2>2
  <1>3. Loses(down[c], Tail(down[c]))
    BY <1>1, FinalsTail
  <1>4. /\ up' = up \/ up' = [up EXCEPT ![c] = @ \o ms]
        /\ down' = [down EXCEPT ![c] = Tail(@)]
    BY DEF Proceed
  <1> HIDE DEF c
  <1>5. c \in Conn
    BY DEF c
  <1>6. \A e \in Conn : Loses(up[e], up'[e])
    BY <1>2, <1>4, <1>5, LosesSelf DEF TypeOK
  <1>7. \A e \in Conn : Loses(down[e], down'[e])
    BY <1>3, <1>4, <1>5, LosesSelf DEF TypeOK
  <1> QED
    BY <1>6, <1>7 DEF Losing

(* A device is accepted, becomes ready or says hello: nobody serves yet.     *)
LEMMA GreetingMeets ==
  ASSUME MeetInv, TypeOK', NEW s \in Side, conn[s] \in Conn, down[conn[s]] # <<>>,
         phase[s] # "serving", NEW p \in Phase \ {"serving", "resting"}, NEW d, NEW ms,
         ms = <<>> \/ \E m \in Message : ms = <<m>> /\ m.kind # "finished",
         Proceed(s, p, d, ms), cut' = cut
  PROVE  MeetInv' /\ R!Next
  <1> USE DEF MeetInv
  <1>1. /\ phase' = [phase EXCEPT ![s] = p] /\ partner' = [partner EXCEPT ![s] = d]
        /\ conn' = conn /\ down' = [down EXCEPT ![conn[s]] = Tail(@)]
    BY DEF Proceed
  <1>2. EachOnce' /\ FinalsUp' \cup FinalsDown' \subseteq FinalsUp \cup FinalsDown
    BY ProceedLoses, LosingKeeps
  <1>3. \A t \in Side : phase'[t] = "serving" =>
           phase[t] = "serving" /\ conn'[t] = conn[t] /\ partner'[t] = partner[t]
    BY <1>1 DEF TypeOK
  <1>4. CutSilent'
    BY <1>1 DEF CutSilent, TypeOK
  <1>5. ServesWith' /\ NotYet'
    <2>1. ServesWith'
      BY <1>3 DEF ServesWith
    <2>2. phase'["b"] # "serving" => phase["b"] # "serving"
      BY <1>1 DEF TypeOK
    <2>3. "a" \in Side
      BY DEF Side
    <2> QED
      BY <1>1, <1>2, <1>3, <2>1, <2>2, <2>3 DEF NotYet
  <1> QED
    BY <1>2, <1>3, <1>4, <1>5, LeaveStep

(* The reply: b begins a session and offers it with its last message.        *)
LEMMA ReplyMeets ==
  ASSUME MeetInv, TypeOK', phase["b"] = "greeting", conn["b"] \in Conn, down[conn["b"]] # <<>>,
         NEW x \in ConnOf("a"), Head(down[conn["b"]]).kind = "reply",
         Proceed("b", "serving", x, <<Msg("finished", x, conn["b"])>>), cut' = cut
  PROVE  MeetInv' /\ R!Next
  <1> USE DEF MeetInv
  <1> DEFINE c == conn["b"]
             f == Msg("finished", x, c)
  <1>1. c \notin cut /\ c \in Conn /\ Owner(c) = "b"
    BY DEF CutSilent, TypeOK, Side
  <1>2. f \in Message /\ f.kind = "finished" /\ f.a = x /\ f.b = c
    BY <1>1 DEF Msg, Message, ConnOf
  <1>3. /\ phase' = [phase EXCEPT !["b"] = "serving"] /\ partner' = [partner EXCEPT !["b"] = x]
        /\ conn' = conn /\ down' = [down EXCEPT ![c] = Tail(@)] /\ up' = [up EXCEPT ![c] = @ \o <<f>>]
    BY <1>1 DEF Proceed
  <1>4. \A m \in FinalsUp \cup FinalsDown : m.b # c
    BY DEF NotYet
  <1>5. up[c] \in Seq(Message) /\ down[c] \in Seq(Message) /\ OnceIn(up[c])
    BY <1>1 DEF TypeOK, EachOnce
  <1> HIDE DEF f
  <1>6. /\ \A e \in Conn : e # c => up'[e] = up[e] /\ down'[e] = down[e]
        /\ up'[c] = Append(up[c], f) /\ down'[c] = Tail(down[c])
    <2>1. up[c] \o <<f>> = Append(up[c], f)
      BY <1>2, <1>5
    <2> QED
      BY <1>1, <1>3, <2>1 DEF TypeOK
  <1>7. \A e \in Conn : Foreign(Finals(up[e]), {f}) /\ Foreign(Finals(down[e]), {f})
    BY <1>2, <1>4 DEF Foreign, FinalsUp, FinalsDown
  <1>8. Finals(up'[c]) = Finals(up[c]) \cup {f} /\ OnceIn(up'[c])
    BY <1>1, <1>2, <1>5, <1>6, <1>7, FinalsAppend
  <1>9. Finals(down'[c]) = Finals(down[c]) /\ Loses(down[c], down'[c])
    BY <1>5, <1>6, FinalsTail
  <1>10. \A e \in Conn : /\ Finals(down'[e]) = Finals(down[e]) /\ OnceIn(down'[e]) /\ OnceIn(up'[e])
                         /\ e # c => Finals(up'[e]) = Finals(up[e])
    BY <1>6, <1>8, <1>9 DEF EachOnce, Loses
  <1>11. EachOnce'
    <2>1. \A d, e \in Conn : Foreign(Finals(up'[d]), Finals(down'[e]))
      BY <1>7, <1>8, <1>10 DEF EachOnce, Foreign
    <2>2. \A d, e \in Conn : d # e => Foreign(Finals(up'[d]), Finals(up'[e]))
      BY <1>7, <1>8, <1>10 DEF EachOnce, Foreign
    <2>3. \A d, e \in Conn : d # e => Foreign(Finals(down'[d]), Finals(down'[e]))
      BY <1>10 DEF EachOnce
    <2> QED
      BY <1>10, <2>1, <2>2, <2>3 DEF EachOnce
  <1>12. FinalsUp' \cup FinalsDown' = FinalsUp \cup FinalsDown \cup {f}
    BY <1>1, <1>8, <1>10 DEF FinalsUp, FinalsDown
  <1>13. phase'["b"] = "serving" /\ phase'["a"] = phase["a"] /\ partner'["b"] = x
         /\ partner'["a"] = partner["a"]
    BY <1>3 DEF TypeOK, Side
  <1>14. CutSilent' /\ ServesWith' /\ NotYet'
    <2>1. CutSilent'
      BY <1>1, <1>3 DEF CutSilent, TypeOK
    <2>2. x # None
      BY RelayAssumption DEF ConnOf
    <2>3. ServesWith'
      BY <1>13, <2>2 DEF ServesWith, Side
    <2> QED
      BY <1>13, <2>1, <2>3 DEF NotYet
  <1>15. R!Begin(<<x, c>>)
    <2>1. Offered' = Offered \cup {<<x, c>>}
      <3>1. Offered' = {<<m.a, m.b>> : m \in FinalsUp' \cup FinalsDown'}
        BY OfferedFinalsNext DEF OfferedAreFinals
      <3>2. Offered = {<<m.a, m.b>> : m \in FinalsUp \cup FinalsDown}
        BY OfferedFinals DEF OfferedAreFinals
      <3> QED
        BY <1>2, <1>12, <3>1, <3>2
    <2>2. <<x, c>> \notin Offered
      <3>1. Offered = {<<m.a, m.b>> : m \in FinalsUp \cup FinalsDown}
        BY OfferedFinals DEF OfferedAreFinals
      <3> QED
        BY <1>4, <3>1
    <2>3. SessionOf("b") = None /\ SessionOf("b")' = <<x, c>>
      BY <1>3, <1>13, Sessions, SessionsNext DEF SessionsAre, Side
    <2>4. SessionOf("a")' = SessionOf("a")
      BY <1>3, <1>13, Sessions, SessionsNext DEF SessionsAre, Side
    <2>5. SessionOf("a") # <<x, c>>
      <3>1. CASE phase["a"] = "serving"
        BY <3>1, Sessions DEF SessionsAre, NotYet
      <3>2. CASE phase["a"] # "serving"
        <4>1. <<x, c>> \in Conn \X Conn
          BY <1>1 DEF ConnOf
        <4> QED
          BY <3>2, <4>1, Sessions, RelayAssumption DEF SessionsAre, Side
      <3> QED
        BY <3>1, <3>2
    <2> QED
      BY <2>1, <2>2, <2>3, <2>4, <2>5 DEF R!Begin
  <1>16. R!Next
    <2>1. <<x, c>> \in Conn \X Conn
      BY <1>1 DEF ConnOf
    <2> HIDE DEF c
    <2> QED
      BY <1>15, <2>1 DEF R!Next
  <1> QED
    BY <1>11, <1>14, <1>16

(* The last message: a joins the session it is for.                          *)
LEMMA FinishedMeets ==
  ASSUME MeetInv, TypeOK', phase["a"] = "greeting", conn["a"] \in Conn, down[conn["a"]] # <<>>,
         IsFinished("a", Head(down[conn["a"]])),
         Proceed("a", "serving", partner["a"], <<>>), cut' = cut
  PROVE  MeetInv' /\ R!Next
  <1> USE DEF MeetInv
  <1> DEFINE c == conn["a"]
             f == Head(down[c])
             y == partner["a"]
  <1>1. f.kind = "finished" /\ f.a = c /\ f.b = y /\ y # None /\ y \in Conn /\ c \in Conn
    BY DEF IsFinished, Bound, TypeOK, Side
  <1>2. /\ phase' = [phase EXCEPT !["a"] = "serving"] /\ partner' = [partner EXCEPT !["a"] = y]
        /\ conn' = conn /\ down' = [down EXCEPT ![c] = Tail(@)]
        /\ up' = up \/ up' = [up EXCEPT ![c] = @ \o <<>>]
    BY DEF Proceed
  <1>3. up[c] \in Seq(Message) /\ down[c] \in Seq(Message) /\ OnceIn(down[c])
    BY <1>1 DEF TypeOK, EachOnce
  <1>4. up' = up
    <2>1. up[c] \o <<>> = up[c]
      BY <1>3
    <2> QED
      BY <1>2, <2>1 DEF TypeOK
  <1> HIDE DEF f
  <1>5. Losing
    BY <1>1, <1>2, <1>4, LosesSelf, FinalsTail DEF Losing, TypeOK
  <1>6. /\ Finals(down[c]) = Finals(down'[c]) \cup {f} /\ Foreign(Finals(down'[c]), {f})
        /\ \A e \in Conn : e # c => down'[e] = down[e]
    <2>1. down'[c] = Tail(down[c]) /\ \A e \in Conn : e # c => down'[e] = down[e]
      BY <1>1, <1>2 DEF TypeOK
    <2> QED
      BY <1>1, <1>3, <2>1, FinalsTail DEF f
  <1>7. \A m \in FinalsUp' \cup FinalsDown' : m.b # f.b
    <2>1. \A e \in Conn : Foreign(Finals(up[e]), {f})
      BY <1>1, <1>6 DEF EachOnce, Foreign
    <2>2. \A e \in Conn : Foreign(Finals(down'[e]), {f})
      <3>1. \A e \in Conn : e # c => Foreign(Finals(down[e]), {f})
        BY <1>1, <1>6 DEF EachOnce, Foreign
      <3> QED
        BY <1>6, <3>1
    <2> QED
      BY <1>4, <2>1, <2>2 DEF FinalsUp, FinalsDown, Foreign
  <1>8. FinalsUp \cup FinalsDown = FinalsUp' \cup FinalsDown' \cup {f}
    BY <1>1, <1>4, <1>6 DEF FinalsUp, FinalsDown
  <1>9. EachOnce'
    BY <1>5, LosingKeeps
  <1>10. /\ phase'["a"] = "serving" /\ phase'["b"] = phase["b"] /\ partner' = partner
    BY <1>2 DEF TypeOK, Side
  <1>11. CutSilent' /\ ServesWith' /\ NotYet'
    <2>1. c \notin cut
      BY DEF CutSilent
    <2>2. CutSilent'
      BY <1>2, <2>1 DEF CutSilent, TypeOK
    <2>3. ServesWith'
      BY <1>1, <1>10 DEF ServesWith, Side
    <2>4. NotYet'
      BY <1>1, <1>2, <1>8, <1>10 DEF NotYet
    <2> QED
      BY <2>2, <2>3, <2>4
  <1>12. R!Join(<<c, y>>)
    <2>1. Offered' = {<<m.a, m.b>> : m \in FinalsUp' \cup FinalsDown'}
      BY OfferedFinalsNext DEF OfferedAreFinals
    <2>2. Offered = {<<m.a, m.b>> : m \in FinalsUp \cup FinalsDown}
      BY OfferedFinals DEF OfferedAreFinals
    <2>3. Offered = Offered' \cup {<<c, y>>} /\ <<c, y>> \notin Offered'
      BY <1>1, <1>7, <1>8, <2>1, <2>2
    <2>4. SessionOf("a") = None /\ SessionOf("a")' = <<c, y>>
      BY <1>2, <1>10, Sessions, SessionsNext DEF SessionsAre, Side
    <2>5. SessionOf("b")' = SessionOf("b")
      BY <1>2, <1>10, Sessions, SessionsNext DEF SessionsAre, Side
    <2> QED
      BY <2>3, <2>4, <2>5 DEF R!Join
  <1>13. R!Next
    <2>1. <<c, y>> \in Conn \X Conn
      BY <1>1
    <2> HIDE DEF c, y
    <2> QED
      BY <1>12, <2>1 DEF R!Next
  <1> QED
    BY <1>9, <1>11, <1>13

(* Every other read ends the attempt or brings the handshake one step on.    *)
LEMMA ReadMeets ==
  ASSUME MeetInv, NEW s \in Side, Read(s)
  PROVE  MeetInv' /\ R!Next
  <1> USE DEF MeetInv
  <1> DEFINE c == conn[s]
             m == Head(down[c])
  <1>1. c \in Conn /\ down[c] # <<>> /\ phase[s] # "resting" /\ cut' = cut /\ Owner(c) = s
    BY DEF Read, TypeOK
  <1>2. TypeOK'
    BY DeviceType
  <1>3. m \in Message
    BY <1>1, TakeMessage DEF TypeOK
  <1>4. CASE phase[s] = "dialing" /\ m.kind = "accepted"
    <2>1. Proceed(s, "waiting", None, <<>>)
      BY <1>4 DEF Read
    <2> QED
      BY <1>1, <1>2, <1>4, <2>1, GreetingMeets DEF Phase
  <1>5. CASE phase[s] = "waiting" /\ m.kind = "ready"
    <2> DEFINE ms == IF s = "b" THEN <<Msg("hello", None, c)>> ELSE <<>>
    <2>1. Proceed(s, "greeting", None, ms)
      BY <1>5 DEF Read
    <2>2. s = "b" => Msg("hello", None, c) \in Message /\ Msg("hello", None, c).kind # "finished"
      BY <1>1 DEF Msg, Message, ConnOf
    <2>3. ms = <<>> \/ \E n \in Message : ms = <<n>> /\ n.kind # "finished"
      BY <2>2
    <2> HIDE DEF ms
    <2> QED
      BY <1>1, <1>2, <1>5, <2>1, <2>3, GreetingMeets DEF Phase
  <1>6. CASE phase[s] = "greeting" /\ IsHello(s, m)
    <2> DEFINE ms == <<Msg("reply", c, m.b)>>
    <2>1. Proceed(s, "greeting", m.b, ms)
      BY <1>6 DEF Read, IsHello, IsReply, IsFinished
    <2>2. Msg("reply", c, m.b) \in Message /\ Msg("reply", c, m.b).kind # "finished"
      BY <1>1, <1>3, <1>6 DEF Msg, Message, ConnOf, IsHello, Control
    <2>3. ms = <<>> \/ \E n \in Message : ms = <<n>> /\ n.kind # "finished"
      BY <2>2
    <2> HIDE DEF ms
    <2> QED
      BY <1>1, <1>2, <1>6, <2>1, <2>3, GreetingMeets DEF Phase
  <1>7. CASE phase[s] = "greeting" /\ IsReply(s, m)
    <2>1. Proceed(s, "serving", m.a, <<Msg("finished", m.a, c)>>)
      BY <1>7 DEF Read, IsHello, IsReply, IsFinished
    <2>2. m.a \in ConnOf("a") /\ s = "b" /\ m.kind = "reply"
      BY <1>3, <1>7 DEF IsReply, Message, Control
    <2> QED
      BY <1>1, <1>2, <1>7, <2>1, <2>2, ReplyMeets
  <1>8. CASE phase[s] = "greeting" /\ IsFinished(s, m)
    <2>1. Proceed(s, "serving", partner[s], <<>>) /\ s = "a"
      BY <1>8 DEF Read, IsHello, IsReply, IsFinished
    <2> QED
      BY <1>1, <1>2, <1>8, <2>1, FinishedMeets
  <1>9. CASE ~ \/ phase[s] = "dialing" /\ m.kind = "accepted"
               \/ phase[s] = "waiting" /\ m.kind = "ready"
               \/ phase[s] = "greeting" /\ IsHello(s, m)
               \/ phase[s] = "greeting" /\ IsReply(s, m)
               \/ phase[s] = "greeting" /\ IsFinished(s, m)
    <2>1. HangUp(s)
      BY <1>9 DEF Read
    <2> QED
      BY <1>1, <1>2, <2>1, HangUpMeets
  <1> QED
    BY <1>4, <1>5, <1>6, <1>7, <1>8, <1>9

LEMMA MeetInit == Init => MeetInv /\ R!Init
  <1> SUFFICES ASSUME Init PROVE MeetInv /\ R!Init
    OBVIOUS
  <1>1. TypeOK
    <2>1. network.faults \in Nat
      BY RelayAssumption DEF Init
    <2>2. faults \in 0..network.faults
      BY <2>1 DEF Init
    <2> QED
      BY <2>2 DEF Init, TypeOK, Phase
  <1>2. \A c \in Conn : /\ Finals(up[c]) = {} /\ Finals(down[c]) = {}
                        /\ OnceIn(up[c]) /\ OnceIn(down[c])
    BY LosesEmpty DEF Init, OnceIn
  <1>3. EachOnce /\ NotYet /\ CutSilent /\ ServesWith
    BY <1>2 DEF Init, EachOnce, Foreign, NotYet, FinalsUp, FinalsDown, CutSilent, ServesWith, Side
  <1>4. SessionOf("a") = None /\ SessionOf("b") = None
    BY Sessions DEF Init, SessionsAre, Side
  <1>5. Offered = {}
    BY <1>1, <1>2, OfferedFinals DEF OfferedAreFinals, FinalsUp, FinalsDown
  <1> QED
    BY <1>1, <1>3, <1>4, <1>5 DEF MeetInv, R!Init

LEMMA MeetNext == MeetInv /\ [Next]_vars => MeetInv' /\ [R!Next]_(R!vars)
  <1> SUFFICES ASSUME MeetInv, [Next]_vars PROVE MeetInv' /\ [R!Next]_(R!vars)
    OBVIOUS
  <1>1. ASSUME NEW s \in Side, TimesOut(s) \/ Fails(s) PROVE MeetInv' /\ R!Next
    <2>1. TypeOK' /\ HangUp(s) /\ cut' = cut /\ phase[s] # "resting"
      BY <1>1, DeviceType DEF MeetInv, TimesOut, TimeoutDue, TimeoutEarly, Fails
    <2> QED
      BY <2>1, HangUpMeets
  <1>2. CASE Next
    BY <1>1, <1>2, RelayMeets, DialMeets, ReadMeets, BreakMeets DEF Next
  <1>3. CASE UNCHANGED vars
    <2>1. UNCHANGED <<phase, conn, partner, up, down, cut, socket, faults, network>>
      BY <1>3 DEF vars
    <2>2. MeetInv'
      BY <2>1 DEF MeetInv, TypeOK, EachOnce, NotYet, CutSilent, ServesWith, FinalsUp, FinalsDown
    <2>3. UNCHANGED R!vars
      BY <2>1 DEF R!vars, SessionOf, Offered, InTransit
    <2> QED
      BY <2>2, <2>3
  <1> QED
    BY <1>2, <1>3

(* relay.go runRelay's handshake over worker.mjs: for any number of          *)
(* connections, faults and mixed-up frames, the devices implement            *)
(* Rendezvous: a serves exactly in sessions b has begun with it, each at     *)
(* most once.                                                                *)
THEOREM ImplementsRendezvous == Spec => MeetsAsSpecified
  <1>1. Init => MeetInv /\ R!Init
    BY MeetInit
  <1>2. MeetInv /\ [Next]_vars => MeetInv' /\ [R!Next]_(R!vars)
    BY MeetNext
  <1> QED
    BY <1>1, <1>2, PTL DEF Spec, MeetsAsSpecified, R!Spec

-----------------------------------------------------------------------------
(* That a session lasts in a prompt network rests on what the relay may     *)
(* still hear.  A connection is alive if its device uses it, the relay has  *)
(* it open and its network works.                                           *)
Alive(c) == socket[c] = "open" /\ conn[Owner(c)] = c /\ c \notin cut /\ ~Refused(c)

(* The relay has one socket of a side, and nobody hears of a broken network. *)
OneListed == \A c, d \in Conn : Listed(c) /\ Listed(d) /\ Owner(c) = Owner(d) => c = d
CutQuiet  == \A c \in cut : up[c] = <<>> /\ down[c] = <<>>

(* Before the relay lists a connection only its request is under way, and    *)
(* later only frames and, from a device that has left it, its close.         *)
Left(c) == conn[Owner(c)] # c \/ Refused(c)
Asking(c) ==
  \/ up[c] = <<>> /\ (Left(c) \/ c \in cut)
  \/ /\ up[c] = <<Plain("request")>>
     /\ conn[Owner(c)] = c => phase[Owner(c)] = "dialing" /\ down[c] = <<>>
  \/ up[c] = <<Plain("request"), Plain("close")>> /\ conn[Owner(c)] # c
Talking(c) ==
  \A i \in 1..Len(up[c]) : up[c][i].kind \in Frame \/ (up[c][i].kind = "close" /\ Left(c))
Sent(c) == IF socket[c] = "none" THEN Asking(c) ELSE Talking(c)

(* A refusal comes alone, and while the device dials.                        *)
Told(c) ==
  \/ \A i \in 1..Len(down[c]) : down[c][i].kind # "refused"
  \/ /\ down[c] = <<Plain("refused")>>
     /\ conn[Owner(c)] = c /\ phase[Owner(c)] = "dialing"

(* A device that waits for the other has only been accepted.                 *)
Alone(c) ==
  /\ up[c] = <<>>
  /\ \/ phase[Owner(c)] = "dialing" /\ down[c] = <<Plain("accepted")>>
     \/ phase[Owner(c)] = "waiting" /\ down[c] = <<>>

(* Of two that have met each reads the relay's messages, and then the one    *)
(* handshake message that is under way, which the relay may not have yet.    *)
Due(s, q) ==
  CASE phase[s] = "dialing" -> <<Plain("accepted"), Plain("ready")>> \o q
    [] phase[s] = "waiting" -> <<Plain("ready")>> \o q
    [] OTHER -> q
OnWay(c, d, q) ==
  \/ up[c] = q /\ down[d] = Due(Owner(d), <<>>)
  \/ up[c] = <<>> /\ down[d] = Due(Owner(d), q)

(* How far the handshake of x and y has got.                                 *)
ANew == \/ phase["a"] \in {"dialing", "waiting"}
        \/ phase["a"] = "greeting" /\ partner["a"] = None
Met(x, y) ==
  ANew /\ phase["b"] \in {"dialing", "waiting"} /\ OnWay(x, y, <<>>) /\ OnWay(y, x, <<>>)
Hello(x, y) ==
  ANew /\ phase["b"] = "greeting" /\ OnWay(x, y, <<>>) /\ OnWay(y, x, <<Msg("hello", None, y)>>)
Reply(x, y) ==
  /\ phase["a"] = "greeting" /\ partner["a"] = y /\ phase["b"] = "greeting"
  /\ OnWay(x, y, <<Msg("reply", x, y)>>) /\ OnWay(y, x, <<>>)
Finished(x, y) ==
  /\ phase["a"] = "greeting" /\ partner["a"] = y /\ phase["b"] = "serving" /\ partner["b"] = x
  /\ OnWay(x, y, <<>>) /\ OnWay(y, x, <<Msg("finished", x, y)>>)
Done(x, y) ==
  /\ phase["a"] = "serving" /\ partner["a"] = y /\ phase["b"] = "serving" /\ partner["b"] = x
  /\ OnWay(x, y, <<>>) /\ OnWay(y, x, <<>>)
Paired(x, y) ==
  Met(x, y) \/ Hello(x, y) \/ Reply(x, y) \/ Finished(x, y) \/ Done(x, y)

(* Nothing the relay still hears ends a connection that is alive: the other  *)
(* side has an open socket or none.                                          *)
PeersOpen == \A c, d \in Conn : Alive(c) /\ Listed(d) /\ Owner(d) # Owner(c) => socket[d] = "open"
Waiting   == \A c \in Conn : Alive(c) /\ Sockets(Other(Owner(c))) = {} => Alone(c)
Shaking   == \A x \in ConnOf("a"), y \in ConnOf("b") : Alive(x) /\ Alive(y) => Paired(x, y)

Settled ==
  /\ \A c \in Conn : socket[c] # "unreported" /\ Sent(c) /\ Told(c)
  /\ OneListed /\ CutQuiet
Undisturbed == PeersOpen /\ Waiting /\ Shaking
PromptInv == network.prompt => Settled /\ Undisturbed

(* What the shortest queues hold.                                            *)
LEMMA Short ==
  ASSUME NEW m, NEW n
  PROVE  /\ <<m>> # <<>> /\ <<m>>[1] = m /\ Len(<<m>>) = 1 /\ Head(<<m>>) = m /\ Tail(<<m>>) = <<>>
         /\ <<m, n>> # <<>> /\ <<m, n>>[1] = m /\ <<m, n>>[2] = n /\ Len(<<m, n>>) = 2
         /\ Head(<<m, n>>) = m /\ Tail(<<m, n>>) = <<n>>
         /\ Len(<<>>) = 0
  <1>1. Tail(<<m>>) = <<>>
    OBVIOUS
  <1>2. Tail(<<m, n>>) = <<n>>
    OBVIOUS
  <1> QED
    BY <1>1, <1>2

(* The head of a queue is its first message.                                 *)
LEMMA InHead ==
  ASSUME NEW q \in Seq(Message), q # <<>>
  PROVE  1 \in 1..Len(q) /\ Head(q) = q[1]
  BY EmptySeq, HeadTailProperties

(* A connection a step leaves as it is, as far as its device uses it.        *)
Same(c) ==
  /\ socket'[c] = socket[c] /\ up'[c] = up[c] /\ down'[c] = down[c]
  /\ c \in cut' <=> c \in cut
  /\ conn'[Owner(c)] = c <=> conn[Owner(c)] = c
  /\ conn[Owner(c)] = c => phase'[Owner(c)] = phase[Owner(c)]

(* What holds of such a connection holds after the step.                     *)
LEMMA SameKeeps ==
  ASSUME NEW c, Same(c)
  PROVE  /\ Alive(c)' <=> Alive(c)
         /\ Sent(c) => Sent(c)'
         /\ Told(c) => Told(c)'
         /\ Alive(c) => (Alone(c)' <=> Alone(c))
         /\ Listed(c)' <=> Listed(c)
  <1>1. Refused(c)' <=> Refused(c)
    BY DEF Same, Refused
  <1>2. Left(c)' <=> Left(c)
    BY <1>1 DEF Same, Left
  <1>3. Sent(c) => Sent(c)'
    BY <1>2 DEF Same, Sent, Asking, Talking
  <1>4. Told(c) => Told(c)'
    BY DEF Same, Told
  <1> QED
    BY <1>1, <1>3, <1>4 DEF Same, Alive, Alone, Listed

(* Nothing alive is disturbed by a step that changes no socket and no        *)
(* connection alive after it.                                                *)
LEMMA Undisturbing ==
  ASSUME Undisturbed, socket' = socket,
         \A c \in Conn : Alive(c)' => Same(c) /\ partner'[Owner(c)] = partner[Owner(c)]
  PROVE  Undisturbed'
  <1>1. \A c \in Conn : Alive(c)' => Alive(c) /\ (Alone(c) => Alone(c)')
    BY SameKeeps
  <1>2. \A c : Listed(c)' <=> Listed(c)
    BY DEF Listed
  <1>3. PeersOpen'
    BY <1>1, <1>2 DEF Undisturbed, PeersOpen
  <1>4. Waiting'
    BY <1>1, <1>2 DEF Undisturbed, Waiting, Sockets
  <1>5. ASSUME NEW x \in ConnOf("a"), NEW y \in ConnOf("b"), Alive(x)', Alive(y)'
        PROVE  Paired(x, y)'
    <2>1. x \in Conn /\ y \in Conn /\ Owner(x) = "a" /\ Owner(y) = "b"
      BY DEF ConnOf
    <2>2. Same(x) /\ Same(y) /\ partner'["a"] = partner["a"] /\ partner'["b"] = partner["b"]
      BY <1>5, <2>1
    <2>3. Paired(x, y)
      BY <1>1, <1>5, <2>1 DEF Undisturbed, Shaking
    <2>4. conn["a"] = x /\ conn["b"] = y
      BY <1>1, <1>5, <2>1 DEF Alive
    <2>5. phase'["a"] = phase["a"] /\ phase'["b"] = phase["b"]
      BY <2>1, <2>2, <2>4 DEF Same
    <2> QED
      BY <2>1, <2>2, <2>3, <2>5
      DEF Same, Paired, Met, Hello, Reply, Finished, Done, ANew, OnWay, Due
  <1>6. Shaking'
    BY <1>5 DEF Shaking
  <1> QED
    BY <1>3, <1>4, <1>6 DEF Undisturbed

(* Where nothing is alive nothing is disturbed.                              *)
LEMMA NobodyAlive ==
  ASSUME \A c \in Conn : ~Alive(c)'
  PROVE  Undisturbed'
  <1>1. \A s : ConnOf(s) \subseteq Conn
    BY DEF ConnOf
  <1> QED
    BY <1>1 DEF Undisturbed, PeersOpen, Waiting, Shaking

(* A state of a prompt network.                                             *)
Calm == TypeOK /\ network.prompt /\ Settled /\ Undisturbed

(* The relay sends over one connection.                                      *)
LEMMA SendOne ==
  ASSUME down \in [Conn -> Seq(Message)], NEW c \in Conn, NEW m
  PROVE  /\ Reaches(c) => Send(c, m)[c] = Append(down[c], m)
         /\ ~Reaches(c) => Send(c, m)[c] = down[c]
         /\ \A e \in Conn \ {c} : Send(c, m)[e] = down[e]
  BY DEF Send

(* Over an empty queue nothing is said that should not be.                   *)
LEMMA EmptyTalks ==
  ASSUME NEW c, up'[c] = <<>>
  PROVE  Talking(c)'
  <1>1. \A q : q = <<>> => \A i \in 1..Len(q) : FALSE
    OBVIOUS
  <1>2. \A i \in 1..Len(up'[c]) : FALSE
    BY <1>1
  <1> QED
    BY <1>2 DEF Talking

(* All is settled if it is for the connections that have changed.            *)
LEMMA SettledBut ==
  ASSUME Settled, NEW C, \A e \in Conn \ C : Same(e),
         cut' \subseteq Conn, OneListed',
         \A c \in Conn \cap C : /\ socket'[c] # "unreported" /\ Sent(c)' /\ Told(c)'
                                /\ c \in cut' => up'[c] = <<>> /\ down'[c] = <<>>
  PROVE  Settled'
  <1>1. \A e \in Conn \ C : socket'[e] # "unreported" /\ Sent(e)' /\ Told(e)'
    BY SameKeeps DEF Settled, Same
  <1>2. CutQuiet'
    BY DEF Settled, CutQuiet, Same
  <1> QED
    BY <1>1, <1>2 DEF Settled

LEMMA FewerListed ==
  ASSUME OneListed, \A c \in Conn : Listed(c)' => Listed(c)
  PROVE  OneListed'
  BY DEF OneListed

(* A request that arrives is the first of its connection.                    *)
LEMMA Requests ==
  ASSUME Calm, NEW c \in Conn, Arrives(c, "request")
  PROVE  /\ socket[c] = "none" /\ ~Listed(c) /\ c \notin cut
         /\ \/ /\ up[c] = <<Plain("request")>>
               /\ conn[Owner(c)] = c => phase[Owner(c)] = "dialing" /\ down[c] = <<>>
            \/ up[c] = <<Plain("request"), Plain("close")>> /\ conn[Owner(c)] # c
         /\ Reaches(c) <=> conn[Owner(c)] = c
  <1>1. up[c] # <<>> /\ Head(up[c]).kind = "request" /\ up[c] \in Seq(Message)
    BY DEF Arrives, Calm, TypeOK
  <1>2. c \notin cut
    BY <1>1 DEF Calm, Settled, CutQuiet
  <1>3. socket[c] = "none"
    <2>1. SUFFICES ASSUME Talking(c) PROVE FALSE
      BY DEF Calm, Settled, Sent
    <2>2. up[c][1].kind = "request" /\ 1 \in 1..Len(up[c])
      BY <1>1, InHead
    <2> QED
      BY <2>1, <2>2 DEF Talking, Frame
  <1>4. Asking(c)
    BY <1>3 DEF Calm, Settled, Sent
  <1> QED
    BY <1>1, <1>2, <1>3, <1>4 DEF Asking, Listed, Reaches, Refused

(* The queue of a connection the relay has no socket for is then empty or    *)
(* holds the close of a device that has left.                                *)
LEMMA AfterRequest ==
  ASSUME Calm, NEW c \in Conn, Arrives(c, "request"), up'[c] = Tail(up[c]),
         conn' = conn
  PROVE  /\ Talking(c)'
         /\ conn[Owner(c)] = c => up'[c] = <<>>
  <1>1. CASE up[c] = <<Plain("request")>>
    <2>1. up'[c] = <<>>
      BY <1>1, Short
    <2>2. Talking(c)'
      BY <2>1, EmptyTalks
    <2> QED
      BY <2>1, <2>2
  <1>2. CASE up[c] = <<Plain("request"), Plain("close")>> /\ conn[Owner(c)] # c
    <2>1. up'[c] = <<Plain("close")>>
      BY <1>2, Short
    <2>2. Len(up'[c]) = 1 /\ up'[c][1] = Plain("close")
      BY <2>1, Short
    <2>3. Left(c)'
      BY <1>2 DEF Left
    <2> QED
      BY <1>2, <2>2, <2>3 DEF Talking, Plain, Msg
  <1> QED
    BY <1>1, <1>2, Requests

(* Pair.fetch refuses: the device learns it from an otherwise empty queue.   *)
LEMMA FetchRefusedCalm ==
  ASSUME Calm, TypeOK', NEW c \in Conn, FetchRefused(c)
  PROVE  Settled' /\ Undisturbed'
  <1>1. /\ Arrives(c, "request") /\ UNCHANGED <<phase, conn, partner, socket, cut>>
        /\ down' = Send(c, Plain("refused")) /\ up' = [up EXCEPT ![c] = <<>>]
    BY DEF FetchRefused, device
  <1>2. /\ socket[c] = "none" /\ ~Listed(c) /\ c \notin cut
        /\ conn[Owner(c)] = c => phase[Owner(c)] = "dialing" /\ down[c] = <<>>
        /\ Reaches(c) <=> conn[Owner(c)] = c
    BY <1>1, Requests
  <1>3. /\ conn[Owner(c)] = c => down'[c] = <<Plain("refused")>>
        /\ conn[Owner(c)] # c => down'[c] = down[c]
        /\ up'[c] = <<>>
        /\ \A e \in Conn \ {c} : up'[e] = up[e] /\ down'[e] = down[e]
    <2>1. Append(<<>>, Plain("refused")) = <<Plain("refused")>>
      OBVIOUS
    <2> QED
      BY <1>1, <1>2, <2>1, SendOne DEF Calm, TypeOK
  <1>4. \A e \in Conn \ {c} : Same(e)
    BY <1>1, <1>3 DEF Same
  <1>5. ~Alive(c)'
    BY <1>1, <1>2 DEF Alive
  <1>6. Left(c)'
    BY <1>1, <1>3, Short DEF Left, Refused, Plain, Msg
  <1>7. Sent(c)'
    BY <1>1, <1>2, <1>3, <1>6 DEF Sent, Asking
  <1>8. Told(c)'
    BY <1>1, <1>2, <1>3 DEF Told, Calm, Settled
  <1>9. OneListed'
    BY <1>1, FewerListed DEF Listed, Calm, Settled
  <1>10. Settled'
    <2>1. \A d \in Conn \cap {c} : /\ socket'[d] # "unreported" /\ Sent(d)' /\ Told(d)'
                                   /\ d \in cut' => up'[d] = <<>> /\ down'[d] = <<>>
      BY <1>1, <1>2, <1>7, <1>8
    <2> QED
      BY <1>1, <1>4, <1>9, <2>1, SettledBut DEF Calm, TypeOK
  <1>11. Undisturbed'
    <2>1. \A d \in Conn : Alive(d)' => Same(d) /\ partner'[Owner(d)] = partner[Owner(d)]
      BY <1>1, <1>4, <1>5
    <2> QED
      BY <1>1, <2>1, Undisturbing DEF Calm
  <1> QED
    BY <1>10, <1>11

(* Pair.fetch accepts the first: its device is alone.                        *)
LEMMA FetchFirstCalm ==
  ASSUME Calm, TypeOK', NEW c \in Conn, FetchFirst(c)
  PROVE  Settled' /\ Undisturbed'
  <1>1. /\ Arrives(c, "request") /\ UNCHANGED <<phase, conn, partner, cut>>
        /\ ~Taken(c) /\ Sockets(Other(Owner(c))) = {}
        /\ socket' = [socket EXCEPT ![c] = "open"]
        /\ down' = Send(c, Plain("accepted")) /\ up' = Consumed(c)
    BY DEF FetchFirst, device
  <1>2. /\ socket[c] = "none" /\ ~Listed(c) /\ c \notin cut
        /\ conn[Owner(c)] = c => phase[Owner(c)] = "dialing" /\ down[c] = <<>>
        /\ Reaches(c) <=> conn[Owner(c)] = c
    BY <1>1, Requests
  <1>3. /\ conn[Owner(c)] = c => down'[c] = <<Plain("accepted")>>
        /\ conn[Owner(c)] # c => down'[c] = down[c]
        /\ up'[c] = Tail(up[c]) /\ socket'[c] = "open"
        /\ \A e \in Conn \ {c} : up'[e] = up[e] /\ down'[e] = down[e] /\ socket'[e] = socket[e]
    <2>1. Append(<<>>, Plain("accepted")) = <<Plain("accepted")>>
      OBVIOUS
    <2>2. /\ conn[Owner(c)] = c => down'[c] = <<Plain("accepted")>>
          /\ conn[Owner(c)] # c => down'[c] = down[c]
          /\ \A e \in Conn \ {c} : down'[e] = down[e]
      BY <1>1, <1>2, <2>1, SendOne DEF Calm, TypeOK
    <2>3. up'[c] = Tail(up[c]) /\ \A e \in Conn \ {c} : up'[e] = up[e]
      BY <1>1 DEF Consumed, Calm, TypeOK
    <2>4. socket'[c] = "open" /\ \A e \in Conn \ {c} : socket'[e] = socket[e]
      BY <1>1 DEF Calm, TypeOK
    <2> QED
      BY <2>2, <2>3, <2>4
  <1>4. \A e \in Conn \ {c} : Same(e) /\ ~Listed(e) /\ ~Listed(e)'
    <2>1. \A e \in Conn : Owner(e) \in Side
      BY DEF Conn, Owner
    <2>2. \A e \in Conn : ~Listed(e)
      BY <1>1, <2>1 DEF Taken, Sockets, Other, Side
    <2> QED
      BY <1>1, <1>3, <2>2 DEF Same, Listed
  <1>5. Talking(c)' /\ (conn[Owner(c)] = c => up'[c] = <<>>)
    BY <1>1, <1>3, AfterRequest
  <1>6. Sent(c)'
    BY <1>3, <1>5 DEF Sent
  <1>7. Told(c)'
    BY <1>1, <1>3, Short DEF Told, Calm, Settled, Plain, Msg
  <1>8. OneListed'
    BY <1>4 DEF OneListed
  <1>9. Settled'
    <2>1. \A d \in Conn \cap {c} : /\ socket'[d] # "unreported" /\ Sent(d)' /\ Told(d)'
                                   /\ d \in cut' => up'[d] = <<>> /\ down'[d] = <<>>
      BY <1>1, <1>2, <1>3, <1>6, <1>7
    <2> QED
      BY <1>1, <1>4, <1>8, <2>1, SettledBut DEF Calm, TypeOK
  <1>10. \A e \in Conn : Alive(e)' => e = c
    BY <1>4 DEF Alive, Listed
  <1>11. Alive(c)' => Alone(c)'
    BY <1>1, <1>2, <1>3, <1>5 DEF Alive, Alone
  <1>12. PeersOpen' /\ Waiting'
    BY <1>3, <1>4, <1>10, <1>11 DEF PeersOpen, Waiting
  <1>13. Shaking'
    BY <1>10 DEF Shaking, ConnOf
  <1> QED
    BY <1>9, <1>12, <1>13 DEF Undisturbed

(* There are two sides.                                                      *)
LEMMA Sides ==
  /\ \A c \in Conn : Owner(c) \in Side
  /\ \A s \in Side : Other(s) \in Side /\ Other(s) # s /\ Other(Other(s)) = s
  /\ \A s, t \in Side : s = t \/ t = Other(s)
  /\ \A c \in Conn : c \in ConnOf(Owner(c))
  /\ \A s : \A c \in ConnOf(s) : c \in Conn /\ Owner(c) = s
  BY DEF Conn, Owner, Side, Other, ConnOf

(* One socket of each side is all the relay lists.                           *)
LEMMA TwoListed ==
  ASSUME OneListed, NEW c \in Conn, NEW d \in Conn, Owner(c) # Owner(d), Listed(d),
         Listed(c) \/ Sockets(Owner(c)) = {}
  PROVE  \A e \in Conn : Listed(e) => e \in {c, d}
  <1>1. SUFFICES ASSUME NEW e \in Conn, Listed(e) PROVE e \in {c, d}
    OBVIOUS
  <1>2. Owner(e) = Owner(c) \/ Owner(e) = Owner(d)
    BY Sides
  <1>3. Owner(e) = Owner(c) => Listed(c)
    BY <1>1 DEF Sockets
  <1> QED
    BY <1>1, <1>2, <1>3 DEF OneListed

(* Refusals stay alone in their queues.                                      *)
LEMMA ToldMore ==
  ASSUME NEW d \in Conn, down[d] \in Seq(Message), Told(d), ~Refused(d),
         NEW m \in Message, m.kind # "refused", down'[d] = Append(down[d], m)
  PROVE  Told(d)' /\ ~Refused(d)'
  <1>1. \A i \in 1..Len(down[d]) : down[d][i].kind # "refused"
    BY Short DEF Told, Refused, Plain, Msg
  <1>2. /\ Len(Append(down[d], m)) = Len(down[d]) + 1 /\ Len(down[d]) \in Nat
        /\ \A i \in 1..Len(down[d]) : Append(down[d], m)[i] = down[d][i]
        /\ Append(down[d], m)[Len(down[d]) + 1] = m
        /\ Append(down[d], m) \in Seq(Message) /\ Append(down[d], m) # <<>>
    OBVIOUS
  <1>3. \A i \in 1..Len(down'[d]) : down'[d][i].kind # "refused"
    BY <1>1, <1>2
  <1>4. ~Refused(d)'
    <2>1. 1 \in 1..Len(down'[d]) /\ Head(down'[d]) = down'[d][1]
      BY <1>2, InHead
    <2> QED
      BY <1>3, <2>1 DEF Refused
  <1> QED
    BY <1>3, <1>4 DEF Told

LEMMA ToldKeeps ==
  ASSUME NEW d, Told(d), down'[d] = down[d], UNCHANGED <<phase, conn>>
  PROVE  Told(d)'
  BY DEF Told

LEMMA ToldLess ==
  ASSUME NEW d \in Conn, down[d] \in Seq(Message), down[d] # <<>>, Told(d), ~Refused(d),
         down'[d] = Tail(down[d])
  PROVE  Told(d)'
  <1>1. \A i \in 1..Len(down[d]) : down[d][i].kind # "refused"
    BY Short DEF Told, Refused, Plain, Msg
  <1>2. /\ Len(Tail(down[d])) = Len(down[d]) - 1 /\ Len(down[d]) \in Nat
        /\ \A i \in 1..Len(Tail(down[d])) : Tail(down[d])[i] = down[d][i + 1]
    BY EmptySeq, HeadTailProperties
  <1>3. \A i \in 1..Len(down'[d]) : i + 1 \in 1..Len(down[d]) /\ down'[d][i] = down[d][i + 1]
    BY <1>2
  <1>4. \A i \in 1..Len(down'[d]) : down'[d][i].kind # "refused"
    BY <1>1, <1>3
  <1> QED
    BY <1>4 DEF Told

LEMMA Talks ==
  ASSUME NEW d, Talking(d), up'[d] = up[d], Left(d) => Left(d)'
  PROVE  Talking(d)'
  BY DEF Talking

LEMMA TalksOn ==
  ASSUME NEW d, Talking(d), up[d] \in Seq(Message), up[d] # <<>>, up'[d] = Tail(up[d]),
         Left(d) => Left(d)'
  PROVE  Talking(d)'
  <1>1. /\ Len(Tail(up[d])) = Len(up[d]) - 1 /\ Len(up[d]) \in Nat
        /\ \A i \in 1..Len(Tail(up[d])) : Tail(up[d])[i] = up[d][i + 1]
    BY EmptySeq, HeadTailProperties
  <1>2. \A i \in 1..Len(up'[d]) : i + 1 \in 1..Len(up[d]) /\ up'[d][i] = up[d][i + 1]
    BY <1>1
  <1> QED
    BY <1>2 DEF Talking

(* What the relay sends to d, other than a refusal, reaches a device that    *)
(* uses d, and leaves the others alone.                                      *)
LEMMA Delivered ==
  ASSUME Calm, NEW d \in Conn, NEW m \in Message, m.kind # "refused",
         UNCHANGED <<phase, conn, cut>>, socket'[d] = socket[d], up'[d] = up[d], Listed(d),
         down'[d] = IF Reaches(d) THEN Append(down[d], m) ELSE down[d]
  PROVE  /\ socket'[d] # "unreported" /\ Sent(d)' /\ Told(d)'
         /\ d \in cut' => up'[d] = <<>> /\ down'[d] = <<>>
         /\ Alive(d)' <=> Alive(d)
         /\ Alive(d) => down'[d] = Append(down[d], m)
  <1>1. down[d] \in Seq(Message) /\ socket[d] # "none"
    BY DEF Calm, TypeOK, Listed
  <1>2. Refused(d)' <=> Refused(d)
    BY <1>1, ToldMore DEF Calm, Settled, Reaches, Refused
  <1>3. Told(d)'
    <2>1. CASE Reaches(d)
      BY <1>1, <2>1, ToldMore DEF Calm, Settled, Reaches
    <2>2. CASE ~Reaches(d)
      BY <2>2 DEF Calm, Settled, Told
    <2> QED
      BY <2>1, <2>2
  <1>4. Sent(d)'
    <2>2. Left(d) => Left(d)'
      BY <1>2 DEF Left
    <2>3. Talking(d)
      BY <1>1 DEF Calm, Settled, Sent
    <2> QED
      BY <1>1, <2>2, <2>3, Talks DEF Sent
  <1> QED
    BY <1>1, <1>2, <1>3, <1>4 DEF Alive, Reaches, Calm, Settled, CutQuiet

(* Queues put together of one to three messages.                             *)
LEMMA DueSeqs ==
  ASSUME NEW n \in Message, NEW m \in Message, NEW o \in Message
  PROVE  /\ <<m, n>> \o <<>> = <<m, n>> /\ <<m>> \o <<>> = <<m>>
         /\ Append(<<m>>, n) = <<m, n>> /\ Append(<<>>, m) = <<m>>
         /\ Append(<<m, n>>, o) = <<m, n, o>>
         /\ <<m, n>> \o <<o>> = <<m, n, o>> /\ <<m>> \o <<o>> = <<m, o>>
  <1>1. /\ <<m>> \in Seq(Message) /\ <<m, n>> \in Seq(Message) /\ <<m, n, o>> \in Seq(Message)
        /\ <<>> \in Seq(Message)
    OBVIOUS
  <1>2. <<m, n>> \o <<>> = <<m, n>> /\ <<m>> \o <<>> = <<m>>
    BY <1>1, ConcatEmptySeq
  <1>3. Append(<<>>, m) = <<m>>
    OBVIOUS
  <1>4. \A k \in Message : Append(<<m>>, k) = <<m, k>>
    <2> TAKE k \in Message
    <2>1. <<m, k>> \in Seq(Message) /\ Len(<<m, k>>) = 2 /\ <<m, k>>[1] = m /\ <<m, k>>[2] = k
      OBVIOUS
    <2> DEFINE q == Append(<<m>>, k)
               r == <<m, k>>
    <2>2. q \in Seq(Message) /\ Len(q) = 2 /\ q[1] = m /\ q[2] = k
      BY <1>1
    <2> HIDE DEF q, r
    <2>3. \A i \in 1..2 : q[i] = r[i]
      BY <2>1, <2>2 DEF r
    <2> QED
      BY <2>1, <2>2, <2>3, SeqEqual DEF q, r
  <1>5. Append(<<m, n>>, o) = <<m, n, o>>
    <2> DEFINE q == Append(<<m, n>>, o)
               r == <<m, n, o>>
    <2>1. r \in Seq(Message) /\ Len(r) = 3 /\ r[1] = m /\ r[2] = n /\ r[3] = o
      OBVIOUS
    <2>2. q \in Seq(Message) /\ Len(q) = 3 /\ q[1] = m /\ q[2] = n /\ q[3] = o
      BY <1>1
    <2> HIDE DEF q, r
    <2>3. \A i \in 1..3 : q[i] = r[i]
      BY <2>1, <2>2
    <2> QED
      BY <2>1, <2>2, <2>3, SeqEqual DEF q, r
  <1>6. <<m, n>> \o <<o>> = Append(<<m, n>>, o) /\ <<m>> \o <<o>> = Append(<<m>>, o)
    BY <1>1, AppendIsConcat
  <1> QED
    BY <1>2, <1>3, <1>4, <1>5, <1>6

(* The device that joins a closing peer is refused: nothing is alive.        *)
LEMMA FetchThrowsCalm ==
  ASSUME Calm, TypeOK', NEW c \in Conn, NEW d \in Conn, FetchThrows(c, d)
  PROVE  Settled' /\ Undisturbed'
  <1>1. /\ Arrives(c, "request") /\ UNCHANGED <<phase, conn, partner, cut>>
        /\ ~Taken(c) /\ d \in Sockets(Other(Owner(c))) /\ socket[d] = "closing"
        /\ socket' = [socket EXCEPT ![c] = "open"]
        /\ down' = Send(c, Plain("refused")) /\ up' = [up EXCEPT ![c] = <<Plain("close")>>]
    BY DEF FetchThrows, device
  <1>2. /\ socket[c] = "none" /\ ~Listed(c) /\ c \notin cut
        /\ conn[Owner(c)] = c => phase[Owner(c)] = "dialing" /\ down[c] = <<>>
        /\ Reaches(c) <=> conn[Owner(c)] = c
    BY <1>1, Requests
  <1>3. /\ conn[Owner(c)] = c => down'[c] = <<Plain("refused")>>
        /\ conn[Owner(c)] # c => down'[c] = down[c]
        /\ up'[c] = <<Plain("close")>> /\ socket'[c] = "open"
        /\ \A e \in Conn \ {c} : up'[e] = up[e] /\ down'[e] = down[e] /\ socket'[e] = socket[e]
    <2>1. Append(<<>>, Plain("refused")) = <<Plain("refused")>>
      OBVIOUS
    <2>2. /\ conn[Owner(c)] = c => down'[c] = <<Plain("refused")>>
          /\ conn[Owner(c)] # c => down'[c] = down[c]
          /\ \A e \in Conn \ {c} : down'[e] = down[e]
      BY <1>1, <1>2, <2>1, SendOne DEF Calm, TypeOK
    <2>3. up'[c] = <<Plain("close")>> /\ \A e \in Conn \ {c} : up'[e] = up[e]
      BY <1>1 DEF Calm, TypeOK
    <2>4. socket'[c] = "open" /\ \A e \in Conn \ {c} : socket'[e] = socket[e]
      BY <1>1 DEF Calm, TypeOK
    <2> QED
      BY <2>2, <2>3, <2>4
  <1>4. \A e \in Conn \ {c} : Same(e)
    BY <1>1, <1>3 DEF Same
  <1>5. Left(c)'
    BY <1>1, <1>3, Short DEF Left, Refused, Plain, Msg
  <1>6. Sent(c)'
    <2>1. Len(up'[c]) = 1 /\ up'[c][1] = Plain("close")
      BY <1>3, Short
    <2> QED
      BY <1>3, <1>5, <2>1 DEF Sent, Talking, Plain, Msg
  <1>7. Told(c)'
    BY <1>1, <1>2, <1>3 DEF Told, Calm, Settled
  <1>8. /\ Owner(d) = Other(Owner(c)) /\ Listed(d) /\ d # c /\ Owner(c) # Owner(d)
        /\ Sockets(Owner(c)) = {}
    BY <1>1, <1>2, Sides DEF Sockets, Taken
  <1>9. \A e \in Conn : Listed(e) => e = d
    BY <1>2, <1>8, TwoListed DEF Calm, Settled
  <1>10. \A e \in Conn : Listed(e)' => e \in {c, d}
    BY <1>3, <1>9 DEF Listed
  <1>11. OneListed'
    BY <1>8, <1>10 DEF OneListed
  <1>12. Settled'
    <2>1. \A e \in Conn \cap {c} : /\ socket'[e] # "unreported" /\ Sent(e)' /\ Told(e)'
                                   /\ e \in cut' => up'[e] = <<>> /\ down'[e] = <<>>
      BY <1>1, <1>2, <1>3, <1>6, <1>7
    <2> QED
      BY <1>1, <1>4, <1>11, <2>1, SettledBut DEF Calm, TypeOK
  <1>13. \A e \in Conn : ~Alive(e)'
    <2>1. ~Alive(c)'
      BY <1>5 DEF Alive, Left
    <2>2. socket'[d] = "closing"
      BY <1>1, <1>3, <1>8
    <2> QED
      BY <1>10, <2>1, <2>2 DEF Alive, Listed
  <1> QED
    BY <1>12, <1>13, NobodyAlive

(* The second device is accepted: both have met if both are alive.           *)
LEMMA FetchSecondCalm ==
  ASSUME Calm, TypeOK', NEW c \in Conn, NEW d \in Conn, FetchSecond(c, d)
  PROVE  Settled' /\ Undisturbed'
  <1> DEFINE acc == Plain("accepted")
             rdy == Plain("ready")
  <1>0. acc \in Message /\ rdy \in Message /\ acc.kind # "refused" /\ rdy.kind # "refused"
    BY PlainMessage DEF Control, Plain, Msg
  <1>1. /\ Arrives(c, "request") /\ UNCHANGED <<phase, conn, partner, cut>>
        /\ ~Taken(c) /\ d \in Sockets(Other(Owner(c))) /\ socket[d] = "open"
        /\ socket' = [socket EXCEPT ![c] = "open"] /\ up' = Consumed(c)
    BY DEF FetchSecond, device
  <1>2. /\ socket[c] = "none" /\ ~Listed(c) /\ c \notin cut
        /\ conn[Owner(c)] = c => phase[Owner(c)] = "dialing" /\ down[c] = <<>>
        /\ Reaches(c) <=> conn[Owner(c)] = c
    BY <1>1, Requests
  <1>3. /\ Owner(d) = Other(Owner(c)) /\ Owner(c) = Other(Owner(d)) /\ Listed(d) /\ d # c
        /\ Owner(c) # Owner(d) /\ Sockets(Owner(c)) = {}
    BY <1>1, <1>2, Sides DEF Sockets, Taken
  <1>4. /\ conn[Owner(c)] = c => down'[c] = <<acc, rdy>>
        /\ conn[Owner(c)] # c => down'[c] = down[c]
        /\ down'[d] = IF Reaches(d) THEN Append(down[d], rdy) ELSE down[d]
        /\ \A e \in Conn \ {c, d} : down'[e] = down[e]
    <2>1. <<>> \o <<acc, rdy>> = <<acc, rdy>>
      OBVIOUS
    <2>2. down' = [e \in Conn |->
               CASE e = c /\ Reaches(c) -> down[c] \o <<acc, rdy>>
                 [] e = d /\ Reaches(d) -> Append(down[d], rdy)
                 [] OTHER -> down[e]]
      BY DEF FetchSecond
    <2> HIDE DEF acc, rdy
    <2> QED
      BY <1>2, <1>3, <2>1, <2>2
  <1>5. /\ up'[c] = Tail(up[c]) /\ socket'[c] = "open"
        /\ \A e \in Conn \ {c} : up'[e] = up[e] /\ socket'[e] = socket[e]
    BY <1>1 DEF Consumed, Calm, TypeOK
  <1>6. \A e \in Conn \ {c, d} : Same(e)
    BY <1>1, <1>4, <1>5 DEF Same
  <1>7. Talking(c)' /\ (conn[Owner(c)] = c => up'[c] = <<>>)
    BY <1>1, <1>5, AfterRequest
  <1>8. Sent(c)'
    BY <1>5, <1>7 DEF Sent
  <1>9. Told(c)'
    <2>1. CASE conn[Owner(c)] = c
      <3>1. Len(down'[c]) = 2 /\ down'[c][1] = acc /\ down'[c][2] = rdy
        BY <1>4, <2>1, Short
      <3> HIDE DEF acc, rdy
      <3> QED
        BY <1>0, <3>1 DEF Told
    <2>2. CASE conn[Owner(c)] # c
      BY <1>1, <1>4, <2>2 DEF Told, Calm, Settled
    <2> QED
      BY <2>1, <2>2
  <1>10. /\ socket'[d] # "unreported" /\ Sent(d)' /\ Told(d)'
         /\ d \in cut' => up'[d] = <<>> /\ down'[d] = <<>>
         /\ Alive(d)' <=> Alive(d)
         /\ Alive(d) => down'[d] = Append(down[d], rdy)
    <2> HIDE DEF rdy, acc
    <2> QED
      BY <1>0, <1>1, <1>3, <1>4, <1>5, Delivered
  <1>11. \A e \in Conn : Listed(e) => e = d
    BY <1>2, <1>3, TwoListed DEF Calm, Settled
  <1>12. \A e \in Conn : Listed(e)' => e \in {c, d}
    BY <1>5, <1>11 DEF Listed
  <1>13. OneListed'
    BY <1>3, <1>12 DEF OneListed
  <1>14. Settled'
    <2>1. \A e \in Conn \cap {c, d} : /\ socket'[e] # "unreported" /\ Sent(e)' /\ Told(e)'
                                      /\ e \in cut' => up'[e] = <<>> /\ down'[e] = <<>>
      BY <1>1, <1>2, <1>5, <1>8, <1>9, <1>10
    <2> QED
      BY <1>1, <1>6, <1>13, <2>1, SettledBut DEF Calm, TypeOK
  <1>15. \A e \in Conn : Alive(e)' => e \in {c, d}
    BY <1>12 DEF Alive, Listed
  <1>16. socket'[c] = "open" /\ socket'[d] = "open" /\ Listed(c)' /\ Listed(d)'
    BY <1>1, <1>3, <1>5 DEF Listed
  <1>17. PeersOpen'
    BY <1>12, <1>16 DEF PeersOpen
  <1>18. Waiting'
    <2>1. d \in Sockets(Other(Owner(c)))' /\ c \in Sockets(Other(Owner(d)))'
      BY <1>3, <1>16 DEF Sockets
    <2> QED
      BY <1>15, <2>1 DEF Waiting
  <1>19. ASSUME NEW x \in ConnOf("a"), NEW y \in ConnOf("b"), Alive(x)', Alive(y)'
         PROVE  Paired(x, y)'
    <2>1. /\ x \in Conn /\ y \in Conn /\ Owner(x) = "a" /\ Owner(y) = "b"
          /\ x \in {c, d} /\ y \in {c, d} /\ x # y
      BY <1>15, <1>19, Sides
    <2>2. Alive(c)' /\ Alive(d)' /\ Alive(d)
      BY <1>10, <1>19, <2>1
    <2>3. conn[Owner(c)] = c
      BY <1>1, <2>2 DEF Alive
    <2>4. Alone(d)
      BY <1>3, <2>2 DEF Calm, Undisturbed, Waiting
    <2> USE DueSeqs
    <2>5. /\ phase'[Owner(c)] = "dialing" /\ up'[c] = <<>>
          /\ down'[c] = <<acc, rdy>> \o <<>>
      BY <1>0, <1>1, <1>2, <1>4, <1>7, <2>3
    <2>6. up'[d] = <<>>
      BY <1>3, <1>5, <2>4 DEF Alone
    <2>7. \/ phase'[Owner(d)] = "dialing" /\ down'[d] = <<acc, rdy>> \o <<>>
          \/ phase'[Owner(d)] = "waiting" /\ down'[d] = <<rdy>> \o <<>>
      BY <1>0, <1>1, <1>10, <2>2, <2>4 DEF Alone
    <2>8. OnWay(c, d, <<>>)' /\ OnWay(d, c, <<>>)'
      BY <2>5, <2>6, <2>7 DEF OnWay, Due
    <2>9. Met(x, y)'
      <3>1. CASE x = c /\ y = d
        BY <2>1, <2>5, <2>7, <2>8, <3>1 DEF Met, ANew
      <3>2. CASE x = d /\ y = c
        BY <2>1, <2>5, <2>7, <2>8, <3>2 DEF Met, ANew
      <3> QED
        BY <2>1, <3>1, <3>2
    <2> QED
      BY <2>9 DEF Paired
  <1> QED
    BY <1>14, <1>17, <1>18, <1>19 DEF Undisturbed, Shaking

(* A frame that arrives comes over a connection the relay lists, and a close *)
(* from a device that has left.                                              *)
LEMMA Arrivals ==
  ASSUME Calm, NEW c \in Conn, up[c] # <<>>, Head(up[c]).kind \in Frame \cup {"close"}
  PROVE  /\ Listed(c) \/ Head(up[c]).kind = "close"
         /\ Listed(c) => Talking(c)
         /\ Listed(c) /\ Head(up[c]).kind = "close" => Left(c)
         /\ up[c] \in Seq(Message) /\ c \notin cut
  <1>1. up[c] \in Seq(Message) /\ c \notin cut
    BY DEF Calm, TypeOK, Settled, CutQuiet
  <1>2. 1 \in 1..Len(up[c]) /\ Head(up[c]) = up[c][1]
    BY <1>1, InHead
  <1>3. Listed(c) \/ Head(up[c]).kind = "close"
    <2>1. SUFFICES ASSUME socket[c] = "none" PROVE FALSE
      BY DEF Calm, Settled, TypeOK, Listed
    <2>2. Asking(c)
      BY <2>1 DEF Calm, Settled, Sent
    <2>3. Head(up[c]) = Plain("request")
      BY <2>2, Short DEF Asking
    <2> QED
      BY <2>3 DEF Plain, Msg, Frame
  <1>4. Listed(c) => Talking(c)
    BY DEF Calm, Settled, Sent, Listed
  <1>5. Listed(c) /\ Head(up[c]).kind = "close" => Left(c)
    BY <1>2, <1>4 DEF Talking, Frame
  <1> QED
    BY <1>1, <1>3, <1>4, <1>5

(* A handshake message the relay passes on is still the one under way.       *)
LEMMA Carried ==
  ASSUME NEW c \in Conn, NEW d \in Conn, NEW m \in Message, OnWay(c, d, <<m>>),
         up[c] # <<>>, up'[c] = Tail(up[c]), down'[d] = Append(down[d], Head(up[c])),
         phase' = phase
  PROVE  OnWay(c, d, <<m>>)'
  <1>1. up[c] = <<m>> /\ down[d] = Due(Owner(d), <<>>)
    BY DEF OnWay
  <1>2. up'[c] = <<>> /\ down'[d] = Append(down[d], m)
    BY <1>1, Short
  <1>3. Plain("accepted") \in Message /\ Plain("ready") \in Message
    BY PlainMessage DEF Control
  <1>4. Append(Due(Owner(d), <<>>), m) = Due(Owner(d), <<m>>)'
    <2>1. CASE phase[Owner(d)] = "dialing"
      BY <1>3, <2>1, DueSeqs DEF Due
    <2>2. CASE phase[Owner(d)] = "waiting"
      BY <1>3, <2>2, DueSeqs DEF Due
    <2>3. CASE phase[Owner(d)] \notin {"dialing", "waiting"}
      BY <2>3, DueSeqs DEF Due
    <2> QED
      BY <2>1, <2>2, <2>3
  <1> QED
    BY <1>1, <1>2, <1>4 DEF OnWay

LEMMA NotCarried ==
  ASSUME NEW c \in Conn, NEW d \in Conn, OnWay(c, d, <<>>), up[c] # <<>>
  PROVE  FALSE
  BY DEF OnWay

LEMMA StillOnWay ==
  ASSUME NEW c \in Conn, NEW d \in Conn, NEW q, OnWay(c, d, q),
         up'[c] = up[c], down'[d] = down[d], phase' = phase
  PROVE  OnWay(c, d, q)'
  BY DEF OnWay, Due

(* So the relay takes a handshake no step further and none back.             *)
LEMMA PairedCarried ==
  ASSUME NEW x \in ConnOf("a"), NEW y \in ConnOf("b"), Paired(x, y),
         UNCHANGED <<phase, partner>>, NEW c \in {x, y}, NEW d \in {x, y}, c # d,
         up[c] # <<>>, up'[c] = Tail(up[c]), up'[d] = up[d],
         down'[d] = Append(down[d], Head(up[c])), down'[c] = down[c]
  PROVE  Paired(x, y)'
  <1>1. c \in Conn /\ d \in Conn /\ x \in Conn /\ y \in Conn
    BY DEF ConnOf
  <1>2. /\ Msg("hello", None, y) \in Message /\ Msg("reply", x, y) \in Message
        /\ Msg("finished", x, y) \in Message
    BY DEF Msg, Message
  <1>3. \A q : OnWay(d, c, q) => OnWay(d, c, q)'
    BY <1>1, StillOnWay
  <1>4. \A m \in Message : OnWay(c, d, <<m>>) => OnWay(c, d, <<m>>)'
    BY <1>1, Carried
  <1>5. ~OnWay(c, d, <<>>)
    BY <1>1, NotCarried
  <1>6. ANew' <=> ANew
    BY DEF ANew
  <1>7. CASE c = x /\ d = y
    BY <1>2, <1>3, <1>4, <1>5, <1>6, <1>7
    DEF Paired, Met, Hello, Reply, Finished, Done
  <1>8. CASE c = y /\ d = x
    BY <1>2, <1>3, <1>4, <1>5, <1>6, <1>8
    DEF Paired, Met, Hello, Reply, Finished, Done
  <1> QED
    BY <1>7, <1>8

(* webSocketMessage with an open peer.                                       *)
LEMMA PassedOnCalm ==
  ASSUME Calm, TypeOK', NEW c \in Conn, NEW d \in Sockets(Other(Owner(c))), socket[d] = "open",
         up[c] # <<>>, Head(up[c]).kind \in Frame, up' = Consumed(c), down' = Send(d, Head(up[c])),
         UNCHANGED <<phase, conn, partner, cut, socket>>
  PROVE  Settled' /\ Undisturbed'
  <1> DEFINE m == Head(up[c])
  <1>1. /\ up[c] \in Seq(Message) /\ c \notin cut /\ Listed(c) /\ Talking(c) /\ m \in Message
        /\ m.kind # "refused"
    BY Arrivals, TakeMessage DEF Frame
  <1>2. /\ d \in Conn /\ Owner(d) = Other(Owner(c)) /\ Owner(c) = Other(Owner(d)) /\ Listed(d) /\ d # c
        /\ Owner(c) # Owner(d)
    BY Sides DEF Sockets
  <1> HIDE DEF m
  <1>3. /\ down'[d] = IF Reaches(d) THEN Append(down[d], m) ELSE down[d]
        /\ \A e \in Conn \ {d} : down'[e] = down[e]
    <2>1. down \in [Conn -> Seq(Message)] /\ down' = Send(d, m)
      BY DEF Calm, TypeOK, m
    <2>2. /\ Reaches(d) => Send(d, m)[d] = Append(down[d], m)
          /\ ~Reaches(d) => Send(d, m)[d] = down[d]
          /\ \A e \in Conn \ {d} : Send(d, m)[e] = down[e]
      BY <1>2, <2>1, SendOne
    <2> QED
      BY <2>1, <2>2, Zenon
  <1>4. up'[c] = Tail(up[c]) /\ \A e \in Conn \ {c} : up'[e] = up[e]
    BY DEF Consumed, Calm, TypeOK
  <1>5. \A e \in Conn \ {c, d} : Same(e)
    BY <1>3, <1>4 DEF Same
  <1>6. /\ socket'[d] # "unreported" /\ Sent(d)' /\ Told(d)'
        /\ d \in cut' => up'[d] = <<>> /\ down'[d] = <<>>
        /\ Alive(d)' <=> Alive(d)
        /\ Alive(d) => down'[d] = Append(down[d], m)
    BY <1>1, <1>2, <1>3, <1>4, Delivered
  <1>7. /\ socket'[c] # "unreported" /\ Sent(c)' /\ Told(c)'
        /\ Alive(c)' <=> Alive(c)
    <2>1. Refused(c)' <=> Refused(c)
      BY <1>2, <1>3 DEF Refused
    <2>2. Left(c) => Left(c)'
      BY <2>1 DEF Left
    <2>3. Talking(c)'
      BY <1>1, <1>4, <2>2, TalksOn
    <2>4. Sent(c)'
      BY <1>1, <2>3 DEF Sent, Listed
    <2>5. Told(c)'
      BY <1>2, <1>3, ToldKeeps DEF Calm, Settled
    <2> QED
      BY <1>1, <2>1, <2>4, <2>5 DEF Alive, Listed
  <1>8. \A e \in Conn : Alive(e)' <=> Alive(e)
    BY <1>5, <1>6, <1>7, SameKeeps
  <1>9. \A e : Listed(e)' <=> Listed(e)
    BY DEF Listed
  <1>10. \A e \in Conn : Listed(e) => e \in {c, d}
    BY <1>1, <1>2, TwoListed DEF Calm, Settled
  <1>11. Settled'
    <2>1. OneListed'
      BY <1>9 DEF OneListed, Calm, Settled
    <2>2. \A e \in Conn \cap {c, d} : /\ socket'[e] # "unreported" /\ Sent(e)' /\ Told(e)'
                                      /\ e \in cut' => up'[e] = <<>> /\ down'[e] = <<>>
      BY <1>1, <1>6, <1>7
    <2> QED
      BY <1>5, <2>1, <2>2, SettledBut DEF Calm, TypeOK
  <1>12. PeersOpen'
    BY <1>8, <1>9 DEF Calm, Undisturbed, PeersOpen
  <1>13. Waiting'
    <2>1. d \in Sockets(Other(Owner(c)))' /\ c \in Sockets(Other(Owner(d)))'
      BY <1>1, <1>2, <1>9 DEF Sockets
    <2>2. \A e \in Conn : Alive(e)' => e \in {c, d}
      BY <1>8, <1>10 DEF Alive, Listed
    <2> QED
      BY <2>1, <2>2 DEF Waiting
  <1>14. ASSUME NEW x \in ConnOf("a"), NEW y \in ConnOf("b"), Alive(x)', Alive(y)'
         PROVE  Paired(x, y)'
    <2>1. x \in Conn /\ y \in Conn /\ x # y /\ Alive(x) /\ Alive(y)
      BY <1>8, <1>14, Sides DEF Side
    <2>2. x \in {c, d} /\ y \in {c, d}
      BY <1>10, <2>1 DEF Alive, Listed
    <2>3. c \in {x, y} /\ d \in {x, y} /\ Alive(d)
      BY <2>1, <2>2
    <2>4. Paired(x, y)
      BY <2>1 DEF Calm, Undisturbed, Shaking
    <2>5. down'[d] = Append(down[d], Head(up[c])) /\ down'[c] = down[c] /\ up'[d] = up[d]
      BY <1>2, <1>3, <1>4, <1>6, <2>3 DEF m
    <2> QED
      BY <1>2, <1>4, <2>3, <2>4, <2>5, PairedCarried
  <1> QED
    BY <1>11, <1>12, <1>13, <1>14 DEF Undisturbed, Shaking

(* Sockets are closed that are not alive once told so.                       *)
LEMMA ClosedShape ==
  ASSUME TypeOK, NEW C
  PROVE  \A e \in Conn :
           /\ Closed(C)[e] = IF e \in C /\ socket[e] = "open" THEN "closing" ELSE socket[e]
           /\ ToldClosed(C)[e] = IF e \in C /\ socket[e] = "open" /\ Reaches(e)
                                   THEN Append(down[e], Plain("close")) ELSE down[e]
  BY DEF Closed, ToldClosed

(* webSocketMessage without one: its sender is not alive any more.           *)
LEMMA SentBackCalm ==
  ASSUME Calm, TypeOK', NEW c \in Conn, up[c] # <<>>, Head(up[c]).kind \in Frame,
         {d \in Sockets(Other(Owner(c))) : socket[d] = "open"} = {},
         up' = Consumed(c), socket' = Closed({c}), down' = ToldClosed({c}),
         UNCHANGED <<phase, conn, partner, cut>>
  PROVE  Settled' /\ Undisturbed'
  <1>1. up[c] \in Seq(Message) /\ c \notin cut /\ Listed(c) /\ Talking(c)
    BY Arrivals DEF Frame
  <1>2. \A e \in Conn : ~Alive(e)
    <2>1. ASSUME Alive(c) PROVE FALSE
      <3>1. \A d \in Sockets(Other(Owner(c))) : socket[d] = "open"
        BY <2>1, Sides DEF Calm, Undisturbed, PeersOpen, Sockets
      <3>2. Alone(c)
        BY <2>1, <3>1 DEF Calm, Undisturbed, Waiting
      <3> QED
        BY <3>2 DEF Alone
    <2>2. ASSUME NEW e \in Conn, Alive(e) PROVE e = c
      <3>1. Listed(e) /\ socket[e] = "open"
        BY <2>2 DEF Alive, Listed
      <3>2. Owner(e) = Owner(c)
        BY <3>1, Sides DEF Sockets
      <3> QED
        BY <1>1, <3>1, <3>2 DEF Calm, Settled, OneListed
    <2> QED
      BY <2>1, <2>2
  <1>3. down'[c] = down[c] /\ \A e \in Conn \ {c} : down'[e] = down[e] /\ socket'[e] = socket[e]
    <2>1. ~(socket[c] = "open" /\ Reaches(c))
      BY <1>2 DEF Alive, Reaches
    <2> QED
      BY <2>1, ClosedShape DEF Calm
  <1>4. socket'[c] = "closing"
    BY <1>1, ClosedShape DEF Calm, Listed
  <1>5. up'[c] = Tail(up[c]) /\ \A e \in Conn \ {c} : up'[e] = up[e]
    BY DEF Consumed, Calm, TypeOK
  <1>6. \A e \in Conn \ {c} : Same(e)
    BY <1>3, <1>5 DEF Same
  <1>7. Sent(c)' /\ Told(c)'
    <2>1. Left(c) => Left(c)'
      BY <1>3 DEF Left, Refused
    <2>2. Talking(c)'
      BY <1>1, <1>5, <2>1, TalksOn
    <2> QED
      BY <1>3, <1>4, <2>2, ToldKeeps DEF Sent, Calm, Settled
  <1>8. OneListed'
    <2>1. \A e \in Conn : Listed(e)' => Listed(e)
      BY <1>1, <1>3 DEF Listed
    <2> QED
      BY <2>1, FewerListed DEF Calm, Settled
  <1>9. Settled'
    <2>1. \A e \in Conn \cap {c} : /\ socket'[e] # "unreported" /\ Sent(e)' /\ Told(e)'
                                   /\ e \in cut' => up'[e] = <<>> /\ down'[e] = <<>>
      BY <1>1, <1>4, <1>7
    <2> QED
      BY <1>6, <1>8, <2>1, SettledBut DEF Calm, TypeOK
  <1>10. \A e \in Conn : ~Alive(e)'
    <2>1. ~Alive(c)'
      BY <1>4 DEF Alive
    <2> QED
      BY <1>2, <1>6, <2>1, SameKeeps
  <1> QED
    BY <1>9, <1>10, NobodyAlive

(* webSocketMessage in either case.                                          *)
LEMMA WebSocketMessageCalm ==
  ASSUME Calm, TypeOK', NEW c \in Conn, WebSocketMessage(c)
  PROVE  Settled' /\ Undisturbed'
  <1> DEFINE open == {d \in Sockets(Other(Owner(c))) : socket[d] = "open"}
  <1>1. /\ up[c] # <<>> /\ Head(up[c]).kind \in Frame /\ up' = Consumed(c)
        /\ UNCHANGED <<phase, conn, partner, cut>>
    BY DEF WebSocketMessage, device
  <1>2. CASE open # {}
    <2>1. PICK d \in open : down' = Send(d, Head(up[c])) /\ socket' = socket
      BY <1>2 DEF WebSocketMessage
    <2> QED
      BY <1>1, <2>1, PassedOnCalm
  <1>3. CASE open = {}
    <2>1. socket' = Closed({c}) /\ down' = ToldClosed({c})
      BY <1>3 DEF WebSocketMessage
    <2> QED
      BY <1>1, <1>3, <2>1, SentBackCalm
  <1> QED
    BY <1>2, <1>3

(* The end of a socket, which closes all others: nothing is alive.           *)
LEMMA WebSocketCloseCalm ==
  ASSUME Calm, TypeOK', NEW c \in Conn, WebSocketClose(c)
  PROVE  Settled' /\ Undisturbed'
  <1> DEFINE others == {d \in Conn : Listed(d)} \ {c}
  <1>1. /\ Ended(c) /\ UNCHANGED <<phase, conn, partner, cut>>
        /\ socket' = [Closed(others) EXCEPT ![c] = "none"] /\ down' = ToldClosed(others)
        /\ up' = [up EXCEPT ![c] = <<>>]
    BY DEF WebSocketClose, ClosePair, device
  <1>2. /\ \A e \in Conn \ {c} :
             /\ up'[e] = up[e]
             /\ socket'[e] = IF socket[e] = "open" THEN "closing" ELSE socket[e]
             /\ down'[e] = IF socket[e] = "open" /\ Reaches(e)
                             THEN Append(down[e], Plain("close")) ELSE down[e]
        /\ up'[c] = <<>> /\ socket'[c] = "none" /\ down'[c] = down[c]
    <2>1. Closed(others) \in [Conn -> {"none", "open", "closing", "unreported"}]
      BY ClosedType DEF Calm
    <2>2. \A e \in Conn \ {c} : socket[e] = "open" => e \in others
      BY DEF Listed
    <2>3. c \notin others
      OBVIOUS
    <2>4. /\ up'[c] = <<>> /\ socket'[c] = "none"
          /\ \A e \in Conn \ {c} : up'[e] = up[e] /\ socket'[e] = Closed(others)[e]
      BY <1>1, <2>1 DEF Calm, TypeOK
    <2> HIDE DEF others
    <2> QED
      BY <1>1, <2>2, <2>3, <2>4, ClosedShape DEF Calm
  <1>3. ASSUME NEW e \in Conn \ {c}
        PROVE  /\ socket'[e] # "unreported" /\ Sent(e)' /\ Told(e)'
               /\ e \in cut' => up'[e] = <<>> /\ down'[e] = <<>>
    <2>1. Plain("close") \in Message /\ Plain("close").kind # "refused"
      BY PlainMessage DEF Control, Plain, Msg
    <2>2. down[e] \in Seq(Message)
      BY DEF Calm, TypeOK
    <2>3. Refused(e) => down'[e] = down[e]
      BY <1>2 DEF Reaches
    <2>4. Told(e)'
      <3>1. CASE down'[e] = down[e]
        BY <1>1, <3>1, ToldKeeps DEF Calm, Settled
      <3>2. CASE down'[e] = Append(down[e], Plain("close")) /\ ~Refused(e)
        BY <2>1, <2>2, <3>2, ToldMore DEF Calm, Settled
      <3> QED
        BY <1>2, <2>3, <3>1, <3>2
    <2>5. Left(e) => Left(e)'
      BY <1>1, <2>3 DEF Left, Refused
    <2>6. Sent(e)'
      <3>1. CASE socket[e] = "none"
        BY <1>1, <1>2, <2>5, <3>1 DEF Sent, Asking, Calm, Settled
      <3>2. CASE socket[e] # "none"
        BY <1>2, <2>5, <3>2, Talks DEF Sent, Calm, Settled
      <3> QED
        BY <3>1, <3>2
    <2> QED
      BY <1>1, <1>2, <2>4, <2>6 DEF Calm, Settled, CutQuiet, Reaches
  <1>4. Sent(c)' /\ Told(c)'
    <2>1. Left(c) \/ c \in cut
      BY <1>1, Arrivals DEF Ended, Arrives
    <2>2. Left(c)' \/ c \in cut'
      BY <1>1, <1>2, <2>1 DEF Left, Refused
    <2> QED
      BY <1>1, <1>2, <2>2, ToldKeeps DEF Sent, Asking, Calm, Settled
  <1>5. OneListed'
    <2>1. \A e \in Conn : Listed(e)' => Listed(e)
      BY <1>2 DEF Listed
    <2> QED
      BY <2>1, FewerListed DEF Calm, Settled
  <1>6. Settled'
    <2>1. \A e \in Conn \cap Conn : /\ socket'[e] # "unreported" /\ Sent(e)' /\ Told(e)'
                                    /\ e \in cut' => up'[e] = <<>> /\ down'[e] = <<>>
      BY <1>1, <1>2, <1>3, <1>4 DEF Calm, Settled, CutQuiet
    <2> QED
      BY <1>1, <1>5, <2>1, SettledBut DEF Calm, TypeOK
  <1>7. \A e \in Conn : ~Alive(e)'
    BY <1>2 DEF Alive
  <1> QED
    BY <1>6, <1>7, NobodyAlive

LEMMA EmptyTold ==
  ASSUME NEW c, down'[c] = <<>>
  PROVE  Told(c)'
  <1>1. \A q : q = <<>> => \A i \in 1..Len(q) : FALSE
    OBVIOUS
  <1>2. \A i \in 1..Len(down'[c]) : FALSE
    BY <1>1
  <1> QED
    BY <1>2 DEF Told

(* A device may say frames, and its close when it has left.                  *)
LEMMA TalksMore ==
  ASSUME NEW d, Talking(d), up[d] \in Seq(Message), NEW m \in Message,
         m.kind \in Frame \/ (m.kind = "close" /\ Left(d)'),
         up'[d] = Append(up[d], m), Left(d) => Left(d)'
  PROVE  Talking(d)'
  <1>1. /\ Len(Append(up[d], m)) = Len(up[d]) + 1 /\ Len(up[d]) \in Nat
        /\ \A i \in 1..Len(up[d]) : Append(up[d], m)[i] = up[d][i]
        /\ Append(up[d], m)[Len(up[d]) + 1] = m
    OBVIOUS
  <1>2. \A i \in 1..Len(up'[d]) :
           (i \in 1..Len(up[d]) /\ up'[d][i] = up[d][i]) \/ up'[d][i] = m
    BY <1>1
  <1>3. ASSUME NEW i \in 1..Len(up'[d])
        PROVE  up'[d][i].kind \in Frame \/ (up'[d][i].kind = "close" /\ Left(d)')
    BY <1>2, <1>3 DEF Talking
  <1> QED
    BY <1>3 DEF Talking

(* Only the connection a device uses changes with what the device does.      *)
LEMMA DeviceSettled ==
  ASSUME Calm, TypeOK', NEW s \in Side, NEW c \in Conn, \A e \in Conn \ {c} : Same(e),
         socket' = socket, Sent(c)', Told(c)', c \in cut' => up'[c] = <<>> /\ down'[c] = <<>>
  PROVE  Settled'
  <1>1. OneListed'
    BY FewerListed DEF Listed, Calm, Settled
  <1>2. \A e \in Conn \cap {c} : /\ socket'[e] # "unreported" /\ Sent(e)' /\ Told(e)'
                                 /\ e \in cut' => up'[e] = <<>> /\ down'[e] = <<>>
    BY DEF Calm, Settled
  <1>3. cut' \subseteq Conn
    BY DEF TypeOK
  <1> QED
    BY <1>1, <1>2, <1>3, SettledBut DEF Calm

(* A device that does not rest uses a connection of its own.                 *)
LEMMA Using ==
  ASSUME TypeOK, NEW s \in Side, phase[s] # "resting"
  PROVE  conn[s] \in Conn /\ Owner(conn[s]) = s /\ conn[s] # None
  BY DEF TypeOK

(* A device hangs up: it leaves its connection, and only that.               *)
LEMMA HangUpCalm ==
  ASSUME Calm, TypeOK', NEW s \in Side, phase[s] # "resting", HangUp(s),
         UNCHANGED <<socket, cut>>
  PROVE  Settled' /\ Undisturbed'
  <1>0. PICK c \in Conn : c = conn[s] /\ Owner(c) = s
    BY Using DEF Calm
  <1>1. None \notin Conn
    BY RelayAssumption
  <1>2. /\ conn'[s] = None
        /\ \A t \in Side \ {s} : /\ phase'[t] = phase[t] /\ conn'[t] = conn[t]
                                 /\ partner'[t] = partner[t]
    BY DEF HangUp, Calm, TypeOK
  <1>3. /\ Refused(c) \/ c \in cut => up'[c] = up[c]
        /\ ~(Refused(c) \/ c \in cut) => up'[c] = Append(up[c], Plain("close"))
        /\ down'[c] = <<>>
        /\ \A e \in Conn \ {c} : up'[e] = up[e] /\ down'[e] = down[e]
    BY <1>0 DEF HangUp, Calm, TypeOK
  <1>4. \A e \in Conn \ {c} : Same(e)
    <2>1. \A e \in Conn \ {c} : conn[s] # e /\ conn'[s] # e
      BY <1>0, <1>1, <1>2
    <2> QED
      BY <1>2, <1>3, <2>1, Sides DEF Same
  <1>5. Left(c)'
    BY <1>0, <1>1, <1>2 DEF Left
  <1>6. up[c] \in Seq(Message) /\ Plain("close") \in Message
    BY PlainMessage DEF Calm, TypeOK, Control
  <1>7. Sent(c)'
    <2>1. CASE socket[c] = "none"
      <3>1. Asking(c)
        BY <2>1 DEF Calm, Settled, Sent
      <3>2. CASE up[c] = <<>>
        <4>1. up'[c] = <<>>
          BY <1>0, <1>3, <3>1, <3>2, Short DEF Asking, Left
        <4> QED
          BY <1>5, <2>1, <4>1 DEF Sent, Asking
      <3>3. CASE up[c] = <<Plain("request")>> /\ down[c] = <<>>
        <4>1. ~Refused(c) /\ c \notin cut
          BY <3>3, Short DEF Refused, Calm, Settled, CutQuiet
        <4>2. up'[c] = Append(<<Plain("request")>>, Plain("close"))
          BY <1>3, <3>3, <4>1
        <4>3. Plain("request") \in Message
          BY PlainMessage DEF Control
        <4>4. up'[c] = <<Plain("request"), Plain("close")>>
          BY <1>6, <4>2, <4>3, DueSeqs
        <4> QED
          BY <1>0, <1>1, <1>2, <2>1, <4>4 DEF Sent, Asking
      <3> QED
        BY <1>0, <3>1, <3>2, <3>3 DEF Asking, Left
    <2>2. CASE socket[c] # "none"
      <3>1. Talking(c)
        BY <2>2 DEF Calm, Settled, Sent
      <3>2. Talking(c)'
        <4>1. CASE up'[c] = up[c]
          BY <1>5, <3>1, <4>1, Talks
        <4>2. CASE up'[c] = Append(up[c], Plain("close"))
          BY <1>5, <1>6, <3>1, <4>2, TalksMore DEF Plain, Msg
        <4> QED
          BY <1>3, <4>1, <4>2
      <3> QED
        BY <2>2, <3>2 DEF Sent
    <2> QED
      BY <2>1, <2>2
  <1>8. Told(c)'
    BY <1>3, EmptyTold
  <1>9. c \in cut' => up'[c] = <<>> /\ down'[c] = <<>>
    BY <1>3 DEF Calm, Settled, CutQuiet
  <1>10. Settled'
    BY <1>4, <1>7, <1>8, <1>9, DeviceSettled
  <1>11. Undisturbed'
    <2>1. ASSUME NEW e \in Conn, Alive(e)'
          PROVE  Same(e) /\ partner'[Owner(e)] = partner[Owner(e)]
      <3>1. Owner(e) # s /\ e # c
        BY <1>0, <1>1, <1>2, <2>1 DEF Alive
      <3> QED
        BY <1>2, <1>4, <3>1, Sides
    <2> QED
      BY <2>1, Undisturbing DEF Calm
  <1> QED
    BY <1>10, <1>11

(* A connection breaks: it is not alive any more.                            *)
LEMMA BreakCalm ==
  ASSUME Calm, TypeOK', NEW s \in Side, Break(s)
  PROVE  Settled' /\ Undisturbed'
  <1>0. PICK c \in Conn : c = conn[s] /\ Owner(c) = s
    BY Using DEF Calm, Break
  <1>1. /\ UNCHANGED <<phase, conn, partner, socket>>
        /\ cut' = cut \cup {c} /\ up' = [up EXCEPT ![c] = <<>>] /\ down' = [down EXCEPT ![c] = <<>>]
    BY <1>0 DEF Break, device
  <1>2. /\ up'[c] = <<>> /\ down'[c] = <<>>
        /\ \A e \in Conn \ {c} : up'[e] = up[e] /\ down'[e] = down[e]
    BY <1>1 DEF Calm, TypeOK
  <1>3. \A e \in Conn \ {c} : Same(e)
    BY <1>1, <1>2 DEF Same
  <1>4. Talking(c)'
    BY <1>2, EmptyTalks
  <1>5. Sent(c)' /\ Told(c)'
    BY <1>1, <1>2, <1>4, EmptyTold DEF Sent, Asking
  <1>6. Settled'
    BY <1>1, <1>2, <1>3, <1>5, DeviceSettled
  <1>7. Undisturbed'
    <2>1. \A e \in Conn : Alive(e)' => Same(e) /\ partner'[Owner(e)] = partner[Owner(e)]
      BY <1>1, <1>3 DEF Alive
    <2> QED
      BY <1>1, <2>1, Undisturbing DEF Calm
  <1> QED
    BY <1>6, <1>7

(* A device dials: its request is the first message of the connection.       *)
LEMMA DialCalm ==
  ASSUME Calm, TypeOK', NEW s \in Side, NEW c \in Conn, Dial(s, c)
  PROVE  Settled' /\ Undisturbed'
  <1>1. /\ Owner(c) = s /\ phase[s] = "resting" /\ conn[s] = None /\ None \notin Conn
        /\ socket[c] = "none" /\ down[c] = <<>> /\ UNCHANGED <<partner, socket, down>>
        /\ phase' = [phase EXCEPT ![s] = "dialing"] /\ conn' = [conn EXCEPT ![s] = c]
        /\ cut' = cut \ {c} /\ up' = [up EXCEPT ![c] = <<Plain("request")>>]
    BY RelayAssumption DEF Dial, Unused, Calm, TypeOK
  <1>2. /\ phase'[s] = "dialing" /\ conn'[s] = c
        /\ \A t \in Side \ {s} : phase'[t] = phase[t] /\ conn'[t] = conn[t]
        /\ up'[c] = <<Plain("request")>>
        /\ \A e \in Conn \ {c} : up'[e] = up[e]
    BY <1>1 DEF Calm, TypeOK
  <1>3. \A e \in Conn \ {c} : Same(e)
    BY <1>1, <1>2, Sides DEF Same
  <1>4. Sent(c)' /\ Told(c)'
    BY <1>1, <1>2, EmptyTold DEF Sent, Asking
  <1>5. Settled'
    BY <1>1, <1>3, <1>4, DeviceSettled
  <1>6. Undisturbed'
    <2>1. \A e \in Conn : Alive(e)' => Same(e) /\ partner'[Owner(e)] = partner[Owner(e)]
      BY <1>1, <1>3 DEF Alive
    <2> QED
      BY <1>1, <2>1, Undisturbing DEF Calm
  <1> QED
    BY <1>5, <1>6

(* A device that reads a message other than a refusal, and says frames if    *)
(* anything: only the handshake moves.                                       *)
LEMMA ProceedCalm ==
  ASSUME Calm, TypeOK', NEW s \in Side, NEW c \in Conn, conn[s] = c, Owner(c) = s,
         down[c] # <<>>, ~Refused(c),
         NEW p \in Phase \ {"dialing"}, NEW d, NEW ms,
         ms = <<>> \/ \E n \in Message : ms = <<n>> /\ n.kind \in Frame,
         Proceed(s, p, d, ms), UNCHANGED <<socket, cut>>,
         phase[s] = "dialing" => p = "waiting" /\ ms = <<>>,
         \A x \in ConnOf("a"), y \in ConnOf("b") :
           conn["a"] = x /\ conn["b"] = y /\ c \notin cut /\ Paired(x, y) => Paired(x, y)'
  PROVE  Settled' /\ Undisturbed'
  <1>1. /\ conn' = conn /\ phase'[s] = p
        /\ \A t \in Side \ {s} : phase'[t] = phase[t] /\ partner'[t] = partner[t]
    BY DEF Proceed, Calm, TypeOK
  <1>2. c \notin cut /\ up[c] \in Seq(Message) /\ down[c] \in Seq(Message)
    BY DEF Calm, Settled, CutQuiet, TypeOK
  <1>3. /\ up'[c] = up[c] \o ms /\ down'[c] = Tail(down[c])
        /\ \A e \in Conn \ {c} : up'[e] = up[e] /\ down'[e] = down[e]
    BY <1>2 DEF Proceed, Calm, TypeOK
  <1>4. \A e \in Conn \ {c} : Same(e)
    <2>1. \A e \in Conn \ {c} : Owner(e) = s => conn[Owner(e)] # e
      OBVIOUS
    <2> QED
      BY <1>1, <1>3, <2>1, Sides DEF Same
  <1>5. Listed(c) /\ Talking(c)
    <2>1. socket[c] # "none"
      BY <1>2 DEF Calm, Settled, Sent, Asking, Left
    <2> QED
      BY <2>1 DEF Calm, Settled, Sent, Listed, TypeOK
  <1>6. Told(c)'
    BY <1>2, <1>3, ToldLess DEF Calm, Settled
  <1>7. Talking(c)'
    <2>1. Left(c) => Left(c)'
      BY DEF Left
    <2>2. CASE ms = <<>>
      <3>1. up'[c] = up[c]
        BY <1>2, <1>3, <2>2, ConcatEmptySeq
      <3> QED
        BY <1>5, <2>1, <3>1, Talks
    <2>3. ASSUME NEW n \in Message, ms = <<n>>, n.kind \in Frame
          PROVE  Talking(c)'
      <3>1. up'[c] = Append(up[c], n)
        BY <1>2, <1>3, <2>3, AppendIsConcat
      <3> QED
        BY <1>2, <1>5, <2>1, <2>3, <3>1, TalksMore
    <2> QED
      BY <2>2, <2>3
  <1>8. Sent(c)'
    BY <1>5, <1>7 DEF Sent, Listed
  <1>9. Settled'
    BY <1>2, <1>4, <1>6, <1>8, DeviceSettled
  <1>10. \A e \in Conn : Alive(e)' => Alive(e)
    <2>1. Alive(c)' => Alive(c)
      BY <1>1 DEF Alive
    <2> QED
      BY <1>4, <2>1, SameKeeps
  <1>11. \A e : Listed(e)' <=> Listed(e)
    BY DEF Listed
  <1>12. PeersOpen'
    BY <1>10, <1>11 DEF PeersOpen, Calm, Undisturbed
  <1>13. Waiting'
    <2>1. SUFFICES ASSUME NEW e \in Conn, Alive(e)', (Sockets(Other(Owner(e))) = {})'
                   PROVE  Alone(e)'
      BY DEF Waiting
    <2>2. Alive(e) /\ Alone(e)
      BY <1>10, <1>11, <2>1 DEF Calm, Undisturbed, Waiting, Sockets
    <2>3. CASE e # c
      BY <1>4, <2>2, <2>3, SameKeeps
    <2>4. CASE e = c
      <3>1. phase[s] = "dialing" /\ down[c] = <<Plain("accepted")>> /\ up[c] = <<>>
        BY <2>2, <2>4 DEF Alone
      <3>2. down'[c] = <<>> /\ up'[c] = <<>> /\ phase'[s] = "waiting"
        <4>1. <<>> \o <<>> = <<>>
          OBVIOUS
        <4> QED
          BY <1>1, <1>3, <3>1, <4>1, Short
      <3> QED
        BY <2>4, <3>2 DEF Alone
    <2> QED
      BY <2>3, <2>4
  <1>14. Shaking'
    <2>1. SUFFICES ASSUME NEW x \in ConnOf("a"), NEW y \in ConnOf("b"), Alive(x)', Alive(y)'
                   PROVE  Paired(x, y)'
      BY DEF Shaking
    <2>2. x \in Conn /\ y \in Conn /\ Owner(x) = "a" /\ Owner(y) = "b"
      BY DEF ConnOf
    <2>3. Alive(x) /\ Alive(y) /\ Paired(x, y)
      BY <1>10, <2>1, <2>2 DEF Calm, Undisturbed, Shaking
    <2> QED
      BY <1>2, <2>2, <2>3 DEF Alive
  <1> QED
    BY <1>9, <1>12, <1>13, <1>14 DEF Undisturbed

(* What is due once the relay's first message is read.                       *)
LEMMA DueTails ==
  ASSUME NEW q \in Seq(Message)
  PROVE  /\ Head(<<Plain("accepted"), Plain("ready")>> \o q) = Plain("accepted")
         /\ Tail(<<Plain("accepted"), Plain("ready")>> \o q) = <<Plain("ready")>> \o q
         /\ Head(<<Plain("ready")>> \o q) = Plain("ready")
         /\ Tail(<<Plain("ready")>> \o q) = q
  <1>1. ASSUME NEW m \in Message, NEW r \in Seq(Message)
        PROVE  Head(<<m>> \o r) = m /\ Tail(<<m>> \o r) = r
    <2>1. <<m>> \in Seq(Message) /\ Len(<<m>>) = 1 /\ <<m>>[1] = m
      OBVIOUS
    <2> DEFINE z == <<m>> \o r
    <2>2. /\ z \in Seq(Message) /\ Len(z) = 1 + Len(r) /\ Len(r) \in Nat /\ z[1] = m
          /\ \A i \in 1..Len(r) : z[i + 1] = r[i]
      BY <2>1
    <2> HIDE DEF z
    <2>3. z # <<>>
      BY <2>2, EmptySeq
    <2>4. Tail(z) \in Seq(Message) /\ Len(Tail(z)) = Len(r) /\ \A i \in 1..Len(Tail(z)) : Tail(z)[i] = z[i + 1]
      BY <2>2, <2>3, HeadTailProperties
    <2>5. Tail(z) = r
      BY <2>2, <2>4, SeqEqual
    <2>6. Head(z) = m
      BY <2>2, <2>3, InHead
    <2> QED
      BY <2>5, <2>6 DEF z
  <1> DEFINE acc == Plain("accepted")
             rdy == Plain("ready")
  <1>2. acc \in Message /\ rdy \in Message
    BY PlainMessage DEF Control
  <1> HIDE DEF acc, rdy
  <1>3. <<acc>> \in Seq(Message) /\ <<rdy>> \in Seq(Message)
    BY <1>2
  <1>4. <<acc>> \o <<rdy>> = <<acc, rdy>>
    BY <1>2, DueSeqs
  <1>5. <<rdy>> \o q \in Seq(Message)
    BY <1>3, ConcatProperties
  <1>6. (<<acc>> \o <<rdy>>) \o q = <<acc>> \o (<<rdy>> \o q)
    BY <1>3, ConcatAssociative
  <1> QED
    BY <1>1, <1>2, <1>4, <1>5, <1>6 DEF acc, rdy

(* A device that reads what the relay told it has the same frame to come.    *)
LEMMA WayRead ==
  ASSUME NEW c \in Conn, NEW d \in Conn, NEW q \in Seq(Message), OnWay(c, d, q),
         up'[c] = up[c], down'[d] = Tail(down[d]),
         \/ phase[Owner(d)] = "dialing" /\ phase'[Owner(d)] = "waiting"
         \/ phase[Owner(d)] = "waiting" /\ phase'[Owner(d)] = "greeting"
  PROVE  OnWay(c, d, q)'
  <1>1. <<>> \in Seq(Message)
    OBVIOUS
  <1>2. \A r \in Seq(Message) : Tail(Due(Owner(d), r)) = Due(Owner(d), r)'
    BY DueTails DEF Due
  <1> QED
    BY <1>1, <1>2 DEF OnWay

LEMMA WayKept ==
  ASSUME NEW c \in Conn, NEW d \in Conn, NEW q, OnWay(c, d, q),
         up'[c] = up[c], down'[d] = down[d], phase'[Owner(d)] = phase[Owner(d)]
  PROVE  OnWay(c, d, q)'
  BY DEF OnWay, Due

(* The handshake messages are messages.                                      *)
LEMMA Letters ==
  ASSUME NEW x \in ConnOf("a"), NEW y \in ConnOf("b")
  PROVE  /\ Msg("hello", None, y) \in Message /\ Msg("reply", x, y) \in Message
         /\ Msg("finished", x, y) \in Message
         /\ \A q \in {<<>>, <<Msg("hello", None, y)>>, <<Msg("reply", x, y)>>, <<Msg("finished", x, y)>>} :
              q \in Seq(Message)
  BY DEF Msg, Message

(* Accepted, or ready without a word to say.                                 *)
LEMMA WelcomePairs ==
  ASSUME TypeOK, NEW x \in ConnOf("a"), NEW y \in ConnOf("b"), conn["a"] = x, conn["b"] = y,
         Paired(x, y), NEW s \in Side, conn[s] \notin cut, NEW p, Proceed(s, p, None, <<>>),
         \/ phase[s] = "dialing" /\ p = "waiting"
         \/ phase[s] = "waiting" /\ p = "greeting" /\ s = "a"
  PROVE  Paired(x, y)'
  <1>1. <<>> \in Seq(Message) /\ \A q \in Seq(Message) : q \o <<>> = q
    BY ConcatEmptySeq
  <1>2. up[x] \in Seq(Message) /\ up[y] \in Seq(Message)
    BY DEF TypeOK, ConnOf
  <1>3. CASE s = "a"
    <2>1. /\ up'[x] = up[x] /\ up'[y] = up[y] /\ down'[x] = Tail(down[x]) /\ down'[y] = down[y]
          /\ phase'["a"] = p /\ partner'["a"] = None /\ phase'["b"] = phase["b"]
          /\ x \in Conn /\ y \in Conn /\ Owner(x) = "a" /\ Owner(y) = "b"
      BY <1>1, <1>2, <1>3 DEF Proceed, TypeOK, ConnOf, Side
    <2>2. ANew'
      BY <1>3, <2>1 DEF ANew
    <2>3. \A q \in Seq(Message) : OnWay(y, x, q) => OnWay(y, x, q)'
      BY <1>3, <2>1, WayRead
    <2>4. OnWay(x, y, <<>>) => OnWay(x, y, <<>>)'
      BY <2>1, WayKept
    <2>5. Met(x, y) \/ Hello(x, y)
      BY <1>3 DEF Paired, Reply, Finished, Done
    <2> QED
      BY <1>1, <2>1, <2>2, <2>3, <2>4, <2>5, Letters DEF Paired, Met, Hello
  <1>4. CASE s = "b"
    <2>1. /\ up'[x] = up[x] /\ up'[y] = up[y] /\ down'[y] = Tail(down[y]) /\ down'[x] = down[x]
          /\ phase'["b"] = p /\ phase'["a"] = phase["a"] /\ partner'["a"] = partner["a"]
          /\ x \in Conn /\ y \in Conn /\ Owner(x) = "a" /\ Owner(y) = "b"
      BY <1>1, <1>2, <1>4 DEF Proceed, TypeOK, ConnOf, Side
    <2>2. ANew => ANew'
      BY <2>1 DEF ANew
    <2>3. OnWay(x, y, <<>>) => OnWay(x, y, <<>>)'
      BY <1>1, <1>4, <2>1, WayRead
    <2>4. OnWay(y, x, <<>>) => OnWay(y, x, <<>>)'
      BY <2>1, WayKept
    <2>5. Met(x, y)
      BY <1>4 DEF Paired, Hello, Reply, Finished, Done
    <2> QED
      BY <1>4, <2>1, <2>2, <2>3, <2>4, <2>5 DEF Paired, Met
  <1> QED
    BY <1>3, <1>4 DEF Side

(* b is ready and says hello.                                                *)
LEMMA ReadyPairs ==
  ASSUME TypeOK, NEW x \in ConnOf("a"), NEW y \in ConnOf("b"), conn["a"] = x, conn["b"] = y,
         Paired(x, y), y \notin cut, phase["b"] = "waiting",
         Proceed("b", "greeting", None, <<Msg("hello", None, y)>>)
  PROVE  Paired(x, y)'
  <1> DEFINE m == Msg("hello", None, y)
  <1>1. m \in Message /\ <<m>> \in Seq(Message) /\ <<>> \o <<m>> = <<m>>
    BY Letters, ConcatEmptySeq
  <1>2. Met(x, y)
    BY DEF Paired, Hello, Reply, Finished, Done
  <1>3. up[x] = <<>> /\ up[y] = <<>> /\ down[x] = Due("a", <<>>) /\ down[y] = Due("b", <<>>)
    BY <1>2 DEF Met, OnWay, ConnOf
  <1> HIDE DEF m
  <1>4. /\ up'[x] = up[x] /\ up'[y] = <<m>> /\ down'[y] = Tail(down[y]) /\ down'[x] = down[x]
        /\ phase'["b"] = "greeting" /\ phase'["a"] = phase["a"] /\ partner'["a"] = partner["a"]
        /\ Owner(x) = "a" /\ Owner(y) = "b"
    <2>1. "b" \in Side /\ Proceed("b", "greeting", None, <<m>>)
      BY DEF Side, m
    <2>2. /\ up'[y] = up[y] \o <<m>> /\ up'[x] = up[x]
          /\ down'[y] = Tail(down[y]) /\ down'[x] = down[x]
          /\ phase'["b"] = "greeting" /\ phase'["a"] = phase["a"] /\ partner'["a"] = partner["a"]
          /\ Owner(x) = "a" /\ Owner(y) = "b"
      BY <2>1 DEF Proceed, TypeOK, ConnOf, Side
    <2> QED
      BY <1>1, <1>3, <2>2
  <1>5. down'[y] = <<>>
    <2>1. <<>> \in Seq(Message) /\ down[y] = <<Plain("ready")>> \o <<>>
      BY <1>3 DEF Due
    <2> QED
      BY <1>4, <2>1, DueTails
  <1>6. ANew'
    BY <1>2, <1>4 DEF Met, ANew
  <1>7. OnWay(x, y, <<>>)'
    BY <1>3, <1>4, <1>5 DEF OnWay, Due
  <1>8. OnWay(y, x, <<m>>)'
    BY <1>3, <1>4 DEF OnWay, Due
  <1> QED
    BY <1>4, <1>6, <1>7, <1>8 DEF Paired, Hello, m

(* a reads the hello and replies.                                            *)
LEMMA HelloPairs ==
  ASSUME TypeOK, NEW x \in ConnOf("a"), NEW y \in ConnOf("b"), conn["a"] = x, conn["b"] = y,
         Paired(x, y), x \notin cut, phase["a"] = "greeting", down[x] # <<>>,
         IsHello("a", Head(down[x])),
         Proceed("a", "greeting", Head(down[x]).b, <<Msg("reply", x, Head(down[x]).b)>>)
  PROVE  Paired(x, y)'
  <1> DEFINE m == Msg("hello", None, y)
             r == Msg("reply", x, y)
  <1>1. r \in Message /\ <<r>> \in Seq(Message) /\ <<>> \o <<r>> = <<r>> /\ m.b = y
    BY Letters, ConcatEmptySeq DEF Msg
  <1>2. y # None
    BY RelayAssumption DEF ConnOf
  <1>3. Hello(x, y)
    <2>1. ~Reply(x, y) /\ ~Finished(x, y) /\ ~Done(x, y)
      BY <1>2 DEF Reply, Finished, Done, IsHello
    <2>2. ~Met(x, y)
      BY DEF Met, OnWay, Due, ConnOf
    <2> QED
      BY <2>1, <2>2 DEF Paired
  <1>4. up[x] = <<>> /\ up[y] = <<>> /\ down[x] = <<m>> /\ down[y] = <<>>
    BY <1>3 DEF Hello, OnWay, Due, ConnOf
  <1> HIDE DEF m, r
  <1>5. Head(down[x]) = m
    BY <1>4, Short
  <1>6. /\ up'[x] = <<r>> /\ up'[y] = up[y] /\ down'[x] = <<>> /\ down'[y] = down[y]
        /\ phase'["a"] = "greeting" /\ partner'["a"] = y /\ phase'["b"] = phase["b"]
        /\ Owner(x) = "a" /\ Owner(y) = "b"
    <2>1. "a" \in Side /\ Proceed("a", "greeting", y, <<r>>)
      BY <1>1, <1>5 DEF Side, r
    <2>2. /\ up'[x] = up[x] \o <<r>> /\ up'[y] = up[y]
          /\ down'[x] = Tail(down[x]) /\ down'[y] = down[y]
          /\ phase'["a"] = "greeting" /\ partner'["a"] = y /\ phase'["b"] = phase["b"]
          /\ Owner(x) = "a" /\ Owner(y) = "b"
      BY <2>1 DEF Proceed, TypeOK, ConnOf, Side
    <2>3. Tail(<<m>>) = <<>>
      BY Short
    <2> QED
      BY <1>1, <1>4, <2>2, <2>3
  <1>7. phase["b"] = "greeting"
    BY <1>3 DEF Hello
  <1>8. OnWay(x, y, <<r>>)' /\ OnWay(y, x, <<>>)'
    BY <1>4, <1>6, <1>7 DEF OnWay, Due
  <1> QED
    BY <1>6, <1>7, <1>8 DEF Paired, Reply, r

(* b reads the reply, is done and says so.                                   *)
LEMMA ReplyPairs ==
  ASSUME TypeOK, NEW x \in ConnOf("a"), NEW y \in ConnOf("b"), conn["a"] = x, conn["b"] = y,
         Paired(x, y), y \notin cut, phase["b"] = "greeting", down[y] # <<>>,
         IsReply("b", Head(down[y])),
         Proceed("b", "serving", Head(down[y]).a, <<Msg("finished", Head(down[y]).a, y)>>)
  PROVE  Paired(x, y)'
  <1> DEFINE m == Msg("reply", x, y)
             r == Msg("finished", x, y)
  <1>1. r \in Message /\ <<r>> \in Seq(Message) /\ <<>> \o <<r>> = <<r>> /\ m.a = x
    BY Letters, ConcatEmptySeq DEF Msg
  <1>2. Reply(x, y)
    <2>1. ~Met(x, y) /\ ~Finished(x, y) /\ ~Done(x, y)
      BY DEF Met, Finished, Done
    <2>2. ~Hello(x, y)
      BY DEF Hello, OnWay, Due, ConnOf
    <2> QED
      BY <2>1, <2>2 DEF Paired
  <1>3. up[x] = <<>> /\ up[y] = <<>> /\ down[x] = <<>> /\ down[y] = <<m>>
    BY <1>2 DEF Reply, OnWay, Due, ConnOf
  <1> HIDE DEF m, r
  <1>4. Head(down[y]) = m
    BY <1>3, Short
  <1>5. /\ up'[y] = <<r>> /\ up'[x] = up[x] /\ down'[y] = <<>> /\ down'[x] = down[x]
        /\ phase'["b"] = "serving" /\ partner'["b"] = x
        /\ phase'["a"] = phase["a"] /\ partner'["a"] = partner["a"]
        /\ Owner(x) = "a" /\ Owner(y) = "b"
    <2>1. "b" \in Side /\ Proceed("b", "serving", x, <<r>>)
      BY <1>1, <1>4 DEF Side, r
    <2>2. /\ up'[y] = up[y] \o <<r>> /\ up'[x] = up[x]
          /\ down'[y] = Tail(down[y]) /\ down'[x] = down[x]
          /\ phase'["b"] = "serving" /\ partner'["b"] = x
          /\ phase'["a"] = phase["a"] /\ partner'["a"] = partner["a"]
          /\ Owner(x) = "a" /\ Owner(y) = "b"
      BY <2>1 DEF Proceed, TypeOK, ConnOf, Side
    <2>3. Tail(<<m>>) = <<>>
      BY Short
    <2> QED
      BY <1>1, <1>3, <2>2, <2>3
  <1>6. phase["a"] = "greeting" /\ partner["a"] = y
    BY <1>2 DEF Reply
  <1>7. OnWay(y, x, <<r>>)' /\ OnWay(x, y, <<>>)'
    BY <1>3, <1>5, <1>6 DEF OnWay, Due
  <1> QED
    BY <1>5, <1>6, <1>7 DEF Paired, Finished, r

(* a reads that b is done: so is a.                                          *)
LEMMA FinishedPairs ==
  ASSUME TypeOK, NEW x \in ConnOf("a"), NEW y \in ConnOf("b"), conn["a"] = x, conn["b"] = y,
         Paired(x, y), x \notin cut, phase["a"] = "greeting", down[x] # <<>>,
         IsFinished("a", Head(down[x])), Proceed("a", "serving", partner["a"], <<>>)
  PROVE  Paired(x, y)'
  <1> DEFINE m == Msg("finished", x, y)
  <1>1. Finished(x, y)
    <2>1. ~Met(x, y) /\ ~Hello(x, y) /\ ~Done(x, y)
      BY DEF Met, Hello, Done, ANew, IsFinished
    <2>2. ~Reply(x, y)
      BY DEF Reply, OnWay, Due, ConnOf
    <2> QED
      BY <2>1, <2>2 DEF Paired
  <1>2. up[x] = <<>> /\ up[y] = <<>> /\ down[x] = <<m>> /\ down[y] = <<>>
    BY <1>1 DEF Finished, OnWay, Due, ConnOf
  <1> HIDE DEF m
  <1>3. /\ up'[x] = <<>> /\ up'[y] = up[y] /\ down'[x] = <<>> /\ down'[y] = down[y]
        /\ phase'["a"] = "serving" /\ partner'["a"] = partner["a"]
        /\ phase'["b"] = phase["b"] /\ partner'["b"] = partner["b"]
        /\ Owner(x) = "a" /\ Owner(y) = "b"
    <2>1. "a" \in Side /\ <<>> \in Seq(Message) /\ <<>> \o <<>> = <<>>
      BY ConcatEmptySeq DEF Side
    <2>2. /\ up'[x] = up[x] \o <<>> /\ up'[y] = up[y]
          /\ down'[x] = Tail(down[x]) /\ down'[y] = down[y]
          /\ phase'["a"] = "serving" /\ partner'["a"] = partner["a"]
          /\ phase'["b"] = phase["b"] /\ partner'["b"] = partner["b"]
          /\ Owner(x) = "a" /\ Owner(y) = "b"
      BY <2>1 DEF Proceed, TypeOK, ConnOf, Side
    <2>3. Tail(<<m>>) = <<>>
      BY Short
    <2> QED
      BY <1>2, <2>1, <2>2, <2>3
  <1>4. phase["b"] = "serving" /\ partner["b"] = x /\ partner["a"] = y
    BY <1>1 DEF Finished
  <1>5. OnWay(y, x, <<>>)' /\ OnWay(x, y, <<>>)'
    BY <1>2, <1>3, <1>4 DEF OnWay, Due
  <1> QED
    BY <1>3, <1>4, <1>5 DEF Paired, Done

(* Each read of a device: the handshake, or the end of the attempt.          *)
LEMMA ReadCalm ==
  ASSUME Calm, TypeOK', NEW s \in Side, Read(s)
  PROVE  Settled' /\ Undisturbed'
  <1>1. PICK c \in Conn : c = conn[s] /\ Owner(c) = s
    BY DEF Read, Calm, TypeOK
  <1>2. PICK m \in Message : m = Head(down[c])
    BY <1>1, TakeMessage DEF Read, Calm, TypeOK
  <1>3. down[c] # <<>> /\ phase[s] # "resting" /\ UNCHANGED <<socket, cut>>
    BY <1>1 DEF Read, Calm, TypeOK
  <1>4. m.kind # "refused" => ~Refused(c)
    BY <1>2 DEF Refused
  <1>5. s = "a" \/ s = "b"
    BY DEF Side
  <1>6. CASE phase[s] = "dialing" /\ m.kind = "accepted"
    <2>1. Proceed(s, "waiting", None, <<>>)
      BY <1>1, <1>2, <1>6 DEF Read
    <2>2. \A x \in ConnOf("a"), y \in ConnOf("b") :
             conn["a"] = x /\ conn["b"] = y /\ c \notin cut /\ Paired(x, y) => Paired(x, y)'
      BY <1>1, <1>6, <2>1, WelcomePairs DEF Calm
    <2> QED
      BY <1>1, <1>3, <1>4, <1>6, <2>1, <2>2, ProceedCalm DEF Phase
  <1>7. CASE phase[s] = "waiting" /\ m.kind = "ready"
    <2> DEFINE ms == IF s = "b" THEN <<Msg("hello", None, c)>> ELSE <<>>
    <2>1. Proceed(s, "greeting", None, ms)
      BY <1>1, <1>2, <1>7 DEF Read
    <2>2. ms = <<>> \/ \E n \in Message : ms = <<n>> /\ n.kind \in Frame
      <3>1. s = "b" => Msg("hello", None, c) \in Message /\ Msg("hello", None, c).kind \in Frame
        BY <1>1 DEF Msg, Message, ConnOf, Frame
      <3> QED
        BY <3>1
    <2>3. ASSUME NEW x \in ConnOf("a"), NEW y \in ConnOf("b"),
                 conn["a"] = x, conn["b"] = y, c \notin cut, Paired(x, y)
          PROVE  Paired(x, y)'
      <3>1. CASE s = "a"
        <4>1. Proceed("a", "greeting", None, <<>>)
          BY <2>1, <3>1
        <4> QED
          BY <1>1, <1>7, <2>3, <3>1, <4>1, WelcomePairs DEF Calm
      <3>2. CASE s = "b"
        <4>1. Proceed("b", "greeting", None, <<Msg("hello", None, y)>>)
          BY <1>1, <2>1, <2>3, <3>2
        <4> QED
          BY <1>1, <1>7, <2>3, <3>2, <4>1, ReadyPairs DEF Calm
      <3> QED
        BY <1>5, <3>1, <3>2
    <2> HIDE DEF ms
    <2> QED
      BY <1>1, <1>3, <1>4, <1>7, <2>1, <2>2, <2>3, ProceedCalm DEF Phase
  <1>8. CASE phase[s] = "greeting" /\ IsHello(s, m)
    <2> DEFINE ms == <<Msg("reply", c, m.b)>>
    <2>1. Proceed(s, "greeting", m.b, ms) /\ s = "a" /\ m.kind = "hello"
      BY <1>1, <1>2, <1>8 DEF Read, IsHello, IsReply, IsFinished
    <2>2. ms = <<>> \/ \E n \in Message : ms = <<n>> /\ n.kind \in Frame
      <3>1. Msg("reply", c, m.b) \in Message /\ Msg("reply", c, m.b).kind \in Frame
        BY <1>1, <2>1 DEF Msg, Message, ConnOf, Frame, Control
      <3> QED
        BY <3>1
    <2>3. ASSUME NEW x \in ConnOf("a"), NEW y \in ConnOf("b"),
                 conn["a"] = x, conn["b"] = y, c \notin cut, Paired(x, y)
          PROVE  Paired(x, y)'
      <3>1. x = c
        BY <1>1, <2>1, <2>3
      <3>2. Proceed("a", "greeting", Head(down[x]).b, <<Msg("reply", x, Head(down[x]).b)>>)
        BY <1>2, <2>1, <3>1
      <3> QED
        BY <1>2, <1>3, <1>8, <2>1, <2>3, <3>1, <3>2, HelloPairs DEF Calm
    <2> HIDE DEF ms
    <2> QED
      BY <1>1, <1>3, <1>4, <1>8, <2>1, <2>2, <2>3, ProceedCalm DEF Phase
  <1>9. CASE phase[s] = "greeting" /\ IsReply(s, m)
    <2> DEFINE ms == <<Msg("finished", m.a, c)>>
    <2>1. Proceed(s, "serving", m.a, ms) /\ s = "b" /\ m.kind = "reply"
      BY <1>1, <1>2, <1>9 DEF Read, IsHello, IsReply, IsFinished
    <2>2. ms = <<>> \/ \E n \in Message : ms = <<n>> /\ n.kind \in Frame
      <3>1. Msg("finished", m.a, c) \in Message /\ Msg("finished", m.a, c).kind \in Frame
        BY <1>1, <2>1 DEF Msg, Message, ConnOf, Frame, Control
      <3> QED
        BY <3>1
    <2>3. ASSUME NEW x \in ConnOf("a"), NEW y \in ConnOf("b"),
                 conn["a"] = x, conn["b"] = y, c \notin cut, Paired(x, y)
          PROVE  Paired(x, y)'
      <3>1. y = c
        BY <1>1, <2>1, <2>3
      <3>2. Proceed("b", "serving", Head(down[y]).a, <<Msg("finished", Head(down[y]).a, y)>>)
        BY <1>2, <2>1, <3>1
      <3> QED
        BY <1>2, <1>3, <1>9, <2>1, <2>3, <3>1, <3>2, ReplyPairs DEF Calm
    <2> HIDE DEF ms
    <2> QED
      BY <1>1, <1>3, <1>4, <1>9, <2>1, <2>2, <2>3, ProceedCalm DEF Phase
  <1>10. CASE phase[s] = "greeting" /\ IsFinished(s, m)
    <2>1. Proceed(s, "serving", partner[s], <<>>) /\ s = "a" /\ m.kind = "finished"
      BY <1>1, <1>2, <1>10 DEF Read, IsHello, IsReply, IsFinished
    <2>2. ASSUME NEW x \in ConnOf("a"), NEW y \in ConnOf("b"),
                 conn["a"] = x, conn["b"] = y, c \notin cut, Paired(x, y)
          PROVE  Paired(x, y)'
      <3>1. x = c
        BY <1>1, <2>1, <2>2
      <3> QED
        BY <1>2, <1>3, <1>10, <2>1, <2>2, <3>1, FinishedPairs DEF Calm
    <2> QED
      BY <1>1, <1>3, <1>4, <1>10, <2>1, <2>2, ProceedCalm DEF Phase
  <1>11. CASE ~ \/ phase[s] = "dialing" /\ m.kind = "accepted"
                \/ phase[s] = "waiting" /\ m.kind = "ready"
                \/ phase[s] = "greeting" /\ IsHello(s, m)
                \/ phase[s] = "greeting" /\ IsReply(s, m)
                \/ phase[s] = "greeting" /\ IsFinished(s, m)
    <2>1. HangUp(s)
      BY <1>1, <1>2, <1>11 DEF Read
    <2> QED
      BY <1>3, <2>1, HangUpCalm
  <1> QED
    BY <1>6, <1>7, <1>8, <1>9, <1>10, <1>11

(* At first nothing is under way.                                            *)
LEMMA CalmInit == Init /\ network.prompt => Settled /\ Undisturbed
  <1> SUFFICES ASSUME Init PROVE Settled /\ Undisturbed
    OBVIOUS
  <1>1. \A q : q = <<>> => \A i \in 1..Len(q) : FALSE
    OBVIOUS
  <1>2. None \notin Conn
    BY RelayAssumption
  <1>3. \A c \in Conn : /\ socket[c] = "none" /\ up[c] = <<>> /\ down[c] = <<>>
                        /\ conn[Owner(c)] = None
    BY Sides DEF Init
  <1>4. \A c \in Conn : socket[c] # "unreported" /\ Sent(c) /\ Told(c) /\ ~Listed(c) /\ ~Alive(c)
    BY <1>1, <1>2, <1>3 DEF Sent, Asking, Left, Told, Listed, Alive
  <1>5. cut = {}
    BY DEF Init
  <1> QED
    BY <1>4, <1>5 DEF Settled, Undisturbed, OneListed, CutQuiet, PeersOpen, Waiting, Shaking, ConnOf

(* Every step of a prompt network keeps it calm.                             *)
LEMMA CalmNext ==
  ASSUME TypeOK, TypeOK', PromptInv, [Next]_vars
  PROVE  PromptInv'
  <1>1. CASE UNCHANGED vars
    <2>1. \A c : Same(c)
      BY <1>1 DEF vars, Same
    <2>2. network.prompt' => Calm
      BY <1>1 DEF vars, Calm, PromptInv
    <2>3. Calm => Settled'
      <3>1. OneListed => OneListed'
        BY <1>1 DEF vars, OneListed, Listed
      <3>2. cut' \subseteq Conn
        BY DEF TypeOK
      <3>3. \A e \in Conn \ {} : Same(e)
        BY <2>1
      <3>4. Calm => Settled /\ OneListed
        BY DEF Calm, Settled
      <3> QED
        BY <3>1, <3>2, <3>3, <3>4, SettledBut
    <2>4. Calm => Undisturbed'
      BY <1>1, <2>1, Undisturbing DEF vars, Calm
    <2> QED
      BY <2>2, <2>3, <2>4 DEF PromptInv
  <1>2. CASE Next
    <2>1. network' = network
      BY <1>2 DEF Next, Relay, Fetch, FetchRefused, FetchFirst, FetchSecond, FetchThrows,
         WebSocketMessage, WebSocketClose, WebSocketCloseLate, Unlist, Dial, Read, TimesOut, Fails, Break
    <2>2. SUFFICES ASSUME network.prompt PROVE Settled' /\ Undisturbed'
      BY <2>1 DEF PromptInv
    <2>3. Calm
      BY <2>2 DEF Calm, PromptInv
    <2>4. ASSUME NEW c \in Conn, Relay(c) \/ Unlist(c)
          PROVE  Settled' /\ Undisturbed'
      <3>1. ~Unlist(c) /\ ~WebSocketCloseLate(c)
        BY <2>2, <2>3 DEF Unlist, WebSocketCloseLate, Calm, Settled
      <3> QED
        BY <2>3, <2>4, <3>1, FetchRefusedCalm, FetchFirstCalm, FetchSecondCalm, FetchThrowsCalm,
           WebSocketMessageCalm, WebSocketCloseCalm DEF Relay, Fetch
    <2>5. ASSUME NEW s \in Side, TimesOut(s) \/ Fails(s)
          PROVE  Settled' /\ Undisturbed'
      <3>1. HangUp(s) /\ phase[s] # "resting" /\ UNCHANGED <<socket, cut>>
        BY <2>5 DEF TimesOut, TimeoutDue, TimeoutEarly, Fails
      <3> QED
        BY <2>3, <3>1, HangUpCalm
    <2> QED
      BY <1>2, <2>3, <2>4, <2>5, DialCalm, ReadCalm, BreakCalm DEF Next
  <1> QED
    BY <1>1, <1>2

(* Of a session both serve nothing is under way, and the relay lists its     *)
(* two connections and no other.                                             *)
LEMMA NothingUnderWay ==
  ASSUME Calm, Together
  PROVE  \A s \in Side : /\ conn[s] \in Conn /\ Owner(conn[s]) = s /\ conn[s] \notin cut
                         /\ up[conn[s]] = <<>> /\ down[conn[s]] = <<>>
                         /\ \A c \in Conn : Listed(c) /\ Owner(c) = s <=> c = conn[s]
  <1>1. "a" \in Side /\ "b" \in Side
    BY DEF Side
  <1>2. PICK x \in Conn : x = conn["a"] /\ Owner(x) = "a"
    BY <1>1, Using DEF Together, Calm
  <1>3. PICK y \in Conn : y = conn["b"] /\ Owner(y) = "b"
    BY <1>1, Using DEF Together, Calm
  <1>4. \A s \in Side : /\ phase[s] = "serving" /\ conn[s] \notin cut
                        /\ socket[conn[s]] = "open"
    BY DEF Together
  <1>5. \A c \in Conn : c = conn[Owner(c)] => ~Refused(c)
    <2> SUFFICES ASSUME NEW c \in Conn, c = conn[Owner(c)], Refused(c) PROVE FALSE
      OBVIOUS
    <2>1. phase[Owner(c)] = "serving" /\ down[c] \in Seq(Message) /\ Told(c)
      BY <1>4, Sides DEF Calm, Settled, TypeOK
    <2>2. 1 \in 1..Len(down[c]) /\ down[c][1].kind = "refused"
      BY <2>1, InHead DEF Refused
    <2> QED
      BY <2>1, <2>2 DEF Told
  <1>6. Alive(x) /\ Alive(y)
    BY <1>1, <1>2, <1>3, <1>4, <1>5 DEF Alive
  <1>7. Paired(x, y)
    BY <1>2, <1>3, <1>6, Sides DEF Calm, Undisturbed, Shaking
  <1>8. Done(x, y)
    BY <1>1, <1>4, <1>7 DEF Paired, Met, Hello, Reply, Finished
  <1>9. up[x] = <<>> /\ up[y] = <<>> /\ down[x] = <<>> /\ down[y] = <<>>
    BY <1>2, <1>3, <1>8 DEF Done, OnWay, Due
  <1>10. Listed(x) /\ Listed(y)
    BY <1>1, <1>2, <1>3, <1>4 DEF Listed
  <1>11. \A c \in Conn : /\ Listed(c) /\ Owner(c) = "a" <=> c = x
                         /\ Listed(c) /\ Owner(c) = "b" <=> c = y
    BY <1>2, <1>3, <1>10 DEF Calm, Settled, OneListed
  <1> QED
    BY <1>2, <1>3, <1>4, <1>9, <1>11 DEF Side

(* So the only steps left from there are refusals of others, and faults.     *)
LEMMA LastingStep ==
  ASSUME Calm, Together, [Next]_vars
  PROVE  Together' \/ faults' # faults
  <1>1. \A s \in Side : /\ conn[s] \in Conn /\ Owner(conn[s]) = s /\ conn[s] \notin cut
                        /\ up[conn[s]] = <<>> /\ down[conn[s]] = <<>>
                        /\ \A c \in Conn : Listed(c) /\ Owner(c) = s <=> c = conn[s]
    BY NothingUnderWay
  <1>2. \A c \in Conn : /\ Listed(c) => up[c] = <<>> /\ c \notin cut
                        /\ Taken(c)
    BY <1>1, Sides DEF Taken, Sockets
  <1>3. UNCHANGED <<phase, conn, partner, cut, socket>> => Together'
    BY DEF Together
  <1>4. CASE UNCHANGED vars
    BY <1>3, <1>4 DEF vars
  <1>5. ASSUME NEW c \in Conn, Relay(c) \/ Unlist(c) PROVE Together'
    <2>1. CASE Fetch(c)
      <3>1. FetchRefused(c)
        BY <1>2, <2>1 DEF Fetch, FetchFirst, FetchSecond, FetchThrows
      <3> QED
        BY <1>3, <3>1 DEF FetchRefused, device
    <2>2. CASE WebSocketMessage(c)
      <3>1. Listed(c)
        BY <2>2, Arrivals DEF WebSocketMessage, Frame
      <3> QED
        BY <1>2, <2>2, <3>1 DEF WebSocketMessage
    <2>3. CASE WebSocketClose(c)
      BY <1>2, <2>3 DEF WebSocketClose, Ended, Arrives
    <2>4. CASE WebSocketCloseLate(c) \/ Unlist(c)
      BY <2>4 DEF WebSocketCloseLate, Unlist, Calm, Settled
    <2> QED
      BY <1>5, <2>1, <2>2, <2>3, <2>4 DEF Relay
  <1>6. ASSUME NEW s \in Side, Read(s) \/ TimesOut(s) \/ \E c \in Conn : Dial(s, c)
        PROVE  FALSE
    BY <1>1, <1>6 DEF Read, TimesOut, TimeoutDue, TimeoutEarly, Dial, Together, Calm
  <1>7. ASSUME NEW s \in Side, Fails(s) \/ Break(s) PROVE faults' # faults
    <2>1. faults \in Int
      BY RelayAssumption DEF Calm, TypeOK
    <2> QED
      BY <1>7, <2>1 DEF Fails, Break
  <1> QED
    BY <1>4, <1>5, <1>6, <1>7 DEF Next

(* worker.mjs's Pair and runRelay: for any number of connections, in a       *)
(* network that delivers and reports before anybody retries or times out, a  *)
(* session both devices serve ends only by a fault: the relay hears nothing   *)
(* of an earlier connection any more, and lists no other.                     *)
THEOREM SessionEndsByFaults == Spec => SessionLasts
  <1>1. Init => PromptInv
    BY CalmInit DEF PromptInv
  <1>2. TypeOK /\ TypeOK' /\ PromptInv /\ [Next]_vars => PromptInv'
    BY CalmNext
  <1>3. TypeOK /\ PromptInv /\ [Next]_vars
          => (network.prompt /\ Together => Together' \/ faults' # faults)
    BY LastingStep DEF Calm, PromptInv
  <1>4. TypeOK /\ PromptInv /\ [Next]_vars
          => [network.prompt /\ Together => Together' \/ faults' # faults]_vars
    BY <1>3
  <1> QED
    BY <1>1, <1>2, <1>4, TypeCorrect, PTL DEF Spec, SessionLasts
=============================================================================
