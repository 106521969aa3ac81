------------------------- MODULE EventQueue_proofs -------------------------
(***************************************************************************)
(* Proofs about EventQueue: the table of saved events, for any threads,    *)
(* events and order of adding and taking; and about EventTimers: what is   *)
(* left of a timer is what was asked for less the time that has passed,    *)
(* for any timers and durations.                                           *)
(***************************************************************************)
EXTENDS EventQueue, EventTimers, FiniteSetTheorems, SequenceTheorems, TLAPS

-----------------------------------------------------------------------------
(* saveEvent() may trust m_events.size() as a fresh id only because the ids  *)
(* in use and the free ones together are always 0..n-1, without overlap.     *)

Distinct(s) == \A i, j \in 1..Len(s) : s[i] = s[j] => i = j

IdsPacked ==
  /\ \E n \in Nat : DOMAIN saved \cup Elements(freeIds) = 0..(n - 1)
  /\ DOMAIN saved \cap Elements(freeIds) = {}
  /\ Distinct(freeIds)

Taking == (phase = "taking") <=> (popped # NoId)

IdsInv == TypeOK /\ IdsPacked /\ IdsMatch /\ Taking

LEMMA ElementsAppend ==
  ASSUME NEW S, NEW s \in Seq(S), NEW x \in S
  PROVE  /\ Append(s, x) \in Seq(S)
         /\ Elements(Append(s, x)) = Elements(s) \cup {x}
         /\ x \notin Elements(s) /\ Distinct(s) => Distinct(Append(s, x))
<1>1. /\ Append(s, x) \in Seq(S) /\ Len(Append(s, x)) = Len(s) + 1
      /\ \A i \in 1..Len(s) : Append(s, x)[i] = s[i]
      /\ Append(s, x)[Len(s) + 1] = x
      /\ Len(s) \in Nat
  OBVIOUS
<1> DEFINE a == Append(s, x)
<1> HIDE DEF a
<1>2. Elements(a) = Elements(s) \cup {x}
  BY <1>1 DEF Elements, a
<1>3. ASSUME x \notin Elements(s), Distinct(s) PROVE Distinct(a)
  BY <1>1, <1>3 DEF Elements, Distinct, a
<1> QED BY <1>1, <1>2, <1>3 DEF a

(* Dropping the last element, and the first one.                             *)
LEMMA ElementsFront ==
  ASSUME NEW S, NEW s \in Seq(S), s # <<>>
  PROVE  LET r == SubSeq(s, 1, Len(s) - 1) IN
         /\ r \in Seq(S)
         /\ Elements(s) = Elements(r) \cup {s[Len(s)]}
         /\ Distinct(s) => Distinct(r) /\ s[Len(s)] \notin Elements(r)
         /\ s[Len(s)] \in S
<1> DEFINE r == SubSeq(s, 1, Len(s) - 1)
<1>1. /\ r \in Seq(S) /\ Len(r) = Len(s) - 1 /\ Len(s) \in Nat \ {0}
      /\ \A i \in 1..Len(r) : r[i] = s[i]
      /\ s[Len(s)] \in S
  <2>1. Len(s) \in Nat \ {0} /\ \A i \in 1..Len(s) : s[i] \in S
    BY EmptySeq, LenProperties
  <2>2. Len(s) - 1 \in Nat /\ \A i \in 1..(Len(s) - 1) : s[i] \in S
    BY <2>1
  <2> DEFINE m == Len(s) - 1
  <2>3. /\ SubSeq(s, 1, m) \in Seq(S)
        /\ Len(SubSeq(s, 1, m)) = IF 1 <= m THEN m - 1 + 1 ELSE 0
        /\ \A i \in 1..m - 1 + 1 : SubSeq(s, 1, m)[i] = s[1 + i - 1]
    <3> HIDE DEF m
    <3>1. m \in Int /\ \A i \in 1..m : s[i] \in S
      BY <2>2 DEF m
    <3> QED BY <3>1, SubSeqProperties
  <2>4. r = SubSeq(s, 1, m)
    OBVIOUS
  <2> HIDE DEF r
  <2>5. m \in Nat
    BY <2>2
  <2> HIDE DEF m
  <2>6. Len(r) = m
    <3>1. Len(r) = IF 1 <= m THEN m - 1 + 1 ELSE 0
      BY <2>3, <2>4
    <3> HIDE <2>3, <2>4
    <3> QED BY <2>5, <3>1
  <2>7. r \in Seq(S) /\ \A i \in 1..m : r[i] = s[i]
    BY <2>3, <2>4, <2>5
  <2> QED BY <2>1, <2>6, <2>7 DEF m
<1> HIDE DEF r
<1>2. Elements(s) = Elements(r) \cup {s[Len(s)]}
  BY <1>1 DEF Elements
<1>3. ASSUME Distinct(s) PROVE Distinct(r) /\ s[Len(s)] \notin Elements(r)
  BY <1>1, <1>3 DEF Elements, Distinct
<1> QED BY <1>1, <1>2, <1>3 DEF r

LEMMA ElementsTail ==
  ASSUME NEW S, NEW s \in Seq(S), s # <<>>
  PROVE  /\ Tail(s) \in Seq(S)
         /\ Elements(s) = Elements(Tail(s)) \cup {Head(s)}
         /\ Distinct(s) => Distinct(Tail(s)) /\ Head(s) \notin Elements(Tail(s))
         /\ Head(s) \in S
<1> DEFINE r == Tail(s)
<1>1. /\ r \in Seq(S) /\ Len(r) = Len(s) - 1 /\ Len(s) \in Nat \ {0}
      /\ \A i \in 1..Len(r) : r[i] = s[i + 1]
      /\ Head(s) = s[1] /\ Head(s) \in S
  BY EmptySeq
<1> HIDE DEF r
<1>2. Elements(s) = Elements(r) \cup {s[1]}
  <2>1. ASSUME NEW i \in 1..Len(s), i # 1 PROVE s[i] \in Elements(r)
    <3>1. i - 1 \in 1..Len(r) /\ r[i - 1] = s[i]
      BY <1>1, <2>1
    <3> QED BY <3>1 DEF Elements
  <2>2. Elements(r) \cup {s[1]} \subseteq Elements(s)
    BY <1>1 DEF Elements
  <2> QED BY <2>1, <2>2 DEF Elements
<1>3. ASSUME Distinct(s) PROVE Distinct(r) /\ s[1] \notin Elements(r)
  BY <1>1, <1>3 DEF Elements, Distinct
<1> QED BY <1>1, <1>2, <1>3 DEF r

(* The id saveEvent() chooses.                                               *)
LEMMA NewIdFresh ==
  ASSUME TypeOK, IdsPacked
  PROVE  NewId \in Nat /\ FreshId
<1>1. CASE freeIds = <<>>
  <2>1. Elements(freeIds) = {}
    BY <1>1 DEF Elements
  <2>2. PICK n \in Nat : DOMAIN saved = 0..(n - 1)
    BY <2>1 DEF IdsPacked
  <2>3. Cardinality(DOMAIN saved) = n
    BY <2>2, FS_Interval
  <2> QED BY <1>1, <2>2, <2>3 DEF NewId, FreshId
<1>2. CASE freeIds # <<>>
  <2>1. NewId = freeIds[Len(freeIds)] /\ freeIds \in Seq(Nat)
    BY <1>2 DEF NewId, TypeOK
  <2>2. NewId \in Elements(freeIds) /\ NewId \in Nat
    BY <1>2, <2>1, ElementsFront
  <2> QED BY <2>2 DEF IdsPacked, FreshId
<1> QED BY <1>1, <1>2

(* addEventToBuffer() takes an id that is free or new and keeps the packing, *)
(* whether the buffer accepts the event or refuses it.                       *)
LEMMA AddEventToBufferKeeps ==
  ASSUME TypeOK, IdsPacked, IdsMatch, NEW e \in Event, AddEventToBuffer(e), popped' = popped
  PROVE  /\ IdsPacked' /\ IdsMatch'
         /\ DOMAIN saved' \subseteq Nat /\ \A id \in DOMAIN saved' : saved'[id] \in Event
         /\ freeIds' \in Seq(Nat) /\ buffer' \in Seq(Nat) /\ dropped' \subseteq Event
<1> DEFINE id == NewId
           rest == IF freeIds # <<>> THEN SubSeq(freeIds, 1, Len(freeIds) - 1) ELSE freeIds
<1>1. id \in Nat /\ id \notin DOMAIN saved
  BY NewIdFresh DEF FreshId
<1>2. PICK n \in Nat : DOMAIN saved \cup Elements(freeIds) = 0..(n - 1)
  BY DEF IdsPacked
<1>3. /\ rest \in Seq(Nat) /\ Distinct(rest) /\ id \notin Elements(rest)
      /\ Elements(rest) \subseteq Elements(freeIds)
      /\ \E k \in Nat : DOMAIN saved \cup Elements(rest) \cup {id} = 0..(k - 1)
  <2>1. CASE freeIds # <<>>
    <3>1. id = freeIds[Len(freeIds)] /\ rest = SubSeq(freeIds, 1, Len(freeIds) - 1)
      BY <2>1 DEF NewId
    <3>2. freeIds \in Seq(Nat) /\ Distinct(freeIds)
      BY DEF TypeOK, IdsPacked
    <3> HIDE DEF id, rest
    <3>3. /\ rest \in Seq(Nat) /\ Elements(freeIds) = Elements(rest) \cup {id}
          /\ Distinct(rest) /\ id \notin Elements(rest)
      BY <2>1, <3>1, <3>2, ElementsFront
    <3> QED BY <1>2, <3>3
  <2>2. CASE freeIds = <<>>
    <3>1. Elements(freeIds) = {} /\ rest = freeIds
      BY <2>2 DEF Elements
    <3>2. id = n
      <4>1. Cardinality(DOMAIN saved) = n
        BY <1>2, <3>1, FS_Interval
      <4> QED BY <2>2, <4>1 DEF NewId
    <3>3. DOMAIN saved \cup Elements(rest) \cup {id} = 0..((n + 1) - 1)
      BY <1>2, <3>1, <3>2
    <3> HIDE DEF id, rest
    <3>4. rest \in Seq(Nat) /\ Distinct(rest)
      BY <3>1 DEF TypeOK, IdsPacked
    <3>5. \E k \in Nat : DOMAIN saved \cup Elements(rest) \cup {id} = 0..(k - 1)
      <4>1. n + 1 \in Nat
        OBVIOUS
      <4> QED BY <3>3, <4>1
    <3> QED BY <3>1, <3>4, <3>5
  <2> QED BY <2>1, <2>2
<1>4. \/ /\ saved' = [i \in DOMAIN saved \cup {id} |-> IF i = id THEN e ELSE saved[i]]
         /\ freeIds' = rest /\ buffer' = Append(buffer, id) /\ dropped' = dropped
      \/ /\ freeIds' = Append(rest, id) /\ dropped' = dropped \cup {e}
         /\ saved' = saved /\ buffer' = buffer
  BY DEF AddEventToBuffer
<1> HIDE DEF id, rest
<1>5. CASE /\ saved' = [i \in DOMAIN saved \cup {id} |-> IF i = id THEN e ELSE saved[i]]
           /\ freeIds' = rest /\ buffer' = Append(buffer, id) /\ dropped' = dropped
  <2>1. DOMAIN saved' = DOMAIN saved \cup {id}
    BY <1>5
  <2>2. IdsPacked'
    <3>1. \E k \in Nat : DOMAIN saved' \cup Elements(rest) = 0..(k - 1)
      BY <1>3, <2>1
    <3>2. DOMAIN saved' \cap Elements(rest) = {}
      BY <1>1, <1>3, <2>1 DEF IdsPacked
    <3> QED BY <1>3, <1>5, <3>1, <3>2 DEF IdsPacked
  <2>3. buffer \in Seq(Nat) /\ id \notin Elements(buffer) /\ popped # id /\ Distinct(buffer)
    BY <1>1 DEF TypeOK, IdsMatch, Distinct, NoId
  <2>4. /\ buffer' \in Seq(Nat) /\ Elements(buffer') = Elements(buffer) \cup {id}
        /\ Distinct(buffer')
    BY <1>1, <1>5, <2>3, ElementsAppend
  <2>5. IdsMatch'
    BY <2>1, <2>3, <2>4 DEF IdsMatch, Distinct
  <2>6. DOMAIN saved' \subseteq Nat /\ \A i \in DOMAIN saved' : saved'[i] \in Event
    BY <1>1, <1>5, <2>1 DEF TypeOK
  <2> QED BY <1>3, <1>5, <2>2, <2>4, <2>5, <2>6 DEF TypeOK
<1>6. CASE /\ freeIds' = Append(rest, id) /\ dropped' = dropped \cup {e}
           /\ saved' = saved /\ buffer' = buffer
  <2>1. /\ freeIds' \in Seq(Nat) /\ Elements(freeIds') = Elements(rest) \cup {id}
        /\ Distinct(freeIds')
    BY <1>1, <1>3, <1>6, ElementsAppend
  <2>2. IdsPacked'
    <3>1. \E k \in Nat : DOMAIN saved \cup Elements(freeIds') = 0..(k - 1)
      <4>1. PICK k \in Nat : DOMAIN saved \cup Elements(rest) \cup {id} = 0..(k - 1)
        BY <1>3
      <4>2. DOMAIN saved \cup Elements(freeIds') = 0..(k - 1)
        BY <2>1, <4>1
      <4> QED BY <4>2
    <3>2. DOMAIN saved \cap Elements(freeIds') = {}
      BY <1>1, <1>3, <2>1 DEF IdsPacked
    <3> QED BY <1>6, <2>1, <3>1, <3>2 DEF IdsPacked
  <2>3. IdsMatch'
    BY <1>6 DEF IdsMatch
  <2> QED BY <1>6, <2>1, <2>2, <2>3 DEF TypeOK
<1> QED BY <1>4, <1>5, <1>6

LEMMA IdsInvInit == Init => IdsInv
<1> SUFFICES ASSUME Init PROVE IdsInv
  OBVIOUS
<1>1. /\ <<>> \in Seq(Event) /\ <<>> \in Seq(Nat) /\ Elements(<<>>) = {} /\ Distinct(<<>>)
      /\ DOMAIN saved = {}
  BY DEF Init, Elements, Distinct
<1>2. TypeOK
  <2>1. /\ DOMAIN saved \subseteq Nat /\ \A id \in DOMAIN saved : saved[id] \in Event
    BY <1>1
  <2>2. added \in [Thread -> 0..MaxEvents]
    BY EventQueueAssumption DEF Init
  <2>3. hand \in [Thread -> {Idle} \cup [event : Event, sawReady : BOOLEAN]]
    BY DEF Init
  <2> QED BY <1>1, <2>1, <2>2, <2>3 DEF Init, TypeOK
<1>3. IdsPacked
  <2>1. DOMAIN saved \cup Elements(freeIds) = 0..(0 - 1)
    BY <1>1 DEF Init
  <2> QED BY <1>1, <2>1 DEF Init, IdsPacked
<1>4. IdsMatch /\ Taking
  BY <1>1 DEF Init, IdsMatch, Taking, Distinct
<1> QED BY <1>2, <1>3, <1>4 DEF IdsInv

(* Steps that leave the table alone.                                         *)
LEMMA TableKept ==
  ASSUME IdsPacked, IdsMatch, UNCHANGED <<saved, freeIds, buffer, popped>>
  PROVE  IdsPacked' /\ IdsMatch'
BY DEF IdsPacked, IdsMatch

LEMMA StoreEventKeeps ==
  ASSUME IdsInv, NEW t \in Thread, StoreEvent(t)
  PROVE  IdsInv'
<1> USE DEF IdsInv
<1>1. hand[t].event \in Event /\ hand' = [hand EXCEPT ![t] = Idle]
      /\ UNCHANGED <<phase, ready, popped, added, handled, early>>
  BY DEF StoreEvent, TypeOK
<1>2. hand' \in [Thread -> {Idle} \cup [event : Event, sawReady : BOOLEAN]]
  BY <1>1 DEF TypeOK
<1>3. CASE hand[t].sawReady
  <2>1. AddEventToBuffer(hand[t].event) /\ pending' = pending
    BY <1>3 DEF StoreEvent
  <2> QED BY <1>1, <1>2, <2>1, AddEventToBufferKeeps DEF TypeOK, Taking
<1>4. CASE ~hand[t].sawReady
  <2>1. UNCHANGED <<saved, freeIds, buffer, dropped>> /\ pending' \in Seq(Event)
    <3>1. pending' = pending \/ pending' = Append(pending, hand[t].event)
      BY <1>4 DEF StoreEvent
    <3>2. pending \in Seq(Event) /\ Append(pending, hand[t].event) \in Seq(Event)
      BY <1>1, ElementsAppend DEF TypeOK
    <3> QED BY <1>4, <3>1, <3>2 DEF StoreEvent
  <2> QED BY <1>1, <1>2, <2>1, TableKept DEF TypeOK, Taking
<1> QED BY <1>3, <1>4

LEMMA TakeEventKeeps ==
  ASSUME IdsInv, TakeEvent
  PROVE  IdsInv'
<1> USE DEF IdsInv
<1>1. /\ popped \in Nat /\ popped \in DOMAIN saved /\ popped \notin Elements(freeIds)
      /\ saved[popped] \in Event
  BY DEF TakeEvent, Taking, TypeOK, IdsMatch, IdsPacked
<1>2. /\ saved' = [i \in DOMAIN saved \ {popped} |-> saved[i]] /\ popped' = NoId
      /\ freeIds' = Append(freeIds, popped) /\ handled' = Append(handled, saved[popped])
      /\ phase' = (IF saved[popped] \in Quitting THEN "quit" ELSE "dispatching")
      /\ UNCHANGED <<ready, pending, buffer, added, hand, dropped, early>>
  BY DEF TakeEvent, RemoveEvent
<1>3. /\ freeIds' \in Seq(Nat) /\ Elements(freeIds') = Elements(freeIds) \cup {popped}
      /\ Distinct(freeIds')
  BY <1>1, <1>2, ElementsAppend DEF TypeOK, IdsPacked
<1>4. handled' \in Seq(Event)
  BY <1>1, <1>2, ElementsAppend DEF TypeOK
<1>5. DOMAIN saved' = DOMAIN saved \ {popped}
  BY <1>2
<1>6. TypeOK'
  BY <1>1, <1>2, <1>3, <1>4, <1>5 DEF TypeOK
<1>7. IdsPacked'
  <2>1. DOMAIN saved' \cup Elements(freeIds') = DOMAIN saved \cup Elements(freeIds)
    BY <1>1, <1>3, <1>5
  <2>2. DOMAIN saved' \cap Elements(freeIds') = {}
    BY <1>3, <1>5 DEF IdsPacked
  <2> QED BY <1>3, <2>1, <2>2 DEF IdsPacked
<1>8. IdsMatch' /\ Taking'
  <2>1. NoId \notin Elements(buffer)
    BY DEF TypeOK, Elements, NoId
  <2>2. DOMAIN saved' = Elements(buffer)
    BY <1>1, <1>5 DEF IdsMatch, NoId
  <2> QED BY <1>2, <2>1, <2>2 DEF IdsMatch, Taking
<1> QED BY <1>6, <1>7, <1>8

LEMMA LoopKeeps ==
  ASSUME IdsInv, LoopStep
  PROVE  IdsInv'
<1> USE DEF IdsInv
<1>1. CASE BecomeReady \/ DrainDone \/ HandlerReturns
  <2>1. /\ UNCHANGED <<pending, saved, freeIds, buffer, popped, added, hand, handled, early, dropped>>
        /\ ready' \in BOOLEAN /\ phase' \in {"draining", "waiting"} /\ phase # "taking"
    BY <1>1 DEF BecomeReady, DrainDone, HandlerReturns, TypeOK
  <2> QED BY <2>1, TableKept DEF TypeOK, Taking
<1>2. CASE DrainPending
  <2>1. Head(pending) \in Event /\ Tail(pending) \in Seq(Event)
    BY <1>2, ElementsTail DEF DrainPending, TypeOK
  <2> QED BY <1>2, <2>1, AddEventToBufferKeeps DEF DrainPending, TypeOK, Taking
<1>3. CASE GetEvent
  <2>1. /\ popped' = Head(buffer) /\ buffer' = Tail(buffer) /\ phase' = "taking"
        /\ UNCHANGED <<ready, pending, saved, freeIds, added, hand, handled, early, dropped>>
        /\ popped = NoId
    BY <1>3 DEF GetEvent, Taking
  <2>2. /\ buffer' \in Seq(Nat) /\ Elements(buffer) = Elements(buffer') \cup {popped'}
        /\ Distinct(buffer') /\ popped' \notin Elements(buffer') /\ popped' \in Nat
    BY <1>3, <2>1, ElementsTail DEF GetEvent, TypeOK, IdsMatch, Distinct
  <2>3. IdsMatch' /\ Taking'
    BY <2>1, <2>2 DEF IdsMatch, Taking, Distinct, NoId
  <2>4. IdsPacked'
    BY <2>1 DEF IdsPacked
  <2> QED BY <2>1, <2>2, <2>3, <2>4 DEF TypeOK
<1> QED BY <1>1, <1>2, <1>3, TakeEventKeeps DEF LoopStep

LEMMA IdsInvNext == IdsInv /\ [Next]_vars => IdsInv'
<1> SUFFICES ASSUME IdsInv, [Next]_vars PROVE IdsInv'
  OBVIOUS
<1> USE DEF IdsInv
<1>1. ASSUME NEW t \in Thread, AddEvent(t) PROVE IdsInv'
  <2> DEFINE e == [from |-> t, n |-> added[t] + 1]
  <2>1. e \in Event /\ added' \in [Thread -> 0..MaxEvents]
    BY <1>1, EventQueueAssumption DEF AddEvent, TypeOK, Event
  <2>2. /\ early' \in BOOLEAN
        /\ handled' = handled \/ handled' = Append(handled, e)
        /\ hand' = hand \/ hand' = [hand EXCEPT ![t] = [event |-> e, sawReady |-> ready]]
        /\ UNCHANGED <<phase, ready, pending, saved, freeIds, buffer, popped, dropped>>
    BY <1>1 DEF AddEvent, TypeOK
  <2> HIDE DEF e
  <2>3. handled' \in Seq(Event)
    <3>1. handled \in Seq(Event) /\ Append(handled, e) \in Seq(Event)
      BY <2>1, ElementsAppend DEF TypeOK
    <3> QED BY <2>2, <3>1
  <2>4. hand' \in [Thread -> {Idle} \cup [event : Event, sawReady : BOOLEAN]]
    <3> DEFINE H == {Idle} \cup [event : Event, sawReady : BOOLEAN]
               h == [event |-> e, sawReady |-> ready]
    <3>1. h \in H /\ hand \in [Thread -> H]
      BY <2>1 DEF TypeOK
    <3>2. hand' = hand \/ hand' = [hand EXCEPT ![t] = h]
      BY <2>2
    <3> HIDE DEF H, h
    <3>3. hand' \in [Thread -> H]
      BY <3>1, <3>2
    <3> QED BY <3>3 DEF H
  <2> QED BY <2>1, <2>2, <2>3, <2>4, TableKept DEF TypeOK, Taking
<1>2. CASE AdoptBuffer
  <2>1. /\ DOMAIN saved' = {} /\ freeIds' = <<>> /\ buffer' = <<>> /\ popped' = popped
        /\ UNCHANGED <<phase, ready, pending, added, hand, handled, early>> /\ popped = NoId
    BY <1>2 DEF AdoptBuffer, Taking
  <2>2. dropped' \subseteq Event
    BY <1>2 DEF AdoptBuffer, TypeOK
  <2>3. Elements(<<>>) = {} /\ Distinct(<<>>) /\ <<>> \in Seq(Nat)
    BY DEF Elements, Distinct
  <2>4. IdsPacked'
    <3>1. DOMAIN saved' \cup Elements(freeIds') = 0..(0 - 1)
      BY <2>1, <2>3
    <3> QED BY <2>1, <2>3, <3>1 DEF IdsPacked
  <2>5. IdsMatch' /\ Taking'
    BY <2>1, <2>3 DEF IdsMatch, Taking, Distinct
  <2> QED BY <2>1, <2>2, <2>3, <2>4, <2>5 DEF TypeOK
<1>3. CASE UNCHANGED vars
  BY <1>3, TableKept DEF vars, TypeOK, Taking
<1> QED BY <1>1, <1>2, <1>3, StoreEventKeeps, LoopKeeps DEF Next

(* saveEvent/removeEvent/adoptBuffer: for any threads, events and order of   *)
(* freeing, the id chosen for a new event is not in use, and the ids in the  *)
(* buffer are exactly those of the stored events, each once.                 *)
THEOREM IdsCorrect == Spec => [](TypeOK /\ FreshId /\ IdsMatch)
<1>1. IdsInv => TypeOK /\ FreshId /\ IdsMatch
  BY NewIdFresh DEF IdsInv
<1> QED BY <1>1, IdsInvInit, IdsInvNext, PTL DEF Spec

-----------------------------------------------------------------------------
(* An event is in one place at a time because addEvent() hands it over whole *)
(* at each of its steps, and no two threads add the same event.              *)
Stored == {saved[id] : id \in DOMAIN saved}

(* A thread holds at most the event it added last.                           *)
HeldIsLast ==
  \A t \in Thread : hand[t] # Idle =>
    hand[t].event = [from |-> t, n |-> added[t]] /\ added[t] > 0 /\ hand[t].event \notin Immediate

Apart ==
  /\ Held \cap (Elements(pending) \cup Stored \cup Elements(handled) \cup dropped) = {}
  /\ Elements(pending) \cap (Stored \cup Elements(handled) \cup dropped) = {}
  /\ Stored \cap (Elements(handled) \cup dropped) = {}
  /\ Elements(handled) \cap dropped = {}

Once ==
  /\ Distinct(pending) /\ Distinct(handled)
  /\ \A i, j \in DOMAIN saved : saved[i] = saved[j] => i = j

PlacesKnown ==
  Elements(pending) \cup Stored \cup Elements(handled) \cup dropped \subseteq Added

PlaceInv == HeldIsLast /\ Apart /\ Once /\ PlacesKnown

(* Once the flag is up for good nothing takes the detour over m_pending, and *)
(* the events of a thread stand in the order it added them.                  *)
NoDetour ==
  /\ phase # "starting" => ready
  /\ ~early => pending = <<>> /\ \A t \in Thread : hand[t] # Idle => hand[t].sawReady

Precedes(e, f) == e.from = f.from => e.n < f.n

Lined ==
  /\ Stored \cap Immediate = {} /\ Elements(pending) \cap Immediate = {}
  /\ ~early =>
       /\ InOrder
       /\ \A i, j \in 1..Len(buffer) : i < j => Precedes(saved[buffer[i]], saved[buffer[j]])
       /\ popped # NoId => \A id \in Elements(buffer) : Precedes(saved[popped], saved[id])
       /\ \A e \in Elements(handled) \ Immediate, f \in Stored : Precedes(e, f)

OnceInv == IdsInv /\ PlaceInv /\ NoDetour /\ Lined

LEMMA HeldFacts ==
  ASSUME TypeOK, HeldIsLast
  PROVE  /\ \A t \in Thread : hand[t] # Idle =>
              /\ hand[t].event \in Event /\ hand[t].event \in Held
              /\ hand[t].event.from = t /\ hand[t].event.n = added[t]
              /\ hand[t].event \notin Immediate
         /\ \A e \in Held : \E t \in Thread : hand[t] # Idle /\ hand[t].event = e
         /\ Held \subseteq Added
<1>1. \A t \in Thread : hand[t] = Idle \/ hand[t] \in [event : Event, sawReady : BOOLEAN]
  BY DEF TypeOK
<1>2. NoEvent \notin Event
  BY DEF NoEvent, Event
<1>3. ASSUME NEW t \in Thread, hand[t] # Idle
      PROVE  /\ hand[t].event \in Event /\ hand[t].event \in Held
             /\ hand[t].event.from = t /\ hand[t].event.n = added[t]
             /\ hand[t].event \notin Immediate
  <2>1. hand[t].event \in Event
    BY <1>1, <1>3
  <2>2. hand[t].event \in Held
    BY <1>2, <2>1 DEF Held
  <2>3. hand[t].event = [from |-> t, n |-> added[t]] /\ hand[t].event \notin Immediate
    BY <1>3 DEF HeldIsLast
  <2> QED BY <2>1, <2>2, <2>3
<1>4. ASSUME NEW e \in Held PROVE \E t \in Thread : hand[t] # Idle /\ hand[t].event = e
  BY DEF Held, Idle
<1>5. \A t \in Thread : added[t] \in Int
  BY EventQueueAssumption DEF TypeOK
<1>6. Held \subseteq Added
  BY <1>3, <1>4, <1>5 DEF Added
<1> QED BY <1>3, <1>4, <1>6

(* addEventToBuffer() puts the event under an id nobody uses, or drops it.   *)
LEMMA BufferMoves ==
  ASSUME TypeOK, IdsPacked, NEW e \in Event, AddEventToBuffer(e)
  PROVE  \/ /\ Stored' = Stored \cup {e} /\ dropped' = dropped
            /\ NewId \in Nat /\ NewId \notin DOMAIN saved /\ DOMAIN saved' = DOMAIN saved \cup {NewId}
            /\ saved'[NewId] = e /\ \A i \in DOMAIN saved : saved'[i] = saved[i]
            /\ buffer' = Append(buffer, NewId)
         \/ /\ Stored' = Stored /\ dropped' = dropped \cup {e}
            /\ saved' = saved /\ buffer' = buffer
<1>1. NewId \in Nat /\ NewId \notin DOMAIN saved
  BY NewIdFresh DEF FreshId
<1> DEFINE id == NewId
<1>2. \/ /\ saved' = [i \in DOMAIN saved \cup {id} |-> IF i = id THEN e ELSE saved[i]]
         /\ buffer' = Append(buffer, id) /\ dropped' = dropped
      \/ saved' = saved /\ buffer' = buffer /\ dropped' = dropped \cup {e}
  BY DEF AddEventToBuffer
<1> HIDE DEF id
<1>3. id \in Nat /\ id \notin DOMAIN saved
  BY <1>1 DEF id
<1>4. CASE /\ saved' = [i \in DOMAIN saved \cup {id} |-> IF i = id THEN e ELSE saved[i]]
           /\ buffer' = Append(buffer, id) /\ dropped' = dropped
  <2>1. /\ DOMAIN saved' = DOMAIN saved \cup {id}
        /\ saved'[id] = e /\ \A i \in DOMAIN saved : saved'[i] = saved[i]
    BY <1>3, <1>4
  <2>2. Stored' = Stored \cup {e}
    BY <2>1 DEF Stored
  <2> QED BY <1>3, <1>4, <2>1, <2>2 DEF id
<1>5. CASE saved' = saved /\ buffer' = buffer /\ dropped' = dropped \cup {e}
  BY <1>5 DEF Stored
<1> QED BY <1>2, <1>4, <1>5

(* What an event's move to the buffer means for the table as a whole.        *)
LEMMA BufferOnce ==
  ASSUME TypeOK, IdsPacked, NEW e \in Event, AddEventToBuffer(e), e \notin Stored,
         \A i, j \in DOMAIN saved : saved[i] = saved[j] => i = j
  PROVE  \A i, j \in DOMAIN saved' : saved'[i] = saved'[j] => i = j
BY BufferMoves DEF Stored

LEMMA PlaceInit == Init => PlaceInv /\ NoDetour /\ Lined
<1> SUFFICES ASSUME Init PROVE PlaceInv /\ NoDetour /\ Lined
  OBVIOUS
<1>1. /\ Elements(pending) = {} /\ Elements(handled) = {} /\ Stored = {} /\ dropped = {}
      /\ Distinct(pending) /\ Distinct(handled) /\ DOMAIN saved = {}
  BY DEF Init, Elements, Stored, Distinct
<1>2. HeldIsLast /\ Apart /\ PlacesKnown /\ NoDetour
  BY <1>1 DEF Init, HeldIsLast, Apart, PlacesKnown, NoDetour
<1>3. Once
  BY <1>1 DEF Once
<1>4. Lined
  BY <1>1 DEF Init, Lined, InOrder
<1> QED BY <1>2, <1>3, <1>4 DEF PlaceInv

(* addEvent(), first step: a new event, in hand or at once in its handler.   *)
LEMMA AddEventPlaces ==
  ASSUME OnceInv, NEW t \in Thread, AddEvent(t)
  PROVE  PlaceInv'
<1> USE DEF OnceInv, IdsInv, PlaceInv
<1> DEFINE e == [from |-> t, n |-> added[t] + 1]
<1>1. /\ hand[t] = Idle /\ added' = [added EXCEPT ![t] = @ + 1] /\ added[t] < MaxEvents
      /\ \/ e \in Immediate /\ handled' = Append(handled, e) /\ hand' = hand
         \/ /\ e \notin Immediate /\ handled' = handled
            /\ hand' = [hand EXCEPT ![t] = [event |-> e, sawReady |-> ready]]
      /\ UNCHANGED <<phase, ready, pending, saved, freeIds, buffer, popped, dropped>>
  BY DEF AddEvent
<1>2. /\ e \in Event /\ e.from = t /\ e.n = added[t] + 1 /\ added[t] \in Nat
      /\ \A u \in Thread : added[u] \in Nat
  BY <1>1, EventQueueAssumption DEF TypeOK, Event
<1>3. e \notin Added
  BY <1>2 DEF Added
<1>4. Added \cup {e} \subseteq Added'
  <2>1. \A u \in Thread : added'[u] = IF u = t THEN added[t] + 1 ELSE added[u]
    BY <1>1 DEF TypeOK
  <2>2. \A f \in Event : f.from \in Thread
    BY DEF Event
  <2>3. \A f \in Event : f.n \in Nat
    BY EventQueueAssumption DEF Event
  <2> QED BY <1>2, <2>1, <2>2, <2>3 DEF Added
<1>5. e \notin Held
  BY <1>3, HeldFacts
<1> HIDE DEF e
<1>6. Stored' = Stored /\ Elements(pending)' = Elements(pending)
  BY <1>1 DEF Stored, Elements
<1>7. e \notin Elements(pending) \cup Stored \cup Elements(handled) \cup dropped
  BY <1>3 DEF PlacesKnown
<1>8. CASE e \in Immediate /\ handled' = Append(handled, e) /\ hand' = hand
  <2>1. Held' = Held
    BY <1>8 DEF Held
  <2>2. Elements(handled)' = Elements(handled) \cup {e} /\ Distinct(handled)'
    <3>1. handled \in Seq(Event) /\ Distinct(handled) /\ e \notin Elements(handled)
      BY <1>7 DEF TypeOK, Once
    <3>2. /\ Elements(Append(handled, e)) = Elements(handled) \cup {e}
          /\ Distinct(Append(handled, e))
      BY <1>2, <3>1, ElementsAppend
    <3> QED BY <1>8, <3>2
  <2>3. Apart'
    BY <1>1, <1>5, <1>6, <1>7, <2>1, <2>2 DEF Apart
  <2>4. HeldIsLast'
    BY <1>1, <1>8 DEF HeldIsLast, TypeOK
  <2>5. PlacesKnown'
    BY <1>1, <1>4, <1>6, <2>2 DEF PlacesKnown
  <2> QED BY <1>1, <2>2, <2>3, <2>4, <2>5 DEF Once, Distinct
<1>9. CASE /\ e \notin Immediate /\ handled' = handled
           /\ hand' = [hand EXCEPT ![t] = [event |-> e, sawReady |-> ready]]
  <2>1. \A u \in Thread : hand'[u] = IF u = t THEN [event |-> e, sawReady |-> ready] ELSE hand[u]
    BY <1>9 DEF TypeOK
  <2>2. Held' \subseteq Held \cup {e}
    <3>1. [event |-> e, sawReady |-> ready].event = e
      OBVIOUS
    <3> QED BY <2>1, <3>1 DEF Held
  <2>3. Apart'
    BY <1>1, <1>6, <1>7, <1>9, <2>2 DEF Apart, Elements
  <2>4. HeldIsLast'
    <3>1. \A u \in Thread : added'[u] = IF u = t THEN added[t] + 1 ELSE added[u]
      BY <1>1 DEF TypeOK
    <3>2. [event |-> e, sawReady |-> ready].event = e
      OBVIOUS
    <3>3. e = [from |-> t, n |-> added'[t]] /\ added'[t] > 0
      BY <1>2, <3>1 DEF e
    <3> QED BY <1>9, <2>1, <3>1, <3>2, <3>3 DEF HeldIsLast
  <2>5. PlacesKnown'
    BY <1>1, <1>4, <1>6, <1>9 DEF PlacesKnown, Elements
  <2> QED BY <1>1, <1>9, <2>3, <2>4, <2>5 DEF Once, Distinct
<1> QED BY <1>1, <1>8, <1>9

(* addEvent(), second step: the event leaves the hand for m_pending, where a *)
(* race may lose it, or for the buffer.                                      *)
LEMMA StoreEventPlaces ==
  ASSUME OnceInv, NEW t \in Thread, StoreEvent(t)
  PROVE  PlaceInv'
<1> USE DEF OnceInv, IdsInv, PlaceInv
<1> DEFINE e == hand[t].event
<1>1. /\ hand[t] # Idle /\ hand' = [hand EXCEPT ![t] = Idle]
      /\ \/ AddEventToBuffer(e) /\ pending' = pending
         \/ /\ pending' = Append(pending, e) \/ pending' = pending
            /\ UNCHANGED <<saved, freeIds, buffer, dropped>>
      /\ UNCHANGED <<phase, ready, popped, added, handled, early>>
  BY DEF StoreEvent
<1>2. e \in Event /\ e \in Held
  BY <1>1, HeldFacts
<1>3. \A u \in Thread : hand'[u] = IF u = t THEN Idle ELSE hand[u]
  BY <1>1 DEF TypeOK
<1>4. Held' \subseteq Held \ {e}
  <2>1. ASSUME NEW f \in Held' PROVE f \in Held /\ f # e
    <3>1. PICK u \in Thread : f = hand'[u].event /\ f # NoEvent
      BY DEF Held
    <3>2. u # t /\ f = hand[u].event
      BY <1>3, <3>1 DEF Idle
    <3>3. f \in Held /\ hand[u] # Idle
      BY <3>1, <3>2 DEF Held, Idle
    <3>4. f.from = u /\ e.from = t
      BY <1>1, <3>2, <3>3, HeldFacts
    <3> QED BY <3>2, <3>3, <3>4
  <2> QED BY <2>1
<1>5. HeldIsLast' /\ Added' = Added /\ e \in Added
  <2>1. HeldIsLast'
    BY <1>1, <1>3 DEF HeldIsLast
  <2> QED BY <1>1, <1>2, <2>1, HeldFacts DEF Added
<1> HIDE DEF e
<1>6. e \notin Elements(pending) \cup Stored \cup Elements(handled) \cup dropped
  BY <1>2 DEF Apart
<1>7. Elements(handled)' = Elements(handled) /\ Distinct(handled)'
  BY <1>1 DEF Once, Distinct, Elements
<1>8. CASE AddEventToBuffer(e) /\ pending' = pending
  <2>1. \/ Stored' = Stored \cup {e} /\ dropped' = dropped
        \/ Stored' = Stored /\ dropped' = dropped \cup {e}
    BY <1>2, <1>8, BufferMoves
  <2>2. Elements(pending)' = Elements(pending) /\ Distinct(pending)'
    BY <1>8 DEF Once, Distinct, Elements
  <2>3. Apart'
    BY <1>4, <1>6, <1>7, <2>1, <2>2 DEF Apart
  <2>4. PlacesKnown'
    BY <1>5, <1>7, <2>1, <2>2 DEF PlacesKnown
  <2>5. \A i, j \in DOMAIN saved' : saved'[i] = saved'[j] => i = j
    <3>1. \A i, j \in DOMAIN saved : saved[i] = saved[j] => i = j
      BY DEF Once
    <3> QED BY <1>2, <1>6, <1>8, <3>1, BufferOnce
  <2> QED BY <1>5, <1>7, <2>2, <2>3, <2>4, <2>5 DEF Once
<1>9. CASE /\ pending' = Append(pending, e) \/ pending' = pending
           /\ UNCHANGED <<saved, freeIds, buffer, dropped>>
  <2>1. Stored' = Stored /\ dropped' = dropped
    BY <1>9 DEF Stored
  <2>2. Elements(pending)' \subseteq Elements(pending) \cup {e} /\ Distinct(pending)'
    <3>1. pending \in Seq(Event) /\ Distinct(pending) /\ e \notin Elements(pending)
      BY <1>6 DEF TypeOK, Once
    <3>2. /\ Elements(Append(pending, e)) = Elements(pending) \cup {e}
          /\ Distinct(Append(pending, e))
      BY <1>2, <3>1, ElementsAppend
    <3>3. CASE pending' = Append(pending, e)
      BY <3>2, <3>3
    <3>4. CASE pending' = pending
      BY <3>1, <3>4 DEF Elements, Distinct
    <3> QED BY <1>9, <3>3, <3>4
  <2>3. Apart'
    BY <1>4, <1>6, <1>7, <2>1, <2>2 DEF Apart
  <2>4. PlacesKnown'
    BY <1>5, <1>7, <2>1, <2>2 DEF PlacesKnown
  <2> QED BY <1>5, <1>7, <1>9, <2>2, <2>3, <2>4 DEF Once
<1> QED BY <1>1, <1>8, <1>9

(* loop() moves an event from m_pending to the buffer.                       *)
LEMMA DrainPlaces ==
  ASSUME OnceInv, DrainPending
  PROVE  PlaceInv'
<1> USE DEF OnceInv, IdsInv, PlaceInv
<1> DEFINE e == Head(pending)
<1>1. /\ pending # <<>> /\ AddEventToBuffer(e) /\ pending' = Tail(pending)
      /\ UNCHANGED <<phase, ready, popped, added, hand, handled, early>>
  BY DEF DrainPending
<1>2. /\ e \in Event /\ Elements(pending) = Elements(pending)' \cup {e}
      /\ Distinct(pending)' /\ e \notin Elements(pending)'
  <2>1. pending \in Seq(Event) /\ Distinct(pending)
    BY DEF TypeOK, Once
  <2> HIDE DEF e
  <2>2. /\ Elements(pending) = Elements(Tail(pending)) \cup {e} /\ e \in Event
        /\ Distinct(Tail(pending)) /\ e \notin Elements(Tail(pending))
    BY <1>1, <2>1, ElementsTail DEF e
  <2> QED BY <1>1, <2>2
<1> HIDE DEF e
<1>3. \/ Stored' = Stored \cup {e} /\ dropped' = dropped
      \/ Stored' = Stored /\ dropped' = dropped \cup {e}
  BY <1>1, <1>2, BufferMoves
<1>4. /\ Held' = Held /\ Elements(handled)' = Elements(handled) /\ Distinct(handled)'
      /\ HeldIsLast' /\ Added' = Added
  BY <1>1 DEF Held, Once, Distinct, Elements, HeldIsLast, Added
<1>5. Apart' /\ PlacesKnown'
  BY <1>2, <1>3, <1>4 DEF Apart, PlacesKnown
<1>6. \A i, j \in DOMAIN saved' : saved'[i] = saved'[j] => i = j
  <2>1. \A i, j \in DOMAIN saved : saved[i] = saved[j] => i = j
    BY DEF Once
  <2>2. e \notin Stored
    BY <1>2 DEF Apart
  <2> QED BY <1>1, <1>2, <2>1, <2>2, BufferOnce
<1> QED BY <1>2, <1>4, <1>5, <1>6 DEF Once

(* processEvent() moves one from the table to its handler.                   *)
LEMMA TakePlaces ==
  ASSUME OnceInv, TakeEvent
  PROVE  PlaceInv'
<1> USE DEF OnceInv, IdsInv, PlaceInv
<1> DEFINE e == saved[popped]
<1>1. /\ popped \in DOMAIN saved /\ e \in Event
      /\ saved' = [i \in DOMAIN saved \ {popped} |-> saved[i]]
      /\ handled' = Append(handled, e)
      /\ UNCHANGED <<ready, pending, buffer, added, hand, dropped, early>>
  BY DEF TakeEvent, RemoveEvent, Taking, TypeOK, IdsMatch
<1>2. Stored' = Stored \ {e} /\ e \in Stored
  BY <1>1 DEF Stored, Once
<1>3. \A i, j \in DOMAIN saved' : saved'[i] = saved'[j] => i = j
  BY <1>1 DEF Once
<1> HIDE DEF e
<1>4. Elements(handled)' = Elements(handled) \cup {e} /\ Distinct(handled)'
  <2>1. handled \in Seq(Event) /\ Distinct(handled) /\ e \notin Elements(handled)
    BY <1>2 DEF TypeOK, Once, Apart
  <2>2. /\ Elements(Append(handled, e)) = Elements(handled) \cup {e}
        /\ Distinct(Append(handled, e))
    BY <1>1, <2>1, ElementsAppend
  <2> QED BY <1>1, <2>2
<1>5. /\ Held' = Held /\ Elements(pending)' = Elements(pending) /\ Distinct(pending)'
      /\ HeldIsLast' /\ Added' = Added /\ dropped' = dropped
  BY <1>1 DEF Held, Once, Distinct, Elements, HeldIsLast, Added
<1>6. Apart' /\ PlacesKnown'
  BY <1>2, <1>4, <1>5 DEF Apart, PlacesKnown
<1> QED BY <1>3, <1>4, <1>5, <1>6 DEF Once

(* Steps that move no event, and adoptBuffer(), which drops those stored.    *)
LEMMA AdoptPlaces ==
  ASSUME OnceInv, AdoptBuffer
  PROVE  PlaceInv'
<1> USE DEF OnceInv, IdsInv, PlaceInv
<1>1. /\ dropped' = dropped \cup Stored /\ DOMAIN saved' = {}
      /\ UNCHANGED <<phase, ready, pending, popped, added, hand, handled, early>>
  BY DEF AdoptBuffer, Stored
<1>2. Stored' = {}
  BY <1>1 DEF Stored
<1>3. /\ Held' = Held /\ Elements(pending)' = Elements(pending) /\ Distinct(pending)'
      /\ Elements(handled)' = Elements(handled) /\ Distinct(handled)'
      /\ HeldIsLast' /\ Added' = Added
  BY <1>1 DEF Held, Once, Distinct, Elements, HeldIsLast, Added
<1>4. Apart' /\ PlacesKnown'
  BY <1>1, <1>2, <1>3 DEF Apart, PlacesKnown
<1> QED BY <1>1, <1>3, <1>4 DEF Once

LEMMA PlacesKept ==
  ASSUME PlaceInv, UNCHANGED <<pending, saved, added, hand, handled, dropped>>
  PROVE  PlaceInv'
<1>1. /\ Held' = Held /\ Stored' = Stored /\ Added' = Added
      /\ Elements(pending)' = Elements(pending) /\ Elements(handled)' = Elements(handled)
  BY DEF Held, Stored, Added, Elements
<1> QED BY <1>1 DEF PlaceInv, HeldIsLast, Apart, Once, PlacesKnown, Distinct

LEMMA PlaceNext == OnceInv /\ [Next]_vars => PlaceInv'
<1> SUFFICES ASSUME OnceInv, [Next]_vars PROVE PlaceInv'
  OBVIOUS
<1>1. CASE BecomeReady \/ DrainDone \/ GetEvent \/ HandlerReturns \/ UNCHANGED vars
  <2>1. UNCHANGED <<pending, saved, added, hand, handled, dropped>>
    BY <1>1 DEF BecomeReady, DrainDone, GetEvent, HandlerReturns, vars
  <2> QED BY <2>1, PlacesKept DEF OnceInv
<1> QED BY <1>1, AddEventPlaces, StoreEventPlaces, DrainPlaces, TakePlaces, AdoptPlaces
        DEF Next, LoopStep

-----------------------------------------------------------------------------
(* The flag, once up, stays up: from then on every event takes the buffer.   *)
LEMMA NoDetourNext == OnceInv /\ [Next]_vars => NoDetour'
<1> SUFFICES ASSUME OnceInv, [Next]_vars PROVE NoDetour'
  OBVIOUS
<1> USE DEF OnceInv, IdsInv, NoDetour
<1>1. ASSUME NEW t \in Thread, AddEvent(t) PROVE NoDetour'
  <2>1. /\ early' = (early \/ phase \in {"starting", "draining"})
        /\ UNCHANGED <<phase, ready, pending>>
        /\ hand' = hand \/ \E e : hand' = [hand EXCEPT ![t] = [event |-> e, sawReady |-> ready]]
    BY <1>1 DEF AddEvent
  <2>2. ASSUME ~early', NEW u \in Thread, hand'[u] # Idle PROVE hand'[u].sawReady
    <3>1. ~early /\ ready
      BY <2>1, <2>2
    <3>2. CASE hand' = hand
      BY <2>2, <3>1, <3>2
    <3>3. CASE \E e : hand' = [hand EXCEPT ![t] = [event |-> e, sawReady |-> ready]]
      <4>1. PICK e : hand' = [hand EXCEPT ![t] = [event |-> e, sawReady |-> ready]]
        BY <3>3
      <4>2. hand'[u] = IF u = t THEN [event |-> e, sawReady |-> ready] ELSE hand[u]
        BY <4>1 DEF TypeOK
      <4>3. [event |-> e, sawReady |-> ready].sawReady = ready
        OBVIOUS
      <4> QED BY <2>2, <3>1, <4>2, <4>3
    <3> QED BY <2>1, <3>2, <3>3
  <2> QED BY <2>1, <2>2
<1>2. ASSUME NEW t \in Thread, StoreEvent(t) PROVE NoDetour'
  <2>1. /\ hand[t] # Idle /\ hand' = [hand EXCEPT ![t] = Idle]
        /\ hand[t].sawReady => pending' = pending
        /\ UNCHANGED <<phase, ready, early>>
    BY <1>2 DEF StoreEvent
  <2>2. \A u \in Thread : hand'[u] = IF u = t THEN Idle ELSE hand[u]
    BY <2>1 DEF TypeOK
  <2> QED BY <2>1, <2>2
<1>3. CASE LoopStep
  <2>1. hand' = hand /\ early' = early
    BY <1>3 DEF LoopStep, BecomeReady, DrainPending, DrainDone, GetEvent, TakeEvent, HandlerReturns
  <2>2. /\ phase' # "starting" /\ (ready' \/ (ready' = ready /\ phase # "starting"))
        /\ pending = <<>> => pending' = pending
    <3>1. CASE BecomeReady
      BY <3>1 DEF BecomeReady
    <3>2. CASE DrainPending
      <4>1. phase = "draining" /\ phase' = phase /\ ready' = ready /\ pending # <<>>
        BY <3>2 DEF DrainPending
      <4> QED BY <4>1
    <3>3. CASE DrainDone \/ GetEvent \/ HandlerReturns
      <4>1. phase' # "starting" /\ phase # "starting" /\ UNCHANGED <<ready, pending>>
        BY <3>3 DEF DrainDone, GetEvent, HandlerReturns
      <4> QED BY <4>1
    <3>4. CASE TakeEvent
      <4>1. phase' # "starting" /\ phase # "starting" /\ UNCHANGED <<ready, pending>>
        BY <3>4 DEF TakeEvent
      <4> QED BY <4>1
    <3> QED BY <1>3, <3>1, <3>2, <3>3, <3>4 DEF LoopStep
  <2> QED BY <2>1, <2>2
<1>4. CASE AdoptBuffer \/ UNCHANGED vars
  BY <1>4 DEF AdoptBuffer, vars
<1> QED BY <1>1, <1>2, <1>3, <1>4 DEF Next

(* What a thread holds comes after everything of its that has been stored or *)
(* dispatched.                                                               *)
LEMMA HeldComesLast ==
  ASSUME OnceInv, NEW t \in Thread, hand[t] # Idle, NEW f \in Stored \cup Elements(handled)
  PROVE  Precedes(f, hand[t].event)
<1> USE DEF OnceInv, IdsInv, PlaceInv
<1>1. /\ hand[t].event \in Held /\ hand[t].event.from = t /\ hand[t].event.n = added[t]
      /\ hand[t].event = [from |-> t, n |-> added[t]]
  BY HeldFacts DEF HeldIsLast
<1>2. f \in Added /\ f # hand[t].event
  BY <1>1 DEF Apart, PlacesKnown
<1>3. ASSUME f.from = t PROVE f.n < added[t]
  <2>1. f \in Event /\ f.n <= added[t] /\ added[t] \in Int
    BY <1>2, <1>3, EventQueueAssumption DEF Added, TypeOK
  <2>2. f = [from |-> f.from, n |-> f.n] /\ f.n \in Int
    BY <2>1, EventQueueAssumption DEF Event
  <2>3. f.n # added[t]
    BY <1>1, <1>2, <1>3, <2>2
  <2> QED BY <2>1, <2>2, <2>3
<1> QED BY <1>1, <1>3 DEF Precedes

(* A dispatch at the end of those so far keeps them in order, if everything  *)
(* queued of its thread that was dispatched came before.                     *)
LEMMA InOrderAppend ==
  ASSUME InOrder, handled \in Seq(Event), NEW e \in Event, handled' = Append(handled, e),
         e \notin Immediate => \A f \in Elements(handled) \ Immediate : Precedes(f, e)
  PROVE  InOrder'
<1>1. /\ Len(handled') = Len(handled) + 1 /\ Len(handled) \in Nat
      /\ \A i \in 1..Len(handled) : handled'[i] = handled[i]
      /\ handled'[Len(handled) + 1] = e
  OBVIOUS
<1>2. ASSUME NEW i \in 1..Len(handled'), NEW j \in 1..Len(handled'),
             i < j, handled'[i].from = handled'[j].from,
             handled'[i] \notin Immediate, handled'[j] \notin Immediate
      PROVE  handled'[i].n < handled'[j].n
  <2>1. i \in 1..Len(handled) /\ handled'[i] = handled[i]
    BY <1>1, <1>2
  <2>2. CASE j \in 1..Len(handled)
    BY <1>1, <1>2, <2>1, <2>2 DEF InOrder
  <2>3. CASE j = Len(handled) + 1
    <3>1. handled'[j] = e /\ handled[i] \in Elements(handled)
      BY <1>1, <2>1, <2>3 DEF Elements
    <3> QED BY <1>2, <2>1, <3>1 DEF Precedes
  <2> QED BY <1>1, <2>2, <2>3
<1> QED BY <1>2 DEF InOrder

LEMMA AddEventLined ==
  ASSUME OnceInv, NEW t \in Thread, AddEvent(t)
  PROVE  Lined'
<1> USE DEF OnceInv, IdsInv
<1> DEFINE e == [from |-> t, n |-> added[t] + 1]
<1>1. /\ handled' = handled \/ (e \in Immediate /\ handled' = Append(handled, e))
      /\ ~early' => ~early
      /\ UNCHANGED <<pending, saved, buffer, popped>>
  BY DEF AddEvent
<1>2. e \in Event
  BY EventQueueAssumption DEF AddEvent, TypeOK, Event
<1> HIDE DEF e
<1>3. Stored' = Stored /\ Elements(pending)' = Elements(pending) /\ Elements(buffer)' = Elements(buffer)
  BY <1>1 DEF Stored, Elements
<1>4. Elements(handled)' \ Immediate = Elements(handled) \ Immediate
  <2>1. handled \in Seq(Event)
    BY DEF TypeOK
  <2>2. Elements(Append(handled, e)) = Elements(handled) \cup {e}
    BY <1>2, <2>1, ElementsAppend
  <2>3. CASE handled' = handled
    BY <2>3 DEF Elements
  <2>4. CASE e \in Immediate /\ handled' = Append(handled, e)
    BY <2>2, <2>4
  <2> QED BY <1>1, <2>3, <2>4
<1>5. InOrder => InOrder'
  <2>1. CASE handled' = handled
    BY <2>1 DEF InOrder
  <2>2. CASE e \in Immediate /\ handled' = Append(handled, e)
    <3>1. handled \in Seq(Event)
      BY DEF TypeOK
    <3> QED BY <1>2, <2>2, <3>1, InOrderAppend
  <2> QED BY <1>1, <2>1, <2>2
<1> QED BY <1>1, <1>3, <1>4, <1>5 DEF Lined

(* An event put at the end of the buffer keeps the line, if it comes after   *)
(* all that is stored and dispatched.                                        *)
LEMMA BufferLined ==
  ASSUME TypeOK, IdsPacked, IdsMatch, Lined, NEW e \in Event, AddEventToBuffer(e),
         popped' = popped, handled' = handled, early' = early, e \notin Immediate,
         Elements(pending)' \cap Immediate = {},
         ~early => \A f \in Stored \cup Elements(handled) : Precedes(f, e)
  PROVE  Lined'
<1>1. /\ Elements(handled)' = Elements(handled)
      /\ InOrder => InOrder'
  BY DEF Elements, InOrder
<1>2. /\ \A i \in 1..Len(buffer) : buffer[i] \in DOMAIN saved
      /\ \A id \in Elements(buffer) : id \in DOMAIN saved
      /\ popped # NoId => popped \in DOMAIN saved
  BY DEF IdsMatch, Elements
<1>3. CASE Stored' = Stored /\ dropped' = dropped \cup {e} /\ saved' = saved /\ buffer' = buffer
  <2>1. Elements(buffer)' = Elements(buffer)
    BY <1>3 DEF Elements
  <2> QED BY <1>1, <1>3, <2>1 DEF Lined
<1>4. CASE /\ Stored' = Stored \cup {e} /\ dropped' = dropped
           /\ NewId \in Nat /\ NewId \notin DOMAIN saved /\ DOMAIN saved' = DOMAIN saved \cup {NewId}
           /\ saved'[NewId] = e /\ \A i \in DOMAIN saved : saved'[i] = saved[i]
           /\ buffer' = Append(buffer, NewId)
  <2>1. buffer \in Seq(Nat)
    BY DEF TypeOK
  <2>2. /\ Len(buffer') = Len(buffer) + 1 /\ Len(buffer) \in Nat
        /\ \A i \in 1..Len(buffer) : buffer'[i] = buffer[i]
        /\ buffer'[Len(buffer) + 1] = NewId
    BY <1>4, <2>1
  <2>3. Elements(buffer') = Elements(buffer) \cup {NewId}
    BY <1>4, <2>1, ElementsAppend
  <2>4. \A i \in DOMAIN saved : saved[i] \in Stored
    BY DEF Stored
  <2>5. ASSUME ~early
        PROVE  \A i, j \in 1..Len(buffer') : i < j => Precedes(saved'[buffer'[i]], saved'[buffer'[j]])
    <3>1. SUFFICES ASSUME NEW i \in 1..Len(buffer'), NEW j \in 1..Len(buffer'), i < j
                   PROVE  Precedes(saved'[buffer'[i]], saved'[buffer'[j]])
      OBVIOUS
    <3>2. i \in 1..Len(buffer) /\ saved'[buffer'[i]] = saved[buffer[i]] /\ saved[buffer[i]] \in Stored
      BY <1>2, <1>4, <2>2, <2>4, <3>1
    <3>3. CASE j \in 1..Len(buffer)
      <4>1. saved'[buffer'[j]] = saved[buffer[j]]
        BY <1>2, <1>4, <2>2, <3>3
      <4> QED BY <2>5, <3>1, <3>2, <3>3, <4>1 DEF Lined
    <3>4. CASE j = Len(buffer) + 1
      <4>1. saved'[buffer'[j]] = e
        BY <1>4, <2>2, <3>4
      <4> QED BY <2>5, <3>2, <4>1
    <3> QED BY <2>2, <3>3, <3>4
  <2>6. ASSUME ~early, popped # NoId, NEW id \in Elements(buffer')
        PROVE  Precedes(saved'[popped], saved'[id])
    <3>1. saved'[popped] = saved[popped] /\ saved[popped] \in Stored
      BY <1>2, <1>4, <2>4, <2>6
    <3>2. CASE id = NewId
      BY <1>4, <2>6, <3>1, <3>2
    <3>3. CASE id \in Elements(buffer)
      BY <1>2, <1>4, <2>6, <3>1, <3>3 DEF Lined
    <3> QED BY <2>3, <2>6, <3>2, <3>3
  <2>7. ASSUME ~early, NEW f \in Elements(handled)' \ Immediate, NEW g \in Stored'
        PROVE  Precedes(f, g)
    BY <1>1, <1>4, <2>7 DEF Lined
  <2>8. (Stored \cup {e}) \cap Immediate = {}
    BY DEF Lined
  <2>9. ~early => InOrder'
    BY <1>1 DEF Lined
  <2> QED BY <1>4, <2>5, <2>6, <2>7, <2>8, <2>9 DEF Lined
<1> QED BY <1>3, <1>4, BufferMoves

LEMMA StoreEventLined ==
  ASSUME OnceInv, NEW t \in Thread, StoreEvent(t)
  PROVE  Lined'
<1> USE DEF OnceInv, IdsInv, PlaceInv
<1> DEFINE e == hand[t].event
<1>1. /\ hand[t] # Idle
      /\ \/ hand[t].sawReady /\ AddEventToBuffer(e) /\ pending' = pending
         \/ /\ ~hand[t].sawReady /\ (pending' = Append(pending, e) \/ pending' = pending)
            /\ UNCHANGED <<saved, freeIds, buffer, dropped>>
      /\ UNCHANGED <<popped, handled, early>>
  BY DEF StoreEvent
<1>2. e \in Event /\ e \notin Immediate
  BY <1>1, HeldFacts
<1>3. \A f \in Stored \cup Elements(handled) : Precedes(f, e)
  BY <1>1, HeldComesLast
<1> HIDE DEF e
<1>4. Elements(pending)' \cap Immediate = {}
  <2>1. pending \in Seq(Event) /\ Elements(pending) \cap Immediate = {}
    BY DEF TypeOK, Lined
  <2>2. Elements(Append(pending, e)) = Elements(pending) \cup {e}
    BY <1>2, <2>1, ElementsAppend
  <2>3. CASE pending' = pending
    BY <2>1, <2>3 DEF Elements
  <2>4. CASE pending' = Append(pending, e)
    BY <1>2, <2>1, <2>2, <2>4
  <2> QED BY <1>1, <2>3, <2>4
<1>5. CASE AddEventToBuffer(e)
  BY <1>1, <1>2, <1>3, <1>4, <1>5, BufferLined
<1>6. CASE ~hand[t].sawReady /\ UNCHANGED <<saved, freeIds, buffer, dropped>>
  <2>1. early /\ Stored' = Stored
    BY <1>1, <1>6 DEF NoDetour, Stored
  <2> QED BY <1>1, <1>4, <2>1 DEF Lined
<1> QED BY <1>1, <1>5, <1>6

LEMMA DrainLined ==
  ASSUME OnceInv, DrainPending
  PROVE  Lined'
<1> USE DEF OnceInv, IdsInv
<1> DEFINE e == Head(pending)
<1>1. /\ pending # <<>> /\ AddEventToBuffer(e) /\ pending' = Tail(pending)
      /\ UNCHANGED <<popped, handled, early>>
  BY DEF DrainPending
<1>2. early
  BY <1>1 DEF NoDetour
<1>3. e \in Event /\ e \notin Immediate /\ Elements(pending)' \cap Immediate = {}
  <2>1. pending \in Seq(Event) /\ Elements(pending) \cap Immediate = {}
    BY DEF TypeOK, Lined
  <2> HIDE DEF e
  <2>2. Elements(pending) = Elements(Tail(pending)) \cup {e} /\ e \in Event
    BY <1>1, <2>1, ElementsTail DEF e
  <2> QED BY <1>1, <2>1, <2>2
<1> HIDE DEF e
<1> QED BY <1>1, <1>2, <1>3, BufferLined

(* The oldest id leaves the buffer ...                                       *)
LEMMA GetEventLined ==
  ASSUME OnceInv, GetEvent
  PROVE  Lined'
<1> USE DEF OnceInv, IdsInv
<1>1. /\ buffer # <<>> /\ popped' = Head(buffer) /\ buffer' = Tail(buffer)
      /\ UNCHANGED <<pending, saved, handled, early>>
  BY DEF GetEvent
<1>2. buffer \in Seq(Nat)
  BY DEF TypeOK
<1>3. /\ Len(buffer') = Len(buffer) - 1 /\ Len(buffer) \in Nat \ {0}
      /\ \A i \in 1..Len(buffer') : buffer'[i] = buffer[i + 1]
      /\ popped' = buffer[1]
  BY <1>1, <1>2, EmptySeq
<1>4. Stored' = Stored /\ Elements(pending)' = Elements(pending) /\ Elements(handled)' = Elements(handled)
  BY <1>1 DEF Stored, Elements
<1>5. ASSUME ~early PROVE \A i, j \in 1..Len(buffer') : i < j => Precedes(saved'[buffer'[i]], saved'[buffer'[j]])
  <2> SUFFICES ASSUME NEW i \in 1..Len(buffer'), NEW j \in 1..Len(buffer'), i < j
               PROVE  Precedes(saved'[buffer'[i]], saved'[buffer'[j]])
    OBVIOUS
  <2>1. i + 1 \in 1..Len(buffer) /\ j + 1 \in 1..Len(buffer) /\ i + 1 < j + 1
    BY <1>3
  <2>2. Precedes(saved[buffer[i + 1]], saved[buffer[j + 1]])
    BY <1>5, <2>1 DEF Lined
  <2>3. saved' = saved /\ buffer'[i] = buffer[i + 1] /\ buffer'[j] = buffer[j + 1]
    BY <1>1, <1>3
  <2> QED BY <2>2, <2>3
<1>6. ASSUME ~early, NEW id \in Elements(buffer') PROVE Precedes(saved'[popped'], saved'[id])
  <2>1. PICK i \in 1..Len(buffer') : id = buffer'[i]
    BY DEF Elements
  <2>2. 1 \in 1..Len(buffer) /\ i + 1 \in 1..Len(buffer) /\ 1 < i + 1 /\ id = buffer[i + 1]
    BY <1>3, <2>1
  <2> QED BY <1>1, <1>3, <1>6, <2>2 DEF Lined
<1>7. InOrder => InOrder'
  BY <1>1 DEF InOrder
<1> QED BY <1>1, <1>4, <1>5, <1>6, <1>7 DEF Lined

(* ... and its event goes to the handler: what is left comes after it.       *)
LEMMA TakeEventLined ==
  ASSUME OnceInv, TakeEvent
  PROVE  Lined'
<1> USE DEF OnceInv, IdsInv
<1> DEFINE e == saved[popped]
<1>1. /\ popped # NoId /\ popped \in DOMAIN saved /\ e \in Event /\ e \in Stored
      /\ saved' = [i \in DOMAIN saved \ {popped} |-> saved[i]]
      /\ popped' = NoId /\ handled' = Append(handled, e)
      /\ UNCHANGED <<pending, buffer, early>>
  BY DEF TakeEvent, RemoveEvent, Taking, TypeOK, IdsMatch, Stored
<1>2. /\ DOMAIN saved' = Elements(buffer)
      /\ \A id \in Elements(buffer) : saved'[id] = saved[id]
      /\ \A i \in 1..Len(buffer) : saved'[buffer[i]] = saved[buffer[i]]
  BY <1>1 DEF IdsMatch, Elements
<1>3. Stored' \subseteq Stored /\ \A f \in Stored' : \E id \in Elements(buffer) : f = saved[id]
  BY <1>1, <1>2 DEF Stored
<1>4. ~early => \A f \in Stored' : Precedes(e, f)
  BY <1>1, <1>3 DEF Lined
<1>5. ~early => \A f \in Elements(handled) \ Immediate : Precedes(f, e)
  BY <1>1 DEF Lined
<1> HIDE DEF e
<1>6. handled \in Seq(Event) /\ Elements(handled)' = Elements(handled) \cup {e}
  <2>1. handled \in Seq(Event)
    BY DEF TypeOK
  <2>2. Elements(Append(handled, e)) = Elements(handled) \cup {e}
    BY <1>1, <2>1, ElementsAppend
  <2> QED BY <1>1, <2>1, <2>2
<1>7. ~early => InOrder'
  BY <1>1, <1>5, <1>6, InOrderAppend DEF Lined
<1>8. Elements(pending)' = Elements(pending) /\ Elements(buffer)' = Elements(buffer)
  BY <1>1 DEF Elements
<1>9. ASSUME ~early, NEW i \in 1..Len(buffer'), NEW j \in 1..Len(buffer'), i < j
      PROVE  Precedes(saved'[buffer'[i]], saved'[buffer'[j]])
  <2>1. /\ i \in 1..Len(buffer) /\ j \in 1..Len(buffer)
        /\ saved'[buffer'[i]] = saved[buffer[i]] /\ saved'[buffer'[j]] = saved[buffer[j]]
    BY <1>1, <1>2
  <2>2. Precedes(saved[buffer[i]], saved[buffer[j]])
    BY <1>9, <2>1 DEF Lined
  <2> QED BY <2>1, <2>2
<1>10. ~early => \A f \in Elements(handled)' \ Immediate, g \in Stored' : Precedes(f, g)
  BY <1>3, <1>4, <1>6 DEF Lined
<1> QED BY <1>1, <1>3, <1>7, <1>8, <1>9, <1>10 DEF Lined

LEMMA AdoptLined ==
  ASSUME OnceInv, AdoptBuffer
  PROVE  Lined'
<1> USE DEF OnceInv, IdsInv
<1>1. /\ DOMAIN saved' = {} /\ buffer' = <<>> /\ popped' = NoId
      /\ UNCHANGED <<pending, handled, early>>
  BY DEF AdoptBuffer, Taking
<1>2. Stored' = {} /\ Elements(buffer)' = {} /\ Len(buffer') = 0
  BY <1>1 DEF Stored, Elements
<1>3. Elements(pending)' = Elements(pending) /\ (InOrder => InOrder')
  BY <1>1 DEF Elements, InOrder
<1> QED BY <1>1, <1>2, <1>3 DEF Lined

LEMMA LinedNext == OnceInv /\ [Next]_vars => Lined'
<1> SUFFICES ASSUME OnceInv, [Next]_vars PROVE Lined'
  OBVIOUS
<1>1. CASE BecomeReady \/ DrainDone \/ HandlerReturns \/ UNCHANGED vars
  <2>1. UNCHANGED <<pending, saved, buffer, popped, handled, early>>
    BY <1>1 DEF BecomeReady, DrainDone, HandlerReturns, vars
  <2> QED BY <2>1 DEF OnceInv, Lined, Stored, Elements, InOrder
<1> QED BY <1>1, AddEventLined, StoreEventLined, DrainLined, GetEventLined, TakeEventLined, AdoptLined
        DEF Next, LoopStep

(* addEvent/processEvent: for any threads and events, an event is dispatched *)
(* at most once and never after it was dropped, and unless one was added     *)
(* before loop() had taken m_pending, the queued events of a thread are      *)
(* dispatched in the order it added them.                                    *)
THEOREM EventsHandledOnce == Spec => []HandledOnce
<1>1. Init => OnceInv
  BY IdsInvInit, PlaceInit DEF OnceInv
<1>2. OnceInv /\ [Next]_vars => OnceInv'
  BY IdsInvNext, PlaceNext, NoDetourNext, LinedNext DEF OnceInv
<1>3. OnceInv => HandledOnce
  <2>1. Queued = Elements(pending) \cup Stored
    BY DEF Queued, Stored
  <2> QED BY <2>1 DEF OnceInv, PlaceInv, Apart, Once, Distinct, Lined, HandledOnce, OnePlace, LateInOrder
<1> QED BY <1>1, <1>2, <1>3, PTL DEF Spec

-----------------------------------------------------------------------------
(* EventTimers.                                                              *)
TimersInv == TimersTypeOK /\ InStep /\ NeverEarly

LEMMA TimersInit == InitTimers => TimersInv
BY EventTimersAssumption DEF InitTimers, TimersInv, TimersTypeOK, InStep, NeverEarly, User

(* The numbers the steps compute with.                                       *)
LEMMA Numbers ==
  ASSUME TimersTypeOK
  PROVE  /\ queued \subseteq Timer /\ clock \in Nat
         /\ \A t \in Timer : left[t] \in Int /\ timeout[t] \in Nat /\ age[t] \in Nat
         /\ \A d \in Duration : d \in Nat /\ d > 0
<1>1. \A d \in Duration : d \in Nat /\ d > 0
  BY EventTimersAssumption
<1>2. \A t \in Timer : timeout[t] \in Duration \cup {0}
  BY DEF TimersTypeOK
<1>3. ASSUME NEW t \in Timer PROVE timeout[t] \in Nat
  <2>1. CASE timeout[t] = 0
    BY <2>1
  <2>2. CASE timeout[t] \in Duration
    BY <1>1, <2>2, Zenon
  <2> QED BY <1>2, <2>1, <2>2
<1> QED BY <1>1, <1>3 DEF TimersTypeOK

(* Everything queued counts down by what is on the clock.                    *)
LEMMA CountDownExact ==
  ASSUME TimersInv
  PROVE  /\ CountDown \in [Timer -> Int]
         /\ \A t \in queued : CountDown[t] = timeout[t] - age[t]
<1>1. \A t \in Timer : Remaining(t) \in Int
  BY DEF TimersInv, TimersTypeOK, Remaining
<1>2. queued \subseteq Timer /\ left \in [Timer -> Int]
  BY DEF TimersInv, TimersTypeOK
<1>3. CountDown \in [Timer -> Int]
  BY <1>1, <1>2 DEF CountDown
<1>4. ASSUME NEW t \in queued PROVE CountDown[t] = timeout[t] - age[t]
  <2>1. CountDown[t] = Remaining(t)
    BY <1>2 DEF CountDown
  <2> QED BY <2>1 DEF TimersInv, InStep
<1> QED BY <1>3, <1>4

LEMMA TimerExpiresKeeps ==
  ASSUME TimersInv, NEW t \in Timer, TimerExpires(t)
  PROVE  TimersInv'
<1>1. /\ t \in queued /\ timeout[t] \in Duration /\ timeout[t] \in Nat /\ timeout[t] > 0
      /\ age[t] \in Nat /\ Remaining(t) = timeout[t] - age[t] /\ Remaining(t) <= 0
  BY Numbers DEF TimerExpires, Expired, TimersInv, InStep
<1>2. /\ left' = [CountDown EXCEPT ![t] = timeout[t]] /\ clock' = 0
      /\ queued' \subseteq queued /\ age' = [age EXCEPT ![t] = 0]
      /\ current' = Fired(t)
      /\ UNCHANGED <<timeout, oneShot, known, backlog, posts>>
  BY DEF TimerExpires
<1>3. /\ current'.kind = "timer" /\ current'.timer = t /\ current'.lasted = timeout[t]
      /\ current'.age = age[t] /\ current'.count = age[t] \div timeout[t]
      /\ current' \in [kind : {"timer"}, timer : Timer, lasted : Duration, count : Int, age : Nat]
  <2>1. timeout[t] - (left[t] - clock) = age[t]
    BY <1>1 DEF Remaining, TimersInv, TimersTypeOK
  <2>2. age[t] \div timeout[t] \in Int
    BY <1>1
  <2> QED BY <1>1, <1>2, <2>1, <2>2 DEF Fired
<1>4. NeverEarly'
  BY <1>1, <1>3 DEF NeverEarly
<1>5. TimersTypeOK'
  BY <1>1, <1>2, <1>3, CountDownExact DEF TimersInv, TimersTypeOK
<1>6. InStep'
  <2>1. ASSUME NEW u \in queued'
        PROVE  timeout'[u] \in Duration /\ left'[u] - clock' = timeout'[u] - age'[u]
    <3>1. u \in queued /\ u \in Timer /\ timeout[u] \in Duration /\ timeout[u] \in Int /\ age[u] \in Int
      BY <1>2, <2>1, Numbers DEF TimersInv, InStep
    <3>2. CountDown[u] = timeout[u] - age[u]
      BY <3>1, CountDownExact
    <3>3. CASE u = t
      BY <1>1, <1>2, <3>1, <3>3, CountDownExact DEF TimersInv, TimersTypeOK
    <3>4. CASE u # t
      BY <1>2, <3>1, <3>2, <3>4, CountDownExact DEF TimersInv, TimersTypeOK
    <3> QED BY <3>3, <3>4
  <2> QED BY <2>1 DEF InStep, Remaining
<1> QED BY <1>4, <1>5, <1>6 DEF TimersInv

LEMMA TimersNext == TimersInv /\ [NextTimers]_timerVars => TimersInv'
<1> SUFFICES ASSUME TimersInv, [NextTimers]_timerVars PROVE TimersInv'
  OBVIOUS
<1>1. CASE Tick
  <2>1. /\ clock' = clock + 1
        /\ age' = [t \in Timer |-> IF t \in queued THEN age[t] + 1 ELSE age[t]]
        /\ UNCHANGED <<queued, left, timeout, oneShot, known, backlog, posts, current>>
    BY <1>1 DEF Tick
  <2>2. TimersTypeOK' /\ NeverEarly'
    BY <2>1 DEF TimersInv, TimersTypeOK, NeverEarly
  <2>3. \A t \in queued : /\ timeout[t] \in Duration /\ left[t] - clock = timeout[t] - age[t]
                         /\ left[t] \in Int /\ timeout[t] \in Int /\ age[t] \in Int /\ clock \in Int
                         /\ age'[t] = age[t] + 1
    BY <2>1, Numbers DEF TimersInv, InStep, Remaining
  <2>4. InStep'
    BY <2>1, <2>3 DEF InStep, Remaining
  <2> QED BY <2>2, <2>4 DEF TimersInv
<1>2. CASE Post
  BY <1>2 DEF Post, TimersInv, TimersTypeOK, InStep, NeverEarly, Remaining
<1>3. ASSUME NEW t \in Timer, NEW d \in Duration, NEW once \in BOOLEAN, NewTimer(t, d, once)
      PROVE  TimersInv'
  <2>1. /\ known' = known \cup {t} /\ queued' = queued \cup {t}
        /\ left' = [left EXCEPT ![t] = d + clock] /\ timeout' = [timeout EXCEPT ![t] = d]
        /\ oneShot' \subseteq Timer /\ age' = [age EXCEPT ![t] = 0]
        /\ UNCHANGED <<clock, backlog, posts, current>>
    BY <1>3 DEF NewTimer, TimersInv, TimersTypeOK
  <2>2. d \in Nat
    BY Numbers DEF TimersInv
  <2>3. TimersTypeOK'
    BY <2>1, <2>2 DEF TimersInv, TimersTypeOK
  <2>4. InStep'
    BY <2>1, <2>2 DEF TimersInv, TimersTypeOK, InStep, Remaining
  <2> QED BY <2>1, <2>3, <2>4 DEF TimersInv, NeverEarly
<1>4. ASSUME NEW t \in Timer, DeleteTimer(t) PROVE TimersInv'
  BY <1>4 DEF DeleteTimer, TimersInv, TimersTypeOK, InStep, NeverEarly, Remaining
<1>5. CASE NoTimerExpired
  <2>1. /\ left' = CountDown /\ clock' = 0
        /\ UNCHANGED <<queued, timeout, oneShot, known, backlog, posts, current, age>>
    BY <1>5 DEF NoTimerExpired
  <2>2. TimersTypeOK' /\ NeverEarly'
    BY <2>1, CountDownExact DEF TimersInv, TimersTypeOK, NeverEarly
  <2>3. \A u \in queued : timeout[u] \in Int /\ age[u] \in Int
    BY Numbers DEF TimersInv
  <2>4. InStep'
    BY <2>1, <2>3, CountDownExact DEF TimersInv, InStep, Remaining
  <2> QED BY <2>2, <2>4 DEF TimersInv
<1>6. CASE TakeUserEvent
  BY <1>6 DEF TakeUserEvent, TimersInv, TimersTypeOK, InStep, NeverEarly, Remaining, User
<1>7. CASE DispatchReturns
  BY <1>7 DEF DispatchReturns, TimersInv, TimersTypeOK, InStep, NeverEarly, Remaining, None
<1>8. CASE UNCHANGED timerVars
  BY <1>8 DEF timerVars, TimersInv, TimersTypeOK, InStep, NeverEarly, Remaining
<1> QED BY <1>1, <1>2, <1>3, <1>4, <1>5, <1>6, <1>7, <1>8, TimerExpiresKeeps DEF NextTimers, LoopTurn

(* newTimer/newOneShotTimer/hasTimerExpired: however checks, creations and   *)
(* deletions interleave, no timer goes off before its duration has passed,   *)
(* and m_count is the number of whole durations that have.                   *)
THEOREM TimersNeverEarly == SpecTimers => [](TimersTypeOK /\ InStep /\ NeverEarly)
<1>1. TimersInv <=> TimersTypeOK /\ InStep /\ NeverEarly
  BY DEF TimersInv
<1> QED BY <1>1, TimersInit, TimersNext, PTL DEF SpecTimers

-----------------------------------------------------------------------------
(* Only timers that have not been deleted are counted down.                  *)
QueuedKnown == queued \subseteq known

LEMMA QueuedKnownNext == QueuedKnown /\ [NextTimers]_timerVars => QueuedKnown'
BY DEF QueuedKnown, NextTimers, LoopTurn, Tick, Post, NewTimer, DeleteTimer, NoTimerExpired,
       TimerExpires, TakeUserEvent, DispatchReturns, timerVars

(* The event dispatched changes to a timer's only when that timer goes off.  *)
LEMMA GoesOff ==
  ASSUME NextTimers, current'.kind = "timer", current # current'
  PROVE  \E t \in Timer : TimerExpires(t)
BY DEF NextTimers, LoopTurn, Tick, Post, NewTimer, DeleteTimer, NoTimerExpired, TakeUserEvent,
       DispatchReturns, None, User

(* deleteTimer, newOneShotTimer: whatever the order of expiry, creation and  *)
(* deletion, a deleted timer never goes off, a one-shot goes off once, and a *)
(* recurring one is put back.                                                *)
THEOREM TimersAreObeyed == SpecTimers => TimersObey
<1>1. InitTimers => QueuedKnown
  BY DEF InitTimers, QueuedKnown
<1>2. QueuedKnown /\ [NextTimers]_timerVars => [\A t \in Timer : TimerExpires(t) => t \in known]_timerVars
  BY DEF QueuedKnown, TimerExpires, Expired
<1>3. [NextTimers]_timerVars => [current'.kind = "timer" /\ current # current' =>
                       (current'.timer \in queued' <=> current'.timer \notin oneShot)]_timerVars
  <2>1. ASSUME NextTimers, current'.kind = "timer", current # current'
        PROVE  current'.timer \in queued' <=> current'.timer \notin oneShot
    <3>1. PICK t \in Timer : TimerExpires(t)
      BY <2>1, GoesOff
    <3>2. current'.timer = t
      BY <3>1 DEF TimerExpires, Fired
    <3> QED BY <3>1, <3>2 DEF TimerExpires, Expired
  <2> QED BY <2>1
<1> QED BY <1>1, <1>2, <1>3, QueuedKnownNext, PTL DEF SpecTimers, TimersObey, DeletedSilent, OneShotOnce
=============================================================================
