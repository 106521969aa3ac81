----------------------------- MODULE EventQueue -----------------------------
(***************************************************************************)
(* The event queue every component runs on, engine/src/src/lib/base/       *)
(* EventQueue.cpp with SimpleEventQueueBuffer.cpp: threads add events, the *)
(* main thread runs loop(), which dispatches them one by one.  addEvent()  *)
(* reads the ready flag and stores the event in two steps; an event goes   *)
(* to m_pending before the loop is ready and to the buffer afterwards.     *)
(* Timers are in EventTimers; the handler table is not modelled, a         *)
(* dispatch is the handler running.                                        *)
(***************************************************************************)
EXTENDS Integers, Sequences, FiniteSets

CONSTANTS
  Thread,      \* the threads that add events
  Main,        \* the one that also runs loop()
  MaxEvents,   \* events each thread adds
  Quitting,    \* the events of type Quit
  Immediate    \* the events flagged DeliverImmediately

Event == [from : Thread, n : 1..MaxEvents]
NoEvent == [from |-> Main, n |-> 0]
NoId == -1

ASSUME EventQueueAssumption ==
  /\ Main \in Thread /\ MaxEvents \in Nat
  /\ Quitting \subseteq Event /\ Immediate \subseteq Event

VARIABLES
  phase,     \* where the main thread is in loop()
  ready,     \* *m_readyCondVar
  pending,   \* m_pending
  saved,     \* m_events: id -> event
  freeIds,   \* m_oldEventIDs
  buffer,    \* m_queue of the buffer, ids, the oldest first
  popped,    \* the id the main thread has taken from the buffer
  added,     \* how many events each thread has added
  hand,      \* the event a thread is adding, with the flag it read
  handled,   \* the events dispatched so far
  early,     \* history: an event was added before loop() had taken m_pending
  dropped    \* the events discarded with a buffer, or refused by one

vars == <<phase, ready, pending, saved, freeIds, buffer, popped, added, hand, handled, early, dropped>>

Idle == [event |-> NoEvent, sawReady |-> FALSE]
Elements(s) == {s[i] : i \in 1..Len(s)}

Init ==
  /\ phase = "starting" /\ ready = FALSE /\ pending = <<>>
  /\ saved = [id \in {} |-> NoEvent] /\ freeIds = <<>> /\ buffer = <<>> /\ popped = NoId
  /\ added = [t \in Thread |-> 0] /\ hand = [t \in Thread |-> Idle]
  /\ handled = <<>> /\ early = FALSE /\ dropped = {}

-----------------------------------------------------------------------------
\* Mutant: ids are counted from the last one.
NewIdOffByOne ==
  IF freeIds # <<>> THEN freeIds[Len(freeIds)] ELSE Cardinality(DOMAIN saved) - 1

(* The table of saved events.  saveEvent() reuses the id freed last, or      *)
(* takes m_events.size().                                                    *)
NewId == IF freeIds # <<>> THEN freeIds[Len(freeIds)] ELSE Cardinality(DOMAIN saved)

(* addEventToBuffer(), one critical section: a buffer that refuses the id    *)
(* (a system buffer may) has the event removed and deleted again.            *)
AddEventToBuffer(e) ==
  LET id   == NewId
      rest == IF freeIds # <<>> THEN SubSeq(freeIds, 1, Len(freeIds) - 1) ELSE freeIds
  IN \/ /\ saved' = [i \in DOMAIN saved \cup {id} |-> IF i = id THEN e ELSE saved[i]]
        /\ freeIds' = rest
        /\ buffer' = Append(buffer, id)
        /\ UNCHANGED dropped
     \/ /\ freeIds' = Append(rest, id)
        /\ dropped' = dropped \cup {e}
        /\ UNCHANGED <<saved, buffer>>

(* removeEvent().                                                            *)
RemoveEvent(id) ==
  /\ saved' = [i \in DOMAIN saved \ {id} |-> saved[i]]
  /\ freeIds' = Append(freeIds, id)

-----------------------------------------------------------------------------
(* addEvent().  The main thread adds during start-up and from handlers.      *)
MayAdd(t) ==
  t = Main => phase \in {"starting", "dispatching"}

AddEvent(t) ==
  /\ MayAdd(t) /\ hand[t] = Idle /\ added[t] < MaxEvents
  /\ added' = [added EXCEPT ![t] = @ + 1]
  /\ early' = (early \/ phase \in {"starting", "draining"})
  /\ LET e == [from |-> t, n |-> added[t] + 1]
     IN IF e \in Immediate
        THEN handled' = Append(handled, e) /\ UNCHANGED hand
        ELSE hand' = [hand EXCEPT ![t] = [event |-> e, sawReady |-> ready]] /\ UNCHANGED handled
  /\ UNCHANGED <<phase, ready, pending, saved, freeIds, buffer, popped, dropped>>

\* Mutant: the early return after m_pending.push() is missing.
StoreEventTwice(t) ==
  /\ hand[t] # Idle
  /\ hand' = [hand EXCEPT ![t] = Idle]
  /\ IF hand[t].sawReady
     THEN AddEventToBuffer(hand[t].event)
     ELSE UNCHANGED <<saved, freeIds, buffer, dropped>>
  /\ pending' = Append(pending, hand[t].event)
  /\ UNCHANGED <<phase, ready, popped, added, handled, early>>

(* m_pending has no lock: a push that races the drain may be lost.           *)
StoreEvent(t) ==
  /\ hand[t] # Idle
  /\ hand' = [hand EXCEPT ![t] = Idle]
  /\ IF hand[t].sawReady
     THEN AddEventToBuffer(hand[t].event) /\ UNCHANGED pending
     ELSE /\ \/ pending' = Append(pending, hand[t].event)
             \/ phase = "draining" /\ UNCHANGED pending
          /\ UNCHANGED <<saved, freeIds, buffer, dropped>>
  /\ UNCHANGED <<phase, ready, popped, added, handled, early>>

-----------------------------------------------------------------------------
(* loop().                                                                   *)
\* Mutant: the ready flag is signalled but never set.
BecomeReadyUnset ==
  /\ phase = "starting" /\ hand[Main] = Idle
  /\ phase' = "draining" /\ ready' = FALSE
  /\ UNCHANGED <<pending, saved, freeIds, buffer, popped, added, hand, handled, dropped, early>>

BecomeReady ==
  /\ phase = "starting" /\ hand[Main] = Idle
  /\ phase' = "draining" /\ ready' = TRUE
  /\ UNCHANGED <<pending, saved, freeIds, buffer, popped, added, hand, handled, dropped, early>>

DrainPending ==
  /\ phase = "draining" /\ pending # <<>>
  /\ AddEventToBuffer(Head(pending))
  /\ pending' = Tail(pending)
  /\ UNCHANGED <<phase, ready, popped, added, hand, handled, early>>

DrainDone ==
  /\ phase = "draining" /\ pending = <<>>
  /\ phase' = "waiting"
  /\ UNCHANGED <<ready, pending, saved, freeIds, buffer, popped, added, hand, handled, dropped, early>>

\* Mutant: the newest id is taken.
GetEventNewest ==
  /\ phase = "waiting" /\ buffer # <<>>
  /\ popped' = buffer[Len(buffer)]
  /\ buffer' = SubSeq(buffer, 1, Len(buffer) - 1)
  /\ phase' = "taking"
  /\ UNCHANGED <<ready, pending, saved, freeIds, added, hand, handled, dropped, early>>

\* Mutant: the id is read and not taken.
GetEventPeeks ==
  /\ phase = "waiting" /\ buffer # <<>>
  /\ popped' = Head(buffer)
  /\ phase' = "taking"
  /\ UNCHANGED <<ready, pending, saved, freeIds, buffer, added, hand, handled, dropped, early>>

(* processEvent(): the buffer gives up an id under its own lock ...          *)
GetEvent ==
  /\ phase = "waiting" /\ buffer # <<>>
  /\ popped' = Head(buffer)
  /\ buffer' = Tail(buffer)
  /\ phase' = "taking"
  /\ UNCHANGED <<ready, pending, saved, freeIds, added, hand, handled, dropped, early>>

(* ... and the event is taken from the table under m_mutex afterwards.       *)
TakeEvent ==
  /\ phase = "taking"
  /\ RemoveEvent(popped)
  /\ popped' = NoId
  /\ handled' = Append(handled, saved[popped])
  /\ phase' = IF saved[popped] \in Quitting THEN "quit" ELSE "dispatching"
  /\ UNCHANGED <<ready, pending, buffer, added, hand, dropped, early>>

HandlerReturns ==
  /\ phase = "dispatching" /\ hand[Main] = Idle
  /\ phase' = "waiting"
  /\ UNCHANGED <<ready, pending, saved, freeIds, buffer, popped, added, hand, handled, dropped, early>>

\* Mutant: the free ids outlive the table they belong to.
AdoptBufferKeepsIds ==
  /\ phase \in {"starting", "dispatching"} /\ hand[Main] = Idle
  /\ dropped' = dropped \cup {saved[id] : id \in DOMAIN saved}
  /\ saved' = [id \in {} |-> NoEvent] /\ buffer' = <<>>
  /\ UNCHANGED <<phase, ready, pending, popped, added, hand, handled, freeIds, early>>

(* adoptBuffer(): a screen comes or goes, start-up or a handler replaces the *)
(* buffer; queued events are deleted, m_pending is kept.                     *)
AdoptBuffer ==
  /\ phase \in {"starting", "dispatching"} /\ hand[Main] = Idle
  /\ dropped' = dropped \cup {saved[id] : id \in DOMAIN saved}
  /\ saved' = [id \in {} |-> NoEvent] /\ freeIds' = <<>> /\ buffer' = <<>>
  /\ UNCHANGED <<phase, ready, pending, popped, added, hand, handled, early>>

LoopStep == BecomeReady \/ DrainPending \/ DrainDone \/ GetEvent \/ TakeEvent \/ HandlerReturns
Next ==
  \/ \E t \in Thread : AddEvent(t) \/ StoreEvent(t)
  \/ LoopStep
  \/ AdoptBuffer

Spec == Init /\ [][Next]_vars

(* Every thread is scheduled: the loop takes its next step, and a thread     *)
(* that is inside addEvent() leaves it.                                      *)
FairSpec == Spec /\ WF_vars(LoopStep) /\ \A t \in Thread : WF_vars(StoreEvent(t))

-----------------------------------------------------------------------------
Held == {hand[t].event : t \in Thread} \ {NoEvent}
Queued == Elements(pending) \cup {saved[id] : id \in DOMAIN saved}
Added == {e \in Event : e.n <= added[e.from]}

(* Every variable stays in the range its C++ member can hold. *)
TypeOK ==
  /\ phase \in {"starting", "draining", "waiting", "taking", "dispatching", "quit"}
  /\ ready \in BOOLEAN /\ pending \in Seq(Event)
  /\ DOMAIN saved \subseteq Nat /\ \A id \in DOMAIN saved : saved[id] \in Event
  /\ freeIds \in Seq(Nat) /\ buffer \in Seq(Nat) /\ popped \in Nat \cup {NoId}
  /\ added \in [Thread -> 0..MaxEvents]
  /\ hand \in [Thread -> {Idle} \cup [event : Event, sawReady : BOOLEAN]]
  /\ handled \in Seq(Event) /\ early \in BOOLEAN /\ dropped \subseteq Event

(* saveEvent: the id it chooses never belongs to a waiting event, whatever   *)
(* order ids were freed in, so no event overwrites another in m_events.      *)
FreshId == NewId \notin DOMAIN saved

(* Each id in the buffer, and the one taken from it, has its event, and no   *)
(* id is waiting twice: what addEvent stored is what getEvent returns.       *)
IdsMatch ==
  /\ DOMAIN saved = Elements(buffer) \cup ({popped} \ {NoId})
  /\ \A i, j \in 1..Len(buffer) : buffer[i] = buffer[j] => i = j
  /\ popped \notin Elements(buffer)

(* An event is in one place at a time: being added, queued, dispatched or    *)
(* discarded, so no handler sees it twice and none sees a deleted one.       *)
OnePlace ==
  /\ \A i, j \in 1..Len(handled) : handled[i] = handled[j] => i = j
  /\ Held \cap (Queued \cup Elements(handled) \cup dropped) = {}
  /\ Queued \cap (Elements(handled) \cup dropped) = {}
  /\ Elements(handled) \cap dropped = {}

(* IEventQueue::addEvent "adds event to the end of the queue": one thread's  *)
(* queued events are dispatched in the order it added them.                  *)
InOrder ==
  \A i, j \in 1..Len(handled) :
    (/\ i < j /\ handled[i].from = handled[j].from
     /\ handled[i] \notin Immediate /\ handled[j] \notin Immediate)
      => handled[i].n < handled[j].n

(* The same when nobody added an event before loop() had taken m_pending:    *)
(* the two-step addEvent() is harmless once the flag is set for good.        *)
LateInOrder == ~early => InOrder

(* Events are handled once, and those of a thread in order.                  *)
HandledOnce == OnePlace /\ LateInOrder

Reaches(e) == e \in Elements(handled) \cup dropped \/ phase = "quit"

(* An event that addEvent() has accepted reaches its handler, unless the     *)
(* loop quits or the event was discarded with its buffer.                    *)
EventReaches == \A e \in Event : e \in Added ~> Reaches(e)

(* The same when nobody added an event before loop() had taken m_pending.    *)
LateEventReaches == \A e \in Event : (e \in Added /\ ~early) ~> Reaches(e)

=============================================================================
