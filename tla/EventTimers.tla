---------------------------- MODULE EventTimers ----------------------------
(***************************************************************************)
(* The timers of the event queue, engine/src/src/lib/base/EventQueue.cpp:  *)
(* m_timerQueue holds for each timer the time left as of the last check,   *)
(* m_time the time since that check.  A timer is looked at only while no   *)
(* event waits in the buffer.  Timers are created and deleted on the       *)
(* thread that runs the loop: at start-up, or by the handler of the event  *)
(* being dispatched.  Time is in ticks; "age" is the time a timer really   *)
(* has been waiting, which the code does not know.  The names differ from  *)
(* those of EventQueue, so that one module can extend both.                *)
(***************************************************************************)
EXTENDS Integers

CONSTANTS
  Timer,       \* EventQueueTimer objects
  Duration,    \* the durations asked for, in ticks
  MaxClock,    \* bound: ticks between two checks
  MaxAge,      \* bound: ticks a timer is watched for
  MaxBacklog,  \* bound: events waiting at once
  MaxPosts,    \* bound: events posted
  Endless      \* whether threads go on posting events for ever

ASSUME EventTimersAssumption ==
  /\ Duration \subseteq Nat \ {0}
  /\ MaxClock \in Nat /\ MaxAge \in Nat /\ MaxBacklog \in Nat /\ MaxPosts \in Nat
  /\ Endless \in BOOLEAN

VARIABLES
  clock,    \* m_time: ticks since the last check
  queued,   \* m_timerQueue: the timers that are counted down
  left,     \* the time left to each as of that check
  timeout,  \* the duration of each timer
  oneShot,  \* the one-shot timers
  known,    \* m_timers: created and not deleted
  backlog,  \* events waiting in the buffer
  posts,    \* events posted so far
  current,  \* the event being dispatched: none, user, or [timer, count, lasted, age]
  age       \* ticks since the timer was created or last fired

timerVars == <<clock, queued, left, timeout, oneShot, known, backlog, posts, current, age>>

None == [kind |-> "none"]
User == [kind |-> "user"]
Fired(t) ==
  [kind |-> "timer", timer |-> t, lasted |-> timeout[t], age |-> age[t],
   count |-> (timeout[t] - (left[t] - clock)) \div timeout[t]]

Remaining(t) == left[t] - clock

\* Mutant: a timer counts as expired one tick early.
ExpiredSoon(t) == t \in queued /\ Remaining(t) <= 1

Expired(t) == t \in queued /\ Remaining(t) <= 0

(* Start-up code runs on the same thread before the first event is taken.    *)
InitTimers ==
  /\ clock = 0 /\ queued = {} /\ left = [t \in Timer |-> 0]
  /\ timeout = [t \in Timer |-> 0] /\ oneShot = {} /\ known = {}
  /\ backlog = 0 /\ posts = 0 /\ current = User
  /\ age = [t \in Timer |-> 0]

-----------------------------------------------------------------------------
(* Time passes, whatever the loop is doing.                                  *)
Tick ==
  /\ clock < MaxClock /\ \A t \in queued : age[t] < MaxAge
  /\ clock' = clock + 1
  /\ age' = [t \in Timer |-> IF t \in queued THEN age[t] + 1 ELSE age[t]]
  /\ UNCHANGED <<queued, left, timeout, oneShot, known, backlog, posts, current>>

(* Some thread adds an event to the buffer.                                  *)
Post ==
  /\ backlog < MaxBacklog /\ (Endless \/ posts < MaxPosts)
  /\ backlog' = backlog + 1
  /\ posts' = IF Endless THEN posts ELSE posts + 1
  /\ UNCHANGED <<clock, queued, left, timeout, oneShot, known, current, age>>

\* Mutant: what is already on the clock is not added.
NewTimerBare(t, d, once) ==
  /\ current # None /\ t \notin known
  /\ known' = known \cup {t}
  /\ queued' = queued \cup {t} /\ left' = [left EXCEPT ![t] = d]
  /\ timeout' = [timeout EXCEPT ![t] = d]
  /\ oneShot' = IF once THEN oneShot \cup {t} ELSE oneShot \ {t}
  /\ age' = [age EXCEPT ![t] = 0]
  /\ UNCHANGED <<clock, backlog, posts, current>>

(* newTimer(), newOneShotTimer(): the time on the clock is added, for the    *)
(* next check will subtract it.                                              *)
NewTimer(t, d, once) ==
  /\ current # None /\ t \notin known
  /\ known' = known \cup {t}
  /\ queued' = queued \cup {t} /\ left' = [left EXCEPT ![t] = d + clock]
  /\ timeout' = [timeout EXCEPT ![t] = d]
  /\ oneShot' = IF once THEN oneShot \cup {t} ELSE oneShot \ {t}
  /\ age' = [age EXCEPT ![t] = 0]
  /\ UNCHANGED <<clock, backlog, posts, current>>

\* Mutant: the timer is forgotten but stays in the queue.
DeleteTimerQueued(t) ==
  /\ current # None /\ t \in known
  /\ known' = known \ {t}
  /\ UNCHANGED <<clock, queued, left, timeout, oneShot, backlog, posts, current, age>>

(* deleteTimer().                                                            *)
DeleteTimer(t) ==
  /\ current # None /\ t \in known
  /\ known' = known \ {t}
  /\ queued' = queued \ {t}
  /\ UNCHANGED <<clock, left, timeout, oneShot, backlog, posts, current, age>>

-----------------------------------------------------------------------------
(* The check.  Every queued timer is counted down and the clock restarted.   *)
CountDown == [t \in Timer |-> IF t \in queued THEN Remaining(t) ELSE left[t]]

\* Mutant: the clock is read but not reset.
NoTimerExpiredClockRuns ==
  /\ current = None /\ backlog = 0
  /\ queued # {} /\ \A t \in queued : Remaining(t) > 0
  /\ clock > 0
  /\ left' = CountDown /\ UNCHANGED clock
  /\ UNCHANGED <<queued, timeout, oneShot, known, backlog, posts, current, age>>

(* hasTimerExpired() with nothing expired; an empty queue is not even looked *)
(* at, so the clock runs on.                                                 *)
NoTimerExpired ==
  /\ current = None /\ backlog = 0
  /\ queued # {} /\ \A t \in queued : Remaining(t) > 0
  /\ clock > 0
  /\ left' = CountDown /\ clock' = 0
  /\ UNCHANGED <<queued, timeout, oneShot, known, backlog, posts, current, age>>

\* Mutant: the timer is put back whatever it is.
TimerExpiresAgain(t) ==
  /\ current = None /\ backlog = 0
  /\ Expired(t) /\ \A u \in queued : Remaining(t) <= Remaining(u)
  /\ left' = [CountDown EXCEPT ![t] = timeout[t]] /\ queued' = queued
  /\ clock' = 0
  /\ current' = Fired(t)
  /\ age' = [age EXCEPT ![t] = 0]
  /\ UNCHANGED <<timeout, oneShot, known, backlog, posts>>

(* hasTimerExpired(): the timer that is due first goes off, and is put back  *)
(* with its whole duration unless it is a one-shot.                          *)
TimerExpires(t) ==
  /\ current = None /\ backlog = 0
  /\ Expired(t) /\ \A u \in queued : Remaining(t) <= Remaining(u)
  /\ left' = [CountDown EXCEPT ![t] = timeout[t]]
  /\ queued' = IF t \in oneShot THEN queued \ {t} ELSE queued
  /\ clock' = 0
  /\ current' = Fired(t)
  /\ age' = [age EXCEPT ![t] = 0]
  /\ UNCHANGED <<timeout, oneShot, known, backlog, posts>>

\* Mutant: the buffer is not asked whether it is empty.
TakeUserEventUnasked ==
  /\ current = None
  /\ backlog' = backlog - 1 /\ current' = User
  /\ UNCHANGED <<clock, queued, left, timeout, oneShot, known, posts, age>>

\* Mutant: the event is read and stays in the buffer.
TakeUserEventPeeks ==
  /\ current = None /\ backlog > 0
  /\ current' = User
  /\ UNCHANGED <<clock, queued, left, timeout, oneShot, known, backlog, posts, age>>

(* processEvent() with an event in the buffer: no timer is looked at.        *)
TakeUserEvent ==
  /\ current = None /\ backlog > 0
  /\ backlog' = backlog - 1 /\ current' = User
  /\ UNCHANGED <<clock, queued, left, timeout, oneShot, known, posts, age>>

DispatchReturns ==
  /\ current # None
  /\ current' = None
  /\ UNCHANGED <<clock, queued, left, timeout, oneShot, known, backlog, posts, age>>

LoopTurn ==
  \/ NoTimerExpired
  \/ \E t \in Timer : TimerExpires(t)
  \/ TakeUserEvent
  \/ DispatchReturns

NextTimers ==
  \/ Tick \/ Post
  \/ \E t \in Timer, d \in Duration, once \in BOOLEAN : NewTimer(t, d, once)
  \/ \E t \in Timer : DeleteTimer(t)
  \/ LoopTurn

SpecTimers == InitTimers /\ [][NextTimers]_timerVars

(* The loop thread takes its next step, whichever event that is about, and   *)
(* threads that have something to post post it.                              *)
FairTimers == SpecTimers /\ WF_timerVars(LoopTurn) /\ WF_timerVars(Post)

-----------------------------------------------------------------------------
(* Every variable stays in the range its C++ member can hold. *)
TimersTypeOK ==
  /\ clock \in Nat /\ queued \subseteq Timer /\ left \in [Timer -> Int]
  /\ timeout \in [Timer -> Duration \cup {0}]
  /\ oneShot \subseteq Timer /\ known \subseteq Timer
  /\ backlog \in Nat /\ posts \in Nat
  /\ current \in {None, User} \cup
       [kind : {"timer"}, timer : Timer, lasted : Duration, count : Int, age : Nat]
  /\ age \in [Timer -> Nat]

(* newTimer/hasTimerExpired: whenever the clock was restarted in between,    *)
(* what is left of a queued timer is its duration less its age.              *)
InStep ==
  \A t \in queued : timeout[t] \in Duration /\ Remaining(t) = timeout[t] - age[t]

(* newTimer: "an event is returned after duration seconds", never earlier,   *)
(* and m_count is the number of whole durations that have passed.            *)
NeverEarly ==
  current.kind = "timer" =>
    current.age >= current.lasted /\ current.count = current.age \div current.lasted

(* deleteTimer: a deleted timer "will not generate event, even if the timer  *)
(* has expired".                                                             *)
DeletedSilent == [][\A t \in Timer : TimerExpires(t) => t \in known]_timerVars

(* newOneShotTimer: "the timer is removed from further handling" when it has *)
(* gone off, and a recurring one is not.                                     *)
OneShotOnce ==
  [][current'.kind = "timer" /\ current # current' =>
       (current'.timer \in queued' <=> current'.timer \notin oneShot)]_timerVars

(* Both: a timer goes off when it should and never after.                    *)
TimersObey == DeletedSilent /\ OneShotOnce

(* A timer that is due goes off or is deleted.                               *)
DueIsServed == \A t \in Timer : Expired(t) ~> ~Expired(t)

(* newOneShotTimer: "the c_count member of the TimerEvent is always 1".      *)
OneShotCount ==
  current.kind = "timer" /\ current.timer \in oneShot => current.count = 1
=============================================================================
