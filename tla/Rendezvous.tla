----------------------------- MODULE Rendezvous -----------------------------
(***************************************************************************)
(* What the relay and the relay program promise together: two devices meet *)
(* in sessions.  Device b begins a session and offers it, device a joins a *)
(* session only while it is offered, each session is joined at most once,  *)
(* and either device may leave at any moment.                              *)
(***************************************************************************)
CONSTANTS
  Session,  \* names of the sessions
  NoSession \* a device that is in no session

VARIABLES
  a, b,     \* the session each device is in
  offered   \* the sessions begun by b that a may still join

vars == <<a, b, offered>>

(* A device is in one session or in none, and only sessions are offered.    *)
TypeOK ==
  /\ a \in Session \cup {NoSession}
  /\ b \in Session \cup {NoSession}
  /\ offered \subseteq Session

Init ==
  /\ a = NoSession
  /\ b = NoSession
  /\ offered = {}

(* b begins a session that a neither is in nor could still join.            *)
Begin(s) ==
  /\ b = NoSession
  /\ a # s
  /\ s \notin offered
  /\ b' = s
  /\ offered' = offered \cup {s}
  /\ UNCHANGED a

(* a joins a session b has begun, which nobody can join again.              *)
Join(s) ==
  /\ a = NoSession
  /\ s \in offered
  /\ a' = s
  /\ offered' = offered \ {s}
  /\ UNCHANGED b

(* A device leaves, or offers are lost on their way.                        *)
Leave ==
  /\ a' \in {a, NoSession}
  /\ b' \in {b, NoSession}
  /\ offered' \subseteq offered

Next ==
  \/ \E s \in Session : Begin(s) \/ Join(s)
  \/ Leave

Spec == Init /\ [][Next]_vars
=============================================================================
