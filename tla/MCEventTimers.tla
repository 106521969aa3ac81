--------------------------- MODULE MCEventTimers ---------------------------
(* Small instances of EventTimers: two timers of one or two ticks.           *)
EXTENDS EventTimers

OneOrTwo == 1..2
JustOne == {1}
=============================================================================
