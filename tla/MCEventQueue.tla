---------------------------- MODULE MCEventQueue ----------------------------
(* Small instances of EventQueue: the main thread and a socket thread, the   *)
(* last event of the socket thread a Quit in the runs about shutting down.   *)
EXTENDS EventQueue

CONSTANTS main, sockets

MCQuitting == {[from |-> sockets, n |-> MaxEvents]}
MCImmediate == {[from |-> main, n |-> 1]}
None == {}
=============================================================================
