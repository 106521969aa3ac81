--------------------------- MODULE MCFileClipboard ---------------------------
(* Two computers, whose users do three things in all; the inbox is full with *)
(* one event.                                                                *)
EXTENDS FileClipboard
=============================================================================
