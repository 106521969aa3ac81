----------------------------- MODULE MCFileDrag -----------------------------
(* Up to two peers; files of no piece or one, and a window of one chunk.     *)
EXTENDS FileDrag
CONSTANTS p1, p2, nameless
=============================================================================
