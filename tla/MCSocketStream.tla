--------------------------- MODULE MCSocketStream ---------------------------
(* Two packets each way; a TLS record is larger than what the buffer takes   *)
(* beyond its limit.                                                         *)
EXTENDS SocketStream
=============================================================================
