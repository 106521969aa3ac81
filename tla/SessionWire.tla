----------------------------- MODULE SessionWire -----------------------------
(***************************************************************************)
(* The connections between a client and the server, seen from outside the  *)
(* sockets (net/TCPSocket, net/SecureSocket): a connection is set up, each *)
(* direction is a FIFO of messages that ends with "eof" when the sender    *)
(* has closed, and a connection that is cut loses everything without a     *)
(* sign.  Names of connections are used again.                             *)
(***************************************************************************)
EXTENDS Integers, Sequences

CONSTANTS
  Conn,    \* connections, and the heap addresses of the client's streams
  None     \* no connection

ASSUME WireAssumption == None \notin Conn

VARIABLES
  net,     \* "none", "dialing", "nobody" (dialing where nobody listens),
           \* "accepted" (by the listening socket), "open", "cut"
  up,      \* messages to the server that have not been read
  down     \* messages to the client that have not been read

wire == <<net, up, down>>

ToServer == {"helloBack", "info", "eof"}
ToClient == {"hello", "queryInfo", "infoAck", "setOptions", "close", "busy", "eof"}
Stage    == {"none", "dialing", "nobody", "accepted", "open", "cut"}

WireTypeOK ==
  /\ net  \in [Conn -> Stage]
  /\ up   \in [Conn -> Seq(ToServer)]
  /\ down \in [Conn -> Seq(ToClient)]

WireInit ==
  /\ net  = [c \in Conn |-> "none"]
  /\ up   = [c \in Conn |-> <<>>]
  /\ down = [c \in Conn |-> <<>>]

(* What is written to a connection that is not open is lost.                *)
Written(q, c, msg) == IF net[c] = "open" THEN [q EXCEPT ![c] = Append(@, msg)] ELSE q
Spoken(q, c)       == q[c] # <<>> /\ Head(q[c]) # "eof"
Ended(q, c)        == q[c] # <<>> /\ Head(q[c]) = "eof"
=============================================================================
