----------------------------- MODULE MCServerLife -----------------------------
(* Instances of ServerLife for TLC: clients c1 and c2 are model values.      *)
EXTENDS ServerLife
CONSTANTS c1, c2
OneClient  == {c1}
TwoClients == {c1, c2}
=============================================================================
