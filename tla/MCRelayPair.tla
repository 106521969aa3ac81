----------------------------- MODULE MCRelayPair -----------------------------
(* Small instances of RelayPair: a network that delivers before anybody      *)
(* retries or times out, and one that delivers late.                         *)
EXTENDS RelayPair

Network(prompt, n) == [prompt |-> prompt, faults |-> n]
EitherPace == {Network(TRUE, 3), Network(FALSE, 1)}
Hasty      == {Network(FALSE, 2)}
=============================================================================
