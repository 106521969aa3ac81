---------------------------- MODULE MCScreenLinks ----------------------------
(* Three screens of different sizes, the primary s1 and clients s2 and s3,   *)
(* and the links a configuration picks from: whole edges both ways, halves   *)
(* of them that overlap a whole one, a way around, and a ring of s2 and s3.  *)
EXTENDS ScreenLinks, TLC
CONSTANTS s1, s2, s3

Shapes == s1 :> [at |-> <<0, 0>>, size |-> <<3, 3>>]
       @@ s2 :> [at |-> <<-1, 0>>, size |-> <<2, 2>>]
       @@ s3 :> [at |-> <<0, 1>>, size |-> <<2, 4>>]

Joined(s, side, part, d, onto) ==
  [from |-> s, side |-> side, part |-> part, to |-> d, onto |-> onto]

Plain ==
  {Joined(s1, "right", <<0, 2>>, s2, <<0, 2>>), Joined(s2, "left", <<0, 2>>, s1, <<0, 2>>),
   Joined(s2, "right", <<0, 2>>, s3, <<0, 2>>), Joined(s3, "left", <<0, 2>>, s2, <<0, 2>>),
   Joined(s3, "right", <<0, 2>>, s1, <<0, 2>>), Joined(s1, "right", <<1, 2>>, s3, <<0, 1>>),
   Joined(s1, "up", <<0, 1>>, s3, <<0, 2>>), Joined(s3, "down", <<0, 2>>, s1, <<0, 1>>)}
Ringed == Plain \cup {Joined(s3, "right", <<0, 2>>, s2, <<0, 2>>)}

(* Along, across and askew; three pixels are more than a client is wide.     *)
Moves == {<<x, 0>> : x \in -3..3} \cup {<<0, y>> : y \in {-4, -2, -1, 1, 2, 4}}
           \cup ({-2, 2} \X {-2, 2})
=============================================================================
