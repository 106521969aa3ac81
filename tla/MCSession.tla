------------------------------ MODULE MCSession ------------------------------
(* Small instances of Session: two servers in the list, of which only the    *)
(* second has the program running, at the second of its addresses.           *)
EXTENDS Session
OneServer    == <<1>>
AtFirst      == {<<0, 0>>}
TwoServers   == <<1, 2>>
AtSecond     == {<<1, 1>>}
Unavailable  == {"unavailable"}
Broken       == {"unavailable", "failure"}
=============================================================================
