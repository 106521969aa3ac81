--------------------------- MODULE MCServerScreens ---------------------------
(* Small instances of ServerScreens: screens 1 (the server), 2 and 3; 4 is   *)
(* an alias.  p1 and p2 claim the same screen, p3 the other one.             *)
EXTENDS ServerScreens

CONSTANTS p1, p2, p3

MCName == 1..4
MCNameOf == [s \in Screen |-> CASE s = Primary -> 1 [] s = p3 -> 3 [] OTHER -> 2]
MCNameOfAlias == [MCNameOf EXCEPT ![p2] = 4]

\* Screens 1, 2 and 3, with 4 an alias of 2.
AllScreens == <<1, 2, 3, 2>>
\* The same after screen 3 was deleted from the configuration.
NoThree    == <<1, 2, Null, 2>>
\* The same without screen 2 (nobody reports the alias then).
NoTwo      == <<1, Null, 3, Null>>
\* The configuration of another server: the primary is not in it.
NoPrimary  == <<Null, 2, 3, 2>>
\* The alias moved from screen 2 to screen 3.
AliasMoved == <<1, 2, 3, 3>>

Cfg(canon, wait, twoTap) ==
  [canon |-> canon, wait |-> wait, twoTap |-> twoTap, noLock |-> FALSE]

AtOnce    == {Cfg(AllScreens, FALSE, FALSE)}
Waiting   == {Cfg(AllScreens, TRUE, FALSE)}
Reloading == {Cfg(AllScreens, TRUE, TRUE), Cfg(NoTwo, FALSE, FALSE)}
\* A reload that gives no delay keeps the one there is.
Steady    == {Cfg(AllScreens, TRUE, FALSE), Cfg(NoThree, Null, Null), Cfg(NoPrimary, FALSE, TRUE)}
MovingAlias == {Cfg(AllScreens, FALSE, FALSE), Cfg(AliasMoved, FALSE, FALSE)}

Right == {"right"}
Bottom == {"bottom"}
=============================================================================
