------------------------- MODULE ServerScreens_proofs -------------------------
(***************************************************************************)
(* Proofs about ServerScreens, for every set of clients, names and         *)
(* configurations: type correctness, then the registry of connections,     *)
(* then the place of the cursor.                                           *)
(***************************************************************************)
EXTENDS ServerScreens, FiniteSetTheorems, TLAPS

-----------------------------------------------------------------------------
(* What the helpers on the pending switch return.                            *)

LEMMA StopSwitchType ==
  ASSUME NEW p \in PendingSwitch
  PROVE  StopSwitch(p) \in PendingSwitch
BY ScreensAssumption DEF StopSwitch, PendingSwitch, NoSwitchPending, NoDir

LEMMA NoSwitchType ==
  ASSUME NEW p \in PendingSwitch, NEW fast \in BOOLEAN, NEW away \in BOOLEAN
  PROVE  NoSwitch(p, fast, away) \in PendingSwitch
BY DEF NoSwitch, PendingSwitch

LEMMA IsSwitchOkayType ==
  ASSUME TypeOK, NEW p \in PendingSwitch, NEW dst \in Screen \cup {Null},
         NEW dir \in Direction, NEW in \in Inputs
  PROVE  /\ IsSwitchOkay(p, dst, dir, in).p \in PendingSwitch
         /\ IsSwitchOkay(p, dst, dir, in).ok => dst \in Screen
<1>1. CASE dst = Null
  BY <1>1, StopSwitchType DEF IsSwitchOkay
<1>2. CASE dst # Null
  <2> DEFINE newDir == dir # p.dir
             noted  == IF newDir \/ p.screen = Null
                       THEN [p EXCEPT !.dir = dir, !.screen = dst] ELSE p
             second == config.twoTap /\ ~newDir /\ p.tap = "armed" /\ in.fast
             tapped == IF config.twoTap /\ ~second
                       THEN [noted EXCEPT !.tap = "engaged"] ELSE noted
             timed  == IF config.wait /\ ~second /\ (newDir \/ ~p.waiting)
                       THEN [tapped EXCEPT !.waiting = TRUE, !.stray = dst # tapped.screen]
                       ELSE tapped
             later  == ~second /\ (config.twoTap \/ config.wait)
             stop   == in.at = "corner" \/ (~later /\ IsLockedToScreen(in.at = "held"))
  <2>1. noted \in PendingSwitch
    BY DEF PendingSwitch
  <2>2. tapped \in PendingSwitch
    <3> HIDE DEF noted, second
    <3> QED BY <2>1 DEF PendingSwitch
  <2>3. timed \in PendingSwitch
    <3> HIDE DEF tapped, second, newDir
    <3> QED BY <2>2 DEF PendingSwitch
  <2>4. IsSwitchOkay(p, dst, dir, in)
          = [ok |-> ~later /\ ~stop, p |-> IF stop THEN StopSwitch(timed) ELSE timed]
    BY <1>2 DEF IsSwitchOkay
  <2>5. StopSwitch(timed) \in PendingSwitch
    BY <2>3, StopSwitchType
  <2> HIDE DEF timed, stop, later
  <2> QED
    BY <1>2, <2>3, <2>4, <2>5
<1> QED BY <1>1, <1>2

-----------------------------------------------------------------------------
(* What the shared parts of the actions leave in the variables they set.     *)

LEMMA SwitchScreenType ==
  ASSUME TypeOK, NEW p \in PendingSwitch, NEW dst \in Screen,
         SwitchScreen(p, dst)
  PROVE  pending' \in PendingSwitch /\ active' \in Screen /\ entered' \subseteq Screen
BY StopSwitchType DEF SwitchScreen, TypeOK

LEMMA PendingAfterLeaveType ==
  ASSUME TypeOK, NEW gone
  PROVE  PendingAfterLeave(gone) \in PendingSwitch
BY StopSwitchType DEF PendingAfterLeave, TypeOK

LEMMA ForceLeaveType ==
  ASSUME TypeOK, NEW gone, ForceLeave(gone)
  PROVE  /\ active' \in Screen /\ entered' \subseteq Screen
         /\ saver' \in Screen \cup {Null} /\ told' \subseteq Screen
BY DEF ForceLeave, TypeOK, Screen

LEMMA RemoveClientsType ==
  ASSUME TypeOK, NEW c, NEW gone, RemoveClients(c, gone)
  PROVE  clients' \in [Name -> Screen \cup {Null}] /\ clientSet' \subseteq Screen
BY DEF RemoveClients, TypeOK

LEMMA CloseClientsType ==
  ASSUME TypeOK, NEW c, NEW gone, gone \subseteq Proxy, CloseClients(c, gone)
  PROVE  /\ clients' \in [Name -> Screen \cup {Null}] /\ clientSet' \subseteq Screen
         /\ oldClients' \subseteq Proxy
         /\ active' \in Screen /\ entered' \subseteq Screen
         /\ saver' \in Screen \cup {Null} /\ told' \subseteq Screen
<1>1. RemoveClients(c, gone) /\ ForceLeave(gone) /\ oldClients' = oldClients \cup gone
  BY DEF CloseClients
<1>2. oldClients' \subseteq Proxy
  BY <1>1 DEF TypeOK
<1> QED
  BY <1>1, <1>2, RemoveClientsType, ForceLeaveType

(* What processOptions() leaves: an option that is not given keeps its type. *)
LEMMA GivenType ==
  ASSUME NEW new \in BOOLEAN \cup {Null}, NEW old \in BOOLEAN
  PROVE  Given(new, old) \in BOOLEAN
BY DEF Given

LEMMA OptionsType ==
  ASSUME NEW c \in Configs, NEW old, old.wait \in BOOLEAN, old.twoTap \in BOOLEAN,
         old.noLock \in BOOLEAN
  PROVE  Options(c, old) \in [canon : [Name -> Name \cup {Null}], wait : BOOLEAN,
                              twoTap : BOOLEAN, noLock : BOOLEAN]
<1>1. /\ c.canon \in [Name -> Name \cup {Null}] /\ c.wait \in BOOLEAN \cup {Null}
      /\ c.twoTap \in BOOLEAN \cup {Null} /\ c.noLock \in BOOLEAN \cup {Null}
  BY ScreensAssumption
<1>2. /\ Given(c.wait, old.wait) \in BOOLEAN /\ Given(c.twoTap, old.twoTap) \in BOOLEAN
      /\ Given(c.noLock, old.noLock) \in BOOLEAN
  BY <1>1, GivenType
<1> QED BY <1>1, <1>2 DEF Options

LEMMA StopDelaysType ==
  ASSUME NEW c, NEW p \in PendingSwitch
  PROVE  /\ StopDelays(c, p) \in PendingSwitch
         /\ StopDelays(c, p).screen = p.screen
         /\ StopDelays(c, p).waiting => p.waiting
<1> DEFINE w == p.waiting /\ c.wait = Null
           t == p.stray /\ c.wait = Null
           z == IF c.twoTap = Null THEN p.tap ELSE "idle"
<1>1. w \in BOOLEAN /\ t \in BOOLEAN /\ z \in {"idle", "engaged", "armed"} /\ (w => p.waiting)
  BY DEF PendingSwitch
<1>2. StopDelays(c, p) = [p EXCEPT !.waiting = w, !.stray = t, !.tap = z]
  BY DEF StopDelays
<1> HIDE DEF w, t, z
<1> QED BY <1>1, <1>2 DEF PendingSwitch

(* The connected screens are screen objects.                                 *)
LEMMA ConnectedType ==
  ASSUME TypeOK
  PROVE  Connected \subseteq Screen
BY DEF Connected, TypeOK

(* A motion event or a hotkey: everything but the cursor is kept.            *)
LEMMA CursorOnlyType ==
  ASSUME TypeOK, OthersKept, pending' \in PendingSwitch, active' \in Screen,
         entered' \subseteq Screen
  PROVE  TypeOK'
BY DEF TypeOK, OthersKept, registry, saving

LEMMA EdgeOfPrimaryType ==
  ASSUME TypeOK, NEW dirh \in Horizontal \cup {NoDir}, NEW dirv \in Vertical \cup {NoDir},
         NEW in \in Inputs,
         EdgeOfPrimary(dirh, dirv, in)
  PROVE  TypeOK'
<1> PICK newh \in Neighbors(dirh), newv \in Neighbors(dirv) :
      LET h == IF dirh = NoDir THEN [ok |-> FALSE, p |-> pending]
               ELSE IsSwitchOkay(pending, newh, dirh, in)
          v == IF dirv = NoDir THEN [ok |-> FALSE, p |-> h.p]
               ELSE IsSwitchOkay(h.p, newv, dirv, in)
      IN \/ h.ok /\ SwitchScreen(h.p, newh)
         \/ ~h.ok /\ v.ok /\ SwitchScreen(v.p, newv)
         \/ ~h.ok /\ ~v.ok /\ pending' = v.p /\ UNCHANGED <<active, entered>>
  <2>1. Null \in Neighbors(dirv)
    BY DEF Neighbors
  <2> QED BY <2>1 DEF EdgeOfPrimary
<1> DEFINE h == IF dirh = NoDir THEN [ok |-> FALSE, p |-> pending]
                ELSE IsSwitchOkay(pending, newh, dirh, in)
           v == IF dirv = NoDir THEN [ok |-> FALSE, p |-> h.p]
                ELSE IsSwitchOkay(h.p, newv, dirv, in)
<1>1. newh \in Screen \cup {Null} /\ newv \in Screen \cup {Null}
  BY ConnectedType DEF Neighbors
<1>2. h.p \in PendingSwitch /\ (h.ok => newh \in Screen)
  <2>1. CASE dirh = NoDir
    BY <2>1 DEF TypeOK
  <2>2. CASE dirh # NoDir
    <3>1. pending \in PendingSwitch /\ dirh \in Direction
      BY <2>2 DEF TypeOK, Direction
    <3> QED BY <1>1, <2>2, <3>1, IsSwitchOkayType
  <2> QED BY <2>1, <2>2
<1>3. v.p \in PendingSwitch /\ (v.ok => newv \in Screen)
  <2> HIDE DEF h
  <2>1. CASE dirv = NoDir
    BY <1>2, <2>1
  <2>2. CASE dirv # NoDir
    <3>1. dirv \in Direction
      BY <2>2 DEF Direction
    <3> QED BY <1>1, <1>2, <2>2, <3>1, IsSwitchOkayType
  <2> QED BY <2>1, <2>2
<1>4. \/ h.ok /\ SwitchScreen(h.p, newh)
      \/ ~h.ok /\ v.ok /\ SwitchScreen(v.p, newv)
      \/ ~h.ok /\ ~v.ok /\ pending' = v.p /\ UNCHANGED <<active, entered>>
  OBVIOUS
<1>5. pending' \in PendingSwitch /\ active' \in Screen /\ entered' \subseteq Screen
  <2> HIDE DEF h, v
  <2>1. CASE h.ok /\ SwitchScreen(h.p, newh)
    BY <1>2, <2>1, SwitchScreenType
  <2>2. CASE ~h.ok /\ v.ok /\ SwitchScreen(v.p, newv)
    BY <1>3, <2>2, SwitchScreenType
  <2>3. CASE ~h.ok /\ ~v.ok /\ pending' = v.p /\ UNCHANGED <<active, entered>>
    BY <1>3, <2>3 DEF TypeOK
  <2> QED BY <1>4, <2>1, <2>2, <2>3
<1> QED
  BY <1>5, CursorOnlyType DEF EdgeOfPrimary

LEMMA EdgeOfSecondaryType ==
  ASSUME TypeOK, NEW dir \in Direction, NEW in \in Inputs, EdgeOfSecondary(dir, in)
  PROVE  TypeOK'
<1> PICK new \in Neighbors(dir) :
      LET r == IsSwitchOkay(pending, new, dir, in)
      IN IF r.ok THEN SwitchScreen(r.p, new)
         ELSE pending' = r.p /\ UNCHANGED <<active, entered>>
  BY DEF EdgeOfSecondary
<1> DEFINE r == IsSwitchOkay(pending, new, dir, in)
<1>1. pending \in PendingSwitch /\ new \in Screen \cup {Null}
  BY ConnectedType DEF Neighbors, TypeOK
<1>2. r.p \in PendingSwitch /\ (r.ok => new \in Screen)
  BY <1>1, IsSwitchOkayType
<1>3. IF r.ok THEN SwitchScreen(r.p, new)
      ELSE pending' = r.p /\ UNCHANGED <<active, entered>>
  OBVIOUS
<1>4. pending' \in PendingSwitch /\ active' \in Screen /\ entered' \subseteq Screen
  <2> HIDE DEF r
  <2> QED BY <1>2, <1>3, SwitchScreenType DEF TypeOK
<1> QED
  BY <1>4, CursorOnlyType DEF EdgeOfSecondary

-----------------------------------------------------------------------------
(* Every step keeps every variable in its type.                              *)

LEMMA ArrivalType ==
  ASSUME TypeOK, NEW p \in Proxy, AdoptClient(p)
  PROVE  TypeOK'
<1>1. /\ config' = config /\ locked' = locked /\ screenSaver' = screenSaver
      /\ stopping' = stopping /\ posted' = FALSE
      /\ heap' = [heap EXCEPT ![p] = "alive"]
  BY DEF AdoptClient
<1>2. CASE IsScreen(config, NameOf[p]) /\ clients[GetName(p)] = Null
  <2>1. /\ clients' = [clients EXCEPT ![GetName(p)] = p]
        /\ clientSet' = clientSet \cup {p}
        /\ told' = IF saver # Null THEN told \cup {p} ELSE told
        /\ UNCHANGED <<oldClients, active, entered, pending, saver>>
    BY <1>2 DEF AdoptClient, cursor
  <2> QED
    BY <1>1, <2>1 DEF TypeOK, Screen
<1>3. CASE ~(IsScreen(config, NameOf[p]) /\ clients[GetName(p)] = Null)
  <2>1. CloseClients(config, {p}) /\ pending' = PendingAfterLeave({p})
    BY <1>3 DEF AdoptClient
  <2>2. /\ clients' \in [Name -> Screen \cup {Null}] /\ clientSet' \subseteq Screen
        /\ oldClients' \subseteq Proxy
        /\ active' \in Screen /\ entered' \subseteq Screen
        /\ saver' \in Screen \cup {Null} /\ told' \subseteq Screen
    BY <2>1, CloseClientsType
  <2>3. pending' \in PendingSwitch
    BY <2>1, PendingAfterLeaveType
  <2> QED
    BY <1>1, <2>2, <2>3 DEF TypeOK
<1> QED BY <1>2, <1>3

LEMMA HangUpType ==
  ASSUME TypeOK, NEW p \in Proxy, ClientDisconnected(p)
  PROVE  TypeOK'
<1>1. /\ UNCHANGED <<config, screenSaver, stopping, locked>>
      /\ oldClients' = oldClients \ {p}
      /\ heap' = [heap EXCEPT ![p] = "freed"]
      /\ posted' = (posted \/ LastOneOut)
  BY DEF ClientDisconnected
<1>2. posted' \in BOOLEAN
  BY <1>1 DEF TypeOK, LastOneOut
<1>3. CASE p \in clientSet
  <2>1. RemoveClients(config, {p}) /\ ForceLeave({p}) /\ pending' = PendingAfterLeave({p})
    BY <1>3 DEF ClientDisconnected
  <2> QED
    BY <1>1, <1>2, <2>1, RemoveClientsType, ForceLeaveType, PendingAfterLeaveType DEF TypeOK
<1>4. CASE p \notin clientSet
  <2>1. UNCHANGED <<clients, clientSet, active, entered, pending, saver, told>>
    BY <1>4 DEF ClientDisconnected, cursor
  <2> QED
    BY <1>1, <1>2, <2>1 DEF TypeOK
<1> QED BY <1>3, <1>4

LEMMA CloseTimeoutType ==
  ASSUME TypeOK, NEW p \in Proxy, ClientCloseTimeout(p)
  PROVE  TypeOK'
<1>1. posted' \in BOOLEAN
  BY DEF ClientCloseTimeout, TypeOK, LastOneOut
<1> QED
  BY <1>1 DEF ClientCloseTimeout, TypeOK, cursor, saving

LEMMA DisconnectType ==
  ASSUME TypeOK, Disconnect
  PROVE  TypeOK'
<1>1. stopping' = TRUE /\ UNCHANGED <<config, heap, screenSaver, locked>>
  BY DEF Disconnect
<1>2. CASE Cardinality({n \in Name : clients[n] # Null}) > 1 \/ oldClients # {}
  <2>1. /\ CloseClients(config, Connected \ {Primary})
        /\ pending' = PendingAfterLeave(Connected \ {Primary})
        /\ UNCHANGED posted
    BY <1>2 DEF Disconnect
  <2>2. Connected \ {Primary} \subseteq Proxy
    BY ConnectedType DEF Screen
  <2> QED
    BY <1>1, <2>1, <2>2, CloseClientsType, PendingAfterLeaveType DEF TypeOK
<1>3. CASE ~(Cardinality({n \in Name : clients[n] # Null}) > 1 \/ oldClients # {})
  <2>1. posted' = TRUE /\ NobodyLeaves
    BY <1>3 DEF Disconnect
  <2> QED
    BY <1>1, <2>1 DEF TypeOK, NobodyLeaves, cursor
<1> QED BY <1>2, <1>3

LEMMA SetConfigType ==
  ASSUME TypeOK, NEW c \in Configs, SetConfig(c)
  PROVE  TypeOK'
<1> DEFINE gone == {clients[n] : n \in {m \in Name : ~IsCanonicalName(c, m)}} \ {Null, Primary}
<1>1. UNCHANGED <<heap, posted, stopping, screenSaver, locked>>
  BY DEF SetConfig
<1>2. CASE IsScreen(c, NameOf[Primary])
  <2>1. /\ config' = Options(c, config) /\ CloseClients(c, gone)
        /\ pending' = StopDelays(c, PendingAfterLeave(gone))
    BY <1>2 DEF SetConfig
  <2>2. gone \subseteq Proxy
    BY DEF TypeOK, Screen
  <2>3. /\ clients' \in [Name -> Screen \cup {Null}] /\ clientSet' \subseteq Screen
        /\ oldClients' \subseteq Proxy
        /\ active' \in Screen /\ entered' \subseteq Screen
        /\ saver' \in Screen \cup {Null} /\ told' \subseteq Screen
    <3> HIDE DEF gone
    <3> QED BY <2>1, <2>2, CloseClientsType
  <2>4. pending' \in PendingSwitch
    <3> HIDE DEF gone
    <3>1. PendingAfterLeave(gone) \in PendingSwitch
      BY PendingAfterLeaveType
    <3> QED BY <2>1, <3>1, StopDelaysType
  <2>5. config' \in [canon : [Name -> Name \cup {Null}], wait : BOOLEAN,
                     twoTap : BOOLEAN, noLock : BOOLEAN]
    BY <2>1, OptionsType DEF TypeOK
  <2> QED
    BY <1>1, <2>3, <2>4, <2>5 DEF TypeOK
<1>3. CASE ~IsScreen(c, NameOf[Primary])
  <2>1. config' = [config EXCEPT !.canon = c.canon] /\ NobodyLeaves
    BY <1>3 DEF SetConfig
  <2>2. config' \in [canon : [Name -> Name \cup {Null}], wait : BOOLEAN,
                     twoTap : BOOLEAN, noLock : BOOLEAN]
    BY <2>1, ScreensAssumption DEF TypeOK
  <2> QED
    BY <1>1, <2>1, <2>2 DEF TypeOK, NobodyLeaves, cursor
<1> QED BY <1>2, <1>3

LEMMA MotionType ==
  ASSUME TypeOK, Motion
  PROVE  TypeOK'
<1>1. ASSUME NEW fast \in BOOLEAN, NEW away \in BOOLEAN,
             MoveOnPrimary(fast, away) \/ MoveOnSecondary(fast, away)
      PROVE  TypeOK'
  <2>1. pending' \in PendingSwitch
    BY <1>1, NoSwitchType DEF MoveOnPrimary, MoveOnSecondary, TypeOK
  <2> QED
    BY <1>1, <2>1, CursorOnlyType DEF MoveOnPrimary, MoveOnSecondary, TypeOK
<1> QED
  BY <1>1, EdgeOfPrimaryType, EdgeOfSecondaryType DEF Motion, InTime

LEMMA TimeoutType ==
  ASSUME TypeOK, WaitHasTarget, Timeout
  PROVE  TypeOK'
<1> PICK held \in BOOLEAN : SwitchWaitTimeout(held)
  BY DEF Timeout
<1>1. pending.screen \in Screen
  BY DEF SwitchWaitTimeout, WaitHasTarget, TypeOK, PendingSwitch
<1>2. pending' \in PendingSwitch /\ active' \in Screen /\ entered' \subseteq Screen
  BY <1>1, StopSwitchType, SwitchScreenType DEF SwitchWaitTimeout, TypeOK
<1> QED
  BY <1>2, CursorOnlyType DEF SwitchWaitTimeout

LEMMA HotkeyType ==
  ASSUME TypeOK, Hotkeys
  PROVE  TypeOK'
<1>1. ASSUME NEW dst \in Screen, JumpToScreen(dst)
      PROVE  TypeOK'
  <2>1. pending' \in PendingSwitch /\ active' \in Screen /\ entered' \subseteq Screen
    BY <1>1, SwitchScreenType DEF JumpToScreen, TypeOK
  <2> QED
    BY <1>1, <2>1, CursorOnlyType DEF JumpToScreen
<1>2. CASE ToggleScreen
  <2>1. PICK n \in Name : clients[n] # Null /\ SwitchScreen(pending, clients[n])
    BY <1>2 DEF ToggleScreen
  <2>2. clients[n] \in Screen
    BY <2>1 DEF TypeOK
  <2>3. pending' \in PendingSwitch /\ active' \in Screen /\ entered' \subseteq Screen
    BY <2>1, <2>2, SwitchScreenType DEF TypeOK
  <2> QED
    BY <1>2, <2>3, CursorOnlyType DEF ToggleScreen
<1>3. CASE LockCursorToScreen
  BY <1>3 DEF LockCursorToScreen, TypeOK, registry, cursor, saving
<1> QED BY <1>1, <1>2, <1>3 DEF Hotkeys

LEMMA SaverType ==
  ASSUME TypeOK, Saver
  PROVE  TypeOK'
<1>1. CASE SaverActivated
  <2>1. pending' \in PendingSwitch /\ active' \in Screen /\ entered' \subseteq Screen
    <3>1. CASE active # Primary
      BY <1>1, <3>1, SwitchScreenType DEF SaverActivated, TypeOK, Screen
    <3>2. CASE active = Primary
      BY <1>1, <3>2 DEF SaverActivated, TypeOK, cursor
    <3> QED BY <3>1, <3>2
  <2> QED
    BY <1>1, <2>1, ConnectedType DEF SaverActivated, TypeOK, registry
<1>2. CASE SaverDeactivated
  <2>1. pending' \in PendingSwitch /\ active' \in Screen /\ entered' \subseteq Screen
    <3>1. CASE saver \notin {Null, Primary}
      BY <1>2, <3>1, SwitchScreenType DEF SaverDeactivated, TypeOK
    <3>2. CASE saver \in {Null, Primary}
      BY <1>2, <3>2 DEF SaverDeactivated, TypeOK, cursor
    <3> QED BY <3>1, <3>2
  <2> QED
    BY <1>2, <2>1 DEF SaverDeactivated, TypeOK, registry
<1> QED BY <1>1, <1>2 DEF Saver

-----------------------------------------------------------------------------
(* Where the cursor and the pending switch can point.  S is a set of screens *)
(* that holds every target the handlers choose: all screens for the wait     *)
(* timer's target, the connected ones for the place of the cursor.           *)

Within(p, S) == p.screen \in S \cup {Null} /\ (p.waiting => p.screen # Null)

LEMMA StopSwitchWithin ==
  ASSUME NEW p, NEW S, Within(p, S)
  PROVE  Within(StopSwitch(p), S)
BY DEF Within, StopSwitch, NoSwitchPending

LEMMA NoSwitchWithin ==
  ASSUME NEW p \in PendingSwitch, NEW S, Within(p, S),
         NEW fast \in BOOLEAN, NEW away \in BOOLEAN
  PROVE  Within(NoSwitch(p, fast, away), S)
BY DEF Within, NoSwitch, PendingSwitch

LEMMA IsSwitchOkayWithin ==
  ASSUME TypeOK, NEW S, S \subseteq Screen, NEW p \in PendingSwitch, Within(p, S),
         NEW dst \in S \cup {Null},
         NEW dir \in Direction, NEW in \in Inputs
  PROVE  /\ Within(IsSwitchOkay(p, dst, dir, in).p, S)
         /\ IsSwitchOkay(p, dst, dir, in).ok => dst # Null
<1>1. CASE dst = Null
  BY <1>1, StopSwitchWithin DEF IsSwitchOkay
<1>2. CASE dst # Null
  <2> DEFINE newDir == dir # p.dir
             noted  == IF newDir \/ p.screen = Null
                       THEN [p EXCEPT !.dir = dir, !.screen = dst] ELSE p
             second == config.twoTap /\ ~newDir /\ p.tap = "armed" /\ in.fast
             tapped == IF config.twoTap /\ ~second
                       THEN [noted EXCEPT !.tap = "engaged"] ELSE noted
             timed  == IF config.wait /\ ~second /\ (newDir \/ ~p.waiting)
                       THEN [tapped EXCEPT !.waiting = TRUE, !.stray = dst # tapped.screen]
                       ELSE tapped
             later  == ~second /\ (config.twoTap \/ config.wait)
             stop   == in.at = "corner" \/ (~later /\ IsLockedToScreen(in.at = "held"))
  <2>1. noted \in PendingSwitch /\ noted.screen \in S /\ noted.screen # Null
    BY <1>2 DEF PendingSwitch, Within
  <2>2. tapped \in PendingSwitch /\ tapped.screen = noted.screen
    <3> HIDE DEF noted, second
    <3> QED BY <2>1 DEF PendingSwitch
  <2>3. timed.screen = noted.screen
    <3> HIDE DEF tapped, second, newDir, noted
    <3> QED BY <2>2 DEF PendingSwitch
  <2>4. IsSwitchOkay(p, dst, dir, in)
          = [ok |-> ~later /\ ~stop, p |-> IF stop THEN StopSwitch(timed) ELSE timed]
    BY <1>2 DEF IsSwitchOkay
  <2> HIDE DEF timed, stop, later, noted
  <2>5. Within(timed, S)
    BY <2>1, <2>3 DEF Within
  <2>6. Within(StopSwitch(timed), S)
    BY <2>5, StopSwitchWithin
  <2> QED
    BY <1>2, <2>4, <2>5, <2>6
<1> QED BY <1>1, <1>2

(* One switch of the cursor, or none: the old screen is left as the new one  *)
(* is entered.                                                               *)
CursorWithin(S) ==
  /\ active' \in S \/ active' = active
  /\ Within(pending', S)
  /\ \/ UNCHANGED <<active, entered>>
     \/ entered' = (entered \ {active}) \cup {active'}

LEMMA SwitchScreenWithin ==
  ASSUME NEW S, NEW p, Within(p, S), NEW dst \in S,
         SwitchScreen(p, dst)
  PROVE  CursorWithin(S)
BY StopSwitchWithin DEF SwitchScreen, CursorWithin

LEMMA EdgeOfPrimaryWithin ==
  ASSUME TypeOK, NEW S, S \subseteq Screen, Connected \subseteq S, Within(pending, S),
         NEW dirh \in Horizontal \cup {NoDir}, NEW dirv \in Vertical \cup {NoDir},
         NEW in \in Inputs,
         EdgeOfPrimary(dirh, dirv, in)
  PROVE  CursorWithin(S)
<1> PICK newh \in Neighbors(dirh), newv \in Neighbors(dirv) :
      LET h == IF dirh = NoDir THEN [ok |-> FALSE, p |-> pending]
               ELSE IsSwitchOkay(pending, newh, dirh, in)
          v == IF dirv = NoDir THEN [ok |-> FALSE, p |-> h.p]
               ELSE IsSwitchOkay(h.p, newv, dirv, in)
      IN \/ h.ok /\ SwitchScreen(h.p, newh)
         \/ ~h.ok /\ v.ok /\ SwitchScreen(v.p, newv)
         \/ ~h.ok /\ ~v.ok /\ pending' = v.p /\ UNCHANGED <<active, entered>>
  <2>1. Null \in Neighbors(dirv)
    BY DEF Neighbors
  <2> QED BY <2>1 DEF EdgeOfPrimary
<1> DEFINE h == IF dirh = NoDir THEN [ok |-> FALSE, p |-> pending]
                ELSE IsSwitchOkay(pending, newh, dirh, in)
           v == IF dirv = NoDir THEN [ok |-> FALSE, p |-> h.p]
                ELSE IsSwitchOkay(h.p, newv, dirv, in)
<1>1. newh \in S \cup {Null} /\ newv \in S \cup {Null}
  BY DEF Neighbors
<1>2. newh \in Screen \cup {Null} /\ newv \in Screen \cup {Null}
  BY ConnectedType DEF Neighbors
<1>3. h.p \in PendingSwitch /\ Within(h.p, S) /\ (h.ok => newh \in S)
  <2>1. CASE dirh = NoDir
    BY <2>1 DEF TypeOK
  <2>2. CASE dirh # NoDir
    <3>1. pending \in PendingSwitch /\ dirh \in Direction
      BY <2>2 DEF TypeOK, Direction
    <3> QED BY <1>1, <1>2, <2>2, <3>1, IsSwitchOkayType, IsSwitchOkayWithin
  <2> QED BY <2>1, <2>2
<1>4. Within(v.p, S) /\ (v.ok => newv \in S)
  <2> HIDE DEF h
  <2>1. CASE dirv = NoDir
    BY <1>3, <2>1
  <2>2. CASE dirv # NoDir
    <3>1. dirv \in Direction
      BY <2>2 DEF Direction
    <3> QED BY <1>1, <1>3, <2>2, <3>1, IsSwitchOkayWithin
  <2> QED BY <2>1, <2>2
<1>5. \/ h.ok /\ SwitchScreen(h.p, newh)
      \/ ~h.ok /\ v.ok /\ SwitchScreen(v.p, newv)
      \/ ~h.ok /\ ~v.ok /\ pending' = v.p /\ UNCHANGED <<active, entered>>
  OBVIOUS
<1> HIDE DEF h, v
<1>6. CASE h.ok /\ SwitchScreen(h.p, newh)
  BY <1>3, <1>6, SwitchScreenWithin
<1>7. CASE ~h.ok /\ v.ok /\ SwitchScreen(v.p, newv)
  BY <1>4, <1>7, SwitchScreenWithin
<1>8. CASE ~h.ok /\ ~v.ok /\ pending' = v.p /\ UNCHANGED <<active, entered>>
  BY <1>4, <1>8 DEF CursorWithin
<1> QED BY <1>5, <1>6, <1>7, <1>8

LEMMA EdgeOfSecondaryWithin ==
  ASSUME TypeOK, NEW S, S \subseteq Screen, Connected \subseteq S, Within(pending, S),
         NEW dir \in Direction, NEW in \in Inputs, EdgeOfSecondary(dir, in)
  PROVE  CursorWithin(S)
<1> PICK new \in Neighbors(dir) :
      LET r == IsSwitchOkay(pending, new, dir, in)
      IN IF r.ok THEN SwitchScreen(r.p, new)
         ELSE pending' = r.p /\ UNCHANGED <<active, entered>>
  BY DEF EdgeOfSecondary
<1> DEFINE r == IsSwitchOkay(pending, new, dir, in)
<1>1. new \in S \cup {Null} /\ pending \in PendingSwitch
  BY DEF Neighbors, TypeOK
<1>2. Within(r.p, S) /\ (r.ok => new \in S)
  BY <1>1, IsSwitchOkayWithin
<1>3. IF r.ok THEN SwitchScreen(r.p, new)
      ELSE pending' = r.p /\ UNCHANGED <<active, entered>>
  OBVIOUS
<1> HIDE DEF r
<1>4. CASE r.ok
  BY <1>2, <1>3, <1>4, SwitchScreenWithin
<1>5. CASE ~r.ok
  BY <1>2, <1>3, <1>5 DEF CursorWithin
<1> QED BY <1>4, <1>5

(* A handler that only moves the cursor leaves it, and the pending switch,   *)
(* among the screens of S.                                                   *)
LEMMA CursorStepWithin ==
  ASSUME TypeOK, NEW S, S \subseteq Screen, Connected \subseteq S, Within(pending, S),
         Motion \/ Timeout \/ Hotkeys
  PROVE  CursorWithin(S)
<1>1. ASSUME NEW fast \in BOOLEAN, NEW away \in BOOLEAN,
             MoveOnPrimary(fast, away) \/ MoveOnSecondary(fast, away)
      PROVE  CursorWithin(S)
  <2>1. pending \in PendingSwitch
    BY DEF TypeOK
  <2> QED
    BY <1>1, <2>1, NoSwitchWithin DEF MoveOnPrimary, MoveOnSecondary, CursorWithin
<1>2. CASE Motion
  BY <1>1, <1>2, EdgeOfPrimaryWithin, EdgeOfSecondaryWithin DEF Motion, InTime
<1>3. CASE Timeout
  <2> PICK held \in BOOLEAN : SwitchWaitTimeout(held)
    BY <1>3 DEF Timeout
  <2>1. CASE IsLockedToScreen(held)
    BY <2>1, StopSwitchWithin DEF SwitchWaitTimeout, CursorWithin
  <2>2. CASE ~IsLockedToScreen(held)
    <3>1. pending.screen \in S
      BY DEF SwitchWaitTimeout, Within
    <3> QED BY <2>2, <3>1, SwitchScreenWithin DEF SwitchWaitTimeout
  <2> QED BY <2>1, <2>2
<1>4. CASE Hotkeys
  <2>1. ASSUME NEW dst \in Screen, JumpToScreen(dst)
        PROVE  CursorWithin(S)
    BY <2>1, SwitchScreenWithin DEF JumpToScreen
  <2>2. CASE ToggleScreen
    <3>1. PICK n \in Name : clients[n] # Null /\ SwitchScreen(pending, clients[n])
      BY <2>2 DEF ToggleScreen
    <3>2. clients[n] \in S
      BY <3>1 DEF Connected
    <3> QED BY <3>1, <3>2, SwitchScreenWithin
  <2>3. CASE LockCursorToScreen
    BY <2>3 DEF LockCursorToScreen, cursor, CursorWithin, Within
  <2> QED BY <1>4, <2>1, <2>2, <2>3 DEF Hotkeys
<1> QED BY <1>2, <1>3, <1>4

LEMMA PendingAfterLeaveWithin ==
  ASSUME NEW S, NEW gone, Within(pending, S)
  PROVE  Within(PendingAfterLeave(gone), S)
BY StopSwitchWithin DEF PendingAfterLeave
-----------------------------------------------------------------------------
(* Type correctness.  TypeOK alone is not inductive: a wait timer without a  *)
(* target would send switchScreen() to nullptr.                              *)

Typed == TypeOK /\ WaitHasTarget

LEMMA TypedInit == Init => Typed
<1> SUFFICES ASSUME Init PROVE Typed
  OBVIOUS
<1>1. config \in [canon : [Name -> Name \cup {Null}], wait : BOOLEAN,
                  twoTap : BOOLEAN, noLock : BOOLEAN]
  <2>1. PICK c \in Configs : config = Options(c, NoOptions)
    BY DEF Init
  <2>2. /\ NoOptions.wait \in BOOLEAN /\ NoOptions.twoTap \in BOOLEAN
        /\ NoOptions.noLock \in BOOLEAN
    BY DEF NoOptions
  <2> QED BY <2>1, <2>2, OptionsType
<1>2. clients \in [Name -> Screen \cup {Null}] /\ heap \in [Proxy -> {"unborn", "alive", "freed"}]
  BY DEF Init, Screen
<1>3. pending \in PendingSwitch /\ WaitHasTarget
  BY DEF Init, PendingSwitch, NoSwitchPending, WaitHasTarget
<1> QED BY <1>1, <1>2, <1>3 DEF Init, TypeOK, Typed, Screen

LEMMA TypedNext == Typed /\ [Next]_vars => Typed'
<1> SUFFICES ASSUME Typed, [Next]_vars PROVE Typed'
  OBVIOUS
<1> USE DEF Typed
<1>0. Within(pending, Screen)
  BY DEF WaitHasTarget, Within, TypeOK, PendingSwitch
<1>1. CASE Arrivals
  <2> PICK p \in Proxy : AdoptClient(p)
    BY <1>1 DEF Arrivals
  <2>1. pending' = pending \/ pending' = PendingAfterLeave({p})
    BY DEF AdoptClient, cursor
  <2>2. Within(pending', Screen)
    BY <1>0, <2>1, PendingAfterLeaveWithin
  <2> QED BY <2>2, ArrivalType DEF Within, WaitHasTarget
<1>2. CASE Departures
  <2>1. ASSUME NEW p \in Proxy, ClientDisconnected(p) PROVE Typed'
    <3>1. pending' = pending \/ pending' = PendingAfterLeave({p})
      BY <2>1 DEF ClientDisconnected, cursor
    <3>2. Within(pending', Screen)
      BY <1>0, <3>1, PendingAfterLeaveWithin
    <3> QED BY <2>1, <3>2, HangUpType DEF Within, WaitHasTarget
  <2>2. ASSUME NEW p \in Proxy, ClientCloseTimeout(p) PROVE Typed'
    BY <2>2, CloseTimeoutType DEF ClientCloseTimeout, cursor, WaitHasTarget
  <2>3. CASE Disconnect
    <3>1. pending' = pending \/ pending' = PendingAfterLeave(Connected \ {Primary})
      BY <2>3 DEF Disconnect, NobodyLeaves, cursor
    <3>2. Within(pending', Screen)
      BY <1>0, <3>1, PendingAfterLeaveWithin
    <3> QED BY <2>3, <3>2, DisconnectType DEF Within, WaitHasTarget
  <2> QED BY <1>2, <2>1, <2>2, <2>3 DEF Departures
<1>3. CASE Reload
  <2> PICK c \in Configs : SetConfig(c)
    BY <1>3 DEF Reload
  <2>1. TypeOK'
    BY SetConfigType
  <2>2. WaitHasTarget'
    <3>1. CASE IsScreen(c, NameOf[Primary])
      <4>1. PICK gone : pending' = StopDelays(c, PendingAfterLeave(gone))
        BY <3>1 DEF SetConfig
      <4>2. PendingAfterLeave(gone) \in PendingSwitch /\ Within(PendingAfterLeave(gone), Screen)
        BY <1>0, PendingAfterLeaveType, PendingAfterLeaveWithin
      <4>3. /\ pending'.screen = PendingAfterLeave(gone).screen
            /\ pending'.waiting => PendingAfterLeave(gone).waiting
        BY <4>1, <4>2, StopDelaysType
      <4> QED BY <4>2, <4>3 DEF WaitHasTarget, Within
    <3>2. CASE ~IsScreen(c, NameOf[Primary])
      BY <3>2 DEF SetConfig, NobodyLeaves, cursor, WaitHasTarget
    <3> QED BY <3>1, <3>2
  <2> QED BY <2>1, <2>2
<1>4. CASE Motion \/ Timeout \/ Hotkeys
  <2>1. CursorWithin(Screen)
    BY <1>0, <1>4, CursorStepWithin, ConnectedType
  <2>2. TypeOK'
    BY <1>4, MotionType, TimeoutType, HotkeyType
  <2> QED BY <2>1, <2>2 DEF CursorWithin, Within, WaitHasTarget
<1>5. CASE Saver
  <2>1. WaitHasTarget'
    BY <1>0, <1>5, StopSwitchWithin DEF Saver, SaverActivated, SaverDeactivated, SwitchScreen,
       cursor, Within, WaitHasTarget
  <2> QED BY <1>5, <2>1, SaverType
<1>6. CASE UNCHANGED vars
  BY <1>6 DEF vars, registry, cursor, saving, TypeOK, WaitHasTarget
<1> QED BY <1>1, <1>2, <1>3, <1>4, <1>5, <1>6 DEF Next

(* Server.cpp: m_active always names a screen, the wait timer never fires    *)
(* without a target (switchScreen's assert), and every variable of the model *)
(* keeps its type, for any clients, names, links and configurations.         *)
THEOREM TypeCorrect == Spec => [](TypeOK /\ WaitHasTarget)
<1>1. Typed <=> TypeOK /\ WaitHasTarget
  BY DEF Typed
<1> QED BY <1>1, TypedInit, TypedNext, PTL DEF Spec
-----------------------------------------------------------------------------
(* The registry of connections.  removeClient() erases by name, so it takes  *)
(* the right entry only while every client is filed under the name it has    *)
(* now: that needs configurations that do not rename a connected client.     *)

ConfigKnown == \E c \in Configs : config.canon = c.canon

Registered == Typed /\ ConfigKnown /\ RegistrySafe /\ RegistryAgrees

LEMMA NamesKept ==
  ASSUME StableNames, ConfigKnown, NEW c, c = config \/ c \in Configs, NEW n \in Name
  PROVE  Canonical(c, n) = Canonical(config, n)
BY DEF StableNames, ConfigKnown, Canonical

(* Erasing by name erases exactly the departing clients.                     *)
LEMMA RemoveClientsExact ==
  ASSUME StableNames, Registered, NEW c, c = config \/ c \in Configs,
         NEW gone, gone \subseteq Proxy, RemoveClients(c, gone)
  PROVE  /\ clients' = [n \in Name |-> IF clients[n] \in gone THEN Null ELSE clients[n]]
         /\ clientSet' = clientSet \ gone
<1>1. \A q \in Screen : Canonical(c, NameOf[q]) = GetName(q)
  BY NamesKept, ScreensAssumption DEF GetName, Registered
<1>2. ASSUME NEW n \in Name
      PROVE  (\E q \in gone \cap clientSet : Canonical(c, NameOf[q]) = n) <=> clients[n] \in gone
  <2>1. ASSUME NEW q \in gone \cap clientSet, Canonical(c, NameOf[q]) = n
        PROVE  clients[n] \in gone
    <3>1. q \in Screen /\ q \in Connected /\ GetName(q) = n
      BY <1>1, <2>1 DEF Registered, RegistryAgrees, Screen
    <3>2. PICK m \in Name : clients[m] = q /\ clients[m] # Null
      BY <3>1 DEF Connected
    <3> QED BY <3>1, <3>2 DEF Registered, RegistryAgrees
  <2>2. ASSUME clients[n] \in gone
        PROVE  \E q \in gone \cap clientSet : Canonical(c, NameOf[q]) = n
    <3>1. clients[n] \in Screen /\ clients[n] # Null
      BY <2>2, ScreensAssumption DEF Screen
    <3>2. clients[n] \in clientSet /\ GetName(clients[n]) = n
      BY <3>1 DEF Registered, RegistryAgrees, Connected
    <3> QED BY <1>1, <2>2, <3>1, <3>2
  <2> QED BY <2>1, <2>2
<1> QED BY <1>2 DEF RemoveClients

LEMMA RegistryShrinks ==
  ASSUME Registered, NEW gone, gone \subseteq Proxy, \A s \in Screen : GetName(s)' = GetName(s),
         clients' = [n \in Name |-> IF clients[n] \in gone THEN Null ELSE clients[n]],
         clientSet' = clientSet \ gone
  PROVE  RegistryAgrees' /\ Primary \in clientSet'
<1>1. \A n \in Name : clients'[n] # Null => clients'[n] = clients[n] /\ clients[n] \in Screen
  BY DEF Registered, Typed, TypeOK
<1>2. Connected' = Connected \ gone
  BY ScreensAssumption DEF Connected, Screen
<1>3. \A n \in Name : clients'[n] # Null => (GetName(clients[n]))' = n
  BY <1>1 DEF Registered, RegistryAgrees, GetName
<1> QED
  BY <1>2, <1>3, ScreensAssumption DEF Registered, RegistryAgrees, RegistrySafe

LEMMA RegistryKept ==
  ASSUME Registered, UNCHANGED registry
  PROVE  ConfigKnown' /\ RegistrySafe' /\ RegistryAgrees'
BY DEF Registered, registry, ConfigKnown, RegistrySafe, RegistryAgrees, Connected, GetName

LEMMA RegisteredInit == Init => Registered
<1> SUFFICES ASSUME Init PROVE Registered
  OBVIOUS
<1>1. Typed
  BY TypedInit
<1>2. GetName(Primary) \in Name
  BY <1>1, ScreensAssumption DEF GetName, Canonical, Typed, TypeOK, Screen
<1>3. Connected = {Primary}
  BY <1>2, ScreensAssumption DEF Init, Connected, Screen
<1>4. ConfigKnown /\ RegistrySafe
  BY ScreensAssumption DEF Init, ConfigKnown, RegistrySafe, Options
<1>5. RegistryAgrees
  BY <1>3, ScreensAssumption DEF Init, RegistryAgrees
<1> QED BY <1>1, <1>4, <1>5 DEF Registered
LEMMA RegisteredAdopt ==
  ASSUME StableNames, Registered, NEW p \in Proxy, AdoptClient(p)
  PROVE  ConfigKnown' /\ RegistrySafe' /\ RegistryAgrees'
<1>1. config' = config /\ heap[p] = "unborn" /\ heap' = [heap EXCEPT ![p] = "alive"]
  BY DEF AdoptClient
<1>2. p \notin clientSet \cup oldClients /\ p # Primary /\ p # Null /\ p \in Screen
  BY <1>1, ScreensAssumption DEF Registered, RegistrySafe, Screen
<1>3. ConfigKnown' /\ \A s \in Screen : GetName(s)' = GetName(s)
  BY <1>1 DEF Registered, ConfigKnown, GetName
<1>4. heap \in [Proxy -> {"unborn", "alive", "freed"}]
  BY DEF Registered, Typed, TypeOK
<1>5. CASE IsScreen(config, NameOf[p]) /\ clients[GetName(p)] = Null
  <2>1. /\ clients' = [clients EXCEPT ![GetName(p)] = p]
        /\ clientSet' = clientSet \cup {p} /\ oldClients' = oldClients
    BY <1>5 DEF AdoptClient
  <2>2. GetName(p) \in Name
    BY <1>2, ScreensAssumption DEF GetName, Canonical, Registered, Typed, TypeOK
  <2>3. clients \in [Name -> Screen \cup {Null}]
    BY DEF Registered, Typed, TypeOK
  <2>4. Connected' = Connected \cup {p}
    BY <1>2, <1>5, <2>1, <2>2, <2>3 DEF Connected
  <2>5. RegistrySafe'
    BY <1>1, <1>2, <1>4, <2>1 DEF Registered, RegistrySafe
  <2>6. RegistryAgrees'
    <3>1. ASSUME NEW n \in Name, clients'[n] # Null PROVE (GetName(clients[n]))' = n
      <4>1. CASE n = GetName(p)
        BY <1>1, <2>1, <2>2, <2>3, <4>1 DEF GetName
      <4>2. CASE n # GetName(p)
        BY <1>1, <2>1, <2>2, <2>3, <3>1, <4>2 DEF GetName, Registered, RegistryAgrees
      <4> QED BY <4>1, <4>2
    <3>2. Connected' = clientSet'
      BY <2>1, <2>4 DEF Registered, RegistryAgrees
    <3> QED BY <1>1, <3>1, <3>2 DEF RegistryAgrees, GetName
  <2> QED BY <1>3, <2>5, <2>6
<1>6. CASE ~(IsScreen(config, NameOf[p]) /\ clients[GetName(p)] = Null)
  <2>1. RemoveClients(config, {p}) /\ oldClients' = oldClients \cup {p}
    BY <1>6 DEF AdoptClient, CloseClients
  <2>2. /\ clients' = [n \in Name |-> IF clients[n] \in {p} THEN Null ELSE clients[n]]
        /\ clientSet' = clientSet \ {p}
    BY <2>1, RemoveClientsExact
  <2>3. RegistryAgrees' /\ Primary \in clientSet'
    BY <1>3, <2>2, RegistryShrinks
  <2>4. RegistrySafe'
    BY <1>1, <1>2, <1>4, <2>1, <2>2, <2>3 DEF Registered, RegistrySafe
  <2> QED BY <1>3, <2>3, <2>4
<1> QED BY <1>5, <1>6

LEMMA RegisteredHangUp ==
  ASSUME StableNames, Registered, NEW p \in Proxy, ClientDisconnected(p)
  PROVE  ConfigKnown' /\ RegistrySafe' /\ RegistryAgrees'
<1>1. /\ config' = config /\ heap' = [heap EXCEPT ![p] = "freed"]
      /\ oldClients' = oldClients \ {p} /\ p \in clientSet \cup oldClients
  BY DEF ClientDisconnected
<1>2. ConfigKnown' /\ \A s \in Screen : GetName(s)' = GetName(s)
  BY <1>1 DEF Registered, ConfigKnown, GetName
<1>3. heap \in [Proxy -> {"unborn", "alive", "freed"}]
  BY DEF Registered, Typed, TypeOK
<1>4. CASE p \in clientSet
  <2>1. RemoveClients(config, {p})
    BY <1>4 DEF ClientDisconnected
  <2>2. /\ clients' = [n \in Name |-> IF clients[n] \in {p} THEN Null ELSE clients[n]]
        /\ clientSet' = clientSet \ {p}
    BY <2>1, RemoveClientsExact
  <2>3. RegistryAgrees' /\ Primary \in clientSet'
    BY <1>2, <2>2, RegistryShrinks
  <2>4. RegistrySafe'
    BY <1>1, <1>3, <2>2, <2>3 DEF Registered, RegistrySafe
  <2> QED BY <1>2, <2>3, <2>4
<1>5. CASE p \notin clientSet
  <2>1. clients' = clients /\ clientSet' = clientSet
    BY <1>5 DEF ClientDisconnected
  <2>2. RegistryAgrees'
    BY <1>1, <2>1 DEF Registered, RegistryAgrees, Connected, GetName
  <2>3. RegistrySafe'
    BY <1>1, <1>3, <1>5, <2>1 DEF Registered, RegistrySafe
  <2> QED BY <1>2, <2>2, <2>3
<1> QED BY <1>4, <1>5

LEMMA RegisteredTimeout ==
  ASSUME Registered, NEW p \in Proxy, ClientCloseTimeout(p)
  PROVE  ConfigKnown' /\ RegistrySafe' /\ RegistryAgrees'
<1>1. /\ UNCHANGED <<config, clients, clientSet>> /\ heap' = [heap EXCEPT ![p] = "freed"]
      /\ oldClients' = oldClients \ {p} /\ p \in oldClients
  BY DEF ClientCloseTimeout
<1>2. heap \in [Proxy -> {"unborn", "alive", "freed"}]
  BY DEF Registered, Typed, TypeOK
<1>3. RegistrySafe'
  BY <1>1, <1>2 DEF Registered, RegistrySafe
<1> QED BY <1>1, <1>3 DEF Registered, ConfigKnown, RegistryAgrees, Connected, GetName

(* closeClient() over clients that are connected: they move to the closing   *)
(* list.                                                                     *)
LEMMA RegisteredClose ==
  ASSUME StableNames, Registered, NEW c, c = config \/ c \in Configs,
         NEW gone, gone \subseteq clientSet \cap Proxy, CloseClients(c, gone),
         \A s \in Screen : GetName(s)' = GetName(s), heap' = heap
  PROVE  RegistrySafe' /\ RegistryAgrees'
<1>1. RemoveClients(c, gone) /\ oldClients' = oldClients \cup gone
  BY DEF CloseClients
<1>2. /\ clients' = [n \in Name |-> IF clients[n] \in gone THEN Null ELSE clients[n]]
      /\ clientSet' = clientSet \ gone
  BY <1>1, RemoveClientsExact
<1>3. RegistryAgrees' /\ Primary \in clientSet'
  BY <1>2, RegistryShrinks
<1> QED BY <1>1, <1>2, <1>3 DEF Registered, RegistrySafe

(* Motion, the wait timer and the hotkeys leave the registry and the saver   *)
(* alone.                                                                    *)
CursorStep == OthersKept \/ LockCursorToScreen

LEMMA CursorStepKeeps ==
  ASSUME Motion \/ Timeout \/ Hotkeys
  PROVE  UNCHANGED registry /\ UNCHANGED saving
<1> SUFFICES CursorStep
  BY DEF CursorStep, OthersKept, LockCursorToScreen
<1>1. CASE Motion
  <2>1. ASSUME NEW fast, NEW away, MoveOnPrimary(fast, away) \/ MoveOnSecondary(fast, away)
        PROVE  CursorStep
    BY <2>1 DEF CursorStep, MoveOnPrimary, MoveOnSecondary
  <2>2. ASSUME NEW dirh, NEW dirv, NEW in, EdgeOfPrimary(dirh, dirv, in)
        PROVE  CursorStep
    BY <2>2 DEF CursorStep, EdgeOfPrimary
  <2>3. ASSUME NEW dir, NEW in, EdgeOfSecondary(dir, in)
        PROVE  CursorStep
    BY <2>3 DEF CursorStep, EdgeOfSecondary
  <2> QED BY <1>1, <2>1, <2>2, <2>3 DEF Motion
<1>2. CASE Timeout
  BY <1>2 DEF CursorStep, Timeout, SwitchWaitTimeout
<1>3. CASE Hotkeys
  BY <1>3 DEF CursorStep, Hotkeys, JumpToScreen, ToggleScreen
<1> QED BY <1>1, <1>2, <1>3

LEMMA RegisteredNext == StableNames /\ Registered /\ [Next]_vars => Registered'
<1> SUFFICES ASSUME StableNames, Registered, [Next]_vars
             PROVE  ConfigKnown' /\ RegistrySafe' /\ RegistryAgrees'
  BY TypedNext DEF Registered
<1>1. CASE Arrivals
  BY <1>1, RegisteredAdopt DEF Arrivals
<1>2. CASE Departures
  <2>1. CASE Disconnect
    <3>1. config' = config /\ heap' = heap
      BY <2>1 DEF Disconnect
    <3>2. ConfigKnown' /\ \A s \in Screen : GetName(s)' = GetName(s)
      BY <3>1 DEF Registered, ConfigKnown, GetName
    <3>3. Connected \ {Primary} \subseteq clientSet \cap Proxy
      BY ConnectedType DEF Registered, Typed, RegistryAgrees, Screen
    <3>4. CASE CloseClients(config, Connected \ {Primary})
      BY <3>1, <3>2, <3>3, <3>4, RegisteredClose
    <3>5. CASE NobodyLeaves
      BY <3>1, <3>2, <3>5 DEF NobodyLeaves, Registered, RegistrySafe, RegistryAgrees, Connected, GetName
    <3> QED BY <2>1, <3>4, <3>5 DEF Disconnect
  <2> QED BY <1>2, <2>1, RegisteredHangUp, RegisteredTimeout DEF Departures
<1>3. CASE Reload
  <2> PICK c \in Configs : SetConfig(c)
    BY <1>3 DEF Reload
  <2> DEFINE gone == {clients[n] : n \in {m \in Name : ~IsCanonicalName(c, m)}} \ {Null, Primary}
  <2>1. heap' = heap /\ config'.canon = c.canon
    BY DEF SetConfig, Registered, Typed, TypeOK, Options
  <2>2. ConfigKnown'
    BY <2>1 DEF ConfigKnown
  <2>3. \A s \in Screen : GetName(s)' = GetName(s)
    <3>1. ASSUME NEW n \in Name PROVE Canonical(config', n) = Canonical(config, n)
      BY <2>1, NamesKept DEF Canonical, Registered
    <3> QED BY <3>1, ScreensAssumption DEF GetName
  <2>4. gone \subseteq clientSet \cap Proxy
    BY DEF Registered, RegistryAgrees, Connected, Typed, TypeOK, Screen
  <2>5. CASE IsScreen(c, NameOf[Primary])
    <3>1. CloseClients(c, gone)
      BY <2>5 DEF SetConfig
    <3> HIDE DEF gone
    <3> QED BY <2>1, <2>2, <2>3, <2>4, <3>1, RegisteredClose
  <2>6. CASE ~IsScreen(c, NameOf[Primary])
    <3>1. UNCHANGED <<clients, clientSet, oldClients>>
      BY <2>6 DEF SetConfig, NobodyLeaves
    <3>2. RegistrySafe'
      BY <2>1, <3>1 DEF Registered, RegistrySafe
    <3>3. RegistryAgrees'
      <4>1. Connected' = clientSet'
        BY <3>1 DEF Registered, RegistryAgrees, Connected
      <4>2. ASSUME NEW n \in Name, clients[n] # Null PROVE (GetName(clients[n]))' = n
        <5>1. clients[n] \in Screen /\ GetName(clients[n]) = n
          BY <4>2 DEF Registered, RegistryAgrees, Typed, TypeOK
        <5> QED BY <2>3, <3>1, <5>1 DEF GetName
      <4> QED BY <3>1, <4>1, <4>2 DEF RegistryAgrees
    <3> QED BY <2>2, <3>2, <3>3
  <2> QED BY <2>5, <2>6
<1>4. CASE UNCHANGED registry
  BY <1>4, RegistryKept
<1>5. CASE Motion \/ Timeout \/ Hotkeys
  BY <1>4, <1>5, CursorStepKeeps
<1>6. CASE Saver
  BY <1>4, <1>6 DEF Saver, SaverActivated, SaverDeactivated
<1>7. CASE UNCHANGED vars
  BY <1>4, <1>7 DEF vars
<1> QED BY <1>1, <1>2, <1>3, <1>5, <1>6, <1>7 DEF Next
-----------------------------------------------------------------------------
(* The last departure.                                                       *)

LEMMA LastOneOutHolds ==
  ASSUME Registered', clientSet' = {Primary}, oldClients' = {}
  PROVE  LastOneOut
<1>1. PICK k \in Name : clients'[k] = Primary
  BY DEF Registered, RegistryAgrees, Connected
<1>2. {n \in Name : clients'[n] # Null} = {k}
  <2>1. ASSUME NEW n \in Name, clients'[n] # Null PROVE n = k
    <3>1. clients'[n] = Primary
      BY <2>1 DEF Registered, RegistryAgrees, Connected
    <3>2. (GetName(clients[n]))' = n /\ (GetName(clients[k]))' = k
      BY <1>1, <2>1, ScreensAssumption DEF Registered, RegistryAgrees, Screen
    <3> QED BY <1>1, <3>1, <3>2 DEF GetName
  <2> QED BY <1>1, <2>1, ScreensAssumption DEF Screen
<1> QED BY <1>2, FS_Singleton DEF LastOneOut

LEMMA PostedNext ==
  ASSUME StableNames, Registered, LastDeparturePosted, [Next]_vars
  PROVE  LastDeparturePosted'
<1> SUFFICES ASSUME clientSet' = {Primary}, oldClients' = {}, NEW q \in Proxy, heap'[q] = "freed"
             PROVE  posted'
  BY DEF LastDeparturePosted
<1>0. Registered'
  BY RegisteredNext
<1>1. CASE Arrivals
  <2> PICK p \in Proxy : AdoptClient(p)
    BY <1>1 DEF Arrivals
  <2>1. heap'[p] = "alive"
    BY DEF AdoptClient, Registered, Typed, TypeOK
  <2>2. p \in clientSet' \cup oldClients'
    BY <1>0, <2>1 DEF Registered, RegistrySafe
  <2> QED BY <2>2, ScreensAssumption
<1>2. CASE Departures
  <2>1. CASE Disconnect
    <3>1. heap' = heap
      BY <2>1 DEF Disconnect
    <3>2. CASE CloseClients(config, Connected \ {Primary}) /\ posted' = posted
      <4>1. oldClients = {} /\ Connected \ {Primary} = {}
        BY <3>2 DEF CloseClients
      <4>2. clientSet = {Primary}
        BY <4>1 DEF Registered, RegistryAgrees, RegistrySafe
      <4> QED BY <3>1, <3>2, <4>1, <4>2 DEF LastDeparturePosted
    <3> QED BY <2>1, <3>2 DEF Disconnect
  <2> QED BY <1>0, <1>2, <2>1, LastOneOutHolds DEF Departures, ClientDisconnected, ClientCloseTimeout
<1>3. CASE Reload
  <2> PICK c \in Configs : SetConfig(c)
    BY <1>3 DEF Reload
  <2>1. heap' = heap /\ posted' = posted
    BY DEF SetConfig
  <2>2. oldClients = {} /\ clientSet' = clientSet
    <3> DEFINE gone == {clients[n] : n \in {m \in Name : ~IsCanonicalName(c, m)}} \ {Null, Primary}
    <3>1. CASE NobodyLeaves
      BY <3>1 DEF NobodyLeaves
    <3>2. CASE CloseClients(c, gone)
      <4> HIDE DEF gone
      <4>1. gone = {} /\ oldClients = {}
        BY <3>2 DEF CloseClients
      <4> QED BY <3>2, <4>1 DEF CloseClients, RemoveClients
    <3> QED BY <3>1, <3>2 DEF SetConfig
  <2> QED BY <2>1, <2>2 DEF LastDeparturePosted
<1>4. CASE UNCHANGED registry
  BY <1>4 DEF registry, LastDeparturePosted
<1>5. CASE Motion \/ Timeout \/ Hotkeys
  BY <1>4, <1>5, CursorStepKeeps
<1>6. CASE Saver
  BY <1>4, <1>6 DEF Saver, SaverActivated, SaverDeactivated
<1>7. CASE UNCHANGED vars
  BY <1>4, <1>7 DEF vars
<1> QED BY <1>1, <1>2, <1>3, <1>5, <1>6, <1>7 DEF Next

(* removeActiveClient/removeOldClient/closeClient: no proxy is leaked,       *)
(* deleted twice or used after `delete client`, m_clients and m_clientSet    *)
(* agree, each client is filed under the name it has, and when nobody is     *)
(* connected or closing any more ServerApp::closeServer is woken, however    *)
(* the clients left - provided reloads do not change the canonical name of a *)
(* connected client.                                                         *)
THEOREM RegistryCorrect ==
  ASSUME StableNames
  PROVE  Spec => []RegistriesAgree
<1>1. Init => Registered /\ LastDeparturePosted
  BY RegisteredInit DEF Init, LastDeparturePosted
<1>2. (Registered /\ LastDeparturePosted) /\ [Next]_vars => (Registered /\ LastDeparturePosted)'
  BY RegisteredNext, PostedNext
<1>3. Registered /\ LastDeparturePosted => RegistriesAgree
  BY DEF Registered, RegistriesAgree
<1> QED BY <1>1, <1>2, <1>3, PTL DEF Spec

-----------------------------------------------------------------------------
(* The place of the cursor.                                                  *)

(* Where a cursor step can put the cursor: where it is, on a connected       *)
(* screen or on the target of the delayed switch.                            *)
LEMMA CursorStepTargets ==
  ASSUME TypeOK, WaitHasTarget, Motion \/ Timeout \/ Hotkeys
  PROVE  \/ UNCHANGED <<active, entered>>
         \/ /\ entered' = (entered \ {active}) \cup {active'}
            /\ \/ active' \in Connected
               \/ pending.waiting /\ active' = pending.screen
<1> DEFINE Moved == \/ UNCHANGED <<active, entered>>
                    \/ /\ entered' = (entered \ {active}) \cup {active'}
                       /\ active' \in Connected
<1>1. ASSUME NEW p, NEW dst \in Connected, SwitchScreen(p, dst) PROVE Moved
  BY <1>1 DEF SwitchScreen
<1>2. ASSUME NEW fast, NEW away, MoveOnPrimary(fast, away) \/ MoveOnSecondary(fast, away)
      PROVE  Moved
  BY <1>2 DEF MoveOnPrimary, MoveOnSecondary
<1>3. ASSUME NEW dst, NEW p, NEW dir, NEW in, IsSwitchOkay(p, dst, dir, in).ok PROVE dst # Null
  BY <1>3 DEF IsSwitchOkay
<1>4. ASSUME NEW dirh, NEW dirv, NEW in, EdgeOfPrimary(dirh, dirv, in)
      PROVE  Moved
  <2> PICK newh \in Neighbors(dirh), newv \in Neighbors(dirv) :
        LET h == IF dirh = NoDir THEN [ok |-> FALSE, p |-> pending]
                 ELSE IsSwitchOkay(pending, newh, dirh, in)
            v == IF dirv = NoDir THEN [ok |-> FALSE, p |-> h.p]
                 ELSE IsSwitchOkay(h.p, newv, dirv, in)
        IN \/ h.ok /\ SwitchScreen(h.p, newh)
           \/ ~h.ok /\ v.ok /\ SwitchScreen(v.p, newv)
           \/ ~h.ok /\ ~v.ok /\ pending' = v.p /\ UNCHANGED <<active, entered>>
    <3>1. Null \in Neighbors(dirv)
      BY DEF Neighbors
    <3> QED BY <1>4, <3>1 DEF EdgeOfPrimary
  <2> DEFINE h == IF dirh = NoDir THEN [ok |-> FALSE, p |-> pending]
                  ELSE IsSwitchOkay(pending, newh, dirh, in)
             v == IF dirv = NoDir THEN [ok |-> FALSE, p |-> h.p]
                  ELSE IsSwitchOkay(h.p, newv, dirv, in)
  <2>1. h.ok => newh \in Connected
    BY <1>3 DEF Neighbors
  <2>2. v.ok => newv \in Connected
    <3> HIDE DEF h
    <3> QED BY <1>3 DEF Neighbors
  <2>3. \/ h.ok /\ SwitchScreen(h.p, newh)
        \/ ~h.ok /\ v.ok /\ SwitchScreen(v.p, newv)
        \/ ~h.ok /\ ~v.ok /\ pending' = v.p /\ UNCHANGED <<active, entered>>
    OBVIOUS
  <2> HIDE DEF h, v, Moved
  <2>4. CASE UNCHANGED <<active, entered>>
    BY <2>4 DEF Moved
  <2> QED BY <1>1, <2>1, <2>2, <2>3, <2>4
<1>5. ASSUME NEW dir, NEW in, EdgeOfSecondary(dir, in) PROVE Moved
  <2> PICK new \in Neighbors(dir) :
        LET r == IsSwitchOkay(pending, new, dir, in)
        IN IF r.ok THEN SwitchScreen(r.p, new)
           ELSE pending' = r.p /\ UNCHANGED <<active, entered>>
    BY <1>5 DEF EdgeOfSecondary
  <2> DEFINE r == IsSwitchOkay(pending, new, dir, in)
  <2>1. r.ok => new \in Connected
    BY <1>3 DEF Neighbors
  <2>2. IF r.ok THEN SwitchScreen(r.p, new)
        ELSE pending' = r.p /\ UNCHANGED <<active, entered>>
    OBVIOUS
  <2> HIDE DEF r, Moved
  <2>3. CASE UNCHANGED <<active, entered>>
    BY <2>3 DEF Moved
  <2> QED BY <1>1, <2>1, <2>2, <2>3
<1>6. CASE Motion
  BY <1>2, <1>4, <1>5, <1>6 DEF Motion
<1>7. CASE Hotkeys
  <2>1. ASSUME NEW dst, JumpToScreen(dst) PROVE Moved
    BY <1>1, <2>1 DEF JumpToScreen
  <2>2. CASE ToggleScreen
    <3>1. PICK n \in Name : SwitchScreen(pending, clients[n]) /\ clients[n] # Null
      BY <2>2 DEF ToggleScreen
    <3> QED BY <1>1, <3>1 DEF Connected
  <2>3. CASE LockCursorToScreen
    BY <2>3 DEF LockCursorToScreen, cursor
  <2> QED BY <1>7, <2>1, <2>2, <2>3 DEF Hotkeys
<1>8. CASE Timeout
  BY <1>8 DEF Timeout, SwitchWaitTimeout, SwitchScreen
<1> QED BY <1>6, <1>7, <1>8

(* The departure of some clients, forceLeaveClient() for each.               *)
LEMMA PlacedAfterLeave ==
  ASSUME Registered, Placed, NEW gone, gone \subseteq Proxy, ForceLeave(gone),
         clientSet' = clientSet \ gone, ~LeavesOnDetour
  PROVE  Placed'
<1>1. Primary \notin gone /\ Primary \in clientSet /\ Null \notin clientSet
  BY ScreensAssumption DEF Registered, RegistrySafe, Typed, TypeOK
<1>2. active \in clientSet /\ entered = {active} /\ saver \in clientSet \cup {Null}
  BY DEF Placed, ActiveConnected, OneEntered, SaverConnected
<1>3. SaverConnected'
  BY <1>1, <1>2 DEF ForceLeave, SaverConnected
<1>4. CASE saver = Null
  BY <1>1, <1>2, <1>3, <1>4
     DEF ForceLeave, CursorHolder, Placed, ActiveConnected, OneEntered
<1>5. CASE saver # Null /\ active = Primary
  BY <1>1, <1>2, <1>3, <1>5
     DEF ForceLeave, CursorHolder, Placed, ActiveConnected, OneEntered
<1>6. CASE saver # Null /\ active # Primary
  <2>1. saver \notin gone /\ active \notin gone
    BY <1>2, <1>6 DEF LeavesOnDetour
  <2> QED BY <1>2, <1>3, <1>6, <2>1
          DEF ForceLeave, CursorHolder, Placed, ActiveConnected, OneEntered
<1> QED BY <1>4, <1>5, <1>6

LEMMA PlacedKept ==
  ASSUME Placed, UNCHANGED <<active, entered, saver>>, clientSet \subseteq clientSet'
  PROVE  Placed'
BY DEF Placed, ActiveConnected, OneEntered, SaverConnected

LEMMA PlacedInit == Init => Placed
BY DEF Init, Placed, ActiveConnected, OneEntered, SaverConnected

LEMMA PlacedNext ==
  ASSUME StableNames, Registered, Placed, [Next]_vars, ~LeavesOnDetour, ~JumpsToGone
  PROVE  Placed'
<1>0. /\ TypeOK /\ WaitHasTarget /\ Connected = clientSet /\ Null \notin clientSet
      /\ clientSet \subseteq Screen /\ Primary \in clientSet
  BY DEF Registered, Typed, RegistryAgrees, RegistrySafe, Connected, TypeOK
<1>1. CASE Arrivals
  <2> PICK p \in Proxy : AdoptClient(p)
    BY <1>1 DEF Arrivals
  <2>1. CASE IsScreen(config, NameOf[p]) /\ clients[GetName(p)] = Null
    <3>1. UNCHANGED <<cursor, saver>> /\ clientSet' = clientSet \cup {p}
      BY <2>1 DEF AdoptClient
    <3> QED BY <3>1, PlacedKept DEF cursor
  <2>2. CASE ~(IsScreen(config, NameOf[p]) /\ clients[GetName(p)] = Null)
    <3>1. RemoveClients(config, {p}) /\ ForceLeave({p})
      BY <2>2 DEF AdoptClient, CloseClients
    <3>2. clientSet' = clientSet \ {p}
      BY <3>1 DEF RemoveClients
    <3> QED BY <3>1, <3>2, PlacedAfterLeave
  <2> QED BY <2>1, <2>2
<1>2. CASE Departures
  <2>1. ASSUME NEW p \in Proxy, ClientDisconnected(p) PROVE Placed'
    <3>1. CASE p \in clientSet
      <4>1. ForceLeave({p}) /\ clientSet' = clientSet \ {p}
        BY <2>1, <3>1 DEF ClientDisconnected, RemoveClients
      <4> QED BY <4>1, PlacedAfterLeave
    <3>2. CASE p \notin clientSet
      BY <2>1, <3>2, PlacedKept DEF ClientDisconnected, cursor
    <3> QED BY <3>1, <3>2
  <2>2. ASSUME NEW p \in Proxy, ClientCloseTimeout(p) PROVE Placed'
    BY <2>2, PlacedKept DEF ClientCloseTimeout, saving, cursor
  <2>3. CASE Disconnect
    <3> DEFINE gone == Connected \ {Primary}
    <3>1. gone \subseteq Proxy
      BY <1>0 DEF Screen
    <3>2. CASE CloseClients(config, gone)
      <4> HIDE DEF gone
      <4>1. ForceLeave(gone) /\ clientSet' = clientSet \ gone
        BY <3>2 DEF CloseClients, RemoveClients
      <4> QED BY <3>1, <4>1, PlacedAfterLeave
    <3>3. CASE NobodyLeaves
      BY <3>3, PlacedKept DEF NobodyLeaves, cursor
    <3> QED BY <2>3, <3>2, <3>3 DEF Disconnect
  <2> QED BY <1>2, <2>1, <2>2, <2>3 DEF Departures
<1>3. CASE Reload
  <2> PICK c \in Configs : SetConfig(c)
    BY <1>3 DEF Reload
  <2> DEFINE gone == {clients[n] : n \in {m \in Name : ~IsCanonicalName(c, m)}} \ {Null, Primary}
  <2>1. gone \subseteq Proxy
    BY <1>0 DEF TypeOK, Screen
  <2>2. CASE CloseClients(c, gone)
    <3> HIDE DEF gone
    <3>1. ForceLeave(gone) /\ clientSet' = clientSet \ gone
      BY <2>2 DEF CloseClients, RemoveClients
    <3> QED BY <2>1, <3>1, PlacedAfterLeave
  <2>3. CASE NobodyLeaves
    BY <2>3, PlacedKept DEF NobodyLeaves, cursor
  <2> QED BY <2>2, <2>3 DEF SetConfig
<1>4. CASE Motion \/ Timeout \/ Hotkeys
  <2>1. clientSet' = clientSet /\ saver' = saver
    BY <1>4, CursorStepKeeps DEF registry, saving
  <2>2. CASE UNCHANGED <<active, entered>>
    BY <2>1, <2>2, PlacedKept
  <2>3. CASE /\ entered' = (entered \ {active}) \cup {active'}
             /\ active' \in Connected \/ (pending.waiting /\ active' = pending.screen)
    BY <1>0, <2>1, <2>3
       DEF JumpsToGone, Placed, ActiveConnected, OneEntered, SaverConnected
  <2> QED BY <1>0, <1>4, <2>2, <2>3, CursorStepTargets
<1>5. CASE Saver
  <2>0. clientSet' = clientSet
    BY <1>5 DEF Saver, SaverActivated, SaverDeactivated, registry
  <2>1. CASE SaverActivated
    BY <1>0, <2>0, <2>1 DEF SaverActivated, SwitchScreen, cursor, Placed, ActiveConnected,
       OneEntered, SaverConnected
  <2>2. CASE SaverDeactivated
    BY <1>0, <2>0, <2>2 DEF SaverDeactivated, SwitchScreen, cursor, Placed, ActiveConnected,
       OneEntered, SaverConnected
  <2> QED BY <1>5, <2>1, <2>2 DEF Saver
<1>6. CASE UNCHANGED vars
  BY <1>6, PlacedKept DEF vars, registry, saving, cursor
<1> QED BY <1>1, <1>2, <1>3, <1>4, <1>5, <1>6 DEF Next

(* Server.cpp: m_active is connected and the one screen entered, and so is   *)
(* m_activeSaver connected, at first and after every step but the departure  *)
(* that forceLeaveClient() mistakes during the saver and the delayed switch  *)
(* to a target that has left - for any number of clients and all that the    *)
(* environment may do, provided reloads rename nobody.                       *)
THEOREM CursorCorrect ==
  ASSUME StableNames
  PROVE  Spec => Placed /\ CursorPlaced
<1>1. Init => Registered /\ Placed
  BY RegisteredInit, PlacedInit
<1>2. Registered /\ [Next]_vars => Registered'
  BY RegisteredNext
<1>3. Registered /\ [Next]_vars
        => [Placed /\ ~LeavesOnDetour /\ ~JumpsToGone => Placed']_vars
  BY PlacedNext
<1> QED BY <1>1, <1>2, <1>3, PTL DEF Spec, CursorPlaced

=============================================================================
