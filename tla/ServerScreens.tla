---------------------------- MODULE ServerScreens ----------------------------
(***************************************************************************)
(* The screen-switching core of the input server, engine/src/src/lib/      *)
(* server/Server.cpp: which clients are connected, which screen owns the   *)
(* cursor, the delayed switch (wait timer, double tap), the screen saver   *)
(* detour, and the ways a client leaves.  Every handler runs to completion *)
(* on the event loop, so each is one action.  Pixel positions, options     *)
(* sent to clients and clipboards are left to other modules: here a motion *)
(* event is its effect on the edge test, and a neighbour is any connected  *)
(* screen.  A ClientProxy is a heap object: "freed" is `delete client`.    *)
(***************************************************************************)
EXTENDS Integers, FiniteSets

CONSTANTS
  Proxy,        \* the ClientProxy objects that ever connect
  Primary,      \* the PrimaryClient object
  Null,         \* nullptr, and the empty name
  Name,         \* screen names and aliases, as their rank in m_clients' order
  NameOf,       \* the name each screen object reports (getName())
  Configs,      \* configurations: [canon, wait, twoTap, noLock], an option they
                \* do not give being Null
  Horizontal, Vertical  \* directions of the two edges a corner touches

Screen == Proxy \cup {Primary}
NoDir  == "none"
Direction == Horizontal \cup Vertical

ASSUME ScreensAssumption ==
  /\ Primary \notin Proxy /\ Null \notin Screen /\ Null \notin Name
  /\ Name \subseteq Nat
  /\ NameOf \in [Screen -> Name]
  /\ NoDir \notin Direction
  /\ Null \notin BOOLEAN
  /\ Configs \subseteq [canon : [Name -> Name \cup {Null}], wait : BOOLEAN \cup {Null},
                        twoTap : BOOLEAN \cup {Null}, noLock : BOOLEAN \cup {Null}]

VARIABLES
  config,       \* *m_config and the options processOptions() took from it
  clients,      \* m_clients: name -> screen object
  clientSet,    \* m_clientSet
  oldClients,   \* m_oldClients, each with its close timer running
  heap,         \* the life of each proxy object
  active,       \* m_active
  saver,        \* m_activeSaver
  pending,      \* m_switchScreen, m_switchDir, the wait timer, the double tap
  locked,       \* m_lockedToScreen
  entered,      \* screens whose last enter/leave message was enter
  told,         \* clients whose last screensaver message was "on"
  screenSaver,  \* the primary's screen saver is running
  posted,       \* ServerDisconnected queued since the last arrival
  stopping      \* disconnect() was called

registry == <<config, clients, clientSet, oldClients, heap, posted, stopping>>
cursor   == <<active, entered, pending>>
saving   == <<saver, told, screenSaver>>
vars     == <<registry, cursor, saving, locked>>

\* stray: the position saved for the wait is one on another screen.
NoSwitchPending ==
  [screen |-> Null, dir |-> NoDir, waiting |-> FALSE, stray |-> FALSE, tap |-> "idle"]

-----------------------------------------------------------------------------
(* Names.  getName() is the canonical name under the current configuration, *)
(* or the reported name when the configuration no longer knows it.          *)
Canonical(c, n) == IF c.canon[n] = Null THEN n ELSE c.canon[n]
GetName(s) == Canonical(config, NameOf[s])
IsScreen(c, n) == c.canon[n] # Null
IsCanonicalName(c, n) == c.canon[n] = n

Connected == {clients[n] : n \in Name} \ {Null}

(* getNeighbor()/mapToNeighbor(): the first connected screen in a direction, *)
(* or nullptr.  Links are arbitrary, so any connected screen can be it.      *)
Neighbors(dir) == IF dir = NoDir THEN {Null} ELSE Connected \cup {Null}

IsLockedToScreen(held) == ~config.noLock /\ (locked \/ held)

-----------------------------------------------------------------------------
(* The delayed switch.                                                       *)
\* Mutant: the target is forgotten, the wait timer keeps running.
StopSwitchTimerRuns(p) == [p EXCEPT !.screen = Null, !.dir = NoDir]

StopSwitch(p) == IF p.screen = Null THEN p ELSE NoSwitchPending

(* noSwitch(): `fast` is whether the double-tap window is still open, `away` *)
(* whether this motion left the tap zone in the arming direction.            *)
NoSwitch(p, fast, away) ==
  [p EXCEPT !.waiting = FALSE, !.stray = FALSE,
            !.tap = IF p.tap # "idle" /\ ~fast THEN "idle"
                    ELSE IF p.tap = "engaged" /\ away THEN "armed" ELSE p.tap]

(* Whether the second tap is still in time, which only a first tap asks.     *)
InTime == IF pending.tap = "idle" THEN {FALSE} ELSE BOOLEAN

(* What an edge test finds: the second tap in time or not, and the cursor in *)
(* a locked corner, a button held, or neither.  Where the wait or the lock   *)
(* already keeps the cursor a button does not matter.                        *)
Inputs ==
  [fast : InTime,
   at : {"corner", "free"} \cup
        IF locked \/ (config.wait /\ ~config.twoTap) THEN {} ELSE {"held"}]

IsSwitchOkay(p, dst, dir, in) ==
  IF dst = Null THEN [ok |-> FALSE, p |-> StopSwitch(p)]
  ELSE
    LET newDir == dir # p.dir
        noted  == IF newDir \/ p.screen = Null
                  THEN [p EXCEPT !.dir = dir, !.screen = dst] ELSE p
        second == config.twoTap /\ ~newDir /\ p.tap = "armed" /\ in.fast
        tapped == IF config.twoTap /\ ~second
                  THEN [noted EXCEPT !.tap = "engaged"] ELSE noted
        timed  == IF config.wait /\ ~second /\ (newDir \/ ~p.waiting)
                  THEN [tapped EXCEPT !.waiting = TRUE, !.stray = dst # tapped.screen]
                  ELSE tapped
        later  == ~second /\ (config.twoTap \/ config.wait)
        stop   == in.at = "corner" \/ (~later /\ IsLockedToScreen(in.at = "held"))
    IN [ok |-> ~later /\ ~stop, p |-> IF stop THEN StopSwitch(timed) ELSE timed]

(* switchScreen(dst): the primary may refuse to be left; a client may not.   *)
SwitchScreen(p, dst) ==
  /\ pending' = StopSwitch(p)
  /\ \/ active \in {dst, Primary} /\ UNCHANGED <<active, entered>>
     \/ /\ active # dst
        /\ active' = dst
        /\ entered' = (entered \ {active}) \cup {dst}

-----------------------------------------------------------------------------
(* Departures.  forceLeaveClient() looks at m_activeSaver when there is one, *)
(* at m_active otherwise; these are its effects over every departing client. *)
CursorHolder == IF saver # Null THEN saver ELSE active

PendingAfterLeave(gone) ==
  IF CursorHolder \in gone /\ pending.screen = CursorHolder
  THEN StopSwitch(pending) ELSE pending

\* Mutant: m_activeSaver survives the client it names.
ForceLeaveKeepsSaver(gone) ==
  /\ active' = IF CursorHolder \in gone THEN Primary ELSE active
  /\ entered' = IF CursorHolder \in gone /\ saver = Null
                THEN (entered \ gone) \cup {Primary} ELSE entered \ gone
  /\ told' = told \ gone
  /\ UNCHANGED saver

\* Mutant: m_active is the primary again, but the primary is not entered.
ForceLeaveNoEnter(gone) ==
  /\ active' = IF CursorHolder \in gone THEN Primary ELSE active
  /\ entered' = entered \ gone
  /\ saver' = IF saver \in gone THEN Null ELSE saver
  /\ told' = told \ gone

ForceLeave(gone) ==
  /\ active' = IF CursorHolder \in gone THEN Primary ELSE active
  /\ entered' = IF CursorHolder \in gone /\ saver = Null
                THEN (entered \ gone) \cup {Primary} ELSE entered \ gone
  /\ saver' = IF saver \in gone THEN Null ELSE saver
  /\ told' = told \ gone

\* Mutant: the client leaves m_clientSet but stays in m_clients.
RemoveClientsSetOnly(c, gone) == clientSet' = clientSet \ gone /\ UNCHANGED clients

(* removeClient(): m_clients.erase(getName(client)) for each client found in *)
(* m_clientSet, with the name it has under configuration c.                  *)
RemoveClients(c, gone) ==
  /\ clients' = [n \in Name |->
       IF \E p \in gone \cap clientSet : Canonical(c, NameOf[p]) = n
       THEN Null ELSE clients[n]]
  /\ clientSet' = clientSet \ gone

\* Mutant: the client is not put on the closing list.
CloseClientsForgets(c, gone) ==
  RemoveClients(c, gone) /\ ForceLeave(gone) /\ UNCHANGED oldClients

\* Mutant: the server does not jump off a client it closes.
CloseClientsNoJump(c, gone) ==
  /\ RemoveClients(c, gone)
  /\ oldClients' = oldClients \cup gone
  /\ UNCHANGED <<active, entered, saver, told>>

(* closeClient() over a set: message, 5 s timer, move to the closing list.   *)
CloseClients(c, gone) ==
  /\ RemoveClients(c, gone)
  /\ oldClients' = oldClients \cup gone
  /\ ForceLeave(gone)

NobodyLeaves == UNCHANGED <<clients, clientSet, oldClients, cursor, saver, told>>

\* Mutant: the primary is not counted.
LastOneOutOffByOne == Cardinality({n \in Name : clients'[n] # Null}) = 0 /\ oldClients' = {}

(* m_clients.size() == 1 && m_oldClients.empty(), after the step.            *)
LastOneOut == Cardinality({n \in Name : clients'[n] # Null}) = 1 /\ oldClients' = {}

-----------------------------------------------------------------------------
(* processOptions(): only the options the configuration gives are taken, the *)
(* others keep the value they had, at first the default of "off".            *)
Given(new, old) == IF new = Null THEN old ELSE new
Options(c, old) ==
  [canon |-> c.canon, wait |-> Given(c.wait, old.wait),
   twoTap |-> Given(c.twoTap, old.twoTap), noLock |-> Given(c.noLock, old.noLock)]
NoOptions == [wait |-> FALSE, twoTap |-> FALSE, noLock |-> FALSE]

(* ... and only the delay it gives stops the one that runs.                  *)
StopDelays(c, p) ==
  [p EXCEPT !.waiting = p.waiting /\ c.wait = Null,
            !.stray = p.stray /\ c.wait = Null,
            !.tap = IF c.twoTap = Null THEN p.tap ELSE "idle"]

Init ==
  /\ config \in {Options(c, NoOptions) : c \in {d \in Configs : IsScreen(d, NameOf[Primary])}}
  /\ clients = [n \in Name |-> IF n = GetName(Primary) THEN Primary ELSE Null]
  /\ clientSet = {Primary} /\ oldClients = {}
  /\ heap = [p \in Proxy |-> "unborn"]
  /\ active = Primary /\ saver = Null
  /\ pending = NoSwitchPending
  /\ locked \in BOOLEAN
  /\ entered = {Primary} /\ told = {} /\ screenSaver = FALSE
  /\ posted = FALSE /\ stopping = FALSE

(* adoptClient(): unknown and duplicate names are closed at once.            *)
AdoptClient(p) ==
  /\ heap[p] = "unborn"
  /\ heap' = [heap EXCEPT ![p] = "alive"]
  /\ posted' = FALSE
  /\ IF IsScreen(config, NameOf[p]) /\ clients[GetName(p)] = Null
     THEN /\ clients' = [clients EXCEPT ![GetName(p)] = p]
          /\ clientSet' = clientSet \cup {p}
          /\ told' = IF saver # Null THEN told \cup {p} ELSE told
          /\ UNCHANGED <<oldClients, cursor, saver>>
     ELSE /\ CloseClients(config, {p})
          /\ pending' = PendingAfterLeave({p})
  /\ UNCHANGED <<config, locked, screenSaver, stopping>>

(* handleClientDisconnected(): a connected or a closing client hangs up.     *)
ClientDisconnected(p) ==
  /\ p \in (clientSet \ {Primary}) \cup oldClients
  /\ IF p \in clientSet
     THEN /\ RemoveClients(config, {p})
          /\ ForceLeave({p})
          /\ pending' = PendingAfterLeave({p})
     ELSE UNCHANGED <<clients, clientSet, cursor, saver, told>>
  /\ oldClients' = oldClients \ {p}
  /\ heap' = [heap EXCEPT ![p] = "freed"]
  /\ posted' = (posted \/ LastOneOut)
  /\ UNCHANGED <<config, screenSaver, stopping, locked>>

\* Mutant: the timer only forgets the client, `delete client` is missing.
ClientCloseTimeoutLeaks(p) ==
  /\ p \in oldClients
  /\ oldClients' = oldClients \ {p}
  /\ UNCHANGED <<config, clients, clientSet, stopping, cursor, saving, locked, heap>>
  /\ posted' = (posted \/ LastOneOut)

\* Mutant: the timer does not report the last departure.
ClientCloseTimeoutSilent(p) ==
  /\ p \in oldClients
  /\ oldClients' = oldClients \ {p}
  /\ heap' = [heap EXCEPT ![p] = "freed"]
  /\ UNCHANGED <<config, clients, clientSet, stopping, cursor, saving, locked, posted>>

(* handleClientCloseTimeout(): the 5 s timer of a closing client expires.    *)
ClientCloseTimeout(p) ==
  /\ p \in oldClients
  /\ oldClients' = oldClients \ {p}
  /\ heap' = [heap EXCEPT ![p] = "freed"]
  /\ UNCHANGED <<config, clients, clientSet, stopping, cursor, saving, locked>>
  /\ posted' = (posted \/ LastOneOut)

(* ServerApp::reloadConfig(): *m_config is overwritten before setConfig()    *)
(* looks at it.  setConfig() refuses one without the primary; otherwise it   *)
(* closes the clients whose key is no longer a canonical name and then       *)
(* processOptions() takes the options the configuration gives.               *)
SetConfig(c) ==
  LET gone == {clients[n] : n \in {m \in Name : ~IsCanonicalName(c, m)}} \ {Null, Primary}
  IN /\ IF IsScreen(c, NameOf[Primary])
        THEN /\ config' = Options(c, config)
             /\ CloseClients(c, gone)
             /\ pending' = StopDelays(c, PendingAfterLeave(gone))
        ELSE /\ config' = [config EXCEPT !.canon = c.canon]
             /\ NobodyLeaves
     /\ UNCHANGED <<heap, posted, stopping, screenSaver, locked>>

(* disconnect(): closes everyone, or reports at once that nobody is there.   *)
Disconnect ==
  /\ stopping' = TRUE
  /\ IF Cardinality({n \in Name : clients[n] # Null}) > 1 \/ oldClients # {}
     THEN /\ CloseClients(config, Connected \ {Primary})
          /\ pending' = PendingAfterLeave(Connected \ {Primary})
          /\ UNCHANGED posted
     ELSE posted' = TRUE /\ NobodyLeaves
  /\ UNCHANGED <<config, heap, screenSaver, locked>>

-----------------------------------------------------------------------------
(* Cursor motion, timers and hotkeys.                                        *)
(* These handlers use *m_active; once it is deleted what they do is undefined *)
(* and not modelled: the client that left stays m_active.                     *)
Usable == active \in clientSet
OthersKept == UNCHANGED <<registry, saving, locked>>

(* onMouseMovePrimary() away from every edge, or handleShapeChanged().       *)
MoveOnPrimary(fast, away) ==
  /\ active = Primary
  /\ pending' = NoSwitch(pending, fast, away)
  /\ UNCHANGED <<active, entered>> /\ OthersKept

(* onMouseMovePrimary() at an edge or a corner: the horizontal neighbour is  *)
(* tried first, then the vertical one.                                       *)
EdgeOfPrimary(dirh, dirv, in) ==
  /\ active = Primary
  /\ dirh # NoDir \/ dirv # NoDir
  /\ \E newh \in Neighbors(dirh) :
       LET h == IF dirh = NoDir THEN [ok |-> FALSE, p |-> pending]
                ELSE IsSwitchOkay(pending, newh, dirh, in)
       IN \/ h.ok /\ SwitchScreen(h.p, newh)
          \/ /\ ~h.ok
             /\ \E newv \in Neighbors(dirv) :
                  LET v == IF dirv = NoDir THEN [ok |-> FALSE, p |-> h.p]
                           ELSE IsSwitchOkay(h.p, newv, dirv, in)
                  IN \/ v.ok /\ SwitchScreen(v.p, newv)
                     \/ ~v.ok /\ pending' = v.p /\ UNCHANGED <<active, entered>>
  /\ OthersKept

(* onMouseMoveSecondary() that stays inside the active screen.               *)
MoveOnSecondary(fast, away) ==
  /\ Usable /\ active # Primary /\ pending.screen # Null
  /\ pending' = NoSwitch(pending, fast, away)
  /\ UNCHANGED <<active, entered>> /\ OthersKept

(* onMouseMoveSecondary() across an edge of the active screen.               *)
EdgeOfSecondary(dir, in) ==
  /\ Usable /\ active # Primary
  /\ \E new \in Neighbors(dir) :
       LET r == IsSwitchOkay(pending, new, dir, in)
       IN IF r.ok THEN SwitchScreen(r.p, new)
          ELSE pending' = r.p /\ UNCHANGED <<active, entered>>
  /\ OthersKept

(* handleSwitchWaitTimeout(): jumps to m_switchScreen, whatever it is now.   *)
SwitchWaitTimeout(held) ==
  /\ Usable /\ pending.waiting
  /\ IF IsLockedToScreen(held)
     THEN pending' = StopSwitch(pending) /\ UNCHANGED <<active, entered>>
     ELSE SwitchScreen(pending, pending.screen)
  /\ OthersKept

(* jumpToScreen(): handleSwitchToScreenEvent by name, and                    *)
(* handleSwitchInDirectionEvent to a neighbour.  Neither looks at the lock.  *)
JumpToScreen(dst) ==
  /\ Usable /\ dst \in Connected
  /\ SwitchScreen(pending, dst)
  /\ OthersKept

(* handleToggleScreenEvent(): the next key of m_clients, cyclically.         *)
ToggleScreen ==
  LET keys  == {n \in Name : clients[n] # Null}
      above == {n \in keys : n > GetName(active)}
      nexts == IF above # {} THEN above ELSE keys
  IN /\ Usable /\ Cardinality(keys) >= 2 /\ GetName(active) \in keys
     /\ \E n \in nexts : /\ \A m \in nexts : n <= m
                         /\ SwitchScreen(pending, clients[n])
     /\ OthersKept

(* handleLockCursorToScreenEvent().                                          *)
LockCursorToScreen ==
  /\ locked' = ~locked
  /\ UNCHANGED <<registry, cursor, saving>>

\* Mutant: a locked cursor is not taken home.
SaverActivatedLocked ==
  /\ Usable /\ ~screenSaver /\ screenSaver' = TRUE
  /\ saver' = active
  /\ IF active # Primary /\ ~IsLockedToScreen(FALSE)
     THEN SwitchScreen(pending, Primary) ELSE UNCHANGED cursor
  /\ told' = told \cup Connected
  /\ UNCHANGED <<registry, locked>>

(* onScreensaver(true): remember the screen, go home to the primary.         *)
SaverActivated ==
  /\ Usable /\ ~screenSaver /\ screenSaver' = TRUE
  /\ saver' = active
  /\ IF active # Primary THEN SwitchScreen(pending, Primary) ELSE UNCHANGED cursor
  /\ told' = told \cup Connected
  /\ UNCHANGED <<registry, locked>>

(* onScreensaver(false): go back to the remembered screen.                   *)
SaverDeactivated ==
  /\ Usable /\ screenSaver /\ screenSaver' = FALSE
  /\ IF saver \notin {Null, Primary} THEN SwitchScreen(pending, saver)
     ELSE UNCHANGED cursor
  /\ saver' = Null
  /\ told' = told \ Connected
  /\ UNCHANGED <<registry, locked>>

-----------------------------------------------------------------------------
Arrivals   == \E p \in Proxy : AdoptClient(p)
Departures ==
  \/ \E p \in Proxy : ClientDisconnected(p)
  \/ \E p \in Proxy : ClientCloseTimeout(p)
  \/ Disconnect
Reload == \E c \in Configs : SetConfig(c)
Motion ==
  \/ \E fast, away \in InTime : MoveOnPrimary(fast, away)
  \/ \E dirh \in Horizontal \cup {NoDir}, dirv \in Vertical \cup {NoDir}, in \in Inputs :
        EdgeOfPrimary(dirh, dirv, in)
  \/ \E fast, away \in InTime : MoveOnSecondary(fast, away)
  \/ \E dir \in Direction, in \in Inputs : EdgeOfSecondary(dir, in)
Timeout == \E held \in BOOLEAN : SwitchWaitTimeout(held)
Hotkeys ==
  \/ \E dst \in Screen : JumpToScreen(dst)
  \/ ToggleScreen
  \/ LockCursorToScreen
Saver == SaverActivated \/ SaverDeactivated

Next == Arrivals \/ Departures \/ Reload \/ Motion \/ Timeout \/ Hotkeys \/ Saver
Spec == Init /\ [][Next]_vars

(* The close timer of a client always fires unless the client hangs up first. *)
FairSpec == Spec /\ \A p \in Proxy : WF_vars(ClientCloseTimeout(p))

-----------------------------------------------------------------------------
(* Configurations under which a reload never changes the canonical name of a *)
(* reported name: aliases stay put, screens come and go.                     *)
StableNames ==
  \A c, d \in Configs, n \in Name : Canonical(c, n) = Canonical(d, n)

PendingSwitch == [screen : Screen \cup {Null}, dir : Direction \cup {NoDir},
                  waiting : BOOLEAN, stray : BOOLEAN,
                  tap : {"idle", "engaged", "armed"}]

(* Every variable stays in the range its C++ member can hold. *)
TypeOK ==
  /\ config \in [canon : [Name -> Name \cup {Null}], wait : BOOLEAN,
                 twoTap : BOOLEAN, noLock : BOOLEAN]
  /\ clients \in [Name -> Screen \cup {Null}]
  /\ clientSet \subseteq Screen /\ oldClients \subseteq Proxy
  /\ heap \in [Proxy -> {"unborn", "alive", "freed"}]
  /\ active \in Screen /\ saver \in Screen \cup {Null}
  /\ pending \in PendingSwitch
  /\ locked \in BOOLEAN /\ entered \subseteq Screen /\ told \subseteq Screen
  /\ screenSaver \in BOOLEAN /\ posted \in BOOLEAN /\ stopping \in BOOLEAN

(* removeActiveClient/removeOldClient/closeClient: a proxy object that has   *)
(* been adopted and not deleted is in exactly one of m_clientSet and         *)
(* m_oldClients, and a deleted one is in neither, so it is neither leaked,   *)
(* nor deleted twice, nor told anything after `delete client`.               *)
RegistrySafe ==
  /\ Primary \in clientSet
  /\ clientSet \cap oldClients = {}
  /\ \A p \in Proxy : p \in clientSet \cup oldClients <=> heap[p] = "alive"

(* m_clients and m_clientSet describe the same connections, each under the   *)
(* name getName() gives it now, so removeClient() erases the right entry.    *)
RegistryAgrees ==
  /\ Connected = clientSet
  /\ \A n \in Name : clients[n] # Null => GetName(clients[n]) = n

(* forceLeaveClient: m_activeSaver never outlives the connection it names,   *)
(* so the deactivation of the saver cannot jump to a screen that is gone.    *)
SaverConnected == saver \in clientSet \cup {Null}

(* handleSwitchWaitTimeout hands m_switchScreen to switchScreen, which       *)
(* asserts it is not nullptr: the timer never outlives the target.           *)
WaitHasTarget == pending.waiting => pending.screen # Null

(* closeClient/forceLeaveClient: "if this client is the active screen then   *)
(* we have to jump off of it" - m_active is always a connected screen.       *)
ActiveConnected == active \in clientSet

(* Exactly one screen has been entered and not left, and it is m_active:     *)
(* keys and motion go where the cursor is shown.                             *)
OneEntered == entered = {active}

(* When the last connection is gone ServerDisconnected has been queued since *)
(* the last arrival: whoever waits to shut down is woken.                    *)
LastDeparturePosted ==
  (clientSet = {Primary} /\ oldClients = {} /\ \E p \in Proxy : heap[p] = "freed")
     => posted

(* The three together: whatever order connections, hang-ups, close timers,   *)
(* reloads and a shutdown come in, the registries stay right.                *)
RegistriesAgree == RegistrySafe /\ RegistryAgrees /\ LastDeparturePosted

(* The cursor is at one connected screen, and so is where the saver returns. *)
Placed == ActiveConnected /\ OneEntered /\ SaverConnected

(* forceLeaveClient() takes the remembered screen for the place of the       *)
(* cursor: a client leaves while the cursor has been taken away from home    *)
(* during the saver, and it is the remembered screen or has the cursor.      *)
LeavesOnDetour ==
  saver # Null /\ active # Primary /\ {saver, active} \cap (clientSet \ clientSet') # {}

(* handleSwitchWaitTimeout() jumps to a target that has left.                *)
JumpsToGone == pending.waiting /\ pending.screen \notin clientSet /\ active' = pending.screen

(* m_active, the screens that were entered and m_activeSaver stay right      *)
(* through any order of arrivals, hang-ups, closes, reloads, motion, delays, *)
(* hotkeys and the saver, but for the two steps of the code that break them: *)
(* the departure forceLeaveClient() mistakes and the wait for a gone target. *)
CursorPlaced == [][Placed /\ ~LeavesOnDetour /\ ~JumpsToGone => Placed']_vars

(* isSwitchOkay: a pending wait aims at a screen that is still connected.    *)
TargetConnected == pending.waiting => pending.screen \in clientSet

(* Server.h: "all tests are always trying to reach the same screen in the    *)
(* same direction" - the position saved for the wait belongs to its target.  *)
AimIsTarget == pending.waiting => ~pending.stray

(* adoptClient: "activate screen saver on new client if active on the        *)
(* primary screen" - while it runs every connected client was told so.       *)
SaverTold == screenSaver => clientSet \ {Primary} \subseteq told

(* A closed client is eventually deleted, whether or not it hangs up.        *)
ClosedIsFreed == \A p \in Proxy : p \in oldClients ~> heap[p] = "freed"

(* After disconnect(), ServerDisconnected is queued, unless somebody         *)
(* connects in the meantime: ServerApp::closeServer need not hit its timer.  *)
DisconnectReported == stopping ~> (posted \/ clientSet # {Primary})

=============================================================================
