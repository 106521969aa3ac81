----------------------------- MODULE ScreenLinks -----------------------------
(***************************************************************************)
(* Where the cursor goes: the links between screens that the configuration *)
(* reads (engine/src/src/lib/server/Config.cpp), the search for the        *)
(* neighbour a motion leads to, over screens that are not connected and    *)
(* over screens it flies past, and the position on it (Server.cpp).        *)
(* Whether a switch is permitted, and its delay, is ServerScreens; here it *)
(* is a choice.  A position is <<x, y>>; a side has an axis, 1 or 2, along *)
(* which the cursor leaves, and the other one across it.  Positions on an  *)
(* edge are exact fractions where the code rounds to a float.              *)
(***************************************************************************)
EXTENDS Integers, FiniteSets

CONSTANTS
  Screen,      \* screen names, all canonical
  Primary,     \* the server's own
  NoScreen,        \* nullptr, the empty name
  Shape,       \* each screen's [at, size], both <<x, y>>
  Zone,        \* getJumpZoneSize() of the primary
  Parts,       \* an interval of an edge is in Parts-ths of it
  Candidates,  \* the links a configuration may hold
  Motions,     \* the motions of the mouse over a client, <<dx, dy>>
  MaxWalk      \* bound on a search: one that takes longer never ends,
               \* as it has met a screen twice

Side == {"left", "right", "up", "down"}
Link == [from : Screen, side : Side, part : (0..Parts) \X (0..Parts),
         to : Screen, onto : (0..Parts) \X (0..Parts)]

ASSUME LinksAssumption ==
  /\ Primary \in Screen /\ NoScreen \notin Screen \cup Side
  /\ Zone \in Nat /\ Parts \in Nat \ {0} /\ Motions \subseteq Int \X Int
  /\ IsFiniteSet(Screen) /\ MaxWalk \in Nat /\ Cardinality(Screen) <= MaxWalk
  /\ Candidates \subseteq {l \in Link : l.part[1] < l.part[2] /\ l.onto[1] < l.onto[2]}

(* A screen has a size (ClientProxy1_0::recvInfo() refuses one that has      *)
(* none), and the primary is larger than its jump zones.                     *)
ASSUME ShapeAssumption ==
  /\ Shape \in [Screen -> [at : Int \X Int, size : (Nat \ {0}) \X (Nat \ {0})]]
  /\ Zone < Shape[Primary].size[1] /\ Zone < Shape[Primary].size[2]

VARIABLES
  links,      \* m_map: the links of every cell
  reading,    \* the configuration is still being read
  connected,  \* the screens in m_clients
  active,     \* m_active
  pos,        \* <<m_x, m_y>>
  heading,    \* history: the side through which the last switch went
  beyond,     \* history: the screen it found ahead of where it ended
  hung        \* a search never ends

linksVars == <<links, reading, connected, active, pos, heading, beyond, hung>>

InitLinks ==
  /\ links = {} /\ reading = TRUE
  /\ connected = {Primary} /\ active = Primary /\ pos = Shape[Primary].at
  /\ heading = NoScreen /\ beyond = NoScreen /\ hung = FALSE

-----------------------------------------------------------------------------
(* The cells.  m_neighbors is ordered by side and start, so lookups see the  *)
(* last link that starts at or before a place, and the next one.             *)
OnSide(s, side) == {l \in links : l.from = s /\ l.side = side}
Before(ls, p) == {l \in ls : l.part[1] <= p /\ \A m \in ls : m.part[1] <= p => m.part[1] <= l.part[1]}
After(ls, p)  == {l \in ls : l.part[1] > p /\ \A m \in ls : m.part[1] > p => l.part[1] <= m.part[1]}

\* CellEdge::overlaps().
Overlap(x, y) ==
  \/ x[1] >= y[1] /\ x[1] < y[2]
  \/ x[2] > y[1] /\ x[2] <= y[2]
  \/ y[1] >= x[1] /\ y[1] < x[2]
  \/ y[2] > x[1] /\ y[2] <= x[2]

\* Mutant: only the next link is looked at.
OverlapsAhead(ls, part) == \E l \in After(ls, part[1]) : Overlap(l.part, part)

\* Cell::overlaps().
Overlaps(ls, part) ==
  \E l \in After(ls, part[1]) \cup Before(ls, part[1]) : Overlap(l.part, part)

\* Cell::add(): a link may be replaced exactly, and may not overlap others.
Added(l) ==
  LET ls   == OnSide(l.from, l.side)
      same == {m \in ls : m.part[1] = l.part[1]}
  IN IF ~(\E m \in same : m.part = l.part) /\ Overlaps(ls, l.part)
     THEN NoScreen ELSE (links \ same) \cup {l}

\* readSectionLinks(): at a link that is refused it throws, what was read is dropped
\* (no configuration was in force before), and another one may be read.
ReadLink(l) ==
  /\ reading /\ l \in Candidates
  /\ links' = IF Added(l) = NoScreen THEN {} ELSE Added(l)
  /\ UNCHANGED <<reading, connected, active, pos, heading, beyond, hung>>

EndOfConfig ==
  /\ reading /\ reading' = FALSE
  /\ UNCHANGED <<links, connected, active, pos, heading, beyond, hung>>

-----------------------------------------------------------------------------
(* Fractions of an edge, <<numerator, denominator>>.                         *)
IsInside(part, t) == part[1] * t[2] <= t[1] * Parts /\ t[1] * Parts < part[2] * t[2]

\* transform() on the link's own part, inverseTransform() on the other's.
Transformed(l, t) ==
  LET a == l.part  c == l.onto
  IN <<(t[1] * Parts - a[1] * t[2]) * (c[2] - c[1]) + c[1] * t[2] * (a[2] - a[1]),
       t[2] * Parts * (a[2] - a[1])>>

\* Cell::getLink(): a set of one link or none.
GetLink(s, side, t) ==
  LET ls == OnSide(s, side)
      \* the start at or before t
      before == {l \in ls : l.part[1] * t[2] <= t[1] * Parts /\
                   \A m \in ls : m.part[1] * t[2] <= t[1] * Parts => m.part[1] <= l.part[1]}
  IN {l \in before : IsInside(l.part, t)}

-----------------------------------------------------------------------------
(* Searching.                                                                *)
Axis(side)   == IF side \in {"left", "right"} THEN 1 ELSE 2
Across(side) == 3 - Axis(side)
Ahead(side)  == side \in {"right", "down"}
Opposite(side) ==
  CASE side = "left" -> "right" [] side = "right" -> "left"
    [] side = "up" -> "down" [] side = "down" -> "up"

\* Mutant: the near edge of the pixel.
FractionNear(s, side, p) ==
  LET a == Across(side) IN <<p[a] - Shape[s].at[a], Shape[s].size[a]>>

\* mapToFraction(): the middle of the pixel.
Fraction(s, side, p) ==
  LET a == Across(side) IN <<2 * (p[a] - Shape[s].at[a]) + 1, 2 * Shape[s].size[a]>>

\* mapToPixel().
Pixel(s, side, t) ==
  LET a == Across(side) IN (t[1] * Shape[s].size[a]) \div t[2] + Shape[s].at[a]

\* getNeighbor(): the screens it walks over, and where it stops.
Along(l, t)  == [screen |-> l.to, t |-> Transformed(l, t), done |-> l.to \in connected]
Step(s, side, t) ==
  LET ls == GetLink(s, side, t)
  IN IF ls = {} THEN [screen |-> NoScreen, t |-> t, done |-> TRUE]
     ELSE Along(CHOOSE l \in ls : TRUE, t)
Further(w, side) == IF w.done THEN w ELSE Step(w.screen, side, w.t)

\* Mutant: a screen that is off is searched for from the source again.
GetNeighborAgain(src, side, p) ==
  Step(src, side, Fraction(src, side, p))

Walk(src, side, p) ==
  LET walk[n \in 0..MaxWalk] ==
        IF n = 0 THEN Step(src, side, Fraction(src, side, p))
        ELSE Further(walk[n - 1], side)
  IN walk
GetNeighbor(src, side, p) == Walk(src, side, p)[MaxWalk]

\* mapToNeighbor(): over as many screens as the motion is long.  `way' is the
\* way left to go, from the near corner of the screen it has come to.
Origin(s, side) == Shape[s].at[Axis(side)]
Length(s, side) == Shape[s].size[Axis(side)]

\* Mutant: the length taken off is the entered screen's.
EnterShort(good, way, p, nb, side) ==
  LET onward == IF Ahead(side) THEN way - Length(nb.screen, side) ELSE way + Length(nb.screen, side)
  IN [screen |-> nb.screen, way |-> onward, endless |-> FALSE,
      p |-> [p EXCEPT ![Across(side)] = Pixel(nb.screen, side, nb.t)],
      there |-> IF Ahead(side) THEN onward < Length(nb.screen, side) ELSE onward >= 0]

Enter(good, way, p, nb, side) ==
  LET onward == IF Ahead(side) THEN way - Length(good, side) ELSE way + Length(nb.screen, side)
  IN [screen |-> nb.screen, way |-> onward, endless |-> FALSE,
      p |-> [p EXCEPT ![Across(side)] = Pixel(nb.screen, side, nb.t)],
      there |-> IF Ahead(side) THEN onward < Length(nb.screen, side) ELSE onward >= 0]

Nowhere(p)  == [screen |-> NoScreen, way |-> 0, endless |-> FALSE, p |-> p, there |-> TRUE]
Endless(p)  == [Nowhere(p) EXCEPT !.endless = TRUE]

Begin(src, side, p, nb) ==
  IF ~nb.done THEN Endless(p)
  ELSE IF nb.screen = NoScreen THEN Nowhere(p)
  ELSE Enter(src, p[Axis(side)] - Origin(src, side), p, nb, side)
Onward(c, side, nb) ==
  IF ~nb.done THEN Endless(c.p)
  ELSE IF nb.screen = NoScreen THEN [c EXCEPT !.there = TRUE]
  ELSE Enter(c.screen, c.way, c.p, nb, side)
Cross(c, side) == IF c.there THEN c ELSE Onward(c, side, GetNeighbor(c.screen, side, c.p))

\* Every screen takes a pixel of the way or more, so there are never more
\* screens than pixels to go.
ToGo(src, side, p) ==
  LET way == p[Axis(side)] - Origin(src, side) IN IF way < 0 THEN -way ELSE way
Crossing(src, side, p) ==
  LET cross[n \in 0..ToGo(src, side, p)] ==
        IF n = 0 THEN Begin(src, side, p, GetNeighbor(src, side, p))
        ELSE Cross(cross[n - 1], side)
  IN cross
Crossed(src, side, p) == Crossing(src, side, p)[ToGo(src, side, p)]

\* Mutant: the far pixel is counted twice.
AvoidJumpZoneFar(s, side, p) ==
  LET a    == Axis(side)
      back == GetLink(s, Opposite(side), Fraction(s, side, p))
      near == Shape[s].at[a] + Zone
      far  == Shape[s].at[a] + Shape[s].size[a] - Zone
  IN IF s # Primary \/ back = {} THEN p
     ELSE IF Ahead(side) /\ p[a] < near THEN [p EXCEPT ![a] = near]
     ELSE IF ~Ahead(side) /\ p[a] > far THEN [p EXCEPT ![a] = far]
     ELSE p

\* avoidJumpZone(): entering the primary where the other side has a link.
AvoidJumpZone(s, side, p) ==
  LET a    == Axis(side)
      back == GetLink(s, Opposite(side), Fraction(s, side, p))
      near == Shape[s].at[a] + Zone
      far  == Shape[s].at[a] + Shape[s].size[a] - 1 - Zone
  IN IF s # Primary \/ back = {} THEN p
     ELSE IF Ahead(side) /\ p[a] < near THEN [p EXCEPT ![a] = near]
     ELSE IF ~Ahead(side) /\ p[a] > far THEN [p EXCEPT ![a] = far]
     ELSE p

Landed(c, side) ==
  IF c.screen = NoScreen THEN c
  ELSE [c EXCEPT !.p = AvoidJumpZone(c.screen, side,
          [@ EXCEPT ![Axis(side)] = c.way + Origin(c.screen, side)])]
MapToNeighbor(src, side, p) == Landed(Crossed(src, side, p), side)

-----------------------------------------------------------------------------
(* Moving.                                                                   *)
Near(s, a) == Shape[s].at[a]
Far(s, a)  == Shape[s].at[a] + Shape[s].size[a] - 1
Pixels(s)  == {<<x, y>> : x \in Near(s, 1)..Far(s, 1), y \in Near(s, 2)..Far(s, 2)}
Clamp(s, p) ==
  [a \in {1, 2} |-> IF p[a] < Near(s, a) THEN Near(s, a)
                    ELSE IF p[a] > Far(s, a) THEN Far(s, a) ELSE p[a]]
Running == ~reading /\ ~hung
Rest    == UNCHANGED <<links, reading, connected>>

SwitchScreen(to, side) ==
  /\ to.screen # NoScreen
  /\ active' = to.screen /\ pos' = to.p /\ heading' = side /\ UNCHANGED hung
  /\ beyond' = GetNeighbor(to.screen, side, to.p).screen

Stay(p) == /\ pos' = p /\ heading' = NoScreen /\ beyond' = NoScreen
           /\ UNCHANGED <<active, hung>>
Hang    == hung' = TRUE /\ UNCHANGED <<active, pos, heading, beyond>>

\* onMouseMovePrimary(): the zones the cursor is in, the horizontal one first,
\* and the position beyond each.
InZone(side, p) ==
  LET a == Axis(side)
  IN IF Ahead(side) THEN p[a] > Far(Primary, a) - Zone ELSE p[a] < Near(Primary, a) + Zone
Beyond(side, p) ==
  [p EXCEPT ![Axis(side)] = IF Ahead(side) THEN @ + Zone ELSE @ - Zone]

ZoneOn(axis, p) == {side \in Side : Axis(side) = axis /\ InZone(side, p)}
Tried(p) ==
  LET first(a) == IF a = 1 /\ InZone("left", p) THEN {"left"}
                  ELSE IF a = 2 /\ InZone("up", p) THEN {"up"} ELSE ZoneOn(a, p)
  IN first(1) \cup first(2)

OnMouseMovePrimary(p) ==
  /\ Running /\ active = Primary
  /\ \E to \in {[side \in Tried(p) |-> MapToNeighbor(Primary, side, Beyond(side, p))]} :
       LET Reached(side) ==
             Axis(side) = 1 \/ \A other \in DOMAIN to \ {side} : ~to[other].endless
       IN \/ \E side \in DOMAIN to : Reached(side) /\ SwitchScreen(to[side], side)
          \/ \E side \in DOMAIN to : Reached(side) /\ to[side].endless /\ Hang
          \/ (\A side \in DOMAIN to : ~to[side].endless) /\ Stay(p)
  /\ Rest

\* onMouseMoveSecondary().
Left(s, p) ==
  IF p[1] < Near(s, 1) THEN "left" ELSE IF p[1] > Far(s, 1) THEN "right"
  ELSE IF p[2] < Near(s, 2) THEN "up" ELSE IF p[2] > Far(s, 2) THEN "down" ELSE NoScreen

OnMouseMoveSecondary(d) ==
  /\ Running /\ active # Primary
  /\ LET p == <<pos[1] + d[1], pos[2] + d[2]>>
     IN \/ Left(active, p) = NoScreen /\ Stay(p)
        \/ \E side \in {Left(active, p)} \ {NoScreen} :
             \E to \in {MapToNeighbor(active, side, p)} :
               \/ ~to.endless /\ (SwitchScreen(to, side) \/ Stay(Clamp(active, p)))
               \/ to.endless /\ Hang
  /\ Rest

-----------------------------------------------------------------------------
(* Clients come and go; forceLeaveClient() takes the cursor home.            *)
Center(s) == [a \in {1, 2} |-> Near(s, a) + Shape[s].size[a] \div 2]

AddClient(c) ==
  /\ Running /\ c \notin connected /\ connected' = connected \cup {c}
  /\ UNCHANGED <<links, reading, active, pos, heading, beyond, hung>>

RemoveClient(c) ==
  /\ Running /\ c \in connected \ {Primary} /\ connected' = connected \ {c}
  /\ IF active = c
     THEN active' = Primary /\ pos' = Center(Primary)
          /\ heading' = NoScreen /\ beyond' = NoScreen
     ELSE UNCHANGED <<active, pos, heading, beyond>>
  /\ UNCHANGED <<links, reading, hung>>

NextLinks ==
  \/ EndOfConfig
  \/ \E l \in Candidates : ReadLink(l)
  \/ \E p \in Pixels(Primary) : OnMouseMovePrimary(p)
  \/ \E d \in Motions : OnMouseMoveSecondary(d)
  \/ \E c \in Screen : AddClient(c) \/ RemoveClient(c)

LinksSpec == InitLinks /\ [][NextLinks]_linksVars

-----------------------------------------------------------------------------
(* However the links were read, those of a side never overlap, and a         *)
(* position on it leads through the one link it lies in (Config.cpp:1234,    *)
(* :1305).                                                                   *)
Fractions == {<<n, 4 * Parts>> : n \in 0..4 * Parts - 1}
LinksFound ==
  reading => \A s \in Screen, side \in Side :
    /\ \A l, m \in OnSide(s, side) : l # m => l.part[2] <= m.part[1] \/ m.part[2] <= l.part[1]
    /\ \A t \in Fractions : GetLink(s, side, t) = {l \in OnSide(s, side) : IsInside(l.part, t)}

(* Wherever a motion leads, over screens that are off, past screens it flies *)
(* over and through links of parts of an edge, the cursor is at a pixel of a *)
(* connected screen; or past the screen that was the last in its direction   *)
(* when it went there.                                                       *)
Past(side, s, p) ==
  LET a == Axis(side) IN IF Ahead(side) THEN p[a] > Far(s, a) ELSE p[a] < Near(s, a)
Overshot ==
  /\ heading # NoScreen /\ Past(heading, active, pos) /\ beyond = NoScreen
  /\ Clamp(active, pos)[Across(heading)] = pos[Across(heading)]
CursorInside == active \in connected /\ (pos \in Pixels(active) \/ Overshot)

(* The cursor is always at a pixel of its screen.                            *)
NeverOutside == pos \in Pixels(active)

(* A switch to the primary does not leave the cursor where the next report   *)
(* of it would switch straight back (Server.cpp:826).                        *)
NoBounce ==
  heading # NoScreen /\ active = Primary =>
    ~(/\ InZone(Opposite(heading), pos)
      /\ GetLink(Primary, Opposite(heading), Fraction(Primary, heading, pos)) # {})

(* A search that never ends has met screens that are off and linked in a     *)
(* ring.                                                                     *)
Ring(side) ==
  \E r \in SUBSET (Screen \ connected) :
    r # {} /\ \A s \in r : \E l \in OnSide(s, side) : l.to \in r
HangsInRings == hung => \E side \in Side : Ring(side)

(* Across whole edges linked both ways, into a screen at least as long and   *)
(* back is the way to the pixel one came from (mapToFraction()).             *)
Whole == <<0, Parts>>
Linked(s, side, d) == \E l \in OnSide(s, side) : l.to = d /\ l.part = Whole /\ l.onto = Whole
ThereAndBack ==
  reading => \A s, d \in Screen, side \in Side :
    /\ Linked(s, side, d) /\ Linked(d, Opposite(side), s)
    /\ Shape[s].size[Across(side)] <= Shape[d].size[Across(side)]
    => \A p \in Pixels(s) :
         LET there == Step(s, side, Fraction(s, side, p))
             q     == [Shape[d].at EXCEPT ![Across(side)] = Pixel(d, side, there.t)]
             back  == Step(d, Opposite(side), Fraction(d, Opposite(side), q))
         IN Pixel(s, side, back.t) = p[Across(side)]

(* What a reading of the links says of every position on every edge.         *)
LinksMap == LinksFound /\ ThereAndBack

(* Where a motion or a switch leaves the cursor.                             *)
CursorKept == CursorInside /\ NoBounce

(* getNeighbor() gives up when it can make no more progress (Server.cpp:694).*)
SearchEnds == ~hung
=============================================================================
