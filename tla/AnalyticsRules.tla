--------------------------- MODULE AnalyticsRules ---------------------------
(***************************************************************************)
(* analytics_rules: intrusion, tripwire and loitering alarms from the ground *)
(* positions of tracked objects.  handleEvent holds `mutex` throughout, its *)
(* alarms included, so it is one step.  The geometry (geometry.hpp) is      *)
(* computed as the code computes it, on a grid of integers; its quotients   *)
(* are multiplied out.                                                     *)
(***************************************************************************)
EXTENDS Integers, Sequences, FiniteSets

CONSTANTS Rules,    \* sequence of [type, polygon, line, direction, seconds]
          Places,   \* ground positions [x, y]
          Tracks,   \* (stream, track_id) of events the rules apply to
          Stamps,   \* see stamps
          Forget    \* kStaleTrackUsec

VARIABLES stamps,  \* the pts_usec of the events to come, chosen once: a sequence
          tracks,  \* TrackState of each track: [known, prev, lastSeen, zones]
          path,    \* its positions since it became known: [at, pts]
          alarms   \* alarms raised for it since then: [rule, step]
rulesVars == <<stamps, tracks, path, alarms>>

(* A track that has no TrackState: the map makes one on first use. *)
Unknown == [known |-> FALSE, prev |-> CHOOSE p \in Places : TRUE, lastSeen |-> 0,
            zones |-> [r \in DOMAIN Rules |-> [inside |-> FALSE, fired |-> FALSE, enter |-> 0]]]

Rest == /\ tracks = [k \in Tracks |-> Unknown]
        /\ path = [k \in Tracks |-> << >>] /\ alarms = [k \in Tracks |-> {}]
Init == stamps \in Stamps /\ Rest
Off == stamps = << >> /\ Rest

-----------------------------------------------------------------------------
(* geometry.hpp *)
Least(a, b) == IF a < b THEN a ELSE b
Most(a, b) == IF a > b THEN a ELSE b

cross(o, a, b) == (a.x - o.x) * (b.y - o.y) - (a.y - o.y) * (b.x - o.x)

InBox(q, p, r) == /\ Least(p.x, r.x) <= q.x /\ q.x <= Most(p.x, r.x)
                  /\ Least(p.y, r.y) <= q.y /\ q.y <= Most(p.y, r.y)

(* The ray from p towards +x crosses the edge from a to b. *)
RayCrosses(a, b, p) ==
    /\ (a.y > p.y) # (b.y > p.y)
    /\ LET dy == b.y - a.y
           n == (b.x - a.x) * (p.y - a.y)
       IN IF dy > 0 THEN (p.x - a.x) * dy < n ELSE (p.x - a.x) * dy > n

Edges(poly) == {<<poly[i], poly[IF i = 1 THEN Len(poly) ELSE i - 1]>> : i \in DOMAIN poly}

(* Mutation: without the test for points on an edge. *)
strictly_in_polygon(poly, p) ==
    Cardinality({e \in Edges(poly) : RayCrosses(e[1], e[2], p)}) % 2 = 1

point_in_polygon(poly, p) ==
    \/ \E e \in Edges(poly) : cross(e[1], e[2], p) = 0 /\ InBox(p, e[1], e[2])
    \/ Cardinality({e \in Edges(poly) : RayCrosses(e[1], e[2], p)}) % 2 = 1

orientation(p, q, r) == LET v == (q.y - p.y) * (r.x - q.x) - (q.x - p.x) * (r.y - q.y)
                        IN IF v = 0 THEN 0 ELSE IF v > 0 THEN 1 ELSE 2

segments_intersect(a, b, c, d) ==
    \/ /\ orientation(a, b, c) # orientation(a, b, d)
       /\ orientation(c, d, a) # orientation(c, d, b)
    \/ orientation(a, b, c) = 0 /\ InBox(c, a, b)
    \/ orientation(a, b, d) = 0 /\ InBox(d, a, b)
    \/ orientation(c, d, a) = 0 /\ InBox(a, c, d)
    \/ orientation(c, d, b) = 0 /\ InBox(b, c, d)

crossingDirection(line, prev, cur) ==
    LET sp == cross(line[1], line[2], prev)
        sc == cross(line[1], line[2], cur)
    IN IF sp > 0 /\ sc < 0 THEN "lr" ELSE IF sp < 0 /\ sc > 0 THEN "rl" ELSE "any"

-----------------------------------------------------------------------------
(* The latches: z is the rule's ZoneState for the track. *)
intrusion_step(z, in) == [fire |-> in /\ ~z.inside,
                          zone |-> [z EXCEPT !.inside = in, !.fired = @ /\ in]]

(* Mutation: the dwell clock is not restarted by a new entry. *)
loiter_resumes(z, in, pts, seconds) ==
    LET due == in /\ z.inside /\ ~z.fired /\ pts - z.enter >= seconds
    IN [fire |-> due,
        zone |-> IF in /\ ~z.inside
                 THEN [inside |-> TRUE, fired |-> FALSE,
                       enter |-> IF z.enter = 0 THEN pts ELSE z.enter]
                 ELSE [z EXCEPT !.inside = in, !.fired = (@ \/ due) /\ in]]

loiter_step(z, in, pts, seconds) ==
    LET due == in /\ z.inside /\ ~z.fired /\ pts >= z.enter /\ pts - z.enter >= seconds
    IN [fire |-> due,
        zone |-> IF in /\ ~z.inside THEN [inside |-> TRUE, fired |-> FALSE, enter |-> pts]
                 ELSE [z EXCEPT !.inside = in, !.fired = (@ \/ due) /\ in]]

(* Rule r for a track in state t, seen at cur: whether it fires, and its latch. *)
Step(r, t, z, cur, pts) ==
    CASE r.type = "intrusion" -> intrusion_step(z, point_in_polygon(r.polygon, cur))
      [] r.type = "loiter" -> loiter_step(z, point_in_polygon(r.polygon, cur), pts, r.seconds)
      [] r.type = "linecross" ->
            [fire |-> /\ t.known /\ segments_intersect(t.prev, cur, r.line[1], r.line[2])
                      /\ r.direction \in {"any", crossingDirection(r.line, t.prev, cur)},
             zone |-> z]

(* emitAlarm, emitLoiter, emitLineCross: which rule, and at which step of the path. *)
Alarm(r, step) == [rule |-> r, step |-> step]

Pruned(t, pts) == IF pts >= t.lastSeen /\ pts - t.lastSeen > Forget THEN Unknown ELSE t

(* A tracked_detection event: `at` says where the tracks it names are. *)
HandleEvent(pts, at) ==
    LET old(k) == Pruned(tracks[k], pts)
        seen == DOMAIN at
        trail(k) == IF old(k).known THEN path[k] ELSE << >>
        did(k, r) == Step(Rules[r], old(k), old(k).zones[r], at[k], pts)
    IN /\ tracks' = [k \in Tracks |->
              IF k \in seen
              THEN [known |-> TRUE, prev |-> at[k], lastSeen |-> pts,
                    zones |-> [r \in DOMAIN Rules |-> did(k, r).zone]]
              ELSE old(k)]
       /\ path' = [k \in Tracks |->
              IF k \in seen THEN Append(trail(k), [at |-> at[k], pts |-> pts]) ELSE trail(k)]
       /\ alarms' = [k \in Tracks |->
              (IF old(k).known THEN alarms[k] ELSE {}) \union
              (IF k \in seen
               THEN {Alarm(r, Len(trail(k)) + 1) :
                       r \in {r \in DOMAIN Rules : did(k, r).fire}}
               ELSE {})]

Next == /\ stamps # << >> /\ stamps' = Tail(stamps)
        /\ \E seen \in SUBSET Tracks : \E at \in [seen -> Places] : HandleEvent(Head(stamps), at)

Spec == Init /\ [][Next]_rulesVars

-----------------------------------------------------------------------------
(* The rules' meaning, over the whole path of a track.  A polygon of the setups is  *)
(* convex with its corners in one turning sense: inside is on one side of each edge. *)
Inside(poly, p) == LET side == {cross(e[1], e[2], p) : e \in Edges(poly)}
                   IN (\A s \in side : s >= 0) \/ (\A s \in side : s <= 0)

In(k, r, i) == Inside(Rules[r].polygon, path[k][i].at)

(* The step of the path at which the visit that step i belongs to began. *)
Entry(k, r, i) == CHOOSE e \in 1..i : /\ \A j \in e..i : In(k, r, j)
                                      /\ e = 1 \/ ~In(k, r, e - 1)

Lingers(k, r, i) == /\ i > 1 /\ In(k, r, i) /\ In(k, r, i - 1)
                    /\ path[k][i].pts - path[k][Entry(k, r, i)].pts >= Rules[r].seconds

Due(k, r, i) ==
    CASE Rules[r].type = "intrusion" -> In(k, r, i) /\ (i = 1 \/ ~In(k, r, i - 1))
      [] Rules[r].type = "loiter" -> /\ Lingers(k, r, i)
                                     /\ \A j \in Entry(k, r, i)..(i - 1) : ~Lingers(k, r, j)

(* An object that enters a polygon raises the intrusion alarm once for each visit,  *)
(* and one that stays there for a rule's time raises the loitering alarm once for   *)
(* each visit: just at the step where it is due, whatever it did before.            *)
AlarmPerVisit == \A k \in Tracks : \A r \in DOMAIN Rules : Rules[r].type # "linecross" =>
    {a.step : a \in {a \in alarms[k] : a.rule = r}} = {i \in DOMAIN path[k] : Due(k, r, i)}

(* The side of the tripwire an object is on, if it does not stand on it, and the passages *)
(* from left to right in one step of its path.                                           *)
Left(r, p) == cross(Rules[r].line[1], Rules[r].line[2], p) > 0
Right(r, p) == cross(Rules[r].line[1], Rules[r].line[2], p) < 0
Strides(k, r, i) == i > 1 /\ Left(r, path[k][i - 1].at) /\ Right(r, path[k][i].at)

(* An object that strides from left to right over a tripwire that spans the picture is *)
(* reported at that step, each time, and at no other step.                             *)
StridesReported == \A k \in Tracks : \A r \in DOMAIN Rules :
    Rules[r].type = "linecross" /\ Rules[r].direction = "lr" =>
        {a.step : a \in {a \in alarms[k] : a.rule = r}} = {i \in DOMAIN path[k] : Strides(k, r, i)}

(* Between steps i and j it has passed, the steps at which it stood on the line left *)
(* out.                                                                              *)
Passes(k, r, i, j) ==
    /\ i < j /\ Left(r, path[k][i].at) /\ Right(r, path[k][j].at)
    /\ \A m \in (i + 1)..(j - 1) : ~Left(r, path[k][m].at) /\ ~Right(r, path[k][m].at)

(* "linecross : object's path crosses a tripwire line (with direction)"             *)
(* (analytics_rules.cpp:6): an object that passes from left to right is reported.   *)
(* Not so when it was seen standing on the line in between: neither of the two steps *)
(* has a direction.                                                                 *)
PassesReported == \A k \in Tracks : \A r \in DOMAIN Rules :
    Rules[r].type = "linecross" /\ Rules[r].direction = "lr" =>
        \A i, j \in DOMAIN path[k] :
            Passes(k, r, i, j) => \E a \in alarms[k] : a.rule = r /\ a.step \in (i + 1)..j
=============================================================================
