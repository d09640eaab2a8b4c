---------------------------- MODULE AlertPolicy ----------------------------
(***************************************************************************)
(* alert_policy: one alert per tracked object, and another when one that   *)
(* had stopped moves again.  It keeps a Track for each (stream, track_id). *)
(* handleEvent runs on the publishing tracker's thread and takes no lock;  *)
(* it is atomic here, which is right for a pipeline with one tracker.      *)
(*                                                                         *)
(* Time stamps are 64-bit unsigned (Wrap here); an object is at a place,   *)
(* and has moved when its place differs from the one it was last seen at.  *)
(***************************************************************************)
EXTENDS Naturals, Sequences

CONSTANTS Objects,     \* (stream, track_id) of confirmed tracks, of an allowed class
          Clocks,      \* see clock
          Stationary,  \* stationaryUsec
          Cooldown,    \* cooldownUsec
          Forget,      \* the 30 s after which a track is pruned
          Wrap         \* 2^64 in the code

VARIABLES clock,    \* the time stamps of the frames, chosen once: a sequence
          frame,    \* frames handled
          tracks,   \* each Track: [seen, at, last, alerted, since, stationary]
          lately,   \* each object: where it was in the last frames, oldest first, with
                    \* their time stamps: [at, pts]
          alert     \* reason of its alert in the last frame: "none", "new", "moving_again"
alertVars == <<clock, frame, tracks, lately, alert>>

NoTrack == [seen |-> FALSE, at |-> 0, last |-> 0, alerted |-> 0, since |-> 0,
            stationary |-> FALSE]

Rest == /\ frame = 0 /\ tracks = [o \in Objects |-> NoTrack]
        /\ lately = [o \in Objects |-> << >>] /\ alert = [o \in Objects |-> "none"]
Init == clock \in Clocks /\ Rest
Off == clock = << >> /\ Rest

-----------------------------------------------------------------------------
Minus(a, b) == (a + Wrap - b) % Wrap    \* of uint64_t

(* Mutation: the time a track is still is counted from when it was first seen. *)
NeverReset(t, moved, pts) ==
    [t EXCEPT !.stationary = ~moved /\ (@ \/ Minus(pts, t.since) >= Stationary)]

(* A track seen again: moving, or still long enough. *)
Motion(t, moved, pts) ==
    IF moved THEN [t EXCEPT !.since = pts, !.stationary = FALSE]
    ELSE LET since == IF t.since = 0 THEN pts ELSE t.since
         IN [t EXCEPT !.since = since,
                      !.stationary = @ \/ Minus(pts, since) >= Stationary]

Reason(t, moved) == IF ~t.seen THEN "new"
                    ELSE IF moved /\ t.stationary THEN "moving_again" ELSE "none"

Cooled(t, pts) == t.alerted = 0 \/ Cooldown = 0 \/ Minus(pts, t.alerted) >= Cooldown

Alerts(t, moved, pts) == IF Reason(t, moved) = "moving_again" /\ ~Cooled(t, pts) THEN "none"
                         ELSE Reason(t, moved)

Updated(t, place, pts) ==
    LET moved == t.at # place
        m == IF t.seen THEN Motion(t, moved, pts) ELSE [t EXCEPT !.seen = TRUE, !.since = pts]
    IN [m EXCEPT !.at = place, !.last = pts,
                 !.alerted = IF Alerts(t, moved, pts) # "none" THEN pts ELSE @]

Pruned(t, pts) == IF pts > t.last /\ pts - t.last > Forget THEN NoTrack ELSE t

(* A tracked_detection event: the objects in it and their places. *)
HandleEvent(places) ==
    LET pts == clock[frame + 1]
        here(o) == places[o] # 0
    IN /\ frame' = frame + 1
       /\ tracks' = [o \in Objects |->
              Pruned(IF here(o) THEN Updated(tracks[o], places[o], pts) ELSE tracks[o], pts)]
       /\ alert' = [o \in Objects |->
              IF here(o) THEN Alerts(tracks[o], tracks[o].at # places[o], pts) ELSE "none"]
       /\ lately' = [o \in Objects |->
              IF here(o) THEN Append(lately[o], [at |-> places[o], pts |-> pts])
              ELSE IF Pruned(tracks[o], pts).seen THEN lately[o] ELSE << >>]
       /\ UNCHANGED clock

Next == frame < Len(clock) /\ \E places \in [Objects -> 0..2] : HandleEvent(places)

Spec == Init /\ [][Next]_alertVars

-----------------------------------------------------------------------------
(* The first of the sightings since the object last moved, and the time since. *)
Since(s) == CHOOSE i \in DOMAIN s : /\ \A j \in i..Len(s) : s[j].at = s[Len(s)].at
                                    /\ i = 1 \/ s[i - 1].at # s[Len(s)].at
StillFor(o) == LET s == lately[o] IN s[Len(s)].pts - s[Since(s)].pts

(* "still this long => stationary" (alert_policy.cpp:15): a track is stationary just *)
(* when its object has stayed at one place that long, so that the second alert means *)
(* that a resting object has moved.  Not so when the time stamps start again while it *)
(* is seen: the difference wraps round, and the object is stationary at once.        *)
StationaryIsStill == \A o \in Objects :
    tracks[o].seen /\ lately[o] # << >> => (tracks[o].stationary <=> StillFor(o) >= Stationary)

(* It is so for an object whose time stamps have gone forward since it last moved,   *)
(* whatever they did before; 0 is no time stamp, but stands for none in the code.    *)
Forward(s) == s[Since(s)].pts > 0 /\ \A i \in (Since(s) + 1)..Len(s) : s[i].pts > s[i - 1].pts
StillByTheClock == \A o \in Objects :
    tracks[o].seen /\ lately[o] # << >> /\ Forward(lately[o])
        => (tracks[o].stationary <=> StillFor(o) >= Stationary)
=============================================================================
