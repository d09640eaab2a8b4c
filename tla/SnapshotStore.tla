---------------------------- MODULE SnapshotStore ----------------------------
(***************************************************************************)
(* store_snapshot: keeps the latest decoded picture and writes it to a file *)
(* when an event triggers it, no more often than once in an interval.  The  *)
(* frame handler runs on the stage's thread, event_cb on the publisher's;   *)
(* each takes the mutex for a moment only.  The encoding of the picture is  *)
(* left out: it may fail, as the writing of the file may.                   *)
(***************************************************************************)
EXTENDS Integers, FiniteSets

CONSTANTS Cameras,      \* stream ids
          Publishers,   \* threads that publish triggers
          MinInterval,  \* min_interval_ms
          MaxNow        \* the clock of a run

VARIABLES shot,       \* the latest picture: [stream, at], stream 0 for none
          wall,       \* now_wall_ms
          lastShot,   \* last_snapshot_ms
          taker,      \* event_cb of each publisher: [at, now, stream, shot]
          files       \* the files: [stream, shot, now]
snapshotVars == <<shot, wall, lastShot, taker, files>>

NoShot == [stream |-> 0, at |-> 0]
Resting == [at |-> "idle", now |-> 0, stream |-> 0, shot |-> NoShot]

Init == /\ shot = NoShot /\ lastShot = 0 /\ files = {}
        /\ wall = MinInterval    \* far from 0, which stands for no snapshot
        /\ taker = [p \in Publishers |-> Resting]

-----------------------------------------------------------------------------
Tick == wall < MaxNow /\ wall' = wall + 1 /\ UNCHANGED <<shot, lastShot, taker, files>>

(* handle_frame *)
HandleFrame(c) == /\ shot' = [stream |-> c, at |-> wall] /\ shot' # shot
                  /\ UNCHANGED <<wall, lastShot, taker, files>>

(* should_snapshot *)
ShouldSnapshot(now, last) == now - last >= MinInterval

(* event_cb reads the clock and the time of the last snapshot, and decides. *)
EventCb(p) == /\ taker[p].at = "idle" /\ ShouldSnapshot(wall, lastShot)
              /\ taker' = [taker EXCEPT ![p] = [Resting EXCEPT !.at = "decided", !.now = wall]]
              /\ UNCHANGED <<shot, wall, lastShot, files>>

(* Mutation: the slot is reserved when the file is written. *)
ReservedLate(p) == lastShot
Reserved(p) == taker[p].now

(* take_snapshot: with the mutex, the picture is copied and the slot reserved. *)
Copy(p) ==
    /\ taker[p].at = "decided"
    /\ IF shot = NoShot
       THEN taker' = [taker EXCEPT ![p] = Resting] /\ UNCHANGED lastShot
       ELSE /\ taker' = [taker EXCEPT ![p].at = "copied", ![p].stream = shot.stream,
                                      ![p].shot = shot]
            /\ lastShot' = Reserved(p)
    /\ UNCHANGED <<shot, wall, files>>

(* Mutation: the file is named for the latest picture's stream. *)
NamedForLatest(p) == shot.stream
NamedFor(p) == taker[p].stream

(* Without it, encoding and writing, which may fail, and the event. *)
Write(p) ==
    /\ taker[p].at = "copied" /\ taker' = [taker EXCEPT ![p] = Resting]
    /\ files' \in {files, files \union
            {[stream |-> NamedFor(p), shot |-> taker[p].shot, now |-> taker[p].now]}}
    /\ UNCHANGED <<shot, wall, lastShot>>

Next == Tick \/ (\E c \in Cameras : HandleFrame(c))
             \/ \E p \in Publishers : EventCb(p) \/ Copy(p) \/ Write(p)
Spec == Init /\ [][Next]_snapshotVars

-----------------------------------------------------------------------------
(* A file named for a camera holds a picture of that camera. *)
NamedRight == \A f \in files : f.stream = f.shot.stream

(* "Throttle: even for a matching type, returns false unless (now_ms - last_ms) >=     *)
(* min_interval_ms" (snapshot_util.hpp:47): snapshots are that far apart.  Not so with  *)
(* two publishers: the second may decide before the first has reserved its slot.        *)
Spaced == \A f, g \in files : f # g => f.now - g.now >= MinInterval \/ g.now - f.now >= MinInterval
=============================================================================
