---------------------------- MODULE ReviewExport ----------------------------
(***************************************************************************)
(* review_export: collects cutouts of tracked objects while a clip is being *)
(* recorded, and writes them beside it.  Frames come on the decoder's       *)
(* thread, events (of the stores, the tracker and motion_pixel_diff) on     *)
(* their publishers'; every handler holds mtx, so each is one step.  Time   *)
(* stamps are frame numbers.                                                *)
(***************************************************************************)
EXTENDS Integers, Sequences, FiniteSets, SequencesExt

CONSTANTS Stores,      \* stores that publish on the bus
          Objects,     \* track ids
          MaxFrames,   \* frames of a run
          RingSize,    \* ringSize
          Tolerance,   \* matchTolUs
          MinGap,      \* between samples of a track
          MaxSamples   \* maxSamples

VARIABLES ring,        \* the frames kept: their pts
          pts,         \* pts of the last frame
          collecting,  \* [on, token, first, tubes, buffered]
          recording,   \* each store: the pts its clip opened at, or Idle
          assets       \* the last review_assets: [clip, token, first, tubes], or none
exportVars == <<ring, pts, collecting, recording, assets>>

Idle == -1
Nothing == [on |-> FALSE, token |-> 0, first |-> Idle, tubes |-> [o \in Objects |-> << >>],
            buffered |-> 0]
None == [clip |-> 0, token |-> 0, first |-> Idle, from |-> Idle,
         tubes |-> [o \in Objects |-> << >>]]

Init == /\ ring = << >> /\ pts = 0 /\ collecting = Nothing
        /\ recording = [s \in Stores |-> Idle] /\ assets = None

-----------------------------------------------------------------------------
(* on_frame *)
OnFrame == /\ pts < MaxFrames /\ pts' = pts + 1
           /\ ring' = LET r == Append(ring, pts + 1)
                      IN IF Len(r) > RingSize THEN Tail(r) ELSE r
           /\ collecting' = IF collecting.on /\ collecting.first = Idle
                            THEN [collecting EXCEPT !.first = pts + 1] ELSE collecting
           /\ UNCHANGED <<recording, assets>>

Apart(a, b) == IF a > b THEN a - b ELSE b - a

(* The frame nearest to a detection's pts, within the tolerance. *)
NearestFrame(p) == \E f \in ToSet(ring) : Apart(f, p) <= Tolerance

(* Mutation: the cap is on the samples of one batch. *)
RoomPerBatch(c) == MaxSamples
Room(c) == MaxSamples - c.buffered

(* Not throttled: the tube of object o is empty, or its last sample is a gap ago. *)
Due(o, p) == LET tube == collecting.tubes[o]
             IN tube = << >> \/ p - tube[Len(tube)] >= MinGap

Sampled(c, taken, p) ==
    [c EXCEPT !.tubes = [o \in Objects |-> IF o \in taken THEN Append(@[o], p) ELSE @[o]],
              !.buffered = @ + Cardinality(taken)]

(* tracked_detection, of a frame handled some frames ago: a sample of each object that is *)
(* due and can be cut out, in the order they are listed, until the buffer is full.       *)
OnTrackedDetection(p, seen) ==
    /\ collecting.on /\ NearestFrame(p)
    /\ \E taken \in SUBSET {o \in seen : Due(o, p)} :
           /\ Cardinality(taken) <= Room(collecting)
           /\ collecting' = Sampled(collecting, taken, p)
    /\ UNCHANGED <<ring, pts, recording, assets>>

(* Mutation: what an earlier recording collected stays. *)
KeepTubes(s) == [collecting EXCEPT !.on = TRUE, !.token = s]
Collection(s) == [Nothing EXCEPT !.on = TRUE, !.token = s]

(* Store s publishes RecordingOpening; its file may not open, then no EventClip follows. *)
RecordingOpening(s) ==
    /\ recording[s] = Idle
    /\ \E opens \in BOOLEAN : recording' = [recording EXCEPT ![s] = IF opens THEN pts ELSE Idle]
    /\ collecting' = Collection(s)
    /\ UNCHANGED <<ring, pts, assets>>

(* EventClip of store s: the assets, unless there are none. *)
EventClip(s) ==
    /\ recording[s] # Idle
    /\ recording' = [recording EXCEPT ![s] = Idle]
    /\ assets' = IF collecting.on /\ collecting.buffered > 0
                 THEN [clip |-> s, token |-> collecting.token, first |-> collecting.first,
                       from |-> recording[s], tubes |-> collecting.tubes]
                 ELSE assets
    /\ collecting' = IF collecting.on THEN Nothing ELSE collecting
    /\ UNCHANGED <<ring, pts>>

Next == \/ OnFrame
        \/ \E p \in (pts - 1)..pts : \E seen \in SUBSET Objects \ {{}} :
               p > 0 /\ OnTrackedDetection(p, seen)
        \/ \E s \in Stores : RecordingOpening(s) \/ EventClip(s)

-----------------------------------------------------------------------------
(* The assets written beside a clip are of the clip's time, however many stores record: *)
(* their samples come from the frames of its recording (that before it opened          *)
(* included), for each object in the order of the frames and no closer than the         *)
(* sampling rate, and no more of them than the buffer holds.                            *)
AssetsOfTheClip == assets # None =>
    /\ \A o \in Objects : LET t == assets.tubes[o] IN
          /\ \A i \in DOMAIN t : t[i] >= assets.from - 1
          /\ \A i \in 2..Len(t) : t[i] - t[i - 1] >= MinGap
    /\ Cardinality({p \in Objects \X (1..MaxFrames) : p[2] <= Len(assets.tubes[p[1]])})
          <= MaxSamples

(* "Current recording collection (one in-flight clip; store is single-recording)"       *)
(* (review_export.cpp:105): the assets beside a clip carry its own token.  Not so with  *)
(* two stores: the second to open takes the collection over.                            *)
ClipsToken == assets # None => assets.token = assets.clip
=============================================================================
