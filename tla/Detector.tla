------------------------------ MODULE Detector ------------------------------
(***************************************************************************)
(* detect_onnx for the frames of one camera: which part of each picture is  *)
(* given to the model.  On CUDA surfaces a motion gate may spare the model  *)
(* pictures that do not change, with a sweep over the whole picture now and *)
(* then for what stands still.  on_frame runs on the stage's thread.  A     *)
(* picture is a row of cells, an object fills one of them; what the model   *)
(* makes of a picture is left out, as are letterbox, crops' margins and     *)
(* embeddings.                                                              *)
(***************************************************************************)
EXTENDS Naturals, FiniteSets, FiniteSetsExt

CONSTANTS Setups,       \* [gate: "whole", "bbox" or "regions"; shared; frames: "cuda", "rgb";
                        \* restarts: may the time stamps start again at 0;
                        \* fails: may an inference throw]
          Objects,
          Cells,        \* 1..n
          MaxRegions,   \* maxRegions
          Sweep,        \* fullSweepSec
          Gaps,         \* pts between frames
          MaxPts        \* pts of a run

VARIABLES setup,     \* the configuration
          where,     \* the object's cell, 0 when it is away
          grid,      \* prevGrid: the object in each cell, Unset at first
          clock,     \* pts of the last frame
          swept,     \* [once, at]: sweptOnce, lastSweepUsec
          unseen     \* for how long the model has not been shown the object
detectorVars == <<setup, where, grid, clock, swept, unseen>>

Unset == << >>
Picture(w) == [c \in Cells |-> IF \E o \in Objects : w[o] = c
                               THEN CHOOSE o \in Objects : w[o] = c ELSE 0]
Scenes == {w \in [Objects -> Cells \union {0}] :
              \A a, b \in Objects : a # b /\ w[a] = w[b] => w[a] = 0}

Init == /\ setup \in Setups
        /\ where = [o \in Objects |-> 0] /\ unseen = [o \in Objects |-> 0]
        /\ grid = Unset /\ clock = 0 /\ swept = [once |-> FALSE, at |-> 0]

-----------------------------------------------------------------------------
Changed(w) == IF grid = Unset THEN {} ELSE {c \in Cells : Picture(w)[c] # grid[c]}

(* cuda_motion_bbox_gpudiff: one box around all that changed. *)
BoundingBox(changed) == IF changed = {} THEN {} ELSE {Min(changed)..Max(changed)}

(* cuda_motion_regions_cpudiff: the connected cells that changed... *)
Components(changed) ==
    {r \in {a..b : a, b \in changed} :
        r # {} /\ r \subseteq changed /\ Min(r) - 1 \notin changed /\ Max(r) + 1 \notin changed}

(* ...no more of them than MaxRegions, the largest. *)
Capped(regions) ==
    {r \in regions : Cardinality({q \in regions : Cardinality(q) > Cardinality(r)
                          \/ (Cardinality(q) = Cardinality(r) /\ Min(q) < Min(r))}) < MaxRegions}

Regions(w) == CASE setup.gate = "bbox" -> BoundingBox(Changed(w))
                [] setup.gate = "regions" -> Capped(Components(Changed(w)))

(* Mutation: the sweep waits for a picture without motion. *)
SweepWhenStill(p, w) == ~swept.once \/ (p >= swept.at + Sweep /\ Regions(w) = {})
SweepDue(p, w) == ~swept.once \/ p >= swept.at + Sweep

(* A CUDA surface with the motion gate. *)
Gated(p, w) ==
    /\ grid' = Picture(w)
    /\ swept' = IF SweepDue(p, w) THEN [once |-> TRUE, at |-> p] ELSE swept
WholePicture == Cells
Shown(p, w) == (UNION Regions(w)) \union (IF SweepDue(p, w) THEN WholePicture ELSE {})

(* With the shared engine there is no session of its own, and RGB pictures pass by. *)
Passed == setup.shared /\ setup.frames = "rgb"
Roi == setup.gate # "whole" /\ ~setup.shared /\ setup.frames = "cuda"

(* An inference that throws: that of the regions before the sweep's time is set, that of  *)
(* the sweep after.  Nothing that was found in the picture is published.                  *)
Throws(p, w) ==
    /\ setup.fails /\ grid' = Picture(w)
    /\ \/ Regions(w) # {} /\ UNCHANGED swept
       \/ SweepDue(p, w) /\ swept' = [once |-> TRUE, at |-> p]

(* The objects the model is shown, and the time it has not been shown the others. *)
Look(shown, w, gap) ==
    unseen' = [o \in Objects |-> IF w[o] = 0 \/ w[o] \in shown \/ where[o] = 0 THEN 0
                                 ELSE unseen[o] + gap]

(* detect_onnx_on_frame *)
OnFrame == \E w \in Scenes, gap \in Gaps :
    /\ clock + gap <= MaxPts /\ clock' = clock + gap
    /\ where' = w /\ UNCHANGED setup
    /\ \/ Roi /\ Gated(clock + gap, w) /\ Look(Shown(clock + gap, w), w, gap)
       \/ Roi /\ Throws(clock + gap, w) /\ Look({}, w, gap)
       \/ ~Roi /\ UNCHANGED <<grid, swept>> /\ Look(IF Passed THEN {} ELSE WholePicture, w, gap)
       \/ ~Roi /\ setup.fails /\ UNCHANGED <<grid, swept>> /\ Look({}, w, gap)

(* The camera's stream starts again: its time stamps do as well. *)
Reconnect == /\ setup.restarts /\ clock > 0 /\ clock' = 0
             /\ UNCHANGED <<setup, where, grid, swept, unseen>>

Next == OnFrame \/ Reconnect
Spec == Init /\ [][Next]_detectorVars

-----------------------------------------------------------------------------
(* "periodic full-frame sweep to catch static objects" (detect_onnx.cpp:91): whatever  *)
(* else moves, an object in the picture is shown to the model at least once in the     *)
(* sweep's period; and one that moves at once, unless too many move.  Neither is so    *)
(* when an inference throws: a sweep that did is not made up for.                      *)
StandingSeen == ~setup.fails => \A o \in Objects : unseen[o] < Sweep
MovingSeen == [][Roi /\ setup.gate = "bbox" /\ ~setup.fails =>
                    \A o \in Objects : where'[o] # where[o] /\ where[o] # 0
                                          => unseen'[o] = 0]_detectorVars
=============================================================================
