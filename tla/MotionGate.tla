----------------------------- MODULE MotionGate -----------------------------
(***************************************************************************)
(* motion_gate: forwards frames while the picture changes, and for          *)
(* cooldown_frames after that.  A scene is what the downsampled luma shows: *)
(* two scenes differ in more than min_changed_pixels samples.  One step is  *)
(* one call of motion_gate_on_frame.                                        *)
(***************************************************************************)
EXTENDS Naturals, Sequences, FiniteSets

CONSTANTS Scenes,     \* scenes, and "opaque" for a frame it cannot look into
          MaxFrames,  \* frames of a run
          Cooldown    \* cooldownFrames

VARIABLES prev,       \* prev: the last scene, or "none"
          frameCount, \* frameCount
          gateOpenUntil,
          fed         \* the frames of the run: [scene, out]
gateVars == <<prev, frameCount, gateOpenUntil, fed>>

Init == prev = "none" /\ frameCount = 0 /\ gateOpenUntil = 0 /\ fed = << >>

(* Mutation: the first frame stays the reference. *)
RemembersFirst(scene) == IF prev = "none" THEN scene ELSE prev

Remembers(scene) == scene

(* A compressed frame, a GPU surface or a stream outside stream_filter. *)
Opaque == /\ fed' = Append(fed, [scene |-> "opaque", out |-> TRUE])
          /\ UNCHANGED <<prev, frameCount, gateOpenUntil>>

OnFrame(scene) ==
    LET motion == prev # "none" /\ prev # scene
        until == IF motion THEN frameCount + Cooldown ELSE gateOpenUntil
    IN /\ gateOpenUntil' = until
       /\ prev' = Remembers(scene)
       /\ frameCount' = frameCount + 1
       /\ fed' = Append(fed, [scene |-> scene, out |-> frameCount <= until])

Next == /\ Len(fed) < MaxFrames
        /\ \/ Opaque
           \/ \E scene \in Scenes : OnFrame(scene)

-----------------------------------------------------------------------------
(* The frames looked at before frame i, and whether it differs from the last of these. *)
Before(i) == {j \in 1..(i - 1) : fed[j].scene # "opaque"}
Rank(i) == Cardinality(Before(i))
Differs(i) == \E j \in Before(i) : /\ \A k \in Before(i) : k <= j
                                   /\ fed[j].scene # fed[i].scene

(* "only forwards frames downstream while motion is active (plus a cooldown)"        *)
(* (motion_gate.cpp:4), and forwards what it cannot look into: of the frames it looks *)
(* at, just the first, those that differ from the one before, and the cooldown after  *)
(* these.                                                                             *)
OpenForMotion == \A i \in DOMAIN fed :
    IF fed[i].scene = "opaque" THEN fed[i].out
    ELSE fed[i].out <=> \/ Before(i) = {}
                        \/ \E j \in Before(i) \union {i} :
                               Differs(j) /\ Rank(i) <= Rank(j) + Cooldown
=============================================================================
