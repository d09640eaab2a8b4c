-------------------------- MODULE MotionPixelDiff ---------------------------
(***************************************************************************)
(* motion_pixel_diff and motion_hybrid: the picture against a learned       *)
(* background, one byte for each pixel, and (motion_pixel_diff) the         *)
(* background written to disk as a plate.  Two pixels stand for all: "lane" *)
(* is compared by the SIMD loop, "tail" by the loop for the pixels left     *)
(* over.  One step is one frame of one instance of the plugin.              *)
(*                                                                         *)
(* The plugins are given no zones (on_frame passes an empty list, and       *)
(* motion_hybrid's reader of "zones" never finds one), so the parts that    *)
(* count motion in a zone are not modelled.                                 *)
(***************************************************************************)
EXTENDS Integers

CONSTANTS Instances,  \* instances of the plugin in the process
          Scenes,     \* possible pictures: a byte for each pixel
          Changes,    \* changes of the picture in a run
          Threshold,  \* threshold
          Alpha,      \* the weight of the background, of 256
          Illum       \* the change of luma that makes a new plate (25)

VARIABLES picture,      \* what the camera shows
          changes,      \* changes of the picture so far
          initialized,  \* the static of on_frame: once for all instances
          detector,     \* each detector: [sized, ready, bg]
          moving,       \* each instance: the motion pixels of its last frame
          plate         \* each instance: [luma, of its last plate and -1 without;
                        \*                 failed: the last frame's plate was not written]
motionVars == <<picture, changes, initialized, detector, moving, plate>>

Pixels == {"lane", "tail"}
Byte == 256
NoPlate == [luma |-> -1, failed |-> FALSE]
Unsized == [sized |-> FALSE, ready |-> FALSE, bg |-> [p \in Pixels |-> 0]]

Init == /\ picture \in Scenes /\ changes = 0 /\ initialized = FALSE
        /\ detector = [i \in Instances |-> Unsized]
        /\ moving = [i \in Instances |-> {}] /\ plate = [i \in Instances |-> NoPlate]
Off == /\ picture = [p \in Pixels |-> 0] /\ changes = Changes /\ initialized = FALSE
       /\ detector = [i \in Instances |-> Unsized]
       /\ moving = [i \in Instances |-> {}] /\ plate = [i \in Instances |-> NoPlate]

-----------------------------------------------------------------------------
Abs(n) == IF n < 0 THEN -n ELSE n

(* The comparison: the SIMD loop subtracts bytes, whose absolute value is themselves. *)
Differs(p, frame, bg) ==
    (IF p = "lane" THEN (frame + Byte - bg) % Byte ELSE Abs(frame - bg)) > Threshold

generateMotionMap(d) == {p \in Pixels : Differs(p, picture[p], d.bg[p])}

(* Mutation, and what the SIMD loop of motion_hybrid does: the products in a byte. *)
ByteBlend(bg, frame) == ((bg * Alpha + frame * (256 - Alpha)) \div 8 % Byte) \div 32

(* updateBackground, which rounds down. *)
Blend(bg, frame) == (bg * Alpha + frame * (256 - Alpha)) \div 256

detectMotion(d) ==
    IF ~d.sized THEN d   \* no background to copy into or to compare with
    ELSE IF ~d.ready THEN [d EXCEPT !.ready = TRUE, !.bg = picture]
    ELSE [d EXCEPT !.bg = [p \in Pixels |-> Blend(@[p], picture[p])]]

Luma(d) == (d.bg["lane"] + d.bg["tail"]) \div 2

(* Mutation: a plate is only written when the refresh is due. *)
NoIllumPlate(d, last, due) == d.ready /\ d.sized /\ (last = -1 \/ due)

(* maybe_write_plate, whose clock says whether the refresh is due. *)
WritesPlate(d, last, due) ==
    d.ready /\ d.sized /\ (last = -1 \/ due \/ Abs(Luma(d) - last) > Illum)

(* The encoder or the disk may fail: there is no new plate, and the old one counts on. *)
Plate(d, last, due, written) ==
    LET wanted == WritesPlate(d, last.luma, due)
    IN [luma |-> IF wanted /\ written THEN Luma(d) ELSE last.luma,
        failed |-> wanted /\ ~written]

OnFrame(i) ==
    LET sized == [detector[i] EXCEPT !.sized = @ \/ ~initialized]
        d == detectMotion(sized)
    IN /\ initialized' = TRUE
       /\ detector' = [detector EXCEPT ![i] = d]
       /\ moving' = [moving EXCEPT ![i] = IF sized.ready THEN generateMotionMap(sized) ELSE {}]
       /\ \E due, written \in BOOLEAN : plate' = [plate EXCEPT ![i] = Plate(d, @, due, written)]
       /\ UNCHANGED <<picture, changes>>

(* External: what the camera sees changes. *)
SceneChanges == /\ changes < Changes /\ changes' = changes + 1
                /\ picture' \in Scenes \ {picture}
                /\ UNCHANGED <<initialized, detector, moving, plate>>

Next == SceneChanges \/ \E i \in Instances : OnFrame(i)

Fairness == \A i \in Instances : WF_motionVars(OnFrame(i))

-----------------------------------------------------------------------------
(* The last plate shows the illumination of the background: it is written anew when  *)
(* that has moved, whatever the refresh interval, unless the new one was not written *)
(* with the last frame; the next one tries again.                                    *)
PlateFresh == \A i \in Instances :
    plate[i].luma # -1 /\ ~plate[i].failed => Abs(Luma(detector[i]) - plate[i].luma) <= Illum

(* "Adaptive background learning" (Motion_Architecture.md:66): a picture that stays    *)
(* as it is becomes the background, and is no motion any more.  Not so: the weighted   *)
(* sum is rounded down, and a background that is too dark by less than what moves it   *)
(* by one stays so, which is motion when it is more than the threshold.                *)
StillIsQuiet == \A i \in Instances : <>[](moving[i] = {})

(* What is learned of a picture that stays: in the end no pixel is motion but one      *)
(* brighter than its background, by less than what the rounding leaves.                *)
TooDarkToLearn(i, p) == LET dark == picture[p] - detector[i].bg[p]
                        IN dark > 0 /\ dark * (256 - Alpha) < 256
StillIsLearned == \A i \in Instances : <>[](\A p \in moving[i] : TooDarkToLearn(i, p))

(* Each instance of the plugin in the pipeline watches its camera: it compares the     *)
(* frames with a background once it has been given some.                               *)
EveryCameraWatched == \A i \in Instances : <>detector[i].ready
=============================================================================
