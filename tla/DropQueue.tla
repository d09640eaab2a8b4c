------------------------------ MODULE DropQueue ------------------------------
(***************************************************************************)
(* What a pipeline stage promises its upstream: frames are numbered in the *)
(* order they are delivered; the stage retains an interval of consecutive  *)
(* frames that ends with the newest one, takes them oldest first, and      *)
(* loses a frame only by letting the oldest retained one fall out when     *)
(* Depth frames are already retained.  No queue, lock or thread is in      *)
(* sight: StageRunner implements this specification.                       *)
(***************************************************************************)
EXTENDS Naturals

CONSTANT Depth          \* frames retained at most, one or more

VARIABLES sent,         \* number of the newest delivered frame
          first,        \* number of the oldest retained frame (sent+1: none)
          taken,        \* number of the frame last taken, 0 before any
          lost          \* frames that fell out

vars == <<sent, first, taken, lost>>

Retained == first .. sent

Init == sent = 0 /\ first = 1 /\ taken = 0 /\ lost = 0

Full == sent + 1 - first = Depth

(* A new frame always gets in; when the stage is full the oldest falls out. *)
Put == /\ sent' = sent + 1
       /\ IF Full THEN first' = first + 1 /\ lost' = lost + 1
                  ELSE UNCHANGED <<first, lost>>
       /\ UNCHANGED taken

(* The stage takes the oldest retained frame. *)
Take == /\ first <= sent
        /\ taken' = first
        /\ first' = first + 1
        /\ UNCHANGED <<sent, lost>>

Next == Put \/ Take

Spec == Init /\ [][Next]_vars
==============================================================================
