------------------------------ MODULE FrameFifo ------------------------------
(***************************************************************************)
(* What the frame ring promises the input plugin and the capture thread: a *)
(* bounded first-in first-out buffer.  An offered frame is kept or, only   *)
(* when Cap frames are already kept, refused; frames come out whole, once, *)
(* in the order they went in.                                              *)
(***************************************************************************)
EXTENDS Naturals, Sequences

CONSTANTS Cap,          \* frames kept at most
          Frames        \* frames there are

VARIABLES kept,         \* the frames in the buffer
          refused,      \* number of frames refused for lack of room
          received      \* the frame last taken out

vars == <<kept, refused, received>>

Init == kept = << >> /\ refused = 0 /\ received = 0

Keep == /\ Len(kept) < Cap
        /\ \E f \in Frames : kept' = Append(kept, f)
        /\ UNCHANGED <<refused, received>>

Refuse == /\ Len(kept) = Cap
          /\ refused' = refused + 1
          /\ UNCHANGED <<kept, received>>

Receive == /\ kept # << >>
           /\ received' = Head(kept)
           /\ kept' = Tail(kept)
           /\ UNCHANGED refused

Next == Keep \/ Refuse \/ Receive

Spec == Init /\ [][Next]_vars
==============================================================================
