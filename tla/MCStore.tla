------------------------------- MODULE MCStore -------------------------------
EXTENDS Store

Camera(mode, kinds, steps, packets) ==
    [mode |-> mode, canFail |-> FALSE, kinds |-> kinds, steps |-> steps,
     packets |-> packets, triggers |-> 0]

(* Segments, undisturbed: several rotations. *)
Segments == Camera("continuous", {"key", "delta"}, {1}, 7)

(* Segments with audio and triggers, some of which cannot be opened. *)
Failing == [Camera("both", {"key", "delta", "audio"}, {1}, 6)
                EXCEPT !.canFail = TRUE, !.triggers = 1]

(* Event clips, of packets that may have the same time. *)
Events == [Camera("event", {"key", "delta"}, {0, 1}, 6)
                EXCEPT !.canFail = TRUE, !.triggers = 2]

(* One event in a stream long enough to be trimmed. *)
Trimmed == [Camera("event", {"key", "delta"}, {1}, 7) EXCEPT !.triggers = 1]

All == {Segments, Failing, Events}
Cap == {Trimmed}
=============================================================================
