----------------------------- MODULE CaptureFile -----------------------------
(***************************************************************************)
(* The file input (plugins/capture_file): a thread replays the packets of  *)
(* a file, paced by their time stamps or flat out, once or in a loop whose *)
(* passes form one time line.                                              *)
(*                                                                         *)
(* A file is the list of its packets in the order av_read_frame returns    *)
(* them, [kind, pts], with one time unit per video frame.                  *)
(***************************************************************************)
EXTENDS Integers, Sequences

CONSTANT Files  \* [packets, loop, realtime, opens, maxPasses (bound)]

VARIABLES file,     \* the file and the configuration, chosen once
          player,   \* the replay thread
          shown,    \* per kind: the time of the last packet forwarded, -1 before
          running   \* running
fileVars == <<file, player, shown, running>>

FrameDur == 1  \* frame_dur_usec

Init == /\ file \in Files
        /\ player = [pc |-> "init", pos |-> 0, offset |-> 0, last |-> 0, pass |-> 1,
                     left |-> 0]
        /\ shown = [video |-> -1, audio |-> -1]
        /\ running = FALSE

Goto(pc) == player' = [player EXCEPT !.pc = pc]

(* capture_file_start: an unreadable file is reported by an event, and the  *)
(* plugin has no instance.                                                 *)
Start == /\ player.pc = "init" /\ file.opens
         /\ running' = TRUE /\ Goto("loop") /\ UNCHANGED <<file, shown>>
StartFails == /\ player.pc = "init" /\ ~file.opens
              /\ Goto("failed") /\ UNCHANGED <<file, shown, running>>

(* while (running) *)
LoopTop == /\ player.pc = "loop" /\ Goto(IF running THEN "read" ELSE "ended")
           /\ UNCHANGED <<file, shown, running>>

Packet == file.packets[player.pos]

(* av_read_frame: the next packet.  A video packet of a paced replay first   *)
(* sleeps up to its distance from the packet before, in chunks of 50 ms.    *)
Read == /\ player.pc = "read" /\ player.pos < Len(file.packets)
        /\ LET next == file.packets[player.pos + 1]
               wait == IF file.realtime /\ next.kind = "video" THEN 0 .. 2 ELSE {0}
           IN \E w \in wait : player' = [player EXCEPT !.pc = "pace", !.pos = @ + 1, !.left = w]
        /\ UNCHANGED <<file, shown, running>>

(* while (sleep_us > 0 && running) *)
Paced == player.left > 0 /\ running

Chunk == /\ player.pc = "pace" /\ Paced
         /\ player' = [player EXCEPT !.left = @ - 1] /\ UNCHANGED <<file, shown, running>>

(* emit_packet: audio shares the offset and does not move the end of video.  *)
Emit == LET t == Packet.pts + player.offset IN
    /\ player.pc = "pace" /\ ~Paced
    /\ shown' = [shown EXCEPT ![Packet.kind] = t]
    /\ player' = [player EXCEPT !.pc = "loop", !.left = 0,
                                !.last = IF Packet.kind = "video" THEN t ELSE @]
    /\ UNCHANGED <<file, running>>

(* Mutation: the offset is the length of one pass. *)
OnePassOffset == file.packets[Len(file.packets)].pts + FrameDur

(* The offset of the next pass continues after the last video packet. *)
NextOffset == player.last + FrameDur

(* The end of a looping file, after a successful seek to its start. *)
Rewind == /\ player.pc = "read" /\ player.pos = Len(file.packets)
          /\ file.loop /\ player.pass < file.maxPasses
          /\ player' = [player EXCEPT !.pc = "loop", !.pos = 0, !.offset = NextOffset,
                                      !.pass = @ + 1]
          /\ UNCHANGED <<file, shown, running>>

(* The end of a file played once, a failed seek, or a read error. *)
Ends == /\ player.pc = "read" /\ Goto("ended") /\ UNCHANGED <<file, shown, running>>

(* capture_file_stop: the flag, then the join. *)
Stop == /\ running /\ running' = FALSE /\ UNCHANGED <<file, player, shown>>
Joined == /\ ~running /\ player.pc = "ended" /\ Goto("stopped")
          /\ UNCHANGED <<file, shown, running>>

Replay == LoopTop \/ Read \/ Chunk \/ Emit \/ Rewind \/ Ends
Next == Start \/ StartFails \/ Replay \/ Stop \/ Joined

Fairness == WF_fileVars(Replay) /\ WF_fileVars(Joined)
Spec == Init /\ [][Next]_fileVars /\ Fairness

-----------------------------------------------------------------------------
Increasing(kind) ==
    \A i, j \in DOMAIN file.packets :
        i < j /\ file.packets[i].kind = kind /\ file.packets[j].kind = kind
            => file.packets[i].pts < file.packets[j].pts

(* "Loop replay must present a MONOTONIC timeline" (capture_file.cpp:56): the times  *)
(* of video increase from packet to packet, through any number of passes.            *)
VideoForward == [][Increasing("video") /\ shown'.video # shown.video
                        => shown'.video > shown.video]_fileVars

(* The same of audio, which ends when it likes.                                      *)
AudioForward == [][Increasing("audio") => shown'.audio >= shown.audio]_fileVars

(* A stop returns, even in the middle of a long pause between two packets            *)
(* (capture_file.cpp:190).                                                           *)
ReplayStops == (player.pc # "init" /\ player.pc # "failed" /\ ~running)
                    ~> (player.pc = "stopped")
=============================================================================
