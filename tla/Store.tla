-------------------------------- MODULE Store --------------------------------
(***************************************************************************)
(* The recorder (plugins/store/store.cpp): which packets go into which     *)
(* clip, and how a clip gets its event id from zm-api.                     *)
(*                                                                         *)
(* Threads: the recorder's stage calls handle_frame, publishers of events  *)
(* call event_cb, the owner calls handle_stop after the stage is joined.   *)
(* handle_frame holds StoreState::mtx from BeginFrame to WriteFrame.       *)
(* event_cb looks at running before it takes mtx, and so does handle_stop  *)
(* clear it: a call that is past the check (inFlight) gets mtx whenever it *)
(* is free, also after the stop.  An answer of zm-api needs only the leaf  *)
(* lock assign_mtx and may arrive while mtx is held.                       *)
(*                                                                         *)
(* Packets are those of module PreRoll.  The muxer is reduced to the list  *)
(* of packets written; zm-api gives the clip with token t the event id t.  *)
(***************************************************************************)
EXTENDS PreRoll, SequencesExt

CONSTANTS MaxSecs,      \* max_secs
          PostRollSec,  \* post_roll_sec
          Setups        \* the recorders and cameras to explore (see setup)

(* A recorder and its environment. *)
SetupFields == {"mode",      \* "continuous", "event" or "both"
                "canFail",   \* whether opening a file may fail
                "kinds",     \* kinds of packets the camera sends
                "steps",     \* seconds that may pass between two packets
                "packets",   \* bound: packets received
                "triggers"}  \* bound: trigger events

ASSUME StoreAssumption ==
    /\ MaxSecs \in Nat /\ PostRollSec \in Nat
    /\ \A e \in Setups : /\ DOMAIN e = SetupFields
                          /\ e.mode \in {"continuous", "event", "both"}
                          /\ e.kinds \subseteq {"key", "delta", "audio"}
                          /\ e.steps \subseteq Nat

VARIABLES setup,        \* chosen once
          running,      \* running
          stopped,      \* handle_stop has had mtx
          inFlight,     \* calls of event_cb past the running check, not yet at mtx
          video,        \* video.valid: StreamMetadata has been seen
          buffer,       \* the pre-roll buffer (event mode)
          clip,         \* the clip being recorded, or NoClip
          lastTrigger,  \* last_trigger_usec
          clipSeq,      \* clip_seq
          pending,      \* pending_assign: the token it names, 0 when not valid
          frame,        \* the packet handle_frame is working on, or NoPacket
          received,     \* all packets, in order
          owed,         \* RecordingOpening requests zm-api has not dealt with
          answered,     \* tokens zm-api has answered
          saved,        \* the clips announced by EventClip
          triggers      \* trigger events so far (bounded)

recorder == <<clip, clipSeq, owed, saved>>
gate == <<running, stopped, inFlight>>
vars == <<setup, gate, video, buffer, recorder, lastTrigger, pending, frame, received,
          answered, triggers>>

Calls == {"StreamMetadata", "trigger"}

NoPacket == [n |-> 0, pts |-> 0, kind |-> "none"]
NoClip == [token |-> 0, id |-> 0, cause |-> "none", frames |-> << >>, opened |-> 0,
           until |-> 0, known |-> FALSE]

Init == /\ setup \in Setups
        /\ running = TRUE /\ stopped = FALSE /\ inFlight = [call \in Calls |-> 0]
        /\ video = FALSE
        /\ buffer = << >> /\ clip = NoClip /\ lastTrigger = 0 /\ clipSeq = 0
        /\ pending = 0 /\ frame = NoPacket /\ received = << >>
        /\ owed = << >> /\ answered = {} /\ saved = << >> /\ triggers = 0

Recording == clip # NoClip
(* Mutation: event_cb and handle_stop do not wait for mtx. *)
MtxIgnored == TRUE

(* mtx is held while handle_frame works on a packet. *)
MtxFree == frame = NoPacket
Now == IF received = << >> THEN 0 ELSE Last(received).pts

(* start_ts: the time of the first packet written whose time is not 0. *)
StartTs(c) == LET timed == {i \in 1..Len(c.frames) : c.frames[i].pts # 0}
              IN IF timed = {} THEN 0 ELSE c.frames[Min(timed)].pts

(* last_pts: the time of the last video packet written. *)
LastPts(c) == LET shown == {i \in 1..Len(c.frames) : c.frames[i].kind # "audio"}
              IN IF shown = {} THEN 0 ELSE c.frames[Max(shown)].pts

-----------------------------------------------------------------------------
(* Opening and closing *)

(* open_recording: a clip with a new token and the packets of the pre-roll, and a    *)
(* RecordingOpening to zm-api.  Not before the codec is known; the file may fail.    *)
OpenRecording(cause, preroll, now) ==
    \/ /\ video
       /\ clipSeq' = clipSeq + 1
       /\ clip' = [NoClip EXCEPT !.token = clipSeq', !.cause = cause, !.frames = preroll,
                                 !.opened = now]
       /\ owed' = Append(owed, clipSeq')
    \/ /\ ~video \/ setup.canFail
       /\ clip' = NoClip
       /\ UNCHANGED <<clipSeq, owed>>

(* close_clip: EventClip goes out with whatever event id the clip has. *)
CloseClip(c) == saved' = Append(saved, [c EXCEPT !.until = lastTrigger])

-----------------------------------------------------------------------------
(* handle_frame *)

(* Mutation: one off in the comparison. *)
RotationOverdue(packet) ==
    /\ IsKey(packet) /\ StartTs(clip) # 0
    /\ packet.pts - StartTs(clip) > MaxSecs

(* A segment is rotated at the first keyframe max_secs after its start. *)
RotationDue(packet) ==
    /\ IsKey(packet) /\ StartTs(clip) # 0
    /\ packet.pts - StartTs(clip) >= MaxSecs

(* Mutation: a segment opens on any video packet. *)
OpenOnAnyVideo(packet) == packet.kind # "audio" /\ video

(* The first segment waits for a keyframe, and for the codec. *)
OpeningDue(packet) == IsKey(packet) /\ video

(* Mutation: a rotation only closes. *)
ReopensAtNextKey(packet) ==
    IF ~Recording
      THEN /\ IF OpeningDue(packet) THEN OpenRecording("continuous", << >>, packet.pts)
                                    ELSE UNCHANGED <<clip, clipSeq, owed>>
           /\ UNCHANGED saved
      ELSE IF RotationDue(packet)
        THEN CloseClip(clip) /\ clip' = NoClip /\ UNCHANGED <<clipSeq, owed>>
        ELSE UNCHANGED recorder

(* drive_continuous *)
DriveContinuous(packet) ==
    IF ~Recording
      THEN /\ IF OpeningDue(packet) THEN OpenRecording("continuous", << >>, packet.pts)
                                    ELSE UNCHANGED <<clip, clipSeq, owed>>
           /\ UNCHANGED saved
      ELSE IF RotationDue(packet)
        THEN CloseClip(clip) /\ OpenRecording("continuous", << >>, packet.pts)
        ELSE UNCHANGED recorder

(* A packet arrives and mtx is taken: buffer it (event mode) or drive the segments. *)
BeginFrame(kind, step) ==
    LET packet == [n |-> Len(received) + 1, pts |-> Now + step, kind |-> kind] IN
    /\ running /\ MtxFree /\ Len(received) < setup.packets
    /\ frame' = packet /\ received' = Append(received, packet)
    /\ IF setup.mode = "event"
         THEN buffer' = BufferAppend(buffer, packet) /\ UNCHANGED recorder
         ELSE DriveContinuous(packet) /\ UNCHANGED buffer
    /\ UNCHANGED <<setup, gate, video, lastTrigger, pending, answered, triggers>>

(* Mutation: the token is not compared. *)
AnyTokenMatches(c) == pending # 0

(* The pending assignment names the clip that is open. *)
TokenMatches(c) == pending = c.token

(* apply_pending_assignment: once per clip.  Moving the file to the name in the      *)
(* answer is left out: it may fail, and then the clip keeps its own name.            *)
ApplyPending(c) ==
    IF c.id = 0 /\ pending # 0 /\ TokenMatches(c) THEN [c EXCEPT !.id = pending] ELSE c

(* Mutation: one off in the comparison. *)
PostRollCut(packet) == packet.pts - lastTrigger >= PostRollSec

(* An event clip ends with the first packet past the post-roll. *)
PostRollOver(packet) == packet.pts - lastTrigger > PostRollSec

(* The rest of handle_frame, before mtx is released. *)
WriteFrame ==
    /\ frame # NoPacket
    /\ frame' = NoPacket
    /\ IF ~Recording THEN UNCHANGED <<clip, saved, pending>>
       ELSE LET written == [ApplyPending(clip) EXCEPT !.frames = Append(@, frame),
                                                     !.known = clip.token \in answered]
            IN /\ pending' = IF ApplyPending(clip) # clip THEN 0 ELSE pending
               /\ IF setup.mode = "event" /\ PostRollOver(frame)
                    THEN CloseClip(written) /\ clip' = NoClip
                    ELSE clip' = written /\ UNCHANGED saved
    /\ UNCHANGED <<setup, gate, video, buffer, lastTrigger, clipSeq, received, owed, answered,
                   triggers>>

-----------------------------------------------------------------------------
(* event_cb *)

(* A publisher's thread comes past the running check, which needs no lock. *)
Enters(call) == /\ running
                /\ inFlight' = [inFlight EXCEPT ![call] = @ + 1]
                /\ UNCHANGED <<setup, running, stopped, video, buffer, recorder, lastTrigger,
                               pending, frame, received, answered>>

(* and later takes mtx, whatever running says by then. *)
TakesMtx(call) == /\ MtxFree /\ inFlight[call] > 0
                  /\ inFlight' = [inFlight EXCEPT ![call] = @ - 1]

MetadataArrives ==
    /\ ~video /\ inFlight["StreamMetadata"] = 0
    /\ Enters("StreamMetadata") /\ UNCHANGED triggers

StreamMetadata ==
    /\ TakesMtx("StreamMetadata")
    /\ video' = TRUE
    /\ UNCHANGED <<setup, running, stopped, buffer, recorder, lastTrigger, pending, frame,
                   received, answered, triggers>>

(* Triggers mean nothing in mode "continuous". *)
TriggerArrives ==
    /\ setup.mode # "continuous" /\ triggers < setup.triggers
    /\ triggers' = triggers + 1
    /\ Enters("trigger")

(* Every trigger, also one during a recording, restarts the post-roll.  In event     *)
(* mode it opens a clip unless one is open; in mode "both" it only names the cause    *)
(* of the segment.                                                                   *)
Trigger ==
    LET now == IF buffer = << >> THEN LastPts(clip) ELSE Last(buffer).pts IN
    /\ TakesMtx("trigger")
    /\ lastTrigger' = now
    /\ IF setup.mode = "event"
         THEN IF Recording THEN UNCHANGED <<clip, clipSeq, owed>>
                           ELSE OpenRecording("trigger", buffer, now)
         ELSE /\ clip' = IF Recording THEN [clip EXCEPT !.cause = "trigger"] ELSE clip
              /\ UNCHANGED <<clipSeq, owed>>
    /\ UNCHANGED <<setup, running, stopped, video, buffer, pending, frame, received, saved,
                   answered, triggers>>

(* Mutation: an unapplied answer is kept. *)
StashKeepsOld(token) == IF pending # 0 THEN pending ELSE token

(* A new assignment replaces one that was never applied. *)
Stash(token) == token

(* zm-api (external) answers its requests in order, late, or not at all; event_cb    *)
(* stashes the answer under assign_mtx alone, whatever handle_frame is doing.  (Its   *)
(* running check needs no step of its own: nobody reads a stash made after the stop.) *)
AssignRecording ==
    /\ running
    /\ \E i \in 1..Len(owed) :
          /\ pending' = Stash(owed[i])
          /\ answered' = answered \cup {owed[i]}
          /\ owed' = SubSeq(owed, i + 1, Len(owed))
    /\ UNCHANGED <<setup, gate, video, buffer, clip, clipSeq, saved, lastTrigger, frame,
                   received, triggers>>

-----------------------------------------------------------------------------
(* Mutation: handle_stop forgets the open clip. *)
StopLeavesOpen == UNCHANGED <<clip, saved>>

(* The open clip is completed and announced. *)
StopClip == IF Recording THEN CloseClip(clip) /\ clip' = NoClip
                         ELSE UNCHANGED <<clip, saved>>

(* handle_stop, its stage joined: it unsubscribes event_cb, which a publisher may be   *)
(* in or about to call, and clears running,                                          *)
Stop == /\ running /\ frame = NoPacket
        /\ running' = FALSE
        /\ UNCHANGED <<setup, stopped, inFlight, video, buffer, recorder, lastTrigger, pending,
                       frame, received, answered, triggers>>

(* and then takes mtx. *)
StopLocked == /\ ~running /\ ~stopped /\ MtxFree
              /\ stopped' = TRUE
              /\ StopClip
              /\ UNCHANGED <<setup, running, inFlight, video, buffer, clipSeq, lastTrigger,
                             pending, frame, received, owed, answered, triggers>>

Next == \/ \E kind \in setup.kinds, step \in setup.steps : BeginFrame(kind, step)
        \/ WriteFrame
        \/ MetadataArrives \/ StreamMetadata \/ TriggerArrives \/ Trigger
        \/ AssignRecording
        \/ Stop \/ StopLocked

Spec == Init /\ [][Next]_vars

-----------------------------------------------------------------------------
Clips == saved \o (IF Recording THEN <<clip>> ELSE << >>)

(* Clips follow one another: each RecordingOpening is followed by exactly one        *)
(* EventClip of the same clip before the next one opens, over rotations, failed      *)
(* opens, triggers in flight and the stop (store.cpp:464-505, 547-572, 705); and in  *)
(* segment mode none is open after the stop (855).                                   *)
ClipsInOrder ==
    /\ \A i \in 1..Len(Clips) : Clips[i].token = i
    /\ clipSeq = Len(Clips)
    /\ (stopped /\ setup.mode # "event") => ~Recording

(* running is the "Lifetime gate for the host callback" (store.cpp:123): after the    *)
(* stop event_cb opens no clip, which nobody would close.                            *)
NoneOpenAfterStop == stopped => ~Recording

(* An EventClip carries the id zm-api gave to that very clip, or none: an answer     *)
(* that comes after the segment was rotated does not name its successor              *)
(* (store.cpp:578-588).                                                              *)
IdsMatch == \A i \in 1..Len(Clips) : Clips[i].id \in {0, Clips[i].token}

(* "zm-api replies assign_recording{...}, which we apply" (store.cpp:17-19): an       *)
(* answer that came before the last packet of its clip is in the clip's EventClip,   *)
(* however late the answers of earlier clips are.                                    *)
AnswerInTimeCounts == \A i \in 1..Len(saved) : saved[i].known => saved[i].id = saved[i].token

(* Within a clip no packet is missing or written twice, the seam between pre-roll    *)
(* and live packets included (store.cpp:534-539, 766-777).                           *)
ClipContiguous ==
    \A i \in 1..Len(Clips) : \A j \in 1..Len(Clips[i].frames) - 1 :
        Clips[i].frames[j + 1].n = Clips[i].frames[j].n + 1

(* "record everything" (store.cpp:4): in segment mode, if no open fails, the segments *)
(* follow one another without a gap, up to the packet just handled.                  *)
EverythingRecorded == (setup.mode # "event" /\ ~setup.canFail) =>
    /\ \A i \in 1..Len(saved) - 1 :
          Head(saved[i + 1].frames).n = Last(saved[i].frames).n + 1
    /\ (Recording /\ MtxFree) => Last(clip.frames).n = Len(received)

(* "so the segment starts decodable and no orphan empty file is left"                *)
(* (store.cpp:724-725): also after a rotation, a failed open and a stop.             *)
SegmentsDecodable == setup.mode # "event" =>
    \A i \in 1..Len(saved) : saved[i].frames # << >> /\ IsKey(Head(saved[i].frames))

(* "rotating a segment every max_secs at a keyframe boundary" (store.cpp:4-5): a     *)
(* segment holds no later keyframe at which it should have ended, and ends only at   *)
(* a keyframe that far from its start, or at the stop.                               *)
RotatesOnTime == setup.mode # "event" =>
    /\ \A i \in 1..Len(Clips) : LET c == Clips[i] IN
          \A j \in 2..Len(c.frames) :
              IsKey(c.frames[j]) => c.frames[j].pts - c.frames[1].pts < MaxSecs
    /\ \A i \in 1..Len(saved) - 1 :
          saved[i + 1].opened - Head(saved[i].frames).pts >= MaxSecs

(* "write one clip with pre_roll_sec before and post_roll_sec after the last         *)
(* trigger" (store.cpp:7-9): every packet received in that time is in the clip.      *)
EventCovered == setup.mode = "event" =>
    \A i \in 1..Len(saved) : \A k \in 1..Len(received) :
        LET e == saved[i] IN
        (e.opened - PreRollSec <= received[k].pts /\ received[k].pts <= e.until + PostRollSec)
            => received[k] \in ToSet(e.frames)

KeysReceived == {k \in 1..Len(received) : IsKey(received[k])}

(* "event: rolling-buffer cap" (store.cpp:112): the buffer spans more only if the    *)
(* camera sends no keyframe for that long, and then it starts no earlier than the    *)
(* last one.                                                                         *)
SpanBounded ==
    buffer # << >> =>
        LET lastKey == IF KeysReceived = {} THEN Head(received) ELSE received[Max(KeysReceived)]
        IN Now - Head(buffer).pts <= Max({MaxBufferSec, Now - lastKey.pts})

(* "append + keyframe-aligned trim" (store.cpp:254): if, when the clip was opened,   *)
(* the camera had sent a keyframe old enough to trim to, the clip starts with one.   *)
EventStartsDecodable == setup.mode = "event" =>
    \A i \in 1..Len(Clips) :
        (\E k \in 1..Len(received) :
            IsKey(received[k]) /\ received[k].pts <= Clips[i].opened - WindowSec)
                => IsKey(Head(Clips[i].frames))
=============================================================================
