----------------------------- MODULE OutputMse -----------------------------
(***************************************************************************)
(* output_mse: on_frame auto-registers the camera, waits for a frame whose *)
(* SPS gives the picture's size, and has an fMP4 muxer cut the stream into *)
(* segments, which go into a bounded queue.  Clients of the control server *)
(* (a detached thread each) read the initialization segment and the latest *)
(* segment, callers of its C API take the oldest.  streams_mutex_ makes    *)
(* pushSegment and each command atomic.                                    *)
(*                                                                         *)
(* The muxer is libavformat's (external): with frag_keyframe it emits the  *)
(* frames since the last key frame when the next key frame is written.     *)
(***************************************************************************)
EXTENDS Naturals, Sequences, SequencesExt

CONSTANTS Feeds,         \* see feed
          MaxSegments,   \* max_segments_ (100 in the code)
          Patience       \* frames without SPS before the registered size is used (10)

VARIABLES feed,      \* the frames that arrive, chosen once: a sequence of [sps, idr]:
                     \* has a start code and an SPS analyzeSPS understands, an IDR slice
          stream,    \* StreamInfo: [registered, arrived, noSps, detected]
          muxer,     \* MP4Fragmenter: [open: frames of the fragment begun, output: frames
                     \* in the output buffer, number: sequence_number_, init]
          segments,  \* MSESegmentBuffer: the queue, each segment the frames in it
          client,    \* a client: [init: it has one, segment: the last it was given]
          serving    \* running_ of the service: "new", "on" or "off"
mseVars == <<feed, stream, muxer, segments, client, serving>>

Fresh == [registered |-> FALSE, arrived |-> 0, noSps |-> 0, detected |-> FALSE]
NoMuxer == [open |-> << >>, output |-> << >>, number |-> 0, init |-> FALSE]

Init == /\ feed \in Feeds /\ stream = Fresh /\ muxer = NoMuxer /\ segments = << >>
        /\ client = [init |-> FALSE, segment |-> << >>] /\ serving = "new"

Off == /\ feed = << >> /\ stream = Fresh /\ muxer = NoMuxer /\ segments = << >>
       /\ client = [init |-> FALSE, segment |-> << >>] /\ serving = "off"

-----------------------------------------------------------------------------
(* mse_start: the service and, once, its control server. *)
Start == /\ serving = "new" /\ serving' = "on"
         /\ UNCHANGED <<feed, stream, muxer, segments, client>>

(* analyzeSPS: the first SPS in the frame gives width and height. *)
AnalyzeSPS(n) == feed[n].sps

(* ensureStreamRegistered and the first half of pushSegment: frames are       *)
(* counted, and thrown away until the size is known or assumed.              *)
Seen(n) == LET late == IF AnalyzeSPS(n) THEN stream.noSps ELSE stream.noSps + 1
           IN IF stream.detected THEN [stream EXCEPT !.arrived = @ + 1]
              ELSE [registered |-> TRUE, arrived |-> stream.arrived + 1, noSps |-> late,
                    detected |-> AnalyzeSPS(n) \/ late >= Patience]

(* MP4Fragmenter::initialize, on the frame that settles the size. *)
Initialized == [muxer EXCEPT !.init = TRUE]

(* Mutation: any slice counts as a key frame. *)
AnySlice(n) == TRUE

(* The scan for an IDR slice after a start code. *)
IsKeyframe(n) == feed[n].idr

(* writePacket: what the muxer emits comes after what the buffer holds.      *)
(* processFrame: from the second segment on a key frame empties it first.    *)
Written(m, n) ==
    LET kept == IF IsKeyframe(n) /\ m.number > 0 THEN << >> ELSE m.output
    IN IF IsKeyframe(n) THEN [m EXCEPT !.output = kept \o m.open, !.open = <<n>>]
       ELSE [m EXCEPT !.open = Append(@, n)]

(* finalizeSegment: a key frame, and something in the buffer. *)
Complete(m, n) == IsKeyframe(n) /\ m.output # << >>

(* MSESegmentBuffer::push. *)
Pushed(segment) == Append(IF Len(segments) > MaxSegments THEN Tail(segments) ELSE segments,
                          segment)

(* mse_on_frame. *)
OnFrame == LET n == stream.arrived + 1
               ready == Seen(n).detected
               m == Written(IF muxer.init THEN muxer ELSE Initialized, n)
           IN /\ serving = "on" /\ n <= Len(feed)
              /\ stream' = Seen(n)
              /\ muxer' = IF ~ready THEN muxer
                          ELSE IF Complete(m, n) THEN [m EXCEPT !.number = @ + 1] ELSE m
              /\ segments' = IF ready /\ Complete(m, n) THEN Pushed(m.output) ELSE segments
              /\ UNCHANGED <<feed, client, serving>>

(* get_init_segment and get_latest_segment of the control server. *)
GetInit == /\ serving = "on" /\ stream.registered /\ muxer.init
           /\ client' = [client EXCEPT !.init = TRUE]
           /\ UNCHANGED <<feed, stream, muxer, segments, serving>>

GetLatest == /\ stream.registered /\ segments # << >>
             /\ client' = [client EXCEPT !.segment = Last(segments)]
             /\ UNCHANGED <<feed, stream, muxer, segments, serving>>

(* zm_mse_pop_segment and zm_mse_try_pop_segment: the oldest segment is taken. *)
TakeOldest == /\ stream.registered /\ segments # << >>
              /\ client' = [client EXCEPT !.segment = Head(segments)]
              /\ segments' = Tail(segments)
              /\ UNCHANGED <<feed, stream, muxer, serving>>

(* mse_stop: shutdown, which forgets the streams. *)
Stop == /\ serving = "on" /\ serving' = "off"
        /\ stream' = Fresh /\ muxer' = NoMuxer /\ segments' = << >>
        /\ UNCHANGED <<feed, client>>

Next == Start \/ OnFrame \/ GetInit \/ GetLatest \/ TakeOldest \/ Stop

Spec == Init /\ [][Next]_mseVars

-----------------------------------------------------------------------------
(* A segment: a key frame, no other, and no gap. *)
Clean(s) == \A i \in DOMAIN s : feed[s[i]].idr <=> i = 1
Successive(s) == \A i \in 2..Len(s) : s[i] = s[i - 1] + 1

(* "Keyframe-based segmentation ensures clean segment boundaries"                    *)
(* (output_mse/README.md:157): every segment a client can be given begins with a key *)
(* frame, has no other, and the segments queued follow one another without a gap.    *)
SegmentsClean ==
    /\ \A i \in DOMAIN segments : Clean(segments[i]) /\ Successive(segments[i])
    /\ \A i \in 2..Len(segments) : Head(segments[i]) = Last(segments[i - 1]) + 1
    /\ Clean(client.segment)

(* ... where the frame that settles the picture's size is a key frame: the first one   *)
(* with an SPS, or the one at which an SPS is no longer waited for.                   *)
Settling(n) == /\ feed[n].sps \/ n >= Patience
               /\ \A j \in 1..n-1 : ~feed[j].sps /\ j < Patience
SettledByKey == \A n \in DOMAIN feed : Settling(n) => feed[n].idr
SegmentsCut == SettledByKey => SegmentsClean

(* "a circular buffer of up to 100 segments per stream" (output_mse/README.md:111).  *)
AtMostMaxSegments == Len(segments) <= MaxSegments
=============================================================================
