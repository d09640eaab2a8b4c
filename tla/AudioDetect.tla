----------------------------- MODULE AudioDetect -----------------------------
(***************************************************************************)
(* audio_detect: decodes audio packets, gathers the samples and gives the   *)
(* model a window of them, then slides on by a hop.  The codec is learnt    *)
(* from the capture plugin's StreamMetadata events: audio_meta_cb runs on   *)
(* the capture threads and stores the codec and its extradata apart, of any *)
(* stream; on_frame runs on the stage's thread, for packets of the stream   *)
(* audioStreamId, and opens the decoder once.  Samples are counted, not     *)
(* kept; resampling and the spectrogram are left out.                       *)
(***************************************************************************)
EXTENDS Naturals, Sequences

CONSTANTS Cameras,     \* cameras whose metadata is on the bus
          Listened,    \* the camera audioStreamId names, all when it names none
          MaxPackets,  \* audio packets of a run
          MaxSamples,  \* samples in a packet
          Window, Hop, \* windowSamples, hopSamples
          Runs         \* may a window be run: {FALSE} when it is too short for the spectrogram

VARIABLES announced,  \* what each camera has published: "no", "codec", "all"
          meta,       \* AudioMeta: [codec, extra]: the camera each was learnt from, 0 for none
          decoder,    \* codecCtx: [codec, extra], or Closed
          packets,    \* packets so far
          pcm,        \* samples: [front, heard]: the first one kept, and all decoded
          windowsRun  \* windows given to the model
audioVars == <<announced, meta, decoder, packets, pcm, windowsRun>>

Fallback == 99     \* the configured codec
Closed == [codec |-> 0, extra |-> 0]

Init == /\ announced = [c \in Cameras |-> "no"] /\ meta = Closed /\ decoder = Closed
        /\ packets = 0 /\ pcm = [front |-> 0, heard |-> 0] /\ windowsRun = 0

Subscribed == decoder = Closed     \* it unsubscribes once its decoder is open

-----------------------------------------------------------------------------
(* audio_meta_cb: the codec, and then the extradata. *)
CodecLearnt(c) == /\ announced[c] = "no" /\ announced' = [announced EXCEPT ![c] = "codec"]
                  /\ meta' = IF Subscribed THEN [meta EXCEPT !.codec = c] ELSE meta
                  /\ UNCHANGED <<decoder, packets, pcm, windowsRun>>
ExtraLearnt(c) == /\ announced[c] = "codec" /\ announced' = [announced EXCEPT ![c] = "all"]
                  /\ meta' = IF Subscribed THEN [meta EXCEPT !.extra = c] ELSE meta
                  /\ UNCHANGED <<decoder, packets, pcm, windowsRun>>

(* Mutation: the decoder is opened as configured until metadata come again. *)
ConfiguredDecoder == [codec |-> Fallback, extra |-> meta.extra]

(* ensureAudioDecoder: opened once, with what has been learnt. *)
LearntDecoder == [codec |-> IF meta.codec # 0 THEN meta.codec ELSE Fallback,
                  extra |-> meta.extra]

(* Mutation: the samples of a window are all dropped. *)
WholeWindow == Window
Erased == Hop

(* appendResampled: the samples a packet gives, none when it cannot be resampled. *)
Resampled(p, n) == [p EXCEPT !.heard = @ + n]

(* runWindow for each full window; one that cannot be run stays, and ends the loop. *)
Drained(p, runs) ==
    LET n == IF runs /\ p.heard - p.front >= Window
             THEN 1 + (p.heard - p.front - Window) \div Erased ELSE 0
    IN [pcm |-> [p EXCEPT !.front = @ + n * Erased], run |-> n]

(* audio_detect_on_frame, for a packet of a camera listened to.  It asks for  *)
(* no metadata; it is the capture plugin that publishes a camera's before it *)
(* sends the first of its packets.                                          *)
OnFrame == \E c \in Listened, n \in 0..MaxSamples, runs \in Runs :
    /\ packets < MaxPackets /\ announced[c] = "all" /\ packets' = packets + 1
    /\ decoder' = IF decoder = Closed THEN LearntDecoder ELSE decoder
    /\ LET decoded == IF decoder' = [codec |-> c, extra |-> c] THEN n ELSE 0
           d == Drained(Resampled(pcm, decoded), runs)
       IN pcm' = d.pcm /\ windowsRun' = windowsRun + d.run
    /\ UNCHANGED <<announced, meta>>

Next == OnFrame \/ \E c \in Cameras : CodecLearnt(c) \/ ExtraLearnt(c)
Spec == Init /\ [][Next]_audioVars

-----------------------------------------------------------------------------
(* The codec is "auto-detected by now" (audio_detect.cpp:536) when the first packet    *)
(* comes: whatever cameras there are, the decoder is opened with a codec and extradata *)
(* that a camera has published, never with the fallback.                              *)
CodecLearntFirst == decoder = Closed \/ decoder \in [codec : Cameras, extra : Cameras]

(* The decoder that is opened, once for all, is that of a camera listened to: it is    *)
(* learnt "from the capture plugin's audio StreamMetadata event so the decoder is      *)
(* auto-detected" (audio_detect.cpp:143-144), with the extradata that belong to it.    *)
DecoderFits == decoder = Closed \/ \E c \in Listened : decoder = [codec |-> c, extra |-> c]

(* Windows begin a hop apart however the samples come in packets.                      *)
WindowsApart == pcm.front = Hop * windowsRun

(* "Rolling mono float PCM buffer" (audio_detect.cpp:100): less than a window of       *)
(* samples is kept between packets.                                                    *)
BufferRolls == pcm.heard - pcm.front < Window

(* Windows begin a hop apart, and where they can be run the buffer rolls.              *)
WindowsHop == WindowsApart /\ (Runs = {TRUE} => BufferRolls)
=============================================================================
