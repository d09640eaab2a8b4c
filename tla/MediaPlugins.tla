---------------------------- MODULE MediaPlugins ----------------------------
(***************************************************************************)
(* The parts of a worker that carry pictures and sound, and the event bus. *)
(* They share nothing but the bus, so a behaviour is one of one part, named *)
(* by `part', with the others at rest.                                      *)
(***************************************************************************)
EXTENDS EventBus, Integers

CONSTANTS Parts,                                 \* the parts looked at
          StreamSetups,                          \* of StreamManager
          Files,                                 \* of CaptureFile
          MediaSetups, QueueDepth,               \* of MediaPath
          Pipelines,                             \* of Pipeline
          Feeds, MaxSegments, Patience,          \* of OutputMse
          Viewers, Deployments, MaxFrames, MaxOffers, Timeout,   \* of OutputWebrtc
          Posters,                               \* Callers of EventSink
          AudioCameras, Listened, MaxPackets, MaxSamples, Window, Hop, Runs,    \* of AudioDetect
          Base, Sizes, Exchanges                 \* of StreamProtocol

VARIABLES part,
          config, streams, heard, manager,                                \* StreamManager
          file, player, played, running,                                  \* CaptureFile
          setup, input, ring, hello, sent, codecKnown, decoder, queue, surfaces, below, used,
          pipe, main, instance, runner, stage, capture, shutdown,         \* Pipeline
          feed, stream, muxer, segments, client, serving,                 \* OutputMse
          plugins, started, service, viewers, peer, tracks, ssrc, frames, shown,
          sink, mutex, caller, stopping,                                  \* EventSink
          announced, meta, audioDecoder, packets, pcm, windowsRun,        \* AudioDetect
          exchange, wire, inbuf, received, state                          \* StreamProtocol

streamVars == <<config, streams, heard, manager>>
fileVars == <<file, player, played, running>>
mediaVars == <<setup, input, ring, hello, sent, codecKnown, decoder, queue, surfaces, below, used>>
pipeVars == <<pipe, main, instance, runner, stage, capture, shutdown>>
mseVars == <<feed, stream, muxer, segments, client, serving>>
webrtcVars == <<plugins, started, service, viewers, peer, tracks, ssrc, frames, shown>>
sinkVars == <<sink, mutex, caller, stopping>>
audioVars == <<announced, meta, audioDecoder, packets, pcm, windowsRun>>
wireVars == <<exchange, wire, inbuf, received, state>>
busVars == vars

-----------------------------------------------------------------------------
Streams == INSTANCE StreamManager WITH Setups <- StreamSetups
File == INSTANCE CaptureFile WITH shown <- played
Media == INSTANCE MediaPath WITH Setups <- MediaSetups, meta <- codecKnown
Pipe == INSTANCE Pipeline
Mse == INSTANCE OutputMse
Webrtc == INSTANCE OutputWebrtc WITH Plugins <- Deployments
Sink == INSTANCE EventSink WITH Callers <- Posters
Audio == INSTANCE AudioDetect WITH Cameras <- AudioCameras, decoder <- audioDecoder
Wire == INSTANCE StreamProtocol

-----------------------------------------------------------------------------
(* A part that is not looked at rests where nothing has happened. *)
MediaInit ==
    /\ part \in Parts
    /\ Init
    /\ Streams!Init /\ (part # "streams" => config = CHOOSE c \in StreamSetups : TRUE)
    /\ File!Init /\ (part # "file" => file = CHOOSE f \in Files : TRUE)
    /\ Media!Init /\ (part # "media" => setup = CHOOSE s \in MediaSetups : TRUE)
    /\ IF part = "pipe" THEN Pipe!Init ELSE Pipe!Off
    /\ IF part = "mse" THEN Mse!Init ELSE Mse!Off
    /\ IF part = "webrtc" THEN Webrtc!Init ELSE Webrtc!Off
    /\ IF part = "sink" THEN Sink!Init ELSE Sink!Off
    /\ Audio!Init
    /\ IF part = "wire" THEN Wire!Init ELSE Wire!Off

Rests(p, v) == part # p => UNCHANGED v

Others == /\ UNCHANGED part
          /\ Rests("bus", busVars) /\ Rests("streams", streamVars) /\ Rests("file", fileVars)
          /\ Rests("media", mediaVars) /\ Rests("pipe", pipeVars) /\ Rests("mse", mseVars)
          /\ Rests("webrtc", webrtcVars) /\ Rests("sink", sinkVars) /\ Rests("audio", audioVars)
          /\ Rests("wire", wireVars)

MediaNext == /\ \/ part = "bus" /\ Next
                \/ part = "streams" /\ Streams!Next
                \/ part = "file" /\ File!Next
                \/ part = "media" /\ Media!Next
                \/ part = "pipe" /\ Pipe!Next
                \/ part = "mse" /\ Mse!Next
                \/ part = "webrtc" /\ Webrtc!Next
                \/ part = "sink" /\ Sink!Next
                \/ part = "audio" /\ Audio!Next
                \/ part = "wire" /\ Wire!Next
             /\ Others

allVars == <<part, busVars, streamVars, fileVars, mediaVars, pipeVars, mseVars, webrtcVars,
             sinkVars, audioVars, wireVars>>

(* The fairness of each module, for the part looked at. *)
MediaFairness ==
    /\ WF_streamVars(part = "streams" /\ Streams!Owner)
    /\ \A s \in Streams!AllIds : WF_streamVars(part = "streams" /\ Streams!CaptureLoop(s))
    /\ WF_fileVars(part = "file" /\ File!Replay) /\ WF_fileVars(part = "file" /\ File!Joined)
    /\ WF_pipeVars(part = "pipe" /\ Pipe!Main)
    /\ WF_pipeVars(part = "pipe" /\ Pipe!CaptureLoop /\ capture # capture')
    /\ WF_pipeVars(part = "pipe" /\ Pipe!CaptureLoop /\ instance # instance')
    /\ \A i \in UNION {DOMAIN p : p \in Pipelines} :
           WF_pipeVars(part = "pipe" /\ i \in DOMAIN pipe /\ Pipe!Stage(i))
    /\ WF_webrtcVars(part = "webrtc" /\ Webrtc!Send)
    /\ WF_webrtcVars(part = "webrtc" /\ Webrtc!Cleanup)
    /\ WF_sinkVars(part = "sink" /\ Sink!Destroy)
    /\ \A c \in Posters : /\ WF_sinkVars(part = "sink" /\ Sink!Lock(c))
                          /\ WF_sinkVars(part = "sink" /\ Sink!Unlock(c))

MediaSpec == MediaInit /\ [][MediaNext]_allVars /\ MediaFairness

-----------------------------------------------------------------------------
(* Nothing is used after it has been freed: capture contexts by a stream's thread        *)
(* (stream_manager.cpp:758), a plugin's instance by its stage (PluginManager.cpp:176), a  *)
(* decoder's surface by the stage below (zm_plugin.h:87), the handle of a sink by a late  *)
(* callback (output_mqtt.cpp:8).                                                         *)
NothingUsedAfterFree == /\ Streams!ContextsOutliveThread /\ Media!SurfaceAlive
                        /\ Pipe!CallsWithinLife /\ Sink!HandleAlive

(* Whoever gets media has been told the codec before: across reconnections before a frame *)
(* is forwarded (connect_stream), when a video decoder (decode_ffmpeg.cpp:278) or an      *)
(* audio decoder (audio_detect.cpp:536) is opened.  That it is the codec of the decoder's *)
(* own stream is another matter: WantedCodec, DecoderFits.                               *)
MediaKnown == Streams!MediaAnnounced /\ Media!CodecAnnounced /\ Audio!CodecLearntFirst

(* Time never goes back when a file is played again and again: "Loop replay must present a *)
(* MONOTONIC timeline" (capture_file.cpp:56).                                            *)
TimeGoesForward == File!VideoForward

(* What is cut or converted is right at every boundary: units out of bytes read in pieces *)
(* (onClientReadable), fMP4 segments begin with their key frame and follow one another    *)
(* (output_mse/README.md:157) where a key frame settles the size, the scaler fits the     *)
(* frame where one is never kept for too long (decode_ffmpeg.cpp:475), audio windows      *)
(* begin a hop apart (audio_detect.cpp:565), and a viewer sees the camera it asked for    *)
(* (Rust_WebRTC_FFI_Instructions.md:4).                                                  *)
CutAndShownRight == /\ Wire!AsSent /\ Mse!SegmentsCut /\ Media!ScalerRemade /\ Audio!WindowsHop
                    /\ Webrtc!ShownAsAsked

(* Trying ends: a camera that is gone for good is given up after max_retry attempts      *)
(* (stream_manager.cpp:296), an offer nobody answers is dropped (cleanupStaleConnections).*)
RetriesEnd == (part = "streams" => Streams!SettlesOrEnds) /\ (part = "webrtc" => Webrtc!OffersSettle)

(* A stop returns whatever the threads are doing: in an RTSP back-off, in the pause       *)
(* between two packets of a file, in on_frame, in a post over the network.               *)
EveryStopReturns == /\ part = "streams" => Streams!StreamsStop
                    /\ part = "file" => File!ReplayStops
                    /\ part = "pipe" => Pipe!ShutdownExits
                    /\ part = "sink" => Sink!SinkStops

(* A surface is "guaranteed valid only for the duration of the (synchronous) on_frame     *)
(* call" (zm_plugin.h:87): no stage reads one that has been freed.                       *)
SurfaceAlive == Media!SurfaceAlive

(* The decoder learns the codec "from the capture plugin's video StreamMetadata event, so  *)
(* decode auto-detects H264/HEVC/etc" (decode_ffmpeg.cpp:127-128), and decodes "the        *)
(* configured streams" only (316): it is opened for the codec of these.                  *)
WantedCodec == Media!WantedCodec

(* "Setup swscale context if needed (format conversion or scaling)"                       *)
(* (decode_ffmpeg.cpp:470): the scaler in use was made for frames of the size it is given. *)
ScalerFits == Media!ScalerFits

(* "The core turns it into the codec setup for downstream decode/store/Hello"             *)
(* (capture_file.cpp:75-76): what the link sends is of the codec its Hello has announced. *)
HelloMatchesMedia == Media!HelloMatchesMedia

(* "Keyframe-based segmentation ensures clean segment boundaries"                        *)
(* (output_mse/README.md:157).                                                           *)
SegmentsClean == Mse!SegmentsClean

(* The decoder is learnt "from the capture plugin's audio StreamMetadata event so the      *)
(* decoder is auto-detected" (audio_detect.cpp:143-144): it is that of a camera listened   *)
(* to.                                                                                   *)
DecoderFits == Audio!DecoderFits

(* "Rolling mono float PCM buffer" (audio_detect.cpp:100): it never holds a whole window.  *)
BufferRolls == Audio!BufferRolls

(* "Automatic cleanup: Disconnect detection and client timeout handling"                 *)
(* (output_webrtc/README.md:11): a viewer whose browser has gone is dropped.             *)
GoneViewersDropped == part = "webrtc" => Webrtc!GoneViewersDropped
=============================================================================
