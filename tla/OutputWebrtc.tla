---------------------------- MODULE OutputWebrtc ----------------------------
(***************************************************************************)
(* output_webrtc: the plugins of a process share one WebRTCService.  Each  *)
(* registers its stream and pushes frames into one bounded queue; a thread *)
(* of the service sends each frame to the viewers of its camera; another   *)
(* looks every 30 s for stale viewers; clients of the control server offer,*)
(* answer and drop.  viewers_mutex_ makes each of these atomic.  Time is   *)
(* counted in those 30 s.  Peer connections are libdatachannel's.          *)
(***************************************************************************)
EXTENDS Naturals, FiniteSets, Sequences, SequencesExt

CONSTANTS Viewers,      \* viewer ids; each asks for one camera
          Plugins,      \* plugin instances, each [camera, stream] (sets, chosen in Init)
          MaxFrames,    \* bound: frames queued (250 in the code)
          MaxOffers,    \* bound: offers made
          Timeout       \* minutes(5), in rounds of the clean-up

VARIABLES plugins,   \* the instances of this worker, chosen once
          started,   \* those started and not stopped: streams_
          service,   \* WebRTCService: "new", "running" or "ended"
          viewers,   \* viewers_: [ssrc (0: no session), camera, connected, idle]
          peer,      \* the viewer's browser: "idle", "offered", "playing" or "gone"
          tracks,    \* tracks_ of the PeerConnectionManager: ssrcs
          ssrc,      \* next_ssrc_
          frames,    \* frame_queue_: each [camera, from: the plugin instance]
          shown      \* the last frame sent to each viewer: camera asked, camera seen
webrtcVars == <<plugins, started, service, viewers, peer, tracks, ssrc, frames, shown>>

NoSession == [ssrc |-> 0, camera |-> 0, connected |-> FALSE, idle |-> 0]
Nothing == [asked |-> 0, seen |-> 0]
Cameras == {p.camera : p \in plugins}
HasSession(v) == viewers[v].ssrc # 0

Rest == /\ started = {} /\ viewers = [v \in Viewers |-> NoSession]
        /\ peer = [v \in Viewers |-> "idle"] /\ tracks = {} /\ ssrc = 1 /\ frames = << >>
        /\ shown = [v \in Viewers |-> Nothing]

Init == plugins \in Plugins /\ service = "new" /\ Rest
Off == plugins = {} /\ service = "ended" /\ Rest

-----------------------------------------------------------------------------
(* webrtc_start: the service once, and the stream of this instance. *)
Start(p) == /\ p \notin started /\ service # "ended"
            /\ service' = "running" /\ started' = started \cup {p}
            /\ UNCHANGED <<plugins, viewers, peer, tracks, ssrc, frames, shown>>

(* webrtc_stop: only unregisterStream. *)
Stop(p) == /\ p \in started /\ started' = started \ {p}
           /\ UNCHANGED <<plugins, service, viewers, peer, tracks, ssrc, frames, shown>>

(* Mutation: the stream id is not compared. *)
AnyCamera(f) == {p.camera : p \in started}

(* pushFrame: the camera is that of some registered stream with the stream id *)
(* of the frame; 0 is none, and a full queue drops its oldest frame.         *)
CameraOf(f) == {p.camera : p \in {q \in started : q.stream = f.stream}}

PushFrame(f) ==
    /\ service = "running" /\ f \in started
    /\ \E c \in CameraOf(f) :
          /\ c # 0
          /\ frames' = Append(IF Len(frames) > MaxFrames THEN Tail(frames) ELSE frames,
                              [camera |-> c, from |-> f.camera])
    /\ UNCHANGED <<plugins, started, service, viewers, peer, tracks, ssrc, shown>>

(* createViewerSession: an older session of the viewer is erased. *)
NewSession(v, c) == [NoSession EXCEPT !.ssrc = ssrc, !.camera = c]

(* create_offer. *)
CreateOffer(v, c) ==
    /\ service = "running" /\ ssrc <= MaxOffers /\ peer[v] \in {"idle", "gone"}
    /\ viewers' = [viewers EXCEPT ![v] = NewSession(v, c)]
    /\ tracks' = tracks \cup {ssrc} /\ ssrc' = ssrc + 1
    /\ peer' = [peer EXCEPT ![v] = "offered"]
    /\ shown' = [shown EXCEPT ![v] = Nothing]
    /\ UNCHANGED <<plugins, started, service, frames>>

(* set_answer: refused when the session is no longer there. *)
SetAnswer(v) ==
    /\ service = "running" /\ peer[v] = "offered"
    /\ IF HasSession(v)
       THEN /\ viewers' = [viewers EXCEPT ![v].connected = TRUE, ![v].idle = 0]
            /\ peer' = [peer EXCEPT ![v] = "playing"]
       ELSE UNCHANGED viewers /\ peer' = [peer EXCEPT ![v] = "gone"]
    /\ UNCHANGED <<plugins, started, service, tracks, ssrc, frames, shown>>

(* drop_viewer. *)
DropViewer(v) ==
    /\ service = "running" /\ HasSession(v)
    /\ viewers' = [viewers EXCEPT ![v] = NoSession]
    /\ peer' = [peer EXCEPT ![v] = "gone"]
    /\ UNCHANGED <<plugins, started, service, tracks, ssrc, frames, shown>>

(* The browser goes away; onStateChange only logs it. *)
Leave(v) == /\ peer[v] \in {"offered", "playing"}
            /\ peer' = [peer EXCEPT ![v] = "gone"]
            /\ UNCHANGED <<plugins, started, service, viewers, tracks, ssrc, frames, shown>>

-----------------------------------------------------------------------------
(* processFrameQueue: to each connected viewer of the camera, which counts as *)
(* activity; sendFrame swallows the error of a closed track.                 *)
Watching(v, f) == HasSession(v) /\ viewers[v].connected /\ viewers[v].camera = f.camera

Send == /\ service = "running" /\ frames # << >>
        /\ LET f == Head(frames)
           IN /\ viewers' = [v \in Viewers |-> IF Watching(v, f)
                                               THEN [viewers[v] EXCEPT !.idle = 0]
                                               ELSE viewers[v]]
              /\ shown' = [v \in Viewers |->
                              IF Watching(v, f) /\ viewers[v].ssrc \in tracks
                              THEN [asked |-> viewers[v].camera, seen |-> f.from]
                              ELSE shown[v]]
        /\ frames' = Tail(frames)
        /\ UNCHANGED <<plugins, started, service, peer, tracks, ssrc>>

(* Mutation: only a session that has been connected can be stale. *)
QuietOnly(v) == viewers[v].connected /\ viewers[v].idle > Timeout

Stale(v) == ~viewers[v].connected \/ viewers[v].idle > Timeout

(* cleanupStaleConnections, every 30 s: a session whose answer has not come   *)
(* is stale, however new it is.                                             *)
Cleanup == /\ service = "running"
           /\ viewers' = [v \in Viewers |->
                 IF ~HasSession(v) THEN NoSession
                 ELSE LET quiet == IF viewers[v].idle > Timeout THEN Timeout + 1
                                   ELSE viewers[v].idle + 1
                      IN IF Stale(v) THEN NoSession ELSE [viewers[v] EXCEPT !.idle = quiet]]
           /\ UNCHANGED <<plugins, started, service, peer, tracks, ssrc, frames, shown>>

Commands(v) == (\E c \in Cameras : CreateOffer(v, c)) \/ SetAnswer(v) \/ DropViewer(v)

Next == \/ \E p \in plugins : Start(p) \/ Stop(p) \/ PushFrame(p)
        \/ \E v \in Viewers : Commands(v) \/ Leave(v)
        \/ Send \/ Cleanup

(* The service's threads run; commands, frames and browsers may or may not. *)
Fairness == WF_webrtcVars(Send) /\ WF_webrtcVars(Cleanup)

Spec == Init /\ [][Next]_webrtcVars /\ Fairness

-----------------------------------------------------------------------------
(* A viewer that does not answer does not stay: it is connected, or dropped.         *)
OffersSettle == \A v \in Viewers :
    HasSession(v) /\ ~viewers[v].connected ~> ~HasSession(v) \/ viewers[v].connected

(* "Automatic cleanup: Disconnect detection and client timeout handling"             *)
(* (output_webrtc/README.md:11): a viewer whose browser has gone is dropped.         *)
GoneViewersDropped == \A v \in Viewers :
    peer[v] = "gone" /\ HasSession(v) ~> ~HasSession(v) \/ peer[v] # "gone"

(* A viewer is shown the camera it has asked for: "manages multiple camera streams   *)
(* through a single service instance" (docs/Rust_WebRTC_FFI_Instructions.md:4).      *)
ShownAsAsked == \A v \in Viewers : shown[v].asked = shown[v].seen
=============================================================================
