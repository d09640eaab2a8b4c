---------------------------- MODULE EventPlugins ----------------------------
(***************************************************************************)
(* The parts of a worker that look at pictures, follow what they see and    *)
(* act on events.  A behaviour is one of one part, named by `part', with    *)
(* the others at rest: each is driven by the frames and events it may get.  *)
(***************************************************************************)
EXTENDS Integers, Sequences

CONSTANTS Parts,                                            \* the parts looked at
          GateScenes, GateFrames, GateCooldown,             \* of MotionGate
          Instances, Lit, Changes, Threshold, Alpha, Illum, \* of MotionPixelDiff, Scenes is Lit
          Ids, Points, MaxZones,                            \* of Zones
          DetectorSetups, Objects, Cells, MaxRegions, Sweep, Gaps, MaxPts,   \* of Detector
          Callers, Pictures, NetSizes, MaxBatch,            \* of InferenceEngine
          Batches, MaxBatches, MaxAge, MinHits,             \* of Tracker
          RuleSet, Places, Persons, Stamps, ForgetRules,  \* of AnalyticsRules
          Clocks, Things, Stationary, Cooldown, Forget, Wrap,                \* of AlertPolicy
          Tracks, Events, Debounce, Prune, IdleTime, MinCaptions,            \* of EventReview
          Stores, Clipped, MaxFrames, RingSize, Tolerance, MinGap, MaxSamples,  \* of ReviewExport
          SceneStreams, Triggers,                           \* of SceneDescriber
          Publishers, Cameras, MinInterval, MaxNow,         \* of SnapshotStore
          Streams, Types, Ttl, MaxEvents, MaxClock          \* of Overlay

VARIABLES part,
          prev, frameCount, gateOpenUntil, fed,                            \* MotionGate
          picture, changes, initialized, detector, moving, plate,          \* MotionPixelDiff
          zones, spatialIndex,                                             \* Zones
          setup, where, grid, detectClock, swept, unseen,                  \* Detector
          nets, engine, requests, caller, device,                          \* InferenceEngine
          tracks, nextId, batch, assigned, sight,                          \* Tracker
          stamps, ruleTracks, path, alarms,                                   \* AnalyticsRules
          clock, frame, alertTracks, lately, alert,                        \* AlertPolicy
          alerts, framed, lastReview, asked, hist, jobs, worker, stopper,  \* EventReview
          ring, pts, collecting, recording, assets,                        \* ReviewExport
          latest, triggers, trigger, describer, described, halting,        \* SceneDescriber
          shot, wall, lastShot, taker, files,                              \* SnapshotStore
          up, boxCache, handling, published, overlayClock, drawn           \* Overlay

gateVars == <<prev, frameCount, gateOpenUntil, fed>>
motionVars == <<picture, changes, initialized, detector, moving, plate>>
zonesVars == <<zones, spatialIndex>>
detectorVars == <<setup, where, grid, detectClock, swept, unseen>>
engineVars == <<nets, engine, requests, caller, device>>
trackerVars == <<tracks, nextId, batch, assigned, sight>>
rulesVars == <<stamps, ruleTracks, path, alarms>>
alertVars == <<clock, frame, alertTracks, lately, alert>>
reviewVars == <<alerts, framed, lastReview, asked, hist, jobs, worker, stopper>>
exportVars == <<ring, pts, collecting, recording, assets>>
describeVars == <<latest, triggers, trigger, describer, described, halting>>
snapshotVars == <<shot, wall, lastShot, taker, files>>
overlayVars == <<up, boxCache, handling, published, overlayClock, drawn>>

-----------------------------------------------------------------------------
Gate == INSTANCE MotionGate WITH Scenes <- GateScenes, MaxFrames <- GateFrames,
                                   Cooldown <- GateCooldown
Motion == INSTANCE MotionPixelDiff WITH Scenes <- Lit
Zone == INSTANCE Zones
Detect == INSTANCE Detector WITH Setups <- DetectorSetups, clock <- detectClock
Engine == INSTANCE InferenceEngine WITH Nets <- NetSizes
Track == INSTANCE Tracker
Rules == INSTANCE AnalyticsRules WITH Rules <- RuleSet, Tracks <- Persons,
                                      Forget <- ForgetRules, tracks <- ruleTracks
Alert == INSTANCE AlertPolicy WITH Objects <- Things, tracks <- alertTracks
Review == INSTANCE EventReview WITH Idle <- IdleTime
Export == INSTANCE ReviewExport WITH Objects <- Clipped
Describe == INSTANCE SceneDescriber WITH Streams <- SceneStreams
Snapshot == INSTANCE SnapshotStore
Draw == INSTANCE Overlay WITH clock <- overlayClock

-----------------------------------------------------------------------------
(* A part that is not looked at rests where nothing has happened. *)
EventInit ==
    /\ part \in Parts
    /\ Gate!Init /\ Zone!Init /\ Track!Init /\ Export!Init
    /\ Engine!Init /\ (part # "engine" => nets = CHOOSE n \in [Callers -> NetSizes] : TRUE)
    /\ Snapshot!Init /\ Draw!Init
    /\ IF part = "motion" THEN Motion!Init ELSE Motion!Off
    /\ Detect!Init /\ (part # "detector" => setup = CHOOSE s \in DetectorSetups : TRUE)
    /\ IF part = "rules" THEN Rules!Init ELSE Rules!Off
    /\ IF part = "alert" THEN Alert!Init ELSE Alert!Off
    /\ IF part = "review" THEN Review!Init ELSE Review!Off
    /\ IF part = "describe" THEN Describe!Init ELSE Describe!Off

Rests(p, v) == part # p => UNCHANGED v

Others == /\ UNCHANGED part
          /\ Rests("gate", gateVars) /\ Rests("motion", motionVars) /\ Rests("zones", zonesVars)
          /\ Rests("detector", detectorVars) /\ Rests("engine", engineVars)
          /\ Rests("tracker", trackerVars) /\ Rests("rules", rulesVars)
          /\ Rests("alert", alertVars) /\ Rests("review", reviewVars)
          /\ Rests("export", exportVars) /\ Rests("describe", describeVars)
          /\ Rests("snapshot", snapshotVars) /\ Rests("overlay", overlayVars)

EventNext == /\ \/ part = "gate" /\ Gate!Next
                \/ part = "motion" /\ Motion!Next
                \/ part = "zones" /\ Zone!Next
                \/ part = "detector" /\ Detect!Next
                \/ part = "engine" /\ Engine!Next
                \/ part = "tracker" /\ Track!Next
                \/ part = "rules" /\ Rules!Next
                \/ part = "alert" /\ Alert!Next
                \/ part = "review" /\ Review!Next
                \/ part = "export" /\ Export!Next
                \/ part = "describe" /\ Describe!Next
                \/ part = "snapshot" /\ Snapshot!Next
                \/ part = "overlay" /\ Draw!Next
             /\ Others

allVars == <<part, gateVars, motionVars, zonesVars, detectorVars, engineVars, trackerVars,
             rulesVars, alertVars, reviewVars, exportVars, describeVars, snapshotVars,
             overlayVars>>

(* Frames keep coming, time passes, and the worker threads are not starved. *)
EventFairness ==
    /\ \A i \in Instances : WF_motionVars(part = "motion" /\ Motion!OnFrame(i))
    /\ WF_engineVars(part = "engine" /\ Engine!Loop)
    /\ WF_reviewVars(part = "review" /\ Review!Tick)
    /\ WF_reviewVars(part = "review" /\ Review!Worker)
    /\ WF_reviewVars(part = "review" /\ Review!Stop)
    /\ WF_describeVars(part = "describe" /\ Describe!Worker)
    /\ WF_describeVars(part = "describe" /\ Describe!StopJoins)

EventSpec == EventInit /\ [][EventNext]_allVars /\ EventFairness

-----------------------------------------------------------------------------
(* One object, one id (tracker_core.hpp): no two detections of a batch share an id, and   *)
(* an object alone in the picture that moves slowly is never given a second one.         *)
OneIdEach == Track!OneIdEach

(* An alarm is deserved and not repeated: an object is stationary only when it has stood  *)
(* still long enough by time stamps that went forward (alert_policy.cpp:15), an intrusion *)
(* or loitering is reported once a visit, and each stride over the line in its direction  *)
(* is, and nothing else (analytics_rules.cpp:6).                                         *)
AlarmsDeserved == Alert!StillByTheClock /\ Rules!AlarmPerVisit /\ Rules!StridesReported

(* The same at whatever time stamps: they start again with a connection.                 *)
StationaryIsStill == Alert!StationaryIsStill

(* The same of passages in which the object was seen on the line.                        *)
PassesReported == Rules!PassesReported

(* What is looked at: the gate is open for motion and for the cooldown after it           *)
(* (motion_gate.cpp:4), the plate follows the light (detectMotion), a zone is found       *)
(* at every point of it after any changes (ZoneManager), and what stands still is shown   *)
(* to the model in every sweep (detect_onnx.cpp:91).                                     *)
LookedAt == /\ Gate!OpenForMotion /\ Motion!PlateFresh /\ Zone!FoundWhereTheyAre
            /\ Detect!StandingSeen

(* A picture that does not change is without motion in the end                            *)
(* (docs/Motion_Architecture.md:66), at the threshold motion_pixel_diff has by default.   *)
StillIsQuiet == part = "motion" => Motion!StillIsQuiet

(* Of such a picture nothing is motion in the end but what is too dark for the rounding   *)
(* of updateBackground.                                                                  *)
StillIsLearned == part = "motion" => Motion!StillIsLearned

(* What goes together stays together across the threads: boxes and the picture they were  *)
(* found in (detect_engine), a clip and its assets' frames (review_export), a snapshot    *)
(* and its camera's name (store_snapshot), a description and the event that triggered it  *)
(* (describe_vlm), a frame and the boxes drawn on it (overlay_on_frame).                  *)
EvidenceFits == /\ Engine!OwnAnswer /\ Export!AssetsOfTheClip /\ Snapshot!NamedRight
                /\ Describe!TriggerEmbedded /\ Draw!OwnFreshBoxes

(* Claims of the sources that hold with one input size, one store, one publisher and one  *)
(* stream: a picture is read with its own size (detect_engine.hpp:36), assets carry their *)
(* clip's token (review_export.cpp:105), snapshots are apart (snapshot_util.hpp:47), a    *)
(* description and its event are of one camera (describe_vlm.cpp:255).                    *)
RightSize == Engine!RightSize
ClipsToken == Export!ClipsToken
Spaced == Snapshot!Spaced
OneScene == Describe!OneScene

(* The boxes of a stream never go back to older ones (overlay.cpp:5).                     *)
NewestBoxes == Draw!NewestBoxes

(* No step goes back on a rule: a track is not reviewed again within the debounce time    *)
(* (llm_event_review.cpp:865), and an object that moves is shown to the model at once      *)
(* (detect_onnx_on_frame).                                                               *)
StepsInOrder == Review!DebounceHolds /\ Detect!MovingSeen

(* What is asked of a worker thread is done: every request for inference is answered      *)
(* (InferenceEngine::loop), every track's story is told (llm_event_review's workerLoop),  *)
(* and a stop joins the thread (llm_event_review, describe_vlm).                         *)
WorkersFinish == /\ part = "engine" => Engine!InferReturns
                 /\ part = "review" => Review!EveryStoryTold /\ Review!ReviewStops
                 /\ part = "describe" => Describe!DescriberStops
=============================================================================
