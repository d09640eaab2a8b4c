SPECIFICATION MediaSpec
CONSTANTS
  Parts = {"bus", "streams", "file", "media", "pipe", "mse", "webrtc", "sink", "audio", "wire"}
  StreamSetups <- CameraLists
  Files <- MediaFiles
  MediaSetups <- CpuOrFused
  QueueDepth = 2
  Pipelines <- PipelineFiles
  Feeds <- MseFeeds
  MaxSegments = 2
  Patience = 3
  Viewers = {"v"}
  Deployments <- TwoCameras
  MaxFrames = 0
  MaxOffers = 2
  Timeout = 1
  Posters = {"a", "b"}
  AudioCameras = {1, 2}
  Listened = {1}
  MaxPackets = 4
  MaxSamples = 7
  Window = 3
  Hop = 2
  Runs = {TRUE}
  Base = 4
  Sizes = {1, 2, 9, 40}
  Exchanges <- Dialogues
  Subscribers = {"store", "bridge", "tracker"}
  Publishers = {"capture", "stage"}
  MaxEvents = 2
INVARIANTS EachOnce NothingUsedAfterFree MediaKnown CutAndShownRight
PROPERTIES TimeGoesForward RetriesEnd EveryStopReturns
CHECK_DEADLOCK FALSE
