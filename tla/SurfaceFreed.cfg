SPECIFICATION MediaSpec
CONSTANTS
  Parts = {"media"}
  StreamSetups <- CameraLists
  Files <- MediaFiles
  MediaSetups <- GpuDetect
  QueueDepth = 2
  Pipelines <- PipelineFiles
  Feeds <- MseFeeds
  MaxSegments = 2
  Patience = 3
  Viewers = {"v"}
  Deployments <- TwoCameras
  MaxFrames = 0
  MaxOffers = 2
  Timeout = 1
  Posters = {"a", "b"}
  AudioCameras = {1, 2}
  Listened = {1}
  MaxPackets = 4
  MaxSamples = 7
  Window = 3
  Hop = 2
  Runs = {TRUE}
  Base = 4
  Sizes = {1, 2, 9, 40}
  Exchanges <- Dialogues
  Subscribers = {"store"}
  Publishers = {"capture"}
  MaxEvents = 1
INVARIANTS SurfaceAlive
CHECK_DEADLOCK FALSE
