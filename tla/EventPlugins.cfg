SPECIFICATION EventSpec
CONSTANTS
  Parts = {"gate", "motion", "zones", "detector", "engine", "tracker", "rules", "alert",
           "review", "export", "describe", "snapshot", "overlay"}
  GateScenes = {"a", "b"}
  GateFrames = 5
  GateCooldown = 2
  Instances = {1}
  Lit <- LitScenes
  Changes = 1
  Threshold = 25
  Alpha = 248
  Illum = 25
  Ids = {1, 2}
  Points = {1, 2, 3}
  MaxZones = 2
  DetectorSetups <- OneClock
  Objects = {1, 2}
  Cells = {1, 2, 3}
  MaxRegions = 1
  Sweep = 3
  Gaps = {1, 2}
  MaxPts = 7
  Callers = {1, 2, 3}
  Pictures = 2
  NetSizes = {320, 640}
  MaxBatch = 2
  Batches <- OneOrTwo
  MaxBatches = 4
  MaxAge = 1
  MinHits = 2
  RuleSet <- ThreeRules
  Places <- Grounds
  Persons = {1}
  Stamps <- TwoStamps
  ForgetRules = 3
  Clocks <- BothClocks
  Things = {1}
  Stationary = 2
  Cooldown = 2
  Forget = 2
  Wrap = 32
  Tracks = {1, 2}
  Events = 3
  Debounce = 1
  Prune = 1
  IdleTime = 1
  MinCaptions = 2
  Stores = {1, 2}
  Clipped = {1, 2}
  MaxFrames = 3
  RingSize = 2
  Tolerance = 0
  MinGap = 2
  MaxSamples = 2
  SceneStreams = {1, 2}
  Triggers = 3
  Publishers = {1, 2}
  Cameras = {1, 2}
  MinInterval = 2
  MaxNow = 4
  Streams = {1, 2}
  Types = {"detection"}
  Ttl = 1
  MaxEvents = 3
  MaxClock = 3
INVARIANTS OneIdEach AlarmsDeserved LookedAt EvidenceFits
PROPERTIES StillIsLearned StepsInOrder WorkersFinish
CHECK_DEADLOCK FALSE
