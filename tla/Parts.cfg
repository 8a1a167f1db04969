\* Every part that shares no state with the others, one at a time.
CONSTANTS
  Release = {r1, r2, r3, r4}
  Shipped = r1
  Signed = {r1, r2, r3}
  Crashing = {r3}
  ImageLen = 2
  SlotLen = 3
  OtaCommands = 2
  PowerCuts = 1
  LedTask = {gate_ctrl}
  FlashFrames = 2
  BootFrames = 3
  SlowPeriod = 3
  FastPeriod = 2
  Capacity = 3
  Payloads = {0, 3, 256}
  MaxFrames = 2
  MaxSlice = 6
  LoopDepth = 3
  Unit = 8
  FrameW = 6
  FrameH = 5
  Canvas = 12
  MarginInv = 4
  MaxPlates = 2
  ScoreFloor = 50
  MinCrop = 4
  Dictionary = 2
  RawSets <- MCRawSets
  Interval = 2
  ReadRetries = 1
  FrameLimit = 2
  Stalls = {0, 5}
  MaxClock = 20
  Missing = Missing
  Mistyped = Mistyped
  Documents <- MCDocuments
  UnsignedMod = 4
  Delays = {1, 3}
  ScenarioClock = 6
  Script <- MCScript
  RingCap = 1
  MaxSockets = 2
  Requests <- MCRequests
  Configs <- MCConfigs
  CommandKinds = {"OPEN_GATE"}
  ClassNames = {"SUV"}
  Ttl = 0
  MaxCalls = 2
  MaxTime = 1
  MaxRuns = 1
SPECIFICATION Spec
INVARIANTS
  NextBootIsSound
  LedShowsPattern
  StreamIsExact
  NetworkIsNoticed
  PipelineIsSound
  ReplayIsFaithful
  FeedIsSound
  CallsAreSound
PROPERTIES
  ControllerComesUp
  StopEnds
CHECK_DEADLOCK FALSE
