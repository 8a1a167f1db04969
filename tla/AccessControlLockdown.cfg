\* A request decided and then overtaken by a lockdown.
CONSTANTS
  Plate = {1, 2}
  Spelling <- Spellings
  Normalize <- Normal
  VehicleClass = {"UNKNOWN", "CAR", "TRUCK"}
  Entry <- Entries
  Batch <- Batches
  TextList <- TextLists
  PageSize = {0, 3}
  DefaultPage = 1
  MaxPage = 2
  Gate = {"gate-01"}
  Handler = {h1, h2}
  Operator = {o1, o2}
  Frame <- Frames
  Instant <- Instants
  Kind = {"LATCH_OPEN", "LATCH_CLOSE", "RELEASE_LATCH", "OPEN_GATE"}
  AlprWeight = 50
  LidarWeight = 50
  Threshold = 70
  LidarMissing = 0
  MaxAttempts = 2
  Budget <- OneOfEach
SYMMETRY Threads
SPECIFICATION Spec
INVARIANT
  LockdownWins
CHECK_DEADLOCK FALSE
