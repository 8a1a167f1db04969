\* The controller under every command, every policy enabled.
CONSTANTS
  QueueDepth = 2
  MotorTimeoutOn = TRUE
  AutoCloseOn = TRUE
  ReverseOnBeam = TRUE
  Commands <- AllCommands
  Travel = 2
  Coasting = FALSE
  WiringFaults <- HealthySwitches
SPECIFICATION Spec
INVARIANTS
  TypeOK
  RelayInterlock
  MotorFollowsState
  MotionIsWatched
  NoBlindClosing
  LatchFollowsBeam
  AutoCloseNotForgotten
  ReversalIsPending
PROPERTIES
  LeavesFaultVerified
