\* The shipped configuration, the beam moving while start() runs.
CONSTANTS
  QueueDepth = 2
  MotorTimeoutOn = TRUE
  AutoCloseOn = FALSE
  ReverseOnBeam = TRUE
  Commands <- ShippedCommands
  Travel = 2
  Coasting = FALSE
  WiringFaults <- HealthySwitches
SPECIFICATION Spec
INVARIANT
BootBeamIsSeen
