\* The shipped configuration (OPEN and CLOSE only, no auto-close), with a switch
\* that may be stuck.
CONSTANTS
  QueueDepth = 2
  MotorTimeoutOn = TRUE
  AutoCloseOn = FALSE
  ReverseOnBeam = TRUE
  Commands <- ShippedCommands
  Travel = 1
  Coasting = FALSE
  WiringFaults <- OneStuckSwitch
SPECIFICATION FairSpec
PROPERTIES
  MotionEnds
  ReversalHappens
