\* Two commands, a console, and two streams that break or connections that are refused.
CONSTANTS
  Cmd = {c1, c2}
  NoCmd = NoCmd
  Travel = 3
  MotorTimeout = 3
  AutoClose = 2
  Deadline = 4
  ReverseOnBeam = TRUE
  Tick = 1
  Backoff = {1, 5}
  MaxBreaks = 2
SPECIFICATION Spec
INVARIANTS
  PositionIsTrue
  MotionIsGoverned
PROPERTIES
  KeepsContract
  CommandsEnd
