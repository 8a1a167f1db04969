\* A gate whose Control stream breaks once.
CONSTANTS
  Publisher = {p1, p2}
  Sub <- Both
  Gate <- OneGate
  Payload <- CommandAndTelemetry
  Filter <- Subscriptions
  RingCapacity = 2
  SubCapacity = 2
  MaxId = 2
  MaxRestarts = 1
  MaxSessions <- GateReturns
SYMMETRY Symmetry
SPECIFICATION Spec
INVARIANTS
  CommandRunsOnce
CHECK_DEADLOCK FALSE
