\* Two publishers, a gate and a dashboard that reconnects, breaking streams, a
\* server that stops, crashes and comes back.
CONSTANTS
  Publisher = {p1, p2}
  Sub <- Both
  Gate <- OneGate
  Payload <- CommandAndTelemetry
  Filter <- Subscriptions
  RingCapacity = 1
  SubCapacity = 2
  MaxId = 2
  MaxRestarts = 1
  MaxSessions <- DashboardReturns
SYMMETRY Symmetry
SPECIFICATION Spec
INVARIANTS
  TypeOK
  SessionExact
  NoReplay
CHECK_DEADLOCK FALSE
