\* Client: two commands of any kind, every interleaving of the three threads.
\* Bus: one publisher, queues and a ring that overflow, a stop at any moment.
CONSTANTS
  Cmd = {c1, c2}
  NoCmd = NoCmd
  Kinds <- AllKinds
  QueueDepth = 1
  OutDepth = 2
SPECIFICATION PathSpec
INVARIANTS
  TypeOK
  ReceiptFirst
PROPERTIES
  KeepsContract
  CommandsEnd
  OwedIsTaken
  StopReleases
