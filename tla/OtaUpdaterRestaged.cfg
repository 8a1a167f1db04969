\* A second BEGIN_OTA while the first update waits for its reboot.
CONSTANTS
  Release = {r1, r2, r3, r4}
  Shipped = r1
  Signed = {r1, r2, r3}
  Crashing = {r3}
  ImageLen = 2
  SlotLen = 3
  OtaCommands = 2
  PowerCuts = 0
SPECIFICATION OtaSpec
INVARIANTS
  OnlyTrustedRuns
CHECK_DEADLOCK FALSE
