\* The gate_ctrl pump and the gate_rpc task both show a pattern.
CONSTANTS
  LedTask = {gate_ctrl, gate_rpc}
  FlashFrames = 2
  BootFrames = 3
  SlowPeriod = 2
  FastPeriod = 4
SPECIFICATION LedSpec
INVARIANTS
  LedNeverAborts
