-------------------------- MODULE MCGateController --------------------------
(***************************************************************************)
(* Instances of GateController for TLC.                                    *)
(***************************************************************************)
EXTENDS GateController

AllCommands == {"CommandOpen", "CommandClose", "CommandStop", "FaultCleared"}

\* Both switches healthy, or the open switch stuck asserted.
OneStuckSwitch == {{}, {"open"}}

HealthySwitches == {{}}

\* The commands app_main wires: OPEN_GATE and CLOSE_GATE.
ShippedCommands == {"CommandOpen", "CommandClose"}

=============================================================================
