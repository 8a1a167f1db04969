-------------------------- MODULE GateStateMachine --------------------------
(***************************************************************************)
(* The pure transition table of the gate                                   *)
(* (firmware/components/gate_state_machine).  A machine is a record: the   *)
(* gate state, the latched stop reason and the safety-beam latch.  Handle  *)
(* and the three init operators return the machine after the step and the  *)
(* outputs the driver layer acts on: the motor action, whether the state   *)
(* changed and the reason reported with this step.  LED and telemetry      *)
(* actions carry no control and are left out.                              *)
(***************************************************************************)

State == {"Initializing", "Closed", "Opening", "Open", "Closing",
          "StoppedOpen", "StoppedClose", "Faulted"}

Event == {"CommandOpen", "CommandClose", "CommandStop",
          "LimitOpenHit", "LimitOpenReleased",
          "LimitClosedHit", "LimitClosedReleased",
          "SafetyBeamTripped", "SafetyBeamCleared",
          "MotorTimeout", "FaultCleared"}

Reason == {"None", "OperatorStop", "SafetyBeamObstacle", "MotorTimeout",
           "LimitSwitchConflict"}

\* "Keep" stands for a step whose action list names no motor action.
MotorAction == {"Keep", "StopMotor", "DriveMotorOpen", "DriveMotorClose"}

Machine == [state : State, reason : Reason, beamClear : BOOLEAN]

Outputs == [sm : Machine, motor : MotorAction,
            transitioned : BOOLEAN, reason : Reason]

PowerOn == [state |-> "Initializing", reason |-> "None", beamClear |-> TRUE]

Moving(s) == s \in {"Opening", "Closing"}

-----------------------------------------------------------------------------
(* Shapes of a step.                                                       *)

Ignore(m) ==
  [sm |-> m, motor |-> "Keep", transitioned |-> FALSE, reason |-> "None"]

\* A transition that latches its reason and reports it (stops and faults).
StopIn(m, s, why) ==
  [sm |-> [m EXCEPT !.state = s, !.reason = why], motor |-> "StopMotor",
   transitioned |-> TRUE, reason |-> why]

\* Reaching a limit: the latched reason is left as it was.
ArriveAt(m, s) ==
  [sm |-> [m EXCEPT !.state = s], motor |-> "StopMotor",
   transitioned |-> TRUE, reason |-> "None"]

\* Starting to move; a resume from a stopped state clears the reason, a
\* start from Closed or Open does not.
Drive(m, s, latched) ==
  [sm |-> [m EXCEPT !.state = s, !.reason = latched],
   motor |-> IF s = "Opening" THEN "DriveMotorOpen" ELSE "DriveMotorClose",
   transitioned |-> TRUE, reason |-> "None"]

-----------------------------------------------------------------------------
(* Boot-time position.                                                     *)

InitClosed(m) ==
  [sm |-> [m EXCEPT !.state = "Closed", !.reason = "None"],
   motor |-> "StopMotor", transitioned |-> TRUE, reason |-> "None"]

InitOpen(m) ==
  [sm |-> [m EXCEPT !.state = "Open", !.reason = "None"],
   motor |-> "StopMotor", transitioned |-> TRUE, reason |-> "None"]

InitUnknown(m) == StopIn(m, "Faulted", "LimitSwitchConflict")

-----------------------------------------------------------------------------
(* handle(): the event classes honoured in several states come first, then *)
(* the table per state.                                                    *)

LatchBeam(m, e) ==
  IF e = "SafetyBeamTripped" THEN [m EXCEPT !.beamClear = FALSE]
  ELSE IF e = "SafetyBeamCleared" THEN [m EXCEPT !.beamClear = TRUE] ELSE m

HandleStop(m) ==
  CASE m.state = "Opening" -> StopIn(m, "StoppedOpen", "OperatorStop")
    [] m.state = "Closing" -> StopIn(m, "StoppedClose", "OperatorStop")
    [] OTHER -> Ignore(m)

\* Broken variant: the reset resumes as a stopped gate, position unread.
ResumeOnFaultCleared(m) ==
  IF m.state = "Faulted"
  THEN [sm |-> [m EXCEPT !.state = "StoppedOpen", !.reason = "None"],
        motor |-> "Keep", transitioned |-> TRUE, reason |-> "None"]
  ELSE Ignore(m)

HandleFaultCleared(m) ==
  IF m.state = "Faulted"
  THEN [sm |-> [m EXCEPT !.state = "Initializing", !.reason = "None"],
        motor |-> "Keep", transitioned |-> TRUE, reason |-> "None"]
  ELSE Ignore(m)

\* Broken variant: the timeout faults the machine and leaves the motor on.
FaultWithoutStop(m) ==
  IF Moving(m.state)
  THEN [StopIn(m, "Faulted", "MotorTimeout") EXCEPT !.motor = "Keep"]
  ELSE Ignore(m)

HandleMotorTimeout(m) ==
  IF Moving(m.state) THEN StopIn(m, "Faulted", "MotorTimeout") ELSE Ignore(m)

InClosed(m, e) ==
  IF e = "CommandOpen" THEN Drive(m, "Opening", m.reason) ELSE Ignore(m)

InOpening(m, e) ==
  IF e = "LimitOpenHit" THEN ArriveAt(m, "Open") ELSE Ignore(m)

\* A close against a broken beam stays Open and reports why.
InOpen(m, e) ==
  CASE e = "CommandClose" /\ m.beamClear -> Drive(m, "Closing", m.reason)
    [] e = "CommandClose" /\ ~m.beamClear ->
         [Ignore(m) EXCEPT !.reason = "SafetyBeamObstacle"]
    [] OTHER -> Ignore(m)

InClosing(m, e) ==
  CASE e = "LimitClosedHit" -> ArriveAt(m, "Closed")
    [] e = "SafetyBeamTripped" -> StopIn(m, "StoppedClose", "SafetyBeamObstacle")
    [] OTHER -> Ignore(m)

\* Broken variant: the resume forgets the beam latch.
ResumeWithoutBeamCheck(m, e) ==
  CASE e = "CommandOpen" -> Drive(m, "Opening", "None")
    [] e = "CommandClose" -> Drive(m, "Closing", "None")
    [] OTHER -> Ignore(m)

\* StoppedOpen and StoppedClose resume alike.
InStopped(m, e) ==
  CASE e = "CommandOpen" -> Drive(m, "Opening", "None")
    [] e = "CommandClose" /\ m.beamClear -> Drive(m, "Closing", "None")
    [] OTHER -> Ignore(m)

\* Faulted and Initializing ignore every remaining event.
HandleInState(m, e) ==
  CASE m.state = "Closed"  -> InClosed(m, e)
    [] m.state = "Opening" -> InOpening(m, e)
    [] m.state = "Open"    -> InOpen(m, e)
    [] m.state = "Closing" -> InClosing(m, e)
    [] m.state \in {"StoppedOpen", "StoppedClose"} -> InStopped(m, e)
    [] OTHER -> Ignore(m)

HandleLatched(m, e) ==
  CASE e = "CommandStop"  -> HandleStop(m)
    [] e = "FaultCleared" -> HandleFaultCleared(m)
    [] e = "MotorTimeout" -> HandleMotorTimeout(m)
    [] OTHER -> HandleInState(m, e)

Handle(m, e) == HandleLatched(LatchBeam(m, e), e)

=============================================================================
