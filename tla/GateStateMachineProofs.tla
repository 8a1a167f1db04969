----------------------- MODULE GateStateMachineProofs -----------------------
(***************************************************************************)
(* Facts about the pure gate machine, for the proofs of the components     *)
(* that drive it: the controller, the Control client's pump and the        *)
(* simulated gate.                                                         *)
(***************************************************************************)
EXTENDS GateStateMachine, TLAPS

-----------------------------------------------------------------------------
(* What a step of the pure machine returns.                                *)

\* Handle returns a machine and outputs of the declared types.
LEMMA HandleType ==
  ASSUME NEW m \in Machine, NEW e \in Event
  PROVE  Handle(m, e) \in Outputs
<1> DEFINE l == LatchBeam(m, e)
<1>1. l \in Machine
  BY DEF LatchBeam, Machine
<1>2. Ignore(l) \in Outputs
  BY <1>1 DEF Ignore, Outputs, MotorAction, Reason
<1>3. \A s \in State, why \in Reason : StopIn(l, s, why) \in Outputs
  BY <1>1 DEF StopIn, Outputs, Machine, MotorAction
<1>4. \A s \in State : ArriveAt(l, s) \in Outputs
  BY <1>1 DEF ArriveAt, Outputs, Machine, MotorAction, Reason
<1>5. \A s \in State, r \in Reason : Drive(l, s, r) \in Outputs
  BY <1>1 DEF Drive, Outputs, Machine, MotorAction, Reason
<1>6. HandleStop(l) \in Outputs
  BY <1>2, <1>3 DEF HandleStop, State, Reason
<1>7. HandleFaultCleared(l) \in Outputs
  <2>1. [l EXCEPT !.state = "Initializing", !.reason = "None"] \in Machine
    BY <1>1 DEF Machine, State, Reason
  <2> QED
    BY <2>1, <1>2 DEF HandleFaultCleared, Outputs, Reason, MotorAction
<1>8. HandleMotorTimeout(l) \in Outputs
  BY <1>2, <1>3 DEF HandleMotorTimeout, State, Reason
<1>9. HandleInState(l, e) \in Outputs
  <2> l.reason \in Reason /\ "None" \in Reason
    BY <1>1 DEF Machine, Reason
  <2>1. InClosed(l, e) \in Outputs
    BY <1>2, <1>5 DEF InClosed, State
  <2>2. InOpening(l, e) \in Outputs
    BY <1>2, <1>4 DEF InOpening, State
  <2>3. InOpen(l, e) \in Outputs
    <3>1. [Ignore(l) EXCEPT !.reason = "SafetyBeamObstacle"] \in Outputs
      BY <1>1 DEF Ignore, Outputs, MotorAction, Reason
    <3> QED BY <3>1, <1>2, <1>5 DEF InOpen, State
  <2>4. InClosing(l, e) \in Outputs
    BY <1>2, <1>3, <1>4 DEF InClosing, State, Reason
  <2>5. InStopped(l, e) \in Outputs
    BY <1>2, <1>5 DEF InStopped, State
  <2> QED BY <2>1, <2>2, <2>3, <2>4, <2>5, <1>2 DEF HandleInState
<1> QED BY <1>6, <1>7, <1>8, <1>9 DEF Handle, HandleLatched

-----------------------------------------------------------------------------
(* What a step of the pure machine does.                                   *)

\* The motor action agrees with the state the step ends in.
MotorAgrees(o) ==
  /\ o.motor = "StopMotor" => ~Moving(o.sm.state)
  /\ o.motor = "DriveMotorOpen" => o.sm.state = "Opening"
  /\ o.motor = "DriveMotorClose" => o.sm.state = "Closing"

\* How a step from machine m on event e may end.
StepFacts(m, e, o) ==
  /\ MotorAgrees(o)
  /\ o.motor = "Keep" => \/ o.sm.state = m.state
                         \/ m.state = "Faulted" /\ o.sm.state = "Initializing"
  /\ ~o.transitioned => o.sm.state = m.state /\ o.sm.reason = m.reason
  /\ o.sm.beamClear = m.beamClear
  /\ Moving(m.state) /\ e = "MotorTimeout" => ~Moving(o.sm.state)
  /\ (m.state = "Closing" => m.beamClear \/ e = "SafetyBeamTripped")
       => (o.sm.state = "Closing" => o.sm.beamClear)
  /\ m.state = "Initializing" => o.sm.state = "Initializing"
  /\ o.sm.state = "Initializing" => m.state \in {"Initializing", "Faulted"}
  /\ m.state = "Faulted" => o.sm.state \in {"Initializing", "Faulted"}
  /\ e = "FaultCleared" /\ o.transitioned => o.sm.state = "Initializing"
  /\ m.state = "Open" /\ e = "CommandClose" /\ ~o.transitioned
       => o.reason = "SafetyBeamObstacle"
  /\ m.state = "StoppedClose" /\ e = "CommandOpen" => o.sm.state = "Opening"
  /\ (o.transitioned /\ o.sm.state = "StoppedClose" /\ o.sm.reason = "SafetyBeamObstacle")
       => o.reason = "SafetyBeamObstacle"

\* With the latch updated, HandleLatched takes one of these steps.
LEMMA HandleLatchedStep ==
  ASSUME NEW m \in Machine, NEW e \in Event,
         e = "SafetyBeamTripped" => ~m.beamClear
  PROVE  StepFacts(m, e, HandleLatched(m, e))
<1> USE DEF StepFacts, MotorAgrees, Moving, Machine
<1>1. CASE e = "CommandStop"
  BY <1>1 DEF HandleLatched, HandleStop, StopIn, Ignore
<1>2. CASE e = "FaultCleared"
  BY <1>2 DEF HandleLatched, HandleFaultCleared, Ignore
<1>3. CASE e = "MotorTimeout"
  BY <1>3 DEF HandleLatched, HandleMotorTimeout, StopIn, Ignore
<1>4. CASE e \notin {"CommandStop", "FaultCleared", "MotorTimeout"}
  <2>0. HandleLatched(m, e) = HandleInState(m, e)
    BY <1>4 DEF HandleLatched
  <2>1. CASE m.state = "Closed"
    BY <1>4, <2>0, <2>1 DEF HandleInState, InClosed, Drive, Ignore
  <2>2. CASE m.state = "Opening"
    BY <1>4, <2>0, <2>2 DEF HandleInState, InOpening, ArriveAt, Ignore
  <2>3. CASE m.state = "Open"
    BY <1>4, <2>0, <2>3 DEF HandleInState, InOpen, Drive, Ignore
  <2>4. CASE m.state = "Closing"
    BY <1>4, <2>0, <2>4 DEF HandleInState, InClosing, ArriveAt, StopIn, Ignore
  <2>5. CASE m.state \in {"StoppedOpen", "StoppedClose"}
    BY <1>4, <2>0, <2>5 DEF HandleInState, InStopped, Drive, Ignore
  <2>6. CASE m.state \in {"Initializing", "Faulted"}
    BY <1>4, <2>0, <2>6 DEF HandleInState, Ignore
  <2> QED BY <2>1, <2>2, <2>3, <2>4, <2>5, <2>6 DEF State
<1> QED BY <1>1, <1>2, <1>3, <1>4

\* Handle updates the latch and changes nothing else before that step.
LEMMA LatchFacts ==
  ASSUME NEW m \in Machine, NEW e \in Event
  PROVE  LET l == LatchBeam(m, e)
         IN /\ l \in Machine /\ l.state = m.state /\ l.reason = m.reason
            /\ e = "SafetyBeamTripped" => ~l.beamClear
            /\ e = "SafetyBeamCleared" => l.beamClear
            /\ e \notin {"SafetyBeamTripped", "SafetyBeamCleared"}
                 => l.beamClear = m.beamClear
            /\ StepFacts(l, e, Handle(m, e))
<1> DEFINE l == LatchBeam(m, e)
<1>1. /\ l \in Machine /\ l.state = m.state /\ l.reason = m.reason
      /\ e = "SafetyBeamTripped" => ~l.beamClear
      /\ e = "SafetyBeamCleared" => l.beamClear
      /\ e \notin {"SafetyBeamTripped", "SafetyBeamCleared"} => l.beamClear = m.beamClear
  BY DEF LatchBeam, Machine
<1>2. StepFacts(l, e, Handle(m, e))
  BY <1>1, HandleLatchedStep DEF Handle
<1> QED BY <1>1, <1>2

=============================================================================
