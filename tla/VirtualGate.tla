----------------------------- MODULE VirtualGate -----------------------------
(***************************************************************************)
(* The simulated gate (simulation/src/virtual_gate.cpp): the firmware's    *)
(* state machine and command tracker, wired as GateController wires them,  *)
(* around a position that the motor moves.  Every public method holds the  *)
(* gate's mutex, so each is a function from gate to gate.                  *)
(*                                                                         *)
(* Time is what advance() is told.  A deadline is kept as the time left    *)
(* until it, which is all that the code ever compares.                     *)
(***************************************************************************)
EXTENDS CommandTracker, Integers, Sequences

CONSTANTS
  Travel,        \* travel_ms: full stroke
  MotorTimeout,  \* motor_timeout_ms
  AutoClose,     \* auto_close_ms, 0 for none
  Deadline,      \* command_deadline_ms
  ReverseOnBeam  \* reverse_on_beam

\* A stroke that takes longer than the watchdog allows can only end in a fault.
ASSUME GateAssumption ==
  /\ Travel \in Nat \ {0}
  /\ MotorTimeout \in Nat /\ MotorTimeout >= Travel
  /\ AutoClose \in Nat
  /\ Deadline \in Nat
  /\ ReverseOnBeam \in BOOLEAN

Off == [on |-> FALSE, left |-> 0]
Armed(n) == [on |-> TRUE, left |-> n]
Elapsed(t, dt) == IF t.on THEN Armed(t.left - dt) ELSE t
Expired(t) == t.on /\ t.left <= 0

Parked == [sm |-> PowerOn, tracker |-> Idle, due |-> Off, pos |-> 0, motor |-> "StopMotor",
           blocked |-> FALSE, watchdog |-> Off, autoclose |-> Off, acks |-> <<>>]

\* record(): a verdict that fires waits in acks_.
Record(g, v) ==
  [g EXCEPT !.tracker = v.tracker,
            !.due = IF v.tracker.armed THEN @ ELSE Off,
            !.acks = IF v.verdict = NoVerdict THEN @ ELSE Append(@, v.verdict)]

CountdownIn(s) == IF s = "Open" /\ AutoClose > 0 THEN Armed(AutoClose) ELSE Off

\* Every motion starts with the whole budget.
WatchdogIn(s) == IF Moving(s) THEN Armed(MotorTimeout) ELSE Off

\* The actions, the timers and the tracker: apply_locked without its policies.
Execute(g, out) ==
  LET s == out.sm.state
      driven == [g EXCEPT !.sm = out.sm, !.motor = IF out.motor = "Keep" THEN @ ELSE out.motor]
      timed == IF out.transitioned
               THEN [driven EXCEPT !.watchdog = WatchdogIn(s), !.autoclose = CountdownIn(s)]
               ELSE driven
  IN IF out.transitioned \/ out.reason # "None"
     THEN Record(timed, OnGateEvent(g.tracker, s, out.reason, out.transitioned))
     ELSE timed

BeamStopped(out) ==
  ReverseOnBeam /\ out.transitioned /\ out.sm.state = "StoppedClose"
    /\ out.reason = "SafetyBeamObstacle"

CloseRefused(out) ==
  ~out.transitioned /\ out.sm.state = "Open" /\ out.reason = "SafetyBeamObstacle"

\* Broken variant: a refused close is not tried again.
ApplyWithoutRetry(g, out) ==
  LET done == Execute(g, out)
  IN IF BeamStopped(out) THEN Execute(done, Handle(out.sm, "CommandOpen")) ELSE done

\* apply_locked(): the reversal is a step within the step; it starts Opening, to
\* which no policy applies.
Apply(g, out) ==
  LET done == Execute(g, out)
  IN CASE BeamStopped(out) -> Execute(done, Handle(out.sm, "CommandOpen"))
       [] CloseRefused(out) /\ AutoClose > 0 -> [done EXCEPT !.autoclose = Armed(AutoClose)]
       [] OTHER -> done

Step(g, e) == Apply(g, Handle(g.sm, e))

ResolvePosition(g) ==
  Apply(g, IF g.pos <= 0 THEN InitClosed(g.sm)
           ELSE IF g.pos >= Travel THEN InitOpen(g.sm) ELSE InitUnknown(g.sm))

BootClosed == Apply(Parked, InitClosed(Parked.sm))

\* issue(): armed first, then stepped, under one lock.
Issue(g, c, event) ==
  LET ok == IF event = "CommandOpen" THEN "Open" ELSE "Closed"
      armed == [Record(g, Arm(g.tracker, c, ok)) EXCEPT !.due = Armed(Deadline)]
  IN Step(armed, event)

ClearFault(g) ==
  LET cleared == Step(g, "FaultCleared")
  IN IF cleared.sm.state = "Initializing" THEN ResolvePosition(cleared) ELSE cleared

\* Broken variant: the machine restarts with a clear beam.
RebootForgetsBeam(g) ==
  ResolvePosition(
    [g EXCEPT !.motor = "StopMotor", !.watchdog = Off, !.autoclose = Off, !.sm = PowerOn])

\* reboot(): the position stays, the tracker too; the beam is latched again.
Reboot(g) ==
  ResolvePosition(
    [g EXCEPT !.motor = "StopMotor", !.watchdog = Off, !.autoclose = Off,
              !.sm = IF g.blocked THEN Handle(PowerOn, "SafetyBeamTripped").sm ELSE PowerOn])

TripBeam(g) == Step([g EXCEPT !.blocked = TRUE], "SafetyBeamTripped")
ClearBeam(g) == Step([g EXCEPT !.blocked = FALSE], "SafetyBeamCleared")

\* The motor moves the gate up to a limit, which is then reported.
Move(g, dt) ==
  CASE g.motor = "DriveMotorOpen" ->
         IF g.pos + dt >= Travel THEN Step([g EXCEPT !.pos = Travel], "LimitOpenHit")
                                 ELSE [g EXCEPT !.pos = @ + dt]
    [] g.motor = "DriveMotorClose" ->
         IF g.pos - dt <= 0 THEN Step([g EXCEPT !.pos = 0], "LimitClosedHit")
                            ELSE [g EXCEPT !.pos = @ - dt]
    [] OTHER -> g

\* Broken variant: the watchdog is looked at before the limit that ends the motion.
AdvanceWatchdogFirst(g, dt) ==
  LET later == [g EXCEPT !.due = Elapsed(@, dt), !.watchdog = Elapsed(@, dt),
                         !.autoclose = Elapsed(@, dt)]
      ticked == Record(later, OnTick(later.tracker, Expired(later.due)))
      watched == IF Expired(ticked.watchdog)
                 THEN Step([ticked EXCEPT !.watchdog = Off], "MotorTimeout") ELSE ticked
      moved == Move(watched, dt)
  IN IF Expired(moved.autoclose)
     THEN Step([moved EXCEPT !.autoclose = Off], "CommandClose") ELSE moved

\* advance(): the tracker's deadline, the motion, the watchdog, the auto-close.
Advance(g, dt) ==
  LET later == [g EXCEPT !.due = Elapsed(@, dt), !.watchdog = Elapsed(@, dt),
                         !.autoclose = Elapsed(@, dt)]
      ticked == Record(later, OnTick(later.tracker, Expired(later.due)))
      moved == Move(ticked, dt)
      watched == IF Expired(moved.watchdog)
                 THEN Step([moved EXCEPT !.watchdog = Off], "MotorTimeout") ELSE moved
  IN IF Expired(watched.autoclose)
     THEN Step([watched EXCEPT !.autoclose = Off], "CommandClose") ELSE watched

=============================================================================
