--------------------------- MODULE GateController ---------------------------
(***************************************************************************)
(* The driver layer of the gate firmware (firmware/components/gate_control *)
(* with its relay, limit-switch and beam drivers) around the pure machine  *)
(* of GateStateMachine.                                                    *)
(*                                                                         *)
(* Three threads share the event queue.  app_main runs start(); the        *)
(* gate_ctrl pump takes one event at a time through handle, execute,       *)
(* manage_timers, apply_policies and, after a fault reset,                 *)
(* resolve_boot_position; the esp_timer task runs the input pollers and    *)
(* the two one-shots, one callback at a time.  Each of these calls is a    *)
(* step, so that the other threads run between them, and the two relay     *)
(* writes of execute are two steps.  The transition listener belongs to    *)
(* the RPC layer: ControlClient models it.                                 *)
(*                                                                         *)
(* The gate itself (its position, its wiring and what breaks the beam) is  *)
(* the environment.  Time is abstracted: an armed one-shot may expire at   *)
(* any moment.                                                             *)
(***************************************************************************)
EXTENDS Naturals, Sequences, GateStateMachine

CONSTANTS
  QueueDepth,     \* kQueueDepth
  MotorTimeoutOn, \* Config::sm.motor_timeout_ms > 0
  AutoCloseOn,    \* Config::sm.auto_close_ms > 0
  ReverseOnBeam,  \* Config::reverse_on_beam
  Commands,       \* the command_*() entry points some task calls
  Travel,         \* gate travel in steps: 0 is closed, Travel is open
  Coasting,       \* the gate may move with both contactors released
  WiringFaults    \* sets of limit switches that may be stuck asserted

ASSUME ControllerAssumption ==
  /\ QueueDepth \in Nat \ {0}
  /\ MotorTimeoutOn \in BOOLEAN
  /\ AutoCloseOn \in BOOLEAN
  /\ ReverseOnBeam \in BOOLEAN
  /\ Commands \subseteq {"CommandOpen", "CommandClose", "CommandStop", "FaultCleared"}
  /\ Travel \in Nat \ {0}
  /\ Coasting \in BOOLEAN
  /\ WiringFaults \subseteq SUBSET {"open", "closed"}

Input == {"open", "closed", "beam"}

VARIABLES
  sm,         \* sm_
  running,    \* "boot": app_main is in start(); "pump": the gate_ctrl task exists
  pc,         \* next call of the thread that owns sm_
  job,        \* what the calls in progress serve: "event", "reset" (a
              \* FaultCleared that went through) or "resolve"
  out,        \* Outputs of the step in progress
  queue,      \* queue_
  relayOpen,  \* relay_open_ energised
  relayClose, \* relay_close_ energised
  watchdog,   \* watchdog_timer_ active
  autoclose,  \* autoclose_timer_ active
  snapshot,   \* state_snapshot_ and reason_snapshot_
  cbs,        \* inputs whose edge callback is registered
  seen,       \* committed (debounced) value of each input
  tmr,        \* event the esp_timer task is about to post, or "None"
  pos,        \* where the gate is
  stuck,      \* limit switches stuck asserted
  lost        \* how an event has been lost since power-on

machineVars == <<sm, running, pc, job, out>>
actuatorVars == <<relayOpen, relayClose, snapshot>>
timerVars == <<watchdog, autoclose>>
inputVars == <<cbs, seen>>
plantVars == <<pos, stuck>>
vars == <<machineVars, actuatorVars, timerVars, inputVars, plantVars,
          queue, tmr, lost>>

NoOutputs == Ignore(PowerOn)

\* What the two limit switches read; the beam is free to change.
LimitRaw(i) == \/ i \in stuck
               \/ i = "open" /\ pos = Travel
               \/ i = "closed" /\ pos = 0

-----------------------------------------------------------------------------
(* post(): a full queue drops the event, with a log line.                  *)

\* Broken variant: nothing bounds the queue.
PostUnbounded(e) == queue' = Append(queue, e) /\ UNCHANGED lost

\* Broken variant: the event jumps the queue.
PostToFront(e) ==
  IF Len(queue) < QueueDepth
  THEN queue' = <<e>> \o queue /\ UNCHANGED lost
  ELSE lost' = lost \cup {"overflow"} /\ UNCHANGED queue

Post(e) ==
  IF Len(queue) < QueueDepth
  THEN queue' = Append(queue, e) /\ UNCHANGED lost
  ELSE lost' = lost \cup {"overflow"} /\ UNCHANGED queue

-----------------------------------------------------------------------------
(* start(), up to the creation of the pump task.                           *)

PreLatchBeam ==
  /\ pc = "latch"
  /\ sm' = IF seen["beam"] THEN Handle(sm, "SafetyBeamTripped").sm ELSE sm
  /\ pc' = "resolve"
  /\ UNCHANGED <<running, job, out, actuatorVars, timerVars, inputVars,
                 plantVars, queue, tmr, lost>>

ResolvedPosition ==
  CASE seen["closed"] /\ ~seen["open"] -> InitClosed(sm)
    [] seen["open"] /\ ~seen["closed"] -> InitOpen(sm)
    [] OTHER -> InitUnknown(sm)

\* resolve_boot_position() reads the switches; execute and manage_timers
\* follow as for any other step.
ResolveBootPosition ==
  /\ pc = "resolve"
  /\ out' = ResolvedPosition
  /\ sm' = ResolvedPosition.sm
  /\ pc' = "drop"
  /\ UNCHANGED <<running, job, actuatorVars, timerVars, inputVars, plantVars,
                 queue, tmr, lost>>

\* The callbacks are registered one after the other, then the pump starts.
RegisterCallback ==
  /\ pc \in {"register open", "register closed", "register beam"}
  /\ \/ /\ pc = "register open"
        /\ cbs' = {"open"} /\ pc' = "register closed"
        /\ UNCHANGED running
     \/ /\ pc = "register closed"
        /\ cbs' = {"open", "closed"} /\ pc' = "register beam"
        /\ UNCHANGED running
     \/ /\ pc = "register beam"
        /\ cbs' = Input /\ pc' = "recv" /\ running' = "pump"
  /\ UNCHANGED <<sm, job, out, actuatorVars, timerVars, seen, plantVars,
                 queue, tmr, lost>>

-----------------------------------------------------------------------------
(* pump_task(), one call at a time.                                        *)

\* A step without outputs has nothing to execute and no timer to manage.
ReceiveEvent ==
  LET o == Handle(sm, Head(queue))
  IN /\ pc = "recv" /\ queue # <<>>
     /\ queue' = Tail(queue)
     /\ out' = o /\ sm' = o.sm
     /\ job' = IF Head(queue) = "FaultCleared" /\ o.transitioned THEN "reset" ELSE "event"
     /\ pc' = IF o.transitioned THEN "drop" ELSE "policy"
     /\ UNCHANGED <<running, actuatorVars, timerVars, inputVars, plantVars,
                    tmr, lost>>

\* Broken variant: the driving contactor is picked before the other drops.
MakeBeforeBreak ==
  /\ pc = "drop"
  /\ relayOpen' = (relayOpen \/ out.motor = "DriveMotorOpen")
  /\ relayClose' = (relayClose \/ out.motor = "DriveMotorClose")
  /\ pc' = "pick"
  /\ UNCHANGED <<sm, running, job, out, snapshot, timerVars, inputVars,
                 plantVars, queue, tmr, lost>>

\* The first relay write of execute(): the opposing contactor drops first.
ExecuteFirstWrite ==
  /\ pc = "drop"
  /\ relayOpen' = (relayOpen /\ out.motor \notin {"DriveMotorClose", "StopMotor"})
  /\ relayClose' = (relayClose /\ out.motor # "DriveMotorOpen")
  /\ pc' = "pick"
  /\ UNCHANGED <<sm, running, job, out, snapshot, timerVars, inputVars,
                 plantVars, queue, tmr, lost>>

\* The second relay write, then the snapshots.
ExecuteSecondWrite ==
  /\ pc = "pick"
  /\ relayOpen' = (relayOpen \/ out.motor = "DriveMotorOpen")
  /\ relayClose' = IF out.motor = "StopMotor" THEN FALSE
                   ELSE relayClose \/ out.motor = "DriveMotorClose"
  /\ snapshot' = [state |-> sm.state, reason |-> sm.reason]
  /\ pc' = "timers"
  /\ UNCHANGED <<sm, running, job, out, timerVars, inputVars, plantVars,
                 queue, tmr, lost>>

\* manage_timers() returns to its caller: pump_task or resolve_boot_position.
AfterTimers ==
  CASE job # "resolve" -> "policy"
    [] job = "resolve" /\ running = "boot" -> "register open"
    [] OTHER -> "recv"

\* Broken variant: only the opening direction is watched.
ManageTimersOpeningOnly ==
  /\ pc = "timers"
  /\ IF out.transitioned
     THEN /\ watchdog' = (sm.state = "Opening" /\ MotorTimeoutOn)
          /\ autoclose' = (sm.state = "Open" /\ AutoCloseOn)
     ELSE UNCHANGED timerVars
  /\ pc' = AfterTimers
  /\ UNCHANGED <<sm, running, job, out, actuatorVars, inputVars, plantVars,
                 queue, tmr, lost>>

ManageTimers ==
  /\ pc = "timers"
  /\ IF out.transitioned
     THEN /\ watchdog' = (Moving(sm.state) /\ MotorTimeoutOn)
          /\ autoclose' = (sm.state = "Open" /\ AutoCloseOn)
     ELSE UNCHANGED timerVars
  /\ pc' = AfterTimers
  /\ UNCHANGED <<sm, running, job, out, actuatorVars, inputVars, plantVars,
                 queue, tmr, lost>>

BeamStop == /\ out.transitioned /\ sm.state = "StoppedClose"
            /\ out.reason = "SafetyBeamObstacle"

BeamRefusedClose == /\ ~out.transitioned /\ sm.state = "Open"
                    /\ out.reason = "SafetyBeamObstacle"

\* The step ends with the policies and the listener (which belongs to the
\* RPC layer); a fault reset goes on to resolve the position again.
EndOfStep ==
  /\ pc' = IF job = "reset" THEN "resolve" ELSE "recv"
  /\ job' = "resolve" /\ out' = NoOutputs
  /\ UNCHANGED <<sm, running, actuatorVars, watchdog, inputVars, plantVars, tmr>>

\* Broken variant: a refused auto-close is not retried.
PoliciesWithoutRetry ==
  /\ pc = "policy"
  /\ IF ReverseOnBeam /\ BeamStop THEN Post("CommandOpen") ELSE UNCHANGED <<queue, lost>>
  /\ EndOfStep /\ UNCHANGED autoclose

\* Broken variant: no reversal.
PoliciesWithoutReverse ==
  /\ pc = "policy"
  /\ autoclose' = (autoclose \/ (BeamRefusedClose /\ AutoCloseOn))
  /\ EndOfStep /\ UNCHANGED <<queue, lost>>

ApplyPolicies ==
  /\ pc = "policy"
  /\ IF ReverseOnBeam /\ BeamStop THEN Post("CommandOpen") ELSE UNCHANGED <<queue, lost>>
  /\ autoclose' = (autoclose \/ (BeamRefusedClose /\ AutoCloseOn))
  /\ EndOfStep

-----------------------------------------------------------------------------
(* The esp_timer task: pollers and one-shots, each ending in a post.       *)

Edge(i, v) ==
  CASE i = "open"   -> IF v THEN "LimitOpenHit" ELSE "LimitOpenReleased"
    [] i = "closed" -> IF v THEN "LimitClosedHit" ELSE "LimitClosedReleased"
    [] OTHER        -> IF v THEN "SafetyBeamTripped" ELSE "SafetyBeamCleared"

\* start() has already read this input and nobody listens to it yet.
ReadAtBoot(i) ==
  /\ running = "boot" /\ i \notin cbs
  /\ pc \notin (IF i = "beam" THEN {"latch"} ELSE {"latch", "resolve"})

\* on_poll() of one input commits a debounced change.
CommitInput(i) ==
  /\ tmr = "None"
  /\ i = "beam" \/ seen[i] # LimitRaw(i)
  /\ seen' = [seen EXCEPT ![i] = ~@]
  /\ tmr' = IF i \in cbs THEN Edge(i, ~seen[i]) ELSE "None"
  /\ lost' = IF ReadAtBoot(i) THEN lost \cup {"boot"} ELSE lost
  /\ UNCHANGED <<machineVars, actuatorVars, timerVars, cbs, plantVars,
                 queue>>

WatchdogExpires ==
  /\ tmr = "None" /\ watchdog
  /\ watchdog' = FALSE /\ tmr' = "MotorTimeout"
  /\ UNCHANGED <<machineVars, actuatorVars, autoclose, inputVars, plantVars,
                 queue, lost>>

AutocloseExpires ==
  /\ tmr = "None" /\ autoclose
  /\ autoclose' = FALSE /\ tmr' = "CommandClose"
  /\ UNCHANGED <<machineVars, actuatorVars, watchdog, inputVars, plantVars,
                 queue, lost>>

TimerPosts ==
  /\ tmr # "None"
  /\ Post(tmr) /\ tmr' = "None"
  /\ UNCHANGED <<machineVars, actuatorVars, timerVars, inputVars, plantVars>>

-----------------------------------------------------------------------------
(* Other tasks, the gate and power.                                        *)

\* command_open(), command_close(), command_stop(), clear_fault().
Command(c) ==
  /\ running = "pump"
  /\ Post(c)
  /\ UNCHANGED <<machineVars, actuatorVars, timerVars, inputVars, plantVars,
                 tmr>>

GateMoves ==
  /\ \/ /\ pos < Travel
        /\ relayOpen \/ (Coasting /\ ~relayClose)
        /\ pos' = pos + 1
     \/ /\ pos > 0
        /\ relayClose \/ (Coasting /\ ~relayOpen)
        /\ pos' = pos - 1
  /\ UNCHANGED <<machineVars, actuatorVars, timerVars, inputVars, stuck,
                 queue, tmr, lost>>

\* The firmware at power-on: constructors ran, start() is about to read.
\* Each input has committed its first sample.
FreshBoot ==
  /\ sm' = PowerOn /\ running' = "boot" /\ pc' = "latch"
  /\ job' = "resolve" /\ out' = NoOutputs /\ queue' = <<>>
  /\ relayOpen' = FALSE /\ relayClose' = FALSE
  /\ watchdog' = FALSE /\ autoclose' = FALSE
  /\ snapshot' = [state |-> "Initializing", reason |-> "None"]
  /\ cbs' = {} /\ tmr' = "None" /\ lost' = {}
  /\ \E b \in BOOLEAN :
       seen' = [i \in Input |-> IF i = "beam" THEN b ELSE LimitRaw(i)]

\* esp_restart(), commanded by REBOOT or after an update, or a panic.
Restart == FreshBoot /\ UNCHANGED plantVars

Init ==
  /\ sm = PowerOn /\ running = "boot" /\ pc = "latch"
  /\ job = "resolve" /\ out = NoOutputs /\ queue = <<>>
  /\ relayOpen = FALSE /\ relayClose = FALSE
  /\ watchdog = FALSE /\ autoclose = FALSE
  /\ snapshot = [state |-> "Initializing", reason |-> "None"]
  /\ cbs = {} /\ tmr = "None" /\ lost = {}
  /\ pos \in 0..Travel /\ stuck \in WiringFaults
  /\ \E b \in BOOLEAN :
       seen = [i \in Input |-> IF i = "beam" THEN b ELSE LimitRaw(i)]

Pump == \/ ReceiveEvent \/ ExecuteFirstWrite \/ ExecuteSecondWrite
        \/ ManageTimers \/ ApplyPolicies \/ ResolveBootPosition

Boot == PreLatchBeam \/ RegisterCallback

TimerTask == \/ \E i \in Input : CommitInput(i)
             \/ WatchdogExpires \/ AutocloseExpires \/ TimerPosts

Next == \/ Pump \/ Boot \/ TimerTask
        \/ \E c \in Commands : Command(c)
        \/ GateMoves
        \/ Restart

Spec == Init /\ [][Next]_vars

-----------------------------------------------------------------------------
(* Properties.                                                             *)

Call == {"latch", "resolve", "register open", "register closed", "register beam",
            "recv", "drop", "pick", "timers", "policy"}

\* The type of every variable; the queue never exceeds kQueueDepth.
TypeOK ==
  /\ sm \in Machine /\ running \in {"boot", "pump"} /\ pc \in Call
  /\ job \in {"event", "reset", "resolve"} /\ out \in Outputs
  /\ queue \in Seq(Event) /\ Len(queue) <= QueueDepth
  /\ relayOpen \in BOOLEAN /\ relayClose \in BOOLEAN
  /\ watchdog \in BOOLEAN /\ autoclose \in BOOLEAN
  /\ snapshot \in [state : State, reason : Reason]
  /\ cbs \in SUBSET Input /\ seen \in [Input -> BOOLEAN]
  /\ tmr \in Event \cup {"None"}
  /\ pos \in 0..Travel /\ stuck \in SUBSET {"open", "closed"}
  /\ lost \in SUBSET {"overflow", "boot"}

\* e has been raised and not yet handled: queued, or in the esp_timer task.
InFlight(e) == tmr = e \/ \E i \in 1..Len(queue) : queue[i] = e

\* The contactors say what the machine says, between two calls of execute().
RelaysMatch(s) == relayOpen = (s = "Opening") /\ relayClose = (s = "Closing")

\* Both motion contactors are never energised together, not even between the
\* two relay writes of execute() (gate_controller.cpp:253-257).
RelayInterlock == ~(relayOpen /\ relayClose)

\* Outside execute() the contactors follow the machine's state: no path through
\* stop, timeout, fault reset or re-resolution leaves the motor on in a state
\* that is not moving, or off in one that is.
MotorFollowsState == pc \notin {"drop", "pick"} => RelaysMatch(sm.state)

\* A moving gate is bounded: the watchdog runs, or its expiry is on the way to
\* the pump. Only an event dropped by a full queue takes the bound away.
MotionIsWatched ==
  (/\ pc \notin {"drop", "pick", "timers"} /\ Moving(sm.state)
   /\ MotorTimeoutOn /\ "overflow" \notin lost)
    => watchdog \/ InFlight("MotorTimeout")

\* The beam safety property: while the close contactor is energised and the
\* debounced beam is blocked, the trip is already on its way to the pump, unless
\* an edge was lost to a full queue or to the boot window of start().
NoBlindClosing ==
  (relayClose /\ pc \notin {"drop", "pick"} /\ seen["beam"] /\ lost = {})
    => InFlight("SafetyBeamTripped")

\* The latch the close is checked against is the committed beam or will become
\* it: with no beam edge in flight the two agree, in every state of the gate.
LatchFollowsBeam ==
  (/\ running = "pump" /\ lost = {}
   /\ ~InFlight("SafetyBeamTripped") /\ ~InFlight("SafetyBeamCleared"))
    => sm.beamClear = ~seen["beam"]

\* An open gate with auto-close is never forgotten: the countdown runs or a
\* close is on its way, also after a close that the beam refused
\* (gate_controller.cpp:344-349).
AutoCloseNotForgotten ==
  (/\ AutoCloseOn /\ running = "pump" /\ sm.state = "Open"
   /\ pc \notin {"drop", "pick", "timers", "policy"} /\ "overflow" \notin lost)
    => autoclose \/ InFlight("CommandClose")

\* A gate the beam stopped while closing has its reversal on the way
\* (gate_controller.cpp:332-342): it never rests half closed on an obstacle.
ReversalIsPending ==
  (/\ ReverseOnBeam /\ sm.state = "StoppedClose" /\ sm.reason = "SafetyBeamObstacle"
   /\ pc \notin {"drop", "pick", "timers", "policy"} /\ "overflow" \notin lost)
    => InFlight("CommandOpen")

Unverified(s) == s \in {"Initializing", "Faulted"}

\* The gate leaves Faulted and Initializing only for the position that exactly
\* one limit switch vouches for, whatever commands and resets were queued
\* (gate_controller.hpp:36-37, never move from an unverified position).
LeavesFaultVerified ==
  [][Unverified(sm.state) /\ ~Unverified(sm'.state) =>
       \/ sm'.state = "Closed" /\ seen["closed"] /\ ~seen["open"]
       \/ sm'.state = "Open" /\ seen["open"] /\ ~seen["closed"]]_vars

-----------------------------------------------------------------------------
(* Progress.                                                               *)

\* The pump and app_main are FreeRTOS tasks that always get to run; the timer
\* task serves every expired timer, however often the pollers run.
Fairness ==
  /\ WF_vars(Pump) /\ WF_vars(Boot)
  /\ WF_vars(TimerPosts)
  /\ SF_vars(WatchdogExpires) /\ SF_vars(AutocloseExpires)

FairSpec == Spec /\ Fairness

\* No motion lasts for ever: a gate that starts to move stops, at a limit, by a
\* command, by the beam or by the watchdog.
MotionEnds == Moving(sm.state) ~> (~Moving(sm.state) \/ "overflow" \in lost)

\* A gate the beam stopped while closing does not stay there.
ReversalHappens ==
  (ReverseOnBeam /\ sm.state = "StoppedClose" /\ sm.reason = "SafetyBeamObstacle")
    ~> (sm.state # "StoppedClose" \/ "overflow" \in lost)

-----------------------------------------------------------------------------
(* What the code's comments say and the code does not ensure.              *)

\* gate_controller.cpp:98-101, an obstacle present right after boot is seen
\* exactly like one at runtime.
BootBeamIsSeen ==
  (running = "pump" /\ sm.state = "Closing" /\ seen["beam"] /\ "overflow" \notin lost)
    => InFlight("SafetyBeamTripped")

=============================================================================
