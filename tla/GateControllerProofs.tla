------------------------ MODULE GateControllerProofs ------------------------
(***************************************************************************)
(* Theorems about GateController, for every queue depth, policy            *)
(* configuration, command set and gate travel.                             *)
(***************************************************************************)
EXTENDS GateController, GateStateMachineProofs, TLAPS

-----------------------------------------------------------------------------
(* The boot resolutions.                                                   *)

\* The three boot resolutions return outputs of the declared types, whatever the
\* switches read.
LEMMA ResolvedType ==
  ASSUME TypeOK
  PROVE  ResolvedPosition \in Outputs
<1> sm \in Machine
  BY DEF TypeOK
<1>1. InitClosed(sm) \in Outputs
  <2>1. [sm EXCEPT !.state = "Closed", !.reason = "None"] \in Machine
    BY DEF Machine, State, Reason
  <2> QED BY <2>1 DEF InitClosed, Outputs, Reason, MotorAction
<1>2. InitOpen(sm) \in Outputs
  <2>1. [sm EXCEPT !.state = "Open", !.reason = "None"] \in Machine
    BY DEF Machine, State, Reason
  <2> QED BY <2>1 DEF InitOpen, Outputs, Reason, MotorAction
<1>3. InitUnknown(sm) \in Outputs
  BY DEF InitUnknown, StopIn, Outputs, Machine, MotorAction, State, Reason
<1> QED BY <1>1, <1>2, <1>3 DEF ResolvedPosition

\* A resolution always transitions, and never into motion.
LEMMA ResolvedFacts ==
  ASSUME TypeOK
  PROVE  LET o == ResolvedPosition
         IN /\ o.transitioned /\ o.motor = "StopMotor"
            /\ o.sm.state \in {"Closed", "Open", "Faulted"}
            /\ o.sm.beamClear = sm.beamClear
            /\ o.sm.state = "Closed" => seen["closed"] /\ ~seen["open"]
            /\ o.sm.state = "Open" => seen["open"] /\ ~seen["closed"]
BY DEF TypeOK, Machine, ResolvedPosition, InitClosed, InitOpen, InitUnknown, StopIn

-----------------------------------------------------------------------------
(* Type correctness.                                                       *)

\* post() keeps the type of the queue, its depth and what has been lost.
LEMMA PostType ==
  ASSUME TypeOK, NEW e \in Event, Post(e)
  PROVE  /\ queue' \in Seq(Event) /\ Len(queue') <= QueueDepth
         /\ lost' \in SUBSET {"overflow", "boot"}
<1>1. CASE Len(queue) < QueueDepth
  <2>1. Append(queue, e) \in Seq(Event) /\ Len(Append(queue, e)) = Len(queue) + 1
    BY DEF TypeOK
  <2>2. Len(queue) + 1 <= QueueDepth
    BY <1>1, ControllerAssumption DEF TypeOK
  <2> QED BY <2>1, <2>2, <1>1 DEF Post, TypeOK
<1>2. CASE ~(Len(queue) < QueueDepth)
  BY <1>2 DEF Post, TypeOK
<1> QED BY <1>1, <1>2

\* Every variable keeps its type and the queue its depth.
THEOREM TypeCorrect == Spec => []TypeOK
<1> USE ControllerAssumption
<1>0. NoOutputs \in Outputs /\ PowerOn \in Machine
  BY DEF NoOutputs, Ignore, PowerOn, Outputs, Machine, State, Reason, MotorAction
<1> DEFINE Sample(b) == [i \in Input |-> IF i = "beam" THEN b ELSE LimitRaw(i)]
<1>s. \A b \in BOOLEAN : Sample(b) \in [Input -> BOOLEAN]
  <2>1. \A i : LimitRaw(i) \in BOOLEAN
    BY DEF LimitRaw
  <2> QED BY <2>1
<1>1. Init => TypeOK
  <2> SUFFICES ASSUME Init PROVE TypeOK
    OBVIOUS
  <2>1. seen \in [Input -> BOOLEAN]
    BY <1>s DEF Init
  <2>2. <<>> \in Seq(Event) /\ Len(<<>>) = 0 /\ 0 <= QueueDepth
    OBVIOUS
  <2>3. [state |-> "Initializing", reason |-> "None"] \in [state : State, reason : Reason]
    BY DEF State, Reason
  <2>4. stuck \in SUBSET {"open", "closed"} /\ pos \in 0..Travel
    BY DEF Init
  <2> QED BY <1>0, <2>1, <2>2, <2>3, <2>4 DEF Init, TypeOK, Call
<1>2. TypeOK /\ [Next]_vars => TypeOK'
  <2> SUFFICES ASSUME TypeOK, [Next]_vars
               PROVE  TypeOK'
    OBVIOUS
  <2> USE DEF machineVars, actuatorVars, timerVars, inputVars, plantVars
  <2>1. CASE ReceiveEvent
    <3>1. Head(queue) \in Event /\ Tail(queue) \in Seq(Event)
          /\ Len(Tail(queue)) <= QueueDepth
      BY <2>1 DEF ReceiveEvent, TypeOK
    <3>2. Handle(sm, Head(queue)) \in Outputs
      BY <3>1, HandleType DEF TypeOK
    <3>3. sm' \in Machine /\ out' \in Outputs
      BY <3>2, <2>1 DEF ReceiveEvent, Outputs
    <3> QED BY <3>1, <3>3, <2>1 DEF ReceiveEvent, TypeOK, Call
  <2>2. CASE ExecuteFirstWrite
    BY <2>2 DEF ExecuteFirstWrite, TypeOK, Call
  <2>3. CASE ExecuteSecondWrite
    BY <2>3 DEF ExecuteSecondWrite, TypeOK, Call, Machine
  <2>4. CASE ManageTimers
    BY <2>4 DEF ManageTimers, AfterTimers, TypeOK, Call
  <2>5. CASE ApplyPolicies
    <3>1. "CommandOpen" \in Event
      BY DEF Event
    <3>2. queue' \in Seq(Event) /\ Len(queue') <= QueueDepth
          /\ lost' \in SUBSET {"overflow", "boot"}
      <4>1. Post("CommandOpen") \/ UNCHANGED <<queue, lost>>
        BY <2>5 DEF ApplyPolicies
      <4>2. CASE Post("CommandOpen")
        BY <3>1, <4>2, PostType
      <4>3. CASE UNCHANGED <<queue, lost>>
        BY <4>3 DEF TypeOK
      <4>4. QED
        BY <4>1, <4>2, <4>3
    <3> QED BY <3>2, <2>5, <1>0 DEF ApplyPolicies, EndOfStep, TypeOK, Call
  <2>6. CASE ResolveBootPosition
    <3>1. sm' \in Machine /\ out' \in Outputs
      BY <2>6, ResolvedType DEF ResolveBootPosition, Outputs
    <3> QED BY <3>1, <2>6 DEF ResolveBootPosition, TypeOK, Call
  <2>7. CASE PreLatchBeam
    <3>1. "SafetyBeamTripped" \in Event
      BY DEF Event
    <3>2. Handle(sm, "SafetyBeamTripped").sm \in Machine
      BY <3>1, HandleType DEF Outputs, TypeOK
    <3> QED BY <3>2, <2>7 DEF PreLatchBeam, TypeOK, Call
  <2>8. CASE RegisterCallback
    BY <2>8 DEF RegisterCallback, TypeOK, Call, Input
  <2>9. ASSUME NEW i \in Input, CommitInput(i)
        PROVE  TypeOK'
    <3>1. \A v \in BOOLEAN : Edge(i, v) \in Event
      BY DEF Edge, Event
    <3>2. seen[i] \in BOOLEAN /\ seen' \in [Input -> BOOLEAN]
      BY <2>9 DEF CommitInput, TypeOK
    <3> QED BY <3>1, <3>2, <2>9 DEF CommitInput, TypeOK
  <2>10. CASE WatchdogExpires
    BY <2>10 DEF WatchdogExpires, TypeOK, Event
  <2>11. CASE AutocloseExpires
    BY <2>11 DEF AutocloseExpires, TypeOK, Event
  <2>12. CASE TimerPosts
    <3>1. tmr \in Event
      BY <2>12 DEF TimerPosts, TypeOK
    <3> QED BY <3>1, <2>12, PostType DEF TimerPosts, TypeOK
  <2>13. ASSUME NEW c \in Commands, Command(c)
         PROVE  TypeOK'
    <3>1. c \in Event
      BY DEF Event
    <3> QED BY <3>1, <2>13, PostType DEF Command, TypeOK
  <2>14. CASE GateMoves
    BY <2>14 DEF GateMoves, TypeOK
  <2>15. CASE Restart
    <3>1. seen' \in [Input -> BOOLEAN]
      BY <2>15, <1>s DEF Restart, FreshBoot
    <3>2. <<>> \in Seq(Event) /\ Len(<<>>) = 0 /\ 0 <= QueueDepth
      OBVIOUS
    <3>3. [state |-> "Initializing", reason |-> "None"] \in [state : State, reason : Reason]
      BY DEF State, Reason
    <3> QED BY <2>15, <1>0, <3>1, <3>2, <3>3 DEF Restart, FreshBoot, TypeOK, Call
  <2>16. CASE UNCHANGED vars
    BY <2>16 DEF vars, TypeOK
  <2> QED
    BY <2>1, <2>2, <2>3, <2>4, <2>5, <2>6, <2>7, <2>8, <2>9, <2>10, <2>11,
       <2>12, <2>13, <2>14, <2>15, <2>16 DEF Next, Pump, Boot, TimerTask
<1> QED BY <1>1, <1>2, PTL DEF Spec

-----------------------------------------------------------------------------
(* Which thread is where, and what its Outputs are.                        *)

ControlInv ==
  /\ pc \in {"latch", "register open", "register closed", "register beam"}
       => running = "boot"
  /\ pc \in {"recv", "policy"} => running = "pump"
  /\ running = "boot" => job = "resolve" /\ "beam" \notin cbs
  /\ running = "pump" => cbs = Input
  /\ pc \in {"drop", "pick", "timers"} => out.sm = sm /\ out.transitioned
  /\ pc = "policy" => out.sm = sm /\ job # "resolve"
  /\ job = "reset" /\ pc \in {"drop", "pick", "timers", "policy"}
       => sm.state = "Initializing"
  /\ pc = "recv" => job = "resolve"
  /\ pc = "resolve" => job = "resolve" /\ sm.state = "Initializing"
  /\ pc = "latch" => /\ sm.state = "Initializing" /\ sm.beamClear
                     /\ queue = <<>> /\ tmr = "None" /\ ~watchdog /\ ~autoclose
                     /\ cbs = {}

\* The calls of start() and pump_task follow each other as the code has them.
THEOREM ControlCorrect == Spec => []ControlInv
<1>1. Init => ControlInv
  BY DEF Init, ControlInv, PowerOn
<1>2. TypeOK /\ ControlInv /\ [Next]_vars => ControlInv'
  <2> SUFFICES ASSUME TypeOK, ControlInv, [Next]_vars
               PROVE  ControlInv'
    OBVIOUS
  <2> USE DEF machineVars, actuatorVars, timerVars, inputVars, plantVars
  <2>1. CASE ReceiveEvent
    <3> DEFINE e == Head(queue)
               l == LatchBeam(sm, e)
               o == Handle(sm, e)
    <3>1. e \in Event /\ sm \in Machine
      BY <2>1 DEF ReceiveEvent, TypeOK
    <3>2. StepFacts(l, e, o) /\ l.state = sm.state
      BY <3>1, LatchFacts
    <3>3. /\ out' = o /\ sm' = o.sm /\ running' = running /\ cbs' = cbs /\ pc = "recv"
          /\ pc' = IF o.transitioned THEN "drop" ELSE "policy"
          /\ job' = IF e = "FaultCleared" /\ o.transitioned THEN "reset" ELSE "event"
      BY <2>1 DEF ReceiveEvent
    <3>5. o.transitioned \in BOOLEAN
      BY <3>1, HandleType DEF Outputs
    <3> HIDE DEF e, l, o
    <3> QED BY <3>2, <3>3, <3>5 DEF ControlInv, StepFacts
  <2>2. CASE ExecuteFirstWrite
    BY <2>2 DEF ExecuteFirstWrite, ControlInv
  <2>3. CASE ExecuteSecondWrite
    BY <2>3 DEF ExecuteSecondWrite, ControlInv
  <2>4. CASE ManageTimers
    BY <2>4 DEF ManageTimers, AfterTimers, ControlInv, TypeOK
  <2>5. CASE ApplyPolicies
    BY <2>5 DEF ApplyPolicies, EndOfStep, ControlInv, Moving
  <2>6. CASE ResolveBootPosition
    BY <2>6, ResolvedFacts DEF ResolveBootPosition, ControlInv
  <2>7. CASE PreLatchBeam
    <3>1. "SafetyBeamTripped" \in Event /\ sm \in Machine
      BY DEF Event, TypeOK
    <3>2. Handle(sm, "SafetyBeamTripped").sm.state = "Initializing"
      BY <3>1, <2>7, LatchFacts DEF StepFacts, PreLatchBeam, ControlInv
    <3>3. sm'.state = "Initializing"
      BY <3>2, <2>7 DEF PreLatchBeam, ControlInv
    <3> QED BY <3>3, <2>7 DEF PreLatchBeam, ControlInv, Moving
  <2>8. CASE RegisterCallback
    BY <2>8 DEF RegisterCallback, ControlInv, TypeOK
  <2>9. ASSUME NEW i \in Input, CommitInput(i)
        PROVE  ControlInv'
    BY <2>9 DEF CommitInput, ControlInv
  <2>10. CASE WatchdogExpires
    BY <2>10 DEF WatchdogExpires, ControlInv
  <2>11. CASE AutocloseExpires
    BY <2>11 DEF AutocloseExpires, ControlInv
  <2>12. CASE TimerPosts
    BY <2>12 DEF TimerPosts, ControlInv
  <2>14. CASE GateMoves
    BY <2>14 DEF GateMoves, ControlInv
  <2>13. ASSUME NEW c \in Commands, Command(c)
         PROVE  ControlInv'
    BY <2>13 DEF Command, ControlInv
  <2>15. CASE Restart
    BY <2>15 DEF Restart, FreshBoot, ControlInv, PowerOn
  <2>16. CASE UNCHANGED vars
    BY <2>16 DEF vars, ControlInv
  <2> QED
    BY <2>1, <2>2, <2>3, <2>4, <2>5, <2>6, <2>7, <2>8, <2>9, <2>10, <2>11,
       <2>12, <2>13, <2>14,
       <2>15, <2>16 DEF Next, Pump, Boot, TimerTask
<1> QED BY <1>1, <1>2, TypeCorrect, PTL DEF Spec

-----------------------------------------------------------------------------
(* The motor.  Inside execute() the contactors still are those of the      *)
(* previous state, so the invariant says what each half of it has done.    *)

MotorInv ==
  /\ RelayInterlock
  /\ MotorFollowsState
  /\ pc \in {"drop", "pick"} => MotorAgrees(out)
  /\ pc \in {"drop", "pick"} /\ out.motor = "Keep" => RelaysMatch(sm.state)
  /\ pc = "pick" /\ out.motor \in {"StopMotor", "DriveMotorClose"} => ~relayOpen
  /\ pc = "pick" /\ out.motor = "DriveMotorOpen" => ~relayClose

\* Every step keeps the contactors in line with the call in progress.
LEMMA MotorInductive ==
  Spec => []MotorInv
<1> USE DEF RelayInterlock, RelaysMatch
<1>1. Init => MotorInv
  <2> SUFFICES ASSUME Init PROVE MotorInv
    OBVIOUS
  <2>1. sm.state = "Initializing" /\ pc = "latch"
    BY DEF Init, PowerOn
  <2>2. relayOpen = FALSE /\ relayClose = FALSE
    BY DEF Init
  <2> QED BY <2>1, <2>2 DEF MotorInv, MotorFollowsState
<1>2. TypeOK /\ ControlInv /\ MotorInv /\ [Next]_vars => MotorInv'
  <2> SUFFICES ASSUME TypeOK, ControlInv, MotorInv, [Next]_vars
               PROVE  MotorInv'
    OBVIOUS
  <2> USE DEF machineVars, actuatorVars, timerVars, inputVars, plantVars
  <2>1. CASE ReceiveEvent
    <3> DEFINE e == Head(queue)
               l == LatchBeam(sm, e)
               o == Handle(sm, e)
    <3>1. e \in Event /\ sm \in Machine
      BY <2>1 DEF ReceiveEvent, TypeOK
    <3>2. StepFacts(l, e, o) /\ l.state = sm.state
      BY <3>1, LatchFacts
    <3>3. /\ out' = o /\ sm' = o.sm /\ pc = "recv"
          /\ pc' = IF o.transitioned THEN "drop" ELSE "policy"
          /\ UNCHANGED <<relayOpen, relayClose>>
      BY <2>1 DEF ReceiveEvent
    <3>4. o.transitioned \in BOOLEAN
      BY <3>1, HandleType DEF Outputs
    <3>5. relayOpen = (sm.state = "Opening") /\ relayClose = (sm.state = "Closing")
      BY <3>3 DEF MotorInv, MotorFollowsState
    <3> HIDE DEF e, l, o
    <3>6. CASE o.transitioned
      BY <3>2, <3>3, <3>5, <3>6 DEF MotorInv, MotorFollowsState, StepFacts
    <3>7. CASE ~o.transitioned
      BY <3>2, <3>3, <3>5, <3>7 DEF MotorInv, MotorFollowsState, StepFacts
    <3> QED BY <3>6, <3>7
  <2>2. CASE ExecuteFirstWrite
    BY <2>2 DEF ExecuteFirstWrite, MotorInv, MotorFollowsState, TypeOK, ControlInv, MotorAgrees
  <2>3. CASE ExecuteSecondWrite
    <3>1. out.sm = sm /\ out.motor \in MotorAction /\ MotorAgrees(out)
      BY <2>3 DEF ExecuteSecondWrite, TypeOK, Outputs, ControlInv, MotorInv
    <3> QED
      BY <2>3, <3>1 DEF ExecuteSecondWrite, MotorInv, MotorFollowsState, TypeOK,
                  MotorAgrees, MotorAction, Moving
  <2>4. CASE ManageTimers
    <3>1. pc' \notin {"drop", "pick"}
      BY <2>4 DEF ManageTimers, AfterTimers
    <3> QED BY <3>1, <2>4 DEF ManageTimers, MotorInv, MotorFollowsState
  <2>5. CASE ApplyPolicies
    BY <2>5 DEF ApplyPolicies, EndOfStep, MotorInv, MotorFollowsState
  <2>6. CASE ResolveBootPosition
    BY <2>6, ResolvedFacts DEF ResolveBootPosition, MotorInv, MotorFollowsState,
                               ControlInv, MotorAgrees, Moving
  <2>7. CASE PreLatchBeam
    <3>1. "SafetyBeamTripped" \in Event /\ sm \in Machine
      BY DEF Event, TypeOK
    <3>2. Handle(sm, "SafetyBeamTripped").sm.state = "Initializing"
      BY <3>1, <2>7, LatchFacts DEF StepFacts, PreLatchBeam, ControlInv
    <3>3. sm'.state = "Initializing" /\ sm.state = "Initializing"
      BY <3>2, <2>7 DEF PreLatchBeam, ControlInv
    <3> QED BY <3>3, <2>7 DEF PreLatchBeam, MotorInv, MotorFollowsState
  <2>8. CASE RegisterCallback
    BY <2>8 DEF RegisterCallback, MotorInv, MotorFollowsState
  <2>9. ASSUME NEW i \in Input, CommitInput(i)
        PROVE  MotorInv'
    BY <2>9 DEF CommitInput, MotorInv, MotorFollowsState
  <2>10. CASE WatchdogExpires \/ AutocloseExpires \/ TimerPosts \/ GateMoves
    BY <2>10 DEF WatchdogExpires, AutocloseExpires, TimerPosts, GateMoves,
                 MotorInv, MotorFollowsState
  <2>13. ASSUME NEW c \in Commands, Command(c)
         PROVE  MotorInv'
    BY <2>13 DEF Command, MotorInv, MotorFollowsState
  <2>15. CASE Restart
    BY <2>15 DEF Restart, FreshBoot, MotorInv, MotorFollowsState, PowerOn
  <2>16. CASE UNCHANGED vars
    BY <2>16 DEF vars, MotorInv, MotorFollowsState
  <2> QED
    BY <2>1, <2>2, <2>3, <2>4, <2>5, <2>6, <2>7, <2>8, <2>9, <2>10, <2>13,
       <2>15, <2>16 DEF Next, Pump, Boot, TimerTask
<1> QED BY <1>1, <1>2, TypeCorrect, ControlCorrect, PTL DEF Spec

\* Break-before-make: the two contactors are never energised together, at any
\* interleaving of the pump with the timer task and at any restart.
THEOREM InterlockHolds == Spec => []RelayInterlock
BY MotorInductive, PTL DEF MotorInv

\* The contactors follow the machine's state outside execute().
THEOREM MotorCorrect == Spec => []MotorFollowsState
BY MotorInductive, PTL DEF MotorInv

-----------------------------------------------------------------------------
(* What is owed to a state: a moving gate its watchdog, an open gate its   *)
(* auto-close, a gate stopped by the beam its reversal.  Each debt is a    *)
(* running timer or an event on its way, and while the pump is between     *)
(* handle and the end of the step it may still be in the Outputs.          *)

Queued(q, e) == \E i \in 1..Len(q) : q[i] = e

\* What was in flight stays in flight after a post, and the posted event joins it.
LEMMA PostQueues ==
  ASSUME TypeOK, NEW e \in Event, Post(e)
  PROVE  /\ \A x : Queued(queue, x) => Queued(queue', x)
         /\ "overflow" \notin lost' => Queued(queue', e) /\ "overflow" \notin lost
<1>1. CASE Len(queue) < QueueDepth
  <2>1. /\ queue' = Append(queue, e) /\ lost' = lost
    BY <1>1 DEF Post
  <2>2. /\ Len(Append(queue, e)) = Len(queue) + 1 /\ Len(queue) \in Nat
        /\ \A i \in 1..Len(queue) : Append(queue, e)[i] = queue[i]
        /\ Append(queue, e)[Len(queue) + 1] = e
    BY DEF TypeOK
  <2> QED BY <2>1, <2>2 DEF Queued
<1>2. CASE ~(Len(queue) < QueueDepth)
  BY <1>2 DEF Post
<1> QED BY <1>1, <1>2

\* Taking the head of the queue removes no other event that is in flight.
LEMMA TailQueues ==
  ASSUME NEW q \in Seq(Event), q # <<>>
  PROVE  \A x : Queued(q, x) => x = Head(q) \/ Queued(Tail(q), x)
<1> SUFFICES ASSUME NEW x, NEW i \in 1..Len(q), q[i] = x, x # Head(q)
             PROVE  Queued(Tail(q), x)
  BY DEF Queued
<1>1. i # 1
  OBVIOUS
<1>2. i - 1 \in 1..Len(Tail(q)) /\ Tail(q)[i - 1] = x
  BY <1>1
<1> QED BY <1>2 DEF Queued

Owed(e) == tmr = e \/ Queued(queue, e)

\* A post, from the timer task or from another task, loses nothing that is owed.
LEMMA PostOwes ==
  ASSUME TypeOK, NEW e \in Event, Post(e), tmr' = tmr \/ tmr = e,
         "overflow" \notin lost'
  PROVE  /\ \A x : Owed(x) => Owed(x)'
         /\ Owed(e)' /\ "overflow" \notin lost
<1>1. /\ \A x : Queued(queue, x) => Queued(queue', x)
      /\ Queued(queue', e) /\ "overflow" \notin lost
  BY PostQueues
<1> QED BY <1>1 DEF Owed

\* Receiving an event keeps whatever else is owed.
LEMMA ReceiveOwes ==
  ASSUME TypeOK, ReceiveEvent
  PROVE  \A x : Owed(x) => x = Head(queue) \/ Owed(x)'
<1>1. queue \in Seq(Event) /\ queue # <<>> /\ queue' = Tail(queue) /\ tmr' = tmr
  BY DEF TypeOK, ReceiveEvent
<1>2. \A x : Queued(queue, x) => x = Head(queue) \/ Queued(Tail(queue), x)
  BY <1>1, TailQueues
<1> QED BY <1>1, <1>2 DEF Owed

WatchdogOwed ==
  (pc \notin {"drop", "pick", "timers"} /\ Moving(sm.state) /\ MotorTimeoutOn
     /\ "overflow" \notin lost) => watchdog \/ Owed("MotorTimeout")

AutoCloseOwed ==
  (pc \notin {"drop", "pick", "timers"} /\ sm.state = "Open" /\ AutoCloseOn
     /\ "overflow" \notin lost)
    => autoclose \/ Owed("CommandClose") \/ (pc = "policy" /\ BeamRefusedClose)

ReversalOwed ==
  (sm.state = "StoppedClose" /\ sm.reason = "SafetyBeamObstacle" /\ ReverseOnBeam
     /\ "overflow" \notin lost)
    => \/ Owed("CommandOpen")
       \/ pc \in {"drop", "pick", "timers", "policy"} /\ job # "resolve" /\ BeamStop

DebtInv == WatchdogOwed /\ AutoCloseOwed /\ ReversalOwed

\* Every step keeps what the controller owes: watchdog, auto-close, reversal.
LEMMA DebtInductive ==
  Spec => []DebtInv
<1> USE DEF DebtInv, WatchdogOwed, AutoCloseOwed, ReversalOwed
<1>1. Init => DebtInv
  BY DEF Init, PowerOn, Moving
<1>2. TypeOK /\ ControlInv /\ DebtInv /\ [Next]_vars => DebtInv'
  <2> SUFFICES ASSUME TypeOK, ControlInv, DebtInv, [Next]_vars
               PROVE  DebtInv'
    OBVIOUS
  <2> USE DEF machineVars, actuatorVars, timerVars, inputVars, plantVars
  <2>1. CASE ReceiveEvent
    <3> DEFINE e == Head(queue)
               l == LatchBeam(sm, e)
               o == Handle(sm, e)
    <3>1. e \in Event /\ sm \in Machine
      BY <2>1 DEF ReceiveEvent, TypeOK
    <3>2. StepFacts(l, e, o) /\ l.state = sm.state /\ l.reason = sm.reason
      BY <3>1, LatchFacts
    <3>3. /\ out' = o /\ sm' = o.sm /\ pc = "recv"
          /\ pc' = IF o.transitioned THEN "drop" ELSE "policy"
          /\ job' # "resolve"
          /\ UNCHANGED <<watchdog, autoclose, lost>>
      BY <2>1 DEF ReceiveEvent
    <3>4. o.transitioned \in BOOLEAN
      BY <3>1, HandleType DEF Outputs
    <3>5. \A x : Owed(x) => x = e \/ Owed(x)'
      BY <2>1, ReceiveOwes
    <3> HIDE DEF e, l, o
    <3>6. CASE o.transitioned
      BY <3>2, <3>3, <3>6 DEF StepFacts, BeamStop
    <3>7. CASE ~o.transitioned
      <4>1. pc' = "policy" /\ sm'.state = sm.state /\ sm'.reason = sm.reason
        BY <3>2, <3>3, <3>7 DEF StepFacts
      <4>2. WatchdogOwed'
        BY <4>1, <3>2, <3>3, <3>5 DEF StepFacts
      <4>3. AutoCloseOwed'
        BY <4>1, <3>2, <3>3, <3>5, <3>7 DEF StepFacts, BeamRefusedClose
      <4>4. ReversalOwed'
        BY <4>1, <3>2, <3>3, <3>5 DEF StepFacts
      <4> QED BY <4>2, <4>3, <4>4
    <3> QED BY <3>6, <3>7
  <2>2. CASE ExecuteFirstWrite
    BY <2>2 DEF ExecuteFirstWrite, Owed, BeamStop
  <2>3. CASE ExecuteSecondWrite
    BY <2>3 DEF ExecuteSecondWrite, Owed, BeamStop
  <2>4. CASE ManageTimers
    <3>1. /\ out.transitioned
          /\ watchdog' = (Moving(sm.state) /\ MotorTimeoutOn)
          /\ autoclose' = (sm.state = "Open" /\ AutoCloseOn)
          /\ job # "resolve" => pc' = "policy"
          /\ UNCHANGED <<sm, job, out, queue, tmr, lost>>
      BY <2>4 DEF ManageTimers, AfterTimers, ControlInv
    <3> QED BY <3>1, ControllerAssumption DEF Owed, BeamStop
  <2>5. CASE ApplyPolicies
    <3>1. /\ UNCHANGED <<sm, watchdog, tmr>> /\ pc = "policy"
          /\ pc' \in {"resolve", "recv"}
          /\ autoclose' = (autoclose \/ (BeamRefusedClose /\ AutoCloseOn))
      BY <2>5 DEF ApplyPolicies, EndOfStep
    <3>2. CASE ReverseOnBeam /\ BeamStop
      <4>1. Post("CommandOpen") /\ "CommandOpen" \in Event
        BY <2>5, <3>2 DEF ApplyPolicies, Event
      <4> QED BY <3>1, <4>1, PostOwes, ControllerAssumption DEF TypeOK
    <3>3. CASE ~(ReverseOnBeam /\ BeamStop)
      <4>1. UNCHANGED <<queue, lost>>
        BY <2>5, <3>3 DEF ApplyPolicies
      <4> QED BY <3>1, <3>3, <4>1, ControllerAssumption DEF Owed, TypeOK
    <3> QED BY <3>2, <3>3
  <2>6. CASE ResolveBootPosition
    BY <2>6, ResolvedFacts DEF ResolveBootPosition
  <2>7. CASE PreLatchBeam
    <3>1. "SafetyBeamTripped" \in Event /\ sm \in Machine
      BY DEF Event, TypeOK
    <3>2. Handle(sm, "SafetyBeamTripped").sm.state = "Initializing"
      BY <3>1, <2>7, LatchFacts DEF StepFacts, PreLatchBeam, ControlInv
    <3>3. sm'.state = "Initializing"
      BY <3>2, <2>7 DEF PreLatchBeam, ControlInv
    <3> QED BY <3>3 DEF Moving
  <2>8. CASE RegisterCallback
    BY <2>8 DEF RegisterCallback, Owed
  <2>9. ASSUME NEW i \in Input, CommitInput(i)
        PROVE  DebtInv'
    <3>1. \A x \in Event : Owed(x) => Owed(x)'
      BY <2>9 DEF CommitInput, Owed, Event
    <3>2. "overflow" \notin lost' => "overflow" \notin lost
      BY <2>9 DEF CommitInput
    <3> QED BY <3>1, <3>2, <2>9 DEF CommitInput, Event, BeamStop, BeamRefusedClose
  <2>10. CASE WatchdogExpires
    <3>1. \A x \in Event : Owed(x) => Owed(x)'
      BY <2>10 DEF WatchdogExpires, Owed, Event
    <3>2. Owed("MotorTimeout")'
      BY <2>10 DEF WatchdogExpires, Owed
    <3> QED BY <3>1, <3>2, <2>10 DEF WatchdogExpires, Event, BeamStop, BeamRefusedClose
  <2>11. CASE AutocloseExpires
    <3>1. \A x \in Event : Owed(x) => Owed(x)'
      BY <2>11 DEF AutocloseExpires, Owed, Event
    <3>2. Owed("CommandClose")'
      BY <2>11 DEF AutocloseExpires, Owed
    <3> QED BY <3>1, <3>2, <2>11 DEF AutocloseExpires, Event, BeamStop, BeamRefusedClose
  <2>12. CASE TimerPosts
    <3>1. tmr \in Event /\ Post(tmr)
      BY <2>12 DEF TimerPosts, TypeOK
    <3> QED BY <3>1, <2>12, PostOwes DEF TimerPosts, BeamStop, BeamRefusedClose
  <2>13. ASSUME NEW c \in Commands, Command(c)
         PROVE  DebtInv'
    <3>1. c \in Event /\ Post(c)
      BY <2>13, ControllerAssumption DEF Command, Event
    <3> QED BY <3>1, <2>13, PostOwes DEF Command, BeamStop, BeamRefusedClose
  <2>14. CASE GateMoves
    BY <2>14 DEF GateMoves, Owed, BeamStop, BeamRefusedClose
  <2>15. CASE Restart
    BY <2>15 DEF Restart, FreshBoot, PowerOn, Moving
  <2>16. CASE UNCHANGED vars
    BY <2>16 DEF vars, Owed, BeamStop, BeamRefusedClose
  <2> QED
    BY <2>1, <2>2, <2>3, <2>4, <2>5, <2>6, <2>7, <2>8, <2>9, <2>10, <2>11,
       <2>12, <2>13, <2>14, <2>15, <2>16 DEF Next, Pump, Boot, TimerTask
<1> QED BY <1>1, <1>2, TypeCorrect, ControlCorrect, PTL DEF Spec

\* No gate moves without a running watchdog or a timeout on its way.
THEOREM MotionWatched == Spec => []MotionIsWatched
<1>1. DebtInv => MotionIsWatched
  BY DEF DebtInv, WatchdogOwed, Owed, Queued, MotionIsWatched, InFlight
<1> QED BY <1>1, DebtInductive, PTL

\* No open gate with auto-close is forgotten, also after refused closes.
THEOREM AutoCloseKept == Spec => []AutoCloseNotForgotten
<1>1. DebtInv => AutoCloseNotForgotten
  BY DEF DebtInv, AutoCloseOwed, Owed, Queued, AutoCloseNotForgotten, InFlight
<1> QED BY <1>1, DebtInductive, PTL

\* No gate rests half closed where the beam stopped it.
THEOREM ReversalPending == Spec => []ReversalIsPending
<1>1. DebtInv => ReversalIsPending
  BY DEF DebtInv, ReversalOwed, Owed, Queued, ReversalIsPending, InFlight
<1> QED BY <1>1, DebtInductive, PTL

-----------------------------------------------------------------------------
(* The beam.  Beam edges reach the pump in the order the poller committed  *)
(* them: an outdated one is always followed by the current one, so the     *)
(* latch ends up at the committed value.                                   *)

Current == Edge("beam", seen["beam"])
Outdated == Edge("beam", ~seen["beam"])

BeamOrder ==
  \A i \in 1..Len(queue) : queue[i] = Outdated =>
    tmr = Current \/ \E j \in 1..Len(queue) : j > i /\ queue[j] = Current

BeamInv ==
  /\ sm.state = "Closing" => sm.beamClear
  /\ lost = {} /\ pc # "latch" =>
       /\ BeamOrder
       /\ tmr # Outdated
       /\ sm.beamClear = seen["beam"] => Owed(Current)

\* A post of anything but an outdated beam edge keeps the order.
LEMMA PostKeepsOrder ==
  ASSUME TypeOK, NEW e \in Event, Post(e), lost' = {}, seen' = seen,
         BeamOrder, e # Outdated, tmr' = tmr \/ tmr = e
  PROVE  BeamOrder' /\ lost = {}
<1>1. queue' = Append(queue, e) /\ lost' = lost
  BY DEF Post
<1>2. /\ Len(queue') = Len(queue) + 1 /\ Len(queue) \in Nat
      /\ \A i \in 1..Len(queue) : queue'[i] = queue[i]
      /\ queue'[Len(queue) + 1] = e
  BY <1>1 DEF TypeOK
<1>3. Current' = Current /\ Outdated' = Outdated
  BY DEF Current, Outdated
<1>4. ASSUME NEW i \in 1..Len(queue'), queue'[i] = Outdated
      PROVE  tmr' = Current \/ \E j \in 1..Len(queue') : j > i /\ queue'[j] = Current
  <2>1. i \in 1..Len(queue) /\ queue[i] = Outdated
    BY <1>2, <1>4
  <2>2. CASE tmr = Current
    BY <2>1, <2>2, <1>2
  <2>3. CASE \E j \in 1..Len(queue) : j > i /\ queue[j] = Current
    BY <2>1, <2>3, <1>2
  <2> QED BY <2>1, <2>2, <2>3 DEF BeamOrder
<1> QED BY <1>1, <1>3, <1>4 DEF BeamOrder

\* Taking the head of the queue keeps the order of the beam edges behind it.
LEMMA TailKeepsOrder ==
  ASSUME TypeOK, queue # <<>>, queue' = Tail(queue), UNCHANGED <<seen, tmr>>,
         BeamOrder
  PROVE  BeamOrder'
<1>1. /\ Len(queue') = Len(queue) - 1 /\ Len(queue) \in Nat
      /\ \A i \in 1..Len(queue') : queue'[i] = queue[i + 1]
  BY DEF TypeOK
<1>2. Current' = Current /\ Outdated' = Outdated
  BY DEF Current, Outdated
<1>3. ASSUME NEW i \in 1..Len(queue'), queue'[i] = Outdated, tmr # Current
      PROVE  \E j \in 1..Len(queue') : j > i /\ queue'[j] = Current
  <2>1. i + 1 \in 1..Len(queue) /\ queue[i + 1] = Outdated
    BY <1>1, <1>3
  <2>2. PICK j \in 1..Len(queue) : j > i + 1 /\ queue[j] = Current
    BY <2>1, <1>3 DEF BeamOrder
  <2>3. j - 1 \in 1..Len(queue') /\ j - 1 > i /\ queue'[j - 1] = Current
    BY <1>1, <2>2
  <2> QED BY <2>3
<1> QED BY <1>2, <1>3 DEF BeamOrder

\* The beam edges differ from each other and from every other event.
LEMMA BeamEdges ==
  ASSUME TypeOK
  PROVE  /\ Current = IF seen["beam"] THEN "SafetyBeamTripped" ELSE "SafetyBeamCleared"
         /\ Outdated = IF seen["beam"] THEN "SafetyBeamCleared" ELSE "SafetyBeamTripped"
         /\ seen["beam"] \in BOOLEAN /\ sm.beamClear \in BOOLEAN
BY DEF TypeOK, Machine, Current, Outdated, Edge, Input

\* Every step keeps the latch, the beam edges in flight and the beam in line.
LEMMA BeamInductive ==
  Spec => []BeamInv
<1> USE DEF BeamInv
<1>1. Init => BeamInv
  BY DEF Init, PowerOn
<1>2. TypeOK /\ ControlInv /\ BeamInv /\ [Next]_vars => BeamInv'
  <2> SUFFICES ASSUME TypeOK, ControlInv, BeamInv, [Next]_vars
               PROVE  BeamInv'
    OBVIOUS
  <2> USE DEF machineVars, actuatorVars, timerVars, inputVars, plantVars
  <2>a. ASSUME UNCHANGED <<seen, tmr, queue>> PROVE
            /\ BeamOrder => BeamOrder'
            /\ Current' = Current /\ Outdated' = Outdated
            /\ Owed(Current) => Owed(Current)'
    BY <2>a DEF BeamOrder, Current, Outdated, Owed
  <2>1. CASE ReceiveEvent
    <3> DEFINE e == Head(queue)
               l == LatchBeam(sm, e)
               o == Handle(sm, e)
    <3>1. e \in Event /\ sm \in Machine /\ queue # <<>> /\ queue \in Seq(Event)
      BY <2>1 DEF ReceiveEvent, TypeOK
    <3>2. /\ StepFacts(l, e, o) /\ l.state = sm.state
          /\ e = "SafetyBeamTripped" => ~l.beamClear
          /\ e = "SafetyBeamCleared" => l.beamClear
          /\ e \notin {"SafetyBeamTripped", "SafetyBeamCleared"}
               => l.beamClear = sm.beamClear
      BY <3>1, LatchFacts
    <3>3. /\ sm' = o.sm /\ pc = "recv" /\ queue' = Tail(queue)
          /\ UNCHANGED <<seen, tmr, lost>>
      BY <2>1 DEF ReceiveEvent
    <3>5. \A x : Owed(x) => x = e \/ Owed(x)'
      BY <2>1, ReceiveOwes
    <3>6. Current' = Current /\ Outdated' = Outdated
      BY <3>3 DEF Current, Outdated
    <3>7. o.sm.beamClear = l.beamClear
      BY <3>2 DEF StepFacts
    <3>8. sm'.state = "Closing" => sm'.beamClear
      <4> HIDE DEF e, l, o
      <4> QED BY <3>2, <3>3 DEF StepFacts
    <3>9. ASSUME lost' = {}, sm'.beamClear = seen'["beam"] PROVE Owed(Current)'
      <4>1. CASE e = Outdated
        <5>1. 1 \in 1..Len(queue) /\ queue[1] = Outdated
          BY <3>1, <4>1
        <5>2. BeamOrder
          BY <3>3, <3>9
        <5>3. PICK j \in 1..Len(queue) : tmr = Current \/ (j > 1 /\ queue[j] = Current)
          BY <5>1, <5>2 DEF BeamOrder
        <5>4. CASE tmr = Current
          BY <5>4, <3>3, <3>6 DEF Owed
        <5>5. CASE j > 1 /\ queue[j] = Current
          <6>1. j - 1 \in 1..Len(Tail(queue)) /\ Tail(queue)[j - 1] = Current
            BY <5>5, <3>1
          <6> QED BY <6>1, <3>3, <3>6 DEF Owed, Queued
        <5> QED BY <5>3, <5>4, <5>5
      <4>2. CASE e # Outdated
        <5> HIDE DEF e, l, o
        <5>1. e # Current /\ e \notin {"SafetyBeamTripped", "SafetyBeamCleared"}
          BY <4>2, <3>9, <3>2, <3>3, <3>7, BeamEdges
        <5>2. sm.beamClear = seen["beam"]
          BY <5>1, <3>2, <3>3, <3>7, <3>9
        <5> QED BY <5>1, <5>2, <3>3, <3>5, <3>6, <3>9
      <4> QED BY <4>1, <4>2
    <3>10. lost' = {} => BeamOrder' /\ tmr' # Outdated'
      BY <3>1, <3>3, <3>6, TailKeepsOrder
    <3> QED BY <3>8, <3>9, <3>10
  <2>2. CASE ExecuteFirstWrite
    BY <2>a, <2>2 DEF ExecuteFirstWrite
  <2>3. CASE ExecuteSecondWrite
    BY <2>a, <2>3 DEF ExecuteSecondWrite
  <2>4. CASE ManageTimers
    BY <2>a, <2>4 DEF ManageTimers, AfterTimers
  <2>5. CASE ApplyPolicies
    <3>1. UNCHANGED <<sm, seen, tmr>> /\ pc = "policy"
      BY <2>5 DEF ApplyPolicies, EndOfStep
    <3>2. CASE ReverseOnBeam /\ BeamStop
      <4>1. Post("CommandOpen") /\ "CommandOpen" \in Event /\ "CommandOpen" # Outdated
        BY <2>5, <3>2, BeamEdges DEF ApplyPolicies, Event
      <4>2. Current' = Current /\ Outdated' = Outdated
        BY <3>1 DEF Current, Outdated
      <4>3. lost' = {} => lost = {}
        BY <4>1 DEF Post
      <4>4. lost' = {} => BeamOrder'
        BY <3>1, <4>1, <4>3, PostKeepsOrder
      <4>5. lost' = {} => \A x : Owed(x) => Owed(x)'
        BY <3>1, <4>1, PostOwes
      <4> QED BY <3>1, <4>2, <4>3, <4>4, <4>5
    <3>3. CASE ~(ReverseOnBeam /\ BeamStop)
      BY <2>a, <2>5, <3>1, <3>3 DEF ApplyPolicies
    <3> QED BY <3>2, <3>3
  <2>6. CASE ResolveBootPosition
    <3>1. /\ sm'.beamClear = sm.beamClear /\ sm'.state # "Closing"
          /\ pc = "resolve" /\ UNCHANGED <<seen, tmr, queue, lost>>
      BY <2>6, ResolvedFacts DEF ResolveBootPosition
    <3> QED BY <2>a, <3>1
  <2>7. CASE PreLatchBeam
    <3>1. "SafetyBeamTripped" \in Event /\ sm \in Machine
      BY DEF Event, TypeOK
    <3>2. /\ Handle(sm, "SafetyBeamTripped").sm.state = "Initializing"
          /\ ~Handle(sm, "SafetyBeamTripped").sm.beamClear
      BY <3>1, <2>7, LatchFacts DEF StepFacts, PreLatchBeam, ControlInv
    <3>3. /\ sm'.state = "Initializing"
          /\ sm'.beamClear # seen["beam"]
      BY <3>2, <2>7, BeamEdges DEF PreLatchBeam, ControlInv
    <3>4. queue' = <<>> /\ tmr' = "None" /\ seen' = seen
      BY <2>7 DEF PreLatchBeam, ControlInv
    <3>5. BeamOrder'
      BY <3>4 DEF BeamOrder
    <3>6. tmr' # Outdated'
      BY <3>4, BeamEdges DEF Outdated
    <3> QED BY <3>3, <3>4, <3>5, <3>6
  <2>8. CASE RegisterCallback
    BY <2>a, <2>8 DEF RegisterCallback
  <2>9. ASSUME NEW i \in Input, CommitInput(i)
        PROVE  BeamInv'
    <3>1. CASE i # "beam"
      <4>1. /\ UNCHANGED <<sm, pc, queue>> /\ seen'["beam"] = seen["beam"] /\ tmr = "None"
            /\ lost' = {} => lost = {}
        BY <2>9, <3>1 DEF CommitInput, TypeOK, Input
      <4>2. Current' = Current /\ Outdated' = Outdated
        BY <4>1 DEF Current, Outdated
      <4>3. tmr' # Outdated /\ tmr # Current
        BY <2>9, <3>1, <4>1, BeamEdges DEF CommitInput, Edge, Input
      <4>4. Owed(Current) => Owed(Current)'
        BY <4>1, <4>2, <4>3 DEF Owed
      <4>5. BeamOrder => BeamOrder'
        BY <4>1, <4>2, <4>3 DEF BeamOrder
      <4> QED BY <4>1, <4>2, <4>3, <4>4, <4>5
    <3>2. CASE i = "beam" /\ "beam" \in cbs
      <4>1. /\ UNCHANGED <<sm, pc, queue>> /\ seen'["beam"] = ~seen["beam"]
            /\ tmr' = Edge("beam", ~seen["beam"])
        BY <2>9, <3>2 DEF CommitInput, TypeOK, Input
      <4>2. tmr' = Current' /\ tmr' # Outdated'
        BY <4>1, BeamEdges DEF Current, Outdated, Edge
      <4>3. BeamOrder' /\ Owed(Current)'
        BY <4>2 DEF BeamOrder, Owed
      <4> QED BY <4>1, <4>2, <4>3
    <3>3. CASE i = "beam" /\ "beam" \notin cbs
      <4>1. running = "boot"
        BY <3>3 DEF ControlInv, TypeOK, Input
      <4>2. pc # "latch" => lost' # {}
        BY <4>1, <3>3, <2>9 DEF CommitInput, ReadAtBoot
      <4> QED BY <4>2, <2>9 DEF CommitInput
    <3> QED BY <3>1, <3>2, <3>3
  <2>10. CASE WatchdogExpires \/ AutocloseExpires
    <3>1. /\ UNCHANGED <<sm, pc, queue, seen, lost>> /\ tmr = "None"
          /\ tmr' \in {"MotorTimeout", "CommandClose"}
      BY <2>10 DEF WatchdogExpires, AutocloseExpires
    <3>2. Current' = Current /\ Outdated' = Outdated
      BY <3>1 DEF Current, Outdated
    <3>3. tmr' # Outdated /\ tmr # Current
      BY <3>1, BeamEdges
    <3>4. Owed(Current) => Owed(Current)'
      BY <3>1, <3>2, <3>3 DEF Owed
    <3>5. BeamOrder => BeamOrder'
      BY <3>1, <3>2, <3>3 DEF BeamOrder
    <3> QED BY <3>1, <3>2, <3>3, <3>4, <3>5
  <2>12. CASE TimerPosts
    <3>1. tmr \in Event /\ Post(tmr) /\ tmr' = "None" /\ UNCHANGED <<sm, pc, seen>>
      BY <2>12 DEF TimerPosts, TypeOK
    <3>2. Current' = Current /\ Outdated' = Outdated
      BY <3>1 DEF Current, Outdated
    <3>3. lost' = {} => lost = {}
      BY <3>1 DEF Post
    <3>4. lost' = {} /\ pc # "latch" => BeamOrder'
      BY <3>1, <3>3, PostKeepsOrder
    <3>5. lost' = {} => \A x : Owed(x) => Owed(x)'
      BY <3>1, PostOwes
    <3>6. tmr' # Outdated
      BY <3>1, BeamEdges
    <3> QED BY <3>1, <3>2, <3>3, <3>4, <3>5, <3>6
  <2>13. ASSUME NEW c \in Commands, Command(c)
         PROVE  BeamInv'
    <3>1. /\ c \in Event /\ Post(c) /\ UNCHANGED <<sm, pc, seen, tmr>> /\ c # Outdated
      BY <2>13, ControllerAssumption, BeamEdges DEF Command, Event
    <3>2. Current' = Current /\ Outdated' = Outdated
      BY <3>1 DEF Current, Outdated
    <3>3. lost' = {} => lost = {}
      BY <3>1 DEF Post
    <3>4. lost' = {} /\ pc # "latch" => BeamOrder'
      BY <3>1, <3>3, PostKeepsOrder
    <3>5. lost' = {} => \A x : Owed(x) => Owed(x)'
      BY <3>1, PostOwes
    <3> QED BY <3>1, <3>2, <3>3, <3>4, <3>5
  <2>14. CASE GateMoves
    BY <2>a, <2>14 DEF GateMoves
  <2>15. CASE Restart
    BY <2>15 DEF Restart, FreshBoot, PowerOn
  <2>16. CASE UNCHANGED vars
    BY <2>a, <2>16 DEF vars
  <2> QED
    BY <2>1, <2>2, <2>3, <2>4, <2>5, <2>6, <2>7, <2>8, <2>9, <2>10,
       <2>12, <2>13, <2>14, <2>15, <2>16 DEF Next, Pump, Boot, TimerTask
<1> QED BY <1>1, <1>2, TypeCorrect, ControlCorrect, PTL DEF Spec

\* The beam latch is the committed beam, or an edge that makes it so is on its way.
THEOREM LatchCorrect == Spec => []LatchFollowsBeam
<1>1. TypeOK /\ ControlInv /\ BeamInv => LatchFollowsBeam
  BY BeamEdges DEF ControlInv, BeamInv, Owed, Queued, LatchFollowsBeam, InFlight
<1> QED BY <1>1, TypeCorrect, ControlCorrect, BeamInductive, PTL

\* No gate is driven closed against a blocked beam whose trip is not on its way.
THEOREM NeverClosesBlind == Spec => []NoBlindClosing
<1>1. TypeOK /\ ControlInv /\ MotorInv /\ BeamInv => NoBlindClosing
  <2> SUFFICES ASSUME TypeOK, ControlInv, MotorInv, BeamInv, relayClose,
                      pc \notin {"drop", "pick"}, seen["beam"], lost = {}
               PROVE  InFlight("SafetyBeamTripped")
    BY DEF NoBlindClosing
  <2>1. sm.state = "Closing" /\ pc # "latch"
    BY DEF MotorInv, MotorFollowsState, RelaysMatch, ControlInv
  <2>2. Owed("SafetyBeamTripped")
    BY <2>1, BeamEdges DEF BeamInv
  <2> QED BY <2>2 DEF Owed, Queued, InFlight
<1> QED BY <1>1, TypeCorrect, ControlCorrect, MotorInductive, BeamInductive, PTL

-----------------------------------------------------------------------------
(* Leaving an unverified state.                                            *)

\* Faulted and Initializing are left only for a position one limit switch reads.
THEOREM FaultLeftVerified == Spec => LeavesFaultVerified
<1> DEFINE Verified ==
      Unverified(sm.state) /\ ~Unverified(sm'.state) =>
        \/ sm'.state = "Closed" /\ seen["closed"] /\ ~seen["open"]
        \/ sm'.state = "Open" /\ seen["open"] /\ ~seen["closed"]
<1>1. TypeOK /\ ControlInv /\ [Next]_vars => [Verified]_vars
  <2> SUFFICES ASSUME TypeOK, ControlInv, Next
               PROVE  Verified
    BY DEF vars, machineVars
  <2> USE DEF machineVars, Unverified
  <2>1. CASE ReceiveEvent
    <3>1. Head(queue) \in Event /\ sm \in Machine
      BY <2>1 DEF ReceiveEvent, TypeOK
    <3> QED BY <2>1, <3>1, LatchFacts DEF StepFacts, ReceiveEvent
  <2>2. CASE ResolveBootPosition
    BY <2>2, ResolvedFacts DEF ResolveBootPosition
  <2>3. CASE PreLatchBeam
    <3>1. "SafetyBeamTripped" \in Event /\ sm \in Machine
      BY DEF Event, TypeOK
    <3> QED BY <2>3, <3>1, LatchFacts DEF StepFacts, PreLatchBeam, ControlInv
  <2>4. CASE Restart
    BY <2>4 DEF Restart, FreshBoot, PowerOn
  <2>5. CASE UNCHANGED sm
    BY <2>5
  <2> QED
    BY <2>1, <2>2, <2>3, <2>4, <2>5 DEF Next, Pump, Boot, TimerTask, ExecuteFirstWrite,
       ExecuteSecondWrite, ManageTimers, ApplyPolicies, EndOfStep, RegisterCallback,
       CommitInput, WatchdogExpires, AutocloseExpires, TimerPosts, Command, GateMoves
<1> QED BY <1>1, TypeCorrect, ControlCorrect, PTL DEF Spec, LeavesFaultVerified

=============================================================================
