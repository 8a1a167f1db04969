--------------------------- MODULE SimClientProofs ---------------------------
(***************************************************************************)
(* Theorems about SimClient, for every stroke, watchdog, auto-close and    *)
(* deadline, for every tick and backoff, and for every set of commands.    *)
(***************************************************************************)
EXTENDS SimClient, GateStateMachineProofs, FiniteSetTheorems, TLAPS

-----------------------------------------------------------------------------
(* What a step of the machine may be, state by state.                      *)

Outcome(m, e, o) ==
  \/ /\ ~o.transitioned /\ o.motor = "Keep"
     /\ o.sm.state = m.state /\ o.sm.reason = m.reason
     /\ m.state = "Open" /\ e = "CommandClose" => o.reason = "SafetyBeamObstacle"
     /\ ~(m.state = "Opening" /\ e = "LimitOpenHit")
     /\ ~(m.state = "Closing" /\ e = "LimitClosedHit")
  \/ /\ o.transitioned
     /\ \/ o.sm.state = "Opening" /\ o.motor = "DriveMotorOpen" /\ o.sm.reason \in {m.reason, "None"}
        \/ o.sm.state = "Closing" /\ o.motor = "DriveMotorClose" /\ o.sm.reason \in {m.reason, "None"}
        \/ /\ o.sm.state = "Open" /\ o.motor = "StopMotor" /\ o.sm.reason = m.reason
           /\ m.state = "Opening" /\ e = "LimitOpenHit"
        \/ /\ o.sm.state = "Closed" /\ o.motor = "StopMotor" /\ o.sm.reason = m.reason
           /\ m.state = "Closing" /\ e = "LimitClosedHit"
        \/ /\ o.sm.state \in {"StoppedOpen", "StoppedClose"} /\ o.motor = "StopMotor"
           /\ o.sm.reason = o.reason /\ o.reason \in {"OperatorStop", "SafetyBeamObstacle"}
        \/ o.sm.state = "Faulted" /\ o.motor = "StopMotor" /\ Moving(m.state) /\ e = "MotorTimeout"
        \/ /\ o.sm.state = "Initializing" /\ o.motor = "Keep" /\ o.sm.reason = "None"
           /\ m.state = "Faulted"

\* handle() ends in one of these ways, the beam latched.
LEMMA HandleOutcome ==
  ASSUME NEW m \in Machine, NEW e \in Event
  PROVE  /\ Handle(m, e) \in Outputs
         /\ Outcome(m, e, Handle(m, e))
         /\ e = "SafetyBeamTripped" => ~Handle(m, e).sm.beamClear
         /\ e = "SafetyBeamCleared" => Handle(m, e).sm.beamClear
         /\ e \notin {"SafetyBeamTripped", "SafetyBeamCleared"}
              => Handle(m, e).sm.beamClear = m.beamClear
<1> DEFINE l == LatchBeam(m, e)
           o == Handle(m, e)
<1>1. /\ l \in Machine /\ l.state = m.state /\ l.reason = m.reason
      /\ e = "SafetyBeamTripped" => ~l.beamClear
      /\ e = "SafetyBeamCleared" => l.beamClear
      /\ e \notin {"SafetyBeamTripped", "SafetyBeamCleared"} => l.beamClear = m.beamClear
      /\ StepFacts(l, e, o)
  BY LatchFacts
<1>2. o \in Outputs
  BY HandleType
<1>3. o = HandleLatched(l, e)
  BY DEF Handle
<1> HIDE DEF l, o
<1>4. Outcome(l, e, o)
  <2> USE DEF Outcome, Moving, Machine
  <2>1. CASE e = "CommandStop"
    BY <1>1, <1>3, <2>1 DEF HandleLatched, HandleStop, StopIn, Ignore
  <2>2. CASE e = "FaultCleared"
    BY <1>1, <1>3, <2>2 DEF HandleLatched, HandleFaultCleared, Ignore
  <2>3. CASE e = "MotorTimeout"
    BY <1>1, <1>3, <2>3 DEF HandleLatched, HandleMotorTimeout, StopIn, Ignore
  <2>4. CASE e \notin {"CommandStop", "FaultCleared", "MotorTimeout"}
    <3>1. o = HandleInState(l, e)
      BY <1>3, <2>4 DEF HandleLatched
    <3>2. CASE l.state = "Closed"
      BY <1>1, <2>4, <3>1, <3>2 DEF HandleInState, InClosed, Drive, Ignore
    <3>3. CASE l.state = "Opening"
      BY <1>1, <2>4, <3>1, <3>3 DEF HandleInState, InOpening, ArriveAt, Ignore
    <3>4. CASE l.state = "Open"
      BY <1>1, <2>4, <3>1, <3>4 DEF HandleInState, InOpen, Drive, Ignore
    <3>5. CASE l.state = "Closing"
      BY <1>1, <2>4, <3>1, <3>5 DEF HandleInState, InClosing, ArriveAt, StopIn, Ignore
    <3>6. CASE l.state \in {"StoppedOpen", "StoppedClose"}
      BY <1>1, <2>4, <3>1, <3>6 DEF HandleInState, InStopped, Drive, Ignore
    <3>7. CASE l.state \in {"Initializing", "Faulted"}
      BY <1>1, <2>4, <3>1, <3>7 DEF HandleInState, Ignore
    <3>8. QED
      BY <1>1, <3>2, <3>3, <3>4, <3>5, <3>6, <3>7 DEF State
  <2>5. QED
    BY <2>1, <2>2, <2>3, <2>4
<1>5. Outcome(m, e, o)
  BY <1>1, <1>4 DEF Outcome
<1>6. o.sm.beamClear = l.beamClear
  BY <1>1 DEF StepFacts
<1>7. QED
  BY <1>1, <1>2, <1>5, <1>6 DEF o

-----------------------------------------------------------------------------
(* The tracker.                                                            *)

\* A rule leaves the tracker alone and gives no verdict, or disarms it and gives a
\* verdict for the command that was armed.
Decides(t, d) ==
  \/ d.tracker = t /\ d.verdict = NoVerdict
  \/ t.armed /\ d.tracker = Idle /\ \E rule \in Rule : d.verdict = [id |-> t.id, rule |-> rule]

\* A tracker that can occur: armed for a command, or idle.
Sane == {t \in Tracker : (t.armed /\ t.id \in Cmd) \/ t = Idle}

\* on_gate_event() and on_tick() decide so.
LEMMA RulesDecide ==
  ASSUME NEW t \in Tracker, NEW s, NEW r, NEW b \in BOOLEAN
  PROVE  /\ Decides(t, OnGateEvent(t, s, r, b))
         /\ Decides(t, OnTick(t, b))
<1> USE DEF Tracker, Verdict, Rule, Decides, Undecided, Resolve, Idle, NoVerdict, State
<1>1. Decides(t, OnGateEvent(t, s, r, b))
  BY DEF OnGateEvent
<1>2. Decides(t, OnTick(t, b))
  BY DEF OnTick
<1>3. QED
  BY <1>1, <1>2

Timer == [on : BOOLEAN, left : Int]

\* An answer that waits belongs to a command.
Answer == [id : Cmd, rule : Rule]

VirtualGateType ==
  [sm : Machine, tracker : Sane, due : Timer, pos : 0..Travel,
   motor : {"StopMotor", "DriveMotorOpen", "DriveMotorClose"}, blocked : BOOLEAN,
   watchdog : Timer, autoclose : Timer, acks : Seq(Answer)]

\* The answer of the armed command goes to acks_, or everything stays.
Passes(g, h) ==
  \/ h.tracker = g.tracker /\ h.acks = g.acks
  \/ /\ g.tracker.armed /\ h.tracker = Idle
     /\ \E v \in Answer : v.id = g.tracker.id /\ h.acks = Append(g.acks, v)

\* The gate apart from what the tracker does.
SameMechanics(g, h) ==
  /\ h.sm = g.sm /\ h.pos = g.pos /\ h.motor = g.motor /\ h.blocked = g.blocked
  /\ h.watchdog = g.watchdog /\ h.autoclose = g.autoclose

\* record()
LEMMA RecordIs ==
  ASSUME NEW g \in VirtualGateType, NEW d, Decides(g.tracker, d)
  PROVE  /\ Record(g, d) \in VirtualGateType
         /\ SameMechanics(g, Record(g, d))
         /\ Passes(g, Record(g, d))
<1>1. g.tracker \in Sane /\ g.due \in Timer /\ g.acks \in Seq(Answer) /\ Off \in Timer
  BY DEF VirtualGateType, Timer, Off
<1>2. Idle \in Sane /\ ~Idle.armed
  BY DEF Sane, Idle, Tracker, State
<1>3. CASE d.tracker = g.tracker /\ d.verdict = NoVerdict
  <2>1. /\ d.tracker \in Sane /\ (IF d.tracker.armed THEN g.due ELSE Off) \in Timer
        /\ (IF d.verdict = NoVerdict THEN g.acks ELSE Append(g.acks, d.verdict)) = g.acks
    BY <1>1, <1>3
  <2>2. QED
    BY <1>3, <2>1 DEF Record, VirtualGateType, SameMechanics, Passes
<1>4. ASSUME g.tracker.armed, d.tracker = Idle, NEW rule \in Rule,
             d.verdict = [id |-> g.tracker.id, rule |-> rule]
      PROVE  /\ Record(g, d) \in VirtualGateType
             /\ SameMechanics(g, Record(g, d))
             /\ Passes(g, Record(g, d))
  <2>1. g.tracker.id \in Cmd
    BY <1>1, <1>2, <1>4 DEF Sane
  <2>2. d.verdict \in Answer /\ d.verdict.id = g.tracker.id /\ d.verdict # NoVerdict
    BY <1>4, <2>1, NoCmdAssumption DEF NoVerdict, Answer
  <2>3. Append(g.acks, d.verdict) \in Seq(Answer)
    BY <1>1, <2>2
  <2>4. Record(g, d) = [g EXCEPT !.tracker = Idle, !.due = Off, !.acks = Append(g.acks, d.verdict)]
    BY <1>2, <1>4, <2>2 DEF Record
  <2>5. QED
    BY <1>1, <1>2, <1>4, <2>2, <2>3, <2>4 DEF VirtualGateType, SameMechanics, Passes
<1>5. QED
  BY <1>3, <1>4 DEF Decides

\* Nothing or one answer and then nothing or one answer: the second is none.
LEMMA PassesOn ==
  ASSUME NEW g, NEW h, NEW k, Passes(g, h), Passes(h, k)
  PROVE  Passes(g, k)
BY DEF Passes, Idle

-----------------------------------------------------------------------------
(* apply_locked().                                                         *)

MotorAfter(g, o) == IF o.motor = "Keep" THEN g.motor ELSE o.motor

\* The actions, the timers and the tracker of one step.
Executed(g, o, h) ==
  /\ h \in VirtualGateType /\ Passes(g, h)
  /\ h.sm = o.sm /\ h.motor = MotorAfter(g, o) /\ h.pos = g.pos /\ h.blocked = g.blocked
  /\ h.watchdog = (IF o.transitioned THEN WatchdogIn(o.sm.state) ELSE g.watchdog)
  /\ h.autoclose = (IF o.transitioned THEN CountdownIn(o.sm.state) ELSE g.autoclose)

\* Execute, as a whole, does to each part of the gate what Executed says.
LEMMA ExecuteIs ==
  ASSUME NEW g \in VirtualGateType, NEW o \in Outputs
  PROVE  Executed(g, o, Execute(g, o))
<1> DEFINE driven == [g EXCEPT !.sm = o.sm, !.motor = MotorAfter(g, o)]
           timed == IF o.transitioned
                    THEN [driven EXCEPT !.watchdog = WatchdogIn(o.sm.state),
                                        !.autoclose = CountdownIn(o.sm.state)]
                    ELSE driven
           d == OnGateEvent(g.tracker, o.sm.state, o.reason, o.transitioned)
<1>1. Execute(g, o) = IF o.transitioned \/ o.reason # "None" THEN Record(timed, d) ELSE timed
  BY DEF Execute, MotorAfter
<1>2. /\ o.sm \in Machine /\ o.transitioned \in BOOLEAN
      /\ MotorAfter(g, o) \in {"StopMotor", "DriveMotorOpen", "DriveMotorClose"}
  BY DEF Outputs, MotorAction, MotorAfter, VirtualGateType
<1>3. driven \in VirtualGateType
  BY <1>2 DEF VirtualGateType
<1>4. \A s : WatchdogIn(s) \in Timer /\ CountdownIn(s) \in Timer
  BY GateAssumption DEF WatchdogIn, CountdownIn, Armed, Off, Timer
<1>5. timed \in VirtualGateType
  BY <1>3, <1>4 DEF VirtualGateType
<1>6. /\ timed.sm = o.sm /\ timed.motor = MotorAfter(g, o) /\ timed.pos = g.pos
      /\ timed.blocked = g.blocked /\ timed.tracker = g.tracker /\ timed.acks = g.acks
      /\ timed.watchdog = (IF o.transitioned THEN WatchdogIn(o.sm.state) ELSE g.watchdog)
      /\ timed.autoclose = (IF o.transitioned THEN CountdownIn(o.sm.state) ELSE g.autoclose)
  BY <1>3 DEF VirtualGateType
<1>7. Decides(timed.tracker, d)
  <2>1. g.tracker \in Tracker
    BY DEF VirtualGateType, Sane
  <2>2. QED
    BY <1>2, <1>6, <2>1, RulesDecide
<1> HIDE DEF timed, driven, d
<1>8. /\ Record(timed, d) \in VirtualGateType /\ SameMechanics(timed, Record(timed, d))
      /\ Passes(timed, Record(timed, d))
  BY <1>5, <1>7, RecordIs
<1>9. Executed(g, o, Record(timed, d))
  BY <1>6, <1>8 DEF Executed, SameMechanics, Passes
<1>10. Executed(g, o, timed)
  BY <1>5, <1>6 DEF Executed, Passes
<1>11. QED
  BY <1>1, <1>9, <1>10

-----------------------------------------------------------------------------
(* What holds of the gate between two calls.                               *)

AtLimits(g) ==
  /\ g.sm.state = "Closed" => g.pos = 0
  /\ g.sm.state = "Open" => g.pos = Travel

MotorIs(g) ==
  g.motor = CASE g.sm.state = "Opening" -> "DriveMotorOpen"
              [] g.sm.state = "Closing" -> "DriveMotorClose"
              [] OTHER -> "StopMotor"

BeamIs(g) == g.sm.beamClear <=> ~g.blocked

\* What is left of the watchdog's budget, and dt that has been taken off it before the
\* gate has moved as far, covers the rest of the way.
Budgeted(g, dt) ==
  /\ g.sm.state = "Opening" => g.watchdog.on /\ Travel - g.pos <= g.watchdog.left + dt
  /\ g.sm.state = "Closing" => g.watchdog.on /\ g.pos <= g.watchdog.left + dt

Counting(g) == g.sm.state = "Open" /\ AutoClose > 0 => g.autoclose.on

Unhurt(g) ==
  /\ g.sm.reason # "MotorTimeout"
  /\ ReverseOnBeam => ~(g.sm.state = "StoppedClose" /\ g.sm.reason = "SafetyBeamObstacle")

Sound(g) ==
  /\ g \in VirtualGateType
  /\ AtLimits(g) /\ MotorIs(g) /\ BeamIs(g) /\ Budgeted(g, 0) /\ Counting(g) /\ Unhurt(g)

\* What a step needs of the gate and of the machine's answer for apply_locked() to
\* leave the gate sound.
Fits(g, o) ==
  /\ o.sm.beamClear <=> ~g.blocked
  /\ o.sm.reason # "MotorTimeout"
  /\ ~o.transitioned =>
       /\ o.motor = "Keep" /\ o.sm.state = g.sm.state /\ o.sm.reason = g.sm.reason
       /\ AtLimits(g) /\ MotorIs(g) /\ Budgeted(g, 0) /\ Unhurt(g)
       /\ Counting(g) \/ CloseRefused(o)
  /\ o.transitioned =>
       /\ MotorAfter(g, o) = CASE o.sm.state = "Opening" -> "DriveMotorOpen"
                               [] o.sm.state = "Closing" -> "DriveMotorClose"
                               [] OTHER -> "StopMotor"
       /\ o.sm.state = "Closed" => g.pos = 0
       /\ o.sm.state = "Open" => g.pos = Travel
       /\ o.sm.state = "StoppedClose" => o.sm.reason = o.reason

\* A step with its policies.
LEMMA ApplySound ==
  ASSUME NEW g \in VirtualGateType, NEW o \in Outputs, Fits(g, o)
  PROVE  Sound(Apply(g, o)) /\ Passes(g, Apply(g, o))
<1> DEFINE done == Execute(g, o)
<1>1. Executed(g, o, done)
  BY ExecuteIs
<1>2. /\ o.sm \in Machine /\ o.transitioned \in BOOLEAN /\ o.sm.state \in State
      /\ g.pos \in 0..Travel
  BY DEF Outputs, Machine, VirtualGateType
<1>3. Travel \in Nat /\ MotorTimeout \in Nat /\ MotorTimeout >= Travel /\ AutoClose \in Nat
      /\ ReverseOnBeam \in BOOLEAN
  BY GateAssumption
<1> HIDE DEF done
<1>4. AtLimits(done) /\ BeamIs(done) /\ MotorIs(done)
  BY <1>1 DEF Executed, Fits, AtLimits, BeamIs, MotorIs, MotorAfter
<1>5. Budgeted(done, 0)
  <2>1. CASE o.transitioned
    BY <1>1, <1>2, <1>3, <2>1 DEF Executed, Budgeted, WatchdogIn, Moving, Armed
  <2>2. CASE ~o.transitioned
    BY <1>1, <2>2 DEF Executed, Fits, Budgeted
  <2>3. QED
    BY <1>2, <2>1, <2>2
<1>6. o.transitioned => Counting(done)
  BY <1>1 DEF Executed, Counting, CountdownIn, Armed
<1>7. ~o.transitioned => Counting(done) \/ CloseRefused(o)
  BY <1>1 DEF Executed, Fits, Counting
<1>8. CASE BeamStopped(o)
  <2> DEFINE b == Handle(o.sm, "CommandOpen")
             turned == Execute(done, b)
  <2>1. o.sm.state = "StoppedClose"
    BY <1>8 DEF BeamStopped
  <2>2. b = Drive(o.sm, "Opening", "None")
    BY <2>1 DEF Handle, HandleLatched, LatchBeam, HandleInState, InStopped
  <2>3. b \in Outputs
    BY <1>2, HandleType DEF Event
  <2> HIDE DEF b
  <2>4. /\ b.transitioned /\ b.motor = "DriveMotorOpen" /\ b.sm.state = "Opening"
        /\ b.sm.reason = "None" /\ b.sm.beamClear = o.sm.beamClear
    BY <1>2, <2>2 DEF Drive, Machine, Reason, State
  <2>5. Executed(done, b, turned)
    BY <1>1, <2>3, ExecuteIs DEF Executed
  <2> HIDE DEF turned
  <2>6. turned.watchdog.on /\ turned.watchdog.left = MotorTimeout
    BY <2>4, <2>5 DEF Executed, WatchdogIn, Moving, Armed
  <2>7. turned.pos = g.pos /\ turned.sm.state = "Opening"
    BY <1>1, <2>4, <2>5 DEF Executed
  <2>8. Sound(turned)
    <3>1. Budgeted(turned, 0)
      BY <1>2, <1>3, <2>6, <2>7 DEF Budgeted
    <3>2. MotorIs(turned) /\ AtLimits(turned) /\ Counting(turned) /\ Unhurt(turned)
      BY <2>4, <2>5, <2>7 DEF Executed, MotorAfter, MotorIs, AtLimits, Counting, Unhurt
    <3>3. BeamIs(turned)
      BY <1>1, <2>4, <2>5 DEF Executed, BeamIs, Fits
    <3>4. QED
      BY <2>5, <3>1, <3>2, <3>3 DEF Sound, Executed
  <2>9. Passes(g, turned)
    BY <1>1, <2>5, PassesOn DEF Executed
  <2>10. Apply(g, o) = turned
    <3>1. ~CloseRefused(o)
      BY <1>8 DEF BeamStopped, CloseRefused
    <3>2. QED
      BY <1>8, <3>1 DEF Apply, done, b, turned
  <2>11. QED
    BY <2>8, <2>9, <2>10
<1>9. CASE ~BeamStopped(o)
  <2>1. Unhurt(done)
    BY <1>1, <1>9 DEF Executed, Fits, Unhurt, BeamStopped
  <2>2. CASE CloseRefused(o) /\ AutoClose > 0
    <3> DEFINE kept == [done EXCEPT !.autoclose = Armed(AutoClose)]
    <3>1. Armed(AutoClose) \in Timer /\ Armed(AutoClose).on
      BY <1>3 DEF Armed, Timer
    <3>2. done \in VirtualGateType
      BY <1>1 DEF Executed
    <3>3. /\ kept \in VirtualGateType /\ kept.sm = done.sm /\ kept.pos = done.pos
          /\ kept.motor = done.motor /\ kept.blocked = done.blocked
          /\ kept.watchdog = done.watchdog /\ kept.autoclose = Armed(AutoClose)
          /\ kept.tracker = done.tracker /\ kept.acks = done.acks
      BY <3>1, <3>2 DEF VirtualGateType
    <3> HIDE DEF kept
    <3>4. Sound(kept)
      BY <1>4, <1>5, <2>1, <3>1, <3>3 DEF Sound, AtLimits, BeamIs, MotorIs, Budgeted, Counting, Unhurt
    <3>5. Passes(g, kept)
      BY <1>1, <3>3 DEF Executed, Passes
    <3>6. Apply(g, o) = kept
      BY <1>9, <2>2 DEF Apply, done, kept
    <3>7. QED
      BY <3>4, <3>5, <3>6
  <2>3. CASE ~(CloseRefused(o) /\ AutoClose > 0)
    <3>1. Counting(done)
      BY <1>2, <1>3, <1>6, <1>7, <2>3 DEF Counting
    <3>2. Apply(g, o) = done
      BY <1>9, <2>3 DEF Apply, done
    <3>3. QED
      BY <1>1, <1>4, <1>5, <2>1, <3>1, <3>2 DEF Sound, Executed
  <2>4. QED
    BY <2>2, <2>3
<1>10. QED
  BY <1>8, <1>9

\* What the gate must be like when an event is stepped.
Ready(g, e) ==
  /\ g \in VirtualGateType /\ MotorIs(g) /\ Unhurt(g)
  /\ e = "SafetyBeamTripped" => g.blocked
  /\ e = "SafetyBeamCleared" => ~g.blocked
  /\ e \notin {"SafetyBeamTripped", "SafetyBeamCleared"} => BeamIs(g)
  /\ e = "LimitOpenHit" => g.sm.state = "Opening" /\ g.pos = Travel
  /\ e = "LimitClosedHit" => g.sm.state = "Closing" /\ g.pos = 0
  /\ e \notin {"LimitOpenHit", "LimitClosedHit"} => AtLimits(g) /\ Budgeted(g, 0)
  /\ e = "MotorTimeout" => ~Moving(g.sm.state)
  /\ e # "CommandClose" => Counting(g)

\* step_locked()
LEMMA StepSound ==
  ASSUME NEW g, NEW e \in Event, Ready(g, e)
  PROVE  Sound(Step(g, e)) /\ Passes(g, Step(g, e))
<1> DEFINE m == g.sm
           o == Handle(m, e)
<1>1. g \in VirtualGateType /\ m \in Machine
  BY DEF Ready, VirtualGateType
<1>2. /\ o \in Outputs /\ Outcome(m, e, o)
      /\ e = "SafetyBeamTripped" => ~o.sm.beamClear
      /\ e = "SafetyBeamCleared" => o.sm.beamClear
      /\ e \notin {"SafetyBeamTripped", "SafetyBeamCleared"} => o.sm.beamClear = m.beamClear
  BY <1>1, HandleOutcome
<1>3. Step(g, e) = Apply(g, o)
  BY DEF Step
<1> HIDE DEF o
<1>4. o.sm.beamClear <=> ~g.blocked
  BY <1>2 DEF Ready, BeamIs
<1>5. o.sm.reason # "MotorTimeout"
  <2>1. ~(o.sm.state = "Faulted" /\ Moving(m.state) /\ e = "MotorTimeout")
    BY DEF Ready
  <2>2. m.reason # "MotorTimeout"
    BY DEF Ready, Unhurt
  <2>3. QED
    BY <1>2, <2>1, <2>2 DEF Outcome
<1>6. ASSUME ~o.transitioned
      PROVE  /\ o.motor = "Keep" /\ o.sm.state = m.state /\ o.sm.reason = m.reason
             /\ AtLimits(g) /\ MotorIs(g) /\ Budgeted(g, 0) /\ Unhurt(g)
             /\ Counting(g) \/ CloseRefused(o)
  <2>1. /\ o.motor = "Keep" /\ o.sm.state = m.state /\ o.sm.reason = m.reason
        /\ m.state = "Open" /\ e = "CommandClose" => o.reason = "SafetyBeamObstacle"
        /\ ~(m.state = "Opening" /\ e = "LimitOpenHit")
        /\ ~(m.state = "Closing" /\ e = "LimitClosedHit")
    BY <1>2, <1>6 DEF Outcome
  <2>2. e \notin {"LimitOpenHit", "LimitClosedHit"}
    BY <2>1 DEF Ready
  <2>3. AtLimits(g) /\ MotorIs(g) /\ Budgeted(g, 0) /\ Unhurt(g)
    BY <2>2 DEF Ready
  <2>4. Counting(g) \/ CloseRefused(o)
    BY <1>6, <2>1 DEF Ready, Counting, CloseRefused
  <2>5. QED
    BY <2>1, <2>3, <2>4
<1>7. ASSUME o.transitioned
      PROVE  /\ MotorAfter(g, o) = CASE o.sm.state = "Opening" -> "DriveMotorOpen"
                                     [] o.sm.state = "Closing" -> "DriveMotorClose"
                                     [] OTHER -> "StopMotor"
             /\ o.sm.state = "Closed" => g.pos = 0
             /\ o.sm.state = "Open" => g.pos = Travel
             /\ o.sm.state = "StoppedClose" => o.sm.reason = o.reason
  <2>1. o.sm.state = "Initializing" /\ m.state = "Faulted" => g.motor = "StopMotor"
    BY DEF Ready, MotorIs
  <2>2. QED
    BY <1>2, <1>7, <2>1 DEF Outcome, MotorAfter, Ready
<1>8. Fits(g, o)
  BY <1>4, <1>5, <1>6, <1>7 DEF Fits
<1>9. QED
  BY <1>1, <1>2, <1>3, <1>8, ApplySound

\* The commands and the fault reset are stepped at a sound gate.
LEMMA CommandSound ==
  ASSUME NEW g, Sound(g),
         NEW e \in {"CommandOpen", "CommandClose", "CommandStop", "FaultCleared"}
  PROVE  Sound(Step(g, e)) /\ Passes(g, Step(g, e))
<1>1. Ready(g, e) /\ e \in Event
  BY DEF Sound, Ready, Event
<1>2. QED
  BY <1>1, StepSound

\* resolve_position(), from a machine that has just started.
LEMMA ResolveSound ==
  ASSUME NEW g \in VirtualGateType, BeamIs(g)
  PROVE  Sound(ResolvePosition(g)) /\ Passes(g, ResolvePosition(g))
<1> DEFINE o == IF g.pos <= 0 THEN InitClosed(g.sm)
                ELSE IF g.pos >= Travel THEN InitOpen(g.sm) ELSE InitUnknown(g.sm)
<1>1. g.sm \in Machine /\ g.pos \in 0..Travel /\ Travel \in Nat \ {0}
  BY GateAssumption DEF VirtualGateType
<1>2. /\ InitClosed(g.sm) \in Outputs /\ InitOpen(g.sm) \in Outputs
      /\ InitUnknown(g.sm) \in Outputs
  BY <1>1 DEF InitClosed, InitOpen, InitUnknown, StopIn, Outputs, Machine, State, Reason,
              MotorAction
<1>3. o \in Outputs
  BY <1>2
<1>4. /\ o.transitioned /\ o.motor = "StopMotor" /\ o.sm.beamClear = g.sm.beamClear
      /\ o.sm.reason # "MotorTimeout"
      /\ \/ o.sm.state = "Closed" /\ g.pos <= 0
         \/ o.sm.state = "Open" /\ g.pos >= Travel
         \/ o.sm.state = "Faulted"
  BY <1>1 DEF InitClosed, InitOpen, InitUnknown, StopIn, Machine
<1>5. ResolvePosition(g) = Apply(g, o)
  BY DEF ResolvePosition
<1> HIDE DEF o
<1>6. /\ o.sm.state = "Closed" => g.pos = 0
      /\ o.sm.state = "Open" => g.pos = Travel
      /\ o.sm.state \notin {"StoppedClose", "Opening", "Closing"}
  BY <1>1, <1>4
<1>7. MotorAfter(g, o) = CASE o.sm.state = "Opening" -> "DriveMotorOpen"
                           [] o.sm.state = "Closing" -> "DriveMotorClose"
                           [] OTHER -> "StopMotor"
  BY <1>4, <1>6 DEF MotorAfter
<1>8. Fits(g, o)
  BY <1>4, <1>6, <1>7 DEF Fits, BeamIs
<1>9. QED
  BY <1>3, <1>5, <1>8, ApplySound

\* A reboot with the beam as it is leaves a sound gate (Reboot).
LEMMA RebootSound ==
  ASSUME NEW g, Sound(g)
  PROVE  Sound(Reboot(g)) /\ Passes(g, Reboot(g))
<1> DEFINE m == IF g.blocked THEN Handle(PowerOn, "SafetyBeamTripped").sm ELSE PowerOn
           r == [g EXCEPT !.motor = "StopMotor", !.watchdog = Off, !.autoclose = Off, !.sm = m]
<1>1. PowerOn \in Machine /\ PowerOn.beamClear
  BY DEF PowerOn, Machine, State, Reason
<1>2. g \in VirtualGateType /\ g.blocked \in BOOLEAN
  BY DEF Sound, VirtualGateType
<1>3. m \in Machine /\ (m.beamClear <=> ~g.blocked)
  <2>1. LET o == Handle(PowerOn, "SafetyBeamTripped") IN o.sm \in Machine /\ ~o.sm.beamClear
    BY <1>1, HandleOutcome DEF Event, Outputs
  <2>2. QED
    BY <1>1, <1>2, <2>1
<1> HIDE DEF m
<1>4. /\ r \in VirtualGateType /\ r.sm = m /\ r.blocked = g.blocked
      /\ r.tracker = g.tracker /\ r.acks = g.acks
  <2>1. Off \in Timer
    BY DEF Timer, Off
  <2>2. QED
    BY <1>2, <1>3, <2>1 DEF VirtualGateType
<1>5. BeamIs(r)
  BY <1>3, <1>4 DEF BeamIs
<1>6. Reboot(g) = ResolvePosition(r)
  BY DEF Reboot, m
<1> HIDE DEF r
<1>7. Passes(g, r)
  BY <1>4 DEF Passes
<1>8. QED
  BY <1>4, <1>5, <1>6, <1>7, ResolveSound, PassesOn

\* Clearing a fault and looking at the limit switches leaves a sound gate (ClearFault).
LEMMA ClearFaultSound ==
  ASSUME NEW g, Sound(g)
  PROVE  Sound(ClearFault(g)) /\ Passes(g, ClearFault(g))
<1> DEFINE cleared == Step(g, "FaultCleared")
<1>1. Sound(cleared) /\ Passes(g, cleared)
  BY CommandSound
<1> HIDE DEF cleared
<1>2. Sound(ResolvePosition(cleared)) /\ Passes(cleared, ResolvePosition(cleared))
  BY <1>1, ResolveSound DEF Sound
<1>3. ClearFault(g) = IF cleared.sm.state = "Initializing" THEN ResolvePosition(cleared) ELSE cleared
  BY DEF ClearFault, cleared
<1>4. QED
  BY <1>1, <1>2, <1>3, PassesOn

\* The beam is noted before it is reported.
LEMMA BeamSound ==
  ASSUME NEW g, Sound(g)
  PROVE  /\ Sound(TripBeam(g)) /\ Passes(g, TripBeam(g))
         /\ Sound(ClearBeam(g)) /\ Passes(g, ClearBeam(g))
<1>1. ASSUME NEW b \in BOOLEAN, NEW e \in {"SafetyBeamTripped", "SafetyBeamCleared"},
             e = "SafetyBeamTripped" <=> b
      PROVE  LET h == [g EXCEPT !.blocked = b]
             IN Sound(Step(h, e)) /\ Passes(g, Step(h, e))
  <2> DEFINE h == [g EXCEPT !.blocked = b]
  <2>1. g \in VirtualGateType
    BY DEF Sound
  <2>2. /\ h \in VirtualGateType /\ h.blocked = b /\ h.sm = g.sm /\ h.pos = g.pos
        /\ h.motor = g.motor /\ h.watchdog = g.watchdog /\ h.autoclose = g.autoclose
        /\ h.tracker = g.tracker /\ h.acks = g.acks
    BY <2>1 DEF VirtualGateType
  <2> HIDE DEF h
  <2>3. Ready(h, e)
    BY <1>1, <2>2 DEF Sound, Ready, AtLimits, MotorIs, Budgeted, Counting, Unhurt
  <2>4. Sound(Step(h, e)) /\ Passes(h, Step(h, e))
    BY <2>3, StepSound DEF Event
  <2>5. Passes(g, h)
    BY <2>2 DEF Passes
  <2>6. QED
    BY <2>4, <2>5, PassesOn DEF h
<1>2. QED
  <2>1. \E b \in BOOLEAN : b = TRUE
    OBVIOUS
  <2>2. PICK b \in BOOLEAN : b = TRUE
    BY <2>1, Zenon
  <2>3. PICK c \in BOOLEAN : c = FALSE
    BY Zenon
  <2>4. Sound(Step([g EXCEPT !.blocked = b], "SafetyBeamTripped"))
        /\ Passes(g, Step([g EXCEPT !.blocked = b], "SafetyBeamTripped"))
    BY <1>1, <2>2
  <2>5. Sound(Step([g EXCEPT !.blocked = c], "SafetyBeamCleared"))
        /\ Passes(g, Step([g EXCEPT !.blocked = c], "SafetyBeamCleared"))
    BY <1>1, <2>3
  <2>6. QED
    BY <2>2, <2>3, <2>4, <2>5, Zenon DEF TripBeam, ClearBeam

-----------------------------------------------------------------------------
(* advance().                                                              *)

\* A sound gate whose timers have run on by dt while it stands where it stood.
Aged(g, dt) ==
  /\ g \in VirtualGateType
  /\ AtLimits(g) /\ MotorIs(g) /\ BeamIs(g) /\ Budgeted(g, dt) /\ Counting(g) /\ Unhurt(g)

\* The motor catches up with the clock.
LEMMA MoveSound ==
  ASSUME NEW dt \in Nat, NEW g, Aged(g, dt)
  PROVE  /\ Sound(Move(g, dt)) /\ Passes(g, Move(g, dt))
         /\ Expired(Move(g, dt).watchdog) => ~Moving(Move(g, dt).sm.state)
<1>1. /\ g \in VirtualGateType /\ g.pos \in 0..Travel /\ g.watchdog \in Timer
      /\ g.watchdog.left \in Int /\ Travel \in Nat \ {0} /\ MotorTimeout \in Nat
      /\ MotorTimeout >= Travel
  BY GateAssumption DEF Aged, VirtualGateType, Timer
<1>2. ASSUME NEW p \in 0..Travel
      PROVE  LET h == [g EXCEPT !.pos = p]
             IN /\ h \in VirtualGateType /\ h.pos = p /\ h.sm = g.sm /\ h.motor = g.motor
                /\ h.blocked = g.blocked /\ h.watchdog = g.watchdog
                /\ h.autoclose = g.autoclose /\ h.tracker = g.tracker /\ h.acks = g.acks
                /\ Passes(g, h)
  BY <1>1 DEF VirtualGateType, Passes
<1>3. ASSUME NEW h, Sound(h), ~Moving(h.sm.state), Passes(g, h), Move(g, dt) = h
      PROVE  /\ Sound(Move(g, dt)) /\ Passes(g, Move(g, dt))
             /\ Expired(Move(g, dt).watchdog) => ~Moving(Move(g, dt).sm.state)
  BY <1>3
<1>4. CASE g.motor = "DriveMotorOpen" /\ g.pos + dt >= Travel
  <2> DEFINE h == [g EXCEPT !.pos = Travel]
  <2>1. /\ h \in VirtualGateType /\ h.pos = Travel /\ h.sm = g.sm /\ h.motor = g.motor
        /\ h.blocked = g.blocked /\ h.watchdog = g.watchdog
        /\ h.autoclose = g.autoclose /\ Passes(g, h)
    BY <1>1, <1>2
  <2>2. g.sm.state = "Opening"
    BY <1>4 DEF Aged, MotorIs
  <2>3. Move(g, dt) = Step(h, "LimitOpenHit")
    BY <1>4 DEF Move
  <2> HIDE DEF h
  <2>4. Ready(h, "LimitOpenHit")
    BY <2>1, <2>2 DEF Ready, Aged, MotorIs, BeamIs, Unhurt, Counting
  <2>5. Sound(Step(h, "LimitOpenHit")) /\ Passes(h, Step(h, "LimitOpenHit"))
    BY <2>4, StepSound DEF Event
  <2>6. Step(h, "LimitOpenHit").sm.state = "Open"
    <3> DEFINE o == Handle(h.sm, "LimitOpenHit")
    <3>1. h.sm \in Machine /\ h.sm.state = "Opening"
      BY <2>1, <2>2 DEF VirtualGateType
    <3>2. o = ArriveAt(h.sm, "Open")
      BY <3>1 DEF Handle, LatchBeam, HandleLatched, HandleInState, InOpening
    <3>3. o \in Outputs
      BY <3>1, HandleType DEF Event
    <3>4. o.sm.state = "Open" /\ o.transitioned
      BY <3>1, <3>2 DEF ArriveAt, Machine
    <3>5. Executed(h, o, Execute(h, o))
      BY <2>1, <3>3, ExecuteIs
    <3> HIDE DEF o
    <3>6. ~BeamStopped(o) /\ ~CloseRefused(o)
      BY <3>4 DEF BeamStopped, CloseRefused
    <3>7. Step(h, "LimitOpenHit") = Execute(h, o)
      BY <3>6 DEF Step, Apply, o
    <3>8. QED
      BY <3>4, <3>5, <3>7 DEF Executed
  <2>7. QED
    BY <1>3, <2>1, <2>3, <2>5, <2>6, PassesOn DEF Moving
<1>5. CASE g.motor = "DriveMotorClose" /\ g.pos - dt <= 0
  <2> DEFINE h == [g EXCEPT !.pos = 0]
  <2>1. /\ h \in VirtualGateType /\ h.pos = 0 /\ h.sm = g.sm /\ h.motor = g.motor
        /\ h.blocked = g.blocked /\ h.watchdog = g.watchdog
        /\ h.autoclose = g.autoclose /\ Passes(g, h)
    BY <1>1, <1>2
  <2>2. g.sm.state = "Closing"
    BY <1>5 DEF Aged, MotorIs
  <2>3. Move(g, dt) = Step(h, "LimitClosedHit")
    BY <1>5 DEF Move
  <2> HIDE DEF h
  <2>4. Ready(h, "LimitClosedHit")
    BY <2>1, <2>2 DEF Ready, Aged, MotorIs, BeamIs, Unhurt, Counting
  <2>5. Sound(Step(h, "LimitClosedHit")) /\ Passes(h, Step(h, "LimitClosedHit"))
    BY <2>4, StepSound DEF Event
  <2>6. Step(h, "LimitClosedHit").sm.state = "Closed"
    <3> DEFINE o == Handle(h.sm, "LimitClosedHit")
    <3>1. h.sm \in Machine /\ h.sm.state = "Closing"
      BY <2>1, <2>2 DEF VirtualGateType
    <3>2. o = ArriveAt(h.sm, "Closed")
      BY <3>1 DEF Handle, LatchBeam, HandleLatched, HandleInState, InClosing
    <3>3. o \in Outputs
      BY <3>1, HandleType DEF Event
    <3>4. o.sm.state = "Closed" /\ o.transitioned
      BY <3>1, <3>2 DEF ArriveAt, Machine
    <3>5. Executed(h, o, Execute(h, o))
      BY <2>1, <3>3, ExecuteIs
    <3> HIDE DEF o
    <3>6. ~BeamStopped(o) /\ ~CloseRefused(o)
      BY <3>4 DEF BeamStopped, CloseRefused
    <3>7. Step(h, "LimitClosedHit") = Execute(h, o)
      BY <3>6 DEF Step, Apply, o
    <3>8. QED
      BY <3>4, <3>5, <3>7 DEF Executed
  <2>7. QED
    BY <1>3, <2>1, <2>3, <2>5, <2>6, PassesOn DEF Moving
<1>6. CASE g.motor = "DriveMotorOpen" /\ ~(g.pos + dt >= Travel)
  <2> DEFINE h == [g EXCEPT !.pos = g.pos + dt]
  <2>1. g.pos + dt \in 0..Travel
    BY <1>1, <1>6
  <2>2. /\ h \in VirtualGateType /\ h.pos = g.pos + dt /\ h.sm = g.sm /\ h.motor = g.motor
        /\ h.blocked = g.blocked /\ h.watchdog = g.watchdog
        /\ h.autoclose = g.autoclose /\ Passes(g, h)
    BY <1>2, <2>1
  <2>3. g.sm.state = "Opening" /\ g.watchdog.on /\ Travel - g.pos <= g.watchdog.left + dt
    BY <1>6 DEF Aged, MotorIs, Budgeted
  <2>4. Move(g, dt) = h
    BY <1>6 DEF Move
  <2> HIDE DEF h
  <2>5. Travel - h.pos <= h.watchdog.left /\ ~(h.watchdog.left <= 0)
    BY <1>1, <1>6, <2>1, <2>2, <2>3
  <2>6. Budgeted(h, 0)
    BY <1>1, <2>1, <2>2, <2>3, <2>5 DEF Budgeted
  <2>7. Sound(h)
    BY <2>2, <2>3, <2>6 DEF Sound, Aged, AtLimits, MotorIs, BeamIs, Counting, Unhurt
  <2>8. QED
    BY <2>2, <2>4, <2>5, <2>7 DEF Expired
<1>7. CASE g.motor = "DriveMotorClose" /\ ~(g.pos - dt <= 0)
  <2> DEFINE h == [g EXCEPT !.pos = g.pos - dt]
  <2>1. g.pos - dt \in 0..Travel
    BY <1>1, <1>7
  <2>2. /\ h \in VirtualGateType /\ h.pos = g.pos - dt /\ h.sm = g.sm /\ h.motor = g.motor
        /\ h.blocked = g.blocked /\ h.watchdog = g.watchdog
        /\ h.autoclose = g.autoclose /\ Passes(g, h)
    BY <1>2, <2>1
  <2>3. g.sm.state = "Closing" /\ g.watchdog.on /\ g.pos <= g.watchdog.left + dt
    BY <1>7 DEF Aged, MotorIs, Budgeted
  <2>4. Move(g, dt) = h
    BY <1>7 DEF Move
  <2> HIDE DEF h
  <2>5. h.pos <= h.watchdog.left /\ ~(h.watchdog.left <= 0)
    BY <1>1, <1>7, <2>1, <2>2, <2>3
  <2>6. Budgeted(h, 0)
    BY <1>1, <2>1, <2>2, <2>3, <2>5 DEF Budgeted
  <2>7. Sound(h)
    BY <2>2, <2>3, <2>6 DEF Sound, Aged, AtLimits, MotorIs, BeamIs, Counting, Unhurt
  <2>8. QED
    BY <2>2, <2>4, <2>5, <2>7 DEF Expired
<1>8. CASE g.motor \notin {"DriveMotorOpen", "DriveMotorClose"}
  <2>1. ~Moving(g.sm.state)
    BY <1>8 DEF Aged, MotorIs, Moving
  <2>2. Move(g, dt) = g
    BY <1>8 DEF Move
  <2>3. Sound(g) /\ Passes(g, g)
    BY <2>1 DEF Aged, Sound, Budgeted, Moving, Passes
  <2>4. QED
    BY <1>3, <2>1, <2>2, <2>3
<1>9. QED
  BY <1>4, <1>5, <1>6, <1>7, <1>8

\* Time passes: the deadline, the motion, the watchdog and the auto-close in turn.
LEMMA AdvanceSound ==
  ASSUME NEW dt \in Nat, NEW g, Sound(g)
  PROVE  Sound(Advance(g, dt)) /\ Passes(g, Advance(g, dt))
<1> DEFINE later == [g EXCEPT !.due = Elapsed(@, dt), !.watchdog = Elapsed(@, dt),
                              !.autoclose = Elapsed(@, dt)]
           ticked == Record(later, OnTick(later.tracker, Expired(later.due)))
           moved == Move(ticked, dt)
           timeout == [moved EXCEPT !.watchdog = Off]
           watched == IF Expired(moved.watchdog) THEN Step(timeout, "MotorTimeout") ELSE moved
           closing == [watched EXCEPT !.autoclose = Off]
<1>1. g \in VirtualGateType /\ Off \in Timer
  BY DEF Sound, Timer, Off
<1>2. ASSUME NEW t \in Timer
      PROVE  /\ Elapsed(t, dt) \in Timer /\ (Elapsed(t, dt).on <=> t.on)
             /\ t.on => Elapsed(t, dt).left + dt = t.left
             /\ Expired(t) \in BOOLEAN
  <2>1. t.on \in BOOLEAN /\ t.left \in Int
    BY DEF Timer
  <2>2. CASE t.on
    <3>1. Elapsed(t, dt) = [on |-> TRUE, left |-> t.left - dt]
      BY <2>2 DEF Elapsed, Armed
    <3>2. Elapsed(t, dt) \in Timer /\ Elapsed(t, dt).on /\ Elapsed(t, dt).left + dt = t.left
      BY <2>1, <3>1 DEF Timer
    <3>3. QED
      BY <2>1, <2>2, <3>2 DEF Expired
  <2>3. CASE ~t.on
    BY <2>1, <2>3 DEF Elapsed, Expired
  <2>4. QED
    BY <2>1, <2>2, <2>3
<1>3. /\ later \in VirtualGateType /\ later.sm = g.sm /\ later.pos = g.pos
      /\ later.motor = g.motor /\ later.blocked = g.blocked /\ later.tracker = g.tracker
      /\ later.acks = g.acks /\ later.watchdog = Elapsed(g.watchdog, dt)
      /\ later.autoclose = Elapsed(g.autoclose, dt)
  BY <1>1, <1>2 DEF VirtualGateType
<1>4. Aged(later, dt) /\ Passes(g, later)
  <2> HIDE DEF later
  <2>1. g.watchdog \in Timer /\ g.autoclose \in Timer
    BY <1>1 DEF VirtualGateType
  <2>2. (later.autoclose.on <=> g.autoclose.on) /\ (later.watchdog.on <=> g.watchdog.on)
        /\ (g.watchdog.on => later.watchdog.left + dt = g.watchdog.left)
    BY <1>2, <1>3, <2>1
  <2>3. Budgeted(later, dt)
    <3>1. g.watchdog.left + 0 = g.watchdog.left
      BY <2>1 DEF Timer
    <3>2. QED
      BY <1>3, <2>2, <3>1 DEF Sound, Budgeted
  <2>4. QED
    BY <1>3, <2>2, <2>3 DEF Sound, Aged, AtLimits, MotorIs, BeamIs, Counting, Unhurt, Passes
<1>5. Aged(ticked, dt) /\ Passes(g, ticked)
  <2> DEFINE d == OnTick(later.tracker, Expired(later.due))
  <2> HIDE DEF later
  <2>1. later.tracker \in Tracker /\ later.due \in Timer
    BY <1>3 DEF VirtualGateType, Sane
  <2>2. Decides(later.tracker, d)
    BY <1>2, <2>1, RulesDecide
  <2> HIDE DEF d
  <2>3. /\ Record(later, d) \in VirtualGateType /\ SameMechanics(later, Record(later, d))
        /\ Passes(later, Record(later, d))
    BY <1>3, <2>2, RecordIs
  <2>4. ticked = Record(later, d)
    BY DEF d
  <2> HIDE DEF ticked
  <2>5. QED
    BY <1>4, <2>3, <2>4, PassesOn DEF Aged, SameMechanics, AtLimits, MotorIs, BeamIs, Budgeted,
         Counting, Unhurt
<1> HIDE DEF later, ticked
<1>6. /\ Sound(moved) /\ Passes(g, moved)
      /\ Expired(moved.watchdog) => ~Moving(moved.sm.state)
  BY <1>5, MoveSound, PassesOn
<1> HIDE DEF moved
<1>7. Sound(watched) /\ Passes(g, watched)
  <2>1. CASE Expired(moved.watchdog)
    <3>1. moved \in VirtualGateType
      BY <1>6 DEF Sound
    <3>2. /\ timeout \in VirtualGateType /\ timeout.sm = moved.sm /\ timeout.pos = moved.pos
          /\ timeout.motor = moved.motor /\ timeout.blocked = moved.blocked
          /\ timeout.tracker = moved.tracker /\ timeout.acks = moved.acks
          /\ timeout.autoclose = moved.autoclose
      BY <1>1, <3>1 DEF VirtualGateType
    <3> HIDE DEF timeout
    <3>3. Ready(timeout, "MotorTimeout")
      BY <1>6, <2>1, <3>2 DEF Ready, Sound, MotorIs, Unhurt, BeamIs, AtLimits, Budgeted, Moving,
           Counting
    <3>4. Sound(Step(timeout, "MotorTimeout")) /\ Passes(timeout, Step(timeout, "MotorTimeout"))
      BY <3>3, StepSound DEF Event
    <3>5. Passes(g, timeout)
      BY <1>6, <3>2 DEF Passes
    <3>6. QED
      BY <2>1, <3>4, <3>5, PassesOn
  <2>2. CASE ~Expired(moved.watchdog)
    BY <1>6, <2>2
  <2>3. QED
    BY <2>1, <2>2
<1>8. CASE Expired(watched.autoclose)
  <2>1. Advance(g, dt) = Step(closing, "CommandClose")
    BY <1>8 DEF Advance, later, ticked, moved
  <2> HIDE DEF watched
  <2>2. watched \in VirtualGateType
    BY <1>7 DEF Sound
  <2>3. /\ closing \in VirtualGateType /\ closing.sm = watched.sm /\ closing.pos = watched.pos
        /\ closing.motor = watched.motor /\ closing.blocked = watched.blocked
        /\ closing.tracker = watched.tracker /\ closing.acks = watched.acks
        /\ closing.watchdog = watched.watchdog
    BY <1>1, <2>2 DEF VirtualGateType
  <2> HIDE DEF closing
  <2>4. Ready(closing, "CommandClose")
    BY <1>7, <2>3 DEF Ready, Sound, MotorIs, Unhurt, BeamIs, AtLimits, Budgeted
  <2>5. Sound(Step(closing, "CommandClose")) /\ Passes(closing, Step(closing, "CommandClose"))
    BY <2>4, StepSound DEF Event
  <2>6. Passes(g, closing)
    BY <1>7, <2>3 DEF Passes
  <2>7. QED
    BY <2>1, <2>5, <2>6, PassesOn
<1>9. CASE ~Expired(watched.autoclose)
  <2>1. Advance(g, dt) = watched
    BY <1>9 DEF Advance, later, ticked, moved
  <2>2. QED
    BY <1>7, <2>1
<1>10. QED
  BY <1>8, <1>9

\* issue(): the command is armed, and what was armed before is answered.
LEMMA IssueSound ==
  ASSUME NEW g, Sound(g), NEW c \in Cmd, NEW e \in {"CommandOpen", "CommandClose"}
  PROVE  /\ Sound(Issue(g, c, e))
         /\ \E h \in VirtualGateType :
              /\ h.tracker.armed /\ h.tracker.id = c
              /\ \/ ~g.tracker.armed /\ h.acks = g.acks
                 \/ /\ g.tracker.armed
                    /\ \E v \in Answer : v.id = g.tracker.id /\ h.acks = Append(g.acks, v)
              /\ Passes(h, Issue(g, c, e))
<1> DEFINE ok == IF e = "CommandOpen" THEN "Open" ELSE "Closed"
           t == [armed |-> TRUE, id |-> c, ok |-> ok]
           v == [id |-> g.tracker.id, rule |-> "superseded"]
           acks == IF g.tracker.armed THEN Append(g.acks, v) ELSE g.acks
           h == [g EXCEPT !.tracker = t, !.due = Armed(Deadline), !.acks = acks]
<1>1. g \in VirtualGateType /\ g.tracker \in Sane /\ g.acks \in Seq(Answer)
  BY DEF Sound, VirtualGateType
<1>2. t \in Sane /\ t.armed /\ t.id = c
  BY DEF Sane, Tracker, State
<1>3. g.tracker.armed => v \in Answer /\ v # NoVerdict
  BY <1>1, NoCmdAssumption DEF Sane, Answer, Rule, Idle, NoVerdict
<1>4. acks \in Seq(Answer) /\ Armed(Deadline) \in Timer
  BY <1>1, <1>3, GateAssumption DEF Armed, Timer
<1>5. [Record(g, Arm(g.tracker, c, ok)) EXCEPT !.due = Armed(Deadline)] = h
  <2>1. /\ Arm(g.tracker, c, ok).tracker = t
        /\ Arm(g.tracker, c, ok).verdict = IF g.tracker.armed THEN v ELSE NoVerdict
    BY DEF Arm, Resolve
  <2>2. Record(g, Arm(g.tracker, c, ok)) = [g EXCEPT !.tracker = t, !.acks = acks]
    BY <1>1, <1>2, <1>3, <2>1 DEF Record, VirtualGateType
  <2>3. QED
    BY <1>1, <2>2 DEF VirtualGateType
<1>6. Issue(g, c, e) = Step(h, e)
  BY <1>5 DEF Issue
<1> HIDE DEF acks, t
<1>7. /\ h \in VirtualGateType /\ h.tracker = t /\ h.acks = acks /\ SameMechanics(g, h)
  BY <1>1, <1>2, <1>4 DEF VirtualGateType, SameMechanics
<1> HIDE DEF h
<1>8. Sound(h)
  BY <1>7 DEF SameMechanics, Sound, AtLimits, MotorIs, BeamIs, Budgeted, Counting, Unhurt
<1>9. Sound(Step(h, e)) /\ Passes(h, Step(h, e))
  BY <1>8, CommandSound
<1>10. \/ ~g.tracker.armed /\ h.acks = g.acks
       \/ /\ g.tracker.armed
          /\ \E w \in Answer : w.id = g.tracker.id /\ h.acks = Append(g.acks, w)
  BY <1>3, <1>7 DEF acks
<1>11. QED
  BY <1>2, <1>6, <1>7, <1>9, <1>10

-----------------------------------------------------------------------------
(* The gate stays sound, whoever calls.                                    *)

ReaderType == [at : {"read", "handle", "answer", "ended"}, id : Cmd \cup {NoCmd}, kind : Kind]

\* The reader's command, while it has one.
ReaderInv ==
  /\ reader \in ReaderType
  /\ reader.at \in {"handle", "answer"} <=> reader.id \in Cmd

\* drain_acks()
LEMMA DrainSound ==
  ASSUME Sound(gate)
  PROVE  /\ Sound(DrainAcks(gate)) /\ DrainAcks(gate).acks = <<>>
         /\ DrainAcks(gate).tracker = gate.tracker
<1> DEFINE h == DrainAcks(gate)
<1>1. gate \in VirtualGateType /\ <<>> \in Seq(Answer)
  BY DEF Sound
<1>2. h \in VirtualGateType /\ h.acks = <<>> /\ h.tracker = gate.tracker /\ SameMechanics(gate, h)
  BY <1>1 DEF DrainAcks, VirtualGateType, SameMechanics
<1> HIDE DEF h
<1>3. Sound(h)
  BY <1>2 DEF SameMechanics, Sound, AtLimits, MotorIs, BeamIs, Budgeted, Counting, Unhurt
<1>4. QED
  BY <1>2, <1>3 DEF h

\* How a step may treat the answers that the gate owes.
GateStep ==
  \/ HandleMotion /\ \E e \in {"CommandOpen", "CommandClose"} : gate' = Issue(gate, reader.id, e)
  \/ LoopDrain
  \/ ~HandleMotion /\ ~LoopDrain /\ Passes(gate, gate')

\* Every call leaves the gate sound.
LEMMA SoundStep ==
  ASSUME Sound(gate), ReaderInv, [Next]_vars
  PROVE  Sound(gate') /\ ReaderInv' /\ GateStep
<1>1. Tick \in Nat /\ Backoff \subseteq Nat
  BY ClientAssumption
<1>2. ReaderInv'
  <2> USE NoCmdAssumption DEF ReaderInv, ReaderType, Reading, Gone, Kind
  <2>1. CASE \E c \in Cmd, k \in Kind : ReadCommand(c, k)
    BY <2>1 DEF ReadCommand
  <2>2. CASE Reader
    BY <2>2 DEF Reader, HandleMotion, HandleReboot, AnswerNow, ReaderEnds
  <2>3. CASE SessionStarts
    BY <2>3 DEF SessionStarts
  <2>4. CASE UNCHANGED reader
    BY <2>4
  <2>5. QED
    BY <2>1, <2>2, <2>3, <2>4 DEF Next, vars, Loop, LoopTick, LoopDrain, LoopWrite, LoopEnds,
         SessionEnds, SessionFails, StreamBreaks, Console
<1>3. CASE HandleMotion
  <2>1. reader.id \in Cmd
    BY <1>3 DEF HandleMotion, ReaderInv
  <2>2. \E e \in {"CommandOpen", "CommandClose"} : gate' = Issue(gate, reader.id, e)
    BY <1>3 DEF HandleMotion
  <2>3. QED
    BY <1>2, <1>3, <2>1, <2>2, IssueSound DEF GateStep
<1>4. CASE LoopDrain
  BY <1>2, <1>4, DrainSound DEF LoopDrain, GateStep
<1>5. CASE ~HandleMotion /\ ~LoopDrain
  <2>1. SUFFICES Sound(gate') /\ Passes(gate, gate')
    BY <1>2, <1>5 DEF GateStep
  <2>2. CASE gate' = gate
    BY <2>2 DEF Passes
  <2>3. CASE HandleReboot
    BY <2>3, RebootSound DEF HandleReboot
  <2>4. CASE LoopTick
    BY <1>1, <2>4, AdvanceSound DEF LoopTick
  <2>5. CASE SessionEnds \/ SessionFails
    BY <1>1, <2>5, AdvanceSound DEF SessionEnds, SessionFails
  <2>6. CASE Console
    BY <2>6, CommandSound, BeamSound, ClearFaultSound, RebootSound DEF Console
  <2>7. QED
    BY <1>5, <2>2, <2>3, <2>4, <2>5, <2>6 DEF Next, vars, ReadCommand, Reader, AnswerNow, ReaderEnds,
         Loop, LoopWrite, LoopEnds, SessionStarts, StreamBreaks
<1>6. QED
  BY <1>3, <1>4, <1>5

\* The gate starts parked and closed.
LEMMA ParkedSound == Sound(BootClosed) /\ Passes(Parked, BootClosed)
<1>1. Parked \in VirtualGateType
  <2>1. PowerOn \in Machine
    BY DEF PowerOn, Machine, State, Reason
  <2>2. Idle \in Sane
    BY DEF Idle, Sane, Tracker, State
  <2>3. Off \in Timer
    BY DEF Off, Timer
  <2>4. 0 \in 0..Travel /\ <<>> \in Seq(Answer)
    BY GateAssumption
  <2>5. QED
    BY <2>1, <2>2, <2>3, <2>4 DEF Parked, VirtualGateType
<1>2. Parked.pos = 0 /\ BeamIs(Parked)
  BY DEF Parked, BeamIs, PowerOn
<1>3. ResolvePosition(Parked) = BootClosed
  BY <1>2 DEF ResolvePosition, BootClosed
<1>4. QED
  BY <1>1, <1>2, <1>3, ResolveSound

\* The simulator starts with a sound gate and an idle reader.
LEMMA InitSound == Init => Sound(gate) /\ ReaderInv
<1>1. Init => ReaderInv
  BY NoCmdAssumption DEF Init, ReaderInv, ReaderType, Gone, Reading, Kind
<1>2. QED
  BY <1>1, ParkedSound DEF Init

\* The gate is sound and the reader well-formed in every reachable state.
LEMMA GateSound == Spec => [](Sound(gate) /\ ReaderInv)
<1>1. Sound(gate) /\ ReaderInv /\ [Next]_vars => Sound(gate)' /\ ReaderInv'
  BY SoundStep
<1>2. QED
  BY <1>1, InitSound, PTL DEF Spec

\* The machine never loses the gate, for any stroke and any ticks: Closed and Open mean
\* that the gate is at that limit, the motor runs exactly in the two moving states, and
\* the latch is the beam (apply_locked, Move, Reboot).
THEOREM PositionCorrect == Spec => []PositionIsTrue
<1>1. Sound(gate) => PositionIsTrue
  BY DEF Sound, AtLimits, MotorIs, BeamIs, PositionIsTrue
<1>2. QED
  BY <1>1, GateSound, PTL

\* A stroke that fits the watchdog's budget is never cut off by it, however far one
\* advance() reaches; an open gate has its countdown, and a gate never rests where the
\* beam stopped it (advance, apply_locked's policies).
THEOREM MotionGoverned == Spec => []MotionIsGoverned
<1>1. Sound(gate) => MotionIsGoverned
  <2>1. ASSUME Sound(gate)
        PROVE  gate.watchdog \in Timer /\ gate.watchdog.left + 0 = gate.watchdog.left
    BY <2>1 DEF Sound, VirtualGateType, Timer
  <2>2. QED
    BY <2>1 DEF Sound, Budgeted, Counting, Unhurt, MotionIsGoverned, StrokeFitsWatchdog, PoliciesHold
<1>2. QED
  BY <1>1, GateSound, PTL

-----------------------------------------------------------------------------
(* The contract: where the one answer of a command is.                     *)

Here(x, c) == IF x = c THEN 1 ELSE 0

\* Counting the answers for a command in a sequence.
LEMMA PendingIs ==
  ASSUME NEW s \in Seq(Answer), NEW c
  PROVE  /\ Pending(s, c) \in Nat /\ Pending(<<>>, c) = 0
         /\ \A v \in Answer : Pending(Append(s, v), c) = Pending(s, c) + Here(v.id, c)
         /\ s # <<>> => Pending(Tail(s), c) + Here(Head(s).id, c) = Pending(s, c)
<1> DEFINE At(q) == {i \in DOMAIN q : q[i].id = c}
           n == Len(s)
<1>1. n \in Nat /\ DOMAIN s = 1..n
  OBVIOUS
<1>2. ASSUME NEW q \in Seq(Answer)
      PROVE  IsFiniteSet(At(q)) /\ Cardinality(At(q)) \in Nat
  <2>1. IsFiniteSet(1..Len(q)) /\ At(q) \in SUBSET (1..Len(q))
    BY FS_Interval
  <2> HIDE DEF At
  <2>2. QED
    BY <2>1, FS_Subset, FS_CardinalityType
<1>3. Pending(s, c) \in Nat
  BY <1>2 DEF Pending
<1>4. Pending(<<>>, c) = 0
  <2>1. At(<<>>) = {}
    OBVIOUS
  <2>2. QED
    BY <2>1, FS_EmptySet DEF Pending
<1>5. ASSUME NEW v \in Answer
      PROVE  Pending(Append(s, v), c) = Pending(s, c) + Here(v.id, c)
  <2> DEFINE q == Append(s, v)
  <2>1. DOMAIN q = 1..(n + 1) /\ q[n + 1] = v /\ \A i \in 1..n : q[i] = s[i]
    BY <1>1
  <2> HIDE DEF q
  <2>2. n + 1 \notin At(s)
    BY <1>1
  <2>3. At(q) = IF v.id = c THEN At(s) \cup {n + 1} ELSE At(s)
    BY <1>1, <2>1
  <2> HIDE DEF At
  <2>4. Cardinality(At(s) \cup {n + 1}) = Cardinality(At(s)) + 1
    BY <1>2, <2>2, FS_AddElement
  <2>5. Cardinality(At(q)) = Cardinality(At(s)) + Here(v.id, c)
    BY <1>2, <2>3, <2>4 DEF Here
  <2>6. QED
    BY <2>5 DEF Pending, At, q
<1>6. ASSUME s # <<>>
      PROVE  Pending(Tail(s), c) + Here(Head(s).id, c) = Pending(s, c)
  <2> DEFINE t == Tail(s)
             rest == {i \in 2..n : s[i].id = c}
             f == [i \in At(t) |-> i + 1]
  <2>1. n >= 1 /\ t \in Seq(Answer) /\ DOMAIN t = 1..(n - 1) /\ Head(s) = s[1]
        /\ \A i \in 1..(n - 1) : t[i] = s[i + 1]
    BY <1>1, <1>6
  <2> HIDE DEF t
  <2>2. f \in Bijection(At(t), rest)
    <3>1. f \in [At(t) -> rest]
      BY <1>1, <2>1
    <3>2. \A i, j \in At(t) : f[i] = f[j] => i = j
      BY <1>1, <2>1
    <3>3. ASSUME NEW j \in rest PROVE \E i \in At(t) : f[i] = j
      <4>1. j - 1 \in At(t) /\ f[j - 1] = j
        BY <1>1, <2>1
      <4>2. QED
        BY <4>1
    <3> HIDE DEF f
    <3>4. DOMAIN f = At(t)
      BY <3>1
    <3>5. QED
      BY <3>1, <3>2, <3>3, <3>4 DEF Bijection, Injection, IsInjective, Surjection
  <2>3. IsFiniteSet(rest) /\ Cardinality(rest) = Cardinality(At(t))
    <3>1. IsFiniteSet(At(t))
      BY <1>2, <2>1
    <3>2. ExistsBijection(At(t), rest)
      BY <2>2 DEF ExistsBijection
    <3> HIDE DEF rest, At
    <3>3. QED
      BY <3>1, <3>2, FS_Bijection
  <2>4. At(s) = (IF Head(s).id = c THEN rest \cup {1} ELSE rest) /\ 1 \notin rest
    BY <1>1, <2>1
  <2> HIDE DEF rest
  <2>5. Cardinality(rest \cup {1}) = Cardinality(rest) + 1
    BY <2>3, <2>4, FS_AddElement
  <2>6. Cardinality(At(t)) \in Nat
    BY <1>2, <2>1
  <2> HIDE DEF At
  <2>7. Cardinality(At(t)) + Here(Head(s).id, c) = Cardinality(At(s))
    BY <2>3, <2>4, <2>5, <2>6 DEF Here
  <2>8. QED
    BY <2>7 DEF Pending, At, t
<1>7. QED
  BY <1>3, <1>4, <1>5, <1>6

\* Answers that the gate owes for a command.
Debt(g, c) == Pending(g.acks, c) + Here(g.tracker.id, c)

\* Passing an answer on does not change the debt.
LEMMA PassesDebt ==
  ASSUME NEW g \in VirtualGateType, NEW h, Passes(g, h), NEW c \in Cmd
  PROVE  Debt(h, c) = Debt(g, c)
<1>1. g.acks \in Seq(Answer) /\ Pending(g.acks, c) \in Nat
  BY PendingIs DEF VirtualGateType
<1>2. CASE h.tracker = g.tracker /\ h.acks = g.acks
  BY <1>2 DEF Debt
<1>3. ASSUME g.tracker.armed, h.tracker = Idle,
             NEW v \in Answer, v.id = g.tracker.id, h.acks = Append(g.acks, v)
      PROVE  Debt(h, c) = Debt(g, c)
  <2>1. Pending(h.acks, c) = Pending(g.acks, c) + Here(v.id, c)
    BY <1>1, <1>3, PendingIs
  <2>2. Here(h.tracker.id, c) = 0
    BY <1>3, NoCmdAssumption DEF Here, Idle
  <2>3. Here(v.id, c) \in Nat /\ Here(v.id, c) = Here(g.tracker.id, c)
    BY <1>3 DEF Here
  <2>4. QED
    BY <1>1, <2>1, <2>2, <2>3 DEF Debt
<1>4. QED
  BY <1>2, <1>3 DEF Passes

\* Where the answers to a command may be, as sums: in the batch, in the gate's queue, with
\* the reader, in the tracker.
LEMMA PlacesIs ==
  ASSUME NEW c \in Cmd
  PROVE  Places(c) = Pending(batch, c) + Pending(gate.acks, c)
                       + (Here(reader.id, c) + Here(gate.tracker.id, c))
<1> DEFINE S == {t \in {"reader", "tracker"} :
                   (IF t = "reader" THEN reader.id ELSE gate.tracker.id) = c}
<1>1. S = CASE reader.id = c /\ gate.tracker.id = c -> {"reader"} \cup {"tracker"}
            [] reader.id = c /\ gate.tracker.id # c -> {"reader"}
            [] reader.id # c /\ gate.tracker.id = c -> {"tracker"}
            [] reader.id # c /\ gate.tracker.id # c -> {}
  OBVIOUS
<1>2. /\ Cardinality({}) = 0 /\ Cardinality({"reader"}) = 1 /\ Cardinality({"tracker"}) = 1
      /\ IsFiniteSet({"reader"})
  BY FS_EmptySet, FS_Singleton
<1>3. Cardinality({"reader"} \cup {"tracker"}) = 2
  BY <1>2, FS_AddElement
<1> HIDE DEF S
<1>4. Cardinality(S) = Here(reader.id, c) + Here(gate.tracker.id, c)
  BY <1>1, <1>2, <1>3 DEF Here
<1>5. QED
  BY <1>4 DEF Places, S

Heard == [read : BOOLEAN, receipts : Nat, answers : Nat]

\* Answers of a command that are on their way.
OnTheWay(c) == Pending(batch, c) + Debt(gate, c) + Here(reader.id, c)

\* A command that was read has one answer, on its way or written; one that was not read
\* has none.  Between two sessions nobody is at work.
AnswerInv ==
  /\ batch \in Seq(Answer)
  /\ loop # "write" => batch = <<>>
  /\ stream = "none" => loop = "ended" /\ reader.at = "ended"
  /\ heard \in [Cmd -> Heard]
  /\ \A c \in Cmd : OnTheWay(c) + heard[c].answers = IF heard[c].read THEN 1 ELSE 0

\* A receipt and an answer are counted for one command.
LEMMA HeardIs ==
  ASSUME NEW h \in [Cmd -> Heard], NEW x \in Cmd
  PROVE  /\ [h EXCEPT ![x].read = TRUE, ![x].receipts = @ + 1] \in [Cmd -> Heard]
         /\ [h EXCEPT ![x].answers = @ + 1] \in [Cmd -> Heard]
         /\ \A c \in Cmd :
              LET r == [h EXCEPT ![x].read = TRUE, ![x].receipts = @ + 1][c]
                  a == [h EXCEPT ![x].answers = @ + 1][c]
              IN /\ r.answers = h[c].answers /\ (r.read <=> h[c].read \/ c = x)
                 /\ a.answers = h[c].answers + Here(x, c) /\ (a.read <=> h[c].read)
<1> DEFINE read == [h[x] EXCEPT !.read = TRUE, !.receipts = @ + 1]
           answered == [h[x] EXCEPT !.answers = @ + 1]
<1>1. ASSUME NEW c \in Cmd
      PROVE  /\ h[c] \in Heard /\ h[c].answers \in Nat /\ h[c].receipts \in Nat
             /\ h[c].read \in BOOLEAN
  BY DEF Heard
<1>2. /\ read \in Heard /\ read.answers = h[x].answers /\ read.read
      /\ answered \in Heard /\ answered.answers = h[x].answers + 1
      /\ (answered.read <=> h[x].read)
  <2>1. ASSUME NEW r \in Heard
        PROVE  [r EXCEPT !.read = TRUE, !.receipts = @ + 1] \in Heard
    <3> DEFINE q == [r EXCEPT !.read = TRUE]
    <3>1. q \in Heard
      BY DEF Heard
    <3>2. [r EXCEPT !.read = TRUE, !.receipts = @ + 1] = [q EXCEPT !.receipts = @ + 1]
      BY DEF Heard
    <3> HIDE DEF q
    <3>3. [q EXCEPT !.receipts = @ + 1] \in Heard
      BY <3>1 DEF Heard
    <3>4. QED
      BY <3>2, <3>3
  <2>2. ASSUME NEW r \in Heard
        PROVE  /\ [r EXCEPT !.read = TRUE, !.receipts = @ + 1].answers = r.answers
               /\ [r EXCEPT !.read = TRUE, !.receipts = @ + 1].read
               /\ [r EXCEPT !.answers = @ + 1] \in Heard
               /\ [r EXCEPT !.answers = @ + 1].answers = r.answers + 1
               /\ ([r EXCEPT !.answers = @ + 1].read <=> r.read)
    BY DEF Heard
  <2>3. QED
    BY <1>1, <2>1, <2>2
<1>3. /\ [h EXCEPT ![x].read = TRUE, ![x].receipts = @ + 1] = [h EXCEPT ![x] = read]
      /\ [h EXCEPT ![x].answers = @ + 1] = [h EXCEPT ![x] = answered]
  BY <1>1
<1> HIDE DEF read, answered
<1>4. QED
  BY <1>1, <1>2, <1>3 DEF Here

\* The sum of a command is kept when it is read and answered.
LEMMA Sums ==
  ASSUME NEW w \in Nat, NEW a \in Nat, NEW r \in BOOLEAN, NEW n \in {0, 1},
         w + a = IF r THEN 1 ELSE 0
  PROVE  /\ \A v \in Int : v + n = w => v + (a + n) = IF r THEN 1 ELSE 0
         /\ ~r => (w + n) + a = n
         /\ w = 0 => a = (IF r THEN 1 ELSE 0)
         /\ w >= 1 => r /\ a = 0
OBVIOUS

\* The counts are numbers.
LEMMA Counts ==
  ASSUME NEW b \in Seq(Answer), NEW g \in VirtualGateType, NEW c, NEW x
  PROVE  Pending(b, c) \in Nat /\ Debt(g, c) \in Nat /\ Here(x, c) \in {0, 1}
<1>1. g.acks \in Seq(Answer) /\ Here(g.tracker.id, c) \in {0, 1} /\ Here(x, c) \in {0, 1}
  BY DEF VirtualGateType, Here
<1>2. Pending(b, c) \in Nat /\ Pending(g.acks, c) \in Nat
  BY <1>1, PendingIs
<1>3. QED
  BY <1>1, <1>2 DEF Debt

\* issue() adds the command's answer to what the gate owes.
LEMMA IssueDebt ==
  ASSUME NEW g, Sound(g), NEW x \in Cmd, NEW e \in {"CommandOpen", "CommandClose"}, NEW c \in Cmd
  PROVE  Debt(Issue(g, x, e), c) = Debt(g, c) + Here(x, c)
<1>1. g \in VirtualGateType /\ g.tracker \in Sane /\ g.acks \in Seq(Answer)
  BY DEF Sound, VirtualGateType
<1>2. PICK h \in VirtualGateType :
        /\ h.tracker.armed /\ h.tracker.id = x
        /\ \/ ~g.tracker.armed /\ h.acks = g.acks
           \/ /\ g.tracker.armed
              /\ \E v \in Answer : v.id = g.tracker.id /\ h.acks = Append(g.acks, v)
        /\ Passes(h, Issue(g, x, e))
  BY IssueSound
<1>3. Debt(Issue(g, x, e), c) = Debt(h, c)
  BY <1>2, PassesDebt
<1>4. Pending(g.acks, c) \in Nat /\ Here(x, c) \in {0, 1} /\ Here(g.tracker.id, c) \in {0, 1}
  BY <1>1, PendingIs DEF Here
<1>5. Pending(h.acks, c) = Pending(g.acks, c) + Here(g.tracker.id, c)
  <2>1. CASE ~g.tracker.armed
    <3>1. g.tracker = Idle /\ h.acks = g.acks
      BY <1>1, <1>2, <2>1 DEF Sane
    <3>2. Here(g.tracker.id, c) = 0
      BY <3>1, NoCmdAssumption DEF Here, Idle
    <3>3. QED
      BY <1>4, <3>1, <3>2
  <2>2. CASE g.tracker.armed
    <3>1. PICK v \in Answer : v.id = g.tracker.id /\ h.acks = Append(g.acks, v)
      BY <1>2, <2>2
    <3>2. QED
      BY <1>1, <3>1, PendingIs
  <2>3. QED
    BY <2>1, <2>2
<1>6. QED
  BY <1>2, <1>3, <1>4, <1>5 DEF Debt

\* The total of every command is kept: an answer that leaves one place comes to the
\* next, and it is written when it leaves the last.
LEMMA AnswerStep ==
  ASSUME Sound(gate), ReaderInv, AnswerInv, [Next]_vars
  PROVE  AnswerInv'
<1>1. Sound(gate') /\ ReaderInv' /\ GateStep
  BY SoundStep
<1>2. gate \in VirtualGateType /\ gate' \in VirtualGateType
  BY <1>1 DEF Sound
<1>3. ~HandleMotion /\ ~LoopDrain => \A c \in Cmd : Debt(gate', c) = Debt(gate, c)
  BY <1>1, <1>2, PassesDebt DEF GateStep
<1>4. ASSUME NEW c \in Cmd
      PROVE  /\ Pending(batch, c) \in Nat /\ Debt(gate, c) \in Nat /\ Here(reader.id, c) \in {0, 1}
             /\ Here(NoCmd, c) = 0 /\ Here(c, c) = 1
  BY <1>2, Counts, NoCmdAssumption DEF AnswerInv, Here
<1>11. (stream = "none" => loop = "ended" /\ reader.at = "ended")'
  <2>1. CASE stream' # "none"
    BY <2>1
  <2>2. CASE SessionEnds \/ UNCHANGED <<stream, loop, reader>>
    BY <2>2 DEF SessionEnds, AnswerInv
  <2>3. CASE stream = "none" /\ ~SessionStarts
    <3>1. loop = "ended" /\ reader.at = "ended"
      BY <2>3 DEF AnswerInv
    <3>2. UNCHANGED <<stream, loop, reader>>
      BY <2>3, <3>1 DEF Next, vars, ReadCommand, Reader, HandleMotion, HandleReboot, AnswerNow,
           ReaderEnds, Loop, LoopTick, LoopDrain, LoopWrite, LoopEnds, SessionEnds, SessionFails,
           StreamBreaks, Console
    <3>3. QED
      BY <2>2, <3>2
  <2>4. CASE stream # "none" /\ ~SessionEnds
    <3>1. stream' # "none"
      BY <2>4 DEF Next, vars, ReadCommand, Reader, HandleMotion, HandleReboot, AnswerNow,
           ReaderEnds, Loop, LoopTick, LoopDrain, LoopWrite, LoopEnds, SessionFails,
           SessionStarts, StreamBreaks, Console
    <3>2. QED
      BY <3>1
  <2>5. CASE SessionStarts
    BY <2>5 DEF SessionStarts
  <2>6. QED
    BY <2>2, <2>3, <2>4, <2>5
<1>12. heard \in [Cmd -> Heard]
  BY DEF AnswerInv
<1>5. CASE \E c \in Cmd, k \in Kind : ReadCommand(c, k)
  <2>1. PICK x \in Cmd, k \in Kind : ReadCommand(x, k)
    BY <1>5
  <2>2. /\ ~heard[x].read /\ batch' = batch /\ loop' = loop /\ gate' = gate
        /\ reader.at = "read" /\ reader'.id = x
        /\ heard' = [heard EXCEPT ![x].read = TRUE, ![x].receipts = @ + 1]
    BY <2>1 DEF ReadCommand
  <2>3. reader.id \notin Cmd
    BY <2>2 DEF ReaderInv
  <2>4. /\ heard' \in [Cmd -> Heard]
        /\ \A c \in Cmd : /\ heard'[c].answers = heard[c].answers
                          /\ heard'[c].read <=> heard[c].read \/ c = x
    <3>1. heard' = [heard EXCEPT ![x].read = TRUE, ![x].receipts = @ + 1]
      BY <2>2
    <3>2. heard' \in [Cmd -> Heard]
      BY <1>12, <3>1, HeardIs
    <3>3. \A c \in Cmd : /\ heard'[c].answers = heard[c].answers
                         /\ heard'[c].read <=> heard[c].read \/ c = x
      BY <1>12, <3>1, HeardIs
    <3>4. QED
      BY <3>2, <3>3
  <2>5. ASSUME NEW c \in Cmd
        PROVE  OnTheWay(c)' + heard'[c].answers = IF heard'[c].read THEN 1 ELSE 0
    <3>1. Here(reader.id, c) = 0 /\ Here(x, c) = IF c = x THEN 1 ELSE 0
      BY <2>3 DEF Here
    <3>2. OnTheWay(c)' = OnTheWay(c) + Here(x, c)
      BY <1>4, <2>2, <3>1 DEF OnTheWay
    <3>3. heard[c].answers \in Nat /\ OnTheWay(c) \in Nat
      <4>1. heard[c].answers \in Nat
        BY <1>12 DEF Heard
      <4>2. OnTheWay(c) \in Nat
        BY <1>4 DEF OnTheWay
      <4>3. QED
        BY <4>1, <4>2
    <3>4. OnTheWay(c) + heard[c].answers = IF heard[c].read THEN 1 ELSE 0
      BY DEF AnswerInv
    <3>5. CASE c = x
      BY <2>2, <2>4, <3>1, <3>2, <3>3, <3>4, <3>5
    <3>6. CASE c # x
      BY <2>4, <3>1, <3>2, <3>3, <3>4, <3>6
    <3>7. QED
      BY <3>5, <3>6
  <2>6. QED
    BY <1>11, <2>2, <2>4, <2>5 DEF AnswerInv
<1>6. CASE HandleMotion
  <2>1. reader.id \in Cmd /\ reader'.id = NoCmd /\ UNCHANGED <<batch, loop, heard>>
    BY <1>6 DEF HandleMotion, ReaderInv, Reading
  <2>2. PICK e \in {"CommandOpen", "CommandClose"} : gate' = Issue(gate, reader.id, e)
    BY <1>6 DEF HandleMotion
  <2>3. ASSUME NEW c \in Cmd
        PROVE  OnTheWay(c)' = OnTheWay(c)
    <3>1. Debt(gate', c) = Debt(gate, c) + Here(reader.id, c)
      BY <2>1, <2>2, IssueDebt
    <3>2. QED
      BY <1>4, <2>1, <3>1 DEF OnTheWay
  <2>4. QED
    BY <1>11, <2>1, <2>3 DEF AnswerInv
<1>7. CASE AnswerNow \/ (LoopWrite /\ batch # <<>>)
  <2>1. PICK x \in Cmd : /\ heard' = [heard EXCEPT ![x].answers = @ + 1]
                         /\ batch' \in Seq(Answer) /\ (loop' # "write" => batch' = <<>>)
                         /\ \A c \in Cmd : OnTheWay(c)' + Here(x, c) = OnTheWay(c)
    <3>1. ~HandleMotion /\ ~LoopDrain
      BY <1>7 DEF AnswerNow, LoopWrite, HandleMotion, LoopDrain
    <3>2. CASE AnswerNow
      <4>1. /\ reader.id \in Cmd /\ reader'.id = NoCmd /\ UNCHANGED <<batch, loop, gate>>
            /\ heard' = [heard EXCEPT ![reader.id].answers = @ + 1]
        BY <3>2 DEF AnswerNow, ReaderInv, Reading
      <4>2. \A c \in Cmd : OnTheWay(c)' + Here(reader.id, c) = OnTheWay(c)
        BY <1>4, <4>1 DEF OnTheWay
      <4>3. QED
        BY <4>1, <4>2 DEF AnswerInv
    <3>3. CASE LoopWrite /\ batch # <<>>
      <4>1. /\ UNCHANGED <<reader, loop, gate>> /\ batch' = Tail(batch) /\ loop = "write"
            /\ heard' = [heard EXCEPT ![Head(batch).id].answers = @ + 1]
        BY <3>3 DEF LoopWrite
      <4>2. batch \in Seq(Answer) /\ Tail(batch) \in Seq(Answer) /\ Head(batch) \in Answer
        BY <3>3 DEF AnswerInv
      <4>3. ASSUME NEW c \in Cmd
            PROVE  OnTheWay(c)' + Here(Head(batch).id, c) = OnTheWay(c)
        <5>1. /\ Pending(Tail(batch), c) + Here(Head(batch).id, c) = Pending(batch, c)
              /\ Pending(Tail(batch), c) \in Nat /\ Here(Head(batch).id, c) \in {0, 1}
          BY <3>3, <4>2, PendingIs DEF Here
        <5>2. QED
          BY <1>4, <4>1, <5>1 DEF OnTheWay
      <4>4. Head(batch).id \in Cmd
        BY <4>2 DEF Answer
      <4>5. QED
        BY <4>1, <4>2, <4>3, <4>4
    <3>4. QED
      BY <1>7, <3>2, <3>3
  <2>2. \A c \in Cmd : /\ heard'[c].answers = heard[c].answers + Here(x, c)
                       /\ heard'[c].read <=> heard[c].read
    <3>1. heard' = [heard EXCEPT ![x].answers = @ + 1]
      BY <2>1
    <3>2. QED
      BY <1>12, <3>1, HeardIs
  <2>3. heard' \in [Cmd -> Heard]
    BY <1>12, <2>1, HeardIs
  <2>4. ASSUME NEW c \in Cmd
        PROVE  OnTheWay(c)' + heard'[c].answers = IF heard'[c].read THEN 1 ELSE 0
    <3>1. heard[c].answers \in Nat /\ OnTheWay(c) \in Nat /\ Here(x, c) \in {0, 1}
      BY <1>4 DEF AnswerInv, Heard, OnTheWay, Here
    <3>2. OnTheWay(c)' \in Int
      <4>1. /\ Pending(batch', c) \in Nat /\ Debt(gate', c) \in Nat /\ Here(reader'.id, c) \in {0, 1}
        BY <1>2, <2>1, Counts
      <4>2. QED
        BY <4>1 DEF OnTheWay
    <3>3. OnTheWay(c)' + Here(x, c) = OnTheWay(c)
      BY <2>1
    <3>4. OnTheWay(c) + heard[c].answers = IF heard[c].read THEN 1 ELSE 0
      BY DEF AnswerInv
    <3>5. heard[c].read \in BOOLEAN
      BY DEF AnswerInv, Heard
    <3>6. OnTheWay(c)' + (heard[c].answers + Here(x, c)) = IF heard[c].read THEN 1 ELSE 0
      BY <3>1, <3>2, <3>3, <3>4, <3>5, Sums
    <3>7. QED
      BY <2>2, <3>6
  <2>5. QED
    BY <1>11, <2>1, <2>3, <2>4 DEF AnswerInv
<1>8. CASE LoopDrain
  <2>1. /\ batch = <<>> /\ batch' = gate.acks /\ gate' = DrainAcks(gate)
        /\ loop' = "write" /\ UNCHANGED <<reader, heard>>
    BY <1>8 DEF LoopDrain, AnswerInv
  <2>2. gate.acks \in Seq(Answer) /\ gate'.acks = <<>> /\ gate'.tracker = gate.tracker
    BY <1>2, <2>1, DrainSound DEF VirtualGateType
  <2>3. ASSUME NEW c \in Cmd
        PROVE  OnTheWay(c)' = OnTheWay(c)
    <3>1. Pending(<<>>, c) = 0 /\ Pending(gate.acks, c) \in Nat
      BY <2>2, PendingIs
    <3>2. QED
      BY <2>1, <2>2, <3>1 DEF OnTheWay, Debt, Here
  <2>4. QED
    BY <1>11, <2>1, <2>2, <2>3 DEF AnswerInv
<1>9. CASE ~(\/ \E c \in Cmd, k \in Kind : ReadCommand(c, k)
             \/ HandleMotion \/ AnswerNow \/ (LoopWrite /\ batch # <<>>) \/ LoopDrain)
  <2>1. reader'.id = reader.id \/ (reader.id \notin Cmd /\ reader'.id \notin Cmd)
    <3>1. CASE HandleReboot
      BY <3>1 DEF HandleReboot, ReaderInv, ReaderType
    <3>2. CASE ReaderEnds
      BY <3>2, NoCmdAssumption DEF ReaderEnds, ReaderInv, Gone, Reading
    <3>3. CASE SessionStarts
      BY <3>3, NoCmdAssumption DEF SessionStarts, AnswerInv, ReaderInv, Reading
    <3>4. CASE UNCHANGED reader
      BY <3>4
    <3>5. QED
      BY <1>9, <3>1, <3>2, <3>3, <3>4 DEF Next, Reader, Loop, vars, LoopTick, LoopWrite, LoopEnds,
           SessionEnds, SessionFails, StreamBreaks, Console
  <2>2. UNCHANGED <<batch, heard>> /\ (loop' # "write" => batch' = <<>>)
    <3>1. CASE HandleReboot \/ ReaderEnds \/ SessionFails \/ SessionEnds \/ StreamBreaks \/ Console
               \/ UNCHANGED vars
      BY <3>1 DEF AnswerInv, vars, HandleReboot, ReaderEnds, SessionEnds, SessionFails,
           StreamBreaks, Console
    <3>2. CASE LoopTick \/ LoopEnds
      BY <3>2 DEF AnswerInv, LoopTick, LoopEnds
    <3>3. CASE LoopWrite /\ batch = <<>>
      BY <3>3 DEF LoopWrite
    <3>4. CASE SessionStarts
      BY <3>4 DEF SessionStarts, AnswerInv
    <3>5. QED
      BY <1>9, <3>1, <3>2, <3>3, <3>4 DEF Next, Reader, Loop
  <2>3. ASSUME NEW c \in Cmd
        PROVE  OnTheWay(c)' = OnTheWay(c)
    <3>1. Here(reader'.id, c) = Here(reader.id, c)
      BY <2>1 DEF Here
    <3>2. QED
      BY <1>3, <1>9, <2>2, <3>1 DEF OnTheWay
  <2>4. QED
    BY <1>11, <2>2, <2>3 DEF AnswerInv
<1>10. QED
  BY <1>5, <1>6, <1>7, <1>8, <1>9

\* No answer is lost or doubled on its way from the reader to the stream.
LEMMA AnswersHold == Spec => []AnswerInv
<1>1. Init => AnswerInv
  <2>1. SUFFICES ASSUME Init PROVE AnswerInv
    OBVIOUS
  <2>2. gate \in VirtualGateType /\ gate = BootClosed
    BY <2>1, InitSound DEF Sound, Init
  <2>3. gate.acks = <<>> /\ gate.tracker = Idle
    <3>1. Parked.acks = <<>> /\ Parked.tracker = Idle /\ ~Idle.armed
      BY DEF Parked, Idle
    <3>2. BootClosed = Apply(Parked, InitClosed(Parked.sm))
      BY DEF BootClosed
    <3>3. Passes(Parked, BootClosed)
      BY ParkedSound
    <3>4. QED
      BY <2>2, <3>1, <3>3 DEF Passes
  <2>4. ASSUME NEW c \in Cmd
        PROVE  OnTheWay(c) = 0
    <3>1. <<>> \in Seq(Answer)
      OBVIOUS
    <3>2. batch = <<>> /\ reader.id = NoCmd
      BY <2>1 DEF Init, Gone, Reading
    <3>3. Pending(<<>>, c) = 0
      BY <3>1, PendingIs
    <3>4. QED
      BY <2>3, <3>2, <3>3, NoCmdAssumption DEF OnTheWay, Debt, Here, Idle
  <2>5. heard = [c \in Cmd |-> NotHeard]
    BY <2>1 DEF Init
  <2>6. heard \in [Cmd -> Heard] /\ \A c \in Cmd : heard[c].answers = 0 /\ ~heard[c].read
    BY <2>5 DEF NotHeard, Heard
  <2>7. QED
    BY <2>1, <2>4, <2>6 DEF Init, AnswerInv, Gone, Reading
<1>2. Sound(gate) /\ ReaderInv /\ AnswerInv /\ [Next]_vars => AnswerInv'
  BY AnswerStep
<1>3. QED
  BY <1>1, <1>2, GateSound, PTL DEF Spec

\* The stage of a command follows from what was heard of it.
StageInv ==
  \A c \in Cmd : /\ heard[c].answers \in {0, 1}
                 /\ heard[c].answers = 1 => heard[c].read
                 /\ StageOf(c) = IF ~heard[c].read THEN "unknown"
                                 ELSE IF heard[c].answers = 0 THEN "owed" ELSE "answered"

\* The stage of the contract is a function of what was read and answered.
LEMMA StagesKnown ==
  ASSUME Sound(gate), AnswerInv
  PROVE  StageInv
<1>1. SUFFICES ASSUME NEW c \in Cmd
               PROVE  /\ heard[c].answers \in {0, 1}
                      /\ heard[c].answers = 1 => heard[c].read
                      /\ StageOf(c) = IF ~heard[c].read THEN "unknown"
                                      ELSE IF heard[c].answers = 0 THEN "owed" ELSE "answered"
  BY DEF StageInv
<1>2. gate \in VirtualGateType /\ gate.acks \in Seq(Answer) /\ batch \in Seq(Answer)
  BY DEF Sound, VirtualGateType, AnswerInv
<1>3. /\ Pending(batch, c) \in Nat /\ Pending(gate.acks, c) \in Nat
      /\ Here(reader.id, c) \in {0, 1} /\ Here(gate.tracker.id, c) \in {0, 1}
  BY <1>2, PendingIs DEF Here
<1>4. Places(c) = OnTheWay(c) /\ OnTheWay(c) \in Nat
  BY <1>3, PlacesIs DEF OnTheWay, Debt
<1>5. /\ heard[c].answers \in Nat /\ heard[c].read \in BOOLEAN
      /\ OnTheWay(c) + heard[c].answers = IF heard[c].read THEN 1 ELSE 0
  BY DEF AnswerInv, Heard
<1>6. CASE ~heard[c].read
  BY <1>4, <1>5, <1>6 DEF StageOf
<1>7. CASE heard[c].read
  <2>1. \/ OnTheWay(c) = 1 /\ heard[c].answers = 0
        \/ OnTheWay(c) = 0 /\ heard[c].answers = 1
    BY <1>4, <1>5, <1>7
  <2>2. QED
    BY <1>4, <1>7, <2>1 DEF StageOf
<1>8. QED
  BY <1>5, <1>6, <1>7

\* An answer that is written was on its way.
LEMMA AnswerWasOwed ==
  ASSUME Sound(gate), ReaderInv, AnswerInv, NEW x \in Cmd,
         reader.id = x \/ (batch # <<>> /\ Head(batch).id = x)
  PROVE  heard[x].read /\ heard[x].answers = 0
<1>1. gate \in VirtualGateType /\ batch \in Seq(Answer)
  BY DEF Sound, AnswerInv
<1>2. Pending(batch, x) \in Nat /\ Debt(gate, x) \in Nat /\ Here(reader.id, x) \in {0, 1}
  BY <1>1, Counts
<1>3. OnTheWay(x) >= 1 /\ OnTheWay(x) \in Nat
  <2>1. CASE reader.id = x
    BY <1>2, <2>1 DEF OnTheWay, Here
  <2>2. CASE batch # <<>> /\ Head(batch).id = x
    <3>1. Tail(batch) \in Seq(Answer)
      BY <1>1, <2>2
    <3>2. Pending(Tail(batch), x) \in Nat /\ Pending(Tail(batch), x) + 1 = Pending(batch, x)
      BY <1>1, <2>2, <3>1, PendingIs DEF Here
    <3>3. QED
      BY <1>2, <3>2 DEF OnTheWay
  <2>3. QED
    BY <2>1, <2>2
<1>4. /\ heard[x].answers \in Nat /\ heard[x].read \in BOOLEAN
      /\ OnTheWay(x) + heard[x].answers = IF heard[x].read THEN 1 ELSE 0
  BY DEF AnswerInv, Heard
<1>5. QED
  BY <1>3, <1>4

\* The simulator implements AckContract: a command that was read has one answer, at one
\* place, across reboots, commands that supersede each other and sessions that break,
\* and it is written once (issue, drain_acks).
THEOREM SimContractKept == Spec => KeepsContract
<1> DEFINE stage == [c \in Cmd |-> StageOf(c)]
<1>1. Init /\ StageInv => Contract!Init
  <2>1. ASSUME Init, StageInv, NEW c \in Cmd
        PROVE  StageOf(c) = "unknown"
    BY <2>1 DEF Init, StageInv, NotHeard
  <2>2. QED
    BY <2>1 DEF Contract!Init
<1>2. Sound(gate) /\ ReaderInv /\ AnswerInv /\ AnswerInv' /\ StageInv /\ StageInv' /\ [Next]_vars
        => [Contract!Next]_stage
  <2> SUFFICES ASSUME Sound(gate), ReaderInv, AnswerInv, AnswerInv', StageInv, StageInv', [Next]_vars
               PROVE  Contract!Next \/ UNCHANGED stage
    OBVIOUS
  <2>1. heard \in [Cmd -> Heard]
    BY DEF AnswerInv
  <2>2. CASE UNCHANGED heard
    BY <2>2 DEF StageInv
  <2>3. ASSUME NEW x \in Cmd, NEW k \in Kind, ReadCommand(x, k)
        PROVE  Contract!Accept(x)
    <3>1. ~heard[x].read /\ heard' = [heard EXCEPT ![x].read = TRUE, ![x].receipts = @ + 1]
      BY <2>3 DEF ReadCommand
    <3>2. \A c \in Cmd : /\ heard'[c].answers = heard[c].answers
                         /\ heard'[c].read <=> heard[c].read \/ c = x
      BY <2>1, <3>1, HeardIs
    <3>3. /\ StageOf(x) = "unknown" /\ StageOf(x)' = "owed"
          /\ \A c \in Cmd \ {x} : StageOf(c)' = StageOf(c)
      <4>1. heard[x].answers = 0 /\ heard'[x].answers = 0 /\ heard'[x].read
        BY <3>1, <3>2 DEF StageInv
      <4>2. \A c \in Cmd \ {x} : heard'[c].read <=> heard[c].read
        BY <3>2
      <4>3. QED
        BY <3>1, <3>2, <4>1, <4>2, ZenonT(30) DEF StageInv
    <3>4. QED
      BY <3>3 DEF Contract!Accept
  <2>4. ASSUME NEW x \in Cmd, heard' = [heard EXCEPT ![x].answers = @ + 1],
               reader.id = x \/ (batch # <<>> /\ Head(batch).id = x)
        PROVE  Contract!Complete(x)
    <3>1. heard[x].read /\ heard[x].answers = 0
      BY <2>4, AnswerWasOwed
    <3>2. \A c \in Cmd : /\ heard'[c].answers = heard[c].answers + Here(x, c)
                         /\ heard'[c].read <=> heard[c].read
      BY <2>1, <2>4, HeardIs, ZenonT(30)
    <3>3. heard'[x].answers = 1 /\ \A c \in Cmd \ {x} : heard'[c].answers = heard[c].answers
      BY <2>1, <3>1, <3>2 DEF Here, Heard
    <3>4. /\ StageOf(x) = "owed" /\ StageOf(x)' = "answered"
          /\ \A c \in Cmd \ {x} : StageOf(c)' = StageOf(c)
      BY <3>1, <3>2, <3>3 DEF StageInv
    <3>5. QED
      BY <3>4 DEF Contract!Complete
  <2>5. CASE AnswerNow
    <3>1. reader.id \in Cmd /\ heard' = [heard EXCEPT ![reader.id].answers = @ + 1]
      BY <2>5 DEF AnswerNow, ReaderInv
    <3>2. QED
      BY <2>4, <3>1 DEF Contract!Next
  <2>6. CASE LoopWrite /\ batch # <<>>
    <3>1. Head(batch) \in Answer /\ heard' = [heard EXCEPT ![Head(batch).id].answers = @ + 1]
      BY <2>6 DEF LoopWrite, AnswerInv
    <3>2. Head(batch).id \in Cmd
      BY <3>1 DEF Answer
    <3>3. QED
      BY <2>4, <2>6, <3>1, <3>2 DEF Contract!Next
  <2>7. ASSUME ~UNCHANGED heard
        PROVE  \/ \E c \in Cmd, k \in Kind : ReadCommand(c, k)
               \/ AnswerNow \/ (LoopWrite /\ batch # <<>>)
    BY <2>7 DEF Next, vars, Reader, HandleMotion, HandleReboot, ReaderEnds, Loop, LoopTick,
         LoopDrain, LoopWrite, LoopEnds, SessionEnds, SessionFails, SessionStarts, StreamBreaks,
         Console
  <2>8. QED
    BY <2>2, <2>3, <2>5, <2>6, <2>7 DEF Contract!Next
<1>3. Sound(gate) /\ AnswerInv => StageInv
  BY StagesKnown
<1>4. QED
  BY <1>1, <1>2, <1>3, GateSound, AnswersHold, PTL DEF Spec, KeepsContract, Contract!Spec

=============================================================================
