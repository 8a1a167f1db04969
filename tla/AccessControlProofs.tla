------------------------ MODULE AccessControlProofs ------------------------
(***************************************************************************)
(* Theorems about AccessControl, for any gates, threads, frames, tables    *)
(* and budgets.                                                            *)
(***************************************************************************)
EXTENDS AccessControl, FiniteSetTheorems, NaturalsInduction, SequenceTheorems, TLAPS

-----------------------------------------------------------------------------
(* Types.                                                                  *)

Id == Nat \X Nat

Ruling == [verdict : {"none", "DENIED", "AUTHORIZED", "LOW_CONFIDENCE", "MANUAL_REVIEW"},
           reason : {"none", "FORCE_CLOSE", "NO_PLATE_FOUND", "LOW_ALPR_CONF", "LOW_LIDAR_CONF",
                     "BLOCKLISTED", "NOT_ON_ALLOWLIST", "CLASS_MISMATCH", "OUTSIDE_WINDOW"}]

Request ==
  [at : {"idle", "blocklist", "lookup", "decided", "open"}, id : Id,
   rpc : {"none", "authorize", "submit"}, frame : Frame \cup {NoFrame}, guard : BOOLEAN,
   now : Instant \cup {NoInstant}, read : Override, epoch : Nat, out : Ruling]

Command ==
  [at : {"idle", "command", "ack"}, id : Id, gate : Gate \cup {"none"}, kind : Kind \cup {"none"},
   epoch : Nat]

Sensor ==
  [at : {"watching", "sending", "calling", "answered", "exited"}, id : Nat,
   frame : Frame \cup {NoFrame}, attempt : Nat, call : SUBSET Handler]

BusEvent == [type : {"decision", "auto", "command", "ack"}, gate : Gate, id : Id,
             kind : Kind \cup {"none", "OPEN_GATE", "DENIED", "AUTHORIZED", "LOW_CONFIDENCE",
                               "MANUAL_REVIEW"},
             epoch : Nat]

Remaining ==
  [requests : Nat, frames : Nat, commands : Nat, edits : Nat, walks : Nat, restarts : Nat]

TypeOK ==
  /\ override \in [Gate -> Override] /\ epoch \in [Gate -> Nat]
  /\ req \in [Handler -> Request]
  /\ cmd \in [Operator -> Command]
  /\ sensor \in [Gate -> Sensor]
  /\ bus \in Seq(BusEvent)
  /\ left \in Remaining

\* A thread that is at work has a request of a gate there is.
WorkInv ==
  /\ \A h \in Handler : req[h].at # "idle" => req[h].frame \in Frame /\ req[h].frame.gate \in Gate
  /\ \A o \in Operator : cmd[o].at # "idle" => cmd[o].gate \in Gate /\ cmd[o].kind \in Kind
  /\ \A g \in Gate :
       sensor[g].at \in {"sending", "calling", "answered"} =>
         sensor[g].frame \in Frame /\ sensor[g].frame.gate = g
  /\ \A g \in Gate : sensor[g].call # {} => sensor[g].at = "calling"

\* The rungs of the ladder give rulings.
LEMMA RulingType ==
  /\ Undecided \in Ruling /\ Authorized \in Ruling
  /\ \A f, o : BeforeTables(f, o) \in Ruling
  /\ \A b, guard : AfterBlocklist(b, guard) \in Ruling
  /\ \A e, f, t : AfterLookup(e, f, t) \in Ruling
<1> USE DEF Ruling, Outcome
<1>1. Undecided \in Ruling /\ Authorized \in Ruling
  BY DEF Undecided, Authorized
<1>2. /\ Denied("FORCE_CLOSE") \in Ruling /\ Denied("NO_PLATE_FOUND") \in Ruling
      /\ Denied("BLOCKLISTED") \in Ruling /\ Denied("NOT_ON_ALLOWLIST") \in Ruling
      /\ Denied("OUTSIDE_WINDOW") \in Ruling
      /\ Outcome("LOW_CONFIDENCE", "LOW_ALPR_CONF") \in Ruling
      /\ Outcome("LOW_CONFIDENCE", "LOW_LIDAR_CONF") \in Ruling
      /\ Outcome("MANUAL_REVIEW", "CLASS_MISMATCH") \in Ruling
  BY DEF Denied
<1> HIDE DEF Ruling, Outcome
<1>3. \A f, o : BeforeTables(f, o) \in Ruling
  BY <1>1, <1>2 DEF BeforeTables
<1>4. \A b, guard : AfterBlocklist(b, guard) \in Ruling
  BY <1>1, <1>2 DEF AfterBlocklist
<1>5. \A e, f, t : AfterLookup(e, f, t) \in Ruling
  BY <1>1, <1>2 DEF AfterLookup
<1>6. QED
  BY <1>1, <1>3, <1>4, <1>5

\* Frames are of gates there are.
LEMMA FrameGate ==
  ASSUME NEW f \in Frame
  PROVE  f.gate \in Gate
  BY AccessAssumption

\* An idle thread and a daemon that has just started.
LEMMA IdleType ==
  IdleRequest \in Request /\ IdleCommand \in Command /\ NewSensor \in Sensor
<1>1. NoId \in Id
  BY DEF NoId, Id
<1>2. Undecided \in Ruling
  BY RulingType
<1>3. IdleRequest \in Request
  BY <1>1, <1>2 DEF IdleRequest, Request, Override
<1>4. IdleCommand \in Command
  BY <1>1 DEF IdleCommand, Command
<1>5. NewSensor \in Sensor
  BY DEF NewSensor, Sensor
<1>6. QED
  BY <1>3, <1>4, <1>5

\* A handler has begun a request.
Begun(h, rpc, id, f, guard, t) ==
  /\ req' \in [Handler -> Request] /\ UNCHANGED <<override, epoch, cmd, bus>>
  /\ req'[h].at \in {"blocklist", "decided"} /\ req'[h].id = id /\ req'[h].rpc = rpc
  /\ req'[h].frame = f /\ req'[h].guard = guard /\ req'[h].now = t
  /\ req'[h].read = override[f.gate] /\ req'[h].epoch = epoch[f.gate]
  /\ req'[h].out = BeforeTables(f, override[f.gate])
  /\ req'[h].at = "blocklist" <=> BeforeTables(f, override[f.gate]) = Undecided
  /\ \A k \in Handler : k # h => req'[k] = req[k]

\* A handler takes a request, and nothing else of what is typed here changes.
LEMMA BeginType ==
  ASSUME TypeOK, NEW h \in Handler, NEW rpc \in {"authorize", "submit"}, NEW id \in Id,
         NEW f \in Frame, NEW guard \in BOOLEAN, NEW t \in Instant, Begin(h, rpc, id, f, guard, t)
  PROVE  Begun(h, rpc, id, f, guard, t)
<1> DEFINE out == BeforeTables(f, override[f.gate])
           r == [at |-> IF out = Undecided THEN "blocklist" ELSE "decided",
                 id |-> id, rpc |-> rpc, frame |-> f, guard |-> guard,
                 now |-> t, read |-> override[f.gate], epoch |-> epoch[f.gate], out |-> out]
<1>1. override[f.gate] \in Override /\ epoch[f.gate] \in Nat
  BY FrameGate DEF TypeOK
<1>2. out \in Ruling
  BY RulingType
<1>3. r \in Request
  BY <1>1, <1>2 DEF Request
<1>4. req' = [req EXCEPT ![h] = r] /\ UNCHANGED <<override, epoch, cmd, bus>>
  BY DEF Begin, OverrideFor
<1>5. req \in [Handler -> Request]
  BY DEF TypeOK
<1>6. req'[h] = r /\ \A k \in Handler : k # h => req'[k] = req[k]
  BY <1>4, <1>5
<1>7. req' \in [Handler -> Request]
  BY <1>3, <1>4, <1>5
<1>8. QED
  BY <1>4, <1>6, <1>7 DEF Begun

\* What a request keeps while it is at work.
SameRequest(h) ==
  /\ req'[h].id = req[h].id /\ req'[h].rpc = req[h].rpc /\ req'[h].frame = req[h].frame
  /\ req'[h].guard = req[h].guard /\ req'[h].now = req[h].now /\ req'[h].read = req[h].read
  /\ req'[h].epoch = req[h].epoch

\* decide() goes on in one thread.
LEMMA AdvanceType ==
  ASSUME TypeOK, NEW h \in Handler, NEW out \in Ruling, NEW next \in {"lookup", "decided"},
         Advance(h, out, next)
  PROVE  /\ req' \in [Handler -> Request]
         /\ req'[h].out = out /\ SameRequest(h)
         /\ out = Undecided => req'[h].at = next
         /\ out # Undecided => req'[h].at = "decided"
         /\ \A k \in Handler : k # h => req'[k] = req[k]
<1> DEFINE at == IF out = Undecided THEN next ELSE "decided"
           r == [req[h] EXCEPT !.out = out, !.at = at]
<1>1. req \in [Handler -> Request]
  BY DEF TypeOK
<1>2. r \in Request
  BY <1>1 DEF Request
<1>3. req' = [req EXCEPT ![h] = r]
  BY <1>1 DEF Advance, Request
<1>4. req' \in [Handler -> Request] /\ req'[h] = r /\ \A k \in Handler : k # h => req'[k] = req[k]
  BY <1>1, <1>2, <1>3
<1>5. req'[h].out = out /\ SameRequest(h) /\ req'[h].at = at
  BY <1>1, <1>4 DEF Request, SameRequest
<1>6. QED
  BY <1>4, <1>5

\* The decision is out and the gate is to be opened.
LEMMA OpenType ==
  ASSUME TypeOK, NEW h \in Handler, req' = [req EXCEPT ![h].at = "open"]
  PROVE  /\ req' \in [Handler -> Request]
         /\ req'[h] = [req[h] EXCEPT !.at = "open"]
         /\ \A k \in Handler : req'[k].frame = req[k].frame /\ (k # h => req'[k] = req[k])
<1> DEFINE r == [req[h] EXCEPT !.at = "open"]
<1>1. req \in [Handler -> Request]
  BY DEF TypeOK
<1>2. r \in Request /\ r.frame = req[h].frame
  BY <1>1 DEF Request
<1>3. req' = [req EXCEPT ![h] = r]
  BY <1>1 DEF Request
<1>4. QED
  BY <1>1, <1>2, <1>3

\* A handler returns; a daemon that waits for it has its answer.
LEMMA FinishType ==
  ASSUME TypeOK, NEW h \in Handler, Finish(h)
  PROVE  /\ req' \in [Handler -> Request] /\ sensor' \in [Gate -> Sensor]
         /\ req'[h] = IdleRequest /\ \A k \in Handler : k # h => req'[k] = req[k]
         /\ \A g \in Gate :
              /\ sensor'[g].id = sensor[g].id /\ sensor'[g].frame = sensor[g].frame
              /\ sensor'[g].attempt = sensor[g].attempt
              /\ h \in sensor[g].call => sensor'[g].at = "answered" /\ sensor'[g].call = {}
              /\ h \notin sensor[g].call => sensor'[g] = sensor[g]
<1>1. req \in [Handler -> Request] /\ sensor \in [Gate -> Sensor]
  BY DEF TypeOK
<1>2. req' = [req EXCEPT ![h] = IdleRequest]
  BY DEF Finish
<1>3. req' \in [Handler -> Request] /\ req'[h] = IdleRequest
        /\ \A k \in Handler : k # h => req'[k] = req[k]
  BY <1>1, <1>2, IdleType
<1>4. ASSUME NEW g \in Gate
      PROVE  /\ sensor'[g] \in Sensor
             /\ sensor'[g].id = sensor[g].id /\ sensor'[g].frame = sensor[g].frame
             /\ sensor'[g].attempt = sensor[g].attempt
             /\ h \in sensor[g].call => sensor'[g].at = "answered" /\ sensor'[g].call = {}
             /\ h \notin sensor[g].call => sensor'[g] = sensor[g]
  BY <1>1 DEF Finish, Sensor
<1>5. sensor' \in [Gate -> Sensor]
  <2>1. sensor' = [g \in Gate |-> sensor'[g]]
    BY DEF Finish
  <2>2. QED
    BY <1>4, <2>1
<1>6. QED
  BY <1>3, <1>4, <1>5

\* What publish() does to the bus.
LEMMA Published ==
  ASSUME TypeOK, NEW e \in BusEvent, bus' = Append(bus, e)
  PROVE  /\ bus' \in Seq(BusEvent) /\ Len(bus) \in Nat /\ DOMAIN bus = 1..Len(bus)
         /\ DOMAIN bus' = 1..(Len(bus) + 1) /\ bus'[Len(bus) + 1] = e
         /\ \A i \in DOMAIN bus : i \in DOMAIN bus' /\ bus'[i] = bus[i]
         /\ \A i \in DOMAIN bus' : i \in DOMAIN bus \/ i = Len(bus) + 1
  BY DEF TypeOK

\* What is on the bus.
LEMMA OnBus ==
  ASSUME TypeOK, NEW i \in DOMAIN bus
  PROVE  /\ bus[i] \in BusEvent /\ bus[i].epoch \in Nat /\ bus[i].gate \in Gate /\ bus[i].id \in Id
         /\ epoch[bus[i].gate] \in Nat
<1>1. bus[i] \in BusEvent
  BY DEF TypeOK
<1>2. bus[i].epoch \in Nat /\ bus[i].gate \in Gate /\ bus[i].id \in Id
  BY <1>1 DEF BusEvent
<1>3. QED
  BY <1>1, <1>2 DEF TypeOK

\* The events that are published.
LEMMA EventTypes ==
  ASSUME TypeOK, WorkInv
  PROVE  /\ \A h \in Handler : req[h].at # "idle" =>
              Event("decision", req[h].frame.gate, req[h].id, req[h].out.verdict, 0) \in BusEvent
         /\ \A h \in Handler : req[h].at # "idle" =>
              Event("auto", req[h].frame.gate, req[h].id, "OPEN_GATE", 0) \in BusEvent
         /\ \A o \in Operator : cmd[o].at # "idle" =>
              /\ Event("command", cmd[o].gate, cmd[o].id, cmd[o].kind, cmd[o].epoch) \in BusEvent
              /\ Event("ack", cmd[o].gate, cmd[o].id, cmd[o].kind, 0) \in BusEvent
<1>1. ASSUME NEW h \in Handler, req[h].at # "idle"
      PROVE  req[h].frame.gate \in Gate /\ req[h].id \in Id /\ req[h].out \in Ruling
  BY <1>1 DEF TypeOK, WorkInv, Request
<1>2. ASSUME NEW o \in Operator, cmd[o].at # "idle"
      PROVE  cmd[o].gate \in Gate /\ cmd[o].id \in Id /\ cmd[o].kind \in Kind /\ cmd[o].epoch \in Nat
  BY <1>2 DEF TypeOK, WorkInv, Command
<1>3. ASSUME NEW h \in Handler, req[h].at # "idle"
      PROVE  Event("decision", req[h].frame.gate, req[h].id, req[h].out.verdict, 0) \in BusEvent
  BY <1>1, <1>3 DEF Event, BusEvent, Ruling
<1>4. ASSUME NEW h \in Handler, req[h].at # "idle"
      PROVE  Event("auto", req[h].frame.gate, req[h].id, "OPEN_GATE", 0) \in BusEvent
  BY <1>1, <1>4 DEF Event, BusEvent
<1>5. ASSUME NEW o \in Operator, cmd[o].at # "idle"
      PROVE  /\ Event("command", cmd[o].gate, cmd[o].id, cmd[o].kind, cmd[o].epoch) \in BusEvent
             /\ Event("ack", cmd[o].gate, cmd[o].id, cmd[o].kind, 0) \in BusEvent
  BY <1>2, <1>5 DEF Event, BusEvent
<1>6. QED
  BY <1>3, <1>4, <1>5

\* The daemon of one gate changes.
LEMMA SensorSet ==
  ASSUME TypeOK, NEW g \in Gate, NEW s \in Sensor, sensor' = [sensor EXCEPT ![g] = s]
  PROVE  /\ sensor' \in [Gate -> Sensor] /\ sensor'[g] = s
         /\ \A k \in Gate : k # g => sensor'[k] = sensor[k]
  BY DEF TypeOK

\* The thread of one command changes.
LEMMA CommandSet ==
  ASSUME TypeOK, NEW o \in Operator, NEW c \in Command, cmd' = [cmd EXCEPT ![o] = c]
  PROVE  /\ cmd' \in [Operator -> Command] /\ cmd'[o] = c
         /\ \A k \in Operator : k # o => cmd'[k] = cmd[k]
  BY DEF TypeOK

\* What the steps of a daemon do to it.
LEMMA SensorSteps ==
  ASSUME TypeOK, NEW g \in Gate
  PROVE  /\ \A h \in Handler, t \in Instant :
              SubmitDetection(h, g, t) =>
                /\ sensor' \in [Gate -> Sensor]
                /\ sensor'[g] = [sensor[g] EXCEPT !.at = "calling", !.call = {h}]
         /\ \A f \in Frame :
              Observe(g, f) =>
                /\ sensor' \in [Gate -> Sensor]
                /\ sensor'[g] = [at |-> "sending", id |-> sensor[g].id + 1, frame |-> f,
                                 attempt |-> 1, call |-> {}]
         /\ ReceiveDecision(g) =>
                /\ sensor' \in [Gate -> Sensor]
                /\ sensor'[g] = [sensor[g] EXCEPT !.at = "watching"]
         /\ Unavailable(g) =>
                /\ sensor' \in [Gate -> Sensor]
                /\ sensor'[g] = [sensor[g] EXCEPT !.at = AfterAttempt(sensor[g].attempt),
                                                 !.attempt = sensor[g].attempt + 1, !.call = {}]
         /\ SubmitThrows(g) =>
                /\ sensor' \in [Gate -> Sensor]
                /\ sensor'[g] = [sensor[g] EXCEPT !.at = "exited", !.call = {}]
         /\ (\E h \in Handler, t \in Instant : SubmitDetection(h, g, t)) \/ Sensing(g) =>
                \A k \in Gate : k # g => sensor'[k] = sensor[k]
<1>1. sensor \in [Gate -> Sensor]
  BY DEF TypeOK
<1>2. ASSUME NEW h \in Handler, NEW t \in Instant, SubmitDetection(h, g, t)
      PROVE  /\ sensor' \in [Gate -> Sensor]
             /\ sensor'[g] = [sensor[g] EXCEPT !.at = "calling", !.call = {h}]
             /\ \A k \in Gate : k # g => sensor'[k] = sensor[k]
  <2> DEFINE s == [sensor[g] EXCEPT !.at = "calling", !.call = {h}]
  <2>1. s \in Sensor
    BY <1>1 DEF Sensor
  <2>2. sensor' = [sensor EXCEPT ![g] = s]
    BY <1>1, <1>2 DEF SubmitDetection, Sensor
  <2>3. QED
    BY <2>1, <2>2, SensorSet
<1>3. ASSUME NEW f \in Frame, Observe(g, f)
      PROVE  /\ sensor' \in [Gate -> Sensor]
             /\ sensor'[g] = [at |-> "sending", id |-> sensor[g].id + 1, frame |-> f,
                              attempt |-> 1, call |-> {}]
             /\ \A k \in Gate : k # g => sensor'[k] = sensor[k]
  <2> DEFINE s == [at |-> "sending", id |-> sensor[g].id + 1, frame |-> f, attempt |-> 1, call |-> {}]
  <2>1. s \in Sensor
    BY <1>1 DEF Sensor
  <2>2. sensor' = [sensor EXCEPT ![g] = s]
    BY <1>3 DEF Observe
  <2>3. QED
    BY <2>1, <2>2, SensorSet
<1>4. ASSUME ReceiveDecision(g)
      PROVE  /\ sensor' \in [Gate -> Sensor]
             /\ sensor'[g] = [sensor[g] EXCEPT !.at = "watching"]
             /\ \A k \in Gate : k # g => sensor'[k] = sensor[k]
  <2> DEFINE s == [sensor[g] EXCEPT !.at = "watching"]
  <2>1. s \in Sensor
    BY <1>1 DEF Sensor
  <2>2. sensor' = [sensor EXCEPT ![g] = s]
    BY <1>1, <1>4 DEF ReceiveDecision, Sensor
  <2>3. QED
    BY <2>1, <2>2, SensorSet
<1>5. ASSUME Unavailable(g)
      PROVE  /\ sensor' \in [Gate -> Sensor]
             /\ sensor'[g] = [sensor[g] EXCEPT !.at = AfterAttempt(sensor[g].attempt),
                                              !.attempt = sensor[g].attempt + 1, !.call = {}]
             /\ \A k \in Gate : k # g => sensor'[k] = sensor[k]
  <2> DEFINE s == [sensor[g] EXCEPT !.at = AfterAttempt(sensor[g].attempt),
                                    !.attempt = sensor[g].attempt + 1, !.call = {}]
  <2>1. s \in Sensor
    <3>1. /\ AfterAttempt(sensor[g].attempt) \in {"exited", "sending"}
          /\ sensor[g].attempt + 1 \in Nat /\ sensor[g] \in Sensor
      BY <1>1 DEF Sensor, AfterAttempt
    <3>2. QED
      BY <3>1 DEF Sensor
  <2>2. sensor' = [sensor EXCEPT ![g] = s]
    BY <1>1, <1>5 DEF Unavailable, Sensor
  <2>3. QED
    BY <2>1, <2>2, SensorSet
<1>6. ASSUME SubmitThrows(g)
      PROVE  /\ sensor' \in [Gate -> Sensor]
             /\ sensor'[g] = [sensor[g] EXCEPT !.at = "exited", !.call = {}]
             /\ \A k \in Gate : k # g => sensor'[k] = sensor[k]
  <2> DEFINE s == [sensor[g] EXCEPT !.at = "exited", !.call = {}]
  <2>1. s \in Sensor
    BY <1>1 DEF Sensor
  <2>2. sensor' = [sensor EXCEPT ![g] = s]
    BY <1>1, <1>6 DEF SubmitThrows, Sensor
  <2>3. QED
    BY <2>1, <2>2, SensorSet
<1>7. QED
  BY <1>2, <1>3, <1>4, <1>5, <1>6 DEF Sensing

\* What is left of the budget.
LEMMA Spent ==
  ASSUME NEW b \in Remaining
  PROVE  /\ b.requests \in Nat /\ b.commands \in Nat
         /\ b.requests > 0 => [b EXCEPT !.requests = @ - 1] \in Remaining
         /\ b.frames > 0 => [b EXCEPT !.frames = @ - 1] \in Remaining
         /\ b.commands > 0 => [b EXCEPT !.commands = @ - 1] \in Remaining
         /\ b.edits > 0 => [b EXCEPT !.edits = @ - 1] \in Remaining
         /\ b.walks > 0 => [b EXCEPT !.walks = @ - 1] \in Remaining
         /\ b.restarts > 0 => [b EXCEPT !.restarts = @ - 1] \in Remaining
  BY DEF Remaining

\* The two calls that begin one.
LEMMA BeginSteps ==
  ASSUME TypeOK, WorkInv, NEW h \in Handler, NEW t \in Instant
  PROVE  /\ \A g \in Gate : SubmitDetection(h, g, t) =>
              \E guard \in BOOLEAN :
                Begun(h, "submit", <<sensor[g].id, sensor[g].attempt>>, sensor[g].frame, guard, t)
         /\ \A f \in Frame, guard \in BOOLEAN : Authorize(h, f, guard, t) =>
              Begun(h, "authorize", <<0, left.requests>>, f, guard, t)
<1>1. ASSUME NEW g \in Gate, SubmitDetection(h, g, t)
      PROVE  \E guard \in BOOLEAN :
               Begun(h, "submit", <<sensor[g].id, sensor[g].attempt>>, sensor[g].frame, guard, t)
  <2>1. sensor[g].frame \in Frame
    BY <1>1 DEF SubmitDetection, WorkInv
  <2>2. <<sensor[g].id, sensor[g].attempt>> \in Id /\ FALSE \in BOOLEAN
    BY DEF Id, Sensor, TypeOK
  <2>3. /\ Begin(h, "submit", <<sensor[g].id, sensor[g].attempt>>, sensor[g].frame, FALSE, t)
        /\ "submit" \in {"authorize", "submit"}
    BY <1>1 DEF SubmitDetection
  <2>4. PICK guard \in BOOLEAN :
          Begin(h, "submit", <<sensor[g].id, sensor[g].attempt>>, sensor[g].frame, guard, t)
    BY <2>2, <2>3, Zenon
  <2>5. QED
    BY <2>1, <2>2, <2>3, <2>4, BeginType
<1>2. ASSUME NEW f \in Frame, NEW guard \in BOOLEAN, Authorize(h, f, guard, t)
      PROVE  Begun(h, "authorize", <<0, left.requests>>, f, guard, t)
  <2>1. <<0, left.requests>> \in Id
    BY Spent DEF Id, TypeOK
  <2>2. Begin(h, "authorize", <<0, left.requests>>, f, guard, t) /\ "authorize" \in {"authorize", "submit"}
    BY <1>2 DEF Authorize
  <2>3. QED
    BY <2>1, <2>2, BeginType
<1>3. QED
  BY <1>1, <1>2

\* A step keeps the types, and what threads at work know.
LEMMA TypeStep ==
  ASSUME TypeOK, WorkInv, [Next]_vars
  PROVE  TypeOK' /\ WorkInv'
<1>1. /\ override \in [Gate -> Override] /\ epoch \in [Gate -> Nat]
      /\ req \in [Handler -> Request] /\ cmd \in [Operator -> Command]
      /\ sensor \in [Gate -> Sensor] /\ bus \in Seq(BusEvent)
      /\ left \in Remaining
  BY DEF TypeOK
<1>2. ASSUME NEW h \in Handler, NEW g \in Gate, NEW t \in Instant, SubmitDetection(h, g, t)
      PROVE  TypeOK' /\ WorkInv'
  <2>1. sensor[g].frame \in Frame /\ sensor[g].frame.gate \in Gate
    BY <1>2, FrameGate DEF SubmitDetection, WorkInv
  <2>3. /\ req' \in [Handler -> Request] /\ UNCHANGED <<override, epoch, cmd, bus>>
        /\ req'[h].frame = sensor[g].frame /\ \A k \in Handler : k # h => req'[k] = req[k]
    BY <1>2, BeginSteps DEF Begun
  <2>4. /\ sensor' \in [Gate -> Sensor]
        /\ sensor'[g] = [sensor[g] EXCEPT !.at = "calling", !.call = {h}]
        /\ \A k \in Gate : k # g => sensor'[k] = sensor[k]
    BY <1>2, SensorSteps
  <2>5. sensor'[g].at = "calling" /\ sensor'[g].frame = sensor[g].frame
    BY <1>1, <2>4 DEF Sensor
  <2>6. TypeOK'
    BY <1>1, <1>2, <2>3, <2>4 DEF TypeOK, SubmitDetection
  <2>7. WorkInv'
    BY <1>2, <2>1, <2>3, <2>4, <2>5 DEF WorkInv, SubmitDetection
  <2>8. QED
    BY <2>6, <2>7
<1>3. ASSUME NEW h \in Handler, NEW f \in Frame, NEW guard \in BOOLEAN, NEW t \in Instant,
             Authorize(h, f, guard, t)
      PROVE  TypeOK' /\ WorkInv'
  <2>1. f.gate \in Gate
    BY FrameGate
  <2>2. /\ req' \in [Handler -> Request] /\ UNCHANGED <<override, epoch, cmd, bus>>
        /\ req'[h].frame = f /\ \A k \in Handler : k # h => req'[k] = req[k]
    BY <1>3, BeginSteps DEF Begun
  <2>3. TypeOK'
    BY <1>1, <1>3, <2>2, Spent DEF TypeOK, Authorize
  <2>4. WorkInv'
    BY <1>3, <2>1, <2>2 DEF WorkInv, Authorize
  <2>5. QED
    BY <2>3, <2>4
<1>4. ASSUME NEW h \in Handler, NEW out \in Ruling, NEW next \in {"lookup", "decided"},
             req[h].at # "idle", Advance(h, out, next),
             UNCHANGED <<override, epoch, cmd, sensor, bus, left>>
      PROVE  TypeOK' /\ WorkInv'
  <2>1. /\ req' \in [Handler -> Request]
        /\ SameRequest(h) /\ \A k \in Handler : k # h => req'[k] = req[k]
    BY <1>4, AdvanceType
  <2>2. req'[h].frame = req[h].frame
    BY <2>1 DEF SameRequest
  <2>3. TypeOK'
    BY <1>1, <1>4, <2>1 DEF TypeOK
  <2>4. WorkInv'
    BY <1>4, <2>1, <2>2 DEF WorkInv
  <2>5. QED
    BY <2>3, <2>4
<1>5. ASSUME NEW h \in Handler, CheckBlocklist(h)
      PROVE  TypeOK' /\ WorkInv'
  BY <1>4, <1>5, RulingType DEF CheckBlocklist
<1>6. ASSUME NEW h \in Handler, Lookup(h)
      PROVE  TypeOK' /\ WorkInv'
  BY <1>4, <1>6, RulingType DEF Lookup
<1>7. ASSUME NEW h \in Handler, NEW e \in BusEvent, bus' = Append(bus, e), Finish(h),
             UNCHANGED <<override, epoch, cmd, left>>
      PROVE  TypeOK' /\ WorkInv'
  <2>1. bus' \in Seq(BusEvent)
    BY <1>7, Published
  <2>2. /\ req' \in [Handler -> Request] /\ sensor' \in [Gate -> Sensor]
        /\ req'[h] = IdleRequest /\ \A k \in Handler : k # h => req'[k] = req[k]
        /\ \A g \in Gate :
              /\ sensor'[g].id = sensor[g].id /\ sensor'[g].frame = sensor[g].frame
              /\ sensor'[g].attempt = sensor[g].attempt
              /\ h \in sensor[g].call => sensor'[g].at = "answered" /\ sensor'[g].call = {}
              /\ h \notin sensor[g].call => sensor'[g] = sensor[g]
    BY <1>7, FinishType
  <2>3. IdleRequest.at = "idle"
    BY DEF IdleRequest
  <2>4. TypeOK'
    BY <1>1, <1>7, <2>1, <2>2 DEF TypeOK
  <2>5. WorkInv'
    BY <1>7, <2>2, <2>3 DEF WorkInv
  <2>6. QED
    BY <2>4, <2>5
<1>8. ASSUME NEW h \in Handler, PublishDecision(h)
      PROVE  TypeOK' /\ WorkInv'
  <2> DEFINE e == Event("decision", req[h].frame.gate, req[h].id, req[h].out.verdict, 0)
  <2>1. e \in BusEvent /\ bus' = Append(bus, e) /\ UNCHANGED <<override, epoch, cmd, left>>
    BY <1>8, EventTypes DEF PublishDecision
  <2>2. CASE ~Opens(req[h])
    BY <1>7, <1>8, <2>1, <2>2 DEF PublishDecision
  <2>3. CASE Opens(req[h])
    <3>1. bus' \in Seq(BusEvent)
      BY <2>1, Published
    <3>2. req' = [req EXCEPT ![h].at = "open"] /\ UNCHANGED <<seen, sensor>>
      BY <1>8, <2>3 DEF PublishDecision
    <3>3. /\ req' \in [Handler -> Request]
          /\ \A k \in Handler : req'[k].frame = req[k].frame /\ (k # h => req'[k] = req[k])
      BY <1>1, <3>2, OpenType
    <3>4. TypeOK'
      BY <1>1, <2>1, <3>1, <3>2, <3>3 DEF TypeOK
    <3>5. WorkInv'
      BY <1>8, <2>1, <3>2, <3>3 DEF WorkInv, PublishDecision
    <3>6. QED
      BY <3>4, <3>5
  <2>4. QED
    BY <2>2, <2>3
<1>9. ASSUME NEW h \in Handler, PublishOpen(h)
      PROVE  TypeOK' /\ WorkInv'
  <2>1. Event("auto", req[h].frame.gate, req[h].id, "OPEN_GATE", 0) \in BusEvent
    BY <1>9, EventTypes DEF PublishOpen
  <2>2. QED
    BY <1>7, <1>9, <2>1 DEF PublishOpen
<1>10. ASSUME NEW g \in Gate, Sensing(g)
      PROVE  TypeOK' /\ WorkInv'
  <2>1. /\ sensor' \in [Gate -> Sensor]
        /\ \A k \in Gate : k # g => sensor'[k] = sensor[k]
        /\ sensor'[g].call # {} => sensor'[g].at = "calling"
        /\ sensor'[g].at \in {"sending", "calling", "answered"} =>
             sensor'[g].frame \in Frame /\ sensor'[g].frame.gate = g
    <3>1. \A k \in Gate : k # g => sensor'[k] = sensor[k]
      BY <1>10, SensorSteps
    <3>2. ASSUME NEW f \in Frame, Observe(g, f)
          PROVE  /\ sensor' \in [Gate -> Sensor]
                 /\ sensor'[g].call # {} => sensor'[g].at = "calling"
                 /\ sensor'[g].at \in {"sending", "calling", "answered"} =>
                      sensor'[g].frame \in Frame /\ sensor'[g].frame.gate = g
      BY <3>2, SensorSteps DEF Observe
    <3>3. ASSUME ReceiveDecision(g)
          PROVE  /\ sensor' \in [Gate -> Sensor]
                 /\ sensor'[g].call # {} => sensor'[g].at = "calling"
                 /\ sensor'[g].at \in {"sending", "calling", "answered"} =>
                      sensor'[g].frame \in Frame /\ sensor'[g].frame.gate = g
      <4>1. sensor' \in [Gate -> Sensor] /\ sensor'[g] = [sensor[g] EXCEPT !.at = "watching"]
        BY <3>3, SensorSteps
      <4>2. sensor[g].at = "answered" /\ sensor[g].call = {}
        BY <3>3 DEF ReceiveDecision, WorkInv
      <4>3. sensor'[g].at = "watching" /\ sensor'[g].call = {}
        BY <1>1, <4>1, <4>2 DEF Sensor
      <4>4. QED
        BY <4>1, <4>3
    <3>4. ASSUME Unavailable(g)
          PROVE  /\ sensor' \in [Gate -> Sensor]
                 /\ sensor'[g].call # {} => sensor'[g].at = "calling"
                 /\ sensor'[g].at \in {"sending", "calling", "answered"} =>
                      sensor'[g].frame \in Frame /\ sensor'[g].frame.gate = g
      <4>1. /\ sensor' \in [Gate -> Sensor]
            /\ sensor'[g] = [sensor[g] EXCEPT !.at = AfterAttempt(sensor[g].attempt),
                                             !.attempt = sensor[g].attempt + 1, !.call = {}]
        BY <3>4, SensorSteps
      <4>2. sensor'[g].frame = sensor[g].frame /\ sensor'[g].call = {}
        BY <1>1, <4>1 DEF Sensor
      <4>3. QED
        BY <3>4, <4>1, <4>2 DEF Unavailable, WorkInv
    <3>5. ASSUME SubmitThrows(g)
          PROVE  /\ sensor' \in [Gate -> Sensor]
                 /\ sensor'[g].call # {} => sensor'[g].at = "calling"
                 /\ sensor'[g].at \in {"sending", "calling", "answered"} =>
                      sensor'[g].frame \in Frame /\ sensor'[g].frame.gate = g
      <4>1. /\ sensor' \in [Gate -> Sensor]
            /\ sensor'[g] = [sensor[g] EXCEPT !.at = "exited", !.call = {}]
        BY <3>5, SensorSteps
      <4>2. sensor'[g].at = "exited" /\ sensor'[g].call = {}
        BY <1>1, <4>1 DEF Sensor
      <4>3. QED
        BY <4>1, <4>2
    <3>6. QED
      BY <1>10, <3>1, <3>2, <3>3, <3>4, <3>5 DEF Sensing
  <2>2. /\ UNCHANGED <<override, epoch, req, cmd, bus>>
        /\ left' \in Remaining
    BY <1>1, <1>10, Spent DEF Sensing, Observe, ReceiveDecision, Unavailable, SubmitThrows
  <2>3. TypeOK'
    BY <1>1, <2>1, <2>2 DEF TypeOK
  <2>4. WorkInv'
    BY <2>1, <2>2 DEF WorkInv
  <2>5. QED
    BY <2>3, <2>4
<1>11. ASSUME NEW o \in Operator, NEW g \in Gate, NEW k \in Kind, IssueCommand(o, g, k)
      PROVE  TypeOK' /\ WorkInv'
  <2>1. override' \in [Gate -> Override] /\ epoch' \in [Gate -> Nat]
    <3>1. SetsOverride(k) => LatchedBy(k) \in Override
      BY DEF SetsOverride, Latch, LatchedBy, Override
    <3>2. QED
      <4>1. CASE SetsOverride(k)
        <5>1. /\ override' = [override EXCEPT ![g] = LatchedBy(k)]
              /\ epoch' = [epoch EXCEPT ![g] = epoch[g] + 1]
          BY <1>11, <4>1 DEF IssueCommand
        <5>2. epoch[g] + 1 \in Nat
          BY <1>1
        <5>3. QED
          BY <1>1, <3>1, <4>1, <5>1, <5>2
      <4>2. CASE ~SetsOverride(k)
        BY <1>1, <1>11, <4>2 DEF IssueCommand
      <4>3. QED
        BY <4>1, <4>2
  <2> DEFINE c == [at |-> "command", id |-> <<0, left.commands>>, gate |-> g, kind |-> k,
                   epoch |-> epoch'[g]]
  <2>2. c \in Command
    BY <1>1, <2>1, Spent DEF Command, Id
  <2>3. cmd' = [cmd EXCEPT ![o] = c]
    BY <1>11 DEF IssueCommand
  <2>4. cmd' \in [Operator -> Command] /\ cmd'[o] = c /\ \A x \in Operator : x # o => cmd'[x] = cmd[x]
    BY <2>2, <2>3, CommandSet
  <2>5. TypeOK'
    BY <1>1, <1>11, <2>1, <2>4, Spent DEF TypeOK, IssueCommand
  <2>6. WorkInv'
    BY <1>11, <2>4 DEF WorkInv, IssueCommand
  <2>7. QED
    BY <2>5, <2>6
<1>12. ASSUME NEW o \in Operator, PublishCommand(o)
      PROVE  TypeOK' /\ WorkInv'
  <2>1. bus' \in Seq(BusEvent)
    BY <1>12, EventTypes, Published DEF PublishCommand
  <2>2. /\ cmd' \in [Operator -> Command]
        /\ \A x \in Operator : cmd'[x].gate = cmd[x].gate /\ cmd'[x].kind = cmd[x].kind
                               /\ (x # o => cmd'[x] = cmd[x])
    BY <1>1, <1>12 DEF PublishCommand, Command
  <2>3. TypeOK'
    BY <1>1, <1>12, <2>1, <2>2 DEF TypeOK, PublishCommand
  <2>4. WorkInv'
    BY <1>12, <2>2 DEF WorkInv, PublishCommand
  <2>5. QED
    BY <2>3, <2>4
<1>13. ASSUME NEW o \in Operator, PublishAck(o)
      PROVE  TypeOK' /\ WorkInv'
  <2>1. bus' \in Seq(BusEvent)
    BY <1>13, EventTypes, Published DEF PublishAck
  <2>2. cmd' \in [Operator -> Command] /\ cmd'[o] = IdleCommand
         /\ \A x \in Operator : x # o => cmd'[x] = cmd[x]
    BY <1>13, CommandSet, IdleType DEF PublishAck
  <2>3. IdleCommand.at = "idle"
    BY DEF IdleCommand
  <2>4. TypeOK'
    BY <1>1, <1>13, <2>1, <2>2 DEF TypeOK, PublishAck
  <2>5. WorkInv'
    BY <1>13, <2>2, <2>3 DEF WorkInv, PublishAck
  <2>6. QED
    BY <2>4, <2>5
<1>14. CASE AdminEdit
  BY <1>1, <1>14, Spent DEF AdminEdit, TypeOK, WorkInv
<1>15. CASE AdminStartsListing
  BY <1>1, <1>15, Spent DEF AdminStartsListing, TypeOK, WorkInv
<1>16. CASE AdminLists
  BY <1>1, <1>16 DEF AdminLists, TypeOK, WorkInv
<1>17. CASE Restart
  <2>1. req' \in [Handler -> Request] /\ \A h \in Handler : req'[h].at = "idle"
    BY <1>17, IdleType DEF Restart, IdleRequest
  <2>2. cmd' \in [Operator -> Command] /\ \A o \in Operator : cmd'[o].at = "idle"
    BY <1>17, IdleType DEF Restart, IdleCommand
  <2>3. /\ sensor' \in [Gate -> Sensor]
        /\ \A g \in Gate : /\ sensor'[g].at = sensor[g].at /\ sensor'[g].frame = sensor[g].frame
                           /\ sensor'[g].call = {}
    BY <1>1, <1>17 DEF Restart, Sensor
  <2>4. /\ override' \in [Gate -> Override] /\ epoch' \in [Gate -> Nat] /\ UNCHANGED bus
        /\ left' \in Remaining
    <3>1. override' = [g \in Gate |-> "none"] /\ epoch' = [g \in Gate |-> epoch[g] + 1] /\ UNCHANGED bus
      BY <1>17 DEF Restart
    <3>2. "none" \in Override /\ \A g \in Gate : epoch[g] + 1 \in Nat
      BY <1>1 DEF Override
    <3>3. left' \in Remaining
      BY <1>1, <1>17, Spent DEF Restart
    <3>4. QED
      BY <3>1, <3>2, <3>3
  <2>5. TypeOK'
    BY <1>1, <2>1, <2>2, <2>3, <2>4 DEF TypeOK
  <2>6. WorkInv'
    BY <2>1, <2>2, <2>3 DEF WorkInv
  <2>7. QED
    BY <2>5, <2>6
<1>18. CASE UNCHANGED vars
  BY <1>1, <1>18 DEF vars, TypeOK, WorkInv
<1>19. QED
  BY <1>2, <1>3, <1>5, <1>6, <1>8, <1>9, <1>10, <1>11, <1>12, <1>13, <1>14, <1>15, <1>16, <1>17, <1>18
  DEF Next, Deciding, Commanding

-----------------------------------------------------------------------------
(* Latches.                                                                *)

\* A request knows the override it read, and how old that is; one that read a
\* lockdown has been turned away.
ReadInv ==
  \A h \in Handler :
    req[h].at # "idle" =>
      /\ req[h].epoch <= epoch[req[h].frame.gate]
      /\ req[h].epoch = epoch[req[h].frame.gate] => req[h].read = override[req[h].frame.gate]
      /\ req[h].read = "force_close" => req[h].at = "decided" /\ req[h].out = Denied("FORCE_CLOSE")
      /\ req[h].at = "open" => req[h].out = Authorized

\* A latch that is written and not yet announced is in force, or a newer one is.
WrittenInv ==
  \A o \in Operator :
    cmd[o].at = "command" /\ cmd[o].kind \in Latch =>
      /\ cmd[o].epoch <= epoch[cmd[o].gate]
      /\ cmd[o].epoch = epoch[cmd[o].gate] => override[cmd[o].gate] = LatchedBy(cmd[o].kind)

LatchInv == ReadInv /\ WrittenInv /\ LatchIsInForce

\* The rulings that matter here are different, and a lockdown rules first.
LEMMA LockdownRuling ==
  /\ Denied("FORCE_CLOSE") # Authorized /\ Denied("FORCE_CLOSE") # Undecided
  /\ \A f : BeforeTables(f, "force_close") = Denied("FORCE_CLOSE")
  BY DEF Denied, Authorized, Undecided, Outcome, BeforeTables

\* Nothing is published and nothing is latched: only what the requests know can change.
LEMMA ReadStep ==
  ASSUME TypeOK, LatchInv, UNCHANGED <<override, epoch, cmd, bus>>, ReadInv'
  PROVE  LatchInv'
  BY DEF LatchInv, WrittenInv, LatchIsInForce, IsLatch

\* An event that is not a command joins the bus.
LEMMA LatchPublished ==
  ASSUME TypeOK, LatchInv, UNCHANGED <<override, epoch, cmd>>, NEW e \in BusEvent,
         bus' = Append(bus, e), e.type # "command", ReadInv'
  PROVE  LatchInv'
<1>1. WrittenInv'
  BY DEF LatchInv, WrittenInv
<1>2. LatchIsInForce'
  <2>1. /\ \A i \in DOMAIN bus : i \in DOMAIN bus' /\ bus'[i] = bus[i]
        /\ \A i \in DOMAIN bus' : i \in DOMAIN bus \/ bus'[i] = e
    BY Published
  <2>2. QED
    BY <2>1 DEF LatchInv, LatchIsInForce, IsLatch
<1>3. QED
  BY <1>1, <1>2 DEF LatchInv

\* A step keeps what the threads know of the latches.
LEMMA LatchStep ==
  ASSUME TypeOK, WorkInv, LatchInv, [Next]_vars
  PROVE  LatchInv'
<1>1. /\ override \in [Gate -> Override] /\ epoch \in [Gate -> Nat]
      /\ req \in [Handler -> Request] /\ cmd \in [Operator -> Command]
  BY DEF TypeOK
<1>2. ASSUME NEW h \in Handler, NEW rpc, NEW id, NEW f \in Frame, NEW guard, NEW t,
             Begun(h, rpc, id, f, guard, t)
      PROVE  LatchInv'
  <2>1. epoch[f.gate] \in Nat
    BY <1>1, FrameGate
  <2>2. req'[h].epoch <= epoch[f.gate] /\ req'[h].at # "open"
    BY <1>2, <2>1 DEF Begun
  <2>3. req'[h].read = "force_close" => req'[h].at = "decided" /\ req'[h].out = Denied("FORCE_CLOSE")
    BY <1>2, LockdownRuling DEF Begun
  <2>4. ReadInv'
    BY <1>2, <2>2, <2>3 DEF Begun, LatchInv, ReadInv
  <2>5. QED
    BY <1>2, <2>4, ReadStep DEF Begun
<1>3. ASSUME NEW h \in Handler, NEW out \in Ruling, NEW next \in {"lookup", "decided"},
             req[h].at \in {"blocklist", "lookup"}, Advance(h, out, next),
             UNCHANGED <<override, epoch, cmd, sensor, bus, left>>
      PROVE  LatchInv'
  <2>1. /\ SameRequest(h) /\ req'[h].at # "open"
        /\ \A k \in Handler : k # h => req'[k] = req[k]
    BY <1>3, AdvanceType
  <2>2. req[h].read # "force_close"
    BY <1>3 DEF LatchInv, ReadInv
  <2>3. ReadInv'
    BY <1>3, <2>1, <2>2 DEF LatchInv, ReadInv, SameRequest
  <2>4. QED
    BY <1>3, <2>3, ReadStep
<1>4. ASSUME NEW h \in Handler, NEW e \in BusEvent, bus' = Append(bus, e), e.type # "command",
             Finish(h), UNCHANGED <<override, epoch, cmd, left>>
      PROVE  LatchInv'
  <2>1. req'[h].at = "idle" /\ \A k \in Handler : k # h => req'[k] = req[k]
    BY <1>4, FinishType DEF IdleRequest
  <2>2. ReadInv'
    BY <1>4, <2>1 DEF LatchInv, ReadInv
  <2>3. QED
    BY <1>4, <2>2, LatchPublished
<1>5. ASSUME NEW h \in Handler, PublishDecision(h)
      PROVE  LatchInv'
  <2> DEFINE e == Event("decision", req[h].frame.gate, req[h].id, req[h].out.verdict, 0)
  <2>1. /\ e \in BusEvent /\ bus' = Append(bus, e) /\ UNCHANGED <<override, epoch, cmd, left>>
        /\ e.type # "command"
    BY <1>5, EventTypes DEF PublishDecision, Event
  <2>2. CASE ~Opens(req[h])
    BY <1>4, <1>5, <2>1, <2>2 DEF PublishDecision
  <2>3. CASE Opens(req[h])
    <3>1. /\ req'[h] = [req[h] EXCEPT !.at = "open"]
          /\ \A k \in Handler : k # h => req'[k] = req[k]
      BY <1>5, <2>3, OpenType DEF PublishDecision
    <3>2. /\ SameRequest(h) /\ req'[h].out = req[h].out /\ req'[h].at = "open"
      BY <1>1, <3>1 DEF Request, SameRequest
    <3>3. req[h].out = Authorized /\ req[h].at = "decided"
      BY <1>5, <2>3 DEF Opens, PublishDecision
    <3>4. req[h].read # "force_close"
      BY <3>3, LockdownRuling DEF LatchInv, ReadInv
    <3>5. ReadInv'
      <4>1. ReadInv
        BY DEF LatchInv
      <4>2. UNCHANGED <<override, epoch>>
        BY <2>1
      <4> HIDE DEF e
      <4>3. \A k \in Handler : k # h => req'[k] = req[k]
        BY <3>1
      <4>4. QED
        BY <3>2, <3>3, <3>4, <4>1, <4>2, <4>3 DEF ReadInv, SameRequest
    <3>6. QED
      BY <2>1, <3>5, LatchPublished
  <2>4. QED
    BY <2>2, <2>3
<1>6. ASSUME NEW h \in Handler, PublishOpen(h)
      PROVE  LatchInv'
  <2> DEFINE e == Event("auto", req[h].frame.gate, req[h].id, "OPEN_GATE", 0)
  <2>1. e \in BusEvent /\ e.type # "command"
    BY <1>6, EventTypes DEF PublishOpen, Event
  <2>2. QED
    BY <1>4, <1>6, <2>1 DEF PublishOpen
<1>7. ASSUME UNCHANGED <<override, epoch, req, cmd, bus>>
      PROVE  LatchInv'
  <2>1. ReadInv'
    BY <1>7 DEF LatchInv, ReadInv
  <2>2. QED
    BY <1>7, <2>1, ReadStep
<1>8. ASSUME NEW o \in Operator, NEW g \in Gate, NEW k \in Kind, IssueCommand(o, g, k)
      PROVE  LatchInv'
  <2>1. /\ cmd'[o].gate = g /\ cmd'[o].kind = k /\ cmd'[o].epoch = epoch'[g]
        /\ \A x \in Operator : x # o => cmd'[x] = cmd[x]
        /\ UNCHANGED <<req, bus>>
    BY <1>1, <1>8 DEF IssueCommand
  <2>2. CASE SetsOverride(k)
    <3>1. /\ \A x \in Gate : x # g => override'[x] = override[x] /\ epoch'[x] = epoch[x]
          /\ override'[g] = LatchedBy(k) /\ epoch'[g] = epoch[g] + 1
          /\ epoch[g] \in Nat
      BY <1>1, <1>8, <2>2 DEF IssueCommand
    <3>2. ReadInv'
      <4>1. ASSUME NEW h \in Handler, req[h].at # "idle"
            PROVE  req[h].epoch \in Nat /\ req[h].frame.gate \in Gate /\ epoch[req[h].frame.gate] \in Nat
        BY <1>1, <4>1 DEF Request, WorkInv
      <4>2. QED
        BY <2>1, <3>1, <4>1 DEF LatchInv, ReadInv
    <3>3. WrittenInv'
      <4>1. ASSUME NEW x \in Operator, cmd[x].at # "idle"
            PROVE  cmd[x].epoch \in Nat /\ cmd[x].gate \in Gate /\ epoch[cmd[x].gate] \in Nat
        BY <1>1, <4>1 DEF Command, WorkInv
      <4>2. QED
        BY <2>1, <3>1, <4>1 DEF LatchInv, WrittenInv
    <3>4. LatchIsInForce'
      <4>1. ASSUME NEW i \in DOMAIN bus
            PROVE  bus[i].epoch \in Nat /\ bus[i].gate \in Gate /\ epoch[bus[i].gate] \in Nat
        BY OnBus
      <4>2. QED
        BY <2>1, <3>1, <4>1 DEF LatchInv, LatchIsInForce, IsLatch
    <3>5. QED
      BY <3>2, <3>3, <3>4 DEF LatchInv
  <2>3. CASE ~SetsOverride(k)
    <3>1. UNCHANGED <<override, epoch>> /\ k \notin Latch
      BY <1>8, <2>3 DEF IssueCommand, SetsOverride
    <3>2. QED
      BY <2>1, <3>1 DEF LatchInv, ReadInv, WrittenInv, LatchIsInForce, IsLatch
  <2>4. QED
    BY <2>2, <2>3
<1>9. ASSUME NEW o \in Operator, PublishCommand(o)
      PROVE  LatchInv'
  <2> DEFINE e == Event("command", cmd[o].gate, cmd[o].id, cmd[o].kind, cmd[o].epoch)
  <2>1. e \in BusEvent /\ bus' = Append(bus, e) /\ UNCHANGED <<override, epoch, req>>
    BY <1>9, EventTypes DEF PublishCommand
  <2>2. /\ cmd'[o].at = "ack" /\ \A x \in Operator : x # o => cmd'[x] = cmd[x]
    BY <1>1, <1>9 DEF PublishCommand, Command
  <2>3. ReadInv' /\ WrittenInv'
    BY <2>1, <2>2 DEF LatchInv, ReadInv, WrittenInv
  <2>4. /\ \A i \in DOMAIN bus : i \in DOMAIN bus' /\ bus'[i] = bus[i]
        /\ \A i \in DOMAIN bus' : i \in DOMAIN bus \/ bus'[i] = e
    BY <2>1, Published
  <2>5. e.gate = cmd[o].gate /\ e.kind = cmd[o].kind /\ e.epoch = cmd[o].epoch /\ cmd[o].at = "command"
    BY <1>9 DEF Event, PublishCommand
  <2>6. LatchIsInForce'
    BY <2>1, <2>4, <2>5 DEF LatchInv, LatchIsInForce, WrittenInv, IsLatch
  <2>7. QED
    BY <2>3, <2>6 DEF LatchInv
<1>10. ASSUME NEW o \in Operator, PublishAck(o)
      PROVE  LatchInv'
  <2> DEFINE e == Event("ack", cmd[o].gate, cmd[o].id, cmd[o].kind, 0)
  <2>1. e \in BusEvent /\ bus' = Append(bus, e) /\ UNCHANGED <<override, epoch, req>> /\ e.type = "ack"
    BY <1>10, EventTypes DEF PublishAck, Event
  <2>2. /\ cmd'[o].at = "idle" /\ \A x \in Operator : x # o => cmd'[x] = cmd[x]
    BY <1>1, <1>10 DEF PublishAck, IdleCommand
  <2>3. ReadInv' /\ WrittenInv'
    BY <2>1, <2>2 DEF LatchInv, ReadInv, WrittenInv
  <2>4. /\ \A i \in DOMAIN bus : i \in DOMAIN bus' /\ bus'[i] = bus[i]
        /\ \A i \in DOMAIN bus' : i \in DOMAIN bus \/ bus'[i] = e
    BY <2>1, Published
  <2>5. LatchIsInForce'
    BY <2>1, <2>4 DEF LatchInv, LatchIsInForce, IsLatch
  <2>6. QED
    BY <2>3, <2>5 DEF LatchInv
<1>11. CASE Restart
  <2>1. /\ \A h \in Handler : req'[h].at = "idle"
        /\ \A o \in Operator : cmd'[o].at = "idle"
        /\ \A g \in Gate : epoch'[g] = epoch[g] + 1
        /\ UNCHANGED bus
    BY <1>11 DEF Restart, IdleRequest, IdleCommand
  <2>2. ReadInv' /\ WrittenInv'
    BY <2>1 DEF ReadInv, WrittenInv
  <2>3. LatchIsInForce'
    <3>1. ASSUME NEW i \in DOMAIN bus
          PROVE  bus[i].epoch \in Nat /\ bus[i].gate \in Gate /\ epoch[bus[i].gate] \in Nat
      BY OnBus
    <3>2. QED
      BY <2>1, <3>1 DEF LatchInv, LatchIsInForce, IsLatch
  <2>4. QED
    BY <2>2, <2>3 DEF LatchInv
<1>12. ASSUME NEW h \in Handler, Deciding(h)
       PROVE  LatchInv'
  <2>1. ASSUME NEW g \in Gate, NEW t \in Instant, SubmitDetection(h, g, t)
        PROVE  LatchInv'
    <3>1. sensor[g].frame \in Frame
      BY <2>1 DEF SubmitDetection, WorkInv
    <3>2. PICK guard \in BOOLEAN :
            Begun(h, "submit", <<sensor[g].id, sensor[g].attempt>>, sensor[g].frame, guard, t)
      BY <2>1, BeginSteps
    <3>3. QED
      BY <1>2, <3>1, <3>2
  <2>2. ASSUME NEW f \in Frame, NEW guard \in BOOLEAN, NEW t \in Instant, Authorize(h, f, guard, t)
        PROVE  LatchInv'
    BY <1>2, <2>2, BeginSteps
  <2>3. CASE CheckBlocklist(h)
    BY <1>3, <2>3, RulingType DEF CheckBlocklist
  <2>4. CASE Lookup(h)
    BY <1>3, <2>4, RulingType DEF Lookup
  <2>5. QED
    BY <1>5, <1>6, <1>12, <2>1, <2>2, <2>3, <2>4 DEF Deciding
<1>13. CASE AdminEdit \/ AdminStartsListing \/ AdminLists \/ UNCHANGED vars
  BY <1>7, <1>13 DEF AdminEdit, AdminStartsListing, AdminLists, vars
<1>14. ASSUME NEW g \in Gate, Sensing(g)
       PROVE  LatchInv'
  BY <1>7, <1>14 DEF Sensing, Observe, ReceiveDecision, Unavailable, SubmitThrows
<1>15. QED
  BY <1>8, <1>9, <1>10, <1>11, <1>12, <1>13, <1>14 DEF Next, Commanding

\* The types and the latches of a server that starts.
LEMMA InitType == Init => TypeOK /\ WorkInv /\ LatchInv
<1> SUFFICES ASSUME Init PROVE TypeOK /\ WorkInv /\ LatchInv
  OBVIOUS
<1>1. /\ \A h \in Handler : req[h].at = "idle"
      /\ \A o \in Operator : cmd[o].at = "idle"
      /\ \A g \in Gate : sensor[g].at = "watching" /\ sensor[g].call = {}
      /\ bus = <<>>
  BY DEF Init, IdleRequest, IdleCommand, NewSensor
<1>2. TypeOK
  <2>1. left \in Remaining
    BY AccessAssumption DEF Init, Remaining
  <2>2. override \in [Gate -> Override] /\ epoch \in [Gate -> Nat]
    BY DEF Init, Override
  <2>3. bus \in Seq(BusEvent)
    BY <1>1
  <2>4. QED
    BY <2>1, <2>2, <2>3, IdleType DEF Init, TypeOK
<1>3. WorkInv
  BY <1>1 DEF WorkInv
<1>4. LatchInv
  BY <1>1 DEF LatchInv, ReadInv, WrittenInv, LatchIsInForce
<1>5. QED
  BY <1>2, <1>3, <1>4

\* Latches hold with any number of operators, handlers and gates, whatever happens to
\* the server in between: while a gate is force-closed only a request that read the
\* override before that can still send it an OPEN_GATE, and a latch command on the bus
\* is in force unless a newer one is (decide, set_override, IssueCommand).
THEOREM LatchesCorrect == Spec => []LatchesHold
<1>1. Init => TypeOK /\ WorkInv /\ LatchInv
  BY InitType
<1>2. TypeOK /\ WorkInv /\ LatchInv /\ [Next]_vars => TypeOK' /\ WorkInv' /\ LatchInv'
  BY TypeStep, LatchStep
<1>3. TypeOK /\ WorkInv /\ LatchInv => LatchesHold
  <2> SUFFICES ASSUME TypeOK, WorkInv, LatchInv PROVE LatchesHold
    OBVIOUS
  <2>1. ASSUME NEW h \in Handler, req[h].at = "open", override[req[h].frame.gate] = "force_close"
        PROVE  req[h].epoch < epoch[req[h].frame.gate]
    <3>1. req[h].read # "force_close" /\ req[h].epoch <= epoch[req[h].frame.gate]
          /\ (req[h].epoch = epoch[req[h].frame.gate] => req[h].read = override[req[h].frame.gate])
      BY <2>1 DEF LatchInv, ReadInv
    <3>2. req[h].epoch \in Nat /\ req[h].frame.gate \in Gate /\ epoch[req[h].frame.gate] \in Nat
      BY <2>1 DEF TypeOK, WorkInv, Request
    <3>3. QED
      BY <2>1, <3>1, <3>2
  <2>2. QED
    BY <2>1 DEF LatchesHold, LockdownHolds, LatchInv
<1>4. QED
  BY <1>1, <1>2, <1>3, PTL DEF Spec

-----------------------------------------------------------------------------
(* The audit trail.                                                        *)

Submitted(r) == r.at # "idle" /\ r.rpc = "submit"

\* An attempt a daemon has made.
Used(s, id) ==
  /\ id[2] \in 1..MaxAttempts
  /\ id[1] \in 1..s.id
  /\ id[1] = s.id => id[2] < s.attempt \/ (id[2] = s.attempt /\ s.at # "sending")

DecidedIn(b, g, n) ==
  \E i \in DOMAIN b : b[i].type = "decision" /\ b[i].gate = g /\ b[i].id[1] = n

\* Each attempt is with one handler, or has had its say on the bus.
AttemptUsed == \A h \in Handler : Submitted(req[h]) => Used(sensor[req[h].frame.gate], req[h].id)

AttemptOnce ==
  \A h, k \in Handler :
    /\ Submitted(req[h]) /\ Submitted(req[k])
    /\ req[h].frame.gate = req[k].frame.gate /\ req[h].id = req[k].id
    => h = k

AttemptOver ==
  \A i \in DOMAIN bus :
    bus[i].type = "auto" =>
      /\ Used(sensor[bus[i].gate], bus[i].id)
      /\ \A h \in Handler :
           Submitted(req[h]) => req[h].frame.gate # bus[i].gate \/ req[h].id # bus[i].id

\* What is about to be published has what must come before it on the bus.
OpenInv ==
  \A h \in Handler :
    req[h].at = "open" =>
      /\ req[h].rpc = "submit"
      /\ \E j \in DOMAIN bus :
           bus[j] = Event("decision", req[h].frame.gate, req[h].id, "AUTHORIZED", 0)

AckInv ==
  \A o \in Operator :
    cmd[o].at = "ack" => \E j \in DOMAIN bus : bus[j].type = "command" /\ bus[j].id = cmd[o].id

\* The daemon waits for its own attempt, and has an answer only to one that was
\* decided.
Waits(g) ==
  /\ sensor[g].at \in {"sending", "calling", "answered"} =>
       sensor[g].attempt \in 1..MaxAttempts /\ sensor[g].id > 0
  /\ \A h \in sensor[g].call :
       /\ sensor[g].at = "calling" /\ Submitted(req[h])
       /\ req[h].frame.gate = g /\ req[h].id = <<sensor[g].id, sensor[g].attempt>>
  /\ sensor[g].at = "answered" => DecidedIn(bus, g, sensor[g].id)
  /\ \A n \in 1..sensor[g].id :
       n < sensor[g].id \/ sensor[g].at = "watching" => DecidedIn(bus, g, n)

SensorInv == \A g \in Gate : Waits(g)

\* What the bus already shows, without the requests.
AutoInv ==
  \A i \in DOMAIN bus :
    bus[i].type = "auto" =>
      /\ \E j \in 1..(i - 1) : bus[j] = Event("decision", bus[i].gate, bus[i].id, "AUTHORIZED", 0)
      /\ \A j \in DOMAIN bus :
           bus[j].type = "auto" /\ bus[j].gate = bus[i].gate /\ bus[j].id = bus[i].id => j = i

ReceiptInv ==
  \A i \in DOMAIN bus :
    bus[i].type = "ack" =>
      \E j \in 1..(i - 1) : bus[j].type = "command" /\ bus[j].id = bus[i].id

TrailInv ==
  /\ AttemptUsed /\ AttemptOnce /\ AttemptOver
  /\ OpenInv /\ AckInv /\ SensorInv /\ AutoInv /\ ReceiptInv

\* How far a daemon can get in a step.
Ages ==
  \A g \in Gate :
    \/ /\ sensor'[g].id = sensor[g].id /\ sensor'[g].attempt = sensor[g].attempt
       /\ sensor'[g].at = "sending" => sensor[g].at = "sending"
    \/ sensor'[g].id = sensor[g].id /\ sensor'[g].attempt = sensor[g].attempt + 1
    \/ sensor'[g].id = sensor[g].id + 1

BusKept == \A i \in DOMAIN bus : i \in DOMAIN bus' /\ bus'[i] = bus[i]

\* Events stay, and so do the attempts made and the frames decided.
LEMMA Stays ==
  ASSUME TypeOK, NEW g \in Gate
  PROVE  /\ Ages => \A id \in Id : Used(sensor[g], id) => Used(sensor'[g], id)
         /\ BusKept => \A n : DecidedIn(bus, g, n) => DecidedIn(bus', g, n)
<1>1. sensor[g].id \in Nat /\ sensor[g].attempt \in Nat
  BY DEF TypeOK, Sensor
<1>2. ASSUME Ages, NEW id \in Id, Used(sensor[g], id)
      PROVE  Used(sensor'[g], id)
  <2>1. id[1] \in Nat /\ id[2] \in Nat /\ MaxAttempts \in Nat
    BY AccessAssumption DEF Id
  <2>2. /\ id[2] \in 1..MaxAttempts /\ id[1] \in 1..sensor[g].id
        /\ id[1] = sensor[g].id =>
             id[2] < sensor[g].attempt \/ (id[2] = sensor[g].attempt /\ sensor[g].at # "sending")
    BY <1>2 DEF Used
  <2>3. CASE /\ sensor'[g].id = sensor[g].id /\ sensor'[g].attempt = sensor[g].attempt
             /\ sensor'[g].at = "sending" => sensor[g].at = "sending"
    BY <2>2, <2>3 DEF Used
  <2>4. CASE sensor'[g].id = sensor[g].id /\ sensor'[g].attempt = sensor[g].attempt + 1
    <3>1. id[1] = sensor'[g].id => id[2] < sensor'[g].attempt
      BY <1>1, <2>1, <2>2, <2>4
    <3>2. id[1] \in 1..sensor'[g].id /\ id[2] \in 1..MaxAttempts
      BY <2>2, <2>4
    <3>3. QED
      BY <3>1, <3>2 DEF Used
  <2>5. CASE sensor'[g].id = sensor[g].id + 1
    <3>1. id[1] \in 1..sensor'[g].id /\ id[1] # sensor'[g].id
      BY <1>1, <2>1, <2>2, <2>5
    <3>2. QED
      BY <2>2, <3>1 DEF Used
  <2>6. QED
    BY <1>2, <2>3, <2>4, <2>5 DEF Ages
<1>3. ASSUME BusKept, NEW n, DecidedIn(bus, g, n)
      PROVE  DecidedIn(bus', g, n)
  BY <1>3 DEF BusKept, DecidedIn
<1>4. QED
  BY <1>2, <1>3

\* Requests that are on their way to the bus come from nowhere else.
OldRequests ==
  \A h \in Handler :
    Submitted(req'[h]) =>
      /\ Submitted(req[h]) /\ req'[h].frame = req[h].frame /\ req'[h].id = req[h].id
      /\ req'[h].rpc = req[h].rpc

\* A step that starts no attempt keeps what is known of attempts, and the automatic
\* commands that were on the bus keep theirs.
LEMMA AttemptsKept ==
  ASSUME TypeOK, WorkInv, AttemptUsed, AttemptOnce, AttemptOver, Ages, OldRequests
  PROVE  /\ AttemptUsed' /\ AttemptOnce'
         /\ \A i \in DOMAIN bus :
              bus[i].type = "auto" =>
                /\ Used(sensor'[bus[i].gate], bus[i].id)
                /\ \A h \in Handler :
                     Submitted(req'[h]) => req'[h].frame.gate # bus[i].gate \/ req'[h].id # bus[i].id
<1>1. \A h \in Handler : Submitted(req[h]) => req[h].frame.gate \in Gate /\ req[h].id \in Id
  BY DEF Submitted, WorkInv, TypeOK, Request
<1>2. \A i \in DOMAIN bus : bus[i].gate \in Gate /\ bus[i].id \in Id
  BY OnBus
<1>3. AttemptUsed'
  <2>1. SUFFICES ASSUME NEW h \in Handler, Submitted(req'[h])
                 PROVE  Used(sensor'[req'[h].frame.gate], req'[h].id)
    BY DEF AttemptUsed
  <2>2. Submitted(req[h]) /\ req'[h].frame = req[h].frame /\ req'[h].id = req[h].id
    BY <2>1 DEF OldRequests
  <2>3. Used(sensor[req[h].frame.gate], req[h].id)
    BY <2>2 DEF AttemptUsed
  <2>4. QED
    BY <1>1, <2>2, <2>3, Stays
<1>4. AttemptOnce'
  BY DEF AttemptOnce, OldRequests
<1>5. ASSUME NEW i \in DOMAIN bus, bus[i].type = "auto"
      PROVE  /\ Used(sensor'[bus[i].gate], bus[i].id)
             /\ \A h \in Handler :
                  Submitted(req'[h]) => req'[h].frame.gate # bus[i].gate \/ req'[h].id # bus[i].id
  BY <1>2, <1>5, Stays DEF AttemptOver, OldRequests
<1>6. QED
  BY <1>3, <1>4, <1>5

\* A step that publishes nothing and starts no attempt.
LEMMA QuietStep ==
  ASSUME TypeOK, WorkInv, TrailInv, UNCHANGED bus, Ages, OldRequests, SensorInv',
         \A h \in Handler : req'[h].at = "open" => req[h].at = "open" /\ SameRequest(h),
         \A o \in Operator : cmd'[o].at = "ack" => cmd[o].at = "ack" /\ cmd'[o].id = cmd[o].id
  PROVE  TrailInv'
<1>1. AttemptUsed' /\ AttemptOnce'
  BY AttemptsKept DEF TrailInv
<1>2. AttemptOver'
  BY AttemptsKept DEF TrailInv, AttemptOver
<1>3. OpenInv' /\ AckInv'
  BY DEF TrailInv, OpenInv, AckInv, SameRequest
<1>4. AutoInv' /\ ReceiptInv'
  BY DEF TrailInv, AutoInv, ReceiptInv
<1>5. QED
  BY <1>1, <1>2, <1>3, <1>4 DEF TrailInv

\* The daemons stay as they are, and so do the requests they wait for.
LEMMA SensorsKept ==
  ASSUME TypeOK, SensorInv, UNCHANGED sensor, BusKept,
         \A g \in Gate : \A h \in sensor[g].call :
           Submitted(req'[h]) /\ req'[h].frame = req[h].frame /\ req'[h].id = req[h].id
  PROVE  SensorInv' /\ Ages
<1>1. Ages
  BY DEF Ages
<1>2. \A g \in Gate : \A n : DecidedIn(bus, g, n) => DecidedIn(bus', g, n)
  BY Stays
<1>3. SensorInv'
  BY <1>2 DEF SensorInv, Waits
<1>4. QED
  BY <1>1, <1>3

\* A daemon's own steps.
LEMMA SensingTrail ==
  ASSUME TypeOK, WorkInv, TrailInv, NEW g \in Gate, Sensing(g)
  PROVE  SensorInv' /\ Ages
<1>1. /\ \A k \in Gate : k # g => sensor'[k] = sensor[k]
      /\ UNCHANGED <<req, cmd, bus>>
  BY SensorSteps DEF Sensing, Observe, ReceiveDecision, Unavailable, SubmitThrows
<1>2. /\ sensor[g] \in Sensor /\ sensor[g].id \in Nat /\ sensor[g].attempt \in Nat
      /\ MaxAttempts \in Nat \ {0}
  BY AccessAssumption DEF TypeOK, Sensor
<1>3. SensorInv
  BY DEF TrailInv
<1>4. ASSUME NEW f \in Frame, Observe(g, f)
      PROVE  SensorInv' /\ Ages
  <2>1. /\ sensor'[g].at = "sending" /\ sensor'[g].id = sensor[g].id + 1 /\ sensor'[g].attempt = 1
        /\ sensor'[g].call = {}
    <3>1. sensor'[g] = [at |-> "sending", id |-> sensor[g].id + 1, frame |-> f,
                        attempt |-> 1, call |-> {}]
      BY <1>4, SensorSteps
    <3>2. QED
      BY <3>1
  <2>2. sensor[g].at = "watching"
    BY <1>4 DEF Observe
  <2>3. Ages
    BY <1>1, <2>1 DEF Ages
  <2>4. \A n \in 1..sensor'[g].id : n < sensor'[g].id => DecidedIn(bus', g, n)
    BY <1>1, <1>2, <1>3, <2>1, <2>2 DEF SensorInv, Waits
  <2>5. sensor'[g].attempt \in 1..MaxAttempts /\ sensor'[g].id > 0
    BY <1>2, <2>1
  <2>6. SensorInv'
    BY <1>1, <1>3, <2>1, <2>4, <2>5 DEF SensorInv, Waits
  <2>7. QED
    BY <2>3, <2>6
<1>5. ASSUME ReceiveDecision(g)
      PROVE  SensorInv' /\ Ages
  <2>1. sensor'[g] = [sensor[g] EXCEPT !.at = "watching"] /\ sensor[g].at = "answered"
    BY <1>5, SensorSteps DEF ReceiveDecision
  <2>2. /\ sensor'[g].at = "watching" /\ sensor'[g].id = sensor[g].id
        /\ sensor'[g].attempt = sensor[g].attempt /\ sensor'[g].call = sensor[g].call
    BY <1>2, <2>1 DEF Sensor
  <2>3. Ages
    BY <1>1, <2>2 DEF Ages
  <2>4. \A n \in 1..sensor[g].id : n < sensor[g].id \/ n = sensor[g].id
    BY <1>2
  <2>5. \A n \in 1..sensor'[g].id : DecidedIn(bus', g, n)
    BY <1>1, <1>3, <2>1, <2>2, <2>4 DEF SensorInv, Waits
  <2>6. sensor'[g].call = {}
    BY <1>3, <2>1, <2>2 DEF SensorInv, Waits
  <2>7. SensorInv'
    BY <1>1, <1>3, <2>2, <2>5, <2>6 DEF SensorInv, Waits
  <2>8. QED
    BY <2>3, <2>7
<1>6. ASSUME Unavailable(g)
      PROVE  SensorInv' /\ Ages
  <2>1. /\ sensor'[g] = [sensor[g] EXCEPT !.at = AfterAttempt(sensor[g].attempt),
                                         !.attempt = sensor[g].attempt + 1, !.call = {}]
        /\ sensor[g].at \in {"sending", "calling", "answered"}
    BY <1>6, SensorSteps DEF Unavailable
  <2>2. /\ sensor'[g].at = AfterAttempt(sensor[g].attempt) /\ sensor'[g].id = sensor[g].id
        /\ sensor'[g].attempt = sensor[g].attempt + 1 /\ sensor'[g].call = {}
    BY <1>2, <2>1 DEF Sensor
  <2>3. Ages
    BY <1>1, <2>2 DEF Ages
  <2>4. sensor[g].attempt \in 1..MaxAttempts /\ sensor[g].id > 0
    BY <1>3, <2>1 DEF SensorInv, Waits
  <2>5. /\ sensor'[g].at \in {"exited", "sending"}
        /\ sensor'[g].at = "sending" => sensor'[g].attempt \in 1..MaxAttempts
    BY <1>2, <2>2, <2>4 DEF AfterAttempt
  <2>6. \A n \in 1..sensor'[g].id : n < sensor'[g].id => DecidedIn(bus', g, n)
    BY <1>1, <1>3, <2>2 DEF SensorInv, Waits
  <2>7. SensorInv'
    BY <1>1, <1>3, <2>2, <2>4, <2>5, <2>6 DEF SensorInv, Waits
  <2>8. QED
    BY <2>3, <2>7
<1>7. ASSUME SubmitThrows(g)
      PROVE  SensorInv' /\ Ages
  <2>1. sensor'[g] = [sensor[g] EXCEPT !.at = "exited", !.call = {}]
    BY <1>7, SensorSteps
  <2>2. /\ sensor'[g].at = "exited" /\ sensor'[g].id = sensor[g].id
        /\ sensor'[g].attempt = sensor[g].attempt /\ sensor'[g].call = {}
    BY <1>2, <2>1 DEF Sensor
  <2>3. Ages
    BY <1>1, <2>2 DEF Ages
  <2>4. SensorInv'
    BY <1>1, <1>3, <2>2 DEF SensorInv, Waits
  <2>5. QED
    BY <2>3, <2>4
<1>8. QED
  BY <1>4, <1>5, <1>6, <1>7 DEF Sensing

\* An attempt reaches a handler: it is new.
LEMMA SubmitTrail ==
  ASSUME TypeOK, WorkInv, TrailInv, NEW h \in Handler, NEW g \in Gate, NEW t \in Instant,
         SubmitDetection(h, g, t)
  PROVE  TrailInv'
<1>1. sensor[g].frame.gate = g /\ sensor[g].at = "sending" /\ req[h].at = "idle"
  BY DEF WorkInv, SubmitDetection, Begin
<1>2. PICK guard \in BOOLEAN :
        Begun(h, "submit", <<sensor[g].id, sensor[g].attempt>>, sensor[g].frame, guard, t)
  BY BeginSteps
<1>3. /\ req'[h].at # "open" /\ req'[h].frame.gate = g /\ req'[h].id = <<sensor[g].id, sensor[g].attempt>>
      /\ Submitted(req'[h]) /\ UNCHANGED <<cmd, bus>>
      /\ \A k \in Handler : k # h => req'[k] = req[k]
  BY <1>1, <1>2 DEF Begun, Submitted
<1>4. /\ sensor'[g] = [sensor[g] EXCEPT !.at = "calling", !.call = {h}]
      /\ \A k \in Gate : k # g => sensor'[k] = sensor[k]
  BY SensorSteps
<1>5. /\ sensor[g].id \in Nat /\ sensor[g].attempt \in Nat
      /\ sensor'[g].at = "calling" /\ sensor'[g].id = sensor[g].id
      /\ sensor'[g].attempt = sensor[g].attempt /\ sensor'[g].call = {h}
  BY <1>4 DEF TypeOK, Sensor
<1>6. Ages
  BY <1>4, <1>5 DEF Ages
<1>7. sensor[g].attempt \in 1..MaxAttempts /\ sensor[g].id > 0
  BY <1>1 DEF TrailInv, SensorInv, Waits
<1>8. ~Used(sensor[g], req'[h].id) /\ Used(sensor'[g], req'[h].id)
  <2> DEFINE id == <<sensor[g].id, sensor[g].attempt>>
  <2>1. id[1] = sensor[g].id /\ id[2] = sensor[g].attempt
    OBVIOUS
  <2>2. ~Used(sensor[g], id)
    BY <1>1, <1>5, <2>1 DEF Used
  <2>3. Used(sensor'[g], id)
    <3>1. id[1] \in 1..sensor'[g].id /\ id[2] \in 1..MaxAttempts /\ id[2] = sensor'[g].attempt
      BY <1>5, <1>7, <2>1
    <3>2. QED
      BY <1>5, <3>1 DEF Used
  <2>4. QED
    BY <1>3, <2>2, <2>3
<1>9. \A k \in Handler : Submitted(req[k]) => req[k].frame.gate \in Gate /\ req[k].id \in Id
  BY DEF Submitted, WorkInv, TypeOK, Request
<1>10. AttemptUsed'
  <2>1. ASSUME NEW k \in Handler, k # h, Submitted(req[k])
        PROVE  Used(sensor'[req[k].frame.gate], req[k].id)
    BY <1>6, <1>9, <2>1, Stays DEF TrailInv, AttemptUsed
  <2>2. QED
    BY <1>3, <1>8, <2>1 DEF AttemptUsed
<1>11. AttemptOnce'
  <2>1. ASSUME NEW k \in Handler, k # h, Submitted(req[k]), req[k].frame.gate = g
        PROVE  req[k].id # req'[h].id
    BY <1>8, <2>1 DEF TrailInv, AttemptUsed
  <2>2. QED
    BY <1>3, <2>1 DEF TrailInv, AttemptOnce
<1>12. AttemptOver'
  <2>1. ASSUME NEW i \in DOMAIN bus, bus[i].type = "auto"
        PROVE  /\ Used(sensor'[bus[i].gate], bus[i].id)
               /\ bus[i].gate = g => bus[i].id # req'[h].id
    <3>1. bus[i].gate \in Gate /\ bus[i].id \in Id
      BY OnBus
    <3>2. Used(sensor[bus[i].gate], bus[i].id)
      BY <2>1 DEF TrailInv, AttemptOver
    <3>3. QED
      BY <1>6, <1>8, <3>1, <3>2, Stays
  <2>2. QED
    BY <1>3, <2>1 DEF TrailInv, AttemptOver
<1>13. OpenInv' /\ AckInv' /\ AutoInv' /\ ReceiptInv'
  BY <1>3 DEF TrailInv, OpenInv, AckInv, AutoInv, ReceiptInv
<1>14. SensorInv'
  <2>1. SensorInv
    BY DEF TrailInv
  <2>2. \A k \in Gate : h \notin sensor[k].call
    BY <1>1, <2>1 DEF SensorInv, Waits, Submitted
  <2>3. ASSUME NEW k \in Gate, k # g, NEW x \in sensor'[k].call
        PROVE  /\ sensor'[k].at = "calling" /\ Submitted(req'[x])
               /\ req'[x].frame.gate = k /\ req'[x].id = <<sensor'[k].id, sensor'[k].attempt>>
    <3>1. sensor'[k] = sensor[k] /\ x # h /\ x \in Handler
      BY <1>4, <2>2, <2>3 DEF TypeOK, Sensor
    <3>2. req'[x] = req[x]
      BY <1>3, <3>1
    <3>3. QED
      BY <2>1, <2>3, <3>1, <3>2 DEF SensorInv, Waits
  <2>4. \A n \in 1..sensor'[g].id : n < sensor'[g].id => DecidedIn(bus', g, n)
    BY <1>3, <1>5, <2>1 DEF SensorInv, Waits
  <2>5. ASSUME NEW k \in Gate, k # g
        PROVE  Waits(k)'
    <3>1. sensor'[k] = sensor[k] /\ bus' = bus /\ Waits(k)
      BY <1>3, <1>4, <2>1, <2>5 DEF SensorInv
    <3>2. QED
      BY <2>3, <2>5, <3>1 DEF Waits
  <2>6. Waits(g)'
    BY <1>3, <1>5, <1>7, <2>4 DEF Waits
  <2>7. QED
    BY <2>5, <2>6 DEF SensorInv
<1>15. QED
  BY <1>10, <1>11, <1>12, <1>13, <1>14 DEF TrailInv

\* A handler returns: a daemon that waited for it has the decision on the bus.
LEMMA FinishTrail ==
  ASSUME TypeOK, SensorInv, NEW h \in Handler, Finish(h), BusKept,
         Submitted(req[h]) => DecidedIn(bus', req[h].frame.gate, req[h].id[1])
  PROVE  /\ SensorInv' /\ Ages /\ OldRequests
         /\ \A k \in Handler : req'[k].at # "idle" => k # h /\ req'[k] = req[k]
<1>1. /\ req'[h].at = "idle" /\ \A k \in Handler : k # h => req'[k] = req[k]
      /\ \A g \in Gate :
           /\ sensor'[g].id = sensor[g].id /\ sensor'[g].attempt = sensor[g].attempt
           /\ h \in sensor[g].call => sensor'[g].at = "answered" /\ sensor'[g].call = {}
           /\ h \notin sensor[g].call => sensor'[g] = sensor[g]
  BY FinishType DEF IdleRequest
<1>2. Ages
  BY <1>1 DEF Ages
<1>3. OldRequests
  BY <1>1 DEF OldRequests, Submitted
<1>4. ASSUME NEW g \in Gate
      PROVE  Waits(g)'
  <2>1. Waits(g) /\ \A n : DecidedIn(bus, g, n) => DecidedIn(bus', g, n)
    BY Stays DEF SensorInv
  <2>2. CASE h \in sensor[g].call
    <3>1. /\ sensor'[g].at = "answered" /\ sensor'[g].call = {}
          /\ sensor'[g].id = sensor[g].id /\ sensor'[g].attempt = sensor[g].attempt
      BY <1>1, <2>2
    <3>2. /\ sensor[g].at = "calling" /\ Submitted(req[h])
          /\ req[h].frame.gate = g /\ req[h].id = <<sensor[g].id, sensor[g].attempt>>
      BY <2>1, <2>2 DEF Waits
    <3>3. req[h].id[1] = sensor[g].id
      BY <3>2
    <3>4. DecidedIn(bus', g, sensor[g].id)
      BY <3>2, <3>3
    <3>5. QED
      BY <2>1, <3>1, <3>2, <3>4 DEF Waits
  <2>3. CASE h \notin sensor[g].call
    <3>1. sensor'[g] = sensor[g]
      BY <1>1, <2>3
    <3>2. \A k \in sensor[g].call : req'[k] = req[k]
      BY <1>1, <2>3 DEF TypeOK, Sensor
    <3>3. QED
      BY <2>1, <3>1, <3>2 DEF Waits
  <2>4. QED
    BY <2>2, <2>3
<1>5. \A k \in Handler : req'[k].at # "idle" => k # h /\ req'[k] = req[k]
  BY <1>1
<1>6. QED
  BY <1>2, <1>3, <1>4, <1>5 DEF SensorInv

\* An event joins the bus: an automatic command comes after its decision and is the
\* first of its attempt, which is over; a receipt comes after its command.
LEMMA PublishTrail ==
  ASSUME TypeOK, WorkInv, TrailInv, Ages, OldRequests, SensorInv', OpenInv', AckInv',
         NEW e \in BusEvent, bus' = Append(bus, e),
         e.type = "auto" =>
           /\ Used(sensor'[e.gate], e.id)
           /\ \A h \in Handler : Submitted(req'[h]) => req'[h].frame.gate # e.gate \/ req'[h].id # e.id
           /\ \E j \in DOMAIN bus : bus[j] = Event("decision", e.gate, e.id, "AUTHORIZED", 0)
           /\ \A j \in DOMAIN bus : bus[j].type = "auto" => bus[j].gate # e.gate \/ bus[j].id # e.id,
         e.type = "ack" => \E j \in DOMAIN bus : bus[j].type = "command" /\ bus[j].id = e.id
  PROVE  TrailInv'
<1> DEFINE n == Len(bus) + 1
<1>1. /\ Len(bus) \in Nat /\ DOMAIN bus = 1..Len(bus) /\ DOMAIN bus' = 1..n /\ bus'[n] = e
      /\ \A i \in DOMAIN bus : i \in DOMAIN bus' /\ bus'[i] = bus[i]
      /\ \A i \in DOMAIN bus' : i \in DOMAIN bus \/ i = n
  BY Published
<1>2. DOMAIN bus = 1..(n - 1) /\ \A i \in DOMAIN bus : i # n /\ 1..(i - 1) \subseteq DOMAIN bus
  BY <1>1
<1> HIDE DEF n
<1>3. AttemptUsed' /\ AttemptOnce'
  BY AttemptsKept DEF TrailInv
<1>4. AttemptOver'
  <2>1. \A i \in DOMAIN bus :
          bus[i].type = "auto" =>
            /\ Used(sensor'[bus[i].gate], bus[i].id)
            /\ \A h \in Handler :
                 Submitted(req'[h]) => req'[h].frame.gate # bus[i].gate \/ req'[h].id # bus[i].id
    BY AttemptsKept DEF TrailInv
  <2>2. QED
    BY <1>1, <2>1 DEF AttemptOver
<1>5. AutoInv'
  <2>1. AutoInv
    BY DEF TrailInv
  <2>2. SUFFICES ASSUME NEW i \in DOMAIN bus', bus'[i].type = "auto"
                 PROVE  /\ \E j \in 1..(i - 1) :
                             bus'[j] = Event("decision", bus'[i].gate, bus'[i].id, "AUTHORIZED", 0)
                        /\ \A j \in DOMAIN bus' :
                             bus'[j].type = "auto" /\ bus'[j].gate = bus'[i].gate /\ bus'[j].id = bus'[i].id
                               => j = i
    BY DEF AutoInv
  <2>3. CASE i = n
    BY <1>1, <1>2, <2>2, <2>3
  <2>4. CASE i \in DOMAIN bus
    <3>1. /\ \E j \in 1..(i - 1) :
               bus[j] = Event("decision", bus[i].gate, bus[i].id, "AUTHORIZED", 0)
          /\ \A j \in DOMAIN bus :
               bus[j].type = "auto" /\ bus[j].gate = bus[i].gate /\ bus[j].id = bus[i].id => j = i
      BY <1>1, <2>1, <2>2, <2>4 DEF AutoInv
    <3>2. \E j \in 1..(i - 1) :
            bus'[j] = Event("decision", bus'[i].gate, bus'[i].id, "AUTHORIZED", 0)
      BY <1>1, <1>2, <2>4, <3>1
    <3>3. e.type = "auto" => bus[i].gate # e.gate \/ bus[i].id # e.id
      BY <1>1, <2>2, <2>4
    <3>4. QED
      BY <1>1, <2>4, <3>1, <3>2, <3>3
  <2>5. QED
    BY <1>1, <2>3, <2>4
<1>6. ReceiptInv'
  <2>1. ReceiptInv
    BY DEF TrailInv
  <2>2. SUFFICES ASSUME NEW i \in DOMAIN bus', bus'[i].type = "ack"
                 PROVE  \E j \in 1..(i - 1) : bus'[j].type = "command" /\ bus'[j].id = bus'[i].id
    BY DEF ReceiptInv
  <2>3. CASE i = n
    BY <1>1, <1>2, <2>2, <2>3
  <2>4. CASE i \in DOMAIN bus
    <3>1. PICK j \in 1..(i - 1) : bus[j].type = "command" /\ bus[j].id = bus[i].id
      BY <1>1, <2>1, <2>2, <2>4 DEF ReceiptInv
    <3>2. QED
      BY <1>1, <1>2, <2>4, <3>1
  <2>5. QED
    BY <1>1, <2>3, <2>4
<1>7. QED
  BY <1>3, <1>4, <1>5, <1>6 DEF TrailInv

\* A decision is published.
LEMMA DecisionTrail ==
  ASSUME TypeOK, WorkInv, TrailInv, NEW h \in Handler, PublishDecision(h)
  PROVE  TrailInv'
<1> DEFINE e == Event("decision", req[h].frame.gate, req[h].id, req[h].out.verdict, 0)
<1>1. e \in BusEvent /\ bus' = Append(bus, e) /\ UNCHANGED cmd /\ req[h].at = "decided"
  BY EventTypes DEF PublishDecision
<1>2. e.type = "decision" /\ e.gate = req[h].frame.gate /\ e.id = req[h].id
  BY DEF Event
<1>3. BusKept /\ \E i \in DOMAIN bus' : bus'[i] = e
  BY <1>1, Published DEF BusKept
<1>4. DecidedIn(bus', req[h].frame.gate, req[h].id[1])
  BY <1>2, <1>3 DEF DecidedIn
<1>5. AckInv'
  BY <1>1, <1>3 DEF TrailInv, AckInv, BusKept
<1>6. OpenInv /\ SensorInv
  BY DEF TrailInv
<1>7. CASE ~Opens(req[h])
  <2>1. Finish(h)
    BY <1>7 DEF PublishDecision
  <2>2. /\ SensorInv' /\ Ages /\ OldRequests
        /\ \A k \in Handler : req'[k].at # "idle" => k # h /\ req'[k] = req[k]
    BY <1>3, <1>4, <1>6, <2>1, FinishTrail
  <2>3. OpenInv'
    BY <1>3, <1>6, <2>2 DEF OpenInv, BusKept
  <2> HIDE DEF e
  <2>4. QED
    BY <1>1, <1>2, <1>5, <2>2, <2>3, PublishTrail
<1>8. CASE Opens(req[h])
  <2>1. req' = [req EXCEPT ![h].at = "open"] /\ UNCHANGED sensor
    BY <1>8 DEF PublishDecision
  <2>2. req[h].out = Authorized /\ req[h].rpc = "submit"
    BY <1>8 DEF Opens
  <2>3. e = Event("decision", req[h].frame.gate, req[h].id, "AUTHORIZED", 0)
    BY <2>2 DEF Authorized, Outcome
  <2>4. /\ req'[h].at = "open" /\ SameRequest(h) /\ \A k \in Handler : k # h => req'[k] = req[k]
    BY <2>1 DEF TypeOK, Request, SameRequest
  <2>5. OldRequests
    BY <1>1, <2>2, <2>4 DEF OldRequests, Submitted, SameRequest
  <2>6. \A g \in Gate : \A k \in sensor[g].call :
          Submitted(req'[k]) /\ req'[k].frame = req[k].frame /\ req'[k].id = req[k].id
    <3>1. \A g \in Gate : \A k \in sensor[g].call : k \in Handler /\ Submitted(req[k])
      BY <1>6 DEF SensorInv, Waits, TypeOK, Sensor
    <3>2. QED
      BY <2>2, <2>4, <3>1 DEF Submitted, SameRequest
  <2>7. SensorInv' /\ Ages
    BY <1>3, <1>6, <2>1, <2>6, SensorsKept
  <2>8. OpenInv'
    <3>1. \E j \in DOMAIN bus' : bus'[j] = Event("decision", req'[h].frame.gate, req'[h].id, "AUTHORIZED", 0)
      BY <1>3, <2>3, <2>4 DEF SameRequest
    <3>2. QED
      BY <1>3, <1>6, <2>2, <2>4, <3>1 DEF OpenInv, BusKept, SameRequest
  <2> HIDE DEF e
  <2>9. QED
    BY <1>1, <1>2, <1>5, <2>5, <2>7, <2>8, PublishTrail
<1>9. QED
  BY <1>7, <1>8

\* An automatic OPEN_GATE is published.
LEMMA OpenTrail ==
  ASSUME TypeOK, WorkInv, TrailInv, NEW h \in Handler, PublishOpen(h)
  PROVE  TrailInv'
<1> DEFINE e == Event("auto", req[h].frame.gate, req[h].id, "OPEN_GATE", 0)
<1>1. e \in BusEvent /\ bus' = Append(bus, e) /\ UNCHANGED cmd /\ req[h].at = "open" /\ Finish(h)
  BY EventTypes DEF PublishOpen
<1>2. e.type = "auto" /\ e.gate = req[h].frame.gate /\ e.id = req[h].id
  BY DEF Event
<1>3. BusKept
  BY <1>1, Published DEF BusKept
<1>4. OpenInv /\ SensorInv /\ AttemptUsed /\ AttemptOnce /\ AttemptOver
  BY DEF TrailInv
<1>5. Submitted(req[h]) /\ req[h].frame.gate \in Gate /\ req[h].id \in Id
  BY <1>1, <1>4 DEF OpenInv, Submitted, WorkInv, TypeOK, Request
<1>6. PICK j \in DOMAIN bus : bus[j] = Event("decision", req[h].frame.gate, req[h].id, "AUTHORIZED", 0)
  BY <1>1, <1>4 DEF OpenInv
<1>7. DecidedIn(bus', req[h].frame.gate, req[h].id[1])
  BY <1>3, <1>6 DEF DecidedIn, BusKept, Event
<1>8. /\ SensorInv' /\ Ages /\ OldRequests
      /\ \A k \in Handler : req'[k].at # "idle" => k # h /\ req'[k] = req[k]
  BY <1>1, <1>3, <1>4, <1>7, FinishTrail
<1>9. AckInv' /\ OpenInv'
  BY <1>1, <1>3, <1>8 DEF TrailInv, AckInv, OpenInv, BusKept
<1>10. Used(sensor'[e.gate], e.id)
  BY <1>2, <1>4, <1>5, <1>8, Stays DEF AttemptUsed
<1>11. \A k \in Handler : Submitted(req'[k]) => req'[k].frame.gate # e.gate \/ req'[k].id # e.id
  BY <1>2, <1>4, <1>5, <1>8 DEF AttemptOnce, Submitted
<1>12. \A i \in DOMAIN bus : bus[i].type = "auto" => bus[i].gate # e.gate \/ bus[i].id # e.id
  BY <1>2, <1>4, <1>5 DEF AttemptOver
<1>13. \E i \in DOMAIN bus : bus[i] = Event("decision", e.gate, e.id, "AUTHORIZED", 0)
  BY <1>2, <1>6
<1> HIDE DEF e
<1>14. QED
  BY <1>1, <1>2, <1>8, <1>9, <1>10, <1>11, <1>12, <1>13, PublishTrail

\* A command, and then its receipt, are published.
LEMMA CommandTrail ==
  ASSUME TypeOK, WorkInv, TrailInv, NEW o \in Operator, PublishCommand(o) \/ PublishAck(o)
  PROVE  TrailInv'
<1>1. UNCHANGED <<req, sensor>>
  BY DEF PublishCommand, PublishAck
<1>2. OldRequests
  BY <1>1 DEF OldRequests
<1>3. SensorInv /\ OpenInv /\ AckInv
  BY DEF TrailInv
<1>4. ASSUME NEW e \in BusEvent, bus' = Append(bus, e)
      PROVE  BusKept /\ (\E i \in DOMAIN bus' : bus'[i] = e) /\ SensorInv' /\ Ages /\ OpenInv'
  <2>1. BusKept /\ \E i \in DOMAIN bus' : bus'[i] = e
    BY <1>4, Published DEF BusKept
  <2>2. SensorInv' /\ Ages
    BY <1>1, <1>3, <2>1, SensorsKept DEF SensorInv, Waits
  <2>3. OpenInv'
    BY <1>1, <1>3, <2>1 DEF OpenInv, BusKept
  <2>4. QED
    BY <2>1, <2>2, <2>3
<1>5. CASE PublishCommand(o)
  <2> DEFINE e == Event("command", cmd[o].gate, cmd[o].id, cmd[o].kind, cmd[o].epoch)
  <2>1. e \in BusEvent /\ bus' = Append(bus, e)
    BY <1>5, EventTypes DEF PublishCommand
  <2>2. e.type = "command" /\ e.id = cmd[o].id
    BY DEF Event
  <2>3. cmd'[o].id = cmd[o].id /\ \A x \in Operator : x # o => cmd'[x] = cmd[x]
    BY <1>5 DEF PublishCommand, TypeOK, Command
  <2>4. AckInv'
    BY <1>3, <1>4, <2>1, <2>2, <2>3 DEF AckInv, BusKept
  <2> HIDE DEF e
  <2>5. QED
    BY <1>2, <1>4, <2>1, <2>2, <2>4, PublishTrail
<1>6. CASE PublishAck(o)
  <2> DEFINE e == Event("ack", cmd[o].gate, cmd[o].id, cmd[o].kind, 0)
  <2>1. e \in BusEvent /\ bus' = Append(bus, e) /\ cmd[o].at = "ack"
    BY <1>6, EventTypes DEF PublishAck
  <2>2. e.type = "ack" /\ e.id = cmd[o].id
    BY DEF Event
  <2>3. cmd'[o].at = "idle" /\ \A x \in Operator : x # o => cmd'[x] = cmd[x]
    BY <1>6 DEF PublishAck, TypeOK, IdleCommand
  <2>4. AckInv'
    BY <1>3, <1>4, <2>1, <2>3 DEF AckInv, BusKept
  <2>5. \E j \in DOMAIN bus : bus[j].type = "command" /\ bus[j].id = e.id
    BY <1>3, <2>1, <2>2 DEF AckInv
  <2> HIDE DEF e
  <2>6. QED
    BY <1>2, <1>4, <2>1, <2>2, <2>4, <2>5, PublishTrail
<1>7. QED
  BY <1>5, <1>6

\* A step keeps the trail.
LEMMA TrailStep ==
  ASSUME TypeOK, WorkInv, TrailInv, [Next]_vars
  PROVE  TrailInv'
<1>1. SensorInv /\ req \in [Handler -> Request] /\ cmd \in [Operator -> Command]
      /\ \A g \in Gate : \A h \in sensor[g].call : h \in Handler /\ Submitted(req[h])
  BY DEF TrailInv, SensorInv, Waits, TypeOK, Sensor
<1>2. ASSUME NEW h \in Handler, NEW f \in Frame, NEW guard \in BOOLEAN, NEW t \in Instant,
             Authorize(h, f, guard, t)
      PROVE  TrailInv'
  <2>1. Begun(h, "authorize", <<0, left.requests>>, f, guard, t)
    BY <1>2, BeginSteps
  <2>2. /\ req'[h].rpc = "authorize" /\ req'[h].at # "open" /\ req[h].at = "idle"
        /\ UNCHANGED <<cmd, bus, sensor>> /\ \A k \in Handler : k # h => req'[k] = req[k]
    BY <1>2, <2>1 DEF Begun, Authorize, Begin
  <2>3. OldRequests /\ BusKept
    BY <2>2 DEF OldRequests, Submitted, BusKept
  <2>4. SensorInv' /\ Ages
    BY <1>1, <2>2, <2>3, SensorsKept DEF Submitted
  <2>5. \A k \in Handler : req'[k].at = "open" => req[k].at = "open" /\ SameRequest(k)
    BY <2>2 DEF SameRequest
  <2>6. QED
    BY <2>2, <2>3, <2>4, <2>5, QuietStep
<1>3. ASSUME NEW h \in Handler, NEW out \in Ruling, NEW next \in {"lookup", "decided"},
             req[h].at # "idle", Advance(h, out, next), UNCHANGED <<cmd, sensor, bus>>
      PROVE  TrailInv'
  <2>1. /\ SameRequest(h) /\ req'[h].at \notin {"open", "idle"}
        /\ \A k \in Handler : k # h => req'[k] = req[k]
    BY <1>3, AdvanceType
  <2>2. OldRequests /\ BusKept
    BY <1>3, <2>1 DEF OldRequests, Submitted, BusKept, SameRequest
  <2>3. SensorInv' /\ Ages
    BY <1>1, <1>3, <2>1, <2>2, SensorsKept DEF Submitted, SameRequest
  <2>4. \A k \in Handler : req'[k].at = "open" => req[k].at = "open" /\ SameRequest(k)
    BY <2>1 DEF SameRequest
  <2>5. QED
    BY <1>3, <2>2, <2>3, <2>4, QuietStep
<1>4. ASSUME NEW h \in Handler, Deciding(h)
      PROVE  TrailInv'
  <2>1. ASSUME NEW g \in Gate, NEW t \in Instant, SubmitDetection(h, g, t)
        PROVE  TrailInv'
    BY <2>1, SubmitTrail
  <2>2. CASE CheckBlocklist(h)
    BY <1>3, <2>2, RulingType DEF CheckBlocklist
  <2>3. CASE Lookup(h)
    BY <1>3, <2>3, RulingType DEF Lookup
  <2>4. QED
    BY <1>2, <1>4, <2>1, <2>2, <2>3, DecisionTrail, OpenTrail DEF Deciding
<1>5. ASSUME UNCHANGED <<req, bus>>,
             \A o \in Operator : cmd'[o].at = "ack" => cmd[o].at = "ack" /\ cmd'[o].id = cmd[o].id,
             SensorInv' /\ Ages
      PROVE  TrailInv'
  <2>1. OldRequests /\ \A k \in Handler : req'[k].at = "open" => req[k].at = "open" /\ SameRequest(k)
    BY <1>5 DEF OldRequests, SameRequest
  <2>2. QED
    BY <1>5, <2>1, QuietStep
<1>6. ASSUME NEW g \in Gate, Sensing(g)
      PROVE  TrailInv'
  <2>1. UNCHANGED <<req, cmd, bus>>
    BY <1>6 DEF Sensing, Observe, ReceiveDecision, Unavailable, SubmitThrows
  <2>2. QED
    BY <1>5, <1>6, <2>1, SensingTrail
<1>7. ASSUME UNCHANGED <<req, sensor, bus>>
      PROVE  SensorInv' /\ Ages
  BY <1>1, <1>7, SensorsKept DEF BusKept
<1>8. ASSUME NEW o \in Operator, NEW g \in Gate, NEW k \in Kind, IssueCommand(o, g, k)
      PROVE  TrailInv'
  <2>1. UNCHANGED <<req, sensor, bus>>
    BY <1>8 DEF IssueCommand
  <2>2. cmd'[o].at = "command" /\ \A x \in Operator : x # o => cmd'[x] = cmd[x]
    BY <1>1, <1>8 DEF IssueCommand
  <2>3. QED
    BY <1>5, <1>7, <2>1, <2>2
<1>9. CASE AdminEdit \/ AdminStartsListing \/ AdminLists \/ UNCHANGED vars
  <2>1. UNCHANGED <<req, cmd, sensor, bus>>
    BY <1>9 DEF AdminEdit, AdminStartsListing, AdminLists, vars
  <2>2. QED
    BY <1>5, <1>7, <2>1
<1>10. CASE Restart
  <2>1. /\ \A h \in Handler : req'[h].at = "idle"
        /\ \A o \in Operator : cmd'[o].at = "idle"
        /\ UNCHANGED bus
    BY <1>10 DEF Restart, IdleRequest, IdleCommand
  <2>2. \A g \in Gate : /\ sensor'[g].at = sensor[g].at /\ sensor'[g].id = sensor[g].id
                        /\ sensor'[g].attempt = sensor[g].attempt /\ sensor'[g].call = {}
    BY <1>10 DEF Restart, TypeOK, Sensor
  <2>3. SensorInv' /\ Ages
    BY <1>1, <2>1, <2>2 DEF SensorInv, Waits, Ages
  <2>4. OldRequests
    BY <2>1 DEF OldRequests, Submitted
  <2>5. QED
    BY <2>1, <2>3, <2>4, QuietStep
<1>11. QED
  BY <1>4, <1>6, <1>8, <1>9, <1>10, CommandTrail DEF Next, Commanding

\* A server that starts has no trail.
LEMMA InitTrail == Init => TrailInv
<1> SUFFICES ASSUME Init PROVE TrailInv
  OBVIOUS
<1>1. /\ \A h \in Handler : req[h].at = "idle"
      /\ \A o \in Operator : cmd[o].at = "idle"
      /\ \A g \in Gate : sensor[g].at = "watching" /\ sensor[g].call = {} /\ sensor[g].id = 0
      /\ bus = <<>>
  BY DEF Init, IdleRequest, IdleCommand, NewSensor
<1>2. SensorInv
  BY <1>1 DEF SensorInv, Waits
<1>3. QED
  BY <1>1, <1>2 DEF TrailInv, AttemptUsed, AttemptOnce, AttemptOver, OpenInv, AckInv, AutoInv,
                    ReceiptInv, Submitted

\* The trail as an invariant.
LEMMA TrailHolds == Spec => [](TypeOK /\ WorkInv /\ TrailInv)
<1>1. Init => TypeOK /\ WorkInv /\ TrailInv
  BY InitType, InitTrail
<1>2. TypeOK /\ WorkInv /\ TrailInv /\ [Next]_vars => TypeOK' /\ WorkInv' /\ TrailInv'
  BY TypeStep, TrailStep
<1>3. QED
  BY <1>1, <1>2, PTL DEF Spec

\* Attempts of one frame that have opened the gate are told apart by their number, of
\* which there are MaxAttempts.
LEMMA OpensBounded ==
  ASSUME TypeOK, TrailInv, NEW g \in Gate, NEW n
  PROVE  Cardinality({i \in DOMAIN bus : bus[i].type = "auto" /\ bus[i].gate = g /\ bus[i].id[1] = n})
           <= MaxAttempts
<1> DEFINE S == {i \in DOMAIN bus : bus[i].type = "auto" /\ bus[i].gate = g /\ bus[i].id[1] = n}
           f == [i \in S |-> bus[i].id[2]]
<1>1. MaxAttempts \in Nat
  BY AccessAssumption
<1>2. ASSUME NEW i \in S
      PROVE  bus[i].id[2] \in 1..MaxAttempts
  BY DEF TrailInv, AttemptOver, Used
<1>3. ASSUME NEW i \in S, NEW j \in S, bus[i].id[2] = bus[j].id[2]
      PROVE  i = j
  <2>1. bus[i].id \in Id /\ bus[j].id \in Id
    BY OnBus
  <2>2. bus[i].id = bus[j].id
    BY <1>3, <2>1 DEF Id
  <2>3. QED
    BY <2>2 DEF TrailInv, AutoInv
<1>4. f \in Injection(S, 1..MaxAttempts)
  BY <1>2, <1>3 DEF Injection, IsInjective
<1>5. IsFiniteSet(1..MaxAttempts) /\ Cardinality(1..MaxAttempts) = MaxAttempts
  BY <1>1, FS_Interval
<1>6. Cardinality(S) <= Cardinality(1..MaxAttempts)
  BY <1>4, <1>5, FS_Injection
<1>7. QED
  BY <1>5, <1>6

\* The audit trail is complete for any number of gates, handlers, operators and frames:
\* an automatic OPEN_GATE comes after the decision that authorised it, and once; a
\* receipt comes after its command; Authorize never moves a gate (SubmitDetection,
\* IssueCommand).
THEOREM TrailCorrect == Spec => []OpenHasItsDecision
<1>1. TypeOK /\ WorkInv /\ TrailInv => OpenHasItsDecision
  BY DEF TrailInv, AutoInv, ReceiptInv, OpenInv, OpenHasItsDecision
<1>2. QED
  BY <1>1, TrailHolds, PTL

\* A frame is decided before the daemon looks for the next, and opens the gate at most
\* once for every attempt, for any number of attempts and however the server fails
\* (submit's loop, the daemon's main loop).
THEOREM FramesSettled == Spec => []FrameIsSettled
<1>1. TypeOK /\ WorkInv /\ TrailInv => FrameIsSettled
  <2> SUFFICES ASSUME TypeOK, TrailInv, NEW g \in Gate, NEW n \in 1..sensor[g].id
               PROVE  /\ n < sensor[g].id \/ sensor[g].at = "watching" =>
                           {i \in DOMAIN bus : bus[i].type = "decision" /\ bus[i].gate = g
                                                /\ bus[i].id[1] = n} # {}
                      /\ Cardinality({i \in DOMAIN bus : bus[i].type = "auto" /\ bus[i].gate = g
                                                        /\ bus[i].id[1] = n}) <= MaxAttempts
    BY DEF FrameIsSettled
  <2>1. n < sensor[g].id \/ sensor[g].at = "watching" => DecidedIn(bus, g, n)
    BY DEF TrailInv, SensorInv, Waits
  <2>2. QED
    BY <2>1, OpensBounded DEF DecidedIn
<1>2. QED
  BY <1>1, TrailHolds, PTL

-----------------------------------------------------------------------------
(* The tables.  What a batch computes row by row is shown by looking at    *)
(* the first row for which it would fail.                                  *)

Table == [Plate -> Entry \cup {NoEntry}]

BatchRow == [text : Spelling, entry : Entry]

Progress == [table : Table, failed : BOOLEAN, inserted : Nat, updated : Nat]

\* A set of numbers has a least element.
LEMMA LeastNumber ==
  ASSUME NEW S, S \subseteq Nat, S # {}
  PROVE  \E n \in S : \A m \in S : n <= m
<1> DEFINE R == {ss \in Nat \X Nat : ss[1] < ss[2]}
<1>1. IsWellFoundedOn(R, Nat)
  BY NatLessThanWellFounded, Zenon DEF OpToRel
<1>2. ASSUME NEW x \in Nat, NEW y \in Nat, x < y
      PROVE  <<x, y>> \in R
  BY <1>2
<1> HIDE DEF R
<1>3. \E x \in S : \A y \in S : ~(<<y, x>> \in R)
  BY <1>1, WFMin, Zenon
<1>4. PICK x \in S : \A y \in S : ~(<<y, x>> \in R)
  BY <1>3
<1>5. \A y \in S : ~(y < x)
  BY <1>2, <1>4
<1>6. QED
  BY <1>5

\* One row of a batch.
LEMMA RowType ==
  ASSUME NEW t \in Progress, NEW row \in BatchRow
  PROVE  UpsertRow(t, row) \in Progress
<1> DEFINE p == Normalize[row.text]
<1>1. p \in Plate \cup {0} /\ row.entry \in Entry /\ 0 \notin Plate
  BY StoreAssumption DEF BatchRow
<1>2. /\ t.table \in Table /\ t.failed \in BOOLEAN /\ t.inserted \in Nat /\ t.updated \in Nat
  BY DEF Progress
<1> HIDE DEF p
<1>3. CASE t.failed \/ p = 0
  <2>1. UpsertRow(t, row) = [t EXCEPT !.failed = TRUE]
    BY <1>3 DEF UpsertRow, p
  <2>2. TRUE \in BOOLEAN
    OBVIOUS
  <2>3. QED
    BY <2>1, <2>2 DEF Progress
<1>4. CASE ~(t.failed \/ p = 0)
  <2> DEFINE table == [t.table EXCEPT ![p] = row.entry]
             inserted == t.inserted + (IF t.table[p] = NoEntry THEN 1 ELSE 0)
             updated == t.updated + (IF t.table[p] = NoEntry THEN 0 ELSE 1)
  <2>1. table \in Table
    BY <1>1, <1>2, <1>4 DEF Table
  <2>2. inserted \in Nat /\ updated \in Nat /\ FALSE \in BOOLEAN
    BY <1>2
  <2>3. UpsertRow(t, row) =
          [table |-> table, failed |-> FALSE, inserted |-> inserted, updated |-> updated]
    BY <1>4 DEF UpsertRow, p
  <2> HIDE DEF table, inserted, updated
  <2>4. QED
    BY <2>1, <2>2, <2>3 DEF Progress
<1>5. QED
  BY <1>3, <1>4

NoRows == [table |-> allow, failed |-> FALSE, inserted |-> 0, updated |-> 0]

\* A transaction is a sequence of progress, one for each row.
IsRun(b, n, g) ==
  /\ g \in [0..n -> Progress] /\ g[0] = NoRows
  /\ \A i \in 1..n : g[i] = UpsertRow(g[i - 1], b[i])

\* There is one, for any batch, and the transaction is its end.
LEMMA TransactionRuns ==
  ASSUME allow \in Table, NEW b \in Batch
  PROVE  Len(b) \in Nat /\ \E g : IsRun(b, Len(b), g) /\ Transaction(b) = g[Len(b)]
<1> DEFINE L == Len(b)
<1>1. L \in Nat /\ \A i \in 1..L : b[i] \in BatchRow
  <2>1. b \in Seq(BatchRow)
    BY StoreAssumption DEF BatchRow
  <2>2. QED
    BY <2>1
<1>2. NoRows \in Progress
  BY Zenon DEF NoRows, Progress
<1> HIDE DEF L
<1> DEFINE Bad == {k \in 0..L : ~ \E g : IsRun(b, k, g)}
<1>3. ASSUME Bad # {}
      PROVE  FALSE
  <2>1. PICK k \in Bad : \A m \in Bad : k <= m
    <3>1. Bad \subseteq Nat
      BY <1>1
    <3> HIDE DEF Bad
    <3>2. QED
      BY <1>3, <3>1, LeastNumber
  <2>2. CASE k = 0
    <3>1. IsRun(b, 0, [i \in 0..0 |-> NoRows])
      BY <1>2 DEF IsRun
    <3>2. QED
      BY <2>1, <2>2, <3>1
  <2>3. CASE k # 0
    <3>1. k - 1 \in 0..L /\ k - 1 \notin Bad /\ k \in 1..L /\ k \in Nat
      BY <1>1, <2>1, <2>3
    <3>2. PICK g : IsRun(b, k - 1, g)
      BY <3>1
    <3> DEFINE last == UpsertRow(g[k - 1], b[k])
               f == [i \in 0..k |-> IF i = k THEN last ELSE g[i]]
    <3>3. g[k - 1] \in Progress /\ b[k] \in BatchRow
      BY <1>1, <3>1, <3>2 DEF IsRun
    <3>4. last \in Progress
      BY <3>3, RowType
    <3> HIDE DEF last
    <3>5. f \in [0..k -> Progress] /\ f[0] = NoRows
      BY <3>1, <3>2, <3>4 DEF IsRun
    <3>6. ASSUME NEW i \in 1..k
          PROVE  f[i] = UpsertRow(f[i - 1], b[i])
      <4>1. CASE i = k
        BY <3>1, <4>1 DEF last
      <4>2. CASE i # k
        <5>1. i \in 1..(k - 1) /\ f[i] = g[i] /\ f[i - 1] = g[i - 1]
          BY <3>1, <4>2
        <5>2. QED
          BY <3>2, <5>1 DEF IsRun
      <4>3. QED
        BY <4>1, <4>2
    <3>7. IsRun(b, k, f)
      BY <3>5, <3>6 DEF IsRun
    <3>8. QED
      BY <2>1, <3>7
  <2>4. QED
    BY <2>2, <2>3
<1>4. PICK g : IsRun(b, L, g)
  BY <1>1, <1>3
<1> DEFINE after[n \in 0..L] == IF n = 0 THEN NoRows ELSE UpsertRow(after[n - 1], b[n])
<1>5. g = [n \in 0..L |-> IF n = 0 THEN NoRows ELSE UpsertRow(g[n - 1], b[n])]
  BY <1>1, <1>4 DEF IsRun
<1>6. after = [n \in 0..L |-> IF n = 0 THEN NoRows ELSE UpsertRow(after[n - 1], b[n])]
  BY <1>5
<1>7. Transaction(b) = after[L]
  BY DEF Transaction, L, NoRows
<1> HIDE DEF after
<1>8. \A n \in 0..L : after[n] \in Progress
  <2> DEFINE Odd == {n \in 0..L : after[n] \notin Progress}
  <2>1. ASSUME Odd # {}
        PROVE  FALSE
    <3>1. PICK k \in Odd : \A m \in Odd : k <= m
      <4>1. Odd \subseteq Nat
        BY <1>1
      <4> HIDE DEF Odd
      <4>2. QED
        BY <2>1, <4>1, LeastNumber
    <3>2. k # 0
      BY <1>1, <1>2, <1>6
    <3>3. k - 1 \in 0..L /\ k - 1 \notin Odd /\ k \in 1..L
      BY <1>1, <3>1, <3>2
    <3>4. after[k] = UpsertRow(after[k - 1], b[k])
      BY <1>6, <3>2, <3>3
    <3>5. QED
      BY <1>1, <3>3, <3>4, RowType
  <2>2. QED
    BY <2>1
<1>9. IsRun(b, L, after)
  <2>1. after \in [0..L -> Progress]
    BY <1>6, <1>8
  <2>2. after[0] = NoRows /\ \A i \in 1..L : after[i] = UpsertRow(after[i - 1], b[i])
    BY <1>1, <1>6
  <2>3. QED
    BY <2>1, <2>2 DEF IsRun
<1>10. QED
  BY <1>1, <1>7, <1>9 DEF L

\* An edit leaves a table of entries.
LEMMA EditType ==
  ASSUME allow \in Table, Edit
  PROVE  allow' \in Table
<1>1. ASSUME NEW b \in Batch, Upsert(b)
      PROVE  allow' \in Table
  <2>1. Transaction(b) \in Progress
    BY TransactionRuns DEF IsRun
  <2>2. Transaction(b).table \in Table
    BY <2>1 DEF Progress
  <2>3. QED
    BY <1>1, <2>2 DEF Upsert
<1>2. ASSUME NEW l \in TextList, DeleteAllowlist(l)
      PROVE  allow' \in Table
  BY <1>2 DEF DeleteAllowlist, Table
<1>3. QED
  BY <1>1, <1>2 DEF Edit, TransactionFails, BlocklistUpsert, BlocklistRemove

\* Only an edit changes the tables.
LEMMA TableStep ==
  ASSUME allow \in Table, [Next]_vars
  PROVE  allow' \in Table /\ (AdminEdit \/ UNCHANGED <<allow, block>>)
<1>1. CASE AdminEdit
  BY <1>1, EditType DEF AdminEdit
<1>2. CASE ~AdminEdit
  BY <1>2, ZenonT(30)
          DEF Next, vars, storeVars, Deciding, SubmitDetection, Authorize, Begin, CheckBlocklist, Lookup,
              PublishDecision, PublishOpen, Sensing, Observe, ReceiveDecision, Unavailable,
              SubmitThrows, Commanding, IssueCommand, PublishCommand, PublishAck,
              AdminStartsListing, AdminLists, StartWalk, NextPage, Restart
<1>3. QED
  BY <1>1, <1>2

-----------------------------------------------------------------------------
(* Verdicts.                                                               *)

MinuteOfDay == 0..1439

\* A half-open window, past midnight or not, is a number of minutes from its start.
LEMMA WindowIsArc ==
  ASSUME NEW w \in Window, NEW m \in MinuteOfDay, NEW d
  PROVE  WindowContains(w, m, d) <=> InWindow(w, m) /\ d \in w.days
<1> DEFINE day == 0..1440
<1>1. w.start \in day /\ w.end \in day
  BY DEF Window, DayMinutes
<1> HIDE DEF day
<1>2. PICK s \in day : s = w.start
  BY <1>1, Zenon
<1>3. PICK e \in day : e = w.end
  BY <1>1, Zenon
<1> USE DEF day, MinuteOfDay
<1>4. (m - s) % 1440 = IF m >= s THEN m - s ELSE m - s + 1440
  OBVIOUS
<1>5. (IF s <= e THEN m >= s /\ m < e ELSE m >= s \/ m < e)
        <=> (m - s) % 1440 < (IF e >= s THEN e - s ELSE e - s + 1440)
  BY <1>4
<1>6. QED
  BY <1>2, <1>3, <1>5 DEF WindowContains, InWindow, DayMinutes

\* is_allowed_now() says what the entry means.
LEMMA Admission ==
  ASSUME NEW e \in Entry, NEW f, NEW t \in Instant
  PROVE  IsAllowedNow(e, BestVehicle(f).class, t) <=> Admits(e, f, t)
<1>1. /\ e.from \in Nat /\ e.until \in Nat /\ e.windows \subseteq Window
  BY StoreAssumption
<1>2. t.unix \in Nat /\ t.minute \in MinuteOfDay
  BY AccessAssumption DEF DayMinutes, MinuteOfDay
<1>3. e # NoEntry
  BY <1>1 DEF NoEntry
<1>4. \A w \in e.windows :
        WindowContains(w, t.minute, (t.wday + 6) % 7) <=>
          InWindow(w, t.minute) /\ (t.wday + 6) % 7 \in w.days
  <2>1. PICK m \in MinuteOfDay : m = t.minute
    BY <1>2
  <2>2. ASSUME NEW w \in Window, NEW d
        PROVE  WindowContains(w, m, d) <=> InWindow(w, m) /\ d \in w.days
    BY WindowIsArc, Zenon
  <2>3. QED
    BY <1>1, <2>1, <2>2
<1>5. (e.from > 0 => t.unix >= e.from) <=> t.unix >= e.from
  BY <1>1, <1>2
<1>6. (e.until > 0 => t.unix < e.until) <=> (t.unix < e.until \/ e.until = 0)
  BY <1>1, <1>2
<1>7. QED
  BY <1>3, <1>4, <1>5, <1>6 DEF IsAllowedNow, Admits, ClassAllowed

\* What the verdict of one request rests on.
Justified(h) ==
  req[h].at = "decided" /\ req[h].read = "none" /\ req[h].frame.plates # <<>> /\ ~LowConfidence(req[h].frame)
    => IF req[h].out = Authorized
       THEN /\ \E s \in seen[h] : ~s.blocked
            /\ req[h].guard \/ \E s \in seen[h] : Admits(s.entry, req[h].frame, req[h].now)
       ELSE \E s \in seen[h] : s.blocked \/ ~(req[h].guard \/ Admits(s.entry, req[h].frame, req[h].now))

\* A request between its locks knows what the tables say now; one that is past the
\* blocklist was off it at some moment and has no guard's approval.
Informed(h) ==
  /\ req[h].at \in {"blocklist", "lookup"} =>
       req[h].now \in Instant /\ Tables(PlateOf(req[h].frame), allow, block) \in seen[h]
  /\ req[h].at = "lookup" => ~req[h].guard /\ \E s \in seen[h] : ~s.blocked

VerdictInv ==
  /\ allow \in Table
  /\ seen = [h \in Handler |-> seen[h]]
  /\ \A h \in Handler : Informed(h) /\ Justified(h)

\* The rulings that matter here are different, and without an override, with a plate
\* and with confidence enough, decide() goes on to the tables.
LEMMA OpenRuling ==
  /\ Authorized # Undecided
  /\ \A why : Denied(why) # Authorized /\ Denied(why) # Undecided
  /\ \A why : Outcome("MANUAL_REVIEW", why) # Authorized /\ Outcome("MANUAL_REVIEW", why) # Undecided
  /\ \A f : f.plates # <<>> /\ ~LowConfidence(f) => BeforeTables(f, "none") = Undecided
<1>1. /\ Authorized # Undecided
      /\ \A why : Denied(why) # Authorized /\ Denied(why) # Undecided
      /\ \A why : Outcome("MANUAL_REVIEW", why) # Authorized /\ Outcome("MANUAL_REVIEW", why) # Undecided
  BY DEF Authorized, Undecided, Denied, Outcome
<1>2. \A f : f.plates # <<>> /\ ~LowConfidence(f) => BeforeTables(f, "none") = Undecided
  BY DEF BeforeTables
<1>3. QED
  BY <1>1, <1>2

\* What the rungs say.
LEMMA Rungs ==
  /\ \A b \in BOOLEAN, guard \in BOOLEAN :
       /\ b => AfterBlocklist(b, guard) = Denied("BLOCKLISTED")
       /\ ~b /\ guard => AfterBlocklist(b, guard) = Authorized
       /\ ~b /\ ~guard => AfterBlocklist(b, guard) = Undecided
  /\ \A e \in Entry \cup {NoEntry}, t \in Instant : \A f :
       /\ AfterLookup(e, f, t) # Undecided
       /\ AfterLookup(e, f, t) = Authorized <=> Admits(e, f, t)
<1>1. \A b \in BOOLEAN, guard \in BOOLEAN :
       /\ b => AfterBlocklist(b, guard) = Denied("BLOCKLISTED")
       /\ ~b /\ guard => AfterBlocklist(b, guard) = Authorized
       /\ ~b /\ ~guard => AfterBlocklist(b, guard) = Undecided
  BY DEF AfterBlocklist
<1>2. ASSUME NEW e \in Entry \cup {NoEntry}, NEW f, NEW t \in Instant
      PROVE  /\ AfterLookup(e, f, t) # Undecided
             /\ AfterLookup(e, f, t) = Authorized <=> Admits(e, f, t)
  <2>1. CASE e = NoEntry
    BY <2>1, OpenRuling DEF AfterLookup, Admits
  <2>2. CASE e # NoEntry
    <3>1. IsAllowedNow(e, BestVehicle(f).class, t) <=> Admits(e, f, t)
      BY <2>2, Admission
    <3>2. QED
      BY <2>2, <3>1, OpenRuling DEF AfterLookup
  <2>3. QED
    BY <2>1, <2>2
<1>3. QED
  BY <1>1, <1>2

\* A request that no step of its own changes, while the tables stay.
LEMMA RequestKept ==
  ASSUME NEW k \in Handler, Informed(k), Justified(k), UNCHANGED <<allow, block>>,
         req'[k] = req[k], seen'[k] = seen[k]
  PROVE  Informed(k)' /\ Justified(k)'
  BY DEF Informed, Justified

\* decide() looks into the tables.
LEMMA LookStep ==
  ASSUME TypeOK, VerdictInv, NEW h \in Handler, CheckBlocklist(h) \/ Lookup(h)
  PROVE  Informed(h)' /\ Justified(h)'
<1> DEFINE s == Tables(PlateOf(req[h].frame), allow, block)
<1>1. /\ UNCHANGED <<allow, block, seen>> /\ req[h].at \in {"blocklist", "lookup"}
  BY DEF CheckBlocklist, Lookup, storeVars
<1>2. s \in seen[h] /\ req[h].now \in Instant
  BY <1>1 DEF VerdictInv, Informed
<1>3. /\ s.blocked = (PlateOf(req[h].frame) \in block)
      /\ s.entry = EntryOf(allow, PlateOf(req[h].frame))
  BY DEF Tables
<1>4. s.entry \in Entry \cup {NoEntry}
  <2>1. allow \in Table
    BY DEF VerdictInv
  <2>2. EntryOf(allow, PlateOf(req[h].frame)) \in Entry \cup {NoEntry}
    BY <2>1 DEF EntryOf, Table
  <2>3. QED
    BY <1>3, <2>2
<1>5. req[h].guard \in BOOLEAN
  BY DEF TypeOK, Request
<1> HIDE DEF s
<1>6. CASE CheckBlocklist(h)
  <2> DEFINE out == AfterBlocklist(PlateOf(req[h].frame) \in block, req[h].guard)
  <2>1. /\ req'[h].out = out /\ SameRequest(h)
        /\ out = Undecided => req'[h].at = "lookup"
        /\ out # Undecided => req'[h].at = "decided"
    BY <1>6, AdvanceType, RulingType DEF CheckBlocklist
  <2>2. (PlateOf(req[h].frame) \in block) \in BOOLEAN
    OBVIOUS
  <2>3. CASE s.blocked
    <3>1. out = Denied("BLOCKLISTED")
      BY <1>3, <1>5, <2>2, <2>3, Rungs
    <3> HIDE DEF out
    <3>2. req'[h].at = "decided" /\ req'[h].out # Authorized
      BY <2>1, <3>1, OpenRuling
    <3>3. QED
      BY <1>1, <1>2, <2>3, <3>2 DEF Informed, Justified
  <2>4. CASE ~s.blocked /\ req[h].guard
    <3>1. out = Authorized
      BY <1>3, <1>5, <2>2, <2>4, Rungs
    <3> HIDE DEF out
    <3>2. req'[h].at = "decided" /\ req'[h].out = Authorized /\ req'[h].guard
      BY <2>1, <2>4, <3>1, OpenRuling DEF SameRequest
    <3>3. QED
      BY <1>1, <1>2, <2>4, <3>2 DEF Informed, Justified
  <2>5. CASE ~s.blocked /\ ~req[h].guard
    <3>1. out = Undecided
      BY <1>3, <1>5, <2>2, <2>5, Rungs
    <3> HIDE DEF out
    <3>2. req'[h].at = "lookup" /\ ~req'[h].guard /\ req'[h].now = req[h].now /\ req'[h].frame = req[h].frame
      BY <2>1, <2>5, <3>1 DEF SameRequest
    <3>3. Tables(PlateOf(req'[h].frame), allow', block') = s
      BY <1>1, <3>2 DEF s
    <3>4. QED
      BY <1>1, <1>2, <2>5, <3>2, <3>3 DEF Informed, Justified
  <2>6. QED
    BY <2>3, <2>4, <2>5
<1>7. CASE Lookup(h)
  <2> DEFINE out == AfterLookup(EntryOf(allow, PlateOf(req[h].frame)), req[h].frame, req[h].now)
  <2>1. /\ req'[h].out = out /\ SameRequest(h)
        /\ out = Undecided => req'[h].at = "decided"
        /\ out # Undecided => req'[h].at = "decided"
    BY <1>7, AdvanceType, RulingType DEF Lookup
  <2>2. out = Authorized <=> Admits(s.entry, req[h].frame, req[h].now)
    <3>1. out = AfterLookup(s.entry, req[h].frame, req[h].now)
      BY <1>3
    <3> HIDE DEF out
    <3>2. AfterLookup(s.entry, req[h].frame, req[h].now) = Authorized
            <=> Admits(s.entry, req[h].frame, req[h].now)
      BY <1>2, <1>4, Rungs
    <3>3. QED
      BY <3>1, <3>2
  <2> HIDE DEF out
  <2>3. ~req[h].guard /\ \E x \in seen[h] : ~x.blocked
    BY <1>7 DEF Lookup, VerdictInv, Informed
  <2>4. /\ req'[h].at = "decided" /\ req'[h].frame = req[h].frame /\ req'[h].now = req[h].now
        /\ ~req'[h].guard /\ req'[h].out = out
    BY <2>1, <2>3 DEF SameRequest
  <2>5. QED
    BY <1>1, <1>2, <2>2, <2>3, <2>4 DEF Informed, Justified
<1>8. QED
  BY <1>6, <1>7

\* A step keeps verdicts justified.
LEMMA VerdictStep ==
  ASSUME TypeOK, WorkInv, VerdictInv, [Next]_vars
  PROVE  VerdictInv'
<1>1. allow' \in Table /\ (AdminEdit \/ UNCHANGED <<allow, block>>)
  BY TableStep DEF VerdictInv
<1>2. \A h \in Handler : Informed(h) /\ Justified(h)
  BY DEF VerdictInv
<1>3. seen = [h \in Handler |-> seen[h]]
  BY DEF VerdictInv
<1>4. ASSUME NEW h \in Handler, UNCHANGED <<allow, block>>, seen' = [k \in Handler |-> seen'[k]],
             \A k \in Handler : k # h => req'[k] = req[k] /\ seen'[k] = seen[k],
             Informed(h)' /\ Justified(h)'
      PROVE  VerdictInv'
  <2>1. \A k \in Handler : k # h => Informed(k)' /\ Justified(k)'
    BY <1>2, <1>4, RequestKept
  <2>2. QED
    BY <1>1, <1>4, <2>1 DEF VerdictInv
<1>5. ASSUME NEW h \in Handler, req'[h].at \in {"idle", "open"}
      PROVE  Informed(h)' /\ Justified(h)'
  BY <1>5 DEF Informed, Justified
<1>6. ASSUME NEW h \in Handler, NEW rpc, NEW id, NEW f \in Frame, NEW guard, NEW t \in Instant,
             Begun(h, rpc, id, f, guard, t), UNCHANGED <<allow, block>>,
             seen' = [seen EXCEPT ![h] = IF BeforeTables(f, override[f.gate]) = Undecided
                                         THEN {Tables(PlateOf(f), allow, block)} ELSE {}]
      PROVE  VerdictInv'
  <2>1. /\ req'[h].at \in {"blocklist", "decided"} /\ req'[h].frame = f /\ req'[h].now = t
        /\ req'[h].read = override[f.gate]
        /\ req'[h].at = "blocklist" <=> BeforeTables(f, override[f.gate]) = Undecided
        /\ \A k \in Handler : k # h => req'[k] = req[k]
    BY <1>6 DEF Begun
  <2>2. /\ seen' = [k \in Handler |-> seen'[k]]
        /\ \A k \in Handler : k # h => seen'[k] = seen[k]
        /\ BeforeTables(f, override[f.gate]) = Undecided => seen'[h] = {Tables(PlateOf(f), allow, block)}
    BY <1>3, <1>6
  <2>3. Informed(h)'
    BY <1>6, <2>1, <2>2 DEF Informed
  <2>4. Justified(h)'
    <3>1. ASSUME req'[h].at = "decided", req'[h].read = "none", f.plates # <<>>, ~LowConfidence(f)
          PROVE  FALSE
      BY <2>1, <3>1, OpenRuling
    <3>2. QED
      BY <2>1, <3>1 DEF Justified
  <2>5. QED
    BY <1>4, <1>6, <2>1, <2>2, <2>3, <2>4
<1>7. ASSUME NEW h \in Handler, NEW g \in Gate, NEW t \in Instant, SubmitDetection(h, g, t)
      PROVE  VerdictInv'
  <2>1. sensor[g].frame \in Frame /\ UNCHANGED <<allow, block>>
    BY <1>7 DEF SubmitDetection, Begin, WorkInv, storeVars
  <2>2. PICK guard \in BOOLEAN :
          Begun(h, "submit", <<sensor[g].id, sensor[g].attempt>>, sensor[g].frame, guard, t)
    BY <1>7, BeginSteps
  <2>3. seen' = [seen EXCEPT ![h] =
                   IF BeforeTables(sensor[g].frame, override[sensor[g].frame.gate]) = Undecided
                   THEN {Tables(PlateOf(sensor[g].frame), allow, block)} ELSE {}]
    BY <1>7 DEF SubmitDetection, Begin, OverrideFor
  <2>4. QED
    BY <1>6, <2>1, <2>2, <2>3
<1>8. ASSUME NEW h \in Handler, NEW f \in Frame, NEW guard \in BOOLEAN, NEW t \in Instant,
             Authorize(h, f, guard, t)
      PROVE  VerdictInv'
  <2>1. Begun(h, "authorize", <<0, left.requests>>, f, guard, t)
    BY <1>8, BeginSteps
  <2>2. /\ seen' = [seen EXCEPT ![h] = IF BeforeTables(f, override[f.gate]) = Undecided
                                       THEN {Tables(PlateOf(f), allow, block)} ELSE {}]
        /\ UNCHANGED <<allow, block>>
    BY <1>8 DEF Authorize, Begin, OverrideFor, storeVars
  <2>3. QED
    BY <1>6, <2>1, <2>2
<1>9. ASSUME NEW h \in Handler, CheckBlocklist(h) \/ Lookup(h)
      PROVE  VerdictInv'
  <2>1. Informed(h)' /\ Justified(h)'
    BY <1>9, LookStep
  <2>2. UNCHANGED <<allow, block, seen>>
    BY <1>9 DEF CheckBlocklist, Lookup, storeVars
  <2>3. \A k \in Handler : k # h => req'[k] = req[k]
    BY <1>9, AdvanceType, RulingType DEF CheckBlocklist, Lookup
  <2>4. QED
    BY <1>3, <1>4, <2>1, <2>2, <2>3
<1>10. ASSUME NEW h \in Handler, Finish(h), UNCHANGED <<allow, block>>
       PROVE  VerdictInv'
  <2>1. req'[h].at = "idle" /\ \A k \in Handler : k # h => req'[k] = req[k]
    BY <1>10, FinishType DEF IdleRequest
  <2>2. /\ seen' = [k \in Handler |-> seen'[k]] /\ \A k \in Handler : k # h => seen'[k] = seen[k]
    BY <1>3, <1>10 DEF Finish
  <2>3. QED
    BY <1>4, <1>5, <1>10, <2>1, <2>2
<1>11. ASSUME NEW h \in Handler, PublishDecision(h) \/ PublishOpen(h)
       PROVE  VerdictInv'
  <2>1. UNCHANGED <<allow, block>>
    BY <1>11 DEF PublishDecision, PublishOpen, storeVars
  <2>2. CASE Finish(h)
    BY <1>10, <2>1, <2>2
  <2>3. CASE ~Finish(h)
    <3>1. req' = [req EXCEPT ![h].at = "open"] /\ UNCHANGED seen
      BY <1>11, <2>3 DEF PublishDecision, PublishOpen
    <3>2. req'[h].at = "open" /\ \A k \in Handler : k # h => req'[k] = req[k]
      BY <3>1 DEF TypeOK, Request
    <3>3. QED
      BY <1>3, <1>4, <1>5, <2>1, <3>1, <3>2
  <2>4. QED
    BY <2>2, <2>3
<1>12. ASSUME UNCHANGED <<req, seen>>, UNCHANGED <<allow, block>>
       PROVE  VerdictInv'
  <2>1. \A k \in Handler : Informed(k)' /\ Justified(k)'
    BY <1>2, <1>12, RequestKept
  <2>2. QED
    BY <1>1, <1>3, <1>12, <2>1 DEF VerdictInv
<1>13. CASE AdminEdit
  <2>1. /\ UNCHANGED req
        /\ seen' = [h \in Handler |->
                      IF req[h].at \in {"blocklist", "lookup"}
                      THEN seen[h] \cup {Tables(PlateOf(req[h].frame), allow', block')}
                      ELSE seen[h]]
    BY <1>13 DEF AdminEdit
  <2>2. seen' = [h \in Handler |-> seen'[h]]
    BY <2>1
  <2>3. ASSUME NEW h \in Handler
        PROVE  Informed(h)' /\ Justified(h)'
    <3>1. /\ req[h].at \in {"blocklist", "lookup"} =>
               seen'[h] = seen[h] \cup {Tables(PlateOf(req[h].frame), allow', block')}
          /\ req[h].at \notin {"blocklist", "lookup"} => seen'[h] = seen[h]
      BY <2>1
    <3>2. QED
      BY <1>2, <2>1, <3>1 DEF Informed, Justified
  <2>4. QED
    BY <1>1, <2>2, <2>3 DEF VerdictInv
<1>14. CASE Restart
  <2>1. /\ \A h \in Handler : req'[h].at = "idle"
        /\ seen' = [h \in Handler |-> seen'[h]]
    BY <1>14 DEF Restart, IdleRequest
  <2>2. QED
    BY <1>1, <1>5, <2>1 DEF VerdictInv
<1>15. CASE AdminStartsListing \/ AdminLists \/ UNCHANGED vars
  BY <1>12, <1>15 DEF AdminStartsListing, AdminLists, StartWalk, NextPage, vars, storeVars
<1>16. ASSUME NEW g \in Gate, Sensing(g)
       PROVE  VerdictInv'
  BY <1>12, <1>16 DEF Sensing, Observe, ReceiveDecision, Unavailable, SubmitThrows, storeVars
<1>17. ASSUME NEW o \in Operator, Commanding(o)
       PROVE  VerdictInv'
  BY <1>12, <1>17 DEF Commanding, IssueCommand, PublishCommand, PublishAck, storeVars
<1>18. QED
  BY <1>7, <1>8, <1>9, <1>11, <1>13, <1>14, <1>15, <1>16, <1>17 DEF Next, Deciding

\* Every verdict that comes from the tables is justified by what they said while it was
\* made, for any tables, frames and edits, however the threads interleave (decide,
\* is_allowed_now).
THEOREM VerdictsJustified == Spec => []VerdictIsJustified
<1>1. Init => TypeOK /\ WorkInv /\ VerdictInv
  <2> SUFFICES ASSUME Init PROVE VerdictInv
    BY InitType
  <2>1. \A h \in Handler : req[h].at = "idle"
    BY DEF Init, IdleRequest
  <2>2. allow \in Table /\ seen = [h \in Handler |-> seen[h]]
    BY DEF Init, StoreInit, Table
  <2>3. QED
    BY <2>1, <2>2 DEF VerdictInv, Informed, Justified
<1>2. TypeOK /\ WorkInv /\ VerdictInv /\ [Next]_vars => TypeOK' /\ WorkInv' /\ VerdictInv'
  BY TypeStep, VerdictStep
<1>3. VerdictInv => VerdictIsJustified
  BY DEF VerdictInv, Justified, VerdictIsJustified
<1>4. QED
  BY <1>1, <1>2, <1>3, PTL DEF Spec

-----------------------------------------------------------------------------
(* Answers to admins.                                                      *)

\* A row that does not throw puts its plate on the list, and counts it as inserted if it
\* was not there.
LEMMA RowCounts ==
  ASSUME NEW t \in Progress, NEW row \in BatchRow, ~UpsertRow(t, row).failed
  PROVE  /\ ~t.failed
         /\ \E p \in Plate :
              /\ Listed(UpsertRow(t, row).table) = Listed(t.table) \cup {p}
              /\ UpsertRow(t, row).inserted = t.inserted + (IF p \in Listed(t.table) THEN 0 ELSE 1)
<1> DEFINE p == Normalize[row.text]
<1>1. p \in Plate \cup {0} /\ row.entry \in Entry
  BY StoreAssumption DEF BatchRow
<1>2. row.entry # NoEntry
  BY <1>1, StoreAssumption DEF NoEntry
<1>3. t.table \in Table
  BY DEF Progress
<1> HIDE DEF p
<1>4. ~(t.failed \/ p = 0)
  <2>1. SUFFICES ASSUME t.failed \/ p = 0 PROVE FALSE
    OBVIOUS
  <2>2. UpsertRow(t, row) = [t EXCEPT !.failed = TRUE]
    BY <2>1 DEF UpsertRow, p
  <2>3. UpsertRow(t, row).failed = TRUE
    BY <2>2 DEF Progress
  <2>4. QED
    BY <2>3
<1>5. /\ UpsertRow(t, row).table = [t.table EXCEPT ![p] = row.entry]
      /\ UpsertRow(t, row).inserted = t.inserted + (IF t.table[p] = NoEntry THEN 1 ELSE 0)
  BY <1>4 DEF UpsertRow, p
<1>6. p \in Plate
  BY <1>1, <1>4
<1>7. Listed(UpsertRow(t, row).table) = Listed(t.table) \cup {p}
  BY <1>2, <1>3, <1>5, <1>6 DEF Listed, Table
<1>8. p \in Listed(t.table) <=> t.table[p] # NoEntry
  BY <1>6 DEF Listed
<1>9. QED
  BY <1>4, <1>5, <1>6, <1>7, <1>8

\* What a transaction that has not failed has counted.
Counted(t) ==
  ~t.failed =>
    /\ Listed(allow) \subseteq Listed(t.table)
    /\ t.inserted = Cardinality(Listed(t.table) \ Listed(allow))

\* The counts are right after every row.
LEMMA TransactionCounts ==
  ASSUME allow \in Table, NEW b \in Batch
  PROVE  Transaction(b) \in Progress /\ Counted(Transaction(b))
<1>1. PICK g : IsRun(b, Len(b), g) /\ Transaction(b) = g[Len(b)]
  BY TransactionRuns
<1> DEFINE L == Len(b)
<1>2. L \in Nat /\ \A i \in 1..L : b[i] \in BatchRow
  <2>1. b \in Seq(BatchRow)
    BY StoreAssumption DEF BatchRow
  <2>2. QED
    BY <2>1
<1>3. IsRun(b, L, g)
  BY <1>1
<1> HIDE DEF L
<1> DEFINE Wrong == {k \in 0..L : ~Counted(g[k])}
<1>4. ASSUME Wrong # {}
      PROVE  FALSE
  <2>1. PICK k \in Wrong : \A m \in Wrong : k <= m
    <3>1. Wrong \subseteq Nat
      BY <1>2
    <3> HIDE DEF Wrong
    <3>2. QED
      BY <1>4, <3>1, LeastNumber
  <2>2. k # 0
    <3>1. g[0] = NoRows
      BY <1>3 DEF IsRun
    <3>2. NoRows.table = allow /\ NoRows.inserted = 0
      BY DEF NoRows
    <3>3. Listed(allow) \ Listed(allow) = {} /\ Cardinality({}) = 0
      BY FS_EmptySet
    <3>4. Counted(NoRows)
      BY <3>2, <3>3 DEF Counted
    <3>5. QED
      BY <3>1, <3>4
  <2>3. k - 1 \in 0..L /\ k - 1 \notin Wrong /\ k \in 1..L
    BY <1>2, <2>1, <2>2
  <2>4. /\ g[k] = UpsertRow(g[k - 1], b[k]) /\ g[k - 1] \in Progress /\ b[k] \in BatchRow
        /\ Counted(g[k - 1]) /\ ~Counted(g[k])
    BY <1>2, <1>3, <2>1, <2>3 DEF IsRun
  <2> DEFINE t == g[k - 1]
             u == g[k]
  <2>5. u = UpsertRow(t, b[k]) /\ t \in Progress /\ b[k] \in BatchRow /\ Counted(t) /\ ~Counted(u)
    BY <2>4
  <2> HIDE DEF t, u
  <2>6. ~u.failed
    BY <2>5 DEF Counted
  <2>7. PICK p \in Plate : /\ Listed(u.table) = Listed(t.table) \cup {p}
                           /\ u.inserted = t.inserted + (IF p \in Listed(t.table) THEN 0 ELSE 1)
    BY <2>5, <2>6, RowCounts
  <2>8. /\ Listed(allow) \subseteq Listed(t.table)
        /\ t.inserted = Cardinality(Listed(t.table) \ Listed(allow))
    BY <2>5, <2>6, RowCounts DEF Counted
  <2>9. CASE p \in Listed(t.table)
    <3>1. Listed(u.table) = Listed(t.table) /\ u.inserted = t.inserted
      BY <2>5, <2>7, <2>9 DEF Progress
    <3>2. QED
      BY <2>5, <2>8, <3>1 DEF Counted
  <2>10. CASE p \notin Listed(t.table)
    <3> DEFINE D == Listed(t.table) \ Listed(allow)
    <3>1. IsFiniteSet(D) /\ p \notin D
      <4>1. D \in SUBSET Plate /\ IsFiniteSet(Plate)
        BY StoreAssumption DEF Listed
      <4>2. QED
        BY <2>10, <4>1, FS_Subset
    <3>2. Listed(u.table) \ Listed(allow) = D \cup {p}
      BY <2>7, <2>8, <2>10
    <3>3. Cardinality(D \cup {p}) = Cardinality(D) + 1
      BY <3>1, FS_AddElement
    <3>4. u.inserted = t.inserted + 1
      BY <2>7, <2>10
    <3>5. QED
      BY <2>5, <2>7, <2>8, <3>2, <3>3, <3>4 DEF Counted
  <2>11. QED
    BY <2>9, <2>10
<1>5. L \in 0..L /\ L \notin Wrong /\ g[L] \in Progress
  BY <1>2, <1>3, <1>4 DEF IsRun
<1>6. QED
  BY <1>1, <1>5 DEF L

\* What one edit answers.
LEMMA EditAnswers ==
  ASSUME allow \in Table, Edit, allow' # allow
  PROVE  /\ reply'.ok
         /\ reply'.inserted = Cardinality(Listed(allow') \ Listed(allow))
         /\ Listed(allow) \ Listed(allow') # {} =>
              reply'.updated = Cardinality(Listed(allow) \ Listed(allow'))
<1>1. ASSUME NEW b \in Batch, Upsert(b)
      PROVE  /\ reply'.ok
             /\ reply'.inserted = Cardinality(Listed(allow') \ Listed(allow))
             /\ Listed(allow) \ Listed(allow') = {}
  <2> DEFINE t == Transaction(b)
  <2>1. t \in Progress /\ Counted(t)
    BY TransactionCounts
  <2>2. ~t.failed
    BY <1>1 DEF Upsert
  <2>3. reply' = Done(t.inserted, t.updated) /\ allow' = t.table
    BY <1>1, <2>2 DEF Upsert
  <2> HIDE DEF t
  <2>4. reply'.ok /\ reply'.inserted = t.inserted
    BY <2>3 DEF Done
  <2>5. QED
    BY <2>1, <2>2, <2>3, <2>4 DEF Counted
<1>2. ASSUME NEW l \in TextList, DeleteAllowlist(l)
      PROVE  /\ reply'.ok
             /\ reply'.inserted = Cardinality(Listed(allow') \ Listed(allow))
             /\ reply'.updated = Cardinality(Listed(allow) \ Listed(allow'))
  <2>1. allow' = [p \in Plate |-> IF p \in Named(l) THEN NoEntry ELSE allow[p]]
    BY <1>2 DEF DeleteAllowlist
  <2>2. Listed(allow') \ Listed(allow) = {} /\ Listed(allow) \ Listed(allow') = Listed(allow) \cap Named(l)
    BY <2>1 DEF Listed
  <2>3. reply' = Done(0, Cardinality(Listed(allow) \cap Named(l)))
    BY <1>2 DEF DeleteAllowlist
  <2>4. /\ reply'.ok /\ reply'.inserted = 0
        /\ reply'.updated = Cardinality(Listed(allow) \cap Named(l))
    BY <2>3 DEF Done
  <2>5. QED
    BY <2>2, <2>4, FS_EmptySet
<1>3. QED
  BY <1>1, <1>2 DEF Edit, TransactionFails, BlocklistUpsert, BlocklistRemove

\* What an admin is told is what happened, for any batch and any tables: an answer
\* that the allowlist changed is a success, and its counts are the rows that were added
\* and removed (upsert, remove).
THEOREM AdminToldTheTruth == Spec => AdminIsToldTheTruth
<1>1. Init => allow \in Table
  BY DEF Init, StoreInit, Table
<1>2. allow \in Table /\ [Next]_vars => (allow \in Table)'
  BY TableStep
<1>3. allow \in Table /\ [Next]_vars =>
        [ allow' # allow =>
            /\ reply'.ok
            /\ reply'.inserted = Cardinality(Listed(allow') \ Listed(allow))
            /\ Listed(allow) \ Listed(allow') # {} =>
                 reply'.updated = Cardinality(Listed(allow) \ Listed(allow')) ]_storeVars
  BY TableStep, EditAnswers DEF AdminEdit
<1>4. QED
  BY <1>1, <1>2, <1>3, PTL DEF Spec, AdminIsToldTheTruth

-----------------------------------------------------------------------------
(* Listings.  A page is a stretch of the ordered allowlist from its token  *)
(* on, and nothing is left out between a token and the page it names.      *)

Increasing(r) == \A i, j \in DOMAIN r : i < j => r[i] < r[j]

Sortable(S) == \E r \in [1..Cardinality(S) -> S] : Increasing(r)

\* A finite set of numbers can be sorted: its least element, and then the others.
LEMMA SortExists ==
  ASSUME NEW S, S \subseteq Nat, IsFiniteSet(S)
  PROVE  Sortable(S)
<1> DEFINE bad == {n \in Nat : \E T \in SUBSET S : Cardinality(T) = n /\ ~Sortable(T)}
<1>1. ASSUME NEW T \in SUBSET S
      PROVE  IsFiniteSet(T) /\ Cardinality(T) \in Nat
  BY FS_Subset, FS_CardinalityType
<1>2. SUFFICES ASSUME bad # {} PROVE FALSE
  <2>1. CASE Sortable(S)
    BY <2>1
  <2>2. CASE ~Sortable(S)
    <3>1. Cardinality(S) \in bad
      BY <1>1, <2>2
    <3>2. QED
      BY <1>2, <3>1
  <2>3. QED
    BY <2>1, <2>2
<1>3. bad \subseteq Nat
  OBVIOUS
<1> HIDE DEF bad
<1>4. PICK n \in bad : \A m \in bad : n <= m
  BY <1>2, <1>3, LeastNumber
<1> USE DEF bad
<1>5. PICK T \in SUBSET S : Cardinality(T) = n /\ ~Sortable(T)
  BY <1>4
<1>6. n \in Nat /\ IsFiniteSet(T) /\ T \subseteq Nat
  BY <1>1, <1>4
<1>7. T # {}
  <2>1. SUFFICES ASSUME T = {} PROVE FALSE
    OBVIOUS
  <2>2. n = 0
    BY <1>5, <2>1, FS_EmptySet
  <2>3. [i \in 1..0 |-> 0] \in [1..0 -> T] /\ Increasing([i \in 1..0 |-> 0])
    BY DEF Increasing
  <2>4. QED
    BY <1>5, <2>2, <2>3 DEF Sortable
<1>8. PICK m \in T : \A k \in T : m <= k
  BY <1>6, <1>7, LeastNumber
<1> DEFINE U == T \ {m}
<1>9. Cardinality(U) = n - 1 /\ n - 1 \in Nat
  <2>1. U \in SUBSET S
    BY <1>5
  <2>2. Cardinality(U) = n - 1
    BY <1>5, <1>6, <1>8, FS_RemoveElement
  <2>3. QED
    BY <1>1, <2>1, <2>2
<1>10. Sortable(U)
  <2>1. ~(n - 1 \in bad)
    BY <1>4, <1>6, <1>9
  <2>2. U \in SUBSET S
    BY <1>5
  <2>3. QED
    BY <1>9, <2>1, <2>2
<1>11. PICK q \in [1..(n - 1) -> U] : Increasing(q)
  BY <1>9, <1>10 DEF Sortable
<1> DEFINE r == [i \in 1..n |-> IF i = 1 THEN m ELSE q[i - 1]]
<1>12. r \in [1..n -> T]
  BY <1>6, <1>8, <1>11
<1>13. Increasing(r)
  <2>1. SUFFICES ASSUME NEW i \in 1..n, NEW j \in 1..n, i < j PROVE r[i] < r[j]
    BY DEF Increasing
  <2>2. j - 1 \in 1..(n - 1) /\ r[j] = q[j - 1] /\ q[j - 1] \in U
    BY <1>6, <1>11, <2>1
  <2>3. CASE i = 1
    <3>1. r[i] = m
      BY <2>1, <2>3
    <3>2. q[j - 1] \in Nat /\ m \in Nat /\ m <= q[j - 1] /\ m # q[j - 1]
      BY <1>6, <1>8, <2>2
    <3>3. QED
      BY <2>2, <3>1, <3>2
  <2>4. CASE i # 1
    <3>1. i - 1 \in 1..(n - 1) /\ i - 1 < j - 1 /\ r[i] = q[i - 1]
      BY <1>6, <2>1, <2>4
    <3>2. QED
      BY <1>11, <2>2, <3>1 DEF Increasing
  <2>5. QED
    BY <2>3, <2>4
<1>14. QED
  BY <1>5, <1>12, <1>13 DEF Sortable

\* ORDER BY returns every row once, in order.
LEMMA OrderedIs ==
  ASSUME NEW S, S \subseteq Nat, IsFiniteSet(S)
  PROVE  /\ Cardinality(S) \in Nat
         /\ Ordered(S) \in [1..Cardinality(S) -> S]
         /\ \A i, j \in 1..Cardinality(S) : i < j => Ordered(S)[i] < Ordered(S)[j]
         /\ \A p \in S : \E i \in 1..Cardinality(S) : Ordered(S)[i] = p
<1> DEFINE n == Cardinality(S)
           r == Ordered(S)
<1>1. n \in Nat
  BY FS_CardinalityType
<1>2. r \in [1..n -> S] /\ \A i, j \in DOMAIN r : i < j => r[i] < r[j]
  <2>1. \E q \in [1..n -> S] : \A i, j \in DOMAIN q : i < j => q[i] < q[j]
    BY SortExists DEF Sortable, Increasing
  <2>2. QED
    BY <2>1, Zenon DEF Ordered
<1> HIDE DEF r, n
<1>3. \A i, j \in 1..n : i < j => r[i] < r[j]
  BY <1>2
<1>4. r \in Injection(1..n, S)
  <2>1. ASSUME NEW i \in 1..n, NEW j \in 1..n, r[i] = r[j]
        PROVE  i = j
    <3>1. r[i] \in Nat /\ r[j] \in Nat /\ i \in Int /\ j \in Int
      <4>1. r[i] \in S /\ r[j] \in S
        BY <1>2
      <4>2. r[i] \in Nat /\ r[j] \in Nat
        BY <4>1, Zenon
      <4>3. QED
        BY <1>1, <4>2
    <3>2. ~(r[i] < r[j]) /\ ~(r[j] < r[i])
      BY <2>1, <3>1
    <3>3. QED
      BY <1>3, <3>1, <3>2
  <2>2. QED
    BY <1>2, <2>1 DEF Injection, IsInjective
<1>5. Cardinality(1..n) = n
  BY <1>1, FS_Interval
<1>6. r \in Surjection(1..n, S)
  BY <1>4, <1>5, FS_Injection DEF n
<1>7. QED
  BY <1>1, <1>2, <1>3, <1>6 DEF n, r, Surjection

\* What a listing shows of an entry: all of it, or all but its classes and windows.
Shown == LET row == Entry \cup {NoEntry}
         IN row \cup {[e EXCEPT !.classes = {}, !.windows = {}] : e \in row}

Line == [plate : Plate, entry : Shown]

\* A page is the stretch of the list that follows the token, up to the next token.
Stretch(page, token) ==
  /\ page.next \in Nat /\ page.entries \in Seq(Line)
  /\ \A i, j \in DOMAIN page.entries :
       i < j => page.entries[i].plate < page.entries[j].plate
  /\ \A i \in DOMAIN page.entries :
       /\ page.entries[i].plate > token
       /\ page.next # 0 => page.entries[i].plate <= page.next
  /\ page.next # 0 => page.next > token
  /\ \A p \in Listed(allow) : p > token =>
       \/ page.next # 0 /\ p > page.next
       \/ \E i \in DOMAIN page.entries : page.entries[i].plate = p

\* list() returns such a page, for any page size.
LEMMA PageIs ==
  ASSUME allow \in Table, NEW token \in Nat, NEW size \in PageSize
  PROVE  Stretch(Page(size, token), token)
<1> DEFINE S == {p \in Listed(allow) : p > token}
           n == Cardinality(S)
           rows == Rows(token)
           k == Limit(size)
           page == Page(size, token)
           bare(p) == [allow[p] EXCEPT !.classes = {}, !.windows = {}]
<1>1. S \subseteq Plate /\ Plate \subseteq Nat \ {0} /\ IsFiniteSet(S)
  BY StoreAssumption, FS_Subset DEF Listed
<1>2. /\ n \in Nat /\ rows \in [1..n -> S]
      /\ \A i, j \in 1..n : i < j => rows[i] < rows[j]
      /\ \A p \in S : \E i \in 1..n : rows[i] = p
  BY <1>1, OrderedIs DEF Rows
<1>3. DOMAIN rows = 1..n /\ Len(rows) = n
  <2>1. rows \in Seq(S)
    BY <1>2, SeqDef
  <2>2. QED
    BY <1>2, <2>1, LenProperties
<1>4. k \in Nat \ {0}
  BY StoreAssumption DEF Limit
<1>5. ASSUME NEW i \in 1..n
      PROVE  /\ rows[i] \in S /\ rows[i] \in Plate /\ rows[i] > token
             /\ rows[i] \in Nat /\ rows[i] # 0
             /\ allow[rows[i]] \in Shown /\ bare(rows[i]) \in Shown
  BY <1>1, <1>2 DEF Table, Shown
<1>6. ASSUME NEW i \in 1..n, NEW j \in 1..n, i <= j
      PROVE  rows[i] <= rows[j]
  <2>1. i = j \/ i < j
    BY <1>2, <1>6
  <2>2. rows[i] \in Nat /\ rows[j] \in Nat
    BY <1>5
  <2> HIDE DEF rows, n
  <2>3. QED
    BY <1>2, <2>1, <2>2
<1> HIDE DEF S, rows, k, n
<1>7. CASE n > k
  <2>1. /\ page.next = rows[k]
        /\ page.entries = [i \in 1..k |-> [plate |-> rows[i], entry |-> bare(rows[i])]]
    BY <1>3, <1>7 DEF Page, rows, k
  <2> DEFINE entries == [i \in 1..k |-> [plate |-> rows[i], entry |-> bare(rows[i])]]
  <2>2. k \in 1..n /\ \A i \in 1..k : i \in 1..n
    BY <1>2, <1>4, <1>7
  <2>3. entries \in [1..k -> Line]
    BY <1>5, <2>2 DEF Line
  <2>4. entries \in Seq(Line)
    BY <1>4, <2>3, SeqDef
  <2>5. ASSUME NEW i \in 1..k
        PROVE  entries[i].plate = rows[i]
    OBVIOUS
  <2>6. DOMAIN entries = 1..k
    OBVIOUS
  <2>7. ASSUME NEW p \in Listed(allow), p > token
        PROVE  p > rows[k] \/ \E i \in 1..k : rows[i] = p
    <3>1. PICK i \in 1..n : rows[i] = p
      BY <1>2, <2>7 DEF S
    <3>2. CASE i <= k
      BY <1>4, <3>1, <3>2
    <3>3. CASE i > k
      BY <1>2, <1>4, <2>2, <3>1, <3>3
    <3>4. QED
      BY <1>4, <3>2, <3>3
  <2>8. k \in 1..n /\ k \in 1..k
    BY <1>4, <2>2
  <2>9. k \in 1..k /\ rows[k] \in Nat /\ rows[k] # 0 /\ rows[k] > token
    BY <1>5, <2>8
  <2>10. \A i, j \in 1..k : i < j => rows[i] < rows[j]
    BY <1>2, <2>2
  <2>11. \A i \in 1..k : rows[i] > token /\ rows[i] <= rows[k]
    <3>1. ASSUME NEW i \in 1..k PROVE rows[i] > token /\ rows[i] <= rows[k]
      <4>1. i \in 1..n /\ i <= k
        BY <1>4, <2>2
      <4>2. rows[i] > token
        BY <1>5, <4>1
      <4>3. rows[i] <= rows[k]
        BY <1>6, <2>8, <4>1
      <4>4. QED
        BY <4>2, <4>3
    <3>2. QED
      BY <3>1
  <2>12. page.entries = entries
    BY <2>1
  <2> HIDE DEF entries, page
  <2>13. \A i \in DOMAIN page.entries : i \in 1..k /\ page.entries[i].plate = rows[i]
    BY <2>5, <2>6, <2>12
  <2>14. \A i, j \in DOMAIN page.entries :
           i < j => page.entries[i].plate < page.entries[j].plate
    BY <2>10, <2>13
  <2>15. \A p \in Listed(allow) : p > token =>
           \/ p > rows[k]
           \/ \E i \in DOMAIN page.entries : page.entries[i].plate = p
    BY <2>5, <2>6, <2>7, <2>12
  <2>16. \A i \in DOMAIN page.entries :
           page.entries[i].plate > token /\ page.entries[i].plate <= rows[k]
    BY <2>11, <2>13
  <2>17. QED
    BY <2>1, <2>4, <2>9, <2>12, <2>14, <2>15, <2>16 DEF Stretch, page
<1>8. CASE ~(n > k)
  <2>1. /\ page.next = 0
        /\ page.entries = [i \in 1..n |-> [plate |-> rows[i], entry |-> allow[rows[i]]]]
    BY <1>3, <1>8 DEF Page, rows, k
  <2> DEFINE entries == [i \in 1..n |-> [plate |-> rows[i], entry |-> allow[rows[i]]]]
  <2>2. entries \in [1..n -> Line]
    BY <1>5 DEF Line
  <2>3. entries \in Seq(Line)
    BY <1>2, <2>2, SeqDef
  <2>4. ASSUME NEW i \in 1..n
        PROVE  entries[i].plate = rows[i]
    OBVIOUS
  <2>5. DOMAIN entries = 1..n
    OBVIOUS
  <2>6. ASSUME NEW p \in Listed(allow), p > token
        PROVE  \E i \in 1..n : rows[i] = p
    BY <1>2, <2>6 DEF S
  <2>7. \A i \in 1..n : rows[i] > token
    BY <1>5
  <2>8. page.entries = entries
    BY <2>1
  <2> HIDE DEF entries, page
  <2>9. \A i \in DOMAIN page.entries : i \in 1..n /\ page.entries[i].plate = rows[i]
    BY <2>4, <2>5, <2>8
  <2>10. \A i, j \in DOMAIN page.entries :
           i < j => page.entries[i].plate < page.entries[j].plate
    BY <1>2, <2>9
  <2>11. \A p \in Listed(allow) : p > token =>
           \E i \in DOMAIN page.entries : page.entries[i].plate = p
    BY <2>4, <2>5, <2>6, <2>8
  <2>12. QED
    BY <2>1, <2>3, <2>7, <2>8, <2>9, <2>10, <2>11 DEF Stretch, page
<1>9. QED
  BY <1>2, <1>4, <1>7, <1>8

\* A listing: what it has shown so far is in order and not past its token, and of the
\* rows that were there all the time none is left out up to the token.
WalkInv ==
  /\ walk.open \in BOOLEAN /\ walk.token \in Nat /\ walk.pages \in Seq(Line)
  /\ walk = [open |-> walk.open, token |-> walk.token, pages |-> walk.pages,
             steady |-> walk.steady]
  /\ walk.steady \subseteq Plate
  /\ \A i, j \in DOMAIN walk.pages : i < j => walk.pages[i].plate < walk.pages[j].plate
  /\ walk.open => \A i \in DOMAIN walk.pages : walk.pages[i].plate <= walk.token
  /\ walk.open => walk.steady \subseteq Listed(allow)
  /\ \A p \in walk.steady : \/ walk.open /\ p > walk.token
                            \/ \E i \in DOMAIN walk.pages : walk.pages[i].plate = p

\* Every step keeps it: a page goes on where the last one ended, and an edit can only
\* take plates from those that have been there all the time.
LEMMA WalkStep ==
  ASSUME allow \in Table, WalkInv, [Next]_vars
  PROVE  WalkInv'
<1>1. \A p \in Plate : p \in Nat /\ p # 0
  BY StoreAssumption
<1>2. Listed(allow) \subseteq Plate /\ Listed(allow') \subseteq Plate
  BY DEF Listed
<1>3. CASE AdminStartsListing
  <2>1. /\ walk' = [open |-> TRUE, token |-> 0, pages |-> <<>>, steady |-> Listed(allow)]
        /\ allow' = allow
    BY <1>3 DEF AdminStartsListing, StartWalk, NoWalk
  <2>2. <<>> \in Seq(Line) /\ DOMAIN <<>> = {}
    OBVIOUS
  <2>3. \A p \in Listed(allow) : p > 0
    BY <1>1, <1>2
  <2>4. QED
    BY <1>2, <2>1, <2>2, <2>3 DEF WalkInv
<1>4. CASE AdminLists
  <2>1. PICK size \in PageSize : NextPage(size)
    BY <1>4 DEF AdminLists
  <2> DEFINE page == Page(size, walk.token)
  <2>2. Stretch(page, walk.token)
    BY PageIs DEF WalkInv
  <2>3. /\ walk.open /\ allow' = allow
        /\ walk' = [open |-> page.next # 0, token |-> page.next,
                    pages |-> walk.pages \o page.entries, steady |-> walk.steady]
    BY <2>1 DEF NextPage, WalkInv
  <2> HIDE DEF page
  <2> DEFINE old == walk.pages
             new == page.entries
             n == Len(old)
             all == old \o new
  <2>4. old \in Seq(Line) /\ new \in Seq(Line)
    BY <2>2 DEF WalkInv, Stretch
  <2>5. /\ n \in Nat /\ Len(new) \in Nat /\ DOMAIN old = 1..n /\ DOMAIN new = 1..Len(new)
        /\ all \in Seq(Line) /\ DOMAIN all = 1..(n + Len(new))
        /\ \A i \in 1..n : all[i] = old[i]
        /\ \A i \in 1..Len(new) : all[n + i] = new[i]
    <3> HIDE DEF old, new
    <3>1. /\ Len(old) \in Nat /\ Len(new) \in Nat
          /\ DOMAIN old = 1..Len(old) /\ DOMAIN new = 1..Len(new)
      BY <2>4, LenProperties
    <3>2. /\ all \in Seq(Line) /\ Len(all) = Len(old) + Len(new)
          /\ \A i \in 1..(Len(old) + Len(new)) :
               all[i] = IF i <= Len(old) THEN old[i] ELSE new[i - Len(old)]
      BY <2>4, ConcatProperties
    <3>3. DOMAIN all = 1..(Len(old) + Len(new))
      BY <3>2, LenProperties
    <3> HIDE DEF all
    <3>4. ASSUME NEW i \in 1..Len(old) PROVE all[i] = old[i]
      BY <3>1, <3>2
    <3>5. ASSUME NEW i \in 1..Len(new) PROVE all[Len(old) + i] = new[i]
      <4>1. /\ Len(old) + i \in 1..(Len(old) + Len(new)) /\ ~(Len(old) + i <= Len(old))
            /\ (Len(old) + i) - Len(old) = i
        BY <3>1
      <4>2. QED
        BY <3>2, <4>1
    <3>6. QED
      BY <3>1, <3>2, <3>3, <3>4, <3>5
  <2>6. /\ \A i \in 1..n : old[i].plate \in Nat
        /\ \A i \in 1..Len(new) : new[i].plate \in Nat
    <3> HIDE DEF old, new
    <3>1. \A i \in 1..Len(old) : old[i] \in Line
      BY <2>4, ElementOfSeq
    <3>2. \A i \in 1..Len(new) : new[i] \in Line
      BY <2>4, ElementOfSeq
    <3>3. \A l \in Line : l.plate \in Nat
      BY <1>1 DEF Line
    <3>4. QED
      BY <3>1, <3>2, <3>3
  <2>7. /\ \A i, j \in 1..n : i < j => old[i].plate < old[j].plate
        /\ \A i \in 1..n : old[i].plate <= walk.token
        /\ walk.token \in Nat /\ walk.steady \subseteq Listed(allow)
        /\ \A p \in walk.steady : p > walk.token \/ \E i \in 1..n : old[i].plate = p
    BY <2>3, <2>5 DEF WalkInv
  <2>8. /\ page.next \in Nat /\ (page.next # 0 => page.next > walk.token)
        /\ \A i, j \in 1..Len(new) : i < j => new[i].plate < new[j].plate
        /\ \A i \in 1..Len(new) : /\ new[i].plate > walk.token
                                  /\ page.next # 0 => new[i].plate <= page.next
        /\ \A p \in Listed(allow) : p > walk.token =>
             \/ page.next # 0 /\ p > page.next
             \/ \E i \in 1..Len(new) : new[i].plate = p
    BY <2>2, <2>5 DEF Stretch
  <2> HIDE DEF old, new, n, all
  <2>9. ASSUME NEW i \in DOMAIN all
        PROVE  (i \in 1..n) \/ \E k \in 1..Len(new) : i = n + k
    <3>1. CASE i <= n
      BY <2>5, <3>1
    <3>2. CASE i > n
      <4>1. i - n \in 1..Len(new) /\ i = n + (i - n)
        BY <2>5, <3>2
      <4>2. QED
        BY <4>1
    <3>3. QED
      BY <2>5, <3>1, <3>2
  <2>10. ASSUME NEW i \in DOMAIN all, NEW j \in DOMAIN all, i < j
         PROVE  all[i].plate < all[j].plate
    <3>1. CASE i \in 1..n /\ j \in 1..n
      BY <2>5, <2>7, <2>10, <3>1
    <3>2. ASSUME NEW k \in 1..Len(new), j = n + k, i \in 1..n
          PROVE  all[i].plate < all[j].plate
      <4>1. all[i] = old[i] /\ all[j] = new[k]
        BY <2>5, <3>2
      <4>2. old[i].plate <= walk.token /\ new[k].plate > walk.token
        BY <2>7, <2>8, <3>2
      <4>3. QED
        BY <2>6, <2>7, <3>2, <4>1, <4>2
    <3>3. ASSUME NEW k \in 1..Len(new), i = n + k
          PROVE  all[i].plate < all[j].plate
      <4>1. PICK m \in 1..Len(new) : j = n + m
        BY <2>5, <2>9, <2>10, <3>3
      <4>2. k < m
        BY <2>5, <2>10, <3>3, <4>1
      <4>3. QED
        BY <2>5, <2>8, <3>3, <4>1, <4>2
    <3>4. QED
      BY <2>9, <3>1, <3>2, <3>3
  <2>11. ASSUME page.next # 0, NEW i \in DOMAIN all
         PROVE  all[i].plate <= page.next
    <3>1. CASE i \in 1..n
      BY <2>5, <2>6, <2>7, <2>8, <2>11, <3>1
    <3>2. ASSUME NEW k \in 1..Len(new), i = n + k
          PROVE  all[i].plate <= page.next
      BY <2>5, <2>8, <2>11, <3>2
    <3>3. QED
      BY <2>9, <3>1, <3>2
  <2>12. ASSUME NEW p \in walk.steady
         PROVE  (page.next # 0 /\ p > page.next) \/ \E i \in DOMAIN all : all[i].plate = p
    <3>1. ASSUME NEW i \in 1..n, old[i].plate = p
          PROVE  \E k \in DOMAIN all : all[k].plate = p
      <4>1. i \in DOMAIN all /\ all[i].plate = p
        BY <2>5, <3>1
      <4>2. QED
        BY <4>1
    <3>2. ASSUME NEW i \in 1..Len(new), new[i].plate = p
          PROVE  \E k \in DOMAIN all : all[k].plate = p
      <4>1. n + i \in DOMAIN all /\ all[n + i].plate = p
        BY <2>5, <3>2
      <4>2. QED
        BY <4>1
    <3>3. QED
      BY <2>7, <2>8, <3>1, <3>2
  <2>13. /\ walk'.open = (page.next # 0) /\ walk'.token = page.next /\ walk'.pages = all
         /\ walk'.steady = walk.steady
         /\ walk' = [open |-> walk'.open, token |-> walk'.token, pages |-> walk'.pages,
                     steady |-> walk'.steady]
    BY <2>3 DEF all, old, new
  <2>14. /\ walk'.open \in BOOLEAN /\ walk'.token \in Nat /\ walk'.pages \in Seq(Line)
         /\ walk'.steady \subseteq Plate /\ walk'.steady \subseteq Listed(allow')
    BY <1>2, <2>3, <2>5, <2>7, <2>8, <2>13
  <2>15. \A i, j \in DOMAIN walk'.pages : i < j => walk'.pages[i].plate < walk'.pages[j].plate
    BY <2>10, <2>13
  <2>16. walk'.open => \A i \in DOMAIN walk'.pages : walk'.pages[i].plate <= walk'.token
    BY <2>11, <2>13
  <2>17. \A p \in walk'.steady : \/ walk'.open /\ p > walk'.token
                                 \/ \E i \in DOMAIN walk'.pages : walk'.pages[i].plate = p
    BY <2>12, <2>13
  <2>18. QED
    BY <2>13, <2>14, <2>15, <2>16, <2>17 DEF WalkInv
<1>5. CASE AdminEdit
  <2>1. walk' = [walk EXCEPT !.steady = @ \cap Listed(allow')]
    BY <1>5 DEF AdminEdit, Edit
  <2>2. /\ walk'.open = walk.open /\ walk'.token = walk.token /\ walk'.pages = walk.pages
        /\ walk'.steady = walk.steady \cap Listed(allow')
        /\ walk' = [open |-> walk'.open, token |-> walk'.token, pages |-> walk'.pages,
                    steady |-> walk'.steady]
    BY <2>1 DEF WalkInv
  <2>3. QED
    BY <1>2, <2>2 DEF WalkInv
<1>6. CASE ~(AdminStartsListing \/ AdminLists \/ AdminEdit)
  <2>1. UNCHANGED <<allow, walk>>
    BY <1>6, ZenonT(30)
            DEF Next, vars, storeVars, Deciding, SubmitDetection, Authorize, Begin, CheckBlocklist,
                Lookup, PublishDecision, PublishOpen, Sensing, Observe, ReceiveDecision,
                Unavailable, SubmitThrows, Commanding, IssueCommand, PublishCommand,
                PublishAck, Restart
  <2>2. QED
    BY <2>1 DEF WalkInv
<1>7. QED
  BY <1>3, <1>4, <1>5, <1>6

\* A listing is exact for any allowlist, any page sizes and any edits between the pages:
\* plates come in order and once, and a plate that was on the allowlist from the first
\* page to the last is among them (list's token and its limit + 1 rows).
THEOREM ListingsExact == Spec => []ListingIsExact
<1>1. Init => allow \in Table /\ WalkInv
  <2>1. ASSUME Init
        PROVE  /\ allow = [p \in Plate |-> NoEntry]
               /\ walk = [open |-> FALSE, token |-> 0, pages |-> <<>>, steady |-> {}]
    BY <2>1 DEF Init, StoreInit, NoWalk
  <2>2. <<>> \in Seq(Line) /\ DOMAIN <<>> = {}
    OBVIOUS
  <2>3. QED
    <3>1. ASSUME Init PROVE allow \in Table
      BY <2>1, <3>1 DEF Table
    <3>2. ASSUME Init PROVE WalkInv
      <4>1. /\ walk.open = FALSE /\ walk.token = 0 /\ walk.pages = <<>> /\ walk.steady = {}
            /\ walk = [open |-> walk.open, token |-> walk.token, pages |-> walk.pages,
                       steady |-> walk.steady]
        BY <2>1, <3>2
      <4>2. walk.pages \in Seq(Line) /\ DOMAIN walk.pages = {} /\ ~walk.open
        BY <2>2, <4>1
      <4>3. walk.open \in BOOLEAN
        BY <4>1, Zenon
      <4>4. walk.token \in Nat
        BY <4>1
      <4>5. QED
        BY <4>1, <4>2, <4>3, <4>4 DEF WalkInv
    <3>3. QED
      BY <3>1, <3>2
<1>2. allow \in Table /\ WalkInv /\ [Next]_vars => (allow \in Table)' /\ WalkInv'
  BY TableStep, WalkStep
<1>3. WalkInv => ListingIsExact
  BY DEF WalkInv, ListingIsExact, Returned, Range
<1>4. QED
  BY <1>1, <1>2, <1>3, PTL DEF Spec

=============================================================================
