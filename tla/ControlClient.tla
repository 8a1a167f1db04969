--------------------------- MODULE ControlClient ---------------------------
(***************************************************************************)
(* The firmware's Control-stream client (firmware/components/gate_rpc),    *)
(* the command dispatcher app_main gives it, and the two threads that talk *)
(* to it: the gate_ctrl pump, which reports gate events, and the OTA task, *)
(* which completes its own command.                                        *)
(*                                                                         *)
(* The gate is GateStateMachine behind its event queue; GateController     *)
(* looks inside the pump.  Here a pump turn is: handle one event, call the *)
(* listener, send the ack.  The gate_rpc task runs sessions: connect, pump *)
(* until the stream dies, drop the outbound queue, reconnect.  Time and    *)
(* the network are abstracted: the deadline, the telemetry period, a       *)
(* session's start and its end may come at any moment.  A frame is its     *)
(* kind and its command; the gate state it reports, HTTP/2 and the         *)
(* encoding are left out.                                                  *)
(***************************************************************************)
EXTENDS Naturals, Sequences, CommandTracker

CONSTANTS
  Kinds,      \* command kinds the server sends
  QueueDepth, \* event queue of the gate controller
  OutDepth    \* kOutQueueDepth

Kind == {"OPEN_GATE", "CLOSE_GATE", "LED_PATTERN", "REBOOT", "BEGIN_OTA", "LATCH_OPEN"}

ASSUME ClientAssumption ==
  /\ Kinds \subseteq Kind
  /\ QueueDepth \in Nat \ {0}
  /\ OutDepth \in Nat \ {0}

VARIABLES
  sm,         \* the gate's machine
  evq,        \* the controller's event queue, each event with the command behind it
  pump,       \* next call of the gate_ctrl pump: "recv", "notify" or "ack"
  out,        \* what the listener is about to report
  rpc,        \* next call of the gate_rpc task (RpcCall)
  cmd,        \* command in handle_command
  verdict,    \* verdict each thread is about to ack
  held,       \* frame a foreign thread has checked connected_ for, not yet queued
  connected,  \* connected_
  outq,       \* out_queue_
  tracker,    \* tracker_
  ota,        \* OtaUpdater task
  otaCmd,     \* ota_cmd_id
  reboot,     \* reboot_timer active
  fate        \* what became of each command the server sent

gateVars == <<sm, evq>>
pumpVars == <<pump, out>>
rpcVars == <<rpc, cmd>>
otaVars == <<ota, otaCmd, reboot>>
ackVars == <<verdict, held, outq, fate>>
vars == <<gateVars, pumpVars, rpcVars, connected, otaVars, ackVars, tracker>>

RpcCall == {"down", "hello", "loop", "dispatch", "arm", "ack", "reset"}

Frame == [type : {"telemetry", "received", "completed"}, id : Cmd \cup {NoCmd}]

NoOut == [s |-> "Initializing", r |-> "None", transitioned |-> FALSE, cmd |-> NoCmd]

NoFrame == <<>>

NoCommand == [id |-> NoCmd, kind |-> "LED_PATTERN"]

-----------------------------------------------------------------------------
(* Acks.                                                                   *)

Receipt(c) == [type |-> "received", id |-> c]

Completion(v) == [type |-> "completed", id |-> v.id]

\* Broken variant: acks jump the queue.
EnqueuedFirst(q, f) ==
  IF Len(q) >= OutDepth THEN q
  ELSE IF f.type = "completed" THEN <<f>> \o q ELSE Append(q, f)

\* xQueueSend without waiting: a full queue drops the frame.
Enqueued(q, f) == IF Len(q) < OutDepth THEN Append(q, f) ELSE q

\* send_envelope() on the gate_rpc task, the only writer of connected_.
SendOwn(f) == outq' = IF connected THEN Enqueued(outq, f) ELSE outq

\* Every completion of a command is recorded with the command.
Answer(c) ==
  fate' = [fate EXCEPT ![c] = IF @ = "received" THEN "completed" ELSE "twice"]

\* send_ack_completed() on another thread: the frame is built and connected_
\* read; the queue send is a step of its own.
SendForeign(t, v) ==
  /\ Answer(v.id)
  /\ held' = [held EXCEPT ![t] = IF connected THEN <<Completion(v)>> ELSE NoFrame]

ForeignEnqueue(t) ==
  /\ held[t] # NoFrame
  /\ outq' = Enqueued(outq, Head(held[t]))
  /\ held' = [held EXCEPT ![t] = NoFrame]
  /\ UNCHANGED <<gateVars, pumpVars, rpcVars, connected, otaVars, verdict, fate, tracker>>

-----------------------------------------------------------------------------
(* The gate_ctrl pump.                                                     *)

\* Broken variant: nothing bounds the queue.
PostedUnbounded(q, e, c) == Append(q, [ev |-> e, cmd |-> c])

\* post(): a full queue drops the event.
Posted(q, e, c) == IF Len(q) < QueueDepth THEN Append(q, [ev |-> e, cmd |-> c]) ELSE q

\* One event through handle, execute and the policies; q is the queue after
\* the event has left it.
Turn(e, c, q) ==
  LET o == Handle(sm, e)
  IN /\ pump = "recv" /\ held["pump"] = NoFrame
     /\ sm' = o.sm
     /\ evq' = IF /\ o.transitioned /\ o.sm.state = "StoppedClose"
                  /\ o.reason = "SafetyBeamObstacle"
               THEN Posted(q, "CommandOpen", NoCmd) ELSE q
     /\ IF o.transitioned \/ o.reason # "None"
        THEN /\ pump' = "notify"
             /\ out' = [s |-> o.sm.state, r |-> o.reason,
                        transitioned |-> o.transitioned, cmd |-> c]
        ELSE UNCHANGED pumpVars
     /\ UNCHANGED <<rpcVars, connected, otaVars, ackVars, tracker>>

\* A command or a reversal from the queue.
PumpCommand ==
  /\ evq # <<>>
  /\ Turn(Head(evq).ev, Head(evq).cmd, Tail(evq))

\* An event of the drivers, when the gate can raise it.
PumpInput ==
  \/ sm.state = "Opening" /\ Turn("LimitOpenHit", NoCmd, evq)
  \/ sm.state = "Closing" /\ Turn("LimitClosedHit", NoCmd, evq)
  \/ Moving(sm.state) /\ Turn("MotorTimeout", NoCmd, evq)
  \/ sm.beamClear /\ Turn("SafetyBeamTripped", NoCmd, evq)
  \/ ~sm.beamClear /\ Turn("SafetyBeamCleared", NoCmd, evq)

\* notify_gate_event(): ask the tracker about the gate's step.
NotifyGateEvent ==
  LET d == OnGateEvent(tracker, out.s, out.r, out.transitioned)
  IN /\ pump = "notify"
     /\ tracker' = d.tracker /\ verdict' = [verdict EXCEPT !["pump"] = d.verdict]
     /\ pump' = IF d.verdict = NoVerdict THEN "recv" ELSE "ack"
     /\ out' = NoOut
     /\ UNCHANGED <<gateVars, rpcVars, connected, otaVars, held, outq, fate>>

PumpAck ==
  /\ pump = "ack"
  /\ SendForeign("pump", verdict["pump"])
  /\ verdict' = [verdict EXCEPT !["pump"] = NoVerdict] /\ pump' = "recv"
  /\ UNCHANGED <<gateVars, out, rpcVars, connected, otaVars, outq, tracker>>

-----------------------------------------------------------------------------
(* The gate_rpc task: one session after another.                           *)

\* The stream counts as connected as soon as the request is submitted.
Connect ==
  /\ rpc = "down"
  /\ connected' = TRUE /\ rpc' = "hello"
  /\ UNCHANGED <<gateVars, pumpVars, cmd, otaVars, ackVars, tracker>>

\* send_telemetry(), first thing in a session and then once a period.
SendTelemetry ==
  /\ rpc \in {"hello", "loop"}
  /\ SendOwn([type |-> "telemetry", id |-> NoCmd])
  /\ rpc' = "loop"
  /\ UNCHANGED <<gateVars, pumpVars, cmd, connected, otaVars, verdict, held, fate, tracker>>

\* The pending command's deadline has passed; seen only inside a session.
DeadlineTick ==
  LET d == OnTick(tracker, TRUE)
  IN /\ rpc = "loop" /\ d.verdict # NoVerdict
     /\ tracker' = d.tracker /\ verdict' = [verdict EXCEPT !["rpc"] = d.verdict]
     /\ rpc' = "ack"
     /\ UNCHANGED <<gateVars, pumpVars, cmd, connected, otaVars, held, outq, fate>>

RpcAck ==
  /\ rpc = "ack"
  /\ Answer(verdict["rpc"].id) /\ SendOwn(Completion(verdict["rpc"]))
  /\ verdict' = [verdict EXCEPT !["rpc"] = NoVerdict] /\ rpc' = "loop"
  /\ UNCHANGED <<gateVars, pumpVars, cmd, connected, otaVars, held, tracker>>

\* The session takes a queued frame and writes it to the socket, or dies with it.
TakeFrame ==
  /\ rpc = "loop" /\ outq # <<>>
  /\ outq' = Tail(outq)
  /\ UNCHANGED <<gateVars, pumpVars, rpcVars, connected, otaVars, verdict, held, fate, tracker>>

\* The stream or the connection died, or none came about; the queue is dropped
\* next.
EndSession ==
  /\ rpc \in {"down", "loop"}
  /\ connected' = FALSE /\ rpc' = "reset"
  /\ UNCHANGED <<gateVars, pumpVars, cmd, otaVars, ackVars, tracker>>

\* task_main() drops what the session left in the queue.
ResetQueue ==
  /\ rpc = "reset"
  /\ outq' = <<>> /\ rpc' = "down"
  /\ UNCHANGED <<gateVars, pumpVars, cmd, connected, otaVars, verdict, held, fate, tracker>>

-----------------------------------------------------------------------------
(* handle_command() on the gate_rpc task.                                  *)

ReceiveCommand(c, k) ==
  /\ rpc = "loop" /\ fate[c] = "new"
  /\ fate' = [fate EXCEPT ![c] = "received"]
  /\ cmd' = [id |-> c, kind |-> k]
  /\ SendOwn(Receipt(c))
  /\ rpc' = "dispatch"
  /\ UNCHANGED <<gateVars, pumpVars, connected, otaVars, verdict, held, tracker>>

Terminal(k) == IF k = "OPEN_GATE" THEN "Open" ELSE "Closed"

\* Motion commands are queued for the pump before the tracker knows of them.
DispatchMotion ==
  /\ rpc = "dispatch" /\ cmd.kind \in {"OPEN_GATE", "CLOSE_GATE"}
  /\ evq' = Posted(evq, IF cmd.kind = "OPEN_GATE" THEN "CommandOpen" ELSE "CommandClose",
                   cmd.id)
  /\ rpc' = "arm"
  /\ UNCHANGED <<sm, pumpVars, cmd, connected, otaVars, ackVars, tracker>>

\* How a command is answered on the spot; a bad LED pattern is refused.
Answers(k) ==
  CASE k = "REBOOT" -> {"immediate"}
    [] k = "LED_PATTERN" -> {"immediate", "refused"}
    [] OTHER -> {"refused"}

\* Answered on the spot: the LED, a reboot that starts its timer, an update
\* refused because one runs or no task can be created for it, and the kinds
\* this profile does not support.
DispatchNow ==
  /\ rpc = "dispatch"
  /\ \/ cmd.kind \in {"LED_PATTERN", "LATCH_OPEN", "BEGIN_OTA"} /\ UNCHANGED reboot
     \/ cmd.kind = "REBOOT" /\ ~reboot /\ reboot' = TRUE
  /\ \E r \in Answers(cmd.kind) :
       verdict' = [verdict EXCEPT !["rpc"] = [id |-> cmd.id, rule |-> r]]
  /\ rpc' = "ack" /\ cmd' = NoCommand
  /\ UNCHANGED <<gateVars, pumpVars, connected, ota, otaCmd, held, outq, fate, tracker>>

\* The updater acks for itself when it is done.
DispatchOta ==
  /\ rpc = "dispatch" /\ cmd.kind = "BEGIN_OTA" /\ ota = "idle"
  /\ ota' = "running" /\ otaCmd' = cmd.id
  /\ rpc' = "loop" /\ cmd' = NoCommand
  /\ UNCHANGED <<gateVars, pumpVars, connected, reboot, ackVars, tracker>>

ArmTracker ==
  LET d == Arm(tracker, cmd.id, Terminal(cmd.kind))
  IN /\ rpc = "arm"
     /\ tracker' = d.tracker /\ verdict' = [verdict EXCEPT !["rpc"] = d.verdict]
     /\ rpc' = IF d.verdict = NoVerdict THEN "loop" ELSE "ack"
     /\ cmd' = NoCommand
     /\ UNCHANGED <<gateVars, pumpVars, connected, otaVars, held, outq, fate>>

-----------------------------------------------------------------------------
(* The OTA task and restarts.                                              *)

\* The done callback: the ack first.
OtaDone ==
  /\ ota = "running"
  /\ ota' \in {"staged", "failed"}
  /\ SendForeign("ota", [id |-> otaCmd,
                         rule |-> IF ota' = "staged" THEN "immediate" ELSE "refused"])
  /\ UNCHANGED <<gateVars, pumpVars, rpcVars, connected, otaCmd, reboot, verdict, outq, tracker>>

\* Then the reboot timer, and the updater is free again.
OtaFinish ==
  /\ ota \in {"staged", "failed"} /\ held["ota"] = NoFrame
  /\ ota = "staged" => ~reboot
  /\ reboot' = (reboot \/ ota = "staged")
  /\ ota' = "idle" /\ otaCmd' = NoCmd
  /\ UNCHANGED <<gateVars, pumpVars, rpcVars, connected, ackVars, tracker>>

\* The gate as start() resolves it.
Resolved == [state : {"Closed", "Open", "Faulted"}, reason : {"None"}, beamClear : BOOLEAN]

\* The reboot timer expired, or a second start of it tripped ESP_ERROR_CHECK
\* (the dispatcher or the updater then never returns). Commands without a
\* completion are lost with the tracker.
Restart ==
  /\ reboot
  /\ sm' \in Resolved /\ evq' = <<>> /\ pump' = "recv" /\ out' = NoOut
  /\ rpc' = "down" /\ cmd' = NoCommand
  /\ verdict' = [t \in {"pump", "rpc"} |-> NoVerdict]
  /\ held' = [t \in {"pump", "ota"} |-> NoFrame]
  /\ connected' = FALSE /\ outq' = <<>>
  /\ tracker' = Idle
  /\ ota' = "idle" /\ otaCmd' = NoCmd /\ reboot' = FALSE
  /\ fate' = [c \in Cmd |-> IF fate[c] = "received" THEN "lost" ELSE fate[c]]

Init ==
  /\ sm \in Resolved /\ evq = <<>> /\ pump = "recv" /\ out = NoOut
  /\ rpc = "down" /\ cmd = NoCommand
  /\ verdict = [t \in {"pump", "rpc"} |-> NoVerdict]
  /\ held = [t \in {"pump", "ota"} |-> NoFrame]
  /\ connected = FALSE /\ outq = <<>>
  /\ tracker = Idle
  /\ ota = "idle" /\ otaCmd = NoCmd /\ reboot = FALSE
  /\ fate = [c \in Cmd |-> "new"]

Pump == PumpCommand \/ NotifyGateEvent \/ PumpAck \/ ForeignEnqueue("pump")

\* The calls the gate_rpc task makes on its own once it has begun something.
RpcStep == \/ RpcAck \/ ResetQueue \/ DispatchMotion \/ DispatchNow
           \/ DispatchOta \/ ArmTracker

Ota == OtaDone \/ OtaFinish \/ ForeignEnqueue("ota")

Next ==
  \/ Pump \/ PumpInput
  \/ RpcStep \/ Connect \/ SendTelemetry \/ DeadlineTick \/ TakeFrame \/ EndSession
  \/ \E c \in Cmd, k \in Kinds : ReceiveCommand(c, k)
  \/ Ota \/ Restart

Spec == Init /\ [][Next]_vars

-----------------------------------------------------------------------------
(* Properties.                                                             *)

Fate == {"new", "received", "completed", "twice", "lost"}

\* The type of every variable; both queues keep their depth.
TypeOK ==
  /\ sm \in Machine
  /\ evq \in Seq([ev : Event, cmd : Cmd \cup {NoCmd}]) /\ Len(evq) <= QueueDepth
  /\ pump \in {"recv", "notify", "ack"}
  /\ out \in [s : State, r : Reason, transitioned : BOOLEAN, cmd : Cmd \cup {NoCmd}]
  /\ rpc \in RpcCall
  /\ cmd \in [id : Cmd \cup {NoCmd}, kind : Kind]
  /\ verdict \in [{"pump", "rpc"} -> Verdict]
  /\ held \in [{"pump", "ota"} -> Seq(Frame)]
  /\ connected \in BOOLEAN
  /\ outq \in Seq(Frame) /\ Len(outq) <= OutDepth
  /\ tracker \in Tracker
  /\ ota \in {"idle", "running", "staged", "failed"} /\ otaCmd \in Cmd \cup {NoCmd}
  /\ reboot \in BOOLEAN /\ fate \in [Cmd -> Fate]

\* Who is responsible for a command that has no completion yet: handle_command,
\* the tracker, a thread holding its verdict, or the updater.
Owned(c) ==
  \/ rpc \in {"dispatch", "arm"} /\ cmd.id = c
  \/ tracker.armed /\ tracker.id = c
  \/ verdict["pump"].id = c \/ verdict["rpc"].id = c
  \/ ota = "running" /\ otaCmd = c

\* The stage of a command; a command completed twice, forgotten, or completed and
\* still in somebody's hands has none.
StageOf(c) ==
  CASE fate[c] = "new" /\ ~Owned(c) -> "unknown"
    [] fate[c] = "received" /\ Owned(c) -> "owed"
    [] fate[c] = "completed" /\ ~Owned(c) -> "answered"
    [] fate[c] = "lost" /\ ~Owned(c) -> "lost"
    [] OTHER -> "none"

Contract == INSTANCE AckContract WITH stage <- [c \in Cmd |-> StageOf(c)]

\* The firmware keeps the contract, whichever of the pump, the deadline, a newer
\* command and the updater get to a command first: exactly one completion, never
\* while another thread still holds the command, and no received command that
\* nobody answers for (CommandTracker, handle_command, the updater's callback).
KeepsContract == Contract!Spec

\* The receipt of a command never follows its completion on the stream, although
\* the two are sent by different threads.
ReceiptFirst ==
  \A i, j \in 1..Len(outq) :
    (outq[i].type = "completed" /\ outq[j].type = "received" /\ i < j)
      => outq[i].id # outq[j].id

-----------------------------------------------------------------------------
(* Progress.                                                               *)

\* The tasks run; a deadline that stays due is seen by a pump loop that keeps
\* running; the updater ends (its HTTP client has timeouts).
Fairness ==
  /\ WF_vars(Pump) /\ WF_vars(RpcStep) /\ WF_vars(Ota)
  /\ SF_vars(DeadlineTick)

FairSpec == Spec /\ Fairness

\* A client that keeps getting sessions completes every command it received, or a
\* restart takes the command away.
CommandsEnd ==
  []<>(rpc = "loop") => \A c \in Cmd : (fate[c] = "received" ~> fate[c] # "received")

=============================================================================
