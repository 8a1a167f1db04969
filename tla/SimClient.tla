------------------------------ MODULE SimClient ------------------------------
(***************************************************************************)
(* The simulator process (simulation/src/sim_client.cpp, main.cpp) around  *)
(* VirtualGate: a session loop that advances the gate and writes its       *)
(* answers, a reader thread that takes the server's commands, an operator  *)
(* at the console, and a stream that may break at any moment.  Writes to a *)
(* broken stream fail unnoticed, except that of telemetry, which ends the  *)
(* loop as the reader's end does.                                          *)
(***************************************************************************)
EXTENDS VirtualGate, FiniteSets

CONSTANTS
  Tick,       \* tick_ms
  Backoff,    \* how far the gate is advanced between two sessions
  MaxBreaks   \* bound: broken streams and connections refused

ASSUME ClientAssumption ==
  /\ Tick \in Nat \ {0}
  /\ Backoff \subseteq Nat
  /\ MaxBreaks \in Nat

Kind == {"OPEN_GATE", "CLOSE_GATE", "REBOOT", "OTHER"}

VARIABLES
  gate,    \* the virtual gate
  stream,  \* "open", "broken", or "none" between two sessions
  reader,  \* [at, id, kind]: the reader thread
  loop,    \* "tick", "drain", "write" or "ended": the session loop
  batch,   \* answers drained and not yet written
  heard,   \* history: commands read; for each, answers written
  breaks   \* broken streams and connections refused so far

vars == <<gate, stream, reader, loop, batch, heard, breaks>>

Reading == [at |-> "read", id |-> NoCmd, kind |-> "OTHER"]
Gone == [Reading EXCEPT !.at = "ended"]

NotHeard == [read |-> FALSE, receipts |-> 0, answers |-> 0]

-----------------------------------------------------------------------------
(* The reader thread.                                                      *)

\* A command arrives and its receipt is written.
ReadCommand(c, k) ==
  /\ stream = "open" /\ reader.at = "read" /\ ~heard[c].read
  /\ reader' = [at |-> "handle", id |-> c, kind |-> k]
  /\ heard' = [heard EXCEPT ![c].read = TRUE, ![c].receipts = @ + 1]
  /\ UNCHANGED <<gate, stream, loop, batch, breaks>>

HandleMotion ==
  /\ reader.at = "handle" /\ reader.kind \in {"OPEN_GATE", "CLOSE_GATE"}
  /\ reader' = Reading
  /\ UNCHANGED <<stream, loop, batch, heard, breaks>>
  /\ gate' = Issue(gate, reader.id,
                   IF reader.kind = "OPEN_GATE" THEN "CommandOpen" ELSE "CommandClose")

HandleReboot ==
  /\ reader.at = "handle" /\ reader.kind = "REBOOT"
  /\ reader' = [reader EXCEPT !.at = "answer"]
  /\ UNCHANGED <<stream, loop, batch, heard, breaks>>
  /\ gate' = Reboot(gate)

\* A reboot that is done; a kind that is answered at once.
AnswerNow ==
  /\ \/ reader.at = "answer"
     \/ reader.at = "handle" /\ reader.kind = "OTHER"
  /\ heard' = [heard EXCEPT ![reader.id].answers = @ + 1]
  /\ reader' = Reading
  /\ UNCHANGED <<gate, stream, loop, batch, breaks>>

ReaderEnds ==
  /\ stream = "broken" /\ reader.at = "read"
  /\ reader' = Gone
  /\ UNCHANGED <<gate, stream, loop, batch, heard, breaks>>

-----------------------------------------------------------------------------
(* The session loop.                                                       *)

LoopTick ==
  /\ loop = "tick" /\ reader.at # "ended"
  /\ loop' = "drain"
  /\ UNCHANGED <<stream, reader, batch, heard, breaks>>
  /\ gate' = Advance(gate, Tick)

\* Broken variant: the list is copied and stays.
DrainKeeps(g) == g

\* drain_acks() swaps the list out.
DrainAcks(g) == [g EXCEPT !.acks = <<>>]

LoopDrain ==
  /\ loop = "drain"
  /\ batch' = gate.acks
  /\ gate' = DrainAcks(gate)
  /\ loop' = "write"
  /\ UNCHANGED <<stream, reader, heard, breaks>>

\* The answers are written one by one; then telemetry, when it is due, notices
\* that the stream is broken.
LoopWrite ==
  /\ loop = "write"
  /\ IF batch # <<>>
     THEN /\ heard' = [heard EXCEPT ![Head(batch).id].answers = @ + 1]
          /\ batch' = Tail(batch)
          /\ UNCHANGED loop
     ELSE /\ loop' \in IF stream = "broken" THEN {"tick", "ended"} ELSE {"tick"}
          /\ UNCHANGED <<batch, heard>>
  /\ UNCHANGED <<gate, stream, reader, breaks>>

\* The loop has seen that the reader has ended.
LoopEnds ==
  /\ loop = "tick" /\ reader.at = "ended"
  /\ loop' = "ended"
  /\ UNCHANGED <<gate, stream, reader, batch, heard, breaks>>

StreamBreaks ==
  /\ stream = "open" /\ breaks < MaxBreaks
  /\ stream' = "broken" /\ breaks' = breaks + 1
  /\ UNCHANGED <<gate, reader, loop, batch, heard>>

\* join(), and main() advances the gate by the backoff before the next session.
SessionEnds ==
  /\ stream = "broken" /\ loop = "ended" /\ reader.at = "ended"
  /\ stream' = "none"
  /\ UNCHANGED <<reader, loop, batch, heard, breaks>>
  /\ \E dt \in Backoff : gate' = Advance(gate, dt)

\* run_session() does not reach the server: another backoff.
SessionFails ==
  /\ stream = "none" /\ breaks < MaxBreaks
  /\ breaks' = breaks + 1
  /\ UNCHANGED <<stream, reader, loop, batch, heard>>
  /\ \E dt \in Backoff : gate' = Advance(gate, dt)

\* run_session() reaches the server.
SessionStarts ==
  /\ stream = "none"
  /\ stream' = "open" /\ reader' = Reading /\ loop' = "tick"
  /\ UNCHANGED <<gate, batch, heard, breaks>>

-----------------------------------------------------------------------------
(* interactive_loop: an operator at the console.                           *)

Console ==
  /\ gate' \in {Step(gate, "CommandOpen"), Step(gate, "CommandClose"), Step(gate, "CommandStop"),
                TripBeam(gate), ClearBeam(gate), ClearFault(gate), Reboot(gate)}
  /\ UNCHANGED <<stream, reader, loop, batch, heard, breaks>>

Init ==
  /\ gate = BootClosed
  /\ stream = "none" /\ reader = Gone /\ loop = "ended" /\ batch = <<>>
  /\ heard = [c \in Cmd |-> NotHeard]
  /\ breaks = 0

Reader ==
  \/ HandleMotion
  \/ HandleReboot
  \/ AnswerNow
  \/ ReaderEnds

Loop ==
  \/ LoopTick
  \/ LoopDrain
  \/ LoopWrite
  \/ LoopEnds
  \/ SessionEnds
  \/ SessionFails
  \/ SessionStarts

Next ==
  \/ \E c \in Cmd, k \in Kind : ReadCommand(c, k)
  \/ Reader
  \/ Loop
  \/ StreamBreaks
  \/ Console

\* When Reader and Loop are enabled: every case of the program counters has a step.
ReaderReady ==
  reader.at \in {"handle", "answer"} \/ (reader.at = "read" /\ stream = "broken")

LoopReady ==
  loop # "ended" \/ stream = "none" \/ (stream = "broken" /\ reader.at = "ended")

\* Both threads are scheduled: weak fairness of Reader and of Loop, with the enabling
\* conditions spelled out.  Nobody owes a command, a break or a console line.
Spec == /\ Init /\ [][Next]_vars
        /\ []<>~ReaderReady \/ []<><<Reader>>_vars
        /\ []<>~LoopReady \/ []<><<Loop>>_vars

-----------------------------------------------------------------------------

\* The state machine never loses the gate: whatever console, server and clock did,
\* Closed and Open mean that the gate is at that limit, the motor runs exactly in
\* the two moving states, and the latch is the beam (apply_locked, Move, Reboot).
PositionIsTrue ==
  /\ gate.sm.state = "Closed" => gate.pos = 0
  /\ gate.sm.state = "Open" => gate.pos = Travel
  /\ gate.motor = CASE gate.sm.state = "Opening" -> "DriveMotorOpen"
                    [] gate.sm.state = "Closing" -> "DriveMotorClose"
                    [] OTHER -> "StopMotor"
  /\ gate.sm.beamClear <=> ~gate.blocked

\* A stroke that fits the watchdog's budget is never cut off by it, however often
\* the gate is stopped, reversed and resumed on the way and however far one
\* advance() reaches: what is left of the budget covers the way that is left.
StrokeFitsWatchdog ==
  /\ gate.sm.reason # "MotorTimeout"
  /\ gate.sm.state = "Opening" => gate.watchdog.on /\ Travel - gate.pos <= gate.watchdog.left
  /\ gate.sm.state = "Closing" => gate.watchdog.on /\ gate.pos <= gate.watchdog.left

\* The policies: an open gate with auto-close always has its countdown, after
\* refused closes too, and a gate never rests where the beam stopped it.
PoliciesHold ==
  /\ gate.sm.state = "Open" /\ AutoClose > 0 => gate.autoclose.on
  /\ ReverseOnBeam =>
       ~(gate.sm.state = "StoppedClose" /\ gate.sm.reason = "SafetyBeamObstacle")

\* Motions end by themselves and the gate is never left behind: both of the above.
MotionIsGoverned == StrokeFitsWatchdog /\ PoliciesHold

\* Where the answer of a command may still be: with the reader, armed in the
\* tracker, waiting in acks_, or drained and not yet written.
Pending(s, c) == Cardinality({i \in DOMAIN s : s[i].id = c})

Places(c) ==
  Pending(batch, c) + Pending(gate.acks, c)
    + Cardinality({t \in {"reader", "tracker"} :
                     (IF t = "reader" THEN reader.id ELSE gate.tracker.id) = c})

\* The stage of a command; one whose answer is nowhere, or at two places, has none.
StageOf(c) ==
  CASE ~heard[c].read /\ Places(c) = 0 -> "unknown"
    [] heard[c].read /\ Places(c) = 1 /\ heard[c].answers = 0 -> "owed"
    [] heard[c].read /\ Places(c) = 0 /\ heard[c].answers = 1 -> "answered"
    [] OTHER -> "none"

Contract == INSTANCE AckContract WITH stage <- [c \in Cmd |-> StageOf(c)]

\* The simulator keeps the contract too: a command that was read has one answer, at
\* one place, across reboots, commands that supersede each other and sessions that
\* break (issue, drain_acks); nothing in it ever loses one.
KeepsContract == Contract!Spec

\* Every command that was read is answered, by its deadline if by nothing else,
\* once streams stop breaking (advance, LoopDrain).
CommandsEnd == \A c \in Cmd : heard[c].read ~> heard[c].answers > 0

=============================================================================
