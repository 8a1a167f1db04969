------------------------ MODULE ControlClientProofs ------------------------
(***************************************************************************)
(* Theorems about ControlClient, for every set of commands, every set of   *)
(* command kinds and both queue depths.                                    *)
(***************************************************************************)
EXTENDS ControlClient, GateStateMachineProofs, TLAPS

-----------------------------------------------------------------------------
(* What the tracker returns.                                               *)

\* A rule of the tracker leaves it alone and gives no verdict, or disarms it and
\* gives a verdict for the command that was armed.
Decides(t, d) ==
  \/ d.tracker = t /\ d.verdict = NoVerdict
  \/ t.armed /\ d.tracker = Idle /\ d.verdict.id = t.id /\ d.verdict.rule \in Rule

\* on_gate_event() and on_tick() decide so.
LEMMA RulesDecide ==
  ASSUME NEW t \in Tracker, NEW s, NEW r, NEW b \in BOOLEAN
  PROVE  /\ Decides(t, OnGateEvent(t, s, r, b))
         /\ Decides(t, OnTick(t, b))
         /\ OnGateEvent(t, s, r, b).tracker \in Tracker
         /\ OnGateEvent(t, s, r, b).verdict \in Verdict
         /\ OnTick(t, b).tracker \in Tracker
         /\ OnTick(t, b).verdict \in Verdict
<1> USE DEF Tracker, Verdict, Rule, Decides, Undecided, Resolve, Idle, NoVerdict, State
<1>1. Decides(t, OnGateEvent(t, s, r, b))
  BY DEF OnGateEvent
<1>2. Decides(t, OnTick(t, b))
  BY DEF OnTick
<1>3. OnGateEvent(t, s, r, b).tracker \in Tracker /\ OnGateEvent(t, s, r, b).verdict \in Verdict
  BY DEF OnGateEvent
<1>4. OnTick(t, b).tracker \in Tracker /\ OnTick(t, b).verdict \in Verdict
  BY DEF OnTick
<1> QED BY <1>1, <1>2, <1>3, <1>4

-----------------------------------------------------------------------------
(* Type correctness.                                                       *)

\* A queue that drops what does not fit keeps its type and its depth.
LEMMA BoundedAppend ==
  ASSUME NEW S, NEW q \in Seq(S), NEW x \in S, NEW d \in Nat \ {0}, Len(q) <= d
  PROVE  LET r == IF Len(q) < d THEN Append(q, x) ELSE q
         IN r \in Seq(S) /\ Len(r) <= d
<1>1. Append(q, x) \in Seq(S) /\ Len(Append(q, x)) = Len(q) + 1 /\ Len(q) \in Nat
  OBVIOUS
<1> QED BY <1>1

\* The outbound queue takes a frame.
LEMMA OutqType ==
  ASSUME TypeOK, NEW f \in Frame
  PROVE  Enqueued(outq, f) \in Seq(Frame) /\ Len(Enqueued(outq, f)) <= OutDepth
<1>1. outq \in Seq(Frame) /\ Len(outq) <= OutDepth /\ OutDepth \in Nat \ {0}
  BY ClientAssumption DEF TypeOK
<1> QED BY <1>1, BoundedAppend DEF Enqueued

\* An event in the pump's queue.
QueuedEvent == [ev : Event, cmd : Cmd \cup {NoCmd}]

\* The event queue takes an event.
LEMMA EvqType ==
  ASSUME NEW q \in Seq(QueuedEvent), Len(q) <= QueueDepth,
         NEW e \in Event, NEW c \in Cmd \cup {NoCmd}
  PROVE  Posted(q, e, c) \in Seq(QueuedEvent) /\ Len(Posted(q, e, c)) <= QueueDepth
<1>1. [ev |-> e, cmd |-> c] \in QueuedEvent /\ QueueDepth \in Nat \ {0}
  BY ClientAssumption DEF QueuedEvent
<1> QED BY <1>1, BoundedAppend DEF Posted

\* One event through the machine and the policies keeps the types.
LEMMA TurnType ==
  ASSUME TypeOK, NEW e \in Event, NEW c \in Cmd \cup {NoCmd},
         NEW q \in Seq(QueuedEvent), Len(q) <= QueueDepth,
         Turn(e, c, q)
  PROVE  TypeOK'
<1> DEFINE o == Handle(sm, e)
<1>1. o \in Outputs
  BY HandleType DEF TypeOK
<1>2. sm' \in Machine
  BY <1>1 DEF Turn, Outputs
<1>3. evq' \in Seq(QueuedEvent) /\ Len(evq') <= QueueDepth
  <2>1. "CommandOpen" \in Event
    BY DEF Event
  <2>2. evq' \in {Posted(q, "CommandOpen", NoCmd), q}
    BY DEF Turn
  <2> QED BY <2>1, <2>2, EvqType
<1>4. /\ pump' \in {"recv", "notify", "ack"}
      /\ out' \in [s : State, r : Reason, transitioned : BOOLEAN, cmd : Cmd \cup {NoCmd}]
  <2>1. [s |-> o.sm.state, r |-> o.reason, transitioned |-> o.transitioned, cmd |-> c]
          \in [s : State, r : Reason, transitioned : BOOLEAN, cmd : Cmd \cup {NoCmd}]
    BY <1>1 DEF Outputs, Machine
  <2> QED BY <2>1 DEF Turn, TypeOK, pumpVars
<1>5. UNCHANGED <<rpcVars, connected, otaVars, ackVars, tracker>>
  BY DEF Turn
<1> QED BY <1>2, <1>3, <1>4, <1>5 DEF TypeOK, QueuedEvent, rpcVars, otaVars, ackVars

\* Every variable keeps its type and both queues their depth.
THEOREM TypeCorrect == Spec => []TypeOK
<1> USE DEF gateVars, pumpVars, rpcVars, otaVars, ackVars
<1>0. NoVerdict \in Verdict /\ Idle \in Tracker /\ NoFrame \in Seq(Frame)
      /\ NoCommand \in [id : Cmd \cup {NoCmd}, kind : Kind]
      /\ NoOut \in [s : State, r : Reason, transitioned : BOOLEAN, cmd : Cmd \cup {NoCmd}]
      /\ Resolved \subseteq Machine
  BY DEF NoVerdict, Verdict, Rule, Idle, Tracker, NoFrame, NoCommand, Kind, NoOut, State,
         Reason, Resolved, Machine
<1>e. QueueDepth \in Nat /\ OutDepth \in Nat /\ Kinds \subseteq Kind
  BY ClientAssumption
<1>f. /\ <<>> \in Seq(Frame) /\ <<>> \in Seq(QueuedEvent)
      /\ Len(<<>>) = 0 /\ 0 <= OutDepth /\ 0 <= QueueDepth
  BY <1>e
<1>1. Init => TypeOK
  <2> SUFFICES ASSUME Init PROVE TypeOK
    OBVIOUS
  <2>1. evq \in Seq(QueuedEvent) /\ Len(evq) <= QueueDepth
        /\ outq \in Seq(Frame) /\ Len(outq) <= OutDepth
    BY <1>f DEF Init
  <2>2. verdict \in [{"pump", "rpc"} -> Verdict] /\ held \in [{"pump", "ota"} -> Seq(Frame)]
        /\ fate \in [Cmd -> Fate]
    BY <1>0 DEF Init, Fate
  <2> QED BY <1>0, <2>1, <2>2 DEF Init, TypeOK, RpcCall, QueuedEvent
<1>2. TypeOK /\ [Next]_vars => TypeOK'
  <2> SUFFICES ASSUME TypeOK, [Next]_vars
               PROVE  TypeOK'
    OBVIOUS
  <2>0. evq \in Seq(QueuedEvent) /\ Len(evq) <= QueueDepth
    BY DEF TypeOK, QueuedEvent
  <2>1. CASE PumpCommand
    <3>1. evq # <<>> /\ Turn(Head(evq).ev, Head(evq).cmd, Tail(evq))
      BY <2>1 DEF PumpCommand
    <3>2. /\ Head(evq) \in QueuedEvent /\ Tail(evq) \in Seq(QueuedEvent)
          /\ Len(Tail(evq)) <= QueueDepth
      BY <3>1, <2>0, <1>e
    <3>3. Head(evq).ev \in Event /\ Head(evq).cmd \in Cmd \cup {NoCmd}
      BY <3>2 DEF QueuedEvent
    <3> QED BY <3>1, <3>2, <3>3, TurnType
  <2>2. CASE PumpInput
    <3>1. \A e \in Event : Turn(e, NoCmd, evq) => TypeOK'
      BY <2>0, TurnType
    <3>2. \A e \in {"LimitOpenHit", "LimitClosedHit", "MotorTimeout", "SafetyBeamTripped",
                    "SafetyBeamCleared"} : Turn(e, NoCmd, evq) => TypeOK'
      BY <3>1 DEF Event
    <3> QED BY <3>2, <2>2 DEF PumpInput
  <2>3. CASE NotifyGateEvent
    <3>1. out.transitioned \in BOOLEAN /\ tracker \in Tracker
      BY DEF TypeOK
    <3>2. tracker' \in Tracker /\ verdict' \in [{"pump", "rpc"} -> Verdict]
      BY <3>1, <2>3, RulesDecide DEF NotifyGateEvent, TypeOK
    <3> QED BY <3>2, <2>3, <1>0 DEF NotifyGateEvent, TypeOK
  <2>4. ASSUME NEW t \in {"pump", "ota"}, NEW v \in Verdict, SendForeign(t, v)
        PROVE  fate' \in [Cmd -> Fate] /\ held' \in [{"pump", "ota"} -> Seq(Frame)]
    <3>1. <<Completion(v)>> \in Seq(Frame)
      BY DEF Completion, Frame, Verdict
    <3> QED BY <2>4, <3>1, <1>0 DEF SendForeign, Answer, TypeOK, Fate
  <2>5. CASE PumpAck
    <3>1. verdict["pump"] \in Verdict /\ SendForeign("pump", verdict["pump"])
      BY <2>5 DEF PumpAck, TypeOK
    <3>2. fate' \in [Cmd -> Fate] /\ held' \in [{"pump", "ota"} -> Seq(Frame)]
      BY <3>1, <2>4
    <3> QED BY <3>2, <2>5, <1>0 DEF PumpAck, TypeOK
  <2>6. ASSUME NEW t \in {"pump", "ota"}, ForeignEnqueue(t)
        PROVE  TypeOK'
    <3>1. held[t] \in Seq(Frame) /\ held[t] # <<>>
      BY <2>6 DEF ForeignEnqueue, TypeOK, NoFrame
    <3>2. Head(held[t]) \in Frame
      BY <3>1
    <3>3. outq' \in Seq(Frame) /\ Len(outq') <= OutDepth
      BY <3>2, <2>6, OutqType DEF ForeignEnqueue
    <3> QED BY <3>3, <2>6, <1>0 DEF ForeignEnqueue, TypeOK
  <2>7. ASSUME NEW f \in Frame, SendOwn(f)
        PROVE  outq' \in Seq(Frame) /\ Len(outq') <= OutDepth
    <3>1. outq \in Seq(Frame) /\ Len(outq) <= OutDepth
      BY DEF TypeOK
    <3> QED BY <2>7, <3>1, OutqType DEF SendOwn
  <2>8. CASE Connect
    BY <2>8 DEF Connect, TypeOK, RpcCall
  <2>9. CASE SendTelemetry
    <3>1. [type |-> "telemetry", id |-> NoCmd] \in Frame
      BY DEF Frame
    <3>2. outq' \in Seq(Frame) /\ Len(outq') <= OutDepth
      BY <3>1, <2>9, <2>7 DEF SendTelemetry
    <3> QED BY <3>2, <2>9 DEF SendTelemetry, TypeOK, RpcCall
  <2>10. CASE DeadlineTick
    <3>1. tracker \in Tracker /\ TRUE \in BOOLEAN
      BY DEF TypeOK
    <3>2. tracker' \in Tracker /\ verdict' \in [{"pump", "rpc"} -> Verdict]
      BY <3>1, <2>10, RulesDecide DEF DeadlineTick, TypeOK
    <3> QED BY <3>2, <2>10 DEF DeadlineTick, TypeOK, RpcCall
  <2>11. CASE RpcAck
    <3>1. Completion(verdict["rpc"]) \in Frame
      BY DEF TypeOK, Completion, Frame, Verdict
    <3>2. outq' \in Seq(Frame) /\ Len(outq') <= OutDepth
      BY <3>1, <2>11, <2>7 DEF RpcAck
    <3>3. fate' \in [Cmd -> Fate]
      BY <2>11 DEF RpcAck, Answer, TypeOK, Fate
    <3> QED BY <3>2, <3>3, <2>11, <1>0 DEF RpcAck, TypeOK, RpcCall
  <2>12. CASE TakeFrame
    <3>1. outq' \in Seq(Frame) /\ Len(outq') <= OutDepth
      BY <2>12, <1>e DEF TakeFrame, TypeOK
    <3> QED BY <3>1, <2>12 DEF TakeFrame, TypeOK
  <2>13. CASE EndSession
    BY <2>13 DEF EndSession, TypeOK, RpcCall
  <2>14. CASE ResetQueue
    BY <2>14, <1>f DEF ResetQueue, TypeOK, RpcCall
  <2>15. ASSUME NEW c \in Cmd, NEW k \in Kinds, ReceiveCommand(c, k)
         PROVE  TypeOK'
    <3>1. Receipt(c) \in Frame /\ [id |-> c, kind |-> k] \in [id : Cmd \cup {NoCmd}, kind : Kind]
      BY <1>e DEF Receipt, Frame
    <3>2. outq' \in Seq(Frame) /\ Len(outq') <= OutDepth
      BY <3>1, <2>15, <2>7 DEF ReceiveCommand
    <3>3. fate' \in [Cmd -> Fate]
      BY <2>15 DEF ReceiveCommand, TypeOK, Fate
    <3> QED BY <3>1, <3>2, <3>3, <2>15 DEF ReceiveCommand, TypeOK, RpcCall
  <2>16. CASE DispatchMotion
    <3>1. cmd.id \in Cmd \cup {NoCmd} /\ "CommandOpen" \in Event /\ "CommandClose" \in Event
      BY DEF TypeOK, Event
    <3>2. evq' \in Seq(QueuedEvent) /\ Len(evq') <= QueueDepth
      BY <3>1, <2>0, <2>16, EvqType DEF DispatchMotion
    <3> QED BY <3>2, <2>16 DEF DispatchMotion, TypeOK, QueuedEvent, RpcCall
  <2>17. CASE DispatchNow
    <3>1. PICK r \in Answers(cmd.kind) :
            verdict' = [verdict EXCEPT !["rpc"] = [id |-> cmd.id, rule |-> r]]
      BY <2>17 DEF DispatchNow
    <3>2. [id |-> cmd.id, rule |-> r] \in Verdict
      BY DEF Answers, TypeOK, Verdict, Rule
    <3>3. reboot' \in BOOLEAN
      BY <2>17 DEF DispatchNow, TypeOK
    <3> QED BY <3>1, <3>2, <3>3, <2>17, <1>0 DEF DispatchNow, TypeOK, RpcCall
  <2>18. CASE DispatchOta
    BY <2>18, <1>0 DEF DispatchOta, TypeOK, RpcCall
  <2>19. CASE ArmTracker
    <3>1. Arm(tracker, cmd.id, Terminal(cmd.kind)).tracker \in Tracker
      BY DEF Arm, Terminal, TypeOK, Tracker, State
    <3>2. Arm(tracker, cmd.id, Terminal(cmd.kind)).verdict \in Verdict
      BY <1>0 DEF Arm, Resolve, TypeOK, Tracker, Verdict, Rule
    <3> QED BY <3>1, <3>2, <2>19, <1>0 DEF ArmTracker, TypeOK, RpcCall
  <2>20. CASE OtaDone
    <3>1. PICK v \in Verdict : SendForeign("ota", v)
      BY <2>20 DEF OtaDone, TypeOK, Verdict, Rule
    <3>2. fate' \in [Cmd -> Fate] /\ held' \in [{"pump", "ota"} -> Seq(Frame)]
      BY <3>1, <2>4
    <3> QED BY <3>2, <2>20 DEF OtaDone, TypeOK
  <2>21. CASE OtaFinish
    BY <2>21 DEF OtaFinish, TypeOK
  <2>22. CASE Restart
    <3>1. verdict' \in [{"pump", "rpc"} -> Verdict] /\ held' \in [{"pump", "ota"} -> Seq(Frame)]
      BY <2>22, <1>0 DEF Restart
    <3>2. fate' \in [Cmd -> Fate]
      BY <2>22 DEF Restart, TypeOK, Fate
    <3>3. evq' \in Seq(QueuedEvent) /\ Len(evq') <= QueueDepth
          /\ outq' \in Seq(Frame) /\ Len(outq') <= OutDepth
      BY <2>22, <1>f DEF Restart
    <3> QED BY <3>1, <3>2, <3>3, <2>22, <1>0 DEF Restart, TypeOK, QueuedEvent, RpcCall
  <2>23. CASE UNCHANGED vars
    BY <2>23 DEF vars, TypeOK
  <2> QED
    BY <2>1, <2>2, <2>3, <2>5, <2>6, <2>8, <2>9, <2>10, <2>11, <2>12, <2>13, <2>14, <2>15,
       <2>16, <2>17, <2>18, <2>19, <2>20, <2>21, <2>22, <2>23 DEF Next, Pump, RpcStep, Ota
<1> QED BY <1>1, <1>2, PTL DEF Spec

-----------------------------------------------------------------------------
(* Who holds which command.                                                *)

Holder == {"task", "tracker", "pump", "rpc", "ota"}

\* Holder h is responsible for command c: the cases of Owned, one by one.
Holds(h, c) ==
  CASE h = "task" -> rpc \in {"dispatch", "arm"} /\ cmd.id = c
    [] h = "tracker" -> tracker.armed /\ tracker.id = c
    [] h = "pump" -> verdict["pump"].id = c
    [] h = "rpc" -> verdict["rpc"].id = c
    [] h = "ota" -> ota = "running" /\ otaCmd = c

\* Each holder has a command exactly while its thread is at the call that deals with
\* it, and remembers none afterwards.
HandsInv ==
  /\ rpc \in {"dispatch", "arm"} <=> cmd.id \in Cmd
  /\ tracker.armed <=> tracker.id \in Cmd
  /\ pump = "ack" <=> verdict["pump"].id \in Cmd
  /\ rpc = "ack" <=> verdict["rpc"].id \in Cmd
  /\ ota = "running" => otaCmd \in Cmd

\* A command that is owed a completion is in one pair of hands, any other in none.
OwnInv ==
  \A c \in Cmd :
    /\ fate[c] # "twice"
    /\ fate[c] = "received" <=> \E h \in Holder : Holds(h, c)
    /\ \A g, h \in Holder : Holds(g, c) /\ Holds(h, c) => g = h

\* notify_gate_event() finds the tracker undecided, or takes the armed command out of
\* it and goes on to the ack.
LEMMA NotifyAsks ==
  ASSUME TypeOK, HandsInv, NotifyGateEvent
  PROVE  /\ verdict'["rpc"] = verdict["rpc"]
         /\ \/ tracker' = tracker /\ verdict'["pump"].id = NoCmd /\ pump' = "recv"
            \/ tracker.armed /\ tracker' = Idle /\ verdict'["pump"].id = tracker.id /\ pump' = "ack"
<1> DEFINE d == OnGateEvent(tracker, out.s, out.r, out.transitioned)
<1>1. Decides(tracker, d)
  BY RulesDecide DEF TypeOK
<1>2. /\ tracker' = d.tracker /\ verdict' = [verdict EXCEPT !["pump"] = d.verdict]
      /\ pump' = IF d.verdict = NoVerdict THEN "recv" ELSE "ack"
  BY DEF NotifyGateEvent
<1> HIDE DEF d
<1> QED BY <1>1, <1>2, NoCmdAssumption DEF Decides, TypeOK, HandsInv, NoVerdict

\* A deadline that fires takes the armed command out of it on the gate_rpc task.
LEMMA TickAsks ==
  ASSUME TypeOK, HandsInv, DeadlineTick
  PROVE  /\ verdict'["pump"] = verdict["pump"]
         /\ tracker.armed /\ tracker' = Idle /\ verdict'["rpc"].id = tracker.id
<1> DEFINE d == OnTick(tracker, TRUE)
<1>1. Decides(tracker, d)
  BY RulesDecide DEF TypeOK
<1>2. /\ tracker' = d.tracker /\ verdict' = [verdict EXCEPT !["rpc"] = d.verdict]
      /\ rpc' = "ack" /\ d.verdict # NoVerdict
  BY DEF DeadlineTick
<1> HIDE DEF d
<1> QED BY <1>1, <1>2, NoCmdAssumption DEF Decides, TypeOK, HandsInv, NoVerdict

\* Arming hands the tracker the new command, and the gate_rpc task the older one.
LEMMA ArmHands ==
  ASSUME TypeOK, HandsInv, ArmTracker
  PROVE  /\ tracker'.armed /\ tracker'.id = cmd.id
         /\ verdict'["pump"] = verdict["pump"]
         /\ \/ ~tracker.armed /\ verdict'["rpc"].id = NoCmd /\ rpc' = "loop"
            \/ tracker.armed /\ verdict'["rpc"].id = tracker.id /\ rpc' = "ack"
BY NoCmdAssumption DEF ArmTracker, Arm, Resolve, TypeOK, HandsInv, Tracker, NoVerdict

\* A thread has a command to deal with exactly at the calls that deal with it.
THEOREM HandsCorrect == Spec => []HandsInv
<1> USE NoCmdAssumption DEF gateVars, pumpVars, rpcVars, otaVars, ackVars, Idle, NoVerdict, NoCommand
<1>1. Init => HandsInv
  BY DEF Init, HandsInv
<1>2. TypeOK /\ HandsInv /\ [Next]_vars => HandsInv'
  <2> SUFFICES ASSUME TypeOK, HandsInv, [Next]_vars
               PROVE  HandsInv'
    OBVIOUS
  <2>1. CASE PumpCommand
    BY <2>1 DEF PumpCommand, Turn, TypeOK, HandsInv
  <2>2. CASE PumpInput
    BY <2>2 DEF PumpInput, Turn, TypeOK, HandsInv
  <2>3. CASE NotifyGateEvent
    BY <2>3, NotifyAsks DEF NotifyGateEvent, TypeOK, HandsInv
  <2>4. CASE PumpAck
    BY <2>4 DEF PumpAck, SendForeign, Answer, TypeOK, HandsInv
  <2>5. ASSUME NEW t \in {"pump", "ota"}, ForeignEnqueue(t)
        PROVE  HandsInv'
    BY <2>5 DEF ForeignEnqueue, TypeOK, HandsInv
  <2>6. CASE Connect
    BY <2>6 DEF Connect, TypeOK, HandsInv
  <2>7. CASE SendTelemetry
    BY <2>7 DEF SendTelemetry, TypeOK, HandsInv
  <2>8. CASE DeadlineTick
    <3>1. /\ verdict'["pump"] = verdict["pump"]
          /\ tracker.armed /\ tracker' = Idle /\ verdict'["rpc"].id = tracker.id
      BY <2>8, TickAsks
    <3>2. rpc = "loop" /\ rpc' = "ack" /\ UNCHANGED <<pump, cmd, ota, otaCmd>>
      BY <2>8 DEF DeadlineTick
    <3> QED BY <3>1, <3>2 DEF HandsInv
  <2>9. CASE RpcAck
    BY <2>9 DEF RpcAck, Answer, TypeOK, HandsInv
  <2>10. CASE TakeFrame
    BY <2>10 DEF TakeFrame, TypeOK, HandsInv
  <2>11. CASE EndSession
    BY <2>11 DEF EndSession, TypeOK, HandsInv
  <2>12. CASE ResetQueue
    BY <2>12 DEF ResetQueue, TypeOK, HandsInv
  <2>13. ASSUME NEW c \in Cmd, NEW k \in Kinds, ReceiveCommand(c, k)
         PROVE  HandsInv'
    BY <2>13 DEF ReceiveCommand, TypeOK, HandsInv
  <2>14. CASE DispatchMotion
    BY <2>14 DEF DispatchMotion, TypeOK, HandsInv
  <2>15. CASE DispatchNow
    BY <2>15 DEF DispatchNow, TypeOK, HandsInv
  <2>16. CASE DispatchOta
    BY <2>16 DEF DispatchOta, TypeOK, HandsInv
  <2>17. CASE ArmTracker
    BY <2>17, ArmHands DEF ArmTracker, TypeOK, HandsInv
  <2>18. CASE OtaDone
    BY <2>18 DEF OtaDone, SendForeign, Answer, TypeOK, HandsInv
  <2>19. CASE OtaFinish
    BY <2>19 DEF OtaFinish, TypeOK, HandsInv
  <2>20. CASE Restart
    BY <2>20 DEF Restart, TypeOK, HandsInv
  <2>21. CASE UNCHANGED vars
    BY <2>21 DEF vars, TypeOK, HandsInv
  <2> QED
    BY <2>1, <2>2, <2>3, <2>4, <2>5, <2>6, <2>7, <2>8, <2>9, <2>10, <2>11, <2>12, <2>13, <2>14, <2>15, <2>16, <2>17, <2>18, <2>19, <2>20, <2>21
       DEF Next, Pump, RpcStep, Ota
<1> QED BY <1>1, <1>2, TypeCorrect, PTL DEF Spec

\* Every command that was received and not completed is in exactly one pair of hands,
\* and none is completed twice.
THEOREM OwnershipCorrect == Spec => []OwnInv
<1> USE NoCmdAssumption DEF gateVars, pumpVars, rpcVars, otaVars, ackVars, Idle, NoVerdict, NoCommand
<1>1. Init => OwnInv
  BY DEF Init, OwnInv, Holds, Holder
<1>2. TypeOK /\ HandsInv /\ OwnInv /\ [Next]_vars => OwnInv'
  <2> SUFFICES ASSUME TypeOK, HandsInv, OwnInv, [Next]_vars
               PROVE  OwnInv'
    OBVIOUS
  <2>1. CASE PumpCommand
    BY <2>1 DEF PumpCommand, Turn, TypeOK, HandsInv, OwnInv, Holds, Holder
  <2>2. CASE PumpInput
    BY <2>2 DEF PumpInput, Turn, TypeOK, HandsInv, OwnInv, Holds, Holder
  <2>3. CASE NotifyGateEvent
    BY <2>3, NotifyAsks DEF NotifyGateEvent, TypeOK, HandsInv, OwnInv, Holds, Holder
  <2>4. CASE PumpAck
    BY <2>4 DEF PumpAck, SendForeign, Answer, TypeOK, HandsInv, OwnInv, Holds, Holder
  <2>5. ASSUME NEW t \in {"pump", "ota"}, ForeignEnqueue(t)
        PROVE  OwnInv'
    BY <2>5 DEF ForeignEnqueue, TypeOK, HandsInv, OwnInv, Holds, Holder
  <2>6. CASE Connect
    BY <2>6 DEF Connect, TypeOK, HandsInv, OwnInv, Holds, Holder
  <2>7. CASE SendTelemetry
    BY <2>7 DEF SendTelemetry, TypeOK, HandsInv, OwnInv, Holds, Holder
  <2>8. CASE DeadlineTick
    <3>1. /\ verdict'["pump"] = verdict["pump"]
          /\ tracker.armed /\ tracker' = Idle /\ verdict'["rpc"].id = tracker.id
      BY <2>8, TickAsks
    <3>2. rpc = "loop" /\ rpc' = "ack" /\ UNCHANGED <<pump, cmd, ota, otaCmd, fate>>
      BY <2>8 DEF DeadlineTick
    <3> QED BY <3>1, <3>2 DEF HandsInv, OwnInv, Holds, Holder
  <2>9. CASE RpcAck
    BY <2>9 DEF RpcAck, Answer, TypeOK, HandsInv, OwnInv, Holds, Holder
  <2>10. CASE TakeFrame
    BY <2>10 DEF TakeFrame, TypeOK, HandsInv, OwnInv, Holds, Holder
  <2>11. CASE EndSession
    BY <2>11 DEF EndSession, TypeOK, HandsInv, OwnInv, Holds, Holder
  <2>12. CASE ResetQueue
    BY <2>12 DEF ResetQueue, TypeOK, HandsInv, OwnInv, Holds, Holder
  <2>13. ASSUME NEW c \in Cmd, NEW k \in Kinds, ReceiveCommand(c, k)
         PROVE  OwnInv'
    BY <2>13 DEF ReceiveCommand, TypeOK, HandsInv, OwnInv, Holds, Holder
  <2>14. CASE DispatchMotion
    BY <2>14 DEF DispatchMotion, TypeOK, HandsInv, OwnInv, Holds, Holder
  <2>15. CASE DispatchNow
    BY <2>15 DEF DispatchNow, TypeOK, HandsInv, OwnInv, Holds, Holder
  <2>16. CASE DispatchOta
    BY <2>16 DEF DispatchOta, TypeOK, HandsInv, OwnInv, Holds, Holder
  <2>17. CASE ArmTracker
    BY <2>17, ArmHands DEF ArmTracker, TypeOK, HandsInv, OwnInv, Holds, Holder
  <2>18. CASE OtaDone
    BY <2>18 DEF OtaDone, SendForeign, Answer, TypeOK, HandsInv, OwnInv, Holds, Holder
  <2>19. CASE OtaFinish
    BY <2>19 DEF OtaFinish, TypeOK, HandsInv, OwnInv, Holds, Holder
  <2>20. CASE Restart
    BY <2>20 DEF Restart, TypeOK, HandsInv, OwnInv, Holds, Holder
  <2>21. CASE UNCHANGED vars
    BY <2>21 DEF vars, TypeOK, HandsInv, OwnInv, Holds, Holder
  <2> QED
    BY <2>1, <2>2, <2>3, <2>4, <2>5, <2>6, <2>7, <2>8, <2>9, <2>10, <2>11, <2>12, <2>13, <2>14, <2>15, <2>16, <2>17, <2>18, <2>19, <2>20, <2>21
       DEF Next, Pump, RpcStep, Ota
<1> QED BY <1>1, <1>2, TypeCorrect, HandsCorrect, PTL DEF Spec

-----------------------------------------------------------------------------
(* The contract.                                                           *)

\* The stage that goes with a fate.
StageName(f) ==
  CASE f = "new" -> "unknown" [] f = "received" -> "owed"
    [] f = "completed" -> "answered" [] f = "lost" -> "lost"

\* The stage of a command is a matter of its fate.
StageInv ==
  \A c \in Cmd : /\ fate[c] \in {"new", "received", "completed", "lost"}
                 /\ StageOf(c) = StageName(fate[c])

\* Ownership gives every command a stage: none is completed while somebody still
\* holds it, and none is owed while nobody does.
LEMMA StageIsFate == Spec => []StageInv
<1>1. TypeOK /\ OwnInv => StageInv
  <2> SUFFICES ASSUME TypeOK, OwnInv, NEW c \in Cmd
               PROVE  /\ fate[c] \in {"new", "received", "completed", "lost"}
                      /\ StageOf(c) = StageName(fate[c])
    BY DEF StageInv
  <2>1. Owned(c) <=> \E h \in Holder : Holds(h, c)
    BY DEF Owned, Holder, Holds
  <2>2. fate[c] \in {"new", "received", "completed", "lost"}
    BY DEF TypeOK, OwnInv, Fate
  <2>3. Owned(c) <=> fate[c] = "received"
    BY <2>1 DEF OwnInv
  <2> QED BY <2>2, <2>3 DEF StageOf, StageName
<1> QED BY <1>1, TypeCorrect, OwnershipCorrect, PTL

\* A step that leaves the fates alone leaves the stages alone.
LEMMA SameFate ==
  ASSUME StageInv, StageInv', UNCHANGED fate
  PROVE  UNCHANGED [c \in Cmd |-> StageOf(c)]
BY DEF StageInv

\* A step that changes the fate of one command changes its stage to match.
LEMMA OneFate ==
  ASSUME StageInv, StageInv', TypeOK, NEW c \in Cmd, NEW f \in Fate,
         fate' = [fate EXCEPT ![c] = f]
  PROVE  [x \in Cmd |-> StageOf(x)]' = [[x \in Cmd |-> StageOf(x)] EXCEPT ![c] = StageName(f)]
<1>1. fate'[c] = f /\ \A x \in Cmd \ {c} : fate'[x] = fate[x]
  BY DEF TypeOK
<1>2. StageOf(c)' = StageName(f) /\ \A x \in Cmd \ {c} : StageOf(x)' = StageOf(x)
  BY <1>1 DEF StageInv
<1> QED BY <1>2

\* The completion of a command by whoever holds it is the contract's.
LEMMA AnswerCompletes ==
  ASSUME StageInv, StageInv', TypeOK, NEW c \in Cmd, fate[c] = "received", Answer(c)
  PROVE  Contract!Complete(c)
<1>1. fate' = [fate EXCEPT ![c] = "completed"] /\ "completed" \in Fate
  BY DEF Answer, Fate
<1>2. [x \in Cmd |-> StageOf(x)]' = [[x \in Cmd |-> StageOf(x)] EXCEPT ![c] = "answered"]
  BY <1>1, OneFate DEF StageName
<1>3. StageOf(c) = "owed"
  BY DEF StageInv, StageName
<1> QED BY <1>2, <1>3 DEF Contract!Complete

\* The firmware implements AckContract: whichever of the pump, the deadline, a newer
\* command and the updater gets to a command first, it is accepted once, completed
\* once, by the one thread that holds it, and only a restart loses it.
THEOREM ContractKept == Spec => KeepsContract
<1> USE DEF gateVars, pumpVars, rpcVars, otaVars, ackVars
<1> DEFINE stage == [c \in Cmd |-> StageOf(c)]
<1>1. Init /\ StageInv => Contract!Init
  BY DEF Init, StageInv, StageName, Contract!Init
<1>2. TypeOK /\ HandsInv /\ OwnInv /\ StageInv /\ StageInv' /\ [Next]_vars
        => [Contract!Next]_stage
  <2> SUFFICES ASSUME TypeOK, HandsInv, OwnInv, StageInv, StageInv', [Next]_vars
               PROVE  Contract!Next \/ UNCHANGED stage
    OBVIOUS
  <2>1. CASE UNCHANGED fate
    BY <2>1, SameFate
  <2>2. ASSUME NEW c \in Cmd, NEW k \in Kinds, ReceiveCommand(c, k)
        PROVE  Contract!Accept(c)
    <3>1. fate[c] = "new" /\ fate' = [fate EXCEPT ![c] = "received"] /\ "received" \in Fate
      BY <2>2 DEF ReceiveCommand, Fate
    <3>2. stage' = [stage EXCEPT ![c] = "owed"]
      BY <3>1, OneFate DEF StageName
    <3>3. StageOf(c) = "unknown"
      BY <3>1 DEF StageInv, StageName
    <3> QED BY <3>2, <3>3 DEF Contract!Accept
  <2>3. CASE PumpAck
    <3>1. verdict["pump"].id \in Cmd /\ Answer(verdict["pump"].id)
      BY <2>3 DEF PumpAck, SendForeign, HandsInv
    <3>2. fate[verdict["pump"].id] = "received"
      BY <3>1 DEF OwnInv, Holder, Holds
    <3> QED BY <3>1, <3>2, AnswerCompletes DEF Contract!Next
  <2>4. CASE RpcAck
    <3>1. verdict["rpc"].id \in Cmd /\ Answer(verdict["rpc"].id)
      BY <2>4 DEF RpcAck, HandsInv
    <3>2. fate[verdict["rpc"].id] = "received"
      BY <3>1 DEF OwnInv, Holder, Holds
    <3> QED BY <3>1, <3>2, AnswerCompletes DEF Contract!Next
  <2>5. CASE OtaDone
    <3>1. ota = "running" /\ otaCmd \in Cmd /\ Answer(otaCmd)
      BY <2>5 DEF OtaDone, SendForeign, HandsInv
    <3>2. fate[otaCmd] = "received"
      BY <3>1 DEF OwnInv, Holder, Holds
    <3> QED BY <3>1, <3>2, AnswerCompletes DEF Contract!Next
  <2>6. CASE Restart
    <3>1. fate' = [c \in Cmd |-> IF fate[c] = "received" THEN "lost" ELSE fate[c]]
      BY <2>6 DEF Restart
    <3>2. \A c \in Cmd : StageOf(c)' = IF StageOf(c) = "owed" THEN "lost" ELSE StageOf(c)
      BY <3>1 DEF StageInv, StageName
    <3>3. stage' = [c \in Cmd |-> IF stage[c] = "owed" THEN "lost" ELSE stage[c]]
      BY <3>2
    <3>4. CASE \E c \in Cmd : stage[c] = "owed"
      BY <3>3, <3>4 DEF Contract!Next, Contract!Lose
    <3>5. CASE ~ \E c \in Cmd : stage[c] = "owed"
      BY <3>3, <3>5
    <3> QED BY <3>4, <3>5
  <2>7. ASSUME ~ UNCHANGED fate
        PROVE  PumpAck \/ RpcAck \/ OtaDone \/ Restart
               \/ \E c \in Cmd, k \in Kinds : ReceiveCommand(c, k)
    BY <2>7 DEF Next, Pump, RpcStep, Ota, vars, PumpCommand, PumpInput, Turn, NotifyGateEvent,
                ForeignEnqueue, Connect, SendTelemetry, DeadlineTick, TakeFrame, EndSession,
                ResetQueue, DispatchMotion, DispatchNow, DispatchOta, ArmTracker, OtaFinish
  <2>8. CASE \E c \in Cmd, k \in Kinds : ReceiveCommand(c, k)
    BY <2>8, <2>2 DEF Contract!Next
  <2> QED BY <2>1, <2>3, <2>4, <2>5, <2>6, <2>7, <2>8
<1> QED
  BY <1>1, <1>2, TypeCorrect, HandsCorrect, OwnershipCorrect, StageIsFate, PTL
     DEF Spec, KeepsContract, Contract!Spec

-----------------------------------------------------------------------------
(* The order of a command's frames.                                        *)

\* A queued completion is for a command that was received, so no receipt of it is
\* still to come.
QueuedInv ==
  \A i \in 1..Len(outq) :
    outq[i].type = "completed" /\ outq[i].id \in Cmd => fate[outq[i].id] # "new"

\* So is one that a foreign thread is about to queue.
HeldInv ==
  \A t \in {"pump", "ota"} : held[t] # NoFrame =>
    /\ Head(held[t]).type = "completed"
    /\ Head(held[t]).id \in Cmd => fate[Head(held[t]).id] # "new"

\* No step takes a command back to the fate of one the firmware has not seen.
LEMMA NeverNewAgain ==
  ASSUME TypeOK, [Next]_vars, NEW c \in Cmd, fate[c] # "new"
  PROVE  fate'[c] # "new"
<1> USE DEF gateVars, pumpVars, rpcVars, otaVars, ackVars
<1>1. \A x \in Cmd \cup {NoCmd} : Answer(x) => fate'[c] # "new"
  BY DEF Answer, TypeOK
<1>2. PumpAck \/ RpcAck \/ OtaDone => fate'[c] # "new"
  BY <1>1 DEF PumpAck, RpcAck, OtaDone, SendForeign, TypeOK, Verdict
<1>3. Restart => fate'[c] # "new"
  BY DEF Restart
<1>4. (\E x \in Cmd, k \in Kinds : ReceiveCommand(x, k)) => fate'[c] # "new"
  BY DEF ReceiveCommand, TypeOK
<1>5. \/ PumpAck \/ RpcAck \/ OtaDone \/ Restart \/ UNCHANGED fate
      \/ \E x \in Cmd, k \in Kinds : ReceiveCommand(x, k)
  BY DEF Next, Pump, RpcStep, Ota, vars, PumpCommand, PumpInput, Turn, NotifyGateEvent,
         ForeignEnqueue, Connect, SendTelemetry, DeadlineTick, TakeFrame, EndSession,
         ResetQueue, DispatchMotion, DispatchNow, DispatchOta, ArmTracker, OtaFinish
<1> QED BY <1>2, <1>3, <1>4, <1>5

\* A frame at the end of the queue keeps the order, if a receipt is for a command not
\* seen before and a completion for one that was.
LEMMA EnqueueKeepsOrder ==
  ASSUME TypeOK, [Next]_vars, ReceiptFirst, QueuedInv,
         NEW f \in Frame, outq' = Enqueued(outq, f),
         f.type = "received" => f.id \in Cmd /\ fate[f.id] = "new",
         f.type = "completed" /\ f.id \in Cmd => fate'[f.id] # "new"
  PROVE  ReceiptFirst' /\ QueuedInv'
<1> DEFINE n == Len(outq)
<1>0. n \in Nat
  BY DEF TypeOK
<1>1. CASE outq' = outq
  BY <1>1, NeverNewAgain DEF ReceiptFirst, QueuedInv
<1>2. CASE outq' = Append(outq, f)
  <2>1. /\ Len(outq') = n + 1 /\ outq'[n + 1] = f
        /\ \A i \in 1..n : outq'[i] = outq[i]
    BY <1>2 DEF TypeOK
  <2>2. ReceiptFirst'
    <3> SUFFICES ASSUME NEW i \in 1..(n + 1), NEW j \in 1..(n + 1), i < j,
                        outq'[i].type = "completed", outq'[j].type = "received"
                 PROVE  outq'[i].id # outq'[j].id
      BY <2>1 DEF ReceiptFirst
    <3>1. i \in 1..n /\ outq'[i] = outq[i]
      BY <2>1, <1>0
    <3>2. CASE j \in 1..n
      BY <2>1, <3>1, <3>2 DEF ReceiptFirst
    <3>3. CASE j = n + 1
      BY <2>1, <3>1, <3>3 DEF QueuedInv
    <3> QED BY <3>2, <3>3, <1>0
  <2>3. QueuedInv'
    <3> SUFFICES ASSUME NEW i \in 1..(n + 1), outq'[i].type = "completed", outq'[i].id \in Cmd
                 PROVE  fate'[outq'[i].id] # "new"
      BY <2>1 DEF QueuedInv
    <3>1. CASE i \in 1..n
      BY <2>1, <3>1, NeverNewAgain DEF QueuedInv
    <3>2. CASE i = n + 1
      BY <2>1, <3>2
    <3> QED BY <3>1, <3>2, <1>0
  <2> QED BY <2>2, <2>3
<1> QED BY <1>1, <1>2 DEF Enqueued

\* The receipt of a command never follows its completion on the stream, although the
\* pump, the updater and the gate_rpc task put frames into the queue on their own.
THEOREM ReceiptsComeFirst == Spec => []ReceiptFirst
<1> USE DEF gateVars, pumpVars, rpcVars, otaVars, ackVars
<1>1. Init => ReceiptFirst /\ QueuedInv /\ HeldInv
  BY DEF Init, ReceiptFirst, QueuedInv, HeldInv
<1>2. TypeOK /\ HeldInv /\ [Next]_vars => HeldInv'
  <2> SUFFICES ASSUME TypeOK, HeldInv, [Next]_vars
               PROVE  HeldInv'
    OBVIOUS
  <2>1. CASE UNCHANGED held
    BY <2>1, NeverNewAgain DEF HeldInv
  <2>2. ASSUME NEW t \in {"pump", "ota"}, ForeignEnqueue(t)
        PROVE  HeldInv'
    BY <2>2 DEF ForeignEnqueue, HeldInv, TypeOK
  <2>3. ASSUME NEW t \in {"pump", "ota"}, NEW v \in Verdict, SendForeign(t, v)
        PROVE  HeldInv'
    <3> SUFFICES ASSUME NEW u \in {"pump", "ota"}, held'[u] # NoFrame
                 PROVE  /\ Head(held'[u]).type = "completed"
                        /\ Head(held'[u]).id \in Cmd => fate'[Head(held'[u]).id] # "new"
      BY DEF HeldInv
    <3>1. CASE u = t
      <4>1. held'[u] = <<Completion(v)>>
        BY <2>3, <3>1 DEF SendForeign, TypeOK
      <4>2. Head(held'[u]) = Completion(v)
        BY <4>1
      <4>3. v.id \in Cmd => fate'[v.id] # "new"
        BY <2>3 DEF SendForeign, Answer, TypeOK
      <4> QED BY <4>2, <4>3 DEF Completion
    <3>2. CASE u # t
      <4>1. held'[u] = held[u]
        BY <2>3, <3>2 DEF SendForeign, TypeOK
      <4> QED BY <4>1, NeverNewAgain DEF HeldInv
    <3> QED BY <3>1, <3>2
  <2>4. CASE PumpAck
    BY <2>4, <2>3 DEF PumpAck, TypeOK
  <2>5. CASE OtaDone
    <3>1. PICK v \in Verdict : SendForeign("ota", v)
      BY <2>5 DEF OtaDone, TypeOK, Verdict, Rule
    <3> QED BY <3>1, <2>3
  <2>6. CASE Restart
    BY <2>6 DEF Restart, HeldInv
  <2>7. \/ PumpAck \/ OtaDone \/ Restart \/ UNCHANGED held
        \/ \E t \in {"pump", "ota"} : ForeignEnqueue(t)
    BY DEF Next, Pump, RpcStep, Ota, vars, PumpCommand, PumpInput, Turn, NotifyGateEvent,
           Connect, SendTelemetry, DeadlineTick, RpcAck, TakeFrame, EndSession, ResetQueue,
           ReceiveCommand, DispatchMotion, DispatchNow, DispatchOta, ArmTracker, OtaFinish
  <2> QED BY <2>1, <2>2, <2>4, <2>5, <2>6, <2>7
<1>3. TypeOK /\ HeldInv /\ ReceiptFirst /\ QueuedInv /\ [Next]_vars
        => ReceiptFirst' /\ QueuedInv'
  <2> SUFFICES ASSUME TypeOK, HeldInv, ReceiptFirst, QueuedInv, [Next]_vars
               PROVE  ReceiptFirst' /\ QueuedInv'
    OBVIOUS
  <2>1. CASE UNCHANGED outq
    BY <2>1, NeverNewAgain DEF ReceiptFirst, QueuedInv
  <2>2. ASSUME NEW t \in {"pump", "ota"}, ForeignEnqueue(t)
        PROVE  ReceiptFirst' /\ QueuedInv'
    <3>1. held[t] \in Seq(Frame) /\ held[t] # <<>>
      BY <2>2 DEF ForeignEnqueue, TypeOK, NoFrame
    <3>2. Head(held[t]) \in Frame /\ outq' = Enqueued(outq, Head(held[t])) /\ fate' = fate
      BY <3>1, <2>2 DEF ForeignEnqueue
    <3>3. /\ Head(held[t]).type = "completed"
          /\ Head(held[t]).id \in Cmd => fate[Head(held[t]).id] # "new"
      BY <3>1 DEF HeldInv, NoFrame
    <3> QED BY <3>2, <3>3, EnqueueKeepsOrder
  <2>3. CASE SendTelemetry
    <3> DEFINE f == [type |-> "telemetry", id |-> NoCmd]
    <3>1. f \in Frame /\ f.type = "telemetry"
      BY DEF Frame
    <3>2. UNCHANGED outq \/ outq' = Enqueued(outq, f)
      BY <2>3 DEF SendTelemetry, SendOwn
    <3> HIDE DEF f
    <3> QED BY <2>1, <3>1, <3>2, EnqueueKeepsOrder
  <2>4. CASE RpcAck
    <3> DEFINE f == Completion(verdict["rpc"])
    <3>1. f \in Frame /\ f.type = "completed" /\ f.id = verdict["rpc"].id
      BY DEF TypeOK, Completion, Frame, Verdict
    <3>2. UNCHANGED outq \/ outq' = Enqueued(outq, f)
      BY <2>4 DEF RpcAck, SendOwn
    <3>3. f.id \in Cmd => fate'[f.id] # "new"
      BY <2>4, <3>1 DEF RpcAck, Answer, TypeOK
    <3> HIDE DEF f
    <3> QED BY <2>1, <3>1, <3>2, <3>3, EnqueueKeepsOrder
  <2>5. ASSUME NEW c \in Cmd, NEW k \in Kinds, ReceiveCommand(c, k)
        PROVE  ReceiptFirst' /\ QueuedInv'
    <3> DEFINE f == Receipt(c)
    <3>1. f \in Frame /\ f.type = "received" /\ f.id = c
      BY DEF Receipt, Frame
    <3>2. UNCHANGED outq \/ outq' = Enqueued(outq, f)
      BY <2>5 DEF ReceiveCommand, SendOwn
    <3>3. fate[c] = "new"
      BY <2>5 DEF ReceiveCommand
    <3> HIDE DEF f
    <3> QED BY <2>1, <3>1, <3>2, <3>3, EnqueueKeepsOrder
  <2>6. CASE TakeFrame
    <3>1. outq # <<>> /\ outq' = Tail(outq) /\ fate' = fate
      BY <2>6 DEF TakeFrame
    <3>2. /\ Len(outq') = Len(outq) - 1 /\ Len(outq) \in Nat
          /\ \A i \in 1..Len(outq') : outq'[i] = outq[i + 1] /\ i + 1 \in 1..Len(outq)
      BY <3>1 DEF TypeOK
    <3> QED BY <3>1, <3>2 DEF ReceiptFirst, QueuedInv
  <2>7. CASE ResetQueue \/ Restart
    <3>1. Len(outq') = 0
      BY <2>7 DEF ResetQueue, Restart
    <3> QED BY <3>1 DEF ReceiptFirst, QueuedInv
  <2>8. \/ SendTelemetry \/ RpcAck \/ TakeFrame \/ ResetQueue \/ Restart \/ UNCHANGED outq
        \/ \E t \in {"pump", "ota"} : ForeignEnqueue(t)
        \/ \E c \in Cmd, k \in Kinds : ReceiveCommand(c, k)
    BY DEF Next, Pump, RpcStep, Ota, vars, PumpCommand, PumpInput, Turn, NotifyGateEvent,
           PumpAck, Connect, DeadlineTick, EndSession, DispatchMotion, DispatchNow,
           DispatchOta, ArmTracker, OtaDone, OtaFinish
  <2> QED BY <2>1, <2>2, <2>3, <2>4, <2>5, <2>6, <2>7, <2>8
<1> QED BY <1>1, <1>2, <1>3, TypeCorrect, PTL DEF Spec

=============================================================================
