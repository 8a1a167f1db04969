---------------------------- MODULE AckContract ----------------------------
(***************************************************************************)
(* What a gate promises the server about the commands it receives          *)
(* (CommandAck in proto/gate_service.proto): a command that was accepted   *)
(* is owed one completion until it is answered, and only the end of the    *)
(* process takes the debt away.  ControlClient (the firmware) and          *)
(* SimClient (the simulator) implement it, each with threads of its own.   *)
(***************************************************************************)
CONSTANT Cmd

VARIABLE stage  \* stage of each command

Stage == {"unknown", "owed", "answered", "lost"}

Init == stage = [c \in Cmd |-> "unknown"]

Accept(c) == stage[c] = "unknown" /\ stage' = [stage EXCEPT ![c] = "owed"]

Complete(c) == stage[c] = "owed" /\ stage' = [stage EXCEPT ![c] = "answered"]

\* The process ends with everything it owes.
Lose ==
  /\ \E c \in Cmd : stage[c] = "owed"
  /\ stage' = [c \in Cmd |-> IF stage[c] = "owed" THEN "lost" ELSE stage[c]]

Next == (\E c \in Cmd : Accept(c) \/ Complete(c)) \/ Lose

Spec == Init /\ [][Next]_stage

=============================================================================
