--------------------------- MODULE CommandTracker ---------------------------
(***************************************************************************)
(* Completion rules of a pending GateCommand                               *)
(* (firmware/components/gate_rpc/src/command_tracker.cpp).  A tracker is a *)
(* record: whether a command is armed, which one, and the gate state that  *)
(* completes it.  Each rule returns the tracker after the call and the     *)
(* verdict; error texts are left out, the rule that decided is kept.       *)
(***************************************************************************)
EXTENDS GateStateMachine

CONSTANTS
  Cmd,    \* command ids
  NoCmd   \* no command

ASSUME NoCmdAssumption == NoCmd \notin Cmd

Rule == {"none", "reached", "faulted", "stopped", "refused", "deadline",
         "superseded", "immediate"}

Tracker == [armed : BOOLEAN, id : Cmd \cup {NoCmd}, ok : State]

\* A verdict fires for a command, or for none.
Verdict == [id : Cmd \cup {NoCmd}, rule : Rule]

NoVerdict == [id |-> NoCmd, rule |-> "none"]

Idle == [armed |-> FALSE, id |-> NoCmd, ok |-> "Initializing"]

Undecided(t) == [tracker |-> t, verdict |-> NoVerdict]

\* Broken variant: the verdict is given and the command stays armed.
ResolveKeepsArmed(t, rule) ==
  [tracker |-> t, verdict |-> [id |-> t.id, rule |-> rule]]

\* What a disarmed tracker remembers is never read again.
Resolve(t, rule) ==
  [tracker |-> Idle, verdict |-> [id |-> t.id, rule |-> rule]]

\* Broken variant: the newer command silently replaces the older one.
ArmSilently(t, c, ok) ==
  [tracker |-> [armed |-> TRUE, id |-> c, ok |-> ok], verdict |-> NoVerdict]

\* Arming over a live command hands back a failure for it.
Arm(t, c, ok) ==
  [tracker |-> [armed |-> TRUE, id |-> c, ok |-> ok],
   verdict |-> IF t.armed THEN Resolve(t, "superseded").verdict ELSE NoVerdict]

\* Rules 1 to 4, in the order the code tries them.
OnGateEvent(t, s, r, transitioned) ==
  CASE ~t.armed -> Undecided(t)
    [] t.armed /\ transitioned /\ s = t.ok -> Resolve(t, "reached")
    [] t.armed /\ transitioned /\ s # t.ok /\ s = "Faulted" -> Resolve(t, "faulted")
    [] t.armed /\ transitioned /\ s # t.ok
         /\ s \in {"StoppedOpen", "StoppedClose"} -> Resolve(t, "stopped")
    [] t.armed /\ ~transitioned /\ r = "SafetyBeamObstacle" -> Resolve(t, "refused")
    [] OTHER -> Undecided(t)

\* Broken variant: the wrap-safe comparison the wrong way round.
OnTickReversed(t, late) ==
  IF t.armed /\ ~late THEN Resolve(t, "deadline") ELSE Undecided(t)

\* Rule 5; late says that the deadline has passed on the caller's clock.
OnTick(t, late) == IF t.armed /\ late THEN Resolve(t, "deadline") ELSE Undecided(t)

=============================================================================
