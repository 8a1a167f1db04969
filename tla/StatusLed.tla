------------------------------ MODULE StatusLed ------------------------------
(***************************************************************************)
(* The operator LED (firmware/components/gate_drivers/src/status_led.cpp): *)
(* render() on the tasks that call it, the blink timer's on_tick(), no     *)
(* lock between them.  One step is one access to what they share.  The     *)
(* three outputs are one colour; frame counts are CONSTANTS.               *)
(***************************************************************************)
EXTENDS Naturals

CONSTANTS
  LedTask,     \* tasks that call render(): gate_ctrl, gate_rpc, gate_ota
  FlashFrames, \* kAuthFlashFrames, kDenyFlashFrames
  BootFrames,  \* kBootOkFrames
  SlowPeriod,  \* kSlowBlinkPeriod
  FastPeriod   \* kFastBlinkPeriod

ASSUME LedAssumption ==
  /\ {FlashFrames, BootFrames} \subseteq Nat \ {0}
  /\ SlowPeriod \in Nat /\ SlowPeriod > 1 /\ FastPeriod \in Nat /\ FastPeriod > 1

Pattern == {"kOff", "kAuthFlash", "kDenyFlash", "kFaultSlow", "kOtaPulse", "kBootOk",
            "kGateMoving", "kGateOpen", "kGateStopped"}

VARIABLES
  current,  \* current_
  restart,  \* restart_requested_
  frame,    \* step_
  colour,   \* what the outputs show
  ticking,  \* timer_ is active
  caller,   \* [at, p]: where each task is in render()
  tick,     \* [at, p]: where the timer task is in on_tick()
  raced,    \* history: the last render() overlapped with another call
  aborted   \* ESP_ERROR_CHECK has failed: the controller resets

ledVars == <<current, restart, frame, colour, ticking, caller, tick, raced, aborted>>

Resting == [at |-> "idle", p |-> "kOff"]

Finite(p) == p \in {"kAuthFlash", "kDenyFlash", "kBootOk"}

Frames(p) == IF p = "kBootOk" THEN BootFrames ELSE FlashFrames

\* Bound: frames are counted up to a multiple of both periods.
FrameCycle == SlowPeriod * FastPeriod * FlashFrames * BootFrames

-----------------------------------------------------------------------------
(* on_tick() on the timer task.                                            *)

\* Broken variant: the last frame is left out.
EndsEarly(p, n) == p \in {"kOff", "kGateOpen"} \/ (Finite(p) /\ n + 1 >= Frames(p))

\* The patterns that stop the timer at this frame.
Ends(p, n) == p \in {"kOff", "kGateOpen"} \/ (Finite(p) /\ n >= Frames(p))

\* The colour of a pattern in frame n.
Colour(p, n) ==
  LET blink(c, on, other) == IF on THEN c ELSE other
      slow == n % SlowPeriod < SlowPeriod \div 2
  IN IF p = "kGateOpen" THEN "green"
     ELSE IF Ends(p, n) THEN "dark"
     ELSE
       CASE p = "kBootOk" -> "green"
         [] p = "kAuthFlash" -> blink("green", n % 2 = 0, "dark")
         [] p = "kDenyFlash" -> blink("red", n % 2 = 0, "dark")
         [] p = "kFaultSlow" -> blink("red", slow, "dark")
         [] p = "kOtaPulse" -> blink("yellow", slow, "dark")
         [] p = "kGateMoving" -> blink("yellow", n % FastPeriod < FastPeriod \div 2, "dark")
         [] p = "kGateStopped" -> blink("red", slow, "yellow")

Idle(t) == caller[t].at = "idle"

\* A call in progress is not undone by stopping the timer.
TickBegins ==
  /\ ticking /\ tick.at = "idle" /\ ~aborted
  /\ frame' = IF restart THEN 0 ELSE frame
  /\ restart' = FALSE
  /\ tick' = [tick EXCEPT !.at = "load"]
  /\ raced' = (raced \/ \E t \in LedTask : ~Idle(t))
  /\ UNCHANGED <<current, colour, ticking, caller, aborted>>

TickLoads ==
  /\ tick.at = "load"
  /\ tick' = [at |-> "show", p |-> current]
  /\ UNCHANGED <<current, restart, frame, colour, ticking, caller, raced, aborted>>

TickShows ==
  /\ tick.at = "show"
  /\ colour' = Colour(tick.p, frame)
  /\ IF Ends(tick.p, frame)
     THEN tick' = [tick EXCEPT !.at = "stop"] /\ UNCHANGED frame
     ELSE tick' = Resting /\ frame' = (frame + 1) % FrameCycle
  /\ UNCHANGED <<current, restart, ticking, caller, raced, aborted>>

TickStops ==
  /\ tick.at = "stop"
  /\ ticking' = FALSE /\ tick' = Resting
  /\ UNCHANGED <<current, restart, frame, colour, caller, raced, aborted>>

-----------------------------------------------------------------------------
(* render() on a task.                                                     *)

At(t, at) == caller' = [caller EXCEPT ![t].at = at]

Render(t, p) ==
  /\ Idle(t) /\ ~aborted
  /\ current' = p
  /\ caller' = [caller EXCEPT ![t] = [at |-> "restart", p |-> p]]
  /\ raced' = (tick.at # "idle" \/ \E u \in LedTask \ {t} : ~Idle(u))
  /\ UNCHANGED <<restart, frame, colour, ticking, tick, aborted>>

RenderRestarts(t) ==
  /\ caller[t].at = "restart"
  /\ restart' = TRUE
  /\ At(t, IF caller[t].p = "kOff" THEN "dark" ELSE "test")
  /\ UNCHANGED <<current, frame, colour, ticking, tick, raced, aborted>>

RenderDark(t) ==
  /\ caller[t].at = "dark"
  /\ colour' = "dark" /\ At(t, "stop")
  /\ UNCHANGED <<current, restart, frame, ticking, tick, raced, aborted>>

RenderStops(t) ==
  /\ caller[t].at = "stop"
  /\ ticking' = FALSE /\ caller' = [caller EXCEPT ![t] = Resting]
  /\ UNCHANGED <<current, restart, frame, colour, tick, raced, aborted>>

\* start_timer_if_needed() asks first ...
RenderTests(t) ==
  /\ caller[t].at = "test"
  /\ caller' = [caller EXCEPT ![t] = IF ticking THEN Resting ELSE [@ EXCEPT !.at = "start"]]
  /\ UNCHANGED <<current, restart, frame, colour, ticking, tick, raced, aborted>>

\* ... and starts then; esp_timer_start_periodic() refuses an active timer.
RenderStarts(t) ==
  /\ caller[t].at = "start"
  /\ aborted' = ticking /\ ticking' = TRUE
  /\ caller' = [caller EXCEPT ![t] = Resting]
  /\ UNCHANGED <<current, restart, frame, colour, tick, raced>>

LedInit ==
  /\ current = "kOff" /\ restart = FALSE /\ frame = 0
  /\ colour = "dark" /\ ticking = FALSE
  /\ caller = [t \in LedTask |-> Resting] /\ tick = Resting
  /\ raced = FALSE /\ aborted = FALSE

LedNext ==
  \/ TickBegins
  \/ TickLoads
  \/ TickShows
  \/ TickStops
  \/ \E t \in LedTask :
       \/ \E p \in Pattern : Render(t, p)
       \/ RenderRestarts(t)
       \/ RenderDark(t)
       \/ RenderStops(t)
       \/ RenderTests(t)
       \/ RenderStarts(t)

LedSpec == LedInit /\ [][LedNext]_ledVars

-----------------------------------------------------------------------------

\* A pattern that was asked for while nothing else touched the LED is played as it
\* should be: a repeating one keeps its timer, a finite one stops after its last
\* frame and leaves the LED dark, a steady one stays lit, off is off at once.
\* With an overlapping call none of this holds: a tick that ends the pattern before
\* may stop the timer the new one relies on, or light the LED after it was put out.
LedShowsPattern ==
  (tick.at = "idle" /\ ~raced /\ \A t \in LedTask : Idle(t)) =>
    IF ticking THEN current # "kOff"
    ELSE /\ Ends(current, frame)
         /\ Finite(current) => frame = Frames(current)
         /\ colour = IF current = "kGateOpen" THEN "green" ELSE "dark"

\* status_led.hpp:69-70, render() is thread-safe: whoever calls it, the controller
\* does not reset.
LedNeverAborts == ~aborted

=============================================================================
