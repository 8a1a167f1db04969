--------------------------- MODULE ScenarioSource ---------------------------
(***************************************************************************)
(* The scripted observation source of the vision daemon                    *)
(* (server/vision/src/scenario_source.cpp): from_json() accepts a document *)
(* whole or not at all, next() replays its events on a clock, as many      *)
(* times as "loop" says.                                                   *)
(*                                                                         *)
(* A document is a record of what from_json() looks at.  A field that is   *)
(* missing is Missing, one of the wrong JSON type is Mistyped.             *)
(***************************************************************************)
EXTENDS Naturals, Integers, Sequences

CONSTANTS
  Missing, Mistyped,
  Documents,     \* what the file may hold
  UnsignedMod,   \* 2^w for the width of `unsigned`
  Delays,        \* how long the daemon may take between two pulls
  ScenarioClock  \* bound: clock

\* A field that is there and not Mistyped has the type from_json() asks for.
ASSUME ScenarioAssumption ==
  /\ UnsignedMod \in Nat \ {0} /\ ScenarioClock \in Nat /\ Delays \subseteq Nat
  /\ \A d \in Documents \ {Mistyped} :
       /\ d.loop \in {Missing, Mistyped} \/ d.loop \in Int
       /\ \/ d.events \in {Missing, Mistyped}
          \/ /\ d.events \in Seq({d.events[i] : i \in DOMAIN d.events})
             /\ \A i \in DOMAIN d.events :
                  d.events[i].offset \in {Missing, Mistyped} \/ d.events[i].offset \in Int

VehicleClasses == {"unknown", "pedestrian", "bicycle", "motorcycle", "sedan", "suv", "pickup",
                   "van", "truck"}

VARIABLES
  document,   \* the file's contents
  source,     \* [at, events, loops, index, iteration, epoch]: the source and its caller
  sclock,     \* Clock::now()
  played      \* history: [event, at, epoch] for every observation set returned

scenarioVars == <<document, source, sclock, played>>

NoEpoch == -1  \* epoch_set_ is false

-----------------------------------------------------------------------------
(* from_json().                                                            *)

\* An optional field: absent, or of its type.
Optional(v, ok) == v = Missing \/ (v # Mistyped /\ ok)

\* require_confidence(), in percent.
ConfidenceOK(v) == v \notin {Missing, Mistyped} /\ v \in 0..100

\* parse_vehicle_class()
VehicleClassOK(v) == v \in VehicleClasses

\* parse_plate(): the text must be a non-empty string.
PlateOK(p) ==
  /\ p.text \notin {Missing, Mistyped, ""}
  /\ ConfidenceOK(p.conf)

\* parse_vehicle()
VehicleOK(v) == VehicleClassOK(v.class) /\ ConfidenceOK(v.conf)

\* parse_event()
EventOK(e) ==
  /\ e.offset \notin {Missing, Mistyped} /\ e.offset >= 0
  /\ Optional(e.plates, \A i \in DOMAIN e.plates : PlateOK(e.plates[i]))
  /\ Optional(e.vehicles, \A i \in DOMAIN e.vehicles : VehicleOK(e.vehicles[i]))

LoopOK(loop) == Optional(loop, loop >= 1)

DocumentOK(d) ==
  /\ d # Mistyped
  /\ LoopOK(d.loop)
  /\ d.events \notin {Missing, Mistyped, <<>>}
  /\ \A i \in DOMAIN d.events : EventOK(d.events[i])

\* The repetition count: 1 unless given, and stored in an `unsigned`.
Loops(d) == IF d.loop = Missing THEN 1 ELSE d.loop % UnsignedMod

\* from_json(): throws (the daemon exits) or returns the source.
Load ==
  /\ source.at = "load"
  /\ source' = IF DocumentOK(document)
                 THEN [source EXCEPT !.at = "run", !.events = document.events,
                                     !.loops = Loops(document)]
                 ELSE [source EXCEPT !.at = "refused"]
  /\ UNCHANGED <<document, sclock, played>>

-----------------------------------------------------------------------------
(* next().                                                                 *)

\* Broken variant: the epoch of the first iteration is kept.
AdvanceKeepingEpoch(s) ==
  IF s.index + 1 = Len(s.events) THEN [s EXCEPT !.index = 0, !.iteration = @ + 1]
  ELSE [s EXCEPT !.index = @ + 1]

\* After an event: the next one, or the next iteration, which has its own epoch.
Advance(s) ==
  IF s.index + 1 = Len(s.events)
    THEN [s EXCEPT !.index = 0, !.iteration = @ + 1, !.epoch = NoEpoch]
    ELSE [s EXCEPT !.index = @ + 1]

\* The stream has ended.
NextEnds ==
  /\ source.at = "run" /\ source.iteration >= source.loops
  /\ source' = [source EXCEPT !.at = "ended"]
  /\ UNCHANGED <<document, sclock, played>>

\* The next event, no earlier than its offset from the iteration's epoch.
NextEvent ==
  /\ source.at = "run" /\ source.iteration < source.loops
  /\ LET epoch == IF source.epoch = NoEpoch THEN sclock ELSE source.epoch
         event == source.events[source.index + 1]
         now == IF epoch + event.offset > sclock THEN epoch + event.offset ELSE sclock
     IN /\ sclock' = now
        /\ source' = Advance([source EXCEPT !.epoch = epoch])
        /\ played' = Append(played, [event |-> event, asked |-> sclock, at |-> now])
  /\ UNCHANGED document

\* The caller builds and submits a frame, with its retries.
CallerWorks(dt) ==
  /\ source.at = "run" /\ sclock + dt <= ScenarioClock
  /\ sclock' = sclock + dt
  /\ UNCHANGED <<document, source, played>>

ScenarioInit ==
  /\ document \in Documents
  /\ source = [at |-> "load", events |-> <<>>, loops |-> 0, index |-> 0, iteration |-> 0,
               epoch |-> NoEpoch]
  /\ sclock = 0 /\ played = <<>>

ScenarioNext ==
  \/ Load
  \/ NextEnds
  \/ NextEvent
  \/ \E dt \in Delays : CallerWorks(dt)

ScenarioSpec == ScenarioInit /\ [][ScenarioNext]_scenarioVars

-----------------------------------------------------------------------------

\* How often a document asks for its events.
Repetitions(d) == IF d.loop = Missing THEN 1 ELSE d.loop

\* A replay is the script, event by event and as often as it says: nothing is skipped
\* or repeated by the wrap of the index, an event is never early with respect to the
\* first pull of its own iteration, and a source that sleeps does so no longer than
\* that.  A document that is refused plays nothing.  The number of repetitions is
\* promised only as long as it fits `unsigned` (from_json, next).
ReplayIsFaithful ==
  LET n == Len(source.events)
      first(i) == ((i - 1) \div n) * n + 1
      due(i) == played[first(i)].asked + played[i].event.offset
  IN /\ source.at \in {"load", "refused"} => played = <<>>
     /\ \A i \in DOMAIN played :
          /\ played[i].event = document.events[((i - 1) % n) + 1]
          /\ played[i].at >= due(i)
          /\ played[i].at > due(i) => played[i].at = played[i].asked
     /\ source.at = "ended" /\ Repetitions(document) < UnsignedMod =>
          Len(played) = n * Repetitions(document)

=============================================================================
