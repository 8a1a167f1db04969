---------------------------- MODULE AccessControl ----------------------------
(***************************************************************************)
(* Who is let in: the fusion engine (server/fusion/src/fusion_engine.cpp)  *)
(* and the RPCs that ask it and steer it, SubmitDetection, Authorize and   *)
(* IssueCommand, over the tables of AllowlistStore.  SubmitDetection is    *)
(* called by the vision daemon of a gate (server/vision/src), which sends  *)
(* a frame again while the server is unavailable.                          *)
(*                                                                         *)
(* decide() reads shared state three times, each under a lock of its own:  *)
(* the gate's override, the blocklist, the allowlist.  What it computes in *)
(* between is local to its thread, so a decision is three steps and an RPC *)
(* goes on with one step per event it publishes.  IssueCommand writes the  *)
(* override, publishes the command and publishes the receipt.              *)
(*                                                                         *)
(* The bus is the order in which publish() numbers events; how they reach  *)
(* subscribers is EventDelivery's subject.  Overrides live in memory and   *)
(* go with the process, the tables are on disk.  Calls that are refused    *)
(* for a missing field change nothing and are left out.                    *)
(***************************************************************************)
EXTENDS AllowlistStore

CONSTANTS
  Gate,
  Handler,      \* server threads in SubmitDetection or Authorize
  Operator,     \* server threads in IssueCommand
  Frame,        \* DetectionFrames: [gate, plates, vehicles]
  Instant,      \* moments a decision may read from the clock
  Kind,         \* command kinds operators send
  AlprWeight, LidarWeight, Threshold, LidarMissing,  \* FusionConfig, in percent
  MaxAttempts,  \* SubmitClient::Config::max_attempts
  Budget        \* bounds: how many calls of each sort a behaviour makes

Override == {"none", "force_open", "force_close"}
Latch == {"LATCH_OPEN", "LATCH_CLOSE", "RELEASE_LATCH"}

ASSUME AccessAssumption ==
  /\ \A f \in Frame :
       /\ f.gate \in Gate
       /\ \A i \in DOMAIN f.plates : /\ f.plates[i].text \in Spelling
                                     /\ {f.plates[i].det, f.plates[i].ocr} \subseteq 0..100
       /\ \A i \in DOMAIN f.vehicles : /\ f.vehicles[i].class \in VehicleClass
                                       /\ f.vehicles[i].conf \in 0..100
  /\ Instant \subseteq [unix : Nat, minute : 0..(DayMinutes - 1), wday : 0..6]
  /\ {AlprWeight, LidarWeight, Threshold, LidarMissing} \subseteq 0..100
  /\ "UNKNOWN" \in VehicleClass
  /\ MaxAttempts \in Nat \ {0}
  /\ Budget \subseteq [requests : Nat, frames : Nat, commands : Nat, edits : Nat,
                       walks : Nat, restarts : Nat]

VARIABLES
  override,  \* overrides_: gate -> override
  epoch,     \* history: how often each gate's override was written or lost
  req,       \* the request of each handler
  seen,      \* history: what the tables have said of the request's plate since it began
  cmd,       \* the command of each operator
  sensor,    \* the vision daemon of each gate
  bus,       \* events published since the first start, oldest first
  left       \* what is left of the budget

vars == <<storeVars, override, epoch, req, seen, cmd, sensor, bus, left>>

-----------------------------------------------------------------------------
(* The verdict ladder.                                                     *)

\* The first index with the highest score.
Best(score) ==
  CHOOSE i \in DOMAIN score :
    \A j \in DOMAIN score : score[j] <= score[i] /\ (j < i => score[j] < score[i])

\* pick_best_plate(), pick_best_vehicle(): both want a non-empty list.
BestPlate(f) == f.plates[Best([i \in DOMAIN f.plates |-> f.plates[i].det])]
BestVehicle(f) ==
  IF f.vehicles = <<>> THEN [class |-> "UNKNOWN", conf |-> LidarMissing]
  ELSE f.vehicles[Best([i \in DOMAIN f.vehicles |-> f.vehicles[i].conf])]

PlateOf(f) == Normalize[BestPlate(f).text]

\* fold_alpr_confidence(), twice: the mean of detection and OCR.
Alpr(f) == BestPlate(f).det + BestPlate(f).ocr
Lidar(f) == 2 * BestVehicle(f).conf

LowConfidence(f) == AlprWeight * Alpr(f) + LidarWeight * Lidar(f) < 200 * Threshold

Outcome(v, why) == [verdict |-> v, reason |-> why]
Undecided == Outcome("none", "none")
Denied(why) == Outcome("DENIED", why)
Authorized == Outcome("AUTHORIZED", "none")

\* override_for(): a gate without an entry in the map has no override.
OverrideFor(g) == override[g]

\* Up to the confidence floor a decision depends on the override alone.
BeforeTables(f, o) ==
  IF o = "force_close" THEN Denied("FORCE_CLOSE")
  ELSE IF f.plates = <<>> THEN Denied("NO_PLATE_FOUND")
  ELSE IF o = "force_open" THEN Authorized
  ELSE IF LowConfidence(f)
       THEN Outcome("LOW_CONFIDENCE",
                    IF Alpr(f) <= Lidar(f) THEN "LOW_ALPR_CONF" ELSE "LOW_LIDAR_CONF")
  ELSE Undecided

AfterBlocklist(blocked, guard) ==
  IF blocked THEN Denied("BLOCKLISTED") ELSE IF guard THEN Authorized ELSE Undecided

AfterLookup(e, f, t) ==
  IF e = NoEntry THEN Denied("NOT_ON_ALLOWLIST")
  ELSE IF IsAllowedNow(e, BestVehicle(f).class, t) THEN Authorized
  ELSE IF ~ClassAllowed(e, BestVehicle(f).class)
       THEN Outcome("MANUAL_REVIEW", "CLASS_MISMATCH")
  ELSE Denied("OUTSIDE_WINDOW")

-----------------------------------------------------------------------------
(* SubmitDetection and Authorize.                                          *)

NoFrame == [gate |-> "none", plates |-> <<>>, vehicles |-> <<>>]
NoInstant == [unix |-> 0, minute |-> 0, wday |-> 0]

NoId == <<0, 0>>

IdleRequest == [at |-> "idle", id |-> NoId, rpc |-> "none", frame |-> NoFrame, guard |-> FALSE,
                now |-> NoInstant, read |-> "none", epoch |-> 0, out |-> Undecided]

\* What the tables say of a plate.
Tables(p, a, b) == [blocked |-> p \in b, entry |-> EntryOf(a, p)]

\* decide() returns with its first outcome, or goes on.
Advance(h, out, next) ==
  req' = [req EXCEPT ![h].out = out, ![h].at = IF out = Undecided THEN next ELSE "decided"]

\* A request, and decide() up to its first look into the tables.
Begin(h, rpc, id, f, guard, t) ==
  LET out == BeforeTables(f, OverrideFor(f.gate))
  IN /\ req[h].at = "idle"
     /\ req' = [req EXCEPT ![h] =
                  [at |-> IF out = Undecided THEN "blocklist" ELSE "decided",
                   id |-> id, rpc |-> rpc, frame |-> f, guard |-> guard,
                   now |-> t, read |-> OverrideFor(f.gate), epoch |-> epoch[f.gate], out |-> out]]
     /\ seen' = [seen EXCEPT ![h] = IF out = Undecided THEN {Tables(PlateOf(f), allow, block)} ELSE {}]
     /\ UNCHANGED <<storeVars, override, epoch, cmd, bus>>

\* A dashboard asks, perhaps with a guard's approval.
Authorize(h, f, guard, t) ==
  /\ left.requests > 0
  /\ Begin(h, "authorize", <<0, left.requests>>, f, guard, t)
  /\ left' = [left EXCEPT !.requests = @ - 1]
  /\ UNCHANGED sensor

\* An attempt of a gate's vision daemon reaches the server.
SubmitDetection(h, g, t) ==
  /\ sensor[g].at = "sending"
  /\ Begin(h, "submit", <<sensor[g].id, sensor[g].attempt>>, sensor[g].frame, FALSE, t)
  /\ sensor' = [sensor EXCEPT ![g].at = "calling", ![g].call = {h}]
  /\ UNCHANGED left

CheckBlocklist(h) ==
  /\ req[h].at = "blocklist"
  /\ Advance(h, AfterBlocklist(PlateOf(req[h].frame) \in block, req[h].guard), "lookup")
  /\ UNCHANGED <<storeVars, override, epoch, seen, cmd, sensor, bus, left>>

Lookup(h) ==
  /\ req[h].at = "lookup"
  /\ Advance(h, AfterLookup(EntryOf(allow, PlateOf(req[h].frame)), req[h].frame, req[h].now), "decided")
  /\ UNCHANGED <<storeVars, override, epoch, seen, cmd, sensor, bus, left>>

Event(type, gate, id, kind, n) == [type |-> type, gate |-> gate, id |-> id, kind |-> kind, epoch |-> n]

\* Broken variant: Authorize moves the gate too.
OpensForAnyRpc(r) == r.out = Authorized

\* An authorised SubmitDetection sends the gate a command, Authorize never does.
Opens(r) == r.rpc = "submit" /\ r.out = Authorized

\* The handler returns; its answer goes to the daemon, if that still waits for it.
Finish(h) ==
  /\ req' = [req EXCEPT ![h] = IdleRequest]
  /\ seen' = [seen EXCEPT ![h] = {}]
  /\ sensor' = [g \in Gate |-> IF h \in sensor[g].call
                               THEN [sensor[g] EXCEPT !.at = "answered", !.call = {}]
                               ELSE sensor[g]]

PublishDecision(h) ==
  /\ req[h].at = "decided"
  /\ bus' = Append(bus, Event("decision", req[h].frame.gate, req[h].id, req[h].out.verdict, 0))
  /\ IF Opens(req[h]) THEN req' = [req EXCEPT ![h].at = "open"] /\ UNCHANGED <<seen, sensor>>
                      ELSE Finish(h)
  /\ UNCHANGED <<storeVars, override, epoch, cmd, left>>

\* OPEN_GATE, its actor naming the decision.
PublishOpen(h) ==
  /\ req[h].at = "open"
  /\ bus' = Append(bus, Event("auto", req[h].frame.gate, req[h].id, "OPEN_GATE", 0))
  /\ Finish(h)
  /\ UNCHANGED <<storeVars, override, epoch, cmd, left>>

-----------------------------------------------------------------------------
(* The vision daemon: one frame after the other, each until it is answered *)
(* or the attempts are used up.  A handler does not notice that the client *)
(* has gone.                                                               *)

NewSensor == [at |-> "watching", id |-> 0, frame |-> NoFrame, attempt |-> 0, call |-> {}]

\* The source has something other than an empty driveway: build(), which numbers it.
Observe(g, f) ==
  /\ sensor[g].at = "watching" /\ left.frames > 0
  /\ f.gate = g /\ (f.plates # <<>> \/ f.vehicles # <<>>)
  /\ sensor' = [sensor EXCEPT ![g] = [at |-> "sending", id |-> sensor[g].id + 1, frame |-> f,
                                      attempt |-> 1, call |-> {}]]
  /\ left' = [left EXCEPT !.frames = @ - 1]
  /\ UNCHANGED <<storeVars, override, epoch, req, seen, cmd, bus>>

ReceiveDecision(g) ==
  /\ sensor[g].at = "answered"
  /\ sensor' = [sensor EXCEPT ![g].at = "watching"]
  /\ UNCHANGED <<storeVars, override, epoch, req, seen, cmd, bus, left>>

\* Broken variant: the frame is given up and the daemon goes on.
AfterAttemptSkips(n) == IF n = MaxAttempts THEN "watching" ELSE "sending"

\* UNAVAILABLE is tried again; after the last attempt submit() throws and the daemon ends.
AfterAttempt(n) == IF n = MaxAttempts THEN "exited" ELSE "sending"

\* The connection is refused or breaks, before the call, in it or with the answer.
Unavailable(g) ==
  /\ sensor[g].at \in {"sending", "calling", "answered"}
  /\ sensor' = [sensor EXCEPT ![g].at = AfterAttempt(sensor[g].attempt),
                              ![g].attempt = @ + 1, ![g].call = {}]
  /\ UNCHANGED <<storeVars, override, epoch, req, seen, cmd, bus, left>>

\* The deadline passes, or another status that is not tried again.
SubmitThrows(g) ==
  /\ sensor[g].at \in {"sending", "calling", "answered"}
  /\ sensor' = [sensor EXCEPT ![g].at = "exited", ![g].call = {}]
  /\ UNCHANGED <<storeVars, override, epoch, req, seen, cmd, bus, left>>

-----------------------------------------------------------------------------
(* IssueCommand.                                                           *)

IdleCommand == [at |-> "idle", id |-> NoId, gate |-> "none", kind |-> "none", epoch |-> 0]

LatchedBy(k) == CASE k = "LATCH_OPEN" -> "force_open"
                  [] k = "LATCH_CLOSE" -> "force_close"
                  [] k = "RELEASE_LATCH" -> "none"

\* Broken variant: a release leaves the override.
SetsOverrideUnlessRelease(k) == k \in Latch \ {"RELEASE_LATCH"}

SetsOverride(k) == k \in Latch

\* The command is stamped and a latch written to the override map.
IssueCommand(o, g, k) ==
  /\ cmd[o].at = "idle" /\ left.commands > 0
  /\ IF SetsOverride(k)
     THEN /\ override' = [override EXCEPT ![g] = LatchedBy(k)]
          /\ epoch' = [epoch EXCEPT ![g] = @ + 1]
     ELSE UNCHANGED <<override, epoch>>
  /\ cmd' = [cmd EXCEPT ![o] = [at |-> "command", id |-> <<0, left.commands>>, gate |-> g,
                                kind |-> k, epoch |-> epoch'[g]]]
  /\ left' = [left EXCEPT !.commands = @ - 1]
  /\ UNCHANGED <<storeVars, req, seen, sensor, bus>>

PublishCommand(o) ==
  /\ cmd[o].at = "command"
  /\ bus' = Append(bus, Event("command", cmd[o].gate, cmd[o].id, cmd[o].kind, cmd[o].epoch))
  /\ cmd' = [cmd EXCEPT ![o].at = "ack"]
  /\ UNCHANGED <<storeVars, override, epoch, req, seen, sensor, left>>

\* The synthesized receipt.
PublishAck(o) ==
  /\ cmd[o].at = "ack"
  /\ bus' = Append(bus, Event("ack", cmd[o].gate, cmd[o].id, cmd[o].kind, 0))
  /\ cmd' = [cmd EXCEPT ![o] = IdleCommand]
  /\ UNCHANGED <<storeVars, override, epoch, req, seen, sensor, left>>

-----------------------------------------------------------------------------

\* An admin edits the tables while requests are being decided.
AdminEdit ==
  /\ left.edits > 0
  /\ Edit
  /\ left' = [left EXCEPT !.edits = @ - 1]
  /\ seen' = [h \in Handler |->
                IF req[h].at \in {"blocklist", "lookup"}
                THEN seen[h] \cup {Tables(PlateOf(req[h].frame), allow', block')}
                ELSE seen[h]]
  /\ UNCHANGED <<override, epoch, req, cmd, sensor, bus>>

AdminStartsListing ==
  /\ left.walks > 0
  /\ StartWalk
  /\ left' = [left EXCEPT !.walks = @ - 1]
  /\ UNCHANGED <<override, epoch, req, seen, cmd, sensor, bus>>

AdminLists ==
  /\ \E size \in PageSize : NextPage(size)
  /\ UNCHANGED <<override, epoch, req, seen, cmd, sensor, bus, left>>

\* The server process ends and comes back: only the database is left.
Restart ==
  /\ left.restarts > 0
  /\ left' = [left EXCEPT !.restarts = @ - 1]
  /\ override' = [g \in Gate |-> "none"]
  /\ epoch' = [g \in Gate |-> epoch[g] + 1]
  /\ req' = [h \in Handler |-> IdleRequest]
  /\ seen' = [h \in Handler |-> {}]
  /\ cmd' = [o \in Operator |-> IdleCommand]
  /\ sensor' = [g \in Gate |-> [sensor[g] EXCEPT !.call = {}]]
  /\ UNCHANGED <<storeVars, bus>>

Init ==
  /\ StoreInit
  /\ override = [g \in Gate |-> "none"]
  /\ epoch = [g \in Gate |-> 0]
  /\ req = [h \in Handler |-> IdleRequest]
  /\ seen = [h \in Handler |-> {}]
  /\ cmd = [o \in Operator |-> IdleCommand]
  /\ sensor = [g \in Gate |-> NewSensor]
  /\ bus = <<>>
  /\ left \in Budget

Deciding(h) ==
  \/ \E g \in Gate, t \in Instant : SubmitDetection(h, g, t)
  \/ \E f \in Frame, guard \in BOOLEAN, t \in Instant : Authorize(h, f, guard, t)
  \/ CheckBlocklist(h)
  \/ Lookup(h)
  \/ PublishDecision(h)
  \/ PublishOpen(h)

Sensing(g) ==
  \/ \E f \in Frame : Observe(g, f)
  \/ ReceiveDecision(g)
  \/ Unavailable(g)
  \/ SubmitThrows(g)

Commanding(o) ==
  \/ \E g \in Gate, k \in Kind : IssueCommand(o, g, k)
  \/ PublishCommand(o)
  \/ PublishAck(o)

Next ==
  \/ \E h \in Handler : Deciding(h)
  \/ \E g \in Gate : Sensing(g)
  \/ \E o \in Operator : Commanding(o)
  \/ AdminEdit
  \/ AdminStartsListing
  \/ AdminLists
  \/ Restart

Spec == Init /\ [][Next]_vars

-----------------------------------------------------------------------------

\* Whether an entry admits a vehicle at a moment, said without the ladder.
Admits(e, f, t) ==
  /\ e # NoEntry
  /\ t.unix >= e.from /\ (t.unix < e.until \/ e.until = 0)
  /\ e.classes # {} => BestVehicle(f).class \in e.classes
  /\ e.windows # {} => \E w \in e.windows :
                        InWindow(w, t.minute) /\ (t.wday + 6) % 7 \in w.days

\* A verdict is right although the tables change while decide() is between its
\* locks: past the override and the confidence floor a vehicle is let in only if
\* its plate was off the blocklist at some moment of the request and, without a
\* guard's approval, an entry admitted it at some moment; and it is turned away
\* only if the blocklist or the allowlist spoke against it at some moment.
VerdictIsJustified ==
  \A h \in Handler :
    LET r == req[h]
    IN r.at = "decided" /\ r.read = "none" /\ r.frame.plates # <<>> /\ ~LowConfidence(r.frame)
       => IF r.out = Authorized
          THEN /\ \E s \in seen[h] : ~s.blocked
               /\ r.guard \/ \E s \in seen[h] : Admits(s.entry, r.frame, r.now)
          ELSE \E s \in seen[h] : s.blocked \/ ~(r.guard \/ Admits(s.entry, r.frame, r.now))

\* Lockdown: while a gate is force-closed, only a request that read the override
\* before the lockdown was set can still have an OPEN_GATE to publish
\* (decide's first rule, set_override).
LockdownHolds ==
  \A h \in Handler :
    req[h].at = "open" /\ override[req[h].frame.gate] = "force_close"
      => req[h].epoch < epoch[req[h].frame.gate]

IsLatch(e) == e.type = "command" /\ e.kind \in Latch

\* The happens-before that IssueCommand's comment promises, with any number of
\* operators at work: once a latch command is on the bus, the override map holds
\* what that command says, or what a latch written after it says.
LatchIsInForce ==
  \A i \in DOMAIN bus :
    IsLatch(bus[i]) =>
      /\ bus[i].epoch <= epoch[bus[i].gate]
      /\ bus[i].epoch = epoch[bus[i].gate] => override[bus[i].gate] = LatchedBy(bus[i].kind)

\* Latches: both of the above.
LatchesHold == LockdownHolds /\ LatchIsInForce

\* The audit trail on the bus: an automatic OPEN_GATE comes after the one decision
\* that authorised it, for the same gate, and once; a receipt comes after its
\* command (SubmitDetection, IssueCommand).  Authorize never moves a gate.
OpenHasItsDecision ==
  \A i \in DOMAIN bus :
    /\ bus[i].type = "auto" =>
         /\ \E j \in 1..(i - 1) : bus[j] = Event("decision", bus[i].gate, bus[i].id, "AUTHORIZED", 0)
         /\ \A j \in DOMAIN bus :
              bus[j].type = "auto" /\ bus[j].gate = bus[i].gate /\ bus[j].id = bus[i].id => j = i
    /\ bus[i].type = "ack" =>
         \E j \in 1..(i - 1) : bus[j].type = "command" /\ bus[j].id = bus[i].id
    /\ \A h \in Handler : req[h].at = "open" => req[h].rpc = "submit"

\* What became of a frame although calls break, handlers outlive their callers and
\* the server restarts: the daemon goes on to the next frame only when the last one
\* has been decided, and a frame that was sent again opens the gate at most once for
\* every attempt (submit's loop, the daemon's main loop).
FrameIsSettled ==
  \A g \in Gate : \A n \in 1..sensor[g].id :
    LET of(type) == {i \in DOMAIN bus : bus[i].type = type /\ bus[i].gate = g /\ bus[i].id[1] = n}
    IN /\ n < sensor[g].id \/ sensor[g].at = "watching" => of("decision") # {}
       /\ Cardinality(of("auto")) <= MaxAttempts

\* What fusion_engine.cpp says of a lockdown, "wins over everything": after a
\* LATCH_CLOSE a gate is sent no automatic OPEN_GATE until another latch command.
LockdownWins ==
  \A i, j \in DOMAIN bus :
    /\ i < j
    /\ bus[i].type = "command" /\ bus[i].kind = "LATCH_CLOSE"
    /\ bus[j].type = "auto" /\ bus[j].gate = bus[i].gate
    => \E k \in (i + 1)..(j - 1) : IsLatch(bus[k]) /\ bus[k].gate = bus[i].gate

=============================================================================
