-------------------------- MODULE MCEventDelivery --------------------------
(***************************************************************************)
(* Instances of EventDelivery for TLC: one gate, one dashboard.            *)
(***************************************************************************)
EXTENDS EventDelivery, TLC

G == "gate-01"
D == "dashboard"

OneGate == {G}
Both == {G, D}

\* The subscription Control makes and the one EventStream makes.
Subscriptions ==
  G :> [site |-> "", gates |-> {G}, kinds |-> {"decision"}] @@
  D :> [site |-> "site", gates |-> {},
        kinds |-> {"decision", "telemetry", "fault", "ota"}]

Of(g, k) == [site |-> "site", gate |-> g, kind |-> k]

\* A command for the gate and its telemetry.
CommandAndTelemetry == {Of(G, "command"), Of(G, "telemetry")}

\* A dashboard that reconnects, a gate that does not; the other way round.
DashboardReturns == G :> 1 @@ D :> 2
GateReturns == G :> 2 @@ D :> 1

Symmetry == Permutations(Publisher)

=============================================================================
