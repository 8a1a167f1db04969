--------------------------- MODULE MCCommandPath ---------------------------
(***************************************************************************)
(* The two ends of the stream that commands travel on, side by side: the   *)
(* server's bus with one gate and one dashboard, and the gate's control    *)
(* client.  A behaviour is one of a single end, chosen at the start, and   *)
(* the other stays as it is; a bus whose clients are done may rest.        *)
(***************************************************************************)
EXTENDS ControlClient

VARIABLES
  end,  \* the end that runs: "bus" or "client"
  nextId, ring, subs, subQueue, closed, dropped, stopped, sweep, fan,
  link, handler, wire, cursor, seen, again, owed, run, sessions

busEnd == <<nextId, ring, subs, subQueue, closed, dropped, stopped, sweep, fan,
            link, handler, wire, cursor, seen, again, owed, run, sessions>>

AllKinds == Kind

\* A command for the gate, which both are sent, and a decision at another gate, which
\* only the dashboard is sent.
Of(g, k) == [site |-> "site", gate |-> g, kind |-> k]
Published == {Of("gate-01", "command"), Of("gate-02", "decision")}

\* The subscription Control makes and the one EventStream makes.
Subscription(s) ==
  IF s = "gate-01" THEN [site |-> "", gates |-> {s}, kinds |-> {"decision"}]
  ELSE [site |-> "site", gates |-> {}, kinds |-> {"decision", "telemetry", "fault", "ota"}]

Both == {"gate-01", "dashboard"}

Bus == INSTANCE EventDelivery
         WITH queue <- subQueue, Publisher <- {"publisher"}, Sub <- Both, Gate <- {"gate-01"},
              Payload <- Published, Filter <- [s \in Both |-> Subscription(s)],
              RingCapacity <- 1, SubCapacity <- 1, MaxId <- 2, MaxRestarts <- 0,
              MaxSessions <- [s \in Both |-> 1]

PathInit ==
  /\ end \in {"bus", "client"} /\ Init /\ Bus!Init
  /\ end = "bus" => sm = CHOOSE m \in Resolved : TRUE

PathNext ==
  \/ end = "client" /\ Next /\ UNCHANGED <<end, busEnd>>
  \/ end = "bus" /\ (Bus!Next \/ UNCHANGED busEnd) /\ UNCHANGED <<end, vars>>

\* Fairness of ControlClient and of EventDelivery, each for the end that runs.
PathFairness ==
  /\ WF_vars(end = "client" /\ Pump) /\ WF_vars(end = "client" /\ RpcStep)
  /\ WF_vars(end = "client" /\ Ota) /\ SF_vars(end = "client" /\ DeadlineTick)
  /\ WF_busEnd(end = "bus" /\ Bus!Publishing("publisher"))
  /\ \A s \in Both :
       WF_busEnd(end = "bus" /\ Bus!Handling(s)) /\ WF_busEnd(end = "bus" /\ Bus!Read(s))

PathSpec == PathInit /\ [][PathNext]_<<end, vars, busEnd>> /\ PathFairness

\* What event delivery owes its clients, of the bus's behaviours.
OwedIsTaken == Bus!OwedIsTaken
StopReleases == Bus!StopReleases

=============================================================================
