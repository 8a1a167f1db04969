------------------------------- MODULE Parts -------------------------------
(***************************************************************************)
(* The parts of the system that share no state with each other, side by    *)
(* side: a behaviour is one of a single part, chosen at the start, and the *)
(* others stay as they are.                                                *)
(***************************************************************************)
EXTENDS OtaUpdater, StatusLed, GrpcStream, Ethernet, AlprPipeline, ScenarioSource,
        DashboardFeed, DashboardAdmin

VARIABLE part  \* the part that runs

Part == {"ota", "led", "grpc", "ethernet", "alpr", "scenario", "feed", "admin"}

vars == <<part, otaVars, ledVars, grpcVars, ethVars, alprVars, scenarioVars, feedVars, adminVars>>

\* The other parts stand still.
Only(p) ==
  /\ part = p /\ UNCHANGED part
  /\ p # "ota" => UNCHANGED otaVars
  /\ p # "led" => UNCHANGED ledVars
  /\ p # "grpc" => UNCHANGED grpcVars
  /\ p # "ethernet" => UNCHANGED ethVars
  /\ p # "alpr" => UNCHANGED alprVars
  /\ p # "scenario" => UNCHANGED scenarioVars
  /\ p # "feed" => UNCHANGED feedVars
  /\ p # "admin" => UNCHANGED adminVars

\* One choice of configuration for the parts that do not run.
Standing ==
  /\ part # "ota" => key = "none"
  /\ part # "scenario" => document = CHOOSE d \in Documents : TRUE
  /\ part # "admin" => backend.config = CHOOSE c \in Configs : TRUE

Init ==
  /\ part \in Part
  /\ OtaInit /\ LedInit /\ GrpcInit /\ EthInit /\ AlprInit /\ ScenarioInit /\ FeedInit /\ AdminInit
  /\ Standing

Next ==
  \/ Only("ota") /\ OtaNext
  \/ Only("led") /\ LedNext
  \/ Only("grpc") /\ GrpcNext
  \/ Only("ethernet") /\ EthNext
  \/ Only("alpr") /\ AlprNext
  \/ Only("scenario") /\ ScenarioNext
  \/ Only("feed") /\ FeedNext
  \/ Only("admin") /\ AdminNext

\* A controller that has power boots; the backend's stream thread and main() run.
\* Weak fairness, spelt out with the guards of Boot, Thread and Shutdown.
Fairness ==
  /\ \/ []<>~(part = "ota" /\ dev.at \notin {"up", "dead"})
     \/ []<><<part = "ota" /\ Boot>>_dev
  /\ \/ []<>~(part = "feed" /\ ThreadReady)
     \/ []<><<part = "feed" /\ Thread>>_reader
  /\ \/ []<>~(part = "feed" /\ ShutdownReady)
     \/ []<><<part = "feed" /\ Shutdown>>_stopper

Spec == Init /\ [][Next]_vars /\ Fairness

-----------------------------------------------------------------------------

\* ComesUp of the firmware updater, in the behaviours that are its own.
ControllerComesUp == part = "ota" => ComesUp

=============================================================================
