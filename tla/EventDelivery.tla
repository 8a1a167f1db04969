--------------------------- MODULE EventDelivery ---------------------------
(***************************************************************************)
(* From the broadcaster to its clients: DashboardService::Subscribe and    *)
(* the writer thread of FieldControllerService::Control on the server, the *)
(* dashboard backend's EventStream and EventCache and the gate firmware on *)
(* the other end of a stream that may break at any time.                   *)
(*                                                                         *)
(* A dashboard resumes: it asks for what is newer than the highest id it   *)
(* has seen.  A gate does not: Control leaves since_event_id at 0.         *)
(*                                                                         *)
(* A client reconnects only after its previous handler has returned; two   *)
(* handlers of one client share nothing but the ring.                      *)
(***************************************************************************)
EXTENDS EventBroadcaster

CONSTANTS
  Gate,        \* the subscribers that are gates; the others are dashboards
  MaxRestarts, \* bound on server restarts
  MaxSessions  \* bound on the sessions of each client

ASSUME DeliveryAssumption ==
  /\ Gate \subseteq Sub
  /\ MaxRestarts \in Nat /\ MaxSessions \in [Sub -> Nat]

VARIABLES
  link,     \* whether the client's stream is up
  handler,  \* its RPC handler (HandlerAt)
  wire,     \* events written to the stream and not read yet
  cursor,   \* the client's last_event_id
  seen,     \* what the client has read, over all its sessions: <<run, id>>
  again,    \* clients that have read an event they had read before
  owed,     \* ids the current session has yet to take from its queue
  run,      \* server runs so far
  sessions  \* sessions of each client so far

clientVars == <<link, wire, cursor, seen, again>>
vars == <<busVars, clientVars, owed, handler, run, sessions>>

\* A handler has passed the stopped test, is about to drain the replay, serves
\* the queue, or (Control) only reads on after its writer thread has ended.
HandlerAt == {"none", "entered", "drain", "live", "reading"}

Dashboard == Sub \ Gate

Ids(q) == {q[i].id : i \in 1..Len(q)}

-----------------------------------------------------------------------------
(* Publishers.                                                             *)

Enter(p) ==
  /\ BeginPublish(p)
  /\ UNCHANGED <<clientVars, owed, handler, run, sessions>>

\* Telemetry, decisions, commands and acks, from any RPC handler.
PublishEvent(p) ==
  /\ \E x \in Payload :
       /\ Publish(p, x)
       /\ owed' = [s \in Sub |-> IF s \in ToSet(subs) /\ FilterMatches(Filter[s], x)
                                 THEN owed[s] \cup {nextId} ELSE owed[s]]
  /\ UNCHANGED <<clientVars, handler, run, sessions>>

FanOutEvent(p) ==
  /\ FanOut(p)
  /\ UNCHANGED <<clientVars, owed, handler, run, sessions>>

-----------------------------------------------------------------------------
(* The handlers.                                                           *)

\* EventStream::run or the firmware opens a stream; subscribe() tests stopped.
Connect(s) ==
  /\ ~link[s] /\ handler[s] = "none" /\ ~stopped /\ sessions[s] < MaxSessions[s]
  /\ link' = [link EXCEPT ![s] = TRUE]
  /\ handler' = [handler EXCEPT ![s] = "entered"]
  /\ sessions' = [sessions EXCEPT ![s] = @ + 1]
  /\ UNCHANGED <<busVars, wire, cursor, seen, again, owed, run>>

\* since_event_id: the cache's highest id, or the 0 of an unset field.
Since(s) == IF s \in Gate THEN 0 ELSE cursor[s]

Register(s) ==
  /\ handler[s] = "entered"
  /\ Subscribe(s, Since(s))
  /\ handler' = [handler EXCEPT ![s] = IF s \in Gate THEN "live" ELSE "drain"]
  /\ owed' = [owed EXCEPT ![s] = {e.id : e \in {x \in ToSet(ring) : x.id > Since(s) /\ Matches(s, x)}}]
  /\ UNCHANGED <<clientVars, run, sessions>>

\* Subscribe takes the whole replay first; what it cannot write any more is lost.
Drain(s) ==
  /\ handler[s] = "drain"
  /\ DrainNow(s)
  /\ wire' = [wire EXCEPT ![s] = IF link[s] THEN queue[s] ELSE <<>>]
  /\ handler' = [handler EXCEPT ![s] = "live"]
  /\ owed' = [owed EXCEPT ![s] = @ \ Ids(queue[s])]
  /\ UNCHANGED <<link, cursor, seen, again, run, sessions>>

\* Dashboards get every event; the writer of a gate passes only commands on.
Forward(s) ==
  LET e == Head(queue[s])
  IN /\ handler[s] = "live" /\ link[s]
     /\ Next1(s)
     /\ wire' = IF s \in Gate /\ e.body.kind # "command" THEN wire
                ELSE [wire EXCEPT ![s] = Append(@, e)]
     /\ owed' = [owed EXCEPT ![s] = @ \ {e.id}]
     /\ UNCHANGED <<link, cursor, seen, again, handler, run, sessions>>

\* Control's writer thread finds nothing queued and the bus stopped.
WriterEnds(s) ==
  /\ s \in Gate /\ handler[s] = "live" /\ stopped /\ queue[s] = <<>>
  /\ handler' = [handler EXCEPT ![s] = "reading"]
  /\ UNCHANGED <<busVars, clientVars, owed, run, sessions>>

\* Broken variant: a poll that comes back empty only checks for cancellation.
DoneUnlessStopped(s) == ~link[s]

\* The client is gone; or, in Subscribe, nothing is queued and the bus stopped.
Done(s) == ~link[s] \/ (s \notin Gate /\ stopped /\ queue[s] = <<>>)

HandlerReturns(s) ==
  /\ handler[s] \in {"live", "reading"} /\ Done(s)
  /\ Unsubscribe(s)
  /\ handler' = [handler EXCEPT ![s] = "none"]
  /\ link' = [link EXCEPT ![s] = FALSE]
  /\ owed' = [owed EXCEPT ![s] = {}]
  /\ UNCHANGED <<wire, cursor, seen, again, run, sessions>>

-----------------------------------------------------------------------------
(* The clients.                                                            *)

\* Broken variant: the cursor is the id read last, not the highest one.
CursorIsLatest(s, id) == id

\* last_event_id_ after ingest().
CursorAfter(s, id) == IF id > cursor[s] THEN id ELSE cursor[s]

\* EventCache::ingest(), or the gate executing a command. What the handler wrote
\* before it returned can still be read.
Read(s) ==
  LET e == Head(wire[s])
  IN /\ wire[s] # <<>>
     /\ seen' = [seen EXCEPT ![s] = @ \cup {<<run, e.id>>}]
     /\ again' = IF <<run, e.id>> \in seen[s] THEN again \cup {s} ELSE again
     /\ cursor' = [cursor EXCEPT ![s] = CursorAfter(s, e.id)]
     /\ wire' = [wire EXCEPT ![s] = Tail(@)]
     /\ UNCHANGED <<busVars, link, owed, handler, run, sessions>>

\* The connection breaks; what was on its way is lost. The handler notices later.
Disconnect(s) ==
  /\ link[s]
  /\ link' = [link EXCEPT ![s] = FALSE]
  /\ wire' = [wire EXCEPT ![s] = <<>>]
  /\ UNCHANGED <<busVars, cursor, seen, again, owed, handler, run, sessions>>

-----------------------------------------------------------------------------
(* The server process.                                                     *)

\* bus.stop() in main(), after a signal.
StopBus ==
  /\ StopFlag \/ StopCollect \/ StopClose
  /\ UNCHANGED <<clientVars, owed, handler, run, sessions>>

\* A crash, or the end of the process after stop(); a new server comes up.
ServerRestart ==
  /\ run <= MaxRestarts
  /\ BusRestart
  /\ run' = run + 1
  /\ link' = [s \in Sub |-> FALSE] /\ wire' = [s \in Sub |-> <<>>]
  /\ handler' = [s \in Sub |-> "none"]
  /\ owed' = [s \in Sub |-> {}]
  /\ UNCHANGED <<cursor, seen, again, sessions>>

Init ==
  /\ BusInit
  /\ link = [s \in Sub |-> FALSE] /\ handler = [s \in Sub |-> "none"]
  /\ wire = [s \in Sub |-> <<>>] /\ cursor = [s \in Sub |-> 0]
  /\ seen = [s \in Sub |-> {}] /\ again = {}
  /\ owed = [s \in Sub |-> {}]
  /\ run = 1 /\ sessions = [s \in Sub |-> 0]

Publishing(p) == PublishEvent(p) \/ FanOutEvent(p)

Handling(s) == \/ Register(s) \/ Drain(s) \/ Forward(s)
               \/ WriterEnds(s) \/ HandlerReturns(s)

Next ==
  \/ \E p \in Publisher : Enter(p) \/ Publishing(p)
  \/ \E s \in Sub : Connect(s) \/ Handling(s) \/ Read(s) \/ Disconnect(s)
  \/ StopBus \/ ServerRestart

Spec == Init /\ [][Next]_vars

-----------------------------------------------------------------------------
(* Properties.                                                             *)

Event == [id : 0..MaxId, body : Payload \cup {NoPayload}]

\* The type of every variable; the ring and the queues keep their capacity.
TypeOK ==
  /\ nextId \in 1..(MaxId + 1)
  /\ ring \in Seq(Event) /\ Len(ring) <= RingCapacity
  /\ subs \in Seq(Sub) /\ dropped \subseteq Sub
  /\ stopped \in BOOLEAN /\ sweep \in Sweep
  /\ queue \in [Sub -> Seq(Event)] /\ \A s \in Sub : Len(queue[s]) <= SubCapacity
  /\ closed \in [Sub -> BOOLEAN]
  /\ \A p \in Publisher : fan[p] \in [at : {"idle", "entered", "fanning"},
                                     event : Event, targets : Seq(Sub)]
  /\ link \in [Sub -> BOOLEAN] /\ handler \in [Sub -> HandlerAt]
  /\ wire \in [Sub -> Seq(Event)] /\ cursor \in [Sub -> 0..MaxId]
  /\ seen \in [Sub -> SUBSET ((1..(MaxRestarts + 1)) \X (1..MaxId))]
  /\ again \subseteq Sub /\ owed \in [Sub -> SUBSET (1..MaxId)]
  /\ run \in 1..(MaxRestarts + 1) /\ \A s \in Sub : sessions[s] \in 0..MaxSessions[s]

\* Events a publisher has yet to push to s.
Coming(s) ==
  {fan[p].event.id : p \in {q \in Publisher :
      s \in ToSet(fan[q].targets) /\ Matches(s, fan[q].event)}}

\* Within a session that dropped nothing, replay and live delivery meet without a
\* gap and without a duplicate: every event the subscription is owed is exactly
\* once queued or still being fanned out, and nothing else is, however publish()
\* and subscribe() interleave (event_broadcaster.cpp:207-232 and 302-317).
SessionExact ==
  \A s \in Sub : (handler[s] \in {"drain", "live"} /\ s \notin dropped /\ ~closed[s]) =>
    /\ owed[s] = Ids(queue[s]) \cup Coming(s)
    /\ Ids(queue[s]) \cap Coming(s) = {}
    /\ Cardinality(Ids(queue[s])) = Len(queue[s])

\* A dashboard never paints an event twice, over any number of reconnects and
\* server restarts (event_stream.hpp:8-10, no duplicates).
NoReplay == again \subseteq Gate

-----------------------------------------------------------------------------
(* Progress.                                                               *)

\* Handlers and publishers are threads that run; a client reads what arrives.
Fairness ==
  /\ \A p \in Publisher : WF_vars(Publishing(p))
  /\ \A s \in Sub : WF_vars(Handling(s)) /\ WF_vars(Read(s))

FairSpec == Spec /\ Fairness

\* Every event owed to a session is taken, unless the session ends or drops, or
\* stop() closes it in the middle of the fan-out.
OwedIsTaken ==
  \A s \in Sub, i \in 1..MaxId :
    (i \in owed[s]) ~> (i \notin owed[s] \/ ~link[s] \/ s \in dropped \/ stopped)

\* After stop() every Subscribe handler returns (server/src/main.cpp:107), the
\* ones that were inside subscribe() at that moment included.
StopReleases ==
  \A s \in Dashboard : stopped ~> (handler[s] = "none" \/ ~stopped)

-----------------------------------------------------------------------------
(* What the comments say and the code does not ensure.                     *)

\* field_controller_service.cpp:153-155, a gate only ever moves on an explicit
\* command: each command reaches the gate once.
CommandRunsOnce == again \cap Gate = {}

=============================================================================
