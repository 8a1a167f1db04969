-------------------------- MODULE EventBroadcaster --------------------------
(***************************************************************************)
(* The server's fan-out hub (server/dash/src/event_broadcaster.cpp).       *)
(*                                                                         *)
(* publish() takes an id, stores the event in the ring and copies the list *)
(* of subscribers under the broadcaster's mutex, then pushes into each     *)
(* subscriber's queue under that subscriber's mutex only: one critical     *)
(* section is one step, and two publishers interleave between them.        *)
(* subscribe() replays the ring and registers in one critical section.     *)
(* publish and subscribe test the stopped flag before they take the mutex, *)
(* and stop() closes the subscribers one by one after it has released it.  *)
(*                                                                         *)
(* The actions here say nothing about the clients; EventDelivery conjoins  *)
(* them with the RPC handlers that call them.                              *)
(***************************************************************************)
EXTENDS Naturals, Sequences, FiniteSets, SequencesExt

CONSTANTS
  Publisher,    \* threads that publish
  Sub,          \* subscribers
  Payload,      \* what may be published: records [site, gate, kind]
  RingCapacity, \* ring_capacity
  SubCapacity,  \* per_subscriber_capacity
  MaxId,        \* bound on the event ids of one server run
  Filter        \* DashboardSubscription of each subscriber, without the cursor

EventKind == {"decision", "telemetry", "fault", "ota", "command", "ack"}

ASSUME BroadcasterAssumption ==
  /\ RingCapacity \in Nat \ {0}
  /\ SubCapacity \in Nat \ {0}
  /\ MaxId \in Nat
  /\ \A x \in Payload : x.kind \in EventKind
  /\ \A s \in Sub : Filter[s].kinds \subseteq {"decision", "telemetry", "fault", "ota"}

VARIABLES
  nextId,   \* next_event_id
  ring,     \* ring, oldest first
  subs,     \* registered subscribers, in order
  queue,    \* queue of each subscriber
  closed,   \* closed flag of each subscriber
  dropped,  \* whether a subscriber's queue has dropped an event
  stopped,  \* stopped
  sweep,    \* stop() in progress: what it has yet to do
  fan       \* publish() in progress in each thread

stopVars == <<stopped, sweep>>
busVars == <<nextId, ring, subs, queue, closed, dropped, stopVars, fan>>

\* stop() is not running, has set the flag, or has its list of subscribers to close.
Sweep == [at : {"none", "flagged", "closing"}, alive : SUBSET Sub]

NoPayload == [site |-> "", gate |-> "", kind |-> "none"]

\* A publisher is outside publish(), past the stopped test, or fanning out.
Idle == [at |-> "idle", event |-> [id |-> 0, body |-> NoPayload], targets |-> <<>>]

-----------------------------------------------------------------------------

\* filter_matches(): empty site and gate lists match anything, and a filter with
\* no kind flag set matches every kind; commands and acks pass any kind filter.
FilterMatches(f, x) ==
  /\ f.site = "" \/ f.site = x.site
  /\ f.gates = {} \/ x.gate \in f.gates
  /\ f.kinds = {} \/ x.kind \in f.kinds \/ x.kind \in {"command", "ack"}

Matches(s, e) == FilterMatches(Filter[s], e.body)

\* push_locked(): a full queue drops its oldest event.
Push(q, e) == Append(IF Len(q) >= SubCapacity THEN Tail(q) ELSE q, e)

Overflows(q) == Len(q) >= SubCapacity

-----------------------------------------------------------------------------
(* publish().                                                              *)

\* The stopped test, before the mutex.
BeginPublish(p) ==
  /\ fan[p].at = "idle" /\ ~stopped
  /\ fan' = [fan EXCEPT ![p].at = "entered"]
  /\ UNCHANGED <<nextId, ring, subs, queue, closed, dropped, stopVars>>

\* Broken variant: the ring grows without end.
RingForever(e) == Append(ring, e)

RingWith(e) == Append(IF Len(ring) = RingCapacity THEN Tail(ring) ELSE ring, e)

\* Under the mutex: the id, the ring and the list of subscribers.
Publish(p, x) ==
  LET e == [id |-> nextId, body |-> x]
  IN /\ fan[p].at = "entered" /\ nextId <= MaxId
     /\ nextId' = nextId + 1
     /\ ring' = RingWith(e)
     /\ fan' = [fan EXCEPT ![p] =
                  IF subs = <<>> THEN Idle
                  ELSE [at |-> "fanning", event |-> e, targets |-> subs]]
     /\ UNCHANGED <<subs, queue, closed, dropped, stopVars>>

\* Broken variant: a filtered or closed subscriber ends the fan-out.
FanOutStopsEarly(p) ==
  LET s == Head(fan[p].targets)
      e == fan[p].event
      rest == Tail(fan[p].targets)
      takes == ~closed[s] /\ Matches(s, e)
  IN /\ fan[p].at = "fanning"
     /\ fan' = [fan EXCEPT ![p] = IF rest = <<>> \/ ~takes THEN Idle
                                  ELSE [@ EXCEPT !.targets = rest]]
     /\ queue' = IF takes THEN [queue EXCEPT ![s] = Push(@, e)] ELSE queue
     /\ dropped' = IF takes /\ Overflows(queue[s]) THEN dropped \cup {s} ELSE dropped
     /\ UNCHANGED <<nextId, ring, subs, closed, stopVars>>

\* Under the next subscriber's mutex: closed and filtered subscribers are passed by.
FanOut(p) ==
  LET s == Head(fan[p].targets)
      e == fan[p].event
      rest == Tail(fan[p].targets)
      takes == ~closed[s] /\ Matches(s, e)
  IN /\ fan[p].at = "fanning"
     /\ fan' = [fan EXCEPT ![p] = IF rest = <<>> THEN Idle ELSE [@ EXCEPT !.targets = rest]]
     /\ queue' = IF takes THEN [queue EXCEPT ![s] = Push(@, e)] ELSE queue
     /\ dropped' = IF takes /\ Overflows(queue[s]) THEN dropped \cup {s} ELSE dropped
     /\ UNCHANGED <<nextId, ring, subs, closed, stopVars>>

-----------------------------------------------------------------------------
(* Subscriptions.                                                          *)

\* Broken variant: the cursor's own event is replayed again.
WantedFromCursor(s, since, e) == e.id >= since /\ Matches(s, e)

\* What subscribe() replays to s: the events newer than since_event_id.
Wanted(s, since, e) == e.id > since /\ Matches(s, e)

\* The new subscription after the first n events of the ring.
Replay(s, since) ==
  LET after[n \in 0..Len(ring)] ==
        IF n = 0 THEN [queue |-> <<>>, dropped |-> FALSE]
        ELSE IF Wanted(s, since, ring[n])
             THEN [queue |-> Push(after[n - 1].queue, ring[n]),
                   dropped |-> after[n - 1].dropped \/ Overflows(after[n - 1].queue)]
             ELSE after[n - 1]
  IN after[Len(ring)]

\* The critical section of subscribe(): replay into the new queue, register.
Subscribe(s, since) ==
  /\ queue' = [queue EXCEPT ![s] = Replay(s, since).queue]
  /\ dropped' = IF Replay(s, since).dropped THEN dropped \cup {s} ELSE dropped \ {s}
  /\ closed' = [closed EXCEPT ![s] = FALSE]
  /\ subs' = Append(subs, s)
  /\ UNCHANGED <<nextId, ring, stopVars, fan>>

\* drain_now() hands out everything at once.
DrainNow(s) ==
  /\ queue' = [queue EXCEPT ![s] = <<>>]
  /\ UNCHANGED <<nextId, ring, subs, closed, dropped, stopVars, fan>>

\* next() hands out the oldest event.
Next1(s) ==
  /\ queue[s] # <<>>
  /\ queue' = [queue EXCEPT ![s] = Tail(@)]
  /\ UNCHANGED <<nextId, ring, subs, closed, dropped, stopVars, fan>>

\* The handler destroys its subscription: publishers that still hold it push
\* into a closed queue, and the list forgets it.
Unsubscribe(s) ==
  /\ closed' = [closed EXCEPT ![s] = TRUE]
  /\ queue' = [queue EXCEPT ![s] = <<>>] /\ dropped' = dropped \ {s}
  /\ subs' = RemoveFirst(subs, s)
  /\ fan' = [p \in Publisher |->
               LET rest == RemoveFirst(fan[p].targets, s)
               IN IF fan[p].at = "fanning" /\ rest = <<>> THEN Idle
                  ELSE [fan[p] EXCEPT !.targets = rest]]
  /\ UNCHANGED <<nextId, ring, stopVars>>

\* stop() sets the flag, once.
StopFlag ==
  /\ ~stopped
  /\ stopped' = TRUE /\ sweep' = [sweep EXCEPT !.at = "flagged"]
  /\ UNCHANGED <<nextId, ring, subs, queue, closed, dropped, fan>>

\* Under the mutex: the list is taken over and cleared.
StopCollect ==
  /\ sweep.at = "flagged"
  /\ sweep' = [at |-> "closing", alive |-> ToSet(subs)]
  /\ subs' = <<>>
  /\ UNCHANGED <<nextId, ring, queue, closed, dropped, stopped, fan>>

\* Under each subscriber's mutex: closed, its queue stays.
StopClose ==
  /\ \E s \in sweep.alive :
       /\ closed' = [closed EXCEPT ![s] = TRUE]
       /\ sweep' = [sweep EXCEPT !.alive = @ \ {s}]
  /\ UNCHANGED <<nextId, ring, subs, queue, dropped, stopped, fan>>

BusInit ==
  /\ nextId = 1 /\ ring = <<>> /\ subs = <<>>
  /\ stopped = FALSE /\ sweep = [at |-> "none", alive |-> {}]
  /\ queue = [s \in Sub |-> <<>>] /\ closed = [s \in Sub |-> TRUE] /\ dropped = {}
  /\ fan = [p \in Publisher |-> Idle]

\* A new server process starts with an empty ring and counts from 1 again.
BusRestart ==
  /\ nextId' = 1 /\ ring' = <<>> /\ subs' = <<>>
  /\ stopped' = FALSE /\ sweep' = [at |-> "none", alive |-> {}]
  /\ queue' = [s \in Sub |-> <<>>] /\ closed' = [s \in Sub |-> TRUE] /\ dropped' = {}
  /\ fan' = [p \in Publisher |-> Idle]

=============================================================================
