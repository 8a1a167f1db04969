--------------------------- MODULE DashboardFeed ---------------------------
(***************************************************************************)
(* The live half of the dashboard: the backend's EventStream thread and    *)
(* its stop(), the EventCache it fills, the WebSocket that replays and     *)
(* forwards the cache, GET /api/status, and the browser that shows both    *)
(* (dashboard/backend/src/event_stream.cpp, event_cache.cpp, controllers/  *)
(* events_ws_controller.cpp, status_controller.cpp; frontend live.ts).     *)
(*                                                                         *)
(* The gate server is external and keeps everything a subscriber asks for; *)
(* EventDelivery models its ring and its restarts.  There is one gate, so  *)
(* a telemetry table is the id of the event it was taken from.             *)
(***************************************************************************)
EXTENDS Naturals, Sequences, FiniteSets, SequencesExt

CONSTANTS
  Script,      \* bound: the payload cases of the events to be published
  RingCap,     \* ring_capacity
  MaxSockets   \* bound: WebSocket sessions

ASSUME FeedAssumption == {RingCap, MaxSockets} \subseteq Nat

VARIABLES
  published, \* number of events the server has published
  reader,  \* [at, ctx, pos, up]: the EventStream thread and its stream
  stopper, \* [at, late]: main() in stop(); late when the thread had tested stop_ but not
           \* published its context (history)
  cache,   \* [last, ring, gate, connected]
  conn,    \* [at, sent, missed, base, opened]: the WebSocket on the backend; base is
           \* the cache's last id when the sink was added (history, like sent and missed)
  browser  \* [socket, wire, gate, seeds, healed]; healed: a telemetry frame of
           \* this session's sink was shown, and no seed since (history)

feedVars == <<published, reader, stopper, cache, conn, browser>>

Stop == stopper.at # "running"  \* stop_

\* to_json(DashboardEvent): the payload case names the type, and only telemetry
\* brings a telemetry member.
ToJson(id) == [eventId |-> id, type |-> Script[id], telemetry |-> Script[id] = "telemetry"]

-----------------------------------------------------------------------------
(* EventCache.                                                             *)

\* Broken variant: the id a resume starts from is the first one seen.
HighestFirst(last, id) == IF last = 0 THEN id ELSE last

\* last_event_id_
Highest(last, id) == IF id > last THEN id ELSE last

Trim(ring) == IF Len(ring) > RingCap THEN Tail(ring) ELSE ring

\* ingest(), under the cache's lock: the ring, the gate table, every sink.
Ingest(id) ==
  /\ cache' = [cache EXCEPT !.last = Highest(@, id), !.ring = Trim(Append(@, ToJson(id))),
                            !.gate = IF ToJson(id).telemetry THEN id ELSE @,
                            !.connected = TRUE]
  /\ IF conn.at = "attached"
       THEN /\ browser' = [browser EXCEPT !.wire = Append(@, ToJson(id))]
            /\ conn' = [conn EXCEPT !.sent = Append(@, id)]
       ELSE /\ conn' = [conn EXCEPT !.missed = IF conn.at = "replayed" THEN @ \cup {id} ELSE @]
            /\ UNCHANGED browser

-----------------------------------------------------------------------------
(* The thread: EventStream::run().                                         *)

\* The loop test, and the subscription that resumes after the cache.
TestStop ==
  /\ reader.at = "test"
  /\ reader' = IF Stop THEN [reader EXCEPT !.at = "ended"]
               ELSE [reader EXCEPT !.at = "publish", !.pos = cache.last]
  /\ UNCHANGED <<published, stopper, cache, conn, browser>>

\* active_ctx_ = &ctx
PublishContext ==
  /\ reader.at = "publish"
  /\ reader' = [reader EXCEPT !.at = "subscribe", !.ctx = "active"]
  /\ UNCHANGED <<published, stopper, cache, conn, browser>>

\* Subscribe; a context that was cancelled already yields a dead stream.
OpenStream ==
  /\ reader.at = "subscribe"
  /\ reader' = [reader EXCEPT !.at = "loop", !.up = reader.ctx = "active"]
  /\ UNCHANGED <<published, stopper, cache, conn, browser>>

\* while (!stop_.load() && ...
ReadLoop ==
  /\ reader.at = "loop"
  /\ reader' = [reader EXCEPT !.at = IF Stop THEN "finish" ELSE "reading"]
  /\ cache' = [cache EXCEPT !.connected = ~Stop /\ @]
  /\ UNCHANGED <<published, stopper, conn, browser>>

\* ... reader->Read(&ev)): the next event.
ReadEvent ==
  /\ reader.at = "reading" /\ reader.up /\ reader.pos < published
  /\ Ingest(reader.pos + 1)
  /\ reader' = [reader EXCEPT !.at = "loop", !.pos = @ + 1]
  /\ UNCHANGED <<published, stopper>>

\* ... or the end of the stream.
ReadEnds ==
  /\ reader.at = "reading" /\ ~reader.up
  /\ reader' = [reader EXCEPT !.at = "finish"]
  /\ cache' = [cache EXCEPT !.connected = FALSE]
  /\ UNCHANGED <<published, stopper, conn, browser>>

\* reader->Finish() returns once the stream is over; then the context goes.
FinishStream ==
  /\ reader.at = "finish" /\ ~reader.up
  /\ reader' = [reader EXCEPT !.at = "retest", !.ctx = "none"]
  /\ UNCHANGED <<published, stopper, cache, conn, browser>>

RetestStop ==
  /\ reader.at = "retest"
  /\ reader' = [reader EXCEPT !.at = IF Stop THEN "ended" ELSE "backoff"]
  /\ UNCHANGED <<published, stopper, cache, conn, browser>>

\* wait_for: the time is up, however long it was, or stop() notified.
Backoff ==
  /\ reader.at = "backoff"
  /\ reader' = [reader EXCEPT !.at = "test"]
  /\ UNCHANGED <<published, stopper, cache, conn, browser>>

Thread ==
  \/ TestStop \/ PublishContext \/ OpenStream \/ ReadLoop \/ ReadEvent \/ ReadEnds
  \/ FinishStream \/ RetestStop \/ Backoff

\* ENABLED Thread: everything but a Read and a Finish that have to wait.
ThreadReady ==
  CASE reader.at = "ended" -> FALSE
    [] reader.at = "reading" -> ~reader.up \/ reader.pos < published
    [] reader.at = "finish" -> ~reader.up
    [] OTHER -> TRUE

-----------------------------------------------------------------------------
(* stop(), after drogon's run() has returned.                              *)

RaiseStop ==
  /\ stopper.at = "running"
  /\ stopper' = [stopper EXCEPT !.at = "cancel"]
  /\ UNCHANGED <<published, reader, cache, conn, browser>>

\* Broken variant: stop() leaves the stream alone.
CancelNothing ==
  /\ stopper.at = "cancel"
  /\ stopper' = [at |-> "join", late |-> reader.at = "publish"]
  /\ UNCHANGED <<published, reader, cache, conn, browser>>

\* Under ctx_mutex_: TryCancel on the context in use, if there is one.
CancelContext ==
  /\ stopper.at = "cancel"
  /\ stopper' = [at |-> "join", late |-> reader.at = "publish"]
  /\ reader' = IF reader.ctx = "none" THEN reader
               ELSE [reader EXCEPT !.ctx = "cancelled", !.up = FALSE]
  /\ UNCHANGED <<published, cache, conn, browser>>

Join ==
  /\ stopper.at = "join" /\ reader.at = "ended"
  /\ stopper' = [stopper EXCEPT !.at = "joined"]
  /\ UNCHANGED <<published, reader, cache, conn, browser>>

Shutdown == CancelContext \/ Join

\* ENABLED Shutdown
ShutdownReady == stopper.at = "cancel" \/ (stopper.at = "join" /\ reader.at = "ended")

-----------------------------------------------------------------------------
(* The gate server (external) and the network.                             *)

ServerPublishes ==
  /\ published < Len(Script)
  /\ published' = published + 1
  /\ UNCHANGED <<reader, stopper, cache, conn, browser>>

StreamDies ==
  /\ reader.up
  /\ reader' = [reader EXCEPT !.up = FALSE]
  /\ UNCHANGED <<published, stopper, cache, conn, browser>>

-----------------------------------------------------------------------------
(* The WebSocket and the browser.                                          *)

Serving == stopper.at = "running"  \* drogon's event loops run
Asked == [at |-> "asked", gate |-> 0]  \* a fetch of /api/status

\* openSocket(), from connect() or from the reconnect timer.
OpenSocket ==
  /\ Serving /\ browser.socket = "none" /\ conn.at = "none" /\ conn.opened < MaxSockets
  /\ browser' = [browser EXCEPT !.socket = "open", !.healed = FALSE,
                                !.seeds = IF "open" \in DOMAIN @ THEN @ ELSE @ @@ ("open" :> Asked)]
  /\ conn' = [conn EXCEPT !.at = "accepted", !.sent = <<>>, !.missed = {}, !.opened = @ + 1]
  /\ UNCHANGED <<published, reader, stopper, cache>>

\* handleNewConnection(): the ring, copied under the lock ...
Replay ==
  /\ Serving /\ conn.at = "accepted"
  /\ conn' = [conn EXCEPT !.at = "replayed", !.sent = [i \in DOMAIN cache.ring |-> cache.ring[i].eventId]]
  /\ browser' = [browser EXCEPT !.wire = cache.ring]
  /\ UNCHANGED <<published, reader, stopper, cache>>

\* ... and the sink, added under the lock again.
Attach ==
  /\ Serving /\ conn.at = "replayed"
  /\ conn' = [conn EXCEPT !.at = "attached", !.base = cache.last]
  /\ UNCHANGED <<published, reader, stopper, cache, browser>>

\* The connection goes: the sink is removed, onclose clears the badges, and the
\* reconnect timer is set.  Frames on their way are lost.
CloseSocket ==
  /\ Serving /\ conn.at = "attached"
  /\ conn' = [conn EXCEPT !.at = "none"]
  /\ browser' = [browser EXCEPT !.socket = "none", !.wire = <<>>, !.healed = FALSE]
  /\ UNCHANGED <<published, reader, stopper, cache>>

\* The gates store after a frame.
GateShown(old, f) == IF f.telemetry THEN f.eventId ELSE old

\* onmessage: ingest() updates the event's gate.  (The list of recent events it keeps
\* as well is only shown.)
Receive ==
  /\ browser.wire # <<>>
  /\ LET f == Head(browser.wire)
     IN browser' = [browser EXCEPT !.wire = Tail(@), !.gate = GateShown(@, f),
                                   !.healed = @ \/ (f.telemetry /\ conn.at = "attached"
                                                      /\ f.eventId > conn.base)]
  /\ UNCHANGED <<published, reader, stopper, cache, conn>>

\* seed(): GET /api/status takes status_snapshot() ...
ServeStatus(s) ==
  /\ Serving /\ s \in DOMAIN browser.seeds /\ browser.seeds[s] = Asked
  /\ browser' = [browser EXCEPT !.seeds[s] = [at |-> "answered", gate |-> cache.gate]]
  /\ UNCHANGED <<published, reader, stopper, cache, conn>>

\* ... and the answer replaces the store, unless the fetch fails.
ApplySeed(s, ok) ==
  /\ s \in DOMAIN browser.seeds /\ (ok => browser.seeds[s] # Asked)
  /\ browser' = [browser EXCEPT !.gate = IF ok THEN browser.seeds[s].gate ELSE @,
                                !.healed = @ /\ ~ok,
                                !.seeds = [x \in DOMAIN @ \ {s} |-> @[x]]]
  /\ UNCHANGED <<published, reader, stopper, cache, conn>>

FeedInit ==
  /\ published = 0
  /\ reader = [at |-> "test", ctx |-> "none", pos |-> 0, up |-> FALSE]
  /\ stopper = [at |-> "running", late |-> FALSE]
  /\ cache = [last |-> 0, ring |-> <<>>, gate |-> 0, connected |-> FALSE]
  /\ conn = [at |-> "none", sent |-> <<>>, missed |-> {}, base |-> 0, opened |-> 0]
  /\ browser = [socket |-> "none", wire |-> <<>>, gate |-> 0,
                seeds |-> ("connect" :> Asked), healed |-> FALSE]

FeedNext ==
  \/ Thread
  \/ RaiseStop
  \/ Shutdown
  \/ ServerPublishes
  \/ StreamDies
  \/ OpenSocket \/ Replay \/ Attach \/ CloseSocket \/ Receive
  \/ \E s \in {"connect", "open"} :
       ServeStatus(s) \/ ApplySeed(s, TRUE) \/ ApplySeed(s, FALSE)

FeedSpec == FeedInit /\ [][FeedNext]_feedVars

-----------------------------------------------------------------------------

\* What a WebSocket is sent is a run of the event stream without a repetition, a
\* reordering or a hole, across every reconnection of the backend to the server; only
\* the events ingested between the copy of the ring and the registration of the sink
\* are missing from it (handleNewConnection, ingest, run).
SocketIsExact ==
  LET ids == ToSet(conn.sent) \cup conn.missed
  IN conn.at = "attached" =>
       /\ \A i, j \in DOMAIN conn.sent : i < j => conn.sent[i] < conn.sent[j]
       /\ ids # {} => /\ cache.last \in ids
                      /\ \A i \in 1..cache.last : i \in ids \/ \A j \in ids : i < j

\* The gate tile heals: a seed that overtook a newer frame, or a frame lost in the
\* registration gap, leaves a stale tile only until the sink brings the next
\* telemetry frame; from then on the tile shows what the backend knows as soon as
\* the socket has been read (seed, ingest).
TileHeals ==
  conn.at = "attached" /\ browser.wire = <<>> /\ browser.healed => browser.gate = cache.gate

\* What the browser gets: both of the above.
FeedIsSound == SocketIsExact /\ TileHeals

\* stop() ends wherever it finds the thread, but for one place: the cancelled Read and
\* Finish return, a backoff is cut short, and main() joins the thread.  A thread that
\* is about to publish the context it decided on before stop_ was raised is the one
\* that is missed (EventStream::stop, run).
StopEnds == (stopper.at = "join" /\ ~stopper.late) ~> stopper.at = "joined"

=============================================================================
