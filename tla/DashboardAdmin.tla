--------------------------- MODULE DashboardAdmin ---------------------------
(***************************************************************************)
(* The admin half of the dashboard: logging in, the bearer token and its   *)
(* filter, the REST controllers, the gRPC bridge with its deadline, and    *)
(* what the browser makes of the answers (dashboard/backend/src/auth.cpp,  *)
(* auth_filter.cpp, controllers/, grpc_bridge.cpp; frontend auth.ts and    *)
(* api.ts).  The gate server behind the bridge is external: it executes a  *)
(* call once or refuses it, early or late; AccessControl models it.        *)
(*                                                                         *)
(* A signature is the generation of the secret it was made with.  Time is  *)
(* in token lifetimes' fractions; an RPC may take any time.                *)
(***************************************************************************)
EXTENDS Integers, Sequences, FiniteSets, SequencesExt

CONSTANTS
  Requests,     \* what the operator may ask for (RequestOK)
  Configs,      \* command lines: [hash, pinned]
  CommandKinds, \* names CommandKind_Parse knows, UNSPECIFIED aside
  ClassNames,   \* names VehicleClass_Parse knows
  Ttl,          \* token_ttl_min
  MaxCalls, MaxTime, MaxRuns  \* bounds

\* The configured credential: nothing, something verify_password() cannot parse, or
\* a hash.
Hashes == {"none", "garbled", "hash"}

ASSUME AdminAssumption ==
  /\ {Ttl, MaxCalls, MaxTime, MaxRuns} \subseteq Nat
  /\ \A c \in Configs : c.hash \in Hashes /\ c.pinned \in BOOLEAN

VARIABLES
  backend,  \* [config, secret, run]: the process
  time,     \* system clock
  session,  \* [token, required]: sessionStorage and the login modal
  calls,    \* the REST calls made so far, see Call
  granted   \* history: tokens given for the right password

adminVars == <<backend, time, session, calls, granted>>

NoToken == [secret |-> 0, exp |-> 0]
NotYet == [run |-> 0, time |-> 0]

-----------------------------------------------------------------------------
(* AuthService.                                                            *)

AuthEnabled == backend.config.hash # "none"

\* AuthService(): a secret of its own per process unless one is given.
SecretFor(config, run) == IF config.pinned THEN 1 ELSE run + 1

\* verify_password(): a stored hash of another form matches nothing.
VerifyPassword(right) == backend.config.hash = "hash" /\ right

IssueToken == [secret |-> backend.secret, exp |-> time + Ttl]

\* verify_token(): signature and expiry.
VerifyToken(t) == t # NoToken /\ t.secret = backend.secret /\ time <= t.exp

\* login() in auth.ts, on the modal, and the endpoint behind it.
Login(right) ==
  /\ session.required /\ AuthEnabled
  /\ VerifyPassword(right)
  /\ session' = [token |-> IssueToken, required |-> FALSE]
  /\ granted' = granted \cup {IssueToken}
  /\ UNCHANGED <<backend, time, calls>>

Logout ==
  /\ session.token # NoToken
  /\ session' = [session EXCEPT !.token = NoToken]
  /\ UNCHANGED <<backend, time, calls, granted>>

-----------------------------------------------------------------------------
(* Controllers.                                                            *)

\* allowlist_entry_from_json()
EntryOK(e) ==
  /\ e.plate # "" /\ e.classes \subseteq ClassNames
  /\ \A w \in e.windows : w.start <= 1439 /\ w.end <= 1439

\* command(): a kind that has a name.
CommandOK(r) == r.kind \in CommandKinds

\* upsert(): every entry, or none goes upstream.
UpsertOK(r) == r.entries # <<>> /\ \A i \in DOMAIN r.entries : EntryOK(r.entries[i])

\* list(): a page size that is no number is an exception.
ListOK(r) == r.pageSize >= 0

\* remove(): a plate in the path.
RemoveOK(r) == r.plate # ""

RequestOK(r) ==
  CASE r.op = "command" -> CommandOK(r)
    [] r.op = "upsert" -> UpsertOK(r)
    [] r.op = "list" -> ListOK(r)
    [] r.op = "remove" -> RemoveOK(r)

\* AuthFilter::doFilter()
Admits(t) == ~AuthEnabled \/ VerifyToken(t)

\* Broken variant: a call that outlived its deadline reads as a bad request.
HttpStatusCollapsed(code) ==
  CASE code = "OK" -> 200 [] code = "UNAVAILABLE" -> 503 [] OTHER -> 400

\* http_status()
HttpStatus(code) ==
  CASE code = "OK" -> 200
    [] code = "INVALID_ARGUMENT" -> 400
    [] code = "NOT_FOUND" -> 404
    [] code = "ALREADY_EXISTS" -> 409
    [] code \in {"PERMISSION_DENIED", "UNAUTHENTICATED"} -> 403
    [] code = "DEADLINE_EXCEEDED" -> 504
    [] code = "UNAVAILABLE" -> 503
    [] code = "UNIMPLEMENTED" -> 501
    [] OTHER -> 502

\* A call as the browser sends it.
Call(r, t) ==
  [req |-> r, token |-> t, at |-> "sent", status |-> 0, admitted |-> NotYet,
   server |-> "none", reply |-> "none", done |-> 0]

\* request() in api.ts.
SendCall(r) ==
  /\ Len(calls) < MaxCalls
  /\ calls' = Append(calls, Call(r, session.token))
  /\ UNCHANGED <<backend, time, session, granted>>

\* The filter, the controller's checks and the bridge's call.
Handle(i) ==
  /\ calls[i].at = "sent"
  /\ calls' = [calls EXCEPT ![i] =
       IF ~Admits(@.token) THEN [@ EXCEPT !.at = "answered", !.status = 401]
       ELSE IF ~RequestOK(@.req)
         THEN [@ EXCEPT !.at = "answered", !.status = IF calls[i].req.op = "list" THEN 500 ELSE 400,
                        !.admitted = [run |-> backend.run, time |-> time]]
       ELSE [@ EXCEPT !.at = "upstream", !.server = "pending",
                      !.admitted = [run |-> backend.run, time |-> time]]]
  /\ UNCHANGED <<backend, time, session, granted>>

\* The server (external) gets to the call, perhaps after its caller has given up.
ServerActs(i, code) ==
  /\ calls[i].server = "pending"
  /\ calls' = [calls EXCEPT ![i].server = "done", ![i].reply = code,
                            ![i].done = IF code = "OK" THEN @ + 1 ELSE @]
  /\ UNCHANGED <<backend, time, session, granted>>

\* The bridge's RPC ends: with the reply, or without it at the deadline or when the
\* connection goes.
RpcEnds(i, code) ==
  /\ calls[i].at = "upstream"
  /\ code \in {calls[i].reply, "DEADLINE_EXCEEDED", "UNAVAILABLE"} \ {"none"}
  /\ calls' = [calls EXCEPT ![i].at = "answered", ![i].status = HttpStatus(code)]
  /\ UNCHANGED <<backend, time, session, granted>>

\* The answer reaches the browser; a 401 ends the session whatever token it was for.
Answer(i) ==
  /\ calls[i].at = "answered"
  /\ calls' = [calls EXCEPT ![i].at = "told"]
  /\ session' = IF calls[i].status = 401 THEN [token |-> NoToken, required |-> TRUE] ELSE session
  /\ UNCHANGED <<backend, time, granted>>

\* The backend is restarted: calls in it, and answers on their way, become network
\* errors.
Restart ==
  /\ backend.run < MaxRuns
  /\ backend' = [backend EXCEPT !.run = @ + 1, !.secret = SecretFor(backend.config, backend.run + 1)]
  /\ calls' = [i \in DOMAIN calls |->
                 IF calls[i].at = "told" THEN calls[i]
                 ELSE [calls[i] EXCEPT !.at = "told", !.status = 0]]
  /\ UNCHANGED <<time, session, granted>>

Tick ==
  /\ time < MaxTime
  /\ time' = time + 1
  /\ UNCHANGED <<backend, session, calls, granted>>

AdminInit ==
  /\ \E c \in Configs : backend = [config |-> c, run |-> 0, secret |-> SecretFor(c, 0)]
  /\ time = 0 /\ granted = {} /\ calls = <<>>
  /\ session = [token |-> NoToken, required |-> FALSE]

AdminNext ==
  \/ \E right \in BOOLEAN : Login(right)
  \/ Logout
  \/ \E r \in Requests : SendCall(r)
  \/ \E i \in DOMAIN calls :
       \/ Handle(i)
       \/ \E code \in {"OK", "INVALID_ARGUMENT", "INTERNAL"} : ServerActs(i, code)
       \/ \E code \in {"OK", "INVALID_ARGUMENT", "INTERNAL", "DEADLINE_EXCEEDED", "UNAVAILABLE"} :
            RpcEnds(i, code)
       \/ Answer(i)
  \/ Restart
  \/ Tick

AdminSpec == AdminInit /\ [][AdminNext]_adminVars

-----------------------------------------------------------------------------

\* The operator can trust an answer: "ok" means the server did it, exactly once, and a
\* refusal (400, 401, 403, 404, 409, 501) means it never did and never will, even when
\* the server gets to a call after the bridge gave it up.  The other answers, and a
\* network error, say nothing (http_status, request).
AnswersAreTrue ==
  \A i \in DOMAIN calls :
    /\ calls[i].done <= 1
    /\ calls[i].status = 200 => calls[i].done = 1
    /\ calls[i].status \in {400, 401, 403, 404, 409, 501} =>
         calls[i].done = 0 /\ calls[i].server # "pending"

\* With auth on, whatever the server is asked to do was asked with a token this
\* process would have given out: for the right password, not expired, and, without
\* a pinned secret, since its last restart; a credential that cannot be parsed lets
\* nobody in (doFilter, verify_token, verify_password).
OnlyAdminsAct ==
  \A i \in DOMAIN calls :
    calls[i].server # "none" /\ backend.config.hash # "none" =>
      /\ backend.config.hash = "hash"
      /\ calls[i].token \in granted
      /\ calls[i].admitted.time <= calls[i].token.exp
      /\ calls[i].token.secret = SecretFor(backend.config, calls[i].admitted.run)

\* The admin's calls: both of the above.
CallsAreSound == AnswersAreTrue /\ OnlyAdminsAct

=============================================================================
