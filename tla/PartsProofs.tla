---------------------------- MODULE PartsProofs ----------------------------
(***************************************************************************)
(* Theorems about the parts that share no state with the others, each for  *)
(* its own specification and for every value of its constants, and what    *)
(* makes them theorems of Parts.  Those of the firmware are in             *)
(* FirmwareProofs.                                                         *)
(***************************************************************************)
EXTENDS Parts, FirmwareProofs, FiniteSetTheorems, TLAPS

-----------------------------------------------------------------------------
(* DashboardAdmin.                                                         *)

Token == [secret : Nat, exp : Nat]
CallRecord ==
  [req : Requests, token : Token, at : {"sent", "upstream", "answered", "told"}, status : Nat,
   admitted : [run : Nat, time : Nat], server : {"none", "pending", "done"},
   reply : {"none", "OK", "INVALID_ARGUMENT", "INTERNAL"}, done : Nat]

AdminTypeOK ==
  /\ backend \in [config : Configs, run : Nat, secret : Nat]
  /\ time \in Nat
  /\ session \in [token : Token, required : BOOLEAN]
  /\ calls \in Seq(CallRecord)
  /\ granted \subseteq Token

\* Tokens are the backend's own, and only a right password brings one.
TokensInv ==
  /\ backend.secret = SecretFor(backend.config, backend.run)
  /\ granted # {} => backend.config.hash = "hash"
  /\ session.token \in granted \cup {NoToken}
  /\ \A i \in DOMAIN calls : calls[i].token \in granted \cup {NoToken}

\* What the server did with a call, and where the call is.
Executed(c) ==
  /\ c.server \in {"none", "pending"} => c.reply = "none" /\ c.done = 0
  /\ c.server = "done" => c.reply # "none" /\ c.done = IF c.reply = "OK" THEN 1 ELSE 0
  /\ c.at = "sent" => c.server = "none"
  /\ c.at \in {"sent", "upstream"} => c.status = 0

\* What an answer says of that.
AnswerTrue(c) ==
  /\ c.status = 200 => c.server = "done" /\ c.reply = "OK"
  /\ c.status \in {400, 401, 403, 404, 409, 501} => c.done = 0 /\ c.server # "pending"

\* A call that went upstream was let through for a token that was good then.
Admitted(c) ==
  c.server # "none" /\ backend.config.hash # "none" =>
    /\ c.token \in granted
    /\ c.admitted.time <= c.token.exp
    /\ c.token.secret = SecretFor(backend.config, c.admitted.run)

CallsInv == \A i \in DOMAIN calls : Executed(calls[i]) /\ AnswerTrue(calls[i]) /\ Admitted(calls[i])

AdminInv == AdminTypeOK /\ TokensInv /\ CallsInv

\* A call that is changed in place leaves the others, and the number of them, alone.
LEMMA OneCall ==
  ASSUME NEW s \in Seq(CallRecord), NEW i \in DOMAIN s, NEW c \in CallRecord
  PROVE  /\ [s EXCEPT ![i] = c] \in Seq(CallRecord)
         /\ DOMAIN [s EXCEPT ![i] = c] = DOMAIN s
         /\ [s EXCEPT ![i] = c][i] = c
         /\ \A j \in DOMAIN s : j # i => [s EXCEPT ![i] = c][j] = s[j]
  OBVIOUS

\* An answered call is still a call.
LEMMA AnsweredCall ==
  ASSUME NEW k \in CallRecord, NEW n \in Nat,
         NEW a \in {"sent", "upstream", "answered", "told"}
  PROVE  [k EXCEPT !.at = a, !.status = n] \in CallRecord
  BY DEF CallRecord

\* So is one that was admitted first.
LEMMA AdmittedCall ==
  ASSUME NEW k \in CallRecord, NEW n \in Nat, NEW m \in [run : Nat, time : Nat]
  PROVE  [k EXCEPT !.at = "answered", !.status = n, !.admitted = m] \in CallRecord
  BY DEF CallRecord

\* And one the server is done with.
LEMMA ServedCall ==
  ASSUME NEW k \in CallRecord, NEW n \in Nat, NEW r \in {"OK", "INVALID_ARGUMENT", "INTERNAL"}
  PROVE  [k EXCEPT !.server = "done", !.reply = r, !.done = n] \in CallRecord
  BY DEF CallRecord

\* A secret is a generation.
LEMMA SecretType ==
  ASSUME NEW c \in Configs, NEW r \in Nat
  PROVE  SecretFor(c, r) \in Nat
  BY DEF SecretFor

\* A call changed in place keeps the invariant when the changed one does: nothing else
\* of the backend, the clock or the tokens moves.
LEMMA ChangedCall ==
  ASSUME AdminInv, NEW i \in DOMAIN calls, NEW c \in CallRecord,
         calls' = [calls EXCEPT ![i] = c], UNCHANGED <<backend, time, granted>>,
         session' = session \/ session' = [token |-> NoToken, required |-> TRUE],
         c.token = calls[i].token, Executed(c), AnswerTrue(c), Admitted(c)
  PROVE  AdminInv'
<1>0. AdminTypeOK /\ TokensInv /\ CallsInv
  BY DEF AdminInv
<1>1. /\ calls' \in Seq(CallRecord) /\ DOMAIN calls' = DOMAIN calls /\ calls'[i] = c
      /\ \A j \in DOMAIN calls : j # i => calls'[j] = calls[j]
  <2>1. calls \in Seq(CallRecord)
    BY <1>0 DEF AdminTypeOK
  <2>2. QED
    BY <2>1, OneCall
<1>2. NoToken \in Token
  BY DEF NoToken, Token
<1>3. session' \in [token : Token, required : BOOLEAN] /\ session'.token \in {session.token, NoToken}
  <2>1. [token |-> NoToken, required |-> TRUE] \in [token : Token, required : BOOLEAN]
    BY <1>2, Zenon
  <2>2. session \in [token : Token, required : BOOLEAN]
    BY <1>0 DEF AdminTypeOK
  <2>3. CASE session' = [token |-> NoToken, required |-> TRUE]
    <3>1. session' \in [token : Token, required : BOOLEAN]
      BY <2>1, <2>3
    <3>2. session'.token = NoToken
      BY <2>3
    <3>3. QED
      BY <3>1, <3>2
  <2>4. CASE session' = session
    BY <2>2, <2>4
  <2>5. QED
    BY <2>3, <2>4
<1>4. AdminTypeOK'
  BY <1>0, <1>1, <1>3 DEF AdminTypeOK
<1>5. TokensInv'
  BY <1>0, <1>1, <1>3 DEF TokensInv
<1>6. \A k : Executed(k)' = Executed(k) /\ AnswerTrue(k)' = AnswerTrue(k)
  BY DEF Executed, AnswerTrue
<1>7. ASSUME NEW j \in DOMAIN calls'
      PROVE  Executed(calls'[j]) /\ AnswerTrue(calls'[j]) /\ Admitted(calls'[j])
  BY <1>0, <1>1 DEF CallsInv
<1>8. CallsInv'
  BY <1>1, <1>7 DEF CallsInv, Executed, AnswerTrue, Admitted
<1>9. QED
  BY <1>4, <1>5, <1>8 DEF AdminInv

\* No step of browser, backend or server makes an answer untrue, or lets a call pass
\* that no good token came with.
LEMMA AdminStep ==
  ASSUME AdminInv, AdminNext
  PROVE  AdminInv'
<1>0. AdminTypeOK /\ TokensInv /\ CallsInv
  BY DEF AdminInv
<1>0a. \A i \in DOMAIN calls : calls[i] \in CallRecord
  BY <1>0 DEF AdminTypeOK
<1>0b. ASSUME NEW i \in DOMAIN calls
       PROVE  Executed(calls[i]) /\ AnswerTrue(calls[i]) /\ Admitted(calls[i])
  BY <1>0 DEF CallsInv
<1>0c. NoToken \in Token
  BY DEF NoToken, Token
<1>0d. Ttl \in Nat
  BY AdminAssumption
<1>1. ASSUME NEW right \in BOOLEAN, Login(right) PROVE AdminInv'
  <2>1. IssueToken \in Token
    BY <1>0, <1>0d DEF AdminTypeOK, IssueToken, Token
  <2>2. /\ backend.config.hash = "hash" /\ UNCHANGED <<backend, time, calls>>
        /\ session' = [token |-> IssueToken, required |-> FALSE]
        /\ granted' = granted \cup {IssueToken}
    BY <1>1 DEF Login, VerifyPassword
  <2> HIDE DEF Token
  <2>3. AdminTypeOK'
    BY <1>0, <2>1, <2>2 DEF AdminTypeOK
  <2>4. TokensInv'
    BY <1>0, <2>2 DEF TokensInv
  <2>5. CallsInv'
    BY <1>0, <2>2 DEF CallsInv, Executed, AnswerTrue, Admitted
  <2>6. QED
    BY <2>3, <2>4, <2>5 DEF AdminInv
<1>2. CASE Logout
  <2>1. /\ UNCHANGED <<backend, time, calls, granted>>
        /\ session' \in [token : Token, required : BOOLEAN] /\ session'.token = NoToken
    BY <1>0, <1>0c, <1>2 DEF Logout, AdminTypeOK
  <2>2. QED
    BY <1>0, <2>1 DEF AdminInv, AdminTypeOK, TokensInv, CallsInv, Executed, AnswerTrue, Admitted
<1>3. ASSUME NEW r \in Requests, SendCall(r) PROVE AdminInv'
  <2> DEFINE c == Call(r, session.token)
  <2>1. c \in CallRecord
    BY <1>0 DEF AdminTypeOK, Call, CallRecord, NotYet
  <2>2. Executed(c) /\ AnswerTrue(c) /\ Admitted(c) /\ c.token = session.token
    BY DEF Call, Executed, AnswerTrue, Admitted
  <2>3. calls' = Append(calls, c) /\ UNCHANGED <<backend, time, session, granted>>
    BY <1>3 DEF SendCall
  <2> HIDE DEF c
  <2>4. /\ calls' \in Seq(CallRecord)
        /\ \A i \in DOMAIN calls' : (i \in DOMAIN calls /\ calls'[i] = calls[i]) \/ calls'[i] = c
    BY <1>0, <2>1, <2>3 DEF AdminTypeOK
  <2>5. AdminTypeOK'
    BY <1>0, <2>3, <2>4 DEF AdminTypeOK
  <2>6. TokensInv'
    BY <1>0, <2>2, <2>3, <2>4 DEF TokensInv
  <2>7. \A i \in DOMAIN calls' : Executed(calls'[i]) /\ AnswerTrue(calls'[i]) /\ Admitted(calls'[i])
    BY <1>0b, <2>2, <2>4
  <2>8. CallsInv'
    BY <2>3, <2>7 DEF CallsInv, Executed, AnswerTrue, Admitted
  <2>9. QED
    BY <2>5, <2>6, <2>8 DEF AdminInv
<1>4. ASSUME NEW i \in DOMAIN calls, Handle(i) PROVE AdminInv'
  <2> DEFINE k == calls[i]
             now == [run |-> backend.run, time |-> time]
             refused == [k EXCEPT !.at = "answered", !.status = 401]
             bad == [k EXCEPT !.at = "answered", !.status = IF k.req.op = "list" THEN 500 ELSE 400,
                              !.admitted = now]
             passed == [k EXCEPT !.at = "upstream", !.server = "pending", !.admitted = now]
  <2>1. k \in CallRecord /\ now \in [run : Nat, time : Nat]
    BY <1>0, <1>0a DEF AdminTypeOK
  <2>2. k.at = "sent" /\ k.server = "none" /\ k.reply = "none" /\ k.done = 0 /\ k.status = 0
    BY <1>0b, <1>4 DEF Handle, Executed
  <2>3. UNCHANGED <<backend, time, session, granted>>
    BY <1>4 DEF Handle
  <2>4. CASE ~Admits(k.token)
    <3>1. calls' = [calls EXCEPT ![i] = refused]
      BY <1>4, <2>4 DEF Handle
    <3>2. refused \in CallRecord /\ refused.token = k.token
      <4>0. 401 \in Nat
        OBVIOUS
      <4>1. refused \in CallRecord
        BY <2>1, <4>0, AnsweredCall, ZenonT(30)
      <4>2. QED
        BY <2>1, <4>1 DEF CallRecord
    <3>3. Executed(refused) /\ AnswerTrue(refused) /\ Admitted(refused)
      BY <2>1, <2>2 DEF CallRecord, Executed, AnswerTrue, Admitted
    <3> HIDE DEF refused
    <3>4. QED
      BY <2>3, <3>1, <3>2, <3>3, ChangedCall
  <2>5. CASE Admits(k.token) /\ ~RequestOK(k.req)
    <3>1. calls' = [calls EXCEPT ![i] = bad]
      BY <1>4, <2>5 DEF Handle
    <3>2. bad \in CallRecord /\ bad.token = k.token
      <4> DEFINE code == IF k.req.op = "list" THEN 500 ELSE 400
      <4>0. code \in Nat /\ bad = [k EXCEPT !.at = "answered", !.status = code, !.admitted = now]
        OBVIOUS
      <4> HIDE DEF bad, code, now
      <4>1. bad \in CallRecord
        BY <2>1, <4>0, AdmittedCall, Zenon
      <4> USE DEF bad
      <4>2. QED
        BY <2>1, <4>1 DEF CallRecord
    <3>3. Executed(bad) /\ AnswerTrue(bad) /\ Admitted(bad)
      BY <2>1, <2>2 DEF CallRecord, Executed, AnswerTrue, Admitted
    <3> HIDE DEF bad
    <3>4. QED
      BY <2>3, <3>1, <3>2, <3>3, ChangedCall
  <2>6. CASE Admits(k.token) /\ RequestOK(k.req)
    <3>1. calls' = [calls EXCEPT ![i] = passed]
      BY <1>4, <2>6 DEF Handle
    <3>2. /\ passed \in CallRecord /\ passed.token = k.token /\ passed.admitted = now
          /\ passed.status = 0 /\ passed.server = "pending" /\ passed.at = "upstream"
          /\ passed.reply = "none" /\ passed.done = 0
      BY <2>1, <2>2 DEF CallRecord
    <3>3. Executed(passed) /\ AnswerTrue(passed)
      BY <3>2 DEF Executed, AnswerTrue
    <3>4. Admitted(passed)
      <4>1. SUFFICES ASSUME AuthEnabled
                     PROVE  /\ k.token \in granted /\ time <= k.token.exp
                            /\ k.token.secret = SecretFor(backend.config, backend.run)
        BY <3>2 DEF Admitted, AuthEnabled
      <4>2. VerifyToken(k.token)
        BY <2>6, <4>1 DEF Admits
      <4>3. k.token \in granted \cup {NoToken} /\ backend.secret = SecretFor(backend.config, backend.run)
        BY <1>0 DEF TokensInv
      <4>4. QED
        BY <4>2, <4>3 DEF VerifyToken
    <3> HIDE DEF passed
    <3>5. QED
      BY <2>3, <3>1, <3>2, <3>3, <3>4, ChangedCall
  <2>7. QED
    BY <2>4, <2>5, <2>6
<1>5. ASSUME NEW i \in DOMAIN calls, NEW code \in {"OK", "INVALID_ARGUMENT", "INTERNAL"},
             ServerActs(i, code)
      PROVE  AdminInv'
  <2> DEFINE k == calls[i]
             acted == [k EXCEPT !.server = "done", !.reply = code,
                                !.done = IF code = "OK" THEN @ + 1 ELSE @]
  <2>1. k \in CallRecord /\ k.server = "pending" /\ k.reply = "none" /\ k.done = 0
    BY <1>0a, <1>0b, <1>5 DEF ServerActs, Executed
  <2>2. k.status \notin {200, 400, 401, 403, 404, 409, 501} /\ Admitted(k) /\ k.at # "sent"
    BY <1>0b, <2>1 DEF Executed, AnswerTrue
  <2>3. UNCHANGED <<backend, time, session, granted>>
    BY <1>5 DEF ServerActs
  <2>4. acted \in CallRecord
    <3>1. acted = [k EXCEPT !.server = "done", !.reply = code, !.done = IF code = "OK" THEN 1 ELSE 0]
      BY <2>1 DEF CallRecord
    <3>2. QED
      <4>1. (IF code = "OK" THEN 1 ELSE 0) \in Nat
        OBVIOUS
      <4>2. QED
        BY <2>1, <3>1, <4>1, ServedCall, ZenonT(30)
  <2>5. calls' = [calls EXCEPT ![i] = acted]
    BY <1>0, <1>5, <2>1, <2>4 DEF ServerActs, AdminTypeOK, CallRecord
  <2>6. /\ acted.token = k.token /\ acted.server = "done" /\ acted.reply = code
        /\ acted.done = (IF code = "OK" THEN 1 ELSE 0) /\ acted.at = k.at
        /\ acted.status = k.status /\ acted.admitted = k.admitted
    BY <2>1 DEF CallRecord
  <2>7. Executed(acted)
    BY <1>0b, <2>2, <2>6 DEF Executed
  <2>8. AnswerTrue(acted)
    BY <2>2, <2>6 DEF AnswerTrue
  <2>9. Admitted(acted)
    BY <2>1, <2>2, <2>6 DEF Admitted
  <2> HIDE DEF acted
  <2>10. QED
    BY <2>3, <2>4, <2>5, <2>6, <2>7, <2>8, <2>9, ChangedCall
<1>6. ASSUME NEW i \in DOMAIN calls,
             NEW code \in {"OK", "INVALID_ARGUMENT", "INTERNAL", "DEADLINE_EXCEEDED", "UNAVAILABLE"},
             RpcEnds(i, code)
      PROVE  AdminInv'
  <2> DEFINE k == calls[i]
             ended == [k EXCEPT !.at = "answered", !.status = HttpStatus(code)]
  <2>1. k \in CallRecord /\ Executed(k) /\ Admitted(k)
    BY <1>0a, <1>0b
  <2>2. code \in {k.reply, "DEADLINE_EXCEEDED", "UNAVAILABLE"} /\ UNCHANGED <<backend, time, session, granted>>
    BY <1>6 DEF RpcEnds
  <2>3. /\ HttpStatus(code) \in Nat
        /\ HttpStatus(code) = 200 => code = "OK"
        /\ HttpStatus(code) \in {400, 401, 403, 404, 409, 501} => code = "INVALID_ARGUMENT"
    BY DEF HttpStatus
  <2>4. ended \in CallRecord
    <3>1. "answered" \in {"sent", "upstream", "answered", "told"}
      OBVIOUS
    <3>2. HttpStatus(code) \in Nat /\ k \in CallRecord
      BY <2>1, <2>3
    <3>3. QED
      BY <3>1, <3>2, AnsweredCall, Zenon
  <2>5. calls' = [calls EXCEPT ![i] = ended]
    BY <1>0, <1>6, <2>1 DEF RpcEnds, AdminTypeOK, CallRecord
  <2>6. /\ ended.token = k.token /\ ended.server = k.server /\ ended.reply = k.reply
        /\ ended.done = k.done /\ ended.at = "answered"
        /\ ended.status = HttpStatus(code) /\ ended.admitted = k.admitted
    BY <2>1 DEF CallRecord
  <2>7. Executed(ended) /\ Admitted(ended)
    BY <2>1, <2>6 DEF Executed, Admitted
  <2>8. AnswerTrue(ended)
    <3>1. k.server \in {"none", "pending", "done"}
      BY <2>1 DEF CallRecord
    <3>2. QED
      BY <2>1, <2>2, <2>3, <2>6, <3>1 DEF Executed, AnswerTrue
  <2> HIDE DEF ended
  <2>9. QED
    BY <2>2, <2>4, <2>5, <2>6, <2>7, <2>8, ChangedCall
<1>7. ASSUME NEW i \in DOMAIN calls, Answer(i) PROVE AdminInv'
  <2> DEFINE k == calls[i]
             told == [k EXCEPT !.at = "told"]
  <2>1. k \in CallRecord /\ Executed(k) /\ AnswerTrue(k) /\ Admitted(k)
    BY <1>0a, <1>0b
  <2>2. /\ UNCHANGED <<backend, time, granted>>
        /\ session' = session \/ session' = [token |-> NoToken, required |-> TRUE]
    BY <1>7 DEF Answer
  <2>3. told \in CallRecord
    BY <2>1 DEF CallRecord
  <2>4. calls' = [calls EXCEPT ![i] = told]
    BY <1>0, <1>7, <2>1 DEF Answer, AdminTypeOK, CallRecord
  <2>5. /\ told.token = k.token /\ told.server = k.server /\ told.reply = k.reply
        /\ told.done = k.done /\ told.at = "told"
        /\ told.status = k.status /\ told.admitted = k.admitted
    BY <2>1 DEF CallRecord
  <2>6. Executed(told) /\ AnswerTrue(told) /\ Admitted(told)
    BY <2>1, <2>5 DEF Executed, AnswerTrue, Admitted
  <2> HIDE DEF told
  <2>7. QED
    BY <2>2, <2>3, <2>4, <2>5, <2>6, ChangedCall
<1>8. CASE Restart
  <2> DEFINE failed(i) == [calls[i] EXCEPT !.at = "told", !.status = 0]
  <2>1. /\ calls' = [i \in DOMAIN calls |-> IF calls[i].at = "told" THEN calls[i] ELSE failed(i)]
        /\ UNCHANGED <<time, session, granted>>
    BY <1>8 DEF Restart
  <2>2. \A i \in DOMAIN calls :
          /\ failed(i) \in CallRecord /\ failed(i).token = calls[i].token
          /\ failed(i).server = calls[i].server /\ failed(i).reply = calls[i].reply
          /\ failed(i).done = calls[i].done /\ failed(i).admitted = calls[i].admitted
          /\ failed(i).at = "told" /\ failed(i).status = 0
    BY <1>0a DEF CallRecord
  <2> HIDE DEF failed
  <2>3. /\ calls' \in Seq(CallRecord) /\ DOMAIN calls' = DOMAIN calls
        /\ \A i \in DOMAIN calls : calls'[i] = calls[i] \/ calls'[i] = failed(i)
    BY <1>0, <1>0a, <2>1, <2>2 DEF AdminTypeOK
  <2>4. /\ backend' \in [config : Configs, run : Nat, secret : Nat]
        /\ backend'.config = backend.config
        /\ backend'.secret = SecretFor(backend'.config, backend'.run)
    <3>0. backend.config \in Configs /\ backend.run + 1 \in Nat
      BY <1>0 DEF AdminTypeOK
    <3>1. SecretFor(backend.config, backend.run + 1) \in Nat
      BY <3>0, SecretType
    <3>2. QED
      BY <1>0, <1>8, <3>0, <3>1 DEF Restart, AdminTypeOK
  <2>5. AdminTypeOK'
    BY <1>0, <2>1, <2>3, <2>4 DEF AdminTypeOK
  <2>6. TokensInv'
    BY <1>0, <2>1, <2>2, <2>3, <2>4 DEF TokensInv
  <2>7. ASSUME NEW i \in DOMAIN calls
        PROVE  Executed(calls'[i]) /\ AnswerTrue(calls'[i]) /\ Admitted(calls'[i])
    <3>1. Executed(failed(i)) /\ AnswerTrue(failed(i)) /\ Admitted(failed(i))
      BY <1>0b, <2>2 DEF Executed, AnswerTrue, Admitted
    <3>2. QED
      BY <1>0b, <2>3, <3>1
  <2>8. CallsInv'
    BY <2>1, <2>3, <2>4, <2>7 DEF CallsInv, Executed, AnswerTrue, Admitted
  <2>9. QED
    BY <2>5, <2>6, <2>8 DEF AdminInv
<1>9. CASE Tick
  <2>1. time' \in Nat /\ UNCHANGED <<backend, session, calls, granted>>
    BY <1>0, <1>9 DEF Tick, AdminTypeOK
  <2>2. QED
    BY <1>0, <2>1 DEF AdminInv, AdminTypeOK, TokensInv, CallsInv, Executed, AnswerTrue, Admitted
<1>10. QED
  BY <1>1, <1>2, <1>3, <1>4, <1>5, <1>6, <1>7, <1>8, <1>9 DEF AdminNext

\* For any requests, configurations, numbers of calls and restarts: the operator can
\* trust an answer, and with auth on nothing is done upstream without a token that was
\* good when the call came in (doFilter, http_status, verify_token, AuthService).
THEOREM AdminCorrect == AdminSpec => []CallsAreSound
<1>1. AdminInit => AdminInv
  <2> SUFFICES ASSUME AdminInit PROVE AdminInv
    OBVIOUS
  <2>1. PICK c \in Configs : backend = [config |-> c, run |-> 0, secret |-> SecretFor(c, 0)]
    BY DEF AdminInit
  <2>2. SecretFor(c, 0) \in Nat /\ NoToken \in Token
    BY SecretType DEF NoToken, Token
  <2>3. AdminTypeOK
    BY <2>1, <2>2 DEF AdminInit, AdminTypeOK
  <2>4. TokensInv /\ CallsInv
    BY <2>1 DEF AdminInit, TokensInv, CallsInv
  <2>5. QED
    BY <2>3, <2>4 DEF AdminInv
<1>2. AdminInv /\ [AdminNext]_adminVars => AdminInv'
  <2>1. SUFFICES ASSUME AdminInv, UNCHANGED adminVars
                 PROVE  AdminInv'
    BY AdminStep
  <2>2. QED
    BY <2>1 DEF AdminInv, AdminTypeOK, TokensInv, CallsInv, Executed, AnswerTrue, Admitted, adminVars
<1>3. AdminInv => CallsAreSound
  <2> SUFFICES ASSUME AdminInv PROVE AnswersAreTrue /\ OnlyAdminsAct
    BY DEF CallsAreSound
  <2>1. \A i \in DOMAIN calls :
          calls[i] \in CallRecord /\ Executed(calls[i]) /\ AnswerTrue(calls[i]) /\ Admitted(calls[i])
    BY DEF AdminInv, AdminTypeOK, CallsInv
  <2>2. AnswersAreTrue
    <3>1. \A i \in DOMAIN calls : calls[i].server \in {"none", "pending", "done"}
      BY <2>1 DEF CallRecord
    <3>2. QED
      BY <2>1, <3>1 DEF AnswersAreTrue, Executed, AnswerTrue
  <2>3. OnlyAdminsAct
    <3>1. granted # {} => backend.config.hash = "hash"
      BY DEF AdminInv, TokensInv
    <3>2. QED
      BY <2>1, <3>1 DEF OnlyAdminsAct, Admitted
  <2>4. QED
    BY <2>2, <2>3
<1>4. QED
  BY <1>1, <1>2, <1>3, PTL DEF AdminSpec

-----------------------------------------------------------------------------
(* ScenarioSource.                                                         *)

\* Where in its iteration an event is.
LEMMA Position ==
  ASSUME NEW n \in Nat \ {0}, NEW q \in Nat, NEW r \in Nat, r < n
  PROVE  (q * n + r) \div n = q /\ (q * n + r) % n = r
<1> DEFINE a == q * n + r
           d == a \div n
           m == a % n
<1>1. a \in Nat
  BY Z3
<1>2. d \in Int /\ m \in Int /\ 0 <= m /\ m < n /\ a = n * d + m
  BY <1>1, Z3
<1>3. \A x \in Int, k \in Nat \ {0} : x >= 1 => k * x >= k
  BY Z3
<1>4. n * (d - q) = r - m
  BY <1>2, Z3
<1>5. n * (q - d) = m - r
  BY <1>2, Z3
<1> HIDE DEF d, m
<1>6. ~(d - q >= 1) /\ ~(q - d >= 1)
  <2>1. d - q \in Int /\ q - d \in Int
    BY <1>2
  <2>2. d - q >= 1 => n * (d - q) >= n
    BY <1>3, <2>1
  <2>3. q - d >= 1 => n * (q - d) >= n
    BY <1>3, <2>1
  <2>4. QED
    BY <1>2, <1>4, <1>5, <2>2, <2>3
<1>7. d = q
  BY <1>2, <1>6
<1>8. m = r
  BY <1>2, <1>4, <1>7, Z3
<1>9. QED
  BY <1>7, <1>8 DEF d, m

\* The first event of an iteration is not after the others of it.
LEMMA FirstOfIteration ==
  ASSUME NEW n \in Nat \ {0}, NEW i \in Nat \ {0}
  PROVE  ((i - 1) \div n) * n + 1 \in 1..i
<1>1. PICK k \in Nat : k = i - 1
  OBVIOUS
<1>2. k \div n \in Nat /\ k % n \in Nat /\ k = n * (k \div n) + (k % n)
  BY Z3
<1>3. (k \div n) * n = n * (k \div n) /\ n * (k \div n) \in Nat
  BY <1>2, Z3
<1>4. QED
  BY <1>1, <1>2, <1>3

\* The i-th observation set of a replay ps of the events es is the one it should be.
Faithful(ps, es, i) ==
  LET n == Len(es)
      due == ps[((i - 1) \div n) * n + 1].asked + ps[i].event.offset
  IN /\ ps[i].event = es[((i - 1) % n) + 1]
     /\ ps[i].at >= due
     /\ ps[i].at > due => ps[i].at = ps[i].asked

PlayedRecord(S) == [event : S, asked : Nat, at : Nat]
EventsOf(es) == {es[i] : i \in 1..Len(es)}

\* Events as from_json() lets them through, and a replay of them.
Scripted(es) ==
  /\ es \in Seq(EventsOf(es)) /\ Len(es) > 0 /\ Len(es) \in Nat
  /\ \A i \in 1..Len(es) : es[i].offset \in Nat

ReplayOf(es, ps) ==
  /\ ps \in Seq(PlayedRecord(EventsOf(es)))
  /\ \A i \in 1..Len(ps) : Faithful(ps, es, i)

ScenarioTypeOK ==
  /\ document \in Documents
  /\ source \in [at : {"load", "refused", "run", "ended"}, events : {source.events}, loops : Nat,
                 index : Nat, iteration : Nat, epoch : Int]
  /\ sclock \in Nat

\* Index and iteration count what has been played, and the epoch is the instant the
\* first event of the iteration was asked for.
CountInv ==
  LET n == Len(source.events)
  IN /\ source.events = document.events /\ document # Mistyped
     /\ Scripted(source.events) /\ ReplayOf(source.events, played)
     /\ source.index < n /\ source.iteration <= source.loops
     /\ source.iteration = source.loops => source.index = 0
     /\ Len(played) = source.iteration * n + source.index
     /\ source.epoch = IF source.index = 0 THEN NoEpoch ELSE played[source.iteration * n + 1].asked

ScenarioInv ==
  /\ ScenarioTypeOK
  /\ source.at \in {"load", "refused"} =>
       played = <<>> /\ source.index = 0 /\ source.iteration = 0 /\ source.epoch = NoEpoch
  /\ source.at \in {"run", "ended"} => CountInv
  /\ source.at = "ended" => source.iteration = source.loops

\* What was accepted is replayed as often as it asks for, up to the width of `unsigned`.
LoopsInv ==
  source.at \in {"run", "ended"} =>
    /\ source.loops = Loops(document)
    /\ document.loop = Missing \/ (document.loop \in Int /\ document.loop >= 1)

\* When the first event of iteration q was asked for.
EpochIs(es, ps, q, epoch) == ps[q * Len(es) + 1].asked = epoch

\* p comes next: event r of iteration q, whose epoch it is not early or late for.
ComesNext(es, ps, q, r, epoch, p) ==
  /\ q \in Nat /\ r \in Nat /\ q * Len(es) \in Nat
  /\ r < Len(es) /\ Len(ps) = q * Len(es) + r
  /\ p \in PlayedRecord(EventsOf(es)) /\ p.event = es[r + 1]
  /\ epoch \in Nat
  /\ r = 0 => p.asked = epoch
  /\ r # 0 => EpochIs(es, ps, q, epoch)
  /\ p.at >= epoch + p.event.offset
  /\ p.at > epoch + p.event.offset => p.at = p.asked

\* A replay with what comes next is a replay.
LEMMA PlayedOne ==
  ASSUME NEW es, Scripted(es), NEW ps, ReplayOf(es, ps), NEW q, NEW r, NEW epoch, NEW p,
         ComesNext(es, ps, q, r, epoch, p), NEW qs, qs = Append(ps, p)
  PROVE  ReplayOf(es, qs) /\ EpochIs(es, qs, q, epoch)
<1> DEFINE S == PlayedRecord(EventsOf(es))
<1>0. PICK n \in Nat \ {0}, k \in Nat : n = Len(es) /\ k = q * n
  BY DEF Scripted, ComesNext
<1>1. /\ q \in Nat /\ r \in Nat /\ r < n /\ Len(ps) = k + r
      /\ p \in PlayedRecord(EventsOf(es)) /\ p.event = es[r + 1]
      /\ epoch \in Nat /\ (r = 0 => p.asked = epoch) /\ (r # 0 => ps[k + 1].asked = epoch)
      /\ p.at >= epoch + p.event.offset
      /\ p.at > epoch + p.event.offset => p.at = p.asked
  BY <1>0 DEF ComesNext, EpochIs
<1>2. /\ qs \in Seq(S) /\ Len(qs) = Len(ps) + 1 /\ Len(ps) \in Nat
      /\ \A i \in 1..Len(ps) : qs[i] = ps[i]
      /\ qs[Len(ps) + 1] = p
  <2>1. ps \in Seq(S) /\ p \in S
    BY <1>1 DEF ReplayOf
  <2> HIDE DEF S
  <2> QED BY <2>1
<1>3. qs[k + 1].asked = epoch
  <2>1. CASE r = 0
    BY <1>2, <1>1, <2>1
  <2>2. CASE r # 0
    <3>1. k + 1 \in 1..Len(ps)
      BY <1>2, <1>1, <2>2
    <3>2. QED
      BY <1>2, <1>1, <2>2, <3>1
  <2>3. QED
    BY <2>1, <2>2
<1>4. ASSUME NEW i \in 1..Len(ps) PROVE Faithful(qs, es, i)
  <2>1. PICK j : j = ((i - 1) \div n) * n + 1
    OBVIOUS
  <2>2. j \in 1..Len(ps)
    <3>1. i \in Nat \ {0} /\ i <= Len(ps)
      BY <1>2
    <3>2. j \in 1..i
      BY <2>1, <3>1, FirstOfIteration
    <3>3. QED
      BY <1>2, <3>1, <3>2
  <2>3. qs[j] = ps[j] /\ qs[i] = ps[i]
    BY <1>2, <2>2
  <2>4. Faithful(ps, es, i)
    BY DEF ReplayOf
  <2>5. QED
    BY <1>0, <2>1, <2>3, <2>4 DEF Faithful
<1>5. Faithful(qs, es, Len(ps) + 1)
  <2>1. PICK j : j = Len(ps) + 1
    OBVIOUS
  <2>2. j - 1 = q * n + r
    BY <1>0, <1>2, <1>1, <2>1
  <2>3. (j - 1) \div n = q /\ (j - 1) % n = r
    BY <1>0, <1>1, <2>2, Position
  <2>4. qs[j] = p /\ qs[((j - 1) \div n) * n + 1].asked = epoch
    BY <1>0, <1>2, <1>3, <2>1, <2>3
  <2>5. Faithful(qs, es, j)
    BY <1>0, <1>1, <2>3, <2>4 DEF Faithful
  <2>6. QED
    BY <2>1, <2>5
<1>6. \A i \in 1..Len(qs) : Faithful(qs, es, i)
  <2>1. \A i \in 1..Len(qs) : i \in 1..Len(ps) \/ i = Len(ps) + 1
    BY <1>2
  <2>2. QED
    BY <1>4, <1>5, <2>1
<1>7. QED
  BY <1>0, <1>2, <1>3, <1>6 DEF ReplayOf, EpochIs

\* A document that is accepted has the types from_json() asks for.
LEMMA AcceptedDocument ==
  ASSUME document \in Documents, DocumentOK(document)
  PROVE  document # Mistyped /\ Scripted(document.events) /\ Loops(document) \in Nat
<1>1. /\ document # Mistyped /\ document.events \notin {Missing, Mistyped, <<>>}
      /\ LoopOK(document.loop)
      /\ \A i \in DOMAIN document.events : EventOK(document.events[i])
  BY DEF DocumentOK
<1>2. /\ document.events \in Seq({document.events[i] : i \in DOMAIN document.events})
      /\ \A i \in DOMAIN document.events :
           \/ document.events[i].offset \in {Missing, Mistyped}
           \/ document.events[i].offset \in Int
      /\ document.loop \in {Missing, Mistyped} \/ document.loop \in Int
  BY <1>1, ScenarioAssumption
<1>3. DOMAIN document.events = 1..Len(document.events) /\ Len(document.events) \in Nat
  BY <1>2
<1>4. Len(document.events) > 0
  BY <1>1, <1>2, <1>3
<1>5. ASSUME NEW i \in 1..Len(document.events) PROVE document.events[i].offset \in Nat
  <2>1. /\ document.events[i].offset \notin {Missing, Mistyped}
        /\ document.events[i].offset >= 0
    BY <1>1, <1>3 DEF EventOK
  <2>2. document.events[i].offset \in Int
    BY <1>2, <1>3, <2>1
  <2>3. QED
    BY <2>1, <2>2
<1>6. document.events \in Seq(EventsOf(document.events))
  BY <1>2, <1>3 DEF EventsOf
<1>7. Loops(document) \in Nat
  <2>1. UnsignedMod \in Nat \ {0}
    BY ScenarioAssumption
  <2>2. document.loop = Missing \/ document.loop \in Int
    BY <1>1, <1>2 DEF LoopOK, Optional
  <2>3. QED
    BY <2>1, <2>2 DEF Loops
<1>8. QED
  BY <1>1, <1>3, <1>4, <1>5, <1>6, <1>7 DEF Scripted

\* Loading, playing and waiting keep the counters and the replay in step.
LEMMA ScenarioStep ==
  ASSUME ScenarioInv, ScenarioNext
  PROVE  ScenarioInv'
<1>0. /\ ScenarioTypeOK /\ document' = document
      /\ source \in [at : {"load", "refused", "run", "ended"}, events : {source.events}, loops : Nat,
                     index : Nat, iteration : Nat, epoch : Int]
      /\ document \in Documents /\ sclock \in Nat
  BY DEF ScenarioInv, ScenarioTypeOK, ScenarioNext, Load, NextEnds, NextEvent, CallerWorks
<1>1. CASE Load
  <2>0. /\ source.at = "load" /\ UNCHANGED <<sclock, played>>
        /\ played = <<>> /\ source.index = 0 /\ source.iteration = 0 /\ source.epoch = NoEpoch
    BY <1>1 DEF Load, ScenarioInv
  <2>1. CASE DocumentOK(document)
    <3>1. PICK es : es = document.events
      OBVIOUS
    <3>2. PICK loops \in Nat : loops = Loops(document)
      BY <1>0, <2>1, AcceptedDocument
    <3>3. Scripted(es) /\ Len(es) \in Nat /\ Len(es) > 0 /\ document # Mistyped
      BY <1>0, <2>1, <3>1, AcceptedDocument DEF Scripted
    <3>4. source' = [source EXCEPT !.at = "run", !.events = es, !.loops = loops]
      BY <1>1, <2>1, <3>1, <3>2 DEF Load
    <3>5. /\ source' \in [at : {"load", "refused", "run", "ended"}, events : {source'.events},
                          loops : Nat, index : Nat, iteration : Nat, epoch : Int]
          /\ source'.at = "run" /\ source'.events = es /\ source'.loops = loops
          /\ source'.index = 0 /\ source'.iteration = 0 /\ source'.epoch = NoEpoch
      BY <1>0, <2>0, <3>4
    <3>6. ReplayOf(es, played') /\ Len(played') = 0
      BY <2>0 DEF ReplayOf
    <3>7. Len(played') = source'.iteration * Len(es) + source'.index
      BY <3>3, <3>5, <3>6
    <3>8. CountInv'
      BY <1>0, <3>1, <3>3, <3>5, <3>6, <3>7 DEF CountInv
    <3>9. QED
      BY <1>0, <2>0, <3>5, <3>8 DEF ScenarioInv, ScenarioTypeOK
  <2>2. CASE ~DocumentOK(document)
    <3>1. /\ source' \in [at : {"load", "refused", "run", "ended"}, events : {source'.events},
                          loops : Nat, index : Nat, iteration : Nat, epoch : Int]
          /\ source'.at = "refused"
          /\ source'.index = 0 /\ source'.iteration = 0 /\ source'.epoch = NoEpoch
      BY <1>0, <1>1, <2>0, <2>2 DEF Load
    <3>2. QED
      BY <1>0, <2>0, <3>1 DEF ScenarioInv, ScenarioTypeOK
  <2>3. QED
    BY <2>1, <2>2
<1>2. CASE NextEnds
  <2>1. /\ source' \in [at : {"load", "refused", "run", "ended"}, events : {source'.events},
                        loops : Nat, index : Nat, iteration : Nat, epoch : Int]
        /\ source'.at = "ended" /\ source'.events = source.events /\ source'.loops = source.loops
        /\ source'.index = source.index /\ source'.iteration = source.iteration
        /\ source'.epoch = source.epoch
        /\ UNCHANGED <<document, sclock, played>>
    BY <1>0, <1>2 DEF NextEnds
  <2>2. CountInv /\ source.iteration >= source.loops
    BY <1>2 DEF NextEnds, ScenarioInv
  <2>3. source.iteration = source.loops
    BY <1>0, <2>2 DEF CountInv
  <2>4. CountInv'
    BY <2>1, <2>2 DEF CountInv
  <2>5. QED
    BY <1>0, <2>1, <2>3, <2>4 DEF ScenarioInv, ScenarioTypeOK
<1>3. CASE NextEvent
  <2>1. PICK es : es = source.events
    OBVIOUS
  <2>2. CountInv /\ source.at = "run" /\ source.iteration < source.loops
    BY <1>3 DEF NextEvent, ScenarioInv
  <2>3. PICK q \in Nat, r \in Nat, loops \in Nat :
          q = source.iteration /\ r = source.index /\ loops = source.loops
    BY <1>0
  <2>4. /\ es = document.events /\ document # Mistyped
        /\ Scripted(es) /\ Len(es) > 0 /\ Len(es) \in Nat /\ ReplayOf(es, played)
        /\ r < Len(es) /\ q < loops
        /\ Len(played) = q * Len(es) + r
        /\ source.epoch = IF r = 0 THEN NoEpoch ELSE played[q * Len(es) + 1].asked
    BY <2>1, <2>2, <2>3 DEF CountInv, Scripted
  <2>5. PICK event : event = es[r + 1]
    OBVIOUS
  <2>6. event \in EventsOf(es) /\ event.offset \in Nat
    <3>1. r + 1 \in 1..Len(es)
      BY <2>4
    <3>2. QED
      BY <2>4, <2>5, <3>1 DEF EventsOf, Scripted
  <2>7. PICK epoch : epoch = IF source.epoch = NoEpoch THEN sclock ELSE source.epoch
    OBVIOUS
  <2>8. epoch \in Nat /\ epoch = IF r = 0 THEN sclock ELSE played[q * Len(es) + 1].asked
    <3>1. CASE r = 0
      BY <1>0, <2>4, <2>7, <3>1
    <3>2. CASE r # 0
      <4>1. q * Len(es) \in Nat
        BY <2>4, Z3
      <4>2. q * Len(es) + 1 \in 1..Len(played)
        BY <2>4, <3>2, <4>1 DEF ReplayOf
      <4>3. played[q * Len(es) + 1] \in PlayedRecord(EventsOf(es))
        BY <2>4, <4>2 DEF ReplayOf
      <4>4. played[q * Len(es) + 1].asked \in Nat
        BY <4>3 DEF PlayedRecord
      <4>5. QED
        BY <2>4, <2>7, <3>2, <4>4 DEF NoEpoch
    <3>3. QED
      BY <3>1, <3>2
  <2>9. PICK now : now = IF epoch + event.offset > sclock THEN epoch + event.offset ELSE sclock
    OBVIOUS
  <2>10. epoch \in Nat /\ now \in Nat
    <3>1. epoch \in Nat
      BY <2>8, Zenon
    <3>2. QED
      BY <1>0, <2>6, <2>9, <3>1
  <2>11. PICK p : p = [event |-> event, asked |-> sclock, at |-> now]
    OBVIOUS
  <2>12. /\ p \in PlayedRecord(EventsOf(es)) /\ p.event = event /\ p.asked = sclock /\ p.at = now
    BY <1>0, <2>6, <2>10, <2>11 DEF PlayedRecord
  <2>13. /\ sclock' = now /\ played' = Append(played, p)
         /\ source' = Advance([source EXCEPT !.epoch = epoch])
    BY <1>3, <2>1, <2>3, <2>5, <2>7, <2>9, <2>11 DEF NextEvent
  <2>14. PICK qs : qs = Append(played, p)
    OBVIOUS
  <2>15. PICK n \in Nat, k \in Nat : n = Len(es) /\ k = q * n
    <3>1. Len(es) \in Nat /\ q * Len(es) \in Nat
      BY <2>4, Z3
    <3>2. QED
      BY <3>1
  <2>16. /\ ReplayOf(es, qs) /\ Len(qs) = Len(played) + 1
         /\ qs[k + 1].asked = epoch
    <3>1. p.event = es[r + 1] /\ (r = 0 => p.asked = epoch) /\ (r # 0 => played[k + 1].asked = epoch)
      BY <2>5, <2>8, <2>12, <2>15
    <3>2. p.at >= epoch + p.event.offset /\ (p.at > epoch + p.event.offset => p.at = p.asked)
      BY <1>0, <2>6, <2>9, <2>10, <2>12
    <3>3. Len(played) = k + r /\ r < n
      BY <2>4, <2>15
    <3>4. ComesNext(es, played, q, r, epoch, p)
      BY <2>8, <2>12, <2>15, <3>1, <3>2, <3>3 DEF ComesNext, EpochIs
    <3>5. Scripted(es) /\ ReplayOf(es, played)
      BY <2>4
    <3>6. ReplayOf(es, qs) /\ EpochIs(es, qs, q, epoch)
      BY <2>14, <3>4, <3>5, PlayedOne, Zenon
    <3>7. Len(qs) = Len(played) + 1
      BY <2>12, <2>14, <3>5 DEF ReplayOf
    <3>8. QED
      BY <2>15, <3>6, <3>7 DEF EpochIs
  <2> DEFINE s == [source EXCEPT !.epoch = epoch]
  <2>17. /\ s \in [at : {"load", "refused", "run", "ended"}, events : {s.events}, loops : Nat,
                   index : Nat, iteration : Nat, epoch : Int]
         /\ s.at = "run" /\ s.events = es /\ s.loops = loops /\ s.index = r /\ s.iteration = q
         /\ s.epoch = epoch
    <3>1. epoch \in Int
      BY <2>8
    <3>2. QED
      BY <1>0, <2>1, <2>2, <2>3, <3>1
  <2>18. source' = Advance(s)
    BY <2>13
  <2> HIDE DEF s
  <2>19. ASSUME NEW index \in Nat, NEW iteration \in Nat, NEW at \in Int,
                source' = [s EXCEPT !.index = index, !.iteration = iteration, !.epoch = at],
                index < n, iteration <= loops, iteration = loops => index = 0,
                Len(qs) = iteration * n + index,
                at = IF index = 0 THEN NoEpoch ELSE qs[iteration * n + 1].asked
         PROVE  ScenarioInv'
    <3>1. /\ source' \in [at : {"load", "refused", "run", "ended"}, events : {source'.events},
                          loops : Nat, index : Nat, iteration : Nat, epoch : Int]
          /\ source'.at = "run" /\ source'.events = es /\ source'.loops = loops
          /\ source'.index = index /\ source'.iteration = iteration /\ source'.epoch = at
      BY <2>17, <2>19
    <3>2. played' = qs /\ document' = document
      BY <1>0, <2>13, <2>14
    <3>3. CountInv'
      BY <2>4, <2>16, <2>15, <2>19, <3>1, <3>2 DEF CountInv
    <3>4. QED
      BY <1>0, <2>10, <2>13, <3>1, <3>3 DEF ScenarioInv, ScenarioTypeOK
  <2>20. CASE r + 1 = n
    <3>1. PICK iteration \in Nat, at \in Int : iteration = q + 1 /\ at = NoEpoch
      BY DEF NoEpoch
    <3>2. source' = [s EXCEPT !.index = 0, !.iteration = iteration, !.epoch = at]
      BY <2>17, <2>18, <2>15, <2>20, <3>1 DEF Advance
    <3>3. iteration * n = k + n
      BY <2>15, <3>1, Z3
    <3>4. Len(qs) = iteration * n + 0
      <4>1. Len(qs) = (k + r) + 1
        BY <2>4, <2>16, <2>15
      <4>2. QED
        BY <2>20, <3>3, <4>1
    <3>5. iteration <= loops /\ 0 < n
      BY <2>4, <2>15, <3>1
    <3>6. QED
      BY <2>19, <3>1, <3>2, <3>4, <3>5
  <2>21. CASE r + 1 # n
    <3>1. PICK index \in Nat : index = r + 1
      OBVIOUS
    <3>2. source' = [s EXCEPT !.index = index, !.iteration = q, !.epoch = epoch]
      BY <2>17, <2>18, <2>15, <2>21, <3>1 DEF Advance
    <3>3. Len(qs) = q * n + index /\ index < n /\ index # 0
      <4>1. Len(qs) = (k + r) + 1 /\ r < n
        BY <2>4, <2>16, <2>15
      <4>2. Len(qs) = k + index /\ index < n /\ index # 0
        BY <2>21, <3>1, <4>1
      <4>3. QED
        BY <2>15, <4>2
    <3>4. q <= loops /\ q # loops /\ epoch \in Int
      BY <2>4, <2>8
    <3>5. epoch = IF index = 0 THEN NoEpoch ELSE qs[q * n + 1].asked
      BY <2>16, <2>15, <3>3
    <3>6. QED
      BY <2>19, <3>2, <3>3, <3>4, <3>5
  <2>22. QED
    BY <2>20, <2>21
<1>4. ASSUME NEW dt \in Delays, CallerWorks(dt) PROVE ScenarioInv'
  <2>1. sclock' \in Nat /\ UNCHANGED <<document, source, played>>
    BY <1>0, <1>4, ScenarioAssumption DEF CallerWorks
  <2>2. QED
    BY <2>1 DEF ScenarioInv, ScenarioTypeOK, CountInv
<1>5. QED
  BY <1>1, <1>2, <1>3, <1>4 DEF ScenarioNext

\* The repetitions are fixed when the document is accepted.
LEMMA LoopsStep ==
  ASSUME ScenarioInv, LoopsInv, ScenarioNext
  PROVE  LoopsInv'
<1>0. /\ source \in [at : {"load", "refused", "run", "ended"}, events : {source.events}, loops : Nat,
                     index : Nat, iteration : Nat, epoch : Int]
      /\ document \in Documents
  BY DEF ScenarioInv, ScenarioTypeOK
<1>1. CASE Load
  <2>1. CASE DocumentOK(document)
    <3>1. source'.loops = Loops(document) /\ document' = document
      BY <1>0, <1>1, <2>1 DEF Load
    <3>2. document.loop = Missing \/ (document.loop # Mistyped /\ document.loop >= 1)
      BY <2>1 DEF DocumentOK, LoopOK, Optional
    <3>3. document.loop \in {Missing, Mistyped} \/ document.loop \in Int
      BY <1>0, <2>1, ScenarioAssumption DEF DocumentOK
    <3> QED BY <3>1, <3>2, <3>3 DEF LoopsInv, Loops
  <2>2. CASE ~DocumentOK(document)
    <3>1. source'.at = "refused"
      BY <1>0, <1>1, <2>2 DEF Load
    <3> QED BY <3>1 DEF LoopsInv
  <2> QED BY <2>1, <2>2
<1>2. CASE NextEnds
  <2>1. source.at = "run" /\ source'.loops = source.loops /\ document' = document
    BY <1>0, <1>2 DEF NextEnds
  <2> QED BY <2>1 DEF LoopsInv, Loops
<1>3. CASE NextEvent
  <2>1. source.at = "run" /\ source'.loops = source.loops /\ document' = document
    BY <1>0, <1>3 DEF NextEvent, Advance
  <2> QED BY <2>1 DEF LoopsInv, Loops
<1>4. ASSUME NEW dt \in Delays, CallerWorks(dt) PROVE LoopsInv'
  BY <1>4 DEF CallerWorks, LoopsInv, Loops
<1> QED BY <1>1, <1>2, <1>3, <1>4 DEF ScenarioNext

\* For any documents, loop counts and pulls: a replay is the script, as often as it says
\* while that fits `unsigned`, and no event is early or later than it must be (from_json,
\* next).
THEOREM ReplayCorrect == ScenarioSpec => []ReplayIsFaithful
<1>1. ScenarioInit => ScenarioInv /\ LoopsInv
  BY DEF ScenarioInit, ScenarioInv, ScenarioTypeOK, NoEpoch, LoopsInv
<1>2. ScenarioInv /\ LoopsInv /\ [ScenarioNext]_scenarioVars => (ScenarioInv /\ LoopsInv)'
  <2>1. SUFFICES ASSUME ScenarioInv, LoopsInv, UNCHANGED scenarioVars PROVE ScenarioInv' /\ LoopsInv'
    BY ScenarioStep, LoopsStep
  <2>2. ScenarioInv'
    BY <2>1 DEF ScenarioInv, ScenarioTypeOK, CountInv, scenarioVars
  <2>3. LoopsInv'
    BY <2>1 DEF LoopsInv, Loops, scenarioVars
  <2> QED BY <2>2, <2>3
<1>3. ScenarioInv /\ LoopsInv => ReplayIsFaithful
  <2> SUFFICES ASSUME ScenarioInv, LoopsInv PROVE ReplayIsFaithful
    OBVIOUS
  <2>1. source.at \in {"load", "refused", "run", "ended"}
    BY DEF ScenarioInv, ScenarioTypeOK
  <2>2. CASE source.at \in {"load", "refused"}
    <3>1. played = <<>> /\ DOMAIN played = {}
      BY <2>2 DEF ScenarioInv
    <3>2. QED
      BY <2>2, <3>1 DEF ReplayIsFaithful
  <2>3. CASE source.at \in {"run", "ended"}
    <3>1. CountInv /\ DOMAIN played = 1..Len(played)
      BY <2>3 DEF ScenarioInv, CountInv, ReplayOf
    <3>2. \A i \in DOMAIN played : Faithful(played, source.events, i) /\ source.events = document.events
      BY <3>1 DEF CountInv, ReplayOf
    <3>3. source.at = "ended" => Len(played) = Len(source.events) * source.loops
      <4>1. ASSUME source.at = "ended" PROVE Len(played) = Len(source.events) * source.loops
        <5>1. source.iteration = source.loops /\ source.loops \in Nat
          BY <4>1 DEF ScenarioInv, ScenarioTypeOK
        <5>2. /\ Len(played) = source.loops * Len(source.events) + 0
              /\ Len(source.events) \in Nat
          BY <3>1, <5>1 DEF CountInv, Scripted
        <5>3. QED
          BY <5>1, <5>2, Z3
      <4>2. QED
        BY <4>1
    <3>4. Repetitions(document) < UnsignedMod => source.loops = Repetitions(document)
      <4>1. /\ source.loops = Loops(document) /\ UnsignedMod \in Nat
            /\ document.loop = Missing \/ (document.loop \in Int /\ document.loop >= 1)
        BY <2>3, ScenarioAssumption DEF LoopsInv
      <4> QED BY <4>1 DEF Loops, Repetitions
    <3>5. QED
      BY <2>3, <3>2, <3>3, <3>4 DEF ReplayIsFaithful, Faithful
  <2>4. QED
    BY <2>1, <2>2, <2>3
<1>4. QED
  BY <1>1, <1>2, <1>3, PTL DEF ScenarioSpec

-----------------------------------------------------------------------------
(* DashboardFeed.                                                          *)

FrameRecord == [eventId : Nat, type : {Script[i] : i \in Nat}, telemetry : BOOLEAN]

\* What a browser shows and asks for is whatever it was told: only its socket, the
\* frames on their way and the healed tile matter here.
FeedTypeOK ==
  /\ reader \in [at : {reader.at}, ctx : {reader.ctx}, pos : Nat, up : BOOLEAN]
  /\ cache \in [last : Nat, ring : Seq(FrameRecord), gate : Nat, connected : BOOLEAN]
  /\ conn \in [at : {"none", "accepted", "replayed", "attached"}, sent : Seq(Nat),
               missed : SUBSET Nat, base : Nat, opened : Nat]
  /\ browser \in [socket : {"none", "open"}, wire : Seq(FrameRecord), gate : {browser.gate},
                  seeds : {browser.seeds}, healed : BOOLEAN]

\* The ring holds the last events in order, up to the one the reader is at.
RingInv ==
  /\ reader.pos = cache.last
  /\ cache.gate <= cache.last
  /\ Len(cache.ring) <= cache.last
  /\ \A i \in 1..Len(cache.ring) : cache.ring[i].eventId = (cache.last - Len(cache.ring)) + i

\* Sent or missed is every event from some id on; a socket that is new has missed none.
SentInv ==
  /\ conn.at = "accepted" => conn.missed = {}
  /\ conn.at \in {"replayed", "attached"} =>
       /\ \E a \in 0..cache.last : ToSet(conn.sent) \cup conn.missed = (a + 1)..cache.last
       /\ \A i \in 1..Len(conn.sent) : conn.sent[i] <= cache.last
       /\ \A i, j \in 1..Len(conn.sent) : i < j => conn.sent[i] < conn.sent[j]

\* The telemetry that the cache shows is the last one on the wire.
OnTheWire(k) ==
  /\ browser.wire[k].telemetry /\ browser.wire[k].eventId = cache.gate
  /\ \A j \in 1..Len(browser.wire) : j > k => ~browser.wire[j].telemetry

NoneOnTheWire == \A j \in 1..Len(browser.wire) : ~browser.wire[j].telemetry

\* Telemetry that came after the sink is on the wire or shown; before it comes nothing
\* on the wire can heal the tile.
TileInv ==
  /\ conn.at # "attached" => ~browser.healed
  /\ conn.at = "replayed" =>
       \A j \in 1..Len(browser.wire) : browser.wire[j].eventId <= cache.last
  /\ conn.at = "attached" =>
       /\ conn.base <= cache.last
       /\ cache.gate > conn.base =>
            \/ \E k \in 1..Len(browser.wire) : OnTheWire(k)
            \/ NoneOnTheWire /\ (browser.healed => browser.gate = cache.gate)
       /\ cache.gate <= conn.base =>
            /\ ~browser.healed
            /\ \A j \in 1..Len(browser.wire) :
                 browser.wire[j].telemetry => browser.wire[j].eventId <= conn.base

FeedInv == FeedTypeOK /\ RingInv /\ SentInv /\ TileInv

\* A frame of an event is a frame, and carries its id.
LEMMA FrameOfEvent ==
  ASSUME NEW id \in Nat
  PROVE  ToJson(id) \in FrameRecord /\ ToJson(id).eventId = id
  BY DEF ToJson, FrameRecord

\* The ring after one more event: still a run of ids, with the new one last.
LEMMA TrimmedRing ==
  ASSUME FeedTypeOK, RingInv, NEW f \in FrameRecord, f.eventId = cache.last + 1, NEW ring,
         ring = Trim(Append(cache.ring, f))
  PROVE  /\ ring \in Seq(FrameRecord)
         /\ Len(ring) <= cache.last + 1
         /\ \A i \in 1..Len(ring) : ring[i].eventId = (cache.last + 1 - Len(ring)) + i
<1> DEFINE longer == Append(cache.ring, f)
<1>0. cache.ring \in Seq(FrameRecord) /\ cache.last \in Nat
  BY DEF FeedTypeOK
<1>1. /\ longer \in Seq(FrameRecord) /\ Len(longer) = Len(cache.ring) + 1
      /\ \A i \in 1..Len(cache.ring) : longer[i] = cache.ring[i]
      /\ longer[Len(cache.ring) + 1] = f
  BY <1>0
<1>2. ASSUME NEW i \in 1..Len(longer)
      PROVE  longer[i].eventId = (cache.last - Len(cache.ring)) + i
  <2>1. i \in 1..Len(cache.ring) \/ i = Len(cache.ring) + 1
    BY <1>0, <1>1
  <2>2. CASE i \in 1..Len(cache.ring)
    BY <1>1, <2>2 DEF RingInv
  <2>3. CASE i = Len(cache.ring) + 1
    <3>1. longer[i].eventId = cache.last + 1
      BY <1>1, <2>3
    <3>2. Len(cache.ring) \in Nat
      BY <1>0
    <3>3. QED
      BY <1>0, <2>3, <3>1, <3>2
  <2>4. QED
    BY <2>1, <2>2, <2>3
<1>3. Len(longer) <= cache.last + 1 /\ Len(longer) \in Nat \ {0} /\ Len(cache.ring) \in Nat
  BY <1>0, <1>1 DEF RingInv
<1> HIDE DEF longer
<1>4. /\ Tail(longer) \in Seq(FrameRecord) /\ Len(Tail(longer)) = Len(longer) - 1
      /\ \A i \in 1..Len(Tail(longer)) : Tail(longer)[i] = longer[i + 1]
  BY <1>1, <1>3
<1>5. ring = longer \/ ring = Tail(longer)
  BY DEF Trim, longer
<1>6. CASE ring = longer
  <2>1. Len(ring) = Len(cache.ring) + 1 /\ ring \in Seq(FrameRecord) /\ Len(ring) <= cache.last + 1
    BY <1>1, <1>3, <1>6
  <2>2. ASSUME NEW i \in 1..Len(ring)
        PROVE  ring[i].eventId = (cache.last + 1 - Len(ring)) + i
    <3>1. ring[i].eventId = (cache.last - Len(cache.ring)) + i
      BY <1>2, <1>6
    <3>2. i \in Int /\ cache.last + 1 - Len(ring) = cache.last - Len(cache.ring)
      BY <1>0, <1>3, <2>1
    <3>3. QED
      BY <3>1, <3>2
  <2>3. QED
    BY <2>1, <2>2
<1>7. CASE ring = Tail(longer)
  <2>1. \A i \in 1..Len(ring) : ring[i].eventId = (cache.last - Len(cache.ring)) + (i + 1)
    BY <1>1, <1>2, <1>3, <1>4, <1>7
  <2>2. Len(ring) = Len(cache.ring)
    BY <1>1, <1>3, <1>4, <1>7
  <2>3. ASSUME NEW i \in 1..Len(ring)
        PROVE  ring[i].eventId = (cache.last + 1 - Len(ring)) + i
    <3>1. i \in Int /\ ring[i].eventId = (cache.last - Len(cache.ring)) + (i + 1)
      BY <1>3, <2>1, <2>2
    <3>2. \A a, n, k \in Int : (a - n) + (k + 1) = (a + 1 - n) + k
      OBVIOUS
    <3>3. cache.last \in Int /\ Len(cache.ring) \in Int
      BY <1>0, <1>3
    <3>4. (cache.last - Len(cache.ring)) + (i + 1) = (cache.last + 1 - Len(cache.ring)) + i
      BY <3>1, <3>2, <3>3, Zenon
    <3>5. QED
      BY <2>2, <3>1, <3>4, Zenon
  <2>4. Len(ring) <= cache.last + 1
    BY <1>0, <1>1, <1>3, <2>2
  <2>5. QED
    BY <1>4, <1>7, <2>3, <2>4
<1>8. QED
  BY <1>5, <1>6, <1>7

\* A larger id at the end of an increasing sequence.
LEMMA AppendedRun ==
  ASSUME NEW s \in Seq(Nat), NEW n \in Nat, \A i \in 1..Len(s) : s[i] <= n,
         \A i, j \in 1..Len(s) : i < j => s[i] < s[j], NEW t, t = Append(s, n + 1)
  PROVE  /\ t \in Seq(Nat)
         /\ ToSet(t) = ToSet(s) \cup {n + 1}
         /\ \A i \in 1..Len(t) : t[i] <= n + 1
         /\ \A i, j \in 1..Len(t) : i < j => t[i] < t[j]
<1>1. /\ t \in Seq(Nat) /\ Len(t) = Len(s) + 1 /\ Len(s) \in Nat
      /\ \A i \in 1..Len(s) : t[i] = s[i] /\ s[i] \in Nat
      /\ t[Len(s) + 1] = n + 1
      /\ DOMAIN t = 1..(Len(s) + 1) /\ DOMAIN s = 1..Len(s)
  OBVIOUS
<1>2. \A x : x \in ToSet(t) <=> x \in ToSet(s) \cup {n + 1}
  BY <1>1 DEF ToSet
<1>3. \A i \in 1..Len(t) : i \in 1..Len(s) \/ i = Len(s) + 1
  BY <1>1
<1>4. \A i \in 1..Len(t) : t[i] <= n + 1
  BY <1>1, <1>3
<1>5. ASSUME NEW i \in 1..Len(t), NEW j \in 1..Len(t), i < j PROVE t[i] < t[j]
  <2>1. i \in 1..Len(s)
    BY <1>1, <1>5
  <2>2. CASE j \in 1..Len(s)
    BY <1>1, <1>5, <2>1, <2>2
  <2>3. CASE j = Len(s) + 1
    BY <1>1, <2>1, <2>3
  <2>4. QED
    BY <1>3, <2>2, <2>3
<1>6. QED
  BY <1>1, <1>2, <1>4, <1>5

\* A step that leaves ring, socket and browser alone.
LEMMA FeedQuiet ==
  ASSUME FeedInv, UNCHANGED <<conn, browser>>,
         reader' \in [at : {reader'.at}, ctx : {reader'.ctx}, pos : Nat, up : BOOLEAN],
         reader'.pos = reader.pos,
         cache' \in [last : Nat, ring : Seq(FrameRecord), gate : Nat, connected : BOOLEAN],
         cache'.last = cache.last, cache'.ring = cache.ring, cache'.gate = cache.gate
  PROVE  FeedInv'
<1>1. FeedTypeOK'
  BY DEF FeedInv, FeedTypeOK
<1>2. RingInv'
  BY DEF FeedInv, RingInv
<1>3. SentInv'
  BY DEF FeedInv, SentInv
<1>4. TileInv'
  BY DEF FeedInv, TileInv, OnTheWire, NoneOnTheWire
<1>5. QED
  BY <1>1, <1>2, <1>3, <1>4 DEF FeedInv

\* An event that is ingested is cached, and sent or missed.
LEMMA FeedIngest ==
  ASSUME FeedInv, ReadEvent
  PROVE  FeedInv'
<1> DEFINE id == cache.last + 1
           f == ToJson(id)
<1>0. /\ FeedTypeOK /\ RingInv /\ SentInv /\ TileInv
      /\ cache.last \in Nat /\ cache.gate \in Nat /\ id \in Nat /\ id > cache.last
      /\ reader.pos = cache.last
  BY DEF FeedInv, FeedTypeOK, RingInv
<1>1. /\ f \in FrameRecord /\ f.eventId = id /\ f.telemetry \in BOOLEAN
  BY <1>0, FrameOfEvent DEF FrameRecord
<1>2. Highest(cache.last, id) = id
  BY <1>0 DEF Highest
<1>3. Ingest(id)
  BY <1>0 DEF ReadEvent
<1> HIDE DEF f
<1>4. PICK ring : ring = Trim(Append(cache.ring, f))
  OBVIOUS
<1>5. /\ ring \in Seq(FrameRecord) /\ Len(ring) <= id
      /\ \A i \in 1..Len(ring) : ring[i].eventId = (id - Len(ring)) + i
  BY <1>0, <1>1, <1>4, TrimmedRing
<1>6. /\ cache' \in [last : Nat, ring : Seq(FrameRecord), gate : Nat, connected : BOOLEAN]
      /\ cache'.last = id /\ cache'.ring = ring
      /\ cache'.gate = IF f.telemetry THEN id ELSE cache.gate
  <2>1. cache \in [last : Nat, ring : Seq(FrameRecord), gate : Nat, connected : BOOLEAN]
    BY <1>0 DEF FeedTypeOK
  <2>2. cache' = [cache EXCEPT !.last = Highest(@, id), !.ring = Trim(Append(@, f)),
                               !.gate = IF f.telemetry THEN id ELSE @, !.connected = TRUE]
    BY <1>3 DEF Ingest, f
  <2>3. cache' = [cache EXCEPT !.last = id, !.ring = ring,
                               !.gate = IF f.telemetry THEN id ELSE cache.gate, !.connected = TRUE]
    BY <1>2, <1>4, <2>1, <2>2
  <2>4. (IF f.telemetry THEN id ELSE cache.gate) \in Nat
    BY <1>0
  <2>5. QED
    BY <1>0, <1>5, <2>1, <2>3, <2>4
<1>7. /\ reader' \in [at : {reader'.at}, ctx : {reader'.ctx}, pos : Nat, up : BOOLEAN]
      /\ reader'.pos = id
  BY <1>0 DEF ReadEvent, FeedTypeOK
<1>8. RingInv'
  BY <1>0, <1>5, <1>6, <1>7 DEF RingInv
<1>9. /\ conn \in [at : {"none", "accepted", "replayed", "attached"}, sent : Seq(Nat),
                   missed : SUBSET Nat, base : Nat, opened : Nat]
      /\ browser \in [socket : {"none", "open"}, wire : Seq(FrameRecord), gate : {browser.gate},
                      seeds : {browser.seeds}, healed : BOOLEAN]
  BY <1>0 DEF FeedTypeOK
<1>10. CASE conn.at = "attached"
  <2>1. /\ browser' = [browser EXCEPT !.wire = Append(@, f)]
        /\ conn' = [conn EXCEPT !.sent = Append(@, id)]
    BY <1>3, <1>10 DEF Ingest, f
  <2>2. /\ conn.sent \in Seq(Nat)
        /\ \A i \in 1..Len(conn.sent) : conn.sent[i] <= cache.last
        /\ \A i, j \in 1..Len(conn.sent) : i < j => conn.sent[i] < conn.sent[j]
    BY <1>0, <1>9, <1>10 DEF SentInv
  <2>3. PICK t : t = Append(conn.sent, id)
    OBVIOUS
  <2>4. /\ t \in Seq(Nat)
        /\ ToSet(t) = ToSet(conn.sent) \cup {id}
        /\ \A i \in 1..Len(t) : t[i] <= id
        /\ \A i, j \in 1..Len(t) : i < j => t[i] < t[j]
    BY <1>0, <2>2, <2>3, AppendedRun
  <2>5. conn' = [conn EXCEPT !.sent = t]
    BY <1>9, <2>1, <2>3
  <2>6. /\ conn' \in [at : {"none", "accepted", "replayed", "attached"}, sent : Seq(Nat),
                      missed : SUBSET Nat, base : Nat, opened : Nat]
        /\ conn'.at = "attached" /\ conn'.missed = conn.missed /\ conn'.base = conn.base
        /\ conn'.sent = t
    BY <1>9, <1>10, <2>4, <2>5
  <2>7. PICK frames : frames = Append(browser.wire, f)
    OBVIOUS
  <2>8. frames \in Seq(FrameRecord)
    BY <1>1, <1>9, <2>7
  <2>9. browser' = [browser EXCEPT !.wire = frames]
    BY <1>9, <2>1, <2>7
  <2>10. /\ browser' \in [socket : {"none", "open"}, wire : Seq(FrameRecord), gate : {browser'.gate},
                         seeds : {browser'.seeds}, healed : BOOLEAN]
        /\ browser'.gate = browser.gate /\ browser'.healed = browser.healed
        /\ browser'.wire = frames
    BY <1>9, <2>8, <2>9
  <2>11. FeedTypeOK'
    BY <1>6, <1>7, <2>6, <2>10 DEF FeedTypeOK
  <2>12. SentInv'
    <3>1. PICK a \in 0..cache.last : ToSet(conn.sent) \cup conn.missed = (a + 1)..cache.last
      BY <1>0, <1>10 DEF SentInv
    <3>2. (a + 1)..id = ((a + 1)..cache.last) \cup {id}
      BY <1>0
    <3>3. a \in 0..id /\ ToSet(conn'.sent) \cup conn'.missed = (a + 1)..id
      BY <1>0, <2>6, <2>4, <3>1, <3>2
    <3> HIDE DEF id
    <3>4. QED
      BY <1>6, <2>6, <2>4, <3>3 DEF SentInv
  <2>13. PICK n \in Nat : n = Len(frames)
    BY <2>8
  <2>14. /\ Len(browser.wire) \in Nat /\ n = Len(browser.wire) + 1 /\ Len(browser'.wire) = n
         /\ \A i \in 1..Len(browser.wire) : browser'.wire[i] = browser.wire[i]
         /\ browser'.wire[n] = f
    BY <1>1, <1>9, <2>7, <2>10, <2>13
  <2>15. ASSUME NEW j \in 1..Len(browser'.wire)
         PROVE  \/ browser'.wire[j] = f
                \/ j \in 1..Len(browser.wire) /\ browser'.wire[j] = browser.wire[j]
    <3>1. j \in 1..Len(browser.wire) \/ j = n
      BY <2>14
    <3>2. CASE j = n
      BY <2>14, <3>2
    <3>3. CASE j \in 1..Len(browser.wire)
      BY <2>14, <3>3
    <3>4. QED
      BY <3>1, <3>2, <3>3
  <2>16. conn.base \in Nat /\ conn.base <= cache.last
    BY <1>0, <1>9, <1>10 DEF TileInv
  <2>17. TileInv'
    <3>1. CASE f.telemetry
      <4>1. cache'.gate = id /\ ~(cache'.gate <= conn.base) /\ conn'.base <= cache'.last
        BY <1>0, <1>6, <2>6, <2>16, <3>1
      <4>2. OnTheWire(n)'
        <5>1. \A j \in 1..Len(browser'.wire) : ~(j > n)
          BY <2>14
        <5>2. QED
          BY <1>1, <2>14, <3>1, <4>1, <5>1 DEF OnTheWire
      <4>3. \E k \in 1..Len(browser'.wire) : OnTheWire(k)'
        BY <2>14, <4>2
      <4>4. QED
        BY <2>6, <4>1, <4>3 DEF TileInv
    <3>2. CASE ~f.telemetry
      <4>1. cache'.gate = cache.gate /\ conn'.base <= cache'.last
        BY <1>0, <1>6, <2>6, <2>16, <3>2
      <4>2. ASSUME NEW k \in 1..Len(browser.wire), OnTheWire(k)
            PROVE  k \in 1..Len(browser'.wire) /\ OnTheWire(k)'
        <5>1. k \in 1..Len(browser'.wire) /\ browser'.wire[k] = browser.wire[k]
          BY <2>14
        <5>3. \A j \in 1..Len(browser'.wire) : j > k => ~browser'.wire[j].telemetry
          BY <2>15, <3>2, <4>2 DEF OnTheWire
        <5>4. browser'.wire[k].telemetry /\ browser'.wire[k].eventId = cache'.gate
          BY <4>1, <4>2, <5>1 DEF OnTheWire
        <5>5. QED
          BY <5>1, <5>3, <5>4 DEF OnTheWire
      <4>3. NoneOnTheWire => NoneOnTheWire'
        BY <2>15, <3>2 DEF NoneOnTheWire
      <4>4. ASSUME cache.gate <= conn.base
            PROVE  \A j \in 1..Len(browser'.wire) :
                     browser'.wire[j].telemetry => browser'.wire[j].eventId <= conn.base
        BY <1>0, <1>10, <2>15, <3>2, <4>4 DEF TileInv
      <4>5. QED
        BY <1>0, <1>10, <2>6, <2>10, <4>1, <4>2, <4>3, <4>4 DEF TileInv
    <3>3. QED
      BY <1>1, <3>1, <3>2
  <2>18. QED
    BY <1>8, <2>11, <2>12, <2>17 DEF FeedInv
<1>11. CASE conn.at # "attached"
  <2>1. /\ conn' = [conn EXCEPT !.missed = IF conn.at = "replayed" THEN @ \cup {id} ELSE @]
        /\ UNCHANGED browser
    BY <1>3, <1>11 DEF Ingest
  <2>2. /\ conn' \in [at : {"none", "accepted", "replayed", "attached"}, sent : Seq(Nat),
                      missed : SUBSET Nat, base : Nat, opened : Nat]
        /\ conn'.at = conn.at /\ conn'.sent = conn.sent
        /\ conn'.missed = IF conn.at = "replayed" THEN conn.missed \cup {id} ELSE conn.missed
    BY <1>0, <1>9, <2>1
  <2>3. FeedTypeOK'
    BY <1>6, <1>7, <1>9, <2>1, <2>2 DEF FeedTypeOK
  <2>4. SentInv'
    <3>1. CASE conn.at = "replayed"
      <4>1. PICK a \in 0..cache.last : ToSet(conn.sent) \cup conn.missed = (a + 1)..cache.last
        BY <1>0, <3>1 DEF SentInv
      <4>2. (a + 1)..id = ((a + 1)..cache.last) \cup {id}
        BY <1>0
      <4>3. a \in 0..id /\ ToSet(conn'.sent) \cup conn'.missed = (a + 1)..id
        BY <1>0, <2>2, <3>1, <4>1, <4>2
      <4>4. \A i \in 1..Len(conn.sent) : conn.sent[i] \in Nat /\ conn.sent[i] <= cache.last
        BY <1>0, <1>9, <3>1 DEF SentInv
      <4>5. /\ \A i \in 1..Len(conn'.sent) : conn'.sent[i] <= id
            /\ \A i, j \in 1..Len(conn'.sent) : i < j => conn'.sent[i] < conn'.sent[j]
        <5>1. \A i \in 1..Len(conn.sent) : conn.sent[i] <= id
          BY <1>0, <4>4
        <5>2. \A i, j \in 1..Len(conn.sent) : i < j => conn.sent[i] < conn.sent[j]
          BY <1>0, <3>1 DEF SentInv
        <5>3. QED
          BY <2>2, <5>1, <5>2
      <4> HIDE DEF id
      <4>6. QED
        BY <1>6, <2>2, <3>1, <4>3, <4>5 DEF SentInv
    <3>2. CASE conn.at # "replayed"
      BY <1>0, <1>11, <2>2, <3>2 DEF SentInv
    <3>3. QED
      BY <3>1, <3>2
  <2>5. TileInv'
    <3>1. \A j \in 1..Len(browser.wire) : browser.wire[j].eventId \in Nat
      <4>1. \A j \in 1..Len(browser.wire) : browser.wire[j] \in FrameRecord
        BY <1>9
      <4>2. QED
        BY <4>1 DEF FrameRecord
    <3>2. QED
      BY <1>0, <1>6, <1>11, <2>1, <2>2, <3>1 DEF TileInv
  <2>6. QED
    BY <1>8, <2>3, <2>4, <2>5 DEF FeedInv
<1>12. QED
  BY <1>10, <1>11

\* A socket that opens, is replayed to, gets its sink, and goes.
LEMMA FeedSocket ==
  ASSUME FeedInv, OpenSocket \/ Replay \/ Attach \/ CloseSocket
  PROVE  FeedInv'
<1>0. /\ FeedTypeOK /\ RingInv /\ SentInv /\ TileInv
      /\ UNCHANGED <<reader, cache>>
  BY DEF FeedInv, OpenSocket, Replay, Attach, CloseSocket
<1>1. /\ reader' \in [at : {reader'.at}, ctx : {reader'.ctx}, pos : Nat, up : BOOLEAN]
      /\ cache' \in [last : Nat, ring : Seq(FrameRecord), gate : Nat, connected : BOOLEAN]
      /\ conn \in [at : {"none", "accepted", "replayed", "attached"}, sent : Seq(Nat),
                   missed : SUBSET Nat, base : Nat, opened : Nat]
      /\ browser \in [socket : {"none", "open"}, wire : Seq(FrameRecord), gate : {browser.gate},
                      seeds : {browser.seeds}, healed : BOOLEAN]
  BY <1>0 DEF FeedTypeOK
<1>2. RingInv'
  BY <1>0 DEF RingInv
<1>3. CASE OpenSocket
  <2>1. PICK seeds : browser' = [browser EXCEPT !.socket = "open", !.healed = FALSE, !.seeds = seeds]
    BY <1>3 DEF OpenSocket
  <2>2. /\ browser' \in [socket : {"none", "open"}, wire : Seq(FrameRecord), gate : {browser'.gate},
                         seeds : {browser'.seeds}, healed : BOOLEAN]
        /\ ~browser'.healed
    BY <1>1, <2>1
  <2>3. /\ conn' \in [at : {"none", "accepted", "replayed", "attached"}, sent : Seq(Nat),
                      missed : SUBSET Nat, base : Nat, opened : Nat]
        /\ conn'.at = "accepted" /\ conn'.missed = {}
    <3>1. PICK none : none = <<>>
      OBVIOUS
    <3>2. none \in Seq(Nat)
      BY <3>1
    <3>3. PICK opened : opened = conn.opened + 1
      OBVIOUS
    <3>4. opened \in Nat
      BY <1>1, <3>3
    <3>5. conn' = [conn EXCEPT !.at = "accepted", !.sent = none, !.missed = {}, !.opened = opened]
      BY <1>1, <1>3, <3>1, <3>3 DEF OpenSocket
    <3>6. QED
      BY <1>1, <3>2, <3>4, <3>5
  <2>4. FeedTypeOK' /\ SentInv' /\ TileInv'
    BY <1>1, <2>2, <2>3 DEF FeedTypeOK, SentInv, TileInv
  <2>5. QED
    BY <1>2, <2>4 DEF FeedInv
<1>4. CASE Replay
  <2>1. PICK ids : ids = [i \in DOMAIN cache.ring |-> cache.ring[i].eventId]
    OBVIOUS
  <2>2. /\ cache.last \in Nat /\ cache.ring \in Seq(FrameRecord) /\ Len(cache.ring) \in Nat
        /\ DOMAIN cache.ring = 1..Len(cache.ring) /\ Len(cache.ring) <= cache.last
    BY <1>0 DEF FeedTypeOK, RingInv
  <2>3. /\ DOMAIN ids = 1..Len(cache.ring)
        /\ \A i \in 1..Len(cache.ring) : ids[i] = (cache.last - Len(cache.ring)) + i
    BY <1>0, <2>1, <2>2 DEF RingInv
  <2>4. \A i \in 1..Len(cache.ring) : ids[i] \in Nat /\ ids[i] <= cache.last
    BY <2>2, <2>3
  <2>5. ids \in Seq(Nat) /\ Len(ids) = Len(cache.ring)
    <3>1. ids \in [1..Len(cache.ring) -> Nat]
      BY <2>1, <2>2, <2>4
    <3>2. QED
      BY <2>2, <3>1
  <2>6. /\ conn' = [conn EXCEPT !.at = "replayed", !.sent = ids]
        /\ browser' = [browser EXCEPT !.wire = cache.ring]
        /\ conn.at = "accepted"
    BY <1>4, <2>1 DEF Replay
  <2>7. /\ conn' \in [at : {"none", "accepted", "replayed", "attached"}, sent : Seq(Nat),
                      missed : SUBSET Nat, base : Nat, opened : Nat]
        /\ conn'.at = "replayed" /\ conn'.sent = ids /\ conn'.missed = {}
    BY <1>0, <1>1, <2>5, <2>6 DEF SentInv
  <2>8. /\ browser' \in [socket : {"none", "open"}, wire : Seq(FrameRecord), gate : {browser'.gate},
                         seeds : {browser'.seeds}, healed : BOOLEAN]
        /\ browser'.wire = cache.ring /\ ~browser'.healed
    BY <1>0, <1>1, <2>2, <2>6 DEF TileInv
  <2>9. SentInv'
    <3> DEFINE a == cache.last - Len(cache.ring)
    <3>1. a \in 0..cache.last
      BY <2>2
    <3>2. ASSUME NEW x PROVE x \in ToSet(ids) <=> x \in (a + 1)..cache.last
      <4>1. ASSUME x \in (a + 1)..cache.last PROVE x \in ToSet(ids)
        <5>1. x - a \in 1..Len(cache.ring) /\ ids[x - a] = x
          BY <2>2, <2>3, <3>1, <4>1
        <5>2. QED
          BY <2>3, <5>1 DEF ToSet
      <4>2. ASSUME x \in ToSet(ids) PROVE x \in (a + 1)..cache.last
        <5>1. PICK i \in 1..Len(cache.ring) : x = ids[i]
          BY <2>3, <4>2 DEF ToSet
        <5>2. QED
          BY <2>2, <2>3, <5>1
      <4>3. QED
        BY <4>1, <4>2
    <3>3. ToSet(conn'.sent) \cup conn'.missed = (a + 1)..cache'.last
      BY <1>0, <2>7, <3>2
    <3>4. /\ \A i \in 1..Len(conn'.sent) : conn'.sent[i] <= cache'.last
          /\ \A i, j \in 1..Len(conn'.sent) : i < j => conn'.sent[i] < conn'.sent[j]
      <4>1. \A i, j \in 1..Len(cache.ring) : i < j => ids[i] < ids[j]
        BY <2>2, <2>3
      <4>2. QED
        BY <1>0, <2>4, <2>5, <2>7, <4>1
    <3> HIDE DEF a
    <3>5. QED
      BY <1>0, <2>7, <3>1, <3>3, <3>4 DEF SentInv
  <2>10. TileInv'
    <3>1. \A j \in 1..Len(cache.ring) : cache.ring[j].eventId <= cache.last
      BY <2>1, <2>2, <2>4
    <3>2. QED
      BY <1>0, <2>7, <2>8, <3>1 DEF TileInv
  <2>11. QED
    BY <1>1, <1>2, <2>7, <2>8, <2>9, <2>10 DEF FeedInv, FeedTypeOK
<1>5. CASE Attach
  <2>1. /\ conn' \in [at : {"none", "accepted", "replayed", "attached"}, sent : Seq(Nat),
                      missed : SUBSET Nat, base : Nat, opened : Nat]
        /\ conn'.at = "attached" /\ conn'.sent = conn.sent /\ conn'.missed = conn.missed
        /\ conn'.base = cache.last /\ conn.at = "replayed" /\ browser' = browser
        /\ cache.last \in Nat /\ cache.gate \in Nat
    BY <1>0, <1>1, <1>5 DEF Attach, FeedTypeOK
  <2>2. FeedTypeOK'
    BY <1>1, <2>1 DEF FeedTypeOK
  <2>3. SentInv'
    BY <1>0, <2>1 DEF SentInv
  <2>4. TileInv'
    <3>1. cache.gate <= cache.last /\ ~(cache.gate > cache.last)
      BY <1>0, <2>1 DEF RingInv
    <3>2. QED
      BY <1>0, <2>1, <3>1 DEF TileInv
  <2>5. QED
    BY <1>2, <2>2, <2>3, <2>4 DEF FeedInv
<1>6. CASE CloseSocket
  <2>1. /\ browser' \in [socket : {"none", "open"}, wire : Seq(FrameRecord), gate : {browser'.gate},
                         seeds : {browser'.seeds}, healed : BOOLEAN]
        /\ ~browser'.healed
    <3>1. PICK none : none = <<>>
      OBVIOUS
    <3>2. none \in Seq(FrameRecord)
      BY <3>1
    <3>3. browser' = [browser EXCEPT !.socket = "none", !.wire = none, !.healed = FALSE]
      BY <1>6, <3>1 DEF CloseSocket
    <3>4. QED
      BY <1>1, <3>2, <3>3
  <2>2. /\ conn' \in [at : {"none", "accepted", "replayed", "attached"}, sent : Seq(Nat),
                      missed : SUBSET Nat, base : Nat, opened : Nat]
        /\ conn'.at = "none"
    BY <1>1, <1>6 DEF CloseSocket
  <2>3. FeedTypeOK' /\ SentInv' /\ TileInv'
    BY <1>1, <2>1, <2>2 DEF FeedTypeOK, SentInv, TileInv
  <2>4. QED
    BY <1>2, <2>3 DEF FeedInv
<1>7. QED
  BY <1>3, <1>4, <1>5, <1>6

\* A frame that is shown, and a seed that is answered or applied.
LEMMA FeedBrowser ==
  ASSUME FeedInv, Receive \/ \E s \in {"connect", "open"} :
                               ServeStatus(s) \/ \E ok \in BOOLEAN : ApplySeed(s, ok)
  PROVE  FeedInv'
<1>0. /\ FeedTypeOK /\ RingInv /\ SentInv /\ TileInv
      /\ UNCHANGED <<reader, cache, conn>>
  BY DEF FeedInv, Receive, ServeStatus, ApplySeed
<1>1. /\ browser \in [socket : {"none", "open"}, wire : Seq(FrameRecord), gate : {browser.gate},
                      seeds : {browser.seeds}, healed : BOOLEAN]
      /\ conn.base \in Nat /\ cache.gate \in Nat
  BY <1>0 DEF FeedTypeOK
<1>2. RingInv' /\ SentInv'
  BY <1>0 DEF RingInv, SentInv
<1>3. ASSUME browser' \in [socket : {"none", "open"}, wire : Seq(FrameRecord), gate : {browser'.gate},
                           seeds : {browser'.seeds}, healed : BOOLEAN],
             TileInv'
      PROVE  FeedInv'
  BY <1>0, <1>2, <1>3 DEF FeedInv, FeedTypeOK
<1>4. CASE Receive
  <2> DEFINE f == Head(browser.wire)
  <2>1. /\ Len(browser.wire) \in Nat \ {0} /\ f = browser.wire[1] /\ f \in FrameRecord
        /\ Tail(browser.wire) \in Seq(FrameRecord)
        /\ Len(Tail(browser.wire)) = Len(browser.wire) - 1
        /\ \A i \in 1..Len(Tail(browser.wire)) : Tail(browser.wire)[i] = browser.wire[i + 1]
    BY <1>1, <1>4 DEF Receive
  <2> DEFINE heals == f.telemetry /\ conn.at = "attached" /\ f.eventId > conn.base
  <2>2. browser' = [browser EXCEPT !.wire = Tail(@), !.gate = GateShown(@, f),
                                   !.healed = @ \/ heals]
    BY <1>4 DEF Receive
  <2>3. f.telemetry \in BOOLEAN /\ f.eventId \in Nat
    BY <2>1 DEF FrameRecord
  <2> HIDE DEF f
  <2>4. PICK gate : gate = GateShown(browser.gate, f)
    OBVIOUS
  <2>5. PICK healed \in BOOLEAN : healed = (browser.healed \/ heals)
    OBVIOUS
  <2>6. PICK frames : frames = Tail(browser.wire)
    OBVIOUS
  <2>7. browser' = [browser EXCEPT !.wire = frames, !.gate = gate, !.healed = healed]
    BY <1>1, <2>2, <2>4, <2>5, <2>6
  <2>8. /\ browser' \in [socket : {"none", "open"}, wire : Seq(FrameRecord), gate : {browser'.gate},
                         seeds : {browser'.seeds}, healed : BOOLEAN]
        /\ browser'.wire = frames /\ browser'.gate = gate /\ browser'.healed = healed
    BY <1>1, <2>1, <2>6, <2>7
  <2>9. /\ Len(frames) = Len(browser.wire) - 1
        /\ \A i \in 1..Len(frames) : i + 1 \in 1..Len(browser.wire) /\ frames[i] = browser.wire[i + 1]
    BY <2>1, <2>6
  <2>10. CASE conn.at # "attached"
    <3>1. ~healed
      BY <1>0, <2>5, <2>10 DEF TileInv
    <3>2. conn.at = "replayed" => \A j \in 1..Len(frames) : frames[j].eventId <= cache.last
      BY <1>0, <2>9 DEF TileInv
    <3>3. TileInv'
      BY <1>0, <2>8, <2>10, <3>1, <3>2 DEF TileInv
    <3>4. QED
      BY <1>3, <2>8, <3>3
  <2>11. CASE conn.at = "attached"
    <3>1. ASSUME cache.gate <= conn.base
          PROVE  /\ ~healed
                 /\ \A j \in 1..Len(frames) : frames[j].telemetry => frames[j].eventId <= conn.base
      <4>1. /\ ~browser.healed
            /\ \A j \in 1..Len(browser.wire) :
                 browser.wire[j].telemetry => browser.wire[j].eventId <= conn.base
        BY <1>0, <2>11, <3>1 DEF TileInv
      <4>2. ~heals
        BY <1>1, <2>1, <2>3, <4>1
      <4>3. QED
        BY <2>5, <2>9, <4>1, <4>2
    <3>2. ASSUME cache.gate > conn.base,
                 NEW k \in 1..Len(browser.wire), OnTheWire(k)
          PROVE  \/ \E j \in 1..Len(frames) : OnTheWire(j)'
                 \/ NoneOnTheWire' /\ gate = cache.gate
      <4>1. CASE k = 1
        <5>1. gate = cache.gate
          BY <2>1, <2>4, <3>2, <4>1 DEF OnTheWire, GateShown
        <5>2. \A j \in 1..Len(frames) : ~frames[j].telemetry
          BY <2>1, <2>9, <3>2, <4>1 DEF OnTheWire
        <5>3. QED
          BY <2>8, <5>1, <5>2 DEF NoneOnTheWire
      <4>2. CASE k # 1
        <5>0. PICK i : i = k - 1
          OBVIOUS
        <5>1. i \in 1..Len(frames) /\ frames[i] = browser.wire[k]
          BY <2>1, <2>9, <4>2, <5>0
        <5>2. \A j \in 1..Len(frames) : j > i => ~frames[j].telemetry
          BY <2>1, <2>9, <3>2, <5>0 DEF OnTheWire
        <5>3. OnTheWire(i)'
          BY <1>0, <2>8, <3>2, <5>1, <5>2 DEF OnTheWire
        <5>4. QED
          BY <5>1, <5>3
      <4>3. QED
        BY <4>1, <4>2
    <3>3. ASSUME cache.gate > conn.base, NoneOnTheWire, browser.healed => browser.gate = cache.gate
          PROVE  NoneOnTheWire' /\ (healed => gate = cache.gate)
      <4>1. ~f.telemetry
        BY <2>1, <3>3 DEF NoneOnTheWire
      <4>2. gate = browser.gate /\ healed = browser.healed
        BY <1>1, <2>4, <2>5, <4>1 DEF GateShown
      <4>3. QED
        BY <2>8, <2>9, <3>3, <4>2 DEF NoneOnTheWire
    <3>4. conn.base <= cache.last
      BY <1>0, <2>11 DEF TileInv
    <3>5. cache.gate > conn.base =>
            \/ \E k \in 1..Len(frames) : OnTheWire(k)'
            \/ NoneOnTheWire' /\ (healed => gate = cache.gate)
      BY <1>0, <2>11, <3>2, <3>3 DEF TileInv
    <3>6. TileInv'
      BY <1>0, <2>8, <2>11, <3>1, <3>4, <3>5 DEF TileInv
    <3>7. QED
      BY <1>3, <2>8, <3>6
  <2>12. QED
    BY <2>10, <2>11
<1>5. ASSUME NEW s \in {"connect", "open"}, ServeStatus(s) PROVE FeedInv'
  <2>1. PICK seeds : browser' = [browser EXCEPT !.seeds = seeds]
    BY <1>1, <1>5 DEF ServeStatus
  <2>2. /\ browser' \in [socket : {"none", "open"}, wire : Seq(FrameRecord), gate : {browser'.gate},
                         seeds : {browser'.seeds}, healed : BOOLEAN]
        /\ browser'.wire = browser.wire /\ browser'.gate = browser.gate
        /\ browser'.healed = browser.healed
    BY <1>1, <2>1
  <2>3. TileInv'
    BY <1>0, <2>2 DEF TileInv, OnTheWire, NoneOnTheWire
  <2>4. QED
    BY <1>3, <2>2, <2>3
<1>6. ASSUME NEW s \in {"connect", "open"}, NEW ok \in BOOLEAN, ApplySeed(s, ok) PROVE FeedInv'
  <2>1. PICK gate : gate = IF ok THEN browser.seeds[s].gate ELSE browser.gate
    OBVIOUS
  <2>2. PICK healed \in BOOLEAN : healed = (browser.healed /\ ~ok)
    OBVIOUS
  <2>3. PICK seeds : seeds = [x \in DOMAIN browser.seeds \ {s} |-> browser.seeds[x]]
    OBVIOUS
  <2>4. browser' = [browser EXCEPT !.gate = gate, !.healed = healed, !.seeds = seeds]
    BY <1>1, <1>6, <2>1, <2>2, <2>3 DEF ApplySeed
  <2>5. /\ browser' \in [socket : {"none", "open"}, wire : Seq(FrameRecord), gate : {browser'.gate},
                         seeds : {browser'.seeds}, healed : BOOLEAN]
        /\ browser'.wire = browser.wire /\ browser'.gate = gate /\ browser'.healed = healed
    BY <1>1, <2>4
  <2>6. browser'.healed => browser.healed /\ browser'.gate = browser.gate
    BY <2>5, <2>1, <2>2
  <2>7. TileInv'
    BY <1>0, <2>5, <2>6 DEF TileInv, OnTheWire, NoneOnTheWire
  <2>8. QED
    BY <1>3, <2>5, <2>7
<1>7. QED
  BY <1>4, <1>5, <1>6

\* For any script, ring and number of sockets: what a socket is sent is a run of the
\* stream but for the registration gap, and a healed tile shows what the backend knows
\* (EventStream::run, EventCache::ingest, handleNewConnection, seed, onmessage).
THEOREM FeedCorrect == FeedSpec => []FeedIsSound
<1>1. FeedInit => FeedInv
  <2> SUFFICES ASSUME FeedInit PROVE FeedInv
    OBVIOUS
  <2>1. FeedTypeOK
    BY DEF FeedInit, FeedTypeOK
  <2>2. RingInv
    BY DEF FeedInit, RingInv
  <2>3. SentInv /\ TileInv
    BY DEF FeedInit, SentInv, TileInv
  <2>4. QED
    BY <2>1, <2>2, <2>3 DEF FeedInv
<1>2. FeedInv /\ [FeedNext]_feedVars => FeedInv'
  <2> SUFFICES ASSUME FeedInv, [FeedNext]_feedVars PROVE FeedInv'
    OBVIOUS
  <2>0. /\ reader \in [at : {reader.at}, ctx : {reader.ctx}, pos : Nat, up : BOOLEAN]
        /\ cache \in [last : Nat, ring : Seq(FrameRecord), gate : Nat, connected : BOOLEAN]
        /\ reader.pos = cache.last
    BY DEF FeedInv, FeedTypeOK, RingInv
  <2> DEFINE Quiet ==
        /\ reader' \in [at : {reader'.at}, ctx : {reader'.ctx}, pos : Nat, up : BOOLEAN]
        /\ reader'.pos = reader.pos
        /\ cache' \in [last : Nat, ring : Seq(FrameRecord), gate : Nat, connected : BOOLEAN]
        /\ cache'.last = cache.last /\ cache'.ring = cache.ring /\ cache'.gate = cache.gate
        /\ UNCHANGED <<conn, browser>>
  <2>1. Quiet => FeedInv'
    BY FeedQuiet
  <2>2. CASE TestStop
    <3>1. Quiet
      BY <2>0, <2>2 DEF TestStop
    <3>2. QED
      BY <2>1, <3>1
  <2>3. CASE PublishContext \/ OpenStream \/ FinishStream \/ RetestStop \/ Backoff \/ StreamDies
    <3>1. UNCHANGED <<cache, conn, browser>>
      BY <2>3 DEF PublishContext, OpenStream, FinishStream, RetestStop, Backoff, StreamDies
    <3>2. /\ reader' \in [at : {reader'.at}, ctx : {reader'.ctx}, pos : Nat, up : BOOLEAN]
          /\ reader'.pos = reader.pos
      <4>1. CASE PublishContext
        BY <2>0, <4>1 DEF PublishContext
      <4>2. CASE OpenStream
        <5>1. PICK up \in BOOLEAN : reader' = [reader EXCEPT !.at = "loop", !.up = up]
          BY <4>2 DEF OpenStream
        <5>2. QED
          BY <2>0, <5>1
      <4>3. CASE FinishStream
        BY <2>0, <4>3 DEF FinishStream
      <4>4. CASE RetestStop
        <5>1. PICK at \in {"ended", "backoff"} : reader' = [reader EXCEPT !.at = at]
          BY <4>4 DEF RetestStop
        <5>2. QED
          BY <2>0, <5>1
      <4>5. CASE Backoff
        BY <2>0, <4>5 DEF Backoff
      <4>6. CASE StreamDies
        BY <2>0, <4>6 DEF StreamDies
      <4>7. QED
        BY <2>3, <4>1, <4>2, <4>3, <4>4, <4>5, <4>6
    <3>3. QED
      BY <2>0, <2>1, <3>1, <3>2
  <2>4. CASE ReadLoop \/ ReadEnds
    <3>1. PICK up \in BOOLEAN : cache' = [cache EXCEPT !.connected = up]
      BY <2>0, <2>4 DEF ReadLoop, ReadEnds
    <3>2. /\ cache' \in [last : Nat, ring : Seq(FrameRecord), gate : Nat, connected : BOOLEAN]
          /\ cache'.last = cache.last /\ cache'.ring = cache.ring /\ cache'.gate = cache.gate
      BY <2>0, <3>1
    <3>3. /\ reader' \in [at : {reader'.at}, ctx : {reader'.ctx}, pos : Nat, up : BOOLEAN]
          /\ reader'.pos = reader.pos /\ UNCHANGED <<conn, browser>>
      BY <2>0, <2>4 DEF ReadLoop, ReadEnds
    <3>4. QED
      BY <2>1, <3>2, <3>3
  <2>5. CASE Shutdown
    <3>1. UNCHANGED <<cache, conn, browser>>
      BY <2>5 DEF Shutdown, CancelContext, Join
    <3>2. reader' = reader \/ reader' = [reader EXCEPT !.ctx = "cancelled", !.up = FALSE]
      BY <2>5 DEF Shutdown, CancelContext, Join
    <3>3. /\ reader' \in [at : {reader'.at}, ctx : {reader'.ctx}, pos : Nat, up : BOOLEAN]
          /\ reader'.pos = reader.pos
      BY <2>0, <3>2
    <3>4. QED
      BY <2>0, <2>1, <3>1, <3>3
  <2>6. CASE UNCHANGED feedVars \/ RaiseStop \/ ServerPublishes
    <3>1. Quiet
      BY <2>0, <2>6 DEF feedVars, RaiseStop, ServerPublishes
    <3>2. QED
      BY <2>1, <3>1
  <2> HIDE DEF Quiet
  <2>7. QED
    BY <2>2, <2>3, <2>4, <2>5, <2>6, FeedIngest, FeedSocket, FeedBrowser DEF FeedNext, Thread
<1>3. FeedInv => FeedIsSound
  <2> SUFFICES ASSUME FeedInv, conn.at = "attached"
               PROVE  /\ LET ids == ToSet(conn.sent) \cup conn.missed
                         IN /\ \A i, j \in DOMAIN conn.sent : i < j => conn.sent[i] < conn.sent[j]
                            /\ ids # {} => /\ cache.last \in ids
                                           /\ \A i \in 1..cache.last : i \in ids \/ \A j \in ids : i < j
                      /\ browser.wire = <<>> /\ browser.healed => browser.gate = cache.gate
    BY DEF FeedIsSound, SocketIsExact, TileHeals
  <2>0. /\ conn.sent \in Seq(Nat) /\ cache.last \in Nat /\ cache.gate \in Nat /\ conn.base \in Nat
        /\ SentInv /\ TileInv
    BY DEF FeedInv, FeedTypeOK
  <2> DEFINE ids == ToSet(conn.sent) \cup conn.missed
  <2>1. PICK a \in 0..cache.last : ids = (a + 1)..cache.last
    BY <2>0 DEF SentInv
  <2>2. \A i, j \in DOMAIN conn.sent : i < j => conn.sent[i] < conn.sent[j]
    <3>1. DOMAIN conn.sent = 1..Len(conn.sent)
      BY <2>0
    <3>2. QED
      BY <2>0, <3>1 DEF SentInv
  <2> HIDE DEF ids
  <2>3. ids # {} => /\ cache.last \in ids
                    /\ \A i \in 1..cache.last : i \in ids \/ \A j \in ids : i < j
    BY <2>0, <2>1
  <2>4. browser.wire = <<>> /\ browser.healed => browser.gate = cache.gate
    <3>1. browser.wire = <<>> => ~\E k \in 1..Len(browser.wire) : OnTheWire(k)
      OBVIOUS
    <3>2. QED
      BY <2>0, <3>1 DEF TileInv
  <2>5. QED
    BY <2>2, <2>3, <2>4 DEF ids
<1>4. QED
  BY <1>1, <1>2, <1>3, PTL DEF FeedSpec

-----------------------------------------------------------------------------
(* AlprPipeline.                                                           *)

\* r has the elements of s up to place n that kept names, in order: element i of r comes
\* from place at[i].
CollectedBy(at, r, s, kept, n) ==
  /\ at \in [1..Len(r) -> 1..n]
  /\ \A i \in 1..Len(r) : at[i] \in kept /\ r[i] = s[at[i]]
  /\ \A i, j \in 1..Len(r) : i < j => at[i] < at[j]
  /\ \A k \in 1..n : k \in kept => \E i \in 1..Len(r) : at[i] = k

\* A turn of the loop that skips ...
LEMMA CollectSkips ==
  ASSUME NEW T, NEW r \in Seq(T), NEW s, NEW kept, NEW n \in Nat, NEW at, CollectedBy(at, r, s, kept, n),
         n + 1 \notin kept
  PROVE  CollectedBy(at, r, s, kept, n + 1)
<1>1. Len(r) \in Nat
  OBVIOUS
<1>2. /\ at \in [1..Len(r) -> 1..n]
      /\ \A i \in 1..Len(r) : at[i] \in kept /\ r[i] = s[at[i]]
      /\ \A i, j \in 1..Len(r) : i < j => at[i] < at[j]
      /\ \A k \in 1..n : k \in kept => \E i \in 1..Len(r) : at[i] = k
  BY DEF CollectedBy
<1>3. at \in [1..Len(r) -> 1..(n + 1)]
  <2>1. 1..n \subseteq 1..(n + 1)
    OBVIOUS
  <2>2. QED
    BY <1>2, <2>1
<1>4. ASSUME NEW k \in 1..(n + 1), k \in kept
      PROVE  \E i \in 1..Len(r) : at[i] = k
  <2>1. k # n + 1
    BY <1>4
  <2>2. k \in 1..n
    BY <2>1
  <2>3. QED
    BY <1>2, <1>4, <2>2
<1>5. QED
  BY <1>2, <1>3, <1>4 DEF CollectedBy

\* ... and one that collects.
LEMMA CollectTakes ==
  ASSUME NEW T, NEW r \in Seq(T), NEW s, NEW kept, NEW n \in Nat, NEW at, CollectedBy(at, r, s, kept, n),
         n + 1 \in kept, s[n + 1] \in T
  PROVE  /\ Append(r, s[n + 1]) \in Seq(T)
         /\ \E to : CollectedBy(to, Append(r, s[n + 1]), s, kept, n + 1)
<1> DEFINE q == Append(r, s[n + 1])
           L == Len(r)
           to == [i \in 1..(L + 1) |-> IF i = L + 1 THEN n + 1 ELSE at[i]]
<1>1. L \in Nat
  OBVIOUS
<1>2. q \in Seq(T) /\ Len(q) = L + 1 /\ q[L + 1] = s[n + 1] /\ \A i \in 1..L : q[i] = r[i]
  OBVIOUS
<1>3. /\ at \in [1..L -> 1..n]
      /\ \A i \in 1..L : at[i] \in kept /\ r[i] = s[at[i]]
      /\ \A i, j \in 1..L : i < j => at[i] < at[j]
      /\ \A k \in 1..n : k \in kept => \E i \in 1..L : at[i] = k
  BY DEF CollectedBy
<1> HIDE DEF q, L
<1>4. /\ to[L + 1] = n + 1 /\ L + 1 \in 1..(L + 1)
      /\ \A i \in 1..L : to[i] = at[i] /\ at[i] \in 1..n /\ i \in 1..(L + 1)
      /\ \A i \in 1..(L + 1) : i = L + 1 \/ i \in 1..L
  BY <1>1, <1>3
<1>5. to \in [1..(L + 1) -> 1..(n + 1)]
  BY <1>1, <1>3
<1> HIDE DEF to
<1>6. ASSUME NEW i \in 1..(L + 1)
      PROVE  to[i] \in kept /\ q[i] = s[to[i]]
  BY <1>2, <1>3, <1>4
<1>7. ASSUME NEW i \in 1..(L + 1), NEW j \in 1..(L + 1), i < j
      PROVE  to[i] < to[j]
  <2>1. i \in 1..L
    BY <1>1, <1>7
  <2>2. CASE j = L + 1
    BY <1>4, <2>1, <2>2
  <2>3. CASE j \in 1..L
    BY <1>3, <1>4, <1>7, <2>1, <2>3
  <2>4. QED
    BY <1>4, <2>2, <2>3
<1>8. ASSUME NEW k \in 1..(n + 1), k \in kept
      PROVE  \E i \in 1..(L + 1) : to[i] = k
  <2>1. CASE k = n + 1
    BY <1>4, <2>1
  <2>2. CASE k # n + 1
    <3>1. k \in 1..n
      BY <2>2
    <3>2. PICK i \in 1..L : at[i] = k
      BY <1>3, <1>8, <3>1
    <3>3. QED
      BY <1>4, <3>2
  <2>3. QED
    BY <2>1, <2>2
<1>9. CollectedBy(to, q, s, kept, n + 1)
  BY <1>2, <1>5, <1>6, <1>7, <1>8 DEF CollectedBy
<1>10. QED
  BY <1>2, <1>9 DEF q

\* out has what the loop has collected after each of n turns.
Turns(out, s, kept, T, n) ==
  /\ out \in [0..n -> Seq(T)] /\ out[0] = <<>>
  /\ \A i \in 1..n : out[i] = IF i \in kept THEN Append(out[i - 1], s[i]) ELSE out[i - 1]

\* The turns can be taken, for any sequence.
LEMMA TurnsExist ==
  ASSUME NEW T, NEW s \in Seq(T), NEW kept, NEW n \in 0..Len(s)
  PROVE  \E out : Turns(out, s, kept, T, n)
<1> DEFINE L == Len(s)
           Bad == {k \in 0..L : ~ \E out : Turns(out, s, kept, T, k)}
<1>1. L \in Nat /\ \A i \in 1..L : s[i] \in T
  OBVIOUS
<1> HIDE DEF L
<1>2. SUFFICES ASSUME Bad # {} PROVE FALSE
  BY DEF L
<1>3. PICK k \in Bad : \A m \in Bad : k <= m
  <2>1. Bad \subseteq Nat
    BY <1>1
  <2> HIDE DEF Bad
  <2>2. QED
    BY <1>2, <2>1, LeastNumber
<1>4. CASE k = 0
  <2>1. Turns([i \in 0..0 |-> <<>>], s, kept, T, 0)
    BY DEF Turns
  <2>2. QED
    BY <1>3, <1>4, <2>1
<1>5. CASE k # 0
  <2>1. k - 1 \in 0..L /\ k - 1 \notin Bad /\ k \in 1..L /\ k \in Nat
    BY <1>1, <1>3, <1>5
  <2>2. PICK old : Turns(old, s, kept, T, k - 1)
    BY <2>1
  <2> DEFINE new == IF k \in kept THEN Append(old[k - 1], s[k]) ELSE old[k - 1]
             out == [i \in 0..k |-> IF i = k THEN new ELSE old[i]]
  <2>3. old[k - 1] \in Seq(T) /\ s[k] \in T
    BY <1>1, <2>1, <2>2 DEF Turns
  <2>4. new \in Seq(T)
    BY <2>3
  <2> HIDE DEF new
  <2>5. out \in [0..k -> Seq(T)] /\ out[0] = <<>>
    <3>1. old \in [0..(k - 1) -> Seq(T)] /\ old[0] = <<>>
      BY <2>2 DEF Turns
    <3>2. ASSUME NEW i \in 0..k
          PROVE  (IF i = k THEN new ELSE old[i]) \in Seq(T)
      <4>1. i = k \/ i \in 0..(k - 1)
        BY <2>1
      <4>2. QED
        BY <2>4, <3>1, <4>1
    <3>3. 0 \in 0..k /\ 0 # k
      BY <2>1
    <3>4. QED
      BY <3>1, <3>2, <3>3
  <2>6. ASSUME NEW i \in 1..k
        PROVE  out[i] = IF i \in kept THEN Append(out[i - 1], s[i]) ELSE out[i - 1]
    <3>1. CASE i = k
      <4>1. out[i] = new /\ out[i - 1] = old[k - 1]
        BY <2>1, <3>1
      <4>2. QED
        BY <3>1, <4>1 DEF new
    <3>2. CASE i # k
      <4>1. i \in 1..(k - 1) /\ out[i] = old[i] /\ out[i - 1] = old[i - 1]
        BY <2>1, <3>2
      <4>2. QED
        BY <2>2, <4>1 DEF Turns
    <3>3. QED
      BY <3>1, <3>2
  <2> HIDE DEF out
  <2>7. Turns(out, s, kept, T, k)
    BY <2>5, <2>6 DEF Turns
  <2>8. QED
    BY <1>3, <2>7
<1>6. QED
  BY <1>4, <1>5

\* What is collected comes from the places that are kept, in order.
LEMMA CollectIs ==
  ASSUME NEW T, NEW s \in Seq(T), NEW kept
  PROVE  /\ Collect(s, kept) \in Seq(T)
         /\ \E at : CollectedBy(at, Collect(s, kept), s, kept, Len(s))
<1> DEFINE L == Len(s)
<1>1. L \in Nat /\ L \in 0..L /\ \A i \in 1..L : s[i] \in T
  OBVIOUS
<1>2. PICK t : Turns(t, s, kept, T, L)
  BY <1>1, TurnsExist
<1> HIDE DEF L
<1> DEFINE out[i \in 0..L] ==
             IF i = 0 THEN <<>>
             ELSE IF i \in kept THEN Append(out[i - 1], s[i]) ELSE out[i - 1]
<1>3. t = [i \in 0..L |-> IF i = 0 THEN <<>>
                          ELSE IF i \in kept THEN Append(t[i - 1], s[i]) ELSE t[i - 1]]
  <2> DEFINE Turn(i) == IF i = 0 THEN <<>>
                        ELSE IF i \in kept THEN Append(t[i - 1], s[i]) ELSE t[i - 1]
  <2>1. ASSUME NEW i \in 0..L
        PROVE  t[i] = Turn(i)
    <3>1. CASE i = 0
      BY <1>2, <3>1 DEF Turns
    <3>2. CASE i # 0
      <4>1. i \in 1..L
        BY <1>1, <3>2
      <4>2. QED
        BY <1>2, <3>2, <4>1 DEF Turns
    <3>3. QED
      BY <3>1, <3>2
  <2>2. t = [i \in 0..L |-> t[i]]
    BY <1>2 DEF Turns
  <2> HIDE DEF Turn
  <2>3. t = [i \in 0..L |-> Turn(i)]
    BY <2>1, <2>2
  <2>4. QED
    BY <2>3 DEF Turn
<1>4. out = [i \in 0..L |-> IF i = 0 THEN <<>>
                            ELSE IF i \in kept THEN Append(out[i - 1], s[i]) ELSE out[i - 1]]
  BY <1>3
<1>5. Collect(s, kept) = out[L]
  BY DEF Collect, L
<1> HIDE DEF out
<1> DEFINE Fine(i) == out[i] \in Seq(T) /\ \E at : CollectedBy(at, out[i], s, kept, i)
           Odd == {i \in 0..L : ~Fine(i)}
<1>6. out[0] = <<>> /\ \A i \in 1..L : out[i] = IF i \in kept THEN Append(out[i - 1], s[i]) ELSE out[i - 1]
  <2> DEFINE Turn(i) == IF i = 0 THEN <<>>
                        ELSE IF i \in kept THEN Append(out[i - 1], s[i]) ELSE out[i - 1]
  <2>1. out = [i \in 0..L |-> Turn(i)]
    BY <1>4
  <2> HIDE DEF Turn
  <2>2. \A i \in 0..L : out[i] = Turn(i)
    BY <2>1
  <2>3. 0 \in 0..L /\ \A i \in 1..L : i \in 0..L /\ i # 0
    BY <1>1
  <2>4. QED
    BY <2>2, <2>3 DEF Turn
<1>7. Fine(0)
  <2>1. CollectedBy([i \in 1..0 |-> 1], <<>>, s, kept, 0)
    <3>1. Len(<<>>) = 0
      OBVIOUS
    <3>2. [i \in 1..0 |-> 1] \in [1..0 -> 1..0]
      OBVIOUS
    <3>3. QED
      BY <3>1, <3>2 DEF CollectedBy
  <2>2. QED
    BY <1>6, <2>1
<1>8. ASSUME NEW i \in 1..L, Fine(i - 1)
      PROVE  Fine(i)
  <2>1. PICK at : CollectedBy(at, out[i - 1], s, kept, i - 1)
    BY <1>8
  <2>2. i - 1 \in Nat /\ (i - 1) + 1 = i /\ s[i] \in T /\ out[i - 1] \in Seq(T)
    BY <1>1, <1>8
  <2>3. CASE i \in kept
    <3>1. /\ Append(out[i - 1], s[(i - 1) + 1]) \in Seq(T)
          /\ \E to : CollectedBy(to, Append(out[i - 1], s[(i - 1) + 1]), s, kept, (i - 1) + 1)
      BY <2>1, <2>2, <2>3, CollectTakes
    <3>2. QED
      BY <1>6, <2>2, <2>3, <3>1
  <2>4. CASE i \notin kept
    <3>1. CollectedBy(at, out[i - 1], s, kept, (i - 1) + 1)
      BY <2>1, <2>2, <2>4, CollectSkips
    <3>2. QED
      BY <1>6, <2>2, <2>4, <3>1
  <2>5. QED
    BY <2>3, <2>4
<1> HIDE DEF Fine
<1>9. Odd = {}
  <2>1. SUFFICES ASSUME Odd # {} PROVE FALSE
    OBVIOUS
  <2>2. Odd \subseteq Nat
    BY <1>1
  <2>3. PICK m \in Odd : \A j \in Odd : m <= j
    <3> HIDE DEF Odd
    <3>1. QED
      BY <2>1, <2>2, LeastNumber
  <2>4. m # 0
    BY <1>7, <2>3
  <2>5. m - 1 \in 0..L /\ m - 1 \notin Odd /\ m \in 1..L
    BY <1>1, <2>3, <2>4
  <2>6. QED
    BY <1>8, <2>3, <2>5
<1>10. Fine(L)
  BY <1>1, <1>9
<1>11. QED
  BY <1>5, <1>10 DEF Fine, L

\* The recogniser's decoding gives one letter for every run that shows a character.
LEMMA DecodeSpells ==
  ASSUME NEW path \in Seq(Nat)
  PROVE  /\ Spells(Decode(path), path)
         /\ (\E t \in DOMAIN path : path[t] \in 1..Dictionary) => Decode(path) # <<>>
<1> DEFINE kept == {t \in DOMAIN path : /\ path[t] \in 1..Dictionary
                                        /\ t > 1 => path[t] # path[t - 1]}
           text == Decode(path)
           L == Len(path)
           N == Len(text)
<1>1. L \in Nat /\ DOMAIN path = 1..L
  OBVIOUS
<1>2. \A t : t \in kept <=> t \in 1..L /\ path[t] \in 1..Dictionary /\ (t > 1 => path[t] # path[t - 1])
  BY <1>1
<1>3. text = Collect(path, kept)
  BY DEF Decode
<1> HIDE DEF kept, text, L
<1>4. text \in Seq(Nat)
  BY <1>3, CollectIs
<1>5. PICK at : CollectedBy(at, text, path, kept, L)
  BY <1>3, CollectIs, Zenon DEF L
<1>6. N \in Nat /\ DOMAIN text = 1..N
  BY <1>4
<1>7. /\ at \in [1..N -> 1..L]
      /\ \A i \in 1..N : at[i] \in kept /\ text[i] = path[at[i]]
      /\ \A i, j \in 1..N : i < j => at[i] < at[j]
      /\ \A t \in 1..L : t \in kept => \E i \in 1..N : at[i] = t
  BY <1>5 DEF CollectedBy
<1> HIDE DEF N
<1>8. ASSUME NEW t \in 1..L, path[t] \in 1..Dictionary
      PROVE  \E i \in 1..N : at[i] <= t /\ \A u \in at[i]..t : path[u] = text[i]
  <2> DEFINE run == {v \in 1..t : \A u \in v..t : path[u] = path[t]}
  <2>1. t \in run /\ run \subseteq Nat
    BY <1>1
  <2>2. PICK v \in run : \A w \in run : v <= w
    <3> HIDE DEF run
    <3>1. QED
      BY <2>1, LeastNumber
  <2>3. v \in Nat /\ v >= 1 /\ v <= t /\ v \in 1..L /\ \A u \in v..t : path[u] = path[t]
    BY <1>1, <2>2
  <2>4. v \in v..t /\ path[v] = path[t]
    BY <1>1, <2>3
  <2>5. ASSUME v > 1
        PROVE  path[v] # path[v - 1]
    <3>1. SUFFICES ASSUME path[v - 1] = path[t] PROVE FALSE
      BY <2>4
    <3>2. v - 1 \in 1..t
      BY <1>1, <2>3, <2>5
    <3>3. ASSUME NEW u \in (v - 1)..t
          PROVE  path[u] = path[t]
      <4>1. u = v - 1 \/ u \in v..t
        BY <1>1, <2>3
      <4>2. QED
        BY <2>3, <3>1, <4>1
    <3>4. v - 1 \in run
      BY <3>2, <3>3
    <3>5. v <= v - 1
      BY <2>2, <3>4
    <3>6. QED
      BY <2>3, <3>5
  <2>6. v \in kept
    BY <1>2, <1>8, <2>3, <2>4, <2>5
  <2>7. PICK i \in 1..N : at[i] = v
    BY <1>7, <2>3, <2>6
  <2>8. text[i] = path[t]
    BY <1>7, <2>4, <2>7
  <2>9. QED
    BY <2>3, <2>7, <2>8
<1>9. ASSUME NEW i \in 1..N
      PROVE  /\ text[i] = path[at[i]] /\ text[i] \in 1..Dictionary
             /\ at[i] = 1 \/ path[at[i] - 1] # text[i]
  <2>1. at[i] \in 1..L /\ at[i] \in kept /\ text[i] = path[at[i]]
    BY <1>7
  <2>2. at[i] = 1 \/ at[i] > 1
    BY <1>1, <2>1
  <2>3. QED
    BY <1>2, <2>1, <2>2
<1>10. Spells(text, path)
  <2>1. at \in [DOMAIN text -> DOMAIN path]
    BY <1>1, <1>6, <1>7
  <2>2. \A i, j \in DOMAIN text : i < j => at[i] < at[j]
    BY <1>6, <1>7
  <2>3. \A i \in DOMAIN text :
          /\ text[i] = path[at[i]] /\ text[i] \in 1..Dictionary
          /\ at[i] = 1 \/ path[at[i] - 1] # text[i]
    BY <1>6, <1>9
  <2>4. \A t \in DOMAIN path : path[t] \in 1..Dictionary =>
          \E i \in DOMAIN text : at[i] <= t /\ \A u \in at[i]..t : path[u] = text[i]
    BY <1>1, <1>6, <1>8
  <2>5. QED
    BY <2>1, <2>2, <2>3, <2>4, Zenon DEF Spells
<1>11. ASSUME NEW t \in DOMAIN path, path[t] \in 1..Dictionary
       PROVE  text # <<>>
  <2>1. PICK i \in 1..N : TRUE
    BY <1>1, <1>8, <1>11
  <2>2. QED
    BY <1>6, <2>1 DEF N
<1>12. QED
  BY <1>10, <1>11 DEF text

-----------------------------------------------------------------------------
(* Boxes.                                                                  *)

\* The larger of two numbers.
LEMMA MaxPair ==
  ASSUME NEW a \in Int, NEW b \in Int
  PROVE  Max({a, b}) = IF a >= b THEN a ELSE b
<1> DEFINE m == IF a >= b THEN a ELSE b
<1>1. m \in {a, b} /\ \A y \in {a, b} : m >= y
  OBVIOUS
<1>2. \A x \in {a, b} : (\A y \in {a, b} : x >= y) => x = m
  OBVIOUS
<1> HIDE DEF m
<1>3. QED
  BY <1>1, <1>2 DEF Max, m

\* Division with a remainder.
LEMMA Divided ==
  ASSUME NEW n \in Nat, NEW u \in Nat \ {0}
  PROVE  \E q \in Nat, r \in 0..(u - 1) : n \div u = q /\ n = q * u + r
<1>1. n \div u \in Nat /\ n % u \in 0..(u - 1) /\ n = (n \div u) * u + (n % u)
  OBVIOUS
<1>2. QED
  BY <1>1

\* The part of a frame between a and b, rounded down where it begins and up in its size,
\* still ends inside the frame.
LEMMA PixelsFit ==
  ASSUME NEW a \in Nat, NEW b \in Nat, NEW len \in Nat, a <= b, b <= len * Unit
  PROVE  Floor(a) \in Nat /\ Ceil(b - a) \in Nat /\ Floor(a) + Ceil(b - a) <= len
<1> DEFINE c == b - a + Unit - 1
<1>1. Unit \in Nat \ {0}
  BY PipelineAssumption
<1>2. c \in Nat
  BY <1>1
<1>3. PICK q \in Nat, r \in 0..(Unit - 1) : a \div Unit = q /\ a = q * Unit + r
  BY <1>1, Divided
<1>4. PICK p \in Nat, t \in 0..(Unit - 1) : c \div Unit = p /\ c = p * Unit + t
  <2> HIDE DEF c
  <2>1. QED
    BY <1>1, <1>2, Divided
<1>5. q + p <= len
  <2>1. SUFFICES ASSUME q + p >= len + 1 PROVE FALSE
    OBVIOUS
  <2>2. (q + p) * Unit = q * Unit + p * Unit /\ (len + 1) * Unit = len * Unit + Unit
    BY <1>1
  <2>3. (q + p) * Unit >= (len + 1) * Unit
    BY <1>1, <2>1
  <2>4. PICK X \in Nat, Y \in Nat, Z \in Nat : X = q * Unit /\ Y = p * Unit /\ Z = len * Unit
    BY <1>1
  <2>5. X + Y >= Z + Unit
    BY <2>2, <2>3, <2>4
  <2>6. a = X + r /\ b - a + Unit - 1 = Y + t /\ b <= Z
    BY <1>3, <1>4, <2>4
  <2>7. QED
    BY <1>1, <2>5, <2>6
<1>6. QED
  BY <1>3, <1>4, <1>5 DEF Floor, Ceil

\* An axis of a detection that passes lies inside the frame.
WithinFrame(a, len) == a.lo \in Nat /\ a.hi \in Nat /\ a.lo < a.hi /\ a.hi <= len * Unit

\* Unmapping clamps to the frame.
LEMMA UnmappedWithinFrame ==
  ASSUME NEW c1 \in Int, NEW c2 \in Int, NEW len \in Nat \ {0}, ~Empty(UnmapAxis(c1, c2, len))
  PROVE  WithinFrame(UnmapAxis(c1, c2, len), len)
<1> DEFINE a == UnmapAxis(c1, c2, len)
<1>1. /\ Unit \in Nat \ {0} /\ FrameW \in Nat \ {0} /\ FrameH \in Nat \ {0} /\ Canvas \in Nat \ {0}
  BY PipelineAssumption
<1>2. Scale.num \in Nat \ {0} /\ Scale.den \in Nat \ {0}
  <2>1. FrameW \in Int /\ FrameH \in Int
    BY <1>1
  <2>2. Max({FrameW, FrameH}) = IF FrameW >= FrameH THEN FrameW ELSE FrameH
    BY <2>1, MaxPair, Zenon
  <2>3. Max({FrameW, FrameH}) \in Nat \ {0}
    BY <1>1, <2>2
  <2>4. QED
    BY <1>1, <2>3 DEF Scale
<1>3. Pad(len) \in Int
  <2>1. len * Scale.num \in Nat
    BY <1>2
  <2>2. 2 * (len * Scale.num) + Scale.den \in Nat /\ 2 * Scale.den \in Nat \ {0}
    BY <1>2, <2>1
  <2>3. Resized(len) \in Int
    BY <2>2 DEF Resized, Round
  <2>4. QED
    BY <1>1, <2>3 DEF Pad
<1>4. ASSUME NEW c \in Int
      PROVE  Unmapped(c, len) \in Int
  <2>1. c - Pad(len) \in Int
    BY <1>3
  <2>2. (c - Pad(len)) * Unit \in Int
    BY <1>1, <2>1
  <2>3. (c - Pad(len)) * Unit * Scale.den \in Int
    BY <1>2, <2>2
  <2>4. QED
    BY <1>2, <2>3 DEF Unmapped
<1>5. PICK p \in Int, q \in Int, m \in Nat : p = Unmapped(c1, len) /\ q = Unmapped(c2, len) /\ m = len * Unit
  BY <1>1, <1>4
<1>6. a = [lo |-> Max({0, p}), hi |-> Min({m, q})]
  BY <1>5 DEF UnmapAxis
<1>7. Max({0, p}) = IF 0 >= p THEN 0 ELSE p
  BY <1>5, MaxPair
<1>8. Min({m, q}) = IF m <= q THEN m ELSE q
  BY <1>5, MinPair
<1>9. a.lo = (IF 0 >= p THEN 0 ELSE p) /\ a.hi = IF m <= q THEN m ELSE q
  BY <1>6, <1>7, <1>8
<1>10. ~(a.hi <= a.lo)
  BY DEF Empty
<1>11. a.lo \in Nat /\ a.hi \in Nat /\ a.lo < a.hi /\ a.hi <= m
  BY <1>9, <1>10
<1>12. QED
  BY <1>5, <1>11 DEF WithinFrame

\* Clamping keeps the order and ends inside the frame.
LEMMA ClampFits ==
  ASSUME NEW v \in Int, NEW w \in Int, NEW len \in Nat, v <= w
  PROVE  /\ Clamp(v, len) \in Nat /\ Clamp(w, len) \in Nat
         /\ Clamp(v, len) <= Clamp(w, len) /\ Clamp(w, len) <= len * Unit
<1>1. PICK m \in Nat : m = len * Unit
  BY PipelineAssumption
<1>2. ASSUME NEW x \in Int
      PROVE  Clamp(x, len) = IF x <= 0 THEN 0 ELSE IF x <= m THEN x ELSE m
  <2> DEFINE y == IF x <= m THEN x ELSE m
  <2>1. Min({x, m}) = y /\ y \in Int
    BY <1>1, MinPair
  <2> HIDE DEF y
  <2>2. Max({0, y}) = IF 0 >= y THEN 0 ELSE y
    BY <2>1, MaxPair
  <2>3. Clamp(x, len) = Max({0, y})
    BY <1>1, <2>1 DEF Clamp
  <2>4. QED
    BY <2>2, <2>3 DEF y
<1>3. QED
  BY <1>1, <1>2

\* So a crop and a box on the wire end inside the frame.
LEMMA AxisFits ==
  ASSUME NEW a, NEW len \in Nat, WithinFrame(a, len)
  PROVE  /\ CropAxis(a, len).at \in Nat /\ CropAxis(a, len).size \in Nat
         /\ CropAxis(a, len).at + CropAxis(a, len).size <= len
         /\ Floor(a.lo) \in Nat /\ Floor(a.lo) + Ceil(a.hi - a.lo) <= len
<1> DEFINE d == (a.hi - a.lo) \div MarginInv
           lo == Clamp(a.lo - d, len)
           hi == Clamp(a.hi + d, len)
<1>1. a.lo \in Nat /\ a.hi \in Nat /\ a.lo < a.hi /\ a.hi <= len * Unit
  BY DEF WithinFrame
<1>2. d \in Nat
  <2>1. a.hi - a.lo \in Nat
    BY <1>1
  <2>2. MarginInv \in Nat \ {0}
    BY PipelineAssumption
  <2>3. QED
    BY <2>1, <2>2
<1> HIDE DEF d
<1>3. lo \in Nat /\ hi \in Nat /\ lo <= hi /\ hi <= len * Unit
  <2>1. a.lo - d \in Int /\ a.hi + d \in Int /\ a.lo - d <= a.hi + d
    BY <1>1, <1>2
  <2>2. QED
    BY <2>1, ClampFits
<1>4. CropAxis(a, len) = [at |-> Floor(lo), size |-> Ceil(hi - lo)]
  BY DEF CropAxis, d
<1> HIDE DEF lo, hi
<1>5. Floor(lo) \in Nat /\ Ceil(hi - lo) \in Nat /\ Floor(lo) + Ceil(hi - lo) <= len
  BY <1>3, PixelsFit
<1>6. Floor(a.lo) \in Nat /\ Floor(a.lo) + Ceil(a.hi - a.lo) <= len
  BY <1>1, PixelsFit
<1>7. QED
  BY <1>4, <1>5, <1>6

\* What is submitted of a detection that passes lies inside the frame, and its text is its own.
LEMMA ReadingIsSound ==
  ASSUME NEW d \in RawDetection, Reported(d), Decode(d.path) # <<>>
  PROVE  Sound(ReadingOf(Detection(d)), d)
<1> DEFINE b == Detection(d)
           r == ReadingOf(b)
<1>1. /\ d.x1 \in Int /\ d.x2 \in Int /\ d.y1 \in Int /\ d.y2 \in Int /\ d.path \in Seq(Nat)
  BY DEF RawDetection
<1>2. b = [x |-> UnmapAxis(d.x1, d.x2, FrameW), y |-> UnmapAxis(d.y1, d.y2, FrameH),
           score |-> d.score, path |-> d.path]
  BY DEF Detection
<1>3. /\ b.x = UnmapAxis(d.x1, d.x2, FrameW) /\ b.y = UnmapAxis(d.y1, d.y2, FrameH)
      /\ b.score = d.score /\ b.path = d.path /\ ~Empty(b.x) /\ ~Empty(b.y)
  BY <1>2 DEF Reported
<1> HIDE DEF b
<1>4. FrameW \in Nat \ {0} /\ FrameH \in Nat \ {0}
  BY PipelineAssumption
<1>5. WithinFrame(b.x, FrameW)
  BY <1>1, <1>3, <1>4, UnmappedWithinFrame
<1>6. WithinFrame(b.y, FrameH)
  BY <1>1, <1>3, <1>4, UnmappedWithinFrame
<1>7. r = [box |-> b, crop |-> Crop(b), score |-> b.score, text |-> Decode(b.path)]
  BY DEF ReadingOf
<1>8. r.box = b /\ r.score = d.score /\ r.text = Decode(d.path) /\ r.crop = Crop(b)
  BY <1>3, <1>7
<1>9. /\ Crop(b).x = CropAxis(b.x, FrameW) /\ Crop(b).y = CropAxis(b.y, FrameH)
      /\ ToPixelBox(b).x.at = Floor(b.x.lo) /\ ToPixelBox(b).x.size = Ceil(b.x.hi - b.x.lo)
      /\ ToPixelBox(b).y.at = Floor(b.y.lo) /\ ToPixelBox(b).y.size = Ceil(b.y.hi - b.y.lo)
  BY DEF Crop, ToPixelBox
<1>10. /\ CropAxis(b.x, FrameW).at \in Nat /\ CropAxis(b.x, FrameW).at + CropAxis(b.x, FrameW).size <= FrameW
       /\ Floor(b.x.lo) \in Nat /\ Floor(b.x.lo) + Ceil(b.x.hi - b.x.lo) <= FrameW
  BY <1>4, <1>5, AxisFits
<1>11. /\ CropAxis(b.y, FrameH).at \in Nat /\ CropAxis(b.y, FrameH).at + CropAxis(b.y, FrameH).size <= FrameH
       /\ Floor(b.y.lo) \in Nat /\ Floor(b.y.lo) + Ceil(b.y.hi - b.y.lo) <= FrameH
  BY <1>4, <1>6, AxisFits
<1>12. \A n \in Nat : n >= 0
  OBVIOUS
<1>13. ASSUME NEW e \in {r.crop, ToPixelBox(r.box)}
       PROVE  /\ e.x.at >= 0 /\ e.x.at + e.x.size <= FrameW
              /\ e.y.at >= 0 /\ e.y.at + e.y.size <= FrameH
  <2>1. CASE e = Crop(b)
    BY <1>9, <1>10, <1>11, <1>12, <2>1
  <2>2. CASE e = ToPixelBox(b)
    BY <1>9, <1>10, <1>11, <1>12, <2>2
  <2>3. QED
    BY <1>8, <2>1, <2>2
<1>14. Spells(r.text, d.path)
  BY <1>1, <1>8, DecodeSpells
<1> HIDE DEF r
<1>15. QED
  BY <1>8, <1>13, <1>14 DEF Sound, b, r

-----------------------------------------------------------------------------
(* The order of the detections.                                            *)

Found == {Detection(d) : d \in RawDetection}

\* fs has the detections of ds that pass, each once, best first: element i is p[i].
SortedBy(p, fs, ds) ==
  /\ p \in [1..Len(fs) -> 1..Len(ds)]
  /\ \A i \in 1..Len(fs) : Reported(ds[p[i]]) /\ fs[i] = Detection(ds[p[i]])
  /\ \A i, j \in 1..Len(fs) : i < j => p[i] # p[j] /\ ds[p[i]].score >= ds[p[j]].score
  /\ \A k \in 1..Len(ds) : Reported(ds[k]) => \E i \in 1..Len(fs) : p[i] = k

\* A set of places of a sequence is finite.
LEMMA PlacesFinite ==
  ASSUME NEW n \in Nat, NEW S, S \subseteq 1..n
  PROVE  IsFiniteSet(S) /\ Cardinality(S) \in Nat
<1>1. IsFiniteSet(1..n)
  BY FS_Interval
<1>2. IsFiniteSet(S)
  BY <1>1, FS_Subset
<1>3. QED
  BY <1>2, FS_CardinalityType

\* Places that can be numbered are as many as their numbers at most.
LEMMA NumberedBy ==
  ASSUME NEW n \in Nat, NEW S, NEW f \in [S -> 1..n], \A x, y \in S : x # y => f[x] # f[y]
  PROVE  IsFiniteSet(S) /\ Cardinality(S) \in Nat /\ Cardinality(S) <= n
<1>1. IsFiniteSet(1..n) /\ Cardinality(1..n) = n
  <2>1. 1 \in Int /\ n \in Int
    OBVIOUS
  <2>2. IsFiniteSet(1..n) /\ Cardinality(1..n) = IF 1 > n THEN 0 ELSE n - 1 + 1
    BY <2>1, FS_Interval
  <2>3. QED
    BY <2>2
<1>2. f \in Injection(S, 1..n)
  BY DEF Injection, IsInjective
<1>3. IsFiniteSet(S) /\ Cardinality(S) <= Cardinality(1..n)
  BY <1>1, <1>2, FS_Injection
<1>4. Cardinality(S) \in Nat
  BY <1>3, FS_CardinalityType
<1>5. QED
  BY <1>1, <1>3, <1>4

\* What detect() returns.
LEMMA DetectSorts ==
  ASSUME NEW ds \in Seq(RawDetection), NEW fs \in Detect(ds)
  PROVE  fs \in Seq(Found) /\ \E p : SortedBy(p, fs, ds)
<1> DEFINE passed == {i \in DOMAIN ds : Reported(ds[i])}
           C == Cardinality(passed)
<1>1. Len(ds) \in Nat /\ DOMAIN ds = 1..Len(ds) /\ \A i \in 1..Len(ds) : ds[i] \in RawDetection
  OBVIOUS
<1>2. IsFiniteSet(passed) /\ C \in Nat
  BY <1>1, PlacesFinite
<1>3. PICK p \in SetToSeqs(passed) :
         /\ \A i, j \in DOMAIN p : i < j => ds[p[i]].score >= ds[p[j]].score
         /\ fs = [i \in DOMAIN p |-> Detection(ds[p[i]])]
  BY DEF Detect
<1>4. /\ \A k : k \in passed <=> k \in 1..Len(ds) /\ Reported(ds[k])
  BY <1>1
<1> HIDE DEF passed
<1>5. p \in [1..C -> passed] /\ \A i, j \in 1..C : i # j => p[i] # p[j]
  BY DEF SetToSeqs
<1> HIDE DEF C
<1>6. DOMAIN p = 1..C
  BY <1>5
<1>7. \A i \in 1..C : Detection(ds[p[i]]) \in Found /\ p[i] \in 1..Len(ds) /\ Reported(ds[p[i]])
  BY <1>1, <1>4, <1>5 DEF Found
<1>8. fs \in Seq(Found) /\ Len(fs) = C /\ \A i \in 1..C : fs[i] = Detection(ds[p[i]])
  BY <1>2, <1>3, <1>6, <1>7
<1>9. \A k \in passed : \E i \in 1..C : p[i] = k
  <2>1. IsFiniteSet(1..C) /\ Cardinality(1..C) = C
    <3>1. 1 \in Int /\ C \in Int
      BY <1>2
    <3>2. IsFiniteSet(1..C) /\ Cardinality(1..C) = IF 1 > C THEN 0 ELSE C - 1 + 1
      BY <3>1, FS_Interval
    <3>3. QED
      BY <1>2, <3>2
  <2>2. p \in Injection(1..C, passed)
    BY <1>5 DEF Injection, IsInjective
  <2>3. p \in Surjection(1..C, passed)
    BY <1>2, <2>1, <2>2, FS_Injection DEF C
  <2>4. QED
    BY <2>3 DEF Surjection
<1>10. p \in [1..C -> 1..Len(ds)]
  BY <1>4, <1>5
<1>11. \A i, j \in 1..C : i < j => p[i] # p[j] /\ ds[p[i]].score >= ds[p[j]].score
  <2>1. \A i, j \in 1..C : i < j => i # j
    BY <1>2
  <2>2. QED
    BY <1>3, <1>5, <1>6, <2>1
<1>12. SortedBy(p, fs, ds)
  BY <1>4, <1>7, <1>8, <1>9, <1>10, <1>11 DEF SortedBy
<1>13. QED
  BY <1>8, <1>12

\* The place of a detection: fewer have a higher score, and as many have one no lower.
LEMMA RankIs ==
  ASSUME NEW ds \in Seq(RawDetection), NEW fs \in Seq(Found), NEW p, SortedBy(p, fs, ds), NEW i \in 1..Len(fs)
  PROVE  /\ Better(ds, ds[p[i]].score) \in Nat /\ Better(ds, ds[p[i]].score) <= i - 1
         /\ Contenders(ds, ds[p[i]].score) \in Nat /\ i <= Contenders(ds, ds[p[i]].score)
<1> DEFINE N == Len(fs)
           M == Len(ds)
           sc == ds[p[i]].score
           above == {k \in 1..M : Reported(ds[k]) /\ ds[k].score > sc}
           level == {k \in 1..M : Reported(ds[k]) /\ ds[k].score >= sc}
<1>1. N \in Nat /\ i \in 1..N /\ i \in Nat
  OBVIOUS
<1>2. M \in Nat /\ DOMAIN ds = 1..M
  OBVIOUS
<1>3. \A k \in 1..M : ds[k].score \in Nat
  <2>1. \A k \in 1..M : ds[k] \in RawDetection
    OBVIOUS
  <2>2. \A d \in RawDetection : d.score \in Nat
    BY DEF RawDetection
  <2>3. QED
    BY <2>1, <2>2
<1>4. /\ p \in [1..N -> 1..M]
      /\ \A j \in 1..N : Reported(ds[p[j]])
      /\ \A j, k \in 1..N : j < k => p[j] # p[k] /\ ds[p[j]].score >= ds[p[k]].score
      /\ \A k \in 1..M : Reported(ds[k]) => \E j \in 1..N : p[j] = k
  BY DEF SortedBy
<1>5. Better(ds, sc) = Cardinality(above) /\ Contenders(ds, sc) = Cardinality(level)
  BY <1>2 DEF Better, Contenders
<1>6. sc \in Nat
  BY <1>1, <1>3, <1>4
<1> HIDE DEF N, M, sc
<1>7. Cardinality(above) \in Nat /\ Cardinality(above) <= i - 1
  <2> DEFINE f == [k \in above |-> CHOOSE j \in 1..N : p[j] = k]
  <2>1. ASSUME NEW k \in above
        PROVE  f[k] \in 1..(i - 1) /\ p[f[k]] = k
    <3>1. k \in 1..M /\ Reported(ds[k]) /\ ds[k].score > sc
      OBVIOUS
    <3>2. f[k] \in 1..N /\ p[f[k]] = k
      BY <1>4, <3>1
    <3> HIDE DEF f, above
    <3>3. f[k] # i
      <4>1. SUFFICES ASSUME f[k] = i PROVE FALSE
        OBVIOUS
      <4>2. ds[k].score = sc
        BY <3>2, <4>1 DEF sc
      <4>3. QED
        BY <1>6, <3>1, <4>2
    <3>4. ~(i < f[k])
      <4>1. SUFFICES ASSUME i < f[k] PROVE FALSE
        OBVIOUS
      <4>2. sc >= ds[k].score
        BY <1>1, <1>4, <3>2, <4>1 DEF sc
      <4>3. ds[k].score \in Nat
        BY <1>3, <3>1
      <4>4. QED
        BY <1>6, <3>1, <4>2, <4>3
    <3>5. QED
      BY <1>1, <3>2, <3>3, <3>4
  <2>2. f \in [above -> 1..(i - 1)]
    <3>1. f = [k \in above |-> f[k]]
      OBVIOUS
    <3> HIDE DEF f, above
    <3>2. QED
      BY <2>1, <3>1
  <2> HIDE DEF f, above
  <2>3. \A x, y \in above : x # y => f[x] # f[y]
    BY <2>1
  <2>4. i - 1 \in Nat
    BY <1>1
  <2>5. QED
    BY <2>2, <2>3, <2>4, NumberedBy
<1>8. Cardinality(level) \in Nat /\ i <= Cardinality(level)
  <2> DEFINE f == [j \in 1..i |-> p[j]]
  <2>1. IsFiniteSet(level) /\ Cardinality(level) \in Nat
    BY <1>2, PlacesFinite
  <2>2. ASSUME NEW j \in 1..i
        PROVE  p[j] \in level
    <3>1. j \in 1..N /\ (j = i \/ j < i)
      BY <1>1
    <3>2. p[j] \in 1..M /\ Reported(ds[p[j]])
      BY <1>4, <3>1
    <3>3. ds[p[j]].score >= sc
      <4>1. CASE j = i
        BY <1>6, <4>1 DEF sc
      <4>2. CASE j < i
        BY <1>1, <1>4, <3>1, <4>2 DEF sc
      <4>3. QED
        BY <3>1, <4>1, <4>2
    <3>4. QED
      BY <3>2, <3>3
  <2> HIDE DEF level
  <2>3. f \in [1..i -> level]
    BY <2>2
  <2>4. ASSUME NEW x \in 1..i, NEW y \in 1..i, f[x] = f[y]
        PROVE  x = y
    <3>1. x \in 1..N /\ y \in 1..N /\ p[x] = p[y] /\ x \in Nat /\ y \in Nat
      BY <1>1, <2>4
    <3>2. ~(x < y) /\ ~(y < x)
      BY <1>4, <3>1
    <3>3. QED
      BY <3>1, <3>2
  <2>5. f \in Injection(1..i, level)
    BY <2>3, <2>4 DEF Injection, IsInjective
  <2>6. Cardinality(1..i) <= Cardinality(level)
    BY <2>1, <2>5, FS_Injection
  <2>7. Cardinality(1..i) = i
    <3>1. 1 \in Int /\ i \in Int /\ ~(1 > i)
      BY <1>1
    <3>2. Cardinality(1..i) = IF 1 > i THEN 0 ELSE i - 1 + 1
      BY <3>1, FS_Interval
    <3>3. QED
      BY <1>1, <3>1, <3>2
  <2>8. QED
    BY <2>1, <2>6, <2>7
<1>9. QED
  BY <1>5, <1>7, <1>8 DEF sc

-----------------------------------------------------------------------------
(* From the detections to the readings.                                    *)

\* mid has the readings of the legible ones of the best n of fs, in order: reading i is
\* that of at[i].
ReadBy(at, n, mid, fs) ==
  /\ n <= MaxPlates /\ n <= Len(fs) /\ \A k \in 1..Len(fs) : k <= MaxPlates => k \in 1..n
  /\ mid \in Seq({ReadingOf(d) : d \in Found})
  /\ at \in [1..Len(mid) -> 1..n]
  /\ \A i \in 1..Len(mid) : mid[i] = ReadingOf(fs[at[i]])
  /\ \A i, j \in 1..Len(mid) : i < j => at[i] < at[j]
  /\ \A k \in 1..n : Legible(fs[k]) => \E i \in 1..Len(mid) : at[i] = k

\* What process() returns.
LEMMA ProcessReads ==
  ASSUME NEW fs \in Seq(Found)
  PROVE  \E n \in Nat : \E at : ReadBy(at, n, Process(fs), fs)
<1> DEFINE n == Min({Len(fs), MaxPlates})
           top == SubSeq(fs, 1, n)
           K == {i \in DOMAIN top : Legible(top[i])}
           kept == Collect(top, K)
           rs == Process(fs)
<1>1. Len(fs) \in Nat /\ MaxPlates \in Nat
  BY PipelineAssumption
<1>2. n = IF Len(fs) <= MaxPlates THEN Len(fs) ELSE MaxPlates
  <2>1. Len(fs) \in Int /\ MaxPlates \in Int
    BY <1>1
  <2>2. QED
    BY <2>1, MinPair, Zenon
<1> HIDE DEF n
<1>3. /\ n \in Nat /\ n <= MaxPlates /\ n <= Len(fs) /\ \A k \in 1..Len(fs) : k <= MaxPlates => k \in 1..n
  BY <1>1, <1>2
<1>4. /\ top \in Seq(Found) /\ Len(top) = n /\ DOMAIN top = 1..n
      /\ \A i \in 1..n : top[i] = fs[i]
  BY <1>3
<1>5. rs = [i \in DOMAIN kept |-> ReadingOf(kept[i])]
  BY DEF Process, n
<1> HIDE DEF top, rs
<1>6. \A k : k \in K <=> k \in 1..n /\ Legible(fs[k])
  BY <1>4
<1> HIDE DEF K
<1>7. kept \in Seq(Found)
  BY <1>4, CollectIs
<1>8. PICK at : CollectedBy(at, kept, top, K, Len(top))
  BY <1>4, CollectIs, Zenon
<1> HIDE DEF kept
<1>9. Len(kept) \in Nat /\ DOMAIN kept = 1..Len(kept) /\ \A i \in 1..Len(kept) : kept[i] \in Found
  BY <1>7
<1>10. /\ rs \in Seq({ReadingOf(d) : d \in Found}) /\ Len(rs) = Len(kept)
       /\ \A i \in 1..Len(kept) : rs[i] = ReadingOf(kept[i])
  <2>1. \A i \in 1..Len(kept) : ReadingOf(kept[i]) \in {ReadingOf(d) : d \in Found}
    BY <1>9
  <2>2. rs = [i \in 1..Len(kept) |-> ReadingOf(kept[i])]
    BY <1>5, <1>9
  <2>3. QED
    BY <1>9, <2>1, <2>2
<1>11. /\ at \in [1..Len(rs) -> 1..n]
       /\ \A i \in 1..Len(rs) : at[i] \in K /\ kept[i] = top[at[i]]
       /\ \A i, j \in 1..Len(rs) : i < j => at[i] < at[j]
       /\ \A k \in 1..n : k \in K => \E i \in 1..Len(rs) : at[i] = k
  BY <1>4, <1>8, <1>10 DEF CollectedBy
<1>12. \A i \in 1..Len(rs) : rs[i] = ReadingOf(fs[at[i]])
  <2>1. SUFFICES ASSUME NEW i \in 1..Len(rs) PROVE rs[i] = ReadingOf(fs[at[i]])
    OBVIOUS
  <2>2. at[i] \in 1..n /\ kept[i] = top[at[i]] /\ rs[i] = ReadingOf(kept[i])
    BY <1>10, <1>11
  <2>3. top[at[i]] = fs[at[i]]
    BY <1>4, <2>2
  <2>4. QED
    BY <2>2, <2>3
<1>13. \A k \in 1..n : Legible(fs[k]) => \E i \in 1..Len(rs) : at[i] = k
  BY <1>6, <1>11
<1>14. ReadBy(at, n, rs, fs)
  BY <1>3, <1>10, <1>11, <1>12, <1>13 DEF ReadBy
<1>15. QED
  BY <1>3, <1>14 DEF rs

\* What next() makes of a frame.
LEMMA FrameIsShown ==
  ASSUME NEW ds \in Seq(RawDetection), NEW fs \in Detect(ds)
  PROVE  LET mid == Process(fs)
             rs == Collect(mid, {i \in DOMAIN mid : mid[i].text # <<>>})
         IN Len(rs) <= MaxPlates /\ ShowsFrame(rs, ds)
<1> DEFINE mid == Process(fs)
           K == {i \in DOMAIN mid : mid[i].text # <<>>}
           rs == Collect(mid, K)
           T == {ReadingOf(d) : d \in Found}
           M == Len(ds)
           L == Len(rs)
<1>1. fs \in Seq(Found)
  BY DetectSorts
<1>2. PICK p : SortedBy(p, fs, ds)
  BY DetectSorts
<1>3. Len(fs) \in Nat /\ MaxPlates \in Nat
  BY <1>1, PipelineAssumption
<1>4. M \in Nat /\ DOMAIN ds = 1..M /\ \A k \in 1..M : ds[k] \in RawDetection
  OBVIOUS
<1>5. PICK n \in Nat : \E at : ReadBy(at, n, mid, fs)
  BY <1>1, ProcessReads
<1>6. PICK a1 : ReadBy(a1, n, mid, fs)
  BY <1>5
<1>7. /\ n <= MaxPlates /\ n <= Len(fs) /\ \A k \in 1..Len(fs) : k <= MaxPlates => k \in 1..n
      /\ mid \in Seq(T)
      /\ a1 \in [1..Len(mid) -> 1..n]
      /\ \A i \in 1..Len(mid) : mid[i] = ReadingOf(fs[a1[i]])
      /\ \A i, j \in 1..Len(mid) : i < j => a1[i] < a1[j]
      /\ \A k \in 1..n : Legible(fs[k]) => \E i \in 1..Len(mid) : a1[i] = k
  BY <1>6 DEF ReadBy
<1> HIDE DEF mid, T, M
<1>8. Len(mid) \in Nat /\ DOMAIN mid = 1..Len(mid)
  BY <1>7
<1>9. \A k : k \in K <=> k \in 1..Len(mid) /\ mid[k].text # <<>>
  BY <1>8
<1> HIDE DEF K
<1>10. rs \in Seq(T)
  BY <1>7, CollectIs
<1>11. PICK a2 : CollectedBy(a2, rs, mid, K, Len(mid))
  BY <1>7, CollectIs, Zenon
<1> HIDE DEF rs
<1>12. L \in Nat /\ DOMAIN rs = 1..L
  BY <1>10
<1>13. /\ a2 \in [1..L -> 1..Len(mid)]
       /\ \A i \in 1..L : a2[i] \in K /\ rs[i] = mid[a2[i]]
       /\ \A i, j \in 1..L : i < j => a2[i] < a2[j]
       /\ \A k \in 1..Len(mid) : k \in K => \E i \in 1..L : a2[i] = k
  BY <1>11 DEF CollectedBy
<1> HIDE DEF L
<1>14. /\ p \in [1..Len(fs) -> 1..M]
       /\ \A i \in 1..Len(fs) : Reported(ds[p[i]]) /\ fs[i] = Detection(ds[p[i]])
       /\ \A i, j \in 1..Len(fs) : i < j => p[i] # p[j] /\ ds[p[i]].score >= ds[p[j]].score
       /\ \A k \in 1..M : Reported(ds[k]) => \E i \in 1..Len(fs) : p[i] = k
  BY <1>2 DEF SortedBy, M
<1>15. 1..n \subseteq 1..Len(fs)
  BY <1>3, <1>7
<1> DEFINE pos == [i \in 1..L |-> a1[a2[i]]]
           src == [i \in 1..L |-> p[pos[i]]]
<1>16. pos \in [1..L -> 1..n] /\ \A i \in 1..L : pos[i] = a1[a2[i]] /\ pos[i] \in 1..Len(fs)
  BY <1>7, <1>13, <1>15
<1>17. \A i, j \in 1..L : i < j => pos[i] < pos[j]
  BY <1>7, <1>13
<1> HIDE DEF pos
<1>18. src \in [1..L -> 1..M] /\ \A i \in 1..L : src[i] = p[pos[i]]
  BY <1>14, <1>16
<1> HIDE DEF src
<1>19. ASSUME NEW i \in 1..L
       PROVE  /\ ds[src[i]] \in RawDetection /\ Reported(ds[src[i]])
              /\ rs[i] = ReadingOf(Detection(ds[src[i]])) /\ rs[i].text # <<>>
              /\ rs[i].score = ds[src[i]].score
              /\ rs[i].text = Decode(ds[src[i]].path)
  <2>1. fs[pos[i]] = Detection(ds[src[i]]) /\ Reported(ds[src[i]])
    BY <1>14, <1>16, <1>18
  <2>2. rs[i] = ReadingOf(fs[pos[i]]) /\ rs[i].text # <<>>
    <3>1. a2[i] \in 1..Len(mid) /\ a2[i] \in K /\ rs[i] = mid[a2[i]] /\ pos[i] = a1[a2[i]]
      BY <1>13, <1>16
    <3>2. mid[a2[i]] = ReadingOf(fs[a1[a2[i]]])
      BY <1>7, <3>1
    <3>3. mid[a2[i]].text # <<>>
      BY <1>9, <3>1
    <3>4. QED
      BY <3>1, <3>2, <3>3
  <2>3. ds[src[i]] \in RawDetection
    BY <1>4, <1>18
  <2>4. rs[i] = ReadingOf(Detection(ds[src[i]]))
    BY <2>1, <2>2
  <2>5. rs[i].score = ds[src[i]].score /\ rs[i].text = Decode(ds[src[i]].path)
    BY <2>4 DEF ReadingOf, Detection
  <2>6. QED
    BY <2>1, <2>2, <2>3, <2>4, <2>5
<1>20. ASSUME NEW i \in 1..L
       PROVE  Sound(rs[i], ds[src[i]]) /\ Better(ds, rs[i].score) < MaxPlates
  <2>1. Sound(rs[i], ds[src[i]])
    BY <1>19, ReadingIsSound
  <2>2. /\ Better(ds, ds[p[pos[i]]].score) \in Nat /\ Better(ds, ds[p[pos[i]]].score) <= pos[i] - 1
    BY <1>1, <1>2, <1>16, RankIs
  <2>3. rs[i].score = ds[p[pos[i]]].score
    BY <1>18, <1>19
  <2>4. pos[i] \in Nat /\ pos[i] <= n
    BY <1>16
  <2>5. QED
    BY <1>3, <1>7, <2>1, <2>2, <2>3, <2>4
<1>21. ASSUME NEW i \in 1..L, NEW j \in 1..L, i < j
       PROVE  src[i] # src[j] /\ rs[i].score >= rs[j].score
  <2>1. pos[i] < pos[j] /\ pos[i] \in 1..Len(fs) /\ pos[j] \in 1..Len(fs)
    BY <1>16, <1>17, <1>21
  <2>2. p[pos[i]] # p[pos[j]] /\ ds[p[pos[i]]].score >= ds[p[pos[j]]].score
    BY <1>14, <2>1
  <2>3. QED
    BY <1>18, <1>19, <2>2
<1>22. ASSUME NEW k \in 1..M, Readable(ds[k]), Contenders(ds, ds[k].score) <= MaxPlates
       PROVE  \E i \in 1..L : src[i] = k
  <2>1. /\ Reported(ds[k]) /\ Legible(Detection(ds[k])) /\ ds[k] \in RawDetection
        /\ \E t \in DOMAIN ds[k].path : ds[k].path[t] \in 1..Dictionary
    BY <1>4, <1>22 DEF Readable
  <2>2. PICK m \in 1..Len(fs) : p[m] = k
    BY <1>14, <2>1
  <2>3. Contenders(ds, ds[p[m]].score) \in Nat /\ m <= Contenders(ds, ds[p[m]].score)
    BY <1>1, <1>2, RankIs
  <2>4. m <= MaxPlates
    <3>1. m \in Nat
      OBVIOUS
    <3>2. QED
      BY <1>3, <1>22, <2>2, <2>3, <3>1
  <2>5. m \in 1..n
    BY <1>7, <2>4
  <2>6. fs[m] = Detection(ds[k])
    BY <1>14, <2>2
  <2>7. PICK u \in 1..Len(mid) : a1[u] = m
    BY <1>7, <2>1, <2>5, <2>6
  <2>8. mid[u].text = Decode(ds[k].path)
    <3>1. mid[u] = ReadingOf(Detection(ds[k]))
      BY <1>7, <2>6, <2>7
    <3>2. QED
      BY <3>1 DEF ReadingOf, Detection
  <2>9. ds[k].path \in Seq(Nat)
    BY <2>1 DEF RawDetection
  <2>10. u \in K
    BY <1>9, <2>1, <2>8, <2>9, DecodeSpells
  <2>11. PICK i \in 1..L : a2[i] = u
    BY <1>13, <2>10
  <2>12. pos[i] = m
    BY <1>16, <2>7, <2>11
  <2>13. QED
    BY <1>18, <2>2, <2>12
<1>23. ShowsFrame(rs, ds)
  <2>1. src \in [DOMAIN rs -> DOMAIN ds]
    BY <1>4, <1>12, <1>18
  <2>2. \A i \in DOMAIN rs : Sound(rs[i], ds[src[i]]) /\ Better(ds, rs[i].score) < MaxPlates
    BY <1>12, <1>20
  <2>3. \A i, j \in DOMAIN rs : i < j => src[i] # src[j] /\ rs[i].score >= rs[j].score
    BY <1>12, <1>21
  <2>4. \A k \in DOMAIN ds : Readable(ds[k]) /\ Contenders(ds, ds[k].score) <= MaxPlates
                              => \E i \in DOMAIN rs : src[i] = k
    BY <1>4, <1>12, <1>22
  <2>5. QED
    BY <2>1, <2>2, <2>3, <2>4, Zenon DEF ShowsFrame
<1>24. L <= MaxPlates
  <2>1. ASSUME NEW x \in 1..L, NEW y \in 1..L, x # y
        PROVE  pos[x] # pos[y]
    <3>1. x \in Nat /\ y \in Nat /\ pos[x] \in Nat /\ pos[y] \in Nat
      BY <1>16
    <3>2. x < y \/ y < x
      BY <2>1, <3>1
    <3>3. pos[x] < pos[y] \/ pos[y] < pos[x]
      BY <1>17, <3>2
    <3>4. QED
      BY <3>1, <3>3
  <2>2. Cardinality(1..L) \in Nat /\ Cardinality(1..L) <= n
    BY <1>16, <2>1, NumberedBy
  <2>3. 1 \in Int /\ L \in Int
    BY <1>12
  <2>4. Cardinality(1..L) = IF 1 > L THEN 0 ELSE L - 1 + 1
    BY <2>3, FS_Interval
  <2>5. L <= n
    BY <1>12, <2>2, <2>4
  <2>6. QED
    BY <1>3, <1>7, <1>12, <2>5
<1>25. QED
  BY <1>23, <1>24 DEF rs, K, mid, L

-----------------------------------------------------------------------------
(* The daemon.                                                             *)

Camera == [at : {"idle", "read", "process", "ended"}, emitted : Nat, due : Int, failures : Nat]

AlprTypeOK ==
  /\ camera \in Camera
  /\ clock \in Nat /\ began \in Int /\ raw \in Seq(RawDetection)

\* The deadline counts from the first frame, one interval for every frame asked for, and
\* the last one has passed.
CadenceInv ==
  IF began = Unset
  THEN camera.due = Unset /\ camera.emitted = 0 /\ camera.at \in {"idle", "ended"}
  ELSE /\ began \in Nat /\ camera.due \in Nat /\ clock >= camera.due - Interval
       /\ LET asked == began + camera.emitted * Interval
          IN CASE camera.at = "idle" -> camera.due = asked
               [] camera.at \in {"read", "process"} -> camera.due = asked + Interval
               [] OTHER -> camera.due >= asked

AlprInv ==
  /\ AlprTypeOK /\ CadenceInv /\ ReadingsAreSound
  /\ camera.at = "process" => found \in Detect(raw)

\* There is nothing to read in an empty frame.
LEMMA NothingShown == Len(<<>>) <= MaxPlates /\ ShowsFrame(<<>>, <<>>)
<1>1. MaxPlates \in Nat /\ Len(<<>>) = 0
  BY PipelineAssumption
<1>2. DOMAIN <<>> = {}
  OBVIOUS
<1>3. [i \in {} |-> 0] \in [{} -> {}]
  OBVIOUS
<1>4. ShowsFrame(<<>>, <<>>)
  BY <1>2, <1>3 DEF ShowsFrame
<1>5. QED
  BY <1>1, <1>4

\* It begins with no frame asked for.
LEMMA AlprInitInv == AlprInit => AlprInv
<1> SUFFICES ASSUME AlprInit PROVE AlprInv
  OBVIOUS
<1>1. AlprTypeOK
  BY DEF AlprInit, AlprTypeOK, Camera, Unset
<1>2. CadenceInv
  BY DEF AlprInit, CadenceInv
<1>3. ReadingsAreSound
  BY NothingShown DEF AlprInit, ReadingsAreSound
<1>4. QED
  BY <1>1, <1>2, <1>3 DEF AlprInit, AlprInv

\* A frame is asked for.
LEMMA AskInv ==
  ASSUME AlprInv, AskFrame
  PROVE  AlprInv'
<1>1. /\ camera \in Camera
      /\ clock \in Nat /\ began \in Int /\ raw \in Seq(RawDetection) /\ camera.at = "idle"
  BY DEF AlprInv, AlprTypeOK, AskFrame
<1>2. /\ camera.emitted \in Nat /\ camera.due \in Int
  BY <1>1 DEF Camera
<1>3. Interval \in Nat
  BY PipelineAssumption
<1>4. UNCHANGED <<raw, found, readings>>
  BY DEF AskFrame
<1>5. CASE FrameLimit # 0 /\ camera.emitted >= FrameLimit
  <2>1. camera' = [camera EXCEPT !.at = "ended"] /\ UNCHANGED <<clock, began>>
    BY <1>5 DEF AskFrame
  <2>2. camera'.at = "ended" /\ camera'.due = camera.due /\ camera'.emitted = camera.emitted /\ camera' \in Camera
    BY <1>1, <2>1 DEF Camera
  <2>3. AlprTypeOK'
    BY <1>1, <1>4, <2>1, <2>2 DEF AlprTypeOK
  <2>4. CadenceInv'
    <3>1. CASE began = Unset
      BY <2>1, <2>2, <3>1 DEF AlprInv, CadenceInv
    <3>2. CASE began # Unset
      <4>1. /\ began \in Nat /\ camera.due \in Nat /\ clock >= camera.due - Interval
            /\ camera.due = began + camera.emitted * Interval
        BY <1>1, <3>2 DEF AlprInv, CadenceInv
      <4>2. camera.due >= began + camera.emitted * Interval
        BY <4>1
      <4>3. QED
        BY <2>1, <2>2, <3>2, <4>1, <4>2 DEF CadenceInv
    <3>3. QED
      BY <3>1, <3>2
  <2>5. QED
    BY <1>1, <1>4, <2>2, <2>3, <2>4 DEF AlprInv, ReadingsAreSound
<1>6. CASE ~(FrameLimit # 0 /\ camera.emitted >= FrameLimit)
  <2>1. /\ clock' = Max({clock, camera.due})
        /\ began' = IF began = Unset THEN clock ELSE began
        /\ camera' = [camera EXCEPT !.at = "read", !.due = DueAfter(@, clock), !.failures = 0]
    BY <1>6 DEF AskFrame
  <2>2. /\ camera'.at = "read" /\ camera'.emitted = camera.emitted
        /\ camera'.due = DueAfter(camera.due, clock)
    BY <1>1, <2>1 DEF Camera
  <2>3. clock' = IF clock >= camera.due THEN clock ELSE camera.due
    <3>1. clock \in Int
      BY <1>1
    <3>2. QED
      BY <1>2, <2>1, <3>1, MaxPair
  <2>4. clock' \in Nat /\ clock' >= clock /\ clock' >= camera.due
    BY <1>1, <1>2, <2>3
  <2>5. DueAfter(camera.due, clock) \in Int
    BY <1>1, <1>2, <1>3 DEF DueAfter
  <2>6. AlprTypeOK'
    <3>1. camera' \in Camera
      BY <1>1, <2>1, <2>5 DEF Camera
    <3>2. began' \in Int
      BY <1>1, <2>1
    <3>3. QED
      BY <1>1, <1>4, <2>4, <3>1, <3>2 DEF AlprTypeOK
  <2>7. CadenceInv'
    <3>1. CASE began = Unset
      <4>1. camera.due = Unset /\ camera.emitted = 0
        BY <3>1 DEF AlprInv, CadenceInv
      <4>2. began' = clock /\ camera'.due = clock + Interval /\ camera'.emitted = 0
        BY <2>1, <2>2, <3>1, <4>1 DEF DueAfter
      <4>3. /\ began' # Unset /\ began' \in Nat /\ camera'.due \in Nat
            /\ clock' >= camera'.due - Interval /\ camera'.due = began' + 0 * Interval + Interval
        BY <1>1, <1>3, <2>4, <4>2 DEF Unset
      <4>4. QED
        BY <2>2, <4>2, <4>3 DEF CadenceInv
    <3>2. CASE began # Unset
      <4>1. /\ began \in Nat /\ camera.due \in Nat
            /\ camera.due = began + camera.emitted * Interval
        BY <1>1, <3>2 DEF AlprInv, CadenceInv
      <4>2. camera.due # Unset
        BY <4>1 DEF Unset
      <4>3. began' = began /\ camera'.due = camera.due + Interval
        BY <2>1, <2>2, <3>2, <4>2 DEF DueAfter
      <4>4. camera'.due \in Nat /\ clock' >= camera'.due - Interval
        BY <1>3, <2>4, <4>1, <4>3
      <4>5. QED
        BY <2>2, <3>2, <4>1, <4>3, <4>4 DEF CadenceInv
    <3>3. QED
      BY <3>1, <3>2
  <2>8. QED
    BY <1>1, <1>4, <2>2, <2>6, <2>7 DEF AlprInv, ReadingsAreSound
<1>7. QED
  BY <1>5, <1>6

\* A read fails.
LEMMA FailInv ==
  ASSUME AlprInv, ReadFails
  PROVE  AlprInv'
<1> DEFINE dead == camera.failures + 1 > ReadRetries
<1>1. /\ camera \in Camera
      /\ clock \in Nat /\ began \in Int /\ raw \in Seq(RawDetection) /\ camera.at = "read"
  BY DEF AlprInv, AlprTypeOK, ReadFails
<1>2. /\ camera' = [camera EXCEPT !.failures = @ + 1, !.at = IF dead THEN "ended" ELSE @]
      /\ clock' = IF dead THEN clock ELSE clock + 1
      /\ UNCHANGED <<raw, found, readings, began>>
  BY DEF ReadFails
<1>3. /\ camera'.at \in {"read", "ended"} /\ camera'.due = camera.due
      /\ camera'.emitted = camera.emitted /\ camera.emitted \in Nat
      /\ (camera'.at = "read" \/ camera'.at = "ended")
  BY <1>1, <1>2 DEF Camera
<1>4. clock' \in Nat /\ clock' >= clock
  BY <1>1, <1>2
<1>5. AlprTypeOK'
  <2>1. camera.failures + 1 \in Nat
    BY <1>1 DEF Camera
  <2>2. camera' \in Camera
    BY <1>1, <1>2, <2>1 DEF Camera
  <2>3. QED
    BY <1>1, <1>2, <1>4, <2>2 DEF AlprTypeOK
<1>6. CadenceInv'
  <2>1. /\ began # Unset /\ began \in Nat /\ camera.due \in Nat /\ clock >= camera.due - Interval
        /\ camera.due = began + camera.emitted * Interval + Interval
    BY <1>1 DEF AlprInv, CadenceInv
  <2>2. Interval \in Nat
    BY PipelineAssumption
  <2>3. clock' >= camera.due - Interval
    BY <1>1, <1>4, <2>1, <2>2
  <2>4. camera.due >= began + camera.emitted * Interval
    <3>1. camera.emitted * Interval \in Nat
      BY <1>3, <2>2
    <3>2. QED
      BY <2>1, <2>2, <3>1
  <2>5. QED
    BY <1>2, <1>3, <2>1, <2>3, <2>4 DEF CadenceInv
<1>7. QED
  BY <1>1, <1>2, <1>3, <1>5, <1>6 DEF AlprInv, ReadingsAreSound

\* A frame is read.
LEMMA FrameInv ==
  ASSUME AlprInv, NEW ds \in RawSets, ReadFrame(ds)
  PROVE  AlprInv'
<1>1. /\ camera \in Camera
      /\ clock \in Nat /\ began \in Int /\ camera.at = "read"
  BY DEF AlprInv, AlprTypeOK, ReadFrame
<1>2. /\ camera' = [camera EXCEPT !.at = "process"] /\ raw' = ds /\ found' \in Detect(ds)
      /\ UNCHANGED <<clock, readings, began>>
  BY DEF ReadFrame
<1>3. camera'.at = "process" /\ camera'.due = camera.due /\ camera'.emitted = camera.emitted /\ camera' \in Camera
  BY <1>1, <1>2 DEF Camera
<1>4. ds \in Seq(RawDetection)
  BY PipelineAssumption
<1>5. AlprTypeOK'
  BY <1>1, <1>2, <1>3, <1>4 DEF AlprTypeOK
<1>6. CadenceInv'
  BY <1>1, <1>2, <1>3 DEF AlprInv, CadenceInv
<1>7. QED
  BY <1>2, <1>3, <1>5, <1>6 DEF AlprInv, ReadingsAreSound

\* Its readings are submitted.
LEMMA EmitInv ==
  ASSUME AlprInv, NEW dt \in Stalls, EmitFrame(dt)
  PROVE  AlprInv'
<1>1. /\ camera \in Camera
      /\ clock \in Nat /\ began \in Int /\ raw \in Seq(RawDetection) /\ camera.at = "process"
      /\ found \in Detect(raw)
  BY DEF AlprInv, AlprTypeOK, EmitFrame
<1>2. /\ camera' = [camera EXCEPT !.at = "idle", !.emitted = @ + 1] /\ clock' = clock + dt
      /\ readings' = Collect(Process(found), {i \in DOMAIN Process(found) : Process(found)[i].text # <<>>})
      /\ UNCHANGED <<raw, found, began>>
  BY DEF EmitFrame
<1>3. /\ camera'.at = "idle" /\ camera'.due = camera.due /\ camera'.emitted = camera.emitted + 1
      /\ camera.emitted \in Nat
  BY <1>1, <1>2 DEF Camera
<1>4. dt \in Nat
  BY PipelineAssumption
<1>5. clock' \in Nat /\ clock' >= clock
  BY <1>1, <1>2, <1>4
<1>6. AlprTypeOK'
  <2>1. camera.emitted + 1 \in Nat
    BY <1>3
  <2>2. camera' \in Camera
    BY <1>1, <1>2, <2>1 DEF Camera
  <2>3. QED
    BY <1>1, <1>2, <1>5, <2>2 DEF AlprTypeOK
<1>7. CadenceInv'
  <2>1. /\ began # Unset /\ began \in Nat /\ camera.due \in Nat /\ clock >= camera.due - Interval
        /\ camera.due = began + camera.emitted * Interval + Interval
    BY <1>1 DEF AlprInv, CadenceInv
  <2>2. Interval \in Nat
    BY PipelineAssumption
  <2>3. clock' >= camera.due - Interval
    BY <1>1, <1>5, <2>1, <2>2
  <2>4. (camera.emitted + 1) * Interval = camera.emitted * Interval + Interval /\ camera.emitted * Interval \in Nat
    <3>1. \A m, n \in Nat : (m + 1) * n = m * n + n /\ m * n \in Nat
      OBVIOUS
    <3>2. QED
      BY <1>3, <2>2, <3>1
  <2>5. camera.due = began + (camera.emitted + 1) * Interval
    BY <2>1, <2>2, <2>4
  <2>6. QED
    BY <1>2, <1>3, <2>1, <2>3, <2>5 DEF CadenceInv
<1>8. Len(readings') <= MaxPlates /\ ShowsFrame(readings', raw)
  BY <1>1, <1>2, FrameIsShown
<1>9. QED
  BY <1>2, <1>3, <1>6, <1>7, <1>8 DEF AlprInv, ReadingsAreSound

\* Every reading the daemon submits stands on its own, whatever the frame, the networks'
\* answers and the limits: crop and box inside the frame, its own box's text, the best
\* ones, best first, none left out without a reason; and frames come no faster than the
\* interval on the whole, without a drift (detect, process, expand_box_with_margin, ctc_greedy_decode,
\* CameraSource::next).
THEOREM PipelineCorrect == AlprSpec => []PipelineIsSound
<1>1. AlprInv /\ [AlprNext]_alprVars => AlprInv'
  <2>1. SUFFICES ASSUME AlprInv, [AlprNext]_alprVars PROVE AlprInv'
    OBVIOUS
  <2>2. CASE UNCHANGED alprVars
    BY <2>1, <2>2 DEF alprVars, AlprInv, AlprTypeOK, CadenceInv, ReadingsAreSound
  <2>3. QED
    BY <2>1, <2>2, AskInv, FailInv, FrameInv, EmitInv DEF AlprNext
<1>2. AlprInv => PipelineIsSound
  <2>1. SUFFICES ASSUME AlprInv PROVE PipelineIsSound
    OBVIOUS
  <2>2. ReadingsAreSound
    BY <2>1 DEF AlprInv
  <2>3. CadenceHolds
    <3>1. SUFFICES ASSUME camera.emitted > 0
                   PROVE  /\ clock >= began + (camera.emitted - 1) * Interval
                          /\ camera.at = "idle" => camera.due = began + camera.emitted * Interval
      BY DEF CadenceHolds
    <3>2. /\ camera.emitted \in Nat /\ clock \in Nat /\ Interval \in Nat
          /\ camera.at \in {"idle", "read", "process", "ended"}
      BY <2>1, PipelineAssumption DEF AlprInv, AlprTypeOK, Camera
    <3>3. began # Unset
      BY <2>1, <3>1 DEF AlprInv, CadenceInv
    <3>4. /\ began \in Nat /\ camera.due \in Nat /\ clock >= camera.due - Interval
          /\ \/ camera.due = began + camera.emitted * Interval
             \/ camera.due = began + camera.emitted * Interval + Interval
             \/ camera.due >= began + camera.emitted * Interval
      BY <2>1, <3>2, <3>3 DEF AlprInv, CadenceInv
    <3>5. camera.emitted * Interval = (camera.emitted - 1) * Interval + Interval /\ camera.emitted * Interval \in Nat
      BY <3>1, <3>2
    <3>6. PICK m \in Nat : m = camera.emitted * Interval
      BY <3>5
    <3>7. camera.due >= began + m
      BY <3>2, <3>4, <3>6
    <3>8. (camera.emitted - 1) * Interval = m - Interval
      BY <3>1, <3>2, <3>5, <3>6
    <3>9. clock >= began + (camera.emitted - 1) * Interval
      BY <3>2, <3>4, <3>7, <3>8
    <3>10. camera.at = "idle" => camera.due = began + camera.emitted * Interval
      BY <2>1, <3>3 DEF AlprInv, CadenceInv
    <3>11. QED
      BY <3>9, <3>10
  <2>4. QED
    BY <2>2, <2>3 DEF PipelineIsSound
<1>3. QED
  BY <1>1, <1>2, AlprInitInv, PTL DEF AlprSpec

-----------------------------------------------------------------------------
(* The parts side by side.                                                 *)

\* Each part runs in Parts as it does alone: a step of another part leaves it where it
\* is.
THEOREM PartsRunAlone ==
  Spec => /\ OtaSpec /\ LedSpec /\ GrpcSpec /\ EthSpec
          /\ AlprSpec /\ AdminSpec /\ ScenarioSpec /\ FeedSpec
<1>1. Init => /\ OtaInit /\ LedInit /\ GrpcInit /\ EthInit
              /\ AlprInit /\ AdminInit /\ ScenarioInit /\ FeedInit
  BY DEF Init
<1>2. [Next]_vars => [OtaNext]_otaVars
  BY DEF Next, Only, vars
<1>3. [Next]_vars => [LedNext]_ledVars
  BY DEF Next, Only, vars
<1>4. [Next]_vars => [EthNext]_ethVars
  BY DEF Next, Only, vars
<1>5. [Next]_vars => [AdminNext]_adminVars
  BY DEF Next, Only, vars
<1>6. [Next]_vars => [ScenarioNext]_scenarioVars
  BY DEF Next, Only, vars
<1>7. [Next]_vars => [FeedNext]_feedVars
  BY DEF Next, Only, vars
<1>8. [Next]_vars => [GrpcNext]_grpcVars
  BY DEF Next, Only, vars
<1>9. [Next]_vars => [AlprNext]_alprVars
  BY DEF Next, Only, vars
<1>10. QED
  BY <1>1, <1>2, <1>3, <1>4, <1>5, <1>6, <1>7, <1>8, <1>9, PTL
     DEF Spec, OtaSpec, LedSpec, GrpcSpec, EthSpec, AlprSpec, AdminSpec, ScenarioSpec, FeedSpec

\* So what is proved of each alone holds of all of them side by side.
THEOREM PartsCorrect ==
  Spec => [](/\ NextBootIsSound /\ LedShowsPattern /\ StreamIsExact /\ NetworkIsNoticed
             /\ PipelineIsSound /\ CallsAreSound /\ ReplayIsFaithful /\ FeedIsSound)
  BY PartsRunAlone, NextBootCorrect, LedCorrect, StreamCorrect, NetworkNoticed, PipelineCorrect,
     AdminCorrect, ReplayCorrect, FeedCorrect, PTL

=============================================================================
