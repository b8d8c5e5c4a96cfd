----------------------------- MODULE NotifyProofs -----------------------------
(***************************************************************************)
(* Proofs about Notify, for any number of workers, accounts, messages and  *)
(* reports: no call goes out with a token that has ended, a report changes *)
(* the task whose message it is about, a success is one that a provider    *)
(* carried, a webhook waits as long as an application asked for, and each  *)
(* value on the wire is in its place.                                      *)
(***************************************************************************)
EXTENDS Notify, WellFoundedInduction, TLAPS

-----------------------------------------------------------------------------
(* The invariant *)

\* The lifetimes for which 200 seconds are taken off.
LongLived == \A rest \in Rests : rest > Margin

\* A token a worker has had for no longer than Slack.
Recent(k) ==
  /\ k.since \in Nat /\ k.token \in Nat
  /\ k.since <= now /\ now <= k.since + Slack

\* The token a worker stores has its life before it; the one it uses outlasts
\* the time until the worker has used it.
Fit(k) ==
  /\ k.pc = "store" => Recent(k) /\ k.token > k.since + Margin
  /\ k.pc = "call" /\ k.token # None => Recent(k) /\ k.token > k.since + Slack

\* The cache lets go of a token before it is too old to be used.
Fresher(entry) ==
  /\ entry.until \in Int /\ entry.expires \in Nat
  /\ entry.until + Slack <= entry.expires

Tokens ==
  /\ now \in Nat
  /\ \A w \in Workers : Fit(work[w])
  /\ \A a \in DOMAIN cache : cache[a] # None => Fresher(cache[a])
  /\ stale = FALSE

\* Whoever has a task has one of the tasks, and whoever has a token one for an
\* account.
Known ==
  /\ account \in Fleets /\ DOMAIN cache = DOMAIN account
  /\ work = [w \in Workers |-> work[w]] /\ request = [r \in Requests |-> request[r]]
  /\ queued \subseteq Tasks
  /\ \A l \in logs : l.task \in Tasks
  /\ \A r \in Requests : request[r].pc = "apply" => request[r].task \in Tasks
  /\ \A w \in Workers :
       /\ work[w].pc # "idle" => work[w].task \in Tasks
       /\ work[w].pc \in {"token", "fetch", "store", "call"}
            => work[w].account \in DOMAIN account

Inv == Known /\ Tokens

-----------------------------------------------------------------------------
(* Every step keeps it *)

\* The initial states have no tokens.
LEMMA InitInv == Init => Inv
<1> SUFFICES ASSUME Init PROVE Inv
  OBVIOUS
<1>1. Idle.pc = "idle"
  BY DEF Idle, Sending
<1>2. Fresh.pc = "new"
  BY DEF Fresh, Reading
<1> HIDE DEF Idle, Fresh
<1>3. Known
  BY <1>1, <1>2 DEF Init, Known
<1>4. Tokens
  BY <1>1 DEF Init, Tokens, Fit
<1> QED BY <1>3, <1>4 DEF Inv

\* A worker whose place is taken by one that is known and fits.
LEMMA ReplacedKnown ==
  ASSUME Inv, NEW w \in Workers, NEW k, work' = [work EXCEPT ![w] = k],
         k.pc # "idle" => k.task \in Tasks,
         k.pc \in {"token", "fetch", "store", "call"} => k.account \in DOMAIN account,
         UNCHANGED <<account, request>>, DOMAIN cache' = DOMAIN cache,
         queued' \subseteq Tasks, \A l \in logs' : l.task \in Tasks
  PROVE  Known'
<1>1. \A v \in Workers : work'[v] = IF v = w THEN k ELSE work[v]
  BY DEF Inv, Known
<1>2. work' = [v \in Workers |-> work'[v]]
  BY DEF Inv, Known
<1> QED BY <1>1, <1>2 DEF Inv, Known

LEMMA ReplacedFits ==
  ASSUME Inv, NEW w \in Workers, NEW k, work' = [work EXCEPT ![w] = k],
         UNCHANGED now, Fit(k), NEW v \in Workers
  PROVE  Fit(work[v])'
<1>1. work'[v] = IF v = w THEN k ELSE work[v]
  BY DEF Inv, Known
<1> QED BY <1>1 DEF Inv, Tokens, Fit, Recent

\* The parts of the state Known is about that a worker's step leaves alone.
Still == UNCHANGED <<now, account, request>>

\* A step of a worker on its way to the provider.
LEMMA ProceedKeeps ==
  ASSUME Inv, NEW w \in Workers, NEW pc, NEW token, NEW since, Proceed(w, pc, token, since),
         work[w].pc \in {"token", "fetch", "store"}, pc # "idle",
         Fit(Sending(pc, work[w].task, work[w].account, work[w].binding, token, since)),
         Still, UNCHANGED <<queued, logs, stale>>, DOMAIN cache' = DOMAIN cache,
         \A a \in DOMAIN cache : cache'[a] # None => Fresher(cache'[a])
  PROVE  Inv'
<1> DEFINE k == Sending(pc, work[w].task, work[w].account, work[w].binding, token, since)
<1>1. /\ work' = [work EXCEPT ![w] = k] /\ Fit(k)
      /\ k.task = work[w].task /\ k.account = work[w].account
  BY DEF Proceed, Sending
<1>2. k.task \in Tasks /\ k.account \in DOMAIN account
  BY <1>1 DEF Inv, Known
<1> HIDE DEF k
<1>3. Known'
  BY <1>1, <1>2, ReplacedKnown DEF Inv, Known, Still
<1>4. \A v \in Workers : Fit(work[v])'
  BY <1>1, ReplacedFits DEF Still
<1> QED BY <1>3, <1>4 DEF Inv, Tokens, Fresher, Still

\* A step of a worker that holds no token any more, or not yet.
LEMMA AnsweredKeeps ==
  ASSUME Inv, NEW w \in Workers, NEW k, work' = [work EXCEPT ![w] = k],
         k.pc # "idle" => k.task \in Tasks,
         k.pc \in {"token", "fetch", "store", "call"} => k.account \in DOMAIN account,
         k.pc # "store", k.token = None,
         Still, UNCHANGED <<cache, stale>>,
         queued' \subseteq Tasks, \A l \in logs' : l.task \in Tasks
  PROVE  Inv'
<1>1. Known'
  BY ReplacedKnown DEF Inv, Known, Still
<1>2. Fit(k)
  BY DEF Fit
<1>3. \A v \in Workers : Fit(work[v])'
  BY <1>2, ReplacedFits DEF Still
<1> QED BY <1>1, <1>3 DEF Inv, Tokens, Fresher, Still

\* A log is of the task it is written for.
LEMMA LoggedKnown ==
  ASSUME Known, NEW t \in Tasks, NEW id, Logged(t, id)
  PROVE  \A l \in logs' : l.task \in Tasks
BY DEF Known, Logged

\* A rule pushes the task it is about, and no other.
LEMMA ExecuteKnown ==
  ASSUME Known, NEW t \in Tasks, NEW action, NEW old, Execute(action, t, old)
  PROVE  queued' \subseteq Tasks /\ \A l \in logs' : l.task \in Tasks
BY LoggedKnown DEF Known, Execute

\* Every step of a worker.
LEMMA StepKeeps ==
  ASSUME LongLived, Inv, NEW w \in Workers, Step(w)
  PROVE  Inv'
<1> USE DEF reportVars, Still
<1>1. CASE Begin(w)
  <2>1. PICK t \in queued : \E a \in Via[t], b \in DOMAIN Bindings :
          /\ queued' = queued \ {t}
          /\ work' = [work EXCEPT ![w] = Sending(Entry(a), t, a, b, None, 0)]
    BY <1>1 DEF Begin
  <2>2. PICK a \in Via[t], b \in DOMAIN Bindings :
          work' = [work EXCEPT ![w] = Sending(Entry(a), t, a, b, None, 0)]
    BY <2>1
  <2>3. t \in Tasks /\ a \in DOMAIN account
    BY <2>2, SendersAssumption DEF Inv, Known
  <2>4. Entry(a) # "store"
    BY DEF Entry
  <2> DEFINE k == Sending(Entry(a), t, a, b, None, 0)
  <2>5. k.task = t /\ k.account = a /\ k.pc = Entry(a) /\ k.token = None
    BY DEF Sending
  <2> HIDE DEF k
  <2>6. queued' \subseteq Tasks /\ \A l \in logs' : l.task \in Tasks
    BY <1>1, <2>1 DEF Begin, Inv, Known
  <2>7. work' = [work EXCEPT ![w] = k] /\ Still /\ UNCHANGED <<cache, stale>>
    BY <1>1, <2>2 DEF Begin, k
  <2> QED BY <2>3, <2>4, <2>5, <2>6, <2>7, AnsweredKeeps
<1>2. CASE GetToken(w)
  <2>1. work[w].pc = "token" /\ Still /\ UNCHANGED <<queued, logs, stale, cache>>
    BY <1>2 DEF GetToken
  <2>2. \A a \in DOMAIN cache : cache'[a] # None => Fresher(cache'[a])
    BY <2>1 DEF Inv, Tokens
  <2>3. CASE Proceed(w, "fetch", None, 0)
    <3>1. Fit(Sending("fetch", work[w].task, work[w].account, work[w].binding, None, 0))
      BY DEF Fit, Sending
    <3> QED BY <2>1, <2>2, <2>3, <3>1, ProceedKeeps
  <2>4. CASE /\ Cached(work[w].account)
             /\ Proceed(w, "call", cache[work[w].account].expires, now)
    <3>1. Fresher(cache[work[w].account])
      BY <2>1, <2>4 DEF Cached, Inv, Known, Tokens
    <3>2. Fit(Sending("call", work[w].task, work[w].account, work[w].binding,
                      cache[work[w].account].expires, now))
      BY <2>4, <3>1, MarginAssumption
         DEF Cached, Fresher, Fit, Recent, Sending, Inv, Tokens
    <3> QED BY <2>1, <2>2, <2>4, <3>2, ProceedKeeps
  <2> QED BY <1>2, <2>3, <2>4 DEF GetToken
<1>3. CASE FetchToken(w)
  <2>1. work[w].pc = "fetch" /\ Still /\ UNCHANGED <<queued, logs, stale, cache>>
    BY <1>3 DEF FetchToken
  <2>2. \A a \in DOMAIN cache : cache'[a] # None => Fresher(cache'[a])
    BY <2>1 DEF Inv, Tokens
  <2>3. CASE Proceed(w, "abort", None, 0)
    <3>1. Fit(Sending("abort", work[w].task, work[w].account, work[w].binding, None, 0))
      BY DEF Fit, Sending
    <3> QED BY <2>1, <2>2, <2>3, <3>1, ProceedKeeps
  <2>4. ASSUME NEW rest \in Rests, Proceed(w, "store", now + rest, now) PROVE Inv'
    <3>1. rest \in Nat /\ rest > Margin
      BY MarginAssumption DEF LongLived
    <3>2. Fit(Sending("store", work[w].task, work[w].account, work[w].binding,
                      now + rest, now))
      BY <3>1, MarginAssumption DEF Fit, Recent, Sending, Inv, Tokens
    <3> QED BY <2>1, <2>2, <2>4, <3>2, ProceedKeeps
  <2> QED BY <1>3, <2>3, <2>4 DEF FetchToken
<1>4. CASE StoreToken(w)
  <2>1. /\ work[w].pc = "store" /\ Still /\ UNCHANGED <<queued, logs, stale>>
        /\ Proceed(w, "call", work[w].token, now)
    BY <1>4 DEF StoreToken
  <2>2. Recent(work[w]) /\ work[w].token > work[w].since + Margin
    BY <2>1 DEF Inv, Tokens, Fit
  <2>3. Fit(Sending("call", work[w].task, work[w].account, work[w].binding,
                    work[w].token, now))
    BY <2>2, MarginAssumption DEF Fit, Recent, Sending, Inv, Tokens
  <2> DEFINE entry == [expires |-> work[w].token,
                       until |-> Until(work[w].token, work[w].token - work[w].since)]
  <2>4. cache' = [cache EXCEPT ![work[w].account] = entry] \/ cache' = cache
    BY <1>4 DEF StoreToken
  <2>5. Fresher(entry)
    <3>1. entry.expires = work[w].token
      OBVIOUS
    <3>2. entry.until = now + (work[w].token - work[w].since) - Margin
      BY <2>2, MarginAssumption DEF Until, Recent
    <3> HIDE DEF entry
    <3> QED BY <2>2, <3>1, <3>2, MarginAssumption DEF Fresher, Recent, Inv, Tokens
  <2> HIDE DEF entry
  <2>6. DOMAIN cache' = DOMAIN cache
    BY <2>4
  <2>7. \A a \in DOMAIN cache : cache'[a] # None => Fresher(cache'[a])
    BY <2>4, <2>5 DEF Inv, Tokens
  <2> QED BY <2>1, <2>3, <2>6, <2>7, ProceedKeeps
<1>5. CASE Call(w)
  <2>1. /\ work[w].pc = "call" /\ stale' = (stale \/ Ended(work[w]))
        /\ Still /\ UNCHANGED <<cache, queued, logs>>
    BY <1>5 DEF Call
  <2>2. PICK res, wire :
          work' = [work EXCEPT ![w] = Answered(Exit(res), work[w].task, work[w].binding, res, wire)]
    BY <1>5 DEF Call
  <2>3. ~Ended(work[w])
    BY <2>1, MarginAssumption DEF Ended, Inv, Tokens, Fit, Recent
  <2>4. stale' = stale
    BY <2>1, <2>3 DEF Inv, Tokens
  <2> DEFINE k == Answered(Exit(res), work[w].task, work[w].binding, res, wire)
  <2>5. k.task = work[w].task /\ k.token = None /\ k.pc = Exit(res)
    BY DEF Answered
  <2>6. Exit(res) \in {"evaluate", "abort", "save"}
    BY DEF Exit
  <2>7. work' = [work EXCEPT ![w] = k]
    BY <2>2
  <2> HIDE DEF k
  <2>8. work[w].task \in Tasks /\ queued' \subseteq Tasks /\ \A l \in logs' : l.task \in Tasks
    BY <2>1 DEF Inv, Known
  <2> QED BY <2>1, <2>4, <2>5, <2>6, <2>7, <2>8, AnsweredKeeps
<1>6. CASE Save(w)
  <2> DEFINE k == Answered("log", work[w].task, work[w].binding, work[w].res, <<>>)
  <2>1. /\ work' = [work EXCEPT ![w] = k] /\ Still
        /\ UNCHANGED <<cache, stale, queued, logs>> /\ work[w].pc = "save"
    BY <1>6 DEF Save
  <2>2. k.task = work[w].task /\ k.token = None /\ k.pc = "log"
    BY DEF Answered
  <2> HIDE DEF k
  <2>3. work[w].task \in Tasks /\ queued' \subseteq Tasks /\ \A l \in logs' : l.task \in Tasks
    BY <2>1 DEF Inv, Known
  <2> QED BY <2>1, <2>2, <2>3, AnsweredKeeps
<1>7. CASE Record(w) \/ Evaluate(w) \/ Abort(w)
  <2>1. /\ work' = [work EXCEPT ![w] = Idle] /\ Still /\ UNCHANGED <<cache, stale>>
        /\ work[w].pc # "idle"
    BY <1>7 DEF Record, Evaluate, Abort
  <2>2. Idle.pc = "idle" /\ Idle.token = None
    BY DEF Idle, Sending
  <2> HIDE DEF Idle
  <2>3. work[w].task \in Tasks
    BY <2>1 DEF Inv, Known
  <2>4. queued' \subseteq Tasks /\ \A l \in logs' : l.task \in Tasks
    <3>1. CASE Record(w)
      BY <2>3, <3>1, LoggedKnown DEF Record, Inv, Known
    <3>2. CASE Evaluate(w)
      BY <2>3, <3>2, ExecuteKnown DEF Evaluate, Inv
    <3>3. CASE Abort(w)
      BY <2>3, <3>3, LoggedKnown DEF Abort, Inv, Known
    <3> QED BY <1>7, <3>1, <3>2, <3>3
  <2> QED BY <2>1, <2>2, <2>4, AnsweredKeeps
<1> QED BY <1>1, <1>2, <1>3, <1>4, <1>5, <1>6, <1>7 DEF Step

\* The reports change neither workers nor tokens; what they push again is a task.
LEMMA ReportKeeps ==
  ASSUME Inv, NEW r \in Requests, Report(r)
  PROVE  Inv'
<1> USE DEF workVars
<1>1. UNCHANGED <<now, account, cache, work, stale>>
  BY DEF Report, Receive, Find, ApplyDelivered, ApplyFailed
<1>2. Tokens'
  BY <1>1 DEF Inv, Tokens, Fit, Recent, Fresher
<1>3. queued' \subseteq Tasks /\ \A l \in logs' : l.task \in Tasks
  <2>1. CASE ApplyFailed(r)
    <3>1. request[r].task \in Tasks
      BY <2>1 DEF ApplyFailed, Inv, Known
    <3>2. PICK action \in CallbackActions :
            \/ Execute(action, request[r].task, request[r].old)
            \/ /\ queued' = IF action = "retry" THEN queued \cup {request[r].task} ELSE queued
               /\ Logged(request[r].task, NoId)
      BY <2>1 DEF ApplyFailed
    <3> QED BY <3>1, <3>2, ExecuteKnown, LoggedKnown DEF Inv, Known
  <2>2. CASE Receive(r) \/ Find(r) \/ ApplyDelivered(r)
    BY <2>2 DEF Receive, Find, ApplyDelivered, Inv, Known
  <2> QED BY <2>1, <2>2 DEF Report
<1>4. PICK q : request' = [request EXCEPT ![r] = q] /\ (q.pc = "apply" => q.task \in Tasks)
  <2>1. Done(request[r]).pc # "apply"
    BY DEF Done, Reading
  <2>2. CASE Receive(r)
    <3>1. PICK a, results :
            request' = [request EXCEPT ![r] =
              IF results = <<>> THEN Reading("end", a, <<>>, 1, None, "", 10)
              ELSE Reading("find", a, results, 1, None, "", 10)]
      <4>1. PICK a \in {m.account : m \in taken} : \E body \in Bodies(a) :
              request' = [request EXCEPT ![r] =
                IF Callback(account[a].code, body) = <<>>
                THEN Reading("end", a, <<>>, 1, None, "", 10)
                ELSE Reading("find", a, Callback(account[a].code, body), 1, None, "", 10)]
        BY <2>2, Zenon DEF Receive
      <4>2. PICK body \in Bodies(a) :
              request' = [request EXCEPT ![r] =
                IF Callback(account[a].code, body) = <<>>
                THEN Reading("end", a, <<>>, 1, None, "", 10)
                ELSE Reading("find", a, Callback(account[a].code, body), 1, None, "", 10)]
        BY <4>1, Zenon
      <4> QED BY <4>2, Zenon
    <3> DEFINE q == IF results = <<>> THEN Reading("end", a, <<>>, 1, None, "", 10)
                    ELSE Reading("find", a, results, 1, None, "", 10)
    <3>2. q.pc # "apply"
      BY DEF Reading
    <3>3. request' = [request EXCEPT ![r] = q]
      BY <3>1
    <3> HIDE DEF q
    <3> QED BY <3>2, <3>3
  <2>3. CASE Find(r)
    <3>1. CASE request' = [request EXCEPT ![r] = Done(request[r])]
      BY <2>1, <3>1
    <3>2. ASSUME NEW l \in logs,
                 request' = [request EXCEPT ![r] =
                   Reading("apply", request[r].account, request[r].results, request[r].at,
                           l.task, row[l.task], request[r].timeout)]
          PROVE \E q : request' = [request EXCEPT ![r] = q] /\ (q.pc = "apply" => q.task \in Tasks)
      <4> DEFINE q == Reading("apply", request[r].account, request[r].results, request[r].at,
                              l.task, row[l.task], request[r].timeout)
      <4>1. q.task \in Tasks
        BY DEF Reading, Inv, Known
      <4>2. request' = [request EXCEPT ![r] = q]
        BY <3>2
      <4> HIDE DEF q
      <4> QED BY <4>1, <4>2
    <3> QED BY <2>3, <3>1, <3>2, Zenon DEF Find, LogOf
  <2>4. CASE ApplyDelivered(r)
    BY <2>1, <2>4 DEF ApplyDelivered
  <2>5. CASE ApplyFailed(r)
    BY <2>1, <2>5 DEF ApplyFailed
  <2> QED BY <2>2, <2>3, <2>4, <2>5 DEF Report
<1>5. Known'
  BY <1>1, <1>3, <1>4 DEF Inv, Known
<1> QED BY <1>2, <1>5 DEF Inv

\* So do the goroutines that call the application; they set a timeout.
LEMMA WebhookKeeps ==
  ASSUME Inv, NEW h \in Hooks, Webhook(h)
  PROVE  Inv'
<1>1. UNCHANGED <<now, account, cache, work, stale, queued, logs>>
  BY DEF Webhook, Start, Post, HookLost, workVars
<1>2. \/ request' = request
      \/ \E q : /\ request' = [request EXCEPT ![h[1]] = q]
               /\ q.pc = request[h[1]].pc /\ q.task = request[h[1]].task
  <2>1. CASE Post(h) \/ HookLost(h) \/ UNCHANGED request
    BY <2>1 DEF Post, HookLost, reportVars
  <2>2. ASSUME NEW timeout, NEW k,
               k = Reading(request[h[1]].pc, request[h[1]].account, request[h[1]].results,
                           request[h[1]].at, request[h[1]].task, request[h[1]].old, timeout),
               request' = [request EXCEPT ![h[1]] = k]
        PROVE \E q : /\ request' = [request EXCEPT ![h[1]] = q]
                     /\ q.pc = request[h[1]].pc /\ q.task = request[h[1]].task
    <3>1. k.pc = request[h[1]].pc /\ k.task = request[h[1]].task
      BY <2>2 DEF Reading
    <3> QED BY <2>2, <3>1
  <2> QED BY <2>1, <2>2 DEF Webhook, Start
<1>3. request' = [x \in Requests |-> request'[x]]
  BY <1>2 DEF Inv, Known
<1>4. \A x \in Requests : request'[x].pc = request[x].pc /\ request'[x].task = request[x].task
  BY <1>2 DEF Inv, Known
<1> QED BY <1>1, <1>3, <1>4 DEF Inv, Known, Tokens, Fit, Recent, Fresher

-----------------------------------------------------------------------------
(* The theorem *)

\* The invariant is inductive.
LEMMA NextInv == LongLived /\ Inv /\ [Next]_vars => Inv'
<1> SUFFICES ASSUME LongLived, Inv, [Next]_vars PROVE Inv'
  OBVIOUS
<1>1. CASE Tick
  <2>1. now \in Nat /\ now' = now + 1
    BY <1>1 DEF Tick, Inv, Tokens
  <2>2. UNCHANGED <<account, cache, work, stale, queued, logs, request>>
    BY <1>1 DEF Tick, workVars, reportVars
  <2>3. \A w \in Workers : Fit(work[w])'
    BY <1>1, <2>1, <2>2, MarginAssumption DEF Tick, Inv, Tokens, Fit, Recent
  <2> QED BY <2>1, <2>2, <2>3 DEF Inv, Known, Tokens, Fresher
<1>2. ASSUME NEW w \in Workers, Step(w) PROVE Inv'
  BY <1>2, StepKeeps
<1>3. ASSUME NEW r \in Requests, Report(r) PROVE Inv'
  BY <1>3, ReportKeeps
<1>4. ASSUME NEW h \in Hooks, Webhook(h) PROVE Inv'
  BY <1>4, WebhookKeeps
<1>5. CASE UNCHANGED vars
  BY <1>5 DEF vars, workVars, reportVars, Inv, Known, Tokens, Fit, Recent, Fresher
<1> QED BY <1>1, <1>2, <1>3, <1>4, <1>5 DEF Next

\* No call goes out with a token that has ended, as long as providers give out
\* tokens that live for longer than what getAccessToken takes off before it
\* caches them: whichever workers fetch, store and read tokens of whichever
\* accounts at the same time (dingtalk_sender.go, wechat_work_sender.go).
THEOREM TokenWorksAlways == ASSUME LongLived PROVE Spec => []TokenWorks
<1>1. Inv => TokenWorks
  BY DEF Inv, Tokens, TokenWorks
<1>2. Inv /\ [Next]_vars => Inv'
  BY LongLived, NextInv
<1> QED BY InitInv, <1>1, <1>2, PTL DEF Spec

-----------------------------------------------------------------------------
(* Reports, rows and logs: the invariant *)

\* A chat service that names no error names the message it took. Otherwise a
\* success would be taken from an answer that has nothing in it.
Named == \A code \in {"dingtalk", "wechat_work"} : "empty" \notin Answers[code]

Sent(t, id) == \E m \in taken : m.task = t /\ m.id = id

\* An id in a log of t is no id at all, one made up, or that of a message of t.
Traced(t, id) == id \in {NoId, ZeroId, <<"smtp", t>>} \/ Sent(t, id)

Chat == {"dingtalk", "wechat_work", "smtp"}

Carried(t) ==
  \E m \in taken :
    /\ m.task = t
    /\ \/ account[m.account].code \in Chat
       \/ m.id \in DOMAIN verdict /\ verdict[m.id] = "ok"

\* A result is about a message some provider took, and says what it says of it.
Confirmed(x) ==
  /\ x.status \in {"delivered", "failed", "rejected"}
  /\ x.id # NoId => \E m \in taken : m.id = x.id
  /\ x.status = "delivered" =>
       x.id # NoId /\ x.id \in DOMAIN verdict /\ verdict[x.id] = "ok"

Messages ==
  \A m \in taken :
    m.task \in Tasks /\ m.account \in DOMAIN account /\ \E n : m.id = <<m.account, n>>

\* What a worker has in hand.
WorkOK(k) ==
  /\ k.pc \in {"idle", "token", "fetch", "store", "call", "save", "log", "evaluate", "abort"}
  /\ k.pc # "idle" => k.task \in Tasks
  /\ k.pc \in {"token", "fetch", "store", "call"} =>
       /\ k.account \in DOMAIN account
       /\ NeedsToken(account[k.account]) => Usable(account[k.account])
  /\ k.pc \in {"save", "log"} =>
       /\ k.res.status \in {"sent", "success"}
       /\ Traced(k.task, k.res.id)
       /\ Named /\ k.res.status = "success" => Carried(k.task)

\* What a callback request has in hand.
ReadOK(q) ==
  /\ q.pc \in {"new", "find", "apply", "end"} /\ q.at \in 1..2
  /\ q.pc \in {"find", "apply"} =>
       /\ Len(q.results) \in 1..2 /\ q.at <= Len(q.results)
       /\ \A n \in 1..Len(q.results) : Confirmed(q.results[n])
  /\ q.pc = "apply" =>
       /\ q.task \in Tasks /\ q.old \in Outcomes
       /\ Traced(q.task, q.results[q.at].id)
       /\ Named /\ q.old = "success" => Carried(q.task)

LogsOK == \A l \in logs : l.task \in Tasks /\ Traced(l.task, l.id)

RowsOK ==
  /\ row \in [Tasks -> Outcomes]
  /\ Named => \A t \in Tasks : row[t] = "success" => Carried(t)

TouchedOK ==
  /\ touched = [t \in Tasks |-> touched[t]]
  /\ \A t \in Tasks : \A id \in touched[t] : id # NoId => Sent(t, id)

CarryInv ==
  /\ account \in Fleets /\ queued \subseteq Tasks /\ faults \in 0..MaxFaults
  /\ Messages /\ LogsOK /\ RowsOK /\ TouchedOK
  /\ work = [w \in Workers |-> work[w]] /\ \A w \in Workers : WorkOK(work[w])
  /\ request = [r \in Requests |-> request[r]]
  /\ \A r \in Requests : ReadOK(request[r])

-----------------------------------------------------------------------------
(* Messages are only added, and no provider takes back what it said *)

Grows ==
  /\ account' = account /\ taken \subseteq taken'
  /\ DOMAIN verdict \subseteq DOMAIN verdict'
  /\ \A id \in DOMAIN verdict : verdict'[id] = verdict[id]

LEMMA GrowTraced ==
  ASSUME Grows, NEW t, NEW id
  PROVE  /\ Sent(t, id) => Sent(t, id)'
         /\ Traced(t, id) => Traced(t, id)'
         /\ Carried(t) => Carried(t)'
<1>1. Sent(t, id) => Sent(t, id)'
  BY DEF Grows, Sent
<1>2. Carried(t) => Carried(t)'
  BY DEF Grows, Carried
<1> QED BY <1>1, <1>2 DEF Traced

LEMMA GrowConfirmed ==
  ASSUME Grows, NEW x, Confirmed(x)
  PROVE  Confirmed(x)'
BY DEF Grows, Confirmed

LEMMA GrowWork ==
  ASSUME Grows, NEW k, WorkOK(k)
  PROVE  WorkOK(k)'
BY GrowTraced DEF WorkOK, Grows, NeedsToken, Usable

LEMMA GrowRead ==
  ASSUME Grows, NEW q, ReadOK(q)
  PROVE  ReadOK(q)'
<1>1. \A n \in 1..Len(q.results) : Confirmed(q.results[n]) => Confirmed(q.results[n])'
  BY GrowConfirmed
<1> QED BY <1>1, GrowTraced DEF ReadOK

LEMMA GrowLogs ==
  ASSUME Grows, LogsOK, UNCHANGED logs
  PROVE  LogsOK'
BY GrowTraced DEF LogsOK

LEMMA GrowTouched ==
  ASSUME Grows, TouchedOK, UNCHANGED touched
  PROVE  TouchedOK'
BY GrowTraced DEF TouchedOK

\* A row that is written gets a status that is true of its task.
LEMMA RowWritten ==
  ASSUME Grows, RowsOK, NEW t \in Tasks, NEW status \in Outcomes,
         row' = [row EXCEPT ![t] = status] \/ row' = row,
         Named /\ status = "success" => Carried(t)'
  PROVE  RowsOK'
BY GrowTraced DEF RowsOK

LEMMA LogWritten ==
  ASSUME Grows, LogsOK, NEW t \in Tasks, NEW id, Traced(t, id), Logged(t, id)
  PROVE  LogsOK'
<1>1. logs' = logs \/ logs' = logs \cup {[task |-> t, id |-> id]}
  BY DEF Logged
<1>2. CASE logs' = logs
  BY <1>2, GrowLogs
<1>3. CASE logs' = logs \cup {[task |-> t, id |-> id]}
  <2> SUFFICES ASSUME NEW l \in logs' PROVE l.task \in Tasks /\ Traced(l.task, l.id)'
    BY DEF LogsOK
  <2>1. CASE l \in logs
    BY <2>1, GrowTraced DEF LogsOK
  <2>2. CASE l = [task |-> t, id |-> id]
    BY <2>2, GrowTraced
  <2> QED BY <1>3, <2>1, <2>2
<1> QED BY <1>1, <1>2, <1>3

\* What a rule does keeps rows and logs in order, if the copy it writes back is.
LEMMA ExecuteCarries ==
  ASSUME Grows, RowsOK, LogsOK, queued \subseteq Tasks, NEW t \in Tasks, NEW action,
         NEW old \in Outcomes, Named /\ old = "success" => Carried(t),
         Execute(action, t, old)
  PROVE  RowsOK' /\ LogsOK' /\ queued' \subseteq Tasks
<1>1. LogsOK'
  BY LogWritten DEF Execute, Traced
<1>2. PICK status \in {old, "failed"} : row' = [row EXCEPT ![t] = status]
  BY DEF Execute
<1>3. RowsOK'
  BY <1>2, RowWritten, GrowTraced DEF Outcomes
<1> QED BY <1>1, <1>3 DEF Execute

\* A worker whose record is replaced.
LEMMA WorkReplaced ==
  ASSUME CarryInv, Grows, NEW w \in Workers, NEW k, work' = [work EXCEPT ![w] = k], WorkOK(k)'
  PROVE  work' = [v \in Workers |-> work'[v]] /\ \A v \in Workers : WorkOK(work[v])'
<1>1. work' = [v \in Workers |-> IF v = w THEN k ELSE work[v]]
  BY DEF CarryInv
<1>2. ASSUME NEW v \in Workers PROVE WorkOK(work[v])'
  <2>1. CASE v = w
    BY <1>1, <2>1
  <2>2. CASE v # w
    <3>1. WorkOK(work[v])
      BY DEF CarryInv
    <3>2. work'[v] = work[v]
      BY <1>1, <2>2
    <3> QED BY <3>1, <3>2, GrowWork
  <2> QED BY <2>1, <2>2
<1> QED BY <1>1, <1>2

LEMMA ReadReplaced ==
  ASSUME CarryInv, Grows, NEW r \in Requests, NEW q, request' = [request EXCEPT ![r] = q],
         ReadOK(q)'
  PROVE  request' = [x \in Requests |-> request'[x]] /\ \A x \in Requests : ReadOK(request[x])'
<1>1. request' = [x \in Requests |-> IF x = r THEN q ELSE request[x]]
  BY DEF CarryInv
<1>2. ASSUME NEW x \in Requests PROVE ReadOK(request[x])'
  <2>1. CASE x = r
    BY <1>1, <2>1
  <2>2. CASE x # r
    <3>1. ReadOK(request[x])
      BY DEF CarryInv
    <3>2. request'[x] = request[x]
      BY <1>1, <2>2
    <3> QED BY <3>1, <3>2, GrowRead
  <2> QED BY <2>1, <2>2
<1> QED BY <1>1, <1>2

LEMMA WorksKept ==
  ASSUME CarryInv, Grows, UNCHANGED work
  PROVE  work' = [v \in Workers |-> work'[v]] /\ \A v \in Workers : WorkOK(work[v])'
BY GrowWork DEF CarryInv

LEMMA ReadsKept ==
  ASSUME CarryInv, Grows, UNCHANGED request
  PROVE  request' = [x \in Requests |-> request'[x]] /\ \A x \in Requests : ReadOK(request[x])'
BY GrowRead DEF CarryInv

-----------------------------------------------------------------------------
(* The steps of a worker *)

\* What a sender was answered that says yes, and what it says of the message.
Says(via, task, template, answer, res) ==
  \/ /\ res.status = "sent" /\ res.id = answer.id
     /\ answer.kind = "accepted" /\ Usable(via) /\ template # "" /\ via.code # "smtp"
  \/ /\ res.status = "success" /\ via.code \in {"dingtalk", "wechat_work"}
     /\ \/ answer.kind = "accepted" /\ res.id = answer.id
        \/ answer.kind = "empty" /\ res.id \in {ZeroId, NoId}
  \/ /\ res.status = "success" /\ via.code = "smtp" /\ via.config # "broken"
     /\ answer.kind = "accepted" /\ res.id = <<"smtp", task>>

LEMMA SendSays ==
  ASSUME NEW via, via.code \in Codes, NEW task, NEW template, NEW answer, NEW res,
         res = Send(via, task, template, answer), Exit(res) = "save"
  PROVE  Says(via, task, template, answer, res)
<1> USE DEF Says
<1> DEFINE No == res = GoError \/ (\E code : res = Refused(code))
           Yes(id, status) == res = Accepted(id, status)
<1>1. ~No /\ res # [Refused(NoCode) EXCEPT !.error = TRUE]
  <2>1. GoError.error = TRUE /\ \A code : Refused(code).success = FALSE
    BY DEF GoError, Refused
  <2>2. [Refused(NoCode) EXCEPT !.error = TRUE].error = TRUE
    BY DEF Refused
  <2>3. res # GoError
    BY <2>1 DEF Exit
  <2>4. ASSUME NEW code PROVE res # Refused(code)
    BY <2>1 DEF Exit
  <2>5. res # [Refused(NoCode) EXCEPT !.error = TRUE]
    BY <2>2 DEF Exit
  <2> QED BY <2>3, <2>4, <2>5
<1>2. ASSUME NEW id, NEW status, Yes(id, status) PROVE res.id = id /\ res.status = status
  BY <1>2 DEF Accepted
<1>3. CASE via.code \in {"aliyun_sms", "tencent_sms", "zrwinfo_sms"}
  <2> DEFINE Accepts == /\ answer.kind = "accepted" /\ Usable(via) /\ template # ""
                        /\ Yes(answer.id, "sent")
  <2>1. ASSUME via.code = "aliyun_sms" PROVE Accepts
    <3>1. res = AliyunSend(via, template, answer)
      BY <2>1 DEF Send
    <3> QED BY <1>1, <3>1 DEF AliyunSend
  <2>2. ASSUME via.code = "tencent_sms" PROVE Accepts
    <3>1. res = TencentSend(via, template, answer)
      BY <2>2 DEF Send
    <3> QED BY <1>1, <3>1 DEF TencentSend
  <2>3. ASSUME via.code = "zrwinfo_sms" PROVE Accepts
    <3>1. res = ZrwinfoSend(via, template, answer)
      BY <2>3 DEF Send
    <3> QED BY <1>1, <3>1 DEF ZrwinfoSend
  <2>4. Accepts
    BY <1>3, <2>1, <2>2, <2>3
  <2> QED BY <1>2, <1>3, <2>4
<1>4. CASE via.code = "dingtalk"
  <2>1. res = DingTalkSend(via, template, answer)
    BY <1>4 DEF Send
  <2>2. \/ answer.kind = "accepted" /\ Yes(answer.id, "success")
        \/ answer.kind = "empty" /\ Yes(ZeroId, "success")
    BY <1>1, <2>1 DEF DingTalkSend
  <2> QED BY <1>2, <1>4, <2>2
<1>5. CASE via.code = "wechat_work"
  <2>1. res = WeChatSend(via, template, answer)
    BY <1>5 DEF Send
  <2>2. \/ answer.kind = "accepted" /\ Yes(answer.id, "success")
        \/ answer.kind = "empty" /\ Yes(NoId, "success")
    BY <1>1, <2>1 DEF WeChatSend
  <2> QED BY <1>2, <1>5, <2>2
<1>6. CASE via.code = "smtp"
  <2>1. res = SMTPSend(via, task, answer)
    BY <1>6 DEF Send
  <2>2. /\ via.config # "broken" /\ answer.kind = "accepted"
        /\ Yes(<<"smtp", task>>, "success")
    BY <1>1, <2>1 DEF SMTPSend
  <2> QED BY <1>2, <1>6, <2>2
<1> QED BY <1>3, <1>4, <1>5, <1>6 DEF Codes

\* A call gives its task a message of its own, or none.
LEMMA CallCarries ==
  ASSUME CarryInv, NEW w \in Workers, Call(w)
  PROVE  CarryInv'
<1> DEFINE k == work[w]
           via == account[k.account]
           reaches == IF via.code = "smtp" THEN via.config # "broken"
                      ELSE Usable(via) /\ (TemplateOf(k) # "" \/ NeedsToken(via))
           message == [task |-> k.task, account |-> k.account, id |-> NewId(k)]
           Answer(kind) == [kind |-> kind, id |-> NewId(k), code |-> "code"]
           Res(kind) == Send(via, k.task, TemplateOf(k), Answer(kind))
<1>1. k.pc = "call" /\ WorkOK(k)
  BY DEF Call, CarryInv
<1>2. /\ k.task \in Tasks /\ k.account \in DOMAIN account /\ via.code \in Codes
      /\ NeedsToken(via) => Usable(via)
  <2>1. k.task \in Tasks /\ k.account \in DOMAIN account
        /\ (NeedsToken(via) => Usable(via))
    BY <1>1 DEF WorkOK
  <2>2. account \in Fleets
    BY DEF CarryInv
  <2> QED BY <2>1, <2>2, SendersAssumption
<1>3. /\ UNCHANGED <<account, row, queued, logs, faults, request, verdict, touched>>
  BY DEF Call, reportVars
<1>4. PICK kind \in Kinds(k) : \E wire :
        /\ work' = [work EXCEPT ![w] = Answered(Exit(Res(kind)), k.task, k.binding,
                                                Res(kind), wire)]
        /\ taken' = IF reaches /\ kind = "accepted" THEN taken \cup {message} ELSE taken
  BY Zenon DEF Call
<1>5. PICK res : res = Res(kind)
  OBVIOUS
<1>6. PICK answer : answer = Answer(kind)
  OBVIOUS
<1>7. answer.kind = kind /\ answer.id = NewId(k)
  BY <1>6
<1>8. res = Send(via, k.task, TemplateOf(k), answer)
  BY <1>5, <1>6
<1>9. PICK j : /\ \E wire : j = Answered(Exit(res), k.task, k.binding, res, wire)
               /\ work' = [work EXCEPT ![w] = j]
  BY <1>4, <1>5
<1>10. j.pc = Exit(res) /\ j.task = k.task /\ j.res = res
  BY <1>9 DEF Answered
<1>11. work' = [work EXCEPT ![w] = j]
  BY <1>9
<1>12. PICK m : m = message
  OBVIOUS
<1>13. m.task = k.task /\ m.account = k.account /\ m.id = NewId(k)
  BY <1>12
<1>14. taken' = IF reaches /\ kind = "accepted" THEN taken \cup {m} ELSE taken
  BY <1>4, <1>12
<1>15. Named /\ via.code \in {"dingtalk", "wechat_work"} => kind # "empty"
  BY <1>4 DEF Kinds, Named
<1> HIDE DEF message, Answer, Res
<1>16. Grows
  BY <1>3, <1>14 DEF Grows
<1>17. Messages'
  <2> SUFFICES ASSUME NEW n \in taken'
               PROVE  n.task \in Tasks /\ n.account \in DOMAIN account
                      /\ \E i : n.id = <<n.account, i>>
    BY <1>3 DEF Messages
  <2>1. CASE n \in taken
    BY <2>1 DEF CarryInv, Messages
  <2>2. CASE n = m
    BY <1>2, <1>13, <2>2 DEF NewId
  <2> QED BY <1>14, <2>1, <2>2
<1>18. WorkOK(j)'
  <2>1. j.pc \in {"save", "evaluate", "abort"}
    BY <1>10 DEF Exit
  <2>2. PICK t, id : t = k.task /\ id = NewId(k) /\ t \in Tasks
    BY <1>2
  <2>3. ASSUME j.pc = "save"
        PROVE  /\ res.status \in {"sent", "success"}
               /\ Traced(t, res.id)'
               /\ Named /\ res.status = "success" => Carried(t)'
    <3>2. reaches /\ kind = "accepted" => Sent(t, id)' /\ (via.code \in Chat => Carried(t)')
      BY <1>3, <1>13, <1>14, <2>2 DEF Sent, Carried
    <3>3. Says(via, k.task, TemplateOf(k), answer, res)
      BY <1>2, <1>8, <1>10, <2>3, SendSays, Zenon
    <3>4. CASE res.status = "sent"
      <4>1. reaches /\ kind = "accepted" /\ res.id = id
        BY <1>7, <2>2, <3>3, <3>4 DEF Says
      <4> QED BY <3>2, <3>4, <4>1 DEF Traced
    <3>5. CASE res.status = "success" /\ via.code \in {"dingtalk", "wechat_work"}
      <4>1. reaches
        BY <1>2, <3>5 DEF NeedsToken
      <4>2. (kind = "accepted" /\ res.id = id) \/ (kind = "empty" /\ res.id \in {ZeroId, NoId})
        BY <1>7, <2>2, <3>3, <3>5 DEF Says
      <4> QED BY <1>15, <3>2, <3>5, <4>1, <4>2 DEF Traced, Chat
    <3>6. CASE res.status = "success" /\ via.code = "smtp"
      <4>1. reaches /\ kind = "accepted" /\ res.id = <<"smtp", t>>
        BY <1>7, <2>2, <3>3, <3>6 DEF Says
      <4> QED BY <3>2, <3>6, <4>1 DEF Traced, Chat
    <3> QED BY <3>3, <3>4, <3>5, <3>6 DEF Says
  <2> QED BY <1>10, <2>1, <2>2, <2>3 DEF WorkOK
<1>19. LogsOK' /\ RowsOK' /\ TouchedOK'
  <2>1. RowsOK'
    BY <1>3, <1>16, GrowTraced DEF CarryInv, RowsOK
  <2> QED BY <1>3, <1>16, <2>1, GrowLogs, GrowTouched DEF CarryInv
<1> QED BY <1>3, <1>11, <1>16, <1>17, <1>18, <1>19, WorkReplaced, ReadsKept DEF CarryInv

\* A step of a worker that leaves messages, rows and logs alone.
LEMMA ProceedCarries ==
  ASSUME CarryInv, NEW w \in Workers, work[w].pc \in {"token", "fetch", "store"},
         NEW pc \in {"fetch", "store", "call", "abort"}, NEW token, NEW since,
         Proceed(w, pc, token, since), faults' \in 0..MaxFaults,
         UNCHANGED <<account, row, queued, logs, taken, reportVars>>
  PROVE  CarryInv'
<1>1. Grows
  BY DEF Grows, reportVars
<1>2. PICK j : j = Sending(pc, work[w].task, work[w].account, work[w].binding, token, since)
  OBVIOUS
<1>3. j.pc = pc /\ j.task = work[w].task /\ j.account = work[w].account
  BY <1>2 DEF Sending
<1>4. work' = [work EXCEPT ![w] = j]
  BY <1>2 DEF Proceed
<1>5. WorkOK(work[w])
  BY DEF CarryInv
<1>6. WorkOK(j)
  BY <1>3, <1>5 DEF WorkOK
<1>7. WorkOK(j)'
  BY <1>1, <1>6, GrowWork
<1>8. LogsOK' /\ RowsOK' /\ TouchedOK' /\ Messages'
  <2>1. RowsOK'
    BY <1>1, GrowTraced DEF CarryInv, RowsOK
  <2>2. Messages'
    BY DEF CarryInv, Messages
  <2> QED BY <1>1, <2>1, <2>2, GrowLogs, GrowTouched DEF CarryInv, reportVars
<1> QED BY <1>1, <1>4, <1>7, <1>8, WorkReplaced, ReadsKept DEF CarryInv, reportVars

LEMMA FaultsCounted ==
  ASSUME faults \in 0..MaxFaults, Fault \/ UNCHANGED faults
  PROVE  faults' \in 0..MaxFaults
BY SendersAssumption DEF Fault

\* Every step of a worker.
LEMMA StepCarries ==
  ASSUME CarryInv, NEW w \in Workers, Step(w)
  PROVE  CarryInv'
<1> DEFINE k == work[w]
<1>1. WorkOK(k) /\ faults \in 0..MaxFaults
  BY DEF CarryInv
<1>2. CASE Begin(w)
  <2>0. PICK t \in queued : \E a \in Via[t], b \in DOMAIN Bindings :
          /\ queued' = queued \ {t}
          /\ row' = [row EXCEPT ![t] = "processing"]
          /\ work' = [work EXCEPT ![w] = Sending(Entry(a), t, a, b, None, 0)]
    BY <1>2 DEF Begin
  <2>1. PICK a \in Via[t], b \in DOMAIN Bindings :
          /\ queued' = queued \ {t}
          /\ row' = [row EXCEPT ![t] = "processing"]
          /\ work' = [work EXCEPT ![w] = Sending(Entry(a), t, a, b, None, 0)]
    BY <2>0
  <2>2. t \in Tasks /\ a \in DOMAIN account /\ queued' \subseteq Tasks
    BY <2>1, SendersAssumption DEF CarryInv
  <2>3. PICK j : j = Sending(Entry(a), t, a, b, None, 0)
    OBVIOUS
  <2>4. j.pc = Entry(a) /\ j.task = t /\ j.account = a
    BY <2>3 DEF Sending
  <2>5. UNCHANGED <<account, logs, taken, request, verdict, touched, faults>>
    BY <1>2 DEF Begin, reportVars
  <2>6. Grows
    BY <2>5 DEF Grows
  <2>7. WorkOK(j)
    BY <2>2, <2>4 DEF WorkOK, Entry
  <2>8. WorkOK(j)'
    BY <2>6, <2>7, GrowWork
  <2>9. RowsOK'
    BY <2>1, <2>2, <2>6, RowWritten DEF CarryInv, Outcomes
  <2>10. Messages'
    BY <2>5 DEF CarryInv, Messages
  <2> QED BY <2>1, <2>2, <2>3, <2>5, <2>6, <2>8, <2>9, <2>10, WorkReplaced, ReadsKept,
             GrowLogs, GrowTouched DEF CarryInv
<1>3. CASE GetToken(w)
  <2>1. PICK pc \in {"call", "fetch"} : \E token, since : Proceed(w, pc, token, since)
    BY <1>3, Zenon DEF GetToken
  <2> QED BY <1>1, <1>3, <2>1, FaultsCounted, ProceedCarries DEF GetToken
<1>4. CASE FetchToken(w)
  <2>1. PICK pc \in {"store", "abort"} : \E token, since : Proceed(w, pc, token, since)
    BY <1>4, Zenon DEF FetchToken
  <2> QED BY <1>1, <1>4, <2>1, FaultsCounted, ProceedCarries DEF FetchToken
<1>5. CASE StoreToken(w)
  <2>1. Proceed(w, "call", k.token, now)
    BY <1>5 DEF StoreToken
  <2> QED BY <1>1, <1>5, <2>1, FaultsCounted, ProceedCarries DEF StoreToken
<1>6. CASE Call(w)
  BY <1>6, CallCarries
<1>7. CASE Save(w)
  <2>1. /\ k.pc = "save" /\ (Fault \/ UNCHANGED faults)
        /\ row' = [row EXCEPT ![k.task] = k.res.status] \/ row' = row
        /\ work' = [work EXCEPT ![w] = Answered("log", k.task, k.binding, k.res, <<>>)]
        /\ UNCHANGED <<account, queued, logs, taken, request, verdict, touched>>
    BY <1>7 DEF Save, reportVars
  <2>2. PICK j : j = Answered("log", k.task, k.binding, k.res, <<>>)
    OBVIOUS
  <2>3. j.pc = "log" /\ j.task = k.task /\ j.res = k.res
    BY <2>2 DEF Answered
  <2>4. Grows
    BY <2>1 DEF Grows
  <2>5. WorkOK(j)
    BY <1>1, <2>1, <2>3 DEF WorkOK
  <2>6. WorkOK(j)'
    BY <2>4, <2>5, GrowWork
  <2>7. PICK t \in Tasks, status \in Outcomes :
          /\ t = k.task /\ status = k.res.status
          /\ Named /\ status = "success" => Carried(t)
    BY <1>1, <2>1 DEF WorkOK, Outcomes
  <2>8. RowsOK'
    BY <2>1, <2>4, <2>7, GrowTraced, RowWritten DEF CarryInv
  <2>9. Messages'
    BY <2>1 DEF CarryInv, Messages
  <2> QED BY <1>1, <2>1, <2>2, <2>4, <2>6, <2>8, <2>9, WorkReplaced, ReadsKept, GrowLogs,
             GrowTouched, FaultsCounted DEF CarryInv
<1>8. CASE Record(w) \/ Evaluate(w) \/ Abort(w)
  <2>1. /\ work' = [work EXCEPT ![w] = Idle] /\ (Fault \/ UNCHANGED faults)
        /\ UNCHANGED <<account, taken, request, verdict, touched>> /\ k.pc # "idle"
    BY <1>8 DEF Record, Evaluate, Abort, reportVars
  <2>2. Idle.pc = "idle"
    BY DEF Idle, Sending
  <2> HIDE DEF Idle
  <2>3. Grows
    BY <2>1 DEF Grows
  <2>4. WorkOK(Idle)'
    BY <2>2 DEF WorkOK
  <2>5. k.task \in Tasks
    BY <1>1, <2>1 DEF WorkOK
  <2>6. RowsOK' /\ LogsOK' /\ queued' \subseteq Tasks
    <3>1. CASE Record(w)
      <4>1. (Logged(k.task, k.res.id) \/ UNCHANGED logs) /\ UNCHANGED <<row, queued>>
            /\ k.pc = "log"
        BY <3>1 DEF Record
      <4>2. Traced(k.task, k.res.id)
        BY <1>1, <4>1 DEF WorkOK
      <4>3. LogsOK'
        BY <2>3, <2>5, <4>1, <4>2, LogWritten, GrowLogs DEF CarryInv
      <4>4. RowsOK'
        BY <2>3, <4>1, GrowTraced DEF CarryInv, RowsOK
      <4> QED BY <4>1, <4>3, <4>4 DEF CarryInv
    <3>2. CASE Evaluate(w)
      <4>1. PICK action : Execute(action, k.task, "processing")
        BY <3>2 DEF Evaluate
      <4>2. "processing" \in Outcomes
        BY DEF Outcomes
      <4> QED BY <2>3, <2>5, <4>1, <4>2, ExecuteCarries DEF CarryInv
    <3>3. CASE Abort(w)
      <4>1. row' = [row EXCEPT ![k.task] = "failed"] /\ Logged(k.task, NoId)
            /\ UNCHANGED queued
        BY <3>3 DEF Abort
      <4>2. LogsOK'
        BY <2>3, <2>5, <4>1, LogWritten DEF CarryInv, Traced
      <4>3. RowsOK'
        BY <2>3, <2>5, <4>1, RowWritten DEF CarryInv, Outcomes
      <4> QED BY <4>1, <4>2, <4>3 DEF CarryInv
    <3> QED BY <1>8, <3>1, <3>2, <3>3
  <2>7. Messages'
    BY <2>1 DEF CarryInv, Messages
  <2> QED BY <1>1, <2>1, <2>3, <2>4, <2>6, <2>7, WorkReplaced, ReadsKept, GrowTouched,
             FaultsCounted DEF CarryInv
<1> QED BY <1>2, <1>3, <1>4, <1>5, <1>6, <1>7, <1>8 DEF Step

-----------------------------------------------------------------------------
(* The steps of a callback request *)

\* What a provider may say of its messages.
Told(a) == {i \in Items(a) : i.word \in Said(i.id)}

LEMMA ToldItem ==
  ASSUME Messages, NEW a, NEW i \in Told(a)
  PROVE  /\ i.word \in {"ok", "bad"} /\ i.word \in Said(i.id) /\ i.id # NoId
         /\ \E m \in taken : m.id = i.id
<1>1. PICK m \in taken, word \in {"ok", "bad"} : i = [id |-> m.id, word |-> word]
  BY DEF Told, Items
<1>2. \E n : m.id = <<m.account, n>>
  BY DEF Messages
<1>3. m.id # NoId
  BY <1>2 DEF NoId
<1> QED BY <1>1, <1>3 DEF Told

\* What a provider posts: one report, two about different messages, or none.
LEMMA BodyItems ==
  ASSUME NEW a, NEW body \in Bodies(a)
  PROVE  \/ body.kind = "reports" /\ \E i \in Told(a) : body.items = <<i>>
         \/ /\ body.kind = "reports" /\ account[a].code \in Batching
            /\ \E i, j \in Told(a) : i.id # j.id /\ body.items = <<i, j>>
         \/ body.kind \in {"bounce", "garbled"} /\ body.items = <<>> /\ account[a].code = "smtp"
<1> DEFINE T == Told(a)
           pairs == {s \in T \X T : s[1].id # s[2].id}
<1>1. CASE body \in [kind : {"reports"}, items : {<<i>> : i \in T}]
  BY <1>1
<1>2. CASE body \in [kind : {"reports"}, items : pairs] /\ account[a].code \in Batching
  <2>1. body.kind = "reports" /\ body.items \in pairs
    BY <1>2
  <2>2. PICK i \in T, j \in T : body.items = <<i, j>>
    BY <2>1
  <2>3. i.id # j.id
    BY <2>1, <2>2
  <2> QED BY <1>2, <2>1, <2>2, <2>3
<1>3. CASE body \in [kind : {"bounce", "garbled"}, items : {<<>>}] /\ account[a].code = "smtp"
  BY <1>3
<1> QED BY <1>1, <1>2, <1>3 DEF Bodies, Told

\* A result says what its item says.
Reads(x, i) == x.id = i.id /\ x.status = (IF i.word = "ok" THEN "delivered" ELSE "failed")

LEMMA OneRead ==
  ASSUME NEW code \in Codes, NEW body, NEW i, i.id # NoId, i.word \in {"ok", "bad"},
         body.kind = "reports", body.items = <<i>>
  PROVE  Len(Callback(code, body)) = 1 /\ Reads(Callback(code, body)[1], i)
<1> DEFINE x == Result(i.id, IF i.word = "ok" THEN "delivered" ELSE "failed")
<1>1. Reads(x, i)
  BY DEF Reads, Result
<1>2. Callback(code, body) = <<x>>
  <2>1. CASE code \in Batching
    <3>1. Callback(code, body) = [n \in 1..1 |-> Result(body.items[n].id,
            IF body.items[n].word = "ok" THEN "delivered" ELSE "failed")]
      BY <2>1 DEF Batching, Callback, AliyunCallback, TencentCallback
    <3>2. Callback(code, body) = [n \in 1..1 |-> x]
      BY <3>1
    <3> HIDE DEF x
    <3> QED BY <3>2
  <2>2. CASE code = "zrwinfo_sms"
    BY <2>2 DEF Callback, ZrwinfoCallback
  <2>3. CASE code = "dingtalk"
    BY <2>3 DEF Callback, DingTalkCallback
  <2>4. CASE code = "wechat_work"
    BY <2>4 DEF Callback, WeChatCallback
  <2>5. CASE code = "smtp"
    BY <2>5 DEF Callback, SMTPCallback
  <2> QED BY <2>1, <2>2, <2>3, <2>4, <2>5 DEF Codes, Batching
<1> HIDE DEF x
<1> QED BY <1>1, <1>2

LEMMA TwoRead ==
  ASSUME NEW code \in Batching, NEW body, NEW i, NEW j, body.kind = "reports",
         body.items = <<i, j>>
  PROVE  /\ Len(Callback(code, body)) = 2
         /\ Reads(Callback(code, body)[1], i) /\ Reads(Callback(code, body)[2], j)
<1> DEFINE Of(item) == Result(item.id, IF item.word = "ok" THEN "delivered" ELSE "failed")
<1>1. Reads(Of(i), i) /\ Reads(Of(j), j)
  BY DEF Reads, Result
<1>2. Callback(code, body) = [n \in 1..2 |-> Of(body.items[n])]
  BY DEF Batching, Callback, AliyunCallback, TencentCallback
<1> HIDE DEF Of
<1>3. Len(Callback(code, body)) = 2
  BY <1>2
<1> QED BY <1>1, <1>2, <1>3

\* What is not a report of a message is a bounce without an id, or nothing.
LEMMA NoneRead ==
  ASSUME NEW code \in Codes, NEW body, body.kind \in {"bounce", "garbled"}
  PROVE  \/ Callback(code, body) = <<>>
         \/ Callback(code, body) = <<Result(NoId, "failed")>>
<1>1. CASE body.kind = "garbled" \/ code # "smtp"
  BY <1>1 DEF Callback
<1>2. CASE body.kind = "bounce" /\ code = "smtp"
  BY <1>2 DEF Callback, SMTPCallback
<1> QED BY <1>1, <1>2

\* What was said of a message, after it is said.
Heard(items) ==
  verdict' = [id \in DOMAIN verdict \cup {i.id : i \in Range(items)} |->
                IF id \in DOMAIN verdict THEN verdict[id]
                ELSE (CHOOSE i \in Range(items) : i.id = id).word]

\* A report is what is from then on said of its message.
LEMMA HeardSaid ==
  ASSUME NEW items, Heard(items), NEW i \in Range(items), i.word \in Said(i.id),
         \A j \in Range(items) : j.id = i.id => j = i
  PROVE  i.id \in DOMAIN verdict' /\ verdict'[i.id] = i.word
<1>1. (CHOOSE j \in Range(items) : j.id = i.id) = i
  OBVIOUS
<1>2. /\ i.id \in DOMAIN verdict'
      /\ verdict'[i.id] = IF i.id \in DOMAIN verdict THEN verdict[i.id]
                          ELSE (CHOOSE j \in Range(items) : j.id = i.id).word
  BY DEF Heard
<1> QED BY <1>1, <1>2 DEF Said

LEMMA ReadsConfirmed ==
  ASSUME Messages, NEW a, NEW i \in Told(a), NEW x, Reads(x, i), taken \subseteq taken',
         i.id \in DOMAIN verdict', verdict'[i.id] = i.word
  PROVE  Confirmed(x)'
BY ToldItem DEF Reads, Confirmed

\* A request begins with confirmed results, or ends at once.
LEMMA ReceiveCarries ==
  ASSUME CarryInv, NEW r \in Requests, Receive(r)
  PROVE  CarryInv'
<1>1. UNCHANGED <<account, row, queued, logs, taken, work, touched, faults>>
  BY DEF Receive, workVars
<1>2. PICK a \in {m.account : m \in taken} : \E body \in Bodies(a) :
        /\ request' = [request EXCEPT ![r] =
             IF Callback(account[a].code, body) = <<>>
             THEN Reading("end", a, <<>>, 1, None, "", 10)
             ELSE Reading("find", a, Callback(account[a].code, body), 1, None, "", 10)]
        /\ Heard(body.items)
  BY Zenon DEF Receive, Heard
<1>3. PICK body \in Bodies(a) :
        /\ request' = [request EXCEPT ![r] =
             IF Callback(account[a].code, body) = <<>>
             THEN Reading("end", a, <<>>, 1, None, "", 10)
             ELSE Reading("find", a, Callback(account[a].code, body), 1, None, "", 10)]
        /\ Heard(body.items)
  BY <1>2, Zenon
<1>4. PICK code, results : code = account[a].code /\ results = Callback(code, body)
  OBVIOUS
<1>5. code \in Codes /\ Messages
  BY <1>4, SendersAssumption DEF CarryInv, Messages
<1>6. Grows
  BY <1>1, <1>3 DEF Grows, Heard
<1>7. \/ results = <<>>
      \/ Len(results) \in 1..2 /\ \A n \in 1..Len(results) : Confirmed(results[n])'
  <2>1. ASSUME NEW i \in Told(a), body.kind = "reports", body.items = <<i>>
        PROVE  Len(results) \in 1..2 /\ \A n \in 1..Len(results) : Confirmed(results[n])'
    <3>1. Len(results) = 1 /\ Reads(results[1], i)
      BY <1>4, <1>5, <2>1, ToldItem, OneRead
    <3>2. Range(body.items) = {i}
      BY <2>1 DEF Range
    <3>3. i.id \in DOMAIN verdict' /\ verdict'[i.id] = i.word
      BY <1>3, <1>5, <3>2, ToldItem, HeardSaid
    <3>4. Confirmed(results[1])'
      BY <1>5, <1>6, <3>1, <3>3, ReadsConfirmed DEF Grows
    <3> QED BY <3>1, <3>4
  <2>2. ASSUME NEW i \in Told(a), NEW j \in Told(a), i.id # j.id, body.kind = "reports",
               body.items = <<i, j>>, code \in Batching
        PROVE  Len(results) \in 1..2 /\ \A n \in 1..Len(results) : Confirmed(results[n])'
    <3>1. Len(results) = 2 /\ Reads(results[1], i) /\ Reads(results[2], j)
      BY <1>4, <2>2, TwoRead
    <3>2. Range(body.items) = {i, j}
      BY <2>2 DEF Range
    <3>3. /\ i.id \in DOMAIN verdict' /\ verdict'[i.id] = i.word
          /\ j.id \in DOMAIN verdict' /\ verdict'[j.id] = j.word
      <4>1. i \in Range(body.items) /\ j \in Range(body.items)
            /\ (\A x, y \in Range(body.items) : x.id = y.id => x = y)
        BY <2>2, <3>2
      <4>2. i.word \in Said(i.id) /\ j.word \in Said(j.id)
        BY <1>5, ToldItem
      <4> QED BY <1>3, <4>1, <4>2, HeardSaid
    <3>4. Confirmed(results[1])' /\ Confirmed(results[2])'
      BY <1>5, <1>6, <3>1, <3>3, ReadsConfirmed DEF Grows
    <3> QED BY <3>1, <3>4
  <2>3. ASSUME body.kind \in {"bounce", "garbled"}, results # <<>>
        PROVE  Len(results) \in 1..2 /\ \A n \in 1..Len(results) : Confirmed(results[n])'
    <3>1. results = <<Result(NoId, "failed")>>
      BY <1>4, <1>5, <2>3, NoneRead
    <3>2. Confirmed(Result(NoId, "failed"))'
      BY DEF Confirmed, Result
    <3> QED BY <3>1, <3>2
  <2> QED BY <1>4, <2>1, <2>2, <2>3, BodyItems
<1>8. PICK q : /\ request' = [request EXCEPT ![r] = q]
               /\ q = IF results = <<>> THEN Reading("end", a, <<>>, 1, None, "", 10)
                      ELSE Reading("find", a, results, 1, None, "", 10)
  BY <1>3, <1>4
<1>9. /\ q.pc = (IF results = <<>> THEN "end" ELSE "find") /\ q.at = 1
      /\ results # <<>> => q.results = results
  BY <1>8 DEF Reading
<1>10. ReadOK(q)'
  BY <1>7, <1>9 DEF ReadOK
<1>11. RowsOK' /\ Messages'
  BY <1>1, <1>6, GrowTraced DEF CarryInv, RowsOK, Messages
<1> QED BY <1>1, <1>6, <1>8, <1>10, <1>11, ReadReplaced, WorksKept, GrowLogs, GrowTouched
       DEF CarryInv

\* The next result, or none.
LEMMA DoneOK ==
  ASSUME NEW q, ReadOK(q), q.pc \in {"find", "apply"}
  PROVE  ReadOK(Done(q))
<1>1. PICK n : n = q.at /\ n \in 1..2 /\ n <= Len(q.results) /\ Len(q.results) \in 1..2
  BY DEF ReadOK
<1>2. CASE n < Len(q.results)
  <2>1. PICK x : x = Reading("find", q.account, q.results, n + 1, None, "", q.timeout)
    OBVIOUS
  <2>2. x.pc = "find" /\ x.results = q.results /\ x.at = n + 1
    BY <2>1 DEF Reading
  <2>3. ReadOK(x)
    BY <1>1, <1>2, <2>2 DEF ReadOK
  <2> QED BY <1>1, <1>2, <2>1, <2>3 DEF Done
<1>3. CASE ~(n < Len(q.results))
  <2>1. PICK x : x = Reading("end", None, <<>>, 1, None, "", q.timeout)
    OBVIOUS
  <2>2. x.pc = "end" /\ x.at = 1
    BY <2>1 DEF Reading
  <2>3. ReadOK(x)
    BY <2>2 DEF ReadOK
  <2> QED BY <1>1, <1>3, <2>1, <2>3 DEF Done
<1> QED BY <1>2, <1>3

\* The task a request is about to change is that of the message reported.
LEMMA AppliedSent ==
  ASSUME CarryInv, NEW q, ReadOK(q), q.pc = "apply"
  PROVE  /\ q.results[q.at].id # NoId => Sent(q.task, q.results[q.at].id)
         /\ q.results[q.at].status = "delivered" => Carried(q.task)
<1>1. PICK x : x = q.results[q.at]
  OBVIOUS
<1>2. Confirmed(x) /\ Traced(q.task, x.id)
  BY <1>1 DEF ReadOK
<1>3. ASSUME x.id # NoId PROVE Sent(q.task, x.id)
  <2>1. PICK m \in taken : m.id = x.id
    BY <1>2, <1>3 DEF Confirmed
  <2>2. PICK n : m.id = <<m.account, n>>
    BY DEF CarryInv, Messages
  <2>3. m.account # "smtp"
    BY SendersAssumption DEF CarryInv, Messages
  <2>4. x.id # ZeroId /\ x.id # <<"smtp", q.task>>
    BY <2>1, <2>2, <2>3 DEF ZeroId
  <2> QED BY <1>2, <1>3, <2>4 DEF Traced
<1>4. ASSUME x.status = "delivered" PROVE Carried(q.task)
  BY <1>2, <1>3, <1>4 DEF Confirmed, Sent, Carried
<1> QED BY <1>1, <1>3, <1>4

LEMMA TouchOK ==
  ASSUME CarryInv, Grows, NEW r \in Requests, request[r].pc = "apply",
         Touches(r) \/ UNCHANGED touched
  PROVE  TouchedOK'
<1>1. CASE UNCHANGED touched
  BY <1>1, GrowTouched DEF CarryInv
<1>2. CASE Touches(r)
  <2>1. PICK t, id : t = request[r].task /\ id = request[r].results[request[r].at].id
    OBVIOUS
  <2>2. t \in Tasks /\ (id # NoId => Sent(t, id))
    BY <2>1, AppliedSent DEF CarryInv, ReadOK
  <2>3. touched' = [touched EXCEPT ![t] = @ \cup {id}]
    BY <1>2, <2>1 DEF Touches
  <2>4. TouchedOK
    BY DEF CarryInv
  <2>5. ASSUME NEW u \in Tasks, NEW i \in touched'[u], i # NoId PROVE Sent(u, i)'
    <3>1. CASE i \in touched[u]
      BY <2>4, <2>5, <3>1, GrowTraced DEF TouchedOK
    <3>2. CASE u = t /\ i = id
      BY <2>2, <2>5, <3>2, GrowTraced
    <3> QED BY <2>3, <2>4, <2>5, <3>1, <3>2 DEF TouchedOK
  <2> QED BY <2>3, <2>4, <2>5 DEF TouchedOK
<1> QED BY <1>1, <1>2

\* Every other step of a request.
LEMMA ReportCarries ==
  ASSUME CarryInv, NEW r \in Requests, Find(r) \/ ApplyDelivered(r) \/ ApplyFailed(r)
  PROVE  CarryInv'
<1> DEFINE q == request[r]
<1>1. UNCHANGED <<account, taken, work, verdict>> /\ q.pc \in {"find", "apply"}
      /\ (Fault \/ UNCHANGED faults)
  BY DEF Find, ApplyDelivered, ApplyFailed, workVars
<1>2. Grows
  BY <1>1 DEF Grows
<1>3. ReadOK(q)
  BY DEF CarryInv
<1>4. ReadOK(Done(q))
  BY <1>1, <1>3, DoneOK
<1>5. PICK x : x = Done(q)
  OBVIOUS
<1>6. ReadOK(x)'
  BY <1>2, <1>4, <1>5, GrowRead
<1>7. Messages'
  BY <1>1 DEF CarryInv, Messages
<1>8. CASE Find(r)
  <2>1. UNCHANGED <<row, queued, logs, touched>>
    BY <1>8 DEF Find, workVars
  <2>2. RowsOK'
    BY <1>2, <2>1, GrowTraced DEF CarryInv, RowsOK
  <2>3. ASSUME NEW l \in logs, l.id = q.results[q.at].id,
               request' = [request EXCEPT ![r] =
                 Reading("apply", q.account, q.results, q.at, l.task, row[l.task], q.timeout)]
        PROVE \E y : request' = [request EXCEPT ![r] = y] /\ ReadOK(y)'
    <3>1. PICK y : y = Reading("apply", q.account, q.results, q.at, l.task, row[l.task], q.timeout)
      OBVIOUS
    <3>2. /\ y.pc = "apply" /\ y.results = q.results /\ y.at = q.at /\ y.task = l.task
          /\ y.old = row[l.task]
      BY <3>1 DEF Reading
    <3>3. l.task \in Tasks /\ Traced(l.task, l.id)
      BY DEF CarryInv, LogsOK
    <3>4. row[l.task] \in Outcomes /\ (Named /\ row[l.task] = "success" => Carried(l.task))
      BY <3>3 DEF CarryInv, RowsOK
    <3>5. ReadOK(y)
      BY <1>1, <1>3, <2>3, <3>2, <3>3, <3>4 DEF ReadOK
    <3>6. ReadOK(y)'
      BY <1>2, <3>5, GrowRead
    <3> QED BY <2>3, <3>1, <3>6
  <2>4. \E y : request' = [request EXCEPT ![r] = y] /\ ReadOK(y)'
    <3>1. \/ request' = [request EXCEPT ![r] = Done(q)]
          \/ \E l \in logs : /\ l.id = q.results[q.at].id
                             /\ request' = [request EXCEPT ![r] =
                                  Reading("apply", q.account, q.results, q.at, l.task,
                                          row[l.task], q.timeout)]
      BY <1>8, Zenon DEF Find, LogOf
    <3>2. CASE request' = [request EXCEPT ![r] = Done(q)]
      BY <1>5, <1>6, <3>2
    <3> QED BY <2>3, <3>1, <3>2
  <2> QED BY <1>1, <1>2, <1>7, <2>1, <2>2, <2>4, ReadReplaced, WorksKept, GrowLogs,
             GrowTouched, FaultsCounted DEF CarryInv
<1>9. CASE ApplyDelivered(r) \/ ApplyFailed(r)
  <2>1. q.pc = "apply" /\ request' = [request EXCEPT ![r] = x]
        /\ (Touches(r) \/ UNCHANGED touched)
    BY <1>5, <1>9 DEF ApplyDelivered, ApplyFailed
  <2>2. TouchedOK'
    BY <1>2, <2>1, TouchOK
  <2>3. PICK t \in Tasks, old \in Outcomes :
          t = q.task /\ old = q.old /\ (Named /\ old = "success" => Carried(t))
    BY <1>3, <2>1 DEF ReadOK
  <2>4. RowsOK' /\ LogsOK' /\ queued' \subseteq Tasks
    <3>1. CASE ApplyDelivered(r)
      <4>1. /\ UNCHANGED <<queued, logs>> /\ q.results[q.at].status = "delivered"
            /\ row' = [row EXCEPT ![t] = "success"] \/ row' = row
        BY <2>3, <3>1 DEF ApplyDelivered, workVars
      <4>2. Carried(t)'
        BY <1>2, <1>3, <2>1, <2>3, <4>1, AppliedSent, GrowTraced
      <4>3. RowsOK'
        BY <1>2, <4>1, <4>2, RowWritten DEF CarryInv, Outcomes
      <4> QED BY <1>2, <4>1, <4>3, GrowLogs DEF CarryInv
    <3>2. CASE ApplyFailed(r)
      <4>1. PICK action :
              \/ Execute(action, t, old)
              \/ /\ queued' = IF action = "retry" THEN queued \cup {t} ELSE queued
                 /\ Logged(t, NoId) /\ UNCHANGED row
        BY <2>3, <3>2 DEF ApplyFailed
      <4>2. CASE Execute(action, t, old)
        BY <1>2, <2>3, <4>2, ExecuteCarries DEF CarryInv
      <4>3. CASE /\ queued' = IF action = "retry" THEN queued \cup {t} ELSE queued
                 /\ Logged(t, NoId) /\ UNCHANGED row
        <5>1. RowsOK'
          BY <1>2, <4>3, GrowTraced DEF CarryInv, RowsOK
        <5>2. LogsOK'
          BY <1>2, <4>3, LogWritten DEF CarryInv, Traced
        <5> QED BY <4>3, <5>1, <5>2 DEF CarryInv
      <4> QED BY <4>1, <4>2, <4>3
    <3> QED BY <1>9, <3>1, <3>2
  <2> QED BY <1>1, <1>2, <1>6, <1>7, <2>1, <2>2, <2>4, ReadReplaced, WorksKept,
             FaultsCounted DEF CarryInv
<1> QED BY <1>8, <1>9

\* The goroutines change a request's timeout at most.
LEMMA WebhookCarries ==
  ASSUME CarryInv, NEW h \in Hooks, Webhook(h)
  PROVE  CarryInv'
<1>1. UNCHANGED <<account, taken, work, row, queued, logs, verdict, touched>>
      /\ (Fault \/ UNCHANGED faults)
  BY DEF Webhook, Start, Post, HookLost, workVars, reportVars
<1>2. Grows /\ Messages' /\ h[1] \in Requests
  BY <1>1 DEF Grows, CarryInv, Messages, Hooks
<1>3. RowsOK'
  BY <1>1, <1>2, GrowTraced DEF CarryInv, RowsOK
<1>4. request' = [x \in Requests |-> request'[x]] /\ \A x \in Requests : ReadOK(request[x])'
  <2>1. CASE Post(h) \/ HookLost(h) \/ UNCHANGED request
    <3>1. UNCHANGED request
      BY <2>1 DEF Post, HookLost, reportVars
    <3> QED BY <1>2, <3>1, ReadsKept
  <2>2. ASSUME NEW q, q = request[h[1]], NEW x, NEW timeout,
               x = Reading(q.pc, q.account, q.results, q.at, q.task, q.old, timeout),
               request' = [request EXCEPT ![h[1]] = x]
        PROVE  request' = [y \in Requests |-> request'[y]]
               /\ \A y \in Requests : ReadOK(request[y])'
    <3>1. /\ x.pc = q.pc /\ x.results = q.results /\ x.at = q.at /\ x.task = q.task
          /\ x.old = q.old
      BY <2>2 DEF Reading
    <3>2. ReadOK(q)
      BY <1>2, <2>2 DEF CarryInv
    <3>3. ReadOK(x)
      BY <3>1, <3>2 DEF ReadOK
    <3>4. ReadOK(x)'
      BY <1>2, <3>3, GrowRead
    <3> QED BY <1>2, <2>2, <3>4, ReadReplaced
  <2> QED BY <2>1, <2>2 DEF Webhook, Start
<1> QED BY <1>1, <1>2, <1>3, <1>4, WorksKept, GrowLogs, GrowTouched, FaultsCounted
       DEF CarryInv

\* Nothing is taken, logged or reported in the beginning.
LEMMA InitCarries == Init => CarryInv
<1> SUFFICES ASSUME Init PROVE CarryInv
  OBVIOUS
<1>1. Idle.pc = "idle" /\ Fresh.pc = "new" /\ Fresh.at = 1
  BY DEF Idle, Sending, Fresh, Reading
<1> HIDE DEF Idle, Fresh
<1>2. WorkOK(Idle) /\ ReadOK(Fresh)
  BY <1>1 DEF WorkOK, ReadOK
<1>3. Messages /\ LogsOK /\ TouchedOK
  BY DEF Init, Messages, LogsOK, TouchedOK
<1>4. RowsOK
  BY DEF Init, RowsOK, Outcomes
<1>5. faults \in 0..MaxFaults
  BY SendersAssumption DEF Init
<1> QED BY <1>2, <1>3, <1>4, <1>5 DEF Init, CarryInv

LEMMA NextCarries == CarryInv /\ [Next]_vars => CarryInv'
<1> SUFFICES ASSUME CarryInv, [Next]_vars PROVE CarryInv'
  OBVIOUS
<1>1. CASE Tick \/ UNCHANGED vars
  <2>1. UNCHANGED <<account, workVars, row, logs, reportVars, faults>>
    BY <1>1 DEF Tick, vars, workVars, reportVars
  <2>2. UNCHANGED <<account, taken, work, row, queued, logs, request, verdict, touched, faults>>
    BY <2>1 DEF workVars, reportVars
  <2>3. Grows /\ Messages'
    BY <2>2 DEF Grows, CarryInv, Messages
  <2>4. RowsOK'
    BY <2>2, <2>3, GrowTraced DEF CarryInv, RowsOK
  <2> QED BY <2>2, <2>3, <2>4, WorksKept, ReadsKept, GrowLogs, GrowTouched DEF CarryInv
<1>2. ASSUME NEW w \in Workers, Step(w) PROVE CarryInv'
  BY <1>2, StepCarries
<1>3. ASSUME NEW r \in Requests, Report(r) PROVE CarryInv'
  BY <1>3, ReceiveCarries, ReportCarries DEF Report
<1>4. ASSUME NEW h \in Hooks, Webhook(h) PROVE CarryInv'
  BY <1>4, WebhookCarries
<1> QED BY <1>1, <1>2, <1>3, <1>4 DEF Next

\* A report that carries an id changes only the row of the task whose message it
\* is about: a log with that id, of whatever provider it is read
\* (GetByProviderMsgID), was written for a send of that task
\* (CallbackService.processCallbackResult, MessageHandler.handleSuccess).
THEOREM OwnReportsHolds == Spec => []OwnReports
<1>1. CarryInv => OwnReports
  BY DEF CarryInv, TouchedOK, OwnReports, Sent
<1> QED BY <1>1, InitCarries, NextCarries, PTL DEF Spec

-----------------------------------------------------------------------------
(* The goroutines that call the applications *)

\* A goroutine that has set the timeout of its request, whatever came of it.
Started == {"post", "told", "unheard", "lost"}

Calls == [pc : {"none", "start"} \cup Started, task : Tasks \cup {None},
          event : {"", "delivered", "failed", "rejected"},
          status : {"", "success", "failed"}, tries : Int]

\* No result before its turn has a goroutine.
Unborn(h) ==
  \/ request[h[1]].pc = "new"
  \/ request[h[1]].pc \in {"find", "apply"} /\ request[h[1]].at <= h[2]

\* Some goroutine of the request asked for the timeout it has.
Asked(r) ==
  \E g \in Hooks : /\ g[1] = r /\ hook[g].pc \in Started
                   /\ request[r].timeout = Timeout(hook[g].task)

HookInv ==
  /\ hook \in [Hooks -> Calls]
  /\ \A h \in Hooks :
       /\ Unborn(h) => hook[h].pc = "none"
       /\ hook[h].pc # "none" => hook[h].task \in Tasks
       /\ hook[h].pc = "post" => Asked(h[1])

LEMMA HookParts ==
  ASSUME NEW h \in Hooks
  PROVE  h[1] \in Requests /\ h[2] \in {1, 2} /\ h = <<h[1], h[2]>>
BY DEF Hooks

LEMMA HookSlots ==
  ASSUME NEW r \in Requests, NEW n \in 1..2
  PROVE  <<r, n>> \in Hooks
BY DEF Hooks

\* What becomes of a request in a step of its own: it moves on, and keeps the
\* timeout unless it is new.
Moves(q, x) ==
  /\ q.pc \in {"find", "apply"} /\ x.timeout = q.timeout
  /\ \/ x.pc \in {"find", "apply"} /\ x.at \in 1..2 /\ x.at >= q.at
     \/ x.pc = "end"

LEMMA DoneMoves ==
  ASSUME NEW q, ReadOK(q), q.pc \in {"find", "apply"}
  PROVE  /\ Moves(q, Done(q))
         /\ Done(q).pc \in {"find", "apply"} => Done(q).at = q.at + 1
         /\ Done(q).pc \in {"find", "apply", "end"}
<1>1. q.at \in 1..2
  BY DEF ReadOK
<1>2. PICK n \in 1..2, len \in 1..2 : n = q.at /\ len = Len(q.results)
  BY <1>1 DEF ReadOK
<1>3. CASE n < Len(q.results)
  <2>1. PICK x : x = Reading("find", q.account, q.results, n + 1, None, "", q.timeout)
    OBVIOUS
  <2>2. x.pc = "find" /\ x.timeout = q.timeout /\ x.at = n + 1 /\ n + 1 \in 1..2
    <3>1. n < len
      BY <1>2, <1>3
    <3>2. n + 1 \in 1..2
      BY <3>1
    <3> QED BY <2>1, <3>2 DEF Reading
  <2>3. x = Done(q)
    BY <1>2, <1>3, <2>1 DEF Done
  <2> QED BY <1>2, <2>2, <2>3 DEF Moves
<1>4. CASE ~(n < Len(q.results))
  <2>1. PICK x : x = Reading("end", None, <<>>, 1, None, "", q.timeout)
    OBVIOUS
  <2>2. x.pc = "end" /\ x.timeout = q.timeout
    BY <2>1 DEF Reading
  <2>3. x = Done(q)
    BY <1>2, <1>4, <2>1 DEF Done
  <2> QED BY <2>2, <2>3 DEF Moves
<1> QED BY <1>3, <1>4

\* A request that moves on without starting a goroutine.
LEMMA MoveHooks ==
  ASSUME CarryInv, HookInv, NEW r \in Requests, NEW x,
         request' = [request EXCEPT ![r] = x], UNCHANGED hook,
         \/ Moves(request[r], x)
         \/ request[r].pc = "new"
  PROVE  HookInv'
<1>1. request' = [y \in Requests |-> IF y = r THEN x ELSE request[y]]
      /\ request[r].at \in 1..2
  BY DEF CarryInv, ReadOK
<1>2. ASSUME NEW h \in Hooks
      PROVE /\ Unborn(h)' => hook[h].pc = "none"
            /\ hook[h].pc = "post" => Asked(h[1])'
  <2>1. h[1] \in Requests /\ h[2] \in {1, 2}
    BY HookParts
  <2>2. CASE h[1] # r
    <3>1. request'[h[1]] = request[h[1]]
      BY <1>1, <2>1, <2>2
    <3>2. Unborn(h)' => Unborn(h)
      BY <3>1 DEF Unborn
    <3>3. Asked(h[1]) => Asked(h[1])'
      BY <3>1 DEF Asked
    <3> QED BY <3>2, <3>3 DEF HookInv
  <2>3. CASE h[1] = r /\ request[r].pc = "new"
    BY <2>3 DEF HookInv, Unborn
  <2>4. CASE h[1] = r /\ Moves(request[r], x)
    <3>1. request'[h[1]] = x /\ request[h[1]].timeout = x.timeout
      BY <1>1, <2>1, <2>4 DEF Moves
    <3>2. Asked(h[1]) => Asked(h[1])'
      BY <3>1 DEF Asked
    <3>3. Unborn(h)' => Unborn(h)
      <4>1. PICK n, m : n = request[r].at /\ m = x.at
        OBVIOUS
      <4> SUFFICES ASSUME Unborn(h)' PROVE Unborn(h)
        OBVIOUS
      <4>2. x.pc \in {"find", "apply"} /\ m <= h[2]
        BY <2>4, <3>1, <4>1 DEF Unborn, Moves
      <4>3. n <= m /\ n \in 1..2 /\ m \in 1..2
        BY <1>1, <2>4, <4>1, <4>2 DEF Moves
      <4> QED BY <2>1, <2>4, <4>1, <4>2, <4>3 DEF Unborn, Moves
    <3> QED BY <3>2, <3>3 DEF HookInv
  <2> QED BY <2>2, <2>3, <2>4
<1> QED BY <1>2 DEF HookInv

\* A result that starts a goroutine leaves its place behind.
LEMMA NotifyHooks ==
  ASSUME CarryInv, HookInv, NEW r \in Requests, request[r].pc = "apply",
         request' = [request EXCEPT ![r] = Done(request[r])],
         NEW status \in {"success", "failed"}, Notifies(r, status)
  PROVE  HookInv'
<1>1. PICK q, n : q = request[r] /\ n = q.at
  OBVIOUS
<1>2. ReadOK(q) /\ q.pc = "apply" /\ n \in 1..2 /\ <<r, n>> \in Hooks
  <2>1. ReadOK(q)
    BY <1>1 DEF CarryInv
  <2>2. n \in 1..2
    BY <1>1, <2>1 DEF ReadOK
  <2> QED BY <1>1, <2>1, <2>2, HookSlots
<1>3. PICK k : k = [NoHook EXCEPT !.pc = "start", !.task = q.task, !.status = status,
                                  !.event = q.results[q.at].status]
  OBVIOUS
<1>4. /\ k = [pc |-> "start", task |-> q.task, event |-> q.results[q.at].status,
              status |-> status, tries |-> 0]
      /\ k.pc = "start" /\ k.task = q.task
  BY <1>3 DEF NoHook
<1>5. k \in Calls /\ k.task \in Tasks
  <2>1. q.results[q.at].status \in {"delivered", "failed", "rejected"}
    BY <1>1, <1>2 DEF ReadOK, Confirmed
  <2>2. q.task \in Tasks
    BY <1>2 DEF ReadOK
  <2>3. PICK event \in {"delivered", "failed", "rejected"}, t \in Tasks :
          event = q.results[q.at].status /\ t = q.task
    BY <2>1, <2>2
  <2>4. k = [pc |-> "start", task |-> t, event |-> event, status |-> status, tries |-> 0]
    BY <1>4, <2>3
  <2>5. PICK zero \in Int : zero = 0
    OBVIOUS
  <2>6. [pc |-> "start", task |-> t, event |-> event, status |-> status, tries |-> zero] \in Calls
    BY Zenon DEF Calls
  <2> QED BY <1>4, <2>2, <2>4, <2>5, <2>6
<1>6. hook' = [hook EXCEPT ![<<r, n>>] = k]
  BY <1>1, <1>3 DEF Notifies
<1>7. hook' \in [Hooks -> Calls]
  BY <1>5, <1>6 DEF HookInv
<1>8. hook[<<r, n>>].pc = "none"
  <2>1. <<r, n>>[1] = r /\ <<r, n>>[2] = n
    OBVIOUS
  <2> QED BY <1>1, <1>2, <2>1 DEF HookInv, Unborn
<1>9. PICK x : x = Done(q)
  OBVIOUS
<1>10. /\ Moves(q, x) /\ x.pc \in {"find", "apply", "end"}
       /\ x.pc \in {"find", "apply"} => x.at = n + 1
  BY <1>1, <1>2, <1>9, DoneMoves
<1>11. request' = [y \in Requests |-> IF y = r THEN x ELSE request[y]]
  BY <1>1, <1>9 DEF CarryInv
<1>12. ASSUME NEW h \in Hooks PROVE Asked(h[1]) => Asked(h[1])'
  <2> SUFFICES ASSUME NEW g \in Hooks, g[1] = h[1], hook[g].pc \in Started,
                      request[h[1]].timeout = Timeout(hook[g].task)
               PROVE  Asked(h[1])'
    BY DEF Asked
  <2>1. hook'[g] = hook[g]
    BY <1>6, <1>8 DEF Started, HookInv
  <2>2. request'[h[1]].timeout = request[h[1]].timeout
    BY <1>1, <1>10, <1>11, HookParts DEF Moves
  <2> QED BY <2>1, <2>2 DEF Asked
<1>13. ASSUME NEW h \in Hooks
       PROVE /\ Unborn(h)' => hook'[h].pc = "none"
             /\ hook'[h].pc # "none" => hook'[h].task \in Tasks
             /\ hook'[h].pc = "post" => Asked(h[1])'
  <2>1. h[1] \in Requests /\ h[2] \in {1, 2} /\ h = <<h[1], h[2]>>
    BY HookParts
  <2>2. CASE h = <<r, n>>
    <3>1. hook'[h] = k
      BY <1>2, <1>6, <2>2 DEF HookInv
    <3>2. h[1] = r /\ h[2] = n
      BY <2>2
    <3>3. ~Unborn(h)'
      BY <1>2, <1>10, <1>11, <3>2 DEF Unborn
    <3> QED BY <1>4, <1>5, <3>1, <3>3
  <2>3. CASE h # <<r, n>>
    <3>1. hook'[h] = hook[h]
      BY <1>6, <2>3 DEF HookInv
    <3>2. Unborn(h)' => Unborn(h)
      <4> SUFFICES ASSUME Unborn(h)' PROVE Unborn(h)
        OBVIOUS
      <4>1. CASE h[1] # r
        BY <1>11, <2>1, <4>1 DEF Unborn
      <4>2. CASE h[1] = r
        <5>1. request'[h[1]] = x
          BY <1>11, <2>1, <4>2
        <5>2. n + 1 <= h[2]
          BY <1>10, <5>1 DEF Unborn
        <5> QED BY <1>1, <1>2, <2>1, <4>2, <5>2 DEF Unborn
      <4> QED BY <4>1, <4>2
    <3> QED BY <1>12, <3>1, <3>2 DEF HookInv
  <2> QED BY <2>2, <2>3
<1> QED BY <1>7, <1>13 DEF HookInv

\* Every step of a request.
LEMMA ReportHooks ==
  ASSUME CarryInv, HookInv, NEW r \in Requests, Report(r)
  PROVE  HookInv'
<1>1. ReadOK(request[r])
  BY DEF CarryInv
<1>2. CASE Receive(r)
  <2>1. PICK x : request' = [request EXCEPT ![r] = x]
    <3>1. request' = [request EXCEPT ![r] = request'[r]]
      BY <1>2, Zenon DEF Receive, CarryInv
    <3> QED BY <3>1
  <2> QED BY <1>2, <2>1, MoveHooks DEF Receive
<1>3. CASE Find(r)
  <2>1. request[r].pc = "find" /\ UNCHANGED hook
    BY <1>3 DEF Find
  <2>2. \/ request' = [request EXCEPT ![r] = Done(request[r])]
        \/ \E l \in logs :
             request' = [request EXCEPT ![r] =
               Reading("apply", request[r].account, request[r].results, request[r].at,
                       l.task, row[l.task], request[r].timeout)]
    BY <1>3, Zenon DEF Find, LogOf
  <2>3. CASE request' = [request EXCEPT ![r] = Done(request[r])]
    BY <1>1, <2>1, <2>3, DoneMoves, MoveHooks
  <2>4. ASSUME NEW l \in logs,
               request' = [request EXCEPT ![r] =
                 Reading("apply", request[r].account, request[r].results, request[r].at,
                         l.task, row[l.task], request[r].timeout)]
        PROVE  HookInv'
    <3>1. PICK x : x = Reading("apply", request[r].account, request[r].results,
                               request[r].at, l.task, row[l.task], request[r].timeout)
      OBVIOUS
    <3>2. x.pc = "apply" /\ x.at = request[r].at /\ x.timeout = request[r].timeout
      BY <3>1 DEF Reading
    <3>3. Moves(request[r], x)
      BY <1>1, <2>1, <3>2 DEF Moves, ReadOK
    <3> QED BY <2>1, <2>4, <3>1, <3>3, MoveHooks
  <2> QED BY <2>2, <2>3, <2>4
<1>4. CASE ApplyDelivered(r) \/ ApplyFailed(r)
  <2>1. request[r].pc = "apply" /\ request' = [request EXCEPT ![r] = Done(request[r])]
    BY <1>4 DEF ApplyDelivered, ApplyFailed
  <2>2. UNCHANGED hook \/ \E status \in {"success", "failed"} : Notifies(r, status)
    BY <1>4 DEF ApplyDelivered, ApplyFailed
  <2>3. CASE UNCHANGED hook
    BY <1>1, <2>1, <2>3, DoneMoves, MoveHooks
  <2> QED BY <2>1, <2>2, <2>3, NotifyHooks
<1> QED BY <1>2, <1>3, <1>4 DEF Report

\* A goroutine that goes on from a place where it had a task to where it has.
LEMMA GoesOn ==
  ASSUME HookInv, NEW h \in Hooks, NEW k \in Calls, hook' = [hook EXCEPT ![h] = k],
         hook[h].pc \in {"start", "post"}, UNCHANGED request,
         k.pc \in Started, k.task = hook[h].task, k.pc = "post" => hook[h].pc = "post"
  PROVE  HookInv'
<1>1. hook' \in [Hooks -> Calls]
  BY DEF HookInv
<1>2. ASSUME NEW g \in Hooks PROVE Asked(g[1]) => Asked(g[1])'
  <2> SUFFICES ASSUME NEW f \in Hooks, f[1] = g[1], hook[f].pc \in Started,
                      request[g[1]].timeout = Timeout(hook[f].task)
               PROVE  Asked(g[1])'
    BY DEF Asked
  <2>1. hook'[f].pc \in Started /\ hook'[f].task = hook[f].task
    BY DEF HookInv
  <2> QED BY <2>1 DEF Asked
<1>3. ASSUME NEW g \in Hooks
      PROVE /\ Unborn(g)' => hook'[g].pc = "none"
            /\ hook'[g].pc # "none" => hook'[g].task \in Tasks
            /\ hook'[g].pc = "post" => Asked(g[1])'
  <2>1. Unborn(g)' <=> Unborn(g)
    BY DEF Unborn
  <2>2. hook'[g] = IF g = h THEN k ELSE hook[g]
    BY DEF HookInv
  <2> QED BY <1>2, <2>1, <2>2 DEF HookInv
<1> QED BY <1>1, <1>3 DEF HookInv

\* Every step of a goroutine.
LEMMA WebhookHooks ==
  ASSUME CarryInv, HookInv, NEW h \in Hooks, Webhook(h)
  PROVE  HookInv'
<1>1. hook[h] \in Calls /\ h[1] \in Requests
  BY HookParts DEF HookInv
<1>2. CASE Post(h) \/ HookLost(h)
  <2>1. UNCHANGED request /\ hook[h].pc \in {"start", "post"}
    BY <1>2 DEF Post, HookLost, reportVars
  <2>2. PICK k \in Calls : /\ hook' = [hook EXCEPT ![h] = k]
                           /\ k.pc \in Started /\ k.task = hook[h].task
                           /\ k.pc = "post" => hook[h].pc = "post"
    <3>1. \/ \E pc \in {"told", "unheard", "lost"} : End(h, pc)
          \/ hook[h].pc = "post" /\ hook' = [hook EXCEPT ![h].tries = @ + 1]
      BY <1>2 DEF Post, HookLost, End
    <3>2. ASSUME NEW pc \in {"told", "unheard", "lost"}, End(h, pc)
          PROVE \E k \in Calls : /\ hook' = [hook EXCEPT ![h] = k]
                                 /\ k.pc \in Started /\ k.task = hook[h].task
                                 /\ k.pc = "post" => hook[h].pc = "post"
      <4>1. PICK k : k = [hook[h] EXCEPT !.pc = pc, !.tries = 0]
        OBVIOUS
      <4>2. k \in Calls /\ k.pc = pc /\ k.task = hook[h].task
        <5>1. PICK c \in Calls : c = hook[h]
          BY <1>1
        <5>2. k = [pc |-> pc, task |-> c.task, event |-> c.event, status |-> c.status,
                   tries |-> 0]
          BY <4>1, <5>1 DEF Calls
        <5>3. PICK n \in Int : n = 0
          OBVIOUS
        <5>4. [pc |-> pc, task |-> c.task, event |-> c.event, status |-> c.status,
               tries |-> n] \in Calls
          BY Zenon DEF Calls, Started
        <5> QED BY <5>1, <5>2, <5>3, <5>4
      <4>3. hook' = [hook EXCEPT ![h] = k]
        BY <3>2, <4>1 DEF End
      <4> QED BY <4>2, <4>3 DEF Started
    <3>3. ASSUME hook[h].pc = "post", hook' = [hook EXCEPT ![h].tries = @ + 1]
          PROVE \E k \in Calls : /\ hook' = [hook EXCEPT ![h] = k]
                                 /\ k.pc \in Started /\ k.task = hook[h].task
                                 /\ k.pc = "post" => hook[h].pc = "post"
      <4>1. PICK k : k = [hook[h] EXCEPT !.tries = @ + 1]
        OBVIOUS
      <4>2. k \in Calls /\ k.pc = hook[h].pc /\ k.task = hook[h].task
        <5>1. PICK c \in Calls : c = hook[h]
          BY <1>1
        <5>2. k = [pc |-> c.pc, task |-> c.task, event |-> c.event, status |-> c.status,
                   tries |-> c.tries + 1]
          BY <4>1, <5>1 DEF Calls
        <5>3. PICK n \in Int : n = c.tries + 1
          <6>1. c.tries \in Int
            BY Zenon DEF Calls
          <6> QED BY <6>1
        <5>4. [pc |-> c.pc, task |-> c.task, event |-> c.event, status |-> c.status,
               tries |-> n] \in Calls
          BY Zenon DEF Calls
        <5> QED BY <5>1, <5>2, <5>3, <5>4
      <4>3. hook' = [hook EXCEPT ![h] = k]
        BY <3>3, <4>1
      <4> QED BY <3>3, <4>2, <4>3 DEF Started
    <3> QED BY <3>1, <3>2, <3>3
  <2> QED BY <2>1, <2>2, GoesOn
<1>3. CASE Start(h) /\ Subscribed(hook[h].task, hook[h].event)
  <2>1. PICK k : k = [hook[h] EXCEPT !.pc = "post"]
    OBVIOUS
  <2>2. k \in Calls /\ k.pc = "post" /\ k.task = hook[h].task
    BY <1>1, <2>1 DEF Calls, Started
  <2>3. hook' = [hook EXCEPT ![h] = k] /\ hook[h].pc = "start"
    BY <1>3, <2>1 DEF Start
  <2>4. PICK q, x : /\ q = request[h[1]]
                    /\ x = Reading(q.pc, q.account, q.results, q.at, q.task, q.old,
                                   Timeout(hook[h].task))
                    /\ request' = [request EXCEPT ![h[1]] = x]
    BY <1>3 DEF Start
  <2>5. x.pc = q.pc /\ x.at = q.at /\ x.timeout = Timeout(k.task)
    BY <2>2, <2>4 DEF Reading
  <2>6. request' = [y \in Requests |-> IF y = h[1] THEN x ELSE request[y]]
    BY <2>4 DEF CarryInv
  <2>7. hook' = [g \in Hooks |-> IF g = h THEN k ELSE hook[g]]
    BY <2>3 DEF HookInv
  <2>8. Asked(h[1])'
    BY <1>1, <2>2, <2>5, <2>6, <2>7 DEF Asked, Started
  <2>9. ASSUME NEW g \in Hooks, g[1] # h[1], Asked(g[1]) PROVE Asked(g[1])'
    <3>1. PICK f \in Hooks : /\ f[1] = g[1] /\ hook[f].pc \in Started
                             /\ request[g[1]].timeout = Timeout(hook[f].task)
      BY <2>9 DEF Asked
    <3>2. hook'[f] = hook[f] /\ request'[g[1]] = request[g[1]]
      BY <2>6, <2>7, <2>9, <3>1, HookParts
    <3> QED BY <3>1, <3>2 DEF Asked
  <2>10. ASSUME NEW g \in Hooks
         PROVE /\ Unborn(g)' => hook'[g].pc = "none"
               /\ hook'[g].pc # "none" => hook'[g].task \in Tasks
               /\ hook'[g].pc = "post" => Asked(g[1])'
    <3>1. Unborn(g)' => Unborn(g)
      <4>1. g[1] \in Requests
        BY HookParts
      <4>2. request'[g[1]].pc = request[g[1]].pc /\ request'[g[1]].at = request[g[1]].at
        <5>1. CASE g[1] = h[1]
          BY <1>1, <2>4, <2>5, <2>6, <5>1
        <5>2. CASE g[1] # h[1]
          BY <2>6, <4>1, <5>2
        <5> QED BY <5>1, <5>2
      <4> QED BY <4>2 DEF Unborn
    <3>2. CASE g = h
      BY <2>2, <2>3, <2>7, <2>8, <3>1, <3>2 DEF HookInv
    <3>3. CASE g # h
      BY <2>7, <2>8, <2>9, <3>1, <3>3 DEF HookInv
    <3> QED BY <3>2, <3>3
  <2>11. hook' \in [Hooks -> Calls]
    BY <2>2, <2>7 DEF HookInv
  <2> QED BY <2>10, <2>11 DEF HookInv
<1>4. CASE Start(h) /\ ~Subscribed(hook[h].task, hook[h].event)
  <2>1. hook' = [hook EXCEPT ![h] = NoHook] /\ UNCHANGED request /\ hook[h].pc = "start"
    BY <1>4 DEF Start
  <2>2. NoHook \in Calls /\ NoHook.pc = "none"
    BY DEF NoHook, Calls
  <2>3. hook' = [g \in Hooks |-> IF g = h THEN NoHook ELSE hook[g]]
    BY <2>1 DEF HookInv
  <2> HIDE DEF NoHook
  <2>4. ASSUME NEW g \in Hooks, Asked(g[1]) PROVE Asked(g[1])'
    <3>1. PICK f \in Hooks : /\ f[1] = g[1] /\ hook[f].pc \in Started
                             /\ request[g[1]].timeout = Timeout(hook[f].task)
      BY <2>4 DEF Asked
    <3>2. hook'[f] = hook[f]
      BY <2>1, <2>3, <3>1 DEF Started
    <3> QED BY <2>1, <3>1, <3>2 DEF Asked
  <2>5. ASSUME NEW g \in Hooks PROVE Unborn(g)' => Unborn(g)
    BY <2>1 DEF Unborn
  <2>6. hook' \in [Hooks -> Calls]
    BY <2>2, <2>3 DEF HookInv
  <2> QED BY <2>2, <2>3, <2>4, <2>5, <2>6 DEF HookInv
<1> QED BY <1>2, <1>3, <1>4 DEF Webhook, Start

LEMMA InitHooks == Init => HookInv
<1>1. NoHook \in Calls /\ NoHook.pc = "none"
  BY DEF NoHook, Calls
<1> HIDE DEF NoHook
<1> QED BY <1>1 DEF Init, HookInv

LEMMA NextHooks == CarryInv /\ HookInv /\ [Next]_vars => HookInv'
<1> SUFFICES ASSUME CarryInv, HookInv, [Next]_vars PROVE HookInv'
  OBVIOUS
<1>1. CASE Tick \/ UNCHANGED vars \/ \E w \in Workers : Step(w)
  <2>1. UNCHANGED <<hook, request>>
    <3>1. CASE Tick \/ UNCHANGED vars
      BY <3>1 DEF Tick, vars, reportVars
    <3>2. ASSUME NEW w \in Workers, Step(w) PROVE UNCHANGED <<hook, request>>
      BY <3>2 DEF Step, Begin, GetToken, FetchToken, StoreToken, Call, Save, Record,
                  Evaluate, Abort, reportVars
    <3> QED BY <1>1, <3>1, <3>2
  <2>2. \A h \in Hooks : (Unborn(h)' => Unborn(h)) /\ (Asked(h[1]) => Asked(h[1])')
    BY <2>1 DEF Unborn, Asked
  <2> QED BY <2>1, <2>2 DEF HookInv
<1>2. ASSUME NEW r \in Requests, Report(r) PROVE HookInv'
  BY <1>2, ReportHooks
<1>3. ASSUME NEW h \in Hooks, Webhook(h) PROVE HookInv'
  BY <1>3, WebhookHooks
<1> QED BY <1>1, <1>2, <1>3 DEF Next

\* A task is a success only if a provider took a message of it and, where it
\* reports, said that very message was delivered: on the way from the answer over
\* the row, the log and the copy a request reads nothing else makes a success
\* (MessageHandler.handleSuccess, CallbackService.processCallbackResult).
THEOREM SuccessIsCarriedHolds == ASSUME Named PROVE Spec => []SuccessIsCarried
<1>1. CarryInv /\ HookInv => SuccessIsCarried
  <2> SUFFICES ASSUME CarryInv, HookInv PROVE SuccessIsCarried
    OBVIOUS
  <2>1. \A t \in Tasks : row[t] = "success" => Carried(t)
    BY Named DEF CarryInv, RowsOK
  <2>2. \A h \in Hooks : hook[h].pc \in {"none", "start", "post", "told", "unheard", "lost"}
    BY DEF HookInv, Calls, Started
  <2>3. TypeOK
    BY <2>2 DEF CarryInv, RowsOK, Messages, WorkOK, ReadOK, TypeOK
  <2> QED BY <2>1, <2>3 DEF SuccessIsCarried, Carried, Chat
<1> QED BY <1>1, InitCarries, NextCarries, InitHooks, NextHooks, PTL DEF Spec

\* An attempt waits as long as an application asked for that one of the goroutines
\* of the request runs for: the client they share has no timeout left from
\* another request, nor the default (WebhookService.sendWebhook).
THEOREM OwnTimeoutHolds == Spec => OwnTimeout
<1>1. HookInv =>
        [\A h \in Hooks :
           LET asked == {Timeout(hook[g].task) : g \in
                           {g \in Hooks : g[1] = h[1] /\ hook[g].task # None}}
           IN  hook[h].pc = "post" /\ hook'[h].pc \in {"post", "told", "unheard"}
                 => request[h[1]].timeout \in asked]_vars
  <2> SUFFICES ASSUME HookInv, NEW h \in Hooks, hook[h].pc = "post"
               PROVE  request[h[1]].timeout \in
                        {Timeout(hook[g].task) : g \in
                           {g \in Hooks : g[1] = h[1] /\ hook[g].task # None}}
    OBVIOUS
  <2>1. PICK g \in Hooks : /\ g[1] = h[1] /\ hook[g].pc \in Started
                           /\ request[h[1]].timeout = Timeout(hook[g].task)
    BY DEF HookInv, Asked
  <2>2. hook[g].task # None
    BY <2>1, SendersAssumption DEF HookInv, Started
  <2> QED BY <2>1, <2>2
<1> QED BY <1>1, InitCarries, NextCarries, InitHooks, NextHooks, PTL DEF Spec, OwnTimeout

-----------------------------------------------------------------------------
(* The values on the wire *)

\* The last item of a mapping for a variable, as SelectLastInSeq finds it.
Own(mapping, v) ==
  LET I == {i \in 1..Len(mapping) : mapping[i].provider = v}
  IN  IF I # {} THEN Max(I) ELSE 0

\* What ParamsInPlace says of one worker.
Placed(k) ==
  LET b == Binding(k.binding) IN
  k.wire # <<>> /\ b.content # <<>> =>
    /\ Len(k.wire) = Len(b.content)
    /\ \A i \in DOMAIN b.content :
         k.wire[i] = LET own == Own(b.mapping, b.content[i])
                     IN  IF own = 0 THEN ""
                         ELSE Value(b.mapping[own], Params[k.task])

\* And that whoever is to send has a binding.
PlaceInv ==
  /\ work = [w \in Workers |-> work[w]]
  /\ \A w \in Workers : /\ Placed(work[w])
                        /\ work[w].pc \in {"token", "fetch", "store", "call"}
                             => work[w].binding \in DOMAIN Bindings

\* A nonempty set of positions has a last one, and Max is it.
LEMMA LastPosition ==
  ASSUME NEW n \in Nat, NEW I \in SUBSET (1..n), I # {}
  PROVE  Max(I) \in I
<1> DEFINE R == {p \in Nat \X Nat : p[1] < p[2]}
           J == {n - i : i \in I}
<1>1. IsWellFoundedOn(R, Nat)
  BY NatLessThanWellFounded DEF OpToRel
<1>2. J \subseteq Nat /\ J # {}
  <2>1. \A i \in I : n - i \in Nat
    OBVIOUS
  <2> QED BY <2>1
<1>3. PICK j \in J : \A k \in J : ~(<<k, j>> \in R)
  <2> HIDE DEF R, J
  <2> QED BY <1>1, <1>2, WFMin
<1>4. PICK m \in I : j = n - m
  BY <1>3
<1>5. \A i \in I : m >= i
  <2>1. SUFFICES ASSUME NEW i \in I PROVE m >= i
    OBVIOUS
  <2>2. n - i \in J /\ n - i \in Nat /\ j \in Nat
    BY <1>2, <1>3
  <2>3. ~(n - i < j)
    BY <1>3, <2>2
  <2> QED BY <1>4, <2>3
<1> QED BY <1>4, <1>5 DEF Max

\* The item of a mapping for a variable is one of its items, or there is none.
LEMMA OwnItem ==
  ASSUME NEW b \in DOMAIN Bindings, NEW v
  PROVE  Own(Bindings[b].mapping, v) = 0
           <=> v \notin {Bindings[b].mapping[i].provider : i \in DOMAIN Bindings[b].mapping}
<1> DEFINE mapping == Bindings[b].mapping
           I == {i \in 1..Len(mapping) : mapping[i].provider = v}
<1>1. DOMAIN mapping = 1..Len(mapping) /\ Len(mapping) \in Nat
  BY BindingsAssumption
<1>2. Own(mapping, v) = IF I # {} THEN Max(I) ELSE 0
  BY DEF Own
<1>3. I \subseteq 1..Len(mapping)
  OBVIOUS
<1>4. I = {} <=> v \notin {mapping[i].provider : i \in DOMAIN mapping}
  BY <1>1
<1>5. I # {} => Max(I) # 0
  <2> HIDE DEF I
  <2>1. I # {} => Max(I) \in I
    BY <1>1, <1>3, LastPosition
  <2> QED BY <1>1, <1>3, <2>1
<1> QED BY <1>2, <1>4, <1>5

\* In the order of the placeholders, each has the value of its item.
LEMMA InOrderPlaces ==
  ASSUME NEW b \in DOMAIN Bindings, NEW t, NEW k, k.binding = b, k.task = t,
         NEW mapped, mapped = MapParams(Params[t], Bindings[b].mapping),
         k.wire = InOrder(Bindings[b].content, mapped)
  PROVE  Placed(k)
<1> DEFINE content == Bindings[b].content
           mapping == Bindings[b].mapping
<1>1. content \in Seq({content[i] : i \in DOMAIN content})
  BY BindingsAssumption
<1>2. Len(k.wire) = Len(content) /\ DOMAIN k.wire = DOMAIN content
  <2>1. PICK n \in Nat : n = Len(content) /\ DOMAIN content = 1..n
    BY <1>1
  <2>2. k.wire = [i \in 1..n |-> k.wire[i]]
    BY <2>1 DEF InOrder
  <2>3. PICK f, S : f = k.wire /\ S = {k.wire[i] : i \in 1..n}
    OBVIOUS
  <2>4. f \in [1..n -> S]
    BY <2>2, <2>3
  <2>5. f \in Seq(S) /\ DOMAIN f = 1..n
    BY <2>4
  <2>6. Len(f) = n
    BY <2>4, <2>5
  <2> QED BY <2>1, <2>3, <2>5, <2>6
<1>3. ASSUME NEW i \in DOMAIN content, NEW own, own = Own(mapping, content[i])
      PROVE  k.wire[i] = IF own = 0 THEN "" ELSE Value(mapping[own], Params[t])
  <2>1. k.wire[i] = IF content[i] \in DOMAIN mapped THEN mapped[content[i]] ELSE ""
    BY DEF InOrder
  <2>2. DOMAIN mapped = {mapping[j].provider : j \in DOMAIN mapping}
    BY DEF MapParams
  <2>3. own = 0 <=> content[i] \notin DOMAIN mapped
    BY <1>3, <2>2, OwnItem
  <2>4. content[i] \in DOMAIN mapped => mapped[content[i]] = Value(mapping[own], Params[t])
    BY <1>3, <2>2 DEF MapParams, SelectLastInSeq, Own
  <2> QED BY <2>1, <2>3, <2>4
<1> QED BY <1>2, <1>3 DEF Placed, Binding

\* Whatever a sender by position puts on the wire.
LEMMA PositionsPlaced ==
  ASSUME NEW code, NEW k, k.binding \in DOMAIN Bindings,
         k.wire \in Positions(code, Binding(k.binding), Params[k.task])
  PROVE  Placed(k)
<1> DEFINE b == k.binding
           mapped == MapParams(Params[k.task], Bindings[b].mapping)
<1>1. CASE k.wire = <<>>
  BY <1>1 DEF Placed
<1>2. CASE Bindings[b].content = <<>>
  BY <1>2 DEF Placed, Binding
<1>3. CASE k.wire # <<>> /\ Bindings[b].content # <<>>
  <2>1. Bindings[b].text
    BY <1>3, BindingsAssumption
  <2>2. k.wire = InOrder(Bindings[b].content, mapped)
    BY <1>3, <2>1 DEF Positions, TencentParams, ZrwinfoParams, Binding
  <2> QED BY <2>2, InOrderPlaces
<1> QED BY <1>1, <1>2, <1>3

\* A worker whose place is taken by one whose values are in place.
LEMMA ReplacedPlaces ==
  ASSUME PlaceInv, NEW w \in Workers, NEW k, work' = [work EXCEPT ![w] = k], Placed(k),
         k.pc \in {"token", "fetch", "store", "call"} => k.binding \in DOMAIN Bindings
  PROVE  PlaceInv'
<1>1. \A v \in Workers : work'[v] = IF v = w THEN k ELSE work[v]
  BY DEF PlaceInv
<1>2. work' = [v \in Workers |-> work'[v]]
  BY DEF PlaceInv
<1>3. \A v \in Workers : Placed(work'[v])
  BY <1>1 DEF PlaceInv
<1> QED BY <1>1, <1>2, <1>3 DEF PlaceInv, Placed

\* Before the provider answers nothing is on the wire.
LEMMA ProceedPlaces ==
  ASSUME PlaceInv, NEW w \in Workers, NEW pc, NEW token, NEW since, Proceed(w, pc, token, since),
         work[w].pc \in {"token", "fetch", "store"}
  PROVE  PlaceInv'
<1>1. PICK k : k = Sending(pc, work[w].task, work[w].account, work[w].binding, token, since)
  OBVIOUS
<1>2. k.wire = <<>> /\ k.binding = work[w].binding
  BY <1>1 DEF Sending
<1>3. Placed(k)
  BY <1>2 DEF Placed
<1> QED BY <1>1, <1>2, <1>3, ReplacedPlaces DEF Proceed, PlaceInv

\* Every step of a worker.
LEMMA StepPlaces ==
  ASSUME PlaceInv, NEW w \in Workers, Step(w)
  PROVE  PlaceInv'
<1> DEFINE k == work[w]
<1>1. CASE Begin(w)
  <2>1. PICK t \in queued : \E a \in Via[t], b \in DOMAIN Bindings :
          work' = [work EXCEPT ![w] = Sending(Entry(a), t, a, b, None, 0)]
    BY <1>1 DEF Begin
  <2>2. PICK a \in Via[t], b \in DOMAIN Bindings :
          work' = [work EXCEPT ![w] = Sending(Entry(a), t, a, b, None, 0)]
    BY <2>1
  <2>3. PICK j : j = Sending(Entry(a), t, a, b, None, 0)
    OBVIOUS
  <2>4. j.wire = <<>> /\ j.binding = b
    BY <2>3 DEF Sending
  <2> QED BY <2>2, <2>3, <2>4, ReplacedPlaces DEF Placed
<1>2. CASE GetToken(w) \/ FetchToken(w) \/ StoreToken(w)
  <2>1. k.pc \in {"token", "fetch", "store"}
    BY <1>2 DEF GetToken, FetchToken, StoreToken
  <2>2. \E pc, token, since : Proceed(w, pc, token, since)
    BY <1>2, Zenon DEF GetToken, FetchToken, StoreToken
  <2> QED BY <2>1, <2>2, ProceedPlaces
<1>3. CASE Call(w)
  <2>1. PICK res, wire :
          /\ work' = [work EXCEPT ![w] = Answered(Exit(res), k.task, k.binding, res, wire)]
          /\ wire \in Positions(account[k.account].code, Binding(k.binding), Params[k.task])
    BY <1>3 DEF Call
  <2>2. PICK j : j = Answered(Exit(res), k.task, k.binding, res, wire)
    OBVIOUS
  <2>3. j.pc = Exit(res) /\ j.task = k.task /\ j.binding = k.binding /\ j.wire = wire
    BY <2>2 DEF Answered
  <2>4. k.binding \in DOMAIN Bindings
    BY <1>3 DEF Call, PlaceInv
  <2>5. Placed(j)
    BY <2>1, <2>3, <2>4, PositionsPlaced
  <2> QED BY <2>1, <2>2, <2>3, <2>4, <2>5, ReplacedPlaces
<1>4. CASE Save(w)
  <2>1. PICK j : j = Answered("log", k.task, k.binding, k.res, <<>>)
    OBVIOUS
  <2>2. j.pc = "log" /\ j.wire = <<>>
    BY <2>1 DEF Answered
  <2>3. work' = [work EXCEPT ![w] = j]
    BY <1>4, <2>1 DEF Save
  <2> QED BY <2>2, <2>3, ReplacedPlaces DEF Placed
<1>5. CASE Record(w) \/ Evaluate(w) \/ Abort(w)
  <2>1. Idle.pc = "idle" /\ Idle.wire = <<>>
    BY DEF Idle, Sending
  <2>2. work' = [work EXCEPT ![w] = Idle]
    BY <1>5 DEF Record, Evaluate, Abort
  <2> HIDE DEF Idle
  <2> QED BY <2>1, <2>2, ReplacedPlaces DEF Placed
<1> QED BY <1>1, <1>2, <1>3, <1>4, <1>5 DEF Step

\* Requests, webhooks and the clock leave the workers alone.
LEMMA NextPlaces == PlaceInv /\ [Next]_vars => PlaceInv'
<1> SUFFICES ASSUME PlaceInv, [Next]_vars PROVE PlaceInv'
  OBVIOUS
<1>1. CASE \E w \in Workers : Step(w)
  BY <1>1, StepPlaces
<1>2. CASE UNCHANGED work
  BY <1>2 DEF PlaceInv, Placed
<1>3. ASSUME NEW r \in Requests, Report(r) PROVE UNCHANGED work
  BY <1>3 DEF Report, Receive, Find, ApplyDelivered, ApplyFailed, workVars
<1>4. ASSUME NEW h \in Hooks, Webhook(h) PROVE UNCHANGED work
  BY <1>4 DEF Webhook, Start, Post, HookLost, workVars
<1>5. CASE Tick \/ UNCHANGED vars
  BY <1>2, <1>5 DEF Tick, vars, workVars
<1> QED BY <1>1, <1>2, <1>3, <1>4, <1>5 DEF Next

\* The value at each place of the provider's template is the one the mapping gives
\* to that place, "" where it gives none: whatever the mapping lists, in whatever
\* order and however often (buildParamsFromMapping, buildContentFromMapping).
THEOREM ParamsInPlaceHolds == Spec => []ParamsInPlace
<1>1. Init => PlaceInv
  <2>1. Idle.pc = "idle" /\ Idle.wire = <<>>
    BY DEF Idle, Sending
  <2> HIDE DEF Idle
  <2> QED BY <2>1 DEF Init, PlaceInv, Placed
<1>2. PlaceInv => ParamsInPlace
  BY DEF PlaceInv, Placed, ParamsInPlace, SelectLastInSeq, Own
<1> QED BY <1>1, <1>2, NextPlaces, PTL DEF Spec
=============================================================================
