------------------------------- MODULE Notify -------------------------------
(***************************************************************************)
(* From a provider's answer to the application's server: workers send      *)
(* through accounts of different providers, the answers become rows of     *)
(* push_tasks and push_logs, the reports find a task through push_logs,    *)
(* and a change of status becomes a webhook call. What a task goes through *)
(* before and between its sends is in Delivery.                            *)
(***************************************************************************)
EXTENDS Senders, FiniteSets

CONSTANTS
  Tasks,
  Via,              \* the accounts each task may be sent through
  Fleets,           \* the accounts there may be: account -> [code, config, posts]
  Bindings,         \* provider templates: [template, text, content, mapping]
  Params,           \* parameters the application gave each task
  Config,           \* task -> row of webhook_configs of its application
  Workers,
  SendActions,      \* what the rules for scene send_failure may decide
  CallbackActions,  \* what the rules for scene callback_failure may decide
  Answers,          \* kinds of answers a provider code gives
  Rests,            \* lifetimes (expires_in) a token may be given out with
  Margin,           \* the 200 seconds taken off before a token is cached
  Slack,            \* bound: nobody dawdles with a token for longer
  MaxTime,          \* bound: the clock stops here
  MaxSends,         \* bound: sends of all tasks together
  MaxReports,       \* bound: reports, alone or several in a request
  MaxFaults,        \* bound: failed accesses and crashes
  None

\* No account is called as the ids are that SMTPSender makes up.
ASSUME SendersAssumption ==
  /\ \A fleet \in Fleets :
       /\ Via \in [Tasks -> SUBSET DOMAIN fleet]
       /\ \A a \in DOMAIN fleet : fleet[a].code \in Codes
       /\ "smtp" \notin DOMAIN fleet
  /\ SendActions \cup CallbackActions \subseteq {"retry", "fail"}
  /\ None \notin Tasks /\ MaxFaults \in Nat

\* A provider's template without text has no placeholders.
ASSUME BindingsAssumption ==
  \A b \in DOMAIN Bindings :
    LET k == Bindings[b] IN
    /\ k.content \in Seq({k.content[i] : i \in DOMAIN k.content})
    /\ k.mapping \in Seq({k.mapping[i] : i \in DOMAIN k.mapping})
    /\ k.content # <<>> => k.text

\* 200 seconds are longer than storing a token and using it take together.
ASSUME MarginAssumption ==
  /\ Rests \subseteq Nat /\ Margin \in Nat /\ Slack \in Nat
  /\ 2 * Slack <= Margin

Requests == 1..MaxReports

\* Each result of a request may start one goroutine.
Hooks == Requests \X {1, 2}

VARIABLES
  now,
  account,   \* provider_accounts: [code, config, posts]
  cache,     \* Redis: dingtalk:token:..., wechat:token:...: [expires, until]
  work,      \* where each worker is in Handle and Send, with its variables
  row,       \* status in push_tasks
  queued,    \* tasks with an entry on the stream
  logs,      \* push_logs: [task, id], of each id the first row alone
  taken,     \* messages providers accepted: [task, account, id]
  reports,   \* reports posted so far
  verdict,   \* what a provider will say of a message
  request,   \* where each callback request is, with its service's HTTP client
  hook,      \* goroutines of NotifyStatusChange
  sends,     \* sends begun so far
  touched,   \* history: ids of the reports that changed a task's row
  stale,     \* history: a call used a token that was no longer good
  faults

workVars == <<cache, work, queued, taken, sends, stale>>
reportVars == <<request, reports, verdict, touched>>
vars == <<now, account, workVars, row, logs, reportVars, hook, faults>>

\* A worker before the provider answers: since when it has which token.
Sending(pc, t, a, b, token, since) ==
  [pc |-> pc, task |-> t, account |-> a, binding |-> b,
   token |-> token, since |-> since, res |-> GoError, wire |-> <<>>]

\* After that, with what Send answered and what went out.
Answered(pc, t, b, res, wire) ==
  [pc |-> pc, task |-> t, account |-> None, binding |-> b,
   token |-> None, since |-> 0, res |-> res, wire |-> wire]

Idle == Sending("idle", None, None, None, None, 0)

\* A request: its results, the one it is at, the task and status it read for it.
Reading(pc, a, results, at, t, old, timeout) ==
  [pc |-> pc, account |-> a, results |-> results, at |-> at, task |-> t,
   old |-> old, timeout |-> timeout]

Fresh == Reading("new", None, <<>>, 1, None, "", 10)

NoHook == [pc |-> "none", task |-> None, event |-> "", status |-> "",
           tries |-> 0]

Init ==
  /\ now = 0
  /\ account \in Fleets
  /\ cache = [a \in DOMAIN account |-> None]
  /\ work = [w \in Workers |-> Idle]
  /\ row = [t \in Tasks |-> "pending"]
  /\ queued = Tasks
  /\ logs = {}
  /\ taken = {}
  /\ reports = 0
  /\ verdict = <<>>
  /\ request = [r \in Requests |-> Fresh]
  /\ hook = [h \in Hooks |-> NoHook]
  /\ sends = 0
  /\ touched = [t \in Tasks |-> {}]
  /\ stale = FALSE
  /\ faults = 0

Fault == faults < MaxFaults /\ faults' = faults + 1

\* Time passes where it matters: to the tokens of accounts without reports,
\* which do not read the clock. Nobody takes longer than Slack between getting a
\* token and using it, or between getting one and storing it.
Tick ==
  /\ now < MaxTime
  /\ \E a \in DOMAIN account : NeedsToken(account[a]) /\ ~account[a].posts
  /\ \A w \in Workers :
       work[w].pc \in {"store", "call"} => now - work[w].since < Slack
  /\ now' = now + 1
  /\ UNCHANGED <<account, workVars, row, logs, reportVars, hook, faults>>

-----------------------------------------------------------------------------
(* A worker: MessageHandler.Handle from the chosen binding on              *)

Binding(b) == Bindings[b]

\* Where a Send goes next: to the token, to the provider or straight back.
Entry(a) ==
  CASE NeedsToken(account[a]) /\ Usable(account[a]) -> "token"
    [] NeedsToken(account[a]) /\ ~Usable(account[a]) -> "abort"
    [] OTHER -> "call"

\* Handle takes an entry and the selector answers a binding of an account.
Begin(w) ==
  /\ work[w].pc = "idle"
  /\ \E t \in queued : \E a \in Via[t], b \in DOMAIN Bindings :
       /\ sends < MaxSends /\ sends' = sends + 1
       /\ queued' = queued \ {t}
       /\ row' = [row EXCEPT ![t] = "processing"]
       /\ work' = [work EXCEPT ![w] = Sending(Entry(a), t, a, b, None, 0)]
  /\ UNCHANGED <<now, account, cache, logs, taken, reportVars, hook,
                 stale, faults>>

\* On with the same Send.
Proceed(w, pc, token, since) ==
  work' = [work EXCEPT ![w] =
             Sending(pc, work[w].task, work[w].account, work[w].binding, token, since)]

Cached(a) == cache[a] # None /\ now < cache[a].until

\* getAccessToken reads Redis; an error there is a miss.
GetToken(w) ==
  LET a == work[w].account IN
  /\ work[w].pc = "token"
  /\ \/ Cached(a) /\ Proceed(w, "call", cache[a].expires, now) /\ UNCHANGED faults
     \/ ~Cached(a) /\ Proceed(w, "fetch", None, 0) /\ UNCHANGED faults
     \/ Fault /\ Proceed(w, "fetch", None, 0)
  /\ UNCHANGED <<now, account, cache, row, queued, logs, taken, reportVars, hook,
                  sends, stale>>

\* The provider hands out a token that is good for rest more instants; a token
\* is known by the instant it ends at. Any failure ends the Send with an error.
FetchToken(w) ==
  /\ work[w].pc = "fetch"
  /\ \/ /\ \E rest \in Rests : Proceed(w, "store", now + rest, now)
        /\ UNCHANGED faults
     \/ Fault /\ Proceed(w, "abort", None, 0)
  /\ UNCHANGED <<now, account, cache, row, queued, logs, taken, reportVars, hook,
                  sends, stale>>

\* Mutant of Until: the token is cached for its whole life.
UntilItEnds(token, rest) == now + rest

\* Redis keeps a key without an expiry that is not positive for ever.
Until(token, rest) ==
  IF rest > Margin THEN now + rest - Margin ELSE MaxTime + 1

\* Set with expires_in - 200 seconds, counted from now; a failure is ignored.
StoreToken(w) ==
  LET k == work[w] IN
  /\ k.pc = "store"
  /\ \/ /\ cache' = [cache EXCEPT ![k.account] =
                       [expires |-> k.token, until |-> Until(k.token, k.token - k.since)]]
        /\ UNCHANGED faults
     \/ Fault /\ UNCHANGED cache
  /\ Proceed(w, "call", k.token, now)
  /\ UNCHANGED <<now, account, row, queued, logs, taken, reportVars, hook,
                 sends, stale>>

\* The token of this call is no longer good. Nothing here notices what the
\* provider then answers: the cache goes on handing the token out.
Ended(k) == k.token # None /\ k.token <= now

\* The task has no template of its own to fall back to.
TemplateOf(k) == TemplateCode(Binding(k.binding).template, "")

\* The kinds of answers this call can get.
Kinds(k) ==
  IF NeedsToken(account[k.account]) /\ Ended(k) THEN {"refused"}
  ELSE Answers[account[k.account].code]

\* A message id of its own for each accepted message.
NewId(k) == <<k.account, Cardinality(taken)>>

\* Where Handle goes with what Send answers.
Exit(res) ==
  IF res.error THEN IF res.resp THEN "evaluate" ELSE "abort"
  ELSE IF res.success THEN "save" ELSE "evaluate"

\* The request goes out and the answer comes in.
Call(w) ==
  LET k == work[w]
      via == account[k.account]
      reaches == IF via.code = "smtp" THEN via.config # "broken"
                 ELSE Usable(via) /\ (TemplateOf(k) # "" \/ NeedsToken(via))
  IN
  /\ k.pc = "call"
  /\ \E kind \in Kinds(k),
        wire \in Positions(via.code, Binding(k.binding), Params[k.task]) :
       LET answer == [kind |-> kind, id |-> NewId(k), code |-> "code"]
           res == Send(via, k.task, TemplateOf(k), answer)
       IN  /\ work' = [work EXCEPT ![w] =
                         Answered(Exit(res), k.task, k.binding, res, wire)]
           /\ taken' = IF reaches /\ kind = "accepted"
                       THEN taken \cup {[task |-> k.task, account |-> k.account,
                                         id |-> NewId(k)]}
                       ELSE taken
  /\ stale' = (stale \/ Ended(k))
  /\ UNCHANGED <<now, account, cache, row, queued, logs, reportVars, hook,
                 sends, faults>>

\* handleSuccess: the row, then the log with the provider's id.
Save(w) ==
  LET k == work[w] IN
  /\ k.pc = "save"
  /\ \/ /\ row' = [row EXCEPT ![k.task] = k.res.status]
        /\ UNCHANGED faults
     \/ Fault /\ UNCHANGED row
  /\ work' = [work EXCEPT ![w] = Answered("log", k.task, k.binding, k.res, <<>>)]
  /\ UNCHANGED <<now, account, cache, queued, logs, taken, reportVars, hook,
                 sends, stale>>

\* A later row with an id that is there already is never found again.
Logged(t, id) ==
  logs' = IF \E l \in logs : l.id = id THEN logs
          ELSE logs \cup {[task |-> t, id |-> id]}

Record(w) ==
  LET k == work[w] IN
  /\ k.pc = "log"
  /\ \/ Logged(k.task, k.res.id) /\ UNCHANGED faults
     \/ Fault /\ UNCHANGED logs
  /\ work' = [work EXCEPT ![w] = Idle]
  /\ UNCHANGED <<now, account, cache, row, queued, taken, reportVars, hook,
                 sends, stale>>

\* What a rule does to the copy old of a row, and whether the task is pushed
\* again; every action leaves a log without an id.
Execute(action, t, old) ==
  /\ row' = [row EXCEPT ![t] = IF action = "retry" THEN old ELSE "failed"]
  /\ queued' = IF action = "retry" THEN queued \cup {t} ELSE queued
  /\ Logged(t, NoId)

\* handleSendError
Evaluate(w) ==
  LET k == work[w] IN
  /\ k.pc = "evaluate"
  /\ \E action \in SendActions : Execute(action, k.task, "processing")
  /\ work' = [work EXCEPT ![w] = Idle]
  /\ UNCHANGED <<now, account, cache, taken, reportVars, hook,  sends, stale,
                 faults>>

\* handleEarlyFailure
Abort(w) ==
  LET k == work[w] IN
  /\ k.pc = "abort"
  /\ row' = [row EXCEPT ![k.task] = "failed"]
  /\ Logged(k.task, NoId)
  /\ work' = [work EXCEPT ![w] = Idle]
  /\ UNCHANGED <<now, account, cache, queued, taken, reportVars, hook,  sends,
                 stale, faults>>

-----------------------------------------------------------------------------
(* A provider's report: CallbackController.Handle and CallbackService        *)

\* Providers that pack several reports into one request.
Batching == {"aliyun_sms", "tencent_sms"}

\* A provider sticks to what it said of a message.
Said(id) == IF id \in DOMAIN verdict THEN {verdict[id]} ELSE {"ok", "bad"}

\* The bodies the provider of account a may post: reports about messages it
\* took, or what nothing can be read from.
Items(a) ==
  {[id |-> m.id, word |-> word] : m \in {x \in taken : x.account = a},
                                  word \in {"ok", "bad"}}

Bodies(a) ==
  LET told == {i \in Items(a) : i.word \in Said(i.id)}
      pairs == {s \in told \X told : s[1].id # s[2].id}
  IN  [kind : {"reports"}, items : {<<i>> : i \in told}]
      \cup (IF account[a].code \in Batching
            THEN [kind : {"reports"}, items : pairs] ELSE {})
      \cup (IF account[a].code = "smtp"
            THEN [kind : {"bounce", "garbled"}, items : {<<>>}] ELSE {})

\* Reports come only from where they were set up (posts). Controller: the
\* account of the path names the provider; each request has a
\* CallbackService, and with it an HTTP client, of its own.
Receive(r) ==
  /\ request[r].pc = "new"
  /\ \A q \in 1..(r - 1) : request[q].pc # "new"
  /\ \E a \in {m.account : m \in taken} : account[a].posts /\ \E body \in Bodies(a) :
       LET results == Callback(account[a].code, body) IN
       /\ reports' = reports + (IF body.items = <<>> THEN 1 ELSE Len(body.items))
       /\ reports' <= MaxReports
       /\ request' = [request EXCEPT ![r] =
            IF results = <<>> THEN Reading("end", a, <<>>, 1, None, "", 10)
            ELSE Reading("find", a, results, 1, None, "", 10)]
       /\ verdict' = [id \in DOMAIN verdict \cup {i.id : i \in Range(body.items)} |->
                        IF id \in DOMAIN verdict THEN verdict[id]
                        ELSE (CHOOSE i \in Range(body.items) : i.id = id).word]
  /\ UNCHANGED <<now, account, workVars, row, logs, touched, hook, faults>>

\* Mutant of LogOf: without a log of that id, one without an id.
LogOfOrNone(id) ==
  IF \E l \in logs : l.id = id THEN {l \in logs : l.id = id}
  ELSE {l \in logs : l.id = NoId}

\* GetByProviderMsgID: the first log with that id, of whatever provider.
LogOf(id) == {l \in logs : l.id = id}

\* The request after its result at this index is dealt with.
Done(q) ==
  IF q.at < Len(q.results)
  THEN Reading("find", q.account, q.results, q.at + 1, None, "", q.timeout)
  ELSE Reading("end", None, <<>>, 1, None, "", q.timeout)

\* The log, then the task; without a log only callback_logs gets a row.
Find(r) ==
  LET q == request[r]
      found == LogOf(q.results[q.at].id)
  IN
  /\ q.pc = "find"
  /\ \/ found = {} /\ request' = [request EXCEPT ![r] = Done(q)]
     \/ \E l \in found :
          request' = [request EXCEPT ![r] =
            Reading("apply", q.account, q.results, q.at, l.task, row[l.task], q.timeout)]
  /\ UNCHANGED <<now, account, workVars, row, logs, reports, verdict, touched, hook, faults>>

\* go NotifyStatusChange with the result and the copy of the row.
Notifies(r, status) ==
  LET q == request[r]
  IN  hook' = [hook EXCEPT ![<<r, q.at>>] =
                 [NoHook EXCEPT !.pc = "start", !.task = q.task, !.status = status,
                                !.event = q.results[q.at].status]]

Touches(r) ==
  touched' = [touched EXCEPT ![request[r].task] =
                @ \cup {request[r].results[request[r].at].id}]

\* Mutant of ApplyDelivered: the old status is read after it was set.
ApplyDeliveredSilently(r) ==
  LET q == request[r] IN
  /\ q.pc = "apply" /\ q.results[q.at].status = "delivered"
  /\ row' = [row EXCEPT ![q.task] = "success"]
  /\ Touches(r)
  /\ request' = [request EXCEPT ![r] = Done(q)]
  /\ UNCHANGED <<now, account, workVars, logs, reports, verdict, hook, faults>>

\* processCallbackResult, "delivered": the row is saved, or the request gives up.
ApplyDelivered(r) ==
  LET q == request[r] IN
  /\ q.pc = "apply" /\ q.results[q.at].status = "delivered"
  /\ \/ /\ row' = [row EXCEPT ![q.task] = "success"]
        /\ IF q.old # "success" THEN Notifies(r, "success") ELSE UNCHANGED hook
        /\ Touches(r)
        /\ UNCHANGED faults
     \/ Fault /\ UNCHANGED <<row, hook, touched>>
  /\ request' = [request EXCEPT ![r] = Done(q)]
  /\ UNCHANGED <<now, account, workVars, logs, reports, verdict>>

\* "failed", "rejected": the rules decide; no word to the application when the
\* task is tried again. That the save failed goes unnoticed.
ApplyFailed(r) ==
  LET q == request[r] IN
  /\ q.pc = "apply" /\ q.results[q.at].status \in {"failed", "rejected"}
  /\ \E action \in CallbackActions :
       /\ \/ Execute(action, q.task, q.old) /\ UNCHANGED faults
          \/ /\ Fault
             /\ queued' = IF action = "retry" THEN queued \cup {q.task} ELSE queued
             /\ Logged(q.task, NoId)
             /\ UNCHANGED row
       /\ IF action = "fail" /\ q.old # "failed"
          THEN Notifies(r, "failed") ELSE UNCHANGED hook
  /\ Touches(r)
  /\ request' = [request EXCEPT ![r] = Done(q)]
  /\ UNCHANGED <<now, account, cache, work, taken, sends, stale, reports, verdict>>

-----------------------------------------------------------------------------
(* The goroutine: WebhookService.NotifyStatusChange, sendWebhook             *)

\* GetEnabledByAppID and ShouldNotify.
Subscribed(t, event) ==
  /\ Config[t].status = 1
  /\ event \in Config[t].events

\* Values that are not positive stand for a default.
Timeout(t) == IF Config[t].timeout <= 0 THEN 5 ELSE Config[t].timeout

Retries(t) == IF Config[t].retries <= 0 THEN 3 ELSE Config[t].retries

\* Mutant of Start: the timeout the application asked for is not set.
StartWithDefault(h) ==
  LET k == hook[h] IN
  /\ k.pc = "start"
  /\ hook' = [hook EXCEPT ![h] = IF Subscribed(k.task, k.event)
                                  THEN [@ EXCEPT !.pc = "post"] ELSE NoHook]
  /\ UNCHANGED <<now, account, workVars, row, logs, reportVars, faults>>

\* The timeout is a field of the client all goroutines of the request share.
Start(h) ==
  LET k == hook[h]
      q == request[h[1]]
  IN
  /\ k.pc = "start"
  /\ IF Subscribed(k.task, k.event)
     THEN /\ hook' = [hook EXCEPT ![h].pc = "post"]
          /\ request' = [request EXCEPT ![h[1]] =
               Reading(q.pc, q.account, q.results, q.at, q.task, q.old, Timeout(k.task))]
     ELSE hook' = [hook EXCEPT ![h] = NoHook] /\ UNCHANGED request
  /\ UNCHANGED <<now, account, workVars, row, logs, reports, verdict, touched, faults>>

\* Ended, with a row in webhook_logs that says so.
End(h, pc) == hook' = [hook EXCEPT ![h] = [@ EXCEPT !.pc = pc, !.tries = 0]]

\* One attempt: the application's server takes it, or there are more to come,
\* or this was the last one.
Post(h) ==
  LET k == hook[h] IN
  /\ k.pc = "post"
  /\ \/ End(h, "told")
     \/ k.tries < Retries(k.task) /\ hook' = [hook EXCEPT ![h].tries = @ + 1]
     \/ k.tries = Retries(k.task) /\ End(h, "unheard")
  /\ UNCHANGED <<now, account, workVars, row, logs, reportVars, faults>>

\* The process ends while the goroutine runs: nobody calls again.
HookLost(h) ==
  /\ hook[h].pc \in {"start", "post"}
  /\ Fault
  /\ hook' = [hook EXCEPT ![h] = [@ EXCEPT !.pc = "lost", !.tries = 0]]
  /\ UNCHANGED <<now, account, workVars, row, logs, reportVars>>

-----------------------------------------------------------------------------
Step(w) ==
  \/ Begin(w) \/ GetToken(w) \/ FetchToken(w) \/ StoreToken(w) \/ Call(w)
  \/ Save(w) \/ Record(w) \/ Evaluate(w) \/ Abort(w)

Report(r) == Receive(r) \/ Find(r) \/ ApplyDelivered(r) \/ ApplyFailed(r)

Webhook(h) == Start(h) \/ Post(h) \/ HookLost(h)

Next ==
  \/ Tick
  \/ \E w \in Workers : Step(w)
  \/ \E r \in Requests : Report(r)
  \/ \E h \in Hooks : Webhook(h)

\* The processes run on; nothing obliges the clock, a provider or a fault.
Fairness ==
  /\ \A w \in Workers : WF_vars(Step(w))
  /\ \A r \in Requests : WF_vars(Find(r) \/ ApplyDelivered(r) \/ ApplyFailed(r))
  /\ \A h \in Hooks : WF_vars(Start(h) \/ Post(h))

Spec == Init /\ [][Next]_vars /\ Fairness

-----------------------------------------------------------------------------
Outcomes == {"pending", "processing", "sent", "success", "failed"}

TypeOK ==
  /\ row \in [Tasks -> Outcomes]
  /\ queued \subseteq Tasks
  /\ \A w \in Workers :
       work[w].pc \in {"idle", "token", "fetch", "store", "call", "save", "log",
                       "evaluate", "abort"}
  /\ \A r \in Requests :
       /\ request[r].pc \in {"new", "find", "apply", "end"}
       /\ request[r].at \in 1..2
  /\ \A h \in Hooks : hook[h].pc \in {"none", "start", "post", "told", "unheard", "lost"}
  /\ \A m \in taken : m.task \in Tasks /\ m.account \in DOMAIN account
  /\ faults \in 0..MaxFaults

\* A report that carries an id changes only the row of the task whose message
\* it is about, whichever reports run at the same time and however often the
\* task was sent. One that carries none (the text of a bounce) is left out: it
\* finds the oldest log without an id, of any task.
OwnReports ==
  \A t \in Tasks : \A id \in touched[t] :
    id # NoId => \E m \in taken : m.task = t /\ m.id = id

\* A task is a success only if a provider took a message of it, and where the
\* provider reports, only if it reported that very message as delivered. (The
\* types of the variables are part of it.)
SuccessIsCarried ==
  /\ TypeOK
  /\ \A t \in Tasks : row[t] = "success" =>
       \E m \in taken :
         /\ m.task = t
         /\ \/ account[m.account].code \in {"dingtalk", "wechat_work", "smtp"}
            \/ m.id \in DOMAIN verdict /\ verdict[m.id] = "ok"

\* Two workers, the cache and the clock: no call goes out with a token that
\* has ended, however late the token was stored and however late it is used.
TokenWorks == ~stale

\* The value at each place of the provider's template is the one the mapping
\* gives to that place, wherever the mapping lists it.
ParamsInPlace ==
  \A w \in Workers :
    LET k == work[w]
        b == Binding(k.binding)
    IN  work[w].wire # <<>> /\ b.content # <<>> =>
          /\ Len(k.wire) = Len(b.content)
          /\ \A i \in DOMAIN b.content :
               k.wire[i] = LET own == SelectLastInSeq(b.mapping,
                                        LAMBDA x : x.provider = b.content[i])
                           IN  IF own = 0 THEN ""
                               ELSE Value(b.mapping[own], Params[k.task])

\* An attempt waits as long as the application asked for, unless a goroutine of
\* the same request runs for an application that asked for another time.
OwnTimeout ==
  [][\A h \in Hooks :
       LET asked == {Timeout(hook[g].task) : g \in
                       {g \in Hooks : g[1] = h[1] /\ hook[g].task # None}}
       IN  hook[h].pc = "post" /\ hook'[h].pc \in {"post", "told", "unheard"}
             => request[h[1]].timeout \in asked]_vars

\* A task that reports alone can make a success is told to an application that
\* subscribed to deliveries, unless the process that was to tell it ended.
Reporting(t) ==
  \A a \in Via[t] : account[a].code \in {"aliyun_sms", "tencent_sms", "zrwinfo_sms"}

SuccessIsTold ==
  \A t \in Tasks :
    (row[t] = "success" /\ Reporting(t) /\ Subscribed(t, "delivered")) ~>
      \E h \in Hooks :
        /\ hook[h].task = t /\ hook[h].event = "delivered"
        /\ hook[h].pc \in {"told", "unheard", "lost"}
=============================================================================
