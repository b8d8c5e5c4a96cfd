------------------------------ MODULE Delivery ------------------------------
(***************************************************************************)
(* The life of a push task, from the row MessageService.Send inserts to    *)
(* its last status: the producer appends an entry to the Redis stream      *)
(* push:stream:messages, a worker of the consumer group push-workers reads *)
(* it, MessageHandler.Handle calls a provider, the rule engine decides     *)
(* what a refusal leads to (another entry after a delay, or the end), the  *)
(* provider's report comes back over HTTP, and the SMS timeout scanner     *)
(* marks what was never reported.                                          *)
(*                                                                         *)
(* Workers, request handlers, delayed-push goroutines and the scanner      *)
(* share the row of a task with no lock and no version column: each reads  *)
(* the whole row, works on its copy and saves the whole copy (gorm Save).  *)
(* A step of this module is one access to the database, to Redis or to a   *)
(* provider, so that every interleaving of those accesses is explored.     *)
(*                                                                         *)
(* Each process is taken to run on a replica of its own: a crash stops one *)
(* of them, and a crash of a real replica is several of these steps.       *)
(***************************************************************************)
EXTENDS Naturals, Sequences, FiniteSets

CONSTANTS
  Tasks,            \* requests accepted by MessageService.Send
  Workers,          \* the workers of every replica's WorkerPool
  Reports,          \* provider reports reaching POST /callback, each one delivery of HTTP
  Providers,        \* provider accounts bound to the tasks' channel
  Async,            \* tasks of a channel whose sender answers "sent" (SMS)
  SendActions,      \* what the rules for scene send_failure may decide
  CallbackActions,  \* what the rules for scene callback_failure may decide
  RetryMax,         \* MaxRetry of the retry action
  SwitchMax,        \* MaxRetry of the switch_provider action
  ExcludeCurrent,   \* ExcludeCurrent of the switch_provider action
  BatchSize,        \* COUNT of the workers' XREADGROUP
  MaxFaults,        \* bound: failed accesses and crashes in one behaviour
  AmbiguousPush,    \* TRUE: XADD of Send may append although it answers an error
  OneVerdict,       \* TRUE: the reports about one message agree
  Scanning,         \* TRUE: the SMS timeout scanner runs
  NoRow             \* no row: the task is not inserted, the holder has no copy

Actions == {"retry", "switch_provider", "fail", "alert"}

\* The actions after which the task is pushed again.
Requeueing == {"retry", "switch_provider"}

ASSUME SetsAssumption ==
  /\ Async \subseteq Tasks
  /\ SendActions \subseteq Actions /\ SendActions # {}
  /\ CallbackActions \subseteq Actions /\ CallbackActions # {}
  /\ Reports \cap Nat = {}

ASSUME BoundsAssumption ==
  /\ RetryMax \in Nat /\ SwitchMax \in Nat /\ MaxFaults \in Nat
  /\ BatchSize \in Nat \ {0}

ASSUME SwitchesAssumption ==
  {ExcludeCurrent, AmbiguousPush, OneVerdict, Scanning} \subseteq BOOLEAN

Statuses == {"pending", "processing", "sent", "success", "failed"}

\* "rejected" is handled as "failed" is and is not told apart.
Verdicts == {"delivered", "failed"}

Rows == [status : Statuses, cb : Verdicts \cup {"none", "timeout"},
         retries : Nat, exclude : SUBSET Providers]

ASSUME NoRowAssumption == NoRow \notin Rows

VARIABLES
  db,        \* table push_tasks: the row of each task
  api,       \* where the request that submits each task is
  stream,    \* push:stream:messages, the task of each entry
  cursor,    \* last-delivered-id of the consumer group
  pel,       \* entries delivered to a consumer and not acknowledged
  dlq,       \* entries copied to push:stream:dead_letter
  pc,        \* the next access of each worker
  batch,     \* entries of the worker's last read that it has not finished
  cur,       \* the entry being handled, 0 when none
  snap,      \* the worker's copy of the row
  prov,      \* providers the selector handed to the worker: one, or none
  failing,   \* the handler will return an error
  timers,    \* goroutines sleeping before they push a task again
  accepted,  \* history: entries whose provider call was accepted
  logs,      \* push_logs rows that carry a provider message id
  report,    \* the request handler of each report
  scan,      \* the scanner's copies of rows it has not saved yet
  calls,     \* history: the providers called for each task, in order
  faults     \* failed accesses and crashes so far

vars == <<db, api, stream, cursor, pel, dlq, pc, batch, cur, snap, prov,
          failing, timers, accepted, logs, report, scan, calls, faults>>

workerVars == <<pc, batch, cur, snap, prov, failing>>
queueVars  == <<stream, cursor, pel, dlq>>

WorkerSteps == {"read", "load", "mark", "select", "call", "succeed", "record",
                "evaluate", "abort", "dead", "ack"}

\* A provider message is known by the entry whose handling sent it: no entry
\* is handled twice.
ReportState == [pc : {"idle", "find", "apply", "end"}, msg : Nat,
                verdict : Verdicts, row : Rows \cup {NoRow},
                via : SUBSET Providers]

NewRow == [status |-> "pending", cb |-> "none", retries |-> 0, exclude |-> {}]

Init ==
  /\ db = [t \in Tasks |-> NoRow]
  /\ api = [t \in Tasks |-> "absent"]
  /\ stream = << >>
  /\ cursor = 0
  /\ pel = {}
  /\ dlq = {}
  /\ pc = [w \in Workers |-> "read"]
  /\ batch = [w \in Workers |-> {}]
  /\ cur = [w \in Workers |-> 0]
  /\ snap = [w \in Workers |-> NoRow]
  /\ prov = [w \in Workers |-> {}]
  /\ failing = [w \in Workers |-> FALSE]
  /\ timers = {}
  /\ accepted = {}
  /\ logs = {}
  /\ report = [c \in Reports |-> [pc |-> "idle", msg |-> 0,
                  verdict |-> "failed", row |-> NoRow, via |-> {}]]
  /\ scan = [t \in Tasks |-> NoRow]
  /\ calls = [t \in Tasks |-> << >>]
  /\ faults = 0

HasStatus(t, S) == db[t] # NoRow /\ db[t].status \in S

-----------------------------------------------------------------------------
(* Accesses that can fail *)

\* A database, Redis or network access answers an error, or a process dies.
Fault == faults < MaxFaults /\ faults' = faults + 1

\* PushTaskDAO.Update: the whole row is written, or the access fails and the
\* caller goes on (every caller here drops or only logs the error).
Save(t, row) ==
  \/ db' = [db EXCEPT ![t] = row] /\ UNCHANGED faults
  \/ Fault /\ UNCHANGED db

-----------------------------------------------------------------------------
(* MessageService.Send: validation changes nothing and is left out *)

Create(t) ==
  /\ api[t] = "absent"
  /\ db' = [db EXCEPT ![t] = NewRow]
  /\ api' = [api EXCEPT ![t] = "push"]
  /\ UNCHANGED <<queueVars, workerVars, timers, accepted, logs, report, scan,
                 calls, faults>>

Push(t) ==
  /\ api[t] = "push"
  /\ stream' = Append(stream, t)
  /\ api' = [api EXCEPT ![t] = "done"]
  /\ UNCHANGED <<db, cursor, pel, dlq, workerVars, timers, accepted, logs,
                 report, scan, calls, faults>>

PushFails(t) ==
  /\ api[t] = "push"
  /\ Fault
  /\ \/ UNCHANGED stream
     \/ AmbiguousPush /\ stream' = Append(stream, t)
  /\ api' = [api EXCEPT ![t] = "revert"]
  /\ UNCHANGED <<db, cursor, pel, dlq, workerVars, timers, accepted, logs,
                 report, scan, calls>>

\* The copy that is saved is the one Create inserted.
Revert(t) ==
  /\ api[t] = "revert"
  /\ Save(t, [NewRow EXCEPT !.status = "failed"])
  /\ api' = [api EXCEPT ![t] = "done"]
  /\ UNCHANGED <<queueVars, workerVars, timers, accepted, logs, report, scan,
                 calls>>

ApiCrash(t) ==
  /\ api[t] \in {"push", "revert"}
  /\ Fault
  /\ api' = [api EXCEPT ![t] = "done"]
  /\ UNCHANGED <<db, queueVars, workerVars, timers, accepted, logs, report,
                 scan, calls>>

-----------------------------------------------------------------------------
(* A worker: Worker.processMessages, handleMessage, MessageHandler.Handle *)

Smallest(S) == CHOOSE x \in S : \A y \in S : x <= y

Goto(w, step) == pc' = [pc EXCEPT ![w] = step]

\* Mutant of LastFetched: COUNT entries even when the stream holds fewer.
PastTheEnd == cursor + BatchSize

\* XREADGROUP ... COUNT BatchSize STREAMS push:stream:messages ">" answers the
\* entries up to this one.
LastFetched ==
  IF cursor + BatchSize <= Len(stream) THEN cursor + BatchSize ELSE Len(stream)

Fetched == (cursor + 1) .. LastFetched

\* Mutant of Read: what was read stays available to the other consumers.
ReadWithoutAdvance(w) ==
  /\ pc[w] = "read"
  /\ cursor < Len(stream)
  /\ batch' = [batch EXCEPT ![w] = Fetched]
  /\ Goto(w, "load")
  /\ UNCHANGED <<db, api, queueVars, cur, snap, prov, failing, timers,
                 accepted, logs, report, scan, calls, faults>>

Read(w) ==
  /\ pc[w] = "read"
  /\ cursor < Len(stream)
  /\ cursor' = LastFetched
  /\ pel' = pel \cup Fetched
  /\ batch' = [batch EXCEPT ![w] = Fetched]
  /\ Goto(w, "load")
  /\ UNCHANGED <<db, api, stream, dlq, cur, snap, prov, failing, timers,
                 accepted, logs, report, scan, calls, faults>>

\* The group has moved on, the reply is lost.
ReadLost(w) ==
  /\ pc[w] = "read"
  /\ cursor < Len(stream)
  /\ Fault
  /\ cursor' = LastFetched
  /\ pel' = pel \cup Fetched
  /\ UNCHANGED <<db, api, stream, dlq, workerVars, timers, accepted, logs,
                 report, scan, calls>>

\* GetByTaskID; the status set on the copy is saved by the next step.
Load(w) ==
  LET d == Smallest(batch[w]) IN
  /\ pc[w] = "load"
  /\ cur' = [cur EXCEPT ![w] = d]
  /\ \/ /\ snap' = [snap EXCEPT ![w] =
                      [db[stream[d]] EXCEPT !.status = "processing"]]
        /\ Goto(w, "mark")
        /\ UNCHANGED <<failing, faults>>
     \/ /\ Fault
        /\ failing' = [failing EXCEPT ![w] = TRUE]
        /\ Goto(w, "dead")
        /\ UNCHANGED snap
  /\ UNCHANGED <<db, api, queueVars, batch, prov, timers, accepted, logs,
                 report, scan, calls>>

Mark(w) ==
  /\ pc[w] = "mark"
  /\ Save(stream[cur[w]], snap[w])
  /\ Goto(w, "select")
  /\ UNCHANGED <<api, queueVars, batch, cur, snap, prov, failing, timers,
                 accepted, logs, report, scan, calls>>

\* Mutant of Select: the exclude list is not passed to the selector.
SelectAmongAll(w) ==
  /\ pc[w] = "select"
  /\ \E p \in Providers : prov' = [prov EXCEPT ![w] = {p}]
  /\ Goto(w, "call")
  /\ UNCHANGED <<db, api, queueVars, batch, cur, snap, failing, timers,
                 accepted, logs, report, scan, calls, faults>>

\* A provider that the row does not exclude; or none is available, or its
\* sender or its configuration is missing, and the handler gives up early.
Select(w) ==
  /\ pc[w] = "select"
  /\ \/ \E p \in Providers \ snap[w].exclude :
          /\ prov' = [prov EXCEPT ![w] = {p}]
          /\ Goto(w, "call")
          /\ UNCHANGED failing
     \/ /\ failing' = [failing EXCEPT ![w] = TRUE]
        /\ Goto(w, "abort")
        /\ UNCHANGED prov
  /\ UNCHANGED <<db, api, queueVars, batch, cur, snap, timers, accepted, logs,
                 report, scan, calls, faults>>

\* Mutant of Call: the Success flag of the answer is not looked at.
CallTakenForSuccess(w) ==
  /\ pc[w] = "call"
  /\ \E p \in prov[w] :
       calls' = [calls EXCEPT ![stream[cur[w]]] = Append(@, p)]
  /\ \E taken \in BOOLEAN :
       accepted' = IF taken THEN accepted \cup {cur[w]} ELSE accepted
  /\ Goto(w, "succeed")
  /\ UNCHANGED <<db, api, queueVars, batch, cur, snap, prov, failing, timers,
                 logs, report, scan, faults>>

\* messageSender.Send: accepted, refused (no error), or no usable answer
\* (an error together with a response).
Call(w) ==
  LET t == stream[cur[w]] IN
  /\ pc[w] = "call"
  /\ \E p \in prov[w] : calls' = [calls EXCEPT ![t] = Append(@, p)]
  /\ \/ /\ accepted' = accepted \cup {cur[w]}
        /\ Goto(w, "succeed")
        /\ UNCHANGED failing
     \/ /\ \E err \in BOOLEAN : failing' = [failing EXCEPT ![w] = err]
        /\ Goto(w, "evaluate")
        /\ UNCHANGED accepted
  /\ UNCHANGED <<db, api, queueVars, batch, cur, snap, prov, timers, logs,
                 report, scan, faults>>

\* handleSuccess, first half: the copy goes back with the sender's status.
Succeed(w) ==
  LET t == stream[cur[w]] IN
  /\ pc[w] = "succeed"
  /\ Save(t, [snap[w] EXCEPT !.status =
                IF t \in Async THEN "sent" ELSE "success"])
  /\ Goto(w, "record")
  /\ UNCHANGED <<api, queueVars, batch, cur, snap, prov, failing, timers,
                 accepted, logs, report, scan, calls>>

\* handleSuccess, second half: only this log row lets a report find the task.
Record(w) ==
  /\ pc[w] = "record"
  /\ \/ /\ logs' = logs \cup {[msg |-> cur[w], via |-> prov[w]]}
        /\ UNCHANGED faults
     \/ Fault /\ UNCHANGED logs
  /\ Goto(w, "ack")
  /\ UNCHANGED <<db, api, queueVars, batch, cur, snap, prov, failing, timers,
                 accepted, report, scan, calls>>

\* Mutant of Abort: the handler returns its error and leaves the row alone.
AbortWithoutSave(w) ==
  /\ pc[w] = "abort"
  /\ Goto(w, "dead")
  /\ UNCHANGED <<db, api, queueVars, batch, cur, snap, prov, failing, timers,
                 accepted, logs, report, scan, calls, faults>>

\* handleEarlyFailure
Abort(w) ==
  /\ pc[w] = "abort"
  /\ Save(stream[cur[w]], [snap[w] EXCEPT !.status = "failed"])
  /\ Goto(w, "dead")
  /\ UNCHANGED <<api, queueVars, batch, cur, snap, prov, failing, timers,
                 accepted, logs, report, scan, calls>>

-----------------------------------------------------------------------------
(* ActionExecutor.Execute *)

Limit(a) == IF a = "retry" THEN RetryMax ELSE SwitchMax

\* Mutant of Requeues: one attempt beyond the limit.
RequeuesAtLimit(a, row) == a \in Requeueing /\ row.retries <= Limit(a)

\* Action a pushes the task of this row again; past its limit executeRetry
\* and executeSwitchProvider fall back to executeFail.
Requeues(a, row) == a \in Requeueing /\ row.retries < Limit(a)

\* Mutant of Outcome: switching to another provider does not count.
OutcomeUncounted(a, row, via) ==
  IF ~Requeues(a, row) THEN [row EXCEPT !.status = "failed"]
  ELSE IF a = "retry" THEN [row EXCEPT !.retries = @ + 1]
  ELSE [row EXCEPT !.exclude = @ \cup via]

\* The copy that action a saves; via is the provider that refused.
Outcome(a, row, via) ==
  IF Requeues(a, row)
  THEN [row EXCEPT !.retries = @ + 1,
                   !.exclude = IF a = "switch_provider" /\ ExcludeCurrent
                               THEN @ \cup via ELSE @]
  ELSE [row EXCEPT !.status = "failed"]

\* Save, then go func() { sleep; Push }: the goroutine starts even when the
\* save failed. Nothing can observe it before it pushes.
Execute(a, src, t, row, via) ==
  /\ Save(t, Outcome(a, row, via))
  /\ timers' = IF Requeues(a, row)
               THEN timers \cup {[src |-> src, task |-> t]} ELSE timers

\* handleSendError
Evaluate(w) ==
  /\ pc[w] = "evaluate"
  /\ \E a \in SendActions :
       Execute(a, cur[w], stream[cur[w]], snap[w], prov[w])
  /\ Goto(w, IF failing[w] THEN "dead" ELSE "ack")
  /\ UNCHANGED <<api, queueVars, batch, cur, snap, prov, failing, accepted,
                 logs, report, scan, calls>>

\* MoveToDeadLetter; handleMessage acknowledges whatever it answers.
Dead(w) ==
  /\ pc[w] = "dead"
  /\ \/ dlq' = dlq \cup {cur[w]} /\ UNCHANGED faults
     \/ Fault /\ UNCHANGED dlq
  /\ Goto(w, "ack")
  /\ UNCHANGED <<db, api, stream, cursor, pel, batch, cur, snap, prov, failing,
                 timers, accepted, logs, report, scan, calls>>

\* The worker is ready for the entries it still holds, or for a new read.
Finish(w, rest) ==
  /\ batch' = [batch EXCEPT ![w] = rest]
  /\ cur' = [cur EXCEPT ![w] = 0]
  /\ snap' = [snap EXCEPT ![w] = NoRow]
  /\ prov' = [prov EXCEPT ![w] = {}]
  /\ failing' = [failing EXCEPT ![w] = FALSE]
  /\ Goto(w, IF rest = {} THEN "read" ELSE "load")

\* Mutant of Ack: the copy is saved once more when everything is done.
AckAndSave(w) ==
  LET t == stream[cur[w]] IN
  /\ pc[w] = "ack"
  /\ db' = IF snap[w] = NoRow THEN db
           ELSE [db EXCEPT ![t] = snap[w]]
  /\ pel' = pel \ {cur[w]}
  /\ Finish(w, batch[w] \ {cur[w]})
  /\ UNCHANGED <<api, stream, cursor, dlq, timers, accepted, logs, report,
                 scan, calls, faults>>

\* Mutant of Ack: the worker reads again before it has handled its batch.
AckAndReadAgain(w) ==
  /\ pc[w] = "ack"
  /\ pel' = pel \ {cur[w]}
  /\ Finish(w, {})
  /\ UNCHANGED <<db, api, stream, cursor, dlq, timers, accepted, logs, report,
                 scan, calls, faults>>

Ack(w) ==
  /\ pc[w] = "ack"
  /\ \/ pel' = pel \ {cur[w]} /\ UNCHANGED faults
     \/ Fault /\ UNCHANGED pel
  /\ Finish(w, batch[w] \ {cur[w]})
  /\ UNCHANGED <<db, api, stream, cursor, dlq, timers, accepted, logs, report,
                 scan, calls>>

\* Nothing ever claims what the worker held: GetPendingMessages has no caller.
WorkerCrash(w) ==
  /\ pc[w] # "read"
  /\ Fault
  /\ Finish(w, {})
  /\ UNCHANGED <<db, api, queueVars, timers, accepted, logs, report, scan,
                 calls>>

-----------------------------------------------------------------------------
(* The goroutines of executeRetry and executeSwitchProvider *)

\* Mutant of Fire: the push is repeated although it was carried out.
FireTwice(x) ==
  /\ x \in timers
  /\ timers' = timers \ {x}
  /\ stream' = Append(Append(stream, x.task), x.task)
  /\ UNCHANGED <<db, api, cursor, pel, dlq, workerVars, accepted, logs, report,
                 scan, calls, faults>>

Fire(x) ==
  /\ x \in timers
  /\ timers' = timers \ {x}
  /\ stream' = Append(stream, x.task)
  /\ UNCHANGED <<db, api, cursor, pel, dlq, workerVars, accepted, logs, report,
                 scan, calls, faults>>

\* The push fails and is only logged, or the process dies while it sleeps.
TimerLost(x) ==
  /\ x \in timers
  /\ Fault
  /\ timers' = timers \ {x}
  /\ UNCHANGED <<db, api, queueVars, workerVars, accepted, logs, report, scan,
                 calls>>

-----------------------------------------------------------------------------
(* CallbackService.processCallbackResult *)

\* A provider reports on a message it accepted, perhaps before the worker has
\* logged it, perhaps more than once.
Arrive(c) ==
  /\ report[c].pc = "idle"
  /\ \E d \in accepted, v \in Verdicts :
       /\ OneVerdict => \A e \in Reports :
            report[e].pc # "idle" /\ report[e].msg = d => report[e].verdict = v
       /\ report' = [report EXCEPT ![c].pc = "find", ![c].msg = d,
                                   ![c].verdict = v]
  /\ UNCHANGED <<db, api, queueVars, workerVars, timers, accepted, logs, scan,
                 calls, faults>>

\* GetByProviderMsgID and GetByTaskID. A report that finds no log is dropped.
Find(c) ==
  LET d == report[c].msg IN
  /\ report[c].pc = "find"
  /\ \/ /\ \E l \in logs :
             /\ l.msg = d
             /\ report' = [report EXCEPT ![c].pc = "apply",
                              ![c].row = db[stream[d]], ![c].via = l.via]
        /\ UNCHANGED faults
     \/ /\ \A l \in logs : l.msg # d
        /\ report' = [report EXCEPT ![c].pc = "end"]
        /\ UNCHANGED faults
     \/ /\ Fault
        /\ report' = [report EXCEPT ![c].pc = "end"]
  /\ UNCHANGED <<db, api, queueVars, workerVars, timers, accepted, logs, scan,
                 calls>>

\* Mutant of Apply: a delivered report goes through the failure rules too.
ApplyAsFailure(c) ==
  LET r == report[c] IN
  /\ r.pc = "apply"
  /\ \E a \in CallbackActions :
       Execute(a, c, stream[r.msg], [r.row EXCEPT !.cb = r.verdict], r.via)
  /\ report' = [report EXCEPT ![c].pc = "end", ![c].row = NoRow]
  /\ UNCHANGED <<api, queueVars, workerVars, accepted, logs, scan, calls>>

\* Mutant of Apply: the default for a failed report is the one for a failed
\* send, a retry.
ApplyWithRetry(c) ==
  LET r == report[c] IN
  /\ r.pc = "apply"
  /\ Execute("retry", c, stream[r.msg], [r.row EXCEPT !.cb = r.verdict], r.via)
  /\ report' = [report EXCEPT ![c].pc = "end", ![c].row = NoRow]
  /\ UNCHANGED <<api, queueVars, workerVars, accepted, logs, scan, calls>>

Apply(c) ==
  LET r   == report[c]
      t   == stream[r.msg]
      row == [r.row EXCEPT !.cb = r.verdict]
  IN
  /\ r.pc = "apply"
  /\ \/ /\ r.verdict = "delivered"
        /\ Save(t, [row EXCEPT !.status = "success"])
        /\ UNCHANGED timers
     \/ /\ r.verdict = "failed"
        /\ \E a \in CallbackActions : Execute(a, c, t, row, r.via)
  /\ report' = [report EXCEPT ![c].pc = "end", ![c].row = NoRow]
  /\ UNCHANGED <<api, queueVars, workerVars, accepted, logs, scan, calls>>

ReportCrash(c) ==
  /\ report[c].pc = "apply"
  /\ Fault
  /\ report' = [report EXCEPT ![c].pc = "end", ![c].row = NoRow]
  /\ UNCHANGED <<db, api, queueVars, workerVars, timers, accepted, logs, scan,
                 calls>>

-----------------------------------------------------------------------------
(* SMSTimeoutScanner.scan *)

\* GetTimeoutSentTasks: any of the tasks whose status is "sent" can be old
\* enough.
Scan ==
  /\ Scanning
  /\ \A t \in Tasks : scan[t] = NoRow
  /\ \E S \in SUBSET {t \in Async : HasStatus(t, {"sent"})} \ {{}} :
       scan' = [t \in Tasks |-> IF t \in S THEN db[t] ELSE NoRow]
  /\ UNCHANGED <<db, api, queueVars, workerVars, timers, accepted, logs,
                 report, calls, faults>>

\* The loop body, for the copies in any order.
TimeOut(t) ==
  /\ scan[t] # NoRow
  /\ Save(t, [scan[t] EXCEPT !.cb = "timeout"])
  /\ scan' = [scan EXCEPT ![t] = NoRow]
  /\ UNCHANGED <<api, queueVars, workerVars, timers, accepted, logs, report,
                 calls>>

ScannerCrash ==
  /\ \E t \in Tasks : scan[t] # NoRow
  /\ Fault
  /\ scan' = [t \in Tasks |-> NoRow]
  /\ UNCHANGED <<db, api, queueVars, workerVars, timers, accepted, logs,
                 report, calls>>

-----------------------------------------------------------------------------

Api(t) == Create(t) \/ Push(t) \/ PushFails(t) \/ Revert(t) \/ ApiCrash(t)

Handle(w) ==
  Load(w) \/ Mark(w) \/ Select(w) \/ Call(w) \/ Succeed(w) \/ Record(w)
    \/ Evaluate(w) \/ Abort(w) \/ Dead(w) \/ Ack(w)

Worker(w) == Read(w) \/ ReadLost(w) \/ Handle(w) \/ WorkerCrash(w)

Callback(c) == Arrive(c) \/ Find(c) \/ Apply(c) \/ ReportCrash(c)

Scanner == Scan \/ ScannerCrash \/ \E t \in Tasks : TimeOut(t)

Next ==
  \/ \E t \in Tasks : Api(t)
  \/ \E w \in Workers : Worker(w)
  \/ \E x \in timers : Fire(x) \/ TimerLost(x)
  \/ \E c \in Reports : Callback(c)
  \/ Scanner

Spec == Init /\ [][Next]_vars

\* Goroutines that can run do run: the Go scheduler is fair to them, every
\* call they block in has a timeout, and the process loops in Worker.run. No
\* fairness is given to a request (Create), a report, a scan or a fault.
Fairness ==
  /\ \A t \in Tasks : WF_vars(Push(t)) /\ WF_vars(Revert(t))
  /\ \A w \in Workers : WF_vars(Read(w)) /\ WF_vars(Handle(w))
  /\ \A t \in Tasks : WF_vars(\E x \in timers : x.task = t /\ Fire(x))
  /\ \A c \in Reports : WF_vars(Find(c)) /\ WF_vars(Apply(c))
  /\ \A t \in Tasks : WF_vars(TimeOut(t))

FairSpec == Spec /\ Fairness
-----------------------------------------------------------------------------
(* Properties *)

\* Every variable keeps its type; a worker's copy exists while it works on it.
TypeOK ==
  /\ db \in [Tasks -> Rows \cup {NoRow}]
  /\ api \in [Tasks -> {"absent", "push", "revert", "done"}]
  /\ stream \in Seq(Tasks)
  /\ cursor \in 0 .. Len(stream)
  /\ pel \subseteq 1 .. cursor /\ dlq \subseteq 1 .. cursor
  /\ pc \in [Workers -> WorkerSteps]
  /\ batch \in [Workers -> SUBSET (1 .. cursor)]
  /\ cur \in [Workers -> 0 .. cursor]
  /\ snap \in [Workers -> Rows \cup {NoRow}]
  /\ prov \in [Workers -> SUBSET Providers]
  /\ failing \in [Workers -> BOOLEAN]
  /\ timers \subseteq [src : Nat \cup Reports, task : Tasks]
  /\ accepted \subseteq 1 .. cursor
  /\ logs \subseteq [msg : 1 .. cursor, via : SUBSET Providers]
  /\ report \in [Reports -> ReportState]
  /\ scan \in [Tasks -> Rows \cup {NoRow}]
  /\ calls \in [Tasks -> Seq(Providers)]
  /\ faults \in 0 .. MaxFaults

\* Worker w may still write the row, call a provider or have the task pushed
\* again because of entry d.
InHand(w, d) ==
  d \in batch[w] /\ (cur[w] = d => pc[w] \notin {"record", "dead", "ack"})

\* What may still lead to a provider call for task t: the request about to
\* push it, an unread entry, a worker not done with an entry it read, a
\* goroutine about to push it again.
Requests(t) == {x \in {t} : api[x] = "push"}
Unread(t)   == {d \in 1 .. Len(stream) : d > cursor /\ stream[d] = t}
Held(t)     == {x \in Workers \X (1 .. cursor) :
                  stream[x[2]] = t /\ InHand(x[1], x[2])}
Sleeping(t) == {x \in timers : x.task = t}

Tokens(t) == ({"request"} \X Requests(t)) \cup ({"unread"} \X Unread(t))
               \cup ({"held"} \X Held(t)) \cup ({"sleeping"} \X Sleeping(t))

\* A task is never on its way twice: two workers never handle it at the same
\* time, and it is never both queued and scheduled for a retry. This is what
\* makes the unlocked read-modify-write of its row by the workers safe.
OneChain == \A t \in Tasks : \A x, y \in Tokens(t) : x = y

\* The provider calls made for a task stay within the retry budget of its
\* actions; each failed access can cost one more, because executeRetry starts
\* the next attempt even when saving the counter failed.
SendBound ==
  \A t \in Tasks :
    \/ Len(calls[t]) <= 1 + faults
    \/ \E a \in SendActions \cap Requeueing : Len(calls[t]) <= 1 + Limit(a) + faults

\* A row stuck in "pending" or "processing" with nothing left to move it is the
\* trace of a failed access or a crash, and one of those strands at most the
\* entries of one read.
Stranded == {t \in Tasks : HasStatus(t, {"pending", "processing"}) /\ Tokens(t) = {} /\ api[t] = "done"}

BoundedStranding == Cardinality(Stranded) <= BatchSize * faults

\* A row that says "sent" or "success" is about a message a provider accepted.
\* A row that says "failed" is about a task no provider accepted, or one whose
\* message a provider reported as failed.
StatusHonest ==
  \A t \in Tasks :
    LET taken == {d \in accepted : stream[d] = t} IN
    /\ HasStatus(t, {"sent", "success"}) => taken # {}
    /\ HasStatus(t, {"failed"}) /\ taken # {} =>
         \E c \in Reports : /\ report[c].pc = "end"
                            /\ report[c].verdict = "failed"
                            /\ report[c].msg \in taken

\* Once a report has made a row delivered, no later step of anyone takes that
\* back: no worker, report handler or scanner writes an older copy over it.
DeliveredIsFinal ==
  [][\A t \in Tasks : HasStatus(t, {"success"}) /\ db[t].cb = "delivered" =>
       db'[t].status = "success" /\ db'[t].cb = "delivered"]_vars

\* With switch_provider as the rule, a provider that refused a task is not
\* asked again for it; each failed access can cost one repetition.
SwitchNeverRepeats ==
  \A t \in Tasks :
    Cardinality({i \in 2 .. Len(calls[t]) : \E j \in 1 .. (i - 1) : calls[t][j] = calls[t][i]})
      <= faults

\* Unless something failed, every task that was submitted ends up settled: its
\* row has a final status or waits for a report, and nothing is under way.
Settled(t) == HasStatus(t, {"sent", "success", "failed"}) /\ Tokens(t) = {}

EveryTaskSettles ==
  \A t \in Tasks : (api[t] = "push") ~> (faults > 0 \/ Settled(t))

-----------------------------------------------------------------------------
(* The promise Delivery keeps *)

\* No goroutine or entry, no chance of a further provider call.
Phase(t) ==
  IF db[t] = NoRow THEN "none" ELSE IF Tokens(t) # {} THEN "open" ELSE "closed"

Budget ==
  LET limits == {Limit(a) : a \in SendActions \cap Requeueing} \cup {0}
  IN  CHOOSE n \in limits : \A m \in limits : m <= n

Promise == INSTANCE DeliveryPromise WITH
  phase <- [t \in Tasks |-> Phase(t)],
  tries <- [t \in Tasks |-> Len(calls[t])],
  MaxTries <- 1 + Budget + MaxFaults

\* Queue, workers, retry goroutines and crashes together look like one open
\* phase per task: it opens when the row is inserted, all provider calls fall
\* into it, it closes for good, and it does close.
KeepsPromise == Promise!Spec
=============================================================================
