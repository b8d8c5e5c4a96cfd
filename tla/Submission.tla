----------------------------- MODULE Submission -----------------------------
(***************************************************************************)
(* How tasks get onto the Redis stream: MessageService.Send and BatchSend, *)
(* Producer.Push with its sorted set push:scheduled:tasks for tasks of the *)
(* future, and the ScheduledTaskScanner that every replica runs against    *)
(* that one set. Delivery takes over from the stream.                      *)
(*                                                                         *)
(* Time is counted in instants, Second of them to a second: requests,      *)
(* time.Now() and ScheduledAt.After compare instants, the scores of the    *)
(* sorted set and the scanner's upper limit are whole seconds (Unix()).    *)
(***************************************************************************)
EXTENDS Naturals, FiniteSets

CONSTANTS
  Singles,       \* requests to MessageService.Send
  Batched,       \* receivers of one request to MessageService.BatchSend
  Scanners,      \* the ScheduledTaskScanner of each replica
  Times,         \* instants asked for; 0 is a request without scheduled_at
  Second,        \* instants in a second
  LastInstant,   \* bound: the clock stops here
  ScanCount,     \* COUNT of the scanner's ZRANGEBYSCORE
  WholeSeconds,  \* TRUE: column scheduled_at rounds to seconds (MySQL timestamp)
  MaxFaults,     \* bound: failed accesses and crashes in one behaviour
  NoScore        \* not a member of the sorted set

Tasks == Singles \cup Batched

ASSUME TasksAssumption ==
  /\ Singles \cap Batched = {} /\ IsFiniteSet(Tasks)
  /\ IsFiniteSet(Scanners) /\ Scanners # {}
  /\ NoScore \notin Tasks /\ NoScore \notin Nat

ASSUME TimesAssumption ==
  /\ Times \subseteq 0 .. LastInstant /\ LastInstant \in Nat \ {0}
  /\ Second \in Nat \ {0} /\ ScanCount \in Nat \ {0} /\ MaxFaults \in Nat
  /\ WholeSeconds \in BOOLEAN

VARIABLES
  now,      \* the clock
  wish,     \* scheduled_at of each request
  row,      \* table push_tasks: status of each task
  api,      \* where the Send of each single task is
  batch,    \* the BatchSend: where it is, and the SuccessCount it will answer
  zset,     \* push:scheduled:tasks: the score of each member
  pushed,   \* entries on push:stream:messages for each task
  scanner,  \* each scanner: next access, results not yet handled, current task
  faults    \* failed accesses and crashes so far

vars == <<now, wish, row, api, batch, zset, pushed, scanner, faults>>

Idle == [pc |-> "idle", found |-> {}, task |-> NoScore]

Init ==
  /\ now = 1
  /\ wish \in [Tasks -> Times]
  /\ row = [t \in Tasks |-> "absent"]
  /\ api = [t \in Singles |-> "idle"]
  /\ batch = [pc |-> "idle", count |-> 0]
  /\ zset = [t \in Tasks |-> NoScore]
  /\ pushed = [t \in Tasks |-> 0]
  /\ scanner = [s \in Scanners |-> Idle]
  /\ faults = 0

Tick ==
  /\ now < LastInstant
  /\ now' = now + 1
  /\ UNCHANGED <<wish, row, api, batch, zset, pushed, scanner, faults>>

\* n accesses fail, or processes die.
Faults(n) == faults + n <= MaxFaults /\ faults' = faults + n

-----------------------------------------------------------------------------
(* Producer.Push *)

\* Mutant of Score: milliseconds instead of seconds.
MilliScore(at) == (at \div Second) * 1000

\* Time.Unix
Score(at) == at \div Second

\* The scheduled_at that comes back from the table.
Stored(at) ==
  IF WholeSeconds THEN ((at + (Second \div 2)) \div Second) * Second ELSE at

\* Mutant of Enqueue: the time of the task is not looked at.
EnqueueAtOnce(t, at) ==
  /\ pushed' = [pushed EXCEPT ![t] = @ + 1]
  /\ UNCHANGED zset

\* A task whose time has not come goes to the sorted set, others to the stream.
Enqueue(t, at) ==
  \/ /\ at > now
     /\ zset' = [zset EXCEPT ![t] = Score(at)]
     /\ UNCHANGED pushed
  \/ /\ at <= now
     /\ pushed' = [pushed EXCEPT ![t] = @ + 1]
     /\ UNCHANGED zset

-----------------------------------------------------------------------------
(* MessageService.Send *)

Create(t) ==
  /\ api[t] = "idle"
  /\ row' = [row EXCEPT ![t] = "pending"]
  /\ api' = [api EXCEPT ![t] = "push"]
  /\ UNCHANGED <<now, wish, batch, zset, pushed, scanner, faults>>

Push(t) ==
  /\ api[t] = "push"
  /\ Enqueue(t, wish[t])
  /\ api' = [api EXCEPT ![t] = "accepted"]
  /\ UNCHANGED <<now, wish, row, batch, scanner, faults>>

\* Redis answers an error, perhaps after it carried the command out.
PushFails(t) ==
  /\ api[t] = "push"
  /\ Faults(1)
  /\ Enqueue(t, wish[t]) \/ UNCHANGED <<zset, pushed>>
  /\ api' = [api EXCEPT ![t] = "revert"]
  /\ UNCHANGED <<now, wish, row, batch, scanner>>

Revert(t) ==
  /\ api[t] = "revert"
  /\ \/ row' = [row EXCEPT ![t] = "failed"] /\ UNCHANGED faults
     \/ Faults(1) /\ UNCHANGED row
  /\ api' = [api EXCEPT ![t] = "refused"]
  /\ UNCHANGED <<now, wish, batch, zset, pushed, scanner>>

-----------------------------------------------------------------------------
(* MessageService.BatchSend *)

\* The loop of Create: a row that cannot be inserted is skipped and counted.
CreateAll ==
  /\ batch.pc = "idle"
  /\ \E S \in SUBSET Batched :
       /\ Faults(Cardinality(Batched \ S))
       /\ row' = [t \in Tasks |-> IF t \in S THEN "pending" ELSE row[t]]
       /\ batch' = [pc |-> "push", count |-> Cardinality(S)]
  /\ UNCHANGED <<now, wish, api, zset, pushed, scanner>>

Pipeline(S) ==
  pushed' = [t \in Tasks |-> IF t \in S THEN pushed[t] + 1 ELSE pushed[t]]

\* PushBatch sends one XADD for every task, the skipped ones included and
\* whatever time they ask for; when the pipeline fails the commands carried
\* out so far stay, the error is logged and the answer is the same.
PushAll ==
  /\ batch.pc = "push"
  /\ \/ Pipeline(Batched) /\ UNCHANGED faults
     \/ Faults(1) /\ \E S \in SUBSET Batched : Pipeline(S)
  /\ batch' = [batch EXCEPT !.pc = "done"]
  /\ UNCHANGED <<now, wish, row, api, zset, scanner>>

-----------------------------------------------------------------------------
(* ScheduledTaskScanner.scan *)

Members == {[task |-> t, score |-> zset[t]] : t \in {u \in Tasks : zset[u] # NoScore}}

\* Mutant of Due: the limit is rounded up.
DueRoundedUp == {m \in Members : m.score <= (now \div Second) + 1}

Due == {m \in Members : m.score <= now \div Second}

\* Mutant of Lowest: COUNT is not given.
LowestUncounted(S, n) == {S}

\* The sets of n members of S with the lowest scores, S when it has no more.
Lowest(S, n) ==
  {L \in SUBSET S : /\ Cardinality(L) = n \/ (L = S /\ Cardinality(L) < n)
                    /\ \A x \in L, y \in S \ L : x.score <= y.score}

\* ZRANGEBYSCORE -inf <now> LIMIT 0 <ScanCount>
Scan(s) ==
  /\ scanner[s].pc = "idle"
  /\ Due # {}
  /\ \E L \in Lowest(Due, ScanCount) :
       scanner' = [scanner EXCEPT ![s] =
                     [pc |-> "get", found |-> L, task |-> NoScore]]
  /\ UNCHANGED <<now, wish, row, api, batch, zset, pushed, faults>>

\* GetByTaskID of the next result, in the order of the scores. Any error, not
\* only that of a missing row, goes straight to the removal.
Get(s) ==
  LET found == scanner[s].found IN
  /\ scanner[s].pc = "get"
  /\ \E L \in Lowest(found, 1) : \E m \in L :
       \/ /\ scanner' = [scanner EXCEPT ![s] =
                           [pc |-> "push", found |-> found \ {m}, task |-> m.task]]
          /\ UNCHANGED faults
       \/ /\ Faults(1)
          /\ scanner' = [scanner EXCEPT ![s] =
                           [pc |-> "remove", found |-> found \ {m}, task |-> m.task]]
  /\ UNCHANGED <<now, wish, row, api, batch, zset, pushed>>

\* Scanner s goes on to its next result, or its scan is over.
NextResult(s) ==
  scanner' = [scanner EXCEPT ![s] =
    IF @.found = {} THEN Idle ELSE [@ EXCEPT !.pc = "get", !.task = NoScore]]

PushDue(s) ==
  LET t == scanner[s].task IN
  /\ scanner[s].pc = "push"
  /\ \/ /\ Enqueue(t, Stored(wish[t]))
        /\ scanner' = [scanner EXCEPT ![s].pc = "remove"]
        /\ UNCHANGED faults
     \/ /\ Faults(1)
        /\ Enqueue(t, Stored(wish[t])) \/ UNCHANGED <<zset, pushed>>
        /\ NextResult(s)
  /\ UNCHANGED <<now, wish, row, api, batch>>

\* Mutant of Remove: the member stays in the sorted set.
RemoveNothing(s) ==
  /\ scanner[s].pc = "remove"
  /\ NextResult(s)
  /\ UNCHANGED <<now, wish, row, api, batch, zset, pushed, faults>>

\* ZREM, its error ignored.
Remove(s) ==
  /\ scanner[s].pc = "remove"
  /\ \/ /\ zset' = [zset EXCEPT ![scanner[s].task] = NoScore]
        /\ UNCHANGED faults
     \/ Faults(1) /\ UNCHANGED zset
  /\ NextResult(s)
  /\ UNCHANGED <<now, wish, row, api, batch, pushed>>

-----------------------------------------------------------------------------
(* A replica dies *)

SendCrash(t) ==
  /\ api[t] \in {"push", "revert"}
  /\ Faults(1)
  /\ api' = [api EXCEPT ![t] = "refused"]
  /\ UNCHANGED <<now, wish, row, batch, zset, pushed, scanner>>

BatchCrash ==
  /\ batch.pc = "push"
  /\ Faults(1)
  /\ batch' = [pc |-> "done", count |-> 0]
  /\ UNCHANGED <<now, wish, row, api, zset, pushed, scanner>>

ScannerCrash(s) ==
  /\ scanner[s].pc # "idle"
  /\ Faults(1)
  /\ scanner' = [scanner EXCEPT ![s] = Idle]
  /\ UNCHANGED <<now, wish, row, api, batch, zset, pushed>>

-----------------------------------------------------------------------------

Send(t) == Create(t) \/ Push(t) \/ PushFails(t) \/ Revert(t) \/ SendCrash(t)

BatchSend == CreateAll \/ PushAll \/ BatchCrash

Scanning(s) == Scan(s) \/ Get(s) \/ PushDue(s) \/ Remove(s)

Next ==
  \/ Tick
  \/ \E t \in Singles : Send(t)
  \/ BatchSend
  \/ \E s \in Scanners : Scanning(s) \/ ScannerCrash(s)

Spec == Init /\ [][Next]_vars

\* Time goes on, a request that was begun is finished, and the ticker of every
\* scanner keeps firing. Nobody has to send anything.
Fairness ==
  /\ WF_vars(Tick)
  /\ \A t \in Singles : WF_vars(Push(t)) /\ WF_vars(Revert(t))
  /\ WF_vars(PushAll)
  /\ \A s \in Scanners : WF_vars(Scanning(s))

FairSpec == Spec /\ Fairness
-----------------------------------------------------------------------------
(* Properties *)

\* Every variable keeps its type, and a scan never works on more than COUNT
\* results.
TypeOK ==
  /\ now \in 1 .. LastInstant
  /\ wish \in [Tasks -> Times]
  /\ row \in [Tasks -> {"absent", "pending", "failed"}]
  /\ api \in [Singles -> {"idle", "push", "revert", "accepted", "refused"}]
  /\ batch.pc \in {"idle", "push", "done"}
  /\ batch.count \in 0 .. Cardinality(Batched)
  /\ zset \in [Tasks -> Nat \cup {NoScore}]
  /\ pushed \in [Tasks -> Nat]
  /\ \A s \in Scanners :
       /\ scanner[s].pc \in {"idle", "get", "push", "remove"}
       /\ scanner[s].found \subseteq [task : Tasks, score : Nat]
       /\ scanner[s].pc = "idle" \/ Cardinality(scanner[s].found) <= ScanCount
       /\ scanner[s].task \in Tasks \cup {NoScore}
  /\ faults \in 0 .. MaxFaults

\* Whoever pushes it, request or scanner, a task accepted by Send reaches the
\* stream in no second before the one it was scheduled for.
NeverEarly ==
  [][\A t \in Singles : pushed'[t] > pushed[t] =>
       wish[t] \div Second <= now \div Second]_vars

\* Two scanners that list a task before either removes it push it twice, but
\* that is all: at most one entry per scanner, and one more per failed access.
\* Send itself pushes once. (The types of the variables are part of it.)
PushBound ==
  /\ TypeOK
  /\ \A t \in Singles : pushed[t] <= faults +
       (IF wish[t] = 0 THEN 1 ELSE Cardinality(Scanners))

\* Tasks whose time is a whole second: the scanner keeps the others no better
\* than their score, which is the second before.
OnTheSecond == {t \in Singles : wish[t] % Second = 0}

\* A single task that was accepted and has neither an entry nor a score.
Lost == {t \in OnTheSecond : api[t] = "accepted" /\ pushed[t] = 0 /\ zset[t] = NoScore}

\* A task accepted by Send is on the stream or in the sorted set; each one that
\* is not was dropped because of a failed access of its own.
LossNeedsFault == Cardinality(Lost) <= faults

\* Without a failure every task accepted by Send for a whole second reaches the
\* stream.
EverySendGoesOut ==
  \A t \in Singles :
    t \in OnTheSecond /\ api[t] = "accepted" ~> (faults > 0 \/ pushed[t] > 0)
=============================================================================
