------------------------------ MODULE Admission ------------------------------
(***************************************************************************)
(* What a request to /api/v1 passes before its handler runs: AuthMiddleware *)
(* reads the application's row, RateLimitMiddleware and QuotaMiddleware each *)
(* run one script in Redis. Beside them administrators change applications, *)
(* and the QuotaSyncer of every replica copies the day's counts to a table. *)
(***************************************************************************)
EXTENDS Integers, FiniteSets

CONSTANTS
  Apps,
  Clients,       \* requests on their way, at most one of each client
  Syncers,       \* one per replica
  Quotas,        \* values of daily_quota an administrator asks for
  DefaultQuota,  \* default of the column daily_quota
  RateLimit,     \* requests per second, 100 in the routes
  Second,        \* instants to a second, the life of a rate key
  Day,           \* instants to a day
  MaxTime,       \* bound: the clock stops here
  MaxFaults,     \* bound: failed accesses in one behaviour
  None

ASSUME AdmissionAssumption ==
  /\ Quotas \subseteq Nat
  /\ DefaultQuota \in Nat \ {0} /\ RateLimit \in Nat \ {0}
  /\ Second \in Nat \ {0} /\ Day \in Nat \ {0}
  /\ MaxTime \in Nat /\ MaxFaults \in Nat
  /\ None \notin Apps

Times == 0..MaxTime

DayOf(t) == t \div Day

Days == {DayOf(t) : t \in Times}

VARIABLES
  now,
  app,      \* applications: [status, quota]
  rate,     \* Redis rate_limit:...: [count, until]
  used,     \* Redis quota:...: count of each day, 0 when missing
  req,      \* where each request is in the chain of middlewares
  stats,    \* app_quota_stats: total_count of each day
  sync,     \* where each QuotaSyncer.sync is
  passed,   \* history: requests the rate limit counted at each instant
  highest,  \* history: the largest quota an application ever had
  astray,   \* history: rows of stats written with another day's count
  faults

counters == <<rate, used>>
history == <<passed, highest, astray>>
vars == <<now, app, counters, req, stats, sync, history, faults>>

NoApp == [status |-> "absent", quota |-> 0]

Missing == [count |-> 0, until |-> 0]

Idle == [pc |-> "idle", app |-> None, quota |-> 0]

Asleep == [pc |-> "asleep", day |-> 0, todo |-> {}, app |-> None, count |-> 0,
           read |-> 0]

Init ==
  /\ now = 0
  /\ app = [a \in Apps |-> NoApp]
  /\ rate = [a \in Apps |-> Missing]
  /\ used = [a \in Apps |-> [d \in Days |-> 0]]
  /\ req = [c \in Clients |-> Idle]
  /\ stats = [a \in Apps |-> [d \in Days |-> 0]]
  /\ sync = [s \in Syncers |-> Asleep]
  /\ passed = [a \in Apps |-> [t \in Times |-> 0]]
  /\ highest = [a \in Apps |-> 0]
  /\ astray = {}
  /\ faults = 0

Fault == faults < MaxFaults /\ faults' = faults + 1

\* Time goes on; Redis drops the rate keys whose second is over.
Tick ==
  /\ now < MaxTime
  /\ now' = now + 1
  /\ rate' = [a \in Apps |-> IF rate[a].until <= now + 1 THEN Missing ELSE rate[a]]
  /\ UNCHANGED <<app, used, req, stats, sync, history, faults>>

-----------------------------------------------------------------------------
(* AdminApplicationService                                                   *)

Row(a, row) ==
  /\ app' = [app EXCEPT ![a] = row]
  /\ highest' = [highest EXCEPT ![a] = IF row.quota > @ THEN row.quota ELSE @]
  /\ UNCHANGED <<now, counters, req, stats, sync, passed, astray, faults>>

Exists(a) == app[a].status \in {"enabled", "disabled"}

\* gorm leaves a zero out of the INSERT and lets the column's default stand.
Inserted(quota) == IF quota = 0 THEN DefaultQuota ELSE quota

\* A missing daily_quota (None) becomes 0 first.
CreateApplication(a) ==
  /\ app[a].status = "absent"
  /\ \E quota \in Quotas \cup {None}, status \in {"enabled", "disabled"} :
       Row(a, [status |-> status,
               quota |-> Inserted(IF quota = None THEN 0 ELSE quota)])

\* Updates takes a map, so a zero is written as one. The status is 1 or 2.
UpdateApplication(a) ==
  /\ Exists(a)
  /\ \/ \E quota \in Quotas : Row(a, [app[a] EXCEPT !.quota = quota])
     \/ \E status \in {"enabled", "disabled"} : Row(a, [app[a] EXCEPT !.status = status])

\* Soft: the row is not found any more, its counters stay.
DeleteApplication(a) == Exists(a) /\ Row(a, [app[a] EXCEPT !.status = "deleted"])

-----------------------------------------------------------------------------
(* A request                                                                 *)

Arrive(c) ==
  /\ req[c].pc = "idle"
  /\ \E a \in Apps : req' = [req EXCEPT ![c] = [pc |-> "auth", app |-> a, quota |-> 0]]
  /\ UNCHANGED <<now, app, counters, stats, sync, history, faults>>

\* Answered, or handed to its handler: either way done here.
Leave(c) == req' = [req EXCEPT ![c] = Idle]

\* AuthMiddleware: the row as it is now, whose quota goes on with the request.
\* A signature of another secret or another time is refused like a fault.
Authenticate(c) ==
  LET row == app[req[c].app] IN
  /\ req[c].pc = "auth"
  /\ \/ /\ row.status = "enabled"
        /\ req' = [req EXCEPT ![c] = [pc |-> "rate", app |-> @.app, quota |-> row.quota]]
     \/ Leave(c)
  /\ UNCHANGED <<now, app, counters, stats, sync, history, faults>>

\* Mutant of BelowRate: one more.
BelowOrAtRate(a) == rate[a].count <= RateLimit

BelowRate(a) == rate[a].count < RateLimit

\* checkRateLimit: SET with EX when the key is gone, INCR below the limit; the
\* first request of a window is always counted. An error lets the request pass.
LimitRate(c) ==
  LET a == req[c].app
      gone == rate[a].count = 0
  IN
  /\ req[c].pc = "rate"
  /\ \/ /\ gone \/ BelowRate(a)
        /\ rate' = [rate EXCEPT ![a] =
                      IF gone THEN [count |-> 1, until |-> now + Second]
                      ELSE [count |-> @.count + 1, until |-> @.until]]
        /\ passed' = [passed EXCEPT ![a] = [@ EXCEPT ![now] = passed[a][now] + 1]]
        /\ req' = [req EXCEPT ![c] = [@ EXCEPT !.pc = "quota"]]
        /\ UNCHANGED faults
     \/ ~gone /\ ~BelowRate(a) /\ Leave(c) /\ UNCHANGED <<rate, passed, faults>>
     \/ /\ Fault
        /\ req' = [req EXCEPT ![c] = [@ EXCEPT !.pc = "quota"]]
        /\ UNCHANGED <<rate, passed>>
  /\ UNCHANGED <<now, app, used, stats, sync, highest, astray>>

\* INCR of today's key, or SET to 1 when there is none.
Counted(a, d) == [used EXCEPT ![a] = [@ EXCEPT ![d] = used[a][d] + 1]]

\* Mutant of BelowQuota: the limit of the whole instance, not the application's.
BelowDefault(a, quota) == used[a][DayOf(now)] < DefaultQuota

BelowQuota(a, quota) == used[a][DayOf(now)] = 0 \/ used[a][DayOf(now)] < quota

\* checkQuota with the quota of the row as it was read, 0 for no limit.
LimitQuota(c) ==
  LET a == req[c].app
      quota == req[c].quota
  IN
  /\ req[c].pc = "quota"
  /\ \/ quota = 0 /\ UNCHANGED <<used, faults>>
     \/ /\ quota # 0 /\ BelowQuota(a, quota)
        /\ used' = Counted(a, DayOf(now))
        /\ UNCHANGED faults
     \/ quota # 0 /\ ~BelowQuota(a, quota) /\ UNCHANGED <<used, faults>>
     \/ Fault /\ UNCHANGED used
  /\ Leave(c)
  /\ UNCHANGED <<now, app, rate, stats, sync, passed, highest, astray>>

-----------------------------------------------------------------------------
(* QuotaSyncer.sync                                                          *)

Pass(pc, day, todo, a, count, read) ==
  [pc |-> pc, day |-> day, todo |-> todo, app |-> a, count |-> count, read |-> read]

\* The list of applications and today's date, both once.
SyncBegin(s) ==
  /\ sync[s].pc = "asleep"
  /\ sync' = [sync EXCEPT ![s] =
                Pass("read", DayOf(now), {a \in Apps : Exists(a)}, None, 0, 0)]
  /\ UNCHANGED <<now, app, counters, req, stats, history, faults>>

Onward(s, a) ==
  IF sync[s].todo = {a} THEN Asleep
  ELSE Pass("read", sync[s].day, sync[s].todo \ {a}, None, 0, 0)

\* GetQuotaUsage reads today's key, whatever day the pass began on.
SyncRead(s) ==
  /\ sync[s].pc = "read"
  /\ IF sync[s].todo = {}
     THEN sync' = [sync EXCEPT ![s] = Asleep] /\ UNCHANGED faults
     ELSE \E a \in sync[s].todo :
            \/ /\ sync' = [sync EXCEPT ![s] =
                             Pass("write", @.day, @.todo, a, used[a][DayOf(now)], DayOf(now))]
               /\ UNCHANGED faults
            \/ Fault /\ sync' = [sync EXCEPT ![s] = Onward(s, a)]
  /\ UNCHANGED <<now, app, counters, req, stats, history>>

\* Mutant of Upserted: the count is added to the row.
Added(a, d, count) == [stats EXCEPT ![a] = [@ EXCEPT ![d] = stats[a][d] + count]]

\* ON DUPLICATE KEY UPDATE total_count.
Upserted(a, d, count) == [stats EXCEPT ![a] = [@ EXCEPT ![d] = count]]

SyncWrite(s) ==
  LET k == sync[s] IN
  /\ k.pc = "write"
  /\ \/ /\ stats' = Upserted(k.app, k.day, k.count)
        /\ astray' = IF k.read = k.day THEN astray \ {<<k.app, k.day>>}
                     ELSE astray \cup {<<k.app, k.day>>}
        /\ UNCHANGED faults
     \/ Fault /\ UNCHANGED <<stats, astray>>
  /\ sync' = [sync EXCEPT ![s] = Onward(s, k.app)]
  /\ UNCHANGED <<now, app, counters, req, passed, highest>>

-----------------------------------------------------------------------------
Admin(a) ==
  CreateApplication(a) \/ UpdateApplication(a) \/ DeleteApplication(a)

Request(c) == Arrive(c) \/ Authenticate(c) \/ LimitRate(c) \/ LimitQuota(c)

Sync(s) == SyncBegin(s) \/ SyncRead(s) \/ SyncWrite(s)

Next ==
  \/ Tick
  \/ \E a \in Apps : Admin(a)
  \/ \E c \in Clients : Request(c)
  \/ \E s \in Syncers : Sync(s)

Spec == Init /\ [][Next]_vars

-----------------------------------------------------------------------------
TypeOK ==
  /\ now \in Times
  /\ app \in [Apps -> [status : {"absent", "enabled", "disabled", "deleted"},
                       quota : Nat]]
  /\ rate \in [Apps -> [count : Nat, until : Nat]]
  /\ used \in [Apps -> [Days -> Nat]]
  /\ req \in [Clients -> [pc : {"idle", "auth", "rate", "quota"},
                          app : Apps \cup {None}, quota : Nat]]
  /\ stats \in [Apps -> [Days -> Nat]]
  /\ sync \in [Syncers -> [pc : {"asleep", "read", "write"}, day : Days,
                           todo : SUBSET Apps, app : Apps \cup {None}, count : Nat,
                           read : Days]]
  /\ passed \in [Apps -> [Times -> Nat]]
  /\ highest \in [Apps -> Nat]
  /\ astray \subseteq Apps \X Days
  /\ faults \in Nat

\* Requests of all replicas at the same time, quotas changed while requests are
\* between reading the row and counting: an application never has more requests
\* counted on a day than the largest quota it ever had.
AcceptedWithinQuota ==
  \A a \in Apps : \A d \in Days : used[a][d] <= highest[a]

\* The counted requests of the instants from first on and before end, numbered
\* within their instant.
Events(count, first, end) ==
  UNION {{i} \X (1..count[i]) : i \in {j \in Times : first <= j /\ j < end}}

\* The window of the rate limit starts with a request, not with the second. Two
\* windows can touch, three cannot: no second sees more than twice the limit.
TwiceTheRate ==
  \A a \in Apps : \A t \in Times :
    Cardinality(Events(passed[a], t, t + Second)) <= 2 * RateLimit

\* However the passes of several replicas overlap, a day's row never claims more
\* than was counted on that day, unless the pass that wrote it last ran over
\* midnight: it then put the new day's count into the old day's row. (The types
\* of the variables are part of it.)
StatsOfTheirDay ==
  /\ TypeOK
  /\ \A a \in Apps : \A d \in Days :
       <<a, d>> \in astray \/ stats[a][d] <= used[a][d]
=============================================================================
