--------------------------- MODULE AdmissionProofs ---------------------------
(***************************************************************************)
(* Admission for any number of applications, requests and replicas, and    *)
(* any quotas. An application never used more than the largest quota it    *)
(* had, because the largest only grows, and what a request carries with it *)
(* was in the row once. A day's row in the table never claims too much,    *)
(* because a day's count only grows after a QuotaSyncer has read it.       *)
(* No second sees more than twice the rate limit.                          *)
(***************************************************************************)
EXTENDS Admission, FiniteSetTheorems, TLAPS

AppRows == [status : {"absent", "enabled", "disabled", "deleted"}, quota : Nat]

Requests == [pc : {"idle", "auth", "rate", "quota"}, app : Apps \cup {None}, quota : Nat]

Syncs == [pc : {"asleep", "read", "write"}, day : Days, todo : SUBSET Apps,
          app : Apps \cup {None}, count : Nat, read : Days]

\* A request on its way names an application, and carries a quota it once had.
Carried(r) ==
  /\ r.pc # "idle" => r.app \in Apps
  /\ r.pc \in {"rate", "quota"} => r.quota <= highest[r.app]

\* A pass about to write holds a count that was reached on the day it was read.
Copied(k) ==
  k.pc = "write" => /\ k.app \in Apps
                    /\ k.read = k.day => k.count <= used[k.app][k.day]

Inv ==
  /\ TypeOK
  /\ \A a \in Apps : app[a].quota <= highest[a]
  /\ \A c \in Clients : Carried(req[c])
  /\ \A s \in Syncers : Copied(sync[s])
  /\ AcceptedWithinQuota
  /\ StatsOfTheirDay

-----------------------------------------------------------------------------

\* The clock shows a day of the calendar, and so does its first instant.
LEMMA Today ==
  now \in Times => DayOf(now) \in Days /\ 0 \in Times /\ 0 \in Days
<1>1. 0 \in Times /\ DayOf(0) = 0
  BY AdmissionAssumption DEF Times, DayOf
<1> QED
  BY <1>1 DEF Days

LEMMA InitInv == Init => Inv
<1> SUFFICES ASSUME Init PROVE Inv
  OBVIOUS
<1>1. now \in Times /\ DayOf(now) \in Days /\ 0 \in Days
  BY AdmissionAssumption, Today DEF Init, Times
<1>2. Idle \in Requests /\ Asleep \in Syncs /\ NoApp \in AppRows
  BY <1>1 DEF Idle, Asleep, NoApp, Requests, Syncs, AppRows
<1>3. TypeOK
  BY <1>1, <1>2 DEF Init, TypeOK, Requests, Syncs, AppRows, Missing
<1> QED
  BY <1>3, AdmissionAssumption
     DEF Init, Inv, Carried, Copied, Idle, Asleep, NoApp, AcceptedWithinQuota,
         StatsOfTheirDay

\* Time going on touches none of the rows, requests and passes.
LEMMA TickInv == Inv /\ Tick => Inv'
<1> SUFFICES ASSUME Inv, Tick PROVE Inv'
  OBVIOUS
<1>1. now' \in Times
  BY AdmissionAssumption DEF Inv, TypeOK, Tick, Times
<1>2. rate' \in [Apps -> [count : Nat, until : Nat]]
  BY DEF Inv, TypeOK, Tick, Missing
<1>3. TypeOK'
  BY <1>1, <1>2 DEF Inv, TypeOK, Tick, history, Times, Days
<1> QED
  BY <1>3 DEF Inv, Tick, history, Carried, Copied, AcceptedWithinQuota, StatsOfTheirDay,
              Times, Days

\* Whatever an administrator writes, the largest quota covers it and what it
\* covered before.
LEMMA RowInv ==
  ASSUME NEW a \in Apps, NEW row \in AppRows, Inv, Row(a, row)
  PROVE  Inv'
<1>1. /\ app \in [Apps -> AppRows] /\ highest \in [Apps -> Nat]
      /\ UNCHANGED <<now, rate, used, req, stats, sync, passed, astray, faults>>
  BY DEF Inv, TypeOK, AppRows, Row, counters
<1>2. app' \in [Apps -> AppRows] /\ highest' \in [Apps -> Nat]
  BY <1>1 DEF Row, AppRows
<1>3. TypeOK'
  BY <1>1, <1>2 DEF Inv, TypeOK, AppRows
<1>4. \A b \in Apps : app'[b].quota <= highest'[b] /\ highest[b] <= highest'[b]
  BY <1>1 DEF Inv, Row, AppRows
<1>5. \A c \in Clients : Carried(req[c])'
  <2> SUFFICES ASSUME NEW c \in Clients PROVE Carried(req[c])'
    OBVIOUS
  <2>1. req[c] \in Requests /\ Carried(req[c]) /\ req'[c] = req[c]
    BY <1>1 DEF Inv, TypeOK, Requests
  <2> QED
    BY <1>1, <1>2, <1>4, <2>1 DEF Carried, Requests
<1>6. AcceptedWithinQuota'
  <2> SUFFICES ASSUME NEW b \in Apps, NEW d \in Days PROVE used'[b][d] <= highest'[b]
    BY DEF AcceptedWithinQuota
  <2>1. used[b][d] \in Nat /\ used[b][d] <= highest[b]
    BY DEF Inv, TypeOK, AcceptedWithinQuota
  <2> QED
    BY <1>1, <1>2, <1>4, <2>1
<1> QED
  BY <1>1, <1>3, <1>4, <1>5, <1>6 DEF Inv, Copied, StatsOfTheirDay

\* Each operation of AdminApplicationService writes one proper row.
LEMMA AdminInv ==
  ASSUME NEW a \in Apps, Inv, Admin(a)
  PROVE  Inv'
<1>1. app[a] \in AppRows
  BY DEF Inv, TypeOK, AppRows
<1>2. CASE CreateApplication(a)
  <2> PICK quota \in Quotas \cup {None}, status \in {"enabled", "disabled"} :
        Row(a, [status |-> status, quota |-> Inserted(IF quota = None THEN 0 ELSE quota)])
    BY <1>2 DEF CreateApplication
  <2>1. Inserted(IF quota = None THEN 0 ELSE quota) \in Nat
    BY AdmissionAssumption DEF Inserted
  <2> QED
    BY <2>1, RowInv DEF AppRows
<1>3. CASE UpdateApplication(a)
  <2>1. /\ \A quota \in Quotas : [app[a] EXCEPT !.quota = quota] \in AppRows
        /\ \A status \in {"enabled", "disabled"} : [app[a] EXCEPT !.status = status] \in AppRows
    BY <1>1, AdmissionAssumption DEF AppRows
  <2> QED
    BY <1>3, <2>1, RowInv DEF UpdateApplication
<1>4. CASE DeleteApplication(a)
  <2>1. [app[a] EXCEPT !.status = "deleted"] \in AppRows
    BY <1>1 DEF AppRows
  <2> QED
    BY <1>4, <2>1, RowInv DEF DeleteApplication
<1> QED
  BY <1>2, <1>3, <1>4 DEF Admin

-----------------------------------------------------------------------------

\* A step of one request that counts nothing against a quota.
LEMMA RequestInv ==
  ASSUME NEW c \in Clients, NEW r \in Requests, Carried(r), Inv,
         req' = [req EXCEPT ![c] = r],
         rate' \in [Apps -> [count : Nat, until : Nat]],
         passed' \in [Apps -> [Times -> Nat]], faults' \in Nat,
         UNCHANGED <<now, app, used, stats, sync, highest, astray>>
  PROVE  Inv'
<1>1. req \in [Clients -> Requests]
  BY DEF Inv, TypeOK, Requests
<1>2. req' \in [Clients -> Requests]
  BY <1>1
<1>3. TypeOK'
  BY <1>2 DEF Inv, TypeOK, Requests
<1>4. \A x \in Clients : Carried(req[x])'
  BY <1>1 DEF Inv, Carried
<1> QED
  BY <1>3, <1>4 DEF Inv, Copied, AcceptedWithinQuota, StatsOfTheirDay

\* A request that left carries nothing.
LEMMA IdleCarried == Idle \in Requests /\ Carried(Idle)
BY DEF Idle, Requests, Carried

LEMMA ArriveInv ==
  ASSUME NEW c \in Clients, Inv, Arrive(c)
  PROVE  Inv'
<1> PICK a \in Apps : req' = [req EXCEPT ![c] = [pc |-> "auth", app |-> a, quota |-> 0]]
  BY DEF Arrive
<1> DEFINE r == [pc |-> "auth", app |-> a, quota |-> 0]
<1>1. r \in Requests /\ Carried(r)
  BY DEF Idle, Requests, Carried
<1>2. /\ rate' \in [Apps -> [count : Nat, until : Nat]]
      /\ passed' \in [Apps -> [Times -> Nat]] /\ faults' \in Nat
      /\ UNCHANGED <<now, app, used, stats, sync, highest, astray>>
  BY DEF Inv, TypeOK, Arrive, counters, history
<1>3. req' = [req EXCEPT ![c] = r]
  OBVIOUS
<1> HIDE DEF r
<1> QED
  BY <1>1, <1>2, <1>3, RequestInv

\* The row is read: the largest quota covers what it says.
LEMMA AuthenticateInv ==
  ASSUME NEW c \in Clients, Inv, Authenticate(c)
  PROVE  Inv'
<1> DEFINE a == req[c].app
           r == [pc |-> "rate", app |-> a, quota |-> app[a].quota]
<1>1. req[c] \in Requests /\ Carried(req[c]) /\ req[c].pc = "auth" /\ a \in Apps
  BY DEF Inv, TypeOK, Requests, Carried, Authenticate
<1>2. app[a].quota \in Nat /\ app[a].quota <= highest[a]
  BY <1>1 DEF Inv, TypeOK
<1>3. r \in Requests /\ Carried(r)
  BY <1>1, <1>2 DEF Requests, Carried
<1>4. /\ rate' \in [Apps -> [count : Nat, until : Nat]]
      /\ passed' \in [Apps -> [Times -> Nat]] /\ faults' \in Nat
      /\ UNCHANGED <<now, app, used, stats, sync, highest, astray>>
  BY DEF Inv, TypeOK, Authenticate, counters, history
<1>5. req' = [req EXCEPT ![c] = r] \/ req' = [req EXCEPT ![c] = Idle]
  BY DEF Authenticate, Leave
<1> HIDE DEF a, r
<1> QED
  BY <1>3, <1>4, <1>5, IdleCarried, RequestInv

\* Counting at the rate limit leaves what the request carries alone.
LEMMA LimitRateInv ==
  ASSUME NEW c \in Clients, Inv, LimitRate(c)
  PROVE  Inv'
<1> DEFINE a == req[c].app
           r == [req[c] EXCEPT !.pc = "quota"]
<1>1. req[c] \in Requests /\ Carried(req[c]) /\ req[c].pc = "rate" /\ a \in Apps
  BY DEF Inv, TypeOK, Requests, Carried, LimitRate
<1>2. r \in Requests /\ Carried(r)
  BY <1>1 DEF Requests, Carried
<1>3. rate[a] \in [count : Nat, until : Nat] /\ now \in Nat /\ now \in Times
  BY <1>1, AdmissionAssumption DEF Inv, TypeOK, Times
<1>4. rate' \in [Apps -> [count : Nat, until : Nat]]
  <2> DEFINE more == [count |-> rate[a].count + 1, until |-> rate[a].until]
             first == [count |-> 1, until |-> now + Second]
  <2>1. more \in [count : Nat, until : Nat] /\ first \in [count : Nat, until : Nat]
    BY <1>3, AdmissionAssumption
  <2>2. \/ rate' = [rate EXCEPT ![a] = more]
        \/ rate' = [rate EXCEPT ![a] = first]
        \/ rate' = rate
    BY DEF LimitRate
  <2>3. rate \in [Apps -> [count : Nat, until : Nat]]
    BY DEF Inv, TypeOK
  <2> HIDE DEF more, first
  <2> QED
    BY <2>1, <2>2, <2>3
<1>5. passed' \in [Apps -> [Times -> Nat]]
  <2> DEFINE more == [passed[a] EXCEPT ![now] = passed[a][now] + 1]
  <2>1. passed \in [Apps -> [Times -> Nat]]
    BY DEF Inv, TypeOK
  <2>2. passed[a][now] \in Nat
    BY <1>1, <1>3, <2>1
  <2>3. more \in [Times -> Nat]
    <3>1. passed[a] \in [Times -> Nat] /\ passed[a][now] + 1 \in Nat
      BY <1>1, <2>1, <2>2
    <3> QED
      BY <3>1, Zenon
  <2>4. passed' = [passed EXCEPT ![a] = more] \/ passed' = passed
    BY DEF LimitRate
  <2> HIDE DEF more
  <2> QED
    BY <2>1, <2>3, <2>4
<1>6. faults' \in Nat /\ UNCHANGED <<now, app, used, stats, sync, highest, astray>>
  BY DEF Inv, TypeOK, LimitRate, Fault
<1>7. req' = [req EXCEPT ![c] = r] \/ req' = [req EXCEPT ![c] = Idle]
  BY DEF LimitRate, Leave
<1> HIDE DEF a, r
<1> QED
  BY <1>2, <1>4, <1>5, <1>6, <1>7, IdleCarried, RequestInv

\* The script of the quota counts one more only below the quota the request
\* carries, and that is one the application had.
LEMMA LimitQuotaInv ==
  ASSUME NEW c \in Clients, Inv, LimitQuota(c)
  PROVE  Inv'
<1> DEFINE a == req[c].app
           d == DayOf(now)
<1>1. /\ req[c].pc = "quota" /\ a \in Apps /\ req[c].quota \in Nat
      /\ req[c].quota <= highest[a]
  BY DEF Inv, TypeOK, Carried, LimitQuota
<1>2. d \in Days
  BY Today DEF Inv, TypeOK
<1>3. /\ req' = [req EXCEPT ![c] = Idle]
      /\ UNCHANGED <<now, app, rate, stats, sync, passed, highest, astray>>
      /\ faults' \in Nat
  BY DEF Inv, TypeOK, LimitQuota, Leave, Fault
<1>4. CASE UNCHANGED used
  <2> rate' \in [Apps -> [count : Nat, until : Nat]] /\ passed' \in [Apps -> [Times -> Nat]]
    BY <1>3 DEF Inv, TypeOK
  <2> QED
    BY <1>3, <1>4, IdleCarried, RequestInv
<1>5. CASE req[c].quota # 0 /\ BelowQuota(a, req[c].quota) /\ used' = Counted(a, d)
  <2>1. used \in [Apps -> [Days -> Nat]] /\ highest \in [Apps -> Nat]
    BY DEF Inv, TypeOK
  <2>2. used[a][d] \in Nat /\ highest[a] \in Nat
    BY <1>1, <1>2, <2>1
  <2>3. used' = [used EXCEPT ![a] = [used[a] EXCEPT ![d] = used[a][d] + 1]]
    <3> HIDE DEF a, d
    <3> QED
      BY <1>5 DEF Counted
  <2>4. used' \in [Apps -> [Days -> Nat]]
    <3>1. [used[a] EXCEPT ![d] = used[a][d] + 1] \in [Days -> Nat]
      <4>1. used[a] \in [Days -> Nat] /\ used[a][d] + 1 \in Nat
        BY <1>1, <2>1, <2>2
      <4> HIDE DEF a, d
      <4> QED
        BY <4>1, Zenon
    <3> HIDE DEF a, d
    <3> QED
      BY <2>1, <2>3, <3>1
  <2>5. used'[a][d] = used[a][d] + 1
    BY <1>1, <1>2, <2>1, <2>3
  <2>6. \A b \in Apps, e \in Days : used[b][e] <= used'[b][e]
    BY <2>1, <2>2, <2>3
  <2>7. used[a][d] < highest[a]
    BY <1>1, <1>5, <2>2 DEF BelowQuota
  <2>8. AcceptedWithinQuota'
    <3> SUFFICES ASSUME NEW b \in Apps, NEW e \in Days PROVE used'[b][e] <= highest'[b]
      BY DEF AcceptedWithinQuota
    <3>1. CASE b = a /\ e = d
      BY <1>3, <2>2, <2>5, <2>7, <3>1
    <3>2. CASE ~(b = a /\ e = d)
      <4>1. used'[b][e] = used[b][e]
        BY <2>1, <2>3, <3>2
      <4> QED
        BY <1>3, <4>1 DEF Inv, AcceptedWithinQuota
    <3> QED
      BY <3>1, <3>2
  <2>9. req' \in [Clients -> Requests]
    BY <1>3, IdleCarried DEF Inv, TypeOK, Requests
  <2>10. TypeOK'
    BY <1>3, <2>4, <2>9 DEF Inv, TypeOK, Requests
  <2>11. \A x \in Clients : Carried(req[x])'
    BY <1>3, IdleCarried DEF Inv, TypeOK, Carried
  <2>12. \A s \in Syncers : Copied(sync[s])'
    <3> SUFFICES ASSUME NEW s \in Syncers PROVE Copied(sync[s])'
      OBVIOUS
    <3>1. Copied(sync[s]) /\ sync'[s] = sync[s] /\ sync[s] \in Syncs
      BY <1>3 DEF Inv, TypeOK, Syncs
    <3> QED
      BY <2>1, <2>4, <2>6, <3>1 DEF Copied, Syncs
  <2>13. \A b \in Apps : \A e \in Days : <<b, e>> \in astray' \/ stats'[b][e] <= used'[b][e]
    <3> SUFFICES ASSUME NEW b \in Apps, NEW e \in Days, <<b, e>> \notin astray
                 PROVE  stats[b][e] <= used'[b][e]
      BY <1>3
    <3>1. stats[b][e] \in Nat /\ stats[b][e] <= used[b][e]
      BY DEF Inv, TypeOK, StatsOfTheirDay
    <3> QED
      BY <2>1, <2>4, <2>6, <3>1
  <2> QED
    BY <1>3, <2>8, <2>10, <2>11, <2>12, <2>13 DEF Inv, StatsOfTheirDay
<1> QED
  BY <1>4, <1>5 DEF LimitQuota

-----------------------------------------------------------------------------

\* A step of one pass that does not write.
LEMMA PassInv ==
  ASSUME NEW s \in Syncers, NEW k \in Syncs, Copied(k), Inv,
         sync' = [sync EXCEPT ![s] = k], faults' \in Nat,
         UNCHANGED <<now, app, counters, req, stats, history>>
  PROVE  Inv'
<1>1. sync \in [Syncers -> Syncs]
  BY DEF Inv, TypeOK, Syncs
<1>2. sync' \in [Syncers -> Syncs]
  BY <1>1
<1>3. TypeOK'
  BY <1>2 DEF Inv, TypeOK, Syncs, counters, history
<1>4. \A x \in Syncers : Copied(sync[x])'
  BY <1>1 DEF Inv, Copied, counters
<1> QED
  BY <1>3, <1>4 DEF Inv, Carried, AcceptedWithinQuota, StatsOfTheirDay, counters, history

\* After an application a pass reads the next one, or sleeps.
LEMMA OnwardCopied ==
  ASSUME NEW s \in Syncers, NEW a, Inv
  PROVE  Onward(s, a) \in Syncs /\ Copied(Onward(s, a))
<1> DEFINE k == Pass("read", sync[s].day, sync[s].todo \ {a}, None, 0, 0)
<1>1. 0 \in Days /\ sync[s] \in Syncs
  BY Today DEF Inv, TypeOK, Syncs
<1>2. Asleep \in Syncs /\ Copied(Asleep)
  BY <1>1 DEF Asleep, Syncs, Copied
<1>3. k \in Syncs /\ Copied(k)
  BY <1>1 DEF Pass, Syncs, Copied
<1> HIDE DEF k
<1> QED
  BY <1>2, <1>3 DEF Onward, k

LEMMA SyncBeginInv ==
  ASSUME NEW s \in Syncers, Inv, SyncBegin(s)
  PROVE  Inv'
<1> DEFINE k == Pass("read", DayOf(now), {a \in Apps : Exists(a)}, None, 0, 0)
<1>1. 0 \in Days /\ DayOf(now) \in Days
  BY Today DEF Inv, TypeOK
<1>2. k \in Syncs /\ Copied(k)
  BY <1>1 DEF Pass, Syncs, Copied
<1>3. /\ faults' \in Nat /\ sync' = [sync EXCEPT ![s] = k]
      /\ UNCHANGED <<now, app, counters, req, stats, history>>
  BY DEF Inv, TypeOK, SyncBegin
<1> HIDE DEF k
<1> QED
  BY <1>2, <1>3, PassInv

\* What is read is today's count, in use if the pass began today.
LEMMA SyncReadInv ==
  ASSUME NEW s \in Syncers, Inv, SyncRead(s)
  PROVE  Inv'
<1>1. 0 \in Days /\ DayOf(now) \in Days /\ sync[s] \in Syncs
  BY Today DEF Inv, TypeOK, Syncs
<1>2. faults' \in Nat /\ UNCHANGED <<now, app, counters, req, stats, history>>
  BY DEF Inv, TypeOK, SyncRead, Fault
<1>3. CASE sync' = [sync EXCEPT ![s] = Asleep]
  <2>1. Asleep \in Syncs /\ Copied(Asleep)
    BY <1>1 DEF Asleep, Syncs, Copied
  <2> QED
    BY <1>2, <1>3, <2>1, PassInv
<1>4. ASSUME NEW a \in sync[s].todo, sync' = [sync EXCEPT ![s] = Onward(s, a)]
      PROVE  Inv'
  BY <1>2, <1>4, OnwardCopied, PassInv
<1>5. ASSUME NEW a \in sync[s].todo,
             sync' = [sync EXCEPT ![s] = Pass("write", sync[s].day, sync[s].todo, a,
                                              used[a][DayOf(now)], DayOf(now))]
      PROVE  Inv'
  <2> DEFINE k == Pass("write", sync[s].day, sync[s].todo, a, used[a][DayOf(now)],
                       DayOf(now))
  <2>1. a \in Apps /\ used[a][DayOf(now)] \in Nat
    BY <1>1 DEF Inv, TypeOK, Syncs
  <2>2. k \in Syncs /\ Copied(k)
    BY <1>1, <2>1 DEF Pass, Syncs, Copied
  <2>3. sync' = [sync EXCEPT ![s] = k]
    BY <1>5
  <2> HIDE DEF k
  <2> QED
    BY <1>2, <2>2, <2>3, PassInv
<1> QED
  BY <1>3, <1>4, <1>5 DEF SyncRead

\* A row gets a count of its own day that the day reached, or is set aside.
LEMMA SyncWriteInv ==
  ASSUME NEW s \in Syncers, Inv, SyncWrite(s)
  PROVE  Inv'
<1> DEFINE k == sync[s]
<1>1. k \in Syncs /\ Copied(k) /\ k.pc = "write" /\ k.app \in Apps
  BY DEF Inv, TypeOK, Syncs, Copied, SyncWrite
<1>2. /\ faults' \in Nat /\ sync' = [sync EXCEPT ![s] = Onward(s, k.app)]
      /\ UNCHANGED <<now, app, counters, req, passed, highest>>
  BY DEF Inv, TypeOK, SyncWrite, Fault
<1>3. CASE UNCHANGED <<stats, astray>>
  BY <1>2, <1>3, OnwardCopied, PassInv DEF history
<1>4. CASE /\ stats' = Upserted(k.app, k.day, k.count)
           /\ astray' = IF k.read = k.day THEN astray \ {<<k.app, k.day>>}
                        ELSE astray \cup {<<k.app, k.day>>}
  <2>1. k.day \in Days /\ k.count \in Nat
    BY <1>1 DEF Syncs
  <2>2. stats \in [Apps -> [Days -> Nat]]
    BY DEF Inv, TypeOK
  <2>3. stats' = [stats EXCEPT ![k.app] = [stats[k.app] EXCEPT ![k.day] = k.count]]
    BY <1>4 DEF Upserted
  <2>4. stats' \in [Apps -> [Days -> Nat]]
    <3>1. [stats[k.app] EXCEPT ![k.day] = k.count] \in [Days -> Nat]
      BY <1>1, <2>1, <2>2
    <3> HIDE DEF k
    <3> QED
      BY <2>2, <2>3, <3>1
  <2>5. astray' \subseteq Apps \X Days
    BY <1>1, <1>4, <2>1 DEF Inv, TypeOK
  <2>6. sync' \in [Syncers -> Syncs]
    BY <1>2, OnwardCopied DEF Inv, TypeOK, Syncs
  <2>7. TypeOK'
    BY <1>2, <2>4, <2>5, <2>6 DEF Inv, TypeOK, Syncs, counters
  <2>8. \A x \in Syncers : Copied(sync[x])'
    <3> SUFFICES ASSUME NEW x \in Syncers PROVE Copied(sync[x])'
      OBVIOUS
    <3>1. used' = used /\ sync \in [Syncers -> Syncs]
      BY <1>2 DEF Inv, TypeOK, Syncs, counters
    <3>2. Copied(sync'[x])
      BY <1>2, <3>1, OnwardCopied DEF Inv
    <3> QED
      BY <3>1, <3>2 DEF Copied
  <2>9. \A b \in Apps : \A e \in Days : <<b, e>> \in astray' \/ stats'[b][e] <= used'[b][e]
    <3> SUFFICES ASSUME NEW b \in Apps, NEW e \in Days, <<b, e>> \notin astray'
                 PROVE  stats'[b][e] <= used[b][e]
      BY <1>2 DEF counters
    <3>1. CASE b = k.app /\ e = k.day
      <4>1. k.read = k.day
        BY <1>4, <3>1
      <4>2. stats'[b][e] = k.count
        BY <1>1, <2>1, <2>2, <2>3, <3>1
      <4> QED
        BY <1>1, <3>1, <4>1, <4>2 DEF Copied
    <3>2. CASE ~(b = k.app /\ e = k.day)
      <4>1. stats'[b][e] = stats[b][e]
        BY <2>2, <2>3, <3>2
      <4>2. <<b, e>> \notin astray
        BY <1>4, <3>2
      <4> QED
        BY <4>1, <4>2 DEF Inv, StatsOfTheirDay
    <3> QED
      BY <3>1, <3>2
  <2> QED
    BY <1>2, <2>7, <2>8, <2>9
       DEF Inv, Carried, AcceptedWithinQuota, StatsOfTheirDay, counters
<1> QED
  BY <1>3, <1>4 DEF SyncWrite

-----------------------------------------------------------------------------

\* Every step keeps the invariant.
LEMMA NextInv == Inv /\ [Next]_vars => Inv'
<1> SUFFICES ASSUME Inv, [Next]_vars PROVE Inv'
  OBVIOUS
<1>1. CASE Tick
  BY <1>1, TickInv
<1>2. ASSUME NEW a \in Apps, Admin(a) PROVE Inv'
  BY <1>2, AdminInv
<1>3. ASSUME NEW c \in Clients, Request(c) PROVE Inv'
  BY <1>3, ArriveInv, AuthenticateInv, LimitRateInv, LimitQuotaInv DEF Request
<1>4. ASSUME NEW s \in Syncers, Sync(s) PROVE Inv'
  BY <1>4, SyncBeginInv, SyncReadInv, SyncWriteInv DEF Sync
<1>5. CASE UNCHANGED vars
  BY <1>5 DEF Inv, TypeOK, Carried, Copied, AcceptedWithinQuota, StatsOfTheirDay, vars,
              counters, history, Times, Days
<1> QED
  BY <1>1, <1>2, <1>3, <1>4, <1>5 DEF Next

\* The invariant holds of every behaviour.
LEMMA AlwaysInv == Spec => []Inv
<1> QED
  BY InitInv, NextInv, PTL DEF Spec

\* checkQuota never counts more requests of an application on a day than the
\* largest quota it ever had, however many requests and replicas there are and
\* whenever the quota is changed.
THEOREM QuotaKept == Spec => []AcceptedWithinQuota
<1>1. Inv => AcceptedWithinQuota
  BY DEF Inv
<1> QED
  BY <1>1, AlwaysInv, PTL

\* A row of app_quota_stats never claims more than its day counted, unless the
\* pass that wrote it last ran over midnight, however many replicas copy.
THEOREM StatsKept == Spec => []StatsOfTheirDay
<1>1. Inv => StatsOfTheirDay
  BY DEF Inv
<1> QED
  BY <1>1, AlwaysInv, PTL

-----------------------------------------------------------------------------
(* The rate limit *)

\* After the last instant.
End == MaxTime + 1

\* The last window of the key began at s: few requests were counted since then and
\* few in the second before that; while it lasts the key says how many.
Window(a, s) ==
  /\ s \in Int /\ s <= now
  /\ Cardinality(Events(passed[a], s, End)) <= RateLimit
  /\ Cardinality(Events(passed[a], s - Second, s)) <= RateLimit
  /\ \A t \in Times : t > now => passed[a][t] = 0
  /\ rate[a].count = 0 => s + Second <= now /\ passed[a][now] = 0
  /\ rate[a].count # 0 =>
       /\ rate[a].until = s + Second /\ now < s + Second
       /\ rate[a].count = Cardinality(Events(passed[a], s, End))

\* The same of every application, of finitely many requests.
RateInv ==
  \A a \in Apps : /\ IsFiniteSet(Events(passed[a], 0, End))
                  /\ \E s \in Int : Window(a, s)

\* Whatever was counted, a stretch of time has no more of it than a longer one.
LEMMA EventsWithin ==
  ASSUME NEW f, NEW first \in Int, NEW end \in Int, NEW s \in Int, NEW e \in Int,
         \A i \in Times : first <= i /\ i < end => s <= i /\ i < e
  PROVE  Events(f, first, end) \subseteq Events(f, s, e)
BY DEF Events

\* And a stretch has finitely many requests when all of them are finitely many.
LEMMA EventsFinite ==
  ASSUME NEW f, IsFiniteSet(Events(f, 0, End)), NEW first \in Int, NEW end \in Int
  PROVE  /\ IsFiniteSet(Events(f, first, end))
         /\ Cardinality(Events(f, first, end)) \in Nat
<1>1. Events(f, first, end) \subseteq Events(f, 0, End)
  BY AdmissionAssumption DEF Events, End, Times
<1>2. IsFiniteSet(Events(f, first, end))
  BY <1>1, FS_Subset
<1> QED BY <1>2, FS_CardinalityType

LEMMA EventsFewer ==
  ASSUME NEW f, IsFiniteSet(Events(f, 0, End)),
         NEW first \in Int, NEW end \in Int, NEW s \in Int, NEW e \in Int,
         \A i \in Times : first <= i /\ i < end => s <= i /\ i < e
  PROVE  Cardinality(Events(f, first, end)) <= Cardinality(Events(f, s, e))
<1>1. Events(f, first, end) \subseteq Events(f, s, e)
  BY EventsWithin
<1>2. IsFiniteSet(Events(f, s, e))
  BY EventsFinite
<1> QED BY <1>1, <1>2, FS_Subset

\* A second that begins in the one before s has no more than that and what is after.
LEMMA EventsSplit ==
  ASSUME NEW f, IsFiniteSet(Events(f, 0, End)), NEW s \in Int, NEW t \in Int, s - Second <= t
  PROVE  Cardinality(Events(f, t, t + Second))
           <= Cardinality(Events(f, s - Second, s)) + Cardinality(Events(f, s, End))
<1> DEFINE A == Events(f, s - Second, s)
           B == Events(f, s, End)
           C == Events(f, t, t + Second)
<1>0. Second \in Nat /\ End \in Int /\ \A i \in Times : i \in Int /\ i < End
  BY AdmissionAssumption DEF End, Times
<1>1. C \subseteq A \cup B
  <2> SUFFICES ASSUME NEW x \in C PROVE x \in A \cup B
    OBVIOUS
  <2>1. PICK i \in Times : t <= i /\ i < t + Second /\ x \in {i} \X (1..f[i])
    BY DEF Events
  <2>2. CASE i < s
    BY <1>0, <2>1, <2>2 DEF Events
  <2>3. CASE s <= i
    BY <1>0, <2>1, <2>3 DEF Events
  <2> QED BY <1>0, <2>1, <2>2, <2>3
<1>2. /\ IsFiniteSet(A) /\ IsFiniteSet(B)
      /\ Cardinality(A) \in Nat /\ Cardinality(B) \in Nat
  BY <1>0, EventsFinite
<1> HIDE DEF A, B, C
<1>3. IsFiniteSet(A \cup B)
      /\ Cardinality(A \cup B) = Cardinality(A) + Cardinality(B) - Cardinality(A \cap B)
  BY <1>2, FS_Union
<1>4. Cardinality(A \cap B) \in Nat
  <2>1. IsFiniteSet(A \cap B)
    BY <1>2, FS_Subset
  <2> QED BY <2>1, FS_CardinalityType
<1>5. Cardinality(C) <= Cardinality(A \cup B) /\ Cardinality(C) \in Nat
  <2>1. IsFiniteSet(C) /\ Cardinality(C) <= Cardinality(A \cup B)
    BY <1>1, <1>3, FS_Subset
  <2> QED BY <2>1, FS_CardinalityType
<1> QED BY <1>2, <1>3, <1>4, <1>5 DEF A, B, C

\* One request more at instant n.
More(f, g, n) == g[n] = f[n] + 1 /\ \A i \in Times : i # n => g[i] = f[i]

\* It is e, which is new, and in the stretches that n is in.
Adds(f, g, n, e) ==
  \A first, end \in Int :
    /\ first <= n /\ n < end => Events(g, first, end) = Events(f, first, end) \cup {e}
    /\ ~(first <= n /\ n < end) => Events(g, first, end) = Events(f, first, end)
    /\ e \notin Events(f, first, end)

LEMMA EventsMore ==
  ASSUME NEW f \in [Times -> Nat], NEW n \in Times, NEW g, More(f, g, n)
  PROVE  \E e : Adds(f, g, n, e)
<1> SUFFICES ASSUME NEW first \in Int, NEW end \in Int
             PROVE
               /\ first <= n /\ n < end =>
                    Events(g, first, end) = Events(f, first, end) \cup {<<n, f[n] + 1>>}
               /\ ~(first <= n /\ n < end) => Events(g, first, end) = Events(f, first, end)
               /\ <<n, f[n] + 1>> \notin Events(f, first, end)
  BY DEF Adds
<1>1. g[n] = f[n] + 1 /\ \A i \in Times : i # n => g[i] = f[i]
  BY DEF More
<1>2. f[n] \in Nat /\ 1..(f[n] + 1) = (1..f[n]) \cup {f[n] + 1}
  OBVIOUS
<1>3. \A x : x \in {n} \X (1..g[n]) <=> x \in {n} \X (1..f[n]) \/ x = <<n, f[n] + 1>>
  BY <1>1, <1>2
<1>4. ASSUME first <= n, n < end
      PROVE  Events(g, first, end) = Events(f, first, end) \cup {<<n, f[n] + 1>>}
  <2>1. ASSUME NEW x
        PROVE  x \in Events(g, first, end)
                 <=> x \in Events(f, first, end) \/ x = <<n, f[n] + 1>>
    BY <1>1, <1>3, <1>4 DEF Events
  <2> QED BY <2>1
<1>5. ASSUME ~(first <= n /\ n < end)
      PROVE  Events(g, first, end) = Events(f, first, end)
  <2>1. \A x : x \in Events(g, first, end) <=> x \in Events(f, first, end)
    BY <1>1, <1>5 DEF Events
  <2> QED BY <2>1
<1>6. <<n, f[n] + 1>> \notin Events(f, first, end)
  BY <1>2 DEF Events
<1> QED BY <1>4, <1>5, <1>6

\* A window that begins with the first request since the last one ended.
LEMMA FirstCounted ==
  ASSUME Inv, RateInv, NEW a \in Apps, rate[a].count = 0, UNCHANGED now,
         rate'[a].count = 1, rate'[a].until = now + Second,
         passed'[a] = [passed[a] EXCEPT ![now] = passed[a][now] + 1]
  PROVE  /\ Window(a, now)' /\ IsFiniteSet(Events(passed'[a], 0, End))
<1>0. PICK f, g, n : f = passed[a] /\ g = passed'[a] /\ n = now
  OBVIOUS
<1>1. /\ f \in [Times -> Nat] /\ n \in Times /\ n \in Int /\ 0 <= n /\ n < End
      /\ Second \in Nat \ {0} /\ RateLimit \in Nat \ {0} /\ End \in Int
      /\ n - Second \in Int /\ n - Second < n
  BY <1>0, AdmissionAssumption DEF Inv, TypeOK, Times, End
<1>2. PICK s \in Int : Window(a, s)
  BY DEF RateInv
<1>3. /\ IsFiniteSet(Events(f, 0, End)) /\ s + Second <= n
      /\ Cardinality(Events(f, s, End)) <= RateLimit
      /\ \A t \in Times : t >= n => f[t] = 0
  BY <1>0, <1>1, <1>2 DEF RateInv, Window, Times
<1>4. More(f, g, n)
  BY <1>0, <1>1 DEF More
<1>5. PICK e : Adds(f, g, n, e)
  BY <1>1, <1>4, EventsMore
<1>6. Cardinality(Events(g, n, End)) = 1
  <2>1. Events(f, n, End) = {}
    BY <1>3 DEF Events, Times
  <2>2. Events(g, n, End) = {} \cup {e}
    BY <1>1, <1>5, <2>1 DEF Adds
  <2>3. Cardinality({} \cup {e}) = 0 + 1
    <3>1. IsFiniteSet({}) /\ Cardinality({}) = 0 /\ e \notin {}
      BY FS_EmptySet
    <3> QED BY <3>1, FS_AddElement
  <2> QED BY <2>2, <2>3
<1>7. Events(g, n - Second, n) = Events(f, n - Second, n)
  BY <1>1, <1>5 DEF Adds
<1>8. Cardinality(Events(f, n - Second, n)) <= Cardinality(Events(f, s, End))
  <2>1. \A i \in Times : n - Second <= i /\ i < n => s <= i /\ i < End
    BY <1>1, <1>3 DEF Times
  <2>2. End \in Int /\ n \in Int /\ n - Second \in Int /\ s \in Int
    BY <1>1
  <2> QED BY <1>3, <2>1, <2>2, EventsFewer
<1>9. Cardinality(Events(f, n - Second, n)) <= RateLimit
  <2>1. /\ Cardinality(Events(f, n - Second, n)) \in Nat
        /\ Cardinality(Events(f, s, End)) \in Nat
    BY <1>1, <1>3, EventsFinite
  <2> QED BY <1>1, <1>3, <1>8, <2>1
<1>10. IsFiniteSet(Events(g, 0, End))
  <2>1. Events(g, 0, End) = Events(f, 0, End) \cup {e}
    BY <1>1, <1>5 DEF Adds
  <2> QED BY <1>3, <2>1, FS_AddElement
<1>11. \A t \in Times : t > n => g[t] = 0
  BY <1>1, <1>3, <1>4 DEF More, Times
<1> QED BY <1>0, <1>1, <1>6, <1>7, <1>9, <1>10, <1>11 DEF Window

\* One more in the window that goes on.
LEMMA NextCounted ==
  ASSUME Inv, RateInv, NEW a \in Apps, rate[a].count # 0, BelowRate(a), UNCHANGED now,
         rate'[a].count = rate[a].count + 1, rate'[a].until = rate[a].until,
         passed'[a] = [passed[a] EXCEPT ![now] = passed[a][now] + 1],
         NEW s \in Int, Window(a, s)
  PROVE  /\ Window(a, s)' /\ IsFiniteSet(Events(passed'[a], 0, End))
<1>0. PICK f, g, n : f = passed[a] /\ g = passed'[a] /\ n = now
  OBVIOUS
<1>1. /\ f \in [Times -> Nat] /\ n \in Times /\ n \in Int /\ 0 <= n /\ n < End
      /\ Second \in Nat \ {0} /\ RateLimit \in Nat \ {0} /\ End \in Int
      /\ rate[a].count \in Nat
  BY <1>0, AdmissionAssumption DEF Inv, TypeOK, Times, End
<1>2. /\ s <= n /\ rate[a].until = s + Second /\ n < s + Second
      /\ rate[a].count = Cardinality(Events(f, s, End))
      /\ Cardinality(Events(f, s - Second, s)) <= RateLimit
      /\ IsFiniteSet(Events(f, 0, End))
      /\ \A t \in Times : t > n => f[t] = 0
  BY <1>0 DEF Window, RateInv
<1>3. More(f, g, n)
  BY <1>0, <1>1 DEF More
<1>4. PICK e : Adds(f, g, n, e)
  BY <1>1, <1>3, EventsMore
<1>5. Cardinality(Events(g, s, End)) = rate[a].count + 1
  <2>1. Events(g, s, End) = Events(f, s, End) \cup {e} /\ e \notin Events(f, s, End)
    BY <1>1, <1>2, <1>4 DEF Adds
  <2>2. IsFiniteSet(Events(f, s, End))
    BY <1>1, <1>2, EventsFinite
  <2> QED BY <1>2, <2>1, <2>2, FS_AddElement
<1>6. Events(g, s - Second, s) = Events(f, s - Second, s)
  <2>1. s - Second \in Int /\ ~(n < s)
    BY <1>1, <1>2
  <2> QED BY <1>4, <2>1 DEF Adds
<1>7. IsFiniteSet(Events(g, 0, End))
  <2>1. Events(g, 0, End) = Events(f, 0, End) \cup {e}
    BY <1>1, <1>4 DEF Adds
  <2> QED BY <1>2, <2>1, FS_AddElement
<1>8. \A t \in Times : t > n => g[t] = 0
  BY <1>1, <1>2, <1>3 DEF More, Times
<1>9. rate[a].count + 1 <= RateLimit
  BY <1>1 DEF BelowRate
<1> QED BY <1>0, <1>1, <1>2, <1>5, <1>6, <1>7, <1>8, <1>9 DEF Window

\* A second that has the present instant in it begins before the last window or in it.
LEMMA CountedTwice ==
  ASSUME NEW f, IsFiniteSet(Events(f, 0, End)), now \in Times, NEW s \in Int, s <= now,
         Cardinality(Events(f, s, End)) <= RateLimit,
         Cardinality(Events(f, s - Second, s)) <= RateLimit,
         NEW t \in Times, now < t + Second
  PROVE  Cardinality(Events(f, t, t + Second)) <= 2 * RateLimit
<1>1. t \in Int /\ now \in Int /\ Second \in Nat /\ RateLimit \in Nat /\ End \in Int
  BY AdmissionAssumption DEF Times, End
<1>2. /\ Cardinality(Events(f, s, End)) \in Nat
      /\ Cardinality(Events(f, s - Second, s)) \in Nat
      /\ Cardinality(Events(f, t, t + Second)) \in Nat
  BY <1>1, EventsFinite
<1>3. Cardinality(Events(f, t, t + Second))
        <= Cardinality(Events(f, s - Second, s)) + Cardinality(Events(f, s, End))
  BY <1>1, EventsSplit
<1> QED BY <1>1, <1>2, <1>3

\* A step in which no request of an application is counted.
LEMMA RateUnchanged ==
  ASSUME RateInv, TwiceTheRate, NEW a \in Apps, UNCHANGED now,
         rate'[a] = rate[a], passed'[a] = passed[a]
  PROVE  /\ IsFiniteSet(Events(passed'[a], 0, End)) /\ \E s \in Int : Window(a, s)'
         /\ \A t \in Times : Cardinality(Events(passed'[a], t, t + Second)) <= 2 * RateLimit
<1>1. PICK s \in Int : Window(a, s)
  BY DEF RateInv
<1>2. Window(a, s)'
  BY <1>1 DEF Window
<1> QED BY <1>2 DEF RateInv, TwiceTheRate

LEMMA LimitRateWindows ==
  ASSUME Inv, RateInv, TwiceTheRate, NEW c \in Clients, LimitRate(c)
  PROVE  RateInv' /\ TwiceTheRate'
<1>0. PICK a : a = req[c].app
  OBVIOUS
<1>1. /\ a \in Apps /\ now' = now /\ now \in Times
      /\ passed \in [Apps -> [Times -> Nat]]
      /\ rate \in [Apps -> [count : Nat, until : Nat]]
  BY <1>0 DEF Inv, TypeOK, Carried, LimitRate
<1>2. CASE UNCHANGED <<rate, passed>>
  BY <1>1, <1>2, RateUnchanged DEF RateInv, TwiceTheRate
<1>3. CASE ~UNCHANGED <<rate, passed>>
  <2>1. /\ rate[a].count = 0 \/ BelowRate(a)
        /\ rate' = [rate EXCEPT ![a] =
                      IF rate[a].count = 0 THEN [count |-> 1, until |-> now + Second]
                      ELSE [count |-> rate[a].count + 1, until |-> rate[a].until]]
        /\ passed' = [passed EXCEPT ![a] = [passed[a] EXCEPT ![now] = passed[a][now] + 1]]
    BY <1>0, <1>3 DEF LimitRate
  <2>2. /\ rate[a].count = 0 => rate'[a].count = 1 /\ rate'[a].until = now + Second
        /\ rate[a].count # 0 => /\ rate'[a].count = rate[a].count + 1
                                /\ rate'[a].until = rate[a].until
    BY <1>1, <2>1
  <2>3. passed'[a] = [passed[a] EXCEPT ![now] = passed[a][now] + 1]
    BY <1>1, <2>1
  <2>4. \A b \in Apps : b # a => rate'[b] = rate[b] /\ passed'[b] = passed[b]
    BY <1>1, <2>1
  <2>5. IsFiniteSet(Events(passed'[a], 0, End)) /\ \E s \in Int : Window(a, s)'
    <3>1. CASE rate[a].count = 0
      <4>1. now \in Int
        BY <1>1, AdmissionAssumption DEF Times
      <4>2. Window(a, now)' /\ IsFiniteSet(Events(passed'[a], 0, End))
        BY <1>1, <2>2, <2>3, <3>1, FirstCounted
      <4>3. PICK s \in Int : s = now
        BY <4>1
      <4>4. Window(a, s)'
        BY <1>1, <4>2, <4>3 DEF Window
      <4> QED BY <4>2, <4>4
    <3>2. CASE rate[a].count # 0
      <4>1. PICK s \in Int : Window(a, s)
        BY <1>1 DEF RateInv
      <4>2. Window(a, s)' /\ IsFiniteSet(Events(passed'[a], 0, End))
        BY <1>1, <2>1, <2>2, <2>3, <3>2, <4>1, NextCounted
      <4> QED BY <4>2
    <3> QED BY <3>1, <3>2
  <2>6. ASSUME NEW t \in Times
        PROVE  Cardinality(Events(passed'[a], t, t + Second)) <= 2 * RateLimit
    <3>0. PICK f, g, n : f = passed[a] /\ g = passed'[a] /\ n = now
      OBVIOUS
    <3>1. CASE now < t + Second
      <4>1. PICK s \in Int : Window(a, s)'
        BY <2>5
      <4>2. /\ s <= now /\ Cardinality(Events(g, s, End)) <= RateLimit
            /\ Cardinality(Events(g, s - Second, s)) <= RateLimit
        BY <1>1, <3>0, <4>1 DEF Window
      <4>3. IsFiniteSet(Events(g, 0, End))
        BY <2>5, <3>0
      <4>4. Cardinality(Events(g, t, t + Second)) <= 2 * RateLimit
        BY <1>1, <3>1, <4>2, <4>3, CountedTwice
      <4> QED BY <3>0, <4>4
    <3>2. CASE ~(now < t + Second)
      <4>1. f \in [Times -> Nat] /\ t \in Int /\ t + Second \in Int /\ n \in Times
        BY <1>1, <3>0, AdmissionAssumption DEF Times
      <4>2. More(f, g, n)
        BY <2>3, <3>0, <4>1 DEF More
      <4>3. PICK e : Adds(f, g, n, e)
        BY <4>1, <4>2, EventsMore
      <4>4. Events(g, t, t + Second) = Events(f, t, t + Second)
        BY <3>0, <3>2, <4>1, <4>3 DEF Adds
      <4> QED BY <1>1, <3>0, <4>4 DEF TwiceTheRate
    <3> QED BY <3>1, <3>2
  <2>7. ASSUME NEW b \in Apps, b # a
        PROVE  /\ IsFiniteSet(Events(passed'[b], 0, End)) /\ \E s \in Int : Window(b, s)'
               /\ \A t \in Times :
                    Cardinality(Events(passed'[b], t, t + Second)) <= 2 * RateLimit
    BY <1>1, <2>4, <2>7, RateUnchanged
  <2>8. ASSUME NEW b \in Apps
        PROVE  /\ IsFiniteSet(Events(passed'[b], 0, End)) /\ \E s \in Int : Window(b, s)'
               /\ \A t \in Times :
                    Cardinality(Events(passed'[b], t, t + Second)) <= 2 * RateLimit
    <3>1. CASE b = a
      BY <2>5, <2>6, <3>1
    <3>2. CASE b # a
      BY <2>7, <3>2
    <3> QED BY <3>1, <3>2
  <2> QED BY <2>8 DEF RateInv, TwiceTheRate
<1> QED BY <1>2, <1>3

\* The key goes when its second is over.
LEMMA TickWindows ==
  ASSUME Inv, RateInv, Tick
  PROVE  RateInv'
<1> SUFFICES ASSUME NEW a \in Apps
             PROVE  IsFiniteSet(Events(passed'[a], 0, End)) /\ \E s \in Int : Window(a, s)'
  BY DEF RateInv
<1>1. /\ now \in Int /\ now + 1 \in Times /\ now' = now + 1 /\ passed' = passed
      /\ Second \in Nat \ {0} /\ rate[a] \in [count : Nat, until : Nat]
      /\ rate'[a] = IF rate[a].until <= now + 1 THEN Missing ELSE rate[a]
  BY AdmissionAssumption DEF Inv, TypeOK, Tick, Times, history
<1>2. PICK s \in Int : Window(a, s)
  BY DEF RateInv
<1>3. \A t \in Times : t > now + 1 => passed[a][t] = 0
  BY <1>1, <1>2, AdmissionAssumption DEF Window, Times
<1>4. passed[a][now + 1] = 0
  BY <1>1, <1>2 DEF Window
<1>5. CASE rate[a].until <= now + 1
  <2>1. rate'[a].count = 0
    BY <1>1, <1>5 DEF Missing
  <2>2. s + Second <= now + 1
    BY <1>1, <1>2, <1>5 DEF Window
  <2> QED BY <1>1, <1>2, <1>3, <1>4, <2>1, <2>2 DEF Window, RateInv
<1>6. CASE ~(rate[a].until <= now + 1)
  <2>1. rate'[a] = rate[a]
    BY <1>1, <1>6
  <2>2. rate[a].count = 0 => s + Second <= now + 1
    BY <1>1, <1>2 DEF Window
  <2>3. rate[a].count # 0 => now + 1 < s + Second
    BY <1>1, <1>2, <1>6 DEF Window
  <2> QED BY <1>1, <1>2, <1>3, <1>4, <2>1, <2>2, <2>3 DEF Window, RateInv
<1> QED BY <1>5, <1>6

LEMMA NextWindows == Inv /\ RateInv /\ TwiceTheRate /\ [Next]_vars => RateInv' /\ TwiceTheRate'
<1> SUFFICES ASSUME Inv, RateInv, TwiceTheRate, [Next]_vars PROVE RateInv' /\ TwiceTheRate'
  OBVIOUS
<1>1. CASE UNCHANGED <<now, rate, passed>>
  BY <1>1, RateUnchanged DEF RateInv, TwiceTheRate
<1>2. CASE Tick
  <2>1. passed' = passed
    BY <1>2 DEF Tick, history
  <2> QED BY <1>2, <2>1, TickWindows DEF TwiceTheRate
<1>3. ASSUME NEW c \in Clients, Request(c) PROVE RateInv' /\ TwiceTheRate'
  <2>1. CASE LimitRate(c)
    BY <2>1, LimitRateWindows
  <2>2. CASE ~LimitRate(c)
    BY <1>1, <1>3, <2>2
       DEF Request, Arrive, Authenticate, LimitQuota, counters, history
  <2> QED BY <2>1, <2>2
<1>4. ASSUME NEW a \in Apps, Admin(a) PROVE UNCHANGED <<now, rate, passed>>
  BY <1>4 DEF Admin, CreateApplication, UpdateApplication, DeleteApplication, Row, counters
<1>5. ASSUME NEW s \in Syncers, Sync(s) PROVE UNCHANGED <<now, rate, passed>>
  BY <1>5 DEF Sync, SyncBegin, SyncRead, SyncWrite, counters, history
<1>6. CASE UNCHANGED vars
  BY <1>1, <1>6 DEF vars, counters, history
<1> QED BY <1>1, <1>2, <1>3, <1>4, <1>5, <1>6 DEF Next

\* Before the first request.
LEMMA InitWindows == Init => RateInv /\ TwiceTheRate
<1> SUFFICES ASSUME Init, NEW a \in Apps
             PROVE  /\ IsFiniteSet(Events(passed[a], 0, End)) /\ \E s \in Int : Window(a, s)
                    /\ \A t \in Times :
                         Cardinality(Events(passed[a], t, t + Second)) <= 2 * RateLimit
  BY DEF RateInv, TwiceTheRate
<1>1. /\ now = 0 /\ Second \in Nat \ {0} /\ RateLimit \in Nat \ {0}
      /\ rate[a].count = 0 /\ \A t \in Times : passed[a][t] = 0
      /\ 0 \in Times
  BY AdmissionAssumption DEF Init, Missing, Times
<1>2. ASSUME NEW first, NEW end
      PROVE  Events(passed[a], first, end) = {}
  BY <1>1 DEF Events
<1>3. IsFiniteSet({}) /\ Cardinality({}) = 0
  BY FS_EmptySet
<1>4. PICK s \in Int : s = 0 - Second
  BY <1>1
<1>5. Window(a, s)
  BY <1>1, <1>2, <1>3, <1>4 DEF Window
<1> QED BY <1>1, <1>2, <1>3, <1>5

\* Whatever second one looks at, no more than twice the limit of an application's
\* requests were let through by checkRateLimit in it, however many replicas and
\* clients there are: not counting those that an unreachable Redis lets pass.
THEOREM RateKept == Spec => []TwiceTheRate
<1> QED
  BY InitInv, NextInv, InitWindows, NextWindows, PTL DEF Spec
=============================================================================
