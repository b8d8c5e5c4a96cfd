-------------------------- MODULE SubmissionProofs --------------------------
(***************************************************************************)
(* Proofs about Submission, for any number of requests and scanners, any   *)
(* times they ask for and any number of faults: how often a task is pushed *)
(* onto the stream, how early, and what it takes to lose one.              *)
(***************************************************************************)
EXTENDS Submission, FiniteSetTheorems, TLAPS

Results == [task : Tasks, score : Nat]

Records == [pc : {"idle", "get", "push", "remove"}, found : SUBSET Results,
            task : Tasks \cup {NoScore}]

\* A scanner has a result of task t yet to come, or is at it.
Has(k, t) == \E m \in k.found : m.task = t

At(k, t) == k.pc \in {"push", "remove"} /\ k.task = t

\* A scan lists each task once, and what it is at is no more in its list.
RecordOK(k) ==
  /\ IsFiniteSet(k.found)
  /\ \A m, n \in k.found : m.task = n.task => m = n
  /\ k.pc = "idle" => k.found = {}
  /\ k.pc \in {"push", "remove"} => k.task \in Tasks /\ ~Has(k, k.task)
  /\ k.pc = "idle" \/ Cardinality(k.found) <= ScanCount

TypeInv ==
  /\ now \in 1 .. LastInstant
  /\ wish \in [Tasks -> Times]
  /\ row \in [Tasks -> {"absent", "pending", "failed"}]
  /\ api \in [Singles -> {"idle", "push", "revert", "accepted", "refused"}]
  /\ batch \in [pc : {"idle", "push", "done"}, count : 0 .. Cardinality(Batched)]
  /\ zset \in [Tasks -> Nat \cup {NoScore}]
  /\ pushed \in [Tasks -> Nat]
  /\ scanner \in [Scanners -> Records]
  /\ \A s \in Scanners : RecordOK(scanner[s])
  /\ faults \in 0 .. MaxFaults

\* A task is in the sorted set, or a scanner works on it.
Held(t) ==
  \/ zset[t] # NoScore
  \/ \E s \in Scanners : Has(scanner[s], t) \/ At(scanner[s], t)

\* Only Send puts tasks of the future into the sorted set, and it does so once.
HeldOK ==
  /\ \A t \in Tasks : Held(t) =>
       t \in Singles /\ wish[t] # 0 /\ api[t] \notin {"idle", "push"}
  /\ \A t \in Singles : api[t] \in {"idle", "push"} => pushed[t] = 0

\* A task that is on the stream while it is held is not put back into the set.
TimeOK == \A t \in Tasks : Held(t) /\ pushed[t] > 0 => Stored(wish[t]) <= now

-----------------------------------------------------------------------------
(* Arithmetic *)

\* The greatest multiple of Second that is not greater.
LEMMA Seconds ==
  ASSUME NEW n \in Nat
  PROVE  /\ n \div Second \in Nat /\ n % Second \in Nat
         /\ n = Second * (n \div Second) + (n % Second) /\ n % Second < Second
<1> QED BY TimesAssumption

\* Whole seconds that fit into n are no more than n has.
LEMMA SecondsFit ==
  ASSUME NEW n \in Nat, NEW k \in Nat
  PROVE  k * Second <= n <=> k <= n \div Second
<1> DEFINE q == n \div Second
           r == n % Second
<1>1. q \in Nat /\ r \in Nat /\ n = Second * q + r /\ r < Second /\ Second \in Nat
  BY Seconds, TimesAssumption
<1> HIDE DEF q, r
<1>2. ASSUME k <= q PROVE k * Second <= n
  <2>1. PICK d \in Nat : q = k + d
    <3>1. q - k \in Nat /\ q = k + (q - k)
      BY <1>1, <1>2
    <3> QED BY <3>1
  <2>2. Second * q = k * Second + Second * d /\ Second * d \in Nat /\ k * Second \in Nat
    BY <1>1, <2>1
  <2> QED BY <1>1, <2>2
<1>3. ASSUME k > q PROVE k * Second > n
  <2>1. PICK d \in Nat : k = q + 1 + d
    <3>1. k - (q + 1) \in Nat /\ k = q + 1 + (k - (q + 1))
      BY <1>1, <1>3
    <3> QED BY <3>1
  <2>2. k * Second = Second * q + Second + Second * d /\ Second * d \in Nat
        /\ Second * q \in Nat
    BY <1>1, <2>1
  <2> QED BY <1>1, <2>2
<1>4. k * Second \in Nat
  BY <1>1
<1>5. k * Second <= n <=> k <= q
  BY <1>1, <1>2, <1>3, <1>4
<1> QED BY <1>5 DEF q

\* Later instants are in no earlier second.
LEMMA SecondsGrow ==
  ASSUME NEW m \in Nat, NEW n \in Nat, m <= n
  PROVE  m \div Second <= n \div Second
<1> DEFINE q == m \div Second
<1>1. q \in Nat /\ q <= m \div Second
  BY Seconds
<1>2. q * Second <= m
  BY <1>1, SecondsFit
<1>3. q * Second <= n
  <2>1. q * Second \in Nat
    BY <1>1, TimesAssumption
  <2> QED BY <1>2, <2>1
<1> QED BY <1>1, <1>3, SecondsFit

\* What comes back from the table is an instant in no earlier second.
LEMMA StoredLater ==
  ASSUME NEW at \in Nat
  PROVE  /\ Stored(at) \in Nat
         /\ \A n \in Nat : Stored(at) <= n => at \div Second <= n \div Second
<1>1. CASE ~WholeSeconds
  BY <1>1, SecondsGrow DEF Stored
<1>2. CASE WholeSeconds
  <2> DEFINE h == Second \div 2
             k == (at + h) \div Second
  <2>1. h \in Nat
    BY TimesAssumption
  <2>2. at + h \in Nat
    BY <2>1
  <2>3. k \in Nat /\ at \div Second <= k
    <3>1. k \in Nat
      BY <2>2, Seconds
    <3>2. at <= at + h
      BY <2>1
    <3> HIDE DEF h
    <3> QED BY <2>2, <3>1, <3>2, SecondsGrow
  <2>4. Stored(at) = k * Second
    BY <1>2 DEF Stored
  <2> HIDE DEF k
  <2>5. ASSUME NEW n \in Nat, k * Second <= n PROVE at \div Second <= n \div Second
    <3>1. k <= n \div Second
      BY <2>3, <2>5, SecondsFit
    <3>2. at \div Second \in Nat /\ n \div Second \in Nat
      BY Seconds
    <3> QED BY <2>3, <3>1, <3>2
  <2>6. k * Second \in Nat
    BY <2>3, TimesAssumption
  <2> QED BY <2>4, <2>5, <2>6
<1> QED BY <1>1, <1>2, TimesAssumption

\* A whole second comes back as it was, and is past when its second has begun.
LEMMA WholeKept ==
  ASSUME NEW at \in Nat, at % Second = 0
  PROVE  /\ Stored(at) = at
         /\ \A n \in Nat : at \div Second <= n \div Second => at <= n
<1> DEFINE k == at \div Second
<1>1. k \in Nat /\ at = k * Second
  BY Seconds, TimesAssumption
<1> HIDE DEF k
<1>2. ASSUME NEW n \in Nat, k <= n \div Second PROVE at <= n
  BY <1>1, <1>2, SecondsFit
<1>3. CASE WholeSeconds
  <2> DEFINE h == Second \div 2
  <2>1. h \in Nat /\ h < Second
    BY TimesAssumption
  <2> HIDE DEF h
  <2>2. at + h \in Nat /\ (k + 1) * Second = k * Second + Second
    BY <1>1, <2>1, TimesAssumption
  <2>3. k * Second <= at + h /\ ~((k + 1) * Second <= at + h)
    BY <1>1, <2>1, <2>2, TimesAssumption
  <2>4. k <= (at + h) \div Second /\ ~(k + 1 <= (at + h) \div Second)
    BY <1>1, <2>2, <2>3, SecondsFit
  <2>5. (at + h) \div Second = k
    BY <1>1, <2>2, <2>4, Seconds
  <2> QED BY <1>1, <1>2, <1>3, <2>5 DEF Stored, k, h
<1>4. CASE ~WholeSeconds
  BY <1>2, <1>4 DEF Stored, k
<1> QED BY <1>3, <1>4, TimesAssumption
-----------------------------------------------------------------------------
(* Types *)

\* Failed accesses are counted.
LEMMA FaultsCount ==
  ASSUME TypeInv, NEW n \in Nat, Faults(n)
  PROVE  faults' \in 0 .. MaxFaults /\ faults' = faults + n /\ faults \in Nat
BY TimesAssumption DEF Faults, TypeInv

\* A time asked for is an instant.
LEMMA WishType == ASSUME TypeInv, NEW t \in Tasks PROVE wish[t] \in Nat
<1>1. wish[t] \in Times
  BY DEF TypeInv
<1>2. \A x \in Times : x \in 0 .. LastInstant
  BY TimesAssumption, Zenon
<1> QED BY <1>1, <1>2

\* Enqueue puts the task into the set or onto the stream.
LEMMA EnqueueType ==
  ASSUME TypeInv, NEW t \in Tasks, NEW at \in Nat, Enqueue(t, at)
  PROVE  zset' \in [Tasks -> Nat \cup {NoScore}] /\ pushed' \in [Tasks -> Nat]
<1>1. Score(at) \in Nat
  BY Seconds DEF Score
<1> QED BY <1>1 DEF Enqueue, TypeInv

\* What Send does keeps the types.
LEMMA SendTypes ==
  ASSUME TypeInv, NEW t \in Singles, Send(t)
  PROVE  TypeInv'
<1>1. t \in Tasks /\ wish[t] \in Nat
  BY WishType DEF Tasks
<1>2. UNCHANGED <<now, wish, batch, scanner>>
  BY DEF Send, Create, Push, PushFails, Revert, SendCrash
<1>3. zset' \in [Tasks -> Nat \cup {NoScore}] /\ pushed' \in [Tasks -> Nat]
  <2>1. CASE Enqueue(t, wish[t])
    BY <1>1, <2>1, EnqueueType
  <2>2. CASE UNCHANGED <<zset, pushed>>
    BY <2>2 DEF TypeInv
  <2> QED BY <2>1, <2>2 DEF Send, Create, Push, PushFails, Revert, SendCrash
<1>4. row' \in [Tasks -> {"absent", "pending", "failed"}]
  BY <1>1 DEF Send, Create, Push, PushFails, Revert, SendCrash, TypeInv
<1>5. api' \in [Singles -> {"idle", "push", "revert", "accepted", "refused"}]
  BY DEF Send, Create, Push, PushFails, Revert, SendCrash, TypeInv
<1>6. faults' \in 0 .. MaxFaults
  <2>1. UNCHANGED faults \/ Faults(1)
    BY DEF Send, Create, Push, PushFails, Revert, SendCrash
  <2> QED BY <2>1, FaultsCount DEF TypeInv
<1> QED BY <1>2, <1>3, <1>4, <1>5, <1>6 DEF TypeInv, RecordOK, Has

\* A part of the receivers.
LEMMA SomeBatched ==
  ASSUME NEW S \in SUBSET Batched
  PROVE  /\ Cardinality(S) \in 0 .. Cardinality(Batched)
         /\ Cardinality(Batched \ S) \in Nat
<1>1. IsFiniteSet(Batched)
  BY TasksAssumption, FS_Subset DEF Tasks
<1>2. IsFiniteSet(S) /\ Cardinality(S) <= Cardinality(Batched)
  BY <1>1, FS_Subset
<1>3. IsFiniteSet(Batched \ S)
  BY <1>1, FS_Subset
<1> QED BY <1>1, <1>2, <1>3, FS_CardinalityType

\* So does BatchSend.
LEMMA BatchTypes ==
  ASSUME TypeInv, BatchSend
  PROVE  TypeInv'
<1>1. UNCHANGED <<now, wish, api, zset, scanner>>
  BY DEF BatchSend, CreateAll, PushAll, BatchCrash
<1>2. CASE CreateAll
  <2>1. PICK S \in SUBSET Batched :
          /\ Faults(Cardinality(Batched \ S))
          /\ row' = [t \in Tasks |-> IF t \in S THEN "pending" ELSE row[t]]
          /\ batch' = [pc |-> "push", count |-> Cardinality(S)]
    BY <1>2 DEF CreateAll
  <2>2. faults' \in 0 .. MaxFaults
    BY <2>1, SomeBatched, FaultsCount
  <2>3. row' \in [Tasks -> {"absent", "pending", "failed"}]
    BY <2>1 DEF TypeInv
  <2>4. batch' \in [pc : {"idle", "push", "done"}, count : 0 .. Cardinality(Batched)]
    BY <2>1, SomeBatched
  <2>5. UNCHANGED pushed
    BY <1>2 DEF CreateAll
  <2> QED BY <1>1, <2>2, <2>3, <2>4, <2>5 DEF TypeInv, RecordOK, Has
<1>3. CASE PushAll \/ BatchCrash
  <2>1. faults' \in 0 .. MaxFaults
    <3>1. UNCHANGED faults \/ Faults(1)
      BY <1>3 DEF PushAll, BatchCrash
    <3> QED BY <3>1, FaultsCount DEF TypeInv
  <2>2. pushed' \in [Tasks -> Nat]
    <3>1. UNCHANGED pushed \/ \E S : Pipeline(S)
      BY <1>3 DEF PushAll, BatchCrash
    <3> QED BY <3>1 DEF Pipeline, TypeInv
  <2>3. batch' \in [pc : {"idle", "push", "done"}, count : 0 .. Cardinality(Batched)]
    <3>1. Cardinality({}) \in 0 .. Cardinality(Batched) /\ Cardinality({}) = 0
      BY SomeBatched, FS_EmptySet
    <3> QED BY <1>3, <3>1 DEF PushAll, BatchCrash, TypeInv
  <2>4. UNCHANGED row
    BY <1>3 DEF PushAll, BatchCrash
  <2> QED BY <1>1, <2>1, <2>2, <2>3, <2>4 DEF TypeInv, RecordOK, Has
<1> QED BY <1>2, <1>3 DEF BatchSend

-----------------------------------------------------------------------------
(* What the steps of a scanner do to its record *)

\* What is due is finite, of known type, and lists a task once.
LEMMA DueType ==
  ASSUME TypeInv
  PROVE  /\ Due \subseteq Results /\ IsFiniteSet(Due)
         /\ \A m \in Due : /\ zset[m.task] # NoScore /\ m.score = zset[m.task]
                           /\ m.score <= now \div Second
         /\ \A m, n \in Due : m.task = n.task => m = n
<1> DEFINE Scored == {u \in Tasks : zset[u] # NoScore}
           Member(t) == [task |-> t, score |-> zset[t]]
<1>1. Due \subseteq Members /\ \A m \in Due : m.score <= now \div Second
  BY DEF Due
<1>2. \A m \in Members : \E t \in Scored : m = Member(t)
  BY DEF Members
<1>3. \A t \in Scored : Member(t) \in Results
  BY DEF TypeInv, Results
<1>4. \A m \in Members : m \in Results /\ zset[m.task] # NoScore /\ m.score = zset[m.task]
  BY <1>2, <1>3
<1>5. \A m, n \in Members : m.task = n.task => m = n
  BY <1>2
<1>6. IsFiniteSet(Members)
  <2>1. IsFiniteSet(Scored)
    BY TasksAssumption, FS_Subset
  <2>2. \A m \in Members : m.task \in Scored
    BY <1>2
  <2> HIDE DEF Scored
  <2> DEFINE f == [m \in Members |-> m.task]
  <2>3. f \in Injection(Members, Scored)
    BY <1>5, <2>2 DEF Injection, IsInjective
  <2> QED BY <2>1, <2>3, FS_Injection
<1>7. IsFiniteSet(Due)
  BY <1>1, <1>6, FS_Subset
<1> QED BY <1>1, <1>4, <1>5, <1>7

\* A scan begins with results that are in the set and due.
LEMMA ScanGives ==
  ASSUME TypeInv, NEW s \in Scanners, Scan(s)
  PROVE  \E k \in Records :
           /\ RecordOK(k) /\ k.pc = "get" /\ k.found \subseteq Due
           /\ scanner' = [scanner EXCEPT ![s] = k]
<1>1. PICK L \in Lowest(Due, ScanCount) :
        scanner' = [scanner EXCEPT ![s] = [pc |-> "get", found |-> L, task |-> NoScore]]
  BY DEF Scan
<1>2. L \subseteq Due /\ (Cardinality(L) = ScanCount \/ Cardinality(L) < ScanCount)
  BY <1>1 DEF Lowest
<1> DEFINE k == [pc |-> "get", found |-> L, task |-> NoScore]
<1>3. k \in Records /\ k.pc = "get" /\ k.found = L
  BY <1>2, DueType DEF Records
<1>4. scanner' = [scanner EXCEPT ![s] = k]
  BY <1>1
<1> HIDE DEF k
<1>5. IsFiniteSet(L)
  BY <1>2, DueType, FS_Subset
<1>6. Cardinality(L) <= ScanCount
  <2>1. Cardinality(L) \in Nat
    BY <1>5, FS_CardinalityType
  <2> QED BY <1>2, <2>1, TimesAssumption
<1>7. \A m, n \in L : m.task = n.task => m = n
  BY <1>2, DueType
<1>8. RecordOK(k)
  BY <1>3, <1>5, <1>6, <1>7 DEF RecordOK
<1> QED BY <1>2, <1>3, <1>4, <1>8

\* The next result is taken from the list, to be pushed or, when its row was not
\* read, to be removed.
LEMMA GetGives ==
  ASSUME TypeInv, NEW s \in Scanners, Get(s)
  PROVE  \E k \in Records : \E m \in scanner[s].found :
           /\ RecordOK(k) /\ k.found = scanner[s].found \ {m} /\ k.task = m.task
           /\ m.task \in Tasks
           /\ \/ k.pc = "push" /\ UNCHANGED faults
              \/ k.pc = "remove" /\ Faults(1)
           /\ scanner' = [scanner EXCEPT ![s] = k]
<1>1. PICK m \in scanner[s].found, pc \in {"push", "remove"} :
        /\ scanner' = [scanner EXCEPT ![s] =
             [pc |-> pc, found |-> scanner[s].found \ {m}, task |-> m.task]]
        /\ \/ pc = "push" /\ UNCHANGED faults
           \/ pc = "remove" /\ Faults(1)
  <2>1. PICK L \in Lowest(scanner[s].found, 1) : \E m \in L :
       \/ /\ scanner' = [scanner EXCEPT ![s] =
              [pc |-> "push", found |-> scanner[s].found \ {m}, task |-> m.task]]
          /\ UNCHANGED faults
       \/ /\ Faults(1)
          /\ scanner' = [scanner EXCEPT ![s] =
              [pc |-> "remove", found |-> scanner[s].found \ {m}, task |-> m.task]]
    BY DEF Get
  <2>2. L \subseteq scanner[s].found
    BY DEF Lowest
  <2>3. PICK m \in L :
       \/ /\ scanner' = [scanner EXCEPT ![s] =
              [pc |-> "push", found |-> scanner[s].found \ {m}, task |-> m.task]]
          /\ UNCHANGED faults
       \/ /\ Faults(1)
          /\ scanner' = [scanner EXCEPT ![s] =
              [pc |-> "remove", found |-> scanner[s].found \ {m}, task |-> m.task]]
    BY <2>1
  <2>4. m \in scanner[s].found
    BY <2>2, <2>3
  <2> QED BY <2>3, <2>4
<1>2. scanner[s] \in Records /\ RecordOK(scanner[s]) /\ scanner[s].pc = "get"
  BY DEF TypeInv, Get
<1>3. m \in scanner[s].found /\ m \in Results /\ m.task \in Tasks /\ pc \in {"push", "remove"}
  BY <1>1, <1>2 DEF Records, Results
<1> DEFINE k == [pc |-> pc, found |-> scanner[s].found \ {m}, task |-> m.task]
<1>4. k \in Records /\ k.pc = pc /\ k.found = scanner[s].found \ {m} /\ k.task = m.task
  BY <1>2, <1>3 DEF Records
<1>5. scanner' = [scanner EXCEPT ![s] = k]
  BY <1>1
<1> HIDE DEF k
<1>6. IsFiniteSet(k.found) /\ Cardinality(k.found) <= ScanCount
  <2>1. /\ IsFiniteSet(scanner[s].found) /\ Cardinality(scanner[s].found) <= ScanCount
        /\ Cardinality(scanner[s].found) \in Nat
    BY <1>2, FS_CardinalityType DEF RecordOK
  <2>2. /\ IsFiniteSet(k.found) /\ Cardinality(k.found) <= Cardinality(scanner[s].found)
        /\ Cardinality(k.found) \in Nat
    BY <1>4, <2>1, FS_Subset, FS_CardinalityType
  <2> QED BY <2>1, <2>2, TimesAssumption
<1>7. RecordOK(k)
  <2>1. \A x, y \in scanner[s].found : x.task = y.task => x = y
    BY <1>2 DEF RecordOK
  <2>2. (\A x, y \in k.found : x.task = y.task => x = y) /\ ~Has(k, k.task)
    BY <1>3, <1>4, <2>1 DEF Has
  <2> QED BY <1>3, <1>4, <1>6, <2>2 DEF RecordOK
<1> QED BY <1>1, <1>3, <1>4, <1>5, <1>7

\* What a scanner that goes on to its next result has is what it had left.

LEMMA NextResultGives ==
  ASSUME TypeInv, NEW s \in Scanners, scanner[s].pc # "idle", NextResult(s)
  PROVE  \E k \in Records :
           /\ RecordOK(k) /\ k.found = scanner[s].found /\ k.pc \in {"idle", "get"}
           /\ scanner' = [scanner EXCEPT ![s] = k]
<1>1. scanner[s] \in Records /\ RecordOK(scanner[s])
  BY DEF TypeInv
<1>2. CASE scanner[s].found = {}
  <2>1. scanner' = [scanner EXCEPT ![s] = Idle]
    BY <1>2 DEF NextResult
  <2>2. Idle \in Records /\ Idle.found = {} /\ Idle.pc = "idle"
    BY DEF Idle, Records
  <2>3. RecordOK(Idle)
    BY <2>2, FS_EmptySet DEF RecordOK
  <2> QED BY <1>2, <2>1, <2>2, <2>3
<1>3. CASE scanner[s].found # {}
  <2> DEFINE k == [scanner[s] EXCEPT !.pc = "get", !.task = NoScore]
  <2>1. scanner' = [scanner EXCEPT ![s] = k]
    BY <1>3 DEF NextResult
  <2>2. k \in Records /\ k.pc = "get" /\ k.found = scanner[s].found
    BY <1>1 DEF Records
  <2> HIDE DEF k
  <2>3. RecordOK(k)
    BY <1>1, <2>2 DEF RecordOK
  <2> QED BY <2>1, <2>2, <2>3
<1> QED BY <1>2, <1>3

\* A task that was pushed, or put back, is removed next; otherwise it is left.
LEMMA PushDueGives ==
  ASSUME TypeInv, NEW s \in Scanners, PushDue(s)
  PROVE  /\ scanner[s].task \in Tasks /\ At(scanner[s], scanner[s].task)
         /\ ~Has(scanner[s], scanner[s].task)
         /\ \E k \in Records :
              /\ RecordOK(k) /\ k.found = scanner[s].found
              /\ \/ /\ k.pc = "remove" /\ k.task = scanner[s].task
                    /\ Enqueue(scanner[s].task, Stored(wish[scanner[s].task]))
                    /\ UNCHANGED faults
                 \/ /\ k.pc \in {"idle", "get"} /\ Faults(1)
                    /\ \/ Enqueue(scanner[s].task, Stored(wish[scanner[s].task]))
                       \/ UNCHANGED <<zset, pushed>>
              /\ scanner' = [scanner EXCEPT ![s] = k]
<1>1. scanner[s] \in Records /\ RecordOK(scanner[s]) /\ scanner[s].pc = "push"
  BY DEF TypeInv, PushDue
<1>2. /\ scanner[s].task \in Tasks /\ At(scanner[s], scanner[s].task)
      /\ ~Has(scanner[s], scanner[s].task)
  BY <1>1 DEF RecordOK, At
<1>3. CASE NextResult(s)
           /\ Faults(1) /\ (Enqueue(scanner[s].task, Stored(wish[scanner[s].task]))
                            \/ UNCHANGED <<zset, pushed>>)
  BY <1>1, <1>2, <1>3, NextResultGives
<1>4. CASE /\ scanner' = [scanner EXCEPT ![s].pc = "remove"]
           /\ Enqueue(scanner[s].task, Stored(wish[scanner[s].task])) /\ UNCHANGED faults
  <2> DEFINE k == [scanner[s] EXCEPT !.pc = "remove"]
  <2>1. scanner' = [scanner EXCEPT ![s] = k]
    BY <1>4
  <2>2. /\ k \in Records /\ k.pc = "remove" /\ k.found = scanner[s].found
        /\ k.task = scanner[s].task
    BY <1>1 DEF Records
  <2> HIDE DEF k
  <2>3. RecordOK(k)
    BY <1>1, <1>2, <2>2 DEF RecordOK, Has
  <2> QED BY <1>2, <1>4, <2>1, <2>2, <2>3
<1> QED BY <1>3, <1>4 DEF PushDue

\* The task a scanner removes is left behind.
LEMMA RemoveGives ==
  ASSUME TypeInv, NEW s \in Scanners, Remove(s)
  PROVE  /\ scanner[s].task \in Tasks /\ At(scanner[s], scanner[s].task)
         /\ ~Has(scanner[s], scanner[s].task)
         /\ \E k \in Records :
              /\ RecordOK(k) /\ k.found = scanner[s].found /\ k.pc \in {"idle", "get"}
              /\ scanner' = [scanner EXCEPT ![s] = k]
<1>1. scanner[s] \in Records /\ RecordOK(scanner[s]) /\ scanner[s].pc = "remove"
  BY DEF TypeInv, Remove
<1>2. /\ scanner[s].task \in Tasks /\ At(scanner[s], scanner[s].task)
      /\ ~Has(scanner[s], scanner[s].task)
  BY <1>1 DEF RecordOK, At
<1>3. NextResult(s)
  BY DEF Remove
<1> QED BY <1>1, <1>2, <1>3, NextResultGives

\* A scanner that dies forgets its results.
LEMMA CrashGives ==
  ASSUME TypeInv, NEW s \in Scanners, ScannerCrash(s)
  PROVE  \E k \in Records :
           /\ RecordOK(k) /\ k.found = {} /\ k.pc = "idle"
           /\ scanner' = [scanner EXCEPT ![s] = k]
<1>1. Idle \in Records /\ Idle.found = {} /\ Idle.pc = "idle"
  BY DEF Idle, Records
<1>2. RecordOK(Idle)
  BY <1>1, FS_EmptySet DEF RecordOK
<1> QED BY <1>1, <1>2 DEF ScannerCrash

\* A scanner's step touches its own record, and its own task of the set.
LEMMA ScannerStep ==
  ASSUME TypeInv, NEW s \in Scanners, Scanning(s) \/ ScannerCrash(s)
  PROVE  /\ scanner' \in [Scanners -> Records] /\ RecordOK(scanner'[s])
         /\ \A x \in Scanners \ {s} : scanner'[x] = scanner[x]
         /\ UNCHANGED <<now, wish, row, api, batch>>
<1>1. UNCHANGED <<now, wish, row, api, batch>>
  BY DEF Scanning, Scan, Get, PushDue, Remove, ScannerCrash
<1>2. PICK k \in Records : RecordOK(k) /\ scanner' = [scanner EXCEPT ![s] = k]
  BY ScanGives, GetGives, PushDueGives, RemoveGives, CrashGives DEF Scanning
<1> QED BY <1>1, <1>2 DEF TypeInv

LEMMA ScannerTypes ==
  ASSUME TypeInv, NEW s \in Scanners, Scanning(s) \/ ScannerCrash(s)
  PROVE  TypeInv'
<1>1. /\ scanner' \in [Scanners -> Records] /\ \A x \in Scanners : RecordOK(scanner'[x])
      /\ UNCHANGED <<now, wish, row, api, batch>>
  BY ScannerStep DEF TypeInv
<1>2. zset' \in [Tasks -> Nat \cup {NoScore}] /\ pushed' \in [Tasks -> Nat]
  <2>1. CASE PushDue(s)
    <3>1. scanner[s].task \in Tasks
      BY <2>1, PushDueGives
    <3>2. Stored(wish[scanner[s].task]) \in Nat
      BY <3>1, WishType, StoredLater
    <3>3. \/ Enqueue(scanner[s].task, Stored(wish[scanner[s].task]))
          \/ UNCHANGED <<zset, pushed>>
      BY <2>1 DEF PushDue
    <3> QED BY <3>1, <3>2, <3>3, EnqueueType DEF TypeInv
  <2>2. CASE ~PushDue(s)
    BY <2>2 DEF Scanning, Scan, Get, Remove, ScannerCrash, TypeInv
  <2> QED BY <2>1, <2>2
<1>3. faults' \in 0 .. MaxFaults
  <2>1. UNCHANGED faults \/ Faults(1)
    BY DEF Scanning, Scan, Get, PushDue, Remove, ScannerCrash
  <2> QED BY <2>1, FaultsCount DEF TypeInv
<1> QED BY <1>1, <1>2, <1>3 DEF TypeInv

LEMMA TypeInit == Init => TypeInv
<1> SUFFICES ASSUME Init PROVE TypeInv
  OBVIOUS
<1>1. Idle \in Records /\ Idle.found = {} /\ Idle.pc = "idle"
  BY DEF Idle, Records
<1>2. RecordOK(Idle)
  BY <1>1, FS_EmptySet DEF RecordOK
<1>3. scanner \in [Scanners -> Records] /\ \A s \in Scanners : RecordOK(scanner[s])
  BY <1>1, <1>2 DEF Init
<1>4. batch \in [pc : {"idle", "push", "done"}, count : 0 .. Cardinality(Batched)]
  <2>1. Cardinality({}) \in 0 .. Cardinality(Batched) /\ Cardinality({}) = 0
    BY SomeBatched, FS_EmptySet
  <2> QED BY <2>1 DEF Init
<1> QED BY <1>3, <1>4, TimesAssumption DEF Init, TypeInv

LEMMA TypeStep == TypeInv /\ [Next]_vars => TypeInv'
<1> SUFFICES ASSUME TypeInv, [Next]_vars PROVE TypeInv'
  OBVIOUS
<1>1. CASE Tick
  BY <1>1, TimesAssumption DEF Tick, TypeInv, RecordOK, Has
<1>2. CASE UNCHANGED vars
  BY <1>2 DEF vars, TypeInv, RecordOK, Has
<1> QED BY <1>1, <1>2, SendTypes, BatchTypes, ScannerTypes DEF Next

-----------------------------------------------------------------------------
(* Who holds a task *)

\* Steps that leave the set and the scanners alone leave what is held alone.
LEMMA HeldStays ==
  ASSUME UNCHANGED <<zset, scanner>>, NEW t
  PROVE  Held(t)' <=> Held(t)
BY DEF Held, Has, At

\* Of the steps of a request only its push puts its task into the set, when the
\* time of the task has not come.
LEMMA SendHolds ==
  ASSUME TypeInv, NEW t \in Singles, Send(t), NEW u \in Tasks, Held(u)', ~Held(u)
  PROVE  u = t /\ api[t] = "push" /\ api'[t] \in {"accepted", "revert"} /\ wish[t] > now
<1>1. ~UNCHANGED zset /\ UNCHANGED scanner
  BY HeldStays DEF Send, Create, Push, PushFails, Revert, SendCrash
<1>2. Push(t) \/ PushFails(t)
  BY <1>1 DEF Send, Create, Push, PushFails, Revert, SendCrash
<1>3. zset' = [zset EXCEPT ![t] = Score(wish[t])] /\ wish[t] > now
  BY <1>1, <1>2 DEF Push, PushFails, Enqueue
<1>4. u = t
  <2> SUFFICES ASSUME u # t PROVE FALSE
    OBVIOUS
  <2>1. zset'[u] = zset[u]
    BY <1>3 DEF TypeInv
  <2> QED BY <1>1, <2>1 DEF Held, Has, At
<1> QED BY <1>2, <1>3, <1>4 DEF Push, PushFails, TypeInv

\* A scanner takes up no task that was not held.
LEMMA ScannerHolds ==
  ASSUME TypeInv, NEW s \in Scanners, Scanning(s) \/ ScannerCrash(s),
         NEW t \in Tasks, Held(t)'
  PROVE  Held(t)
<1>1. /\ scanner' \in [Scanners -> Records]
      /\ \A x \in Scanners \ {s} : scanner'[x] = scanner[x]
  BY ScannerStep
<1>2. CASE zset'[t] # NoScore /\ zset[t] = NoScore
  <2>1. PushDue(s) /\ zset' # zset
    BY <1>2 DEF Scanning, Scan, Get, Remove, ScannerCrash, TypeInv
  <2>2. scanner[s].task = t
    BY <1>2, <2>1 DEF PushDue, Enqueue, TypeInv
  <2> QED BY <2>1, <2>2, PushDueGives DEF Held
<1>3. CASE \E x \in Scanners : Has(scanner'[x], t) \/ At(scanner'[x], t)
  <2>1. CASE \E x \in Scanners \ {s} : Has(scanner'[x], t) \/ At(scanner'[x], t)
    BY <1>1, <2>1 DEF Held
  <2>2. CASE Has(scanner'[s], t) \/ At(scanner'[s], t)
    <3>1. CASE Scan(s)
      BY <2>2, <3>1, ScanGives, DueType DEF Held, Has, At, TypeInv
    <3>2. CASE Get(s)
      <4>1. PICK k \in Records, m \in scanner[s].found :
              k.found = scanner[s].found \ {m} /\ k.task = m.task
              /\ scanner' = [scanner EXCEPT ![s] = k]
        BY <3>2, GetGives
      <4>2. scanner'[s] = k
        BY <4>1 DEF TypeInv
      <4>3. Has(scanner[s], t)
        BY <2>2, <4>1, <4>2 DEF Has, At
      <4> QED BY <4>3 DEF Held
    <3>3. CASE PushDue(s) \/ Remove(s)
      <4>1. scanner'[s].found = scanner[s].found
        BY <3>3, PushDueGives, RemoveGives DEF TypeInv
      <4>2. At(scanner'[s], t) => scanner[s].task = t
        BY <3>3, PushDueGives, RemoveGives DEF TypeInv, At
      <4>3. At(scanner[s], scanner[s].task)
        BY <3>3, PushDueGives, RemoveGives
      <4> QED BY <2>2, <4>1, <4>2, <4>3 DEF Held, Has
    <3>4. CASE ScannerCrash(s)
      BY <2>2, <3>4, CrashGives DEF Has, At, TypeInv
    <3> QED BY <3>1, <3>2, <3>3, <3>4 DEF Scanning
  <2> QED BY <1>3, <2>1, <2>2
<1> QED BY <1>2, <1>3 DEF Held

\* What a step puts onto the stream.
LEMMA WhoPushes ==
  ASSUME TypeInv, [Next]_vars, NEW t \in Singles, pushed'[t] # pushed[t]
  PROVE  /\ pushed'[t] = pushed[t] + 1
         /\ \/ api[t] = "push" /\ api'[t] # "push" /\ wish[t] <= now
            \/ \E s \in Scanners : /\ PushDue(s) /\ scanner[s].task = t
                                   /\ Stored(wish[t]) <= now
<1>1. t \in Tasks /\ t \notin Batched
  BY TasksAssumption DEF Tasks
<1>2. ASSUME NEW u \in Singles, Send(u) PROVE u = t /\ (Push(t) \/ PushFails(t))
  <2>1. (Push(u) \/ PushFails(u)) /\ Enqueue(u, wish[u])
    BY <1>2 DEF Send, Create, Push, PushFails, Revert, SendCrash
  <2>2. u = t
    BY <1>1, <2>1 DEF Enqueue, TypeInv
  <2> QED BY <2>1, <2>2
<1>3. ~BatchSend
  <2> SUFFICES ASSUME BatchSend PROVE FALSE
    OBVIOUS
  <2>1. PICK S \in SUBSET Batched : Pipeline(S)
    BY DEF BatchSend, CreateAll, PushAll, BatchCrash
  <2> QED BY <1>1, <2>1 DEF Pipeline
<1>4. CASE \E u \in Singles : Send(u)
  <2>1. Push(t) \/ PushFails(t)
    BY <1>2, <1>4
  <2>2. Enqueue(t, wish[t])
    BY <2>1 DEF Push, PushFails
  <2>3. api[t] = "push" /\ api'[t] # "push"
    BY <2>1 DEF Push, PushFails, TypeInv
  <2> QED BY <1>1, <2>2, <2>3 DEF Enqueue, TypeInv
<1>5. ASSUME NEW s \in Scanners, Scanning(s) \/ ScannerCrash(s)
      PROVE  /\ PushDue(s) /\ scanner[s].task = t /\ Stored(wish[t]) <= now
             /\ pushed'[t] = pushed[t] + 1
  <2>1. PushDue(s) /\ Enqueue(scanner[s].task, Stored(wish[scanner[s].task]))
    BY <1>5 DEF Scanning, Scan, Get, PushDue, Remove, ScannerCrash
  <2> QED BY <1>1, <2>1 DEF Enqueue, TypeInv
<1> QED BY <1>3, <1>4, <1>5 DEF Next, Tick, vars

\* No request is pushed by Send and put into the set or onto the stream before.
LEMMA HeldStep ==
  ASSUME TypeInv, TypeInv', HeldOK, [Next]_vars
  PROVE  HeldOK'
<1>1. wish' = wish
  BY DEF Next, Tick, Send, Create, Push, PushFails, Revert, SendCrash, BatchSend, CreateAll,
         PushAll, BatchCrash, Scanning, Scan, Get, PushDue, Remove, ScannerCrash, vars
<1>2. ASSUME NEW t \in Singles, api[t] \notin {"idle", "push"}
      PROVE  api'[t] \notin {"idle", "push"}
  <2>1. ASSUME NEW u \in Singles, Send(u) PROVE api'[t] \notin {"idle", "push"}
    BY <1>2, <2>1 DEF Send, Create, Push, PushFails, Revert, SendCrash, TypeInv
  <2>2. (\E u \in Singles : Send(u)) \/ UNCHANGED api
    BY DEF Next, Tick, BatchSend, CreateAll, PushAll, BatchCrash, Scanning, Scan, Get,
           PushDue, Remove, ScannerCrash, vars
  <2> QED BY <1>2, <2>1, <2>2
<1>3. ASSUME NEW t \in Tasks, Held(t)'
      PROVE  t \in Singles /\ wish[t] # 0 /\ api'[t] \notin {"idle", "push"}
  <2>1. CASE Held(t)
    BY <1>2, <2>1 DEF HeldOK
  <2>2. CASE ~Held(t)
    <3>1. PICK u \in Singles : Send(u)
      <4>1. UNCHANGED <<zset, scanner>> \/ (\E u \in Singles : Send(u))
            \/ \E s \in Scanners : Scanning(s) \/ ScannerCrash(s)
        BY DEF Next, Tick, BatchSend, CreateAll, PushAll, BatchCrash, vars
      <4> QED BY <1>3, <2>2, <4>1, HeldStays, ScannerHolds
    <3>2. u = t /\ api'[t] \in {"accepted", "revert"} /\ wish[t] > now
      BY <1>3, <2>2, <3>1, SendHolds
    <3> QED BY <3>2 DEF TypeInv
  <2> QED BY <2>1, <2>2
<1>4. ASSUME NEW t \in Singles, api'[t] \in {"idle", "push"} PROVE pushed'[t] = 0
  <2>1. api[t] \in {"idle", "push"}
    BY <1>2, <1>4
  <2>2. pushed'[t] = pushed[t]
    <3> SUFFICES ASSUME pushed'[t] # pushed[t] PROVE FALSE
      OBVIOUS
    <3>1. t \in Tasks
      BY DEF Tasks
    <3>2. ASSUME NEW s \in Scanners, PushDue(s), scanner[s].task = t PROVE FALSE
      BY <2>1, <3>1, <3>2, PushDueGives DEF HeldOK, Held
    <3>3. api[t] = "push" /\ api'[t] # "push"
      BY <3>2, WhoPushes
    <3>4. api'[t] = "idle"
      BY <1>4, <3>3
    <3>5. ASSUME NEW u \in Singles, Send(u) PROVE api'[t] # "idle"
      BY <3>3, <3>5 DEF Send, Create, Push, PushFails, Revert, SendCrash, TypeInv
    <3>6. (\E u \in Singles : Send(u)) \/ UNCHANGED api
      BY DEF Next, Tick, BatchSend, CreateAll, PushAll, BatchCrash, Scanning, Scan, Get,
             PushDue, Remove, ScannerCrash, vars
    <3> QED BY <3>3, <3>4, <3>5, <3>6
  <2> QED BY <2>1, <2>2 DEF HeldOK
<1> QED BY <1>1, <1>3, <1>4 DEF HeldOK

\* Time only goes on, and a task is on the stream only when its time has come.
LEMMA TimeStep ==
  ASSUME TypeInv, TypeInv', HeldOK, HeldOK', TimeOK, [Next]_vars
  PROVE  TimeOK'
<1>1. wish' = wish /\ now \in Nat /\ now' \in Nat /\ now <= now'
  BY DEF Next, Tick, Send, Create, Push, PushFails, Revert, SendCrash, BatchSend, CreateAll,
         PushAll, BatchCrash, Scanning, Scan, Get, PushDue, Remove, ScannerCrash, vars,
         TypeInv
<1> SUFFICES ASSUME NEW t \in Tasks, Held(t)', pushed'[t] > 0 PROVE Stored(wish[t]) <= now'
  BY <1>1 DEF TimeOK, Stored
<1>2. t \in Singles /\ api'[t] \notin {"idle", "push"} /\ Stored(wish[t]) \in Nat
  BY WishType, StoredLater DEF HeldOK
<1>3. CASE Held(t)
  <2>1. CASE pushed'[t] = pushed[t]
    BY <1>1, <1>2, <1>3, <2>1 DEF TimeOK
  <2>2. CASE pushed'[t] # pushed[t]
    <3>1. api[t] # "push"
      BY <1>3 DEF HeldOK
    <3>2. Stored(wish[t]) <= now
      BY <1>2, <2>2, <3>1, WhoPushes
    <3> QED BY <1>1, <1>2, <3>2
  <2> QED BY <2>1, <2>2
<1>4. CASE ~Held(t)
  <2>1. PICK u \in Singles : Send(u)
    <3>1. UNCHANGED <<zset, scanner>> \/ (\E u \in Singles : Send(u))
          \/ \E s \in Scanners : Scanning(s) \/ ScannerCrash(s)
      BY DEF Next, Tick, BatchSend, CreateAll, PushAll, BatchCrash, vars
    <3> QED BY <1>4, <3>1, HeldStays, ScannerHolds
  <2>2. u = t /\ api[t] = "push" /\ wish[t] > now
    BY <1>4, <2>1, SendHolds
  <2>3. pushed[t] = 0
    BY <1>2, <2>2 DEF HeldOK
  <2>4. pushed'[t] # pushed[t]
    BY <2>3
  <2>5. wish[t] \in Nat /\ ~(wish[t] <= now)
    BY <1>1, <2>2, WishType
  <2>6. PICK s \in Scanners : PushDue(s) /\ scanner[s].task = t
    BY <1>2, <2>4, <2>5, WhoPushes
  <2> QED BY <1>4, <2>6, PushDueGives DEF Held
<1> QED BY <1>3, <1>4

-----------------------------------------------------------------------------
(* How early *)

Inv == TypeInv /\ HeldOK /\ TimeOK

LEMMA InvInit == Init => Inv
<1>1. Init => TypeInv
  BY TypeInit
<1>2. Init => HeldOK /\ TimeOK
  <2> SUFFICES ASSUME Init PROVE HeldOK /\ TimeOK
    OBVIOUS
  <2>1. \A t \in Tasks : ~Held(t)
    BY DEF Init, Idle, Held, Has, At
  <2>2. \A t \in Singles : t \in Tasks
    BY DEF Tasks
  <2> QED BY <2>1, <2>2 DEF Init, HeldOK, TimeOK
<1> QED BY <1>1, <1>2 DEF Inv

LEMMA InvStep == Inv /\ [Next]_vars => Inv'
<1> SUFFICES ASSUME Inv, [Next]_vars PROVE Inv'
  OBVIOUS
<1>1. TypeInv'
  BY TypeStep DEF Inv
<1>2. HeldOK'
  BY <1>1, HeldStep DEF Inv
<1>3. TimeOK'
  BY <1>1, <1>2, TimeStep DEF Inv
<1> QED BY <1>1, <1>2, <1>3 DEF Inv

\* Every variable keeps its type for any constants (Producer, MessageService and
\* ScheduledTaskScanner share no more than the table, the set and the stream).
THEOREM TypeCorrect == Spec => []TypeOK
<1>1. TypeInv => TypeOK
  BY DEF TypeInv, TypeOK, Records, Results, RecordOK
<1> QED BY <1>1, TypeInit, TypeStep, PTL DEF Spec

\* Whoever pushes it, a task accepted by Send reaches the stream in no second
\* before the one it was scheduled for, although the table rounds its time and
\* the set knows the second alone (Producer.Push, ScheduledTaskScanner.scan).
THEOREM NeverEarlyHolds == Spec => NeverEarly
<1>1. TypeInv /\ [Next]_vars =>
        [\A t \in Singles : pushed'[t] > pushed[t] =>
           wish[t] \div Second <= now \div Second]_vars
  <2> SUFFICES ASSUME TypeInv, [Next]_vars, NEW t \in Singles, pushed'[t] > pushed[t]
               PROVE  wish[t] \div Second <= now \div Second
    OBVIOUS
  <2>1. t \in Tasks /\ wish[t] \in Nat /\ now \in Nat /\ pushed[t] \in Nat
    BY WishType DEF Tasks, TypeInv
  <2>2. wish[t] <= now \/ Stored(wish[t]) <= now
    BY <2>1, WhoPushes
  <2> QED BY <2>1, <2>2, SecondsGrow, StoredLater
<1> QED BY <1>1, TypeInit, TypeStep, PTL DEF Spec, NeverEarly

-----------------------------------------------------------------------------
(* How often *)

\* Scanner s may push task t once more before it has to find it again.
CanPush(s, t) ==
  \/ Has(scanner[s], t)
  \/ scanner[s].pc = "push" /\ scanner[s].task = t
  \/ zset[t] # NoScore /\ ~(scanner[s].pc = "remove" /\ scanner[s].task = t)

Pushers(t) == {s \in Scanners : CanPush(s, t)}

Pushes(t) == IF wish[t] = 0 THEN 1 ELSE Cardinality(Scanners)

\* Entries there are and those that the scanners may yet add.
PushOK == \A t \in Singles : pushed[t] + Cardinality(Pushers(t)) <= faults + Pushes(t)

LEMMA PushersType ==
  ASSUME NEW t
  PROVE  /\ IsFiniteSet(Pushers(t)) /\ Cardinality(Pushers(t)) \in Nat
         /\ Cardinality(Pushers(t)) <= Cardinality(Scanners)
         /\ Cardinality(Scanners) \in Nat /\ 1 <= Cardinality(Scanners)
<1>1. Pushers(t) \subseteq Scanners
  BY DEF Pushers
<1>2. Cardinality(Scanners) \in Nat /\ Cardinality(Scanners) # 0
  BY TasksAssumption, FS_CardinalityType, FS_EmptySet
<1>3. IsFiniteSet(Pushers(t)) /\ Cardinality(Pushers(t)) <= Cardinality(Scanners)
  BY <1>1, TasksAssumption, FS_Subset
<1>4. Cardinality(Pushers(t)) \in Nat
  BY <1>3, FS_CardinalityType
<1> QED BY <1>2, <1>3, <1>4

\* Who may push a task holds it.
LEMMA NoPushers ==
  ASSUME TypeInv, NEW t \in Tasks, ~Held(t)
  PROVE  Pushers(t) = {}
BY DEF Held, Pushers, CanPush, At

\* The pushers of a task after a step of scanner s, if its place in the set is
\* as it was or empty.
LEMMA OthersStay ==
  ASSUME TypeInv, NEW s \in Scanners, Scanning(s) \/ ScannerCrash(s), NEW t \in Tasks,
         zset'[t] \in {zset[t], NoScore}
  PROVE  Pushers(t)' \subseteq Pushers(t) \cup {s}
<1>1. \A x \in Scanners \ {s} : scanner'[x] = scanner[x]
  BY ScannerStep
<1>2. \A x \in Scanners \ {s} : CanPush(x, t)' => CanPush(x, t)
  BY <1>1 DEF CanPush, Has
<1> QED BY <1>2 DEF Pushers

\* What a step of a scanner does to a task: every way of adding an entry takes
\* the scanner from those that may add one, or costs a fault. Putting the task
\* back into the set starts over, but nothing has been pushed by then.
LEMMA ScannerPushes ==
  ASSUME TypeInv, NEW s \in Scanners, Scanning(s) \/ ScannerCrash(s), NEW t \in Tasks
  PROVE  \/ pushed'[t] = pushed[t] /\ Pushers(t)' \subseteq Pushers(t)
         \/ /\ pushed'[t] = pushed[t] + 1 /\ s \in Pushers(t)
            /\ Pushers(t)' \subseteq Pushers(t) \ {s}
         \/ /\ pushed'[t] = pushed[t] /\ Pushers(t)' \subseteq Pushers(t) \cup {s}
            /\ faults' = faults + 1
         \/ /\ pushed'[t] = pushed[t] + 1 /\ Pushers(t)' \subseteq Pushers(t)
            /\ faults' = faults + 1
         \/ pushed'[t] = pushed[t] /\ Held(t) /\ Stored(wish[t]) > now
<1> DEFINE Stays(x) == CanPush(x, t)' => CanPush(x, t)
<1>1. ASSUME zset'[t] \in {zset[t], NoScore}, Stays(s) PROVE Pushers(t)' \subseteq Pushers(t)
  BY <1>1, OthersStay DEF Pushers
<1> HIDE DEF Stays
<1>2. CASE Scan(s)
  <2>1. UNCHANGED <<zset, pushed>>
    BY <1>2 DEF Scan
  <2>2. scanner'[s].pc = "get" /\ scanner'[s].found \subseteq Due /\ scanner[s].pc = "idle"
    BY <1>2, ScanGives DEF TypeInv, Scan
  <2>3. Has(scanner'[s], t) => zset[t] # NoScore
    BY <2>2, DueType DEF Has
  <2>4. Stays(s)
    BY <2>1, <2>2, <2>3 DEF Stays, CanPush
  <2> QED BY <1>1, <2>1, <2>4
<1>3. CASE Get(s)
  <2>1. UNCHANGED <<zset, pushed>> /\ scanner[s].pc = "get"
    BY <1>3 DEF Get
  <2>2. PICK k \in Records, m \in scanner[s].found :
          k.found = scanner[s].found \ {m} /\ k.task = m.task
          /\ scanner' = [scanner EXCEPT ![s] = k]
    BY <1>3, GetGives
  <2>3. scanner'[s] = k
    BY <2>2 DEF TypeInv
  <2>4. k.task = t => Has(scanner[s], t)
    BY <2>2 DEF Has
  <2>5. Has(k, t) => Has(scanner[s], t)
    BY <2>2 DEF Has
  <2>6. Stays(s)
    BY <2>1, <2>3, <2>4, <2>5 DEF Stays, CanPush
  <2> QED BY <1>1, <2>1, <2>6
<1>4. CASE PushDue(s)
  <2>1. /\ scanner[s].task \in Tasks /\ At(scanner[s], scanner[s].task)
        /\ ~Has(scanner[s], scanner[s].task) /\ scanner[s].pc = "push"
    BY <1>4, PushDueGives DEF PushDue
  <2>2. PICK k \in Records :
          /\ k.found = scanner[s].found
          /\ \/ /\ k.pc = "remove" /\ k.task = scanner[s].task
                /\ Enqueue(scanner[s].task, Stored(wish[scanner[s].task]))
                /\ UNCHANGED faults
             \/ /\ k.pc \in {"idle", "get"} /\ Faults(1)
                /\ \/ Enqueue(scanner[s].task, Stored(wish[scanner[s].task]))
                   \/ UNCHANGED <<zset, pushed>>
          /\ scanner' = [scanner EXCEPT ![s] = k]
    BY <1>4, PushDueGives
  <2>3. scanner'[s] = k
    BY <2>2 DEF TypeInv
  <2>4. CASE t # scanner[s].task
    <3>1. pushed'[t] = pushed[t] /\ zset'[t] = zset[t]
      BY <2>1, <2>2, <2>4 DEF Enqueue, TypeInv
    <3>2. Has(k, t) => Has(scanner[s], t)
      BY <2>2 DEF Has
    <3>3. Stays(s)
      BY <2>1, <2>2, <2>3, <2>4, <3>1, <3>2 DEF Stays, CanPush
    <3> QED BY <1>1, <3>1, <3>3
  <2>5. CASE t = scanner[s].task /\ UNCHANGED <<zset, pushed>>
    <3>1. Stays(s)
      BY <2>1, <2>5 DEF Stays, CanPush
    <3> QED BY <1>1, <2>5, <3>1
  <2>6. CASE t = scanner[s].task /\ Enqueue(t, Stored(wish[t]))
    <3>1. Held(t)
      BY <2>1, <2>6 DEF Held
    <3>2. CASE Stored(wish[t]) > now /\ pushed' = pushed
      BY <3>1, <3>2
    <3>3. CASE pushed' = [pushed EXCEPT ![t] = @ + 1] /\ UNCHANGED zset
      <4>1. pushed'[t] = pushed[t] + 1 /\ s \in Pushers(t) /\ Stays(s)
        BY <2>1, <2>6, <3>3 DEF TypeInv, Pushers, CanPush, Stays
      <4>2. Pushers(t)' \subseteq Pushers(t)
        BY <1>1, <3>3, <4>1
      <4>3. CASE k.pc = "remove" /\ k.task = t
        <5>1. ~Has(k, t)
          BY <2>1, <2>2, <2>6 DEF Has
        <5>2. ~CanPush(s, t)'
          BY <2>3, <4>3, <5>1 DEF CanPush
        <5> QED BY <4>1, <4>2, <5>2 DEF Pushers
      <4>4. CASE Faults(1)
        BY <4>1, <4>2, <4>4, FaultsCount
      <4> QED BY <2>2, <2>6, <4>3, <4>4
    <3> QED BY <2>6, <3>2, <3>3 DEF Enqueue
  <2> QED BY <2>2, <2>4, <2>5, <2>6
<1>5. CASE Remove(s)
  <2>1. /\ scanner[s].task \in Tasks /\ ~Has(scanner[s], scanner[s].task)
        /\ scanner[s].pc = "remove" /\ pushed' = pushed
    BY <1>5, RemoveGives DEF Remove
  <2>2. scanner'[s].found = scanner[s].found /\ scanner'[s].pc \in {"idle", "get"}
    BY <1>5, RemoveGives DEF TypeInv
  <2>3. zset'[t] \in {zset[t], NoScore}
    BY <1>5 DEF Remove, TypeInv
  <2>4. Has(scanner'[s], t) => Has(scanner[s], t)
    BY <2>2 DEF Has
  <2>5. CASE t # scanner[s].task
    <3>1. zset'[t] = zset[t]
      BY <1>5, <2>5 DEF Remove, TypeInv
    <3>2. Stays(s)
      BY <2>1, <2>2, <2>4, <2>5, <3>1 DEF Stays, CanPush
    <3> QED BY <1>1, <2>1, <2>3, <3>2
  <2>6. CASE t = scanner[s].task /\ Faults(1)
    BY <2>1, <2>3, <2>6, OthersStay, FaultsCount DEF Scanning
  <2>7. CASE t = scanner[s].task /\ zset' = [zset EXCEPT ![scanner[s].task] = NoScore]
    <3>1. zset'[t] = NoScore
      BY <2>1, <2>7 DEF TypeInv
    <3>2. Stays(s)
      BY <2>1, <2>2, <2>4, <2>7, <3>1 DEF Stays, CanPush
    <3> QED BY <1>1, <2>1, <2>3, <3>2
  <2> QED BY <1>5, <2>5, <2>6, <2>7 DEF Remove
<1>6. CASE ScannerCrash(s)
  <2>1. UNCHANGED <<zset, pushed>> /\ faults' = faults + 1
    BY <1>6, FaultsCount DEF ScannerCrash
  <2> QED BY <2>1, OthersStay
<1> QED BY <1>2, <1>3, <1>4, <1>5, <1>6 DEF Scanning

\* Faults are never forgotten.
LEMMA FaultsGrow ==
  ASSUME TypeInv, [Next]_vars
  PROVE  faults \in Nat /\ faults' \in Nat /\ faults <= faults'
<1>1. UNCHANGED faults \/ (\E n \in Nat : Faults(n))
  <2>1. CASE CreateAll
    BY <2>1, SomeBatched DEF CreateAll
  <2>2. CASE ~CreateAll
    BY <2>2 DEF Next, Tick, Send, Create, Push, PushFails, Revert, SendCrash, BatchSend,
       PushAll, BatchCrash, Scanning, Scan, Get, PushDue, Remove, ScannerCrash, vars
  <2> QED BY <2>1, <2>2
<1> QED BY <1>1, FaultsCount DEF TypeInv

LEMMA PushStep ==
  ASSUME Inv, Inv', PushOK, [Next]_vars
  PROVE  PushOK'
<1>1. faults \in Nat /\ faults' \in Nat /\ faults <= faults'
  BY FaultsGrow DEF Inv
<1>2. wish' = wish
  BY DEF Next, Tick, Send, Create, Push, PushFails, Revert, SendCrash, BatchSend, CreateAll,
         PushAll, BatchCrash, Scanning, Scan, Get, PushDue, Remove, ScannerCrash, vars
<1> SUFFICES ASSUME NEW t \in Singles
             PROVE  pushed'[t] + Cardinality(Pushers(t)') <= faults' + Pushes(t)
  BY <1>2 DEF PushOK, Pushes
<1> DEFINE n == Cardinality(Pushers(t))
           m == Cardinality(Pushers(t)')
<1>3. t \in Tasks /\ pushed[t] \in Nat /\ Pushes(t) \in Nat /\ 1 <= Pushes(t)
  BY PushersType DEF Tasks, Inv, TypeInv, Pushes
<1>4. pushed[t] + n <= faults + Pushes(t) /\ n \in Nat
  BY PushersType DEF PushOK
<1>5. IsFiniteSet(Pushers(t)') /\ m \in Nat /\ m <= Cardinality(Scanners)
  <2>1. Pushers(t)' \subseteq Scanners
    BY DEF Pushers
  <2> QED BY <2>1, TasksAssumption, FS_Subset, FS_CardinalityType
<1>6. ASSUME Pushers(t)' \subseteq Pushers(t) PROVE m <= n
  BY <1>6, PushersType, FS_Subset
<1>7. ASSUME UNCHANGED <<zset, scanner>> PROVE m = n
  BY <1>7 DEF Pushers, CanPush, Has
<1>8. ASSUME NEW u \in Singles, Send(u)
      PROVE  pushed'[t] + m <= faults' + Pushes(t)
  <2>1. scanner' = scanner
    BY <1>8 DEF Send, Create, Push, PushFails, Revert, SendCrash
  <2>2. CASE u = t /\ Enqueue(t, wish[t]) /\ (Push(t) \/ PushFails(t))
    <3>1. pushed[t] = 0 /\ ~Held(t)
      BY <1>3, <2>2 DEF Push, PushFails, Inv, HeldOK
    <3>2. n = 0
      BY <1>3, <3>1, NoPushers, FS_EmptySet DEF Inv
    <3>3. CASE wish[t] <= now /\ pushed' = [pushed EXCEPT ![t] = @ + 1] /\ UNCHANGED zset
      <4>1. m = 0 /\ pushed'[t] = 1
        BY <1>3, <1>7, <2>1, <3>1, <3>2, <3>3 DEF Inv, TypeInv
      <4> QED BY <1>1, <1>3, <4>1
    <3>4. CASE wish[t] > now /\ UNCHANGED pushed
      <4>1. wish[t] # 0
        BY <3>4 DEF Inv, TypeInv
      <4>2. Pushes(t) = Cardinality(Scanners) /\ Cardinality(Scanners) \in Nat
        BY <4>1, PushersType DEF Pushes
      <4> QED BY <1>1, <1>5, <3>1, <3>4, <4>2
    <3> QED BY <2>2, <3>3, <3>4 DEF Enqueue
  <2>3. CASE ~(u = t /\ Enqueue(t, wish[t]) /\ (Push(t) \/ PushFails(t)))
    <3>1. pushed'[t] = pushed[t] /\ zset'[t] = zset[t]
      BY <1>3, <1>8, <2>3 DEF Send, Create, Push, PushFails, Revert, SendCrash, Enqueue,
                             Inv, TypeInv
    <3>2. Pushers(t)' = Pushers(t)
      BY <2>1, <3>1 DEF Pushers, CanPush, Has
    <3> QED BY <1>1, <1>3, <1>4, <3>1, <3>2
  <2> QED BY <2>2, <2>3
<1>9. CASE BatchSend
  <2>1. UNCHANGED <<zset, scanner>>
    BY <1>9 DEF BatchSend, CreateAll, PushAll, BatchCrash
  <2>2. t \notin Batched
    BY TasksAssumption
  <2>3. UNCHANGED pushed \/ \E S \in SUBSET Batched : Pipeline(S)
    BY <1>9 DEF BatchSend, CreateAll, PushAll, BatchCrash
  <2>4. pushed'[t] = pushed[t]
    BY <1>3, <2>2, <2>3 DEF Pipeline
  <2> QED BY <1>1, <1>3, <1>4, <1>7, <2>1, <2>4
<1>10. ASSUME NEW s \in Scanners, Scanning(s) \/ ScannerCrash(s)
       PROVE  pushed'[t] + m <= faults' + Pushes(t)
  <2>1. CASE pushed'[t] = pushed[t] /\ Pushers(t)' \subseteq Pushers(t)
    BY <1>1, <1>3, <1>4, <1>5, <1>6, <2>1
  <2>2. CASE /\ pushed'[t] = pushed[t] + 1 /\ s \in Pushers(t)
             /\ Pushers(t)' \subseteq Pushers(t) \ {s}
    <3>1. IsFiniteSet(Pushers(t) \ {s}) /\ Cardinality(Pushers(t) \ {s}) = n - 1
      BY <2>2, PushersType, FS_RemoveElement
    <3>2. m <= n - 1
      BY <2>2, <3>1, FS_Subset
    <3> QED BY <1>1, <1>3, <1>4, <1>5, <2>2, <3>2
  <2>3. CASE /\ pushed'[t] = pushed[t] /\ Pushers(t)' \subseteq Pushers(t) \cup {s}
             /\ faults' = faults + 1
    <3>1. /\ IsFiniteSet(Pushers(t) \cup {s})
          /\ Cardinality(Pushers(t) \cup {s}) \in {n, n + 1}
      BY PushersType, FS_AddElement
    <3>2. m <= Cardinality(Pushers(t) \cup {s})
      BY <2>3, <3>1, FS_Subset
    <3>3. m <= n + 1
      BY <1>4, <1>5, <3>1, <3>2
    <3> QED BY <1>1, <1>3, <1>4, <1>5, <2>3, <3>3
  <2>4. CASE /\ pushed'[t] = pushed[t] + 1 /\ Pushers(t)' \subseteq Pushers(t)
             /\ faults' = faults + 1
    BY <1>1, <1>3, <1>4, <1>5, <1>6, <2>4
  <2>5. CASE pushed'[t] = pushed[t] /\ Held(t) /\ Stored(wish[t]) > now
    <3>1. wish[t] # 0
      BY <1>3, <2>5 DEF Inv, HeldOK
    <3>2. Stored(wish[t]) \in Nat /\ now \in Nat
      BY <1>3, WishType, StoredLater DEF Inv, TypeInv
    <3>3. pushed[t] = 0
      BY <1>3, <2>5, <3>2 DEF Inv, TimeOK
    <3>4. Pushes(t) = Cardinality(Scanners) /\ Cardinality(Scanners) \in Nat
      BY <3>1, PushersType DEF Pushes
    <3> QED BY <1>1, <1>5, <2>5, <3>3, <3>4
  <2> QED BY <1>3, <1>10, <2>1, <2>2, <2>3, <2>4, <2>5, ScannerPushes DEF Inv
<1>11. CASE Tick \/ UNCHANGED vars
  <2>1. UNCHANGED <<zset, scanner, pushed>>
    BY <1>11 DEF Tick, vars
  <2> QED BY <1>1, <1>3, <1>4, <1>7, <2>1
<1> QED BY <1>8, <1>9, <1>10, <1>11 DEF Next

\* A task sent at once has at most one entry on the stream, a scheduled one at
\* most one for each scanner, and one more for each fault: whatever the scanners
\* list, push and remove at the same time (ScheduledTaskScanner.scan).
THEOREM PushBoundHolds == Spec => []PushBound
<1>1. Init => PushOK
  <2> SUFFICES ASSUME Init, NEW t \in Singles
               PROVE  pushed[t] + Cardinality(Pushers(t)) <= faults + Pushes(t)
    BY DEF PushOK
  <2>1. t \in Tasks /\ ~Held(t)
    BY DEF Tasks, Init, Idle, Held, Has, At
  <2>2. Cardinality(Pushers(t)) = 0
    BY <2>1, TypeInit, NoPushers, FS_EmptySet
  <2>3. Pushes(t) \in Nat
    BY PushersType DEF Pushes
  <2> QED BY <2>1, <2>2, <2>3 DEF Init
<1>2. Inv /\ PushOK /\ [Next]_vars => Inv' /\ PushOK'
  BY InvStep, PushStep
<1>3. Inv /\ PushOK => PushBound
  <2> SUFFICES ASSUME Inv, PushOK PROVE PushBound
    OBVIOUS
  <2>1. TypeOK
    BY DEF Inv, TypeInv, TypeOK, Records, Results, RecordOK
  <2>2. ASSUME NEW t \in Singles PROVE pushed[t] <= faults + Pushes(t)
    <3>1. /\ pushed[t] \in Nat /\ faults \in Nat /\ Pushes(t) \in Nat
          /\ Cardinality(Pushers(t)) \in Nat
      BY PushersType DEF Tasks, Inv, TypeInv, Pushes
    <3> QED BY <3>1 DEF PushOK
  <2> QED BY <2>1, <2>2 DEF PushBound, Pushes
<1> QED BY <1>1, <1>2, <1>3, InvInit, PTL DEF Spec

-----------------------------------------------------------------------------
(* What it takes to lose a task *)

\* The score of a task whose time is a whole second is that second, and who has
\* found it has found it in time.
DueOK ==
  \A t \in OnTheSecond :
    /\ zset[t] # NoScore => zset[t] = Score(wish[t])
    /\ \A s \in Scanners : Has(scanner[s], t) \/ At(scanner[s], t) => wish[t] <= now

Removing(t) == \E s \in Scanners : scanner[s].pc = "remove" /\ scanner[s].task = t

\* The tasks that are lost, and those about to be.
Doomed ==
  {t \in OnTheSecond : /\ pushed[t] = 0
                       /\ Removing(t) \/ (api[t] = "accepted" /\ zset[t] = NoScore)}

LossOK == Cardinality(Doomed) <= faults

LEMMA Whole ==
  ASSUME TypeInv, NEW t \in OnTheSecond
  PROVE  /\ t \in Singles /\ t \in Tasks /\ wish[t] \in Nat /\ Stored(wish[t]) = wish[t]
         /\ Score(wish[t]) \in Nat
         /\ Score(wish[t]) <= now \div Second => wish[t] <= now
<1>1. t \in Singles /\ t \in Tasks /\ wish[t] % Second = 0
  BY DEF OnTheSecond, Tasks
<1>2. wish[t] \in Nat /\ now \in Nat
  BY <1>1, WishType DEF TypeInv
<1> QED BY <1>1, <1>2, WholeKept, Seconds DEF Score

\* A task of a whole second is pushed by whoever comes to it.
LEMMA WholeGoes ==
  ASSUME TypeInv, DueOK, NEW s \in Scanners, At(scanner[s], scanner[s].task),
         scanner[s].task \in OnTheSecond,
         Enqueue(scanner[s].task, Stored(wish[scanner[s].task]))
  PROVE  /\ pushed' = [pushed EXCEPT ![scanner[s].task] = @ + 1] /\ UNCHANGED zset
         /\ pushed'[scanner[s].task] # 0
<1> DEFINE t == scanner[s].task
<1>1. wish[t] <= now /\ Stored(wish[t]) = wish[t] /\ wish[t] \in Nat /\ now \in Nat
      /\ t \in Tasks
  BY Whole DEF DueOK, TypeInv
<1>2. pushed' = [pushed EXCEPT ![t] = @ + 1] /\ UNCHANGED zset
  BY <1>1 DEF Enqueue
<1> QED BY <1>1, <1>2 DEF TypeInv

LEMMA DueStep ==
  ASSUME Inv, Inv', DueOK, [Next]_vars
  PROVE  DueOK'
<1> USE DEF Inv
<1>1. wish' = wish /\ now \in Nat /\ now' \in Nat /\ now <= now'
  BY DEF Next, Tick, Send, Create, Push, PushFails, Revert, SendCrash, BatchSend, CreateAll,
         PushAll, BatchCrash, Scanning, Scan, Get, PushDue, Remove, ScannerCrash, vars,
         TypeInv
<1>2. OnTheSecond' = OnTheSecond
  BY <1>1 DEF OnTheSecond
<1> SUFFICES ASSUME NEW t \in OnTheSecond
             PROVE  /\ zset'[t] # NoScore => zset'[t] = Score(wish[t])
                    /\ \A s \in Scanners :
                         Has(scanner'[s], t) \/ At(scanner'[s], t) => wish[t] <= now'
  BY <1>1, <1>2 DEF DueOK, Score, Has, At
<1>3. t \in Singles /\ t \in Tasks /\ wish[t] \in Nat
  BY Whole
<1>4. CASE UNCHANGED <<zset, scanner>>
  BY <1>1, <1>3, <1>4 DEF DueOK
<1>5. ASSUME NEW u \in Singles, Send(u)
      PROVE  /\ scanner' = scanner
             /\ zset'[t] # NoScore => zset'[t] = Score(wish[t])
  <2>1. scanner' = scanner
    BY <1>5 DEF Send, Create, Push, PushFails, Revert, SendCrash
  <2>2. zset' = zset \/ zset' = [zset EXCEPT ![u] = Score(wish[u])]
    BY <1>5 DEF Send, Create, Push, PushFails, Revert, SendCrash, Enqueue
  <2> QED BY <1>3, <2>1, <2>2 DEF DueOK, TypeInv
<1>6. ASSUME NEW s \in Scanners, Scanning(s) \/ ScannerCrash(s)
      PROVE  /\ zset'[t] \in {zset[t], NoScore}
             /\ Has(scanner'[s], t) \/ At(scanner'[s], t) => wish[t] <= now
  <2>1. CASE Scan(s)
    <3>1. scanner'[s].pc = "get" /\ scanner'[s].found \subseteq Due /\ zset' = zset
      BY <2>1, ScanGives DEF TypeInv, Scan
    <3>2. ~At(scanner'[s], t)
      BY <3>1 DEF At
    <3>3. ASSUME Has(scanner'[s], t) PROVE wish[t] <= now
      <4>1. PICK m \in Due : m.task = t
        BY <3>1, <3>3 DEF Has
      <4>2. zset[t] # NoScore /\ m.score = zset[t] /\ m.score <= now \div Second
        BY <4>1, DueType
      <4>3. Score(wish[t]) <= now \div Second
        BY <4>2 DEF DueOK
      <4> QED BY <4>3, Whole
    <3> QED BY <3>1, <3>2, <3>3
  <2>2. CASE Get(s)
    <3>1. PICK k \in Records, m \in scanner[s].found :
            k.found = scanner[s].found \ {m} /\ k.task = m.task
            /\ scanner' = [scanner EXCEPT ![s] = k]
      BY <2>2, GetGives
    <3>2. scanner'[s] = k
      BY <3>1 DEF TypeInv
    <3>3. Has(k, t) \/ At(k, t) => Has(scanner[s], t)
      BY <3>1 DEF Has, At
    <3>4. zset' = zset
      BY <2>2 DEF Get
    <3> QED BY <3>2, <3>3, <3>4 DEF DueOK
  <2>3. CASE PushDue(s) \/ Remove(s)
    <3>1. scanner'[s].found = scanner[s].found
      BY <2>3, PushDueGives, RemoveGives DEF TypeInv
    <3>2. At(scanner'[s], t) => scanner[s].task = t
      BY <2>3, PushDueGives, RemoveGives DEF TypeInv, At
    <3>3. At(scanner[s], scanner[s].task)
      BY <2>3, PushDueGives, RemoveGives
    <3>4. Has(scanner'[s], t) \/ At(scanner'[s], t) => wish[t] <= now
      BY <3>1, <3>2, <3>3 DEF DueOK, Has
    <3>5. zset'[t] \in {zset[t], NoScore}
      <4>1. CASE Remove(s)
        BY <1>3, <4>1 DEF Remove, TypeInv
      <4>2. CASE PushDue(s)
        <5>1. CASE scanner[s].task = t /\ Enqueue(t, Stored(wish[t]))
          BY <3>3, <5>1, WholeGoes
        <5>2. CASE UNCHANGED zset
          BY <5>2
        <5>3. CASE scanner[s].task # t /\
                   Enqueue(scanner[s].task, Stored(wish[scanner[s].task]))
          BY <1>3, <5>3 DEF Enqueue, TypeInv
        <5> QED BY <4>2, <5>1, <5>2, <5>3 DEF PushDue
      <4> QED BY <2>3, <4>1, <4>2
    <3> QED BY <3>4, <3>5
  <2>4. CASE ScannerCrash(s)
    <3>1. zset' = zset /\ ~Has(scanner'[s], t) /\ ~At(scanner'[s], t)
      BY <2>4, CrashGives DEF ScannerCrash, TypeInv, Has, At
    <3> QED BY <3>1
  <2> QED BY <1>6, <2>1, <2>2, <2>3, <2>4 DEF Scanning
<1>7. ASSUME NEW s \in Scanners, Scanning(s) \/ ScannerCrash(s), NEW x \in Scanners,
             Has(scanner'[x], t) \/ At(scanner'[x], t)
      PROVE  wish[t] <= now'
  <2>1. wish[t] <= now
    <3>1. x # s => scanner'[x] = scanner[x]
      BY <1>7, ScannerStep
    <3> QED BY <1>6, <1>7, <3>1 DEF DueOK
  <2> QED BY <1>1, <1>3, <2>1
<1>8. CASE \E u \in Singles : Send(u)
  BY <1>1, <1>3, <1>5, <1>8 DEF DueOK
<1>9. CASE \E s \in Scanners : Scanning(s) \/ ScannerCrash(s)
  BY <1>6, <1>7, <1>9 DEF DueOK
<1> QED BY <1>4, <1>8, <1>9 DEF Next, Tick, BatchSend, CreateAll, PushAll, BatchCrash, vars

\* A task is doomed when its row was not read, which is a fault, and by nothing
\* else.
LEMMA DoomedStep ==
  ASSUME Inv, Inv', DueOK, [Next]_vars
  PROVE  \/ Doomed' \subseteq Doomed
         \/ \E x : Doomed' \subseteq Doomed \cup {x} /\ faults' = faults + 1
<1> USE DEF Inv
<1>1. wish' = wish
  BY DEF Next, Tick, Send, Create, Push, PushFails, Revert, SendCrash, BatchSend, CreateAll,
         PushAll, BatchCrash, Scanning, Scan, Get, PushDue, Remove, ScannerCrash, vars
<1>2. OnTheSecond' = OnTheSecond
  BY <1>1 DEF OnTheSecond
<1>3. \A t \in OnTheSecond : t \in Singles /\ t \in Tasks /\ t \notin Batched
                             /\ pushed[t] \in Nat
  BY Whole, TasksAssumption DEF TypeInv
<1>4. \A t \in OnTheSecond : pushed'[t] = 0 => pushed[t] = 0
  <2> SUFFICES ASSUME NEW t \in OnTheSecond, pushed'[t] = 0, pushed[t] # 0 PROVE FALSE
    OBVIOUS
  <2>1. pushed'[t] = pushed[t] + 1 /\ pushed[t] \in Nat
    BY <1>3, WhoPushes
  <2> QED BY <2>1
<1>5. CASE UNCHANGED <<zset, scanner, api>>
  BY <1>2, <1>4, <1>5 DEF Doomed, Removing
<1>6. ASSUME NEW u \in Singles, Send(u) PROVE Doomed' \subseteq Doomed
  <2>1. scanner' = scanner
    BY <1>6 DEF Send, Create, Push, PushFails, Revert, SendCrash
  <2>2. ASSUME NEW t \in OnTheSecond, pushed'[t] = 0, api'[t] = "accepted",
               zset'[t] = NoScore
        PROVE  api[t] = "accepted" /\ zset[t] = NoScore
    <3>1. zset[t] = NoScore
      <4>1. zset' = zset \/ zset' = [zset EXCEPT ![u] = Score(wish[u])]
        BY <1>6 DEF Send, Create, Push, PushFails, Revert, SendCrash, Enqueue
      <4>2. Score(wish[t]) # NoScore
        BY Whole, TasksAssumption
      <4> QED BY <1>3, <2>2, <4>1, <4>2 DEF TypeInv
    <3>2. CASE Push(u) /\ u = t
      <4>1. Score(wish[t]) # NoScore
        BY Whole, TasksAssumption
      <4>2. zset' = [zset EXCEPT ![t] = Score(wish[t])]
            \/ pushed' = [pushed EXCEPT ![t] = @ + 1]
        BY <3>2 DEF Push, Enqueue
      <4> QED BY <1>3, <2>2, <4>1, <4>2 DEF TypeInv
    <3>3. CASE ~(Push(u) /\ u = t)
      <4>1. api[t] = "accepted"
        BY <1>3, <1>6, <2>2, <3>3 DEF Send, Create, Push, PushFails, Revert, SendCrash, TypeInv
      <4> QED BY <3>1, <4>1
    <3> QED BY <3>2, <3>3
  <2> QED BY <1>2, <1>4, <2>1, <2>2 DEF Doomed, Removing
<1>7. ASSUME NEW s \in Scanners, Scanning(s) \/ ScannerCrash(s)
      PROVE  \/ Doomed' \subseteq Doomed
             \/ \E x : Doomed' \subseteq Doomed \cup {x} /\ faults' = faults + 1
  <2>1. api' = api /\ \A x \in Scanners \ {s} : scanner'[x] = scanner[x]
    BY <1>7, ScannerStep
  <2>2. ASSUME NEW t, Removing(t)', ~Removing(t)
        PROVE scanner'[s].pc = "remove" /\ scanner'[s].task = t
    BY <2>1, <2>2 DEF Removing
  <2>3. CASE Scan(s) \/ ScannerCrash(s)
    <3>1. zset' = zset /\ scanner'[s].pc # "remove"
      BY <2>3, ScanGives, CrashGives DEF Scan, ScannerCrash, TypeInv
    <3> QED BY <1>2, <1>4, <2>1, <2>2, <3>1 DEF Doomed
  <2>4. CASE Get(s)
    <3>1. PICK k \in Records, m \in scanner[s].found :
            /\ k.task = m.task /\ scanner' = [scanner EXCEPT ![s] = k]
            /\ k.pc = "push" \/ Faults(1)
      BY <2>4, GetGives
    <3>2. zset' = zset /\ scanner'[s] = k
      BY <2>4, <3>1 DEF Get, TypeInv
    <3>3. CASE k.pc = "push"
      BY <1>2, <1>4, <2>1, <2>2, <3>2, <3>3 DEF Doomed
    <3>4. CASE Faults(1)
      <4>1. faults' = faults + 1
        BY <3>4, FaultsCount
      <4>2. Doomed' \subseteq Doomed \cup {m.task}
        BY <1>2, <1>4, <2>1, <2>2, <3>1, <3>2 DEF Doomed
      <4> QED BY <4>1, <4>2
    <3> QED BY <3>1, <3>3, <3>4
  <2>5. CASE PushDue(s)
    <3> DEFINE u == scanner[s].task
    <3>1. u \in Tasks /\ At(scanner[s], u)
      BY <2>5, PushDueGives
    <3>2. \/ scanner'[s].pc = "remove" /\ scanner'[s].task = u
             /\ Enqueue(u, Stored(wish[u]))
          \/ scanner'[s].pc # "remove"
             /\ (Enqueue(u, Stored(wish[u])) \/ UNCHANGED <<zset, pushed>>)
      BY <2>5, PushDueGives DEF TypeInv
    <3>3. ASSUME NEW t \in OnTheSecond PROVE zset'[t] = zset[t]
      <4>1. CASE t = u /\ Enqueue(u, Stored(wish[u]))
        BY <3>1, <4>1, WholeGoes
      <4>2. CASE t # u /\ Enqueue(u, Stored(wish[u]))
        BY <1>3, <4>2 DEF Enqueue, TypeInv
      <4> QED BY <3>2, <4>1, <4>2
    <3>4. ASSUME NEW t \in OnTheSecond, pushed'[t] = 0, Removing(t)' PROVE Removing(t)
      <4> SUFFICES ASSUME ~Removing(t) PROVE FALSE
        OBVIOUS
      <4>1. scanner'[s].pc = "remove" /\ scanner'[s].task = t
        BY <2>2, <3>4
      <4>2. t = u /\ Enqueue(u, Stored(wish[u]))
        BY <3>2, <4>1
      <4> QED BY <3>1, <3>4, <4>2, WholeGoes
    <3> QED BY <1>2, <1>4, <2>1, <3>3, <3>4 DEF Doomed
  <2>6. CASE Remove(s)
    <3>1. scanner'[s].pc # "remove" /\ scanner[s].pc = "remove"
      BY <2>6, RemoveGives DEF TypeInv, Remove
    <3>2. ASSUME NEW t \in OnTheSecond PROVE zset'[t] = zset[t] \/ Removing(t)
      BY <1>3, <2>6, <3>1 DEF Remove, Removing, TypeInv
    <3> QED BY <1>2, <1>4, <2>1, <2>2, <3>1, <3>2 DEF Doomed
  <2> QED BY <1>7, <2>3, <2>4, <2>5, <2>6 DEF Scanning
<1> QED BY <1>5, <1>6, <1>7 DEF Next, Tick, BatchSend, CreateAll, PushAll, BatchCrash, vars

\* Doomed tasks can be counted.
LEMMA DoomedType == IsFiniteSet(Doomed) /\ Cardinality(Doomed) \in Nat
<1>1. Doomed \subseteq Tasks
  BY DEF Doomed, OnTheSecond, Tasks
<1>2. IsFiniteSet(Doomed)
  BY <1>1, TasksAssumption, FS_Subset
<1> QED BY <1>2, FS_CardinalityType

LEMMA LossStep ==
  ASSUME Inv, Inv', DueOK, LossOK, [Next]_vars
  PROVE  LossOK'
<1>1. faults \in Nat /\ faults' \in Nat /\ faults <= faults'
  BY FaultsGrow DEF Inv
<1>2. /\ IsFiniteSet(Doomed) /\ Cardinality(Doomed) \in Nat
      /\ IsFiniteSet(Doomed') /\ Cardinality(Doomed') \in Nat
  <2>1. Doomed' \subseteq Tasks
    BY DEF Doomed, OnTheSecond, Tasks
  <2>2. IsFiniteSet(Doomed')
    BY <2>1, TasksAssumption, FS_Subset
  <2> QED BY <2>2, DoomedType, FS_CardinalityType
<1>3. CASE Doomed' \subseteq Doomed
  <2>1. Cardinality(Doomed') <= Cardinality(Doomed)
    BY <1>2, <1>3, FS_Subset
  <2> QED BY <1>1, <1>2, <2>1 DEF LossOK
<1>4. ASSUME NEW x, Doomed' \subseteq Doomed \cup {x}, faults' = faults + 1
      PROVE  LossOK'
  <2>1. /\ IsFiniteSet(Doomed \cup {x})
        /\ Cardinality(Doomed \cup {x}) \in {Cardinality(Doomed), Cardinality(Doomed) + 1}
    BY <1>2, FS_AddElement
  <2>2. Cardinality(Doomed') <= Cardinality(Doomed \cup {x})
    BY <1>4, <2>1, FS_Subset
  <2>3. Cardinality(Doomed') <= Cardinality(Doomed) + 1
    BY <1>2, <2>1, <2>2
  <2> QED BY <1>1, <1>2, <1>4, <2>3 DEF LossOK
<1> QED BY <1>3, <1>4, DoomedStep

\* Of the tasks that Send accepted for a whole second no more are gone than there
\* were faults: what two scanners do to the set at the same time loses none
\* (ScheduledTaskScanner.scan pushes before it removes).
THEOREM LossNeedsFaultHolds == Spec => []LossNeedsFault
<1>1. Init => DueOK /\ LossOK
  <2> SUFFICES ASSUME Init PROVE DueOK /\ LossOK
    OBVIOUS
  <2>1. \A t \in OnTheSecond : t \in Tasks /\ t \in Singles
    BY DEF OnTheSecond, Tasks
  <2>2. DueOK
    BY <2>1 DEF Init, Idle, DueOK, Has, At
  <2>3. Doomed = {}
    BY <2>1 DEF Init, Idle, Doomed, Removing
  <2> QED BY <2>2, <2>3, FS_EmptySet DEF LossOK, Init
<1>2. Inv /\ DueOK /\ LossOK /\ [Next]_vars => Inv' /\ DueOK' /\ LossOK'
  BY InvStep, DueStep, LossStep
<1>3. Inv /\ LossOK => LossNeedsFault
  <2> SUFFICES ASSUME Inv, LossOK PROVE Cardinality(Lost) <= faults
    BY DEF LossNeedsFault
  <2>1. Lost \subseteq Doomed
    BY DEF Lost, Doomed
  <2>2. Cardinality(Lost) <= Cardinality(Doomed) /\ IsFiniteSet(Lost)
    BY <2>1, DoomedType, FS_Subset
  <2>3. Cardinality(Lost) \in Nat
    BY <2>2, FS_CardinalityType
  <2> QED BY <2>2, <2>3, DoomedType DEF LossOK, Inv, TypeInv
<1> QED BY <1>1, <1>2, <1>3, InvInit, PTL DEF Spec
=============================================================================
