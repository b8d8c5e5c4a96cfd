--------------------------- MODULE DeliveryProofs ---------------------------
(***************************************************************************)
(* Proofs about Delivery, for any number of tasks, workers, reports,       *)
(* providers and faults: types; that a task is on its way once; what a     *)
(* failure strands; what the rows say of what was accepted; how often and  *)
(* which providers are called; what the reports say; and that Delivery     *)
(* keeps what DeliveryPromise promises.                                    *)
(***************************************************************************)
EXTENDS Delivery, FiniteSetTheorems, WellFoundedInduction, TLAPS

\* The steps in which the worker holds a copy of the row it will write back.
Copying == {"mark", "select", "call", "succeed", "evaluate", "abort"}

\* What a worker holds fits the step it is at.
WorkerOK ==
  \A w \in Workers :
    /\ pc[w] \in {"read", "load"} <=> cur[w] = 0
    /\ pc[w] = "load" => batch[w] # {}
    /\ cur[w] # 0 => cur[w] \in batch[w]
    /\ pc[w] \in Copying => snap[w] \in Rows

\* A task is on its way only after its row was inserted.
RowOK ==
  /\ \A t \in Tasks : db[t] = NoRow <=> api[t] = "absent"
  /\ \A i \in 1 .. Len(stream) : db[stream[i]] # NoRow
  /\ \A x \in timers : db[x.task] # NoRow
  /\ \A t \in Tasks : scan[t] # NoRow => db[t] # NoRow

\* A report handler looks at a message that was read from the stream.
ReportOK ==
  \A c \in Reports :
    /\ report[c].pc \in {"find", "apply"} => report[c].msg \in 1 .. cursor
    /\ report[c].pc = "apply" => report[c].row \in Rows

TypeInv == TypeOK /\ WorkerOK /\ RowOK /\ ReportOK

-----------------------------------------------------------------------------
(* Facts about the operators *)

\* A nonempty set of entries has a smallest one.
LEMMA SmallestIsIn ==
  ASSUME NEW S \in SUBSET Nat, S # {}
  PROVE  Smallest(S) \in S
<1> DEFINE R == {p \in Nat \X Nat : p[1] < p[2]}
<1>1. IsWellFoundedOn(R, Nat)
  BY NatLessThanWellFounded DEF OpToRel
<1>2. PICK x \in S : \A y \in S : ~(<<y, x>> \in R)
  <2> HIDE DEF R
  <2> QED BY <1>1, WFMin
<1>3. \A y \in S : x <= y
  <2> SUFFICES ASSUME NEW y \in S PROVE x <= y
    OBVIOUS
  <2>1. ~(y < x)
    BY <1>2
  <2> QED BY <2>1
<1> QED BY <1>3 DEF Smallest

\* What an action of a rule saves is a row.
LEMMA OutcomeIsRow ==
  ASSUME NEW row \in Rows, NEW a, NEW via \in SUBSET Providers
  PROVE  Outcome(a, row, via) \in Rows
<1>1. [row EXCEPT !.status = "failed"] \in Rows
  BY DEF Rows, Statuses
<1>2. \A E \in SUBSET Providers :
        [row EXCEPT !.retries = row.retries + 1, !.exclude = E] \in Rows
  <2> SUFFICES ASSUME NEW E \in SUBSET Providers
               PROVE  [row EXCEPT !.retries = row.retries + 1, !.exclude = E] \in Rows
    OBVIOUS
  <2>1. [row EXCEPT !.retries = row.retries + 1] \in Rows
    BY DEF Rows
  <2>2. \A r \in Rows : [r EXCEPT !.exclude = E] \in Rows
    BY DEF Rows
  <2> QED BY <2>1, <2>2
<1>3. row.exclude \in SUBSET Providers
  BY DEF Rows
<1> DEFINE E == IF a = "switch_provider" /\ ExcludeCurrent
                THEN row.exclude \cup via ELSE row.exclude
<1>4. E \in SUBSET Providers
  BY <1>3
<1>5. [row EXCEPT !.retries = row.retries + 1, !.exclude = E] \in Rows
  <2> HIDE DEF E
  <2> QED BY <1>2, <1>4
<1> QED BY <1>1, <1>5 DEF Outcome

\* A save writes one row or nothing, and costs at most one fault.
LEMMA SaveTyped ==
  ASSUME TypeOK, RowOK, NEW t \in Tasks, NEW row \in Rows, db[t] # NoRow, Save(t, row)
  PROVE  /\ db' \in [Tasks -> Rows \cup {NoRow}]
         /\ faults' \in 0 .. MaxFaults
         /\ \A u \in Tasks : db'[u] = NoRow <=> db[u] = NoRow
<1>1. row # NoRow
  BY NoRowAssumption
<1>2. CASE db' = [db EXCEPT ![t] = row] /\ UNCHANGED faults
  BY <1>1, <1>2 DEF TypeOK
<1>3. CASE Fault /\ UNCHANGED db
  BY <1>3, BoundsAssumption DEF Fault, TypeOK
<1> QED BY <1>2, <1>3 DEF Save

-----------------------------------------------------------------------------
(* Types *)

\* The strengthened type invariant holds at the start.
LEMMA TypeInit == Init => TypeInv
<1> SUFFICES ASSUME Init PROVE TypeInv
  OBVIOUS
<1> USE DEF Init
<1>1. TypeOK
  BY BoundsAssumption DEF TypeOK, WorkerSteps, ReportState, Verdicts
<1>2. WorkerOK
  BY DEF WorkerOK, Copying
<1>3. RowOK
  BY DEF RowOK
<1>4. ReportOK
  BY DEF ReportOK
<1> QED BY <1>1, <1>2, <1>3, <1>4 DEF TypeInv

\* Pushing adds one entry and changes no other.
LEMMA StreamGrows ==
  ASSUME stream \in Seq(Tasks), NEW t \in Tasks, stream' = Append(stream, t)
  PROVE  /\ stream' \in Seq(Tasks)
         /\ Len(stream') = Len(stream) + 1
         /\ \A i \in 1 .. Len(stream') :
              stream'[i] = IF i <= Len(stream) THEN stream[i] ELSE t
OBVIOUS

\* The steps of the request that submits a task.
LEMMA TypeApi ==
  ASSUME TypeInv, NEW t \in Tasks, Api(t)
  PROVE  TypeInv'
<1> USE DEF TypeInv
<1>0. NewRow \in Rows /\ [NewRow EXCEPT !.status = "failed"] \in Rows
  BY DEF NewRow, Rows, Statuses
<1>1. CASE Create(t)
  <2>1. TypeOK'
    BY <1>0, <1>1 DEF Create, TypeOK, workerVars, queueVars
  <2>2. WorkerOK' /\ ReportOK'
    BY <1>1 DEF Create, WorkerOK, ReportOK, workerVars, queueVars
  <2>3. RowOK'
    BY <1>0, <1>1, NoRowAssumption DEF Create, RowOK, TypeOK, queueVars
  <2> QED BY <2>1, <2>2, <2>3
<1>2. CASE Push(t)
  <2>1. stream' = Append(stream, t)
    BY <1>2 DEF Push
  <2>2. TypeOK'
    BY <1>2, <2>1, StreamGrows DEF Push, TypeOK, workerVars
  <2>3. WorkerOK' /\ ReportOK'
    BY <1>2 DEF Push, WorkerOK, ReportOK, workerVars
  <2>4. RowOK'
    BY <1>2, <2>1, StreamGrows DEF Push, RowOK, TypeOK
  <2> QED BY <2>2, <2>3, <2>4
<1>3. CASE PushFails(t)
  <2>1. stream' = Append(stream, t) \/ stream' = stream
    BY <1>3 DEF PushFails
  <2>2. TypeOK'
    BY <1>3, <2>1, StreamGrows, BoundsAssumption
    DEF PushFails, Fault, TypeOK, workerVars
  <2>3. WorkerOK' /\ ReportOK'
    BY <1>3 DEF PushFails, WorkerOK, ReportOK, workerVars
  <2>4. /\ UNCHANGED <<db, timers, scan>>
        /\ \A u \in Tasks : api'[u] = "absent" <=> api[u] = "absent"
    BY <1>3 DEF PushFails, TypeOK
  <2>5. \A i \in 1 .. Len(stream') :
          \/ i \in 1 .. Len(stream) /\ stream'[i] = stream[i]
          \/ stream'[i] = t
    BY <2>1, StreamGrows DEF TypeOK
  <2>6. db[t] # NoRow
    BY <1>3 DEF PushFails, RowOK
  <2>7. RowOK'
    BY <2>4, <2>5, <2>6 DEF RowOK
  <2> QED BY <2>2, <2>3, <2>7
<1>4. CASE Revert(t)
  <2>1. db[t] # NoRow
    BY <1>4 DEF Revert, RowOK
  <2>2. /\ db' \in [Tasks -> Rows \cup {NoRow}]
        /\ faults' \in 0 .. MaxFaults
        /\ \A u \in Tasks : db'[u] = NoRow <=> db[u] = NoRow
    BY <1>0, <1>4, <2>1, SaveTyped DEF Revert
  <2>3. TypeOK'
    BY <1>4, <2>2 DEF Revert, TypeOK, workerVars, queueVars
  <2>4. WorkerOK' /\ ReportOK'
    BY <1>4 DEF Revert, WorkerOK, ReportOK, workerVars, queueVars
  <2>5. RowOK'
    BY <1>4, <2>2 DEF Revert, RowOK, TypeOK, queueVars
  <2> QED BY <2>3, <2>4, <2>5
<1>5. CASE ApiCrash(t)
  <2>1. TypeOK'
    BY <1>5, BoundsAssumption DEF ApiCrash, Fault, TypeOK, workerVars, queueVars
  <2>2. WorkerOK' /\ ReportOK'
    BY <1>5 DEF ApiCrash, WorkerOK, ReportOK, workerVars, queueVars
  <2>3. RowOK'
    BY <1>5 DEF ApiCrash, RowOK, TypeOK, queueVars
  <2> QED BY <2>1, <2>2, <2>3
<1> QED BY <1>1, <1>2, <1>3, <1>4, <1>5 DEF Api

\* Reading from the group moves its cursor forward and stays in the stream.
LEMMA CursorMoves ==
  ASSUME TypeOK, cursor < Len(stream)
  PROVE  /\ LastFetched \in (cursor + 1) .. Len(stream)
         /\ Fetched \subseteq 1 .. LastFetched
         /\ Fetched # {}
<1>1. LastFetched \in (cursor + 1) .. Len(stream)
  BY BoundsAssumption DEF LastFetched, TypeOK
<1>2. cursor + 1 \in Fetched
  BY <1>1 DEF Fetched, TypeOK
<1>3. Fetched \subseteq 1 .. LastFetched
  <2>1. cursor \in Nat
    BY DEF TypeOK
  <2> QED BY <1>1, <2>1 DEF Fetched
<1> QED BY <1>1, <1>2, <1>3

\* A worker that handles an entry holds it, and the entry's task has a row.
LEMMA Busy ==
  ASSUME TypeInv, NEW w \in Workers, pc[w] \notin {"read", "load"}
  PROVE  /\ cur[w] \in batch[w] /\ cur[w] \in 1 .. cursor
         /\ cur[w] \in 1 .. Len(stream)
         /\ stream[cur[w]] \in Tasks /\ db[stream[cur[w]]] # NoRow
<1>1. cur[w] # 0 /\ cur[w] \in batch[w]
  BY DEF TypeInv, WorkerOK
<1>2. cur[w] \in 1 .. cursor
  BY <1>1 DEF TypeInv, TypeOK
<1>3. cur[w] \in 1 .. Len(stream)
  BY <1>2 DEF TypeInv, TypeOK
<1> QED BY <1>1, <1>2, <1>3 DEF TypeInv, TypeOK, RowOK

\* A worker that saves its copy of the row writes a row of the entry's task.
LEMMA WorkerSaveTyped ==
  ASSUME TypeInv, NEW w \in Workers, pc[w] \in Copying,
         NEW row \in Rows, Save(stream[cur[w]], row)
  PROVE  /\ db' \in [Tasks -> Rows \cup {NoRow}]
         /\ faults' \in 0 .. MaxFaults
         /\ \A u \in Tasks : db'[u] = NoRow <=> db[u] = NoRow
<1>1. stream[cur[w]] \in Tasks /\ db[stream[cur[w]]] # NoRow
  BY Busy DEF Copying
<1> QED BY <1>1, SaveTyped DEF TypeInv

\* A worker reads entries, or the reply to its read is lost.
LEMMA TypeRead ==
  ASSUME TypeInv, NEW w \in Workers, Read(w) \/ ReadLost(w)
  PROVE  TypeInv'
<1> USE DEF TypeInv
<1>1. cursor < Len(stream)
  BY DEF Read, ReadLost
<1>2. /\ LastFetched \in (cursor + 1) .. Len(stream)
      /\ Fetched \subseteq 1 .. LastFetched
      /\ Fetched # {}
  BY <1>1, CursorMoves
<1>3. CASE Read(w)
  <2>1. TypeOK'
    BY <1>2, <1>3 DEF Read, Goto, TypeOK, WorkerSteps
  <2>2. WorkerOK'
    BY <1>2, <1>3 DEF Read, Goto, WorkerOK, TypeOK, Copying
  <2>3. RowOK'
    BY <1>3 DEF Read, RowOK
  <2>4. ReportOK'
    BY <1>2, <1>3 DEF Read, ReportOK, TypeOK
  <2> QED BY <2>1, <2>2, <2>3, <2>4
<1>4. CASE ReadLost(w)
  <2>1. TypeOK'
    BY <1>2, <1>4, BoundsAssumption DEF ReadLost, Fault, TypeOK, workerVars
  <2>2. WorkerOK' /\ RowOK'
    BY <1>4 DEF ReadLost, WorkerOK, RowOK, workerVars
  <2>3. ReportOK'
    BY <1>2, <1>4 DEF ReadLost, ReportOK, TypeOK
  <2> QED BY <2>1, <2>2, <2>3
<1> QED BY <1>3, <1>4

\* Loading the row of the next entry.
LEMMA TypeLoad ==
  ASSUME TypeInv, NEW w \in Workers, Load(w)
  PROVE  TypeInv'
<1> USE DEF TypeInv
<1> DEFINE d == Smallest(batch[w])
<1>1. pc[w] = "load" /\ batch[w] # {} /\ batch[w] \in SUBSET (1 .. cursor) /\ cursor \in 0 .. Len(stream)
  BY DEF Load, WorkerOK, TypeOK
<1>2. d \in batch[w]
  BY <1>1, SmallestIsIn
<1>3. d \in 1 .. cursor /\ d \in 1 .. Len(stream)
  BY <1>1, <1>2
<1>4. db[stream[d]] \in Rows
  BY <1>3 DEF TypeOK, RowOK
<1>5. [db[stream[d]] EXCEPT !.status = "processing"] \in Rows
  BY <1>4 DEF Rows, Statuses
<1>6. /\ cur' = [cur EXCEPT ![w] = d]
      /\ \/ /\ snap' = [snap EXCEPT ![w] = [db[stream[d]] EXCEPT !.status = "processing"]]
            /\ pc' = [pc EXCEPT ![w] = "mark"]
            /\ UNCHANGED <<failing, faults>>
         \/ /\ Fault
            /\ failing' = [failing EXCEPT ![w] = TRUE]
            /\ pc' = [pc EXCEPT ![w] = "dead"]
            /\ UNCHANGED snap
      /\ UNCHANGED <<db, api, stream, cursor, pel, dlq, batch, prov, timers, accepted, logs,
                     report, scan, calls>>
  BY DEF Load, Goto, queueVars
<1> HIDE DEF d
<1>7. /\ pc' \in [Workers -> WorkerSteps] /\ snap' \in [Workers -> Rows \cup {NoRow}]
      /\ failing' \in [Workers -> BOOLEAN] /\ faults' \in 0 .. MaxFaults
      /\ \A v \in Workers \ {w} : pc'[v] = pc[v] /\ snap'[v] = snap[v]
      /\ pc'[w] \in {"mark", "dead"}
      /\ pc'[w] = "mark" => snap'[w] \in Rows
  <2>1. CASE /\ snap' = [snap EXCEPT ![w] = [db[stream[d]] EXCEPT !.status = "processing"]]
             /\ pc' = [pc EXCEPT ![w] = "mark"]
             /\ UNCHANGED <<failing, faults>>
    BY <1>5, <2>1 DEF TypeOK, WorkerSteps
  <2>2. CASE /\ Fault
             /\ failing' = [failing EXCEPT ![w] = TRUE]
             /\ pc' = [pc EXCEPT ![w] = "dead"]
             /\ UNCHANGED snap
    BY <2>2, BoundsAssumption DEF Fault, TypeOK, WorkerSteps
  <2> QED BY <1>6, <2>1, <2>2
<1>8. TypeOK'
  BY <1>3, <1>6, <1>7 DEF TypeOK
<1>10. WorkerOK'
  <2> SUFFICES ASSUME NEW v \in Workers
               PROVE  /\ pc'[v] \in {"read", "load"} <=> cur'[v] = 0
                      /\ pc'[v] = "load" => batch'[v] # {}
                      /\ cur'[v] # 0 => cur'[v] \in batch'[v]
                      /\ pc'[v] \in Copying => snap'[v] \in Rows
    BY DEF WorkerOK
  <2>1. CASE v = w
    BY <1>2, <1>3, <1>6, <1>7, <2>1 DEF TypeOK, Copying
  <2>2. CASE v # w
    BY <1>6, <1>7, <2>2 DEF TypeOK, WorkerOK
  <2> QED BY <2>1, <2>2
<1>9. RowOK' /\ ReportOK'
  BY <1>6 DEF RowOK, ReportOK
<1> QED BY <1>8, <1>9, <1>10

\* The steps that save the worker's copy, or what became of it.
LEMMA TypeWorkerSave ==
  ASSUME TypeInv, NEW w \in Workers,
         Mark(w) \/ Succeed(w) \/ Abort(w) \/ Evaluate(w)
  PROVE  TypeInv'
<1> USE DEF TypeInv
<1>1. pc[w] \in Copying
  BY DEF Mark, Succeed, Abort, Evaluate, Copying
<1>2. snap[w] \in Rows
  BY <1>1 DEF WorkerOK
<1>3. /\ cur[w] \in batch[w] /\ cur[w] \in 1 .. Len(stream)
      /\ stream[cur[w]] \in Tasks /\ db[stream[cur[w]]] # NoRow
  BY <1>1, Busy DEF Copying
<1>4. \A s \in Statuses : [snap[w] EXCEPT !.status = s] \in Rows
  BY <1>2 DEF Rows, Statuses
<1>5. \A a : Outcome(a, snap[w], prov[w]) \in Rows
  BY <1>2, OutcomeIsRow DEF TypeOK
<1>6. /\ db' \in [Tasks -> Rows \cup {NoRow}]
      /\ faults' \in 0 .. MaxFaults
      /\ \A u \in Tasks : db'[u] = NoRow <=> db[u] = NoRow
  <2>1. CASE Mark(w)
    BY <1>1, <1>2, <2>1, WorkerSaveTyped DEF Mark
  <2>2. CASE Succeed(w)
    <3>1. PICK s \in Statuses : Save(stream[cur[w]], [snap[w] EXCEPT !.status = s])
      BY <2>2 DEF Succeed, Statuses
    <3> QED BY <1>1, <1>4, <3>1, WorkerSaveTyped
  <2>3. CASE Abort(w)
    <3>1. Save(stream[cur[w]], [snap[w] EXCEPT !.status = "failed"])
      BY <2>3 DEF Abort
    <3> QED BY <1>1, <1>4, <3>1, WorkerSaveTyped DEF Statuses
  <2>4. CASE Evaluate(w)
    <3>1. PICK a : Save(stream[cur[w]], Outcome(a, snap[w], prov[w]))
      BY <2>4 DEF Evaluate, Execute
    <3> QED BY <1>1, <1>5, <3>1, WorkerSaveTyped
  <2> QED BY <2>1, <2>2, <2>3, <2>4
<1>7. /\ \E step \in WorkerSteps \ {"read", "load", "mark", "call", "succeed", "evaluate", "abort"} :
           pc' = [pc EXCEPT ![w] = step]
      /\ UNCHANGED <<api, queueVars, batch, cur, snap, prov, failing, accepted, logs, report,
                     scan, calls>>
  BY DEF Mark, Succeed, Abort, Evaluate, Goto, WorkerSteps
<1>8. timers' \subseteq timers \cup {[src |-> cur[w], task |-> stream[cur[w]]]}
  BY DEF Mark, Succeed, Abort, Evaluate, Execute
<1>9. TypeOK'
  BY <1>2, <1>3, <1>6, <1>7, <1>8 DEF TypeOK, queueVars, WorkerSteps
<1>10. WorkerOK'
  BY <1>2, <1>3, <1>7 DEF WorkerOK, TypeOK, Copying, WorkerSteps
<1>11. RowOK'
  BY <1>3, <1>6, <1>7, <1>8 DEF RowOK, TypeOK, queueVars
<1>12. ReportOK'
  BY <1>7 DEF ReportOK, queueVars
<1> QED BY <1>9, <1>10, <1>11, <1>12

\* The steps that leave the row alone.
LEMMA TypeWorkerOther ==
  ASSUME TypeInv, NEW w \in Workers,
         Select(w) \/ Call(w) \/ Record(w) \/ Dead(w)
  PROVE  TypeInv'
<1> USE DEF TypeInv
<1>1. cur[w] \in 1 .. cursor
  BY Busy DEF Select, Call, Record, Dead
<1>2. stream[cur[w]] \in Tasks
  BY Busy DEF Select, Call, Record, Dead
<1>3. CASE Select(w)
  <2>1. /\ pc' \in [Workers -> WorkerSteps] /\ prov' \in [Workers -> SUBSET Providers]
        /\ failing' \in [Workers -> BOOLEAN]
    <3>1. CASE \E p \in Providers : /\ prov' = [prov EXCEPT ![w] = {p}]
                                     /\ Goto(w, "call") /\ UNCHANGED failing
      BY <3>1 DEF Goto, TypeOK, WorkerSteps
    <3>2. CASE /\ failing' = [failing EXCEPT ![w] = TRUE]
               /\ Goto(w, "abort") /\ UNCHANGED prov
      BY <3>2 DEF Goto, TypeOK, WorkerSteps
    <3> QED BY <1>3, <3>1, <3>2 DEF Select
  <2>4. TypeOK'
    BY <1>3, <2>1 DEF Select, TypeOK, queueVars
  <2>2. WorkerOK'
    BY <1>3 DEF Select, Goto, WorkerOK, TypeOK, Copying
  <2>3. RowOK' /\ ReportOK'
    BY <1>3 DEF Select, RowOK, ReportOK, queueVars
  <2> QED BY <2>4, <2>2, <2>3
<1>4. CASE Call(w)
  <2>1. calls' \in [Tasks -> Seq(Providers)]
    <3>1. PICK p \in prov[w] :
            calls' = [calls EXCEPT ![stream[cur[w]]] = Append(@, p)]
      BY <1>4 DEF Call
    <3> QED BY <1>2, <3>1 DEF TypeOK
  <2>2. TypeOK'
    BY <1>1, <1>4, <2>1 DEF Call, Goto, TypeOK, WorkerSteps, queueVars
  <2>3. WorkerOK'
    BY <1>4 DEF Call, Goto, WorkerOK, TypeOK, Copying
  <2>4. RowOK' /\ ReportOK'
    BY <1>4 DEF Call, RowOK, ReportOK, queueVars
  <2> QED BY <2>2, <2>3, <2>4
<1>5. CASE Record(w)
  <2>1. [msg |-> cur[w], via |-> prov[w]] \in [msg : 1 .. cursor, via : SUBSET Providers]
    BY <1>1 DEF TypeOK
  <2>2. /\ logs' \subseteq [msg : 1 .. cursor, via : SUBSET Providers]
        /\ faults' \in 0 .. MaxFaults
    BY <1>5, <2>1, BoundsAssumption DEF Record, Fault, TypeOK
  <2>3. pc' \in [Workers -> WorkerSteps]
    BY <1>5 DEF Record, Goto, TypeOK, WorkerSteps
  <2>4. UNCHANGED <<db, api, queueVars, batch, cur, snap, prov, failing, timers,
                    accepted, report, scan, calls>>
    BY <1>5 DEF Record
  <2>5. TypeOK'
    BY <2>2, <2>3, <2>4 DEF TypeOK, queueVars
  <2>6. WorkerOK'
    BY <1>5 DEF Record, Goto, WorkerOK, TypeOK, Copying
  <2>7. RowOK' /\ ReportOK'
    BY <2>4 DEF RowOK, ReportOK, queueVars
  <2> QED BY <2>5, <2>6, <2>7
<1>6. CASE Dead(w)
  <2>1. dlq' \subseteq 1 .. cursor /\ faults' \in 0 .. MaxFaults
    <3>1. CASE dlq' = dlq \cup {cur[w]} /\ UNCHANGED faults
      BY <1>1, <3>1 DEF TypeOK
    <3>2. CASE Fault /\ UNCHANGED dlq
      BY <3>2, BoundsAssumption DEF Fault, TypeOK
    <3> QED BY <1>6, <3>1, <3>2 DEF Dead
  <2>2. pc' \in [Workers -> WorkerSteps]
    BY <1>6 DEF Dead, Goto, TypeOK, WorkerSteps
  <2>3. UNCHANGED <<db, api, stream, cursor, pel, batch, cur, snap, prov, failing,
                    timers, accepted, logs, report, scan, calls>>
    BY <1>6 DEF Dead
  <2>4. TypeOK'
    BY <2>1, <2>2, <2>3 DEF TypeOK
  <2>5. WorkerOK'
    BY <1>6 DEF Dead, Goto, WorkerOK, TypeOK, Copying
  <2>6. RowOK' /\ ReportOK'
    BY <2>3 DEF RowOK, ReportOK
  <2> QED BY <2>4, <2>5, <2>6
<1> QED BY <1>3, <1>4, <1>5, <1>6

\* A worker is done with an entry, or dies with all it held.
LEMMA TypeFinish ==
  ASSUME TypeInv, NEW w \in Workers, Ack(w) \/ WorkerCrash(w)
  PROVE  TypeInv'
<1> USE DEF TypeInv
<1>1. PICK rest \in SUBSET batch[w] : Finish(w, rest)
  BY DEF Ack, WorkerCrash
<1>2. /\ UNCHANGED <<db, api, stream, cursor, dlq, timers, accepted, logs,
                     report, scan, calls>>
      /\ pel' \subseteq pel
      /\ faults' \in 0 .. MaxFaults
  BY BoundsAssumption DEF Ack, WorkerCrash, Fault, TypeOK, queueVars
<1>3. TypeOK'
  BY <1>1, <1>2 DEF Finish, Goto, TypeOK, WorkerSteps
<1>4. WorkerOK'
  BY <1>1, <1>2 DEF Finish, Goto, WorkerOK, TypeOK, Copying
<1>5. RowOK' /\ ReportOK'
  BY <1>2 DEF RowOK, ReportOK
<1> QED BY <1>3, <1>4, <1>5

\* A sleeping goroutine pushes its task, or does not live to do so.
LEMMA TypeTimer ==
  ASSUME TypeInv, NEW x \in timers, Fire(x) \/ TimerLost(x)
  PROVE  TypeInv'
<1> USE DEF TypeInv
<1>1. x.task \in Tasks /\ db[x.task] # NoRow
  BY DEF TypeOK, RowOK
<1>2. CASE Fire(x)
  <2>1. stream' = Append(stream, x.task)
    BY <1>2 DEF Fire
  <2>2. TypeOK'
    BY <1>1, <1>2, <2>1, StreamGrows DEF Fire, TypeOK, workerVars
  <2>3. WorkerOK' /\ ReportOK'
    BY <1>2 DEF Fire, WorkerOK, ReportOK, workerVars
  <2>4. RowOK'
    BY <1>1, <1>2, <2>1, StreamGrows DEF Fire, RowOK, TypeOK
  <2> QED BY <2>2, <2>3, <2>4
<1>3. CASE TimerLost(x)
  <2>1. TypeOK'
    BY <1>3, BoundsAssumption DEF TimerLost, Fault, TypeOK, workerVars, queueVars
  <2>2. WorkerOK' /\ ReportOK' /\ RowOK'
    BY <1>3 DEF TimerLost, WorkerOK, ReportOK, RowOK, workerVars, queueVars
  <2> QED BY <2>1, <2>2
<1> QED BY <1>2, <1>3

\* The handler of a report.
LEMMA TypeCallback ==
  ASSUME TypeInv, NEW c \in Reports, Callback(c)
  PROVE  TypeInv'
<1> USE DEF TypeInv
<1>1. report[c] \in ReportState
  BY DEF TypeOK
<1>2. CASE Arrive(c)
  <2>1. PICK d \in accepted, v \in Verdicts :
          report' = [report EXCEPT ![c].pc = "find", ![c].msg = d, ![c].verdict = v]
    BY <1>2 DEF Arrive
  <2>2. d \in 1 .. cursor /\ d \in Nat
    BY DEF TypeOK
  <2>3. [report[c] EXCEPT !.pc = "find", !.msg = d, !.verdict = v] \in ReportState
    BY <1>1, <2>2 DEF ReportState
  <2>4. TypeOK'
    BY <1>2, <2>1, <2>3 DEF Arrive, TypeOK, workerVars, queueVars
  <2>5. WorkerOK' /\ RowOK'
    BY <1>2 DEF Arrive, WorkerOK, RowOK, workerVars, queueVars
  <2>6. ReportOK'
    BY <1>2, <2>1, <2>2, <1>1 DEF Arrive, ReportOK, TypeOK, ReportState, queueVars
  <2> QED BY <2>4, <2>5, <2>6
<1>3. CASE Find(c)
  <2>1. report[c].msg \in 1 .. Len(stream) /\ report[c].msg \in 1 .. cursor
    BY <1>3 DEF Find, ReportOK, TypeOK
  <2>2. db[stream[report[c].msg]] \in Rows
    BY <2>1 DEF TypeOK, RowOK
  <2>3. /\ report' \in [Reports -> ReportState]
        /\ \A e \in Reports \ {c} : report'[e] = report[e]
        /\ report'[c].msg = report[c].msg
        /\ report'[c].pc = "apply" => report'[c].row \in Rows
    <3>1. CASE \E l \in logs : report' = [report EXCEPT ![c].pc = "apply",
                 ![c].row = db[stream[report[c].msg]], ![c].via = l.via]
      <4>1. PICK l \in logs : report' = [report EXCEPT ![c].pc = "apply",
                 ![c].row = db[stream[report[c].msg]], ![c].via = l.via]
        BY <3>1
      <4>2. l.via \in SUBSET Providers
        BY DEF TypeOK
      <4>3. [report[c] EXCEPT !.pc = "apply", !.row = db[stream[report[c].msg]],
                              !.via = l.via] \in ReportState
        BY <1>1, <2>2, <4>2 DEF ReportState
      <4> QED BY <1>1, <2>2, <4>1, <4>3 DEF TypeOK, ReportState
    <3>2. CASE report' = [report EXCEPT ![c].pc = "end"]
      <4>1. [report[c] EXCEPT !.pc = "end"] \in ReportState
        BY <1>1 DEF ReportState
      <4> QED BY <1>1, <3>2, <4>1 DEF TypeOK, ReportState
    <3> QED BY <1>3, <3>1, <3>2 DEF Find
  <2>4. faults' \in 0 .. MaxFaults
    BY <1>3, BoundsAssumption DEF Find, Fault, TypeOK
  <2>5. TypeOK'
    BY <1>3, <2>3, <2>4 DEF Find, TypeOK, workerVars, queueVars
  <2>6. WorkerOK' /\ RowOK'
    BY <1>3 DEF Find, WorkerOK, RowOK, workerVars, queueVars
  <2>7. ReportOK'
    BY <1>3, <2>1, <2>3 DEF Find, ReportOK, queueVars
  <2> QED BY <2>5, <2>6, <2>7
<1>4. CASE Apply(c)
  <2> DEFINE r   == report[c]
             t   == stream[r.msg]
             row == [r.row EXCEPT !.cb = r.verdict]
  <2>1. r.msg \in 1 .. Len(stream) /\ r.row \in Rows
    BY <1>4 DEF Apply, ReportOK, TypeOK
  <2>2. t \in Tasks /\ db[t] # NoRow
    BY <2>1 DEF TypeOK, RowOK
  <2>3. r.verdict \in Verdicts /\ r.via \in SUBSET Providers
    BY <1>1 DEF ReportState
  <2>4. row \in Rows /\ [row EXCEPT !.status = "success"] \in Rows
    BY <2>1, <2>3 DEF Rows, Statuses, Verdicts
  <2>5. \A a : Outcome(a, row, r.via) \in Rows
    BY <2>3, <2>4, OutcomeIsRow
  <2>6. /\ \/ Save(t, [row EXCEPT !.status = "success"])
           \/ \E a : Save(t, Outcome(a, row, r.via))
        /\ timers' \subseteq timers \cup {[src |-> c, task |-> t]}
        /\ report' = [report EXCEPT ![c].pc = "end", ![c].row = NoRow]
        /\ UNCHANGED <<api, queueVars, workerVars, accepted, logs, scan, calls>>
    BY <1>4 DEF Apply, Execute
  <2> HIDE DEF r, t, row
  <2>7. /\ db' \in [Tasks -> Rows \cup {NoRow}]
        /\ faults' \in 0 .. MaxFaults
        /\ \A u \in Tasks : db'[u] = NoRow <=> db[u] = NoRow
    BY <2>2, <2>4, <2>5, <2>6, SaveTyped
  <2>8. [report[c] EXCEPT !.pc = "end", !.row = NoRow] \in ReportState
    BY <1>1 DEF ReportState
  <2>9. timers' \subseteq [src : Nat \cup Reports, task : Tasks]
    BY <2>2, <2>6 DEF TypeOK
  <2>10. TypeOK'
    BY <2>6, <2>7, <2>8, <2>9 DEF TypeOK, workerVars, queueVars
  <2>11. WorkerOK'
    BY <2>6 DEF WorkerOK, workerVars
  <2>12. RowOK'
    BY <2>2, <2>6, <2>7 DEF RowOK, TypeOK, queueVars
  <2>13. ReportOK'
    BY <1>1, <2>6 DEF ReportOK, TypeOK, ReportState, queueVars
  <2> QED BY <2>10, <2>11, <2>12, <2>13
<1>5. CASE ReportCrash(c)
  <2>1. [report[c] EXCEPT !.pc = "end", !.row = NoRow] \in ReportState
    BY <1>1 DEF ReportState
  <2>2. TypeOK'
    BY <1>5, <2>1, BoundsAssumption
    DEF ReportCrash, Fault, TypeOK, workerVars, queueVars
  <2>3. WorkerOK' /\ RowOK'
    BY <1>5 DEF ReportCrash, WorkerOK, RowOK, workerVars, queueVars
  <2>4. ReportOK'
    BY <1>1, <1>5 DEF ReportCrash, ReportOK, TypeOK, ReportState, queueVars
  <2> QED BY <2>2, <2>3, <2>4
<1> QED BY <1>2, <1>3, <1>4, <1>5 DEF Callback

\* The timeout scanner.
LEMMA TypeScanner ==
  ASSUME TypeInv, Scanner
  PROVE  TypeInv'
<1> USE DEF TypeInv
<1>1. CASE Scan \/ ScannerCrash
  <2>1. scan' \in [Tasks -> Rows \cup {NoRow}] /\ faults' \in 0 .. MaxFaults
    BY <1>1, BoundsAssumption DEF Scan, ScannerCrash, Fault, TypeOK
  <2>2. UNCHANGED <<db, api, queueVars, workerVars, timers, accepted, logs,
                    report, calls>>
    BY <1>1 DEF Scan, ScannerCrash
  <2>3. TypeOK'
    BY <2>1, <2>2 DEF TypeOK, workerVars, queueVars
  <2>4. WorkerOK' /\ ReportOK'
    BY <2>2 DEF WorkerOK, ReportOK, workerVars, queueVars
  <2>5. \A t \in Tasks : scan'[t] # NoRow => db[t] # NoRow
    BY <1>1 DEF Scan, ScannerCrash, HasStatus
  <2>6. RowOK'
    BY <2>2, <2>5 DEF RowOK, queueVars
  <2> QED BY <2>3, <2>4, <2>6
<1>2. ASSUME NEW t \in Tasks, TimeOut(t), db[t] # NoRow
      PROVE  TypeInv'
  <2>1. scan[t] \in Rows
    BY <1>2 DEF TimeOut, TypeOK
  <2>2. [scan[t] EXCEPT !.cb = "timeout"] \in Rows
    BY <2>1 DEF Rows
  <2>3. /\ db' \in [Tasks -> Rows \cup {NoRow}]
        /\ faults' \in 0 .. MaxFaults
        /\ \A u \in Tasks : db'[u] = NoRow <=> db[u] = NoRow
    BY <1>2, <2>2, SaveTyped DEF TimeOut
  <2>4. TypeOK'
    BY <1>2, <2>3 DEF TimeOut, TypeOK, workerVars, queueVars
  <2>5. WorkerOK' /\ ReportOK'
    BY <1>2 DEF TimeOut, WorkerOK, ReportOK, workerVars, queueVars
  <2>6. RowOK'
    BY <1>2, <2>3 DEF TimeOut, RowOK, TypeOK, queueVars
  <2> QED BY <2>4, <2>5, <2>6
<1>3. \A t \in Tasks : scan[t] # NoRow => db[t] # NoRow
  BY DEF RowOK
<1> QED BY <1>1, <1>2, <1>3 DEF Scanner, TimeOut

\* Every step keeps it.
LEMMA TypeStep == TypeInv /\ [Next]_vars => TypeInv'
<1> SUFFICES ASSUME TypeInv, [Next]_vars PROVE TypeInv'
  OBVIOUS
<1>1. ASSUME NEW t \in Tasks, Api(t) PROVE TypeInv'
  BY <1>1, TypeApi
<1>2. ASSUME NEW w \in Workers, Worker(w) PROVE TypeInv'
  BY <1>2, TypeRead, TypeLoad, TypeWorkerSave, TypeWorkerOther, TypeFinish
  DEF Worker, Handle
<1>3. ASSUME NEW x \in timers, Fire(x) \/ TimerLost(x) PROVE TypeInv'
  BY <1>3, TypeTimer
<1>4. ASSUME NEW c \in Reports, Callback(c) PROVE TypeInv'
  BY <1>4, TypeCallback
<1>5. CASE Scanner
  BY <1>5, TypeScanner
<1>6. CASE UNCHANGED vars
  BY <1>6 DEF vars, TypeInv, TypeOK, WorkerOK, RowOK, ReportOK
<1> QED BY <1>1, <1>2, <1>3, <1>4, <1>5, <1>6 DEF Next

\* Every variable keeps its type and every worker, request and report handler
\* only follows entries and rows that exist: no step of the code looks at a row
\* that was never inserted.
THEOREM TypeCorrect == Spec => []TypeOK
<1>1. Spec => []TypeInv
  BY TypeInit, TypeStep, PTL DEF Spec
<1>2. TypeInv => TypeOK
  BY DEF TypeInv
<1> QED BY <1>1, <1>2, PTL

-----------------------------------------------------------------------------
(* One chain: a request, the stream, the workers and the retry goroutines   *)
(* hand one token of each task from one to the next. The rules for          *)
(* callbacks are assumed not to push a task again, which is their default   *)
(* and what makes the token unique.                                         *)

\* OneChain, kind of token by kind of token: two unread entries, two entries in
\* hand, two goroutines; then each kind against the others.
Chain ==
  /\ \A d, e \in 1 .. Len(stream) :
       d > cursor /\ e > cursor /\ stream[d] = stream[e] => d = e
  /\ \A v, w \in Workers : \A d, e \in 1 .. cursor :
       InHand(v, d) /\ InHand(w, e) /\ stream[d] = stream[e] => v = w /\ d = e
  /\ \A x, y \in timers : x.task = y.task => x = y
  /\ \A d \in 1 .. Len(stream), w \in Workers, e \in 1 .. cursor :
       d > cursor /\ InHand(w, e) => stream[d] # stream[e]
  /\ \A d \in 1 .. Len(stream), x \in timers : d > cursor => stream[d] # x.task
  /\ \A w \in Workers, e \in 1 .. cursor, x \in timers :
       InHand(w, e) => stream[e] # x.task
  /\ \A t \in Tasks : api[t] = "push" =>
       /\ \A d \in 1 .. Len(stream) : d > cursor => stream[d] # t
       /\ \A w \in Workers, e \in 1 .. cursor : InHand(w, e) => stream[e] # t
       /\ \A x \in timers : x.task # t

\* The chain says what OneChain says.
LEMMA ChainIsOneChain == TypeOK /\ Chain => OneChain
<1> SUFFICES ASSUME TypeOK, Chain, NEW t \in Tasks,
                    NEW x \in Tokens(t), NEW y \in Tokens(t)
             PROVE  x = y
  BY DEF OneChain
<1> DEFINE Kind(z) ==
      \/ z = <<"request", t>> /\ api[t] = "push"
      \/ \E d \in 1 .. Len(stream) :
           z = <<"unread", d>> /\ d > cursor /\ stream[d] = t
      \/ \E w \in Workers, e \in 1 .. cursor :
           z = <<"held", <<w, e>>>> /\ InHand(w, e) /\ stream[e] = t
      \/ \E s \in timers : z = <<"sleeping", s>> /\ s.task = t
<1>1. \A z \in Tokens(t) : Kind(z)
  BY DEF Tokens, Requests, Unread, Held, Sleeping
<1>2. Kind(x) /\ Kind(y)
  BY <1>1
<1>3. CASE api[t] = "push"
  BY <1>2, <1>3 DEF Chain
<1>4. CASE api[t] # "push"
  BY <1>2, <1>4 DEF Chain
<1> QED BY <1>3, <1>4

\* A step that moves neither the stream nor the cursor and adds no token.
LEMMA ChainShrinks ==
  ASSUME TypeInv, Chain, UNCHANGED <<stream, cursor>>, timers' \subseteq timers,
         \A t \in Tasks : api'[t] = "push" => api[t] = "push",
         \A w \in Workers, e \in 1 .. cursor : InHand(w, e)' => InHand(w, e)
  PROVE  Chain'
BY DEF Chain

\* A push hands the token of t to the new entry.
LEMMA ChainPushes ==
  ASSUME TypeInv, Chain, NEW t \in Tasks, stream' = Append(stream, t),
         UNCHANGED <<cursor, batch, cur, pc>>,
         timers' \subseteq timers,
         \A u \in Tasks : api'[u] = "push" => api[u] = "push" /\ u # t,
         \A d \in 1 .. Len(stream) : d > cursor => stream[d] # t,
         \A w \in Workers, e \in 1 .. cursor : InHand(w, e) => stream[e] # t,
         \A x \in timers' : x.task # t
  PROVE  Chain'
<1>1. /\ Len(stream') = Len(stream) + 1
      /\ \A i \in 1 .. Len(stream') :
           stream'[i] = IF i <= Len(stream) THEN stream[i] ELSE t
  BY StreamGrows DEF TypeInv, TypeOK
<1>2. cursor \in 0 .. Len(stream) /\ Len(stream) \in Nat
  BY DEF TypeInv, TypeOK
<1>3. \A w \in Workers : \A e : InHand(w, e)' <=> InHand(w, e)
  BY DEF InHand
<1>4. \A e \in 1 .. cursor : e \in 1 .. Len(stream) /\ stream'[e] = stream[e]
  BY <1>1, <1>2
<1>5. \A d \in 1 .. Len(stream') :
        \/ d \in 1 .. Len(stream) /\ stream'[d] = stream[d]
        \/ d = Len(stream) + 1 /\ stream'[d] = t
  BY <1>1, <1>2
<1>6. \A d, e \in 1 .. Len(stream') :
        d > cursor' /\ e > cursor' /\ stream'[d] = stream'[e] => d = e
  BY <1>2, <1>5 DEF Chain
<1>7. \A v, w \in Workers : \A d, e \in 1 .. cursor' :
        InHand(v, d)' /\ InHand(w, e)' /\ stream'[d] = stream'[e] => v = w /\ d = e
  BY <1>3, <1>4 DEF Chain
<1>8. \A d \in 1 .. Len(stream'), w \in Workers, e \in 1 .. cursor' :
        d > cursor' /\ InHand(w, e)' => stream'[d] # stream'[e]
  BY <1>3, <1>4, <1>5 DEF Chain
<1>9. \A d \in 1 .. Len(stream'), x \in timers' :
        d > cursor' => stream'[d] # x.task
  BY <1>5 DEF Chain
<1>10. \A w \in Workers, e \in 1 .. cursor', x \in timers' :
        InHand(w, e)' => stream'[e] # x.task
  BY <1>3, <1>4 DEF Chain
<1>11. \A u \in Tasks : api'[u] = "push" =>
        /\ \A d \in 1 .. Len(stream') : d > cursor' => stream'[d] # u
        /\ \A w \in Workers, e \in 1 .. cursor' : InHand(w, e)' => stream'[e] # u
        /\ \A x \in timers' : x.task # u
  BY <1>3, <1>4, <1>5 DEF Chain
<1> QED BY <1>6, <1>7, <1>8, <1>9, <1>10, <1>11 DEF Chain

\* Nothing carries a task before its row exists.
LEMMA ChainApi ==
  ASSUME TypeInv, Chain, NEW t \in Tasks, Api(t)
  PROVE  Chain'
<1>1. CASE Create(t)
  <2>1. /\ UNCHANGED <<stream, cursor, batch, cur, pc, timers>>
        /\ \A u \in Tasks : api'[u] = "push" => api[u] = "push" \/ u = t
    BY <1>1 DEF Create, TypeInv, TypeOK, queueVars, workerVars
  <2>2. db[t] = NoRow
    BY <1>1 DEF Create, TypeInv, RowOK
  <2>3. /\ \A d \in 1 .. Len(stream) : stream[d] # t
        /\ \A e \in 1 .. cursor : stream[e] # t
        /\ \A x \in timers : x.task # t
    BY <2>2 DEF TypeInv, TypeOK, RowOK
  <2>4. \A w \in Workers : \A e : InHand(w, e)' <=> InHand(w, e)
    BY <2>1 DEF InHand
  <2> QED BY <2>1, <2>3, <2>4 DEF Chain
<1>2. CASE Push(t)
  <2>1. /\ stream' = Append(stream, t)
        /\ UNCHANGED <<cursor, batch, cur, pc, timers>>
        /\ \A u \in Tasks : api'[u] = "push" => api[u] = "push" /\ u # t
    BY <1>2 DEF Push, TypeInv, TypeOK, workerVars
  <2> QED BY <1>2, <2>1, ChainPushes DEF Push, Chain
<1>3. CASE PushFails(t)
  <2>1. /\ UNCHANGED <<cursor, batch, cur, pc, timers>>
        /\ \A u \in Tasks : api'[u] = "push" => api[u] = "push" /\ u # t
    BY <1>3 DEF PushFails, TypeInv, TypeOK, workerVars
  <2>2. CASE stream' = Append(stream, t)
    BY <1>3, <2>1, <2>2, ChainPushes DEF PushFails, Chain
  <2>3. CASE stream' = stream
    BY <2>1, <2>3, ChainShrinks DEF InHand
  <2> QED BY <1>3, <2>2, <2>3 DEF PushFails
<1>4. CASE Revert(t) \/ ApiCrash(t)
  <2>1. /\ UNCHANGED <<stream, cursor, batch, cur, pc, timers>>
        /\ \A u \in Tasks : api'[u] = "push" => api[u] = "push"
    BY <1>4 DEF Revert, ApiCrash, TypeInv, TypeOK, queueVars, workerVars
  <2> QED BY <2>1, ChainShrinks DEF InHand
<1> QED BY <1>1, <1>2, <1>3, <1>4 DEF Api

\* A read hands the tokens of the entries it fetches to one worker; a lost
\* reply drops them.
LEMMA ChainRead ==
  ASSUME TypeInv, Chain, NEW w \in Workers, Read(w) \/ ReadLost(w)
  PROVE  Chain'
<1>1. cursor < Len(stream)
  BY DEF Read, ReadLost
<1>2. /\ LastFetched \in (cursor + 1) .. Len(stream)
      /\ cursor' = LastFetched
      /\ UNCHANGED <<stream, timers, api, cur>>
      /\ cursor \in Nat /\ Len(stream) \in Nat
  BY <1>1, CursorMoves DEF Read, ReadLost, TypeInv, TypeOK, workerVars
<1>3. \A v \in Workers, e \in 1 .. cursor' :
        InHand(v, e)' =>
          \/ e \in 1 .. cursor /\ InHand(v, e)
          \/ v = w /\ e > cursor
  <2> SUFFICES ASSUME NEW v \in Workers, NEW e \in 1 .. cursor', InHand(v, e)'
               PROVE  \/ e \in 1 .. cursor /\ InHand(v, e)
                      \/ v = w /\ e > cursor
    OBVIOUS
  <2>1. CASE Read(w) /\ v = w
    <3>1. e \in Fetched
      BY <2>1 DEF Read, InHand, TypeInv, TypeOK
    <3> QED BY <1>2, <2>1, <3>1 DEF Fetched
  <2>2. CASE ~(Read(w) /\ v = w)
    <3>1. batch'[v] = batch[v] /\ pc'[v] = pc[v] /\ cur'[v] = cur[v]
      BY <2>2 DEF Read, ReadLost, Goto, TypeInv, TypeOK, workerVars
    <3>2. InHand(v, e)
      BY <3>1 DEF InHand
    <3>3. e \in 1 .. cursor
      BY <3>2 DEF InHand, TypeInv, TypeOK
    <3> QED BY <3>2, <3>3
  <2> QED BY <2>1, <2>2
<1>4. \A d \in 1 .. Len(stream) : d > cursor' => d > cursor
  BY <1>2
<1>5. \A e \in 1 .. cursor' : e \in 1 .. Len(stream)
  BY <1>2
<1>6. \A v, u \in Workers : \A d, e \in 1 .. cursor' :
        InHand(v, d)' /\ InHand(u, e)' /\ stream[d] = stream[e] => v = u /\ d = e
  BY <1>3, <1>5 DEF Chain
<1>7. \A d \in 1 .. Len(stream), v \in Workers, e \in 1 .. cursor' :
        d > cursor' /\ InHand(v, e)' => stream[d] # stream[e]
  <2> SUFFICES ASSUME NEW d \in 1 .. Len(stream), NEW v \in Workers,
                      NEW e \in 1 .. cursor', d > cursor', InHand(v, e)',
                      stream[d] = stream[e]
               PROVE  FALSE
    OBVIOUS
  <2>1. d > cursor /\ d # e
    BY <1>2
  <2> QED BY <1>3, <1>5, <2>1 DEF Chain
<1>8. \A v \in Workers, e \in 1 .. cursor', x \in timers :
        InHand(v, e)' => stream[e] # x.task
  BY <1>3, <1>5 DEF Chain
<1>9. \A t \in Tasks : api[t] = "push" =>
        /\ \A d \in 1 .. Len(stream) : d > cursor' => stream[d] # t
        /\ \A v \in Workers, e \in 1 .. cursor' : InHand(v, e)' => stream[e] # t
        /\ \A x \in timers : x.task # t
  BY <1>3, <1>4, <1>5 DEF Chain
<1> QED BY <1>2, <1>4, <1>6, <1>7, <1>8, <1>9 DEF Chain

\* A refused send hands the token to the goroutine, or ends the task.
LEMMA ChainEvaluate ==
  ASSUME TypeInv, Chain, NEW w \in Workers, Evaluate(w)
  PROVE  Chain'
<1> DEFINE d == cur[w]
           t == stream[d]
           x == [src |-> d, task |-> t]
<1>1. pc[w] = "evaluate"
  BY DEF Evaluate
<1>2. d \in batch[w] /\ d \in 1 .. cursor /\ d \in 1 .. Len(stream) /\ t \in Tasks
  BY <1>1, Busy
<1>3. InHand(w, d)
  BY <1>1, <1>2 DEF InHand
<1>4. /\ UNCHANGED <<stream, cursor, api, batch, cur>>
      /\ timers' \subseteq timers \cup {x}
      /\ pc'[w] \in {"dead", "ack"}
      /\ \A v \in Workers \ {w} : pc'[v] = pc[v]
  BY DEF Evaluate, Execute, Goto, TypeInv, TypeOK, queueVars
<1>5. x.task = t
  OBVIOUS
<1> HIDE DEF x, t
<1>6. \A v \in Workers, e \in 1 .. cursor :
        InHand(v, e)' => InHand(v, e) /\ stream[e] # t
  <2> SUFFICES ASSUME NEW v \in Workers, NEW e \in 1 .. cursor, InHand(v, e)'
               PROVE  InHand(v, e) /\ stream[e] # t
    OBVIOUS
  <2>1. InHand(v, e) /\ ~(v = w /\ e = d)
    BY <1>1, <1>4 DEF InHand
  <2> QED BY <1>2, <1>3, <2>1 DEF Chain, t
<1>7. /\ \A e \in 1 .. Len(stream) : e > cursor => stream[e] # t
      /\ \A y \in timers : y.task # t
      /\ api[t] # "push"
  BY <1>2, <1>3 DEF Chain, t
<1>8. \A y, z \in timers' : y.task = z.task => y = z
  BY <1>4, <1>5, <1>7 DEF Chain
<1>9. \A e \in 1 .. Len(stream), y \in timers' : e > cursor => stream[e] # y.task
  BY <1>4, <1>5, <1>7 DEF Chain
<1>10. \A v \in Workers, e \in 1 .. cursor, y \in timers' :
         InHand(v, e)' => stream[e] # y.task
  BY <1>4, <1>5, <1>6 DEF Chain
<1>11. \A u \in Tasks : api[u] = "push" => \A y \in timers' : y.task # u
  BY <1>4, <1>5, <1>7 DEF Chain
<1> QED BY <1>4, <1>6, <1>8, <1>9, <1>10, <1>11 DEF Chain

\* The other steps of a worker keep what it has in hand, or drop some of it.
LEMMA ChainWorker ==
  ASSUME TypeInv, Chain, NEW w \in Workers, Worker(w)
  PROVE  Chain'
<1>1. CASE Read(w) \/ ReadLost(w)
  BY <1>1, ChainRead
<1>2. CASE Evaluate(w)
  BY <1>2, ChainEvaluate
<1>3. CASE Load(w)
  <2>1. /\ UNCHANGED <<stream, cursor, timers, api, batch>>
        /\ cur[w] = 0
        /\ \A v \in Workers \ {w} : cur'[v] = cur[v] /\ pc'[v] = pc[v]
    BY <1>3 DEF Load, Goto, TypeInv, TypeOK, WorkerOK, queueVars
  <2>2. \A v \in Workers, e \in 1 .. cursor : InHand(v, e)' => InHand(v, e)
    BY <2>1 DEF InHand
  <2> QED BY <2>1, <2>2, ChainShrinks
<1>4. CASE Mark(w) \/ Select(w) \/ Call(w) \/ Succeed(w) \/ Record(w) \/ Abort(w) \/ Dead(w)
  <2>1. /\ UNCHANGED <<stream, cursor, timers, api, batch, cur>>
        /\ \A v \in Workers \ {w} : pc'[v] = pc[v]
        /\ pc'[w] \notin {"record", "dead", "ack"} =>
             pc[w] \notin {"record", "dead", "ack"}
    BY <1>4 DEF Mark, Select, Call, Succeed, Record, Abort, Dead, Goto, TypeInv,
                TypeOK, queueVars
  <2>2. \A v \in Workers, e \in 1 .. cursor : InHand(v, e)' => InHand(v, e)
    BY <2>1 DEF InHand
  <2> QED BY <2>1, <2>2, ChainShrinks
<1>5. CASE Ack(w) \/ WorkerCrash(w)
  <2>1. PICK rest \in SUBSET (batch[w] \ {cur[w]}) : Finish(w, rest)
    BY <1>5 DEF Ack, WorkerCrash
  <2>2. UNCHANGED <<stream, cursor, timers, api>>
    BY <1>5 DEF Ack, WorkerCrash, queueVars
  <2>3. \A v \in Workers, e \in 1 .. cursor : InHand(v, e)' => InHand(v, e)
    BY <2>1 DEF Finish, Goto, InHand, TypeInv, TypeOK
  <2> QED BY <2>2, <2>3, ChainShrinks
<1> QED BY <1>1, <1>2, <1>3, <1>4, <1>5 DEF Worker, Handle

\* A goroutine hands its token to the entry it pushes.
LEMMA ChainTimer ==
  ASSUME TypeInv, Chain, NEW x \in timers, Fire(x) \/ TimerLost(x)
  PROVE  Chain'
<1>1. CASE Fire(x)
  <2>1. x.task \in Tasks
    BY DEF TypeInv, TypeOK
  <2>2. /\ stream' = Append(stream, x.task)
        /\ UNCHANGED <<cursor, batch, cur, pc, api>>
        /\ timers' = timers \ {x}
    BY <1>1 DEF Fire, workerVars
  <2>3. \A y \in timers' : y.task # x.task
    BY <2>2 DEF Chain
  <2>4. /\ \A d \in 1 .. Len(stream) : d > cursor => stream[d] # x.task
        /\ \A w \in Workers, e \in 1 .. cursor : InHand(w, e) => stream[e] # x.task
        /\ api[x.task] # "push"
    BY <2>1 DEF Chain
  <2>5. timers' \subseteq timers /\ \A u \in Tasks : api'[u] = "push" => api[u] = "push" /\ u # x.task
    BY <2>2, <2>4
  <2> QED BY <2>1, <2>2, <2>3, <2>4, <2>5, ChainPushes
<1>2. CASE TimerLost(x)
  <2>1. /\ UNCHANGED <<stream, cursor, batch, cur, pc, api>>
        /\ timers' \subseteq timers
    BY <1>2 DEF TimerLost, workerVars, queueVars
  <2> QED BY <2>1, ChainShrinks DEF InHand
<1> QED BY <1>1, <1>2

\* Every step keeps the chain.
LEMMA ChainStep ==
  ASSUME CallbackActions \cap Requeueing = {}
  PROVE  TypeInv /\ Chain /\ [Next]_vars => Chain'
<1> SUFFICES ASSUME TypeInv, Chain, [Next]_vars PROVE Chain'
  OBVIOUS
<1>1. ASSUME NEW t \in Tasks, Api(t) PROVE Chain'
  BY <1>1, ChainApi
<1>2. ASSUME NEW w \in Workers, Worker(w) PROVE Chain'
  BY <1>2, ChainWorker
<1>3. ASSUME NEW x \in timers, Fire(x) \/ TimerLost(x) PROVE Chain'
  BY <1>3, ChainTimer
<1>4. ASSUME NEW c \in Reports, Callback(c) PROVE Chain'
  <2>1. UNCHANGED <<stream, cursor, batch, cur, pc, api, timers>>
    <3>1. \A a \in CallbackActions : \A row : ~Requeues(a, row)
      BY DEF Requeues
    <3> QED BY <1>4, <3>1 DEF Callback, Arrive, Find, Apply, ReportCrash,
                            Execute, workerVars, queueVars
  <2> QED BY <2>1, ChainShrinks DEF InHand
<1>5. CASE Scanner
  <2>1. UNCHANGED <<stream, cursor, batch, cur, pc, api, timers>>
    BY <1>5 DEF Scanner, Scan, ScannerCrash, TimeOut, workerVars, queueVars
  <2> QED BY <2>1, ChainShrinks DEF InHand
<1>6. CASE UNCHANGED vars
  BY <1>6, ChainShrinks DEF vars, InHand
<1> QED BY <1>1, <1>2, <1>3, <1>4, <1>5, <1>6 DEF Next

\* So it holds for ever.
LEMMA ChainInvariant ==
  ASSUME CallbackActions \cap Requeueing = {}
  PROVE  Spec => [](TypeInv /\ Chain)
<1>1. Init => TypeInv /\ Chain
  <2>1. Init => TypeInv
    BY TypeInit
  <2>2. Init => Chain
    BY DEF Init, Chain, InHand
  <2> QED BY <2>1, <2>2
<1>2. TypeInv /\ Chain /\ [Next]_vars => (TypeInv /\ Chain)'
  BY TypeStep, ChainStep
<1> QED BY <1>1, <1>2, PTL DEF Spec

\* Whatever crashes, is lost or is delayed, and however many workers and
\* replicas there are, a task is never on its way twice: no two workers ever
\* handle it at the same time, and it is never queued while it is handled or
\* waits for a retry.
THEOREM OneChainHolds ==
  ASSUME CallbackActions \cap Requeueing = {}
  PROVE  Spec => []OneChain
<1>1. TypeInv /\ Chain => OneChain
  BY ChainIsOneChain DEF TypeInv
<1> QED BY <1>1, ChainInvariant, PTL

-----------------------------------------------------------------------------
(* What keeps a task on its way *)

\* The entry a task is on its way with, in the words of Tokens.
OnWay(t) ==
  \/ api[t] = "push"
  \/ \E d \in 1 .. Len(stream) : d > cursor /\ stream[d] = t
  \/ \E w \in Workers, e \in 1 .. cursor : InHand(w, e) /\ stream[e] = t
  \/ \E x \in timers : x.task = t

\* OnWay says that there is a token.
LEMMA OnWayIsToken ==
  ASSUME NEW t \in Tasks
  PROVE  OnWay(t) <=> Tokens(t) # {}
<1>1. ASSUME api[t] = "push" PROVE Tokens(t) # {}
  <2>1. <<"request", t>> \in Tokens(t)
    BY <1>1 DEF Tokens, Requests
  <2> QED BY <2>1
<1>2. ASSUME NEW d \in 1 .. Len(stream), d > cursor, stream[d] = t
      PROVE  Tokens(t) # {}
  <2>1. <<"unread", d>> \in Tokens(t)
    BY <1>2 DEF Tokens, Unread
  <2> QED BY <2>1
<1>3. ASSUME NEW w \in Workers, NEW e \in 1 .. cursor, InHand(w, e), stream[e] = t
      PROVE  Tokens(t) # {}
  <2>1. <<"held", <<w, e>>>> \in Tokens(t)
    BY <1>3 DEF Tokens, Held
  <2> QED BY <2>1
<1>4. ASSUME NEW x \in timers, x.task = t PROVE Tokens(t) # {}
  <2>1. <<"sleeping", x>> \in Tokens(t)
    BY <1>4 DEF Tokens, Sleeping
  <2> QED BY <2>1
<1>5. ASSUME Tokens(t) # {} PROVE OnWay(t)
  BY <1>5 DEF Tokens, Requests, Unread, Held, Sleeping, OnWay
<1> QED BY <1>1, <1>2, <1>3, <1>4, <1>5 DEF OnWay

\* A step that adds no token.
LEMMA WayShrinks ==
  ASSUME NEW t \in Tasks, OnWay(t)',
         UNCHANGED <<stream, cursor>>, timers' \subseteq timers,
         api'[t] = "push" => api[t] = "push",
         \A w \in Workers, e \in 1 .. cursor : InHand(w, e)' => InHand(w, e)
  PROVE  OnWay(t)
BY DEF OnWay

\* When the worker that has the entry of a task in hand lets go of it, and
\* nothing takes it up, the task is on its way no more.
LEMMA HandGone ==
  ASSUME TypeInv, Chain, NEW w \in Workers, NEW d \in 1 .. cursor,
         NEW t \in Tasks, t = stream[d], InHand(w, d), ~InHand(w, d)',
         UNCHANGED <<stream, cursor, api>>, timers' \subseteq timers,
         \A v \in Workers, e \in 1 .. cursor : InHand(v, e)' => InHand(v, e)
  PROVE  ~OnWay(t)'
<1>1. d \in 1 .. Len(stream) /\ stream[d] \in Tasks
  BY DEF TypeInv, TypeOK
<1> QED BY <1>1 DEF OnWay, Chain

\* The entry whose row a worker works on is in its hand.
LEMMA InTheHand ==
  ASSUME TypeInv, NEW w \in Workers, pc[w] \notin {"read", "load"},
         pc[w] \notin {"record", "dead", "ack"}
  PROVE  /\ InHand(w, cur[w]) /\ OnWay(stream[cur[w]])
         /\ cur[w] \in 1 .. cursor /\ cur[w] \in 1 .. Len(stream)
         /\ stream[cur[w]] \in Tasks /\ db[stream[cur[w]]] \in Rows
<1>1. /\ cur[w] \in batch[w] /\ cur[w] \in 1 .. cursor /\ cur[w] \in 1 .. Len(stream)
      /\ stream[cur[w]] \in Tasks /\ db[stream[cur[w]]] # NoRow
  BY Busy
<1>2. InHand(w, cur[w])
  BY <1>1 DEF InHand
<1> QED BY <1>1, <1>2 DEF OnWay, TypeInv, TypeOK

\* A worker's step from one entry step to another.
LEMMA HandStep ==
  ASSUME TypeInv, NEW w \in Workers,
         Load(w) \/ Mark(w) \/ Select(w) \/ Call(w) \/ Succeed(w) \/ Record(w)
           \/ Evaluate(w) \/ Abort(w) \/ Dead(w) \/ Ack(w) \/ WorkerCrash(w)
  PROVE  /\ UNCHANGED <<stream, cursor, api>>
         /\ \A v \in Workers, e \in 1 .. cursor : InHand(v, e)' => InHand(v, e)
         /\ \A v \in Workers \ {w} : /\ pc'[v] = pc[v] /\ cur'[v] = cur[v]
                                     /\ batch'[v] = batch[v]
<1>1. CASE Load(w)
  <2>1. /\ UNCHANGED <<stream, cursor, timers, api, batch>>
        /\ cur[w] = 0
        /\ \A v \in Workers \ {w} : cur'[v] = cur[v] /\ pc'[v] = pc[v]
    BY <1>1 DEF Load, Goto, TypeInv, TypeOK, WorkerOK, queueVars
  <2>2. \A v \in Workers, e \in 1 .. cursor : InHand(v, e)' => InHand(v, e)
    BY <2>1 DEF InHand
  <2> QED BY <2>1, <2>2
<1>2. CASE Mark(w) \/ Select(w) \/ Call(w) \/ Succeed(w) \/ Record(w) \/ Evaluate(w)
             \/ Abort(w) \/ Dead(w)
  <2>1. /\ UNCHANGED <<stream, cursor, api, batch, cur>>
        /\ \A v \in Workers \ {w} : pc'[v] = pc[v]
        /\ pc'[w] \notin {"record", "dead", "ack"} =>
             pc[w] \notin {"record", "dead", "ack"}
    BY <1>2 DEF Mark, Select, Call, Succeed, Record, Evaluate, Abort, Dead, Goto, TypeInv,
                TypeOK, queueVars
  <2>2. \A v \in Workers, e \in 1 .. cursor : InHand(v, e)' => InHand(v, e)
    BY <2>1 DEF InHand
  <2> QED BY <2>1, <2>2
<1>3. CASE Ack(w) \/ WorkerCrash(w)
  <2>1. PICK rest \in SUBSET (batch[w] \ {cur[w]}) : Finish(w, rest)
    BY <1>3 DEF Ack, WorkerCrash
  <2>2. UNCHANGED <<stream, cursor, timers, api>>
    BY <1>3 DEF Ack, WorkerCrash, queueVars
  <2>3. \A v \in Workers, e \in 1 .. cursor : InHand(v, e)' => InHand(v, e)
    BY <2>1 DEF Finish, Goto, InHand, TypeInv, TypeOK
  <2>4. \A v \in Workers \ {w} : pc'[v] = pc[v] /\ cur'[v] = cur[v] /\ batch'[v] = batch[v]
    BY <2>1 DEF Finish, Goto, TypeInv, TypeOK
  <2> QED BY <2>2, <2>3, <2>4
<1> QED BY <1>1, <1>2, <1>3

\* A push adds an entry after those that were there.
LEMMA Pushed ==
  ASSUME TypeInv, NEW t \in Tasks, stream' = Append(stream, t)
  PROVE  /\ \A d \in 1 .. Len(stream') :
              \/ d \in 1 .. Len(stream) /\ stream'[d] = stream[d]
              \/ d = Len(stream) + 1 /\ stream'[d] = t
         /\ \A e \in 1 .. Len(stream) : e \in 1 .. Len(stream') /\ stream'[e] = stream[e]
         /\ \A e \in 1 .. cursor : e \in 1 .. Len(stream) /\ stream'[e] = stream[e]
<1>1. /\ Len(stream') = Len(stream) + 1
      /\ \A i \in 1 .. Len(stream') :
           stream'[i] = IF i <= Len(stream) THEN stream[i] ELSE t
  BY StreamGrows DEF TypeInv, TypeOK
<1>2. cursor \in 0 .. Len(stream) /\ Len(stream) \in Nat
  BY DEF TypeInv, TypeOK
<1> QED BY <1>1, <1>2

-----------------------------------------------------------------------------
(* What a failure strands *)

\* An open row that nothing will move any more.
Left(t) == HasStatus(t, {"pending", "processing"}) /\ ~OnWay(t) /\ api[t] = "done"

LeftSet == {t \in Tasks : Left(t)}

\* A worker holds the entries of one read at most, and none when it reads; the
\* scanner copies rows that wait for a report; and few rows are left behind.
StrandOK ==
  /\ \A w \in Workers : /\ IsFiniteSet(batch[w])
                        /\ Cardinality(batch[w]) <= BatchSize
                        /\ pc[w] = "read" => batch[w] = {}
  /\ \A t \in Tasks : scan[t] # NoRow => scan[t].status = "sent"
  /\ IsFiniteSet(LeftSet) /\ Cardinality(LeftSet) <= BatchSize * faults

\* A step that takes no token of task t away.
LEMMA WayStays ==
  ASSUME TypeInv, NEW t \in Tasks, OnWay(t), cursor' = cursor,
         api[t] = "push" => api'[t] = "push",
         \A d \in 1 .. Len(stream) : d \in 1 .. Len(stream') /\ stream'[d] = stream[d],
         \A w \in Workers, e \in 1 .. cursor :
           stream[e] = t /\ InHand(w, e) => InHand(w, e)',
         \A x \in timers : x.task = t => x \in timers'
  PROVE  OnWay(t)'
<1>1. \A e \in 1 .. cursor : e \in 1 .. Len(stream)
  BY DEF TypeInv, TypeOK
<1> QED BY <1>1 DEF OnWay

\* One failed access leaves behind at most the entries of one read.
LEMMA FewLeft ==
  ASSUME TypeInv, StrandOK, NEW E, IsFiniteSet(E), Cardinality(E) <= BatchSize,
         \A t \in Tasks : Left(t)' => Left(t) \/ t \in E,
         (E = {} /\ faults' = faults) \/ faults' = faults + 1
  PROVE  IsFiniteSet(LeftSet') /\ Cardinality(LeftSet') <= BatchSize * faults'
<1>1. LeftSet' \subseteq LeftSet \cup E
  BY DEF LeftSet
<1>2. /\ IsFiniteSet(LeftSet \cup E)
      /\ Cardinality(LeftSet \cup E) = Cardinality(LeftSet) + Cardinality(E)
                                         - Cardinality(LeftSet \cap E)
  BY FS_Union DEF StrandOK
<1>3. IsFiniteSet(LeftSet \cap E)
  BY FS_Intersection DEF StrandOK
<1>4. IsFiniteSet(LeftSet') /\ Cardinality(LeftSet') <= Cardinality(LeftSet \cup E)
  BY <1>1, <1>2, FS_Subset
<1>5. /\ Cardinality(LeftSet) \in Nat /\ Cardinality(E) \in Nat
      /\ Cardinality(LeftSet \cap E) \in Nat /\ Cardinality(LeftSet') \in Nat
      /\ Cardinality(LeftSet \cup E) \in Nat
  BY <1>2, <1>3, <1>4, FS_CardinalityType DEF StrandOK
<1>6. Cardinality(LeftSet') <= Cardinality(LeftSet) + Cardinality(E)
  BY <1>2, <1>4, <1>5
<1>7. BatchSize \in Nat /\ faults \in Nat
  BY BoundsAssumption DEF TypeInv, TypeOK
<1>8. CASE E = {} /\ faults' = faults
  <2>1. Cardinality(E) = 0
    BY <1>8, FS_EmptySet
  <2>2. Cardinality(LeftSet') <= Cardinality(LeftSet)
    BY <1>5, <1>6, <2>1
  <2>3. BatchSize * faults \in Nat
    BY <1>7
  <2> QED BY <1>4, <1>5, <1>8, <2>2, <2>3 DEF StrandOK
<1>9. CASE faults' = faults + 1
  <2>1. BatchSize * faults' = BatchSize * faults + BatchSize
    BY <1>7, <1>9
  <2>2. BatchSize * faults \in Nat
    BY <1>7
  <2> QED BY <1>4, <1>5, <1>6, <1>7, <2>1, <2>2 DEF StrandOK
<1> QED BY <1>8, <1>9

\* The tasks of at most BatchSize entries.
LEMMA TasksOf ==
  ASSUME NEW S, IsFiniteSet(S), Cardinality(S) <= BatchSize
  PROVE  /\ IsFiniteSet({stream[d] : d \in S})
         /\ Cardinality({stream[d] : d \in S}) <= BatchSize
<1>1. IsFiniteSet({stream[d] : d \in S})
      /\ Cardinality({stream[d] : d \in S}) <= Cardinality(S)
  <2>1. [d \in S |-> stream[d]] \in Surjection(S, {stream[d] : d \in S})
    BY DEF Surjection
  <2> QED BY <2>1, FS_Surjection
<1>2. Cardinality(S) \in Nat /\ Cardinality({stream[d] : d \in S}) \in Nat
  BY <1>1, FS_CardinalityType
<1> QED BY <1>1, <1>2, BoundsAssumption

\* A set of one task.
LEMMA OneTask ==
  ASSUME NEW t
  PROVE  IsFiniteSet({t}) /\ Cardinality({t}) <= BatchSize
<1>1. IsFiniteSet({t}) /\ Cardinality({t}) = 1
  BY FS_Singleton
<1> QED BY <1>1, BoundsAssumption

\* A read fetches at most BatchSize entries.
LEMMA FewFetched ==
  ASSUME TypeInv, cursor < Len(stream)
  PROVE  IsFiniteSet(Fetched) /\ Cardinality(Fetched) <= BatchSize
<1>1. cursor \in Nat /\ Len(stream) \in Nat /\ BatchSize \in Nat
  BY BoundsAssumption DEF TypeInv, TypeOK
<1>2. LastFetched \in Nat /\ LastFetched <= cursor + BatchSize /\ LastFetched > cursor
  BY <1>1, BoundsAssumption DEF LastFetched
<1>3. cursor + 1 \in Int /\ LastFetched \in Int
  BY <1>1, <1>2
<1>4. /\ IsFiniteSet(Fetched)
      /\ Cardinality(Fetched) = LastFetched - (cursor + 1) + 1
  <2>1. /\ IsFiniteSet((cursor + 1) .. LastFetched)
        /\ Cardinality((cursor + 1) .. LastFetched)
             = IF cursor + 1 > LastFetched THEN 0 ELSE LastFetched - (cursor + 1) + 1
    BY <1>3, FS_Interval
  <2> QED BY <1>1, <1>2, <2>1 DEF Fetched
<1> QED BY <1>1, <1>2, <1>4

\* The steps of the request.
LEMMA StrandApi ==
  ASSUME TypeInv, TypeInv', StrandOK, NEW t \in Tasks, Api(t)
  PROVE  StrandOK'
<1>1. UNCHANGED <<cursor, timers, scan, batch, cur, pc>>
  BY DEF Api, Create, Push, PushFails, Revert, ApiCrash, queueVars, workerVars
<1>2. ASSUME NEW u \in Tasks, Left(u)', u # t PROVE Left(u)
  <2>1. db'[u] = db[u] /\ api'[u] = api[u]
    BY <1>2 DEF Api, Create, Push, PushFails, Revert, ApiCrash, Save, TypeInv, TypeOK
  <2>2. UNCHANGED stream \/ stream' = Append(stream, t)
    BY DEF Api, Create, Push, PushFails, Revert, ApiCrash, queueVars
  <2>3. \A d \in 1 .. Len(stream) : d \in 1 .. Len(stream') /\ stream'[d] = stream[d]
    BY <2>2, Pushed
  <2>4. OnWay(u) => OnWay(u)'
    BY <1>1, <2>1, <2>3, WayStays DEF InHand
  <2> QED BY <1>2, <2>1, <2>4 DEF Left, HasStatus
<1>3. \/ faults' = faults /\ ~Left(t)'
      \/ faults' = faults + 1
  <2>1. CASE Create(t)
    BY <2>1 DEF Create, Left, TypeInv, TypeOK
  <2>2. CASE Push(t)
    <3>1. Len(stream') \in 1 .. Len(stream') /\ Len(stream') > cursor' /\ stream'[Len(stream')] = t
      BY <2>2, StreamGrows DEF Push, TypeInv, TypeOK
    <3>2. OnWay(t)'
      BY <3>1 DEF OnWay
    <3> QED BY <2>2, <3>2 DEF Push, Left
  <2>3. CASE PushFails(t) \/ ApiCrash(t)
    BY <2>3 DEF PushFails, ApiCrash, Fault
  <2>4. CASE Revert(t)
    <3>1. [NewRow EXCEPT !.status = "failed"].status = "failed"
      BY DEF NewRow
    <3> QED BY <2>4, <3>1 DEF Revert, Save, Fault, Left, HasStatus, TypeInv, TypeOK
  <2> QED BY <2>1, <2>2, <2>3, <2>4 DEF Api
<1>4. IsFiniteSet(LeftSet') /\ Cardinality(LeftSet') <= BatchSize * faults'
  <2>1. CASE faults' = faults /\ ~Left(t)'
    <3>1. \A u \in Tasks : Left(u)' => Left(u)
      BY <1>2, <2>1
    <3> QED BY <2>1, <3>1, FewLeft, FS_EmptySet, BoundsAssumption
  <2>2. CASE faults' = faults + 1
    <3>1. \A u \in Tasks : Left(u)' => Left(u) \/ u \in {t}
      BY <1>2
    <3> QED BY <2>2, <3>1, FewLeft, OneTask
  <2> QED BY <1>3, <2>1, <2>2
<1> QED BY <1>1, <1>4 DEF StrandOK

\* A read hands entries to the worker; when the reply is lost nobody has them.
LEMMA StrandRead ==
  ASSUME TypeInv, TypeInv', StrandOK, NEW w \in Workers, Read(w) \/ ReadLost(w)
  PROVE  StrandOK'
<1>1. pc[w] = "read" /\ cursor < Len(stream) /\ cursor' = LastFetched /\ cur[w] = 0
  BY DEF Read, ReadLost, TypeInv, WorkerOK
<1>2. UNCHANGED <<stream, timers, scan, db, api, cur>>
  BY DEF Read, ReadLost, workerVars
<1>3. IsFiniteSet(Fetched) /\ Cardinality(Fetched) <= BatchSize
  BY <1>1, FewFetched
<1>4. \A v \in Workers : v # w => batch'[v] = batch[v] /\ pc'[v] = pc[v]
  BY DEF Read, ReadLost, Goto, TypeInv, TypeOK, workerVars
<1>5. \/ Read(w) /\ faults' = faults /\ batch'[w] = Fetched /\ pc'[w] = "load"
      \/ ReadLost(w) /\ faults' = faults + 1 /\ batch'[w] = batch[w] /\ pc'[w] = pc[w]
  BY DEF Read, ReadLost, Fault, Goto, TypeInv, TypeOK, workerVars
<1>6. /\ \A v \in Workers : /\ IsFiniteSet(batch'[v])
                            /\ Cardinality(batch'[v]) <= BatchSize
                            /\ pc'[v] = "read" => batch'[v] = {}
      /\ \A t \in Tasks : scan'[t] # NoRow => scan'[t].status = "sent"
  BY <1>2, <1>3, <1>4, <1>5 DEF StrandOK
<1>7. LastFetched \in (cursor + 1) .. Len(stream) /\ cursor \in Nat /\ Len(stream) \in Nat
  <2>1. LastFetched \in (cursor + 1) .. Len(stream)
    BY <1>1, CursorMoves DEF TypeInv
  <2> QED BY <2>1 DEF TypeInv, TypeOK
<1>8. ASSUME NEW t \in Tasks, OnWay(t)
      PROVE  \/ OnWay(t)'
             \/ ReadLost(w) /\ t \in {stream[d] : d \in Fetched}
  <2>1. CASE api[t] = "push" \/ \E x \in timers : x.task = t
    BY <1>2, <2>1 DEF OnWay
  <2>2. ASSUME NEW v \in Workers, NEW e \in 1 .. cursor, InHand(v, e), stream[e] = t
        PROVE  OnWay(t)'
    <3>1. v # w
      BY <1>1, <2>2 DEF StrandOK, InHand
    <3>2. InHand(v, e)' /\ e \in 1 .. cursor'
      BY <1>1, <1>2, <1>4, <1>7, <2>2, <3>1 DEF InHand
    <3> QED BY <1>2, <2>2, <3>2 DEF OnWay
  <2>3. ASSUME NEW d \in 1 .. Len(stream), d > cursor, stream[d] = t
        PROVE  \/ OnWay(t)'
               \/ ReadLost(w) /\ t \in {stream[x] : x \in Fetched}
    <3>1. CASE d > cursor'
      BY <1>2, <2>3, <3>1 DEF OnWay
    <3>2. CASE d <= cursor'
      <4>1. d \in Fetched /\ d \in 1 .. cursor' /\ d # 0
        BY <1>1, <1>7, <2>3, <3>2 DEF Fetched
      <4>2. CASE Read(w)
        <5>1. InHand(w, d)'
          BY <1>1, <1>2, <4>1, <4>2 DEF InHand, Read, TypeInv, TypeOK
        <5> QED BY <1>2, <2>3, <4>1, <5>1 DEF OnWay
      <4>3. CASE ReadLost(w)
        BY <2>3, <4>1, <4>3
      <4> QED BY <4>2, <4>3
    <3> QED BY <1>1, <1>7, <2>3, <3>1, <3>2
  <2> QED BY <1>8, <2>1, <2>2, <2>3 DEF OnWay
<1>9. \A t \in Tasks : Left(t)' => \/ Left(t)
                                   \/ ReadLost(w) /\ t \in {stream[d] : d \in Fetched}
  BY <1>2, <1>8 DEF Left, HasStatus
<1>10. IsFiniteSet(LeftSet') /\ Cardinality(LeftSet') <= BatchSize * faults'
  <2>1. CASE ReadLost(w) /\ faults' = faults + 1
    BY <1>3, <1>9, <2>1, TasksOf, FewLeft
  <2>2. CASE Read(w) /\ faults' = faults
    <3>1. \A t \in Tasks : Left(t)' => Left(t)
      <4>1. ~ReadLost(w)
        BY <1>1, <2>2 DEF Read, ReadLost, Goto, TypeInv, TypeOK, workerVars
      <4> QED BY <1>9, <4>1
    <3> QED BY <2>2, <3>1, FewLeft, FS_EmptySet, BoundsAssumption
  <2> QED BY <1>5, <2>1, <2>2
<1> QED BY <1>6, <1>10 DEF StrandOK

\* The steps of a worker that has an entry.
LEMMA StrandHandle ==
  ASSUME TypeInv, TypeInv', StrandOK, NEW w \in Workers, Handle(w)
  PROVE  StrandOK'
<1>1. PICK t : t = stream[cur[w]]
  OBVIOUS
<1>2. /\ UNCHANGED <<stream, cursor, api, scan>>
      /\ \A v \in Workers, e \in 1 .. cursor : InHand(v, e)' => InHand(v, e)
      /\ \A v \in Workers \ {w} : pc'[v] = pc[v] /\ cur'[v] = cur[v] /\ batch'[v] = batch[v]
  <2>1. UNCHANGED scan
    BY DEF Handle, Load, Mark, Select, Call, Succeed, Record, Evaluate, Abort, Dead, Ack
  <2> QED BY <2>1, HandStep DEF Handle
<1>3. timers \subseteq timers'
  BY DEF Handle, Load, Mark, Select, Call, Succeed, Record, Evaluate, Abort, Dead, Ack,
         Execute, queueVars
<1>4. \A v \in Workers : /\ IsFiniteSet(batch'[v])
                         /\ Cardinality(batch'[v]) <= BatchSize
                         /\ pc'[v] = "read" => batch'[v] = {}
  <2>1. CASE Ack(w)
    <3>1. /\ batch'[w] = batch[w] \ {cur[w]}
          /\ pc'[w] = "read" => batch'[w] = {}
      BY <2>1 DEF Ack, Finish, Goto, TypeInv, TypeOK
    <3>2. /\ IsFiniteSet(batch'[w])
          /\ Cardinality(batch'[w]) <= Cardinality(batch[w])
      BY <3>1, FS_Subset DEF StrandOK
    <3>3. Cardinality(batch'[w]) \in Nat /\ Cardinality(batch[w]) \in Nat
      BY <3>2, FS_CardinalityType DEF StrandOK
    <3>4. Cardinality(batch'[w]) <= BatchSize
      BY <3>2, <3>3, BoundsAssumption DEF StrandOK
    <3> QED BY <1>2, <3>1, <3>2, <3>4 DEF StrandOK
  <2>2. CASE ~Ack(w)
    <3>1. batch' = batch /\ pc'[w] # "read"
      BY <2>2 DEF Handle, Load, Mark, Select, Call, Succeed, Record, Evaluate, Abort, Dead,
                  Goto, TypeInv, TypeOK
    <3> QED BY <1>2, <3>1 DEF StrandOK
  <2> QED BY <2>1, <2>2
<1>5. ASSUME NEW d \in 1 .. cursor, InHand(w, d), ~InHand(w, d)'
      PROVE  IF Load(w) THEN faults' = faults + 1 /\ d = cur'[w]
             ELSE stream[d] = t /\ pc'[w] \notin Copying /\ pc[w] \notin {"record", "dead", "ack"}
  <2>1. CASE Load(w)
    BY <1>5, <2>1 DEF Load, Fault, InHand, Goto, TypeInv, TypeOK
  <2>2. CASE ~Load(w) /\ Ack(w)
    BY <1>1, <1>5, <2>2 DEF Ack, Finish, InHand, Goto, TypeInv, TypeOK, Copying
  <2>3. CASE ~Load(w) /\ ~Ack(w)
    <3>1. UNCHANGED <<batch, cur>>
      BY <2>3 DEF Handle, Mark, Select, Call, Succeed, Record, Evaluate, Abort, Dead
    <3>2. pc[w] \in {"record", "dead", "ack"} => pc'[w] = "ack"
      BY <2>3 DEF Handle, Mark, Select, Call, Succeed, Record, Evaluate, Abort, Dead, Goto,
                  TypeInv, TypeOK
    <3> QED BY <1>1, <1>5, <2>3, <3>1, <3>2 DEF InHand, Copying
  <2> QED BY <2>1, <2>2, <2>3
<1>6. ASSUME NEW u \in Tasks, OnWay(u), ~OnWay(u)'
      PROVE  IF Load(w) THEN faults' = faults + 1 /\ u = stream[cur'[w]]
             ELSE u = t /\ pc'[w] \notin Copying /\ pc[w] \notin {"record", "dead", "ack"}
  <2>1. PICK v \in Workers : \E e \in 1 .. cursor : stream[e] = u /\ InHand(v, e) /\ ~InHand(v, e)'
    BY <1>2, <1>3, <1>6, WayStays
  <2>2. v = w
    BY <1>2, <2>1 DEF InHand
  <2> QED BY <1>5, <2>1, <2>2
<1>7. faults' \in {faults, faults + 1}
  BY DEF Handle, Load, Mark, Select, Call, Succeed, Record, Evaluate, Abort, Dead, Ack,
         Save, Execute, Fault
<1>8. PICK s : s = IF Load(w) THEN stream[cur'[w]] ELSE t
  OBVIOUS
<1>9. ASSUME NEW u \in Tasks, Left(u)', ~Left(u)
      PROVE  u = s /\ faults' = faults + 1
  <2>1. CASE Load(w)
    <3>1. UNCHANGED <<db, api>>
      BY <2>1 DEF Load
    <3> QED BY <1>6, <1>8, <1>9, <2>1, <3>1 DEF Left, HasStatus
  <2>2. CASE ~Load(w) /\ pc'[w] \in Copying
    <3>1. CASE u = t
      <4>1. OnWay(t)
        BY <1>1, <2>2, InTheHand DEF Handle, Mark, Select, Call, Succeed, Record, Evaluate,
           Abort, Dead, Ack, Finish, Goto, TypeInv, TypeOK, Copying
      <4> QED BY <1>6, <1>9, <2>2, <3>1, <4>1 DEF Left
    <3>2. CASE u # t
      <4>1. db'[u] = db[u]
        BY <1>1, <2>2, <3>2 DEF Handle, Mark, Select, Call, Succeed, Record, Evaluate, Abort,
           Dead, Ack, Execute, Save, TypeInv, TypeOK
      <4> QED BY <1>2, <1>6, <1>9, <2>2, <3>2, <4>1 DEF Left, HasStatus
    <3> QED BY <3>1, <3>2
  <2>3. CASE Record(w) \/ Dead(w) \/ Ack(w)
    <3>1. UNCHANGED <<db, api>> /\ pc[w] \in {"record", "dead", "ack"}
      BY <2>3 DEF Record, Dead, Ack
    <3>2. ~Load(w)
      BY <3>1 DEF Load
    <3> QED BY <1>6, <1>9, <3>1, <3>2 DEF Left, HasStatus
  <2>4. CASE Succeed(w) \/ Abort(w) \/ Evaluate(w)
    <3>1. pc[w] \in Copying /\ ~Load(w) /\ t \in Tasks /\ snap[w] \in Rows
      BY <1>1, <2>4, Busy DEF Succeed, Abort, Evaluate, Load, TypeInv, WorkerOK, Copying
    <3>2. CASE u # t
      <4>1. db'[u] = db[u]
        BY <1>1, <2>4, <3>2 DEF Succeed, Evaluate, Abort, Execute, Save, TypeInv, TypeOK
      <4> QED BY <1>2, <1>6, <1>9, <3>1, <3>2, <4>1 DEF Left, HasStatus
    <3>3. ASSUME NEW row, Save(t, row)
          PROVE  db'[t] = row \/ faults' = faults + 1
      BY <3>1, <3>3 DEF Save, Fault, TypeInv, TypeOK
    <3>4. \A v \in Statuses : [snap[w] EXCEPT !.status = v].status = v
      BY <3>1 DEF Rows
    <3>5. CASE Succeed(w) /\ u = t
      <4>1. db'[t].status \in {"sent", "success"} \/ faults' = faults + 1
        BY <1>1, <3>3, <3>4, <3>5 DEF Succeed, Statuses
      <4> QED BY <1>8, <1>9, <3>1, <3>5, <4>1 DEF Left, HasStatus
    <3>6. CASE Abort(w) /\ u = t
      <4>1. db'[t].status = "failed" \/ faults' = faults + 1
        BY <1>1, <3>3, <3>4, <3>6 DEF Abort, Statuses
      <4> QED BY <1>8, <1>9, <3>1, <3>6, <4>1 DEF Left, HasStatus
    <3>7. CASE Evaluate(w) /\ u = t
      <4>1. PICK a \in SendActions : Execute(a, cur[w], t, snap[w], prov[w])
        BY <1>1, <3>7 DEF Evaluate
      <4>2. CASE Requeues(a, snap[w])
        <5>1. [src |-> cur[w], task |-> t] \in timers'
          BY <4>1, <4>2 DEF Execute
        <5>2. OnWay(t)'
          BY <5>1 DEF OnWay
        <5> QED BY <1>9, <3>7, <5>2 DEF Left
      <4>3. CASE ~Requeues(a, snap[w])
        <5>1. Outcome(a, snap[w], prov[w]).status = "failed"
          BY <3>4, <4>3 DEF Outcome, Statuses
        <5>2. db'[t].status = "failed" \/ faults' = faults + 1
          BY <3>3, <4>1, <5>1 DEF Execute
        <5> QED BY <1>8, <1>9, <3>1, <3>7, <5>2 DEF Left, HasStatus
      <4> QED BY <4>2, <4>3
    <3> QED BY <2>4, <3>2, <3>5, <3>6, <3>7
  <2>5. ~Load(w) => \/ pc'[w] \in Copying
                    \/ Record(w) \/ Dead(w) \/ Ack(w) \/ Succeed(w) \/ Abort(w) \/ Evaluate(w)
    BY DEF Handle, Mark, Select, Call, Goto, TypeInv, TypeOK, Copying
  <2> QED BY <2>1, <2>2, <2>3, <2>4, <2>5
<1>10. IsFiniteSet(LeftSet') /\ Cardinality(LeftSet') <= BatchSize * faults'
  <2>1. CASE faults' = faults + 1
    <3>1. \A u \in Tasks : Left(u)' => Left(u) \/ u \in {s}
      BY <1>9
    <3> QED BY <2>1, <3>1, OneTask, FewLeft
  <2>2. CASE faults' = faults
    <3>1. \A u \in Tasks : Left(u)' => Left(u)
      BY <1>9, <2>2 DEF TypeInv, TypeOK
    <3> QED BY <2>2, <3>1, FewLeft, FS_EmptySet, BoundsAssumption
  <2> QED BY <1>7, <2>1, <2>2
<1> QED BY <1>2, <1>4, <1>10 DEF StrandOK

\* A worker dies, and what it held is never handled.
LEMMA StrandCrash ==
  ASSUME TypeInv, TypeInv', StrandOK, NEW w \in Workers, WorkerCrash(w)
  PROVE  StrandOK'
<1>1. /\ UNCHANGED <<stream, cursor, api, scan, db, timers>>
      /\ \A v \in Workers \ {w} : pc'[v] = pc[v] /\ cur'[v] = cur[v] /\ batch'[v] = batch[v]
      /\ batch'[w] = {} /\ pc'[w] = "read" /\ faults' = faults + 1
  BY DEF WorkerCrash, Fault, Finish, Goto, TypeInv, TypeOK, queueVars
<1>2. \A v \in Workers : /\ IsFiniteSet(batch'[v])
                         /\ Cardinality(batch'[v]) <= BatchSize
                         /\ pc'[v] = "read" => batch'[v] = {}
  <2>1. IsFiniteSet({}) /\ Cardinality({}) <= BatchSize
    BY FS_EmptySet, BoundsAssumption
  <2> QED BY <1>1, <2>1 DEF StrandOK
<1>3. ASSUME NEW u \in Tasks, OnWay(u), ~OnWay(u)'
      PROVE  u \in {stream[d] : d \in batch[w]}
  <2>1. PICK v \in Workers : \E e \in 1 .. cursor : stream[e] = u /\ InHand(v, e) /\ ~InHand(v, e)'
    BY <1>1, <1>3, WayStays
  <2>2. v = w
    BY <1>1, <2>1 DEF InHand
  <2> QED BY <2>1, <2>2 DEF InHand
<1>4. \A u \in Tasks : Left(u)' => Left(u) \/ u \in {stream[d] : d \in batch[w]}
  BY <1>1, <1>3 DEF Left, HasStatus
<1>5. IsFiniteSet(LeftSet') /\ Cardinality(LeftSet') <= BatchSize * faults'
  BY <1>1, <1>4, TasksOf, FewLeft DEF StrandOK
<1> QED BY <1>1, <1>2, <1>5 DEF StrandOK

\* The goroutines that push again.
LEMMA StrandTimer ==
  ASSUME TypeInv, TypeInv', StrandOK, NEW x \in timers, Fire(x) \/ TimerLost(x)
  PROVE  StrandOK'
<1>1. /\ UNCHANGED <<cursor, api, scan, db, batch, pc, cur>>
      /\ timers' = timers \ {x} /\ x.task \in Tasks
      /\ \/ stream' = Append(stream, x.task) /\ faults' = faults
         \/ stream' = stream /\ faults' = faults + 1
  BY DEF Fire, TimerLost, Fault, TypeInv, TypeOK, workerVars, queueVars
<1>2. \A d \in 1 .. Len(stream) : d \in 1 .. Len(stream') /\ stream'[d] = stream[d]
  BY <1>1, Pushed
<1>3. \A u \in Tasks : u # x.task /\ OnWay(u) => OnWay(u)'
  BY <1>1, <1>2, WayStays DEF InHand
<1>4. \A u \in Tasks : Left(u)' => Left(u) \/ u \in {x.task}
  BY <1>1, <1>3 DEF Left, HasStatus
<1>5. CASE faults' = faults + 1
  <2>1. IsFiniteSet(LeftSet') /\ Cardinality(LeftSet') <= BatchSize * faults'
    BY <1>4, <1>5, OneTask, FewLeft
  <2> QED BY <1>1, <2>1 DEF StrandOK
<1>6. CASE stream' = Append(stream, x.task) /\ faults' = faults
  <2>1. Len(stream') \in 1 .. Len(stream') /\ Len(stream') > cursor'
        /\ stream'[Len(stream')] = x.task
    BY <1>1, <1>6, StreamGrows DEF TypeInv, TypeOK
  <2>2. OnWay(x.task)'
    BY <2>1 DEF OnWay
  <2>3. \A u \in Tasks : Left(u)' => Left(u)
    BY <1>4, <2>2 DEF Left
  <2>4. IsFiniteSet(LeftSet') /\ Cardinality(LeftSet') <= BatchSize * faults'
    BY <1>6, <2>3, FewLeft, FS_EmptySet, BoundsAssumption
  <2> QED BY <1>1, <2>4 DEF StrandOK
<1> QED BY <1>1, <1>5, <1>6

\* A report and the scanner leave a task that was on its way there, and write
\* no row that is still open.
LEMMA StrandOther ==
  ASSUME TypeInv, TypeInv', StrandOK,
         (\E c \in Reports : Callback(c)) \/ Scanner \/ UNCHANGED vars
  PROVE  StrandOK'
<1>1. /\ UNCHANGED <<stream, cursor, api, batch, pc, cur>>
      /\ timers \subseteq timers' /\ faults' \in {faults, faults + 1}
  <2>1. CASE \E c \in Reports : Callback(c)
    BY <2>1 DEF Callback, Arrive, Find, Apply, ReportCrash, Execute, Save, Fault, workerVars,
       queueVars
  <2>2. CASE Scanner
    BY <2>2 DEF Scanner, Scan, ScannerCrash, TimeOut, Save, Fault, workerVars, queueVars
  <2>3. CASE UNCHANGED vars
    BY <2>3 DEF vars
  <2> QED BY <2>1, <2>2, <2>3
<1>2. \A u \in Tasks : OnWay(u) => OnWay(u)'
  BY <1>1, WayStays DEF InHand
<1>3. \A t \in Tasks : scan'[t] # NoRow => scan'[t].status = "sent"
  <2>1. CASE \E c \in Reports : Callback(c)
    BY <2>1 DEF Callback, Arrive, Find, Apply, ReportCrash, StrandOK
  <2>2. CASE Scanner
    <3>1. CASE Scan
      BY <3>1 DEF Scan, StrandOK, HasStatus
    <3>2. CASE ScannerCrash
      BY <3>2 DEF ScannerCrash
    <3>3. ASSUME NEW u \in Tasks, TimeOut(u)
          PROVE  \A t \in Tasks : scan'[t] # NoRow => scan'[t].status = "sent"
      BY <3>3 DEF TimeOut, StrandOK, TypeInv, TypeOK
    <3> QED BY <2>2, <3>1, <3>2, <3>3 DEF Scanner
  <2>3. CASE UNCHANGED vars
    BY <2>3 DEF vars, StrandOK
  <2> QED BY <2>1, <2>2, <2>3
<1>4. ASSUME NEW u \in Tasks
      PROVE  \/ db'[u] = db[u] \/ OnWay(u)'
             \/ db'[u].status \in {"failed", "success", "sent"}
  <2>1. CASE Scanner
    <3>1. ASSUME NEW t \in Tasks, TimeOut(t)
          PROVE  db'[u] = db[u] \/ db'[u].status = "sent"
      <4>1. scan[t] \in Rows /\ scan[t].status = "sent"
        BY <3>1 DEF TimeOut, StrandOK, TypeInv, TypeOK
      <4>2. [scan[t] EXCEPT !.cb = "timeout"].status = "sent"
        BY <4>1 DEF Rows
      <4> QED BY <3>1, <4>2 DEF TimeOut, Save, TypeInv, TypeOK
    <3> QED BY <2>1, <3>1 DEF Scanner, Scan, ScannerCrash
  <2>2. ASSUME NEW c \in Reports, Apply(c)
        PROVE  \/ db'[u] = db[u] \/ OnWay(u)'
               \/ db'[u].status \in {"failed", "success", "sent"}
    <3>1. report[c].row \in Rows /\ report[c].verdict \in Verdicts
      BY <2>2 DEF Apply, TypeInv, TypeOK, ReportOK, ReportState
    <3>2. PICK row \in Rows : row = [report[c].row EXCEPT !.cb = report[c].verdict]
      BY <3>1 DEF Rows, Verdicts
    <3>3. PICK t : t = stream[report[c].msg]
      OBVIOUS
    <3>4. PICK via : via = report[c].via
      OBVIOUS
    <3>5. \/ Save(t, [row EXCEPT !.status = "success"])
          \/ \E a \in CallbackActions : Execute(a, c, t, row, via)
      BY <2>2, <3>2, <3>3, <3>4 DEF Apply
    <3>6. \A v \in Statuses : [row EXCEPT !.status = v].status = v
      BY DEF Rows
    <3>7. CASE Save(t, [row EXCEPT !.status = "success"])
      <4>1. [row EXCEPT !.status = "success"].status = "success"
        BY <3>6 DEF Statuses
      <4> QED BY <3>7, <4>1 DEF Save, TypeInv, TypeOK
    <3>8. ASSUME NEW a \in CallbackActions, Execute(a, c, t, row, via)
          PROVE  db'[u] = db[u] \/ OnWay(u)' \/ db'[u].status = "failed"
      <4>1. CASE Requeues(a, row)
        <5>1. [src |-> c, task |-> t] \in timers'
          BY <3>8, <4>1 DEF Execute
        <5>2. u = t => OnWay(u)'
          BY <5>1 DEF OnWay
        <5>3. u # t => db'[u] = db[u]
          BY <3>8 DEF Execute, Save, TypeInv, TypeOK
        <5> QED BY <5>2, <5>3
      <4>2. CASE ~Requeues(a, row)
        <5>1. Outcome(a, row, via).status = "failed"
          BY <3>6, <4>2 DEF Outcome, Statuses
        <5> QED BY <3>8, <5>1 DEF Execute, Save, TypeInv, TypeOK
      <4> QED BY <4>1, <4>2
    <3> QED BY <3>5, <3>7, <3>8
  <2>3. CASE \/ \E c \in Reports : Arrive(c) \/ Find(c) \/ ReportCrash(c)
             \/ UNCHANGED vars
    BY <2>3 DEF Arrive, Find, ReportCrash, vars
  <2> QED BY <2>1, <2>2, <2>3 DEF Callback
<1>5. \A u \in Tasks : Left(u)' => Left(u)
  BY <1>1, <1>2, <1>4 DEF Left, HasStatus
<1>6. IsFiniteSet(LeftSet') /\ Cardinality(LeftSet') <= BatchSize * faults'
  BY <1>1, <1>5, FewLeft, FS_EmptySet, BoundsAssumption
<1> QED BY <1>1, <1>3, <1>6 DEF StrandOK

\* Every step keeps the bound.
LEMMA StrandStep == TypeInv /\ StrandOK /\ [Next]_vars => StrandOK'
<1> SUFFICES ASSUME TypeInv, StrandOK, [Next]_vars PROVE StrandOK'
  OBVIOUS
<1>1. TypeInv'
  BY TypeStep
<1> QED BY <1>1, StrandApi, StrandRead, StrandHandle, StrandCrash, StrandTimer, StrandOther
        DEF Next, Worker

\* However many workers there are and whatever fails, a row that is still open
\* with nothing left to move it is the trace of a failed access or a crash, and
\* each of those strands at most the entries of one read.
THEOREM BoundedStrandingHolds == Spec => []BoundedStranding
<1>1. Init => TypeInv
  BY TypeInit
<1>2. Init => StrandOK
  <2> SUFFICES ASSUME Init PROVE StrandOK
    OBVIOUS
  <2>1. LeftSet = {}
    BY DEF Init, LeftSet, Left, HasStatus
  <2>2. faults = 0 /\ BatchSize * 0 = 0
    BY BoundsAssumption DEF Init
  <2> QED BY <2>1, <2>2, FS_EmptySet, BoundsAssumption DEF Init, StrandOK
<1>3. StrandOK => BoundedStranding
  <2> SUFFICES ASSUME StrandOK PROVE BoundedStranding
    OBVIOUS
  <2>1. Stranded = LeftSet
    BY OnWayIsToken DEF Stranded, LeftSet, Left
  <2> QED BY <2>1 DEF StrandOK, BoundedStranding
<1> QED BY <1>1, <1>2, <1>3, TypeStep, StrandStep, PTL DEF Spec

-----------------------------------------------------------------------------
(* When a task is done for good *)

\* The default rules for callbacks, and an XADD that appends nothing when it
\* answers an error.
Usual == CallbackActions \cap Requeueing = {} /\ ~AmbiguousPush

\* A task that has a row and is on its way no more stays so.
LEMMA NoneReopens ==
  ASSUME TypeInv, Usual, [Next]_vars, NEW t \in Tasks, db[t] # NoRow, OnWay(t)'
  PROVE  OnWay(t)
<1>1. ASSUME NEW u \in Tasks, Api(u) PROVE OnWay(t)
  <2>1. UNCHANGED <<cursor, batch, cur, pc, timers>>
    BY <1>1 DEF Api, Create, Push, PushFails, Revert, ApiCrash, queueVars, workerVars
  <2>2. \A w \in Workers : \A e : InHand(w, e)' <=> InHand(w, e)
    BY <2>1 DEF InHand
  <2>3. CASE Create(u)
    <3>1. u # t
      BY <2>3 DEF Create, TypeInv, RowOK
    <3>2. UNCHANGED stream /\ api'[t] = api[t]
      BY <2>3, <3>1 DEF Create, TypeInv, TypeOK, queueVars
    <3> QED BY <2>1, <2>2, <3>2, WayShrinks
  <2>4. CASE Push(u)
    <3>1. stream' = Append(stream, u)
      BY <2>4 DEF Push
    <3>2. api[u] = "push" /\ (api'[t] = "push" => api[t] = "push")
      BY <2>4 DEF Push, TypeInv, TypeOK
    <3> QED BY <2>1, <2>2, <3>1, <3>2, Pushed DEF OnWay
  <2>5. CASE PushFails(u) \/ Revert(u) \/ ApiCrash(u)
    <3>1. UNCHANGED stream /\ (api'[t] = "push" => api[t] = "push")
      BY <2>5 DEF PushFails, Revert, ApiCrash, Usual, TypeInv, TypeOK, queueVars
    <3> QED BY <2>1, <2>2, <3>1, WayShrinks
  <2> QED BY <1>1, <2>3, <2>4, <2>5 DEF Api
<1>2. ASSUME NEW w \in Workers, Read(w) \/ ReadLost(w) PROVE OnWay(t)
  <2>1. cursor < Len(stream)
    BY <1>2 DEF Read, ReadLost
  <2>2. /\ LastFetched \in (cursor + 1) .. Len(stream)
        /\ cursor' = LastFetched
        /\ UNCHANGED <<stream, timers, api, cur>>
        /\ cursor \in Nat /\ Len(stream) \in Nat
    BY <1>2, <2>1, CursorMoves DEF Read, ReadLost, TypeInv, TypeOK, workerVars
  <2>3. \A v \in Workers, e \in 1 .. cursor' :
          InHand(v, e)' => \/ e \in 1 .. cursor /\ InHand(v, e)
                           \/ e > cursor
    <3> SUFFICES ASSUME NEW v \in Workers, NEW e \in 1 .. cursor', InHand(v, e)',
                        e \in 1 .. cursor
                 PROVE  InHand(v, e)
      BY <2>2
    <3>1. CASE Read(w) /\ v = w
      <4>1. e \in Fetched
        BY <3>1 DEF Read, InHand, TypeInv, TypeOK
      <4> QED BY <2>2, <4>1 DEF Fetched
    <3>2. CASE ~(Read(w) /\ v = w)
      BY <1>2, <3>2 DEF Read, ReadLost, Goto, InHand, TypeInv, TypeOK, workerVars
    <3> QED BY <3>1, <3>2
  <2>4. \A e \in 1 .. cursor' : e \in 1 .. Len(stream)
    BY <2>2
  <2>5. \A e \in 1 .. Len(stream) : e > cursor' => e > cursor
    BY <2>2
  <2> QED BY <2>2, <2>3, <2>4, <2>5 DEF OnWay
<1>3. ASSUME NEW w \in Workers, Handle(w) \/ WorkerCrash(w) PROVE OnWay(t)
  <2>1. /\ UNCHANGED <<stream, cursor, api>>
        /\ \A v \in Workers, e \in 1 .. cursor : InHand(v, e)' => InHand(v, e)
    BY <1>3, HandStep DEF Handle
  <2>2. CASE Evaluate(w)
    <3>1. OnWay(stream[cur[w]])
      BY <2>2, InTheHand DEF Evaluate
    <3>2. timers' \subseteq timers \cup {[src |-> cur[w], task |-> stream[cur[w]]]}
      BY <2>2 DEF Evaluate, Execute
    <3> QED BY <2>1, <3>1, <3>2 DEF OnWay
  <2>3. CASE ~Evaluate(w)
    <3>1. UNCHANGED timers
      BY <1>3, <2>3 DEF Handle, Load, Mark, Select, Call, Succeed, Record, Abort, Dead, Ack,
                        WorkerCrash, queueVars
    <3> QED BY <2>1, <3>1, WayShrinks
  <2> QED BY <2>2, <2>3
<1>4. ASSUME NEW x \in timers, Fire(x) PROVE OnWay(t)
  <2>1. /\ stream' = Append(stream, x.task) /\ x.task \in Tasks
        /\ UNCHANGED <<cursor, batch, cur, pc, api>> /\ timers' \subseteq timers
    BY <1>4 DEF Fire, TypeInv, TypeOK, workerVars
  <2>2. \A w \in Workers : \A e : InHand(w, e)' <=> InHand(w, e)
    BY <2>1 DEF InHand
  <2> QED BY <2>1, <2>2, Pushed DEF OnWay
<1>5. CASE \/ \E x \in timers : TimerLost(x)
           \/ \E c \in Reports : Callback(c)
           \/ Scanner
           \/ UNCHANGED vars
  <2>1. UNCHANGED <<stream, cursor, batch, cur, pc, api>> /\ timers' \subseteq timers
    <3>1. CASE \E x \in timers : TimerLost(x)
      BY <3>1 DEF TimerLost, workerVars, queueVars
    <3>2. CASE \E c \in Reports : Callback(c)
      <4>1. \A a \in CallbackActions : \A row : ~Requeues(a, row)
        BY DEF Requeues, Usual
      <4> QED BY <3>2, <4>1 DEF Callback, Arrive, Find, Apply, ReportCrash,
                              Execute, workerVars, queueVars
    <3>3. CASE Scanner
      BY <3>3 DEF Scanner, Scan, ScannerCrash, TimeOut, workerVars, queueVars
    <3>4. CASE UNCHANGED vars
      BY <3>4 DEF vars
    <3> QED BY <1>5, <3>1, <3>2, <3>3, <3>4
  <2> QED BY <2>1, WayShrinks DEF InHand
<1> QED BY <1>1, <1>2, <1>3, <1>4, <1>5 DEF Next, Worker, Handle

-----------------------------------------------------------------------------
(* What was accepted, and what the rows say about it *)

\* The entries of a task that a provider accepted.
Taken(t) == {d \in accepted : stream[d] = t}

\* Something pushes the task, or has pushed it.
Started(t) ==
  \/ \E i \in 1 .. Len(stream) : stream[i] = t
  \/ \E x \in timers : x.task = t

\* While its request is not done with it, nobody else has touched a task.
NewOK ==
  \A t \in Tasks : api[t] # "done" =>
    db[t] \in {NoRow, NewRow} /\ calls[t] = << >> /\ ~Started(t)

\* One message of a task is accepted at most, and then the task is on its way
\* only until the worker that sent the message has saved the row. What knows of
\* a message, the log and the reports, knows of one that was accepted.
TakenOK ==
  /\ \A d \in accepted : OnWay(stream[d]) =>
       \E w \in Workers : cur[w] = d /\ pc[w] = "succeed"
  /\ \A d, e \in accepted : stream[d] = stream[e] => d = e
  /\ \A w \in Workers : pc[w] \in {"succeed", "record"} => cur[w] \in accepted
  /\ \A w \in Workers : pc[w] = "record" => ~OnWay(stream[cur[w]])
  /\ \A l \in logs : l.msg \in accepted /\ ~OnWay(stream[l.msg])
  /\ \A c \in Reports : report[c].pc # "idle" => report[c].msg \in accepted
  /\ \A c \in Reports : report[c].pc = "apply" => ~OnWay(stream[report[c].msg])

\* A report about a message of the task said that it failed.
Refuted(t) ==
  \E c \in Reports : /\ report[c].pc = "end" /\ report[c].verdict = "failed"
                     /\ report[c].msg \in Taken(t)

\* A row is final only when its task is on its way no more, and about a message
\* a provider accepted when it says so. The copies are of rows that are not
\* final, the scanner's of rows that are.
StatusOK ==
  /\ \A t \in Tasks : OnWay(t) => db[t].status \in {"pending", "processing"}
  /\ \A t \in Tasks : HasStatus(t, {"sent", "success"}) => Taken(t) # {}
  /\ \A t \in Tasks : HasStatus(t, {"failed"}) /\ Taken(t) # {} => Refuted(t)
  /\ \A t \in Tasks : scan[t] # NoRow =>
       scan[t].status = "sent" /\ ~OnWay(t) /\ Taken(t) # {}
  /\ \A w \in Workers : pc[w] \in Copying => snap[w].status = "processing"

OutcomeInv == NewOK /\ TakenOK /\ StatusOK

\* A task on its way has a row.
LEMMA OnWayHasRow ==
  ASSUME NEW t \in Tasks, TypeInv, OnWay(t)
  PROVE  db[t] \in Rows
<1>1. db[t] # NoRow
  <2>1. \A e \in 1 .. cursor : e \in 1 .. Len(stream)
    BY DEF TypeInv, TypeOK
  <2> QED BY <2>1 DEF OnWay, TypeInv, RowOK
<1> QED BY <1>1 DEF TypeInv, TypeOK

\* An entry that was accepted was read, and its task has a row.
LEMMA TakenHasRow ==
  ASSUME TypeInv, NEW d \in accepted
  PROVE  /\ d \in 1 .. cursor /\ d \in 1 .. Len(stream)
         /\ stream[d] \in Tasks /\ db[stream[d]] \in Rows /\ Started(stream[d])
BY DEF TypeInv, TypeOK, RowOK, Started

\* No provider has accepted anything for the entry a worker has in hand, before
\* it does so in answer to this worker.
LEMMA NothingTaken ==
  ASSUME TypeInv, Chain, TakenOK, NEW w \in Workers,
         pc[w] \in {"mark", "select", "call", "evaluate", "abort"}
  PROVE  Taken(stream[cur[w]]) = {}
<1>1. InHand(w, cur[w]) /\ OnWay(stream[cur[w]]) /\ cur[w] \in 1 .. cursor
  BY InTheHand
<1> SUFFICES ASSUME NEW d \in accepted, stream[d] = stream[cur[w]] PROVE FALSE
  BY DEF Taken
<1>2. PICK v \in Workers : cur[v] = d /\ pc[v] = "succeed"
  BY <1>1 DEF TakenOK
<1>3. InHand(v, d) /\ d \in 1 .. cursor
  BY <1>2, InTheHand
<1> QED BY <1>1, <1>2, <1>3 DEF Chain

\* Only what was pushed changes, but for the request.
LEMMA OnlyStarted ==
  ASSUME TypeInv, TakenOK, StatusOK, Usual, NEW t \in Tasks, ~Started(t),
         \/ \E w \in Workers : Worker(w)
         \/ \E x \in timers : Fire(x) \/ TimerLost(x)
         \/ \E c \in Reports : Callback(c)
         \/ Scanner
  PROVE  api' = api /\ db'[t] = db[t] /\ calls'[t] = calls[t] /\ ~Started(t)'
<1>0. \A u \in Tasks : \A row : Save(u, row) /\ u # t => db'[t] = db[t]
  BY DEF Save, TypeInv, TypeOK
<1>1. ASSUME NEW w \in Workers, Worker(w), pc[w] \in {"read", "load"}
      PROVE  api' = api /\ db' = db /\ calls' = calls /\ ~Started(t)'
  BY <1>1 DEF Worker, Read, ReadLost, Handle, Load, Mark, Select, Call, Succeed, Record,
              Evaluate, Abort, Dead, Ack, WorkerCrash, Started, queueVars, workerVars
<1>2. ASSUME NEW w \in Workers, Worker(w), pc[w] \notin {"read", "load"}
      PROVE  api' = api /\ db'[t] = db[t] /\ calls'[t] = calls[t] /\ ~Started(t)'
  <2>1. stream[cur[w]] \in Tasks /\ stream[cur[w]] # t
    BY <1>2, Busy DEF Started
  <2>2. api' = api /\ UNCHANGED stream
    BY <1>2 DEF Worker, Read, ReadLost, Handle, Load, Mark, Select, Call, Succeed, Record,
                Evaluate, Abort, Dead, Ack, WorkerCrash, queueVars, workerVars
  <2>3. calls'[t] = calls[t]
    <3>1. CASE Call(w)
      BY <2>1, <3>1 DEF Call, TypeInv, TypeOK
    <3>2. CASE ~Call(w)
      BY <1>2, <3>2 DEF Worker, Read, ReadLost, Handle, Load, Mark, Select, Succeed, Record,
                        Evaluate, Abort, Dead, Ack, WorkerCrash
    <3> QED BY <3>1, <3>2
  <2>4. db'[t] = db[t]
    <3>1. \/ UNCHANGED db
          \/ \E row : Save(stream[cur[w]], row)
      BY <1>2 DEF Worker, Read, ReadLost, Handle, Load, Mark, Select, Call, Succeed, Record,
                  Evaluate, Execute, Abort, Dead, Ack, WorkerCrash
    <3> QED BY <1>0, <2>1, <3>1
  <2>5. timers' \subseteq timers \cup {[src |-> cur[w], task |-> stream[cur[w]]]}
    BY <1>2 DEF Worker, Read, ReadLost, Handle, Load, Mark, Select, Call, Succeed, Record,
                Evaluate, Execute, Abort, Dead, Ack, WorkerCrash
  <2> QED BY <2>1, <2>2, <2>3, <2>4, <2>5 DEF Started
<1>3. ASSUME NEW x \in timers, Fire(x) \/ TimerLost(x)
      PROVE  api' = api /\ db'[t] = db[t] /\ calls'[t] = calls[t] /\ ~Started(t)'
  <2>1. x.task \in Tasks /\ x.task # t
    BY DEF Started, TypeInv, TypeOK
  <2>2. UNCHANGED <<api, db, calls>> /\ timers' \subseteq timers
    BY <1>3 DEF Fire, TimerLost
  <2>3. UNCHANGED stream \/ stream' = Append(stream, x.task)
    BY <1>3 DEF Fire, TimerLost, queueVars
  <2>4. \A i \in 1 .. Len(stream') : stream'[i] # t
    <3>1. CASE UNCHANGED stream
      BY <3>1 DEF Started
    <3>2. CASE stream' = Append(stream, x.task)
      BY <2>1, <3>2, Pushed DEF Started
    <3> QED BY <2>3, <3>1, <3>2
  <2> QED BY <2>2, <2>4 DEF Started
<1>4. ASSUME NEW c \in Reports, Callback(c)
      PROVE  api' = api /\ db'[t] = db[t] /\ calls'[t] = calls[t] /\ ~Started(t)'
  <2>1. \A a \in CallbackActions : \A row : ~Requeues(a, row)
    BY DEF Requeues, Usual
  <2>2. UNCHANGED <<api, calls, stream, timers>>
    BY <1>4, <2>1 DEF Callback, Arrive, Find, Apply, ReportCrash, Execute, workerVars, queueVars
  <2>3. CASE Apply(c)
    <3>1. stream[report[c].msg] \in Tasks /\ stream[report[c].msg] # t
      BY <2>3 DEF Apply, TypeInv, TypeOK, ReportOK, Started
    <3>2. \E row : Save(stream[report[c].msg], row)
      BY <2>3 DEF Apply, Execute
    <3> QED BY <1>0, <2>2, <3>1, <3>2 DEF Started
  <2>4. CASE ~Apply(c)
    <3>1. UNCHANGED db
      BY <1>4, <2>4 DEF Callback, Arrive, Find, ReportCrash
    <3> QED BY <2>2, <3>1 DEF Started
  <2> QED BY <2>3, <2>4
<1>5. ASSUME Scanner
      PROVE  api' = api /\ db'[t] = db[t] /\ calls'[t] = calls[t] /\ ~Started(t)'
  <2>1. UNCHANGED <<api, calls, stream, timers>>
    BY <1>5 DEF Scanner, Scan, ScannerCrash, TimeOut, workerVars, queueVars
  <2>2. scan[t] = NoRow
    BY TakenHasRow DEF StatusOK, Taken
  <2>3. db'[t] = db[t]
    BY <1>0, <1>5, <2>2 DEF Scanner, Scan, ScannerCrash, TimeOut
  <2> QED BY <2>1, <2>3 DEF Started
<1> QED BY <1>1, <1>2, <1>3, <1>4, <1>5

\* The request works on its task alone until it has pushed it.
LEMMA NewStep ==
  ASSUME TypeInv, OutcomeInv, Usual, [Next]_vars
  PROVE  NewOK'
<1> SUFFICES ASSUME NEW t \in Tasks, api'[t] # "done"
             PROVE  db'[t] \in {NoRow, NewRow} /\ calls'[t] = << >> /\ ~Started(t)'
  BY DEF NewOK
<1> USE DEF OutcomeInv
<1>1. ASSUME NEW u \in Tasks, Api(u)
      PROVE  db'[t] \in {NoRow, NewRow} /\ calls'[t] = << >> /\ ~Started(t)'
  <2>1. UNCHANGED <<timers, calls>>
    BY <1>1 DEF Api, Create, Push, PushFails, Revert, ApiCrash
  <2>2. CASE u = t
    <3>1. UNCHANGED stream /\ api[t] # "done" /\ db'[t] \in {db[t], NewRow}
      BY <1>1, <2>2
      DEF Api, Create, Push, PushFails, Revert, ApiCrash, Usual, TypeInv, TypeOK, queueVars
    <3> QED BY <2>1, <3>1 DEF NewOK, Started
  <2>3. CASE u # t
    <3>1. api'[t] = api[t] /\ db'[t] = db[t]
      BY <1>1, <2>3
      DEF Api, Create, Push, PushFails, Revert, ApiCrash, Save, TypeInv, TypeOK
    <3>2. ~Started(t)
      BY <3>1 DEF NewOK
    <3>3. UNCHANGED stream \/ stream' = Append(stream, u)
      BY <1>1 DEF Api, Create, Push, PushFails, Revert, ApiCrash, queueVars
    <3>4. ~Started(t)'
      BY <2>1, <2>3, <3>2, <3>3, Pushed DEF Started
    <3> QED BY <2>1, <3>1, <3>4 DEF NewOK
  <2> QED BY <2>2, <2>3
<1>2. CASE \/ \E w \in Workers : Worker(w)
           \/ \E x \in timers : Fire(x) \/ TimerLost(x)
           \/ \E c \in Reports : Callback(c)
           \/ Scanner
  <2>1. api' = api
    BY <1>2 DEF Worker, Read, ReadLost, Handle, Load, Mark, Select, Call, Succeed, Record,
                Evaluate, Abort, Dead, Ack, WorkerCrash, Fire, TimerLost, Callback, Arrive, Find,
                Apply, ReportCrash, Scanner, Scan, ScannerCrash, TimeOut, queueVars, workerVars
  <2>2. db[t] \in {NoRow, NewRow} /\ calls[t] = << >> /\ ~Started(t)
    BY <2>1 DEF NewOK
  <2> QED BY <1>2, <2>2, OnlyStarted
<1>3. CASE UNCHANGED vars
  BY <1>3 DEF vars, NewOK, Started
<1> QED BY <1>1, <1>2, <1>3 DEF Next

\* A step after which nothing more is accepted, and each worker that was
\* answered keeps its entry or has let go of it.
LEMMA TakenKeeps ==
  ASSUME TypeInv, OutcomeInv, Usual, [Next]_vars, UNCHANGED accepted,
         \A d \in 1 .. cursor : stream'[d] = stream[d],
         \A w \in Workers : pc'[w] \in {"succeed", "record"} => cur'[w] \in accepted,
         \A w \in Workers : pc[w] = "succeed" =>
           \/ pc'[w] = "succeed" /\ cur'[w] = cur[w]
           \/ \A t \in Tasks : t = stream[cur[w]] => ~OnWay(t)',
         \A w \in Workers : pc'[w] = "record" =>
           \/ pc[w] = "record" /\ cur'[w] = cur[w]
           \/ \A t \in Tasks : t = stream[cur[w]]' => ~OnWay(t)',
         \A l \in logs' : \/ l \in logs
                          \/ l.msg \in accepted /\ ~OnWay(stream[l.msg])',
         \A c \in Reports : report'[c].pc # "idle" => report'[c].msg \in accepted,
         \A c \in Reports : report'[c].pc = "apply" =>
           \/ report[c].pc = "apply" /\ report'[c].msg = report[c].msg
           \/ \A t \in Tasks : t = stream[report[c].msg]' => ~OnWay(t)'
  PROVE  TakenOK'
<1> USE DEF OutcomeInv
<1>1. \A d \in accepted : /\ d \in 1 .. cursor /\ stream'[d] = stream[d]
                          /\ stream[d] \in Tasks /\ db[stream[d]] # NoRow
  BY TakenHasRow, NoRowAssumption
<1>2. \A t \in Tasks : db[t] # NoRow /\ OnWay(t)' => OnWay(t)
  BY NoneReopens
<1>3. ASSUME NEW d \in accepted, OnWay(stream[d])'
      PROVE  \E w \in Workers : cur'[w] = d /\ pc'[w] = "succeed"
  <2>1. PICK t \in Tasks : t = stream[d] /\ t = stream'[d] /\ db[t] # NoRow
    BY <1>1
  <2>2. OnWay(t)'
    BY <1>3, <2>1
  <2>3. OnWay(t)
    BY <1>2, <2>1, <2>2
  <2>4. PICK w \in Workers : cur[w] = d /\ pc[w] = "succeed"
    BY <2>1, <2>3 DEF TakenOK
  <2> QED BY <2>1, <2>2, <2>4
<1>4. \A d \in accepted : ~OnWay(stream[d]) => ~OnWay(stream[d])'
  BY <1>1, <1>2
<1>5. \A w \in Workers : pc'[w] = "record" => ~OnWay(stream[cur[w]])'
  BY <1>1, <1>4 DEF TakenOK
<1>6. \A l \in logs' : l.msg \in accepted /\ ~OnWay(stream[l.msg])'
  BY <1>4 DEF TakenOK
<1>7. \A c \in Reports : report'[c].pc = "apply" => ~OnWay(stream[report[c].msg])'
  BY <1>1, <1>4 DEF TakenOK
<1> QED BY <1>1, <1>3, <1>5, <1>6, <1>7 DEF TakenOK

\* What was accepted for a task stays accepted.
LEMMA TakenStays ==
  ASSUME TypeInv, NEW t \in Tasks, \A d \in 1 .. cursor : stream'[d] = stream[d]
  PROVE  /\ accepted \subseteq accepted' => Taken(t) \subseteq Taken(t)'
         /\ UNCHANGED accepted => Taken(t)' = Taken(t)
<1>1. \A d \in accepted : stream'[d] = stream[d]
  BY DEF TypeInv, TypeOK
<1> QED BY <1>1 DEF Taken

\* A step that leaves the row of a task alone, or writes one that says what
\* became of the task.
LEMMA StatusKeeps ==
  ASSUME TypeInv, TypeInv', OutcomeInv, Usual, [Next]_vars, accepted \subseteq accepted',
         \A d \in 1 .. cursor : stream'[d] = stream[d],
         \A t \in Tasks :
           \/ db'[t] = db[t] /\ Taken(t)' = Taken(t)
           \/ /\ OnWay(t)' => db'[t].status \in {"pending", "processing"}
              /\ db'[t].status \in {"sent", "success"} => Taken(t)' # {}
              /\ db'[t].status = "failed" /\ Taken(t)' # {} => Refuted(t)',
         \A c \in Reports : report[c].pc = "end" => report'[c] = report[c],
         \A t \in Tasks : scan'[t] # NoRow =>
           \/ scan'[t] = scan[t]
           \/ scan'[t].status = "sent" /\ ~OnWay(t)' /\ Taken(t)' # {},
         \A w \in Workers : pc'[w] \in Copying =>
           \/ pc[w] \in Copying /\ snap'[w] = snap[w]
           \/ snap'[w].status = "processing"
  PROVE  StatusOK'
<1> USE DEF OutcomeInv
<1>1. ASSUME NEW t \in Tasks
      PROVE  /\ db[t] # NoRow /\ OnWay(t)' => OnWay(t)
             /\ Taken(t) \subseteq Taken(t)'
             /\ Refuted(t) => Refuted(t)'
  <2>1. Taken(t) \subseteq Taken(t)'
    BY TakenStays
  <2> QED BY <2>1, NoneReopens DEF Refuted
<1>2. ASSUME NEW t \in Tasks, OnWay(t)'
      PROVE  db'[t] # NoRow
  <2>1. \A e \in 1 .. cursor' : e \in 1 .. Len(stream')
    BY DEF TypeInv, TypeOK
  <2> QED BY <1>2, <2>1 DEF OnWay, TypeInv, RowOK
<1>3. ASSUME NEW t \in Tasks
      PROVE  /\ OnWay(t)' => db'[t].status \in {"pending", "processing"}
             /\ HasStatus(t, {"sent", "success"})' => Taken(t)' # {}
             /\ HasStatus(t, {"failed"})' /\ Taken(t)' # {} => Refuted(t)'
  <2>1. CASE db'[t] = db[t] /\ Taken(t)' = Taken(t)
    BY <1>1, <1>2, <2>1 DEF StatusOK, HasStatus
  <2>2. CASE /\ OnWay(t)' => db'[t].status \in {"pending", "processing"}
             /\ db'[t].status \in {"sent", "success"} => Taken(t)' # {}
             /\ db'[t].status = "failed" /\ Taken(t)' # {} => Refuted(t)'
    BY <2>2 DEF HasStatus
  <2> QED BY <2>1, <2>2
<1>4. ASSUME NEW t \in Tasks, scan'[t] # NoRow
      PROVE  scan'[t].status = "sent" /\ ~OnWay(t)' /\ Taken(t)' # {}
  <2>1. CASE scan'[t] = scan[t]
    <3>1. scan[t].status = "sent" /\ ~OnWay(t) /\ Taken(t) # {} /\ db[t] # NoRow
      BY <1>4, <2>1 DEF StatusOK, TypeInv, RowOK
    <3> QED BY <1>1, <2>1, <3>1
  <2> QED BY <1>4, <2>1
<1>5. \A w \in Workers : pc'[w] \in Copying => snap'[w].status = "processing"
  BY DEF StatusOK
<1> QED BY <1>3, <1>4, <1>5 DEF StatusOK

\* A step that writes no row of a task but one.
LEMMA SaveElsewhere ==
  ASSUME TypeInv, NEW t \in Tasks, NEW u \in Tasks, u # t, NEW row, Save(t, row)
  PROVE  db'[u] = db[u]
BY DEF Save, TypeInv, TypeOK

\* The steps of the request.
LEMMA OutcomeApi ==
  ASSUME TypeInv, TypeInv', OutcomeInv, Usual, [Next]_vars, NEW t \in Tasks, Api(t)
  PROVE  TakenOK' /\ StatusOK'
<1>1. UNCHANGED <<workerVars, accepted, logs, report, scan>>
  BY DEF Api, Create, Push, PushFails, Revert, ApiCrash
<1>2. \A d \in 1 .. cursor : stream'[d] = stream[d]
  <2>1. UNCHANGED stream \/ stream' = Append(stream, t)
    BY DEF Api, Create, Push, PushFails, Revert, ApiCrash, queueVars
  <2> QED BY <2>1, Pushed
<1>3. TakenOK'
  BY <1>1, <1>2, TakenKeeps DEF TakenOK, OutcomeInv, workerVars
<1>4. \A u \in Tasks : Taken(u)' = Taken(u)
  BY <1>1, <1>2, TakenStays
<1>5. \A u \in Tasks \ {t} : db'[u] = db[u]
  BY DEF Api, Create, Push, PushFails, Revert, ApiCrash, Save, TypeInv, TypeOK
<1>6. \/ db'[t] = db[t]
      \/ db'[t].status = "pending"
      \/ db'[t].status = "failed" /\ ~OnWay(t)' /\ Taken(t)' = {}
  <2>1. CASE Create(t)
    BY <2>1 DEF Create, NewRow, TypeInv, TypeOK
  <2>2. CASE Revert(t)
    <3>1. ~Started(t) /\ api'[t] = "done" /\ UNCHANGED <<stream, cursor, timers, batch, cur, pc>>
      BY <2>2 DEF Revert, OutcomeInv, NewOK, TypeInv, TypeOK, queueVars, workerVars
    <3>2. ~Started(t)'
      BY <3>1 DEF Started
    <3>3. \A e \in 1 .. cursor' : e \in 1 .. Len(stream')
      BY DEF TypeInv, TypeOK
    <3>4. ~OnWay(t)'
      BY <3>1, <3>2, <3>3 DEF OnWay, Started
    <3>5. Taken(t) = {}
      BY <3>1, TakenHasRow DEF Taken
    <3>6. db'[t] \in {db[t], [NewRow EXCEPT !.status = "failed"]}
      BY <2>2 DEF Revert, Save, TypeInv, TypeOK
    <3> QED BY <1>4, <3>4, <3>5, <3>6 DEF NewRow
  <2>3. CASE Push(t) \/ PushFails(t) \/ ApiCrash(t)
    BY <2>3 DEF Push, PushFails, ApiCrash
  <2> QED BY <2>1, <2>2, <2>3 DEF Api
<1>7. \A u \in Tasks :
        \/ db'[u] = db[u] /\ Taken(u)' = Taken(u)
        \/ /\ OnWay(u)' => db'[u].status \in {"pending", "processing"}
           /\ db'[u].status \in {"sent", "success"} => Taken(u)' # {}
           /\ db'[u].status = "failed" /\ Taken(u)' # {} => Refuted(u)'
  BY <1>4, <1>5, <1>6
<1>8. StatusOK'
  BY <1>1, <1>2, <1>7, StatusKeeps DEF StatusOK, workerVars
<1> QED BY <1>3, <1>8

\* Reading, and the steps of a worker that write no row and call no provider.
LEMMA OutcomeQuiet ==
  ASSUME TypeInv, TypeInv', Chain, OutcomeInv, Usual, [Next]_vars, NEW w \in Workers,
         \/ Read(w) \/ ReadLost(w) \/ Load(w) \/ Select(w) \/ Record(w) \/ Dead(w)
         \/ Ack(w) \/ WorkerCrash(w)
  PROVE  TakenOK' /\ StatusOK'
<1>1. UNCHANGED <<db, stream, accepted, report, scan>>
  BY DEF Read, ReadLost, Load, Select, Record, Dead, Ack, WorkerCrash, queueVars
<1>2. \A v \in Workers \ {w} : pc'[v] = pc[v] /\ cur'[v] = cur[v] /\ snap'[v] = snap[v]
  BY DEF Read, ReadLost, Load, Select, Record, Dead, Ack, WorkerCrash, Finish, Goto, TypeInv,
         TypeOK, workerVars
<1>3. /\ pc'[w] \notin {"succeed", "record"} \/ ReadLost(w)
      /\ pc[w] = "succeed" => WorkerCrash(w)
      /\ pc[w] \in {"read", "load", "select", "record", "dead", "ack"} \/ WorkerCrash(w)
  BY DEF Read, ReadLost, Load, Select, Record, Dead, Ack, WorkerCrash, Finish, Goto, TypeInv,
         TypeOK, workerVars
<1>4. ReadLost(w) => pc'[w] = "read" /\ pc[w] = "read"
  BY DEF ReadLost, workerVars
<1>5. ASSUME pc[w] = "succeed"
      PROVE  \A t \in Tasks : t = stream[cur[w]] => ~OnWay(t)'
  <2>1. WorkerCrash(w)
    BY <1>3, <1>5
  <2>2. InHand(w, cur[w]) /\ cur[w] \in 1 .. cursor
    BY <1>5, InTheHand
  <2>3. batch'[w] = {} /\ UNCHANGED timers
    BY <2>1 DEF WorkerCrash, Finish, TypeInv, TypeOK
  <2>4. \A d : ~InHand(w, d)'
    BY <2>3 DEF InHand
  <2>5. /\ UNCHANGED <<stream, cursor, api>>
        /\ \A v \in Workers, e \in 1 .. cursor : InHand(v, e)' => InHand(v, e)
    BY <2>1, HandStep
  <2>6. PICK d \in 1 .. cursor : d = cur[w]
    BY <2>2
  <2> QED BY <2>2, <2>3, <2>4, <2>5, <2>6, HandGone
<1>6. \A l \in logs' : l \in logs \/ (l.msg \in accepted /\ ~OnWay(stream[l.msg])')
  <2>1. CASE Record(w)
    <3>1. cur[w] \in accepted /\ ~OnWay(stream[cur[w]])
      BY <2>1 DEF Record, OutcomeInv, TakenOK
    <3>2. PICK d \in accepted : d = cur[w] /\ ~OnWay(stream[d])
      BY <3>1
    <3>3. PICK t \in Tasks : t = stream[d] /\ ~OnWay(t) /\ db[t] # NoRow
      BY <3>2, TakenHasRow, NoRowAssumption
    <3>4. ~OnWay(t)'
      BY <3>3, NoneReopens
    <3>5. \A l \in logs' : l \in logs \/ l.msg = d
      BY <2>1, <3>2 DEF Record
    <3>6. stream'[d] = t
      BY <1>1, <3>3
    <3>7. ~OnWay(stream[d])'
      BY <3>4, <3>6
    <3> QED BY <3>2, <3>5, <3>7
  <2>2. CASE ~Record(w)
    <3>1. UNCHANGED logs
      BY <2>2 DEF Read, ReadLost, Load, Select, Dead, Ack, WorkerCrash
    <3> QED BY <3>1
  <2> QED BY <2>1, <2>2
<1>7. TakenOK'
  <2>1. \A v \in Workers : pc'[v] \in {"succeed", "record"} => cur'[v] \in accepted
    BY <1>2, <1>3, <1>4 DEF OutcomeInv, TakenOK
  <2>2. \A v \in Workers : pc[v] = "succeed" =>
          \/ pc'[v] = "succeed" /\ cur'[v] = cur[v]
          \/ \A t \in Tasks : t = stream[cur[v]] => ~OnWay(t)'
    BY <1>2, <1>5
  <2>3. \A v \in Workers : pc'[v] = "record" => pc[v] = "record" /\ cur'[v] = cur[v]
    BY <1>2, <1>3, <1>4
  <2> QED BY <1>1, <1>6, <2>1, <2>2, <2>3, TakenKeeps DEF OutcomeInv, TakenOK
<1>8. \A t \in Tasks : Taken(t)' = Taken(t)
  BY <1>1 DEF Taken
<1>9. \A v \in Workers : pc'[v] \in Copying =>
        \/ pc[v] \in Copying /\ snap'[v] = snap[v]
        \/ snap'[v].status = "processing"
  <2> SUFFICES ASSUME pc'[w] \in Copying
               PROVE  \/ pc[w] \in Copying /\ snap'[w] = snap[w]
                      \/ snap'[w].status = "processing"
    BY <1>2
  <2>1. CASE Load(w)
    <3>1. PICK d \in 1 .. Len(stream) :
            \/ snap' = [snap EXCEPT ![w] = [db[stream[d]] EXCEPT !.status = "processing"]]
            \/ pc'[w] = "dead"
      <4>1. Smallest(batch[w]) \in 1 .. Len(stream)
        <5>1. /\ batch[w] # {} /\ batch[w] \in SUBSET (1 .. cursor)
              /\ cursor \in 0 .. Len(stream)
          BY <2>1 DEF Load, TypeInv, WorkerOK, TypeOK
        <5>2. Smallest(batch[w]) \in batch[w]
          BY <5>1, SmallestIsIn
        <5> QED BY <5>1, <5>2
      <4> QED BY <2>1, <4>1 DEF Load, Goto, TypeInv, TypeOK
    <3>2. db[stream[d]] \in Rows
      BY DEF TypeInv, TypeOK, RowOK
    <3>3. \A r \in Rows : [r EXCEPT !.status = "processing"].status = "processing"
      BY DEF Rows
    <3>4. pc'[w] # "dead" /\ snap \in [Workers -> Rows \cup {NoRow}]
      BY DEF Copying, TypeInv, TypeOK
    <3> QED BY <3>1, <3>2, <3>3, <3>4
  <2>2. CASE Select(w)
    BY <2>2 DEF Select, Copying
  <2>3. CASE ~Load(w) /\ ~Select(w)
    BY <2>3 DEF Read, ReadLost, Record, Dead, Ack, WorkerCrash, Finish, Goto, TypeInv,
                TypeOK, Copying, workerVars
  <2> QED BY <2>1, <2>2, <2>3
<1>10. StatusOK'
  BY <1>1, <1>8, <1>9, StatusKeeps
<1> QED BY <1>7, <1>10

\* A provider is called. What it accepts is the first message of the task that
\* anybody accepted.
LEMMA OutcomeCall ==
  ASSUME TypeInv, TypeInv', Chain, OutcomeInv, Usual, [Next]_vars, NEW w \in Workers, Call(w)
  PROVE  TakenOK' /\ StatusOK'
<1>1. pc[w] = "call"
  BY DEF Call
<1>2. PICK d \in 1 .. cursor : d = cur[w]
  BY <1>1, InTheHand
<1>3. PICK t \in Tasks : t = stream[d] /\ OnWay(t) /\ Taken(t) = {} /\ db[t] # NoRow
  BY <1>1, <1>2, InTheHand, NothingTaken, NoRowAssumption DEF OutcomeInv
<1>4. /\ UNCHANGED <<db, stream, cur, snap, logs, report, scan>>
      /\ \A v \in Workers \ {w} : pc'[v] = pc[v]
  BY DEF Call, Goto, TypeInv, TypeOK, queueVars
<1>5. \/ pc'[w] = "succeed" /\ accepted' = accepted \cup {d}
      \/ pc'[w] = "evaluate" /\ accepted' = accepted
  BY <1>2 DEF Call, Goto, TypeInv, TypeOK
<1>6. \A u \in Tasks : db[u] # NoRow /\ OnWay(u)' => OnWay(u)
  BY NoneReopens
<1>7. \A e \in accepted : stream[e] \in Tasks /\ db[stream[e]] # NoRow /\ stream[e] # t
  BY <1>3, TakenHasRow, NoRowAssumption DEF Taken
<1>8. \A u \in Tasks : Taken(u)' = Taken(u) \/ u = t
  BY <1>3, <1>4, <1>5 DEF Taken
<1>9. TakenOK'
  <2>1. ASSUME NEW e \in accepted', OnWay(stream[e])'
        PROVE  \E v \in Workers : cur'[v] = e /\ pc'[v] = "succeed"
    <3>1. CASE e \in accepted
      <4>1. PICK u \in Tasks : u = stream[e] /\ db[u] # NoRow
        BY <1>7, <3>1
      <4>2. OnWay(u)'
        BY <1>4, <2>1, <4>1
      <4>3. OnWay(stream[e])
        BY <1>6, <4>1, <4>2
      <4>4. PICK v \in Workers : cur[v] = e /\ pc[v] = "succeed"
        BY <3>1, <4>3 DEF OutcomeInv, TakenOK
      <4> QED BY <1>1, <1>4, <4>4
    <3>2. CASE e \notin accepted
      BY <1>2, <1>4, <1>5, <2>1, <3>2
    <3> QED BY <3>1, <3>2
  <2>2. \A e, f \in accepted' : stream'[e] = stream'[f] => e = f
    BY <1>3, <1>4, <1>5, <1>7 DEF OutcomeInv, TakenOK
  <2>3. \A v \in Workers : pc'[v] \in {"succeed", "record"} => cur'[v] \in accepted'
    BY <1>2, <1>4, <1>5 DEF OutcomeInv, TakenOK
  <2>4. \A e \in accepted : ~OnWay(stream[e]) => ~OnWay(stream[e])'
    <3> SUFFICES ASSUME NEW e \in accepted, ~OnWay(stream[e]), OnWay(stream[e])' PROVE FALSE
      OBVIOUS
    <3>1. PICK u \in Tasks : u = stream[e] /\ db[u] # NoRow
      BY <1>7
    <3> QED BY <1>4, <1>6, <3>1
  <2>5. \A v \in Workers : pc'[v] = "record" => ~OnWay(stream[cur[v]])'
    <3> SUFFICES ASSUME NEW v \in Workers, pc'[v] = "record" PROVE ~OnWay(stream[cur[v]])'
      OBVIOUS
    <3>1. cur[v] \in accepted /\ ~OnWay(stream[cur[v]]) /\ cur'[v] = cur[v]
      BY <1>4, <1>5 DEF OutcomeInv, TakenOK
    <3> QED BY <2>4, <3>1
  <2>6. \A l \in logs' : l.msg \in accepted' /\ ~OnWay(stream[l.msg])'
    BY <1>4, <1>5, <2>4 DEF OutcomeInv, TakenOK
  <2>7. \A c \in Reports : /\ report'[c].pc # "idle" => report'[c].msg \in accepted'
                           /\ report'[c].pc = "apply" => ~OnWay(stream[report[c].msg])'
    BY <1>4, <1>5, <2>4 DEF OutcomeInv, TakenOK
  <2> QED BY <2>1, <2>2, <2>3, <2>5, <2>6, <2>7 DEF TakenOK
<1>10. db[t].status \in {"pending", "processing"}
  BY <1>3 DEF OutcomeInv, StatusOK
<1>11. StatusOK'
  BY <1>1, <1>4, <1>5, <1>8, <1>10, StatusKeeps DEF Copying
<1> QED BY <1>9, <1>11

\* A worker saves its copy: while it handles the entry, or when a provider has
\* accepted its message, or when it gives the task up.
LEMMA OutcomeSave ==
  ASSUME TypeInv, TypeInv', Chain, OutcomeInv, Usual, [Next]_vars, NEW w \in Workers,
         Mark(w) \/ Succeed(w) \/ Evaluate(w) \/ Abort(w)
  PROVE  TakenOK' /\ StatusOK'
<1>1. pc[w] \in Copying
  BY DEF Mark, Succeed, Evaluate, Abort, Copying
<1>2. PICK d \in 1 .. cursor : d = cur[w] /\ InHand(w, d)
  BY <1>1, InTheHand DEF Copying
<1>3. PICK t \in Tasks : t = stream[d] /\ OnWay(t)
  BY <1>1, <1>2, InTheHand DEF Copying
<1>4. snap[w] \in Rows /\ snap[w].status = "processing"
  BY <1>1 DEF TypeInv, WorkerOK, OutcomeInv, StatusOK
<1>5. /\ UNCHANGED <<stream, cursor, api, cur, batch, snap, accepted, logs, report, scan>>
      /\ \A v \in Workers \ {w} : pc'[v] = pc[v]
  BY DEF Mark, Succeed, Evaluate, Abort, Goto, TypeInv, TypeOK, queueVars
<1>6. \A s \in Statuses : [snap[w] EXCEPT !.status = s].status = s
  BY <1>4 DEF Rows
<1>7. ASSUME pc'[w] \in {"record", "dead", "ack"}, UNCHANGED timers
      PROVE  ~OnWay(t)'
  <2>1. ~InHand(w, d)'
    BY <1>2, <1>5, <1>7 DEF InHand
  <2>2. \A v \in Workers, e \in 1 .. cursor : InHand(v, e)' => InHand(v, e)
    BY HandStep
  <2> QED BY <1>2, <1>3, <1>5, <1>7, <2>1, <2>2, HandGone
<1>8. \A u \in Tasks : Taken(u)' = Taken(u)
  BY <1>5 DEF Taken
<1>9. CASE Mark(w)
  <2>1. pc[w] = "mark" /\ pc'[w] = "select" /\ db' \in {db, [db EXCEPT ![t] = snap[w]]}
    BY <1>2, <1>3, <1>9 DEF Mark, Goto, Save, TypeInv, TypeOK
  <2>2. \A u \in Tasks : db'[u] = db[u] \/ db'[u].status = "processing"
    BY <1>4, <2>1 DEF TypeInv, TypeOK
  <2>3. TakenOK'
    BY <1>5, <2>1, TakenKeeps DEF OutcomeInv, TakenOK
  <2>4. StatusOK'
    BY <1>1, <1>5, <1>8, <2>2, StatusKeeps DEF Copying
  <2> QED BY <2>3, <2>4
<1>10. CASE Succeed(w)
  <2>1. /\ pc[w] = "succeed" /\ pc'[w] = "record"
        /\ \E s \in {"sent", "success"} :
             db' \in {db, [db EXCEPT ![t] = [snap[w] EXCEPT !.status = s]]}
    BY <1>2, <1>3, <1>10 DEF Succeed, Goto, Save, TypeInv, TypeOK
  <2>2. ~OnWay(t)'
    BY <1>7, <1>10, <2>1 DEF Succeed
  <2>3. d \in accepted /\ d \in Taken(t)
    BY <1>2, <1>3, <2>1 DEF OutcomeInv, TakenOK, Taken
  <2>4. \A u \in Tasks : db'[u] = db[u] \/ (u = t /\ db'[u].status \in {"sent", "success"})
    BY <1>6, <2>1 DEF TypeInv, TypeOK, Statuses
  <2>5. TakenOK'
    BY <1>2, <1>3, <1>5, <2>1, <2>2, <2>3, TakenKeeps DEF OutcomeInv, TakenOK
  <2>6. StatusOK'
    BY <1>5, <1>8, <2>1, <2>2, <2>3, <2>4, StatusKeeps DEF Copying
  <2> QED BY <2>5, <2>6
<1>11. CASE Evaluate(w) \/ Abort(w)
  <2>1. pc[w] \in {"evaluate", "abort"} /\ pc'[w] \in {"dead", "ack"}
    BY <1>11 DEF Evaluate, Abort, Goto, TypeInv, TypeOK
  <2>2. Taken(t) = {}
    BY <1>2, <1>3, <2>1, NothingTaken DEF OutcomeInv
  <2>3. PICK row : /\ db' \in {db, [db EXCEPT ![t] = row]}
                   /\ row.status \in {"processing", "failed"}
                   /\ row.status = "failed" => UNCHANGED timers
    <3>1. CASE Abort(w)
      <4>1. PICK row : row = [snap[w] EXCEPT !.status = "failed"]
        OBVIOUS
      <4>2. row.status = "failed"
        BY <1>6, <4>1 DEF Statuses
      <4>3. db' \in {db, [db EXCEPT ![t] = row]} /\ UNCHANGED timers
        BY <1>2, <1>3, <3>1, <4>1 DEF Abort, Save
      <4> QED BY <4>2, <4>3
    <3>2. CASE Evaluate(w)
      <4>1. PICK a \in SendActions : Execute(a, d, t, snap[w], prov[w])
        BY <1>2, <1>3, <3>2 DEF Evaluate
      <4>2. CASE Requeues(a, snap[w])
        <5>1. Outcome(a, snap[w], prov[w]).status = "processing"
          <6> DEFINE E == IF a = "switch_provider" /\ ExcludeCurrent
                          THEN snap[w].exclude \cup prov[w] ELSE snap[w].exclude
          <6>1. Outcome(a, snap[w], prov[w])
                  = [snap[w] EXCEPT !.retries = snap[w].retries + 1, !.exclude = E]
            BY <4>2 DEF Outcome
          <6> HIDE DEF E
          <6> QED BY <1>4, <6>1 DEF Rows
        <5> QED BY <4>1, <5>1 DEF Execute, Save
      <4>3. CASE ~Requeues(a, snap[w])
        <5>1. Outcome(a, snap[w], prov[w]).status = "failed"
          BY <1>6, <4>3 DEF Outcome, Statuses
        <5> QED BY <4>1, <4>3, <5>1 DEF Execute, Save
      <4> QED BY <4>2, <4>3
    <3> QED BY <1>11, <3>1, <3>2
  <2>4. \A u \in Tasks :
          \/ db'[u] = db[u]
          \/ u = t /\ db'[u].status = "processing"
          \/ u = t /\ db'[u].status = "failed" /\ ~OnWay(t)'
    BY <1>7, <2>1, <2>3 DEF TypeInv, TypeOK
  <2>5. TakenOK'
    BY <1>5, <2>1, TakenKeeps DEF OutcomeInv, TakenOK
  <2>6. StatusOK'
    BY <1>5, <1>8, <2>1, <2>2, <2>4, StatusKeeps DEF Copying
  <2> QED BY <2>5, <2>6
<1> QED BY <1>9, <1>10, <1>11

\* A goroutine pushes a task that is on its way, or does not live to do so.
LEMMA OutcomeTimer ==
  ASSUME TypeInv, TypeInv', OutcomeInv, Usual, [Next]_vars,
         NEW x \in timers, Fire(x) \/ TimerLost(x)
  PROVE  TakenOK' /\ StatusOK'
<1>1. UNCHANGED <<db, workerVars, accepted, logs, report, scan>>
  BY DEF Fire, TimerLost
<1>2. \A d \in 1 .. cursor : stream'[d] = stream[d]
  <2>1. UNCHANGED stream \/ stream' = Append(stream, x.task)
    BY DEF Fire, TimerLost, queueVars
  <2>2. x.task \in Tasks
    BY DEF TypeInv, TypeOK
  <2> QED BY <2>1, <2>2, Pushed
<1>3. \A u \in Tasks : Taken(u)' = Taken(u)
  BY <1>1, <1>2, TakenStays
<1>4. TakenOK'
  BY <1>1, <1>2, TakenKeeps DEF OutcomeInv, TakenOK, workerVars
<1>5. StatusOK'
  BY <1>1, <1>2, <1>3, StatusKeeps DEF workerVars
<1> QED BY <1>4, <1>5

\* The report of a message that was accepted, and its log, let a row be found.
LEMMA OutcomeCallback ==
  ASSUME TypeInv, TypeInv', OutcomeInv, Usual, [Next]_vars, NEW c \in Reports, Callback(c)
  PROVE  TakenOK' /\ StatusOK'
<1> USE DEF OutcomeInv
<1>1. UNCHANGED <<queueVars, workerVars, accepted, logs, scan>>
  BY DEF Callback, Arrive, Find, Apply, ReportCrash
<1>2. \A u \in Tasks : Taken(u)' = Taken(u)
  BY <1>1 DEF Taken, queueVars
<1>3. /\ \A e \in Reports \ {c} : report'[e] = report[e]
      /\ report[c].pc # "end"
      /\ report'[c].pc # "idle" => report'[c].msg \in accepted
      /\ report'[c].pc = "apply" => \E l \in logs : l.msg = report'[c].msg
  <2>1. report[c] \in ReportState
    BY DEF TypeInv, TypeOK
  <2>2. CASE Arrive(c)
    BY <2>1, <2>2 DEF Arrive, TypeInv, TypeOK, ReportState
  <2>3. CASE Find(c)
    <3>1. report[c].pc = "find" /\ report[c].msg \in accepted
      BY <2>3 DEF Find, TakenOK
    <3>2. CASE \E l \in logs : /\ l.msg = report[c].msg
                               /\ report' = [report EXCEPT ![c].pc = "apply",
                                    ![c].row = db[stream[report[c].msg]], ![c].via = l.via]
      <4>1. PICK l \in logs : /\ l.msg = report[c].msg
                              /\ report' = [report EXCEPT ![c].pc = "apply",
                                    ![c].row = db[stream[report[c].msg]], ![c].via = l.via]
        BY <3>2
      <4>2. report'[c].pc = "apply" /\ report'[c].msg = report[c].msg
        BY <2>1, <4>1 DEF TypeInv, TypeOK, ReportState
      <4>3. \A e \in Reports \ {c} : report'[e] = report[e]
        BY <4>1 DEF TypeInv, TypeOK
      <4> QED BY <3>1, <4>1, <4>2, <4>3
    <3>3. CASE report' = [report EXCEPT ![c].pc = "end"]
      <4>1. report'[c].pc = "end" /\ report'[c].msg = report[c].msg
        BY <2>1, <3>3 DEF TypeInv, TypeOK, ReportState
      <4>2. \A e \in Reports \ {c} : report'[e] = report[e]
        BY <3>3 DEF TypeInv, TypeOK
      <4> QED BY <3>1, <4>1, <4>2
    <3> QED BY <2>3, <3>2, <3>3 DEF Find
  <2>4. CASE Apply(c) \/ ReportCrash(c)
    <3>1. report[c].pc = "apply" /\ report[c].msg \in accepted
      BY <2>4 DEF Apply, ReportCrash, TakenOK
    <3>2. report' = [report EXCEPT ![c].pc = "end", ![c].row = NoRow]
      BY <2>4 DEF Apply, ReportCrash
    <3>3. report'[c].pc = "end" /\ report'[c].msg = report[c].msg
      BY <2>1, <3>2 DEF TypeInv, TypeOK, ReportState
    <3>4. \A e \in Reports \ {c} : report'[e] = report[e]
      BY <3>2 DEF TypeInv, TypeOK
    <3> QED BY <3>1, <3>3, <3>4
  <2> QED BY <2>2, <2>3, <2>4 DEF Callback
<1>4. ASSUME report'[c].pc = "apply"
      PROVE  \A t \in Tasks : t = stream[report[c].msg]' => ~OnWay(t)'
  <2>1. PICK l \in logs : l.msg = report'[c].msg
    BY <1>3, <1>4
  <2>2. l.msg \in accepted /\ ~OnWay(stream[l.msg])
    BY DEF TakenOK
  <2>3. PICK d \in accepted : d = l.msg /\ ~OnWay(stream[d])
    BY <2>2
  <2>4. PICK t \in Tasks : t = stream[d] /\ ~OnWay(t) /\ db[t] # NoRow
    BY <2>3, TakenHasRow, NoRowAssumption
  <2>5. ~OnWay(t)'
    BY <2>4, NoneReopens
  <2> QED BY <1>1, <2>1, <2>3, <2>4, <2>5 DEF queueVars
<1>5. TakenOK'
  <2>1. \A e \in Reports : report'[e].pc # "idle" => report'[e].msg \in accepted
    BY <1>3 DEF TakenOK
  <2>2. \A e \in Reports : report'[e].pc = "apply" =>
          \/ report[e].pc = "apply" /\ report'[e].msg = report[e].msg
          \/ \A t \in Tasks : t = stream[report[e].msg]' => ~OnWay(t)'
    BY <1>3, <1>4
  <2> QED BY <1>1, <2>1, <2>2, TakenKeeps DEF TakenOK, workerVars, queueVars
<1>6. \A e \in Reports : report[e].pc = "end" => report'[e] = report[e]
  BY <1>3
<1>7. CASE ~Apply(c)
  <2>1. UNCHANGED db
    BY <1>7 DEF Callback, Arrive, Find, ReportCrash
  <2>2. StatusOK'
    BY <1>1, <1>2, <1>6, <2>1, StatusKeeps DEF workerVars, queueVars
  <2> QED BY <1>5, <2>2
<1>8. CASE Apply(c)
  <2>1. PICK d \in accepted : d = report[c].msg /\ ~OnWay(stream[d])
    BY <1>8 DEF Apply, TakenOK
  <2>2. PICK t \in Tasks : t = stream[d] /\ ~OnWay(t) /\ db[t] # NoRow
    BY <2>1, TakenHasRow, NoRowAssumption
  <2>3. ~OnWay(t)' /\ d \in Taken(t)'
    BY <1>2, <2>1, <2>2, NoneReopens DEF Taken
  <2>4. report[c].pc = "apply" /\ report[c] \in ReportState /\ report[c].row \in Rows
    BY <1>8 DEF Apply, TypeInv, TypeOK, ReportOK
  <2>5. report'[c].pc = "end" /\ report'[c].verdict = report[c].verdict /\ report'[c].msg = d
    BY <1>8, <2>1, <2>4 DEF Apply, TypeInv, TypeOK, ReportState
  <2>6. \A r \in Rows : \A v \in Verdicts : [r EXCEPT !.cb = v] \in Rows
    BY DEF Rows
  <2>7. \A r \in Rows : \A s \in Statuses : [r EXCEPT !.status = s].status = s
    BY DEF Rows
  <2>8. report[c].verdict \in Verdicts
    BY <2>4 DEF ReportState
  <2>9. PICK row : /\ db' \in {db, [db EXCEPT ![t] = row]}
                   /\ \/ row.status = "success"
                      \/ row.status = "failed" /\ report[c].verdict = "failed"
    <3> DEFINE base == [report[c].row EXCEPT !.cb = report[c].verdict]
    <3>1. base \in Rows
      BY <2>4, <2>6, <2>8
    <3>2. CASE report[c].verdict = "delivered"
      <4>1. PICK row : row = [base EXCEPT !.status = "success"]
        OBVIOUS
      <4>2. db' \in {db, [db EXCEPT ![t] = row]}
        BY <1>8, <2>1, <2>2, <3>2, <4>1 DEF Apply, Save
      <4>3. row.status = "success"
        <5> HIDE DEF base
        <5> QED BY <2>7, <3>1, <4>1 DEF Statuses
      <4> HIDE DEF base
      <4> QED BY <4>2, <4>3
    <3>3. CASE report[c].verdict = "failed"
      <4>1. PICK a \in CallbackActions : Save(t, Outcome(a, base, report[c].via))
        BY <1>8, <2>1, <2>2, <3>3 DEF Apply, Execute
      <4>2. ~Requeues(a, base)
        BY DEF Usual, Requeues
      <4>3. Outcome(a, base, report[c].via).status = "failed"
        <5> HIDE DEF base
        <5> QED BY <2>7, <3>1, <4>2 DEF Outcome, Statuses
      <4> QED BY <3>3, <4>1, <4>3 DEF Save
    <3> QED BY <2>8, <3>2, <3>3 DEF Verdicts
  <2>10. \A u \in Tasks :
           \/ db'[u] = db[u] /\ Taken(u)' = Taken(u)
           \/ u = t /\ db'[u].status = "success"
           \/ u = t /\ db'[u].status = "failed" /\ report'[c].verdict = "failed"
    BY <1>2, <2>5, <2>9 DEF TypeInv, TypeOK
  <2>11. report'[c].verdict = "failed" => Refuted(t)'
    BY <2>3, <2>5 DEF Refuted
  <2>12. StatusOK'
    BY <1>1, <1>6, <2>3, <2>10, <2>11, StatusKeeps DEF workerVars, queueVars
  <2> QED BY <1>5, <2>12
<1> QED BY <1>7, <1>8

\* The scanner reads and writes rows of tasks that are on their way no more.
LEMMA OutcomeScanner ==
  ASSUME TypeInv, TypeInv', OutcomeInv, Usual, [Next]_vars, Scanner
  PROVE  TakenOK' /\ StatusOK'
<1> USE DEF OutcomeInv
<1>1. UNCHANGED <<queueVars, workerVars, accepted, logs, report>>
  BY DEF Scanner, Scan, ScannerCrash, TimeOut
<1>2. \A u \in Tasks : Taken(u)' = Taken(u)
  BY <1>1 DEF Taken, queueVars
<1>3. TakenOK'
  BY <1>1, TakenKeeps DEF TakenOK, workerVars, queueVars
<1>4. \A u \in Tasks : db[u] # NoRow /\ OnWay(u)' => OnWay(u)
  BY NoneReopens
<1>5. CASE Scan \/ ScannerCrash
  <2>1. ASSUME NEW u \in Tasks, scan'[u] # NoRow
        PROVE  scan'[u].status = "sent" /\ ~OnWay(u)' /\ Taken(u)' # {}
    <3>1. HasStatus(u, {"sent"}) /\ scan'[u] = db[u]
      BY <1>5, <2>1 DEF Scan, ScannerCrash
    <3>2. ~OnWay(u) /\ Taken(u) # {} /\ db[u] # NoRow
      BY <3>1 DEF HasStatus, StatusOK
    <3> QED BY <1>2, <1>4, <3>1, <3>2 DEF HasStatus
  <2>2. UNCHANGED db
    BY <1>5 DEF Scan, ScannerCrash
  <2> QED BY <1>1, <1>2, <1>3, <2>1, <2>2, StatusKeeps DEF workerVars, queueVars
<1>6. ASSUME NEW t \in Tasks, TimeOut(t)
      PROVE  StatusOK'
  <2>1. scan[t] \in Rows /\ scan[t].status = "sent" /\ ~OnWay(t) /\ Taken(t) # {} /\ db[t] # NoRow
    BY <1>6 DEF TimeOut, TypeInv, TypeOK, RowOK, StatusOK
  <2>2. [scan[t] EXCEPT !.cb = "timeout"].status = "sent"
    BY <2>1 DEF Rows
  <2>3. \A u \in Tasks : db'[u] = db[u] \/ (u = t /\ db'[u].status = "sent")
    BY <1>6, <2>2 DEF TimeOut, Save, TypeInv, TypeOK
  <2>4. ~OnWay(t)' /\ Taken(t)' # {}
    BY <1>2, <1>4, <2>1
  <2>5. \A u \in Tasks : scan'[u] # NoRow => scan'[u] = scan[u]
    BY <1>6 DEF TimeOut, TypeInv, TypeOK
  <2> QED BY <1>1, <1>2, <2>3, <2>4, <2>5, StatusKeeps DEF workerVars, queueVars
<1> QED BY <1>3, <1>5, <1>6 DEF Scanner

\* Every step keeps the invariant.
LEMMA OutcomeStep ==
  ASSUME Usual
  PROVE  TypeInv /\ Chain /\ OutcomeInv /\ [Next]_vars => OutcomeInv'
<1> SUFFICES ASSUME TypeInv, Chain, OutcomeInv, [Next]_vars PROVE OutcomeInv'
  OBVIOUS
<1>1. TypeInv' /\ NewOK'
  BY TypeStep, NewStep
<1> SUFFICES TakenOK' /\ StatusOK'
  BY <1>1 DEF OutcomeInv
<1>2. ASSUME NEW t \in Tasks, Api(t) PROVE TakenOK' /\ StatusOK'
  BY <1>1, <1>2, OutcomeApi
<1>3. ASSUME NEW w \in Workers, Worker(w) PROVE TakenOK' /\ StatusOK'
  BY <1>1, <1>3, OutcomeQuiet, OutcomeCall, OutcomeSave DEF Worker, Handle
<1>4. ASSUME NEW x \in timers, Fire(x) \/ TimerLost(x) PROVE TakenOK' /\ StatusOK'
  BY <1>1, <1>4, OutcomeTimer
<1>5. ASSUME NEW c \in Reports, Callback(c) PROVE TakenOK' /\ StatusOK'
  BY <1>1, <1>5, OutcomeCallback
<1>6. CASE Scanner
  BY <1>1, <1>6, OutcomeScanner
<1>7. CASE UNCHANGED vars
  <2>1. \A t \in Tasks : OnWay(t)' <=> OnWay(t)
    BY <1>7 DEF vars, OnWay, InHand
  <2>2. UNCHANGED <<db, stream, cursor, pc, cur, snap, accepted, logs, report, scan>>
    BY <1>7 DEF vars
  <2>3. \A t \in Tasks : Taken(t)' = Taken(t)
    BY <2>2 DEF Taken
  <2>4. TakenOK'
    BY <2>2, TakenKeeps DEF OutcomeInv, TakenOK
  <2>5. StatusOK'
    BY <1>1, <2>2, <2>3, StatusKeeps
  <2> QED BY <2>4, <2>5
<1> QED BY <1>2, <1>3, <1>4, <1>5, <1>6, <1>7 DEF Next

\* So it holds for ever.
LEMMA OutcomeInvariant ==
  ASSUME Usual
  PROVE  Spec => [](TypeInv /\ Chain /\ OutcomeInv)
<1>1. Spec => [](TypeInv /\ Chain)
  BY ChainInvariant DEF Usual
<1>2. Init => OutcomeInv
  <2> SUFFICES ASSUME Init PROVE OutcomeInv
    OBVIOUS
  <2> USE DEF Init
  <2>1. NewOK
    BY DEF NewOK, Started
  <2>2. TakenOK
    BY DEF TakenOK
  <2>3. StatusOK
    BY DEF StatusOK, HasStatus, OnWay, InHand, Copying
  <2> QED BY <2>1, <2>2, <2>3 DEF OutcomeInv
<1>3. TypeInv /\ Chain /\ OutcomeInv /\ [Next]_vars => OutcomeInv'
  BY OutcomeStep
<1> QED BY <1>1, <1>2, <1>3, PTL DEF Spec

\* Whatever crashes or fails, and whichever copies of a row are saved in which
\* order, a row never claims a message that no provider accepted, and never
\* gives up a message that a provider accepted and did not report as failed.
THEOREM StatusHonestHolds ==
  ASSUME CallbackActions \cap Requeueing = {}, ~AmbiguousPush
  PROVE  Spec => []StatusHonest
<1>1. Spec => [](TypeInv /\ Chain /\ OutcomeInv)
  BY OutcomeInvariant DEF Usual
<1>2. OutcomeInv => StatusHonest
  BY DEF OutcomeInv, StatusOK, StatusHonest, Refuted, Taken
<1> QED BY <1>1, <1>2, PTL

-----------------------------------------------------------------------------
(* How often a provider is called *)

\* A worker that saves its copy for the last time lets go of the task.
LEMMA LetsGo ==
  ASSUME TypeInv, Chain, NEW w \in Workers, pc[w] \in Copying, UNCHANGED timers,
         Succeed(w) \/ Evaluate(w) \/ Abort(w) \/ WorkerCrash(w),
         NEW t \in Tasks, t = stream[cur[w]]
  PROVE  ~OnWay(t)'
<1>1. PICK d \in 1 .. cursor : d = cur[w] /\ InHand(w, d)
  BY InTheHand DEF Copying
<1>2. ~InHand(w, d)'
  <2>1. CASE Succeed(w) \/ Evaluate(w) \/ Abort(w)
    <3>1. pc'[w] \in {"record", "dead", "ack"} /\ cur'[w] = cur[w]
      BY <2>1 DEF Succeed, Evaluate, Abort, Goto, TypeInv, TypeOK
    <3> QED BY <1>1, <3>1 DEF InHand
  <2>2. CASE WorkerCrash(w)
    BY <2>2 DEF WorkerCrash, Finish, InHand, TypeInv, TypeOK
  <2> QED BY <2>1, <2>2
<1>3. /\ UNCHANGED <<stream, cursor, api>>
      /\ \A v \in Workers, e \in 1 .. cursor : InHand(v, e)' => InHand(v, e)
  BY HandStep
<1> QED BY <1>1, <1>2, <1>3, HandGone

\* While a task is on its way, only the worker that handles it writes its row:
\* when it marks it, and when its action pushes it again.
LEMMA RowKept ==
  ASSUME TypeInv, TypeInv', Chain, OutcomeInv, Usual, [Next]_vars,
         NEW t \in Tasks, db[t] # NoRow, OnWay(t)'
  PROVE  \/ db'[t] = db[t]
         \/ \E w \in Workers : Mark(w) /\ t = stream[cur[w]] /\ db'[t] = snap[w]
         \/ \E w \in Workers : \E a \in SendActions :
              /\ Evaluate(w) /\ t = stream[cur[w]] /\ Requeues(a, snap[w])
              /\ db'[t] = Outcome(a, snap[w], prov[w])
<1>0. OnWay(t)
  BY NoneReopens
<1>1. ASSUME NEW u \in Tasks, Api(u) PROVE db'[t] = db[t]
  <2>1. CASE u = t
    <3>1. ~Revert(t)
      <4> SUFFICES ASSUME Revert(t) PROVE FALSE
        OBVIOUS
      <4>1. ~Started(t) /\ api[t] = "revert"
        BY DEF Revert, OutcomeInv, NewOK
      <4>2. \A e \in 1 .. cursor : e \in 1 .. Len(stream)
        BY DEF TypeInv, TypeOK
      <4> QED BY <1>0, <4>1, <4>2 DEF OnWay, Started
    <3>2. ~Create(t)
      BY DEF Create, TypeInv, RowOK
    <3> QED BY <1>1, <2>1, <3>1, <3>2 DEF Api, Push, PushFails, ApiCrash
  <2>2. CASE u # t
    BY <1>1, <2>2 DEF Api, Create, Push, PushFails, Revert, ApiCrash, Save, TypeInv, TypeOK
  <2> QED BY <2>1, <2>2
<1>2. ASSUME NEW w \in Workers, Mark(w) \/ Succeed(w) \/ Evaluate(w) \/ Abort(w)
      PROVE  \/ db'[t] = db[t]
             \/ Mark(w) /\ t = stream[cur[w]] /\ db'[t] = snap[w]
             \/ \E a \in SendActions :
                  /\ Evaluate(w) /\ t = stream[cur[w]] /\ Requeues(a, snap[w])
                  /\ db'[t] = Outcome(a, snap[w], prov[w])
  <2>1. pc[w] \in Copying /\ stream[cur[w]] \in Tasks
    BY <1>2, Busy DEF Mark, Succeed, Evaluate, Abort, Copying
  <2>2. CASE stream[cur[w]] # t
    <3>1. \E row : Save(stream[cur[w]], row)
      BY <1>2 DEF Mark, Succeed, Evaluate, Execute, Abort
    <3> QED BY <2>1, <2>2, <3>1, SaveElsewhere
  <2>3. CASE stream[cur[w]] = t /\ Mark(w)
    BY <2>3 DEF Mark, Save, TypeInv, TypeOK
  <2>4. CASE stream[cur[w]] = t /\ Evaluate(w)
    <3>1. PICK a \in SendActions : Execute(a, cur[w], t, snap[w], prov[w])
      BY <2>4 DEF Evaluate
    <3>2. db'[t] \in {db[t], Outcome(a, snap[w], prov[w])}
      BY <3>1 DEF Execute, Save, TypeInv, TypeOK
    <3>3. CASE Requeues(a, snap[w])
      BY <2>4, <3>2, <3>3
    <3>4. CASE ~Requeues(a, snap[w])
      <4>1. UNCHANGED timers
        BY <3>1, <3>4 DEF Execute
      <4>2. ~OnWay(t)'
        BY <2>1, <2>4, <4>1, LetsGo DEF Evaluate
      <4> QED BY <4>2
    <3> QED BY <3>3, <3>4
  <2>5. CASE stream[cur[w]] = t /\ (Succeed(w) \/ Abort(w))
    <3>1. UNCHANGED timers
      BY <2>5 DEF Succeed, Abort
    <3>2. ~OnWay(t)'
      BY <2>1, <2>5, <3>1, LetsGo DEF Succeed, Abort
    <3> QED BY <3>2
  <2> QED BY <1>2, <2>2, <2>3, <2>4, <2>5
<1>3. ASSUME NEW w \in Workers,
             \/ Read(w) \/ ReadLost(w) \/ Load(w) \/ Select(w) \/ Call(w) \/ Record(w)
             \/ Dead(w) \/ Ack(w) \/ WorkerCrash(w)
      PROVE  db'[t] = db[t]
  BY <1>3 DEF Read, ReadLost, Load, Select, Call, Record, Dead, Ack, WorkerCrash, queueVars
<1>4. ASSUME NEW x \in timers, Fire(x) \/ TimerLost(x) PROVE db'[t] = db[t]
  BY <1>4 DEF Fire, TimerLost
<1>5. ASSUME NEW c \in Reports, Callback(c) PROVE db'[t] = db[t]
  <2>1. CASE Apply(c)
    <3>1. report[c].msg \in accepted /\ ~OnWay(stream[report[c].msg])
      BY <2>1 DEF Apply, OutcomeInv, TakenOK
    <3>2. stream[report[c].msg] \in Tasks /\ stream[report[c].msg] # t
      BY <1>0, <3>1, TakenHasRow
    <3>3. \E row : Save(stream[report[c].msg], row)
      BY <2>1 DEF Apply, Execute
    <3> QED BY <3>2, <3>3, SaveElsewhere
  <2>2. CASE ~Apply(c)
    BY <1>5, <2>2 DEF Callback, Arrive, Find, ReportCrash
  <2> QED BY <2>1, <2>2
<1>6. CASE Scanner
  <2>1. scan[t] = NoRow
    BY <1>0 DEF OutcomeInv, StatusOK
  <2>2. ASSUME NEW u \in Tasks, TimeOut(u) PROVE db'[t] = db[t]
    <3>1. u # t /\ \E row : Save(u, row)
      BY <2>1, <2>2 DEF TimeOut
    <3> QED BY <3>1, SaveElsewhere
  <2> QED BY <1>6, <2>2 DEF Scanner, Scan, ScannerCrash
<1>7. CASE UNCHANGED vars
  BY <1>7 DEF vars
<1> QED BY <1>1, <1>2, <1>3, <1>4, <1>5, <1>6, <1>7 DEF Next, Worker, Handle

\* The copy a worker saves is the row, but for its status: nobody has counted an
\* attempt, excluded a provider or noted a report in the row since it was read.
Agrees(copy, row) ==
  copy.retries = row.retries /\ copy.exclude = row.exclude /\ copy.cb = row.cb

CopyOK == \A w \in Workers : pc[w] \in Copying => Agrees(snap[w], db[stream[cur[w]]])

\* What a worker holds changes in its own steps alone, and no entry ever changes.
LEMMA OwnSteps ==
  ASSUME TypeInv, [Next]_vars, NEW w \in Workers
  PROVE  /\ \/ Worker(w)
            \/ /\ pc'[w] = pc[w] /\ cur'[w] = cur[w] /\ snap'[w] = snap[w]
               /\ prov'[w] = prov[w] /\ batch'[w] = batch[w]
         /\ \A d \in 1 .. cursor : stream'[d] = stream[d]
<1>1. ASSUME NEW t \in Tasks, Api(t)
      PROVE  UNCHANGED workerVars /\ \A d \in 1 .. cursor : stream'[d] = stream[d]
  <2>1. UNCHANGED workerVars /\ (UNCHANGED stream \/ stream' = Append(stream, t))
    BY <1>1 DEF Api, Create, Push, PushFails, Revert, ApiCrash, queueVars
  <2> QED BY <2>1, Pushed
<1>2. ASSUME NEW v \in Workers, Worker(v)
      PROVE  /\ UNCHANGED stream
             /\ \/ v = w
                \/ /\ pc'[w] = pc[w] /\ cur'[w] = cur[w] /\ snap'[w] = snap[w]
                   /\ prov'[w] = prov[w] /\ batch'[w] = batch[w]
  BY <1>2 DEF Worker, Handle, Read, ReadLost, Load, Mark, Select, Call, Succeed, Record,
              Evaluate, Abort, Dead, Ack, WorkerCrash, Finish, Goto, TypeInv, TypeOK, queueVars,
              workerVars
<1>3. ASSUME NEW x \in timers, Fire(x) \/ TimerLost(x)
      PROVE  UNCHANGED workerVars /\ \A d \in 1 .. cursor : stream'[d] = stream[d]
  <2>1. /\ UNCHANGED workerVars /\ (UNCHANGED stream \/ stream' = Append(stream, x.task))
        /\ x.task \in Tasks
    BY <1>3 DEF Fire, TimerLost, queueVars, TypeInv, TypeOK
  <2> QED BY <2>1, Pushed
<1>4. ASSUME NEW c \in Reports, Callback(c) PROVE UNCHANGED <<workerVars, stream>>
  BY <1>4 DEF Callback, Arrive, Find, Apply, ReportCrash, queueVars
<1>5. ASSUME Scanner PROVE UNCHANGED <<workerVars, stream>>
  BY <1>5 DEF Scanner, Scan, ScannerCrash, TimeOut, queueVars
<1>6. ASSUME UNCHANGED vars PROVE UNCHANGED <<workerVars, stream>>
  BY <1>6 DEF vars, workerVars
<1> QED BY <1>1, <1>2, <1>3, <1>4, <1>5, <1>6 DEF Next, workerVars

\* Where the copy of a worker comes from.
LEMMA CopyKept ==
  ASSUME TypeInv, [Next]_vars, NEW w \in Workers, pc'[w] \in Copying
  PROVE  \/ /\ pc[w] \in Copying /\ snap'[w] = snap[w] /\ cur'[w] = cur[w]
            /\ stream'[cur[w]] = stream[cur[w]]
            /\ ~Evaluate(w) /\ ~Succeed(w) /\ ~Abort(w)
         \/ /\ pc'[w] = "mark" /\ UNCHANGED <<db, stream, calls, faults>>
            /\ db[stream[cur'[w]]] \in Rows
            /\ snap'[w] = [db[stream[cur'[w]]] EXCEPT !.status = "processing"]
<1>1. CASE ~Worker(w)
  <2>1. pc[w] \in Copying /\ cur[w] \in 1 .. cursor
    BY <1>1, OwnSteps, Busy DEF Copying
  <2>2. ~Evaluate(w) /\ ~Succeed(w) /\ ~Abort(w)
    BY <1>1 DEF Worker, Handle
  <2> QED BY <1>1, <2>1, <2>2, OwnSteps
<1>2. CASE Mark(w) \/ Select(w) \/ Call(w)
  BY <1>2 DEF Mark, Select, Call, Evaluate, Succeed, Abort, Copying, queueVars
<1>3. CASE Load(w)
  <2>1. PICK d \in 1 .. Len(stream) : d = Smallest(batch[w])
    <3>1. /\ batch[w] # {} /\ batch[w] \in SUBSET (1 .. cursor)
          /\ cursor \in 0 .. Len(stream)
      BY <1>3 DEF Load, TypeInv, WorkerOK, TypeOK
    <3> QED BY <3>1, SmallestIsIn
  <2>2. /\ cur' = [cur EXCEPT ![w] = d] /\ UNCHANGED <<db, stream, calls>>
        /\ \/ /\ snap' = [snap EXCEPT ![w] = [db[stream[d]] EXCEPT !.status = "processing"]]
              /\ pc' = [pc EXCEPT ![w] = "mark"] /\ UNCHANGED faults
           \/ pc' = [pc EXCEPT ![w] = "dead"]
    BY <1>3, <2>1 DEF Load, Goto, queueVars
  <2>3. db[stream[d]] \in Rows
    BY DEF TypeInv, TypeOK, RowOK
  <2>4. pc'[w] # "dead"
    BY DEF Copying
  <2> QED BY <2>2, <2>3, <2>4 DEF TypeInv, TypeOK
<1>4. CASE Read(w) \/ ReadLost(w) \/ Record(w) \/ Dead(w) \/ Ack(w) \/ WorkerCrash(w)
             \/ Succeed(w) \/ Evaluate(w) \/ Abort(w)
  BY <1>4 DEF Read, ReadLost, Record, Dead, Ack, WorkerCrash, Succeed, Evaluate, Abort, Finish,
              Goto, TypeInv, TypeOK, Copying, workerVars
<1> QED BY <1>1, <1>2, <1>3, <1>4 DEF Worker, Handle

\* A worker that works on a copy after a step has its task in hand.
LEMMA HandNext ==
  ASSUME TypeInv', NEW w \in Workers, pc'[w] \in Copying
  PROVE  /\ cur'[w] \in 1 .. cursor' /\ stream'[cur'[w]] \in Tasks
         /\ InHand(w, cur[w])' /\ OnWay(stream[cur[w]])'
<1>1. /\ cur'[w] # 0 /\ cur'[w] \in batch'[w]
      /\ pc'[w] \notin {"record", "dead", "ack"}
  BY DEF TypeInv, WorkerOK, Copying
<1>2. cur'[w] \in 1 .. cursor' /\ cur'[w] \in 1 .. Len(stream')
  BY <1>1 DEF TypeInv, TypeOK
<1>3. stream'[cur'[w]] \in Tasks
  BY <1>2 DEF TypeInv, TypeOK
<1>4. InHand(w, cur[w])'
  BY <1>1 DEF InHand
<1> QED BY <1>2, <1>3, <1>4 DEF OnWay

\* Every step keeps the copies in agreement with the rows.
LEMMA CopyStep ==
  ASSUME TypeInv, TypeInv', Chain, OutcomeInv, CopyOK, Usual, [Next]_vars
  PROVE  CopyOK'
<1> SUFFICES ASSUME NEW w \in Workers, pc'[w] \in Copying
             PROVE  Agrees(snap'[w], db'[stream'[cur'[w]]])
  BY DEF CopyOK, Agrees
<1>1. CASE /\ pc[w] \in Copying /\ snap'[w] = snap[w] /\ cur'[w] = cur[w]
           /\ stream'[cur[w]] = stream[cur[w]]
           /\ ~Evaluate(w) /\ ~Succeed(w) /\ ~Abort(w)
  <2>1. PICK d \in 1 .. cursor : d = cur[w] /\ InHand(w, d)
    BY <1>1, InTheHand DEF Copying
  <2>2. PICK t \in Tasks : t = stream[d] /\ t = stream'[cur'[w]] /\ db[t] # NoRow
    BY <1>1, <2>1, InTheHand, NoRowAssumption DEF Copying
  <2>3. OnWay(t)'
    BY <2>2, HandNext
  <2>4. Agrees(snap[w], db[t])
    BY <1>1, <2>1, <2>2 DEF CopyOK
  <2>5. ASSUME NEW v \in Workers, Mark(v) \/ Evaluate(v), t = stream[cur[v]]
        PROVE  v = w
    <3>1. InHand(v, cur[v]) /\ cur[v] \in 1 .. cursor
      BY <2>5, InTheHand DEF Mark, Evaluate
    <3> QED BY <2>1, <2>2, <2>5, <3>1 DEF Chain
  <2>6. db'[t] = db[t] \/ db'[t] = snap[w]
    BY <1>1, <2>2, <2>3, <2>5, RowKept
  <2> QED BY <1>1, <2>2, <2>4, <2>6 DEF Agrees
<1>2. CASE /\ pc'[w] = "mark" /\ UNCHANGED <<db, stream, calls, faults>>
           /\ db[stream[cur'[w]]] \in Rows
           /\ snap'[w] = [db[stream[cur'[w]]] EXCEPT !.status = "processing"]
  <2>1. \A r \in Rows : Agrees([r EXCEPT !.status = "processing"], r)
    BY DEF Rows, Agrees
  <2> QED BY <1>2, <2>1
<1> QED BY <1>1, <1>2, CopyKept

\* A step costs one fault at most.
LEMMA FaultsGrow ==
  ASSUME TypeInv, [Next]_vars
  PROVE  faults \in Nat /\ faults' \in {faults, faults + 1}
<1>1. ASSUME NEW t \in Tasks, Api(t) PROVE faults' \in {faults, faults + 1}
  BY <1>1 DEF Api, Create, Push, PushFails, Revert, ApiCrash, Save, Fault
<1>2. ASSUME NEW w \in Workers, Worker(w) PROVE faults' \in {faults, faults + 1}
  BY <1>2 DEF Worker, Handle, Read, ReadLost, Load, Mark, Select, Call, Succeed, Record,
              Evaluate, Execute, Abort, Dead, Ack, WorkerCrash, Save, Fault
<1>3. ASSUME NEW x \in timers, Fire(x) \/ TimerLost(x) PROVE faults' \in {faults, faults + 1}
  BY <1>3 DEF Fire, TimerLost, Fault
<1>4. ASSUME NEW c \in Reports, Callback(c) PROVE faults' \in {faults, faults + 1}
  BY <1>4 DEF Callback, Arrive, Find, Apply, Execute, ReportCrash, Save, Fault
<1>5. ASSUME Scanner PROVE faults' \in {faults, faults + 1}
  BY <1>5 DEF Scanner, Scan, ScannerCrash, TimeOut, Save, Fault
<1>6. faults \in Nat
  BY BoundsAssumption DEF TypeInv, TypeOK
<1> QED BY <1>1, <1>2, <1>3, <1>4, <1>5, <1>6 DEF Next, vars

\* A provider is called in one kind of step, for one task.
LEMMA CallsKept ==
  ASSUME TypeInv, [Next]_vars
  PROVE  calls' = calls \/ \E w \in Workers : Call(w)
<1>1. ASSUME NEW w \in Workers, Worker(w) PROVE calls' = calls \/ Call(w)
  BY <1>1 DEF Worker, Handle, Read, ReadLost, Load, Mark, Select, Succeed, Record,
              Evaluate, Abort, Dead, Ack, WorkerCrash
<1>2. ASSUME ~\E w \in Workers : Worker(w) PROVE calls' = calls
  BY <1>2 DEF Next, Api, Create, Push, PushFails, Revert, ApiCrash, Fire, TimerLost, Callback,
              Arrive, Find, Apply, ReportCrash, Scanner, Scan, ScannerCrash, TimeOut, vars
<1> QED BY <1>1, <1>2

\* A task that has no row yet was never on its way, and gets there fresh.
LEMMA FreshWay ==
  ASSUME TypeInv, TypeInv', OutcomeInv', [Next]_vars, NEW t \in Tasks, db[t] = NoRow, OnWay(t)'
  PROVE  db'[t] = NewRow /\ calls'[t] = << >>
<1>1. api[t] = "absent"
  BY DEF TypeInv, RowOK
<1>2. api'[t] \in {"absent", "push"}
  <2>1. ASSUME NEW u \in Tasks, Api(u) PROVE api'[t] \in {"absent", "push"}
    BY <1>1, <2>1 DEF Api, Create, Push, PushFails, Revert, ApiCrash, TypeInv, TypeOK
  <2>2. ASSUME ~\E u \in Tasks : Api(u) PROVE api' = api
    BY <2>2 DEF Next, Worker, Handle, Read, ReadLost, Load, Mark, Select, Call, Succeed, Record,
              Evaluate, Abort, Dead, Ack, WorkerCrash, Fire, TimerLost, Callback,
              Arrive, Find, Apply, ReportCrash, Scanner, Scan, ScannerCrash, TimeOut, vars
  <2> QED BY <1>1, <2>1, <2>2
<1>3. db'[t] # NoRow
  <2>1. \A e \in 1 .. cursor' : e \in 1 .. Len(stream')
    BY DEF TypeInv, TypeOK
  <2> QED BY <2>1 DEF OnWay, TypeInv, RowOK
<1> QED BY <1>2, <1>3 DEF OutcomeInv, NewOK

\* A worker has called a provider for the task and not yet decided what follows.
Called(t) == \E w \in Workers : pc[w] \in {"evaluate", "succeed"} /\ stream[cur[w]] = t

\* A number of attempts the actions of the rules can lead to.
Within(n) == n = 0 \/ \E a \in SendActions \cap Requeueing : n <= Limit(a)

\* The row of a task on its way counts its calls, but for the one under way and
\* those whose count a fault lost.
CounterOK ==
  /\ \A t \in Tasks : OnWay(t) => Within(db[t].retries)
  /\ \A t \in Tasks : OnWay(t) => Len(calls[t]) <= 1 + db[t].retries + faults
  /\ \A t \in Tasks : OnWay(t) /\ ~Called(t) => Len(calls[t]) <= db[t].retries + faults
  /\ \A t \in Tasks : \E n \in Nat : Within(n) /\ Len(calls[t]) <= 1 + n + faults

\* Calling is over when a worker decides what follows, and not before.
LEMMA CalledStays ==
  ASSUME TypeInv, Chain, [Next]_vars, NEW t \in Tasks, Called(t), OnWay(t)',
         \A w \in Workers : ~(Evaluate(w) /\ t = stream[cur[w]])
  PROVE  Called(t)'
<1>1. PICK w \in Workers : pc[w] \in {"evaluate", "succeed"} /\ stream[cur[w]] = t
  BY DEF Called
<1>2. cur[w] \in 1 .. cursor
  BY <1>1, Busy
<1>3. CASE ~Worker(w)
  <2>1. pc'[w] = pc[w] /\ cur'[w] = cur[w] /\ stream'[cur[w]] = stream[cur[w]]
    BY <1>2, <1>3, OwnSteps
  <2> QED BY <1>1, <2>1 DEF Called
<1>4. CASE Worker(w)
  <2>1. Succeed(w) \/ WorkerCrash(w)
    BY <1>1, <1>4 DEF Worker, Handle, Read, ReadLost, Load, Mark, Select, Call, Record,
                      Abort, Dead, Ack
  <2>2. UNCHANGED timers
    BY <2>1 DEF Succeed, WorkerCrash
  <2>3. ~OnWay(t)'
    BY <1>1, <2>1, <2>2, LetsGo DEF Copying
  <2> QED BY <2>3
<1> QED BY <1>3, <1>4

\* Every step keeps the count.
LEMMA CounterStep ==
  ASSUME TypeInv, TypeInv', Chain, OutcomeInv, OutcomeInv', CopyOK, CounterOK, Usual, [Next]_vars
  PROVE  CounterOK'
<1>1. faults \in Nat /\ faults' \in Nat /\ faults <= faults'
  BY FaultsGrow
<1>2. \A t \in Tasks : Len(calls[t]) \in Nat /\ (db[t] # NoRow => db[t].retries \in Nat)
  <2>1. \A t \in Tasks : calls[t] \in Seq(Providers) /\ (db[t] # NoRow => db[t] \in Rows)
    BY DEF TypeInv, TypeOK
  <2> QED BY <2>1 DEF Rows
<1>3. ASSUME NEW t \in Tasks, db[t] = NoRow, OnWay(t)'
      PROVE  db'[t].retries = 0 /\ Len(calls'[t]) = 0
  BY <1>3, FreshWay DEF NewRow
<1>4. CASE \E w \in Workers : Call(w)
  <2>1. PICK w \in Workers : Call(w)
    BY <1>4
  <2>2. PICK d \in 1 .. cursor : d = cur[w] /\ InHand(w, d)
    BY <2>1, InTheHand DEF Call
  <2>3. PICK t \in Tasks : t = stream[d] /\ OnWay(t) /\ db[t] # NoRow
    BY <2>1, <2>2, InTheHand, NoRowAssumption DEF Call
  <2>4. ~Called(t)
    <3> SUFFICES ASSUME NEW v \in Workers, pc[v] \in {"evaluate", "succeed"}, stream[cur[v]] = t
                 PROVE  FALSE
      BY DEF Called
    <3>1. InHand(v, cur[v]) /\ cur[v] \in 1 .. cursor
      BY InTheHand
    <3>2. v = w
      BY <2>2, <2>3, <3>1 DEF Chain
    <3> QED BY <2>1, <3>2 DEF Call
  <2>5. /\ UNCHANGED <<db, stream, cur>>
        /\ pc'[w] \in {"evaluate", "succeed"}
        /\ \A v \in Workers \ {w} : pc'[v] = pc[v]
    BY <2>1 DEF Call, Goto, TypeInv, TypeOK, queueVars
  <2>6. /\ Len(calls'[t]) = Len(calls[t]) + 1
        /\ \A u \in Tasks \ {t} : calls'[u] = calls[u]
    <3>1. PICK p \in prov[w] : calls' = [calls EXCEPT ![t] = Append(calls[t], p)]
      BY <2>1, <2>2, <2>3 DEF Call
    <3>2. calls[t] \in Seq(Providers) /\ p \in Providers
      BY DEF TypeInv, TypeOK
    <3>3. calls'[t] = Append(calls[t], p)
      BY <3>1 DEF TypeInv, TypeOK
    <3>4. Len(Append(calls[t], p)) = Len(calls[t]) + 1
      BY <3>2
    <3> QED BY <3>1, <3>3, <3>4 DEF TypeInv, TypeOK
  <2>7. Len(calls'[t]) <= 1 + db[t].retries + faults /\ Within(db[t].retries)
    <3>1. Len(calls[t]) <= db[t].retries + faults /\ Within(db[t].retries)
      BY <2>3, <2>4 DEF CounterOK
    <3>2. Len(calls[t]) \in Nat /\ db[t].retries \in Nat
      BY <1>2, <2>3
    <3> QED BY <1>1, <2>6, <3>1, <3>2
  <2>8. Called(t)'
    BY <2>2, <2>3, <2>5 DEF Called
  <2>9. \A u \in Tasks : OnWay(u)' => db[u] # NoRow /\ OnWay(u)
    <3>1. \A u \in Tasks : db[u] = NoRow /\ OnWay(u)' => db'[u] = NewRow
      BY FreshWay
    <3>2. NewRow # NoRow
      BY NoRowAssumption DEF NewRow, Rows, Statuses
    <3> QED BY <2>5, <3>1, <3>2, NoneReopens
  <2>10. \A u \in Tasks \ {t} : Called(u) => Called(u)'
    BY <2>1, <2>5 DEF Called, Call
  <2>11. \A u \in Tasks : OnWay(u)' => Within(db'[u].retries)
    BY <2>5, <2>9 DEF CounterOK
  <2>12. \A u \in Tasks : OnWay(u)' => Len(calls'[u]) <= 1 + db'[u].retries + faults'
    <3> SUFFICES ASSUME NEW u \in Tasks, OnWay(u)'
                 PROVE  Len(calls'[u]) <= 1 + db[u].retries + faults'
      BY <2>5
    <3>1. OnWay(u) /\ db[u].retries \in Nat /\ Len(calls[u]) \in Nat
      BY <1>2, <2>9
    <3>2. Len(calls'[u]) <= 1 + db[u].retries + faults /\ Len(calls'[u]) \in Nat
      BY <1>2, <2>6, <2>7, <3>1 DEF CounterOK
    <3> QED BY <1>1, <3>1, <3>2
  <2>13. \A u \in Tasks : OnWay(u)' /\ ~Called(u)' => Len(calls'[u]) <= db'[u].retries + faults'
    <3> SUFFICES ASSUME NEW u \in Tasks, OnWay(u)', ~Called(u)'
                 PROVE  Len(calls'[u]) <= db[u].retries + faults'
      BY <2>5
    <3>1. OnWay(u) /\ db[u].retries \in Nat /\ Len(calls[u]) \in Nat
      BY <1>2, <2>9
    <3>2. u # t /\ ~Called(u)
      BY <2>8, <2>10
    <3>3. Len(calls[u]) <= db[u].retries + faults
      BY <3>1, <3>2 DEF CounterOK
    <3> QED BY <1>1, <2>6, <3>1, <3>2, <3>3
  <2>14. ASSUME NEW u \in Tasks
         PROVE  \E n \in Nat : Within(n) /\ Len(calls'[u]) <= 1 + n + faults'
    <3>1. CASE u = t
      BY <1>1, <1>2, <2>3, <2>6, <2>7, <3>1
    <3>2. CASE u # t
      BY <1>1, <1>2, <2>6, <3>2 DEF CounterOK
    <3> QED BY <3>1, <3>2
  <2> QED BY <2>11, <2>12, <2>13, <2>14 DEF CounterOK, Within
<1>5. CASE \A w \in Workers : ~Call(w)
  <2>1. calls' = calls
    BY <1>5, CallsKept
  <2>2. ASSUME NEW t \in Tasks, OnWay(t)', db[t] # NoRow
        PROVE  /\ Within(db'[t].retries)
               /\ Len(calls[t]) <= 1 + db'[t].retries + faults'
               /\ ~Called(t)' => Len(calls[t]) <= db'[t].retries + faults'
    <3>1. OnWay(t)
      BY <2>2, NoneReopens
    <3>2. CASE \E w \in Workers : Evaluate(w) /\ t = stream[cur[w]]
      <4>1. PICK w \in Workers : Evaluate(w) /\ t = stream[cur[w]]
        BY <3>2
      <4>2. PICK a \in SendActions : Execute(a, cur[w], t, snap[w], prov[w])
        BY <4>1 DEF Evaluate
      <4>3. pc[w] \in Copying /\ snap[w] \in Rows /\ snap[w].retries = db[t].retries
        BY <4>1 DEF Evaluate, Copying, CopyOK, Agrees, TypeInv, WorkerOK
      <4>4. Requeues(a, snap[w])
        <5> SUFFICES ASSUME ~Requeues(a, snap[w]) PROVE FALSE
          OBVIOUS
        <5>1. UNCHANGED timers
          BY <4>2 DEF Execute
        <5> QED BY <2>2, <4>1, <4>3, <5>1, LetsGo
      <4>5. Outcome(a, snap[w], prov[w]).retries = db[t].retries + 1
        <5> DEFINE E == IF a = "switch_provider" /\ ExcludeCurrent
                        THEN snap[w].exclude \cup prov[w] ELSE snap[w].exclude
        <5>1. Outcome(a, snap[w], prov[w])
                = [snap[w] EXCEPT !.retries = snap[w].retries + 1, !.exclude = E]
          BY <4>4 DEF Outcome
        <5> HIDE DEF E
        <5> QED BY <4>3, <5>1 DEF Rows
      <4>6. Within(db[t].retries + 1) /\ Within(db[t].retries)
        <5>1. a \in SendActions \cap Requeueing /\ db[t].retries < Limit(a)
          BY <4>3, <4>4 DEF Requeues
        <5>2. Limit(a) \in Nat
          BY BoundsAssumption DEF Limit
        <5> QED BY <1>2, <2>2, <5>1, <5>2, <3>1 DEF Within, CounterOK
      <4>7. \/ db'[t] = Outcome(a, snap[w], prov[w])
            \/ db'[t] = db[t] /\ faults' = faults + 1
        BY <4>2 DEF Execute, Save, Fault, TypeInv, TypeOK
      <4>8. Len(calls[t]) <= 1 + db[t].retries + faults
        BY <3>1 DEF CounterOK
      <4>9. Len(calls[t]) \in Nat /\ db[t].retries \in Nat
        BY <1>2, <2>2
      <4>10. CASE db'[t] = Outcome(a, snap[w], prov[w])
        <5>1. db'[t].retries = db[t].retries + 1
          BY <4>5, <4>10
        <5>2. Within(db'[t].retries)
          BY <4>6, <5>1
        <5>3. Len(calls[t]) <= db'[t].retries + faults'
          BY <1>1, <4>8, <4>9, <5>1
        <5>4. Len(calls[t]) <= 1 + db'[t].retries + faults'
          BY <1>1, <4>9, <5>1, <5>3
        <5> QED BY <5>2, <5>3, <5>4
      <4>11. CASE db'[t] = db[t] /\ faults' = faults + 1
        BY <1>1, <4>6, <4>8, <4>9, <4>11
      <4> QED BY <4>7, <4>10, <4>11
    <3>3. CASE ~\E w \in Workers : Evaluate(w) /\ t = stream[cur[w]]
      <4>1. db'[t].retries = db[t].retries
        <5>1. ASSUME NEW w \in Workers, Mark(w), t = stream[cur[w]]
              PROVE  snap[w].retries = db[t].retries
          BY <5>1 DEF Mark, Copying, CopyOK, Agrees
        <5> QED BY <2>2, <3>3, <5>1, RowKept
      <4>2. Called(t) => Called(t)'
        BY <2>2, <3>3, CalledStays
      <4> QED BY <1>1, <1>2, <2>2, <3>1, <4>1, <4>2 DEF CounterOK
    <3> QED BY <3>2, <3>3
  <2>3. ASSUME NEW t \in Tasks, OnWay(t)', db[t] = NoRow
        PROVE  /\ Within(db'[t].retries)
               /\ Len(calls[t]) <= 1 + db'[t].retries + faults'
               /\ Len(calls[t]) <= db'[t].retries + faults'
    BY <1>1, <1>3, <2>1, <2>3 DEF Within
  <2>4. \A t \in Tasks : \E n \in Nat : Within(n) /\ Len(calls[t]) <= 1 + n + faults'
    BY <1>1, <1>2 DEF CounterOK
  <2> QED BY <2>1, <2>2, <2>3, <2>4 DEF CounterOK, Within
<1> QED BY <1>4, <1>5

\* The bound holds at the start, and for ever.
LEMMA CounterInvariant ==
  ASSUME Usual
  PROVE  Spec => [](TypeInv /\ Chain /\ OutcomeInv /\ CopyOK /\ CounterOK)
<1>1. Spec => [](TypeInv /\ Chain /\ OutcomeInv)
  BY OutcomeInvariant
<1>2. Init => CopyOK /\ CounterOK
  <2> SUFFICES ASSUME Init PROVE CopyOK /\ CounterOK
    OBVIOUS
  <2>1. \A t \in Tasks : ~OnWay(t) /\ Len(calls[t]) = 0
    BY DEF Init, OnWay, InHand
  <2>2. faults = 0 /\ CopyOK
    BY DEF Init, CopyOK, Copying
  <2> QED BY <2>1, <2>2 DEF CounterOK, Within
<1>3. TypeInv /\ Chain /\ OutcomeInv /\ CopyOK /\ CounterOK /\ [Next]_vars
        => (CopyOK /\ CounterOK)'
  BY TypeStep, OutcomeStep, CopyStep, CounterStep
<1> QED BY <1>1, <1>2, <1>3, PTL DEF Spec

\* Whatever crashes or fails, the provider calls for a task stay within the
\* retry limit of the rule, but for one more with each failed access: nobody
\* writes back a row that has not counted the attempts yet.
THEOREM SendBoundHolds ==
  ASSUME CallbackActions \cap Requeueing = {}, ~AmbiguousPush
  PROVE  Spec => []SendBound
<1>1. Spec => [](TypeInv /\ Chain /\ OutcomeInv /\ CopyOK /\ CounterOK)
  BY CounterInvariant DEF Usual
<1>2. TypeInv /\ CounterOK => SendBound
  <2> SUFFICES ASSUME TypeInv, CounterOK, NEW t \in Tasks
               PROVE  \/ Len(calls[t]) <= 1 + faults
                      \/ \E a \in SendActions \cap Requeueing :
                           Len(calls[t]) <= 1 + Limit(a) + faults
    BY DEF SendBound
  <2>1. PICK n \in Nat : Within(n) /\ Len(calls[t]) <= 1 + n + faults
    BY DEF CounterOK
  <2>2. faults \in Nat /\ calls[t] \in Seq(Providers)
    BY BoundsAssumption DEF TypeInv, TypeOK
  <2>3. Len(calls[t]) \in Nat
    BY <2>2
  <2>4. CASE n = 0
    BY <2>1, <2>2, <2>4
  <2>5. ASSUME NEW a \in SendActions \cap Requeueing, n <= Limit(a)
        PROVE  Len(calls[t]) <= 1 + Limit(a) + faults
    <3>1. Limit(a) \in Nat
      BY BoundsAssumption DEF Limit
    <3> QED BY <2>1, <2>2, <2>3, <2>5, <3>1
  <2> QED BY <2>1, <2>4, <2>5 DEF Within
<1> QED BY <1>1, <1>2, PTL

-----------------------------------------------------------------------------
(* Which providers are called *)

\* The providers of a list of calls, and the calls that repeat an earlier one.
Asked(s)   == {s[i] : i \in 1 .. Len(s)}
Repeats(s) == {i \in 2 .. Len(s) : \E j \in 1 .. (i - 1) : s[j] = s[i]}

\* One more call repeats an earlier one, or asks somebody new.
LEMMA OneMoreCall ==
  ASSUME NEW s \in Seq(Providers), NEW p \in Providers
  PROVE  /\ IsFiniteSet(Asked(s)) /\ IsFiniteSet(Repeats(s))
         /\ Asked(Append(s, p)) = Asked(s) \cup {p}
         /\ Repeats(Append(s, p)) =
              IF p \in Asked(s) THEN Repeats(s) \cup {Len(s) + 1} ELSE Repeats(s)
         /\ Len(s) + 1 \notin Repeats(s)
<1> DEFINE r == Append(s, p)
<1>1. /\ Len(s) \in Nat /\ Len(r) = Len(s) + 1
      /\ \A i \in 1 .. Len(s) : r[i] = s[i]
      /\ r[Len(s) + 1] = p
  OBVIOUS
<1>2. IsFiniteSet(Asked(s))
  <2>1. s \in Surjection(1 .. Len(s), Asked(s))
    BY DEF Surjection, Asked
  <2>2. IsFiniteSet(1 .. Len(s))
    BY <1>1, FS_Interval
  <2> QED BY <2>1, <2>2, FS_Surjection
<1>3. IsFiniteSet(Repeats(s))
  <2>1. IsFiniteSet(2 .. Len(s))
    BY <1>1, FS_Interval
  <2> QED BY <2>1, FS_Subset DEF Repeats
<1> HIDE DEF r
<1>4. Asked(r) = Asked(s) \cup {p}
  BY <1>1 DEF Asked
<1>5. \A i \in 2 .. Len(r) : i \in 2 .. Len(s) \/ (i = Len(s) + 1 /\ Len(s) >= 1)
  BY <1>1
<1>6. \A i \in 2 .. Len(s) : i \in 2 .. Len(r) /\ (i \in Repeats(r) <=> i \in Repeats(s))
  BY <1>1 DEF Repeats
<1>7. Len(s) + 1 \in Repeats(r) <=> p \in Asked(s)
  <2>1. Len(s) + 1 \in Repeats(r) =>  \E j \in 1 .. Len(s) : r[j] = r[Len(s) + 1]
    BY <1>1 DEF Repeats
  <2>2. (\E j \in 1 .. Len(s) : r[j] = r[Len(s) + 1]) => Len(s) + 1 \in Repeats(r)
    BY <1>1 DEF Repeats
  <2> QED BY <1>1, <2>1, <2>2 DEF Asked
<1>8. Repeats(s) \subseteq 2 .. Len(s) /\ Repeats(r) \subseteq 2 .. Len(r)
  BY DEF Repeats
<1>9. Len(s) + 1 \notin Repeats(s)
  BY <1>1, <1>8
<1>10. Repeats(r) = IF p \in Asked(s) THEN Repeats(s) \cup {Len(s) + 1} ELSE Repeats(s)
  <2>1. \A i : i \in Repeats(r) => i \in Repeats(s) \/ (i = Len(s) + 1 /\ p \in Asked(s))
    BY <1>5, <1>6, <1>7, <1>8
  <2>2. \A i \in Repeats(s) : i \in Repeats(r)
    BY <1>6, <1>8
  <2>3. CASE p \in Asked(s)
    BY <1>7, <2>1, <2>2, <2>3
  <2>4. CASE p \notin Asked(s)
    BY <2>1, <2>2, <2>4
  <2> QED BY <2>3, <2>4
<1> QED BY <1>2, <1>3, <1>4, <1>9, <1>10 DEF r

\* The providers called for a task that are not in a set, and its repetitions.
Missed(t, E) == Cardinality(Repeats(calls[t])) + Cardinality(Asked(calls[t]) \ E)

\* Every provider that was asked is excluded, but for those a fault forgot: they
\* and the repetitions they led to are no more than the faults.
SwitchOK ==
  /\ \A t \in Tasks : OnWay(t) /\ ~Called(t) => Missed(t, db[t].exclude) <= faults
  /\ \A w \in Workers : pc[w] = "evaluate" =>
       /\ Missed(stream[cur[w]], snap[w].exclude \cup prov[w]) <= faults
       /\ \E p \in Providers : prov[w] = {p}
  /\ \A w \in Workers : pc[w] = "call" =>
       \E p \in Providers : prov[w] = {p} /\ p \notin snap[w].exclude
  /\ \A t \in Tasks : Cardinality(Repeats(calls[t])) <= faults

\* The sets are finite, and their sizes numbers.
LEMMA MissedType ==
  ASSUME TypeInv, NEW t \in Tasks, NEW E
  PROVE  /\ IsFiniteSet(Asked(calls[t]) \ E) /\ IsFiniteSet(Repeats(calls[t]))
         /\ Cardinality(Asked(calls[t]) \ E) \in Nat
         /\ Cardinality(Repeats(calls[t])) \in Nat
         /\ Missed(t, E) \in Nat
<1>1. calls[t] \in Seq(Providers)
  BY DEF TypeInv, TypeOK
<1>2. IsFiniteSet(Asked(calls[t])) /\ IsFiniteSet(Repeats(calls[t]))
  <2>1. CASE \E p \in Providers : TRUE
    BY <1>1, <2>1, OneMoreCall
  <2>2. CASE ~\E p \in Providers : TRUE
    <3>1. Len(calls[t]) = 0
      BY <1>1, <2>2
    <3>2. Asked(calls[t]) = {} /\ Repeats(calls[t]) = {}
      BY <3>1 DEF Asked, Repeats
    <3> QED BY <3>2, FS_EmptySet
  <2> QED BY <2>1, <2>2
<1>3. IsFiniteSet(Asked(calls[t]) \ E)
  <2>1. Asked(calls[t]) \ E \in SUBSET Asked(calls[t])
    OBVIOUS
  <2> QED BY <1>2, <2>1, FS_Subset
<1> QED BY <1>2, <1>3, FS_CardinalityType DEF Missed

\* A provider that was not excluded is asked: it was not asked before, or it was
\* one of those that a fault forgot.
LEMMA MissedCall ==
  ASSUME TypeInv, NEW t \in Tasks, NEW p \in Providers, NEW E, p \notin E,
         calls'[t] = Append(calls[t], p)
  PROVE  /\ Cardinality(Repeats(calls'[t])) + Cardinality(Asked(calls'[t]) \ (E \cup {p}))
              <= Missed(t, E)
         /\ Cardinality(Repeats(calls'[t])) <= Missed(t, E)
<1> DEFINE s == calls[t]
           A == Asked(s) \ E
           R == Repeats(s)
<1>1. s \in Seq(Providers)
  BY DEF TypeInv, TypeOK
<1>2. IsFiniteSet(A) /\ IsFiniteSet(R) /\ Cardinality(A) \in Nat /\ Cardinality(R) \in Nat
  BY MissedType
<1>3. Asked(calls'[t]) \ (E \cup {p}) = A \ {p}
  BY <1>1, OneMoreCall
<1>4. Cardinality(A \ {p}) = IF p \in A THEN Cardinality(A) - 1 ELSE Cardinality(A)
  BY <1>2, FS_RemoveElement
<1>5. Cardinality(Repeats(calls'[t])) =
        IF p \in Asked(s) THEN Cardinality(R) + 1 ELSE Cardinality(R)
  <2>1. CASE p \in Asked(s)
    <3>1. Repeats(calls'[t]) = R \cup {Len(s) + 1} /\ Len(s) + 1 \notin R
      BY <1>1, <2>1, OneMoreCall
    <3> HIDE DEF R
    <3> QED BY <1>2, <2>1, <3>1, FS_AddElement
  <2>2. CASE p \notin Asked(s)
    BY <1>1, <2>2, OneMoreCall
  <2> QED BY <2>1, <2>2
<1>6. p \in A <=> p \in Asked(s)
  OBVIOUS
<1>7. p \in A => Cardinality(A) >= 1
  <2>1. p \in A => Cardinality(A) # 0
    BY <1>2, FS_EmptySet
  <2> HIDE DEF A
  <2> QED BY <1>2, <2>1
<1>8. Missed(t, E) = Cardinality(R) + Cardinality(A)
  BY DEF Missed
<1>9. Cardinality(Asked(calls'[t]) \ (E \cup {p})) = Cardinality(A \ {p})
  BY <1>3
<1> HIDE DEF A, R, s
<1>10. CASE p \in A
  BY <1>2, <1>4, <1>5, <1>6, <1>7, <1>8, <1>9, <1>10
<1>11. CASE p \notin A
  BY <1>2, <1>4, <1>5, <1>6, <1>8, <1>9, <1>11
<1> QED BY <1>10, <1>11

\* A fault that forgets one provider makes one more that was missed.
LEMMA MissedForget ==
  ASSUME TypeInv, NEW t \in Tasks, NEW p, NEW E
  PROVE  Missed(t, E) <= 1 + Missed(t, E \cup {p})
<1> DEFINE A == Asked(calls[t]) \ E
           R == Repeats(calls[t])
<1>1. IsFiniteSet(A) /\ Cardinality(A) \in Nat /\ Cardinality(R) \in Nat
  BY MissedType
<1>2. Asked(calls[t]) \ (E \cup {p}) = A \ {p}
  OBVIOUS
<1>3. Cardinality(A \ {p}) = IF p \in A THEN Cardinality(A) - 1 ELSE Cardinality(A)
  BY <1>1, FS_RemoveElement
<1>4. /\ Missed(t, E) = Cardinality(R) + Cardinality(A)
      /\ Missed(t, E \cup {p}) = Cardinality(R) + Cardinality(A \ {p})
  BY <1>2 DEF Missed
<1> HIDE DEF A, R
<1> QED BY <1>1, <1>3, <1>4

\* The rule switches providers, and what refused is excluded.
Switching == "retry" \notin SendActions /\ ExcludeCurrent

\* Every step keeps the exclusions.
LEMMA SwitchStep ==
  ASSUME TypeInv, TypeInv', Chain, OutcomeInv, OutcomeInv', CopyOK, SwitchOK, Usual, Switching,
         [Next]_vars
  PROVE  SwitchOK'
<1>1. faults \in Nat /\ faults' \in {faults, faults + 1}
  BY FaultsGrow
<1>2. ASSUME NEW w \in Workers, Call(w)
      PROVE  \E t \in Tasks : \E p \in Providers :
               /\ t = stream[cur[w]] /\ OnWay(t) /\ ~Called(t) /\ pc[w] = "call"
               /\ prov[w] = {p} /\ p \notin snap[w].exclude
               /\ calls' = [calls EXCEPT ![t] = Append(calls[t], p)]
               /\ Missed(t, snap[w].exclude) <= faults
               /\ \A v \in Workers : pc[v] \in Copying /\ stream[cur[v]] = t => v = w
  <2>1. PICK p \in Providers : prov[w] = {p} /\ p \notin snap[w].exclude /\ pc[w] = "call"
    BY <1>2 DEF Call, SwitchOK
  <2>2. PICK d \in 1 .. cursor : d = cur[w] /\ InHand(w, d)
    BY <2>1, InTheHand
  <2>3. PICK t \in Tasks : t = stream[d] /\ OnWay(t)
    BY <2>1, <2>2, InTheHand
  <2>4. ASSUME NEW v \in Workers, pc[v] \in Copying, stream[cur[v]] = t
        PROVE  v = w
    <3>1. InHand(v, cur[v]) /\ cur[v] \in 1 .. cursor
      BY <2>4, InTheHand DEF Copying
    <3> QED BY <2>2, <2>3, <2>4, <3>1 DEF Chain
  <2>5. ~Called(t)
    BY <2>1, <2>4 DEF Called, Copying
  <2>6. snap[w].exclude = db[t].exclude
    BY <2>1, <2>2, <2>3 DEF CopyOK, Agrees, Copying
  <2>7. Missed(t, snap[w].exclude) <= faults
    BY <2>3, <2>5, <2>6 DEF SwitchOK
  <2>8. calls' = [calls EXCEPT ![t] = Append(calls[t], p)]
    BY <1>2, <2>1, <2>2, <2>3 DEF Call
  <2> QED BY <2>1, <2>2, <2>3, <2>4, <2>5, <2>7, <2>8
<1>3. ASSUME NEW t \in Tasks, OnWay(t)', ~Called(t)'
      PROVE  Cardinality(Repeats(calls'[t])) + Cardinality(Asked(calls'[t]) \ db'[t].exclude)
               <= faults'
  <2>1. CASE db[t] = NoRow
    <3>1. db'[t].exclude = {} /\ calls'[t] = << >>
      BY <1>3, <2>1, FreshWay DEF NewRow
    <3>2. Repeats(calls'[t]) = {} /\ Asked(calls'[t]) \ db'[t].exclude = {}
      BY <3>1 DEF Repeats, Asked
    <3> QED BY <1>1, <3>2, FS_EmptySet
  <2>2. CASE db[t] # NoRow /\ \E w \in Workers : Evaluate(w) /\ t = stream[cur[w]]
    <3>1. PICK w \in Workers : Evaluate(w) /\ t = stream[cur[w]]
      BY <2>2
    <3>2. PICK a \in SendActions : Execute(a, cur[w], t, snap[w], prov[w])
      BY <3>1 DEF Evaluate
    <3>3. pc[w] = "evaluate" /\ snap[w] \in Rows /\ snap[w].exclude = db[t].exclude
      BY <3>1 DEF Evaluate, Copying, CopyOK, Agrees, TypeInv, WorkerOK
    <3>4. PICK p \in Providers : prov[w] = {p}
      BY <3>3 DEF SwitchOK
    <3>5. Requeues(a, snap[w])
      <4> SUFFICES ASSUME ~Requeues(a, snap[w]) PROVE FALSE
        OBVIOUS
      <4>1. UNCHANGED timers
        BY <3>2 DEF Execute
      <4> QED BY <1>3, <3>1, <3>3, <4>1, LetsGo DEF Copying
    <3>6. a = "switch_provider" /\ ExcludeCurrent
      BY <3>5 DEF Requeues, Requeueing, Switching
    <3>7. Outcome(a, snap[w], prov[w]).exclude = snap[w].exclude \cup {p}
      <4>1. Outcome(a, snap[w], prov[w])
              = [snap[w] EXCEPT !.retries = snap[w].retries + 1,
                                !.exclude = snap[w].exclude \cup {p}]
        BY <3>4, <3>5, <3>6 DEF Outcome
      <4> QED BY <3>3, <4>1 DEF Rows
    <3>8. calls' = calls
      BY <3>1 DEF Evaluate
    <3>9. Missed(t, snap[w].exclude \cup {p}) <= faults
      BY <3>1, <3>3, <3>4 DEF SwitchOK
    <3>10. \/ db'[t] = Outcome(a, snap[w], prov[w])
           \/ db'[t] = db[t] /\ faults' = faults + 1
      BY <3>2 DEF Execute, Save, Fault, TypeInv, TypeOK
    <3>11. /\ Missed(t, snap[w].exclude) <= 1 + Missed(t, snap[w].exclude \cup {p})
           /\ Missed(t, snap[w].exclude) \in Nat /\ Missed(t, snap[w].exclude \cup {p}) \in Nat
      BY MissedForget, MissedType
    <3>12. Missed(t, db'[t].exclude) <= faults'
      <4>1. CASE db'[t] = Outcome(a, snap[w], prov[w])
        <5>1. db'[t].exclude = snap[w].exclude \cup {p}
          BY <3>7, <4>1
        <5>2. PICK m \in Nat : m = Missed(t, snap[w].exclude \cup {p})
          BY <3>11
        <5>3. Missed(t, db'[t].exclude) = m /\ m <= faults
          BY <3>9, <5>1, <5>2
        <5> QED BY <1>1, <5>2, <5>3
      <4>2. CASE db'[t] = db[t] /\ faults' = faults + 1
        BY <1>1, <3>3, <3>9, <3>11, <4>2
      <4> QED BY <3>10, <4>1, <4>2
    <3> QED BY <3>8, <3>12 DEF Missed
  <2>3. CASE db[t] # NoRow /\ ~\E w \in Workers : Evaluate(w) /\ t = stream[cur[w]]
    <3>1. OnWay(t) /\ ~Called(t)
      BY <1>3, <2>3, NoneReopens, CalledStays
    <3>2. db'[t].exclude = db[t].exclude
      <4>1. ASSUME NEW w \in Workers, Mark(w), t = stream[cur[w]]
            PROVE  snap[w].exclude = db[t].exclude
        BY <4>1 DEF Mark, Copying, CopyOK, Agrees
      <4> QED BY <1>3, <2>3, <4>1, RowKept
    <3>3. calls'[t] = calls[t]
      <4>1. ASSUME NEW w \in Workers, Call(w) PROVE calls'[t] = calls[t]
        <5>1. PICK u \in Tasks : u = stream[cur[w]]
                                  /\ \E p : calls' = [calls EXCEPT ![u] = Append(calls[u], p)]
          BY <1>2, <4>1
        <5>2. CASE u = t
          <6>1. pc'[w] \in {"evaluate", "succeed"} /\ UNCHANGED <<cur, stream>>
            BY <4>1 DEF Call, Goto, TypeInv, TypeOK, queueVars
          <6> QED BY <1>3, <5>1, <5>2, <6>1 DEF Called
        <5>3. CASE u # t
          BY <5>1, <5>3 DEF TypeInv, TypeOK
        <5> QED BY <5>2, <5>3
      <4> QED BY <4>1, CallsKept
    <3>4. Missed(t, db[t].exclude) <= faults /\ Missed(t, db[t].exclude) \in Nat
      BY <3>1, MissedType DEF SwitchOK
    <3>5. Missed(t, db[t].exclude) <= faults'
      BY <1>1, <3>4
    <3> QED BY <3>2, <3>3, <3>5 DEF Missed
  <2> QED BY <2>1, <2>2, <2>3
<1>4. ASSUME NEW w \in Workers, pc'[w] = "evaluate"
      PROVE  /\ Missed(stream[cur[w]], snap[w].exclude \cup prov[w])' <= faults'
             /\ \E p \in Providers : prov'[w] = {p}
  <2>1. /\ pc[w] \in Copying /\ snap'[w] = snap[w] /\ cur'[w] = cur[w]
        /\ stream'[cur[w]] = stream[cur[w]]
    BY <1>4, CopyKept DEF Copying
  <2>2. PICK t \in Tasks : t = stream[cur[w]]
    BY <2>1, Busy DEF Copying
  <2>3. CASE Call(w)
    <3>1. PICK p \in Providers :
               /\ prov[w] = {p} /\ p \notin snap[w].exclude
               /\ calls' = [calls EXCEPT ![t] = Append(calls[t], p)]
               /\ Missed(t, snap[w].exclude) <= faults
      BY <1>2, <2>2, <2>3
    <3>2. calls'[t] = Append(calls[t], p) /\ prov'[w] = {p} /\ faults' = faults
      BY <2>3, <3>1 DEF Call, TypeInv, TypeOK
    <3>3. PICK E : E = snap[w].exclude
      OBVIOUS
    <3>4. Cardinality(Repeats(calls'[t])) + Cardinality(Asked(calls'[t]) \ (E \cup {p}))
            <= Missed(t, E)
      BY <3>1, <3>2, <3>3, MissedCall
    <3>5. Missed(t, E) \in Nat /\ Missed(t, E) <= faults
      BY <3>1, <3>3, MissedType
    <3>6. Cardinality(Repeats(calls'[t])) + Cardinality(Asked(calls'[t]) \ (E \cup {p})) \in Nat
      <4>1. IsFiniteSet(Asked(calls[t])) /\ IsFiniteSet(Repeats(calls[t]))
            /\ Asked(calls'[t]) = Asked(calls[t]) \cup {p}
            /\ \/ Repeats(calls'[t]) = Repeats(calls[t]) \cup {Len(calls[t]) + 1}
               \/ Repeats(calls'[t]) = Repeats(calls[t])
        BY <3>2, OneMoreCall DEF TypeInv, TypeOK
      <4>2. IsFiniteSet(Asked(calls'[t])) /\ IsFiniteSet(Repeats(calls'[t]))
        <5>1. IsFiniteSet(Asked(calls[t]) \cup {p})
          BY <4>1, FS_AddElement
        <5>2. IsFiniteSet(Repeats(calls[t]) \cup {Len(calls[t]) + 1})
          BY <4>1, FS_AddElement
        <5> QED BY <4>1, <5>1, <5>2
      <4>3. IsFiniteSet(Asked(calls'[t]) \ (E \cup {p}))
        BY <4>2, FS_Subset
      <4> QED BY <4>2, <4>3, FS_CardinalityType
    <3>7. Cardinality(Repeats(calls'[t])) + Cardinality(Asked(calls'[t]) \ (E \cup {p})) <= faults'
      BY <1>1, <3>2, <3>4, <3>5, <3>6
    <3> QED BY <2>1, <2>2, <3>2, <3>3, <3>7 DEF Missed
  <2>4. CASE ~Call(w)
    <3>1. ~Worker(w) /\ pc[w] = "evaluate" /\ prov'[w] = prov[w]
      <4>1. ~Worker(w)
        BY <1>4, <2>1, <2>4 DEF Worker, Handle, Read, ReadLost, Load, Mark, Select, Succeed, Record,
             Evaluate, Abort, Dead, Ack, WorkerCrash, Finish, Goto, TypeInv, TypeOK, Copying
      <4> QED BY <1>4, <4>1, OwnSteps
    <3>2. calls'[t] = calls[t]
      <4>1. ASSUME NEW v \in Workers, Call(v) PROVE calls'[t] = calls[t]
        <5>1. PICK u \in Tasks :
                /\ \E p : calls' = [calls EXCEPT ![u] = Append(calls[u], p)]
                /\ \A x \in Workers : pc[x] \in Copying /\ stream[cur[x]] = u => x = v
          BY <1>2, <4>1
        <5>2. u # t
          BY <2>1, <2>2, <2>4, <4>1, <5>1
        <5> QED BY <5>1, <5>2 DEF TypeInv, TypeOK
      <4> QED BY <4>1, CallsKept
    <3>3. /\ Missed(t, snap[w].exclude \cup prov[w]) <= faults
          /\ Missed(t, snap[w].exclude \cup prov[w]) \in Nat
          /\ \E p \in Providers : prov[w] = {p}
      BY <2>2, <3>1, MissedType DEF SwitchOK
    <3>4. Missed(t, snap[w].exclude \cup prov[w]) <= faults'
      BY <1>1, <3>3
    <3> QED BY <2>1, <2>2, <3>1, <3>2, <3>3, <3>4 DEF Missed
  <2> QED BY <2>3, <2>4
<1>5. ASSUME NEW w \in Workers, pc'[w] = "call"
      PROVE  \E p \in Providers : prov'[w] = {p} /\ p \notin snap'[w].exclude
  <2>1. snap'[w] = snap[w]
    BY <1>5, CopyKept DEF Copying
  <2>2. CASE Select(w)
    BY <1>5, <2>1, <2>2 DEF Select, Goto, TypeInv, TypeOK
  <2>3. CASE ~Select(w)
    <3>1. ~Worker(w)
      BY <1>5, <2>3 DEF Worker, Handle, Read, ReadLost, Load, Mark, Call, Succeed, Record,
             Evaluate, Abort, Dead, Ack, WorkerCrash, Finish, Goto, TypeInv, TypeOK, workerVars
    <3>2. pc[w] = "call" /\ prov'[w] = prov[w]
      BY <1>5, <3>1, OwnSteps
    <3> QED BY <2>1, <3>2 DEF SwitchOK
  <2> QED BY <2>2, <2>3
<1>6. ASSUME NEW t \in Tasks
      PROVE  Cardinality(Repeats(calls'[t])) <= faults'
  <2>1. /\ Cardinality(Repeats(calls[t])) \in Nat
        /\ Cardinality(Repeats(calls[t])) <= faults
    BY MissedType DEF SwitchOK
  <2>2. CASE calls'[t] = calls[t]
    BY <1>1, <2>1, <2>2
  <2>3. CASE calls'[t] # calls[t]
    <3>1. PICK w \in Workers : Call(w)
      BY <2>3, CallsKept
    <3>2. PICK u \in Tasks : \E p \in Providers :
               /\ prov[w] = {p} /\ p \notin snap[w].exclude
               /\ calls' = [calls EXCEPT ![u] = Append(calls[u], p)]
               /\ Missed(u, snap[w].exclude) <= faults
      BY <1>2, <3>1
    <3>3. u = t
      BY <2>3, <3>2 DEF TypeInv, TypeOK
    <3>4. PICK p \in Providers :
               /\ p \notin snap[w].exclude
               /\ calls'[t] = Append(calls[t], p)
               /\ Missed(t, snap[w].exclude) <= faults
      BY <3>2, <3>3 DEF TypeInv, TypeOK
    <3>5. PICK E : E = snap[w].exclude
      OBVIOUS
    <3>6. Cardinality(Repeats(calls'[t])) <= Missed(t, E) /\ Missed(t, E) \in Nat
      BY <3>4, <3>5, MissedCall, MissedType
    <3>7. Cardinality(Repeats(calls'[t])) \in Nat
      <4>1. /\ IsFiniteSet(Repeats(calls[t]))
            /\ \/ Repeats(calls'[t]) = Repeats(calls[t]) \cup {Len(calls[t]) + 1}
               \/ Repeats(calls'[t]) = Repeats(calls[t])
        BY <3>4, OneMoreCall DEF TypeInv, TypeOK
      <4>2. IsFiniteSet(Repeats(calls'[t]))
        BY <4>1, FS_AddElement
      <4> QED BY <4>2, FS_CardinalityType
    <3> QED BY <1>1, <3>4, <3>5, <3>6, <3>7
  <2> QED BY <2>2, <2>3
<1> QED BY <1>3, <1>4, <1>5, <1>6 DEF SwitchOK, Missed

\* With switching as the rule, a provider that refused a task is not asked again
\* for it, but for one repetition with each failed access: the list of excluded
\* providers is never written back as it was before one was added.
THEOREM SwitchNeverRepeatsHolds ==
  ASSUME CallbackActions \cap Requeueing = {}, ~AmbiguousPush,
         "retry" \notin SendActions, ExcludeCurrent
  PROVE  Spec => []SwitchNeverRepeats
<1> USE DEF Usual, Switching
<1>1. Spec => [](TypeInv /\ Chain /\ OutcomeInv /\ CopyOK /\ CounterOK)
  BY CounterInvariant
<1>2. Init => SwitchOK
  <2> SUFFICES ASSUME Init PROVE SwitchOK
    OBVIOUS
  <2>1. \A t \in Tasks : ~OnWay(t) /\ Repeats(calls[t]) = {}
    BY DEF Init, OnWay, InHand, Repeats
  <2>2. /\ \A w \in Workers : pc[w] = "read"
        /\ faults = 0
    BY DEF Init
  <2> QED BY <2>1, <2>2, FS_EmptySet DEF SwitchOK
<1>3. TypeInv /\ Chain /\ OutcomeInv /\ CopyOK /\ SwitchOK /\ [Next]_vars => SwitchOK'
  BY TypeStep, OutcomeStep, SwitchStep
<1>4. SwitchOK => SwitchNeverRepeats
  BY DEF SwitchOK, SwitchNeverRepeats, Repeats
<1> QED BY <1>1, <1>2, <1>3, <1>4, PTL DEF Spec

-----------------------------------------------------------------------------
(* What the reports say *)

\* A report about a message of the task said that it was delivered.
Confirmed(t) ==
  \E c \in Reports : /\ report[c].pc = "end" /\ report[c].verdict = "delivered"
                     /\ report[c].msg \in Taken(t)

\* A row that says delivered was confirmed, and its task is on its way no more;
\* the reports about one message agree; there is no timeout scanner.
VerdictOK ==
  /\ \A t \in Tasks : db[t] # NoRow /\ db[t].cb = "delivered" => ~OnWay(t) /\ Confirmed(t)
  /\ \A c, e \in Reports :
       /\ report[c].pc # "idle" /\ report[e].pc # "idle"
       /\ report[c].msg = report[e].msg
       => report[c].verdict = report[e].verdict
  /\ \A t \in Tasks : scan[t] = NoRow

\* Who writes the row of a task, and what becomes of the report in it.
LEMMA RowWriters ==
  ASSUME TypeInv, [Next]_vars, NEW t \in Tasks, db'[t] # db[t]
  PROVE  \/ Create(t) /\ db'[t] = NewRow
         \/ Revert(t) /\ db'[t].cb = "none"
         \/ \E w \in Workers : /\ pc[w] \in Copying /\ t = stream[cur[w]]
                               /\ db'[t].cb = snap[w].cb
         \/ \E c \in Reports : /\ Apply(c) /\ t = stream[report[c].msg]
                               /\ db'[t].cb = report[c].verdict
                               /\ db'[t].cb = "delivered" => db'[t].status = "success"
         \/ TimeOut(t)
<1>1. ASSUME NEW u \in Tasks, Api(u) PROVE (Create(t) /\ db'[t] = NewRow) \/ (Revert(t) /\ db'[t].cb = "none")
  <2>1. [NewRow EXCEPT !.status = "failed"].cb = "none"
    BY DEF NewRow
  <2> QED BY <1>1, <2>1 DEF Api, Create, Push, PushFails, Revert, ApiCrash, Save, TypeInv, TypeOK
<1>2. \A row \in Rows : \A a : \A via : Outcome(a, row, via).cb = row.cb
  <2> SUFFICES ASSUME NEW row \in Rows, NEW a, NEW via PROVE Outcome(a, row, via).cb = row.cb
    OBVIOUS
  <2>1. [row EXCEPT !.status = "failed"].cb = row.cb
    BY DEF Rows
  <2>2. \A E : [row EXCEPT !.retries = row.retries + 1, !.exclude = E].cb = row.cb
    BY DEF Rows
  <2> QED BY <2>1, <2>2 DEF Outcome
<1>3. ASSUME NEW w \in Workers, Worker(w)
      PROVE  pc[w] \in Copying /\ t = stream[cur[w]] /\ db'[t].cb = snap[w].cb
  <2>1. Mark(w) \/ Succeed(w) \/ Abort(w) \/ Evaluate(w)
    BY <1>3 DEF Worker, Read, ReadLost, Handle, Load, Select, Call, Record, Dead, Ack,
                WorkerCrash
  <2>2. pc[w] \in Copying /\ snap[w] \in Rows
    BY <2>1 DEF Mark, Succeed, Abort, Evaluate, Copying, TypeInv, WorkerOK
  <2>3. \A v : [snap[w] EXCEPT !.status = v].cb = snap[w].cb
    BY <2>2 DEF Rows
  <2>4. PICK u : u = stream[cur[w]]
    OBVIOUS
  <2>5. \E row : Save(u, row) /\ row.cb = snap[w].cb
    <3>1. CASE Mark(w)
      BY <2>4, <3>1 DEF Mark
    <3>2. CASE Succeed(w) \/ Abort(w)
      <4>1. \E v : Save(u, [snap[w] EXCEPT !.status = v])
        BY <2>4, <3>2 DEF Succeed, Abort
      <4> QED BY <2>3, <4>1
    <3>3. CASE Evaluate(w)
      <4>1. \E a : Save(u, Outcome(a, snap[w], prov[w]))
        BY <2>4, <3>3 DEF Evaluate, Execute
      <4> QED BY <1>2, <2>2, <4>1
    <3> QED BY <2>1, <3>1, <3>2, <3>3
  <2> QED BY <2>2, <2>4, <2>5 DEF Save, TypeInv, TypeOK
<1>4. ASSUME NEW c \in Reports, Callback(c)
      PROVE  /\ Apply(c) /\ t = stream[report[c].msg]
             /\ db'[t].cb = report[c].verdict
             /\ db'[t].cb = "delivered" => db'[t].status = "success"
  <2>1. Apply(c)
    BY <1>4 DEF Callback, Arrive, Find, ReportCrash
  <2>2. report[c].row \in Rows /\ report[c].verdict \in Verdicts
    BY <2>1 DEF Apply, TypeInv, TypeOK, ReportOK, ReportState
  <2>3. PICK row \in Rows : row = [report[c].row EXCEPT !.cb = report[c].verdict]
    BY <2>2 DEF Rows, Verdicts
  <2>4. row.cb = report[c].verdict
    BY <2>2, <2>3 DEF Rows
  <2>5. PICK u : u = stream[report[c].msg]
    OBVIOUS
  <2>6. PICK via : via = report[c].via
    OBVIOUS
  <2>7. \/ Save(u, [row EXCEPT !.status = "success"])
        \/ report[c].verdict = "failed" /\ \E a \in CallbackActions : Execute(a, c, u, row, via)
    BY <2>1, <2>3, <2>5, <2>6 DEF Apply
  <2>8. /\ [row EXCEPT !.status = "success"].cb = row.cb
        /\ [row EXCEPT !.status = "success"].status = "success"
    BY DEF Rows
  <2>9. CASE Save(u, [row EXCEPT !.status = "success"])
    BY <2>1, <2>4, <2>5, <2>8, <2>9 DEF Save, TypeInv, TypeOK
  <2>10. ASSUME NEW a, Execute(a, c, u, row, via), report[c].verdict = "failed"
         PROVE  /\ Apply(c) /\ t = stream[report[c].msg]
                /\ db'[t].cb = report[c].verdict
                /\ db'[t].cb = "delivered" => db'[t].status = "success"
    <3>1. db'[t] = Outcome(a, row, via) /\ t = u
      BY <2>10 DEF Execute, Save, TypeInv, TypeOK
    <3> QED BY <1>2, <2>1, <2>4, <2>5, <2>10, <3>1
  <2> QED BY <2>7, <2>9, <2>10
<1>5. CASE Scanner
  BY <1>5 DEF Scanner, Scan, ScannerCrash, TimeOut, Save, TypeInv, TypeOK
<1>6. ASSUME NEW x \in timers, Fire(x) \/ TimerLost(x) PROVE FALSE
  BY <1>6 DEF Fire, TimerLost
<1>7. ~UNCHANGED vars
  BY DEF vars
<1> QED BY <1>1, <1>3, <1>4, <1>5, <1>6, <1>7 DEF Next

\* A report keeps what it says, and what was done stays done.
LEMMA ReportsKept ==
  ASSUME TypeInv, [Next]_vars, NEW c \in Reports
  PROVE  /\ report[c].pc # "idle" =>
              /\ report'[c].msg = report[c].msg /\ report'[c].verdict = report[c].verdict
              /\ report'[c].pc # "idle"
         /\ report[c].pc = "end" => report'[c].pc = "end"
         /\ report[c].pc = "idle" => report'[c].pc = "idle" \/ Arrive(c)
         /\ accepted \subseteq accepted'
<1>1. CASE UNCHANGED report
  <2>1. accepted \subseteq accepted'
    BY DEF Next, Api, Create, Push, PushFails, Revert, ApiCrash, Worker, Handle, Read, ReadLost,
           Load, Mark, Select, Call, Succeed, Record, Evaluate, Abort, Dead, Ack, WorkerCrash,
           Fire, TimerLost, Callback, Arrive, Find, Apply, ReportCrash, Scanner, Scan,
           ScannerCrash, TimeOut, vars
  <2> QED BY <1>1, <2>1
<1>2. CASE ~UNCHANGED report
  <2>1. PICK e \in Reports : Callback(e)
    BY <1>2 DEF Next, Api, Create, Push, PushFails, Revert, ApiCrash, Worker, Handle, Read,
       ReadLost, Load, Mark, Select, Call, Succeed, Record, Evaluate, Abort, Dead, Ack,
       WorkerCrash, Fire, TimerLost, Scanner, Scan, ScannerCrash, TimeOut, vars
  <2>2. UNCHANGED accepted
    BY <2>1 DEF Callback, Arrive, Find, Apply, ReportCrash
  <2>3. report[e] \in ReportState /\ report \in [Reports -> ReportState]
    BY DEF TypeInv, TypeOK
  <2>4. \A r \in ReportState : \A a, b, d :
          /\ [r EXCEPT !.pc = a].pc = a /\ [r EXCEPT !.pc = a].msg = r.msg
          /\ [r EXCEPT !.pc = a].verdict = r.verdict
          /\ [r EXCEPT !.pc = a, !.row = b].pc = a /\ [r EXCEPT !.pc = a, !.row = b].msg = r.msg
          /\ [r EXCEPT !.pc = a, !.row = b].verdict = r.verdict
          /\ [r EXCEPT !.pc = a, !.row = b, !.via = d].pc = a
          /\ [r EXCEPT !.pc = a, !.row = b, !.via = d].msg = r.msg
          /\ [r EXCEPT !.pc = a, !.row = b, !.via = d].verdict = r.verdict
    BY DEF ReportState
  <2>5. CASE Arrive(e)
    <3>1. \A f \in Reports : f # e => report'[f] = report[f]
      BY <2>3, <2>5 DEF Arrive
    <3>2. report[e].pc = "idle"
      BY <2>5 DEF Arrive
    <3>3. c # e => report'[c] = report[c]
      BY <3>1
    <3> QED BY <2>2, <2>5, <3>2, <3>3
  <2>6. CASE Find(e)
    <3>1. report[e].pc = "find"
      BY <2>6 DEF Find
    <3>2. PICK b : b = db[stream[report[e].msg]]
      OBVIOUS
    <3>3. \/ report' = [report EXCEPT ![e].pc = "end"]
          \/ \E d : report' = [report EXCEPT ![e].pc = "apply", ![e].row = b, ![e].via = d]
      BY <2>6, <3>2 DEF Find
    <3>4. CASE report' = [report EXCEPT ![e].pc = "end"]
      <4>1. /\ report'[e].pc = "end" /\ report'[e].msg = report[e].msg
            /\ report'[e].verdict = report[e].verdict
        BY <2>3, <2>4, <3>4
      <4>2. c # e => report'[c] = report[c]
        BY <2>3, <3>4
      <4> QED BY <2>2, <3>1, <4>1, <4>2
    <3>5. ASSUME NEW d, report' = [report EXCEPT ![e].pc = "apply", ![e].row = b, ![e].via = d]
          PROVE  /\ report'[e] = [report[e] EXCEPT !.pc = "apply", !.row = b, !.via = d]
                 /\ c # e => report'[c] = report[c]
      BY <2>3, <3>5
    <3>6. CASE \E d : report' = [report EXCEPT ![e].pc = "apply", ![e].row = b, ![e].via = d]
      <4>1. PICK d : /\ report'[e] = [report[e] EXCEPT !.pc = "apply", !.row = b, !.via = d]
                     /\ c # e => report'[c] = report[c]
        BY <3>5, <3>6
      <4>2. /\ report'[e].pc = "apply" /\ report'[e].msg = report[e].msg
            /\ report'[e].verdict = report[e].verdict
        BY <2>3, <2>4, <4>1
      <4> QED BY <2>2, <3>1, <4>1, <4>2
    <3> QED BY <3>3, <3>4, <3>6
  <2>7. CASE Apply(e) \/ ReportCrash(e)
    <3>1. /\ report[e].pc = "apply"
          /\ report' = [report EXCEPT ![e] = [report[e] EXCEPT !.pc = "end", !.row = NoRow]]
      BY <2>7 DEF Apply, ReportCrash
    <3>2. /\ report'[e].pc = "end" /\ report'[e].msg = report[e].msg
          /\ report'[e].verdict = report[e].verdict
      BY <2>3, <2>4, <3>1
    <3>3. c # e => report'[c] = report[c]
      BY <2>3, <3>1
    <3> QED BY <2>2, <3>1, <3>2, <3>3
  <2> QED BY <2>1, <2>5, <2>6, <2>7 DEF Callback
<1> QED BY <1>1, <1>2

\* What was accepted stays accepted, and what was read stays where it is.
LEMMA HistoryKept ==
  ASSUME TypeInv, [Next]_vars
  PROVE  accepted \subseteq accepted' /\ \A d \in 1 .. cursor : stream'[d] = stream[d]
<1>1. accepted \subseteq accepted'
  BY DEF Next, Api, Create, Push, PushFails, Revert, ApiCrash, Worker, Handle, Read, ReadLost,
         Load, Mark, Select, Call, Succeed, Record, Evaluate, Abort, Dead, Ack, WorkerCrash,
         Fire, TimerLost, Callback, Arrive, Find, Apply, ReportCrash, Scanner, Scan,
         ScannerCrash, TimeOut, vars
<1>2. stream' = stream \/ \E t \in Tasks : stream' = Append(stream, t)
  BY DEF Next, Api, Create, Push, PushFails, Revert, ApiCrash, Worker, Handle, Read, ReadLost,
         Load, Mark, Select, Call, Succeed, Record, Evaluate, Abort, Dead, Ack, WorkerCrash,
         Fire, TimerLost, Callback, Arrive, Find, Apply, ReportCrash, Scanner, Scan,
         ScannerCrash, TimeOut, vars, queueVars, TypeInv, TypeOK
<1> QED BY <1>1, <1>2, Pushed

\* With no scanner, and reports that agree, this is kept by every step.
LEMMA VerdictStep ==
  ASSUME TypeInv, TypeInv', Chain, OutcomeInv, CopyOK, VerdictOK, Usual, OneVerdict, ~Scanning,
         [Next]_vars
  PROVE  VerdictOK'
<1>1. ASSUME NEW t \in Tasks, db[t] # NoRow
      PROVE  /\ OnWay(t)' => OnWay(t)
             /\ Taken(t) \subseteq Taken(t)'
             /\ Confirmed(t) => Confirmed(t)'
  <2>1. OnWay(t)' => OnWay(t)
    BY <1>1, NoneReopens
  <2>2. Taken(t) \subseteq Taken(t)'
    BY HistoryKept, TakenStays
  <2>3. Confirmed(t) => Confirmed(t)'
    BY <2>2, ReportsKept DEF Confirmed
  <2> QED BY <2>1, <2>2, <2>3
<1>2. ASSUME NEW t \in Tasks, db'[t] # NoRow, db'[t].cb = "delivered"
      PROVE  ~OnWay(t)' /\ Confirmed(t)'
  <2>1. CASE db'[t] = db[t]
    BY <1>1, <1>2, <2>1 DEF VerdictOK
  <2>2. CASE db'[t] # db[t] /\ \E c \in Reports : Apply(c) /\ t = stream[report[c].msg]
                                                   /\ db'[t].cb = report[c].verdict
    <3>1. PICK c \in Reports : /\ Apply(c) /\ t = stream[report[c].msg]
                               /\ report[c].verdict = "delivered"
      BY <1>2, <2>2
    <3>2. report[c].pc = "apply"
      BY <3>1 DEF Apply
    <3>3. PICK d \in accepted : d = report[c].msg /\ t = stream[d]
      BY <3>1, <3>2 DEF OutcomeInv, TakenOK
    <3>4. db[t] # NoRow
      BY <3>3, TakenHasRow, NoRowAssumption
    <3>5. ~OnWay(t)
      BY <3>1, <3>2 DEF OutcomeInv, TakenOK
    <3>6. /\ report'[c].msg = d /\ report'[c].verdict = "delivered"
      BY <3>1, <3>2, <3>3, ReportsKept
    <3>7. report'[c].pc = "end"
      <4>1. report' = [report EXCEPT ![c].pc = "end", ![c].row = NoRow]
        BY <3>1 DEF Apply
      <4>2. report[c] \in ReportState /\ report \in [Reports -> ReportState]
        BY DEF TypeInv, TypeOK
      <4> QED BY <4>1, <4>2 DEF ReportState
    <3>8. d \in Taken(t)'
      BY <1>1, <3>3, <3>4 DEF Taken
    <3> QED BY <1>1, <3>4, <3>5, <3>6, <3>7, <3>8 DEF Confirmed
  <2>3. CASE \E w \in Workers : /\ pc[w] \in Copying /\ t = stream[cur[w]]
                                /\ db'[t].cb = snap[w].cb
    <3>1. PICK w \in Workers : pc[w] \in Copying /\ t = stream[cur[w]] /\ db'[t].cb = snap[w].cb
      BY <2>3
    <3>2. OnWay(t) /\ db[t] # NoRow
      BY <3>1, InTheHand, NoRowAssumption DEF Copying
    <3>3. db[t].cb = "delivered"
      BY <1>2, <3>1 DEF CopyOK, Agrees
    <3> QED BY <3>2, <3>3 DEF VerdictOK
  <2>4. CASE (Create(t) /\ db'[t] = NewRow) \/ (Revert(t) /\ db'[t].cb = "none")
    BY <1>2, <2>4 DEF NewRow
  <2>5. ~TimeOut(t)
    BY DEF TimeOut, VerdictOK
  <2> QED BY <2>1, <2>2, <2>3, <2>4, <2>5, RowWriters
<1>3. ASSUME NEW c \in Reports, NEW e \in Reports, report'[c].pc # "idle", report'[e].pc # "idle",
             report'[c].msg = report'[e].msg
      PROVE  report'[c].verdict = report'[e].verdict
  <2>1. ASSUME NEW f \in Reports, Arrive(f), NEW g \in Reports, g # f, report'[g].pc # "idle",
               report'[g].msg = report'[f].msg
        PROVE  report'[g].verdict = report'[f].verdict
    <3>1. PICK d \in accepted, v \in Verdicts :
            /\ \A x \in Reports :
                 report[x].pc # "idle" /\ report[x].msg = d => report[x].verdict = v
            /\ report' = [report EXCEPT ![f].pc = "find", ![f].msg = d, ![f].verdict = v]
      BY <2>1 DEF Arrive
    <3>2. report \in [Reports -> ReportState]
      BY DEF TypeInv, TypeOK
    <3>3. report'[g] = report[g]
      BY <2>1, <3>1, <3>2
    <3>4. report'[f].msg = d /\ report'[f].verdict = v
      BY <2>1, <3>1, <3>2 DEF ReportState
    <3> QED BY <2>1, <3>1, <3>3, <3>4
  <2>2. CASE report[c].pc # "idle" /\ report[e].pc # "idle"
    BY <1>3, <2>2, ReportsKept DEF VerdictOK
  <2>3. CASE c # e /\ (report[c].pc = "idle" \/ report[e].pc = "idle")
    <3>1. Arrive(c) \/ Arrive(e)
      BY <1>3, <2>3, ReportsKept
    <3> QED BY <1>3, <2>1, <2>3, <3>1
  <2> QED BY <2>2, <2>3
<1>4. \A t \in Tasks : scan'[t] = NoRow
  BY DEF VerdictOK, Next, Api, Create, Push, PushFails, Revert, ApiCrash, Worker, Handle, Read,
         ReadLost, Load, Mark, Select, Call, Succeed, Record, Evaluate, Abort, Dead, Ack,
         WorkerCrash, Fire, TimerLost, Callback, Arrive, Find, Apply, ReportCrash, Scanner,
         Scan, ScannerCrash, TimeOut, vars
<1> QED BY <1>2, <1>3, <1>4 DEF VerdictOK

\* A delivered row is written by nobody but another report that says the same.
LEMMA FinalStep ==
  ASSUME TypeInv, Chain, OutcomeInv, VerdictOK, Usual, [Next]_vars,
         NEW t \in Tasks, HasStatus(t, {"success"}), db[t].cb = "delivered"
  PROVE  db'[t].status = "success" /\ db'[t].cb = "delivered"
<1>1. db[t] # NoRow /\ db[t].status = "success" /\ ~OnWay(t) /\ Confirmed(t)
  BY DEF HasStatus, VerdictOK
<1>2. CASE db'[t] = db[t]
  BY <1>1, <1>2
<1>3. CASE Create(t) \/ Revert(t)
  <2>1. db[t] \in {NoRow, NewRow}
    BY <1>3 DEF Create, Revert, OutcomeInv, NewOK
  <2> QED BY <1>1, <2>1 DEF NewRow
<1>4. ASSUME NEW w \in Workers, pc[w] \in Copying, t = stream[cur[w]] PROVE FALSE
  BY <1>1, <1>4, InTheHand DEF Copying
<1>5. ASSUME NEW c \in Reports, Apply(c), t = stream[report[c].msg],
             db'[t].cb = report[c].verdict,
             db'[t].cb = "delivered" => db'[t].status = "success"
      PROVE  db'[t].status = "success" /\ db'[t].cb = "delivered"
  <2>1. PICK e \in Reports : /\ report[e].pc = "end" /\ report[e].verdict = "delivered"
                             /\ report[e].msg \in accepted /\ stream[report[e].msg] = t
    BY <1>1 DEF Confirmed, Taken
  <2>2. report[c].pc = "apply" /\ report[c].msg \in accepted
    BY <1>5 DEF Apply, OutcomeInv, TakenOK
  <2>3. report[c].msg = report[e].msg
    BY <1>5, <2>1, <2>2 DEF OutcomeInv, TakenOK
  <2>4. report[c].verdict = "delivered"
    BY <2>1, <2>2, <2>3 DEF VerdictOK
  <2> QED BY <1>5, <2>4
<1>6. ~TimeOut(t)
  BY DEF TimeOut, VerdictOK
<1> QED BY <1>2, <1>3, <1>4, <1>5, <1>6, RowWriters

\* With no timeout scanner, and reports of one message that agree, a row that a
\* report made delivered stays so: no worker, report handler or request writes
\* an older copy over it.
THEOREM DeliveredIsFinalHolds ==
  ASSUME CallbackActions \cap Requeueing = {}, ~AmbiguousPush, OneVerdict, ~Scanning
  PROVE  Spec => DeliveredIsFinal
<1> USE DEF Usual
<1>1. Spec => [](TypeInv /\ Chain /\ OutcomeInv /\ CopyOK /\ CounterOK)
  BY CounterInvariant
<1>2. Init => VerdictOK
  <2>1. Init => \A t \in Tasks : db[t] = NoRow /\ scan[t] = NoRow
    BY DEF Init
  <2>2. Init => \A c \in Reports : report[c].pc = "idle"
    BY DEF Init
  <2> QED BY <2>1, <2>2 DEF VerdictOK
<1>3. TypeInv /\ Chain /\ OutcomeInv /\ CopyOK /\ VerdictOK /\ [Next]_vars => VerdictOK'
  BY TypeStep, VerdictStep
<1>4. TypeInv /\ Chain /\ OutcomeInv /\ VerdictOK /\ [Next]_vars
        => [\A t \in Tasks : HasStatus(t, {"success"}) /\ db[t].cb = "delivered" =>
              db'[t].status = "success" /\ db'[t].cb = "delivered"]_vars
  BY FinalStep
<1> QED BY <1>1, <1>2, <1>3, <1>4, PTL DEF Spec, DeliveredIsFinal

-----------------------------------------------------------------------------
(* The promise *)

\* The phase of a task in the words of OnWay.
PhaseOK ==
  \A t \in Tasks :
    Phase(t) = IF db[t] = NoRow THEN "none" ELSE IF OnWay(t) THEN "open" ELSE "closed"

LEMMA PhaseIs == PhaseOK
BY OnWayIsToken DEF PhaseOK, Phase

\* The budget is the largest of the limits.
LEMMA BudgetBounds ==
  /\ Budget \in Nat
  /\ \A a \in SendActions \cap Requeueing : Limit(a) <= Budget
<1> DEFINE limits == {Limit(a) : a \in SendActions \cap Requeueing} \cup {0}
<1>1. \A n \in limits : n \in {0, RetryMax, SwitchMax} /\ n \in Nat
  BY BoundsAssumption DEF Limit
<1>2. \E n \in limits : \A m \in limits : m <= n
  <2>1. limits # {} /\ RetryMax \in Nat /\ SwitchMax \in Nat
    BY BoundsAssumption
  <2> HIDE DEF limits
  <2>2. PICK x \in limits : TRUE
    BY <2>1
  <2> QED BY <1>1, <2>1, <2>2
<1>3. Budget \in limits /\ \A m \in limits : m <= Budget
  <2> HIDE DEF limits
  <2>1. Budget = CHOOSE n \in limits : \A m \in limits : m <= n
    BY DEF Budget, limits
  <2> QED BY <1>2, <2>1
<1> QED BY <1>1, <1>3

\* No step but Create gives a task a row.
LEMMA RowsKept ==
  ASSUME TypeInv, TypeInv', [Next]_vars, NEW t \in Tasks, ~Create(t)
  PROVE  db'[t] = NoRow <=> db[t] = NoRow
<1>1. ASSUME NEW u \in Tasks, Api(u) PROVE api'[t] = "absent" <=> api[t] = "absent"
  BY <1>1 DEF Api, Create, Push, PushFails, Revert, ApiCrash, TypeInv, TypeOK
<1>2. ASSUME ~\E u \in Tasks : Api(u) PROVE api' = api
  BY <1>2 DEF Next, Worker, Handle, Read, ReadLost, Load, Mark, Select, Call, Succeed, Record,
     Evaluate, Abort, Dead, Ack, WorkerCrash, Fire, TimerLost, Callback, Arrive, Find, Apply,
     ReportCrash, Scanner, Scan, ScannerCrash, TimeOut, vars
<1>3. api'[t] = "absent" <=> api[t] = "absent"
  BY <1>1, <1>2
<1> QED BY <1>3 DEF TypeInv, RowOK

\* A request opens the phase of its task.
LEMMA PromiseCreate ==
  ASSUME TypeInv, TypeInv', PhaseOK, PhaseOK', NEW t \in Tasks, Create(t)
  PROVE  Promise!Accept(t)
<1>1. /\ api[t] = "absent" /\ db' = [db EXCEPT ![t] = NewRow] /\ api' = [api EXCEPT ![t] = "push"]
      /\ UNCHANGED <<stream, cursor, timers, batch, cur, pc, calls>>
  BY DEF Create, queueVars, workerVars
<1>2. db[t] = NoRow /\ db'[t] # NoRow /\ api'[t] = "push"
  BY <1>1 DEF TypeInv, TypeOK, RowOK
<1>3. Phase(t) = "none" /\ Phase(t)' = "open"
  <2>1. OnWay(t)'
    BY <1>2 DEF OnWay
  <2> QED BY <1>2, <2>1 DEF PhaseOK
<1>4. ASSUME NEW u \in Tasks, u # t PROVE Phase(u)' = Phase(u)
  <2>1. db'[u] = db[u] /\ api'[u] = api[u]
    BY <1>1, <1>4 DEF TypeInv, TypeOK
  <2>2. OnWay(u)' <=> OnWay(u)
    BY <1>1, <2>1 DEF OnWay, InHand
  <2> QED BY <2>1, <2>2 DEF PhaseOK
<1> QED BY <1>1, <1>3, <1>4 DEF Promise!Accept

\* A call to a provider is a try, within the bound.
LEMMA PromiseTry ==
  ASSUME TypeInv, TypeInv', PhaseOK, PhaseOK', CounterOK', NEW w \in Workers, Call(w)
  PROVE  \E t \in Tasks : Promise!Try(t)
<1>1. PICK t \in Tasks : t = stream[cur[w]]
  BY Busy DEF Call
<1>2. OnWay(t) /\ db[t] # NoRow
  BY <1>1, InTheHand, NoRowAssumption DEF Call
<1>3. /\ UNCHANGED <<stream, cursor, timers, api, db, batch, cur, faults>>
      /\ pc[w] = "call" /\ pc'[w] \in {"succeed", "evaluate"}
      /\ \A v \in Workers \ {w} : pc'[v] = pc[v]
  BY DEF Call, Goto, TypeInv, TypeOK, queueVars
<1>4. \A u \in Tasks : Phase(u)' = Phase(u)
  <2>1. \A u \in Tasks : OnWay(u)' <=> OnWay(u)
    BY <1>3 DEF OnWay, InHand
  <2> QED BY <1>3, <2>1 DEF PhaseOK
<1>5. PICK p : calls' = [calls EXCEPT ![t] = Append(calls[t], p)] /\ p \in Providers
  BY <1>1 DEF Call, TypeInv, TypeOK
<1>6. \A u \in Tasks : calls[u] \in Seq(Providers) /\ Len(calls[u]) \in Nat
  BY DEF TypeInv, TypeOK
<1>7. Len(calls'[t]) = Len(calls[t]) + 1 /\ \A u \in Tasks : u # t => calls'[u] = calls[u]
  BY <1>5, <1>6 DEF TypeInv, TypeOK
<1>8. Len(calls[t]) < 1 + Budget + MaxFaults
  <2>1. PICK n \in Nat : Within(n) /\ Len(calls'[t]) <= 1 + n + faults'
    BY DEF CounterOK
  <2>2. n <= Budget /\ Budget \in Nat
    <3>1. \A a \in SendActions \cap Requeueing : Limit(a) \in Nat /\ Limit(a) <= Budget
      BY BudgetBounds, BoundsAssumption DEF Limit
    <3> QED BY <2>1, <3>1, BudgetBounds DEF Within
  <2>3. faults' \in Nat /\ faults' <= MaxFaults /\ MaxFaults \in Nat
    BY BoundsAssumption DEF TypeInv, TypeOK
  <2> QED BY <1>6, <1>7, <2>1, <2>2, <2>3
<1>9. Phase(t) = "open"
  BY <1>2 DEF PhaseOK
<1> QED BY <1>4, <1>6, <1>7, <1>8, <1>9 DEF Promise!Try

\* Any other step leaves the phases alone, or closes some that were open.
LEMMA PromiseClose ==
  ASSUME TypeInv, TypeInv', PhaseOK, PhaseOK', Usual, [Next]_vars, UNCHANGED calls,
         ~\E t \in Tasks : Create(t)
  PROVE  [Promise!Next]_(Promise!promise)
<1>1. \A t \in Tasks : Phase(t)' = Phase(t) \/ (Phase(t) = "open" /\ Phase(t)' = "closed")
  BY RowsKept, NoneReopens DEF PhaseOK
<1>2. PICK S \in SUBSET Tasks : S = {t \in Tasks : Phase(t)' # Phase(t)}
  OBVIOUS
<1>3. CASE S = {}
  <2>1. \A t \in Tasks : Phase(t)' = Phase(t)
    BY <1>2, <1>3
  <2> QED BY <2>1 DEF Promise!promise
<1>4. CASE S # {}
  <2>1. Promise!Close(S)
    BY <1>1, <1>2 DEF Promise!Close
  <2>2. PICK t \in S : TRUE
    BY <1>4
  <2>3. Promise!Ends(t)
    BY <2>1, <2>2 DEF Promise!Ends
  <2> QED BY <2>3, <1>2 DEF Promise!Next
<1> QED BY <1>3, <1>4

\* Every step of Delivery is a step of the promise, or none.
LEMMA PromiseStep ==
  ASSUME TypeInv, TypeInv', PhaseOK, PhaseOK', CounterOK', Usual, [Next]_vars
  PROVE  [Promise!Next]_(Promise!promise)
<1>1. ASSUME NEW t \in Tasks, Create(t) PROVE Promise!Next
  BY <1>1, PromiseCreate DEF Promise!Next
<1>2. ASSUME NEW w \in Workers, Call(w) PROVE [Promise!Next]_(Promise!promise)
  BY <1>2, PromiseTry DEF Promise!Next
<1> QED BY <1>1, <1>2, CallsKept, PromiseClose

\* Queue, workers, goroutines and crashes together never show more than one
\* phase of a task, in which all its provider calls fall, within the budget and
\* one more for each failed access; once it is over it is over for good. That
\* it gets over is left to the model checker.
THEOREM PromiseKept ==
  ASSUME CallbackActions \cap Requeueing = {}, ~AmbiguousPush
  PROVE  Spec => Promise!Init /\ [][Promise!Next]_(Promise!promise)
<1> USE DEF Usual
<1>1. Spec => [](TypeInv /\ Chain /\ OutcomeInv /\ CopyOK /\ CounterOK)
  BY CounterInvariant
<1>2. Init => Promise!Init
  <2> SUFFICES ASSUME Init PROVE Promise!Init
    OBVIOUS
  <2>1. \A t \in Tasks : Phase(t) = "none" /\ Len(calls[t]) = 0
    BY DEF Init, Phase
  <2> QED BY <2>1 DEF Promise!Init
<1>3. TypeInv /\ TypeInv' /\ PhaseOK /\ PhaseOK' /\ CounterOK' /\ [Next]_vars
        => [Promise!Next]_(Promise!promise)
  BY PromiseStep
<1>4. PhaseOK
  BY PhaseIs
<1> QED BY <1>1, <1>2, <1>3, <1>4, PTL DEF Spec

=============================================================================
