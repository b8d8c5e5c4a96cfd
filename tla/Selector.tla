------------------------------ MODULE Selector ------------------------------
(***************************************************************************)
(* ChannelSelector: which binding of a channel, and with it which provider *)
(* account, a worker uses for a message. Every replica has a selector with *)
(* a mutex of its own; all of them share, in Redis, the list of nodes of   *)
(* the channel, the weights of the smooth weighted round robin, and the    *)
(* provider each receiver got last. An administrator changes bindings and  *)
(* then clears the list and the weights.                                   *)
(*                                                                         *)
(* A step is one access to Redis or to the table, or one loop over the keys*)
(* of the weights, of which one may fail. A key that is missing            *)
(* and the query that follows are one step: a change in between only makes *)
(* the answer newer. Priorities and weights of bindings do not change: a   *)
(* changed one is a binding deleted and another one created. The 24 hours  *)
(* after which an unused weight expires do not pass.                       *)
(***************************************************************************)
EXTENDS Integers, FiniteSets

CONSTANTS
  Bindings,       \* template bindings of one channel
  Existing,       \* those that exist, and are active, at the start
  Provider,       \* the provider account of each binding
  Priority,       \* its priority, the lowest number first
  Weight,         \* its weight
  Rank,           \* its place in the order the query answers in
  Callers,        \* workers
  Selector,       \* the selector each worker uses, one per replica
  Receivers,      \* whom messages go to
  Excludes,       \* sets of providers a task may exclude
  Covered,        \* TRUE: the channel's type is among those ClearCache knows
  MaxChanges,     \* bound: changes by the administrator
  MaxFaults,      \* bound: failed accesses
  None            \* no entry, no provider, no binding

Providers == {Provider[b] : b \in Bindings}
Selectors == {Selector[c] : c \in Callers}

ASSUME BindingsAssumption ==
  /\ IsFiniteSet(Bindings) /\ Existing \subseteq Bindings
  /\ Provider \in [Bindings -> Providers]
  /\ Priority \in [Bindings -> Nat] /\ Weight \in [Bindings -> Nat \ {0}]
  /\ Rank \in [Bindings -> Nat]
  /\ \A a, b \in Bindings : Rank[a] = Rank[b] => a = b
  /\ Excludes \subseteq SUBSET Providers
  /\ None \notin Providers \cup Bindings \cup Callers

ASSUME BoundsAssumption ==
  MaxChanges \in Nat /\ MaxFaults \in Nat /\ Covered \in BOOLEAN

VARIABLES
  table,    \* channel_template_bindings: what each binding is
  admin,    \* the next access of the administrator's request
  changes,  \* changes so far
  nodes,    \* the cached list of nodes, None when there is none
  weights,  \* the current weight of each binding, 0 when there is none
  last,     \* the provider recorded for each receiver
  lock,     \* who holds the mutex of each selector
  call,     \* each worker's call of SelectWithExcludes
  faults    \* failed accesses so far

vars == <<table, admin, changes, nodes, weights, last, lock, call, faults>>

request == <<table, admin, changes>>

Zero == [b \in Bindings |-> 0]

Idle == [pc |-> "idle", receiver |-> None, exclude |-> {}, view |-> {},
         rivals |-> {}, got |-> Zero, node |-> None, before |-> None]

Init ==
  /\ table = [b \in Bindings |-> IF b \in Existing THEN "on" ELSE "new"]
  /\ admin = "idle"
  /\ changes = 0
  /\ nodes = None
  /\ weights = Zero
  /\ last = [r \in Receivers |-> None]
  /\ lock = [s \in Selectors |-> None]
  /\ call = [c \in Callers |-> Idle]
  /\ faults = 0

\* An access to Redis or to the table answers an error.
Fault == faults < MaxFaults /\ faults' = faults + 1

\* The accesses of a loop over S that fail.
AtMostOne(S) == {{}} \cup {{b} : b \in S}

\* The first of S in the order of the query.
First(S) == CHOOSE b \in S : \A x \in S : Rank[b] <= Rank[x]

-----------------------------------------------------------------------------
(* getChannelNodes, filterExcludedProviders *)

\* Call k with the nodes of S whose provider is not in E; without any it is over.
Viewing(k, S, E) ==
  LET left == {b \in S : Provider[b] \notin E} IN
  IF left = {} THEN Idle
  ELSE [k EXCEPT !.pc = "last", !.exclude = {}, !.view = left]

\* A call finds the list, or loads it with GetActiveByChannelID. No active binding,
\* or a failed query, ends it before it changes anything.
Begin(c) ==
  LET active == {b \in Bindings : table[b] = "on"} IN
  /\ call[c].pc = "idle"
  /\ \E E \in Excludes, r \in Receivers :
       LET k == [Idle EXCEPT !.receiver = r, !.before = last[r]] IN
       \/ /\ nodes # None
          /\ call' = [call EXCEPT ![c] = Viewing(k, nodes, E)]
       \/ /\ nodes = None /\ active # {}
          /\ call' = [call EXCEPT ![c] = [k EXCEPT !.pc = "store", !.exclude = E,
                                                   !.view = active]]
  /\ UNCHANGED <<request, nodes, weights, last, lock, faults>>

Store(c) ==
  LET k == call[c] IN
  /\ k.pc = "store"
  /\ nodes' = k.view
  /\ call' = [call EXCEPT ![c] = Viewing(k, k.view, k.exclude)]
  /\ UNCHANGED <<request, weights, last, lock, faults>>

\* 30 seconds have passed.
ExpireNodes ==
  /\ nodes # None
  /\ nodes' = None
  /\ UNCHANGED <<request, weights, last, lock, call, faults>>

-----------------------------------------------------------------------------
(* smoothWeightedRoundRobin *)

\* The bindings of the highest priority in S.
Top(S) == {b \in S : \A x \in S : Priority[b] <= Priority[x]}

\* Mutant of Rotated: the provider the receiver got last is not left out.
NotRotated(S, p) == S

\* Without the bindings of provider p, unless there are no others.
Rotated(S, p) ==
  LET others == {b \in S : Provider[b] # p} IN IF others = {} THEN S ELSE others

\* getLastProviderID, which answers 0 when it cannot read; a binding without a
\* rival is taken as it is. What is left to compare is kept of `before`: nothing, when
\* the record could not be read or no other provider is there to take.
ReadLast(c) ==
  LET k == call[c]
      top == Top(k.view) IN
  /\ k.pc = "last"
  /\ \E p \in {last[k.receiver], None} :
       /\ IF p = last[k.receiver] THEN UNCHANGED faults ELSE Fault
       /\ LET rivals == Rotated(top, p)
              free == p = last[k.receiver] /\ \E b \in top : Provider[b] # k.before
              seen == [k EXCEPT !.view = {}, !.before = IF free THEN @ ELSE None] IN
          call' = [call EXCEPT ![c] =
            IF Cardinality(rivals) = 1
            THEN [seen EXCEPT !.pc = "record", !.node = First(rivals)]
            ELSE [seen EXCEPT !.pc = "lock", !.rivals = rivals]]
  /\ UNCHANGED <<request, nodes, weights, last, lock>>

\* The chosen one of S when the weights are w: the greatest sum, the first of equals.
Chosen(S, w) ==
  First({b \in S : \A x \in S : w[x] + Weight[x] <= w[b] + Weight[b]})

\* The sum of the weights of S: a lot for each unit of weight.
Total(S) == Cardinality(UNION {{b} \X (1..Weight[b]) : b \in S})

\* Mutant of Updated: the chosen one gives up nothing.
UpdatedForFree(S, w) == [b \in Bindings |-> IF b \notin S THEN 0 ELSE w[b] + Weight[b]]

\* The weights of S after the choice.
Updated(S, w) ==
  [b \in Bindings |->
     IF b \notin S THEN 0
     ELSE w[b] + Weight[b] - (IF b = Chosen(S, w) THEN Total(S) ELSE 0)]

\* Under the mutex: loadWeightStates, where a weight that cannot be read counts as
\* 0, and the choice.
Compete(c) ==
  LET S == call[c].rivals IN
  /\ call[c].pc = "lock"
  /\ lock[Selector[c]] = None
  /\ lock' = [lock EXCEPT ![Selector[c]] = c]
  /\ \E unread \in AtMostOne(S) :
       LET w == [b \in Bindings |-> IF b \in unread THEN 0 ELSE weights[b]]
           n == Chosen(S, w) IN
       /\ IF unread = {} THEN UNCHANGED faults ELSE Fault
       /\ call' = [call EXCEPT ![c] = [@ EXCEPT !.pc = "keep", !.node = n,
                                                   !.got = Updated(S, w)]]
  /\ UNCHANGED <<request, nodes, weights, last>>

\* saveWeightStates, where a failure is logged, and the end of the mutex.
Keep(c) ==
  /\ call[c].pc = "keep"
  /\ \E unsaved \in AtMostOne(call[c].rivals) :
       /\ IF unsaved = {} THEN UNCHANGED faults ELSE Fault
       /\ weights' = [b \in Bindings |-> IF b \in call[c].rivals \ unsaved
                                         THEN call[c].got[b] ELSE weights[b]]
  /\ lock' = [lock EXCEPT ![Selector[c]] = None]
  /\ call' = [call EXCEPT ![c] = [@ EXCEPT !.pc = "record", !.rivals = {},
                                           !.got = Zero]]
  /\ UNCHANGED <<request, nodes, last>>

\* History: the calls of r that go on did not begin after what now ends or expires.
Overtaken(r) ==
  [d \in Callers |-> IF call[d].receiver = r THEN [call[d] EXCEPT !.before = None]
                     ELSE call[d]]

\* Mutant of Record: the binding is recorded, not its provider.
RecordBinding(c) ==
  LET r == call[c].receiver IN
  /\ call[c].pc = "record"
  /\ last' = [last EXCEPT ![r] = call[c].node]
  /\ call' = [Overtaken(r) EXCEPT ![c] = Idle]
  /\ UNCHANGED <<request, nodes, weights, lock, faults>>

\* recordLastProvider, and the end of the call; a failure is logged.
Record(c) ==
  LET r == call[c].receiver
      p == Provider[call[c].node] IN
  /\ call[c].pc = "record"
  /\ \/ /\ last' = [last EXCEPT ![r] = p]
        /\ call' = [Overtaken(r) EXCEPT ![c] = Idle]
        /\ UNCHANGED faults
     \/ /\ Fault
        /\ call' = [call EXCEPT ![c] = Idle]
        /\ UNCHANGED last
  /\ UNCHANGED <<request, nodes, weights, lock>>

\* 5 minutes have passed.
ExpireLast(r) ==
  /\ last[r] # None
  /\ last' = [last EXCEPT ![r] = None]
  /\ call' = Overtaken(r)
  /\ UNCHANGED <<request, nodes, weights, lock, faults>>

-----------------------------------------------------------------------------
(* The administrator *)

\* Create, update or delete a binding, or delete the channel. What is deleted is
\* "off" and stays so: its weight may be left behind, and nobody reads it again. The
\* bindings of a channel are gone even when the rest of DeleteChannel is rolled back.
Change ==
  /\ admin = "idle"
  /\ changes < MaxChanges
  /\ changes' = changes + 1
  /\ \/ \E b \in Bindings :
          table' = [table EXCEPT ![b] = IF @ = "on" THEN "off" ELSE "on"]
     \/ table' = [b \in Bindings |-> IF table[b] = "new" THEN "new" ELSE "off"]
  /\ admin' = "clear"
  /\ UNCHANGED <<nodes, weights, last, lock, call, faults>>

\* A statement after the change fails, or the process ends.
Abandon ==
  /\ admin # "idle"
  /\ admin' = "idle"
  /\ UNCHANGED <<table, changes, nodes, weights, last, lock, call, faults>>

\* ClearCacheByChannelID; a failure is logged.
Clear ==
  /\ admin = "clear"
  /\ admin' = "reset"
  /\ \/ nodes' = (IF Covered THEN None ELSE nodes) /\ UNCHANGED faults
     \/ Fault /\ UNCHANGED nodes
  /\ UNCHANGED <<table, changes, weights, last, lock, call>>

\* ResetWeightsByChannelID: the bindings that are in the table; failures are logged.
Reset ==
  LET kept == {b \in Bindings : table[b] # "new"} IN
  /\ admin = "reset"
  /\ admin' = "idle"
  /\ \E undeleted \in AtMostOne(kept) :
       /\ IF undeleted = {} THEN UNCHANGED faults ELSE Fault
       /\ weights' = [b \in Bindings |-> IF b \in kept \ undeleted THEN 0
                                         ELSE weights[b]]
  /\ UNCHANGED <<table, changes, nodes, last, lock, call>>

-----------------------------------------------------------------------------
Next ==
  \/ \E c \in Callers :
       Begin(c) \/ Store(c) \/ ReadLast(c) \/ Compete(c) \/ Keep(c) \/ Record(c)
  \/ \E r \in Receivers : ExpireLast(r)
  \/ ExpireNodes
  \/ Change \/ Abandon \/ Clear \/ Reset

Spec == Init /\ [][Next]_vars

-----------------------------------------------------------------------------
(* Properties *)

Calls ==
  [pc : {"idle", "store", "last", "lock", "keep", "record"},
   receiver : Receivers \cup {None}, exclude : SUBSET Providers,
   view : SUBSET Bindings, rivals : SUBSET Bindings, got : [Bindings -> Int],
   node : Bindings \cup {None}, before : Providers \cup {None}]

\* Every variable has the type its declaration says.
TypeOK ==
  /\ table \in [Bindings -> {"new", "on", "off"}]
  /\ admin \in {"idle", "clear", "reset"}
  /\ changes \in 0..MaxChanges /\ faults \in 0..MaxFaults
  /\ nodes \in (SUBSET Bindings) \cup {None}
  /\ weights \in [Bindings -> Int]
  /\ last \in [Receivers -> Providers \cup {None}]
  /\ lock \in [Selectors -> Callers \cup {None}]
  /\ call \in [Callers -> Calls]

\* Two messages to one receiver, one chosen for after the other, are not given the
\* same provider while another one of that priority is left to take: what
\* SelectWithExcludes reads and records is enough for it, whichever replicas the
\* two calls run on and whatever else goes on.
NoRepeat ==
  \A c \in Callers :
    call[c].pc = "record" => Provider[call[c].node] # call[c].before

\* Current weights stay within the sum of all weights once for each rival, and once
\* more for each binding at each access that failed and each change, whose reset may
\* fall between a choice and its being kept: however the sets that compete differ from
\* call to call. A binding that competes and loses gains its weight: so none is passed
\* over for ever, and none is chosen for ever. (The sum once would not do: five bindings
\* of weights 10, 1, 1, 1, 1 exceed it, though no access fails.) This is so with one
\* replica; the mutex of a replica does not keep another one out.
WeightsBounded ==
  LET levels == 1 + faults + changes
      bound  == (levels * Cardinality(Bindings) - 1) * Total(Bindings)
  IN  \A b \in Bindings : weights[b] \in -bound .. bound
=============================================================================
