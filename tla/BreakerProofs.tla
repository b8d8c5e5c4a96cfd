---------------------------- MODULE BreakerProofs ----------------------------
(***************************************************************************)
(* Breaker for any number of callers and any parameters. Everything rests  *)
(* on one inductive invariant: the calls of a generation are all accounted *)
(* for, and in the half-open state no failure has been counted, every      *)
(* success has lengthened the streak and the streak is still too short.    *)
(***************************************************************************)
EXTENDS Breaker, FiniteSetTheorems, TLAPS

Breakers == [state : States, generation : Nat \ {0}, counts : Counts,
             expiry : Nat \cup {Zero}]

\* The callers that k has in flight in generation g.
Running(k, g) == {c \in Callers : k[c] = g}

\* No call is of a later generation, and those of this one are accounted for.
Counted(b, k) ==
  /\ k \in [Callers -> 0 .. b.generation]
  /\ b.counts.requests = b.counts.successes + b.counts.failures
                           + Cardinality(Running(k, b.generation))

\* The probes of the half-open state so far succeeded, and do not suffice.
Probing(b) ==
  b.state = "half_open" =>
    /\ b.counts.failures = 0
    /\ b.counts.streak = b.counts.successes
    /\ b.counts.streak < MaxRequests
    /\ b.counts.requests <= MaxRequests

Sound(b, k) == b \in Breakers /\ Counted(b, k) /\ Probing(b)

Inv == TypeOK /\ Sound(breaker, call)

-----------------------------------------------------------------------------

\* The callers in flight are finitely many.
LEMMA FewRunning ==
  ASSUME NEW k, NEW g
  PROVE  IsFiniteSet(Running(k, g)) /\ Cardinality(Running(k, g)) \in Nat
<1>1. Running(k, g) \subseteq Callers
  BY DEF Running
<1>2. IsFiniteSet(Running(k, g))
  BY <1>1, CallersAssumption, FS_Subset
<1> QED
  BY <1>2, FS_CardinalityType

\* No call is in flight in a generation that has not begun.
LEMMA NoneInNext ==
  ASSUME NEW g \in Nat, NEW k \in [Callers -> 0 .. g]
  PROVE  Running(k, g + 1) = {} /\ k \in [Callers -> 0 .. g + 1]
BY DEF Running

\* A new generation has nothing to account for.
LEMMA NewGenerationSound ==
  ASSUME NEW b \in Breakers, NEW k \in [Callers -> 0 .. b.generation],
         NEW s \in States, NEW end \in Nat \cup {Zero}
  PROVE  /\ Sound(NewGeneration(b, s, end), k)
         /\ NewGeneration(b, s, end).generation = b.generation + 1
         /\ NewGeneration(b, s, end).state = s
<1> DEFINE n == NewGeneration(b, s, end)
<1>1. /\ n.state = s /\ n.generation = b.generation + 1 /\ n.counts = NoCounts
      /\ b.generation \in Nat
  BY DEF NewGeneration, Breakers
<1>2. n \in Breakers
  BY <1>1 DEF NewGeneration, Breakers, Counts, NoCounts
<1> HIDE DEF n
<1>3. Counted(n, k)
  <2>1. k \in [Callers -> 0 .. n.generation]
    BY <1>1, NoneInNext
  <2>2. Cardinality(Running(k, n.generation)) = 0
    BY <1>1, NoneInNext, FS_EmptySet
  <2>3. /\ n.counts.requests = 0
        /\ n.counts.successes = 0 /\ n.counts.failures = 0
    BY <1>1 DEF NoCounts
  <2> QED
    BY <2>1, <2>2, <2>3 DEF Counted
<1>4. Probing(n)
  BY <1>1, ParametersAssumption DEF Probing, NoCounts
<1> QED
  BY <1>1, <1>2, <1>3, <1>4 DEF Sound, n

\* setState to another state starts a generation.
LEMMA SetStateSound ==
  ASSUME now \in Nat, NEW b \in Breakers, NEW s \in States, b.state # s,
         NEW k \in [Callers -> 0 .. b.generation]
  PROVE  /\ Sound(SetState(b, s), k)
         /\ SetState(b, s).generation = b.generation + 1
         /\ SetState(b, s).state = s
<1> DEFINE end == CASE s = "closed"    -> now + Interval
                    [] s = "open"      -> now + Timeout
                    [] s = "half_open" -> Zero
<1>1. end \in Nat \cup {Zero}
  BY ParametersAssumption DEF States
<1>2. SetState(b, s) = NewGeneration(b, s, end)
  BY DEF SetState
<1> HIDE DEF end
<1> QED
  BY <1>1, <1>2, NewGenerationSound

\* currentState keeps the fields sound; it leaves them alone or starts a
\* generation, and it never opens the breaker.
LEMMA CurrentSound ==
  ASSUME now \in Nat, Sound(breaker, call)
  PROVE  /\ Sound(Current(breaker), call)
         /\ \/ Current(breaker) = breaker
            \/ /\ Current(breaker).generation = breaker.generation + 1
               /\ Current(breaker).state # "open"
<1>1. breaker \in Breakers /\ call \in [Callers -> 0 .. breaker.generation]
  BY DEF Sound, Counted
<1>2. CASE breaker.state = "closed" /\ breaker.expiry # Zero /\ Expired(breaker)
  <2> DEFINE end == now + Interval
             n   == NewGeneration(breaker, "closed", end)
  <2>1. Current(breaker) = n
    BY <1>2 DEF Current
  <2>2. end \in Nat \cup {Zero} /\ "closed" \in States
    BY ParametersAssumption DEF States
  <2> HIDE DEF end
  <2>3. Sound(n, call) /\ n.generation = breaker.generation + 1 /\ n.state = "closed"
    BY <1>1, <2>2, NewGenerationSound
  <2> QED
    BY <2>1, <2>3
<1>3. CASE breaker.state = "open" /\ Expired(breaker)
  <2>1. Current(breaker) = SetState(breaker, "half_open")
    BY <1>3 DEF Current
  <2>2. "half_open" \in States
    BY DEF States
  <2> QED
    BY <1>1, <1>3, <2>1, <2>2, SetStateSound
<1>4. CASE /\ ~(breaker.state = "closed" /\ breaker.expiry # Zero /\ Expired(breaker))
           /\ ~(breaker.state = "open" /\ Expired(breaker))
  BY <1>4 DEF Current
<1> QED
  BY <1>2, <1>3, <1>4

\* What a call that is let through, and the report of one, make of the fields.
LEMMA CountingTyped ==
  ASSUME NEW b \in Breakers
  PROVE  /\ \A n \in {Requested(b), Succeeded(b), Failed(b)} :
              /\ n \in Breakers
              /\ n.generation = b.generation /\ n.state = b.state
         /\ Requested(b).counts = [b.counts EXCEPT !.requests = @ + 1]
         /\ Succeeded(b).counts.requests = b.counts.requests
         /\ Succeeded(b).counts.successes = b.counts.successes + 1
         /\ Succeeded(b).counts.failures = b.counts.failures
         /\ Succeeded(b).counts.streak = b.counts.streak + 1
         /\ Failed(b).counts.requests = b.counts.requests
         /\ Failed(b).counts.successes = b.counts.successes
         /\ Failed(b).counts.failures = b.counts.failures + 1
<1>1. /\ b.counts \in Counts /\ b.counts.requests \in Nat
      /\ b.counts.successes \in Nat /\ b.counts.failures \in Nat
      /\ b.counts.streak \in Nat
  BY DEF Breakers, Counts
<1>2. Requested(b) \in Breakers
  BY <1>1 DEF Requested, Breakers, Counts
<1>3. Succeeded(b) \in Breakers
  BY <1>1 DEF Succeeded, Breakers, Counts
<1>4. Failed(b) \in Breakers
  BY <1>1 DEF Failed, Breakers, Counts
<1>5. Requested(b).counts = [b.counts EXCEPT !.requests = @ + 1]
  BY <1>1 DEF Requested, Breakers, Counts
<1> QED
  BY <1>1, <1>2, <1>3, <1>4, <1>5 DEF Requested, Succeeded, Failed, Breakers

\* A call that is let through is one more in flight.
LEMMA RequestedSound ==
  ASSUME NEW b, NEW k, Sound(b, k), Admits(b), NEW c \in Callers, k[c] = 0
  PROVE  Sound(Requested(b), [k EXCEPT ![c] = b.generation])
<1> DEFINE n == Requested(b)
           j == [k EXCEPT ![c] = b.generation]
           g == b.generation
<1>1. /\ b \in Breakers /\ g \in Nat \ {0} /\ b.counts \in Counts
      /\ k \in [Callers -> 0 .. g]
  BY DEF Sound, Counted, Breakers
<1>2. n \in Breakers /\ n.generation = g /\ n.state = b.state
  BY <1>1, CountingTyped
<1>3. n.counts = [b.counts EXCEPT !.requests = @ + 1]
  BY <1>1, CountingTyped
<1>4. j \in [Callers -> 0 .. g]
  BY <1>1
<1>5. Running(j, g) = Running(k, g) \cup {c} /\ c \notin Running(k, g)
  BY <1>1 DEF Running
<1>6. /\ Cardinality(Running(j, g)) = Cardinality(Running(k, g)) + 1
      /\ Cardinality(Running(k, g)) \in Nat
  BY <1>5, FewRunning, FS_AddElement
<1>7. Counted(n, j)
  BY <1>1, <1>2, <1>3, <1>4, <1>6 DEF Sound, Counted, Counts
<1>8. Probing(n)
  BY <1>1, <1>2, <1>3, ParametersAssumption DEF Sound, Probing, Admits, Counts
<1> QED
  BY <1>2, <1>7, <1>8 DEF Sound

\* A call of the present generation that reports is one less in flight and one
\* more success or failure, or the state changes.
LEMMA ReportSound ==
  ASSUME now \in Nat, NEW b, NEW k, Sound(b, k),
         NEW c \in Callers, k[c] = b.generation,
         NEW n \in {OnSuccess(b), OnFailure(b)}
  PROVE  /\ Sound(n, [k EXCEPT ![c] = 0])
         /\ n.generation \in {b.generation, b.generation + 1}
<1> DEFINE j == [k EXCEPT ![c] = 0]
           g == b.generation
<1>1. /\ b \in Breakers /\ g \in Nat \ {0} /\ b.counts \in Counts
      /\ k \in [Callers -> 0 .. g]
  BY DEF Sound, Counted, Breakers
<1>0. /\ b.counts.requests \in Nat /\ b.counts.successes \in Nat
      /\ b.counts.failures \in Nat /\ b.counts.streak \in Nat
      /\ b.counts.requests = b.counts.successes + b.counts.failures
                               + Cardinality(Running(k, g))
  BY <1>1 DEF Counts, Sound, Counted
<1>2. j \in [Callers -> 0 .. g]
  BY <1>1
<1>3. Running(j, g) = Running(k, g) \ {c} /\ c \in Running(k, g)
  BY <1>1 DEF Running
<1>4. /\ Cardinality(Running(j, g)) = Cardinality(Running(k, g)) - 1
      /\ Cardinality(Running(k, g)) \in Nat
      /\ Cardinality(Running(j, g)) \in Nat
  <2>1. /\ IsFiniteSet(Running(k, g)) /\ Cardinality(Running(k, g)) \in Nat
        /\ Cardinality(Running(j, g)) \in Nat
    BY FewRunning
  <2> QED
    BY <1>3, <2>1, FS_RemoveElement
<1>5. "open" \in States /\ "closed" \in States
  BY DEF States
<1>6. CASE n = OnSuccess(b)
  <2> DEFINE m == Succeeded(b)
  <2>1. /\ m \in Breakers /\ m.generation = g /\ m.state = b.state
        /\ m.counts.requests = b.counts.requests
        /\ m.counts.successes = b.counts.successes + 1
        /\ m.counts.failures = b.counts.failures
        /\ m.counts.streak = b.counts.streak + 1
    BY <1>1, CountingTyped
  <2> HIDE DEF m, j, g
  <2>2. CASE m.state = "half_open" /\ m.counts.streak >= MaxRequests
    <3>1. n = SetState(m, "closed") /\ m.state # "closed"
      BY <1>6, <2>2 DEF OnSuccess, m
    <3>2. Sound(n, j) /\ n.generation = g + 1
      BY <1>2, <1>5, <2>1, <3>1, SetStateSound
    <3> QED
      BY <3>2 DEF j, g
  <2>3. CASE ~(m.state = "half_open" /\ m.counts.streak >= MaxRequests)
    <3>1. n = m
      BY <1>6, <2>3 DEF OnSuccess, m
    <3>2. Counted(m, j)
      BY <1>0, <1>2, <1>4, <2>1 DEF Counted
    <3>3. Probing(m)
      <4>1. ASSUME m.state = "half_open"
            PROVE  /\ b.counts.failures = 0
                   /\ b.counts.streak = b.counts.successes
                   /\ b.counts.requests <= MaxRequests
        BY <2>1, <4>1 DEF Sound, Probing
      <4> QED
        BY <1>0, <2>1, <2>3, <4>1, ParametersAssumption DEF Probing
    <3> QED
      BY <2>1, <3>1, <3>2, <3>3 DEF Sound, j, g
  <2> QED
    BY <2>2, <2>3
<1>7. CASE n = OnFailure(b)
  <2> DEFINE m == Failed(b)
  <2>1. /\ m \in Breakers /\ m.generation = g /\ m.state = b.state
        /\ m.counts.requests = b.counts.requests
        /\ m.counts.successes = b.counts.successes
        /\ m.counts.failures = b.counts.failures + 1
    BY <1>1, CountingTyped
  <2> HIDE DEF m, j, g
  <2>2. CASE (m.state = "half_open" \/ TooMany(m)) /\ m.state # "open"
    <3>1. n = SetState(m, "open")
      BY <1>7, <2>2 DEF OnFailure, m
    <3>2. Sound(n, j) /\ n.generation = g + 1
      BY <1>2, <1>5, <2>1, <2>2, <3>1, SetStateSound
    <3> QED
      BY <3>2 DEF j, g
  <2>3. CASE ~((m.state = "half_open" \/ TooMany(m)) /\ m.state # "open")
    <3>1. n = m
      BY <1>7, <2>3 DEF OnFailure, SetState, m
    <3>2. Counted(m, j)
      BY <1>0, <1>2, <1>4, <2>1 DEF Counted
    <3>3. Probing(m)
      BY <2>3 DEF Probing
    <3> QED
      BY <2>1, <3>1, <3>2, <3>3 DEF Sound, j, g
  <2> QED
    BY <2>2, <2>3
<1> QED
  BY <1>6, <1>7

-----------------------------------------------------------------------------
(* The steps *)

\* The invariant holds at the start.
LEMMA InvInit == Init => Inv
<1> SUFFICES ASSUME Init PROVE Inv
  OBVIOUS
<1>1. /\ breaker \in Breakers /\ breaker.generation = 1 /\ breaker.state = "closed"
      /\ breaker.counts = NoCounts
  BY DEF Init, Breakers, States, Counts, NoCounts
<1>2. TypeOK
  BY <1>1 DEF Init, TypeOK, Breakers
<1>3. Running(call, 1) = {}
  BY DEF Init, Running
<1>4. Counted(breaker, call)
  <2>1. call \in [Callers -> 0..breaker.generation]
    BY <1>1 DEF Init
  <2>2. Cardinality(Running(call, breaker.generation)) = 0
    BY <1>1, <1>3, FS_EmptySet
  <2> QED
    BY <1>1, <2>1, <2>2 DEF Counted, NoCounts
<1>5. Probing(breaker)
  BY <1>1 DEF Probing
<1> QED
  BY <1>1, <1>2, <1>4, <1>5 DEF Inv, Sound

\* Letting a call through, or not, keeps it.
LEMMA InvBefore ==
  ASSUME Inv, NEW c \in Callers, Before(c)
  PROVE  Inv'
<1> DEFINE b == Current(breaker)
<1>1. now \in Nat /\ now' = now /\ call[c] = 0 /\ Sound(breaker, call)
  BY DEF Inv, TypeOK, Before
<1>2. Sound(b, call)
  BY <1>1, CurrentSound
<1>3. CASE Admits(b) /\ breaker' = Requested(b)
             /\ call' = [call EXCEPT ![c] = b.generation]
             /\ begun' = begun + 1
  <2> HIDE DEF b
  <2>1. Sound(breaker', call')
    BY <1>1, <1>2, <1>3, RequestedSound
  <2>2. TypeOK'
    BY <1>1, <1>3, <2>1 DEF Inv, TypeOK, Sound, Counted, Breakers
  <2> QED
    BY <2>1, <2>2 DEF Inv, Sound, Counted, Running, Probing
<1>4. CASE breaker' = b /\ UNCHANGED <<call, begun>>
  <2> HIDE DEF b
  <2>1. Sound(breaker', call')
    BY <1>2, <1>4
  <2>2. TypeOK'
    BY <1>1, <1>4, <2>1 DEF Inv, TypeOK, Sound, Counted, Breakers
  <2> QED
    BY <2>1, <2>2 DEF Inv, Sound, Counted, Running, Probing
<1> QED
  BY <1>3, <1>4 DEF Before

\* So does the report of a call.
LEMMA InvAfter ==
  ASSUME Inv, NEW c \in Callers, After(c)
  PROVE  Inv'
<1> DEFINE b == Current(breaker)
<1>1. /\ now \in Nat /\ now' = now /\ Sound(breaker, call)
      /\ call' = [call EXCEPT ![c] = 0]
      /\ UNCHANGED begun
  BY DEF Inv, TypeOK, After
<1>2. Sound(b, call)
  BY <1>1, CurrentSound
<1>3. CASE call[c] = b.generation
  <2>1. breaker' \in {OnSuccess(b), OnFailure(b)}
    BY <1>3 DEF After
  <2> HIDE DEF b
  <2>2. Sound(breaker', call')
    BY <1>1, <1>2, <1>3, <2>1, ReportSound
  <2>3. TypeOK'
    BY <1>1, <2>2 DEF Inv, TypeOK, Sound, Counted, Breakers
  <2> QED
    BY <2>2, <2>3 DEF Inv, Sound, Counted, Running, Probing
<1>4. CASE call[c] # b.generation
  <2>1. breaker' = b
    BY <1>4 DEF After
  <2> HIDE DEF b
  <2>2. /\ call \in [Callers -> 0 .. b.generation] /\ b.generation \in Nat \ {0}
        /\ b \in Breakers
    BY <1>2 DEF Sound, Counted, Breakers
  <2>3. call' \in [Callers -> 0 .. b.generation]
    BY <1>1, <2>2
  <2>4. Running(call', b.generation) = Running(call, b.generation)
    BY <1>1, <1>4, <2>2 DEF Running
  <2>5. Sound(b, call')
    BY <1>2, <2>3, <2>4 DEF Sound, Counted
  <2>6. TypeOK'
    BY <1>1, <2>1, <2>5 DEF Inv, TypeOK, Sound, Counted, Breakers
  <2> QED
    BY <2>1, <2>5, <2>6 DEF Inv, Sound, Counted, Running, Probing
<1> QED
  BY <1>3, <1>4

\* So does every step.
LEMMA InvStep == Inv /\ [Next]_vars => Inv'
<1> SUFFICES ASSUME Inv, [Next]_vars PROVE Inv'
  OBVIOUS
<1>1. now \in Nat /\ Sound(breaker, call)
  BY DEF Inv, TypeOK
<1>2. CASE Tick \/ UNCHANGED vars
  <2>1. UNCHANGED <<breaker, call, begun>> /\ now' \in Nat
    BY <1>1, <1>2 DEF Tick, vars
  <2> QED
    BY <2>1 DEF Inv, TypeOK, Sound, Counted, Running, Probing
<1>3. CASE Look
  <2>1. breaker' = Current(breaker) /\ UNCHANGED <<now, call, begun>>
    BY <1>3 DEF Look
  <2>2. Sound(breaker', call')
    BY <1>1, <2>1, CurrentSound
  <2>3. TypeOK'
    BY <2>1, <2>2 DEF Inv, TypeOK, Sound, Counted, Breakers
  <2> QED
    BY <2>2, <2>3 DEF Inv, Sound, Counted, Running, Probing
<1>4. CASE Reset
  <2>1. /\ breaker' = NewGeneration(breaker, "closed", Zero)
        /\ UNCHANGED <<now, call, begun>>
    BY <1>4 DEF Reset
  <2>2. /\ breaker \in Breakers /\ call \in [Callers -> 0 .. breaker.generation]
        /\ "closed" \in States
    BY <1>1 DEF Sound, Counted, States
  <2>3. Sound(breaker', call')
    BY <2>1, <2>2, NewGenerationSound
  <2>4. TypeOK'
    BY <2>1, <2>3 DEF Inv, TypeOK, Sound, Counted, Breakers
  <2> QED
    BY <2>3, <2>4 DEF Inv, Sound, Counted, Running, Probing
<1>5. CASE \E c \in Callers : Before(c) \/ After(c)
  BY <1>5, InvBefore, InvAfter
<1> QED
  BY <1>2, <1>3, <1>4, <1>5 DEF Next

\* So it holds for ever.
LEMMA Invariance == Spec => []Inv
BY InvInit, InvStep, PTL DEF Spec

-----------------------------------------------------------------------------

\* The type invariant of the breaker: in particular no call is ever of a
\* generation to come.
THEOREM TypeCorrect == Spec => []TypeOK
<1>1. Inv => TypeOK
  BY DEF Inv
<1> QED
  BY <1>1, Invariance, PTL

\* Every call let through in the present generation is in flight or counted,
\* once, whatever the callers, windows and resets do.
THEOREM AccountedHolds == Spec => []Accounted
<1>1. Inv => Accounted
  BY DEF Inv, Sound, Counted, Accounted, Running, InFlight
<1> QED
  BY <1>1, Invariance, PTL

\* The half-open state lets no more than MaxRequests calls through.
THEOREM HalfOpenBoundHolds == Spec => []HalfOpenBound
<1>1. ASSUME Inv, breaker.state = "half_open"
      PROVE  /\ breaker.counts.requests <= MaxRequests
             /\ Cardinality(InFlight(breaker.generation)) <= MaxRequests
  <2>1. InFlight(breaker.generation) = Running(call, breaker.generation)
    BY DEF InFlight, Running
  <2>2. Cardinality(Running(call, breaker.generation)) \in Nat
    BY FewRunning
  <2>3. /\ breaker.counts.requests \in Nat /\ breaker.counts.successes \in Nat
        /\ breaker.counts.failures \in Nat
    BY <1>1 DEF Inv, TypeOK, Counts
  <2>4. breaker.counts.requests <= MaxRequests
    BY <1>1 DEF Inv, Sound, Probing
  <2>5. breaker.counts.requests = breaker.counts.successes
          + breaker.counts.failures + Cardinality(Running(call, breaker.generation))
    BY <1>1 DEF Inv, Sound, Counted
  <2> QED
    BY <2>1, <2>2, <2>3, <2>4, <2>5, ParametersAssumption
<1>2. Inv => HalfOpenBound
  BY <1>1 DEF HalfOpenBound
<1> QED
  BY <1>2, Invariance, PTL

\* The half-open state is no dead end, provided MaxRequests is not 0.
THEOREM NeverWedgedHolds == Spec => []NeverWedged
<1>1. ASSUME Inv, breaker.state = "half_open", InFlight(breaker.generation) = {}
      PROVE  breaker.counts.requests < MaxRequests
  <2>1. Cardinality(Running(call, breaker.generation)) = 0
    BY <1>1, FS_EmptySet DEF InFlight, Running
  <2>2. /\ breaker.counts.requests \in Nat /\ breaker.counts.successes \in Nat
    BY <1>1 DEF Inv, TypeOK, Counts
  <2>3. /\ breaker.counts.failures = 0
        /\ breaker.counts.successes < MaxRequests
    BY <1>1 DEF Inv, Sound, Probing
  <2>4. breaker.counts.requests = breaker.counts.successes
          + breaker.counts.failures + Cardinality(Running(call, breaker.generation))
    BY <1>1 DEF Inv, Sound, Counted
  <2> QED
    BY <2>1, <2>2, <2>3, <2>4, ParametersAssumption
<1>2. Inv => NeverWedged
  BY <1>1 DEF NeverWedged
<1> QED
  BY <1>2, Invariance, PTL

\* Only the report of a call of the generation the breaker was in opens it.
THEOREM OnlyOwnCallsTripHolds == Spec => OnlyOwnCallsTrip
<1> DEFINE Own == breaker.state # "open" /\ breaker'.state = "open" =>
                    \E c \in InFlight(breaker.generation) : call'[c] = 0
           b   == Current(breaker)
<1>1. ASSUME Inv, [Next]_vars, breaker.state # "open", breaker'.state = "open"
      PROVE  \E c \in InFlight(breaker.generation) : call'[c] = 0
  <2>1. /\ Sound(breaker, call) /\ Sound(b, call)
        /\ b = breaker \/ b.generation = breaker.generation + 1
        /\ b.state # "open"
    BY <1>1, CurrentSound DEF Inv, TypeOK
  <2>2. /\ breaker.generation \in Nat /\ call \in [Callers -> 0 .. breaker.generation]
        /\ b \in Breakers
    BY <2>1 DEF Sound, Counted, Breakers
  <2>3. ~ (Tick \/ UNCHANGED vars \/ Look \/ Reset)
    BY <1>1, <2>1 DEF Tick, vars, Look, Reset, NewGeneration
  <2>4. PICK c \in Callers : Before(c) \/ After(c)
    BY <1>1, <2>3 DEF Next
  <2>5. ~ Before(c)
    <3>1. Requested(b).state = b.state
      BY <2>2, CountingTyped
    <3> QED
      BY <1>1, <2>1, <3>1 DEF Before
  <2>6. After(c)
    BY <2>4, <2>5
  <2>7. call[c] = b.generation
    BY <1>1, <2>1, <2>6 DEF After
  <2>8. call[c] = breaker.generation
    BY <2>1, <2>2, <2>7
  <2>9. call'[c] = 0
    BY <2>2, <2>6 DEF After
  <2> QED
    BY <2>8, <2>9 DEF InFlight
<1>2. Inv /\ [Next]_vars => [Own]_vars
  BY <1>1
<1> QED
  BY <1>2, Invariance, PTL DEF Spec, OnlyOwnCallsTrip
=============================================================================
