------------------------------- MODULE Breaker -------------------------------
(***************************************************************************)
(* SlidingWindowBreaker: callers go through beforeRequest, run their       *)
(* function outside the lock, and report to afterRequest. A change of      *)
(* state, a new window and Reset each start a generation; what a call of   *)
(* an earlier generation reports is dropped. Each method holds the mutex   *)
(* from its first to its last line, so a method is one step.               *)
(***************************************************************************)
EXTENDS Integers, FiniteSets

CONSTANTS
  Callers,      \* goroutines inside Call
  MaxRequests,  \* calls let through in the half-open state
  MinRequests,  \* no trip before this many calls
  Interval,     \* length of the window
  Timeout,      \* time in the open state
  RateNum,      \* the failure rate that trips, at least RateNum in RateDen
  RateDen,
  MaxCalls,     \* bound: calls begun in one behaviour
  MaxTime,      \* bound: the clock stops here
  MaxResets     \* bound: no Reset from this generation on

ASSUME CallersAssumption == IsFiniteSet(Callers)

\* WithMaxRequests takes any number; 0 would never let the breaker close.
ASSUME ParametersAssumption ==
  /\ MaxRequests \in Nat \ {0} /\ MinRequests \in Nat
  /\ Interval \in Nat /\ Timeout \in Nat
  /\ RateNum \in Nat /\ RateDen \in Nat
  /\ MaxCalls \in Nat /\ MaxTime \in Nat /\ MaxResets \in Nat

VARIABLES
  now,      \* the clock
  breaker,  \* the fields of SlidingWindowBreaker
  call,     \* generation each caller was let through in, 0 when outside Call
  begun     \* calls begun so far

vars == <<now, breaker, call, begun>>

States == {"closed", "open", "half_open"}

\* The zero time.Time.
Zero == -1

Counts == [requests : Nat, successes : Nat, failures : Nat, streak : Nat]

NoCounts == [requests |-> 0, successes |-> 0, failures |-> 0, streak |-> 0]

\* Generations are numbered from 1 here, so that 0 can mean no call.
Init ==
  /\ now = 0
  /\ breaker = [state |-> "closed", generation |-> 1, counts |-> NoCounts,
                expiry |-> Zero]
  /\ call = [c \in Callers |-> 0]
  /\ begun = 0

Tick ==
  /\ now < MaxTime
  /\ now' = now + 1
  /\ UNCHANGED <<breaker, call, begun>>

-----------------------------------------------------------------------------
(* setState, currentState, onSuccess, onFailure, as functions of the fields *)

\* A new generation, in state s until the clock passes end.
NewGeneration(b, s, end) ==
  [state |-> s, generation |-> b.generation + 1, counts |-> NoCounts,
   expiry |-> end]

\* Mutant of SetState: the generation stays the same.
SetStateInPlace(b, s) ==
  IF b.state = s THEN b
  ELSE [state |-> s, generation |-> b.generation, counts |-> NoCounts,
        expiry |-> IF s = "open" THEN now + Timeout ELSE Zero]

SetState(b, s) ==
  IF b.state = s THEN b
  ELSE NewGeneration(b, s, CASE s = "closed"    -> now + Interval
                             [] s = "open"      -> now + Timeout
                             [] s = "half_open" -> Zero)

\* Time.Before is strict; the first window, and the one after Reset, has no end.
Expired(b) == b.expiry < now

\* Mutant of Current: a window that ends starts no generation.
CurrentSameGeneration(b) ==
  IF b.state = "closed" /\ b.expiry # Zero /\ Expired(b)
  THEN [b EXCEPT !.counts = NoCounts, !.expiry = now + Interval]
  ELSE IF b.state = "open" /\ Expired(b) THEN SetState(b, "half_open")
  ELSE b

Current(b) ==
  IF b.state = "closed" /\ b.expiry # Zero /\ Expired(b)
  THEN NewGeneration(b, "closed", now + Interval)
  ELSE IF b.state = "open" /\ Expired(b) THEN SetState(b, "half_open")
  ELSE b

Requested(b) ==
  LET n == b.counts IN
  [b EXCEPT !.counts = [requests |-> n.requests + 1, successes |-> n.successes,
                        failures |-> n.failures, streak |-> n.streak]]

Succeeded(b) ==
  LET n == b.counts IN
  [b EXCEPT !.counts = [requests |-> n.requests, successes |-> n.successes + 1,
                        failures |-> n.failures, streak |-> n.streak + 1]]

Failed(b) ==
  LET n == b.counts IN
  [b EXCEPT !.counts = [requests |-> n.requests, successes |-> n.successes,
                        failures |-> n.failures + 1, streak |-> 0]]

\* Mutant of OnSuccess: one success too many is asked for.
OnSuccessLate(b) ==
  LET n == Succeeded(b)
  IN  IF n.state = "half_open" /\ n.counts.streak > MaxRequests
      THEN SetState(n, "closed") ELSE n

OnSuccess(b) ==
  LET n == Succeeded(b)
  IN  IF n.state = "half_open" /\ n.counts.streak >= MaxRequests
      THEN SetState(n, "closed") ELSE n

\* float64 quotients of small integers compare as the fractions do.
TooMany(b) ==
  /\ b.counts.requests >= MinRequests
  /\ b.counts.failures * RateDen >= RateNum * b.counts.requests

OnFailure(b) ==
  LET n == Failed(b)
  IN  IF n.state = "half_open" \/ TooMany(n) THEN SetState(n, "open") ELSE n
-----------------------------------------------------------------------------
(* The methods *)

\* Mutant of Admits: the limit of the half-open state is off by one.
AdmitsOneMore(b) ==
  /\ b.state # "open"
  /\ b.state = "half_open" => b.counts.requests <= MaxRequests

Admits(b) ==
  /\ b.state # "open"
  /\ b.state = "half_open" => b.counts.requests < MaxRequests

\* beforeRequest
Before(c) ==
  LET b == Current(breaker) IN
  /\ call[c] = 0
  /\ \/ /\ Admits(b)
        /\ begun < MaxCalls
        /\ begun' = begun + 1
        /\ breaker' = Requested(b)
        /\ call' = [call EXCEPT ![c] = b.generation]
     \/ /\ ~Admits(b)
        /\ breaker' = b
        /\ UNCHANGED <<call, begun>>
  /\ UNCHANGED now

\* Mutant of After: the generation of the call is not compared.
AfterAnyGeneration(c) ==
  LET b == Current(breaker) IN
  /\ call[c] # 0
  /\ breaker' \in {OnSuccess(b), OnFailure(b)}
  /\ call' = [call EXCEPT ![c] = 0]
  /\ UNCHANGED <<now, begun>>

\* afterRequest: the function returned nil, or an error, or panicked.
After(c) ==
  LET b == Current(breaker) IN
  /\ call[c] # 0
  /\ breaker' \in IF call[c] = b.generation
                  THEN {OnSuccess(b), OnFailure(b)} ELSE {b}
  /\ call' = [call EXCEPT ![c] = 0]
  /\ UNCHANGED <<now, begun>>

\* State
Look ==
  /\ breaker' = Current(breaker)
  /\ UNCHANGED <<now, call, begun>>

\* Mutant of Reset: the generations start over too.
ResetToFirst ==
  /\ breaker.generation <= MaxResets
  /\ breaker' = [state |-> "closed", generation |-> 1, counts |-> NoCounts,
                 expiry |-> Zero]
  /\ UNCHANGED <<now, call, begun>>

Reset ==
  /\ breaker.generation <= MaxResets
  /\ breaker' = NewGeneration(breaker, "closed", Zero)
  /\ UNCHANGED <<now, call, begun>>
-----------------------------------------------------------------------------

Next == Tick \/ Look \/ Reset \/ \E c \in Callers : Before(c) \/ After(c)

Spec == Init /\ [][Next]_vars
-----------------------------------------------------------------------------
(* Properties *)

\* Every variable keeps its type; generations only grow past those of calls.
TypeOK ==
  /\ now \in Nat
  /\ breaker \in [state : States, generation : Nat \ {0}, counts : Counts,
                  expiry : Nat \cup {Zero}]
  /\ call \in [Callers -> 0 .. breaker.generation]
  /\ begun \in Nat

\* Calls let through in generation g that have not returned.
InFlight(g) == {c \in Callers : call[c] = g}

\* Each call let through in the present generation is counted once: it is in
\* flight, or it counted as one success or as one failure. No call of an
\* earlier generation slips into the counts.
Accounted ==
  breaker.counts.requests =
    breaker.counts.successes + breaker.counts.failures
      + Cardinality(InFlight(breaker.generation))

\* In the half-open state no more than MaxRequests calls are let through in
\* all, so no more than that many run at once.
HalfOpenBound ==
  breaker.state = "half_open" =>
    /\ breaker.counts.requests <= MaxRequests
    /\ Cardinality(InFlight(breaker.generation)) <= MaxRequests

\* The half-open state is never a dead end: when none of its calls is running,
\* one more is let through. (Had its MaxRequests calls all returned, the
\* breaker would have closed or opened.)
NeverWedged ==
  breaker.state = "half_open" /\ InFlight(breaker.generation) = {} =>
    breaker.counts.requests < MaxRequests

\* The breaker opens only on the report of a call of the very generation it
\* was in: a late failure of an earlier window or an earlier probe never does.
OnlyOwnCallsTrip ==
  [][breaker.state # "open" /\ breaker'.state = "open" =>
       \E c \in InFlight(breaker.generation) : call'[c] = 0]_vars
=============================================================================
