--------------------------- MODULE DeliveryPromise ---------------------------
(***************************************************************************)
(* What the service promises a caller about a task it accepted, whatever   *)
(* queue, workers and timers do behind the API: the task is under way once *)
(* and only once, a provider is called for it a bounded number of times    *)
(* and only while it is under way, and the task does not stay under way    *)
(* for ever. Delivery is shown to implement this.                          *)
(***************************************************************************)
EXTENDS Naturals

CONSTANTS
  Tasks,     \* requests accepted by the API
  MaxTries   \* provider calls one task may cost, a natural number

VARIABLES
  phase,     \* "none", then "open" while the task is under way, then "closed"
  tries      \* provider calls made for the task

promise == <<phase, tries>>

Init ==
  /\ phase = [t \in Tasks |-> "none"]
  /\ tries = [t \in Tasks |-> 0]

Accept(t) ==
  /\ phase[t] = "none"
  /\ phase' = [phase EXCEPT ![t] = "open"]
  /\ UNCHANGED tries

Try(t) ==
  /\ phase[t] = "open"
  /\ tries[t] < MaxTries
  /\ tries' = [tries EXCEPT ![t] = @ + 1]
  /\ UNCHANGED phase

\* A crash can end several tasks at once.
Close(S) ==
  /\ \A t \in S : phase[t] = "open"
  /\ phase' = [t \in Tasks |-> IF t \in S THEN "closed" ELSE phase[t]]
  /\ UNCHANGED tries

Ends(t) == \E S \in SUBSET Tasks : t \in S /\ Close(S)

Next == \E t \in Tasks : Accept(t) \/ Try(t) \/ Ends(t)

Spec == Init /\ [][Next]_promise /\ \A t \in Tasks : WF_promise(Ends(t))
=============================================================================
