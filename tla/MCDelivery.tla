----------------------------- MODULE MCDelivery -----------------------------
(* Delivery on small instances. *)
EXTENDS Delivery, TLC

\* Workers and providers differ in nothing but their name; neither do tasks, in
\* the runs in which all of them or none are Async.
NameSymmetry ==
  Permutations(Workers) \cup Permutations(Providers) \cup Permutations(Tasks)

(* What comments and documents of the repository say, and the code does not *)

\* The scanner changes nothing but the callback status of a row that is "sent".
TimeoutKeepsTheRest ==
  [][\A t \in Tasks : scan[t] # NoRow /\ scan'[t] = NoRow /\ db' # db =>
       db'[t] = [db[t] EXCEPT !.cb = "timeout"]]_vars
=============================================================================
