---------------------------- MODULE MCAdmission ----------------------------
(* Admission on a small instance. *)
EXTENDS Admission, TLC

\* Requests differ in nothing but their name, and neither do replicas.
MCSymmetry == Permutations(Clients) \cup Permutations(Syncers)
=============================================================================
