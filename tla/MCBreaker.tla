------------------------------ MODULE MCBreaker ------------------------------
(* Breaker on small instances. *)
EXTENDS Breaker, TLC

\* Callers differ in nothing but their name.
CallerSymmetry == Permutations(Callers)
=============================================================================
