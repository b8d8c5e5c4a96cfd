----------------------------- MODULE MCSelector -----------------------------
(* Selector on small instances. *)
EXTENDS Selector, FiniteSetsExt, TLC

CONSTANTS b1, b2, b3, c1, c2

\* Three bindings compete, two of them of one provider.
MCProvider == b1 :> "p1" @@ b2 :> "p2" @@ b3 :> "p2"
MCPriority == b1 :> 1 @@ b2 :> 1 @@ b3 :> 1
MCWeight   == b1 :> 2 @@ b2 :> 1 @@ b3 :> 1
MCRank     == b1 :> 1 @@ b2 :> 2 @@ b3 :> 3
MCExcludes == {{}, {"p2"}}

\* Both workers on one replica.
OneReplica == c1 :> "s1" @@ c2 :> "s1"

\* Workers of one replica differ in nothing but their name.
CallerSymmetry == Permutations(Callers)
=============================================================================
