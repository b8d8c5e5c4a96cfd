---------------------------- MODULE MCDeployment ----------------------------
(* Deployment on small instances. *)
EXTENDS Deployment
=============================================================================
