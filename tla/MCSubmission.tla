---------------------------- MODULE MCSubmission ----------------------------
(* Submission on small instances. *)
EXTENDS Submission

(* What comments and documents of the repository say, and the code does not *)

\* A scheduled message is sent.
ScheduledIsSent ==
  \A t \in Singles : (api[t] = "accepted") ~> (pushed[t] > 0)
=============================================================================
