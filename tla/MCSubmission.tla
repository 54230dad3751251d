---------------------------- MODULE MCSubmission ----------------------------
(* Instances of Submission for TLC: two runs on one machine.               *)
EXTENDS Submission, TLC

CONSTANTS c1, c2

MCHost    == (c1 :> "h") @@ (c2 :> "h")
MCDirPath == <<"datadir", "queue">>
=============================================================================
