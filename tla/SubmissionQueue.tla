-------------------------- MODULE SubmissionQueue --------------------------
(***************************************************************************)
(* What the parser daemon promises for every report in the submission      *)
(* queue: its row only moves forward, the report is parsed at most once    *)
(* and not before the row has been assigned, and a verdict is only         *)
(* recorded once, for a report that has been parsed.  Any update of the    *)
(* row but the one that assigns it may fail without further consequences.  *)
(* ParserDaemon implements it.                                             *)
(***************************************************************************)
CONSTANT Submissions

VARIABLES
  status,  \* the row of each submission
  parsed   \* the submissions whose report has been parsed

vars == <<status, parsed>>

Verdicts == {"SUCCESS", "FAILED"}

Init == status = [s \in Submissions |-> "absent"] /\ parsed = {}

Move(s, from, to) ==
  status[s] = from /\ status' = [status EXCEPT ![s] = to] /\ UNCHANGED parsed

Submit(s)   == Move(s, "absent", "NEW")
Assign(s)   == Move(s, "NEW", "ASSIGNED")
Begin(s)    == s \notin parsed /\ Move(s, "ASSIGNED", "INPROG")
Complete(s) ==
  s \in parsed /\ \E f \in {"ASSIGNED", "INPROG"}, v \in Verdicts : Move(s, f, v)

Parse(s) ==
  /\ status[s] \in {"ASSIGNED", "INPROG"} /\ s \notin parsed
  /\ parsed' = parsed \cup {s}
  /\ UNCHANGED status

Next == \E s \in Submissions :
          Submit(s) \/ Assign(s) \/ Begin(s) \/ Parse(s) \/ Complete(s)

Spec == Init /\ [][Next]_vars
=============================================================================
