---------------------------- MODULE RunProtocol ----------------------------
(***************************************************************************)
(* What a measurement run promises, whatever its threads do meanwhile: no  *)
(* workload begins before every module is ready, measurements are released *)
(* under load, and a report is only made of measurements that have         *)
(* completed.  RtEvalRun implements it.                                    *)
(***************************************************************************)
CONSTANTS Loads, Measurements

Modules == Loads \cup Measurements

VARIABLES
  phase,     \* how the run stands
  released,  \* the modules that have been told to start
  work       \* what each module is doing

vars == <<phase, released, work>>

TypeOK ==
  /\ phase \in {"running", "reported", "aborted"}
  /\ released \in SUBSET Modules
  /\ work \in [Modules -> {"preparing", "ready", "working", "over"}]

(* A module may have been configured not to run at all.                    *)
Init ==
  /\ phase = "running"
  /\ released = {}
  /\ work \in [Modules -> {"preparing", "over"}]

Become(m, w) ==
  work' = [work EXCEPT ![m] = w] /\ UNCHANGED <<phase, released>>

(* A module has done its preparations.                                     *)
GetReady(m) == work[m] = "preparing" /\ Become(m, "ready")

(* Nobody is preparing any more: a module is told to start, measurements   *)
(* after the loads.                                                        *)
Release(m) ==
  /\ phase = "running"
  /\ \A k \in Modules : work[k] # "preparing"
  /\ m \in Measurements => Loads \subseteq released
  /\ released' = released \cup {m}
  /\ UNCHANGED <<phase, work>>

(* A released module starts its workload, even when the run has failed     *)
(* since.                                                                  *)
Work(m) == m \in released /\ work[m] = "ready" /\ Become(m, "working")

(* A module ends, with its workload done or without having had one.        *)
Finish(m) == work[m] # "over" /\ Become(m, "over")

Report ==
  /\ phase = "running"
  /\ \A m \in Measurements : m \in released /\ work[m] = "over"
  /\ phase' = "reported"
  /\ UNCHANGED <<released, work>>

Abort ==
  /\ phase = "running"
  /\ phase' = "aborted"
  /\ UNCHANGED <<released, work>>

Next ==
  \/ Report \/ Abort
  \/ \E m \in Modules : GetReady(m) \/ Release(m) \/ Work(m) \/ Finish(m)

Spec == Init /\ [][Next]_vars
=============================================================================
