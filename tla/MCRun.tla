------------------------------- MODULE MCRun -------------------------------
(* Instances of RtEvalRun for TLC: the modules are named for their kinds.  *)
EXTENDS RtEvalRun, TLC

CONSTANTS k, h, s, c, y, n1, n2

KindOf == (k :> "kcompile") @@ (h :> "hackbench") @@ (s :> "stressng")
          @@ (c :> "cyclictest") @@ (y :> "sysstat")
MCKind == [m \in Modules |-> KindOf[m]]
=============================================================================
