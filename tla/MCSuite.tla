------------------------------ MODULE MCSuite ------------------------------
(* Instances of MeasurementSuite for TLC: cyclictest stands for every      *)
(* measurement module whose workload is one process that may end.          *)
EXTENDS MeasurementSuite, TLC

CONSTANTS k, c1, c2, n1

MCKind  == (k :> "kcompile") @@ (c1 :> "cyclictest") @@ (c2 :> "cyclictest")
MCOrder == <<c1, c2>>
=============================================================================
