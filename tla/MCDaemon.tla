------------------------------ MODULE MCDaemon ------------------------------
(* Instances of ParserDaemon for TLC.  The workers are interchangeable as  *)
(* long as no property tells them apart and no fairness is assumed.        *)
EXTENDS ParserDaemon, TLC

Symmetry == Permutations(Workers)
=============================================================================
