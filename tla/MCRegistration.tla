--------------------------- MODULE MCRegistration ---------------------------
(* Instances of ReportRegistration for TLC: two machines, one of which     *)
(* sends two reports, the second from the address of the other machine.    *)
EXTENDS ReportRegistration, TLC

CONSTANTS a, b, c

MCSystem == (a :> "X") @@ (b :> "X") @@ (c :> "Y")
MCHost   == (a :> "h") @@ (b :> "g") @@ (c :> "g")
MCClient == (a :> "d") @@ (b :> "d") @@ (c :> "e")

Symmetry == Permutations(Workers)
=============================================================================
