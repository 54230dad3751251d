------------------------------ MODULE MCReport ------------------------------
(* Instances of RunReport for TLC: two cpus, a few buckets; other users of *)
(* an XMLOut add nodes of one name.                                        *)
EXTENDS RunReport

MCCpus == <<"cpu0", "cpu1">>
=============================================================================
