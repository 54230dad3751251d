------------------------------ MODULE MCSetup ------------------------------
(* Instances of RtevalSetup for TLC: machines with one and two nodes, with *)
(* two-digit cpus, a cpu off line, and a node without cpus; files that     *)
(* configure either, both or none of the groups.                           *)
EXTENDS RtevalSetup, TLC

AMachine(possible, online, switchable, node, numactl) ==
  [possible |-> possible, online |-> online, switchable |-> switchable,
   node |-> node, numactl |-> numactl]

Two      == AMachine(0..3, 0..3, 1..3, 0 :> {<<0, 1>>} @@ 1 :> {<<2, 3>>}, TRUE)
One      == AMachine(0..3, {0, 1, 3}, 0..3, 0 :> {<<0, 1>>, <<3, 3>>}, FALSE)
Fixed    == AMachine(0..2, 0..2, {}, 0 :> {<<0, 2>>}, TRUE)
TwoDigit == AMachine(0..12, {0, 1, 2, 10, 11, 12}, 1..12, 0 :> {<<0, 2>>} @@ 2 :> {<<10, 12>>}, TRUE)
NoCpu0   == AMachine(0..1, {1}, 0..1, 0 :> {<<1, 1>>}, TRUE)
MemOnly  == AMachine(0..1, 0..1, 1..1, 0 :> {<<0, 1>>} @@ 1 :> {}, TRUE)

MCMachines == {Two, One, Fixed, TwoDigit, NoCpu0, MemOnly}
MCTwoDigit == {TwoDigit}

MCOptions == {{}, {"rteval", "stressng"}, OptionNames}
MCLists == {{}, {<<0, 0>>}, {<<0, 1>>}, {<<0, 3>>},
            {<<10, 10>>, <<2, 2>>}, {<<10, 12>>}}

Sect(s, content) == s :> content
None == [s \in {} |-> Empty]
LoadSects    == {None, Sect("loads", Empty),
                 Sect("loads", "kcompile" :> "module" @@ "hackbench" :> "external"
                               @@ "stressng" :> "module" @@ "cpulist" :> {<<0, 0>>})}
MeasureSects == {None, Sect("measurement", "cyclictest" :> "module" @@ "sysstat" :> "module"),
                 Sect("measurement", "sysstat" :> "module")}
OtherSects   == {None, Sect("rteval", "option" :> "file") @@ Sect("kcompile", "option" :> "file"),
                 Sect("cyclictest", "option" :> "") @@ Sect("sysstat", "option" :> "file"),
                 Sect("rteval", "option" :> "" @@ "logging" :> "file")}
MCFiles == {l @@ m @@ o : l \in LoadSects, m \in MeasureSects, o \in OtherSects}
=============================================================================
