------------------------------ MODULE CpuLists ------------------------------
(***************************************************************************)
(* Lists of cpus, as rteval/misc.py and rteval/systopology.py read, invert *)
(* and distribute them.                                                    *)
(*                                                                         *)
(* A written list ("0-3,7") is the set of its ranges <<first, last>>, a    *)
(* single cpu being a range of one: no reader of a list depends on the     *)
(* order of its parts or on their repetition.  The empty string is {}.     *)
(*                                                                         *)
(* A machine is what /sys and /proc show: the cpus there are, those        *)
(* online, those with a file to switch them off, the cpus of each NUMA     *)
(* node, and whether numactl is installed.                                 *)
(***************************************************************************)
EXTENDS Naturals, FiniteSets

CONSTANTS MaxCpu     \* bound: the highest number of a cpu

ASSUME MaxCpuAssumption == MaxCpu \in 0..999

Cpus == 0..MaxCpu
Text == SUBSET (Cpus \X Cpus)

expand_cpulist(text) == UNION {range[1] .. range[2] : range \in text}

(* What Linux guarantees: a cpu without a file to switch it is online, it  *)
(* is cpu 0 where other cpus have one, and nodes list online cpus.         *)
SaneMachine(m) ==
  /\ m.possible \subseteq Cpus /\ \A n \in DOMAIN m.node : m.node[n] \in Text
  /\ m.online \subseteq m.possible /\ m.switchable \subseteq m.possible
  /\ m.possible \ m.switchable \subseteq m.online
  /\ m.switchable \in {{}, m.possible, m.possible \ {0}}
  /\ UNION {expand_cpulist(m.node[n]) : n \in DOMAIN m.node} = m.online

-----------------------------------------------------------------------------
(* misc.py *)

(* Asking whether a string is in a string looks for it anywhere in there:  *)
(* the digits of c among the digits of n.                                  *)
Width(n) == IF n < 10 THEN 1 ELSE IF n < 100 THEN 2 ELSE 3
DigitsWithin(c, n) ==
  \E i \in 0..2 : /\ i + Width(c) =< Width(n)
                  /\ (n \div 10^i) % 10^Width(c) = c

InText(c, text) ==
  \E range \in text : DigitsWithin(c, range[1]) \/ DigitsWithin(c, range[2])

(* The file of cpu 1 tells whether cpus can be switched at all. *)
online_cpus(m) ==
  IF 1 \in m.switchable
  THEN {c \in m.possible : (c = 0 /\ c \notin m.switchable) \/ c \in m.online}
  ELSE m.possible

invert_cpulist(m, text) == {c \in online_cpus(m) : ~ InText(c, text)}

(* An index error for a list without elements. *)
Compressible(cpus)      == cpus # {}
compress_cpulist_HalfOpen(cpus) == {<<c, c + 1>> : c \in cpus}
compress_cpulist(cpus)  == {<<c, c>> : c \in cpus}

-----------------------------------------------------------------------------
(* systopology.py *)

(* CpuList.is_online, online_cpulist: cpu 0 may have no file; without a    *)
(* file for cpu 1 the list is taken as it is.                              *)
is_online(m, c) == (c = 0 /\ c \notin m.switchable) \/ c \in m.online
online_cpulist(m, cpus) ==
  IF 1 \notin m.switchable THEN cpus ELSE {c \in cpus : is_online(m, c)}

(* CpuList.__init__ with a string, and its own way to expand one *)
expanded(text)   == UNION {range[1] .. range[2] : range \in text}
CpuList(m, text) == online_cpulist(m, expanded(text))

(* NumaNode: the list of a node that has memory only is the empty string,  *)
(* of which int() makes a ValueError.                                      *)
NumaNodeFails(m, n) == m.node[n] = {}
getcpus(m, n)       == CpuList(m, m.node[n])

(* SysTopology.getinfo makes every node, or none. *)
getnodes(m)         == DOMAIN m.node
TopologyFails(m)    == getnodes(m) = {} \/ \E n \in getnodes(m) : NumaNodeFails(m, n)

-----------------------------------------------------------------------------
(* The modules: the cpus a workload may run on, and whether its module     *)
(* fails before it gets there.                                             *)

NodeCpus_Whole(m, n, text) == getcpus(m, n)

(* The cpus of each node, only those of the list if there is one. *)
NodeCpus(m, n, text) ==
  IF text = {} THEN getcpus(m, n) ELSE {c \in getcpus(m, n) : c \in expand_cpulist(text)}

(* Nodes without cpus are left out. *)
UsableNodes(m, text) == {n \in getnodes(m) : NodeCpus(m, n, text) # {}}
OnUsable(m, text)    == UNION {NodeCpus(m, n, text) : n \in UsableNodes(m, text)}

(* KBuildJob: the node by numactl, else the cpus by taskset, which without *)
(* a list are None, a TypeError in compress_cpulist.                       *)
KcompileFails(m, text) == text = {} /\ ~ m.numactl
KcompilePlace(m, text) == IF KcompileFails(m, text) THEN {} ELSE OnUsable(m, text)

(* Hackbench.__starton: bound only if there are several nodes or a list. *)
HackbenchPlace(m, text) ==
  IF text # {} \/ Cardinality(UsableNodes(m, text)) > 1
  THEN OnUsable(m, text) ELSE online_cpus(m)

(* Stressng: a --taskset for each usable node; without any, also because   *)
(* the list left none, it is not bound.                                    *)
StressngPlace(m, text) ==
  IF text # {} /\ UsableNodes(m, text) # {} THEN OnUsable(m, text) ELSE online_cpus(m)

(* Cyclictest.__init__: the cpus of the list or all that are online; each  *)
(* of them, and cpu 0, must be in /proc/cpuinfo.                           *)
CyclictestCpus(m, text)  == IF text # {} THEN expand_cpulist(text) ELSE online_cpus(m)
CyclictestFails(m, text) == ~ (CyclictestCpus(m, text) \cup {0} \subseteq m.online)
=============================================================================
