---------------------------- MODULE RtevalSetup ----------------------------
(***************************************************************************)
(* How rteval gets its settings before the run: rtevalConfig merges the    *)
(* built-in defaults, a configuration file and the options of the command  *)
(* line, rteval-cmd derives the cpu list that was not given from the one   *)
(* that was, and Setup() of the two module containers hands each module    *)
(* its section and the parameters of the run.                              *)
(*                                                                         *)
(* A section of the configuration refers to a dict (rtevalCfgSection keeps *)
(* the one it is made with), and two sections may refer to the same.       *)
(***************************************************************************)
EXTENDS CpuLists

CONSTANTS
  Machines,   \* the machines considered
  Files,      \* the configuration files considered: a dict for each section
  Lists,      \* the cpu lists a user may give, the empty one among them
  Options     \* the sets of other options a user may give

LoadMods    == {"kcompile", "hackbench", "stressng"}
MeasureMods == {"cyclictest", "sysstat"}
Mods        == LoadMods \cup MeasureMods
Groups      == {"loads", "measurement"}
Sections    == {"rteval"} \cup Groups \cup Mods
DictIds     == Sections \cup {"modparams"}

ModsOf(g)  == IF g = "loads" THEN LoadMods ELSE MeasureMods
GroupOf(m) == IF m \in LoadMods THEN "loads" ELSE "measurement"

(* One option stands for those a section can take from the command line;   *)
(* the parameters of sysstat are none, and stressng's have no default.     *)
(* "logging" stands for the keys of section rteval whose options have a    *)
(* default of their own, whatever the settings say (-L, -a, -O, ...).      *)
WithOption  == {"rteval", "kcompile", "hackbench", "stressng", "cyclictest"}
OptionNames == WithOption \cup {"logging"}
BuiltIn(s)  == IF s = "stressng" THEN "None" ELSE "built-in"

DefaultConfig == [k \in {"option", "logging"} |-> "built-in"]

Keys    == {"option", "logging", "cpulist", "reportdir", "__cfgdata"} \cup Mods

(* A file has known sections with known keys, and lists a module in the    *)
(* group it belongs to: the import of another one fails.                   *)
SaneFile(f) ==
  /\ DOMAIN f \subseteq Sections
  /\ \A s \in DOMAIN f : /\ DOMAIN f[s] \subseteq Keys
                         /\ "cpulist" \in DOMAIN f[s] => f[s].cpulist \in Text
  /\ \A g \in Groups \cap DOMAIN f, m \in Mods :
       m \in DOMAIN f[g] /\ f[g][m] = "module" => g = GroupOf(m)

ASSUME SetupAssumption ==
  /\ \A m \in Machines : SaneMachine(m)
  /\ \A f \in Files : SaneFile(f)
  /\ {} \in Lists /\ Lists \subseteq Text /\ Options \subseteq SUBSET OptionNames

VARIABLES
  machine,  \* what rteval runs on
  file,     \* the configuration file
  optlist,  \* --loads-cpulist and --measurement-cpulist
  optset,   \* the other options given on the command line
  dict,     \* rtevalConfig.__config_data: the dict of each section
  heap,     \* the contents of the dicts
  pc,       \* how far rteval-cmd has come
  module,   \* the module objects, each with the cpu list it was made with
  place     \* where the workloads of the load modules were put

inputs == <<machine, file, optlist, optset>>
vars   == <<inputs, dict, heap, pc, module, place>>

-----------------------------------------------------------------------------
(* Dicts and sections *)

Entry(k, v)     == [x \in {k} |-> v]
Updated(d, new) == [k \in DOMAIN d \cup DOMAIN new |-> IF k \in DOMAIN new THEN new[k] ELSE d[k]]
SetDefault(d, k, v) == Updated(Entry(k, v), d)

(* rtevalCfgSection.__getattr__ yields None for a key that is not there,   *)
(* which like the empty string counts as no list.                          *)
Cpulist(s) ==
  IF "cpulist" \in DOMAIN heap[dict[s]] THEN heap[dict[s]].cpulist ELSE {}

(* rtevalConfig.__update_section for the dict id with the contents new:    *)
(* nothing for an empty one; a new section keeps the dict itself.          *)
Config == [dict |-> dict, heap |-> heap]
UpdateSection(c, s, id, new) ==
  IF DOMAIN new = {} THEN c
  ELSE IF s \notin DOMAIN c.dict
       THEN [dict |-> Updated(c.dict, Entry(s, id)), heap |-> [c.heap EXCEPT ![id] = new]]
       ELSE [c EXCEPT !.heap[c.dict[s]] = Updated(@, new)]

Set(c) == dict' = c.dict /\ heap' = c.heap

Empty == [k \in {} |-> "None"]
Configured(s) == s \in DOMAIN file /\ DOMAIN file[s] # {}

Init ==
  /\ machine \in Machines /\ file \in Files
  /\ optlist \in [Groups -> Lists] /\ optset \in Options
  /\ dict = [s \in {} |-> s] /\ heap = [d \in DictIds |-> Empty]
  /\ pc = "start" /\ module = [m \in {} |-> {}] /\ place = [m \in {} |-> {}]

-----------------------------------------------------------------------------
(* rteval-cmd, step by step.  An exception ends the program. *)

Fail(from) == pc = from /\ pc' = "failed" /\ UNCHANGED <<inputs, dict, heap, module, place>>

(* rtevalConfig.__init__: the topology, then the defaults. *)
Create ==
  /\ pc = "start" /\ ~ TopologyFails(machine) /\ pc' = "load"
  /\ Set(UpdateSection(Config, "rteval", "rteval", DefaultConfig))
  /\ UNCHANGED <<inputs, module, place>>

CreateFails == Fail("start") /\ TopologyFails(machine)

(* wipe() goes through __setattr__: it forgets nothing, and leaves a key.  *)
Wiped(d) == Updated(d, Entry("__cfgdata", "junk"))

(* __find_config finds no file. *)
LoadNothing ==
  /\ pc = "load" /\ DOMAIN file = {} /\ pc' = "groups"
  /\ UNCHANGED <<inputs, dict, heap, module, place>>

(* Load(): the sections there are, wiped, updated with those of the file.  *)
Load ==
  /\ pc = "load" /\ pc' = "groups"
  /\ LET old  == DOMAIN dict
         read == {s \in DOMAIN file : Configured(s)}
     IN /\ dict' = [s \in old \cup read |-> s]
        /\ heap' = [d \in DictIds |->
                      Updated(IF d \in old THEN Wiped(heap[d]) ELSE Empty,
                              IF d \in read THEN file[d] ELSE Empty)]
  /\ UNCHANGED <<inputs, module, place>>

AppendDefaults_Each ==
  /\ pc = "groups" /\ pc' = "import"
  /\ LET c == IF "loads" \in DOMAIN dict THEN Config
              ELSE UpdateSection(Config, "loads", "loads", [m \in LoadMods |-> "module"])
     IN Set(UpdateSection(c, "measurement", "measurement", [m \in MeasureMods |-> "module"]))
  /\ UNCHANGED <<inputs, module, place>>

(* The default modules; of measurement only where there are no loads.      *)
AppendDefaults ==
  /\ pc = "groups" /\ pc' = "import"
  /\ LET AllOf(g) == [m \in ModsOf(g) |-> "module"]
         c == UpdateSection(Config, "loads", "loads", AllOf("loads"))
     IN Set(IF "loads" \in DOMAIN dict THEN Config
            ELSE IF "measurement" \in DOMAIN dict THEN c
            ELSE UpdateSection(c, "measurement", "measurement", AllOf("measurement")))
  /\ UNCHANGED <<inputs, module, place>>

(* What iterating over a section yields, with the key that wipe() leaves   *)
(* skipped unless it comes last, for which it has to be the first one.     *)
ModulesIn(g) ==
  {m \in DOMAIN heap[dict[g]] \cap Mods : heap[dict[g]][m] = "module"}

(* LoadModules.__init__, MeasurementModules.__init__ *)
Import ==
  /\ pc = "import" /\ Groups \subseteq DOMAIN dict /\ pc' = "parse"
  /\ UNCHANGED <<inputs, dict, heap, module, place>>
ImportFails == Fail("import") /\ ~ (Groups \subseteq DOMAIN dict)

(* The default of an option is the setting.  SetupModuleOptions takes that *)
(* of the module for an empty one; parse_options takes it as it is.        *)
Default(s) ==
  IF /\ s \in DOMAIN dict /\ "option" \in DOMAIN heap[dict[s]]
     /\ s = "rteval" \/ heap[dict[s]].option # ""
  THEN heap[dict[s]].option ELSE BuiltIn(s)

Offered == (WithOption \ Mods) \cup {m \in WithOption \cap Mods : m \in ModulesIn(GroupOf(m))}
Given(o, default) == IF o \in optset THEN "command line" ELSE default
Parsed(s) ==
  IF s \in Groups THEN Entry("cpulist", optlist[s])
  ELSE [k \in IF s = "rteval" THEN {"option", "logging"} ELSE {"option"} |->
          IF k = "option" THEN Given(s, Default(s)) ELSE Given(k, "built-in")]

UpdateFromOptionParser_GivenOnly ==
  /\ pc = "parse" /\ pc' = "inverse"
  /\ LET set == (Offered \cap optset) \cup Groups
     IN /\ dict' = [s \in DOMAIN dict \cup set |-> s]
        /\ heap' = [s \in DictIds |-> IF s \in set THEN Updated(heap[s], Parsed(s))
                                      ELSE heap[s]]
  /\ UNCHANGED <<inputs, module, place>>

(* UpdateFromOptionParser: every option of every section, given or not.    *)
UpdateFromOptionParser ==
  /\ pc = "parse" /\ pc' = "inverse"
  /\ LET set == Offered \cup Groups
     IN /\ dict' = [s \in DOMAIN dict \cup set |-> s]
        /\ heap' = [s \in DictIds |-> IF s \in set THEN Updated(heap[s], Parsed(s))
                                      ELSE heap[s]]
  /\ UNCHANGED <<inputs, module, place>>

(* One list given: the other is its inverse. *)
Derived(g, h) == Cpulist(g) = {} /\ Cpulist(h) # {}
Inverse(h) == invert_cpulist(machine, Cpulist(h))

DeriveLists ==
  /\ pc = "inverse" /\ pc' = "loads"
  /\ \A g, h \in Groups : Derived(g, h) => Compressible(Inverse(h))
  /\ heap' = [s \in DictIds |->
       IF \E h \in Groups : s \in Groups /\ Derived(s, h)
       THEN LET h == CHOOSE h \in Groups : Derived(s, h)
            IN Updated(heap[s], Entry("cpulist", compress_cpulist(Inverse(h))))
       ELSE heap[s]]
  /\ UNCHANGED <<inputs, dict, module, place>>

DeriveFails ==
  /\ Fail("inverse")
  /\ \E g, h \in Groups : Derived(g, h) /\ ~ Compressible(Inverse(h))

-----------------------------------------------------------------------------
(* RtEval.Prepare: Setup(params) of the loads and then of the measurements *)

(* The parameters of the run are one dict for all modules. *)
ModParams == Entry("reportdir", "run")
Params    == IF DOMAIN heap["modparams"] = {} THEN ModParams ELSE heap["modparams"]

(* The constructor of the module completes its section. *)
Constructed(c, m) ==
  IF m \in LoadMods THEN [c EXCEPT !.heap[c.dict[m]] = SetDefault(@, "cpulist", {})]
  ELSE IF m = "cyclictest" THEN [c EXCEPT !.heap[c.dict[m]] = SetDefault(@, "option", "built-in")]
  ELSE c

SetUp(g, m) ==
  LET one == UpdateSection(Config, m, "modparams", Params)
      two == UpdateSection(one, m, m, Entry("cpulist", Cpulist(g)))
  IN Constructed(two, m)

Missing(g) == ModulesIn(g) \ DOMAIN module

InstantiateFails(m, text) == m = "cyclictest" /\ CyclictestFails(machine, text)

SetupModule(g, m) ==
  /\ pc = g /\ m \in Missing(g) /\ ~ InstantiateFails(m, Cpulist(g))
  /\ Set(SetUp(g, m))
  /\ module' = Updated(module, Entry(m, Cpulist(g)))
  /\ UNCHANGED <<inputs, pc, place>>

SetupFails(m) ==
  /\ Fail("measurement")
  /\ m \in Missing("measurement") /\ InstantiateFails(m, Cpulist("measurement"))

SetupDone(g) ==
  /\ pc = g /\ Missing(g) = {} /\ pc' = IF g = "loads" THEN "measurement" ELSE "ready"
  /\ UNCHANGED <<inputs, dict, heap, module, place>>

(* _WorkloadSetup of the load modules, in their threads. *)
Placed(m) ==
  CASE m = "kcompile"  -> KcompilePlace(machine, module[m])
    [] m = "hackbench" -> HackbenchPlace(machine, module[m])
    [] m = "stressng"  -> StressngPlace(machine, module[m])

WorkloadSetup(m) ==
  /\ pc = "ready" /\ m \in (DOMAIN module \cap LoadMods) \ DOMAIN place
  /\ place' = Updated(place, Entry(m, Placed(m)))
  /\ UNCHANGED <<inputs, dict, heap, pc, module>>

Next ==
  \/ Create \/ CreateFails \/ LoadNothing \/ Load \/ AppendDefaults
  \/ Import \/ ImportFails
  \/ UpdateFromOptionParser \/ DeriveLists \/ DeriveFails
  \/ \E g \in Groups, m \in Mods : SetupModule(g, m)
  \/ \E m \in MeasureMods : SetupFails(m)
  \/ \E g \in Groups : SetupDone(g)
  \/ \E m \in LoadMods : WorkloadSetup(m)

Spec == Init /\ [][Next]_vars

-----------------------------------------------------------------------------
(* The settings are dicts with known keys, and a cpu list is one.          *)
TypeOK ==
  /\ pc \in {"start", "load", "groups", "import", "parse", "inverse", "loads",
              "measurement", "ready", "failed"}
  /\ DOMAIN dict \subseteq Sections /\ \A s \in DOMAIN dict : dict[s] \in {s, "modparams"}
  /\ DOMAIN heap = DictIds
  /\ \A d \in DictIds : /\ DOMAIN heap[d] \subseteq Keys
                        /\ "cpulist" \in DOMAIN heap[d] => heap[d].cpulist \in Text
  /\ DOMAIN place \subseteq DOMAIN module \cap LoadMods
  /\ \A m \in DOMAIN module : module[m] \in Text
  /\ \A m \in DOMAIN place : place[m] \subseteq Cpus

(* A module finds its own settings when it runs, whatever dicts it shares: *)
(* the cpu list of its group, and its option by the order of precedence    *)
(* command line, file, default (rtevalConfig and Setup()), a module's      *)
(* option that is empty in the file counting as none.  The file has no say *)
(* in the options of rteval with a default of their own: "logging".        *)
Precedence(s) ==
  IF s \in optset THEN "command line"
  ELSE IF /\ s \in DOMAIN file /\ "option" \in DOMAIN file[s]
          /\ s = "rteval" \/ file[s].option # ""
       THEN file[s].option ELSE BuiltIn(s)

OwnSettings ==
  pc = "ready" =>
    /\ \A m \in DOMAIN module : Cpulist(m) = Cpulist(GroupOf(m)) /\ module[m] = Cpulist(m)
    /\ \A s \in {"rteval"} \cup (WithOption \cap DOMAIN module) :
         "option" \in DOMAIN heap[dict[s]] /\ heap[dict[s]].option = Precedence(s)
    /\ "logging" \in DOMAIN heap[dict["rteval"]]
    /\ heap[dict["rteval"]].logging = Given("logging", "built-in")

(* With one of the two cpu lists given, no load runs on a cpu cyclictest   *)
(* measures, for a list in which the digits of every cpu appear and that   *)
(* leaves stress-ng a node to be bound to (rteval-cmd, loads).             *)
OneListGiven == (optlist["loads"] = {}) # (optlist["measurement"] = {})
GivenList    == optlist["loads"] \cup optlist["measurement"]
Separated    == "cyclictest" \in DOMAIN module =>
                  \A m \in DOMAIN place :
                    place[m] \cap CyclictestCpus(machine, module["cyclictest"]) = {}

LoadsAvoidMeasured ==
  /\ OneListGiven
  /\ \A range \in GivenList : range[2] =< range[1] + 1
  /\ optlist["loads"] # {} => UsableNodes(machine, GivenList) # {}
  => Separated

(* rteval gets ready unless a node has memory only, a file configures      *)
(* loads and no measurement, the inverse of the one list is empty, or      *)
(* cyclictest is to measure a cpu that is not there (or cpu 0 is not).     *)
Doomed ==
  \/ TopologyFails(machine)
  \/ Configured("loads") /\ ~ Configured("measurement")
  \/ OneListGiven /\ invert_cpulist(machine, GivenList) = {}
  \/ /\ Configured("measurement") =>
          "cyclictest" \in DOMAIN file["measurement"] /\ file["measurement"]["cyclictest"] = "module"
     /\ 0 \notin machine.online
        \/ ~ (expand_cpulist(optlist["measurement"]) \subseteq machine.online)

StartsUnlessDoomed == (pc = "failed" => Doomed) /\ (pc = "ready" => ~ Doomed)

(* The other list is the inverse of the one given (rteval-cmd, 259-260).   *)
InverseSeparates ==
  OneListGiven /\ (optlist["loads"] # {} => UsableNodes(machine, GivenList) # {}) => Separated
=============================================================================
