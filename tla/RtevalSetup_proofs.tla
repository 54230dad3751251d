------------------------- MODULE RtevalSetup_proofs -------------------------
(***************************************************************************)
(* Proofs about RtevalSetup and CpuLists: whatever file, options and lists *)
(* a user gives, a module finds its own settings, loads keep off the cpus  *)
(* that are measured, and only four named conditions keep rteval from      *)
(* starting.                                                               *)
(***************************************************************************)
EXTENDS RtevalSetup, TLAPS

(* Where rteval-cmd is: the modules are known, the options are merged, the *)
(* lists are final.                                                        *)
Imported == {"parse", "inverse", "loads", "measurement", "ready"}
Merged   == {"inverse", "loads", "measurement", "ready"}
Settled  == {"loads", "measurement", "ready"}

(* What the steps arrive at, said of the inputs alone: the modules of a    *)
(* group, the option of a section before the command line, and the cpu     *)
(* list of a group.                                                        *)
Chosen(g) ==
  IF Configured(g) THEN {m \in DOMAIN file[g] \cap Mods : file[g][m] = "module"} ELSE ModsOf(g)
ChosenMods == Chosen("loads") \cup Chosen("measurement")

FileOption(s) ==
  IF /\ s \in DOMAIN file /\ "option" \in DOMAIN file[s]
     /\ s = "rteval" \/ file[s].option # ""
  THEN file[s].option ELSE BuiltIn(s)

(* What -L leaves in its section, whatever the file says.                  *)
Logging == Given("logging", "built-in")

Other(g) == IF g = "loads" THEN "measurement" ELSE "loads"
Final(g) ==
  IF optlist[g] = {} /\ optlist[Other(g)] # {}
  THEN compress_cpulist(invert_cpulist(machine, optlist[Other(g)])) ELSE optlist[g]

InputInv ==
  /\ machine \in Machines /\ file \in Files
  /\ optlist \in [Groups -> Lists] /\ optset \in Options

(* Only sysstat, which has no options, may share the dict of parameters.   *)
DictInv ==
  /\ \A s \in DOMAIN dict : dict[s] = s \/ (s = "sysstat" /\ dict[s] = "modparams")
  /\ DOMAIN heap["modparams"] \subseteq {"reportdir", "cpulist"}
  /\ pc \notin Settled \cup {"failed"} => \A s \in DOMAIN dict : dict[s] = s

(* Until the file has been read nothing is known but the defaults.         *)
FreshInv ==
  /\ pc = "start" => DOMAIN dict = {} /\ \A d \in DictIds : heap[d] = Empty
  /\ pc = "load" => /\ DOMAIN dict = {"rteval"}
                    /\ heap["rteval"] = DefaultConfig
                    /\ \A d \in DictIds \ {"rteval"} : heap[d] = Empty

(* The groups, and the modules that are listed in their sections.          *)
GroupInv ==
  /\ pc = "groups" => \A g \in Groups : g \in DOMAIN dict <=> Configured(g)
  /\ pc = "import" => /\ "loads" \in DOMAIN dict
                      /\ "measurement" \in DOMAIN dict
                           <=> Configured("measurement") \/ ~Configured("loads")
  /\ pc \in Imported => Groups \subseteq DOMAIN dict
  /\ pc \in Imported => (Configured("loads") => Configured("measurement"))
  /\ pc \in Imported \cup {"groups", "import"} =>
       \A g \in Groups \cap DOMAIN dict : ModulesIn(g) = Chosen(g)

OptionInv ==
  /\ pc \in {"groups", "import", "parse"} => \A s \in WithOption : Default(s) = FileOption(s)
  /\ pc \in Merged => \A s \in WithOption :
       s = "rteval" \/ s \in ChosenMods =>
         s \in DOMAIN dict /\ "option" \in DOMAIN heap[s] /\ heap[s].option = Precedence(s)
  /\ pc \in Merged => "logging" \in DOMAIN heap["rteval"] /\ heap["rteval"].logging = Logging

ListInv ==
  /\ pc \in Merged => \A g \in Groups : "cpulist" \in DOMAIN heap[g]
  /\ pc = "inverse" => \A g \in Groups : heap[g].cpulist = optlist[g]
  /\ pc \in Settled => \A g \in Groups : heap[g].cpulist = Final(g)

(* The modules set up so far, each with the list of its group.             *)
ModuleInv ==
  /\ DOMAIN module \subseteq ChosenMods
  /\ pc \notin Settled \cup {"failed"} => DOMAIN module = {}
  /\ pc = "ready" => ChosenMods \subseteq DOMAIN module
  /\ pc = "measurement" => Chosen("loads") \subseteq DOMAIN module
  /\ pc # "failed" => \A m \in DOMAIN module :
       /\ m \in DOMAIN dict /\ "cpulist" \in DOMAIN heap[dict[m]]
       /\ heap[dict[m]].cpulist = Final(GroupOf(m)) /\ module[m] = Final(GroupOf(m))
  /\ pc # "failed" /\ "cyclictest" \in DOMAIN module =>
       ~CyclictestFails(machine, Final("measurement"))

PlaceInv ==
  /\ pc # "ready" => DOMAIN place = {}
  /\ \A m \in DOMAIN place : place[m] = Placed(m)

(* What rteval-cmd has got over, and why it ended.                         *)
StartInv ==
  /\ pc \notin {"start", "failed"} => ~TopologyFails(machine)
  /\ pc \in Settled => (OneListGiven => invert_cpulist(machine, GivenList) # {})
  /\ pc = "failed" /\ online_cpus(machine) \subseteq machine.online => Doomed

IInv ==
  /\ TypeOK /\ InputInv /\ DictInv /\ FreshInv /\ GroupInv /\ OptionInv
  /\ ListInv /\ ModuleInv /\ PlaceInv /\ StartInv

-----------------------------------------------------------------------------
(* Cpu lists *)

LEMMA OnlineIsPossible ==
  ASSUME NEW m, SaneMachine(m)
  PROVE  online_cpus(m) \subseteq m.possible /\ m.possible \subseteq Cpus
BY DEF online_cpus, SaneMachine

LEMMA InverseOnline ==
  ASSUME NEW m, NEW text
  PROVE  invert_cpulist(m, text) \subseteq online_cpus(m)
BY DEF invert_cpulist

(* A list of single cpus is read as those cpus. *)
LEMMA CompressExpands ==
  ASSUME NEW S \in SUBSET Cpus
  PROVE  /\ compress_cpulist(S) \in Text
         /\ expand_cpulist(compress_cpulist(S)) = S
         /\ compress_cpulist(S) = {} <=> S = {}
<1>1. compress_cpulist(S) \in Text BY DEF compress_cpulist, Text
<1>2. \A c \in S : c..c = {c} /\ <<c, c>>[1] = c /\ <<c, c>>[2] = c
  BY MaxCpuAssumption DEF Cpus
<1>3. ASSUME NEW c PROVE c \in expand_cpulist(compress_cpulist(S)) <=> c \in S
  <2>1. c \in expand_cpulist(compress_cpulist(S))
          <=> \E range \in compress_cpulist(S) : c \in range[1]..range[2]
    BY DEF expand_cpulist
  <2>2. (\E range \in compress_cpulist(S) : c \in range[1]..range[2])
          <=> \E e \in S : c \in <<e, e>>[1]..<<e, e>>[2]
    BY DEF compress_cpulist
  <2>3. QED BY <1>2, <2>1, <2>2
<1>4. compress_cpulist(S) = {} <=> S = {} BY DEF compress_cpulist
<1>5. QED BY <1>1, <1>3, <1>4

LEMMA DigitsOfItself == ASSUME NEW c \in Cpus PROVE DigitsWithin(c, c)
<1>1. c \in 0..999 BY MaxCpuAssumption DEF Cpus
<1>2. c \div 1 = c BY <1>1
<1>3. 10^0 = 1 /\ 10^1 = 10 /\ 10^2 = 100 /\ 10^3 = 1000 OBVIOUS
<1>4. c % 10^Width(c) = c BY <1>1, <1>3 DEF Width
<1>5. 0 \in 0..2 /\ 0 + Width(c) =< Width(c) BY DEF Width
<1>6. (c \div 10^0) % 10^Width(c) = c BY <1>2, <1>3, <1>4
<1>7. QED BY <1>5, <1>6 DEF DigitsWithin

(* A list without a range of three cpus or more names each of its cpus.    *)
Narrow(text) == \A range \in text : range[2] =< range[1] + 1

LEMMA InverseAvoids ==
  ASSUME NEW m, SaneMachine(m), NEW text \in Text, Narrow(text)
  PROVE  invert_cpulist(m, text) \cap expand_cpulist(text) = {}
<1> SUFFICES ASSUME NEW c \in invert_cpulist(m, text), c \in expand_cpulist(text) PROVE FALSE
  OBVIOUS
<1>1. PICK range \in text : c \in range[1]..range[2] BY DEF expand_cpulist
<1>2. range[1] \in Cpus /\ range[2] \in Cpus BY DEF Text
<1>3. c = range[1] \/ c = range[2] BY <1>1, <1>2, MaxCpuAssumption DEF Narrow, Cpus
<1>4. DigitsWithin(c, range[1]) \/ DigitsWithin(c, range[2]) BY <1>2, <1>3, DigitsOfItself
<1>5. QED BY <1>1, <1>4 DEF InText, invert_cpulist

(* A load with a list runs on cpus of the list.                            *)
LEMMA UsableWithin ==
  ASSUME NEW m, NEW text \in Text, text # {}
  PROVE  OnUsable(m, text) \subseteq expand_cpulist(text)
BY DEF OnUsable, UsableNodes, NodeCpus

(* Any cpus of the machine that are online are on a node, which a load     *)
(* with the list of them can use.                                          *)
LEMMA InverseUsable ==
  ASSUME NEW m, SaneMachine(m), online_cpus(m) \subseteq m.online,
         NEW S \in SUBSET online_cpus(m), S # {}
  PROVE  UsableNodes(m, compress_cpulist(S)) # {}
<1>1. S \in SUBSET Cpus BY OnlineIsPossible
<1>2. PICK c \in S : TRUE OBVIOUS
<1>3. c \in m.online OBVIOUS
<1>4. PICK n \in DOMAIN m.node : c \in expand_cpulist(m.node[n])
  BY <1>3 DEF SaneMachine
<1>5. c \in getcpus(m, n)
  BY <1>3, <1>4 DEF getcpus, CpuList, online_cpulist, is_online, expanded, expand_cpulist
<1>6. c \in NodeCpus(m, n, compress_cpulist(S))
  BY <1>1, <1>2, <1>5, CompressExpands DEF NodeCpus
<1>7. QED BY <1>4, <1>6 DEF UsableNodes, getnodes

-----------------------------------------------------------------------------
(* What does not change, because the inputs do not.                        *)

LEMMA InputsKept == Next => UNCHANGED inputs
BY DEF Next, Create, CreateFails, LoadNothing, Load, AppendDefaults, Import, ImportFails,
   UpdateFromOptionParser, DeriveLists, DeriveFails, SetupModule, SetupFails, SetupDone,
   WorkloadSetup, Fail

LEMMA InputsFix ==
  ASSUME UNCHANGED inputs
  PROVE  /\ machine' = machine /\ file' = file /\ optlist' = optlist /\ optset' = optset
         /\ \A s : Configured(s)' <=> Configured(s)
         /\ \A g : Chosen(g)' = Chosen(g) /\ Final(g)' = Final(g)
         /\ ChosenMods' = ChosenMods
         /\ \A s : FileOption(s)' = FileOption(s) /\ Precedence(s)' = Precedence(s)
         /\ Logging' = Logging
         /\ OneListGiven' <=> OneListGiven
         /\ GivenList' = GivenList
         /\ Doomed' <=> Doomed
         /\ InputInv' <=> InputInv
<1>1. machine' = machine /\ file' = file /\ optlist' = optlist /\ optset' = optset
  BY DEF inputs
<1>2. \A s : Configured(s)' <=> Configured(s) BY <1>1 DEF Configured
<1>3. \A g : Chosen(g)' = Chosen(g) BY <1>1, <1>2 DEF Chosen
<1>4. \A g : Final(g)' = Final(g) BY <1>1 DEF Final
<1>5. ChosenMods' = ChosenMods BY <1>3 DEF ChosenMods
<1>6. \A s : FileOption(s)' = FileOption(s) BY <1>1 DEF FileOption
<1>7. /\ \A s : Precedence(s)' = Precedence(s)
      /\ Logging' = Logging
  BY <1>1 DEF Precedence, Logging, Given
<1>8. (OneListGiven' <=> OneListGiven) /\ GivenList' = GivenList
  BY <1>1 DEF OneListGiven, GivenList
<1>9. Doomed' <=> Doomed BY <1>1, <1>2, <1>8 DEF Doomed
<1>10. InputInv' <=> InputInv BY <1>1 DEF InputInv
<1>11. QED BY <1>1, <1>2, <1>3, <1>4, <1>5, <1>6, <1>7, <1>8, <1>9, <1>10

LEMMA InputFacts ==
  ASSUME InputInv
  PROVE  /\ SaneMachine(machine) /\ SaneFile(file)
         /\ \A g \in Groups : /\ optlist[g] \in Text /\ Final(g) \in Text
                              /\ Chosen(g) \subseteq ModsOf(g)
         /\ optset \subseteq OptionNames
<1>1. SaneMachine(machine) /\ SaneFile(file) /\ optset \subseteq OptionNames
  BY SetupAssumption DEF InputInv
<1>2. ASSUME NEW g \in Groups PROVE optlist[g] \in Text
  BY SetupAssumption, <1>2 DEF InputInv
<1>3. ASSUME NEW g \in Groups PROVE Final(g) \in Text
  <2>1. invert_cpulist(machine, optlist[Other(g)]) \in SUBSET Cpus
    BY <1>1, OnlineIsPossible, InverseOnline
  <2>2. QED BY <1>2, <1>3, <2>1, CompressExpands DEF Final
<1>4. ASSUME NEW g \in Groups PROVE Chosen(g) \subseteq ModsOf(g)
  <2>1. CASE Configured(g)
    <3>1. \A m \in Chosen(g) : m \in Mods /\ g = GroupOf(m)
      BY <1>1, <1>4, <2>1 DEF Chosen, SaneFile, Configured
    <3>2. QED BY <3>1 DEF GroupOf, ModsOf, Mods
  <2>2. CASE ~Configured(g) BY <2>2 DEF Chosen
  <2>3. QED BY <2>1, <2>2
<1>5. QED BY <1>1, <1>2, <1>3, <1>4

(* Modules, their groups and their sections.                               *)
LEMMA Names ==
  /\ Groups \subseteq Sections /\ Mods \subseteq Sections /\ WithOption \subseteq Sections
  /\ Sections \subseteq DictIds /\ "modparams" \in DictIds \ Sections
  /\ "rteval" \in Sections \ (Groups \cup Mods) /\ Groups \cap Mods = {}
  /\ "sysstat" \in MeasureMods /\ Mods \ WithOption = {"sysstat"}
  /\ WithOption \ Mods = {"rteval"} /\ Groups \cap WithOption = {}
  /\ LoadMods \cap MeasureMods = {} /\ "cyclictest" \in MeasureMods
  /\ \A g \in Groups : /\ ModsOf(g) \subseteq Mods
                       /\ \A m \in ModsOf(g) : GroupOf(m) = g
  /\ \A m \in Mods : GroupOf(m) \in Groups /\ m \in ModsOf(GroupOf(m))
BY DEF Groups, Sections, Mods, LoadMods, MeasureMods, WithOption, DictIds, ModsOf, GroupOf

LEMMA ChosenFacts ==
  ASSUME InputInv
  PROVE  /\ ChosenMods \subseteq Mods
         /\ \A g \in Groups : \A m \in Chosen(g) : m \in ChosenMods /\ GroupOf(m) = g
         /\ \A m \in ChosenMods : m \in Chosen(GroupOf(m))
<1>1. \A g \in Groups : Chosen(g) \subseteq ModsOf(g) BY InputFacts
<1>2. \A g \in Groups : \A m \in Chosen(g) : m \in Mods /\ m \in ChosenMods /\ GroupOf(m) = g
  BY <1>1, Names DEF ChosenMods, Groups
<1>3. \A m \in ChosenMods : \E g \in Groups : m \in Chosen(g) BY DEF ChosenMods, Groups
<1>4. QED BY <1>2, <1>3

LEMMA InitInv == Init => IInv
<1> SUFFICES ASSUME Init PROVE IInv OBVIOUS
<1>1. /\ DOMAIN dict = {} /\ DOMAIN heap = DictIds /\ \A d \in DictIds : heap[d] = Empty
      /\ DOMAIN module = {} /\ DOMAIN place = {} /\ pc = "start" /\ DOMAIN Empty = {}
  BY DEF Init, Empty
<1>2. "modparams" \in DictIds BY Names
<1>3. TypeOK BY <1>1 DEF TypeOK
<1>4. InputInv BY DEF Init, InputInv
<1>5. DictInv /\ FreshInv /\ GroupInv /\ OptionInv
  BY <1>1, <1>2 DEF DictInv, FreshInv, GroupInv, OptionInv, Imported, Merged
<1>6. ListInv /\ ModuleInv /\ PlaceInv /\ StartInv
  BY <1>1 DEF ListInv, ModuleInv, PlaceInv, StartInv, Merged, Settled
<1>7. QED BY <1>3, <1>4, <1>5, <1>6 DEF IInv

-----------------------------------------------------------------------------
(* The steps that end the program, and the reason each has.                *)

LEMMA FailKeepsInv ==
  ASSUME IInv, NEW from \in {"start", "import", "inverse", "measurement"}, Fail(from),
         online_cpus(machine) \subseteq machine.online => Doomed
  PROVE  IInv'
<1>1. /\ UNCHANGED <<inputs, dict, heap, module, place>>
      /\ pc = from /\ pc' = "failed"
  BY DEF Fail
<1>2. UNCHANGED inputs BY <1>1
<1>3. TypeOK' BY <1>1, <1>2, InputsFix DEF IInv, TypeOK
<1>4. InputInv' BY <1>2, InputsFix DEF IInv
<1>5. DictInv' BY <1>1 DEF IInv, DictInv
<1>6. FreshInv' /\ GroupInv' /\ OptionInv' /\ ListInv'
  BY <1>1 DEF FreshInv, GroupInv, OptionInv, ListInv, Imported, Merged, Settled
<1>7. ModuleInv' BY <1>1, <1>2, InputsFix DEF IInv, ModuleInv
<1>8. DOMAIN place = {} BY <1>1 DEF IInv, PlaceInv
<1>9. PlaceInv' BY <1>1, <1>8 DEF PlaceInv
<1>10. StartInv' BY <1>1, <1>2, InputsFix DEF StartInv, Settled
<1>11. QED BY <1>3, <1>4, <1>5, <1>6, <1>7, <1>9, <1>10 DEF IInv

LEMMA CreateFailsKeepsInv == ASSUME IInv, CreateFails PROVE IInv'
BY FailKeepsInv DEF CreateFails, Doomed

LEMMA ImportFailsKeepsInv == ASSUME IInv, ImportFails PROVE IInv'
<1>1. pc = "import" BY DEF ImportFails, Fail
<1>2. Configured("loads") /\ ~Configured("measurement")
  BY <1>1 DEF IInv, GroupInv, ImportFails, Groups
<1>3. QED BY <1>2, FailKeepsInv DEF ImportFails, Doomed

(* What a section of a group says is the list of the group.                *)
LEMMA CpulistOfGroup ==
  ASSUME IInv, pc \in Merged, NEW g \in Groups
  PROVE  /\ g \in DOMAIN dict /\ dict[g] = g
         /\ Cpulist(g) = heap[g].cpulist
         /\ pc = "inverse" => Cpulist(g) = optlist[g]
         /\ pc \in Settled => Cpulist(g) = Final(g)
<1>1. g \in DOMAIN dict BY DEF IInv, GroupInv, Imported, Merged
<1>2. dict[g] = g BY <1>1 DEF IInv, DictInv, Groups
<1>3. Cpulist(g) = heap[g].cpulist BY <1>2 DEF IInv, ListInv, Cpulist
<1>4. QED BY <1>1, <1>2, <1>3 DEF IInv, ListInv

(* One list is derived, from the one that was given, which is not empty.   *)
LEMMA DerivedGiven ==
  ASSUME IInv, pc = "inverse", NEW g \in Groups, NEW h \in Groups
  PROVE  Derived(g, h) <=> h = Other(g) /\ optlist[g] = {} /\ optlist[h] # {}
<1>1. Cpulist(g) = optlist[g] /\ Cpulist(h) = optlist[h] BY CpulistOfGroup DEF Merged
<1>2. QED BY <1>1 DEF Derived, Other, Groups

LEMMA GivenIs ==
  ASSUME NEW g \in Groups, optlist[g] = {}, optlist[Other(g)] # {}
  PROVE  OneListGiven /\ GivenList = optlist[Other(g)]
BY DEF OneListGiven, GivenList, Other, Groups

LEMMA DeriveFailsKeepsInv == ASSUME IInv, DeriveFails PROVE IInv'
<1>1. pc = "inverse" BY DEF DeriveFails, Fail
<1>2. PICK g \in Groups, h \in Groups : Derived(g, h) /\ ~Compressible(Inverse(h))
  BY DEF DeriveFails
<1>3. h = Other(g) /\ optlist[g] = {} /\ optlist[h] # {} BY <1>1, <1>2, DerivedGiven
<1>4. Cpulist(h) = optlist[h] BY <1>1, CpulistOfGroup DEF Merged
<1>5. OneListGiven /\ invert_cpulist(machine, GivenList) = {}
  BY <1>2, <1>3, <1>4, GivenIs DEF Compressible, Inverse
<1>6. QED BY <1>5, FailKeepsInv DEF DeriveFails, Doomed

(* cyclictest fails on cpus the user named, or on cpu 0.                   *)
AskedForMissing ==
  0 \notin machine.online \/ ~(expand_cpulist(optlist["measurement"]) \subseteq machine.online)

LEMMA CyclictestReason ==
  ASSUME InputInv, OneListGiven => invert_cpulist(machine, GivenList) # {}
  PROVE  /\ AskedForMissing => CyclictestFails(machine, Final("measurement"))
         /\ CyclictestFails(machine, Final("measurement"))
              /\ online_cpus(machine) \subseteq machine.online => AskedForMissing
<1> DEFINE g == "measurement"
           inv == invert_cpulist(machine, optlist["loads"])
<1>1. g \in Groups /\ Other(g) = "loads" BY DEF Groups, Other
<1>2. CASE optlist[g] # {}
  <2>1. CyclictestCpus(machine, Final(g)) = expand_cpulist(optlist[g])
    BY <1>2 DEF Final, CyclictestCpus
  <2>2. QED BY <2>1 DEF CyclictestFails, AskedForMissing
<1>3. CASE optlist[g] = {}
  <2>1. expand_cpulist(optlist[g]) = {} BY <1>3 DEF expand_cpulist
  <2>2. CyclictestCpus(machine, Final(g)) \subseteq online_cpus(machine)
    <3>1. CASE optlist["loads"] = {} BY <1>1, <1>3, <3>1 DEF Final, CyclictestCpus
    <3>2. CASE optlist["loads"] # {}
      <4>1. inv # {} BY <1>1, <1>3, <3>2, GivenIs
      <4>2. inv \subseteq online_cpus(machine) /\ inv \in SUBSET Cpus
        BY InputFacts, OnlineIsPossible, InverseOnline
      <4>3. Final(g) = compress_cpulist(inv) BY <1>1, <1>3, <3>2 DEF Final
      <4>4. QED BY <4>1, <4>2, <4>3, CompressExpands DEF CyclictestCpus
    <3>3. QED BY <3>1, <3>2
  <2>3. QED BY <2>1, <2>2 DEF CyclictestFails, AskedForMissing
<1>4. QED BY <1>2, <1>3

LEMMA SetupFailsKeepsInv ==
  ASSUME IInv, NEW m \in MeasureMods, SetupFails(m)
  PROVE  IInv'
<1>1. /\ pc = "measurement" /\ Fail("measurement") /\ m = "cyclictest"
      /\ m \in ModulesIn("measurement")
      /\ CyclictestFails(machine, Cpulist("measurement"))
  BY DEF SetupFails, Fail, Missing, InstantiateFails
<1>2. "measurement" \in Groups BY DEF Groups
<1>3. Cpulist("measurement") = Final("measurement")
  BY <1>1, <1>2, CpulistOfGroup DEF Merged, Settled
<1>4. "cyclictest" \in Chosen("measurement")
  BY <1>1, <1>2, CpulistOfGroup DEF IInv, GroupInv, Imported, Merged
<1>5. ASSUME online_cpus(machine) \subseteq machine.online PROVE Doomed
  <2>1. AskedForMissing
    BY <1>1, <1>3, <1>5, CyclictestReason DEF IInv, StartInv, Settled
  <2>2. QED BY <1>4, <2>1 DEF Doomed, AskedForMissing, Chosen
<1>6. QED BY <1>1, <1>5, FailKeepsInv

-----------------------------------------------------------------------------
(* The configuration is built.                                             *)

LEMMA UpdateSectionIs ==
  ASSUME NEW c, NEW D, NEW H, c = [dict |-> D, heap |-> H], NEW s, NEW id, NEW new,
         DOMAIN new # {}
  PROVE  /\ s \notin DOMAIN D =>
              UpdateSection(c, s, id, new)
                = [dict |-> Updated(D, Entry(s, id)), heap |-> [H EXCEPT ![id] = new]]
         /\ s \in DOMAIN D =>
              UpdateSection(c, s, id, new)
                = [dict |-> D, heap |-> [H EXCEPT ![D[s]] = Updated(@, new)]]
<1>1. c.dict = D /\ c.heap = H OBVIOUS
<1>2. CASE s \notin DOMAIN D BY <1>1, <1>2 DEF UpdateSection
<1>3. CASE s \in DOMAIN D BY <1>1, <1>3 DEF UpdateSection
<1>4. QED BY <1>2, <1>3

LEMMA EntryIs ==
  ASSUME NEW k, NEW v
  PROVE  DOMAIN Entry(k, v) = {k} /\ Entry(k, v)[k] = v
BY DEF Entry

LEMMA UpdatedIs ==
  ASSUME NEW d, NEW new
  PROVE  /\ DOMAIN Updated(d, new) = DOMAIN d \cup DOMAIN new
         /\ \A k \in DOMAIN new : Updated(d, new)[k] = new[k]
         /\ \A k \in DOMAIN d \ DOMAIN new : Updated(d, new)[k] = d[k]
BY DEF Updated

(* Steps before the modules are set up.                                    *)
Early == {"start", "load", "groups", "import", "parse", "inverse"}

LEMMA NothingPlaced ==
  ASSUME IInv, pc \in Early, UNCHANGED <<inputs, module, place>>,
         pc' \in Early \cup Settled, pc' \notin {"measurement", "ready"}
  PROVE  PlaceInv' /\ InputInv' /\ DOMAIN module = {} /\ DOMAIN place = {} /\ ModuleInv'
<1>1. DOMAIN module = {} BY DEF IInv, ModuleInv, Early, Settled
<1>2. DOMAIN place = {} BY DEF IInv, PlaceInv, Early
<1>3. PlaceInv' BY <1>2 DEF PlaceInv
<1>4. InputInv' BY InputsFix DEF IInv
<1>5. ModuleInv' BY <1>1 DEF ModuleInv, Early, Settled
<1>6. QED BY <1>1, <1>2, <1>3, <1>4, <1>5

LEMMA CreateKeepsInv == ASSUME IInv, Create PROVE IInv'
<1> DEFINE new == DefaultConfig
<1>1. pc = "start" /\ pc' = "load" /\ ~TopologyFails(machine)
      /\ UNCHANGED inputs /\ UNCHANGED <<module, place>>
  BY DEF Create
<1>2. DOMAIN dict = {} /\ DOMAIN heap = DictIds /\ \A d \in DictIds : heap[d] = Empty
  BY <1>1 DEF IInv, FreshInv, TypeOK
<1>3. DOMAIN new = {"option", "logging"} BY DEF DefaultConfig
<1>5. dict' = Updated(dict, Entry("rteval", "rteval"))
      /\ heap' = [heap EXCEPT !["rteval"] = new]
  <2> DEFINE c == UpdateSection(Config, "rteval", "rteval", new)
             D == Updated(dict, Entry("rteval", "rteval"))
             H == [heap EXCEPT !["rteval"] = new]
  <2>1. c = [dict |-> D, heap |-> H] BY <1>2, <1>3, UpdateSectionIs DEF Config
  <2>2. dict' = c.dict /\ heap' = c.heap BY DEF Create, Set
  <2> HIDE DEF c, D, H
  <2>3. dict' = D /\ heap' = H BY <2>1, <2>2
  <2>4. QED BY <2>3 DEF D, H
<1>6. DOMAIN dict' = {"rteval"} /\ dict'["rteval"] = "rteval"
  BY <1>2, <1>5 DEF Entry, Updated
<1>7. /\ DOMAIN heap' = DictIds /\ heap'["rteval"] = new
      /\ \A d \in DictIds \ {"rteval"} : heap'[d] = Empty
  BY <1>2, <1>5, Names
<1>8. PlaceInv' /\ InputInv' /\ DOMAIN module = {} /\ DOMAIN place = {} /\ ModuleInv'
  BY <1>1, NothingPlaced DEF Early
<1>9. DOMAIN Empty = {} BY DEF Empty
<1>10. TypeOK'
  <2>1. DOMAIN dict' \subseteq Sections /\ \A s \in DOMAIN dict' : dict'[s] \in {s, "modparams"}
    BY <1>6, Names
  <2>2. \A d \in DictIds : DOMAIN heap'[d] \subseteq Keys /\ "cpulist" \notin DOMAIN heap'[d]
    BY <1>3, <1>7, <1>9 DEF Keys
  <2>3. QED BY <1>1, <1>7, <1>8, <2>1, <2>2 DEF TypeOK
<1>11. DictInv' BY <1>6, <1>7, <1>9, Names DEF DictInv
<1>12. FreshInv' /\ GroupInv' /\ OptionInv' /\ ListInv'
  BY <1>1, <1>6, <1>7 DEF FreshInv, GroupInv, OptionInv, ListInv, Imported, Merged, Settled
<1>13. StartInv' BY <1>1, InputsFix DEF StartInv, Settled
<1>14. QED BY <1>8, <1>10, <1>11, <1>12, <1>13 DEF IInv

LEMMA LoadNothingKeepsInv == ASSUME IInv, LoadNothing PROVE IInv'
<1>1. pc = "load" /\ pc' = "groups" /\ DOMAIN file = {} /\ UNCHANGED inputs
      /\ dict' = dict /\ heap' = heap /\ UNCHANGED <<module, place>>
  BY DEF LoadNothing
<1>2. DOMAIN dict = {"rteval"} /\ heap["rteval"] = DefaultConfig
  BY <1>1 DEF IInv, FreshInv
<1>3. PlaceInv' /\ InputInv' /\ DOMAIN module = {} /\ DOMAIN place = {} /\ ModuleInv'
  BY <1>1, NothingPlaced DEF Early
<1>4. TypeOK' BY <1>1, <1>3 DEF IInv, TypeOK
<1>5. DictInv' BY <1>1 DEF IInv, DictInv, Settled
<1>6. \A s : ~Configured(s) BY <1>1 DEF Configured
<1>7. Groups \cap DOMAIN dict = {} BY <1>2, Names
<1>8. FreshInv' /\ ListInv' BY <1>1 DEF FreshInv, ListInv, Merged, Settled
<1>9. GroupInv' BY <1>1, <1>6, <1>7, InputsFix DEF GroupInv, Imported
<1>10. OptionInv'
  <2>1. dict["rteval"] = "rteval" BY <1>1, <1>2 DEF IInv, DictInv, Settled
  <2>2. "option" \in DOMAIN heap["rteval"] /\ heap["rteval"].option = "built-in"
    BY <1>2 DEF DefaultConfig
  <2>3. ASSUME NEW s \in WithOption PROVE Default(s)' = FileOption(s)'
    BY <1>1, <1>2, <2>1, <2>2, InputsFix DEF Default, FileOption, BuiltIn
  <2>4. QED BY <1>1, <2>3 DEF OptionInv, Merged
<1>11. StartInv' BY <1>1, InputsFix DEF IInv, StartInv, Settled
<1>12. QED BY <1>3, <1>4, <1>5, <1>8, <1>9, <1>10, <1>11 DEF IInv

LEMMA ImportKeepsInv == ASSUME IInv, Import PROVE IInv'
<1>1. pc = "import" /\ pc' = "parse" /\ Groups \subseteq DOMAIN dict /\ UNCHANGED inputs
      /\ dict' = dict /\ heap' = heap /\ UNCHANGED <<module, place>>
  BY DEF Import
<1>2. PlaceInv' /\ InputInv' /\ DOMAIN module = {} /\ DOMAIN place = {} /\ ModuleInv'
  BY <1>1, NothingPlaced DEF Early
<1>3. TypeOK' BY <1>1, <1>2 DEF IInv, TypeOK
<1>4. DictInv' BY <1>1 DEF IInv, DictInv, Settled
<1>5. FreshInv' /\ ListInv' BY <1>1 DEF FreshInv, ListInv, Merged, Settled
<1>6. Configured("loads") => Configured("measurement")
  BY <1>1 DEF IInv, GroupInv, Groups
<1>7. \A g : ModulesIn(g)' = ModulesIn(g) BY <1>1 DEF ModulesIn
<1>8. GroupInv' BY <1>1, <1>6, <1>7, InputsFix DEF IInv, GroupInv, Imported
<1>9. \A s : Default(s)' = Default(s) BY <1>1 DEF Default
<1>10. OptionInv' BY <1>1, <1>9, InputsFix DEF IInv, OptionInv, Merged
<1>11. StartInv' BY <1>1, InputsFix DEF IInv, StartInv, Settled
<1>12. QED BY <1>2, <1>3, <1>4, <1>5, <1>8, <1>10, <1>11 DEF IInv

LEMMA LoadKeepsInv == ASSUME IInv, Load PROVE IInv'
<1> DEFINE read == {s \in DOMAIN file : Configured(s)}
<1>1. pc = "load" /\ pc' = "groups" /\ UNCHANGED inputs /\ UNCHANGED <<module, place>>
  BY DEF Load
<1>2. /\ DOMAIN dict = {"rteval"} /\ heap["rteval"] = DefaultConfig
      /\ \A d \in DictIds \ {"rteval"} : heap[d] = Empty
  BY <1>1 DEF IInv, FreshInv
<1>3. SaneFile(file) /\ SaneMachine(machine) BY InputFacts DEF IInv
<1>4. read \subseteq Sections BY <1>3 DEF SaneFile
<1>5. dict' = [s \in {"rteval"} \cup read |-> s] BY <1>2 DEF Load
<1>6. DOMAIN heap' = DictIds BY DEF Load
<1>7. ASSUME NEW d \in DictIds, d # "rteval", d \in read
      PROVE  DOMAIN heap'[d] = DOMAIN file[d] /\ \A k \in DOMAIN file[d] : heap'[d][k] = file[d][k]
  <2>1. heap'[d] = Updated(Empty, file[d]) BY <1>2, <1>7 DEF Load
  <2>2. QED BY <2>1 DEF Updated, Empty
<1>8. ASSUME NEW d \in DictIds, d # "rteval", d \notin read PROVE DOMAIN heap'[d] = {}
  <2>1. heap'[d] = Updated(Empty, Empty) BY <1>2, <1>8 DEF Load
  <2>2. QED BY <2>1 DEF Updated, Empty
<1>9. "rteval" \notin read => /\ DOMAIN heap'["rteval"] = {"option", "logging", "__cfgdata"}
                              /\ heap'["rteval"].option = "built-in"
  <2>1. ASSUME "rteval" \notin read
        PROVE  heap'["rteval"] = Updated(Wiped(DefaultConfig), Empty)
    BY <1>2, <2>1, Names DEF Load
  <2>2. QED BY <2>1 DEF Updated, Wiped, Entry, Empty, DefaultConfig
<1>10. "rteval" \in read =>
         /\ DOMAIN heap'["rteval"] = {"option", "logging", "__cfgdata"} \cup DOMAIN file["rteval"]
         /\ \A k \in DOMAIN file["rteval"] : heap'["rteval"][k] = file["rteval"][k]
         /\ "option" \notin DOMAIN file["rteval"] => heap'["rteval"].option = "built-in"
  <2>1. ASSUME "rteval" \in read
        PROVE  heap'["rteval"] = Updated(Wiped(DefaultConfig), file["rteval"])
    BY <1>2, <2>1, Names DEF Load
  <2>2. QED BY <2>1 DEF Updated, Wiped, Entry, Empty, DefaultConfig
<1>11. PlaceInv' /\ InputInv' /\ DOMAIN module = {} /\ DOMAIN place = {} /\ ModuleInv'
  BY <1>1, NothingPlaced DEF Early
<1>12. TypeOK'
  <2>1. DOMAIN dict' \subseteq Sections /\ \A s \in DOMAIN dict' : dict'[s] \in {s, "modparams"}
    BY <1>4, <1>5, Names
  <2>2. \A s \in read : DOMAIN file[s] \subseteq Keys
                        /\ ("cpulist" \in DOMAIN file[s] => file[s].cpulist \in Text)
    BY <1>3 DEF SaneFile
  <2>3. ASSUME NEW d \in DictIds
        PROVE  /\ DOMAIN heap'[d] \subseteq Keys
               /\ "cpulist" \in DOMAIN heap'[d] => heap'[d].cpulist \in Text
    <3>1. CASE d = "rteval" /\ d \notin read BY <1>9, <3>1 DEF Keys
    <3>2. CASE d = "rteval" /\ d \in read BY <1>10, <2>2, <3>2 DEF Keys
    <3>3. CASE d # "rteval" /\ d \in read BY <1>7, <2>2, <3>3
    <3>4. CASE d # "rteval" /\ d \notin read BY <1>8, <3>4
    <3>5. QED BY <3>1, <3>2, <3>3, <3>4
  <2>4. QED BY <1>1, <1>6, <1>11, <2>1, <2>3 DEF TypeOK
<1>13. DictInv'
  <2>1. DOMAIN heap'["modparams"] = {} BY <1>4, <1>8, Names
  <2>2. QED BY <1>1, <1>5, <2>1 DEF DictInv, Settled
<1>14. FreshInv' /\ ListInv' BY <1>1 DEF FreshInv, ListInv, Merged, Settled
<1>15. ASSUME NEW g \in Groups
       PROVE  /\ g \in DOMAIN dict' <=> Configured(g)
              /\ Configured(g) => ModulesIn(g)' = Chosen(g)
  <2>1. g \in DictIds /\ g # "rteval" BY Names
  <2>2. g \in read <=> Configured(g) BY DEF Configured
  <2>3. g \in DOMAIN dict' <=> Configured(g) BY <1>5, <2>1, <2>2
  <2>4. ASSUME Configured(g) PROVE ModulesIn(g)' = Chosen(g)
    <3>1. dict'[g] = g BY <1>5, <2>2, <2>4
    <3>2. QED BY <1>7, <2>1, <2>2, <2>4, <3>1 DEF ModulesIn, Chosen
  <2>5. QED BY <2>3, <2>4
<1>16. GroupInv'
  <2>1. \A g \in Groups : g \in DOMAIN dict' <=> Configured(g)' BY <1>1, <1>15, InputsFix
  <2>2. \A g \in Groups \cap DOMAIN dict' : ModulesIn(g)' = Chosen(g)'
    BY <1>1, <1>15, InputsFix
  <2>3. QED BY <1>1, <2>1, <2>2 DEF GroupInv, Imported
<1>17. OptionInv'
  <2>1. ASSUME NEW s \in WithOption PROVE Default(s)' = FileOption(s)
    <3>1. s \in DictIds BY Names
    <3>2. s \in read <=> Configured(s) BY DEF Configured
    <3>3. s \in DOMAIN dict' <=> s = "rteval" \/ s \in read BY <1>5
    <3>4. s \in DOMAIN dict' => dict'[s] = s BY <1>5
    <3>5. s \notin read => s \notin DOMAIN file \/ DOMAIN file[s] = {} BY DEF Configured
    <3>6. CASE s = "rteval"
      BY <1>9, <1>10, <3>3, <3>4, <3>5, <3>6 DEF Default, FileOption, BuiltIn
    <3>7. CASE s # "rteval" /\ s \in read
      BY <1>7, <3>1, <3>3, <3>4, <3>7 DEF Default, FileOption, BuiltIn
    <3>8. CASE s # "rteval" /\ s \notin read
      BY <3>3, <3>5, <3>8 DEF Default, FileOption, BuiltIn
    <3>9. QED BY <3>6, <3>7, <3>8
  <2>2. QED BY <1>1, <2>1, InputsFix DEF OptionInv, Merged
<1>18. StartInv' BY <1>1, InputsFix DEF IInv, StartInv, Settled
<1>19. QED BY <1>11, <1>12, <1>13, <1>14, <1>16, <1>17, <1>18 DEF IInv

(* A group that is not configured gets all its modules; measurement only   *)
(* if loads is not configured either.                                      *)
AllModules(g) == [m \in ModsOf(g) |-> "module"]

LEMMA AppendEffect ==
  ASSUME IInv, AppendDefaults
  PROVE  /\ DOMAIN heap' = DictIds
         /\ DOMAIN dict' = DOMAIN dict \cup {"loads"}
                              \cup (IF "loads" \in DOMAIN dict THEN {} ELSE {"measurement"})
         /\ \A s \in DOMAIN dict : dict'[s] = dict[s]
         /\ \A d \in DictIds : d \in DOMAIN dict \/ d \notin DOMAIN dict' => heap'[d] = heap[d]
         /\ \A g \in DOMAIN dict' \ DOMAIN dict : dict'[g] = g /\ heap'[g] = AllModules(g)
<1> DEFINE L == Updated(dict, Entry("loads", "loads"))
           HL == [heap EXCEPT !["loads"] = AllModules("loads")]
           M == Updated(L, Entry("measurement", "measurement"))
           HM == [HL EXCEPT !["measurement"] = AllModules("measurement")]
           one == UpdateSection(Config, "loads", "loads", AllModules("loads"))
           two == UpdateSection(one, "measurement", "measurement", AllModules("measurement"))
<1>1. DOMAIN heap = DictIds BY DEF IInv, TypeOK
<1>2. DOMAIN AllModules("loads") # {} /\ DOMAIN AllModules("measurement") # {}
  BY DEF AllModules, ModsOf, LoadMods, MeasureMods
<1>3. "loads" \in DictIds /\ "measurement" \in DictIds /\ "loads" # "measurement"
  BY DEF DictIds, Sections, Groups
<1>4. Set(IF "loads" \in DOMAIN dict THEN Config
          ELSE IF "measurement" \in DOMAIN dict THEN one ELSE two)
  BY DEF AppendDefaults, AllModules
<1>5. CASE "loads" \in DOMAIN dict
  <2>1. dict' = dict /\ heap' = heap BY <1>4, <1>5 DEF Set, Config
  <2>2. QED BY <1>1, <1>5, <2>1
<1>6. ASSUME "loads" \notin DOMAIN dict PROVE one = [dict |-> L, heap |-> HL]
  BY <1>2, <1>6, UpdateSectionIs DEF Config
<1>7. DOMAIN L = DOMAIN dict \cup {"loads"} /\ L["loads"] = "loads"
      /\ \A s \in DOMAIN dict \ {"loads"} : L[s] = dict[s]
  BY DEF Updated, Entry
<1>8. DOMAIN M = DOMAIN L \cup {"measurement"} /\ M["measurement"] = "measurement"
      /\ \A s \in DOMAIN L \ {"measurement"} : M[s] = L[s]
  BY DEF Updated, Entry
<1>9. CASE "loads" \notin DOMAIN dict /\ "measurement" \in DOMAIN dict
  <2>1. dict' = one.dict /\ heap' = one.heap BY <1>4, <1>9 DEF Set
  <2> HIDE DEF L, HL, one
  <2>2. dict' = L /\ heap' = HL BY <1>6, <1>9, <2>1
  <2>3. QED BY <1>1, <1>3, <1>7, <1>9, <2>2 DEF HL
<1>10. CASE "loads" \notin DOMAIN dict /\ "measurement" \notin DOMAIN dict
  <2>1. dict' = two.dict /\ heap' = two.heap BY <1>4, <1>10 DEF Set
  <2> HIDE DEF L, HL, M, HM, one
  <2>2. two = [dict |-> M, heap |-> HM]
    <3>1. "measurement" \notin DOMAIN L BY <1>3, <1>7, <1>10
    <3>2. QED BY <1>2, <1>6, <1>10, <3>1, UpdateSectionIs DEF M, HM
  <2> HIDE DEF two
  <2>3. dict' = M /\ heap' = HM BY <2>1, <2>2
  <2>4. QED BY <1>1, <1>3, <1>7, <1>8, <1>10, <2>3 DEF HL, HM
<1>11. QED BY <1>5, <1>9, <1>10

LEMMA AppendDefaultsKeepsInv == ASSUME IInv, AppendDefaults PROVE IInv'
<1>1. pc = "groups" /\ pc' = "import" /\ UNCHANGED inputs /\ UNCHANGED <<module, place>>
  BY DEF AppendDefaults
<1>2. \A g \in Groups : g \in DOMAIN dict <=> Configured(g) BY <1>1 DEF IInv, GroupInv
<1>3. \A s \in DOMAIN dict : s \in Sections /\ dict[s] = s
  BY <1>1 DEF IInv, TypeOK, DictInv, Settled
<1>4. /\ DOMAIN heap' = DictIds
      /\ DOMAIN dict' = DOMAIN dict \cup {"loads"}
                           \cup (IF "loads" \in DOMAIN dict THEN {} ELSE {"measurement"})
      /\ \A s \in DOMAIN dict' : dict'[s] = s
      /\ \A d \in DictIds : d \in DOMAIN dict \/ d \notin DOMAIN dict' => heap'[d] = heap[d]
      /\ \A g \in DOMAIN dict' \ DOMAIN dict : heap'[g] = AllModules(g)
  BY <1>3, AppendEffect
<1>5. DOMAIN dict' \subseteq Sections BY <1>3, <1>4, Names DEF Groups
<1>6. \A g \in DOMAIN dict' \ DOMAIN dict : g \in Groups BY <1>4 DEF Groups
<1>7. PlaceInv' /\ InputInv' /\ DOMAIN module = {} /\ DOMAIN place = {} /\ ModuleInv'
  BY <1>1, NothingPlaced DEF Early
<1>8. TypeOK'
  <2>1. ASSUME NEW d \in DictIds
        PROVE  /\ DOMAIN heap'[d] \subseteq Keys
               /\ "cpulist" \in DOMAIN heap'[d] => heap'[d].cpulist \in Text
    <3>1. CASE d \in DOMAIN dict \/ d \notin DOMAIN dict'
      <4>1. heap'[d] = heap[d] BY <1>4, <3>1
      <4>2. DOMAIN heap[d] \subseteq Keys /\ ("cpulist" \in DOMAIN heap[d] => heap[d].cpulist \in Text)
        BY DEF IInv, TypeOK
      <4>3. QED BY <4>1, <4>2
    <3>2. CASE d \in DOMAIN dict' \ DOMAIN dict
      <4>1. heap'[d] = AllModules(d) BY <1>4, <3>2
      <4>2. DOMAIN heap'[d] = ModsOf(d) BY <4>1 DEF AllModules
      <4>3. ModsOf(d) \subseteq Keys /\ "cpulist" \notin ModsOf(d)
        BY DEF ModsOf, Keys, Mods, LoadMods, MeasureMods
      <4>4. QED BY <4>2, <4>3
    <3>3. QED BY <3>1, <3>2
  <2>2. QED BY <1>1, <1>4, <1>5, <1>7, <2>1 DEF TypeOK
<1>9. DictInv'
  <2>1. heap'["modparams"] = heap["modparams"] BY <1>4, <1>5, Names
  <2>2. QED BY <1>1, <1>4, <2>1 DEF IInv, DictInv, Settled
<1>10. FreshInv' /\ ListInv' BY <1>1 DEF FreshInv, ListInv, Merged, Settled
<1>11. ASSUME NEW g \in Groups \cap DOMAIN dict' PROVE ModulesIn(g)' = Chosen(g)
  <2>1. g \in DictIds /\ dict'[g] = g BY <1>4, Names
  <2>2. CASE g \in DOMAIN dict
    <3>1. ModulesIn(g) = Chosen(g) BY <1>1, <2>2 DEF IInv, GroupInv
    <3>2. ModulesIn(g)' = ModulesIn(g) BY <1>3, <1>4, <2>1, <2>2 DEF ModulesIn
    <3>3. QED BY <3>1, <3>2
  <2>3. CASE g \notin DOMAIN dict
    <3>1. heap'[g] = AllModules(g) BY <1>4, <2>3
    <3>2. Chosen(g) = ModsOf(g) BY <1>2, <2>3 DEF Chosen
    <3>3. ModsOf(g) \subseteq Mods BY Names
    <3>4. QED BY <2>1, <3>1, <3>2, <3>3 DEF ModulesIn, AllModules
  <2>4. QED BY <2>2, <2>3
<1>12. GroupInv'
  <2>1. "measurement" \in DOMAIN dict' <=> Configured("measurement") \/ ~Configured("loads")
    BY <1>2, <1>4 DEF Groups
  <2>2. QED BY <1>1, <1>4, <1>11, <2>1, InputsFix DEF GroupInv, Imported
<1>13. OptionInv'
  <2>1. ASSUME NEW s \in WithOption PROVE Default(s)' = Default(s)
    <3>1. s \in DictIds /\ s \notin Groups BY Names
    <3>2. s \in DOMAIN dict' <=> s \in DOMAIN dict BY <1>4, <1>6, <3>1
    <3>3. heap'[s] = heap[s] BY <1>4, <3>1, <3>2
    <3>4. s \in DOMAIN dict => dict'[s] = s /\ dict[s] = s BY <1>3, <1>4, <3>2
    <3>5. QED BY <3>2, <3>3, <3>4 DEF Default
  <2>2. QED BY <1>1, <2>1, InputsFix DEF IInv, OptionInv, Merged
<1>14. StartInv' BY <1>1, InputsFix DEF IInv, StartInv, Settled
<1>15. QED BY <1>7, <1>8, <1>9, <1>10, <1>12, <1>13, <1>14 DEF IInv

LEMMA OptionsKeepInv == ASSUME IInv, UpdateFromOptionParser PROVE IInv'
<1> DEFINE set == Offered \cup Groups
<1>1. pc = "parse" /\ pc' = "inverse" /\ UNCHANGED inputs /\ UNCHANGED <<module, place>>
  BY DEF UpdateFromOptionParser
<1>2. /\ dict' = [s \in DOMAIN dict \cup set |-> s]
      /\ DOMAIN heap' = DictIds
      /\ \A s \in DictIds \cap set : heap'[s] = Updated(heap[s], Parsed(s))
      /\ \A s \in DictIds \ set : heap'[s] = heap[s]
  BY DEF UpdateFromOptionParser
<1>3. /\ DOMAIN dict \subseteq Sections
      /\ \A d \in DictIds : /\ DOMAIN heap[d] \subseteq Keys
                            /\ "cpulist" \in DOMAIN heap[d] => heap[d].cpulist \in Text
  BY DEF IInv, TypeOK
<1>4. \A g \in Groups : g \in DOMAIN dict /\ dict[g] = g /\ ModulesIn(g) = Chosen(g)
  BY <1>1, Names DEF IInv, DictInv, GroupInv, Imported, Settled
<1>5. ASSUME NEW s PROVE s \in Offered <=> s \in WithOption /\ (s = "rteval" \/ s \in ChosenMods)
  <2>1. s \in Mods => GroupOf(s) \in Groups /\ (s \in ChosenMods <=> s \in Chosen(GroupOf(s)))
    BY Names, ChosenFacts DEF IInv
  <2>2. ChosenMods \subseteq Mods BY ChosenFacts DEF IInv
  <2>3. QED BY <1>4, <2>1, <2>2, Names DEF Offered
<1>6. set \subseteq Sections BY <1>5, Names
<1>7. ASSUME NEW g \in Groups
      PROVE  /\ DOMAIN heap'[g] = DOMAIN heap[g] \cup {"cpulist"} /\ heap'[g].cpulist = optlist[g]
             /\ \A k \in DOMAIN heap[g] \ {"cpulist"} : heap'[g][k] = heap[g][k]
  <2>1. heap'[g] = Updated(heap[g], Entry("cpulist", optlist[g]))
    BY <1>2, Names DEF Parsed
  <2>2. QED BY <2>1 DEF Updated, Entry
<1>8. ASSUME NEW s \in Offered
      PROVE  /\ DOMAIN heap'[s] = DOMAIN heap[s]
                   \cup (IF s = "rteval" THEN {"option", "logging"} ELSE {"option"})
             /\ heap'[s].option = Precedence(s)
             /\ s = "rteval" => heap'[s].logging = Logging
             /\ \A k \in DOMAIN heap[s] \ {"option", "logging"} : heap'[s][k] = heap[s][k]
  <2>1. s \in DictIds /\ s \notin Groups /\ s \in WithOption BY <1>5, Names
  <2>2. Default(s) = FileOption(s) BY <1>1, <2>1 DEF IInv, OptionInv
  <2>3. Given(s, Default(s)) = Precedence(s) BY <2>2 DEF Given, FileOption, Precedence
  <2>4. /\ DOMAIN Parsed(s) = (IF s = "rteval" THEN {"option", "logging"} ELSE {"option"})
        /\ Parsed(s)["option"] = Precedence(s)
        /\ s = "rteval" => Parsed(s)["logging"] = Logging
    BY <2>1, <2>3 DEF Parsed, Logging
  <2>5. heap'[s] = Updated(heap[s], Parsed(s)) BY <1>2, <2>1
  <2> DEFINE p == Parsed(s)
             old == heap[s]
  <2>6. heap'[s] = Updated(old, p) BY <2>5
  <2>7. DOMAIN p = (IF s = "rteval" THEN {"option", "logging"} ELSE {"option"}) BY <2>4
  <2>8. p["option"] = Precedence(s) /\ (s = "rteval" => p["logging"] = Logging) BY <2>4
  <2> HIDE DEF p, old
  <2>9. /\ DOMAIN heap'[s] = DOMAIN old \cup DOMAIN p
        /\ \A k \in DOMAIN p : heap'[s][k] = p[k]
        /\ \A k \in DOMAIN old \ DOMAIN p : heap'[s][k] = old[k]
    BY <2>6 DEF Updated
  <2>10. QED BY <2>7, <2>8, <2>9 DEF old
<1>9. PlaceInv' /\ InputInv' /\ DOMAIN module = {} /\ DOMAIN place = {} /\ ModuleInv'
  BY <1>1, NothingPlaced DEF Early
<1>10. TypeOK'
  <2>1. DOMAIN dict' \subseteq Sections /\ \A s \in DOMAIN dict' : dict'[s] \in {s, "modparams"}
    BY <1>2, <1>3, <1>6
  <2>2. ASSUME NEW d \in DictIds
        PROVE  /\ DOMAIN heap'[d] \subseteq Keys
               /\ "cpulist" \in DOMAIN heap'[d] => heap'[d].cpulist \in Text
    <3>1. CASE d \in Groups
      <4>1. optlist[d] \in Text BY <3>1, InputFacts DEF IInv
      <4>2. QED BY <1>3, <1>7, <3>1, <4>1 DEF Keys
    <3>2. CASE d \in Offered
      <4>1. DOMAIN heap'[d] \subseteq Keys BY <1>3, <1>8, <3>2 DEF Keys
      <4>2. "cpulist" \in DOMAIN heap'[d] =>
              "cpulist" \in DOMAIN heap[d] /\ heap'[d].cpulist = heap[d].cpulist
        BY <1>8, <3>2
      <4>3. QED BY <1>3, <4>1, <4>2
    <3>3. CASE d \notin set
      <4>1. heap'[d] = heap[d] BY <1>2, <3>3
      <4>2. QED BY <1>3, <4>1
    <3>4. QED BY <3>1, <3>2, <3>3
  <2>3. QED BY <1>1, <1>2, <1>9, <2>1, <2>2 DEF TypeOK
<1>11. DictInv'
  <2>1. heap'["modparams"] = heap["modparams"] BY <1>2, <1>6, Names
  <2>2. QED BY <1>2, <2>1 DEF IInv, DictInv
<1>12. FreshInv' BY <1>1 DEF FreshInv
<1>13. GroupInv'
  <2>1. ASSUME NEW g \in Groups PROVE ModulesIn(g)' = Chosen(g)
    <3>1. dict'[g] = g /\ dict[g] = g BY <1>2, <1>4
    <3>2. "cpulist" \notin Mods BY DEF Mods, LoadMods, MeasureMods
    <3>3. ModulesIn(g)' = ModulesIn(g) BY <1>7, <3>1, <3>2 DEF ModulesIn
    <3>4. QED BY <1>4, <3>3
  <2>2. Groups \subseteq DOMAIN dict' BY <1>2
  <2>3. Configured("loads") => Configured("measurement")
    BY <1>1 DEF IInv, GroupInv, Imported
  <2>4. QED BY <1>1, <2>1, <2>2, <2>3, InputsFix DEF GroupInv
<1>14. OptionInv'
  <2>1. ASSUME NEW s \in WithOption, s = "rteval" \/ s \in ChosenMods
        PROVE  s \in DOMAIN dict' /\ "option" \in DOMAIN heap'[s] /\ heap'[s].option = Precedence(s)
    BY <1>2, <1>5, <1>8, <2>1
  <2>2. "rteval" \in Offered BY <1>5, Names
  <2>3. "logging" \in DOMAIN heap'["rteval"] /\ heap'["rteval"].logging = Logging
    BY <1>8, <2>2
  <2>4. QED BY <1>1, <2>1, <2>3, InputsFix DEF OptionInv
<1>15. ListInv' BY <1>1, <1>7, InputsFix DEF ListInv, Settled
<1>16. StartInv' BY <1>1, InputsFix DEF IInv, StartInv, Settled
<1>17. QED BY <1>9, <1>10, <1>11, <1>12, <1>13, <1>14, <1>15, <1>16 DEF IInv

LEMMA DeriveKeepsInv == ASSUME IInv, DeriveLists PROVE IInv'
<1>1. pc = "inverse" /\ pc' = "loads" /\ UNCHANGED inputs /\ dict' = dict
      /\ UNCHANGED <<module, place>> /\ DOMAIN heap' = DictIds
  BY DEF DeriveLists
<1>2. \A s \in DictIds \ Groups : heap'[s] = heap[s] BY DEF DeriveLists
<1>3. ASSUME NEW g \in Groups
      PROVE  /\ "cpulist" \in DOMAIN heap[g] /\ DOMAIN heap'[g] = DOMAIN heap[g]
             /\ heap'[g].cpulist = Final(g)
             /\ \A k \in DOMAIN heap[g] \ {"cpulist"} : heap'[g][k] = heap[g][k]
  <2>1. g \in DictIds /\ Other(g) \in Groups BY Names DEF Other, Groups
  <2>2. "cpulist" \in DOMAIN heap[g] /\ heap[g].cpulist = optlist[g]
    BY <1>1 DEF IInv, ListInv, Merged
  <2>3. \A h \in Groups : Derived(g, h) <=> h = Other(g) /\ optlist[g] = {} /\ optlist[h] # {}
    BY <1>1, DerivedGiven
  <2>4. CASE optlist[g] = {} /\ optlist[Other(g)] # {}
    <3>1. Derived(g, Other(g)) BY <2>1, <2>3, <2>4
    <3>2. (CHOOSE h \in Groups : Derived(g, h)) = Other(g) BY <2>1, <2>3, <3>1
    <3>3. Cpulist(Other(g)) = optlist[Other(g)] BY <1>1, <2>1, CpulistOfGroup DEF Merged
    <3>4. compress_cpulist(Inverse(Other(g))) = Final(g) BY <2>4, <3>3 DEF Inverse, Final
    <3>5. heap'[g] = Updated(heap[g], Entry("cpulist", Final(g)))
      BY <2>1, <3>1, <3>2, <3>4 DEF DeriveLists
    <3>6. QED BY <2>2, <3>5 DEF Updated, Entry
  <2>5. CASE ~(optlist[g] = {} /\ optlist[Other(g)] # {})
    <3>1. \A h \in Groups : ~Derived(g, h) BY <2>3, <2>5
    <3>2. heap'[g] = heap[g] BY <2>1, <3>1 DEF DeriveLists
    <3>3. Final(g) = optlist[g] BY <2>5 DEF Final
    <3>4. QED BY <2>2, <3>2, <3>3
  <2>6. QED BY <2>4, <2>5
<1>4. PlaceInv' /\ InputInv' /\ DOMAIN module = {} /\ DOMAIN place = {} /\ ModuleInv'
  BY <1>1, NothingPlaced DEF Early, Settled
<1>5. TypeOK'
  <2>1. ASSUME NEW d \in DictIds
        PROVE  /\ DOMAIN heap'[d] \subseteq Keys
               /\ "cpulist" \in DOMAIN heap'[d] => heap'[d].cpulist \in Text
    <3>1. DOMAIN heap[d] \subseteq Keys /\ ("cpulist" \in DOMAIN heap[d] => heap[d].cpulist \in Text)
      BY DEF IInv, TypeOK
    <3>2. CASE d \in Groups
      <4>1. Final(d) \in Text BY <3>2, InputFacts DEF IInv
      <4>2. QED BY <1>3, <3>1, <3>2, <4>1
    <3>3. CASE d \notin Groups
      <4>1. heap'[d] = heap[d] BY <1>2, <3>3
      <4>2. QED BY <3>1, <4>1
    <3>4. QED BY <3>2, <3>3
  <2>2. QED BY <1>1, <1>4, <2>1 DEF IInv, TypeOK
<1>6. DictInv'
  <2>1. heap'["modparams"] = heap["modparams"] BY <1>2, Names
  <2>2. QED BY <1>1, <2>1 DEF IInv, DictInv, Settled
<1>7. FreshInv' BY <1>1 DEF FreshInv
<1>8. GroupInv'
  <2>1. ASSUME NEW g \in Groups PROVE ModulesIn(g)' = Chosen(g)
    <3>1. dict[g] = g BY <1>1, CpulistOfGroup DEF Merged
    <3>2. "cpulist" \notin Mods BY DEF Mods, LoadMods, MeasureMods
    <3>3. ModulesIn(g)' = ModulesIn(g) BY <1>1, <1>3, <3>1, <3>2 DEF ModulesIn
    <3>4. g \in DOMAIN dict BY <1>1, CpulistOfGroup DEF Merged
    <3>5. QED BY <1>1, <3>3, <3>4 DEF IInv, GroupInv, Imported
  <2>2. QED BY <1>1, <2>1, InputsFix DEF IInv, GroupInv, Imported
<1>9. OptionInv'
  <2>1. ASSUME NEW s \in WithOption PROVE heap'[s] = heap[s] BY <1>2, Names
  <2>2. heap'["rteval"] = heap["rteval"] BY <2>1 DEF WithOption
  <2>3. QED BY <1>1, <2>1, <2>2, InputsFix DEF IInv, OptionInv, Merged
<1>10. ListInv' BY <1>1, <1>3, InputsFix DEF ListInv, Merged, Settled
<1>11. OneListGiven => invert_cpulist(machine, GivenList) # {}
  <2>1. SUFFICES ASSUME OneListGiven PROVE invert_cpulist(machine, GivenList) # {} OBVIOUS
  <2>2. PICK g \in Groups : optlist[g] = {} /\ optlist[Other(g)] # {} /\ Other(g) \in Groups
    BY <2>1 DEF OneListGiven, Groups, Other
  <2>3. Derived(g, Other(g)) BY <1>1, <2>2, DerivedGiven
  <2>4. Compressible(Inverse(Other(g))) BY <2>2, <2>3 DEF DeriveLists
  <2>5. Cpulist(Other(g)) = optlist[Other(g)] BY <1>1, <2>2, CpulistOfGroup DEF Merged
  <2>6. QED BY <2>2, <2>4, <2>5, GivenIs DEF Compressible, Inverse
<1>12. StartInv' BY <1>1, <1>11, InputsFix DEF IInv, StartInv, Settled
<1>13. QED BY <1>4, <1>5, <1>6, <1>7, <1>8, <1>9, <1>10, <1>12 DEF IInv

-----------------------------------------------------------------------------
(* Setup of a module: which dict it writes, and what it leaves there.      *)
Written(m) == IF m \in DOMAIN dict THEN dict[m] ELSE "modparams"

LEMMA SetUpEffect ==
  ASSUME IInv, NEW g, NEW m \in Mods, Set(SetUp(g, m))
  PROVE  LET e == Written(m) IN
         /\ DOMAIN dict' = DOMAIN dict \cup {m} /\ dict'[m] = e
         /\ \A s \in DOMAIN dict : dict'[s] = dict[s]
         /\ DOMAIN heap' = DictIds /\ \A d \in DictIds \ {e} : heap'[d] = heap[d]
         /\ "cpulist" \in DOMAIN heap'[e] /\ heap'[e].cpulist = Cpulist(g)
         /\ DOMAIN heap'[e] \subseteq (IF m \in DOMAIN dict THEN DOMAIN heap[e] ELSE {})
              \cup {"reportdir", "cpulist"} \cup (IF m = "cyclictest" THEN {"option"} ELSE {})
         /\ m \in DOMAIN dict /\ "option" \in DOMAIN heap[e] =>
              "option" \in DOMAIN heap'[e] /\ heap'[e].option = heap[e].option
<1> DEFINE e   == Written(m)
           old == IF m \in DOMAIN dict THEN heap[e] ELSE Empty
           D   == IF m \in DOMAIN dict THEN dict ELSE Updated(dict, Entry(m, "modparams"))
           c1  == IF m \in DOMAIN dict THEN Updated(old, Params) ELSE Params
           c2  == Updated(c1, Entry("cpulist", Cpulist(g)))
           c3  == IF m \in LoadMods THEN SetDefault(c2, "cpulist", {})
                  ELSE IF m = "cyclictest" THEN SetDefault(c2, "option", "built-in") ELSE c2
           H1  == [heap EXCEPT ![e] = c1]
           H2  == [H1 EXCEPT ![e] = c2]
           H3  == [H2 EXCEPT ![e] = c3]
           one == UpdateSection(Config, m, "modparams", Params)
           two == UpdateSection(one, m, m, Entry("cpulist", Cpulist(g)))
           three == Constructed(two, m)
<1>1. DOMAIN heap = DictIds /\ e \in DictIds
  <2>1. m \in DOMAIN dict => dict[m] \in {m, "modparams"} BY DEF IInv, TypeOK
  <2>2. QED BY <2>1, Names DEF IInv, TypeOK, Written
<1>2. DOMAIN Params # {} /\ DOMAIN Params \subseteq {"reportdir", "cpulist"}
  <2>1. DOMAIN heap["modparams"] \subseteq {"reportdir", "cpulist"} BY DEF IInv, DictInv
  <2>2. DOMAIN ModParams = {"reportdir"} BY DEF ModParams, Entry
  <2>3. QED BY <2>1, <2>2 DEF Params
<1>3. m \in DOMAIN D /\ D[m] = e /\ DOMAIN D = DOMAIN dict \cup {m}
      /\ \A s \in DOMAIN dict : D[s] = dict[s]
  BY DEF Written, Updated, Entry
<1>4. one = [dict |-> D, heap |-> H1]
  <2>1. CASE m \in DOMAIN dict
    <3>1. one = [dict |-> dict, heap |-> [heap EXCEPT ![dict[m]] = Updated(@, Params)]]
      BY <1>2, <2>1, UpdateSectionIs DEF Config
    <3>2. QED BY <2>1, <3>1 DEF Written
  <2>2. CASE m \notin DOMAIN dict
    <3>1. one = [dict |-> Updated(dict, Entry(m, "modparams")),
                 heap |-> [heap EXCEPT !["modparams"] = Params]]
      BY <1>2, <2>2, UpdateSectionIs DEF Config
    <3>2. QED BY <2>2, <3>1 DEF Written
  <2>3. QED BY <2>1, <2>2
<1>5. two = [dict |-> D, heap |-> H2]
  <2>1. DOMAIN Entry("cpulist", Cpulist(g)) # {} BY DEF Entry
  <2>2. H1[e] = c1 BY <1>1
  <2> HIDE DEF one, D, H1, e, c1
  <2>3. two = [dict |-> D, heap |-> [H1 EXCEPT ![D[m]] = Updated(@, Entry("cpulist", Cpulist(g)))]]
    BY <1>3, <1>4, <2>1, UpdateSectionIs
  <2>4. QED BY <1>3, <2>2, <2>3
<1>6. three = [dict |-> D, heap |-> H3]
  <2>1. H2[e] = c2 /\ H2 = [H2 EXCEPT ![e] = c2] BY <1>1
  <2> HIDE DEF two, D, H2, c2, e
  <2>2. two.dict = D /\ two.heap = H2 BY <1>5
  <2>3. CASE m \in LoadMods
    <3>1. three = [two EXCEPT !.heap[two.dict[m]] = SetDefault(@, "cpulist", {})]
      BY <2>3 DEF Constructed
    <3>2. QED BY <1>3, <1>5, <2>1, <2>2, <2>3, <3>1
  <2>4. CASE m \notin LoadMods /\ m = "cyclictest"
    <3>1. three = [two EXCEPT !.heap[two.dict[m]] = SetDefault(@, "option", "built-in")]
      BY <2>4 DEF Constructed
    <3>2. QED BY <1>3, <1>5, <2>1, <2>2, <2>4, <3>1
  <2>5. CASE m \notin LoadMods /\ m # "cyclictest"
    BY <1>5, <2>1, <2>5 DEF Constructed
  <2>6. QED BY <2>3, <2>4, <2>5
<1>7. dict' = D /\ heap' = H3
  <2>1. dict' = three.dict /\ heap' = three.heap BY DEF Set, SetUp
  <2> HIDE DEF three, D, H3
  <2>2. QED BY <1>6, <2>1
<1>8. DOMAIN H3 = DictIds /\ H3[e] = c3 /\ \A d \in DictIds \ {e} : H3[d] = heap[d]
  <2> HIDE DEF e, c1, c2, c3
  <2>1. QED BY <1>1
<1>9. /\ DOMAIN c2 = DOMAIN old \cup DOMAIN Params \cup {"cpulist"}
      /\ c2.cpulist = Cpulist(g)
      /\ "option" \in DOMAIN old => c2.option = old.option
  <2>1. "option" \notin DOMAIN Params BY <1>2
  <2>2. DOMAIN c1 = DOMAIN old \cup DOMAIN Params BY DEF Updated, Empty
  <2>3. "option" \in DOMAIN old => c1["option"] = old["option"] BY <2>1 DEF Updated, Empty
  <2> HIDE DEF c1, old
  <2>4. QED BY <2>2, <2>3 DEF Updated, Entry
<1>10. /\ "cpulist" \in DOMAIN c3 /\ c3.cpulist = Cpulist(g)
       /\ DOMAIN c3 = DOMAIN c2 \cup (IF m = "cyclictest" THEN {"option"} ELSE {})
       /\ "option" \in DOMAIN old => "option" \in DOMAIN c3 /\ c3.option = old.option
  <2>1. "cyclictest" \notin LoadMods BY DEF LoadMods
  <2> HIDE DEF c2, old
  <2>2. CASE m \in LoadMods BY <1>9, <2>1, <2>2 DEF SetDefault, Updated, Entry
  <2>3. CASE m \notin LoadMods /\ m = "cyclictest" BY <1>9, <2>3 DEF SetDefault, Updated, Entry
  <2>4. CASE m \notin LoadMods /\ m # "cyclictest" BY <1>9, <2>4
  <2>5. QED BY <2>2, <2>3, <2>4
<1>11. DOMAIN old = (IF m \in DOMAIN dict THEN DOMAIN heap[e] ELSE {})
       /\ (m \in DOMAIN dict => old = heap[e])
  BY DEF Empty
<1> HIDE DEF e, old, D, c1, c2, c3, H1, H2, H3
<1>12. QED BY <1>2, <1>3, <1>7, <1>8, <1>9, <1>10, <1>11 DEF e

(* A module is set up once, in its own dict, or sysstat in the shared one; *)
(* the modules set up before it keep what they were given.                 *)
LEMMA SetupModuleKeepsInv ==
  ASSUME IInv, NEW g \in Groups, NEW m \in Mods, SetupModule(g, m)
  PROVE  IInv'
<1> DEFINE e == Written(m)
<1>1. /\ pc = g /\ pc' = pc /\ UNCHANGED inputs /\ place' = place
      /\ Set(SetUp(g, m)) /\ module' = Updated(module, Entry(m, Cpulist(g)))
      /\ m \in ModulesIn(g) /\ m \notin DOMAIN module /\ ~InstantiateFails(m, Cpulist(g))
  BY DEF SetupModule, Missing
<1>2. pc \in Settled /\ pc \in Merged /\ pc \in Imported /\ pc # "ready" /\ pc # "failed"
      /\ pc \notin Early
  BY <1>1 DEF Groups, Settled, Merged, Imported, Early
<1>3. Cpulist(g) = Final(g) /\ dict[g] = g BY <1>2, CpulistOfGroup
<1>4. m \in Chosen(g) BY <1>1, <1>2, CpulistOfGroup DEF IInv, GroupInv
<1>5. m \in ChosenMods /\ GroupOf(m) = g BY <1>4, ChosenFacts DEF IInv
<1>6. /\ DOMAIN dict' = DOMAIN dict \cup {m} /\ dict'[m] = e
      /\ \A s \in DOMAIN dict : dict'[s] = dict[s]
      /\ DOMAIN heap' = DictIds /\ \A d \in DictIds \ {e} : heap'[d] = heap[d]
      /\ "cpulist" \in DOMAIN heap'[e] /\ heap'[e].cpulist = Final(g)
      /\ DOMAIN heap'[e] \subseteq (IF m \in DOMAIN dict THEN DOMAIN heap[e] ELSE {})
           \cup {"reportdir", "cpulist"} \cup (IF m = "cyclictest" THEN {"option"} ELSE {})
      /\ m \in DOMAIN dict /\ "option" \in DOMAIN heap[e] =>
           "option" \in DOMAIN heap'[e] /\ heap'[e].option = heap[e].option
  BY <1>1, <1>3, SetUpEffect
<1>7. /\ m \in WithOption => m \in DOMAIN dict
      /\ e = m \/ (m = "sysstat" /\ e = "modparams")
  <2>1. m \in WithOption => m \in DOMAIN dict BY <1>2, <1>5 DEF IInv, OptionInv
  <2>2. \A s \in DOMAIN dict : dict[s] = s \/ (s = "sysstat" /\ dict[s] = "modparams")
    BY DEF IInv, DictInv
  <2>3. QED BY <2>1, <2>2, Names DEF Written
<1> HIDE DEF e
<1>8. /\ DOMAIN module' = DOMAIN module \cup {m} /\ module'[m] = Final(g)
      /\ \A k \in DOMAIN module : module'[k] = module[k]
  BY <1>1, <1>3 DEF Updated, Entry
<1>9. Final(g) \in Text BY InputFacts DEF IInv
<1>10. e \notin Groups /\ e \in DictIds /\ m \in Sections BY <1>7, Names
<1>11. \A h \in Groups : h \in DictIds /\ heap'[h] = heap[h] BY <1>6, <1>10, Names
<1>12. TypeOK'
  <2>1. DOMAIN dict' \subseteq Sections /\ \A s \in DOMAIN dict' : dict'[s] \in {s, "modparams"}
    BY <1>6, <1>7, <1>10 DEF IInv, TypeOK
  <2>2. ASSUME NEW d \in DictIds
        PROVE  /\ DOMAIN heap'[d] \subseteq Keys
               /\ "cpulist" \in DOMAIN heap'[d] => heap'[d].cpulist \in Text
    <3>1. DOMAIN heap[d] \subseteq Keys /\ ("cpulist" \in DOMAIN heap[d] => heap[d].cpulist \in Text)
      BY DEF IInv, TypeOK
    <3>2. CASE d = e BY <1>6, <1>9, <3>1, <3>2 DEF Keys
    <3>3. CASE d # e
      <4>1. heap'[d] = heap[d] BY <1>6, <3>3
      <4>2. QED BY <3>1, <4>1
    <3>4. QED BY <3>2, <3>3
  <2>3. DOMAIN place = {} BY <1>2 DEF IInv, PlaceInv
  <2>4. \A k \in DOMAIN module' : module'[k] \in Text BY <1>8, <1>9 DEF IInv, TypeOK
  <2>5. QED BY <1>1, <1>6, <2>1, <2>2, <2>3, <2>4 DEF IInv, TypeOK
<1>13. InputInv' BY <1>1, InputsFix DEF IInv
<1>14. DictInv'
  <2>1. DOMAIN heap'["modparams"] \subseteq {"reportdir", "cpulist"}
    <3>1. DOMAIN heap["modparams"] \subseteq {"reportdir", "cpulist"} BY DEF IInv, DictInv
    <3>2. CASE e = "modparams"
      <4>1. m # "cyclictest" BY <1>7, <1>10, <3>2, Names
      <4>2. QED BY <1>6, <3>1, <3>2, <4>1
    <3>3. CASE e # "modparams" BY <1>6, <3>1, <3>3, Names
    <3>4. QED BY <3>2, <3>3
  <2>2. \A s \in DOMAIN dict' : dict'[s] = s \/ (s = "sysstat" /\ dict'[s] = "modparams")
    BY <1>6, <1>7 DEF IInv, DictInv
  <2>3. QED BY <1>1, <1>2, <2>1, <2>2 DEF DictInv
<1>15. FreshInv' BY <1>1, <1>2 DEF FreshInv, Settled
<1>16. GroupInv'
  <2>1. ASSUME NEW h \in Groups PROVE h \in DOMAIN dict' /\ ModulesIn(h)' = Chosen(h)
    <3>1. h \in DOMAIN dict /\ dict[h] = h BY <1>2, CpulistOfGroup
    <3>2. dict'[h] = h BY <1>6, <3>1
    <3>3. ModulesIn(h)' = ModulesIn(h) BY <1>11, <3>1, <3>2 DEF ModulesIn
    <3>4. QED BY <1>2, <1>6, <3>1, <3>3 DEF IInv, GroupInv
  <2>2. Configured("loads") => Configured("measurement") BY <1>2 DEF IInv, GroupInv
  <2>3. QED BY <1>1, <1>2, <2>1, <2>2, InputsFix DEF GroupInv, Settled
<1>17. OptionInv'
  <2>1. ASSUME NEW s \in WithOption, s = "rteval" \/ s \in ChosenMods
        PROVE  s \in DOMAIN dict' /\ "option" \in DOMAIN heap'[s] /\ heap'[s].option = Precedence(s)
    <3>1. s \in DOMAIN dict /\ "option" \in DOMAIN heap[s] /\ heap[s].option = Precedence(s)
      BY <1>2, <2>1 DEF IInv, OptionInv
    <3>2. s \in DictIds /\ s # "modparams" BY Names
    <3>3. CASE s = e
      <4>1. s = m BY <1>7, <3>2, <3>3
      <4>2. QED BY <1>6, <3>1, <3>3, <4>1
    <3>4. CASE s # e BY <1>6, <3>1, <3>2, <3>4
    <3>5. QED BY <3>3, <3>4
  <2>2. "logging" \in DOMAIN heap'["rteval"] /\ heap'["rteval"].logging = Logging
    <3>1. "rteval" \in DictIds /\ "rteval" # e BY <1>7, Names
    <3>2. QED BY <1>2, <1>6, <3>1 DEF IInv, OptionInv
  <2>3. QED BY <1>1, <1>2, <2>1, <2>2, InputsFix DEF OptionInv, Settled
<1>18. ListInv'
  <2>1. \A h \in Groups : "cpulist" \in DOMAIN heap[h] /\ heap[h].cpulist = Final(h)
    BY <1>2 DEF IInv, ListInv
  <2>2. QED BY <1>1, <1>2, <1>11, <2>1, InputsFix DEF ListInv, Settled
<1>19. ModuleInv'
  <2>1. ASSUME NEW k \in DOMAIN module'
        PROVE  /\ k \in DOMAIN dict' /\ "cpulist" \in DOMAIN heap'[dict'[k]]
               /\ heap'[dict'[k]].cpulist = Final(GroupOf(k)) /\ module'[k] = Final(GroupOf(k))
    <3>1. CASE k = m BY <1>5, <1>6, <1>8, <3>1
    <3>2. CASE k # m
      <4>1. k \in DOMAIN module BY <1>8, <3>2
      <4>2. /\ k \in DOMAIN dict /\ "cpulist" \in DOMAIN heap[dict[k]]
            /\ heap[dict[k]].cpulist = Final(GroupOf(k)) /\ module[k] = Final(GroupOf(k))
        BY <1>2, <4>1 DEF IInv, ModuleInv
      <4>3. dict[k] = k \/ (k = "sysstat" /\ dict[k] = "modparams")
        BY <4>2 DEF IInv, DictInv
      <4>4. k \in Sections BY <4>2 DEF IInv, TypeOK
      <4>5. dict[k] # e /\ dict[k] \in DictIds BY <1>7, <1>10, <3>2, <4>3, <4>4, Names
      <4>6. heap'[dict[k]] = heap[dict[k]] BY <1>6, <4>5
      <4>7. dict'[k] = dict[k] /\ module'[k] = module[k] BY <1>6, <1>8, <4>1, <4>2
      <4>8. QED BY <1>6, <4>2, <4>6, <4>7
    <3>3. QED BY <3>1, <3>2
  <2>2. "cyclictest" \in DOMAIN module' => ~CyclictestFails(machine, Final("measurement"))
    <3>1. CASE m = "cyclictest"
      <4>1. g = "measurement" BY <1>5, <3>1 DEF GroupOf, LoadMods
      <4>2. QED BY <1>1, <1>3, <3>1, <4>1 DEF InstantiateFails
    <3>2. CASE m # "cyclictest" BY <1>2, <1>8, <3>2 DEF IInv, ModuleInv
    <3>3. QED BY <3>1, <3>2
  <2>3. DOMAIN module' \subseteq ChosenMods BY <1>5, <1>8 DEF IInv, ModuleInv
  <2>4. pc = "measurement" => Chosen("loads") \subseteq DOMAIN module'
    BY <1>8 DEF IInv, ModuleInv
  <2>5. QED BY <1>1, <1>2, <2>1, <2>2, <2>3, <2>4, InputsFix DEF ModuleInv
<1>20. PlaceInv' BY <1>1, <1>2 DEF IInv, PlaceInv
<1>21. StartInv' BY <1>1, <1>2, InputsFix DEF IInv, StartInv
<1>22. QED
  BY <1>12, <1>13, <1>14, <1>15, <1>16, <1>17, <1>18, <1>19, <1>20, <1>21 DEF IInv

LEMMA SetupDoneKeepsInv ==
  ASSUME IInv, NEW g \in Groups, SetupDone(g)
  PROVE  IInv'
<1>1. /\ pc = g /\ pc' = (IF g = "loads" THEN "measurement" ELSE "ready")
      /\ Missing(g) = {} /\ UNCHANGED inputs
      /\ dict' = dict /\ heap' = heap /\ module' = module /\ place' = place
  BY DEF SetupDone
<1>2. /\ pc \in Settled /\ pc \in Merged /\ pc \in Imported /\ pc # "failed" /\ pc # "ready"
      /\ pc' \in Settled /\ pc' \in Merged /\ pc' \in Imported /\ pc' # "failed"
      /\ pc' \in {"measurement", "ready"}
      /\ pc' \notin {"start", "load", "groups", "import", "parse", "inverse"}
  BY <1>1 DEF Groups, Settled, Merged, Imported
<1>3. Chosen(g) \subseteq DOMAIN module
  <2>1. g \in DOMAIN dict BY <1>2, CpulistOfGroup
  <2>2. ModulesIn(g) = Chosen(g) BY <1>2, <2>1 DEF IInv, GroupInv
  <2>3. QED BY <1>1, <2>2 DEF Missing
<1>4. TypeOK' BY <1>1, <1>2 DEF IInv, TypeOK
<1>5. InputInv' BY <1>1, InputsFix DEF IInv
<1>6. DictInv' BY <1>1, <1>2 DEF IInv, DictInv
<1>7. FreshInv' BY <1>2 DEF FreshInv
<1>8. GroupInv'
  <2>1. \A h : ModulesIn(h)' = ModulesIn(h) BY <1>1 DEF ModulesIn
  <2>2. QED BY <1>1, <1>2, <2>1, InputsFix DEF IInv, GroupInv
<1>9. OptionInv' BY <1>1, <1>2, InputsFix DEF IInv, OptionInv
<1>10. ListInv' BY <1>1, <1>2, InputsFix DEF IInv, ListInv
<1>11. ModuleInv'
  <2>1. pc' = "measurement" => Chosen("loads") \subseteq DOMAIN module
    BY <1>1, <1>3
  <2>2. pc' = "ready" => ChosenMods \subseteq DOMAIN module
    BY <1>1, <1>3 DEF IInv, ModuleInv, ChosenMods, Groups
  <2>3. QED BY <1>1, <1>2, <2>1, <2>2, InputsFix DEF IInv, ModuleInv
<1>12. PlaceInv'
  <2>1. DOMAIN place = {} BY <1>2 DEF IInv, PlaceInv
  <2>2. QED BY <1>1, <2>1 DEF PlaceInv
<1>13. StartInv' BY <1>1, <1>2, InputsFix DEF IInv, StartInv, Settled
<1>14. QED
  BY <1>4, <1>5, <1>6, <1>7, <1>8, <1>9, <1>10, <1>11, <1>12, <1>13 DEF IInv

(* Wherever a load is put, it is on cpus the machine may have.             *)
LEMMA PlacedOnCpus ==
  ASSUME IInv, NEW m \in LoadMods
  PROVE  Placed(m) \subseteq Cpus
<1>1. online_cpus(machine) \subseteq Cpus BY InputFacts, OnlineIsPossible DEF IInv
<1>2. ASSUME NEW text PROVE OnUsable(machine, text) \subseteq Cpus
  <2>1. ASSUME NEW n \in DOMAIN machine.node PROVE getcpus(machine, n) \subseteq Cpus
    <3>1. machine.node[n] \in Text BY InputFacts DEF IInv, SaneMachine
    <3>2. \A range \in machine.node[n] : range[1] \in Cpus /\ range[2] \in Cpus
      BY <3>1 DEF Text
    <3>3. \A range \in machine.node[n] : range[1]..range[2] \subseteq Cpus
      BY <3>2, MaxCpuAssumption DEF Cpus
    <3>4. QED BY <3>3 DEF getcpus, CpuList, online_cpulist, expanded
  <2>2. QED BY <2>1 DEF OnUsable, UsableNodes, NodeCpus, getnodes
<1>3. CASE m = "kcompile" BY <1>2, <1>3 DEF Placed, KcompilePlace
<1>4. CASE m = "hackbench" BY <1>1, <1>2, <1>4 DEF Placed, HackbenchPlace
<1>5. CASE m = "stressng" BY <1>1, <1>2, <1>5 DEF Placed, StressngPlace
<1>6. QED BY <1>3, <1>4, <1>5 DEF LoadMods

LEMMA WorkloadSetupKeepsInv ==
  ASSUME IInv, NEW m \in LoadMods, WorkloadSetup(m)
  PROVE  IInv'
<1>1. /\ pc = "ready" /\ pc' = "ready" /\ UNCHANGED inputs
      /\ dict' = dict /\ heap' = heap /\ module' = module
      /\ place' = Updated(place, Entry(m, Placed(m)))
      /\ m \in DOMAIN module \cap LoadMods
  BY DEF WorkloadSetup
<1>2. /\ DOMAIN place' = DOMAIN place \cup {m} /\ place'[m] = Placed(m)
      /\ \A k \in DOMAIN place \ {m} : place'[k] = place[k]
  BY <1>1 DEF Updated, Entry
<1>3. TypeOK' BY <1>1, <1>2, PlacedOnCpus DEF IInv, TypeOK
<1>4. InputInv' BY <1>1, InputsFix DEF IInv
<1>5. DictInv' /\ FreshInv' BY <1>1 DEF IInv, DictInv, FreshInv
<1>6. GroupInv'
  <2>1. \A h : ModulesIn(h)' = ModulesIn(h) BY <1>1 DEF ModulesIn
  <2>2. QED BY <1>1, <2>1, InputsFix DEF IInv, GroupInv
<1>7. OptionInv' BY <1>1, InputsFix DEF IInv, OptionInv
<1>8. ListInv' BY <1>1, InputsFix DEF IInv, ListInv
<1>9. ModuleInv' BY <1>1, InputsFix DEF IInv, ModuleInv
<1>10. PlaceInv'
  <2>1. \A k : Placed(k)' = Placed(k) BY <1>1, InputsFix DEF Placed
  <2>2. QED BY <1>1, <1>2, <2>1 DEF IInv, PlaceInv
<1>11. StartInv' BY <1>1, InputsFix DEF IInv, StartInv
<1>12. QED BY <1>3, <1>4, <1>5, <1>6, <1>7, <1>8, <1>9, <1>10, <1>11 DEF IInv

-----------------------------------------------------------------------------
LEMMA NextInv == IInv /\ [Next]_vars => IInv'
<1> SUFFICES ASSUME IInv, [Next]_vars PROVE IInv' OBVIOUS
<1>1. CASE Create \/ CreateFails BY <1>1, CreateKeepsInv, CreateFailsKeepsInv
<1>2. CASE LoadNothing \/ Load \/ AppendDefaults
  BY <1>2, LoadNothingKeepsInv, LoadKeepsInv, AppendDefaultsKeepsInv
<1>3. CASE Import \/ ImportFails BY <1>3, ImportKeepsInv, ImportFailsKeepsInv
<1>4. CASE UpdateFromOptionParser BY <1>4, OptionsKeepInv
<1>5. CASE DeriveLists \/ DeriveFails BY <1>5, DeriveKeepsInv, DeriveFailsKeepsInv
<1>6. CASE \E g \in Groups, m \in Mods : SetupModule(g, m) BY <1>6, SetupModuleKeepsInv
<1>7. CASE \E m \in MeasureMods : SetupFails(m) BY <1>7, SetupFailsKeepsInv
<1>8. CASE \E g \in Groups : SetupDone(g) BY <1>8, SetupDoneKeepsInv
<1>9. CASE \E m \in LoadMods : WorkloadSetup(m) BY <1>9, WorkloadSetupKeepsInv
<1>10. CASE UNCHANGED vars
  <2>1. UNCHANGED inputs /\ dict' = dict /\ heap' = heap /\ pc' = pc /\ module' = module
        /\ place' = place
    BY <1>10 DEF vars
  <2>2. TypeOK' /\ DictInv' /\ FreshInv' BY <2>1 DEF IInv, TypeOK, DictInv, FreshInv
  <2>3. InputInv' BY <2>1, InputsFix DEF IInv
  <2>4. \A h : ModulesIn(h)' = ModulesIn(h) /\ Default(h)' = Default(h)
    BY <2>1 DEF ModulesIn, Default
  <2>5. GroupInv' BY <2>1, <2>4, InputsFix DEF IInv, GroupInv
  <2>6. OptionInv' BY <2>1, <2>4, InputsFix DEF IInv, OptionInv
  <2>7. ListInv' /\ ModuleInv' BY <2>1, InputsFix DEF IInv, ListInv, ModuleInv
  <2>8. \A k : Placed(k)' = Placed(k) BY <2>1, InputsFix DEF Placed
  <2>9. PlaceInv' BY <2>1, <2>8 DEF IInv, PlaceInv
  <2>10. StartInv' BY <2>1, InputsFix DEF IInv, StartInv
  <2>11. QED BY <2>2, <2>3, <2>5, <2>6, <2>7, <2>9, <2>10 DEF IInv
<1>11. QED
  BY <1>1, <1>2, <1>3, <1>4, <1>5, <1>6, <1>7, <1>8, <1>9, <1>10 DEF Next

THEOREM Invariance == Spec => []IInv
BY InitInv, NextInv, PTL DEF Spec

(* The settings keep their types, whatever dicts are shared and whatever   *)
(* files, lists and options are given (rteval/rtevalConfig.py).            *)
THEOREM TypeCorrect == Spec => []TypeOK
<1>1. IInv => TypeOK BY DEF IInv
<1>2. QED BY <1>1, Invariance, PTL

(* OwnSettings: a module that runs finds the list of its group and its     *)
(* option by precedence, for all files and options, and rteval the options *)
(* on which a file has no say as the command line left them (rteval-cmd    *)
(* 112-162; rteval/rtevalConfig.py 211-218, 286-309; Setup).               *)
THEOREM SettingsOwn == Spec => []OwnSettings
<1>1. ASSUME IInv PROVE OwnSettings
  <2>1. SUFFICES ASSUME pc = "ready"
                 PROVE  /\ \A m \in DOMAIN module :
                             Cpulist(m) = Cpulist(GroupOf(m)) /\ module[m] = Cpulist(m)
                        /\ \A s \in {"rteval"} \cup (WithOption \cap DOMAIN module) :
                             /\ "option" \in DOMAIN heap[dict[s]]
                             /\ heap[dict[s]].option = Precedence(s)
                        /\ "logging" \in DOMAIN heap[dict["rteval"]]
                        /\ heap[dict["rteval"]].logging = Given("logging", "built-in")
    BY DEF OwnSettings
  <2>2. pc \in Merged /\ pc \in Settled /\ pc # "failed" BY <2>1 DEF Merged, Settled
  <2>3. DOMAIN module \subseteq ChosenMods /\ ChosenMods \subseteq Mods
    BY <1>1, ChosenFacts DEF IInv, ModuleInv
  <2>4. ASSUME NEW m \in DOMAIN module
        PROVE  Cpulist(m) = Cpulist(GroupOf(m)) /\ module[m] = Cpulist(m)
    <3>1. /\ "cpulist" \in DOMAIN heap[dict[m]]
          /\ heap[dict[m]].cpulist = Final(GroupOf(m)) /\ module[m] = Final(GroupOf(m))
      BY <1>1, <2>2 DEF IInv, ModuleInv
    <3>2. GroupOf(m) \in Groups BY <2>3, Names
    <3>3. Cpulist(GroupOf(m)) = Final(GroupOf(m)) BY <1>1, <2>2, <3>2, CpulistOfGroup
    <3>4. Cpulist(m) = heap[dict[m]].cpulist BY <3>1 DEF Cpulist
    <3>5. QED BY <3>1, <3>3, <3>4
  <2>5. ASSUME NEW s \in {"rteval"} \cup (WithOption \cap DOMAIN module)
        PROVE  "option" \in DOMAIN heap[dict[s]] /\ heap[dict[s]].option = Precedence(s)
    <3>1. s \in WithOption /\ (s = "rteval" \/ s \in ChosenMods) BY <2>3, Names
    <3>2. s \in DOMAIN dict /\ "option" \in DOMAIN heap[s] /\ heap[s].option = Precedence(s)
      BY <1>1, <2>2, <3>1 DEF IInv, OptionInv
    <3>3. s # "sysstat" BY <3>1 DEF WithOption
    <3>4. dict[s] = s BY <1>1, <3>2, <3>3 DEF IInv, DictInv
    <3>5. QED BY <3>2, <3>4
  <2>6. /\ "logging" \in DOMAIN heap[dict["rteval"]]
        /\ heap[dict["rteval"]].logging = Given("logging", "built-in")
    <3>1. "logging" \in DOMAIN heap["rteval"] /\ heap["rteval"].logging = Logging
      BY <1>1, <2>2 DEF IInv, OptionInv
    <3>2. "rteval" \in DOMAIN dict BY <1>1, <2>2, Names DEF IInv, OptionInv
    <3>3. dict["rteval"] = "rteval" BY <1>1, <3>2 DEF IInv, DictInv
    <3>4. QED BY <3>1, <3>3 DEF Logging
  <2>7. QED BY <2>4, <2>5, <2>6
<1>2. QED BY <1>1, Invariance, PTL

(* LoadsAvoidMeasured: with one list given, no load runs on a cpu that     *)
(* cyclictest measures, for any machine whose cpus without a switch are    *)
(* online (rteval-cmd 259-266, rteval/misc.py 58-59, the loads).           *)
THEOREM LoadsApart ==
  ASSUME \A m \in Machines : online_cpus(m) \subseteq m.online
  PROVE  Spec => []LoadsAvoidMeasured
<1>1. ASSUME IInv PROVE LoadsAvoidMeasured
  <2>1. SUFFICES ASSUME OneListGiven, Narrow(GivenList),
                        optlist["loads"] # {} => UsableNodes(machine, GivenList) # {},
                        "cyclictest" \in DOMAIN module, NEW m \in DOMAIN place
                 PROVE  place[m] \cap CyclictestCpus(machine, module["cyclictest"]) = {}
    BY DEF LoadsAvoidMeasured, Separated, Narrow
  <2>2. pc = "ready" /\ place[m] = Placed(m) BY <1>1, <2>1 DEF IInv, PlaceInv
  <2>3. m \in DOMAIN module /\ m \in LoadMods BY <1>1, <2>1 DEF IInv, TypeOK
  <2>4. module[m] = Final("loads") /\ module["cyclictest"] = Final("measurement")
    BY <1>1, <2>1, <2>2, <2>3 DEF IInv, ModuleInv, GroupOf, LoadMods
  <2>5. PICK g \in Groups : optlist[g] = {} /\ optlist[Other(g)] # {}
    BY <2>1 DEF OneListGiven, Groups, Other
  <2> DEFINE given == optlist[Other(g)]
             inv == invert_cpulist(machine, given)
  <2>6. Other(g) \in Groups /\ Other(Other(g)) = g BY DEF Groups, Other
  <2>7. given = GivenList /\ given \in Text
    BY <1>1, <2>5, <2>6, GivenIs, InputFacts DEF IInv
  <2>8. SaneMachine(machine) /\ online_cpus(machine) \subseteq machine.online
    BY <1>1, InputFacts DEF IInv, InputInv
  <2>9. inv # {} /\ inv \in SUBSET online_cpus(machine) /\ inv \in SUBSET Cpus
    BY <1>1, <2>1, <2>2, <2>7, <2>8, InverseOnline, OnlineIsPossible DEF IInv, StartInv, Settled
  <2>10. inv \cap expand_cpulist(given) = {} BY <2>1, <2>7, <2>8, InverseAvoids
  <2>11. Final(g) = compress_cpulist(inv) /\ Final(Other(g)) = given BY <2>5, <2>6 DEF Final
  <2>12. /\ compress_cpulist(inv) \in Text /\ compress_cpulist(inv) # {}
         /\ expand_cpulist(compress_cpulist(inv)) = inv
    BY <2>9, CompressExpands
  (* Whichever list is the loads', they run within it ...                  *)
  <2>13. Final("loads") \in Text /\ Final("loads") # {}
         /\ UsableNodes(machine, Final("loads")) # {}
    <3>1. CASE g = "loads"
      <4>1. UsableNodes(machine, compress_cpulist(inv)) # {} BY <2>8, <2>9, InverseUsable
      <4>2. QED BY <2>11, <2>12, <3>1, <4>1
    <3>2. CASE g = "measurement"
      BY <2>1, <2>5, <2>7, <2>11, <3>2 DEF Other
    <3>3. QED BY <3>1, <3>2 DEF Groups
  <2>14. Placed(m) \subseteq expand_cpulist(Final("loads"))
    <3>1. OnUsable(machine, Final("loads")) \subseteq expand_cpulist(Final("loads"))
      BY <2>13, UsableWithin
    <3>2. QED
      BY <2>3, <2>4, <2>13, <3>1 DEF Placed, LoadMods, KcompilePlace, HackbenchPlace, StressngPlace
  (* ... and cyclictest measures the cpus of the other.                    *)
  <2>15. CyclictestCpus(machine, Final("measurement")) = expand_cpulist(Final("measurement"))
    BY <2>5, <2>11, <2>12 DEF CyclictestCpus, Groups, Other
  <2>16. expand_cpulist(Final("loads")) \cap expand_cpulist(Final("measurement")) = {}
    BY <2>10, <2>11, <2>12 DEF Groups, Other
  <2>17. QED BY <2>2, <2>4, <2>14, <2>15, <2>16
<1>2. QED BY <1>1, Invariance, PTL

(* StartsUnlessDoomed: only the four named conditions keep rteval from     *)
(* getting ready, and each of them does, for any machine whose cpus        *)
(* without a switch are online (rteval-cmd 205-310).                       *)
THEOREM StartsOrDoomed ==
  ASSUME \A m \in Machines : online_cpus(m) \subseteq m.online
  PROVE  Spec => []StartsUnlessDoomed
<1>1. ASSUME IInv PROVE StartsUnlessDoomed
  <2>1. online_cpus(machine) \subseteq machine.online BY <1>1 DEF IInv, InputInv
  <2>2. pc = "failed" => Doomed BY <1>1, <2>1 DEF IInv, StartInv
  <2>3. ASSUME pc = "ready" PROVE ~Doomed
    <3>1. ~TopologyFails(machine) /\ (OneListGiven => invert_cpulist(machine, GivenList) # {})
      BY <1>1, <2>3 DEF IInv, StartInv, Settled
    <3>2. Configured("loads") => Configured("measurement")
      BY <1>1, <2>3 DEF IInv, GroupInv, Imported
    <3>3. ASSUME Configured("measurement") =>
                   /\ "cyclictest" \in DOMAIN file["measurement"]
                   /\ file["measurement"]["cyclictest"] = "module"
          PROVE  ~AskedForMissing
      <4>1. "cyclictest" \in Chosen("measurement")
        BY <3>3, Names DEF Chosen, Mods, ModsOf, MeasureMods
      <4>2. "cyclictest" \in DOMAIN module
        BY <1>1, <2>3, <4>1 DEF IInv, ModuleInv, ChosenMods
      <4>3. ~CyclictestFails(machine, Final("measurement"))
        BY <1>1, <2>3, <4>2 DEF IInv, ModuleInv
      <4>4. QED BY <1>1, <3>1, <4>3, CyclictestReason DEF IInv
    <3>4. QED BY <3>1, <3>2, <3>3 DEF Doomed, AskedForMissing
  <2>4. QED BY <2>2, <2>3 DEF StartsUnlessDoomed
<1>2. QED BY <1>1, Invariance, PTL
=============================================================================
