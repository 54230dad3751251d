---------------------------- MODULE ModuleThread ----------------------------
(***************************************************************************)
(* The threads of rteval: every load and every measurement module is an    *)
(* rtevalModulePrototype, a Python thread whose run() takes the module     *)
(* through setup, build, prepare, a wait for the start event, the workload *)
(* loop and the cleanup (rteval/modules/__init__.py).  The five modules    *)
(* shipped with rteval differ in which of those steps may fail, in the     *)
(* processes the workload starts and in what the cleanup does with them;   *)
(* Kind says which module an object is an instance of.                     *)
(*                                                                         *)
(* The start and stop events of a module are written by the thread that    *)
(* controls the run and read here; finished, ready and donotrun go the     *)
(* other way.  There is no lock: only the atomicity of one Python          *)
(* operation on an Event or an attribute is assumed.                       *)
(***************************************************************************)
EXTENDS Naturals, FiniteSets

CONSTANTS
  Loads,          \* the load module objects
  Measurements,   \* the measurement module objects
  Kind,           \* which module each object is an instance of
  Nodes,          \* the NUMA nodes left with a usable CPU
  Faults          \* the failures of the environment that may happen

Modules == Loads \cup Measurements

LoadKinds    == {"kcompile", "hackbench", "stressng"}
MeasureKinds == {"cyclictest", "sysstat"}

(* "setup": a rtevalRuntimeError (no tarball, failed make); "crash": any   *)
(* other exception before the module is ready; "prepare": an exception in  *)
(* _WorkloadPrepare; "spawn": a program cannot be executed; "job": a       *)
(* workload process ends with a non-zero status.                           *)
FaultKinds == {"setup", "crash", "prepare", "spawn", "job"}

ASSUME ModulesAssumption ==
  /\ IsFiniteSet(Loads) /\ IsFiniteSet(Measurements)
  /\ Loads \cap Measurements = {}
  /\ Kind \in [Modules -> LoadKinds \cup MeasureKinds]
  /\ \A m \in Loads : Kind[m] \in LoadKinds
  /\ \A m \in Measurements : Kind[m] \in MeasureKinds
ASSUME NodesAssumption  == Nodes # {}
ASSUME FaultsAssumption == Faults \subseteq FaultKinds

VARIABLES
  pc,         \* where the thread of each module is in run()
  ready,      \* rtevalModulePrototype.__ready
  rterr,      \* rtevalModulePrototype.__runtimeError
  donotrun,   \* rtevalModulePrototype._donotrun
  start,      \* __events["start"]
  stop,       \* __events["stop"]
  finished,   \* __events["finished"]
  job,        \* the workload processes of each module, one slot per node
  todo        \* slots the running _WorkloadTask or _WorkloadCleanup has left

events     == <<start, stop>>
threadVars == <<pc, ready, rterr, donotrun, finished, job, todo>>

(* "over", "aborted" and "crashed" are all the end of the thread: run()    *)
(* returned, the cleanup raised, or an exception ended it earlier.         *)
Ends     == {"over", "aborted", "crashed"}
Labels   == {"new", "begin", "setup", "build", "prepare", "check", "wait",
             "loop", "task", "sleep", "cleanup"} \cup Ends
JobState == {"none", "running", "ok", "failed"}

(* cyclictest and stress-ng are one process; kcompile and hackbench start  *)
(* one per node; sysstat only makes synchronous calls of sadc.             *)
HomeNode == CHOOSE n \in Nodes : TRUE
PerNode(m) == Kind[m] \in {"kcompile", "hackbench"}
Slots(m) == CASE PerNode(m) -> Nodes
              [] Kind[m] \in {"cyclictest", "stressng"} -> {HomeNode}
              [] OTHER -> {}

Started(m)   == \E n \in Nodes : job[m][n] # "none"
Running(m)   == \E n \in Nodes : job[m][n] = "running"
IsReady(m)   == donotrun[m] \/ ready[m]
WillRun(m)   == ~donotrun[m]
ThreadAlive(m) == pc[m] \notin {"new"} \cup Ends

ThreadTypeOK ==
  /\ pc \in [Modules -> Labels]
  /\ ready \in [Modules -> BOOLEAN]
  /\ rterr \in [Modules -> BOOLEAN]
  /\ donotrun \in [Modules -> BOOLEAN]
  /\ start \in [Modules -> BOOLEAN]
  /\ stop \in [Modules -> BOOLEAN]
  /\ finished \in [Modules -> BOOLEAN]
  /\ job \in [Modules -> [Nodes -> JobState]]
  /\ todo \in [Modules -> SUBSET Nodes]

(* The objects are constructed with every event cleared.  stress-ng is     *)
(* constructed with _donotrun set unless an option names a stressor.       *)
ThreadInit ==
  /\ pc = [m \in Modules |-> "new"]
  /\ ready = [m \in Modules |-> FALSE]
  /\ rterr = [m \in Modules |-> FALSE]
  /\ donotrun \in [Modules -> BOOLEAN]
  /\ \A m \in Modules : donotrun[m] => Kind[m] = "stressng"
  /\ start = [m \in Modules |-> FALSE]
  /\ stop = [m \in Modules |-> FALSE]
  /\ finished = [m \in Modules |-> FALSE]
  /\ job = [m \in Modules |-> [n \in Nodes |-> "none"]]
  /\ todo = [m \in Modules |-> {}]

-----------------------------------------------------------------------------
At(m, l)   == pc[m] = l
Goto(m, l) == pc' = [pc EXCEPT ![m] = l]

(* Thread.start(), called by the thread in control.                        *)
StartThread(m) ==
  /\ Goto(m, "begin")
  /\ UNCHANGED <<ready, rterr, donotrun, finished, job, todo>>

(* run(): a module stopped before it began does nothing.                   *)
Begin(m) ==
  /\ At(m, "begin")
  /\ Goto(m, IF stop[m] THEN "over" ELSE "setup")
  /\ UNCHANGED <<ready, rterr, donotrun, finished, job, todo>>

(* _WorkloadSetup: hackbench finds out whether the machine has the memory  *)
(* for it, and a module that will not run goes straight to its cleanup.    *)
Setup(m) ==
  /\ At(m, "setup")
  /\ \E lowMemory \in BOOLEAN :
       /\ lowMemory => Kind[m] = "hackbench"
       /\ donotrun' = [donotrun EXCEPT ![m] = @ \/ lowMemory]
  /\ IF donotrun'[m]
       THEN Goto(m, "cleanup") /\ todo' = [todo EXCEPT ![m] = Slots(m)]
       ELSE Goto(m, "build") /\ UNCHANGED todo
  /\ UNCHANGED <<ready, rterr, finished, job>>

(* A rtevalRuntimeError of kcompile, in its setup or its build.  The       *)
(* exception's constructor tells the thread in control about it.           *)
RaiseRtevalError(m) ==
  /\ "setup" \in Faults
  /\ Kind[m] = "kcompile" /\ pc[m] \in {"setup", "build"}
  /\ rterr' = [rterr EXCEPT ![m] = TRUE]
  /\ Goto(m, "crashed")
  /\ UNCHANGED <<ready, donotrun, finished, job, todo>>

(* Any other exception before the module is ready (an OSError, or the      *)
(* sys.exit(-1) of _extract_tarball, which only ends the thread).          *)
CrashEarly(m) ==
  /\ "crash" \in Faults
  /\ PerNode(m)
  /\ pc[m] = "setup" \/ (pc[m] = "build" /\ Kind[m] = "kcompile")
  /\ Goto(m, "crashed")
  /\ UNCHANGED <<ready, rterr, donotrun, finished, job, todo>>

(* _WorkloadBuild ends in _setReady() in all five modules.                 *)
Build(m) ==
  /\ At(m, "build")
  /\ ready' = [ready EXCEPT ![m] = TRUE]
  /\ Goto(m, "prepare")
  /\ UNCHANGED <<rterr, donotrun, finished, job, todo>>

(* _WorkloadPrepare opens the log files, the histogram file or the data    *)
(* directory, any of which may raise; the module is ready already.         *)
Prepare(m) ==
  /\ At(m, "prepare")
  /\ \/ Goto(m, "check")
     \/ "prepare" \in Faults /\ Goto(m, "crashed")
  /\ UNCHANGED <<ready, rterr, donotrun, finished, job, todo>>

(* run(), waiting to be released: the stop event is looked at first ...    *)
CheckStop(m) ==
  /\ At(m, "check")
  /\ Goto(m, IF stop[m] THEN "over" ELSE "wait")
  /\ UNCHANGED <<ready, rterr, donotrun, finished, job, todo>>

(* Mutated WaitStart: the end of the timed wait is taken for the event.    *)
WaitStart_OnTimeout(m) ==
  /\ At(m, "wait")
  /\ Goto(m, "loop")
  /\ UNCHANGED <<ready, rterr, donotrun, finished, job, todo>>

(* ... and then the start event is waited for, one second at a time.       *)
WaitStart(m) ==
  /\ At(m, "wait")
  /\ Goto(m, IF start[m] THEN "loop" ELSE "check")
  /\ UNCHANGED <<ready, rterr, donotrun, finished, job, todo>>

(* The workload loop tests the stop event before every task and after it.  *)
Loop(m) ==
  /\ At(m, "loop")
  /\ todo' = [todo EXCEPT ![m] = Slots(m)]
  /\ Goto(m, IF stop[m] THEN "cleanup" ELSE "task")
  /\ UNCHANGED <<ready, rterr, donotrun, finished, job>>

(* Mutated TaskDone: a stopped module returns without its cleanup.         *)
TaskDone_Returns(m) ==
  /\ At(m, "task") /\ todo[m] = {}
  /\ Goto(m, IF stop[m] THEN "over" ELSE "sleep")
  /\ UNCHANGED <<ready, rterr, donotrun, finished, job, todo>>

TaskDone(m) ==
  /\ At(m, "task") /\ todo[m] = {}
  /\ IF stop[m]
       THEN Goto(m, "cleanup") /\ todo' = [todo EXCEPT ![m] = Slots(m)]
       ELSE Goto(m, "sleep") /\ UNCHANGED todo
  /\ UNCHANGED <<ready, rterr, donotrun, finished, job>>

Sleep(m) ==
  /\ At(m, "sleep")
  /\ Goto(m, "loop")
  /\ UNCHANGED <<ready, rterr, donotrun, finished, job, todo>>

(* hackbench tests the stop event once more at the head of its task.       *)
SkipTask(m) ==
  /\ At(m, "task") /\ Kind[m] = "hackbench" /\ stop[m] /\ todo[m] = Slots(m)
  /\ todo' = [todo EXCEPT ![m] = {}]
  /\ UNCHANGED <<pc, ready, rterr, donotrun, finished, job>>

(* _WorkloadTask for one slot.  kcompile and hackbench start a process     *)
(* that is not there yet or has ended; cyclictest and stress-ng start      *)
(* theirs once.  Restarting a kcompile job that failed raises instead.     *)
NeedsStart(m, n) == \/ job[m][n] = "none"
                    \/ PerNode(m) /\ job[m][n] \in {"ok", "failed"}

StartJob(m, n) ==
  /\ At(m, "task") /\ n \in todo[m] /\ NeedsStart(m, n)
  /\ ~(Kind[m] = "kcompile" /\ job[m][n] = "failed")
  /\ job' = [job EXCEPT ![m][n] = "running"]
  /\ todo' = [todo EXCEPT ![m] = @ \ {n}]
  /\ UNCHANGED <<pc, ready, rterr, donotrun, finished>>

KeepJob(m, n) ==
  /\ At(m, "task") /\ n \in todo[m] /\ ~NeedsStart(m, n)
  /\ todo' = [todo EXCEPT ![m] = @ \ {n}]
  /\ UNCHANGED <<pc, ready, rterr, donotrun, finished, job>>

FailedJob(m, n) ==
  /\ At(m, "task") /\ n \in todo[m]
  /\ Kind[m] = "kcompile" /\ job[m][n] = "failed"
  /\ Goto(m, "crashed")
  /\ UNCHANGED <<ready, rterr, donotrun, finished, job, todo>>

(* Popen raises OSError: cyclictest and stress-ng catch it and try again   *)
(* in the next round, the others' threads die.                             *)
SpawnFails(m, n) ==
  /\ "spawn" \in Faults
  /\ At(m, "task") /\ n \in todo[m] /\ NeedsStart(m, n)
  /\ ~(Kind[m] = "kcompile" /\ job[m][n] = "failed")
  /\ IF PerNode(m)
       THEN Goto(m, "crashed") /\ UNCHANGED todo
       ELSE UNCHANGED pc /\ todo' = [todo EXCEPT ![m] = @ \ {n}]
  /\ UNCHANGED <<ready, rterr, donotrun, finished, job>>

(* sysstat's task and cleanup are calls of sadc, which may not be there.   *)
SadcFails(m) ==
  /\ "spawn" \in Faults
  /\ Kind[m] = "sysstat" /\ pc[m] \in {"task", "cleanup"}
  /\ Goto(m, IF At(m, "task") THEN "crashed" ELSE "aborted")
  /\ UNCHANGED <<ready, rterr, donotrun, finished, job, todo>>

(* _WorkloadCleanup for one slot: the process is signalled until it is     *)
(* gone, and waited for.                                                   *)
CleanJob(m, n) ==
  /\ At(m, "cleanup") /\ n \in todo[m] /\ WillRun(m)
  /\ job[m][n] # "none"
  /\ job' = [job EXCEPT ![m][n] = IF @ = "running" THEN "ok" ELSE @]
  /\ todo' = [todo EXCEPT ![m] = @ \ {n}]
  /\ UNCHANGED <<pc, ready, rterr, donotrun, finished>>

(* A slot whose process was never started: cyclictest and stress-ng return *)
(* at once, without _setFinished(); kcompile polls None and hackbench      *)
(* looks up a task it does not have, and both raise.  A module that was    *)
(* not run has nothing to clean up, except kcompile, which always runs.    *)
CleanMissing(m, n) ==
  /\ At(m, "cleanup") /\ n \in todo[m] /\ WillRun(m)
  /\ job[m][n] = "none"
  /\ Goto(m, IF PerNode(m) THEN "aborted" ELSE "over")
  /\ UNCHANGED <<ready, rterr, donotrun, finished, job, todo>>

(* Mutated SetsFinished: sysstat forgets to report its completion.         *)
SetsFinished_NotSysstat(m) == Kind[m] \in {"kcompile", "cyclictest"}

SetsFinished(m) == Kind[m] \in {"kcompile", "cyclictest", "sysstat"}

CleanupDone(m) ==
  /\ At(m, "cleanup") /\ (todo[m] = {} \/ donotrun[m])
  /\ finished' = [finished EXCEPT ![m] = @ \/ SetsFinished(m)]
  /\ Goto(m, "over")
  /\ UNCHANGED <<ready, rterr, donotrun, job, todo>>

(* A workload process ends by itself.                                      *)
JobEnds(m, n) ==
  /\ job[m][n] = "running"
  /\ \E s \in {"ok"} \cup (IF "job" \in Faults THEN {"failed"} ELSE {}) :
       job' = [job EXCEPT ![m][n] = s]
  /\ UNCHANGED <<pc, ready, rterr, donotrun, finished, todo>>

-----------------------------------------------------------------------------
Task(m) ==
  \/ SkipTask(m) \/ TaskDone(m) \/ SadcFails(m)
  \/ \E n \in Nodes : StartJob(m, n) \/ KeepJob(m, n)
                      \/ FailedJob(m, n) \/ SpawnFails(m, n)

Cleanup(m) ==
  \/ CleanupDone(m)
  \/ \E n \in Nodes : CleanJob(m, n) \/ CleanMissing(m, n)

Run(m) ==
  \/ Begin(m) \/ Setup(m) \/ RaiseRtevalError(m) \/ CrashEarly(m)
  \/ Build(m) \/ Prepare(m) \/ CheckStop(m) \/ WaitStart(m)
  \/ Loop(m) \/ Task(m) \/ Sleep(m) \/ Cleanup(m)

(* WorkloadAlive of the measurement modules: cyclictest has been started   *)
(* and has not ended; sysstat is always alive (and calls sadc).            *)
WorkloadAlive(m) == Kind[m] = "sysstat" \/ Running(m)
=============================================================================
