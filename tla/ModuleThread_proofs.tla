------------------------- MODULE ModuleThread_proofs -------------------------
(***************************************************************************)
(* What the threads of ModuleThread guarantee whoever controls them:       *)
(* facts about a single module that its thread, its jobs and those of the  *)
(* others preserve, for any modules, nodes and faults.  The proofs about   *)
(* RtEvalRun and MeasurementSuite rest on them.                            *)
(***************************************************************************)
EXTENDS ModuleThread, FiniteSetTheorems, TLAPS

(* Where a module is once it has decided to run, and once it was released. *)
Preparing == {"new", "begin", "setup", "build"}
Released  == {"loop", "task", "sleep"}
Deciding  == {"build", "prepare", "check", "wait"} \cup Released

ModuleInv(m) ==
  /\ pc[m] \in Deciding => ~donotrun[m]
  /\ pc[m] \in Released \/ (pc[m] = "cleanup" /\ ~donotrun[m]) => start[m]
  /\ ready[m] => pc[m] \notin Preparing
  /\ Started(m) => /\ start[m] /\ ~donotrun[m]
                   /\ pc[m] \in Released \cup {"cleanup"} \cup Ends
  /\ todo[m] \subseteq Slots(m)
  /\ \A n \in Nodes : job[m][n] # "none" => n \in Slots(m)
  /\ pc[m] = "cleanup" /\ ~donotrun[m] =>
       \A n \in Nodes : job[m][n] = "running" => n \in todo[m]
  /\ finished[m] => pc[m] = "over" /\ ~Running(m)

(* What the faults leave true.  A module is contained when its thread      *)
(* cannot end on the fault of one node while the processes of another run: *)
(* it has one slot, or nothing makes a task raise.                         *)
OneSlot(m)   == \A n, k \in Slots(m) : n = k
Contained(m) ==
  OneSlot(m) \/ ("spawn" \notin Faults /\ ("job" \notin Faults \/ Kind[m] # "kcompile"))

NoneBegun(m) == \A n \in Slots(m) : job[m][n] = "none"
AllBegun(m)  == \A n \in Slots(m) : job[m][n] # "none"

(* Before a task either all processes of a contained module have been      *)
(* started or none (hackbench skips its task when it is told to stop).     *)
TaskInv(m) ==
  /\ pc[m] \in Ends => ~Running(m)
  /\ \/ pc[m] \in {"loop", "sleep", "cleanup"}
     \/ pc[m] = "task" /\ todo[m] = Slots(m)
     => NoneBegun(m) \/ AllBegun(m)
  /\ pc[m] = "task" /\ ~OneSlot(m) =>
       \/ todo[m] = {} /\ NoneBegun(m)
       \/ \A n \in Slots(m) \ todo[m] : job[m][n] # "none"

FaultInv(m) ==
  /\ rterr[m] => "setup" \in Faults
  /\ donotrun[m] => Kind[m] \in {"hackbench", "stressng"}
  /\ \A n \in Nodes : job[m][n] = "failed" => "job" \in Faults
  /\ Contained(m) => TaskInv(m)

-----------------------------------------------------------------------------
(* What a step of module m, or of one of its jobs, does: the other modules *)
(* stay as they are, m is never taken back to an earlier state.            *)
StepEffect(m) ==
  /\ \A k \in Modules \ {m} :
       /\ pc'[k] = pc[k] /\ ready'[k] = ready[k] /\ rterr'[k] = rterr[k]
       /\ donotrun'[k] = donotrun[k] /\ finished'[k] = finished[k]
       /\ job'[k] = job[k] /\ todo'[k] = todo[k]
  /\ ready[m] => ready'[m]
  /\ donotrun[m] => donotrun'[m]
  /\ finished[m] => finished'[m]
  /\ ~ThreadAlive(m) => pc'[m] = pc[m]

(* The slots of a module are nodes.                                        *)
LEMMA SlotsAreNodes == \A m : Slots(m) \subseteq Nodes
<1>1. HomeNode \in Nodes BY NodesAssumption DEF HomeNode
<1>2. QED BY <1>1 DEF Slots

(* The label a Goto leads to.                                              *)
LEMMA GotoType ==
  ASSUME ThreadTypeOK, NEW m \in Modules, NEW l \in Labels, Goto(m, l)
  PROVE  /\ pc' \in [Modules -> Labels] /\ pc'[m] = l
         /\ \A k \in Modules \ {m} : pc'[k] = pc[k]
BY DEF ThreadTypeOK, Goto

(* Every step of the thread of m preserves the types and ModuleInv(m).     *)
LEMMA RunStep ==
  ASSUME ThreadTypeOK, NEW m \in Modules, ModuleInv(m), Run(m),
         UNCHANGED events
  PROVE  ThreadTypeOK' /\ ModuleInv(m)' /\ StepEffect(m)
<1> USE DEF Labels, Ends, At
<1> DEFINE Goal == ThreadTypeOK' /\ ModuleInv(m)' /\ StepEffect(m)
<1>0. Slots(m) \subseteq Nodes /\ Slots(m)' = Slots(m)
  BY SlotsAreNodes DEF Slots, PerNode
<1> USE DEF ModuleInv, StepEffect, ThreadAlive, Goto, Started, Running, ThreadTypeOK, events,
            Preparing, Released, Deciding
<1>1. CASE Begin(m)
  BY <1>0, <1>1 DEF Begin
<1>2. CASE Setup(m)
  <2>1. donotrun' \in [Modules -> BOOLEAN] /\ (donotrun[m] => donotrun'[m])
    BY <1>2 DEF Setup
  <2>2. \A k \in Modules \ {m} : donotrun'[k] = donotrun[k]
    BY <1>2 DEF Setup
  <2>3. UNCHANGED <<ready, rterr, finished, job>> /\ pc[m] = "setup" /\ ~Started(m)
    BY <1>2 DEF Setup
  <2>4. CASE donotrun'[m]
    <3>1. Goto(m, "cleanup") /\ todo' = [todo EXCEPT ![m] = Slots(m)]
      BY <1>2, <2>4 DEF Setup
    <3>2. /\ pc' \in [Modules -> Labels] /\ todo' \in [Modules -> SUBSET Nodes]
          /\ pc'[m] = "cleanup" /\ todo'[m] = Slots(m)
          /\ \A k \in Modules \ {m} : pc'[k] = pc[k] /\ todo'[k] = todo[k]
      BY <1>0, <3>1
    <3>3. ThreadTypeOK' BY <2>1, <2>3, <3>2
    <3>4. ModuleInv(m)' BY <2>3, <2>4, <3>2
    <3>5. StepEffect(m) BY <2>1, <2>2, <2>3, <3>2
    <3>6. QED BY <3>3, <3>4, <3>5
  <2>5. CASE ~donotrun'[m]
    <3>1. Goto(m, "build") /\ UNCHANGED todo
      BY <1>2, <2>5 DEF Setup
    <3>2. /\ pc' \in [Modules -> Labels] /\ pc'[m] = "build"
          /\ \A k \in Modules \ {m} : pc'[k] = pc[k] /\ todo'[k] = todo[k]
      BY <3>1
    <3>3. ThreadTypeOK' BY <2>1, <2>3, <3>1, <3>2
    <3>4. ModuleInv(m)' BY <2>3, <2>5, <3>1, <3>2
    <3>5. StepEffect(m) BY <2>1, <2>2, <2>3, <3>2
    <3>6. QED BY <3>3, <3>4, <3>5
  <2>6. QED BY <2>4, <2>5
<1>3. CASE RaiseRtevalError(m)
  BY <1>0, <1>3 DEF RaiseRtevalError
<1>4. CASE CrashEarly(m)
  BY <1>0, <1>4 DEF CrashEarly
<1>5. CASE Build(m)
  BY <1>0, <1>5 DEF Build
<1>6. CASE Prepare(m)
  BY <1>0, <1>6 DEF Prepare
<1>7. CASE CheckStop(m)
  BY <1>0, <1>7 DEF CheckStop
<1>8. CASE WaitStart(m)
  BY <1>0, <1>8 DEF WaitStart
<1>9. CASE Loop(m)
  BY <1>0, <1>9 DEF Loop
<1>10. CASE Sleep(m)
  BY <1>0, <1>10 DEF Sleep
<1>11. CASE Task(m)
  <2>1. CASE SkipTask(m)
    BY <1>0, <2>1 DEF SkipTask
  <2>2. CASE TaskDone(m)
    <3>1. CASE stop[m]
      <4>1. /\ pc[m] = "task" /\ pc' = [pc EXCEPT ![m] = "cleanup"]
            /\ todo' = [todo EXCEPT ![m] = Slots(m)]
            /\ UNCHANGED <<ready, rterr, donotrun, finished, job>>
        BY <2>2, <3>1 DEF TaskDone
      <4>2. ThreadTypeOK' BY <1>0, <4>1
      <4>3. ModuleInv(m)' BY <1>0, <4>1
      <4>4. StepEffect(m) BY <4>1
      <4>5. QED BY <4>2, <4>3, <4>4
    <3>2. CASE ~stop[m] BY <1>0, <2>2, <3>2 DEF TaskDone
    <3>3. QED BY <3>1, <3>2
  <2>3. CASE SadcFails(m)
    BY <1>0, <2>3 DEF SadcFails
  <2>4. ASSUME NEW n \in Nodes, StartJob(m, n) PROVE Goal
    <3>1. /\ pc[m] = "task" /\ ~donotrun[m] /\ start[m] /\ n \in Slots(m)
          /\ job' = [job EXCEPT ![m][n] = "running"]
          /\ todo' = [todo EXCEPT ![m] = @ \ {n}]
          /\ UNCHANGED <<pc, ready, rterr, donotrun, finished>>
      BY <2>4 DEF StartJob
    <3>2. /\ job' \in [Modules -> [Nodes -> JobState]]
          /\ \A k \in Modules \ {m} : job'[k] = job[k]
          /\ \A i \in Nodes \ {n} : job'[m][i] = job[m][i]
      BY <3>1 DEF JobState
    <3>3. ThreadTypeOK' BY <3>1, <3>2
    <3>4. ModuleInv(m)' BY <1>0, <3>1, <3>2
    <3>5. StepEffect(m) BY <3>1, <3>2
    <3>6. QED BY <3>3, <3>4, <3>5
  <2>5. ASSUME NEW n \in Nodes, KeepJob(m, n) PROVE Goal
    BY <1>0, <2>5 DEF KeepJob
  <2>6. ASSUME NEW n \in Nodes, FailedJob(m, n) PROVE Goal
    BY <1>0, <2>6 DEF FailedJob
  <2>7. ASSUME NEW n \in Nodes, SpawnFails(m, n) PROVE Goal
    <3>1. CASE PerNode(m) BY <1>0, <2>7, <3>1 DEF SpawnFails
    <3>2. CASE ~PerNode(m)
      <4>1. /\ UNCHANGED <<pc, ready, rterr, donotrun, finished, job>>
            /\ todo' = [todo EXCEPT ![m] = @ \ {n}] /\ pc[m] = "task" /\ n \in todo[m]
        BY <2>7, <3>2 DEF SpawnFails
      <4>2. QED BY <1>0, <4>1
    <3>3. QED BY <3>1, <3>2
  <2>8. QED BY <1>11, <2>1, <2>2, <2>3, <2>4, <2>5, <2>6, <2>7 DEF Task
<1>12. CASE Cleanup(m)
  <2>1. CASE CleanupDone(m)
    BY <1>0, <2>1 DEF CleanupDone
  <2>2. ASSUME NEW n \in Nodes, CleanJob(m, n) PROVE Goal
    BY <1>0, <2>2 DEF CleanJob, WillRun, JobState
  <2>3. ASSUME NEW n \in Nodes, CleanMissing(m, n) PROVE Goal
    BY <1>0, <2>3 DEF CleanMissing, WillRun
  <2>4. QED BY <1>12, <2>1, <2>2, <2>3 DEF Cleanup
<1>13. QED
  BY <1>1, <1>2, <1>3, <1>4, <1>5, <1>6, <1>7, <1>8, <1>9, <1>10, <1>11, <1>12
  DEF Run

(* A workload process ending by itself preserves them, too.                *)
LEMMA JobStep ==
  ASSUME ThreadTypeOK, NEW m \in Modules, NEW n \in Nodes, ModuleInv(m),
         JobEnds(m, n), UNCHANGED events
  PROVE  ThreadTypeOK' /\ ModuleInv(m)' /\ StepEffect(m)
<1>1. PICK s \in {"ok", "failed"} : job' = [job EXCEPT ![m][n] = s]
  BY DEF JobEnds
<1>2. /\ job[m][n] = "running" /\ job'[m][n] = s
      /\ job' \in [Modules -> [Nodes -> JobState]]
      /\ \A k \in Modules \ {m} : job'[k] = job[k]
      /\ \A i \in Nodes \ {n} : job'[m][i] = job[m][i]
  BY <1>1 DEF JobEnds, JobState, ThreadTypeOK
<1>3. UNCHANGED <<pc, ready, rterr, donotrun, finished, todo, start, stop>>
  BY DEF JobEnds, events
<1>4. ThreadTypeOK' BY <1>2, <1>3 DEF ThreadTypeOK
<1>5. ModuleInv(m)'
  BY <1>2, <1>3 DEF ModuleInv, Started, Running, Slots, PerNode
<1>6. StepEffect(m) BY <1>2, <1>3 DEF StepEffect
<1>7. QED BY <1>4, <1>5, <1>6

(* What is left alone keeps its invariant, also when it is released.       *)
LEMMA ModuleInvKept ==
  ASSUME NEW m, ModuleInv(m), start[m] => start'[m],
         pc'[m] = pc[m], ready'[m] = ready[m], donotrun'[m] = donotrun[m],
         finished'[m] = finished[m], job'[m] = job[m], todo'[m] = todo[m]
  PROVE  ModuleInv(m)'
BY DEF ModuleInv, Started, Running, Slots, PerNode

-----------------------------------------------------------------------------
(* All modules begin with these invariants.                                *)
LEMMA ThreadInitInv ==
  ASSUME ThreadInit
  PROVE  ThreadTypeOK /\ \A m \in Modules : ModuleInv(m) /\ FaultInv(m)
<1>1. ThreadTypeOK BY DEF ThreadInit, ThreadTypeOK, Labels, JobState
<1>2. \A m \in Modules : ModuleInv(m)
  BY DEF ThreadInit, ModuleInv, Deciding, Released, Started, Running
<1>3. \A m \in Modules : FaultInv(m)
  BY DEF ThreadInit, FaultInv, TaskInv, Ends
<1>4. QED BY <1>1, <1>2, <1>3

(* A process is the process of a slot, and its module was not declined.    *)
LEMMA RunningSlot ==
  ASSUME NEW m \in Modules, ModuleInv(m), NEW n \in Nodes, job[m][n] # "none"
  PROVE  n \in Slots(m) /\ ~donotrun[m] /\ start[m] /\ pc[m] \in Released \cup {"cleanup"} \cup Ends
BY DEF ModuleInv, Started

(* Every step of the thread of m preserves FaultInv(m).                    *)
LEMMA RunKeepsFaults ==
  ASSUME ThreadTypeOK, NEW m \in Modules, ModuleInv(m), FaultInv(m), Run(m),
         UNCHANGED events
  PROVE  FaultInv(m)'
<1>0. /\ Slots(m) \subseteq Nodes /\ Slots(m)' = Slots(m)
      /\ OneSlot(m)' <=> OneSlot(m)
      /\ Contained(m)' <=> Contained(m)
  BY SlotsAreNodes DEF Slots, PerNode, OneSlot, Contained
<1>a. todo[m] \subseteq Slots(m) /\ \A n \in Nodes : job[m][n] # "none" => n \in Slots(m)
  BY DEF ModuleInv
<1> USE <1>0 DEF ThreadTypeOK, At, Goto, Labels, Ends, Released
<1>1. CASE pc[m] \notin Released \cup {"cleanup"}
  (* Nothing has been started, and the step starts nothing.                *)
  <2>1. \A n \in Nodes : job[m][n] = "none"
    <3>1. pc[m] \notin Ends
      BY <1>1 DEF Run, Begin, Setup, RaiseRtevalError, CrashEarly, Build, Prepare, CheckStop,
         WaitStart, Loop, Sleep, Task, SkipTask, TaskDone, SadcFails, StartJob, KeepJob,
         FailedJob, SpawnFails, Cleanup, CleanupDone, CleanJob, CleanMissing
    <3>2. QED BY <1>1, <3>1, RunningSlot
  <2>2. \/ Begin(m) \/ Setup(m) \/ RaiseRtevalError(m) \/ CrashEarly(m)
        \/ Build(m) \/ Prepare(m) \/ CheckStop(m) \/ WaitStart(m)
    BY <1>1 DEF Run, Loop, Sleep, Task, SkipTask, TaskDone, SadcFails, StartJob, KeepJob,
       FailedJob, SpawnFails, Cleanup, CleanupDone, CleanJob, CleanMissing
  <2>3. UNCHANGED job /\ pc'[m] # "task"
    BY <2>2 DEF Begin, Setup, RaiseRtevalError, CrashEarly, Build, Prepare, CheckStop, WaitStart
  <2>4. rterr'[m] => "setup" \in Faults
    BY <2>2 DEF FaultInv, Begin, Setup, RaiseRtevalError, CrashEarly, Build, Prepare, CheckStop,
       WaitStart
  <2>5. donotrun'[m] => Kind[m] \in {"hackbench", "stressng"}
    <3>1. CASE Setup(m) BY <3>1 DEF FaultInv, Setup
    <3>2. CASE ~Setup(m)
      BY <2>2, <3>2 DEF FaultInv, Begin, RaiseRtevalError, CrashEarly, Build, Prepare, CheckStop,
         WaitStart
    <3>3. QED BY <3>1, <3>2
  <2>6. QED BY <2>1, <2>3, <2>4, <2>5 DEF FaultInv, TaskInv, Running, NoneBegun
<1>2. CASE pc[m] \in Released \cup {"cleanup"}
  <2>1. \/ Loop(m) \/ Sleep(m) \/ Task(m) \/ Cleanup(m)
    BY <1>2 DEF Run, Begin, Setup, RaiseRtevalError, CrashEarly, Build, Prepare, CheckStop, WaitStart
  <2>2. UNCHANGED <<rterr, donotrun>>
    BY <2>1 DEF Loop, Sleep, Task, SkipTask, TaskDone, SadcFails, StartJob, KeepJob, FailedJob,
       SpawnFails, Cleanup, CleanupDone, CleanJob, CleanMissing
  <2>3. \A n \in Nodes : job'[m][n] = "failed" => "job" \in Faults
    BY <2>1 DEF FaultInv, Loop, Sleep, Task, SkipTask, TaskDone, SadcFails, StartJob, KeepJob,
       FailedJob, SpawnFails, Cleanup, CleanupDone, CleanJob, CleanMissing
  <2>4. ASSUME Contained(m) PROVE TaskInv(m)'
    <3>0. TaskInv(m) BY <2>4 DEF FaultInv
    <3>1. CASE Loop(m) \/ Sleep(m)
      BY <3>0, <3>1, <1>a DEF Loop, Sleep, TaskInv, NoneBegun, AllBegun
    <3>2. CASE TaskDone(m)
      BY <3>0, <3>2, <1>a DEF TaskDone, TaskInv, NoneBegun, AllBegun, OneSlot
    <3>3. CASE SkipTask(m)
      BY <3>0, <3>3, <1>a DEF SkipTask, TaskInv, NoneBegun, AllBegun
    <3>4. CASE SadcFails(m)
      BY <3>0, <3>4, <1>a DEF SadcFails, TaskInv, Slots, PerNode, Running
    <3>5. ASSUME NEW n \in Nodes, StartJob(m, n) \/ KeepJob(m, n) PROVE TaskInv(m)'
      BY <3>0, <3>5, <1>a DEF StartJob, KeepJob, NeedsStart, TaskInv, NoneBegun, AllBegun
    <3>6. ASSUME NEW n \in Nodes, FailedJob(m, n) PROVE TaskInv(m)'
      BY <2>4, <3>0, <3>6, <1>a DEF FailedJob, FaultInv, TaskInv, Contained, OneSlot, Running
    <3>7. ASSUME NEW n \in Nodes, SpawnFails(m, n) PROVE TaskInv(m)'
      <4>1. OneSlot(m) BY <2>4, <3>7 DEF SpawnFails, Contained
      <4>2. /\ n \in Slots(m) /\ job[m][n] # "running" /\ UNCHANGED job
            /\ pc'[m] \in {"task", "crashed"}
        BY <3>7, <1>a DEF SpawnFails, NeedsStart
      <4>3. ~Running(m)' BY <1>a, <4>1, <4>2 DEF OneSlot, Running
      <4>4. QED BY <4>1, <4>2, <4>3 DEF TaskInv, OneSlot, NoneBegun, AllBegun
    <3>8. CASE CleanupDone(m)
      BY <3>0, <3>8, <1>a DEF CleanupDone, ModuleInv, TaskInv, Running, Started
    <3>9. ASSUME NEW n \in Nodes, CleanJob(m, n) PROVE TaskInv(m)'
      BY <3>0, <3>9, <1>a DEF CleanJob, TaskInv, NoneBegun, AllBegun
    <3>10. ASSUME NEW n \in Nodes, CleanMissing(m, n) PROVE TaskInv(m)'
      <4>1. NoneBegun(m) /\ UNCHANGED job /\ pc'[m] \in Ends
        BY <3>0, <3>10, <1>a DEF CleanMissing, TaskInv, AllBegun
      <4>2. ~Running(m)' BY <1>a, <4>1 DEF NoneBegun, Running
      <4>3. QED BY <4>1, <4>2 DEF TaskInv
    <3>11. QED
      BY <2>1, <3>1, <3>2, <3>3, <3>4, <3>5, <3>6, <3>7, <3>8, <3>9, <3>10 DEF Task, Cleanup
  <2>5. QED BY <2>2, <2>3, <2>4 DEF FaultInv
<1>3. QED BY <1>1, <1>2

LEMMA JobKeepsFaults ==
  ASSUME ThreadTypeOK, NEW m \in Modules, NEW i \in Nodes, FaultInv(m), JobEnds(m, i)
  PROVE  FaultInv(m)'
<1>1. PICK s \in {"ok"} \cup (IF "job" \in Faults THEN {"failed"} ELSE {}) :
        job' = [job EXCEPT ![m][i] = s]
  BY DEF JobEnds
<1>2. /\ job[m][i] = "running" /\ job'[m][i] = s /\ s \in {"ok", "failed"}
      /\ s = "failed" => "job" \in Faults
      /\ \A n \in Nodes \ {i} : job'[m][n] = job[m][n]
      /\ UNCHANGED <<pc, rterr, donotrun, todo>>
  BY <1>1 DEF JobEnds, ThreadTypeOK
<1>3. /\ \A n \in Nodes : job'[m][n] = "none" <=> job[m][n] = "none"
      /\ \A n \in Nodes : job'[m][n] = "running" => job[m][n] = "running"
  BY <1>2
<1>4. /\ Slots(m) \subseteq Nodes /\ Slots(m)' = Slots(m)
      /\ OneSlot(m)' <=> OneSlot(m)
      /\ Contained(m)' <=> Contained(m)
  BY SlotsAreNodes DEF Slots, PerNode, OneSlot, Contained
<1>5. TaskInv(m) => TaskInv(m)'
  BY <1>2, <1>3, <1>4 DEF TaskInv, Running, NoneBegun, AllBegun
<1>6. QED BY <1>2, <1>4, <1>5 DEF FaultInv

(* What is left alone keeps it.                                            *)
LEMMA FaultInvKept ==
  ASSUME NEW m, FaultInv(m), pc'[m] = pc[m], rterr'[m] = rterr[m],
         donotrun'[m] = donotrun[m], job'[m] = job[m], todo'[m] = todo[m]
  PROVE  FaultInv(m)'
BY DEF FaultInv, TaskInv, Running, Slots, PerNode, OneSlot, Contained, NoneBegun, AllBegun

(* A contained module whose thread does not live has no process left.      *)
LEMMA DeadIsQuiet ==
  ASSUME NEW m \in Modules, ModuleInv(m), FaultInv(m), Contained(m), ~ThreadAlive(m)
  PROVE  ~Running(m)
BY DEF ModuleInv, FaultInv, TaskInv, ThreadAlive, Started, Running, Released, Ends
=============================================================================
