-------------------------- MODULE RtEvalRun_proofs --------------------------
(***************************************************************************)
(* Proofs about RtEvalRun, for any modules, nodes, faults and bounds: its  *)
(* type invariant, the start barrier, the completeness of the report and   *)
(* the refinement of RunProtocol.                                          *)
(*                                                                         *)
(* The inductive invariant is IInv.  Its part about one module, ModuleInv, *)
(* is preserved by a step of that module's thread whatever the main thread *)
(* does; its part about the main thread, MainInv, only relies on what a    *)
(* thread step can change (StepEffect).                                    *)
(***************************************************************************)
EXTENDS RtEvalRun, ModuleThread_proofs

AllReady(S)    == \A k \in S : IsReady(k)
AllReleased(S) == \A k \in S : start[k]

(* The main thread: which modules it has handled so far.                   *)
MainInv ==
  /\ mtodo \subseteq Worklist(mpc)
  /\ mpc \in TryBody \cup {"wait", "report"} => exc = "none"
  /\ mpc = "startLoads" => \A m \in mtodo \cup Measurements : pc[m] = "new"
  /\ mpc = "pollLoads" => \A m \in Measurements : pc[m] = "new"
  /\ mpc = "startMeasure" => \A m \in mtodo : pc[m] = "new"
  /\ mpc \in {"startMeasure", "pollMeasure"} => AllReady(Loads)
  /\ mpc \in {"unleashLoads", "count", "unleashMeasure"} => AllReady(Modules)
  /\ \A m \in Modules : start[m] => AllReady(Modules)
  /\ mpc = "unleashLoads" => AllReleased(Loads \ mtodo)
  /\ mpc \in {"count", "unleashMeasure"} => AllReleased(Loads)
  /\ mpc = "unleashMeasure" => AllReleased(Measurements \ mtodo)
  /\ \/ stopsig \/ handler # "python"
     \/ mpc \in {"handlers", "loop", "alive", "threads", "restore"}
     \/ mpc \in Finally \cup {"wait", "report"} /\ exc = "none"
     => AllReleased(Measurements)
  /\ mpc \in {"alive", "threads"} => rounds < Rounds
  /\ mpc = "wait" => \A m \in Measurements \ mtodo : finished[m]
  /\ mpc = "report" => \A m \in Measurements : finished[m]

IInv == TypeOK /\ (\A m \in Modules : ModuleInv(m)) /\ MainInv

-----------------------------------------------------------------------------
(* A step of a thread or a job disturbs nothing the main thread relies on. *)
LEMMA MainInvKept ==
  ASSUME MainInv, NEW m \in Modules, StepEffect(m), UNCHANGED <<events, mainVars>>
  PROVE  MainInv'
<1>1. \A k \in Modules : /\ IsReady(k) => IsReady(k)'
                         /\ finished[k] => finished'[k]
                         /\ pc[k] = "new" => pc'[k] = "new"
  BY DEF StepEffect, IsReady, ThreadAlive
<1>2. /\ \A S \in SUBSET Modules : AllReady(S) => AllReady(S)'
      /\ \A S \in SUBSET Modules : AllReleased(S)' <=> AllReleased(S)
  BY <1>1 DEF AllReady, AllReleased, events
<1>3. UNCHANGED <<mpc, mtodo, exc, rounds, stopsig, handler, start, Worklist(mpc)>>
  BY DEF mainVars, events, Worklist
<1>4. Worklist(mpc) \subseteq Modules BY DEF Worklist, Modules
<1>5. QED BY <1>1, <1>2, <1>3, <1>4 DEF MainInv, Modules

-----------------------------------------------------------------------------
(* The invariant holds initially.                                          *)
LEMMA InitInv == Init => IInv
<1> SUFFICES ASSUME Init PROVE IInv OBVIOUS
<1>1. ThreadTypeOK BY DEF Init, ThreadInit, ThreadTypeOK, Labels, JobState
<1>2. IsFiniteSet(Modules) BY ModulesAssumption, FS_Union DEF Modules
<1>3. TypeOK
  <2>1. Cardinality(Modules) \in Nat BY <1>2, FS_CardinalityType
  <2>2. nthreads \in 0..(Cardinality(Modules) + 1) BY <2>1 DEF Init
  <2>3. rounds \in 0..Rounds /\ signals \in 0..MaxSignals BY BoundsAssumption DEF Init
  <2>4. QED BY <1>1, <2>2, <2>3 DEF Init, TypeOK, MainLabels, TryBody, Modules
<1>4. \A m \in Modules : ModuleInv(m)
  BY DEF Init, ThreadInit, ModuleInv, Deciding, Released, Started, Running
<1>5. MainInv
  BY DEF Init, ThreadInit, MainInv, Worklist, AllReleased, AllReady, Modules, TryBody, Finally
<1>6. QED BY <1>3, <1>4, <1>5 DEF IInv

(* Steps of the threads and of their processes preserve it.                *)
LEMMA ThreadKeepsInv ==
  ASSUME IInv, NEW m \in Modules, Thread(m) \/ Job(m)
  PROVE  IInv'
<1>1. ThreadTypeOK /\ ModuleInv(m) BY DEF IInv, TypeOK
<1>2. UNCHANGED <<events, mainVars>> BY DEF Thread, Job
<1>3. ThreadTypeOK' /\ ModuleInv(m)' /\ StepEffect(m)
  <2>1. CASE Thread(m) BY <1>1, <1>2, <2>1, RunStep DEF Thread
  <2>2. CASE Job(m) BY <1>1, <1>2, <2>2, JobStep DEF Job
  <2>3. QED BY <2>1, <2>2
<1>4. TypeOK' BY <1>2, <1>3 DEF IInv, TypeOK, mainVars
<1>5. \A k \in Modules : ModuleInv(k)'
  BY <1>2, <1>3, ModuleInvKept DEF IInv, StepEffect, events
<1>6. MainInv' BY <1>2, <1>3, MainInvKept DEF IInv
<1>7. QED BY <1>4, <1>5, <1>6 DEF IInv

-----------------------------------------------------------------------------
(* Steps of the main thread that leave modules and events alone.           *)
LEMMA ModulesKept ==
  ASSUME IInv, UNCHANGED <<threadVars, events>>
  PROVE  /\ ThreadTypeOK'
         /\ \A m \in Modules : ModuleInv(m)' /\ (IsReady(m) <=> IsReady(m)')
         /\ \A S \in SUBSET Modules : AllReady(S)' <=> AllReady(S)
         /\ \A S \in SUBSET Modules : AllReleased(S)' <=> AllReleased(S)
<1>1. UNCHANGED <<pc, ready, rterr, donotrun, finished, job, todo, start, stop>>
  BY DEF threadVars, events
<1>2. ThreadTypeOK' BY <1>1 DEF IInv, TypeOK, ThreadTypeOK
<1>3. \A m \in Modules : ModuleInv(m)' BY <1>1, ModuleInvKept DEF IInv
<1>4. QED BY <1>1, <1>2, <1>3 DEF AllReady, AllReleased, IsReady

(* The number of threads counted is within its bound.                      *)
LEMMA LiveThreadsType == LiveThreads \in 0..(Cardinality(Modules) + 1)
<1> DEFINE Alive == {m \in Modules : ThreadAlive(m)}
<1>1. IsFiniteSet(Modules) BY ModulesAssumption, FS_Union DEF Modules
<1>2. IsFiniteSet(Alive) /\ Cardinality(Alive) <= Cardinality(Modules)
  BY <1>1, FS_Subset, Alive \subseteq Modules
<1>3. Cardinality(Alive) \in Nat /\ Cardinality(Modules) \in Nat
  BY <1>1, <1>2, FS_CardinalityType
<1>4. LiveThreads = 1 + Cardinality(Alive) BY DEF LiveThreads
<1>5. QED BY <1>2, <1>3, <1>4

(* The steps of the main thread that only move it on.                      *)
LEMMA ControlKeepsInv ==
  ASSUME IInv, UNCHANGED <<threadVars, events>>,
         \/ LoopDone \/ PollDone \/ PollFails \/ CountThreads \/ InstallHandlers
         \/ LoopTest \/ CheckAlive \/ AliveFails \/ CheckThreads \/ RestoreHandlers
         \/ StopDone \/ WaitDone \/ Report \/ Exit
         \/ \E m \in Modules : WaitForCompletion(m)
         \/ \E sig \in {"SIGINT", "SIGTERM"} : Signal(sig)
  PROVE  IInv'
<1>1. TypeOK /\ MainInv BY DEF IInv
<1>2. /\ ThreadTypeOK' /\ \A m \in Modules : ModuleInv(m)'
      /\ \A S \in SUBSET Modules : AllReady(S)' <=> AllReady(S)
      /\ \A S \in SUBSET Modules : AllReleased(S)' <=> AllReleased(S)
      /\ UNCHANGED <<start, finished, pc>>
  BY ModulesKept DEF threadVars, events
<1>3. Modules = Loads \cup Measurements /\ {} \subseteq Modules BY DEF Modules
<1>4. (\A m \in Modules : start[m] => AllReady(Modules))'
  BY <1>1, <1>2 DEF MainInv
<1> USE <1>1, <1>2, <1>3, <1>4 DEF IInv, TypeOK, MainInv, MainGoto, MainAt, Worklist, Raise,
        TryBody, Finally, MainLabels
<1> HIDE DEF ThreadTypeOK, Modules
<1>5. CASE LoopDone BY <1>5 DEF LoopDone
<1>6. CASE PollDone
  <2>1. AllReady(Polled) /\ mpc \in {"pollLoads", "pollMeasure"}
    BY <1>6 DEF PollDone, AllReady
  <2>2. CASE mpc = "pollLoads" BY <1>6, <2>1, <2>2 DEF PollDone, Polled
  <2>3. CASE mpc = "pollMeasure"
    <3>1. AllReady(Modules) BY <2>1, <2>3 DEF Polled, AllReady
    <3>2. QED BY <1>6, <2>3, <3>1 DEF PollDone, AllReleased
  <2>4. QED BY <2>1, <2>2, <2>3
<1>7. CASE PollFails BY <1>7 DEF PollFails
<1>8. CASE CountThreads
  <2>1. TypeOK' BY <1>8, LiveThreadsType DEF CountThreads
  <2>2. MainInv' BY <1>8 DEF CountThreads, AllReleased
  <2>3. QED BY <2>1, <2>2
<1>9. CASE InstallHandlers BY <1>9 DEF InstallHandlers
<1>10. CASE LoopTest BY <1>10 DEF LoopTest
<1>11. CASE CheckAlive BY <1>11 DEF CheckAlive
<1>12. CASE AliveFails BY <1>12 DEF AliveFails
<1>13. CASE CheckThreads
  <2>1. CASE LiveThreads < nthreads BY <1>13, <2>1 DEF CheckThreads
  <2>2. CASE ~(LiveThreads < nthreads)
    <3>1. rounds' \in 0..Rounds BY <1>13, <2>2, BoundsAssumption DEF CheckThreads
    <3>2. QED BY <1>13, <2>2, <3>1 DEF CheckThreads
  <2>3. QED BY <2>1, <2>2
<1>14. CASE RestoreHandlers BY <1>14 DEF RestoreHandlers
<1>15. CASE StopDone BY <1>15 DEF StopDone
<1>16. CASE WaitDone BY <1>16 DEF WaitDone
<1>17. CASE Report BY <1>17 DEF Report
<1>18. CASE Exit BY <1>18 DEF Exit
<1>19. ASSUME NEW m \in Modules, WaitForCompletion(m) PROVE IInv'
  BY <1>19 DEF WaitForCompletion, AllReleased
<1>20. ASSUME NEW sig \in {"SIGINT", "SIGTERM"}, Signal(sig) PROVE IInv'
  <2>1. signals' \in 0..MaxSignals BY <1>20, BoundsAssumption DEF Signal
  <2>2. CASE handler = "rteval" BY <1>20, <2>1, <2>2 DEF Signal
  <2>3. CASE handler # "rteval" /\ mpc' = "stopMeasure"
    BY <1>20, <2>1, <2>3 DEF Signal
  <2>4. CASE handler # "rteval" /\ mpc' \in {"exit", "killed"}
    BY <1>20, <2>1, <2>4 DEF Signal
  <2>5. handler = "rteval" \/ mpc' \in {"stopMeasure", "exit", "killed"}
    BY <1>20 DEF Signal
  <2>6. QED BY <2>2, <2>3, <2>4, <2>5
<1>21. QED
  BY <1>5, <1>6, <1>7, <1>8, <1>9, <1>10, <1>11, <1>12, <1>13, <1>14, <1>15, <1>16,
     <1>17, <1>18, <1>19, <1>20

(* Starting the thread of a module: it is new, so its invariant is easy.   *)
LEMMA StartKeepsInv ==
  ASSUME IInv, NEW m \in Modules, StartModule(m)
  PROVE  IInv'
<1>1. /\ pc[m] = "new" /\ pc' = [pc EXCEPT ![m] = "begin"]
      /\ UNCHANGED <<ready, rterr, donotrun, finished, job, todo, start, stop>>
      /\ UNCHANGED <<mpc, exc, nthreads, rounds, earlystop, stopsig, handler, signals>>
      /\ mtodo' = mtodo \ {m} /\ mpc \in {"startLoads", "startMeasure"} /\ m \in mtodo
  BY DEF StartModule, StartThread, Goto, IInv, MainInv, events
<1>2. /\ pc' \in [Modules -> Labels] /\ pc'[m] = "begin"
      /\ \A k \in Modules \ {m} : pc'[k] = pc[k]
  BY <1>1 DEF IInv, TypeOK, ThreadTypeOK, Labels
<1>3. TypeOK' BY <1>1, <1>2 DEF IInv, TypeOK, ThreadTypeOK
<1>4. ASSUME NEW k \in Modules PROVE ModuleInv(k)'
  <2>1. CASE k = m
    BY <1>1, <1>2, <2>1 DEF IInv, ModuleInv, Started, Running, Slots, PerNode,
                           Preparing, Released, Deciding, Ends
  <2>2. CASE k # m BY <1>1, <1>2, <2>2, ModuleInvKept DEF IInv
  <2>3. QED BY <2>1, <2>2
<1>5. MainInv'
  <2>1. /\ \A S \in SUBSET Modules : AllReady(S)' <=> AllReady(S)
        /\ \A S \in SUBSET Modules : AllReleased(S)' <=> AllReleased(S)
    BY <1>1 DEF AllReady, AllReleased, IsReady
  <2>2. m \in Loads => m \notin Measurements BY ModulesAssumption
  <2>3. QED
    BY <1>1, <1>2, <2>1, <2>2 DEF IInv, MainInv, Worklist, Modules, TryBody, Finally
<1>6. QED BY <1>3, <1>4, <1>5 DEF IInv

(* Releasing a module: by now everybody is ready.                          *)
LEMMA ReleaseKeepsInv ==
  ASSUME IInv, NEW m \in Modules, SetStart(m)
  PROVE  IInv'
<1>1. /\ start' = [start EXCEPT ![m] = TRUE]
      /\ UNCHANGED <<pc, ready, rterr, donotrun, finished, job, todo, stop>>
      /\ UNCHANGED <<mpc, exc, nthreads, rounds, earlystop, stopsig, handler, signals>>
      /\ mtodo' = mtodo \ {m} /\ mpc \in {"unleashLoads", "unleashMeasure"} /\ m \in mtodo
  BY DEF SetStart, threadVars
<1>2. /\ start' \in [Modules -> BOOLEAN] /\ start'[m]
      /\ \A k \in Modules \ {m} : start'[k] = start[k]
  BY <1>1 DEF IInv, TypeOK, ThreadTypeOK
<1>3. TypeOK' BY <1>1, <1>2 DEF IInv, TypeOK, ThreadTypeOK
<1>4. \A k \in Modules : ModuleInv(k)' BY <1>1, <1>2, ModuleInvKept DEF IInv
<1>5. MainInv'
  <2>1. \A S \in SUBSET Modules : AllReady(S)' <=> AllReady(S)
    BY <1>1 DEF AllReady, IsReady
  <2>2. /\ \A S \in SUBSET Modules : AllReleased(S) => AllReleased(S)'
        /\ \A S \in SUBSET Modules : AllReleased(S \ mtodo) => AllReleased(S \ mtodo)'
    BY <1>1, <1>2 DEF AllReleased
  <2>3. QED
    BY <1>1, <2>1, <2>2 DEF IInv, MainInv, Worklist, Modules, TryBody, Finally
<1>6. QED BY <1>3, <1>4, <1>5 DEF IInv

(* Stopping a module.                                                      *)
LEMMA StopKeepsInv ==
  ASSUME IInv, NEW m \in Modules, SetStop(m)
  PROVE  IInv'
<1>1. /\ stop' = [stop EXCEPT ![m] = @ \/ WillRun(m)]
      /\ UNCHANGED <<pc, ready, rterr, donotrun, finished, job, todo, start>>
      /\ UNCHANGED <<mpc, exc, nthreads, rounds, earlystop, stopsig, handler, signals>>
      /\ mtodo' = mtodo \ {m} /\ mpc \in Finally
  BY DEF SetStop, threadVars
<1>2. stop' \in [Modules -> BOOLEAN] BY <1>1 DEF IInv, TypeOK, ThreadTypeOK
<1>3. TypeOK' BY <1>1, <1>2 DEF IInv, TypeOK, ThreadTypeOK
<1>4. \A k \in Modules : ModuleInv(k)' BY <1>1, ModuleInvKept DEF IInv
<1>5. MainInv'
  <2>1. /\ \A S \in SUBSET Modules : AllReady(S)' <=> AllReady(S)
        /\ \A S \in SUBSET Modules : AllReleased(S)' <=> AllReleased(S)
    BY <1>1 DEF AllReady, AllReleased, IsReady
  <2>2. QED
    BY <1>1, <2>1 DEF IInv, MainInv, Worklist, Modules, TryBody, Finally
<1>6. QED BY <1>3, <1>4, <1>5 DEF IInv

(* Every step preserves the invariant.                                     *)
LEMMA NextInv == IInv /\ [Next]_vars => IInv'
<1> SUFFICES ASSUME IInv, [Next]_vars PROVE IInv' OBVIOUS
<1>1. CASE \E m \in Modules : StartModule(m) BY <1>1, StartKeepsInv
<1>2. CASE \E m \in Modules : SetStart(m) BY <1>2, ReleaseKeepsInv
<1>3. CASE \E m \in Modules : SetStop(m) BY <1>3, StopKeepsInv
<1>4. CASE \E m \in Modules : Thread(m) \/ Job(m) BY <1>4, ThreadKeepsInv
<1>5. CASE \/ LoopDone \/ PollDone \/ PollFails \/ CountThreads \/ InstallHandlers
           \/ LoopTest \/ CheckAlive \/ AliveFails \/ CheckThreads \/ RestoreHandlers
           \/ StopDone \/ WaitDone \/ Report \/ Exit
           \/ \E m \in Modules : WaitForCompletion(m)
           \/ \E sig \in {"SIGINT", "SIGTERM"} : Signal(sig)
  <2>1. UNCHANGED <<threadVars, events>>
    BY <1>5 DEF LoopDone, PollDone, PollFails, CountThreads, InstallHandlers, LoopTest,
         CheckAlive, AliveFails, CheckThreads, RestoreHandlers, StopDone, WaitDone,
         Report, Exit, WaitForCompletion, Signal
  <2>2. QED BY <1>5, <2>1, ControlKeepsInv
<1>6. CASE UNCHANGED vars
  <2>1. UNCHANGED <<threadVars, events, mainVars, Worklist(mpc), LiveThreads>>
    BY <1>6 DEF vars, Worklist, mainVars, LiveThreads, ThreadAlive, threadVars
  <2>2. (\A m \in Modules : ModuleInv(m))' BY <2>1, ModulesKept DEF IInv, TypeOK
  <2>3. TypeOK' BY <2>1, ModulesKept DEF IInv, TypeOK, mainVars, threadVars, events
  <2>4. MainInv'
    <3>1. /\ UNCHANGED <<pc, finished, start, stopsig, handler, mpc, mtodo, exc, rounds, Worklist(mpc)>>
          /\ \A S \in SUBSET Modules : AllReady(S)' <=> AllReady(S)
          /\ \A S \in SUBSET Modules : AllReleased(S)' <=> AllReleased(S)
      BY <2>1, ModulesKept DEF mainVars, threadVars, events
    <3>2. mtodo \subseteq Modules BY DEF IInv, TypeOK
    <3>3. QED BY <3>1, <3>2 DEF IInv, MainInv, Modules
  <2>5. QED BY <2>2, <2>3, <2>4 DEF IInv
<1>7. QED BY <1>1, <1>2, <1>3, <1>4, <1>5, <1>6 DEF Next, Main

(* The inductive invariant holds throughout.                               *)
THEOREM Invariance == Spec => []IInv
BY InitInv, NextInv, PTL DEF Spec

(* Type correctness, TypeOK of RtEvalRun, with ThreadTypeOK of its threads.*)
THEOREM TypeCorrect == Spec => []TypeOK
<1>1. IInv => TypeOK BY DEF IInv
<1>2. QED BY Invariance, <1>1, PTL

(* StartBarrier: no workload process of any module is started before all   *)
(* modules are ready (rteval/modules/__init__.py 454-501).                 *)
THEOREM Barrier == Spec => []StartBarrier
<1>1. IInv => StartBarrier
  BY DEF IInv, ModuleInv, MainInv, StartBarrier, AllReady
<1>2. QED BY Invariance, <1>1, PTL

(* ReportComplete: no report before every measurement has been reduced and *)
(* its process is gone (rteval/__init__.py 270-273).                       *)
THEOREM ReportAfterCompletion == Spec => []ReportComplete
<1>1. IInv => ReportComplete
  BY DEF IInv, ModuleInv, MainInv, ReportComplete, MainAt, Modules
<1>2. QED BY Invariance, <1>1, PTL

-----------------------------------------------------------------------------
(* The end of a run.  What a signal or a fault can spoil is the finally    *)
(* clause: a SIGINT that finds Python's own handler there leaves it.       *)
Told(m) == ThreadAlive(m) /\ WillRun(m) => stop[m]

(* No signal, or one, which then is what leads to the finally clause.      *)
Undisturbed == MaxSignals = 0 \/ (MaxSignals = 1 /\ "setup" \notin Faults)

EndInv ==
  /\ mpc \in {"loop", "alive", "threads", "restore"} => handler # "python"
  /\ Undisturbed /\ mpc \in Finally /\ handler = "python" => signals = MaxSignals
  /\ mpc = "stopMeasure" => \A m \in Measurements \ mtodo : Told(m)
  /\ mpc = "stopLoads" => \A m \in Measurements \cup (Loads \ mtodo) : Told(m)
  /\ mpc \in {"wait", "report"} => \A m \in Modules : Told(m)
  /\ Undisturbed /\ mpc = "exit" => \A m \in Modules : Told(m)
  /\ mpc = "gone" => \A m \in Modules : ~ThreadAlive(m)

EIInv == IInv /\ (\A m \in Modules : FaultInv(m)) /\ EndInv

LEMMA InitEnds == Init => EIInv
BY InitInv, ThreadInitInv DEF Init, EIInv, EndInv, Finally

(* Steps of the threads: the dead stay dead, and nobody wants to run again.*)
LEMMA ThreadKeepsEnds ==
  ASSUME EIInv, NEW m \in Modules, Thread(m) \/ Job(m)
  PROVE  EIInv'
<1>1. ThreadTypeOK /\ ModuleInv(m) /\ FaultInv(m) BY DEF EIInv, IInv, TypeOK
<1>2. UNCHANGED <<events, mainVars>> BY DEF Thread, Job
<1>3. StepEffect(m) /\ FaultInv(m)'
  <2>1. CASE Thread(m) BY <1>1, <1>2, <2>1, RunStep, RunKeepsFaults DEF Thread
  <2>2. CASE Job(m) BY <1>1, <1>2, <2>2, JobStep, JobKeepsFaults DEF Job
  <2>3. QED BY <2>1, <2>2
<1>4. \A k \in Modules : FaultInv(k)'
  BY <1>3, FaultInvKept DEF EIInv, StepEffect
<1>5. \A k \in Modules : (Told(k) => Told(k)') /\ (~ThreadAlive(k) => ~ThreadAlive(k)')
  BY <1>2, <1>3 DEF StepEffect, Told, ThreadAlive, WillRun, events
<1>6. EndInv' BY <1>2, <1>5 DEF EIInv, EndInv, mainVars, Modules
<1>7. QED BY <1>4, <1>6, ThreadKeepsInv DEF EIInv

(* Starting a module, which is new, and releasing one.                     *)
LEMMA StartKeepsEnds ==
  ASSUME EIInv, NEW m \in Modules, StartModule(m) \/ SetStart(m)
  PROVE  EIInv'
<1>1. /\ \A k \in Modules : pc'[k] = pc[k] \/ pc'[k] = "begin"
      /\ UNCHANGED <<rterr, donotrun, job, todo>>
  BY DEF StartModule, SetStart, StartThread, Goto, threadVars, EIInv, IInv, TypeOK, ThreadTypeOK
<1>2. \A k \in Modules : FaultInv(k)'
  BY <1>1 DEF EIInv, FaultInv, TaskInv, Running, Slots, PerNode, OneSlot, Contained, NoneBegun,
              AllBegun, Ends
<1>3. mpc' = mpc /\ mpc \notin Finally \cup {"wait", "report", "exit", "gone", "loop", "alive",
                                          "threads", "restore"}
  BY DEF StartModule, SetStart, Finally
<1>4. EndInv' BY <1>3 DEF EndInv, Finally
<1>5. IInv' BY StartKeepsInv, ReleaseKeepsInv DEF EIInv
<1>6. QED BY <1>2, <1>4, <1>5 DEF EIInv

(* Stopping a module tells it, if it will run.                             *)
LEMMA StopKeepsEnds ==
  ASSUME EIInv, NEW m \in Modules, SetStop(m)
  PROVE  EIInv'
<1>1. /\ stop' = [stop EXCEPT ![m] = @ \/ WillRun(m)] /\ mtodo' = mtodo \ {m}
      /\ UNCHANGED <<pc, rterr, donotrun, job, todo, mpc, handler, signals>> /\ mpc \in Finally
  BY DEF SetStop, threadVars
<1>2. Told(m)' /\ \A k \in Modules : Told(k) => Told(k)'
  BY <1>1 DEF Told, ThreadAlive, WillRun, EIInv, IInv, TypeOK, ThreadTypeOK
<1>3. \A k \in Modules : FaultInv(k)' BY <1>1, FaultInvKept DEF EIInv
<1>4. EndInv' BY <1>1, <1>2 DEF EIInv, EndInv, Finally, Modules
<1>5. QED BY <1>3, <1>4, StopKeepsInv DEF EIInv

(* The steps of the main thread that only move it on, and the signals.     *)
LEMMA ControlKeepsEnds ==
  ASSUME EIInv, IInv', UNCHANGED <<threadVars, events>>,
         \/ LoopDone \/ PollDone \/ PollFails \/ CountThreads \/ InstallHandlers
         \/ LoopTest \/ CheckAlive \/ AliveFails \/ CheckThreads \/ RestoreHandlers
         \/ StopDone \/ WaitDone \/ Report \/ Exit
         \/ \E m \in Modules : WaitForCompletion(m)
         \/ \E sig \in {"SIGINT", "SIGTERM"} : Signal(sig)
  PROVE  EIInv'
<1>1. UNCHANGED <<pc, ready, rterr, donotrun, finished, job, todo, start, stop>>
  BY DEF threadVars, events
<1>2. \A k \in Modules : FaultInv(k)' BY <1>1, FaultInvKept DEF EIInv
<1>3. \A k \in Modules : (Told(k)' <=> Told(k)) /\ (ThreadAlive(k)' <=> ThreadAlive(k))
  BY <1>1 DEF Told, ThreadAlive, WillRun
<1>4. Modules = Loads \cup Measurements BY DEF Modules
<1>5. EndInv'
  <2> USE <1>3, <1>4 DEF EIInv, EndInv, MainGoto, MainAt, Worklist, Raise, Finally
  <2>1. CASE LoopDone BY <2>1 DEF LoopDone
  <2>2. CASE PollDone BY <2>2 DEF PollDone
  <2>3. CASE PollFails
    <3>1. "setup" \in Faults
      BY <2>3 DEF PollFails, FaultInv, Polled
    <3>2. Undisturbed => signals = MaxSignals /\ signals' = signals
      BY <2>3, <3>1, BoundsAssumption DEF PollFails, Undisturbed, IInv, TypeOK
    <3>3. mpc' = "stopMeasure" /\ mtodo' = Measurements BY <2>3 DEF PollFails
    <3>4. QED BY <3>2, <3>3
  <2>4. CASE CountThreads \/ InstallHandlers BY <2>4 DEF CountThreads, InstallHandlers
  <2>5. CASE LoopTest BY <2>5 DEF LoopTest
  <2>6. CASE CheckAlive \/ AliveFails BY <2>6 DEF CheckAlive, AliveFails
  <2>7. CASE CheckThreads BY <2>7 DEF CheckThreads
  <2>8. CASE RestoreHandlers BY <2>8 DEF RestoreHandlers
  <2>9. CASE StopDone BY <2>9 DEF StopDone
  <2>10. CASE WaitDone \/ Report \/ \E m \in Modules : WaitForCompletion(m)
    BY <2>10 DEF WaitDone, Report, WaitForCompletion
  <2>11. CASE Exit BY <2>11 DEF Exit
  <2>12. ASSUME NEW sig \in {"SIGINT", "SIGTERM"}, Signal(sig) PROVE EndInv'
    <3>1. signals < MaxSignals /\ signals' = signals + 1 /\ UNCHANGED handler
      BY <2>12 DEF Signal
    <3>2. signals \in Nat /\ MaxSignals \in Nat
      BY BoundsAssumption DEF IInv, TypeOK
    <3>3. Undisturbed => signals' = MaxSignals
      BY <3>1, <3>2 DEF Undisturbed
    <3>4. CASE handler = "rteval" BY <2>12, <3>1, <3>4 DEF Signal
    <3>5. CASE handler = "python" /\ sig = "SIGINT"
      <4>1. CASE mpc \in TryBody
        <5>1. mpc' = "stopMeasure" /\ mtodo' = Measurements BY <2>12, <3>5, <4>1 DEF Signal
        <5>2. QED BY <3>3, <5>1
      <4>2. CASE mpc \notin TryBody
        <5>1. mpc' = "exit" BY <2>12, <3>5, <4>2 DEF Signal
        <5>2. Undisturbed => mpc \in {"wait", "report"}
          BY <2>12, <3>1, <3>2, <3>5, <4>2 DEF Signal, IInv, TypeOK, MainLabels
        <5>3. QED BY <5>1, <5>2
      <4>3. QED BY <4>1, <4>2
    <3>6. CASE ~(handler = "rteval" \/ (handler = "python" /\ sig = "SIGINT"))
      BY <2>12, <3>6 DEF Signal
    <3>7. QED BY <3>4, <3>5, <3>6
  <2>13. QED
    BY <2>1, <2>2, <2>3, <2>4, <2>5, <2>6, <2>7, <2>8, <2>9, <2>10, <2>11, <2>12
<1>6. QED BY <1>2, <1>5 DEF EIInv

LEMMA NextEnds == EIInv /\ [Next]_vars => EIInv'
<1> SUFFICES ASSUME EIInv, [Next]_vars PROVE EIInv' OBVIOUS
<1>1. IInv' BY NextInv DEF EIInv
<1>2. CASE \E m \in Modules : StartModule(m) \/ SetStart(m) BY <1>2, StartKeepsEnds
<1>3. CASE \E m \in Modules : SetStop(m) BY <1>3, StopKeepsEnds
<1>4. CASE \E m \in Modules : Thread(m) \/ Job(m) BY <1>4, ThreadKeepsEnds
<1>5. CASE \/ LoopDone \/ PollDone \/ PollFails \/ CountThreads \/ InstallHandlers
           \/ LoopTest \/ CheckAlive \/ AliveFails \/ CheckThreads \/ RestoreHandlers
           \/ StopDone \/ WaitDone \/ Report \/ Exit
           \/ \E m \in Modules : WaitForCompletion(m)
           \/ \E sig \in {"SIGINT", "SIGTERM"} : Signal(sig)
  <2>1. UNCHANGED <<threadVars, events>>
    BY <1>5 DEF LoopDone, PollDone, PollFails, CountThreads, InstallHandlers, LoopTest,
         CheckAlive, AliveFails, CheckThreads, RestoreHandlers, StopDone, WaitDone,
         Report, Exit, WaitForCompletion, Signal
  <2>2. QED BY <1>1, <1>5, <2>1, ControlKeepsEnds
<1>6. CASE UNCHANGED vars
  <2>1. UNCHANGED <<pc, rterr, donotrun, job, todo, stop, mpc, mtodo, handler, signals>>
    BY <1>6 DEF vars, threadVars, events, mainVars
  <2>2. \A k \in Modules : FaultInv(k)' BY <2>1, FaultInvKept DEF EIInv
  <2>3. EndInv' BY <2>1 DEF EIInv, EndInv, Told, ThreadAlive, WillRun
  <2>4. QED BY <1>1, <2>2, <2>3 DEF EIInv
<1>7. QED BY <1>2, <1>3, <1>4, <1>5, <1>6 DEF Next, Main

THEOREM EndInvariance == Spec => []EIInv
BY InitEnds, NextEnds, PTL DEF Spec

(* NoOrphans, where no module has a process on a second node that outlives *)
(* a task ended by the fault of the first: once rteval is gone by itself   *)
(* no workload process is left (rteval/modules/__init__.py 175-213).       *)
THEOREM OrphansEnd ==
  ASSUME \A m \in Modules : Contained(m)
  PROVE  Spec => []NoOrphans
<1>1. EIInv => NoOrphans
  BY DeadIsQuiet DEF EIInv, IInv, EndInv, NoOrphans, MainAt
<1>2. QED BY EndInvariance, <1>1, PTL

(* StopReachesAll, with no signal, or with one and no kcompile that raises *)
(* before it is ready: however the run ends, every living thread that will *)
(* run has been told to stop (rteval/__init__.py 260-266).                 *)
THEOREM StopsReach ==
  ASSUME Undisturbed
  PROVE  Spec => []StopReachesAll
<1>1. EIInv => StopReachesAll
  BY DEF EIInv, EndInv, StopReachesAll, MainAt, Told
<1>2. QED BY EndInvariance, <1>1, PTL

-----------------------------------------------------------------------------
(* RtEvalRun implements RunProtocol.  What one step of a thread means for  *)
(* the work of its module: a move RunProtocol allows, or none.             *)
LEMMA WorkStep ==
  ASSUME ThreadTypeOK, NEW m \in Modules, ModuleInv(m), Run(m), UNCHANGED events
  PROVE  \/ Work(m)' = Work(m)
         \/ Work(m) = "preparing" /\ Work(m)' = "ready"
         \/ Work(m) = "ready" /\ Work(m)' = "working" /\ start[m]
         \/ Work(m) # "over" /\ Work(m)' = "over"
<1>1. CASE Setup(m)
  <2>1. donotrun'[m] => Work(m)' = "over" BY DEF Work
  <2>2. ~donotrun'[m] => pc'[m] = "build"
    BY <1>1 DEF Setup, Goto, ThreadTypeOK
  <2>3. pc[m] = "setup" /\ (donotrun[m] => donotrun'[m])
    BY <1>1 DEF Setup, At, ThreadTypeOK
  <2>4. QED BY <2>1, <2>2, <2>3 DEF Work, Ends
<1>2. CASE ~Setup(m)
  <2>1. /\ pc' \in [Modules -> Labels] /\ donotrun'[m] = donotrun[m]
        /\ ready[m] => ready'[m]
        /\ \/ pc'[m] = pc[m]
           \/ pc'[m] \in Ends /\ pc[m] \notin Ends
           \/ pc[m] = "begin" /\ pc'[m] = "setup"
           \/ pc[m] = "build" /\ pc'[m] = "prepare"
           \/ pc[m] \in {"prepare", "check", "wait"} /\ pc'[m] \in {"check", "wait"}
           \/ pc[m] = "wait" /\ pc'[m] = "loop" /\ start[m]
           \/ pc[m] \in Released /\ pc'[m] \in Released \cup {"cleanup"}
    <3>1. Run(m) /\ ThreadTypeOK' /\ StepEffect(m) BY RunStep
    <3>2. pc' \in [Modules -> Labels] /\ (ready[m] => ready'[m])
      BY <3>1 DEF ThreadTypeOK, StepEffect
    <3> USE DEF ThreadTypeOK, Goto, At, Ends, Labels, Released
    <3>3. CASE Begin(m) \/ RaiseRtevalError(m) \/ CrashEarly(m) \/ Build(m)
      BY <3>2, <3>3 DEF Begin, RaiseRtevalError, CrashEarly, Build
    <3>4. CASE Prepare(m) \/ CheckStop(m) \/ WaitStart(m) \/ Loop(m) \/ Sleep(m)
      BY <3>2, <3>4 DEF Prepare, CheckStop, WaitStart, Loop, Sleep
    <3>5. CASE Task(m)
      BY <3>2, <3>5 DEF Task, SkipTask, TaskDone, SadcFails, StartJob, KeepJob,
                       FailedJob, SpawnFails
    <3>6. CASE Cleanup(m)
      BY <3>2, <3>6 DEF Cleanup, CleanupDone, CleanJob, CleanMissing
    <3>7. QED BY <1>2, <3>1, <3>3, <3>4, <3>5, <3>6 DEF Run
  <2>2. CASE donotrun[m] \/ pc'[m] \in Ends BY <2>1, <2>2 DEF Work, Ends
  <2>3. CASE ~donotrun[m] /\ pc'[m] \notin Ends
    BY <2>1, <2>3 DEF Work, Ends, Released
  <2>4. QED BY <2>2, <2>3
<1>3. QED BY <1>1, <1>2

(* The initial states of RtEvalRun are initial states of RunProtocol.      *)
LEMMA RefinesInit == Init => Protocol!Init
BY DEF Init, ThreadInit, Protocol!Init, Protocol!Modules, Modules, Phase, Work, Ends

(* A step of a thread or a job is one of its module, or a stutter.         *)
LEMMA ThreadRefines ==
  ASSUME IInv, NEW m \in Modules, Thread(m) \/ Job(m)
  PROVE  [Protocol!Next]_(Protocol!vars)
<1> DEFINE W == [k \in Modules |-> Work(k)]
           R == {k \in Modules : start[k]}
<1>1. ThreadTypeOK /\ ModuleInv(m) BY DEF IInv, TypeOK
<1>2. UNCHANGED <<events, mainVars>> BY DEF Thread, Job
<1>3. StepEffect(m)
  <2>1. CASE Thread(m) BY <1>1, <1>2, <2>1, RunStep DEF Thread
  <2>2. CASE Job(m) BY <1>1, <1>2, <2>2, JobStep DEF Job
  <2>3. QED BY <2>1, <2>2
<1>4. \/ Work(m)' = Work(m)
      \/ Work(m) = "preparing" /\ Work(m)' = "ready"
      \/ Work(m) = "ready" /\ Work(m)' = "working" /\ start[m]
      \/ Work(m) # "over" /\ Work(m)' = "over"
  <2>1. CASE Thread(m) BY <1>1, <1>2, <2>1, WorkStep DEF Thread
  <2>2. CASE Job(m) BY <2>2 DEF Job, JobEnds, Work
  <2>3. QED BY <2>1, <2>2
<1>5. Phase' = Phase /\ R' = R BY <1>2 DEF Phase, mainVars, events
<1>6. \A k \in Modules \ {m} : Work(k)' = Work(k) BY <1>3 DEF StepEffect, Work
<1>7. W' = [W EXCEPT ![m] = Work(m)'] /\ W[m] = Work(m) BY <1>6
<1>8. Protocol!Modules = Modules BY DEF Modules, Protocol!Modules
<1>9. CASE Work(m)' = Work(m)
  BY <1>5, <1>6, <1>9 DEF Protocol!vars
<1>10. CASE Work(m) = "preparing" /\ Work(m)' = "ready"
  BY <1>5, <1>7, <1>8, <1>10 DEF Protocol!Next, Protocol!GetReady, Protocol!Become
<1>11. CASE Work(m) = "ready" /\ Work(m)' = "working" /\ start[m]
  BY <1>5, <1>7, <1>8, <1>11 DEF Protocol!Next, Protocol!Work, Protocol!Become
<1>12. CASE Work(m) # "over" /\ Work(m)' = "over"
  BY <1>5, <1>7, <1>8, <1>12 DEF Protocol!Next, Protocol!Finish, Protocol!Become
<1>13. QED BY <1>4, <1>9, <1>10, <1>11, <1>12

(* Releasing a module is Release: everyone is ready, the loads come first. *)
LEMMA ReleaseRefines ==
  ASSUME IInv, NEW m \in Modules, SetStart(m)
  PROVE  [Protocol!Next]_(Protocol!vars)
<1> DEFINE W == [k \in Modules |-> Work(k)]
           R == {k \in Modules : start[k]}
<1>1. /\ start' = [start EXCEPT ![m] = TRUE] /\ UNCHANGED <<pc, donotrun, mpc, exc>>
      /\ mpc \in {"unleashLoads", "unleashMeasure"} /\ m \in mtodo
  BY DEF SetStart, threadVars
<1>2. Phase = "running" /\ Phase' = Phase /\ W' = W
  BY <1>1 DEF IInv, MainInv, Phase, Work, TryBody
<1>3. R' = R \cup {m} BY <1>1 DEF IInv, TypeOK, ThreadTypeOK
<1>4. \A k \in Modules : W[k] # "preparing"
  BY <1>1 DEF IInv, MainInv, AllReady, IsReady, ModuleInv, Work, Preparing, TypeOK,
              ThreadTypeOK, Labels, Ends
<1>5. m \in Measurements => Loads \subseteq R
  BY <1>1, ModulesAssumption DEF IInv, MainInv, Worklist, AllReleased, Modules
<1>6. Protocol!Modules = Modules BY DEF Modules, Protocol!Modules
<1>7. QED BY <1>2, <1>3, <1>4, <1>5, <1>6 DEF Protocol!Next, Protocol!Release

(* The other steps of the main thread leave the modules' work alone; they  *)
(* abort the run, or report, or mean nothing to RunProtocol.               *)
LEMMA ControlRefines ==
  ASSUME IInv, UNCHANGED <<start, donotrun, [m \in Modules |-> Work(m)]>>,
         \/ Phase' = Phase
         \/ Phase = "running" /\ Phase' = "aborted"
         \/ Phase = "running" /\ Phase' = "reported" /\ mpc = "report"
  PROVE  [Protocol!Next]_(Protocol!vars)
<1> DEFINE W == [k \in Modules |-> Work(k)]
           R == {k \in Modules : start[k]}
<1>1. W' = W /\ R' = R OBVIOUS
<1>2. CASE Phase' = Phase BY <1>1, <1>2 DEF Protocol!vars
<1>3. CASE Phase = "running" /\ Phase' = "aborted"
  BY <1>1, <1>3 DEF Protocol!Next, Protocol!Abort
<1>4. CASE Phase = "running" /\ Phase' = "reported" /\ mpc = "report"
  <2>1. \A m \in Measurements : m \in R /\ W[m] = "over"
    BY <1>4 DEF IInv, MainInv, ModuleInv, AllReleased, Modules, Work, Ends, Phase
  <2>2. QED BY <1>1, <1>4, <2>1 DEF Protocol!Next, Protocol!Report
<1>5. QED BY <1>2, <1>3, <1>4

LEMMA RefinesNext == IInv /\ [Next]_vars => [Protocol!Next]_(Protocol!vars)
<1> SUFFICES ASSUME IInv, [Next]_vars PROVE [Protocol!Next]_(Protocol!vars) OBVIOUS
<1>1. CASE \E m \in Modules : SetStart(m) BY <1>1, ReleaseRefines
<1>2. CASE \E m \in Modules : Thread(m) \/ Job(m) BY <1>2, ThreadRefines
<1>3. ASSUME NEW m \in Modules, StartModule(m) PROVE [Protocol!Next]_(Protocol!vars)
  <2>1. /\ pc[m] = "new" /\ pc' = [pc EXCEPT ![m] = "begin"]
        /\ UNCHANGED <<start, donotrun, mpc, exc>>
    BY <1>3 DEF StartModule, StartThread, Goto, IInv, MainInv, events
  <2>2. \A k \in Modules : Work(k)' = Work(k)
    BY <2>1 DEF Work, IInv, TypeOK, ThreadTypeOK, Ends
  <2>3. QED BY <2>1, <2>2, ControlRefines DEF Phase
<1>4. CASE Report
  <2>1. Phase = "running" /\ Phase' = "reported" /\ mpc = "report"
    BY <1>4 DEF Report, MainGoto, MainAt, Phase, IInv, MainInv
  <2>2. UNCHANGED <<start, donotrun, pc>> BY <1>4 DEF Report, threadVars, events
  <2>3. QED BY <2>1, <2>2, ControlRefines DEF Work
<1>5. CASE \/ LoopDone \/ PollDone \/ PollFails \/ CountThreads \/ InstallHandlers
           \/ LoopTest \/ CheckAlive \/ AliveFails \/ CheckThreads \/ RestoreHandlers
           \/ StopDone \/ WaitDone \/ Exit \/ UNCHANGED vars
           \/ \E m \in Modules : SetStop(m) \/ WaitForCompletion(m)
           \/ \E sig \in {"SIGINT", "SIGTERM"} : Signal(sig)
  <2>1. UNCHANGED <<start, donotrun, pc>>
    BY <1>5 DEF LoopDone, PollDone, PollFails, CountThreads, InstallHandlers, LoopTest,
         CheckAlive, AliveFails, CheckThreads, RestoreHandlers, StopDone, WaitDone,
         Exit, SetStop, WaitForCompletion, Signal, vars, threadVars, events
  <2>2. Phase' = Phase \/ (Phase = "running" /\ Phase' = "aborted")
    <3> USE DEF Phase, MainGoto, MainAt, Raise, IInv, MainInv, TryBody, Finally
    <3>1. CASE LoopDone \/ PollDone \/ PollFails \/ CountThreads \/ InstallHandlers
      BY <3>1 DEF LoopDone, PollDone, PollFails, CountThreads, InstallHandlers
    <3>2. CASE LoopTest \/ CheckAlive \/ AliveFails \/ CheckThreads \/ RestoreHandlers
      BY <3>2 DEF LoopTest, CheckAlive, AliveFails, CheckThreads, RestoreHandlers
    <3>3. CASE StopDone \/ WaitDone \/ Exit \/ UNCHANGED vars
      BY <3>3 DEF StopDone, WaitDone, Exit, vars, mainVars, MainLabels
    <3>4. CASE \E m \in Modules : SetStop(m) \/ WaitForCompletion(m)
      BY <3>4 DEF SetStop, WaitForCompletion
    <3>5. CASE \E sig \in {"SIGINT", "SIGTERM"} : Signal(sig)
      BY <3>5 DEF Signal
    <3>6. QED BY <1>5, <3>1, <3>2, <3>3, <3>4, <3>5
  <2>3. QED BY <2>1, <2>2, ControlRefines DEF Work
<1>6. QED BY <1>1, <1>2, <1>3, <1>4, <1>5 DEF Next, Main

(* KeepsProtocol: whatever threads, faults and signals do, the run keeps   *)
(* the promises of RunProtocol (rteval/__init__.py 170-298).               *)
THEOREM Refinement == Spec => KeepsProtocol
<1>1. Init => Protocol!Init BY RefinesInit
<1>2. IInv /\ [Next]_vars => [Protocol!Next]_(Protocol!vars) BY RefinesNext
<1>3. QED BY Invariance, <1>1, <1>2, PTL DEF Spec, KeepsProtocol, Protocol!Spec
=============================================================================
