----------------------- MODULE MeasurementSuite_proofs -----------------------
(***************************************************************************)
(* Proofs about MeasurementSuite, for any modules, profiles, faults and    *)
(* bounds: its type invariant, the partition into profiles, the report     *)
(* about completed profiles, one measurement at a time and none beside a   *)
(* load it is not to run with.                                             *)
(*                                                                         *)
(* The inductive invariant is IInv.  Its parts relate the position of the  *)
(* main thread to what the modules of the profiles before, at and behind   *)
(* the iterator may have done; a step of a thread only takes a module      *)
(* forward (StepEffect), which none of them minds.                         *)
(***************************************************************************)
EXTENDS MeasurementSuite, ModuleThread_proofs, SequenceTheorems

Mods(i) == Range(profiles[i].mods)

(* The labels at which the current profile has not been started, or not    *)
(* released; at which the loads are being handled; and at which nothing is *)
(* measured.                                                               *)
Unstarted  == {"next", "startLoads", "pollLoads", "startMeasure"}
Unreleased == Unstarted \cup {"pollMeasure", "unleashLoads", "unleash"}
WithLoads  == {"startLoads", "pollLoads", "unleashLoads", "stopLoads", "joinLoads"}
Idle       == {"setup", "wait", "report", "stopLoads", "joinLoads"} \cup Unstarted \cup OnlyLoad

(* The profiles, and where the main thread is in them.                     *)
Partition ==
  /\ profiles \in Seq(Profile)
  /\ \A i \in DOMAIN profiles : profiles[i].mods # <<>>
  /\ \A i \in DOMAIN profiles : \A m \in Mods(i) : info[m] = profiles[i].is
  /\ \A i, j \in DOMAIN profiles : i # j => profiles[i].is # profiles[j].is
  /\ Len(profiles) <= Cardinality(Registered)

ProfileInv ==
  /\ Partition
  /\ iter <= Len(profiles)
  /\ mpc # "setup" => Registered = Measurements
  /\ mpc \in TryBody \cup Finally \cup {"wait"} => iter # 0
  /\ mpc = "report" => iter = 0
  /\ mpc \in WithLoads => Current.is.loads
  /\ mpc \in {"alive", "threads"} => rounds < Rounds

(* What has not been reached yet is as it was made.                        *)
BeginInv ==
  /\ mpc \in {"setup"} \cup OnlyLoad => \A m \in Measurements : pc[m] = "new" /\ ~start[m]
  /\ mpc \in {"setup", "onlyStart"} => \A l \in Loads : pc[l] = "new"
  /\ \A i \in DOMAIN profiles : \A m \in Mods(i) :
       /\ i < iter \/ (i = iter /\ mpc \in Unstarted) => pc[m] = "new"
       /\ i < iter \/ (i = iter /\ mpc \in Unreleased) => ~start[m]

(* What lies behind is complete.                                           *)
DoneInv ==
  mpc # "setup" =>
    \A i \in DOMAIN profiles : i > iter => \A m \in Mods(i) : start[m] => finished[m]

(* At the loop, the modules left of a profile to be run one by one.        *)
QueueInv ==
  mpc \in {"loop", "alive", "threads"} /\ ~Current.is.parallel =>
    serialised # <<>> /\ Range(serialised) \subseteq InProfile

(* The workload of m, once released, is over: it will never run again.     *)
Spent(m) == ~Running(m) /\ (Slots(m) = {} \/ Started(m) \/ ~ThreadAlive(m))

(* Of two modules to be run one after the other one is spent; at the loop  *)
(* all are but the first of those that are left.                           *)
SerialInv ==
  /\ \A m, k \in Measurements :
       m # k /\ info[m] = info[k] /\ ~info[m].parallel /\ start[m] /\ start[k]
         => Spent(m) \/ Spent(k)
  /\ mpc \in {"loop", "alive", "threads"} /\ ~Current.is.parallel =>
       \A m \in InProfile : start[m] => m = Head(serialised) \/ Spent(m)

(* A load that is not going to do anything any more.                       *)
Rested(l) == donotrun[l] \/ ~ThreadAlive(l)

RestInv ==
  /\ \A m \in Measurements : ThreadAlive(m) /\ ~info[m].loads => \A l \in Loads : Rested(l)
  /\ mpc \in Idle => \A m \in Measurements : ~ThreadAlive(m)
  /\ \A i \in DOMAIN profiles : i > iter => mpc = "setup" \/ \A m \in Mods(i) : ~ThreadAlive(m)
  /\ \/ mpc \in {"setup", "next", "wait", "report"}
     \/ mpc \in TryBody \cup Finally /\ ~Current.is.loads
     => \A l \in Loads : Rested(l)

ThreadInv == \A m \in Modules : ModuleInv(m) /\ FaultInv(m)

IInv == /\ TypeOK /\ ThreadInv /\ ProfileInv /\ BeginInv /\ DoneInv /\ QueueInv
        /\ (PromptStart => SerialInv)
        /\ (PromptStop => RestInv)


-----------------------------------------------------------------------------
(* Sequences: the elements of a tail and of an extension.                  *)
LEMMA RangeOfTail ==
  ASSUME NEW S, NEW s \in Seq(S), s # <<>>
  PROVE  Head(s) \in Range(s) /\ Tail(s) \in Seq(S) /\ Range(Tail(s)) \subseteq Range(s)
<1>1. Len(s) \in Nat /\ Len(s) # 0 /\ DOMAIN s = 1..Len(s) OBVIOUS
<1>2. Head(s) \in Range(s) BY <1>1 DEF Range
<1>3. /\ Tail(s) \in Seq(S) /\ DOMAIN Tail(s) = 1..(Len(s) - 1)
      /\ \A i \in 1..(Len(s) - 1) : Tail(s)[i] = s[i + 1]
  BY <1>1
<1>4. ASSUME NEW x \in Range(Tail(s)) PROVE x \in Range(s)
  <2>1. PICK i \in 1..(Len(s) - 1) : x = s[i + 1] BY <1>3 DEF Range
  <2>2. i + 1 \in DOMAIN s BY <1>1
  <2>3. QED BY <2>1, <2>2 DEF Range
<1>5. QED BY <1>2, <1>3, <1>4

LEMMA SecondOfSeq ==
  ASSUME NEW S, NEW s \in Seq(S), Len(s) > 1
  PROVE  s # <<>> /\ s[2] \in Range(s) /\ Tail(s) # <<>> /\ Head(Tail(s)) = s[2]
<1>1. Len(s) \in Nat /\ DOMAIN s = 1..Len(s) /\ s # <<>> OBVIOUS
<1>2. 2 \in DOMAIN s BY <1>1
<1>3. s[2] \in Range(s) BY <1>2 DEF Range
<1>4. Tail(s) \in Seq(S) /\ Len(Tail(s)) = Len(s) - 1 /\ Tail(s)[1] = s[2] BY <1>1
<1>5. Tail(s) # <<>> BY <1>1, <1>4
<1>6. Head(Tail(s)) = s[2] BY <1>4, <1>5
<1>7. QED BY <1>1, <1>3, <1>5, <1>6

LEMMA RangeOfAppend ==
  ASSUME NEW S, NEW s \in Seq(S), NEW x \in S
  PROVE  /\ Append(s, x) \in Seq(S) /\ Append(s, x) # <<>>
         /\ Range(Append(s, x)) = Range(s) \cup {x}
<1>1. /\ Append(s, x) \in Seq(S) /\ Len(Append(s, x)) = Len(s) + 1 /\ Len(s) \in Nat
      /\ Append(s, x)[Len(s) + 1] = x
      /\ \A i \in 1..Len(s) : Append(s, x)[i] = s[i]
  OBVIOUS
<1>2. DOMAIN s = 1..Len(s) /\ DOMAIN Append(s, x) = 1..(Len(s) + 1) BY <1>1
<1>3. Range(s) = {s[i] : i \in 1..Len(s)} BY <1>2 DEF Range
<1>4. Range(Append(s, x)) = {Append(s, x)[i] : i \in 1..(Len(s) + 1)} BY <1>2 DEF Range
<1>5. \A i \in 1..(Len(s) + 1) : i \in 1..Len(s) \/ i = Len(s) + 1 BY <1>1
<1>6. Range(Append(s, x)) \subseteq Range(s) \cup {x} BY <1>1, <1>3, <1>4, <1>5
<1>7. 1..Len(s) \subseteq 1..(Len(s) + 1) /\ Len(s) + 1 \in 1..(Len(s) + 1) BY <1>1
<1>8. Range(s) \cup {x} \subseteq Range(Append(s, x)) BY <1>1, <1>3, <1>4, <1>7
<1>9. Append(s, x) # <<>> BY <1>1
<1>10. QED BY <1>1, <1>6, <1>8, <1>9

(* The measurement modules: one process at most, never declined.           *)
LEMMA Measuring ==
  ASSUME NEW m \in Measurements, ThreadInv
  PROVE  m \in Modules /\ ~PerNode(m) /\ ~donotrun[m] /\ WillRun(m) /\ Contained(m)
<1>1. m \in Modules /\ Kind[m] \in MeasureKinds BY ModulesAssumption DEF Modules
<1>2. ~PerNode(m) /\ Kind[m] \notin {"hackbench", "stressng"}
  BY <1>1 DEF PerNode, MeasureKinds
<1>3. ~donotrun[m] BY <1>1, <1>2 DEF ThreadInv, FaultInv
<1>4. OneSlot(m) BY <1>2 DEF OneSlot, Slots
<1>5. QED BY <1>1, <1>2, <1>3, <1>4 DEF WillRun, Contained

(* The modules of a profile are measurement modules of no other profile.   *)
LEMMA InOneProfile ==
  ASSUME ProfileInv
  PROVE  /\ \A i \in DOMAIN profiles : profiles[i] \in Profile /\ Mods(i) \subseteq Measurements
         /\ \A i, j \in DOMAIN profiles : i # j => Mods(i) \cap Mods(j) = {}
         /\ \A m \in Measurements : m \in Registered <=> \E i \in DOMAIN profiles : m \in Mods(i)
         /\ Len(profiles) \in Nat /\ DOMAIN profiles = 1..Len(profiles)
<1>1. /\ profiles \in Seq(Profile) /\ Len(profiles) \in Nat
      /\ DOMAIN profiles = 1..Len(profiles)
  BY DEF ProfileInv, Partition
<1>2. ASSUME NEW i \in DOMAIN profiles
      PROVE  profiles[i] \in Profile /\ Mods(i) \subseteq Measurements
  <2>1. profiles[i] \in Profile BY <1>1
  <2>2. profiles[i].mods \in Seq(Measurements) BY <2>1 DEF Profile
  <2>3. QED BY <2>1, <2>2, RangeOfSeq DEF Mods
<1>3. ASSUME NEW i \in DOMAIN profiles, NEW j \in DOMAIN profiles, i # j
      PROVE  Mods(i) \cap Mods(j) = {}
  BY <1>3 DEF ProfileInv, Partition
<1>4. QED BY <1>1, <1>2, <1>3 DEF Registered, Mods

-----------------------------------------------------------------------------
(* A step of a thread or of a job: Spent is for good.                      *)
LEMMA SpentKept ==
  ASSUME ThreadTypeOK, ThreadInv, NEW m \in Measurements, Spent(m),
         Run(m) \/ \E n \in Nodes : JobEnds(m, n)
  PROVE  Spent(m)'
<1>1. m \in Modules /\ ~PerNode(m) BY Measuring
<1>2. /\ Slots(m) \subseteq Nodes /\ Slots(m)' = Slots(m) /\ todo[m] \subseteq Slots(m)
      /\ \A n, k \in Slots(m) : n = k
      /\ \A n \in Nodes : job[m][n] # "none" => n \in Slots(m)
  BY <1>1, SlotsAreNodes DEF Slots, PerNode, ThreadInv, ModuleInv
<1>3. CASE \E n \in Nodes : JobEnds(m, n)
  BY <1>1, <1>3 DEF JobEnds, Spent, Running
<1>4. CASE Run(m)
  <2>1. CASE \E n \in Nodes : StartJob(m, n)
    <3>1. PICK n \in Nodes : StartJob(m, n) BY <2>1
    <3>2. n \in Slots(m) /\ job[m][n] = "none" /\ pc[m] = "task"
      BY <1>1, <1>2, <3>1 DEF StartJob, NeedsStart, At
    <3>3. ~Started(m) BY <1>2, <3>2 DEF Started
    <3>4. ThreadAlive(m) BY <3>2 DEF ThreadAlive, Ends
    <3>5. QED BY <3>2, <3>3, <3>4 DEF Spent
  <2>2. CASE \E n \in Nodes : CleanJob(m, n)
    <3>1. PICK n \in Nodes : CleanJob(m, n) BY <2>2
    <3>2. /\ job' = [job EXCEPT ![m][n] = IF @ = "running" THEN "ok" ELSE @]
          /\ job[m][n] # "none"
      BY <3>1 DEF CleanJob
    <3>3. job'[m][n] # "none" /\ job'[m][n] # "running" BY <1>1, <3>2 DEF ThreadTypeOK
    <3>4. \A k \in Nodes \ {n} : job'[m][k] = job[m][k] BY <1>1, <3>2 DEF ThreadTypeOK
    <3>5. ~Running(m)' /\ Started(m)' BY <3>3, <3>4 DEF Spent, Running, Started
    <3>6. QED BY <3>5 DEF Spent
  <2>3. CASE ~(\E n \in Nodes : StartJob(m, n) \/ CleanJob(m, n))
    <3>1. UNCHANGED job
      BY <1>4, <2>3 DEF Run, Begin, Setup, RaiseRtevalError, CrashEarly, Build, Prepare,
         CheckStop, WaitStart, Loop, Sleep, Task, SkipTask, TaskDone, SadcFails, KeepJob,
         FailedJob, SpawnFails, Cleanup, CleanupDone, CleanMissing
    <3>2. CASE ThreadAlive(m) BY <1>2, <3>1, <3>2 DEF Spent, Running, Started
    <3>3. CASE ~ThreadAlive(m)
      BY <1>4, <3>3 DEF Run, Begin, Setup, RaiseRtevalError, CrashEarly, Build, Prepare,
         CheckStop, WaitStart, Loop, Sleep, Task, SkipTask, TaskDone, SadcFails, StartJob,
         KeepJob, FailedJob, SpawnFails, Cleanup, CleanupDone, CleanJob, CleanMissing,
         ThreadAlive, Ends, At
    <3>4. QED BY <3>2, <3>3
  <2>4. QED BY <2>1, <2>2, <2>3
<1>5. QED BY <1>3, <1>4

(* The invariant is preserved by every step of a thread and its jobs.      *)
LEMMA ThreadKeepsInv ==
  ASSUME IInv, NEW m \in Modules, Thread(m) \/ Job(m)
  PROVE  IInv'
<1>1. ThreadTypeOK /\ ModuleInv(m) /\ FaultInv(m) BY DEF IInv, TypeOK, ThreadInv
<1>2. UNCHANGED <<events, suiteVars>> BY DEF Thread, Job
<1>3. Run(m) \/ \E n \in Nodes : JobEnds(m, n) BY DEF Thread, Job
<1>4. ThreadTypeOK' /\ ModuleInv(m)' /\ FaultInv(m)' /\ StepEffect(m)
  <2>1. CASE Run(m) BY <1>1, <1>2, <2>1, RunStep, RunKeepsFaults
  <2>2. CASE \E n \in Nodes : JobEnds(m, n) BY <1>1, <1>2, <2>2, JobStep, JobKeepsFaults
  <2>3. QED BY <1>3, <2>1, <2>2
<1>5. /\ UNCHANGED <<start, stop, info, onlyload, profiles, iter, mpc, exc, serialised, nthreads>>
      /\ UNCHANGED <<rounds, stoptime, earlystop, stopsig, handler, signals>>
  BY <1>2 DEF events, suiteVars, local, process, fixed
<1>6. /\ Registered' = Registered /\ Current' = Current /\ InProfile' = InProfile
      /\ \A i : Mods(i)' = Mods(i)
  BY <1>5 DEF Registered, Current, InProfile, Mods
<1>7. TypeOK' BY <1>4, <1>5 DEF IInv, TypeOK
<1>8. ThreadInv'
  <2>1. ASSUME NEW k \in Modules \ {m} PROVE ModuleInv(k)' /\ FaultInv(k)'
    BY <1>4, <1>5, ModuleInvKept, FaultInvKept DEF IInv, ThreadInv, StepEffect
  <2>2. QED BY <1>4, <2>1 DEF ThreadInv
<1>9. ProfileInv' BY <1>5, <1>6 DEF IInv, ProfileInv, Partition
<1>10. \A k \in Modules : /\ ~ThreadAlive(k) => ~ThreadAlive(k)' /\ pc'[k] = pc[k]
                          /\ finished[k] => finished'[k]
                          /\ Rested(k) => Rested(k)'
  <2>1. ASSUME NEW k \in Modules PROVE ~ThreadAlive(k) => pc'[k] = pc[k]
    BY <1>4 DEF StepEffect
  <2>2. QED BY <1>4, <2>1 DEF StepEffect, ThreadAlive, Rested
<1>11. \A k \in Modules : pc[k] = "new" => pc'[k] = "new"
  BY <1>10 DEF ThreadAlive
<1>12. Loads \subseteq Modules /\ Measurements \subseteq Modules BY DEF Modules
<1>13. ProfileInv BY DEF IInv
<1>14. \A i \in DOMAIN profiles : Mods(i) \subseteq Modules
  BY <1>12, <1>13, InOneProfile
<1>15. BeginInv' BY <1>5, <1>6, <1>11, <1>12, <1>14 DEF IInv, BeginInv
<1>16. DoneInv' BY <1>5, <1>6, <1>10, <1>14 DEF IInv, DoneInv
<1>q. QueueInv' BY <1>5, <1>6 DEF IInv, QueueInv
<1>17. PromptStart => SerialInv'
  <2>1. ASSUME NEW k \in Measurements, Spent(k) PROVE Spent(k)'
    <3>1. CASE k = m BY <1>1, <1>3, <2>1, <3>1, SpentKept DEF IInv
    <3>2. CASE k # m
      <4>1. job'[k] = job[k] /\ pc'[k] = pc[k] BY <1>4, <1>12, <3>2 DEF StepEffect
      <4>2. QED BY <2>1, <4>1 DEF Spent, Running, Started, Slots, PerNode, ThreadAlive
    <3>3. QED BY <3>1, <3>2
  <2>2. mpc \in {"loop", "alive", "threads"} => InProfile \subseteq Measurements
    <3>1. mpc \in {"loop", "alive", "threads"} => iter \in DOMAIN profiles
      BY InOneProfile DEF IInv, ProfileInv, Partition, TryBody, TypeOK
    <3>2. QED BY <1>13, <3>1, InOneProfile DEF InProfile, Current, Mods
  <2>3. QED BY <1>5, <1>6, <2>1, <2>2 DEF IInv, SerialInv
<1>18. PromptStop => RestInv'
  BY <1>5, <1>6, <1>10, <1>12, <1>14 DEF IInv, RestInv
<1>19. QED BY <1>7, <1>8, <1>9, <1>15, <1>16, <1>q, <1>17, <1>18 DEF IInv

-----------------------------------------------------------------------------
(* The invariant holds initially.                                          *)
LEMMA InitInv == Init => IInv
<1> SUFFICES ASSUME Init PROVE IInv OBVIOUS
<1>1. ThreadTypeOK /\ ThreadInv BY ThreadInitInv DEF Init, ThreadInv
<1>2. IsFiniteSet(Modules) /\ IsFiniteSet(Measurements)
  BY ModulesAssumption, FS_Union DEF Modules
<1>3. Cardinality(Modules) \in Nat /\ Cardinality(Measurements) \in Nat
  BY <1>2, FS_CardinalityType
<1>4. nthreads \in 0..(Cardinality(Modules) + 1) BY <1>3 DEF Init
<1>5. iter \in 0..Cardinality(Measurements) BY <1>3 DEF Init
<1>6. rounds \in 0..Rounds /\ signals \in 0..MaxSignals BY SuiteAssumption DEF Init
<1>7. DOMAIN profiles = {} /\ Len(profiles) = 0 /\ profiles \in Seq(Profile)
      /\ serialised \in Seq(Measurements)
  BY DEF Init
<1>8. TypeOK BY <1>1, <1>4, <1>5, <1>6, <1>7 DEF Init, TypeOK, MainLabels
<1>9. ProfileInv
  <2>1. Registered = {} BY <1>7 DEF Registered
  <2>2. Cardinality(Registered) = 0 BY <2>1, FS_EmptySet
  <2>3. QED BY <1>7, <2>2 DEF Init, ProfileInv, Partition, TryBody, Finally, WithLoads
<1>10. \A m \in Modules : pc[m] = "new" /\ ~start[m] BY DEF Init, ThreadInit
<1>11. Measurements \subseteq Modules /\ Loads \subseteq Modules BY DEF Modules
<1>12. BeginInv BY <1>7, <1>10, <1>11 DEF BeginInv
<1>13. DoneInv BY DEF Init, DoneInv
<1>14. SerialInv /\ QueueInv BY <1>10, <1>11 DEF Init, SerialInv, QueueInv
<1>15. \A m \in Modules : ~ThreadAlive(m) /\ Rested(m) BY <1>10 DEF ThreadAlive, Rested
<1>16. RestInv BY <1>7, <1>11, <1>15 DEF Init, RestInv
<1>17. QED BY <1>1, <1>8, <1>9, <1>12, <1>13, <1>14, <1>16 DEF IInv

-----------------------------------------------------------------------------
(* The profile the main thread is at, while it is at one.                  *)
LEMMA AtProfile ==
  ASSUME TypeOK, ProfileInv, mpc \in TryBody \cup Finally \cup {"wait"} \/ (mpc = "next" /\ iter # 0)
  PROVE  /\ iter \in DOMAIN profiles /\ Current \in Profile /\ Current.mods # <<>>
         /\ Current.mods \in Seq(Measurements)
         /\ InProfile = Mods(iter) /\ InProfile \subseteq Measurements
         /\ \A m \in InProfile : info[m] = Current.is
<1>1. iter \in DOMAIN profiles
  <2>1. iter # 0 /\ iter \in Nat /\ iter <= Len(profiles) BY DEF ProfileInv, Partition, TypeOK
  <2>2. QED BY <2>1, InOneProfile
<1>2. Current \in Profile /\ InProfile = Mods(iter) BY <1>1, InOneProfile DEF Current, InProfile, Mods
<1>3. QED BY <1>1, <1>2, InOneProfile DEF ProfileInv, Partition, Current, Profile

(* The number of threads counted is within its bound.                      *)
LEMMA LiveThreadsType == LiveThreads \in 0..(Cardinality(Modules) + 1)
<1> DEFINE Alive == {m \in Modules : ThreadAlive(m)}
<1>1. IsFiniteSet(Modules) BY ModulesAssumption, FS_Union DEF Modules
<1>2. IsFiniteSet(Alive) /\ Cardinality(Alive) <= Cardinality(Modules)
  BY <1>1, FS_Subset, Alive \subseteq Modules
<1>3. Cardinality(Alive) \in Nat /\ Cardinality(Modules) \in Nat
  BY <1>1, <1>2, FS_CardinalityType
<1>4. LiveThreads = 1 + Cardinality(Alive) BY DEF LiveThreads
<1>5. QED BY <1>2, <1>3, <1>4

(* The steps of the main thread that only move it on, and a signal.        *)
Control ==
  /\ UNCHANGED <<threadVars, events, info, onlyload, profiles>>
  /\ \/ SetupDone \/ NextProfile \/ Poll \/ LoopTest \/ CheckThreads \/ RestoreHandlers
     \/ JoinGroup \/ WaitForCompletion \/ Report \/ Exit \/ OnlyLoadFails \/ OnlyLoadExit
     \/ Interrupt \/ UNCHANGED vars
     \/ MainAt("startLoads") /\ Raise("RuntimeError")
        /\ UNCHANGED <<iter, local, process, fixed>>

(* What they leave alone.                                                  *)
LEMMA ControlFrame ==
  ASSUME Control, ThreadTypeOK, ThreadInv
  PROVE  /\ UNCHANGED <<pc, ready, rterr, donotrun, start, stop, finished, job, todo>>
         /\ UNCHANGED <<info, onlyload, profiles, Registered>>
         /\ iter' = iter => Current' = Current /\ InProfile' = InProfile
         /\ \A i : Mods(i)' = Mods(i)
         /\ \A m : /\ ThreadAlive(m)' <=> ThreadAlive(m)
                   /\ Rested(m)' <=> Rested(m)
                   /\ Spent(m)' <=> Spent(m)
         /\ ThreadTypeOK' /\ ThreadInv'
<1>1. /\ UNCHANGED <<pc, ready, rterr, donotrun, start, stop, finished, job, todo>>
      /\ UNCHANGED <<info, onlyload, profiles>>
  BY DEF Control, threadVars, events
<1>2. UNCHANGED Registered /\ \A i : Mods(i)' = Mods(i) BY <1>1 DEF Registered, Mods
<1>3. iter' = iter => Current' = Current /\ InProfile' = InProfile
  BY <1>1 DEF Current, InProfile
<1>4. \A m : /\ ThreadAlive(m)' <=> ThreadAlive(m)
             /\ Rested(m)' <=> Rested(m)
             /\ Spent(m)' <=> Spent(m)
  BY <1>1 DEF ThreadAlive, Rested, Spent, Running, Started, Slots, PerNode
<1>5. ThreadTypeOK' BY <1>1 DEF ThreadTypeOK
<1>6. ThreadInv' BY <1>1, ModuleInvKept, FaultInvKept DEF ThreadInv
<1>7. QED BY <1>1, <1>2, <1>3, <1>4, <1>5, <1>6

LEMMA ControlType ==
  ASSUME TypeOK, ThreadInv, ProfileInv, Control
  PROVE  TypeOK'
<1>1. ThreadTypeOK' /\ UNCHANGED <<info, onlyload, profiles>>
  BY ControlFrame DEF TypeOK
<1>2. IsFiniteSet(Registered) /\ Cardinality(Registered) <= Cardinality(Measurements)
  BY ModulesAssumption, FS_Subset, Registered \subseteq Measurements DEF Registered
<1>3. Cardinality(Registered) \in Nat /\ Cardinality(Measurements) \in Nat
  BY <1>2, ModulesAssumption, FS_CardinalityType
<1>4. Len(profiles) \in 0..Cardinality(Measurements)
  BY <1>2, <1>3, InOneProfile DEF ProfileInv, Partition
<1>5. Cardinality(Modules) \in Nat
  BY ModulesAssumption, FS_Union, FS_CardinalityType DEF Modules
<1> USE <1>1 DEF TypeOK, MainAt, MainLabels, TryBody, Finally, OnlyLoad, Raise, local, process, fixed
<1> HIDE DEF ThreadTypeOK
<1>6. CASE SetupDone BY <1>4, <1>6 DEF SetupDone
<1>7. CASE NextProfile
  <2>1. 0 \in 0..Rounds /\ 0 \in 0..(Cardinality(Modules) + 1)
    BY <1>5, SuiteAssumption
  <2>2. QED BY <1>7, <2>1 DEF NextProfile
<1>8. CASE Poll BY <1>8 DEF Poll
<1>9. CASE LoopTest BY <1>9 DEF LoopTest
<1>10. CASE CheckThreads
  <2>1. rounds' \in 0..Rounds BY <1>10, SuiteAssumption DEF CheckThreads, ProfileInv, Partition
  <2>2. QED BY <1>10, <2>1 DEF CheckThreads
<1>11. CASE RestoreHandlers BY <1>11 DEF RestoreHandlers
<1>12. CASE JoinGroup BY <1>12 DEF JoinGroup
<1>13. CASE WaitForCompletion
  <2>1. iter' \in 0..Cardinality(Measurements) BY <1>3, <1>13 DEF WaitForCompletion, ProfileInv, Partition
  <2>2. QED BY <1>13, <2>1 DEF WaitForCompletion
<1>14. CASE Report BY <1>14 DEF Report
<1>15. CASE Exit BY <1>15 DEF Exit
<1>16. CASE OnlyLoadFails BY <1>16 DEF OnlyLoadFails
<1>17. CASE OnlyLoadExit BY <1>17 DEF OnlyLoadExit
<1>18. CASE Interrupt
  <2>1. signals' \in 0..MaxSignals BY <1>18, SuiteAssumption DEF Interrupt
  <2>2. mpc' \in MainLabels /\ exc' \in {"none", "RuntimeError", "KeyboardInterrupt"}
    BY <1>18 DEF Interrupt
  <2>3. QED BY <1>18, <2>1, <2>2 DEF Interrupt
<1>19. CASE UNCHANGED vars BY <1>19 DEF vars, suiteVars
<1>20. CASE MainAt("startLoads") /\ Raise("RuntimeError") /\ UNCHANGED <<iter, local, process, fixed>>
  BY <1>20
<1>21. QED
  BY <1>6, <1>7, <1>8, <1>9, <1>10, <1>11, <1>12, <1>13, <1>14, <1>15, <1>16, <1>17, <1>18,
     <1>19, <1>20 DEF Control

(* Where they lead the main thread.                                        *)
Move(from, to) == mpc = from /\ mpc' = to

SetupMove  == /\ mpc = "setup" /\ Registered = Measurements
              /\ mpc' \in {"next", "onlyStart"} /\ iter' = Len(profiles)
NextMove   == \/ iter = 0 /\ Move("next", "report")
              \/ iter # 0 /\ Current.is.loads /\ Move("next", "startLoads")
              \/ iter # 0 /\ ~Current.is.loads /\ Move("next", "startMeasure")
TryMove    == \/ Move("pollLoads", "startMeasure")
              \/ Current.is.loads /\ Move("pollMeasure", "unleashLoads")
              \/ ~Current.is.loads /\ Move("pollMeasure", "unleash")
              \/ rounds < Rounds /\ UNCHANGED rounds /\ Move("loop", "alive")
              \/ Move("threads", "loop") \/ Move("loop", "restore")
              \/ mpc \in TryBody /\ mpc' = "stopMeasure"
JoinMove   == \/ Current.is.loads /\ Move("joinMeasure", "stopLoads") /\ Joined(InProfile)
              \/ ~Current.is.loads /\ Move("joinMeasure", "wait") /\ Joined(InProfile)
              \/ Move("joinLoads", "wait") /\ Joined(Loads)
WaitMove   == /\ Move("wait", "next") /\ iter' = iter - 1
              /\ \A m \in InProfile : start[m] => finished[m]
LeaveMove  == mpc # "setup" /\ mpc' \in {"exit", "gone", "killed"}

LEMMA ControlMoves ==
  ASSUME Control
  PROVE  /\ UNCHANGED serialised
         /\ \/ SetupMove \/ WaitMove
            \/ iter' = iter /\ (NextMove \/ TryMove \/ JoinMove \/ LeaveMove)
            \/ UNCHANGED <<iter, mpc, rounds>>
<1> USE DEF MainAt, Raise, local, fixed, process
<1>1. CASE SetupDone BY <1>1 DEF SetupDone, SetupMove
<1>2. CASE NextProfile BY <1>2 DEF NextProfile, NextMove, Move
<1>3. CASE Poll
  <2>1. UNCHANGED <<iter, serialised>> BY <1>3 DEF Poll
  <2>2. CASE mpc' = "stopMeasure" BY <1>3, <2>1, <2>2 DEF Poll, TryMove, TryBody
  <2>3. CASE mpc' # "stopMeasure" /\ mpc = "pollLoads"
    BY <1>3, <2>1, <2>3 DEF Poll, TryMove, Move
  <2>4. CASE mpc' # "stopMeasure" /\ mpc = "pollMeasure" /\ Current.is.loads
    BY <1>3, <2>1, <2>4 DEF Poll, TryMove, Move
  <2>5. CASE mpc' # "stopMeasure" /\ mpc = "pollMeasure" /\ ~Current.is.loads
    BY <1>3, <2>1, <2>5 DEF Poll, TryMove, Move
  <2>6. QED BY <1>3, <2>2, <2>3, <2>4, <2>5 DEF Poll
<1>4. CASE LoopTest BY <1>4 DEF LoopTest, TryMove, Move
<1>5. CASE CheckThreads BY <1>5 DEF CheckThreads, TryMove, Move, TryBody
<1>6. CASE RestoreHandlers BY <1>6 DEF RestoreHandlers, TryMove, Move, TryBody
<1>7. CASE JoinGroup
  <2>1. CASE MainAt("joinMeasure") BY <1>7, <2>1 DEF JoinGroup, JoinMove, LeaveMove, Move
  <2>2. CASE MainAt("joinLoads") BY <1>7, <2>2 DEF JoinGroup, JoinMove, LeaveMove, Move
  <2>3. QED BY <1>7, <2>1, <2>2 DEF JoinGroup
<1>8. CASE WaitForCompletion BY <1>8 DEF WaitForCompletion, WaitMove, Move
<1>9. CASE Report \/ Exit \/ OnlyLoadFails \/ OnlyLoadExit
  BY <1>9 DEF Report, Exit, OnlyLoadFails, OnlyLoadExit, LeaveMove
<1>10. CASE Interrupt BY <1>10 DEF Interrupt, LeaveMove, TryMove
<1>11. CASE UNCHANGED vars BY <1>11 DEF vars, suiteVars
<1>12. CASE MainAt("startLoads") /\ Raise("RuntimeError") /\ UNCHANGED <<iter, local, process, fixed>>
  BY <1>12 DEF TryMove, TryBody
<1>13. QED
  BY <1>1, <1>2, <1>3, <1>4, <1>5, <1>6, <1>7, <1>8, <1>9, <1>10, <1>11, <1>12 DEF Control

LEMMA ControlKeepsInv ==
  ASSUME IInv, Control
  PROVE  IInv'
<1>1. TypeOK' BY ControlType DEF IInv
<1>2. /\ UNCHANGED <<pc, start, stop, finished, donotrun, info, profiles, Registered, serialised>>
      /\ iter' = iter => Current' = Current /\ InProfile' = InProfile
      /\ \A i : Mods(i)' = Mods(i)
      /\ \A m : /\ ThreadAlive(m)' <=> ThreadAlive(m)
                /\ Rested(m)' <=> Rested(m)
                /\ Spent(m)' <=> Spent(m)
      /\ ThreadInv'
  BY ControlFrame, ControlMoves DEF IInv, TypeOK
<1>3. /\ \/ SetupMove \/ WaitMove
         \/ iter' = iter /\ (NextMove \/ TryMove \/ JoinMove \/ LeaveMove)
         \/ UNCHANGED <<iter, mpc, rounds>>
  BY ControlMoves
<1>4. /\ iter \in Nat /\ Len(profiles) \in Nat /\ DOMAIN profiles = 1..Len(profiles)
      /\ Cardinality(Registered) \in Nat
  BY InOneProfile, FS_Subset, ModulesAssumption, FS_CardinalityType,
     Registered \subseteq Measurements DEF IInv, TypeOK, ProfileInv, Partition, Registered
<1>5. \A i \in DOMAIN profiles : Mods(i) \subseteq Measurements
  BY InOneProfile DEF IInv
<1>a. ASSUME SetupMove
      PROVE  iter' <= Len(profiles') /\ \A i \in DOMAIN profiles : ~(i > iter')
  <2>1. iter' = Len(profiles) /\ Len(profiles') = Len(profiles) BY <1>2, <1>a DEF SetupMove
  <2>2. \A i \in 1..Len(profiles) : ~(i > Len(profiles)) BY <1>4
  <2>3. QED BY <1>4, <2>1, <2>2
<1> USE <1>2, <1>4, <1>5 DEF Move, TryBody, Finally, OnlyLoad, Unstarted, Unreleased, WithLoads, Idle
<1> HIDE DEF Current, InProfile, Registered, Mods, Rested, Spent, ThreadAlive, ThreadInv
<1>6. ProfileInv'
  <2>0. Partition' BY DEF IInv, ProfileInv, Partition
  <2>1. CASE SetupMove BY <1>a, <2>0, <2>1 DEF IInv, ProfileInv, SetupMove
  <2>2. CASE WaitMove BY <2>0, <2>2 DEF IInv, ProfileInv, WaitMove
  <2>3. CASE iter' = iter /\ NextMove BY <2>0, <2>3 DEF IInv, ProfileInv, NextMove
  <2>4. CASE iter' = iter /\ TryMove BY <2>0, <2>4 DEF IInv, ProfileInv, TryMove
  <2>5. CASE iter' = iter /\ JoinMove BY <2>0, <2>5 DEF IInv, ProfileInv, JoinMove
  <2>6. CASE iter' = iter /\ LeaveMove BY <2>0, <2>6 DEF IInv, ProfileInv, LeaveMove
  <2>7. CASE UNCHANGED <<iter, mpc, rounds>> BY <2>0, <2>7 DEF IInv, ProfileInv
  <2>8. QED BY <1>3, <2>1, <2>2, <2>3, <2>4, <2>5, <2>6, <2>7
<1>7. BeginInv'
  <2>1. CASE SetupMove BY <2>1 DEF IInv, BeginInv, SetupMove
  <2>2. CASE WaitMove BY <2>2 DEF IInv, BeginInv, WaitMove
  <2>3. CASE iter' = iter /\ NextMove BY <2>3 DEF IInv, BeginInv, NextMove
  <2>4. CASE iter' = iter /\ TryMove BY <2>4 DEF IInv, BeginInv, TryMove
  <2>5. CASE iter' = iter /\ JoinMove BY <2>5 DEF IInv, BeginInv, JoinMove
  <2>6. CASE iter' = iter /\ LeaveMove BY <2>6 DEF IInv, BeginInv, LeaveMove
  <2>7. CASE UNCHANGED <<iter, mpc, rounds>> BY <2>7 DEF IInv, BeginInv
  <2>8. QED BY <1>3, <2>1, <2>2, <2>3, <2>4, <2>5, <2>6, <2>7
<1>8. DoneInv'
  <2>1. CASE SetupMove BY <1>a, <2>1 DEF DoneInv
  <2>2. CASE WaitMove
    <3>1. InProfile = Mods(iter) BY <2>2, AtProfile DEF IInv, WaitMove
    <3>2. QED BY <2>2, <3>1 DEF IInv, DoneInv, WaitMove
  <2>3. CASE iter' = iter /\ (NextMove \/ TryMove \/ JoinMove \/ LeaveMove)
    BY <2>3 DEF IInv, DoneInv, NextMove, TryMove, JoinMove, LeaveMove
  <2>4. CASE UNCHANGED <<iter, mpc, rounds>> BY <2>4 DEF IInv, DoneInv
  <2>5. QED BY <1>3, <2>1, <2>2, <2>3, <2>4
<1>q. QueueInv'
  <2>1. CASE SetupMove BY <2>1 DEF QueueInv, SetupMove
  <2>2. CASE WaitMove BY <2>2 DEF QueueInv, WaitMove
  <2>3. CASE iter' = iter /\ (NextMove \/ TryMove \/ JoinMove \/ LeaveMove)
    BY <2>3 DEF IInv, QueueInv, NextMove, TryMove, JoinMove, LeaveMove
  <2>4. CASE UNCHANGED <<iter, mpc, rounds>> BY <2>4 DEF IInv, QueueInv
  <2>5. QED BY <1>3, <2>1, <2>2, <2>3, <2>4
<1>9. ASSUME PromptStart PROVE SerialInv'
  <2>1. SerialInv BY <1>9 DEF IInv
  <2>2. CASE SetupMove BY <2>1, <2>2 DEF SerialInv, SetupMove
  <2>3. CASE WaitMove BY <2>1, <2>3 DEF SerialInv, WaitMove
  <2>4. CASE iter' = iter /\ (NextMove \/ TryMove \/ JoinMove \/ LeaveMove)
    BY <2>1, <2>4 DEF SerialInv, NextMove, TryMove, JoinMove, LeaveMove
  <2>5. CASE UNCHANGED <<iter, mpc, rounds>> BY <2>1, <2>5 DEF SerialInv
  <2>6. QED BY <1>3, <2>2, <2>3, <2>4, <2>5
<1>10. ASSUME PromptStop PROVE RestInv'
  <2>0. RestInv BY <1>10 DEF IInv
  <2>1. CASE SetupMove BY <2>0, <2>1 DEF RestInv, SetupMove
  <2>2. CASE WaitMove
    <3>1. InProfile = Mods(iter) /\ InProfile \subseteq Measurements
      BY <2>2, AtProfile DEF IInv, WaitMove
    <3>2. QED BY <2>0, <2>2, <3>1 DEF RestInv, WaitMove
  <2>3. CASE iter' = iter /\ NextMove BY <2>0, <2>3 DEF RestInv, NextMove
  <2>4. CASE iter' = iter /\ TryMove BY <2>0, <2>4 DEF IInv, ProfileInv, RestInv, TryMove
  <2>5. CASE iter' = iter /\ JoinMove
    <3>1. CASE mpc = "joinMeasure"
      <4>1. InProfile = Mods(iter) BY <3>1, AtProfile DEF IInv
      <4>2. \A m \in InProfile : ~ThreadAlive(m)
        BY <1>5, <1>10, <2>5, <3>1, <4>1, AtProfile, Measuring DEF IInv, JoinMove, Joined
      <4>3. \A m \in Measurements : ~ThreadAlive(m)
        <5>1. ASSUME NEW m \in Measurements PROVE ~ThreadAlive(m)
          <6>1. PICK i \in DOMAIN profiles : m \in Mods(i)
            BY <3>1, InOneProfile DEF IInv, ProfileInv
          <6>2. CASE i < iter
            BY <3>1, <6>1, <6>2 DEF IInv, BeginInv, ThreadAlive
          <6>3. CASE i = iter BY <4>1, <4>2, <6>1, <6>3
          <6>4. CASE i > iter BY <2>0, <3>1, <6>1, <6>4 DEF RestInv
          <6>5. QED BY <6>2, <6>3, <6>4
        <5>2. QED BY <5>1
      <4>4. QED BY <2>0, <2>5, <3>1, <4>3 DEF RestInv, JoinMove
    <3>2. CASE mpc = "joinLoads"
      <4>1. \A l \in Loads : Rested(l)
        BY <1>10, <2>5, <3>2 DEF JoinMove, Joined, Rested, WillRun
      <4>2. QED BY <2>0, <2>5, <3>2, <4>1 DEF RestInv, JoinMove
    <3>3. QED BY <2>5, <3>1, <3>2 DEF JoinMove
  <2>6. CASE iter' = iter /\ LeaveMove BY <2>0, <2>6 DEF RestInv, LeaveMove
  <2>7. CASE UNCHANGED <<iter, mpc, rounds>> BY <2>0, <2>7 DEF RestInv
  <2>8. QED BY <1>3, <2>1, <2>2, <2>3, <2>4, <2>5, <2>6, <2>7
<1>11. QED BY <1>1, <1>2, <1>6, <1>7, <1>8, <1>q, <1>9, <1>10 DEF IInv

-----------------------------------------------------------------------------
(* A module is put into its profile: the only one that is as it declares,  *)
(* or a new one.                                                           *)
LEMMA SetupKeepsProfiles ==
  ASSUME IInv, NEW m \in Measurements, SetupModule(m)
  PROVE  ProfileInv' /\ (\A i \in DOMAIN profiles' : profiles'[i] \in Profile)
<1> DEFINE same == {i \in DOMAIN profiles : profiles[i].is = info[m]}
           p == ProfileOf(info[m])
           new == [is |-> info[m], mods |-> <<m>>]
<1>1. /\ mpc = "setup" /\ UNCHANGED <<iter, mpc, rounds, info>>
      /\ profiles' = IF p = 0 THEN Append(profiles, new)
                     ELSE [profiles EXCEPT ![p].mods = Append(@, m)]
  BY DEF SetupModule, MainAt, local
<1>2. /\ profiles \in Seq(Profile) /\ Len(profiles) \in Nat
      /\ DOMAIN profiles = 1..Len(profiles) /\ iter \in Nat
      /\ \A i \in DOMAIN profiles : profiles[i].mods \in Seq(Measurements)
      /\ info[m] \in Characteristic
  BY InOneProfile DEF IInv, ProfileInv, Partition, Profile, TypeOK
<1>3. p = IF same = {} THEN 0 ELSE CHOOSE i \in same : \A j \in same : i <= j
  BY DEF ProfileOf
<1>4. /\ Cardinality(Registered) \in Nat /\ IsFiniteSet(Registered)
      /\ Registered \subseteq Measurements
  BY FS_Subset, ModulesAssumption, FS_CardinalityType DEF Registered
<1>5. CASE same = {}
  <2>0. PICK last \in Nat : last = Len(profiles) + 1 BY <1>2
  <2>1. profiles' = Append(profiles, new) BY <1>1, <1>3, <1>5
  <2>2. <<m>> \in Seq(Measurements) /\ Range(<<m>>) = {m} /\ <<m>> # <<>>
    BY DEF Range
  <2>3. new \in Profile BY <1>2, <2>2 DEF Profile
  <2>4. /\ profiles' \in Seq(Profile) /\ Len(profiles') = last
        /\ DOMAIN profiles' = 1..last /\ profiles'[last] = new
        /\ \A i \in DOMAIN profiles : profiles'[i] = profiles[i]
    BY <1>2, <2>0, <2>1, <2>3
  <2>5. Mods(last)' = {m}
    <3>1. profiles'[last].mods = <<m>> BY <2>4
    <3>2. QED BY <2>2, <3>1 DEF Mods
  <2>6. \A i \in DOMAIN profiles : Mods(i)' = Mods(i) BY <2>4 DEF Mods
  <2>7. m \notin Registered
    BY <1>5, InOneProfile DEF IInv, ProfileInv, Partition
  <2>8. DOMAIN profiles' = DOMAIN profiles \cup {last} /\ last \notin DOMAIN profiles
    BY <1>2, <2>0, <2>4
  <2>9. Registered' = Registered \cup {m}
    <3>1. /\ Registered = {k \in Measurements : \E i \in DOMAIN profiles : k \in Mods(i)}
          /\ Registered' = {k \in Measurements : \E i \in DOMAIN profiles' : k \in Mods(i)'}
      BY DEF Registered, Mods
    <3>2. QED BY <2>5, <2>6, <2>8, <3>1
  <2>10. Cardinality(Registered') = Cardinality(Registered) + 1
    BY <1>4, <2>7, <2>9, FS_AddElement
  <2>11. \A i \in DOMAIN profiles : profiles[i].is # info[m] BY <1>5
  <2>12. ASSUME NEW i \in DOMAIN profiles'
         PROVE  /\ profiles'[i] \in Profile /\ profiles'[i].mods # <<>>
                /\ \A k \in Mods(i)' : info[k] = profiles'[i].is
    <3>1. CASE i = last BY <2>2, <2>3, <2>4, <2>5, <3>1
    <3>2. CASE i # last
      <4>1. i \in DOMAIN profiles /\ profiles'[i] = profiles[i] BY <2>4, <2>8, <3>2
      <4>2. QED BY <1>2, <2>6, <4>1 DEF IInv, ProfileInv, Partition
    <3>3. QED BY <3>1, <3>2
  <2>13. \A i, j \in DOMAIN profiles' : i # j => profiles'[i].is # profiles'[j].is
    <3>1. profiles'[last].is = info[m] BY <2>4
    <3>2. \A i, j \in DOMAIN profiles : i # j => profiles'[i].is # profiles'[j].is
      BY <2>4 DEF IInv, ProfileInv, Partition
    <3>3. \A i \in DOMAIN profiles : profiles'[i].is # info[m] BY <2>4, <2>11
    <3>4. QED BY <2>8, <3>1, <3>2, <3>3
  <2>14. Len(profiles') <= Cardinality(Registered') /\ iter' <= Len(profiles')
    BY <1>1, <1>2, <1>4, <2>0, <2>4, <2>10 DEF IInv, ProfileInv, Partition
  <2>15. Partition' BY <1>1, <2>4, <2>12, <2>13, <2>14 DEF Partition
  <2>16. QED
    BY <1>1, <2>12, <2>14, <2>15 DEF ProfileInv, TryBody, Finally, WithLoads
<1>6. CASE same # {}
  <2>1. PICK i0 \in same : TRUE BY <1>6
  <2>2. same = {i0} BY <2>1 DEF IInv, ProfileInv, Partition
  <2>3. i0 \in Nat /\ i0 # 0 /\ i0 <= i0 BY <1>2, <2>1
  <2>4. p = i0 BY <1>3, <1>6, <2>2, <2>3
  <2>5. profiles' = [profiles EXCEPT ![i0].mods = Append(@, m)] BY <1>1, <2>3, <2>4
  <2>6. /\ Append(profiles[i0].mods, m) \in Seq(Measurements)
        /\ Append(profiles[i0].mods, m) # <<>>
        /\ Range(Append(profiles[i0].mods, m)) = Range(profiles[i0].mods) \cup {m}
    BY <1>2, <2>1, RangeOfAppend
  <2>7. profiles[i0] \in Profile /\ profiles[i0].is = info[m] BY <1>2, <2>1
  <2>8. /\ DOMAIN profiles' = DOMAIN profiles
        /\ profiles'[i0] = [profiles[i0] EXCEPT !.mods = Append(@, m)]
        /\ \A i \in DOMAIN profiles : i # i0 => profiles'[i] = profiles[i]
    BY <1>2, <2>1, <2>5
  <2>9. /\ profiles'[i0] \in Profile /\ profiles'[i0].is = profiles[i0].is
        /\ profiles'[i0].mods = Append(profiles[i0].mods, m)
    BY <2>6, <2>7, <2>8 DEF Profile
  <2>10. /\ profiles' \in Seq(Profile) /\ Len(profiles') = Len(profiles)
    BY <1>2, <2>5, <2>8, <2>9
  <2>11. /\ Mods(i0)' = Mods(i0) \cup {m}
         /\ \A i \in DOMAIN profiles : i # i0 => Mods(i)' = Mods(i)
    BY <2>6, <2>8, <2>9 DEF Mods
  <2>12. Registered' = Registered \cup {m}
    <3>1. /\ Registered = {k \in Measurements : \E i \in DOMAIN profiles : k \in Mods(i)}
          /\ Registered' = {k \in Measurements : \E i \in DOMAIN profiles' : k \in Mods(i)'}
      BY DEF Registered, Mods
    <3>2. i0 \in DOMAIN profiles BY <2>1
    <3>3. QED BY <2>8, <2>11, <3>1, <3>2
  <2>13. /\ IsFiniteSet(Registered') /\ Cardinality(Registered') \in Nat
         /\ Cardinality(Registered) <= Cardinality(Registered')
    <3>1. IsFiniteSet(Registered') BY <1>4, <2>12, FS_AddElement
    <3>2. QED BY <2>12, <3>1, FS_Subset, FS_CardinalityType
  <2>14. ASSUME NEW i \in DOMAIN profiles
         PROVE  /\ profiles'[i] \in Profile /\ profiles'[i].mods # <<>>
                /\ profiles'[i].is = profiles[i].is
                /\ \A k \in Mods(i)' : info[k] = profiles'[i].is
    <3>1. CASE i = i0
      BY <2>6, <2>7, <2>9, <2>11, <3>1 DEF IInv, ProfileInv, Partition
    <3>2. CASE i # i0
      <4>1. profiles'[i] = profiles[i] /\ Mods(i)' = Mods(i) BY <2>8, <2>11, <3>2
      <4>2. QED BY <1>2, <4>1 DEF IInv, ProfileInv, Partition
    <3>3. QED BY <3>1, <3>2
  <2>15. \A i, j \in DOMAIN profiles' : i # j => profiles'[i].is # profiles'[j].is
    BY <2>8, <2>14 DEF IInv, ProfileInv, Partition
  <2>16. Len(profiles') <= Cardinality(Registered') /\ iter' <= Len(profiles')
    <3>1. iter <= Len(profiles) /\ Len(profiles) <= Cardinality(Registered)
      BY DEF IInv, ProfileInv, Partition
    <3>2. iter' = iter BY <1>1
    <3>3. QED BY <1>2, <1>4, <2>10, <2>13, <3>1, <3>2
  <2>17. Partition' BY <1>1, <2>8, <2>10, <2>14, <2>15, <2>16 DEF Partition
  <2>18. QED
    BY <1>1, <2>8, <2>14, <2>16, <2>17 DEF ProfileInv, TryBody, Finally, WithLoads
<1>7. QED BY <1>5, <1>6

LEMMA SetupKeepsInv ==
  ASSUME IInv, NEW m \in Measurements, SetupModule(m)
  PROVE  IInv'
<1>1. ProfileInv' /\ (\A i \in DOMAIN profiles' : profiles'[i] \in Profile)
  BY SetupKeepsProfiles
<1>2. /\ UNCHANGED <<pc, ready, rterr, donotrun, start, stop, finished, job, todo>>
      /\ UNCHANGED <<info, onlyload, iter, mpc, exc, serialised, nthreads, rounds, stoptime>>
      /\ UNCHANGED <<earlystop, stopsig, handler, signals>>
      /\ mpc = "setup"
  BY DEF SetupModule, MainAt, threadVars, events, local, process
<1>3. TypeOK' BY <1>1, <1>2 DEF IInv, TypeOK, ThreadTypeOK
<1>4. ThreadInv' BY <1>2, ModuleInvKept, FaultInvKept DEF IInv, ThreadInv
<1>5. \A k : /\ ThreadAlive(k)' <=> ThreadAlive(k)
             /\ Rested(k)' <=> Rested(k)
             /\ Spent(k)' <=> Spent(k)
  BY <1>2 DEF ThreadAlive, Rested, Spent, Running, Started, Slots, PerNode
<1>6. \A i \in DOMAIN profiles' : Mods(i)' \subseteq Measurements
  <2>1. ASSUME NEW i \in DOMAIN profiles' PROVE Mods(i)' \subseteq Measurements
    <3>1. profiles'[i].mods \in Seq(Measurements) BY <1>1 DEF Profile
    <3>2. Range(profiles'[i].mods) \subseteq Measurements BY <3>1, RangeOfSeq
    <3>3. QED BY <3>2 DEF Mods
  <2>2. QED BY <2>1
<1>7. BeginInv' BY <1>2, <1>6 DEF IInv, BeginInv
<1>8. DoneInv' /\ QueueInv' BY <1>2 DEF DoneInv, QueueInv
<1>9. PromptStart => SerialInv' BY <1>2, <1>5 DEF IInv, SerialInv
<1>10. PromptStop => RestInv'
  BY <1>2, <1>5 DEF IInv, RestInv, Idle, TryBody, Finally
<1>11. QED BY <1>1, <1>3, <1>4, <1>7, <1>8, <1>9, <1>10 DEF IInv

-----------------------------------------------------------------------------
(* Starting the threads of a group of new modules.                         *)
LEMMA StartFrame ==
  ASSUME ThreadTypeOK, ThreadInv, NEW S \in SUBSET Modules, \A m \in S : pc[m] = "new",
         StartAll(S), UNCHANGED <<ready, rterr, donotrun, finished, job, todo, events>>
  PROVE  /\ ThreadTypeOK' /\ ThreadInv'
         /\ \A m \in S : pc'[m] = "begin"
         /\ \A m \in Modules \ S : /\ pc'[m] = pc[m]
                                   /\ ThreadAlive(m)' <=> ThreadAlive(m)
                                   /\ Rested(m)' <=> Rested(m)
                                   /\ Spent(m)' <=> Spent(m)
<1>1. /\ pc' = [m \in Modules |-> IF m \in S THEN "begin" ELSE pc[m]]
      /\ UNCHANGED <<ready, rterr, donotrun, finished, job, todo, start, stop>>
  BY DEF StartAll, events
<1>2. (\A m \in S : pc'[m] = "begin") /\ (\A m \in Modules \ S : pc'[m] = pc[m])
  BY <1>1
<1>3. pc' \in [Modules -> Labels] BY <1>1 DEF ThreadTypeOK, Labels
<1>4. ThreadTypeOK' BY <1>1, <1>3 DEF ThreadTypeOK
<1>5. ThreadInv'
  <2>1. ASSUME NEW m \in S PROVE ModuleInv(m)' /\ FaultInv(m)'
    <3>1. pc[m] = "new" /\ pc'[m] = "begin" /\ m \in Modules BY <1>2
    <3>2. ~Started(m) BY <3>1 DEF ThreadInv, ModuleInv, Released, Ends
    <3>3. ~Started(m)' /\ ~Running(m)' BY <1>1, <3>2 DEF Started, Running
    <3>4. ModuleInv(m)'
      BY <1>1, <3>1, <3>3 DEF ThreadInv, ModuleInv, Slots, PerNode, Preparing, Released,
         Deciding, Ends
    <3>5. FaultInv(m)'
      BY <1>1, <3>1, <3>3 DEF ThreadInv, FaultInv, TaskInv, Ends, Contained, OneSlot, Slots, PerNode
    <3>6. QED BY <3>4, <3>5
  <2>2. ASSUME NEW m \in Modules \ S PROVE ModuleInv(m)' /\ FaultInv(m)'
    BY <1>1, <1>2, ModuleInvKept, FaultInvKept DEF ThreadInv
  <2>3. QED BY <2>1, <2>2 DEF ThreadInv
<1>6. \A m \in Modules \ S : /\ ThreadAlive(m)' <=> ThreadAlive(m)
                             /\ Rested(m)' <=> Rested(m)
                             /\ Spent(m)' <=> Spent(m)
  BY <1>1, <1>2 DEF ThreadAlive, Rested, Spent, Running, Started, Slots, PerNode
<1>7. QED BY <1>2, <1>4, <1>5, <1>6

(* The loads are started while nothing is measured ...                     *)
LEMMA StartLoadsKeepsInv ==
  ASSUME IInv, StartAll(Loads), \A l \in Loads : pc[l] = "new",
         UNCHANGED <<ready, rterr, donotrun, finished, job, todo, events, iter, exc, local,
                     process, fixed>>,
         \/ Current.is.loads /\ Move("startLoads", "pollLoads")
         \/ Move("onlyStart", "onlyPoll")
  PROVE  IInv'
<1>1. /\ UNCHANGED <<start, stop, finished, info, onlyload, profiles, iter, exc, serialised>>
      /\ UNCHANGED <<nthreads, rounds, stoptime, earlystop, stopsig, handler, signals>>
      /\ mpc \in {"startLoads", "onlyStart"} /\ mpc' \in {"pollLoads", "onlyPoll"}
      /\ mpc' = "pollLoads" <=> mpc = "startLoads"
      /\ mpc = "startLoads" => Current.is.loads
  BY DEF events, local, process, fixed, Move
<1>2. Loads \subseteq Modules /\ Measurements \subseteq Modules \ Loads
  BY ModulesAssumption DEF Modules
<1>3. ThreadTypeOK /\ ThreadInv BY DEF IInv, TypeOK
<1>4. /\ ThreadTypeOK' /\ ThreadInv'
      /\ \A m \in Measurements : /\ pc'[m] = pc[m]
                                 /\ ThreadAlive(m)' <=> ThreadAlive(m)
                                 /\ Spent(m)' <=> Spent(m)
  BY <1>2, <1>3, StartFrame
<1>5. /\ UNCHANGED <<Current, InProfile, Registered>> /\ \A i : Mods(i)' = Mods(i)
      /\ \A i \in DOMAIN profiles : Mods(i) \subseteq Measurements
  BY <1>1, InOneProfile DEF IInv, Current, InProfile, Registered, Mods
<1> USE <1>1, <1>5 DEF TryBody, Finally, OnlyLoad
<1> HIDE DEF Current, InProfile, Registered, Mods
<1>6. TypeOK' BY <1>4 DEF IInv, TypeOK, MainLabels
<1>7. ProfileInv' BY DEF IInv, ProfileInv, Partition, WithLoads
<1>8. BeginInv' BY <1>4 DEF IInv, BeginInv, Unstarted, Unreleased
<1>9. DoneInv' /\ QueueInv' BY DEF IInv, DoneInv, QueueInv
<1>10. PromptStart => SerialInv' BY <1>4 DEF IInv, SerialInv
<1>11. PromptStop => RestInv' BY <1>4 DEF IInv, RestInv, Idle, Unstarted
<1>12. QED BY <1>4, <1>6, <1>7, <1>8, <1>9, <1>10, <1>11 DEF IInv

(* ... and the modules of a profile when the loads are at rest, unless     *)
(* they are to run with it.                                                *)
LEMMA StartMeasureKeepsInv ==
  ASSUME IInv, StartMeasure
  PROVE  IInv'
<1>1. /\ UNCHANGED <<start, stop, finished, info, onlyload, profiles, iter, exc, serialised>>
      /\ UNCHANGED <<nthreads, rounds, stoptime, earlystop, stopsig, handler, signals>>
      /\ mpc = "startMeasure" /\ mpc' = "pollMeasure"
      /\ StartAll(InProfile)
      /\ UNCHANGED <<ready, rterr, donotrun, finished, job, todo, events>>
  BY DEF StartMeasure, MainAt, events, local, process, fixed
<1>2. /\ iter \in DOMAIN profiles /\ InProfile = Mods(iter) /\ InProfile \subseteq Measurements
      /\ \A m \in InProfile : info[m] = Current.is
  BY <1>1, AtProfile DEF IInv, TryBody
<1>3. \A m \in InProfile : pc[m] = "new" /\ ~start[m]
  BY <1>1, <1>2 DEF IInv, BeginInv, Unstarted, Unreleased
<1>4. Loads \subseteq Modules \ InProfile /\ Measurements \subseteq Modules
  BY <1>2, ModulesAssumption DEF Modules
<1>5. ThreadTypeOK /\ ThreadInv BY DEF IInv, TypeOK
<1>6. /\ ThreadTypeOK' /\ ThreadInv'
      /\ \A m \in Modules \ InProfile : /\ pc'[m] = pc[m]
                                        /\ ThreadAlive(m)' <=> ThreadAlive(m)
                                        /\ Rested(m)' <=> Rested(m)
                                        /\ Spent(m)' <=> Spent(m)
  BY <1>1, <1>2, <1>3, <1>4, <1>5, StartFrame
<1>7. /\ UNCHANGED <<Current, InProfile, Registered>> /\ \A i : Mods(i)' = Mods(i)
      /\ \A i \in DOMAIN profiles : Mods(i) \subseteq Measurements
      /\ \A i \in DOMAIN profiles : i # iter => Mods(i) \cap InProfile = {}
  BY <1>1, <1>2, InOneProfile DEF IInv, Current, InProfile, Registered, Mods
<1>8. iter \in Nat /\ Len(profiles) \in Nat /\ DOMAIN profiles = 1..Len(profiles)
  BY InOneProfile DEF IInv, TypeOK
<1> USE <1>1, <1>7, <1>8 DEF TryBody, Finally, OnlyLoad
<1> HIDE DEF Current, InProfile, Registered, Mods
<1>9. TypeOK' BY <1>6 DEF IInv, TypeOK, MainLabels
<1>10. ProfileInv' BY DEF IInv, ProfileInv, Partition, WithLoads
<1>11. BeginInv'
  <2>1. ASSUME NEW i \in DOMAIN profiles, i < iter, NEW m \in Mods(i)
        PROVE  pc'[m] = "new" /\ ~start'[m]
    <3>1. m \in Modules \ InProfile BY <1>4, <2>1
    <3>2. QED BY <1>6, <2>1, <3>1 DEF IInv, BeginInv
  <2>2. QED BY <1>2, <1>3, <2>1 DEF BeginInv, Unstarted, Unreleased
<1>12. DoneInv' /\ QueueInv' BY DEF IInv, DoneInv, QueueInv
<1>13. ASSUME PromptStart PROVE SerialInv'
  <2>1. ASSUME NEW m \in Measurements, start[m] PROVE Spent(m)' <=> Spent(m)
    BY <1>3, <1>4, <1>6, <2>1
  <2>2. QED BY <1>13, <2>1 DEF IInv, SerialInv
<1>14. ASSUME PromptStop PROVE RestInv'
  <2>1. RestInv BY <1>14 DEF IInv
  <2>2. \A l \in Loads : Rested(l)' <=> Rested(l) BY <1>4, <1>6
  <2>3. ~Current.is.loads => \A l \in Loads : Rested(l) BY <2>1 DEF RestInv
  <2>4. ASSUME NEW m \in Measurements, ThreadAlive(m)', ~info[m].loads
        PROVE  \A l \in Loads : Rested(l)'
    <3>1. CASE m \in InProfile BY <1>2, <2>2, <2>3, <2>4, <3>1
    <3>2. CASE m \notin InProfile BY <1>4, <1>6, <2>1, <2>2, <2>4, <3>2 DEF RestInv
    <3>3. QED BY <3>1, <3>2
  <2>5. ASSUME NEW i \in DOMAIN profiles, i > iter, NEW m \in Mods(i)
        PROVE  ~ThreadAlive(m)'
    <3>1. m \in Modules \ InProfile BY <1>4, <2>5
    <3>2. QED BY <1>6, <2>1, <2>5, <3>1 DEF RestInv
  <2>6. QED BY <2>2, <2>3, <2>4, <2>5 DEF RestInv, Idle, Unstarted
<1>15. QED BY <1>6, <1>9, <1>10, <1>11, <1>12, <1>13, <1>14 DEF IInv

-----------------------------------------------------------------------------
(* Releasing or stopping modules leaves their threads where they are.      *)
LEMMA EventFrame ==
  ASSUME TypeOK, ThreadInv, UNCHANGED <<threadVars, info, profiles, iter>>,
         start' \in [Modules -> BOOLEAN], stop' \in [Modules -> BOOLEAN],
         \A m \in Modules : start[m] => start'[m]
  PROVE  /\ ThreadTypeOK' /\ ThreadInv'
         /\ UNCHANGED <<pc, finished, Current, InProfile, Registered>>
         /\ \A i : Mods(i)' = Mods(i)
         /\ \A m : /\ ThreadAlive(m)' <=> ThreadAlive(m)
                   /\ Rested(m)' <=> Rested(m)
                   /\ Spent(m)' <=> Spent(m)
<1>1. UNCHANGED <<pc, ready, rterr, donotrun, finished, job, todo>> BY DEF threadVars
<1>2. ThreadTypeOK' BY <1>1 DEF TypeOK, ThreadTypeOK
<1>3. ThreadInv' BY <1>1, ModuleInvKept, FaultInvKept DEF ThreadInv
<1>4. UNCHANGED <<Current, InProfile, Registered>> /\ \A i : Mods(i)' = Mods(i)
  BY DEF Current, InProfile, Registered, Mods
<1>5. \A m : /\ ThreadAlive(m)' <=> ThreadAlive(m)
             /\ Rested(m)' <=> Rested(m)
             /\ Spent(m)' <=> Spent(m)
  BY <1>1 DEF ThreadAlive, Rested, Spent, Running, Started, Slots, PerNode
<1>6. QED BY <1>1, <1>2, <1>3, <1>4, <1>5

(* The loads are released, or a group of modules is told to stop: no start *)
(* event of a measurement is touched.                                      *)
LEMMA EventsKeepInv ==
  ASSUME IInv, UnleashLoads \/ OnlyLoadRelease \/ StopGroup \/ OnlyLoadStop
  PROVE  IInv'
<1>1. /\ UNCHANGED <<threadVars, info, onlyload, profiles, iter, exc, serialised>>
      /\ UNCHANGED <<rounds, stoptime, earlystop, stopsig, handler, signals>>
  BY DEF UnleashLoads, OnlyLoadRelease, StopGroup, OnlyLoadStop, process, fixed, local
<1>2. \/ Move("unleashLoads", "unleash") \/ Move("onlyPoll", "onlyRun")
      \/ Move("stopMeasure", "joinMeasure") \/ Move("stopLoads", "joinLoads")
      \/ Move("onlyRun", "onlyJoin")
  BY DEF UnleashLoads, OnlyLoadRelease, StopGroup, OnlyLoadStop, MainAt, Move
<1>3. /\ start' \in [Modules -> BOOLEAN] /\ stop' \in [Modules -> BOOLEAN]
      /\ \A m \in Modules : start[m] => start'[m]
      /\ \A m \in Measurements : start'[m] <=> start[m]
  <2>1. CASE Release(Loads) /\ UNCHANGED stop
    <3>1. start' \in [Modules -> BOOLEAN]
      BY <2>1 DEF Release, IInv, TypeOK, ThreadTypeOK
    <3>2. \A m \in Modules : start'[m] <=> start[m] \/ m \in Loads
      BY <2>1 DEF Release
    <3>3. \A m \in Measurements : m \in Modules /\ m \notin Loads
      BY ModulesAssumption DEF Modules
    <3>4. QED BY <2>1, <3>1, <3>2, <3>3 DEF IInv, TypeOK, ThreadTypeOK
  <2>2. CASE UNCHANGED start /\ \E S : SetStops(S)
    BY <2>2 DEF SetStops, IInv, TypeOK, ThreadTypeOK
  <2>3. QED
    BY <2>1, <2>2 DEF UnleashLoads, OnlyLoadRelease, StopGroup, OnlyLoadStop
<1>4. /\ ThreadTypeOK' /\ ThreadInv'
      /\ UNCHANGED <<pc, finished, Current, InProfile, Registered>>
      /\ \A i : Mods(i)' = Mods(i)
      /\ \A m : /\ ThreadAlive(m)' <=> ThreadAlive(m)
                /\ Rested(m)' <=> Rested(m)
                /\ Spent(m)' <=> Spent(m)
  BY <1>1, <1>3, EventFrame DEF IInv
<1>5. nthreads' \in 0..(Cardinality(Modules) + 1)
  BY LiveThreadsType DEF UnleashLoads, OnlyLoadRelease, StopGroup, OnlyLoadStop, local, IInv, TypeOK
<1>6. \A i \in DOMAIN profiles : Mods(i) \subseteq Measurements
  BY InOneProfile DEF IInv
<1> USE <1>1, <1>2, <1>4 DEF TryBody, Finally, OnlyLoad, Move
<1> HIDE DEF Current, InProfile, Registered, Mods
<1>7. TypeOK' BY <1>5 DEF IInv, TypeOK, MainLabels
<1>8. ProfileInv' BY DEF IInv, ProfileInv, Partition, WithLoads
<1>9. BeginInv' BY <1>3, <1>6 DEF IInv, BeginInv, Unstarted, Unreleased
<1>10. DoneInv' /\ QueueInv' BY <1>3, <1>6 DEF IInv, DoneInv, QueueInv
<1>11. PromptStart => SerialInv' BY <1>3 DEF IInv, SerialInv
<1>12. PromptStop => RestInv'
  BY DEF IInv, ProfileInv, Partition, WithLoads, RestInv, Idle, Unstarted
<1>13. QED BY <1>4, <1>7, <1>8, <1>9, <1>10, <1>11, <1>12 DEF IInv

(* Modules of the current profile are released, by Unleash or in the loop. *)
(* A serialised profile only has its next one released, and that when the  *)
(* one before it is over.                                                  *)
ReleaseOf(S) ==
  /\ S \subseteq InProfile
  /\ start' = [m \in Modules |-> start[m] \/ m \in S]
  /\ serialised' \in Seq(Measurements)
  /\ \/ Current.is.parallel
     \/ /\ mpc = "unleash" /\ S = {Head(Current.mods)} /\ serialised' = Current.mods
     \/ /\ mpc = "alive" /\ S = {} /\ UNCHANGED serialised
     \/ /\ mpc = "alive" /\ S = {serialised[2]} /\ serialised' = Tail(serialised)
        /\ Len(serialised) > 1 /\ ~WorkloadAlive(Head(serialised)) /\ Minute

LEMMA ReleaseSteps ==
  ASSUME IInv, Unleash \/ CheckAlive
  PROVE  \E S \in SUBSET Measurements : ReleaseOf(S)
<1>1. mpc \in {"unleash", "alive"} /\ mpc \in TryBody
  BY DEF Unleash, CheckAlive, MainAt, TryBody
<1>2. /\ InProfile \subseteq Measurements /\ Current.mods # <<>>
      /\ Current.mods \in Seq(Measurements)
  BY <1>1, AtProfile DEF IInv
<1>3. Head(Current.mods) \in InProfile BY <1>2, RangeOfTail DEF InProfile
<1>4. serialised \in Seq(Measurements) BY DEF IInv, TypeOK
<1>5. CASE Unleash
  <2>1. mpc = "unleash" BY <1>5 DEF Unleash, MainAt
  <2>2. CASE Current.is.parallel
    <3>1. ReleaseOf(InProfile)
      BY <1>4, <1>5, <2>2 DEF Unleash, Release, ReleaseOf
    <3>2. QED BY <1>2, <3>1
  <2>3. CASE ~Current.is.parallel
    <3>1. ReleaseOf({Head(Current.mods)})
      BY <1>2, <1>3, <1>5, <2>1, <2>3 DEF Unleash, Release, ReleaseOf
    <3>2. QED BY <1>2, <1>3, <3>1
  <2>4. QED BY <2>2, <2>3
<1>6. CASE CheckAlive /\ UNCHANGED <<start, serialised>>
  <2>1. start = [m \in Modules |-> start[m] \/ m \in {}]
    BY DEF IInv, TypeOK, ThreadTypeOK
  <2>2. mpc = "alive" BY <1>6 DEF CheckAlive, MainAt
  <2>3. ReleaseOf({}) BY <1>4, <1>6, <2>1, <2>2 DEF ReleaseOf
  <2>4. QED BY <2>3
<1>7. CASE CheckAlive /\ ~UNCHANGED <<start, serialised>>
  <2>1. /\ mpc = "alive" /\ ~Current.is.parallel /\ Len(serialised) > 1 /\ Minute
        /\ serialised' = Tail(serialised) /\ Release({serialised[2]})
        /\ ~(serialised # <<>> /\ WorkloadAlive(Head(serialised)))
    BY <1>7 DEF CheckAlive, MainAt, ParallelAlive, SerialAlive, StillAlive, NotAlive
  <2>2. serialised # <<>> /\ serialised[2] \in InProfile
    BY <1>4, <2>1, SecondOfSeq DEF IInv, QueueInv
  <2>3. Tail(serialised) \in Seq(Measurements) BY <1>4, <2>2, RangeOfTail
  <2>4. ReleaseOf({serialised[2]}) BY <2>1, <2>2, <2>3 DEF ReleaseOf, Release
  <2>5. QED BY <1>2, <2>2, <2>4
<1>8. QED BY <1>5, <1>6, <1>7

LEMMA ReleaseKeepsInv ==
  ASSUME IInv, Unleash \/ CheckAlive
  PROVE  IInv'
<1>1. /\ UNCHANGED <<threadVars, stop, info, onlyload, profiles, iter, exc, nthreads, rounds>>
      /\ UNCHANGED signals
      /\ Move("unleash", "loop") \/ Move("alive", "threads")
      /\ stoptime' \in BOOLEAN /\ earlystop' \in BOOLEAN /\ stopsig' \in BOOLEAN
      /\ handler' \in {"python", "rteval", "default"}
  BY DEF Unleash, CheckAlive, ParallelAlive, SerialAlive, StillAlive, NotAlive, MainAt, Move,
         fixed, IInv, TypeOK
<1>2. /\ iter \in DOMAIN profiles /\ InProfile = Mods(iter) /\ InProfile \subseteq Measurements
      /\ Current.mods # <<>> /\ Current.mods \in Seq(Measurements)
      /\ \A m \in InProfile : info[m] = Current.is
      /\ InProfile = Range(Current.mods)
  BY <1>1, AtProfile DEF IInv, TryBody, Move, InProfile
<1>3. PICK S \in SUBSET Measurements : ReleaseOf(S) BY ReleaseSteps
<1>4. /\ S \subseteq InProfile /\ serialised' \in Seq(Measurements)
      /\ start' = [m \in Modules |-> start[m] \/ m \in S]
  BY <1>3 DEF ReleaseOf
<1>5. Measurements \subseteq Modules BY DEF Modules
<1>6. /\ start' \in [Modules -> BOOLEAN] /\ stop' \in [Modules -> BOOLEAN]
      /\ \A m \in Modules : start'[m] <=> start[m] \/ m \in S
  <2>1. start \in [Modules -> BOOLEAN] /\ stop \in [Modules -> BOOLEAN]
    BY DEF IInv, TypeOK, ThreadTypeOK
  <2>2. start' \in [Modules -> BOOLEAN] BY <1>4
  <2>3. QED BY <1>1, <1>4, <2>1, <2>2
<1>7. /\ ThreadTypeOK' /\ ThreadInv'
      /\ UNCHANGED <<pc, finished, Current, InProfile, Registered>>
      /\ \A i : Mods(i)' = Mods(i)
      /\ \A m : /\ ThreadAlive(m)' <=> ThreadAlive(m)
                /\ Rested(m)' <=> Rested(m)
                /\ Spent(m)' <=> Spent(m)
  BY <1>1, <1>6, EventFrame DEF IInv
<1>8. /\ \A i \in DOMAIN profiles : Mods(i) \subseteq Measurements
      /\ \A i \in DOMAIN profiles : i # iter => Mods(i) \cap InProfile = {}
      /\ iter \in Nat /\ DOMAIN profiles = 1..Len(profiles) /\ Len(profiles) \in Nat
  <2>1. /\ \A i \in DOMAIN profiles : Mods(i) \subseteq Measurements
        /\ \A i, j \in DOMAIN profiles : i # j => Mods(i) \cap Mods(j) = {}
        /\ DOMAIN profiles = 1..Len(profiles) /\ Len(profiles) \in Nat
    BY InOneProfile DEF IInv
  <2>2. iter \in Nat BY DEF IInv, TypeOK
  <2>3. QED BY <1>2, <2>1, <2>2
<1>9. \A i \in DOMAIN profiles : i # iter => \A m \in Mods(i) : start'[m] <=> start[m]
  BY <1>4, <1>5, <1>6, <1>8
<1>10. TypeOK' BY <1>1, <1>4, <1>7 DEF IInv, TypeOK, MainLabels, TryBody, Move
<1>11. ProfileInv'
  BY <1>1, <1>7 DEF IInv, ProfileInv, Partition, WithLoads, TryBody, Finally, Move
<1>12. BeginInv'
  BY <1>1, <1>7, <1>8, <1>9 DEF IInv, BeginInv, Unstarted, Unreleased, OnlyLoad, Move
<1>13. DoneInv' BY <1>1, <1>7, <1>8, <1>9 DEF IInv, DoneInv, Move
<1>14. QueueInv'
  <2>1. SUFFICES ASSUME ~Current.is.parallel
                 PROVE  serialised' # <<>> /\ Range(serialised') \subseteq InProfile
    BY <1>7 DEF QueueInv
  <2>2. CASE mpc = "unleash" BY <1>2, <1>3, <2>1, <2>2 DEF ReleaseOf
  <2>3. CASE mpc = "alive"
    <3>1. serialised \in Seq(Measurements) /\ serialised # <<>> /\ Range(serialised) \subseteq InProfile
      BY <2>1, <2>3 DEF IInv, TypeOK, QueueInv
    <3>2. Range(Tail(serialised)) \subseteq Range(serialised) BY <3>1, RangeOfTail
    <3>3. Len(serialised) > 1 => Tail(serialised) # <<>> BY <3>1, SecondOfSeq
    <3>4. QED BY <1>3, <2>1, <2>3, <3>1, <3>2, <3>3 DEF ReleaseOf
  <2>4. QED BY <1>1, <2>2, <2>3 DEF Move
<1>15. ASSUME PromptStart PROVE SerialInv'
  <2>0. SerialInv BY <1>15 DEF IInv
  <2>1. CASE Current.is.parallel
    <3>1. \A m \in Measurements : ~info[m].parallel => (start'[m] <=> start[m])
      BY <1>2, <1>4, <1>5, <1>6, <2>1
    <3>2. QED BY <1>1, <1>7, <2>0, <2>1, <3>1 DEF SerialInv
  <2>2. CASE ~Current.is.parallel
    (* Whatever is released is alone with modules that are spent.          *)
    <3>1. \A m \in InProfile : start'[m] => m = Head(serialised') \/ Spent(m)
      <4>1. CASE mpc = "unleash"
        <5>1. \A m \in InProfile : ~start[m]
          BY <1>2, <4>1 DEF IInv, BeginInv, Unreleased
        <5>2. S = {Head(serialised')} BY <1>3, <2>2, <4>1 DEF ReleaseOf
        <5>3. QED BY <1>2, <1>5, <1>6, <5>1, <5>2
      <4>2. CASE mpc = "alive" /\ S = {} /\ UNCHANGED serialised
        BY <1>2, <1>5, <1>6, <2>0, <2>2, <4>2 DEF SerialInv
      <4>3. CASE /\ mpc = "alive" /\ S = {serialised[2]} /\ serialised' = Tail(serialised)
                 /\ Len(serialised) > 1 /\ ~WorkloadAlive(Head(serialised)) /\ Minute
        <5>1. serialised \in Seq(Measurements) /\ serialised # <<>> /\ Range(serialised) \subseteq InProfile
          BY <2>2, <4>3 DEF IInv, TypeOK, QueueInv
        <5>2. Head(serialised) \in InProfile /\ Head(serialised') = serialised[2]
          BY <4>3, <5>1, RangeOfTail, SecondOfSeq
        <5>3. start[Head(serialised)] => Spent(Head(serialised))
          BY <1>15, <4>3, <5>2 DEF Minute, Begun, WorkloadAlive, Spent
        <5>4. \A m \in InProfile : start[m] => Spent(m)
          BY <2>0, <2>2, <4>3, <5>3 DEF SerialInv
        <5>5. QED BY <1>2, <1>5, <1>6, <4>3, <5>2, <5>4
      <4>4. QED BY <1>1, <1>3, <2>2, <4>1, <4>2, <4>3 DEF ReleaseOf, Move
    <3>2. ASSUME NEW m \in Measurements, NEW k \in Measurements, m # k, info[m] = info[k],
                 ~info[m].parallel, start'[m], start'[k]
          PROVE  Spent(m) \/ Spent(k)
      <4>1. CASE m \in InProfile /\ k \in InProfile BY <3>1, <3>2, <4>1
      <4>2. CASE m \notin InProfile /\ k \notin InProfile
        BY <1>4, <1>5, <1>6, <2>0, <3>2, <4>2 DEF SerialInv
      <4>3. m \in InProfile <=> k \in InProfile
        <5>1. Registered = Measurements BY <1>1 DEF IInv, ProfileInv, Move
        <5>2. PICK i \in DOMAIN profiles : m \in Mods(i)
          BY <3>2, <5>1, InOneProfile DEF IInv
        <5>3. PICK j \in DOMAIN profiles : k \in Mods(j)
          BY <3>2, <5>1, InOneProfile DEF IInv
        <5>4. i = j BY <3>2, <5>2, <5>3 DEF IInv, ProfileInv, Partition
        <5>5. m \in InProfile <=> i = iter
          BY <1>2, <5>2, InOneProfile DEF IInv
        <5>6. k \in InProfile <=> j = iter
          BY <1>2, <5>3, InOneProfile DEF IInv
        <5>7. QED BY <5>4, <5>5, <5>6
      <4>4. QED BY <4>1, <4>2, <4>3
    <3>3. QED BY <1>1, <1>7, <3>1, <3>2 DEF SerialInv
  <2>3. QED BY <2>1, <2>2
<1>16. ASSUME PromptStop PROVE RestInv'
  <2>1. RestInv BY <1>16 DEF IInv
  <2>2. QED
    BY <1>1, <1>7, <2>1 DEF RestInv, Idle, Unstarted, OnlyLoad, TryBody, Finally, Move
<1>17. QED
  BY <1>7, <1>10, <1>11, <1>12, <1>13, <1>14, <1>15, <1>16 DEF IInv

-----------------------------------------------------------------------------
(* Every step preserves the invariant.                                     *)
LEMMA NextInv == IInv /\ [Next]_vars => IInv'
<1> SUFFICES ASSUME IInv, [Next]_vars PROVE IInv' OBVIOUS
<1>1. CASE \E m \in Measurements : SetupModule(m) BY <1>1, SetupKeepsInv
<1>2. CASE \/ SetupDone \/ NextProfile \/ Poll \/ LoopTest \/ CheckThreads \/ RestoreHandlers
           \/ JoinGroup \/ WaitForCompletion \/ Report \/ Exit \/ OnlyLoadFails \/ OnlyLoadExit
           \/ Interrupt
  <2>1. UNCHANGED <<threadVars, events, info, onlyload, profiles>>
    BY <1>2 DEF SetupDone, NextProfile, Poll, LoopTest, CheckThreads, RestoreHandlers, JoinGroup,
       WaitForCompletion, Report, Exit, OnlyLoadFails, OnlyLoadExit, Interrupt, fixed
  <2>2. Control BY <1>2, <2>1 DEF Control
  <2>3. QED BY <2>2, ControlKeepsInv
<1>3. CASE StartLoads
  <2>1. CASE \A l \in Loads : pc[l] = "new"
    <3>1. Current.is.loads BY <1>3 DEF StartLoads, MainAt, IInv, ProfileInv, WithLoads
    <3>2. StartAll(Loads) /\ Move("startLoads", "pollLoads") /\ UNCHANGED exc
      BY <1>3, <2>1 DEF StartLoads, MainAt, Move
    <3>3. UNCHANGED <<ready, rterr, donotrun, finished, job, todo, events, iter, local, process, fixed>>
      BY <1>3 DEF StartLoads
    <3>4. QED BY <2>1, <3>1, <3>2, <3>3, StartLoadsKeepsInv
  <2>2. CASE ~\A l \in Loads : pc[l] = "new"
    <3>1. /\ MainAt("startLoads") /\ Raise("RuntimeError") /\ UNCHANGED pc
          /\ UNCHANGED <<ready, rterr, donotrun, finished, job, todo, events, iter, local,
                         process, fixed>>
      BY <1>3, <2>2 DEF StartLoads
    <3>2. Control BY <3>1 DEF Control, threadVars, fixed
    <3>3. QED BY <3>2, ControlKeepsInv
  <2>3. QED BY <2>1, <2>2
<1>4. CASE OnlyLoadStart
  <2>1. \A l \in Loads : pc[l] = "new" BY <1>4 DEF OnlyLoadStart, MainAt, IInv, BeginInv
  <2>2. /\ StartAll(Loads) /\ Move("onlyStart", "onlyPoll")
        /\ UNCHANGED <<ready, rterr, donotrun, finished, job, todo, events, iter, exc, local,
                       process, fixed>>
    BY <1>4 DEF OnlyLoadStart, MainAt, Move
  <2>3. QED BY <2>1, <2>2, StartLoadsKeepsInv
<1>5. CASE StartMeasure BY <1>5, StartMeasureKeepsInv
<1>6. CASE UnleashLoads \/ OnlyLoadRelease \/ StopGroup \/ OnlyLoadStop BY <1>6, EventsKeepInv
<1>7. CASE Unleash \/ CheckAlive BY <1>7, ReleaseKeepsInv
<1>8. CASE \E m \in Modules : Thread(m) \/ Job(m) BY <1>8, ThreadKeepsInv
<1>9. CASE UNCHANGED vars
  <2>1. Control BY <1>9 DEF Control, vars, suiteVars, fixed
  <2>2. QED BY <2>1, ControlKeepsInv
<1>10. QED
  BY <1>1, <1>2, <1>3, <1>4, <1>5, <1>6, <1>7, <1>8, <1>9 DEF Next, Main

THEOREM Invariance == Spec => []IInv
BY InitInv, NextInv, PTL DEF Spec

-----------------------------------------------------------------------------
(* Every variable of the suite keeps its type, whatever profiles the       *)
(* modules declare.                                                        *)
THEOREM TypeCorrect == Spec => []TypeOK
<1>1. IInv => TypeOK BY DEF IInv
<1>2. QED BY <1>1, Invariance, PTL

(* MeasurementModules.Setup partitions the modules: no two profiles are    *)
(* alike and none shares a module with another, however many modules there *)
(* are and whatever their order (measurement/__init__.py 152-182).         *)
THEOREM ProfilesDistinct == Spec => []ProfilesDiffer
<1>1. IInv => ProfilesDiffer
  BY InOneProfile DEF IInv, ProfileInv, Partition, ProfilesDiffer, Mods
<1>2. QED BY <1>1, Invariance, PTL

(* The report is made when whatever was released in any profile has its    *)
(* results; no assumption on timing, faults or signals is needed           *)
(* (rteval/__init__.py 281-286).                                           *)
THEOREM Complete == Spec => []AllComplete
<1>1. ASSUME IInv PROVE AllComplete
  <2>1. SUFFICES ASSUME mpc = "report", NEW m \in Measurements, start[m]
                 PROVE  finished[m] /\ ~Running(m)
    BY DEF AllComplete, MainAt
  <2>2. iter = 0 /\ Registered = Measurements BY <1>1, <2>1 DEF IInv, ProfileInv
  <2>3. PICK i \in DOMAIN profiles : m \in Mods(i) BY <1>1, <2>2, InOneProfile DEF IInv
  <2>4. i > iter BY <1>1, <2>2, InOneProfile DEF IInv
  <2>5. finished[m] BY <1>1, <2>1, <2>3, <2>4 DEF IInv, DoneInv
  <2>6. m \in Modules BY DEF Modules
  <2>7. QED BY <1>1, <2>5, <2>6 DEF IInv, ThreadInv, ModuleInv
<1>2. QED BY <1>1, Invariance, PTL

(* In a profile to be run one module after the other never two workloads   *)
(* run, if a minute suffices to start a released one: isAlive() takes one  *)
(* that was not started yet for one that is over                           *)
(* (measurement/__init__.py 62-107).                                       *)
THEOREM OneByOne == ASSUME PromptStart PROVE Spec => []OneAtATime
<1>1. ASSUME IInv PROVE OneAtATime
  <2>1. SUFFICES ASSUME NEW m \in Measurements, NEW k \in Measurements, Running(m), Running(k),
                        m # k, ~info[m].parallel, info[m] = info[k]
                 PROVE  FALSE
    BY DEF OneAtATime
  <2>2. m \in Modules /\ k \in Modules BY DEF Modules
  <2>3. start[m] /\ start[k]
    BY <1>1, <2>1, <2>2 DEF IInv, ThreadInv, ModuleInv, Started, Running
  <2>4. QED BY PromptStart, <1>1, <2>1, <2>3 DEF IInv, SerialInv, Spent
<1>2. QED BY <1>1, Invariance, PTL

(* No load runs beside a measurement that is not to run under load, if two *)
(* seconds suffice for a stopped thread to end and no load leaves a        *)
(* process behind when its thread dies (rteval/__init__.py 179-273).       *)
THEOREM Quiet ==
  ASSUME PromptStop, \A l \in Loads : Contained(l)
  PROVE  Spec => []QuietMeasured
<1>1. ASSUME IInv PROVE QuietMeasured
  <2>1. SUFFICES ASSUME NEW m \in Measurements, Running(m), ~info[m].loads, NEW l \in Loads
                 PROVE  ~Running(l)
    BY DEF QuietMeasured
  <2>2. m \in Modules /\ l \in Modules BY DEF Modules
  <2>3. ThreadAlive(m)
    BY <1>1, <2>1, <2>2, Measuring, DeadIsQuiet DEF IInv, ThreadInv
  <2>4. Rested(l) BY PromptStop, <1>1, <2>1, <2>3 DEF IInv, RestInv
  <2>5. CASE donotrun[l]
    BY <1>1, <2>2, <2>5 DEF IInv, ThreadInv, ModuleInv, Started, Running
  <2>6. CASE ~ThreadAlive(l) BY <1>1, <2>2, <2>6, DeadIsQuiet DEF IInv, ThreadInv
  <2>7. QED BY <2>4, <2>5, <2>6 DEF Rested
<1>2. QED BY <1>1, Invariance, PTL
=============================================================================
