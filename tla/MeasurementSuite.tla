-------------------------- MODULE MeasurementSuite --------------------------
(***************************************************************************)
(* All measurements of one rteval process: MeasurementModules groups the   *)
(* measurement modules into profiles, with or without loads, in parallel   *)
(* or one after the other (rteval/modules/measurement/__init__.py);        *)
(* RtEval.Measure runs profile after profile with the same loads and makes *)
(* one report (rteval/__init__.py); --onlyload runs the loads alone        *)
(* (rteval-cmd).  The threads are those of ModuleThread.                   *)
(*                                                                         *)
(* RtEvalRun has the details of one parallel profile under load.  Here a   *)
(* loop over the modules of a container is one step, and the profiles a    *)
(* module declares in its ModuleInfo() are any.                            *)
(***************************************************************************)
EXTENDS ModuleThread, Sequences, SequencesExt

CONSTANTS
  Order,          \* the measurement modules in the order the section yields them
  Rounds,         \* bound: how many minutes the duration allows a profile
  MaxSignals,     \* bound: how many SIGINT may arrive
  PromptStart,    \* whether a minute suffices to start a released workload
  PromptStop      \* whether two seconds suffice to end a stopped thread

ASSUME SuiteAssumption ==
  /\ Order \in Seq(Measurements) /\ Range(Order) = Measurements
  /\ Len(Order) = Cardinality(Measurements)
  /\ Rounds \in Nat /\ MaxSignals \in Nat
  /\ PromptStart \in BOOLEAN /\ PromptStop \in BOOLEAN

VARIABLES
  info,       \* ModuleInfo() of each measurement module: with loads, parallel
  onlyload,   \* the option --onlyload
  profiles,   \* MeasurementModules.__measureprofiles, each with its modules
  iter,       \* MeasurementModules.__iter_item
  mpc,        \* where the main thread is
  exc,        \* the exception being propagated
  serialised, \* MeasurementProfile.__serialised_mods of the running profile
  nthreads,   \* number of threads counted once the loads are unleashed
  rounds,     \* minutes the running profile has lasted
  stoptime,   \* whether stoptime was moved into the past
  earlystop,  \* the global of that name
  stopsig,    \* stopsig_received
  handler,    \* what SIGINT does: Python's default, rteval's, SIG_DFL
  signals     \* how many signals have arrived

local   == <<serialised, nthreads, rounds, stoptime>>
process == <<earlystop, stopsig, handler>>
fixed   == <<info, onlyload, profiles, signals>>
suiteVars == <<iter, mpc, exc, local, process, fixed>>
vars == <<threadVars, events, suiteVars>>

TryBody == {"startLoads", "pollLoads", "startMeasure", "pollMeasure",
            "unleashLoads", "unleash", "loop", "alive", "threads", "restore"}
Finally == {"stopMeasure", "joinMeasure", "stopLoads", "joinLoads"}
OnlyLoad == {"onlyStart", "onlyPoll", "onlyRun", "onlyStop", "onlyJoin"}
MainLabels == TryBody \cup Finally \cup OnlyLoad
              \cup {"setup", "next", "wait", "report", "exit", "gone", "killed"}

Characteristic == [loads : BOOLEAN, parallel : BOOLEAN]
Profile == [is : Characteristic, mods : Seq(Measurements)]

TypeOK ==
  /\ ThreadTypeOK
  /\ info \in [Measurements -> Characteristic]
  /\ onlyload \in BOOLEAN
  /\ \A i \in DOMAIN profiles : profiles[i] \in Profile
  /\ iter \in 0..Cardinality(Measurements)
  /\ mpc \in MainLabels
  /\ exc \in {"none", "RuntimeError", "KeyboardInterrupt"}
  /\ serialised \in Seq(Measurements)
  /\ nthreads \in 0..(Cardinality(Modules) + 1)
  /\ rounds \in 0..Rounds
  /\ stoptime \in BOOLEAN /\ earlystop \in BOOLEAN /\ stopsig \in BOOLEAN
  /\ handler \in {"python", "rteval", "default"}
  /\ signals \in 0..MaxSignals

Init ==
  /\ ThreadInit
  /\ info \in [Measurements -> Characteristic]
  /\ onlyload \in BOOLEAN
  /\ profiles = <<>> /\ iter = 0
  /\ mpc = "setup" /\ exc = "none"
  /\ serialised = <<>> /\ nthreads = 0 /\ rounds = 0
  /\ stoptime = FALSE /\ earlystop = FALSE /\ stopsig = FALSE
  /\ handler = "python" /\ signals = 0

-----------------------------------------------------------------------------
MainAt(l) == mpc = l
Current   == profiles[iter]
InProfile == Range(Current.mods)

(* Mutated LiveThreads: the main thread counted twice.                     *)
LiveThreads_CountsTwice == 2 + Cardinality({m \in Modules : ThreadAlive(m)})

(* threading.enumerate() counts the main thread as well.                   *)
LiveThreads == 1 + Cardinality({m \in Modules : ThreadAlive(m)})

(* RtEvalModules.Start up to its poll, for the modules of a container.     *)
StartAll(S) == pc' = [m \in Modules |-> IF m \in S THEN "begin" ELSE pc[m]]
AllReady(S) == \A m \in S : IsReady(m)
Release(S)  == start' = [m \in Modules |-> start[m] \/ m \in S]
SetStops(S) == stop' = [m \in Modules |-> stop[m] \/ (m \in S /\ WillRun(m))]

(* mod.join(2.0) for those that were told to stop.                         *)
Joined(S) == PromptStop => \A m \in S : WillRun(m) => ~ThreadAlive(m)

Registered == {m \in Measurements : \E i \in DOMAIN profiles : m \in Range(profiles[i].mods)}

(* GetProfile(with_load, run_parallel), 0 for None.                        *)
ProfileOf(is) ==
  LET same == {i \in DOMAIN profiles : profiles[i].is = is}
  IN  IF same = {} THEN 0 ELSE CHOOSE i \in same : \A j \in same : i <= j

(* Mutated SetupModule: every module gets a profile of its own.            *)
SetupModule_OwnProfile(m) ==
  /\ MainAt("setup") /\ Registered # Measurements
  /\ m = Order[Cardinality(Registered) + 1]
  /\ profiles' = Append(profiles, [is |-> info[m], mods |-> <<m>>])
  /\ UNCHANGED <<threadVars, events, iter, mpc, exc, local, process, info,
                 onlyload, signals>>

(* MeasurementModules.Setup for one module: into the profile it declares,  *)
(* which is created when it is the first of its kind.                      *)
SetupModule(m) ==
  /\ MainAt("setup") /\ Registered # Measurements
  /\ m = Order[Cardinality(Registered) + 1]
  /\ LET p == ProfileOf(info[m])
     IN  profiles' = IF p = 0 THEN Append(profiles, [is |-> info[m], mods |-> <<m>>])
                     ELSE [profiles EXCEPT ![p].mods = Append(@, m)]
  /\ UNCHANGED <<threadVars, events, iter, mpc, exc, local, process, info,
                 onlyload, signals>>

SetupDone ==
  /\ MainAt("setup") /\ Registered = Measurements
  /\ mpc' = IF onlyload THEN "onlyStart" ELSE "next"
  /\ iter' = Len(profiles)
  /\ UNCHANGED <<threadVars, events, exc, local, process, fixed>>

-----------------------------------------------------------------------------
(* Measure(): the iterator yields the profiles from the last to the first. *)
(* __RunMeasurementProfile begins with its own time and thread count.      *)
NextProfile ==
  /\ MainAt("next")
  /\ IF iter = 0
       THEN mpc' = "report" /\ UNCHANGED <<nthreads, rounds, stoptime>>
       ELSE /\ mpc' = IF Current.is.loads THEN "startLoads" ELSE "startMeasure"
            /\ nthreads' = 0 /\ rounds' = 0 /\ stoptime' = FALSE
  /\ UNCHANGED <<threadVars, events, iter, exc, serialised, process, fixed>>

(* The except clause swallows a RuntimeError after a stop signal.          *)
Raise(e) ==
  /\ exc' = IF e = "RuntimeError" /\ stopsig THEN "none" ELSE e
  /\ mpc' = "stopMeasure"

(* The loads of an earlier profile cannot be started again: "threads can   *)
(* only be started once", a RuntimeError.                                  *)
StartLoads ==
  /\ MainAt("startLoads")
  /\ IF \A m \in Loads : pc[m] = "new"
       THEN StartAll(Loads) /\ mpc' = "pollLoads" /\ UNCHANGED exc
       ELSE Raise("RuntimeError") /\ UNCHANGED pc
  /\ UNCHANGED <<ready, rterr, donotrun, finished, job, todo, events, iter,
                 local, process, fixed>>

StartMeasure ==
  /\ MainAt("startMeasure")
  /\ StartAll(InProfile) /\ mpc' = "pollMeasure"
  /\ UNCHANGED <<ready, rterr, donotrun, finished, job, todo, events, iter, exc,
                 local, process, fixed>>

Polled == IF MainAt("pollLoads") THEN Loads ELSE InProfile

Poll ==
  /\ mpc \in {"pollLoads", "pollMeasure"}
  /\ \/ AllReady(Polled) /\ UNCHANGED exc
        /\ mpc' = IF MainAt("pollLoads") THEN "startMeasure"
                  ELSE IF Current.is.loads THEN "unleashLoads" ELSE "unleash"
     \/ (\E m \in Polled : ~IsReady(m) /\ rterr[m]) /\ Raise("RuntimeError")
  /\ UNCHANGED <<threadVars, events, iter, local, process, fixed>>

UnleashLoads ==
  /\ MainAt("unleashLoads")
  /\ Release(Loads) /\ nthreads' = LiveThreads /\ mpc' = "unleash"
  /\ UNCHANGED <<threadVars, stop, iter, exc, serialised, rounds, stoptime,
                 process, fixed>>

(* Mutated Unleash: a serialised profile releases all its modules.         *)
Unleash_All ==
  /\ MainAt("unleash")
  /\ Release(InProfile)
  /\ serialised' = IF Current.is.parallel THEN serialised ELSE Current.mods
  /\ handler' = "rteval" /\ mpc' = "loop"
  /\ UNCHANGED <<threadVars, stop, iter, exc, nthreads, rounds, stoptime,
                 earlystop, stopsig, fixed>>

(* MeasurementProfile.Unleash, and the signal handlers after it.           *)
Unleash ==
  /\ MainAt("unleash")
  /\ IF Current.is.parallel
       THEN Release(InProfile) /\ UNCHANGED serialised
       ELSE Release({Head(Current.mods)}) /\ serialised' = Current.mods
  /\ handler' = "rteval" /\ mpc' = "loop"
  /\ UNCHANGED <<threadVars, stop, iter, exc, nthreads, rounds, stoptime,
                 earlystop, stopsig, fixed>>

LoopTest ==
  /\ MainAt("loop")
  /\ mpc' = IF rounds < Rounds /\ ~stoptime /\ ~stopsig THEN "alive" ELSE "restore"
  /\ UNCHANGED <<threadVars, events, iter, exc, local, process, fixed>>

(* After a minute of sleep.  PromptStart: the released workloads have been *)
(* started by then.                                                        *)
Begun(m) == start[m] => /\ pc[m] \notin {"prepare", "check", "wait"}
                        /\ Slots(m) = {} \/ Started(m) \/ ~ThreadAlive(m)
Minute == PromptStart => \A m \in InProfile : Begun(m)

NotAlive == stoptime' = TRUE /\ earlystop' = TRUE /\ UNCHANGED <<start, serialised>>
StillAlive == UNCHANGED <<start, serialised, stoptime, earlystop>>

(* isAlive() of a parallel profile requires all modules to be alive.       *)
ParallelAlive ==
  /\ Current.is.parallel
  /\ IF \A m \in InProfile : WorkloadAlive(m) THEN StillAlive ELSE NotAlive

(* Mutated SerialAlive: the next module is released without a look at the  *)
(* one before it.                                                          *)
SerialAlive_Impatient ==
  /\ ~Current.is.parallel
  /\ IF Len(serialised) > 1
       THEN /\ serialised' = Tail(serialised)
            /\ Release({serialised[2]})
            /\ UNCHANGED <<stoptime, earlystop>>
       ELSE NotAlive

(* That of a serialised one goes on to the next module when the one before *)
(* it is over, and is not alive when it was the last.                      *)
SerialAlive ==
  /\ ~Current.is.parallel
  /\ IF serialised # <<>> /\ WorkloadAlive(Head(serialised)) THEN StillAlive
     ELSE IF Len(serialised) > 1
       THEN /\ serialised' = Tail(serialised)
            /\ Release({serialised[2]})
            /\ UNCHANGED <<stoptime, earlystop>>
       ELSE NotAlive

CheckAlive ==
  /\ MainAt("alive") /\ Minute
  /\ ParallelAlive \/ SerialAlive
  /\ mpc' = "threads"
  /\ UNCHANGED <<threadVars, stop, iter, exc, nthreads, rounds, stopsig,
                 handler, fixed>>

(* "load thread died!", only looked for under load.                        *)
CheckThreads ==
  /\ MainAt("threads")
  /\ IF Current.is.loads /\ LiveThreads < nthreads
       THEN Raise("RuntimeError") /\ UNCHANGED rounds
       ELSE mpc' = "loop" /\ rounds' = rounds + 1 /\ UNCHANGED exc
  /\ UNCHANGED <<threadVars, events, iter, serialised, nthreads, stoptime,
                 process, fixed>>

RestoreHandlers ==
  /\ MainAt("restore")
  /\ handler' = "default" /\ mpc' = "stopMeasure"
  /\ UNCHANGED <<threadVars, events, iter, exc, local, earlystop, stopsig, fixed>>

(* The finally clause: RtEvalModules.Stop of the profile, then of the      *)
(* loads if it runs with them.                                             *)
StopGroup ==
  /\ mpc \in {"stopMeasure", "stopLoads"}
  /\ SetStops(IF MainAt("stopMeasure") THEN InProfile ELSE Loads)
  /\ mpc' = IF MainAt("stopMeasure") THEN "joinMeasure" ELSE "joinLoads"
  /\ UNCHANGED <<threadVars, start, iter, exc, local, process, fixed>>

(* Mutated JoinGroup: the loads go on into the next profile.               *)
JoinGroup_SkipsLoads ==
  /\ mpc \in {"joinMeasure", "joinLoads"}
  /\ Joined(IF MainAt("joinMeasure") THEN InProfile ELSE Loads)
  /\ mpc' = IF exc = "none" THEN "wait" ELSE "exit"
  /\ UNCHANGED <<threadVars, events, iter, exc, local, process, fixed>>

(* The joins of Stop, and after the profile's the loads if it has any.     *)
JoinGroup ==
  /\ mpc \in {"joinMeasure", "joinLoads"}
  /\ Joined(IF MainAt("joinMeasure") THEN InProfile ELSE Loads)
  /\ mpc' = IF MainAt("joinMeasure") /\ Current.is.loads THEN "stopLoads"
            ELSE IF exc = "none" THEN "wait" ELSE "exit"
  /\ UNCHANGED <<threadVars, events, iter, exc, local, process, fixed>>

(* Mutated WaitForCompletion: only the modules that ended by themselves    *)
(* are waited for.                                                         *)
WaitForCompletion_NoWait ==
  /\ MainAt("wait")
  /\ mpc' = "next" /\ iter' = iter - 1
  /\ UNCHANGED <<threadVars, events, exc, local, process, fixed>>

(* WaitForCompletion: a module that was never released is not waited for.  *)
WaitForCompletion ==
  /\ MainAt("wait") /\ \A m \in InProfile : start[m] => finished[m]
  /\ mpc' = "next" /\ iter' = iter - 1
  /\ UNCHANGED <<threadVars, events, exc, local, process, fixed>>

(* One report about all profiles, and the end of the process: the          *)
(* interpreter waits for the threads.                                      *)
Report ==
  /\ MainAt("report") /\ mpc' = "exit"
  /\ UNCHANGED <<threadVars, events, iter, exc, local, process, fixed>>

Exit ==
  /\ MainAt("exit") /\ \A m \in Modules : ~ThreadAlive(m)
  /\ mpc' = "gone"
  /\ UNCHANGED <<threadVars, events, iter, exc, local, process, fixed>>

-----------------------------------------------------------------------------
(* --onlyload: start, release, sleep for the duration, stop.               *)
OnlyLoadStart ==
  /\ MainAt("onlyStart")
  /\ StartAll(Loads) /\ mpc' = "onlyPoll"
  /\ UNCHANGED <<ready, rterr, donotrun, finished, job, todo, events, iter, exc,
                 local, process, fixed>>

OnlyLoadRelease ==
  /\ MainAt("onlyPoll") /\ AllReady(Loads)
  /\ Release(Loads) /\ mpc' = "onlyRun"
  /\ UNCHANGED <<threadVars, stop, iter, exc, local, process, fixed>>

OnlyLoadFails ==
  /\ MainAt("onlyPoll") /\ \E m \in Loads : ~IsReady(m) /\ rterr[m]
  /\ exc' = "RuntimeError" /\ mpc' = "exit"
  /\ UNCHANGED <<threadVars, events, iter, local, process, fixed>>

OnlyLoadStop ==
  /\ MainAt("onlyRun")
  /\ SetStops(Loads) /\ mpc' = "onlyJoin"
  /\ UNCHANGED <<threadVars, start, iter, exc, local, process, fixed>>

OnlyLoadExit ==
  /\ MainAt("onlyJoin") /\ Joined(Loads)
  /\ mpc' = "exit"
  /\ UNCHANGED <<threadVars, events, iter, exc, local, process, fixed>>

-----------------------------------------------------------------------------
(* SIGINT.  rteval-cmd turns a KeyboardInterrupt into sys.exit(0).         *)
Interrupt ==
  /\ signals < MaxSignals /\ mpc \notin {"setup", "exit", "gone", "killed"}
  /\ signals' = signals + 1
  /\ stopsig' = (stopsig \/ handler = "rteval")
  /\ CASE handler = "rteval"  -> UNCHANGED <<mpc, exc>>
       [] handler = "default" -> mpc' = "killed" /\ UNCHANGED exc
       [] OTHER -> /\ exc' = "KeyboardInterrupt"
                   /\ mpc' = IF mpc \in TryBody THEN "stopMeasure" ELSE "exit"
  /\ UNCHANGED <<threadVars, events, iter, local, earlystop, handler, info,
                 onlyload, profiles>>

Main ==
  \/ \E m \in Measurements : SetupModule(m)
  \/ SetupDone \/ NextProfile \/ StartLoads \/ StartMeasure \/ Poll \/ UnleashLoads
  \/ Unleash \/ LoopTest \/ CheckAlive \/ CheckThreads \/ RestoreHandlers
  \/ StopGroup \/ JoinGroup \/ WaitForCompletion \/ Report \/ Exit
  \/ OnlyLoadStart \/ OnlyLoadRelease \/ OnlyLoadFails \/ OnlyLoadStop \/ OnlyLoadExit

Thread(m) == /\ mpc \notin {"gone", "killed"}
             /\ Run(m)
             /\ UNCHANGED <<events, suiteVars>>
Job(m) == \E n \in Nodes : JobEnds(m, n) /\ UNCHANGED <<events, suiteVars>>

Next == Main \/ Interrupt \/ \E m \in Modules : Thread(m) \/ Job(m)

Spec == Init /\ [][Next]_vars

(* The scheduler runs every thread; jobs and signals are not bound to      *)
(* anything.                                                               *)
FairSpec == Spec /\ WF_vars(Main) /\ \A m \in Modules : WF_vars(Thread(m))

-----------------------------------------------------------------------------
(* A profile declared to run its modules one after the other never has two *)
(* of their workloads at once: the next is released when the one before it *)
(* is over, and none comes back (measurement/__init__.py 62-107).          *)
OneAtATime ==
  \A m, k \in Measurements :
    Running(m) /\ Running(k) /\ m # k => info[m].parallel \/ info[m] # info[k]

(* A measurement that is not to run under load does not: no load process   *)
(* of an earlier profile, no load of its own (rteval/__init__.py 179-273). *)
QuietMeasured ==
  \A m \in Measurements : Running(m) /\ ~info[m].loads => \A l \in Loads : ~Running(l)

(* The modules are spread over profiles that differ, so that the profiles  *)
(* never have a module, or a characteristic, in common                     *)
(* (measurement/__init__.py 152-182).                                      *)
ProfilesDiffer ==
  \A i, j \in DOMAIN profiles :
    i # j => /\ profiles[i].is # profiles[j].is
             /\ Range(profiles[i].mods) \cap Range(profiles[j].mods) = {}

(* The report is made when the measurements of all profiles are complete:  *)
(* whatever was released has its results (rteval/__init__.py 281-286).     *)
AllComplete ==
  MainAt("report") => \A m \in Measurements : start[m] => finished[m] /\ ~Running(m)

(* With parallel profiles and no signal, rteval comes to its end, with or  *)
(* without loads, and so does --onlyload.                                  *)
SuiteEnds ==
  (\A m \in Measurements : info[m].parallel)
    => <>(MainAt("gone") \/ signals > 0)
=============================================================================
