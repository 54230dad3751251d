----------------------------- MODULE RtEvalRun -----------------------------
(***************************************************************************)
(* One measurement run of rteval: RtEval.__RunMeasurementProfile and       *)
(* RtEval.Measure (rteval/__init__.py) driving the load modules and a      *)
(* parallel measurement profile through RtEvalModules                      *)
(* (rteval/modules/__init__.py), concurrently with the module threads of   *)
(* ModuleThread and with the signals a user sends.                         *)
(*                                                                         *)
(* Each loop over a module container is one action per module; the order   *)
(* is the (arbitrary) order of the configuration file, so any order is     *)
(* allowed here.  Sleeps and timed joins take no step.                     *)
(***************************************************************************)
EXTENDS ModuleThread

CONSTANTS
  Rounds,         \* bound: how many one-minute rounds the duration allows
  MaxSignals,     \* bound: how many SIGINT or SIGTERM may arrive
  PromptStart     \* whether a minute suffices to start a released workload

ASSUME BoundsAssumption == Rounds \in Nat /\ MaxSignals \in Nat
ASSUME PromptStartAssumption ==
  PromptStart \in BOOLEAN /\ (PromptStart => "spawn" \notin Faults)

VARIABLES
  mpc,        \* where the main thread is
  mtodo,      \* modules the loop the main thread is in has not handled yet
  exc,        \* the exception being propagated
  nthreads,   \* len(threading.enumerate()) after the loads are unleashed
  rounds,     \* minutes of the measurement that have passed
  earlystop,  \* the global of that name
  stopsig,    \* stopsig_received
  handler,    \* what SIGINT and SIGTERM do: Python's default, rteval's, SIG_DFL
  signals     \* how many signals have arrived

mainVars == <<mpc, mtodo, exc, nthreads, rounds, earlystop, stopsig, handler,
              signals>>
vars == <<threadVars, events, mainVars>>

(* The body of the try statement, its finally clause, and what follows.    *)
TryBody == {"startLoads", "pollLoads", "startMeasure", "pollMeasure",
            "unleashLoads", "count", "unleashMeasure", "handlers",
            "loop", "alive", "threads", "restore"}
Finally == {"stopMeasure", "stopLoads"}
MainLabels == TryBody \cup Finally \cup {"wait", "report", "exit", "gone", "killed"}

TypeOK ==
  /\ ThreadTypeOK
  /\ mpc \in MainLabels
  /\ mtodo \in SUBSET Modules
  /\ exc \in {"none", "RuntimeError", "OSError", "KeyboardInterrupt"}
  /\ nthreads \in 0..(Cardinality(Modules) + 1)
  /\ rounds \in 0..Rounds
  /\ earlystop \in BOOLEAN
  /\ stopsig \in BOOLEAN
  /\ handler \in {"python", "rteval", "default"}
  /\ signals \in 0..MaxSignals

Init ==
  /\ ThreadInit
  /\ mpc = "startLoads"
  /\ mtodo = Loads
  /\ exc = "none"
  /\ nthreads = 0
  /\ rounds = 0
  /\ earlystop = FALSE
  /\ stopsig = FALSE
  /\ handler = "python"
  /\ signals = 0

-----------------------------------------------------------------------------
(* Mutated LiveThreads: the main thread counted twice.                     *)
LiveThreads_CountsTwice == 2 + Cardinality({m \in Modules : ThreadAlive(m)})

(* threading.enumerate() counts the main thread as well.                   *)
LiveThreads == 1 + Cardinality({m \in Modules : ThreadAlive(m)})

MainAt(l) == mpc = l

(* The modules a loop of the main thread goes through, by the loop's name. *)
Worklist(l) ==
  CASE l \in {"startLoads", "unleashLoads", "stopLoads"} -> Loads
    [] l \in {"startMeasure", "unleashMeasure", "stopMeasure", "wait"} -> Measurements
    [] OTHER -> {}

MainGoto(l) == mpc' = l /\ mtodo' = Worklist(l)

(* An exception leaves the try body.  The except clause swallows a         *)
(* RuntimeError once a stop signal has been received; the finally clause   *)
(* runs in any case.                                                       *)
Raise(e) ==
  /\ exc' = IF e = "RuntimeError" /\ stopsig THEN "none" ELSE e
  /\ MainGoto("stopMeasure")

(* RtEvalModules.Start: start every thread of the group ...                *)
StartModule(m) ==
  /\ mpc \in {"startLoads", "startMeasure"} /\ m \in mtodo
  /\ StartThread(m)
  /\ mtodo' = mtodo \ {m}
  /\ UNCHANGED <<events, mpc, exc, nthreads, rounds, earlystop, stopsig, handler, signals>>

(* ... then poll until all of them are ready, or one that is not ready had *)
(* a rtevalRuntimeError.  (A pass of the poll is one step: ready, donotrun *)
(* and the error flag are never cleared.)                                  *)
Polled == IF MainAt("pollLoads") THEN Loads ELSE Measurements

(* Mutated PollDone: the poll is content with the first ready module.      *)
PollDone_FirstReady ==
  /\ mpc \in {"pollLoads", "pollMeasure"}
  /\ \E m \in Polled : IsReady(m)
  /\ MainGoto(IF MainAt("pollLoads") THEN "startMeasure" ELSE "unleashLoads")
  /\ UNCHANGED <<threadVars, events, exc, nthreads, rounds, earlystop, stopsig, handler, signals>>

PollDone ==
  /\ mpc \in {"pollLoads", "pollMeasure"}
  /\ \A m \in Polled : IsReady(m)
  /\ MainGoto(IF MainAt("pollLoads") THEN "startMeasure" ELSE "unleashLoads")
  /\ UNCHANGED <<threadVars, events, exc, nthreads, rounds, earlystop, stopsig, handler, signals>>

PollFails ==
  /\ mpc \in {"pollLoads", "pollMeasure"}
  /\ \E m \in Polled : ~IsReady(m) /\ rterr[m]
  /\ Raise("RuntimeError")
  /\ UNCHANGED <<threadVars, events, nthreads, rounds, earlystop, stopsig, handler, signals>>

(* RtEvalModules.Unleash: set the start event of every module.             *)
SetStart(m) ==
  /\ mpc \in {"unleashLoads", "unleashMeasure"} /\ m \in mtodo
  /\ start' = [start EXCEPT ![m] = TRUE]
  /\ mtodo' = mtodo \ {m}
  /\ UNCHANGED <<threadVars, stop, mpc, exc, nthreads, rounds, earlystop, stopsig, handler, signals>>

(* Every module of a Start or Unleash loop has been handled.               *)
LoopDone ==
  /\ mpc \in {"startLoads", "startMeasure", "unleashLoads", "unleashMeasure"}
  /\ mtodo = {}
  /\ MainGoto(CASE MainAt("startLoads")     -> "pollLoads"
                [] MainAt("startMeasure")   -> "pollMeasure"
                [] MainAt("unleashLoads")   -> "count"
                [] MainAt("unleashMeasure") -> "handlers")
  /\ UNCHANGED <<threadVars, events, exc, nthreads, rounds, earlystop, stopsig, handler, signals>>

CountThreads ==
  /\ MainAt("count")
  /\ nthreads' = LiveThreads
  /\ MainGoto("unleashMeasure")
  /\ UNCHANGED <<threadVars, events, exc, rounds, earlystop, stopsig, handler, signals>>

InstallHandlers ==
  /\ MainAt("handlers")
  /\ handler' = "rteval"
  /\ MainGoto("loop")
  /\ UNCHANGED <<threadVars, events, exc, nthreads, rounds, earlystop, stopsig, signals>>

(* The measurement loop ends when the duration has passed, when the last   *)
(* round moved stoptime into the past, or on a stop signal.                *)
LoopTest ==
  /\ MainAt("loop")
  /\ MainGoto(IF rounds < Rounds /\ ~earlystop /\ ~stopsig
                THEN "alive" ELSE "restore")
  /\ UNCHANGED <<threadVars, events, exc, nthreads, rounds, earlystop, stopsig, handler, signals>>

(* measure_profile.isAlive(), after a minute of sleep: every measurement   *)
(* module is required to be alive.  Nothing but time makes sure that a     *)
(* released thread has started its process by then; PromptStart says that  *)
(* the minute was enough.                                                  *)
Begun(m) == /\ pc[m] \notin {"prepare", "check", "wait"}
            /\ Slots(m) = {} \/ Started(m) \/ ~ThreadAlive(m)

CheckAlive ==
  /\ MainAt("alive")
  /\ PromptStart => \A m \in Measurements : Begun(m)
  /\ earlystop' = (\E m \in Measurements : ~WorkloadAlive(m))
  /\ MainGoto("threads")
  /\ UNCHANGED <<threadVars, events, exc, nthreads, rounds, stopsig, handler, signals>>

(* sysstat runs sadc from here, which raises OSError if it is not there.   *)
AliveFails ==
  /\ "spawn" \in Faults
  /\ MainAt("alive") /\ \E m \in Measurements : Kind[m] = "sysstat"
  /\ Raise("OSError")
  /\ UNCHANGED <<threadVars, events, nthreads, rounds, earlystop, stopsig, handler, signals>>

CheckThreads ==
  /\ MainAt("threads")
  /\ IF LiveThreads < nthreads
       THEN Raise("RuntimeError") /\ UNCHANGED rounds
       ELSE MainGoto("loop") /\ rounds' = rounds + 1 /\ UNCHANGED exc
  /\ UNCHANGED <<threadVars, events, nthreads, earlystop, stopsig, handler, signals>>

RestoreHandlers ==
  /\ MainAt("restore")
  /\ handler' = "default"
  /\ MainGoto("stopMeasure")
  /\ UNCHANGED <<threadVars, events, exc, nthreads, rounds, earlystop, stopsig, signals>>

(* RtEvalModules.Stop, in the finally clause: set the stop event of every  *)
(* module that will run (and wait for its thread for two seconds, whatever *)
(* comes of it).                                                           *)
SetStop(m) ==
  /\ mpc \in Finally /\ m \in mtodo
  /\ stop' = [stop EXCEPT ![m] = @ \/ WillRun(m)]
  /\ mtodo' = mtodo \ {m}
  /\ UNCHANGED <<threadVars, start, mpc, exc, nthreads, rounds, earlystop, stopsig, handler, signals>>

(* Mutated StopDone: the loads are only stopped on the normal way out.     *)
StopDone_SkipsLoads ==
  /\ mpc \in Finally /\ mtodo = {}
  /\ MainGoto(IF exc # "none" THEN "exit"
              ELSE IF MainAt("stopMeasure") THEN "stopLoads" ELSE "wait")
  /\ UNCHANGED <<threadVars, events, exc, nthreads, rounds, earlystop, stopsig, handler, signals>>

StopDone ==
  /\ mpc \in Finally /\ mtodo = {}
  /\ MainGoto(IF MainAt("stopMeasure") THEN "stopLoads"
              ELSE IF exc = "none" THEN "wait" ELSE "exit")
  /\ UNCHANGED <<threadVars, events, exc, nthreads, rounds, earlystop, stopsig, handler, signals>>

(* Mutated WaitForCompletion: the wait is given a timeout.                 *)
WaitForCompletion_Timed(m) ==
  /\ MainAt("wait") /\ m \in mtodo
  /\ mtodo' = mtodo \ {m}
  /\ UNCHANGED <<threadVars, events, mpc, exc, nthreads, rounds, earlystop, stopsig, handler, signals>>

(* measure_profile.WaitForCompletion(): no timeout is given.               *)
WaitForCompletion(m) ==
  /\ MainAt("wait") /\ m \in mtodo
  /\ start[m] => finished[m]
  /\ mtodo' = mtodo \ {m}
  /\ UNCHANGED <<threadVars, events, mpc, exc, nthreads, rounds, earlystop, stopsig, handler, signals>>

WaitDone ==
  /\ MainAt("wait") /\ mtodo = {}
  /\ MainGoto("report")
  /\ UNCHANGED <<threadVars, events, exc, nthreads, rounds, earlystop, stopsig, handler, signals>>

(* Measure(): the report is made from the modules' results and rteval-cmd  *)
(* exits.                                                                  *)
Report ==
  /\ MainAt("report")
  /\ MainGoto("exit")
  /\ UNCHANGED <<threadVars, events, exc, nthreads, rounds, earlystop, stopsig, handler, signals>>

(* The interpreter joins the threads, which are not daemons, before the    *)
(* process is gone.                                                        *)
Exit ==
  /\ MainAt("exit") /\ \A m \in Modules : ~ThreadAlive(m)
  /\ MainGoto("gone")
  /\ UNCHANGED <<threadVars, events, exc, nthreads, rounds, earlystop, stopsig, handler, signals>>

(* SIGINT or SIGTERM.  Until rteval's handlers are installed a SIGINT      *)
(* raises KeyboardInterrupt wherever the main thread is, and SIGTERM kills *)
(* the process; so do both once the defaults have been put back.           *)
Signal(sig) ==
  /\ signals < MaxSignals /\ mpc \notin {"exit", "gone", "killed"}
  /\ signals' = signals + 1
  /\ stopsig' = (stopsig \/ handler = "rteval")
  /\ CASE handler = "rteval" -> UNCHANGED <<mpc, mtodo, exc>>
       [] handler = "python" /\ sig = "SIGINT" ->
            IF mpc \in TryBody
              THEN Raise("KeyboardInterrupt")
              ELSE exc' = "KeyboardInterrupt" /\ MainGoto("exit")
       [] OTHER -> MainGoto("killed") /\ UNCHANGED exc
  /\ UNCHANGED <<threadVars, events, nthreads, rounds, earlystop, handler>>

-----------------------------------------------------------------------------
Main ==
  \/ \E m \in Modules : \/ StartModule(m) \/ SetStart(m)
                        \/ SetStop(m) \/ WaitForCompletion(m)
  \/ LoopDone \/ PollDone \/ PollFails \/ CountThreads \/ InstallHandlers
  \/ LoopTest \/ CheckAlive \/ AliveFails \/ CheckThreads \/ RestoreHandlers
  \/ StopDone \/ WaitDone \/ Report \/ Exit

(* The threads run until the process is gone; the workload processes are   *)
(* processes of their own.                                                 *)
Thread(m) == /\ mpc \notin {"gone", "killed"}
             /\ Run(m)
             /\ UNCHANGED <<events, mainVars>>
Job(m) == \E n \in Nodes : JobEnds(m, n) /\ UNCHANGED <<events, mainVars>>

Next ==
  \/ Main
  \/ \E sig \in {"SIGINT", "SIGTERM"} : Signal(sig)
  \/ \E m \in Modules : Thread(m) \/ Job(m)

Spec == Init /\ [][Next]_vars

(* The scheduler runs every thread; nothing is assumed of the environment: *)
(* signals, faults and the ends of jobs may happen or not.                 *)
FairSpec == /\ Spec
            /\ WF_vars(Main)
            /\ \A m \in Modules : WF_vars(Thread(m))

-----------------------------------------------------------------------------
(* The run as RunProtocol sees it: a module that declines to run is over,  *)
(* and so is one whose thread has ended; exit without an exception follows *)
(* the report.                                                             *)
Work(m) ==
  IF donotrun[m] \/ pc[m] \in Ends THEN "over"
  ELSE CASE pc[m] \in {"loop", "task", "sleep", "cleanup"} -> "working"
         [] pc[m] \in {"prepare", "check", "wait"}         -> "ready"
         [] OTHER                                          -> "preparing"
Phase == IF exc # "none" \/ mpc = "killed" THEN "aborted"
         ELSE IF mpc \in {"exit", "gone"} THEN "reported" ELSE "running"

Protocol == INSTANCE RunProtocol WITH
              phase <- Phase,
              released <- {m \in Modules : start[m]},
              work <- [m \in Modules |-> Work(m)]

(* Whatever its threads, faults and signals do, a run keeps the promises   *)
(* of RunProtocol: release together, measure under load, report only       *)
(* completed measurements (rteval/__init__.py 170-298).                    *)
KeepsProtocol == Protocol!Spec

(* No workload process exists before every module, load or measurement, is *)
(* ready or has declined to run: the two polls of Start and the two        *)
(* Unleash calls form a barrier (modules/__init__.py 454-501).             *)
StartBarrier ==
  \A m \in Modules : Started(m) => \A k \in Modules : IsReady(k)

(* When the report is made, every measurement module has reduced its       *)
(* results and its process is gone: WaitForCompletion waited for the       *)
(* cleanup of each (rteval/__init__.py 270-273).                           *)
ReportComplete ==
  MainAt("report") => \A m \in Measurements : finished[m] /\ ~Running(m)

(* However the run ends, every module that still has a thread and will run *)
(* has been told to stop before the interpreter waits for the threads: the *)
(* finally clause reaches all of them (rteval/__init__.py 260-266).  This  *)
(* needs the finally clause to run undisturbed.                            *)
StopReachesAll ==
  MainAt("exit") => \A m \in Modules : ThreadAlive(m) /\ WillRun(m) => stop[m]

(* Once rteval is gone by itself no workload process is left behind: every *)
(* thread that started one also ran its cleanup.                           *)
NoOrphans == MainAt("gone") => \A m \in Modules : ~Running(m)

(* WaitForCompletion "blocks until the module has completed its workload"  *)
(* (modules/__init__.py 123), and no longer.                               *)
WaitEnds == MainAt("wait") ~> ~MainAt("wait")

(* Without faults and signals the run comes to its end and rteval exits:   *)
(* no loop of the main thread, no wait for an event and no module thread   *)
(* goes on for ever (rteval/__init__.py 170-298).                          *)
Terminates == <>(MainAt("gone") \/ signals > 0)
=============================================================================
