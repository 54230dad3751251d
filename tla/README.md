# rteval: models, model checks and proofs

rteval measures the realtime behaviour of a Linux machine: it puts the machine
under load, runs measurements such as cyclictest meanwhile, and writes an XML
report.  The reports can be sent to an XML-RPC server, which stores the files
and queues them in a database; a daemon, rteval-parserd, takes them from the
queue and stores their results.  This directory holds TLA+ models of the parts
of rteval where several threads, processes or machines meet, the TLC runs that
check them, and proofs that the TLA+ proof system checks.

Contents: 1 the system, 2 the modules, 3 the runs, 4 bounds and fairness,
5 the proofs, 6 where the code does otherwise than it says, 7 what is not
modelled, 8 the plan.

## 1. The system

| part | state it keeps | operations | interacts with |
|---|---|---|---|
| module threads (`rteval/modules/`) | per module: the events *start*, *stop*, *finished*, the flags *ready*, *donotrun*, *runtimeError*; the workload processes | `run()`: setup, build, prepare, wait for the release, task loop, cleanup | main thread (events, polls), workload processes (Popen, signals, wait) |
| measurement run (`rteval/__init__.py`, `RtEvalModules`, `MeasurementProfile`) | the exception being raised, the number of threads, the stop flag set by signals, the time | `Start`, `Unleash`, `Stop`, `WaitForCompletion` on loads and measurements, `Measure`, the signal handler | module threads, signals, the interpreter at exit |
| parser daemon (`server/parser/rteval-parserd.c`, `parsethread.c`, `pgsql.c`) | shutdown flag, number of active workers, POSIX message queue, one database connection per thread | main loop, workers, `db_wait_notification`, `sigcatch` | database (rows of `submissionqueue`, NOTIFY), signals, report files |
| report registration (`parse_report`, `db_register_*`) | a transaction per report, the tables `systems`, `systems_hostname`, `rtevalruns`, measurements | register system, take a run id, register run and measurements, move the file, commit | database, file system, other workers (`mtx_sysreg`) |
| measurement suite (`MeasurementModules`, `RtEval.Measure`, `--onlyload`) | the profiles and the modules of each, the stop flags that outlive a profile | one profile after the other, with or without loads, in parallel or one module after the other | module threads, signals |
| settings (`rtevalConfig.py`, `rteval-cmd`, `systopology.py`, `misc.py`, `Setup` of the containers) | a dict for each section, which sections may share; the cpu lists of loads and measurements | merge defaults, file and options; derive the list not given; hand each module its section; place workloads on nodes and cpus | modules, `/sys`, `numactl`, `taskset` |
| statistics (`cyclictest.py`) | a histogram, counts and statistics for each cpu and for the system | parse the output, `bucket`, `reduce`, `MakeReport` | cyclictest, report |
| report (`xmlout.py`, `rtevalReport.py`) | the libxml2 document and the status of its object; the report directory | make, load, fill, close, write, free; pack the directory | libxml2, file system, other runs of the day |
| submission (`rtevalXMLRPC.py`, `rtevalclient.py`, `server/xmlrpc_API1.py`, `rtevaldb.py`, `database.py`) | attempts; report files, directories, the working directory of a server process, rows of `submissionqueue` | ask for the server, send with retries, make the directory, name the file, save, insert, commit | network, database, file system, parser |

What is hard in it:

- modules prepare at their own pace and may fail in every step, while the main
  thread must start no workload before all are ready and make no report before
  all measurements are complete;
- a `finally` clause must reach every thread on every way out, signals included;
- main thread and workers of the daemon share a flag, a counter and a bounded
  queue whose `mq_send()` blocks; the database may be lost between any two
  statements; notifications are only sent to those who listen;
- rows, files and messages about the same report change one at a time;
- several profiles share the loads' threads and the stop flags, though threads
  start once and flags are never cleared;
- settings pass through dicts that sections share, and cpu lists exist as text,
  where a digit may stand for itself or for a part of a number;
- a document must be freed by hand, once, whatever calls preceded;
- a reply may be lost after the work was done, so that a report is sent twice, and
  the server's threads share one working directory.

`PROJECT.json` lists each of these at the line where it bites ("hazards"), with
the properties that watch over it.

What makes the parts correct: for the run, the start barrier, the completeness
of the report, that everything is stopped and that it ends; for the daemon, that
a submission is held once and parsed at most once, that its row only moves
forward, that the workers can be stopped and that accepted work is done; for the
registration, that a file is at its place exactly if its rows are in the
database, and that a system is registered once; for the suite, that what should be
measured alone is; for the settings, that a module finds its own and loads keep off
the measured cpus; for the report, that it is whole and its numbers agree; for the
submission, that what is said to be accepted is queued, and its file kept.

## 2. The modules

| module | models | source |
|---|---|---|
| `ModuleThread` | the thread of a module, its workload processes, and what kcompile, hackbench, stress-ng, cyclictest and sysstat do differently | `rteval/modules/**` |
| `RtEvalRun` | extends it with the main thread, the parallel measurement profile, signals and the exit of the process | `rteval/__init__.py`, `rteval/modules/__init__.py` |
| `RunProtocol` | what a run promises: release together, measurements after loads, report after completion | abstract |
| `MCRun` | instances for TLC | |
| `ModuleThread_proofs` | proofs: what one thread keeps true, whoever is its main thread | |
| `RtEvalRun_proofs` | proofs | |
| `ParserDaemon` | main thread, workers, message queue, rows, notifications, connections and signals of rteval-parserd | `server/parser/rteval-parserd.c`, `parsethread.c`, `pgsql.c` |
| `SubmissionQueue` | what the daemon promises about rows and reports | abstract |
| `MCDaemon` | instances for TLC | |
| `ParserDaemon_proofs` | proofs | |
| `ReportRegistration` | the inside of `parse_report()` with several workers: systems, run ids, the transaction, the move of the file, verdicts, restarts | `server/parser/parsethread.c`, `pgsql.c`, `server/sql` |
| `MCRegistration` | instances for TLC | |
| `ReportRegistration_proofs` | proofs | |
| `MeasurementSuite` | the grouping of measurement modules into profiles, their sequence in `Measure`, serial profiles, profiles without loads, `--onlyload` | `rteval/modules/measurement/__init__.py`, `rteval/__init__.py`, `rteval-cmd` |
| `MCSuite` | instances for TLC | |
| `MeasurementSuite_proofs` | proofs | |
| `CpuLists` | cpu lists and what is done with them: expand, compress, invert, on-line cpus, nodes | `rteval/misc.py`, `rteval/systopology.py` |
| `RtevalSetup` | how settings get to the modules, and workloads to their cpus | `rteval/rtevalConfig.py`, `rteval-cmd`, `Setup` and `_WorkloadSetup` of the modules |
| `MCSetup` | machines, files and lists for TLC | |
| `RtevalSetup_proofs` | proofs | |
| `CyclictestData` | the parsing and reduction of a histogram | `rteval/modules/measurement/cyclictest.py` |
| `XMLOut` | the status automaton of the report document | `rteval/xmlout.py` |
| `RunReport` | extends both: directory, report, archive | `rteval/rtevalReport.py` |
| `MCReport` | instances for TLC | |
| `RunReport_proofs` | proofs | |
| `Delivery` | what submitting a report promises | abstract |
| `Submission` | client and server of a submission | `rteval/rtevalXMLRPC.py`, `rtevalclient.py`, `server/xmlrpc_API1.py`, `rtevaldb.py`, `database.py` |
| `MCSubmission` | instances for TLC | |
| `Submission_proofs` | proofs | |

**ModuleThread, RtEvalRun.**  `pc[m]` is the line of `run()` the thread of `m` is
at; `start`, `stop`, `finished` are its events, `job[m][n]` its workload process
on node `n` and `todo[m]` the nodes the loop of the current task or cleanup has
left.  `Kind[m]` says which module it is: the failures a step may have, and what
the cleanup does with a process that is not there, differ between the five.
`mpc` is where the main thread is in `__RunMeasurementProfile`, `mtodo` the
modules its current loop has left, `exc` the exception on its way out, `nthreads`
the number of threads it counted.  A failing step is enabled by a member of
`Faults`.  Python's `Event` and attribute operations are atomic; there are no
locks in the code.  A process started through a shell is one process here.

Two abstractions matter.  `PromptStart = TRUE` assumes that a released workload
is running when the main thread first looks at it, a minute later; without it a
slow `cyclictest` ends the run early, which is what the code does.  Loops over a
module container go in any order, as the order is that of the configuration.

**ParserDaemon.**  `mpc` and `wpc[w]` are the places of the main thread and of the
workers, `mq` is the message queue, `status` holds the rows, `conn[t]` says
whether the connection of a thread is up.  A statement on a connection (`Exec`)
succeeds; or it fails because the connection is down or the server refuses it and
keeps the connection (pgsql.c 515-520, 770-776); or the connection is lost while the
server carries it out.  `missed` is history: the submissions whose last update was not
carried out, which the code does not notice.  The message of zeroes, sent at the shutdown, is `Empty`.  A thread that
signals, or loses its connection, may do so between any two steps of the others.
`Settle` assumes that one worker has started when the three seconds of `sleep`
are over, unless a signal ends the sleep.  `mq_open()` takes no flags from the attributes, so the queue blocks,
and handlers installed by glibc's `signal()` restart `mq_send()` and
`mq_receive()`.  What the libraries do that way (libpq, POSIX queues) is modelled
from how the code uses it.

**ReportRegistration.**  `ParserDaemon` parses a report in one step; this module
opens that step.  `wpc[w]` is the statement of `parse_report()` a worker is at.
The rows of `systems` are a sequence whose index is the key, `hosts` are those of
`systems_hostname`, `lastid` is the sequence of run ids and `runs` the committed
rows of `rtevalruns`, each with the set of tables that refer to it; `pending[w]`
are the tables with rows in the transaction a worker has open.  `file[s]` is 0 as
long as the report is in the submission queue's directory, and the run id in its
name once it was moved: two reports with the same `file` would be one.  `mutex` is
`mtx_sysreg`.  A statement succeeds, or fails (`Fails`) in one of three ways: the
server refuses it and keeps the connection (with `"sql"` in `Faults`), the connection is
down, or it is lost meanwhile, in which case the server may have carried the
statement out or not, and is done with it when the worker notices.  Any statement may be
refused, the update to *in progress* and the COMMIT included, but ROLLBACK, which needs
neither a lock nor space.  `ignored` is history: the failures of these two, which nobody
looks at.  `Kill` is a
crash and a restart: tables, files and the message queue stay, workers and their
transactions do not.  A connection is set up again by `db_ping()` and nowhere else.
Statements of one transaction whose failures are handled alike are one action.  Of
the path that `make_report_dir()` walks, only the last directory, the client's, may
be missing; its `stat()` and its `mkdir()` are two steps.  What the XSLT extracts from a report is
data: `System`, `Host` and `Client` say which reports have it in common; a report
without an IP address, and which of the measurement tables a report fills, are not
told apart.

**MeasurementSuite.**  A second model of the run, one level above `RtEvalRun`: a loop
over the modules of a container, with all its events, is one step, so that what
several profiles do to each other comes within reach.  `mpc` is the place of the main
thread in `Measure`, `__RunMeasurementProfile` or the branch of `--onlyload`; a module's
thread takes the steps of `ModuleThread` (`Run`).
`PromptStart` and `PromptStop` assume that a minute is enough to start a workload, and
the two seconds of `join(2.0)` to end a stopped thread; where the code relies on them
for an order, so do the properties.

**CpuLists, RtevalSetup.**  A cpu list is a set of ranges, because its text may say
`0-3` or `0,1,2,3` and parts of the code look at the digits.  `dict` is which dict
object a section has, `heap` what is in it: `rtevalCfgSection` keeps the dict it was
made with.  One key, `option`, stands for the options of a section whose default is the
setting; `logging` for those of section `rteval` that have a default of their own (`-L`, `-a`, `-O`
and others).  For a module an empty setting of the file means the built-in value; for `rteval` it
stays empty (`Default`).  `machine` holds
the cpus that are possible, on line and switchable, and the cpus of each node.  `pc`
follows `rteval-cmd` to the placement of the loads; every `...Fails` action is an
exception that ends the program.  stress-ng is given `--taskset 0,1` as one argument
(stressng.py 77); its placement here is what the code means by it, and where it does not
take the argument it starts nothing.

**CyclictestData, XMLOut, RunReport.**  `data` is the `RunData` of each id, `stats` what
`reduce()` computes.  Quotients are kept as their numerators, so that the
statistics stay integers: `total` over `numsamples` is the mean, `madsum` over
`numsamples` times `numsamples` the deviation.  A document is a number, `freed` those freed,
`home` the document the root node was put into, `touched` whether a freed document
was used.  A call that raises before it changes anything is no step.  In `RunReport` the object
is used by `_report()`, or (`caller = "anybody"`) in any order of calls.  `summary` and
`archive` are the two files.  Another run of the day may make directories, come to use the
one of this run (`shared`), write its summary there and pack it under the same name, at any
moment (`OtherProcess`).  `saveFormatFileEnc()` may write nothing or a part (`SaveFails`);
`unsaved` remembers that it did.

**Submission.**  `cpc` and `spc` are the places of the runs and of the requests; a
request is a run and a number.  `cwd` belongs to a process of the server, and
`__mkdatadir()` goes one component of the path at a time, each with its test, its
`mkdir()` and its `chdir()`.  `files` maps a name to the request whose report is in it.
A file that could not be opened is not there, and one that could not be written as a whole
is a broken one (`SaveFails`); the row is committed in either case.
`alone` remembers which requests had the file system to themselves, `saved` what was written
for each.  The client library (`xmlrpc.client`) sends a request a second time
on a reset connection (`Resend`).  The parser only takes files away, if it can read them (`Take`).
At this commit client and server do not run as they are: `rtevalXMLRPC` asks the class
`rtevalclient` for an attribute of the same name, the server uses `string.maketrans`, the
WSGI script is Python 2, the options are commented out in `rteval-cmd`.  The model is of what the methods do once called.

Operators named `X_...` after an action `X` are mutations of it: a run must find
its property violated when the action is replaced by the mutation.

## 3. The runs

Runs that pass:

| run | instance | shows |
|---|---|---|
| `faults` | kcompile, cyclictest, sysstat; all faults, one signal, two rounds | types; no workload before all are ready (`StartBarrier`); the report only after completion (`ReportComplete`); `RtEvalRun` implements `RunProtocol` |
| `clean` | hackbench on two nodes, cyclictest, sysstat; no faults, one signal, two rounds, fair | every thread is told to stop before the exit waits for it (`StopReachesAll`); no process outlives rteval (`NoOrphans`); without a signal the run ends and the process exits (`Terminates`) |
| `daemon_safe` | two submissions, three workers, queue of two, one signal, two losses, refused statements | types; a submission is in one place (`HeldOnce`), parsed at most once (`ParsedOnce`) and not lost while assigned (`AssignedIsHeld`); its row is in progress as long as a worker parses it, but for updates that failed (`InProgressIsTrue`); the shutdown messages are enough (`EnoughStops`); `ParserDaemon` implements `SubmissionQueue` |
| `daemon_live` | one submission, two workers, queue of two, one signal, two losses, refused statements, fair | what is taken is parsed as long as there is a worker that has not lost the database, and gets a verdict unless the update failed (`AssignedIsParsed`); with room for the shutdown messages all threads exit (`ExitEndsWithRoom`) |
| `registration` | three reports of two systems, two workers, refused statements, files in the way, two statements refused or connections lost, one restart | types; no system and no host is registered twice (`RegisteredOnce`); stored runs are complete, of their system, and their report is where they say (`RunsAreTrue`); no report displaces another (`OwnPlace`); no verdict is false but after a COMMIT that failed (`VerdictIsTrue`); no way out leaves a transaction open or the mutex locked (`NoOpenTransaction`, `LockCoversRegistration`) |
| `suite` | two measurement modules with any profiles, kcompile as load, which may fail to build, one signal, with and without `--onlyload` | types; a serial profile runs one workload at a time (`OneAtATime`); nothing runs beside what is measured without loads (`QuietMeasured`); no two profiles are alike (`ProfilesDiffer`); a report is made of complete measurements of every profile (`AllComplete`); with parallel profiles and without a signal the process ends (`SuiteEnds`) |
| `setup` | six machines, 36 configuration files, six lists for either group, three sets of options | types; a module has the list of its group and settings by precedence, those of `rteval` with a default of their own included (`OwnSettings`); loads keep off the measured cpus (`LoadsAvoidMeasured`); rteval gets ready exactly unless one of four named conditions holds (`StartsUnlessDoomed`) |
| `results` | two cpus, three buckets, up to two samples in each, whole or broken output; every sequence of calls on a document, up to three documents | statistics agree with the samples, with each other and between cpus and system (`StatisticsAgree`); freed documents are left alone, but in two ways (`FreedIsLeftAlone`); the archive holds the whole report, if the summary could be written and no other run uses the directory (`ArchiveIsWhole`) |
| `submission` | two runs on one machine, two attempts and one request sent again, a server process of two threads, one failure besides lost requests, fair | types; what is said to be accepted is in the queue under that id (`SuccessIsQueued`); an undisturbed report stays in its file for the parser, or another row has a doubtful claim to its name (`KeptForParser`); `Submission` implements `Delivery`, its end included (`Delivers`) |

Runs that must find a violation are in section 6.

## 4. Bounds and fairness

`Rounds` bounds the minutes of a measurement (the second round is the first that
compares thread counts after something happened), `MaxSignals` the signals,
`MaxLosses` the lost connections, `MaxDbFaults` lost connections and refused statements together
(in the daemon refused statements are not bounded).  Three workers and a queue of two messages make
the shutdown messages compete with jobs for the queue; two submissions are needed
for one job to overtake or displace the other.  `daemon_live` has two losses for two
workers, so that both may leave and nobody is left to parse; one submission and two
shutdown messages fill its queue.  With two submissions and one loss, or with no signal and a
queue of three, its properties were checked as well, in runs too long to be kept.  Workers are symmetric in
`daemon_safe` and in `registration`, which check no liveness.  The three reports of
`registration` are the smallest set with the cases that matter: two of one system
(register or find it), from one client (make or find its directory), with
different addresses, one of which another system has too.  Two workers are enough
for a race between them; the third report comes after a verdict, a lost connection
or a restart.  In `suite` two measurement modules suffice to be in one profile, in
two, or one of them serial.  `setup` needs cpus of two digits, hence `MaxCpu = 12`, a cpu
that is off line, one that cannot be switched off, a node without cpus and a machine
without `numactl`.  Three buckets hold a histogram with a gap; `MaxLevel` and
`MaxDocs` allow a document to be made, replaced and replaced again.  In `submission`
`MaxAttempts` is two instead of six, which is enough to give up, to succeed at the second
attempt and to overlap with oneself; `MaxReceived` lets two requests in all reach the server, of the
same run or of both, `MaxFaults` is one.  Deadlock is not checked: the programs
stop.

Fairness is weak and per thread: the operating system runs every thread that can
run.  It covers the main thread as a whole, for it has one place at a time.
Nothing is assumed of the environment: faults, signals, ends of workload
processes, submissions and lost connections may or may not happen.  A fair
`CheckStop`/`WaitStart` pair is the one-second timed wait of `run()`.  `suite` assumes as
much of the main thread and the module threads, and nothing of the workloads: that a stopped
thread ends its own is part of the thread.  In
`submission` the client, the threads of the server and the arrival of a request (which
may be its loss) are fair; the parser is not, and nothing says that a fault happens or does
not.  A reply is fair only in that a client which has one reads it.

## 5. The proofs

For all values of the constants that satisfy the assumptions named in the modules
(`ModulesAssumption`, `NodesAssumption`, `FaultsAssumption`, `BoundsAssumption`,
`PromptStartAssumption` of the run; `SubmissionsAssumption`, `WorkersAssumption`,
`BoundsAssumption` of the daemon; these and `ReportsAssumption`,
`FaultsAssumption` of the registration; `SubmissionAssumption` of the submission;
`SuiteAssumption` of the suite; `SetupAssumption` and `MaxCpuAssumption` of the settings;
`DataAssumption`, `XMLAssumption` and `ReportAssumption` of the statistics and the report), tlapm
proves:

| module | theorems | each of the form `Spec => []...` of |
|---|---|---|
| `RtEvalRun_proofs` | `TypeCorrect`, `Barrier`, `ReportAfterCompletion` | `TypeOK`, `StartBarrier`, `ReportComplete` |
| | `OrphansEnd`, `StopsReach` (with hypotheses) | `NoOrphans`, `StopReachesAll` |
| | `Refinement` | `Spec => KeepsProtocol` |
| `ParserDaemon_proofs` | `TypeCorrect`, `OnePlace`, `ParsesOnce`, `ProgressTrue` | `TypeOK`, `HeldOnce`, `ParsedOnce`, `InProgressIsTrue` |
| | `StopsSuffice`, `NoneLost` | `EnoughStops`, `AssignedIsHeld` |
| | `Refinement` | `Spec => KeepsQueue` |
| `ReportRegistration_proofs` | `TypeCorrect`, `Once`, `OnePlaceEach`, `RunsTrue` | `TypeOK`, `RegisteredOnce`, `OwnPlace`, `RunsAreTrue` |
| | `VerdictsTrue`, `TransactionsEnd`, `LockCovers` | `VerdictIsTrue`, `NoOpenTransaction`, `LockCoversRegistration` |
| `MeasurementSuite_proofs` | `TypeCorrect`, `ProfilesDistinct`, `Complete` | `TypeOK`, `ProfilesDiffer`, `AllComplete` |
| | `OneByOne`, `Quiet` (with hypotheses) | `OneAtATime`, `QuietMeasured` |
| `RtevalSetup_proofs` | `TypeCorrect`, `SettingsOwn` | `TypeOK`, `OwnSettings` |
| | `LoadsApart`, `StartsOrDoomed` (with a hypothesis) | `LoadsAvoidMeasured`, `StartsUnlessDoomed` |
| `RunReport_proofs` | `FreedSafe`, `ArchiveWhole` | `FreedIsLeftAlone`, `ArchiveIsWhole` |
| | `StatisticsRight` (with a hypothesis) | `StatisticsAgree` |
| `Submission_proofs` | `TypeCorrect`, `SuccessQueued`, `Kept` | `TypeOK`, `SuccessIsQueued`, `KeptForParser` |
| | `Refinement` | `Spec => D!Safe`, the safety part of `Delivers` |

Each rests on an inductive invariant, `IInv` in most modules, which TLC checked on the
instances (those about sums with `MapThenSumSet` for `SumOf`).

*The run.*  `StartBarrier` speaks of processes, but what keeps it true is where the
main thread is: a module has its start event only once both polls are over, and
when a poll is over every module it polled is ready, and stays so.  `IInv` says
so place by place; `ReportComplete` in turn needs that a thread that set
*finished* has cleaned up its process and will start no other.

What a thread does by itself is proved once, in `ModuleThread_proofs`, and used for the run
and for the suite: `StepEffect` (a step of one module touches no other, and takes nothing
back), `ModuleInv` and `FaultInv`.  The latter contains the one fact about nodes: a module is
`Contained` when no fault of one node can end its thread while its processes on other
nodes run.  This is the hypothesis of `OrphansEnd`, and the code needs it: kcompile's
task raises when the build of one node has failed, and the cleanup then raises at the
missing process of the next before it reaches those that run.
`StopsReach` has the hypothesis `Undisturbed`: no signal, or one and no kcompile that raises
in its setup.  `EndInv` follows the loops of the `finally` clause.  A second
signal, or one that finds Python's own handler, leaves that clause half-way.

*The daemon.*  `JobInv` follows a job from the row to the verdict: with the main
thread it is unassigned or assigned, in the queue it is assigned and not parsed,
with a worker its row is known from where the worker is, unless the update failed, which
`missed` records: then the row is as the update before left it, and the worker goes on all
the same.  This is why a verdict may be recorded on a row that is still assigned, which
`SubmissionQueue` allows, but on no other.  Messages are compared by place in the queue, so that no
submission is in it twice.  `CountInv` counts: `active` is the number of workers
that have started and not left, and once the shutdown messages are counted, those
that may still block in `mq_receive()` are at most the messages there are and those
still to be sent.  New workers cannot join them, because the flag is set by then.

`NoneLost` goes through the steps that take a job out of a place: each puts it in
the next, sets the flag, or comes after the parse.

*The registration.*  `LockCoversRegistration` is inductive with the types alone.  It
makes `RegisteredOnce` inductive: what a worker has read of `systems` (no row for
this `sysid`) and of `hosts` (no row of this host) stays true until it inserts,
as only the owner of the mutex inserts (`SysInv`).  `IdInv` says that an id from
the sequence belongs to one worker or one moved report, never to two; this is
`OwnPlace`.  `TxInv` says what a transaction contains at each statement if the
connection is up, which makes a committed run complete.  `FateInv` is about the
verdict.  The COMMIT goes unchecked, so at the last statement success may be wrong, but
then `ignored` has the failure.  That it is wrong in no other way is what `VerdictIsTrue`
says; that it may be wrong at all is shown by `SuccessIsStored` (section 6).  Likewise a job whose row could not be marked as in progress is parsed all
the same, and may be stored while its row is still assigned (`HoldInv`).

*The suite.*  `ProfileInv` says where a profile is relative to the iterator: the modules of
those to come have not been started, those that are past are finished.  That profiles do
not share modules is kept without comparing sequences, by `info`: every module of a
profile has its declaration, and no two profiles have the same.  `SerialInv` is about
*spent* modules, which have run and will not again; of two modules to be run in turn, one is
spent.  `isAlive()` takes a workload that has not been started for one that is over, hence the
hypothesis `PromptStart`.  `RestInv` says when loads are at rest, which is before they are
released or after they ended.  `Quiet` has two hypotheses, `PromptStop` (`join(2.0)` does not look
at its outcome) and that loads are `Contained`.  Without any of the three TLC shows a violation.

*The settings.*  Most of `IInv` compares what is in a dict with what the inputs
say should come out, step by step: `Chosen` (which modules), `FileOption`, `Final` (the lists),
`Precedence`, and `Logging` for the options whose default is not the setting.  The crux is `DictInv`: of the modules shipped only sysstat has no section
of its own, so the dict of the run's parameters has at most one other owner, and no two modules
write their group's list to one dict.  `LoadsApart` is `LoadsAvoidMeasured` by three lemmas on `CpuLists`:
a list whose ranges have no cpu in between names the same cpus by its text as by its
ranges (`DigitsOfItself`), so its inverse avoids it (`InverseAvoids`), and what a load makes
of a list stays within it (`UsableWithin`).  Its hypothesis, and that of `StartsOrDoomed`, is that
`online_cpus()` counts no cpu that is off line; section 6 says when it does.

*The report.*  What `XMLOut` relies on without saying so is that its status tells
whether the document has been freed: with status 1 to 3 there is one and it has not,
unless one of the two misuses happened.  `DocInv` says this, and that a report under
way has its root in no freed document; with it each call is checked by itself.
`ReportInv` goes along with `_report()`: what is open, which sections are below the root, that the
results are those of the reduction.  They stay so because the thread has no step left once
its event is set.  Between the summary and the archive it needs that nobody else writes them,
which is the condition `ArchiveIsWhole` states.

*The statistics.*  They are sums over the keys of a histogram, so that they need induction.  The
library states it for an operator; here it is done with sets: if a property failed, there
would be a least number, or a smallest set, it fails for (`NatSet`, `SetInduct`), by the library's
well-foundedness theorems.  `SumOf` is what `MapThenSumSet` computes, with the weights as a function;
lemmas such as `SumSamples` say so for each mapping the model uses.  From them follow that an
element can be taken out, that sums can be added, multiplied, compared and renamed, and that
the square of a weighted sum is at most the sum of the squares times that of the
weights (`SumSquares`), which is how the two deviations are related.
`DataInv` says of a `RunData` that it has counted its samples (`Counted`), and of the
system that it is the sum of the cpus unless a line broke off; `RangeInv` that minimum and
maximum are its first and last bucket with samples.  `ReductionAgrees` then compares what
`bucket()` and `reduce()` find.  `StatisticsRight` has the hypothesis that the histogram is no
wider than 100000000 buckets (the default is 2000), for this is the minimum a `RunData`
starts with: a first latency above it would not become the minimum.

*The submission.*  `RowInv` ties rows to requests: a row is what the request it came
from says, and that request is over.  So a run has at most one row for each request it
sent (the map from rows to requests is injective), which is the refinement's
`copies <= sent`, and a reply is about a row.  Ids are unique because the serial only
grows.  `KeptForParser` needs to know how a file can be lost.  `AloneInv` and `WalkInv`:
an undisturbed request is the only one between its arrival and its file, hence the
working directory is where it went, and the queue directory exists when it writes.  It is
*sound* if its file could be opened, too.
`SaveInv`: who is about to write under the name of a sound report looked for that
name after the report was gone.  `PairInv`: of two sound reports with one name, one
is gone.  *Gone* means taken by the parser, or sharing its name with a doubtful row, of a
request that was disturbed or whose file could not be opened, and stays true once it is.

Only model-checked: what is liveness (`Terminates`, `AssignedIsParsed`,
`ExitEndsWithRoom`, `SuiteEnds`, the end of `Delivers`).  Every invariant a run checks
is a theorem.

## 6. Where the code does otherwise than it says

Each run checks one sentence of a comment, message or document, and TLC shows how
the code departs from it.  The quotations are in `PROJECT.json`, "findings".

| run | what happens |
|---|---|
| `wait_hangs` | cyclictest cannot be executed; its cleanup does not set *finished*; the main thread waits for ever |
| `lost_commit` | the connection is lost in the COMMIT: the report is moved and logged as stored, its rows are not there |
| `inverse_cpus` | the inverse of `10-12` is taken from the digits of the text: cpu 1 is in neither list, cpu 11 in both |

Further departures show in the models and have no run of their own.

*Run and suite.*  A hackbench that declines to run for lack of memory ends regularly, and
its end is taken for the death of a load.  A failed kernel build on one node leaves the
builds of the others running after rteval.  A signal that arrives while the `finally`
clause is stopping the modules, or before it is entered, can leave the main thread
waiting; therefore `Terminates` is about runs without one.  A second profile with loads
starts threads that were started before, which is a `RuntimeError`.  When the time of a
serial profile is over just as a module is released, it is waited for without end.

*Daemon and registration.*  A worker whose update to *in progress* is refused takes -1 for
true and parses the report with its row still assigned (`InProgressIsTrue` and `VerdictIsTrue`
name the case).  Two workers that lose the database, each before the other has left the count of
workers, raise no alarm, and the main thread waits with no worker left (`AssignedIsParsed`
ends there).  When the server refuses the COMMIT and keeps the connection, the row of the
submission says success and no run is stored (`VerdictIsTrue`).  With less room in the queue than workers `mq_send()` blocks at
the shutdown.  A report registered between SELECT and LISTEN waits for the next one.  Of two workers that make the directory of a client at once,
one fails and its report is refused.  `db_register_system()` looks up the host of a known
system without its system, so that a host that was another system's before is not
registered (`FindHost`).

*Settings.*  Options such as `-L` have a default of their own, which is written over what a file
sets in section `rteval`, so that a file cannot switch logging on (`OwnSettings`
says so).  A cpu list in the configuration file is overwritten by the empty string that is
the default of the option.  `'interval' in self.__cfg` asks an object that
iterates over pairs, so `--cyclictest-interval`, the break trace and the threads
are ignored (`cyclictest.py` 259, 274, 277).  A file with a section of loads and
none of measurements, as `rteval/rteval.conf` itself is, ends the program with a `KeyError`,
for `[measurement]` gets its default only together with `[loads]`.  A node with memory only
ends it with a `ValueError`.
stress-ng is bound to no cpu when none of its list is on line.
On a machine without cpu 1, `online_cpus()` takes every cpu for on line, so
that the inverse of a list may name cpus that are off line: cyclictest then refuses to start on them,
and loads, left with no cpu of their list, are bound to all, those measured included.

*Statistics and report.*  Two runs of a day may come to use one report directory, and then
either packs the other's summary; a summary that could not be written is not noticed
(`ArchiveIsWhole` excepts both).  The median is found by comparing a count with a sum that is
weighted by latency.  A failed load, or nodes appended to a closed report, make `XMLOut`
use a document it has freed.  An exception of `tarfile` while the report is archived is swallowed.

*Submission.*  When the file of a report could not be opened its row is committed all the
same; the next report of the machine gets the name, and the parser takes it for the first
(`KeptForParser` calls such a row doubtful).  `Ping()` neither counts nor waits when the server does not know `Hello()`.
SendReport's exit code 2, *failed*, may be about a report that was registered.  Requests of one machine
that overlap find the same name free, and one overwrites the other; threads of one process
move its working directory under each other's feet, so that a directory is made in the
wrong place or a file is not written, which nobody looks at.

## 7. What is not modelled

`rteval/sysinfo` reads `/proc`, `/sys` and the output of other programs into XML;
the XSLT templates and `xmlparser.c` transform documents and format SQL values;
`sha1.c` is vendored; option parsing, logging, mail and the plots are plain
input and output, as is `--summarize`.  None of them keeps state other parts depend on.
The SQL migrations in `server/sql` are run by hand.  The daemon's `db_connect()`,
`daemonise()` and failures to create threads at its start are left out: they end
the program before it does anything.  So are the server's test mode without a database
(`nodbaction`) and a relative `datadir`, as the WSGI script has it: directories are then
relative to wherever the process is when a request arrives.

## 8. The plan

Done: the run, the daemon, the registration, the suite, the settings, the statistics, the
report and the submission, with their proofs.  To come,
in this order (what loses or doubles data first, then what only a user in front of the
terminal sees):

1. Restart of the daemon as a whole: rows left assigned or in progress and the
   message queue that survives, in `ParserDaemon`, composed with
   `ReportRegistration` as what `Parse` does.
2. The submission composed with the daemon: `Take` is then the daemon's move of the file,
   and a report sent twice is parsed twice.
3. Proof: the registration as an implementation of what `SubmissionQueue` says of a parse.
4. The value lists of `eurephia_values.c` and the lists `compress` prints.
