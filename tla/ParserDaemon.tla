---------------------------- MODULE ParserDaemon ----------------------------
(***************************************************************************)
(* rteval-parserd (server/parser): the main thread takes submissions from  *)
(* the submissionqueue table of the database and sends them, over a POSIX  *)
(* message queue, to worker threads that parse the reports.  Every thread  *)
(* has a database connection of its own, which may be lost at any time,    *)
(* and the server may refuse any statement on it; a signal asks the daemon *)
(* to shut down.                                                           *)
(*                                                                         *)
(* The message queue blocks: mq_open() ignores the O_NONBLOCK that main()  *)
(* puts in the attributes.  glibc's signal() restarts mq_send() and        *)
(* mq_receive(), never select().  Parsing is one step here; its inside is  *)
(* ReportRegistration.                                                     *)
(***************************************************************************)
EXTENDS Naturals, Sequences, FiniteSets

CONSTANTS
  Submissions,  \* the submission ids, in the order the queue is read
  Workers,      \* the worker threads
  MaxMsg,       \* mq_maxmsg, the capacity of the message queue
  MaxSignals,   \* bound: how many SIGINT or SIGTERM may arrive
  MaxLosses     \* bound: how many times a connection may be lost

ASSUME SubmissionsAssumption == Submissions \subseteq Nat \ {0}
ASSUME WorkersAssumption == IsFiniteSet(Workers) /\ "main" \notin Workers
ASSUME BoundsAssumption ==
  MaxMsg \in Nat \ {0} /\ MaxSignals \in Nat /\ MaxLosses \in Nat

VARIABLES
  status,     \* submissionqueue.status of each submission
  parsed,     \* history: the submissions parse_report() was called for
  missed,     \* history: the submissions whose last update was not carried out
  mq,         \* the messages in /rteval_parsequeue
  shutdown,   \* the flag of that name
  active,     \* activethreads, which every worker updates
  mpc,        \* where the main thread is
  mjob,       \* the job the main thread has in hand
  toSend,     \* shutdown messages the main thread still has to send
  rc,         \* what process_submission_queue() returns
  listening,  \* whether the main connection has a LISTEN in effect
  notified,   \* whether a notification waits on the main connection
  wpc,        \* where each worker is
  wjob,       \* the message a worker has received
  wres,       \* the result of its parse_report()
  conn,       \* whether the connection of a thread is up
  signals,    \* how many signals have arrived
  losses      \* how many connections have been lost

mainVars   == <<mpc, mjob, toSend, rc>>
rowVars    == <<status, missed>>
dbVars     == <<rowVars, listening, notified>>
workerVars == <<wpc, wjob, wres, parsed, active>>
envVars    == <<conn, signals, losses>>
vars == <<mainVars, dbVars, workerVars, envVars, mq, shutdown>>

(* The parseJob_t of zeroes: no job, and the message that makes a worker   *)
(* have a look at the shutdown flag.                                       *)
Empty == 0
Threads  == Workers \cup {"main"}
Messages == Submissions \cup {Empty}
Verdicts == {"SUCCESS", "FAILED"}
Statuses == {"absent", "NEW", "ASSIGNED", "INPROG"} \cup Verdicts
MainLabels == {"settle", "top", "ping", "select", "assign", "send", "listen",
               "wait", "unlisten", "exit", "stops", "join", "done"}
WorkerLabels == {"start", "top", "ping", "lost", "recv", "got", "inprog",
                 "parse", "final", "dec", "gone"}

TypeOK ==
  /\ status \in [Submissions -> Statuses]
  /\ parsed \in SUBSET Submissions /\ missed \in SUBSET Submissions
  /\ mq \in Seq(Messages) /\ Len(mq) <= MaxMsg
  /\ shutdown \in BOOLEAN
  /\ active \in 0..Cardinality(Workers)
  /\ mpc \in MainLabels
  /\ mjob \in Messages
  /\ toSend \in 0..Cardinality(Workers)
  /\ rc \in {0, 1}
  /\ listening \in BOOLEAN /\ notified \in BOOLEAN
  /\ wpc \in [Workers -> WorkerLabels]
  /\ wjob \in [Workers -> Messages]
  /\ wres \in [Workers -> Verdicts \cup {"none"}]
  /\ conn \in [Threads -> BOOLEAN]
  /\ signals \in 0..MaxSignals /\ losses \in 0..MaxLosses

Init ==
  /\ status = [s \in Submissions |-> "absent"]
  /\ parsed = {} /\ missed = {}
  /\ mq = <<>>
  /\ shutdown = FALSE
  /\ active = 0
  /\ mpc = "settle" /\ mjob = Empty /\ toSend = 0 /\ rc = 0
  /\ listening = FALSE /\ notified = FALSE
  /\ wpc = [w \in Workers |-> "start"]
  /\ wjob = [w \in Workers |-> Empty]
  /\ wres = [w \in Workers |-> "none"]
  /\ conn = [t \in Threads |-> TRUE]
  /\ signals = 0 /\ losses = 0

-----------------------------------------------------------------------------
(* A statement on the connection of t: it succeeds, or it fails because    *)
(* the connection is down or the server refuses it, or the connection is   *)
(* lost under way, when the server may have carried it out all the same.   *)
Exec(t, ok, done) ==
  \/ conn[t] /\ ok /\ done /\ UNCHANGED <<conn, losses>>
  \/ ~ok /\ ~done /\ UNCHANGED <<conn, losses>>
  \/ conn[t] /\ losses < MaxLosses /\ ~ok /\ done
     /\ conn' = [conn EXCEPT ![t] = FALSE] /\ losses' = losses + 1

(* db_ping(): a connection found down is reset, which may fail.            *)
Ping(t, ok) ==
  /\ conn[t] => ok
  /\ conn' = [conn EXCEPT ![t] = ok]

SetStatus(s, st, done) ==
  status' = IF done THEN [status EXCEPT ![s] = st] ELSE status

(* An update by a worker, which does not look at what came of it.          *)
Update(w, st) ==
  \E ok, done \in BOOLEAN :
    /\ Exec(w, ok, done)
    /\ SetStatus(wjob[w], st, done)
    /\ missed' = IF done THEN missed \ {wjob[w]} ELSE missed \cup {wjob[w]}

MainAt(l)   == mpc = l
MainGoto(l) == mpc' = l

(* Mutated GiveUp: the flag is left alone.                                 *)
GiveUp_Silently ==
  /\ UNCHANGED shutdown
  /\ rc' = 1
  /\ MainGoto("exit")

(* Every error of the main loop ends in the shutdown of the daemon.        *)
GiveUp ==
  /\ shutdown' = TRUE
  /\ rc' = 1
  /\ MainGoto("exit")

(* main() starts the workers and sleeps, to allow at least a few of them   *)
(* to settle down; one is assumed to have, unless a signal ends the sleep. *)
Settle ==
  /\ MainAt("settle") /\ (active > 0 \/ shutdown)
  /\ MainGoto("top")
  /\ UNCHANGED <<mjob, toSend, rc, dbVars, workerVars, envVars, mq, shutdown>>

(* process_submission_queue(): the head of its loop.                       *)
CheckShutdown ==
  /\ MainAt("top")
  /\ IF shutdown THEN MainGoto("exit") /\ UNCHANGED <<rc, shutdown>>
     ELSE IF active < 1 THEN GiveUp
     ELSE MainGoto("ping") /\ UNCHANGED <<rc, shutdown>>
  /\ UNCHANGED <<mjob, toSend, dbVars, workerVars, envVars, mq>>

MainPing ==
  /\ MainAt("ping")
  /\ \E ok \in BOOLEAN :
       /\ Ping("main", ok)
       /\ IF ok THEN MainGoto("select") /\ UNCHANGED <<rc, shutdown>> ELSE GiveUp
  /\ UNCHANGED <<mjob, toSend, dbVars, workerVars, signals, losses, mq>>

(* db_get_submissionqueue_job(): the first submission that is new ...      *)
Select ==
  /\ MainAt("select")
  /\ \E ok, done \in BOOLEAN :
       /\ Exec("main", ok, done)
       /\ \/ ~ok /\ GiveUp /\ UNCHANGED mjob
          \/ /\ ok /\ \A s \in Submissions : status[s] # "NEW"
             /\ MainGoto("listen") /\ UNCHANGED <<mjob, rc, shutdown>>
          \/ /\ ok
             /\ \E s \in Submissions :
                  /\ status[s] = "NEW"
                  /\ \A t \in Submissions : t < s => status[t] # "NEW"
                  /\ mjob' = s
             /\ MainGoto("assign") /\ UNCHANGED <<rc, shutdown>>
  /\ UNCHANGED <<toSend, dbVars, workerVars, signals, mq>>

(* Mutated Assign: the row is left as it is.                               *)
Assign_KeepsNew ==
  /\ MainAt("assign")
  /\ MainGoto("send")
  /\ UNCHANGED <<mjob, toSend, rc, shutdown, dbVars, workerVars, envVars, mq>>

(* ... is assigned.                                                        *)
Assign ==
  /\ MainAt("assign")
  /\ \E ok, done \in BOOLEAN :
       /\ Exec("main", ok, done)
       /\ SetStatus(mjob, "ASSIGNED", done)
       /\ IF ok THEN MainGoto("send") /\ UNCHANGED <<mjob, rc, shutdown>>
                ELSE GiveUp /\ mjob' = Empty
  /\ UNCHANGED <<toSend, missed, listening, notified, workerVars, signals, mq>>

(* mq_send() blocks while the queue is full.                               *)
Send ==
  /\ MainAt("send") /\ Len(mq) < MaxMsg
  /\ mq' = Append(mq, mjob) /\ mjob' = Empty
  /\ MainGoto("top")
  /\ UNCHANGED <<toSend, rc, dbVars, workerVars, envVars, shutdown>>

(* db_wait_notification(): LISTEN, select() and UNLISTEN, which reads what  *)
(* else is there.                                                          *)
Listen ==
  /\ MainAt("listen")
  /\ \E ok, done \in BOOLEAN :
       /\ Exec("main", ok, done)
       /\ listening' = ok
       /\ IF ok THEN MainGoto("wait") /\ UNCHANGED <<rc, shutdown>> ELSE GiveUp
  /\ UNCHANGED <<mjob, toSend, rowVars, notified, workerVars, signals, mq>>

Notified ==
  /\ MainAt("wait") /\ notified
  /\ notified' = FALSE
  /\ MainGoto("unlisten")
  /\ UNCHANGED <<mjob, toSend, rc, rowVars, listening, workerVars, envVars, mq, shutdown>>

(* The connection breaks while waiting.  A reset one has no LISTEN.        *)
WaitReset ==
  /\ MainAt("wait") /\ ~conn["main"]
  /\ listening' = FALSE /\ notified' = FALSE
  /\ \E ok \in BOOLEAN :
       /\ conn' = [conn EXCEPT !["main"] = ok]
       /\ IF ok THEN UNCHANGED <<mpc, rc, shutdown>> ELSE GiveUp
  /\ UNCHANGED <<mjob, toSend, rowVars, workerVars, signals, losses, mq>>

Unlisten ==
  /\ MainAt("unlisten")
  /\ notified' = FALSE
  /\ \E ok, done \in BOOLEAN :
       /\ Exec("main", ok, done)
       /\ listening' = (listening /\ ~done)
       /\ IF ok THEN MainGoto("top") /\ UNCHANGED <<rc, shutdown>> ELSE GiveUp
  /\ UNCHANGED <<mjob, toSend, rowVars, workerVars, signals, mq>>

(* Mutated CountWorkers: one shutdown message is forgotten.                *)
CountWorkers_OneLess ==
  /\ MainAt("exit")
  /\ toSend' = IF active = 0 THEN 0 ELSE active - 1
  /\ MainGoto("stops")
  /\ UNCHANGED <<mjob, rc, dbVars, workerVars, envVars, mq, shutdown>>

(* At the exit an empty message is sent for every worker there is now ...  *)
CountWorkers ==
  /\ MainAt("exit")
  /\ toSend' = active
  /\ MainGoto("stops")
  /\ UNCHANGED <<mjob, rc, dbVars, workerVars, envVars, mq, shutdown>>

SendStop ==
  /\ MainAt("stops") /\ toSend > 0 /\ Len(mq) < MaxMsg
  /\ mq' = Append(mq, Empty)
  /\ toSend' = toSend - 1
  /\ UNCHANGED <<mpc, mjob, rc, dbVars, workerVars, envVars, shutdown>>

StopsSent ==
  /\ MainAt("stops") /\ toSend = 0
  /\ MainGoto("join")
  /\ UNCHANGED <<mjob, toSend, rc, dbVars, workerVars, envVars, mq, shutdown>>

(* ... and main() joins them all and removes the message queue.            *)
Join ==
  /\ MainAt("join") /\ \A w \in Workers : wpc[w] = "gone"
  /\ mq' = <<>>
  /\ MainGoto("done")
  /\ UNCHANGED <<mjob, toSend, rc, dbVars, workerVars, envVars, shutdown>>

-----------------------------------------------------------------------------
At(w, l)   == wpc[w] = l
Goto(w, l) == wpc' = [wpc EXCEPT ![w] = l]

(* parsethread(): the count of workers is kept under a mutex.              *)
Start(w) ==
  /\ At(w, "start")
  /\ active' = active + 1
  /\ Goto(w, "top")
  /\ UNCHANGED <<mainVars, dbVars, wjob, wres, parsed, envVars, mq, shutdown>>

Check(w) ==
  /\ At(w, "top")
  /\ Goto(w, IF shutdown THEN "dec" ELSE "ping")
  /\ UNCHANGED <<mainVars, dbVars, wjob, wres, parsed, active, envVars, mq, shutdown>>

WorkerPing(w) ==
  /\ At(w, "ping")
  /\ \E ok \in BOOLEAN : Ping(w, ok) /\ Goto(w, IF ok THEN "recv" ELSE "lost")
  /\ UNCHANGED <<mainVars, dbVars, wjob, wres, parsed, active, signals, losses, mq, shutdown>>

(* A signal interrupts a sleep or select() of the main thread, no more.    *)
Interrupt ==
  /\ shutdown' = TRUE
  /\ mpc' = IF MainAt("wait") THEN "unlisten" ELSE mpc

(* Mutated LostDatabase: the worker leaves the count here, too.            *)
LostDatabase_Uncounted(w) ==
  /\ At(w, "lost")
  /\ IF active <= 1 THEN Interrupt ELSE UNCHANGED <<shutdown, mpc>>
  /\ active' = active - 1
  /\ Goto(w, "dec")
  /\ UNCHANGED <<mjob, toSend, rc, dbVars, wjob, wres, parsed, envVars, mq>>

(* A worker that lost the database and thinks it is the last one raises    *)
(* SIGUSR1.  It reads the count without the mutex.                         *)
LostDatabase(w) ==
  /\ At(w, "lost")
  /\ IF active <= 1 THEN Interrupt ELSE UNCHANGED <<shutdown, mpc>>
  /\ Goto(w, "dec")
  /\ UNCHANGED <<mjob, toSend, rc, dbVars, wjob, wres, parsed, active, envVars, mq>>

Receive(w) ==
  /\ At(w, "recv") /\ mq # <<>>
  /\ wjob' = [wjob EXCEPT ![w] = Head(mq)] /\ mq' = Tail(mq)
  /\ Goto(w, "got")
  /\ UNCHANGED <<mainVars, dbVars, wres, parsed, active, envVars, shutdown>>

(* Mutated Got: the shutdown flag is not looked at again.                  *)
Got_Unchecked(w) ==
  /\ At(w, "got")
  /\ Goto(w, "inprog") /\ UNCHANGED wjob
  /\ UNCHANGED <<mainVars, dbVars, wres, parsed, active, envVars, mq, shutdown>>

(* Mutated Got: the job is not marked as in progress.                      *)
Got_Unmarked(w) ==
  /\ At(w, "got")
  /\ IF shutdown THEN Goto(w, "dec") /\ wjob' = [wjob EXCEPT ![w] = Empty]
                 ELSE Goto(w, "parse") /\ UNCHANGED wjob
  /\ UNCHANGED <<mainVars, dbVars, wres, parsed, active, envVars, mq, shutdown>>

(* Whatever was received is ignored once the daemon is shutting down.      *)
Got(w) ==
  /\ At(w, "got")
  /\ IF shutdown THEN Goto(w, "dec") /\ wjob' = [wjob EXCEPT ![w] = Empty]
                 ELSE Goto(w, "inprog") /\ UNCHANGED wjob
  /\ UNCHANGED <<mainVars, dbVars, wres, parsed, active, envVars, mq, shutdown>>

(* Mutated MarkInProgress: a job that is not marked has failed.            *)
MarkInProgress_Fails(w) ==
  /\ At(w, "inprog")
  /\ Update(w, "INPROG")
  /\ IF wjob[w] \notin missed'
       THEN Goto(w, "parse") /\ UNCHANGED wres
       ELSE Goto(w, "final") /\ wres' = [wres EXCEPT ![w] = "FAILED"]
  /\ UNCHANGED <<mainVars, listening, notified, wjob, parsed, active, signals, mq, shutdown>>

(* The job is marked as in progress.  A failure returns -1, which the test *)
(* of the result takes for success.                                        *)
MarkInProgress(w) ==
  /\ At(w, "inprog")
  /\ Update(w, "INPROG")
  /\ Goto(w, "parse")
  /\ UNCHANGED <<mainVars, listening, notified, wjob, wres, parsed, active, signals, mq, shutdown>>

(* parse_report() never succeeds without the database.                     *)
Parse(w) ==
  /\ At(w, "parse")
  /\ \E v \in Verdicts : /\ v = "SUCCESS" => conn[w]
                         /\ wres' = [wres EXCEPT ![w] = v]
  /\ parsed' = parsed \cup {wjob[w]}
  /\ Goto(w, "final")
  /\ UNCHANGED <<mainVars, dbVars, wjob, active, envVars, mq, shutdown>>

(* Mutated RecordVerdict: a failure is not recorded.                       *)
RecordVerdict_OnSuccess(w) ==
  /\ At(w, "final")
  /\ IF wres[w] = "SUCCESS" THEN Update(w, "SUCCESS")
                            ELSE UNCHANGED <<rowVars, conn, losses>>
  /\ wjob' = [wjob EXCEPT ![w] = Empty] /\ wres' = [wres EXCEPT ![w] = "none"]
  /\ Goto(w, "top")
  /\ UNCHANGED <<mainVars, listening, notified, parsed, active, signals, mq, shutdown>>

RecordVerdict(w) ==
  /\ At(w, "final")
  /\ Update(w, wres[w])
  /\ wjob' = [wjob EXCEPT ![w] = Empty] /\ wres' = [wres EXCEPT ![w] = "none"]
  /\ Goto(w, "top")
  /\ UNCHANGED <<mainVars, listening, notified, parsed, active, signals, mq, shutdown>>

Leave(w) ==
  /\ At(w, "dec")
  /\ active' = active - 1
  /\ Goto(w, "gone")
  /\ UNCHANGED <<mainVars, dbVars, wjob, wres, parsed, envVars, mq, shutdown>>

-----------------------------------------------------------------------------
(* The XML-RPC server inserts a row; a trigger sends the notification,     *)
(* which reaches connections that listen.                                  *)
Submit(s) ==
  /\ status[s] = "absent"
  /\ status' = [status EXCEPT ![s] = "NEW"]
  /\ notified' = (notified \/ listening)
  /\ UNCHANGED <<mainVars, missed, listening, workerVars, envVars, mq, shutdown>>

(* SIGINT or SIGTERM: sigcatch() only sets the flag.                       *)
Signal ==
  /\ signals < MaxSignals /\ mpc # "done"
  /\ signals' = signals + 1
  /\ Interrupt
  /\ UNCHANGED <<mjob, toSend, rc, dbVars, workerVars, conn, losses, mq>>

(* The database server, or the way to it, goes away.                       *)
Lose(t) ==
  /\ losses < MaxLosses /\ conn[t]
  /\ conn' = [conn EXCEPT ![t] = FALSE]
  /\ losses' = losses + 1
  /\ listening' = (listening /\ t # "main")
  /\ UNCHANGED <<mainVars, rowVars, notified, workerVars, signals, mq, shutdown>>

Main == \/ Settle \/ CheckShutdown \/ MainPing \/ Select \/ Assign \/ Send
        \/ Listen \/ Notified \/ WaitReset \/ Unlisten
        \/ CountWorkers \/ SendStop \/ StopsSent \/ Join
Worker(w) == \/ Start(w) \/ Check(w) \/ WorkerPing(w) \/ LostDatabase(w)
             \/ Receive(w) \/ Got(w) \/ MarkInProgress(w) \/ Parse(w)
             \/ RecordVerdict(w) \/ Leave(w)
Environment == \/ Signal
               \/ \E s \in Submissions : Submit(s)
               \/ \E t \in Threads : Lose(t)

Next == Main \/ (\E w \in Workers : Worker(w)) \/ Environment

Spec == Init /\ [][Next]_vars

(* The scheduler runs every thread.  Submissions, signals and losses may   *)
(* happen or not.                                                          *)
FairSpec == Spec /\ WF_vars(Main) /\ \A w \in Workers : WF_vars(Worker(w))

-----------------------------------------------------------------------------
Waiting(w) == wpc[w] \in {"ping", "recv"}
InQueue(s) == \E i \in DOMAIN mq : mq[i] = s
Parsing(s) == \E w \in Workers : wjob[w] = s /\ wpc[w] \in {"parse", "final"}

Queue == INSTANCE SubmissionQueue

(* Threads, signals, lost connections and refused statements               *)
(* notwithstanding, the daemon keeps what SubmissionQueue promises about   *)
(* the rows and the reports.                                               *)
KeepsQueue == Queue!Spec

(* A submission is in one place only: with the main thread, in the message *)
(* queue or with one worker.  (pgsql.c 656-657: the same job must not be   *)
(* retrieved multiple times.)                                              *)
HeldOnce ==
  /\ \A i, j \in DOMAIN mq : mq[i] = mq[j] /\ mq[i] # Empty => i = j
  /\ \A v, w \in Workers : wjob[v] = wjob[w] /\ wjob[v] # Empty => v = w
  /\ \A w \in Workers : wjob[w] # Empty => ~InQueue(wjob[w]) /\ wjob[w] # mjob
  /\ mjob # Empty => ~InQueue(mjob)

(* What a worker parses is a report that was never parsed before, and not  *)
(* one of the empty messages of the shutdown (parsethread.c 334-363).      *)
ParsedOnce ==
  \A w \in Workers : wpc[w] = "parse" => wjob[w] \in Submissions \ parsed

(* Once the shutdown messages have been counted, every worker that may     *)
(* still block in mq_receive() will find a message there, in spite of      *)
(* workers that come and go meanwhile (rteval-parserd.c 206-231).          *)
EnoughStops ==
  mpc \in {"stops", "join"} =>
    Cardinality({w \in Workers : Waiting(w)}) <= Len(mq) + toSend

(* While there is a worker that has not lost the database, and the daemon  *)
(* is not shutting down, a report taken from the queue is parsed; and a    *)
(* parsed one has its verdict recorded, unless the very update that should *)
(* record it fails (parsethread.c 350-363).  When all workers have lost    *)
(* the database the last one is to shut the daemon down (rteval-parserd.c  *)
(* 143), but two that leave together take each other for that worker       *)
(* (parsethread.c 324), and a report may then wait in the queue for ever.  *)
AssignedIsParsed ==
  \A s \in Submissions :
    /\ status[s] = "ASSIGNED" ~>
         s \in parsed \/ shutdown \/ \A w \in Workers : wpc[w] \in {"dec", "gone"}
    /\ s \in parsed ~> status[s] \in Verdicts \/ (s \in missed /\ ~Parsing(s))

(* Once the main thread has left its loop all threads exit, as soon as     *)
(* their current work is completed (rteval-parserd.c 52-54), if there is   *)
(* room in the queue for the shutdown messages: with jobs left in the      *)
(* queue and with workers that lose the database or still parse            *)
(* (rteval-parserd.c 205-231).                                             *)
ExitEndsWithRoom ==
  MainAt("stops") /\ Len(mq) + toSend <= MaxMsg ~> MainAt("done")

(* A row is in progress exactly as long as a worker parses the report      *)
(* (statuses.h 28), but for the updates that failed: without the first one *)
(* the row never says so, and without the second it says so for ever       *)
(* (parsethread.c 358-363).                                                *)
InProgressIsTrue ==
  \A s \in Submissions :
    /\ Parsing(s) => status[s] = "INPROG" \/ s \in missed
    /\ status[s] = "INPROG" => Parsing(s) \/ s \in missed

(* An assigned submission is assigned to somebody (statuses.h 27), or was  *)
(* parsed without its verdict recorded, or the daemon is shutting down.    *)
AssignedIsHeld ==
  \A s \in Submissions :
    status[s] = "ASSIGNED" =>
      \/ s = mjob \/ InQueue(s) \/ \E w \in Workers : wjob[w] = s
      \/ s \in parsed \/ shutdown
=============================================================================
