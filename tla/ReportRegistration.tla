------------------------- MODULE ReportRegistration -------------------------
(***************************************************************************)
(* parse_report() of rteval-parserd (server/parser/parsethread.c) and the  *)
(* functions of pgsql.c it calls, run by several workers at a time: the    *)
(* system is registered under a mutex and outside of a transaction, the    *)
(* run and its measurements inside of one, and the report is moved to its  *)
(* place before the COMMIT.                                                *)
(*                                                                         *)
(* A worker may lose its connection before, while or after a statement is  *)
(* carried out; the server then aborts the transaction.  By the time the   *)
(* worker notices, the server is done with the statement.  The server may  *)
(* also refuse any statement but ROLLBACK, which needs neither a lock nor  *)
(* space, and leave the connection up.  The daemon may be killed and       *)
(* started again: jobs nobody has received are still in the message queue  *)
(* then.                                                                   *)
(***************************************************************************)
EXTENDS Naturals, Sequences, FiniteSets

CONSTANTS
  Submissions,   \* the jobs in the message queue
  Workers,       \* the worker threads
  System,        \* the sysid in the report of each submission
  Host,          \* its hostname and IP address
  Client,        \* the directory below reportdir the report belongs to
  Faults,        \* what may go wrong besides lost connections
  MaxDbFaults,   \* bound: how many connections may be lost and statements refused
  MaxKills       \* bound: how many times the daemon may be killed

NoJob == "none"
Free  == "free"

ASSUME SubmissionsAssumption == NoJob \notin Submissions
ASSUME WorkersAssumption == Free \notin Workers
ASSUME ReportsAssumption ==
  DOMAIN System = Submissions /\ DOMAIN Host = Submissions /\ DOMAIN Client = Submissions
ASSUME FaultsAssumption == Faults \subseteq {"report", "sql", "files"}
ASSUME BoundsAssumption == MaxDbFaults \in Nat /\ MaxKills \in Nat

VARIABLES
  status,   \* submissionqueue.status of each submission
  queue,    \* the jobs in the message queue
  file,     \* the report: 0 in the queue, r at .../report-r.xml
  dirs,     \* the directories below reportdir that exist
  systems,  \* the rows of systems, by syskey: their sysid
  hosts,    \* the rows of systems_hostname
  lastid,   \* the sequence rtevalruns_rterid_seq
  runs,     \* the committed rows of rtevalruns, and which tables refer to them
  mutex,    \* mtx_sysreg: its owner, or Free
  wpc,      \* where each worker is
  job,      \* the submission a worker works on
  syskey,   \* the key of its system
  rterid,   \* its run id
  open,     \* whether the connection of a worker has a transaction open
  pending,  \* the tables with rows in that transaction
  wres,     \* what parse_report() returns
  conn,     \* whether the connection of a worker is up
  ignored,  \* history: the failures nobody looked at, by submission
  dbFaults, \* how many connections have been lost and statements refused
  kills     \* how many times the daemon has been killed

queueVars == <<status, queue>>
sysVars  == <<systems, hosts>>
fileVars == <<file, dirs>>
txVars   == <<open, pending>>
connVars == <<conn, dbFaults>>
jobVars  == <<job, syskey, rterid, wres>>
vars == <<queueVars, fileVars, sysVars, lastid, runs, mutex, wpc, jobVars, txVars,
          connVars, ignored, kills>>

Failures == {"FTOOBIG", "XMLFAIL", "SYSREG", "RTERIDREG", "GENDB", "RTEVRUNS",
             "MEASURE", "REPMOVE"}
Verdicts == {"SUCCESS"} \cup Failures
Statuses == {"ASSIGNED", "INPROG"} \cup Verdicts
Tables   == {"rtevalruns", "rtevalruns_details", "measurements"}
Clients  == {Client[s] : s \in Submissions}
HostRows == [syskey : Nat, host : {Host[s] : s \in Submissions}]
RunRows  == [rterid : Nat, submid : Submissions, syskey : Nat, tables : SUBSET Tables]
Labels   == {"idle", "read", "lock", "find", "addsys", "findhost", "addhost",
             "nextid", "begin", "run", "measure", "stat", "mkdir", "move",
             "commit", "rollback", "final", "ping", "gone"}

TypeOK ==
  /\ status \in [Submissions -> Statuses] /\ queue \subseteq Submissions
  /\ file \in [Submissions -> Nat] /\ dirs \subseteq Clients
  /\ systems \in Seq({System[s] : s \in Submissions})
  /\ hosts \in Seq(HostRows)
  /\ lastid \in Nat /\ runs \subseteq RunRows
  /\ mutex \in Workers \cup {Free}
  /\ wpc \in [Workers -> Labels]
  /\ job \in [Workers -> Submissions \cup {NoJob}]
  /\ syskey \in [Workers -> Nat] /\ rterid \in [Workers -> Nat]
  /\ open \in [Workers -> BOOLEAN] /\ pending \in [Workers -> SUBSET Tables]
  /\ wres \in [Workers -> Verdicts \cup {"none"}]
  /\ conn \in [Workers -> BOOLEAN]
  /\ ignored \subseteq Submissions \X {"INPROG", "COMMIT"}
  /\ dbFaults \in 0..MaxDbFaults /\ kills \in 0..MaxKills

(* A worker that has not received a job yet.                               *)
Idle ==
  /\ wpc = [w \in Workers |-> "idle"] /\ mutex = Free
  /\ job = [w \in Workers |-> NoJob] /\ wres = [w \in Workers |-> "none"]
  /\ syskey = [w \in Workers |-> 0] /\ rterid = [w \in Workers |-> 0]
  /\ open = [w \in Workers |-> FALSE] /\ pending = [w \in Workers |-> {}]
  /\ conn = [w \in Workers |-> TRUE]

Init ==
  /\ status = [s \in Submissions |-> "ASSIGNED"] /\ queue = Submissions
  /\ file = [s \in Submissions |-> 0] /\ dirs = {}
  /\ systems = <<>> /\ hosts = <<>> /\ lastid = 0 /\ runs = {}
  /\ Idle
  /\ ignored = {} /\ dbFaults = 0 /\ kills = 0

-----------------------------------------------------------------------------
At(w, l)   == wpc[w] = l
Goto(w, l) == wpc' = [wpc EXCEPT ![w] = l]

(* parse_report() gives up and goes to label l.                            *)
Fail(w, verdict, l) == wres' = [wres EXCEPT ![w] = verdict] /\ Goto(w, l)

(* What becomes of a transaction on the connection of w that ends.         *)
EndTx(w) ==
  open' = [open EXCEPT ![w] = FALSE] /\ pending' = [pending EXCEPT ![w] = {}]

(* A statement on the connection of w, and whether the server carried it   *)
(* out.  It fails if the server refuses it, if the connection is down, and *)
(* if the connection is lost meanwhile.                                    *)
Succeeds(w) == conn[w] /\ UNCHANGED connVars
Breaks(w) ==
  /\ conn[w] /\ dbFaults < MaxDbFaults
  /\ conn' = [conn EXCEPT ![w] = FALSE] /\ dbFaults' = dbFaults + 1
Fails(w, done) ==
  \/ ~conn[w] /\ ~done /\ UNCHANGED connVars
  \/ /\ conn[w] /\ ~done /\ "sql" \in Faults /\ UNCHANGED conn
     /\ dbFaults < MaxDbFaults /\ dbFaults' = dbFaults + 1
  \/ Breaks(w)

AddSystem(s) == systems' = Append(systems, System[s])
AddHost(k, s) == hosts' = Append(hosts, [syskey |-> k, host |-> Host[s]])
Registered(s) == {k \in DOMAIN systems : systems[k] = System[s]}

-----------------------------------------------------------------------------
(* parsethread(): a job is received, and its row marked as in progress; a  *)
(* failure to do so, -1, counts as true, and the report is parsed.         *)
Receive(w) ==
  /\ At(w, "idle")
  /\ \E s \in queue, done \in BOOLEAN :
       /\ queue' = queue \ {s} /\ job' = [job EXCEPT ![w] = s]
       /\ \/ done /\ Succeeds(w) /\ UNCHANGED ignored
          \/ Fails(w, done) /\ ignored' = ignored \cup {<<s, "INPROG">>}
       /\ status' = IF done THEN [status EXCEPT ![s] = "INPROG"] ELSE status
  /\ Goto(w, "read")
  /\ UNCHANGED <<fileVars, sysVars, lastid, runs, mutex, syskey, rterid, wres,
                 txVars, kills>>

(* The file is too big, missing, or not an XML document.                   *)
ReadReport(w) ==
  /\ At(w, "read")
  /\ \/ Goto(w, "lock") /\ UNCHANGED wres
     \/ "report" \in Faults /\ \E v \in {"FTOOBIG", "XMLFAIL"} : Fail(w, v, "final")
  /\ UNCHANGED <<queueVars, fileVars, sysVars, lastid, runs, mutex, job, syskey,
                 rterid, txVars, connVars, ignored, kills>>

(* Mutated LockSystems: there is no mutex.                                 *)
LockSystems_Shared(w) ==
  /\ At(w, "lock")
  /\ mutex' = w /\ Goto(w, "find")
  /\ UNCHANGED <<queueVars, fileVars, sysVars, lastid, runs, jobVars, txVars,
                 connVars, ignored, kills>>

LockSystems(w) ==
  /\ At(w, "lock") /\ mutex = Free
  /\ mutex' = w /\ Goto(w, "find")
  /\ UNCHANGED <<queueVars, fileVars, sysVars, lastid, runs, jobVars, txVars,
                 connVars, ignored, kills>>

(* Mutated SystemFails: the mutex is kept.                                 *)
SystemFails_Locked(w, verdict) ==
  Fail(w, verdict, "final") /\ UNCHANGED mutex

(* No way out keeps the mutex.                                             *)
SystemFails(w, verdict) == Fail(w, verdict, "final") /\ mutex' = Free

(* db_register_system(): is there a row for this sysid?                    *)
FindSystem(w) ==
  /\ At(w, "find")
  /\ \/ /\ Succeeds(w) /\ Registered(job[w]) = {}
        /\ Goto(w, "addsys") /\ UNCHANGED <<syskey, wres, mutex>>
     \/ /\ Succeeds(w)
        /\ \E k \in Registered(job[w]) : /\ Registered(job[w]) = {k}
                                         /\ syskey' = [syskey EXCEPT ![w] = k]
        /\ Goto(w, "findhost") /\ UNCHANGED <<wres, mutex>>
     \/ /\ \/ Succeeds(w) /\ \E j, k \in Registered(job[w]) : j # k
           \/ \E done \in BOOLEAN : Fails(w, done)
        /\ SystemFails(w, "SYSREG") /\ UNCHANGED syskey
  /\ UNCHANGED <<queueVars, fileVars, sysVars, lastid, runs, job, rterid, txVars, ignored, kills>>

InsertSystem(w) ==
  /\ At(w, "addsys")
  /\ \/ /\ Succeeds(w) /\ AddSystem(job[w])
        /\ syskey' = [syskey EXCEPT ![w] = Len(systems) + 1]
        /\ Goto(w, "addhost") /\ UNCHANGED <<wres, mutex>>
     \/ /\ \E done \in BOOLEAN : /\ Fails(w, done)
                                 /\ IF done THEN AddSystem(job[w]) ELSE UNCHANGED systems
        /\ SystemFails(w, "SYSREG") /\ UNCHANGED syskey
  /\ UNCHANGED <<queueVars, fileVars, hosts, lastid, runs, job, rterid, txVars, ignored, kills>>

(* The host of a known system is looked up by name and address alone, so a *)
(* host that was another system's is not registered for this one.          *)
FindHost(w) ==
  /\ At(w, "findhost")
  /\ \/ /\ Succeeds(w)
        /\ Goto(w, IF \E i \in DOMAIN hosts : hosts[i].host = Host[job[w]]
                     THEN "nextid" ELSE "addhost")
        /\ UNCHANGED <<wres, mutex>>
     \/ \E done \in BOOLEAN : Fails(w, done) /\ SystemFails(w, "SYSREG")
  /\ UNCHANGED <<queueVars, fileVars, sysVars, lastid, runs, job, syskey, rterid,
                 txVars, ignored, kills>>

InsertHost(w) ==
  /\ At(w, "addhost")
  /\ \/ /\ Succeeds(w) /\ AddHost(syskey[w], job[w])
        /\ Goto(w, "nextid") /\ UNCHANGED <<wres, mutex>>
     \/ /\ \E done \in BOOLEAN :
             /\ Fails(w, done)
             /\ IF done THEN AddHost(syskey[w], job[w]) ELSE UNCHANGED hosts
        /\ SystemFails(w, "SYSREG")
  /\ UNCHANGED <<queueVars, fileVars, systems, lastid, runs, job, syskey, rterid,
                 txVars, ignored, kills>>

(* Mutated NewRunId: the id is one more than the rows in the table.        *)
NewRunId_FromTable(w) ==
  /\ At(w, "nextid") /\ Succeeds(w)
  /\ rterid' = [rterid EXCEPT ![w] = Cardinality(runs) + 1] /\ UNCHANGED lastid
  /\ mutex' = Free /\ Goto(w, "begin")
  /\ UNCHANGED <<queueVars, fileVars, sysVars, runs, job, syskey, wres, txVars, ignored, kills>>

(* db_get_new_rterid(): a value of the sequence is never given out again.  *)
NewRunId(w) ==
  /\ At(w, "nextid")
  /\ \/ /\ Succeeds(w) /\ lastid' = lastid + 1
        /\ rterid' = [rterid EXCEPT ![w] = lastid + 1]
        /\ mutex' = Free /\ Goto(w, "begin") /\ UNCHANGED wres
     \/ /\ \E done \in BOOLEAN : /\ Fails(w, done)
                                 /\ lastid' = IF done THEN lastid + 1 ELSE lastid
        /\ SystemFails(w, "RTERIDREG") /\ UNCHANGED rterid
  /\ UNCHANGED <<queueVars, fileVars, sysVars, runs, job, syskey, txVars, ignored, kills>>

Begin(w) ==
  /\ At(w, "begin")
  /\ \/ /\ Succeeds(w) /\ open' = [open EXCEPT ![w] = TRUE] /\ UNCHANGED pending
        /\ Goto(w, "run") /\ UNCHANGED wres
     \/ /\ \E done \in BOOLEAN : Fails(w, done)
        /\ EndTx(w) /\ Fail(w, "GENDB", "final")
  /\ UNCHANGED <<queueVars, fileVars, sysVars, lastid, runs, mutex, job, syskey,
                 rterid, ignored, kills>>

(* A statement of the transaction.  The server ends the transaction of a   *)
(* connection that is lost.                                                *)
Insert(w, new, next, verdict) ==
  \/ /\ Succeeds(w) /\ open[w]
     /\ pending' = [pending EXCEPT ![w] = @ \cup new] /\ UNCHANGED open
     /\ Goto(w, next) /\ UNCHANGED wres
  \/ /\ \E done \in BOOLEAN : Fails(w, done)
     /\ IF conn'[w] THEN UNCHANGED txVars ELSE EndTx(w)
     /\ Fail(w, verdict, "rollback")

(* db_register_rtevalrun()                                                 *)
InsertRun(w) ==
  /\ At(w, "run")
  /\ Insert(w, {"rtevalruns", "rtevalruns_details"}, "measure", "RTEVRUNS")
  /\ UNCHANGED <<queueVars, fileVars, sysVars, lastid, runs, mutex, job, syskey,
                 rterid, ignored, kills>>

(* db_register_measurements(): a report without measurements fails, too.   *)
InsertMeasurements(w) ==
  /\ At(w, "measure")
  /\ Insert(w, {"measurements"}, "stat", "MEASURE")
  /\ UNCHANGED <<queueVars, fileVars, sysVars, lastid, runs, mutex, job, syskey,
                 rterid, ignored, kills>>

(* make_report_dir(): a directory that is not there is made.               *)
StatDir(w) ==
  /\ At(w, "stat")
  /\ \/ Goto(w, IF Client[job[w]] \in dirs THEN "move" ELSE "mkdir") /\ UNCHANGED wres
     \/ "files" \in Faults /\ Fail(w, "REPMOVE", "rollback")
  /\ UNCHANGED <<queueVars, fileVars, sysVars, lastid, runs, mutex, job, syskey,
                 rterid, txVars, connVars, ignored, kills>>

(* mkdir() fails on a directory that is there by now.                      *)
MakeDir(w) ==
  /\ At(w, "mkdir")
  /\ \/ /\ Client[job[w]] \notin dirs
        /\ dirs' = dirs \cup {Client[job[w]]}
        /\ Goto(w, "move") /\ UNCHANGED wres
     \/ /\ Client[job[w]] \in dirs \/ "files" \in Faults
        /\ Fail(w, "REPMOVE", "rollback") /\ UNCHANGED dirs
  /\ UNCHANGED <<queueVars, file, sysVars, lastid, runs, mutex, job, syskey,
                 rterid, txVars, connVars, ignored, kills>>

(* Mutated MoveReport: a failure is not noticed.                           *)
MoveReport_Unchecked(w) ==
  /\ At(w, "move") /\ Goto(w, "commit")
  /\ \/ file' = [file EXCEPT ![job[w]] = rterid[w]]
     \/ "files" \in Faults /\ UNCHANGED file
  /\ UNCHANGED <<queueVars, dirs, sysVars, lastid, runs, mutex, jobVars, txVars,
                 connVars, ignored, kills>>

MoveReport(w) ==
  /\ At(w, "move")
  /\ \/ /\ file' = [file EXCEPT ![job[w]] = rterid[w]]
        /\ Goto(w, "commit") /\ UNCHANGED wres
     \/ "files" \in Faults /\ Fail(w, "REPMOVE", "rollback") /\ UNCHANGED file
  /\ UNCHANGED <<queueVars, dirs, sysVars, lastid, runs, mutex, job, syskey,
                 rterid, txVars, connVars, ignored, kills>>

Store(w) ==
  runs' = runs \cup {[rterid |-> rterid[w], submid |-> job[w],
                      syskey |-> syskey[w], tables |-> pending[w]]}

(* Mutated Commit: a lost connection is set up again.                      *)
Commit_Reconnects(w) ==
  /\ At(w, "commit")
  /\ \/ Succeeds(w) /\ Store(w)
     \/ /\ ~conn[w] /\ conn' = [conn EXCEPT ![w] = TRUE]
        /\ UNCHANGED <<runs, dbFaults>>
  /\ EndTx(w)
  /\ Fail(w, "SUCCESS", "final")
  /\ UNCHANGED <<queueVars, fileVars, sysVars, lastid, mutex, job, syskey, rterid, ignored, kills>>

(* The result of db_commit() is not looked at.  A COMMIT that is refused   *)
(* ends the transaction all the same.                                      *)
Commit(w) ==
  /\ At(w, "commit")
  /\ \/ Succeeds(w) /\ Store(w) /\ UNCHANGED ignored
     \/ \E done \in BOOLEAN : /\ Fails(w, done)
                              /\ IF done THEN Store(w) ELSE UNCHANGED runs
                              /\ ignored' = ignored \cup {<<job[w], "COMMIT">>}
  /\ EndTx(w)
  /\ wres' = [wres EXCEPT ![w] = "SUCCESS"] /\ Goto(w, "final")
  /\ UNCHANGED <<queueVars, fileVars, sysVars, lastid, mutex, job, syskey, rterid, kills>>

(* Mutated Rollback: it is left out.                                       *)
Rollback_Skipped(w) ==
  /\ At(w, "rollback") /\ Goto(w, "final")
  /\ UNCHANGED <<queueVars, fileVars, sysVars, lastid, runs, mutex, jobVars, txVars,
                 connVars, ignored, kills>>

Rollback(w) ==
  /\ At(w, "rollback")
  /\ UNCHANGED connVars \/ Breaks(w)
  /\ EndTx(w) /\ Goto(w, "final")
  /\ UNCHANGED <<queueVars, fileVars, sysVars, lastid, runs, mutex, jobVars, ignored, kills>>

-----------------------------------------------------------------------------
(* Mutated RecordVerdict: the verdict is reset first.                      *)
RecordVerdict_Unset(w) ==
  /\ At(w, "final")
  /\ \E done \in BOOLEAN :
       /\ (done /\ Succeeds(w)) \/ Fails(w, done)
       /\ status' = IF done THEN [status EXCEPT ![job[w]] = "none"] ELSE status
  /\ job' = [job EXCEPT ![w] = NoJob] /\ wres' = [wres EXCEPT ![w] = "none"]
  /\ syskey' = [syskey EXCEPT ![w] = 0] /\ rterid' = [rterid EXCEPT ![w] = 0]
  /\ Goto(w, "ping")
  /\ UNCHANGED <<queue, fileVars, sysVars, lastid, runs, mutex, txVars, ignored, kills>>

(* parsethread() records the verdict, and does not look at whether it did. *)
RecordVerdict(w) ==
  /\ At(w, "final")
  /\ \E done \in BOOLEAN :
       /\ (done /\ Succeeds(w)) \/ Fails(w, done)
       /\ status' = IF done THEN [status EXCEPT ![job[w]] = wres[w]] ELSE status
  /\ job' = [job EXCEPT ![w] = NoJob] /\ wres' = [wres EXCEPT ![w] = "none"]
  /\ syskey' = [syskey EXCEPT ![w] = 0] /\ rterid' = [rterid EXCEPT ![w] = 0]
  /\ Goto(w, "ping")
  /\ UNCHANGED <<queue, fileVars, sysVars, lastid, runs, mutex, txVars, ignored, kills>>

(* db_ping() before the next job: a connection that is down is set up      *)
(* again, or the worker leaves.                                            *)
Ping(w) ==
  /\ At(w, "ping")
  /\ \E ok \in BOOLEAN : /\ conn[w] => ok
                         /\ conn' = [conn EXCEPT ![w] = ok]
                         /\ Goto(w, IF ok THEN "idle" ELSE "gone")
  /\ UNCHANGED <<queueVars, fileVars, sysVars, lastid, runs, mutex, jobVars, txVars,
                 dbFaults, ignored, kills>>

(* The connection breaks while no statement is under way.                  *)
Lose(w) ==
  /\ conn[w] /\ dbFaults < MaxDbFaults
  /\ conn' = [conn EXCEPT ![w] = FALSE] /\ dbFaults' = dbFaults + 1
  /\ EndTx(w)
  /\ UNCHANGED <<queueVars, fileVars, sysVars, lastid, runs, mutex, wpc, jobVars, ignored, kills>>

(* The daemon is killed and started again.                                 *)
Kill ==
  /\ kills < MaxKills /\ kills' = kills + 1
  /\ wpc' = [w \in Workers |-> "idle"] /\ mutex' = Free
  /\ job' = [w \in Workers |-> NoJob] /\ wres' = [w \in Workers |-> "none"]
  /\ syskey' = [w \in Workers |-> 0] /\ rterid' = [w \in Workers |-> 0]
  /\ open' = [w \in Workers |-> FALSE] /\ pending' = [w \in Workers |-> {}]
  /\ conn' = [w \in Workers |-> TRUE]
  /\ UNCHANGED <<queueVars, fileVars, sysVars, lastid, runs, dbFaults, ignored>>

Worker(w) ==
  \/ Receive(w) \/ ReadReport(w) \/ LockSystems(w) \/ FindSystem(w)
  \/ InsertSystem(w) \/ FindHost(w) \/ InsertHost(w) \/ NewRunId(w)
  \/ Begin(w) \/ InsertRun(w) \/ InsertMeasurements(w) \/ StatDir(w)
  \/ MakeDir(w) \/ MoveReport(w) \/ Commit(w) \/ Rollback(w)
  \/ RecordVerdict(w) \/ Ping(w)

Next == (\E w \in Workers : Worker(w) \/ Lose(w)) \/ Kill

Spec == Init /\ [][Next]_vars

-----------------------------------------------------------------------------
(* A system is registered once, and so is a host of it, whatever the       *)
(* workers do at the same time: the tables do not enforce it (pgsql.c      *)
(* 902-905: "system IDs should not be registered more than once").         *)
RegisteredOnce ==
  /\ \A i, j \in DOMAIN systems : systems[i] = systems[j] => i = j
  /\ \A i, j \in DOMAIN hosts : hosts[i] = hosts[j] => i = j

(* What the database says of a run is true: its report is where            *)
(* report_filename says, the run is complete and of the system that sent   *)
(* it (parsethread.c 237-284).                                             *)
RunsAreTrue ==
  \A r \in runs :
    /\ file[r.submid] = r.rterid /\ r.tables = Tables
    /\ r.syskey \in DOMAIN systems /\ systems[r.syskey] = System[r.submid]

(* No two reports are moved to the same place, be their runs committed or  *)
(* not (parsethread.c 132).                                                *)
OwnPlace ==
  \A s, t \in Submissions : file[s] = file[t] /\ file[s] # 0 => s = t

Stored(s) == \E r \in runs : r.submid = s

(* A verdict in the submission queue is true: success means that the       *)
(* report is in its place and, unless its COMMIT failed, the run in the    *)
(* database, any other verdict that both are as before; and so they are of *)
(* a row that is still assigned, unless the update to in progress failed   *)
(* (parsethread.c 173-181, 284, 354-366).                                  *)
VerdictIsTrue ==
  \A s \in Submissions :
    /\ status[s] = "SUCCESS" =>
         file[s] # 0 /\ (Stored(s) \/ <<s, "COMMIT">> \in ignored)
    /\ status[s] \in Failures => ~Stored(s) /\ file[s] = 0
    /\ status[s] = "ASSIGNED" =>
         (~Stored(s) /\ file[s] = 0) \/ <<s, "INPROG">> \in ignored

(* No way out of parse_report() leaves a transaction open, in which the    *)
(* verdict and the next report would end up (parsethread.c 231-284).       *)
NoOpenTransaction ==
  \A w \in Workers : open[w] =>
    wpc[w] \in {"run", "measure", "stat", "mkdir", "move", "commit", "rollback"}

(* The mutex covers the registration of the system up to the run id, and   *)
(* no way out of it keeps the mutex (parsethread.c 208-229).               *)
LockCoversRegistration ==
  \A w \in Workers :
    mutex = w <=> wpc[w] \in {"find", "addsys", "findhost", "addhost", "nextid"}

(* Success means: "Successfully registered report" (parsethread.c 173).    *)
SuccessIsStored ==
  \A w \in Workers : wres[w] = "SUCCESS" => Stored(job[w])
=============================================================================
