---------------------- MODULE ReportRegistration_proofs ----------------------
(***************************************************************************)
(* Proofs about ReportRegistration for any number of submissions, workers, *)
(* lost connections, refused statements and restarts.                                          *)
(***************************************************************************)
EXTENDS ReportRegistration, TLAPS

(* Where a worker has a job, where its transaction is open if its          *)
(* connection is up, where it has a system and where it has a run id.      *)
Busy      == Labels \ {"idle", "ping", "gone"}
Critical  == {"find", "addsys", "findhost", "addhost", "nextid"}
InTx      == {"run", "measure", "stat", "mkdir", "move", "commit"}
HasSystem == {"findhost", "addhost", "nextid", "begin"} \cup InTx
HasId     == {"begin", "rollback"} \cup InTx

(* A job is in the queue or with one worker, which is in the middle of     *)
(* something.  Its row is in progress, unless the update failed.  In the   *)
(* end there is a verdict.                                                 *)
Unmarked(s) == <<s, "INPROG">> \in ignored
MarkedOf(w) == job[w] # NoJob /\ status[job[w]] = "ASSIGNED" => Unmarked(job[w])
HoldInv ==
  /\ \A w \in Workers : job[w] # NoJob <=> wpc[w] \in Busy
  /\ \A s \in queue : status[s] = "ASSIGNED" /\ ~Unmarked(s)
  /\ \A w \in Workers : job[w] # NoJob => /\ status[job[w]] \in {"ASSIGNED", "INPROG"}
                                          /\ job[w] \notin queue
  /\ \A w \in Workers : MarkedOf(w)
  /\ \A v, w \in Workers : job[v] = job[w] /\ job[v] # NoJob => v = w
  /\ \A w \in Workers : wpc[w] \in {"rollback", "final"} => wres[w] # "none"

(* What a transaction contains.                                            *)
TxInvOf(w) ==
  /\ wpc[w] \in InTx => (open[w] <=> conn[w])
  /\ wpc[w] \notin InTx \cup {"rollback"} => ~open[w] /\ pending[w] = {}
  /\ wpc[w] = "run" => pending[w] = {}
  /\ wpc[w] = "measure" /\ open[w] => pending[w] = {"rtevalruns", "rtevalruns_details"}
  /\ wpc[w] \in {"stat", "mkdir", "move", "commit"} /\ open[w] => pending[w] = Tables
TxInv == \A w \in Workers : TxInvOf(w)

(* Systems and hosts.  Only the owner of the mutex relies on what is not   *)
(* in the tables.                                                          *)
SysInvOf(w) ==
  /\ wpc[w] \in HasSystem => /\ syskey[w] \in DOMAIN systems
                             /\ systems[syskey[w]] = System[job[w]]
  /\ wpc[w] = "addsys" => Registered(job[w]) = {}
  /\ wpc[w] = "addhost" =>
       \A i \in DOMAIN hosts :
         hosts[i] # [syskey |-> syskey[w], host |-> Host[job[w]]]
SysInv ==
  /\ RegisteredOnce
  /\ \A i \in DOMAIN hosts : hosts[i].syskey \in DOMAIN systems
  /\ \A w \in Workers : SysInvOf(w)

(* Run ids are given out once, and a place belongs to the worker that has  *)
(* its id, or to the report that is there.                                 *)
IdInvOf(w) ==
  /\ rterid[w] <= lastid
  /\ wpc[w] \in HasId => rterid[w] # 0
  /\ wpc[w] \notin HasId \cup {"final"} => rterid[w] = 0
IdInv ==
  /\ \A w \in Workers : IdInvOf(w)
  /\ \A v, w \in Workers : rterid[v] = rterid[w] /\ rterid[v] # 0 => v = w
  /\ \A s \in Submissions : file[s] <= lastid
  /\ \A s \in Submissions, w \in Workers :
       file[s] = rterid[w] /\ file[s] # 0 => job[w] = s
  /\ OwnPlace

Untouched(s) == ~Stored(s) /\ file[s] = 0

(* What has become of a report.                                            *)
FateInvOf(w) ==
  /\ wpc[w] \in Busy \ {"commit", "final"} => Untouched(job[w])
  /\ wpc[w] = "commit" => ~Stored(job[w]) /\ file[job[w]] = rterid[w]
  /\ wpc[w] = "rollback" => wres[w] \in Failures
  /\ wpc[w] = "final" /\ wres[w] \in Failures => Untouched(job[w])
  /\ wpc[w] = "final" /\ wres[w] = "SUCCESS" =>
       file[job[w]] # 0 /\ (Stored(job[w]) \/ <<job[w], "COMMIT">> \in ignored)
FateInv ==
  /\ \A w \in Workers : FateInvOf(w)
  /\ VerdictIsTrue
  /\ RunsAreTrue

IInv == /\ TypeOK /\ HoldInv /\ LockCoversRegistration /\ TxInv
        /\ SysInv /\ IdInv /\ FateInv

-----------------------------------------------------------------------------
(* The types of what is a function of the workers or the submissions.      *)
LEMMA FunctionTypes ==
  ASSUME TypeOK
  PROVE  /\ status \in [Submissions -> Statuses] /\ file \in [Submissions -> Nat]
         /\ wpc \in [Workers -> Labels] /\ job \in [Workers -> Submissions \cup {NoJob}]
         /\ syskey \in [Workers -> Nat] /\ rterid \in [Workers -> Nat]
         /\ open \in [Workers -> BOOLEAN] /\ pending \in [Workers -> SUBSET Tables]
         /\ wres \in [Workers -> Verdicts \cup {"none"}] /\ conn \in [Workers -> BOOLEAN]
BY DEF TypeOK

(* What a step of one worker leaves alone.                                 *)
LEMMA Frame ==
  ASSUME TypeOK, NEW w \in Workers, Worker(w) \/ Lose(w)
  PROVE  /\ \A v \in Workers \ {w} :
              /\ wpc'[v] = wpc[v] /\ job'[v] = job[v] /\ syskey'[v] = syskey[v]
              /\ rterid'[v] = rterid[v] /\ open'[v] = open[v]
              /\ pending'[v] = pending[v] /\ wres'[v] = wres[v] /\ conn'[v] = conn[v]
         /\ kills' = kills
<1> USE FunctionTypes
<1> USE DEF At, Goto, Fail, Succeeds, Fails, Breaks, SystemFails, EndTx, jobVars,
            txVars, connVars
<1>1. CASE Receive(w) BY <1>1 DEF Receive
<1>2. CASE ReadReport(w) BY <1>2 DEF ReadReport
<1>3. CASE LockSystems(w) BY <1>3 DEF LockSystems
<1>4. CASE FindSystem(w) BY <1>4 DEF FindSystem
<1>5. CASE InsertSystem(w) BY <1>5 DEF InsertSystem
<1>6. CASE FindHost(w) BY <1>6 DEF FindHost
<1>7. CASE InsertHost(w) BY <1>7 DEF InsertHost
<1>8. CASE NewRunId(w) BY <1>8 DEF NewRunId
<1>9. CASE Begin(w) BY <1>9 DEF Begin
<1>10. CASE InsertRun(w) BY <1>10 DEF InsertRun, Insert
<1>11. CASE InsertMeasurements(w) BY <1>11 DEF InsertMeasurements, Insert
<1>12. CASE StatDir(w) \/ MakeDir(w) \/ MoveReport(w)
  BY <1>12 DEF StatDir, MakeDir, MoveReport
<1>13. CASE Commit(w) BY <1>13 DEF Commit
<1>14. CASE Rollback(w) BY <1>14 DEF Rollback
<1>15. CASE RecordVerdict(w) BY <1>15 DEF RecordVerdict
<1>16. CASE Ping(w) \/ Lose(w) BY <1>16 DEF Ping, Lose
<1>17. QED
  BY <1>1, <1>2, <1>3, <1>4, <1>5, <1>6, <1>7, <1>8, <1>9, <1>10, <1>11, <1>12,
     <1>13, <1>14, <1>15, <1>16 DEF Worker

-----------------------------------------------------------------------------
(* A worker in the middle of something has a job.                          *)
LEMMA HasJob ==
  ASSUME TypeOK, HoldInv, NEW w \in Workers, wpc[w] \in Busy
  PROVE  job[w] \in Submissions
BY DEF TypeOK, HoldInv

(* The two statements of the transaction.                                  *)
LEMMA InsertStep ==
  ASSUME TypeOK, NEW w \in Workers, InsertRun(w) \/ InsertMeasurements(w)
  PROVE  wpc[w] \in {"run", "measure"} /\ wpc'[w] \in {"measure", "stat", "rollback"}
<1>1. CASE InsertRun(w) BY <1>1 DEF TypeOK, InsertRun, Insert, At, Goto, Fail
<1>2. CASE InsertMeasurements(w)
  BY <1>2 DEF TypeOK, InsertMeasurements, Insert, At, Goto, Fail
<1>3. QED BY <1>1, <1>2

-----------------------------------------------------------------------------
(* Where a worker is, and what it returns. *)
LEMMA ControlType ==
  ASSUME TypeOK, NEW w \in Workers, Worker(w) \/ Lose(w)
  PROVE  /\ wpc' \in [Workers -> Labels]
         /\ wres' \in [Workers -> Verdicts \cup {"none"}]
<1> USE FunctionTypes
<1> USE DEF At, Goto, Fail, SystemFails, Labels, Verdicts, Failures, jobVars
<1>1. CASE Receive(w) BY <1>1 DEF Receive
<1>2. CASE ReadReport(w) BY <1>2 DEF ReadReport
<1>3. CASE LockSystems(w) BY <1>3 DEF LockSystems
<1>4. CASE FindSystem(w) BY <1>4 DEF FindSystem
<1>5. CASE InsertSystem(w) BY <1>5 DEF InsertSystem
<1>6. CASE FindHost(w) BY <1>6 DEF FindHost
<1>7. CASE InsertHost(w) BY <1>7 DEF InsertHost
<1>8. CASE NewRunId(w) BY <1>8 DEF NewRunId
<1>9. CASE Begin(w) BY <1>9 DEF Begin
<1>10. CASE InsertRun(w) BY <1>10 DEF InsertRun, Insert
<1>11. CASE InsertMeasurements(w) BY <1>11 DEF InsertMeasurements, Insert
<1>12. CASE StatDir(w) BY <1>12 DEF StatDir
<1>13. CASE MakeDir(w) BY <1>13 DEF MakeDir
<1>14. CASE MoveReport(w) BY <1>14 DEF MoveReport
<1>15. CASE Commit(w) BY <1>15 DEF Commit
<1>16. CASE Rollback(w) BY <1>16 DEF Rollback
<1>17. CASE RecordVerdict(w) BY <1>17 DEF RecordVerdict
<1>18. CASE Ping(w) \/ Lose(w) BY <1>18 DEF Ping, Lose
<1>19. QED
  BY <1>1, <1>2, <1>3, <1>4, <1>5, <1>6, <1>7, <1>8, <1>9, <1>10, <1>11, <1>12,
     <1>13, <1>14, <1>15, <1>16, <1>17, <1>18 DEF Worker

(* A worker receives a job, drops it, or keeps it. *)
LEMMA JobStep ==
  ASSUME TypeOK, HoldInv, NEW w \in Workers, Worker(w) \/ Lose(w)
  PROVE  \/ /\ job' = job /\ (wpc[w] \in Busy <=> wpc'[w] \in Busy)
            /\ UNCHANGED queueVars
         \/ /\ wpc[w] = "idle" /\ wpc'[w] \in Busy /\ job'[w] \in Submissions
            /\ job' = [job EXCEPT ![w] = job'[w]]
            /\ job'[w] \in queue /\ queue' = queue \ {job'[w]}
            /\ wpc'[w] = "read"
            /\ \/ status' = status /\ <<job'[w], "INPROG">> \in ignored'
               \/ status' = [status EXCEPT ![job'[w]] = "INPROG"]
         \/ /\ wpc[w] = "final" /\ wpc'[w] = "ping" /\ job' = [job EXCEPT ![w] = NoJob]
            /\ queue' = queue
            /\ \/ status' = status
               \/ status' = [status EXCEPT ![job[w]] = wres[w]]
<1> USE FunctionTypes
<1> USE DEF At, Goto, Fail, SystemFails, Busy, Labels, jobVars
<1>1. CASE Receive(w)
  <2>1. queue \subseteq Submissions BY DEF TypeOK
  <2>2. QED BY <1>1, <2>1 DEF Receive, Fails, Breaks
<1>2. CASE ReadReport(w) BY <1>2 DEF ReadReport
<1>3. CASE LockSystems(w) BY <1>3 DEF LockSystems
<1>4. CASE FindSystem(w)
  <2>1. job' = job /\ UNCHANGED queueVars BY <1>4 DEF FindSystem
  <2>2. /\ wpc[w] = "find"
        /\ \/ wpc' = [wpc EXCEPT ![w] = "addsys"]
           \/ wpc' = [wpc EXCEPT ![w] = "findhost"]
           \/ wpc' = [wpc EXCEPT ![w] = "final"]
    <3> HIDE DEF TypeOK, HoldInv, Busy, Labels
    <3>1. QED BY <1>4 DEF FindSystem
  <2>3. wpc \in [Workers -> Labels] BY DEF TypeOK
  <2>4. wpc[w] \in Busy /\ wpc'[w] \in Busy
    <3> HIDE DEF TypeOK, HoldInv
    <3>1. QED BY <2>2, <2>3
  <2>5. QED BY <2>1, <2>4
<1>5. CASE InsertSystem(w) BY <1>5 DEF InsertSystem
<1>6. CASE FindHost(w)
  <2>1. job' = job /\ UNCHANGED queueVars BY <1>6 DEF FindHost
  <2>2. wpc[w] \in Busy /\ wpc'[w] \in Busy BY <1>6 DEF FindHost
  <2>3. QED BY <2>1, <2>2
<1>7. CASE InsertHost(w) BY <1>7 DEF InsertHost
<1>8. CASE NewRunId(w) BY <1>8 DEF NewRunId
<1>9. CASE Begin(w) BY <1>9 DEF Begin
<1>10. CASE InsertRun(w)
  <2>1. job' = job /\ UNCHANGED queueVars BY <1>10 DEF InsertRun
  <2>2. wpc[w] \in Busy /\ wpc'[w] \in Busy BY <1>10, InsertStep
  <2>3. QED BY <2>1, <2>2
<1>11. CASE InsertMeasurements(w)
  <2>1. job' = job /\ UNCHANGED queueVars BY <1>11 DEF InsertMeasurements
  <2>2. wpc[w] \in Busy /\ wpc'[w] \in Busy BY <1>11, InsertStep
  <2>3. QED BY <2>1, <2>2
<1>12. CASE StatDir(w) BY <1>12 DEF StatDir
<1>13. CASE MakeDir(w) BY <1>13 DEF MakeDir
<1>14. CASE MoveReport(w) BY <1>14 DEF MoveReport
<1>15. CASE Commit(w) BY <1>15 DEF Commit
<1>16. CASE Rollback(w) BY <1>16 DEF Rollback
<1>17. CASE RecordVerdict(w) BY <1>17 DEF RecordVerdict
<1>18. CASE Ping(w) \/ Lose(w) BY <1>18 DEF Ping, Lose
<1>19. QED
  BY <1>1, <1>2, <1>3, <1>4, <1>5, <1>6, <1>7, <1>8, <1>9, <1>10, <1>11, <1>12,
     <1>13, <1>14, <1>15, <1>16, <1>17, <1>18 DEF Worker

(* Ignored failures are never forgotten, and a job nobody has received has *)
(* none.                                                                   *)
LEMMA IgnoredStep ==
  ASSUME TypeOK, HoldInv, NEW w \in Workers, Worker(w) \/ Lose(w)
  PROVE  /\ ignored \subseteq ignored'
         /\ ignored' \subseteq Submissions \X {"INPROG", "COMMIT"}
         /\ \A s \in queue' : <<s, "INPROG">> \notin ignored'
<1>1. CASE UNCHANGED ignored /\ queue' \subseteq queue
  BY <1>1 DEF TypeOK, HoldInv, Unmarked
<1>2. CASE /\ wpc[w] = "idle" /\ job'[w] \in queue /\ queue' = queue \ {job'[w]}
           /\ ignored' = ignored \cup {<<job'[w], "INPROG">>}
  BY <1>2 DEF TypeOK, HoldInv, Unmarked
<1>3. CASE /\ wpc[w] = "commit" /\ queue' = queue
           /\ ignored' = ignored \cup {<<job[w], "COMMIT">>}
  <2>1. job[w] \in Submissions BY <1>3, HasJob DEF Busy, Labels
  <2>2. QED BY <1>3, <2>1 DEF TypeOK, HoldInv, Unmarked
<1>4. CASE Receive(w)
  <2>1. queue \subseteq Submissions /\ job \in [Workers -> Submissions \cup {NoJob}]
    BY DEF TypeOK
  <2>2. QED BY <1>1, <1>2, <1>4, <2>1 DEF Receive, At
<1>5. CASE Commit(w) BY <1>1, <1>3, <1>5 DEF Commit, At, queueVars
<1>6. CASE ~Receive(w) /\ ~Commit(w)
  <2>1. UNCHANGED ignored /\ queue' = queue
    BY <1>6 DEF Worker, ReadReport, LockSystems, FindSystem, InsertSystem, FindHost, InsertHost,
       NewRunId, Begin, InsertRun, InsertMeasurements, StatDir, MakeDir, MoveReport, Rollback,
       RecordVerdict, Ping, Lose, queueVars
  <2>2. QED BY <1>1, <2>1
<1>7. QED BY <1>4, <1>5, <1>6

(* A worker that ends a report has a verdict. *)
LEMMA VerdictStep ==
  ASSUME TypeOK, HoldInv, NEW w \in Workers, Worker(w) \/ Lose(w)
  PROVE  wpc'[w] \in {"rollback", "final"} => wres'[w] # "none"
<1> USE FunctionTypes
<1> USE DEF At, Goto, Fail, SystemFails, Verdicts, Failures, jobVars
<1>1. CASE Receive(w) BY <1>1 DEF Receive
<1>2. CASE ReadReport(w) BY <1>2 DEF ReadReport
<1>3. CASE LockSystems(w) BY <1>3 DEF LockSystems
<1>4. CASE FindSystem(w) BY <1>4 DEF FindSystem
<1>5. CASE InsertSystem(w) BY <1>5 DEF InsertSystem
<1>6. CASE FindHost(w) BY <1>6 DEF FindHost
<1>7. CASE InsertHost(w) BY <1>7 DEF InsertHost
<1>8. CASE NewRunId(w) BY <1>8 DEF NewRunId
<1>9. CASE Begin(w) BY <1>9 DEF Begin
<1>10. CASE InsertRun(w) BY <1>10 DEF InsertRun, Insert
<1>11. CASE InsertMeasurements(w) BY <1>11 DEF InsertMeasurements, Insert
<1>12. CASE StatDir(w) BY <1>12 DEF StatDir
<1>13. CASE MakeDir(w) BY <1>13 DEF MakeDir
<1>14. CASE MoveReport(w) BY <1>14 DEF MoveReport
<1>15. CASE Commit(w) BY <1>15 DEF Commit
<1>16. CASE Rollback(w) BY <1>16 DEF Rollback, HoldInv
<1>17. CASE RecordVerdict(w) BY <1>17 DEF RecordVerdict
<1>18. CASE Ping(w) \/ Lose(w) BY <1>18 DEF Ping, Lose, HoldInv
<1>19. QED
  BY <1>1, <1>2, <1>3, <1>4, <1>5, <1>6, <1>7, <1>8, <1>9, <1>10, <1>11, <1>12,
     <1>13, <1>14, <1>15, <1>16, <1>17, <1>18 DEF Worker

(* The types of what the workers share and of their own data. *)
LEMMA DataType ==
  ASSUME TypeOK, HoldInv, NEW w \in Workers, Worker(w) \/ Lose(w)
  PROVE  /\ file' \in [Submissions -> Nat] /\ dirs' \subseteq Clients
         /\ systems' \in Seq({System[s] : s \in Submissions})
         /\ hosts' \in Seq(HostRows)
         /\ lastid' \in Nat
         /\ mutex' \in Workers \cup {Free}
         /\ syskey' \in [Workers -> Nat] /\ rterid' \in [Workers -> Nat]
         /\ open' \in [Workers -> BOOLEAN]
<1>a. At(w, "addsys") \/ At(w, "addhost") \/ At(w, "mkdir") \/ At(w, "move") =>
        /\ job[w] \in Submissions /\ Client[job[w]] \in Clients
        /\ System[job[w]] \in {System[s] : s \in Submissions}
        /\ [syskey |-> syskey[w], host |-> Host[job[w]]] \in HostRows
  BY HasJob DEF TypeOK, At, Busy, Labels, Clients, HostRows
<1>b. DOMAIN systems \subseteq Nat /\ Len(systems) + 1 \in Nat /\ lastid + 1 \in Nat
  BY DEF TypeOK
<1>c. At(w, "addsys") => Append(systems, System[job[w]]) \in Seq({System[s] : s \in Submissions})
  BY <1>a DEF TypeOK
<1>d. At(w, "addhost") =>
        Append(hosts, [syskey |-> syskey[w], host |-> Host[job[w]]]) \in Seq(HostRows)
  BY <1>a DEF TypeOK
<1> USE DEF TypeOK, SystemFails, EndTx, sysVars, fileVars, jobVars, txVars
<1>1. CASE Receive(w) BY <1>1 DEF Receive
<1>2. CASE ReadReport(w) BY <1>2 DEF ReadReport
<1>3. CASE LockSystems(w) BY <1>3 DEF LockSystems
<1>4. CASE FindSystem(w) BY <1>4, <1>b DEF FindSystem, Registered
<1>5. CASE InsertSystem(w) BY <1>5, <1>b, <1>c DEF InsertSystem, AddSystem
<1>6. CASE FindHost(w) BY <1>6 DEF FindHost
<1>7. CASE InsertHost(w) BY <1>7, <1>d DEF InsertHost, AddHost
<1>8. CASE NewRunId(w) BY <1>8, <1>b DEF NewRunId
<1>9. CASE Begin(w) BY <1>9 DEF Begin
<1>10. CASE InsertRun(w) BY <1>10 DEF InsertRun, Insert
<1>11. CASE InsertMeasurements(w) BY <1>11 DEF InsertMeasurements, Insert
<1>12. CASE StatDir(w) BY <1>12 DEF StatDir
<1>13. CASE MakeDir(w) BY <1>13, <1>a DEF MakeDir, At
<1>14. CASE MoveReport(w) BY <1>14, <1>a DEF MoveReport, At
<1>15. CASE Commit(w) BY <1>15 DEF Commit
<1>16. CASE Rollback(w) BY <1>16 DEF Rollback
<1>17. CASE RecordVerdict(w) BY <1>17 DEF RecordVerdict
<1>18. CASE Ping(w) \/ Lose(w) BY <1>18 DEF Ping, Lose
<1>19. QED
  BY <1>1, <1>2, <1>3, <1>4, <1>5, <1>6, <1>7, <1>8, <1>9, <1>10, <1>11, <1>12,
     <1>13, <1>14, <1>15, <1>16, <1>17, <1>18 DEF Worker

(* The rows of the runs. *)
LEMMA StoreType ==
  ASSUME TypeOK, HoldInv, NEW w \in Workers, Worker(w) \/ Lose(w)
  PROVE  /\ runs' \subseteq RunRows
         /\ pending' \in [Workers -> SUBSET Tables]
         /\ conn' \in [Workers -> BOOLEAN]
         /\ dbFaults' \in 0..MaxDbFaults /\ kills' \in 0..MaxKills
<1> DEFINE Conn == conn' \in [Workers -> BOOLEAN] /\ dbFaults' \in 0..MaxDbFaults
<1>a. Succeeds(w) => Conn BY DEF TypeOK, Succeeds, connVars
<1>b. \A done : Fails(w, done) => Conn
  <2>1. ASSUME dbFaults < MaxDbFaults, dbFaults' = dbFaults + 1
        PROVE  dbFaults' \in 0..MaxDbFaults
    BY <2>1, BoundsAssumption DEF TypeOK
  <2>2. QED BY <2>1 DEF TypeOK, Fails, Breaks, connVars
<1>e. \A new \in SUBSET Tables : pending[w] \cup new \in SUBSET Tables BY DEF TypeOK
<1>c. dbFaults < MaxDbFaults => dbFaults + 1 \in 0..MaxDbFaults BY BoundsAssumption DEF TypeOK
<1>d. At(w, "commit") => [rterid |-> rterid[w], submid |-> job[w], syskey |-> syskey[w],
                          tables |-> pending[w]] \in RunRows
  BY HasJob DEF TypeOK, At, Busy, Labels, RunRows
<1> USE DEF TypeOK, EndTx, txVars, connVars
<1>1. CASE Receive(w) BY <1>1, <1>a, <1>b DEF Receive
<1>2. CASE ReadReport(w) BY <1>2 DEF ReadReport
<1>3. CASE LockSystems(w) BY <1>3 DEF LockSystems
<1>4. CASE FindSystem(w) BY <1>4, <1>a, <1>b DEF FindSystem
<1>5. CASE InsertSystem(w) BY <1>5, <1>a, <1>b DEF InsertSystem
<1>6. CASE FindHost(w) BY <1>6, <1>a, <1>b DEF FindHost
<1>7. CASE InsertHost(w) BY <1>7, <1>a, <1>b DEF InsertHost
<1>8. CASE NewRunId(w) BY <1>8, <1>a, <1>b DEF NewRunId
<1>9. CASE Begin(w) BY <1>9, <1>a, <1>b DEF Begin
<1>10. CASE InsertRun(w)
  <2>1. {"rtevalruns", "rtevalruns_details"} \in SUBSET Tables BY DEF Tables
  <2>2. QED BY <1>10, <1>a, <1>b, <1>e, <2>1 DEF InsertRun, Insert
<1>11. CASE InsertMeasurements(w)
  <2>1. {"measurements"} \in SUBSET Tables BY DEF Tables
  <2>2. QED BY <1>11, <1>a, <1>b, <1>e, <2>1 DEF InsertMeasurements, Insert
<1>12. CASE StatDir(w) BY <1>12 DEF StatDir
<1>13. CASE MakeDir(w) BY <1>13 DEF MakeDir
<1>14. CASE MoveReport(w) BY <1>14 DEF MoveReport
<1>15. CASE Commit(w) BY <1>15, <1>a, <1>b, <1>d DEF Commit, Store, At
<1>16. CASE Rollback(w) BY <1>16, <1>c DEF Rollback, Breaks
<1>17. CASE RecordVerdict(w) BY <1>17, <1>a, <1>b DEF RecordVerdict
<1>18. CASE Ping(w) \/ Lose(w) BY <1>18, <1>c DEF Ping, Lose
<1>19. QED
  BY <1>1, <1>2, <1>3, <1>4, <1>5, <1>6, <1>7, <1>8, <1>9, <1>10, <1>11, <1>12,
     <1>13, <1>14, <1>15, <1>16, <1>17, <1>18 DEF Worker

LEMMA TypeHold ==
  ASSUME TypeOK, HoldInv, NEW w \in Workers, Worker(w) \/ Lose(w)
  PROVE  TypeOK' /\ HoldInv'
<1>1. \A v \in Workers \ {w} : wpc'[v] = wpc[v] /\ wres'[v] = wres[v] /\ conn'[v] = conn[v]
  BY Frame
<1>2. \A v \in Workers : job[v] # NoJob => job[v] \notin queue /\ job[v] \in Submissions
  BY DEF HoldInv, TypeOK
<1>3. /\ job' \in [Workers -> Submissions \cup {NoJob}]
      /\ status' \in [Submissions -> Statuses] /\ queue' \subseteq Submissions
  <2>1. wpc[w] = "final" => wres[w] \in Verdicts BY DEF HoldInv, TypeOK
  <2>2. QED BY JobStep, <2>1 DEF TypeOK, Statuses, queueVars
<1>4. TypeOK' BY <1>3, ControlType, DataType, StoreType, IgnoredStep DEF TypeOK
<1>5. \A v \in Workers : wpc'[v] \in {"rollback", "final"} => wres'[v] # "none"
  BY <1>1, VerdictStep DEF HoldInv
<1>6. /\ \A v \in Workers : job'[v] # NoJob <=> wpc'[v] \in Busy
      /\ \A s \in queue' : status'[s] = "ASSIGNED" /\ ~Unmarked(s)'
      /\ \A v \in Workers : job'[v] # NoJob => /\ status'[job'[v]] \in {"ASSIGNED", "INPROG"}
                                               /\ job'[v] \notin queue'
      /\ \A v \in Workers : MarkedOf(v)'
      /\ \A u, v \in Workers : job'[u] = job'[v] /\ job'[u] # NoJob => u = v
  <2>0. /\ \A s \in queue' : ~Unmarked(s)'
        /\ \A s \in Submissions : Unmarked(s) => Unmarked(s)'
        /\ \A v \in Workers : MarkedOf(v)
    BY IgnoredStep DEF HoldInv, Unmarked
  <2>1. CASE job' = job /\ (wpc[w] \in Busy <=> wpc'[w] \in Busy) /\ UNCHANGED queueVars
    <3>1. \A v \in Workers : MarkedOf(v)'
      BY <1>2, <2>0, <2>1 DEF MarkedOf, Unmarked, queueVars
    <3>2. QED BY <1>1, <2>0, <2>1, <3>1 DEF HoldInv, queueVars
  <2>2. CASE /\ wpc[w] = "idle" /\ wpc'[w] \in Busy /\ job'[w] \in Submissions
             /\ job' = [job EXCEPT ![w] = job'[w]]
             /\ job'[w] \in queue /\ queue' = queue \ {job'[w]}
             /\ wpc'[w] = "read"
             /\ \/ status' = status /\ <<job'[w], "INPROG">> \in ignored'
                \/ status' = [status EXCEPT ![job'[w]] = "INPROG"]
    <3>1. \A v \in Workers \ {w} : job'[v] = job[v] BY <2>2 DEF TypeOK
    <3>2. \A v \in Workers \ {w} : job[v] # job'[w] BY <1>2, <2>2, SubmissionsAssumption
    <3>3. job'[w] # NoJob BY <2>2, SubmissionsAssumption
    <3>4. \A s \in Submissions : s # job'[w] => status'[s] = status[s]
      BY <2>2 DEF TypeOK
    <3>5. \/ status'[job'[w]] = "INPROG"
          \/ status'[job'[w]] = "ASSIGNED" /\ <<job'[w], "INPROG">> \in ignored'
      BY <2>2 DEF TypeOK, HoldInv
    <3>6. MarkedOf(w)' BY <3>5 DEF MarkedOf, Unmarked
    <3>7. \A v \in Workers \ {w} : MarkedOf(v)'
      BY <1>2, <2>0, <3>1, <3>2, <3>4 DEF MarkedOf, Unmarked
    <3>8. \A s \in queue' : status'[s] = "ASSIGNED" BY <2>2, <3>4 DEF HoldInv, TypeOK
    <3>9. QED
      BY <1>1, <1>2, <2>0, <2>2, <3>1, <3>2, <3>3, <3>4, <3>5, <3>6, <3>7, <3>8 DEF HoldInv
  <2>3. CASE /\ wpc[w] = "final" /\ wpc'[w] = "ping" /\ job' = [job EXCEPT ![w] = NoJob]
             /\ queue' = queue
             /\ \/ status' = status
                \/ status' = [status EXCEPT ![job[w]] = wres[w]]
    <3>1. /\ \A v \in Workers \ {w} : job'[v] = job[v] /\ (job[v] # NoJob => job[v] # job[w])
          /\ job'[w] = NoJob /\ job[w] \in Submissions /\ job[w] \notin queue
      BY <1>2, <2>3 DEF HoldInv, TypeOK, Busy, Labels
    <3>2. \A s \in Submissions : s # job[w] => status'[s] = status[s] BY <2>3 DEF TypeOK
    <3>3. \A v \in Workers : MarkedOf(v)'
      BY <1>2, <2>0, <3>1, <3>2 DEF MarkedOf, Unmarked
    <3>4. \A s \in queue' : status'[s] = "ASSIGNED" BY <2>3, <3>1, <3>2 DEF HoldInv, TypeOK
    <3>5. QED
      BY <1>1, <1>2, <2>0, <2>3, <3>1, <3>2, <3>3, <3>4 DEF HoldInv, Busy, Labels
  <2>4. QED BY <2>1, <2>2, <2>3, JobStep
<1>7. HoldInv' BY <1>5, <1>6 DEF HoldInv
<1>8. QED BY <1>4, <1>7


-----------------------------------------------------------------------------
(* The mutex is taken when it is free, and left by its owner. *)
LEMMA LockStep ==
  ASSUME TypeOK, LockCoversRegistration, NEW w \in Workers, Worker(w) \/ Lose(w)
  PROVE  \/ mutex' = mutex /\ (wpc[w] \in Critical <=> wpc'[w] \in Critical)
         \/ mutex = Free /\ mutex' = w /\ wpc'[w] \in Critical
         \/ wpc[w] \in Critical /\ mutex' = Free /\ wpc'[w] \notin Critical
<1> USE FunctionTypes
<1> USE DEF At, Goto, Fail, SystemFails, Critical
<1>1. CASE Receive(w) BY <1>1 DEF Receive
<1>2. CASE ReadReport(w) BY <1>2 DEF ReadReport
<1>3. CASE LockSystems(w) BY <1>3 DEF LockSystems
<1>4. CASE FindSystem(w) BY <1>4 DEF FindSystem
<1>5. CASE InsertSystem(w) BY <1>5 DEF InsertSystem
<1>6. CASE FindHost(w) BY <1>6 DEF FindHost
<1>7. CASE InsertHost(w) BY <1>7 DEF InsertHost
<1>8. CASE NewRunId(w) BY <1>8 DEF NewRunId
<1>9. CASE Begin(w) BY <1>9 DEF Begin
<1>10. CASE InsertRun(w) BY <1>10 DEF InsertRun, Insert
<1>11. CASE InsertMeasurements(w) BY <1>11 DEF InsertMeasurements, Insert
<1>12. CASE StatDir(w) BY <1>12 DEF StatDir
<1>13. CASE MakeDir(w) BY <1>13 DEF MakeDir
<1>14. CASE MoveReport(w) BY <1>14 DEF MoveReport
<1>15. CASE Commit(w) BY <1>15 DEF Commit
<1>16. CASE Rollback(w) BY <1>16 DEF Rollback
<1>17. CASE RecordVerdict(w) BY <1>17 DEF RecordVerdict
<1>18. CASE Ping(w) \/ Lose(w) BY <1>18 DEF Ping, Lose
<1>19. QED
  BY <1>1, <1>2, <1>3, <1>4, <1>5, <1>6, <1>7, <1>8, <1>9, <1>10, <1>11, <1>12,
     <1>13, <1>14, <1>15, <1>16, <1>17, <1>18 DEF Worker

LEMMA LockKept ==
  ASSUME TypeOK, LockCoversRegistration, NEW w \in Workers, Worker(w) \/ Lose(w)
  PROVE  LockCoversRegistration'
BY Frame, LockStep, WorkersAssumption DEF LockCoversRegistration, Critical

(* Every way out of the transaction ends it. *)
LEMMA TxStep ==
  ASSUME TypeOK, NEW w \in Workers, TxInvOf(w), Worker(w) \/ Lose(w)
  PROVE  TxInvOf(w)'
<1> USE FunctionTypes
<1> USE DEF TxInvOf, InTx, At, Goto, Fail, EndTx, jobVars, txVars, connVars
<1>1. CASE Receive(w) BY <1>1 DEF Receive
<1>2. CASE ReadReport(w) BY <1>2 DEF ReadReport
<1>3. CASE LockSystems(w) BY <1>3 DEF LockSystems
<1>4. CASE FindSystem(w) BY <1>4 DEF FindSystem, Succeeds, Fails, Breaks, SystemFails
<1>5. CASE InsertSystem(w) BY <1>5 DEF InsertSystem, Succeeds, Fails, Breaks, SystemFails
<1>6. CASE FindHost(w) BY <1>6 DEF FindHost, Succeeds, Fails, Breaks, SystemFails
<1>7. CASE InsertHost(w) BY <1>7 DEF InsertHost, Succeeds, Fails, Breaks, SystemFails
<1>8. CASE NewRunId(w) BY <1>8 DEF NewRunId, Succeeds, Fails, Breaks, SystemFails
<1>9. CASE Begin(w) BY <1>9 DEF Begin, Succeeds, Fails, Breaks, SystemFails
<1>10. CASE InsertRun(w) BY <1>10 DEF InsertRun, Insert, Succeeds, Fails, Breaks
<1>11. CASE InsertMeasurements(w) BY <1>11 DEF InsertMeasurements, Insert, Succeeds, Fails, Breaks, Tables
<1>12. CASE StatDir(w) BY <1>12 DEF StatDir
<1>13. CASE MakeDir(w) BY <1>13 DEF MakeDir
<1>14. CASE MoveReport(w) BY <1>14 DEF MoveReport
<1>15. CASE Commit(w) BY <1>15 DEF Commit, Succeeds, Fails, Breaks, SystemFails
<1>16. CASE Rollback(w) BY <1>16 DEF Rollback, Succeeds, Fails, Breaks, SystemFails
<1>17. CASE RecordVerdict(w) BY <1>17 DEF RecordVerdict, Succeeds, Fails, Breaks, SystemFails
<1>18. CASE Ping(w) \/ Lose(w) BY <1>18 DEF Ping, Lose
<1>19. QED
  BY <1>1, <1>2, <1>3, <1>4, <1>5, <1>6, <1>7, <1>8, <1>9, <1>10, <1>11, <1>12,
     <1>13, <1>14, <1>15, <1>16, <1>17, <1>18 DEF Worker

LEMMA TxKept ==
  ASSUME TypeOK, TxInv, NEW w \in Workers, Worker(w) \/ Lose(w)
  PROVE  TxInv'
<1>1. TxInvOf(w)' BY TxStep DEF TxInv
<1>2. \A v \in Workers \ {w} : TxInvOf(v)' BY Frame DEF TxInv, TxInvOf
<1>3. QED BY <1>1, <1>2 DEF TxInv

-----------------------------------------------------------------------------
(* A system and a host are only added by a worker that is there. *)
LEMMA SysStep ==
  ASSUME TypeOK, NEW w \in Workers, Worker(w) \/ Lose(w)
  PROVE  \/ UNCHANGED sysVars
         \/ /\ wpc[w] = "addsys" /\ job' = job /\ UNCHANGED hosts
            /\ systems' = Append(systems, System[job[w]])
         \/ /\ wpc[w] = "addhost" /\ job' = job /\ UNCHANGED systems
            /\ hosts' = Append(hosts, [syskey |-> syskey[w], host |-> Host[job[w]]])
<1> USE DEF sysVars, At
<1>1. CASE Receive(w) BY <1>1 DEF Receive
<1>2. CASE ReadReport(w) BY <1>2 DEF ReadReport
<1>3. CASE LockSystems(w) BY <1>3 DEF LockSystems
<1>4. CASE FindSystem(w) BY <1>4 DEF FindSystem
<1>5. CASE InsertSystem(w) BY <1>5 DEF InsertSystem, AddSystem
<1>6. CASE FindHost(w) BY <1>6 DEF FindHost
<1>7. CASE InsertHost(w) BY <1>7 DEF InsertHost, AddHost
<1>8. CASE NewRunId(w) BY <1>8 DEF NewRunId
<1>9. CASE Begin(w) BY <1>9 DEF Begin
<1>10. CASE InsertRun(w) BY <1>10 DEF InsertRun, Insert
<1>11. CASE InsertMeasurements(w) BY <1>11 DEF InsertMeasurements, Insert
<1>12. CASE StatDir(w) BY <1>12 DEF StatDir
<1>13. CASE MakeDir(w) BY <1>13 DEF MakeDir
<1>14. CASE MoveReport(w) BY <1>14 DEF MoveReport
<1>15. CASE Commit(w) BY <1>15 DEF Commit
<1>16. CASE Rollback(w) BY <1>16 DEF Rollback
<1>17. CASE RecordVerdict(w) BY <1>17 DEF RecordVerdict
<1>18. CASE Ping(w) \/ Lose(w) BY <1>18 DEF Ping, Lose
<1>19. QED
  BY <1>1, <1>2, <1>3, <1>4, <1>5, <1>6, <1>7, <1>8, <1>9, <1>10, <1>11, <1>12,
     <1>13, <1>14, <1>15, <1>16, <1>17, <1>18 DEF Worker

LEMMA SystemsGrow ==
  ASSUME TypeOK, HoldInv, NEW w \in Workers, Worker(w) \/ Lose(w)
  PROVE  \A k \in DOMAIN systems : k \in DOMAIN systems' /\ systems'[k] = systems[k]
<1>1. CASE UNCHANGED sysVars BY <1>1 DEF sysVars
<1>2. CASE systems' = Append(systems, System[job[w]]) /\ wpc[w] = "addsys"
  <2>1. System[job[w]] \in {System[s] : s \in Submissions}
    BY <1>2, HasJob DEF Busy, Labels
  <2>2. systems \in Seq({System[s] : s \in Submissions}) BY DEF TypeOK
  <2>3. QED BY <1>2, <2>1, <2>2
<1>3. CASE UNCHANGED systems BY <1>3
<1>4. QED BY <1>1, <1>2, <1>3, SysStep

(* The system of a worker is its own from when it is found or inserted. *)
LEMMA OwnSystem ==
  ASSUME TypeOK, HoldInv, NEW w \in Workers, SysInvOf(w), Worker(w) \/ Lose(w),
         \A i \in DOMAIN hosts : hosts[i].syskey \in DOMAIN systems
  PROVE  SysInvOf(w)'
<1> USE SystemsGrow
<1> USE DEF TypeOK, SysInvOf, HasSystem, InTx, At, Goto, Fail, SystemFails, sysVars, jobVars, Registered
<1>1. CASE Receive(w) BY <1>1 DEF Receive
<1>2. CASE ReadReport(w) BY <1>2 DEF ReadReport
<1>3. CASE LockSystems(w) BY <1>3 DEF LockSystems
<1>4. CASE FindSystem(w) BY <1>4 DEF FindSystem
<1>5. CASE InsertSystem(w)
  <2>1. job' = job /\ UNCHANGED hosts BY <1>5 DEF InsertSystem
  <2>2. \/ wpc'[w] \notin HasSystem \cup {"addsys"}
        \/ /\ wpc'[w] = "addhost" /\ syskey'[w] = Len(systems) + 1
           /\ systems' = Append(systems, System[job[w]])
    BY <1>5 DEF InsertSystem, AddSystem
  <2>3. CASE wpc'[w] \notin HasSystem \cup {"addsys"} BY <2>3
  <2>4. CASE /\ wpc'[w] = "addhost" /\ syskey'[w] = Len(systems) + 1
             /\ systems' = Append(systems, System[job[w]])
    <3>1. syskey'[w] \in DOMAIN systems' /\ systems'[syskey'[w]] = System[job[w]]
      BY <1>5, <2>4, HasJob DEF Busy
    <3>2. \A i \in DOMAIN hosts : hosts[i].syskey # syskey'[w] BY <2>4
    <3>3. QED BY <2>1, <2>4, <3>1, <3>2
  <2>5. QED BY <2>2, <2>3, <2>4
<1>6. CASE FindHost(w)
  <2>1. UNCHANGED <<sysVars, job, syskey>> /\ wpc[w] = "findhost" BY <1>6 DEF FindHost
  <2>2. \/ wpc'[w] \notin {"addsys", "addhost"}
        \/ \A i \in DOMAIN hosts : hosts[i].host # Host[job[w]]
    BY <1>6 DEF FindHost
  <2>3. \A i : [syskey |-> syskey[w], host |-> Host[job[w]]] = hosts[i] =>
               hosts[i].host = Host[job[w]]
    OBVIOUS
  <2>4. wpc'[w] = "addhost" =>
          \A i \in DOMAIN hosts : hosts[i] # [syskey |-> syskey[w], host |-> Host[job[w]]]
    BY <2>2, <2>3
  <2>5. wpc'[w] # "addsys" BY <1>6 DEF FindHost
  <2>6. wpc[w] \in HasSystem BY <2>1
  <2> HIDE DEF HasSystem, TypeOK
  <2>7. QED BY <2>1, <2>4, <2>5, <2>6
<1>7. CASE InsertHost(w) BY <1>7 DEF InsertHost, AddHost
<1>8. CASE NewRunId(w) BY <1>8 DEF NewRunId
<1>9. CASE Begin(w) BY <1>9 DEF Begin
<1>10. CASE InsertRun(w) BY <1>10 DEF InsertRun, Insert
<1>11. CASE InsertMeasurements(w) BY <1>11 DEF InsertMeasurements, Insert
<1>12. CASE StatDir(w) BY <1>12 DEF StatDir
<1>13. CASE MakeDir(w) BY <1>13 DEF MakeDir
<1>14. CASE MoveReport(w) BY <1>14 DEF MoveReport
<1>15. CASE Commit(w) BY <1>15 DEF Commit
<1>16. CASE Rollback(w) BY <1>16 DEF Rollback
<1>17. CASE RecordVerdict(w) BY <1>17 DEF RecordVerdict
<1>18. CASE Ping(w) \/ Lose(w) BY <1>18 DEF Ping, Lose
<1>19. QED
  BY <1>1, <1>2, <1>3, <1>4, <1>5, <1>6, <1>7, <1>8, <1>9, <1>10, <1>11, <1>12,
     <1>13, <1>14, <1>15, <1>16, <1>17, <1>18 DEF Worker

LEMMA SysKept ==
  ASSUME TypeOK, HoldInv, LockCoversRegistration, SysInv,
         NEW w \in Workers, Worker(w) \/ Lose(w)
  PROVE  SysInv'
<1>1. SysInvOf(w)' BY OwnSystem DEF SysInv
<1>2. ASSUME NEW v \in Workers \ {w} PROVE SysInvOf(v)'
  <2>1. /\ wpc'[v] = wpc[v] /\ syskey'[v] = syskey[v] /\ job'[v] = job[v]
        /\ SysInvOf(v)
    BY <1>2, Frame DEF SysInv
  <2>2. wpc[v] \in {"addsys", "addhost"} => wpc[w] \notin {"addsys", "addhost"}
    BY <1>2 DEF LockCoversRegistration
  <2>3. wpc[v] \in {"addsys", "addhost"} => UNCHANGED sysVars BY <2>2, SysStep
  <2>4. QED BY <2>1, <2>3, SystemsGrow DEF SysInvOf, Registered, sysVars
<1>3. RegisteredOnce' /\ \A i \in DOMAIN hosts' : hosts'[i].syskey \in DOMAIN systems'
  <2>0. SysInvOf(w) /\ RegisteredOnce /\ \A i \in DOMAIN hosts : hosts[i].syskey \in DOMAIN systems
    BY DEF SysInv
  <2>1. CASE UNCHANGED sysVars BY <2>0, <2>1 DEF sysVars, RegisteredOnce
  <2>2. CASE /\ wpc[w] = "addsys" /\ job' = job /\ UNCHANGED hosts
             /\ systems' = Append(systems, System[job[w]])
    <3>1. System[job[w]] \in {System[s] : s \in Submissions}
      BY <2>2, HasJob DEF Busy, Labels
    <3>2. /\ DOMAIN systems = 1..Len(systems) /\ Len(systems) \in Nat
          /\ DOMAIN systems' = 1..(Len(systems) + 1)
          /\ systems'[Len(systems) + 1] = System[job[w]]
          /\ \A i \in DOMAIN systems : systems'[i] = systems[i]
      <4>1. systems \in Seq({System[s] : s \in Submissions}) BY DEF TypeOK
      <4>2. QED BY <2>2, <3>1, <4>1
    <3>3. \A i \in DOMAIN systems : systems[i] # System[job[w]]
      BY <2>0, <2>2 DEF SysInvOf, Registered
    <3>4. \A i \in DOMAIN systems' : i \in DOMAIN systems \/ i = Len(systems) + 1 BY <3>2
    <3>5. \A i, j \in DOMAIN systems' : systems'[i] = systems'[j] => i = j
      BY <2>0, <3>2, <3>3, <3>4 DEF RegisteredOnce
    <3>6. \A i \in DOMAIN hosts' : hosts'[i].syskey \in DOMAIN systems' BY <2>0, <2>2, <3>2
    <3>7. QED BY <2>0, <2>2, <3>5, <3>6 DEF RegisteredOnce
  <2>3. CASE /\ wpc[w] = "addhost" /\ job' = job /\ UNCHANGED systems
             /\ hosts' = Append(hosts, [syskey |-> syskey[w], host |-> Host[job[w]]])
    <3> DEFINE h == [syskey |-> syskey[w], host |-> Host[job[w]]]
    <3>1. hosts' = Append(hosts, h) /\ hosts \in Seq(HostRows) /\ Len(hosts) \in Nat
      BY <2>3 DEF TypeOK
    <3>2. \A i \in DOMAIN hosts : hosts[i] # h BY <2>0, <2>3 DEF SysInvOf
    <3>3. h.syskey \in DOMAIN systems' BY <2>0, <2>3 DEF SysInvOf, HasSystem
    <3>4. /\ DOMAIN hosts' = 1..(Len(hosts) + 1) /\ hosts'[Len(hosts) + 1] = h
          /\ \A i \in DOMAIN hosts : hosts'[i] = hosts[i]
          /\ DOMAIN hosts = 1..Len(hosts)
      <4>1. h \in HostRows BY <2>3, HasJob DEF TypeOK, HostRows, Busy, Labels
      <4> HIDE DEF h
      <4>2. QED BY <3>1, <4>1
    <3> HIDE DEF h
    <3>5. \A i \in DOMAIN hosts' : i \in DOMAIN hosts \/ i = Len(hosts) + 1 BY <3>1, <3>4
    <3>6. \A i, j \in DOMAIN hosts' : hosts'[i] = hosts'[j] => i = j
      BY <2>0, <3>2, <3>4, <3>5 DEF RegisteredOnce
    <3>7. \A i \in DOMAIN hosts' : hosts'[i].syskey \in DOMAIN systems'
      BY <2>0, <2>3, <3>3, <3>4, <3>5
    <3>8. QED BY <2>0, <2>3, <3>6, <3>7 DEF RegisteredOnce
  <2>4. QED BY <2>1, <2>2, <2>3, SysStep
<1>4. QED BY <1>1, <1>2, <1>3 DEF SysInv

-----------------------------------------------------------------------------
(* A worker has a run id of its own from the sequence, until it is done. *)
LEMMA OwnId ==
  ASSUME TypeOK, NEW w \in Workers, IdInvOf(w), Worker(w) \/ Lose(w)
  PROVE  IdInvOf(w)'
<1> USE FunctionTypes
<1> USE DEF IdInvOf, HasId, InTx, At, Goto, Fail, SystemFails, jobVars
<1>1. CASE Receive(w) BY <1>1 DEF Receive
<1>2. CASE ReadReport(w) BY <1>2 DEF ReadReport
<1>3. CASE LockSystems(w) BY <1>3 DEF LockSystems
<1>4. CASE FindSystem(w) BY <1>4 DEF FindSystem
<1>5. CASE InsertSystem(w) BY <1>5 DEF InsertSystem
<1>6. CASE FindHost(w) BY <1>6 DEF FindHost
<1>7. CASE InsertHost(w) BY <1>7 DEF InsertHost
<1>8. CASE NewRunId(w)
  <2>1. rterid[w] = 0 /\ lastid \in Nat BY <1>8 DEF NewRunId, TypeOK
  <2>2. \/ wpc'[w] = "begin" /\ rterid'[w] = lastid + 1 /\ lastid' = lastid + 1
        \/ wpc'[w] = "final" /\ rterid'[w] = rterid[w] /\ lastid' \in {lastid, lastid + 1}
    BY <1>8 DEF NewRunId
  <2>3. QED BY <2>1, <2>2
<1>9. CASE Begin(w) BY <1>9 DEF Begin
<1>10. CASE InsertRun(w) BY <1>10 DEF InsertRun, Insert
<1>11. CASE InsertMeasurements(w) BY <1>11 DEF InsertMeasurements, Insert
<1>12. CASE StatDir(w) BY <1>12 DEF StatDir
<1>13. CASE MakeDir(w) BY <1>13 DEF MakeDir
<1>14. CASE MoveReport(w) BY <1>14 DEF MoveReport
<1>15. CASE Commit(w) BY <1>15 DEF Commit
<1>16. CASE Rollback(w) BY <1>16 DEF Rollback
<1>17. CASE RecordVerdict(w) BY <1>17 DEF RecordVerdict, TypeOK
<1>18. CASE Ping(w) \/ Lose(w) BY <1>18 DEF Ping, Lose
<1>19. QED
  BY <1>1, <1>2, <1>3, <1>4, <1>5, <1>6, <1>7, <1>8, <1>9, <1>10, <1>11, <1>12,
     <1>13, <1>14, <1>15, <1>16, <1>17, <1>18 DEF Worker

(* Run ids come from the sequence, and only a worker that moves its report
   makes use of one. *)
LEMMA IdStep ==
  ASSUME TypeOK, NEW w \in Workers, IdInvOf(w), Worker(w) \/ Lose(w)
  PROVE  \/ /\ rterid' = rterid /\ file' = file /\ lastid' \in {lastid, lastid + 1}
            /\ job' = job \/ (rterid[w] = 0 /\ job' = [job EXCEPT ![w] = job'[w]])
         \/ /\ rterid' = [rterid EXCEPT ![w] = lastid + 1] /\ lastid' = lastid + 1
            /\ file' = file /\ job' = job
         \/ /\ rterid' = [rterid EXCEPT ![w] = 0] /\ lastid' = lastid
            /\ file' = file /\ job' = [job EXCEPT ![w] = job'[w]]
         \/ /\ wpc[w] = "move" /\ file' = [file EXCEPT ![job[w]] = rterid[w]]
            /\ UNCHANGED <<rterid, lastid, job>>
<1> USE FunctionTypes
<1> USE DEF IdInvOf, At, fileVars, jobVars
<1>1. CASE Receive(w) BY <1>1 DEF Receive, HasId, InTx
<1>2. CASE ReadReport(w) BY <1>2 DEF ReadReport
<1>3. CASE LockSystems(w) BY <1>3 DEF LockSystems
<1>4. CASE FindSystem(w) BY <1>4 DEF FindSystem
<1>5. CASE InsertSystem(w) BY <1>5 DEF InsertSystem
<1>6. CASE FindHost(w) BY <1>6 DEF FindHost
<1>7. CASE InsertHost(w) BY <1>7 DEF InsertHost
<1>8. CASE NewRunId(w) BY <1>8 DEF NewRunId
<1>9. CASE Begin(w) BY <1>9 DEF Begin
<1>10. CASE InsertRun(w) BY <1>10 DEF InsertRun, Insert
<1>11. CASE InsertMeasurements(w) BY <1>11 DEF InsertMeasurements, Insert
<1>12. CASE StatDir(w) BY <1>12 DEF StatDir
<1>13. CASE MakeDir(w) BY <1>13 DEF MakeDir
<1>14. CASE MoveReport(w) BY <1>14 DEF MoveReport
<1>15. CASE Commit(w) BY <1>15 DEF Commit
<1>16. CASE Rollback(w) BY <1>16 DEF Rollback
<1>17. CASE RecordVerdict(w) BY <1>17 DEF RecordVerdict
<1>18. CASE Ping(w) \/ Lose(w) BY <1>18 DEF Ping, Lose
<1>19. QED
  BY <1>1, <1>2, <1>3, <1>4, <1>5, <1>6, <1>7, <1>8, <1>9, <1>10, <1>11, <1>12,
     <1>13, <1>14, <1>15, <1>16, <1>17, <1>18 DEF Worker

LEMMA IdKept ==
  ASSUME TypeOK, HoldInv, IdInv, NEW w \in Workers, Worker(w) \/ Lose(w)
  PROVE  IdInv'
<1>1. IdInvOf(w)' BY OwnId DEF IdInv
<1>2. \A v \in Workers \ {w} : wpc'[v] = wpc[v] /\ rterid'[v] = rterid[v] BY Frame
<1>3. lastid \in Nat /\ lastid' \in {lastid, lastid + 1} BY IdStep DEF IdInv, TypeOK
<1>4. \A v \in Workers \ {w} : IdInvOf(v)' BY <1>2, <1>3 DEF IdInv, IdInvOf, TypeOK
<1>5. \A v \in Workers : IdInvOf(v) BY DEF IdInv
<1>6. /\ \A u, v \in Workers : rterid'[u] = rterid'[v] /\ rterid'[u] # 0 => u = v
      /\ \A s \in Submissions : file'[s] <= lastid'
      /\ \A s \in Submissions, v \in Workers :
           file'[s] = rterid'[v] /\ file'[s] # 0 => job'[v] = s
      /\ OwnPlace'
  <2>1. CASE /\ rterid' = rterid /\ file' = file /\ lastid' \in {lastid, lastid + 1}
             /\ job' = job \/ (rterid[w] = 0 /\ job' = [job EXCEPT ![w] = job'[w]])
    BY <2>1 DEF IdInv, TypeOK, OwnPlace
  <2>2. CASE /\ rterid' = [rterid EXCEPT ![w] = lastid + 1] /\ lastid' = lastid + 1
             /\ file' = file /\ job' = job
    BY <1>5, <2>2 DEF IdInv, IdInvOf, TypeOK, OwnPlace
  <2>3. CASE /\ rterid' = [rterid EXCEPT ![w] = 0] /\ lastid' = lastid
             /\ file' = file /\ job' = [job EXCEPT ![w] = job'[w]]
    BY <2>3 DEF IdInv, TypeOK, OwnPlace
  <2>4. CASE /\ wpc[w] = "move" /\ file' = [file EXCEPT ![job[w]] = rterid[w]]
             /\ UNCHANGED <<rterid, lastid, job>>
    <3>1. job[w] \in Submissions BY <2>4, HasJob DEF Busy, Labels
    <3>2. QED BY <1>5, <2>4, <3>1 DEF IdInv, IdInvOf, TypeOK, OwnPlace
  <2>5. QED BY <1>5, <2>1, <2>2, <2>3, <2>4, IdStep
<1>7. QED BY <1>1, <1>4, <1>6 DEF IdInv

-----------------------------------------------------------------------------
(* A run is only stored by the COMMIT of its worker, complete and with its
   connection up, and a report only moved before that. *)
LEMMA StoreStep ==
  ASSUME TypeOK, HoldInv, TxInv, NEW w \in Workers, Worker(w) \/ Lose(w)
  PROVE  /\ \/ runs' = runs
            \/ /\ wpc[w] = "commit" /\ pending[w] = Tables
               /\ job' = job /\ file' = file
               /\ runs' = runs \cup {[rterid |-> rterid[w], submid |-> job[w],
                                      syskey |-> syskey[w], tables |-> Tables]}
         /\ \/ file' = file
            \/ /\ wpc[w] = "move" /\ wpc'[w] = "commit" /\ UNCHANGED <<job, rterid, runs>>
               /\ file' = [file EXCEPT ![job[w]] = rterid[w]]
<1> USE DEF fileVars, At
<1>1. CASE Receive(w) BY <1>1 DEF Receive
<1>2. CASE ReadReport(w) BY <1>2 DEF ReadReport
<1>3. CASE LockSystems(w) BY <1>3 DEF LockSystems
<1>4. CASE FindSystem(w) BY <1>4 DEF FindSystem
<1>5. CASE InsertSystem(w) BY <1>5 DEF InsertSystem
<1>6. CASE FindHost(w) BY <1>6 DEF FindHost
<1>7. CASE InsertHost(w) BY <1>7 DEF InsertHost
<1>8. CASE NewRunId(w) BY <1>8 DEF NewRunId
<1>9. CASE Begin(w) BY <1>9 DEF Begin
<1>10. CASE InsertRun(w) BY <1>10 DEF InsertRun, Insert
<1>11. CASE InsertMeasurements(w) BY <1>11 DEF InsertMeasurements, Insert
<1>12. CASE StatDir(w) BY <1>12 DEF StatDir
<1>13. CASE MakeDir(w) BY <1>13 DEF MakeDir
<1>14. CASE MoveReport(w) BY <1>14 DEF MoveReport, TypeOK, Goto, Fail
<1>15. CASE Commit(w) BY <1>15 DEF Commit, Store, Fails, Breaks, Succeeds, TxInv, TxInvOf, InTx
<1>16. CASE Rollback(w) BY <1>16 DEF Rollback
<1>17. CASE RecordVerdict(w) BY <1>17 DEF RecordVerdict
<1>18. CASE Ping(w) \/ Lose(w) BY <1>18 DEF Ping, Lose
<1>19. QED
  BY <1>1, <1>2, <1>3, <1>4, <1>5, <1>6, <1>7, <1>8, <1>9, <1>10, <1>11, <1>12,
     <1>13, <1>14, <1>15, <1>16, <1>17, <1>18 DEF Worker

(* What a worker knows of its report. *)
LEMMA OwnFate ==
  ASSUME TypeOK, HoldInv, TxInv, IdInv, FateInv, NEW w \in Workers, Worker(w) \/ Lose(w)
  PROVE  FateInvOf(w)'
<1>0. /\ FateInvOf(w) /\ (wpc[w] \in Busy => job[w] \in Submissions)
      /\ ignored \subseteq ignored'
  BY HasJob, IgnoredStep DEF FateInv
<1>f. {"SYSREG", "RTERIDREG", "GENDB", "RTEVRUNS", "MEASURE", "REPMOVE", "FTOOBIG", "XMLFAIL"} = Failures
  BY DEF Failures
<1>g. "SUCCESS" \notin Failures BY DEF Failures
<1> USE <1>0, <1>f, <1>g
<1> USE FunctionTypes
<1> USE DEF FateInvOf, Untouched, Stored, At, Goto, Fail, fileVars, Busy, Labels
<1>1. CASE Receive(w)
  <2>1. \A s \in queue : /\ s \in Submissions /\ status[s] = "ASSIGNED"
                         /\ <<s, "INPROG">> \notin ignored
    BY DEF TypeOK, HoldInv, Unmarked
  <2>2. \A s \in queue : Untouched(s) BY <2>1 DEF FateInv, VerdictIsTrue
  <2>3. wpc'[w] = "read" /\ job'[w] \in queue /\ file' = file /\ runs' = runs
    BY <1>1 DEF Receive
  <2>4. QED BY <2>2, <2>3
<1>2. CASE ReadReport(w) BY <1>2 DEF ReadReport, Failures
<1>3. CASE LockSystems(w) BY <1>3 DEF LockSystems, jobVars
<1>4. CASE FindSystem(w) BY <1>4 DEF FindSystem, SystemFails
<1>5. CASE InsertSystem(w) BY <1>5 DEF InsertSystem, SystemFails
<1>6. CASE FindHost(w) BY <1>6 DEF FindHost, SystemFails
<1>7. CASE InsertHost(w) BY <1>7 DEF InsertHost, SystemFails
<1>8. CASE NewRunId(w) BY <1>8 DEF NewRunId, SystemFails
<1>9. CASE Begin(w) BY <1>9 DEF Begin
<1>10. CASE InsertRun(w) BY <1>10 DEF InsertRun, Insert
<1>11. CASE InsertMeasurements(w) BY <1>11 DEF InsertMeasurements, Insert
<1>12. CASE StatDir(w) BY <1>12 DEF StatDir
<1>13. CASE MakeDir(w) BY <1>13 DEF MakeDir
<1>14. CASE MoveReport(w) BY <1>14 DEF MoveReport, Failures
<1>15. CASE Commit(w)
  <2>1. rterid[w] # 0 BY <1>15 DEF Commit, IdInv, IdInvOf, HasId, InTx
  <2>2. /\ wpc'[w] = "final" /\ wres'[w] = "SUCCESS" /\ job' = job /\ file' = file
        /\ wpc[w] = "commit"
    BY <1>15 DEF Commit
  <2>3. (\E r \in runs' : r.submid = job[w]) \/ <<job[w], "COMMIT">> \in ignored'
    <3>1. CASE Store(w)
      <4> DEFINE n == [rterid |-> rterid[w], submid |-> job[w], syskey |-> syskey[w],
                       tables |-> pending[w]]
      <4>1. n \in runs' /\ n.submid = job[w] BY <3>1 DEF Store
      <4>2. QED BY <4>1
    <3>2. CASE ignored' = ignored \cup {<<job[w], "COMMIT">>} BY <3>2
    <3>3. QED BY <1>15, <3>1, <3>2 DEF Commit
  <2>4. QED BY <2>1, <2>2, <2>3
<1>16. CASE Rollback(w) BY <1>16 DEF Rollback, jobVars
<1>17. CASE RecordVerdict(w) BY <1>17 DEF RecordVerdict
<1>18. CASE Ping(w) \/ Lose(w) BY <1>18 DEF Ping, Lose, jobVars
<1>19. QED
  BY <1>1, <1>2, <1>3, <1>4, <1>5, <1>6, <1>7, <1>8, <1>9, <1>10, <1>11, <1>12,
     <1>13, <1>14, <1>15, <1>16, <1>17, <1>18 DEF Worker

LEMMA FateKept ==
  ASSUME IInv, NEW w \in Workers, Worker(w) \/ Lose(w)
  PROVE  FateInv'
<1> USE DEF IInv
<1>1. FateInvOf(w)' BY OwnFate
<1>2. /\ \A v \in Workers \ {w} : wpc'[v] = wpc[v] /\ job'[v] = job[v] /\ wres'[v] = wres[v]
                                /\ rterid'[v] = rterid[v] /\ conn'[v] = conn[v]
      /\ TypeOK' /\ HoldInv'
  BY Frame, TypeHold
<1>3. /\ wpc[w] \in Busy => /\ job[w] \in Submissions
                            /\ status[job[w]] \in {"ASSIGNED", "INPROG"}
      /\ ignored \subseteq ignored'
  BY HasJob, IgnoredStep DEF HoldInv, Busy, Labels
<1>4. /\ \A s \in Submissions : s # job[w] => file'[s] = file[s] /\ (Stored(s)' <=> Stored(s))
      /\ wpc[w] \notin {"commit", "move"} => file' = file /\ runs' = runs
  BY <1>3, StoreStep DEF TypeOK, Busy, Labels, Stored
<1>5. \A v \in Workers \ {w} : FateInvOf(v)'
  <2>1. TAKE v \in Workers \ {w}
  <2>2. CASE wpc[v] \in Busy
    <3>1. job[v] \in Submissions /\ (job[v] # job[w] \/ job[w] = NoJob)
      BY <2>2, HasJob DEF HoldInv
    <3>2. job[w] = NoJob => wpc[w] \notin {"commit", "move"} BY <2>2 DEF HoldInv, Busy, Labels
    <3>3. file'[job[v]] = file[job[v]] /\ (Stored(job[v])' <=> Stored(job[v]))
      <4> HIDE DEF IInv
      <4>0. job'[v] = job[v] BY <1>2
      <4>1. CASE job[v] # job[w] BY <1>4, <3>1, <4>0, <4>1 DEF Stored
      <4>2. CASE wpc[w] \notin {"commit", "move"} BY <1>4, <4>0, <4>2 DEF Stored
      <4>3. QED BY <3>1, <3>2, <4>1, <4>2
    <3>4. FateInvOf(v) BY DEF FateInv
    <3> HIDE DEF IInv
    <3>5. QED
      <4>1. /\ wpc'[v] = wpc[v] /\ job'[v] = job[v] /\ wres'[v] = wres[v]
            /\ rterid'[v] = rterid[v] /\ ignored \subseteq ignored'
        BY <1>2, <1>3
      <4>2. Untouched(job[v]) => (~Stored(job[v])' /\ file'[job[v]] = 0) BY <3>3 DEF Untouched
      <4>3. QED BY <3>3, <3>4, <4>1, <4>2 DEF FateInvOf, Untouched, Stored
  <2>3. CASE wpc[v] \notin Busy BY <1>2, <2>3 DEF FateInvOf, Busy, Labels
  <2>4. QED BY <2>2, <2>3
<1>6. VerdictIsTrue'
  <2>1. SUFFICES ASSUME NEW s \in Submissions
                 PROVE  /\ status'[s] = "SUCCESS" =>
                             file'[s] # 0 /\ (Stored(s)' \/ <<s, "COMMIT">> \in ignored')
                        /\ status'[s] \in Failures => ~Stored(s)' /\ file'[s] = 0
                        /\ status'[s] = "ASSIGNED" =>
                             (~Stored(s)' /\ file'[s] = 0) \/ <<s, "INPROG">> \in ignored'
    BY DEF VerdictIsTrue
  <2>2. /\ status[s] = "SUCCESS" =>
             file[s] # 0 /\ (Stored(s) \/ <<s, "COMMIT">> \in ignored)
        /\ status[s] \in Failures => ~Stored(s) /\ file[s] = 0
        /\ status[s] = "ASSIGNED" =>
             (~Stored(s) /\ file[s] = 0) \/ <<s, "INPROG">> \in ignored
    BY DEF FateInv, VerdictIsTrue
  <2>3. \A v \in Verdicts : v # "SUCCESS" => v \in Failures BY DEF Verdicts
  <2>4. CASE status'[s] = status[s] /\ (s # job[w] \/ wpc[w] \notin {"commit", "move"})
    <3>1. file'[s] = file[s] /\ (Stored(s)' <=> Stored(s)) BY <1>4, <2>4 DEF Stored
    <3>2. ignored \subseteq ignored' BY <1>3
    <3> HIDE DEF IInv
    <3>3. QED BY <2>2, <2>4, <3>1, <3>2
  <2>5. CASE status'[s] = status[s] /\ s = job[w] /\ wpc[w] \in {"commit", "move"}
    <3>1. status[s] \in {"ASSIGNED", "INPROG"} /\ ignored \subseteq ignored'
      BY <1>3, <2>5 DEF Busy, Labels
    <3>2. s # NoJob BY SubmissionsAssumption
    <3>3. status[s] = "ASSIGNED" => <<s, "INPROG">> \in ignored
      BY <2>5, <3>2 DEF HoldInv, MarkedOf, Unmarked
    <3> HIDE DEF IInv
    <3>4. QED BY <2>5, <3>1, <3>3 DEF Failures
  <2>6. CASE status'[s] # status[s]
    <3>1. CASE status'[s] = "INPROG" BY <3>1 DEF Failures
    <3>2. CASE /\ wpc[w] = "final" /\ s = job[w] /\ status'[s] = wres[w]
      <4>1. file' = file /\ runs' = runs BY <1>4, <3>2
      <4>2. FateInvOf(w) /\ ignored \subseteq ignored' BY <1>3 DEF FateInv
      <4>3. wres[w] \in Verdicts BY <3>2 DEF HoldInv, TypeOK
      <4>4. "SUCCESS" \notin Failures /\ "ASSIGNED" \notin Verdicts BY DEF Failures, Verdicts
      <4> HIDE DEF IInv
      <4>5. QED BY <2>3, <3>2, <4>1, <4>2, <4>3, <4>4 DEF FateInvOf, Untouched, Stored
    <3>3. \/ status'[s] = "INPROG"
          \/ wpc[w] = "final" /\ s = job[w] /\ status'[s] = wres[w]
      <4>1. status \in [Submissions -> Statuses] BY DEF TypeOK
      <4> HIDE DEF IInv
      <4>2. QED BY <2>6, <4>1, JobStep DEF queueVars, IInv
    <3>4. QED BY <3>1, <3>2, <3>3
  <2>7. QED BY <2>4, <2>5, <2>6
<1>7. RunsAreTrue'
  <2>1. \A k \in DOMAIN systems : k \in DOMAIN systems' /\ systems'[k] = systems[k]
    BY SystemsGrow
  <2>2. RunsAreTrue /\ FateInvOf(w) BY DEF FateInv
  <2>3. ASSUME NEW r \in runs
        PROVE  /\ file'[r.submid] = r.rterid /\ r.tables = Tables
               /\ r.syskey \in DOMAIN systems' /\ systems'[r.syskey] = System[r.submid]
    <3>1. r.submid \in Submissions BY DEF TypeOK, RunRows
    <3>2. CASE r.submid # job[w] BY <1>4, <2>1, <2>2, <3>1, <3>2 DEF RunsAreTrue
    <3>3. CASE r.submid = job[w]
      <4>1. wpc[w] # "move" BY <2>2, <3>3 DEF FateInvOf, Untouched, Stored, Busy, Labels
      <4>2. file' = file BY <4>1, StoreStep
      <4>3. QED BY <2>1, <2>2, <4>2 DEF RunsAreTrue
    <3>4. QED BY <3>2, <3>3
  <2>4. CASE runs' = runs BY <2>3, <2>4 DEF RunsAreTrue
  <2>5. CASE /\ wpc[w] = "commit" /\ job' = job /\ file' = file
             /\ runs' = runs \cup {[rterid |-> rterid[w], submid |-> job[w],
                                    syskey |-> syskey[w], tables |-> Tables]}
    <3> DEFINE n == [rterid |-> rterid[w], submid |-> job[w], syskey |-> syskey[w],
                     tables |-> Tables]
    <3>1. file[job[w]] = rterid[w] BY <2>2, <2>5 DEF FateInvOf
    <3>2. syskey[w] \in DOMAIN systems /\ systems[syskey[w]] = System[job[w]]
      BY <2>5 DEF SysInv, SysInvOf, HasSystem, InTx
    <3>3. /\ file'[n.submid] = n.rterid /\ n.tables = Tables
          /\ n.syskey \in DOMAIN systems' /\ systems'[n.syskey] = System[n.submid]
      BY <2>1, <2>5, <3>1, <3>2
    <3>4. runs' = runs \cup {n} BY <2>5
    <3> HIDE DEF n
    <3>5. QED BY <2>3, <3>3, <3>4 DEF RunsAreTrue
  <2>6. QED BY <2>4, <2>5, StoreStep
<1>8. QED BY <1>1, <1>5, <1>6, <1>7 DEF FateInv

-----------------------------------------------------------------------------
(* A restart leaves what is in the database and in the files.              *)
LEMMA KillKept == ASSUME IInv, Kill PROVE IInv'
<1> USE DEF Kill, IInv
<1>1. TypeOK'
  <2>1. kills' \in 0..MaxKills BY BoundsAssumption DEF TypeOK
  <2>2. wpc' \in [Workers -> Labels] BY DEF Labels
  <2>3. QED BY <2>1, <2>2 DEF TypeOK, fileVars, sysVars, queueVars
<1>2. HoldInv' BY SubmissionsAssumption DEF HoldInv, MarkedOf, Unmarked, Busy, Labels, queueVars
<1>3. LockCoversRegistration' BY WorkersAssumption DEF LockCoversRegistration
<1>4. TxInv' BY DEF TxInv, TxInvOf, InTx
<1>5. SysInv'
  BY DEF SysInv, SysInvOf, HasSystem, InTx, RegisteredOnce, sysVars
<1>6. IdInv' BY DEF IdInv, IdInvOf, HasId, InTx, OwnPlace, TypeOK, fileVars
<1>7. FateInv'
  BY DEF FateInv, FateInvOf, VerdictIsTrue, RunsAreTrue, Untouched, Stored, Busy,
         Labels, fileVars, sysVars, queueVars
<1>8. QED BY <1>1, <1>2, <1>3, <1>4, <1>5, <1>6, <1>7

LEMMA InitInv == Init => IInv
<1> SUFFICES ASSUME Init PROVE IInv OBVIOUS
<1> USE DEF Init, Idle
<1>1. TypeOK BY BoundsAssumption DEF TypeOK, Labels, Statuses
<1>2. HoldInv BY SubmissionsAssumption DEF HoldInv, MarkedOf, Unmarked, Busy, Labels
<1>3. LockCoversRegistration BY WorkersAssumption DEF LockCoversRegistration
<1>4. TxInv BY DEF TxInv, TxInvOf, InTx
<1>5. SysInv BY DEF SysInv, SysInvOf, HasSystem, InTx, RegisteredOnce
<1>6. IdInv BY DEF IdInv, IdInvOf, HasId, InTx, OwnPlace
<1>7. FateInv
  BY DEF FateInv, FateInvOf, VerdictIsTrue, RunsAreTrue, Untouched, Stored, Busy,
         Labels, Failures
<1>8. QED BY <1>1, <1>2, <1>3, <1>4, <1>5, <1>6, <1>7 DEF IInv

LEMMA StutterInv == ASSUME IInv, UNCHANGED vars PROVE IInv'
<1> USE DEF IInv, vars, fileVars, sysVars, jobVars, txVars, connVars, queueVars
<1>1. TypeOK' /\ LockCoversRegistration' BY DEF TypeOK, LockCoversRegistration
<1>2. HoldInv' BY DEF HoldInv, MarkedOf, Unmarked
<1>3. TxInv' BY DEF TxInv, TxInvOf
<1>4. SysInv' BY DEF SysInv, SysInvOf, RegisteredOnce, Registered
<1>5. IdInv' BY DEF IdInv, IdInvOf, OwnPlace
<1>6. FateInv'
  BY DEF FateInv, FateInvOf, Untouched, VerdictIsTrue, RunsAreTrue, Stored
<1>7. QED BY <1>1, <1>2, <1>3, <1>4, <1>5, <1>6

(* IInv holds in every reachable state.                                    *)
THEOREM Invariance == Spec => []IInv
<1>1. IInv /\ [Next]_vars => IInv'
  <2> SUFFICES ASSUME IInv, [Next]_vars PROVE IInv' OBVIOUS
  <2>1. ASSUME NEW w \in Workers, Worker(w) \/ Lose(w) PROVE IInv'
    BY <2>1, TypeHold, LockKept, TxKept, SysKept, IdKept, FateKept DEF IInv
  <2>2. QED BY <2>1, KillKept, StutterInv DEF Next
<1>2. QED BY InitInv, <1>1, PTL DEF Spec

-----------------------------------------------------------------------------
(* TypeOK: types of the rows, of the files and of the data of the workers  *)
(* (parsethread.c 184-291).                                                *)
THEOREM TypeCorrect == Spec => []TypeOK
BY Invariance, PTL DEF IInv

(* LockCoversRegistration: the mutex is held from the look-up of the       *)
(* system to the run id and on no way out after it (parsethread.c 208-229).*)
THEOREM LockCovers == Spec => []LockCoversRegistration
BY Invariance, PTL DEF IInv

(* RegisteredOnce: no system and no host of it is registered twice, for    *)
(* which the tables have no constraint (pgsql.c 902-905).                  *)
THEOREM Once == Spec => []RegisteredOnce
<1>1. IInv => RegisteredOnce BY DEF IInv, SysInv
<1>2. QED BY <1>1, Invariance, PTL

(* OwnPlace: no report is moved onto another one (parsethread.c 132).      *)
THEOREM OnePlaceEach == Spec => []OwnPlace
<1>1. IInv => OwnPlace BY DEF IInv, IdInv
<1>2. QED BY <1>1, Invariance, PTL

(* RunsAreTrue: a committed run is complete, of its system, and its report *)
(* is where the row says (parsethread.c 237-284).                          *)
THEOREM RunsTrue == Spec => []RunsAreTrue
<1>1. IInv => RunsAreTrue BY DEF IInv, FateInv
<1>2. QED BY <1>1, Invariance, PTL

(* VerdictIsTrue: whatever fails, a verdict in the queue is false of a     *)
(* report only if its COMMIT failed, and a row still assigned only if its  *)
(* first update did: the results of those two are not looked at            *)
(* (parsethread.c 284 and 359).                                            *)
THEOREM VerdictsTrue == Spec => []VerdictIsTrue
<1>1. IInv => VerdictIsTrue BY DEF IInv, FateInv
<1>2. QED BY <1>1, Invariance, PTL

(* NoOpenTransaction: no way out of parse_report() leaves its transaction  *)
(* open (parsethread.c 231-284).                                           *)
THEOREM TransactionsEnd == Spec => []NoOpenTransaction
<1>1. IInv => NoOpenTransaction
  BY DEF IInv, TxInv, TxInvOf, NoOpenTransaction, InTx
<1>2. QED BY <1>1, Invariance, PTL

=============================================================================
