------------------------ MODULE ParserDaemon_proofs ------------------------
(***************************************************************************)
(* Proofs about ParserDaemon, for any submissions, workers, queue size and *)
(* bounds: types, the places of a job, at most one parse of a report, the  *)
(* shutdown messages, and the refinement of SubmissionQueue.               *)
(*                                                                         *)
(* The invariant follows a job: while the main thread, the queue or a      *)
(* worker holds it, its row and the set of parsed reports are known from   *)
(* where it is (JobInv).  Updates that fail are why the row of a report    *)
(* that is parsed may be ASSIGNED or INPROG.                               *)
(***************************************************************************)
EXTENDS ParserDaemon, FiniteSetTheorems, SequenceTheorems, TLAPS

Exiting == {"exit", "stops", "join", "done"}
Handling == {"inprog", "parse", "final"}
Live    == {w \in Workers : wpc[w] \notin {"start", "gone"}}
Blocked == {w \in Workers : Waiting(w)}

MainJob ==
  /\ mpc \in {"assign", "send"} => mjob \in Submissions
  /\ mpc \notin {"assign", "send"} => mjob = Empty
  /\ mpc = "assign" => status[mjob] = "NEW"
  /\ mpc = "send" => status[mjob] = "ASSIGNED" /\ mjob \notin parsed
  /\ mpc \in Exiting => shutdown

QueueJob(i) ==
  /\ mq[i] = Empty => shutdown
  /\ mq[i] # Empty => /\ status[mq[i]] = "ASSIGNED"
                      /\ mq[i] \notin parsed
                      /\ mq[i] # mjob
  /\ \A j \in 1..Len(mq) : mq[i] = mq[j] /\ mq[i] # Empty => i = j

WorkerJob(w) ==
  /\ wpc[w] \in Handling => wjob[w] # Empty
  /\ wpc[w] \notin Handling \cup {"got"} => wjob[w] = Empty
  /\ wpc[w] = "got" /\ wjob[w] = Empty => shutdown
  /\ wjob[w] # Empty =>
       /\ wjob[w] # mjob
       /\ \A i \in 1..Len(mq) : mq[i] # wjob[w]
       /\ \A v \in Workers \ {w} : wjob[v] # wjob[w]
       /\ status[wjob[w]] \in {"ASSIGNED", "INPROG"}
       /\ wpc[w] \in {"got", "inprog"} => status[wjob[w]] = "ASSIGNED"
       /\ wpc[w] \in {"parse", "final"} => status[wjob[w]] = "INPROG" \/ wjob[w] \in missed
       /\ wjob[w] \in parsed <=> wpc[w] = "final"
  /\ wpc[w] = "final" => wres[w] \in Verdicts

JobInv ==
  /\ MainJob
  /\ \A i \in 1..Len(mq) : QueueJob(i)
  /\ \A w \in Workers : WorkerJob(w)
  /\ \A s \in parsed : status[s] \notin {"absent", "NEW"}

CountInv ==
  /\ active = Cardinality(Live)
  /\ mpc \in {"stops", "join"} => Cardinality(Blocked) <= Len(mq) + toSend

IInv == TypeOK /\ JobInv /\ CountInv

-----------------------------------------------------------------------------
(* A statement on one connection: the others stay as they are, and no      *)
(* connection comes up again.                                              *)
LEMMA ExecEffect ==
  ASSUME NEW t \in Threads, NEW ok, NEW done, conn \in [Threads -> BOOLEAN],
         Exec(t, ok, done)
  PROVE  /\ conn' \in [Threads -> BOOLEAN]
         /\ \A u \in Threads : conn'[u] => conn[u]
         /\ \A u \in Threads \ {t} : conn'[u] = conn[u]
         /\ ok => done
         /\ done => conn[t]
         /\ losses \in 0..MaxLosses => losses' \in 0..MaxLosses
<1>1. losses \in 0..MaxLosses => losses' \in 0..MaxLosses
  BY BoundsAssumption DEF Exec
<1>2. QED BY <1>1 DEF Exec

(* Steps that leave the jobs where they are.                               *)
LEMMA JobsKept ==
  ASSUME JobInv, UNCHANGED <<mq, mjob, wjob, wres, parsed, rowVars>>,
         shutdown => shutdown',
         mpc' = mpc \/ {mpc, mpc'} \cap {"assign", "send"} = {},
         mpc' \in Exiting => shutdown',
         \A w \in Workers :
           \/ wpc'[w] = wpc[w]
           \/ {wpc[w], wpc'[w]} \cap (Handling \cup {"got"}) = {}
  PROVE  JobInv'
<1>0. UNCHANGED <<status, missed>> BY DEF rowVars
<1>1. MainJob' BY <1>0 DEF JobInv, MainJob, Exiting
<1>2. \A i \in 1..Len(mq) : QueueJob(i)' BY <1>0 DEF JobInv, QueueJob
<1>3. ASSUME NEW w \in Workers PROVE WorkerJob(w)'
  <2>1. CASE wpc'[w] = wpc[w] BY <1>0, <2>1 DEF JobInv, WorkerJob, Handling
  <2>2. CASE {wpc[w], wpc'[w]} \cap (Handling \cup {"got"}) = {}
    <3>1. wjob[w] = Empty BY <2>2 DEF JobInv, WorkerJob
    <3>2. QED BY <2>2, <3>1 DEF WorkerJob, Handling
  <2>3. QED BY <2>1, <2>2
<1>4. QED BY <1>0, <1>1, <1>2, <1>3 DEF JobInv

(* The main thread without a job in hand, before and after.                *)
LEMMA MainMovesOn ==
  ASSUME TypeOK, JobInv,
         \/ Settle \/ CheckShutdown \/ MainPing \/ Listen \/ Notified \/ WaitReset
         \/ Unlisten \/ CountWorkers \/ StopsSent
  PROVE  JobInv'
<1>1. UNCHANGED <<mq, mjob, wjob, wres, parsed, rowVars, wpc>>
  BY DEF Settle, CheckShutdown, MainPing, Listen, Notified, WaitReset, Unlisten,
         CountWorkers, StopsSent, workerVars, dbVars
<1>2. /\ shutdown => shutdown'
      /\ mpc' \in Exiting => shutdown'
      /\ mpc' = mpc \/ {mpc, mpc'} \cap {"assign", "send"} = {}
  BY DEF Settle, CheckShutdown, MainPing, Listen, Notified, WaitReset, Unlisten,
         CountWorkers, StopsSent, MainAt, MainGoto, GiveUp, Exiting, JobInv, MainJob
<1>3. QED BY <1>1, <1>2, JobsKept

(* The main thread selects a job, or finds none.                           *)
LEMMA SelectKeepsJobs == ASSUME TypeOK, JobInv, Select PROVE JobInv'
<1>2. /\ UNCHANGED <<mq, wjob, wres, parsed, rowVars, wpc>> /\ mpc = "select"
      /\ shutdown => shutdown'
  BY DEF Select, workerVars, dbVars, MainAt, GiveUp
<1>3. UNCHANGED <<status, missed>> BY <1>2 DEF rowVars
<1>4. CASE mjob' = mjob /\ mpc' \in {"exit", "listen"} /\ (mpc' = "exit" => shutdown')
  BY <1>2, <1>4, JobsKept DEF Exiting
<1>5. CASE mjob' \in Submissions /\ status[mjob'] = "NEW" /\ mpc' = "assign"
  <2>1. MainJob' BY <1>2, <1>3, <1>5 DEF MainJob, Exiting
  <2>2. \A i \in 1..Len(mq) : QueueJob(i)' BY <1>2, <1>3, <1>5 DEF JobInv, QueueJob
  <2>3. \A w \in Workers : WorkerJob(w)' BY <1>2, <1>3, <1>5 DEF JobInv, WorkerJob
  <2>4. QED BY <1>2, <1>3, <2>1, <2>2, <2>3 DEF JobInv
<1>6. QED BY <1>4, <1>5 DEF Select, MainGoto, GiveUp

(* The job in hand is assigned, or given up.                               *)
LEMMA AssignKeepsJobs == ASSUME TypeOK, JobInv, Assign PROVE JobInv'
<1>1. "main" \in Threads BY DEF Threads
<1>2. /\ UNCHANGED <<mq, wjob, wres, parsed, missed, wpc>> /\ mpc = "assign"
      /\ mjob \in Submissions /\ status[mjob] = "NEW"
      /\ shutdown => shutdown'
  BY DEF Assign, workerVars, MainAt, GiveUp, JobInv, MainJob
<1>4. \A s \in Submissions \ {mjob} : status'[s] = status[s]
  BY DEF Assign, SetStatus, TypeOK
<1>5. \/ mpc' = "send" /\ mjob' = mjob /\ status'[mjob] = "ASSIGNED"
      \/ mpc' = "exit" /\ mjob' = Empty /\ shutdown'
  BY <1>1, <1>2, ExecEffect DEF Assign, GiveUp, MainGoto, SetStatus, TypeOK
<1>6. mjob \notin parsed /\ status'[mjob] \in {"NEW", "ASSIGNED"} /\ Empty \notin Submissions
  BY <1>2, SubmissionsAssumption DEF JobInv, Assign, SetStatus, TypeOK, Empty
<1>7. MainJob' BY <1>2, <1>5, <1>6 DEF MainJob, Exiting
<1>8. ASSUME NEW i \in 1..Len(mq) PROVE QueueJob(i)'
  <2>1. mq[i] \in Messages BY DEF TypeOK
  <2>2. mq[i] # Empty => mq[i] \in Submissions \ {mjob} BY <2>1 DEF Messages, JobInv, QueueJob
  <2>3. mjob' = mjob \/ mjob' = Empty BY <1>5
  <2>4. QED BY <1>2, <1>4, <2>2, <2>3 DEF JobInv, QueueJob
<1>9. ASSUME NEW w \in Workers PROVE WorkerJob(w)'
  <2>1. wjob[w] # Empty => wjob[w] \in Submissions \ {mjob}
    BY DEF TypeOK, Messages, JobInv, WorkerJob
  <2>2. mjob' = mjob \/ mjob' = Empty BY <1>5
  <2>3. QED BY <1>2, <1>4, <2>1, <2>2 DEF JobInv, WorkerJob
<1>10. \A s \in parsed' : status'[s] \notin {"absent", "NEW"}
  BY <1>2, <1>4, <1>6 DEF JobInv, TypeOK
<1>11. QED BY <1>2, <1>7, <1>8, <1>9, <1>10 DEF JobInv

(* The job in hand goes to the end of the queue.                           *)
LEMMA SendKeepsJobs == ASSUME TypeOK, JobInv, Send PROVE JobInv'
<1>1. /\ UNCHANGED <<wjob, wres, parsed, wpc, status, missed, shutdown>>
      /\ mpc = "send" /\ mpc' = "top" /\ mjob' = Empty /\ mq' = Append(mq, mjob)
      /\ mjob \in Submissions /\ status[mjob] = "ASSIGNED" /\ mjob \notin parsed
  BY DEF Send, workerVars, dbVars, rowVars, MainAt, MainGoto, JobInv, MainJob
<1>2. /\ Len(mq) \in Nat /\ Len(mq') = Len(mq) + 1
      /\ \A i \in 1..Len(mq) : mq'[i] = mq[i] /\ mq[i] # mjob
      /\ mq'[Len(mq) + 1] = mjob
  <2>1. mq \in Seq(Messages) /\ mjob \in Messages BY DEF TypeOK
  <2>2. mjob # Empty BY <1>1, SubmissionsAssumption DEF Empty
  <2>3. \A i \in 1..Len(mq) : mq[i] # mjob BY <2>2 DEF JobInv, QueueJob
  <2>4. QED BY <1>1, <2>1, <2>3, AppendProperties, LenProperties
<1>3. \A i \in 1..Len(mq') : i \in 1..Len(mq) \/ i = Len(mq) + 1 BY <1>2
<1>4. Empty \notin Submissions BY SubmissionsAssumption DEF Empty
<1>5. MainJob' BY <1>1 DEF MainJob, Exiting
<1>6. ASSUME NEW i \in 1..Len(mq') PROVE QueueJob(i)'
  <2>1. CASE i \in 1..Len(mq) BY <1>1, <1>2, <1>3, <1>4, <2>1 DEF JobInv, QueueJob
  <2>2. CASE i = Len(mq) + 1
    <3>1. \A j \in 1..Len(mq') : mq'[i] = mq'[j] => i = j BY <1>2, <1>3, <2>2
    <3>2. QED BY <1>1, <1>2, <1>4, <2>2, <3>1 DEF QueueJob
  <2>3. QED BY <1>3, <2>1, <2>2
<1>7. ASSUME NEW w \in Workers PROVE WorkerJob(w)'
  <2>1. wjob[w] # Empty => \A i \in 1..Len(mq') : mq'[i] # wjob[w]
    BY <1>2, <1>3 DEF JobInv, WorkerJob
  <2>2. QED BY <1>1, <2>1 DEF JobInv, WorkerJob
<1>8. QED BY <1>1, <1>5, <1>6, <1>7 DEF JobInv

(* An empty message is only sent once the daemon is shutting down.         *)
LEMMA SendStopKeepsJobs == ASSUME TypeOK, JobInv, SendStop PROVE JobInv'
<1>1. /\ UNCHANGED <<wjob, wres, parsed, wpc, status, missed, shutdown, mjob, mpc>>
      /\ mpc = "stops" /\ mq' = Append(mq, Empty) /\ shutdown
  BY DEF SendStop, workerVars, dbVars, rowVars, MainAt, JobInv, MainJob, Exiting
<1>2. /\ Len(mq) \in Nat /\ Len(mq') = Len(mq) + 1
      /\ \A i \in 1..Len(mq) : mq'[i] = mq[i]
      /\ mq'[Len(mq) + 1] = Empty
  <2>1. mq \in Seq(Messages) /\ Empty \in Messages BY DEF TypeOK, Messages
  <2>2. QED BY <1>1, <2>1, AppendProperties, LenProperties
<1>3. \A i \in 1..Len(mq') : i \in 1..Len(mq) \/ i = Len(mq) + 1 BY <1>2
<1>4. MainJob' BY <1>1 DEF JobInv, MainJob, Exiting
<1>5. ASSUME NEW i \in 1..Len(mq') PROVE QueueJob(i)'
  BY <1>1, <1>2, <1>3 DEF JobInv, QueueJob
<1>6. ASSUME NEW w \in Workers PROVE WorkerJob(w)'
  BY <1>1, <1>2, <1>3 DEF JobInv, WorkerJob
<1>7. QED BY <1>1, <1>4, <1>5, <1>6 DEF JobInv

(* main() removes the queue when all workers are gone.                     *)
LEMMA JoinKeepsJobs == ASSUME TypeOK, JobInv, Join PROVE JobInv'
<1>1. /\ UNCHANGED <<wjob, wres, parsed, wpc, status, missed, shutdown, mjob>>
      /\ mpc = "join" /\ mpc' = "done" /\ mq' = <<>>
  BY DEF Join, workerVars, dbVars, rowVars, MainAt, MainGoto
<1>2. 1..Len(mq') = {} BY <1>1
<1>3. QED BY <1>1, <1>2 DEF JobInv, MainJob, QueueJob, WorkerJob, Exiting

-----------------------------------------------------------------------------
(* A worker without a job, before and after.                               *)
LEMMA WorkerMovesOn ==
  ASSUME TypeOK, JobInv, NEW w \in Workers,
         Start(w) \/ Check(w) \/ WorkerPing(w) \/ LostDatabase(w) \/ Leave(w)
  PROVE  JobInv'
<1>1. UNCHANGED <<mq, mjob, wjob, wres, parsed, rowVars>>
  BY DEF Start, Check, WorkerPing, LostDatabase, Leave, mainVars, dbVars
<1>2. /\ shutdown => shutdown'
      /\ mpc' = mpc \/ (mpc = "wait" /\ mpc' = "unlisten")
  BY DEF Start, Check, WorkerPing, LostDatabase, Leave, mainVars, Interrupt, MainAt
<1>3. \A v \in Workers \ {w} : wpc'[v] = wpc[v]
  BY DEF Start, Check, WorkerPing, LostDatabase, Leave, Goto, TypeOK
<1>4. {wpc[w], wpc'[w]} \cap (Handling \cup {"got"}) = {}
  BY DEF Start, Check, WorkerPing, LostDatabase, Leave, Goto, At, TypeOK, Handling
<1>5. mpc' \in Exiting => shutdown' BY <1>2 DEF JobInv, MainJob, Exiting
<1>6. QED BY <1>1, <1>2, <1>3, <1>4, <1>5, JobsKept

(* A worker takes the head of the queue.                                   *)
LEMMA ReceiveKeepsJobs ==
  ASSUME TypeOK, JobInv, NEW w \in Workers, Receive(w)
  PROVE  JobInv'
<1>1. /\ UNCHANGED <<wres, parsed, status, missed, shutdown, mjob, mpc>>
      /\ wpc[w] = "recv" /\ wpc' = [wpc EXCEPT ![w] = "got"]
      /\ wjob' = [wjob EXCEPT ![w] = Head(mq)] /\ mq' = Tail(mq) /\ mq # <<>>
  BY DEF Receive, mainVars, dbVars, rowVars, At, Goto
<1>2. /\ Len(mq) \in Nat \ {0} /\ Len(mq') = Len(mq) - 1
      /\ Head(mq) = mq[1] /\ mq[1] \in Messages
      /\ \A i \in 1..Len(mq') : mq'[i] = mq[i + 1] /\ i + 1 \in 1..Len(mq)
  <2>1. mq \in Seq(Messages) BY DEF TypeOK
  <2>2. QED BY <1>1, <2>1, HeadTailProperties, EmptySeq, LenProperties
<1>3. 1 \in 1..Len(mq) BY <1>2
<1>4. /\ wjob'[w] = mq[1] /\ wpc'[w] = "got"
      /\ \A v \in Workers \ {w} : wjob'[v] = wjob[v] /\ wpc'[v] = wpc[v]
  BY <1>1, <1>2 DEF TypeOK
<1>5. MainJob' BY <1>1 DEF JobInv, MainJob
<1>6. ASSUME NEW i \in 1..Len(mq') PROVE QueueJob(i)'
  <2>1. ASSUME NEW j \in 1..Len(mq'), mq'[i] = mq'[j], mq'[i] # Empty PROVE i = j
    <3>1. i + 1 = j + 1 BY <1>2, <2>1 DEF JobInv, QueueJob
    <3>2. QED BY <3>1
  <2>2. QED BY <1>1, <1>2, <2>1 DEF JobInv, QueueJob
<1>7. QueueJob(1) BY <1>3 DEF JobInv
<1>8. ASSUME mq[1] # Empty, NEW i \in 1..Len(mq') PROVE mq'[i] # mq[1]
  <2>1. i + 1 # 1 /\ mq'[i] = mq[i + 1] /\ i + 1 \in 1..Len(mq) BY <1>2
  <2>2. QED BY <1>7, <1>8, <2>1 DEF QueueJob
<1>9. WorkerJob(w)'
  <2>1. \A v \in Workers \ {w} : mq[1] # Empty => wjob[v] # mq[1]
    BY <1>3 DEF JobInv, WorkerJob
  <2>2. QED BY <1>1, <1>4, <1>7, <1>8, <2>1 DEF QueueJob, WorkerJob, Handling
<1>10. ASSUME NEW v \in Workers \ {w} PROVE WorkerJob(v)'
  <2>1. WorkerJob(v) BY DEF JobInv
  <2>2. wjob[v] # Empty => wjob[v] # mq[1] BY <1>3, <2>1 DEF WorkerJob
  <2>3. wjob[v] # Empty => \A i \in 1..Len(mq') : mq'[i] # wjob[v]
    BY <1>2, <2>1 DEF WorkerJob
  <2>4. wjob[v] # Empty => \A u \in Workers \ {v} : wjob'[u] # wjob'[v]
    BY <1>4, <2>1, <2>2 DEF WorkerJob
  <2>5. QED BY <1>1, <1>4, <2>1, <2>3, <2>4 DEF WorkerJob
<1>11. QED BY <1>1, <1>5, <1>6, <1>9, <1>10 DEF JobInv

(* A worker goes on with what it received, or drops it.                    *)
LEMMA GotKeepsJobs ==
  ASSUME TypeOK, JobInv, NEW w \in Workers, Got(w)
  PROVE  JobInv'
<1>1. /\ UNCHANGED <<mq, wres, parsed, status, missed, shutdown, mjob, mpc>>
      /\ wpc[w] = "got"
  BY DEF Got, mainVars, dbVars, rowVars, At
<1>2. /\ \A v \in Workers \ {w} : wjob'[v] = wjob[v] /\ wpc'[v] = wpc[v]
      /\ \/ wpc'[w] = "dec" /\ wjob'[w] = Empty
         \/ wpc'[w] = "inprog" /\ wjob'[w] = wjob[w] /\ ~shutdown
  BY DEF Got, Goto, TypeOK
<1>3. MainJob' BY <1>1 DEF JobInv, MainJob
<1>4. \A i \in 1..Len(mq') : QueueJob(i)' BY <1>1 DEF JobInv, QueueJob
<1>5. WorkerJob(w)'
  <2>1. CASE wjob'[w] = Empty /\ wpc'[w] = "dec" BY <2>1 DEF WorkerJob, Handling
  <2>2. CASE wjob'[w] = wjob[w] /\ wpc'[w] = "inprog" /\ ~shutdown
    BY <1>1, <1>2, <2>2 DEF JobInv, WorkerJob, Handling
  <2>3. QED BY <1>2, <2>1, <2>2
<1>6. ASSUME NEW v \in Workers \ {w} PROVE WorkerJob(v)'
  BY <1>1, <1>2 DEF JobInv, WorkerJob
<1>7. QED BY <1>1, <1>3, <1>4, <1>5, <1>6 DEF JobInv

(* The two steps of a worker that write the row of its job: other rows     *)
(* stay as they are.                                                       *)
LEMMA WriteEffect ==
  ASSUME TypeOK, JobInv, NEW w \in Workers, MarkInProgress(w) \/ RecordVerdict(w)
  PROVE  /\ UNCHANGED <<mq, parsed, shutdown, mjob, mpc>>
         /\ wjob[w] \in Submissions
         /\ \A s \in Submissions \ {wjob[w]} :
              status'[s] = status[s] /\ (s \in missed' <=> s \in missed)
         /\ \A v \in Workers \ {w} : /\ wjob'[v] = wjob[v] /\ wpc'[v] = wpc[v]
                                     /\ wres'[v] = wres[v]
         /\ missed' \in SUBSET Submissions
         /\ wjob[w] \in missed' => UNCHANGED status
         /\ wjob[w] \notin missed' =>
              status'[wjob[w]] = IF MarkInProgress(w) THEN "INPROG" ELSE wres[w]
<1>1. wjob[w] \in Submissions
  BY DEF TypeOK, Messages, JobInv, WorkerJob, MarkInProgress, RecordVerdict, At, Handling
<1>2. wpc[w] = IF MarkInProgress(w) THEN "inprog" ELSE "final"
  BY DEF MarkInProgress, RecordVerdict, At
<1>3. PICK st : Update(w, st) /\ st = IF MarkInProgress(w) THEN "INPROG" ELSE wres[w]
  BY <1>2 DEF MarkInProgress, RecordVerdict, At
<1>4. /\ \A s \in Submissions \ {wjob[w]} :
           status'[s] = status[s] /\ (s \in missed' <=> s \in missed)
      /\ missed' \in SUBSET Submissions
      /\ wjob[w] \in missed' => UNCHANGED status
      /\ wjob[w] \notin missed' => status'[wjob[w]] = st
  BY <1>1, <1>3 DEF Update, SetStatus, TypeOK
<1>5. QED
  BY <1>1, <1>3, <1>4 DEF MarkInProgress, RecordVerdict, mainVars, Goto, TypeOK

(* What such a step leaves intact: everything but the worker's own job.    *)
LEMMA WriteKeepsOthers ==
  ASSUME TypeOK, JobInv, NEW w \in Workers, MarkInProgress(w) \/ RecordVerdict(w)
  PROVE  /\ MainJob'
         /\ \A i \in 1..Len(mq') : QueueJob(i)'
         /\ \A s \in parsed' \ {wjob[w]} : status'[s] \notin {"absent", "NEW"}
<1>1. /\ UNCHANGED <<mq, parsed, shutdown, mjob, mpc>> /\ wjob[w] \in Submissions
      /\ \A s \in Submissions \ {wjob[w]} : status'[s] = status[s]
  BY WriteEffect
<1>2. Empty \notin Submissions BY SubmissionsAssumption DEF Empty
<1>3. mjob # wjob[w] /\ \A i \in 1..Len(mq) : mq[i] # wjob[w]
  BY <1>1, <1>2 DEF JobInv, WorkerJob
<1>4. MainJob' BY <1>1, <1>3 DEF JobInv, MainJob
<1>5. ASSUME NEW i \in 1..Len(mq') PROVE QueueJob(i)'
  <2>1. mq[i] \in Messages BY <1>1 DEF TypeOK
  <2>2. mq[i] # Empty => mq[i] \in Submissions \ {wjob[w]} BY <1>1, <1>3, <2>1 DEF Messages
  <2>3. QED BY <1>1, <2>2 DEF JobInv, QueueJob
<1>6. QED BY <1>1, <1>4, <1>5 DEF JobInv, TypeOK

(* The job is marked as in progress, or the update is missed.              *)
LEMMA MarkKeepsJobs ==
  ASSUME TypeOK, JobInv, NEW w \in Workers, MarkInProgress(w)
  PROVE  JobInv'
<1>1. /\ UNCHANGED <<mq, parsed, shutdown, mjob, mpc>> /\ wjob[w] \in Submissions
      /\ \A s \in Submissions \ {wjob[w]} :
           status'[s] = status[s] /\ (s \in missed' <=> s \in missed)
      /\ \A v \in Workers \ {w} : /\ wjob'[v] = wjob[v] /\ wpc'[v] = wpc[v]
                                  /\ wres'[v] = wres[v]
  BY WriteEffect
<1>2. /\ wpc[w] = "inprog" /\ wpc'[w] = "parse" /\ wjob' = wjob /\ wres' = wres
  BY DEF MarkInProgress, At, Goto, TypeOK
<1>3. Empty \notin Submissions BY SubmissionsAssumption DEF Empty
<1>4. WorkerJob(w) BY DEF JobInv
<1>5. /\ status'[wjob[w]] \in {"ASSIGNED", "INPROG"}
      /\ status'[wjob[w]] = "INPROG" \/ wjob[w] \in missed'
  BY <1>1, <1>2, <1>3, <1>4, WriteEffect DEF WorkerJob
<1>6. WorkerJob(w)' BY <1>1, <1>2, <1>3, <1>4, <1>5 DEF WorkerJob, Handling
<1>7. ASSUME NEW v \in Workers \ {w} PROVE WorkerJob(v)'
  <2>1. WorkerJob(v) BY DEF JobInv
  <2>2. wjob[v] # Empty => wjob[v] \in Submissions \ {wjob[w]}
    BY <1>1, <1>3, <2>1 DEF WorkerJob, TypeOK, Messages
  <2>3. QED BY <1>1, <1>2, <2>1, <2>2 DEF WorkerJob
<1>8. wjob[w] \notin parsed BY <1>1, <1>2, <1>3, <1>4 DEF WorkerJob
<1>9. QED BY <1>1, <1>6, <1>7, <1>8, WriteKeepsOthers DEF JobInv

(* A report is parsed by the one worker that holds its job.                *)
LEMMA ParseKeepsJobs ==
  ASSUME TypeOK, JobInv, NEW w \in Workers, Parse(w)
  PROVE  JobInv'
<1>1. /\ UNCHANGED <<mq, wjob, status, missed, shutdown, mjob, mpc>>
      /\ wpc[w] = "parse" /\ wpc'[w] = "final" /\ parsed' = parsed \cup {wjob[w]}
      /\ wres'[w] \in Verdicts
      /\ \A v \in Workers \ {w} : wpc'[v] = wpc[v] /\ wres'[v] = wres[v]
  BY DEF Parse, mainVars, dbVars, rowVars, At, Goto, TypeOK
<1>2. /\ WorkerJob(w) /\ wjob[w] # Empty
  BY <1>1 DEF JobInv, WorkerJob, Handling
<1>3. MainJob' BY <1>1, <1>2, SubmissionsAssumption DEF JobInv, MainJob, WorkerJob, Empty
<1>4. ASSUME NEW i \in 1..Len(mq') PROVE QueueJob(i)'
  BY <1>1, <1>2 DEF JobInv, QueueJob, WorkerJob
<1>5. WorkerJob(w)' BY <1>1, <1>2 DEF WorkerJob, Handling
<1>6. ASSUME NEW v \in Workers \ {w} PROVE WorkerJob(v)'
  BY <1>1, <1>2 DEF JobInv, WorkerJob
<1>7. QED BY <1>1, <1>2, <1>3, <1>4, <1>5, <1>6 DEF JobInv, WorkerJob

(* A verdict is recorded, or the update is missed, and the job is done.    *)
LEMMA RecordKeepsJobs ==
  ASSUME TypeOK, JobInv, NEW w \in Workers, RecordVerdict(w)
  PROVE  JobInv'
<1>1. /\ UNCHANGED <<mq, parsed, shutdown, mjob, mpc>> /\ wjob[w] \in Submissions
      /\ \A s \in Submissions \ {wjob[w]} :
           status'[s] = status[s] /\ (s \in missed' <=> s \in missed)
      /\ \A v \in Workers \ {w} : /\ wjob'[v] = wjob[v] /\ wpc'[v] = wpc[v]
                                  /\ wres'[v] = wres[v]
  BY WriteEffect
<1>2. wpc[w] = "final" /\ wpc'[w] = "top" /\ wjob'[w] = Empty
  BY DEF RecordVerdict, At, Goto, TypeOK
<1>3. Empty \notin Submissions BY SubmissionsAssumption DEF Empty
<1>4. WorkerJob(w) BY DEF JobInv
<1>5. status'[wjob[w]] \in {"ASSIGNED", "INPROG"} \cup Verdicts
  BY <1>1, <1>2, <1>3, <1>4, WriteEffect DEF MarkInProgress, At, WorkerJob
<1>6. WorkerJob(w)' BY <1>2 DEF WorkerJob, Handling
<1>7. ASSUME NEW v \in Workers \ {w} PROVE WorkerJob(v)'
  <2>1. WorkerJob(v) BY DEF JobInv
  <2>2. wjob[v] # Empty => wjob[v] \in Submissions \ {wjob[w]}
    BY <1>1, <1>3, <2>1 DEF WorkerJob, TypeOK, Messages
  <2>3. wjob[v] # Empty => \A u \in Workers \ {v} : wjob'[u] # wjob'[v]
    BY <1>1, <1>2, <2>1 DEF WorkerJob
  <2>4. QED BY <1>1, <1>2, <2>1, <2>2, <2>3 DEF WorkerJob
<1>8. QED BY <1>1, <1>5, <1>6, <1>7, WriteKeepsOthers DEF JobInv, Verdicts

-----------------------------------------------------------------------------
(* A new row is the row of a submission nobody holds.                      *)
LEMMA SubmitKeepsJobs ==
  ASSUME TypeOK, JobInv, NEW s \in Submissions, Submit(s)
  PROVE  JobInv'
<1>1. /\ UNCHANGED <<mq, wjob, wres, parsed, missed, wpc, shutdown, mjob, mpc>>
      /\ status[s] = "absent"
      /\ status'[s] = "NEW" /\ \A t \in Submissions \ {s} : status'[t] = status[t]
  BY DEF Submit, mainVars, workerVars, TypeOK
<1>2. MainJob' BY <1>1 DEF JobInv, MainJob
<1>3. ASSUME NEW i \in 1..Len(mq') PROVE QueueJob(i)'
  <2>1. mq[i] \in Messages BY <1>1 DEF TypeOK
  <2>2. QED BY <1>1, <2>1 DEF JobInv, QueueJob, Messages
<1>4. ASSUME NEW w \in Workers PROVE WorkerJob(w)'
  <2>1. wjob[w] \in Messages BY DEF TypeOK
  <2>2. QED BY <1>1, <2>1 DEF JobInv, WorkerJob, Messages
<1>5. QED BY <1>1, <1>2, <1>3, <1>4 DEF JobInv, TypeOK

(* Signals and lost connections.                                           *)
LEMMA EnvironmentKeepsJobs ==
  ASSUME TypeOK, JobInv, Signal \/ \E t \in Threads : Lose(t)
  PROVE  JobInv'
<1>1. UNCHANGED <<mq, mjob, wjob, wres, parsed, rowVars, wpc>>
  BY DEF Signal, Lose, mainVars, dbVars, workerVars
<1>2. /\ shutdown => shutdown'
      /\ mpc' \in Exiting => shutdown'
      /\ mpc' = mpc \/ (mpc = "wait" /\ mpc' = "unlisten")
  BY DEF Signal, Lose, mainVars, Interrupt, MainAt, JobInv, MainJob, Exiting
<1>3. QED BY <1>1, <1>2, JobsKept

(* Every step keeps the jobs where they belong.                            *)
LEMMA JobsPreserved == ASSUME TypeOK, JobInv, [Next]_vars PROVE JobInv'
<1>1. CASE UNCHANGED vars
  BY <1>1, JobsKept
  DEF vars, mainVars, dbVars, workerVars, JobInv, MainJob
<1>2. CASE Main
  BY <1>2, MainMovesOn, SelectKeepsJobs, AssignKeepsJobs, SendKeepsJobs,
     SendStopKeepsJobs, JoinKeepsJobs DEF Main
<1>3. ASSUME NEW w \in Workers, Worker(w) PROVE JobInv'
  BY <1>3, WorkerMovesOn, ReceiveKeepsJobs, GotKeepsJobs, MarkKeepsJobs,
     ParseKeepsJobs, RecordKeepsJobs DEF Worker
<1>4. CASE Environment
  BY <1>4, SubmitKeepsJobs, EnvironmentKeepsJobs DEF Environment
<1>5. QED BY <1>1, <1>2, <1>3, <1>4 DEF Next

-----------------------------------------------------------------------------
LEMMA WorkersCount ==
  ASSUME NEW S \in SUBSET Workers
  PROVE  IsFiniteSet(S) /\ Cardinality(S) \in 0..Cardinality(Workers)
<1>1. IsFiniteSet(Workers) BY WorkersAssumption
<1>2. IsFiniteSet(S) /\ Cardinality(S) <= Cardinality(Workers) BY <1>1, FS_Subset
<1>3. Cardinality(S) \in Nat /\ Cardinality(Workers) \in Nat
  BY <1>1, <1>2, FS_CardinalityType
<1>4. QED BY <1>2, <1>3

(* Nobody but a worker itself changes where it is.                         *)
LEMMA OnlyWorkersMove ==
  ASSUME Main \/ Environment \/ UNCHANGED vars
  PROVE  UNCHANGED <<wpc, active>>
BY DEF Main, Environment, vars, workerVars, Settle, CheckShutdown, MainPing, Select,
       Assign, Send, Listen, Notified, WaitReset, Unlisten, CountWorkers, SendStop,
       StopsSent, Join, Signal, Submit, Lose

(* activethreads is the number of workers that have started and not left.  *)
LEMMA LiveCount ==
  ASSUME TypeOK, active = Cardinality(Live), [Next]_vars
  PROVE  active' = Cardinality(Live')
<1>1. CASE Main \/ Environment \/ UNCHANGED vars
  BY <1>1, OnlyWorkersMove DEF Live
<1>2. ASSUME NEW w \in Workers, Worker(w) PROVE active' = Cardinality(Live')
  <2>1. Live \in SUBSET Workers BY DEF Live
  <2>2. IsFiniteSet(Live) /\ Cardinality(Live) \in Nat
    BY <2>1, WorkersCount, FS_CardinalityType
  <2>3. CASE Start(w)
    <3>1. Live' = Live \cup {w} /\ w \notin Live
      BY <2>3 DEF Start, At, Goto, Live, TypeOK
    <3>2. Cardinality(Live') = Cardinality(Live) + 1 BY <2>2, <3>1, FS_AddElement
    <3>3. QED BY <2>3, <3>2 DEF Start
  <2>4. CASE Leave(w)
    <3>1. Live' = Live \ {w} /\ w \in Live
      BY <2>4 DEF Leave, At, Goto, Live, TypeOK
    <3>2. Cardinality(Live') = Cardinality(Live) - 1 BY <2>2, <3>1, FS_RemoveElement
    <3>3. QED BY <2>4, <3>2 DEF Leave
  <2>5. CASE \/ Check(w) \/ WorkerPing(w) \/ LostDatabase(w) \/ Receive(w) \/ Got(w)
             \/ MarkInProgress(w) \/ Parse(w) \/ RecordVerdict(w)
    <3>1. /\ wpc[w] \notin {"start", "gone"} /\ wpc'[w] \notin {"start", "gone"}
          /\ \A v \in Workers \ {w} : wpc'[v] = wpc[v]
          /\ active' = active
      BY <2>5 DEF Check, WorkerPing, LostDatabase, Receive, Got, MarkInProgress, Parse,
                  RecordVerdict, At, Goto, TypeOK
    <3>2. Live' = Live BY <3>1 DEF Live
    <3>3. QED BY <3>1, <3>2
  <2>6. QED BY <1>2, <2>3, <2>4, <2>5 DEF Worker
<1>3. QED BY <1>1, <1>2 DEF Next

(* During the shutdown no worker enters mq_receive(), and one that leaves  *)
(* it takes one message.                                                   *)
LEMMA BlockedStep ==
  ASSUME TypeOK, JobInv, NEW w \in Workers, Worker(w), mpc \in {"stops", "join"}
  PROVE  /\ mpc' = mpc /\ toSend' = toSend
         /\ \/ Blocked' \subseteq Blocked /\ mq' = mq
            \/ w \in Blocked /\ Blocked' = Blocked \ {w} /\ mq # <<>> /\ mq' = Tail(mq)
<1>1. shutdown BY DEF JobInv, MainJob, Exiting
<1>2. /\ mpc' = mpc /\ toSend' = toSend
  BY DEF Worker, Start, Check, WorkerPing, LostDatabase, Receive, Got, MarkInProgress,
         Parse, RecordVerdict, Leave, mainVars, Interrupt, MainAt
<1>3. CASE Receive(w)
  <2>1. /\ wpc[w] = "recv" /\ wpc'[w] = "got" /\ mq # <<>> /\ mq' = Tail(mq)
        /\ \A v \in Workers \ {w} : wpc'[v] = wpc[v]
    BY <1>3 DEF Receive, At, Goto, TypeOK
  <2>2. w \in Blocked /\ Blocked' = Blocked \ {w} BY <2>1 DEF Blocked, Waiting
  <2>3. QED BY <1>2, <2>1, <2>2
<1>4. CASE ~Receive(w)
  <2>1. mq' = mq
    BY <1>4 DEF Worker, Start, Check, WorkerPing, LostDatabase, Got, MarkInProgress,
                Parse, RecordVerdict, Leave
  <2>2. /\ wpc'[w] \in {"ping", "recv"} => wpc[w] \in {"ping", "recv"}
        /\ \A v \in Workers \ {w} : wpc'[v] = wpc[v]
    BY <1>1, <1>4 DEF Worker, Start, Check, WorkerPing, LostDatabase, Got,
                      MarkInProgress, Parse, RecordVerdict, Leave, At, Goto, TypeOK
  <2>3. Blocked' \subseteq Blocked BY <2>2 DEF Blocked, Waiting
  <2>4. QED BY <1>2, <2>1, <2>3
<1>5. QED BY <1>3, <1>4

(* No worker is left in mq_receive() without a message to come.            *)
LEMMA BlockedCount ==
  ASSUME TypeOK, JobInv, CountInv, [Next]_vars, mpc' \in {"stops", "join"}
  PROVE  Cardinality(Blocked') <= Len(mq') + toSend'
<1>1. /\ Blocked \in SUBSET Workers /\ Blocked' \in SUBSET Workers
      /\ Live \in SUBSET Workers /\ Blocked \subseteq Live
  BY DEF Blocked, Live, Waiting
<1>2. /\ IsFiniteSet(Blocked) /\ Cardinality(Blocked) \in Nat
      /\ IsFiniteSet(Blocked') /\ Cardinality(Blocked') \in Nat
      /\ IsFiniteSet(Live) /\ Cardinality(Live) \in Nat
  BY <1>1, WorkersCount, FS_CardinalityType
<1>3. Cardinality(Blocked) <= Cardinality(Live) BY <1>1, <1>2, FS_Subset
<1>4. mq \in Seq(Messages) /\ Len(mq) \in Nat /\ toSend \in Nat
  <2>1. mq \in Seq(Messages) /\ toSend \in 0..Cardinality(Workers) BY DEF TypeOK
  <2>2. QED BY <2>1, LenProperties
<1>5. CASE UNCHANGED vars
  BY <1>5 DEF vars, mainVars, workerVars, CountInv, Blocked, Waiting
<1>6. CASE Main
  <2>1. Blocked' = Blocked BY <1>6, OnlyWorkersMove DEF Blocked, Waiting
  <2>2. CASE CountWorkers
    BY <1>2, <1>3, <1>4, <2>1, <2>2 DEF CountWorkers, CountInv
  <2>3. CASE SendStop
    <3>1. Empty \in Messages BY DEF Messages
    <3>2. Len(mq') = Len(mq) + 1 BY <1>4, <2>3, <3>1, AppendProperties DEF SendStop
    <3>3. QED BY <1>2, <1>4, <2>1, <2>3, <3>2 DEF SendStop, MainAt, CountInv
  <2>4. CASE StopsSent
    BY <2>1, <2>4 DEF StopsSent, MainAt, CountInv
  <2>5. QED
    BY <1>6, <2>2, <2>3, <2>4 DEF Main, Settle, CheckShutdown, MainPing, Select, Assign,
       Send, Listen, Notified, WaitReset, Unlisten, Join, MainAt, MainGoto, GiveUp
<1>7. ASSUME NEW w \in Workers, Worker(w)
      PROVE  Cardinality(Blocked') <= Len(mq') + toSend'
  <2>1. mpc \in {"stops", "join"}
    BY <1>7 DEF Worker, Start, Check, WorkerPing, LostDatabase, Receive, Got,
       MarkInProgress, Parse, RecordVerdict, Leave, mainVars, Interrupt, MainAt
  <2>2. toSend' = toSend /\ Cardinality(Blocked) <= Len(mq) + toSend
    BY <1>7, <2>1, BlockedStep DEF CountInv
  <2>3. CASE Blocked' \subseteq Blocked /\ mq' = mq
    <3>1. Cardinality(Blocked') <= Cardinality(Blocked) BY <1>2, <2>3, FS_Subset
    <3>2. QED BY <1>2, <1>4, <2>2, <2>3, <3>1
  <2>4. CASE w \in Blocked /\ Blocked' = Blocked \ {w} /\ mq # <<>> /\ mq' = Tail(mq)
    <3>1. Cardinality(Blocked') = Cardinality(Blocked) - 1
      BY <1>2, <2>4, FS_RemoveElement
    <3>2. Len(mq') = Len(mq) - 1 BY <1>4, <2>4, HeadTailProperties
    <3>3. QED BY <1>2, <1>4, <2>2, <3>1, <3>2
  <2>5. QED BY <1>7, <2>1, <2>3, <2>4, BlockedStep
<1>8. CASE Environment
  <2>1. Blocked' = Blocked BY <1>8, OnlyWorkersMove DEF Blocked, Waiting
  <2>2. /\ mpc \in {"stops", "join"} /\ UNCHANGED <<mq, toSend>>
    BY <1>8 DEF Environment, Signal, Submit, Lose, mainVars, Interrupt, MainAt
  <2>3. QED BY <2>1, <2>2 DEF CountInv
<1>9. QED BY <1>5, <1>6, <1>7, <1>8 DEF Next

-----------------------------------------------------------------------------
(* Types: the main thread, ...                                             *)
LEMMA MainTypes ==
  ASSUME TypeOK, JobInv, CountInv, active' \in 0..Cardinality(Workers), Main
  PROVE  TypeOK'
<1>1. "main" \in Threads /\ Empty \in Messages /\ Submissions \subseteq Messages
  BY DEF Threads, Messages
<1>2. CASE \/ Settle \/ CheckShutdown \/ MainPing \/ Notified \/ WaitReset
           \/ CountWorkers \/ StopsSent
  BY <1>1, <1>2
  DEF TypeOK, Settle, CheckShutdown, MainPing, Notified, WaitReset, CountWorkers, StopsSent,
      mainVars, dbVars, rowVars, workerVars, envVars, Ping, GiveUp, MainGoto, MainLabels
<1>3. CASE Select \/ Listen \/ Unlisten
  <2>1. conn' \in [Threads -> BOOLEAN] /\ losses' \in 0..MaxLosses
    BY <1>1, <1>3, ExecEffect DEF Select, Listen, Unlisten, TypeOK
  <2>2. QED
    BY <1>1, <1>3, <2>1
    DEF TypeOK, Select, Listen, Unlisten, dbVars, rowVars, workerVars, GiveUp, MainGoto, MainLabels
<1>4. CASE Assign
  <2>1. mjob \in Submissions BY <1>4 DEF Assign, MainAt, JobInv, MainJob
  <2>2. status' \in [Submissions -> Statuses]
    BY <1>4, <2>1 DEF Assign, SetStatus, TypeOK, Statuses
  <2>3. conn' \in [Threads -> BOOLEAN] /\ losses' \in 0..MaxLosses
    BY <1>1, <1>4, ExecEffect DEF Assign, TypeOK
  <2>4. QED
    BY <1>1, <1>4, <2>2, <2>3 DEF TypeOK, Assign, workerVars, GiveUp, MainGoto, MainLabels
<1>5. CASE Send \/ SendStop
  <2>1. mq' \in Seq(Messages) /\ Len(mq') <= MaxMsg
    <3>1. \E m \in Messages : mq' = Append(mq, m) BY <1>1, <1>5 DEF Send, SendStop, TypeOK
    <3>2. mq \in Seq(Messages) /\ MaxMsg \in Nat /\ Len(mq) < MaxMsg
      BY <1>5, BoundsAssumption DEF Send, SendStop, TypeOK
    <3>3. QED BY <3>1, <3>2, AppendProperties, LenProperties
  <2>2. toSend' \in 0..Cardinality(Workers)
    <3>1. Cardinality(Workers) \in Nat BY WorkersAssumption, FS_CardinalityType
    <3>2. QED BY <1>5, <3>1 DEF TypeOK, Send, SendStop
  <2>3. QED
    BY <1>1, <1>5, <2>1, <2>2 DEF TypeOK, Send, SendStop, dbVars, rowVars, workerVars, envVars,
                                  MainGoto, MainLabels
<1>6. CASE Join
  <2>1. mq' \in Seq(Messages) /\ Len(mq') <= MaxMsg
    BY <1>6, BoundsAssumption DEF Join
  <2>2. QED BY <1>6, <2>1 DEF TypeOK, Join, dbVars, rowVars, workerVars, envVars, MainGoto, MainLabels
<1>7. QED BY <1>2, <1>3, <1>4, <1>5, <1>6 DEF Main

(* ... the workers, ...                                                    *)
LEMMA WorkerTypes ==
  ASSUME TypeOK, JobInv, active' \in 0..Cardinality(Workers),
         NEW w \in Workers, Worker(w)
  PROVE  TypeOK'
<1>1. w \in Threads /\ Empty \in Messages BY DEF Threads, Messages
<1>2. CASE \/ Start(w) \/ Check(w) \/ WorkerPing(w) \/ LostDatabase(w) \/ Leave(w) \/ Got(w)
  <2>1. CASE Start(w) \/ Check(w) \/ Got(w)
    BY <1>1, <2>1
    DEF TypeOK, Start, Check, Got, mainVars, dbVars, rowVars, envVars, Goto, WorkerLabels
  <2>2. CASE WorkerPing(w)
    BY <1>1, <2>2 DEF TypeOK, WorkerPing, mainVars, dbVars, rowVars, envVars, Ping, Goto, WorkerLabels
  <2>3. CASE LostDatabase(w) \/ Leave(w)
    BY <1>1, <2>3
    DEF TypeOK, LostDatabase, Leave, mainVars, dbVars, rowVars, envVars, Goto, Interrupt,
        MainLabels, WorkerLabels
  <2>4. QED BY <1>2, <2>1, <2>2, <2>3
<1>3. CASE Receive(w)
  <2>1. mq \in Seq(Messages) /\ mq # <<>> /\ Len(mq) <= MaxMsg /\ MaxMsg \in Nat
    BY <1>3, BoundsAssumption DEF Receive, TypeOK
  <2>2. Head(mq) \in Messages /\ Tail(mq) \in Seq(Messages) /\ Len(Tail(mq)) <= MaxMsg
    BY <2>1, HeadTailProperties, LenProperties
  <2>3. QED
    BY <1>3, <2>2 DEF TypeOK, Receive, mainVars, dbVars, rowVars, envVars, Goto, WorkerLabels
<1>4. CASE Parse(w)
  <2>1. wjob[w] \in Submissions
    BY <1>4 DEF TypeOK, Messages, Parse, At, JobInv, WorkerJob, Handling
  <2>2. QED
    BY <1>4, <2>1 DEF TypeOK, Parse, mainVars, dbVars, rowVars, envVars, Goto, WorkerLabels
<1>5. CASE MarkInProgress(w) \/ RecordVerdict(w)
  <2>1. wjob[w] \in Submissions /\ missed' \in SUBSET Submissions BY <1>5, WriteEffect
  <2>2. status' \in [Submissions -> Statuses]
    <3>1. RecordVerdict(w) => wres[w] \in Verdicts
      BY DEF RecordVerdict, At, JobInv, WorkerJob
    <3>2. QED
      BY <1>5, <2>1, <3>1 DEF MarkInProgress, RecordVerdict, Update, SetStatus, TypeOK, Statuses
  <2>3. conn' \in [Threads -> BOOLEAN] /\ losses' \in 0..MaxLosses
    BY <1>1, <1>5, ExecEffect DEF MarkInProgress, RecordVerdict, Update, TypeOK
  <2>4. QED
    BY <1>1, <1>5, <2>1, <2>2, <2>3
    DEF TypeOK, MarkInProgress, RecordVerdict, mainVars, Goto, WorkerLabels
<1>6. QED BY <1>2, <1>3, <1>4, <1>5 DEF Worker

(* ... and the rest.                                                       *)
LEMMA OtherTypes ==
  ASSUME TypeOK, Environment \/ UNCHANGED vars
  PROVE  TypeOK'
<1>1. CASE Signal
  BY <1>1, BoundsAssumption
  DEF TypeOK, Signal, dbVars, rowVars, workerVars, Interrupt, MainLabels
<1>2. ASSUME NEW s \in Submissions, Submit(s) PROVE TypeOK'
  BY <1>2 DEF TypeOK, Submit, mainVars, workerVars, envVars, Statuses
<1>3. ASSUME NEW t \in Threads, Lose(t) PROVE TypeOK'
  BY <1>3, BoundsAssumption DEF TypeOK, Lose, mainVars, workerVars, rowVars
<1>4. CASE UNCHANGED vars
  BY <1>4 DEF TypeOK, vars, mainVars, dbVars, rowVars, workerVars, envVars
<1>5. QED BY <1>1, <1>2, <1>3, <1>4 DEF Environment

(* The inductive invariant.                                                *)
THEOREM Invariance == Spec => []IInv
<1>1. Init => IInv
  <2>1. SUFFICES ASSUME Init PROVE IInv OBVIOUS
  <2>2. Cardinality(Workers) \in Nat BY WorkersAssumption, FS_CardinalityType
  <2>3. TypeOK
    <3>1. mq \in Seq(Messages) /\ Len(mq) <= MaxMsg BY <2>1, BoundsAssumption DEF Init
    <3>2. /\ signals \in 0..MaxSignals /\ losses \in 0..MaxLosses
          /\ active \in 0..Cardinality(Workers) /\ toSend \in 0..Cardinality(Workers)
      BY <2>1, <2>2, BoundsAssumption DEF Init
    <3>3. QED
      BY <2>1, <3>1, <3>2 DEF Init, TypeOK, Statuses, Messages, MainLabels, WorkerLabels
  <2>4. JobInv
    <3>1. 1..Len(mq) = {} BY <2>1 DEF Init
    <3>2. QED
      BY <2>1, <3>1 DEF Init, JobInv, MainJob, QueueJob, WorkerJob, Exiting, Handling
  <2>5. CountInv
    <3>1. Live = {} BY <2>1 DEF Init, Live
    <3>2. QED BY <2>1, <3>1, FS_EmptySet DEF Init, CountInv
  <2>6. QED BY <2>3, <2>4, <2>5 DEF IInv
<1>2. IInv /\ [Next]_vars => IInv'
  <2>1. SUFFICES ASSUME IInv, [Next]_vars PROVE IInv' OBVIOUS
  <2>2. TypeOK /\ JobInv /\ CountInv BY <2>1 DEF IInv
  <2>3. JobInv' BY <2>1, <2>2, JobsPreserved
  <2>4. active' = Cardinality(Live') BY <2>1, <2>2, LiveCount DEF CountInv
  <2>5. CountInv' BY <2>1, <2>2, <2>4, BlockedCount DEF CountInv
  <2>6. active' \in 0..Cardinality(Workers)
    <3>1. Live' \in SUBSET Workers BY DEF Live
    <3>2. QED BY <2>4, <3>1, WorkersCount
  <2>7. TypeOK' BY <2>1, <2>2, <2>6, MainTypes, WorkerTypes, OtherTypes DEF Next
  <2>8. QED BY <2>3, <2>5, <2>7 DEF IInv
<1>3. QED BY <1>1, <1>2, PTL DEF Spec

(* Every variable keeps its type: the queue never holds more than MaxMsg   *)
(* messages, activethreads stays within the number of workers.             *)
THEOREM TypeCorrect == Spec => []TypeOK
<1>1. IInv => TypeOK BY DEF IInv
<1>2. QED BY <1>1, Invariance, PTL

(* A submission is in one place only, whatever threads, signals and lost   *)
(* connections do.                                                         *)
THEOREM OnePlace == Spec => []HeldOnce
<1>1. IInv => HeldOnce
  <2>1. SUFFICES ASSUME IInv PROVE HeldOnce OBVIOUS
  <2>2. DOMAIN mq = 1..Len(mq) BY <2>1, LenProperties DEF IInv, TypeOK
  <2>3. QED
    BY <2>1, <2>2 DEF IInv, JobInv, MainJob, QueueJob, WorkerJob, HeldOnce, InQueue
<1>2. QED BY <1>1, Invariance, PTL

(* No report is parsed twice, and no empty message is parsed as a report.  *)
THEOREM ParsesOnce == Spec => []ParsedOnce
<1>1. IInv => ParsedOnce
  BY DEF IInv, TypeOK, Messages, JobInv, WorkerJob, Handling, ParsedOnce
<1>2. QED BY <1>1, Invariance, PTL

(* The shutdown messages are enough for the workers that still wait.       *)
THEOREM StopsSuffice == Spec => []EnoughStops
<1>1. IInv => EnoughStops BY DEF IInv, CountInv, Blocked, EnoughStops
<1>2. QED BY <1>1, Invariance, PTL

OnlyParsing == \A s \in Submissions : status[s] = "INPROG" => Parsing(s) \/ s \in missed

(* A row that is in progress is left by its worker with a verdict, or the  *)
(* update that should record it is missed.                                 *)
LEMMA ParsingStep ==
  ASSUME TypeOK, JobInv, OnlyParsing, [Next]_vars
  PROVE  OnlyParsing'
<1>1. ASSUME UNCHANGED missed,
             \A s \in Submissions : status'[s] = "INPROG" => status[s] = "INPROG",
             \A w \in Workers : wpc[w] \in {"parse", "final"} =>
               wpc'[w] \in {"parse", "final"} /\ wjob'[w] = wjob[w]
      PROVE  OnlyParsing'
  BY <1>1 DEF OnlyParsing, Parsing
<1>2. CASE Main \/ Environment \/ UNCHANGED vars
  <2>1. UNCHANGED <<wpc, wjob, missed>>
    BY <1>2 DEF Main, Environment, vars, workerVars, dbVars, rowVars, Settle, CheckShutdown,
      MainPing, Select, Assign, Send, Listen, Notified, WaitReset, Unlisten, CountWorkers,
      SendStop, StopsSent, Join, Signal, Submit, Lose
  <2>2. \A s \in Submissions : status'[s] = "INPROG" => status[s] = "INPROG"
    BY <1>2 DEF Main, Environment, vars, dbVars, rowVars, Settle, CheckShutdown, MainPing,
      Select, Assign, SetStatus, TypeOK, Send, Listen, Notified, WaitReset, Unlisten,
      CountWorkers, SendStop, StopsSent, Join, Signal, Submit, Lose
  <2>3. QED BY <1>1, <2>1, <2>2
<1>3. ASSUME NEW w \in Workers, Worker(w) PROVE OnlyParsing'
  <2>1. CASE MarkInProgress(w) \/ RecordVerdict(w)
    <3>1. /\ wjob[w] \in Submissions
          /\ \A s \in Submissions \ {wjob[w]} :
               status'[s] = status[s] /\ (s \in missed' <=> s \in missed)
          /\ \A v \in Workers \ {w} : wjob'[v] = wjob[v] /\ wpc'[v] = wpc[v]
          /\ wjob[w] \notin missed' =>
               status'[wjob[w]] = IF MarkInProgress(w) THEN "INPROG" ELSE wres[w]
      BY <2>1, WriteEffect
    <3>2. ASSUME NEW s \in Submissions \ {wjob[w]}, status'[s] = "INPROG"
          PROVE  Parsing(s)' \/ s \in missed'
      BY <3>1, <3>2 DEF OnlyParsing, Parsing
    <3>3. wjob[w] \notin missed' /\ status'[wjob[w]] = "INPROG" =>
            \E v \in Workers : wjob'[v] = wjob[w] /\ wpc'[v] \in {"parse", "final"}
      <4>1. CASE MarkInProgress(w)
        <5>1. wjob'[w] = wjob[w] /\ wpc'[w] = "parse"
          BY <4>1 DEF MarkInProgress, Goto, TypeOK
        <5>2. QED BY <5>1
      <4>2. CASE ~MarkInProgress(w)
        <5>1. wres[w] \in Verdicts
          BY <2>1, <4>2 DEF RecordVerdict, At, JobInv, WorkerJob
        <5>2. QED BY <3>1, <4>2, <5>1 DEF Verdicts
      <4>3. QED BY <4>1, <4>2
    <3>4. ASSUME NEW s \in Submissions, status'[s] = "INPROG"
          PROVE  Parsing(s)' \/ s \in missed'
      <4>1. CASE s # wjob[w] BY <3>2, <3>4, <4>1
      <4>2. CASE s = wjob[w]
        <5>1. s \in missed' \/ \E v \in Workers : wjob'[v] = s /\ wpc'[v] \in {"parse", "final"}
          BY <3>3, <3>4, <4>2
        <5>2. QED BY <5>1 DEF Parsing
      <4>3. QED BY <4>1, <4>2
    <3>5. QED BY <3>4 DEF OnlyParsing
  <2>2. CASE ~(MarkInProgress(w) \/ RecordVerdict(w))
    <3>1. UNCHANGED <<status, missed>>
      BY <1>3, <2>2 DEF Worker, Start, Check, WorkerPing, LostDatabase, Receive, Got, Parse,
         Leave, dbVars, rowVars
    <3>2. ASSUME NEW v \in Workers, wpc[v] \in {"parse", "final"}
          PROVE  wpc'[v] \in {"parse", "final"} /\ wjob'[v] = wjob[v]
      BY <1>3, <2>2, <3>2 DEF Worker, Start, Check, WorkerPing, LostDatabase, Receive, Got,
         Parse, MarkInProgress, RecordVerdict, Leave, At, Goto, TypeOK
    <3>3. QED BY <1>1, <3>1, <3>2
  <2>3. QED BY <2>1, <2>2
<1>4. QED BY <1>2, <1>3 DEF Next

(* A row says that its report is parsed exactly while a worker does so,    *)
(* unless an update was not carried out: the worker does not look.         *)
THEOREM ProgressTrue == Spec => []InProgressIsTrue
<1>1. Init => OnlyParsing BY DEF Init, OnlyParsing
<1>2. TypeOK /\ JobInv /\ OnlyParsing /\ [Next]_vars => OnlyParsing'
  BY ParsingStep
<1>3. IInv => TypeOK /\ JobInv BY DEF IInv
<1>4. IInv /\ OnlyParsing => InProgressIsTrue
  <2>1. SUFFICES ASSUME IInv, OnlyParsing, NEW s \in Submissions, Parsing(s)
                 PROVE  status[s] = "INPROG" \/ s \in missed
    BY DEF OnlyParsing, InProgressIsTrue
  <2>2. PICK w \in Workers : wjob[w] = s /\ wpc[w] \in {"parse", "final"}
    BY <2>1 DEF Parsing
  <2>3. QED BY <2>1, <2>2 DEF IInv, JobInv, WorkerJob, Handling
<1>5. QED BY <1>1, <1>2, <1>3, <1>4, Invariance, PTL DEF Spec

Holder(s) == \/ s = mjob \/ InQueue(s) \/ \E w \in Workers : wjob[w] = s
             \/ s \in parsed \/ shutdown

(* Steps that neither assign a row nor take a job from its holder.         *)
LEMMA HolderKept ==
  ASSUME AssignedIsHeld, UNCHANGED <<mq, mjob, wjob>>,
         parsed \subseteq parsed', shutdown => shutdown',
         \A s \in Submissions : status'[s] = "ASSIGNED" => status[s] = "ASSIGNED"
  PROVE  AssignedIsHeld'
BY DEF AssignedIsHeld, InQueue

(* A job that is sent, received or done is not lost on the way.            *)
LEMMA AssignedStep ==
  ASSUME TypeOK, JobInv, AssignedIsHeld, [Next]_vars
  PROVE  AssignedIsHeld'
<1>1. shutdown' => AssignedIsHeld' BY DEF AssignedIsHeld
<1>2. AssignedIsHeld <=> \A s \in Submissions : status[s] = "ASSIGNED" => Holder(s)
  BY DEF AssignedIsHeld, Holder
<1>3. AssignedIsHeld' <=> \A s \in Submissions : status'[s] = "ASSIGNED" => Holder(s)'
  BY DEF AssignedIsHeld, Holder
<1>4. CASE \/ Settle \/ CheckShutdown \/ MainPing \/ Listen \/ Notified \/ WaitReset
           \/ Unlisten \/ CountWorkers \/ StopsSent \/ Signal \/ (\E t \in Threads : Lose(t))
           \/ UNCHANGED vars
  BY <1>4, HolderKept
  DEF Settle, CheckShutdown, MainPing, Listen, Notified, WaitReset, Unlisten, CountWorkers,
      StopsSent, Signal, Lose, vars, mainVars, dbVars, rowVars, workerVars, GiveUp, Interrupt
<1>5. CASE Select
  <2>1. mjob = Empty \/ mjob' = mjob BY <1>5 DEF Select, MainAt, JobInv, MainJob
  <2>2. UNCHANGED <<mq, wjob, parsed, status>> /\ (shutdown => shutdown')
    BY <1>5 DEF Select, dbVars, rowVars, workerVars, GiveUp
  <2>3. Empty \notin Submissions BY SubmissionsAssumption DEF Empty
  <2>4. QED BY <1>2, <1>3, <2>1, <2>2, <2>3 DEF Holder, InQueue
<1>6. CASE Assign
  <2>1. UNCHANGED <<mq, wjob, parsed>> /\ (shutdown' = TRUE \/ UNCHANGED <<mjob, shutdown>>)
    BY <1>6 DEF Assign, workerVars, GiveUp
  <2>2. \A s \in Submissions \ {mjob} : status'[s] = status[s]
    BY <1>6 DEF Assign, SetStatus, TypeOK
  <2>3. QED BY <1>1, <1>2, <1>3, <2>1, <2>2 DEF Holder, InQueue
<1>7. CASE Send
  <2>1. UNCHANGED <<wjob, parsed, status, shutdown>> /\ mq' = Append(mq, mjob)
    BY <1>7 DEF Send, dbVars, rowVars, workerVars
  <2>2. mq \in Seq(Messages) /\ mjob \in Messages BY DEF TypeOK
  <2>3. /\ DOMAIN mq = 1..Len(mq) /\ DOMAIN mq' = 1..(Len(mq) + 1) /\ Len(mq) \in Nat
        /\ \A i \in 1..Len(mq) : mq'[i] = mq[i]
        /\ mq'[Len(mq) + 1] = mjob
    BY <2>1, <2>2, AppendProperties, LenProperties
  <2>4. \A s : InQueue(s) \/ s = mjob => InQueue(s)' BY <2>3 DEF InQueue
  <2>5. QED BY <1>2, <1>3, <2>1, <2>4 DEF Holder
<1>8. CASE SendStop \/ Join
  BY <1>1, <1>8 DEF SendStop, Join, MainAt, JobInv, MainJob, Exiting
<1>9. ASSUME NEW w \in Workers,
             \/ Start(w) \/ Check(w) \/ WorkerPing(w) \/ LostDatabase(w)
             \/ Parse(w) \/ MarkInProgress(w) \/ Leave(w)
      PROVE  AssignedIsHeld'
  <2>1. /\ UNCHANGED <<mq, mjob, wjob>> /\ parsed \subseteq parsed'
        /\ shutdown => shutdown'
    BY <1>9 DEF Start, Check, WorkerPing, LostDatabase, Parse, MarkInProgress, Leave,
                mainVars, Interrupt
  <2>2. \A s \in Submissions : status'[s] = "ASSIGNED" => status[s] = "ASSIGNED"
    BY <1>9 DEF Start, Check, WorkerPing, LostDatabase, Parse, MarkInProgress, Leave,
                dbVars, rowVars, Update, SetStatus, TypeOK
  <2>3. QED BY <2>1, <2>2, HolderKept
<1>10. ASSUME NEW w \in Workers, Receive(w) PROVE AssignedIsHeld'
  <2>1. /\ UNCHANGED <<mjob, parsed, status, shutdown>> /\ wjob[w] = Empty /\ mq # <<>>
        /\ wjob'[w] = Head(mq) /\ \A v \in Workers \ {w} : wjob'[v] = wjob[v]
        /\ mq' = Tail(mq)
    BY <1>10 DEF Receive, At, dbVars, rowVars, mainVars, TypeOK, JobInv, WorkerJob, Handling
  <2>2. mq \in Seq(Messages) BY DEF TypeOK
  <2>3. /\ DOMAIN mq = 1..Len(mq) /\ DOMAIN mq' = 1..(Len(mq) - 1) /\ Len(mq) \in Nat
        /\ Head(mq) = mq[1]
        /\ \A i \in 1..(Len(mq) - 1) : mq'[i] = mq[i + 1]
    BY <2>1, <2>2, HeadTailProperties, LenProperties
  <2>4. ASSUME NEW s, InQueue(s) PROVE InQueue(s)' \/ wjob'[w] = s
    <3>1. PICK i \in 1..Len(mq) : mq[i] = s BY <2>3, <2>4 DEF InQueue
    <3>2. CASE i = 1 BY <2>1, <2>3, <3>1, <3>2
    <3>3. CASE i # 1
      <4>1. i - 1 \in 1..(Len(mq) - 1) /\ mq'[i - 1] = s BY <2>3, <3>1, <3>3
      <4>2. QED BY <2>3, <4>1 DEF InQueue
    <3>4. QED BY <3>2, <3>3
  <2>5. Empty \notin Submissions BY SubmissionsAssumption DEF Empty
  <2>6. QED BY <1>2, <1>3, <2>1, <2>4, <2>5 DEF Holder
<1>11. ASSUME NEW w \in Workers, Got(w) PROVE AssignedIsHeld'
  <2>1. UNCHANGED <<mq, mjob, parsed, status, shutdown>> /\ (shutdown \/ wjob' = wjob)
    BY <1>11 DEF Got, dbVars, rowVars, mainVars
  <2>2. QED BY <1>1, <1>2, <1>3, <2>1 DEF Holder, InQueue
<1>12. ASSUME NEW w \in Workers, RecordVerdict(w) PROVE AssignedIsHeld'
  <2>1. /\ UNCHANGED <<mq, mjob, parsed, shutdown>> /\ wjob[w] \in Submissions
        /\ \A s \in Submissions \ {wjob[w]} : status'[s] = status[s]
        /\ \A v \in Workers \ {w} : wjob'[v] = wjob[v]
    BY <1>12, WriteEffect
  <2>2. wjob[w] \in parsed
    BY <1>12 DEF RecordVerdict, At, JobInv, WorkerJob, Handling
  <2>3. QED BY <1>2, <1>3, <2>1, <2>2 DEF Holder, InQueue
<1>13. ASSUME NEW s \in Submissions, Submit(s) PROVE AssignedIsHeld'
  <2>1. /\ UNCHANGED <<mq, mjob, wjob, parsed, shutdown>>
        /\ \A t \in Submissions : status'[t] = "ASSIGNED" => status[t] = "ASSIGNED"
    BY <1>13 DEF Submit, mainVars, workerVars, TypeOK
  <2>2. QED BY <2>1, HolderKept
<1>14. QED
  BY <1>4, <1>5, <1>6, <1>7, <1>8, <1>9, <1>10, <1>11, <1>12, <1>13
  DEF Next, Main, Worker, Environment

(* No assigned submission is lost: it is held, or parsed, or the daemon is *)
(* on its way out.                                                         *)
THEOREM NoneLost == Spec => []AssignedIsHeld
<1>1. Init => AssignedIsHeld BY DEF Init, AssignedIsHeld
<1>2. TypeOK /\ JobInv /\ AssignedIsHeld /\ [Next]_vars => AssignedIsHeld'
  BY AssignedStep
<1>3. IInv => TypeOK /\ JobInv BY DEF IInv
<1>4. QED BY <1>1, <1>2, <1>3, Invariance, PTL DEF Spec

-----------------------------------------------------------------------------
(* A step of the daemon is a step of SubmissionQueue, or leaves the rows   *)
(* and the parsed reports alone.                                           *)
LEMMA StepRefines ==
  ASSUME IInv, [Next]_vars
  PROVE  [Queue!Next]_(Queue!vars)
<1>1. TypeOK /\ JobInv BY DEF IInv
<1>2. ASSUME UNCHANGED <<status, parsed>> PROVE [Queue!Next]_(Queue!vars)
  BY <1>2 DEF Queue!vars
<1>3. CASE Assign
  <2>1. mjob \in Submissions /\ status[mjob] = "NEW" /\ UNCHANGED parsed
    BY <1>1, <1>3 DEF Assign, MainAt, JobInv, MainJob, workerVars
  <2>2. UNCHANGED status \/ status' = [status EXCEPT ![mjob] = "ASSIGNED"]
    BY <1>3 DEF Assign, SetStatus
  <2>3. QED BY <1>2, <2>1, <2>2 DEF Queue!Next, Queue!Assign, Queue!Move
<1>4. ASSUME NEW w \in Workers, MarkInProgress(w) PROVE [Queue!Next]_(Queue!vars)
  <2>1. /\ wjob[w] \in Submissions \ parsed /\ status[wjob[w]] = "ASSIGNED"
        /\ UNCHANGED parsed
    BY <1>1, <1>4
    DEF MarkInProgress, At, TypeOK, Messages, JobInv, WorkerJob, Handling
  <2>2. UNCHANGED status \/ status' = [status EXCEPT ![wjob[w]] = "INPROG"]
    BY <1>4 DEF MarkInProgress, Update, SetStatus
  <2>3. QED BY <1>2, <2>1, <2>2 DEF Queue!Next, Queue!Begin, Queue!Move
<1>5. ASSUME NEW w \in Workers, Parse(w) PROVE [Queue!Next]_(Queue!vars)
  <2>1. /\ wjob[w] \in Submissions \ parsed /\ status[wjob[w]] \in {"ASSIGNED", "INPROG"}
        /\ UNCHANGED status /\ parsed' = parsed \cup {wjob[w]}
    BY <1>1, <1>5 DEF Parse, At, TypeOK, Messages, JobInv, WorkerJob, Handling, dbVars, rowVars
  <2>2. QED BY <2>1 DEF Queue!Next, Queue!Parse
<1>6. ASSUME NEW w \in Workers, RecordVerdict(w) PROVE [Queue!Next]_(Queue!vars)
  <2>1. /\ wjob[w] \in Submissions /\ wjob[w] \in parsed /\ wres[w] \in Verdicts
        /\ status[wjob[w]] \in {"ASSIGNED", "INPROG"}
        /\ UNCHANGED parsed
    BY <1>1, <1>6
    DEF RecordVerdict, At, TypeOK, Messages, JobInv, WorkerJob, Handling
  <2>2. UNCHANGED status \/ status' = [status EXCEPT ![wjob[w]] = wres[w]]
    BY <1>6 DEF RecordVerdict, Update, SetStatus
  <2>3. QED
    BY <1>2, <2>1, <2>2
    DEF Queue!Next, Queue!Complete, Queue!Move, Queue!Verdicts, Verdicts
<1>7. ASSUME NEW s \in Submissions, Submit(s) PROVE [Queue!Next]_(Queue!vars)
  BY <1>7 DEF Submit, workerVars, Queue!Next, Queue!Submit, Queue!Move
<1>8. CASE Main /\ ~Assign
  BY <1>2, <1>8
  DEF Main, Settle, CheckShutdown, MainPing, Select, Send, Listen, Notified, WaitReset,
      Unlisten, CountWorkers, SendStop, StopsSent, Join, dbVars, rowVars, workerVars
<1>9. ASSUME NEW w \in Workers, Start(w) \/ Check(w) \/ WorkerPing(w) \/ LostDatabase(w)
                                \/ Receive(w) \/ Got(w) \/ Leave(w)
      PROVE  [Queue!Next]_(Queue!vars)
  BY <1>2, <1>9 DEF Start, Check, WorkerPing, LostDatabase, Receive, Got, Leave, dbVars, rowVars
<1>10. CASE Signal \/ (\E t \in Threads : Lose(t)) \/ UNCHANGED vars
  BY <1>2, <1>10 DEF Signal, Lose, vars, dbVars, rowVars, workerVars
<1>11. QED
  BY <1>3, <1>4, <1>5, <1>6, <1>7, <1>8, <1>9, <1>10 DEF Next, Worker, Environment

(* The daemon implements SubmissionQueue.                                  *)
THEOREM Refinement == Spec => KeepsQueue
<1>1. Init => Queue!Init BY DEF Init, Queue!Init
<1>2. IInv /\ [Next]_vars => [Queue!Next]_(Queue!vars) BY StepRefines
<1>3. QED BY <1>1, <1>2, Invariance, PTL DEF Spec, KeepsQueue, Queue!Spec
=============================================================================
