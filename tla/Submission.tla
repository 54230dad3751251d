----------------------------- MODULE Submission -----------------------------
(***************************************************************************)
(* Sending a report to the XML-RPC server, from rtevalXMLRPC on the test   *)
(* machine (rteval/rtevalXMLRPC.py) to XMLRPC_API1 and register_submission *)
(* on the server (server/xmlrpc_API1.py, rtevaldb.py, database.py).        *)
(*                                                                         *)
(* The server answers requests in the threads of a few processes           *)
(* (apache-rteval-wsgi.conf.tpl); the threads of a process share its       *)
(* working directory.  A connection may break at any time, on the way to   *)
(* the server, while the server is at work, or with the reply under way.   *)
(* The client library sends a request again, once, on a connection that    *)
(* was reset.  datadir is an absolute path, as it is by default.           *)
(***************************************************************************)
EXTENDS Integers, Sequences, FiniteSets

CONSTANTS
  Clients,      \* the runs that submit a report, each with one
  Host,         \* the name of the machine of a run
  NoAbort,      \* those that run even when the server does not answer
  Mailers,      \* those that have a mailer
  Processes,    \* the processes of the server
  DirPath,      \* datadir/queue, below the root directory
  MaxAttempts,  \* six in the code
  MaxSends,     \* bound: requests of a run, with those of the client library
  MaxThreads,   \* bound: requests served at the same time
  MaxReceived,  \* bound: requests that reach the server
  MaxFaults     \* bound: what else goes wrong

ASSUME SubmissionAssumption ==
  /\ MaxAttempts \in Nat \ {0} /\ MaxSends \in Nat /\ MaxSends >= MaxAttempts /\ MaxThreads \in Nat
  /\ MaxReceived \in Nat /\ MaxFaults \in Nat
  /\ DirPath \in Seq(STRING) \ {<< >>} /\ NoAbort \subseteq Clients

Requests == Clients \X (1..MaxSends)
Root     == << >>
NoProc   == "no process"
Broken   == << >>

VARIABLES
  hello,    \* whether the server knows Hello()
  cpc,      \* where each run is
  attempt,  \* its failed attempts, of Ping() and then of SendReport()
  resent,   \* whether the library has sent this attempt's request again
  sends,    \* its requests
  exitcode, \* what SendReport() has returned
  rterid,   \* the submission id it was told
  mails,    \* the messages SendReport() has sent
  spc,      \* where each request is
  process,  \* the process that serves it
  startdir, \* its variable startdir
  depth,    \* the component of the path __mkdatadir() has come to
  idx,      \* the number __getfilename() tries
  id,       \* the id its row was given
  cwd,      \* the working directory of each process
  dirs,     \* the directories there are
  files,    \* the files of the queue directory, and the request each is from
  rows,     \* the committed rows of the table submissionqueue
  nextid,   \* its serial
  taken,    \* rows the parser has dealt with
  alone,    \* requests no other one has overlapped up to their file
  saved,    \* what of each report was written: nothing, a part, or the whole
  faults    \* how much has gone wrong

clientVars == <<cpc, attempt, resent, sends, exitcode, rterid, mails>>
threadVars == <<process, startdir, depth, idx, alone>>
diskVars   == <<cwd, dirs, files, saved>>
tableVars  == <<rows, nextid, id>>
vars == <<hello, clientVars, spc, threadVars, diskVars, tableVars, taken, faults>>

ClientPlaces == {"ping", "call", "waiting", "exited", "raised", "not run"}
Texts        == {"warning", "failure", "success"}
Written      == {"nothing", "part", "whole"}

FilePart  == {"test", "mkdir", "chdir", "back", "name", "save"}
AtWork    == FilePart \cup {"insert", "commit"}
Places    == {"none", "sent", "lost", "reply", "fault"} \cup AtWork
FileOf(r) == <<Host[r[1]], idx[r]>>
RowsOf(c) == {row \in rows : row.req[1] = c}

Init ==
  /\ hello \in BOOLEAN
  /\ cpc = [c \in Clients |-> "ping"] /\ attempt = [c \in Clients |-> 0]
  /\ resent = [c \in Clients |-> FALSE] /\ sends = [c \in Clients |-> 0]
  /\ exitcode = [c \in Clients |-> 2] /\ rterid = [c \in Clients |-> 0]
  /\ mails = [c \in Clients |-> {}]
  /\ spc = [r \in Requests |-> "none"] /\ process = [r \in Requests |-> NoProc]
  /\ startdir = [r \in Requests |-> Root] /\ depth = [r \in Requests |-> 1]
  /\ idx = [r \in Requests |-> 0] /\ id = [r \in Requests |-> 0]
  /\ cwd = [p \in Processes |-> Root]
  /\ \E n \in {0, Len(DirPath)} : dirs = {SubSeq(DirPath, 1, i) : i \in 0..n}
  /\ files = [f \in {} |-> Broken] /\ rows = {} /\ nextid = 1 /\ taken = {}
  /\ alone = [r \in Requests |-> TRUE] /\ saved = [r \in Requests |-> "nothing"]
  /\ faults = 0

-----------------------------------------------------------------------------
(* The client *)

GoTo(c, l)     == cpc' = [cpc EXCEPT ![c] = l]
Mail(c, texts) == mails' = [mails EXCEPT ![c] = IF c \in Mailers THEN @ \cup texts ELSE @]
Request(c)     == <<c, sends[c]>>
ServerSame     == UNCHANGED <<threadVars, diskVars, tableVars, taken>>

(* Ping(), before the run; its warning by mail is left out.  The answer    *)
(* that Hello() is not known is no step: it is neither counted nor waited  *)
(* for, and Ping() asks again.                                             *)
PingAnswered(c) ==
  /\ cpc[c] = "ping" /\ hello /\ GoTo(c, "call") /\ attempt' = [attempt EXCEPT ![c] = 0]
  /\ UNCHANGED <<hello, resent, sends, exitcode, rterid, mails, spc>> /\ ServerSame

PingFails(c) ==
  /\ cpc[c] = "ping"
  /\ IF attempt[c] + 1 < MaxAttempts
     THEN attempt' = [attempt EXCEPT ![c] = @ + 1] /\ UNCHANGED cpc
     ELSE /\ attempt' = [attempt EXCEPT ![c] = 0]
          /\ GoTo(c, IF c \in NoAbort THEN "call" ELSE "not run")
  /\ UNCHANGED <<hello, resent, sends, exitcode, rterid, mails, spc>> /\ ServerSame

(* SendReport(), when the report has been made. *)
Call(c) ==
  /\ cpc[c] = "call" /\ sends[c] < MaxSends /\ GoTo(c, "waiting")
  /\ sends' = [sends EXCEPT ![c] = @ + 1] /\ spc' = [spc EXCEPT ![<<c, sends[c] + 1>>] = "sent"]
  /\ resent' = [resent EXCEPT ![c] = FALSE]
  /\ UNCHANGED <<hello, attempt, exitcode, rterid, mails>> /\ ServerSame

(* The library; enough requests are left for the attempts to come.         *)
Resend(c) ==
  /\ cpc[c] = "waiting" /\ ~ resent[c] /\ resent' = [resent EXCEPT ![c] = TRUE]
  /\ sends[c] + MaxAttempts - attempt[c] =< MaxSends
  /\ sends' = [sends EXCEPT ![c] = @ + 1] /\ spc' = [spc EXCEPT ![<<c, sends[c] + 1>>] = "sent"]
  /\ UNCHANGED <<hello, cpc, attempt, exitcode, rterid, mails>> /\ ServerSame

SocketError_Again(c) ==
  /\ cpc[c] = "waiting" /\ attempt' = [attempt EXCEPT ![c] = @ + 1]
  /\ IF attempt[c] < MaxAttempts
     THEN GoTo(c, "call") /\ Mail(c, {"warning"})
     ELSE GoTo(c, "exited") /\ Mail(c, {"failure"})
  /\ UNCHANGED <<hello, resent, sends, exitcode, rterid>> /\ ServerSame

SocketError_Once(c) ==
  /\ cpc[c] = "waiting" /\ attempt' = [attempt EXCEPT ![c] = @ + 1]
  /\ GoTo(c, "exited") /\ Mail(c, {"failure"})
  /\ UNCHANGED <<hello, resent, sends, exitcode, rterid>> /\ ServerSame

(* socket.error: another attempt, or the end. *)
SocketError(c) ==
  /\ cpc[c] = "waiting" /\ attempt' = [attempt EXCEPT ![c] = @ + 1]
  /\ IF attempt[c] + 1 < MaxAttempts
     THEN GoTo(c, "call") /\ Mail(c, {"warning"})
     ELSE GoTo(c, "exited") /\ Mail(c, {"failure"})
  /\ UNCHANGED <<hello, resent, sends, exitcode, rterid>> /\ ServerSame

(* The request does not reach the server, or the reply not the client.     *)
RequestLost(c) ==
  /\ cpc[c] = "waiting" /\ spc[Request(c)] = "sent"
  /\ spc' = [spc EXCEPT ![Request(c)] = "lost"] /\ SocketError(c)
ConnectionBreaks(c) == UNCHANGED spc /\ SocketError(c)

Replied(c) ==
  /\ cpc[c] = "waiting" /\ spc[Request(c)] = "reply" /\ GoTo(c, "exited")
  /\ exitcode' = [exitcode EXCEPT ![c] = 0] /\ rterid' = [rterid EXCEPT ![c] = id[Request(c)]]
  /\ IF "warning" \in mails[c] THEN Mail(c, {"success"}) ELSE UNCHANGED mails
  /\ UNCHANGED <<hello, attempt, resent, sends, spc>> /\ ServerSame

(* A fault of the server is any other exception, and is not tried again.   *)
Faulted(c) ==
  /\ cpc[c] = "waiting" /\ spc[Request(c)] = "fault" /\ GoTo(c, "raised")
  /\ UNCHANGED <<hello, attempt, resent, sends, exitcode, rterid, mails, spc>> /\ ServerSame

-----------------------------------------------------------------------------
(* The server *)

At(r, from, to) == spc[r] = from /\ spc' = [spc EXCEPT ![r] = to]
ClientSame      == UNCHANGED <<hello, clientVars, taken>>
Here(r)         == cwd[process[r]]
ChDir(r, path)  == cwd' = [cwd EXCEPT ![process[r]] = path]

(* A thread takes the request: getcwd() and chdir("/") of __mkdatadir().   *)
Receive(r, p) ==
  /\ At(r, "sent", "test") /\ Cardinality({q \in Requests : spc[q] \in AtWork}) < MaxThreads
  /\ Cardinality({q \in Requests : process[q] # NoProc}) < MaxReceived
  /\ process' = [process EXCEPT ![r] = p] /\ startdir' = [startdir EXCEPT ![r] = cwd[p]]
  /\ cwd' = [cwd EXCEPT ![p] = Root]
  /\ LET others == {q \in Requests : spc[q] \in FilePart}
     IN alone' = [q \in Requests |->
          alone[q] /\ q \notin others /\ (q = r => others = {})]
  /\ UNCHANGED <<depth, idx, dirs, files, saved, tableVars>> /\ ClientSame

(* One component of the path after the other, each relative to wherever    *)
(* the process is by then.                                                 *)
Component(r) == Append(Here(r), DirPath[depth[r]])

TestDir(r) ==
  /\ At(r, "test", IF Component(r) \in dirs THEN "chdir" ELSE "mkdir")
  /\ UNCHANGED <<threadVars, diskVars, tableVars>> /\ ClientSame

MakeDir(r) ==
  /\ At(r, "mkdir", IF Component(r) \in dirs THEN "fault" ELSE "chdir")
  /\ dirs' = dirs \cup {Component(r)}
  /\ UNCHANGED <<threadVars, cwd, files, saved, tableVars>> /\ ClientSame

EnterDir(r) ==
  /\ At(r, "chdir", IF Component(r) \notin dirs THEN "fault"
                    ELSE IF depth[r] < Len(DirPath) THEN "test" ELSE "back")
  /\ IF Component(r) \in dirs
     THEN ChDir(r, Component(r)) /\ depth' = [depth EXCEPT ![r] = @ + 1]
     ELSE UNCHANGED <<cwd, depth>>
  /\ UNCHANGED <<process, startdir, idx, alone, dirs, files, saved, tableVars>> /\ ClientSame

ReturnDir(r) ==
  /\ At(r, "back", "name") /\ ChDir(r, startdir[r])
  /\ startdir' = [startdir EXCEPT ![r] = Root] /\ depth' = [depth EXCEPT ![r] = 1]
  /\ UNCHANGED <<process, idx, alone, dirs, files, saved, tableVars>> /\ ClientSame

GetFilename_Untested(r) ==
  At(r, "name", "save") /\ UNCHANGED <<threadVars, diskVars, tableVars>> /\ ClientSame

(* __getfilename(): the first number that is free. *)
GetFilename(r) ==
  /\ At(r, "name", IF FileOf(r) \in DOMAIN files THEN "name" ELSE "save")
  /\ idx' = IF FileOf(r) \in DOMAIN files THEN [idx EXCEPT ![r] = @ + 1] ELSE idx
  /\ UNCHANGED <<process, startdir, depth, alone, diskVars, tableVars>> /\ ClientSame

(* saveFormatFileEnc(): the file is written, or broken off, or it could    *)
(* not be opened and nothing is changed.                                   *)
Write(r, what) ==
  /\ At(r, "save", "insert") /\ saved' = [saved EXCEPT ![r] = what]
  /\ files' = IF what = "nothing" THEN files
              ELSE [f \in DOMAIN files \cup {FileOf(r)} |->
                      IF f # FileOf(r) THEN files[f] ELSE IF what = "whole" THEN r ELSE Broken]
  /\ UNCHANGED <<threadVars, cwd, dirs, tableVars>> /\ ClientSame

(* Whether the file could be written is not looked at. *)
SaveReport(r) == Write(r, IF DirPath \in dirs THEN "whole" ELSE "nothing")
SaveFails(r)  == Write(r, "nothing") \/ (DirPath \in dirs /\ Write(r, "part"))

(* register_submission(): connect, INSERT() and the look-up of the id;     *)
(* any of it may raise.                                                    *)
Insert(r) ==
  /\ At(r, "insert", "commit")
  /\ nextid' = nextid + 1 /\ id' = [id EXCEPT ![r] = nextid]
  /\ UNCHANGED <<threadVars, diskVars, rows>> /\ ClientSame

DatabaseFails(r) ==
  /\ At(r, "insert", "fault")
  /\ UNCHANGED <<threadVars, diskVars, tableVars>> /\ ClientSame

StoreRow(r) == rows' = rows \cup {[id |-> id[r], req |-> r, file |-> FileOf(r)]}

Commit_Skipped(r) ==
  /\ At(r, "commit", "reply") /\ UNCHANGED rows
  /\ UNCHANGED <<threadVars, diskVars, nextid, id>> /\ ClientSame

Commit(r) ==
  /\ At(r, "commit", "reply") /\ StoreRow(r)
  /\ UNCHANGED <<threadVars, diskVars, nextid, id>> /\ ClientSame

(* A connection lost while it commits leaves open whether it did.          *)
CommitFails(r) ==
  /\ At(r, "commit", "fault") /\ (StoreRow(r) \/ UNCHANGED rows)
  /\ UNCHANGED <<threadVars, diskVars, nextid, id>> /\ ClientSame

(* The parser, in its own time: it moves the file of a row away, unless it *)
(* cannot be read.                                                         *)
Take(row) ==
  /\ row.id \notin taken /\ taken' = taken \cup {row.id}
  /\ files' = [f \in {g \in DOMAIN files : g = row.file => files[g] = Broken} |-> files[f]]
  /\ UNCHANGED <<hello, clientVars, spc, threadVars, cwd, dirs, saved, tableVars>>

-----------------------------------------------------------------------------
Good  == UNCHANGED faults
Fault == faults < MaxFaults /\ faults' = faults + 1

Client(c) == Good /\ (PingAnswered(c) \/ Call(c) \/ Replied(c) \/ Faulted(c))
Network(c) == \/ Good /\ (PingFails(c) \/ RequestLost(c))
              \/ Fault /\ (Resend(c) \/ ConnectionBreaks(c))

Accept(r) == Good /\ \E p \in Processes : Receive(r, p)
Serve(r)  == Good /\ ( \/ TestDir(r) \/ MakeDir(r) \/ EnterDir(r) \/ ReturnDir(r)
                       \/ GetFilename(r) \/ SaveReport(r) \/ Insert(r) \/ Commit(r))
Failure(r) == Fault /\ (SaveFails(r) \/ DatabaseFails(r) \/ CommitFails(r))

Parser == Good /\ \E row \in rows : Take(row)

Next ==
  \/ \E c \in Clients : Client(c) \/ Network(c)
  \/ \E r \in Requests : Accept(r) \/ Serve(r) \/ Failure(r)
  \/ Parser

(* Fairness: the runs and the threads of the server go on, and a request   *)
(* is received or lost; nothing is assumed about the parser.               *)
Fairness ==
  /\ \A c \in Clients : WF_vars(Client(c))
  /\ \A r \in Requests : WF_vars(Accept(r) \/ (r = Request(r[1]) /\ Good /\ RequestLost(r[1]))) /\ WF_vars(Serve(r))

Spec == Init /\ [][Next]_vars /\ Fairness

-----------------------------------------------------------------------------
TypeOK ==
  /\ hello \in BOOLEAN
  /\ cpc \in [Clients -> ClientPlaces]
  /\ attempt \in [Clients -> 0..MaxAttempts] /\ resent \in [Clients -> BOOLEAN]
  /\ sends \in [Clients -> 0..MaxSends] /\ exitcode \in [Clients -> {0, 2}]
  /\ rterid \in [Clients -> Nat]
  /\ mails \in [Clients -> SUBSET Texts]
  /\ spc \in [Requests -> Places]
  /\ process \in [Requests -> Processes \cup {NoProc}]
  /\ startdir \in [Requests -> dirs]
  /\ depth \in [Requests -> 1..Len(DirPath) + 1]
  /\ idx \in [Requests -> Nat] /\ id \in [Requests -> 0..nextid-1]
  /\ cwd \in [Processes -> dirs] /\ Root \in dirs /\ dirs \subseteq Seq(STRING)
  /\ \A f \in DOMAIN files : files[f] \in Requests \cup {Broken}
  /\ rows \subseteq [id : 1..nextid-1, req : Requests, file : {Host[c] : c \in Clients} \X Nat]
  /\ nextid \in Nat \ {0} /\ taken \subseteq {row.id : row \in rows}
  /\ alone \in [Requests -> BOOLEAN] /\ saved \in [Requests -> Written]
  /\ faults \in 0..MaxFaults

(* The id rteval prints is the id of a committed row of its own report, no *)
(* two runs are told the same one, and the mails agree with the outcome    *)
(* (rtevalXMLRPC.SendReport).                                              *)
SuccessIsQueued ==
  \A c \in Clients :
    /\ exitcode[c] = 0 =>
         /\ \E row \in RowsOf(c) : row.id = rterid[c]
         /\ \A d \in Clients \ {c} : rterid[d] # rterid[c]
    /\ "failure" \in mails[c] => exitcode[c] = 2 /\ cpc[c] = "exited"
    /\ "success" \in mails[c] => exitcode[c] = 0 /\ "warning" \in mails[c]

(* A row whose request overlapped another one, or whose file could not be  *)
(* opened: its name is there for a later report to take.                   *)
Doubtful(row) == ~ alone[row.req] \/ saved[row.req] = "nothing"

(* A report whose file was written without another request in between, the *)
(* same run's own retry among them, is in the file its row names until the *)
(* parser takes it, or has been mistaken for the report of a doubtful row  *)
(* of the same name (XMLRPC_API1.SendReport).                              *)
KeptForParser ==
  \A row \in rows :
    alone[row.req] /\ saved[row.req] = "whole" /\ row.id \notin taken =>
      \/ row.file \in DOMAIN files /\ files[row.file] = row.req
      \/ \E other \in rows : other.file = row.file /\ Doubtful(other)

-----------------------------------------------------------------------------
(* A submission is a delivery, at least once. *)
D == INSTANCE Delivery WITH
       sent   <- sends,
       copies <- [c \in Clients |-> Cardinality(RowsOf(c))],
       answer <- [c \in Clients |->
                    IF cpc[c] = "exited" THEN IF exitcode[c] = 0 THEN "accepted" ELSE "failed"
                    ELSE IF cpc[c] = "raised" THEN "error"
                    ELSE IF cpc[c] = "not run" THEN "not run" ELSE "none"]

Delivers == D!Spec
=============================================================================
