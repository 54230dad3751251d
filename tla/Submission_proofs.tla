------------------------- MODULE Submission_proofs -------------------------
(* Proofs about Submission: what rteval is told is true, submitting a       *)
(* report is an at-least-once delivery, and undisturbed reports are kept.   *)
EXTENDS Submission, TLAPS, FiniteSetTheorems

(* The row a request stores. *)
Row(r) == [id |-> id[r], req |-> r, file |-> FileOf(r)]

(* TypeOK, in the parts that change together. *)
ClientTypes ==
  /\ hello \in BOOLEAN
  /\ cpc \in [Clients -> ClientPlaces]
  /\ attempt \in [Clients -> 0..MaxAttempts] /\ resent \in [Clients -> BOOLEAN]
  /\ sends \in [Clients -> 0..MaxSends] /\ exitcode \in [Clients -> {0, 2}]
  /\ rterid \in [Clients -> Nat]
  /\ mails \in [Clients -> SUBSET Texts]

PlaceTypes == spc \in [Requests -> Places]

ThreadTypes ==
  /\ process \in [Requests -> Processes \cup {NoProc}] /\ startdir \in [Requests -> dirs]
  /\ depth \in [Requests -> 1..Len(DirPath) + 1] /\ idx \in [Requests -> Nat]
  /\ cwd \in [Processes -> dirs] /\ Root \in dirs /\ dirs \subseteq Seq(STRING)
  /\ alone \in [Requests -> BOOLEAN]

StoreTypes ==
  /\ \A f \in DOMAIN files : files[f] \in Requests \cup {Broken}
  /\ rows \subseteq [id : 1..nextid-1, req : Requests, file : {Host[c] : c \in Clients} \X Nat]
  /\ nextid \in Nat \ {0} /\ id \in [Requests -> 0..nextid-1]
  /\ taken \subseteq {row.id : row \in rows} /\ saved \in [Requests -> Written]

Types == ClientTypes /\ PlaceTypes /\ ThreadTypes /\ StoreTypes /\ faults \in 0..MaxFaults

(* Each attempt but the last has been a request, and nothing is final       *)
(* before SendReport() is over.                                             *)
ClientOK(c) ==
  /\ cpc[c] \in {"ping", "call", "waiting"} => attempt[c] < MaxAttempts
  /\ cpc[c] \in {"ping", "not run"} => sends[c] = 0
  /\ cpc[c] = "call" => sends[c] >= attempt[c]
  /\ cpc[c] = "waiting" => sends[c] > attempt[c]
  /\ exitcode[c] = 0 => cpc[c] = "exited"
  /\ cpc[c] # "exited" => mails[c] \subseteq {"warning"}
  /\ "failure" \in mails[c] => exitcode[c] = 2
  /\ "success" \in mails[c] => exitcode[c] = 0 /\ "warning" \in mails[c]

ClientInv == \A c \in Clients : ClientOK(c)

(* A request at work is one that was sent, by a process of the server, on   *)
(* the path of datadir; ids are unique.                                     *)
RequestInv ==
  \A r \in Requests :
    /\ spc[r] # "none" => r[2] =< sends[r[1]]
    /\ spc[r] \in AtWork => process[r] \in Processes
    /\ spc[r] \in {"none", "sent", "lost", "test", "mkdir", "chdir"} => depth[r] =< Len(DirPath)
    /\ spc[r] \in {"commit", "reply"} => id[r] # 0
    /\ \A q \in Requests : id[q] = id[r] => q = r \/ id[r] = 0

(* A reply is about a row, and a row about a request that is over.          *)
RowInv ==
  /\ \A row \in rows : row = Row(row.req) /\ row.id # 0 /\ spc[row.req] \in {"reply", "fault"}
  /\ \A r \in Requests : spc[r] = "reply" => Row(r) \in rows

(* The id rteval was told is that of a reply to a request of its own. *)
ToldInv ==
  \A c \in Clients :
    IF exitcode[c] = 0
    THEN \E r \in Requests : r[1] = c /\ spc[r] = "reply" /\ rterid[c] = id[r]
    ELSE rterid[c] = 0

IInv == Types /\ ClientInv /\ RequestInv /\ RowInv /\ ToldInv

-----------------------------------------------------------------------------
(* What the steps have in common. *)

LEMMA TypeParts == TypeOK <=> Types
BY DEF TypeOK, Types, ClientTypes, PlaceTypes, ThreadTypes, StoreTypes

LEMMA Numbers ==
  MaxAttempts \in Nat \ {0} /\ MaxSends \in Nat /\ MaxSends >= MaxAttempts /\ MaxFaults \in Nat
BY SubmissionAssumption

LEMMA RequestParts ==
  /\ \A r \in Requests : /\ r[1] \in Clients /\ r[2] \in 1..MaxSends /\ r = <<r[1], r[2]>>
                         /\ FileOf(r) = <<Host[r[1]], idx[r]>>
  /\ \A c \in Clients, n \in 1..MaxSends : <<c, n>> \in Requests /\ <<c, n>>[1] = c /\ <<c, n>>[2] = n
BY DEF Requests, FileOf

LEMMA PathFacts ==
  /\ DirPath \in Seq(STRING) /\ Len(DirPath) \in Nat \ {0}
  /\ \A i \in 1..Len(DirPath) : DirPath[i] \in STRING
  /\ \A n \in 0..Len(DirPath) : SubSeq(DirPath, 1, n) \in Seq(STRING)
  /\ SubSeq(DirPath, 1, 0) = Root /\ SubSeq(DirPath, 1, Len(DirPath)) = DirPath
  /\ \A n \in 1..Len(DirPath) : Append(SubSeq(DirPath, 1, n - 1), DirPath[n]) = SubSeq(DirPath, 1, n)
<1>1. DirPath \in Seq(STRING) /\ DirPath # << >>
  BY SubmissionAssumption
<1> QED BY <1>1 DEF Root

LEMMA InitInv == Init => IInv
<1> SUFFICES ASSUME Init PROVE IInv
  OBVIOUS
<1>1. dirs \subseteq Seq(STRING) /\ Root \in dirs
  <2>1. PICK n \in {0, Len(DirPath)} : dirs = {SubSeq(DirPath, 1, i) : i \in 0..n}
    BY DEF Init
  <2>2. n \in Nat /\ 0 \in 0..n /\ 0..n \subseteq 0..Len(DirPath)
    <3>1. Len(DirPath) \in Nat
      BY PathFacts
    <3> QED BY <2>1, <3>1
  <2>3. Root \in dirs
    BY <2>1, <2>2, PathFacts
  <2> QED BY <2>1, <2>2, <2>3, PathFacts
<1>2. TypeOK
  <2>1. 1 \in 1..Len(DirPath) + 1 /\ MaxSends >= MaxAttempts /\ MaxAttempts \in Nat /\ MaxFaults \in Nat
        /\ MaxSends \in Nat
    BY PathFacts, Numbers
  <2> QED BY <1>1, <2>1 DEF Init, TypeOK, Broken, ClientPlaces, Places, Written
<1>3. ClientInv
  BY Numbers DEF Init, ClientInv, ClientOK
<1>4. RequestInv
  <2>1. Len(DirPath) \in Nat \ {0}
    BY PathFacts
  <2>2. \A r \in Requests : spc[r] = "none" /\ depth[r] = 1 /\ id[r] = 0
    BY DEF Init
  <2> QED BY <2>1, <2>2 DEF RequestInv, AtWork, FilePart
<1>5. RowInv /\ ToldInv
  BY DEF Init, RowInv, ToldInv
<1> QED BY <1>2, <1>3, <1>4, <1>5, TypeParts DEF IInv

-----------------------------------------------------------------------------
(* The steps of a run change nothing of the server but requests that are    *)
(* sent or lost.                                                            *)

LEMMA AskInv ==
  ASSUME IInv, NEW c \in Clients, PingAnswered(c) \/ PingFails(c), UNCHANGED faults
  PROVE  IInv'
<1>0. /\ Types /\ ClientTypes /\ PlaceTypes /\ ThreadTypes /\ StoreTypes /\ faults \in 0..MaxFaults
      /\ ClientInv /\ RequestInv /\ RowInv /\ ToldInv
  BY DEF IInv, Types
<1>1. PICK l \in ClientPlaces, a \in 0..MaxAttempts-1 :
         /\ l = "ping" \/ l = "call" \/ l = "not run"
         /\ cpc[c] = "ping" /\ cpc' = [cpc EXCEPT ![c] = l] /\ attempt' = [attempt EXCEPT ![c] = a]
         /\ l # "ping" => a = 0
         /\ UNCHANGED <<hello, resent, sends, exitcode, rterid, mails, spc>> /\ ServerSame
  <2>a. "ping" \in ClientPlaces /\ "call" \in ClientPlaces /\ "not run" \in ClientPlaces
    BY DEF ClientPlaces
  <2>0. attempt[c] \in Nat /\ 0 \in 0..MaxAttempts-1
        /\ (attempt[c] + 1 < MaxAttempts => attempt[c] + 1 \in 0..MaxAttempts-1)
    BY <1>0, Numbers DEF ClientTypes
  <2>1. CASE PingAnswered(c)
    BY <2>a, <2>0, <2>1 DEF PingAnswered, GoTo
  <2>2. CASE PingFails(c) /\ attempt[c] + 1 < MaxAttempts
    <3>1. cpc' = [cpc EXCEPT ![c] = "ping"]
      BY <1>0, <2>2 DEF PingFails, ClientTypes
    <3> QED BY <2>a, <2>0, <2>2, <3>1 DEF PingFails
  <2>3. CASE PingFails(c) /\ ~(attempt[c] + 1 < MaxAttempts)
    <3>1. CASE c \in NoAbort
      BY <2>a, <2>0, <2>3, <3>1 DEF PingFails, GoTo
    <3>2. CASE c \notin NoAbort
      BY <2>a, <2>0, <2>3, <3>2 DEF PingFails, GoTo
    <3> QED BY <3>1, <3>2
  <2> QED BY <2>1, <2>2, <2>3
<1>a. a \in 0..MaxAttempts /\ a < MaxAttempts
  BY Numbers
<1>2. UNCHANGED <<tableVars, diskVars, threadVars, taken, spc>>
  BY <1>1 DEF ServerSame
<1>3. Types'
  <2>1. cpc' \in [Clients -> ClientPlaces]
    BY <1>0, <1>1 DEF ClientTypes
  <2>2. attempt' \in [Clients -> 0..MaxAttempts]
    BY <1>0, <1>1, <1>a DEF ClientTypes
  <2>3. ClientTypes'
    BY <1>0, <1>1, <2>1, <2>2 DEF ClientTypes
  <2>4. PlaceTypes' /\ ThreadTypes' /\ StoreTypes' /\ faults' \in 0..MaxFaults
    BY <1>0, <1>2 DEF PlaceTypes, ThreadTypes, StoreTypes, tableVars, diskVars, threadVars
  <2> QED BY <2>3, <2>4 DEF Types
<1>4. ClientInv'
  <2>1. sends[c] = 0 /\ exitcode[c] # 0 /\ mails[c] \subseteq {"warning"}
    BY <1>0, <1>1 DEF ClientInv, ClientOK, ClientTypes
  <2>2. a < MaxAttempts /\ (l = "call" => 0 >= a)
    <3>1. l = "call" => a = 0
      BY <1>1
    <3> QED BY <3>1, <1>a
  <2> QED BY <1>0, <1>1, <2>1, <2>2 DEF ClientTypes, ClientInv, ClientOK
<1>5. RequestInv' /\ RowInv'
  BY <1>0, <1>1, <1>2 DEF RequestInv, RowInv, Row, FileOf, tableVars, diskVars, threadVars
<1>6. ToldInv'
  BY <1>0, <1>1, <1>2 DEF ToldInv, tableVars
<1> QED BY <1>3, <1>4, <1>5, <1>6 DEF IInv

(* Another request, of SendReport() or of the library. *)
LEMMA SendInv ==
  ASSUME IInv, NEW c \in Clients, Call(c) \/ Resend(c), faults' \in 0..MaxFaults
  PROVE  IInv'
<1>0. /\ Types /\ ClientTypes /\ PlaceTypes /\ ThreadTypes /\ StoreTypes
      /\ ClientInv /\ RequestInv /\ RowInv /\ ToldInv
  BY DEF IInv, Types
<1>a. sends[c] \in Nat /\ attempt[c] \in Nat
  BY <1>0, Numbers DEF ClientTypes
<1>1. PICK n \in 1..MaxSends, b \in BOOLEAN :
        /\ cpc[c] = "call" \/ cpc[c] = "waiting"
        /\ cpc' = [cpc EXCEPT ![c] = "waiting"] /\ resent' = [resent EXCEPT ![c] = b]
        /\ n = sends[c] + 1 /\ sends' = [sends EXCEPT ![c] = n] /\ spc' = [spc EXCEPT ![<<c, n>>] = "sent"]
        /\ UNCHANGED <<hello, attempt, exitcode, rterid, mails>> /\ ServerSame
  <2>1. CASE Call(c)
    <3>1. sends[c] + 1 \in 1..MaxSends
      BY <1>a, <2>1, Numbers DEF Call
    <3> QED BY <2>1, <3>1 DEF Call, GoTo
  <2>2. CASE Resend(c)
    <3>1. attempt[c] < MaxAttempts
      BY <1>0, <2>2 DEF Resend, ClientInv, ClientOK
    <3>2. sends[c] + 1 \in 1..MaxSends
      <4>1. sends[c] + MaxAttempts - attempt[c] =< MaxSends
        BY <2>2 DEF Resend
      <4> QED BY <4>1, <1>a, <3>1, Numbers
    <3>3. cpc' = [cpc EXCEPT ![c] = "waiting"]
      BY <1>0, <2>2 DEF Resend, ClientTypes
    <3> QED BY <2>2, <3>2, <3>3 DEF Resend
  <2> QED BY <2>1, <2>2
<1>2. UNCHANGED <<tableVars, diskVars, threadVars, taken>>
  BY <1>1 DEF ServerSame
<1>3. /\ <<c, n>> \in Requests /\ <<c, n>>[1] = c /\ <<c, n>>[2] = n
      /\ spc[<<c, n>>] = "none" /\ spc'[<<c, n>>] = "sent"
      /\ \A r \in Requests : r # <<c, n>> => spc'[r] = spc[r]
  <2>1. <<c, n>> \in Requests /\ <<c, n>>[1] = c /\ <<c, n>>[2] = n
    BY RequestParts
  <2>2. ~(n =< sends[c])
    BY <1>1, <1>a
  <2>3. spc[<<c, n>>] = "none"
    BY <1>0, <2>1, <2>2 DEF RequestInv
  <2> QED BY <1>0, <1>1, <2>1, <2>3 DEF PlaceTypes
<1>4. Types'
  <2>1. sends' \in [Clients -> 0..MaxSends]
    <3>1. n \in 0..MaxSends
      OBVIOUS
    <3> QED BY <1>0, <1>1, <3>1 DEF ClientTypes
  <2>2. cpc' \in [Clients -> ClientPlaces]
    BY <1>0, <1>1 DEF ClientTypes, ClientPlaces
  <2>3. ClientTypes'
    BY <1>0, <1>1, <2>1, <2>2 DEF ClientTypes
  <2>4. PlaceTypes'
    BY <1>0, <1>1 DEF PlaceTypes, Places
  <2>5. ThreadTypes' /\ StoreTypes'
    BY <1>0, <1>2 DEF ThreadTypes, StoreTypes, tableVars, diskVars, threadVars
  <2> QED BY <2>3, <2>4, <2>5 DEF Types
<1>5. ClientInv'
  <2>1. attempt[c] < MaxAttempts /\ exitcode[c] # 0 /\ mails[c] \subseteq {"warning"}
    BY <1>0, <1>1 DEF ClientInv, ClientOK, ClientTypes
  <2>2. sends[c] >= attempt[c]
    <3>1. sends[c] >= attempt[c] \/ sends[c] > attempt[c]
      BY <1>0, <1>1 DEF ClientInv, ClientOK
    <3> QED BY <3>1, <1>a
  <2>3. n > attempt[c]
    BY <1>1, <1>a, <2>2
  <2> QED BY <1>0, <1>1, <2>1, <2>3 DEF ClientTypes, ClientInv, ClientOK
<1>6. RequestInv'
  <2>1. UNCHANGED <<process, depth, id>>
    BY <1>2 DEF threadVars, tableVars
  <2>2. depth[<<c, n>>] =< Len(DirPath)
    BY <1>0, <1>3 DEF RequestInv
  <2>3. \A r \in Requests : spc'[r] # "none" => r[2] =< sends'[r[1]]
    <3> TAKE r \in Requests
    <3>1. CASE r = <<c, n>>
      BY <3>1, <1>0, <1>1, <1>3 DEF ClientTypes
    <3>2. CASE r # <<c, n>>
      <4>1. r[1] \in Clients /\ r[2] \in Nat /\ sends[r[1]] \in Nat
        BY <1>0, RequestParts, Numbers DEF ClientTypes
      <4>2. sends'[r[1]] = IF r[1] = c THEN sends[c] + 1 ELSE sends[r[1]]
        BY <1>0, <1>1, <4>1 DEF ClientTypes
      <4>3. sends'[r[1]] >= sends[r[1]]
        BY <4>1, <4>2, <1>a
      <4>4. spc'[r] # "none" => r[2] =< sends[r[1]]
        BY <1>0, <1>3, <3>2 DEF RequestInv
      <4> QED BY <4>1, <4>2, <4>3, <4>4
    <3> QED BY <3>1, <3>2
  <2> QED BY <1>0, <1>3, <2>1, <2>2, <2>3 DEF RequestInv, AtWork, FilePart
<1>7. RowInv'
  BY <1>0, <1>2, <1>3 DEF StoreTypes, RowInv, Row, FileOf, threadVars, tableVars
<1>8. ToldInv'
  BY <1>0, <1>1, <1>2, <1>3 DEF ToldInv, tableVars
<1> QED BY <1>4, <1>5, <1>6, <1>7, <1>8 DEF IInv

(* An attempt that failed, whether or not its request has been lost. *)
LEMMA ErrorInv ==
  ASSUME IInv, NEW c \in Clients, SocketError(c), faults' \in 0..MaxFaults,
         UNCHANGED spc \/ (spc[Request(c)] = "sent" /\ spc' = [spc EXCEPT ![Request(c)] = "lost"])
  PROVE  IInv'
<1>0. /\ Types /\ ClientTypes /\ PlaceTypes /\ ThreadTypes /\ StoreTypes
      /\ ClientInv /\ RequestInv /\ RowInv /\ ToldInv
  BY DEF IInv, Types
<1>a. sends[c] \in Nat /\ attempt[c] \in Nat /\ attempt[c] < MaxAttempts /\ sends[c] > attempt[c]
  <2>1. cpc[c] = "waiting"
    BY DEF SocketError
  <2>2. sends[c] \in Nat /\ attempt[c] \in Nat
    BY <1>0, Numbers DEF ClientTypes
  <2> QED BY <1>0, <2>1, <2>2 DEF ClientInv, ClientOK
<1>1. PICK l \in ClientPlaces, text \in Texts :
        /\ cpc[c] = "waiting" /\ cpc' = [cpc EXCEPT ![c] = l]
        /\ attempt' = [attempt EXCEPT ![c] = attempt[c] + 1] /\ Mail(c, {text})
        /\ \/ l = "call" /\ text = "warning" /\ attempt[c] + 1 < MaxAttempts
           \/ l = "exited" /\ text = "failure"
        /\ UNCHANGED <<hello, resent, sends, exitcode, rterid>> /\ ServerSame
  <2>1. "call" \in ClientPlaces /\ "exited" \in ClientPlaces /\ "warning" \in Texts /\ "failure" \in Texts
    BY DEF ClientPlaces, Texts
  <2>2. CASE attempt[c] + 1 < MaxAttempts
    BY <2>1, <2>2 DEF SocketError, GoTo
  <2>3. CASE ~(attempt[c] + 1 < MaxAttempts)
    BY <2>1, <2>3 DEF SocketError, GoTo
  <2> QED BY <2>2, <2>3
<1>2. UNCHANGED <<tableVars, diskVars, threadVars, taken>>
  BY <1>1 DEF ServerSame
<1>3. /\ mails' \in [Clients -> SUBSET Texts]
      /\ mails'[c] = mails[c] \/ mails'[c] = mails[c] \cup {text}
      /\ \A d \in Clients \ {c} : mails'[d] = mails[d]
  BY <1>0, <1>1 DEF Mail, ClientTypes
<1>4. \A r \in Requests : spc'[r] = spc[r] \/ (spc[r] = "sent" /\ spc'[r] = "lost")
  BY <1>0 DEF PlaceTypes
<1>5. Types'
  <2>1. attempt' \in [Clients -> 0..MaxAttempts]
    <3>1. attempt[c] + 1 \in 0..MaxAttempts
      BY <1>a, Numbers
    <3> QED BY <1>0, <1>1, <3>1 DEF ClientTypes
  <2>2. ClientTypes'
    BY <1>0, <1>1, <1>3, <2>1 DEF ClientTypes
  <2>3. PlaceTypes'
    BY <1>0 DEF PlaceTypes, Places
  <2>4. ThreadTypes' /\ StoreTypes'
    BY <1>0, <1>2 DEF ThreadTypes, StoreTypes, tableVars, diskVars, threadVars
  <2> QED BY <2>2, <2>3, <2>4 DEF Types
<1>6. ClientInv'
  <2>1. exitcode[c] = 2 /\ mails[c] \subseteq {"warning"}
    BY <1>0, <1>1 DEF ClientInv, ClientOK, ClientTypes
  <2>2. sends[c] >= attempt[c] + 1
    BY <1>a
  <2>3. cpc'[c] = l /\ attempt'[c] = attempt[c] + 1
    BY <1>0, <1>1 DEF ClientTypes
  <2>4. exitcode'[c] = 2 /\ sends'[c] = sends[c]
    BY <1>1, <2>1
  <2>5. ClientOK(c)'
    <3>1. CASE l = "call"
      <4>1. text = "warning" /\ mails'[c] \subseteq {"warning"} /\ attempt'[c] < MaxAttempts
        BY <1>1, <1>3, <2>1, <2>3, <3>1
      <4>2. sends'[c] >= attempt'[c]
        BY <2>2, <2>3, <2>4
      <4> QED BY <2>3, <2>4, <3>1, <4>1, <4>2 DEF ClientOK
    <3>2. CASE l = "exited"
      <4>1. cpc'[c] = "exited" /\ "success" \notin mails'[c]
        BY <1>1, <1>3, <2>1, <2>3, <3>2
      <4> QED BY <2>4, <4>1 DEF ClientOK
    <3> QED BY <1>1, <3>1, <3>2
  <2>6. ASSUME NEW d \in Clients \ {c} PROVE ClientOK(d)'
    <3>1. UNCHANGED <<cpc[d], attempt[d], sends[d], exitcode[d], mails[d]>>
      BY <1>0, <1>1, <1>3 DEF ClientTypes
    <3> QED BY <1>0, <3>1 DEF ClientInv, ClientOK
  <2> QED BY <2>5, <2>6 DEF ClientInv
<1>7. RequestInv'
  BY <1>0, <1>1, <1>2, <1>4 DEF RequestInv, AtWork, FilePart, threadVars, tableVars
<1>8. RowInv'
  BY <1>0, <1>2, <1>4 DEF StoreTypes, RowInv, Row, FileOf, threadVars, tableVars
<1>9. ToldInv'
  BY <1>0, <1>1, <1>2, <1>4 DEF ToldInv, tableVars
<1> QED BY <1>5, <1>6, <1>7, <1>8, <1>9 DEF IInv

(* The reply, or the fault of the server. *)
LEMMA AnsweredInv ==
  ASSUME IInv, NEW c \in Clients, Replied(c) \/ Faulted(c), UNCHANGED faults
  PROVE  IInv'
<1>0. /\ Types /\ ClientTypes /\ PlaceTypes /\ ThreadTypes /\ StoreTypes /\ faults \in 0..MaxFaults
      /\ ClientInv /\ RequestInv /\ RowInv /\ ToldInv
  BY DEF IInv, Types
<1>1. cpc[c] = "waiting" /\ UNCHANGED <<hello, attempt, resent, sends, spc>> /\ ServerSame
  BY DEF Replied, Faulted
<1>2. UNCHANGED <<tableVars, diskVars, threadVars, taken>>
  BY <1>1 DEF ServerSame
<1>3. PlaceTypes' /\ ThreadTypes' /\ StoreTypes' /\ RequestInv' /\ RowInv' /\ faults' \in 0..MaxFaults
  <2>1. PlaceTypes' /\ ThreadTypes' /\ StoreTypes' /\ faults' \in 0..MaxFaults
    BY <1>0, <1>1, <1>2 DEF PlaceTypes, ThreadTypes, StoreTypes, tableVars, diskVars, threadVars
  <2>2. RequestInv' /\ RowInv'
    BY <1>0, <1>1, <1>2 DEF RequestInv, RowInv, Row, FileOf, tableVars, diskVars, threadVars
  <2> QED BY <2>1, <2>2
<1>4. exitcode[c] = 2 /\ mails[c] \subseteq {"warning"}
  <2>1. ClientOK(c) /\ exitcode[c] \in {0, 2}
    BY <1>0 DEF ClientInv, ClientTypes
  <2> QED BY <1>1, <2>1 DEF ClientOK
<1>5. CASE Faulted(c)
  <2>1. cpc' = [cpc EXCEPT ![c] = "raised"] /\ UNCHANGED <<exitcode, rterid, mails>>
    BY <1>5 DEF Faulted, GoTo
  <2>2. ClientTypes'
    BY <1>0, <1>1, <2>1 DEF ClientTypes, ClientPlaces
  <2>3. ClientInv'
    BY <1>0, <1>1, <1>4, <2>1 DEF ClientInv, ClientOK, ClientTypes
  <2>4. ToldInv'
    BY <1>0, <1>1, <1>2, <2>1 DEF ToldInv, tableVars
  <2> QED BY <1>3, <2>2, <2>3, <2>4 DEF IInv, Types
<1>6. CASE Replied(c)
  <2> DEFINE r == Request(c)
  <2>1. /\ spc[r] = "reply" /\ cpc' = [cpc EXCEPT ![c] = "exited"]
        /\ exitcode' = [exitcode EXCEPT ![c] = 0] /\ rterid' = [rterid EXCEPT ![c] = id[r]]
        /\ IF "warning" \in mails[c] THEN Mail(c, {"success"}) ELSE UNCHANGED mails
    BY <1>6 DEF Replied, GoTo
  <2>2. r \in Requests /\ r[1] = c /\ id[r] \in Nat
    <3>1. sends[c] \in 0..MaxSends /\ attempt[c] \in Nat
      BY <1>0, Numbers DEF ClientTypes
    <3>2. sends[c] > attempt[c]
      BY <1>0, <1>1 DEF ClientInv, ClientOK
    <3>3. sends[c] \in 1..MaxSends
      BY <3>1, <3>2, Numbers
    <3>4. r \in Requests /\ r[1] = c
      BY <3>3, RequestParts DEF Request
    <3> QED BY <1>0, <3>4 DEF StoreTypes
  <2> HIDE DEF r
  <2>3. /\ mails' \in [Clients -> SUBSET Texts]
        /\ mails'[c] = mails[c] \/ ("warning" \in mails[c] /\ mails'[c] = mails[c] \cup {"success"})
        /\ \A d \in Clients \ {c} : mails'[d] = mails[d]
    BY <1>0, <2>1 DEF Mail, ClientTypes, Texts
  <2>4. ClientTypes'
    <3>1. cpc' \in [Clients -> ClientPlaces] /\ exitcode' \in [Clients -> {0, 2}]
      BY <1>0, <2>1 DEF ClientTypes, ClientPlaces
    <3>2. rterid' \in [Clients -> Nat]
      BY <1>0, <2>1, <2>2 DEF ClientTypes
    <3> QED BY <1>0, <1>1, <2>3, <3>1, <3>2 DEF ClientTypes
  <2>5. ClientInv'
    <3>1. cpc'[c] = "exited" /\ exitcode'[c] = 0
      BY <1>0, <2>1 DEF ClientTypes
    <3>2. \A d \in Clients \ {c} : cpc'[d] = cpc[d] /\ exitcode'[d] = exitcode[d]
      BY <1>0, <2>1 DEF ClientTypes
    <3>3. ClientOK(c)'
      BY <1>1, <1>4, <2>3, <3>1 DEF ClientOK
    <3>4. ASSUME NEW d \in Clients \ {c} PROVE ClientOK(d)'
      <4>1. UNCHANGED <<cpc[d], attempt[d], sends[d], exitcode[d], mails[d]>>
        BY <1>1, <2>3, <3>2
      <4> QED BY <1>0, <4>1 DEF ClientInv, ClientOK
    <3> QED BY <3>3, <3>4 DEF ClientInv
  <2>6. ToldInv'
    BY <1>0, <1>1, <1>2, <2>1, <2>2 DEF ToldInv, ClientTypes, tableVars
  <2> QED BY <1>3, <2>4, <2>5, <2>6 DEF IInv, Types
<1> QED BY <1>5, <1>6

-----------------------------------------------------------------------------
(* The steps of a server's thread. *)

Saves(r) == SaveReport(r) \/ SaveFails(r)

LEMMA SavesWrites ==
  ASSUME NEW r \in Requests, Saves(r)
  PROVE  \E what \in Written : Write(r, what)
BY DEF Saves, SaveReport, SaveFails, Written

ServerSteps(r) ==
  \/ (\E p \in Processes : Receive(r, p)) \/ TestDir(r) \/ MakeDir(r) \/ EnterDir(r) \/ ReturnDir(r)
  \/ GetFilename(r) \/ Saves(r) \/ DatabaseFails(r)

(* Up to the insertion a request only moves on, and only its own variables  *)
(* and the process it is in change.                                         *)
LEMMA FileStep ==
  ASSUME IInv, NEW r \in Requests, ServerSteps(r)
  PROVE  /\ spc[r] = "sent" \/ spc[r] \in FilePart \/ spc[r] = "insert"
         /\ \E b \in FilePart \cup {"insert", "fault"} : spc' = [spc EXCEPT ![r] = b]
         /\ spc'[r] \in {"test", "mkdir", "chdir"} => depth'[r] =< Len(DirPath)
         /\ spc'[r] \in AtWork => process'[r] \in Processes
         /\ \A q \in Requests \ {r} : UNCHANGED <<process[q], depth[q], idx[q]>>
         /\ ThreadTypes' /\ saved' \in [Requests -> Written]
         /\ \A f \in DOMAIN files' : files'[f] \in Requests \cup {Broken}
         /\ UNCHANGED <<hello, clientVars, taken, tableVars>>
<1>0. /\ PlaceTypes /\ ThreadTypes /\ StoreTypes /\ RequestInv
  BY DEF IInv, Types
<1>1. ASSUME NEW p \in Processes, Receive(r, p)
      PROVE  /\ spc[r] = "sent" /\ spc' = [spc EXCEPT ![r] = "test"]
             /\ process' = [process EXCEPT ![r] = p] /\ ThreadTypes'
             /\ UNCHANGED <<depth, idx, files, saved>> /\ UNCHANGED <<hello, clientVars, taken, tableVars>>
  <2>1. /\ spc[r] = "sent" /\ spc' = [spc EXCEPT ![r] = "test"]
        /\ process' = [process EXCEPT ![r] = p] /\ startdir' = [startdir EXCEPT ![r] = cwd[p]]
        /\ cwd' = [cwd EXCEPT ![p] = Root] /\ UNCHANGED <<depth, idx, dirs, files, saved>>
        /\ UNCHANGED <<hello, clientVars, taken, tableVars>>
    BY <1>1 DEF Receive, At, ClientSame
  <2>2. alone' \in [Requests -> BOOLEAN]
    BY <1>0, <1>1 DEF Receive, ThreadTypes
  <2>3. process' \in [Requests -> Processes \cup {NoProc}] /\ startdir' \in [Requests -> dirs]
        /\ cwd' \in [Processes -> dirs]
    BY <1>0, <2>1 DEF ThreadTypes
  <2> QED BY <1>0, <2>1, <2>2, <2>3 DEF ThreadTypes
<1>2. ASSUME TestDir(r)
      PROVE  /\ spc[r] = "test" /\ \E b \in {"mkdir", "chdir"} : spc' = [spc EXCEPT ![r] = b]
             /\ UNCHANGED <<threadVars, cwd, dirs, files, saved>> /\ UNCHANGED <<hello, clientVars, taken, tableVars>>
  BY <1>2 DEF TestDir, At, ClientSame, diskVars
<1>3. ASSUME MakeDir(r)
      PROVE  /\ spc[r] = "mkdir" /\ \E b \in {"fault", "chdir"} : spc' = [spc EXCEPT ![r] = b]
             /\ ThreadTypes'
             /\ UNCHANGED <<threadVars, files, saved>> /\ UNCHANGED <<hello, clientVars, taken, tableVars>>
  <2>1. /\ spc[r] = "mkdir" /\ dirs' = dirs \cup {Component(r)} /\ UNCHANGED <<threadVars, cwd, files, saved>>
        /\ UNCHANGED <<hello, clientVars, taken, tableVars>>
        /\ \E b \in {"fault", "chdir"} : spc' = [spc EXCEPT ![r] = b]
    BY <1>3 DEF MakeDir, At, ClientSame
  <2>2. Component(r) \in Seq(STRING)
    <3>1. depth[r] =< Len(DirPath) /\ process[r] \in Processes /\ depth[r] \in 1..Len(DirPath) + 1
      BY <1>0, <2>1 DEF RequestInv, ThreadTypes, AtWork, FilePart
    <3>2. depth[r] \in 1..Len(DirPath)
      BY <3>1, PathFacts
    <3>3. DirPath[depth[r]] \in STRING /\ cwd[process[r]] \in Seq(STRING)
      BY <1>0, <3>1, <3>2, PathFacts DEF ThreadTypes
    <3> QED BY <3>3 DEF Component, Here
  <2>3. ThreadTypes'
    BY <1>0, <2>1, <2>2 DEF ThreadTypes, threadVars
  <2> QED BY <2>1, <2>3
<1>4. ASSUME EnterDir(r)
      PROVE  /\ spc[r] = "chdir" /\ \E b \in {"fault", "test", "back"} : spc' = [spc EXCEPT ![r] = b]
             /\ ThreadTypes' /\ (spc'[r] = "test" => depth'[r] =< Len(DirPath))
             /\ \A q \in Requests \ {r} : depth'[q] = depth[q]
             /\ UNCHANGED <<process, idx, files, saved>> /\ UNCHANGED <<hello, clientVars, taken, tableVars>>
  <2>0. /\ spc[r] = "chdir" /\ UNCHANGED <<process, startdir, idx, alone, dirs, files, saved>>
        /\ UNCHANGED <<hello, clientVars, taken, tableVars>>
    BY <1>4 DEF EnterDir, At, ClientSame
  <2>1. depth[r] \in 1..Len(DirPath) /\ depth[r] + 1 \in 1..Len(DirPath) + 1 /\ process[r] \in Processes
    <3>1. depth[r] =< Len(DirPath) /\ process[r] \in Processes /\ depth[r] \in 1..Len(DirPath) + 1
      BY <1>0, <2>0 DEF RequestInv, ThreadTypes, AtWork, FilePart
    <3> QED BY <3>1, PathFacts
  <2>2. CASE Component(r) \notin dirs
    <3>1. spc' = [spc EXCEPT ![r] = "fault"] /\ UNCHANGED <<cwd, depth>>
      BY <1>4, <2>2 DEF EnterDir, At
    <3>2. spc'[r] = "fault"
      BY <1>0, <3>1 DEF PlaceTypes
    <3> QED BY <1>0, <2>0, <3>1, <3>2 DEF ThreadTypes
  <2>3. CASE Component(r) \in dirs
    <3>1. /\ cwd' = [cwd EXCEPT ![process[r]] = Component(r)] /\ depth' = [depth EXCEPT ![r] = depth[r] + 1]
      BY <1>4, <2>3 DEF EnterDir, ChDir
    <3>2. spc' = [spc EXCEPT ![r] = IF depth[r] < Len(DirPath) THEN "test" ELSE "back"]
      BY <1>4, <2>3 DEF EnterDir, At
    <3>3. ThreadTypes'
      <4>1. cwd' \in [Processes -> dirs] /\ depth' \in [Requests -> 1..Len(DirPath) + 1]
        BY <1>0, <2>1, <2>3, <3>1 DEF ThreadTypes
      <4> QED BY <1>0, <2>0, <4>1 DEF ThreadTypes
    <3>4. depth'[r] = depth[r] + 1 /\ \A q \in Requests \ {r} : depth'[q] = depth[q]
      BY <1>0, <3>1 DEF ThreadTypes
    <3>5. CASE depth[r] < Len(DirPath)
      <4>1. depth'[r] =< Len(DirPath)
        BY <2>1, <3>4, <3>5, PathFacts
      <4>2. spc' = [spc EXCEPT ![r] = "test"]
        BY <3>2, <3>5
      <4> QED BY <2>0, <3>3, <3>4, <4>1, <4>2
    <3>6. CASE ~(depth[r] < Len(DirPath))
      <4>1. spc' = [spc EXCEPT ![r] = "back"]
        BY <3>2, <3>6
      <4>2. spc'[r] = "back"
        BY <1>0, <4>1 DEF PlaceTypes
      <4> QED BY <2>0, <3>3, <3>4, <4>1, <4>2
    <3> QED BY <3>5, <3>6
  <2> QED BY <2>2, <2>3
<1>5. ASSUME ReturnDir(r)
      PROVE  /\ spc[r] = "back" /\ spc' = [spc EXCEPT ![r] = "name"] /\ ThreadTypes'
             /\ \A q \in Requests \ {r} : depth'[q] = depth[q]
             /\ UNCHANGED <<process, idx, files, saved>> /\ UNCHANGED <<hello, clientVars, taken, tableVars>>
  <2>1. /\ spc[r] = "back" /\ spc' = [spc EXCEPT ![r] = "name"]
        /\ cwd' = [cwd EXCEPT ![process[r]] = startdir[r]]
        /\ startdir' = [startdir EXCEPT ![r] = Root] /\ depth' = [depth EXCEPT ![r] = 1]
        /\ UNCHANGED <<process, idx, alone, dirs, files, saved>> /\ UNCHANGED <<hello, clientVars, taken, tableVars>>
    BY <1>5 DEF ReturnDir, At, ChDir, ClientSame
  <2>2. 1 \in 1..Len(DirPath) + 1
    BY PathFacts
  <2> QED BY <1>0, <2>1, <2>2 DEF ThreadTypes
<1>6. ASSUME GetFilename(r)
      PROVE  /\ spc[r] = "name" /\ \E b \in {"name", "save"} : spc' = [spc EXCEPT ![r] = b] /\ ThreadTypes'
             /\ \A q \in Requests \ {r} : idx'[q] = idx[q]
             /\ UNCHANGED <<process, depth, files, saved>> /\ UNCHANGED <<hello, clientVars, taken, tableVars>>
  <2>1. /\ spc[r] = "name" /\ \E b \in {"name", "save"} : spc' = [spc EXCEPT ![r] = b]
        /\ idx' = idx \/ idx' = [idx EXCEPT ![r] = idx[r] + 1]
        /\ UNCHANGED <<process, startdir, depth, alone, cwd, dirs, files, saved>>
        /\ UNCHANGED <<hello, clientVars, taken, tableVars>>
    BY <1>6 DEF GetFilename, At, ClientSame, diskVars
  <2>2. idx' \in [Requests -> Nat] /\ \A q \in Requests \ {r} : idx'[q] = idx[q]
    <3>1. idx \in [Requests -> Nat] /\ idx[r] + 1 \in Nat
      BY <1>0 DEF ThreadTypes
    <3> QED BY <2>1, <3>1
  <2> QED BY <1>0, <2>1, <2>2 DEF ThreadTypes
<1>7. ASSUME NEW what \in Written, Write(r, what)
      PROVE  /\ spc[r] = "save" /\ spc' = [spc EXCEPT ![r] = "insert"]
             /\ saved' \in [Requests -> Written] /\ \A f \in DOMAIN files' : files'[f] \in Requests \cup {Broken}
             /\ UNCHANGED <<threadVars, cwd, dirs>> /\ UNCHANGED <<hello, clientVars, taken, tableVars>>
  <2>1. /\ spc[r] = "save" /\ spc' = [spc EXCEPT ![r] = "insert"]
        /\ saved' = [saved EXCEPT ![r] = what]
        /\ UNCHANGED <<threadVars, cwd, dirs>> /\ UNCHANGED <<hello, clientVars, taken, tableVars>>
    BY <1>7 DEF Write, At, ClientSame
  <2>2. \A f \in DOMAIN files' : files'[f] \in Requests \cup {Broken}
    <3>1. CASE what = "nothing"
      BY <1>0, <1>7, <3>1 DEF Write, StoreTypes
    <3>2. CASE what # "nothing"
      <4>1. files' = [f \in DOMAIN files \cup {FileOf(r)} |->
                        IF f # FileOf(r) THEN files[f] ELSE IF what = "whole" THEN r ELSE Broken]
        BY <1>7, <3>2 DEF Write
      <4> QED BY <1>0, <4>1 DEF StoreTypes
    <3> QED BY <3>1, <3>2
  <2> QED BY <1>0, <2>1, <2>2 DEF StoreTypes
<1>8. ASSUME DatabaseFails(r)
      PROVE  /\ spc[r] = "insert" /\ spc' = [spc EXCEPT ![r] = "fault"]
             /\ UNCHANGED <<threadVars, diskVars>> /\ UNCHANGED <<hello, clientVars, taken, tableVars>>
  BY <1>8 DEF DatabaseFails, At, ClientSame
<1>9. depth[r] =< Len(DirPath) \/ spc[r] \notin {"sent", "test", "mkdir"}
  BY <1>0 DEF RequestInv
<1>10. spc[r] \in AtWork => process[r] \in Processes
  BY <1>0 DEF RequestInv
<1> USE <1>0, <1>9, <1>10 DEF FilePart, AtWork, ServerSteps, threadVars, diskVars, PlaceTypes
<1>11. CASE \E p \in Processes : Receive(r, p)
  BY <1>1, <1>11 DEF ThreadTypes, StoreTypes
<1>12. CASE TestDir(r)
  BY <1>2, <1>12 DEF ThreadTypes, StoreTypes
<1>13. CASE MakeDir(r)
  BY <1>3, <1>13 DEF StoreTypes
<1>14. CASE EnterDir(r)
  BY <1>4, <1>14 DEF StoreTypes
<1>15. CASE ReturnDir(r)
  BY <1>5, <1>15 DEF StoreTypes
<1>16. CASE GetFilename(r)
  BY <1>6, <1>16 DEF StoreTypes
<1>17. CASE Saves(r)
  BY <1>7, <1>17, SavesWrites DEF ThreadTypes
<1>18. CASE DatabaseFails(r)
  BY <1>8, <1>18 DEF ThreadTypes, StoreTypes
<1> QED BY <1>11, <1>12, <1>13, <1>14, <1>15, <1>16, <1>17, <1>18 DEF ServerSteps

LEMMA FileStepInv ==
  ASSUME IInv, NEW r \in Requests, ServerSteps(r), faults' \in 0..MaxFaults
  PROVE  IInv'
<1>0. /\ ClientTypes /\ PlaceTypes /\ ThreadTypes /\ StoreTypes
      /\ ClientInv /\ RequestInv /\ RowInv /\ ToldInv
  BY DEF IInv, Types
<1>1. PICK b \in FilePart \cup {"insert", "fault"} : spc' = [spc EXCEPT ![r] = b]
  BY FileStep
<1>2. UNCHANGED <<hello, clientVars, taken, tableVars>>
  BY FileStep
<1>3. spc'[r] = b /\ \A q \in Requests \ {r} : UNCHANGED <<spc[q], process[q], depth[q], idx[q]>>
  BY <1>0, <1>1, FileStep DEF PlaceTypes
<1>4. Types'
  <2>1. ClientTypes'
    BY <1>0, <1>2 DEF ClientTypes, clientVars
  <2>2. PlaceTypes'
    <3>1. b \in Places
      BY DEF Places, AtWork
    <3> QED BY <1>0, <1>1, <3>1 DEF PlaceTypes
  <2>3. ThreadTypes'
    BY FileStep
  <2>4. StoreTypes'
    BY <1>0, <1>2, FileStep DEF StoreTypes, tableVars
  <2> QED BY <2>1, <2>2, <2>3, <2>4 DEF Types
<1>5. ClientInv'
  BY <1>0, <1>2 DEF ClientInv, ClientOK, clientVars
<1>6. spc[r] # "none" /\ spc[r] # "reply" /\ spc[r] # "fault"
      /\ b # "none" /\ b # "sent" /\ b # "lost" /\ b # "commit" /\ b # "reply"
  BY FileStep DEF FilePart
<1>7. RequestInv'
  <2>1. r[2] =< sends[r[1]] /\ UNCHANGED <<sends, id>>
    BY <1>0, <1>2, <1>6 DEF RequestInv, clientVars, tableVars
  <2>2. spc'[r] \in AtWork => process'[r] \in Processes
    BY FileStep
  <2>3. spc'[r] \in {"none", "sent", "lost", "test", "mkdir", "chdir"} => depth'[r] =< Len(DirPath)
    BY <1>3, <1>6, FileStep
  <2> QED BY <1>0, <1>3, <1>6, <2>1, <2>2, <2>3 DEF RequestInv
<1>8. RowInv'
  <2>1. \A row \in rows : row.req \in Requests \ {r} /\ Row(row.req)' = Row(row.req)
    BY <1>0, <1>2, <1>3, <1>6 DEF RowInv, StoreTypes, Row, FileOf, tableVars
  <2>2. \A q \in Requests : spc'[q] = "reply" => q # r /\ Row(q)' = Row(q)
    BY <1>2, <1>3, <1>6 DEF Row, FileOf, tableVars
  <2> QED BY <1>0, <1>2, <1>3, <2>1, <2>2 DEF RowInv, tableVars
<1>9. ToldInv'
  BY <1>0, <1>2, <1>3, <1>6 DEF ToldInv, clientVars, tableVars
<1> QED BY <1>4, <1>5, <1>7, <1>8, <1>9 DEF IInv

(* The id is new, and the row is stored under it. *)
LEMMA InsertInv ==
  ASSUME IInv, NEW r \in Requests, Insert(r), UNCHANGED faults
  PROVE  IInv'
<1>0. /\ ClientTypes /\ PlaceTypes /\ ThreadTypes /\ StoreTypes /\ faults \in 0..MaxFaults
      /\ ClientInv /\ RequestInv /\ RowInv /\ ToldInv
  BY DEF IInv, Types
<1>1. /\ spc[r] = "insert" /\ spc' = [spc EXCEPT ![r] = "commit"] /\ nextid' = nextid + 1
      /\ id' = [id EXCEPT ![r] = nextid] /\ UNCHANGED <<threadVars, diskVars, rows>>
      /\ UNCHANGED <<hello, clientVars, taken>>
  BY DEF Insert, At, ClientSame
<1>2. nextid \in Nat \ {0} /\ \A q \in Requests : id[q] \in 0..nextid-1
  BY <1>0 DEF StoreTypes
<1>3. /\ spc'[r] = "commit" /\ id'[r] = nextid
      /\ \A q \in Requests \ {r} : spc'[q] = spc[q] /\ id'[q] = id[q]
  BY <1>0, <1>1 DEF PlaceTypes, StoreTypes
<1>4. Types'
  <2>1. ClientTypes' /\ ThreadTypes' /\ faults' \in 0..MaxFaults
    BY <1>0, <1>1 DEF ClientTypes, ThreadTypes, clientVars, threadVars, diskVars
  <2>2. PlaceTypes'
    BY <1>0, <1>1 DEF PlaceTypes, Places, AtWork
  <2>3. StoreTypes'
    <3>1. nextid' \in Nat \ {0} /\ 0..nextid-1 \subseteq 0..nextid'-1 /\ 1..nextid-1 \subseteq 1..nextid'-1
          /\ nextid \in 0..nextid'-1
      BY <1>1, <1>2
    <3>2. id' \in [Requests -> 0..nextid'-1]
      BY <1>0, <1>1, <3>1 DEF StoreTypes
    <3>3. rows' \subseteq [id : 1..nextid'-1, req : Requests, file : {Host[c] : c \in Clients} \X Nat]
      BY <1>0, <1>1, <3>1 DEF StoreTypes
    <3> QED BY <1>0, <1>1, <3>1, <3>2, <3>3 DEF StoreTypes, diskVars
  <2> QED BY <2>1, <2>2, <2>3 DEF Types
<1>5. ClientInv'
  BY <1>0, <1>1 DEF ClientInv, ClientOK, clientVars
<1>6. RequestInv'
  <2>1. UNCHANGED <<sends, process, depth>>
    BY <1>1 DEF clientVars, threadVars
  <2>2. r[2] =< sends[r[1]] /\ process[r] \in Processes
    BY <1>0, <1>1 DEF RequestInv, AtWork
  <2>3. nextid # 0 /\ \A q \in Requests \ {r} : id'[q] # nextid
    BY <1>2, <1>3
  <2> QED BY <1>0, <1>3, <2>1, <2>2, <2>3 DEF RequestInv
<1>7. RowInv'
  <2>1. \A row \in rows : row.req \in Requests \ {r}
    BY <1>0, <1>1 DEF RowInv, StoreTypes
  <2>2. \A q \in Requests \ {r} : Row(q)' = Row(q)
    BY <1>1, <1>3 DEF Row, FileOf, threadVars
  <2> QED BY <1>0, <1>1, <1>3, <2>1, <2>2 DEF RowInv
<1>8. ToldInv'
  BY <1>0, <1>1, <1>3 DEF ToldInv, clientVars
<1> QED BY <1>4, <1>5, <1>6, <1>7, <1>8 DEF IInv

LEMMA CommitInv ==
  ASSUME IInv, NEW r \in Requests, Commit(r) \/ CommitFails(r), faults' \in 0..MaxFaults
  PROVE  IInv'
<1>0. /\ ClientTypes /\ PlaceTypes /\ ThreadTypes /\ StoreTypes
      /\ ClientInv /\ RequestInv /\ RowInv /\ ToldInv
  BY DEF IInv, Types
<1>1. PICK b \in {"reply", "fault"} :
        /\ spc[r] = "commit" /\ spc' = [spc EXCEPT ![r] = b]
        /\ rows' = rows \cup {Row(r)} \/ (b = "fault" /\ rows' = rows)
        /\ UNCHANGED <<threadVars, diskVars, nextid, id>> /\ UNCHANGED <<hello, clientVars, taken>>
  BY DEF Commit, CommitFails, StoreRow, At, ClientSame, Row
<1>2. UNCHANGED threadVars /\ UNCHANGED diskVars /\ UNCHANGED nextid /\ UNCHANGED id
      /\ UNCHANGED hello /\ UNCHANGED clientVars /\ UNCHANGED taken
  BY <1>1
<1>3. spc'[r] = b /\ \A q \in Requests \ {r} : spc'[q] = spc[q]
  BY <1>0, <1>1 DEF PlaceTypes
<1>4. id[r] # 0 /\ r[2] =< sends[r[1]]
  BY <1>0, <1>1 DEF RequestInv
<1>5. Row(r) \in [id : 1..nextid-1, req : Requests, file : {Host[c] : c \in Clients} \X Nat]
  <2>1. id[r] \in 1..nextid-1
    <3>1. id[r] \in 0..nextid-1 /\ nextid \in Nat
      BY <1>0 DEF StoreTypes
    <3> QED BY <1>4, <3>1
  <2>2. FileOf(r) \in {Host[c] : c \in Clients} \X Nat
    <3>1. r[1] \in Clients /\ idx[r] \in Nat /\ FileOf(r) = <<Host[r[1]], idx[r]>>
      BY <1>0, RequestParts DEF ThreadTypes
    <3> QED BY <3>1
  <2> QED BY <2>1, <2>2 DEF Row
<1>6. Types'
  <2>1. ClientTypes' /\ ThreadTypes'
    BY <1>0, <1>2 DEF ClientTypes, ThreadTypes, clientVars, threadVars, diskVars
  <2>2. PlaceTypes'
    BY <1>0, <1>1 DEF PlaceTypes, Places
  <2>3. StoreTypes'
    <3>1. rows' \subseteq [id : 1..nextid-1, req : Requests, file : {Host[c] : c \in Clients} \X Nat]
      BY <1>0, <1>1, <1>5 DEF StoreTypes
    <3>2. rows \subseteq rows'
      BY <1>1
    <3> QED BY <1>0, <1>2, <3>1, <3>2 DEF StoreTypes, diskVars
  <2> QED BY <2>1, <2>2, <2>3 DEF Types
<1>7. ClientInv'
  BY <1>0, <1>2 DEF ClientInv, ClientOK, clientVars
<1>8. RequestInv'
  BY <1>0, <1>1, <1>2, <1>3, <1>4 DEF RequestInv, AtWork, FilePart, clientVars, threadVars
<1>9. RowInv'
  <2>1. \A q \in Requests : Row(q)' = Row(q)
    BY <1>2 DEF Row, FileOf, threadVars
  <2>2. Row(r).req = r /\ Row(r).id # 0
    BY <1>4 DEF Row
  <2>3. ASSUME NEW row \in rows'
        PROVE  row = Row(row.req)' /\ row.id # 0 /\ spc'[row.req] \in {"reply", "fault"}
    <3>1. CASE row = Row(r)
      BY <1>1, <1>3, <2>1, <2>2, <3>1
    <3>2. CASE row # Row(r)
      <4>1. row \in rows /\ row.req \in Requests
        BY <1>0, <1>1, <3>2 DEF StoreTypes
      <4> QED BY <1>0, <1>1, <1>3, <2>1, <4>1 DEF RowInv
    <3> QED BY <3>1, <3>2
  <2>4. \A q \in Requests : spc'[q] = "reply" => Row(q) \in rows'
    BY <1>0, <1>1, <1>3 DEF RowInv
  <2> QED BY <2>1, <2>3, <2>4 DEF RowInv
<1>10. ToldInv'
  BY <1>0, <1>1, <1>2, <1>3 DEF ToldInv, clientVars
<1> QED BY <1>6, <1>7, <1>8, <1>9, <1>10 DEF IInv

LEMMA TakeInv ==
  ASSUME IInv, NEW row \in rows, Take(row), UNCHANGED faults
  PROVE  IInv'
<1>0. /\ ClientTypes /\ PlaceTypes /\ ThreadTypes /\ StoreTypes /\ faults \in 0..MaxFaults
      /\ ClientInv /\ RequestInv /\ RowInv /\ ToldInv
  BY DEF IInv, Types
<1>1. /\ taken' = taken \cup {row.id} /\ files' = [f \in {g \in DOMAIN files : g = row.file => files[g] = Broken} |-> files[f]]
      /\ UNCHANGED <<hello, clientVars, spc, threadVars, cwd, dirs, saved, tableVars>>
  BY DEF Take
<1>2. UNCHANGED hello /\ UNCHANGED clientVars /\ UNCHANGED spc /\ UNCHANGED threadVars
      /\ UNCHANGED <<cwd, dirs, saved>> /\ UNCHANGED tableVars
  BY <1>1
<1>3. Types'
  <2>1. ClientTypes' /\ PlaceTypes' /\ ThreadTypes' /\ faults' \in 0..MaxFaults
    BY <1>0, <1>2 DEF ClientTypes, PlaceTypes, ThreadTypes, clientVars, threadVars
  <2>2. StoreTypes'
    BY <1>0, <1>1, <1>2 DEF StoreTypes, tableVars
  <2> QED BY <2>1, <2>2 DEF Types
<1>4. ClientInv' /\ RequestInv'
  BY <1>0, <1>2 DEF ClientInv, ClientOK, RequestInv, clientVars, threadVars, tableVars
<1>5. RowInv' /\ ToldInv'
  BY <1>0, <1>2 DEF RowInv, ToldInv, Row, FileOf, clientVars, threadVars, tableVars
<1> QED BY <1>3, <1>4, <1>5 DEF IInv

LEMMA SameInv ==
  ASSUME IInv, UNCHANGED vars
  PROVE  IInv'
<1>1. /\ UNCHANGED hello /\ UNCHANGED clientVars /\ UNCHANGED spc /\ UNCHANGED threadVars
      /\ UNCHANGED diskVars /\ UNCHANGED tableVars /\ UNCHANGED <<taken, faults>>
  BY DEF vars
<1>2. Types'
  BY <1>1 DEF IInv, Types, ClientTypes, PlaceTypes, ThreadTypes, StoreTypes, clientVars, threadVars,
              diskVars, tableVars
<1>3. ClientInv' /\ RequestInv' /\ RowInv' /\ ToldInv'
  BY <1>1 DEF IInv, ClientInv, ClientOK, RequestInv, RowInv, ToldInv, Row, FileOf, clientVars, threadVars,
              diskVars, tableVars
<1> QED BY <1>2, <1>3 DEF IInv

(* Every step is one of these. *)
LEMMA Steps ==
  ASSUME IInv, [Next]_vars
  PROVE  \/ \E c \in Clients :
              \/ (PingAnswered(c) \/ PingFails(c)) /\ UNCHANGED faults
              \/ (Call(c) \/ Resend(c)) /\ faults' \in 0..MaxFaults
              \/ /\ SocketError(c) /\ faults' \in 0..MaxFaults
                 /\ UNCHANGED spc \/ (spc[Request(c)] = "sent" /\ spc' = [spc EXCEPT ![Request(c)] = "lost"])
              \/ (Replied(c) \/ Faulted(c)) /\ UNCHANGED faults
         \/ \E r \in Requests :
              \/ ServerSteps(r) /\ faults' \in 0..MaxFaults
              \/ Insert(r) /\ UNCHANGED faults
              \/ (Commit(r) \/ CommitFails(r)) /\ faults' \in 0..MaxFaults
         \/ \E row \in rows : Take(row) /\ UNCHANGED faults
         \/ UNCHANGED vars
<1>0. faults \in 0..MaxFaults
  BY DEF IInv, Types
<1>1. Good => UNCHANGED faults /\ faults' \in 0..MaxFaults
  BY <1>0 DEF Good
<1>2. Fault => faults' \in 0..MaxFaults
  BY <1>0, Numbers DEF Fault
<1>3. CASE \E c \in Clients : Client(c) \/ Network(c)
  BY <1>1, <1>2, <1>3 DEF Client, Network, RequestLost, ConnectionBreaks
<1>4. CASE \E r \in Requests : Accept(r) \/ Serve(r) \/ Failure(r)
  BY <1>1, <1>2, <1>4 DEF Accept, Serve, Failure, ServerSteps, Saves
<1>5. CASE Parser
  BY <1>1, <1>5 DEF Parser
<1> QED BY <1>3, <1>4, <1>5 DEF Next

LEMMA NextInv ==
  ASSUME IInv, [Next]_vars
  PROVE  IInv'
BY Steps, AskInv, SendInv, ErrorInv, AnsweredInv, FileStepInv, InsertInv, CommitInv, TakeInv, SameInv

LEMMA Invariant == Spec => []IInv
BY InitInv, NextInv, PTL DEF Spec

-----------------------------------------------------------------------------
(* Every variable keeps its type. *)
THEOREM TypeCorrect == Spec => []TypeOK
<1>1. IInv => TypeOK
  BY TypeParts DEF IInv
<1> QED BY <1>1, Invariant, PTL

(* What SendReport() tells rteval is true (rtevalXMLRPC.SendReport): the id  *)
(* is that of a committed row of its own, nobody else is told it, and the    *)
(* mails agree with the outcome.                                             *)
THEOREM SuccessQueued == Spec => []SuccessIsQueued
<1>1. ASSUME IInv PROVE SuccessIsQueued
  <2>0. ClientTypes /\ StoreTypes /\ ClientInv /\ RequestInv /\ RowInv /\ ToldInv
    BY <1>1 DEF IInv, Types
  <2> SUFFICES ASSUME NEW c \in Clients
      PROVE  /\ exitcode[c] = 0 => /\ \E row \in RowsOf(c) : row.id = rterid[c]
                                   /\ \A d \in Clients \ {c} : rterid[d] # rterid[c]
             /\ "failure" \in mails[c] => exitcode[c] = 2 /\ cpc[c] = "exited"
             /\ "success" \in mails[c] => exitcode[c] = 0 /\ "warning" \in mails[c]
    BY DEF SuccessIsQueued
  <2>1. ASSUME exitcode[c] = 0
        PROVE  /\ \E row \in RowsOf(c) : row.id = rterid[c]
               /\ \A d \in Clients \ {c} : rterid[d] # rterid[c]
    <3>1. PICK r \in Requests : r[1] = c /\ spc[r] = "reply" /\ rterid[c] = id[r]
      BY <2>0, <2>1 DEF ToldInv
    <3>2. Row(r) \in rows /\ Row(r).req = r /\ Row(r).id = id[r] /\ id[r] # 0
      BY <2>0, <3>1 DEF RowInv, RequestInv, Row
    <3>3. Row(r) \in RowsOf(c)
      BY <3>1, <3>2 DEF RowsOf
    <3>4. ASSUME NEW d \in Clients \ {c} PROVE rterid[d] # rterid[c]
      <4>1. CASE exitcode[d] = 0
        <5>1. PICK q \in Requests : q[1] = d /\ rterid[d] = id[q]
          BY <2>0, <4>1 DEF ToldInv
        <5>2. q # r
          BY <3>1, <5>1
        <5> QED BY <2>0, <3>1, <3>2, <5>1, <5>2 DEF RequestInv
      <4>2. CASE exitcode[d] # 0
        BY <2>0, <3>1, <3>2, <4>2 DEF ToldInv
      <4> QED BY <4>1, <4>2
    <3> QED BY <3>1, <3>2, <3>3, <3>4
  <2>2. "failure" \in mails[c] => exitcode[c] = 2 /\ cpc[c] = "exited"
    BY <2>0 DEF ClientInv, ClientOK
  <2>3. "success" \in mails[c] => exitcode[c] = 0 /\ "warning" \in mails[c]
    BY <2>0 DEF ClientInv, ClientOK
  <2> QED BY <2>1, <2>2, <2>3
<1> QED BY <1>1, Invariant, PTL

-----------------------------------------------------------------------------
(* The refinement. *)

Copies(c) == Cardinality(RowsOf(c))
Outcome(l, e) ==
  IF l = "exited" THEN IF e = 0 THEN "accepted" ELSE "failed"
  ELSE IF l = "raised" THEN "error"
  ELSE IF l = "not run" THEN "not run" ELSE "none"
Answer(c) == Outcome(cpc[c], exitcode[c])

(* There is at most one row for each request that has been sent.            *)
LEMMA RowsAreSent ==
  ASSUME IInv, NEW c \in Clients
  PROVE  /\ IsFiniteSet(RowsOf(c)) /\ Copies(c) \in Nat /\ Copies(c) =< sends[c]
         /\ \A r \in Requests : r[1] = c /\ spc[r] = "commit" => Copies(c) < sends[c]
         /\ \A r \in Requests : r[1] = c /\ spc[r] = "reply" => Copies(c) > 0
<1>0. /\ ClientTypes /\ StoreTypes /\ RequestInv /\ RowInv
  BY DEF IInv, Types
<1> DEFINE f == [row \in RowsOf(c) |-> row.req[2]]
           S == 1..sends[c]
<1>1. sends[c] \in Nat
  BY <1>0, Numbers DEF ClientTypes
<1>2. IsFiniteSet(S) /\ Cardinality(S) = sends[c]
  <2>1. IsFiniteSet(S) /\ Cardinality(S) = IF 1 > sends[c] THEN 0 ELSE sends[c] - 1 + 1
    BY <1>1, FS_Interval
  <2> QED BY <1>1, <2>1
<1>3. \A row \in RowsOf(c) : /\ row.req \in Requests /\ row.req = <<c, row.req[2]>> /\ row.req[2] \in S
                             /\ row = Row(row.req) /\ spc[row.req] # "commit"
  <2> TAKE row \in RowsOf(c)
  <2>1. row \in rows /\ row.req[1] = c
    BY DEF RowsOf
  <2>2. row.req \in Requests /\ row = Row(row.req) /\ spc[row.req] # "commit" /\ spc[row.req] # "none"
    BY <1>0, <2>1 DEF StoreTypes, RowInv
  <2>3. row.req = <<c, row.req[2]>> /\ row.req[2] \in 1..MaxSends
    BY <2>1, <2>2, RequestParts
  <2>4. row.req[2] =< sends[c]
    BY <1>0, <2>1, <2>2 DEF RequestInv
  <2>5. row.req[2] \in S
    BY <1>1, <2>3, <2>4
  <2> QED BY <2>2, <2>3, <2>5
<1>4. f \in Injection(RowsOf(c), S)
  BY <1>3 DEF Injection, IsInjective
<1> HIDE DEF S
<1>5. IsFiniteSet(RowsOf(c)) /\ Copies(c) =< sends[c] /\ (Copies(c) = sends[c] => f \in Surjection(RowsOf(c), S))
  BY <1>2, <1>4, FS_Injection DEF Copies
<1>6. Copies(c) \in Nat
  BY <1>5, FS_CardinalityType DEF Copies
<1>7. ASSUME NEW r \in Requests, r[1] = c, spc[r] = "commit" PROVE Copies(c) < sends[c]
  <2>1. r[2] \in S
    <3>1. r[2] =< sends[r[1]] /\ r[2] \in 1..MaxSends
      BY <1>0, <1>7, RequestParts DEF RequestInv
    <3> QED BY <3>1, <1>1, <1>7 DEF S
  <2>2. r = <<c, r[2]>>
    BY <1>7, RequestParts
  <2>3. \A row \in RowsOf(c) : f[row] # r[2]
    BY <1>3, <1>7, <2>2
  <2>4. f \notin Surjection(RowsOf(c), S)
    BY <2>1, <2>3 DEF Surjection
  <2> QED BY <1>1, <1>5, <1>6, <2>4
<1>8. ASSUME NEW r \in Requests, r[1] = c, spc[r] = "reply" PROVE Copies(c) > 0
  <2>1. Row(r) \in RowsOf(c)
    BY <1>0, <1>8 DEF RowInv, RowsOf, Row
  <2>2. Copies(c) # 0
    BY <1>5, <2>1, FS_EmptySet DEF Copies
  <2> QED BY <1>6, <2>2
<1> QED BY <1>5, <1>6, <1>7, <1>8

(* What Delivery sees of the state. *)
copies == [c \in Clients |-> Copies(c)]
answer == [c \in Clients |-> Answer(c)]

LEMMA RowsSame ==
  ASSUME UNCHANGED rows
  PROVE  UNCHANGED copies
BY DEF copies, Copies, RowsOf

LEMMA ClientsSame ==
  ASSUME UNCHANGED clientVars
  PROVE  UNCHANGED sends /\ UNCHANGED answer
<1>1. UNCHANGED sends /\ UNCHANGED cpc /\ UNCHANGED exitcode
  BY DEF clientVars
<1> QED BY <1>1 DEF answer, Answer

(* A step of Delivery, in terms of this module.                             *)
LEMMA AbstractSteps ==
  ASSUME NEW c \in Clients, UNCHANGED hello,
         \/ answer[c] = "none" /\ sends' = [sends EXCEPT ![c] = @ + 1] /\ UNCHANGED <<copies, answer>>
         \/ copies[c] < sends[c] /\ copies' = [copies EXCEPT ![c] = @ + 1] /\ UNCHANGED <<sends, answer>>
         \/ /\ answer[c] = "none" /\ UNCHANGED <<sends, copies>>
            /\ \/ copies[c] > 0 /\ answer' = [answer EXCEPT ![c] = "accepted"]
               \/ sends[c] > 0 /\ answer' = [answer EXCEPT ![c] = "error"]
               \/ sends[c] >= MaxAttempts /\ answer' = [answer EXCEPT ![c] = "failed"]
               \/ sends[c] = 0 /\ answer' = [answer EXCEPT ![c] = "not run"]
  PROVE  D!Next
BY DEF D!Next, D!Send, D!Queue, D!Accept, D!Refuse, D!GiveUp, D!Unreachable, D!Answer,
       copies, answer, Copies, Answer, Outcome

(* What a step of a run does to its own answer.                             *)
LEMMA AnswerChanges ==
  ASSUME ClientTypes, NEW c \in Clients, NEW l, cpc' = [cpc EXCEPT ![c] = l],
         NEW e, exitcode' = [exitcode EXCEPT ![c] = e]
  PROVE  answer' = [answer EXCEPT ![c] = Outcome(l, e)]
<1>1. cpc'[c] = l /\ exitcode'[c] = e
  BY DEF ClientTypes
<1>2. \A d \in Clients \ {c} : cpc'[d] = cpc[d] /\ exitcode'[d] = exitcode[d]
  BY DEF ClientTypes
<1>3. Answer(c)' = Outcome(l, e)
  BY <1>1 DEF Answer
<1>4. \A d \in Clients \ {c} : Answer(d)' = Answer(d)
  BY <1>2 DEF Answer
<1> QED BY <1>3, <1>4 DEF answer

LEMMA RefineStep ==
  ASSUME IInv, [Next]_vars
  PROVE  [D!Next]_(D!vars)
<1>0. ClientTypes /\ PlaceTypes /\ ThreadTypes /\ StoreTypes /\ ClientInv /\ RequestInv /\ RowInv
  BY DEF IInv, Types
<1>s. UNCHANGED <<hello, sends, copies, answer>> => UNCHANGED D!vars
  BY DEF D!vars, copies, answer, Copies, Answer, Outcome
<1>e. \A c \in Clients : exitcode' = exitcode => exitcode' = [exitcode EXCEPT ![c] = exitcode[c]]
  BY <1>0 DEF ClientTypes
<1>n. \A c \in Clients : cpc[c] \in {"ping", "call", "waiting"} => answer[c] = "none"
  BY DEF answer, Answer, Outcome
<1>a. \A c \in Clients : answer = [answer EXCEPT ![c] = answer[c]]
  BY DEF answer
<1>1. ASSUME NEW c \in Clients, PingAnswered(c) \/ PingFails(c) PROVE D!Next \/ UNCHANGED D!vars
  <2>1. /\ cpc[c] = "ping" /\ UNCHANGED <<hello, sends, exitcode>> /\ ServerSame
        /\ \/ UNCHANGED cpc
           \/ cpc' = [cpc EXCEPT ![c] = "call"]
           \/ cpc' = [cpc EXCEPT ![c] = "not run"]
    BY <1>1 DEF PingAnswered, PingFails, GoTo
  <2>2. UNCHANGED copies
    BY <2>1, RowsSame DEF ServerSame, tableVars
  <2>3. sends[c] = 0 /\ answer[c] = "none"
    BY <1>0, <1>n, <2>1 DEF ClientInv, ClientOK
  <2>4. CASE UNCHANGED cpc
    BY <1>s, <2>1, <2>2, <2>4 DEF answer, Answer, Outcome
  <2>5. CASE cpc' = [cpc EXCEPT ![c] = "call"]
    <3>1. answer' = [answer EXCEPT ![c] = Outcome("call", exitcode[c])]
      <4>1. exitcode' = [exitcode EXCEPT ![c] = exitcode[c]]
        BY <1>e, <2>1
      <4> QED BY <1>0, <2>5, <4>1, AnswerChanges
    <3>2. Outcome("call", exitcode[c]) = "none"
      BY DEF Outcome
    <3> QED BY <1>a, <1>s, <2>1, <2>2, <2>3, <3>1, <3>2
  <2>6. CASE cpc' = [cpc EXCEPT ![c] = "not run"]
    <3>1. answer' = [answer EXCEPT ![c] = Outcome("not run", exitcode[c])]
      <4>1. exitcode' = [exitcode EXCEPT ![c] = exitcode[c]]
        BY <1>e, <2>1
      <4> QED BY <1>0, <2>6, <4>1, AnswerChanges
    <3>2. Outcome("not run", exitcode[c]) = "not run"
      BY DEF Outcome
    <3> QED BY <2>1, <2>2, <2>3, <3>1, <3>2, AbstractSteps
  <2> QED BY <2>1, <2>4, <2>5, <2>6
<1>2. ASSUME NEW c \in Clients, Call(c) \/ Resend(c) PROVE D!Next
  <2>1. /\ cpc[c] = "call" \/ cpc[c] = "waiting"
        /\ cpc' = [cpc EXCEPT ![c] = "waiting"] /\ sends' = [sends EXCEPT ![c] = @ + 1]
        /\ UNCHANGED <<hello, exitcode>> /\ ServerSame
    <3>1. CASE Call(c)
      BY <3>1 DEF Call, GoTo
    <3>2. CASE Resend(c)
      BY <1>0, <3>2 DEF Resend, ClientTypes
    <3> QED BY <1>2, <3>1, <3>2
  <2>2. UNCHANGED copies
    BY <2>1, RowsSame DEF ServerSame, tableVars
  <2>3. answer[c] = "none"
    BY <1>n, <2>1
  <2>4. answer' = [answer EXCEPT ![c] = Outcome("waiting", exitcode[c])]
    <3>1. cpc' = [cpc EXCEPT ![c] = "waiting"] /\ exitcode' = [exitcode EXCEPT ![c] = exitcode[c]]
      BY <1>e, <2>1
    <3> QED BY <1>0, <3>1, AnswerChanges
  <2>5. UNCHANGED answer
    <3>1. Outcome("waiting", exitcode[c]) = "none"
      BY DEF Outcome
    <3> QED BY <1>a, <2>3, <2>4, <3>1
  <2> QED BY <2>1, <2>2, <2>3, <2>5, AbstractSteps
<1>3. ASSUME NEW c \in Clients, SocketError(c) PROVE D!Next \/ UNCHANGED D!vars
  <2>1. /\ cpc[c] = "waiting" /\ UNCHANGED <<hello, sends, exitcode>> /\ ServerSame
        /\ \/ cpc' = [cpc EXCEPT ![c] = "call"]
           \/ cpc' = [cpc EXCEPT ![c] = "exited"] /\ ~(attempt[c] + 1 < MaxAttempts)
    BY <1>3 DEF SocketError, GoTo
  <2>2. UNCHANGED copies
    BY <2>1, RowsSame DEF ServerSame, tableVars
  <2>3. answer[c] = "none" /\ exitcode[c] # 0
    BY <1>0, <1>n, <2>1 DEF ClientInv, ClientOK
  <2>4. CASE cpc' = [cpc EXCEPT ![c] = "call"]
    <3>1. answer' = [answer EXCEPT ![c] = Outcome("call", exitcode[c])]
      <4>1. exitcode' = [exitcode EXCEPT ![c] = exitcode[c]]
        BY <1>e, <2>1
      <4> QED BY <1>0, <2>4, <4>1, AnswerChanges
    <3>2. Outcome("call", exitcode[c]) = "none"
      BY DEF Outcome
    <3> QED BY <1>a, <1>s, <2>1, <2>2, <2>3, <3>1, <3>2
  <2>5. CASE cpc' = [cpc EXCEPT ![c] = "exited"] /\ ~(attempt[c] + 1 < MaxAttempts)
    <3>1. answer' = [answer EXCEPT ![c] = Outcome("exited", exitcode[c])]
      <4>1. exitcode' = [exitcode EXCEPT ![c] = exitcode[c]]
        BY <1>e, <2>1
      <4> QED BY <1>0, <2>5, <4>1, AnswerChanges
    <3>3. Outcome("exited", exitcode[c]) = "failed"
      BY <2>3 DEF Outcome
    <3>2. sends[c] >= MaxAttempts
      <4>1. sends[c] > attempt[c]
        BY <1>0, <2>1 DEF ClientInv, ClientOK
      <4>2. sends[c] \in Nat /\ attempt[c] \in Nat
        BY <1>0, Numbers DEF ClientTypes
      <4> QED BY <2>5, <4>1, <4>2, Numbers
    <3> QED BY <2>1, <2>2, <2>3, <3>1, <3>2, <3>3, AbstractSteps
  <2> QED BY <2>1, <2>4, <2>5
<1>4. ASSUME NEW c \in Clients, Replied(c) \/ Faulted(c) PROVE D!Next
  <2>1. cpc[c] = "waiting" /\ UNCHANGED <<hello, sends>> /\ ServerSame
    BY <1>4 DEF Replied, Faulted
  <2>2. UNCHANGED copies /\ answer[c] = "none"
    BY <1>n, <2>1, RowsSame DEF ServerSame, tableVars
  <2>3. sends[c] \in 1..MaxSends /\ sends[c] > 0
    <3>1. sends[c] \in 0..MaxSends /\ attempt[c] \in Nat
      BY <1>0, Numbers DEF ClientTypes
    <3>2. sends[c] > attempt[c]
      BY <1>0, <2>1 DEF ClientInv, ClientOK
    <3> QED BY <3>1, <3>2, Numbers
  <2>4. CASE Faulted(c)
    <3>1. cpc' = [cpc EXCEPT ![c] = "raised"] /\ UNCHANGED exitcode
      BY <2>4 DEF Faulted, GoTo
    <3>2. answer' = [answer EXCEPT ![c] = Outcome("raised", exitcode[c])]
      BY <1>0, <1>e, <3>1, AnswerChanges
    <3>3. Outcome("raised", exitcode[c]) = "error"
      BY DEF Outcome
    <3> QED BY <2>1, <2>2, <2>3, <3>2, <3>3, AbstractSteps
  <2>5. CASE Replied(c)
    <3>1. answer' = [answer EXCEPT ![c] = "accepted"]
      <4>1. cpc' = [cpc EXCEPT ![c] = "exited"] /\ exitcode' = [exitcode EXCEPT ![c] = 0]
        BY <2>5 DEF Replied, GoTo
      <4>2. answer' = [answer EXCEPT ![c] = Outcome("exited", 0)]
        BY <1>0, <4>1, AnswerChanges
      <4> QED BY <4>2 DEF Outcome
    <3>2. Request(c) \in Requests /\ Request(c)[1] = c
      BY <2>3, RequestParts DEF Request
    <3>3. copies[c] > 0
      <4>1. spc[Request(c)] = "reply"
        BY <2>5 DEF Replied
      <4>2. Copies(c) > 0
        BY <3>2, <4>1, RowsAreSent
      <4> QED BY <4>2 DEF copies
    <3> QED BY <2>1, <2>2, <3>1, <3>3, AbstractSteps
  <2> QED BY <1>4, <2>4, <2>5
<1>5. ASSUME NEW r \in Requests, ServerSteps(r) PROVE UNCHANGED D!vars
  <2>1. UNCHANGED hello /\ UNCHANGED clientVars /\ UNCHANGED rows
    BY <1>5, FileStep DEF tableVars
  <2> QED BY <1>s, <2>1, RowsSame, ClientsSame
<1>6. ASSUME NEW r \in Requests, Insert(r) PROVE UNCHANGED D!vars
  <2>1. UNCHANGED hello /\ UNCHANGED clientVars /\ UNCHANGED rows
    BY <1>6 DEF Insert, ClientSame
  <2> QED BY <1>s, <2>1, RowsSame, ClientsSame
<1>7. ASSUME NEW r \in Requests, Commit(r) \/ CommitFails(r) PROVE D!Next \/ UNCHANGED D!vars
  <2>1. /\ spc[r] = "commit" /\ UNCHANGED hello /\ UNCHANGED clientVars
        /\ UNCHANGED rows \/ rows' = rows \cup {Row(r)}
    BY <1>7 DEF Commit, CommitFails, StoreRow, ClientSame, At, Row
  <2>2. UNCHANGED sends /\ UNCHANGED answer
    BY <2>1, ClientsSame
  <2>3. CASE UNCHANGED rows
    BY <1>s, <2>1, <2>2, <2>3, RowsSame
  <2>4. CASE rows' = rows \cup {Row(r)}
    <3> DEFINE c == r[1]
    <3>1. c \in Clients /\ Row(r).req = r
      BY RequestParts DEF Row
    <3>2. Row(r) \notin rows
      BY <1>0, <2>1, <3>1 DEF RowInv
    <3>3. RowsOf(c)' = RowsOf(c) \cup {Row(r)} /\ \A d \in Clients \ {c} : RowsOf(d)' = RowsOf(d)
      BY <2>4, <3>1 DEF RowsOf
    <3>4. Row(r) \notin RowsOf(c)
      BY <3>2 DEF RowsOf
    <3> HIDE DEF c
    <3>5. Copies(c)' = Copies(c) + 1
      <4>1. IsFiniteSet(RowsOf(c))
        BY <3>1, RowsAreSent
      <4> QED BY <3>3, <3>4, <4>1, FS_AddElement DEF Copies
    <3>6. \A d \in Clients \ {c} : Copies(d)' = Copies(d)
      BY <3>3 DEF Copies
    <3>7. copies' = [copies EXCEPT ![c] = @ + 1]
      BY <3>1, <3>5, <3>6 DEF copies
    <3>8. copies[c] < sends[c]
      <4>1. Copies(c) < sends[c]
        BY <2>1, <3>1, RowsAreSent DEF c
      <4> QED BY <3>1, <4>1 DEF copies
    <3> QED BY <2>1, <2>2, <3>1, <3>7, <3>8, AbstractSteps
  <2> QED BY <2>1, <2>3, <2>4
<1>8. ASSUME NEW row \in rows, Take(row) PROVE UNCHANGED D!vars
  <2>1. UNCHANGED hello /\ UNCHANGED clientVars /\ UNCHANGED rows
    BY <1>8 DEF Take, tableVars
  <2> QED BY <1>s, <2>1, RowsSame, ClientsSame
<1>9. ASSUME UNCHANGED vars PROVE UNCHANGED D!vars
  <2>1. UNCHANGED hello /\ UNCHANGED clientVars /\ UNCHANGED rows
    BY <1>9 DEF vars, tableVars
  <2> QED BY <1>s, <2>1, RowsSame, ClientsSame
<1> QED BY <1>1, <1>2, <1>3, <1>4, <1>5, <1>6, <1>7, <1>8, <1>9, Steps

(* A submission is an at-least-once delivery: every step is one that        *)
(* Delivery allows.  That it ends is liveness, and left to TLC.             *)
THEOREM Refinement == Spec => D!Safe
<1>1. Init => D!Init
  <2> SUFFICES ASSUME Init PROVE D!Init
    OBVIOUS
  <2>1. \A c \in Clients : RowsOf(c) = {}
    BY DEF Init, RowsOf
  <2>2. \A c \in Clients : Copies(c) = 0 /\ Answer(c) = "none"
    BY <2>1, FS_EmptySet DEF Init, Copies, Answer, Outcome
  <2> QED BY <2>2 DEF Init, D!Init, Copies, Answer, Outcome
<1> QED BY <1>1, RefineStep, Invariant, PTL DEF Spec, D!Safe

-----------------------------------------------------------------------------
(* Undisturbed reports are kept. *)

(* The file has been written, and a row may follow. *)
Past(r) == spc[r] \in {"insert", "commit"} \/ Row(r) \in rows

(* The parser has taken it, or another row has a doubtful claim to its file. *)
Gone(r) ==
  \/ Row(r) \in rows /\ id[r] \in taken
  \/ \E row \in rows : row.file = FileOf(r) /\ Doubtful(row)

(* Undisturbed, and its file was opened. *)
Sound(r) == alone[r] /\ saved[r] # "nothing"

(* What alone remembers is true, and a request alone in its process walks   *)
(* down the path, to a directory that is there.                             *)
AloneInv ==
  \A r, q \in Requests : alone[r] /\ spc[r] \in FilePart /\ spc[q] \in FilePart => q = r

WalkOK(r) ==
  /\ spc[r] \in {"none", "sent", "lost"} => depth[r] = 1
  /\ alone[r] /\ spc[r] \in {"test", "mkdir", "chdir"} => Here(r) = SubSeq(DirPath, 1, depth[r] - 1)
  /\ alone[r] /\ spc[r] \in {"back", "name", "save"} => DirPath \in dirs
WalkInv == \A r \in Requests : WalkOK(r)

(* Its file is there; who has chosen the same name did so when it was gone; *)
(* and of two sound requests with one name the first is gone.               *)
KeepInv ==
  \A r \in Requests : Sound(r) /\ Past(r) =>
    Gone(r) \/ (FileOf(r) \in DOMAIN files /\ (saved[r] = "whole" => files[FileOf(r)] = r))
SaveInv ==
  \A r, q \in Requests : Sound(r) /\ Past(r) /\ spc[q] = "save" /\ FileOf(q) = FileOf(r) => Gone(r)
PairInv ==
  \A r, q \in Requests :
    r # q /\ Sound(r) /\ Sound(q) /\ Past(r) /\ Past(q) /\ FileOf(q) = FileOf(r) => Gone(r) \/ Gone(q)

FileInv == AloneInv /\ WalkInv /\ KeepInv /\ SaveInv /\ PairInv

LEMMA InitFileInv == Init => FileInv
<1> SUFFICES ASSUME Init PROVE FileInv
  OBVIOUS
<1>1. \A r \in Requests : spc[r] = "none" /\ depth[r] = 1 /\ Row(r) \notin rows
  BY DEF Init
<1> QED BY <1>1 DEF FileInv, AloneInv, WalkInv, WalkOK, KeepInv, SaveInv, PairInv, Past, FilePart

(* What a step may do to the files, and what it does not take back.         *)
Effects(r) ==
  /\ alone'[r] => alone[r]
  /\ spc[r] # "name" => idx'[r] = idx[r]
  /\ spc[r] # "insert" => id'[r] = id[r]
  /\ spc'[r] \in {"insert", "commit"} => spc[r] \in {"insert", "commit"} \/ Saves(r)
  /\ spc'[r] = "save" => spc[r] = "save" \/ (GetFilename(r) /\ FileOf(r) \notin DOMAIN files)
  /\ spc'[r] \in FilePart => spc[r] \in FilePart \/ \E p \in Processes : Receive(r, p)

NewRows == \A row \in rows' \ rows : spc[row.req] = "commit"

(* Nothing but the client's part of the state. *)
LEMMA ClientEffects ==
  ASSUME IInv, UNCHANGED <<threadVars, diskVars, tableVars, taken>>, NEW r \in Requests,
         spc'[r] = spc[r] \/ spc'[r] \notin AtWork
  PROVE  Effects(r)
<1>1. UNCHANGED threadVars /\ UNCHANGED tableVars
  OBVIOUS
<1> QED BY <1>1 DEF Effects, threadVars, tableVars, AtWork, FilePart

LEMMA ServerEffects ==
  ASSUME IInv, NEW r \in Requests, ServerSteps(r), NEW q \in Requests
  PROVE  Effects(q) /\ rows' = rows /\ taken' = taken /\ dirs \subseteq dirs'
<1>0. PlaceTypes /\ ThreadTypes /\ RequestInv
  BY DEF IInv, Types
<1>1. UNCHANGED <<rows, id, taken>> /\ spc[r] # "reply"
  BY FileStep DEF tableVars, FilePart
<1>2. q # r => UNCHANGED <<spc[q], idx[q]>>
  BY <1>0, FileStep DEF PlaceTypes
<1>3. dirs \subseteq dirs'
  BY DEF ServerSteps, Receive, TestDir, MakeDir, EnterDir, ReturnDir, GetFilename, Saves, SaveReport, SaveFails, Write,
         DatabaseFails, diskVars
<1>4. alone'[q] => alone[q]
  <2>1. CASE \E p \in Processes : Receive(r, p)
    BY <2>1 DEF Receive
  <2>2. CASE ~ \E p \in Processes : Receive(r, p)
    <3>1. UNCHANGED alone
      BY <2>2 DEF ServerSteps, TestDir, MakeDir, EnterDir, ReturnDir, GetFilename, Saves, SaveReport, SaveFails, Write, DatabaseFails,
                  threadVars
    <3> QED BY <3>1
  <2> QED BY <2>1, <2>2
<1>5. spc'[r] \in {"insert", "commit"} => Saves(r)
  BY <1>0 DEF PlaceTypes, Saves, ServerSteps, Receive, TestDir, MakeDir, EnterDir, ReturnDir, GetFilename,
              DatabaseFails, At
<1>6. spc'[r] = "save" => GetFilename(r) /\ FileOf(r) \notin DOMAIN files
  BY <1>0 DEF PlaceTypes, ServerSteps, Receive, TestDir, MakeDir, EnterDir, ReturnDir, GetFilename,
              Saves, SaveReport, SaveFails, Write, DatabaseFails, At
<1>7. spc'[r] \in FilePart => spc[r] \in FilePart \/ \E p \in Processes : Receive(r, p)
  BY <1>0 DEF PlaceTypes, ServerSteps, TestDir, MakeDir, EnterDir, ReturnDir, GetFilename,
              Saves, SaveReport, SaveFails, Write, DatabaseFails, At, FilePart
<1>8. spc[r] # "name" => idx'[r] = idx[r]
  <2>1. CASE GetFilename(r)
    BY <2>1 DEF GetFilename, At
  <2>2. CASE ~GetFilename(r)
    <3>1. UNCHANGED idx
      BY <2>2 DEF ServerSteps, Receive, TestDir, MakeDir, EnterDir, ReturnDir, Saves, SaveReport, SaveFails, Write, DatabaseFails,
                  threadVars
    <3> QED BY <3>1
  <2> QED BY <2>1, <2>2
<1> QED BY <1>1, <1>2, <1>3, <1>4, <1>5, <1>6, <1>7, <1>8 DEF Effects

LEMMA StepEffects ==
  ASSUME IInv, [Next]_vars
  PROVE  /\ \A r \in Requests : Effects(r)
         /\ rows \subseteq rows' /\ NewRows /\ taken \subseteq taken' /\ dirs \subseteq dirs'
         /\ \/ UNCHANGED <<files, saved>> \/ \E r \in Requests : Saves(r)
            \/ \E row \in rows : Take(row) /\ UNCHANGED <<rows, saved>>
<1>0. PlaceTypes /\ ThreadTypes /\ StoreTypes
  BY DEF IInv, Types
<1> DEFINE Goal == /\ \A r \in Requests : Effects(r)
                   /\ rows \subseteq rows' /\ NewRows /\ taken \subseteq taken' /\ dirs \subseteq dirs'
                   /\ \/ UNCHANGED <<files, saved>> \/ \E r \in Requests : Saves(r)
                      \/ \E row \in rows : Take(row) /\ UNCHANGED <<rows, saved>>
<1>1. ASSUME UNCHANGED <<threadVars, diskVars, tableVars, taken>>,
             \A r \in Requests : spc'[r] = spc[r] \/ spc'[r] \notin AtWork
      PROVE  Goal
  <2>1. \A r \in Requests : Effects(r)
    BY <1>1, ClientEffects
  <2>2. UNCHANGED <<rows, taken, dirs, files, saved>>
    BY <1>1 DEF diskVars, tableVars
  <2> QED BY <2>1, <2>2 DEF NewRows
<1>2. ASSUME NEW c \in Clients, ServerSame,
             UNCHANGED spc \/ \E q \in Requests, b \in {"sent", "lost"} : spc' = [spc EXCEPT ![q] = b]
      PROVE  Goal
  <2>1. UNCHANGED <<threadVars, diskVars, tableVars, taken>>
    BY <1>2 DEF ServerSame
  <2>2. \A r \in Requests : spc'[r] = spc[r] \/ spc'[r] \notin AtWork
    BY <1>0, <1>2 DEF PlaceTypes, AtWork, FilePart
  <2> QED BY <1>1, <2>1, <2>2
<1>3. ASSUME NEW c \in Clients, PingAnswered(c) \/ PingFails(c) \/ Replied(c) \/ Faulted(c) PROVE Goal
  BY <1>2, <1>3 DEF PingAnswered, PingFails, Replied, Faulted
<1>4. ASSUME NEW c \in Clients, Call(c) \/ Resend(c) PROVE Goal
  <2>1. ServerSame /\ spc' = [spc EXCEPT ![<<c, sends[c] + 1>>] = "sent"]
    BY <1>4 DEF Call, Resend
  <2>2. CASE <<c, sends[c] + 1>> \in Requests
    BY <1>2, <2>1, <2>2
  <2>3. CASE <<c, sends[c] + 1>> \notin Requests
    <3>1. UNCHANGED spc
      BY <1>0, <2>1, <2>3 DEF PlaceTypes
    <3> QED BY <1>2, <2>1, <3>1
  <2> QED BY <2>2, <2>3
<1>5. ASSUME NEW c \in Clients, SocketError(c),
             UNCHANGED spc \/ (spc[Request(c)] = "sent" /\ spc' = [spc EXCEPT ![Request(c)] = "lost"])
      PROVE  Goal
  <2>1. ServerSame
    BY <1>5 DEF SocketError
  <2>2. CASE Request(c) \in Requests
    BY <1>2, <1>5, <2>1, <2>2
  <2>3. CASE Request(c) \notin Requests
    <3>1. UNCHANGED spc
      BY <1>0, <1>5, <2>3 DEF PlaceTypes
    <3> QED BY <1>2, <2>1, <3>1
  <2> QED BY <2>2, <2>3
<1>6. ASSUME NEW r \in Requests, ServerSteps(r) PROVE Goal
  <2>1. (\A q \in Requests : Effects(q)) /\ rows' = rows /\ taken' = taken /\ dirs \subseteq dirs'
    BY <1>6, ServerEffects
  <2>2. UNCHANGED <<files, saved>> \/ Saves(r)
    BY <1>6 DEF Saves, ServerSteps, Receive, TestDir, MakeDir, EnterDir, ReturnDir, GetFilename,
                DatabaseFails, diskVars
  <2> QED BY <2>1, <2>2 DEF NewRows
<1>7. ASSUME NEW r \in Requests, Insert(r) \/ Commit(r) \/ CommitFails(r) PROVE Goal
  <2>1. /\ UNCHANGED threadVars /\ UNCHANGED diskVars /\ UNCHANGED taken
        /\ spc[r] = "insert" \/ (spc[r] = "commit" /\ UNCHANGED id)
        /\ \E b \in {"commit", "reply", "fault"} : spc' = [spc EXCEPT ![r] = b]
        /\ \/ UNCHANGED rows
           \/ spc[r] = "commit" /\ rows' = rows \cup {Row(r)}
    BY <1>7 DEF Insert, Commit, CommitFails, StoreRow, At, ClientSame, Row
  <2>2. \A q \in Requests \ {r} : id'[q] = id[q] /\ spc'[q] = spc[q]
    <3>1. UNCHANGED id \/ id' = [id EXCEPT ![r] = nextid]
      BY <1>7 DEF Insert, Commit, CommitFails
    <3> QED BY <1>0, <2>1, <3>1 DEF PlaceTypes, StoreTypes
  <2>3. spc'[r] \in {"commit", "reply", "fault"}
    BY <1>0, <2>1 DEF PlaceTypes
  <2>4. \A q \in Requests : Effects(q)
    BY <2>1, <2>2, <2>3 DEF Effects, FilePart, threadVars
  <2>5. NewRows /\ rows \subseteq rows'
    BY <2>1 DEF NewRows, Row
  <2> QED BY <2>1, <2>4, <2>5 DEF diskVars
<1>8. ASSUME NEW row \in rows, Take(row) PROVE Goal
  <2>1. UNCHANGED <<spc, threadVars, dirs, saved, tableVars>> /\ taken \subseteq taken'
    BY <1>8 DEF Take
  <2>2. UNCHANGED <<spc, idx, alone, id, rows, dirs, saved>>
    BY <2>1 DEF threadVars, tableVars
  <2> QED BY <1>8, <2>1, <2>2 DEF Effects, NewRows
<1>9. ASSUME UNCHANGED vars PROVE Goal
  <2>1. UNCHANGED <<threadVars, diskVars, tableVars, taken>> /\ UNCHANGED spc
    BY <1>9 DEF vars
  <2> QED BY <1>1, <2>1
<1> QED BY <1>3, <1>4, <1>5, <1>6, <1>7, <1>8, <1>9, Steps

(* A request past its file keeps its name, and what is gone stays so.       *)
LEMMA PastStable ==
  ASSUME IInv, [Next]_vars, NEW r \in Requests
  PROVE  /\ Past(r) => FileOf(r)' = FileOf(r) /\ saved'[r] = saved[r] /\ (Gone(r) => Gone(r)')
         /\ Past(r)' => Past(r) \/ Saves(r)
         /\ Sound(r)' /\ Past(r) => Sound(r)
<1>0. RowInv /\ StoreTypes
  BY DEF IInv, Types
<1>1. Effects(r) /\ rows \subseteq rows' /\ NewRows /\ taken \subseteq taken'
      /\ \A q \in Requests : alone'[q] => alone[q]
  BY StepEffects DEF Effects
<1>2. Row(r) \in rows => spc[r] \in {"reply", "fault"}
  BY <1>0 DEF RowInv, Row
<1>3. Past(r) => FileOf(r)' = FileOf(r)
  BY <1>1, <1>2 DEF Past, Effects, FileOf
<1>4. Row(r) \in rows => Row(r)' = Row(r) /\ id'[r] = id[r]
  BY <1>1, <1>2 DEF Effects, Row, FileOf
<1>7. ASSUME NEW q \in Requests, Past(q) PROVE saved'[q] = saved[q]
  <2>1. spc[q] # "save"
    BY <1>0, <1>7 DEF RowInv, Past, Row
  <2>2. CASE \E x \in Requests : Saves(x)
    <3>1. PICK x \in Requests, what \in Written : Write(x, what)
      BY <2>2, SavesWrites
    <3>2. spc[x] = "save" /\ saved' = [saved EXCEPT ![x] = what]
      BY <3>1 DEF Write, At
    <3> QED BY <1>0, <2>1, <3>2 DEF StoreTypes
  <2> QED BY <2>2, StepEffects
<1>5. ASSUME Past(r), Gone(r) PROVE Gone(r)'
  <2>1. CASE Row(r) \in rows /\ id[r] \in taken
    BY <1>1, <1>4, <2>1 DEF Gone
  <2>2. CASE \E row \in rows : row.file = FileOf(r) /\ Doubtful(row)
    <3>1. PICK row \in rows : row.file = FileOf(r) /\ Doubtful(row)
      BY <2>2
    <3>2. row.req \in Requests /\ row = Row(row.req)
      BY <1>0 DEF StoreTypes, RowInv
    <3>4. Past(row.req)
      BY <3>2 DEF Past
    <3>3. Doubtful(row)' /\ row \in rows'
      BY <1>1, <1>7, <3>1, <3>2, <3>4 DEF Doubtful
    <3> QED BY <1>3, <1>5, <3>1, <3>3 DEF Gone
  <2> QED BY <1>5, <2>1, <2>2 DEF Gone
<1>6. ASSUME Past(r)' PROVE Past(r) \/ Saves(r)
  <2>1. CASE spc'[r] \in {"insert", "commit"}
    BY <1>1, <2>1 DEF Effects, Past
  <2>2. CASE Row(r)' \in rows
    <3>1. Row(r)'.req = r
      BY DEF Row
    <3>2. Row(r) \in rows
      BY <1>0, <2>2, <3>1 DEF RowInv
    <3> QED BY <3>2 DEF Past
  <2>3. CASE Row(r)' \in rows' \ rows
    <3>1. Row(r)'.req = r
      BY DEF Row
    <3> QED BY <1>1, <2>3, <3>1 DEF NewRows, Past
  <2> QED BY <1>6, <2>1, <2>2, <2>3 DEF Past
<1> QED BY <1>1, <1>3, <1>5, <1>6, <1>7 DEF Sound

LEMMA AloneStep ==
  ASSUME IInv, AloneInv, [Next]_vars
  PROVE  AloneInv'
<1>0. PlaceTypes /\ ThreadTypes
  BY DEF IInv, Types
<1> SUFFICES ASSUME NEW r \in Requests, NEW q \in Requests, alone'[r], spc'[r] \in FilePart, spc'[q] \in FilePart
             PROVE  q = r
  BY DEF AloneInv
<1>1. Effects(r) /\ Effects(q)
  BY StepEffects
<1>2. ASSUME NEW x \in Requests, \E p \in Processes : Receive(x, p)
      PROVE  /\ spc' = [spc EXCEPT ![x] = "test"]
             /\ spc[r] \notin FilePart /\ (x = r => \A y \in Requests : spc[y] \notin FilePart)
  <2>1. alone' = [y \in Requests |-> /\ alone[y] /\ y \notin {z \in Requests : spc[z] \in FilePart}
                                     /\ y = x => {z \in Requests : spc[z] \in FilePart} = {}]
    BY <1>2 DEF Receive
  <2>2. spc' = [spc EXCEPT ![x] = "test"]
    BY <1>2 DEF Receive, At
  <2> QED BY <2>1, <2>2
<1>3. CASE spc[r] \in FilePart /\ spc[q] \in FilePart
  BY <1>1, <1>3 DEF AloneInv, Effects
<1>4. CASE spc[r] \notin FilePart
  <2>1. \E p \in Processes : Receive(r, p)
    BY <1>1, <1>4 DEF Effects
  <2>2. spc' = [spc EXCEPT ![r] = "test"] /\ spc[q] \notin FilePart
    BY <1>2, <2>1
  <2> QED BY <1>0, <2>2 DEF PlaceTypes
<1>5. CASE spc[r] \in FilePart /\ spc[q] \notin FilePart
  BY <1>1, <1>2, <1>5 DEF Effects
<1> QED BY <1>3, <1>4, <1>5

(* The steps of the others do not reach a process that is used alone.       *)
LEMMA WalkSame ==
  ASSUME NEW r \in Requests, WalkOK(r), alone'[r] => alone[r], dirs \subseteq dirs',
         UNCHANGED <<spc[r], depth[r]>>,
         alone'[r] /\ spc[r] \in FilePart => Here(r)' = Here(r)
  PROVE  WalkOK(r)'
BY DEF WalkOK, FilePart

LEMMA WalkStep ==
  ASSUME IInv, AloneInv, WalkInv, [Next]_vars
  PROVE  WalkInv'
<1>0. PlaceTypes /\ ThreadTypes /\ RequestInv
  BY DEF IInv, Types
<1> SUFFICES ASSUME NEW r \in Requests PROVE WalkOK(r)'
  BY DEF WalkInv
<1>1. WalkOK(r) /\ (alone'[r] => alone[r]) /\ dirs \subseteq dirs'
  BY StepEffects DEF WalkInv, Effects
<1>2. ASSUME UNCHANGED <<process, depth, cwd>>,
             spc'[r] = spc[r] \/ spc'[r] \in {"insert", "commit", "reply", "fault"}
             \/ (spc[r] \in {"none", "sent"} /\ spc'[r] \in {"sent", "lost"})
      PROVE  WalkOK(r)'
  BY <1>1, <1>2 DEF WalkOK, Here
<1>3. ASSUME ServerSame,
             \/ UNCHANGED spc
             \/ \E q : spc' = [spc EXCEPT ![q] = "sent"] /\ (q \in Requests => spc[q] = "none")
             \/ \E q : spc[q] = "sent" /\ spc' = [spc EXCEPT ![q] = "lost"]
      PROVE  WalkOK(r)'
  <2>1. UNCHANGED <<process, depth, cwd>>
    BY <1>3 DEF ServerSame, threadVars, diskVars
  <2>2. spc'[r] = spc[r] \/ (spc[r] \in {"none", "sent"} /\ spc'[r] \in {"sent", "lost"})
    BY <1>0, <1>3 DEF PlaceTypes
  <2> QED BY <1>2, <2>1, <2>2
<1>4. ASSUME NEW c \in Clients, Call(c) \/ Resend(c) PROVE WalkOK(r)'
  <2>1. ServerSame /\ spc' = [spc EXCEPT ![<<c, sends[c] + 1>>] = "sent"]
    BY <1>4 DEF Call, Resend
  <2>2. <<c, sends[c] + 1>> \in Requests => spc[<<c, sends[c] + 1>>] = "none"
    <3>1. sends[c] \in Nat
      BY Numbers DEF IInv, Types, ClientTypes
    <3>2. ~(sends[c] + 1 =< sends[c])
      BY <3>1
    <3> QED BY <1>0, <3>2 DEF RequestInv
  <2> QED BY <1>3, <2>1, <2>2
<1>5. ASSUME NEW c \in Clients,
             \/ PingAnswered(c) \/ PingFails(c) \/ Replied(c) \/ Faulted(c)
             \/ /\ SocketError(c)
                /\ UNCHANGED spc \/ (spc[Request(c)] = "sent" /\ spc' = [spc EXCEPT ![Request(c)] = "lost"])
      PROVE  WalkOK(r)'
  BY <1>3, <1>5 DEF PingAnswered, PingFails, Replied, Faulted, SocketError
<1>6. ASSUME NEW q \in Requests, q # r, ServerSteps(q) PROVE WalkOK(r)'
  <2>1. UNCHANGED <<spc[r], depth[r], process[r]>>
    BY <1>0, <1>6, FileStep DEF PlaceTypes
  <2>2. ASSUME alone'[r], spc[r] \in FilePart PROVE cwd' = cwd
    <3>1. spc[q] \notin FilePart
      BY <1>1, <1>6, <2>2 DEF AloneInv
    <3>2. ~ \E p \in Processes : Receive(q, p)
      BY <2>2 DEF Receive
    <3>3. DatabaseFails(q)
      BY <1>6, <3>1, <3>2 DEF ServerSteps, TestDir, MakeDir, EnterDir, ReturnDir, GetFilename, Saves, SaveReport, SaveFails, Write,
                              At, FilePart
    <3> QED BY <3>3 DEF DatabaseFails, diskVars
  <2> QED BY <1>1, <2>1, <2>2, WalkSame DEF Here
<1>7. ASSUME NEW p \in Processes, Receive(r, p) PROVE WalkOK(r)'
  <2>1. /\ spc[r] = "sent" /\ spc' = [spc EXCEPT ![r] = "test"] /\ process' = [process EXCEPT ![r] = p]
        /\ cwd' = [cwd EXCEPT ![p] = Root] /\ UNCHANGED depth
    BY <1>7 DEF Receive, At
  <2>2. spc'[r] = "test" /\ Here(r)' = Root /\ depth'[r] = 1
    BY <1>0, <1>1, <2>1 DEF PlaceTypes, ThreadTypes, Here, WalkOK
  <2>3. SubSeq(DirPath, 1, depth'[r] - 1) = Root
    BY <2>2, PathFacts
  <2> QED BY <2>2, <2>3 DEF WalkOK
<1>8. ASSUME TestDir(r) \/ MakeDir(r) PROVE WalkOK(r)'
  <2>1. UNCHANGED <<process, depth, cwd>> /\ spc[r] \in {"test", "mkdir"}
        /\ \E b \in {"mkdir", "chdir", "fault"} : spc' = [spc EXCEPT ![r] = b]
    BY <1>8 DEF TestDir, MakeDir, At, threadVars, diskVars
  <2>2. spc'[r] \in {"mkdir", "chdir", "fault"}
    BY <1>0, <2>1 DEF PlaceTypes
  <2> QED BY <1>1, <2>1, <2>2 DEF WalkOK, Here
<1>9. ASSUME EnterDir(r) PROVE WalkOK(r)'
  <2>0. spc[r] = "chdir" /\ UNCHANGED <<process, dirs>>
    BY <1>9 DEF EnterDir, At
  <2>1. depth[r] \in 1..Len(DirPath) /\ process[r] \in Processes
    <3>1. depth[r] =< Len(DirPath) /\ process[r] \in Processes /\ depth[r] \in 1..Len(DirPath) + 1
      BY <1>0, <2>0 DEF RequestInv, ThreadTypes, AtWork, FilePart
    <3> QED BY <3>1, PathFacts
  <2>2. CASE Component(r) \notin dirs
    <3>1. spc' = [spc EXCEPT ![r] = "fault"] /\ UNCHANGED <<cwd, depth>>
      BY <1>9, <2>2 DEF EnterDir, At
    <3>2. spc'[r] = "fault"
      BY <1>0, <3>1 DEF PlaceTypes
    <3> QED BY <1>2, <2>0, <3>1, <3>2
  <2>3. CASE Component(r) \in dirs
    <3>1. /\ cwd' = [cwd EXCEPT ![process[r]] = Component(r)] /\ depth' = [depth EXCEPT ![r] = depth[r] + 1]
          /\ spc' = [spc EXCEPT ![r] = IF depth[r] < Len(DirPath) THEN "test" ELSE "back"]
      BY <1>9, <2>3 DEF EnterDir, ChDir, At
    <3>2. /\ Here(r)' = Component(r) /\ depth'[r] = depth[r] + 1
          /\ spc'[r] = IF depth[r] < Len(DirPath) THEN "test" ELSE "back"
      BY <1>0, <2>0, <2>1, <3>1 DEF PlaceTypes, ThreadTypes, Here
    <3>3. ASSUME alone'[r] PROVE Component(r) = SubSeq(DirPath, 1, depth[r])
      <4>1. Here(r) = SubSeq(DirPath, 1, depth[r] - 1)
        BY <1>1, <2>0, <3>3 DEF WalkOK
      <4> QED BY <2>1, <4>1, PathFacts DEF Component
    <3>4. CASE depth[r] < Len(DirPath)
      <4>1. depth'[r] - 1 = depth[r] /\ spc'[r] = "test"
        BY <2>1, <3>2, <3>4
      <4> QED BY <3>2, <3>3, <4>1 DEF WalkOK
    <3>5. CASE ~(depth[r] < Len(DirPath))
      <4>1. depth[r] = Len(DirPath)
        BY <2>1, <3>5, PathFacts
      <4>2. alone'[r] => DirPath \in dirs'
        BY <2>0, <2>3, <3>3, <4>1, PathFacts
      <4> QED BY <3>2, <3>5, <4>2 DEF WalkOK
    <3> QED BY <3>4, <3>5
  <2> QED BY <2>2, <2>3
<1>10. ASSUME ReturnDir(r) PROVE WalkOK(r)'
  <2>1. spc[r] = "back" /\ spc'[r] = "name"
    BY <1>0, <1>10 DEF ReturnDir, At, PlaceTypes
  <2> QED BY <1>1, <2>1 DEF WalkOK
<1>11. ASSUME GetFilename(r) PROVE WalkOK(r)'
  <2>1. spc[r] = "name" /\ spc'[r] \in {"name", "save"}
    BY <1>0, <1>11 DEF GetFilename, At, PlaceTypes
  <2> QED BY <1>1, <2>1 DEF WalkOK
<1>12. ASSUME Saves(r) \/ DatabaseFails(r) PROVE WalkOK(r)'
  <2>1. spc'[r] \in {"insert", "fault"}
    BY <1>0, <1>12 DEF Saves, SaveReport, SaveFails, Write, DatabaseFails, At, PlaceTypes
  <2>2. UNCHANGED <<process, depth, cwd>>
    BY <1>12 DEF Saves, SaveReport, SaveFails, Write, DatabaseFails, threadVars, diskVars
  <2> QED BY <1>2, <2>1, <2>2
<1>13. ASSUME NEW q \in Requests, Insert(q) \/ Commit(q) \/ CommitFails(q) PROVE WalkOK(r)'
  <2>1. UNCHANGED threadVars /\ UNCHANGED diskVars
        /\ \E b \in {"commit", "reply", "fault"} : spc' = [spc EXCEPT ![q] = b]
    BY <1>13 DEF Insert, Commit, CommitFails, At
  <2>2. spc'[r] = spc[r] \/ spc'[r] \in {"commit", "reply", "fault"}
    BY <1>0, <2>1 DEF PlaceTypes
  <2> QED BY <1>2, <2>1, <2>2 DEF threadVars, diskVars
<1>14. ASSUME (\E row \in rows : Take(row)) \/ UNCHANGED vars PROVE WalkOK(r)'
  <2>1. UNCHANGED threadVars /\ UNCHANGED <<spc, cwd>>
    BY <1>14 DEF Take, vars, diskVars
  <2> QED BY <1>2, <2>1 DEF threadVars
<1> QED BY <1>4, <1>5, <1>6, <1>7, <1>8, <1>9, <1>10, <1>11, <1>12, <1>13, <1>14, Steps DEF ServerSteps

(* What becomes of a file when one is written, or taken.                    *)
LEMMA SaveChanges ==
  ASSUME IInv, FileInv, NEW r \in Requests, Saves(r)
  PROVE  /\ spc[r] = "save" /\ spc'[r] = "insert"
         /\ \A q \in Requests : q # r => spc'[q] = spc[q] /\ saved'[q] = saved[q]
         /\ \A f \in DOMAIN files : f # FileOf(r) => f \in DOMAIN files' /\ files'[f] = files[f]
         /\ \A q \in Requests : FileOf(q)' = FileOf(q)
         /\ saved'[r] # "nothing" => FileOf(r) \in DOMAIN files' /\ (saved'[r] = "whole" => files'[FileOf(r)] = r)
<1>0. PlaceTypes /\ StoreTypes
  BY DEF IInv, Types
<1>1. PICK what \in Written : Write(r, what)
  BY SavesWrites
<1>2. /\ spc[r] = "save" /\ spc' = [spc EXCEPT ![r] = "insert"] /\ UNCHANGED threadVars
      /\ saved' = [saved EXCEPT ![r] = what]
      /\ files' = IF what = "nothing" THEN files
                  ELSE [f \in DOMAIN files \cup {FileOf(r)} |->
                          IF f # FileOf(r) THEN files[f] ELSE IF what = "whole" THEN r ELSE Broken]
  BY <1>1 DEF Write, At
<1>3. /\ spc'[r] = "insert" /\ saved'[r] = what
      /\ \A q \in Requests : q # r => spc'[q] = spc[q] /\ saved'[q] = saved[q]
  BY <1>0, <1>2 DEF PlaceTypes, StoreTypes
<1>4. \A q \in Requests : FileOf(q)' = FileOf(q)
  BY <1>2 DEF FileOf, threadVars
<1>5. \A f \in DOMAIN files : f # FileOf(r) => f \in DOMAIN files' /\ files'[f] = files[f]
  BY <1>2
<1>6. ASSUME saved'[r] # "nothing"
      PROVE  FileOf(r) \in DOMAIN files' /\ (saved'[r] = "whole" => files'[FileOf(r)] = r)
  BY <1>2, <1>3, <1>6
<1> QED BY <1>2, <1>3, <1>4, <1>5, <1>6

LEMMA KeepStep ==
  ASSUME IInv, FileInv, [Next]_vars
  PROVE  KeepInv'
<1>0. RowInv /\ StoreTypes /\ KeepInv /\ SaveInv /\ PairInv
  BY DEF IInv, Types, FileInv
<1> DEFINE Kept(q) == FileOf(q) \in DOMAIN files /\ (saved[q] = "whole" => files[FileOf(q)] = q)
<1> SUFFICES ASSUME NEW r \in Requests, Sound(r)', Past(r)'
             PROVE  Gone(r)' \/ Kept(r)'
  BY DEF KeepInv
<1>1. (Past(r) \/ Saves(r)) /\ (Past(r) => Sound(r))
  BY PastStable
<1>2. Past(r) => FileOf(r)' = FileOf(r) /\ saved'[r] = saved[r] /\ (Gone(r) => Gone(r)')
  BY PastStable
<1>3. CASE Saves(r)
  BY <1>3, SaveChanges DEF Sound
<1>4. CASE Past(r) /\ Gone(r)
  BY <1>2, <1>4
<1>5. CASE Past(r) /\ ~Gone(r) /\ ~Saves(r)
  <2>1. Kept(r) /\ FileOf(r)' = FileOf(r)
    BY <1>0, <1>1, <1>2, <1>5 DEF KeepInv
  <2>2. CASE UNCHANGED <<files, saved>>
    BY <2>1, <2>2
  <2>3. CASE \E q \in Requests : Saves(q)
    <3>1. PICK q \in Requests : Saves(q)
      BY <2>3
    <3>2. q # r /\ spc[q] = "save"
      BY <1>5, <3>1, SaveChanges
    <3>3. FileOf(q) # FileOf(r)
      BY <1>0, <1>1, <1>5, <3>2 DEF SaveInv
    <3> QED BY <2>1, <3>1, <3>2, <3>3, SaveChanges
  <2>4. CASE \E row \in rows : Take(row) /\ UNCHANGED <<rows, saved>>
    <3>1. PICK row \in rows : Take(row) /\ UNCHANGED <<rows, saved>>
      BY <2>4
    <3>2. /\ row.id \notin taken /\ taken' = taken \cup {row.id}
          /\ files' = [f \in {g \in DOMAIN files : g = row.file => files[g] = Broken} |-> files[f]]
          /\ UNCHANGED <<threadVars, tableVars>>
      BY <3>1 DEF Take
    <3>3. CASE row.file # FileOf(r)
      BY <2>1, <3>1, <3>2, <3>3
    <3>4. CASE row.file = FileOf(r)
      <4> DEFINE q == row.req
      <4>1. q \in Requests /\ row = Row(q)
        BY <1>0 DEF RowInv, StoreTypes
      <4>2. Past(q) /\ FileOf(q) = FileOf(r) /\ row.id = id[q]
        BY <3>4, <4>1 DEF Past, Row
      <4> HIDE DEF q
      <4>3. Sound(q)
        BY <1>5, <3>4 DEF Gone, Doubtful, Sound, q
      <4>4. CASE q = r
        <5>1. UNCHANGED <<rows, id, idx>>
          BY <3>2 DEF threadVars, tableVars
        <5>2. Row(r)' \in rows' /\ id'[r] \in taken'
          BY <3>2, <4>1, <4>2, <4>4, <5>1 DEF Row, FileOf
        <5> QED BY <5>2 DEF Gone
      <4>5. CASE q # r
        <5>1. Gone(q)
          BY <1>0, <1>1, <1>5, <4>1, <4>2, <4>3, <4>5 DEF PairInv
        <5>2. id[q] \notin taken
          BY <3>2, <4>2
        <5>3. \E other \in rows : other.file = FileOf(q) /\ Doubtful(other)
          BY <5>1, <5>2 DEF Gone
        <5> QED BY <1>5, <4>2, <5>3 DEF Gone
      <4> QED BY <4>4, <4>5
    <3> QED BY <3>3, <3>4
  <2> QED BY <2>2, <2>3, <2>4, StepEffects
<1> QED BY <1>1, <1>3, <1>4, <1>5

LEMMA SaveStep ==
  ASSUME IInv, FileInv, [Next]_vars
  PROVE  SaveInv'
<1>0. AloneInv /\ KeepInv /\ SaveInv
  BY DEF FileInv
<1> SUFFICES ASSUME NEW r \in Requests, NEW q \in Requests, Sound(r)', Past(r)', spc'[q] = "save",
                    FileOf(q)' = FileOf(r)'
             PROVE  Gone(r)'
  BY DEF SaveInv
<1>1. (Past(r) \/ Saves(r)) /\ (Past(r) => Sound(r)) /\ Effects(q)
  BY StepEffects, PastStable
<1>6. alone[r]
  BY StepEffects DEF Effects, Sound
<1>2. Past(r) => FileOf(r)' = FileOf(r) /\ (Gone(r) => Gone(r)')
  BY PastStable
<1>3. CASE Saves(r)
  <2>1. spc[r] = "save" /\ spc'[r] = "insert" /\ (q # r => spc'[q] = spc[q])
    BY <1>3, SaveChanges
  <2>2. q # r /\ spc[q] = "save"
    BY <2>1
  <2> QED BY <1>0, <1>6, <2>1, <2>2 DEF AloneInv, FilePart
<1>4. CASE Past(r) /\ spc[q] = "save"
  <2>1. FileOf(q)' = FileOf(q)
    BY <1>1, <1>4 DEF Effects, FileOf
  <2> QED BY <1>0, <1>1, <1>2, <1>4, <2>1 DEF SaveInv
<1>5. CASE Past(r) /\ GetFilename(q) /\ FileOf(q) \notin DOMAIN files
  <2>1. UNCHANGED idx
    BY <1>5 DEF GetFilename
  <2>2. FileOf(q)' = FileOf(q)
    BY <2>1 DEF FileOf
  <2>3. FileOf(r) \notin DOMAIN files
    BY <1>2, <1>5, <2>2
  <2> QED BY <1>0, <1>1, <1>2, <1>5, <2>3 DEF KeepInv
<1> QED BY <1>1, <1>3, <1>4, <1>5 DEF Effects

LEMMA PairStep ==
  ASSUME IInv, FileInv, [Next]_vars
  PROVE  PairInv'
<1>0. SaveInv /\ PairInv
  BY DEF FileInv
<1> SUFFICES ASSUME NEW r \in Requests, NEW q \in Requests, r # q, Sound(r)', Sound(q)', Past(r)', Past(q)',
                    FileOf(q)' = FileOf(r)'
             PROVE  Gone(r)' \/ Gone(q)'
  BY DEF PairInv
<1>1. /\ (Past(r) \/ Saves(r)) /\ (Past(r) => Sound(r))
      /\ (Past(q) \/ Saves(q)) /\ (Past(q) => Sound(q))
  BY PastStable
<1>2. /\ Past(r) => FileOf(r)' = FileOf(r) /\ (Gone(r) => Gone(r)')
      /\ Past(q) => FileOf(q)' = FileOf(q) /\ (Gone(q) => Gone(q)')
  BY PastStable
<1>3. CASE Past(r) /\ Past(q)
  BY <1>0, <1>1, <1>2, <1>3 DEF PairInv
<1>4. CASE Saves(r) /\ Past(q)
  <2>1. spc[r] = "save" /\ FileOf(r)' = FileOf(r)
    BY <1>4, SaveChanges
  <2> QED BY <1>0, <1>1, <1>2, <1>4, <2>1 DEF SaveInv
<1>5. CASE Past(r) /\ Saves(q)
  <2>1. spc[q] = "save" /\ FileOf(q)' = FileOf(q)
    BY <1>5, SaveChanges
  <2> QED BY <1>0, <1>1, <1>2, <1>5, <2>1 DEF SaveInv
<1>6. CASE Saves(r) /\ Saves(q)
  BY <1>6, SaveChanges
<1> QED BY <1>1, <1>3, <1>4, <1>5, <1>6

(* An undisturbed report stays in the file its row names until the parser   *)
(* takes it, or another row of the same name is doubtful: it overlapped, or *)
(* its own file could not be opened (XMLRPC_API1.SendReport).               *)
THEOREM Kept == Spec => []KeptForParser
<1>1. IInv /\ FileInv /\ [Next]_vars => FileInv'
  BY AloneStep, WalkStep, KeepStep, SaveStep, PairStep DEF FileInv
<1>2. ASSUME IInv, FileInv PROVE KeptForParser
  <2> SUFFICES ASSUME NEW row \in rows, alone[row.req], saved[row.req] = "whole", row.id \notin taken
               PROVE  \/ row.file \in DOMAIN files /\ files[row.file] = row.req
                      \/ \E other \in rows : other.file = row.file /\ Doubtful(other)
    BY DEF KeptForParser
  <2> DEFINE r == row.req
  <2>1. r \in Requests /\ row = Row(r)
    BY <1>2 DEF IInv, Types, StoreTypes, RowInv
  <2>2. Past(r) /\ row.file = FileOf(r) /\ row.id = id[r]
    BY <2>1 DEF Past, Row
  <2>3. Gone(r) \/ (FileOf(r) \in DOMAIN files /\ files[FileOf(r)] = r)
    BY <1>2, <2>1, <2>2 DEF FileInv, KeepInv, Sound
  <2> QED BY <2>2, <2>3 DEF Gone
<1> QED BY <1>1, <1>2, InitFileInv, Invariant, PTL DEF Spec
=============================================================================
