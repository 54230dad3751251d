----------------------------- MODULE RunReport -----------------------------
(***************************************************************************)
(* From the output of cyclictest to the archive rteval leaves behind:      *)
(* rtevalReport makes the directory of the run, waits with RtEval for the  *)
(* measurements to be reduced (CyclictestData), builds the report with an  *)
(* XMLOut, writes it and packs the directory (rteval/rtevalReport.py).     *)
(*                                                                         *)
(* Other rteval processes of the same day may make directories of the same *)
(* names, and one that uses the directory of this run writes and packs the *)
(* same files.  An XMLOut may also have other users, which make any call.  *)
(***************************************************************************)
EXTENDS CyclictestData, XMLOut

CONSTANTS
  AnyTags,  \* tags other users of an XMLOut add
  MaxDirs   \* bound: report directories of the day

Summary == {"run_info", "SystemInfo", "loads", "Measurements"}

ASSUME ReportAssumption ==
  /\ MaxDirs \in Nat /\ MaxLevel > 0 /\ MaxDocs > 0
  /\ AnyTags \subseteq Tags /\ Summary \cup {"date", "time"} \subseteq Tags

VARIABLES
  caller,     \* who uses the XMLOut: rteval, or anybody
  rpc,        \* how far the process has come
  dirs,       \* the report directories there are
  reportdir,  \* the number of the own one
  shared,     \* whether another run uses it too
  results,    \* the results in the nodes of the measurements
  summary,    \* what summary.xml says
  archive,    \* what the archive holds
  unsaved     \* history: whether summary.xml could not be written

reportVars == <<caller, rpc, dirs, reportdir, shared, results, summary, archive, unsaved>>
vars == <<dataVars, xmlVars, reportVars>>

(* A file that is missing or cut short, and the report of another run: its *)
(* sections, and none of the results of this one.                          *)
Nothing == [run |-> "none", nodes |-> {}, results |-> {}]
Foreign == [run |-> "other", nodes |-> {<<tag>> : tag \in Summary}, results |-> {}]

Init ==
  /\ DataInit /\ XMLInit /\ caller \in {"rteval", "anybody"} /\ rpc = "probe"
  /\ dirs = {} /\ reportdir = 1 /\ shared = FALSE
  /\ results = {} /\ summary = Nothing /\ archive = Nothing /\ unsaved = FALSE

Step(from, to) ==
  /\ caller = "rteval" /\ rpc = from /\ rpc' = to /\ UNCHANGED caller
Elsewhere == UNCHANGED <<dirs, reportdir, shared>>
Keep      == UNCHANGED <<results, summary, archive, unsaved>>

-----------------------------------------------------------------------------
(* _make_report_dir: the first number that is free. *)

Probe ==
  /\ Step("probe", IF reportdir \in dirs THEN "probe" ELSE "isdir")
  /\ reportdir' = IF reportdir \in dirs THEN reportdir + 1 ELSE reportdir
  /\ UNCHANGED <<dataVars, xmlVars, dirs, shared>> /\ Keep

(* It may have been made in between, and is then taken as it is.           *)
IsDir ==
  /\ Step("isdir", IF reportdir \in dirs THEN "wait" ELSE "mkdir")
  /\ shared' = (reportdir \in dirs)
  /\ UNCHANGED <<dataVars, xmlVars, dirs, reportdir>> /\ Keep

MakeDir ==
  /\ Step("mkdir", IF reportdir \in dirs THEN "failed" ELSE "wait")
  /\ dirs' = dirs \cup {reportdir}
  /\ UNCHANGED <<dataVars, xmlVars, reportdir, shared>> /\ Keep

(* Another run makes a directory; or it has found the number free before   *)
(* this one made the directory, comes to its test after that and takes it. *)
HasDir == caller = "rteval" /\ rpc \notin {"probe", "isdir", "mkdir", "failed"}
Other  == UNCHANGED <<dataVars, xmlVars, caller, rpc, reportdir, results, unsaved>>

OtherMakesDir ==
  /\ caller = "rteval" /\ rpc \in {"probe", "isdir", "mkdir"}
  /\ \E i \in 1..MaxDirs : i \notin dirs /\ dirs' = dirs \cup {i}
  /\ UNCHANGED <<shared, summary, archive>> /\ Other

OtherTakesDir ==
  /\ HasDir /\ ~ shared /\ shared' = TRUE
  /\ UNCHANGED <<dirs, summary, archive>> /\ Other

(* It writes its summary.xml there, and packs the directory under the name *)
(* this run has for the archive; either may be cut short, or be mixed up   *)
(* with what this run writes at the same time.                             *)
OtherWrites ==
  /\ HasDir /\ shared /\ summary' \in {Foreign, Nothing}
  /\ UNCHANGED <<dirs, shared, archive>> /\ Other

OtherPacks ==
  /\ HasDir /\ shared /\ archive' \in {summary, Nothing}
  /\ UNCHANGED <<dirs, shared, summary>> /\ Other

OtherProcess == OtherMakesDir \/ OtherTakesDir \/ OtherWrites \/ OtherPacks

-----------------------------------------------------------------------------
(* _report, step by step; the sections are made by the modules, and an     *)
(* exception of one of them ends the program.                              *)

Thread ==
  /\ caller = "rteval" /\ rpc \notin {"probe", "isdir", "mkdir"}
  /\ Cleanup /\ UNCHANGED <<xmlVars, reportVars>>

WaitForCompletion_NoWait == TRUE
WaitForCompletion == cpc = "finished"

Begin ==
  /\ WaitForCompletion /\ Step("wait", "run_info") /\ NewReport
  /\ Elsewhere /\ Keep /\ UNCHANGED dataVars

OpenInfo == Step("run_info", "date") /\ OpenBlock("run_info") /\ Elsewhere /\ Keep /\ UNCHANGED dataVars
AddDate  == Step("date", "time") /\ TaggedValue("date") /\ Elsewhere /\ Keep /\ UNCHANGED dataVars
AddTime  == Step("time", "endinfo") /\ TaggedValue("time") /\ Elsewhere /\ Keep /\ UNCHANGED dataVars
EndInfo  == Step("endinfo", "sysinfo") /\ CloseBlock /\ Elsewhere /\ Keep /\ UNCHANGED dataVars

AppendInfo  == Step("sysinfo", "loads") /\ AppendXMLnodes("SystemInfo")
               /\ Elsewhere /\ Keep /\ UNCHANGED dataVars
AppendLoads == Step("loads", "measure") /\ AppendXMLnodes("loads")
               /\ Elsewhere /\ Keep /\ UNCHANGED dataVars

(* Cyclictest.MakeReport: the system, then each cpu. *)
AppendMeasurements ==
  /\ Step("measure", "close") /\ AppendXMLnodes("Measurements")
  /\ results' = {<<id, Reported(id)>> : id \in {System} \cup Cores}
  /\ Elsewhere /\ UNCHANGED <<dataVars, summary, archive, unsaved>>

MakeReportFails ==
  /\ \/ Step("sysinfo", "failed") \/ Step("loads", "failed") \/ Step("measure", "failed")
     \/ Step("screen", "failed")
  /\ Elsewhere /\ Keep /\ UNCHANGED <<dataVars, xmlVars>>

CloseReport == Step("close", "save") /\ Close /\ Elsewhere /\ Keep /\ UNCHANGED dataVars

(* What is in the document is written, which is xmlroot once it is closed. *)
Save ==
  /\ Step("save", "screen") /\ Write
  /\ summary' = [run |-> "own", nodes |-> written',
                 results |-> IF written' = {} THEN {} ELSE results]
  /\ Elsewhere /\ UNCHANGED <<dataVars, results, archive, unsaved>>

(* saveFormatFileEnc() cannot open the file, or not write all of it: what  *)
(* it returns is not looked at.                                            *)
SaveFails ==
  /\ Step("save", "screen") /\ Write
  /\ summary' \in {summary, Nothing} /\ unsaved' = TRUE
  /\ Elsewhere /\ UNCHANGED <<dataVars, results, archive>>

Screen == Step("screen", "tar") /\ Write /\ Elsewhere /\ Keep /\ UNCHANGED dataVars

(* _tar_results: the directory as it is, and then the process is gone.  An *)
(* exception of the archive is swallowed, and may leave a part of it.      *)
TarResults ==
  /\ Step("tar", "done") /\ archive' = summary
  /\ Elsewhere /\ UNCHANGED <<dataVars, xmlVars, results, summary, unsaved>>

TarFails ==
  /\ Step("tar", "no archive") /\ archive' \in {archive, Nothing}
  /\ Elsewhere /\ UNCHANGED <<dataVars, xmlVars, results, summary, unsaved>>

Gone == (Step("done", "gone") \/ Step("no archive", "over"))
        /\ Delete /\ Elsewhere /\ Keep /\ UNCHANGED dataVars

Anybody == caller = "anybody" /\ AnyCall(AnyTags) /\ UNCHANGED <<dataVars, reportVars>>

Next ==
  \/ Probe \/ IsDir \/ MakeDir \/ OtherProcess \/ Thread \/ Begin
  \/ OpenInfo \/ AddDate \/ AddTime \/ EndInfo \/ AppendInfo \/ AppendLoads \/ AppendMeasurements
  \/ MakeReportFails \/ CloseReport \/ Save \/ SaveFails \/ Screen \/ TarResults \/ TarFails \/ Gone \/ Anybody

Spec == Init /\ [][Next]_vars

-----------------------------------------------------------------------------
(* The archive holds a whole report: its four sections, below the root and *)
(* closed, and the results of the system and of each cpu, reduced, whose   *)
(* histograms have all the samples (rtevalReport._report, MakeReport), if  *)
(* summary.xml could be written and no other run uses the directory.       *)
ArchiveIsWhole ==
  rpc \in {"done", "gone"} /\ ~ unsaved /\ ~ shared =>
    /\ {<<tag>> : tag \in Summary} \subseteq archive.nodes
    /\ {r[1] : r \in archive.results} = Ids
    /\ \A r \in archive.results :
         /\ MapThenSumSet(LAMBDA b : b[2], r[2].histogram) = r[2].samples
         /\ r[2].samples = data[r[1]].numsamples
         /\ r[2].samples > 0 => r[2].stats = {Reduced(data[r[1]])}
    /\ ~ touched
=============================================================================
