------------------------------- MODULE XMLOut -------------------------------
(***************************************************************************)
(* An XMLOut object (rteval/xmlout.py): it builds a document or loads one, *)
(* writes it, and starts over.  libxml2 documents have no owner but this   *)
(* object: it must free each at most once and not touch it any more.       *)
(*                                                                         *)
(* A node is known by its path from the root.  A call that raises without  *)
(* having changed anything is no step.                                     *)
(***************************************************************************)
EXTENDS Integers, Sequences

CONSTANTS
  Tags,       \* names of nodes
  MaxDocs,    \* bound: how many documents an object may make
  MaxLevel    \* bound: how deep blocks are nested

ASSUME XMLAssumption == MaxDocs \in Nat /\ MaxLevel \in Nat

Paths == UNION {[1..n -> Tags] : n \in 0..MaxLevel + 1}
Docs  == 1..MaxDocs
NoDoc  == 0
NoRoot == -1

VARIABLES
  status,   \* 0 nothing yet, 1 new report, 2 loaded report, 3 closed, 4 deleted
  level,    \* how many blocks are open
  currtag,  \* the node children are added to
  nodes,    \* the nodes below xmlroot
  xmldoc,   \* the document, or NoDoc
  made,     \* how many documents have been made
  freed,    \* the documents freed
  home,     \* the document xmlroot has become a part of; NoRoot before there is one
  written,  \* the nodes of what was last written
  touched,  \* whether a freed document was used or freed again
  misuse    \* what has gone wrong before

xmlVars == <<status, level, currtag, nodes, xmldoc, made, freed, home, written, touched, misuse>>
tree    == <<level, currtag, nodes>>

XMLInit ==
  /\ status = 0 /\ level = 0 /\ currtag = << >> /\ nodes = {} /\ xmldoc = NoDoc
  /\ made = 0 /\ freed = {} /\ home = NoRoot /\ written = {} /\ touched = FALSE /\ misuse = {}

(* freeDoc() of the current document, if free holds. *)
Free(free) ==
  /\ freed' = IF free THEN freed \cup {xmldoc} ELSE freed
  /\ touched' = (touched \/ (free /\ xmldoc \in freed))

(* The old report is freed only where it has been closed. *)
FreeOld_Loaded == Free(status \in {2, 3})
FreeOld        == Free(status = 3)

MakeDoc == made < MaxDocs /\ made' = made + 1 /\ xmldoc' = made + 1

NewReport ==
  /\ status \in {0, 3} /\ FreeOld /\ MakeDoc
  /\ status' = 1 /\ level' = 0 /\ currtag' = << >> /\ nodes' = {} /\ home' = NoDoc
  /\ UNCHANGED <<written, misuse>>

(* parseFile() raises: the document is still the old one.                  *)
LoadFails ==
  /\ status \in {0, 1, 2, 3} /\ FreeOld
  /\ misuse' = IF status = 3 THEN misuse \cup {"failed load"} ELSE misuse
  /\ UNCHANGED <<status, tree, xmldoc, made, home, written>>

(* A file that is no report of this version is closed at once. *)
LoadReport(valid) ==
  /\ status \in {0, 1, 2, 3} /\ FreeOld /\ MakeDoc
  /\ status' = IF valid THEN 2 ELSE 3
  /\ UNCHANGED <<tree, home, written, misuse>>

(* Only a new report is put into its document now. *)
Close ==
  /\ status \in {1, 2} /\ level = 0 /\ status' = 3
  /\ home' = IF status = 1 THEN xmldoc ELSE home
  /\ touched' = (touched \/ (status = 1 /\ xmldoc \in freed))
  /\ UNCHANGED <<tree, xmldoc, made, freed, written, misuse>>

Write ==
  /\ status \in {2, 3}
  /\ touched' = (touched \/ xmldoc \in freed)
  /\ written' = IF home = xmldoc THEN nodes ELSE {}
  /\ UNCHANGED <<status, tree, xmldoc, made, freed, home, misuse>>

OpenBlock(tag) ==
  /\ status = 1 /\ level < MaxLevel
  /\ currtag' = Append(currtag, tag) /\ nodes' = nodes \cup {currtag'} /\ level' = level + 1
  /\ UNCHANGED <<status, xmldoc, made, freed, home, written, touched, misuse>>

CloseBlock ==
  /\ status = 1 /\ level # 0
  /\ currtag' = SubSeq(currtag, 1, Len(currtag) - 1) /\ level' = level - 1
  /\ UNCHANGED <<status, nodes, xmldoc, made, freed, home, written, touched, misuse>>

(* taggedvalue(), ParseData(): a node that is complete. *)
AddNode(tag) == nodes' = nodes \cup {Append(currtag, tag)}
TaggedValue(tag) ==
  /\ status = 1 /\ AddNode(tag)
  /\ UNCHANGED <<status, level, currtag, xmldoc, made, freed, home, written, touched, misuse>>

(* AppendXMLnodes() looks at no status: the nodes get below xmlroot,       *)
(* wherever that is.                                                       *)
AppendXMLnodes(tag) ==
  /\ status = 1 \/ (status \in {2, 3} /\ home # NoRoot)
  /\ AddNode(tag)
  /\ touched' = (touched \/ home \in freed)
  /\ misuse' = IF status # 1 THEN misuse \cup {"late append"} ELSE misuse
  /\ UNCHANGED <<status, level, currtag, xmldoc, made, freed, home, written>>

(* __del__: nothing is freed when blocks are open. *)
Delete ==
  /\ status \in {0, 1, 2, 3} /\ status' = 4 /\ Free(level = 0 /\ xmldoc # NoDoc)
  /\ UNCHANGED <<tree, xmldoc, made, home, written, misuse>>

AnyCall(tags) ==
  \/ NewReport \/ LoadFails \/ Close \/ Write \/ CloseBlock \/ Delete
  \/ \E valid \in BOOLEAN : LoadReport(valid)
  \/ \E tag \in tags : OpenBlock(tag) \/ TaggedValue(tag) \/ AppendXMLnodes(tag)

-----------------------------------------------------------------------------
XMLTypeOK ==
  /\ status \in 0..4 /\ level \in 0..MaxLevel /\ currtag \in Paths /\ nodes \subseteq Paths
  /\ made \in 0..MaxDocs /\ xmldoc \in 0..made /\ freed \subseteq 1..made
  /\ home \in NoRoot..made /\ written \subseteq Paths /\ touched \in BOOLEAN
  /\ misuse \subseteq {"failed load", "late append"}

(* A freed document is used, or freed again, only after a load failed on a *)
(* closed report or nodes were appended to one, however the calls follow   *)
(* each other.                                                             *)
FreedIsLeftAlone == touched => misuse # {}
=============================================================================
