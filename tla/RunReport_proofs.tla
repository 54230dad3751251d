-------------------------- MODULE RunReport_proofs --------------------------
(* Proofs about RunReport: however an XMLOut is used, by rteval or by       *)
(* anybody, no freed document is used but in the two known ways; the        *)
(* statistics agree with the samples, for any number of cpus and buckets    *)
(* and any counts; and the archive holds a whole report.                    *)
(*                                                                          *)
(* The second part is about sums.  What MapThenSumSet adds up is the value  *)
(* of a recursive function, and facts about it take induction, which is     *)
(* done here with the set of the numbers, or of the sets, a fact holds for: *)
(* a least one outside of it would exist, by well-foundedness.              *)
EXTENDS RunReport, FiniteSetTheorems, TLAPS

(* What the code relies on without saying so: the status tells whether the  *)
(* document is one that has not been freed.                                 *)
DocTypes ==
  /\ status \in 0..4 /\ made \in Nat /\ xmldoc \in 0..made /\ freed \subseteq 1..made
  /\ home \in NoRoot..made /\ touched \in BOOLEAN

DocInv ==
  /\ status = 0 => xmldoc = NoDoc
  /\ status \in 1..3 => xmldoc # NoDoc
  /\ status = 1 => home = NoDoc
  /\ misuse = {} => ~ touched /\ (status \in 1..3 => xmldoc \notin freed)

IInv == DocTypes /\ DocInv

-----------------------------------------------------------------------------
LEMMA InitInv == Init => IInv
<1> SUFFICES ASSUME XMLInit PROVE IInv
  BY DEF Init
<1>1. status = 0 /\ xmldoc = 0 /\ made = 0 /\ freed = {} /\ home = -1 /\ touched = FALSE
  BY DEF XMLInit, NoDoc, NoRoot
<1>2. DocTypes
  <2>1. freed \subseteq 1..made
    BY <1>1
  <2>2. status \in 0..4 /\ made \in Nat /\ xmldoc \in 0..made /\ home \in NoRoot..made
    BY <1>1 DEF NoRoot
  <2>3. touched \in BOOLEAN
    BY <1>1
  <2> QED BY <2>1, <2>2, <2>3 DEF DocTypes
<1>3. DocInv
  BY <1>1 DEF DocInv, NoDoc
<1> QED BY <1>2, <1>3 DEF IInv

(* A report is only started, loaded or given up by these calls.             *)
LEMMA NewReportInv ==
  ASSUME IInv, NewReport
  PROVE  IInv'
<1>1. /\ status \in {0, 3} /\ made' = made + 1 /\ xmldoc' = made + 1 /\ status' = 1
      /\ home' = NoDoc /\ misuse' = misuse
      /\ freed' = IF status = 3 THEN freed \cup {xmldoc} ELSE freed
      /\ touched' = (touched \/ (status = 3 /\ xmldoc \in freed))
  BY DEF NewReport, FreeOld, Free, MakeDoc
<1>2. DocTypes'
  BY <1>1 DEF IInv, DocTypes, DocInv, NoDoc, NoRoot
<1>3. DocInv'
  BY <1>1 DEF IInv, DocTypes, DocInv, NoDoc
<1> QED BY <1>2, <1>3 DEF IInv

LEMMA LoadReportInv ==
  ASSUME IInv, NEW valid \in BOOLEAN, LoadReport(valid)
  PROVE  IInv'
<1>1. /\ status \in {0, 1, 2, 3} /\ made' = made + 1 /\ xmldoc' = made + 1
      /\ status' \in {2, 3} /\ home' = home /\ misuse' = misuse
      /\ freed' = IF status = 3 THEN freed \cup {xmldoc} ELSE freed
      /\ touched' = (touched \/ (status = 3 /\ xmldoc \in freed))
  BY DEF LoadReport, FreeOld, Free, MakeDoc
<1>2. DocTypes'
  BY <1>1 DEF IInv, DocTypes, DocInv, NoDoc, NoRoot
<1>3. DocInv'
  BY <1>1 DEF IInv, DocTypes, DocInv, NoDoc
<1> QED BY <1>2, <1>3 DEF IInv

LEMMA LoadFailsInv ==
  ASSUME IInv, LoadFails
  PROVE  IInv'
<1>1. /\ status \in {0, 1, 2, 3} /\ made' = made /\ xmldoc' = xmldoc
      /\ status' = status /\ home' = home
      /\ misuse' = IF status = 3 THEN misuse \cup {"failed load"} ELSE misuse
      /\ freed' = IF status = 3 THEN freed \cup {xmldoc} ELSE freed
      /\ touched' = (touched \/ (status = 3 /\ xmldoc \in freed))
  BY DEF LoadFails, FreeOld, Free
<1>2. DocTypes'
  <2>1. status = 3 => xmldoc \in 1..made
    BY DEF IInv, DocTypes, DocInv, NoDoc
  <2> QED BY <1>1, <2>1 DEF IInv, DocTypes, NoRoot
<1>3. DocInv'
  BY <1>1 DEF IInv, DocTypes, DocInv, NoDoc
<1> QED BY <1>2, <1>3 DEF IInv

LEMMA DeleteInv ==
  ASSUME IInv, Delete
  PROVE  IInv'
<1>1. /\ status \in {0, 1, 2, 3} /\ made' = made /\ xmldoc' = xmldoc
      /\ status' = 4 /\ home' = home /\ misuse' = misuse
      /\ freed' = IF level = 0 /\ xmldoc # NoDoc THEN freed \cup {xmldoc} ELSE freed
      /\ touched' = (touched \/ (level = 0 /\ xmldoc # NoDoc /\ xmldoc \in freed))
  BY DEF Delete, Free
<1>2. DocTypes'
  BY <1>1 DEF IInv, DocTypes, DocInv, NoDoc, NoRoot
<1>3. DocInv'
  BY <1>1 DEF IInv, DocTypes, DocInv, NoDoc
<1> QED BY <1>2, <1>3 DEF IInv

(* The calls that work on the report there is. *)
LEMMA CloseInv ==
  ASSUME IInv, Close
  PROVE  IInv'
  BY DEF Close, IInv, DocTypes, DocInv, NoDoc, NoRoot

LEMMA WriteInv ==
  ASSUME IInv, Write
  PROVE  IInv'
  BY DEF Write, IInv, DocTypes, DocInv, NoDoc, NoRoot

LEMMA AppendInv ==
  ASSUME IInv, NEW tag, AppendXMLnodes(tag)
  PROVE  IInv'
<1>1. UNCHANGED <<status, xmldoc, made, freed, home>> /\ touched' \in BOOLEAN
  BY DEF AppendXMLnodes, IInv, DocTypes
<1>2. CASE status = 1
  BY <1>1, <1>2 DEF AppendXMLnodes, IInv, DocTypes, DocInv, NoDoc, NoRoot
<1>3. CASE status # 1
  <2>1. misuse' # {}
    BY <1>3 DEF AppendXMLnodes
  <2> QED BY <1>1, <1>3, <2>1 DEF IInv, DocTypes, DocInv, NoDoc, NoRoot
<1> QED BY <1>2, <1>3

(* All others leave the documents alone. *)
DocVars == <<status, xmldoc, made, freed, home, touched, misuse>>

LEMMA SameInv ==
  ASSUME IInv, UNCHANGED DocVars
  PROVE  IInv'
  BY DEF DocVars, IInv, DocTypes, DocInv

LEMMA AnyCallInv ==
  ASSUME IInv, NEW tags, AnyCall(tags)
  PROVE  IInv'
<1>1. CASE NewReport  BY <1>1, NewReportInv
<1>2. CASE LoadFails  BY <1>2, LoadFailsInv
<1>3. CASE Close      BY <1>3, CloseInv
<1>4. CASE Write      BY <1>4, WriteInv
<1>5. CASE CloseBlock BY <1>5, SameInv DEF CloseBlock, DocVars
<1>6. CASE Delete     BY <1>6, DeleteInv
<1>7. CASE \E valid \in BOOLEAN : LoadReport(valid)
  BY <1>7, LoadReportInv
<1>8. CASE \E tag \in tags : OpenBlock(tag) \/ TaggedValue(tag) \/ AppendXMLnodes(tag)
  <2>1. PICK tag \in tags : OpenBlock(tag) \/ TaggedValue(tag) \/ AppendXMLnodes(tag)
    BY <1>8
  <2>2. CASE OpenBlock(tag)   BY <2>2, SameInv DEF OpenBlock, DocVars
  <2>3. CASE TaggedValue(tag) BY <2>3, SameInv DEF TaggedValue, DocVars
  <2>4. CASE AppendXMLnodes(tag) BY <2>4, AppendInv
  <2> QED BY <2>1, <2>2, <2>3, <2>4
<1> QED BY <1>1, <1>2, <1>3, <1>4, <1>5, <1>6, <1>7, <1>8 DEF AnyCall

LEMMA NextInv ==
  ASSUME IInv, [Next]_vars
  PROVE  IInv'
<1>1. CASE Probe \/ IsDir \/ MakeDir \/ OtherProcess \/ Thread \/ MakeReportFails \/ TarResults
           \/ TarFails
  BY <1>1, SameInv DEF Probe, IsDir, MakeDir, OtherProcess, OtherMakesDir, OtherTakesDir,
     OtherWrites, OtherPacks, Other, Thread, MakeReportFails, TarResults, TarFails, xmlVars, DocVars
<1>2. CASE Begin BY <1>2, NewReportInv DEF Begin
<1>3. CASE OpenInfo BY <1>3, SameInv DEF OpenInfo, OpenBlock, DocVars
<1>4. CASE AddDate \/ AddTime BY <1>4, SameInv DEF AddDate, AddTime, TaggedValue, DocVars
<1>5. CASE EndInfo BY <1>5, SameInv DEF EndInfo, CloseBlock, DocVars
<1>6. CASE AppendInfo \/ AppendLoads \/ AppendMeasurements
  BY <1>6, AppendInv DEF AppendInfo, AppendLoads, AppendMeasurements
<1>7. CASE CloseReport BY <1>7, CloseInv DEF CloseReport
<1>8. CASE Save \/ SaveFails \/ Screen BY <1>8, WriteInv DEF Save, SaveFails, Screen
<1>9. CASE Gone BY <1>9, DeleteInv DEF Gone
<1>10. CASE Anybody BY <1>10, AnyCallInv DEF Anybody
<1>11. CASE UNCHANGED vars BY <1>11, SameInv DEF vars, xmlVars, DocVars
<1> QED BY <1>1, <1>2, <1>3, <1>4, <1>5, <1>6, <1>7, <1>8, <1>9, <1>10, <1>11 DEF Next

(* A freed document is used, or freed again, only after a load failed on a  *)
(* closed report or nodes were appended to one (XMLOut).                    *)
THEOREM FreedSafe == Spec => []FreedIsLeftAlone
<1>1. Init => IInv BY InitInv
<1>2. IInv /\ [Next]_vars => IInv' BY NextInv
<1>3. IInv => FreedIsLeftAlone BY DEF IInv, DocInv, FreedIsLeftAlone
<1> QED BY <1>1, <1>2, <1>3, PTL DEF Spec

-----------------------------------------------------------------------------
(* Sums *)

(* Induction over the natural numbers and over a finite set, with the set   *)
(* of those a property holds for in the place of the property.              *)
LEMMA NatSet ==
  ASSUME NEW T, 0 \in T, \A n \in Nat : n \in T => n + 1 \in T
  PROVE  Nat \subseteq T
<1>1. SUFFICES ASSUME Nat \ T # {} PROVE FALSE OBVIOUS
<1>2. PICK n \in Nat \ T : \A k \in Nat \ T : ~(k < n)
  <2>1. \E n \in Nat \ T : \A k \in Nat \ T : <<k, n>> \notin OpToRel(<, Nat)
    BY <1>1, NatLessThanWellFounded, WFMin
  <2>2. \A k, n \in Nat : k < n => <<k, n>> \in OpToRel(<, Nat) BY DEF OpToRel
  <2>3. QED BY <2>1, <2>2
<1>3. n # 0 /\ n - 1 \in Nat /\ n - 1 < n BY <1>2
<1>4. n - 1 \in T BY <1>2, <1>3
<1>5. QED BY <1>2, <1>3, <1>4

(* A nonempty set of subsets of a finite set has one no other is part of.   *)
LEMMA Smallest ==
  ASSUME NEW S, IsFiniteSet(S), NEW B, B \subseteq SUBSET S, B # {}
  PROVE  \E U \in B : \A V \in B : V \subseteq U => V = U
<1>1. B \subseteq FiniteSubsetsOf(S) BY FS_FiniteSubsetsOfFinite
<1>2. \E U \in B : \A V \in B : <<V, U>> \notin StrictSubsetOrdering(S)
  BY <1>1, FS_StrictSubsetOrderingWellFounded, WFMin
<1>3. \A U, V \in B : V \subseteq U /\ V # U => <<V, U>> \in StrictSubsetOrdering(S)
  BY DEF StrictSubsetOrdering
<1>4. QED BY <1>2, <1>3

(* What holds for the empty set, and for a set when it holds for those with *)
(* an element less, holds for every finite set.                             *)
LEMMA SetInduct ==
  ASSUME NEW S, IsFiniteSet(S), NEW T, {} \in T,
         \A U \in SUBSET S : U # {} /\ (\A x \in U : U \ {x} \in T) => U \in T
  PROVE  SUBSET S \subseteq T
<1>1. SUFFICES ASSUME (SUBSET S) \ T # {} PROVE FALSE OBVIOUS
<1>2. PICK U \in (SUBSET S) \ T : \A V \in (SUBSET S) \ T : V \subseteq U => V = U
  <2> DEFINE B == (SUBSET S) \ T
  <2>1. B \subseteq SUBSET S /\ B # {} BY <1>1
  <2> HIDE DEF B
  <2>2. \E U \in B : \A V \in B : V \subseteq U => V = U BY <2>1, Smallest
  <2>3. QED BY <2>2 DEF B
<1>3. U # {} /\ \A x \in U : U \ {x} \in T BY <1>2
<1>4. QED BY <1>2, <1>3

(* The sum of w[x] over the x of a finite set, added up the way             *)
(* MapThenSumSet does.                                                      *)
Pick(s) == CHOOSE x \in s : TRUE
AddsUp(w, S, f) ==
  f = [s \in SUBSET S |-> IF s = {} THEN 0 ELSE w[Pick(s)] + f[s \ {Pick(s)}]]
SumOf(w, S) == (CHOOSE f : AddsUp(w, S, f))[S]

LEMMA Picked == \A s : s # {} => Pick(s) \in s
BY DEF Pick

(* There is a way to add up, by induction over the number of elements.      *)
LEMMA Addition ==
  ASSUME NEW S, IsFiniteSet(S), NEW w
  PROVE  \E f : AddsUp(w, S, f)
<1> DEFINE Upto(n) == {s \in SUBSET S : Cardinality(s) =< n}
           Partial(n, f) ==
             f = [s \in Upto(n) |-> IF s = {} THEN 0 ELSE w[Pick(s)] + f[s \ {Pick(s)}]]
           T == {n \in Nat : \E f : Partial(n, f)}
<1>0. \A s \in SUBSET S : IsFiniteSet(s) /\ Cardinality(s) \in Nat
  BY FS_Subset, FS_CardinalityType
<1>1. \A s \in SUBSET S : s # {} => /\ Pick(s) \in s
                                   /\ Cardinality(s \ {Pick(s)}) = Cardinality(s) - 1
  BY <1>0, FS_RemoveElement, Picked
<1>2. 0 \in T
  <2>1. \A s \in Upto(0) : s = {}
    <3>1. ASSUME NEW s \in Upto(0) PROVE s = {}
      <4>1. IsFiniteSet(s) /\ Cardinality(s) = 0 BY <1>0
      <4>2. QED BY <4>1, FS_EmptySet
    <3>2. QED BY <3>1
  <2>2. Partial(0, [s \in Upto(0) |-> 0]) BY <2>1
  <2>3. QED BY <2>2
<1>3. ASSUME NEW n \in Nat, n \in T PROVE n + 1 \in T
  <2>1. PICK f : Partial(n, f) BY <1>3
  <2> DEFINE g == [s \in Upto(n + 1) |-> IF s = {} THEN 0 ELSE w[Pick(s)] + f[s \ {Pick(s)}]]
  <2>2. ASSUME NEW s \in Upto(n) PROVE s \in Upto(n + 1) /\ g[s] = f[s]
    <3>1. s \in Upto(n + 1) BY <1>0
    <3>2. f[s] = IF s = {} THEN 0 ELSE w[Pick(s)] + f[s \ {Pick(s)}] BY <2>1
    <3>3. QED BY <3>1, <3>2
  <2>3. \A s \in Upto(n + 1) : s # {} => s \ {Pick(s)} \in Upto(n) BY <1>0, <1>1
  <2>4. Partial(n + 1, g) BY <2>2, <2>3
  <2>5. n + 1 \in Nat OBVIOUS
  <2>6. QED BY <2>4, <2>5
<1>4. Cardinality(S) \in T BY <1>2, <1>3, NatSet, FS_CardinalityType
<1>5. Upto(Cardinality(S)) = SUBSET S BY FS_Subset
<1>6. QED BY <1>4, <1>5 DEF AddsUp

(* Two ways to add up agree on the sets both know.                          *)
LEMMA SameSum ==
  ASSUME NEW S, IsFiniteSet(S), NEW U \in SUBSET S, NEW w, NEW v, \A x \in U : v[x] = w[x],
         NEW f, AddsUp(w, S, f), NEW g, AddsUp(v, U, g)
  PROVE  \A s \in SUBSET U : f[s] = g[s]
<1> DEFINE T == {s \in SUBSET U : f[s] = g[s]}
<1>1. /\ \A s \in SUBSET S : f[s] = IF s = {} THEN 0 ELSE w[Pick(s)] + f[s \ {Pick(s)}]
      /\ \A s \in SUBSET U : g[s] = IF s = {} THEN 0 ELSE v[Pick(s)] + g[s \ {Pick(s)}]
  BY DEF AddsUp
<1>2. {} \in T BY <1>1
<1>3. ASSUME NEW s \in SUBSET U, s # {}, \A x \in s : s \ {x} \in T PROVE s \in T
  BY <1>1, <1>3, Picked
<1>4. SUBSET U \subseteq T
  <2> HIDE DEF T
  <2>1. IsFiniteSet(U) BY FS_Subset
  <2>2. QED BY <1>2, <1>3, <2>1, SetInduct
<1>5. QED BY <1>4

(* The sum is that of one way to add up: any agrees with it.                *)
LEMMA SumIs ==
  ASSUME NEW S, IsFiniteSet(S), NEW w, NEW v, \A x \in S : v[x] = w[x],
         NEW f, AddsUp(v, S, f)
  PROVE  f[S] = SumOf(w, S)
<1>1. \E g : AddsUp(w, S, g) BY Addition
<1>2. PICK h : AddsUp(w, S, h) /\ h = CHOOSE g : AddsUp(w, S, g) BY <1>1
<1>3. h[S] = f[S]
  <2>1. S \in SUBSET S OBVIOUS
  <2>2. \A s \in SUBSET S : h[s] = f[s] BY <1>2, <2>1, SameSum
  <2>3. QED BY <2>1, <2>2
<1>4. QED BY <1>2, <1>3 DEF SumOf

(* Nothing, the element picked, and the same weights by another name.       *)
LEMMA SumEmpty == ASSUME NEW w PROVE SumOf(w, {}) = 0
<1>1. IsFiniteSet({}) BY FS_EmptySet
<1>2. PICK f : AddsUp(w, {}, f) BY <1>1, Addition
<1>3. f[{}] = 0 BY <1>2 DEF AddsUp
<1>4. QED BY <1>1, <1>2, <1>3, SumIs

LEMMA SumPick ==
  ASSUME NEW S, IsFiniteSet(S), NEW w, S # {}
  PROVE  SumOf(w, S) = w[Pick(S)] + SumOf(w, S \ {Pick(S)})
<1> DEFINE U == S \ {Pick(S)}
<1>1. PICK f : AddsUp(w, S, f) BY Addition
<1>2. IsFiniteSet(U) BY FS_RemoveElement
<1>3. PICK g : AddsUp(w, U, g) BY <1>2, Addition
<1>4. f[U] = g[U] BY <1>1, <1>3, SameSum
<1>5. g[U] = SumOf(w, U) BY <1>2, <1>3, SumIs
<1>6. f[S] = SumOf(w, S) BY <1>1, SumIs
<1>7. f[S] = w[Pick(S)] + f[U] BY <1>1 DEF AddsUp
<1>8. QED BY <1>4, <1>5, <1>6, <1>7

LEMMA SumSame ==
  ASSUME NEW S, IsFiniteSet(S), NEW w, NEW v, \A x \in S : v[x] = w[x]
  PROVE  SumOf(v, S) = SumOf(w, S)
<1>1. PICK f : AddsUp(v, S, f) BY Addition
<1>2. f[S] = SumOf(w, S) BY <1>1, SumIs
<1>3. f[S] = SumOf(v, S) BY <1>1, SumIs
<1>4. QED BY <1>2, <1>3

LEMMA SumType ==
  ASSUME NEW S, IsFiniteSet(S), NEW w, \A x \in S : w[x] \in Int
  PROVE  SumOf(w, S) \in Int
<1> DEFINE T == {U \in SUBSET S : SumOf(w, U) \in Int}
<1>1. {} \in T BY SumEmpty
<1>2. ASSUME NEW U \in SUBSET S, U # {}, \A x \in U : U \ {x} \in T PROVE U \in T
  <2>1. IsFiniteSet(U) /\ Pick(U) \in U BY <1>2, FS_Subset, Picked
  <2>2. SumOf(w, U) = w[Pick(U)] + SumOf(w, U \ {Pick(U)}) BY <1>2, <2>1, SumPick
  <2>3. w[Pick(U)] \in Int /\ SumOf(w, U \ {Pick(U)}) \in Int BY <1>2, <2>1
  <2>4. QED BY <2>2, <2>3
<1>3. SUBSET S \subseteq T
  <2> HIDE DEF T
  <2>1. QED BY <1>1, <1>2, SetInduct
<1>4. QED BY <1>3

(* Any element can be taken out of a sum, not only the one picked.          *)
LEMMA SumRemove ==
  ASSUME NEW S, IsFiniteSet(S), NEW w, \A x \in S : w[x] \in Int
  PROVE  \A x \in S : SumOf(w, S) = w[x] + SumOf(w, S \ {x})
<1> DEFINE T == {U \in SUBSET S : \A x \in U : SumOf(w, U) = w[x] + SumOf(w, U \ {x})}
<1>1. {} \in T OBVIOUS
<1>2. ASSUME NEW U \in SUBSET S, U # {}, \A x \in U : U \ {x} \in T PROVE U \in T
  <2> DEFINE p == Pick(U)
  <2>1. IsFiniteSet(U) /\ p \in U BY <1>2, FS_Subset, Picked
  <2>2. SumOf(w, U) = w[p] + SumOf(w, U \ {p}) BY <1>2, <2>1, SumPick
  <2>3. ASSUME NEW x \in U, x # p PROVE SumOf(w, U) = w[x] + SumOf(w, U \ {x})
    <3> DEFINE rest == SumOf(w, (U \ {x}) \ {p})
    <3>1. rest \in Int
      <4>1. (U \ {x}) \ {p} \in SUBSET S OBVIOUS
      <4>2. QED BY <4>1, FS_Subset, SumType
    <3>2. SumOf(w, U \ {p}) = w[x] + rest
      <4>1. (U \ {p}) \ {x} = (U \ {x}) \ {p} OBVIOUS
      <4>2. SumOf(w, U \ {p}) = w[x] + SumOf(w, (U \ {p}) \ {x}) BY <1>2, <2>1, <2>3
      <4>3. QED BY <4>1, <4>2
    <3>3. SumOf(w, U \ {x}) = w[p] + rest BY <1>2, <2>1, <2>3
    <3>4. w[x] \in Int /\ w[p] \in Int BY <2>1
    <3> HIDE DEF rest, p
    <3>5. QED BY <2>2, <3>1, <3>2, <3>3, <3>4
  <2>4. QED BY <2>2, <2>3
<1>3. SUBSET S \subseteq T
  <2> HIDE DEF T
  <2>1. QED BY <1>1, <1>2, SetInduct
<1>4. QED BY <1>3

(* Sums can be added, multiplied and compared.                              *)
LEMMA SumPlus ==
  ASSUME NEW S, IsFiniteSet(S), NEW u, NEW v, NEW w,
         \A x \in S : v[x] \in Int /\ w[x] \in Int /\ u[x] = v[x] + w[x]
  PROVE  SumOf(u, S) = SumOf(v, S) + SumOf(w, S)
<1> DEFINE T == {U \in SUBSET S : SumOf(u, U) = SumOf(v, U) + SumOf(w, U)}
<1>1. {} \in T BY SumEmpty
<1>2. ASSUME NEW U \in SUBSET S, U # {}, \A x \in U : U \ {x} \in T PROVE U \in T
  <2>1. PICK x \in U : TRUE BY <1>2
  <2>2. IsFiniteSet(U) /\ IsFiniteSet(U \ {x}) BY FS_Subset, FS_RemoveElement
  <2>3. /\ SumOf(u, U) = u[x] + SumOf(u, U \ {x})
        /\ SumOf(v, U) = v[x] + SumOf(v, U \ {x})
        /\ SumOf(w, U) = w[x] + SumOf(w, U \ {x})
    BY <2>2, SumRemove
  <2>4. SumOf(v, U \ {x}) \in Int /\ SumOf(w, U \ {x}) \in Int BY <2>2, SumType
  <2>5. SumOf(u, U \ {x}) = SumOf(v, U \ {x}) + SumOf(w, U \ {x}) BY <1>2
  <2>6. QED BY <2>3, <2>4, <2>5
<1>3. SUBSET S \subseteq T
  <2> HIDE DEF T
  <2>1. QED BY <1>1, <1>2, SetInduct
<1>4. QED BY <1>3

LEMMA SumTimes ==
  ASSUME NEW S, IsFiniteSet(S), NEW u, NEW v, NEW c \in Int,
         \A x \in S : v[x] \in Int /\ u[x] = c * v[x]
  PROVE  SumOf(u, S) = c * SumOf(v, S)
<1> DEFINE T == {U \in SUBSET S : SumOf(u, U) = c * SumOf(v, U)}
<1>1. {} \in T BY SumEmpty
<1>2. ASSUME NEW U \in SUBSET S, U # {}, \A x \in U : U \ {x} \in T PROVE U \in T
  <2>1. PICK x \in U : TRUE BY <1>2
  <2>2. IsFiniteSet(U) /\ IsFiniteSet(U \ {x}) BY FS_Subset, FS_RemoveElement
  <2>3. /\ SumOf(u, U) = u[x] + SumOf(u, U \ {x})
        /\ SumOf(v, U) = v[x] + SumOf(v, U \ {x})
    BY <2>2, SumRemove
  <2>4. SumOf(v, U \ {x}) \in Int BY <2>2, SumType
  <2>5. SumOf(u, U \ {x}) = c * SumOf(v, U \ {x}) BY <1>2
  <2>6. QED BY <2>3, <2>4, <2>5
<1>3. SUBSET S \subseteq T
  <2> HIDE DEF T
  <2>1. QED BY <1>1, <1>2, SetInduct
<1>4. QED BY <1>3

LEMMA SumLeq ==
  ASSUME NEW S, IsFiniteSet(S), NEW v, NEW w,
         \A x \in S : v[x] \in Int /\ w[x] \in Int /\ v[x] =< w[x]
  PROVE  SumOf(v, S) =< SumOf(w, S)
<1> DEFINE T == {U \in SUBSET S : SumOf(v, U) =< SumOf(w, U)}
<1>1. {} \in T BY SumEmpty
<1>2. ASSUME NEW U \in SUBSET S, U # {}, \A x \in U : U \ {x} \in T PROVE U \in T
  <2>1. PICK x \in U : TRUE BY <1>2
  <2>2. IsFiniteSet(U) /\ IsFiniteSet(U \ {x}) BY FS_Subset, FS_RemoveElement
  <2>3. /\ SumOf(v, U) = v[x] + SumOf(v, U \ {x})
        /\ SumOf(w, U) = w[x] + SumOf(w, U \ {x})
    BY <2>2, SumRemove
  <2>4. SumOf(v, U \ {x}) \in Int /\ SumOf(w, U \ {x}) \in Int BY <2>2, SumType
  <2>5. SumOf(v, U \ {x}) =< SumOf(w, U \ {x}) BY <1>2
  <2>6. QED BY <2>3, <2>4, <2>5
<1>3. SUBSET S \subseteq T
  <2> HIDE DEF T
  <2>1. QED BY <1>1, <1>2, SetInduct
<1>4. QED BY <1>3

(* A sum of natural numbers is at least each of them; it is zero when all   *)
(* of them are.                                                             *)
LEMMA SumZero ==
  ASSUME NEW S, IsFiniteSet(S), NEW w, \A x \in S : w[x] = 0
  PROVE  SumOf(w, S) = 0
<1>1. \A x \in S : w[x] \in Int /\ w[x] = 0 * w[x] OBVIOUS
<1>2. SumOf(w, S) = 0 * SumOf(w, S) BY <1>1, SumTimes
<1>3. SumOf(w, S) \in Int BY <1>1, SumType
<1>4. QED BY <1>2, <1>3

LEMMA SumNat ==
  ASSUME NEW S, IsFiniteSet(S), NEW w, \A x \in S : w[x] \in Nat
  PROVE  SumOf(w, S) \in Nat /\ \A x \in S : w[x] =< SumOf(w, S)
<1>1. ASSUME NEW U \in SUBSET S PROVE SumOf(w, U) \in Nat
  <2> DEFINE z == [x \in U |-> 0]
  <2>1. IsFiniteSet(U) BY FS_Subset
  <2>2. SumOf(z, U) = 0 BY <2>1, SumZero
  <2>3. SumOf(z, U) =< SumOf(w, U)
    <3>1. \A x \in U : z[x] \in Int /\ w[x] \in Int /\ z[x] =< w[x] OBVIOUS
    <3> HIDE DEF z
    <3>2. QED BY <2>1, <3>1, SumLeq
  <2>4. SumOf(w, U) \in Int BY <2>1, SumType
  <2>5. QED BY <2>2, <2>3, <2>4
<1>2. ASSUME NEW x \in S PROVE w[x] =< SumOf(w, S)
  <2>1. SumOf(w, S) = w[x] + SumOf(w, S \ {x}) BY SumRemove
  <2>2. SumOf(w, S \ {x}) \in Nat BY <1>1
  <2>3. QED BY <2>1, <2>2
<1>3. QED BY <1>1, <1>2

(* The square of a weighted sum is at most the sum of the weighted squares  *)
(* times the weights (Cauchy and Schwarz).                                  *)
LEMMA SquareStep ==
  ASSUME NEW A \in Nat, NEW V \in Nat, NEW W \in Nat, NEW a \in Nat, NEW w \in Nat,
         A * A =< V * W
  PROVE  (A + a * w) * (A + a * w) =< (V + a * a * w) * (W + w)
<1>1. 2 * (a * A) =< V + a * a * W
  <2>1. CASE W = 0
    <3>1. A * A =< 0 BY <2>1
    <3>2. A = 0 BY <3>1
    <3>3. QED BY <2>1, <3>2
  <2>2. CASE W # 0
    <3>1. 0 =< (A - a * W) * (A - a * W) OBVIOUS
    <3>2. (A - a * W) * (A - a * W) = A * A - 2 * (a * A) * W + (a * a * W) * W OBVIOUS
    <3>3. 2 * (a * A) * W =< (V + a * a * W) * W BY <3>1, <3>2
    <3>4. QED BY <2>2, <3>3
  <2>3. QED BY <2>1, <2>2
<1>2. 2 * (a * A) * w =< (V + a * a * W) * w BY <1>1
<1>3. (A + a * w) * (A + a * w) = A * A + 2 * (a * A) * w + (a * a * w) * w OBVIOUS
<1>4. (V + a * a * w) * (W + w) = V * W + (V + a * a * W) * w + (a * a * w) * w OBVIOUS
<1>5. QED BY <1>2, <1>3, <1>4

LEMMA SumSquares ==
  ASSUME NEW S, IsFiniteSet(S), NEW a, NEW w, NEW u, NEW v,
         \A x \in S : /\ a[x] \in Nat /\ w[x] \in Nat
                      /\ u[x] = a[x] * w[x] /\ v[x] = a[x] * a[x] * w[x]
  PROVE  SumOf(u, S) * SumOf(u, S) =< SumOf(v, S) * SumOf(w, S)
<1> DEFINE T == {U \in SUBSET S : SumOf(u, U) * SumOf(u, U) =< SumOf(v, U) * SumOf(w, U)}
<1>0. \A x \in S : u[x] \in Nat /\ v[x] \in Nat OBVIOUS
<1>1. {} \in T BY SumEmpty
<1>2. ASSUME NEW U \in SUBSET S, U # {}, \A x \in U : U \ {x} \in T PROVE U \in T
  <2>1. PICK x \in U : TRUE BY <1>2
  <2>2. IsFiniteSet(U) /\ IsFiniteSet(U \ {x}) BY FS_Subset, FS_RemoveElement
  <2>3. /\ SumOf(u, U) = u[x] + SumOf(u, U \ {x})
        /\ SumOf(v, U) = v[x] + SumOf(v, U \ {x})
        /\ SumOf(w, U) = w[x] + SumOf(w, U \ {x})
    BY <1>0, <2>2, SumRemove
  <2>4. /\ SumOf(u, U \ {x}) \in Nat /\ SumOf(v, U \ {x}) \in Nat
        /\ SumOf(w, U \ {x}) \in Nat
    BY <1>0, <2>2, SumNat
  <2>5. SumOf(u, U \ {x}) * SumOf(u, U \ {x}) =< SumOf(v, U \ {x}) * SumOf(w, U \ {x}) BY <1>2
  <2>6. /\ a[x] \in Nat /\ w[x] \in Nat
        /\ u[x] = a[x] * w[x] /\ v[x] = a[x] * a[x] * w[x]
    BY <2>1
  <2>7. (SumOf(u, U \ {x}) + u[x]) * (SumOf(u, U \ {x}) + u[x])
          =< (SumOf(v, U \ {x}) + v[x]) * (SumOf(w, U \ {x}) + w[x])
    BY <2>4, <2>5, <2>6, SquareStep
  <2>8. QED BY <1>0, <2>3, <2>4, <2>6, <2>7
<1>3. SUBSET S \subseteq T
  <2> HIDE DEF T
  <2>1. QED BY <1>1, <1>2, SetInduct
<1>4. QED BY <1>3

(* What is zero does not count; and a sum can be taken over other names.    *)
LEMMA SumNonzero ==
  ASSUME NEW S, IsFiniteSet(S), NEW w, \A x \in S : w[x] \in Int
  PROVE  SumOf(w, {x \in S : w[x] # 0}) = SumOf(w, S)
<1> DEFINE Some(U) == {x \in U : w[x] # 0}
           T == {U \in SUBSET S : SumOf(w, Some(U)) = SumOf(w, U)}
<1>1. {} \in T
  <2>1. Some({}) = {} OBVIOUS
  <2>2. QED BY <2>1
<1>2. ASSUME NEW U \in SUBSET S, U # {}, \A x \in U : U \ {x} \in T PROVE U \in T
  <2>1. PICK x \in U : TRUE BY <1>2
  <2>2. IsFiniteSet(U) /\ IsFiniteSet(Some(U)) BY FS_Subset
  <2>3. SumOf(w, U) = w[x] + SumOf(w, U \ {x}) BY <2>2, SumRemove
  <2>4. SumOf(w, U \ {x}) \in Int /\ w[x] \in Int BY <2>1, <2>2, FS_RemoveElement, SumType
  <2>5. SumOf(w, Some(U \ {x})) = SumOf(w, U \ {x}) BY <1>2
  <2>6. CASE w[x] = 0
    <3>1. Some(U) = Some(U \ {x}) BY <2>6
    <3>2. SumOf(w, Some(U)) = SumOf(w, U \ {x}) BY <2>5, <3>1
    <3>3. SumOf(w, U) = SumOf(w, U \ {x}) BY <2>3, <2>4, <2>6
    <3>4. QED BY <3>2, <3>3
  <2>7. CASE w[x] # 0
    <3>1. x \in Some(U) /\ Some(U) \ {x} = Some(U \ {x}) BY <2>1, <2>7
    <3>2. SumOf(w, Some(U)) = w[x] + SumOf(w, Some(U) \ {x}) BY <2>2, <3>1, SumRemove
    <3>3. QED BY <2>3, <2>5, <3>1, <3>2
  <2>8. QED BY <2>6, <2>7
<1>3. SUBSET S \subseteq T
  <2> HIDE DEF T
  <2>1. QED BY <1>1, <1>2, SetInduct
<1>4. QED BY <1>3

(* A sum over the images of an injective renaming.                          *)
LEMMA SumMoved ==
  ASSUME NEW S, IsFiniteSet(S), NEW m, \A x, y \in S : m[x] = m[y] => x = y,
         NEW w, NEW v, \A x \in S : w[x] \in Int /\ v[m[x]] = w[x]
  PROVE  /\ IsFiniteSet({m[x] : x \in S})
         /\ SumOf(v, {m[x] : x \in S}) = SumOf(w, S)
<1> DEFINE Im(U) == {m[x] : x \in U}
           T == {U \in SUBSET S : IsFiniteSet(Im(U)) /\ SumOf(v, Im(U)) = SumOf(w, U)}
<1>1. {} \in T
  <2>1. Im({}) = {} OBVIOUS
  <2>2. QED BY <2>1, FS_EmptySet, SumEmpty
<1>2. ASSUME NEW U \in SUBSET S, U # {}, \A x \in U : U \ {x} \in T PROVE U \in T
  <2>1. PICK x \in U : TRUE BY <1>2
  <2>2. IsFiniteSet(Im(U \ {x})) /\ SumOf(v, Im(U \ {x})) = SumOf(w, U \ {x}) BY <1>2
  <2>3. Im(U) = Im(U \ {x}) \cup {m[x]} /\ Im(U) \ {m[x]} = Im(U \ {x}) BY <2>1
  <2>4. IsFiniteSet(Im(U)) BY <2>2, <2>3, FS_AddElement
  <2>5. SumOf(w, U) = w[x] + SumOf(w, U \ {x}) BY FS_Subset, SumRemove
  <2>6. SumOf(v, Im(U)) = v[m[x]] + SumOf(v, Im(U) \ {m[x]})
    <3>1. \A y \in Im(U) : v[y] \in Int OBVIOUS
    <3>2. m[x] \in Im(U) BY <2>1
    <3> HIDE DEF Im
    <3>3. QED BY <2>4, <3>1, <3>2, SumRemove
  <2>7. v[m[x]] = w[x] BY <2>1
  <2>8. SumOf(v, Im(U)) = SumOf(w, U) BY <2>2, <2>3, <2>5, <2>6, <2>7
  <2>9. QED BY <2>4, <2>8
<1>3. SUBSET S \subseteq T
  <2> HIDE DEF T
  <2>1. QED BY <1>1, <1>2, SetInduct
<1>4. QED BY <1>3

(* MapThenSumSet, with each of the mappings it is used with.                *)
LEMMA SumSamples ==
  ASSUME NEW S, IsFiniteSet(S), NEW w
  PROVE  MapThenSumSet(LAMBDA i : w[i], S) = SumOf(w, S)
BY DEF MapThenSumSet, MapThenFoldSet, SumOf, AddsUp, Pick

LEMMA SumWeighted ==
  ASSUME NEW S, IsFiniteSet(S), NEW r, NEW w, \A i \in S : w[i] = i * r.samples[i]
  PROVE  MapThenSumSet(LAMBDA i : i * r.samples[i], S) = SumOf(w, S)
<1> DEFINE Adds(f) ==
      f = [s \in SUBSET S |-> IF s = {} THEN 0 ELSE Pick(s) * r.samples[Pick(s)] + f[s \ {Pick(s)}]]
<1>1. PICK f : AddsUp(w, S, f) BY Addition
<1>2. Adds(f) BY <1>1, Picked DEF AddsUp
<1>3. PICK g : g = (CHOOSE h : Adds(h)) OBVIOUS
<1>4. Adds(g) BY <1>2, <1>3
<1>5. AddsUp(w, S, g) BY <1>4, Picked DEF AddsUp
<1>6. g[S] = SumOf(w, S) BY <1>5, SumIs
<1>7. QED BY <1>3, <1>6 DEF MapThenSumSet, MapThenFoldSet, Pick

-----------------------------------------------------------------------------
(* RunData *)

(* What a RunData keeps true of itself: it has counted its samples, which   *)
(* are in buckets below n.                                                  *)
Counted(r, n) ==
  /\ DOMAIN r.samples \subseteq 0..n-1 /\ \A i \in DOMAIN r.samples : r.samples[i] \in Nat
  /\ r.numsamples = SumOf(r.samples, DOMAIN r.samples)

(* And it knows the first and the last that is not empty.                   *)
Bounded(r) ==
  /\ \A i \in DOMAIN r.samples : r.samples[i] # 0 => r.min =< i /\ i =< r.max
  /\ IF r.numsamples = 0 THEN r.min = NoMinimum /\ r.max = 0
     ELSE /\ r.min \in DOMAIN r.samples /\ r.samples[r.min] # 0
          /\ r.max \in DOMAIN r.samples /\ r.samples[r.max] # 0

(* The keys of the samples are finitely many, and no sample is more than    *)
(* all.                                                                     *)
LEMMA Keys ==
  ASSUME NEW r, NEW n \in Nat, Counted(r, n)
  PROVE  /\ IsFiniteSet(DOMAIN r.samples) /\ r.numsamples \in Nat
         /\ \A i \in DOMAIN r.samples : i \in Nat /\ r.samples[i] =< r.numsamples
         /\ (\A i \in DOMAIN r.samples : r.samples[i] = 0) => r.numsamples = 0
<1>1. IsFiniteSet(DOMAIN r.samples)
  <2>1. IsFiniteSet(0..n-1) BY FS_Interval
  <2>2. QED BY <2>1, FS_Subset DEF Counted
<1>2. /\ SumOf(r.samples, DOMAIN r.samples) \in Nat
      /\ \A i \in DOMAIN r.samples : r.samples[i] =< SumOf(r.samples, DOMAIN r.samples)
  BY <1>1, SumNat DEF Counted
<1>3. QED BY <1>1, <1>2, SumZero DEF Counted

(* bucket() counts: a new bucket, with its value.                           *)
LEMMA BucketCounts ==
  ASSUME NEW r, NEW n \in Nat, Counted(r, n), NEW v \in Nat, NEW b, b = Bucket(r, n, v)
  PROVE  /\ Counted(b, n + 1) /\ b.numsamples = r.numsamples + v
         /\ DOMAIN b.samples = DOMAIN r.samples \cup {n} /\ n \notin DOMAIN r.samples
         /\ b.samples[n] = v /\ \A i \in DOMAIN r.samples : b.samples[i] = r.samples[i]
<1> DEFINE s == r.samples
           t == b.samples
<1>1. DOMAIN s \subseteq 0..n-1 /\ \A i \in DOMAIN s : s[i] \in Nat BY DEF Counted
<1>2. /\ DOMAIN t = DOMAIN s \cup {n} /\ n \notin DOMAIN s
      /\ t[n] = v /\ \A i \in DOMAIN s : t[i] = s[i]
  BY <1>1 DEF Bucket
<1>3. b.numsamples = r.numsamples + v BY DEF Bucket
<1>4. IsFiniteSet(DOMAIN s) /\ r.numsamples \in Nat BY Keys
<1>5. IsFiniteSet(DOMAIN t) BY <1>2, <1>4, FS_AddElement
<1>6. \A i \in DOMAIN t : t[i] \in Nat BY <1>1, <1>2
<1>7. SumOf(t, DOMAIN t) = v + SumOf(s, DOMAIN s)
  <2> HIDE DEF s, t
  <2>1. (DOMAIN t) \ {n} = DOMAIN s BY <1>2
  <2>2. SumOf(t, DOMAIN t) = t[n] + SumOf(t, DOMAIN s) BY <1>2, <1>5, <1>6, <2>1, SumRemove
  <2>3. SumOf(t, DOMAIN s) = SumOf(s, DOMAIN s) BY <1>2, <1>4, SumSame DEF s
  <2>4. QED BY <1>2, <2>2, <2>3
<1>8. r.numsamples = SumOf(s, DOMAIN s) BY DEF Counted
<1>9. Counted(b, n + 1)
  <2>1. DOMAIN t \subseteq 0..(n + 1) - 1 BY <1>1, <1>2
  <2>2. b.numsamples = SumOf(t, DOMAIN t) BY <1>3, <1>4, <1>7, <1>8
  <2>3. QED BY <1>6, <2>1, <2>2 DEF Counted
<1>10. QED BY <1>2, <1>3, <1>9

(* bucket() keeps the first and the last that is not empty, as long as the  *)
(* buckets stay below the minimum a RunData starts with.                    *)
LEMMA BucketBounds ==
  ASSUME NEW r, NEW n \in Nat, n < NoMinimum, Counted(r, n), Bounded(r), NEW v \in Nat,
         NEW b, b = Bucket(r, n, v)
  PROVE  Bounded(b)
<1>1. /\ b.numsamples = r.numsamples + v /\ DOMAIN b.samples = DOMAIN r.samples \cup {n}
      /\ b.samples[n] = v /\ \A i \in DOMAIN r.samples : b.samples[i] = r.samples[i]
  BY DEF Bucket, Counted
<1>2. /\ b.min = IF v # 0 /\ n < r.min THEN n ELSE r.min
      /\ b.max = IF v # 0 /\ n > r.max THEN n ELSE r.max
  BY DEF Bucket
<1>3. r.numsamples \in Nat /\ \A i \in DOMAIN r.samples : i \in 0..n-1 BY Keys DEF Counted
<1>4. CASE v = 0
  <2>1. b.min = r.min /\ b.max = r.max /\ b.numsamples = r.numsamples BY <1>1, <1>2, <1>3, <1>4
  <2>2. QED BY <1>1, <1>4, <2>1 DEF Bounded
<1>5. CASE v # 0 /\ r.numsamples = 0
  <2>1. b.min = n /\ b.max = n BY <1>2, <1>5 DEF Bounded, NoMinimum
  <2>2. \A i \in DOMAIN r.samples : r.samples[i] = 0
    <3>1. \A i \in DOMAIN r.samples : r.samples[i] \in Nat /\ r.samples[i] =< 0
      BY <1>5, Keys DEF Counted
    <3>2. QED BY <3>1
  <2>3. b.numsamples # 0 BY <1>1, <1>5
  <2>4. QED BY <1>1, <1>5, <2>1, <2>2, <2>3 DEF Bounded
<1>6. CASE v # 0 /\ r.numsamples # 0
  <2>1. r.min \in 0..n-1 /\ r.max \in 0..n-1 BY <1>3, <1>6 DEF Bounded
  <2>2. b.min = r.min /\ b.max = n /\ b.numsamples # 0 BY <1>1, <1>2, <1>3, <1>6, <2>1
  <2>3. \A i \in DOMAIN b.samples : b.samples[i] # 0 => b.min =< i /\ i =< b.max
    BY <1>1, <1>3, <2>1, <2>2 DEF Bounded
  <2>4. /\ b.min \in DOMAIN b.samples /\ b.samples[b.min] # 0
        /\ b.max \in DOMAIN b.samples /\ b.samples[b.max] # 0
    BY <1>1, <1>6, <2>1, <2>2 DEF Bounded
  <2>5. QED BY <2>2, <2>3, <2>4 DEF Bounded
<1>7. QED BY <1>4, <1>5, <1>6

-----------------------------------------------------------------------------
(* Greatest and least. *)
LEMMA Greatest ==
  ASSUME NEW S, IsFiniteSet(S), S # {}, NEW w, \A x \in S : w[x] \in Int
  PROVE  \E x \in S : \A y \in S : w[y] =< w[x]
<1> DEFINE T == {U \in SUBSET S : U # {} => \E x \in U : \A y \in U : w[y] =< w[x]}
<1>1. {} \in T OBVIOUS
<1>2. ASSUME NEW U \in SUBSET S, U # {}, \A x \in U : U \ {x} \in T PROVE U \in T
  <2>1. PICK z \in U : TRUE BY <1>2
  <2>2. CASE U \ {z} = {} BY <2>1, <2>2
  <2>3. CASE U \ {z} # {}
    <3>1. PICK x \in U \ {z} : \A y \in U \ {z} : w[y] =< w[x] BY <1>2, <2>3
    <3>2. w[x] \in Int /\ w[z] \in Int /\ \A y \in U : w[y] \in Int OBVIOUS
    <3>3. CASE w[z] =< w[x] BY <3>1, <3>3
    <3>4. CASE ~(w[z] =< w[x]) BY <3>1, <3>2, <3>4
    <3>5. QED BY <3>3, <3>4
  <2>4. QED BY <2>2, <2>3
<1>3. SUBSET S \subseteq T
  <2> HIDE DEF T
  <2>1. QED BY <1>1, <1>2, SetInduct
<1>4. QED BY <1>3

(* What Max and Min of FiniteSetsExt choose.                                *)
LEMMA MaxIs ==
  ASSUME NEW S, S \subseteq Int, NEW x \in S, \A y \in S : y =< x
  PROVE  Max(S) = x
<1>1. \E z \in S : \A y \in S : z >= y OBVIOUS
<1>2. Max(S) \in S /\ \A y \in S : Max(S) >= y BY <1>1 DEF Max
<1>3. Max(S) \in Int /\ x \in Int /\ Max(S) >= x /\ x >= Max(S) BY <1>2
<1>4. QED BY <1>3

LEMMA MinIs ==
  ASSUME NEW S, S \subseteq Int, NEW x \in S, \A y \in S : x =< y
  PROVE  Min(S) = x
<1>1. Min(S) \in S /\ \A y \in S : Min(S) =< y BY DEF Min
<1>2. Min(S) \in Int /\ x \in Int /\ Min(S) =< x /\ x =< Min(S) BY <1>1
<1>3. QED BY <1>2

LEMMA MaxIn ==
  ASSUME NEW S, S \subseteq Int, IsFiniteSet(S), S # {}
  PROVE  Max(S) \in S /\ \A y \in S : y =< Max(S)
<1> DEFINE w == [x \in S |-> x]
<1>1. \A x \in S : w[x] = x /\ w[x] \in Int OBVIOUS
<1>2. \E x \in S : \A y \in S : w[y] =< w[x]
  <2> HIDE DEF w
  <2>1. QED BY <1>1, Greatest
<1>3. PICK x \in S : \A y \in S : y =< x BY <1>2
<1>4. Max(S) = x BY <1>3, MaxIs
<1>5. QED BY <1>3, <1>4

LEMMA MinIn ==
  ASSUME NEW S, S \subseteq Int, IsFiniteSet(S), S # {}
  PROVE  Min(S) \in S /\ \A y \in S : Min(S) =< y
<1> DEFINE w == [x \in S |-> 0 - x]
<1>1. \A x \in S : w[x] = 0 - x /\ w[x] \in Int OBVIOUS
<1>2. \E x \in S : \A y \in S : w[y] =< w[x]
  <2> HIDE DEF w
  <2>1. QED BY <1>1, Greatest
<1>3. PICK x \in S : \A y \in S : x =< y BY <1>2
<1>4. Min(S) = x BY <1>3, MinIs
<1>5. QED BY <1>3, <1>4

-----------------------------------------------------------------------------
(* reduce(), with the sums it takes. *)
LEMMA SumMad ==
  ASSUME NEW S, IsFiniteSet(S), NEW r, NEW w,
         \A i \in S : w[i] = Abs(Deviation(i, r)) * r.samples[i]
  PROVE  MapThenSumSet(LAMBDA i : Abs(Deviation(i, r)) * r.samples[i], S) = SumOf(w, S)
<1> DEFINE Adds(f) ==
      f = [s \in SUBSET S |-> IF s = {} THEN 0
             ELSE Abs(Deviation(Pick(s), r)) * r.samples[Pick(s)] + f[s \ {Pick(s)}]]
<1>1. PICK f : AddsUp(w, S, f) BY Addition
<1>2. Adds(f) BY <1>1, Picked DEF AddsUp
<1>3. PICK g : g = (CHOOSE h : Adds(h)) OBVIOUS
<1>4. Adds(g) BY <1>2, <1>3
<1>5. AddsUp(w, S, g) BY <1>4, Picked DEF AddsUp
<1>6. g[S] = SumOf(w, S) BY <1>5, SumIs
<1>7. QED BY <1>3, <1>6 DEF MapThenSumSet, MapThenFoldSet, Pick

LEMMA SumVar ==
  ASSUME NEW S, IsFiniteSet(S), NEW r, NEW w,
         \A i \in S : w[i] = Deviation(i, r) * Deviation(i, r) * r.samples[i]
  PROVE  MapThenSumSet(LAMBDA i : Deviation(i, r) * Deviation(i, r) * r.samples[i], S) = SumOf(w, S)
<1> DEFINE Adds(f) ==
      f = [s \in SUBSET S |-> IF s = {} THEN 0
             ELSE Deviation(Pick(s), r) * Deviation(Pick(s), r) * r.samples[Pick(s)]
                  + f[s \ {Pick(s)}]]
<1>1. PICK f : AddsUp(w, S, f) BY Addition
<1>2. Adds(f) BY <1>1, Picked DEF AddsUp
<1>3. PICK g : g = (CHOOSE h : Adds(h)) OBVIOUS
<1>4. Adds(g) BY <1>2, <1>3
<1>5. AddsUp(w, S, g) BY <1>4, Picked DEF AddsUp
<1>6. g[S] = SumOf(w, S) BY <1>5, SumIs
<1>7. QED BY <1>3, <1>6 DEF MapThenSumSet, MapThenFoldSet, Pick

(* The weighted sum of reduce(), over some of the keys.                     *)
LEMMA WeightedIs ==
  ASSUME NEW r, NEW n \in Nat, Counted(r, n), NEW keys \in SUBSET DOMAIN r.samples,
         NEW w, \A i \in keys : w[i] = i * r.samples[i]
  PROVE  Weighted(r, keys) = SumOf(w, keys) /\ Weighted(r, keys) \in Int
<1>1. IsFiniteSet(keys) BY Keys, FS_Subset
<1>2. Weighted(r, keys) = SumOf(w, keys) BY <1>1, SumWeighted DEF Weighted
<1>3. \A i \in keys : w[i] \in Int BY Keys DEF Counted
<1>4. QED BY <1>1, <1>2, <1>3, SumType

(* The parts of the result, with more than one sample.                      *)
LEMMA ReducedParts ==
  ASSUME NEW r, ~ (r.numsamples =< 1)
  PROVE  /\ Reduced(r).range = Spread(r) /\ Reduced(r).mode = Mode(r)
         /\ Reduced(r).median = Median(r) /\ Reduced(r).total = Weighted(r, DOMAIN r.samples)
         /\ Reduced(r).madsum =
              MapThenSumSet(LAMBDA i : Abs(Deviation(i, r)) * r.samples[i], DOMAIN r.samples)
         /\ Reduced(r).varsum =
              MapThenSumSet(LAMBDA i : Deviation(i, r) * Deviation(i, r) * r.samples[i],
                            DOMAIN r.samples)
BY DEF Reduced

(* reduce() agrees with what bucket() has counted: the range with the       *)
(* minimum and the maximum, the mode within them, the median too or zero,   *)
(* the mean between them, and the deviations with each other.               *)
LEMMA ReductionAgrees ==
  ASSUME NEW r, NEW n \in Nat, Counted(r, n), Bounded(r), DOMAIN r.samples = 0..n-1
  PROVE  Agree(r, Reduced(r))
<1> DEFINE D == DOMAIN r.samples
           s == r.samples
           N == r.numsamples
           lo == r.min
           hi == r.max
           total == Weighted(r, D)
<1>1. /\ IsFiniteSet(D) /\ N \in Nat /\ \A i \in D : i \in 0..n-1 /\ s[i] \in Nat
      /\ N = SumOf(s, D)
  BY Keys DEF Counted
<1>2. N = MapThenSumSet(LAMBDA i : r.samples[i], DOMAIN r.samples) BY <1>1, SumSamples
<1>3. SUFFICES ASSUME N > 1
               PROVE LET q == Reduced(r) IN
                     /\ q.range = hi - lo
                     /\ q.mode \in lo..hi /\ q.median \in {0} \cup lo..hi
                     /\ lo * N =< q.total /\ q.total =< hi * N
                     /\ q.range = 0 <=> q.varsum = 0
                     /\ q.madsum * q.madsum =< q.varsum * N
  BY <1>2 DEF Agree
<1>4. /\ lo \in D /\ s[lo] # 0 /\ hi \in D /\ s[hi] # 0
      /\ \A i \in D : s[i] # 0 => lo =< i /\ i =< hi
  BY <1>3 DEF Bounded
<1>5. lo \in Nat /\ hi \in Nat /\ lo =< hi BY <1>1, <1>4
<1>6. Spread(r) = hi - lo
  <2>1. Min({i \in D : s[i] # 0}) = lo
    <3> DEFINE K == {i \in D : s[i] # 0}
    <3>1. K \subseteq Int /\ lo \in K /\ \A y \in K : lo =< y BY <1>1, <1>4
    <3> HIDE DEF K
    <3>2. Min(K) = lo BY <3>1, MinIs
    <3>3. QED BY <3>2 DEF K
  <2>2. Max(D) = n - 1
    <3>1. D \subseteq Int /\ n - 1 \in D /\ \A y \in D : y =< n - 1 BY <1>1, <1>4
    <3> HIDE DEF D
    <3>2. QED BY <3>1, MaxIs
  <2>3. Max({0} \cup {i \in 0..n-1 : s[i] # 0}) = hi
    <3> DEFINE K == {0} \cup {i \in 0..n-1 : s[i] # 0}
    <3>1. K \subseteq Int /\ hi \in K /\ \A y \in K : y =< hi BY <1>1, <1>4, <1>5
    <3> HIDE DEF K
    <3>2. Max(K) = hi BY <3>1, MaxIs
    <3>3. QED BY <3>2 DEF K
  <2>4. QED BY <2>1, <2>2, <2>3 DEF Spread
<1>7. Mode(r) \in lo..hi
  <2> DEFINE K == {i \in D : \A k \in D : s[k] =< s[i]}
  <2>1. \E i \in D : \A k \in D : s[k] =< s[i]
    <3>1. \A x \in D : s[x] \in Int BY <1>1
    <3>2. D # {} BY <1>4
    <3> HIDE DEF D, s
    <3>3. QED BY <1>1, <3>1, <3>2, Greatest
  <2>2. K # {} /\ K \subseteq Int /\ K \subseteq D BY <1>1, <2>1
  <2>3. IsFiniteSet(K) BY <1>1, <2>2, FS_Subset
  <2>4. Min(K) \in K
    <3> HIDE DEF K
    <3>1. QED BY <2>2, <2>3, MinIn
  <2>5. Min(K) \in D /\ s[lo] =< s[Min(K)] BY <1>4, <2>4
  <2>6. s[Min(K)] # 0 /\ Min(K) \in Nat BY <1>1, <1>4, <2>5
  <2>7. lo =< Min(K) /\ Min(K) =< hi BY <1>4, <2>5, <2>6
  <2>8. Min(K) \in lo..hi
    <3> HIDE DEF K
    <3>1. QED BY <1>5, <2>6, <2>7
  <2>9. QED BY <2>8 DEF Mode
<1>8. Median(r) \in {0} \cup lo..hi
  <2> DEFINE K == {i \in D : N > 2 * Before(r, i) /\ N =< 2 * (Before(r, i) + s[i])}
  <2>1. \A i \in D : Before(r, i) \in Int
    <3>1. ASSUME NEW i \in D PROVE Before(r, i) \in Int
      <4> DEFINE keys == {k \in D : k < i}
                 w == [k \in keys |-> k * s[k]]
      <4>1. keys \in SUBSET DOMAIN r.samples /\ \A k \in keys : w[k] = k * r.samples[k] OBVIOUS
      <4> HIDE DEF keys, w
      <4>2. Weighted(r, keys) \in Int BY <4>1, WeightedIs
      <4>3. QED BY <4>2 DEF Before, keys
    <3>2. QED BY <3>1
  <2>2. \A i \in K : i \in D /\ s[i] # 0 BY <1>1, <2>1
  <2>3. K \subseteq lo..hi BY <1>1, <1>4, <1>5, <2>2
  <2>4. CASE K = {} BY <2>4 DEF Median
  <2>5. CASE K # {}
    <3>1. IsFiniteSet(K) BY <1>1, FS_Subset
    <3>2. K \subseteq Int BY <1>5, <2>3
    <3>3. Max(K) \in K
      <4> HIDE DEF K
      <4>1. QED BY <2>5, <3>1, <3>2, MaxIn
    <3>4. Median(r) = Max(K) BY <2>5 DEF Median
    <3>5. QED BY <2>3, <3>3, <3>4
  <2>6. QED BY <2>4, <2>5
<1>9. total \in Int /\ lo * N =< total /\ total =< hi * N /\ (lo = hi => total = lo * N)
  <2> DEFINE w == [i \in D |-> i * s[i]]
             v(c) == [i \in D |-> c * s[i]]
  <2>1. total = SumOf(w, D) /\ total \in Int
    <3>1. D \in SUBSET DOMAIN r.samples /\ \A i \in D : w[i] = i * r.samples[i] OBVIOUS
    <3> HIDE DEF D, w
    <3>2. QED BY <3>1, WeightedIs
  <2>2. ASSUME NEW c \in Nat PROVE SumOf(v(c), D) = c * N
    <3> DEFINE u == v(c)
    <3>1. c \in Int /\ \A i \in D : s[i] \in Int /\ u[i] = c * s[i] BY <1>1
    <3> HIDE DEF D, s, u
    <3>2. SumOf(u, D) = c * SumOf(s, D) BY <1>1, <3>1, SumTimes
    <3>3. QED BY <1>1, <3>2 DEF u
  <2>3. \A i \in D : /\ v(lo)[i] \in Int /\ v(hi)[i] \in Int /\ w[i] \in Int
                      /\ v(lo)[i] =< w[i] /\ w[i] =< v(hi)[i]
    <3>1. ASSUME NEW i \in D PROVE lo * s[i] =< i * s[i] /\ i * s[i] =< hi * s[i]
      <4>1. CASE s[i] = 0 BY <1>1, <1>5, <4>1
      <4>2. CASE s[i] # 0
        <5>1. lo =< i /\ i =< hi /\ i \in Nat /\ s[i] \in Nat BY <1>1, <1>4, <4>2
        <5>2. QED BY <1>5, <5>1
      <4>3. QED BY <4>1, <4>2
    <3>2. QED BY <1>1, <1>5, <3>1
  <2> HIDE DEF D, w, v
  <2>4. SumOf(v(lo), D) =< SumOf(w, D) /\ SumOf(w, D) =< SumOf(v(hi), D) BY <1>1, <2>3, SumLeq
  <2>5. lo * N =< total /\ total =< hi * N BY <1>5, <2>1, <2>2, <2>4
  <2>6. QED BY <1>1, <1>5, <2>1, <2>5
<1>10. \A i \in D : Deviation(i, r) = i * N - total /\ Deviation(i, r) \in Int
  BY <1>1, <1>9 DEF Deviation
<1> DEFINE a == [i \in D |-> Abs(Deviation(i, r))]
           u == [i \in D |-> Abs(Deviation(i, r)) * s[i]]
           v == [i \in D |-> Deviation(i, r) * Deviation(i, r) * s[i]]
<1>11. \A i \in D : /\ a[i] \in Nat /\ s[i] \in Nat
                    /\ u[i] = a[i] * s[i] /\ v[i] = a[i] * a[i] * s[i] /\ v[i] \in Nat
  <2>1. ASSUME NEW i \in D, NEW d, d = Deviation(i, r)
        PROVE  Abs(d) \in Nat /\ Abs(d) * Abs(d) = d * d
    <3>1. d \in Int BY <1>10, <2>1
    <3>2. QED BY <3>1 DEF Abs
  <2>2. ASSUME NEW i \in D PROVE a[i] \in Nat /\ v[i] = a[i] * a[i] * s[i]
    <3>1. a[i] = Abs(Deviation(i, r)) OBVIOUS
    <3>2. a[i] \in Nat /\ a[i] * a[i] = Deviation(i, r) * Deviation(i, r) BY <2>1, <3>1
    <3>3. v[i] = Deviation(i, r) * Deviation(i, r) * s[i] OBVIOUS
    <3>4. QED BY <3>2, <3>3
  <2>3. ASSUME NEW x \in Nat, NEW y \in Nat PROVE x * x * y \in Nat OBVIOUS
  <2>4. QED BY <1>1, <2>2, <2>3
<1>12. Reduced(r).varsum = SumOf(v, D) /\ Reduced(r).madsum = SumOf(u, D)
  <2>1. ~ (r.numsamples =< 1) BY <1>1, <1>3
  <2>2. /\ \A i \in DOMAIN r.samples : v[i] = Deviation(i, r) * Deviation(i, r) * r.samples[i]
        /\ \A i \in DOMAIN r.samples : u[i] = Abs(Deviation(i, r)) * r.samples[i]
    OBVIOUS
  <2>3. IsFiniteSet(DOMAIN r.samples) BY <1>1
  <2> HIDE DEF u, v
  <2>4. Reduced(r).varsum = SumOf(v, DOMAIN r.samples) BY <2>1, <2>2, <2>3, SumVar, ReducedParts
  <2>5. Reduced(r).madsum = SumOf(u, DOMAIN r.samples) BY <2>1, <2>2, <2>3, SumMad, ReducedParts
  <2>6. QED BY <2>4, <2>5
<1>13. /\ Reduced(r).range = Spread(r) /\ Reduced(r).mode = Mode(r)
       /\ Reduced(r).median = Median(r) /\ Reduced(r).total = total
  <2>1. ~ (r.numsamples =< 1) BY <1>1, <1>3
  <2>2. QED BY <2>1, ReducedParts
<1>14. SumOf(u, D) * SumOf(u, D) =< SumOf(v, D) * N
  <2> HIDE DEF D, s, a, u, v
  <2>1. QED BY <1>1, <1>11, SumSquares
<1>15. lo = hi => SumOf(v, D) = 0
  <2>1. SUFFICES ASSUME lo = hi PROVE SumOf(v, D) = 0 OBVIOUS
  <2>2. ASSUME NEW i \in D PROVE v[i] = 0
    <3>1. CASE s[i] = 0 BY <1>11, <3>1
    <3>2. CASE s[i] # 0
      <4>1. i = lo BY <1>1, <1>4, <1>5, <2>1, <3>2
      <4>2. Deviation(i, r) = 0 BY <1>1, <1>9, <1>10, <2>1, <4>1
      <4>3. QED BY <1>1, <4>2
    <3>3. QED BY <3>1, <3>2
  <2> HIDE DEF D, v
  <2>3. QED BY <1>1, <2>2, SumZero
<1>16. SumOf(v, D) = 0 => lo = hi
  <2>1. SUFFICES ASSUME SumOf(v, D) = 0 PROVE lo = hi OBVIOUS
  <2>2. ASSUME NEW i \in D, s[i] # 0 PROVE i * N = total
    <3>1. v[i] =< 0
      <4> HIDE DEF D, s, a, u, v
      <4>1. QED BY <1>1, <1>11, <2>1, SumNat
    <3>2. v[i] = 0 BY <1>11, <3>1
    <3>3. a[i] * a[i] * s[i] = 0 /\ a[i] \in Nat /\ s[i] \in Nat BY <1>11, <3>2
    <3>4. a[i] = 0
      <4>1. \A x, y \in Nat : x * x * y = 0 /\ y # 0 => x = 0 OBVIOUS
      <4> HIDE DEF a, s, D
      <4>2. QED BY <2>2, <3>3, <4>1
    <3>5. Deviation(i, r) = 0 BY <1>10, <3>4 DEF Abs
    <3>6. QED BY <1>1, <1>9, <1>10, <3>5
  <2>3. lo * N = total /\ hi * N = total BY <1>4, <2>2
  <2>4. \A x, y \in Nat : x * N = y * N => x = y BY <1>1, <1>3
  <2>5. QED BY <1>5, <2>3, <2>4
<1>17. QED
  <2> HIDE DEF D, s, N, lo, hi, total, a, u, v
  <2>1. hi - lo = 0 <=> SumOf(v, D) = 0 BY <1>5, <1>15, <1>16
  <2>2. QED BY <1>6, <1>7, <1>8, <1>9, <1>12, <1>13, <1>14, <2>1

-----------------------------------------------------------------------------
(* Cyclictest._WorkloadCleanup *)

(* The sum of one bucket over the cpus.                                     *)
LEMMA SumAcross ==
  ASSUME NEW S, IsFiniteSet(S), NEW i, NEW w, \A c \in S : w[c] = data[c].samples[i]
  PROVE  MapThenSumSet(LAMBDA c : data[c].samples[i], S) = SumOf(w, S)
<1> DEFINE Adds(f) ==
      f = [s \in SUBSET S |-> IF s = {} THEN 0 ELSE data[Pick(s)].samples[i] + f[s \ {Pick(s)}]]
<1>1. PICK f : AddsUp(w, S, f) BY Addition
<1>2. Adds(f) BY <1>1, Picked DEF AddsUp
<1>3. PICK g : g = (CHOOSE h : Adds(h)) OBVIOUS
<1>4. Adds(g) BY <1>2, <1>3
<1>5. AddsUp(w, S, g) BY <1>4, Picked DEF AddsUp
<1>6. g[S] = SumOf(w, S) BY <1>5, SumIs
<1>7. QED BY <1>3, <1>6 DEF MapThenSumSet, MapThenFoldSet, Pick

(* The cpus and the columns are the same in another order.                  *)
LEMMA Columns ==
  /\ IsFiniteSet(Cores) /\ Cores # {} /\ System \notin Cores
  /\ \A i \in 1..Len(Cpus) : Cpus[i] \in Cores /\ ColumnOf(Cpus[i]) = i
  /\ \A c \in Cores : ColumnOf(c) \in 1..Len(Cpus)
<1>1. /\ Len(Cpus) \in Nat /\ Len(Cpus) > 0 /\ DOMAIN Cpus = 1..Len(Cpus)
      /\ \A i, j \in 1..Len(Cpus) : Cpus[i] = Cpus[j] => i = j
  BY DataAssumption DEF IsInjective
<1>2. IsFiniteSet(Cores)
  <2> DEFINE L == 1..Len(Cpus)
             z == [i \in L |-> 0]
             y == [c \in Cores |-> 0]
  <2>1. \A i \in L : z[i] \in Int /\ y[Cpus[i]] = z[i] BY DEF Cores
  <2>2. IsFiniteSet(L) BY <1>1, FS_Interval
  <2>3. \A i, j \in L : Cpus[i] = Cpus[j] => i = j BY <1>1
  <2>4. Cores = {Cpus[i] : i \in L} BY DEF Cores
  <2> HIDE DEF L, z, y
  <2>5. /\ IsFiniteSet({Cpus[i] : i \in L})
        /\ SumOf(y, {Cpus[i] : i \in L}) = SumOf(z, L)
    BY <2>1, <2>2, <2>3, SumMoved
  <2>6. QED BY <2>4, <2>5
<1>3. Cpus[1] \in Cores BY <1>1 DEF Cores
<1>4. ASSUME NEW i \in 1..Len(Cpus) PROVE Cpus[i] \in Cores /\ ColumnOf(Cpus[i]) = i
  BY <1>1 DEF Cores, ColumnOf
<1>5. \A c \in Cores : \E i \in 1..Len(Cpus) : c = Cpus[i] BY DEF Cores
<1>6. \A c \in Cores : ColumnOf(c) \in 1..Len(Cpus) BY <1>4, <1>5
<1>7. QED BY <1>2, <1>3, <1>4, <1>6, DataAssumption

(* The RunData are right while the output is parsed, and whole, with the    *)
(* system the sum of the cpus, unless it broke off; what has been reduced   *)
(* stays as it is.                                                          *)
PhaseInv ==
  /\ cpc \in {"parse", "died", "reduce", "finished"} /\ index \in 0..Buckets
  /\ reduced \subseteq Ids /\ (reduced # {} => cpc \in {"reduce", "finished"})
  /\ cpc = "finished" => reduced = Ids
  /\ stats = [id \in Ids |-> stats[id]]

SumsInv ==
  /\ \A id \in Ids : DOMAIN data[id].samples = 0..index-1
  /\ \A i \in 0..index-1 :
       data[System].samples[i] = SumOf([c \in Cores |-> data[c].samples[i]], Cores)

DataInv ==
  /\ PhaseInv
  /\ \A id \in Ids : Counted(data[id], index)
  /\ \A id \in reduced : stats[id] = Reduced(data[id])
  /\ cpc # "died" => SumsInv

RangeInv == \A id \in Ids : Bounded(data[id])

(* Nothing has been counted yet.                                            *)
LEMMA DataStart == DataInit => DataInv /\ RangeInv
<1> SUFFICES ASSUME DataInit PROVE DataInv /\ RangeInv OBVIOUS
<1>1. \A id \in Ids : data[id] = NewRunData BY DEF DataInit
<1>2. DOMAIN NewRunData.samples = {} /\ NewRunData.numsamples = 0 BY DEF NewRunData
<1>3. Counted(NewRunData, 0)
  <2>1. SumOf(NewRunData.samples, {}) = 0 BY SumEmpty
  <2>2. QED BY <1>2, <2>1 DEF Counted
<1>4. Bounded(NewRunData) BY <1>2 DEF Bounded, NewRunData
<1>5. index = 0 /\ cpc = "parse" /\ reduced = {} /\ stats = [id \in Ids |-> stats[id]]
  BY DEF DataInit
<1>6. SumsInv BY <1>1, <1>2, <1>5, Columns DEF SumsInv
<1>7. PhaseInv BY <1>5, DataAssumption DEF PhaseInv
<1>8. QED BY <1>1, <1>3, <1>4, <1>5, <1>6, <1>7 DEF DataInv, RangeInv

(* A RunData that misses a bucket has still counted.                        *)
LEMMA CountedMore ==
  ASSUME NEW r, NEW n \in Nat, Counted(r, n) PROVE Counted(r, n + 1)
BY DEF Counted

(* The columns of a line: what each RunData gets of it.                     *)
Column(counts, id) == IF id = System THEN ColumnSum(counts, Len(counts)) ELSE counts[ColumnOf(id)]
Reached(counts, id) == IF id = System THEN Len(counts) # 0 ELSE ColumnOf(id) =< Len(counts)

(* What the columns of a line hold.                                         *)
LEMMA LineParts ==
  ASSUME NEW counts \in Lines
  PROVE  /\ Len(counts) \in 0..Len(Cpus) /\ DOMAIN counts = 1..Len(counts)
         /\ \A i \in 1..Len(counts) : counts[i] \in Nat
         /\ ColumnSum(counts, Len(counts)) = SumOf(counts, 1..Len(counts))
         /\ \A id \in Ids : Reached(counts, id) => Column(counts, id) \in Nat
         /\ Len(counts) = Len(Cpus) => \A id \in Ids : Reached(counts, id)
<1>1. Len(Cpus) \in Nat /\ Len(Cpus) > 0 /\ MaxCount \in Nat BY DataAssumption
<1>2. PICK n \in 0..Len(Cpus) : counts \in [1..n -> 0..MaxCount] BY DEF Lines
<1>3. counts \in Seq(0..MaxCount) /\ Len(counts) = n /\ DOMAIN counts = 1..n BY <1>1, <1>2
<1>4. \A i \in 1..Len(counts) : counts[i] \in Nat BY <1>1, <1>2, <1>3
<1>5. IsFiniteSet(1..Len(counts)) BY <1>2, <1>3, FS_Interval
<1>6. ColumnSum(counts, Len(counts)) = SumOf(counts, 1..Len(counts))
  BY <1>5, SumSamples DEF ColumnSum
<1>7. SumOf(counts, 1..Len(counts)) \in Nat BY <1>4, <1>5, SumNat
<1>8. ASSUME NEW id \in Ids, Reached(counts, id) PROVE Column(counts, id) \in Nat
  <2>1. CASE id = System BY <1>6, <1>7, <2>1 DEF Column
  <2>2. CASE id # System
    <3>1. id \in Cores BY <2>2 DEF Ids
    <3>2. ColumnOf(id) \in 1..Len(counts) BY <1>2, <1>3, <1>8, <2>2, <3>1, Columns DEF Reached
    <3>3. QED BY <1>4, <2>2, <3>2 DEF Column
  <2>3. QED BY <2>1, <2>2
<1>9. ASSUME Len(counts) = Len(Cpus), NEW id \in Ids PROVE Reached(counts, id)
  BY <1>1, <1>9, Columns DEF Reached, Ids
<1>10. QED BY <1>2, <1>3, <1>4, <1>6, <1>8, <1>9

(* What a line does to each RunData.                                        *)
LEMMA LineData ==
  ASSUME NEW counts \in Lines, BucketLine(counts), NEW id \in Ids
  PROVE  data'[id] = IF Reached(counts, id) THEN Bucket(data[id], index, Column(counts, id))
                     ELSE data[id]
<1>1. data'[id] = IF id = System
                  THEN IF Len(counts) = 0 THEN data[id]
                       ELSE Bucket(data[id], index, ColumnSum(counts, Len(counts)))
                  ELSE IF ColumnOf(id) =< Len(counts)
                       THEN Bucket(data[id], index, counts[ColumnOf(id)])
                       ELSE data[id]
  BY DEF BucketLine
<1>2. QED BY <1>1 DEF Reached, Column

(* A line, whole or broken off, keeps the sums.                             *)
LEMMA BucketLineInv ==
  ASSUME DataInv, NEW counts \in Lines, BucketLine(counts)
  PROVE  DataInv'
<1>1. /\ cpc = "parse" /\ index < Buckets /\ index' = index + 1 /\ reduced' = reduced
      /\ stats' = stats /\ cpc' = IF Len(counts) < Len(Cpus) THEN "died" ELSE "parse"
  BY DEF BucketLine
<1>2. index \in Nat /\ Buckets \in Nat /\ reduced = {} BY <1>1, DataAssumption DEF DataInv, PhaseInv
<1>3. ASSUME NEW id \in Ids, Reached(counts, id)
      PROVE  /\ Counted(data'[id], index + 1)
             /\ DOMAIN data'[id].samples = DOMAIN data[id].samples \cup {index}
             /\ data'[id].samples[index] = Column(counts, id)
             /\ \A i \in DOMAIN data[id].samples : data'[id].samples[i] = data[id].samples[i]
  <2> DEFINE b == data'[id]
             r == data[id]
             v == Column(counts, id)
  <2>1. v \in Nat BY <1>3, LineParts
  <2>2. b = Bucket(r, index, v) BY <1>3, LineData
  <2>3. Counted(r, index) BY DEF DataInv
  <2>4. /\ Counted(b, index + 1) /\ DOMAIN b.samples = DOMAIN r.samples \cup {index}
        /\ b.samples[index] = v
        /\ \A i \in DOMAIN r.samples : b.samples[i] = r.samples[i]
    <3> HIDE DEF b, r, v
    <3>1. index \in Nat BY <1>2
    <3>2. Counted(b, index + 1) BY <3>1, <2>1, <2>2, <2>3, BucketCounts
    <3>3. /\ DOMAIN b.samples = DOMAIN r.samples \cup {index} /\ b.samples[index] = v
          /\ \A i \in DOMAIN r.samples : b.samples[i] = r.samples[i]
      BY <3>1, <2>1, <2>2, <2>3 DEF Bucket, Counted
    <3>4. QED BY <3>2, <3>3
  <2>5. QED BY <2>4
<1>4. ASSUME NEW id \in Ids PROVE Counted(data'[id], index + 1)
  <2>1. CASE Reached(counts, id) BY <1>3, <2>1
  <2>2. CASE ~ Reached(counts, id)
    <3>1. data'[id] = data[id] BY <2>2, LineData
    <3>2. Counted(data[id], index) BY DEF DataInv
    <3>3. QED BY <1>2, <3>1, <3>2, CountedMore
  <2>3. QED BY <2>1, <2>2
<1>5. ASSUME cpc' # "died" PROVE SumsInv'
  <2>1. Len(counts) = Len(Cpus) BY <1>1, <1>5, LineParts
  <2>2. \A id \in Ids : Reached(counts, id) BY <2>1, LineParts
  <2>3. SumsInv BY <1>1 DEF DataInv
  <2>4. \A id \in Ids : DOMAIN data'[id].samples = 0..index
    <3>1. ASSUME NEW id \in Ids PROVE DOMAIN data'[id].samples = 0..index
      <4>1. DOMAIN data[id].samples = 0..index-1 BY <2>3 DEF SumsInv
      <4>2. DOMAIN data'[id].samples = DOMAIN data[id].samples \cup {index} BY <1>3, <2>2
      <4>3. QED BY <1>2, <4>1, <4>2
    <3>2. QED BY <3>1
  <2>5. System \in Ids /\ Cores \subseteq Ids BY DEF Ids
  <2>6. ASSUME NEW i \in 0..index-1
        PROVE  data'[System].samples[i] = SumOf([c \in Cores |-> data'[c].samples[i]], Cores)
    <3>1. \A id \in Ids : data'[id].samples[i] = data[id].samples[i]
      BY <1>3, <2>2, <2>3 DEF SumsInv
    <3>2. [c \in Cores |-> data'[c].samples[i]] = [c \in Cores |-> data[c].samples[i]]
      BY <2>5, <3>1
    <3>3. QED BY <2>3, <2>5, <3>1, <3>2 DEF SumsInv
  <2>7. data'[System].samples[index] = SumOf([c \in Cores |-> data'[c].samples[index]], Cores)
    <3> DEFINE v == [c \in Cores |-> data'[c].samples[index]]
               L == 1..Len(Cpus)
    <3>1. data'[System].samples[index] = SumOf(counts, L)
      BY <1>3, <2>1, <2>2, <2>5, LineParts DEF Column
    <3>2. \A i \in L : counts[i] \in Int /\ v[Cpus[i]] = counts[i]
      <4>1. ASSUME NEW i \in L PROVE v[Cpus[i]] = counts[i]
        <5>1. Cpus[i] \in Cores /\ Cpus[i] \in Ids /\ Cpus[i] # System /\ ColumnOf(Cpus[i]) = i
          BY <2>5, Columns
        <5>2. data'[Cpus[i]].samples[index] = Column(counts, Cpus[i]) BY <1>3, <2>2, <5>1
        <5>3. QED BY <5>1, <5>2 DEF Column
      <4>2. QED BY <2>1, <4>1, LineParts
    <3>3. \A i, j \in L : Cpus[i] = Cpus[j] => i = j BY Columns
    <3>4. IsFiniteSet(L) BY FS_Interval, DataAssumption
    <3>5. {Cpus[i] : i \in L} = Cores BY DEF Cores
    <3> HIDE DEF v, L
    <3>6. SumOf(v, Cores) = SumOf(counts, L) BY <3>2, <3>3, <3>4, <3>5, SumMoved
    <3>7. QED BY <3>1, <3>6 DEF v
  <2>8. \A i \in 0..index : i \in 0..index-1 \/ i = index BY <1>2
  <2>9. index' - 1 = index BY <1>1, <1>2
  <2>10. QED BY <2>4, <2>6, <2>7, <2>8, <2>9 DEF SumsInv
<1>6. PhaseInv'
  <2>1. index + 1 \in 0..Buckets BY <1>1, <1>2
  <2>2. stats = [id \in Ids |-> stats[id]] BY DEF DataInv, PhaseInv
  <2>3. QED BY <1>1, <1>2, <2>1, <2>2 DEF PhaseInv
<1>7. QED BY <1>1, <1>2, <1>4, <1>5, <1>6 DEF DataInv

(* And the minima and maxima.                                               *)
LEMMA BucketLineRange ==
  ASSUME Buckets =< NoMinimum, DataInv, RangeInv, NEW counts \in Lines, BucketLine(counts)
  PROVE  RangeInv'
<1>1. index \in Nat /\ index < NoMinimum
  BY DataAssumption DEF BucketLine, DataInv, PhaseInv, NoMinimum
<1>2. ASSUME NEW id \in Ids PROVE Bounded(data'[id])
  <2>1. Counted(data[id], index) /\ Bounded(data[id]) BY DEF DataInv, RangeInv
  <2>2. CASE Reached(counts, id)
    <3>1. Column(counts, id) \in Nat BY <2>2, LineParts
    <3>2. data'[id] = Bucket(data[id], index, Column(counts, id)) BY <2>2, LineData
    <3>3. QED BY <1>1, <2>1, <3>1, <3>2, BucketBounds
  <2>3. CASE ~ Reached(counts, id) BY <2>1, <2>3, LineData
  <2>4. QED BY <2>2, <2>3
<1>3. QED BY <1>2 DEF RangeInv

(* So does each step of the cleanup.                                        *)
LEMMA CleanupInv ==
  ASSUME DataInv, Cleanup
  PROVE  DataInv'
<1>1. CASE BreakLine BY <1>1 DEF BreakLine, DataInv, PhaseInv, SumsInv
<1>2. CASE EndOfOutput BY <1>2 DEF EndOfOutput, DataInv, PhaseInv, SumsInv
<1>3. CASE SetFinished BY <1>3 DEF SetFinished, DataInv, PhaseInv, SumsInv
<1>4. CASE \E counts \in Lines : BucketLine(counts) BY <1>4, BucketLineInv
<1>5. ASSUME NEW id \in Ids, Reduce(id) PROVE DataInv'
  <2>1. /\ cpc = "reduce" /\ cpc' = cpc /\ index' = index /\ data' = data
        /\ stats' = [stats EXCEPT ![id] = Reduced(data[id])] /\ reduced' = reduced \cup {id}
    BY <1>5 DEF Reduce
  <2>2. stats = [k \in Ids |-> stats[k]] BY DEF DataInv, PhaseInv
  <2>3. /\ stats' = [k \in Ids |-> stats'[k]] /\ stats'[id] = Reduced(data[id])
        /\ \A k \in Ids : k # id => stats'[k] = stats[k]
    BY <2>1, <2>2
  <2>4. PhaseInv' BY <2>1, <2>3 DEF DataInv, PhaseInv
  <2>5. \A k \in reduced' : stats'[k] = Reduced(data[k])
    BY <2>1, <2>3 DEF DataInv, PhaseInv
  <2>6. SumsInv' BY <2>1 DEF DataInv, SumsInv
  <2>7. QED BY <2>1, <2>4, <2>5, <2>6 DEF DataInv
<1>6. QED BY <1>1, <1>2, <1>3, <1>4, <1>5 DEF Cleanup

LEMMA CleanupRange ==
  ASSUME Buckets =< NoMinimum, DataInv, RangeInv, Cleanup
  PROVE  RangeInv'
<1>1. CASE BreakLine BY <1>1 DEF BreakLine, RangeInv
<1>2. CASE EndOfOutput BY <1>2 DEF EndOfOutput, RangeInv
<1>3. CASE SetFinished BY <1>3 DEF SetFinished, RangeInv
<1>4. CASE \E counts \in Lines : BucketLine(counts) BY <1>4, BucketLineRange
<1>5. CASE \E id \in Ids : Reduce(id) BY <1>5 DEF Reduce, RangeInv
<1>6. QED BY <1>1, <1>2, <1>3, <1>4, <1>5 DEF Cleanup

(* The bounds of the system are those of the cpus. *)
LEMMA SystemBounds ==
  ASSUME Buckets =< NoMinimum, DataInv, RangeInv, SumsInv
  PROVE  /\ data[System].min = Min({data[c].min : c \in Cores})
         /\ data[System].max = Max({data[c].max : c \in Cores})
<1> DEFINE sys == data[System]
           K == 0..index-1
<1>1. /\ System \in Ids /\ Cores \subseteq Ids /\ Cores # {} /\ IsFiniteSet(Cores)
      /\ index \in Nat /\ index =< NoMinimum
  BY Columns, DataAssumption DEF Ids, DataInv, PhaseInv, NoMinimum
<1>2. \A id \in Ids : /\ Counted(data[id], index) /\ Bounded(data[id])
                      /\ DOMAIN data[id].samples = K
  BY DEF DataInv, RangeInv, SumsInv
<1>3. \A id \in Ids :
        /\ data[id].numsamples \in Nat
        /\ \A i \in K : data[id].samples[i] \in Nat /\ data[id].samples[i] =< data[id].numsamples
        /\ (\A i \in K : data[id].samples[i] = 0) => data[id].numsamples = 0
  BY <1>1, <1>2, Keys DEF Counted
<1>4. ASSUME NEW i \in K
      PROVE  sys.samples[i] # 0 <=> \E c \in Cores : data[c].samples[i] # 0
  <2> DEFINE w == [c \in Cores |-> data[c].samples[i]]
  <2>1. sys.samples[i] = SumOf(w, Cores) BY DEF SumsInv
  <2>2. \A c \in Cores : w[c] \in Nat /\ w[c] = data[c].samples[i] BY <1>1, <1>3
  <2> HIDE DEF w
  <2>3. \A c \in Cores : w[c] =< SumOf(w, Cores) BY <1>1, <2>2, SumNat
  <2>4. (\A c \in Cores : w[c] = 0) => SumOf(w, Cores) = 0 BY <1>1, SumZero
  <2>5. SumOf(w, Cores) \in Nat BY <1>1, <2>2, SumNat
  <2>6. CASE sys.samples[i] = 0
    <3>1. \A c \in Cores : w[c] = 0
      <4>1. \A c \in Cores : w[c] \in Nat /\ w[c] =< 0 BY <2>1, <2>2, <2>3, <2>6
      <4>2. QED BY <4>1
    <3>2. QED BY <2>2, <2>6, <3>1
  <2>7. CASE sys.samples[i] # 0
    <3>1. \E c \in Cores : w[c] # 0 BY <2>1, <2>4, <2>7
    <3>2. QED BY <2>2, <2>7, <3>1
  <2>8. QED BY <2>6, <2>7
<1>5. \A id \in Ids : data[id].numsamples # 0 =>
        /\ data[id].min \in K /\ data[id].samples[data[id].min] # 0
        /\ data[id].max \in K /\ data[id].samples[data[id].max] # 0
        /\ \A i \in K : data[id].samples[i] # 0 => data[id].min =< i /\ i =< data[id].max
  BY <1>2 DEF Bounded
<1>6. \A id \in Ids : data[id].numsamples = 0 => data[id].min = NoMinimum /\ data[id].max = 0
  BY <1>2 DEF Bounded
<1>7. \A id \in Ids, i \in K : data[id].samples[i] # 0 => data[id].numsamples # 0
  <2>1. ASSUME NEW id \in Ids, NEW i \in K, data[id].numsamples = 0
        PROVE  data[id].samples[i] = 0
    <3>1. data[id].samples[i] \in Nat /\ data[id].samples[i] =< 0 BY <1>3, <2>1
    <3>2. QED BY <3>1
  <2>2. QED BY <2>1
<1>8. \A id \in Ids : /\ data[id].min \in Nat /\ data[id].min =< NoMinimum
                      /\ data[id].max \in Nat
  <2>1. \A i \in K : i \in Nat /\ i =< NoMinimum BY <1>1 DEF NoMinimum
  <2>2. NoMinimum \in Nat /\ 0 \in Nat /\ NoMinimum =< NoMinimum BY DEF NoMinimum
  <2> HIDE DEF K
  <2>3. QED BY <1>5, <1>6, <2>1, <2>2
<1> DEFINE mins == {data[c].min : c \in Cores}
           maxs == {data[c].max : c \in Cores}
<1>9. mins \subseteq Int /\ maxs \subseteq Int BY <1>1, <1>8
<1>10. sys.min \in mins /\ sys.max \in maxs
       /\ (\A y \in mins : sys.min =< y) /\ (\A y \in maxs : y =< sys.max)
  <2>1. CASE sys.numsamples = 0
    <3>1. \A c \in Cores : data[c].numsamples = 0
      <4>1. ASSUME NEW c \in Cores PROVE data[c].numsamples = 0
        <5>1. \A i \in K : data[c].samples[i] = 0 BY <1>1, <1>4, <1>7, <2>1
        <5>2. QED BY <1>1, <1>3, <5>1
      <4>2. QED BY <4>1
    <3>2. \A c \in Cores : data[c].min = sys.min /\ data[c].max = sys.max
      BY <1>1, <1>6, <2>1, <3>1
    <3>3. \E c \in Cores : TRUE BY <1>1
    <3>4. sys.min \in Nat /\ sys.max \in Nat BY <1>1, <1>8
    <3>5. QED BY <3>2, <3>3, <3>4
  <2>2. CASE sys.numsamples # 0
    <3>1. /\ sys.min \in K /\ sys.samples[sys.min] # 0
          /\ sys.max \in K /\ sys.samples[sys.max] # 0
          /\ \A i \in K : sys.samples[i] # 0 => sys.min =< i /\ i =< sys.max
      BY <1>1, <1>5, <2>2
    <3>2. \A c \in Cores : data[c].numsamples # 0 =>
            /\ sys.min =< data[c].min /\ data[c].min =< sys.max
            /\ sys.min =< data[c].max /\ data[c].max =< sys.max
      BY <1>1, <1>4, <1>5, <3>1
    <3>3. \A c \in Cores : sys.min =< data[c].min /\ data[c].max =< sys.max
      <4>1. ASSUME NEW c \in Cores, data[c].numsamples = 0
            PROVE  sys.min =< data[c].min /\ data[c].max =< sys.max
        <5>1. data[c].min = NoMinimum /\ data[c].max = 0 BY <1>1, <1>6, <4>1
        <5>2. sys.min =< NoMinimum /\ sys.max \in Nat BY <1>1, <1>8
        <5>3. QED BY <5>1, <5>2
      <4>2. QED BY <3>2, <4>1
    <3>4. PICK c \in Cores : data[c].samples[sys.min] # 0 BY <1>4, <3>1
    <3>5. data[c].min =< sys.min BY <1>1, <1>5, <1>7, <3>1, <3>4
    <3>6. data[c].min = sys.min
      <4>1. data[c].min \in Int /\ sys.min \in Int BY <1>1, <1>8
      <4>2. data[c].min =< sys.min /\ sys.min =< data[c].min BY <3>3, <3>5
      <4> HIDE DEF sys
      <4>3. QED BY <4>1, <4>2
    <3>7. PICK d \in Cores : data[d].samples[sys.max] # 0 BY <1>4, <3>1
    <3>8. sys.max =< data[d].max BY <1>1, <1>5, <1>7, <3>1, <3>7
    <3>9. data[d].max = sys.max
      <4>1. data[d].max \in Int /\ sys.max \in Int BY <1>1, <1>8
      <4>2. data[d].max =< sys.max /\ sys.max =< data[d].max BY <3>3, <3>8
      <4> HIDE DEF sys
      <4>3. QED BY <4>1, <4>2
    <3>10. QED BY <3>3, <3>6, <3>9
  <2>3. QED BY <2>1, <2>2
<1>11. Min(mins) = sys.min /\ Max(maxs) = sys.max
  <2> HIDE DEF mins, maxs, sys
  <2>1. QED BY <1>9, <1>10, MinIs, MaxIs
<1>12. QED BY <1>11

(* The invariants give the property.                                        *)
LEMMA StatisticsFollow ==
  ASSUME Buckets =< NoMinimum, DataInv, RangeInv
  PROVE  StatisticsAgree
<1>1. ASSUME NEW id \in reduced PROVE Agree(data[id], stats[id])
  <2>1. id \in Ids /\ cpc # "died" /\ stats[id] = Reduced(data[id]) /\ index \in Nat
    <3>1. cpc \in {"reduce", "finished"} /\ id \in Ids BY DEF DataInv, PhaseInv
    <3>2. index \in Nat BY DataAssumption DEF DataInv, PhaseInv
    <3>3. stats[id] = Reduced(data[id]) BY DEF DataInv
    <3>4. QED BY <3>1, <3>2, <3>3
  <2>2. Counted(data[id], index) /\ Bounded(data[id]) /\ DOMAIN data[id].samples = 0..index-1
    BY <2>1 DEF DataInv, RangeInv, SumsInv
  <2>3. QED BY <2>1, <2>2, ReductionAgrees
<1>2. ASSUME cpc # "died"
      PROVE  /\ \A i \in 0..index-1 :
                  data[System].samples[i] = MapThenSumSet(LAMBDA c : data[c].samples[i], Cores)
             /\ data[System].min = Min({data[c].min : c \in Cores})
             /\ data[System].max = Max({data[c].max : c \in Cores})
  <2>1. SumsInv BY <1>2 DEF DataInv
  <2>2. ASSUME NEW i \in 0..index-1
        PROVE  data[System].samples[i] = MapThenSumSet(LAMBDA c : data[c].samples[i], Cores)
    <3> DEFINE w == [c \in Cores |-> data[c].samples[i]]
    <3>1. data[System].samples[i] = SumOf(w, Cores) BY <2>1 DEF SumsInv
    <3>2. IsFiniteSet(Cores) /\ \A c \in Cores : w[c] = data[c].samples[i] BY Columns
    <3> HIDE DEF w
    <3>3. MapThenSumSet(LAMBDA c : data[c].samples[i], Cores) = SumOf(w, Cores)
      BY <3>2, SumAcross
    <3>4. QED BY <3>1, <3>3
  <2>3. QED BY <2>1, <2>2, SystemBounds
<1>3. QED BY <1>1, <1>2 DEF StatisticsAgree

-----------------------------------------------------------------------------
(* The statistics, and the report *)

(* Once the event is set the thread has nothing more to do.                 *)
LEMMA FinishedStays ==
  ASSUME DataInv, cpc = "finished", Cleanup
  PROVE  FALSE
<1>1. \A counts \in Lines : ~ BucketLine(counts) BY DEF BucketLine
<1>2. \A id \in Ids : ~ Reduce(id) BY DEF Reduce
<1>3. ~ BreakLine /\ ~ EndOfOutput /\ ~ SetFinished BY DEF BreakLine, EndOfOutput, SetFinished
<1>4. QED BY <1>1, <1>2, <1>3 DEF Cleanup

LEMMA DataSame ==
  ASSUME UNCHANGED dataVars
  PROVE  (DataInv => DataInv') /\ (RangeInv => RangeInv')
BY DEF dataVars, DataInv, PhaseInv, SumsInv, RangeInv

(* Only the thread touches the data.                                        *)
LEMMA DataOrCleanup ==
  ASSUME [Next]_vars
  PROVE  UNCHANGED dataVars \/ Thread
<1>1. CASE UNCHANGED vars BY <1>1 DEF vars
<1>2. CASE Probe \/ IsDir \/ MakeDir \/ OtherProcess
  BY <1>2 DEF Probe, IsDir, MakeDir, OtherProcess, OtherMakesDir, OtherTakesDir, OtherWrites,
     OtherPacks, Other
<1>3. CASE Begin \/ OpenInfo \/ AddDate \/ AddTime \/ EndInfo \/ AppendInfo \/ AppendLoads
  BY <1>3 DEF Begin, OpenInfo, AddDate, AddTime, EndInfo, AppendInfo, AppendLoads
<1>4. CASE AppendMeasurements \/ MakeReportFails \/ CloseReport \/ Save \/ SaveFails \/ Screen
  BY <1>4 DEF AppendMeasurements, MakeReportFails, CloseReport, Save, SaveFails, Screen
<1>5. CASE TarResults \/ TarFails \/ Gone \/ Anybody
  BY <1>5 DEF TarResults, TarFails, Gone, Anybody
<1>6. QED BY <1>1, <1>2, <1>3, <1>4, <1>5 DEF Next

LEMMA DataNext ==
  ASSUME DataInv, [Next]_vars
  PROVE  DataInv'
<1>1. CASE UNCHANGED dataVars BY <1>1, DataSame
<1>2. CASE Thread BY <1>2, CleanupInv DEF Thread
<1>3. QED BY <1>1, <1>2, DataOrCleanup

LEMMA RangeNext ==
  ASSUME Buckets =< NoMinimum, DataInv, RangeInv, [Next]_vars
  PROVE  RangeInv'
<1>1. CASE UNCHANGED dataVars BY <1>1, DataSame
<1>2. CASE Thread BY <1>2, CleanupRange DEF Thread
<1>3. QED BY <1>1, <1>2, DataOrCleanup

(* The statistics of each cpu and of the system agree with its samples, and *)
(* the system is the sum of the cpus, for a histogram not wider than the    *)
(* latency RunData takes for none (RunData, _WorkloadCleanup).              *)
THEOREM StatisticsRight ==
  ASSUME Buckets =< NoMinimum
  PROVE  Spec => []StatisticsAgree
<1>1. Init => DataInv /\ RangeInv BY DataStart DEF Init
<1>2. DataInv /\ RangeInv /\ [Next]_vars => (DataInv /\ RangeInv)' BY DataNext, RangeNext
<1>3. DataInv /\ RangeInv => StatisticsAgree BY StatisticsFollow
<1>4. QED BY <1>1, <1>2, <1>3, PTL DEF Spec

-----------------------------------------------------------------------------
(* How far the report is when the process has come to a point of _report.   *)
Opening == {"probe", "isdir", "mkdir", "wait"}
InInfo  == {"date", "time", "endinfo"}
AtRoot  == {"run_info", "sysinfo", "loads", "measure", "close"}
Closed  == {"save", "screen", "tar", "done", "no archive"}
Ended   == {"failed", "gone", "over"}
Points  == Opening \cup InInfo \cup AtRoot \cup Closed \cup Ended

(* The sections that are below the root by then. *)
Present(p) ==
  {tag \in Summary :
     \/ tag = "run_info"     /\ p \in InInfo \cup {"sysinfo", "loads", "measure", "close", "save"}
     \/ tag = "SystemInfo"   /\ p \in {"loads", "measure", "close", "save"}
     \/ tag = "loads"        /\ p \in {"measure", "close", "save"}
     \/ tag = "Measurements" /\ p \in {"close", "save"}}

AllReported == {<<id, Reported(id)>> : id \in Ids}

DocumentInv ==
  /\ misuse = {} /\ rpc \in Points
  /\ rpc \in Opening => status = 0
  /\ rpc \in InInfo \cup AtRoot => status = 1
  /\ rpc \in InInfo => currtag = <<"run_info">>
  /\ rpc \in AtRoot => currtag = << >>
  /\ rpc \in Closed => status = 3 /\ home = xmldoc
  /\ \A tag \in Present(rpc) : <<tag>> \in nodes

ContentInv ==
  /\ rpc \in InInfo \cup AtRoot \cup Closed \cup {"gone"} => cpc = "finished"
  /\ rpc \in {"close", "save", "screen", "tar", "done", "gone"} => results = AllReported
  /\ rpc \in {"screen", "tar", "done", "gone"} /\ ~ unsaved /\ ~ shared =>
       /\ {<<tag>> : tag \in Summary} \subseteq summary.nodes
       /\ summary.results = AllReported
  /\ rpc \in {"done", "gone"} /\ ~ shared => archive = summary

ReportInv == IF caller = "rteval" THEN DocumentInv /\ ContentInv ELSE rpc = "probe"

(* No report has been started.                                              *)
LEMMA ReportStart == Init => ReportInv
BY DEF Init, XMLInit, ReportInv, DocumentInv, ContentInv, Points, Opening, InInfo, AtRoot, Closed,
   Ended, Present, Summary

(* A step of the report leaves the results of the reduction alone.          *)
LEMMA ReportedSame ==
  ASSUME UNCHANGED dataVars
  PROVE  AllReported' = AllReported /\ cpc' = cpc
BY DEF dataVars, AllReported, Reported

(* A node below the root.                                                   *)
LEMMA AppendFirst == ASSUME NEW x PROVE Append(<< >>, x) = <<x>>
OBVIOUS

(* A step of the report leaves the document as the next one needs it.       *)
LEMMA DocumentNext ==
  ASSUME caller = "rteval", DocumentInv, Next
  PROVE  DocumentInv'
<1> USE DEF DocumentInv, Points, Opening, InInfo, AtRoot, Closed, Ended, Present, Summary
<1>1. CASE Probe \/ IsDir \/ MakeDir \/ OtherProcess
  BY <1>1 DEF Probe, IsDir, MakeDir, OtherProcess, OtherMakesDir, OtherTakesDir, OtherWrites,
     OtherPacks, Other, Step, xmlVars, tree
<1>2. CASE Thread BY <1>2 DEF Thread, xmlVars, reportVars
<1>3. CASE Begin BY <1>3 DEF Begin, Step, NewReport
<1>4. CASE OpenInfo
  <2>1. currtag' = <<"run_info">> BY <1>4 DEF OpenInfo, Step, OpenBlock
  <2>2. QED BY <1>4, <2>1 DEF OpenInfo, Step, OpenBlock
<1>5. CASE AddDate \/ AddTime BY <1>5 DEF AddDate, AddTime, Step, TaggedValue, AddNode
<1>6. CASE EndInfo
  <2>1. currtag' = << >> BY <1>6 DEF EndInfo, Step, CloseBlock
  <2>2. QED BY <1>6, <2>1 DEF EndInfo, Step, CloseBlock
<1>7. ASSUME NEW tag, NEW to, NEW from, status = 1, currtag = << >>,
             Step(from, to), AppendXMLnodes(tag)
      PROVE  /\ UNCHANGED <<status, currtag, misuse>>
             /\ nodes' = nodes \cup {<<tag>>}
  <2>1. Append(currtag, tag) = <<tag>> BY <1>7, AppendFirst
  <2>2. QED BY <1>7, <2>1 DEF AppendXMLnodes, AddNode
<1>8. CASE AppendInfo BY <1>7, <1>8 DEF AppendInfo, Step
<1>9. CASE AppendLoads BY <1>7, <1>9 DEF AppendLoads, Step
<1>10. CASE AppendMeasurements BY <1>7, <1>10 DEF AppendMeasurements, Step
<1>11. CASE MakeReportFails BY <1>11 DEF MakeReportFails, Step, xmlVars, tree
<1>12. CASE CloseReport BY <1>12 DEF CloseReport, Step, Close, tree
<1>13. CASE Save \/ SaveFails \/ Screen BY <1>13 DEF Save, SaveFails, Screen, Step, Write, tree
<1>14. CASE TarResults \/ TarFails BY <1>14 DEF TarResults, TarFails, Step, xmlVars, tree
<1>15. CASE Gone BY <1>15 DEF Gone, Step, Delete, tree
<1>16. ~ Anybody BY DEF Anybody
<1>17. QED BY <1>1, <1>2, <1>3, <1>4, <1>5, <1>6, <1>8, <1>9, <1>10, <1>11, <1>12, <1>13, <1>14,
                <1>15, <1>16 DEF Next

(* And what it says is what was reduced.                                    *)
LEMMA ContentNext ==
  ASSUME caller = "rteval", DataInv, DocumentInv, ContentInv, Next
  PROVE  ContentInv'
<1> USE DEF ContentInv, InInfo, AtRoot, Closed
<1>1. CASE Probe \/ IsDir \/ MakeDir \/ OtherProcess
  <2>1. CASE Probe \/ IsDir \/ MakeDir
    BY <2>1, ReportedSame DEF Probe, IsDir, MakeDir, Step
  <2>2. CASE OtherMakesDir BY <2>2, ReportedSame DEF OtherMakesDir, Other
  <2>3. CASE OtherTakesDir BY <2>3, ReportedSame DEF OtherTakesDir, Other
  <2>4. CASE OtherWrites BY <2>4, ReportedSame DEF OtherWrites, Other
  <2>5. CASE OtherPacks BY <2>5, ReportedSame DEF OtherPacks, Other
  <2>6. QED BY <1>1, <2>1, <2>2, <2>3, <2>4, <2>5 DEF OtherProcess
<1>2. CASE Thread
  <2>1. cpc # "finished" BY <1>2, FinishedStays DEF Thread
  <2>2. rpc' = rpc BY <1>2 DEF Thread, reportVars
  <2>3. rpc \notin InInfo \cup AtRoot \cup Closed \cup {"gone"} BY <2>1
  <2>4. QED BY <2>2, <2>3
<1>3. CASE Begin BY <1>3, ReportedSame DEF Begin, Step, WaitForCompletion
<1>4. CASE OpenInfo \/ AddDate \/ AddTime \/ EndInfo \/ AppendInfo \/ AppendLoads
  BY <1>4, ReportedSame DEF OpenInfo, AddDate, AddTime, EndInfo, AppendInfo, AppendLoads, Step
<1>5. CASE AppendMeasurements
  <2>1. UNCHANGED dataVars /\ rpc = "measure" /\ rpc' = "close" BY <1>5 DEF AppendMeasurements, Step
  <2>2. results' = AllReported BY <1>5 DEF AppendMeasurements, AllReported, Ids
  <2>3. QED BY <2>1, <2>2, ReportedSame
<1>6. CASE MakeReportFails BY <1>6 DEF MakeReportFails, Step
<1>7. CASE CloseReport BY <1>7, ReportedSame DEF CloseReport, Step, Keep
<1>8. CASE Save
  <2>1. /\ UNCHANGED dataVars /\ rpc = "save" /\ rpc' = "screen" /\ results' = results
        /\ summary' = [run |-> "own", nodes |-> written',
                       results |-> IF written' = {} THEN {} ELSE results]
    BY <1>8 DEF Save, Step
  <2>2. written' = nodes BY <1>8, <2>1 DEF Save, Write, DocumentInv
  <2>3. \A tag \in Summary : <<tag>> \in nodes BY <2>1 DEF DocumentInv, Present, Summary
  <2>4. nodes # {} BY <2>3 DEF Summary
  <2>5. {<<tag>> : tag \in Summary} \subseteq summary'.nodes /\ summary'.results = results
    BY <2>1, <2>2, <2>3, <2>4
  <2>6. QED BY <2>1, <2>5, ReportedSame
<1>9. CASE Screen BY <1>9, ReportedSame DEF Screen, Step, Keep, Elsewhere
<1>10. CASE TarResults BY <1>10, ReportedSame DEF TarResults, Step, Elsewhere
<1>11. CASE TarFails BY <1>11, ReportedSame DEF TarFails, Step, Keep
<1>12. CASE Gone BY <1>12, ReportedSame DEF Gone, Step, Keep, Elsewhere
<1>13. ~ Anybody BY DEF Anybody
<1>14. CASE SaveFails BY <1>14, ReportedSame DEF SaveFails, Step
<1>15. QED BY <1>1, <1>2, <1>3, <1>4, <1>5, <1>6, <1>7, <1>8, <1>9, <1>10, <1>11, <1>12, <1>13,
              <1>14 DEF Next

(* The user of an XMLOut stays the same.                                    *)
LEMMA CallerStays ==
  ASSUME [Next]_vars PROVE caller' = caller /\ (caller # "rteval" => rpc' = rpc)
<1>1. CASE UNCHANGED vars BY <1>1 DEF vars, reportVars
<1>2. CASE Probe \/ IsDir \/ MakeDir \/ OtherProcess \/ Thread \/ Begin
  BY <1>2 DEF Probe, IsDir, MakeDir, OtherProcess, OtherMakesDir, OtherTakesDir, OtherWrites,
     OtherPacks, Other, Thread, Begin, Step, reportVars
<1>3. CASE OpenInfo \/ AddDate \/ AddTime \/ EndInfo \/ AppendInfo \/ AppendLoads
  BY <1>3 DEF OpenInfo, AddDate, AddTime, EndInfo, AppendInfo, AppendLoads, Step
<1>4. CASE AppendMeasurements \/ MakeReportFails \/ CloseReport \/ Save \/ SaveFails \/ Screen
  BY <1>4 DEF AppendMeasurements, MakeReportFails, CloseReport, Save, SaveFails, Screen, Step
<1>5. CASE TarResults \/ TarFails \/ Gone \/ Anybody
  BY <1>5 DEF TarResults, TarFails, Gone, Anybody, Step, reportVars
<1>6. QED BY <1>1, <1>2, <1>3, <1>4, <1>5 DEF Next

LEMMA ReportNext ==
  ASSUME DataInv, ReportInv, [Next]_vars
  PROVE  ReportInv'
<1>1. CASE caller # "rteval" BY <1>1, CallerStays DEF ReportInv
<1>2. CASE caller = "rteval" /\ UNCHANGED vars
  <2>1. UNCHANGED dataVars /\ UNCHANGED xmlVars /\ UNCHANGED reportVars BY <1>2 DEF vars
  <2>2. DocumentInv' BY <1>2, <2>1 DEF ReportInv, DocumentInv, xmlVars, reportVars
  <2>3. ContentInv' BY <1>2, <2>1, ReportedSame DEF ReportInv, ContentInv, reportVars
  <2>4. QED BY <1>2, <2>2, <2>3, CallerStays DEF ReportInv
<1>3. CASE caller = "rteval" /\ Next
  BY <1>3, DocumentNext, ContentNext, CallerStays DEF ReportInv
<1>4. QED BY <1>1, <1>2, <1>3

(* What a histogram adds up to. *)
LEMMA SumSeconds ==
  ASSUME NEW S, IsFiniteSet(S), NEW w, \A b \in S : w[b] = b[2]
  PROVE  MapThenSumSet(LAMBDA b : b[2], S) = SumOf(w, S)
<1> DEFINE Adds(f) ==
      f = [s \in SUBSET S |-> IF s = {} THEN 0 ELSE Pick(s)[2] + f[s \ {Pick(s)}]]
<1>1. PICK f : AddsUp(w, S, f) BY Addition
<1>2. Adds(f) BY <1>1, Picked DEF AddsUp
<1>3. PICK g : g = (CHOOSE h : Adds(h)) OBVIOUS
<1>4. Adds(g) BY <1>2, <1>3
<1>5. AddsUp(w, S, g) BY <1>4, Picked DEF AddsUp
<1>6. g[S] = SumOf(w, S) BY <1>5, SumIs
<1>7. QED BY <1>3, <1>6 DEF MapThenSumSet, MapThenFoldSet, Pick

(* The histogram of a report leaves out the empty buckets only.             *)
LEMMA HistogramSum ==
  ASSUME NEW r, NEW n \in Nat, Counted(r, n), NEW H,
         H = {<<i, r.samples[i]>> : i \in {k \in DOMAIN r.samples : r.samples[k] # 0}}
  PROVE  MapThenSumSet(LAMBDA b : b[2], H) = r.numsamples
<1> DEFINE D == DOMAIN r.samples
           w == r.samples
           S == {k \in D : w[k] # 0}
           m == [i \in S |-> <<i, w[i]>>]
           v == [b \in H |-> b[2]]
<1>1. IsFiniteSet(D) /\ \A i \in D : w[i] \in Int BY Keys DEF Counted
<1>2. SumOf(w, S) = SumOf(w, D) /\ IsFiniteSet(S)
  <2> HIDE DEF D, w
  <2>1. QED BY <1>1, SumNonzero, FS_Subset
<1>3. \A i \in S : m[i] \in H /\ v[m[i]] = w[i] /\ w[i] \in Int BY <1>1
<1>4. \A i, j \in S : m[i] = m[j] => i = j OBVIOUS
<1>5. H = {m[i] : i \in S} OBVIOUS
<1>6. IsFiniteSet({m[i] : i \in S}) /\ SumOf(v, {m[i] : i \in S}) = SumOf(w, S)
  <2> HIDE DEF D, w, S, m, v
  <2>1. QED BY <1>2, <1>3, <1>4, SumMoved
<1>7. \A b \in H : v[b] = b[2] OBVIOUS
<1>8. MapThenSumSet(LAMBDA b : b[2], H) = SumOf(v, H)
  <2> HIDE DEF v, m, S
  <2>1. QED BY <1>5, <1>6, <1>7, SumSeconds
<1>9. QED
  <2>1. r.numsamples = SumOf(w, D) BY DEF Counted
  <2> HIDE DEF D, w, S, m, v
  <2>2. QED BY <1>2, <1>5, <1>6, <1>8, <2>1

(* The archive holds a whole report of all samples, if the summary could be *)
(* written and no other run uses the directory (_report, MakeReport).       *)
THEOREM ArchiveWhole == Spec => []ArchiveIsWhole
<1>1. Init => IInv /\ DataInv /\ ReportInv BY InitInv, DataStart, ReportStart DEF Init
<1>2. IInv /\ DataInv /\ ReportInv /\ [Next]_vars => (IInv /\ DataInv /\ ReportInv)'
  BY NextInv, DataNext, ReportNext
<1>3. ASSUME IInv, DataInv, ReportInv PROVE ArchiveIsWhole
  <2>1. SUFFICES ASSUME rpc \in {"done", "gone"}, ~ unsaved, ~ shared
                 PROVE  /\ {<<tag>> : tag \in Summary} \subseteq archive.nodes
                        /\ {r[1] : r \in archive.results} = Ids
                        /\ \A r \in archive.results :
                             /\ MapThenSumSet(LAMBDA b : b[2], r[2].histogram) = r[2].samples
                             /\ r[2].samples = data[r[1]].numsamples
                             /\ r[2].samples > 0 => r[2].stats = {Reduced(data[r[1]])}
                        /\ ~ touched
    BY DEF ArchiveIsWhole
  <2>2. /\ {<<tag>> : tag \in Summary} \subseteq archive.nodes
        /\ archive.results = AllReported /\ cpc = "finished" /\ misuse = {}
    BY <1>3, <2>1 DEF ReportInv, ContentInv, DocumentInv, Closed
  <2>3. ~ touched BY <1>3, <2>2 DEF IInv, DocInv
  <2>4. {r[1] : r \in archive.results} = Ids
    <3>1. \A r \in archive.results : r[1] \in Ids BY <2>2 DEF AllReported
    <3>2. \A id \in Ids : <<id, Reported(id)>> \in archive.results BY <2>2 DEF AllReported
    <3>3. \A id \in Ids : <<id, Reported(id)>>[1] = id OBVIOUS
    <3>4. QED BY <3>1, <3>2, <3>3
  <2>5. reduced = Ids BY <1>3, <2>2 DEF DataInv, PhaseInv
  <2>6. ASSUME NEW r \in archive.results
        PROVE  /\ MapThenSumSet(LAMBDA b : b[2], r[2].histogram) = r[2].samples
               /\ r[2].samples = data[r[1]].numsamples
               /\ r[2].samples > 0 => r[2].stats = {Reduced(data[r[1]])}
    <3>1. PICK id \in Ids : r = <<id, Reported(id)>> BY <2>2, <2>6 DEF AllReported
    <3>2. r[1] = id /\ r[2] = Reported(id) BY <3>1
    <3>3. /\ r[2].samples = data[id].numsamples
          /\ r[2].stats = IF data[id].numsamples > 0 THEN {stats[id]} ELSE {}
          /\ r[2].histogram = {<<i, data[id].samples[i]>> :
               i \in {k \in DOMAIN data[id].samples : data[id].samples[k] # 0}}
      BY <3>2 DEF Reported
    <3>4. Counted(data[id], index) /\ stats[id] = Reduced(data[id]) BY <1>3, <2>5 DEF DataInv
    <3>5. index \in Nat BY <1>3, DataAssumption DEF DataInv, PhaseInv
    <3>6. MapThenSumSet(LAMBDA b : b[2], r[2].histogram) = data[id].numsamples
      BY <3>3, <3>4, <3>5, HistogramSum
    <3>7. QED BY <3>2, <3>3, <3>4, <3>6
  <2>7. QED BY <2>2, <2>3, <2>4, <2>6
<1>4. QED BY <1>1, <1>2, <1>3, PTL DEF Spec
=============================================================================
