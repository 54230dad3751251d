--------------------------- MODULE CyclictestData ---------------------------
(***************************************************************************)
(* What Cyclictest makes of the output of cyclictest                       *)
(* (rteval/modules/measurement/cyclictest.py): _WorkloadCleanup() parses   *)
(* the histogram into a RunData for each cpu and one for the system, and   *)
(* reduces each to its statistics.                                         *)
(*                                                                         *)
(* cyclictest prints a line for every bucket from 0 on, with a column for  *)
(* each cpu.  Its output may break off within a line, and hold comments    *)
(* and lines that are not understood.  Quotients are kept as their         *)
(* numerators: a mean is total over numsamples.                            *)
(***************************************************************************)
EXTENDS Integers, Sequences, FiniteSetsExt

CONSTANTS
  Cpus,       \* the cpus measured, in the order of the columns
  Buckets,    \* the width of the histogram, option -h
  MaxCount    \* bound: how often a latency may have occurred on a cpu

System == "system"
Cores  == {Cpus[i] : i \in 1..Len(Cpus)}
Ids    == Cores \cup {System}

(* The cpus are the elements of a set or directory entries, by number.      *)
ASSUME DataAssumption ==
  /\ Cpus \in Seq(STRING) /\ Len(Cpus) > 0 /\ IsInjective(Cpus) /\ System \notin Cores
  /\ Buckets \in Nat \ {0} /\ MaxCount \in Nat

VARIABLES
  cpc,        \* where the cleanup is
  index,      \* the bucket cyclictest prints next
  breaktrace, \* __breaktraceval, a latency that made cyclictest stop
  data,       \* __cyclicdata: the RunData of each cpu and of the system
  stats,      \* the statistics of each
  reduced     \* those reduce() has been called for

dataVars == <<cpc, index, breaktrace, data, stats, reduced>>

-----------------------------------------------------------------------------
(* RunData *)

NoMinimum == 100000000
NewRunData == [samples |-> [i \in {} |-> 0], numsamples |-> 0, min |-> NoMinimum, max |-> 0]

Bucket_CountsEmpty(r, i, value) ==
  [samples    |-> [k \in DOMAIN r.samples \cup {i} |->
                     (IF k \in DOMAIN r.samples THEN r.samples[k] ELSE 0)
                     + (IF k = i THEN value ELSE 0)],
   numsamples |-> r.numsamples + value,
   min        |-> IF i < r.min THEN i ELSE r.min,
   max        |-> IF i > r.max THEN i ELSE r.max]

(* bucket(): the range only counts buckets with samples. *)
Bucket(r, i, value) ==
  [samples    |-> [k \in DOMAIN r.samples \cup {i} |->
                     (IF k \in DOMAIN r.samples THEN r.samples[k] ELSE 0)
                     + (IF k = i THEN value ELSE 0)],
   numsamples |-> r.numsamples + value,
   min        |-> IF value # 0 /\ i < r.min THEN i ELSE r.min,
   max        |-> IF value # 0 /\ i > r.max THEN i ELSE r.max]

(* The sum of i * samples[i] over some buckets: the code adds it up while  *)
(* it goes through the keys in order.                                      *)
Weighted(r, keys) == MapThenSumSet(LAMBDA i : i * r.samples[i], keys)
Before(r, i)      == Weighted(r, {k \in DOMAIN r.samples : k < i})

(* The last key that passes the test of the loop, compared as twice mid;   *)
(* what it compares with is the weighted sum, not the number of samples.   *)
Median(r) ==
  LET hits == {i \in DOMAIN r.samples :
                 /\ r.numsamples > 2 * Before(r, i)
                 /\ r.numsamples =< 2 * (Before(r, i) + r.samples[i])}
  IN IF hits = {} THEN 0 ELSE Max(hits)

(* The first key with more samples than any before. *)
Mode(r) == Min({i \in DOMAIN r.samples :
                  \A k \in DOMAIN r.samples : r.samples[k] =< r.samples[i]})

(* The lowest key with samples, and down from the last key to one.         *)
Spread(r) ==
  LET low  == Min({i \in DOMAIN r.samples : r.samples[i] # 0})
      last == Max(DOMAIN r.samples)
      high == Max({0} \cup {i \in 0..last : r.samples[i] # 0})
  IN high - low

Deviation(i, r) == i * r.numsamples - Weighted(r, DOMAIN r.samples)
Abs(x) == IF x < 0 THEN -x ELSE x

(* reduce(): with at most one sample everything stays zero. *)
Zeros == [median |-> 0, mode |-> 0, range |-> 0, total |-> 0, madsum |-> 0, varsum |-> 0]

Reduced(r) ==
  IF r.numsamples =< 1 THEN Zeros
  ELSE [median |-> Median(r), mode |-> Mode(r), range |-> Spread(r),
        total  |-> Weighted(r, DOMAIN r.samples),
        madsum |-> MapThenSumSet(LAMBDA i : Abs(Deviation(i, r)) * r.samples[i],
                                 DOMAIN r.samples),
        varsum |-> MapThenSumSet(LAMBDA i : Deviation(i, r) * Deviation(i, r) * r.samples[i],
                                 DOMAIN r.samples)]

(* RunData.MakeReport: statistics only with a sample, no empty buckets.    *)
Reported(id) ==
  [samples   |-> data[id].numsamples,
   stats     |-> IF data[id].numsamples > 0 THEN {stats[id]} ELSE {},
   histogram |-> {<<i, data[id].samples[i]>> :
                    i \in {k \in DOMAIN data[id].samples : data[id].samples[k] # 0}}]

-----------------------------------------------------------------------------
(* Cyclictest._WorkloadCleanup *)

DataInit ==
  /\ cpc = "parse" /\ index = 0 /\ breaktrace = 0
  /\ data = [id \in Ids |-> NewRunData] /\ stats = [id \in Ids |-> Zeros]
  /\ reduced = {}

(* A comment, an empty line, or one that does not begin with a number is   *)
(* skipped and no step; the comment that tells of a break is kept.         *)
BreakLine ==
  /\ cpc = "parse" /\ breaktrace = 0 /\ breaktrace' = Buckets
  /\ UNCHANGED <<cpc, index, data, stats, reduced>>

(* A bucket: the columns one after the other, to the cpu and the system.   *)
(* A line that is too short raises an IndexError, of which the thread ends.*)
ColumnSum(counts, n) == MapThenSumSet(LAMBDA i : counts[i], 1..n)
ColumnOf(core)       == CHOOSE i \in 1..Len(Cpus) : Cpus[i] = core

BucketLine(counts) ==
  LET n == Len(counts)
  IN /\ cpc = "parse" /\ index < Buckets
     /\ data' = [id \in Ids |->
          IF id = System
          THEN IF n = 0 THEN data[id] ELSE Bucket(data[id], index, ColumnSum(counts, n))
          ELSE IF ColumnOf(id) =< n THEN Bucket(data[id], index, counts[ColumnOf(id)])
               ELSE data[id]]
     /\ index' = index + 1
     /\ cpc' = IF n < Len(Cpus) THEN "died" ELSE "parse"
     /\ UNCHANGED <<breaktrace, stats, reduced>>

EndOfOutput ==
  cpc = "parse" /\ cpc' = "reduce" /\ UNCHANGED <<index, breaktrace, data, stats, reduced>>

Reduce(id) ==
  /\ cpc = "reduce" /\ id \notin reduced
  /\ stats' = [stats EXCEPT ![id] = Reduced(data[id])] /\ reduced' = reduced \cup {id}
  /\ UNCHANGED <<cpc, index, breaktrace, data>>

SetFinished ==
  /\ cpc = "reduce" /\ reduced = Ids /\ cpc' = "finished"
  /\ UNCHANGED <<index, breaktrace, data, stats, reduced>>

Lines == UNION {[1..n -> 0..MaxCount] : n \in 0..Len(Cpus)}

Cleanup ==
  \/ BreakLine \/ EndOfOutput \/ SetFinished
  \/ \E counts \in Lines : BucketLine(counts)
  \/ \E id \in Ids : Reduce(id)

-----------------------------------------------------------------------------
(* What bucket() counts as it goes and what reduce() finds in the end      *)
(* agree, for each cpu and the system, and the system is the sum of the    *)
(* cpus: its samples, its least and its greatest latency.  (The median is  *)
(* only known to be zero or between them.)                                 *)
Agree(r, s) ==
  /\ r.numsamples = MapThenSumSet(LAMBDA i : r.samples[i], DOMAIN r.samples)
  /\ r.numsamples > 1 =>
       /\ s.range = r.max - r.min
       /\ s.mode \in r.min .. r.max /\ s.median \in {0} \cup r.min .. r.max
       /\ r.min * r.numsamples =< s.total /\ s.total =< r.max * r.numsamples
       /\ s.range = 0 <=> s.varsum = 0
       /\ s.madsum * s.madsum =< s.varsum * r.numsamples

StatisticsAgree ==
  /\ \A id \in reduced : Agree(data[id], stats[id])
  /\ cpc # "died" =>
       /\ \A i \in 0..index-1 :
            data[System].samples[i] = MapThenSumSet(LAMBDA c : data[c].samples[i], Cores)
       /\ data[System].min = Min({data[c].min : c \in Cores})
       /\ data[System].max = Max({data[c].max : c \in Cores})
=============================================================================
