------------------------------ MODULE Measures ------------------------------
(***************************************************************************)
(* From the timed runs of a subtest to its outcome (engine/mod.rs,         *)
(* engine/stats.rs), and the clock telemetry that may lower the trust put  *)
(* in an outcome (telemetry.rs).                                           *)
(*                                                                         *)
(* A timed run measures a natural number.  A representative value is kept  *)
(* doubled, so that the median of an even number of runs stays an integer. *)
(* Only its rank among the runs, its spread and its logarithm matter.      *)
(***************************************************************************)
EXTENDS Integers, Sequences, FiniteSets, Functions, FiniteSetsExt

NoTelemetry == [count |-> 0, limited |-> FALSE]

(* -- Stats ------------------------------------------------------------- *)

(* The i-th smallest run.                                                  *)
OrderStatistic(runs, i) ==
  CHOOSE v \in Range(runs) :
    /\ Cardinality({j \in DOMAIN runs : runs[j] < v}) < i
    /\ Cardinality({j \in DOMAIN runs : runs[j] <= v}) >= i

Median2(runs) ==
  LET n == Len(runs)
  IN  OrderStatistic(runs, (n + 1) \div 2) + OrderStatistic(runs, n \div 2 + 1)

(* The coefficient of variation is below c per cent.  It is 0 for a single *)
(* run and when the mean is; squared and multiplied out it is exact.       *)
CvBelow(runs, c) ==
  LET n       == Len(runs)
      sum     == SumFunction(runs)
      squares == SumFunction([j \in DOMAIN runs |-> runs[j] * runs[j]])
  IN  \/ n = 1
      \/ sum = 0
      \/ n * (n * squares - sum * sum) * 10000 < c * c * (n - 1) * sum * sum

(* -- Confidence -------------------------------------------------------- *)

ConfidenceFromCv(runs) ==
  CASE CvBelow(runs, 3) -> "high"
    [] CvBelow(runs, 8) -> "medium"
    [] OTHER -> "low"

Downgraded(c) == IF c = "high" THEN "medium" ELSE "low"

TrustRank(c) == CASE c = "high" -> 2 [] c = "medium" -> 1 [] c = "low" -> 0

(* The weakest of a set of confidences; nothing measured is trusted.       *)
Weakest(cs) ==
  IF cs = {} THEN "high"
  ELSE CHOOSE c \in cs : \A d \in cs : TrustRank(c) <= TrustRank(d)

(* -- A subtest's outcome ----------------------------------------------- *)

(* A specification is [id, dir, rep, scored]: which way is better, which   *)
(* statistic is reported, and whether a baseline knows the subtest.        *)
Representative(spec, runs) ==
  IF spec.rep = "peak" THEN 2 * Max(Range(runs)) ELSE Median2(runs)

Outcome(spec, runs) ==
  [ id |-> spec.id, dir |-> spec.dir, rep |-> spec.rep, scored |-> spec.scored,
    value |-> Representative(spec, runs),
    confidence |-> ConfidenceFromCv(runs) ]

(* -- Telemetry --------------------------------------------------------- *)

MinSamples == 8

(* One poll reads a clock per core; a core that reports 0 is left out, and *)
(* a poll with nothing left is no sample.                                  *)
Busiest(polls) ==
  LET usable == SelectSeq(polls, LAMBDA cores : \E f \in Range(cores) : f > 0)
  IN  [j \in DOMAIN usable |-> Max(Range(usable[j]))]

(* The last quarter of the run at or below 92 % of the first, judged on    *)
(* the busiest core.                                                       *)
FromSamples(polls) ==
  LET busiest == Busiest(polls)
      n       == Len(busiest)
      window  == (n + 3) \div 4
      head    == SumFunction(SubSeq(busiest, 1, window))
      tail    == SumFunction(SubSeq(busiest, n - window + 1, n))
  IN  IF n = 0 THEN NoTelemetry
      ELSE [ count   |-> n,
             limited |-> n >= MinSamples /\ head > 0 /\ 100 * tail <= 92 * head ]

TrustedLess(st) == [st EXCEPT !.confidence = Downgraded(@)]

(* Faulty variant: the walk over the subtests stops after the first one of *)
(* a benchmark.                                                            *)
DowngradeFirst(raw, telemetry) ==
  [b \in DOMAIN raw |->
     [raw[b] EXCEPT !.subtests =
        [i \in DOMAIN @ |->
           IF telemetry.limited /\ @[i].rep = "peak" /\ i = 1
           THEN TrustedLess(@[i]) ELSE @[i]]]]

(* A thermally limited run lowers the confidence of every peak.            *)
DowngradeThermallyLimited(raw, telemetry) ==
  [b \in DOMAIN raw |->
     [raw[b] EXCEPT !.subtests =
        [i \in DOMAIN @ |->
           IF telemetry.limited /\ @[i].rep = "peak"
           THEN TrustedLess(@[i]) ELSE @[i]]]]

(* The run says so in a note when a confidence was lowered.                *)
ThermalNote(raw, telemetry) ==
  telemetry.limited /\ \E b \in DOMAIN raw : \E i \in DOMAIN raw[b].subtests :
                          raw[b].subtests[i].rep = "peak"
=============================================================================
