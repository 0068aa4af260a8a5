------------------------------ MODULE Scoring ------------------------------
(***************************************************************************)
(* Raw outcomes into scores, grades and reasons (scoring/mod.rs), against  *)
(* a baseline (scoring/baseline.rs) and a profile (scoring/profiles.rs).   *)
(*                                                                         *)
(* Everything the code multiplies, divides and raises to a power is kept   *)
(* as a logarithm: a ratio is a difference, the curve a product, and a     *)
(* geometric mean a mean.  A ratio counts 720 to the semitone (a twelfth   *)
(* of a doubling) and k counts tenths, so a score counts 7200 to the       *)
(* semitone above or below 1000; the grade bands and the tolerances of the *)
(* comparisons are converted and rounded to that unit.                     *)
(***************************************************************************)
EXTENDS Measures, SequencesExt

CONSTANT
  Log   (* the logarithm of a doubled value, 720 to the semitone           *)

ASSUME ScoringAssumption ==
  /\ Log \in [DOMAIN Log -> Int] /\ DOMAIN Log \subseteq Nat
  /\ \A v, w \in DOMAIN Log : v < w => Log[v] < Log[w]

(* ln(1e-9 / 1000): the score of an empty mean, which every mean floors.   *)
ZeroScore == -3444176

(* 1400, 1150, 850, 600 and 400.                                           *)
Bands == {41941, 17422, -20257, -63673, -114214}
LiftedAbove == 17422
HeldBelow == -20257

(* SelectSeq, as a join of what each element gives: its definition can be  *)
(* unfolded in a proof.                                                    *)
Where(seq, Test(_)) == FlattenSeq([i \in DOMAIN seq |-> IF Test(seq[i]) THEN <<seq[i]>> ELSE <<>>])

(* 0 is S and 5 is F.  A score is num / den.                               *)
GradeRank(num, den) == Cardinality({t \in Bands : num < t * den})

(* -- Baselines and profiles -------------------------------------------- *)

(* A baseline is [name, ref]: the logarithms of its positive entries.  The *)
(* lookup of any other entry is an error, like that of a missing one.      *)
Knows(baseline, c, s) == <<c, s>> \in DOMAIN baseline.ref

Weights ==
  [ general          |-> [cpu |-> 10, memory |-> 10, disk |-> 10],
    dev_workstation  |-> [cpu |-> 14, memory |-> 10, disk |-> 13],
    content_creation |-> [cpu |-> 14, memory |-> 13, disk |-> 8],
    server           |-> [cpu |-> 13, memory |-> 10, disk |-> 14] ]

Weight(profile, c) ==
  IF c \in DOMAIN Weights[profile] THEN Weights[profile][c] ELSE 10

UngradedComponents == {"network", "gpu"}

(* -- score_run --------------------------------------------------------- *)

Oriented(dir, ratio) == IF dir = "higher" THEN ratio ELSE -ratio

ScoredSubtest(c, st, baseline, k) ==
  LET ratio == Oriented(st.dir, Log[st.value] - baseline.ref[<<c, st.id>>])
  IN  [id |-> st.id, ratio |-> ratio, score |-> k * ratio, confidence |-> st.confidence]

MeanScore(scores) ==
  IF scores = <<>> THEN ZeroScore ELSE SumFunction(scores) \div Len(scores)

ScoredComponent(bench, baseline, k) ==
  LET scored == Where(bench.subtests, LAMBDA st : st.scored)
      subs   == [i \in DOMAIN scored |-> ScoredSubtest(bench.id, scored[i], baseline, k)]
  IN  [ id            |-> bench.id,
        graded        |-> bench.id \notin UngradedComponents,
        score         |-> MeanScore([i \in DOMAIN subs |-> subs[i].score]),
        confidence    |-> Weakest({subs[i].confidence : i \in DOMAIN subs}),
        subtests      |-> subs,
        informational |-> Where(bench.subtests, LAMBDA st : ~st.scored) ]

(* The profile-weighted geometric mean of the graded components.           *)
OverallScore(comps, profile) ==
  LET graded == {i \in DOMAIN comps : comps[i].graded}
      w(i)   == Weight(profile, comps[i].id)
  IN  IF graded = {} THEN [num |-> ZeroScore, den |-> 1]
      ELSE [ num |-> SumFunction([i \in graded |-> w(i) * comps[i].score]),
             den |-> SumFunction([i \in graded |-> w(i)]) ]

(* Components in the order of a stable sort by score.                      *)
Below(comps, i, j) ==
  \/ comps[i].score < comps[j].score
  \/ comps[i].score = comps[j].score /\ i < j

(* Faulty variant: the two lowest of all components are looked at.         *)
ExplainAll(comps) ==
  LET all      == DOMAIN comps
      among(i) == {j \in all : Below(comps, j, i)}
      above(i) == {j \in all : Below(comps, i, j)}
  IN  [ held   |-> {comps[i].id : i \in {j \in all : comps[j].graded /\ Cardinality(among(j)) < 2
                                                      /\ comps[j].score < HeldBelow}},
        lifted |-> {comps[i].id : i \in {j \in all : comps[j].graded /\ Cardinality(above(j)) < 2
                                                      /\ comps[j].score > LiftedAbove}},
        low    |-> {comps[i].id : i \in {j \in all : comps[j].graded /\ comps[j].confidence = "low"}},
        none   |-> FALSE ]

(* What held the machine back (of the two lowest), what lifted it (of the  *)
(* two highest) and what was measured badly; ungraded components are out.  *)
Explain(comps) ==
  LET graded   == {i \in DOMAIN comps : comps[i].graded}
      lower(i) == Cardinality({j \in graded : Below(comps, j, i)})
      higher(i) == Cardinality({j \in graded : Below(comps, i, j)})
      ids(S)   == {comps[i].id : i \in S}
  IN  [ held   |-> ids({i \in graded : lower(i) < 2 /\ comps[i].score < HeldBelow}),
        lifted |-> ids({i \in graded : higher(i) < 2 /\ comps[i].score > LiftedAbove}),
        low    |-> ids({i \in graded : comps[i].confidence = "low"}),
        none   |-> graded = {} ]

Scorable(bench, baseline) ==
  \A i \in DOMAIN bench.subtests :
    LET st == bench.subtests[i]
    IN  st.scored => Knows(baseline, bench.id, st.id) /\ st.value > 0

(* The curve is between 0.05 and 3.                                        *)
CurveAllowed(k) == 2 * k >= 1 /\ k <= 30

(* There is something to score, and a reference for all of it.             *)
CanScore(raw, baseline, k) ==
  /\ CurveAllowed(k)
  /\ raw # <<>>
  /\ \A b \in DOMAIN raw : Scorable(raw[b], baseline)

ScoreRun(raw, baseline, profile, k) ==
  LET comps   == [b \in DOMAIN raw |-> ScoredComponent(raw[b], baseline, k)]
      overall == OverallScore(comps, profile)
  IN  [ components |-> comps,
        overall    |-> [ score |-> overall,
                         grade |-> GradeRank(overall.num, overall.den),
                         profile |-> profile,
                         why   |-> Explain(comps) ] ]

(* -- generate_baseline ------------------------------------------------- *)

(* The logarithms of every scored value of subtest <<c, s>> in the files.  *)
ValuesOf(raws, c, s) ==
  LET has(f) == \E b \in DOMAIN raws[f] :
                  /\ raws[f][b].id = c
                  /\ \E i \in DOMAIN raws[f][b].subtests :
                       raws[f][b].subtests[i].id = s /\ raws[f][b].subtests[i].scored
      value(f) == LET b == CHOOSE b \in DOMAIN raws[f] : raws[f][b].id = c
                      i == CHOOSE i \in DOMAIN raws[f][b].subtests :
                             raws[f][b].subtests[i].id = s
                  IN  Log[raws[f][b].subtests[i].value]
  IN  [f \in {g \in DOMAIN raws : has(g)} |-> value(f)]

SubtestKeys(raw) ==
  UNION {{<<raw[b].id, raw[b].subtests[i].id>> :
            i \in {j \in DOMAIN raw[b].subtests : raw[b].subtests[j].scored}} : b \in DOMAIN raw}

(* Faulty variant: the mean is taken over all the files, absent or not.    *)
BaselineOverAll(raws, name) ==
  [ name |-> name,
    ref  |-> [key \in UNION {SubtestKeys(raws[f]) : f \in DOMAIN raws} |->
                LET vs == ValuesOf(raws, key[1], key[2])
                IN  SumFunction(vs) \div Cardinality(DOMAIN raws)] ]

(* Per scored subtest, the geometric mean over the files that have it.     *)
BaselineFromResults(raws, name) ==
  [ name |-> name,
    ref  |-> [key \in UNION {SubtestKeys(raws[f]) : f \in DOMAIN raws} |->
                LET vs == ValuesOf(raws, key[1], key[2])
                IN  SumFunction(vs) \div Cardinality(DOMAIN vs)] ]
=============================================================================
