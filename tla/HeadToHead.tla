---------------------------- MODULE HeadToHead ----------------------------
(***************************************************************************)
(* Result files against each other (compare.rs), and one against what its  *)
(* processor or graphics model usually measures (scoring/models.rs).       *)
(* Ratios are logarithms, 720 to the semitone, as in Scoring.              *)
(***************************************************************************)
EXTENDS Scoring

CONSTANT
  Shares   (* a mean counts that many to the unit of a logarithm: as many  *)
           (* as every number of subtests divides                          *)

ASSUME SharesAssumption == Shares \in Nat \ {0}

(* ln(1e-9), 720 to the semitone.                                          *)
ZeroRatio == -258313

(* +3 %, +2 % and -2 % of a comparison; +5 % and -5 % of a model.          *)
Equal3 == 368
Ahead2 == 246
Behind2 == -251
Above5 == 608
Below5 == -639

(* -- compare ----------------------------------------------------------- *)

Goodness(value, reference, dir) ==
  IF value <= 0 \/ reference <= 0 THEN 0 ELSE Oriented(dir, Log[value] - Log[reference])

(* The last of the largest.                                                *)
Best(rel) ==
  CHOOSE m \in DOMAIN rel :
    \A o \in DOMAIN rel : rel[o] < rel[m] \/ (rel[o] = rel[m] /\ o <= m)

(* Benchmarks and their subtests are found by name.                        *)
Ids(seq) == {seq[i].id : i \in DOMAIN seq}
OfId(seq, id) == seq[CHOOSE i \in DOMAIN seq : seq[i].id = id]
SubtestOf(raw, c, s) == OfId(OfId(raw, c).subtests, s)

(* The mean of n ratios, in shares of the unit.                            *)
MeanRatio(ratios, n) == SumFunction(ratios) * (Shares \div n)

(* The subtests of component c that every file has.                        *)
Shared(raws, c) ==
  {s \in Ids(OfId(raws[1], c).subtests) :
     \A m \in DOMAIN raws : c \in Ids(raws[m]) /\ s \in Ids(OfId(raws[m], c).subtests)}

(* The components of which every file has some subtest.                    *)
Common(raws) == {c \in Ids(raws[1]) : Shared(raws, c) # {}}

(* Against the first file, oriented the way the first file says.           *)
ComparedSubtest(raws, c, s) ==
  LET first == SubtestOf(raws[1], c, s)
      rel   == [m \in DOMAIN raws |-> Goodness(SubtestOf(raws[m], c, s).value, first.value, first.dir)]
  IN  [rel |-> rel, best |-> Best(rel), scored |-> first.scored]

(* Only scored subtests count towards their component.                     *)
Counted(raws, c) == {s \in Shared(raws, c) : SubtestOf(raws[1], c, s).scored}

(* Faulty variant: a subtest that some file lacks counts as level.         *)
ComponentRelOfAll(raws, c, m) ==
  MeanRatio([s \in Counted(raws, c) |-> ComparedSubtest(raws, c, s).rel[m]],
            Cardinality(Ids(OfId(raws[1], c).subtests)))

ComponentRel(raws, c, m) ==
  IF Counted(raws, c) = {} THEN Shares * ZeroRatio
  ELSE MeanRatio([s \in Counted(raws, c) |-> ComparedSubtest(raws, c, s).rel[m]],
                 Cardinality(Counted(raws, c)))

ComparedComponent(raws, c) ==
  LET rel == [m \in DOMAIN raws |-> ComponentRel(raws, c, m)]
  IN  [ subtests |-> [s \in Shared(raws, c) |-> ComparedSubtest(raws, c, s)],
        rel      |-> rel,
        best     |-> Best(rel),
        empty    |-> Counted(raws, c) = {} ]

(* Stable, best first.  The overall figures are sums: every machine's mean *)
(* is over the same components.                                            *)
Ranking(rel) ==
  LET ahead(a, b) == rel[a] > rel[b] \/ (rel[a] = rel[b] /\ a < b)
  IN  [r \in DOMAIN rel |-> CHOOSE m \in DOMAIN rel :
                              Cardinality({o \in DOMAIN rel : ahead(o, m)}) = r - 1]

(* What two machines are told: whether they are effectively equal, and     *)
(* what each wins.  The mean of an empty component is 0 for both, which    *)
(* reads as one the leader lost.                                           *)
Summary(comps, rel, ranking) ==
  LET lead      == ranking[1]
      other     == ranking[2]
      equal     == rel[lead] - rel[other] < Equal3 * Shares * Cardinality(DOMAIN comps)
      margin(c) == comps[c].rel[lead] - comps[c].rel[other]
  IN  [ lead   |-> lead,
        equal  |-> equal,
        wins   |-> {c \in DOMAIN comps : ~equal /\ margin(c) > Ahead2 * Shares},
        losses |-> {c \in DOMAIN comps : ~equal /\ (comps[c].empty \/ margin(c) < Behind2 * Shares)} ]

(* Sustained load, only when every file has it.                            *)
SoakComparison(soaks) ==
  IF \E m \in DOMAIN soaks : soaks[m] = <<>> THEN <<>>
  ELSE [ best_retention |-> Best([m \in DOMAIN soaks |-> soaks[m].retained]),
         best_sustained |-> Best([m \in DOMAIN soaks |-> soaks[m].steady]) ]

(* Refused when nothing is common.                                         *)
Compare(raws, soaks) ==
  LET comps == [c \in Common(raws) |-> ComparedComponent(raws, c)]
      rel   == [m \in DOMAIN raws |-> SumFunction([c \in Common(raws) |-> comps[c].rel[m]])]
  IN  [ components |-> comps, rel |-> rel, ranking |-> Ranking(rel),
        summary |-> Summary(comps, rel, Ranking(rel)),
        soak |-> SoakComparison(soaks) ]

(* The settings that differ between real files, and their systems, where   *)
(* named: those of a model's reference are not a run's.                    *)
ConfigWarnings(configs, oses) ==
  LET real  == {m \in DOMAIN configs : configs[m].duration_preset # "reference"}
      named == {m \in real : oses[m] # ""}
  IN  {field \in {"baseline", "duration_preset", "curve_k"} :
         Cardinality({configs[m][field] : m \in real}) > 1}
      \cup {"os" : pair \in {p \in named \X named : oses[p[1]] # oses[p[2]]}}

(* -- models ------------------------------------------------------------ *)

(* The subtests measured of which the model has a value.                   *)
Overlap(bench, values) ==
  {s \in Ids(bench.subtests) : s \in DOMAIN values /\ values[s] > 0 /\ OfId(bench.subtests, s).value > 0}

ModelRatio(st, value) == Oriented(st.dir, Log[st.value] - Log[value])

Verdict(delta, isa) ==
  CASE isa \in {"avx", "avx2", "avx512"} -> "indicative"
    [] delta <= Above5 * Shares /\ delta >= Below5 * Shares -> "matches"
    [] delta < Below5 * Shares -> "below"
    [] OTHER -> "above"

(* Faulty variant: the mean is over all the values of the model.           *)
AgainstWholeModel(bench, values, isa) ==
  LET delta == MeanRatio([s \in Overlap(bench, values) |-> ModelRatio(OfId(bench.subtests, s), values[s])],
                         Cardinality(DOMAIN values))
  IN  [component |-> bench.id, delta |-> delta, verdict |-> Verdict(delta, isa)]

(* One component of a run against the values of its model.                 *)
AgainstModel(bench, values, isa) ==
  LET delta == MeanRatio([s \in Overlap(bench, values) |-> ModelRatio(OfId(bench.subtests, s), values[s])],
                         Cardinality(Overlap(bench, values)))
  IN  [component |-> bench.id, delta |-> delta, verdict |-> Verdict(delta, isa)]

(* A result file with the model's values as its only measurements.         *)
SyntheticRaw(c, values, specs) ==
  LET known == Where(specs, LAMBDA sp : sp.id \in DOMAIN values)
  IN  <<[ id |-> c,
          subtests |-> [i \in DOMAIN known |->
             [id |-> known[i].id, dir |-> "higher", rep |-> "median", scored |-> TRUE,
              value |-> values[known[i].id], confidence |-> "high"]] ]>>
=============================================================================
