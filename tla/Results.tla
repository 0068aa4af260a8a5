------------------------------ MODULE Results ------------------------------
(***************************************************************************)
(* The life of result files: written by a run (run.rs, tui/mod.rs), scored *)
(* again against another baseline, profile or curve (score.rs), gathered   *)
(* into a baseline of their own (scoring/mod.rs) and set against each      *)
(* other and against the models of their machines (HeadToHead).            *)
(***************************************************************************)
EXTENDS HeadToHead

CONSTANTS
  Trials,        (* runs: what they measured and how they were set         *)
  Reference,     (* the built-in baseline                                  *)
  Profiles,      (* the profiles asked for                                 *)
  Curves,        (* the curves asked for, in tenths                        *)
  Models,        (* the processors with an entry: subtests to values       *)
  CpuSpecs,      (* the subtests an entry may hold                         *)
  MaxFiles       (* bound on the files                                     *)

(* What a run measures: every component once, every subtest of it once.    *)
Subtest == [ id : STRING, dir : {"higher", "lower"}, rep : {"peak", "median"}, scored : BOOLEAN,
             value : Nat, confidence : {"high", "medium", "low"} ]
Measured(raw) ==
  /\ raw \in Seq([id : STRING, subtests : Seq(Subtest)])
  /\ \A b, c \in DOMAIN raw : raw[b].id = raw[c].id => b = c
  /\ \A b \in DOMAIN raw : \A i, j \in DOMAIN raw[b].subtests :
       raw[b].subtests[i].id = raw[b].subtests[j].id => i = j

ASSUME ResultsAssumption ==
  /\ MaxFiles \in Nat
  /\ Profiles \subseteq DOMAIN Weights
  /\ Curves \subseteq Int
  /\ Reference.name # "fleet"
  /\ Reference.ref \in [DOMAIN Reference.ref -> Int]

(* The values measured are among those whose logarithm is known.           *)
ASSUME TrialsAssumption ==
  \A trial \in Trials :
    /\ Measured(trial.raw)
    /\ \A b \in DOMAIN trial.raw : \A st \in Range(trial.raw[b].subtests) :
         st.value \in {0} \cup DOMAIN Log
    /\ trial.profile \in DOMAIN Weights /\ trial.curve_k \in Int
    /\ \A b \in DOMAIN trial.raw : \A n \in 1..Len(trial.raw[b].subtests) : Shares % n = 0

(* A subtest is specified once, for every run.                             *)
ASSUME SpecsAssumption ==
  \A one, other \in Trials : \A b \in DOMAIN one.raw, c \in DOMAIN other.raw :
    one.raw[b].id = other.raw[c].id =>
      \A st \in Range(one.raw[b].subtests), su \in Range(other.raw[c].subtests) :
        st.id = su.id => st.dir = su.dir /\ st.scored = su.scored

(* A model has values of scored subtests of the cpu, all of them positive. *)
ASSUME ModelsAssumption ==
  /\ CpuSpecs \in Seq([id : STRING, dir : {"higher"}, rep : {"peak", "median"}, scored : {TRUE}])
  /\ \A cpu \in DOMAIN Models : \A s \in DOMAIN Models[cpu] :
       s \in Ids(CpuSpecs) /\ Models[cpu][s] \in DOMAIN Log \ {0}
  /\ \A trial \in Trials : \A b \in DOMAIN trial.raw : \A st \in Range(trial.raw[b].subtests) :
       trial.raw[b].id = "cpu" /\ st.id \in Ids(CpuSpecs) => st.scored

VARIABLES
  files,    (* the result files                                            *)
  fleet,    (* the baseline made of them, once it is                       *)
  origin,   (* history: each file as its run wrote it                      *)
  members   (* history: the files the baseline was made of                 *)

resultVars == <<files, fleet, origin, members>>

NoFleet == [name |-> "none", ref |-> <<>>]
Baselines == {Reference} \cup ({fleet} \ {NoFleet})
BaselineNamed(name) == CHOOSE b \in Baselines : b.name = name

ConfigOf(name, profile, k, trial) ==
  [ baseline |-> name, profile |-> profile, curve_k |-> k,
    duration_preset |-> trial.duration_preset, isa |-> trial.isa ]

(* What the run's components are told about their model.                   *)
ModelRefs(cpu, raw, isa) ==
  IF /\ cpu \in DOMAIN Models
     /\ "cpu" \in Ids(raw)
     /\ Overlap(OfId(raw, "cpu"), Models[cpu]) # {}
  THEN <<AgainstModel(OfId(raw, "cpu"), Models[cpu], isa)>>
  ELSE <<>>

(* A run measures, lowers confidences, scores, and only then writes.  When *)
(* scoring refuses there is no file.                                       *)
WriteResult(trial) ==
  LET profile   == trial.profile
      k         == trial.curve_k
      telemetry == FromSamples(trial.polls)
      raw       == DowngradeThermallyLimited(trial.raw, telemetry)
      file      == [ cpu       |-> trial.cpu,
                     config    |-> ConfigOf(Reference.name, profile, k, trial),
                     raw       |-> raw,
                     view      |-> ScoreRun(raw, Reference, profile, k),
                     notes     |-> ThermalNote(raw, telemetry),
                     soak      |-> trial.soak,
                     model_ref |-> ModelRefs(trial.cpu, raw, trial.isa),
                     telemetry |-> telemetry ]
  IN  /\ Len(files) < MaxFiles
      /\ fleet = NoFleet
      /\ CanScore(raw, Reference, k)
      /\ files' = Append(files, file)
      /\ origin' = Append(origin, file)
      /\ UNCHANGED <<fleet, members>>

(* -- score ------------------------------------------------------------- *)

(* The part of raw the baseline can score: informational subtests go, and  *)
(* components left with nothing.                                           *)
CoveredBy(raw, baseline) ==
  LET covered(bench) == Where(bench.subtests, LAMBDA st : Knows(baseline, bench.id, st.id))
      trimmed        == [b \in DOMAIN raw |-> [raw[b] EXCEPT !.subtests = covered(raw[b])]]
  IN  Where(trimmed, LAMBDA bench : bench.subtests # <<>>)

(* Faulty variant: what the baseline does not cover is gone for good.      *)
RescoredTrimmed(file, baseline, profile, k) ==
  LET covered == CoveredBy(file.raw, baseline)
  IN  [file EXCEPT !.config = [@ EXCEPT !.baseline = baseline.name, !.profile = profile, !.curve_k = k],
                   !.raw = covered,
                   !.view = ScoreRun(covered, baseline, profile, k),
                   !.model_ref = <<>>, !.telemetry = NoTelemetry]

(* A new file with the old one's machine, raw, notes and soak; what was    *)
(* said of its model and its telemetry are not carried over.               *)
Rescored(file, baseline, profile, k) ==
  LET covered == CoveredBy(file.raw, baseline)
  IN  [file EXCEPT !.config = [@ EXCEPT !.baseline = baseline.name, !.profile = profile, !.curve_k = k],
                   !.view = ScoreRun(covered, baseline, profile, k),
                   !.model_ref = <<>>, !.telemetry = NoTelemetry]

(* The re-scored document takes the place of the file it was made from.    *)
Rescore(i, baseline, profile, k) ==
  /\ CanScore(CoveredBy(files[i].raw, baseline), baseline, k)
  /\ files' = [files EXCEPT ![i] = Rescored(@, baseline, profile, k)]
  /\ UNCHANGED <<fleet, origin, members>>

Raws == [i \in DOMAIN files |-> files[i].raw]

(* loadbearer baseline, over some of the files.                            *)
GenerateBaseline(some) ==
  /\ fleet = NoFleet
  /\ fleet' = BaselineFromResults([f \in some |-> Raws[f]], "fleet")
  /\ members' = some
  /\ UNCHANGED <<files, origin>>

ResultsInit ==
  /\ files = <<>>
  /\ fleet = NoFleet
  /\ origin = <<>>
  /\ members = {}

ResultsNext ==
  \/ \E trial \in Trials : WriteResult(trial)
  \/ \E i \in DOMAIN files, b \in Baselines, profile \in Profiles, k \in Curves :
       Rescore(i, b, profile, k)
  \/ \E some \in (SUBSET DOMAIN files) \ {{}} : GenerateBaseline(some)

ResultsSpec == ResultsInit /\ [][ResultsNext]_resultVars

(* -- Properties -------------------------------------------------------- *)

(* A machine caught throttling keeps its lowered trust: no peak of such a  *)
(* run is ever shown as fully trusted, in raw or in a component built on   *)
(* it, however often the file is scored again after its telemetry is gone. *)
ThermalNeverHigh ==
  \A i \in DOMAIN files :
    origin[i].telemetry.limited =>
      \A b \in DOMAIN files[i].raw :
        LET bench == files[i].raw[b]
            peaks == {st \in Range(bench.subtests) : st.rep = "peak"}
        IN  /\ \A st \in peaks : st.confidence # "high"
            /\ peaks # {} => files[i].notes
            /\ \A comp \in Range(files[i].view.components) :
                 comp.id = bench.id
                   /\ (\E st \in peaks : \E sub \in Range(comp.subtests) : sub.id = st.id)
                   => comp.confidence # "high"

(* Scoring a file again loses nothing that scoring needs: after any chain  *)
(* of re-scores, through baselines that cover less, the file is what one   *)
(* re-score of the original would have made it.                            *)
RescoreForgetsNothing ==
  \A i \in DOMAIN files :
    \/ files[i] = origin[i]
    \/ files[i] = LET c == files[i].config
                  IN  Rescored(origin[i], BaselineNamed(c.baseline), c.profile, c.curve_k)

KeysOf(f) == SubtestKeys(files[f].raw)

(* How far file f is from the fleet's reference of a subtest.              *)
RatioIn(f, key) ==
  ScoredSubtest(key[1], SubtestOf(files[f].raw, key[1], key[2]), fleet, 1).ratio

OverallIn(f, profile, k) ==
  ScoreRun(CoveredBy(files[f].raw, fleet), fleet, profile, k).overall.score

Within(x, bound) == -bound <= x /\ x <= bound

(* A baseline puts the machines it was made of at 1000.  Of each subtest,  *)
(* those that have it average the reference to within the unit it is       *)
(* rounded to; and when all have the same subtests, some of them graded,   *)
(* their overall scores average 1000 to within the rounding that makes,    *)
(* whatever the profile and the curve.                                     *)
FleetBaselineCentred ==
  fleet # NoFleet =>
    /\ \A key \in DOMAIN fleet.ref :
         LET having == {f \in members : key \in KeysOf(f)}
         IN  Within(SumFunction([f \in having |-> RatioIn(f, key)]), Cardinality(having) - 1)
    /\ (/\ \A f \in members : KeysOf(f) = DOMAIN fleet.ref
        /\ \E key \in DOMAIN fleet.ref : key[1] \notin UngradedComponents) =>
         \A profile \in Profiles, k \in Curves : CurveAllowed(k) =>
           Within(SumFunction([f \in members |-> OverallIn(f, profile, k).num]),
                  (k + 1) * SumFunction([f \in members |-> OverallIn(f, profile, k).den]))

(* The reasons given explain the grade: below B some graded component is   *)
(* named as holding the machine back, above B one as lifting it (unless    *)
(* every one of them is exactly at the edge of B, which is an A already),  *)
(* and what does not count towards the grade is never a reason.            *)
WhyExplainsGrade ==
  \A i \in DOMAIN files :
    LET view == files[i].view
        why  == view.overall.why
    IN  /\ view.overall.grade > 2 => why.held # {} \/ why.none
        /\ view.overall.grade < 2 =>
             why.lifted # {} \/ \A comp \in Range(view.components) : comp.graded => comp.score = LiftedAbove
        /\ (why.held \cup why.lifted \cup why.low) \cap UngradedComponents = {}

(* The verdict of a comparison does not depend on which file is named      *)
(* first: the same components, the same margin, the same winner of each.   *)
(* It reads raw and soak, which a re-score leaves alone: fresh files do.   *)
FileOrderDoesNotMatter ==
  files = origin /\ Len(files) = 2 =>
    LET ab == Compare(Raws, [i \in 1..2 |-> files[i].soak])
        ba == Compare(Reverse(Raws), [i \in 1..2 |-> files[3 - i].soak])
        margin(c) == c.rel[1] - c.rel[2]
    IN  /\ Common(Raws) = Common(Reverse(Raws))
        /\ Common(Raws) # {} =>
             /\ margin(ab) = -margin(ba)
             /\ ab.summary.equal = ba.summary.equal
             /\ margin(ab) # 0 =>
                  /\ ab.summary.lead = 3 - ba.summary.lead
                  /\ ab.summary.wins = ba.summary.wins
                  /\ ab.summary.losses = ba.summary.losses

(* The two ways to hold a machine against its model say the same: the      *)
(* verdict in its result file, and comparing the file with the model's own *)
(* synthetic one.                                                          *)
ReferencesAgree ==
  files = origin => \A i \in DOMAIN files :
    LET f     == files[i]
        refs  == f.model_ref
        both  == <<f.raw, SyntheticRaw("cpu", Models[f.cpu], CpuSpecs)>>
        against == Compare(both, <<<<>>, <<>>>>)
    IN  refs # <<>> =>
          /\ Common(both) # {}
          /\ refs[1].delta = against.rel[1] - against.rel[2]
          /\ refs[1].verdict = "matches" /\ against.rel[1] < against.rel[2]
               => against.rel[2] - against.rel[1] <= -Below5 * Shares
=============================================================================
