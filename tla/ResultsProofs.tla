--------------------------- MODULE ResultsProofs ---------------------------
(***************************************************************************)
(* Proofs about the life of result files, for any trials, baselines,       *)
(* profiles and curves, and any number of files.                           *)
(***************************************************************************)
EXTENDS Results, DataFacts, TLAPS

(* A file, by the fields it has.                                           *)
File(cpu, config, raw, view, notes, soak, model_ref, telemetry) ==
  [ cpu |-> cpu, config |-> config, raw |-> raw, view |-> view, notes |-> notes,
    soak |-> soak, model_ref |-> model_ref, telemetry |-> telemetry ]
Config(name, profile, k, preset, isa) ==
  [baseline |-> name, profile |-> profile, curve_k |-> k, duration_preset |-> preset, isa |-> isa]

IsFile(f) ==
  \E cpu, name, profile, k, preset, isa, raw, view, notes, soak, model_ref, telemetry :
    f = File(cpu, Config(name, profile, k, preset, isa), raw, view, notes, soak, model_ref, telemetry)

(* -- Re-scoring one file ----------------------------------------------- *)

(* The updates a re-score makes, as operators: the provers do not look     *)
(* for an EXCEPT under a quantifier.                                       *)
WithConfig(cfg, n, p, c) == [cfg EXCEPT !.baseline = n, !.profile = p, !.curve_k = c]
WithScores(f, cfg, v, m, t) == [f EXCEPT !.config = cfg, !.view = v, !.model_ref = m, !.telemetry = t]

(* The scored settings are replaced, the others stay.                      *)
LEMMA ConfigExcept ==
  ASSUME NEW name, NEW profile, NEW k, NEW preset, NEW isa, NEW n, NEW p, NEW c
  PROVE  WithConfig(Config(name, profile, k, preset, isa), n, p, c)
           = Config(n, p, c, preset, isa)
<1> DEFINE S   == {name, profile, k, preset, isa, n, p, c}
           Cs  == [baseline : S, profile : S, curve_k : S, duration_preset : S, isa : S]
           cfg == Config(name, profile, k, preset, isa)
           new == [cfg EXCEPT !.baseline = n, !.profile = p, !.curve_k = c]
           cfg2 == Config(n, p, c, preset, isa)
<1>1. n \in S /\ p \in S /\ c \in S /\ cfg \in Cs /\ cfg2 \in Cs
  BY DEF Config
<1>2. cfg.duration_preset = preset /\ cfg.isa = isa
  BY DEF Config
<1>3. cfg2.baseline = n /\ cfg2.profile = p /\ cfg2.curve_k = c /\ cfg2.duration_preset = preset /\ cfg2.isa = isa
  BY DEF Config
<1> HIDE DEF S, cfg, cfg2
<1>4. new \in Cs
  BY <1>1
<1>5. new.baseline = n /\ new.profile = p /\ new.curve_k = c /\ new.duration_preset = preset /\ new.isa = isa
  BY <1>1, <1>2
<1>6. new = cfg2
  <2> HIDE DEF new
  <2> QED BY <1>1, <1>3, <1>4, <1>5
<1> QED BY <1>6 DEF cfg, cfg2, WithConfig

(* The scores are replaced, the measurements stay.                         *)
LEMMA FileExcept ==
  ASSUME NEW cpu, NEW config, NEW raw, NEW view, NEW notes, NEW soak, NEW model_ref, NEW telemetry,
         NEW cfg, NEW v, NEW m, NEW t
  PROVE  WithScores(File(cpu, config, raw, view, notes, soak, model_ref, telemetry), cfg, v, m, t)
           = File(cpu, cfg, raw, v, notes, soak, m, t)
<1> DEFINE S   == {cpu, config, raw, view, notes, soak, model_ref, telemetry, cfg, v, m, t}
           Fs  == [ cpu : S, config : S, raw : S, view : S, notes : S, soak : S, model_ref : S, telemetry : S ]
           f   == File(cpu, config, raw, view, notes, soak, model_ref, telemetry)
           new == [f EXCEPT !.config = cfg, !.view = v, !.model_ref = m, !.telemetry = t]
           f2  == File(cpu, cfg, raw, v, notes, soak, m, t)
<1>1. cfg \in S /\ v \in S /\ m \in S /\ t \in S /\ f \in Fs /\ f2 \in Fs
  BY DEF File
<1>2. f.cpu = cpu /\ f.raw = raw /\ f.notes = notes /\ f.soak = soak
  BY DEF File
<1>3. /\ f2.cpu = cpu /\ f2.config = cfg /\ f2.raw = raw /\ f2.view = v /\ f2.notes = notes
      /\ f2.soak = soak /\ f2.model_ref = m /\ f2.telemetry = t
  BY DEF File
<1> HIDE DEF S, f, f2
<1>4. new \in Fs
  BY <1>1
<1>5. /\ new.cpu = cpu /\ new.config = cfg /\ new.raw = raw /\ new.view = v /\ new.notes = notes
      /\ new.soak = soak /\ new.model_ref = m /\ new.telemetry = t
  BY <1>1, <1>2
<1>6. new = f2
  <2> HIDE DEF new
  <2> QED BY <1>1, <1>3, <1>4, <1>5
<1> QED BY <1>6 DEF f, f2, WithScores

(* What a re-score makes of a file, field by field.                        *)
LEMMA RescoredIs ==
  ASSUME NEW cpu, NEW name, NEW profile, NEW k, NEW preset, NEW isa, NEW raw, NEW view,
         NEW notes, NEW soak, NEW model_ref, NEW telemetry, NEW b, NEW p, NEW c
  PROVE  Rescored(File(cpu, Config(name, profile, k, preset, isa), raw, view, notes, soak,
                       model_ref, telemetry), b, p, c)
           = File(cpu, Config(b.name, p, c, preset, isa), raw,
                  ScoreRun(CoveredBy(raw, b), b, p, c), notes, soak, <<>>, NoTelemetry)
<1> DEFINE cfg  == Config(name, profile, k, preset, isa)
           o    == File(cpu, cfg, raw, view, notes, soak, model_ref, telemetry)
           cfg2 == Config(b.name, p, c, preset, isa)
           v2   == ScoreRun(CoveredBy(raw, b), b, p, c)
<1>1. o.raw = raw /\ o.config = cfg
  BY DEF File
<1>2. WithConfig(cfg, b.name, p, c) = cfg2
  BY ConfigExcept
<1>3. WithScores(o, cfg2, v2, <<>>, NoTelemetry) = File(cpu, cfg2, raw, v2, notes, soak, <<>>, NoTelemetry)
  BY FileExcept
<1> HIDE DEF cfg, cfg2, o
<1>4. Rescored(o, b, p, c)
        = WithScores(o, WithConfig(o.config, b.name, p, c), ScoreRun(CoveredBy(o.raw, b), b, p, c),
                     <<>>, NoTelemetry)
  BY Zenon DEF Rescored, WithScores, WithConfig
<1>5. Rescored(o, b, p, c) = WithScores(o, cfg2, v2, <<>>, NoTelemetry)
  BY <1>1, <1>2, <1>4
<1> QED BY <1>3, <1>5, Zenon DEF o, cfg, cfg2

(* A re-scored file is a file, and says how it was scored.                 *)
LEMMA RescoredIsFile ==
  ASSUME NEW f, IsFile(f), NEW b, NEW p, NEW c
  PROVE  /\ IsFile(Rescored(f, b, p, c))
         /\ Rescored(f, b, p, c).config.baseline = b.name
         /\ Rescored(f, b, p, c).config.profile = p
         /\ Rescored(f, b, p, c).config.curve_k = c
<1>1. PICK cpu, name, profile, k, preset, isa, raw, view, notes, soak, model_ref, telemetry :
        f = File(cpu, Config(name, profile, k, preset, isa), raw, view, notes, soak, model_ref, telemetry)
  BY DEF IsFile
<1>2. Rescored(f, b, p, c) = File(cpu, Config(b.name, p, c, preset, isa), raw,
                                  ScoreRun(CoveredBy(raw, b), b, p, c), notes, soak, <<>>, NoTelemetry)
  BY <1>1, RescoredIs
<1>3. IsFile(Rescored(f, b, p, c))
  BY <1>2, Zenon DEF IsFile
<1> QED BY <1>2, <1>3 DEF File, Config

(* The second re-score of a file forgets the first.                        *)
LEMMA RescoredTwice ==
  ASSUME NEW f, IsFile(f), NEW b1, NEW p1, NEW c1, NEW b2, NEW p2, NEW c2
  PROVE  Rescored(Rescored(f, b1, p1, c1), b2, p2, c2) = Rescored(f, b2, p2, c2)
<1>1. PICK cpu, name, profile, k, preset, isa, raw, view, notes, soak, model_ref, telemetry :
        f = File(cpu, Config(name, profile, k, preset, isa), raw, view, notes, soak, model_ref, telemetry)
  BY DEF IsFile
<1>2. Rescored(f, b1, p1, c1) = File(cpu, Config(b1.name, p1, c1, preset, isa), raw,
                                     ScoreRun(CoveredBy(raw, b1), b1, p1, c1), notes, soak, <<>>, NoTelemetry)
  BY <1>1, RescoredIs
<1>3. Rescored(Rescored(f, b1, p1, c1), b2, p2, c2)
        = File(cpu, Config(b2.name, p2, c2, preset, isa), raw,
               ScoreRun(CoveredBy(raw, b2), b2, p2, c2), notes, soak, <<>>, NoTelemetry)
  BY <1>2, RescoredIs
<1> QED BY <1>1, <1>3, RescoredIs

(* -- The inductive invariant ------------------------------------------- *)

(* One original per file.                                                  *)
Sequences == \E S : files \in Seq(S) /\ origin \in Seq(S) /\ Len(files) = Len(origin)

(* Every original has the fields of a file.                                *)
Written == \A i \in 1..Len(origin) : IsFile(origin[i])

(* The baseline made of files has the name no other has.                   *)
FleetNamed == fleet = NoFleet \/ (fleet # NoFleet /\ fleet.name = "fleet")

(* Every file is its original or one re-score of it.                       *)
OneRescoreAway ==
  \A i \in 1..Len(files) :
    \/ files[i] = origin[i]
    \/ \E b \in Baselines : \E p, c : files[i] = Rescored(origin[i], b, p, c)

(* The invariant of re-scoring.                                            *)
IInv == Sequences /\ Written /\ FleetNamed /\ OneRescoreAway

(* A baseline is found by its name.                                        *)
LEMMA Named ==
  ASSUME FleetNamed, NEW b \in Baselines
  PROVE  BaselineNamed(b.name) = b
<1>1. \A a \in Baselines : a.name = b.name => a = b
  BY ResultsAssumption DEF FleetNamed, Baselines
<1> QED BY <1>1 DEF BaselineNamed

(* A run appends a file to both.                                           *)
LEMMA WriteKeeps ==
  ASSUME IInv, NEW trial, WriteResult(trial)
  PROVE  IInv'
<1>1. PICK file : IsFile(file) /\ files' = Append(files, file) /\ origin' = Append(origin, file)
  <2> DEFINE raw == DowngradeThermallyLimited(trial.raw, FromSamples(trial.polls))
             file == File(trial.cpu, Config(Reference.name, trial.profile, trial.curve_k, trial.duration_preset, trial.isa),
                          raw, ScoreRun(raw, Reference, trial.profile, trial.curve_k),
                          ThermalNote(raw, FromSamples(trial.polls)), trial.soak,
                          ModelRefs(trial.cpu, raw, trial.isa), FromSamples(trial.polls))
  <2>1. files' = Append(files, file) /\ origin' = Append(origin, file)
    BY DEF WriteResult, File, Config, ConfigOf
  <2>2. IsFile(file)
    BY Zenon DEF IsFile
  <2> QED BY <2>1, <2>2
<1>2. PICK S : files \in Seq(S) /\ origin \in Seq(S) /\ Len(files) = Len(origin)
  BY DEF IInv, Sequences
<1> DEFINE T == S \cup {file}
<1>3. files \in Seq(T) /\ origin \in Seq(T) /\ file \in T
  BY <1>2, SeqMonotonic
<1> HIDE DEF T
<1>4. /\ files' \in Seq(T) /\ origin' \in Seq(T)
      /\ Len(files') = Len(files) + 1 /\ Len(origin') = Len(origin) + 1
      /\ Len(files) \in Nat /\ Len(origin) \in Nat
      /\ \A i \in 1..Len(files) : files'[i] = files[i] /\ origin'[i] = origin[i]
      /\ files'[Len(files) + 1] = file /\ origin'[Len(origin) + 1] = file
  BY <1>1, <1>2, <1>3, AppendProperties, LenProperties
<1>5. \A i \in 1..Len(files') : i \in 1..Len(files) \/ i = Len(files) + 1
  BY <1>4
<1>6. Sequences'
  BY <1>2, <1>4 DEF Sequences
<1>7. fleet' = fleet
  BY DEF WriteResult
<1>8. Written'
  BY <1>1, <1>2, <1>4, <1>5 DEF IInv, Written
<1>9. FleetNamed'
  BY <1>7 DEF IInv, FleetNamed
<1>10. OneRescoreAway'
  <2> SUFFICES ASSUME NEW i \in 1..Len(files')
               PROVE  \/ files'[i] = origin'[i]
                      \/ \E b \in Baselines' : \E p, c : files'[i] = Rescored(origin'[i], b, p, c)
    BY DEF OneRescoreAway
  <2>1. CASE i \in 1..Len(files)
    BY <1>4, <1>7, <2>1 DEF IInv, OneRescoreAway, Baselines
  <2>2. CASE i = Len(files) + 1
    BY <1>2, <1>4, <2>2
  <2> QED BY <1>5, <2>1, <2>2
<1> QED BY <1>6, <1>8, <1>9, <1>10 DEF IInv

(* A re-score stays one re-score away from the original.                   *)
LEMMA RescoreKeeps ==
  ASSUME IInv, NEW i \in DOMAIN files, NEW b \in Baselines, NEW p, NEW c, Rescore(i, b, p, c)
  PROVE  IInv'
<1>1. files' = [files EXCEPT ![i] = Rescored(files[i], b, p, c)] /\ fleet' = fleet /\ origin' = origin
  BY DEF Rescore
<1>2. PICK S : files \in Seq(S) /\ origin \in Seq(S) /\ Len(files) = Len(origin)
  BY DEF IInv, Sequences
<1> DEFINE new == Rescored(files[i], b, p, c)
           T   == S \cup {new}
<1>3. files \in Seq(T) /\ origin \in Seq(T) /\ new \in T
  BY <1>2, SeqMonotonic
<1>4. i \in 1..Len(files)
  BY <1>2, LenProperties
<1> HIDE DEF new, T
<1>5. files' = [files EXCEPT ![i] = new]
  BY <1>1 DEF new
<1>6. /\ files' \in Seq(T) /\ Len(files') = Len(files)
      /\ files'[i] = new /\ \A j \in 1..Len(files) : j # i => files'[j] = files[j]
  BY <1>3, <1>4, <1>5, ExceptSeq
<1>7. new = Rescored(origin[i], b, p, c)
  <2>1. IsFile(origin[i])
    BY <1>2, <1>4 DEF IInv, Written
  <2>2. CASE files[i] = origin[i]
    BY <2>2 DEF new
  <2>3. CASE \E b1 \in Baselines : \E p1, c1 : files[i] = Rescored(origin[i], b1, p1, c1)
    BY <2>1, <2>3, RescoredTwice DEF new
  <2> QED BY <1>4, <2>2, <2>3 DEF IInv, OneRescoreAway
<1>8. Sequences' /\ Written' /\ FleetNamed'
  BY <1>1, <1>2, <1>3, <1>6 DEF IInv, Sequences, Written, FleetNamed
<1>9. OneRescoreAway'
  <2> SUFFICES ASSUME NEW j \in 1..Len(files')
               PROVE  \/ files'[j] = origin'[j]
                      \/ \E d \in Baselines' : \E q, e : files'[j] = Rescored(origin'[j], d, q, e)
    BY DEF OneRescoreAway
  <2>1. Baselines' = Baselines
    BY <1>1 DEF Baselines
  <2>2. CASE j = i
    BY <1>1, <1>6, <1>7, <2>1, <2>2
  <2>3. CASE j # i
    BY <1>1, <1>6, <2>1, <2>3 DEF IInv, OneRescoreAway
  <2> QED BY <2>2, <2>3
<1> QED BY <1>8, <1>9 DEF IInv

(* A baseline is made once, under a name of its own.                       *)
LEMMA GenerateKeeps ==
  ASSUME IInv, NEW some, GenerateBaseline(some)
  PROVE  IInv'
<1>1. fleet = NoFleet /\ fleet'.name = "fleet" /\ files' = files /\ origin' = origin
  BY DEF GenerateBaseline, BaselineFromResults
<1>2. fleet' # NoFleet
  BY <1>1 DEF NoFleet
<1>3. Baselines \subseteq Baselines'
  BY <1>1 DEF Baselines
<1>4. Sequences' /\ Written' /\ FleetNamed'
  BY <1>1, <1>2 DEF IInv, Sequences, Written, FleetNamed
<1>5. OneRescoreAway'
  BY <1>1, <1>3 DEF IInv, OneRescoreAway
<1> QED BY <1>4, <1>5 DEF IInv

(* After any chain of re-scores a file is what one re-score of the         *)
(* original would have made it, for any baselines, profiles and curves.    *)
THEOREM ResultsRescoreForgetsNothing == ResultsSpec => []RescoreForgetsNothing
<1>1. ResultsInit => IInv
  <2> SUFFICES ASSUME ResultsInit PROVE IInv
    OBVIOUS
  <2>1. Sequences
    BY EmptySeq DEF ResultsInit, Sequences
  <2>2. Written /\ OneRescoreAway
    BY EmptySeq DEF ResultsInit, Written, OneRescoreAway
  <2>3. FleetNamed
    BY DEF ResultsInit, FleetNamed
  <2> QED BY <2>1, <2>2, <2>3 DEF IInv
<1>2. IInv /\ [ResultsNext]_resultVars => IInv'
  <2> SUFFICES ASSUME IInv, [ResultsNext]_resultVars PROVE IInv'
    OBVIOUS
  <2>1. ASSUME NEW trial \in Trials, WriteResult(trial) PROVE IInv'
    BY <2>1, WriteKeeps
  <2>2. ASSUME NEW i \in DOMAIN files, NEW b \in Baselines, NEW p \in Profiles, NEW c \in Curves,
               Rescore(i, b, p, c)
        PROVE  IInv'
    BY <2>2, RescoreKeeps
  <2>3. ASSUME NEW some \in (SUBSET DOMAIN files) \ {{}}, GenerateBaseline(some) PROVE IInv'
    BY <2>3, GenerateKeeps
  <2>4. CASE UNCHANGED resultVars
    BY <2>4 DEF resultVars, IInv, Sequences, Written, FleetNamed, OneRescoreAway, Baselines
  <2> QED BY <2>1, <2>2, <2>3, <2>4 DEF ResultsNext
<1>3. IInv => RescoreForgetsNothing
  <2> SUFFICES ASSUME IInv, NEW i \in DOMAIN files
               PROVE  \/ files[i] = origin[i]
                      \/ files[i] = LET c == files[i].config
                                    IN  Rescored(origin[i], BaselineNamed(c.baseline), c.profile, c.curve_k)
    BY DEF RescoreForgetsNothing
  <2>1. i \in 1..Len(files) /\ IsFile(origin[i])
    BY LenProperties DEF IInv, Sequences, Written
  <2>2. CASE files[i] # origin[i]
    <3>1. PICK b \in Baselines : \E p, c : files[i] = Rescored(origin[i], b, p, c)
      BY <2>1, <2>2 DEF IInv, OneRescoreAway
    <3>1a. PICK p, c : files[i] = Rescored(origin[i], b, p, c)
      BY <3>1
    <3>2. files[i].config.baseline = b.name /\ files[i].config.profile = p /\ files[i].config.curve_k = c
      BY <2>1, <3>1a, RescoredIsFile
    <3>3. BaselineNamed(b.name) = b
      BY Named DEF IInv
    <3> QED BY <3>1a, <3>2, <3>3
  <2> QED BY <2>2
<1> QED BY <1>1, <1>2, <1>3, PTL DEF ResultsSpec

(* The elements kept of a sequence. *)
LEMMA KeptIs ==
  ASSUME NEW seq, IsSeq(seq), NEW keep \in [DOMAIN seq -> BOOLEAN]
  PROVE  /\ IsSeq(FlattenSeq([i \in DOMAIN seq |-> IF keep[i] THEN <<seq[i]>> ELSE <<>>]))
         /\ Range(FlattenSeq([i \in DOMAIN seq |-> IF keep[i] THEN <<seq[i]>> ELSE <<>>]))
              = {seq[i] : i \in {j \in DOMAIN seq : keep[j]}}
<1> DEFINE ss == [i \in DOMAIN seq |-> IF keep[i] THEN <<seq[i]>> ELSE <<>>]
<1>1. DOMAIN seq = 1..Len(seq) /\ Len(seq) \in Nat
  BY IsSeqFacts
<1>2. \A i \in DOMAIN seq : ss[i] = IF keep[i] THEN <<seq[i]>> ELSE <<>>
  OBVIOUS
<1>3. IsSeq(ss)
  <2>1. \A i \in 1..Len(seq) : ss[i] \in Range(ss)
    BY <1>1 DEF Range
  <2>2. ss = [i \in 1..Len(seq) |-> ss[i]]
    BY <1>1
  <2> HIDE DEF ss
  <2> QED BY <1>1, <2>1, <2>2 DEF IsSeq
<1>4. \A x \in Range(ss) : IsSeq(x)
  <2>1. \A i \in DOMAIN seq : IsSeq(ss[i])
    BY <1>2, SeqOfOne, SeqOfNone
  <2>2. DOMAIN ss = DOMAIN seq
    OBVIOUS
  <2> HIDE DEF ss
  <2> QED BY <2>1, <2>2 DEF Range
<1>5. IsSeq(FlattenSeq(ss)) /\ Range(FlattenSeq(ss)) = UNION {Range(x) : x \in Range(ss)}
  <2> HIDE DEF ss
  <2> QED BY <1>3, <1>4, FlattenIs
<1>6. UNION {Range(x) : x \in Range(ss)} = {seq[i] : i \in {j \in DOMAIN seq : keep[j]}}
  <2>1. \A i \in DOMAIN seq : Range(ss[i]) = IF keep[i] THEN {seq[i]} ELSE {}
    BY <1>2, SeqOfOne, SeqOfNone
  <2>2. Range(ss) = {ss[i] : i \in DOMAIN seq}
    BY DEF Range
  <2> HIDE DEF ss
  <2>3. UNION {Range(x) : x \in Range(ss)} = UNION {Range(ss[i]) : i \in DOMAIN seq}
    BY <2>2
  <2>4. ASSUME NEW x
        PROVE  x \in UNION {Range(ss[i]) : i \in DOMAIN seq} <=> x \in {seq[i] : i \in {j \in DOMAIN seq : keep[j]}}
    <3>1. \A i \in DOMAIN seq : x \in Range(ss[i]) <=> keep[i] /\ x = seq[i]
      BY <2>1
    <3> QED BY <3>1
  <2>5. UNION {Range(ss[i]) : i \in DOMAIN seq} = {seq[i] : i \in {j \in DOMAIN seq : keep[j]}}
    BY <2>4
  <2> QED BY <2>3, <2>5
<1> QED BY <1>5, <1>6

(* The confidences there are.                                              *)
Confidences == {"high", "medium", "low"}

(* The weakest of confidences that are not all high is not high.           *)
LEMMA WeakestIs ==
  ASSUME NEW cs \in SUBSET Confidences, NEW c \in cs, c # "high"
  PROVE  Weakest(cs) # "high"
<1>1. /\ TrustRank("high") = 2 /\ TrustRank("medium") = 1 /\ TrustRank("low") = 0
  BY DEF TrustRank
<1>2. \E w \in cs : \A d \in cs : TrustRank(w) <= TrustRank(d)
  <2>1. CASE "low" \in cs
    BY <1>1, <2>1 DEF Confidences
  <2>2. CASE "low" \notin cs
    BY <1>1, <2>2 DEF Confidences
  <2> QED BY <2>1, <2>2
<1>3. Weakest(cs) \in cs /\ TrustRank(Weakest(cs)) <= TrustRank(c)
  BY <1>2 DEF Weakest
<1>4. TrustRank(c) <= 1
  BY <1>1 DEF Confidences
<1>5. TrustRank(c) \in {0, 1}
  BY <1>1 DEF Confidences
<1>6. ASSUME Weakest(cs) = "high"
      PROVE  FALSE
  <2>1. 2 <= TrustRank(c)
    BY <1>1, <1>3, <1>6
  <2> QED BY <1>5, <2>1
<1> QED BY <1>6

(* -- A component ------------------------------------------------------- *)

(* comp is the benchmark bench, scored.                                    *)
Describes(comp, bench, baseline, k) ==
  /\ comp.id = bench.id
  /\ comp.graded = (bench.id \notin UngradedComponents)
  /\ IsSeq(comp.subtests)
  /\ \A sub \in Range(comp.subtests) : \E st \in Range(bench.subtests) :
       st.scored /\ sub = ScoredSubtest(bench.id, st, baseline, k)
  /\ \A st \in Range(bench.subtests) : st.scored =>
       ScoredSubtest(bench.id, st, baseline, k) \in Range(comp.subtests)
  /\ comp.confidence = Weakest({comp.subtests[i].confidence : i \in DOMAIN comp.subtests})
  /\ comp.score = MeanScore([i \in DOMAIN comp.subtests |-> comp.subtests[i].score])

(* A component scored is described by its subtests' scores, the weakest   *)
(* trust among them and their mean.                                        *)
LEMMA ComponentIs ==
  ASSUME NEW bench, IsSeq(bench.subtests), \A st \in Range(bench.subtests) : st.scored \in BOOLEAN,
         NEW baseline, NEW k
  PROVE  Describes(ScoredComponent(bench, baseline, k), bench, baseline, k)
<1> DEFINE seq == bench.subtests
           keep == [i \in DOMAIN seq |-> seq[i].scored]
           scored == FlattenSeq([i \in DOMAIN seq |-> IF keep[i] THEN <<seq[i]>> ELSE <<>>])
           other == Where(bench.subtests, LAMBDA st : ~st.scored)
           subs == [i \in DOMAIN scored |-> ScoredSubtest(bench.id, scored[i], baseline, k)]
           comp == ScoredComponent(bench, baseline, k)
<1>1. keep \in [DOMAIN seq -> BOOLEAN]
  BY DEF Range
<1>2. Where(bench.subtests, LAMBDA st : st.scored) = scored
  <2>1. [i \in DOMAIN seq |-> IF seq[i].scored THEN <<seq[i]>> ELSE <<>>]
          = [i \in DOMAIN seq |-> IF keep[i] THEN <<seq[i]>> ELSE <<>>]
    OBVIOUS
  <2>2. Where(bench.subtests, LAMBDA st : st.scored)
          = FlattenSeq([i \in DOMAIN seq |-> IF seq[i].scored THEN <<seq[i]>> ELSE <<>>])
    BY Zenon DEF Where
  <2> QED BY <2>1, <2>2
<1>3. IsSeq(scored) /\ Range(scored) = {seq[i] : i \in {j \in DOMAIN seq : keep[j]}}
  <2> HIDE DEF keep, seq
  <2> QED BY <1>1, KeptIs DEF seq
<1>4. Range(scored) = {st \in Range(bench.subtests) : st.scored}
  <2> HIDE DEF scored
  <2> QED BY <1>3 DEF Range
<1> HIDE DEF scored, other
<1>5. comp = [ id            |-> bench.id,
               graded        |-> bench.id \notin UngradedComponents,
               score         |-> MeanScore([i \in DOMAIN subs |-> subs[i].score]),
               confidence    |-> Weakest({subs[i].confidence : i \in DOMAIN subs}),
               subtests      |-> subs,
               informational |-> other ]
  BY <1>2, Zenon DEF ScoredComponent, other
<1>6. Range(subs) = {ScoredSubtest(bench.id, st, baseline, k) : st \in Range(scored)}
  BY DEF Range
<1>7. IsSeq(subs)
  <2>1. DOMAIN scored = 1..Len(scored) /\ Len(scored) \in Nat
    BY <1>3, IsSeqFacts
  <2>2. \A i \in DOMAIN scored : subs[i] \in Range(subs)
    BY DEF Range
  <2>3. subs = [i \in DOMAIN scored |-> subs[i]]
    OBVIOUS
  <2> HIDE DEF subs
  <2> QED BY <2>1, <2>2, <2>3 DEF IsSeq
<1> HIDE DEF subs, comp
<1>8. /\ comp.id = bench.id /\ comp.graded = (bench.id \notin UngradedComponents)
      /\ comp.subtests = subs
      /\ comp.score = MeanScore([i \in DOMAIN subs |-> subs[i].score])
      /\ comp.confidence = Weakest({subs[i].confidence : i \in DOMAIN subs})
  BY <1>5
<1>9. /\ \A sub \in Range(subs) : \E st \in Range(bench.subtests) :
           st.scored /\ sub = ScoredSubtest(bench.id, st, baseline, k)
      /\ \A st \in Range(bench.subtests) : st.scored =>
           ScoredSubtest(bench.id, st, baseline, k) \in Range(subs)
  BY <1>4, <1>6
<1> QED BY <1>7, <1>8, <1>9 DEF comp, Describes

(* A component's score is an integer. *)
LEMMA MeanIs ==
  ASSUME NEW scores, IsSeq(scores), \A i \in DOMAIN scores : scores[i] \in Int
  PROVE  MeanScore(scores) \in Int
<1>1. DOMAIN scores = 1..Len(scores) /\ Len(scores) \in Nat
  BY IsSeqFacts
<1>2. SumFunction(scores) \in Int
  <2>1. IsFiniteSet(DOMAIN scores)
    BY <1>1, FS_Interval
  <2>2. SumFunctionOnSet(scores, DOMAIN scores) \in Int
    BY <2>1, SumIs
  <2> QED BY <2>2 DEF SumFunction
<1>3. CASE scores = <<>>
  BY <1>3 DEF MeanScore, ZeroScore
<1>4. CASE scores # <<>>
  <2>1. Len(scores) \in Nat \ {0}
    <3>1. scores \in Seq(Range(scores))
      BY DEF IsSeq
    <3> QED BY <1>4, <3>1
  <2>2. \A a \in Int, n \in Nat \ {0} : a \div n \in Int
    OBVIOUS
  <2>3. MeanScore(scores) = SumFunction(scores) \div Len(scores)
    BY <1>4 DEF MeanScore
  <2> QED BY <1>2, <2>1, <2>2, <2>3
<1> QED BY <1>3, <1>4

(* -- The grade --------------------------------------------------------- *)

(* Two different things are two.                                           *)
LEMMA PairCounts ==
  ASSUME NEW x, NEW y, x # y
  PROVE  IsFiniteSet({x, y}) /\ Cardinality({x, y}) = 2
<1>1. IsFiniteSet({x}) /\ Cardinality({x}) = 1
  BY FS_Singleton
<1>2. {x, y} = {x} \cup {y} /\ y \notin {x}
  OBVIOUS
<1> QED BY <1>1, <1>2, FS_AddElement

(* Below B means below 850, and above B means at or above 1150.            *)
LEMMA GradeIs ==
  ASSUME NEW num \in Int, NEW den \in Nat \ {0}
  PROVE  /\ GradeRank(num, den) > 2 => num < HeldBelow * den
         /\ GradeRank(num, den) < 2 => num >= LiftedAbove * den
<1> DEFINE T == {t \in Bands : num < t * den}
           two == {41941, 17422}
<1>1. IsFiniteSet(Bands) /\ IsFiniteSet(two) /\ Cardinality(two) = 2
  <2>2. IsFiniteSet(two) /\ Cardinality(two) = 2
    <3> DEFINE x == 41941
               y == 17422
    <3>1. x # y /\ two = {x, y}
      OBVIOUS
    <3> HIDE DEF x, y, two
    <3> QED BY <3>1, PairCounts
  <2>3. IsFiniteSet({41941, 17422, -20257})
    <3>1. {41941, 17422, -20257} = two \cup {-20257}
      OBVIOUS
    <3> QED BY <2>2, <3>1, FS_AddElement
  <2>4. IsFiniteSet({41941, 17422, -20257, -63673})
    <3>1. {41941, 17422, -20257, -63673} = {41941, 17422, -20257} \cup {-63673}
      OBVIOUS
    <3> QED BY <2>3, <3>1, FS_AddElement
  <2>5. Bands = {41941, 17422, -20257, -63673} \cup {-114214}
    BY DEF Bands
  <2> QED BY <2>2, <2>4, <2>5, FS_AddElement
<1>2. IsFiniteSet(T) /\ Cardinality(T) \in Nat
  BY <1>1, FS_Subset, FS_CardinalityType
<1>3. GradeRank(num, den) = Cardinality(T)
  BY DEF GradeRank
<1>4. ASSUME num >= HeldBelow * den
      PROVE  Cardinality(T) <= 2
  <2>1. T \subseteq two
    BY <1>4 DEF Bands, HeldBelow
  <2> HIDE DEF T, two
  <2>2. Cardinality(T) <= Cardinality(two)
    BY <1>1, <2>1, FS_Subset
  <2> QED BY <1>1, <2>2
<1>5. ASSUME num < LiftedAbove * den
      PROVE  Cardinality(T) >= 2
  <2>1. two \subseteq T
    BY <1>5 DEF Bands, LiftedAbove
  <2> HIDE DEF T, two
  <2>2. Cardinality(two) <= Cardinality(T)
    BY <1>2, <2>1, FS_Subset
  <2> QED BY <1>1, <1>2, <2>2
<1>6. HeldBelow * den \in Int /\ LiftedAbove * den \in Int
  BY DEF HeldBelow, LiftedAbove
<1> HIDE DEF T
<1> QED BY <1>2, <1>3, <1>4, <1>5, <1>6

(* Every profile gives every component a positive weight.                  *)
LEMMA WeightIs ==
  ASSUME NEW profile \in DOMAIN Weights, NEW c
  PROVE  Weight(profile, c) \in Nat \ {0}
<1> DEFINE a == [cpu |-> 10, memory |-> 10, disk |-> 10]
           b == [cpu |-> 14, memory |-> 10, disk |-> 13]
           d == [cpu |-> 14, memory |-> 13, disk |-> 8]
           e == [cpu |-> 13, memory |-> 10, disk |-> 14]
<1>1. Weights[profile] \in {a, b, d, e}
  BY DEF Weights
<1>2. /\ DOMAIN a = {"cpu", "memory", "disk"} /\ a["cpu"] = 10 /\ a["memory"] = 10 /\ a["disk"] = 10
      /\ DOMAIN b = {"cpu", "memory", "disk"} /\ b["cpu"] = 14 /\ b["memory"] = 10 /\ b["disk"] = 13
      /\ DOMAIN d = {"cpu", "memory", "disk"} /\ d["cpu"] = 14 /\ d["memory"] = 13 /\ d["disk"] = 8
      /\ DOMAIN e = {"cpu", "memory", "disk"} /\ e["cpu"] = 13 /\ e["memory"] = 10 /\ e["disk"] = 14
  OBVIOUS
<1> HIDE DEF a, b, d, e
<1>3. \A w \in {a, b, d, e} : \A x \in DOMAIN w : w[x] \in Nat \ {0}
  BY <1>2
<1> QED BY <1>1, <1>3 DEF Weight

(* A weighted mean below a bound has an element below it; one that reaches *)
(* a bound has an element above it, or every element is the bound.         *)
LEMMA MeanOf ==
  ASSUME NEW S, IsFiniteSet(S), S # {}, NEW w \in [S -> Nat \ {0}], NEW s \in [S -> Int],
         NEW sum, sum = [i \in S |-> w[i] * s[i]], NEW c \in Int
  PROVE  /\ SumFunctionOnSet(sum, S) \in Int
         /\ SumFunctionOnSet(w, S) \in Nat \ {0}
         /\ SumFunctionOnSet(sum, S) < c * SumFunctionOnSet(w, S) => \E i \in S : s[i] < c
         /\ SumFunctionOnSet(sum, S) >= c * SumFunctionOnSet(w, S)
              => (\E i \in S : s[i] > c) \/ (\A i \in S : s[i] = c)
<1>1. \A i \in S : w[i] \in Nat \ {0} /\ s[i] \in Int /\ sum[i] = w[i] * s[i] /\ sum[i] \in Int
  OBVIOUS
<1>2. /\ SumFunctionOnSet(sum, S) \in Int
      /\ \A x \in S : SumFunctionOnSet(sum, S) = sum[x] + SumFunctionOnSet(sum, S \ {x})
  BY <1>1, SumIs
<1>3. /\ SumFunctionOnSet(w, S) \in Int
      /\ \A x \in S : SumFunctionOnSet(w, S) = w[x] + SumFunctionOnSet(w, S \ {x})
  BY <1>1, SumIs
<1>4. \A T \in SUBSET S : IsFiniteSet(T) /\ SumFunctionOnSet(w, T) \in Int /\ SumFunctionOnSet(sum, T) \in Int
  <2> TAKE T \in SUBSET S
  <2>1. IsFiniteSet(T) /\ (\A i \in T : w[i] \in Int) /\ (\A i \in T : sum[i] \in Int)
    BY <1>1, FS_Subset
  <2> QED BY <2>1, SumIs
<1>5. \A T \in SUBSET S : SumFunctionOnSet(w, T) >= 0
  <2> DEFINE P == {t \in SUBSET S : SumFunctionOnSet(w, t) >= 0}
  <2>1. ASSUME NEW t \in SUBSET S, \A u \in SUBSET t : u # t => u \in P
        PROVE  t \in P
    <3>0. IsFiniteSet(t) /\ \A i \in t : w[i] \in Int
      <4>1. \A i \in S : w[i] \in Int
        BY <1>1
      <4> QED BY <4>1, FS_Subset
    <3>1. CASE t = {}
      BY <3>0, <3>1, SumIs
    <3>2. CASE t # {}
      <4>1. PICK x \in t : TRUE
        BY <3>2
      <4>2. t \ {x} \in P /\ w[x] \in Nat
        BY <1>1, <2>1, <4>1
      <4>3. SumFunctionOnSet(w, t) = w[x] + SumFunctionOnSet(w, t \ {x})
        BY <3>0, SumIs
      <4>4. SumFunctionOnSet(w, t \ {x}) \in Int
        BY <1>4
      <4> QED BY <4>2, <4>3, <4>4
    <3> QED BY <3>1, <3>2
  <2> HIDE DEF P
  <2>2. \A t \in SUBSET S : t \in P
    BY <2>1, SubsetInduction
  <2> QED BY <2>2 DEF P
<1>6. SumFunctionOnSet(w, S) \in Nat \ {0}
  <2>1. PICK x \in S : TRUE
    OBVIOUS
  <2>2. SumFunctionOnSet(w, S \ {x}) >= 0 /\ SumFunctionOnSet(w, S \ {x}) \in Int
    BY <1>4, <1>5
  <2>3. SumFunctionOnSet(w, S) = w[x] + SumFunctionOnSet(w, S \ {x})
    BY <1>3
  <2> QED BY <1>1, <2>2, <2>3
<1>7. \A a \in Nat \ {0}, x \in Int : /\ x >= c => a * x >= c * a
                                      /\ x <= c => a * x <= c * a
                                      /\ x < c => a * x < c * a
                                      /\ a * x \in Int /\ c * a \in Int
  <2> SUFFICES ASSUME NEW a \in Nat \ {0}, NEW x \in Int
               PROVE  /\ x >= c => a * x >= c * a
                      /\ x <= c => a * x <= c * a
                      /\ x < c => a * x < c * a
                      /\ a * x \in Int /\ c * a \in Int
    OBVIOUS
  <2>1. a * x - c * a = a * (x - c) /\ a * x \in Int /\ c * a \in Int
    OBVIOUS
  <2>2. \A y \in Int : (y >= 0 => a * y >= 0) /\ (y <= 0 => a * y <= 0) /\ (y < 0 => a * y < 0)
    OBVIOUS
  <2> QED BY <2>1, <2>2
<1>8. ASSUME SumFunctionOnSet(sum, S) < c * SumFunctionOnSet(w, S), \A i \in S : ~(s[i] < c)
      PROVE  FALSE
  <2> DEFINE cw == [i \in S |-> c * w[i]]
  <2>1. \A i \in S : cw[i] \in Int /\ sum[i] \in Int /\ cw[i] <= 1 * sum[i]
    <3> TAKE i \in S
    <3>1. s[i] >= c /\ w[i] \in Nat \ {0} /\ s[i] \in Int
      BY <1>1, <1>8
    <3>2. w[i] * s[i] >= c * w[i] /\ w[i] * s[i] \in Int /\ c * w[i] \in Int
      BY <1>7, <3>1
    <3>3. cw[i] = c * w[i] /\ sum[i] = w[i] * s[i]
      OBVIOUS
    <3> HIDE DEF cw
    <3> QED BY <3>2, <3>3
  <2>2. \A i \in S : cw[i] \in Int
    BY <2>1
  <2> HIDE DEF cw
  <2>4. SumFunctionOnSet(cw, S) <= 1 * SumFunctionOnSet(sum, S)
    BY <2>1, SumCompare
  <2>5. SumFunctionOnSet(cw, S) = c * SumFunctionOnSet(w, S)
    <3> DEFINE P == {t \in SUBSET S : SumFunctionOnSet(cw, t) = c * SumFunctionOnSet(w, t)}
    <3>1. ASSUME NEW t \in SUBSET S, \A u \in SUBSET t : u # t => u \in P
          PROVE  t \in P
      <4>0. IsFiniteSet(t) /\ (\A i \in t : w[i] \in Int) /\ (\A i \in t : cw[i] \in Int)
        <5>1. \A i \in S : w[i] \in Int
          BY <1>1
        <5> QED BY <5>1, <2>2, FS_Subset
      <4>1. CASE t = {}
        <5>1. SumFunctionOnSet(cw, t) = 0 /\ SumFunctionOnSet(w, t) = 0
          BY <4>0, <4>1, SumIs
        <5> QED BY <5>1
      <4>2. CASE t # {}
        <5>1. PICK x \in t : TRUE
          BY <4>2
        <5>2. t \ {x} \in P /\ w[x] \in Int
          BY <1>1, <3>1, <5>1
        <5>3. SumFunctionOnSet(w, t) = w[x] + SumFunctionOnSet(w, t \ {x})
          BY <4>0, SumIs
        <5>4. SumFunctionOnSet(cw, t) = cw[x] + SumFunctionOnSet(cw, t \ {x})
          BY <4>0, SumIs
        <5>5. SumFunctionOnSet(w, t \ {x}) \in Int
          BY <1>4
        <5>6. cw[x] = c * w[x]
          BY DEF cw
        <5>7. \A m \in Int, n \in Int : c * (m + n) = c * m + c * n
          OBVIOUS
        <5>8. SumFunctionOnSet(cw, t \ {x}) = c * SumFunctionOnSet(w, t \ {x})
          BY <5>2
        <5>9. SumFunctionOnSet(cw, t) = c * w[x] + c * SumFunctionOnSet(w, t \ {x})
          BY <5>4, <5>6, <5>8
        <5>10. SumFunctionOnSet(cw, t) = c * SumFunctionOnSet(w, t)
          BY <5>2, <5>3, <5>5, <5>7, <5>9
        <5> QED BY <5>10
      <4> QED BY <4>1, <4>2
    <3> HIDE DEF P
    <3>2. S \in P
      BY <3>1, SubsetInduction
    <3> QED BY <3>2 DEF P
  <2>6. c * SumFunctionOnSet(w, S) \in Int
    BY <1>3
  <2> QED BY <1>2, <1>8, <2>4, <2>5, <2>6
<1>9. ASSUME SumFunctionOnSet(sum, S) >= c * SumFunctionOnSet(w, S), \A i \in S : ~(s[i] > c),
             NEW x \in S, s[x] # c
      PROVE  FALSE
  <2> DEFINE T == S \ {x}
  <2>1. \A i \in T : sum[i] \in Int /\ w[i] \in Int /\ sum[i] <= c * w[i]
    <3> TAKE i \in T
    <3>1. s[i] <= c /\ w[i] \in Nat \ {0} /\ s[i] \in Int
      BY <1>1, <1>9
    <3> QED BY <1>1, <1>7, <3>1
  <2>2. SumFunctionOnSet(sum, T) <= c * SumFunctionOnSet(w, T)
    <3>1. IsFiniteSet(T)
      BY <1>4
    <3> HIDE DEF T
    <3> QED BY <2>1, <3>1, SumCompare
  <2>3. sum[x] < c * w[x]
    <3>0. w[x] \in Nat \ {0} /\ s[x] \in Int /\ ~(s[x] > c) /\ s[x] # c
      BY <1>1, <1>9
    <3>1. s[x] < c /\ w[x] \in Nat \ {0} /\ s[x] \in Int
      BY <3>0
    <3> QED BY <1>1, <1>7, <3>1
  <2>4. SumFunctionOnSet(sum, S) = sum[x] + SumFunctionOnSet(sum, T)
    BY <1>2
  <2>5. SumFunctionOnSet(w, S) = w[x] + SumFunctionOnSet(w, T)
    BY <1>3
  <2>6. SumFunctionOnSet(w, T) \in Int /\ SumFunctionOnSet(sum, T) \in Int /\ w[x] \in Int /\ sum[x] \in Int
    BY <1>1, <1>4
  <2> DEFINE a == SumFunctionOnSet(w, T)
             b == SumFunctionOnSet(sum, T)
  <2> HIDE DEF T, a, b
  <2>7. c * (w[x] + a) = c * w[x] + c * a /\ c * w[x] \in Int /\ c * a \in Int
    BY <2>6 DEF a
  <2>8. sum[x] + b >= c * w[x] + c * a
    BY <1>9, <2>4, <2>5, <2>7 DEF a, b
  <2>9. b <= c * a /\ b \in Int
    BY <2>2, <2>6 DEF a, b
  <2> QED BY <2>3, <2>6, <2>7, <2>8, <2>9
<1> QED BY <1>2, <1>6, <1>8, <1>9

(* The components that count towards the grade.                            *)
Graded(comps) == {i \in DOMAIN comps : comps[i].graded}

(* Some graded component is the lowest, and some is the highest. *)
LEMMA ExtremesExist ==
  ASSUME NEW comps, IsSeq(comps), \A i \in DOMAIN comps : comps[i].score \in Int,
         NEW x \in Graded(comps)
  PROVE  /\ \E i \in Graded(comps) : /\ {j \in Graded(comps) : Below(comps, j, i)} = {}
                                     /\ comps[i].score <= comps[x].score
         /\ \E i \in Graded(comps) : /\ {j \in Graded(comps) : Below(comps, i, j)} = {}
                                     /\ comps[i].score >= comps[x].score
<1> DEFINE G == Graded(comps)
           sc == [i \in G |-> comps[i].score]
           V == {sc[i] : i \in G}
<1>1. G \in SUBSET Int /\ G \subseteq DOMAIN comps /\ IsFiniteSet(G)
  <2>1. DOMAIN comps = 1..Len(comps) /\ Len(comps) \in Nat
    BY IsSeqFacts
  <2>2. IsFiniteSet(DOMAIN comps)
    BY <2>1, FS_Interval
  <2>3. G \subseteq DOMAIN comps
    BY DEF Graded
  <2> HIDE DEF G
  <2> QED BY <2>1, <2>2, <2>3, FS_Subset
<1>2. \A i \in G : sc[i] = comps[i].score /\ sc[i] \in Int
  BY <1>1
<1>3. V \in SUBSET Int /\ IsFiniteSet(V) /\ V # {} /\ sc[x] \in V
  <2>1. DOMAIN sc = G /\ x \in G
    OBVIOUS
  <2> HIDE DEF G, sc
  <2>2. IsFiniteSet(V)
    BY <1>1, <2>1, FiniteImage
  <2>3. V \in SUBSET Int /\ sc[x] \in V
    BY <1>2, <2>1
  <2> QED BY <2>2, <2>3
<1> HIDE DEF V, sc, G
<1>4. Min(V) \in V /\ (\A y \in V : Min(V) <= y) /\ Max(V) \in V /\ (\A y \in V : y <= Max(V))
  BY <1>3, MinIs, MaxIs
<1>5. \A i \in G : sc[i] \in V
  BY DEF V
<1>6. \E i \in G : {j \in G : Below(comps, j, i)} = {} /\ sc[i] <= sc[x]
  <2> DEFINE I == {i \in G : sc[i] = Min(V)}
  <2>1. I # {} /\ I \in SUBSET Int /\ IsFiniteSet(I)
    <3>1. I # {}
      BY <1>4 DEF V
    <3>2. I \subseteq G
      OBVIOUS
    <3> HIDE DEF I
    <3> QED BY <1>1, <3>1, <3>2, FS_Subset
  <2> DEFINE i == Min(I)
  <2>2. i \in I /\ \A j \in I : i <= j
    <3> HIDE DEF I
    <3> QED BY <2>1, MinIs
  <2> HIDE DEF i
  <2>3. i \in G /\ sc[i] = Min(V)
    BY <2>2
  <2>4. ASSUME NEW j \in G, Below(comps, j, i)
        PROVE  FALSE
    <3>1. sc[j] \in Int /\ sc[i] \in Int /\ sc[i] <= sc[j] /\ i \in Int /\ j \in Int
      BY <1>1, <1>2, <1>4, <1>5, <2>3
    <3>2. sc[j] = sc[i] /\ j < i
      BY <1>2, <2>3, <2>4, <3>1 DEF Below
    <3> QED BY <2>2, <2>3, <3>1, <3>2
  <2>5. sc[i] <= sc[x]
    BY <1>3, <1>4, <2>3
  <2> QED BY <2>3, <2>4, <2>5
<1>7. \E i \in G : {j \in G : Below(comps, i, j)} = {} /\ sc[i] >= sc[x]
  <2> DEFINE I == {i \in G : sc[i] = Max(V)}
  <2>1. I # {} /\ I \in SUBSET Int /\ IsFiniteSet(I)
    <3>1. I # {}
      BY <1>4 DEF V
    <3>2. I \subseteq G
      OBVIOUS
    <3> HIDE DEF I
    <3> QED BY <1>1, <3>1, <3>2, FS_Subset
  <2> DEFINE i == Max(I)
  <2>2. i \in I /\ \A j \in I : j <= i
    <3> HIDE DEF I
    <3> QED BY <2>1, MaxIs
  <2> HIDE DEF i
  <2>3. i \in G /\ sc[i] = Max(V)
    BY <2>2
  <2>4. ASSUME NEW j \in G, Below(comps, i, j)
        PROVE  FALSE
    <3>1. sc[j] \in Int /\ sc[i] \in Int /\ sc[j] <= sc[i] /\ i \in Int /\ j \in Int
      BY <1>1, <1>2, <1>4, <1>5, <2>3
    <3>2. sc[j] = sc[i] /\ i < j
      BY <1>2, <2>3, <2>4, <3>1 DEF Below
    <3> QED BY <2>2, <2>3, <3>1, <3>2
  <2>5. sc[i] >= sc[x]
    BY <1>3, <1>4, <2>3
  <2> QED BY <2>3, <2>4, <2>5
<1>8. x \in G
  BY DEF G
<1> QED BY <1>2, <1>6, <1>7, <1>8 DEF G

(* The overall score is a weighted mean of the graded components' scores.  *)
LEMMA OverallIs ==
  ASSUME NEW comps, IsSeq(comps), \A i \in DOMAIN comps : comps[i].score \in Int,
         NEW profile \in DOMAIN Weights, Graded(comps) # {}
  PROVE  LET o == OverallScore(comps, profile)
         IN  /\ GradeRank(o.num, o.den) > 2 => \E i \in Graded(comps) : comps[i].score < HeldBelow
             /\ GradeRank(o.num, o.den) < 2 =>
                  \/ \E i \in Graded(comps) : comps[i].score > LiftedAbove
                  \/ \A i \in Graded(comps) : comps[i].score = LiftedAbove
<1> DEFINE G == Graded(comps)
           w == [i \in G |-> Weight(profile, comps[i].id)]
           s == [i \in G |-> comps[i].score]
           sum == [i \in G |-> w[i] * s[i]]
           o == OverallScore(comps, profile)
<1>1. IsFiniteSet(G) /\ G \subseteq DOMAIN comps
  <2>1. DOMAIN comps = 1..Len(comps) /\ Len(comps) \in Nat
    BY IsSeqFacts
  <2>2. IsFiniteSet(DOMAIN comps)
    BY <2>1, FS_Interval
  <2>3. G \subseteq DOMAIN comps
    BY DEF Graded
  <2> HIDE DEF G
  <2> QED BY <2>2, <2>3, FS_Subset
<1>2. w \in [G -> Nat \ {0}] /\ s \in [G -> Int]
  <2>1. \A i \in G : Weight(profile, comps[i].id) \in Nat \ {0}
    BY WeightIs
  <2>2. \A i \in G : comps[i].score \in Int
    BY <1>1
  <2> HIDE DEF G
  <2> QED BY <2>1, <2>2
<1>3. o.num = SumFunctionOnSet(sum, G) /\ o.den = SumFunctionOnSet(w, G)
  <2>1. o = [ num |-> SumFunction([i \in G |-> Weight(profile, comps[i].id) * comps[i].score]),
              den |-> SumFunction([i \in G |-> Weight(profile, comps[i].id)]) ]
    BY DEF OverallScore, Graded
  <2>2. [i \in G |-> Weight(profile, comps[i].id) * comps[i].score] = sum
    OBVIOUS
  <2>3. DOMAIN sum = G /\ DOMAIN w = G
    OBVIOUS
  <2>4. o.num = SumFunction(sum) /\ o.den = SumFunction(w)
    BY <2>1, <2>2
  <2> HIDE DEF o, sum, w, G
  <2> QED BY <2>3, <2>4 DEF SumFunction
<1>4. sum = [i \in G |-> w[i] * s[i]]
  OBVIOUS
<1>5. \A i \in G : s[i] = comps[i].score
  OBVIOUS
<1>6. G # {} /\ HeldBelow \in Int /\ LiftedAbove \in Int
  BY DEF HeldBelow, LiftedAbove
<1> HIDE DEF G, w, s, sum, o
<1>7. \A c \in Int :
        /\ SumFunctionOnSet(sum, G) \in Int
        /\ SumFunctionOnSet(w, G) \in Nat \ {0}
        /\ SumFunctionOnSet(sum, G) < c * SumFunctionOnSet(w, G) => \E i \in G : s[i] < c
        /\ SumFunctionOnSet(sum, G) >= c * SumFunctionOnSet(w, G)
             => (\E i \in G : s[i] > c) \/ (\A i \in G : s[i] = c)
  <2> TAKE c \in Int
  <2>1. IsFiniteSet(G) /\ G # {} /\ w \in [G -> Nat \ {0}] /\ s \in [G -> Int] /\ sum = [i \in G |-> w[i] * s[i]]
    BY <1>1, <1>2, <1>4, <1>6
  <2> QED BY ONLY <2>1, c \in Int, MeanOf
<1>8. o.num \in Int /\ o.den \in Nat \ {0}
  BY <1>3, <1>6, <1>7
<1>9. /\ GradeRank(o.num, o.den) > 2 => o.num < HeldBelow * o.den
      /\ GradeRank(o.num, o.den) < 2 => o.num >= LiftedAbove * o.den
  BY <1>8, GradeIs
<1>10. GradeRank(o.num, o.den) > 2 => \E i \in G : comps[i].score < HeldBelow
  BY <1>3, <1>5, <1>6, <1>7, <1>9
<1>11. GradeRank(o.num, o.den) < 2 => \/ \E i \in G : comps[i].score > LiftedAbove
                                      \/ \A i \in G : comps[i].score = LiftedAbove
  BY <1>3, <1>5, <1>6, <1>7, <1>9
<1> QED BY <1>10, <1>11 DEF G, o

(* The reasons name graded components on the side of B the grade is on.    *)
LEMMA ExplainIs ==
  ASSUME NEW comps, IsSeq(comps), NEW profile \in DOMAIN Weights,
         \A i \in DOMAIN comps : /\ comps[i].score \in Int
                                 /\ comps[i].graded = (comps[i].id \notin UngradedComponents)
  PROVE  LET o   == OverallScore(comps, profile)
             why == Explain(comps)
         IN  /\ GradeRank(o.num, o.den) > 2 => why.held # {} \/ why.none
             /\ GradeRank(o.num, o.den) < 2 =>
                  why.lifted # {} \/ \A comp \in Range(comps) : comp.graded => comp.score = LiftedAbove
             /\ (why.held \cup why.lifted \cup why.low) \cap UngradedComponents = {}
<1> DEFINE G == Graded(comps)
           o == OverallScore(comps, profile)
           why == Explain(comps)
           held == {comps[i].id : i \in {j \in G : Cardinality({x \in G : Below(comps, x, j)}) < 2
                                                   /\ comps[j].score < HeldBelow}}
           lifted == {comps[i].id : i \in {j \in G : Cardinality({x \in G : Below(comps, j, x)}) < 2
                                                     /\ comps[j].score > LiftedAbove}}
           low == {comps[i].id : i \in {j \in G : comps[j].confidence = "low"}}
<1>1. why.held = held /\ why.lifted = lifted /\ why.low = low /\ why.none = (G = {})
  BY DEF Explain, Graded
<1>2. Cardinality({}) < 2
  BY FS_EmptySet
<1>3. \A i \in G : i \in DOMAIN comps /\ comps[i].id \notin UngradedComponents
  BY DEF Graded
<1>4. ASSUME NEW x \in G, comps[x].score < HeldBelow
      PROVE  held # {}
  <2>1. PICK i \in G : {j \in G : Below(comps, j, i)} = {} /\ comps[i].score <= comps[x].score
    BY ExtremesExist
  <2>2. comps[i].score < HeldBelow
    BY <1>3, <1>4, <2>1 DEF HeldBelow
  <2>3. comps[i].id \in held
    BY <1>2, <2>1, <2>2
  <2> QED BY <2>3
<1>5. ASSUME NEW x \in G, comps[x].score > LiftedAbove
      PROVE  lifted # {}
  <2>1. PICK i \in G : {j \in G : Below(comps, i, j)} = {} /\ comps[i].score >= comps[x].score
    BY ExtremesExist
  <2>2. comps[i].score > LiftedAbove
    BY <1>3, <1>5, <2>1 DEF LiftedAbove
  <2>3. comps[i].id \in lifted
    BY <1>2, <2>1, <2>2
  <2> QED BY <2>3
<1>6. (held \cup lifted \cup low) \cap UngradedComponents = {}
  BY <1>3
<1> HIDE DEF held, lifted, low, why, o
<1>7. CASE G = {}
  <2>1. o.num = ZeroScore /\ o.den = 1
    BY <1>7 DEF o, OverallScore, Graded
  <2>2. ~(GradeRank(o.num, o.den) < 2)
    BY <2>1, GradeIs DEF ZeroScore, LiftedAbove
  <2> QED BY <1>1, <1>6, <1>7, <2>2 DEF why, o
<1>8. CASE G # {}
  <2>1. /\ GradeRank(o.num, o.den) > 2 => \E i \in G : comps[i].score < HeldBelow
        /\ GradeRank(o.num, o.den) < 2 =>
             \/ \E i \in G : comps[i].score > LiftedAbove
             \/ \A i \in G : comps[i].score = LiftedAbove
    BY <1>8, OverallIs DEF o
  <2>2. (\A i \in G : comps[i].score = LiftedAbove) =>
          \A comp \in Range(comps) : comp.graded => comp.score = LiftedAbove
    BY DEF Range, Graded
  <2> HIDE DEF G
  <2> QED BY <1>1, <1>4, <1>5, <1>6, <2>1, <2>2 DEF why, o
<1> QED BY <1>7, <1>8


(* -- What was measured ------------------------------------------------- *)

(* A benchmark and its subtests.                                           *)
Benchmark == [id : STRING, subtests : Seq(Subtest)]

(* part has components of raw, with some of their subtests.                *)
Part(part, raw) ==
  /\ IsSeq(part)
  /\ \A i \in DOMAIN part :
       /\ IsSeq(part[i].subtests)
       /\ \E b \in DOMAIN raw : /\ part[i].id = raw[b].id
                                /\ Range(part[i].subtests) \subseteq Range(raw[b].subtests)

(* What a run measured, as sequences of known records without repetition.  *)
LEMMA MeasuredIs ==
  ASSUME NEW raw, Measured(raw)
  PROVE  /\ raw \in Seq(Benchmark) /\ IsSeq(raw)
         /\ \A b \in DOMAIN raw : /\ raw[b] \in Benchmark /\ raw[b].subtests \in Seq(Subtest)
                                  /\ IsSeq(raw[b].subtests)
                                  /\ Range(raw[b].subtests) \subseteq Subtest
         /\ \A b, c \in DOMAIN raw : raw[b].id = raw[c].id => b = c
         /\ \A b \in DOMAIN raw : \A s, t \in Range(raw[b].subtests) : s.id = t.id => s = t
<1>1. raw \in Seq(Benchmark)
  BY DEF Measured, Benchmark
<1>2. IsSeq(raw) /\ DOMAIN raw = 1..Len(raw)
  BY <1>1, SeqIs
<1>3. \A b \in DOMAIN raw : raw[b] \in Benchmark
  BY <1>1, <1>2
<1>4. \A b \in DOMAIN raw : raw[b].subtests \in Seq(Subtest)
  BY <1>3 DEF Benchmark
<1>5. \A b \in DOMAIN raw : IsSeq(raw[b].subtests) /\ Range(raw[b].subtests) \subseteq Subtest
  BY <1>4, SeqIs
<1>6. \A b, c \in DOMAIN raw : raw[b].id = raw[c].id => b = c
  BY DEF Measured
<1>7. \A b \in DOMAIN raw : \A s, t \in Range(raw[b].subtests) : s.id = t.id => s = t
  BY DEF Measured, Range
<1> QED BY <1>1, <1>2, <1>3, <1>4, <1>5, <1>6, <1>7

(* All that was measured is a part of it.                                  *)
LEMMA WholeIsPart ==
  ASSUME NEW raw, Measured(raw)
  PROVE  Part(raw, raw)
BY MeasuredIs DEF Part

(* What a baseline covers is a part of what was measured.                  *)
LEMMA CoveredIs ==
  ASSUME NEW raw, Measured(raw), NEW baseline
  PROVE  Part(CoveredBy(raw, baseline), raw)
<1> DEFINE kept(b) == Where(raw[b].subtests, LAMBDA st : Knows(baseline, raw[b].id, st.id))
           trimmed == [b \in DOMAIN raw |-> [raw[b] EXCEPT !.subtests = kept(b)]]
           keep == [b \in DOMAIN trimmed |-> trimmed[b].subtests # <<>>]
           part == FlattenSeq([b \in DOMAIN trimmed |-> IF keep[b] THEN <<trimmed[b]>> ELSE <<>>])
<1>1. CoveredBy(raw, baseline) = part
  <2>1. CoveredBy(raw, baseline) = Where(trimmed, LAMBDA bench : bench.subtests # <<>>)
    BY Zenon DEF CoveredBy
  <2>2. Where(trimmed, LAMBDA bench : bench.subtests # <<>>)
          = FlattenSeq([b \in DOMAIN trimmed |-> IF trimmed[b].subtests # <<>> THEN <<trimmed[b]>> ELSE <<>>])
    BY Zenon DEF Where
  <2>3. [b \in DOMAIN trimmed |-> IF trimmed[b].subtests # <<>> THEN <<trimmed[b]>> ELSE <<>>]
          = [b \in DOMAIN trimmed |-> IF keep[b] THEN <<trimmed[b]>> ELSE <<>>]
    <3> HIDE DEF trimmed
    <3> QED OBVIOUS
  <2> HIDE DEF trimmed, keep
  <2> QED BY <2>1, <2>2, <2>3
<1>2. \A b \in DOMAIN raw : IsSeq(kept(b)) /\ Range(kept(b)) \subseteq Range(raw[b].subtests)
  <2> TAKE b \in DOMAIN raw
  <2> DEFINE seq == raw[b].subtests
             known == [i \in DOMAIN seq |-> Knows(baseline, raw[b].id, seq[i].id)]
             some == FlattenSeq([i \in DOMAIN seq |-> IF known[i] THEN <<seq[i]>> ELSE <<>>])
  <2>1. kept(b) = some
    <3>1. kept(b) = FlattenSeq([i \in DOMAIN seq |->
                                  IF Knows(baseline, raw[b].id, seq[i].id) THEN <<seq[i]>> ELSE <<>>])
      BY Zenon DEF Where
    <3>2. [i \in DOMAIN seq |-> IF Knows(baseline, raw[b].id, seq[i].id) THEN <<seq[i]>> ELSE <<>>]
            = [i \in DOMAIN seq |-> IF known[i] THEN <<seq[i]>> ELSE <<>>]
      OBVIOUS
    <3> QED BY <3>1, <3>2
  <2>2. IsSeq(seq)
    BY MeasuredIs
  <2>3. known \in [DOMAIN seq -> BOOLEAN]
    BY DEF Knows
  <2>4. IsSeq(some) /\ Range(some) = {seq[i] : i \in {j \in DOMAIN seq : known[j]}}
    <3> HIDE DEF known, seq
    <3> QED BY <2>2, <2>3, KeptIs
  <2>5. Range(some) \subseteq Range(seq)
    <3> HIDE DEF some, known, seq
    <3> QED BY <2>4 DEF Range
  <2> QED BY <2>1, <2>4, <2>5
<1> HIDE DEF kept
<1>3. \A b \in DOMAIN raw : trimmed[b].id = raw[b].id /\ trimmed[b].subtests = kept(b)
  <2>1. \A b \in DOMAIN raw : raw[b] \in Benchmark
    BY MeasuredIs
  <2> QED BY <2>1 DEF Benchmark
<1>4. IsSeq(trimmed) /\ DOMAIN trimmed = DOMAIN raw
  <2>1. DOMAIN raw = 1..Len(raw) /\ Len(raw) \in Nat
    BY MeasuredIs, IsSeqFacts
  <2>2. DOMAIN trimmed = DOMAIN raw /\ trimmed = [b \in DOMAIN raw |-> trimmed[b]]
    OBVIOUS
  <2>3. \A b \in DOMAIN raw : trimmed[b] \in Range(trimmed)
    BY <2>2 DEF Range
  <2> HIDE DEF trimmed
  <2> QED BY <2>1, <2>2, <2>3 DEF IsSeq
<1>5. keep \in [DOMAIN trimmed -> BOOLEAN]
  <2> HIDE DEF trimmed
  <2> QED OBVIOUS
<1>6. IsSeq(part) /\ Range(part) = {trimmed[i] : i \in {j \in DOMAIN trimmed : keep[j]}}
  <2> HIDE DEF trimmed, keep
  <2> QED BY <1>4, <1>5, KeptIs
<1> HIDE DEF trimmed, keep, part
<1>7. \A i \in DOMAIN part : \E b \in DOMAIN raw : part[i] = trimmed[b]
  <2>1. \A i \in DOMAIN part : part[i] \in Range(part)
    BY DEF Range
  <2> QED BY <1>4, <1>6, <2>1
<1>8. ASSUME NEW i \in DOMAIN part
      PROVE  /\ IsSeq(part[i].subtests)
             /\ \E b \in DOMAIN raw : /\ part[i].id = raw[b].id
                                      /\ Range(part[i].subtests) \subseteq Range(raw[b].subtests)
  <2>1. PICK b \in DOMAIN raw : part[i] = trimmed[b]
    BY <1>7
  <2>2. part[i].id = raw[b].id /\ part[i].subtests = kept(b)
    BY <1>3, <2>1
  <2> QED BY <1>2, <2>2
<1> QED BY <1>1, <1>6, <1>8 DEF Part

(* -- What a view says -------------------------------------------------- *)

(* view is the scores of part, what follows from them and why.             *)
Shows(view, part, baseline, p, k) ==
  LET comps == view.components
  IN  /\ IsSeq(comps) /\ DOMAIN comps = DOMAIN part
      /\ \A i \in DOMAIN part : comps[i] = ScoredComponent(part[i], baseline, k)
      /\ view.overall.grade = GradeRank(OverallScore(comps, p).num, OverallScore(comps, p).den)
      /\ view.overall.why = Explain(comps)

(* What scoring shows: its components in order, their grade, its reasons.  *)
LEMMA ViewIs ==
  ASSUME NEW part, IsSeq(part), NEW baseline, NEW p, NEW k
  PROVE  Shows(ScoreRun(part, baseline, p, k), part, baseline, p, k)
<1> DEFINE comps == [b \in DOMAIN part |-> ScoredComponent(part[b], baseline, k)]
           overall == OverallScore(comps, p)
<1>1. DOMAIN comps = DOMAIN part /\ \A i \in DOMAIN part : comps[i] = ScoredComponent(part[i], baseline, k)
  OBVIOUS
<1>2. IsSeq(comps)
  <2>1. DOMAIN part = 1..Len(part) /\ Len(part) \in Nat
    BY IsSeqFacts
  <2>2. comps = [i \in 1..Len(part) |-> comps[i]] /\ \A i \in DOMAIN part : comps[i] \in Range(comps)
    BY <2>1 DEF Range
  <2> HIDE DEF comps
  <2> QED BY <2>1, <2>2 DEF IsSeq
<1>3. ScoreRun(part, baseline, p, k) =
        [ components |-> comps,
          overall    |-> [ score |-> overall,
                           grade |-> GradeRank(overall.num, overall.den),
                           profile |-> p,
                           why   |-> Explain(comps) ] ]
  BY Zenon DEF ScoreRun
<1> HIDE DEF comps, overall
<1>4. /\ ScoreRun(part, baseline, p, k).components = comps
      /\ ScoreRun(part, baseline, p, k).overall.grade = GradeRank(overall.num, overall.den)
      /\ ScoreRun(part, baseline, p, k).overall.why = Explain(comps)
  BY <1>3
<1>5. /\ IsSeq(comps) /\ DOMAIN comps = DOMAIN part
      /\ \A i \in DOMAIN part : comps[i] = ScoredComponent(part[i], baseline, k)
  BY <1>1, <1>2 DEF comps
<1> QED BY <1>4, <1>5 DEF overall, Shows

(* A component that rests on an outcome of lowered trust is not trusted. *)
LEMMA ViewTrust ==
  ASSUME NEW raw, Measured(raw), NEW part, Part(part, raw), NEW baseline, NEW p, NEW k,
         NEW comp \in Range(ScoreRun(part, baseline, p, k).components),
         NEW b \in DOMAIN raw, comp.id = raw[b].id,
         NEW st \in Range(raw[b].subtests), st.confidence # "high",
         NEW sub \in Range(comp.subtests), sub.id = st.id
  PROVE  comp.confidence # "high"
<1>1. PICK i \in DOMAIN part : comp = ScoredComponent(part[i], baseline, k)
  <2>1. IsSeq(part)
    BY DEF Part
  <2>2. Shows(ScoreRun(part, baseline, p, k), part, baseline, p, k)
    BY <2>1, ViewIs
  <2> DEFINE comps == ScoreRun(part, baseline, p, k).components
  <2>3. comp \in Range(comps) /\ DOMAIN comps = DOMAIN part
        /\ \A i \in DOMAIN part : comps[i] = ScoredComponent(part[i], baseline, k)
    BY <2>2 DEF Shows
  <2> HIDE DEF comps
  <2> QED BY <2>3 DEF Range
<1>2. PICK c \in DOMAIN raw : /\ IsSeq(part[i].subtests)
                              /\ part[i].id = raw[c].id
                              /\ Range(part[i].subtests) \subseteq Range(raw[c].subtests)
  BY DEF Part
<1>3. Range(raw[c].subtests) \subseteq Subtest
  BY MeasuredIs
<1>4. \A s \in Range(part[i].subtests) : s.scored \in BOOLEAN /\ s.confidence \in Confidences
  <2>1. \A s \in Subtest : s.scored \in BOOLEAN /\ s.confidence \in Confidences
    BY DEF Subtest, Confidences
  <2> QED BY <1>2, <1>3, <2>1
<1>5. /\ comp.id = part[i].id /\ IsSeq(comp.subtests)
      /\ \A s \in Range(comp.subtests) : \E t \in Range(part[i].subtests) :
           t.scored /\ s = ScoredSubtest(part[i].id, t, baseline, k)
      /\ comp.confidence = Weakest({comp.subtests[j].confidence : j \in DOMAIN comp.subtests})
  <2>1. Describes(comp, part[i], baseline, k)
    BY <1>1, <1>2, <1>4, ComponentIs
  <2> QED BY <2>1 DEF Describes
<1>6. c = b
  BY <1>2, <1>5, MeasuredIs
<1>7. PICK t \in Range(part[i].subtests) : sub = ScoredSubtest(part[i].id, t, baseline, k)
  BY <1>5
<1>8. sub.id = t.id /\ sub.confidence = t.confidence
  BY <1>7 DEF ScoredSubtest
<1>9. t = st
  <2>1. t \in Range(raw[b].subtests)
    BY <1>2, <1>6, <1>7
  <2>2. \A u, v \in Range(raw[b].subtests) : u.id = v.id => u = v
    BY MeasuredIs
  <2> QED BY <1>8, <2>1, <2>2
<1>10. \A s \in Range(comp.subtests) : s.confidence \in Confidences
  <2> SUFFICES ASSUME NEW s \in Range(comp.subtests) PROVE s.confidence \in Confidences
    OBVIOUS
  <2>1. PICK u \in Range(part[i].subtests) : s = ScoredSubtest(part[i].id, u, baseline, k)
    BY <1>5
  <2>2. s.confidence = u.confidence
    BY <2>1 DEF ScoredSubtest
  <2> QED BY <1>4, <2>2
<1> DEFINE cs == {comp.subtests[j].confidence : j \in DOMAIN comp.subtests}
<1>11. cs \in SUBSET Confidences /\ sub.confidence \in cs
  BY <1>10 DEF Range
<1>12. sub.confidence # "high"
  BY <1>8, <1>9
<1> HIDE DEF cs
<1>13. Weakest(cs) # "high"
  BY <1>11, <1>12, WeakestIs
<1> QED BY <1>5, <1>13 DEF cs

(* The values whose logarithm is known.                                    *)
Known(raw) ==
  \A b \in DOMAIN raw : \A st \in Range(raw[b].subtests) : st.value \in {0} \cup DOMAIN Log

(* A baseline's references are integers.                                   *)
IntBaseline(b) == \A key \in DOMAIN b.ref : b.ref[key] \in Int

(* What WhyExplainsGrade says of one view.                                 *)
Explained(view) ==
  LET why  == view.overall.why
  IN  /\ view.overall.grade > 2 => why.held # {} \/ why.none
      /\ view.overall.grade < 2 =>
           why.lifted # {} \/ \A comp \in Range(view.components) : comp.graded => comp.score = LiftedAbove
      /\ (why.held \cup why.lifted \cup why.low) \cap UngradedComponents = {}

(* The reasons of a view explain its grade.                                *)
LEMMA ViewExplains ==
  ASSUME NEW raw, Measured(raw), Known(raw), NEW part, Part(part, raw), NEW baseline, IntBaseline(baseline),
         NEW p \in DOMAIN Weights, NEW k \in Int, CanScore(part, baseline, k)
  PROVE  Explained(ScoreRun(part, baseline, p, k))
<1>0. IsSeq(part)
  BY DEF Part
<1>1. ASSUME NEW i \in DOMAIN part
      PROVE  /\ ScoredComponent(part[i], baseline, k).score \in Int
             /\ ScoredComponent(part[i], baseline, k).graded
                  = (ScoredComponent(part[i], baseline, k).id \notin UngradedComponents)
  <2> DEFINE comp == ScoredComponent(part[i], baseline, k)
  <2>1. PICK c \in DOMAIN raw : /\ IsSeq(part[i].subtests)
                                /\ part[i].id = raw[c].id
                                /\ Range(part[i].subtests) \subseteq Range(raw[c].subtests)
    BY DEF Part
  <2>2. \A s \in Range(part[i].subtests) : s \in Subtest /\ s.scored \in BOOLEAN /\ s.value \in {0} \cup DOMAIN Log
    <3>1. \A s \in Subtest : s.scored \in BOOLEAN
      BY DEF Subtest
    <3>2. Range(raw[c].subtests) \subseteq Subtest
      BY MeasuredIs
    <3> QED BY <2>1, <3>1, <3>2 DEF Known
  <2>3. /\ comp.id = part[i].id /\ comp.graded = (part[i].id \notin UngradedComponents)
        /\ IsSeq(comp.subtests)
        /\ \A s \in Range(comp.subtests) : \E t \in Range(part[i].subtests) :
             t.scored /\ s = ScoredSubtest(part[i].id, t, baseline, k)
        /\ comp.score = MeanScore([j \in DOMAIN comp.subtests |-> comp.subtests[j].score])
    <3>1. Describes(comp, part[i], baseline, k)
      BY <2>1, <2>2, ComponentIs
    <3> HIDE DEF comp
    <3> QED BY <3>1 DEF Describes
  <2>4. ASSUME NEW t \in Range(part[i].subtests), t.scored
        PROVE  ScoredSubtest(part[i].id, t, baseline, k).score \in Int
    <3>1. Knows(baseline, part[i].id, t.id) /\ t.value > 0
      <4>1. \A j \in DOMAIN part[i].subtests : LET st == part[i].subtests[j]
                                               IN  st.scored => Knows(baseline, part[i].id, st.id) /\ st.value > 0
        BY DEF CanScore, Scorable
      <4> QED BY <2>4, <4>1 DEF Range
    <3>2. t.value \in DOMAIN Log
      BY <2>2, <3>1
    <3>3. Log[t.value] \in Int
      BY <3>2, ScoringAssumption
    <3>4. baseline.ref[<<part[i].id, t.id>>] \in Int
      BY <3>1 DEF Knows, IntBaseline
    <3> DEFINE r == Oriented(t.dir, Log[t.value] - baseline.ref[<<part[i].id, t.id>>])
    <3>5. r \in Int
      BY <3>3, <3>4 DEF Oriented
    <3>6. ScoredSubtest(part[i].id, t, baseline, k)
            = [id |-> t.id, ratio |-> r, score |-> k * r, confidence |-> t.confidence]
      BY Zenon DEF ScoredSubtest
    <3> HIDE DEF r
    <3>7. ScoredSubtest(part[i].id, t, baseline, k).score = k * r
      BY <3>6
    <3> QED BY <3>5, <3>7
  <2> HIDE DEF comp
  <2>5. \A j \in DOMAIN comp.subtests : comp.subtests[j].score \in Int
    <3> SUFFICES ASSUME NEW j \in DOMAIN comp.subtests PROVE comp.subtests[j].score \in Int
      OBVIOUS
    <3>1. comp.subtests[j] \in Range(comp.subtests)
      BY DEF Range
    <3>2. PICK t \in Range(part[i].subtests) : t.scored /\ comp.subtests[j] = ScoredSubtest(part[i].id, t, baseline, k)
      BY <2>3, <3>1
    <3> QED BY <2>4, <3>2
  <2> DEFINE scores == [j \in DOMAIN comp.subtests |-> comp.subtests[j].score]
  <2>6. IsSeq(scores) /\ \A j \in DOMAIN scores : scores[j] \in Int
    <3>1. DOMAIN comp.subtests = 1..Len(comp.subtests) /\ Len(comp.subtests) \in Nat
      BY <2>3, IsSeqFacts
    <3>2. /\ scores = [j \in 1..Len(comp.subtests) |-> scores[j]]
          /\ \A j \in DOMAIN comp.subtests : scores[j] \in Range(scores) /\ scores[j] \in Int
      BY <2>5, <3>1 DEF Range
    <3>3. DOMAIN scores = DOMAIN comp.subtests
      OBVIOUS
    <3> HIDE DEF scores
    <3>4. PICK n \in Nat : DOMAIN scores = 1..n /\ scores = [j \in 1..n |-> scores[j]]
      BY <3>1, <3>2, <3>3
    <3>5. \A j \in 1..n : scores[j] \in Range(scores)
      BY <3>2, <3>3, <3>4
    <3>6. scores \in Seq(Range(scores))
      BY <3>4, <3>5
    <3> QED BY <3>2, <3>3, <3>6 DEF IsSeq
  <2>7. comp.score \in Int
    <3> HIDE DEF scores
    <3>1. MeanScore(scores) \in Int
      BY <2>6, MeanIs
    <3> QED BY <2>3, <3>1 DEF scores
  <2> QED BY <2>3, <2>7 DEF comp
<1> DEFINE comps == ScoreRun(part, baseline, p, k).components
<1>2. /\ IsSeq(comps) /\ DOMAIN comps = DOMAIN part
      /\ \A i \in DOMAIN part : comps[i] = ScoredComponent(part[i], baseline, k)
      /\ ScoreRun(part, baseline, p, k).overall.grade
           = GradeRank(OverallScore(comps, p).num, OverallScore(comps, p).den)
      /\ ScoreRun(part, baseline, p, k).overall.why = Explain(comps)
  BY <1>0, ViewIs DEF Shows
<1>3. \A i \in DOMAIN comps : comps[i].score \in Int /\ comps[i].graded = (comps[i].id \notin UngradedComponents)
  BY <1>1, <1>2
<1> HIDE DEF comps
<1>4. LET o   == OverallScore(comps, p)
          why == Explain(comps)
      IN  /\ GradeRank(o.num, o.den) > 2 => why.held # {} \/ why.none
          /\ GradeRank(o.num, o.den) < 2 =>
               why.lifted # {} \/ \A comp \in Range(comps) : comp.graded => comp.score = LiftedAbove
          /\ (why.held \cup why.lifted \cup why.low) \cap UngradedComponents = {}
  BY <1>2, <1>3, ExplainIs
<1> DEFINE view == ScoreRun(part, baseline, p, k)
<1>5. /\ view.overall.grade = GradeRank(OverallScore(comps, p).num, OverallScore(comps, p).den)
      /\ view.overall.why = Explain(comps) /\ view.components = comps
  BY <1>2 DEF comps
<1> HIDE DEF view
<1>6. Explained(view)
  BY <1>4, <1>5 DEF Explained
<1> QED BY <1>6 DEF view

(* No peak is fully trusted.                                               *)
Lowered(raw) == \A b \in DOMAIN raw : \A st \in Range(raw[b].subtests) : st.rep = "peak" => st.confidence # "high"

(* Lowering confidences changes nothing else, and a limited run has no     *)
(* trusted peak afterwards.                                                *)
LEMMA LoweringKeeps ==
  ASSUME NEW raw, Measured(raw), Known(raw), NEW telemetry
  PROVE  /\ Measured(DowngradeThermallyLimited(raw, telemetry))
         /\ Known(DowngradeThermallyLimited(raw, telemetry))
         /\ telemetry.limited => Lowered(DowngradeThermallyLimited(raw, telemetry))
<1> DEFINE low(b, i) == TrustedLess(raw[b].subtests[i])
           peak(b, i) == telemetry.limited /\ raw[b].subtests[i].rep = "peak"
           subs(b) == [i \in DOMAIN raw[b].subtests |-> IF peak(b, i) THEN low(b, i) ELSE raw[b].subtests[i]]
           after == [b \in DOMAIN raw |-> [raw[b] EXCEPT !.subtests = subs(b)]]
<1>1. DowngradeThermallyLimited(raw, telemetry) = after
  BY Zenon DEF DowngradeThermallyLimited
<1>2. \A b \in DOMAIN raw : raw[b].subtests \in Seq(Subtest)
  BY MeasuredIs
<1>3. \A b \in DOMAIN raw : \A i \in DOMAIN raw[b].subtests : raw[b].subtests[i] \in Subtest
  BY <1>2
<1>4. ASSUME NEW b \in DOMAIN raw, NEW i \in DOMAIN raw[b].subtests
      PROVE  /\ low(b, i) \in Subtest
             /\ low(b, i).id = raw[b].subtests[i].id
             /\ low(b, i).value = raw[b].subtests[i].value
             /\ low(b, i).confidence # "high"
  <2> DEFINE st == raw[b].subtests[i]
             c  == Downgraded(st.confidence)
  <2>1. c \in {"high", "medium", "low"} /\ c # "high"
    BY DEF Downgraded
  <2>2. st \in Subtest
    BY <1>3
  <2> HIDE DEF st, c
  <2> DEFINE new == [st EXCEPT !.confidence = c]
  <2>3. new \in Subtest /\ new.id = st.id /\ new.value = st.value /\ new.confidence = c
    BY <2>1, <2>2 DEF Subtest
  <2>4. low(b, i) = new
    BY DEF st, c, TrustedLess
  <2> HIDE DEF low, new
  <2> QED BY <2>1, <2>3, <2>4 DEF st
<1> HIDE DEF low
<1>5. ASSUME NEW b \in DOMAIN raw
      PROVE  /\ DOMAIN subs(b) = DOMAIN raw[b].subtests
             /\ subs(b) \in Seq(Subtest)
             /\ \A i \in DOMAIN subs(b) : /\ subs(b)[i].id = raw[b].subtests[i].id
                                          /\ subs(b)[i].value = raw[b].subtests[i].value
             /\ telemetry.limited => \A i \in DOMAIN subs(b) : subs(b)[i].rep = "peak" => subs(b)[i].confidence # "high"
  <2> DEFINE new == subs(b)
  <2>1. DOMAIN new = DOMAIN raw[b].subtests
    OBVIOUS
  <2>2. \A i \in DOMAIN raw[b].subtests : /\ new[i] \in Subtest
                                          /\ new[i].id = raw[b].subtests[i].id
                                          /\ new[i].value = raw[b].subtests[i].value
    BY <1>3, <1>4
  <2>3. ASSUME telemetry.limited, NEW i \in DOMAIN raw[b].subtests, new[i].rep = "peak"
        PROVE  new[i].confidence # "high"
    <3>1. CASE peak(b, i)
      <4>1. new[i] = low(b, i)
        BY <3>1
      <4> QED BY <1>4, <4>1
    <3>2. CASE ~peak(b, i)
      <4>1. new[i] = raw[b].subtests[i]
        BY <3>2
      <4> QED BY <2>3, <3>2, <4>1
    <3> QED BY <3>1, <3>2
  <2>4. \E n \in Nat : DOMAIN raw[b].subtests = 1..n
    BY <1>2
  <2>5. new = [i \in DOMAIN raw[b].subtests |-> new[i]]
    BY <2>1
  <2> HIDE DEF new
  <2>6. new \in Seq(Subtest)
    BY <2>1, <2>2, <2>4, <2>5
  <2> QED BY <2>1, <2>2, <2>3, <2>6 DEF new
<1> HIDE DEF subs
<1>6. \A b \in DOMAIN raw : after[b] \in Benchmark /\ after[b].id = raw[b].id /\ after[b].subtests = subs(b)
  <2>1. \A b \in DOMAIN raw : raw[b] \in Benchmark
    BY MeasuredIs
  <2> QED BY <1>5, <2>1 DEF Benchmark
<1>7. after \in Seq(Benchmark) /\ DOMAIN after = DOMAIN raw
  <2>1. \E n \in Nat : DOMAIN raw = 1..n
    BY MeasuredIs, IsSeqFacts
  <2>2. DOMAIN after = DOMAIN raw /\ after = [b \in DOMAIN raw |-> after[b]]
    OBVIOUS
  <2> HIDE DEF after
  <2> QED BY <1>6, <2>1, <2>2
<1> HIDE DEF after
<1>8. Measured(after)
  <2>1. after \in Seq([id : STRING, subtests : Seq(Subtest)])
    BY <1>7 DEF Benchmark
  <2>2. \A b, c \in DOMAIN after : after[b].id = after[c].id => b = c
    BY <1>6, <1>7, MeasuredIs
  <2>3. ASSUME NEW b \in DOMAIN after, NEW i \in DOMAIN after[b].subtests, NEW j \in DOMAIN after[b].subtests,
               after[b].subtests[i].id = after[b].subtests[j].id
        PROVE  i = j
    <3>1. after[b].subtests = subs(b) /\ b \in DOMAIN raw
      BY <1>6, <1>7
    <3>2. raw[b].subtests[i].id = raw[b].subtests[j].id
      BY <1>5, <2>3, <3>1
    <3>3. i \in DOMAIN raw[b].subtests /\ j \in DOMAIN raw[b].subtests
      BY <1>5, <3>1
    <3> QED BY <3>1, <3>2, <3>3 DEF Measured
  <2> QED BY <2>1, <2>2, <2>3 DEF Measured
<1>9. Known(after)
  <2> SUFFICES ASSUME NEW b \in DOMAIN after, NEW st \in Range(after[b].subtests)
               PROVE  st.value \in {0} \cup DOMAIN Log
    BY DEF Known
  <2>1. after[b].subtests = subs(b) /\ b \in DOMAIN raw
    BY <1>6, <1>7
  <2>2. PICK i \in DOMAIN subs(b) : st = subs(b)[i]
    BY <2>1 DEF Range
  <2>3. i \in DOMAIN raw[b].subtests /\ st.value = raw[b].subtests[i].value
    BY <1>5, <2>1, <2>2
  <2>4. raw[b].subtests[i] \in Range(raw[b].subtests)
    BY <2>3 DEF Range
  <2> QED BY <2>1, <2>3, <2>4 DEF Known
<1>10. ASSUME telemetry.limited
       PROVE  Lowered(after)
  <2> SUFFICES ASSUME NEW b \in DOMAIN after, NEW st \in Range(after[b].subtests), st.rep = "peak"
               PROVE  st.confidence # "high"
    BY DEF Lowered
  <2>1. after[b].subtests = subs(b) /\ b \in DOMAIN raw
    BY <1>6, <1>7
  <2>2. PICK i \in DOMAIN subs(b) : st = subs(b)[i]
    BY <2>1 DEF Range
  <2> QED BY <1>5, <1>10, <2>1, <2>2
<1> QED BY <1>1, <1>8, <1>9, <1>10

(* -- What can be scored ------------------------------------------------ *)

(* The scored values have a logarithm.                                     *)
Positive(raw) ==
  \A b \in DOMAIN raw : \A st \in Range(raw[b].subtests) : st.scored => st.value \in DOMAIN Log

(* What can be scored has no zero among its scored values.                 *)
LEMMA ScorableIs ==
  ASSUME NEW raw, Known(raw), NEW baseline, NEW k, CanScore(raw, baseline, k)
  PROVE  Positive(raw)
<1> SUFFICES ASSUME NEW b \in DOMAIN raw, NEW st \in Range(raw[b].subtests), st.scored
             PROVE  st.value \in DOMAIN Log
  BY DEF Positive
<1>1. Scorable(raw[b], baseline)
  BY DEF CanScore
<1>2. PICK i \in DOMAIN raw[b].subtests : st = raw[b].subtests[i]
  BY DEF Range
<1>3. st.value > 0
  BY <1>1, <1>2 DEF Scorable
<1>4. st.value \in {0} \cup DOMAIN Log
  BY DEF Known
<1> QED BY <1>3, <1>4

(* A baseline of files has an integer for each of its subtests.            *)
LEMMA FleetIsInt ==
  ASSUME NEW raws, IsFiniteSet(DOMAIN raws),
         \A f \in DOMAIN raws : Measured(raws[f]) /\ Positive(raws[f]), NEW name
  PROVE  IntBaseline(BaselineFromResults(raws, name))
<1> DEFINE keys == UNION {SubtestKeys(raws[f]) : f \in DOMAIN raws}
           mean(key) == LET vs == ValuesOf(raws, key[1], key[2])
                        IN  SumFunction(vs) \div Cardinality(DOMAIN vs)
           ref == [key \in keys |-> mean(key)]
<1>1. BaselineFromResults(raws, name) = [name |-> name, ref |-> ref]
  BY Zenon DEF BaselineFromResults
<1>2. ASSUME NEW key \in keys
      PROVE  mean(key) \in Int
  <2>1. PICK g \in DOMAIN raws : key \in SubtestKeys(raws[g])
    OBVIOUS
  <2>2. PICK b \in DOMAIN raws[g] : key \in {<<raws[g][b].id, raws[g][b].subtests[i].id>> :
                                         i \in {j \in DOMAIN raws[g][b].subtests : raws[g][b].subtests[j].scored}}
    BY <2>1 DEF SubtestKeys
  <2>3. PICK i \in DOMAIN raws[g][b].subtests :
          raws[g][b].subtests[i].scored /\ key = <<raws[g][b].id, raws[g][b].subtests[i].id>>
    BY <2>2
  <2> DEFINE c == key[1]
             s == key[2]
             has(f) == \E d \in DOMAIN raws[f] :
                         /\ raws[f][d].id = c
                         /\ \E j \in DOMAIN raws[f][d].subtests :
                              raws[f][d].subtests[j].id = s /\ raws[f][d].subtests[j].scored
             at(f) == CHOOSE d \in DOMAIN raws[f] : raws[f][d].id = c
             sub(f) == CHOOSE j \in DOMAIN raws[f][at(f)].subtests : raws[f][at(f)].subtests[j].id = s
             value(f) == Log[raws[f][at(f)].subtests[sub(f)].value]
             some == {f \in DOMAIN raws : has(f)}
             vs == [f \in some |-> value(f)]
  <2>4. ValuesOf(raws, c, s) = vs
    BY Zenon DEF ValuesOf
  <2>5. c = raws[g][b].id /\ s = raws[g][b].subtests[i].id
    BY <2>3
  <2> HIDE DEF c, s
  <2>6. g \in some
    BY <2>3, <2>5
  <2>7. ASSUME NEW f \in some
        PROVE  value(f) \in Int
    <3>1. PICK d \in DOMAIN raws[f] :
            /\ raws[f][d].id = c
            /\ \E j \in DOMAIN raws[f][d].subtests :
                 raws[f][d].subtests[j].id = s /\ raws[f][d].subtests[j].scored
      OBVIOUS
    <3>2. PICK j \in DOMAIN raws[f][d].subtests :
            raws[f][d].subtests[j].id = s /\ raws[f][d].subtests[j].scored
      BY <3>1
    <3>3. at(f) = d
      <4>1. \A x, y \in DOMAIN raws[f] : raws[f][x].id = raws[f][y].id => x = y
        BY DEF Measured
      <4> QED BY <3>1, <4>1
    <3> HIDE DEF at
    <3>4. sub(f) = j
      <4>1. \A x, y \in DOMAIN raws[f][d].subtests :
              raws[f][d].subtests[x].id = raws[f][d].subtests[y].id => x = y
        BY DEF Measured
      <4>2. sub(f) = CHOOSE x \in DOMAIN raws[f][d].subtests : raws[f][d].subtests[x].id = s
        BY <3>3
      <4> HIDE DEF sub
      <4> QED BY <3>2, <4>1, <4>2
    <3> HIDE DEF sub
    <3>5. raws[f][d].subtests[j] \in Range(raws[f][d].subtests)
      BY DEF Range
    <3>6. raws[f][d].subtests[j].value \in DOMAIN Log
      BY <3>1, <3>2, <3>5 DEF Positive
    <3>7. Log[raws[f][d].subtests[j].value] \in Int
      BY <3>6, ScoringAssumption
    <3> QED BY <3>3, <3>4, <3>7
  <2>8. IsFiniteSet(some)
    <3>1. some \subseteq DOMAIN raws
      OBVIOUS
    <3> HIDE DEF some
    <3> QED BY <3>1, FS_Subset
  <2>9. DOMAIN vs = some /\ \A f \in some : vs[f] \in Int
    BY <2>7
  <2> HIDE DEF some, vs
  <2>10. SumFunction(vs) \in Int
    <3>1. SumFunctionOnSet(vs, some) \in Int
      BY <2>8, <2>9, SumIs
    <3> QED BY <2>9, <3>1 DEF SumFunction
  <2>11. Cardinality(some) \in Nat \ {0}
    BY <2>6, <2>8, FS_CardinalityType, FS_EmptySet
  <2>12. \A x \in Int, n \in Nat \ {0} : x \div n \in Int
    OBVIOUS
  <2>13. mean(key) = SumFunction(vs) \div Cardinality(DOMAIN vs)
    BY <2>4 DEF c, s
  <2> HIDE DEF mean
  <2> QED BY <2>9, <2>10, <2>11, <2>12, <2>13
<1> HIDE DEF keys, mean
<1>3. \A key \in DOMAIN ref : ref[key] \in Int
  BY <1>2
<1> HIDE DEF ref
<1> QED BY <1>1, <1>3 DEF IntBaseline

(* -- The invariant of files, their measurements and their scores -------- *)

(* What a run wrote: sound measurements, with their scored values positive *)
(* and, when the clock had fallen, no peak fully trusted and a note of it. *)
RunSound(f) ==
  /\ Measured(f.raw) /\ Known(f.raw) /\ Positive(f.raw)
  /\ f.telemetry.limited =>
       /\ Lowered(f.raw)
       /\ (\E b \in DOMAIN f.raw : \E st \in Range(f.raw[b].subtests) : st.rep = "peak") => f.notes

(* What a file shows is its own measurements, all of them or those the     *)
(* baseline covers, scored against a baseline that can score them.         *)
ScoredBy(f, b) ==
  \E part \in {f.raw, CoveredBy(f.raw, b)} :
    /\ CanScore(part, b, f.config.curve_k)
    /\ f.view = ScoreRun(part, b, f.config.profile, f.config.curve_k)

(* Every file as its run wrote it, and every baseline, is sound.           *)
RunsSound == \A i \in 1..Len(origin) : RunSound(origin[i])
IntBaselines == \A b \in Baselines : IntBaseline(b)
(* Every file shows its own measurements.                                  *)
Viewed ==
  \A i \in 1..Len(files) :
    /\ files[i].config.profile \in DOMAIN Weights /\ files[i].config.curve_k \in Int
    /\ \E b \in Baselines : ScoredBy(files[i], b)

(* The invariant of a fleet's files.                                       *)
ResultsInv == IInv /\ RunsSound /\ IntBaselines /\ Viewed

(* A re-score keeps the measurements and the notes.                        *)
LEMMA RescoredKeeps ==
  ASSUME NEW f, IsFile(f), NEW b, NEW p, NEW c
  PROVE  /\ Rescored(f, b, p, c).raw = f.raw /\ Rescored(f, b, p, c).notes = f.notes
         /\ Rescored(f, b, p, c).view = ScoreRun(CoveredBy(f.raw, b), b, p, c)
<1>1. PICK cpu, name, profile, k, preset, isa, raw, view, notes, soak, model_ref, telemetry :
        f = File(cpu, Config(name, profile, k, preset, isa), raw, view, notes, soak, model_ref, telemetry)
  BY DEF IsFile
<1>2. Rescored(f, b, p, c) = File(cpu, Config(b.name, p, c, preset, isa), raw,
                                  ScoreRun(CoveredBy(raw, b), b, p, c), notes, soak, <<>>, NoTelemetry)
  BY <1>1, RescoredIs
<1>3. f.raw = raw /\ f.notes = notes
  BY <1>1 DEF File
<1> QED BY <1>2, <1>3 DEF File

(* The measurements and the notes of a file are those its run wrote.       *)
LEMMA FilesKeep ==
  ASSUME IInv
  PROVE  /\ Len(files) = Len(origin) /\ Len(files) \in Nat /\ DOMAIN files = 1..Len(files)
         /\ \A i \in 1..Len(files) : /\ IsFile(files[i]) /\ IsFile(origin[i])
                                     /\ files[i].raw = origin[i].raw /\ files[i].notes = origin[i].notes
<1>1. Len(files) = Len(origin) /\ Len(files) \in Nat /\ DOMAIN files = 1..Len(files)
  BY LenProperties DEF IInv, Sequences
<1>2. ASSUME NEW i \in 1..Len(files)
      PROVE  /\ IsFile(files[i]) /\ IsFile(origin[i])
             /\ files[i].raw = origin[i].raw /\ files[i].notes = origin[i].notes
  <2>1. IsFile(origin[i])
    BY <1>1 DEF IInv, Written
  <2>2. CASE files[i] # origin[i]
    <3>1. PICK b \in Baselines : \E p, c : files[i] = Rescored(origin[i], b, p, c)
      BY <2>2 DEF IInv, OneRescoreAway
    <3>2. PICK p, c : files[i] = Rescored(origin[i], b, p, c)
      BY <3>1
    <3> QED BY <2>1, <3>2, RescoredKeeps, RescoredIsFile
  <2> QED BY <2>1, <2>2
<1> QED BY <1>1, <1>2

(* What a run writes.                                                      *)
LEMMA WrittenIs ==
  ASSUME NEW trial \in Trials, WriteResult(trial)
  PROVE  \E file : /\ files' = Append(files, file) /\ origin' = Append(origin, file)
                   /\ RunSound(file)
                   /\ file.config.profile \in DOMAIN Weights /\ file.config.curve_k \in Int
                   /\ ScoredBy(file, Reference)
<1> DEFINE t    == FromSamples(trial.polls)
           raw  == DowngradeThermallyLimited(trial.raw, t)
           view == ScoreRun(raw, Reference, trial.profile, trial.curve_k)
           note == ThermalNote(raw, t)
           refs == ModelRefs(trial.cpu, raw, trial.isa)
           config == Config(Reference.name, trial.profile, trial.curve_k, trial.duration_preset, trial.isa)
           file == File(trial.cpu, config, raw, view, note, trial.soak, refs, t)
<1>1. files' = Append(files, file) /\ origin' = Append(origin, file) /\ CanScore(raw, Reference, trial.curve_k)
  BY DEF WriteResult, File, Config, ConfigOf
<1>2. Measured(trial.raw) /\ Known(trial.raw) /\ trial.profile \in DOMAIN Weights /\ trial.curve_k \in Int
  BY TrialsAssumption DEF Known
<1> HIDE DEF t
<1>3. Measured(raw) /\ Known(raw) /\ (t.limited => Lowered(raw))
  BY <1>2, LoweringKeeps
<1> HIDE DEF raw
<1>4. Positive(raw)
  BY <1>1, <1>3, ScorableIs
<1>5. t.limited /\ (\E b \in DOMAIN raw : \E st \in Range(raw[b].subtests) : st.rep = "peak") => note
  BY DEF ThermalNote, Range
<1>6. config.profile = trial.profile /\ config.curve_k = trial.curve_k
  BY DEF Config
<1> HIDE DEF note, config, refs
<1>7. file.raw = raw /\ file.telemetry = t /\ file.notes = note /\ file.view = view /\ file.config = config
  BY DEF File
<1> HIDE DEF file
<1>8. RunSound(file)
  BY <1>3, <1>4, <1>5, <1>7 DEF RunSound
<1>9. ScoredBy(file, Reference)
  BY <1>1, <1>6, <1>7 DEF ScoredBy
<1> QED BY <1>1, <1>2, <1>6, <1>7, <1>8, <1>9

(* Writing a file keeps the invariant.                                     *)
LEMMA WriteSound ==
  ASSUME ResultsInv, NEW trial \in Trials, WriteResult(trial)
  PROVE  ResultsInv'
<1>1. PICK file : /\ files' = Append(files, file) /\ origin' = Append(origin, file)
                  /\ RunSound(file)
                  /\ file.config.profile \in DOMAIN Weights /\ file.config.curve_k \in Int
                  /\ ScoredBy(file, Reference)
  BY WrittenIs
<1>2. PICK S : files \in Seq(S) /\ origin \in Seq(S) /\ Len(files) = Len(origin)
  BY DEF ResultsInv, IInv, Sequences
<1> DEFINE T == S \cup {file}
<1>3. files \in Seq(T) /\ origin \in Seq(T) /\ file \in T
  BY <1>2, SeqMonotonic
<1> HIDE DEF T
<1>4. /\ Len(files') = Len(files) + 1 /\ Len(origin') = Len(origin) + 1
      /\ Len(files) \in Nat /\ Len(origin) \in Nat
      /\ \A i \in 1..Len(files) : files'[i] = files[i] /\ origin'[i] = origin[i]
      /\ files'[Len(files) + 1] = file /\ origin'[Len(origin) + 1] = file
  BY <1>1, <1>2, <1>3, AppendProperties, LenProperties
<1>5. \A i \in 1..Len(files') : i \in 1..Len(files) \/ i = Len(files) + 1
  BY <1>4
<1>6. fleet' = fleet /\ Baselines' = Baselines
  BY DEF WriteResult, Baselines
<1>7. RunsSound'
  <2> SUFFICES ASSUME NEW i \in 1..Len(origin') PROVE RunSound(origin'[i])
    BY DEF RunsSound, RunSound, Measured, Known, Positive, Lowered
  <2> QED BY <1>1, <1>2, <1>4, <1>5 DEF ResultsInv, RunsSound
<1>8. IntBaselines'
  BY <1>6 DEF ResultsInv, IntBaselines
<1>9. Viewed'
  <2>1. Reference \in Baselines
    BY DEF Baselines
  <2>2. ASSUME NEW i \in 1..Len(files')
        PROVE  /\ files'[i].config.profile \in DOMAIN Weights /\ files'[i].config.curve_k \in Int
               /\ \E b \in Baselines : ScoredBy(files'[i], b)
    <3>1. CASE i \in 1..Len(files)
      BY <1>4, <3>1 DEF ResultsInv, Viewed
    <3>2. CASE i = Len(files) + 1
      BY <1>1, <1>4, <2>1, <3>2
    <3> QED BY <1>5, <3>1, <3>2
  <2> QED BY <1>6, <2>2 DEF Viewed
<1> QED BY <1>7, <1>8, <1>9, WriteKeeps DEF ResultsInv

(* Re-scoring a file keeps the invariant.                                  *)
LEMMA RescoreSound ==
  ASSUME ResultsInv, NEW i \in DOMAIN files, NEW b \in Baselines, NEW p \in Profiles, NEW c \in Curves,
         Rescore(i, b, p, c)
  PROVE  ResultsInv'
<1> DEFINE new == Rescored(files[i], b, p, c)
<1>1. /\ files' = [files EXCEPT ![i] = new] /\ fleet' = fleet /\ origin' = origin
      /\ CanScore(CoveredBy(files[i].raw, b), b, c)
  BY DEF Rescore
<1>2. PICK S : files \in Seq(S) /\ origin \in Seq(S) /\ Len(files) = Len(origin)
  BY DEF ResultsInv, IInv, Sequences
<1>3. IsFile(files[i]) /\ i \in 1..Len(files)
  BY FilesKeep DEF ResultsInv
<1>4. /\ new.raw = files[i].raw /\ new.view = ScoreRun(CoveredBy(files[i].raw, b), b, p, c)
      /\ new.config.profile = p /\ new.config.curve_k = c
  BY <1>3, RescoredKeeps, RescoredIsFile
<1>5. p \in DOMAIN Weights /\ c \in Int
  BY ResultsAssumption
<1> HIDE DEF new
<1>6. ScoredBy(new, b)
  BY <1>1, <1>4 DEF ScoredBy
<1> DEFINE T == S \cup {new}
<1>7. files \in Seq(T) /\ origin \in Seq(T) /\ new \in T
  BY <1>2, SeqMonotonic
<1> HIDE DEF T
<1>8. /\ Len(files') = Len(files)
      /\ files'[i] = new /\ \A j \in 1..Len(files) : j # i => files'[j] = files[j]
  BY <1>1, <1>3, <1>7, ExceptSeq
<1>9. Baselines' = Baselines
  BY <1>1 DEF Baselines
<1>10. RunsSound' /\ IntBaselines'
  BY <1>1, <1>9 DEF ResultsInv, RunsSound, IntBaselines
<1>11. Viewed'
  <2>1. ASSUME NEW j \in 1..Len(files')
        PROVE  /\ files'[j].config.profile \in DOMAIN Weights /\ files'[j].config.curve_k \in Int
               /\ \E d \in Baselines : ScoredBy(files'[j], d)
    <3>1. CASE j = i
      BY <1>4, <1>5, <1>6, <1>8, <3>1
    <3>2. CASE j # i
      BY <1>8, <3>2 DEF ResultsInv, Viewed
    <3> QED BY <3>1, <3>2
  <2> QED BY <1>9, <2>1 DEF Viewed
<1> QED BY <1>10, <1>11, RescoreKeeps DEF ResultsInv

(* Making a baseline of files keeps the invariant.                         *)
LEMMA GenerateSound ==
  ASSUME ResultsInv, NEW some \in (SUBSET DOMAIN files) \ {{}}, GenerateBaseline(some)
  PROVE  ResultsInv'
<1> DEFINE raws == [f \in some |-> Raws[f]]
<1>1. fleet' = BaselineFromResults(raws, "fleet") /\ files' = files /\ origin' = origin /\ fleet = NoFleet
  BY DEF GenerateBaseline
<1>2. some \subseteq 1..Len(files) /\ Len(files) \in Nat
  BY FilesKeep DEF ResultsInv
<1>3. IsFiniteSet(DOMAIN raws)
  BY <1>2, FS_Interval, FS_Subset
<1>4. \A f \in DOMAIN raws : Measured(raws[f]) /\ Positive(raws[f])
  <2> SUFFICES ASSUME NEW f \in some PROVE Measured(raws[f]) /\ Positive(raws[f])
    OBVIOUS
  <2>1. f \in 1..Len(files) /\ f \in DOMAIN files
    BY <1>2
  <2>2. raws[f] = files[f].raw
    BY <2>1 DEF Raws
  <2>3. files[f].raw = origin[f].raw /\ RunSound(origin[f])
    BY <2>1, FilesKeep DEF ResultsInv, RunsSound
  <2> HIDE DEF raws
  <2> QED BY <2>2, <2>3 DEF RunSound
<1> HIDE DEF raws
<1>5. IntBaseline(fleet')
  BY <1>1, <1>3, <1>4, FleetIsInt
<1>6. Baselines' \subseteq Baselines \cup {fleet'} /\ Baselines \subseteq Baselines'
  BY <1>1 DEF Baselines
<1>7. IntBaselines'
  <2>1. \A b \in Baselines' : IntBaseline(b)
    BY <1>5, <1>6 DEF ResultsInv, IntBaselines
  <2> QED BY <2>1 DEF IntBaselines
<1>8. RunsSound'
  BY <1>1 DEF ResultsInv, RunsSound
<1>9. Viewed'
  BY <1>1, <1>6 DEF ResultsInv, Viewed
<1> QED BY <1>7, <1>8, <1>9, GenerateKeeps DEF ResultsInv

(* The invariant holds, for any trials, baselines, profiles and curves.    *)
THEOREM ResultsInvariance == ResultsSpec => []ResultsInv
<1>1. ResultsInit => ResultsInv
  <2> SUFFICES ASSUME ResultsInit PROVE ResultsInv
    OBVIOUS
  <2>1. Sequences
    BY EmptySeq DEF ResultsInit, Sequences
  <2>2. Written /\ OneRescoreAway /\ RunsSound /\ Viewed
    BY EmptySeq DEF ResultsInit, Written, OneRescoreAway, RunsSound, Viewed
  <2>3. FleetNamed
    BY DEF ResultsInit, FleetNamed
  <2>4. IntBaselines
    <3>1. Baselines = {Reference}
      BY DEF ResultsInit, Baselines
    <3>2. IntBaseline(Reference)
      BY ResultsAssumption DEF IntBaseline
    <3> QED BY <3>1, <3>2 DEF IntBaselines
  <2> QED BY <2>1, <2>2, <2>3, <2>4 DEF IInv, ResultsInv
<1>2. ResultsInv /\ [ResultsNext]_resultVars => ResultsInv'
  <2> SUFFICES ASSUME ResultsInv, [ResultsNext]_resultVars PROVE ResultsInv'
    OBVIOUS
  <2>1. ASSUME NEW trial \in Trials, WriteResult(trial) PROVE ResultsInv'
    BY <2>1, WriteSound
  <2>2. ASSUME NEW i \in DOMAIN files, NEW b \in Baselines, NEW p \in Profiles, NEW c \in Curves,
               Rescore(i, b, p, c)
        PROVE  ResultsInv'
    BY <2>2, RescoreSound
  <2>3. ASSUME NEW some \in (SUBSET DOMAIN files) \ {{}}, GenerateBaseline(some) PROVE ResultsInv'
    BY <2>3, GenerateSound
  <2>4. CASE UNCHANGED resultVars
    <3>1. files' = files /\ origin' = origin /\ fleet' = fleet /\ Baselines' = Baselines
      BY <2>4 DEF resultVars, Baselines
    <3>2. IInv'
      BY <3>1 DEF ResultsInv, IInv, Sequences, Written, FleetNamed, OneRescoreAway
    <3> QED BY <3>1, <3>2 DEF ResultsInv, RunsSound, IntBaselines, Viewed
  <2> QED BY <2>1, <2>2, <2>3, <2>4 DEF ResultsNext
<1> QED BY <1>1, <1>2, PTL DEF ResultsSpec

(* Of a file whose view is scored by b: the part, and what it is a part of. *)
LEMMA ShownIs ==
  ASSUME ResultsInv, NEW i \in DOMAIN files
  PROVE  \E b \in Baselines : \E part :
           /\ Measured(files[i].raw) /\ Known(files[i].raw) /\ Part(part, files[i].raw)
           /\ CanScore(part, b, files[i].config.curve_k)
           /\ files[i].view = ScoreRun(part, b, files[i].config.profile, files[i].config.curve_k)
<1>1. i \in 1..Len(files) /\ i \in 1..Len(origin) /\ files[i].raw = origin[i].raw
  BY FilesKeep DEF ResultsInv
<1>2. Measured(files[i].raw) /\ Known(files[i].raw)
  BY <1>1 DEF ResultsInv, RunsSound, RunSound
<1>3. PICK b \in Baselines : ScoredBy(files[i], b)
  BY <1>1 DEF ResultsInv, Viewed
<1>4. PICK part \in {files[i].raw, CoveredBy(files[i].raw, b)} :
        /\ CanScore(part, b, files[i].config.curve_k)
        /\ files[i].view = ScoreRun(part, b, files[i].config.profile, files[i].config.curve_k)
  BY <1>3 DEF ScoredBy
<1>5. Part(part, files[i].raw)
  BY <1>2, <1>4, WholeIsPart, CoveredIs
<1> QED BY <1>2, <1>4, <1>5

(* The reasons given explain the grade of every file (scoring/mod.rs),     *)
(* through any chain of re-scores and any baseline made of the files.      *)
THEOREM ResultsWhyExplainsGrade == ResultsSpec => []WhyExplainsGrade
<1>1. ResultsInv => WhyExplainsGrade
  <2> SUFFICES ASSUME ResultsInv, NEW i \in DOMAIN files PROVE Explained(files[i].view)
    BY DEF WhyExplainsGrade, Explained
  <2>1. PICK b \in Baselines : \E part :
           /\ Measured(files[i].raw) /\ Known(files[i].raw) /\ Part(part, files[i].raw)
           /\ CanScore(part, b, files[i].config.curve_k)
           /\ files[i].view = ScoreRun(part, b, files[i].config.profile, files[i].config.curve_k)
    BY ShownIs
  <2>2. PICK part :
           /\ Measured(files[i].raw) /\ Known(files[i].raw) /\ Part(part, files[i].raw)
           /\ CanScore(part, b, files[i].config.curve_k)
           /\ files[i].view = ScoreRun(part, b, files[i].config.profile, files[i].config.curve_k)
    BY <2>1
  <2>3. files[i].config.profile \in DOMAIN Weights /\ files[i].config.curve_k \in Int
    BY FilesKeep DEF ResultsInv, Viewed
  <2>4. IntBaseline(b)
    BY DEF ResultsInv, IntBaselines
  <2> QED BY <2>2, <2>3, <2>4, ViewExplains
<1> QED BY <1>1, ResultsInvariance, PTL

(* No peak of a throttled run, nor a component built on one, is ever fully *)
(* trusted (telemetry.rs): the lowered trust survives every re-score.      *)
THEOREM ResultsThermalNeverHigh == ResultsSpec => []ThermalNeverHigh
<1>1. ResultsInv => ThermalNeverHigh
  <2> SUFFICES ASSUME ResultsInv, NEW i \in DOMAIN files, origin[i].telemetry.limited, NEW b \in DOMAIN files[i].raw
               PROVE  LET bench == files[i].raw[b]
                          peaks == {st \in Range(bench.subtests) : st.rep = "peak"}
                      IN  /\ \A st \in peaks : st.confidence # "high"
                          /\ peaks # {} => files[i].notes
                          /\ \A comp \in Range(files[i].view.components) :
                               comp.id = bench.id
                                 /\ (\E st \in peaks : \E sub \in Range(comp.subtests) : sub.id = st.id)
                                 => comp.confidence # "high"
    BY DEF ThermalNeverHigh
  <2> DEFINE raw   == files[i].raw
             peaks == {st \in Range(raw[b].subtests) : st.rep = "peak"}
  <2>1. i \in 1..Len(files) /\ i \in 1..Len(origin) /\ raw = origin[i].raw /\ files[i].notes = origin[i].notes
    BY FilesKeep DEF ResultsInv
  <2>2. Lowered(raw) /\ (peaks # {} => files[i].notes)
    BY <2>1 DEF ResultsInv, RunsSound, RunSound
  <2>3. \A st \in peaks : st.confidence # "high"
    BY <2>2 DEF Lowered
  <2>4. ASSUME NEW comp \in Range(files[i].view.components), comp.id = raw[b].id,
               NEW st \in peaks, NEW sub \in Range(comp.subtests), sub.id = st.id
        PROVE  comp.confidence # "high"
    <3>1. PICK d \in Baselines : \E part :
             /\ Measured(raw) /\ Known(raw) /\ Part(part, raw)
             /\ CanScore(part, d, files[i].config.curve_k)
             /\ files[i].view = ScoreRun(part, d, files[i].config.profile, files[i].config.curve_k)
      BY ShownIs
    <3>2. PICK part :
             /\ Measured(raw) /\ Known(raw) /\ Part(part, raw)
             /\ files[i].view = ScoreRun(part, d, files[i].config.profile, files[i].config.curve_k)
      BY <3>1
    <3> DEFINE p == files[i].config.profile
               k == files[i].config.curve_k
    <3>3. comp \in Range(ScoreRun(part, d, p, k).components)
      BY <2>4, <3>2
    <3>4. st \in Range(raw[b].subtests) /\ st.confidence # "high"
      BY <2>3
    <3> HIDE DEF raw, p, k, peaks
    <3> QED BY <2>4, <3>2, <3>3, <3>4, ViewTrust DEF raw
  <2> QED BY <2>2, <2>3, <2>4
<1> QED BY <1>1, ResultsInvariance, PTL

(* -- Files against each other ------------------------------------------ *)

(* The two files are of the same program: a subtest is specified once.     *)
SameSpecs(a, b) ==
  \A i \in DOMAIN a, j \in DOMAIN b : a[i].id = b[j].id =>
    \A st \in Range(a[i].subtests), su \in Range(b[j].subtests) :
      st.id = su.id => st.dir = su.dir /\ st.scored = su.scored

(* Of a benchmark or of a subtest there is one of each name.               *)
LEMMA OfIdIs ==
  ASSUME NEW seq, \A i, j \in DOMAIN seq : seq[i].id = seq[j].id => i = j,
         NEW i \in DOMAIN seq
  PROVE  seq[i].id \in Ids(seq) /\ OfId(seq, seq[i].id) = seq[i]
<1>1. \A j \in DOMAIN seq : seq[j].id = seq[i].id => j = i
  OBVIOUS
<1>2. (CHOOSE j \in DOMAIN seq : seq[j].id = seq[i].id) = i
  BY <1>1
<1> QED BY <1>2 DEF Ids, OfId

(* Who is asked for in a run that has it.                                  *)
LEMMA FoundIs ==
  ASSUME NEW raw, Measured(raw), NEW c \in Ids(raw)
  PROVE  \E b \in DOMAIN raw :
           /\ raw[b].id = c /\ OfId(raw, c) = raw[b]
           /\ \A s \in Ids(OfId(raw, c).subtests) :
                \E i \in DOMAIN raw[b].subtests :
                  /\ raw[b].subtests[i].id = s /\ SubtestOf(raw, c, s) = raw[b].subtests[i]
                  /\ raw[b].subtests[i] \in Range(raw[b].subtests)
                  /\ raw[b].subtests[i] \in Subtest
<1>1. PICK b \in DOMAIN raw : raw[b].id = c
  BY DEF Ids
<1>2. OfId(raw, c) = raw[b]
  BY <1>1, OfIdIs, MeasuredIs
<1>3. ASSUME NEW s \in Ids(OfId(raw, c).subtests)
      PROVE  \E i \in DOMAIN raw[b].subtests :
               /\ raw[b].subtests[i].id = s /\ SubtestOf(raw, c, s) = raw[b].subtests[i]
               /\ raw[b].subtests[i] \in Range(raw[b].subtests)
               /\ raw[b].subtests[i] \in Subtest
  <2> DEFINE seq == raw[b].subtests
  <2>1. \A i, j \in DOMAIN seq : seq[i].id = seq[j].id => i = j
    BY DEF Measured
  <2>2. PICK i \in DOMAIN seq : seq[i].id = s
    BY <1>2 DEF Ids
  <2>3. seq[i] \in Range(seq) /\ Range(seq) \subseteq Subtest
    BY MeasuredIs DEF Range
  <2>4. OfId(seq, s) = seq[i]
    <3> HIDE DEF seq
    <3> QED BY <2>1, <2>2, OfIdIs
  <2> QED BY <1>2, <2>2, <2>3, <2>4 DEF SubtestOf
<1> QED BY <1>1, <1>2, <1>3

(* The subtests both files have of a component both have.                  *)
Both(a, b, c) == Ids(OfId(a, c).subtests) \cap Ids(OfId(b, c).subtests)

(* Those are what a comparison of the two looks at.                        *)
LEMMA SharedIs ==
  ASSUME NEW a, NEW b, NEW c
  PROVE  Shared(<<a, b>>, c) = {s \in Both(a, b, c) : c \in Ids(a) /\ c \in Ids(b)}
<1>1. DOMAIN <<a, b>> = {1, 2} /\ <<a, b>>[1] = a /\ <<a, b>>[2] = b
  OBVIOUS
<1> DEFINE r == <<a, b>>
<1> HIDE DEF r
<1>2. Shared(r, c) = {s \in Ids(OfId(r[1], c).subtests) :
                        \A m \in DOMAIN r : c \in Ids(r[m]) /\ s \in Ids(OfId(r[m], c).subtests)}
  BY DEF Shared
<1> QED BY <1>1, <1>2 DEF r, Both

(* What is common does not depend on the order.                            *)
LEMMA CommonSame ==
  ASSUME NEW a, NEW b
  PROVE  /\ Common(<<a, b>>) = Common(<<b, a>>)
         /\ \A c \in Common(<<a, b>>) : c \in Ids(a) /\ c \in Ids(b) /\ Shared(<<a, b>>, c) = Both(a, b, c)
         /\ \A c : Both(a, b, c) = Both(b, a, c)
<1>1. <<a, b>>[1] = a /\ <<b, a>>[1] = b
  OBVIOUS
<1>2. \A c : Both(a, b, c) = Both(b, a, c)
  BY DEF Both
<1>3. \A c : c \in Common(<<a, b>>) <=> c \in Ids(a) /\ c \in Ids(b) /\ Both(a, b, c) # {}
  BY <1>1, SharedIs DEF Common
<1>4. \A c : c \in Common(<<b, a>>) <=> c \in Ids(a) /\ c \in Ids(b) /\ Both(a, b, c) # {}
  BY <1>1, <1>2, SharedIs DEF Common
<1>5. Common(<<a, b>>) = Common(<<b, a>>)
  BY <1>3, <1>4
<1> QED BY <1>2, <1>3, <1>5, SharedIs

(* What a subtest of the second file is worth against the first.           *)
Gap(a, b, c, s) ==
  Goodness(SubtestOf(b, c, s).value, SubtestOf(a, c, s).value, SubtestOf(a, c, s).dir)

(* Exchanging the files changes the sign.                                  *)
LEMMA GapSwaps ==
  ASSUME NEW a, Measured(a), Known(a), NEW b, Measured(b), Known(b), SameSpecs(a, b),
         NEW c \in Ids(a) \cap Ids(b), NEW s \in Both(a, b, c)
  PROVE  /\ Gap(a, b, c, s) \in Int /\ Gap(b, a, c, s) = -Gap(a, b, c, s)
         /\ SubtestOf(a, c, s).scored = SubtestOf(b, c, s).scored
         /\ Gap(a, a, c, s) = 0
<1>1. PICK i, st : i \in DOMAIN a /\ st \in Range(a[i].subtests) /\
        a[i].id = c /\ st.id = s /\ SubtestOf(a, c, s) = st /\ st \in Subtest
  <2>1. PICK i \in DOMAIN a :
          /\ a[i].id = c /\ OfId(a, c) = a[i]
          /\ \A z \in Ids(OfId(a, c).subtests) :
               \E k \in DOMAIN a[i].subtests :
                 /\ a[i].subtests[k].id = z /\ SubtestOf(a, c, z) = a[i].subtests[k]
                 /\ a[i].subtests[k] \in Range(a[i].subtests)
                 /\ a[i].subtests[k] \in Subtest
    BY FoundIs
  <2> QED BY <2>1 DEF Both
<1>2. PICK j, su : j \in DOMAIN b /\ su \in Range(b[j].subtests) /\
        b[j].id = c /\ su.id = s /\ SubtestOf(b, c, s) = su /\ su \in Subtest
  <2>1. PICK j \in DOMAIN b :
          /\ b[j].id = c /\ OfId(b, c) = b[j]
          /\ \A z \in Ids(OfId(b, c).subtests) :
               \E k \in DOMAIN b[j].subtests :
                 /\ b[j].subtests[k].id = z /\ SubtestOf(b, c, z) = b[j].subtests[k]
                 /\ b[j].subtests[k] \in Range(b[j].subtests)
                 /\ b[j].subtests[k] \in Subtest
    BY FoundIs
  <2> QED BY <2>1 DEF Both
<1>3. st.dir = su.dir /\ st.scored = su.scored
  BY <1>1, <1>2 DEF SameSpecs
<1>4. st.value \in {0} \cup DOMAIN Log /\ su.value \in {0} \cup DOMAIN Log /\ st.value \in Nat /\ su.value \in Nat
  BY <1>1, <1>2 DEF Known, Subtest
<1>5. \A v \in DOMAIN Log : Log[v] \in Int
  BY ScoringAssumption
<1>6. \A v, w \in {0} \cup DOMAIN Log : v \in Nat /\ w \in Nat => \A d :
        /\ Goodness(v, w, d) \in Int /\ Goodness(w, v, d) = -Goodness(v, w, d) /\ Goodness(v, v, d) = 0
  <2> TAKE v, w \in {0} \cup DOMAIN Log
  <2> HAVE v \in Nat /\ w \in Nat
  <2> TAKE d
  <2>1. CASE v = 0 \/ w = 0
    BY <2>1, <1>5 DEF Goodness, Oriented
  <2>2. CASE v # 0 /\ w # 0
    <3>1. Log[v] \in Int /\ Log[w] \in Int /\ v > 0 /\ w > 0
      BY <1>5, <2>2
    <3> QED BY <3>1 DEF Goodness, Oriented
  <2> QED BY <2>1, <2>2
<1> QED BY <1>1, <1>2, <1>3, <1>4, <1>6 DEF Gap

(* A sequence has finitely many names.                                     *)
LEMMA IdsFinite ==
  ASSUME NEW seq, IsSeq(seq)
  PROVE  IsFiniteSet(Ids(seq))
<1> DEFINE f == [i \in DOMAIN seq |-> seq[i].id]
<1>1. IsFiniteSet(DOMAIN seq)
  BY IsSeqFacts, FS_Interval
<1>2. DOMAIN f = DOMAIN seq /\ \A i \in DOMAIN seq : f[i] = seq[i].id
  OBVIOUS
<1> HIDE DEF f
<1>3. IsFiniteSet({f[i] : i \in DOMAIN seq})
  BY <1>1, <1>2, FiniteImage
<1>4. {f[i] : i \in DOMAIN seq} = {seq[i].id : i \in DOMAIN seq}
  BY <1>2
<1> QED BY <1>3, <1>4 DEF Ids

(* What a subtest says of either file.                                     *)
LEMMA SubtestRel ==
  ASSUME NEW a, NEW b, NEW c, NEW s
  PROVE  /\ ComparedSubtest(<<a, b>>, c, s).rel[1] = Gap(a, a, c, s)
         /\ ComparedSubtest(<<a, b>>, c, s).rel[2] = Gap(a, b, c, s)
<1> DEFINE r == <<a, b>>
           rel == [m \in DOMAIN r |-> Goodness(SubtestOf(r[m], c, s).value, SubtestOf(r[1], c, s).value,
                                               SubtestOf(r[1], c, s).dir)]
<1>1. DOMAIN r = {1, 2} /\ r[1] = a /\ r[2] = b
  OBVIOUS
<1> HIDE DEF r
<1>2. ComparedSubtest(r, c, s) = [rel |-> rel, best |-> Best(rel), scored |-> SubtestOf(r[1], c, s).scored]
  BY Zenon DEF ComparedSubtest
<1>3. rel[1] = Gap(a, a, c, s) /\ rel[2] = Gap(a, b, c, s)
  BY <1>1 DEF Gap
<1> HIDE DEF rel
<1> QED BY <1>2, <1>3 DEF r

(* The subtests that count for a component both files have.                *)
Counting(a, b, c) == {s \in Both(a, b, c) : SubtestOf(a, c, s).scored}
GapsOf(a, b, c) == [s \in Counting(a, b, c) |-> Gap(a, b, c, s)]

(* The roll-up of a component is the mean of what its scored subtests say. *)
LEMMA RelOf ==
  ASSUME NEW a, NEW b, NEW c \in Common(<<a, b>>), IsFiniteSet(Counting(a, b, c)),
         \A s \in Counting(a, b, c) : Gap(a, b, c, s) \in Int /\ Gap(a, a, c, s) = 0
  PROVE  LET S == Counting(a, b, c)
         IN  /\ Counted(<<a, b>>, c) = S
             /\ ComponentRel(<<a, b>>, c, 1) = IF S = {} THEN Shares * ZeroRatio ELSE 0
             /\ ComponentRel(<<a, b>>, c, 2) = IF S = {} THEN Shares * ZeroRatio
                                               ELSE SumFunctionOnSet(GapsOf(a, b, c), S) * (Shares \div Cardinality(S))
             /\ S # {} => Shares \div Cardinality(S) \in Int
<1> DEFINE S == Counting(a, b, c)
           g == GapsOf(a, b, c)
           r == <<a, b>>
           rels(m) == [s \in S |-> ComparedSubtest(r, c, s).rel[m]]
<1>1. c \in Ids(a) \cap Ids(b) /\ Shared(r, c) = Both(a, b, c) /\ r[1] = a
  BY CommonSame
<1>2. Counted(r, c) = S
  BY <1>1 DEF Counted, Counting
<1>3. IsFiniteSet(S)
  OBVIOUS
<1>4. \A s \in S : g[s] = Gap(a, b, c, s) /\ g[s] \in Int /\ Gap(a, a, c, s) = 0
  BY DEF GapsOf
<1>5. \A s \in S : rels(1)[s] = 0 /\ rels(2)[s] = g[s]
  <2>1. \A s \in S : rels(1)[s] = ComparedSubtest(r, c, s).rel[1] /\ rels(2)[s] = ComparedSubtest(r, c, s).rel[2]
    OBVIOUS
  <2>2. \A s : ComparedSubtest(r, c, s).rel[1] = Gap(a, a, c, s) /\ ComparedSubtest(r, c, s).rel[2] = Gap(a, b, c, s)
    BY SubtestRel
  <2> HIDE DEF rels, g, S, r
  <2> QED BY <1>4, <2>1, <2>2
<1>6. DOMAIN rels(1) = S /\ DOMAIN rels(2) = S
  OBVIOUS
<1>7. \A m : ComponentRel(r, c, m) = IF S = {} THEN Shares * ZeroRatio
                                     ELSE SumFunction(rels(m)) * (Shares \div Cardinality(S))
  <2> HIDE DEF S
  <2> QED BY <1>2 DEF ComponentRel, MeanRatio
<1> HIDE DEF rels, g, S
<1>8. SumFunction(rels(1)) = 0
  <2>1. SumFunctionOnSet(rels(1), S) = 0 * Cardinality(S)
    BY <1>3, <1>5, SumConst
  <2> QED BY <1>3, <1>6, <2>1, FS_CardinalityType DEF SumFunction
<1>9. SumFunction(rels(2)) = SumFunctionOnSet(g, S)
  BY <1>3, <1>4, <1>5, <1>6, SumCongruent DEF SumFunction
<1>10. S # {} => Shares \div Cardinality(S) \in Int
  <2> SUFFICES ASSUME S # {} PROVE Shares \div Cardinality(S) \in Int
    OBVIOUS
  <2>1. Cardinality(S) \in Nat \ {0}
    BY <1>3, FS_CardinalityType, FS_EmptySet
  <2> QED BY <2>1, SharesAssumption
<1>11. ComponentRel(r, c, 1) = IF S = {} THEN Shares * ZeroRatio ELSE 0
  BY <1>7, <1>8, <1>10
<1> QED BY <1>2, <1>7, <1>9, <1>10, <1>11 DEF S, g, r

(* In two files of one program the gaps are integers.                      *)
LEMMA RelIs ==
  ASSUME NEW a, Measured(a), Known(a), NEW b, Measured(b), Known(b), SameSpecs(a, b),
         NEW c \in Common(<<a, b>>)
  PROVE  LET S == Counting(a, b, c)
             g == GapsOf(a, b, c)
         IN  /\ Counted(<<a, b>>, c) = S /\ IsFiniteSet(S) /\ \A s \in S : g[s] \in Int
             /\ ComponentRel(<<a, b>>, c, 1) = IF S = {} THEN Shares * ZeroRatio ELSE 0
             /\ ComponentRel(<<a, b>>, c, 2) = IF S = {} THEN Shares * ZeroRatio
                                               ELSE SumFunctionOnSet(g, S) * (Shares \div Cardinality(S))
             /\ S # {} => Shares \div Cardinality(S) \in Int
<1> DEFINE S == Counting(a, b, c)
<1>1. c \in Ids(a) \cap Ids(b)
  BY CommonSame
<1>2. IsFiniteSet(S)
  <2>1. PICK i \in DOMAIN a : OfId(a, c) = a[i]
    BY <1>1, FoundIs
  <2>2. IsFiniteSet(Ids(OfId(a, c).subtests))
    BY <2>1, MeasuredIs, IdsFinite
  <2>3. S \subseteq Ids(OfId(a, c).subtests)
    BY DEF Both, Counting
  <2> HIDE DEF S
  <2> QED BY <2>2, <2>3, FS_Subset
<1>3. \A s \in S : Gap(a, b, c, s) \in Int /\ Gap(a, a, c, s) = 0
  BY <1>1, GapSwaps DEF Counting
<1>4. \A s \in S : GapsOf(a, b, c)[s] \in Int
  BY <1>3 DEF GapsOf
<1> QED BY <1>2, <1>3, <1>4, RelOf

(* A component's margin changes its sign with the order of the files.      *)
LEMMA ComponentSwaps ==
  ASSUME NEW a, Measured(a), Known(a), NEW b, Measured(b), Known(b), SameSpecs(a, b),
         NEW c \in Common(<<a, b>>)
  PROVE  /\ \A m \in {1, 2} : ComponentRel(<<a, b>>, c, m) \in Int /\ ComponentRel(<<b, a>>, c, m) \in Int
         /\ ComponentRel(<<a, b>>, c, 1) + ComponentRel(<<b, a>>, c, 1)
              = ComponentRel(<<a, b>>, c, 2) + ComponentRel(<<b, a>>, c, 2)
         /\ Counted(<<a, b>>, c) = Counted(<<b, a>>, c)
<1> DEFINE S == Counting(a, b, c)
           T == Counting(b, a, c)
           g == GapsOf(a, b, c)
           h == GapsOf(b, a, c)
           n == Shares \div Cardinality(S)
<1>1. SameSpecs(b, a)
  BY DEF SameSpecs
<1>2. c \in Common(<<b, a>>) /\ c \in Ids(a) \cap Ids(b) /\ Both(a, b, c) = Both(b, a, c)
  BY CommonSame
<1>3. S = T
  <2>1. \A s \in Both(a, b, c) : SubtestOf(a, c, s).scored = SubtestOf(b, c, s).scored
    BY <1>2, GapSwaps
  <2> QED BY <1>2, <2>1 DEF Counting
<1>4. /\ Counted(<<a, b>>, c) = S /\ IsFiniteSet(S) /\ \A s \in S : g[s] \in Int
      /\ ComponentRel(<<a, b>>, c, 1) = IF S = {} THEN Shares * ZeroRatio ELSE 0
      /\ ComponentRel(<<a, b>>, c, 2) = IF S = {} THEN Shares * ZeroRatio ELSE SumFunctionOnSet(g, S) * n
      /\ S # {} => n \in Int
  BY RelIs
<1>5. /\ Counted(<<b, a>>, c) = T /\ IsFiniteSet(T) /\ \A s \in T : h[s] \in Int
      /\ ComponentRel(<<b, a>>, c, 1) = IF T = {} THEN Shares * ZeroRatio ELSE 0
      /\ ComponentRel(<<b, a>>, c, 2) = IF T = {} THEN Shares * ZeroRatio
                                        ELSE SumFunctionOnSet(h, T) * (Shares \div Cardinality(T))
  BY <1>1, <1>2, RelIs
<1>6. \A s \in S : h[s] = -g[s]
  <2>1. \A s \in S : g[s] = Gap(a, b, c, s) /\ h[s] = Gap(b, a, c, s)
    BY <1>3 DEF GapsOf
  <2>2. \A s \in S : Gap(b, a, c, s) = -Gap(a, b, c, s)
    BY <1>2, GapSwaps DEF Counting
  <2> HIDE DEF S, T, g, h
  <2> QED BY <2>1, <2>2
<1> HIDE DEF S, T, g, h
<1>7. SumFunctionOnSet(h, S) = -SumFunctionOnSet(g, S) /\ SumFunctionOnSet(g, S) \in Int
  BY <1>4, <1>6, SumOpposite, SumIs
<1>8. CASE S = {}
  <2>1. Shares * ZeroRatio \in Int
    BY SharesAssumption DEF ZeroRatio
  <2> QED BY <1>3, <1>4, <1>5, <1>8, <2>1
<1>9. CASE S # {}
  <2> DEFINE x == SumFunctionOnSet(g, S)
  <2>1. /\ ComponentRel(<<a, b>>, c, 1) = 0 /\ ComponentRel(<<b, a>>, c, 1) = 0
        /\ ComponentRel(<<a, b>>, c, 2) = x * n /\ ComponentRel(<<b, a>>, c, 2) = (-x) * n
    BY <1>3, <1>4, <1>5, <1>7, <1>9
  <2>2. x \in Int /\ n \in Int
    BY <1>4, <1>7, <1>9
  <2> HIDE DEF x, n
  <2>3. x * n \in Int /\ (-x) * n = -(x * n)
    BY <2>2
  <2> QED BY <1>3, <1>4, <1>5, <2>1, <2>3
<1> QED BY <1>8, <1>9

(* The first of two is the one that is ahead.                              *)
LEMMA RankingOfTwo ==
  ASSUME NEW rel, DOMAIN rel = {1, 2}, rel[1] \in Int, rel[2] \in Int
  PROVE  /\ Ranking(rel)[1] = IF rel[2] > rel[1] THEN 2 ELSE 1
         /\ Ranking(rel)[2] = IF rel[2] > rel[1] THEN 1 ELSE 2
<1> DEFINE before(m) == {o \in {1, 2} : rel[o] > rel[m] \/ (rel[o] = rel[m] /\ o < m)}
<1>1. \A r \in {1, 2} : Ranking(rel)[r] = CHOOSE m \in {1, 2} : Cardinality(before(m)) = r - 1
  BY DEF Ranking
<1>2. before(1) = IF rel[2] > rel[1] THEN {2} ELSE {}
  OBVIOUS
<1>3. before(2) = IF rel[2] > rel[1] THEN {} ELSE {1}
  OBVIOUS
<1>4. Cardinality({}) = 0 /\ Cardinality({1}) = 1 /\ Cardinality({2}) = 1
  BY FS_EmptySet, FS_Singleton
<1> HIDE DEF before
<1>5. CASE rel[2] > rel[1]
  BY <1>1, <1>2, <1>3, <1>4, <1>5
<1>6. CASE ~(rel[2] > rel[1])
  BY <1>1, <1>2, <1>3, <1>4, <1>6
<1> QED BY <1>5, <1>6

RelSum(a, b, m) ==
  SumFunctionOnSet([c \in Common(<<a, b>>) |-> ComponentRel(<<a, b>>, c, m)], Common(<<a, b>>))
CompsOf(a, b) == [c \in Common(<<a, b>>) |-> ComparedComponent(<<a, b>>, c)]

(* What a comparison says, from the roll-ups of its components.            *)
LEMMA CompareIs ==
  ASSUME NEW a, NEW b, NEW soaks
  PROVE  LET cmp == Compare(<<a, b>>, soaks)
         IN  /\ DOMAIN cmp.rel = {1, 2}
             /\ cmp.rel[1] = RelSum(a, b, 1) /\ cmp.rel[2] = RelSum(a, b, 2)
             /\ cmp.summary = Summary(CompsOf(a, b), cmp.rel, Ranking(cmp.rel))
             /\ DOMAIN CompsOf(a, b) = Common(<<a, b>>)
             /\ \A c \in Common(<<a, b>>) :
                  /\ CompsOf(a, b)[c].rel[1] = ComponentRel(<<a, b>>, c, 1)
                  /\ CompsOf(a, b)[c].rel[2] = ComponentRel(<<a, b>>, c, 2)
                  /\ CompsOf(a, b)[c].empty = (Counted(<<a, b>>, c) = {})
<1> DEFINE r == <<a, b>>
           f(m) == [c \in Common(r) |-> ComponentRel(r, c, m)]
           comps == [c \in Common(r) |-> ComparedComponent(r, c)]
           rel == [m \in DOMAIN r |-> SumFunction([c \in Common(r) |-> comps[c].rel[m]])]
<1>1. DOMAIN r = {1, 2}
  OBVIOUS
<1> HIDE DEF r
<1>2. ASSUME NEW c \in Common(r)
      PROVE  /\ \A m \in {1, 2} : comps[c].rel[m] = ComponentRel(r, c, m)
             /\ comps[c].empty = (Counted(r, c) = {})
  <2> DEFINE one == [m \in DOMAIN r |-> ComponentRel(r, c, m)]
             subs == [s \in Shared(r, c) |-> ComparedSubtest(r, c, s)]
  <2>1. ComparedComponent(r, c) = [subtests |-> subs, rel |-> one, best |-> Best(one), empty |-> Counted(r, c) = {}]
    BY Zenon DEF ComparedComponent
  <2>2. \A m \in {1, 2} : one[m] = ComponentRel(r, c, m)
    BY <1>1
  <2>3. comps[c] = ComparedComponent(r, c)
    OBVIOUS
  <2> HIDE DEF one, subs, comps
  <2> QED BY <2>1, <2>2, <2>3
<1>3. Compare(r, soaks) = [ components |-> comps, rel |-> rel, ranking |-> Ranking(rel),
                            summary |-> Summary(comps, rel, Ranking(rel)),
                            soak |-> SoakComparison(soaks) ]
  BY Zenon DEF Compare
<1>4. DOMAIN comps = Common(r)
  OBVIOUS
<1>5. \A m \in {1, 2} : [c \in Common(r) |-> comps[c].rel[m]] = f(m)
  <2> HIDE DEF comps
  <2> QED BY <1>2
<1>6. \A m \in {1, 2} : rel[m] = SumFunctionOnSet(f(m), Common(r))
  <2>1. \A m \in {1, 2} : rel[m] = SumFunction(f(m))
    <3>1. \A m \in {1, 2} : rel[m] = SumFunction([c \in Common(r) |-> comps[c].rel[m]])
      <4> HIDE DEF comps
      <4> QED BY <1>1
    <3> HIDE DEF comps, rel, f
    <3> QED BY <1>5, <3>1
  <2>2. \A m : DOMAIN f(m) = Common(r)
    OBVIOUS
  <2> HIDE DEF f, rel
  <2> QED BY <2>1, <2>2 DEF SumFunction
<1>7. DOMAIN rel = {1, 2}
  BY <1>1
<1> HIDE DEF comps, rel, f
<1>8. /\ Compare(r, soaks).rel = rel
      /\ Compare(r, soaks).summary = Summary(comps, rel, Ranking(rel))
  BY <1>3
<1> QED BY <1>2, <1>4, <1>6, <1>7, <1>8 DEF r, f, comps, RelSum, CompsOf

(* The overall margin changes its sign with the order of the files.        *)
LEMMA OverallSwaps ==
  ASSUME NEW a, Measured(a), Known(a), NEW b, Measured(b), Known(b), SameSpecs(a, b), NEW s, NEW t
  PROVE  LET ab == Compare(<<a, b>>, s)
             ba == Compare(<<b, a>>, t)
         IN  /\ \A m \in {1, 2} : ab.rel[m] \in Int /\ ba.rel[m] \in Int
             /\ ab.rel[1] + ba.rel[1] = ab.rel[2] + ba.rel[2]
             /\ IsFiniteSet(Common(<<a, b>>))
<1> DEFINE C == Common(<<a, b>>)
           f(m) == [c \in C |-> ComponentRel(<<a, b>>, c, m)]
           g(m) == [c \in C |-> ComponentRel(<<b, a>>, c, m)]
           h(m) == [c \in C |-> f(m)[c] + g(m)[c]]
           ab == Compare(<<a, b>>, s)
           ba == Compare(<<b, a>>, t)
<1>1. IsFiniteSet(C)
  <2>1. C \subseteq Ids(a)
    BY CommonSame
  <2> HIDE DEF C
  <2> QED BY <2>1, MeasuredIs, IdsFinite, FS_Subset
<1>2. C = Common(<<b, a>>)
  BY CommonSame
<1>3. \A c \in C : /\ f(1)[c] \in Int /\ f(2)[c] \in Int /\ g(1)[c] \in Int /\ g(2)[c] \in Int
                   /\ f(1)[c] + g(1)[c] = f(2)[c] + g(2)[c]
  BY ComponentSwaps
<1>4. /\ ab.rel[1] = SumFunctionOnSet(f(1), C) /\ ab.rel[2] = SumFunctionOnSet(f(2), C)
      /\ ba.rel[1] = SumFunctionOnSet(g(1), C) /\ ba.rel[2] = SumFunctionOnSet(g(2), C)
  <2>1. ab.rel[1] = RelSum(a, b, 1) /\ ab.rel[2] = RelSum(a, b, 2)
    BY CompareIs
  <2>2. ba.rel[1] = RelSum(b, a, 1) /\ ba.rel[2] = RelSum(b, a, 2)
    BY CompareIs
  <2>3. \A m : RelSum(a, b, m) = SumFunctionOnSet(f(m), C)
    BY DEF RelSum
  <2>4. \A m : RelSum(b, a, m) = SumFunctionOnSet(g(m), C)
    BY <1>2 DEF RelSum
  <2> HIDE DEF ab, ba, f, g, C
  <2> QED BY <2>1, <2>2, <2>3, <2>4
<1>5. \A c \in C : h(1)[c] = f(1)[c] + g(1)[c] /\ h(2)[c] = f(2)[c] + g(2)[c]
  OBVIOUS
<1> HIDE DEF C, f, g, h, ab, ba
<1>6. /\ SumFunctionOnSet(f(1), C) \in Int /\ SumFunctionOnSet(f(2), C) \in Int
      /\ SumFunctionOnSet(g(1), C) \in Int /\ SumFunctionOnSet(g(2), C) \in Int
  BY <1>1, <1>3, SumIs
<1>7. /\ SumFunctionOnSet(h(1), C) = SumFunctionOnSet(f(1), C) + SumFunctionOnSet(g(1), C)
      /\ SumFunctionOnSet(h(2), C) = SumFunctionOnSet(f(2), C) + SumFunctionOnSet(g(2), C)
  BY <1>1, <1>3, <1>5, SumPlus
<1>8. SumFunctionOnSet(h(1), C) = SumFunctionOnSet(h(2), C)
  <2>1. \A c \in C : h(1)[c] \in Int /\ h(1)[c] = h(2)[c]
    BY <1>3, <1>5
  <2> QED BY <1>1, <2>1, SumCongruent
<1> QED BY <1>1, <1>4, <1>6, <1>7, <1>8 DEF C, ab, ba

(* The verdict on two files names the same machine, and the same winner of *)
(* each component, whichever file is named first.                          *)
LEMMA VerdictSwaps ==
  ASSUME NEW a, Measured(a), Known(a), NEW b, Measured(b), Known(b), SameSpecs(a, b), NEW s, NEW t
  PROVE  LET ab == Compare(<<a, b>>, s)
             ba == Compare(<<b, a>>, t)
         IN  /\ ab.rel[1] - ab.rel[2] = -(ba.rel[1] - ba.rel[2])
             /\ ab.summary.equal = ba.summary.equal
             /\ ab.rel[1] - ab.rel[2] # 0 =>
                  /\ ab.summary.lead = 3 - ba.summary.lead
                  /\ ab.summary.wins = ba.summary.wins
                  /\ ab.summary.losses = ba.summary.losses
<1> DEFINE C == Common(<<a, b>>)
           ab == Compare(<<a, b>>, s)
           ba == Compare(<<b, a>>, t)
           comps == CompsOf(a, b)
           others == CompsOf(b, a)
           bound == Equal3 * Shares * Cardinality(C)
           x == ab.rel
           y == ba.rel
<1>1. C = Common(<<b, a>>)
  BY CommonSame
<1>2. /\ \A m \in {1, 2} : x[m] \in Int /\ y[m] \in Int
      /\ x[1] + y[1] = x[2] + y[2]
      /\ IsFiniteSet(C)
  BY OverallSwaps
<1>3. /\ DOMAIN x = {1, 2} /\ DOMAIN y = {1, 2}
      /\ ab.summary = Summary(comps, x, Ranking(x)) /\ ba.summary = Summary(others, y, Ranking(y))
      /\ DOMAIN comps = C /\ DOMAIN others = C
  BY <1>1, CompareIs
<1>4. \A c \in C : /\ comps[c].rel[1] = ComponentRel(<<a, b>>, c, 1) /\ comps[c].rel[2] = ComponentRel(<<a, b>>, c, 2)
                   /\ others[c].rel[1] = ComponentRel(<<b, a>>, c, 1) /\ others[c].rel[2] = ComponentRel(<<b, a>>, c, 2)
                   /\ comps[c].empty = (Counted(<<a, b>>, c) = {}) /\ others[c].empty = (Counted(<<b, a>>, c) = {})
  BY <1>1, CompareIs
<1>5. \A c \in C : /\ comps[c].rel[1] \in Int /\ comps[c].rel[2] \in Int
                   /\ others[c].rel[1] \in Int /\ others[c].rel[2] \in Int
                   /\ comps[c].rel[1] + others[c].rel[1] = comps[c].rel[2] + others[c].rel[2]
                   /\ comps[c].empty = others[c].empty
  BY <1>4, ComponentSwaps
<1> HIDE DEF C, comps, others, x, y
<1>6. bound \in Int
  BY <1>2, FS_CardinalityType, SharesAssumption DEF Equal3
<1> HIDE DEF bound
<1> DEFINE told(cs, rel, lead, other) ==
             [ lead   |-> lead,
               equal  |-> rel[lead] - rel[other] < bound,
               wins   |-> {c \in C : ~(rel[lead] - rel[other] < bound)
                                       /\ cs[c].rel[lead] - cs[c].rel[other] > Ahead2 * Shares},
               losses |-> {c \in C : ~(rel[lead] - rel[other] < bound)
                                       /\ (cs[c].empty \/ cs[c].rel[lead] - cs[c].rel[other] < Behind2 * Shares)} ]
<1>7. /\ ab.summary = told(comps, x, Ranking(x)[1], Ranking(x)[2])
      /\ ba.summary = told(others, y, Ranking(y)[1], Ranking(y)[2])
  BY <1>3, Zenon DEF Summary, bound
<1>8. /\ Ranking(x)[1] = IF x[2] > x[1] THEN 2 ELSE 1
      /\ Ranking(x)[2] = IF x[2] > x[1] THEN 1 ELSE 2
      /\ Ranking(y)[1] = IF y[2] > y[1] THEN 2 ELSE 1
      /\ Ranking(y)[2] = IF y[2] > y[1] THEN 1 ELSE 2
  BY <1>2, <1>3, RankingOfTwo
<1>9. Ahead2 * Shares \in Int /\ Behind2 * Shares \in Int
  BY SharesAssumption DEF Ahead2, Behind2
<1>13. \A cs, rel, lead, other :
         /\ told(cs, rel, lead, other).equal = (rel[lead] - rel[other] < bound)
         /\ told(cs, rel, lead, other).lead = lead
         /\ told(cs, rel, lead, other).wins
              = {c \in C : ~(rel[lead] - rel[other] < bound)
                             /\ cs[c].rel[lead] - cs[c].rel[other] > Ahead2 * Shares}
         /\ told(cs, rel, lead, other).losses
              = {c \in C : ~(rel[lead] - rel[other] < bound)
                             /\ (cs[c].empty \/ cs[c].rel[lead] - cs[c].rel[other] < Behind2 * Shares)}
  OBVIOUS
<1> HIDE DEF ab, ba, told
<1>10. CASE x[2] > x[1]
  <2>1. y[1] > y[2]
    BY <1>2, <1>10
  <2>2. ab.summary = told(comps, x, 2, 1) /\ ba.summary = told(others, y, 1, 2)
    BY <1>2, <1>7, <1>8, <1>10, <2>1
  <2>3. x[2] - x[1] = y[1] - y[2] /\ \A c \in C : comps[c].rel[2] - comps[c].rel[1] = others[c].rel[1] - others[c].rel[2]
    BY <1>2, <1>5
  <2>4. /\ ab.summary.equal = (x[2] - x[1] < bound) /\ ba.summary.equal = (y[1] - y[2] < bound)
        /\ ab.summary.lead = 2 /\ ba.summary.lead = 1
    BY <1>13, <2>2
  <2>5. ab.summary.wins = ba.summary.wins
    <3>1. ab.summary.wins = {c \in C : ~(x[2] - x[1] < bound) /\ comps[c].rel[2] - comps[c].rel[1] > Ahead2 * Shares}
      BY <1>13, <2>2
    <3>2. ba.summary.wins = {c \in C : ~(y[1] - y[2] < bound) /\ others[c].rel[1] - others[c].rel[2] > Ahead2 * Shares}
      BY <1>13, <2>2
    <3> QED BY <2>3, <3>1, <3>2
  <2>6. ab.summary.losses = ba.summary.losses
    <3>1. ab.summary.losses = {c \in C : ~(x[2] - x[1] < bound)
                                /\ (comps[c].empty \/ comps[c].rel[2] - comps[c].rel[1] < Behind2 * Shares)}
      BY <1>13, <2>2
    <3>2. ba.summary.losses = {c \in C : ~(y[1] - y[2] < bound)
                                /\ (others[c].empty \/ others[c].rel[1] - others[c].rel[2] < Behind2 * Shares)}
      BY <1>13, <2>2
    <3> QED BY <1>5, <2>3, <3>1, <3>2
  <2> QED BY <1>2, <2>3, <2>4, <2>5, <2>6 DEF x, y, ab, ba
<1>11. CASE x[1] > x[2]
  <2>1. y[2] > y[1]
    BY <1>2, <1>11
  <2>2. ab.summary = told(comps, x, 1, 2) /\ ba.summary = told(others, y, 2, 1)
    BY <1>2, <1>7, <1>8, <1>11, <2>1
  <2>3. x[1] - x[2] = y[2] - y[1] /\ \A c \in C : comps[c].rel[1] - comps[c].rel[2] = others[c].rel[2] - others[c].rel[1]
    BY <1>2, <1>5
  <2>4. /\ ab.summary.equal = (x[1] - x[2] < bound) /\ ba.summary.equal = (y[2] - y[1] < bound)
        /\ ab.summary.lead = 1 /\ ba.summary.lead = 2
    BY <1>13, <2>2
  <2>5. ab.summary.wins = ba.summary.wins
    <3>1. ab.summary.wins = {c \in C : ~(x[1] - x[2] < bound) /\ comps[c].rel[1] - comps[c].rel[2] > Ahead2 * Shares}
      BY <1>13, <2>2
    <3>2. ba.summary.wins = {c \in C : ~(y[2] - y[1] < bound) /\ others[c].rel[2] - others[c].rel[1] > Ahead2 * Shares}
      BY <1>13, <2>2
    <3> QED BY <2>3, <3>1, <3>2
  <2>6. ab.summary.losses = ba.summary.losses
    <3>1. ab.summary.losses = {c \in C : ~(x[1] - x[2] < bound)
                                /\ (comps[c].empty \/ comps[c].rel[1] - comps[c].rel[2] < Behind2 * Shares)}
      BY <1>13, <2>2
    <3>2. ba.summary.losses = {c \in C : ~(y[2] - y[1] < bound)
                                /\ (others[c].empty \/ others[c].rel[2] - others[c].rel[1] < Behind2 * Shares)}
      BY <1>13, <2>2
    <3> QED BY <1>5, <2>3, <3>1, <3>2
  <2> QED BY <1>2, <2>3, <2>4, <2>5, <2>6 DEF x, y, ab, ba
<1>12. CASE x[1] = x[2]
  <2>1. y[1] = y[2]
    BY <1>2, <1>12
  <2>2. ab.summary = told(comps, x, 1, 2) /\ ba.summary = told(others, y, 1, 2)
    BY <1>2, <1>7, <1>8, <1>12, <2>1
  <2>3. ab.summary.equal = (x[1] - x[2] < bound) /\ ba.summary.equal = (y[1] - y[2] < bound)
    BY <1>13, <2>2
  <2> QED BY <1>2, <1>12, <2>1, <2>3 DEF x, y, ab, ba
<1> QED BY <1>2, <1>10, <1>11, <1>12

(* Lowering confidences leaves every subtest where it is, and of it all    *)
(* that a comparison reads.                                                *)
LEMMA LoweringSpares ==
  ASSUME NEW raw, Measured(raw), NEW telemetry
  PROVE  LET after == DowngradeThermallyLimited(raw, telemetry)
         IN  /\ DOMAIN after = DOMAIN raw
             /\ \A b \in DOMAIN raw :
                  /\ after[b].id = raw[b].id
                  /\ DOMAIN after[b].subtests = DOMAIN raw[b].subtests
                  /\ \A i \in DOMAIN raw[b].subtests :
                       /\ after[b].subtests[i].id = raw[b].subtests[i].id
                       /\ after[b].subtests[i].dir = raw[b].subtests[i].dir
                       /\ after[b].subtests[i].scored = raw[b].subtests[i].scored
                       /\ after[b].subtests[i].value = raw[b].subtests[i].value
<1> DEFINE low(b, i) == TrustedLess(raw[b].subtests[i])
           peak(b, i) == telemetry.limited /\ raw[b].subtests[i].rep = "peak"
           subs(b) == [i \in DOMAIN raw[b].subtests |-> IF peak(b, i) THEN low(b, i) ELSE raw[b].subtests[i]]
           after == [b \in DOMAIN raw |-> [raw[b] EXCEPT !.subtests = subs(b)]]
<1>1. DowngradeThermallyLimited(raw, telemetry) = after
  BY Zenon DEF DowngradeThermallyLimited
<1>2. \A b \in DOMAIN raw : \A i \in DOMAIN raw[b].subtests : raw[b].subtests[i] \in Subtest
  BY MeasuredIs
<1>3. ASSUME NEW b \in DOMAIN raw, NEW i \in DOMAIN raw[b].subtests
      PROVE  /\ low(b, i).id = raw[b].subtests[i].id
             /\ low(b, i).dir = raw[b].subtests[i].dir
             /\ low(b, i).scored = raw[b].subtests[i].scored
             /\ low(b, i).value = raw[b].subtests[i].value
  <2> DEFINE st == raw[b].subtests[i]
             c  == Downgraded(st.confidence)
             new == [st EXCEPT !.confidence = c]
  <2>1. st \in Subtest
    BY <1>2
  <2>2. low(b, i) = new
    BY DEF TrustedLess
  <2> HIDE DEF st, c
  <2>3. new.id = st.id /\ new.dir = st.dir /\ new.scored = st.scored /\ new.value = st.value
    BY <2>1 DEF Subtest
  <2> HIDE DEF low, new
  <2> QED BY <2>2, <2>3 DEF st
<1> HIDE DEF low
<1>4. ASSUME NEW b \in DOMAIN raw
      PROVE  /\ DOMAIN subs(b) = DOMAIN raw[b].subtests
             /\ \A i \in DOMAIN raw[b].subtests : /\ subs(b)[i].id = raw[b].subtests[i].id
                                                  /\ subs(b)[i].dir = raw[b].subtests[i].dir
                                                  /\ subs(b)[i].scored = raw[b].subtests[i].scored
                                                  /\ subs(b)[i].value = raw[b].subtests[i].value
  BY <1>3
<1> HIDE DEF subs
<1>5. \A b \in DOMAIN raw : after[b].id = raw[b].id /\ after[b].subtests = subs(b)
  <2>1. \A b \in DOMAIN raw : raw[b] \in Benchmark
    BY MeasuredIs
  <2> QED BY <2>1 DEF Benchmark
<1>6. DOMAIN after = DOMAIN raw
  OBVIOUS
<1> HIDE DEF after
<1> QED BY <1>1, <1>4, <1>5, <1>6

(* What the run of a trial wrote.                                          *)
FromTrial(f, trial) ==
  /\ f.raw = DowngradeThermallyLimited(trial.raw, FromSamples(trial.polls))
  /\ f.cpu = trial.cpu
  /\ f.model_ref = ModelRefs(trial.cpu, f.raw, trial.isa)
  /\ \A b \in DOMAIN f.raw : \A st \in Range(f.raw[b].subtests) : st.scored => st.value > 0

(* Two runs are of the same program.                                       *)
LEMMA TrialsSameSpecs ==
  ASSUME NEW f, NEW g, NEW one \in Trials, NEW other \in Trials, FromTrial(f, one), FromTrial(g, other)
  PROVE  SameSpecs(f.raw, g.raw)
<1> DEFINE a == f.raw
           b == g.raw
<1>1. \A trial \in Trials : Measured(trial.raw)
  BY TrialsAssumption
<1>2. ASSUME NEW h, NEW trial \in Trials, FromTrial(h, trial), NEW i \in DOMAIN h.raw
      PROVE  /\ i \in DOMAIN trial.raw /\ h.raw[i].id = trial.raw[i].id
             /\ \A st \in Range(h.raw[i].subtests) : \E su \in Range(trial.raw[i].subtests) :
                  st.id = su.id /\ st.dir = su.dir /\ st.scored = su.scored
  <2> DEFINE t == FromSamples(trial.polls)
  <2>1. h.raw = DowngradeThermallyLimited(trial.raw, t)
    BY <1>2 DEF FromTrial
  <2> HIDE DEF t
  <2>2. /\ i \in DOMAIN trial.raw /\ h.raw[i].id = trial.raw[i].id
        /\ DOMAIN h.raw[i].subtests = DOMAIN trial.raw[i].subtests
        /\ \A j \in DOMAIN trial.raw[i].subtests :
             /\ h.raw[i].subtests[j].id = trial.raw[i].subtests[j].id
             /\ h.raw[i].subtests[j].dir = trial.raw[i].subtests[j].dir
             /\ h.raw[i].subtests[j].scored = trial.raw[i].subtests[j].scored
    BY <1>1, <1>2, <2>1, LoweringSpares
  <2> QED BY <2>2 DEF Range
<1>3. SUFFICES ASSUME NEW i \in DOMAIN a, NEW j \in DOMAIN b, a[i].id = b[j].id,
                      NEW st \in Range(a[i].subtests), NEW su \in Range(b[j].subtests), st.id = su.id
               PROVE  st.dir = su.dir /\ st.scored = su.scored
  BY DEF SameSpecs
<1>7. FromTrial(f, one) /\ FromTrial(g, other)
  OBVIOUS
<1>4. PICK sv \in Range(one.raw[i].subtests) : st.id = sv.id /\ st.dir = sv.dir /\ st.scored = sv.scored
  BY <1>2, <1>7
<1>5. PICK sw \in Range(other.raw[j].subtests) : su.id = sw.id /\ su.dir = sw.dir /\ su.scored = sw.scored
  BY <1>2, <1>7
<1>6. i \in DOMAIN one.raw /\ j \in DOMAIN other.raw /\ one.raw[i].id = other.raw[j].id
  BY <1>2, <1>3, <1>7
<1>8. \A x \in Range(one.raw[i].subtests), y \in Range(other.raw[j].subtests) :
        x.id = y.id => x.dir = y.dir /\ x.scored = y.scored
  BY <1>6, SpecsAssumption
<1> HIDE DEF a, b
<1>9. sv.id = sw.id
  BY <1>3, <1>4, <1>5
<1> QED BY <1>4, <1>5, <1>8, <1>9

(* -- The invariant of what files came from ------------------------------ *)

(* Every file was written by the run of a trial.                           *)
FromTrials == \A i \in 1..Len(origin) : \E trial \in Trials : FromTrial(origin[i], trial)

(* The baseline was made of some files, as their runs wrote them.          *)
FleetOfMembers ==
  fleet # NoFleet =>
    /\ members # {} /\ members \subseteq 1..Len(origin)
    /\ fleet = BaselineFromResults([f \in members |-> origin[f].raw], "fleet")

OriginInv == FromTrials /\ FleetOfMembers

(* A run writes what its trial gives.                                      *)
LEMMA WriteTraces ==
  ASSUME ResultsInv, OriginInv, NEW trial \in Trials, WriteResult(trial)
  PROVE  OriginInv'
<1>1. PICK file : origin' = Append(origin, file) /\ FromTrial(file, trial)
  <2> DEFINE t == FromSamples(trial.polls)
             raw == DowngradeThermallyLimited(trial.raw, t)
             config == Config(Reference.name, trial.profile, trial.curve_k, trial.duration_preset, trial.isa)
             view == ScoreRun(raw, Reference, trial.profile, trial.curve_k)
             note == ThermalNote(raw, t)
             refs == ModelRefs(trial.cpu, raw, trial.isa)
             file == File(trial.cpu, config, raw, view, note, trial.soak, refs, t)
  <2>1. origin' = Append(origin, file)
    BY DEF WriteResult, File, Config, ConfigOf
  <2>2. raw = DowngradeThermallyLimited(trial.raw, FromSamples(trial.polls)) /\ refs = ModelRefs(trial.cpu, raw, trial.isa)
    OBVIOUS
  <2>4. CanScore(raw, Reference, trial.curve_k)
    BY DEF WriteResult
  <2> HIDE DEF t, raw, config, view, note, refs
  <2>3. file.raw = raw /\ file.cpu = trial.cpu /\ file.model_ref = refs
    BY DEF File
  <2>5. \A b \in DOMAIN raw : \A st \in Range(raw[b].subtests) : st.scored => st.value > 0
    BY <2>4 DEF CanScore, Scorable, Range
  <2> HIDE DEF file
  <2> QED BY <2>1, <2>2, <2>3, <2>5 DEF FromTrial
<1>2. PICK S : origin \in Seq(S)
  BY DEF ResultsInv, IInv, Sequences
<1> DEFINE T == S \cup {file}
<1>3. origin \in Seq(T) /\ file \in T
  BY <1>2, SeqMonotonic
<1> HIDE DEF T
<1>4. /\ Len(origin') = Len(origin) + 1 /\ Len(origin) \in Nat
      /\ \A i \in 1..Len(origin) : origin'[i] = origin[i]
      /\ origin'[Len(origin) + 1] = file
  BY <1>1, <1>3, AppendProperties, LenProperties
<1>5. FromTrials'
  <2> SUFFICES ASSUME NEW i \in 1..Len(origin') PROVE \E one \in Trials : FromTrial(origin'[i], one)
    BY DEF FromTrials, FromTrial
  <2>1. CASE i \in 1..Len(origin)
    BY <1>4, <2>1 DEF OriginInv, FromTrials
  <2>2. CASE i = Len(origin) + 1
    BY <1>1, <1>4, <2>2
  <2> QED BY <1>4, <2>1, <2>2
<1>6. FleetOfMembers'
  BY DEF WriteResult, FleetOfMembers
<1> QED BY <1>5, <1>6 DEF OriginInv

(* The baseline is made of what the runs measured.                         *)
LEMMA GenerateTraces ==
  ASSUME ResultsInv, OriginInv, NEW some \in (SUBSET DOMAIN files) \ {{}}, GenerateBaseline(some)
  PROVE  OriginInv'
<1>1. /\ fleet' = BaselineFromResults([f \in some |-> Raws[f]], "fleet")
      /\ members' = some /\ files' = files /\ origin' = origin
  BY DEF GenerateBaseline
<1>2. some # {} /\ some \subseteq 1..Len(origin) /\ some \subseteq DOMAIN files /\ DOMAIN files = 1..Len(files)
  <2>1. Len(files) = Len(origin) /\ DOMAIN files = 1..Len(files)
    BY FilesKeep DEF ResultsInv
  <2>2. some # {} /\ some \subseteq DOMAIN files
    OBVIOUS
  <2> QED BY <2>1, <2>2
<1>3. \A f \in some : Raws[f] = origin[f].raw
  BY <1>2, FilesKeep DEF ResultsInv, Raws
<1>4. [f \in some |-> Raws[f]] = [f \in some |-> origin[f].raw]
  BY <1>3
<1>5. fleet' = BaselineFromResults([f \in some |-> origin[f].raw], "fleet")
  BY <1>1, <1>4
<1>6. FleetOfMembers'
  BY <1>1, <1>2, <1>5 DEF FleetOfMembers
<1>7. FromTrials'
  BY <1>1 DEF OriginInv, FromTrials
<1> QED BY <1>6, <1>7 DEF OriginInv

(* Every file is a trial's, and the baseline is of its members, through    *)
(* any runs and re-scores.                                                 *)
THEOREM OriginInvariance == ResultsSpec => []OriginInv
<1>1. ResultsInit => OriginInv
  BY EmptySeq DEF ResultsInit, OriginInv, FromTrials, FleetOfMembers
<1>2. ResultsInv /\ OriginInv /\ [ResultsNext]_resultVars => OriginInv'
  <2> SUFFICES ASSUME ResultsInv, OriginInv, [ResultsNext]_resultVars PROVE OriginInv'
    OBVIOUS
  <2>1. ASSUME NEW trial \in Trials, WriteResult(trial) PROVE OriginInv'
    BY <2>1, WriteTraces
  <2>2. ASSUME NEW i \in DOMAIN files, NEW b \in Baselines, NEW p \in Profiles, NEW c \in Curves,
               Rescore(i, b, p, c)
        PROVE  OriginInv'
    BY <2>2 DEF Rescore, OriginInv, FromTrials, FleetOfMembers
  <2>3. ASSUME NEW some \in (SUBSET DOMAIN files) \ {{}}, GenerateBaseline(some) PROVE OriginInv'
    BY <2>3, GenerateTraces
  <2>4. CASE UNCHANGED resultVars
    BY <2>4 DEF resultVars, OriginInv, FromTrials, FleetOfMembers
  <2> QED BY <2>1, <2>2, <2>3, <2>4 DEF ResultsNext
<1> QED BY <1>1, <1>2, ResultsInvariance, PTL DEF ResultsSpec

(* The verdict of a comparison does not depend on which of the two files   *)
(* is named first (compare.rs).                                            *)
THEOREM ResultsFileOrderDoesNotMatter == ResultsSpec => []FileOrderDoesNotMatter
<1>1. ResultsInv /\ OriginInv => FileOrderDoesNotMatter
  <2> SUFFICES ASSUME ResultsInv, OriginInv, files = origin, Len(files) = 2
               PROVE  FileOrderDoesNotMatter
    BY DEF FileOrderDoesNotMatter
  <2> DEFINE a == files[1].raw
             b == files[2].raw
             s == [i \in 1..2 |-> files[i].soak]
             t == [i \in 1..2 |-> files[3 - i].soak]
  <2>1. DOMAIN files = 1..2 /\ Len(origin) = 2
    BY FilesKeep DEF ResultsInv
  <2>2. Raws = <<a, b>>
    BY <2>1 DEF Raws
  <2>3. Reverse(Raws) = <<b, a>>
    BY <2>2 DEF Reverse
  <2>4. Measured(a) /\ Known(a) /\ Measured(b) /\ Known(b)
    BY <2>1 DEF ResultsInv, RunsSound, RunSound
  <2>5. SameSpecs(a, b)
    <3>1. PICK one \in Trials : FromTrial(files[1], one)
      BY <2>1 DEF OriginInv, FromTrials
    <3>2. PICK other \in Trials : FromTrial(files[2], other)
      BY <2>1 DEF OriginInv, FromTrials
    <3> QED BY <3>1, <3>2, TrialsSameSpecs
  <2> HIDE DEF a, b, s, t
  <2>6. Common(<<a, b>>) = Common(<<b, a>>)
    BY CommonSame
  <2> DEFINE ab == Compare(<<a, b>>, s)
             ba == Compare(<<b, a>>, t)
  <2>7. /\ ab.rel[1] - ab.rel[2] = -(ba.rel[1] - ba.rel[2])
        /\ ab.summary.equal = ba.summary.equal
        /\ ab.rel[1] - ab.rel[2] # 0 =>
             /\ ab.summary.lead = 3 - ba.summary.lead
             /\ ab.summary.wins = ba.summary.wins
             /\ ab.summary.losses = ba.summary.losses
    BY <2>4, <2>5, VerdictSwaps
  <2>8. ab = Compare(Raws, [i \in 1..2 |-> files[i].soak]) /\ ba = Compare(Reverse(Raws), [i \in 1..2 |-> files[3 - i].soak])
    BY <2>2, <2>3 DEF s, t
  <2> HIDE DEF ab, ba
  <2> QED BY <2>2, <2>3, <2>6, <2>7, <2>8 DEF FileOrderDoesNotMatter
<1> QED BY <1>1, ResultsInvariance, OriginInvariance, PTL

(* A model's synthetic file has its values, and nothing else.              *)
LEMMA SynthIs ==
  ASSUME NEW c, NEW specs, IsSeq(specs), NEW values, DOMAIN values \subseteq Ids(specs)
  PROVE  /\ Ids(SyntheticRaw(c, values, specs)) = {c}
         /\ Ids(OfId(SyntheticRaw(c, values, specs), c).subtests) = DOMAIN values
         /\ \A s \in DOMAIN values : SubtestOf(SyntheticRaw(c, values, specs), c, s).value = values[s]
<1> DEFINE keep == [i \in DOMAIN specs |-> specs[i].id \in DOMAIN values]
           known == Where(specs, LAMBDA sp : sp.id \in DOMAIN values)
           subs == [i \in DOMAIN known |->
                      [id |-> known[i].id, dir |-> "higher", rep |-> "median", scored |-> TRUE,
                       value |-> values[known[i].id], confidence |-> "high"]]
           b == <<[id |-> c, subtests |-> subs]>>
<1>1. SyntheticRaw(c, values, specs) = b
  BY Zenon DEF SyntheticRaw
<1>2. Range(known) = {specs[i] : i \in {j \in DOMAIN specs : specs[j].id \in DOMAIN values}}
  <2>1. known = FlattenSeq([i \in DOMAIN specs |-> IF keep[i] THEN <<specs[i]>> ELSE <<>>])
    <3>1. \A i \in DOMAIN specs : keep[i] <=> specs[i].id \in DOMAIN values
      OBVIOUS
    <3> QED BY <3>1 DEF Where
  <2>2. keep \in [DOMAIN specs -> BOOLEAN]
    OBVIOUS
  <2>3. \A i \in DOMAIN specs : keep[i] <=> specs[i].id \in DOMAIN values
    OBVIOUS
  <2> HIDE DEF keep, known
  <2> QED BY <2>1, <2>2, <2>3, KeptIs
<1> HIDE DEF known
<1>3. /\ DOMAIN subs = DOMAIN known
      /\ \A i \in DOMAIN known : subs[i].id = known[i].id /\ subs[i].value = values[known[i].id]
  OBVIOUS
<1>4. \A s \in DOMAIN values : \E i \in DOMAIN known : known[i].id = s
  BY <1>2 DEF Ids, Range
<1>5. \A i \in DOMAIN known : known[i].id \in DOMAIN values
  BY <1>2 DEF Range
<1> HIDE DEF subs
<1>6. Ids(subs) = DOMAIN values
  <2>1. Ids(subs) \subseteq DOMAIN values
    BY <1>3, <1>5 DEF Ids
  <2>2. DOMAIN values \subseteq Ids(subs)
    <3> SUFFICES ASSUME NEW s \in DOMAIN values PROVE s \in Ids(subs)
      OBVIOUS
    <3>1. PICK i \in DOMAIN known : known[i].id = s
      BY <1>4
    <3>2. i \in DOMAIN subs /\ subs[i].id = s
      BY <1>3, <3>1
    <3> QED BY <3>2 DEF Ids
  <2> QED BY <2>1, <2>2
<1>7. ASSUME NEW s \in DOMAIN values
      PROVE  OfId(subs, s).value = values[s]
  <2>1. \E i \in DOMAIN subs : subs[i].id = s
    BY <1>3, <1>4
  <2> DEFINE i == CHOOSE j \in DOMAIN subs : subs[j].id = s
  <2>2. i \in DOMAIN subs /\ subs[i].id = s
    BY <2>1
  <2>3. OfId(subs, s) = subs[i]
    BY DEF OfId
  <2> HIDE DEF i
  <2> QED BY <1>3, <2>2, <2>3
<1>8. Ids(b) = {c} /\ OfId(b, c).subtests = subs
  <2>1. DOMAIN b = {1} /\ b[1].id = c /\ b[1].subtests = subs
    OBVIOUS
  <2> HIDE DEF b
  <2>2. Ids(b) = {c}
    BY <2>1 DEF Ids
  <2>3. OfId(b, c) = b[1]
    BY <2>1 DEF OfId
  <2> QED BY <2>1, <2>2, <2>3
<1> HIDE DEF b
<1> QED BY <1>1, <1>6, <1>7, <1>8 DEF SubtestOf

(* What a file says of its model and what the comparison with the model's  *)
(* synthetic file says.                                                    *)
LEMMA ModelAgrees ==
  ASSUME NEW a, Measured(a), Known(a), "cpu" \in Ids(a), NEW values,
         DOMAIN values \subseteq Ids(CpuSpecs), \A s \in DOMAIN values : values[s] \in DOMAIN Log \ {0},
         \A b \in DOMAIN a : \A st \in Range(a[b].subtests) :
           /\ st.scored => st.value > 0
           /\ a[b].id = "cpu" /\ st.id \in Ids(CpuSpecs) => st.scored,
         Overlap(OfId(a, "cpu"), values) # {}, NEW isa, NEW soaks
  PROVE  LET both == <<a, SyntheticRaw("cpu", values, CpuSpecs)>>
             rel == Compare(both, soaks).rel
             ref == AgainstModel(OfId(a, "cpu"), values, isa)
         IN  /\ Common(both) # {}
             /\ ref.delta = rel[1] - rel[2] /\ rel[1] = 0 /\ rel[2] \in Int
             /\ ref.verdict = Verdict(rel[1] - rel[2], isa)
<1> DEFINE b == SyntheticRaw("cpu", values, CpuSpecs)
           bench == OfId(a, "cpu")
           S == Overlap(bench, values)
           r == <<a, b>>
           f == [s \in S |-> ModelRatio(OfId(bench.subtests, s), values[s])]
           n == Shares \div Cardinality(S)
<1>1. /\ Ids(b) = {"cpu"} /\ Ids(OfId(b, "cpu").subtests) = DOMAIN values
      /\ \A s \in DOMAIN values : SubtestOf(b, "cpu", s).value = values[s]
  <2>1. IsSeq(CpuSpecs)
    BY ModelsAssumption, SeqIs
  <2>2. DOMAIN values \subseteq Ids(CpuSpecs)
    OBVIOUS
  <2> HIDE DEF S, f, n, bench
  <2> HIDE DEF b
  <2> QED BY <2>1, <2>2, SynthIs DEF b
<1> HIDE DEF b
<1>2. \A s \in Ids(bench.subtests) :
        LET st == SubtestOf(a, "cpu", s)
        IN  /\ st \in Subtest /\ st.value \in {0} \cup DOMAIN Log
            /\ st = OfId(bench.subtests, s)
            /\ st.scored => st.value > 0
            /\ s \in Ids(CpuSpecs) => st.scored
  <2> TAKE s \in Ids(bench.subtests)
  <2>1. PICK d \in DOMAIN a : /\ a[d].id = "cpu"
                              /\ \E i \in DOMAIN a[d].subtests :
                                   /\ a[d].subtests[i].id = s /\ SubtestOf(a, "cpu", s) = a[d].subtests[i]
                                   /\ a[d].subtests[i] \in Range(a[d].subtests)
                                   /\ a[d].subtests[i] \in Subtest
    BY FoundIs
  <2>2. SubtestOf(a, "cpu", s).id = s /\ SubtestOf(a, "cpu", s) \in Range(a[d].subtests) /\ SubtestOf(a, "cpu", s) \in Subtest
    BY <2>1
  <2>3. SubtestOf(a, "cpu", s) = OfId(bench.subtests, s)
    BY DEF SubtestOf
  <2> HIDE DEF bench
  <2> QED BY <2>1, <2>2, <2>3 DEF Known
<1>3. Both(a, b, "cpu") = S /\ Counting(a, b, "cpu") = S
  <2>1. Both(a, b, "cpu") = Ids(bench.subtests) \cap DOMAIN values
    BY <1>1 DEF Both
  <2>2. \A s \in Ids(bench.subtests) \cap DOMAIN values :
          s \in S /\ SubtestOf(a, "cpu", s).scored
    <3> TAKE s \in Ids(bench.subtests) \cap DOMAIN values
    <3>1. SubtestOf(a, "cpu", s).scored /\ SubtestOf(a, "cpu", s).value > 0
             /\ SubtestOf(a, "cpu", s) = OfId(bench.subtests, s)
      BY <1>2
    <3>2. values[s] > 0
      BY ScoringAssumption
    <3> HIDE DEF bench
    <3> QED BY <3>1, <3>2 DEF Overlap
  <2>3. S \subseteq Ids(bench.subtests) \cap DOMAIN values
    BY DEF Overlap
  <2> HIDE DEF S, bench
  <2> QED BY <2>1, <2>2, <2>3 DEF Counting
<1>4. Common(r) = {"cpu"}
  <2>1. "cpu" \in Ids(a) /\ "cpu" \in Ids(b) /\ Both(a, b, "cpu") # {}
    BY <1>1, <1>3
  <2>2. \A c \in Common(r) : c \in Ids(b)
    BY CommonSame
  <2>3. "cpu" \in Common(r)
    <3>1. r[1] = a
      OBVIOUS
    <3>2. Shared(r, "cpu") = Both(a, b, "cpu")
      BY <2>1, SharedIs
    <3> HIDE DEF r
    <3> QED BY <2>1, <3>1, <3>2 DEF Common
  <2> HIDE DEF r
  <2> QED BY <1>1, <2>2, <2>3
<1>5. IsFiniteSet(S)
  <2>1. PICK i \in DOMAIN a : OfId(a, "cpu") = a[i]
    BY FoundIs
  <2>2. IsFiniteSet(Ids(bench.subtests))
    BY <2>1, MeasuredIs, IdsFinite
  <2>3. S \subseteq Ids(bench.subtests)
    BY DEF Overlap
  <2> HIDE DEF S, bench
  <2> QED BY <2>2, <2>3, FS_Subset
<1>6. \A s \in S : /\ f[s] \in Int
                   /\ Gap(a, b, "cpu", s) = -f[s] /\ Gap(a, a, "cpu", s) = 0
  <2> TAKE s \in S
  <2> DEFINE st == SubtestOf(a, "cpu", s)
             v == values[s]
  <2>1. s \in Ids(bench.subtests) /\ s \in DOMAIN values
    BY DEF Overlap
  <2>2. st.value > 0 /\ v > 0
    BY <1>2, <2>1 DEF Overlap
  <2>3. st.value \in DOMAIN Log /\ v \in DOMAIN Log /\ st.value \in Nat /\ v \in Nat
    BY <1>2, <2>1, <2>2, ScoringAssumption
  <2>4. Log[st.value] \in Int /\ Log[v] \in Int
    BY <2>3, ScoringAssumption
  <2>5. f[s] = Oriented(st.dir, Log[st.value] - Log[v])
    BY <1>2, <2>1 DEF ModelRatio
  <2>6. Gap(a, b, "cpu", s) = Goodness(v, st.value, st.dir) /\ Gap(a, a, "cpu", s) = Goodness(st.value, st.value, st.dir)
    BY <1>1, <2>1 DEF Gap
  <2> HIDE DEF st, v, f
  <2> QED BY <2>2, <2>3, <2>4, <2>5, <2>6 DEF Goodness, Oriented
<1> DEFINE g == GapsOf(a, b, "cpu")
<1>7. \A s \in S : g[s] = -f[s]
  BY <1>3, <1>6 DEF GapsOf
<1>8. DOMAIN f = S
  OBVIOUS
<1>9. AgainstModel(bench, values, isa)
        = [ component |-> bench.id, delta |-> SumFunction(f) * n, verdict |-> Verdict(SumFunction(f) * n, isa) ]
  BY DEF AgainstModel, MeanRatio
<1> HIDE DEF bench, f, S, g
<1>10. SumFunctionOnSet(g, S) = -SumFunction(f) /\ SumFunction(f) \in Int
  BY <1>5, <1>6, <1>7, <1>8, SumOpposite, SumIs DEF SumFunction
<1>11. S # {}
  BY DEF S, bench
<1>12. /\ ComponentRel(r, "cpu", 1) = 0
       /\ ComponentRel(r, "cpu", 2) = SumFunctionOnSet(g, S) * n
       /\ n \in Int
  <2>1. IsFiniteSet(Counting(a, b, "cpu"))
    BY <1>3, <1>5
  <2>2. \A s \in Counting(a, b, "cpu") : Gap(a, b, "cpu", s) \in Int /\ Gap(a, a, "cpu", s) = 0
    BY <1>3, <1>6
  <2>3. LET T == Counting(a, b, "cpu")
        IN  /\ ComponentRel(<<a, b>>, "cpu", 1) = IF T = {} THEN Shares * ZeroRatio ELSE 0
            /\ ComponentRel(<<a, b>>, "cpu", 2) = IF T = {} THEN Shares * ZeroRatio
                                               ELSE SumFunctionOnSet(GapsOf(a, b, "cpu"), T) * (Shares \div Cardinality(T))
            /\ T # {} => Shares \div Cardinality(T) \in Int
    BY <1>4, <2>1, <2>2, RelOf
  <2> QED BY <1>3, <1>11, <2>3 DEF g
<1>13. /\ Compare(r, soaks).rel[1] = 0
       /\ Compare(r, soaks).rel[2] = SumFunctionOnSet(g, S) * n
  <2>1. Compare(r, soaks).rel[1] = RelSum(a, b, 1) /\ Compare(r, soaks).rel[2] = RelSum(a, b, 2)
    BY CompareIs
  <2>2. ASSUME NEW m \in {1, 2}
        PROVE  RelSum(a, b, m) = ComponentRel(r, "cpu", m)
    <3> DEFINE h == [c \in Common(r) |-> ComponentRel(r, c, m)]
    <3>1. h["cpu"] = ComponentRel(r, "cpu", m)
      BY <1>4
    <3>2. RelSum(a, b, m) = SumFunctionOnSet(h, {"cpu"})
      BY <1>4 DEF RelSum
    <3>3. ComponentRel(r, "cpu", m) \in Int
      BY <1>10, <1>12
    <3> HIDE DEF h
    <3>4. SumFunctionOnSet(h, {"cpu"}) = h["cpu"] * Cardinality({"cpu"})
      BY <3>1, <3>3, FS_Singleton, SumConst
    <3>5. Cardinality({"cpu"}) = 1
      BY FS_Singleton
    <3> QED BY <3>1, <3>2, <3>3, <3>4, <3>5
  <2> QED BY <1>12, <2>1, <2>2
<1> DEFINE x == SumFunction(f)
<1>14. x * n = -(SumFunctionOnSet(g, S) * n) /\ SumFunctionOnSet(g, S) * n \in Int
  <2>1. x \in Int /\ n \in Int /\ SumFunctionOnSet(g, S) = -x
    BY <1>10, <1>12
  <2> HIDE DEF x, n
  <2> QED BY <2>1
<1> HIDE DEF r, n
<1> QED BY <1>4, <1>9, <1>13, <1>14 DEF r, b, bench

(* The two ways to hold a machine against its model say the same           *)
(* (scoring/models.rs and compare.rs): the same margin to the last share,  *)
(* and a match is within the bounds of a match.                            *)
THEOREM ResultsReferencesAgree == ResultsSpec => []ReferencesAgree
<1>1. ResultsInv /\ OriginInv => ReferencesAgree
  <2> SUFFICES ASSUME ResultsInv, OriginInv, files = origin, NEW i \in DOMAIN files, files[i].model_ref # <<>>
               PROVE  LET f       == files[i]
                          refs    == f.model_ref
                          both    == <<f.raw, SyntheticRaw("cpu", Models[f.cpu], CpuSpecs)>>
                          against == Compare(both, <<<<>>, <<>>>>)
                      IN  /\ Common(both) # {}
                          /\ refs[1].delta = against.rel[1] - against.rel[2]
                          /\ refs[1].verdict = "matches" /\ against.rel[1] < against.rel[2]
                               => against.rel[2] - against.rel[1] <= -Below5 * Shares
    BY DEF ReferencesAgree
  <2> DEFINE f == files[i]
             a == f.raw
             values == Models[f.cpu]
             both == <<a, SyntheticRaw("cpu", values, CpuSpecs)>>
             rel == Compare(both, <<<<>>, <<>>>>).rel
  <2>1. i \in 1..Len(origin) /\ f = origin[i]
    BY FilesKeep DEF ResultsInv
  <2>2. Measured(a) /\ Known(a)
    BY <2>1 DEF ResultsInv, RunsSound, RunSound
  <2>3. PICK trial \in Trials : FromTrial(f, trial)
    BY <2>1 DEF OriginInv, FromTrials
  <2>4. f.model_ref = ModelRefs(f.cpu, a, trial.isa) /\ f.model_ref # <<>>
    BY <2>3 DEF FromTrial
  <2> DEFINE ref == AgainstModel(OfId(a, "cpu"), values, trial.isa)
  <2>5. /\ f.cpu \in DOMAIN Models /\ "cpu" \in Ids(a)
        /\ Overlap(OfId(a, "cpu"), values) # {}
        /\ f.model_ref[1] = ref
    <3> DEFINE told == /\ f.cpu \in DOMAIN Models
                       /\ "cpu" \in Ids(a)
                       /\ Overlap(OfId(a, "cpu"), values) # {}
    <3>1. f.model_ref = IF told THEN <<ref>> ELSE <<>>
      BY <2>4, Zenon DEF ModelRefs
    <3>2. told
      <4> HIDE DEF told
      <4> QED BY <2>4, <3>1
    <3>3. <<ref>>[1] = ref
      <4> HIDE DEF ref
      <4> QED OBVIOUS
    <3> HIDE DEF ref
    <3> QED BY <3>1, <3>2, <3>3
  <2>6. DOMAIN values \subseteq Ids(CpuSpecs) /\ \A s \in DOMAIN values : values[s] \in DOMAIN Log \ {0}
    BY <2>5, ModelsAssumption
  <2>7. \A b \in DOMAIN a : \A st \in Range(a[b].subtests) :
          /\ st.scored => st.value > 0
          /\ a[b].id = "cpu" /\ st.id \in Ids(CpuSpecs) => st.scored
    <3> TAKE b \in DOMAIN a
    <3> TAKE st \in Range(a[b].subtests)
    <3>1. st.scored => st.value > 0
      BY <2>3 DEF FromTrial
    <3>2. a[b].id = "cpu" /\ st.id \in Ids(CpuSpecs) => st.scored
      <4> DEFINE t == FromSamples(trial.polls)
                 raw == trial.raw
      <4>1. a = DowngradeThermallyLimited(raw, t) /\ Measured(raw)
        BY <2>3, TrialsAssumption DEF FromTrial
      <4>5. \A d \in DOMAIN raw : \A su \in Range(raw[d].subtests) :
              raw[d].id = "cpu" /\ su.id \in Ids(CpuSpecs) => su.scored
        BY ModelsAssumption
      <4> HIDE DEF t, a, raw
      <4>2. PICK j \in DOMAIN a[b].subtests : st = a[b].subtests[j]
        BY DEF Range
      <4>3. /\ b \in DOMAIN raw /\ a[b].id = raw[b].id
            /\ j \in DOMAIN raw[b].subtests
            /\ st.id = raw[b].subtests[j].id /\ st.scored = raw[b].subtests[j].scored
        BY <4>1, <4>2, LoweringSpares
      <4>4. raw[b].subtests[j] \in Range(raw[b].subtests)
        BY <4>3 DEF Range
      <4> QED BY <4>3, <4>4, <4>5
    <3> QED BY <3>1, <3>2
  <2> HIDE DEF f, a, values
  <2>8. /\ Common(both) # {}
        /\ ref.delta = rel[1] - rel[2] /\ rel[1] = 0 /\ rel[2] \in Int
        /\ ref.verdict = Verdict(rel[1] - rel[2], trial.isa)
    BY <2>2, <2>5, <2>6, <2>7, ModelAgrees
  <2> HIDE DEF rel, both, ref
  <2>9. ref.verdict = "matches" => rel[1] - rel[2] >= Below5 * Shares
    BY <2>8 DEF Verdict
  <2>10. Below5 * Shares \in Int /\ -Below5 * Shares = -(Below5 * Shares)
    BY SharesAssumption DEF Below5
  <2>11. ref.verdict = "matches" /\ rel[1] < rel[2] => rel[2] - rel[1] <= -Below5 * Shares
    <3> DEFINE x == Below5 * Shares
               y == -Below5 * Shares
    <3>1. x \in Int /\ y = -x /\ (ref.verdict = "matches" => rel[1] - rel[2] >= x)
      BY <2>9, <2>10
    <3> HIDE DEF x
    <3>2. y \in Int
      BY <3>1
    <3> HIDE DEF y
    <3>3. ref.verdict = "matches" => rel[2] - rel[1] <= y
      BY <2>8, <3>1, <3>2
    <3> QED BY <3>3 DEF y
  <2> QED BY <2>5, <2>8, <2>11 DEF f, a, values, both, rel
<1> QED BY <1>1, ResultsInvariance, OriginInvariance, PTL

(* -- The baseline of a fleet --------------------------------------------- *)

(* The keys of a run are its scored subtests.                              *)
LEMMA KeysAre ==
  ASSUME NEW raw, Measured(raw)
  PROVE  /\ \A key \in SubtestKeys(raw) :
              /\ key = <<key[1], key[2]>>
              /\ \E b \in DOMAIN raw : \E i \in DOMAIN raw[b].subtests :
                   /\ raw[b].id = key[1] /\ raw[b].subtests[i].id = key[2] /\ raw[b].subtests[i].scored
         /\ \A b \in DOMAIN raw : \A i \in DOMAIN raw[b].subtests :
              /\ raw[b].subtests[i].scored => <<raw[b].id, raw[b].subtests[i].id>> \in SubtestKeys(raw)
              /\ SubtestOf(raw, raw[b].id, raw[b].subtests[i].id) = raw[b].subtests[i]
              /\ raw[b].subtests[i] \in Subtest /\ raw[b].subtests[i] \in Range(raw[b].subtests)
<1> DEFINE of(b) == {<<raw[b].id, raw[b].subtests[i].id>> :
                       i \in {j \in DOMAIN raw[b].subtests : raw[b].subtests[j].scored}}
<1>1. SubtestKeys(raw) = UNION {of(b) : b \in DOMAIN raw}
  BY DEF SubtestKeys
<1>2. ASSUME NEW key \in SubtestKeys(raw)
      PROVE  /\ key = <<key[1], key[2]>>
             /\ \E b \in DOMAIN raw : \E i \in DOMAIN raw[b].subtests :
                  /\ raw[b].id = key[1] /\ raw[b].subtests[i].id = key[2] /\ raw[b].subtests[i].scored
  <2>1. PICK b \in DOMAIN raw : key \in of(b)
    BY <1>1
  <2>2. PICK i \in DOMAIN raw[b].subtests :
          raw[b].subtests[i].scored /\ key = <<raw[b].id, raw[b].subtests[i].id>>
    BY <2>1
  <2> QED BY <2>2
<1>3. ASSUME NEW b \in DOMAIN raw, NEW i \in DOMAIN raw[b].subtests
      PROVE  /\ raw[b].subtests[i].scored => <<raw[b].id, raw[b].subtests[i].id>> \in SubtestKeys(raw)
             /\ SubtestOf(raw, raw[b].id, raw[b].subtests[i].id) = raw[b].subtests[i]
             /\ raw[b].subtests[i] \in Subtest /\ raw[b].subtests[i] \in Range(raw[b].subtests)
  <2> DEFINE seq == raw[b].subtests
  <2>1. seq[i].scored => <<raw[b].id, seq[i].id>> \in SubtestKeys(raw)
    BY <1>1
  <2>2. OfId(raw, raw[b].id) = raw[b]
    BY MeasuredIs, OfIdIs
  <2>3. \A j, k \in DOMAIN seq : seq[j].id = seq[k].id => j = k
    BY DEF Measured
  <2>4. seq[i] \in Range(seq) /\ seq[i] \in Subtest
    BY MeasuredIs DEF Range
  <2>6. i \in DOMAIN seq
    OBVIOUS
  <2>5. OfId(seq, seq[i].id) = seq[i]
    <3> HIDE DEF seq
    <3> QED BY <2>3, <2>6, OfIdIs
  <2> QED BY <2>1, <2>2, <2>4, <2>5 DEF SubtestOf
<1> QED BY <1>2, <1>3

(* The runs that have a subtest, and what they measured.                   *)
HavingKey(raws, key) == {f \in DOMAIN raws : key \in SubtestKeys(raws[f])}
LogIn(raw, key) == Log[SubtestOf(raw, key[1], key[2]).value]

(* What a baseline averages is what those runs measured.                   *)
LEMMA ValuesAre ==
  ASSUME NEW raws, \A f \in DOMAIN raws : Measured(raws[f]), NEW key, key = <<key[1], key[2]>>
  PROVE  ValuesOf(raws, key[1], key[2]) = [f \in HavingKey(raws, key) |-> LogIn(raws[f], key)]
<1> DEFINE c == key[1]
           s == key[2]
           has(f) == \E d \in DOMAIN raws[f] :
                       /\ raws[f][d].id = c
                       /\ \E j \in DOMAIN raws[f][d].subtests :
                            raws[f][d].subtests[j].id = s /\ raws[f][d].subtests[j].scored
           at(f) == CHOOSE d \in DOMAIN raws[f] : raws[f][d].id = c
           sub(f) == CHOOSE j \in DOMAIN raws[f][at(f)].subtests : raws[f][at(f)].subtests[j].id = s
           value(f) == Log[raws[f][at(f)].subtests[sub(f)].value]
           some == {f \in DOMAIN raws : has(f)}
<1>1. ValuesOf(raws, c, s) = [f \in some |-> value(f)]
  BY Zenon DEF ValuesOf
<1>2. \A f : value(f) = LogIn(raws[f], key)
  BY DEF LogIn, SubtestOf, OfId
<1>3. \A f \in DOMAIN raws : has(f) <=> key \in SubtestKeys(raws[f])
  <2> TAKE f \in DOMAIN raws
  <2>1. ASSUME has(f) PROVE key \in SubtestKeys(raws[f])
    <3>1. PICK d \in DOMAIN raws[f] :
            /\ raws[f][d].id = c
            /\ \E j \in DOMAIN raws[f][d].subtests :
                 raws[f][d].subtests[j].id = s /\ raws[f][d].subtests[j].scored
      BY <2>1
    <3>2. PICK j \in DOMAIN raws[f][d].subtests :
            raws[f][d].subtests[j].id = s /\ raws[f][d].subtests[j].scored
      BY <3>1
    <3>3. <<raws[f][d].id, raws[f][d].subtests[j].id>> \in SubtestKeys(raws[f])
      BY <3>2, KeysAre
    <3> QED BY <3>1, <3>2, <3>3
  <2>2. ASSUME key \in SubtestKeys(raws[f]) PROVE has(f)
    BY <2>2, KeysAre
  <2> QED BY <2>1, <2>2
<1>4. some = HavingKey(raws, key)
  BY <1>3 DEF HavingKey
<1> HIDE DEF some, value
<1> QED BY <1>1, <1>2, <1>4

(* How far a run is from a baseline's reference of a subtest.              *)
RatioOf(raw, baseline, key) == ScoredSubtest(key[1], SubtestOf(raw, key[1], key[2]), baseline, 1).ratio

(* The runs of a baseline: of one program, their scored values positive.   *)
FleetRaws(raws) ==
  /\ IsFiniteSet(DOMAIN raws)
  /\ \A f \in DOMAIN raws : Measured(raws[f]) /\ Positive(raws[f])
  /\ \A f, g \in DOMAIN raws : SameSpecs(raws[f], raws[g])

(* A baseline's reference of a subtest.                                    *)
LEMMA RefIs ==
  ASSUME NEW raws, FleetRaws(raws), NEW name
  PROVE  LET base == BaselineFromResults(raws, name)
         IN  /\ DOMAIN base.ref = UNION {SubtestKeys(raws[f]) : f \in DOMAIN raws}
             /\ \A key \in DOMAIN base.ref :
                  LET H == HavingKey(raws, key)
                      logs == [f \in H |-> LogIn(raws[f], key)]
                  IN  /\ key = <<key[1], key[2]>>
                      /\ H # {} /\ IsFiniteSet(H)
                      /\ \A f \in H : logs[f] \in Int
                      /\ base.ref[key] = SumFunctionOnSet(logs, H) \div Cardinality(H)
<1> DEFINE keys == UNION {SubtestKeys(raws[f]) : f \in DOMAIN raws}
           mean(key) == LET vs == ValuesOf(raws, key[1], key[2])
                        IN  SumFunction(vs) \div Cardinality(DOMAIN vs)
           ref == [key \in keys |-> mean(key)]
<1>1. BaselineFromResults(raws, name) = [name |-> name, ref |-> ref]
  BY Zenon DEF BaselineFromResults
<1>2. ASSUME NEW key \in keys
      PROVE  LET H == HavingKey(raws, key)
                 logs == [f \in H |-> LogIn(raws[f], key)]
             IN  /\ key = <<key[1], key[2]>>
                 /\ H # {} /\ IsFiniteSet(H)
                 /\ \A f \in H : logs[f] \in Int
                 /\ mean(key) = SumFunctionOnSet(logs, H) \div Cardinality(H)
  <2> DEFINE H == HavingKey(raws, key)
             logs == [f \in H |-> LogIn(raws[f], key)]
  <2>1. PICK g \in DOMAIN raws : key \in SubtestKeys(raws[g])
    OBVIOUS
  <2>2. key = <<key[1], key[2]>>
    BY <2>1, KeysAre DEF FleetRaws
  <2>3. g \in H /\ H \subseteq DOMAIN raws
    BY <2>1 DEF HavingKey
  <2>4. IsFiniteSet(H)
    BY <2>3, FS_Subset DEF FleetRaws
  <2>5. ASSUME NEW f \in H PROVE LogIn(raws[f], key) \in Int
    <3> DEFINE raw == raws[f]
    <3>1. Measured(raw) /\ Positive(raw) /\ key \in SubtestKeys(raw)
      BY <2>3 DEF FleetRaws, HavingKey
    <3> HIDE DEF raw
    <3>2. PICK b \in DOMAIN raw : \E i \in DOMAIN raw[b].subtests :
            raw[b].id = key[1] /\ raw[b].subtests[i].id = key[2] /\ raw[b].subtests[i].scored
      BY <3>1, KeysAre
    <3>3. PICK i \in DOMAIN raw[b].subtests :
            raw[b].id = key[1] /\ raw[b].subtests[i].id = key[2] /\ raw[b].subtests[i].scored
      BY <3>2
    <3>4. SubtestOf(raw, key[1], key[2]) = raw[b].subtests[i] /\ raw[b].subtests[i] \in Range(raw[b].subtests)
      BY <3>1, <3>3, KeysAre
    <3>5. raw[b].subtests[i].value \in DOMAIN Log
      BY <3>1, <3>3, <3>4 DEF Positive
    <3>6. LogIn(raw, key) \in Int
      BY <3>4, <3>5, ScoringAssumption DEF LogIn
    <3> QED BY <3>6 DEF raw
  <2>6. ValuesOf(raws, key[1], key[2]) = logs
    BY <2>2, ValuesAre DEF FleetRaws
  <2>7. \A f \in H : logs[f] \in Int
    BY <2>5
  <2>8. DOMAIN logs = H
    OBVIOUS
  <2> HIDE DEF H, logs
  <2>9. mean(key) = SumFunctionOnSet(logs, H) \div Cardinality(H)
    BY <2>6, <2>8 DEF SumFunction
  <2> HIDE DEF mean
  <2> QED BY <2>2, <2>3, <2>4, <2>7, <2>9 DEF H, logs
<1> HIDE DEF mean, keys
<1>3. DOMAIN ref = keys /\ \A key \in keys : ref[key] = mean(key)
  OBVIOUS
<1> HIDE DEF ref
<1>4. BaselineFromResults(raws, name).ref = ref
  BY <1>1
<1> QED BY <1>2, <1>3, <1>4 DEF keys

(* Of a subtest, the runs that have it average the reference to within     *)
(* what rounding it lost.                                                  *)
LEMMA KeyCentred ==
  ASSUME NEW raws, FleetRaws(raws), NEW name, NEW key \in DOMAIN BaselineFromResults(raws, name).ref
  PROVE  LET base == BaselineFromResults(raws, name)
             H == HavingKey(raws, key)
             ratios == [f \in H |-> RatioOf(raws[f], base, key)]
         IN  /\ IsFiniteSet(H) /\ H # {} /\ \A f \in H : ratios[f] \in Int
             /\ SumFunctionOnSet(ratios, H) <= Cardinality(H) - 1
             /\ -SumFunctionOnSet(ratios, H) <= Cardinality(H) - 1
<1> DEFINE base == BaselineFromResults(raws, name)
           H == HavingKey(raws, key)
           ratios == [f \in H |-> RatioOf(raws[f], base, key)]
           logs == [f \in H |-> LogIn(raws[f], key)]
           S == SumFunctionOnSet(logs, H)
           n == Cardinality(H)
           mean == base.ref[key]
<1>1. /\ key = <<key[1], key[2]>> /\ H # {} /\ IsFiniteSet(H) /\ \A f \in H : logs[f] \in Int
      /\ mean = S \div n
  BY RefIs
<1>2. S \in Int /\ n \in Nat \ {0}
  <2> HIDE DEF logs, H
  <2> QED BY <1>1, SumIs, FS_CardinalityType, FS_EmptySet
<1>3. mean \in Int /\ n * mean <= S /\ S <= n * mean + (n - 1)
  <2> HIDE DEF S, n, mean
  <2>1. mean = S \div n /\ S = n * (S \div n) + (S % n) /\ S % n \in 0..(n - 1) /\ S \div n \in Int
    BY <1>1, <1>2
  <2> QED BY <1>2, <2>1
<1>4. PICK first \in H : TRUE
  BY <1>1
<1> DEFINE dir == SubtestOf(raws[first], key[1], key[2]).dir
<1>5. ASSUME NEW f \in H
      PROVE  SubtestOf(raws[f], key[1], key[2]).dir = dir /\ dir \in {"higher", "lower"}
  <2>1. ASSUME NEW g \in H
        PROVE  /\ Measured(raws[g]) /\ g \in DOMAIN raws
               /\ \E b \in DOMAIN raws[g] : /\ raws[g][b].id = key[1]
                    /\ SubtestOf(raws[g], key[1], key[2]) \in Range(raws[g][b].subtests)
                    /\ SubtestOf(raws[g], key[1], key[2]).id = key[2]
                    /\ SubtestOf(raws[g], key[1], key[2]) \in Subtest
    <3>1. Measured(raws[g]) /\ g \in DOMAIN raws /\ key \in SubtestKeys(raws[g])
      BY DEF FleetRaws, HavingKey
    <3>2. PICK b \in DOMAIN raws[g] : \E i \in DOMAIN raws[g][b].subtests :
            raws[g][b].id = key[1] /\ raws[g][b].subtests[i].id = key[2] /\ raws[g][b].subtests[i].scored
      BY <3>1, KeysAre
    <3> HIDE DEF H
    <3> QED BY <3>1, <3>2, KeysAre
  <2>2. SameSpecs(raws[f], raws[first])
    BY <2>1 DEF FleetRaws
  <2> HIDE DEF H
  <2>3. PICK b \in DOMAIN raws[f] : /\ raws[f][b].id = key[1]
                    /\ SubtestOf(raws[f], key[1], key[2]) \in Range(raws[f][b].subtests)
                    /\ SubtestOf(raws[f], key[1], key[2]).id = key[2]
    BY <2>1
  <2>4. PICK d \in DOMAIN raws[first] : /\ raws[first][d].id = key[1]
                    /\ SubtestOf(raws[first], key[1], key[2]) \in Range(raws[first][d].subtests)
                    /\ SubtestOf(raws[first], key[1], key[2]).id = key[2]
                    /\ SubtestOf(raws[first], key[1], key[2]) \in Subtest
    BY <2>1
  <2> QED BY <2>2, <2>3, <2>4 DEF SameSpecs, Subtest
<1>6. ASSUME NEW f \in H
      PROVE  ratios[f] = Oriented(dir, logs[f] - mean)
  <2> DEFINE st == SubtestOf(raws[f], key[1], key[2])
  <2>1. st.dir = dir /\ <<key[1], key[2]>> = key
    BY <1>1, <1>5
  <2>2. <<key[1], st.id>> = key
    <3>1. f \in DOMAIN raws /\ Measured(raws[f]) /\ key \in SubtestKeys(raws[f])
      BY DEF FleetRaws, HavingKey
    <3>2. PICK b \in DOMAIN raws[f] : \E i \in DOMAIN raws[f][b].subtests :
            raws[f][b].id = key[1] /\ raws[f][b].subtests[i].id = key[2] /\ raws[f][b].subtests[i].scored
      BY <3>1, KeysAre
    <3>3. st.id = key[2]
      BY <3>1, <3>2, KeysAre
    <3> QED BY <2>1, <3>3
  <2>3. logs[f] = Log[st.value] /\ ratios[f] = RatioOf(raws[f], base, key)
    BY DEF LogIn
  <2> HIDE DEF st, base, dir, H, logs
  <2>4. RatioOf(raws[f], base, key) = Oriented(st.dir, Log[st.value] - base.ref[<<key[1], st.id>>])
    BY DEF RatioOf, ScoredSubtest, st
  <2> QED BY <2>1, <2>2, <2>3, <2>4
<1> DEFINE up == [f \in H |-> logs[f] - mean]
           level == [f \in H |-> -mean]
<1>7. \A f \in H : up[f] = logs[f] + level[f] /\ level[f] = -mean /\ -mean \in Int /\ up[f] \in Int /\ logs[f] \in Int
  BY <1>1, <1>3
<1>8. \A f \in H : up[f] = logs[f] - mean
  OBVIOUS
<1> HIDE DEF H, logs, ratios, base, up, level, mean
<1>9. SumFunctionOnSet(level, H) = (-mean) * n
  BY <1>1, <1>3, <1>7, SumConst
<1>10. SumFunctionOnSet(up, H) = S + SumFunctionOnSet(level, H)
  BY <1>1, <1>7, SumPlus
<1> HIDE DEF S, n
<1>11. SumFunctionOnSet(up, H) = S - n * mean
  BY <1>2, <1>3, <1>9, <1>10
<1>12. CASE dir = "higher"
  <2>1. \A f \in H : ratios[f] = up[f] /\ ratios[f] \in Int
    BY <1>6, <1>7, <1>8, <1>12 DEF Oriented
  <2>2. SumFunctionOnSet(ratios, H) = SumFunctionOnSet(up, H)
    BY <1>1, <2>1, SumCongruent
  <2> QED BY <1>1, <1>2, <1>3, <1>11, <2>1, <2>2 DEF H, ratios, base, n
<1>13. CASE dir # "higher"
  <2>1. \A f \in H : ratios[f] = -up[f] /\ ratios[f] \in Int
    BY <1>6, <1>7, <1>8, <1>13 DEF Oriented
  <2>2. SumFunctionOnSet(ratios, H) = -SumFunctionOnSet(up, H)
    BY <1>1, <1>7, <2>1, SumOpposite
  <2> QED BY <1>1, <1>2, <1>3, <1>11, <2>1, <2>2 DEF H, ratios, base, n
<1> QED BY <1>12, <1>13

(* What distinct elements name once, they name once each.                  *)
NamedOnce(s) == \A i, j \in DOMAIN s : s[i].id = s[j].id => i = j

(* A sum over the elements of a sequence is one over their names, and      *)
(* there are as many.                                                      *)
LEMMA SumByName ==
  ASSUME NEW s, IsSeq(s), NamedOnce(s), NEW f, NEW g,
         \A i \in DOMAIN s : f[i] \in Int /\ f[i] = g[s[i].id]
  PROVE  /\ IsFiniteSet(Ids(s)) /\ Cardinality(Ids(s)) = Len(s)
         /\ SumFunctionOnSet(f, DOMAIN s) = SumFunctionOnSet(g, Ids(s))
<1> DEFINE D == DOMAIN s
           T == Ids(s)
           w == [i \in D |-> s[i].id]
           ones == [i \in D |-> 1]
           units == [c \in T |-> 1]
<1>1. IsFiniteSet(D) /\ Cardinality(D) = Len(s) /\ Len(s) \in Nat
  <2>1. DOMAIN s = 1..Len(s) /\ Len(s) \in Nat
    BY IsSeqFacts
  <2>2. IsFiniteSet(1..Len(s)) /\ Cardinality(1..Len(s)) = IF 1 > Len(s) THEN 0 ELSE Len(s) - 1 + 1
    BY <2>1, FS_Interval
  <2>3. Cardinality(1..Len(s)) = Len(s)
    BY <2>1, <2>2
  <2> QED BY <2>1, <2>2, <2>3
<1>2. IsFiniteSet(T)
  BY IdsFinite
<1>3. /\ \A i \in D : w[i] \in T /\ w[i] = s[i].id
      /\ \A y \in T : \E i \in D : w[i] = y
      /\ \A i, j \in D : w[i] = w[j] => i = j
  BY DEF Ids, NamedOnce
<1>4. \A i \in D : f[i] = g[w[i]]
  OBVIOUS
<1>5. \A i \in D : ones[i] = 1 /\ ones[i] \in Int /\ ones[i] = units[w[i]]
  BY <1>3
<1>6. \A c \in T : units[c] = 1
  OBVIOUS
<1> HIDE DEF D, T, w, ones, units
<1>7. SumFunctionOnSet(f, D) = SumFunctionOnSet(g, T)
  <2>1. \A i \in D : f[i] \in Int
    BY DEF D
  <2>2. Renames(w, D, T, f, g)
    BY <1>3, <1>4, <2>1 DEF Renames
  <2> QED BY <1>1, <2>2, SumBehind
<1>8. SumFunctionOnSet(ones, D) = SumFunctionOnSet(units, T)
  BY <1>1, <1>3, <1>5, SumRenamed
<1>9. SumFunctionOnSet(ones, D) = 1 * Cardinality(D)
  BY <1>1, <1>5, SumConst
<1>10. SumFunctionOnSet(units, T) = 1 * Cardinality(T)
  BY <1>2, <1>6, SumConst
<1>11. Cardinality(T) \in Nat
  BY <1>2, FS_CardinalityType
<1>12. Cardinality(T) = Len(s)
  <2>1. \A x \in Nat : 1 * x = x
    OBVIOUS
  <2>2. 1 * Cardinality(D) = Cardinality(D) /\ 1 * Cardinality(T) = Cardinality(T)
    BY <1>1, <1>11, <2>1
  <2> QED BY <1>1, <1>8, <1>9, <1>10, <2>2
<1> QED BY <1>2, <1>7, <1>12 DEF D, T

(* The score of a component of which everything is scored is the floored   *)
(* mean of its subtests' scores.                                           *)
LEMMA ComponentMean ==
  ASSUME NEW bench, IsSeq(bench.subtests), bench.subtests # <<>>, NamedOnce(bench.subtests),
         \A st \in Range(bench.subtests) : st.scored = TRUE,
         NEW baseline, NEW k, NEW g,
         \A st \in Range(bench.subtests) : /\ g[st.id] \in Int
                                           /\ ScoredSubtest(bench.id, st, baseline, k).score = g[st.id]
  PROVE  /\ Ids(bench.subtests) # {} /\ IsFiniteSet(Ids(bench.subtests))
         /\ ScoredComponent(bench, baseline, k).score
              = SumFunctionOnSet(g, Ids(bench.subtests)) \div Cardinality(Ids(bench.subtests))
<1> DEFINE seq == bench.subtests
           keep == [i \in DOMAIN seq |-> seq[i].scored]
           scored == FlattenSeq([i \in DOMAIN seq |-> IF keep[i] THEN <<seq[i]>> ELSE <<>>])
           other == Where(bench.subtests, LAMBDA st : ~st.scored)
           subs == [i \in DOMAIN scored |-> ScoredSubtest(bench.id, scored[i], baseline, k)]
           scores == [i \in DOMAIN subs |-> subs[i].score]
<1>1. keep \in [DOMAIN seq -> BOOLEAN] /\ \A i \in DOMAIN seq : keep[i] = TRUE
  BY DEF Range
<1>2. Where(bench.subtests, LAMBDA st : st.scored) = scored
  <2>1. [i \in DOMAIN seq |-> IF seq[i].scored THEN <<seq[i]>> ELSE <<>>]
          = [i \in DOMAIN seq |-> IF keep[i] THEN <<seq[i]>> ELSE <<>>]
    OBVIOUS
  <2>2. Where(bench.subtests, LAMBDA st : st.scored)
          = FlattenSeq([i \in DOMAIN seq |-> IF seq[i].scored THEN <<seq[i]>> ELSE <<>>])
    BY Zenon DEF Where
  <2> QED BY <2>1, <2>2
<1>3. IsSeq(scored) /\ Range(scored) = {seq[i] : i \in {j \in DOMAIN seq : keep[j]}} /\ Once(scored)
  <2>1. IsSeq(seq) /\ Once(seq)
    BY DEF NamedOnce, Once
  <2> HIDE DEF keep, seq
  <2> QED BY <1>1, <2>1, KeptIs, KeptOnce
<1>4. Range(scored) = Range(seq)
  <2> HIDE DEF scored
  <2> QED BY <1>1, <1>3 DEF Range
<1>5. ScoredComponent(bench, baseline, k)
        = [ id            |-> bench.id,
            graded        |-> bench.id \notin UngradedComponents,
            score         |-> MeanScore(scores),
            confidence    |-> Weakest({subs[i].confidence : i \in DOMAIN subs}),
            subtests      |-> subs,
            informational |-> other ]
  BY <1>2, Zenon DEF ScoredComponent, other
<1> HIDE DEF scored, other
<1>6. NamedOnce(scored) /\ Ids(scored) = Ids(seq) /\ scored # <<>>
  <2>1. \A s \in Range(seq), t \in Range(seq) : s.id = t.id => s = t
    BY DEF NamedOnce, Range
  <2>2. \A i \in DOMAIN scored : scored[i] \in Range(seq)
    BY <1>4 DEF Range
  <2>3. NamedOnce(scored)
    BY <1>3, <2>1, <2>2 DEF NamedOnce, Once
  <2>4. Ids(scored) = {st.id : st \in Range(scored)} /\ Ids(seq) = {st.id : st \in Range(seq)}
    BY DEF Ids, Range
  <2>5. Range(seq) # {}
    <3> HIDE DEF seq
    <3>1. seq \in Seq(Range(seq)) /\ seq # <<>>
      BY DEF IsSeq, seq
    <3>2. Len(seq) \in Nat /\ Len(seq) # 0 /\ DOMAIN seq = 1..Len(seq)
      BY <3>1
    <3>3. 1 \in DOMAIN seq
      BY <3>2
    <3> QED BY <3>3 DEF Range
  <2>6. scored # <<>>
    BY <1>4, <2>5, SeqOfNone
  <2> QED BY <1>4, <2>3, <2>4, <2>6
<1>7. DOMAIN scores = DOMAIN scored /\ \A i \in DOMAIN scored : scores[i] = g[scored[i].id] /\ scores[i] \in Int
  <2>1. \A i \in DOMAIN scored : scored[i] \in Range(seq)
    BY <1>4 DEF Range
  <2>2. \A i \in DOMAIN scored : scores[i] = ScoredSubtest(bench.id, scored[i], baseline, k).score
    OBVIOUS
  <2>3. DOMAIN scores = DOMAIN scored
    OBVIOUS
  <2> HIDE DEF scores
  <2> QED BY <2>1, <2>2, <2>3
<1>8. /\ IsFiniteSet(Ids(seq)) /\ Cardinality(Ids(seq)) = Len(scored)
      /\ SumFunctionOnSet(scores, DOMAIN scored) = SumFunctionOnSet(g, Ids(seq))
  <2>1. IsSeq(scored) /\ NamedOnce(scored) /\ Ids(scored) = Ids(seq)
    BY <1>3, <1>6
  <2>2. \A i \in DOMAIN scored : scores[i] \in Int /\ scores[i] = g[scored[i].id]
    BY <1>7
  <2> HIDE DEF scores, seq
  <2>3. /\ IsFiniteSet(Ids(scored)) /\ Cardinality(Ids(scored)) = Len(scored)
        /\ SumFunctionOnSet(scores, DOMAIN scored) = SumFunctionOnSet(g, Ids(scored))
    BY <2>1, <2>2, SumByName
  <2> QED BY <2>1, <2>3
<1>9. scores # <<>> /\ Len(scores) = Len(scored) /\ DOMAIN scored = 1..Len(scored) /\ Len(scored) \in Nat \ {0}
  <2>1. DOMAIN scored = 1..Len(scored) /\ Len(scored) \in Nat /\ DOMAIN scores = DOMAIN scored
    BY <1>3, IsSeqFacts
  <2>2. Len(scored) # 0
    BY <1>3, <1>6 DEF IsSeq
  <2>3. scores = [i \in 1..Len(scored) |-> scores[i]]
    BY <2>1
  <2>4. Len(scores) = Len(scored)
    <3> HIDE DEF scores
    <3> QED BY <2>1, <2>3
  <2>5. scores # <<>>
    <3> HIDE DEF scores
    <3> QED BY <2>1, <2>2, <2>4
  <2> QED BY <2>1, <2>2, <2>4, <2>5
<1>10. MeanScore(scores) = SumFunctionOnSet(g, Ids(seq)) \div Cardinality(Ids(seq))
  <2> HIDE DEF scores, seq
  <2> QED BY <1>7, <1>8, <1>9 DEF MeanScore, SumFunction
<1>11. ScoredComponent(bench, baseline, k).score = MeanScore(scores)
  <2> HIDE DEF scores, subs
  <2> QED BY <1>5
<1>12. Ids(seq) # {}
  <2>1. 1 \in DOMAIN scored
    BY <1>9
  <2>2. scored[1].id \in Ids(scored)
    BY <2>1 DEF Ids
  <2> QED BY <1>6, <2>2
<1> QED BY <1>8, <1>10, <1>11, <1>12

(* Against a baseline of just its scored subtests, those are what of a run *)
(* is covered: every component that has one, with all of them.             *)
LEMMA CoveredExactly ==
  ASSUME NEW raw, Measured(raw), NEW baseline, DOMAIN baseline.ref = SubtestKeys(raw)
  PROVE  LET part == CoveredBy(raw, baseline)
         IN  /\ IsSeq(part) /\ NamedOnce(part)
             /\ \A i \in DOMAIN part :
                  /\ IsSeq(part[i].subtests) /\ part[i].subtests # <<>> /\ NamedOnce(part[i].subtests)
                  /\ \E b \in DOMAIN raw :
                       /\ part[i].id = raw[b].id
                       /\ Range(part[i].subtests) = {st \in Range(raw[b].subtests) : st.scored}
             /\ \A key \in SubtestKeys(raw) : key[1] \in Ids(part)
<1> DEFINE kept(b) == Where(raw[b].subtests, LAMBDA st : Knows(baseline, raw[b].id, st.id))
           trimmed == [b \in DOMAIN raw |-> [raw[b] EXCEPT !.subtests = kept(b)]]
           keep == [b \in DOMAIN trimmed |-> trimmed[b].subtests # <<>>]
           part == FlattenSeq([b \in DOMAIN trimmed |-> IF keep[b] THEN <<trimmed[b]>> ELSE <<>>])
<1>1. CoveredBy(raw, baseline) = part
  <2>1. CoveredBy(raw, baseline) = Where(trimmed, LAMBDA bench : bench.subtests # <<>>)
    BY Zenon DEF CoveredBy
  <2>2. Where(trimmed, LAMBDA bench : bench.subtests # <<>>)
          = FlattenSeq([b \in DOMAIN trimmed |-> IF trimmed[b].subtests # <<>> THEN <<trimmed[b]>> ELSE <<>>])
    BY Zenon DEF Where
  <2>3. [b \in DOMAIN trimmed |-> IF trimmed[b].subtests # <<>> THEN <<trimmed[b]>> ELSE <<>>]
          = [b \in DOMAIN trimmed |-> IF keep[b] THEN <<trimmed[b]>> ELSE <<>>]
    <3> HIDE DEF trimmed
    <3> QED OBVIOUS
  <2> HIDE DEF trimmed, keep
  <2> QED BY <2>1, <2>2, <2>3
<1>2. ASSUME NEW b \in DOMAIN raw
      PROVE  /\ IsSeq(kept(b)) /\ NamedOnce(kept(b))
             /\ Range(kept(b)) = {st \in Range(raw[b].subtests) : st.scored}
  <2> DEFINE seq == raw[b].subtests
             known == [i \in DOMAIN seq |-> Knows(baseline, raw[b].id, seq[i].id)]
             some == FlattenSeq([i \in DOMAIN seq |-> IF known[i] THEN <<seq[i]>> ELSE <<>>])
  <2>1. kept(b) = some
    <3>1. kept(b) = FlattenSeq([i \in DOMAIN seq |->
                                  IF Knows(baseline, raw[b].id, seq[i].id) THEN <<seq[i]>> ELSE <<>>])
      BY Zenon DEF Where
    <3>2. [i \in DOMAIN seq |-> IF Knows(baseline, raw[b].id, seq[i].id) THEN <<seq[i]>> ELSE <<>>]
            = [i \in DOMAIN seq |-> IF known[i] THEN <<seq[i]>> ELSE <<>>]
      OBVIOUS
    <3> QED BY <3>1, <3>2
  <2>2. IsSeq(seq) /\ Once(seq) /\ NamedOnce(seq)
    BY MeasuredIs DEF Measured, Once, NamedOnce
  <2>3. known \in [DOMAIN seq -> BOOLEAN]
    BY DEF Knows
  <2>4. ASSUME NEW i \in DOMAIN seq PROVE known[i] = seq[i].scored
    <3>1. seq[i].scored \in BOOLEAN
      BY KeysAre DEF Subtest
    <3>2. ASSUME seq[i].scored PROVE known[i]
      BY <3>2, KeysAre DEF Knows
    <3>3. ASSUME known[i] PROVE seq[i].scored
      <4> DEFINE key == <<raw[b].id, seq[i].id>>
      <4>1. key \in SubtestKeys(raw)
        BY <3>3 DEF Knows
      <4>2. PICK d \in DOMAIN raw : \E j \in DOMAIN raw[d].subtests :
              raw[d].id = key[1] /\ raw[d].subtests[j].id = key[2] /\ raw[d].subtests[j].scored
        BY <4>1, KeysAre
      <4>3. PICK j \in DOMAIN raw[d].subtests :
              raw[d].id = key[1] /\ raw[d].subtests[j].id = key[2] /\ raw[d].subtests[j].scored
        BY <4>2
      <4>4. d = b
        BY <4>3, MeasuredIs
      <4>5. j = i
        BY <2>2, <4>3, <4>4 DEF NamedOnce
      <4> QED BY <4>3, <4>4, <4>5
    <3> HIDE DEF known
    <3> QED BY <2>3, <3>1, <3>2, <3>3
  <2>5. IsSeq(some) /\ Range(some) = {seq[i] : i \in {j \in DOMAIN seq : known[j]}} /\ Once(some)
    <3> HIDE DEF known, seq
    <3> QED BY <2>2, <2>3, KeptIs, KeptOnce
  <2> HIDE DEF some, known, seq
  <2>6. Range(some) = {st \in Range(seq) : st.scored}
    BY <2>4, <2>5 DEF Range
  <2>7. NamedOnce(some)
    <3>1. \A s \in Range(seq), t \in Range(seq) : s.id = t.id => s = t
      BY <2>2 DEF NamedOnce, Range
    <3>2. \A i \in DOMAIN some : some[i] \in Range(seq)
      BY <2>6 DEF Range
    <3> QED BY <2>5, <3>1, <3>2 DEF NamedOnce, Once
  <2> QED BY <2>1, <2>5, <2>6, <2>7 DEF seq
<1> HIDE DEF kept
<1>3. \A b \in DOMAIN raw : trimmed[b].id = raw[b].id /\ trimmed[b].subtests = kept(b)
  <2>1. \A b \in DOMAIN raw : raw[b] \in Benchmark
    BY MeasuredIs
  <2> QED BY <2>1 DEF Benchmark
<1>4. IsSeq(trimmed) /\ DOMAIN trimmed = DOMAIN raw
  <2>1. DOMAIN raw = 1..Len(raw) /\ Len(raw) \in Nat
    BY MeasuredIs, IsSeqFacts
  <2>2. DOMAIN trimmed = DOMAIN raw /\ trimmed = [b \in DOMAIN raw |-> trimmed[b]]
    OBVIOUS
  <2>3. \A b \in DOMAIN raw : trimmed[b] \in Range(trimmed)
    BY <2>2 DEF Range
  <2> HIDE DEF trimmed
  <2> QED BY <2>1, <2>2, <2>3 DEF IsSeq
<1>5. keep \in [DOMAIN trimmed -> BOOLEAN] /\ \A b \in DOMAIN trimmed : keep[b] = (trimmed[b].subtests # <<>>)
  <2> HIDE DEF trimmed
  <2> QED OBVIOUS
<1>6. NamedOnce(trimmed) /\ Once(trimmed)
  <2>1. \A b, d \in DOMAIN raw : raw[b].id = raw[d].id => b = d
    BY MeasuredIs
  <2> HIDE DEF trimmed
  <2>2. \A b, d \in DOMAIN raw : trimmed[b].id = trimmed[d].id => b = d
    BY <1>3, <2>1
  <2>3. \A b, d \in DOMAIN raw : trimmed[b] = trimmed[d] => b = d
    BY <2>2
  <2> QED BY <1>4, <2>2, <2>3 DEF NamedOnce, Once
<1>7. IsSeq(part) /\ Range(part) = {trimmed[i] : i \in {j \in DOMAIN trimmed : keep[j]}} /\ Once(part)
  <2> HIDE DEF trimmed, keep
  <2> QED BY <1>4, <1>5, <1>6, KeptIs, KeptOnce
<1> HIDE DEF trimmed, keep, part
<1>8. \A i \in DOMAIN part : \E b \in DOMAIN raw : part[i] = trimmed[b] /\ trimmed[b].subtests # <<>>
  <2>1. \A i \in DOMAIN part : part[i] \in Range(part)
    BY DEF Range
  <2> QED BY <1>4, <1>5, <1>7, <2>1
<1>9. NamedOnce(part)
  <2>1. \A s \in Range(trimmed), t \in Range(trimmed) : s.id = t.id => s = t
    BY <1>6 DEF NamedOnce, Range
  <2>2. \A i \in DOMAIN part : part[i] \in Range(trimmed)
    BY <1>4, <1>8 DEF Range
  <2> QED BY <1>7, <2>1, <2>2 DEF NamedOnce, Once
<1>10. ASSUME NEW i \in DOMAIN part
       PROVE  /\ IsSeq(part[i].subtests) /\ part[i].subtests # <<>> /\ NamedOnce(part[i].subtests)
              /\ \E b \in DOMAIN raw :
                   /\ part[i].id = raw[b].id
                   /\ Range(part[i].subtests) = {st \in Range(raw[b].subtests) : st.scored}
  <2>1. PICK b \in DOMAIN raw : part[i] = trimmed[b] /\ trimmed[b].subtests # <<>>
    BY <1>8
  <2>2. part[i].id = raw[b].id /\ part[i].subtests = kept(b)
    BY <1>3, <2>1
  <2> QED BY <1>2, <2>1, <2>2
<1>11. ASSUME NEW key \in SubtestKeys(raw)
       PROVE  key[1] \in Ids(part)
  <2>1. PICK b \in DOMAIN raw : \E j \in DOMAIN raw[b].subtests :
          raw[b].id = key[1] /\ raw[b].subtests[j].id = key[2] /\ raw[b].subtests[j].scored
    BY KeysAre
  <2>2. PICK j \in DOMAIN raw[b].subtests :
          raw[b].id = key[1] /\ raw[b].subtests[j].id = key[2] /\ raw[b].subtests[j].scored
    BY <2>1
  <2>3. raw[b].subtests[j] \in Range(kept(b))
    BY <1>2, <2>2 DEF Range
  <2>4. trimmed[b].subtests # <<>>
    BY <1>3, <2>3, SeqOfNone
  <2>5. trimmed[b] \in Range(part)
    BY <1>4, <1>5, <1>7, <2>4
  <2>6. PICK i \in DOMAIN part : part[i] = trimmed[b]
    BY <2>5 DEF Range
  <2>7. part[i].id = key[1]
    BY <1>3, <2>2, <2>6
  <2> QED BY <2>7 DEF Ids
<1> QED BY <1>1, <1>7, <1>9, <1>10, <1>11

(* The scores of components, by name; and the weighted ones.               *)
ScoredByName(comps, score) ==
  /\ IsSeq(comps) /\ NamedOnce(comps)
  /\ \A i \in DOMAIN comps : /\ comps[i].graded = (comps[i].id \notin UngradedComponents)
                              /\ comps[i].score = score[comps[i].id] /\ score[comps[i].id] \in Int
Weighs(weight, weighted, score, profile, G) ==
  \A c \in G : weight[c] = Weight(profile, c) /\ weighted[c] = weight[c] * score[c]

(* The overall score of components that are named once is over the names   *)
(* of the graded ones.                                                     *)
LEMMA OverallByName ==
  ASSUME NEW comps, NEW score, ScoredByName(comps, score), NEW profile \in DOMAIN Weights,
         NEW G, G = Ids(comps) \ UngradedComponents, G # {},
         NEW weight, NEW weighted, Weighs(weight, weighted, score, profile, G)
  PROVE  /\ OverallScore(comps, profile).num = SumFunctionOnSet(weighted, G)
         /\ OverallScore(comps, profile).den = SumFunctionOnSet(weight, G)
<1> USE DEF ScoredByName, Weighs
<1> DEFINE graded == {i \in DOMAIN comps : comps[i].graded}
           nums == [i \in graded |-> Weight(profile, comps[i].id) * comps[i].score]
           dens == [i \in graded |-> Weight(profile, comps[i].id)]
           w == [i \in graded |-> comps[i].id]
<1>1. IsFiniteSet(graded)
  <2>1. DOMAIN comps = 1..Len(comps) /\ Len(comps) \in Nat
    BY IsSeqFacts
  <2>2. IsFiniteSet(DOMAIN comps)
    BY <2>1, FS_Interval
  <2> QED BY <2>2, FS_Subset
<1>2. \A i \in graded : i \in DOMAIN comps /\ comps[i].id \in G
  BY DEF Ids
<1>3. \A c \in G : \E i \in graded : comps[i].id = c
  BY DEF Ids
<1>4. \A i, j \in graded : comps[i].id = comps[j].id => i = j
  BY DEF NamedOnce
<1>5. \A i \in graded : /\ w[i] = comps[i].id
                        /\ dens[i] = Weight(profile, comps[i].id)
                        /\ nums[i] = Weight(profile, comps[i].id) * comps[i].score
  OBVIOUS
<1>6. graded # {}
  BY <1>3
<1>7. /\ OverallScore(comps, profile).num = SumFunction(nums)
      /\ OverallScore(comps, profile).den = SumFunction(dens)
  <2>1. OverallScore(comps, profile)
          = IF graded = {} THEN [num |-> ZeroScore, den |-> 1]
            ELSE [num |-> SumFunction(nums), den |-> SumFunction(dens)]
    BY Zenon DEF OverallScore
  <2> HIDE DEF graded, nums, dens
  <2> QED BY <1>6, <2>1
<1>8. DOMAIN nums = graded /\ DOMAIN dens = graded
  OBVIOUS
<1> HIDE DEF graded, nums, dens, w
<1>9. \A i \in graded : /\ dens[i] = weight[w[i]] /\ dens[i] \in Int
                        /\ nums[i] = weighted[w[i]] /\ nums[i] \in Int
  <2> TAKE i \in graded
  <2>1. Weight(profile, comps[i].id) \in Int
    BY WeightIs
  <2>2. w[i] \in G /\ w[i] = comps[i].id
    BY <1>2, <1>5
  <2>3. weight[w[i]] = Weight(profile, comps[i].id)
    BY <2>2
  <2>4. comps[i].score = score[w[i]] /\ score[w[i]] \in Int
    BY <1>2, <2>2
  <2> QED BY <1>5, <2>1, <2>2, <2>3, <2>4
<1>10. Renames(w, graded, G, nums, weighted) /\ Renames(w, graded, G, dens, weight)
  BY <1>2, <1>3, <1>4, <1>5, <1>9 DEF Renames
<1> QED BY <1>1, <1>7, <1>8, <1>10, SumBehind DEF SumFunction

(* The components of a baseline, the subtests of one, and what a run that  *)
(* has all of them scores.                                                 *)
Names(baseline) == {key[1] : key \in DOMAIN baseline.ref}
Subs(baseline, c) == {key[2] : key \in {x \in DOMAIN baseline.ref : x[1] = c}}
ScoreRow(raw, baseline, k, c) == [s \in Subs(baseline, c) |-> k * RatioOf(raw, baseline, <<c, s>>)]
ScoreOf(raw, baseline, k, c) ==
  SumFunctionOnSet(ScoreRow(raw, baseline, k, c), Subs(baseline, c)) \div Cardinality(Subs(baseline, c))

(* A subtest of a run, found by its key.                                   *)
LEMMA KeyOf ==
  ASSUME NEW raw, Measured(raw), NEW b \in DOMAIN raw, NEW j \in DOMAIN raw[b].subtests
  PROVE  /\ raw[b].subtests[j].scored => <<raw[b].id, raw[b].subtests[j].id>> \in SubtestKeys(raw)
         /\ SubtestOf(raw, raw[b].id, raw[b].subtests[j].id) = raw[b].subtests[j]
         /\ raw[b].subtests[j] \in Subtest
BY KeysAre

(* A baseline's keys are pairs.                                            *)
LEMMA KeyIsPair ==
  ASSUME NEW raws, FleetRaws(raws), NEW name, NEW key \in DOMAIN BaselineFromResults(raws, name).ref
  PROVE  key = <<key[1], key[2]>>
BY RefIs

(* raw is scored as all of baseline, each component the floored mean of    *)
(* its row.                                                                *)
ScoresAll(raw, baseline, k) ==
  LET part == CoveredBy(raw, baseline)
  IN  /\ IsSeq(part) /\ NamedOnce(part) /\ Ids(part) = Names(baseline)
      /\ \A i \in DOMAIN part :
           /\ Subs(baseline, part[i].id) # {} /\ IsFiniteSet(Subs(baseline, part[i].id))
           /\ ScoredComponent(part[i], baseline, k).score = ScoreOf(raw, baseline, k, part[i].id)

(* Against a baseline of just its scored subtests, a run has the baseline's *)
(* components, each with the floored mean of its row.                      *)
LEMMA RunScores ==
  ASSUME NEW raw, Measured(raw), NEW baseline, DOMAIN baseline.ref = SubtestKeys(raw), NEW k \in Int,
         \A key \in DOMAIN baseline.ref : RatioOf(raw, baseline, key) \in Int
  PROVE  ScoresAll(raw, baseline, k)
<1> DEFINE part == CoveredBy(raw, baseline)
<1>1. /\ IsSeq(part) /\ NamedOnce(part)
      /\ \A i \in DOMAIN part :
           /\ IsSeq(part[i].subtests) /\ part[i].subtests # <<>> /\ NamedOnce(part[i].subtests)
           /\ \E b \in DOMAIN raw :
                /\ part[i].id = raw[b].id
                /\ Range(part[i].subtests) = {st \in Range(raw[b].subtests) : st.scored}
      /\ \A key \in SubtestKeys(raw) : key[1] \in Ids(part)
  BY CoveredExactly
<1> HIDE DEF part
<1>2. ASSUME NEW i \in DOMAIN part
      PROVE  LET c == part[i].id
             IN  /\ c \in Names(baseline)
                 /\ Subs(baseline, c) = Ids(part[i].subtests)
                 /\ Subs(baseline, c) # {} /\ IsFiniteSet(Subs(baseline, c))
                 /\ ScoredComponent(part[i], baseline, k).score = ScoreOf(raw, baseline, k, c)
  <2> DEFINE c == part[i].id
             seq == part[i].subtests
             row == ScoreRow(raw, baseline, k, c)
  <2>1. PICK b \in DOMAIN raw : c = raw[b].id /\ Range(seq) = {st \in Range(raw[b].subtests) : st.scored}
    BY <1>1
  <2>2. IsSeq(seq) /\ seq # <<>> /\ NamedOnce(seq)
    BY <1>1
  <2>3. Ids(seq) = {st.id : st \in Range(seq)}
    BY DEF Ids, Range
  <2> HIDE DEF seq, c
  <2>4. ASSUME NEW st \in Range(seq)
        PROVE  /\ st.scored = TRUE /\ <<c, st.id>> \in DOMAIN baseline.ref
               /\ SubtestOf(raw, c, st.id) = st
    <3>1. st \in Range(raw[b].subtests) /\ st.scored
      BY <2>1
    <3>2. PICK j \in DOMAIN raw[b].subtests : raw[b].subtests[j] = st
      BY <3>1 DEF Range
    <3>3. /\ <<raw[b].id, raw[b].subtests[j].id>> \in SubtestKeys(raw)
          /\ SubtestOf(raw, raw[b].id, raw[b].subtests[j].id) = raw[b].subtests[j]
          /\ raw[b].subtests[j] \in Subtest
      <4>1. b \in DOMAIN raw /\ j \in DOMAIN raw[b].subtests /\ raw[b].subtests[j].scored
        BY <2>1, <3>1, <3>2
      <4> QED BY <4>1, KeyOf
    <3>4. st.scored \in BOOLEAN
      BY <3>2, <3>3 DEF Subtest
    <3> QED BY <2>1, <3>1, <3>2, <3>3, <3>4
  <2>5. Subs(baseline, c) = Ids(seq)
    <3>1. ASSUME NEW s \in Ids(seq) PROVE s \in Subs(baseline, c)
      <4>1. PICK st \in Range(seq) : st.id = s
        BY <2>3
      <4>2. <<c, s>> \in DOMAIN baseline.ref /\ <<c, s>>[1] = c /\ <<c, s>>[2] = s
        BY <2>4, <4>1
      <4> QED BY <4>2 DEF Subs
    <3>2. ASSUME NEW s \in Subs(baseline, c) PROVE s \in Ids(seq)
      <4>1. PICK key \in DOMAIN baseline.ref : key[1] = c /\ key[2] = s
        BY DEF Subs
      <4>2. PICK d \in DOMAIN raw : \E j \in DOMAIN raw[d].subtests :
              raw[d].id = key[1] /\ raw[d].subtests[j].id = key[2] /\ raw[d].subtests[j].scored
        BY <4>1, KeysAre
      <4>3. PICK j \in DOMAIN raw[d].subtests :
              raw[d].id = key[1] /\ raw[d].subtests[j].id = key[2] /\ raw[d].subtests[j].scored
        BY <4>2
      <4>4. d = b
        BY <2>1, <4>1, <4>3, MeasuredIs
      <4>5. raw[b].subtests[j] \in Range(seq)
        BY <2>1, <4>3, <4>4 DEF Range
      <4> QED BY <2>3, <4>1, <4>3, <4>4, <4>5
    <3> QED BY <3>1, <3>2
  <2>6. ASSUME NEW st \in Range(seq)
        PROVE  /\ row[st.id] \in Int
               /\ ScoredSubtest(c, st, baseline, k).score = row[st.id]
    <3> DEFINE ratio == RatioOf(raw, baseline, <<c, st.id>>)
    <3>1. st.id \in Subs(baseline, c)
      BY <2>3, <2>5
    <3>2. row[st.id] = k * ratio
      BY <3>1 DEF ScoreRow
    <3>3. ratio \in Int
      BY <2>4
    <3>4. SubtestOf(raw, <<c, st.id>>[1], <<c, st.id>>[2]) = st /\ <<c, st.id>>[1] = c
      BY <2>4
    <3>5. ratio = ScoredSubtest(c, st, baseline, 1).ratio
      BY <3>4 DEF RatioOf
    <3>6. ScoredSubtest(c, st, baseline, k).score = k * ScoredSubtest(c, st, baseline, 1).ratio
      BY DEF ScoredSubtest
    <3> HIDE DEF ratio, row
    <3> QED BY <3>2, <3>3, <3>5, <3>6
  <2> DEFINE bench == part[i]
  <2>7. bench.subtests = seq /\ bench.id = c
    BY DEF seq, c
  <2> HIDE DEF row, bench
  <2>8. /\ Ids(bench.subtests) # {} /\ IsFiniteSet(Ids(bench.subtests))
        /\ ScoredComponent(bench, baseline, k).score
             = SumFunctionOnSet(row, Ids(bench.subtests)) \div Cardinality(Ids(bench.subtests))
    <3>1. \A st \in Range(bench.subtests) : st.scored = TRUE
      BY <2>4, <2>7
    <3>2. \A st \in Range(bench.subtests) : /\ row[st.id] \in Int
                                            /\ ScoredSubtest(bench.id, st, baseline, k).score = row[st.id]
      BY <2>6, <2>7
    <3>3. IsSeq(bench.subtests) /\ bench.subtests # <<>> /\ NamedOnce(bench.subtests)
      BY <2>2, <2>7
    <3> QED BY <3>1, <3>2, <3>3, ComponentMean
  <2>9. ScoredComponent(part[i], baseline, k).score = ScoreOf(raw, baseline, k, c)
    BY <2>5, <2>7, <2>8 DEF ScoreOf, row, bench
  <2>10. c \in Names(baseline)
    <3>1. PICK s \in Subs(baseline, c) : TRUE
      BY <2>5, <2>7, <2>8
    <3> QED BY DEF Subs, Names
  <2> QED BY <2>5, <2>7, <2>8, <2>9, <2>10 DEF c, seq
<1>3. Ids(part) = Names(baseline)
  <2>1. \A i \in DOMAIN part : part[i].id \in Names(baseline)
    BY <1>2
  <2> QED BY <1>1, <2>1 DEF Ids, Names
<1> QED BY <1>1, <1>2, <1>3 DEF part, ScoresAll

(* What the runs of a baseline score of one of its components adds up to   *)
(* at most what rounding made of its references and of their means.        *)
LEMMA ComponentCentred ==
  ASSUME NEW raws, FleetRaws(raws), NEW name, NEW baseline, baseline = BaselineFromResults(raws, name),
         \A f \in DOMAIN raws : SubtestKeys(raws[f]) = DOMAIN baseline.ref,
         NEW k \in Nat, NEW c, Subs(baseline, c) # {}, IsFiniteSet(Subs(baseline, c)),
         NEW score, \A f \in DOMAIN raws : score[f] = ScoreOf(raws[f], baseline, k, c)
  PROVE  LET n == Cardinality(DOMAIN raws)
             bound == k * (n - 1) + n
         IN  /\ \A f \in DOMAIN raws : score[f] \in Int
             /\ -bound <= SumFunctionOnSet(score, DOMAIN raws)
             /\ SumFunctionOnSet(score, DOMAIN raws) <= bound
<1> DEFINE A == DOMAIN raws
           B == Subs(baseline, c)
           n == Cardinality(A)
           h == [f \in A |-> ScoreRow(raws[f], baseline, k, c)]
           t == [s \in B |-> [f \in A |-> k * RatioOf(raws[f], baseline, <<c, s>>)]]
<1>1. IsFiniteSet(A)
  BY DEF FleetRaws
<1>2. ASSUME NEW s \in B
      PROVE  /\ n \in Nat \ {0}
             /\ \A f \in A : RatioOf(raws[f], baseline, <<c, s>>) \in Int
             /\ -(k * (n - 1)) <= SumFunctionOnSet(t[s], A)
             /\ SumFunctionOnSet(t[s], A) <= k * (n - 1)
  <2> DEFINE key == <<c, s>>
             H == HavingKey(raws, key)
             ratios == [f \in H |-> RatioOf(raws[f], baseline, key)]
             S == SumFunctionOnSet(ratios, H)
  <2>1. PICK x \in DOMAIN baseline.ref : x[1] = c /\ x[2] = s
    BY DEF Subs
  <2>2. x = key
    <3>1. x \in DOMAIN BaselineFromResults(raws, name).ref
      BY <2>1
    <3>2. x = <<x[1], x[2]>>
      BY <3>1, KeyIsPair
    <3> QED BY <2>1, <3>2
  <2>3. H = A
    BY <2>1, <2>2 DEF HavingKey
  <2>4. /\ IsFiniteSet(H) /\ H # {} /\ \A f \in H : ratios[f] \in Int
        /\ S <= Cardinality(H) - 1
        /\ -S <= Cardinality(H) - 1
    <3>1. key \in DOMAIN BaselineFromResults(raws, name).ref
      BY <2>1, <2>2
    <3> HIDE DEF key
    <3> QED BY <3>1, KeyCentred
  <2>5. n \in Nat \ {0} /\ n = Cardinality(H)
    BY <2>3, <2>4, FS_CardinalityType, FS_EmptySet
  <2>6. \A f \in A : /\ ratios[f] = RatioOf(raws[f], baseline, key) /\ ratios[f] \in Int
                     /\ t[s][f] = k * ratios[f]
    BY <2>3, <2>4
  <2>7. SumFunctionOnSet(t[s], A) = k * SumFunctionOnSet(ratios, A)
    <3> DEFINE u == t[s]
    <3>1. \A f \in A : ratios[f] \in Int /\ u[f] = k * ratios[f]
      BY <2>6
    <3> HIDE DEF u, ratios, A
    <3>2. SumFunctionOnSet(u, A) = k * SumFunctionOnSet(ratios, A)
      BY <1>1, <3>1, SumScaled
    <3> QED BY <3>2 DEF u
  <2>8. S = SumFunctionOnSet(ratios, A)
    BY <2>3
  <2>9. S \in Int
    <3> HIDE DEF ratios, H
    <3> QED BY <2>4, SumIs
  <2> HIDE DEF S, n, t
  <2>10. k * S <= k * (n - 1) /\ -(k * (n - 1)) <= k * S
    <3>1. S <= n - 1 /\ -(n - 1) <= S
      BY <2>4, <2>5, <2>9
    <3>2. \A a, b \in Int : a <= b => k * a <= k * b
      OBVIOUS
    <3>3. k * (-(n - 1)) = -(k * (n - 1))
      BY <2>5
    <3>4. n - 1 \in Int /\ -(n - 1) \in Int
      BY <2>5
    <3>5. k * S <= k * (n - 1) /\ k * (-(n - 1)) <= k * S
      BY <2>9, <3>1, <3>2, <3>4
    <3> QED BY <3>3, <3>5
  <2> QED BY <2>5, <2>6, <2>7, <2>8, <2>10
<1>3. PICK s0 \in B : TRUE
  OBVIOUS
<1>4. n \in Nat \ {0}
  BY <1>2, <1>3
<1>5. Transposed(h, t, A, B)
  <2> DEFINE v(f, s) == k * RatioOf(raws[f], baseline, <<c, s>>)
  <2>1. ASSUME NEW f \in A PROVE \A s \in B : h[f][s] = v(f, s)
    <3>1. h[f] = ScoreRow(raws[f], baseline, k, c)
      OBVIOUS
    <3> HIDE DEF h
    <3> QED BY <3>1 DEF ScoreRow
  <2>2. \A s \in B : \A f \in A : t[s][f] = v(f, s)
    OBVIOUS
  <2>3. ASSUME NEW f \in A, NEW s \in B PROVE v(f, s) \in Int
    <3> DEFINE ratio == RatioOf(raws[f], baseline, <<c, s>>)
    <3>1. ratio \in Int
      BY <1>2
    <3> HIDE DEF ratio
    <3>2. k * ratio \in Int
      BY <3>1
    <3> QED BY <3>2 DEF ratio
  <2> HIDE DEF h, t, v, A, B
  <2>4. \A f \in A, s \in B : h[f][s] \in Int /\ t[s][f] = h[f][s]
    BY <2>1, <2>2, <2>3
  <2> QED BY <2>4 DEF Transposed
<1>6. \A f \in A : score[f] = SumFunctionOnSet(h[f], B) \div Cardinality(B)
  BY DEF ScoreOf
<1> DEFINE most == k * (n - 1)
<1>7. most \in Nat
  <2> HIDE DEF n
  <2>1. n - 1 \in Nat
    BY <1>4
  <2> QED BY <2>1
<1>8. \A s \in B : -most <= SumFunctionOnSet(t[s], A) /\ SumFunctionOnSet(t[s], A) <= most
  BY <1>2
<1>9. IsFiniteSet(B) /\ B # {}
  OBVIOUS
<1> HIDE DEF h, t, B, most, A
<1>10. /\ \A f \in A : score[f] \in Int
       /\ -(most + Cardinality(A)) <= SumFunctionOnSet(score, A)
       /\ SumFunctionOnSet(score, A) <= most + Cardinality(A)
  BY <1>1, <1>5, <1>6, <1>7, <1>8, <1>9, FlooredMeans
<1> QED BY <1>10 DEF most, n, A

(* The baseline of runs that have the same subtests, some of them graded;  *)
(* and their overall scores against it.                                    *)
MadeOf(baseline, raws) ==
  /\ FleetRaws(raws)
  /\ baseline = BaselineFromResults(raws, "fleet")
  /\ \A f \in DOMAIN raws : SubtestKeys(raws[f]) = DOMAIN baseline.ref
  /\ \E key \in DOMAIN baseline.ref : key[1] \notin UngradedComponents
Totals(nums, dens, raws, baseline, profile, k) ==
  \A f \in DOMAIN raws :
    LET score == ScoreRun(CoveredBy(raws[f], baseline), baseline, profile, k).overall.score
    IN  nums[f] = score.num /\ dens[f] = score.den

(* The runs of a baseline that all have its subtests, some of them graded, *)
(* average 1000 to within the rounding.                                    *)
LEMMA OverallCentred ==
  ASSUME NEW raws, NEW baseline, MadeOf(baseline, raws),
         NEW k \in Nat, NEW profile \in DOMAIN Weights,
         NEW nums, NEW dens, Totals(nums, dens, raws, baseline, profile, k)
  PROVE  LET N == SumFunctionOnSet(nums, DOMAIN raws)
             D == SumFunctionOnSet(dens, DOMAIN raws)
         IN  -((k + 1) * D) <= N /\ N <= (k + 1) * D
<1> USE DEF MadeOf, Totals
<1> DEFINE A == DOMAIN raws
           n == Cardinality(A)
           G == Names(baseline) \ UngradedComponents
           weight == [c \in G |-> Weight(profile, c)]
           scores(f) == [c \in Names(baseline) |-> ScoreOf(raws[f], baseline, k, c)]
           h == [f \in A |-> [c \in G |-> weight[c] * ScoreOf(raws[f], baseline, k, c)]]
           t == [c \in G |-> [f \in A |-> weight[c] * ScoreOf(raws[f], baseline, k, c)]]
           W == SumFunctionOnSet(weight, G)
           bound == k * (n - 1) + n
<1>1. IsFiniteSet(A) /\ A # {} /\ n \in Nat \ {0}
  <2>1. DOMAIN baseline.ref = UNION {SubtestKeys(raws[f]) : f \in DOMAIN raws}
    BY RefIs
  <2>2. A # {}
    BY <2>1
  <2>3. IsFiniteSet(A)
    BY DEF FleetRaws
  <2> QED BY <2>2, <2>3, FS_CardinalityType, FS_EmptySet
<1>2. \A f \in A : \A key \in DOMAIN baseline.ref : RatioOf(raws[f], baseline, key) \in Int
  <2> TAKE f \in A
  <2> TAKE key \in DOMAIN baseline.ref
  <2> DEFINE H == HavingKey(raws, key)
             ratios == [g \in H |-> RatioOf(raws[g], baseline, key)]
  <2>1. f \in H
    BY DEF HavingKey
  <2>2. ratios[f] \in Int
    BY <2>1, KeyCentred
  <2> QED BY <2>1, <2>2
<1>3. ASSUME NEW f \in A
      PROVE  ScoresAll(raws[f], baseline, k)
  <2> DEFINE raw == raws[f]
  <2>1. Measured(raw) /\ DOMAIN baseline.ref = SubtestKeys(raw)
    BY DEF FleetRaws
  <2>2. \A key \in DOMAIN baseline.ref : RatioOf(raw, baseline, key) \in Int
    BY <1>2
  <2> HIDE DEF raw
  <2>3. ScoresAll(raw, baseline, k)
    BY <2>1, <2>2, RunScores
  <2> QED BY <2>3 DEF raw
<1>4. PICK f0 \in A : TRUE
  BY <1>1
<1>5. ASSUME NEW c \in Names(baseline) PROVE Subs(baseline, c) # {} /\ IsFiniteSet(Subs(baseline, c))
  <2> DEFINE part == CoveredBy(raws[f0], baseline)
  <2>1. PICK i \in DOMAIN part : part[i].id = c
    BY <1>3 DEF Ids, ScoresAll
  <2> QED BY <1>3, <2>1 DEF ScoresAll
<1>6. IsFiniteSet(G)
  <2> DEFINE part == CoveredBy(raws[f0], baseline)
  <2>1. IsSeq(part) /\ Ids(part) = Names(baseline)
    BY <1>3 DEF ScoresAll
  <2>2. IsFiniteSet(Ids(part))
    BY <2>1, IdsFinite
  <2> QED BY <2>1, <2>2, FS_Subset
<1>7. G # {}
  BY DEF Names
<1>8. \A c \in G : weight[c] = Weight(profile, c) /\ weight[c] \in Nat \ {0}
  BY WeightIs
<1>9. ASSUME NEW c \in Names(baseline)
      PROVE  /\ \A f \in A : ScoreOf(raws[f], baseline, k, c) \in Int
             /\ \A score : (\A f \in A : score[f] = ScoreOf(raws[f], baseline, k, c)) =>
                  -bound <= SumFunctionOnSet(score, A) /\ SumFunctionOnSet(score, A) <= bound
  <2>1. ASSUME NEW score, \A f \in A : score[f] = ScoreOf(raws[f], baseline, k, c)
        PROVE  /\ \A f \in A : score[f] \in Int
               /\ -bound <= SumFunctionOnSet(score, A) /\ SumFunctionOnSet(score, A) <= bound
    <3>1. Subs(baseline, c) # {} /\ IsFiniteSet(Subs(baseline, c))
      BY <1>5
    <3> QED BY <2>1, <3>1, ComponentCentred
  <2> DEFINE row == [f \in A |-> ScoreOf(raws[f], baseline, k, c)]
  <2>2. \A f \in A : row[f] = ScoreOf(raws[f], baseline, k, c)
    OBVIOUS
  <2> HIDE DEF row
  <2>3. \A f \in A : row[f] \in Int
    BY <2>1, <2>2
  <2> QED BY <2>1, <2>2, <2>3
<1>10. ASSUME NEW f \in A
       PROVE  nums[f] = SumFunctionOnSet(h[f], G) /\ dens[f] = W
  <2> DEFINE part == CoveredBy(raws[f], baseline)
             comps == [i \in DOMAIN part |-> ScoredComponent(part[i], baseline, k)]
             score == scores(f)
             overall == OverallScore(comps, profile)
  <2>1. ScoreRun(part, baseline, profile, k).overall.score = overall
    BY DEF ScoreRun
  <2>2. nums[f] = overall.num /\ dens[f] = overall.den
    BY <2>1
  <2>3. /\ IsSeq(part) /\ NamedOnce(part) /\ Ids(part) = Names(baseline)
        /\ \A i \in DOMAIN part :
             ScoredComponent(part[i], baseline, k).score = ScoreOf(raws[f], baseline, k, part[i].id)
    BY <1>3 DEF ScoresAll
  <2> HIDE DEF part
  <2>4. DOMAIN comps = DOMAIN part /\ \A i \in DOMAIN part : comps[i] = ScoredComponent(part[i], baseline, k)
    OBVIOUS
  <2>5. IsSeq(comps)
    <3>1. DOMAIN part = 1..Len(part) /\ Len(part) \in Nat
      BY <2>3, IsSeqFacts
    <3>2. comps = [i \in 1..Len(part) |-> comps[i]] /\ \A i \in DOMAIN part : comps[i] \in Range(comps)
      BY <3>1 DEF Range
    <3> HIDE DEF comps
    <3> QED BY <3>1, <3>2 DEF IsSeq
  <2>6. \A i \in DOMAIN part : /\ comps[i].id = part[i].id
                               /\ comps[i].graded = (part[i].id \notin UngradedComponents)
    BY DEF ScoredComponent
  <2>7. \A c \in Names(baseline) : score[c] = ScoreOf(raws[f], baseline, k, c) /\ score[c] \in Int
    BY <1>9
  <2>8. \A i \in DOMAIN part : part[i].id \in Names(baseline)
    BY <2>3 DEF Ids
  <2>9. \A c \in G : h[f][c] = weight[c] * score[c]
    OBVIOUS
  <2> HIDE DEF comps, score
  <2>10. NamedOnce(comps) /\ Ids(comps) = Names(baseline)
    BY <2>3, <2>4, <2>6 DEF NamedOnce, Ids
  <2>11. \A i \in DOMAIN comps : /\ comps[i].graded = (comps[i].id \notin UngradedComponents)
                                 /\ comps[i].score = score[comps[i].id] /\ score[comps[i].id] \in Int
    BY <2>3, <2>4, <2>6, <2>7, <2>8
  <2>12. G = Ids(comps) \ UngradedComponents
    BY <2>10
  <2> DEFINE u == h[f]
  <2>13. \A c \in G : u[c] = weight[c] * score[c]
    BY <2>9
  <2>14. \A c \in G : weight[c] = Weight(profile, c)
    BY <1>8
  <2> HIDE DEF u, G, weight, h, overall
  <2>15. overall.num = SumFunctionOnSet(u, G) /\ overall.den = SumFunctionOnSet(weight, G)
    <3>1. NamedOnce(comps)
      BY <2>10
    <3>2. /\ OverallScore(comps, profile).num = SumFunctionOnSet(u, G)
          /\ OverallScore(comps, profile).den = SumFunctionOnSet(weight, G)
      <4>1. ScoredByName(comps, score)
        BY <2>5, <2>11, <3>1 DEF ScoredByName
      <4>2. Weighs(weight, u, score, profile, G)
        BY <2>13, <2>14 DEF Weighs
      <4> QED BY <1>7, <2>12, <4>1, <4>2, OverallByName
    <3> QED BY <3>2 DEF overall
  <2> QED BY <2>2, <2>15 DEF u
<1>11. bound \in Int
  BY <1>1
<1>12. Transposed(h, t, A, G)
  <2>1. \A f \in A, c \in G : h[f][c] = weight[c] * ScoreOf(raws[f], baseline, k, c)
    OBVIOUS
  <2>2. \A f \in A, c \in G : t[c][f] = weight[c] * ScoreOf(raws[f], baseline, k, c)
    OBVIOUS
  <2>3. \A f \in A, c \in G : weight[c] * ScoreOf(raws[f], baseline, k, c) \in Int
    <3>1. \A c \in G : weight[c] \in Int /\ c \in Names(baseline)
      BY <1>8
    <3> QED BY <1>9, <3>1
  <2> HIDE DEF h, t
  <2> QED BY <2>1, <2>2, <2>3 DEF Transposed
<1> DEFINE cols == [c \in G |-> SumFunctionOnSet(t[c], A)]
           back == [c \in G |-> -cols[c]]
           N == SumFunctionOnSet(nums, A)
           D == SumFunctionOnSet(dens, A)
<1>13. ASSUME NEW c \in G
       PROVE  /\ cols[c] \in Int /\ back[c] = -cols[c]
              /\ cols[c] <= bound * weight[c] /\ -cols[c] <= bound * weight[c]
  <2> DEFINE row == [f \in A |-> ScoreOf(raws[f], baseline, k, c)]
             u == t[c]
             S == SumFunctionOnSet(row, A)
             v == weight[c]
  <2>1. \A f \in A : row[f] = ScoreOf(raws[f], baseline, k, c) /\ row[f] \in Int /\ u[f] = v * row[f]
    BY <1>9
  <2>2. v \in Nat /\ cols[c] = SumFunctionOnSet(u, A) /\ back[c] = -cols[c]
    BY <1>8
  <2> HIDE DEF row, u, v, cols, back, bound
  <2>3. -bound <= S /\ S <= bound /\ S \in Int
    <3>1. c \in Names(baseline) /\ \A f \in A : row[f] = ScoreOf(raws[f], baseline, k, c)
      BY <2>1
    <3>2. -bound <= SumFunctionOnSet(row, A) /\ SumFunctionOnSet(row, A) <= bound
      BY <1>9, <3>1
    <3>3. SumFunctionOnSet(row, A) \in Int
      BY <1>1, <2>1, SumIs
    <3> QED BY <3>2, <3>3
  <2>4. SumFunctionOnSet(u, A) = v * S
    <3>1. v \in Int /\ \A f \in A : row[f] \in Int /\ u[f] = v * row[f]
      BY <2>1, <2>2
    <3> QED BY <1>1, <3>1, SumScaled
  <2> HIDE DEF S
  <2>5. v * S <= bound * v /\ -(v * S) <= bound * v
    <3>1. \A a, b \in Int : a <= b => v * a <= v * b
      BY <2>2
    <3>2. v * S <= v * bound /\ v * (-bound) <= v * S
      BY <1>11, <2>3, <3>1
    <3>3. v * bound = bound * v /\ v * (-bound) = -(bound * v)
      BY <1>11, <2>2
    <3> QED BY <1>11, <2>2, <2>3, <3>2, <3>3
  <2>6. v * S \in Int
    BY <2>2, <2>3
  <2> QED BY <2>2, <2>4, <2>5, <2>6 DEF v
<1>14. N = SumFunctionOnSet(cols, G)
  <2>1. SumsRows(nums, h, A, G)
    BY <1>10 DEF SumsRows
  <2>2. SumsRows(cols, t, G, A)
    BY DEF SumsRows
  <2> HIDE DEF cols, h, t, G, A
  <2> QED BY <1>1, <1>6, <1>12, <2>1, <2>2, SumSwap
<1>15. D = W * n /\ W \in Nat
  <2>1. \A c \in G : weight[c] \in Nat \ {0}
    BY <1>8
  <2>2. \A f \in A : dens[f] = W
    BY <1>10
  <2> HIDE DEF G, weight
  <2>3. W \in Int
    BY <1>6, <2>1, SumIs
  <2>4. 0 <= W
    <3> DEFINE none == [c \in G |-> 0]
    <3>1. \A c \in G : none[c] \in Int /\ none[c] = 0 /\ weight[c] \in Int /\ none[c] <= 1 * weight[c]
      BY <2>1
    <3> HIDE DEF none
    <3>2. SumFunctionOnSet(none, G) <= 1 * SumFunctionOnSet(weight, G)
      BY <1>6, <3>1, SumCompare
    <3>3. SumFunctionOnSet(none, G) = 0 * Cardinality(G)
      BY <1>6, <3>1, SumConst
    <3>4. Cardinality(G) \in Nat
      BY <1>6, FS_CardinalityType
    <3> QED BY <2>3, <3>2, <3>3, <3>4
  <2> HIDE DEF W
  <2>5. SumFunctionOnSet(dens, A) = W * Cardinality(A)
    BY <1>1, <2>2, <2>3, SumConst
  <2> QED BY <2>3, <2>4, <2>5
<1>16. N <= bound * W /\ -N <= bound * W /\ N \in Int
  <2>1. \A c \in G : /\ cols[c] \in Int /\ back[c] \in Int /\ back[c] = -cols[c]
                     /\ weight[c] \in Int
                     /\ cols[c] <= bound * weight[c] /\ back[c] <= bound * weight[c]
    BY <1>8, <1>13
  <2> HIDE DEF cols, back, weight, G, bound
  <2>2. SumFunctionOnSet(cols, G) <= bound * SumFunctionOnSet(weight, G)
    BY <1>6, <1>11, <2>1, SumCompare
  <2>3. SumFunctionOnSet(back, G) <= bound * SumFunctionOnSet(weight, G)
    BY <1>6, <1>11, <2>1, SumCompare
  <2>4. SumFunctionOnSet(back, G) = -SumFunctionOnSet(cols, G) /\ SumFunctionOnSet(cols, G) \in Int
    BY <1>6, <2>1, SumOpposite, SumIs
  <2> QED BY <1>14, <2>2, <2>3, <2>4
<1>17. bound * W <= (k + 1) * D
  <2>1. bound <= (k + 1) * n
    BY <1>1
  <2> HIDE DEF W, n, bound, D
  <2>2. bound * W <= ((k + 1) * n) * W
    <3> DEFINE m == (k + 1) * n
    <3>1. m \in Int /\ bound <= m
      BY <1>1, <2>1
    <3> HIDE DEF m
    <3>2. bound * W <= m * W
      BY <1>11, <1>15, <3>1
    <3> QED BY <3>2 DEF m
  <2>3. ((k + 1) * n) * W = (k + 1) * (W * n)
    BY <1>1, <1>15
  <2> QED BY <1>15, <2>2, <2>3
<1> DEFINE bw == bound * W
           kd == (k + 1) * D
<1>18. bw \in Int /\ kd \in Int
  BY <1>1, <1>11, <1>15
<1> HIDE DEF N, bound, W, D
<1>19. N <= kd /\ -N <= kd
  <2>1. N <= bw /\ -N <= bw /\ bw <= kd
    BY <1>16, <1>17
  <2> HIDE DEF bw, kd
  <2> QED BY <1>16, <1>18, <2>1
<1> QED BY <1>16, <1>18, <1>19 DEF N, D, kd

(* The members of a fleet are runs of one program, and the baseline is     *)
(* theirs.                                                                 *)
LEMMA FleetIs ==
  ASSUME ResultsInv, OriginInv, fleet # NoFleet
  PROVE  LET raws == [f \in members |-> files[f].raw]
         IN  FleetRaws(raws) /\ fleet = BaselineFromResults(raws, "fleet")
<1> DEFINE raws == [f \in members |-> files[f].raw]
           olds == [f \in members |-> origin[f].raw]
<1>1. /\ members \subseteq 1..Len(origin) /\ fleet = BaselineFromResults(olds, "fleet")
  BY DEF OriginInv, FleetOfMembers
<1>2. Len(files) = Len(origin) /\ Len(files) \in Nat /\ DOMAIN files = 1..Len(files)
  BY FilesKeep DEF ResultsInv
<1>3. \A f \in members : files[f].raw = origin[f].raw /\ f \in 1..Len(origin) /\ f \in DOMAIN files
  BY <1>1, <1>2, FilesKeep DEF ResultsInv
<1>4. raws = olds
  BY <1>3
<1>5. IsFiniteSet(members)
  <2>1. 1 \in Int /\ Len(origin) \in Int
    BY <1>2
  <2>2. IsFiniteSet(1..Len(origin))
    BY <2>1, FS_Interval
  <2> QED BY <1>1, <2>2, FS_Subset
<1>6. ASSUME NEW f \in members PROVE Measured(raws[f]) /\ Positive(raws[f])
  <2>1. RunSound(origin[f])
    BY <1>3 DEF ResultsInv, RunsSound
  <2> QED BY <1>3, <2>1 DEF RunSound
<1>7. ASSUME NEW f \in members, NEW g \in members PROVE SameSpecs(raws[f], raws[g])
  <2>1. PICK one \in Trials : FromTrial(origin[f], one)
    BY <1>3 DEF OriginInv, FromTrials
  <2>2. PICK other \in Trials : FromTrial(origin[g], other)
    BY <1>3 DEF OriginInv, FromTrials
  <2>3. SameSpecs(origin[f].raw, origin[g].raw)
    BY <2>1, <2>2, TrialsSameSpecs
  <2> QED BY <1>3, <2>3
<1>8. DOMAIN raws = members
  OBVIOUS
<1> HIDE DEF raws, olds
<1>9. FleetRaws(raws)
  BY <1>5, <1>6, <1>7, <1>8 DEF FleetRaws
<1> QED BY <1>1, <1>4, <1>9 DEF raws

(* A baseline puts the machines it was made of at 1000, to within rounding *)
(* (scoring/mod.rs).                                                       *)
THEOREM ResultsFleetBaselineCentred == ResultsSpec => []FleetBaselineCentred
<1>1. ResultsInv /\ OriginInv => FleetBaselineCentred
  <2> SUFFICES ASSUME ResultsInv, OriginInv, fleet # NoFleet
               PROVE  FleetBaselineCentred
    BY DEF FleetBaselineCentred
  <2> DEFINE raws == [f \in members |-> files[f].raw]
  <2>1. FleetRaws(raws) /\ fleet = BaselineFromResults(raws, "fleet")
    BY FleetIs
  <2>2. DOMAIN raws = members /\ \A f \in members : raws[f] = files[f].raw
    OBVIOUS
  <2> HIDE DEF raws
  <2>3. ASSUME NEW key \in DOMAIN fleet.ref
        PROVE  LET having == {f \in members : key \in KeysOf(f)}
               IN  Within(SumFunction([f \in having |-> RatioIn(f, key)]), Cardinality(having) - 1)
    <3> DEFINE having == {f \in members : key \in KeysOf(f)}
               H == HavingKey(raws, key)
               ratios == [f \in H |-> RatioOf(raws[f], fleet, key)]
               shown == [f \in having |-> RatioIn(f, key)]
               S == SumFunctionOnSet(ratios, H)
    <3>1. H = having
      BY <2>2 DEF HavingKey, KeysOf
    <3>2. \A f \in H : RatioOf(raws[f], fleet, key) = RatioIn(f, key)
      BY <2>2 DEF HavingKey, RatioOf, RatioIn
    <3>3. shown = ratios
      BY <3>1, <3>2
    <3>4. DOMAIN shown = having
      OBVIOUS
    <3>5. /\ IsFiniteSet(H) /\ H # {} /\ \A f \in H : ratios[f] \in Int
          /\ S <= Cardinality(H) - 1 /\ -S <= Cardinality(H) - 1
      BY <2>1, KeyCentred
    <3> HIDE DEF having, H, ratios, shown
    <3>6. S \in Int /\ Cardinality(H) \in Int
      BY <3>5, SumIs, FS_CardinalityType
    <3>7. SumFunction(shown) = S
      BY <3>1, <3>3, <3>4 DEF SumFunction
    <3> HIDE DEF S
    <3>8. Within(S, Cardinality(H) - 1)
      BY <3>5, <3>6 DEF Within
    <3> QED BY <3>1, <3>7, <3>8 DEF having, shown
  <2>4. ASSUME \A f \in members : KeysOf(f) = DOMAIN fleet.ref,
               \E key \in DOMAIN fleet.ref : key[1] \notin UngradedComponents,
               NEW profile \in Profiles, NEW k \in Curves, CurveAllowed(k)
        PROVE  Within(SumFunction([f \in members |-> OverallIn(f, profile, k).num]),
                      (k + 1) * SumFunction([f \in members |-> OverallIn(f, profile, k).den]))
    <3> DEFINE nums == [f \in members |-> OverallIn(f, profile, k).num]
               dens == [f \in members |-> OverallIn(f, profile, k).den]
               N == SumFunctionOnSet(nums, members)
               D == SumFunctionOnSet(dens, members)
    <3>1. k \in Nat
      BY <2>4, ResultsAssumption DEF CurveAllowed
    <3>2. profile \in DOMAIN Weights
      BY ResultsAssumption
    <3>3. \A f \in DOMAIN raws : SubtestKeys(raws[f]) = DOMAIN fleet.ref
      BY <2>2, <2>4 DEF KeysOf
    <3>4. Totals(nums, dens, raws, fleet, profile, k)
      <4>1. \A f \in DOMAIN raws :
              LET score == ScoreRun(CoveredBy(raws[f], fleet), fleet, profile, k).overall.score
              IN  nums[f] = score.num /\ dens[f] = score.den
        BY <2>2 DEF OverallIn
      <4> HIDE DEF nums, dens
      <4> QED BY <4>1 DEF Totals
    <3>5. SumFunction(nums) = N /\ SumFunction(dens) = D
      BY DEF SumFunction
    <3> HIDE DEF nums, dens
    <3>6. -((k + 1) * D) <= N /\ N <= (k + 1) * D
      <4>1. \E key \in DOMAIN fleet.ref : key[1] \notin UngradedComponents
        BY <2>4
      <4>2. MadeOf(fleet, raws)
        BY <2>1, <3>3, <4>1 DEF MadeOf
      <4> QED BY <2>2, <3>1, <3>2, <3>4, <4>2, OverallCentred
    <3> HIDE DEF N, D
    <3> QED BY <3>5, <3>6 DEF Within, nums, dens
  <2> QED BY <2>3, <2>4 DEF FleetBaselineCentred
<1> QED BY <1>1, ResultsInvariance, OriginInvariance, PTL
=============================================================================
