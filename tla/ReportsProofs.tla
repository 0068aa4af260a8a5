--------------------------- MODULE ReportsProofs ---------------------------
(***************************************************************************)
(* Reports, for every machine with its power situations, every run file    *)
(* and every comparison its constants allow, and every size of terminal:   *)
(* the two renderings of a run, a table and an inventory say the same      *)
(* cautions but for those named, a note blames what was in force when the  *)
(* run read its settings, its age is the run's, and no row but what        *)
(* wrapping adds is out of reach of the scrolling.                         *)
(***************************************************************************)
EXTENDS Reports, DataFacts, TLAPS

CautionKinds == {"telemetry", "component note", "ungraded", "preset", "power note",
                 "held back", "age note", "verdict", "ceiling", "onset", "skipped",
                 "single sample", "clocks fell", "soak verdict", "drive warnings"}

(* The cautions among some lines are those of the kinds counted as such. *)
LEMMA CautionsAre ==
  ASSUME NEW lines
  PROVE  Cautions(lines) = {l \in Range(lines) : l[1] \in CautionKinds}
BY DEF Cautions, CautionKinds, PrintedOnly, InfoOnly

(* What a text says: its lines, and the cautions among them.               *)
Says(lines, cautions) == IsSeq(lines) /\ Cautions(lines) = cautions

(* A line says itself when it is a caution, and nothing otherwise. *)
LEMMA LineSays ==
  ASSUME NEW kind, NEW about
  PROVE  Says(<<Line(kind, about)>>, IF kind \in CautionKinds THEN {Line(kind, about)} ELSE {})
<1>1. Line(kind, about)[1] = kind
  BY DEF Line
<1> QED BY <1>1, SeqOfOne, CautionsAre DEF Says

(* The elements of a sequence of two. *)
LEMMA PairIs ==
  ASSUME NEW a, NEW b
  PROVE  IsSeq(<<a, b>>) /\ Range(<<a, b>>) = {a, b}
BY DEF IsSeq, Range

(* Of three. *)
LEMMA TripleIs ==
  ASSUME NEW a, NEW b, NEW c
  PROVE  IsSeq(<<a, b, c>>) /\ Range(<<a, b, c>>) = {a, b, c}
BY DEF IsSeq, Range

(* Of four. *)
LEMMA QuadIs ==
  ASSUME NEW a, NEW b, NEW c, NEW d
  PROVE  IsSeq(<<a, b, c, d>>) /\ Range(<<a, b, c, d>>) = {a, b, c, d}
BY DEF IsSeq, Range

(* Two lines say what each says. *)
LEMMA PairSays ==
  ASSUME NEW k1, NEW a1, NEW k2, NEW a2, {k1, k2} \cap CautionKinds = {}
  PROVE  Says(<<Line(k1, a1), Line(k2, a2)>>, {})
<1> DEFINE s == <<Line(k1, a1), Line(k2, a2)>>
<1>1. Line(k1, a1)[1] = k1 /\ Line(k2, a2)[1] = k2
  BY DEF Line
<1>2. IsSeq(s) /\ Range(s) = {Line(k1, a1), Line(k2, a2)}
  BY PairIs, TripleIs, QuadIs
<1> QED BY <1>1, <1>2, CautionsAre DEF Says

(* No lines, no cautions. *)
LEMMA NothingSays ==
  Says(<<>>, {})
BY SeqOfNone, CautionsAre DEF Says

(* Two parts say what each says. *)
LEMMA JoinSays ==
  ASSUME NEW a, NEW b, NEW A, NEW B, Says(a, A), Says(b, B)
  PROVE  Says(a \o b, A \cup B)
BY ConcatIs, CautionsAre DEF Says

(* Three parts do. *)
LEMMA Join3Says ==
  ASSUME NEW a, NEW b, NEW c, NEW A, NEW B, NEW C, Says(a, A), Says(b, B), Says(c, C)
  PROVE  Says(a \o b \o c, A \cup B \cup C)
<1>1. Says(a \o b, A \cup B)
  BY JoinSays
<1> QED BY <1>1, JoinSays

(* Five parts do. *)
LEMMA Join5Says ==
  ASSUME NEW a, NEW b, NEW c, NEW d, NEW e, NEW A, NEW B, NEW C, NEW D, NEW E,
         Says(a, A), Says(b, B), Says(c, C), Says(d, D), Says(e, E)
  PROVE  Says(a \o b \o c \o d \o e, A \cup B \cup C \cup D \cup E)
<1>1. Says(a \o b \o c, A \cup B \cup C)
  BY Join3Says
<1> QED BY <1>1, Join3Says

(* A part that is left out says nothing. *)
LEMMA WhenSays ==
  ASSUME NEW condition \in BOOLEAN, NEW lines, NEW cautions, Says(lines, cautions)
  PROVE  Says(When(condition, lines), IF condition THEN cautions ELSE {})
BY NothingSays DEF When

(* A line repeated says what it says once. *)
LEMMA RepeatSays ==
  ASSUME NEW n \in Nat, NEW kind, NEW about
  PROVE  Says(Repeat(n, Line(kind, about)),
              IF n > 0 /\ kind \in CautionKinds THEN {Line(kind, about)} ELSE {})
<1>1. Line(kind, about)[1] = kind
  BY DEF Line
<1>2. IsSeq(Repeat(n, Line(kind, about)))
      /\ Range(Repeat(n, Line(kind, about))) = IF n > 0 THEN {Line(kind, about)} ELSE {}
  BY DEF Repeat, IsSeq, Range
<1> QED BY <1>1, <1>2, CautionsAre DEF Says

(* One text per element.                                                   *)
LEMMA EachSays ==
  ASSUME NEW seq, IsSeq(seq), NEW ss, ss = [i \in DOMAIN seq |-> ss[i]], NEW C,
         \A i \in DOMAIN seq : Says(ss[i], C[i])
  PROVE  Says(FlattenSeq(ss), UNION {C[i] : i \in DOMAIN seq})
<1>1. DOMAIN ss = DOMAIN seq /\ DOMAIN seq = 1..Len(seq) /\ Len(seq) \in Nat
  BY IsSeqFacts
<1>2. IsSeq(ss)
  BY <1>1 DEF IsSeq, Range
<1>3. \A i \in DOMAIN seq : IsSeq(ss[i]) /\ Cautions(ss[i]) = C[i]
  BY DEF Says
<1>4. \A x \in Range(ss) : IsSeq(x)
  BY <1>1, <1>3 DEF Range
<1>5. IsSeq(FlattenSeq(ss)) /\ Range(FlattenSeq(ss)) = UNION {Range(x) : x \in Range(ss)}
  BY <1>2, <1>4, FlattenIs
<1>6. UNION {Range(x) : x \in Range(ss)} = UNION {Range(ss[i]) : i \in DOMAIN seq}
  BY <1>1 DEF Range
<1> QED BY <1>3, <1>5, <1>6, CautionsAre DEF Says

Component == [id : STRING, graded : BOOLEAN, subtests : Nat, informational : Nat, notes : Nat]

ComponentCautions(c) == IF c.notes > 0 THEN {Line("component note", c.id)} ELSE {}

(* A component of the printed run cautions of its notes, and of nothing    *)
(* else (report.rs).                                                       *)
LEMMA PrintComponentSays ==
  ASSUME NEW c \in Component
  PROVE  Says(PrintComponent(c), ComponentCautions(c))
<1> DEFINE p == <<Blank, Line("component", c.id)>>
           q == Repeat(c.subtests, Line("subtest", c.id))
           r == When(c.informational > 0, <<Line("informational", c.id)>>)
           s == Repeat(c.informational, Line("info", c.id))
           t == Repeat(c.notes, Line("component note", c.id))
<1>0. c.subtests \in Nat /\ c.informational \in Nat /\ c.notes \in Nat
  BY DEF Component
<1>1. Says(p, {})
  BY PairSays DEF Blank, CautionKinds
<1>2. Says(q, {})
  BY <1>0, RepeatSays DEF CautionKinds
<1>3. Says(r, {})
  <2>1. Says(<<Line("informational", c.id)>>, {})
    BY LineSays DEF CautionKinds
  <2>2. (c.informational > 0) \in BOOLEAN
    BY <1>0
  <2> QED BY <2>1, <2>2, WhenSays
<1>4. Says(s, {})
  BY <1>0, RepeatSays DEF CautionKinds
<1>5. Says(t, ComponentCautions(c))
  BY <1>0, RepeatSays DEF CautionKinds, ComponentCautions
<1>6. PrintComponent(c) = p \o q \o r \o s \o t
  BY Zenon DEF PrintComponent
<1> HIDE DEF p, q, r, s, t
<1>7. Says(p \o q \o r \o s \o t, {} \cup {} \cup {} \cup {} \cup ComponentCautions(c))
  BY <1>1, <1>2, <1>3, <1>4, <1>5, Join5Says
<1>8. {} \cup {} \cup {} \cup {} \cup ComponentCautions(c) = ComponentCautions(c)
  OBVIOUS
<1> QED BY <1>6, <1>7, <1>8

(* So does a component of the results screen (results.rs). *)
LEMMA ScreenComponentSays ==
  ASSUME NEW c \in Component
  PROVE  Says(ScreenComponent(c), ComponentCautions(c))
<1> DEFINE p == <<Line("component", c.id)>>
           q == Repeat(c.subtests, Line("subtest", c.id))
           r == Repeat(c.informational, Line("info", c.id))
           s == Repeat(c.notes, Line("component note", c.id))
           t == <<Blank>>
<1>0. c.subtests \in Nat /\ c.informational \in Nat /\ c.notes \in Nat
  BY DEF Component
<1>1. Says(p, {})
  BY LineSays DEF CautionKinds
<1>2. Says(q, {})
  BY <1>0, RepeatSays DEF CautionKinds
<1>3. Says(r, {})
  BY <1>0, RepeatSays DEF CautionKinds
<1>4. Says(s, ComponentCautions(c))
  BY <1>0, RepeatSays DEF CautionKinds, ComponentCautions
<1>5. Says(t, {})
  BY LineSays DEF CautionKinds, Blank
<1>6. ScreenComponent(c) = p \o q \o r \o s \o t
  BY Zenon DEF ScreenComponent
<1> HIDE DEF p, q, r, s, t
<1>7. Says(p \o q \o r \o s \o t, {} \cup {} \cup {} \cup ComponentCautions(c) \cup {})
  BY <1>1, <1>2, <1>3, <1>4, <1>5, Join5Says
<1>8. {} \cup {} \cup {} \cup ComponentCautions(c) \cup {} = ComponentCautions(c)
  OBVIOUS
<1> QED BY <1>6, <1>7, <1>8

(* The value an option holds. *)
LEMMA OptionIs ==
  /\ IsSeq(None) /\ Range(None) = {}
  /\ \A x : IsSeq(Some(x)) /\ Range(Some(x)) = {x} /\ DOMAIN Some(x) = {1} /\ Some(x)[1] = x
<1>1. ASSUME NEW x
      PROVE  IsSeq(Some(x)) /\ Range(Some(x)) = {x} /\ DOMAIN Some(x) = {1} /\ Some(x)[1] = x
  BY SeqOfOne DEF Some
<1> QED BY <1>1, SeqOfNone DEF None

(* A field that may be absent gives one text or none.                      *)
LEMMA EachOption ==
  ASSUME NEW option, option = None \/ \E x : option = Some(x), NEW ss,
         ss = [i \in DOMAIN option |-> ss[i]], \A i \in DOMAIN option : IsSeq(ss[i])
  PROVE  FlattenSeq(ss) = IF option = None THEN <<>> ELSE ss[1]
<1>1. CASE option = None
  <2>1. ss = <<>>
    BY <1>1 DEF None
  <2> QED BY <1>1, <2>1, FlattenNone
<1>2. CASE \E x : option = Some(x)
  <2>1. DOMAIN option = {1} /\ option # None
    BY <1>2, OptionIs DEF None, Some
  <2>2. ss = <<ss[1]>>
    BY <2>1
  <2>3. FlattenSeq(<<ss[1]>>) = ss[1]
    BY <2>1, FlattenOne
  <2> QED BY <2>1, <2>2, <2>3
<1> QED BY <1>1, <1>2

(* An option is none or some value. *)
LEMMA OptionCases ==
  ASSUME NEW S, NEW option \in Option(S)
  PROVE  option = None \/ \E x \in S : option = Some(x)
<1>1. option \in Seq(S) /\ Len(option) <= 1
  BY DEF Option
<1>2. Len(option) \in Nat
  BY <1>1
<1>3. CASE Len(option) = 0
  BY <1>1, <1>3, EmptySeq DEF None
<1>4. CASE Len(option) = 1
  <2>1. option[1] \in S /\ option = <<option[1]>>
    BY <1>1, <1>4
  <2> QED BY <2>1 DEF Some
<1>5. Len(option) = 0 \/ Len(option) = 1
  <2>1. \A n \in Nat : n <= 1 => n = 0 \/ n = 1
    OBVIOUS
  <2> QED BY <1>1, <1>2, <2>1, Zenon
<1> QED BY <1>3, <1>4, <1>5

(* One line per element, all of one kind that cautions.                    *)
LEMMA EachLineSays ==
  ASSUME NEW seq, IsSeq(seq), NEW kind \in CautionKinds
  PROVE  Says(FlattenSeq([i \in DOMAIN seq |-> <<Line(kind, seq[i])>>]),
              {Line(kind, x) : x \in Range(seq)})
<1> DEFINE ss == [i \in DOMAIN seq |-> <<Line(kind, seq[i])>>]
           C  == [i \in DOMAIN seq |-> {Line(kind, seq[i])}]
<1>1. \A i \in DOMAIN seq : Says(ss[i], C[i])
  BY LineSays
<1>2. ss = [i \in DOMAIN seq |-> ss[i]]
  OBVIOUS
<1>3. UNION {C[i] : i \in DOMAIN seq} = {Line(kind, x) : x \in Range(seq)}
  BY DEF Range
<1>4. \A G : (ss = [i \in DOMAIN seq |-> ss[i]] /\ (\A i \in DOMAIN seq : Says(ss[i], G[i])))
             => Says(FlattenSeq(ss), UNION {G[i] : i \in DOMAIN seq})
  <2> HIDE DEF ss, C
  <2> QED BY EachSays
<1>5. Says(FlattenSeq(ss), UNION {C[i] : i \in DOMAIN seq})
  <2> HIDE DEF ss, C
  <2> QED BY <1>1, <1>2, <1>4
<1> QED BY <1>3, <1>5

BatteryCautions(info, note) ==
  {Line("verdict", v) : v \in Range(HealthVerdict(info))}
  \cup IF PowerNote(info) /\ note THEN {Line("power note", "")} ELSE {}

PowerCautions(power) ==
  IF HeldBack(power) # {} THEN {Line("held back", HeldBack(power))} ELSE {}

AgeCautions(age) ==
  (IF age.max_age # None THEN {Line("ceiling", age.max_age)} ELSE {})
  \cup {Line("age note", n) : n \in Range(FirmwareNote(age) \o UsageNote(age))}

(* A line that is no caution says nothing, shown or left out. *)
LEMMA QuietWhen ==
  ASSUME NEW condition \in BOOLEAN, NEW kind, kind \notin CautionKinds, NEW about
  PROVE  Says(When(condition, <<Line(kind, about)>>), {})
<1>1. Says(<<Line(kind, about)>>, {})
  BY LineSays
<1> QED BY <1>1, WhenSays

(* What held the machine back is one caution, when there is anything. *)
LEMMA HeldSays ==
  ASSUME NEW power
  PROVE  Says(Held(power), PowerCautions(power))
<1>1. Says(<<Line("held back", HeldBack(power))>>, {Line("held back", HeldBack(power))})
  BY LineSays DEF CautionKinds
<1> DEFINE condition == HeldBack(power) # {}
<1>2. condition \in BOOLEAN
  OBVIOUS
<1>3. Says(When(condition, <<Line("held back", HeldBack(power))>>),
           IF condition THEN {Line("held back", HeldBack(power))} ELSE {})
  <2> HIDE DEF condition
  <2> QED BY <1>1, <1>2, WhenSays
<1> QED BY <1>3 DEF Held, PowerCautions

(* The power section of the printed run cautions of what held the machine  *)
(* back.                                                                   *)
LEMMA PrintPowerSays ==
  ASSUME NEW power
  PROVE  Says(PrintPower(power), PowerCautions(power))
<1> DEFINE p == <<Blank, Line("power", "")>>
           q == When(power.plugged_in # None, <<Line("column", "plugged in")>>)
           r == When(power.on_battery # None, <<Line("column", "on battery")>>)
           s == Held(power)
<1>1. Says(p, {})
  BY PairSays DEF Blank, CautionKinds
<1>2. Says(q, {}) /\ Says(r, {})
  BY QuietWhen DEF CautionKinds
<1>3. Says(s, PowerCautions(power))
  BY HeldSays
<1>4. PrintPower(power) = p \o q \o r \o s
  BY Zenon DEF PrintPower
<1> HIDE DEF p, q, r, s
<1>5. Says(p \o q \o r, {} \cup {} \cup {})
  BY <1>1, <1>2, Join3Says
<1>6. Says(p \o q \o r \o s, {} \cup {} \cup {} \cup PowerCautions(power))
  BY <1>3, <1>5, JoinSays
<1>7. {} \cup {} \cup {} \cup PowerCautions(power) = PowerCautions(power)
  OBVIOUS
<1> QED BY <1>4, <1>6, <1>7

(* The power section of the screen says what the printed one does. *)
LEMMA ScreenPowerSays ==
  ASSUME NEW power
  PROVE  Says(ScreenPower(power), PowerCautions(power))
<1>1. ScreenPower(power) = PrintPower(power)
  BY Zenon DEF ScreenPower, PrintPower
<1> QED BY <1>1, PrintPowerSays

(* Firmware and usage notes are cautions, one for each. *)
LEMMA AgeNotesSays ==
  ASSUME NEW age
  PROVE  Says(AgeNotes(age), {Line("age note", n) : n \in Range(FirmwareNote(age) \o UsageNote(age))})
<1> DEFINE notes == FirmwareNote(age) \o UsageNote(age)
<1>1. IsSeq(FirmwareNote(age)) /\ IsSeq(UsageNote(age))
  BY OptionIs DEF FirmwareNote, UsageNote
<1>2. IsSeq(notes)
  BY <1>1, ConcatIs
<1>3. AgeNotes(age) = FlattenSeq([i \in DOMAIN notes |-> <<Line("age note", notes[i])>>])
  BY Zenon DEF AgeNotes, Each
<1> HIDE DEF notes
<1>4. Says(FlattenSeq([i \in DOMAIN notes |-> <<Line("age note", notes[i])>>]),
           {Line("age note", n) : n \in Range(notes)})
  BY <1>2, EachLineSays DEF CautionKinds
<1> QED BY <1>3, <1>4 DEF notes

(* The firmware ceiling is a caution wherever it is shown. *)
LEMMA CeilingSays ==
  ASSUME NEW age
  PROVE  Says(When(age.max_age # None, <<Line("ceiling", age.max_age)>>),
              IF age.max_age # None THEN {Line("ceiling", age.max_age)} ELSE {})
<1>1. Says(<<Line("ceiling", age.max_age)>>, {Line("ceiling", age.max_age)})
  BY LineSays DEF CautionKinds
<1> DEFINE condition == age.max_age # None
<1>2. condition \in BOOLEAN
  OBVIOUS
<1> HIDE DEF condition
<1>3. Says(When(condition, <<Line("ceiling", age.max_age)>>),
           IF condition THEN {Line("ceiling", age.max_age)} ELSE {})
  BY <1>1, <1>2, WhenSays
<1> QED BY <1>3 DEF condition

(* The age section cautions of every note and of the ceiling. *)
LEMMA PrintAgeSays ==
  ASSUME NEW age
  PROVE  Says(PrintAge(age), AgeCautions(age)) /\ Says(ScreenAge(age), AgeCautions(age))
<1> DEFINE p == <<Blank, Line("age", "")>>
           q == When(age.launched # None, <<Line("platform", age.launched)>>)
           r == When(age.firmware # None, <<Line("firmware", age.firmware)>>)
           s == When(age.hours # None \/ age.cycles # None, <<Line("use", age.hours)>>)
           t == When(age.max_age # None, <<Line("ceiling", age.max_age)>>)
           u == AgeNotes(age)
           T == IF age.max_age # None THEN {Line("ceiling", age.max_age)} ELSE {}
           U == {Line("age note", n) : n \in Range(FirmwareNote(age) \o UsageNote(age))}
<1>1. Says(p, {})
  BY PairSays DEF Blank, CautionKinds
<1>2. Says(q, {}) /\ Says(r, {})
  BY QuietWhen DEF CautionKinds
<1>3. Says(s, {})
  BY QuietWhen DEF CautionKinds
<1>4. Says(t, T)
  BY CeilingSays
<1>5. Says(u, U)
  BY AgeNotesSays
<1>6. PrintAge(age) = p \o q \o r \o s \o t \o u /\ ScreenAge(age) = PrintAge(age)
  BY Zenon DEF PrintAge, ScreenAge
<1>7. AgeCautions(age) = T \cup U
  BY Zenon DEF AgeCautions
<1> HIDE DEF p, q, r, s, t, u, T, U
<1>8. Says(p \o q \o r \o s \o t, {} \cup {} \cup {} \cup {} \cup T)
  BY <1>1, <1>2, <1>3, <1>4, Join5Says
<1>9. Says(p \o q \o r \o s \o t \o u, {} \cup {} \cup {} \cup {} \cup T \cup U)
  BY <1>5, <1>8, JoinSays
<1>10. {} \cup {} \cup {} \cup {} \cup T \cup U = T \cup U
  OBVIOUS
<1> QED BY <1>6, <1>7, <1>9, <1>10

(* Each verdict on the health of a battery is a caution. *)
LEMMA VerdictsSay ==
  ASSUME NEW info
  PROVE  Says(Each(HealthVerdict(info), LAMBDA v : <<Line("verdict", v)>>),
              {Line("verdict", v) : v \in Range(HealthVerdict(info))})
<1> DEFINE verdicts == HealthVerdict(info)
<1>1. IsSeq(verdicts)
  BY OptionIs DEF HealthVerdict
<1>2. Each(HealthVerdict(info), LAMBDA v : <<Line("verdict", v)>>)
        = FlattenSeq([i \in DOMAIN verdicts |-> <<Line("verdict", verdicts[i])>>])
  BY Zenon DEF Each
<1> HIDE DEF verdicts
<1>3. Says(FlattenSeq([i \in DOMAIN verdicts |-> <<Line("verdict", verdicts[i])>>]),
           {Line("verdict", v) : v \in Range(verdicts)})
  BY <1>1, EachLineSays DEF CautionKinds
<1> QED BY <1>2, <1>3 DEF verdicts

(* The power note is one caution, when it is shown. *)
LEMMA PowerNoteSays ==
  ASSUME NEW condition \in BOOLEAN
  PROVE  Says(When(condition, <<Line("power note", "")>>),
              IF condition THEN {Line("power note", "")} ELSE {})
<1>1. Says(<<Line("power note", "")>>, {Line("power note", "")})
  BY LineSays DEF CautionKinds
<1> QED BY <1>1, WhenSays

(* A heading of three or four lines carries no caution. *)
LEMMA HeadSays ==
  ASSUME NEW k1, NEW a1, NEW k2, NEW a2, NEW k3, NEW a3, NEW k4, NEW a4,
         {k1, k2, k3, k4} \cap CautionKinds = {}
  PROVE  /\ Says(<<Line(k1, a1), Line(k2, a2), Line(k3, a3)>>, {})
         /\ Says(<<Line(k1, a1), Line(k2, a2), Line(k3, a3), Line(k4, a4)>>, {})
<1> DEFINE s == <<Line(k1, a1), Line(k2, a2), Line(k3, a3)>>
           t == <<Line(k1, a1), Line(k2, a2), Line(k3, a3), Line(k4, a4)>>
<1>1. Line(k1, a1)[1] = k1 /\ Line(k2, a2)[1] = k2 /\ Line(k3, a3)[1] = k3 /\ Line(k4, a4)[1] = k4
  BY DEF Line
<1>2. IsSeq(s) /\ Range(s) = {Line(k1, a1), Line(k2, a2), Line(k3, a3)}
  BY PairIs, TripleIs, QuadIs
<1>3. IsSeq(t) /\ Range(t) = {Line(k1, a1), Line(k2, a2), Line(k3, a3), Line(k4, a4)}
  BY PairIs, TripleIs, QuadIs
<1> HIDE DEF s, t
<1>4. Says(s, {})
  BY <1>1, <1>2, CautionsAre DEF Says
<1>5. Says(t, {})
  BY <1>1, <1>3, CautionsAre DEF Says
<1> QED BY <1>4, <1>5 DEF s, t

(* A battery cautions of its verdicts, and of a run on battery when no     *)
(* power section tells of it.                                              *)
LEMMA BatterySays ==
  ASSUME NEW info, NEW power
  PROVE  /\ Says(PrintBattery(info, power = None), BatteryCautions(info, power = None))
         /\ Says(ScreenBattery(info, power), BatteryCautions(info, power = None))
<1> DEFINE p == <<Blank, Line("battery", ""), Line("charge", info.state), Line("health", info.health)>>
           q == When(info.cycles # None, <<Line("cycles", info.cycles)>>)
           r == Each(HealthVerdict(info), LAMBDA v : <<Line("verdict", v)>>)
           noted == PowerNote(info) /\ power = None
           s == When(noted, <<Line("power note", "")>>)
           R == {Line("verdict", v) : v \in Range(HealthVerdict(info))}
           S == IF noted THEN {Line("power note", "")} ELSE {}
<1>1. Says(p, {})
  BY HeadSays DEF Blank, CautionKinds
<1>2. Says(q, {})
  BY QuietWhen DEF CautionKinds
<1>3. Says(r, R)
  BY VerdictsSay
<1>4. Says(s, S)
  <2>1. noted \in BOOLEAN
    BY DEF PowerNote
  <2> HIDE DEF noted
  <2> QED BY <2>1, PowerNoteSays
<1>5. PrintBattery(info, power = None) = p \o q \o r \o s /\ ScreenBattery(info, power) = p \o r \o s
  BY Zenon DEF PrintBattery, ScreenBattery
<1>6. BatteryCautions(info, power = None) = R \cup S
  BY Zenon DEF BatteryCautions
<1> HIDE DEF p, q, r, s, R, S
<1>7. Says(p \o q \o r, {} \cup {} \cup R) /\ Says(p \o r \o s, {} \cup R \cup S)
  BY <1>1, <1>2, <1>3, <1>4, Join3Says
<1>8. Says(p \o q \o r \o s, {} \cup {} \cup R \cup S)
  BY <1>4, <1>7, JoinSays
<1>9. {} \cup {} \cup R \cup S = R \cup S /\ {} \cup R \cup S = R \cup S
  OBVIOUS
<1> QED BY <1>5, <1>6, <1>7, <1>8, <1>9

Ref == [preset : BOOLEAN, component : STRING, samples : Nat]

RefCautions(r) == IF r.preset THEN {Line("preset", r.component)} ELSE {}
SingleCautions(r) == IF r.samples <= 1 THEN {Line("single sample", r.component)} ELSE {}

(* A line of the model references cautions of a preset, and in print of a  *)
(* model seen once.                                                        *)
LEMMA RefSays ==
  ASSUME NEW r \in Ref
  PROVE  /\ Says(<<Line("model", r.component), Line("deltas", r.component)>>
                 \o When(r.preset, <<Line("preset", r.component)>>)
                 \o When(r.samples <= 1, <<Line("single sample", r.component)>>),
                 RefCautions(r) \cup SingleCautions(r))
         /\ Says(<<Line("model", r.component), Line("deltas", r.component)>>
                 \o When(r.preset, <<Line("preset", r.component)>>), RefCautions(r))
<1> DEFINE p == <<Line("model", r.component), Line("deltas", r.component)>>
           q == When(r.preset, <<Line("preset", r.component)>>)
           s == When(r.samples <= 1, <<Line("single sample", r.component)>>)
<1>1. Says(p, {})
  BY PairSays DEF CautionKinds
<1>2. Says(q, RefCautions(r))
  <2>1. Says(<<Line("preset", r.component)>>, {Line("preset", r.component)})
    BY LineSays DEF CautionKinds
  <2>2. r.preset \in BOOLEAN
    BY DEF Ref
  <2> QED BY <2>1, <2>2, WhenSays DEF RefCautions
<1>3. Says(s, SingleCautions(r))
  <2> DEFINE once == r.samples <= 1
  <2>1. Says(<<Line("single sample", r.component)>>, {Line("single sample", r.component)})
    BY LineSays DEF CautionKinds
  <2>2. once \in BOOLEAN
    BY DEF Ref
  <2>3. SingleCautions(r) = IF once THEN {Line("single sample", r.component)} ELSE {}
    BY Zenon DEF SingleCautions
  <2> HIDE DEF once
  <2>4. Says(When(once, <<Line("single sample", r.component)>>), SingleCautions(r))
    BY <2>1, <2>2, <2>3, WhenSays
  <2> QED BY <2>4 DEF once
<1> HIDE DEF p, q, s
<1>4. Says(p \o q, {} \cup RefCautions(r)) /\ Says(p \o q \o s, {} \cup RefCautions(r) \cup SingleCautions(r))
  BY <1>1, <1>2, <1>3, JoinSays, Join3Says
<1>5. {} \cup RefCautions(r) = RefCautions(r)
  OBVIOUS
<1> QED BY <1>4, <1>5 DEF p, q, s

RefsCautions(refs) == UNION {RefCautions(refs[i]) : i \in DOMAIN refs}
SinglesCautions(refs) == UNION {SingleCautions(refs[i]) : i \in DOMAIN refs}

(* Both renderings of the model references caution of every preset among   *)
(* them, and the printed one of those seen once.                           *)
LEMMA ModelRefSays ==
  ASSUME NEW refs, IsSeq(refs), Range(refs) \subseteq Ref
  PROVE  /\ Says(PrintModelRef(refs), RefsCautions(refs) \cup SinglesCautions(refs))
         /\ Says(ScreenModelRef(refs), RefsCautions(refs))
<1> DEFINE p == <<Blank, Line("model", "")>>
           F(r) == <<Line("model", r.component), Line("deltas", r.component)>>
                   \o When(r.preset, <<Line("preset", r.component)>>)
                   \o When(r.samples <= 1, <<Line("single sample", r.component)>>)
           G(r) == <<Line("model", r.component), Line("deltas", r.component)>>
                   \o When(r.preset, <<Line("preset", r.component)>>)
           ss == [i \in DOMAIN refs |-> F(refs[i])]
           tt == [i \in DOMAIN refs |-> G(refs[i])]
           C  == [i \in DOMAIN refs |-> RefCautions(refs[i])]
           D  == [i \in DOMAIN refs |-> RefCautions(refs[i]) \cup SingleCautions(refs[i])]
           both == RefsCautions(refs) \cup SinglesCautions(refs)
<1>1. Says(p, {})
  BY PairSays DEF Blank, CautionKinds
<1>2. \A i \in DOMAIN refs : refs[i] \in Ref
  BY DEF Range
<1>3. \A r \in Ref : Says(F(r), RefCautions(r) \cup SingleCautions(r)) /\ Says(G(r), RefCautions(r))
  BY RefSays, Zenon
<1>4. PrintModelRef(refs) = p \o FlattenSeq(ss) /\ ScreenModelRef(refs) = p \o FlattenSeq(tt)
  BY Zenon DEF PrintModelRef, ScreenModelRef, Each
<1> HIDE DEF F, G, p
<1>5. \A i \in DOMAIN refs : Says(ss[i], D[i]) /\ Says(tt[i], C[i])
  BY <1>2, <1>3
<1>6. ss = [i \in DOMAIN refs |-> ss[i]] /\ tt = [i \in DOMAIN refs |-> tt[i]]
  OBVIOUS
<1>7. UNION {C[i] : i \in DOMAIN refs} = RefsCautions(refs)
  BY DEF RefsCautions
<1>11. UNION {D[i] : i \in DOMAIN refs} = both
  BY DEF RefsCautions, SinglesCautions
<1> HIDE DEF ss, tt, C, D, both
<1>8. Says(FlattenSeq(ss), both) /\ Says(FlattenSeq(tt), RefsCautions(refs))
  BY <1>5, <1>6, <1>7, <1>11, EachSays
<1>9. {} \cup RefsCautions(refs) = RefsCautions(refs) /\ {} \cup both = both
  OBVIOUS
<1>10. Says(p \o FlattenSeq(ss), {} \cup both) /\ Says(p \o FlattenSeq(tt), {} \cup RefsCautions(refs))
  BY <1>1, <1>8, JoinSays
<1> QED BY <1>4, <1>9, <1>10 DEF both

(* What the two reports and the inventory are made from.                   *)
IsReport(f) ==
  /\ f.why \in Nat /\ f.notes \in Nat /\ f.link \in BOOLEAN
  /\ IsSeq(f.telemetry) /\ \A i \in DOMAIN f.telemetry : f.telemetry[i].limited \in BOOLEAN
  /\ IsSeq(f.soak) /\ \A i \in DOMAIN f.soak : f.soak[i].onset \in BOOLEAN
  /\ IsSeq(f.components) /\ Range(f.components) \subseteq Component
  /\ IsSeq(f.model_ref) /\ Range(f.model_ref) \subseteq Ref
  /\ IsSeq(f.machine.battery) /\ IsSeq(f.machine.power) /\ IsSeq(f.machine.age)

TelemetrySet(f) == UNION {{Line("telemetry", f.telemetry[i].limited)} : i \in DOMAIN f.telemetry}
ComponentsSet(f) == UNION {ComponentCautions(f.components[i]) : i \in DOMAIN f.components}
UngradedSet(f) == IF \E c \in Range(f.components) : ~c.graded THEN {Line("ungraded", "")} ELSE {}
RefsSet(f) == IF f.model_ref # <<>> THEN RefsCautions(f.model_ref) ELSE {}
BatterySet(f) == UNION {BatteryCautions(f.machine.battery[i], f.machine.power = None) : i \in DOMAIN f.machine.battery}
PowerSet(inv) == UNION {PowerCautions(inv.power[i]) : i \in DOMAIN inv.power}
AgeSet(age) == UNION {AgeCautions(age[i]) : i \in DOMAIN age}
OnsetSet(f) == UNION {{Line("onset", f.soak[i].onset)} : i \in DOMAIN f.soak}
VerdictSet(f) == UNION {{Line("soak verdict", VerdictLine(f.soak[i]))} : i \in DOMAIN f.soak}
SkippedSet(f) == IF f.notes > 0 THEN {Line("skipped", "")} ELSE {}
SinglesSet(f) == IF f.model_ref # <<>> THEN SinglesCautions(f.model_ref) ELSE {}
FellSet(f) == IF f.model_ref # <<>> /\ (\E t \in Range(f.telemetry) : t.limited)
              THEN {Line("clocks fell", "")} ELSE {}

(* What only the printed run cautions of.                                  *)
PrintedSet(f) == SkippedSet(f) \cup SinglesSet(f) \cup FellSet(f) \cup VerdictSet(f)

RunCautions(f) ==
  {} \cup TelemetrySet(f) \cup ComponentsSet(f) \cup UngradedSet(f) \cup RefsSet(f) \cup BatterySet(f)
  \cup PowerSet(f.machine) \cup AgeSet(ForMachine(f.machine, f.timestamp)) \cup OnsetSet(f)

(* The age of a machine is an option. *)
LEMMA AgeIsSeq ==
  ASSUME NEW inv, NEW month, IsSeq(inv.age)
  PROVE  IsSeq(ForMachine(inv, month))
<1>1. IsSeq(Assess(inv, month))
  BY OptionIs, Zenon DEF Assess
<1> QED BY <1>1 DEF ForMachine

(* Telemetry cautions when something limited the run. *)
LEMMA TelemetrySays ==
  ASSUME NEW f, IsSeq(f.telemetry)
  PROVE  Says(Each(f.telemetry, LAMBDA t : <<Line("telemetry", t.limited)>>), TelemetrySet(f))
<1> DEFINE ss == [i \in DOMAIN f.telemetry |-> <<Line("telemetry", f.telemetry[i].limited)>>]
           C  == [i \in DOMAIN f.telemetry |-> {Line("telemetry", f.telemetry[i].limited)}]
<1>1. Each(f.telemetry, LAMBDA t : <<Line("telemetry", t.limited)>>) = FlattenSeq(ss)
  BY Zenon DEF Each
<1>2. \A i \in DOMAIN f.telemetry : Says(ss[i], C[i])
  BY LineSays DEF CautionKinds
<1>3. ss = [i \in DOMAIN f.telemetry |-> ss[i]]
  OBVIOUS
<1>4. UNION {C[i] : i \in DOMAIN f.telemetry} = TelemetrySet(f)
  BY DEF TelemetrySet
<1> HIDE DEF ss, C
<1>5. Says(FlattenSeq(ss), TelemetrySet(f))
  BY <1>2, <1>3, <1>4, EachSays
<1> QED BY <1>1, <1>5

(* The components section cautions of the notes of every component, in     *)
(* both renderings.                                                        *)
LEMMA ComponentsSay ==
  ASSUME NEW f, IsSeq(f.components), Range(f.components) \subseteq Component
  PROVE  /\ Says(Each(f.components, PrintComponent), ComponentsSet(f))
         /\ Says(Each(f.components, ScreenComponent), ComponentsSet(f))
<1> DEFINE ss == [i \in DOMAIN f.components |-> PrintComponent(f.components[i])]
           tt == [i \in DOMAIN f.components |-> ScreenComponent(f.components[i])]
           C  == [i \in DOMAIN f.components |-> ComponentCautions(f.components[i])]
<1>1. /\ Each(f.components, PrintComponent) = FlattenSeq(ss)
      /\ Each(f.components, ScreenComponent) = FlattenSeq(tt)
  BY Zenon DEF Each
<1>2. \A i \in DOMAIN f.components : f.components[i] \in Component
  BY DEF Range
<1>3. \A i \in DOMAIN f.components : Says(ss[i], C[i]) /\ Says(tt[i], C[i])
  BY <1>2, PrintComponentSays, ScreenComponentSays
<1>4. ss = [i \in DOMAIN f.components |-> ss[i]] /\ tt = [i \in DOMAIN f.components |-> tt[i]]
  OBVIOUS
<1>5. UNION {C[i] : i \in DOMAIN f.components} = ComponentsSet(f)
  BY DEF ComponentsSet
<1> HIDE DEF ss, tt, C
<1> QED BY <1>1, <1>3, <1>4, <1>5, EachSays

(* A run with an ungraded component says so once. *)
LEMMA UngradedSays ==
  ASSUME NEW f
  PROVE  Says(Ungraded(f), UngradedSet(f))
<1> DEFINE condition == \E c \in Range(f.components) : ~c.graded
<1>1. Says(<<Line("ungraded", "")>>, {Line("ungraded", "")})
  BY LineSays DEF CautionKinds
<1>2. condition \in BOOLEAN
  OBVIOUS
<1>3. Ungraded(f) = When(condition, <<Line("ungraded", "")>>)
      /\ UngradedSet(f) = IF condition THEN {Line("ungraded", "")} ELSE {}
  BY Zenon DEF Ungraded, UngradedSet
<1> HIDE DEF condition
<1> QED BY <1>1, <1>2, <1>3, WhenSays

(* The battery section, in both renderings. *)
LEMMA BatteriesSay ==
  ASSUME NEW f, IsSeq(f.machine.battery)
  PROVE  /\ Says(Each(f.machine.battery, LAMBDA b : PrintBattery(b, f.machine.power = None)), BatterySet(f))
         /\ Says(Each(f.machine.battery, LAMBDA b : ScreenBattery(b, f.machine.power)), BatterySet(f))
<1> DEFINE bs == f.machine.battery
           ss == [i \in DOMAIN bs |-> PrintBattery(bs[i], f.machine.power = None)]
           tt == [i \in DOMAIN bs |-> ScreenBattery(bs[i], f.machine.power)]
           C  == [i \in DOMAIN bs |-> BatteryCautions(bs[i], f.machine.power = None)]
<1>1. /\ Each(f.machine.battery, LAMBDA b : PrintBattery(b, f.machine.power = None)) = FlattenSeq(ss)
      /\ Each(f.machine.battery, LAMBDA b : ScreenBattery(b, f.machine.power)) = FlattenSeq(tt)
  BY Zenon DEF Each
<1>2. \A i \in DOMAIN bs : Says(ss[i], C[i]) /\ Says(tt[i], C[i])
  BY BatterySays
<1>3. ss = [i \in DOMAIN bs |-> ss[i]] /\ tt = [i \in DOMAIN bs |-> tt[i]]
  OBVIOUS
<1>4. UNION {C[i] : i \in DOMAIN bs} = BatterySet(f)
  BY DEF BatterySet
<1>5. IsSeq(bs)
  OBVIOUS
<1> HIDE DEF ss, tt, C, bs
<1> QED BY <1>1, <1>2, <1>3, <1>4, <1>5, EachSays

(* The power sections of a machine block, in both renderings. *)
LEMMA PowersSay ==
  ASSUME NEW inv, IsSeq(inv.power)
  PROVE  /\ Says(Each(inv.power, PrintPower), PowerSet(inv))
         /\ Says(Each(inv.power, ScreenPower), PowerSet(inv))
<1> DEFINE ss == [i \in DOMAIN inv.power |-> PrintPower(inv.power[i])]
           tt == [i \in DOMAIN inv.power |-> ScreenPower(inv.power[i])]
           C  == [i \in DOMAIN inv.power |-> PowerCautions(inv.power[i])]
<1>1. Each(inv.power, PrintPower) = FlattenSeq(ss) /\ Each(inv.power, ScreenPower) = FlattenSeq(tt)
  BY Zenon DEF Each
<1>2. \A i \in DOMAIN inv.power : Says(ss[i], C[i]) /\ Says(tt[i], C[i])
  BY PrintPowerSays, ScreenPowerSays
<1>3. ss = [i \in DOMAIN inv.power |-> ss[i]] /\ tt = [i \in DOMAIN inv.power |-> tt[i]]
  OBVIOUS
<1>4. UNION {C[i] : i \in DOMAIN inv.power} = PowerSet(inv)
  BY DEF PowerSet
<1> HIDE DEF ss, tt, C
<1> QED BY <1>1, <1>2, <1>3, <1>4, EachSays

(* The age sections of a machine block, in both renderings. *)
LEMMA AgesSay ==
  ASSUME NEW age, IsSeq(age)
  PROVE  Says(Each(age, PrintAge), AgeSet(age)) /\ Says(Each(age, ScreenAge), AgeSet(age))
<1> DEFINE ss == [i \in DOMAIN age |-> PrintAge(age[i])]
           tt == [i \in DOMAIN age |-> ScreenAge(age[i])]
           C  == [i \in DOMAIN age |-> AgeCautions(age[i])]
<1>1. Each(age, PrintAge) = FlattenSeq(ss) /\ Each(age, ScreenAge) = FlattenSeq(tt)
  BY Zenon DEF Each
<1>2. \A i \in DOMAIN age : Says(ss[i], C[i]) /\ Says(tt[i], C[i])
  BY PrintAgeSays
<1>3. ss = [i \in DOMAIN age |-> ss[i]] /\ tt = [i \in DOMAIN age |-> tt[i]]
  OBVIOUS
<1>4. UNION {C[i] : i \in DOMAIN age} = AgeSet(age)
  BY DEF AgeSet
<1> HIDE DEF ss, tt, C
<1> QED BY <1>1, <1>2, <1>3, <1>4, EachSays

(* The soak section, in both renderings: the printed one adds a verdict. *)
LEMMA SoakSays ==
  ASSUME NEW f, IsSeq(f.soak)
  PROVE  /\ Says(Each(f.soak, PrintSoak), OnsetSet(f) \cup VerdictSet(f))
         /\ Says(Each(f.soak, LAMBDA s : <<Blank, Line("soak", ""), Line("peak", ""), Line("onset", s.onset)>>),
                 OnsetSet(f))
<1> DEFINE ss == [i \in DOMAIN f.soak |-> PrintSoak(f.soak[i])]
           tt == [i \in DOMAIN f.soak |-> <<Blank, Line("soak", ""), Line("peak", ""), Line("onset", f.soak[i].onset)>>]
           C  == [i \in DOMAIN f.soak |-> {Line("onset", f.soak[i].onset)}]
           D  == [i \in DOMAIN f.soak |-> {Line("onset", f.soak[i].onset),
                                          Line("soak verdict", VerdictLine(f.soak[i]))}]
           both == OnsetSet(f) \cup VerdictSet(f)
<1>1. /\ Each(f.soak, PrintSoak) = FlattenSeq(ss)
      /\ Each(f.soak, LAMBDA s : <<Blank, Line("soak", ""), Line("peak", ""), Line("onset", s.onset)>>)
           = FlattenSeq(tt)
  BY Zenon DEF Each
<1>2. ASSUME NEW x, NEW v
      PROVE  /\ Says(<<Line("soak", ""), Line("onset", x), Line("soak verdict", v)>>,
                     {Line("onset", x), Line("soak verdict", v)})
             /\ Says(<<Blank, Line("soak", ""), Line("peak", ""), Line("onset", x)>>, {Line("onset", x)})
  <2> DEFINE p == <<Line("soak", ""), Line("onset", x), Line("soak verdict", v)>>
             q == <<Blank, Line("soak", ""), Line("peak", ""), Line("onset", x)>>
  <2>1. /\ Line("soak", "")[1] = "soak" /\ Line("onset", x)[1] = "onset"
        /\ Blank[1] = "blank" /\ Line("peak", "")[1] = "peak"
        /\ Line("soak verdict", v)[1] = "soak verdict"
    BY DEF Line, Blank
  <2>2. IsSeq(p) /\ Range(p) = {Line("soak", ""), Line("onset", x), Line("soak verdict", v)}
    BY TripleIs, Zenon
  <2>3. IsSeq(q) /\ Range(q) = {Blank, Line("soak", ""), Line("peak", ""), Line("onset", x)}
    BY QuadIs, Zenon
  <2> HIDE DEF p, q
  <2>4. Says(p, {Line("onset", x), Line("soak verdict", v)})
    BY <2>1, <2>2, CautionsAre DEF Says, CautionKinds
  <2>5. Says(q, {Line("onset", x)})
    BY <2>1, <2>3, CautionsAre DEF Says, CautionKinds
  <2> QED BY <2>4, <2>5 DEF p, q
<1>3. \A i \in DOMAIN f.soak : Says(ss[i], D[i]) /\ Says(tt[i], C[i])
  BY <1>2 DEF PrintSoak
<1>4. ss = [i \in DOMAIN f.soak |-> ss[i]] /\ tt = [i \in DOMAIN f.soak |-> tt[i]]
  OBVIOUS
<1>5. UNION {C[i] : i \in DOMAIN f.soak} = OnsetSet(f)
  BY DEF OnsetSet
<1>6. UNION {D[i] : i \in DOMAIN f.soak} = both
  <2> DEFINE V == [i \in DOMAIN f.soak |-> {Line("soak verdict", VerdictLine(f.soak[i]))}]
  <2>1. UNION {V[i] : i \in DOMAIN f.soak} = VerdictSet(f)
    BY DEF VerdictSet
  <2>2. \A i \in DOMAIN f.soak : D[i] = C[i] \cup V[i]
    OBVIOUS
  <2> HIDE DEF C, D, V
  <2> QED BY <1>5, <2>1, <2>2
<1> HIDE DEF ss, tt, C, D, both
<1>7. Says(FlattenSeq(ss), both) /\ Says(FlattenSeq(tt), OnsetSet(f))
  BY <1>3, <1>4, <1>5, <1>6, EachSays
<1> QED BY <1>1, <1>7 DEF both

(* The printed run says exactly the cautions of its file, and those that   *)
(* only it has.                                                            *)
LEMMA PrintRunSays ==
  ASSUME NEW f, IsReport(f)
  PROVE  Says(PrintRun(f), RunCautions(f) \cup PrintedSet(f))
<1> DEFINE age == ForMachine(f.machine, f.timestamp)
           p1  == <<Line("machine", ""), Line("profile", "")>>
           p2  == Each(f.telemetry, LAMBDA t : <<Line("telemetry", t.limited)>>)
           p3  == Each(f.components, PrintComponent)
           p4  == When(f.notes > 0, <<Blank, Line("skipped", "")>> \o Repeat(f.notes, Line("skipped", "")))
           p5  == <<Line("overall", AnyGraded(f)), Line("why", "")>>
           p6  == Repeat(f.why, Line("why", ""))
           p7  == When(AnyGraded(f), <<Line("baseline", "")>>)
           p8  == Ungraded(f)
           p9  == When(f.model_ref # <<>>,
                       PrintModelRef(f.model_ref)
                       \o When(\E t \in Range(f.telemetry) : t.limited, <<Line("clocks fell", "")>>))
           p10 == Each(f.machine.battery, LAMBDA b : PrintBattery(b, f.machine.power = None))
           p11 == Each(f.machine.power, PrintPower)
           p12 == Each(age, PrintAge)
           p13 == When(f.link, <<Line("link", "")>>)
           p14 == Each(f.soak, PrintSoak)
<1>0. /\ f.why \in Nat /\ f.notes \in Nat /\ f.link \in BOOLEAN
      /\ IsSeq(f.telemetry) /\ IsSeq(f.soak)
      /\ IsSeq(f.components) /\ Range(f.components) \subseteq Component
      /\ IsSeq(f.model_ref) /\ Range(f.model_ref) \subseteq Ref
      /\ IsSeq(f.machine.battery) /\ IsSeq(f.machine.power) /\ IsSeq(f.machine.age)
  BY DEF IsReport
<1>1. Says(p1, {})
  BY PairSays DEF CautionKinds
<1>2. Says(p2, TelemetrySet(f))
  BY <1>0, TelemetrySays
<1>3. Says(p3, ComponentsSet(f))
  BY <1>0, ComponentsSay
<1>4. Says(p4, SkippedSet(f))
  <2> DEFINE some == f.notes > 0
  <2>1. Says(<<Blank, Line("skipped", "")>>, {Line("skipped", "")})
    <3> DEFINE p == <<Blank, Line("skipped", "")>>
    <3>1. Blank[1] = "blank" /\ Line("skipped", "")[1] = "skipped"
      BY DEF Line, Blank
    <3>2. IsSeq(p) /\ Range(p) = {Blank, Line("skipped", "")}
      BY PairIs, Zenon
    <3> HIDE DEF p
    <3>3. Says(p, {Line("skipped", "")})
      BY <3>1, <3>2, CautionsAre DEF Says, CautionKinds
    <3> QED BY <3>3 DEF p
  <2>2. Says(Repeat(f.notes, Line("skipped", "")), IF some THEN {Line("skipped", "")} ELSE {})
    BY <1>0, RepeatSays DEF CautionKinds
  <2>3. some \in BOOLEAN /\ SkippedSet(f) = IF some THEN {Line("skipped", "")} ELSE {}
    BY <1>0 DEF SkippedSet
  <2> DEFINE a == <<Blank, Line("skipped", "")>>
             b == Repeat(f.notes, Line("skipped", ""))
             S == {Line("skipped", "")}
  <2> HIDE DEF some, a, b, S
  <2>4. Says(a \o b, S \cup (IF some THEN S ELSE {}))
    BY <2>1, <2>2, JoinSays DEF a, b, S
  <2>5. Says(When(some, a \o b), IF some THEN S \cup (IF some THEN S ELSE {}) ELSE {})
    BY <2>3, <2>4, WhenSays
  <2>6. (IF some THEN S \cup (IF some THEN S ELSE {}) ELSE {}) = SkippedSet(f)
    BY <2>3 DEF S
  <2> QED BY <2>5, <2>6 DEF some, a, b
<1>5. Says(p5, {})
  BY PairSays DEF CautionKinds
<1>6. Says(p6, {})
  BY <1>0, RepeatSays DEF CautionKinds
<1>7. Says(p7, {})
  <2>1. AnyGraded(f) \in BOOLEAN
    BY DEF AnyGraded
  <2> QED BY <2>1, QuietWhen DEF CautionKinds
<1>8. Says(p8, UngradedSet(f))
  BY UngradedSays
<1>9. Says(p9, RefsSet(f) \cup SinglesSet(f) \cup FellSet(f))
  <2> DEFINE fell == \E t \in Range(f.telemetry) : t.limited
             some == f.model_ref # <<>>
             R == RefsCautions(f.model_ref) \cup SinglesCautions(f.model_ref)
             F == IF fell THEN {Line("clocks fell", "")} ELSE {}
  <2>1. fell \in BOOLEAN /\ some \in BOOLEAN
    OBVIOUS
  <2>2. Says(PrintModelRef(f.model_ref), R)
    BY <1>0, ModelRefSays
  <2>3. /\ RefsSet(f) = IF some THEN RefsCautions(f.model_ref) ELSE {}
        /\ SinglesSet(f) = IF some THEN SinglesCautions(f.model_ref) ELSE {}
        /\ FellSet(f) = IF some /\ fell THEN {Line("clocks fell", "")} ELSE {}
    BY Zenon DEF RefsSet, SinglesSet, FellSet
  <2> HIDE DEF fell, some
  <2>4. Says(When(fell, <<Line("clocks fell", "")>>), F)
    <3>1. Says(<<Line("clocks fell", "")>>, {Line("clocks fell", "")})
      BY LineSays DEF CautionKinds
    <3> QED BY <2>1, <3>1, WhenSays
  <2>6. RefsSet(f) \cup SinglesSet(f) \cup FellSet(f) = IF some THEN R \cup F ELSE {}
    BY <2>1, <2>3
  <2> HIDE DEF R, F
  <2>5. Says(PrintModelRef(f.model_ref) \o When(fell, <<Line("clocks fell", "")>>), R \cup F)
    BY <2>2, <2>4, JoinSays
  <2>7. Says(When(some, PrintModelRef(f.model_ref) \o When(fell, <<Line("clocks fell", "")>>)),
             IF some THEN R \cup F ELSE {})
    BY <2>1, <2>5, WhenSays
  <2> QED BY <2>6, <2>7 DEF fell, some
<1>10. Says(p10, BatterySet(f))
  BY <1>0, BatteriesSay
<1>11. Says(p11, PowerSet(f.machine))
  BY <1>0, PowersSay
<1>12. Says(p12, AgeSet(age))
  BY <1>0, AgeIsSeq, AgesSay
<1>13. Says(p13, {})
  BY <1>0, QuietWhen DEF CautionKinds
<1>14. Says(p14, OnsetSet(f) \cup VerdictSet(f))
  BY <1>0, SoakSays
<1>15. PrintRun(f) = p1 \o p2 \o p3 \o p4 \o p5 \o p6 \o p7 \o p8 \o p9 \o p10 \o p11 \o p12 \o p13 \o p14
  BY Zenon DEF PrintRun
<1>16. RunCautions(f) = {} \cup TelemetrySet(f) \cup ComponentsSet(f) \cup UngradedSet(f) \cup RefsSet(f)
                        \cup BatterySet(f) \cup PowerSet(f.machine) \cup AgeSet(age) \cup OnsetSet(f)
  BY Zenon DEF RunCautions
<1> HIDE DEF p1, p2, p3, p4, p5, p6, p7, p8, p9, p10, p11, p12, p13, p14, age
<1> DEFINE a == p1 \o p2 \o p3 \o p4 \o p5
           A == {} \cup TelemetrySet(f) \cup ComponentsSet(f) \cup SkippedSet(f) \cup {}
           b == a \o p6 \o p7 \o p8 \o p9
           R == RefsSet(f) \cup SinglesSet(f) \cup FellSet(f)
           B == A \cup {} \cup {} \cup UngradedSet(f) \cup R
           c == b \o p10 \o p11 \o p12 \o p13
           C == B \cup BatterySet(f) \cup PowerSet(f.machine) \cup AgeSet(age) \cup {}
<1>17. Says(a, A)
  BY <1>1, <1>2, <1>3, <1>4, <1>5, Join5Says
<1>18. Says(b, B)
  <2> HIDE DEF a, A, R
  <2>1. Says(p9, R)
    BY <1>9 DEF R
  <2> QED BY <2>1, <1>17, <1>6, <1>7, <1>8, <1>9, Join5Says
<1>19. Says(c, C)
  <2> HIDE DEF b, B
  <2> QED BY <1>18, <1>10, <1>11, <1>12, <1>13, Join5Says
<1> DEFINE O == OnsetSet(f) \cup VerdictSet(f)
<1>20. Says(c \o p14, C \cup O)
  <2> HIDE DEF c, C, O
  <2>1. Says(p14, O)
    BY <1>14 DEF O
  <2> QED BY <1>19, <2>1, JoinSays
<1>21. C \cup O = RunCautions(f) \cup PrintedSet(f)
  BY <1>16 DEF PrintedSet
<1>22. PrintRun(f) = c \o p14
  BY <1>15
<1> HIDE DEF c, C, O
<1> QED BY <1>20, <1>21, <1>22

(* The results screen says exactly the cautions of its file. *)
LEMMA ScreenRunSays ==
  ASSUME NEW f, IsReport(f)
  PROVE  Says(ScreenRun(f), RunCautions(f))
<1> DEFINE age == ForMachine(f.machine, f.timestamp)
           p1  == <<Line("machine", ""), Line("profile", "")>>
           p2  == Each(f.telemetry, LAMBDA t : <<Line("telemetry", t.limited)>>)
           p3  == <<Blank>>
           p4  == Each(f.components, ScreenComponent)
           p5  == <<Line("overall", AnyGraded(f)), Blank, Line("why", "")>>
           p6  == Repeat(f.why, Line("why", ""))
           p7  == Ungraded(f)
           p8  == When(f.model_ref # <<>>, ScreenModelRef(f.model_ref))
           p9  == Each(f.machine.battery, LAMBDA b : ScreenBattery(b, f.machine.power))
           p10 == Each(f.machine.power, ScreenPower)
           p11 == Each(age, ScreenAge)
           p12 == Each(f.soak, LAMBDA s : <<Blank, Line("soak", ""), Line("peak", ""), Line("onset", s.onset)>>)
<1>0. /\ f.why \in Nat /\ f.notes \in Nat /\ f.link \in BOOLEAN
      /\ IsSeq(f.telemetry) /\ IsSeq(f.soak)
      /\ IsSeq(f.components) /\ Range(f.components) \subseteq Component
      /\ IsSeq(f.model_ref) /\ Range(f.model_ref) \subseteq Ref
      /\ IsSeq(f.machine.battery) /\ IsSeq(f.machine.power) /\ IsSeq(f.machine.age)
  BY DEF IsReport
<1>1. Says(p1, {})
  BY PairSays DEF CautionKinds
<1>2. Says(p2, TelemetrySet(f))
  BY <1>0, TelemetrySays
<1>3. Says(p3, {})
  BY LineSays DEF Blank, CautionKinds
<1>4. Says(p4, ComponentsSet(f))
  BY <1>0, ComponentsSay
<1>5. Says(p5, {})
  BY HeadSays DEF Blank, CautionKinds
<1>6. Says(p6, {})
  BY <1>0, RepeatSays DEF CautionKinds
<1>7. Says(p7, UngradedSet(f))
  BY UngradedSays
<1>8. Says(p8, RefsSet(f))
  <2> DEFINE some == f.model_ref # <<>>
  <2>1. some \in BOOLEAN
    OBVIOUS
  <2>2. Says(ScreenModelRef(f.model_ref), RefsCautions(f.model_ref))
    BY <1>0, ModelRefSays
  <2>3. RefsSet(f) = IF some THEN RefsCautions(f.model_ref) ELSE {}
    BY DEF RefsSet
  <2> HIDE DEF some
  <2>4. Says(When(some, ScreenModelRef(f.model_ref)), IF some THEN RefsCautions(f.model_ref) ELSE {})
    BY <2>1, <2>2, WhenSays
  <2> QED BY <2>3, <2>4 DEF some
<1>9. Says(p9, BatterySet(f))
  BY <1>0, BatteriesSay
<1>10. Says(p10, PowerSet(f.machine))
  BY <1>0, PowersSay
<1>11. Says(p11, AgeSet(age))
  BY <1>0, AgeIsSeq, AgesSay
<1>12. Says(p12, OnsetSet(f))
  BY <1>0, SoakSays
<1>13. ScreenRun(f) = p1 \o p2 \o p3 \o p4 \o p5 \o p6 \o p7 \o p8 \o p9 \o p10 \o p11 \o p12
  BY Zenon DEF ScreenRun
<1>14. RunCautions(f) = {} \cup TelemetrySet(f) \cup ComponentsSet(f) \cup UngradedSet(f) \cup RefsSet(f)
                        \cup BatterySet(f) \cup PowerSet(f.machine) \cup AgeSet(age) \cup OnsetSet(f)
  BY Zenon DEF RunCautions
<1> HIDE DEF p1, p2, p3, p4, p5, p6, p7, p8, p9, p10, p11, p12, age
<1> DEFINE a == p1 \o p2 \o p3 \o p4 \o p5
           A == {} \cup TelemetrySet(f) \cup {} \cup ComponentsSet(f) \cup {}
           b == a \o p6 \o p7 \o p8 \o p9
           B == A \cup {} \cup UngradedSet(f) \cup RefsSet(f) \cup BatterySet(f)
           c == b \o p10 \o p11
           C == B \cup PowerSet(f.machine) \cup AgeSet(age)
<1>15. Says(a, A)
  BY <1>1, <1>2, <1>3, <1>4, <1>5, Join5Says
<1>16. Says(b, B)
  <2> HIDE DEF a, A
  <2> QED BY <1>15, <1>6, <1>7, <1>8, <1>9, Join5Says
<1>17. Says(c, C)
  <2> HIDE DEF b, B
  <2> QED BY <1>16, <1>10, <1>11, Join3Says
<1>18. Says(c \o p12, C \cup OnsetSet(f))
  <2> HIDE DEF c, C
  <2> QED BY <1>17, <1>12, JoinSays
<1>19. C \cup OnsetSet(f) = RunCautions(f)
  BY <1>14
<1>20. ScreenRun(f) = c \o p12
  BY <1>13
<1> HIDE DEF c, C
<1> QED BY <1>18, <1>19, <1>20

(* The power section of the inventory. *)
LEMMA InventoryPowerSays ==
  ASSUME NEW p
  PROVE  Says(<<Line("power", "")>>
              \o When(p.source # None, <<Line("running on", p.source)>>)
              \o When(p.plugged_in # None, <<Line("column", "plugged in")>>)
              \o When(p.on_battery # None, <<Line("column", "on battery")>>)
              \o Held(p), PowerCautions(p))
<1> DEFINE a == <<Line("power", "")>>
           b == When(p.source # None, <<Line("running on", p.source)>>)
           c == When(p.plugged_in # None, <<Line("column", "plugged in")>>)
           d == When(p.on_battery # None, <<Line("column", "on battery")>>)
           e == Held(p)
<1>1. Says(a, {})
  BY LineSays DEF CautionKinds
<1>2. Says(b, {}) /\ Says(c, {}) /\ Says(d, {})
  BY QuietWhen DEF CautionKinds
<1>3. Says(e, PowerCautions(p))
  BY HeldSays
<1> HIDE DEF a, b, c, d, e
<1>4. Says(a \o b \o c \o d \o e, {} \cup {} \cup {} \cup {} \cup PowerCautions(p))
  BY <1>1, <1>2, <1>3, Join5Says
<1>5. {} \cup {} \cup {} \cup {} \cup PowerCautions(p) = PowerCautions(p)
  OBVIOUS
<1> QED BY <1>4, <1>5 DEF a, b, c, d, e

(* The age section of the inventory. *)
LEMMA InventoryAgeSays ==
  ASSUME NEW age
  PROVE  Says(<<Line("age", "")>>
              \o When(age.launched # None, <<Line("platform", age.launched)>>)
              \o When(age.max_age # None, <<Line("ceiling", age.max_age)>>)
              \o When(age.hours # None \/ age.cycles # None, <<Line("use", age.hours)>>)
              \o AgeNotes(age), AgeCautions(age))
<1> DEFINE a == <<Line("age", "")>>
           b == When(age.launched # None, <<Line("platform", age.launched)>>)
           c == When(age.max_age # None, <<Line("ceiling", age.max_age)>>)
           d == When(age.hours # None \/ age.cycles # None, <<Line("use", age.hours)>>)
           e == AgeNotes(age)
           C == IF age.max_age # None THEN {Line("ceiling", age.max_age)} ELSE {}
           E == {Line("age note", n) : n \in Range(FirmwareNote(age) \o UsageNote(age))}
<1>1. Says(a, {})
  BY LineSays DEF CautionKinds
<1>2. Says(b, {}) /\ Says(d, {})
  BY QuietWhen DEF CautionKinds
<1>3. Says(c, C)
  BY CeilingSays
<1>4. Says(e, E)
  BY AgeNotesSays
<1>5. AgeCautions(age) = C \cup E
  BY Zenon DEF AgeCautions
<1> HIDE DEF a, b, c, d, e, C, E
<1>6. Says(a \o b \o c \o d \o e, {} \cup {} \cup C \cup {} \cup E)
  BY <1>1, <1>2, <1>3, <1>4, Join5Says
<1>7. {} \cup {} \cup C \cup {} \cup E = C \cup E
  OBVIOUS
<1> QED BY <1>5, <1>6, <1>7 DEF a, b, c, d, e

DriveCautions(d) == IF d.warned THEN {Line("drive warnings", d.hours)} ELSE {}

(* A battery of the inventory carries no caution. *)
LEMMA InventoryBatterySays ==
  ASSUME NEW b
  PROVE  Says(<<Line("battery", ""), Line("charge", b.state), Line("health", b.health)>>
              \o When(b.cycles # None, <<Line("cycles", b.cycles)>>), {})
<1>1. Says(<<Line("battery", ""), Line("charge", b.state), Line("health", b.health)>>, {})
  BY HeadSays DEF CautionKinds
<1>2. Says(When(b.cycles # None, <<Line("cycles", b.cycles)>>), {})
  BY QuietWhen DEF CautionKinds
<1>3. {} \cup {} = {}
  OBVIOUS
<1>4. Says(<<Line("battery", ""), Line("charge", b.state), Line("health", b.health)>>
           \o When(b.cycles # None, <<Line("cycles", b.cycles)>>), {} \cup {})
  BY <1>1, <1>2, JoinSays
<1> QED BY <1>3, <1>4

DriveRows(d) == <<Line("drive", d.hours), Line("powered", d.cycles)>>
                \o When(d.used # None, <<Line("wear", d.used)>>)
                \o When(d.warned, <<Line("drive warnings", d.hours)>>)

(* A drive of the inventory carries that of its warnings. *)
LEMMA InventoryDriveSays ==
  ASSUME NEW d, d.warned \in BOOLEAN
  PROVE  Says(DriveRows(d), DriveCautions(d))
<1> DEFINE p == <<Line("drive", d.hours), Line("powered", d.cycles)>>
           q == When(d.used # None, <<Line("wear", d.used)>>)
           r == When(d.warned, <<Line("drive warnings", d.hours)>>)
<1>1. Says(p, {})
  BY PairSays DEF CautionKinds
<1>2. Says(q, {})
  BY QuietWhen DEF CautionKinds
<1>3. Says(r, DriveCautions(d))
  <2>1. Says(<<Line("drive warnings", d.hours)>>, {Line("drive warnings", d.hours)})
    BY LineSays DEF CautionKinds
  <2> QED BY <2>1, WhenSays DEF DriveCautions
<1>4. {} \cup {} \cup DriveCautions(d) = DriveCautions(d)
  OBVIOUS
<1> HIDE DEF p, q, r
<1>5. Says(p \o q \o r, {} \cup {} \cup DriveCautions(d))
  BY <1>1, <1>2, <1>3, Join3Says
<1>6. DriveRows(d) = p \o q \o r
  BY DEF DriveRows, p, q, r
<1> QED BY <1>4, <1>5, <1>6

(* A list of quiet texts is quiet.                                         *)
LEMMA QuietEach ==
  ASSUME NEW seq, IsSeq(seq), NEW ss, ss = [i \in DOMAIN seq |-> ss[i]],
         \A i \in DOMAIN seq : Says(ss[i], {})
  PROVE  Says(FlattenSeq(ss), {})
<1> DEFINE C == [i \in DOMAIN seq |-> {}]
<1>1. \A i \in DOMAIN seq : Says(ss[i], C[i])
  OBVIOUS
<1>2. UNION {C[i] : i \in DOMAIN seq} = {}
  OBVIOUS
<1> HIDE DEF C
<1> QED BY <1>1, <1>2, EachSays

DrivesSet(inv) == UNION {DriveCautions(inv.drives[i]) : i \in DOMAIN inv.drives}

PowerRows(p) == <<Line("power", "")>>
                \o When(p.source # None, <<Line("running on", p.source)>>)
                \o When(p.plugged_in # None, <<Line("column", "plugged in")>>)
                \o When(p.on_battery # None, <<Line("column", "on battery")>>)
                \o Held(p)

(* The power section says what its settings say. *)
LEMMA PowerSectionSays ==
  ASSUME NEW power, IsSeq(power)
  PROVE  Says(FlattenSeq([i \in DOMAIN power |-> PowerRows(power[i])]),
              UNION {PowerCautions(power[i]) : i \in DOMAIN power})
<1> DEFINE ss == [i \in DOMAIN power |-> PowerRows(power[i])]
           C  == [i \in DOMAIN power |-> PowerCautions(power[i])]
<1>1. \A i \in DOMAIN power : Says(ss[i], C[i])
  BY InventoryPowerSays DEF PowerRows
<1>2. ss = [i \in DOMAIN power |-> ss[i]]
  OBVIOUS
<1>3. UNION {C[i] : i \in DOMAIN power} = UNION {PowerCautions(power[i]) : i \in DOMAIN power}
  OBVIOUS
<1> HIDE DEF ss, C
<1>4. Says(FlattenSeq(ss), UNION {C[i] : i \in DOMAIN power})
  BY <1>1, <1>2, EachSays
<1> QED BY <1>3, <1>4 DEF ss

(* The drives' section says what the drives say. *)
LEMMA DriveSectionSays ==
  ASSUME NEW drives, IsSeq(drives), \A i \in DOMAIN drives : drives[i].warned \in BOOLEAN
  PROVE  Says(FlattenSeq([i \in DOMAIN drives |-> DriveRows(drives[i])]),
              UNION {DriveCautions(drives[i]) : i \in DOMAIN drives})
<1> DEFINE ss == [i \in DOMAIN drives |-> DriveRows(drives[i])]
           C  == [i \in DOMAIN drives |-> DriveCautions(drives[i])]
<1>1. ASSUME NEW i \in DOMAIN drives
      PROVE  Says(ss[i], C[i])
  <2> DEFINE d == drives[i]
  <2>1. d.warned \in BOOLEAN /\ ss[i] = DriveRows(d) /\ C[i] = DriveCautions(d)
    OBVIOUS
  <2> HIDE DEF d, ss, C
  <2>2. Says(DriveRows(d), DriveCautions(d))
    BY <2>1, InventoryDriveSays
  <2> QED BY <2>1, <2>2
<1>2. ss = [i \in DOMAIN drives |-> ss[i]]
  OBVIOUS
<1>3. UNION {C[i] : i \in DOMAIN drives} = UNION {DriveCautions(drives[i]) : i \in DOMAIN drives}
  OBVIOUS
<1> HIDE DEF ss, C
<1>4. \A i \in DOMAIN drives : Says(ss[i], C[i])
  BY <1>1
<1>5. Says(FlattenSeq(ss), UNION {C[i] : i \in DOMAIN drives})
  BY <1>2, <1>4, EachSays
<1> QED BY <1>3, <1>5 DEF ss

(* The inventory says what its power and age sections and its drives say.  *)
LEMMA InventorySays ==
  ASSUME NEW inv, NEW month, IsSeq(inv.firmware), IsSeq(inv.battery), IsSeq(inv.power),
         IsSeq(inv.drives), \A i \in DOMAIN inv.drives : inv.drives[i].warned \in BOOLEAN, IsSeq(inv.age)
  PROVE  Says(PrintInventory(inv, month), PowerSet(inv) \cup DrivesSet(inv) \cup AgeSet(ForMachine(inv, month)))
<1> DEFINE age == ForMachine(inv, month)
           s2 == [i \in DOMAIN inv.firmware |-> <<Line("firmware", inv.firmware[i])>>]
           s3 == [i \in DOMAIN inv.battery |->
                    <<Line("battery", ""), Line("charge", inv.battery[i].state), Line("health", inv.battery[i].health)>>
                    \o When(inv.battery[i].cycles # None, <<Line("cycles", inv.battery[i].cycles)>>)]
           s4 == [i \in DOMAIN inv.power |->
                    <<Line("power", "")>>
                    \o When(inv.power[i].source # None, <<Line("running on", inv.power[i].source)>>)
                    \o When(inv.power[i].plugged_in # None, <<Line("column", "plugged in")>>)
                    \o When(inv.power[i].on_battery # None, <<Line("column", "on battery")>>)
                    \o Held(inv.power[i])]
           s5 == [i \in DOMAIN inv.drives |->
                    <<Line("drive", inv.drives[i].hours), Line("powered", inv.drives[i].cycles)>>
                    \o When(inv.drives[i].used # None, <<Line("wear", inv.drives[i].used)>>)
                    \o When(inv.drives[i].warned, <<Line("drive warnings", inv.drives[i].hours)>>)]
           s6 == [i \in DOMAIN age |->
                    <<Line("age", "")>>
                    \o When(age[i].launched # None, <<Line("platform", age[i].launched)>>)
                    \o When(age[i].max_age # None, <<Line("ceiling", age[i].max_age)>>)
                    \o When(age[i].hours # None \/ age[i].cycles # None, <<Line("use", age[i].hours)>>)
                    \o AgeNotes(age[i])]
           C6 == [i \in DOMAIN age |-> AgeCautions(age[i])]
           p1 == <<Line("host", ""), Line("cpu", ""), Line("memory", "")>>
<1>1. Says(p1, {})
  BY HeadSays DEF CautionKinds
<1>2. Says(FlattenSeq(s2), {})
  <2>1. \A i \in DOMAIN inv.firmware : Says(s2[i], {})
    BY LineSays DEF CautionKinds
  <2>2. s2 = [i \in DOMAIN inv.firmware |-> s2[i]]
    OBVIOUS
  <2> HIDE DEF s2
  <2> QED BY <2>1, <2>2, QuietEach
<1>3. Says(FlattenSeq(s3), {})
  <2>1. \A i \in DOMAIN inv.battery : Says(s3[i], {})
    BY InventoryBatterySays
  <2>2. s3 = [i \in DOMAIN inv.battery |-> s3[i]]
    OBVIOUS
  <2> HIDE DEF s3
  <2> QED BY <2>1, <2>2, QuietEach
<1>4. Says(FlattenSeq(s4), PowerSet(inv))
  <2>1. s4 = [i \in DOMAIN inv.power |-> PowerRows(inv.power[i])]
    BY DEF PowerRows
  <2> HIDE DEF s4
  <2> QED BY <2>1, PowerSectionSays DEF PowerSet
<1>5. Says(FlattenSeq(s5), DrivesSet(inv))
  <2>1. s5 = [i \in DOMAIN inv.drives |-> DriveRows(inv.drives[i])]
    BY DEF DriveRows
  <2> HIDE DEF s5
  <2> QED BY <2>1, DriveSectionSays DEF DrivesSet
<1>6. Says(FlattenSeq(s6), AgeSet(age))
  <2>1. IsSeq(age)
    BY AgeIsSeq
  <2> HIDE DEF age
  <2>2. \A i \in DOMAIN age : Says(s6[i], C6[i])
    BY InventoryAgeSays
  <2>3. s6 = [i \in DOMAIN age |-> s6[i]]
    OBVIOUS
  <2>4. UNION {C6[i] : i \in DOMAIN age} = AgeSet(age)
    BY DEF AgeSet
  <2> HIDE DEF s6, C6
  <2> QED BY <2>1, <2>2, <2>3, <2>4, EachSays
<1>7. PrintInventory(inv, month)
        = p1 \o FlattenSeq(s2) \o FlattenSeq(s3) \o FlattenSeq(s4) \o FlattenSeq(s5) \o FlattenSeq(s6)
  BY Zenon DEF PrintInventory, Each
<1> HIDE DEF age, p1, s2, s3, s4, s5, s6
<1> DEFINE a == p1 \o FlattenSeq(s2) \o FlattenSeq(s3) \o FlattenSeq(s4) \o FlattenSeq(s5)
           A == {} \cup {} \cup {} \cup PowerSet(inv) \cup DrivesSet(inv)
<1>8. Says(a, A)
  BY <1>1, <1>2, <1>3, <1>4, <1>5, Join5Says
<1>9. Says(a \o FlattenSeq(s6), A \cup AgeSet(age))
  <2> HIDE DEF a, A
  <2> QED BY <1>6, <1>8, JoinSays
<1>10. A \cup AgeSet(age) = PowerSet(inv) \cup DrivesSet(inv) \cup AgeSet(age)
  OBVIOUS
<1> QED BY <1>7, <1>9, <1>10 DEF age

OfOneKind(cautions, kinds) == \A l \in cautions : l[1] \in kinds

(* The kinds tell the cautions of a run's sections apart.                  *)
LEMMA SectionKinds ==
  ASSUME NEW f, NEW age
  PROVE  /\ OfOneKind(TelemetrySet(f), {"telemetry"})
         /\ OfOneKind(ComponentsSet(f), {"component note"})
         /\ OfOneKind(UngradedSet(f), {"ungraded"})
         /\ OfOneKind(RefsSet(f), {"preset"})
         /\ OfOneKind(BatterySet(f), {"verdict", "power note"})
         /\ OfOneKind(OnsetSet(f), {"onset"})
         /\ OfOneKind(PowerSet(f.machine), {"held back"})
         /\ OfOneKind(AgeSet(age), {"age note", "ceiling"})
         /\ OfOneKind(SkippedSet(f), {"skipped"})
         /\ OfOneKind(SinglesSet(f), {"single sample"})
         /\ OfOneKind(FellSet(f), {"clocks fell"})
         /\ OfOneKind(VerdictSet(f), {"soak verdict"})
         /\ OfOneKind(DrivesSet(f.machine), {"drive warnings"})
<1> USE DEF OfOneKind
<1>0. \A kind, about : Line(kind, about)[1] = kind
  BY DEF Line
<1>1. ASSUME NEW l \in TelemetrySet(f)
      PROVE  l[1] \in {"telemetry"}
  <2>1. PICK i \in DOMAIN f.telemetry : l \in {Line("telemetry", f.telemetry[i].limited)}
    BY Zenon DEF TelemetrySet
  <2> QED BY <1>0, <2>1, Zenon
<1>2. ASSUME NEW l \in ComponentsSet(f)
      PROVE  l[1] \in {"component note"}
  <2>1. PICK i \in DOMAIN f.components : l \in ComponentCautions(f.components[i])
    BY Zenon DEF ComponentsSet
  <2> QED BY <1>0, <2>1, Zenon DEF ComponentCautions
<1>3. ASSUME NEW l \in UngradedSet(f)
      PROVE  l[1] \in {"ungraded"}
  BY <1>0, Zenon DEF UngradedSet
<1>4. ASSUME NEW l \in RefsSet(f)
      PROVE  l[1] \in {"preset"}
  <2>1. PICK i \in DOMAIN f.model_ref : l \in RefCautions(f.model_ref[i])
    BY Zenon DEF RefsSet, RefsCautions
  <2> QED BY <1>0, <2>1, Zenon DEF RefCautions
<1>5. ASSUME NEW l \in BatterySet(f)
      PROVE  l[1] \in {"verdict", "power note"}
  <2>1. PICK i \in DOMAIN f.machine.battery :
               l \in BatteryCautions(f.machine.battery[i], f.machine.power = None)
    BY Zenon DEF BatterySet
  <2> QED BY <1>0, <2>1, Zenon DEF BatteryCautions
<1>6. ASSUME NEW l \in OnsetSet(f)
      PROVE  l[1] \in {"onset"}
  <2>1. PICK i \in DOMAIN f.soak : l \in {Line("onset", f.soak[i].onset)}
    BY Zenon DEF OnsetSet
  <2> QED BY <1>0, <2>1, Zenon
<1>7. ASSUME NEW l \in PowerSet(f.machine)
      PROVE  l[1] \in {"held back"}
  <2>1. PICK i \in DOMAIN f.machine.power : l \in PowerCautions(f.machine.power[i])
    BY Zenon DEF PowerSet
  <2> QED BY <1>0, <2>1, Zenon DEF PowerCautions
<1>8. ASSUME NEW l \in AgeSet(age)
      PROVE  l[1] \in {"age note", "ceiling"}
  <2>1. PICK i \in DOMAIN age : l \in AgeCautions(age[i])
    BY Zenon DEF AgeSet
  <2> QED BY <1>0, <2>1, Zenon DEF AgeCautions
<1>9. ASSUME NEW l \in SkippedSet(f)
      PROVE  l[1] \in {"skipped"}
  BY <1>0, Zenon DEF SkippedSet
<1>10. ASSUME NEW l \in SinglesSet(f)
       PROVE  l[1] \in {"single sample"}
  <2>1. PICK i \in DOMAIN f.model_ref : l \in SingleCautions(f.model_ref[i])
    BY Zenon DEF SinglesSet, SinglesCautions
  <2> QED BY <1>0, <2>1, Zenon DEF SingleCautions
<1>11. ASSUME NEW l \in FellSet(f)
       PROVE  l[1] \in {"clocks fell"}
  BY <1>0, Zenon DEF FellSet
<1>12. ASSUME NEW l \in VerdictSet(f)
       PROVE  l[1] \in {"soak verdict"}
  <2>1. PICK i \in DOMAIN f.soak : l \in {Line("soak verdict", VerdictLine(f.soak[i]))}
    BY Zenon DEF VerdictSet
  <2> QED BY <1>0, <2>1, Zenon
<1>13. ASSUME NEW l \in DrivesSet(f.machine)
       PROVE  l[1] \in {"drive warnings"}
  <2>1. PICK i \in DOMAIN f.machine.drives : l \in DriveCautions(f.machine.drives[i])
    BY Zenon DEF DrivesSet
  <2> QED BY <1>0, <2>1, Zenon DEF DriveCautions
<1> QED BY <1>1, <1>2, <1>3, <1>4, <1>5, <1>6, <1>7, <1>8, <1>9, <1>10, <1>11, <1>12, <1>13

(* What both reports of a run caution of, what only the printed one does,  *)
(* and what the inventory shares with them.                                *)
LEMMA KindsTellApart ==
  ASSUME NEW f, IsReport(f)
  PROVE  LET age       == ForMachine(f.machine, f.timestamp)
             printed   == RunCautions(f) \cup PrintedSet(f)
             inventory == PowerSet(f.machine) \cup DrivesSet(f.machine) \cup AgeSet(age)
         IN  /\ {l \in printed : l[1] \notin PrintedOnly} = RunCautions(f)
             /\ {l \in inventory : l[1] \notin InfoOnly} =
                  {l \in printed : l[1] \in {"held back", "age note", "ceiling"}}
             /\ {l \in printed : l[1] = "clocks fell"} = FellSet(f)
             /\ {l \in printed : l[1] = "soak verdict"} = VerdictSet(f)
<1> DEFINE age == ForMachine(f.machine, f.timestamp)
           run == {} \cup TelemetrySet(f) \cup ComponentsSet(f) \cup UngradedSet(f) \cup RefsSet(f)
                  \cup BatterySet(f) \cup PowerSet(f.machine) \cup AgeSet(age) \cup OnsetSet(f)
           only == SkippedSet(f) \cup SinglesSet(f) \cup FellSet(f) \cup VerdictSet(f)
           inventory == PowerSet(f.machine) \cup DrivesSet(f.machine) \cup AgeSet(age)
<1>1. RunCautions(f) = run /\ PrintedSet(f) = only
  BY Zenon DEF RunCautions, PrintedSet
<1> HIDE DEF age
<1>2. /\ \A l \in TelemetrySet(f) : l[1] = "telemetry"
      /\ \A l \in ComponentsSet(f) : l[1] = "component note"
      /\ \A l \in UngradedSet(f) : l[1] = "ungraded"
      /\ \A l \in RefsSet(f) : l[1] = "preset"
      /\ \A l \in BatterySet(f) : l[1] \in {"verdict", "power note"}
      /\ \A l \in OnsetSet(f) : l[1] = "onset"
      /\ \A l \in PowerSet(f.machine) : l[1] = "held back"
      /\ \A l \in AgeSet(age) : l[1] \in {"age note", "ceiling"}
      /\ \A l \in SkippedSet(f) : l[1] = "skipped"
      /\ \A l \in SinglesSet(f) : l[1] = "single sample"
      /\ \A l \in FellSet(f) : l[1] = "clocks fell"
      /\ \A l \in VerdictSet(f) : l[1] = "soak verdict"
      /\ \A l \in DrivesSet(f.machine) : l[1] = "drive warnings"
  BY SectionKinds DEF OfOneKind
<1>3. \A l \in run : l[1] \notin PrintedOnly
  BY <1>2 DEF PrintedOnly
<1>4. \A l \in only : l[1] \in PrintedOnly /\ l[1] \notin {"held back", "age note", "ceiling"}
  BY <1>2 DEF PrintedOnly
<1>5. {l \in run \cup only : l[1] \notin PrintedOnly} = run
  <2> HIDE DEF run, only
  <2> QED BY <1>3, <1>4
<1>6. {l \in run : l[1] \in {"held back", "age note", "ceiling"}} = PowerSet(f.machine) \cup AgeSet(age)
  BY <1>2
<1>7. {l \in run \cup only : l[1] \in {"held back", "age note", "ceiling"}} = PowerSet(f.machine) \cup AgeSet(age)
  <2> HIDE DEF run, only
  <2> QED BY <1>4, <1>6
<1>8. {l \in inventory : l[1] \notin InfoOnly} = PowerSet(f.machine) \cup AgeSet(age)
  BY <1>2 DEF InfoOnly
<1>9. {l \in only : l[1] = "clocks fell"} = FellSet(f) /\ {l \in only : l[1] = "soak verdict"} = VerdictSet(f)
  BY <1>2
<1>10. {l \in run \cup only : l[1] = "clocks fell"} = {l \in only : l[1] = "clocks fell"}
       /\ {l \in run \cup only : l[1] = "soak verdict"} = {l \in only : l[1] = "soak verdict"}
  <2>1. \A l \in run : l[1] # "clocks fell" /\ l[1] # "soak verdict"
    BY <1>3 DEF PrintedOnly
  <2> HIDE DEF run, only
  <2> QED BY <2>1
<1> HIDE DEF run, only, inventory
<1> QED BY <1>1, <1>5, <1>7, <1>8, <1>9, <1>10 DEF age, inventory

CautionAlike(f) ==
  /\ {l \in Cautions(PrintRun(f)) : l[1] \notin PrintedOnly} = Cautions(ScreenRun(f))
  /\ Line("clocks fell", "") \in Range(PrintRun(f)) => Line("telemetry", TRUE) \in Range(ScreenRun(f))
  /\ Line("soak verdict", "throttles") \in Range(PrintRun(f)) => Line("onset", TRUE) \in Range(ScreenRun(f))
  /\ {l \in Cautions(PrintInventory(f.machine, f.timestamp)) : l[1] \notin InfoOnly} =
       {l \in Cautions(PrintRun(f)) : l[1] \in {"held back", "age note", "ceiling"}}

(* One report cautions as the other but for what only print says, and the  *)
(* inventory as the run but for its drives.                                *)
LEMMA ReportsCautionAlike ==
  ASSUME NEW f, IsReport(f), IsSeq(f.machine.firmware), IsSeq(f.machine.drives),
         \A i \in DOMAIN f.machine.drives : f.machine.drives[i].warned \in BOOLEAN
  PROVE  CautionAlike(f)
<1> DEFINE printed == RunCautions(f) \cup PrintedSet(f)
           inventory == PowerSet(f.machine) \cup DrivesSet(f.machine) \cup AgeSet(ForMachine(f.machine, f.timestamp))
<1>0. \A kind, about : Line(kind, about)[1] = kind /\ Line(kind, about)[2] = about
  BY DEF Line
<1>1. Cautions(PrintRun(f)) = printed /\ Cautions(ScreenRun(f)) = RunCautions(f)
  BY PrintRunSays, ScreenRunSays DEF Says
<1>2. Cautions(PrintInventory(f.machine, f.timestamp)) = inventory
  BY InventorySays DEF Says, IsReport
<1>3. /\ {l \in printed : l[1] \notin PrintedOnly} = RunCautions(f)
      /\ {l \in inventory : l[1] \notin InfoOnly} =
           {l \in printed : l[1] \in {"held back", "age note", "ceiling"}}
      /\ {l \in printed : l[1] = "clocks fell"} = FellSet(f)
      /\ {l \in printed : l[1] = "soak verdict"} = VerdictSet(f)
  BY KindsTellApart
<1> HIDE DEF printed, inventory
<1>4. \A l : l \in RunCautions(f) => l \in Range(ScreenRun(f))
  BY <1>1, CautionsAre
<1>5. \A l \in TelemetrySet(f) \cup OnsetSet(f) : l \in RunCautions(f)
  BY DEF RunCautions
<1>6. \A l \in Range(PrintRun(f)) : l[1] \in CautionKinds => l \in printed
  BY <1>1, CautionsAre
<1>7. ASSUME Line("clocks fell", "") \in Range(PrintRun(f))
      PROVE  Line("telemetry", TRUE) \in Range(ScreenRun(f))
  <2>1. Line("clocks fell", "") \in FellSet(f)
    <3>1. Line("clocks fell", "")[1] = "clocks fell"
      BY <1>0
    <3>2. "clocks fell" \in CautionKinds
      BY DEF CautionKinds
    <3> QED BY <1>3, <1>6, <1>7, <3>1, <3>2
  <2>2. PICK t \in Range(f.telemetry) : t.limited
    BY <2>1, Zenon DEF FellSet
  <2>3. PICK i \in DOMAIN f.telemetry : t = f.telemetry[i]
    BY DEF Range
  <2>4. f.telemetry[i].limited = TRUE
    BY <2>2, <2>3 DEF IsReport
  <2>5. Line("telemetry", TRUE) \in TelemetrySet(f)
    BY <2>4 DEF TelemetrySet
  <2> QED BY <1>4, <1>5, <2>5
<1>8. ASSUME Line("soak verdict", "throttles") \in Range(PrintRun(f))
      PROVE  Line("onset", TRUE) \in Range(ScreenRun(f))
  <2>1. Line("soak verdict", "throttles") \in VerdictSet(f)
    <3>1. Line("soak verdict", "throttles")[1] = "soak verdict"
      BY <1>0
    <3>2. "soak verdict" \in CautionKinds
      BY DEF CautionKinds
    <3> QED BY <1>3, <1>6, <1>8, <3>1, <3>2
  <2>2. PICK i \in DOMAIN f.soak : Line("soak verdict", "throttles") \in {Line("soak verdict", VerdictLine(f.soak[i]))}
    BY <2>1, Zenon DEF VerdictSet
  <2>3. VerdictLine(f.soak[i]) = "throttles"
    <3> DEFINE v == VerdictLine(f.soak[i])
    <3> HIDE DEF v
    <3>1. Line("soak verdict", "throttles") = Line("soak verdict", v)
      BY <2>2 DEF v
    <3>2. Line("soak verdict", "throttles")[2] = "throttles" /\ Line("soak verdict", v)[2] = v
      BY DEF Line
    <3> QED BY <3>1, <3>2 DEF v
  <2>4. f.soak[i].onset
    BY <2>3 DEF VerdictLine
  <2>5. f.soak[i].onset = TRUE
    BY <2>4 DEF IsReport
  <2>6. Line("onset", TRUE) \in OnsetSet(f)
    BY <2>5 DEF OnsetSet
  <2> QED BY <1>4, <1>5, <2>6
<1> QED BY <1>1, <1>2, <1>3, <1>7, <1>8 DEF CautionAlike

(* The printed comparison and the screen have the same rows in the same    *)
(* order, but for a steady row one of them words differently.              *)
LEMMA TablesAgree ==
  ASSUME NEW c \in Comparisons
  PROVE  /\ Len(PrintTable(c)) = Len(ScreenTable(c))
         /\ \A i \in DOMAIN PrintTable(c) :
              \/ {PrintTable(c)[i].label, ScreenTable(c)[i].label} = {"steady"}
              \/ PrintTable(c)[i] = ScreenTable(c)[i]
<1> DEFINE T(comp) == [i \in DOMAIN comp.subtests |-> Row(comp.id, comp.subtests[i].id, comp.subtests[i].rel,
                                                          comp.subtests[i].best)]
                      \o <<Row(comp.id, "total", comp.rel, comp.best)>>
           ts == [i \in DOMAIN c.components |-> T(c.components[i])]
           a  == FlattenSeq(ts) \o <<Row("OVERALL", "", c.rel, c.best)>>
           pp(sk) == <<[of |-> "soak", label |-> "steady", tag |-> sk.best_sustained],
                   [of |-> "soak", label |-> "retained", tag |-> sk.best_retention]>>
           qq(sk) == <<Row("soak", "steady", sk.rel_steady, sk.best_sustained),
                   [of |-> "soak", label |-> "retained", tag |-> sk.best_retention]>>
           ps == [i \in DOMAIN c.soak |-> pp(c.soak[i])]
           qs == [i \in DOMAIN c.soak |-> qq(c.soak[i])]
<1>1. /\ c.components \in Seq(Range(c.components)) /\ c.soak \in Option(Range(c.soak))
      /\ \A i \in DOMAIN c.components : c.components[i].subtests \in Seq(Range(c.components[i].subtests))
  BY ReportsAssumption
<1>2. PrintTable(c) = a \o FlattenSeq(ps) /\ ScreenTable(c) = a \o FlattenSeq(qs)
  BY Zenon DEF PrintTable, ScreenTable, Each
<1>3. IsSeq(a)
  <2>1. \A i \in DOMAIN c.components : IsSeq(T(c.components[i]))
    <3> TAKE i \in DOMAIN c.components
    <3> DEFINE s == c.components[i].subtests
               r(k) == Row(c.components[i].id, s[k].id, s[k].rel, s[k].best)
               u == [k \in DOMAIN s |-> r(k)]
    <3>1. DOMAIN s = 1..Len(s) /\ Len(s) \in Nat
      BY <1>1
    <3> HIDE DEF s, r
    <3>2. IsSeq(u)
      BY <3>1 DEF IsSeq, Range
    <3> HIDE DEF u
    <3>3. IsSeq(u \o <<Row(c.components[i].id, "total", c.components[i].rel, c.components[i].best)>>)
      BY <3>2, SeqOfOne, ConcatIs
    <3> QED BY <3>3 DEF s, r, u
  <2> HIDE DEF T
  <2>2. DOMAIN c.components = 1..Len(c.components) /\ Len(c.components) \in Nat
    BY <1>1
  <2>3. IsSeq(ts)
    BY <2>2 DEF IsSeq, Range
  <2>4. \A x \in Range(ts) : IsSeq(x)
    BY <2>1 DEF Range
  <2> HIDE DEF ts
  <2>5. IsSeq(FlattenSeq(ts))
    BY <2>3, <2>4, FlattenIs
  <2> QED BY <2>5, SeqOfOne, ConcatIs
<1> HIDE DEF a
<1>4. Len(a) \in Nat /\ DOMAIN a = 1..Len(a)
  BY <1>3, IsSeqFacts
<1>5. CASE c.soak = None
  <2>1. ps = <<>> /\ qs = <<>>
    BY <1>5 DEF None
  <2> HIDE DEF ps, qs
  <2> QED BY <1>2, <2>1
<1>6. ASSUME NEW x, c.soak = Some(x)
      PROVE  /\ Len(PrintTable(c)) = Len(ScreenTable(c))
             /\ \A i \in DOMAIN PrintTable(c) :
                  \/ {PrintTable(c)[i].label, ScreenTable(c)[i].label} = {"steady"}
                  \/ PrintTable(c)[i] = ScreenTable(c)[i]
  <2>1. DOMAIN c.soak = {1} /\ c.soak[1] = x /\ c.soak # None
    BY <1>6 DEF Some, None
  <2>2. IsSeq(pp(x)) /\ IsSeq(qq(x))
    BY PairIs
  <2>3. FlattenSeq(ps) = pp(x) /\ FlattenSeq(qs) = qq(x)
    <3> HIDE DEF pp, qq
    <3>1. ps[1] = pp(x) /\ qs[1] = qq(x)
      BY <2>1
    <3>2. (\A i \in DOMAIN c.soak : IsSeq(ps[i]) /\ IsSeq(qs[i]))
      BY <2>1, <2>2
    <3>3. ps = [i \in DOMAIN c.soak |-> ps[i]] /\ qs = [i \in DOMAIN c.soak |-> qs[i]]
      OBVIOUS
    <3> HIDE DEF ps, qs
    <3> QED BY <1>6, <2>1, <3>1, <3>2, <3>3, EachOption
  <2> DEFINE p == pp(x)
             q == qq(x)
  <2>4. /\ Len(p) = 2 /\ Len(q) = 2 /\ p[2] = q[2]
        /\ p[1].label = "steady" /\ q[1].label = "steady"
    BY DEF Row
  <2>5. PrintTable(c) = a \o p /\ ScreenTable(c) = a \o q
    BY <1>2, <2>3
  <2> HIDE DEF p, q, pp, qq, ps, qs
  <2>6. p \in Seq(Range(p)) /\ q \in Seq(Range(q)) /\ a \in Seq(Range(a))
    BY <2>2, <1>3 DEF IsSeq, p, q
  <2>7. /\ Len(a \o p) = Len(a) + 2 /\ Len(a \o q) = Len(a) + 2
        /\ DOMAIN (a \o p) = 1..(Len(a) + 2)
        /\ \A i \in 1..Len(a) : (a \o p)[i] = a[i] /\ (a \o q)[i] = a[i]
        /\ (a \o p)[Len(a) + 1] = p[1] /\ (a \o q)[Len(a) + 1] = q[1]
        /\ (a \o p)[Len(a) + 2] = p[2] /\ (a \o q)[Len(a) + 2] = q[2]
    <3> DEFINE A == Range(a) \cup Range(p) \cup Range(q)
    <3>1. \A s, A1, A2 : s \in Seq(A1) /\ A1 \subseteq A2 => s \in Seq(A2)
      OBVIOUS
    <3>2. a \in Seq(A) /\ p \in Seq(A) /\ q \in Seq(A)
      BY <2>6, <3>1
    <3> HIDE DEF A
    <3>3. /\ a \o p \in Seq(A) /\ Len(a \o p) = Len(a) + Len(p)
          /\ \A i \in 1..Len(a) + Len(p) : (a \o p)[i] = IF i <= Len(a) THEN a[i] ELSE p[i - Len(a)]
      BY <3>2, ConcatProperties
    <3>4. /\ a \o q \in Seq(A) /\ Len(a \o q) = Len(a) + Len(q)
          /\ \A i \in 1..Len(a) + Len(q) : (a \o q)[i] = IF i <= Len(a) THEN a[i] ELSE q[i - Len(a)]
      BY <3>2, ConcatProperties
    <3>5. DOMAIN (a \o p) = 1..Len(a \o p)
      BY <3>3, LenProperties
    <3>6. \A n \in Nat : 1..n + 2 = (1..n) \cup {n + 1, n + 2}
                       /\ ~(n + 1 <= n) /\ ~(n + 2 <= n) /\ (n + 1) - n = 1 /\ (n + 2) - n = 2
      OBVIOUS
    <3>7. Len(a) + 1 \in 1..Len(a) + 2 /\ Len(a) + 2 \in 1..Len(a) + 2
      BY <1>4
    <3>8. /\ (a \o p)[Len(a) + 1] = p[1] /\ (a \o q)[Len(a) + 1] = q[1]
          /\ (a \o p)[Len(a) + 2] = p[2] /\ (a \o q)[Len(a) + 2] = q[2]
      BY <1>4, <2>4, <3>3, <3>4, <3>6, <3>7
    <3>9. \A i \in 1..Len(a) : (a \o p)[i] = a[i] /\ (a \o q)[i] = a[i]
      BY <1>4, <2>4, <3>3, <3>4
    <3> QED BY <2>4, <3>3, <3>4, <3>5, <3>8, <3>9
  <2>8. ASSUME NEW i \in DOMAIN (a \o p)
        PROVE  {(a \o p)[i].label, (a \o q)[i].label} = {"steady"} \/ (a \o p)[i] = (a \o q)[i]
    <3>1. i \in 1..Len(a) \/ i = Len(a) + 1 \/ i = Len(a) + 2
      BY <1>4, <2>7
    <3> QED BY <2>4, <2>7, <3>1
  <2> QED BY <2>5, <2>7, <2>8
<1> QED BY <1>1, <1>5, <1>6, OptionCases

(* -- The invariant ----------------------------------------------------- *)

(* A result file about machine block m.                                    *)
Files(m) ==
  [ machine : {m}, timestamp : Nat, why : Nat, notes : Nat, link : BOOLEAN,
    telemetry : Option([limited : BOOLEAN]), soak : Option([onset : BOOLEAN, holds : BOOLEAN]),
    components : Seq(Component), model_ref : Seq(Ref) ]

WorldOk(w) ==
  /\ w \in [machine : Machines, power : UNION {Situations[m] : m \in Machines}, month : Nat]
  /\ w.power \in Situations[w.machine]

AskedOk == \E m \in Machines : asked \in Situations[m]

Discharging(p) == \E pack \in Range(p.pack) : pack.state = "discharging"

(* The cache says discharging only of a pack that did when it was asked.   *)
BatteryOk ==
  /\ battery.info = None \/ battery.info = Some(battery.info[1])
  /\ battery.info # None /\ battery.info[1].state = "discharging" => Discharging(asked)

(* What was collected is of the world the settings were read in, with the  *)
(* battery of the cache, which is not read again.                          *)
CollectedOk == machine # None => battery.read /\ machine = Some(Collected(seen, battery.info))

(* A file holds what was collected before the measuring.                   *)
FileOk ==
  file # None =>
    /\ file = Some(file[1])
    /\ file[1] \in Files(file[1].machine)
    /\ machine = Some(file[1].machine)

MachineInv == WorldOk(world) /\ WorldOk(seen) /\ AskedOk /\ BatteryOk /\ CollectedOk /\ FileOk

ScreenOk ==
  /\ \/ screen = Closed
     \/ screen = ResultsScreen /\ file # None
     \/ \E c \in Comparisons : screen = ComparisonScreen(c)
  /\ size \in Sizes
  /\ scroll \in 0..ScrollMax

(* What a frame shows: nothing, or the text rows from the scrolled line on.*)
DrawnOk ==
  /\ drawn \in [top : Int, view : Int, lines : Int, rows : Int]
  /\ drawn.lines > 0 =>
       /\ screen # Closed /\ ~TooSmall(screen)
       /\ drawn.view = TextRows /\ drawn.lines = LinesOf(screen)
       /\ drawn.top \in 0..MaxScroll(drawn.lines)
       /\ drawn.rows - drawn.lines \in Wrapped(screen)..(Tallest - 1) * Wrapped(screen)

ReportsInv == MachineInv /\ ScreenOk /\ DrawnOk

(* A machine block before its age.                                         *)
Bare(w, info) ==
  [ battery |-> info, power |-> CollectPower(w.machine.system, w.power),
    drives |-> CollectDrives(w.machine), firmware |-> CollectFirmware(w.machine),
    launched |-> w.machine.launched, age |-> None,
    identity |-> CollectIdentity(w.machine) ]

(* What the collected machine block holds, field by field. *)
LEMMA CollectedIs ==
  ASSUME NEW w, NEW info
  PROVE  /\ Collected(w, info).battery = info
         /\ Collected(w, info).power = CollectPower(w.machine.system, w.power)
         /\ Collected(w, info).drives = CollectDrives(w.machine)
         /\ Collected(w, info).firmware = CollectFirmware(w.machine)
         /\ Collected(w, info).launched = w.machine.launched
         /\ Collected(w, info).age = Assess(Bare(w, info), w.month)
         /\ Collected(w, info).identity = CollectIdentity(w.machine)
<1> DEFINE bare == Bare(w, info)
           age  == Assess(bare, w.month)
<1>1. Collected(w, info) = [bare EXCEPT !.age = age]
  BY Zenon DEF Collected, Bare
<1>2. /\ bare.battery = info
      /\ bare.power = CollectPower(w.machine.system, w.power)
      /\ bare.drives = CollectDrives(w.machine)
      /\ bare.firmware = CollectFirmware(w.machine)
      /\ bare.launched = w.machine.launched
      /\ bare.identity = CollectIdentity(w.machine)
      /\ DOMAIN bare = {"battery", "power", "drives", "firmware", "launched", "age", "identity"}
  BY DEF Bare
<1> HIDE DEF bare, age
<1>3. LET inv == [bare EXCEPT !.age = age]
      IN  /\ inv.battery = bare.battery /\ inv.power = bare.power /\ inv.drives = bare.drives
          /\ inv.firmware = bare.firmware /\ inv.launched = bare.launched /\ inv.age = age
          /\ inv.identity = bare.identity
  BY <1>2
<1> QED BY <1>1, <1>2, <1>3 DEF bare, age

(* What a drive that was read holds. *)
LEMMA ReadDriveIs ==
  ASSUME NEW m \in Machines, NEW d \in Range(m.drives)
  PROVE  ReadDrive(d) = None \/ \E x : ReadDrive(d) = Some(x) /\ x.hours \in Nat /\ x.warned \in BOOLEAN
<1>1. IF d.bus = "nvme" THEN d.log.hours \in Nat
      ELSE d.general.stats["hours"] \in Option([supported : BOOLEAN, valid : BOOLEAN, value : Nat])
  BY MachineAssumption
<1>2. ASSUME NEW h \in Nat, NEW c, NEW u, NEW w \in BOOLEAN
      PROVE  \E x : Drive(h, c, u, w) = Some(x) /\ x.hours \in Nat /\ x.warned \in BOOLEAN
  <2> DEFINE x == [hours |-> h, cycles |-> c, used |-> u, warned |-> w]
  <2>1. Drive(h, c, u, w) = Some(x)
    BY DEF Drive
  <2>2. x.hours \in Nat /\ x.warned \in BOOLEAN
    OBVIOUS
  <2> HIDE DEF x
  <2> QED BY <2>1, <2>2
<1>3. CASE d.bus = "nvme"
  <2> DEFINE warned == d.log.warning # 0 \/ d.log.errors # 0
  <2>1. ReadDrive(d) = Drive(d.log.hours, Some(d.log.cycles), Some(d.log.used), warned)
    BY <1>3, Zenon DEF ReadDrive, ParseNvmeHealth
  <2>2. warned \in BOOLEAN
    OBVIOUS
  <2> HIDE DEF warned
  <2> QED BY <1>1, <1>2, <1>3, <2>1, <2>2
<1>4. CASE d.bus # "nvme"
  <2> DEFINE page == AtaStatsPage(d.general, 1)
             hours == AtaStat(page[1], "hours")
  <2>1. ReadDrive(d) = None \/ \E c, u : /\ page # None /\ hours # None
                                         /\ ReadDrive(d) = Drive(hours[1].value, c, u, FALSE)
    BY <1>4, Zenon DEF ReadDrive, ParseAtaStats
  <2>2. ASSUME page # None, hours # None
        PROVE  hours[1].value \in Nat
    <3>1. page = Some(d.general)
      BY <2>2, Zenon DEF AtaStatsPage
    <3>2. page[1] = d.general
      BY <3>1, OptionIs
    <3>3. hours = d.general.stats["hours"]
      BY <2>2, <3>2, Zenon DEF AtaStat
    <3>4. hours \in Option([supported : BOOLEAN, valid : BOOLEAN, value : Nat])
      BY <1>1, <1>4, <3>3
    <3> HIDE DEF hours
    <3>5. PICK x \in [supported : BOOLEAN, valid : BOOLEAN, value : Nat] : hours = Some(x)
      BY <2>2, <3>4, OptionCases
    <3>6. hours[1] = x
      BY <3>5, OptionIs
    <3> QED BY <3>5, <3>6
  <2> HIDE DEF page, hours
  <2>3. CASE ReadDrive(d) # None
    <3> DEFINE h == hours[1].value
    <3> HIDE DEF h
    <3>1. PICK c, u : /\ page # None /\ hours # None
                      /\ ReadDrive(d) = Drive(h, c, u, FALSE)
      BY <2>1, <2>3 DEF h
    <3>2. h \in Nat /\ FALSE \in BOOLEAN
      BY <2>2, <3>1 DEF h
    <3>3. \E x : Drive(h, c, u, FALSE) = Some(x) /\ x.hours \in Nat /\ x.warned \in BOOLEAN
      BY <1>2, <3>2
    <3> QED BY <3>1, <3>3
  <2> QED BY <2>3
<1> QED BY <1>3, <1>4

(* The drives collected are a sequence of drives, on every system. *)
LEMMA DrivesAre ==
  ASSUME NEW m \in Machines
  PROVE  IsSeq(CollectDrives(m)) /\ \A d \in Range(CollectDrives(m)) : d.hours \in Nat /\ d.warned \in BOOLEAN
<1> DEFINE Good(s) == IsSeq(s) /\ \A d \in Range(s) : d.hours \in Nat /\ d.warned \in BOOLEAN
<1>1. m.drives \in Seq(Range(m.drives)) /\ DOMAIN m.drives = 1..Len(m.drives) /\ Len(m.drives) \in Nat
  BY MachineAssumption
<1>2. \A d \in Range(m.drives) : Good(ReadDrive(d))
  BY ReadDriveIs, OptionIs
<1>3. Good(None) /\ Good(<<>>)
  BY OptionIs, SeqOfNone
<1>4. ASSUME NEW wanted
      PROVE  Good(FlattenSeq([i \in DOMAIN m.drives |-> IF i \in wanted THEN ReadDrive(m.drives[i]) ELSE None]))
  <2> DEFINE ss == [i \in DOMAIN m.drives |-> IF i \in wanted THEN ReadDrive(m.drives[i]) ELSE None]
  <2> HIDE DEF Good
  <2>1. \A i \in DOMAIN m.drives : Good(ss[i])
    <3>1. \A i \in DOMAIN m.drives : m.drives[i] \in Range(m.drives)
      BY DEF Range
    <3> QED BY <1>2, <1>3, <3>1
  <2>2. IsSeq(ss)
    BY <1>1 DEF IsSeq, Range
  <2>3. \A x \in Range(ss) : Good(x)
    BY <2>1 DEF Range
  <2> HIDE DEF ss
  <2>4. IsSeq(FlattenSeq(ss)) /\ Range(FlattenSeq(ss)) = UNION {Range(x) : x \in Range(ss)}
    BY <2>2, <2>3, FlattenIs DEF Good
  <2>5. Good(FlattenSeq(ss))
    BY <2>3, <2>4 DEF Good
  <2> QED BY <2>5 DEF ss
<1>5. \A a, b : Good(a) /\ Good(b) => Good(a \o b)
  BY ConcatIs
<1>6. CASE m.system = "linux"
  <2> DEFINE ns == {i \in DOMAIN m.drives : m.drives[i].bus = "nvme"}
             ss == {i \in DOMAIN m.drives : m.drives[i].bus = "sata" /\ ~m.drives[i].removable}
             read(wanted) == FlattenSeq([i \in DOMAIN m.drives |-> IF i \in wanted THEN ReadDrive(m.drives[i]) ELSE None])
  <2>1. CollectDrives(m) = LinuxDrives(m)
    BY <1>6 DEF CollectDrives
  <2>2. LinuxDrives(m) = IF m.root THEN read(ns) \o read(ss) ELSE <<>>
    <3>1. [i \in DOMAIN m.drives |-> IF m.drives[i].bus = "nvme" THEN ReadDrive(m.drives[i]) ELSE None]
            = [i \in DOMAIN m.drives |-> IF i \in ns THEN ReadDrive(m.drives[i]) ELSE None]
      OBVIOUS
    <3>2. [i \in DOMAIN m.drives |-> IF m.drives[i].bus = "sata" /\ ~m.drives[i].removable THEN ReadDrive(m.drives[i]) ELSE None]
            = [i \in DOMAIN m.drives |-> IF i \in ss THEN ReadDrive(m.drives[i]) ELSE None]
      OBVIOUS
    <3> QED BY <3>1, <3>2, Zenon DEF LinuxDrives
  <2>3. Good(read(ns)) /\ Good(read(ss))
    BY <1>4
  <2> HIDE DEF Good, read, ns, ss
  <2>4. Good(LinuxDrives(m))
    BY <1>3, <1>5, <2>2, <2>3
  <2> QED BY <2>1, <2>4 DEF Good
<1>7. CASE m.system = "windows"
  <2> DEFINE ws == {i \in DOMAIN m.drives : m.drives[i].bus \in {"nvme", "sata"} /\ (m.root \/ m.drives[i].open)}
  <2>1. CollectDrives(m) = WindowsDrives(m)
    BY <1>7 DEF CollectDrives
  <2>2. WindowsDrives(m) = FlattenSeq([i \in DOMAIN m.drives |-> IF i \in ws THEN ReadDrive(m.drives[i]) ELSE None])
    <3>1. [i \in DOMAIN m.drives |-> IF m.drives[i].bus \in {"nvme", "sata"} /\ (m.root \/ m.drives[i].open)
                                     THEN ReadDrive(m.drives[i]) ELSE None]
            = [i \in DOMAIN m.drives |-> IF i \in ws THEN ReadDrive(m.drives[i]) ELSE None]
      OBVIOUS
    <3> QED BY <3>1, Zenon DEF WindowsDrives
  <2> HIDE DEF ws
  <2> QED BY <1>4, <2>1, <2>2
<1>8. CASE m.system \notin {"linux", "windows"}
  <2>1. CollectDrives(m) = <<>>
    BY <1>8 DEF CollectDrives
  <2> QED BY <1>3, <2>1
<1> QED BY <1>6, <1>7, <1>8

(* What a file holds. *)
LEMMA FileIs ==
  ASSUME MachineInv, file # None
  PROVE  /\ file = Some(file[1]) /\ file[1] \in Files(file[1].machine)
         /\ file[1].machine = Collected(seen, battery.info)
<1>1. /\ file = Some(file[1]) /\ file[1] \in Files(file[1].machine)
      /\ machine = Some(file[1].machine)
  BY DEF MachineInv, FileOk
<1>2. machine # None
  BY <1>1 DEF None, Some
<1>3. machine = Some(Collected(seen, battery.info))
  BY <1>2 DEF MachineInv, CollectedOk
<1> QED BY <1>1, <1>3, OptionIs

(* What a file says is a report, and an inventory.                         *)
LEMMA FileIsReport ==
  ASSUME file # None, MachineInv
  PROVE  /\ IsReport(file[1]) /\ IsSeq(file[1].machine.firmware) /\ IsSeq(file[1].machine.drives)
         /\ \A i \in DOMAIN file[1].machine.drives : file[1].machine.drives[i].warned \in BOOLEAN
<1> DEFINE f == file[1]
           inv == f.machine
<1>1. /\ f \in Files(inv)
      /\ inv = Collected(seen, battery.info)
      /\ battery.info = None \/ battery.info = Some(battery.info[1])
      /\ seen.machine \in Machines
  BY FileIs DEF MachineInv, BatteryOk, WorldOk
<1>10. PICK info : inv = Collected(seen, info) /\ (info = None \/ info = Some(info[1]))
  BY <1>1
<1>2. /\ f.why \in Nat /\ f.notes \in Nat /\ f.link \in BOOLEAN
      /\ f.telemetry \in Option([limited : BOOLEAN]) /\ f.soak \in Option([onset : BOOLEAN, holds : BOOLEAN])
      /\ f.components \in Seq(Component) /\ f.model_ref \in Seq(Ref)
  BY <1>1 DEF Files
<1>3. /\ IsSeq(f.telemetry) /\ \A i \in DOMAIN f.telemetry : f.telemetry[i].limited \in BOOLEAN
      /\ IsSeq(f.soak) /\ \A i \in DOMAIN f.soak : f.soak[i].onset \in BOOLEAN
  <2>1. ASSUME NEW S, NEW option \in Option(S)
        PROVE  IsSeq(option) /\ \A i \in DOMAIN option : option[i] \in S
    <3>1. option \in Seq(S)
      BY DEF Option
    <3>2. \A i \in DOMAIN option : option[i] \in S
      BY <3>1
    <3> QED BY <3>1, <3>2, SeqIs
  <2>2. /\ IsSeq(f.telemetry) /\ \A i \in DOMAIN f.telemetry : f.telemetry[i] \in [limited : BOOLEAN]
        /\ IsSeq(f.soak) /\ \A i \in DOMAIN f.soak : f.soak[i] \in [onset : BOOLEAN, holds : BOOLEAN]
    BY <1>2, <2>1
  <2> HIDE DEF f
  <2> QED BY <2>2
<1>4. /\ IsSeq(f.components) /\ Range(f.components) \subseteq Component
      /\ IsSeq(f.model_ref) /\ Range(f.model_ref) \subseteq Ref
  BY <1>2, SeqIs
<1>5. IsSeq(inv.battery)
  <2>1. inv.battery = info
    BY <1>10, CollectedIs
  <2> QED BY <1>10, <2>1, OptionIs
<1>6. IsSeq(inv.power)
  <2>1. inv.power = CollectPower(seen.machine.system, seen.power)
    BY <1>10, CollectedIs
  <2> QED BY <2>1, OptionIs, Zenon DEF CollectPower
<1>7. IsSeq(inv.age)
  <2>1. \A i, m : IsSeq(Assess(i, m))
    BY OptionIs, Zenon DEF Assess
  <2>2. PICK i : inv.age = Assess(i, seen.month)
    BY <1>10, CollectedIs
  <2> QED BY <2>1, <2>2
<1>8. IsSeq(inv.firmware)
  <2>1. inv.firmware = CollectFirmware(seen.machine)
    BY <1>10, CollectedIs
  <2>2. \A d : IsoDate(d) = None \/ \E x : IsoDate(d) = Some(x)
    BY DEF IsoDate
  <2>3. \A d : IsSeq(IsoDate(d))
    BY <2>2, OptionIs
  <2> QED BY <2>1, <2>3, OptionIs DEF CollectFirmware
<1>9. IsSeq(inv.drives) /\ \A i \in DOMAIN inv.drives : inv.drives[i].warned \in BOOLEAN
  <2>1. inv.drives = CollectDrives(seen.machine) /\ seen.machine \in Machines
    BY <1>1, <1>10, CollectedIs
  <2>2. IsSeq(inv.drives) /\ \A d \in Range(inv.drives) : d.warned \in BOOLEAN
    BY <2>1, DrivesAre
  <2>3. \A i \in DOMAIN inv.drives : inv.drives[i] \in Range(inv.drives)
    BY DEF Range
  <2> HIDE DEF inv
  <2> QED BY <2>2, <2>3
<1> QED BY <1>2, <1>3, <1>4, <1>5, <1>6, <1>7, <1>8, <1>9 DEF IsReport

(* The machine invariant at the start. *)
LEMMA MachineInitially ==
  ASSUME MachineInit
  PROVE  MachineInv
<1>1. PICK m \in Machines : \E p \in Situations[m] : world = [machine |-> m, power |-> p, month |-> m.now]
  BY DEF MachineInit
<1>2. m.now \in Nat
  BY MachineAssumption
<1>3. WorldOk(world)
  BY <1>1, <1>2 DEF WorldOk
<1>5. asked \in Situations[m]
  BY <1>1 DEF MachineInit
<1>4. WorldOk(seen) /\ AskedOk /\ BatteryOk /\ CollectedOk /\ FileOk
  BY <1>3, <1>5 DEF MachineInit, AskedOk, BatteryOk, CollectedOk, FileOk
<1> QED BY <1>3, <1>4 DEF MachineInv

(* What the first asking says. *)
LEMMA ProbedIs ==
  ASSUME WorldOk(world), ~battery.read
  PROVE  /\ Probed.read
         /\ Probed.info = None \/ Probed.info = Some(Probed.info[1])
         /\ Probed.info # None /\ Probed.info[1].state = "discharging" => Discharging(world.power)
<1> DEFINE pack == world.power.pack
<1>1. Probed = [read |-> TRUE, info |-> IF pack = None THEN None ELSE Some(FromBattery(pack[1]))]
  BY Zenon DEF Probed
<1>2. \A p : FromBattery(p).state = p.state
  BY DEF FromBattery
<1>3. pack # None => pack[1] \in Range(pack)
  <2>1. pack \in Seq(Range(pack))
    BY SituationsAssumption DEF WorldOk
  <2> HIDE DEF pack
  <2>2. pack # None => 1 \in 1..Len(pack)
    BY <2>1, EmptySeq DEF None
  <2> QED BY <2>1, <2>2, ElementOfSeq
<1> HIDE DEF pack
<1>4. Probed.read /\ Probed.info = IF pack = None THEN None ELSE Some(FromBattery(pack[1]))
  BY <1>1
<1>5. CASE pack = None
  BY <1>4, <1>5
<1>6. CASE pack # None
  <2>1. Probed.info = Some(FromBattery(pack[1]))
    BY <1>4, <1>6
  <2>2. Probed.info[1] = FromBattery(pack[1])
    BY <2>1, OptionIs
  <2>3. Probed.info[1].state = "discharging" => Discharging(world.power)
    BY <1>2, <1>3, <1>6, <2>2 DEF Discharging, pack
  <2> QED BY <1>4, <2>1, <2>2, <2>3
<1> QED BY <1>5, <1>6

(* Asking the battery for the first time keeps the invariant. *)
LEMMA ProbeStep ==
  ASSUME MachineInv, Probe
  PROVE  MachineInv'
<1> USE DEF MachineInv
<1>1. ~battery.read /\ battery' = Probed /\ asked' = world.power /\ UNCHANGED <<world, machine, file, seen>>
  BY DEF Probe
<1>2. AskedOk'
  BY <1>1 DEF AskedOk, WorldOk
<1>3. BatteryOk'
  BY <1>1, ProbedIs DEF BatteryOk
<1>4. CollectedOk' /\ FileOk'
  BY <1>1 DEF CollectedOk, FileOk
<1> QED BY <1>1, <1>2, <1>3, <1>4 DEF WorldOk

(* Every step of the machine keeps its invariant. *)
LEMMA MachineStep ==
  ASSUME MachineInv, MachineNext
  PROVE  MachineInv'
<1> USE DEF MachineInv
<1>1. ASSUME NEW p \in Situations[world.machine], PowerChanges(p)
      PROVE  MachineInv'
  <2>1. WorldOk(world')
    BY <1>1 DEF PowerChanges, WorldOk
  <2>2. UNCHANGED <<battery, machine, file, asked, seen>>
    BY <1>1 DEF PowerChanges
  <2> QED BY <2>1, <2>2 DEF WorldOk, AskedOk, BatteryOk, CollectedOk, FileOk
<1>2. CASE MonthPasses
  <2>1. WorldOk(world')
    BY <1>2 DEF MonthPasses, WorldOk
  <2>2. UNCHANGED <<battery, machine, file, asked, seen>>
    BY <1>2 DEF MonthPasses
  <2> QED BY <2>1, <2>2 DEF WorldOk, AskedOk, BatteryOk, CollectedOk, FileOk
<1>3. CASE GateAsks \/ CollectBattery
  BY <1>3, ProbeStep DEF GateAsks, CollectBattery
<1>4. CASE Collect
  <2>1. /\ battery.read /\ machine = None /\ machine' = Some(Collected(world, battery.info))
        /\ seen' = world /\ UNCHANGED <<world, battery, file, asked>>
    BY <1>4 DEF Collect
  <2>2. file = None
    BY <2>1, OptionIs DEF FileOk, None, Some
  <2>3. CollectedOk' /\ FileOk'
    BY <2>1, <2>2 DEF CollectedOk, FileOk
  <2> QED BY <2>1, <2>3 DEF WorldOk, AskedOk, BatteryOk
<1>5. ASSUME NEW outcome \in Outcomes, WriteFile(outcome)
      PROVE  MachineInv'
  <2> DEFINE inv == machine[1]
             f   == [outcome EXCEPT !.machine = inv, !.timestamp = world.month]
  <2>1. machine # None /\ file = None /\ UNCHANGED <<world, battery, machine, asked, seen>> /\ file' = Some(f)
    BY <1>5 DEF WriteFile
  <2>2. file' # None /\ file'[1] = f
    BY <2>1 DEF None, Some
  <2>3. machine = Some(inv)
    BY <2>1, OptionIs DEF CollectedOk
  <2>4. world.month \in Nat
    BY DEF WorldOk
  <2> HIDE DEF inv
  <2>5. f \in Files(inv) /\ f.machine = inv
    BY <2>4, ReportsAssumption DEF Files, Component, Ref
  <2> HIDE DEF f
  <2>6. FileOk'
    BY <2>1, <2>2, <2>3, <2>5 DEF FileOk
  <2>7. CollectedOk'
    BY <2>1 DEF CollectedOk
  <2> QED BY <2>1, <2>6, <2>7 DEF WorldOk, AskedOk, BatteryOk
<1>6. CASE RescoreFile
  <2> DEFINE g == [file[1] EXCEPT !.timestamp = world.month]
  <2>1. file # None /\ UNCHANGED <<world, battery, machine, asked, seen>> /\ file' = Some(g)
    BY <1>6 DEF RescoreFile
  <2>2. file' # None /\ file'[1] = g
    BY <2>1 DEF None, Some
  <2>3. world.month \in Nat
    BY DEF WorldOk
  <2>4. file[1] \in Files(file[1].machine) /\ machine = Some(file[1].machine)
    BY <2>1 DEF FileOk
  <2>5. g \in Files(file[1].machine) /\ g.machine = file[1].machine
    BY <2>3, <2>4 DEF Files
  <2> HIDE DEF g
  <2>6. FileOk'
    BY <2>1, <2>2, <2>4, <2>5 DEF FileOk
  <2>7. CollectedOk'
    BY <2>1 DEF CollectedOk
  <2> QED BY <2>1, <2>6, <2>7 DEF WorldOk, AskedOk, BatteryOk
<1> QED BY <1>1, <1>2, <1>3, <1>4, <1>5, <1>6 DEF MachineNext

(* On Linux, what is said to hold the machine back is in force. *)
LEMMA LinuxHeldBack ==
  ASSUME WorldOk(seen), seen.machine.system = "linux", NEW l \in HeldBack(LinuxPower(seen.power))
  PROVE  InForce(l)
<1> DEFINE p == seen.power
           s == p.settings
           power == LinuxPower(p)
           mains == {x \in p.supplies : x.kind = "Mains"}
<1>0. {s.no_turbo, s.boost} \subseteq {None, Some("0"), Some("1")}
  BY SituationsAssumption DEF WorldOk
<1>1. /\ power.source = LinuxSource(p.supplies) /\ power.energy_saver = None
      /\ power.plugged_in = None /\ power.on_battery = None
      /\ power.platform_profile = s.profile /\ power.governor = s.governor
      /\ power.energy_preference = s.preference /\ power.turbo = LinuxTurbo(s)
  BY DEF LinuxPower, NoPower
<1> HIDE DEF power
<1>2. Current(power) = None
  BY <1>1 DEF Current
<1>3. l \in SettingLimits(power) \/ (l = "running on battery" /\ OnBatteryNow(power))
  <2>1. l \in HeldBack(power)
    BY DEF power
  <2>2. CASE OnBatteryNow(power)
    <3>1. HeldBack(power) = SettingLimits(power) \cup {"running on battery"}
      BY <2>2 DEF HeldBack
    <3> QED BY <2>1, <2>2, <3>1
  <2>3. CASE ~OnBatteryNow(power)
    <3>1. HeldBack(power) = SettingLimits(power) \cup {}
      BY <2>3, Zenon DEF HeldBack
    <3> QED BY <2>1, <3>1
  <2>4. OnBatteryNow(power) \in BOOLEAN
    BY DEF OnBatteryNow, Has
  <2> QED BY <2>2, <2>3, <2>4
<1>4. CASE l = "running on battery" /\ OnBatteryNow(power)
  <2>1. LinuxSource(p.supplies) = Some("battery")
    BY <1>1, <1>4 DEF OnBatteryNow, Has
  <2>2. ~ \E x \in mains : x.online
    BY <2>1 DEF LinuxSource, Some
  <2> QED BY <1>4, <2>2 DEF InForce
<1>5. CASE l \in SettingLimits(power)
  <2>1. /\ l \in {"energy saver", "platform profile", "powersave governor", "energy preference", "turbo disabled"}
        /\ CASE l = "energy saver" -> Has(power.energy_saver, TRUE)
             [] l = "platform profile" -> \E saver \in {"low-power", "quiet", "cool"} : Has(power.platform_profile, saver)
             [] l = "powersave governor" -> Has(power.governor, "powersave") /\ power.energy_preference = None
             [] l = "energy preference" -> Has(power.energy_preference, "power")
             [] OTHER -> Has(power.turbo, FALSE)
    BY <1>2, <1>5 DEF SettingLimits
  <2>2. CASE l = "energy saver"
    <3>1. Has(None, TRUE)
      BY <1>1, <2>1, <2>2
    <3> QED BY <3>1 DEF Has, None, Some
  <2>3. CASE l = "platform profile"
    <3>1. PICK saver \in {"low-power", "quiet", "cool"} : s.profile = Some(saver)
      BY <1>1, <2>1, <2>3 DEF Has
    <3>2. s.profile # Some("balanced")
      BY <3>1 DEF Some
    <3> QED BY <2>3, <3>2 DEF InForce
  <2>4. CASE l = "powersave governor"
    <3>1. Has(s.governor, "powersave")
      BY <1>1, <2>1, <2>4
    <3> QED BY <2>4, <3>1 DEF InForce
  <2>5. CASE l = "energy preference"
    <3>1. Has(s.preference, "power")
      BY <1>1, <2>1, <2>5
    <3> QED BY <2>5, <3>1 DEF InForce
  <2>6. CASE l = "turbo disabled"
    <3>1. LinuxTurbo(s) = Some(FALSE)
      BY <1>1, <2>1, <2>6 DEF Has
    <3>2. Some(FALSE)[1] = FALSE /\ None # Some(FALSE) /\ Some("0")[1] = "0" /\ Some("1")[1] = "1"
      BY DEF Some, None
    <3>3. s.no_turbo # None => s.no_turbo = Some("1")
      <4>1. CASE s.no_turbo = Some("0")
        <5>1. LinuxTurbo(s) = Some(TRUE)
          <6>1. s.no_turbo # None /\ (s.no_turbo[1] = "0") = TRUE
            BY <3>2, <4>1 DEF Some, None
          <6> QED BY <6>1 DEF LinuxTurbo
        <5>2. Some(TRUE)[1] = TRUE
          BY DEF Some
        <5> QED BY <3>1, <3>2, <5>1, <5>2
      <4> QED BY <1>0, <4>1
    <3>4. s.no_turbo = None => s.boost = Some("0")
      <4> SUFFICES ASSUME s.no_turbo = None
                   PROVE  s.boost = Some("0")
        OBVIOUS
      <4>1. CASE s.boost = None
        BY <3>1, <3>2, <4>1 DEF LinuxTurbo
      <4>2. CASE s.boost = Some("1")
        <5>1. LinuxTurbo(s) = Some(TRUE)
          <6>1. s.boost # None /\ (s.boost[1] = "1") = TRUE
            BY <3>2, <4>2 DEF Some, None
          <6> QED BY <6>1 DEF LinuxTurbo
        <5>2. Some(TRUE)[1] = TRUE
          BY DEF Some
        <5> QED BY <3>1, <3>2, <5>1, <5>2
      <4> QED BY <1>0, <4>1, <4>2
    <3> QED BY <2>6, <3>3, <3>4 DEF InForce, Has
  <2> QED BY <2>1, <2>2, <2>3, <2>4, <2>5, <2>6
<1> QED BY <1>3, <1>4, <1>5

(* The column of the power scheme in force: mains or battery. *)
LEMMA ColumnIs ==
  ASSUME NEW plan, NEW raw, Column(plan, raw) # None
  PROVE  /\ Column(plan, raw)[1].max_processor_pct = raw.max
         /\ Column(plan, raw)[1].boost = raw.boost
         /\ Column(plan, raw)[1].power_mode = IF plan = "Balanced" THEN PowerMode(raw.overlay) ELSE None
<1> DEFINE mode == [ power_mode |-> IF plan = "Balanced" THEN PowerMode(raw.overlay) ELSE None,
                     max_processor_pct |-> raw.max, boost |-> raw.boost ]
<1>1. Column(plan, raw) = Some(mode)
  BY Zenon DEF Column
<1>2. Column(plan, raw)[1] = mode
  BY <1>1, OptionIs
<1> QED BY <1>2

(* On Windows, what is said to hold the machine back is in force. *)
LEMMA WindowsHeldBack ==
  ASSUME WorldOk(seen), seen.machine.system = "windows", NEW l \in HeldBack(WindowsPower(seen.power))
  PROVE  InForce(l)
<1> DEFINE p == seen.power
           s == p.settings
           power == WindowsPower(p)
           raw == IF Has(s.line, "battery") THEN s.dc ELSE s.ac
<1>1. /\ power.source = s.line /\ power.energy_saver = Some(s.saver)
      /\ power.plugged_in = Column(s.plan, s.ac)
      /\ power.on_battery = IF p.pack # None THEN Column(s.plan, s.dc) ELSE None
      /\ power.platform_profile = None /\ power.governor = None
      /\ power.energy_preference = None /\ power.turbo = None
  BY DEF WindowsPower, NoPower
<1>0. \A v : ~Has(None, v)
  BY DEF Has, None, Some
<1> HIDE DEF power
<1>2. Current(power) = None \/ Current(power) = Column(s.plan, raw)
  BY <1>1 DEF Current, OnBatteryNow
<1>3. l \in SettingLimits(power) \/ (l = "running on battery" /\ OnBatteryNow(power))
  <2>1. l \in HeldBack(power)
    BY DEF power
  <2>2. CASE OnBatteryNow(power)
    <3>1. HeldBack(power) = SettingLimits(power) \cup {"running on battery"}
      BY <2>2 DEF HeldBack
    <3> QED BY <2>1, <2>2, <3>1
  <2>3. CASE ~OnBatteryNow(power)
    <3>1. HeldBack(power) = SettingLimits(power) \cup {}
      BY <2>3, Zenon DEF HeldBack
    <3> QED BY <2>1, <3>1
  <2>4. OnBatteryNow(power) \in BOOLEAN
    BY DEF OnBatteryNow, Has
  <2> QED BY <2>2, <2>3, <2>4
<1>4. CASE l = "running on battery" /\ OnBatteryNow(power)
  <2>1. Has(s.line, "battery")
    BY <1>1, <1>4 DEF OnBatteryNow
  <2> QED BY <1>4, <2>1 DEF InForce
<1>5. CASE l \in SettingLimits(power)
  <2>1. CASE Current(power) # None /\ l \in ColumnLimits(Current(power)[1])
    <3> DEFINE mode == Current(power)[1]
    <3>1. /\ mode.max_processor_pct = raw.max /\ mode.boost = raw.boost
          /\ mode.power_mode = IF s.plan = "Balanced" THEN PowerMode(raw.overlay) ELSE None
      <4>1. Column(s.plan, raw) # None /\ Current(power) = Column(s.plan, raw)
        BY <1>2, <2>1
      <4> HIDE DEF raw
      <4> QED BY <4>1, ColumnIs
    <3>2. /\ l \in {"maximum processor state", "boost disabled", "Best power efficiency mode"}
          /\ CASE l = "maximum processor state" -> mode.max_processor_pct # None /\ mode.max_processor_pct[1] < 100
               [] l = "boost disabled" -> Has(mode.boost, "disabled")
               [] OTHER -> Has(mode.power_mode, "best power efficiency")
      <4> HIDE DEF mode
      <4> QED BY <2>1 DEF ColumnLimits, mode
    <3> HIDE DEF mode
    <3>3. CASE l = "maximum processor state"
      <4>1. raw.max # None /\ raw.max[1] < 100
        BY <3>1, <3>2, <3>3
      <4> QED BY <3>3, <4>1 DEF InForce
    <3>4. CASE l = "boost disabled"
      <4>1. Has(raw.boost, "disabled")
        BY <3>1, <3>2, <3>4
      <4> QED BY <3>4, <4>1 DEF InForce
    <3>5. CASE l = "Best power efficiency mode"
      <4>1. Has(mode.power_mode, "best power efficiency")
        BY <3>2, <3>5
      <4>2. s.plan = "Balanced" /\ Has(PowerMode(raw.overlay), "best power efficiency")
        BY <1>0, <3>1, <4>1
      <4>3. raw.overlay = "best power efficiency"
        <5> HIDE DEF raw
        <5> QED BY <4>2 DEF PowerMode, Has, Some, None
      <4> QED BY <3>5, <4>2, <4>3 DEF InForce
    <3> QED BY <3>2, <3>3, <3>4, <3>5
  <2>2. CASE ~(Current(power) # None /\ l \in ColumnLimits(Current(power)[1]))
    <3>1. /\ l \in {"energy saver", "platform profile", "powersave governor", "energy preference", "turbo disabled"}
          /\ CASE l = "energy saver" -> Has(power.energy_saver, TRUE)
               [] l = "platform profile" -> \E saver \in {"low-power", "quiet", "cool"} : Has(power.platform_profile, saver)
               [] l = "powersave governor" -> Has(power.governor, "powersave") /\ power.energy_preference = None
               [] l = "energy preference" -> Has(power.energy_preference, "power")
               [] OTHER -> Has(power.turbo, FALSE)
      BY <1>5, <2>2 DEF SettingLimits
    <3>2. l = "energy saver" /\ Has(power.energy_saver, TRUE)
      BY <1>0, <1>1, <3>1
    <3>3. s.saver = TRUE
      BY <1>1, <3>2, OptionIs DEF Has
    <3> QED BY <3>2, <3>3 DEF InForce
  <2> QED BY <2>1, <2>2
<1> QED BY <1>3, <1>4, <1>5

(* So it is on every system. *)
LEMMA HeldBackInForce ==
  ASSUME WorldOk(seen), NEW power, CollectPower(seen.machine.system, seen.power) = Some(power),
         NEW l \in HeldBack(power)
  PROVE  InForce(l)
<1>1. Some(power) # None /\ Some(power)[1] = power
  BY DEF Some, None
<1>2. CASE seen.machine.system = "linux"
  <2>1. LinuxPower(seen.power) = power
    BY <1>1, <1>2, OptionIs DEF CollectPower
  <2> QED BY <1>2, <2>1, LinuxHeldBack
<1>3. CASE seen.machine.system = "windows"
  <2>1. WindowsPower(seen.power) = power
    BY <1>1, <1>3, OptionIs DEF CollectPower
  <2> QED BY <1>3, <2>1, WindowsHeldBack
<1>4. CASE seen.machine.system \notin {"linux", "windows"}
  BY <1>1, <1>4 DEF CollectPower
<1> QED BY <1>2, <1>3, <1>4

(* Where the lines that blame come from.                                   *)
LEMMA BlameIsOf ==
  ASSUME NEW f, IsReport(f), NEW line \in RunCautions(f)
  PROVE  /\ line[1] = "held back" => \E i \in DOMAIN f.machine.power : line[2] = HeldBack(f.machine.power[i])
         /\ line[1] = "power note" => \E i \in DOMAIN f.machine.battery : PowerNote(f.machine.battery[i])
<1> DEFINE age == ForMachine(f.machine, f.timestamp)
<1>0. \A kind, about : Line(kind, about)[1] = kind /\ Line(kind, about)[2] = about
  BY DEF Line
<1>1. CASE line \in TelemetrySet(f)
  <2>1. PICK i \in DOMAIN f.telemetry : line \in {Line("telemetry", f.telemetry[i].limited)}
    BY <1>1, Zenon DEF TelemetrySet
  <2>2. line[1] = "telemetry"
    BY <1>0, <2>1, Zenon
  <2> QED BY <2>2
<1>2. CASE line \in ComponentsSet(f)
  <2>1. PICK i \in DOMAIN f.components : line \in ComponentCautions(f.components[i])
    BY <1>2, Zenon DEF ComponentsSet
  <2>2. line[1] = "component note"
    BY <1>0, <2>1, Zenon DEF ComponentCautions
  <2> QED BY <2>2
<1>3. CASE line \in UngradedSet(f)
  <2>1. line[1] = "ungraded"
    BY <1>0, <1>3, Zenon DEF UngradedSet
  <2> QED BY <2>1
<1>4. CASE line \in RefsSet(f)
  <2>1. PICK i \in DOMAIN f.model_ref : line \in RefCautions(f.model_ref[i])
    BY <1>4, Zenon DEF RefsSet, RefsCautions
  <2>2. line[1] = "preset"
    BY <1>0, <2>1, Zenon DEF RefCautions
  <2> QED BY <2>2
<1>5. CASE line \in BatterySet(f)
  <2>1. PICK i \in DOMAIN f.machine.battery :
               line \in BatteryCautions(f.machine.battery[i], f.machine.power = None)
    BY <1>5, Zenon DEF BatterySet
  <2>2. \/ \E v : line = Line("verdict", v)
        \/ line = Line("power note", "") /\ PowerNote(f.machine.battery[i])
    BY <2>1, Zenon DEF BatteryCautions
  <2>3. ASSUME NEW v, line = Line("verdict", v)
        PROVE  line[1] = "verdict"
    BY <1>0, <2>3
  <2>4. ASSUME line = Line("power note", "")
        PROVE  line[1] = "power note"
    BY <1>0, <2>4
  <2> QED BY <2>1, <2>2, <2>3, <2>4
<1>6. CASE line \in PowerSet(f.machine)
  <2>1. PICK i \in DOMAIN f.machine.power : line \in PowerCautions(f.machine.power[i])
    BY <1>6, Zenon DEF PowerSet
  <2>2. line = Line("held back", HeldBack(f.machine.power[i]))
    BY <2>1, Zenon DEF PowerCautions
  <2>3. line[1] = "held back" /\ line[2] = HeldBack(f.machine.power[i])
    BY <1>0, <2>2
  <2> QED BY <2>1, <2>3
<1>7. CASE line \in AgeSet(age)
  <2> HIDE DEF age
  <2>1. PICK i \in DOMAIN age : line \in AgeCautions(age[i])
    BY <1>7, Zenon DEF AgeSet
  <2>2. (\E n : line = Line("age note", n)) \/ line = Line("ceiling", age[i].max_age)
    BY <2>1, Zenon DEF AgeCautions
  <2>3. line[1] \in {"age note", "ceiling"}
    BY <1>0, <2>2
  <2> QED BY <2>3
<1>8. CASE line \in OnsetSet(f)
  <2>1. PICK i \in DOMAIN f.soak : line \in {Line("onset", f.soak[i].onset)}
    BY <1>8, Zenon DEF OnsetSet
  <2>2. line[1] = "onset"
    BY <1>0, <2>1, Zenon
  <2> QED BY <2>2
<1>9. RunCautions(f) = {} \cup TelemetrySet(f) \cup ComponentsSet(f) \cup UngradedSet(f) \cup RefsSet(f)
                       \cup BatterySet(f) \cup PowerSet(f.machine) \cup AgeSet(age) \cup OnsetSet(f)
  BY Zenon DEF RunCautions
<1> HIDE DEF age
<1> QED BY <1>1, <1>2, <1>3, <1>4, <1>5, <1>6, <1>7, <1>8, <1>9

(* The invariant gives BlamesWhatWasInForce. *)
LEMMA BlamesFollows ==
  ASSUME MachineInv
  PROVE  BlamesWhatWasInForce
<1> SUFFICES ASSUME file # None, NEW line \in Range(PrintRun(file[1])) \cup Range(ScreenRun(file[1]))
             PROVE  /\ line[1] = "held back" => \A l \in line[2] : InForce(l)
                    /\ line[1] = "power note" => \E pack \in Range(asked.pack) : pack.state = "discharging"
  <2>1. file # None => file = Some(file[1]) /\ Range(file) = {file[1]}
    BY OptionIs DEF MachineInv, FileOk
  <2>2. file = None => Range(file) = {}
    BY OptionIs
  <2> QED BY <2>1, <2>2, Zenon DEF BlamesWhatWasInForce
<1> DEFINE f == file[1]
           inv == f.machine
<1>1. WorldOk(seen) /\ BatteryOk
  BY DEF MachineInv
<1>2. IsReport(f)
  BY FileIsReport
<1>3. inv = Collected(seen, battery.info)
  BY FileIs
<1>4. inv.battery = battery.info /\ inv.power = CollectPower(seen.machine.system, seen.power)
  BY <1>3, CollectedIs
<1>5. Cautions(PrintRun(f)) = RunCautions(f) \cup PrintedSet(f) /\ Cautions(ScreenRun(f)) = RunCautions(f)
  BY <1>2, PrintRunSays, ScreenRunSays DEF Says
<1>6. {l \in RunCautions(f) \cup PrintedSet(f) : l[1] \notin PrintedOnly} = RunCautions(f)
  BY <1>2, KindsTellApart
<1>7. line[1] \in {"held back", "power note"} => line \in RunCautions(f)
  <2>1. line[1] \in CautionKinds => line \in RunCautions(f) \cup PrintedSet(f)
    BY <1>5, CautionsAre
  <2>2. \A kind \in {"held back", "power note"} : kind \in CautionKinds /\ kind \notin PrintedOnly
    BY DEF CautionKinds, PrintedOnly
  <2> QED BY <1>6, <2>1, <2>2
<1> HIDE DEF inv
<1>8. ASSUME line[1] = "held back", NEW l \in line[2]
      PROVE  InForce(l)
  <2>1. PICK i \in DOMAIN f.machine.power : line[2] = HeldBack(f.machine.power[i])
    BY <1>2, <1>7, <1>8, BlameIsOf
  <2>2. inv.power = None \/ \E x : inv.power = Some(x)
    BY <1>4, Zenon DEF CollectPower
  <2>3. inv.power # None /\ inv.power = Some(inv.power[1]) /\ i = 1
    BY <2>1, <2>2, OptionIs DEF inv, None
  <2> QED BY <1>1, <1>4, <1>8, <2>1, <2>3, HeldBackInForce DEF inv
<1>9. ASSUME line[1] = "power note"
      PROVE  \E pack \in Range(asked.pack) : pack.state = "discharging"
  <2>1. PICK i \in DOMAIN f.machine.battery : PowerNote(f.machine.battery[i])
    BY <1>2, <1>7, <1>9, BlameIsOf
  <2>2. i \in DOMAIN battery.info /\ PowerNote(battery.info[i])
    BY <1>4, <2>1 DEF inv
  <2>3. battery.info # None /\ i = 1
    BY <1>1, <2>2, OptionIs DEF BatteryOk, None
  <2> QED BY <1>1, <2>2, <2>3 DEF BatteryOk, Discharging, PowerNote
<1> QED BY <1>8, <1>9

(* The invariant gives AgeIsOfTheRun. *)
LEMMA AgeFollows ==
  ASSUME MachineInv
  PROVE  AgeIsOfTheRun
<1> DEFINE f == file[1]
           inv == f.machine
           month == seen.month
           built == seen.machine.built
           launched == seen.machine.launched
<1> SUFFICES ASSUME file # None, inv.age # None
             PROVE  LET shown == ForMachine(inv, f.timestamp)[1]
                    IN  /\ shown.max_age # None => shown.max_age[1] \in (month - built)..(month - launched[1])
                        /\ UsageNote(shown) = Some("older than the processor") =>
                             inv.drives[1].hours > 730 * (month - built)
                        /\ \A later \in month..LastMonth : ForMachine(inv, later) = Some(shown)
  <2>1. file # None => file = Some(file[1]) /\ Range(file) = {file[1]}
    BY OptionIs DEF MachineInv, FileOk
  <2>2. file = None => Range(file) = {}
    BY OptionIs
  <2> QED BY <2>1, <2>2, Zenon DEF AgeIsOfTheRun
<1>1. WorldOk(seen) /\ FileOk
  BY DEF MachineInv
<1>2. PICK info : inv = Collected(seen, info)
  BY FileIs
<1>3. inv.age = Assess(Bare(seen, info), month) /\ inv.drives = CollectDrives(seen.machine)
  BY <1>2, CollectedIs
<1>4. /\ month \in Nat /\ built \in Nat /\ launched \in Option(Nat)
      /\ launched # None => launched[1] <= built
  BY <1>1, MachineAssumption DEF WorldOk
<1>5. /\ Bare(seen, info).launched = launched /\ Bare(seen, info).drives = inv.drives
  BY <1>3 DEF Bare
<1> DEFINE bare == Bare(seen, info)
           shown == ForMachine(inv, f.timestamp)[1]
<1>6. ForMachine(inv, f.timestamp) = inv.age /\ \A later : ForMachine(inv, later) = inv.age
  BY Zenon DEF ForMachine
<1> HIDE DEF inv, f, month, built, launched, bare
<1>7. PICK age : /\ inv.age = Some(age)
                 /\ age.max_age = MonthsBetween(launched, Some(month))
                 /\ age.hours = IF inv.drives = <<>> THEN None ELSE Some(inv.drives[1].hours)
  <2> DEFINE gap == MonthsBetween(bare.launched, bare.firmware)
             age == [ launched |-> bare.launched,
                      max_age  |-> MonthsBetween(bare.launched, Some(month)),
                      firmware |-> bare.firmware,
                      gap      |-> gap,
                      hours    |-> IF bare.drives = <<>> THEN None ELSE Some(bare.drives[1].hours),
                      under    |-> IF bare.drives = <<>> THEN None ELSE Undercounted(bare.drives[1]),
                      cycles   |-> IF bare.battery = None THEN None ELSE bare.battery[1].cycles ]
  <2>1. Assess(bare, month) = None \/ Assess(bare, month) = Some(age)
    BY Zenon DEF Assess
  <2>2. /\ age.max_age = MonthsBetween(bare.launched, Some(month))
        /\ age.hours = IF bare.drives = <<>> THEN None ELSE Some(bare.drives[1].hours)
    OBVIOUS
  <2> HIDE DEF age
  <2>3. inv.age = Some(age)
    BY <1>3, <2>1 DEF bare
  <2>4. bare.launched = launched /\ bare.drives = inv.drives
    BY <1>5 DEF bare
  <2> QED BY <2>2, <2>3, <2>4
<1>8. shown = age /\ \A later \in month..LastMonth : ForMachine(inv, later) = Some(shown)
  BY <1>6, <1>7, OptionIs
<1>9. ASSUME age.max_age # None
      PROVE  /\ age.max_age[1] \in (month - built)..(month - launched[1])
             /\ age.max_age[1] \in Int
  <2>1. launched # None /\ age.max_age = Some(Some(month)[1] - launched[1]) /\ Some(month)[1] >= launched[1]
    BY <1>7, <1>9, Zenon DEF MonthsBetween
  <2>2. age.max_age[1] = month - launched[1] /\ month >= launched[1]
    BY <2>1, OptionIs
  <2>3. launched[1] \in Nat /\ launched[1] <= built
    <3>1. PICK x \in Nat : launched = Some(x)
      BY <1>4, <2>1, OptionCases
    <3> QED BY <1>4, <2>1, <3>1, OptionIs
  <2> QED BY <1>4, <2>2, <2>3
<1>10. ASSUME UsageNote(age) = Some("older than the processor")
       PROVE  inv.drives[1].hours > 730 * (month - built)
  <2>1. /\ age.hours # None /\ age.max_age # None
        /\ HoursToMonths(age.hours[1]) > age.max_age[1] + 1
    BY <1>10 DEF UsageNote, Some, None
  <2>2. inv.drives # <<>> /\ age.hours = Some(inv.drives[1].hours)
    BY <1>7, <2>1
  <2>3. age.hours[1] = inv.drives[1].hours
    BY <2>2, OptionIs
  <2>4. inv.drives[1].hours \in Nat
    <3>1. IsSeq(inv.drives) /\ \A d \in Range(inv.drives) : d.hours \in Nat
      BY <1>1, <1>3, DrivesAre DEF WorldOk
    <3>2. inv.drives[1] \in Range(inv.drives)
      <4>1. inv.drives \in Seq(Range(inv.drives)) /\ inv.drives # <<>>
        BY <2>2, <3>1 DEF IsSeq
      <4>2. 1 \in 1..Len(inv.drives)
        BY <4>1, EmptySeq
      <4> QED BY <4>1, <4>2, ElementOfSeq
    <3> QED BY <3>1, <3>2
  <2>5. \A h \in Nat, m \in Int, d \in Int : (h \div 730) > m + 1 /\ d <= m => h > 730 * d
    OBVIOUS
  <2>6. month - built <= age.max_age[1] /\ age.max_age[1] \in Int /\ month - built \in Int
    BY <1>4, <1>9, <2>1
  <2>7. (inv.drives[1].hours \div 730) > age.max_age[1] + 1
    BY <2>1, <2>3 DEF HoursToMonths
  <2> QED BY <2>4, <2>5, <2>6, <2>7
<1> QED BY <1>8, <1>9, <1>10

(* The number of elements of a sequence counted by a fold is a natural. *)
LEMMA CountIs ==
  ASSUME NEW comps, IsSeq(comps), \A i \in DOMAIN comps : Len(comps[i].subtests) \in Nat
  PROVE  FoldLeft(LAMBDA sum, comp : sum + 4 + Len(comp.subtests), 0, comps) \in Nat
<1> DEFINE D == DOMAIN comps
           Rec(f) == f = [s \in SUBSET D |->
                            IF s = {} THEN 0
                            ELSE f[s \ {Max(s)}] + 4 + Len(comps[Max(s)].subtests)]
           G == [i \in D |-> [v \in Nat |-> v + 4 + Len(comps[i].subtests)]]
           C == [s \in (SUBSET D) \ {{}} |-> Max(s)]
           c == CHOOSE f : Rec(f)
<1>1. IsFiniteSet(D) /\ D \subseteq Int
  <2>1. D = 1..Len(comps) /\ Len(comps) \in Nat
    BY IsSeqFacts
  <2> QED BY <2>1, FS_Interval
<1>2. FoldLeft(LAMBDA sum, comp : sum + 4 + Len(comp.subtests), 0, comps) = c[D]
  BY Zenon DEF FoldLeft, MapThenFoldSet
<1>3. Picks(C, D) /\ \A s \in (SUBSET D) \ {{}} : Max(s) \in s
  <2>1. \A s \in (SUBSET D) \ {{}} : s \in SUBSET Int /\ IsFiniteSet(s) /\ s # {}
    BY <1>1, FS_Subset
  <2> HIDE DEF D
  <2>2. \A s \in (SUBSET D) \ {{}} : Max(s) \in s
    BY <2>1, MaxIs
  <2> QED BY <2>2 DEF Picks
<1>4. G \in [D -> [Nat -> Nat]]
  <2>1. \A a, b \in Nat : a + 4 + b \in Nat
    OBVIOUS
  <2> QED BY <2>1
<1>5. PICK it \in [SUBSET D -> Nat] : Folds(it, D, 0, C, G)
  <2> HIDE DEF G, C, D
  <2> QED BY <1>1, <1>3, <1>4, FoldExists
<1>6. Rec(it)
  <2> SUFFICES ASSUME NEW s \in SUBSET D
               PROVE  it[s] = IF s = {} THEN 0 ELSE it[s \ {Max(s)}] + 4 + Len(comps[Max(s)].subtests)
    OBVIOUS
  <2>1. CASE s = {}
    BY <1>5, <2>1 DEF Folds
  <2>2. CASE s # {}
    <3>1. C[s] = Max(s) /\ Max(s) \in D /\ s \ {Max(s)} \in SUBSET D
      BY <1>3, <2>2
    <3>2. it[s] = G[C[s]][it[s \ {C[s]}]]
      BY <1>5, <2>2 DEF Folds
    <3>3. it[s \ {Max(s)}] \in Nat
      BY <3>1
    <3> HIDE DEF C
    <3> QED BY <2>2, <3>1, <3>2, <3>3
  <2> QED BY <2>1, <2>2
<1>7. Rec(c)
  <2> HIDE DEF Rec
  <2> QED BY <1>6, Zenon
<1> DEFINE P == {s \in SUBSET D : c[s] \in Nat}
<1>8. ASSUME NEW s \in SUBSET D, \A t \in SUBSET s : t # s => t \in P
      PROVE  s \in P
  <2> DEFINE d == [r \in SUBSET D |-> IF r = {} THEN 0 ELSE c[r \ {Max(r)}] + 4 + Len(comps[Max(r)].subtests)]
  <2>1. c = d
    BY <1>7, Zenon
  <2>2. d[s] = IF s = {} THEN 0 ELSE c[s \ {Max(s)}] + 4 + Len(comps[Max(s)].subtests)
    BY Zenon
  <2> HIDE DEF d, c, Rec, G, C
  <2>3. c[s] = IF s = {} THEN 0 ELSE c[s \ {Max(s)}] + 4 + Len(comps[Max(s)].subtests)
    BY <2>1, <2>2
  <2>4. ASSUME s # {}
        PROVE  c[s] \in Nat
    <3>1. Max(s) \in s /\ Max(s) \in D
      BY <1>3, <2>4
    <3>2. c[s \ {Max(s)}] \in Nat
      BY <1>8, <3>1
    <3>3. Len(comps[Max(s)].subtests) \in Nat
      BY <3>1
    <3> QED BY <2>3, <2>4, <3>2, <3>3
  <2>5. c[s] \in Nat
    <3>1. CASE s = {}
      BY <2>3, <3>1
    <3> QED BY <2>4, <3>1
  <2> QED BY <2>5, Zenon
<1> HIDE DEF P
<1>9. D \in P
  <2> HIDE DEF D
  <2>1. \A s \in SUBSET D : (\A t \in SUBSET s : t # s => t \in P) => s \in P
    BY <1>8
  <2>2. \A s \in SUBSET D : s \in P
    BY <1>1, <2>1, SubsetInduction
  <2> QED BY <2>2
<1> QED BY <1>2, <1>9 DEF P

(* No piece of a word is longer than the line.                             *)
LEMMA ChunksFit ==
  ASSUME NEW word \in Nat, NEW width \in Nat \ {0}
  PROVE  IsSeq(Chunks(word, width)) /\ Range(Chunks(word, width)) \subseteq 0..width
<1>1. CASE word <= width
  <2>1. Chunks(word, width) = <<word>>
    BY <1>1 DEF Chunks
  <2> QED BY <1>1, <2>1, SeqOfOne
<1>2. CASE ~(word <= width)
  <2> DEFINE a == Repeat(word \div width, width)
             b == When(word % width > 0, <<word % width>>)
  <2>1. word \div width \in Nat /\ word % width \in 0..width
    OBVIOUS
  <2>2. IsSeq(a) /\ Range(a) \subseteq 0..width
    <3>1. \A n \in Nat : IsSeq(Repeat(n, width)) /\ Range(Repeat(n, width)) \subseteq {width}
      BY DEF Repeat, IsSeq, Range
    <3> QED BY <2>1, <3>1
  <2>3. IsSeq(b) /\ Range(b) \subseteq 0..width
    <3>1. IsSeq(<<word % width>>) /\ Range(<<word % width>>) \subseteq 0..width
      BY <2>1, SeqOfOne
    <3> QED BY <3>1, SeqOfNone DEF When
  <2>4. Chunks(word, width) = a \o b
    BY <1>2, Zenon DEF Chunks
  <2> HIDE DEF a, b
  <2> QED BY <2>2, <2>3, <2>4, ConcatIs
<1> QED BY <1>1, <1>2

(* What is wrapped to a width fits it, or eight columns when there are     *)
(* fewer.                                                                  *)
LEMMA WrapFits ==
  ASSUME NEW words \in Seq(Nat), NEW room \in Int
  PROVE  WrapWords(words, room) \in Seq(0..MaxOf(room, 8))
<1> DEFINE width == MaxOf(room, 8)
           put(word, lines) ==
             IF lines # <<>> /\ Last(lines) + 1 + word <= width
             THEN [lines EXCEPT ![Len(lines)] = @ + 1 + word]
             ELSE Append(lines, word)
           pieces == Each(words, LAMBDA w : Chunks(w, width))
           wrapped == FoldLeft(LAMBDA lines, word : put(word, lines), <<>>, pieces)
           V == Seq(0..width)
           D == DOMAIN pieces
           Rec(f) == f = [s \in SUBSET D |-> IF s = {} THEN <<>> ELSE put(pieces[Max(s)], f[s \ {Max(s)}])]
           G == [i \in D |-> [v \in V |-> put(pieces[i], v)]]
           C == [s \in (SUBSET D) \ {{}} |-> Max(s)]
           c == CHOOSE f : Rec(f)
<1>0. WrapWords(words, room) = IF wrapped = <<>> THEN <<0>> ELSE wrapped
  BY Zenon DEF WrapWords
<1>1. wrapped = c[D]
  BY Zenon DEF FoldLeft, MapThenFoldSet
<1>2. width \in Nat \ {0}
  BY DEF MaxOf
<1> HIDE DEF wrapped, width
<1>3. IsSeq(pieces) /\ Range(pieces) \subseteq 0..width
  <2> DEFINE ss == [i \in DOMAIN words |-> Chunks(words[i], width)]
  <2>1. pieces = FlattenSeq(ss)
    BY Zenon DEF Each
  <2>2. DOMAIN words = 1..Len(words) /\ Len(words) \in Nat /\ \A i \in DOMAIN words : words[i] \in Nat
    OBVIOUS
  <2>3. \A i \in DOMAIN words : IsSeq(ss[i]) /\ Range(ss[i]) \subseteq 0..width
    BY <1>2, <2>2, ChunksFit
  <2>4. IsSeq(ss) /\ DOMAIN ss = DOMAIN words
    BY <2>2 DEF IsSeq, Range
  <2> HIDE DEF ss, pieces
  <2>5. \A x \in Range(ss) : IsSeq(x) /\ Range(x) \subseteq 0..width
    BY <2>3, <2>4 DEF Range
  <2> QED BY <2>1, <2>4, <2>5, FlattenIs
<1> HIDE DEF pieces
<1>4. IsFiniteSet(D) /\ D \subseteq Int /\ \A i \in D : pieces[i] \in 0..width
  <2>1. D = 1..Len(pieces) /\ Len(pieces) \in Nat
    BY <1>3, IsSeqFacts
  <2>2. IsFiniteSet(D) /\ D \subseteq Int
    BY <2>1, FS_Interval
  <2>3. \A i \in D : pieces[i] \in Range(pieces)
    BY DEF Range
  <2> QED BY <1>3, <2>2, <2>3
<1>5. ASSUME NEW word \in 0..width, NEW lines \in V
      PROVE  put(word, lines) \in V
  <2>1. CASE lines # <<>> /\ Last(lines) + 1 + word <= width
    <3>1. Len(lines) \in 1..Len(lines)
      BY <2>1, EmptySeq
    <3>2. Last(lines) = lines[Len(lines)] /\ lines[Len(lines)] \in 0..width
      BY <3>1, ElementOfSeq DEF Last
    <3>3. lines[Len(lines)] + 1 + word \in 0..width
      BY <1>2, <2>1, <3>2
    <3>4. put(word, lines) = [lines EXCEPT ![Len(lines)] = lines[Len(lines)] + 1 + word]
      BY <2>1
    <3> HIDE DEF put
    <3> QED BY <3>1, <3>3, <3>4, ExceptSeq
  <2>2. CASE ~(lines # <<>> /\ Last(lines) + 1 + word <= width)
    <3>1. put(word, lines) = Append(lines, word)
      BY <2>2, Zenon
    <3> HIDE DEF put
    <3>2. Append(lines, word) \in V
      OBVIOUS
    <3> QED BY <3>1, <3>2
  <2> QED BY <2>1, <2>2
<1> HIDE DEF put
<1>6. Picks(C, D) /\ \A s \in (SUBSET D) \ {{}} : Max(s) \in s
  <2>1. \A s \in (SUBSET D) \ {{}} : s \in SUBSET Int /\ IsFiniteSet(s) /\ s # {}
    BY <1>4, FS_Subset
  <2> HIDE DEF D
  <2>2. \A s \in (SUBSET D) \ {{}} : Max(s) \in s
    BY <2>1, MaxIs
  <2> QED BY <2>2 DEF Picks
<1>7. G \in [D -> [V -> V]] /\ <<>> \in V
  BY <1>4, <1>5
<1>8. PICK it \in [SUBSET D -> V] : Folds(it, D, <<>>, C, G)
  <2> HIDE DEF G, C, D, V
  <2> QED BY <1>4, <1>6, <1>7, FoldExists
<1>9. Rec(it)
  <2> SUFFICES ASSUME NEW s \in SUBSET D
               PROVE  it[s] = IF s = {} THEN <<>> ELSE put(pieces[Max(s)], it[s \ {Max(s)}])
    OBVIOUS
  <2> HIDE DEF V
  <2>1. CASE s = {}
    BY <1>8, <2>1 DEF Folds
  <2>2. CASE s # {}
    <3>1. C[s] = Max(s) /\ Max(s) \in D /\ s \ {Max(s)} \in SUBSET D
      BY <1>6, <2>2
    <3>2. it[s] = G[C[s]][it[s \ {C[s]}]]
      BY <1>8, <2>2 DEF Folds
    <3>3. it[s \ {Max(s)}] \in V
      BY <3>1
    <3> HIDE DEF C
    <3> QED BY <2>2, <3>1, <3>2, <3>3
  <2> QED BY <2>1, <2>2
<1>10. Rec(c)
  <2> HIDE DEF Rec
  <2> QED BY <1>9, Zenon
<1> DEFINE P == {s \in SUBSET D : c[s] \in V}
<1>11. ASSUME NEW s \in SUBSET D, \A t \in SUBSET s : t # s => t \in P
       PROVE  s \in P
  <2> DEFINE d == [r \in SUBSET D |-> IF r = {} THEN <<>> ELSE put(pieces[Max(r)], c[r \ {Max(r)}])]
  <2>1. c = d
    BY <1>10, Zenon
  <2>2. d[s] = IF s = {} THEN <<>> ELSE put(pieces[Max(s)], c[s \ {Max(s)}])
    BY Zenon
  <2> HIDE DEF d, c, Rec, G, C, V
  <2>3. c[s] = IF s = {} THEN <<>> ELSE put(pieces[Max(s)], c[s \ {Max(s)}])
    BY <2>1, <2>2
  <2>4. ASSUME s # {}
        PROVE  c[s] \in V
    <3>1. Max(s) \in s /\ Max(s) \in D
      BY <1>6, <2>4
    <3>2. c[s \ {Max(s)}] \in V
      BY <1>11, <3>1
    <3>3. pieces[Max(s)] \in 0..width
      BY <1>4, <3>1
    <3>4. c[s] = put(pieces[Max(s)], c[s \ {Max(s)}])
      BY <2>3, <2>4
    <3> QED BY <1>5, <3>2, <3>3, <3>4
  <2>5. c[s] \in V
    <3>1. CASE s = {}
      BY <1>7, <2>3, <3>1
    <3> QED BY <2>4, <3>1
  <2> QED BY <2>5, Zenon
<1> HIDE DEF P
<1>12. D \in P
  <2> HIDE DEF D
  <2>1. \A s \in SUBSET D : (\A t \in SUBSET s : t # s => t \in P) => s \in P
    BY <1>11
  <2>2. \A s \in SUBSET D : s \in P
    BY <1>4, <2>1, SubsetInduction
  <2> QED BY <2>2
<1>13. wrapped \in V
  BY <1>1, <1>12 DEF P
<1>14. <<0>> \in V
  BY <1>2
<1>15. WrapWords(words, room) \in V
  BY <1>0, <1>13, <1>14, Zenon
<1> QED BY <1>15 DEF width

(* What is wrapped and then indented fits where eight columns are left for *)
(* it.                                                                     *)
LEMMA IndentFits ==
  ASSUME NEW words \in Seq(Nat), NEW room \in Int, NEW indent \in Nat
  PROVE  LET s == [i \in DOMAIN WrapWords(words, room - indent) |-> indent + WrapWords(words, room - indent)[i]]
         IN  IsSeq(s) /\ (room >= indent + 8 => \A x \in Range(s) : x <= room)
<1> DEFINE w == WrapWords(words, room - indent)
           s == [i \in DOMAIN w |-> indent + w[i]]
<1>1. w \in Seq(0..MaxOf(room - indent, 8))
  BY WrapFits
<1>2. MaxOf(room - indent, 8) \in Nat /\ (room >= indent + 8 => MaxOf(room - indent, 8) = room - indent)
  BY DEF MaxOf
<1> HIDE DEF w
<1> DEFINE width == MaxOf(room - indent, 8)
<1> HIDE DEF width
<1>3. DOMAIN w = 1..Len(w) /\ Len(w) \in Nat /\ \A i \in DOMAIN w : w[i] \in 0..width
  <2>1. w \in Seq(0..width)
    BY <1>1 DEF width
  <2> QED BY <2>1, LenProperties, ElementOfSeq
<1>4. IsSeq(s)
  BY <1>3 DEF IsSeq, Range
<1>5. ASSUME room >= indent + 8, NEW x \in Range(s)
      PROVE  x <= room
  <2>1. PICK i \in DOMAIN w : x = indent + w[i]
    BY DEF Range
  <2>2. width = room - indent
    BY <1>2, <1>5 DEF width
  <2> QED BY <1>3, <2>1, <2>2
<1> QED BY <1>4, <1>5 DEF w

(* So does every text of the comparison screen, of nineteen columns or     *)
(* more.                                                                   *)
LEMMA TextsFit ==
  ASSUME NEW c \in Comparisons, NEW room \in Int
  PROVE  IsSeq(Texts(c, room)) /\ (room >= 19 => \A x \in Range(Texts(c, room)) : x <= room)
<1> DEFINE T(w) == [i \in DOMAIN WrapWords(w, room - 4) |-> 4 + WrapWords(w, room - 4)[i]]
           ss == [i \in DOMAIN c.warnings |-> T(c.warnings[i])]
           b == [i \in DOMAIN WrapWords(c.summary, room - 11) |-> 11 + WrapWords(c.summary, room - 11)[i]]
<1>1. c.warnings \in Seq(Seq(Nat)) /\ c.summary \in Seq(Nat)
  BY ReportsAssumption
<1>2. Texts(c, room) = FlattenSeq(ss) \o b
  BY Zenon DEF Texts, Each
<1>3. IsSeq(b) /\ (room >= 19 => \A x \in Range(b) : x <= room)
  <2>1. room >= 19 => room >= 11 + 8
    OBVIOUS
  <2> QED BY <1>1, <2>1, IndentFits
<1>4. \A i \in DOMAIN c.warnings : IsSeq(ss[i]) /\ (room >= 19 => \A x \in Range(ss[i]) : x <= room)
  <2> TAKE i \in DOMAIN c.warnings
  <2>1. c.warnings[i] \in Seq(Nat)
    BY <1>1
  <2>2. room >= 19 => room >= 4 + 8
    OBVIOUS
  <2>3. IsSeq(T(c.warnings[i])) /\ (room >= 19 => \A x \in Range(T(c.warnings[i])) : x <= room)
    BY <2>1, <2>2, IndentFits
  <2> HIDE DEF T
  <2> QED BY <2>3
<1> HIDE DEF T, b
<1>5. IsSeq(ss) /\ DOMAIN ss = DOMAIN c.warnings
  <2>1. DOMAIN c.warnings = 1..Len(c.warnings) /\ Len(c.warnings) \in Nat
    BY <1>1
  <2> QED BY <2>1 DEF IsSeq, Range
<1> HIDE DEF ss
<1>6. \A x \in Range(ss) : IsSeq(x) /\ (room >= 19 => \A y \in Range(x) : y <= room)
  BY <1>4, <1>5 DEF Range
<1>7. IsSeq(FlattenSeq(ss)) /\ Range(FlattenSeq(ss)) = UNION {Range(x) : x \in Range(ss)}
  BY <1>5, <1>6, FlattenIs
<1>8. room >= 19 => \A y \in Range(FlattenSeq(ss)) : y <= room
  BY <1>6, <1>7
<1> DEFINE a == FlattenSeq(ss)
<1> HIDE DEF a
<1>9. IsSeq(a \o b) /\ Range(a \o b) = Range(a) \cup Range(b)
  BY <1>3, <1>7, ConcatIs DEF a
<1>10. room >= 19 => \A x \in Range(a \o b) : x <= room
  BY <1>3, <1>8, <1>9 DEF a
<1> QED BY <1>2, <1>9, <1>10 DEF a

(* The number of lines of the comparison screen is a natural. *)
LEMMA LinesAreCounted ==
  ASSUME NEW c \in Comparisons, NEW room \in Int
  PROVE  BuildLines(c, room) \in Nat
<1> DEFINE n == FoldLeft(LAMBDA sum, comp : sum + 4 + Len(comp.subtests), 0, c.components)
           t == Len(Texts(c, room))
<1>1. t \in Nat
  BY TextsFit, IsSeqFacts
<1>2. n \in Nat
  <2>1. IsSeq(c.components)
    BY ReportsAssumption DEF IsSeq
  <2>2. \A i \in DOMAIN c.components : Len(c.components[i].subtests) \in Nat
    BY ReportsAssumption
  <2> QED BY <2>1, <2>2, CountIs
<1>3. c.machines \in Nat
  BY ReportsAssumption
<1>4. BuildLines(c, room) = 1 + 2 * c.machines + (IF c.warnings = <<>> THEN 0 ELSE 1) + t + 2
                            + n + 3 + (IF c.soak = None THEN 0 ELSE 4) + 1
  BY Zenon DEF BuildLines
<1> HIDE DEF n, t
<1> DEFINE a == IF c.warnings = <<>> THEN 0 ELSE 1
           b == IF c.soak = None THEN 0 ELSE 4
<1>5. a \in Nat /\ b \in Nat
  OBVIOUS
<1>6. BuildLines(c, room) = 1 + 2 * c.machines + a + t + 2 + n + 3 + b + 1
  BY <1>4
<1> HIDE DEF a, b
<1>7. \A m, x, y, z, u \in Nat : 1 + 2 * m + x + y + 2 + z + 3 + u + 1 \in Nat
  OBVIOUS
<1> QED BY <1>1, <1>2, <1>3, <1>5, <1>6, <1>7

(* The kinds of the screens. *)
LEMMA KindsOfScreens ==
  /\ Closed.kind = "closed" /\ ResultsScreen.kind = "results"
  /\ \A c : ComparisonScreen(c).kind = "comparison" /\ ComparisonScreen(c).comparison = c
BY DEF Closed, ResultsScreen, ComparisonScreen

(* The number of lines of an open screen is an integer. *)
LEMMA LinesOfIs ==
  ASSUME MachineInv, ScreenOk, screen # Closed
  PROVE  LinesOf(screen) \in Int
<1>1. CASE screen = ResultsScreen /\ file # None
  <2>1. Says(ScreenRun(file[1]), RunCautions(file[1]))
    BY <1>1, FileIsReport, ScreenRunSays DEF MachineInv
  <2>2. Len(ScreenRun(file[1])) \in Nat
    BY <2>1, IsSeqFacts DEF Says
  <2>3. LinesOf(screen) = Len(ScreenRun(file[1]))
    BY <1>1, KindsOfScreens DEF LinesOf
  <2> QED BY <2>2, <2>3
<1>2. ASSUME NEW c \in Comparisons, screen = ComparisonScreen(c)
      PROVE  LinesOf(screen) \in Int
  <2>1. LinesOf(screen) = BuildLines(c, Inner(size.width))
    BY <1>2, KindsOfScreens DEF LinesOf
  <2>2. Inner(size.width) \in Int
    BY ReportsAssumption DEF ScreenOk, Inner
  <2>3. BuildLines(c, Inner(size.width)) \in Nat
    BY <2>2, LinesAreCounted
  <2> QED BY <2>1, <2>3
<1> QED BY <1>1, <1>2 DEF ScreenOk

(* Rows are added only to the results, and only by lines too wide.         *)
LEMMA WrappedIs ==
  ASSUME MachineInv, ScreenOk, screen # Closed
  PROVE  /\ Wrapped(screen) \in Nat
         /\ screen.kind = "comparison" => Wrapped(screen) = 0
         /\ screen.kind = "results" => \/ Wrapped(screen) = 0
                                       \/ \E line \in Range(ScreenRun(file[1])) : WidthOf(line) > Inner(size.width)
<1>1. CASE screen = ResultsScreen /\ file # None
  <2> DEFINE lines == ScreenRun(file[1])
  <2>1. IsSeq(lines)
    BY <1>1, FileIsReport, ScreenRunSays DEF Says
  <2>2. screen.kind = "results" /\ screen.kind # "comparison" /\ Wrapped(screen) = Cardinality(TooWide(lines))
    BY <1>1, KindsOfScreens DEF Wrapped
  <2> HIDE DEF lines
  <2>3. TooWide(lines) \subseteq DOMAIN lines /\ DOMAIN lines = 1..Len(lines) /\ Len(lines) \in Nat
    BY <2>1, IsSeqFacts DEF TooWide
  <2>4. IsFiniteSet(TooWide(lines))
    <3>1. IsFiniteSet(1..Len(lines))
      BY <2>3, FS_Interval
    <3> QED BY <2>3, <3>1, FS_Subset
  <2>5. Cardinality(TooWide(lines)) \in Nat /\ (Cardinality(TooWide(lines)) # 0 => TooWide(lines) # {})
    BY <2>4, FS_CardinalityType, FS_EmptySet
  <2>6. TooWide(lines) # {} => \E line \in Range(lines) : WidthOf(line) > Inner(size.width)
    BY DEF TooWide, Range
  <2> QED BY <2>2, <2>5, <2>6 DEF lines
<1>2. ASSUME NEW c \in Comparisons, screen = ComparisonScreen(c)
      PROVE  Wrapped(screen) = 0 /\ screen.kind # "results"
  BY <1>2, KindsOfScreens DEF Wrapped
<1> QED BY <1>1, <1>2 DEF ScreenOk

(* The furthest scroll: within u16, never beyond what there is to show,    *)
(* and exactly what is left to show of a report u16 can scroll.            *)
LEMMA MaxScrollIs ==
  ASSUME NEW lines \in Int, size \in Sizes
  PROVE  /\ TextRows \in Int
         /\ MaxScroll(lines) \in 0..ScrollMax
         /\ MaxScroll(lines) <= MaxOf(lines - TextRows, 0)
         /\ lines - TextRows <= ScrollMax => MaxScroll(lines) = MaxOf(lines - TextRows, 0)
<1>1. ScrollMax \in Nat /\ size.height \in Nat
  BY ReportsAssumption
<1>2. TextRows \in Int
  BY <1>1 DEF TextRows, Inner
<1> DEFINE n == MaxOf(lines - TextRows, 0)
<1>3. n \in Nat /\ (lines - TextRows <= ScrollMax => n <= ScrollMax)
  BY <1>1, <1>2 DEF MaxOf
<1>4. MaxScroll(lines) = n % (ScrollMax + 1)
  BY Zenon DEF MaxScroll, Viewport
<1> HIDE DEF n
<1>5. \A m \in Nat, k \in Nat : m % (k + 1) \in 0..k /\ m % (k + 1) <= m /\ (m <= k => m % (k + 1) = m)
  OBVIOUS
<1> QED BY <1>1, <1>2, <1>3, <1>4, <1>5 DEF n

(* The invariant holds at the start. *)
LEMMA ReportsInitially ==
  ASSUME ReportsInit
  PROVE  ReportsInv
<1>1. MachineInv
  BY MachineInitially DEF ReportsInit
<1>2. ScreenOk /\ DrawnOk
  BY ReportsAssumption DEF ReportsInit, ScreenOk, DrawnOk, NoFrame
<1> QED BY <1>1, <1>2 DEF ReportsInv

(* The machine invariant reads nothing of the screen. *)
LEMMA MachineStays ==
  ASSUME MachineInv, UNCHANGED <<world, battery, machine, file, asked, seen>>
  PROVE  MachineInv'
BY DEF MachineInv, WorldOk, AskedOk, BatteryOk, CollectedOk, FileOk

(* Every step keeps the invariant: of the machine, a key, a resize, a      *)
(* frame.                                                                  *)
LEMMA ReportsStep ==
  ASSUME ReportsInv, ReportsNext
  PROVE  ReportsInv'
<1>0. MachineInv /\ ScreenOk /\ DrawnOk /\ ScrollMax \in Nat
  BY ReportsAssumption DEF ReportsInv
<1>a. /\ NoFrame \in [top : Int, view : Int, lines : Int, rows : Int] /\ NoFrame.lines = 0
      /\ [NoFrame EXCEPT !.top = -1] \in [top : Int, view : Int, lines : Int, rows : Int]
      /\ [NoFrame EXCEPT !.top = -1].lines = 0
  BY DEF NoFrame
<1>1. CASE screen = Closed /\ MachineNext /\ UNCHANGED viewVars
  <2>1. MachineInv'
    BY <1>0, <1>1, MachineStep
  <2>2. ScreenOk' /\ DrawnOk'
    BY <1>0, <1>1 DEF viewVars, ScreenOk, DrawnOk
  <2> QED BY <2>1, <2>2 DEF ReportsInv
<1>2. ASSUME NEW s \in Screens, Show(s)
      PROVE  ReportsInv'
  <2>1. screen = Closed /\ screen' = s /\ UNCHANGED <<world, battery, machine, file, asked, seen, size, scroll, drawn>>
    BY <1>2 DEF Show
  <2>2. (s = ResultsScreen /\ file # None) \/ (\E c \in Comparisons : s = ComparisonScreen(c))
    BY DEF Screens
  <2>3. ScreenOk'
    BY <1>0, <2>1, <2>2 DEF ScreenOk
  <2>4. DrawnOk'
    BY <1>0, <2>1 DEF DrawnOk
  <2> QED BY <1>0, <2>1, <2>3, <2>4, MachineStays DEF ReportsInv
<1>3. CASE DrawScreen
  <2>1. screen # Closed /\ UNCHANGED <<world, battery, machine, file, asked, seen, screen, size>>
    BY <1>3 DEF DrawScreen
  <2>2. MachineInv'
    BY <1>0, <2>1, MachineStays
  <2>3. CASE TooSmall(screen)
    <3>1. drawn' = [NoFrame EXCEPT !.top = -1] /\ scroll' = scroll
      BY <1>3, <2>3 DEF DrawScreen
    <3>2. ScreenOk'
      BY <1>0, <2>1, <3>1 DEF ScreenOk
    <3>3. DrawnOk'
      BY <1>a, <3>1 DEF DrawnOk
    <3> QED BY <2>2, <3>2, <3>3 DEF ReportsInv
  <2>4. CASE ~TooSmall(screen)
    <3> DEFINE lines == LinesOf(screen)
    <3> DEFINE w == Wrapped(screen)
    <3>1. PICK more \in w..(Tallest - 1) * w :
            /\ scroll' = MinOf(scroll, MaxScroll(lines))
            /\ drawn' = [top |-> scroll', view |-> TextRows, lines |-> lines, rows |-> lines + more]
      BY <1>3, <2>4 DEF DrawScreen
    <3>10. w \in Nat
      BY <1>0, <2>1, WrappedIs
    <3>11. w' = w
      BY <2>1 DEF Wrapped, TooWide, WidthOf, NameWidth
    <3>12. more \in Int /\ more \in w..(Tallest - 1) * w
      <4> HIDE DEF w
      <4> QED BY <3>1, <3>10
    <3>2. lines \in Int
      BY <1>0, <2>1, LinesOfIs
    <3>3. size \in Sizes /\ scroll \in 0..ScrollMax
      BY <1>0 DEF ScreenOk
    <3>4. (LinesOf(screen))' = lines /\ TextRows' = TextRows /\ (~TooSmall(screen))'
      BY <2>1, <2>4 DEF LinesOf, TextRows, TooSmall
    <3> HIDE DEF lines, w
    <3>5. MaxScroll(lines) \in 0..ScrollMax /\ TextRows \in Int
      BY <3>2, <3>3, MaxScrollIs
    <3>6. scroll' \in 0..MaxScroll(lines) /\ scroll' \in 0..ScrollMax
      BY <1>0, <3>1, <3>3, <3>5 DEF MinOf
    <3>7. MaxScroll(lines)' = MaxScroll(lines)
      <4>1. lines' = lines
        BY <3>4 DEF lines
      <4> QED BY <3>4, <4>1 DEF MaxScroll, Viewport
    <3>8. ScreenOk'
      BY <1>0, <2>1, <3>6 DEF ScreenOk
    <3>9. DrawnOk'
      <4>1. drawn' \in [top : Int, view : Int, lines : Int, rows : Int]
        BY <3>1, <3>12, <3>2, <3>5, <3>6
      <4>2. drawn'.view = TextRows' /\ drawn'.lines = (LinesOf(screen))' /\ screen' # Closed /\ ~TooSmall(screen)'
        BY <2>1, <3>1, <3>4
      <4>3. drawn'.top \in 0..MaxScroll(drawn.lines)'
        <5>1. drawn'.top = scroll' /\ drawn'.lines = lines
          BY <3>1
        <5>2. MaxScroll(drawn.lines)' = MaxScroll(lines)
          BY <3>4, <5>1 DEF MaxScroll, Viewport
        <5> QED BY <3>6, <5>1, <5>2
      <4>4. (drawn.rows - drawn.lines \in Wrapped(screen)..(Tallest - 1) * Wrapped(screen))'
        <5>1. drawn'.rows = lines + more /\ drawn'.lines = lines
          BY <3>1
        <5>2. drawn'.rows - drawn'.lines = more
          BY <3>2, <3>12, <5>1
        <5>3. Wrapped(screen)' = w
          BY <3>11 DEF w
        <5> QED BY <3>12, <5>2, <5>3
      <4> QED BY <4>1, <4>2, <4>3, <4>4 DEF DrawnOk
    <3> QED BY <2>2, <3>8, <3>9 DEF ReportsInv
  <2> QED BY <2>3, <2>4
<1>4. ASSUME NEW delta \in Keys, Key(delta)
      PROVE  ReportsInv'
  <2> DEFINE by == CASE delta = "up" -> -1 [] delta = "down" -> 1 [] delta = "page up" -> -10 [] OTHER -> 10
  <2>1. /\ drawn' = NoFrame /\ UNCHANGED <<world, battery, machine, file, asked, seen, screen, size>>
        /\ scroll' = IF delta = "home" THEN 0 ELSE IF delta = "end" THEN ScrollMax ELSE Scrolled(screen, by)
    BY <1>4, Zenon DEF Key
  <2>2. by \in Int
    OBVIOUS
  <2> HIDE DEF by
  <2>3. scroll \in 0..ScrollMax
    BY <1>0 DEF ScreenOk
  <2>4. Scrolled(screen, by) \in 0..ScrollMax
    <3>1. CASE screen.kind = "comparison"
      BY <1>0, <2>2, <2>3, <3>1 DEF Scrolled, MinOf, MaxOf
    <3>2. CASE screen.kind # "comparison"
      <4>1. Scrolled(screen, by) = MaxOf(scroll + by, 0) % (ScrollMax + 1)
        BY <3>2 DEF Scrolled
      <4>2. MaxOf(scroll + by, 0) \in Nat
        BY <2>2, <2>3 DEF MaxOf
      <4>3. \A m, k \in Nat : m % (k + 1) \in 0..k
        OBVIOUS
      <4> QED BY <1>0, <4>1, <4>2, <4>3
    <3> QED BY <3>1, <3>2
  <2>5. scroll' \in 0..ScrollMax
    BY <1>0, <2>1, <2>4
  <2>6. ScreenOk' /\ DrawnOk'
    BY <1>0, <1>a, <2>1, <2>5 DEF ScreenOk, DrawnOk
  <2> QED BY <1>0, <2>1, <2>6, MachineStays DEF ReportsInv
<1>5. ASSUME NEW s \in Sizes, Resize(s)
      PROVE  ReportsInv'
  <2>1. size' = s /\ drawn' = NoFrame /\ UNCHANGED <<world, battery, machine, file, asked, seen, screen, scroll>>
    BY <1>5 DEF Resize
  <2>2. ScreenOk' /\ DrawnOk'
    BY <1>0, <1>a, <2>1 DEF ScreenOk, DrawnOk
  <2> QED BY <1>0, <2>1, <2>2, MachineStays DEF ReportsInv
<1> QED BY <1>1, <1>2, <1>3, <1>4, <1>5 DEF ReportsNext

(* The invariant gives OnlyWrappingHidesRows. *)
LEMMA ReachableFollows ==
  ASSUME ReportsInv
  PROVE  OnlyWrappingHidesRows
<1> DEFINE hidden == drawn.rows - (drawn.top + drawn.view)
<1> SUFFICES ASSUME drawn.lines > 0
             PROVE  /\ drawn.top + drawn.view <= MaxOf(drawn.lines, drawn.view)
                    /\ drawn.top = MaxScroll(drawn.lines) /\ drawn.lines - drawn.view <= ScrollMax =>
                         /\ hidden <= drawn.rows - drawn.lines
                         /\ screen.kind = "results" => \/ hidden <= 0
                              \/ \E line \in Range(ScreenRun(file[1])) : WidthOf(line) > Inner(size.width)
                         /\ screen.kind = "comparison" => hidden <= 0
                    /\ screen.kind = "comparison" =>
                         \A text \in Range(Texts(screen.comparison, Inner(size.width))) : text <= Inner(size.width)
  BY Zenon DEF OnlyWrappingHidesRows
<1>1. /\ drawn.top \in Int /\ drawn.view \in Int /\ drawn.lines \in Int /\ drawn.rows \in Int
      /\ screen # Closed /\ ~TooSmall(screen) /\ drawn.view = TextRows /\ drawn.top \in 0..MaxScroll(drawn.lines)
      /\ drawn.rows - drawn.lines \in Wrapped(screen)..(Tallest - 1) * Wrapped(screen)
  BY DEF ReportsInv, DrawnOk
<1>2. size \in Sizes /\ size.width \in Nat
  BY ReportsAssumption DEF ReportsInv, ScreenOk
<1> DEFINE lines == drawn.lines
           most == MaxScroll(lines)
<1>3. /\ most \in Int /\ most <= MaxOf(lines - TextRows, 0)
      /\ lines - TextRows <= ScrollMax => most = MaxOf(lines - TextRows, 0)
  <2> HIDE DEF lines
  <2>1. most \in 0..ScrollMax /\ ScrollMax \in Nat
    BY <1>1, <1>2, MaxScrollIs, ReportsAssumption DEF lines
  <2> QED BY <1>1, <1>2, <2>1, MaxScrollIs DEF lines
<1>4. drawn.top \in 0..most
  BY <1>1
<1> HIDE DEF most
<1>5. drawn.top + drawn.view <= MaxOf(lines, drawn.view)
  BY <1>1, <1>3, <1>4 DEF MaxOf
<1>6. ASSUME drawn.top = most, lines - drawn.view <= ScrollMax
      PROVE  hidden <= drawn.rows - lines
  <2>1. drawn.top + drawn.view >= lines
    BY <1>1, <1>3, <1>4, <1>6 DEF MaxOf
  <2> QED BY <1>1, <2>1
<1>7. ASSUME screen.kind = "comparison",
             NEW text \in Range(Texts(screen.comparison, Inner(size.width)))
      PROVE  text <= Inner(size.width)
  <2>1. screen.comparison \in Comparisons
    BY <1>7, KindsOfScreens DEF ReportsInv, ScreenOk
  <2>2. Inner(size.width) \in Int /\ Inner(size.width) >= 19
    BY <1>1, <1>2, <1>7 DEF TooSmall, Inner
  <2> QED BY <2>1, <2>2, TextsFit
<1>8. Wrapped(screen) = 0 => drawn.rows = lines
  <2>1. Wrapped(screen) = 0 => drawn.rows - drawn.lines \in 0..(Tallest - 1) * 0
    BY <1>1
  <2>2. (Tallest - 1) * 0 = 0
    BY ReportsAssumption
  <2>3. Wrapped(screen) = 0 => drawn.rows - drawn.lines \in 0..0
    BY <2>1, <2>2
  <2> QED BY <1>1, <2>3
<1>9. /\ screen.kind = "comparison" => Wrapped(screen) = 0
      /\ screen.kind = "results" => \/ Wrapped(screen) = 0
                                    \/ \E line \in Range(ScreenRun(file[1])) : WidthOf(line) > Inner(size.width)
  BY <1>1, WrappedIs DEF ReportsInv
<1>10. hidden \in Int /\ (drawn.rows = lines /\ hidden <= drawn.rows - lines => hidden <= 0)
  BY <1>1
<1> HIDE DEF hidden, lines
<1> QED BY <1>5, <1>6, <1>7, <1>8, <1>9, <1>10 DEF most, lines

(* The invariant gives BothReportsCaution. *)
LEMMA CautionFollows ==
  ASSUME MachineInv, ScreenOk
  PROVE  BothReportsCaution
<1>1. ASSUME NEW f \in Range(file)
      PROVE  CautionAlike(f)
  <2>1. file # None
    BY <1>1 DEF Range, None
  <2>2. file = Some(file[1])
    BY <2>1 DEF MachineInv, FileOk
  <2>3. f = file[1]
    BY <1>1, <2>2 DEF Range, Some
  <2>4. /\ IsReport(f) /\ IsSeq(f.machine.firmware) /\ IsSeq(f.machine.drives)
        /\ \A i \in DOMAIN f.machine.drives : f.machine.drives[i].warned \in BOOLEAN
    BY <2>1, <2>3, FileIsReport DEF MachineInv
  <2> QED BY <2>4, ReportsCautionAlike
<1>2. ASSUME screen.kind = "comparison"
      PROVE  LET printed == PrintTable(screen.comparison)
                 shown   == ScreenTable(screen.comparison)
             IN  /\ Len(printed) = Len(shown)
                 /\ \A i \in DOMAIN printed : \/ {printed[i].label, shown[i].label} = {"steady"}
                                              \/ printed[i] = shown[i]
  <2>1. PICK c \in Comparisons : screen = ComparisonScreen(c)
    BY <1>2, KindsOfScreens DEF ScreenOk
  <2>2. screen.comparison \in Comparisons
    BY <2>1, KindsOfScreens
  <2> QED BY <2>2, TablesAgree
<1> QED BY <1>1, <1>2, Zenon DEF BothReportsCaution, CautionAlike

(* -- The identity ------------------------------------------------------ *)

Bytes == {b \in Seq(0..255) : Len(b) >= 8}

(* Where the byte printed in place i is stored.                            *)
Place(i) == CASE i <= 4 -> 5 - i [] i \in {5, 7} -> i + 1
              [] i \in {6, 8} -> i - 1 [] OTHER -> i

Swapped(b) == [i \in DOMAIN b |-> b[Place(i)]]

(* A swap undoes itself and stays among the bytes. *)
LEMMA PlaceIs ==
  ASSUME NEW n \in Nat, n >= 8, NEW i \in 1..n
  PROVE  Place(i) \in 1..n /\ Place(Place(i)) = i
<1>1. Place(1) = 4 /\ Place(2) = 3 /\ Place(3) = 2 /\ Place(4) = 1
  BY DEF Place
<1>2. Place(5) = 6 /\ Place(6) = 5 /\ Place(7) = 8 /\ Place(8) = 7
  BY DEF Place
<1>3. i > 8 => Place(i) = i
  BY DEF Place
<1>4. i \in 1..8 \/ i > 8
  OBVIOUS
<1>5. 1..8 = {1, 2, 3, 4, 5, 6, 7, 8} /\ 1..8 \subseteq 1..n
  OBVIOUS
<1>6. CASE i \in 1..8
  BY <1>1, <1>2, <1>5, <1>6
<1> QED BY <1>3, <1>4, <1>6

(* Two UUIDs that read the same are the same. *)
LEMMA SwapInjective ==
  ASSUME NEW b \in Bytes, NEW c \in Bytes, Swapped(b) = Swapped(c)
  PROVE  b = c
<1>1. /\ Len(b) \in Nat /\ Len(b) >= 8 /\ DOMAIN b = 1..Len(b)
      /\ Len(c) \in Nat /\ DOMAIN c = 1..Len(c)
  BY DEF Bytes
<1>2. DOMAIN Swapped(b) = DOMAIN b /\ DOMAIN Swapped(c) = DOMAIN c
  BY DEF Swapped
<1>3. DOMAIN c = DOMAIN b
  BY <1>2
<1>4. ASSUME NEW i \in DOMAIN b
      PROVE  b[i] = c[i]
  <2>1. Place(i) \in DOMAIN b /\ Place(Place(i)) = i
    BY <1>1, PlaceIs
  <2>2. Swapped(b)[Place(i)] = b[Place(Place(i))] /\ Swapped(c)[Place(i)] = c[Place(Place(i))]
    BY <1>3, <2>1 DEF Swapped
  <2> QED BY <2>1, <2>2
<1>5. b = [i \in DOMAIN b |-> b[i]] /\ c = [i \in DOMAIN c |-> c[i]]
  BY DEF Bytes
<1> QED BY <1>3, <1>4, <1>5

(* What the code writes is what the kernel writes (identity.rs:383). *)
LEMMA FormatSwaps ==
  ASSUME NEW b \in Bytes
  PROVE  FormatSmbiosUuid(b) = IF Unset(b) THEN None ELSE Some(Swapped(b))
<1> DEFINE head == <<b[4], b[3], b[2], b[1], b[6], b[5], b[8], b[7]>>
           tail == SubSeq(b, 9, Len(b))
           T    == 0..255
<1>1. /\ b \in Seq(T) /\ Len(b) \in Nat /\ Len(b) >= 8 /\ DOMAIN b = 1..Len(b)
      /\ \A i \in 1..Len(b) : b[i] \in T
  <2>1. b \in Seq(T) /\ Len(b) >= 8
    BY DEF Bytes
  <2>2. \A s \in Seq(T) : Len(s) \in Nat /\ DOMAIN s = 1..Len(s) /\ \A i \in 1..Len(s) : s[i] \in T
    <3> HIDE DEF T
    <3> QED OBVIOUS
  <2> QED BY <2>1, <2>2
<1>2. /\ 1 \in 1..Len(b) /\ 2 \in 1..Len(b) /\ 3 \in 1..Len(b) /\ 4 \in 1..Len(b)
      /\ 5 \in 1..Len(b) /\ 6 \in 1..Len(b) /\ 7 \in 1..Len(b) /\ 8 \in 1..Len(b)
  BY <1>1
<1>3. head \in Seq(T) /\ Len(head) = 8
  <2>1. /\ b[1] \in T /\ b[2] \in T /\ b[3] \in T /\ b[4] \in T
        /\ b[5] \in T /\ b[6] \in T /\ b[7] \in T /\ b[8] \in T
    BY <1>1, <1>2
  <2> HIDE DEF T
  <2> QED BY <2>1
<1>4. tail \in Seq(T) /\ Len(tail) = Len(b) - 8 /\ \A j \in 1..Len(b) - 8 : tail[j] = b[j + 8]
  <2> HIDE DEF T
  <2> QED BY <1>1
<1>5. /\ head[1] = b[4] /\ head[2] = b[3] /\ head[3] = b[2] /\ head[4] = b[1]
      /\ head[5] = b[6] /\ head[6] = b[5] /\ head[7] = b[8] /\ head[8] = b[7]
  OBVIOUS
<1>6. \A i \in 1..8 : head[i] = b[Place(i)]
  <2>1. 1..8 = {1, 2, 3, 4, 5, 6, 7, 8}
    OBVIOUS
  <2>2. Place(1) = 4 /\ Place(2) = 3 /\ Place(3) = 2 /\ Place(4) = 1
    BY DEF Place
  <2>3. Place(5) = 6 /\ Place(6) = 5 /\ Place(7) = 8 /\ Place(8) = 7
    BY DEF Place
  <2> HIDE DEF head
  <2> QED BY <1>5, <2>1, <2>2, <2>3
<1> HIDE DEF head, tail, T
<1>7. /\ head \o tail \in Seq(T) /\ Len(head \o tail) = Len(b)
      /\ \A i \in 1..Len(b) : (head \o tail)[i] = IF i <= 8 THEN head[i] ELSE tail[i - 8]
  <2>1. /\ head \o tail \in Seq(T) /\ Len(head \o tail) = Len(head) + Len(tail)
        /\ \A i \in 1..Len(head) + Len(tail) :
             (head \o tail)[i] = IF i <= Len(head) THEN head[i] ELSE tail[i - Len(head)]
    BY <1>3, <1>4, ConcatProperties
  <2>2. Len(head) + Len(tail) = Len(b)
    BY <1>1, <1>3, <1>4
  <2> QED BY <1>3, <2>1, <2>2
<1>8. ASSUME NEW i \in 1..Len(b)
      PROVE  (head \o tail)[i] = b[Place(i)]
  <2>1. CASE i <= 8
    <3>1. i \in 1..8
      BY <1>1, <2>1
    <3>2. (head \o tail)[i] = head[i]
      BY <1>7, <2>1
    <3> QED BY <1>6, <3>1, <3>2
  <2>2. CASE ~(i <= 8)
    <3>1. Place(i) = i /\ i - 8 \in 1..Len(b) - 8 /\ (i - 8) + 8 = i
      BY <1>1, <2>2 DEF Place
    <3>2. tail[i - 8] = b[i]
      BY <1>4, <3>1
    <3>3. (head \o tail)[i] = tail[i - 8]
      BY <1>7, <2>2
    <3> QED BY <3>1, <3>2, <3>3
  <2> QED BY <2>1, <2>2
<1>9. head \o tail = [i \in 1..Len(b) |-> (head \o tail)[i]]
  <2>1. \A s \in Seq(T) : s = [i \in 1..Len(s) |-> s[i]]
    OBVIOUS
  <2> QED BY <1>7, <2>1
<1>10. head \o tail = Swapped(b)
  BY <1>1, <1>8, <1>9 DEF Swapped
<1> QED BY <1>10, Zenon DEF FormatSmbiosUuid, head, tail

(* The one structure that describes the system.                            *)
Systems(m) == OfKind(m.smbios, DOMAIN m.smbios, 1)
System(m) == m.smbios[CHOOSE i \in Systems(m) : TRUE]

(* What there is to know of a machine's firmware: the UUID and the serial. *)
TrueUuid(m) ==
  IF Systems(m) = {} \/ System(m).length < 24 \/ Unset(System(m).uuid) THEN None
  ELSE Some(Swapped(System(m).uuid))
TrueSerial(m) == IF Systems(m) = {} THEN None ELSE Meaningful(System(m).string)

(* Where a machine has a system structure there is one. *)
LEMMA OneSystem ==
  ASSUME NEW m \in Machines, Systems(m) # {}
  PROVE  \E i \in Nat : /\ Systems(m) = {i} /\ System(m) = m.smbios[i]
                        /\ System(m).length \in Nat
                        /\ System(m).length >= 24 => System(m).uuid \in Bytes
                        /\ \A S \in SUBSET Systems(m) : S # {} => S = {i} /\ Max(S) = i /\ Min(S) = i
<1>1. \A i, j \in Systems(m) : i = j
  BY FirmwareAssumption DEF Systems
<1>2. PICK i \in Systems(m) : TRUE
  OBVIOUS
<1>3. Systems(m) = {i} /\ System(m) = m.smbios[i]
  BY <1>1, <1>2 DEF System
<1>4. i \in Nat
  <2>1. IsSeq(m.smbios)
    BY FirmwareAssumption DEF IsSeq
  <2>2. i \in 1..Len(m.smbios) /\ Len(m.smbios) \in Nat
    BY <1>2, <2>1, IsSeqFacts DEF Systems, OfKind
  <2> QED BY <2>2
<1>5. m.smbios[i].length \in Nat /\ (m.smbios[i].length >= 24 => m.smbios[i].uuid \in Bytes)
  BY <1>2, FirmwareAssumption DEF Systems, Bytes
<1>6. Max({i}) = i /\ Min({i}) = i
  BY <1>4 DEF Max, Min
<1>7. \A S \in SUBSET Systems(m) : S # {} => S = {i}
  BY <1>3
<1> QED BY <1>3, <1>4, <1>5, <1>6, <1>7

Fields == {"machine_id", "smbios_uuid", "serial", "asset_tag"}

(* What the kernel shows root of the firmware. *)
LEMMA KernelIs ==
  ASSUME NEW m \in Machines
  PROVE  Kernel(m.smbios).uuid = TrueUuid(m) /\ Meaningful(Kernel(m.smbios).serial) = TrueSerial(m)
<1> DEFINE min == Min(Systems(m))
           system == m.smbios[min]
           enclosures == OfKind(m.smbios, DOMAIN m.smbios, 3)
           uuid == IF Systems(m) = {} \/ system.length < 24 \/ Unset(system.uuid) THEN None
                   ELSE Some(Swapped(system.uuid))
           serial == IF Systems(m) = {} THEN "" ELSE system.string
           asset == IF enclosures = {} THEN "" ELSE m.smbios[Min(enclosures)].string
<1>1. Kernel(m.smbios) = [uuid |-> uuid, serial |-> serial, asset |-> asset]
  BY Zenon DEF Kernel, Systems, Swapped, Place
<1>2. Kernel(m.smbios).uuid = uuid /\ Kernel(m.smbios).serial = serial
  <2> HIDE DEF uuid, serial, asset
  <2> QED BY <1>1
<1> HIDE DEF enclosures, asset
<1>3. CASE Systems(m) = {}
  BY <1>2, <1>3 DEF TrueUuid, TrueSerial, Meaningful
<1>4. CASE Systems(m) # {}
  <2>1. system = System(m)
    BY <1>4, OneSystem
  <2> HIDE DEF system
  <2> QED BY <1>2, <1>4, <2>1 DEF TrueUuid, TrueSerial
<1> QED BY <1>3, <1>4

(* A UUID's text is no placeholder: its first byte is no dash. *)
LEMMA TextIsMeaningful ==
  ASSUME NEW b \in Bytes
  PROVE  MeaningfulUuid(b) = Some(b)
<1> DEFINE T    == 0..256
           head == SubSeq(b, 1, 4)
           tail == SubSeq(b, 5, Len(b))
           text == head \o <<Dash>> \o tail
<1>1. b \in Seq(0..255) /\ Len(b) \in Nat /\ Len(b) >= 8 /\ b[1] \in 0..255
  <2>1. b \in Seq(0..255) /\ Len(b) >= 8
    BY DEF Bytes
  <2>2. Len(b) \in Nat /\ 1 \in 1..Len(b)
    BY <2>1
  <2> QED BY <2>1, <2>2, ElementOfSeq
<1>2. b \in Seq(T) /\ Dash \in T /\ Dash = 256
  BY <1>1 DEF Dash
<1> HIDE DEF T
<1>3. head \in Seq(T) /\ Len(head) = 4 /\ head[1] = b[1]
  BY <1>1, <1>2
<1>4. tail \in Seq(T)
  BY <1>1, <1>2
<1> HIDE DEF head, tail
<1>5. <<Dash>> \in Seq(T) /\ Len(<<Dash>>) = 1 /\ <<Dash>>[1] = Dash
  BY <1>2
<1> DEFINE a == head \o <<Dash>>
<1>6. a \in Seq(T) /\ Len(a) = 5 /\ a[1] = b[1] /\ a[5] = Dash
  <2> DEFINE one == <<Dash>>
  <2> HIDE DEF one
  <2>0. one \in Seq(T) /\ Len(one) = 1 /\ one[1] = Dash /\ a = head \o one
    BY <1>5 DEF one
  <2> HIDE DEF a
  <2>1. /\ a \in Seq(T) /\ Len(a) = Len(head) + Len(one)
        /\ \A i \in 1..Len(head) + Len(one) : a[i] = IF i <= Len(head) THEN head[i] ELSE one[i - Len(head)]
    BY <1>3, <2>0, ConcatProperties
  <2>2. a[1] = head[1] /\ a[5] = one[1]
    BY <1>3, <2>0, <2>1
  <2> QED BY <1>3, <2>0, <2>1, <2>2
<1> HIDE DEF a
<1>7. DOMAIN text = 1..Len(text) /\ Len(text) \in Nat /\ Len(text) >= 5 /\ text[1] = b[1] /\ text[5] = Dash
  <2>1. text = a \o tail
    BY DEF a
  <2>2. /\ a \o tail \in Seq(T) /\ Len(a \o tail) = Len(a) + Len(tail)
        /\ \A i \in 1..Len(a) + Len(tail) : (a \o tail)[i] = IF i <= Len(a) THEN a[i] ELSE tail[i - Len(a)]
    BY <1>4, <1>6, ConcatProperties
  <2>3. Len(tail) \in Nat
    BY <1>4, LenProperties
  <2>4. 1 \in 1..5 + Len(tail) /\ 5 \in 1..5 + Len(tail) /\ 1 <= 5 /\ 5 <= 5 /\ 5 + Len(tail) >= 5
    BY <2>3
  <2>5. (a \o tail)[1] = a[1] /\ (a \o tail)[5] = a[5]
    BY <1>6, <2>2, <2>4
  <2>6. DOMAIN (a \o tail) = 1..Len(a \o tail) /\ Len(a \o tail) \in Nat
    BY <2>2, LenProperties
  <2> HIDE DEF text
  <2> QED BY <1>6, <2>1, <2>2, <2>4, <2>5, <2>6
<1>8. 5 \in DOMAIN text /\ text[5] # text[1]
  <2> HIDE DEF text
  <2>1. 5 \in 1..Len(text)
    BY <1>7
  <2>0. \A x \in 0..255 : x # 256
    OBVIOUS
  <2>2. b[1] # 256
    BY <1>1, <2>0, Zenon
  <2> QED BY <1>2, <1>7, <2>1, <2>2
<1>9. MeaningfulUuid(b) = IF \A i \in DOMAIN text : text[i] = text[1] THEN None ELSE Some(b)
  BY Zenon DEF MeaningfulUuid, head, tail
<1> HIDE DEF text
<1> QED BY <1>8, <1>9

RootUuid(m) == IF Kernel(m.smbios).uuid # None THEN MeaningfulUuid(Kernel(m.smbios).uuid[1]) ELSE None

(* What root reads of the kernel is all taken for meaningful. *)
LEMMA RootUuidIs ==
  ASSUME NEW m \in Machines
  PROVE  RootUuid(m) = TrueUuid(m)
<1>1. Kernel(m.smbios).uuid = TrueUuid(m)
  BY KernelIs
<1>2. CASE TrueUuid(m) = None
  BY <1>1, <1>2 DEF RootUuid
<1>3. CASE TrueUuid(m) # None
  <2> DEFINE u == System(m).uuid
  <2>1. Systems(m) # {} /\ ~(System(m).length < 24) /\ TrueUuid(m) = Some(Swapped(u))
    BY <1>3, Zenon DEF TrueUuid
  <2>2. u \in Bytes
    <3>1. System(m).length \in Nat /\ (System(m).length >= 24 => u \in Bytes)
      BY <2>1, OneSystem
    <3> QED BY <2>1, <3>1
  <2> HIDE DEF u
  <2>3. Swapped(u) \in Bytes
    <3>1. u \in Seq(0..255) /\ Len(u) \in Nat /\ Len(u) >= 8 /\ DOMAIN u = 1..Len(u)
      BY <2>2 DEF Bytes
    <3>2. \A i \in 1..Len(u) : Place(i) \in 1..Len(u) /\ u[Place(i)] \in 0..255
      <4>1. \A i \in 1..Len(u) : Place(i) \in 1..Len(u)
        BY <3>1, PlaceIs
      <4> QED BY <3>1, <4>1, ElementOfSeq
    <3>3. Swapped(u) = [i \in 1..Len(u) |-> u[Place(i)]]
      BY <3>1 DEF Swapped
    <3> DEFINE f == [i \in 1..Len(u) |-> u[Place(i)]]
    <3>4. f \in [1..Len(u) -> 0..255]
      BY <3>2
    <3> HIDE DEF f
    <3>5. f \in Seq(0..255) /\ Len(f) = Len(u)
      <4> DEFINE n == Len(u)
      <4>1. n \in Nat /\ f \in [1..n -> 0..255]
        BY <3>1, <3>4
      <4> HIDE DEF n
      <4>2. f \in Seq(0..255)
        BY <4>1, SeqDef
      <4>3. DOMAIN f = 1..n
        BY <4>1
      <4>4. Len(f) = n
        BY <4>1, <4>2, <4>3, LenProperties
      <4> QED BY <4>2, <4>4 DEF n
    <3> QED BY <3>1, <3>3, <3>5 DEF f, Bytes
  <2>4. Kernel(m.smbios).uuid[1] = Swapped(u)
    BY <1>1, <2>1, OptionIs
  <2> QED BY <1>1, <1>3, <2>1, <2>3, <2>4, TextIsMeaningful DEF RootUuid
<1> QED BY <1>2, <1>3

(* The parser gives the four fields, found or not. *)
LEMMA ParseFields ==
  ASSUME NEW t
  PROVE  DOMAIN ParseSmbios(t) = Fields
BY DEF ParseSmbios, NoIdentity, Fields

(* What the table parser finds is that, or nothing, where the structure    *)
(* lies behind a malformed one. *)
LEMMA ParseIs ==
  ASSUME NEW m \in Machines
  PROVE  /\ ParseSmbios(m.smbios).smbios_uuid \in {None, TrueUuid(m)}
         /\ ParseSmbios(m.smbios).serial \in {None, TrueSerial(m)}
<1> DEFINE t == m.smbios
           systems == OfKind(t, Structures(t), 1)
           long == {i \in systems : t[i].length >= 24}
           enclosures == OfKind(t, Structures(t), 3)
           uuid == IF long = {} THEN None ELSE FormatSmbiosUuid(t[Max(long)].uuid)
           serial == IF systems = {} THEN None ELSE Meaningful(t[Max(systems)].string)
           asset == IF enclosures = {} THEN None ELSE Meaningful(t[Max(enclosures)].string)
<1>1. ParseSmbios(t) = [NoIdentity EXCEPT !.smbios_uuid = uuid, !.serial = serial, !.asset_tag = asset]
  BY Zenon DEF ParseSmbios
<1>2. systems \in SUBSET Systems(m) /\ long \in SUBSET systems
  BY DEF Systems, Structures, OfKind
<1>3. \A i \in long : t[i].length >= 24
  OBVIOUS
<1> HIDE DEF systems, long, enclosures
<1>4. ASSUME uuid # None
      PROVE  uuid = TrueUuid(m)
  <2>1. long # {} /\ Systems(m) # {}
    BY <1>2, <1>4
  <2>2. PICK i \in Nat : /\ Systems(m) = {i} /\ System(m) = t[i]
                         /\ System(m).length \in Nat
                         /\ System(m).length >= 24 => System(m).uuid \in Bytes
                         /\ \A S \in SUBSET Systems(m) : S # {} => S = {i} /\ Max(S) = i /\ Min(S) = i
    BY <2>1, OneSystem
  <2>3. Max(long) = i /\ i \in long
    BY <1>2, <2>1, <2>2
  <2>4. System(m).length >= 24 /\ System(m).uuid \in Bytes
    BY <1>3, <2>2, <2>3
  <2>5. uuid = FormatSmbiosUuid(System(m).uuid)
    BY <2>1, <2>2, <2>3
  <2>6. FormatSmbiosUuid(System(m).uuid) = IF Unset(System(m).uuid) THEN None ELSE Some(Swapped(System(m).uuid))
    BY <2>4, FormatSwaps
  <2>7. ~(System(m).length < 24)
    BY <2>2, <2>4
  <2> QED BY <2>1, <2>4, <2>5, <2>6, <2>7 DEF TrueUuid
<1>5. serial \in {None, TrueSerial(m)}
  <2>1. CASE systems # {}
    <3>1. Max(systems) \in Systems(m) /\ t[Max(systems)] = System(m)
      BY <1>2, <2>1, OneSystem
    <3> QED BY <2>1, <3>1 DEF TrueSerial
  <2> QED BY <2>1
<1> HIDE DEF uuid, serial, asset
<1>6. ParseSmbios(t).smbios_uuid = uuid /\ ParseSmbios(t).serial = serial
  BY <1>1 DEF NoIdentity
<1> QED BY <1>4, <1>5, <1>6

(* Whatever system a machine boots and with whatever rights: a reading of  *)
(* its firmware is the truth or nothing, with root's rights Linux gives    *)
(* the truth, and nothing else depends on the rights. *)
LEMMA IdentityIs ==
  ASSUME NEW m \in Machines, NEW x, x.smbios = m.smbios
  PROVE  /\ DOMAIN CollectIdentity(x) = Fields
         /\ CollectIdentity(x).smbios_uuid \in {None, TrueUuid(m)}
         /\ CollectIdentity(x).serial \in {None, TrueSerial(m)}
<1>1. CASE x.system = "linux"
  <2> DEFINE k == Kernel(m.smbios)
             id == Meaningful(x.machine_id)
             uuid == IF x.root /\ k.uuid # None THEN MeaningfulUuid(k.uuid[1]) ELSE None
             serial == IF x.root THEN Meaningful(k.serial) ELSE None
             asset == Meaningful(k.asset)
  <2>1. CollectIdentity(x) = [machine_id |-> id, smbios_uuid |-> uuid, serial |-> serial, asset_tag |-> asset]
    <3>1. CollectIdentity(x) = LinuxIdentity(x)
      BY <1>1 DEF CollectIdentity
    <3> QED BY <3>1, Zenon DEF LinuxIdentity
  <2>2. uuid \in {None, TrueUuid(m)} /\ serial \in {None, TrueSerial(m)}
    BY KernelIs, RootUuidIs DEF RootUuid
  <2> HIDE DEF id, uuid, serial, asset
  <2> QED BY <2>1, <2>2 DEF Fields
<1>2. CASE x.system = "windows"
  <2> DEFINE p == ParseSmbios(m.smbios)
             id == Meaningful(x.machine_id)
  <2>1. CollectIdentity(x) = [p EXCEPT !.machine_id = id]
    <3>1. CollectIdentity(x) = WindowsIdentity(x)
      BY <1>2 DEF CollectIdentity
    <3> QED BY <3>1, Zenon DEF WindowsIdentity
  <2>2. DOMAIN p = Fields
    BY Zenon, ParseFields DEF Fields
  <2> HIDE DEF p, id
  <2>3. /\ DOMAIN [p EXCEPT !.machine_id = id] = DOMAIN p
        /\ [p EXCEPT !.machine_id = id].smbios_uuid = p.smbios_uuid
        /\ [p EXCEPT !.machine_id = id].serial = p.serial
    BY <2>2 DEF Fields
  <2> QED BY <2>1, <2>2, <2>3, ParseIs DEF p
<1>3. CASE x.system \notin {"linux", "windows"}
  <2>1. CollectIdentity(x) = NoIdentity
    BY <1>3 DEF CollectIdentity
  <2> QED BY <2>1 DEF NoIdentity, Fields
<1> QED BY <1>1, <1>2, <1>3

(* The machine block's identity is that of the machine it was measured on. *)
LEMMA FileIdentity ==
  ASSUME MachineInv, file # None
  PROVE  /\ seen.machine \in Machines
         /\ file = Some(file[1])
         /\ file[1].machine.identity = CollectIdentity(seen.machine)
<1>1. WorldOk(seen) /\ file = Some(file[1]) /\ file[1].machine = Collected(seen, battery.info)
  BY FileIs DEF MachineInv
<1>2. \A w, info : Collected(w, info).identity = CollectIdentity(w.machine)
  BY CollectedIs
<1>3. file[1].machine.identity = CollectIdentity(seen.machine)
  BY <1>1, <1>2, Zenon
<1> QED BY <1>1, <1>3 DEF WorldOk

(* A machine keeps its firmware whatever it boots, and all but the system  *)
(* and the rights it boots with. *)
LEMMA BootedIs ==
  ASSUME NEW m \in Machines, NEW system, NEW root
  PROVE  LET x == [m EXCEPT !.system = system, !.root = root]
         IN  x.smbios = m.smbios /\ x.machine_id = m.machine_id /\ x.system = system /\ x.root = root
BY FirmwareAssumption

(* Two machines have no part of their identity in common. *)
LEMMA IdentitiesDiffer ==
  ASSUME NEW m \in Machines, NEW n \in Machines, m # n
  PROVE  /\ TrueUuid(m) # None => TrueUuid(n) # TrueUuid(m)
         /\ TrueSerial(m) # None => TrueSerial(n) # TrueSerial(m)
<1>1. /\ Systems(m) # {} => \E i \in Systems(m) : System(m) = m.smbios[i]
      /\ Systems(n) # {} => \E j \in Systems(n) : System(n) = n.smbios[j]
  BY DEF System
<1>2. ASSUME Systems(m) # {}, Systems(n) # {}
      PROVE  /\ System(m).uuid = System(n).uuid => Unset(System(m).uuid)
             /\ System(m).string = System(n).string => Meaningful(System(m).string) = None
  <2>1. PICK i \in Systems(m) : System(m) = m.smbios[i]
    BY <1>1, <1>2
  <2>2. PICK j \in Systems(n) : System(n) = n.smbios[j]
    BY <1>1, <1>2
  <2>3. /\ m.smbios[i].uuid = n.smbios[j].uuid => Unset(m.smbios[i].uuid)
        /\ m.smbios[i].string = n.smbios[j].string => Meaningful(m.smbios[i].string) = None
    BY FirmwareAssumption DEF Systems
  <2> QED BY <2>1, <2>2, <2>3
<1>3. ASSUME TrueUuid(m) # None, TrueUuid(n) = TrueUuid(m)
      PROVE  FALSE
  <2>1. /\ Systems(m) # {} /\ ~(System(m).length < 24) /\ ~Unset(System(m).uuid)
        /\ Systems(n) # {} /\ ~(System(n).length < 24)
        /\ Some(Swapped(System(m).uuid)) = Some(Swapped(System(n).uuid))
    BY <1>3, Zenon DEF TrueUuid
  <2>2. System(m).uuid \in Bytes /\ System(n).uuid \in Bytes
    <3>1. System(m).length \in Nat /\ (System(m).length >= 24 => System(m).uuid \in Bytes)
      BY <2>1, OneSystem
    <3>2. System(n).length \in Nat /\ (System(n).length >= 24 => System(n).uuid \in Bytes)
      BY <2>1, OneSystem
    <3>3. \A l \in Nat : ~(l < 24) => l >= 24
      OBVIOUS
    <3> QED BY <2>1, <3>1, <3>2, <3>3
  <2>3. Swapped(System(m).uuid) = Swapped(System(n).uuid)
    BY <2>1, OptionIs
  <2>4. System(m).uuid = System(n).uuid
    BY <2>2, <2>3, SwapInjective
  <2> QED BY <1>2, <2>1, <2>4
<1>4. ASSUME TrueSerial(m) # None, TrueSerial(n) = TrueSerial(m)
      PROVE  FALSE
  <2>1. Systems(m) # {} /\ Systems(n) # {} /\ Meaningful(System(m).string) = Meaningful(System(n).string)
        /\ Meaningful(System(m).string) # None
    BY <1>4, Zenon DEF TrueSerial
  <2>2. \A s : Meaningful(s) # None => Meaningful(s) = Some(s)
    BY DEF Meaningful
  <2>3. Some(System(m).string) = Some(System(n).string)
    BY <2>1, <2>2
  <2>4. System(m).string = System(n).string
    BY <2>3, OptionIs
  <2> QED BY <1>2, <2>1, <2>4
<1> QED BY <1>3, <1>4

(* The rights only add: what was read without them is read with them. *)
LEMMA RightsOnlyAdd ==
  ASSUME NEW m \in Machines, NEW x, x.smbios = m.smbios, x.machine_id = m.machine_id,
         x.system = m.system, x.root = TRUE, NEW field \in Fields
  PROVE  CollectIdentity(m)[field] # None => CollectIdentity(x)[field] = CollectIdentity(m)[field]
<1>1. CASE m.system = "linux"
  <2> DEFINE k == Kernel(m.smbios)
             id == Meaningful(m.machine_id)
             uuid(root) == IF root /\ k.uuid # None THEN MeaningfulUuid(k.uuid[1]) ELSE None
             serial(root) == IF root THEN Meaningful(k.serial) ELSE None
             asset == Meaningful(k.asset)
             gives(root) == [machine_id |-> id, smbios_uuid |-> uuid(root), serial |-> serial(root), asset_tag |-> asset]
  <2>1. CollectIdentity(m) = gives(m.root)
    <3>1. CollectIdentity(m) = LinuxIdentity(m)
      BY <1>1 DEF CollectIdentity
    <3> QED BY <3>1, Zenon DEF LinuxIdentity
  <2>2. CollectIdentity(x) = gives(TRUE)
    <3>1. CollectIdentity(x) = LinuxIdentity(x)
      BY <1>1 DEF CollectIdentity
    <3>2. LinuxIdentity(x) = gives(x.root)
      BY Zenon DEF LinuxIdentity
    <3> QED BY <3>1, <3>2
  <2>3. m.root \in BOOLEAN
    BY FirmwareAssumption
  <2>4. CASE m.root = TRUE
    BY <2>1, <2>2, <2>4
  <2>5. CASE m.root = FALSE
    <3>1. uuid(m.root) = None /\ serial(m.root) = None
      BY <2>5
    <3> HIDE DEF uuid, serial, id, asset
    <3> QED BY <2>1, <2>2, <3>1 DEF Fields
  <2> QED BY <2>3, <2>4, <2>5
<1>2. CASE m.system = "windows"
  <2>1. CollectIdentity(m) = WindowsIdentity(m) /\ CollectIdentity(x) = WindowsIdentity(x)
    BY <1>2 DEF CollectIdentity
  <2>2. WindowsIdentity(m) = WindowsIdentity(x)
    BY Zenon DEF WindowsIdentity
  <2> QED BY <2>1, <2>2
<1>3. CASE m.system \notin {"linux", "windows"}
  BY <1>3 DEF CollectIdentity
<1> QED BY <1>1, <1>2, <1>3

Firmware == {"smbios_uuid", "serial"}
Truth(m, field) == IF field = "smbios_uuid" THEN TrueUuid(m) ELSE TrueSerial(m)
Booted(m, system, root) == CollectIdentity([m EXCEPT !.system = system, !.root = root])

(* The three parts of IdentityFollowsTheMachine, of one machine.           *)
NeverContradicts(m, id) ==
  \A system \in {"linux", "windows"}, root \in BOOLEAN, field \in Firmware :
    LET other == Booted(m, system, root)[field]
    IN  id[field] # None /\ other # None => id[field] = other
RightsAdd(m, id) ==
  \A field \in DOMAIN id : id[field] # None => Booted(m, m.system, TRUE)[field] = id[field]
NobodyElse(m, id) ==
  \A n \in Machines \ {m}, field \in Firmware :
    id[field] # None => CollectIdentity([n EXCEPT !.root = TRUE])[field] # id[field]

(* The three parts hold of what any machine says of itself. *)
LEMMA IdentityOfMachine ==
  ASSUME NEW m \in Machines
  PROVE  /\ NeverContradicts(m, CollectIdentity(m))
         /\ RightsAdd(m, CollectIdentity(m))
         /\ NobodyElse(m, CollectIdentity(m))
<1>1. ASSUME NEW n \in Machines, NEW x, x.smbios = n.smbios, NEW field \in Firmware
      PROVE  CollectIdentity(x)[field] \in {None, Truth(n, field)}
  BY <1>1, IdentityIs DEF Truth, Firmware
<1>2. \A system, root : \A field \in Firmware : Booted(m, system, root)[field] \in {None, Truth(m, field)}
  <2> TAKE system, root
  <2> DEFINE x == [m EXCEPT !.system = system, !.root = root]
  <2>1. x.smbios = m.smbios
    BY BootedIs
  <2>2. Booted(m, system, root) = CollectIdentity(x)
    BY DEF Booted
  <2> HIDE DEF x
  <2> QED BY <1>1, <2>1, <2>2
<1>3. \A field \in Firmware : CollectIdentity(m)[field] \in {None, Truth(m, field)}
  BY <1>1
<1>4. NeverContradicts(m, CollectIdentity(m))
  BY <1>2, <1>3, Zenon DEF NeverContradicts
<1>5. RightsAdd(m, CollectIdentity(m))
  <2> DEFINE x == [m EXCEPT !.system = m.system, !.root = TRUE]
  <2>1. DOMAIN CollectIdentity(m) = Fields
    BY IdentityIs
  <2>2. x.smbios = m.smbios /\ x.machine_id = m.machine_id /\ x.system = m.system /\ x.root = TRUE
    BY BootedIs
  <2>3. Booted(m, m.system, TRUE) = CollectIdentity(x)
    BY DEF Booted
  <2> HIDE DEF x
  <2>4. \A field \in Fields :
          CollectIdentity(m)[field] # None => CollectIdentity(x)[field] = CollectIdentity(m)[field]
    BY <2>2, RightsOnlyAdd
  <2> QED BY <2>1, <2>3, <2>4, Zenon DEF RightsAdd
<1>6. ASSUME NEW n \in Machines \ {m}, NEW field \in Firmware, CollectIdentity(m)[field] # None
      PROVE  CollectIdentity([n EXCEPT !.root = TRUE])[field] # CollectIdentity(m)[field]
  <2> DEFINE x == [n EXCEPT !.root = TRUE]
  <2>1. x.smbios = n.smbios
    BY FirmwareAssumption
  <2> HIDE DEF x
  <2>2. CollectIdentity(x)[field] \in {None, Truth(n, field)}
    BY <1>1, <2>1
  <2>3. CollectIdentity(m)[field] = Truth(m, field)
    BY <1>3, <1>6
  <2>4. Truth(m, field) # None => Truth(n, field) # Truth(m, field)
    BY <1>6, IdentitiesDiffer DEF Truth
  <2> QED BY <1>6, <2>2, <2>3, <2>4 DEF x
<1>7. NobodyElse(m, CollectIdentity(m))
  BY <1>6, Zenon DEF NobodyElse
<1> QED BY <1>4, <1>5, <1>7

(* The invariant gives IdentityFollowsTheMachine. *)
LEMMA IdentityFollows ==
  ASSUME MachineInv
  PROVE  IdentityFollowsTheMachine
<1> DEFINE holds(id) == /\ NeverContradicts(seen.machine, id)
                        /\ RightsAdd(seen.machine, id)
                        /\ NobodyElse(seen.machine, id)
<1>1. IdentityFollowsTheMachine <=> \A f \in Range(file) : holds(f.machine.identity)
  BY Zenon DEF IdentityFollowsTheMachine, NeverContradicts, RightsAdd, NobodyElse, Booted, Firmware
<1> HIDE DEF holds
<1>2. CASE file = None
  BY <1>1, <1>2, OptionIs
<1>3. CASE file # None
  <2>1. Range(file) = {file[1]} /\ seen.machine \in Machines
        /\ file[1].machine.identity = CollectIdentity(seen.machine)
    BY <1>3, FileIdentity, OptionIs
  <2>2. holds(file[1].machine.identity)
    BY <2>1, IdentityOfMachine DEF holds
  <2> QED BY <1>1, <2>1, <2>2
<1> QED BY <1>2, <1>3

(* In every reachable state what was collected, and the file, is of the    *)
(* machine and power situation of one moment before the measuring, the     *)
(* screen shows that file or a comparison, a drawn frame starts within its *)
(* scroll range, and only wrapping adds rows to its lines.                 *)
THEOREM ReportsInvariance == ReportsSpec => []ReportsInv
<1>1. ReportsInv /\ UNCHANGED reportVars => ReportsInv'
  <2> SUFFICES ASSUME ReportsInv, UNCHANGED reportVars PROVE ReportsInv'
    OBVIOUS
  <2>1. MachineInv'
    BY MachineStays DEF ReportsInv, reportVars
  <2>2. ScreenOk'
    BY DEF ReportsInv, reportVars, ScreenOk
  <2>3. DrawnOk'
    <3>1. UNCHANGED <<file, screen, size, scroll, drawn>>
      BY DEF reportVars
    <3>2. /\ TooSmall(screen)' = TooSmall(screen) /\ TextRows' = TextRows /\ LinesOf(screen)' = LinesOf(screen)
          /\ Wrapped(screen)' = Wrapped(screen)
      BY <3>1 DEF TooSmall, TextRows, LinesOf, Wrapped, TooWide, WidthOf, NameWidth
    <3>3. MaxScroll(drawn.lines)' = MaxScroll(drawn.lines)
      BY <3>1, <3>2 DEF MaxScroll, Viewport
    <3> QED BY <3>1, <3>2, <3>3 DEF ReportsInv, DrawnOk
  <2> QED BY <2>1, <2>2, <2>3 DEF ReportsInv
<1>2. ReportsInv /\ ReportsNext => ReportsInv'
  BY ReportsStep
<1>3. ReportsInit => ReportsInv
  BY ReportsInitially
<1> QED BY <1>1, <1>2, <1>3, PTL DEF ReportsSpec

(* What a report says held the machine back was in force at the moment,    *)
(* before the measuring, when the run read its settings, whatever was      *)
(* plugged in while it measured or since (inventory.rs, power.rs).         *)
THEOREM ReportsBlame == ReportsSpec => []BlamesWhatWasInForce
<1>1. ReportsInv => BlamesWhatWasInForce
  BY BlamesFollows DEF ReportsInv
<1> QED BY <1>1, ReportsInvariance, PTL

(* The age a report gives is that of the machine when the run was          *)
(* measured, not when it is read (age.rs).                                 *)
THEOREM ReportsAge == ReportsSpec => []AgeIsOfTheRun
<1>1. ReportsInv => AgeIsOfTheRun
  BY AgeFollows DEF ReportsInv
<1> QED BY <1>1, ReportsInvariance, PTL

(* The printed run and the results screen give the same cautions, but for  *)
(* four kinds that only print has and of which the screen still shows that *)
(* clocks fell and a soak throttled, the inventory its part of them and    *)
(* its drives', and the two comparisons the same rows (output/mod.rs,      *)
(* tui/view.rs, tui/compare.rs).                                           *)
THEOREM ReportsCautionTogether == ReportsSpec => []BothReportsCaution
<1>1. ReportsInv => BothReportsCaution
  BY CautionFollows DEF ReportsInv
<1> QED BY <1>1, ReportsInvariance, PTL

(* Scrolling never runs past the end of a report, and at its end leaves    *)
(* out no row of a comparison, and of the results only as many as the      *)
(* wrapping of lines wider than the window added, at any size of the       *)
(* terminal and after any keys (tui/view.rs).                              *)
THEOREM ReportsReachable == ReportsSpec => []OnlyWrappingHidesRows
<1>1. ReportsInv => OnlyWrappingHidesRows
  BY ReachableFollows
<1> QED BY <1>1, ReportsInvariance, PTL

(* What a result says of the firmware is the machine's, whatever system it *)
(* booted and with whatever rights, and no other machine's (identity.rs).  *)
THEOREM ReportsIdentity == ReportsSpec => []IdentityFollowsTheMachine
<1>1. ReportsInv => IdentityFollowsTheMachine
  BY IdentityFollows DEF ReportsInv
<1> QED BY <1>1, ReportsInvariance, PTL
=============================================================================
