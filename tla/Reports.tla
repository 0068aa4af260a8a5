------------------------------ MODULE Reports ------------------------------
(***************************************************************************)
(* What a person is shown: the report a run prints (output/mod.rs), the    *)
(* results screen (tui/view.rs), the comparison table in both forms        *)
(* (output/mod.rs, tui/compare.rs), and the scrolling of the two screens.  *)
(* A line is its kind and what it is about; colour and wording are not     *)
(* modelled, and a text is the lengths of its words.                       *)
(***************************************************************************)
EXTENDS Machine

CONSTANTS
  Comparisons,   (* comparisons shown: machines, warnings, components      *)
  Sizes,         (* terminal sizes                                         *)
  ScrollMax,     (* u16::MAX                                               *)
  Wide,          (* how wide the lines of some kinds are; others are short *)
  Tallest        (* bound on the rows a line is wrapped to                 *)

ASSUME ReportsAssumption ==
  /\ ScrollMax \in Nat
  /\ Tallest \in Nat \ {0, 1}
  /\ \A kind \in DOMAIN Wide : Wide[kind] \in Nat
  /\ Sizes \subseteq [width : Nat, height : Nat]
  /\ Outcomes \subseteq
       [ machine : {None}, timestamp : {0}, why : Nat, notes : Nat, link : BOOLEAN,
         telemetry : Option([limited : BOOLEAN]), soak : Option([onset : BOOLEAN, holds : BOOLEAN]),
         components : Seq([ id : STRING, graded : BOOLEAN, subtests : Nat,
                            informational : Nat, notes : Nat ]),
         model_ref : Seq([preset : BOOLEAN, component : STRING, samples : Nat]) ]
  /\ \A c \in Comparisons :
       /\ c.machines \in Nat /\ c.warnings \in Seq(Seq(Nat)) /\ c.summary \in Seq(Nat)
       /\ c.components \in Seq(Range(c.components)) /\ c.soak \in Option(Range(c.soak))
       /\ \A i \in DOMAIN c.components : c.components[i].subtests \in Seq(Range(c.components[i].subtests))

VARIABLES
  screen,   (* what is open: nothing, the results, a comparison            *)
  size,     (* the terminal's size                                         *)
  scroll,   (* the first line shown, as the keys have left it              *)
  drawn     (* the frame on the terminal, or none                          *)

viewVars == <<screen, size, scroll, drawn>>
reportVars == <<world, battery, machine, file, asked, seen, screen, size, scroll, drawn>>

Line(kind, about) == <<kind, about>>
Blank == Line("blank", "")
When(condition, lines) == IF condition THEN lines ELSE <<>>
Each(seq, F(_)) == FlattenSeq([i \in DOMAIN seq |-> F(seq[i])])
Repeat(n, line) == [i \in 1..n |-> line]
Held(power) == When(HeldBack(power) # {}, <<Line("held back", HeldBack(power))>>)
AgeNotes(age) == Each(FirmwareNote(age) \o UsageNote(age), LAMBDA n : <<Line("age note", n)>>)
AnyGraded(f) == \E c \in Range(f.components) : c.graded
Ungraded(f) == When(\E c \in Range(f.components) : ~c.graded, <<Line("ungraded", "")>>)

(* -- The run report ---------------------------------------------------- *)

(* "vs typical hardware".                                                  *)
PrintModelRef(refs) ==
  <<Blank, Line("model", "")>> \o
  Each(refs, LAMBDA r : <<Line("model", r.component), Line("deltas", r.component)>>
                        \o When(r.preset, <<Line("preset", r.component)>>)
                        \o When(r.samples <= 1, <<Line("single sample", r.component)>>))

PrintBattery(info, note) ==
  <<Blank, Line("battery", ""), Line("charge", info.state), Line("health", info.health)>>
  \o When(info.cycles # None, <<Line("cycles", info.cycles)>>)
  \o Each(HealthVerdict(info), LAMBDA v : <<Line("verdict", v)>>)
  \o When(PowerNote(info) /\ note, <<Line("power note", "")>>)

PrintPower(power) ==
  <<Blank, Line("power", "")>>
  \o When(power.plugged_in # None, <<Line("column", "plugged in")>>)
  \o When(power.on_battery # None, <<Line("column", "on battery")>>)
  \o Held(power)

PrintAge(age) ==
  <<Blank, Line("age", "")>>
  \o When(age.launched # None, <<Line("platform", age.launched)>>)
  \o When(age.firmware # None, <<Line("firmware", age.firmware)>>)
  \o When(age.hours # None \/ age.cycles # None, <<Line("use", age.hours)>>)
  \o When(age.max_age # None, <<Line("ceiling", age.max_age)>>)
  \o AgeNotes(age)

PrintComponent(c) ==
  <<Blank, Line("component", c.id)>> \o Repeat(c.subtests, Line("subtest", c.id))
  \o When(c.informational > 0, <<Line("informational", c.id)>>)
  \o Repeat(c.informational, Line("info", c.id))
  \o Repeat(c.notes, Line("component note", c.id))

VerdictLine(s) == IF s.holds THEN "holds" ELSE IF s.onset THEN "throttles" ELSE "drifts"

PrintSoak(s) == <<Line("soak", ""), Line("onset", s.onset), Line("soak verdict", VerdictLine(s))>>

(* What loadbearer run prints.                                             *)
PrintRun(f) ==
  LET age == ForMachine(f.machine, f.timestamp)
  IN  <<Line("machine", ""), Line("profile", "")>>
      \o Each(f.telemetry, LAMBDA t : <<Line("telemetry", t.limited)>>)
      \o Each(f.components, PrintComponent)
      \o When(f.notes > 0, <<Blank, Line("skipped", "")>> \o Repeat(f.notes, Line("skipped", "")))
      \o <<Line("overall", AnyGraded(f)), Line("why", "")>> \o Repeat(f.why, Line("why", ""))
      \o When(AnyGraded(f), <<Line("baseline", "")>>) \o Ungraded(f)
      \o When(f.model_ref # <<>>,
              PrintModelRef(f.model_ref)
              \o When(\E t \in Range(f.telemetry) : t.limited, <<Line("clocks fell", "")>>))
      \o Each(f.machine.battery, LAMBDA b : PrintBattery(b, f.machine.power = None))
      \o Each(f.machine.power, PrintPower)
      \o Each(age, PrintAge)
      \o When(f.link, <<Line("link", "")>>)
      \o Each(f.soak, PrintSoak)

(* What loadbearer info prints.                                            *)
PrintInventory(inv, month) ==
  <<Line("host", ""), Line("cpu", ""), Line("memory", "")>>
  \o Each(inv.firmware, LAMBDA d : <<Line("firmware", d)>>)
  \o Each(inv.battery, LAMBDA b : <<Line("battery", ""), Line("charge", b.state), Line("health", b.health)>>
                                   \o When(b.cycles # None, <<Line("cycles", b.cycles)>>))
  \o Each(inv.power, LAMBDA p : <<Line("power", "")>>
            \o When(p.source # None, <<Line("running on", p.source)>>)
            \o When(p.plugged_in # None, <<Line("column", "plugged in")>>)
            \o When(p.on_battery # None, <<Line("column", "on battery")>>)
            \o Held(p))
  \o Each(inv.drives, LAMBDA d : <<Line("drive", d.hours), Line("powered", d.cycles)>>
            \o When(d.used # None, <<Line("wear", d.used)>>)
            \o When(d.warned, <<Line("drive warnings", d.hours)>>))
  \o Each(ForMachine(inv, month), LAMBDA a : <<Line("age", "")>>
            \o When(a.launched # None, <<Line("platform", a.launched)>>)
            \o When(a.max_age # None, <<Line("ceiling", a.max_age)>>)
            \o When(a.hours # None \/ a.cycles # None, <<Line("use", a.hours)>>)
            \o AgeNotes(a))

(* -- The results screen ------------------------------------------------ *)

ScreenComponent(c) ==
  <<Line("component", c.id)>> \o Repeat(c.subtests, Line("subtest", c.id))
  \o Repeat(c.informational, Line("info", c.id))
  \o Repeat(c.notes, Line("component note", c.id)) \o <<Blank>>

ScreenModelRef(refs) ==
  <<Blank, Line("model", "")>> \o
  Each(refs, LAMBDA r : <<Line("model", r.component), Line("deltas", r.component)>>
                        \o When(r.preset, <<Line("preset", r.component)>>))

(* Faulty variant: the battery's note beside the power block's.            *)
ScreenBatteryTwice(info, power) ==
  <<Blank, Line("battery", ""), Line("charge", info.state), Line("health", info.health)>>
  \o Each(HealthVerdict(info), LAMBDA v : <<Line("verdict", v)>>)
  \o When(PowerNote(info), <<Line("power note", "")>>)

ScreenBattery(info, power) ==
  <<Blank, Line("battery", ""), Line("charge", info.state), Line("health", info.health)>>
  \o Each(HealthVerdict(info), LAMBDA v : <<Line("verdict", v)>>)
  \o When(PowerNote(info) /\ power = None, <<Line("power note", "")>>)

ScreenPower(power) ==
  <<Blank, Line("power", "")>>
  \o When(power.plugged_in # None, <<Line("column", "plugged in")>>)
  \o When(power.on_battery # None, <<Line("column", "on battery")>>)
  \o Held(power)

ScreenAge(age) ==
  <<Blank, Line("age", "")>>
  \o When(age.launched # None, <<Line("platform", age.launched)>>)
  \o When(age.firmware # None, <<Line("firmware", age.firmware)>>)
  \o When(age.hours # None \/ age.cycles # None, <<Line("use", age.hours)>>)
  \o When(age.max_age # None, <<Line("ceiling", age.max_age)>>)
  \o AgeNotes(age)

(* The lines of draw_results.                                              *)
ScreenRun(f) ==
  LET age == ForMachine(f.machine, f.timestamp)
  IN  <<Line("machine", ""), Line("profile", "")>>
      \o Each(f.telemetry, LAMBDA t : <<Line("telemetry", t.limited)>>)
      \o <<Blank>>
      \o Each(f.components, ScreenComponent)
      \o <<Line("overall", AnyGraded(f)), Blank, Line("why", "")>> \o Repeat(f.why, Line("why", ""))
      \o Ungraded(f)
      \o When(f.model_ref # <<>>, ScreenModelRef(f.model_ref))
      \o Each(f.machine.battery, LAMBDA b : ScreenBattery(b, f.machine.power))
      \o Each(f.machine.power, ScreenPower)
      \o Each(age, ScreenAge)
      \o Each(f.soak, LAMBDA s : <<Blank, Line("soak", ""), Line("peak", ""), Line("onset", s.onset)>>)

(* -- The comparison ---------------------------------------------------- *)

(* The winner, unless the best two are within 2 % of each other.           *)
WinnerTag(rel, best) ==
  LET sorted == SortSeq(rel, >)
  IN  IF Len(rel) < 2 \/ sorted[2] <= 0 \/ 100 * (sorted[1] - sorted[2]) < 2 * sorted[2]
      THEN "=" ELSE best

Row(of, label, rel, best) == [of |-> of, label |-> label, tag |-> WinnerTag(rel, best)]

PrintTable(c) ==
  Each(c.components, LAMBDA comp :
         [i \in DOMAIN comp.subtests |-> Row(comp.id, comp.subtests[i].id, comp.subtests[i].rel, comp.subtests[i].best)]
         \o <<Row(comp.id, "total", comp.rel, comp.best)>>)
  \o <<Row("OVERALL", "", c.rel, c.best)>>
  \o Each(c.soak, LAMBDA sk : <<[of |-> "soak", label |-> "steady", tag |-> sk.best_sustained],
                                [of |-> "soak", label |-> "retained", tag |-> sk.best_retention]>>)

(* The screen asks the 2 % of the steady rate too.                         *)
ScreenTable(c) ==
  Each(c.components, LAMBDA comp :
         [i \in DOMAIN comp.subtests |-> Row(comp.id, comp.subtests[i].id, comp.subtests[i].rel, comp.subtests[i].best)]
         \o <<Row(comp.id, "total", comp.rel, comp.best)>>)
  \o <<Row("OVERALL", "", c.rel, c.best)>>
  \o Each(c.soak, LAMBDA sk : <<Row("soak", "steady", sk.rel_steady, sk.best_sustained),
                                [of |-> "soak", label |-> "retained", tag |-> sk.best_retention]>>)

MaxOf(a, b) == IF a > b THEN a ELSE b
MinOf(a, b) == IF a < b THEN a ELSE b

(* A word longer than the line, cut to its width.                          *)
Chunks(word, width) ==
  IF word <= width THEN <<word>>
  ELSE Repeat(word \div width, width) \o When(word % width > 0, <<word % width>>)

(* Greedy word-wrap: the lengths of the lines of a text.                   *)
WrapWords(words, room) ==
  LET width == MaxOf(room, 8)
      put(word, lines) ==
        IF lines # <<>> /\ Last(lines) + 1 + word <= width
        THEN [lines EXCEPT ![Len(lines)] = @ + 1 + word]
        ELSE Append(lines, word)
      wrapped == FoldLeft(LAMBDA lines, word : put(word, lines), <<>>,
                          Each(words, LAMBDA w : Chunks(w, width)))
  IN  IF wrapped = <<>> THEN <<0>> ELSE wrapped

Texts(c, room) ==
  Each(c.warnings, LAMBDA w : [i \in DOMAIN WrapWords(w, room - 4) |-> 4 + WrapWords(w, room - 4)[i]])
  \o [i \in DOMAIN WrapWords(c.summary, room - 11) |-> 11 + WrapWords(c.summary, room - 11)[i]]

(* The lines of build_lines.                                               *)
BuildLines(c, room) ==
  1 + 2 * c.machines + (IF c.warnings = <<>> THEN 0 ELSE 1) + Len(Texts(c, room)) + 2
  + FoldLeft(LAMBDA sum, comp : sum + 4 + Len(comp.subtests), 0, c.components)
  + 3 + (IF c.soak = None THEN 0 ELSE 4) + 1

(* -- The screens, scrolled --------------------------------------------- *)

Closed == [kind |-> "closed"]
ResultsScreen == [kind |-> "results"]
ComparisonScreen(c) == [kind |-> "comparison", comparison |-> c]
NoFrame == [top |-> 0, view |-> 0, lines |-> 0, rows |-> 0]

Inner(n) == n - 2
TooSmall(s) == IF s.kind = "results" THEN size.width < 44 \/ size.height < 12
               ELSE size.width < 40 \/ size.height < 8
LinesOf(s) == IF s.kind = "results" THEN Len(ScreenRun(file[1]))
              ELSE BuildLines(s.comparison, Inner(size.width))

(* A subtest's row has fixed columns and one for its name, which takes     *)
(* what is left of the window, within bounds.                              *)
NameWidth == MinOf(MaxOf(Inner(size.width) - 46, 22), 40)
WidthOf(line) ==
  CASE line[1] = "subtest" -> 46 + NameWidth
    [] line[1] = "info" -> 39 + NameWidth
    [] line[1] \in DOMAIN Wide -> Wide[line[1]]
    [] OTHER -> 0
TooWide(lines) == {i \in DOMAIN lines : WidthOf(lines[i]) > Inner(size.width)}

(* The results screen wraps, the comparison cuts.                          *)
Wrapped(s) == IF s.kind = "results" THEN Cardinality(TooWide(ScreenRun(file[1]))) ELSE 0

(* The rows left by the borders and the hint line.                         *)
TextRows == Inner(size.height) - 1

(* Faulty variant: the frame's height, borders and hint included.          *)
ViewportOfFrame == size.height

Viewport == TextRows

MaxScroll(lines) == MaxOf(lines - Viewport, 0) % (ScrollMax + 1)

(* A key moves the first line: by 1, by 10, to an end.  The comparison     *)
(* stops at u16::MAX; the results screen computes in i32 and truncates.    *)
Scrolled(s, delta) ==
  IF s.kind = "comparison" THEN MinOf(MaxOf(scroll + delta, 0), ScrollMax)
  ELSE MaxOf(scroll + delta, 0) % (ScrollMax + 1)

Screens == {ComparisonScreen(c) : c \in Comparisons}
           \cup (IF file = None THEN {} ELSE {ResultsScreen})

Show(s) ==
  /\ screen = Closed
  /\ screen' = s
  /\ UNCHANGED <<world, battery, machine, file, asked, seen, size, scroll, drawn>>

(* Drawing is where the scroll is clamped, if there is room to draw at     *)
(* all: by the lines, though the widget wraps them and scrolls by rows.    *)
DrawScreen ==
  /\ screen # Closed
  /\ drawn = NoFrame
  /\ IF TooSmall(screen)
     THEN drawn' = [NoFrame EXCEPT !.top = -1] /\ UNCHANGED scroll
     ELSE LET lines == LinesOf(screen)
          IN  /\ scroll' = MinOf(scroll, MaxScroll(lines))
              /\ \E more \in Wrapped(screen)..(Tallest - 1) * Wrapped(screen) :
                   drawn' = [top |-> scroll', view |-> TextRows, lines |-> lines, rows |-> lines + more]
  /\ UNCHANGED <<world, battery, machine, file, asked, seen, screen, size>>

Key(delta) ==
  /\ drawn # NoFrame
  /\ scroll' = IF delta = "home" THEN 0 ELSE IF delta = "end" THEN ScrollMax
               ELSE Scrolled(screen, (CASE delta = "up" -> -1 [] delta = "down" -> 1
                                        [] delta = "page up" -> -10 [] OTHER -> 10))
  /\ drawn' = NoFrame
  /\ UNCHANGED <<world, battery, machine, file, asked, seen, screen, size>>

Resize(s) ==
  /\ drawn # NoFrame
  /\ size # s
  /\ size' = s
  /\ drawn' = NoFrame
  /\ UNCHANGED <<world, battery, machine, file, asked, seen, screen, scroll>>

Keys == {"up", "down", "page up", "page down", "home", "end"}

ReportsInit ==
  /\ MachineInit
  /\ screen = Closed
  /\ size \in Sizes
  /\ scroll = 0
  /\ drawn = NoFrame

ReportsNext ==
  \/ screen = Closed /\ MachineNext /\ UNCHANGED viewVars
  \/ \E s \in Screens : Show(s)
  \/ DrawScreen
  \/ \E delta \in Keys : Key(delta)
  \/ \E s \in Sizes : Resize(s)

ReportsSpec == ReportsInit /\ [][ReportsNext]_reportVars

(* -- Properties -------------------------------------------------------- *)

(* What was in force when the run read its settings.                       *)
InForce(l) ==
  LET p == seen.power
      s == p.settings
      raw == IF Has(s.line, "battery") THEN s.dc ELSE s.ac
  IN  IF l = "running on battery"
      THEN IF seen.machine.system = "windows" THEN Has(s.line, "battery")
           ELSE \A supply \in p.supplies : supply.kind = "Mains" => ~supply.online
      ELSE CASE l = "maximum processor state" -> raw.max # None /\ raw.max[1] < 100
             [] l = "boost disabled" -> Has(raw.boost, "disabled")
             [] l = "Best power efficiency mode" -> s.plan = "Balanced" /\ raw.overlay = "best power efficiency"
             [] l = "energy saver" -> s.saver
             [] l = "platform profile" -> s.profile # Some("balanced")
             [] l = "powersave governor" -> Has(s.governor, "powersave")
             [] l = "energy preference" -> Has(s.preference, "power")
             [] OTHER -> Has(s.no_turbo, "1") \/ Has(s.boost, "0")

(* A report blames settings that were in force when the run read them,     *)
(* before measuring, whatever changed since: not the column of the other   *)
(* power source, and no overlay left behind by another plan.  Where the    *)
(* battery's note stands for them, the pack was discharging when it was    *)
(* first asked, perhaps by a gate long before.                             *)
BlamesWhatWasInForce ==
  \A f \in Range(file) :
    \A line \in Range(PrintRun(f)) \cup Range(ScreenRun(f)) :
      /\ line[1] = "held back" => \A l \in line[2] : InForce(l)
      /\ line[1] = "power note" => \E pack \in Range(asked.pack) : pack.state = "discharging"

(* However late a file is shown or scored again, the age it states is that *)
(* of the month it was measured in: the ceiling is never below the age the *)
(* machine had, and no two readings of the file differ.                    *)
AgeIsOfTheRun ==
  \A f \in Range(file) :
    f.machine.age # None =>
      LET shown == ForMachine(f.machine, f.timestamp)[1]
      IN  /\ shown.max_age # None =>
               shown.max_age[1] \in (seen.month - seen.machine.built)..(seen.month - seen.machine.launched[1])
          /\ UsageNote(shown) = Some("older than the processor") =>
               f.machine.drives[1].hours > 730 * (seen.month - seen.machine.built)
          /\ \A later \in seen.month..LastMonth : ForMachine(f.machine, later) = Some(shown)

(* What only the printed report says, and only info.                       *)
PrintedOnly == {"skipped", "single sample", "clocks fell", "soak verdict"}
InfoOnly == {"drive warnings"}

Cautions(lines) ==
  {l \in Range(lines) :
     l[1] \in PrintedOnly \cup InfoOnly \cup
       {"telemetry", "component note", "ungraded", "preset", "power note",
        "held back", "age note", "verdict", "ceiling", "onset"}}

(* The results screen and the printed report caution about the same        *)
(* things, but for four the screen leaves out, and of those it does show   *)
(* that the clocks fell and that the soak throttled, in another line.      *)
(* The inventory of info cautions about the same settings and the same     *)
(* age, and alone about its drives.  The two comparison tables name the    *)
(* same winners (but for the steady rate, where only the screen asks for   *)
(* 2 %).                                                                   *)
BothReportsCaution ==
  /\ \A f \in Range(file) :
       /\ {l \in Cautions(PrintRun(f)) : l[1] \notin PrintedOnly} = Cautions(ScreenRun(f))
       /\ Line("clocks fell", "") \in Range(PrintRun(f)) => Line("telemetry", TRUE) \in Range(ScreenRun(f))
       /\ Line("soak verdict", "throttles") \in Range(PrintRun(f)) => Line("onset", TRUE) \in Range(ScreenRun(f))
       /\ {l \in Cautions(PrintInventory(f.machine, f.timestamp)) : l[1] \notin InfoOnly} =
            {l \in Cautions(PrintRun(f)) : l[1] \in {"held back", "age note", "ceiling"}}
  /\ screen.kind = "comparison" =>
       LET printed == PrintTable(screen.comparison)
           shown   == ScreenTable(screen.comparison)
       IN  /\ Len(printed) = Len(shown)
           /\ \A i \in DOMAIN printed : \/ {printed[i].label, shown[i].label} = {"steady"}
                                      \/ printed[i] = shown[i]

(* From any scroll the keys left and after any resize, a drawn frame is    *)
(* full or shows all there is, and scrolled to its end (of a report that   *)
(* u16 can scroll) it has shown every row of the comparison, and of the    *)
(* results in a window as wide as their lines; in a narrower one the last  *)
(* rows, as many as wrapping added and no more, stay out of reach.  What   *)
(* the comparison wraps itself fits.                                       *)
OnlyWrappingHidesRows ==
  drawn.lines > 0 =>
    /\ drawn.top + drawn.view <= MaxOf(drawn.lines, drawn.view)
    /\ drawn.top = MaxScroll(drawn.lines) /\ drawn.lines - drawn.view <= ScrollMax =>
         LET hidden == drawn.rows - (drawn.top + drawn.view)
         IN  /\ hidden <= drawn.rows - drawn.lines
             /\ screen.kind = "results" => \/ hidden <= 0
                                           \/ \E line \in Range(ScreenRun(file[1])) : WidthOf(line) > Inner(size.width)
             /\ screen.kind = "comparison" => hidden <= 0
    /\ screen.kind = "comparison" =>
         \A text \in Range(Texts(screen.comparison, Inner(size.width))) : text <= Inner(size.width)
=============================================================================
