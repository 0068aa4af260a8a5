------------------------------ MODULE Machine ------------------------------
(***************************************************************************)
(* What a result file says of the machine: its power settings (power.rs),  *)
(* battery (battery.rs), drives (drives.rs), firmware (firmware.rs) and    *)
(* age (age.rs), gathered once per run (inventory.rs) while the user may   *)
(* plug and unplug it, and read again months later.                        *)
(*                                                                         *)
(* A field that may be absent is a sequence of at most one value.  Dates   *)
(* are months counted from year 0, as months_between does.                 *)
(***************************************************************************)
EXTENDS Integers, Sequences, FiniteSets, FiniteSetsExt, SequencesExt

CONSTANTS
  Machines,      (* machines: system, rights, firmware, drives, processor  *)
  Situations,    (* per machine: its power supplies, settings and pack     *)
  Outcomes,      (* what else a run puts into its file                     *)
  LastMonth,     (* bound on time                                          *)
  Word           (* u64 arithmetic wraps here                              *)

None == <<>>
Some(v) == <<v>>
Has(option, v) == option = Some(v)
Option(S) == {s \in Seq(S) : Len(s) <= 1}

(* A processor is launched before a machine is built with it, and a drive  *)
(* counts hours.                                                           *)
ASSUME MachineAssumption ==
  /\ LastMonth \in Nat
  /\ Word \in Nat \ {0}
  /\ \A m \in Machines :
       /\ m.now \in Nat /\ m.built \in Nat /\ m.launched \in Option(Nat)
       /\ m.launched # None => m.launched[1] <= m.built
       /\ m.drives \in Seq(Range(m.drives))
       /\ \A d \in Range(m.drives) :
            IF d.bus = "nvme" THEN d.log.hours \in Nat
            ELSE d.general.stats["hours"] \in Option([supported : BOOLEAN, valid : BOOLEAN, value : Nat])

(* A pack may discharge with mains on line; the kernel's two turbo files   *)
(* hold a digit.                                                           *)
ASSUME SituationsAssumption ==
  \A m \in Machines : \A p \in Situations[m] :
    /\ p.pack \in Seq(Range(p.pack))
    /\ m.system = "linux" =>
         {p.settings.no_turbo, p.settings.boost} \subseteq {None, Some("0"), Some("1")}

VARIABLES
  world,    (* the machine, its power situation and the month              *)
  battery,  (* battery::probe's cache                                      *)
  machine,  (* what a run has collected of the machine, before it measures *)
  file,     (* the result file, once written: what and when                *)
  asked,    (* history: the power situation the battery was asked in       *)
  seen      (* history: the world the settings were read in                *)

machineVars == <<world, battery, machine, file, asked, seen>>

(* -- Battery ----------------------------------------------------------- *)

HealthFromEnergy(full, design) ==
  IF full # None /\ design # None /\ full[1] > 0 /\ design[1] > 0
  THEN Some((100 * full[1]) \div design[1]) ELSE None

FromBattery(pack) ==
  [ state |-> pack.state, health |-> HealthFromEnergy(pack.full, pack.design),
    cycles |-> SelectSeq(pack.cycles, LAMBDA c : c > 0) ]

HealthVerdict(info) ==
  IF info.health = None THEN None
  ELSE Some(CASE info.health[1] >= 95 -> "as-new" [] info.health[1] >= 85 -> "healthy"
              [] info.health[1] >= 70 -> "worn"   [] info.health[1] >= 50 -> "degraded"
              [] OTHER -> "failing")

PowerNote(info) == info.state = "discharging"

(* None: the platform does not say.                                        *)
OnMains(info) ==
  IF info = None THEN Some(TRUE)
  ELSE CASE info[1].state = "discharging" -> Some(FALSE)
         [] info[1].state \in {"charging", "full"} -> Some(TRUE)
         [] OTHER -> None

(* Read from the system the first time only.                               *)
Probed == IF battery.read THEN battery
          ELSE [read |-> TRUE, info |-> IF world.power.pack = None THEN None
                                        ELSE Some(FromBattery(world.power.pack[1]))]

(* -- Power ------------------------------------------------------------- *)

NoPower == [ source |-> None, energy_saver |-> None, plan |-> None, plugged_in |-> None,
             on_battery |-> None, platform_profile |-> None, governor |-> None,
             energy_preference |-> None, turbo |-> None ]
NoMode == [power_mode |-> None, max_processor_pct |-> None, boost |-> None]

(* A mouse's battery is no system battery.                                 *)
LinuxSource(supplies) ==
  LET mains == {s \in supplies : s.kind = "Mains"}
      packs == {s \in supplies : s.kind = "Battery" /\ s.scope \in {"", "System"}}
  IN  IF \E s \in mains : s.online THEN Some("mains")
      ELSE IF packs # {} THEN Some("battery")
      ELSE IF mains # {} THEN Some("mains") ELSE None

LinuxTurbo(s) == IF s.no_turbo # None THEN Some(s.no_turbo[1] = "0")
                 ELSE IF s.boost # None THEN Some(s.boost[1] = "1") ELSE None

LinuxPower(p) ==
  [NoPower EXCEPT !.source = LinuxSource(p.supplies), !.turbo = LinuxTurbo(p.settings),
                  !.platform_profile = p.settings.profile, !.governor = p.settings.governor,
                  !.energy_preference = p.settings.preference]

PowerMode(overlay) ==
  CASE overlay \in {"", "nil", "better performance"} -> Some("balanced")
    [] overlay \in {"best power efficiency", "best performance"} -> Some(overlay)
    [] OTHER -> None

(* A stored overlay only counts under the Balanced plan.                   *)
Column(plan, raw) ==
  LET mode == [ power_mode |-> IF plan = "Balanced" THEN PowerMode(raw.overlay) ELSE None,
                max_processor_pct |-> raw.max, boost |-> raw.boost ]
  IN  IF mode = NoMode THEN None ELSE Some(mode)

WindowsPower(p) ==
  LET s == p.settings
  IN  [NoPower EXCEPT !.source = s.line, !.energy_saver = Some(s.saver), !.plan = Some(s.plan),
                      !.plugged_in = Column(s.plan, s.ac),
                      !.on_battery = IF p.pack # None THEN Column(s.plan, s.dc) ELSE None]

CollectPower(system, p) ==
  LET power == CASE system = "linux" -> LinuxPower(p) [] system = "windows" -> WindowsPower(p)
                 [] OTHER -> NoPower
  IN  IF power = NoPower THEN None ELSE Some(power)

OnBatteryNow(power) == Has(power.source, "battery")

(* Faulty variant: the plugged-in column, whatever the machine runs on.    *)
CurrentPlugged(power) == power.plugged_in

Current(power) == IF OnBatteryNow(power) THEN power.on_battery ELSE power.plugged_in

ColumnLimits(mode) ==
  {l \in {"maximum processor state", "boost disabled", "Best power efficiency mode"} :
     CASE l = "maximum processor state" -> mode.max_processor_pct # None /\ mode.max_processor_pct[1] < 100
       [] l = "boost disabled" -> Has(mode.boost, "disabled")
       [] OTHER -> Has(mode.power_mode, "best power efficiency")}

(* "powersave" is a limit only where no energy preference does its work.   *)
SettingLimits(power) ==
  (IF Current(power) = None THEN {} ELSE ColumnLimits(Current(power)[1]))
  \cup {l \in {"energy saver", "platform profile", "powersave governor", "energy preference", "turbo disabled"} :
          CASE l = "energy saver" -> Has(power.energy_saver, TRUE)
            [] l = "platform profile" -> \E saver \in {"low-power", "quiet", "cool"} : Has(power.platform_profile, saver)
            [] l = "powersave governor" -> Has(power.governor, "powersave") /\ power.energy_preference = None
            [] l = "energy preference" -> Has(power.energy_preference, "power")
            [] OTHER -> Has(power.turbo, FALSE)}

HeldBack(power) ==
  SettingLimits(power) \cup IF OnBatteryNow(power) THEN {"running on battery"} ELSE {}

(* -- Identity ---------------------------------------------------------- *)

NoIdentity == [machine_id |-> None, smbios_uuid |-> None, serial |-> None, asset_tag |-> None]

(* What makers leave in a field nobody filled in.                          *)
Meaningful(s) == IF s \in {"", "to be filled by o.e.m.", "00000000"} THEN None ELSE Some(s)

(* Up to the end marker or a malformed structure.                          *)
Structures(table) ==
  LET ends == {i \in DOMAIN table : table[i].kind = 127 \/ table[i].length < 4}
  IN  {i \in DOMAIN table : \A e \in ends : i < e}

(* System information (1) or enclosures (3) among some structures.         *)
OfKind(table, among, kind) == {i \in among : table[i].kind = kind}

(* All zeros or all ones is no identity.                                   *)
Unset(b) == (\A i \in DOMAIN b : b[i] = 0) \/ (\A i \in DOMAIN b : b[i] = 255)

(* Faulty variant: the bytes in the order of the table.                    *)
SmbiosUuidAsStored(b) == IF Unset(b) THEN None ELSE Some(b)

(* The first three fields of the table are little-endian.                  *)
FormatSmbiosUuid(b) ==
  IF Unset(b) THEN None
  ELSE Some(<<b[4], b[3], b[2], b[1], b[6], b[5], b[8], b[7]>> \o SubSeq(b, 9, Len(b)))

(* Of several structures of a type the last counts.                        *)
ParseSmbios(table) ==
  LET systems    == OfKind(table, Structures(table), 1)
      long       == {i \in systems : table[i].length >= 24}
      enclosures == OfKind(table, Structures(table), 3)
  IN  [NoIdentity EXCEPT
         !.smbios_uuid = IF long = {} THEN None ELSE FormatSmbiosUuid(table[Max(long)].uuid),
         !.serial      = IF systems = {} THEN None ELSE Meaningful(table[Max(systems)].string),
         !.asset_tag   = IF enclosures = {} THEN None ELSE Meaningful(table[Max(enclosures)].string)]

(* The Linux kernel's reading of the same table: the first structure       *)
(* counts, the first three fields are swapped, an unset one has no file.   *)
Kernel(table) ==
  LET systems    == OfKind(table, DOMAIN table, 1)
      enclosures == OfKind(table, DOMAIN table, 3)
      system     == table[Min(systems)]
      swapped(b) == [i \in DOMAIN b |-> b[CASE i <= 4 -> 5 - i [] i \in {5, 7} -> i + 1
                                            [] i \in {6, 8} -> i - 1 [] OTHER -> i]]
  IN  [ uuid   |-> IF systems = {} \/ system.length < 24 \/ Unset(system.uuid) THEN None
                   ELSE Some(swapped(system.uuid)),
        serial |-> IF systems = {} THEN "" ELSE system.string,
        asset  |-> IF enclosures = {} THEN "" ELSE table[Min(enclosures)].string ]

(* A firmware describes one system, and no two machines have a number in   *)
(* common that somebody filled in.                                         *)
ASSUME FirmwareAssumption ==
  LET systems(m) == OfKind(m.smbios, DOMAIN m.smbios, 1)
  IN  \A m \in Machines :
        /\ {"system", "root", "machine_id", "smbios"} \subseteq DOMAIN m /\ m.root \in BOOLEAN
        /\ m.smbios \in Seq(Range(m.smbios))
        /\ \A i, j \in systems(m) : i = j
        /\ \A i \in systems(m) :
             /\ m.smbios[i].length \in Nat
             /\ m.smbios[i].length >= 24 => m.smbios[i].uuid \in Seq(0..255) /\ Len(m.smbios[i].uuid) >= 8
        /\ \A n \in Machines \ {m} : \A i \in systems(m), j \in systems(n) :
             /\ m.smbios[i].uuid = n.smbios[j].uuid => Unset(m.smbios[i].uuid)
             /\ m.smbios[i].string = n.smbios[j].string => Meaningful(m.smbios[i].string) = None

(* meaningful over a UUID's text, which is no placeholder but might be one *)
(* character repeated; a dash stands behind the first four bytes.          *)
Dash == 256
MeaningfulUuid(b) ==
  LET text == SubSeq(b, 1, 4) \o <<Dash>> \o SubSeq(b, 5, Len(b))
  IN  IF \A i \in DOMAIN text : text[i] = text[1] THEN None ELSE Some(b)

(* The UUID and the serial are for root's eyes only.                       *)
LinuxIdentity(m) ==
  [ machine_id  |-> Meaningful(m.machine_id),
    smbios_uuid |-> IF m.root /\ Kernel(m.smbios).uuid # None
                    THEN MeaningfulUuid(Kernel(m.smbios).uuid[1]) ELSE None,
    serial      |-> IF m.root THEN Meaningful(Kernel(m.smbios).serial) ELSE None,
    asset_tag   |-> Meaningful(Kernel(m.smbios).asset) ]

WindowsIdentity(m) == [ParseSmbios(m.smbios) EXCEPT !.machine_id = Meaningful(m.machine_id)]

CollectIdentity(m) == CASE m.system = "linux" -> LinuxIdentity(m)
                        [] m.system = "windows" -> WindowsIdentity(m) [] OTHER -> NoIdentity

(* -- Drives and firmware ----------------------------------------------- *)

Drive(hours, cycles, used, warned) ==
  Some([hours |-> hours, cycles |-> cycles, used |-> used, warned |-> warned])

ParseNvmeHealth(log) ==
  Drive(log.hours, Some(log.cycles), Some(log.used), log.warning # 0 \/ log.errors # 0)

(* A page of zeros, or another page than asked for, is no page.            *)
AtaStatsPage(page, number) == IF page.revision # 0 /\ page.number = number THEN Some(page) ELSE None
AtaStat(page, field) ==
  LET stat == page.stats[field]
  IN  IF stat # None /\ stat[1].supported /\ stat[1].valid THEN stat ELSE None
StatValue(stat) == IF stat = None THEN None ELSE Some(stat[1].value)

ParseAtaStats(general, solid) ==
  LET page == AtaStatsPage(general, 1)
      wear == IF solid = None THEN None ELSE AtaStatsPage(solid[1], 7)
  IN  IF page = None \/ AtaStat(page[1], "hours") = None THEN None
      ELSE Drive(AtaStat(page[1], "hours")[1].value, StatValue(AtaStat(page[1], "cycles")),
                 IF wear = None THEN None ELSE StatValue(AtaStat(wear[1], "used")), FALSE)

ReadDrive(d) == IF d.bus = "nvme" THEN ParseNvmeHealth(d.log) ELSE ParseAtaStats(d.general, d.solid)

(* NVMe drives come first on Linux; one that is refused, or silent, is     *)
(* left out, so the next takes its place.                                  *)
LinuxDrives(m) ==
  LET read(Wanted(_)) == FlattenSeq([i \in DOMAIN m.drives |->
                                       IF Wanted(m.drives[i]) THEN ReadDrive(m.drives[i]) ELSE None])
  IN  IF m.root THEN read(LAMBDA d : d.bus = "nvme") \o read(LAMBDA d : d.bus = "sata" /\ ~d.removable)
      ELSE <<>>

WindowsDrives(m) ==
  FlattenSeq([i \in DOMAIN m.drives |->
                IF m.drives[i].bus \in {"nvme", "sata"} /\ (m.root \/ m.drives[i].open)
                THEN ReadDrive(m.drives[i]) ELSE None])

CollectDrives(m) == CASE m.system = "linux" -> LinuxDrives(m)
                      [] m.system = "windows" -> WindowsDrives(m) [] OTHER -> <<>>

(* mm/dd/yyyy, or mm/dd/yy of before 2080.                                 *)
IsoDate(d) ==
  LET year == CASE d.digits = 4 -> d.year [] d.digits = 2 /\ d.year >= 80 -> 1900 + d.year
                [] d.digits = 2 /\ d.year < 80 -> 2000 + d.year [] OTHER -> 0
  IN  IF d.month \in 1..12 /\ d.day \in 1..31 /\ year >= 1980 THEN Some(12 * year + d.month) ELSE None

CollectFirmware(m) == IF m.bios = None THEN None ELSE IsoDate(m.bios[1])

(* -- Age --------------------------------------------------------------- *)

AsShippedMonths == 12
UndercountMinutes == 15
MonthsBetween(a, b) == IF a # None /\ b # None /\ b[1] >= a[1] THEN Some(b[1] - a[1]) ELSE None
HoursToMonths(hours) == hours \div 730

Undercounted(drive) ==
  IF drive.cycles = None \/ Has(drive.cycles, 0) THEN None
  ELSE Some((drive.hours * 60) % Word < (drive.cycles[1] * UndercountMinutes) % Word)

Assess(inv, month) ==
  LET gap == MonthsBetween(inv.launched, inv.firmware)
      age == [ launched |-> inv.launched,
               max_age  |-> MonthsBetween(inv.launched, Some(month)),
               firmware |-> inv.firmware,
               gap      |-> gap,
               hours    |-> IF inv.drives = <<>> THEN None ELSE Some(inv.drives[1].hours),
               under    |-> IF inv.drives = <<>> THEN None ELSE Undercounted(inv.drives[1]),
               cycles   |-> IF inv.battery = None THEN None ELSE inv.battery[1].cycles ]
  IN  IF \A f \in DOMAIN age : age[f] = None THEN None ELSE Some(age)

(* Faulty variant: reckoned anew every time the file is shown.             *)
ForMachineAnew(inv, timestamp) == Assess(inv, timestamp)

(* The stored estimate; a file without one has it derived.                 *)
ForMachine(inv, timestamp) == IF inv.age # None THEN inv.age ELSE Assess(inv, timestamp)

FirmwareNote(age) ==
  IF age.gap = None THEN None
  ELSE Some(IF age.gap[1] <= AsShippedMonths THEN "as shipped" ELSE "updated")

UsageNote(age) ==
  IF Has(age.under, TRUE) THEN Some("undercounted")
  ELSE IF age.hours # None /\ age.max_age # None /\ HoursToMonths(age.hours[1]) > age.max_age[1] + 1
       THEN Some("older than the processor") ELSE None

(* -- One run, and its file --------------------------------------------- *)

(* Age comes last: it reads the rest.                                      *)
Collected(w, info) ==
  LET inv == [ battery |-> info, power |-> CollectPower(w.machine.system, w.power),
               drives |-> CollectDrives(w.machine), firmware |-> CollectFirmware(w.machine),
               launched |-> w.machine.launched, age |-> None,
               identity |-> CollectIdentity(w.machine) ]
  IN  [inv EXCEPT !.age = Assess(inv, w.month)]

(* At any time: before the run, between the two readings, and while it     *)
(* measures, when nothing looks any more.                                  *)
PowerChanges(situation) ==
  /\ file = None
  /\ situation # world.power
  /\ world' = [world EXCEPT !.power = situation]
  /\ UNCHANGED <<battery, machine, file, asked, seen>>

MonthPasses ==
  /\ world.month < LastMonth
  /\ world' = [world EXCEPT !.month = @ + 1]
  /\ UNCHANGED <<battery, machine, file, asked, seen>>

Probe ==
  /\ ~battery.read
  /\ battery' = Probed
  /\ asked' = world.power
  /\ UNCHANGED <<world, machine, file, seen>>

(* --not-on-battery lets the run go on; a jitter may follow.               *)
GateAsks ==
  /\ ~Has(OnMains(Probed.info), FALSE)
  /\ Probe

(* The collection asks the battery, if no gate did, then the settings.     *)
CollectBattery == Probe

Collect ==
  /\ battery.read
  /\ machine = None
  /\ machine' = Some(Collected(world, battery.info))
  /\ seen' = world
  /\ UNCHANGED <<world, battery, file, asked>>

(* The benchmarks and the soak lie between the collection and this.        *)
WriteFile(outcome) ==
  /\ machine # None
  /\ file = None
  /\ file' = Some([outcome EXCEPT !.machine = machine[1], !.timestamp = world.month])
  /\ UNCHANGED <<world, battery, machine, asked, seen>>

(* score -o over the file: the machine block stays, the timestamp is new.  *)
RescoreFile ==
  /\ file # None
  /\ file[1].timestamp # world.month
  /\ file' = Some([file[1] EXCEPT !.timestamp = world.month])
  /\ UNCHANGED <<world, battery, machine, asked, seen>>

MachineInit ==
  /\ \E m \in Machines : \E p \in Situations[m] :
       world = [machine |-> m, power |-> p, month |-> m.now]
  /\ battery = [read |-> FALSE, info |-> None]
  /\ machine = None
  /\ file = None
  /\ asked = world.power
  /\ seen = world

MachineNext ==
  \/ \E p \in Situations[world.machine] : PowerChanges(p)
  \/ MonthPasses
  \/ GateAsks
  \/ CollectBattery
  \/ Collect
  \/ \E outcome \in Outcomes : WriteFile(outcome)
  \/ RescoreFile

(* -- Property ---------------------------------------------------------- *)

(* What the firmware says of a machine follows it: whichever system it     *)
(* boots and with whatever rights, two readings never contradict each      *)
(* other, rights only add fields, and what the maker left blank never      *)
(* passes two machines off as one.                                         *)
IdentityFollowsTheMachine ==
  \A f \in Range(file) :
    LET id        == f.machine.identity
        firmware  == {"smbios_uuid", "serial"}
        booted(system, root) == CollectIdentity([seen.machine EXCEPT !.system = system, !.root = root])
    IN  /\ \A system \in {"linux", "windows"}, root \in BOOLEAN, field \in firmware :
             LET other == booted(system, root)[field]
             IN  id[field] # None /\ other # None => id[field] = other
        /\ \A field \in DOMAIN id : id[field] # None => booted(seen.machine.system, TRUE)[field] = id[field]
        /\ \A m \in Machines \ {seen.machine}, field \in firmware :
             id[field] # None => CollectIdentity([m EXCEPT !.root = TRUE])[field] # id[field]
=============================================================================
