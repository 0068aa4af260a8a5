------------------------------ MODULE MCParts ------------------------------
(* The parts of the program that share no state with each other, one at a  *)
(* time: a behaviour is one of the part named by part, while the others    *)
(* stay in an initial state of theirs.  What a file comes to say is        *)
(* followed in "machine", with no screen open; the screens in "screens",   *)
(* for a file written before anything about the machine changes.           *)
EXTENDS Results, Soak, MemScan, Reports, DiskMode

CONSTANT Parts   (* the parts looked at                                    *)

VARIABLE part

partVars == <<part, resultVars, soakVars, scanVars, reportVars, diskVars>>

Nobody == [p \in Pids |-> Gone]
OneMachine == CHOOSE m \in Machines : TRUE
AnyPlatform == CHOOSE p \in Platforms : TRUE
AnySize == CHOOSE s \in Sizes : TRUE

PartsInit ==
  /\ part \in Parts
  /\ \/ part = "mem"
     \/ part # "mem" /\ procs = Nobody /\ source = "pss"
  /\ part = "screens" \/ size = AnySize
  /\ \/ part \in {"machine", "screens"}
     \/ /\ part \notin {"machine", "screens"}
        /\ world = [ machine |-> OneMachine, month |-> OneMachine.now,
                     power |-> CHOOSE p \in Situations[OneMachine] : TRUE ]
  /\ \/ part = "disk"
     \/ part # "disk" /\ platform = AnyPlatform
  /\ ResultsInit /\ SoakInit /\ ScanInit /\ ReportsInit /\ DiskInit

PartsNext ==
  /\ UNCHANGED part
  /\ \/ /\ part = "results" /\ ResultsNext
        /\ UNCHANGED <<soakVars, scanVars, reportVars, diskVars>>
     \/ /\ part = "soak" /\ SoakNext
        /\ UNCHANGED <<resultVars, scanVars, reportVars, diskVars>>
     \/ /\ part = "mem" /\ ScanNext
        /\ UNCHANGED <<resultVars, soakVars, reportVars, diskVars>>
     \/ /\ part = "machine" /\ ReportsNext /\ UNCHANGED viewVars
        /\ UNCHANGED <<resultVars, soakVars, scanVars, diskVars>>
     \/ /\ part = "screens" /\ ReportsNext /\ UNCHANGED world
        /\ UNCHANGED <<resultVars, soakVars, scanVars, diskVars>>
     \/ /\ part = "disk" /\ DiskNext
        /\ UNCHANGED <<resultVars, soakVars, scanVars, reportVars>>

PartsSpec == PartsInit /\ [][PartsNext]_partVars

(* -- results ----------------------------------------------------------- *)

(* Semitones above the smallest value, of a doubled value.                 *)
MCLog ==
  LET semitones == <<0, 12, 19, 24, 28, 31, 34, 36, 38, 40, 41, 43, 44, 46, 47, 48>>
  IN  [v \in DOMAIN semitones |-> 720 * semitones[v]]

Sp(id, dir, rep, scored) == [id |-> id, dir |-> dir, rep |-> rep, scored |-> scored]
Single == Sp("int_single", "higher", "median", TRUE)
Multi  == Sp("int_multi", "higher", "peak", TRUE)
Scale2 == Sp("int_scale_2", "higher", "peak", FALSE)
Lat    == Sp("latency", "lower", "median", TRUE)
LatL1  == Sp("lat_l1", "lower", "median", FALSE)
Fp32   == Sp("compute_fp32", "higher", "median", TRUE)
Rtt    == Sp("tcp_rtt", "lower", "median", TRUE)

Bench(id, outcomes) == [id |-> id, subtests |-> outcomes]
Cpu(single, multi) == Bench("cpu", <<Outcome(Single, single), Outcome(Multi, multi)>>)
CpuScale(single, multi, two) ==
  Bench("cpu", <<Outcome(Single, single), Outcome(Multi, multi), Outcome(Scale2, two)>>)
Memory(lat, l1) == Bench("memory", <<Outcome(Lat, lat), Outcome(LatL1, l1)>>)
Gpu(fp) == Bench("gpu", <<Outcome(Fp32, fp)>>)
Network(rtt) == Bench("network", <<Outcome(Rtt, rtt)>>)

Cool == [j \in 1..8 |-> <<4, 1>>]
Hot  == [j \in 1..9 |-> IF j < 3 THEN <<4, 1>> ELSE <<0, 3>>]
Short == [j \in 1..6 |-> IF j < 3 THEN <<4, 1>> ELSE <<0, 3>>]

Trial(raw, polls, soak, cpu, preset, isa) ==
  [ raw |-> raw, polls |-> polls, soak |-> soak, cpu |-> cpu, isa |-> isa,
    duration_preset |-> preset, profile |-> "general", curve_k |-> 5 ]

MCTrials ==
  { Trial(<<Cpu(<<2, 2, 2>>, <<4, 4, 4>>), Memory(<<4, 4, 4>>, <<1, 1, 1>>)>>,
          Hot, <<>>, "known", "short", "sse2"),
    Trial(<<CpuScale(<<4, 4, 3>>, <<8, 5, 5>>, <<3, 3, 3>>), Memory(<<2, 2, 1>>, <<1, 1, 1>>)>>,
          Cool, [retained |-> 90, steady |-> 5], "known", "normal", "avx2"),
    Trial(<<Cpu(<<1, 1>>, <<2, 2>>), Memory(<<8, 8>>, <<2, 2>>), Gpu(<<1>>), Network(<<8>>)>>,
          Short, [retained |-> 99, steady |-> 4], "known", "short", "sse2"),
    Trial(<<CpuScale(<<2, 2, 2>>, <<5, 4, 4>>, <<4, 4, 4>>)>>, Hot, <<>>, "unknown", "short", "sse2"),
    Trial(<<Gpu(<<4>>)>>, <<>>, <<>>, "unknown", "short", "sse2"),
    Trial(<<Cpu(<<0, 0, 0>>, <<2, 2, 2>>)>>, Cool, <<>>, "unknown", "short", "sse2") }

MCReference ==
  [ name |-> "reference-v1",
    ref  |-> [key \in {<<"cpu", "int_single">>, <<"cpu", "int_multi">>, <<"memory", "latency">>,
                       <<"gpu", "compute_fp32">>, <<"network", "tcp_rtt">>} |->
                IF key[2] = "int_multi" THEN MCLog[8] ELSE MCLog[4]] ]

MCModels == [c \in {"known"} |-> [s \in {"int_single", "int_multi", "sha256"} |->
                                    IF s = "int_multi" THEN 8 ELSE 4]]
MCCpuSpecs == <<Single, Multi, Sp("sha256", "higher", "median", TRUE)>>

(* -- mem --------------------------------------------------------------- *)

Process(name, private, shares, open) ==
  [name |-> name, private |-> private, shares |-> shares, open |-> open]
MCPrograms == { Process("sh", 1, TRUE, TRUE), Process("db", 3, TRUE, TRUE),
                Process("vault", 2, FALSE, FALSE), Process("kworker", 0, FALSE, TRUE) }

(* -- reports ----------------------------------------------------------- *)

Stat(v) == <<[supported |-> TRUE, valid |-> TRUE, value |-> v]>>
NoStat == <<[supported |-> TRUE, valid |-> FALSE, value |-> 0]>>
Page(number, hours, cycles, used) ==
  [number |-> number, revision |-> 1, stats |-> [hours |-> hours, cycles |-> cycles, used |-> used]]
Zeros == [number |-> 0, revision |-> 0, stats |-> [hours |-> NoStat, cycles |-> NoStat, used |-> NoStat]]
Nvme(hours, cycles, errors) ==
  [ open |-> FALSE, bus |-> "nvme",
    log |-> [hours |-> hours, cycles |-> cycles, used |-> 3, warning |-> 0, errors |-> errors] ]
Sata(general, solid, removable) ==
  [open |-> TRUE, bus |-> "sata", general |-> general, solid |-> solid, removable |-> removable]

(* A system and an enclosure, and a structure behind the end marker.       *)
Smbios(uuid, serial, asset) ==
  << [uuid |-> <<>>, kind |-> 0, length |-> 24, string |-> ""],
     [uuid |-> uuid, kind |-> 1, length |-> IF uuid = <<>> THEN 8 ELSE 27, string |-> serial],
     [uuid |-> <<>>, kind |-> 3, length |-> 22, string |-> asset],
     [uuid |-> <<>>, kind |-> 127, length |-> 4, string |-> ""],
     [uuid |-> <<>>, kind |-> 4, length |-> 48, string |-> "cpu"] >>
Uuid(n) == <<n, 2, 3, 4, 5, 6, 7, 8, 9>>
Filled(n) == [i \in 1..9 |-> n]

MCMachine(system, root, launched, built, bios, drives, machine_id, smbios) ==
  [ now |-> 24300, system |-> system, root |-> root, launched |-> launched, built |-> built,
    bios |-> bios, drives |-> drives, machine_id |-> machine_id, smbios |-> smbios ]
Bios(month, year, digits) == Some([month |-> month, year |-> year, digits |-> digits, day |-> 1])

(* 24265 is January 2022, and 24300 the December three years on.           *)
LinuxLaptop == MCMachine("linux", TRUE, Some(24265), 24270, Bios(6, 2022, 4),
                         <<Sata(Page(1, Stat(100), Stat(900), NoStat), None, FALSE),
                           Sata(Page(1, Stat(9), Stat(9), NoStat), None, TRUE)>>,
                         "a1", Smbios(Uuid(1), "serial-1", "tag"))
LinuxServer == MCMachine("linux", TRUE, Some(24290), 24292, Bios(11, 23, 2),
                         <<Sata(Zeros, None, FALSE), Nvme(20000, 5, 2)>>,
                         "a2", Smbios(Filled(0), "to be filled by o.e.m.", ""))
WindowsLaptop == MCMachine("windows", FALSE, Some(24265), 24280, Bios(13, 2022, 4),
                           <<Nvme(700, 10, 0),
                             Sata(Page(1, Stat(30000), NoStat, NoStat), Some(Page(7, NoStat, NoStat, Stat(5))), FALSE)>>,
                           "a3", Smbios(Uuid(2), "00000000", "tag"))
Mac == MCMachine("macos", FALSE, None, 24280, None, <<>>, "", Smbios(Filled(255), "", ""))
MCMachines == {LinuxLaptop, LinuxServer, WindowsLaptop, Mac}

Mains(online) == [kind |-> "Mains", online |-> online, scope |-> ""]
Battery(scope) == [kind |-> "Battery", online |-> FALSE, scope |-> scope]
Pack(state) == Some([cycles |-> Some(342), state |-> state, full |-> Some(41), design |-> Some(47)])
LinuxSettings(profile, governor, preference, no_turbo) ==
  [ profile |-> profile, governor |-> governor, preference |-> preference,
    no_turbo |-> no_turbo, boost |-> Some("0") ]
Col(overlay, max, boost) == [boost |-> Some(boost), overlay |-> overlay, max |-> Some(max)]
WindowsSettings(line, plan) ==
  [ line |-> Some(line), plan |-> plan, saver |-> line = "battery",
    ac |-> Col("best power efficiency", 100, "aggressive"),
    dc |-> Col("nil", 80, "disabled") ]
Situation(supplies, settings, pack) == [supplies |-> supplies, settings |-> settings, pack |-> pack]

MCSituations ==
  [m \in MCMachines |->
     CASE m = LinuxLaptop ->
            { Situation({Mains(TRUE), Battery("")},
                        LinuxSettings(Some("balanced"), Some("powersave"), Some("balance"), Some("0")),
                        Pack("charging")),
              Situation({Mains(FALSE), Battery("")},
                        LinuxSettings(Some("low-power"), Some("powersave"), Some("power"), Some("1")),
                        Pack("discharging")),
              Situation({Mains(TRUE), Battery("")}, LinuxSettings(None, None, None, None), Pack("discharging")) }
       [] m = LinuxServer ->
            { Situation({Battery("Device")}, LinuxSettings(None, Some("powersave"), None, None), None),
              Situation({Mains(FALSE), Battery("Device")}, LinuxSettings(None, None, None, None), None) }
       [] m = WindowsLaptop ->
            { Situation({Mains(now[1] = "mains"), Battery("")}, WindowsSettings(now[1], now[2]),
                        Pack("discharging")) :
                now \in {<<"mains", "Balanced">>, <<"battery", "Balanced">>, <<"battery", "High performance">>} }
       [] OTHER ->
            { Situation({Mains(TRUE), Battery("")}, [line |-> None], Pack("charging")),
              Situation({Mains(TRUE), Battery("")}, [line |-> None], Pack("discharging")) }]

Comp(id, graded, subtests, informational, notes) ==
  [id |-> id, subtests |-> subtests, graded |-> graded, informational |-> informational, notes |-> notes]
MCOutcome(components, notes, telemetry, model_ref, link, soak) ==
  [ machine |-> None, soak |-> soak, notes |-> notes, components |-> components, telemetry |-> telemetry,
    model_ref |-> model_ref, link |-> link, timestamp |-> 0, why |-> 2 ]
MCOutcomes ==
  { MCOutcome(<<Comp("cpu", TRUE, 5, 2, 1), Comp("network", FALSE, 3, 0, 0)>>, 1, Some([limited |-> TRUE]),
              <<[preset |-> TRUE, component |-> "cpu", samples |-> 1]>>, FALSE, Some([onset |-> TRUE, holds |-> FALSE])),
    MCOutcome(<<Comp("gpu", FALSE, 2, 0, 0)>>, 0, None, <<>>, TRUE, Some([onset |-> FALSE, holds |-> FALSE])) }

MCSubtest(id, rel, best) == [id |-> id, rel |-> rel, best |-> best]
MCComparisons ==
  { [ soak |-> Some([rel_steady |-> <<100, 101>>, best_sustained |-> 2, best_retention |-> 1]),
      components |-> <<[ id |-> "cpu",
                         subtests |-> <<MCSubtest("int_single", <<100, 133>>, 2),
                                        MCSubtest("int_multi", <<100, 101>>, 2)>>,
                         rel |-> <<100, 116>>, best |-> 2 ]>>,
      rel |-> <<100, 116>>, best |-> 2, machines |-> 2,
      warnings |-> <<<<7, 9, 4, 61>>>>, summary |-> <<2, 30, 12, 9, 8>> ] }
MCSizes == {[width |-> 160, height |-> 20], [width |-> 80, height |-> 24], [width |-> 44, height |-> 12],
            [width |-> 40, height |-> 30]}
MCWide == [preset |-> 84, component |-> 63, why |-> 50]

(* -- disk -------------------------------------------------------------- *)

(* Two trials of some of the subtests, then the deep queues.               *)
MCSeries == <<"seq_write", "seq_write", "seq_read", "seq_read", "rand_read", "rand_read",
              "rand_write", "rand_read_qd", "rand_write_qd">>
=============================================================================
