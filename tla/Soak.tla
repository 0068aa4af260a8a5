-------------------------------- MODULE Soak --------------------------------
(***************************************************************************)
(* The sustained-load test (soak.rs): workers count what they do until the *)
(* deadline or an abort, the sampling loop reads their counters about once *)
(* a second, and derive turns the samples into a verdict.                  *)
(*                                                                         *)
(* The workers are the environment: between two readings they have done    *)
(* rate operations per tick.  Clock frequencies are left out.              *)
(***************************************************************************)
EXTENDS Integers, Sequences, Functions, FiniteSetsExt

CONSTANTS
  Rates,        (* what the threads may do in a tick, together             *)
  Step,         (* ticks between two readings                              *)
  Late,         (* the most a reading is late                              *)
  MinDt,        (* a reading after less than this is not a sample          *)
  DefaultSoak, MinSoak, MaxSoak,   (* durations, in ticks                  *)
  Asked         (* durations asked for; 0 for none                         *)

ASSUME SoakAssumption ==
  /\ Rates \subseteq Nat /\ Asked \subseteq Nat
  /\ {Step, MinDt, DefaultSoak, MinSoak, MaxSoak} \subseteq Nat \ {0}
  /\ Late \in Nat /\ MinDt <= Step /\ MinSoak <= DefaultSoak /\ DefaultSoak <= MaxSoak

VARIABLES
  load,       (* "idle", "running", then "over"                            *)
  deadline,
  elapsed,
  total,      (* the sum of the workers' counters                          *)
  last,       (* the total and the time of the last sample                 *)
  samples,    (* [t, rate]                                                 *)
  cut         (* the abort flag                                            *)

soakVars == <<load, deadline, elapsed, total, last, samples, cut>>

ResolveDuration(secs) ==
  IF secs = 0 THEN DefaultSoak
  ELSE IF secs < MinSoak THEN MinSoak
  ELSE IF secs > MaxSoak THEN MaxSoak ELSE secs

StartSoak(secs) ==
  /\ load = "idle"
  /\ load' = "running"
  /\ deadline' = ResolveDuration(secs)
  /\ UNCHANGED <<elapsed, total, last, samples, cut>>

(* The loop wakes after a step, often late on a machine this busy, or as   *)
(* soon as the deadline passes or the flag is up; it reads the counters,   *)
(* keeps a sample if enough time has gone by, and may be done.             *)
Wake(dt, rate) ==
  LET now   == elapsed + dt
      read  == total + rate * dt
      since == now - last.t
  IN  /\ load = "running"
      /\ dt >= Step \/ now >= deadline \/ cut
      /\ elapsed' = now
      /\ total' = read
      /\ IF since >= MinDt
         THEN /\ samples' = Append(samples, [t |-> now, rate |-> (read - last.total) \div since])
              /\ last' = [t |-> now, total |-> read]
         ELSE UNCHANGED <<samples, last>>
      /\ load' = IF cut \/ now >= deadline THEN "over" ELSE "running"
      /\ UNCHANGED <<deadline, cut>>

Cut ==
  /\ load = "running"
  /\ ~cut
  /\ cut' = TRUE
  /\ UNCHANGED <<load, deadline, elapsed, total, last, samples>>

SoakInit ==
  /\ load = "idle"
  /\ deadline = 0
  /\ elapsed = 0
  /\ total = 0
  /\ last = [t |-> 0, total |-> 0]
  /\ samples = <<>>
  /\ cut = FALSE

SoakNext ==
  \/ \E secs \in Asked : StartSoak(secs)
  \/ \E dt \in 1..(Step + Late), rate \in Rates : Wake(dt, rate)
  \/ Cut

SoakSpec == SoakInit /\ [][SoakNext]_soakVars

(* -- derive ------------------------------------------------------------ *)

SumFrom(ss, i, j) == SumFunction([x \in i..j |-> ss[x].rate])
Lesser(a, b) == IF a < b THEN a ELSE b
Greater(a, b) == IF a > b THEN a ELSE b

(* The best sum of up to three consecutive samples.                        *)
PeakWidth(ss) == Lesser(3, Len(ss))
RollingPeak(ss) ==
  IF ss = <<>> THEN 0
  ELSE Max({SumFrom(ss, i, i + PeakWidth(ss) - 1) : i \in 1 .. Len(ss) - PeakWidth(ss) + 1})

SteadyWidth(ss) == Lesser(Greater(Len(ss) \div 4, 3), Greater(Len(ss), 1))
Steady(ss) == SumFrom(ss, Len(ss) - Lesser(SteadyWidth(ss), Len(ss)) + 1, Len(ss))

(* A mean of width samples is below pct per cent of the peak.              *)
UnderPeak(ss, sum, width, pct) ==
  100 * sum * PeakWidth(ss) < pct * RollingPeak(ss) * width

(* Faulty variant: the walk starts one sample late.                        *)
ThrottleOnsetLate(ss) ==
  LET low(i) == /\ UnderPeak(ss, ss[i].rate, 1, 95)
                /\ UnderPeak(ss, SumFrom(ss, i, Len(ss)), Len(ss) - i + 1, 95)
      lows   == {i \in 3..Len(ss) : low(i)}
  IN  IF RollingPeak(ss) <= 0 \/ ~UnderPeak(ss, Steady(ss), SteadyWidth(ss), 95) \/ lows = {}
      THEN 0 ELSE ss[Min(lows)].t

(* When a sample first drops under 95 % of the peak and what is left of    *)
(* the run averages under it too; 0 when there is none.                    *)
ThrottleOnset(ss) ==
  LET low(i) == /\ UnderPeak(ss, ss[i].rate, 1, 95)
                /\ UnderPeak(ss, SumFrom(ss, i, Len(ss)), Len(ss) - i + 1, 95)
      lows   == {i \in 2..Len(ss) : low(i)}
  IN  IF RollingPeak(ss) <= 0 \/ ~UnderPeak(ss, Steady(ss), SteadyWidth(ss), 95) \/ lows = {}
      THEN 0 ELSE ss[Min(lows)].t

(* Less than pct per cent was retained; without a peak all of it was.      *)
RetainedUnder(ss, pct) ==
  RollingPeak(ss) > 0 /\ UnderPeak(ss, Steady(ss), SteadyWidth(ss), pct)

SoakVerdict(ss) ==
  CASE ~RetainedUnder(ss, 97) -> "holds"
    [] RetainedUnder(ss, 97) /\ ThrottleOnset(ss) # 0 -> "throttles"
    [] OTHER -> "drifts"

(* -- Properties -------------------------------------------------------- *)

(* Whatever the series, and wherever an abort cuts it: a machine that      *)
(* settles under 95 % of its peak is told when that began, and only such a *)
(* machine is.  "Drifts without a clear onset" is said only between 95 and *)
(* 97 %.                                                                   *)
OnsetIffThrottled ==
  load = "over" =>
    /\ ThrottleOnset(samples) # 0 <=> RetainedUnder(samples, 95)
    /\ SoakVerdict(samples) = "drifts" <=> RetainedUnder(samples, 97) /\ ~RetainedUnder(samples, 95)
=============================================================================
