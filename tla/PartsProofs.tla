---------------------------- MODULE PartsProofs ----------------------------
(***************************************************************************)
(* Proofs about the parts that share no state: the disk benchmark's opens, *)
(* for any series of subtests and any set of platforms; the sustained-load *)
(* test, for any rates of the workers and any delays of the loop; and the  *)
(* memory scan, for any programs and any changes of the processes.         *)
(***************************************************************************)
EXTENDS DiskMode, Soak, MemScan, DataFacts, TLAPS

(* -- The disk benchmark's opens ---------------------------------------- *)

Figure == [id : STRING, direct : BOOLEAN, warm : BOOLEAN]

DiskTypeOK ==
  /\ unbuffered \in {"untested", "unbuffered", "buffered"}
  /\ figures \in Seq(Figure)
  /\ Len(figures) <= Len(Series)
  /\ filled \in BOOLEAN

ReadsSoFar == {i \in DOMAIN figures : figures[i].id \in Reads}

(* The decision, the caution and the figures stand for each other: the     *)
(* decision is "buffered" just when a read fell back, and was remarked     *)
(* upon at that moment.                                                    *)
Decided ==
  /\ "cache-influenced" \in remarks <=> unbuffered = "buffered"
  /\ unbuffered = "buffered" <=> \E i \in ReadsSoFar : ~figures[i].direct

(* Once a read is buffered, so are the later ones.                         *)
NeverBack ==
  \A i, j \in ReadsSoFar : i < j /\ figures[j].direct => figures[i].direct

(* The page cache serves buffered reads only.                              *)
Cached == \A i \in ReadsSoFar : figures[i].warm => ~figures[i].direct

(* The scratch file is there from the first figure on, and what is remarked*)
(* on at its creation stays.                                               *)
Filled ==
  /\ filled <=> figures # <<>>
  /\ "memory backed" \in remarks <=> figures # <<>> /\ IsMemoryBacked

IInv == DiskTypeOK /\ Decided /\ NeverBack /\ Cached /\ Filled

(* A subtest adds one figure at the end and leaves the others alone.       *)
LEMMA AppendFigure ==
  ASSUME NEW s \in Seq(Figure), NEW f \in Figure
  PROVE  /\ Append(s, f) \in Seq(Figure)
         /\ Len(Append(s, f)) = Len(s) + 1
         /\ DOMAIN Append(s, f) = 1..(Len(s) + 1)
         /\ DOMAIN s = 1..Len(s)
         /\ Len(s) \in Nat
         /\ Append(s, f) # <<>>
         /\ Append(s, f)[Len(s) + 1] = f
         /\ \A i \in 1..Len(s) : Append(s, f)[i] = s[i]
  OBVIOUS

(* A step that adds the figure f, by how its subtest's file was opened.    *)
Adds(f) ==
  /\ figures' = Append(figures, f)
  /\ Len(figures) < Len(Series)
  /\ filled' = TRUE
  /\ platform' = platform
  /\ f.id \in Reads /\ unbuffered = "buffered" =>
       ~f.direct /\ unbuffered' = "buffered"
         /\ ("cache-influenced" \in remarks' <=> "cache-influenced" \in remarks)
  /\ f.id \in Reads /\ unbuffered # "buffered" /\ f.direct =>
       unbuffered' = "unbuffered"
         /\ ("cache-influenced" \in remarks' <=> "cache-influenced" \in remarks)
  /\ f.id \in Reads /\ unbuffered # "buffered" /\ ~f.direct =>
       unbuffered' = "buffered" /\ "cache-influenced" \in remarks'
  /\ f.id \notin Reads =>
       unbuffered' = unbuffered
         /\ ("cache-influenced" \in remarks' <=> "cache-influenced" \in remarks)
  /\ f.warm => ~f.direct
  /\ "memory backed" \in remarks' <=>
       "memory backed" \in remarks \/ (~filled /\ IsMemoryBacked)

(* Every call is such a step.                                              *)
LEMMA StepFigure ==
  ASSUME DiskTypeOK, NEW honoured \in BOOLEAN, NEW heeded \in BOOLEAN, NEW again \in BOOLEAN,
         RunSubtest(honoured, heeded, again)
  PROVE  \E f \in Figure : Adds(f)
<1> DEFINE id      == Series[Len(figures) + 1]
           opened  == IF id \in Reads THEN OpenRead(honoured) ELSE OpenWrite(honoured)
           dropped == DropFromCache /\ heeded /\ (opened.dropped \/ (id = "seq_read" /\ ~opened.direct))
           f       == [ id |-> id, direct |-> opened.direct,
                        warm |-> ~opened.direct /\ (again \/ ~dropped) ]
<1>1. /\ Len(figures) < Len(Series)
      /\ filled' = TRUE
      /\ unbuffered' = opened.decided
      /\ remarks' = remarks \cup EnsureScratch \cup opened.remarks
                    \cup (IF id \in DeepQueue THEN {"deep queue"} ELSE {})
      /\ figures' = Append(figures, f)
      /\ platform' = platform
  BY DEF RunSubtest
<1>2. id \in STRING
  <2>1. Len(figures) \in Nat
    BY DEF DiskTypeOK
  <2>2. Len(Series) \in Nat
    BY DiskAssumption
  <2>3. Len(figures) < Len(Series)
    BY <1>1
  <2>4. Len(figures) + 1 \in 1..Len(Series)
    BY <2>1, <2>2, <2>3
  <2> QED BY <2>4, DiskAssumption
<1>3. EnsureScratch = IF ~filled /\ IsMemoryBacked THEN {"memory backed"} ELSE {}
  BY DEF EnsureScratch, DiskTypeOK
<1>4. /\ opened.direct \in BOOLEAN /\ opened.dropped \in BOOLEAN
      /\ opened.remarks = IF id \in Reads /\ unbuffered # "buffered" /\ ~opened.direct
                          THEN {"cache-influenced"} ELSE {}
      /\ id \in Reads /\ unbuffered = "buffered" => ~opened.direct /\ opened.decided = "buffered"
      /\ id \in Reads /\ unbuffered # "buffered" =>
           opened.decided = IF opened.direct THEN "unbuffered" ELSE "buffered"
      /\ id \notin Reads => opened.decided = unbuffered
  <2>1. CASE id \in Reads
    <3>1. opened = OpenRead(honoured)
      BY <2>1
    <3> HIDE DEF opened, id
    <3> QED BY <2>1, <3>1 DEF OpenRead
  <2>2. CASE id \notin Reads
    <3>1. opened = OpenWrite(honoured)
      BY <2>2
    <3> HIDE DEF opened, id
    <3> QED BY <2>2, <3>1 DEF OpenWrite, DiskTypeOK
  <2> QED BY <2>1, <2>2
<1> HIDE DEF opened, id
<1>5. f \in Figure
  BY <1>2, <1>3, <1>4 DEF Figure, DropFromCache
<1>6. f.warm => ~f.direct
  BY <1>4
<1>7. "cache-influenced" \in remarks' <=>
        "cache-influenced" \in remarks \/ (id \in Reads /\ unbuffered # "buffered" /\ ~opened.direct)
  <2>1. remarks' = remarks \cup EnsureScratch \cup opened.remarks
                   \cup (IF id \in DeepQueue THEN {"deep queue"} ELSE {})
    BY <1>1
  <2>2. "cache-influenced" \notin EnsureScratch
    <3>1. EnsureScratch \subseteq {"memory backed"}
      BY <1>3
    <3> QED BY <3>1
  <2>3. "cache-influenced" \in opened.remarks
          <=> id \in Reads /\ unbuffered # "buffered" /\ ~opened.direct
    BY <1>4
  <2> QED BY <2>1, <2>2, <2>3
<1>8. "memory backed" \in remarks' <=> "memory backed" \in remarks \/ (~filled /\ IsMemoryBacked)
  <2>1. remarks' = remarks \cup EnsureScratch \cup opened.remarks
                   \cup (IF id \in DeepQueue THEN {"deep queue"} ELSE {})
    BY <1>1
  <2>2. "memory backed" \notin opened.remarks
    BY <1>4
  <2>3. "memory backed" \in EnsureScratch <=> ~filled /\ IsMemoryBacked
    BY <1>3
  <2> QED BY <2>1, <2>2, <2>3
<1>9. f.id = id /\ f.direct = opened.direct
  OBVIOUS
<1> WITNESS f \in Figure
<1> HIDE DEF f
<1> QED BY <1>1, <1>4, <1>6, <1>7, <1>8, <1>9 DEF Adds

(* A subtest keeps the inductive invariant.                                *)
LEMMA StepKeeps ==
  ASSUME IInv, NEW honoured \in BOOLEAN, NEW heeded \in BOOLEAN, NEW again \in BOOLEAN,
         RunSubtest(honoured, heeded, again)
  PROVE  IInv'
<1> USE DEF IInv
<1>1. PICK f \in Figure : Adds(f)
  BY StepFigure
<1> USE DEF Adds
<1> DEFINE n == Len(figures)
<1>2. /\ n \in Nat /\ DOMAIN figures = 1..n /\ DOMAIN figures' = 1..(n + 1)
      /\ figures'[n + 1] = f /\ \A i \in 1..n : figures'[i] = figures[i]
  BY <1>1, AppendFigure DEF DiskTypeOK
<1>2a. figures' \in Seq(Figure) /\ Len(figures') = n + 1 /\ figures' # <<>>
  BY <1>1, AppendFigure DEF DiskTypeOK
<1>2b. Len(Series) \in Nat /\ n + 1 <= Len(Series)
  <2>1. Len(Series) \in Nat
    BY DiskAssumption
  <2>2. n < Len(Series)
    BY <1>1
  <2>3. n \in Nat
    BY <1>2
  <2> HIDE DEF n
  <2> QED BY <2>1, <2>2, <2>3
<1>2c. n + 1 \in 1..(n + 1) /\ n + 1 \notin 1..n /\ \A i \in 1..(n + 1) : i = n + 1 \/ i \in 1..n
  BY <1>2
<1>2d. \A i \in 1..n : i \in 1..(n + 1)
  BY <1>2
<1> HIDE DEF n
<1>3. /\ \A i \in 1..n : (i \in ReadsSoFar') <=> (i \in ReadsSoFar)
      /\ (n + 1 \in ReadsSoFar') <=> f.id \in Reads
  <2>1. ASSUME NEW i \in 1..n PROVE (i \in ReadsSoFar') <=> (i \in ReadsSoFar)
    <3>1. i \in DOMAIN figures /\ i \in DOMAIN figures' /\ figures'[i] = figures[i]
      BY <1>2, <1>2d
    <3> QED BY <3>1, Zenon DEF ReadsSoFar
  <2>2. (n + 1 \in ReadsSoFar') <=> f.id \in Reads
    <3>1. n + 1 \in DOMAIN figures' /\ figures'[n + 1] = f
      BY <1>2, <1>2c
    <3> QED BY <3>1, Zenon DEF ReadsSoFar
  <2> QED BY <2>1, <2>2
<1>4. DiskTypeOK'
  <2>1. unbuffered' \in {"untested", "unbuffered", "buffered"}
    BY <1>1 DEF DiskTypeOK
  <2> QED BY <1>1, <1>2a, <1>2b, <2>1 DEF DiskTypeOK
<1>5. (\E i \in ReadsSoFar' : ~figures'[i].direct)
        <=> \/ \E i \in ReadsSoFar : ~figures[i].direct
            \/ f.id \in Reads /\ ~f.direct
  <2>1. ASSUME NEW i \in ReadsSoFar', ~figures'[i].direct
        PROVE  \/ \E k \in ReadsSoFar : ~figures[k].direct
               \/ f.id \in Reads /\ ~f.direct
    <3>1. CASE i \in 1..n
      <4>1. i \in DOMAIN figures /\ i \in ReadsSoFar /\ ~figures[i].direct
        BY <1>2, <1>3, <2>1, <3>1
      <4> QED BY <4>1
    <3>2. CASE i = n + 1
      <4>1. figures'[i] = f /\ n + 1 \in ReadsSoFar'
        BY <1>2, <2>1, <3>2
      <4> QED BY <1>3, <2>1, <4>1
    <3>3. i \in DOMAIN figures'
      BY DEF ReadsSoFar
    <3> QED BY <1>2, <1>2c, <3>1, <3>2, <3>3
  <2>2. ASSUME NEW i \in ReadsSoFar, ~figures[i].direct
        PROVE  \E k \in ReadsSoFar' : ~figures'[k].direct
    <3>0. i \in DOMAIN figures
      BY DEF ReadsSoFar
    <3>1. i \in ReadsSoFar' /\ ~figures'[i].direct
      BY <1>2, <1>3, <2>2, <3>0
    <3> QED BY <3>1
  <2>3. ASSUME f.id \in Reads, ~f.direct
        PROVE  \E k \in ReadsSoFar' : ~figures'[k].direct
    <3>1. n + 1 \in ReadsSoFar' /\ ~figures'[n + 1].direct
      BY <1>2, <1>2c, <1>3, <2>3
    <3> QED BY <3>1
  <2> QED BY <2>1, <2>2, <2>3
<1>6. Decided'
  BY <1>1, <1>5 DEF Decided, DiskTypeOK
<1>7. NeverBack'
  <2> SUFFICES ASSUME NEW i \in ReadsSoFar', NEW j \in ReadsSoFar', i < j, figures'[j].direct
               PROVE  figures'[i].direct
    BY DEF NeverBack
  <2>0. i \in 1..(n + 1) /\ j \in 1..(n + 1)
    BY <1>2 DEF ReadsSoFar
  <2>1. i \in 1..n
    BY <1>2, <1>2c, <2>0
  <2>2. CASE j \in 1..n
    BY <1>2, <1>3, <2>1, <2>2 DEF NeverBack
  <2>3. CASE j = n + 1
    <3>0. n + 1 \in ReadsSoFar' /\ figures'[n + 1].direct
      BY <2>3
    <3>1. f.id \in Reads /\ f.direct
      BY <1>2, <1>3, <3>0
    <3>2. unbuffered # "buffered"
      BY <1>1, <3>1
    <3> QED BY <1>2, <1>3, <2>1, <3>2 DEF Decided
  <2> QED BY <1>2c, <2>0, <2>2, <2>3
<1>8. Cached'
  <2> SUFFICES ASSUME NEW i \in ReadsSoFar', figures'[i].warm
               PROVE  ~figures'[i].direct
    BY DEF Cached
  <2>0. i \in 1..(n + 1)
    BY <1>2 DEF ReadsSoFar
  <2>1. CASE i \in 1..n
    BY <1>2, <1>3, <2>1 DEF Cached
  <2>2. CASE i = n + 1
    BY <1>1, <1>2, <2>2
  <2> QED BY <1>2c, <2>0, <2>1, <2>2
<1>9. Filled'
  <2>1. filled' /\ figures' # <<>>
    BY <1>1, <1>2a
  <2>2. IsMemoryBacked' <=> IsMemoryBacked
    BY <1>1 DEF IsMemoryBacked
  <2>3. "memory backed" \in remarks' <=> IsMemoryBacked
    BY <1>1 DEF Filled, DiskTypeOK
  <2> QED BY <2>1, <2>2, <2>3 DEF Filled
<1> QED BY <1>4, <1>6, <1>7, <1>8, <1>9

(* What the reads' figures are worth is owned up to, for any series of     *)
(* subtests and whenever the filesystem stops honouring unbuffered reads.  *)
THEOREM DiskModeCachedReadsOwnedUp == DiskSpec => []CachedReadsOwnedUp
<1>1. DiskInit => IInv
  <2> SUFFICES ASSUME DiskInit PROVE IInv
    OBVIOUS
  <2>1. figures = <<>> /\ ReadsSoFar = {}
    BY DEF DiskInit, ReadsSoFar
  <2>2. DiskTypeOK
    <3>1. <<>> \in Seq(Figure) /\ Len(<<>>) = 0
      OBVIOUS
    <3>2. Len(Series) \in Nat
      BY DiskAssumption
    <3>3. figures \in Seq(Figure) /\ Len(figures) <= Len(Series)
      BY <3>1, <3>2, <2>1
    <3> QED BY <3>3 DEF DiskInit, DiskTypeOK
  <2>3. Decided /\ NeverBack /\ Cached /\ Filled
    BY <2>1 DEF DiskInit, Decided, NeverBack, Cached, Filled
  <2> QED BY <2>2, <2>3 DEF IInv
<1>2. IInv /\ [DiskNext]_diskVars => IInv'
  <2> SUFFICES ASSUME IInv, [DiskNext]_diskVars PROVE IInv'
    OBVIOUS
  <2>1. CASE DiskNext
    BY <2>1, StepKeeps DEF DiskNext
  <2>2. CASE UNCHANGED diskVars
    BY <2>2 DEF diskVars, IInv, DiskTypeOK, Decided, NeverBack, Cached, Filled, ReadsSoFar,
                DropFromCache, IsMemoryBacked
  <2> QED BY <2>1, <2>2
<1>3. IInv => CachedReadsOwnedUp
  <2> SUFFICES ASSUME IInv PROVE CachedReadsOwnedUp
    OBVIOUS
  <2> QED BY DEF IInv, CachedReadsOwnedUp, Decided, NeverBack, Cached, Filled, ReadsSoFar
<1> QED BY <1>1, <1>2, <1>3, PTL DEF DiskSpec

(* -- The sustained-load test ------------------------------------------- *)

(* A sample of the loop.                                                   *)
Sample == [t : Nat \ {0}, rate : Nat]

(* The samples' times are positive and their rates are not negative.       *)
LEMMA SampleIs ==
  ASSUME NEW ss \in Seq(Sample)
  PROVE  /\ Len(ss) \in Nat
         /\ \A i \in 1..Len(ss) : ss[i].t \in Nat \ {0} /\ ss[i].rate \in Int /\ ss[i].rate >= 0
<1>1. Len(ss) \in Nat /\ \A i \in 1..Len(ss) : ss[i] \in Sample
  OBVIOUS
<1>2. \A x \in Sample : x.t \in Nat \ {0} /\ x.rate \in Int /\ x.rate >= 0
  BY DEF Sample
<1> QED BY <1>1, <1>2

(* An interval is a finite set of integers.                                *)
LEMMA IntervalIs ==
  ASSUME NEW a \in Int, NEW b \in Int
  PROVE  IsFiniteSet(a..b) /\ a..b \in SUBSET Int
BY FS_Interval

(* A sum of consecutive rates is its first rate and the sum of the rest.   *)
LEMMA SumFromIs ==
  ASSUME NEW ss \in Seq(Sample), NEW i \in 1..Len(ss), NEW j \in 1..Len(ss), i <= j
  PROVE  /\ SumFrom(ss, i, j) \in Int
         /\ i = j => SumFrom(ss, i, j) = ss[i].rate
         /\ i < j => SumFrom(ss, i, j) = ss[i].rate + SumFrom(ss, i + 1, j)
<1> DEFINE f == [x \in i..j |-> ss[x].rate]
           g == [x \in i + 1..j |-> ss[x].rate]
<1>1. IsFiniteSet(i..j) /\ i..j \subseteq 1..Len(ss) /\ i \in i..j /\ (i..j) \ {i} = i + 1..j
  <2>1. i \in Int /\ j \in Int /\ Len(ss) \in Nat
    BY SampleIs
  <2> QED BY <2>1, IntervalIs
<1>2. \A x \in i..j : f[x] \in Int /\ f[x] = ss[x].rate
  BY <1>1, SampleIs
<1>3. SumFrom(ss, i, j) = SumFunctionOnSet(f, i..j)
  BY DEF SumFrom, SumFunction
<1>4. SumFrom(ss, i + 1, j) = SumFunctionOnSet(g, i + 1..j)
  BY DEF SumFrom, SumFunction
<1>5. \A x \in i + 1..j : f[x] \in Int /\ f[x] = g[x]
  BY <1>2
<1>6. IsFiniteSet(i + 1..j)
  <2>1. i + 1 \in Int /\ j \in Int
    BY SampleIs
  <2> QED BY <2>1, IntervalIs
<1> HIDE DEF f, g
<1>7. SumFunctionOnSet(f, i + 1..j) = SumFunctionOnSet(g, i + 1..j)
  BY <1>5, <1>6, SumCongruent
<1>8. /\ SumFunctionOnSet(f, i..j) \in Int
      /\ SumFunctionOnSet(f, i..j) = f[i] + SumFunctionOnSet(f, i + 1..j)
  <2>1. \A x \in i..j : f[x] \in Int
    BY <1>2
  <2>2. /\ SumFunctionOnSet(f, i..j) \in Int
        /\ \A x \in i..j : SumFunctionOnSet(f, i..j) = f[x] + SumFunctionOnSet(f, (i..j) \ {x})
    BY <1>1, <2>1, SumIs
  <2>3. SumFunctionOnSet(f, i..j) = f[i] + SumFunctionOnSet(f, (i..j) \ {i})
    BY <1>1, <2>2
  <2> QED BY <1>1, <2>2, <2>3
<1>9. i = j => SumFunctionOnSet(f, i + 1..j) = 0
  <2> SUFFICES ASSUME i = j PROVE SumFunctionOnSet(f, i + 1..j) = 0
    OBVIOUS
  <2>1. i + 1..j = {}
    OBVIOUS
  <2> QED BY <1>5, <1>6, <2>1, SumIs
<1>10. f[i] = ss[i].rate /\ f[i] \in Int
  BY <1>1, <1>2
<1> QED BY <1>3, <1>4, <1>7, <1>8, <1>9, <1>10

(* The peak is of up to three samples, and is all of a short series.       *)
LEMMA PeakIs ==
  ASSUME NEW ss \in Seq(Sample), ss # <<>>
  PROVE  /\ PeakWidth(ss) \in 1..Len(ss) /\ PeakWidth(ss) <= 3
         /\ RollingPeak(ss) \in Int
         /\ Len(ss) <= 3 => PeakWidth(ss) = Len(ss) /\ RollingPeak(ss) = SumFrom(ss, 1, Len(ss))
<1> DEFINE n == Len(ss)
           p == PeakWidth(ss)
           sums == {SumFrom(ss, i, i + p - 1) : i \in 1 .. n - p + 1}
<1>1. n \in Nat \ {0} /\ p \in 1..n /\ p <= 3 /\ (n <= 3 => p = n)
  BY DEF PeakWidth, Lesser
<1>2. RollingPeak(ss) = Max(sums)
  BY Zenon DEF RollingPeak
<1>3. sums \in SUBSET Int
  <2>1. \A i \in 1 .. n - p + 1 : i \in 1..n /\ i + p - 1 \in 1..n /\ i <= i + p - 1
    BY <1>1
  <2> HIDE DEF p
  <2>2. \A i \in 1 .. n - p + 1 : SumFrom(ss, i, i + p - 1) \in Int
    BY <2>1, SumFromIs
  <2> QED BY <2>2
<1>4. IsFiniteSet(sums)
  <2>1. IsFiniteSet(1 .. n - p + 1)
    BY <1>1, IntervalIs
  <2> DEFINE h == [i \in 1 .. n - p + 1 |-> SumFrom(ss, i, i + p - 1)]
  <2>2. sums = {h[i] : i \in 1 .. n - p + 1}
    OBVIOUS
  <2>3. DOMAIN h = 1 .. n - p + 1
    OBVIOUS
  <2> HIDE DEF p, n, h
  <2> QED BY <2>1, <2>2, <2>3, FiniteImage
<1>5. sums # {}
  <2>1. 1 \in 1 .. n - p + 1
    BY <1>1
  <2> QED BY <2>1
<1>6. ASSUME n <= 3
      PROVE  sums = {SumFrom(ss, 1, n)}
  <2>1. p = n /\ 1 .. n - p + 1 = {1} /\ 1 + p - 1 = n
    BY <1>1, <1>6
  <2> HIDE DEF p, n
  <2> QED BY <2>1
<1> HIDE DEF sums, p, n
<1>7. Max(sums) \in sums
  BY <1>3, <1>4, <1>5, MaxIs
<1> QED BY <1>1, <1>2, <1>3, <1>6, <1>7 DEF p, n

(* The steady rate is that of the last samples, all of them in a short     *)
(* series only.                                                            *)
LEMMA SteadyIs ==
  ASSUME NEW ss \in Seq(Sample), ss # <<>>
  PROVE  /\ SteadyWidth(ss) \in 1..Len(ss)
         /\ SteadyWidth(ss) = Len(ss) => Len(ss) <= 3
         /\ Steady(ss) = SumFrom(ss, Len(ss) - SteadyWidth(ss) + 1, Len(ss))
<1> DEFINE n == Len(ss)
           w == SteadyWidth(ss)
<1>1. n \in Nat \ {0}
  OBVIOUS
<1>2. w = Lesser(Greater(n \div 4, 3), Greater(n, 1))
  BY DEF SteadyWidth
<1>3. n \div 4 \in Nat /\ n \div 4 <= n /\ (n \div 4 = n => n <= 3)
  BY <1>1
<1>4. w \in 1..n /\ (w = n => n <= 3)
  <2> HIDE DEF w, n
  <2> QED BY <1>1, <1>2, <1>3 DEF Lesser, Greater
<1>5. Lesser(w, n) = w
  BY <1>4 DEF Lesser
<1>6. Steady(ss) = SumFrom(ss, n - Lesser(w, n) + 1, n)
  BY DEF Steady
<1> QED BY <1>4, <1>5, <1>6

(* A series that settles under 95 % of its peak has a sample under it from  *)
(* which on it also averages under it.                                     *)
LEMMA OnsetExists ==
  ASSUME NEW ss \in Seq(Sample), RetainedUnder(ss, 95)
  PROVE  \E i \in 2..Len(ss) : /\ UnderPeak(ss, ss[i].rate, 1, 95)
                               /\ UnderPeak(ss, SumFrom(ss, i, Len(ss)), Len(ss) - i + 1, 95)
<1> DEFINE n == Len(ss)
           p == PeakWidth(ss)
           peak == RollingPeak(ss)
           w == SteadyWidth(ss)
           from(i) == SumFrom(ss, i, n)
<1>1. ss # <<>> /\ peak > 0
  BY DEF RetainedUnder, RollingPeak
<1>2. /\ n \in Nat \ {0} /\ p \in 1..n /\ peak \in Int
      /\ n <= 3 => p = n /\ peak = from(1)
  BY <1>1, PeakIs
<1>3. /\ w \in 1..n /\ (w = n => n <= 3)
      /\ Steady(ss) = from(n - w + 1)
  BY <1>1, SteadyIs
<1>4. \A i \in 1..n : /\ from(i) \in Int /\ ss[i].rate \in Int
                      /\ i = n => from(i) = ss[i].rate
                      /\ i < n => from(i) = ss[i].rate + from(i + 1)
  <2> TAKE i \in 1..n
  <2>1. n \in 1..n /\ i <= n
    BY <1>2
  <2>2. ss[i].rate \in Int
    BY SampleIs
  <2> QED BY <2>1, <2>2, SumFromIs
<1>5. \A sum, width : UnderPeak(ss, sum, width, 95) <=> 100 * sum * p < 95 * peak * width
  BY DEF UnderPeak
<1> DEFINE tails == {i \in n - w + 1..n : 100 * from(i) * p < 95 * peak * (n - i + 1)}
<1>6. n - w + 1 \in tails
  <2>1. n - (n - w + 1) + 1 = w /\ n - w + 1 \in n - w + 1..n
    BY <1>2, <1>3
  <2>2. 100 * from(n - w + 1) * p < 95 * peak * w
    BY <1>3, <1>5 DEF RetainedUnder
  <2> HIDE DEF from, n, w, p, peak
  <2> QED BY <2>1, <2>2
<1>7. tails \subseteq 1..n /\ tails \in SUBSET Int /\ IsFiniteSet(tails)
  <2>1. tails \subseteq n - w + 1..n /\ n - w + 1..n \subseteq 1..n /\ IsFiniteSet(1..n)
    BY <1>2, <1>3, IntervalIs
  <2> HIDE DEF tails, n, w
  <2>2. tails \subseteq 1..n /\ 1..n \in SUBSET Int
    BY <2>1
  <2> QED BY <2>1, <2>2, FS_Subset
<1> DEFINE i == Max(tails)
<1>8. i \in tails /\ \A j \in tails : j <= i
  <2> HIDE DEF tails
  <2> QED BY <1>6, <1>7, MaxIs
<1> HIDE DEF i
<1>9. i \in 1..n /\ i \in n - w + 1..n /\ 100 * from(i) * p < 95 * peak * (n - i + 1)
  BY <1>7, <1>8
<1>10. 100 * ss[i].rate * p < 95 * peak * 1
  <2> SUFFICES ASSUME ~(100 * ss[i].rate * p < 95 * peak * 1)
               PROVE  FALSE
    OBVIOUS
  <2> DEFINE r == ss[i].rate
             s == from(i + 1)
             t == from(i)
  <2>0. r \in Int /\ t \in Int
    BY <1>4, <1>9
  <2>1. CASE i = n
    <3>1. t = r /\ n - i + 1 = 1
      BY <1>2, <1>4, <1>9, <2>1
    <3> HIDE DEF r, t, p, peak, n, from
    <3>2. 100 * t * p < 95 * peak * 1
      BY <1>9, <3>1 DEF t
    <3> QED BY <3>1, <3>2 DEF r
  <2>2. CASE i # n
    <3>1. i < n /\ i + 1 \in 1..n /\ i + 1 \in n - w + 1..n /\ n - (i + 1) + 1 = n - i
      BY <1>2, <1>3, <1>9, <2>2
    <3>2. t = r + s /\ s \in Int
      BY <1>4, <1>9, <3>1
    <3> DEFINE m == n - i
    <3>3. m \in Int /\ n - i + 1 = m + 1
      BY <1>2, <3>1
    <3>4. 100 * t * p < 95 * peak * (m + 1)
      <4> HIDE DEF from, p, peak, n, m
      <4> QED BY <1>9, <3>3
    <3>5. 100 * r * p >= 95 * peak * 1
      BY <1>2, <2>0
    <3>6. p \in Int /\ peak \in Int
      BY <1>2
    <3> HIDE DEF t, r, s, m, p, peak
    <3>7. 100 * (r + s) * p = 100 * r * p + 100 * s * p
      BY <2>0, <3>2, <3>6
    <3>8. 95 * peak * (m + 1) = 95 * peak * m + 95 * peak * 1
      BY <3>3, <3>6
    <3>9. 100 * r * p \in Int /\ 100 * s * p \in Int /\ 95 * peak * m \in Int /\ 95 * peak * 1 \in Int
      BY <2>0, <3>2, <3>3, <3>6
    <3>10. 100 * s * p < 95 * peak * m
      BY <3>2, <3>4, <3>5, <3>7, <3>8, <3>9
    <3>11. i + 1 \in tails
      BY <3>1, <3>10 DEF s, m, p, peak
    <3> QED BY <1>8, <1>9, <3>11
  <2> QED BY <2>1, <2>2
<1>11. i # 1
  <2> SUFFICES ASSUME i = 1
               PROVE  FALSE
    OBVIOUS
  <2>1. w = n /\ n <= 3
    BY <1>2, <1>3, <1>9
  <2>2. p = n /\ peak = from(1) /\ n - i + 1 = n
    BY <1>2, <2>1
  <2>3. 100 * peak * n < 95 * peak * n
    <3> HIDE DEF p, peak, from, n
    <3> QED BY <1>9, <2>2
  <2>4. peak \in Int /\ peak > 0 /\ n \in Int /\ n > 0
    BY <1>1, <1>2
  <2> HIDE DEF peak, n
  <2>5. peak * n > 0 /\ 100 * peak * n = 100 * (peak * n) /\ 95 * peak * n = 95 * (peak * n) /\ peak * n \in Int
    BY <2>4
  <2> QED BY <2>3, <2>5
<1>12. i \in 2..n
  BY <1>2, <1>9, <1>11
<1> QED
  <2> HIDE DEF from, p, peak, tails
  <2> QED BY <1>5, <1>9, <1>10, <1>12 DEF from, p, peak

(* The onset is found exactly when the run throttled.                      *)
LEMMA OnsetIs ==
  ASSUME NEW ss \in Seq(Sample)
  PROVE  ThrottleOnset(ss) # 0 <=> RetainedUnder(ss, 95)
<1> DEFINE low(i) == /\ UnderPeak(ss, ss[i].rate, 1, 95)
                     /\ UnderPeak(ss, SumFrom(ss, i, Len(ss)), Len(ss) - i + 1, 95)
           lows   == {i \in 2..Len(ss) : low(i)}
<1>1. ThrottleOnset(ss) =
        IF RollingPeak(ss) <= 0 \/ ~UnderPeak(ss, Steady(ss), SteadyWidth(ss), 95) \/ lows = {}
        THEN 0 ELSE ss[Min(lows)].t
  BY Zenon DEF ThrottleOnset
<1>2. RollingPeak(ss) \in Int
  BY PeakIs DEF RollingPeak
<1>3. ASSUME RetainedUnder(ss, 95)
      PROVE  ThrottleOnset(ss) # 0
  <2>1. lows # {}
    <3>1. \E i \in 2..Len(ss) : low(i)
      BY <1>3, OnsetExists
    <3> QED BY <3>1
  <2>2. lows \subseteq 1..Len(ss) /\ lows \in SUBSET Int /\ IsFiniteSet(lows)
    <3>1. lows \subseteq 2..Len(ss) /\ IsFiniteSet(2..Len(ss)) /\ 2..Len(ss) \subseteq 1..Len(ss)
      <4>1. Len(ss) \in Int
        BY SampleIs
      <4> QED BY <4>1, IntervalIs
    <3> HIDE DEF lows
    <3>2. lows \subseteq 1..Len(ss) /\ 1..Len(ss) \in SUBSET Int
      BY <3>1
    <3> QED BY <3>1, <3>2, FS_Subset
  <2> HIDE DEF lows
  <2>3. Min(lows) \in 1..Len(ss)
    BY <2>1, <2>2, MinIs
  <2>4. ss[Min(lows)].t # 0
    BY <2>3, SampleIs
  <2>5. ThrottleOnset(ss) = ss[Min(lows)].t
    BY <1>1, <1>2, <1>3, <2>1 DEF RetainedUnder
  <2> QED BY <2>4, <2>5
<1>4. ASSUME ThrottleOnset(ss) # 0
      PROVE  RetainedUnder(ss, 95)
  <2> HIDE DEF lows
  <2> QED BY <1>1, <1>2, <1>4 DEF RetainedUnder
<1> QED BY <1>3, <1>4

(* Drifting is said exactly between 95 and 97 %.                           *)
LEMMA DriftsIs ==
  ASSUME NEW ss \in Seq(Sample)
  PROVE  SoakVerdict(ss) = "drifts" <=> RetainedUnder(ss, 97) /\ ~RetainedUnder(ss, 95)
<1>1. ThrottleOnset(ss) # 0 <=> RetainedUnder(ss, 95)
  BY OnsetIs
<1> QED BY <1>1, Zenon DEF SoakVerdict

(* What the loop keeps: readings that only grow, the last sample no later  *)
(* than now, and every sample after the start.                             *)
SoakInv ==
  /\ elapsed \in Nat /\ total \in Nat
  /\ last \in [t : 0..elapsed, total : 0..total]
  /\ samples \in Seq(Sample)

(* The invariant holds before the load starts.                             *)
LEMMA SoakInitially == SoakInit => SoakInv
BY DEF SoakInit, SoakInv

(* Every step of the soak test keeps the invariant.                        *)
LEMMA SoakStep ==
  ASSUME SoakInv, [SoakNext]_soakVars
  PROVE  SoakInv'
<1>1. CASE UNCHANGED soakVars
  BY <1>1 DEF SoakInv, soakVars
<1>2. ASSUME NEW secs \in Asked, StartSoak(secs)
      PROVE  SoakInv'
  BY <1>2 DEF SoakInv, StartSoak
<1>3. CASE Cut
  BY <1>3 DEF SoakInv, Cut
<1>4. ASSUME NEW dt \in 1..(Step + Late), NEW rate \in Rates, Wake(dt, rate)
      PROVE  SoakInv'
  <2> DEFINE now   == elapsed + dt
             read  == total + rate * dt
             since == now - last.t
  <2>1. dt \in Nat \ {0} /\ rate \in Nat /\ MinDt \in Nat \ {0}
    BY SoakAssumption
  <2>2. last.t \in 0..elapsed /\ last.total \in 0..total /\ elapsed \in Nat /\ total \in Nat
    BY DEF SoakInv
  <2>3. rate * dt \in Nat
    BY <2>1
  <2>4. now \in Nat \ {0} /\ read \in Nat /\ elapsed <= now /\ total <= read
    <3> HIDE DEF SoakInv
    <3> QED BY <2>1, <2>2, <2>3
  <2>5. since \in Nat
    BY <2>1, <2>2
  <2>6. elapsed' = now /\ total' = read
    BY <1>4 DEF Wake
  <2>7. CASE since >= MinDt
    <3>1. /\ samples' = Append(samples, [t |-> now, rate |-> (read - last.total) \div since])
          /\ last' = [t |-> now, total |-> read]
      BY <1>4, <2>7 DEF Wake
    <3>2. read - last.total \in Nat /\ since \in Nat \ {0}
      BY <2>1, <2>2, <2>4, <2>5, <2>7
    <3> HIDE DEF now, read, since
    <3>3. (read - last.total) \div since \in Nat
      BY <3>2
    <3>4. [t |-> now, rate |-> (read - last.total) \div since] \in Sample
      BY <2>4, <3>3 DEF Sample
    <3>5. samples' \in Seq(Sample)
      BY <3>1, <3>4 DEF SoakInv
    <3>6. last' \in [t : 0..elapsed', total : 0..total']
      BY <2>4, <2>6, <3>1
    <3> QED BY <2>4, <2>6, <3>5, <3>6 DEF SoakInv
  <2>8. CASE ~(since >= MinDt)
    <3>1. UNCHANGED <<samples, last>>
      BY <1>4, <2>8 DEF Wake
    <3> HIDE DEF now, read, since
    <3>2. last' \in [t : 0..elapsed', total : 0..total']
      BY <2>2, <2>4, <2>6, <3>1 DEF SoakInv
    <3> QED BY <2>4, <2>6, <3>1, <3>2 DEF SoakInv
  <2> QED BY <2>7, <2>8
<1> QED BY <1>1, <1>2, <1>3, <1>4 DEF SoakNext

(* A machine that settles under 95 % of its peak is told when that began,  *)
(* only such a machine is, and "drifts" is said only between 95 and 97 %  *)
(* (soak.rs): for any rates, delays and durations, wherever an abort cuts.  *)
THEOREM SoakOnset == SoakSpec => []OnsetIffThrottled
<1>1. SoakInv => OnsetIffThrottled
  <2> SUFFICES ASSUME SoakInv
               PROVE  OnsetIffThrottled
    OBVIOUS
  <2>1. samples \in Seq(Sample)
    BY DEF SoakInv
  <2> QED BY <2>1, OnsetIs, DriftsIs DEF OnsetIffThrottled
<1> QED BY <1>1, SoakInitially, SoakStep, PTL DEF SoakSpec

(* -- The memory scan --------------------------------------------------- *)

Names == {NoName} \cup {program.name : program \in Programs}
ProcRows == [name : Names, private : Nat, shared : Nat]

ScanTypeOK ==
  /\ procs \in [Pids -> Programs \cup {Gone}] /\ listed \in [Pids -> Programs \cup {Gone}]
  /\ source \in {"pss", "working-set"}
  /\ next \in 1..Processes + 1 /\ named \in Names
  /\ rows \in Seq(ProcRows)
  /\ unreadable \in Nat /\ moved \in SUBSET Pids

(* A process that has not moved is what it was when it was listed, or its  *)
(* name read.                                                              *)
Unmoved ==
  /\ \A p \in Pids \ moved : listed[p] = procs[p]
  /\ named # NoName =>
       /\ source = "pss" /\ next \in Pids
       /\ next \notin moved => procs[next] # Gone /\ named = procs[next].name

(* who is the process each row was read from, denied those that could not  *)
(* be read: nobody in both or in two rows, and of the processes passed     *)
(* that stayed themselves nobody in neither who takes any memory.          *)
Accounts(who, denied) ==
  /\ who \in [DOMAIN rows -> 1..next - 1]
  /\ \A i, j \in DOMAIN rows : who[i] = who[j] => i = j
  /\ denied \in SUBSET (1..next - 1) /\ Cardinality(denied) = unreadable
  /\ \A i \in DOMAIN rows :
       /\ who[i] \notin denied
       /\ who[i] \notin moved => procs[who[i]] # Gone /\ rows[i].name = procs[who[i]].name
       /\ source = "pss" /\ moved = {} => TotalOf(rows[i]) = Pss(procs, who[i])
  /\ \A p \in 1..next - 1 : p \notin moved /\ procs[p] # Gone =>
       IF source = "pss" /\ ~procs[p].open THEN p \in denied
       ELSE /\ LeastSize(p) > 0 => \E i \in DOMAIN rows : who[i] = p
            /\ source = "pss" /\ moved = {} /\ Pss(procs, p) > 0 => \E i \in DOMAIN rows : who[i] = p

ScanInv == ScanTypeOK /\ Unmoved /\ \E who, denied : Accounts(who, denied)

(* A program, as procs and listed hold it.                                 *)
LEMMA AProgram ==
  ASSUME MemScanAssumption, NEW ps \in [Pids -> Programs \cup {Gone}], NEW p \in Pids
  PROVE  /\ ps[p].name \in Names /\ ps[p].private \in Nat /\ ps[p].shares \in BOOLEAN /\ ps[p].open \in BOOLEAN
         /\ ps[p] = Gone <=> ps[p].name = NoName
         /\ ps[p].name = NoName => ~ps[p].shares /\ ~ps[p].open /\ ps[p].private = 0
<1>1. NoName \in Names /\ Gone.name = NoName /\ Gone.private = 0 /\ Gone.shares = FALSE /\ Gone.open = FALSE
  BY DEF Gone, Names
<1>2. CASE ps[p] = Gone
  <2>1. ps[p].name = NoName /\ ps[p].private = 0 /\ ps[p].shares = FALSE /\ ps[p].open = FALSE
    BY <1>1, <1>2, Zenon
  <2>2. 0 \in Nat
    OBVIOUS
  <2> QED BY <1>1, <1>2, <2>1, <2>2, Zenon
<1>3. CASE ps[p] # Gone
  <2>1. ps[p] \in Programs
    BY <1>3
  <2>2. ps[p] \in [name : STRING, private : Nat, shares : BOOLEAN, open : BOOLEAN]
    BY <2>1 DEF MemScanAssumption
  <2>4. ps[p].name # NoName
    BY <2>1 DEF MemScanAssumption
  <2>3. ps[p].name \in Names /\ ps[p].private \in Nat
        /\ ps[p].shares \in BOOLEAN /\ ps[p].open \in BOOLEAN
    BY <2>1, <2>2 DEF Names
  <2> QED BY <1>3, <2>3, <2>4
<1> QED BY <1>2, <1>3

(* Division rounds down, and by more to no more.                           *)
LEMMA Divides ==
  /\ \A a \in Nat : \A b \in Nat \ {0} : a \div b \in Nat
  /\ \A a \in Nat : \A b, c \in Nat \ {0} : b <= c => a \div c <= a \div b
  /\ \A a \in Nat : \A b \in Nat \ {0} : a - b * (a \div b) \in 0..b - 1
<1>1. \A a \in Nat : \A b \in Nat \ {0} : a \div b \in Nat
  OBVIOUS
<1>2. \A a \in Nat : \A b \in Nat \ {0} : a - b * (a \div b) \in 0..b - 1
  OBVIOUS
<1>3. ASSUME NEW a \in Nat, NEW b \in Nat \ {0}, NEW c \in Nat \ {0}, b <= c
      PROVE  a \div c <= a \div b
  <2> DEFINE x == a \div c
             y == a \div b
  <2>1. x \in Nat /\ y \in Nat /\ a - c * x \in 0..c - 1 /\ a - b * y \in 0..b - 1
    BY <1>1, <1>2
  <2> HIDE DEF x, y
  <2>2. SUFFICES ASSUME x >= y + 1 PROVE FALSE
    BY <2>1 DEF x, y
  <2>3. b * x <= c * x
    BY <1>3, <2>1
  <2>4. b * x >= b * (y + 1)
    BY <2>1, <2>2
  <2>5. b * (y + 1) = b * y + b
    BY <2>1
  <2>6. b * x \in Int /\ c * x \in Int /\ b * y \in Int
    BY <2>1
  <2> QED BY <2>1, <2>3, <2>4, <2>5, <2>6
<1> QED BY <1>1, <1>2, <1>3

(* The sizes a row is made of. *)
LEMMA Sizes ==
  ASSUME MemScanAssumption, NEW ps \in [Pids -> Programs \cup {Gone}], NEW p \in Pids
  PROVE  /\ Pss(ps, p) \in Nat /\ Pss(ps, p) - ps[p].private \in Nat
         /\ WorkingSet(ps, p) \in Nat /\ WorkingSet(ps, p) - ps[p].private \in Nat
         /\ IsFiniteSet(Sharers(ps)) /\ Cardinality(Sharers(ps)) \in Nat
         /\ ps[p].shares => Cardinality(Sharers(ps)) \in 1..Processes
<1>1. ps[p].private \in Nat /\ SharedKb \in Nat /\ Processes \in Nat /\ ps[p].shares \in BOOLEAN
  BY AProgram DEF MemScanAssumption
<1>2. IsFiniteSet(Pids) /\ Cardinality(Pids) = Processes
  BY <1>1, FS_Interval DEF Pids
<1>3. Sharers(ps) \in SUBSET Pids
  BY DEF Sharers
<1>4. IsFiniteSet(Sharers(ps)) /\ Cardinality(Sharers(ps)) <= Processes
      /\ Cardinality(Sharers(ps)) \in Nat
  BY <1>2, <1>3, FS_Subset, FS_CardinalityType
<1>5. ASSUME ps[p].shares
      PROVE  Cardinality(Sharers(ps)) # 0
  <2>1. p \in Sharers(ps)
    BY <1>5 DEF Sharers
  <2> QED BY <1>4, <2>1, FS_EmptySet
<1> DEFINE k == Cardinality(Sharers(ps))
<1>6. ps[p].shares => SharedKb \div k \in Nat
  BY <1>1, <1>4, <1>5, Divides
<1> HIDE DEF k
<1>7. Pss(ps, p) = ps[p].private + IF ps[p].shares THEN SharedKb \div k ELSE 0
  BY DEF Pss, k
<1>8. WorkingSet(ps, p) = ps[p].private + IF ps[p].shares THEN SharedKb ELSE 0
  BY DEF WorkingSet
<1>9. ps[p].shares => k \in 1..Processes
  BY <1>1, <1>4, <1>5 DEF k
<1> QED BY <1>1, <1>4, <1>6, <1>7, <1>8, <1>9 DEF k

(* What a process takes at the least is no more than it is read to take. *)
LEMMA AtLeast ==
  ASSUME MemScanAssumption, procs \in [Pids -> Programs \cup {Gone}], NEW p \in Pids
  PROVE  /\ source = "pss" => LeastSize(p) <= Pss(procs, p)
         /\ source # "pss" => LeastSize(p) = WorkingSet(procs, p)
         /\ LeastSize(p) \in Nat
<1>1. procs[p].private \in Nat /\ SharedKb \in Nat /\ Processes \in Nat /\ procs[p].shares \in BOOLEAN
  BY AProgram DEF MemScanAssumption
<1> DEFINE k == Cardinality(Sharers(procs))
<1>2. procs[p].shares => k \in 1..Processes
  BY Sizes
<1> HIDE DEF k
<1>3. procs[p].shares => SharedKb \div Processes <= SharedKb \div k
                         /\ SharedKb \div Processes \in Nat /\ SharedKb \div k \in Nat
  <2> SUFFICES ASSUME procs[p].shares
               PROVE  SharedKb \div Processes <= SharedKb \div k
                      /\ SharedKb \div Processes \in Nat /\ SharedKb \div k \in Nat
    OBVIOUS
  <2>1. k \in Nat \ {0} /\ Processes \in Nat \ {0} /\ k <= Processes
    BY <1>1, <1>2
  <2> QED BY <1>1, <2>1, Divides
<1>4. Pss(procs, p) = procs[p].private + IF procs[p].shares THEN SharedKb \div k ELSE 0
  BY DEF Pss, k
<1>5. WorkingSet(procs, p) = procs[p].private + IF procs[p].shares THEN SharedKb ELSE 0
  BY DEF WorkingSet
<1>6. LeastSize(p) = procs[p].private
          + IF procs[p].shares
            THEN (IF source = "pss" THEN SharedKb \div Processes ELSE SharedKb) ELSE 0
  BY DEF LeastSize
<1> QED BY <1>1, <1>3, <1>4, <1>5, <1>6

(* Before the scan nobody is answered for.                                 *)
LEMMA ScanStart ==
  ASSUME MemScanAssumption, ScanInit
  PROVE  ScanInv
<1>1. ScanTypeOK
  <2>1. NoName \in Names /\ <<>> \in Seq(ProcRows) /\ Processes \in Nat
    BY DEF MemScanAssumption, Names
  <2>2. 1 \in 1..Processes + 1
    BY <2>1
  <2> QED BY <2>1, <2>2 DEF ScanInit, ScanTypeOK
<1>2. Unmoved
  BY DEF ScanInit, Unmoved
<1>3. Accounts(<<>>, {})
  <2>1. rows = <<>> /\ DOMAIN rows = {} /\ next = 1 /\ unreadable = 0
    BY DEF ScanInit
  <2>2. 1..next - 1 = {}
    BY <2>1
  <2>3. <<>> \in [DOMAIN rows -> 1..next - 1]
    BY <2>1
  <2>4. Cardinality({}) = unreadable
    BY <2>1, FS_EmptySet
  <2> QED BY <2>1, <2>2, <2>3, <2>4 DEF Accounts
<1> QED BY <1>1, <1>2, <1>3 DEF ScanInv

(* A process that changes is not answered for any more; what holds of the  *)
(* others goes on holding.                                                 *)
LEMMA MovesKeep ==
  ASSUME MemScanAssumption, ScanInv, NEW p \in Pids, NEW program \in Programs \cup {Gone},
         ProcessMoves(p, program)
  PROVE  ScanInv'
<1>1. ScanTypeOK /\ Unmoved
  BY DEF ScanInv
<1>2. PICK who : \E denied : Accounts(who, denied)
  BY DEF ScanInv
<1>3. PICK denied : Accounts(who, denied)
  BY <1>2
<1>4. /\ procs' = [procs EXCEPT ![p] = program] /\ moved' = moved \cup {p}
      /\ source' = source /\ listed' = listed /\ next' = next /\ named' = named
      /\ rows' = rows /\ unreadable' = unreadable
  BY DEF ProcessMoves
<1>5. \A q \in Pids \ moved' : q \notin moved /\ procs'[q] = procs[q]
  BY <1>1, <1>4 DEF ScanTypeOK
<1>6. ScanTypeOK'
  BY <1>1, <1>4 DEF ScanTypeOK
<1>7. Unmoved'
  BY <1>1, <1>4, <1>5 DEF Unmoved
<1>8. Accounts(who, denied)'
  <2>1. moved' # {}
    BY <1>4
  <2>2. /\ who \in [DOMAIN rows' -> 1..next' - 1]
        /\ \A i, j \in DOMAIN rows' : who[i] = who[j] => i = j
        /\ denied \in SUBSET (1..next' - 1) /\ Cardinality(denied) = unreadable'
    BY <1>3, <1>4 DEF Accounts
  <2>3. \A q \in 1..next - 1 : q \in Pids
    BY <1>1 DEF ScanTypeOK, Pids, MemScanAssumption
  <2>4. ASSUME NEW i \in DOMAIN rows'
        PROVE  /\ who[i] \notin denied
               /\ who[i] \notin moved' => procs'[who[i]] # Gone /\ rows'[i].name = procs'[who[i]].name
    <3>1. i \in DOMAIN rows /\ who[i] \in Pids
      BY <1>3, <1>4, <2>3, <2>4 DEF Accounts
    <3> QED BY <1>3, <1>4, <1>5, <3>1 DEF Accounts
  <2>5. ASSUME NEW q \in 1..next' - 1, q \notin moved', procs'[q] # Gone
        PROVE  IF source' = "pss" /\ ~procs'[q].open THEN q \in denied
               ELSE LeastSize(q)' > 0 => \E i \in DOMAIN rows' : who[i] = q
    <3>1. q \in 1..next - 1 /\ q \in Pids \ moved'
      BY <1>4, <2>3, <2>5
    <3>2. procs'[q] = procs[q] /\ q \notin moved
      BY <1>5, <3>1
    <3>3. LeastSize(q)' = LeastSize(q)
      BY <1>4, <3>2 DEF LeastSize
    <3>4. IF source = "pss" /\ ~procs[q].open THEN q \in denied
          ELSE LeastSize(q) > 0 => \E i \in DOMAIN rows : who[i] = q
      BY <1>3, <2>5, <3>1, <3>2 DEF Accounts
    <3> QED BY <1>4, <3>2, <3>3, <3>4
  <2> QED BY <2>1, <2>2, <2>4, <2>5 DEF Accounts
<1> QED BY <1>6, <1>7, <1>8 DEF ScanInv

(* What the three outcomes of looking at the next process have in common.  *)
Looks ==
  /\ next \in Pids /\ next' = next + 1 /\ named' = NoName
  /\ UNCHANGED <<procs, source, listed, moved>>

(* Whatever the outcome, the process looked at becomes one that is passed. *)
LEMMA LooksKeep ==
  ASSUME MemScanAssumption, ScanTypeOK, Unmoved, Looks
  PROVE  /\ procs' \in [Pids -> Programs \cup {Gone}] /\ listed' \in [Pids -> Programs \cup {Gone}]
         /\ source' \in {"pss", "working-set"}
         /\ next' \in 1..Processes + 1 /\ named' \in Names
         /\ moved' \in SUBSET Pids
         /\ Unmoved'
         /\ next \in Nat /\ next' - 1 = next
         /\ 1..next' - 1 = (1..next - 1) \cup {next} /\ next \notin 1..next - 1
         /\ \A q \in Pids : LeastSize(q)' = LeastSize(q)
<1>1. Processes \in Nat /\ next \in 1..Processes /\ next' = next + 1
  BY DEF MemScanAssumption, Looks, Pids
<1>2. next' \in 1..Processes + 1 /\ next \in Nat /\ next' - 1 = next
      /\ 1..next' - 1 = (1..next - 1) \cup {next} /\ next \notin 1..next - 1
  BY <1>1
<1>3. named' \in Names
  BY DEF Looks, Names
<1>4. Unmoved'
  BY DEF Unmoved, Looks
<1>5. \A q \in Pids : LeastSize(q)' = LeastSize(q)
  BY DEF Looks, LeastSize
<1> QED BY <1>2, <1>3, <1>4, <1>5 DEF ScanTypeOK, Looks

(* Nothing comes of a process that is gone or takes no memory.             *)
LEMMA SkipKeeps ==
  ASSUME MemScanAssumption, ScanInv, Looks, Skip,
         next \notin moved /\ procs[next] # Gone =>
           /\ ~(source = "pss" /\ ~procs[next].open)
           /\ LeastSize(next) = 0
           /\ source = "pss" => Pss(procs, next) = 0
  PROVE  ScanInv'
<1>1. ScanTypeOK /\ Unmoved
  BY DEF ScanInv
<1>2. PICK who : \E denied : Accounts(who, denied)
  BY DEF ScanInv
<1>3. PICK denied : Accounts(who, denied)
  BY <1>2
<1>4. /\ next \in Pids /\ next' = next + 1 /\ procs' = procs /\ source' = source
      /\ moved' = moved /\ rows' = rows /\ unreadable' = unreadable
  BY DEF Looks, Skip
<1>5. ScanTypeOK'
  BY <1>1, <1>4, LooksKeep DEF ScanTypeOK
<1>6. Accounts(who, denied)'
  <2>1. 1..next' - 1 = (1..next - 1) \cup {next} /\ next \in Pids
    BY <1>1, <1>4, LooksKeep
  <2>2. /\ who \in [DOMAIN rows' -> 1..next' - 1]
        /\ \A i, j \in DOMAIN rows' : who[i] = who[j] => i = j
        /\ denied \in SUBSET (1..next' - 1) /\ Cardinality(denied) = unreadable'
    BY <1>3, <1>4, <2>1 DEF Accounts
  <2>3. \A i \in DOMAIN rows' :
          /\ who[i] \notin denied
          /\ who[i] \notin moved' => procs'[who[i]] # Gone /\ rows'[i].name = procs'[who[i]].name
          /\ source' = "pss" /\ moved' = {} => TotalOf(rows'[i]) = Pss(procs', who[i])
    BY <1>3, <1>4 DEF Accounts
  <2>4. ASSUME NEW q \in 1..next' - 1, q \notin moved', procs'[q] # Gone
        PROVE  IF source' = "pss" /\ ~procs'[q].open THEN q \in denied
               ELSE /\ LeastSize(q)' > 0 => \E i \in DOMAIN rows' : who[i] = q
                    /\ source' = "pss" /\ moved' = {} /\ Pss(procs', q) > 0 =>
                         \E i \in DOMAIN rows' : who[i] = q
    <3>1. CASE q = next
      <4>1. LeastSize(q)' = 0
        BY <1>1, <1>4, <2>4, <3>1, LooksKeep
      <4> QED BY <1>4, <2>4, <3>1, <4>1
    <3>2. CASE q # next
      <4>1. q \in 1..next - 1 /\ q \in Pids
        BY <1>1, <2>1, <2>4, <3>2 DEF ScanTypeOK, Pids, MemScanAssumption
      <4>2. LeastSize(q)' = LeastSize(q)
        BY <1>1, <4>1, LooksKeep
      <4> QED BY <1>3, <1>4, <2>4, <4>1, <4>2 DEF Accounts
    <3> QED BY <3>1, <3>2
  <2> QED BY <2>2, <2>3, <2>4 DEF Accounts
<1> QED BY <1>1, <1>5, <1>6, LooksKeep DEF ScanInv

(* A process that may not be looked into joins the denied.                 *)
LEMMA DeniedKeeps ==
  ASSUME MemScanAssumption, ScanInv, Looks, Denied,
         next \notin moved /\ procs[next] # Gone =>
           \/ source = "pss" /\ ~procs[next].open
           \/ source # "pss" /\ LeastSize(next) = 0
  PROVE  ScanInv'
<1>1. ScanTypeOK /\ Unmoved
  BY DEF ScanInv
<1>2. PICK who : \E shut : Accounts(who, shut)
  BY DEF ScanInv
<1>3. PICK shut : Accounts(who, shut)
  BY <1>2
<1>0. PICK denied : denied = shut \cup {next}
  OBVIOUS
<1>4. /\ next \in Pids /\ next' = next + 1 /\ procs' = procs /\ source' = source
      /\ moved' = moved /\ rows' = rows /\ unreadable' = unreadable + 1
  BY DEF Looks, Denied
<1>5. ScanTypeOK'
  BY <1>1, <1>4, LooksKeep DEF ScanTypeOK
<1>6. 1..next' - 1 = (1..next - 1) \cup {next} /\ next \in Pids /\ next \notin 1..next - 1 /\ next \in Nat
  BY <1>1, <1>4, LooksKeep
<1>7. Cardinality(denied) = unreadable'
  <2>1. shut \in SUBSET (1..next - 1) /\ Cardinality(shut) = unreadable
    BY <1>3 DEF Accounts
  <2>2. IsFiniteSet(1..next - 1)
    BY <1>6, FS_Interval
  <2>3. IsFiniteSet(shut) /\ next \notin shut
    BY <1>6, <2>1, <2>2, FS_Subset
  <2> QED BY <1>0, <1>4, <2>1, <2>3, FS_AddElement
<1>8. Accounts(who, denied)'
  <2>2. /\ who \in [DOMAIN rows' -> 1..next' - 1]
        /\ \A i, j \in DOMAIN rows' : who[i] = who[j] => i = j
        /\ denied \in SUBSET (1..next' - 1) /\ Cardinality(denied) = unreadable'
    BY <1>0, <1>3, <1>4, <1>6, <1>7 DEF Accounts
  <2>3. \A i \in DOMAIN rows' :
          /\ who[i] \notin denied
          /\ who[i] \notin moved' => procs'[who[i]] # Gone /\ rows'[i].name = procs'[who[i]].name
          /\ source' = "pss" /\ moved' = {} => TotalOf(rows'[i]) = Pss(procs', who[i])
    BY <1>0, <1>3, <1>4, <1>6 DEF Accounts
  <2>4. ASSUME NEW q \in 1..next' - 1, q \notin moved', procs'[q] # Gone
        PROVE  IF source' = "pss" /\ ~procs'[q].open THEN q \in denied
               ELSE /\ LeastSize(q)' > 0 => \E i \in DOMAIN rows' : who[i] = q
                    /\ source' = "pss" /\ moved' = {} /\ Pss(procs', q) > 0 =>
                         \E i \in DOMAIN rows' : who[i] = q
    <3>1. CASE q = next
      <4>1. LeastSize(q)' = LeastSize(next)
        BY <1>1, <1>4, <3>1, LooksKeep
      <4> QED BY <1>0, <1>4, <2>4, <3>1, <4>1
    <3>2. CASE q # next
      <4>1. q \in 1..next - 1 /\ q \in Pids
        BY <1>1, <1>6, <2>4, <3>2 DEF ScanTypeOK, Pids, MemScanAssumption
      <4>2. LeastSize(q)' = LeastSize(q)
        BY <1>1, <4>1, LooksKeep
      <4> QED BY <1>0, <1>3, <1>4, <2>4, <4>1, <4>2 DEF Accounts
    <3> QED BY <3>1, <3>2
  <2> QED BY <2>2, <2>3, <2>4 DEF Accounts
<1> QED BY <1>1, <1>5, <1>8, LooksKeep DEF ScanInv

(* A process that is read answers for the new row.                         *)
LEMMA ReadKeeps ==
  ASSUME MemScanAssumption, ScanInv, Looks, NEW row \in ProcRows, Read(row),
         next \notin moved =>
           /\ procs[next] # Gone /\ row.name = procs[next].name
           /\ ~(source = "pss" /\ ~procs[next].open),
         source = "pss" => TotalOf(row) = Pss(procs, next)
  PROVE  ScanInv'
<1>1. ScanTypeOK /\ Unmoved
  BY DEF ScanInv
<1>2. PICK was : \E denied : Accounts(was, denied)
  BY DEF ScanInv
<1>3. PICK denied : Accounts(was, denied)
  BY <1>2
<1>0. PICK n : n = Len(rows) + 1
  OBVIOUS
<1>01. PICK who : who = [i \in 1..n |-> IF i = n THEN next ELSE was[i]]
  OBVIOUS
<1>4. /\ next \in Pids /\ next' = next + 1 /\ procs' = procs /\ source' = source
      /\ moved' = moved /\ rows' = Append(rows, row) /\ unreadable' = unreadable
  BY DEF Looks, Read
<1>5. ScanTypeOK'
  <2>1. Append(rows, row) \in Seq(ProcRows)
    BY <1>1 DEF ScanTypeOK
  <2> QED BY <1>1, <1>4, <2>1, LooksKeep DEF ScanTypeOK
<1>6. 1..next' - 1 = (1..next - 1) \cup {next} /\ next \in Pids /\ next \notin 1..next - 1 /\ next \in Nat
  BY <1>1, <1>4, LooksKeep
<1>7. /\ DOMAIN rows' = 1..n /\ DOMAIN rows = 1..n - 1 /\ n \in 1..n
      /\ \A i \in 1..n : i = n \/ i \in 1..n - 1
      /\ \A i \in 1..n - 1 : i # n /\ i \in 1..n
      /\ rows'[n] = row /\ \A i \in 1..n - 1 : rows'[i] = rows[i]
  BY <1>0, <1>1, <1>4 DEF ScanTypeOK
<1>8. who[n] = next /\ \A i \in 1..n - 1 : who[i] = was[i] /\ who[i] \in 1..next - 1 /\ who[i] # next
  BY <1>01, <1>3, <1>6, <1>7 DEF Accounts
<1>9. who \in [1..n -> 1..next' - 1]
  <2>1. \A i \in 1..n : who[i] \in 1..next' - 1
    BY <1>6, <1>7, <1>8
  <2>2. who = [i \in 1..n |-> who[i]]
    BY <1>01
  <2> QED BY <2>1, <2>2
<1>10. Accounts(who, denied)'
  <2>1. /\ who \in [DOMAIN rows' -> 1..next' - 1]
        /\ denied \in SUBSET (1..next' - 1) /\ Cardinality(denied) = unreadable'
    BY <1>3, <1>4, <1>6, <1>7, <1>9 DEF Accounts
  <2>2. \A i, j \in DOMAIN rows' : who[i] = who[j] => i = j
    BY <1>3, <1>7, <1>8 DEF Accounts
  <2>3. ASSUME NEW i \in DOMAIN rows'
        PROVE  /\ who[i] \notin denied
               /\ who[i] \notin moved' => procs'[who[i]] # Gone /\ rows'[i].name = procs'[who[i]].name
               /\ source' = "pss" /\ moved' = {} => TotalOf(rows'[i]) = Pss(procs', who[i])
    <3>1. CASE i = n
      <4>1. next \notin denied
        BY <1>3, <1>6 DEF Accounts
      <4> QED BY <1>4, <1>7, <1>8, <3>1, <4>1
    <3>2. CASE i # n
      <4>1. i \in DOMAIN rows /\ rows'[i] = rows[i] /\ who[i] = was[i]
        BY <1>7, <1>8, <2>3, <3>2
      <4> QED BY <1>3, <1>4, <4>1 DEF Accounts
    <3> QED BY <3>1, <3>2
  <2>4. ASSUME NEW q \in 1..next' - 1, q \notin moved', procs'[q] # Gone
        PROVE  IF source' = "pss" /\ ~procs'[q].open THEN q \in denied
               ELSE /\ LeastSize(q)' > 0 => \E i \in DOMAIN rows' : who[i] = q
                    /\ source' = "pss" /\ moved' = {} /\ Pss(procs', q) > 0 =>
                         \E i \in DOMAIN rows' : who[i] = q
    <3>1. CASE q = next
      BY <1>4, <1>7, <1>8, <2>4, <3>1
    <3>2. CASE q # next
      <4>1. q \in 1..next - 1 /\ q \in Pids
        BY <1>1, <1>6, <2>4, <3>2 DEF ScanTypeOK, Pids, MemScanAssumption
      <4>2. LeastSize(q)' = LeastSize(q)
        BY <1>1, <4>1, LooksKeep
      <4>3. (\E i \in DOMAIN rows : was[i] = q) => \E i \in DOMAIN rows' : who[i] = q
        BY <1>7, <1>8
      <4>4. IF source = "pss" /\ ~procs[q].open THEN q \in denied
            ELSE /\ LeastSize(q) > 0 => \E i \in DOMAIN rows : was[i] = q
                 /\ source = "pss" /\ moved = {} /\ Pss(procs, q) > 0 => \E i \in DOMAIN rows : was[i] = q
        BY <1>3, <1>4, <2>4, <4>1 DEF Accounts
      <4> QED BY <1>4, <4>2, <4>3, <4>4
    <3> QED BY <3>1, <3>2
  <2> QED BY <2>1, <2>2, <2>3, <2>4 DEF Accounts
<1> QED BY <1>1, <1>5, <1>10, LooksKeep DEF ScanInv

(* Linux: the name read is that of the process, unless it moves.           *)
LEMMA ProgramNameKeeps ==
  ASSUME MemScanAssumption, ScanInv, ProgramName
  PROVE  ScanInv'
<1>1. ScanTypeOK /\ Unmoved
  BY DEF ScanInv
<1>2. source = "pss" /\ next \in Pids /\ named = NoName /\ procs \in [Pids -> Programs \cup {Gone}]
  BY <1>1 DEF ProgramName, ScanTypeOK
<1>3. procs[next].name \in Names /\ (procs[next] = Gone <=> procs[next].name = NoName)
  BY <1>2, AProgram
<1>4. CASE procs[next] = Gone
  <2>1. Looks
    BY <1>2, <1>3, <1>4 DEF ProgramName, Looks
  <2>2. Skip
    BY DEF ProgramName, Skip
  <2> QED BY <1>4, <2>1, <2>2, SkipKeeps
<1>5. CASE procs[next] # Gone
  <2>1. /\ named' = procs[next].name /\ next' = next /\ procs' = procs /\ source' = source
        /\ listed' = listed /\ rows' = rows /\ unreadable' = unreadable /\ moved' = moved
    BY <1>5 DEF ProgramName
  <2>2. ScanTypeOK'
    BY <1>1, <1>3, <2>1 DEF ScanTypeOK
  <2>3. Unmoved'
    BY <1>1, <1>2, <1>5, <2>1 DEF Unmoved
  <2>4. PICK who : \E denied : Accounts(who, denied)
    BY DEF ScanInv
  <2>5. PICK denied : Accounts(who, denied)
    BY <2>4
  <2>6. \A q : LeastSize(q)' = LeastSize(q)
    BY <2>1 DEF LeastSize
  <2>7. Accounts(who, denied)'
    BY <2>1, <2>5, <2>6 DEF Accounts
  <2> QED BY <2>2, <2>3, <2>7 DEF ScanInv
<1> QED BY <1>4, <1>5

(* Linux: one of the three outcomes, with the proportional set size.       *)
LEMMA ReadOneKeeps ==
  ASSUME MemScanAssumption, ScanInv, ReadOne
  PROVE  ScanInv'
<1>1. ScanTypeOK /\ Unmoved
  BY DEF ScanInv
<1>2. source = "pss" /\ named # NoName /\ next \in Pids /\ named \in Names
      /\ procs \in [Pids -> Programs \cup {Gone}]
  <2>1. source = "pss" /\ named # NoName
    BY DEF ReadOne
  <2>2. next \in Pids
    BY <1>1, <2>1, Zenon DEF Unmoved
  <2> QED BY <1>1, <2>1, <2>2 DEF ScanTypeOK
<1>3. Looks
  BY <1>2 DEF ReadOne, Looks
<1>4. next \notin moved => procs[next] # Gone /\ named = procs[next].name
  BY <1>1, <1>2 DEF Unmoved
<1>5. /\ Pss(procs, next) \in Nat /\ Pss(procs, next) - procs[next].private \in Nat
      /\ procs[next].private \in Nat
  BY <1>2, Sizes, AProgram
<1>6. LeastSize(next) \in Nat /\ LeastSize(next) <= Pss(procs, next)
  BY <1>2, AtLeast
<1>7. CASE procs[next] # Gone /\ ~procs[next].open /\ Denied
  BY <1>2, <1>3, <1>7, DeniedKeeps
<1>8. CASE procs[next].open
           /\ Read(ProcRow(named, procs[next].private, Pss(procs, next) - procs[next].private))
  <2> DEFINE row == ProcRow(named, procs[next].private, Pss(procs, next) - procs[next].private)
  <2>1. row.name = named /\ row.private = procs[next].private
        /\ row.shared = Pss(procs, next) - procs[next].private
    BY DEF ProcRow
  <2>2. row \in ProcRows
    BY <1>2, <1>5 DEF ProcRow, ProcRows
  <2>3. TotalOf(row) = Pss(procs, next)
    <3> HIDE DEF row
    <3>1. TotalOf(row) = row.private + row.shared
      BY DEF TotalOf
    <3> QED BY <1>5, <2>1, <3>1
  <2>4. Read(row)
    BY <1>8
  <2> HIDE DEF row
  <2> QED BY <1>3, <1>4, <1>8, <2>1, <2>2, <2>3, <2>4, ReadKeeps
<1>9. CASE (procs[next] = Gone \/ (procs[next].open /\ Pss(procs, next) = 0)) /\ Skip
  BY <1>3, <1>6, <1>9, SkipKeeps
<1> QED BY <1>7, <1>8, <1>9 DEF ReadOne

(* Windows: one of the three outcomes, with the listed name.               *)
LEMMA CountersKeep ==
  ASSUME MemScanAssumption, ScanInv, Counters
  PROVE  ScanInv'
<1>1. ScanTypeOK /\ Unmoved
  BY DEF ScanInv
<1>2. source = "working-set" /\ next \in Pids
      /\ procs \in [Pids -> Programs \cup {Gone}] /\ listed \in [Pids -> Programs \cup {Gone}]
  BY <1>1 DEF Counters, ScanTypeOK
<1>3. source # "pss"
  BY <1>2
<1>4. named = NoName
  <2>1. named # NoName => source = "pss"
    BY <1>1, Zenon DEF Unmoved
  <2> QED BY <1>3, <2>1
<1>5. Looks
  BY <1>2, <1>4 DEF Counters, Looks
<1>6. next \notin moved => listed[next] = procs[next]
  BY <1>1, <1>2 DEF Unmoved
<1>7. /\ WorkingSet(procs, next) - procs[next].private \in Nat /\ procs[next].private \in Nat
      /\ WorkingSet(listed, next) \in Nat /\ listed[next].name \in Names
  BY <1>2, Sizes, AProgram
<1>8. LeastSize(next) = WorkingSet(procs, next)
  BY <1>2, <1>3, AtLeast
<1>9. next \notin moved => WorkingSet(listed, next) = WorkingSet(procs, next)
  BY <1>6 DEF WorkingSet
<1>10. CASE listed[next] = Gone /\ Skip
  BY <1>5, <1>6, <1>10, SkipKeeps
<1>11. CASE listed[next] # Gone
            /\ Read(ProcRow(listed[next].name, procs[next].private,
                            WorkingSet(procs, next) - procs[next].private))
  <2>1. PICK row : row = ProcRow(listed[next].name, procs[next].private,
                                 WorkingSet(procs, next) - procs[next].private)
    OBVIOUS
  <2>2. row \in ProcRows /\ row.name = listed[next].name
    BY <1>7, <2>1 DEF ProcRow, ProcRows
  <2>3. Read(row)
    BY <1>11, <2>1
  <2> QED BY <1>3, <1>5, <1>6, <1>11, <2>2, <2>3, ReadKeeps
<1>12. CASE listed[next] # Gone /\ Read(ProcRow(listed[next].name, WorkingSet(listed, next), 0))
  <2>1. PICK row : row = ProcRow(listed[next].name, WorkingSet(listed, next), 0)
    OBVIOUS
  <2>2. row \in ProcRows /\ row.name = listed[next].name
    BY <1>7, <2>1 DEF ProcRow, ProcRows
  <2>3. Read(row)
    BY <1>12, <2>1
  <2> QED BY <1>3, <1>5, <1>6, <1>12, <2>2, <2>3, ReadKeeps
<1>13. CASE listed[next] # Gone /\ ~(WorkingSet(listed, next) > 0) /\ Denied
  <2>1. WorkingSet(listed, next) = 0
    BY <1>7, <1>13
  <2> QED BY <1>3, <1>5, <1>8, <1>9, <1>13, <2>1, DeniedKeeps
<1> QED BY <1>10, <1>11, <1>12, <1>13 DEF Counters

(* The scan can account for every process at every moment.                 *)
LEMMA ScanInvariance ==
  ASSUME MemScanAssumption
  PROVE  ScanSpec => []ScanInv
<1>1. ScanInit => ScanInv
  BY ScanStart
<1>2. ScanInv /\ [ScanNext]_scanVars => ScanInv'
  <2> SUFFICES ASSUME ScanInv, [ScanNext]_scanVars
               PROVE  ScanInv'
    OBVIOUS
  <2>1. CASE \E p \in Pids, program \in Programs \cup {Gone} : ProcessMoves(p, program)
    BY <2>1, MovesKeep
  <2>2. CASE ProgramName
    BY <2>2, ProgramNameKeeps
  <2>3. CASE ReadOne
    BY <2>3, ReadOneKeeps
  <2>4. CASE Counters
    BY <2>4, CountersKeep
  <2>5. CASE UNCHANGED scanVars
    <3>1. /\ procs' = procs /\ source' = source /\ listed' = listed /\ next' = next
          /\ named' = named /\ rows' = rows /\ unreadable' = unreadable /\ moved' = moved
      BY <2>5 DEF scanVars
    <3>2. PICK who : \E denied : Accounts(who, denied)
      BY DEF ScanInv
    <3>3. PICK denied : Accounts(who, denied)
      BY <3>2
    <3>4. \A q : LeastSize(q)' = LeastSize(q)
      BY <3>1 DEF LeastSize
    <3>5. Accounts(who, denied)'
      BY <3>1, <3>3, <3>4 DEF Accounts
    <3>6. ScanTypeOK'
      BY <3>1 DEF ScanInv, ScanTypeOK
    <3>7. Unmoved'
      BY <3>1 DEF ScanInv, Unmoved
    <3> QED BY <3>5, <3>6, <3>7 DEF ScanInv
  <2> QED BY <2>1, <2>2, <2>3, <2>4, <2>5 DEF ScanNext
<1> QED BY <1>1, <1>2, PTL DEF ScanSpec

(* As many names as things named.                                          *)
LEMMA ImageSize ==
  ASSUME NEW S, IsFiniteSet(S), NEW w, \A i, j \in S : w[i] = w[j] => i = j
  PROVE  IsFiniteSet({w[i] : i \in S}) /\ Cardinality({w[i] : i \in S}) = Cardinality(S)
<1> DEFINE T == {w[i] : i \in S}
           f == [i \in S |-> w[i]]
<1>1. f \in [S -> T] /\ (\A i, j \in S : f[i] = f[j] => i = j) /\ (\A y \in T : \E i \in S : f[i] = y)
  OBVIOUS
<1> HIDE DEF f, T
<1>2. f \in Bijection(S, T)
  BY <1>1 DEF Bijection, Injection, Surjection, IsInjective
<1>3. ExistsBijection(S, T)
  BY <1>2 DEF ExistsBijection
<1>4. IsFiniteSet(T) /\ Cardinality(T) = Cardinality(S)
  BY <1>3, FS_Bijection
<1> QED BY <1>4 DEF T

(* A row's sizes are numbers.                                              *)
LEMMA RowIs ==
  ASSUME rows \in Seq(ProcRows), NEW i \in DOMAIN rows
  PROVE  /\ rows[i].private \in Nat /\ rows[i].shared \in Nat
         /\ TotalOf(rows[i]) = rows[i].private + rows[i].shared /\ TotalOf(rows[i]) \in Int
<1>1. rows[i] \in ProcRows
  OBVIOUS
<1>2. rows[i].private \in Nat /\ rows[i].shared \in Nat
  BY <1>1 DEF ProcRows
<1> QED BY <1>2 DEF TotalOf

(* The groups' sizes are the sums over their rows.                         *)
LEMMA ProgramIs ==
  ASSUME rows \in Seq(ProcRows), NEW name
  PROVE  /\ RowsOf(name) \in SUBSET DOMAIN rows /\ IsFiniteSet(RowsOf(name))
         /\ Program(name).name = name
         /\ Program(name).processes = Cardinality(RowsOf(name))
         /\ Program(name).processes \in Nat
         /\ TotalOf(Program(name)) \in Int
         /\ TotalOf(Program(name))
              = SumFunctionOnSet([i \in DOMAIN rows |-> TotalOf(rows[i])], RowsOf(name))
<1> DEFINE R == RowsOf(name)
           f == [i \in DOMAIN rows |-> rows[i].private]
           g == [i \in DOMAIN rows |-> rows[i].shared]
           h == [i \in DOMAIN rows |-> TotalOf(rows[i])]
<1>1. R \in SUBSET DOMAIN rows
  BY DEF RowsOf
<1>2. IsFiniteSet(DOMAIN rows)
  <2>1. DOMAIN rows = 1..Len(rows) /\ Len(rows) \in Nat
    OBVIOUS
  <2> QED BY <2>1, FS_Interval
<1>3. IsFiniteSet(R) /\ Cardinality(R) \in Nat
  <2> HIDE DEF R
  <2> QED BY <1>1, <1>2, FS_Subset, FS_CardinalityType
<1>4. \A i \in R : f[i] \in Int /\ g[i] \in Int /\ h[i] = f[i] + g[i]
  BY <1>1, RowIs
<1>5. /\ Program(name).name = name /\ Program(name).processes = Cardinality(R)
      /\ Program(name).private = SumFunctionOnSet(f, R)
      /\ Program(name).shared = SumFunctionOnSet(g, R)
  BY DEF Program
<1> HIDE DEF R, f, g, h
<1>6. SumFunctionOnSet(h, R) = SumFunctionOnSet(f, R) + SumFunctionOnSet(g, R)
  BY <1>3, <1>4, SumPlus
<1>7. SumFunctionOnSet(f, R) \in Int /\ SumFunctionOnSet(g, R) \in Int
  BY <1>3, <1>4, SumIs
<1>8. TotalOf(Program(name)) = SumFunctionOnSet(f, R) + SumFunctionOnSet(g, R)
  BY <1>5 DEF TotalOf
<1>9. TotalOf(Program(name)) = SumFunctionOnSet(h, R) /\ TotalOf(Program(name)) \in Int
  BY <1>6, <1>7, <1>8
<1> QED BY <1>1, <1>3, <1>5, <1>9 DEF R, h

ByName == {Program(row.name) : row \in Range(rows)}
NamesOf == [i \in DOMAIN rows |-> Program(rows[i].name)]

(* The groups, one for each name, with the rows of that name.              *)
LEMMA ByNameIs ==
  ASSUME rows \in Seq(ProcRows)
  PROVE  /\ IsFiniteSet(DOMAIN rows) /\ Cardinality(DOMAIN rows) = Len(rows) /\ Len(rows) \in Nat
         /\ DOMAIN NamesOf = DOMAIN rows
         /\ ByName = {NamesOf[i] : i \in DOMAIN rows} /\ IsFiniteSet(ByName)
         /\ \A y \in ByName : /\ y.processes \in Nat /\ TotalOf(y) \in Int
                              /\ y = Program(y.name)
                              /\ {i \in DOMAIN rows : NamesOf[i] = y} = RowsOf(y.name)
<1>1. DOMAIN rows = 1..Len(rows) /\ Len(rows) \in Nat
  OBVIOUS
<1>2. IsFiniteSet(DOMAIN rows) /\ Cardinality(DOMAIN rows) = Len(rows)
  BY <1>1, FS_Interval
<1>3. DOMAIN NamesOf = DOMAIN rows /\ \A i \in DOMAIN rows : NamesOf[i] = Program(rows[i].name)
  BY DEF NamesOf
<1>4. Range(rows) = {rows[i] : i \in DOMAIN rows}
  BY DEF Range
<1>5. ByName = {NamesOf[i] : i \in DOMAIN rows}
  BY <1>3, <1>4 DEF ByName
<1>6. IsFiniteSet(ByName)
  BY <1>2, <1>3, <1>5, FiniteImage
<1>7. ASSUME NEW y \in ByName
      PROVE  /\ y.processes \in Nat /\ TotalOf(y) \in Int
             /\ y = Program(y.name)
             /\ {i \in DOMAIN rows : NamesOf[i] = y} = RowsOf(y.name)
  <2>1. PICK j \in DOMAIN rows : y = Program(rows[j].name)
    BY <1>3, <1>5
  <2>2. y.name = rows[j].name /\ y.processes \in Nat /\ TotalOf(y) \in Int
    BY <2>1, ProgramIs
  <2>3. \A i \in DOMAIN rows : NamesOf[i] = y <=> rows[i].name = y.name
    <3> TAKE i \in DOMAIN rows
    <3>1. Program(rows[i].name).name = rows[i].name
      BY ProgramIs
    <3> QED BY <1>3, <2>1, <2>2, <3>1
  <2>4. {i \in DOMAIN rows : NamesOf[i] = y} = RowsOf(y.name)
    BY <2>3 DEF RowsOf
  <2> QED BY <2>1, <2>2, <2>4
<1> QED BY <1>1, <1>2, <1>3, <1>5, <1>6, <1>7

(* The roll-up has every group, smallest first.                            *)
LEMMA GroupIs ==
  ASSUME rows \in Seq(ProcRows)
  PROVE  /\ Group \in [1..Cardinality(ByName) -> ByName] /\ Range(Group) = ByName
         /\ \A i, j \in DOMAIN Group : i < j => TotalOf(Group[i]) <= TotalOf(Group[j])
<1> DEFINE Sorts(g) == /\ Range(g) = ByName
                       /\ \A i, j \in DOMAIN g : i < j => TotalOf(g[i]) <= TotalOf(g[j])
           key == [y \in ByName |-> TotalOf(y)]
<1>1. IsFiniteSet(ByName) /\ \A y \in ByName : key[y] = TotalOf(y) /\ key[y] \in Int
  BY ByNameIs
<1>2. Group = CHOOSE g \in [1..Cardinality(ByName) -> ByName] : Sorts(g)
  BY DEF Group, ByName
<1> HIDE DEF key
<1>3. PICK g \in [1..Cardinality(ByName) -> ByName] :
        /\ Range(g) = ByName
        /\ \A i, j \in DOMAIN g : i < j => key[g[i]] <= key[g[j]]
  BY <1>1, SortExists
<1>4. Sorts(g)
  BY <1>1, <1>3
<1> HIDE DEF Sorts
<1>5. Group \in [1..Cardinality(ByName) -> ByName] /\ Sorts(Group)
  BY <1>2, <1>4
<1> QED BY <1>5 DEF Sorts

(* The groups together hold every row once.                                *)
LEMMA GroupsHoldTheRows ==
  ASSUME rows \in Seq(ProcRows)
  PROVE  /\ SumFunctionOnSet([y \in ByName |-> y.processes], ByName) = Len(rows)
         /\ SumFunctionOnSet([y \in ByName |-> TotalOf(y)], ByName)
              = SumFunctionOnSet([i \in DOMAIN rows |-> TotalOf(rows[i])], DOMAIN rows)
<1> DEFINE D == DOMAIN rows
           one == [i \in D |-> 1]
           f == [i \in D |-> TotalOf(rows[i])]
           g == [y \in ByName |-> y.processes]
           h == [y \in ByName |-> TotalOf(y)]
<1>1. /\ IsFiniteSet(D) /\ Cardinality(D) = Len(rows) /\ Len(rows) \in Nat /\ DOMAIN NamesOf = D
      /\ ByName = {NamesOf[i] : i \in D} /\ IsFiniteSet(ByName)
  BY ByNameIs
<1>2. \A i \in D : one[i] = 1 /\ one[i] \in Int /\ f[i] \in Int
  BY RowIs
<1>3. ASSUME NEW y \in ByName
      PROVE  /\ g[y] = SumFunctionOnSet(one, {i \in D : NamesOf[i] = y})
             /\ h[y] = SumFunctionOnSet(f, {i \in D : NamesOf[i] = y})
  <2> DEFINE R == RowsOf(y.name)
  <2>1. {i \in D : NamesOf[i] = y} = R /\ y = Program(y.name)
    BY ByNameIs
  <2>2. /\ R \in SUBSET D /\ IsFiniteSet(R) /\ y.processes = Cardinality(R) /\ y.processes \in Nat
        /\ TotalOf(y) = SumFunctionOnSet(f, R)
    <3>1. /\ Program(y.name).processes = Cardinality(R) /\ Program(y.name).processes \in Nat
          /\ TotalOf(Program(y.name)) = SumFunctionOnSet(f, R)
          /\ R \in SUBSET D /\ IsFiniteSet(R)
      BY ProgramIs
    <3> HIDE DEF R, f
    <3> QED BY <2>1, <3>1
  <2>3. SumFunctionOnSet(one, R) = Cardinality(R)
    <3> HIDE DEF R, one, D
    <3>1. \A i \in R : one[i] = 1
      BY <1>2, <2>2
    <3>2. SumFunctionOnSet(one, R) = 1 * Cardinality(R)
      BY <2>2, <3>1, SumConst
    <3> QED BY <2>2, <3>2
  <2>4. g[y] = y.processes /\ h[y] = TotalOf(y)
    OBVIOUS
  <2> HIDE DEF R, one, f, g, h, D
  <2> QED BY <2>1, <2>2, <2>3, <2>4, Zenon
<1> HIDE DEF D, one, f, g, h
<1> DEFINE heap == [y \in ByName |-> {i \in D : NamesOf[i] = y}]
<1>30. IsFiniteSet(D) /\ IsFiniteSet(ByName)
  BY <1>1
<1>31. \A y \in ByName : heap[y] \in SUBSET D
  OBVIOUS
<1>32. \A i \in D : \E y \in ByName : i \in heap[y]
  BY <1>1
<1>33. \A y, z \in ByName : \A i \in heap[y] : i \in heap[z] => y = z
  BY <1>1
<1>34. \A y \in ByName : g[y] = SumFunctionOnSet(one, heap[y])
  BY <1>3
<1>35. \A y \in ByName : h[y] = SumFunctionOnSet(f, heap[y])
  BY <1>3
<1>36. \A i \in D : one[i] \in Int
  BY <1>2
<1>37. \A i \in D : f[i] \in Int
  BY <1>2
<1> HIDE DEF heap
<1>4. SumFunctionOnSet(g, ByName) = SumFunctionOnSet(one, D)
  BY <1>30, <1>31, <1>32, <1>33, <1>34, <1>36, SumGathered
<1>5. SumFunctionOnSet(h, ByName) = SumFunctionOnSet(f, D)
  BY <1>30, <1>31, <1>32, <1>33, <1>35, <1>37, SumGathered
<1>6. SumFunctionOnSet(one, D) = 1 * Cardinality(D)
  BY <1>1, <1>2, SumConst
<1>7. SumFunctionOnSet(g, ByName) = Len(rows) /\ SumFunctionOnSet(h, ByName) = SumFunctionOnSet(f, D)
  <2>1. SumFunctionOnSet(one, D) = Len(rows)
    BY <1>1, <1>6
  <2> QED BY <1>1, <1>4, <1>5, <2>1, Zenon
<1> QED BY <1>7 DEF D, f, g, h

(* The total of the groups is that of the rows.                            *)
LEMMA RamTotalIs ==
  ASSUME rows \in Seq(ProcRows)
  PROVE  RamTotal = SumFunctionOnSet([i \in DOMAIN rows |-> TotalOf(rows[i])], DOMAIN rows)
<1> DEFINE D == DOMAIN Group
           f == [i \in D |-> TotalOf(Group[i])]
           h == [y \in ByName |-> TotalOf(y)]
<1>1. /\ Group \in [1..Cardinality(ByName) -> ByName] /\ Range(Group) = ByName
      /\ IsFiniteSet(ByName) /\ \A y \in ByName : h[y] = TotalOf(y) /\ TotalOf(y) \in Int
  BY GroupIs, ByNameIs
<1>2. Cardinality(ByName) \in Nat
  BY <1>1, FS_CardinalityType
<1>3. D = 1..Cardinality(ByName) /\ IsFiniteSet(D) /\ Cardinality(D) = Cardinality(ByName)
  <2>1. IsFiniteSet(1..Cardinality(ByName))
        /\ Cardinality(1..Cardinality(ByName)) = Cardinality(ByName)
    BY <1>2, FS_Interval
  <2> QED BY <1>1, <2>1
<1>4. (\A i \in D : Group[i] \in ByName) /\ \A y \in ByName : \E i \in D : Group[i] = y
  BY <1>1 DEF Range
<1>5. \A i, j \in D : Group[i] = Group[j] => i = j
  <2> HIDE DEF D
  <2>1. Group \in Surjection(D, ByName)
    BY <1>1, <1>3, <1>4 DEF Surjection
  <2>2. Group \in Injection(D, ByName)
    BY <1>3, <2>1, FS_SurjSameCardinalityImpliesInj
  <2> QED BY <2>2 DEF Injection, IsInjective
<1>6. \A i \in D : f[i] \in Int /\ f[i] = h[Group[i]]
  BY <1>1
<1>7. DOMAIN f = D
  OBVIOUS
<1>8. RamTotal = SumFunctionOnSet(f, D)
  BY <1>7 DEF RamTotal, SumFunction
<1> HIDE DEF f, h
<1>9. SumFunctionOnSet(f, D) = SumFunctionOnSet(h, ByName)
  <2>0. PICK w : w = Group
    OBVIOUS
  <2> HIDE DEF D
  <2>1. IsFiniteSet(D)
    BY <1>3
  <2>2. \A i \in D : w[i] \in ByName
    BY <1>4, <2>0
  <2>3. \A y \in ByName : \E i \in D : w[i] = y
    BY <1>4, <2>0
  <2>4. \A i, j \in D : w[i] = w[j] => i = j
    BY <1>5, <2>0
  <2>5. \A i \in D : f[i] \in Int
    BY <1>6
  <2>6. \A i \in D : f[i] = h[w[i]]
    BY <1>6, <2>0
  <2>7. IsFiniteSet(D) => SumFunctionOnSet(f, D) = SumFunctionOnSet(h, ByName)
    BY <2>2, <2>3, <2>4, <2>5, <2>6, SumRenamed, SMTT(60)
  <2> QED BY <2>1, <2>7
<1>10. RamTotal = SumFunctionOnSet(h, ByName)
  BY <1>8, <1>9
<1> QED BY <1>10, GroupsHoldTheRows DEF h

StillThere == {p \in Pids \ moved : procs[p] # Gone}
Shut == {p \in StillThere : source = "pss" /\ ~procs[p].open}
Seen == {p \in StillThere \ Shut : LeastSize(p) > 0}
UsedKb == SumFunctionOnSet([p \in Pids |-> procs[p].private], StillThere)
          + IF Sharers(procs) = {} THEN 0 ELSE SharedKb

(* After the scan every process number is passed.                          *)
LEMMA ScannedAll ==
  ASSUME MemScanAssumption, ScanInv, Scanned
  PROVE  1..next - 1 = Pids /\ IsFiniteSet(Pids) /\ Cardinality(Pids) = Processes
<1>1. Processes \in Nat /\ next \in 1..Processes + 1 /\ next \notin 1..Processes
  BY DEF MemScanAssumption, ScanInv, ScanTypeOK, Scanned, Pids
<1>2. next = Processes + 1
  BY <1>1
<1>3. 1..next - 1 = 1..Processes
  BY <1>1, <1>2
<1>4. IsFiniteSet(1..Processes) /\ Cardinality(1..Processes) = Processes
  BY <1>1, FS_Interval
<1> QED BY <1>3, <1>4 DEF Pids

(* Nobody who is shut away goes unreported, nobody is counted twice.       *)
LEMMA NobodyDropped ==
  ASSUME MemScanAssumption, ScanInv, Scanned
  PROVE  /\ unreadable >= Cardinality(Shut)
         /\ unreadable + SumFunctionOnSet([y \in ByName |-> y.processes], ByName) <= Processes
<1>1. PICK who : \E denied : Accounts(who, denied)
  BY DEF ScanInv
<1>2. PICK denied : Accounts(who, denied)
  BY <1>1
<1>3. 1..next - 1 = Pids /\ IsFiniteSet(Pids) /\ Cardinality(Pids) = Processes
  BY ScannedAll
<1>4. /\ denied \in SUBSET Pids /\ Cardinality(denied) = unreadable
      /\ who \in [DOMAIN rows -> Pids] /\ \A i, j \in DOMAIN rows : who[i] = who[j] => i = j
      /\ \A i \in DOMAIN rows : who[i] \notin denied
  BY <1>2, <1>3 DEF Accounts
<1>5. IsFiniteSet(denied)
  BY <1>3, <1>4, FS_Subset
<1>6. Shut \in SUBSET denied
  BY <1>2, <1>3 DEF Shut, StillThere, Accounts
<1>7. unreadable >= Cardinality(Shut)
  <2>1. IsFiniteSet(Shut) /\ Cardinality(Shut) <= Cardinality(denied)
    BY <1>5, <1>6, FS_Subset
  <2>2. Cardinality(Shut) \in Nat /\ Cardinality(denied) \in Nat
    BY <1>5, <2>1, FS_CardinalityType
  <2> QED BY <1>4, <2>1, <2>2
<1>8. rows \in Seq(ProcRows)
  BY DEF ScanInv, ScanTypeOK
<1>9. IsFiniteSet(DOMAIN rows) /\ Cardinality(DOMAIN rows) = Len(rows) /\ Len(rows) \in Nat
  BY <1>8, ByNameIs
<1>10. unreadable + Len(rows) <= Processes
  <2> DEFINE W == {who[i] : i \in DOMAIN rows}
  <2>1. IsFiniteSet(W) /\ Cardinality(W) = Len(rows)
    BY <1>4, <1>9, ImageSize
  <2>2. denied \cap W = {} /\ denied \cup W \in SUBSET Pids
    BY <1>4
  <2> HIDE DEF W
  <2>3. Cardinality(denied \cup W) = Cardinality(denied) + Cardinality(W) - Cardinality({})
    BY <1>5, <2>1, <2>2, FS_Union
  <2>4. Cardinality(denied \cup W) <= Processes
    BY <1>3, <2>2, FS_Subset
  <2>5. Cardinality({}) = 0 /\ Cardinality(denied) \in Nat
    BY <1>5, FS_EmptySet, FS_CardinalityType
  <2> QED BY <1>4, <1>9, <2>1, <2>3, <2>4, <2>5
<1>11. SumFunctionOnSet([y \in ByName |-> y.processes], ByName) = Len(rows)
  BY <1>8, GroupsHoldTheRows
<1> QED BY <1>7, <1>10, <1>11

(* Whoever stayed and takes memory is in the group of its name.            *)
LEMMA EveryNameThere ==
  ASSUME MemScanAssumption, ScanInv, Scanned, NEW name \in {procs[p].name : p \in Seen}
  PROVE  \E g \in ByName : /\ g.name = name
                           /\ g.processes >= Cardinality({p \in Seen : procs[p].name = name})
<1>1. PICK who : \E denied : Accounts(who, denied)
  BY DEF ScanInv
<1>2. PICK denied : Accounts(who, denied)
  BY <1>1
<1>3. 1..next - 1 = Pids /\ rows \in Seq(ProcRows)
  BY ScannedAll DEF ScanInv, ScanTypeOK
<1> DEFINE R == RowsOf(name)
           W == {who[i] : i \in R}
           S == {p \in Seen : procs[p].name = name}
<1>4. /\ R \in SUBSET DOMAIN rows /\ IsFiniteSet(R)
      /\ Program(name).name = name /\ Program(name).processes = Cardinality(R)
  BY <1>3, ProgramIs
<1>5. \A i, j \in DOMAIN rows : who[i] = who[j] => i = j
  BY <1>2 DEF Accounts
<1>6. IsFiniteSet(W) /\ Cardinality(W) = Cardinality(R)
  <2>1. \A i, j \in R : who[i] = who[j] => i = j
    BY <1>4, <1>5
  <2> HIDE DEF R
  <2> QED BY <1>4, <2>1, ImageSize
<1>7. ASSUME NEW p \in S
      PROVE  \E i \in R : who[i] = p
  <2>1. p \in Pids /\ p \notin moved /\ procs[p] # Gone /\ ~(source = "pss" /\ ~procs[p].open)
        /\ LeastSize(p) > 0 /\ procs[p].name = name
    BY DEF Seen, StillThere, Shut
  <2>2. PICK i \in DOMAIN rows : who[i] = p
    BY <1>2, <1>3, <2>1 DEF Accounts
  <2>3. rows[i].name = procs[p].name
    BY <1>2, <2>1, <2>2 DEF Accounts
  <2> QED BY <2>1, <2>2, <2>3 DEF RowsOf
<1>8. S \in SUBSET W
  BY <1>7
<1>9. Cardinality(S) <= Cardinality(W) /\ Cardinality(S) \in Nat /\ Cardinality(W) \in Nat
  <2> HIDE DEF S, W
  <2>1. IsFiniteSet(S)
    BY <1>6, <1>8, FS_Subset
  <2> QED BY <1>6, <1>8, <2>1, FS_Subset, FS_CardinalityType
<1>10. Program(name) \in ByName
  <2>1. PICK p \in Seen : procs[p].name = name
    OBVIOUS
  <2>2. PICK i \in R : who[i] = p
    BY <1>7, <2>1
  <2>3. i \in DOMAIN rows /\ rows[i].name = name
    BY DEF RowsOf
  <2>4. rows[i] \in Range(rows)
    BY <2>3 DEF Range
  <2> QED BY <2>3, <2>4 DEF ByName
<1> HIDE DEF S, W, R
<1>11. Program(name).processes >= Cardinality(S)
  BY <1>4, <1>6, <1>9
<1> QED BY <1>4, <1>10, <1>11 DEF S

(* The table, from the row the limit leaves it to begin with.              *)
LEMMA TableIs ==
  ASSUME rows \in Seq(ProcRows), NEW limit \in {<<>>} \cup {<<n>> : n \in Nat}
  PROVE  LET table == PrintMem(limit)
         IN  /\ table.hidden + Len(table.shown) = Cardinality(ByName)
             /\ \A g \in ByName \ Range(table.shown), h \in Range(table.shown) :
                  TotalOf(g) <= TotalOf(h)
<1> DEFINE n == Cardinality(ByName)
           first == IF limit # <<>> /\ limit[1] < Len(Group) THEN Len(Group) - limit[1] ELSE 0
           shown == SubSeq(Group, first + 1, Len(Group))
<1>1. /\ Group \in [1..n -> ByName] /\ Range(Group) = ByName
      /\ \A i, j \in DOMAIN Group : i < j => TotalOf(Group[i]) <= TotalOf(Group[j])
  BY GroupIs
<1>2. n \in Nat
  BY ByNameIs, FS_CardinalityType
<1>3. \A y \in ByName : TotalOf(y) \in Int
  BY ByNameIs
<1> HIDE DEF n
<1>4. Group \in Seq(ByName) /\ Len(Group) = n /\ DOMAIN Group = 1..n
  BY <1>1, <1>2
<1>5. limit = <<>> \/ \E k \in Nat : limit = <<k>> /\ limit[1] = k
  OBVIOUS
<1>6. first \in 0..n
  BY <1>2, <1>4, <1>5
<1>7. PrintMem(limit).hidden = first /\ PrintMem(limit).shown = shown
  BY DEF PrintMem
<1> HIDE DEF first
<1>8. Len(shown) = n - first /\ DOMAIN shown = 1..n - first
      /\ \A i \in 1..n - first : shown[i] = Group[first + i]
  BY <1>2, <1>4, <1>6
<1> HIDE DEF shown
<1>9. first + Len(shown) = n
  BY <1>2, <1>6, <1>8
<1>10. ASSUME NEW g \in ByName \ Range(shown), NEW h \in Range(shown)
       PROVE  TotalOf(g) <= TotalOf(h)
  <2>1. PICK i \in 1..n : Group[i] = g
    BY <1>1, <1>4 DEF Range
  <2>2. PICK k \in 1..n - first : shown[k] = h
    BY <1>8 DEF Range
  <2>3. first + k \in 1..n /\ first + k > first /\ h = Group[first + k]
    BY <1>2, <1>6, <1>8, <2>2
  <2>4. i <= first
    <3> SUFFICES ASSUME i > first PROVE FALSE
      BY <1>2, <1>6
    <3>1. i - first \in 1..n - first /\ first + (i - first) = i
      BY <1>2, <1>6
    <3>2. shown[i - first] = g
      BY <1>8, <2>1, <3>1
    <3>3. g \in Range(shown)
      BY <1>8, <3>1, <3>2 DEF Range
    <3> QED BY <3>3
  <2>5. i < first + k
    BY <1>6, <2>3, <2>4
  <2> QED BY <1>1, <1>4, <2>1, <2>3, <2>5
<1> QED BY <1>7, <1>9, <1>10 DEF n

(* The rows' sizes are the proportional set sizes of all processes.        *)
LEMMA RowsAddUp ==
  ASSUME MemScanAssumption, ScanInv, Scanned, source = "pss", moved = {}, Shut = {}
  PROVE  RamTotal = SumFunctionOnSet([p \in Pids |-> Pss(procs, p)], StillThere)
<1>1. PICK who : \E denied : Accounts(who, denied)
  BY DEF ScanInv
<1>2. PICK denied : Accounts(who, denied)
  BY <1>1
<1>3. /\ 1..next - 1 = Pids /\ IsFiniteSet(Pids) /\ rows \in Seq(ProcRows)
      /\ procs \in [Pids -> Programs \cup {Gone}]
  BY ScannedAll DEF ScanInv, ScanTypeOK
<1> DEFINE D == DOMAIN rows
           W == {who[i] : i \in D}
           f == [i \in D |-> TotalOf(rows[i])]
           g == [p \in Pids |-> Pss(procs, p)]
           Z == StillThere \ W
<1>4. /\ who \in [D -> Pids] /\ \A i, j \in D : who[i] = who[j] => i = j
      /\ \A i \in D : procs[who[i]] # Gone /\ TotalOf(rows[i]) = Pss(procs, who[i])
  BY <1>2, <1>3 DEF Accounts
<1>5. \A p \in Pids : g[p] = Pss(procs, p) /\ g[p] \in Nat
  BY <1>3, Sizes
<1>6. StillThere \in SUBSET Pids /\ W \in SUBSET StillThere /\ StillThere = W \cup Z /\ W \cap Z = {}
  BY <1>4 DEF StillThere
<1>7. ASSUME NEW p \in Z
      PROVE  g[p] = 0
  <2>1. p \in Pids /\ p \notin moved /\ procs[p] # Gone /\ p \notin W
    BY <1>6 DEF StillThere
  <2>2. procs[p].open
    BY <1>6, <2>1 DEF Shut, StillThere
  <2>3. ~(Pss(procs, p) > 0)
    <3>1. \A q \in Pids : q \notin moved /\ procs[q] # Gone =>
            IF source = "pss" /\ ~procs[q].open THEN q \in denied
            ELSE /\ LeastSize(q) > 0 => \E i \in D : who[i] = q
                 /\ source = "pss" /\ moved = {} /\ Pss(procs, q) > 0 => \E i \in D : who[i] = q
      BY <1>2, <1>3 DEF Accounts
    <3>2. Pss(procs, p) > 0 => \E i \in D : who[i] = p
      BY <2>1, <2>2, <3>1, Zenon
    <3> QED BY <2>1, <3>2
  <2> QED BY <1>5, <2>1, <2>3
<1>8. IsFiniteSet(D)
  BY <1>3, ByNameIs
<1>9. \A i \in D : f[i] \in Int /\ f[i] = g[who[i]]
  BY <1>3, <1>4, <1>5, RowIs
<1>10. SumFunctionOnSet(f, D) = SumFunctionOnSet(g, W)
  <2>1. \A i \in D : who[i] \in W
    OBVIOUS
  <2>2. \A y \in W : \E i \in D : who[i] = y
    OBVIOUS
  <2>3. \A i, j \in D : who[i] = who[j] => i = j
    BY <1>4
  <2>4. \A i \in D : f[i] \in Int
    BY <1>9
  <2>5. \A i \in D : f[i] = g[who[i]]
    BY <1>9
  <2> HIDE DEF D, W, f, g
  <2> QED BY <1>8, <2>1, <2>2, <2>3, <2>4, <2>5, SumRenamed
<1> HIDE DEF W, Z, f, g, D
<1>11. IsFiniteSet(W) /\ IsFiniteSet(Z) /\ \A p \in W \cup Z : g[p] \in Int
  <2>1. IsFiniteSet(StillThere)
    BY <1>3, <1>6, FS_Subset
  <2>2. W \in SUBSET StillThere /\ Z \in SUBSET StillThere
    BY <1>6
  <2>3. IsFiniteSet(W) /\ IsFiniteSet(Z)
    BY <2>1, <2>2, FS_Subset
  <2> QED BY <1>5, <1>6, <2>3
<1>12. SumFunctionOnSet(g, W \cup Z) = SumFunctionOnSet(g, W) + SumFunctionOnSet(g, Z)
  BY <1>6, <1>11, SumUnion
<1>13. SumFunctionOnSet(g, Z) = 0
  <2>1. SumFunctionOnSet(g, Z) = 0 * Cardinality(Z)
    BY <1>7, <1>11, SumConst
  <2>2. Cardinality(Z) \in Nat
    BY <1>11, FS_CardinalityType
  <2> QED BY <2>1, <2>2
<1>14. SumFunctionOnSet(g, W) \in Int
  BY <1>11, SumIs
<1>15. SumFunctionOnSet(g, StillThere) = SumFunctionOnSet(g, W)
  <2>1. SumFunctionOnSet(g, W \cup Z) = SumFunctionOnSet(g, W)
    BY <1>12, <1>13, <1>14
  <2> QED BY <1>6, <2>1
<1>16. RamTotal = SumFunctionOnSet(f, D)
  BY <1>3, RamTotalIs DEF f, D
<1>17. RamTotal = SumFunctionOnSet(g, StillThere)
  BY <1>10, <1>15, <1>16
<1> QED BY <1>17 DEF g

(* The shares of the shared pages miss less than a kB of each sharer.      *)
LEMMA SharesAddUp ==
  ASSUME MemScanAssumption, ScanInv, Scanned, source = "pss", moved = {}, Shut = {}
  PROVE  UsedKb - RamTotal \in {0} \cup 1..Cardinality(Sharers(procs)) - 1
<1> DEFINE S == StillThere
           X == Sharers(procs)
           k == Cardinality(X)
           q == IF X = {} THEN 0 ELSE SharedKb \div k
           pss == [p \in Pids |-> Pss(procs, p)]
           private == [p \in Pids |-> procs[p].private]
           share == [p \in Pids |-> IF procs[p].shares THEN q ELSE 0]
<1>1. procs \in [Pids -> Programs \cup {Gone}] /\ IsFiniteSet(Pids) /\ SharedKb \in Nat
  BY ScannedAll DEF ScanInv, ScanTypeOK, MemScanAssumption
<1>2. S \in SUBSET Pids /\ X \in SUBSET S
  <2>1. \A p \in Pids : procs[p].shares => procs[p] # Gone
    BY DEF Gone
  <2> QED BY <2>1 DEF Sharers, StillThere
<1>3. IsFiniteSet(S) /\ IsFiniteSet(X) /\ k \in Nat /\ (k = 0 <=> X = {})
  <2> HIDE DEF S, X
  <2>1. IsFiniteSet(S)
    BY <1>1, <1>2, FS_Subset
  <2>2. IsFiniteSet(X)
    BY <1>2, <2>1, FS_Subset
  <2> QED BY <2>1, <2>2, FS_CardinalityType, FS_EmptySet
<1>4. q \in Nat /\ (X # {} => SharedKb - k * q \in 0..k - 1)
  <2> HIDE DEF X, k
  <2>1. CASE X = {}
    BY <2>1
  <2>2. CASE X # {}
    <3>1. k \in Nat \ {0}
      BY <1>3, <2>2
    <3>2. q = SharedKb \div k
      BY <2>2
    <3> QED BY <1>1, <2>2, <3>1, <3>2, Divides
  <2> QED BY <2>1, <2>2
<1>5. ASSUME NEW p \in S
      PROVE  /\ private[p] \in Int /\ share[p] \in Int /\ pss[p] = private[p] + share[p]
             /\ p \in X => share[p] = q
             /\ p \notin X => share[p] = 0
  <2>1. p \in Pids
    BY <1>2
  <2>2. procs[p].private \in Nat
    BY <1>1, <2>1, AProgram
  <2>3. p \in X <=> procs[p].shares
    BY <2>1 DEF Sharers
  <2>4. pss[p] = procs[p].private + IF procs[p].shares THEN SharedKb \div k ELSE 0
    BY <2>1 DEF Pss
  <2>5. private[p] = procs[p].private /\ share[p] = IF procs[p].shares THEN q ELSE 0
    BY <2>1
  <2>6. X # {} => q = SharedKb \div k
    OBVIOUS
  <2>7. procs[p].shares => q = SharedKb \div k
    BY <2>3, <2>6
  <2> HIDE DEF X, q, k, pss, share, private
  <2> QED BY <1>4, <2>2, <2>3, <2>4, <2>5, <2>7
<1> HIDE DEF pss, private, share, q, k, X, S
<1>6. SumFunctionOnSet(pss, S) = SumFunctionOnSet(private, S) + SumFunctionOnSet(share, S)
  BY <1>3, <1>5, SumPlus
<1>7. SumFunctionOnSet(share, S) = k * q
  <2> DEFINE Z == S \ X
  <2>1. S = X \cup Z /\ X \cap Z = {} /\ Z \in SUBSET S
    BY <1>2
  <2>2. IsFiniteSet(Z) /\ \A p \in X \cup Z : share[p] \in Int
    BY <1>3, <1>5, <2>1, FS_Subset
  <2>3. (\A p \in X : share[p] = q) /\ \A p \in Z : share[p] = 0
    BY <1>2, <1>5
  <2> HIDE DEF Z
  <2>4. SumFunctionOnSet(share, X \cup Z) = SumFunctionOnSet(share, X) + SumFunctionOnSet(share, Z)
    BY <1>3, <2>1, <2>2, SumUnion
  <2>5. SumFunctionOnSet(share, X) = q * Cardinality(X)
    BY <1>3, <1>4, <2>3, SumConst
  <2>6. SumFunctionOnSet(share, Z) = 0 * Cardinality(Z)
    BY <2>2, <2>3, SumConst
  <2>7. Cardinality(Z) \in Nat
    BY <2>2, FS_CardinalityType
  <2>8. 0 * Cardinality(Z) = 0 /\ q * k = k * q /\ k * q \in Nat
    BY <1>3, <1>4, <2>7
  <2>9. SumFunctionOnSet(share, S) = q * k + 0
    BY <2>1, <2>4, <2>5, <2>6, <2>8 DEF k
  <2> QED BY <2>8, <2>9
<1>8. SumFunctionOnSet(private, S) \in Int
  BY <1>3, <1>5, SumIs
<1>9. RamTotal = SumFunctionOnSet(private, S) + k * q
  BY <1>6, <1>7, RowsAddUp DEF pss, S
<1>10. UsedKb = SumFunctionOnSet(private, S) + IF X = {} THEN 0 ELSE SharedKb
  BY DEF UsedKb, private, S, X
<1> DEFINE a == SumFunctionOnSet(private, S)
           b == k * q
<1>11. a \in Int /\ b \in Int /\ RamTotal = a + b /\ UsedKb = a + (IF X = {} THEN 0 ELSE SharedKb)
  BY <1>3, <1>4, <1>8, <1>9, <1>10
<1>12. X # {} => SharedKb - b \in 0..k - 1
  BY <1>4
<1>13. X = {} => b = 0
  BY <1>3, <1>4
<1> HIDE DEF a, b
<1>14. UsedKb - RamTotal \in {0} \cup 1..k - 1
  BY <1>1, <1>3, <1>11, <1>12, <1>13
<1> QED BY <1>14 DEF k, X

(* From the account to what the scan promises.                             *)
LEMMA ScanMeans ==
  ASSUME MemScanAssumption, ScanInv
  PROVE  ScanAccountsForEveryone
<1> SUFFICES ASSUME Scanned
             PROVE  ScanAccountsForEveryone
  BY DEF ScanAccountsForEveryone
<1> DEFINE groups == Range(Group)
           Nobodys == unreadable >= Cardinality(Shut)
           Twice == unreadable + SumFunctionOnSet([g \in groups |-> g.processes], groups) <= Processes
           Named == \A name \in {procs[p].name : p \in Seen} :
                      \E g \in groups : /\ g.name = name
                                        /\ g.processes >= Cardinality({p \in Seen : procs[p].name = name})
           Added == source = "pss" /\ moved = {} /\ Shut = {} =>
                      UsedKb - RamTotal \in {0} \cup 1..Cardinality(Sharers(procs)) - 1
           Printed == \A limit \in {<<>>} \cup {<<n>> : n \in 0..Processes} :
                        LET table == PrintMem(limit)
                        IN  /\ table.hidden + Len(table.shown) = Cardinality(groups)
                            /\ \A g \in groups \ Range(table.shown), h \in Range(table.shown) :
                                 TotalOf(g) <= TotalOf(h)
<1>1. ScanAccountsForEveryone <=> (Scanned => Nobodys /\ Twice /\ Named /\ Added /\ Printed)
  BY Zenon DEF ScanAccountsForEveryone, StillThere, Shut, Seen, UsedKb
<1>2. groups = ByName /\ rows \in Seq(ProcRows)
  BY GroupIs DEF ScanInv, ScanTypeOK
<1> HIDE DEF groups
<1>3. Nobodys /\ Twice
  BY <1>2, NobodyDropped
<1>4. Named
  BY <1>2, EveryNameThere
<1>5. Added
  BY SharesAddUp
<1>6. Printed
  <2>1. \A limit \in {<<>>} \cup {<<n>> : n \in 0..Processes} : limit \in {<<>>} \cup {<<n>> : n \in Nat}
    BY DEF MemScanAssumption
  <2> QED BY <1>2, <2>1, TableIs
<1> HIDE DEF Nobodys, Twice, Named, Added, Printed
<1> QED BY <1>1, <1>3, <1>4, <1>5, <1>6

(* For any programs, any number of processes and any changes of them       *)
(* meanwhile: nobody the scan may not look into is dropped, nobody counted *)
(* twice, who stays is in its program's group, undisturbed shares add up   *)
(* to the memory in use, and a limited table shows the largest programs.   *)
THEOREM ScanEveryone == ScanSpec => []ScanAccountsForEveryone
<1>1. ScanInv => ScanAccountsForEveryone
  BY ScanMeans, MemScanAssumption
<1>2. ScanSpec => []ScanInv
  BY ScanInvariance, MemScanAssumption
<1> QED BY <1>1, <1>2, PTL
=============================================================================
