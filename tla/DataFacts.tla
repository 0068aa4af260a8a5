----------------------------- MODULE DataFacts -----------------------------
(***************************************************************************)
(* What the proofs about data need: induction over the naturals and over   *)
(* the subsets of a finite set, from the pigeonhole principle (the         *)
(* library's induction theorems take an operator as a parameter, which no  *)
(* prover here instantiates); what a fold computes; sequences whose        *)
(* elements may be of any kind; FlattenSeq, Max and Min.                   *)
(***************************************************************************)
EXTENDS SequencesExt, FiniteSetTheorems, SequenceTheorems, TLAPS

(* Induction over the naturals, stated of a set of them. *)
LEMMA SetInduction ==
  ASSUME NEW P \in SUBSET Nat, 0 \in P, \A n \in P : n + 1 \in P
  PROVE  P = Nat
<1> SUFFICES ASSUME NEW n \in Nat, n \notin P
             PROVE  FALSE
  OBVIOUS
<1> DEFINE Q    == {m \in 0..n : m \notin P}
           T    == Q \ {n}
           down == [m \in Q |-> m - 1]
<1>1. \A m \in Q : m - 1 \in T
  OBVIOUS
<1>2. IsFiniteSet(Q) /\ IsFiniteSet(T) /\ Cardinality(T) = Cardinality(Q) - 1
  <2>1. IsFiniteSet(0..n)
    BY FS_Interval
  <2>2. IsFiniteSet(Q)
    BY <2>1, FS_Subset
  <2>3. n \in Q
    OBVIOUS
  <2> QED BY <2>2, <2>3, FS_RemoveElement
<1>3. Cardinality(T) < Cardinality(Q)
  BY <1>2, FS_CardinalityType
<1>4. down \in [Q -> T]
  BY <1>1
<1>5. \E x, y \in Q : x # y /\ down[x] = down[y]
  <2> HIDE DEF Q, T, down
  <2> QED BY <1>2, <1>3, <1>4, FS_PigeonHole
<1> QED BY <1>5

(* Strong induction over the subsets of a finite set. *)
LEMMA SubsetInduction ==
  ASSUME NEW D, IsFiniteSet(D), NEW P,
         \A s \in SUBSET D : (\A t \in SUBSET s : t # s => t \in P) => s \in P
  PROVE  \A s \in SUBSET D : s \in P
<1> DEFINE R == {n \in Nat : \A s \in SUBSET D : Cardinality(s) < n => s \in P}
<1>1. \A s \in SUBSET D : IsFiniteSet(s) /\ Cardinality(s) \in Nat
  BY FS_Subset, FS_CardinalityType
<1>2. 0 \in R
  BY <1>1
<1>3. \A n \in R : n + 1 \in R
  <2> SUFFICES ASSUME NEW n \in Nat, \A s \in SUBSET D : Cardinality(s) < n => s \in P,
                      NEW s \in SUBSET D, Cardinality(s) < n + 1
               PROVE  s \in P
    OBVIOUS
  <2>1. ASSUME NEW t \in SUBSET s, t # s
        PROVE  t \in P
    <3>1. Cardinality(t) <= Cardinality(s) /\ Cardinality(t) # Cardinality(s)
      BY <1>1, <2>1, FS_Subset
    <3> QED BY <1>1, <3>1
  <2> QED BY <2>1
<1>4. R = Nat
  <2> HIDE DEF R
  <2>1. R \in SUBSET Nat
    BY DEF R
  <2> QED BY <1>2, <1>3, <2>1, SetInduction
<1> SUFFICES ASSUME NEW s \in SUBSET D
             PROVE  s \in P
  OBVIOUS
<1>5. Cardinality(s) + 1 \in R
  BY <1>1, <1>4
<1> QED BY <1>1, <1>5

(* The values of a function on a finite set are finitely many. *)
LEMMA FiniteImage ==
  ASSUME NEW S, IsFiniteSet(S), NEW f, DOMAIN f = S
  PROVE  IsFiniteSet({f[x] : x \in S}) /\ Cardinality({f[x] : x \in S}) <= Cardinality(S)
<1> DEFINE T == {f[x] : x \in S}
           g == [x \in S |-> f[x]]
<1>1. g \in [S -> T] /\ \A t \in T : \E x \in S : g[x] = t
  OBVIOUS
<1> HIDE DEF T
<1>2. g \in Surjection(S, T)
  BY <1>1 DEF Surjection
<1> QED BY <1>2, FS_Surjection DEF T

(* -- Folds ------------------------------------------------------------- *)

(* it folds, with the steps G, picking from s the element C[s]. *)
Folds(it, D, base, C, G) ==
  /\ it[{}] = base
  /\ \A s \in (SUBSET D) \ {{}} : it[s] = G[C[s]][it[s \ {C[s]}]]

Picks(C, D) == \A s \in (SUBSET D) \ {{}} : C[s] \in s

(* A fold of values of V yields values of V. *)
LEMMA FoldType ==
  ASSUME NEW D, IsFiniteSet(D), NEW V, NEW base \in V, NEW C, Picks(C, D),
         NEW G \in [D -> [V -> V]], NEW it, Folds(it, D, base, C, G)
  PROVE  \A s \in SUBSET D : it[s] \in V
<1> DEFINE P == {s \in SUBSET D : it[s] \in V}
<1>1. ASSUME NEW s \in SUBSET D, \A t \in SUBSET s : t # s => t \in P
      PROVE  s \in P
  <2>1. CASE s = {}
    BY <2>1 DEF Folds
  <2>2. CASE s # {}
    <3>1. C[s] \in s /\ it[s] = G[C[s]][it[s \ {C[s]}]]
      BY <2>2 DEF Folds, Picks
    <3>2. it[s \ {C[s]}] \in V
      BY <1>1, <3>1
    <3> QED BY <3>1, <3>2
  <2> QED BY <2>1, <2>2
<1> QED
  <2> HIDE DEF P
  <2>1. \A s \in SUBSET D : s \in P
    BY <1>1, SubsetInduction
  <2> QED BY <2>1 DEF P

(* Every choice of the element to take next determines a fold. *)
LEMMA FoldExists ==
  ASSUME NEW D, IsFiniteSet(D), NEW V, NEW base \in V, NEW C, Picks(C, D),
         NEW G \in [D -> [V -> V]]
  PROVE  \E it \in [SUBSET D -> V] : Folds(it, D, base, C, G)
<1> DEFINE UpTo(n) == {s \in SUBSET D : Cardinality(s) <= n}
           Good(it, n) == \A s \in UpTo(n) :
                            it[s] = IF s = {} THEN base ELSE G[C[s]][it[s \ {C[s]}]]
           R == {n \in Nat : \E it \in [SUBSET D -> V] : Good(it, n)}
<1>1. \A s \in SUBSET D : IsFiniteSet(s) /\ Cardinality(s) \in Nat
  BY FS_Subset, FS_CardinalityType
<1>2. \A s \in SUBSET D : s # {} => /\ s \ {C[s]} \in SUBSET D
                                    /\ Cardinality(s \ {C[s]}) = Cardinality(s) - 1
  BY <1>1, FS_RemoveElement DEF Picks
<1>3. 0 \in R
  <2> DEFINE it == [s \in SUBSET D |-> base]
  <2>1. \A s \in UpTo(0) : s = {}
    BY <1>1, FS_EmptySet
  <2>2. Good(it, 0)
    BY <2>1
  <2>3. it \in [SUBSET D -> V]
    OBVIOUS
  <2> HIDE DEF Good, it
  <2> QED BY <2>2, <2>3
<1>4. ASSUME NEW n \in R
      PROVE  n + 1 \in R
  <2>1. PICK old \in [SUBSET D -> V] : Good(old, n)
    OBVIOUS
  <2> DEFINE it == [s \in SUBSET D |-> IF s = {} THEN base ELSE G[C[s]][old[s \ {C[s]}]]]
  <2>2. it \in [SUBSET D -> V]
    <3> SUFFICES ASSUME NEW s \in SUBSET D
                 PROVE  (IF s = {} THEN base ELSE G[C[s]][old[s \ {C[s]}]]) \in V
      OBVIOUS
    <3>1. CASE s # {}
      <4>1. C[s] \in D /\ s \ {C[s]} \in SUBSET D
        BY <3>1 DEF Picks
      <4>2. old[s \ {C[s]}] \in V
        BY <4>1
      <4>3. G[C[s]] \in [V -> V]
        BY <4>1
      <4> QED BY <3>1, <4>2, <4>3
    <3> QED BY <3>1
  <2>3. ASSUME NEW s \in UpTo(n + 1)
        PROVE  it[s] = IF s = {} THEN base ELSE G[C[s]][it[s \ {C[s]}]]
    <3>1. CASE s # {}
      <4> DEFINE t == s \ {C[s]}
      <4>1. t \in UpTo(n)
        BY <1>1, <1>2, <3>1
      <4>2. it[t] = IF t = {} THEN base ELSE G[C[t]][old[t \ {C[t]}]]
        BY <4>1
      <4>3. old[t] = IF t = {} THEN base ELSE G[C[t]][old[t \ {C[t]}]]
        BY <2>1, <4>1
      <4>4. it[t] = old[t]
        <5> HIDE DEF it, t
        <5> QED BY <4>2, <4>3
      <4>5. it[s] = G[C[s]][old[t]]
        BY <3>1
      <4> QED
        <5> HIDE DEF it
        <5> QED BY <3>1, <4>4, <4>5
    <3> QED BY <3>1
  <2>4. Good(it, n + 1)
    BY <2>3
  <2>5. n + 1 \in Nat
    OBVIOUS
  <2> HIDE DEF it, Good
  <2> QED BY <2>2, <2>4, <2>5
<1>5. R = Nat
  <2> HIDE DEF R
  <2>1. R \in SUBSET Nat
    BY DEF R
  <2> QED BY <1>3, <1>4, <2>1, SetInduction
<1>6. PICK it \in [SUBSET D -> V] : Good(it, Cardinality(D))
  BY <1>1, <1>5
<1>7. \A s \in SUBSET D : s \in UpTo(Cardinality(D))
  BY FS_Subset, <1>1
<1>8. \A s \in SUBSET D : it[s] = IF s = {} THEN base ELSE G[C[s]][it[s \ {C[s]}]]
  <2> HIDE DEF UpTo
  <2> QED BY <1>6, <1>7
<1> QED BY <1>8 DEF Folds

(* -- Sequences --------------------------------------------------------- *)

IsSeq(s) == s \in Seq(Range(s))

(* A sequence over any set of values is a sequence of its own elements. *)
LEMMA SeqIs ==
  ASSUME NEW T, NEW s \in Seq(T)
  PROVE  IsSeq(s) /\ Len(s) \in Nat /\ DOMAIN s = 1..Len(s) /\ Range(s) \subseteq T
BY DEF IsSeq, Range

(* The length and the domain of a sequence. *)
LEMMA IsSeqFacts ==
  ASSUME NEW s, IsSeq(s)
  PROVE  Len(s) \in Nat /\ DOMAIN s = 1..Len(s)
BY DEF IsSeq

(* Concatenation has the elements of both parts. *)
LEMMA ConcatIs ==
  ASSUME NEW a, NEW b, IsSeq(a), IsSeq(b)
  PROVE  IsSeq(a \o b) /\ Range(a \o b) = Range(a) \cup Range(b)
<1> DEFINE T == Range(a) \cup Range(b)
<1>1. a \in Seq(T) /\ b \in Seq(T)
  BY DEF IsSeq
<1>2. a \o b \in Seq(T) /\ Len(a \o b) = Len(a) + Len(b)
  BY <1>1
<1>3. \A i \in 1..Len(a) : (a \o b)[i] = a[i]
  BY <1>1
<1>4. \A i \in 1..Len(b) : (a \o b)[Len(a) + i] = b[i]
  BY <1>1
<1>5. DOMAIN a = 1..Len(a) /\ DOMAIN b = 1..Len(b) /\ DOMAIN (a \o b) = 1..(Len(a) + Len(b))
  BY <1>1, <1>2
<1>6. Range(a \o b) \subseteq T
  BY <1>2 DEF Range
<1>7. T \subseteq Range(a \o b)
  <2>1. Range(a) \subseteq Range(a \o b)
    BY <1>1, <1>3, <1>5 DEF Range
  <2>2. \A i \in DOMAIN b : Len(a) + i \in DOMAIN (a \o b)
    BY <1>1, <1>5
  <2>3. Range(b) \subseteq Range(a \o b)
    BY <1>4, <1>5, <2>2 DEF Range
  <2> QED BY <2>1, <2>3
<1>8. Range(a \o b) = T
  BY <1>6, <1>7
<1> QED BY <1>2, <1>8 DEF IsSeq

(* A sequence of one element. *)
LEMMA SeqOfOne ==
  ASSUME NEW x
  PROVE  IsSeq(<<x>>) /\ Range(<<x>>) = {x}
BY DEF IsSeq, Range

(* The empty sequence. *)
LEMMA SeqOfNone ==
  IsSeq(<<>>) /\ Range(<<>>) = {}
BY DEF IsSeq, Range

(* -- Largest and smallest ---------------------------------------------- *)

(* Max of a finite set of integers is its largest element. *)
LEMMA MaxIs ==
  ASSUME NEW S \in SUBSET Int, IsFiniteSet(S), S # {}
  PROVE  Max(S) \in S /\ \A x \in S : x <= Max(S)
<1> DEFINE P == {s \in SUBSET S : s = {} \/ \E m \in s : \A x \in s : m >= x}
<1>1. ASSUME NEW s \in SUBSET S, \A t \in SUBSET s : t # s => t \in P
      PROVE  s \in P
  <2>1. CASE s # {}
    <3>1. PICK x \in s : TRUE
      BY <2>1
    <3>2. s \ {x} \in P
      BY <1>1, <3>1
    <3>3. CASE s \ {x} = {}
      BY <3>1, <3>3
    <3>4. CASE s \ {x} # {}
      <4>1. PICK m \in s \ {x} : \A y \in s \ {x} : m >= y
        BY <3>2, <3>4
      <4>2. CASE m >= x
        BY <4>1, <4>2
      <4>3. CASE ~(m >= x)
        <5>1. \A y \in s : x >= y
          BY <4>1, <4>3
        <5> QED BY <5>1, <3>1
      <4> QED BY <4>2, <4>3
    <3> QED BY <3>3, <3>4
  <2> QED BY <2>1
<1>2. S \in P
  <2> HIDE DEF P
  <2> QED BY <1>1, SubsetInduction
<1>3. \E m \in S : \A x \in S : m >= x
  BY <1>2
<1> QED BY <1>3 DEF Max

(* Min of a finite set of integers is its smallest element. *)
LEMMA MinIs ==
  ASSUME NEW S \in SUBSET Int, IsFiniteSet(S), S # {}
  PROVE  Min(S) \in S /\ \A x \in S : Min(S) <= x
<1> DEFINE P == {s \in SUBSET S : s = {} \/ \E m \in s : \A x \in s : m <= x}
<1>1. ASSUME NEW s \in SUBSET S, \A t \in SUBSET s : t # s => t \in P
      PROVE  s \in P
  <2>1. CASE s # {}
    <3>1. PICK x \in s : TRUE
      BY <2>1
    <3>2. s \ {x} \in P
      BY <1>1, <3>1
    <3>3. CASE s \ {x} = {}
      BY <3>1, <3>3
    <3>4. CASE s \ {x} # {}
      <4>1. PICK m \in s \ {x} : \A y \in s \ {x} : m <= y
        BY <3>2, <3>4
      <4>2. CASE m <= x
        BY <4>1, <4>2
      <4>3. CASE ~(m <= x)
        <5>1. \A y \in s : x <= y
          BY <4>1, <4>3
        <5> QED BY <5>1, <3>1
      <4> QED BY <4>2, <4>3
    <3> QED BY <3>3, <3>4
  <2> QED BY <2>1
<1>2. S \in P
  <2> HIDE DEF P
  <2> QED BY <1>1, SubsetInduction
<1>3. \E m \in S : \A x \in S : m <= x
  BY <1>2
<1> QED BY <1>3 DEF Min

(* FlattenSeq of a sequence of sequences is what its recursion says: the   *)
(* first, then each prefix followed by the next.                           *)
LEMMA FlattenUnfolds ==
  ASSUME NEW ss, IsSeq(ss), ss # <<>>, \A x \in Range(ss) : IsSeq(x)
  PROVE  \E f : /\ FlattenSeq(ss) = f[Len(ss)]
                /\ f[1] = ss[1]
                /\ \A i \in 2..Len(ss) : f[i] = f[i - 1] \o ss[i]
<1> DEFINE n == Len(ss)
           D == 1..n
           U == UNION {Range(x) : x \in Range(ss)}
           G == [i \in D |-> [v \in Seq(U) |-> v \o ss[i]]]
           C == [s \in (SUBSET D) \ {{}} |-> Max(s)]
<1>1. n \in Nat /\ n > 0 /\ DOMAIN ss = D /\ IsFiniteSet(D)
  BY FS_Interval, IsSeqFacts DEF IsSeq
<1>2. \A i \in D : ss[i] \in Seq(U)
  <2> SUFFICES ASSUME NEW i \in D PROVE ss[i] \in Seq(U)
    OBVIOUS
  <2>1. ss[i] \in Range(ss)
    BY <1>1 DEF Range
  <2>2. ss[i] \in Seq(Range(ss[i])) /\ Range(ss[i]) \subseteq U
    BY <2>1 DEF IsSeq
  <2> QED BY <2>2
<1>3. G \in [D -> [Seq(U) -> Seq(U)]]
  BY <1>2
<1>4. Picks(C, D) /\ \A s \in (SUBSET D) \ {{}} : \A x \in s : x <= C[s]
  <2> SUFFICES ASSUME NEW s \in (SUBSET D) \ {{}}
               PROVE  C[s] \in s /\ \A x \in s : x <= C[s]
    BY DEF Picks
  <2>1. s \in SUBSET D /\ s # {} /\ s \in SUBSET Int
    OBVIOUS
  <2>2. IsFiniteSet(s)
    <3> HIDE DEF D
    <3> QED BY <1>1, <2>1, FS_Subset
  <2> QED BY <2>1, <2>2, MaxIs
<1>5. PICK it \in [SUBSET D -> Seq(U)] : Folds(it, D, <<>>, C, G)
  <2> HIDE DEF D, U, G, C
  <2>1. <<>> \in Seq(U)
    OBVIOUS
  <2> QED BY <1>1, <1>3, <1>4, <2>1, FoldExists
<1>6. ASSUME NEW i \in D
      PROVE  it[1..i] = it[1..(i-1)] \o ss[i] /\ it[1..(i-1)] \in Seq(U)
  <2>1. 1..i \in (SUBSET D) \ {{}} /\ i \in 1..i /\ 1..(i-1) \in SUBSET D
    BY <1>1
  <2>2. C[1..i] = i
    <3>1. C[1..i] \in 1..i /\ \A x \in 1..i : x <= C[1..i]
      <4> HIDE DEF C, D
      <4> QED BY <1>4, <2>1 DEF Picks
    <3> HIDE DEF C
    <3> QED BY <2>1, <3>1
  <2>3. (1..i) \ {i} = 1..(i-1)
    BY <1>1
  <2>4. it[1..i] = G[i][it[1..(i-1)]]
    <3> HIDE DEF D, U, G, C
    <3> QED BY <1>5, <2>1, <2>2, <2>3 DEF Folds
  <2> QED BY <2>1, <2>4
<1> DEFINE Rec(f) == f = [i \in 1..Len(ss) |-> IF i = 1 THEN ss[i] ELSE f[i - 1] \o ss[i]]
           f0 == [i \in D |-> it[1..i]]
           c  == CHOOSE f : Rec(f)
<1>7. Rec(f0)
  <2> SUFFICES ASSUME NEW i \in D
               PROVE  f0[i] = IF i = 1 THEN ss[i] ELSE f0[i - 1] \o ss[i]
    BY Zenon
  <2>1. f0[i] = it[1..(i-1)] \o ss[i]
    BY <1>6
  <2>2. CASE i = 1
    <3>1. it[1..(i-1)] = <<>>
      <4>1. 1..(i-1) = {}
        BY <2>2
      <4> QED BY <1>5, <4>1 DEF Folds
    <3> QED BY <1>2, <2>1, <2>2, <3>1
  <2>3. CASE i # 1
    <3>1. i - 1 \in D
      BY <1>1, <2>3
    <3>2. f0[i - 1] = it[1..(i-1)]
      BY <3>1
    <3> QED BY <2>1, <2>3, <3>2
  <2> QED BY <2>2, <2>3
<1>8. Rec(c)
  BY <1>7, Zenon
<1>9. FlattenSeq(ss) = c[n]
  <2>1. Len(ss) # 0
    BY <1>1
  <2> QED BY <2>1, Zenon DEF FlattenSeq
<1>10. c[1] = ss[1] /\ \A i \in 2..n : c[i] = c[i - 1] \o ss[i]
  <2>1. c = [i \in 1..Len(ss) |-> IF i = 1 THEN ss[i] ELSE c[i - 1] \o ss[i]]
    BY <1>8, Zenon
  <2> HIDE DEF c, Rec, U, G, C, f0
  <2>2. \A i \in 1..Len(ss) : c[i] = IF i = 1 THEN ss[i] ELSE c[i - 1] \o ss[i]
    <3> DEFINE d == [i \in 1..Len(ss) |-> IF i = 1 THEN ss[i] ELSE c[i - 1] \o ss[i]]
    <3>1. \A i \in 1..Len(ss) : d[i] = IF i = 1 THEN ss[i] ELSE c[i - 1] \o ss[i]
      BY Zenon
    <3> HIDE DEF d
    <3>2. c = d
      BY <2>1 DEF d
    <3> QED BY <3>1, <3>2, Zenon
  <2> HIDE DEF n
  <2>3. 1 \in 1..n /\ n = Len(ss) /\ n \in Nat
    BY <1>1 DEF n
  <2>4. c[1] = ss[1]
    BY <2>2, <2>3
  <2>5. \A i \in 2..n : i \in 1..n /\ i # 1
    BY <2>3
  <2> QED BY <2>2, <2>3, <2>4, <2>5
<1> QED BY <1>9, <1>10, Zenon

(* FlattenSeq has the elements of all the sequences it joins. *)
LEMMA FlattenIs ==
  ASSUME NEW ss, IsSeq(ss), \A x \in Range(ss) : IsSeq(x)
  PROVE  /\ IsSeq(FlattenSeq(ss))
         /\ Range(FlattenSeq(ss)) = UNION {Range(x) : x \in Range(ss)}
<1>1. Len(ss) \in Nat /\ DOMAIN ss = 1..Len(ss)
  BY IsSeqFacts
<1>2. CASE ss = <<>>
  <2>1. FlattenSeq(ss) = <<>>
    BY <1>2, Zenon DEF FlattenSeq
  <2> QED BY <1>2, <2>1, SeqOfNone
<1>3. CASE ss # <<>>
  <2> DEFINE n == Len(ss)
             From(i) == UNION {Range(ss[j]) : j \in 1..i}
  <2>1. PICK f : /\ FlattenSeq(ss) = f[n]
                 /\ f[1] = ss[1]
                 /\ \A i \in 2..n : f[i] = f[i - 1] \o ss[i]
    BY <1>3, FlattenUnfolds
  <2>2. \A i \in 1..n : IsSeq(ss[i])
    BY <1>1 DEF Range
  <2> DEFINE P == {i \in Nat : i + 1 <= n => IsSeq(f[i + 1]) /\ Range(f[i + 1]) = From(i + 1)}
  <2>3. 0 \in P
    <3>1. 1 <= n
      BY <1>1, <1>3 DEF IsSeq
    <3>2. From(1) = Range(ss[1])
      OBVIOUS
    <3> QED BY <2>1, <2>2, <3>1, <3>2
  <2>4. ASSUME NEW i \in P
        PROVE  i + 1 \in P
    <3> SUFFICES ASSUME i + 2 <= n
                 PROVE  IsSeq(f[i + 2]) /\ Range(f[i + 2]) = From(i + 2)
      OBVIOUS
    <3>1. i \in Nat /\ IsSeq(f[i + 1]) /\ Range(f[i + 1]) = From(i + 1)
      BY <1>1
    <3>2. f[i + 2] = f[i + 1] \o ss[i + 2] /\ i + 2 \in 1..n
      <4>1. i + 2 \in 2..n /\ i + 2 \in 1..n /\ (i + 2) - 1 = i + 1
        BY <1>1, <3>1
      <4>2. f[i + 2] = f[(i + 2) - 1] \o ss[i + 2]
        <5> HIDE DEF n, P
        <5> QED BY <2>1, <4>1
      <4> QED BY <4>1, <4>2
    <3>3. IsSeq(f[i + 2]) /\ Range(f[i + 2]) = From(i + 1) \cup Range(ss[i + 2])
      BY <2>2, <3>1, <3>2, ConcatIs
    <3>4. 1..(i + 2) = (1..(i + 1)) \cup {i + 2}
      BY <3>1
    <3>5. From(i + 2) = From(i + 1) \cup Range(ss[i + 2])
      BY <3>4
    <3> QED BY <3>3, <3>5
  <2>5. P = Nat
    <3> HIDE DEF P
    <3>1. P \in SUBSET Nat
      BY DEF P
    <3> QED BY <2>3, <2>4, <3>1, SetInduction
  <2>6. n - 1 \in P /\ (n - 1) + 1 = n
    <3>1. n \in Nat /\ n # 0
      BY <1>1, <1>3 DEF IsSeq
    <3> HIDE DEF n, P
    <3> QED BY <2>5, <3>1
  <2>7. IsSeq(f[n]) /\ Range(f[n]) = From(n)
    <3> HIDE DEF n, From
    <3> QED BY <2>6, <1>1 DEF n
  <2>8. From(n) = UNION {Range(x) : x \in Range(ss)}
    BY <1>1 DEF Range
  <2> QED BY <2>1, <2>7, <2>8
<1> QED BY <1>2, <1>3

(* FlattenSeq of one sequence is that sequence. *)
LEMMA FlattenOne ==
  ASSUME NEW x, IsSeq(x)
  PROVE  FlattenSeq(<<x>>) = x
<1>1. IsSeq(<<x>>) /\ Range(<<x>>) = {x} /\ <<x>> # <<>> /\ Len(<<x>>) = 1 /\ <<x>>[1] = x
  BY SeqOfOne
<1>2. PICK f : FlattenSeq(<<x>>) = f[Len(<<x>>)] /\ f[1] = <<x>>[1]
  BY <1>1, FlattenUnfolds
<1> QED BY <1>1, <1>2

(* FlattenSeq of no sequence is empty. *)
LEMMA FlattenNone == FlattenSeq(<<>>) = <<>>
BY DEF FlattenSeq

(* No element occurs twice.                                                *)
Once(s) == \A i, j \in DOMAIN s : s[i] = s[j] => i = j

(* A new element at the end.                                               *)
LEMMA OnceMore ==
  ASSUME NEW s, IsSeq(s), Once(s), NEW x, x \notin Range(s)
  PROVE  Once(s \o <<x>>)
<1> DEFINE t == s \o <<x>>
           T == Range(s) \cup {x}
           n == Len(s)
<1>1. s \in Seq(T) /\ <<x>> \in Seq(T) /\ DOMAIN s = 1..n /\ n \in Nat
  BY DEF IsSeq
<1>2. DOMAIN t = 1..(n + 1) /\ t[n + 1] = x /\ \A i \in 1..n : t[i] = s[i]
  BY <1>1
<1>3. \A i \in 1..n : s[i] \in Range(s)
  BY <1>1 DEF Range
<1> HIDE DEF t, n
<1>4. \A i, j \in 1..(n + 1) : t[i] = t[j] => i = j
  <2> SUFFICES ASSUME NEW i \in 1..(n + 1), NEW j \in 1..(n + 1), t[i] = t[j] PROVE i = j
    OBVIOUS
  <2>1. (i \in 1..n \/ i = n + 1) /\ (j \in 1..n \/ j = n + 1)
    BY <1>1
  <2>2. CASE i \in 1..n /\ j \in 1..n
    BY <1>1, <1>2, <2>2 DEF Once
  <2>3. CASE i = n + 1 /\ j \in 1..n
    BY <1>2, <1>3, <2>3
  <2>4. CASE j = n + 1 /\ i \in 1..n
    BY <1>2, <1>3, <2>4
  <2> QED BY <2>1, <2>2, <2>3, <2>4
<1> QED BY <1>2, <1>4 DEF Once, t

(* Keeping some elements of a sequence duplicates none.                    *)
LEMMA KeptOnce ==
  ASSUME NEW seq, IsSeq(seq), Once(seq), NEW keep \in [DOMAIN seq -> BOOLEAN]
  PROVE  Once(FlattenSeq([i \in DOMAIN seq |-> IF keep[i] THEN <<seq[i]>> ELSE <<>>]))
<1> DEFINE ss == [i \in DOMAIN seq |-> IF keep[i] THEN <<seq[i]>> ELSE <<>>]
           n == Len(seq)
<1>1. DOMAIN seq = 1..n /\ n \in Nat
  BY IsSeqFacts
<1>2. \A i \in 1..n : ss[i] = IF keep[i] THEN <<seq[i]>> ELSE <<>>
  BY <1>1
<1>3. IsSeq(ss) /\ Len(ss) = n /\ DOMAIN ss = 1..n
  <2>1. \A i \in 1..n : ss[i] \in Range(ss)
    BY <1>1 DEF Range
  <2>2. ss = [i \in 1..n |-> ss[i]]
    BY <1>1
  <2> HIDE DEF ss, n
  <2>3. ss \in Seq(Range(ss))
    BY <1>1, <2>1, <2>2
  <2> QED BY <1>1, <2>2, <2>3 DEF IsSeq
<1>4. \A x \in Range(ss) : IsSeq(x)
  <2>1. \A i \in 1..n : IsSeq(ss[i])
    BY <1>2, SeqOfOne, SeqOfNone
  <2> HIDE DEF ss
  <2> QED BY <1>3, <2>1 DEF Range
<1>5. CASE n = 0
  <2>1. ss = <<>>
    <3> HIDE DEF ss
    <3> QED BY <1>3, <1>5 DEF IsSeq
  <2>2. FlattenSeq(ss) = <<>>
    BY <2>1, FlattenNone
  <2> QED BY <2>2 DEF Once
<1>6. CASE n # 0
  <2> HIDE DEF ss, n
  <2>1. ss # <<>>
    BY <1>1, <1>3, <1>6
  <2>2. PICK f : /\ FlattenSeq(ss) = f[Len(ss)]
                 /\ f[1] = ss[1]
                 /\ \A i \in 2..Len(ss) : f[i] = f[i - 1] \o ss[i]
    BY <1>3, <1>4, <2>1, FlattenUnfolds
  <2> DEFINE Good(i) == IsSeq(f[i]) /\ Once(f[i]) /\ Range(f[i]) \subseteq {seq[j] : j \in 1..i}
             P == {i \in Nat : i \in 1..n => Good(i)}
  <2>3. 0 \in P
    OBVIOUS
  <2>4. ASSUME NEW i \in P
        PROVE  i + 1 \in P
    <3>1. SUFFICES ASSUME i + 1 \in 1..n PROVE Good(i + 1)
      OBVIOUS
    <3>2. i \in Nat /\ (i # 0 => Good(i)) /\ i + 1 \in DOMAIN seq
      BY <1>1, <3>1
    <3>3. \A j \in 1..i : seq[j] # seq[i + 1] /\ j \in 1..(i + 1)
      BY <1>1, <3>1, <3>2 DEF Once
    <3>4. ss[i + 1] = IF keep[i + 1] THEN <<seq[i + 1]>> ELSE <<>>
      BY <1>2, <3>1
    <3>5. CASE i = 0
      <4>1. f[i + 1] \in {<<seq[i + 1]>>, <<>>}
        BY <2>2, <3>4, <3>5
      <4>2. CASE f[i + 1] = <<seq[i + 1]>>
        <5>1. Once(<<seq[i + 1]>>)
          BY DEF Once
        <5> QED BY <3>2, <4>2, <5>1, SeqOfOne
      <4>3. CASE f[i + 1] = <<>>
        <5>1. Once(<<>>)
          BY DEF Once
        <5> QED BY <4>3, <5>1, SeqOfNone
      <4> QED BY <4>1, <4>2, <4>3
    <3>6. CASE i # 0
      <4>1. f[i + 1] = f[i] \o ss[i + 1] /\ Good(i)
        <5>1. i + 1 \in 2..Len(ss) /\ (i + 1) - 1 = i
          BY <1>3, <3>1, <3>2, <3>6
        <5>2. f[i + 1] = f[(i + 1) - 1] \o ss[i + 1]
          BY <2>2, <5>1
        <5> QED BY <3>2, <3>6, <5>1, <5>2
      <4>2. CASE keep[i + 1]
        <5>1. f[i + 1] = f[i] \o <<seq[i + 1]>> /\ seq[i + 1] \notin Range(f[i])
          BY <3>3, <3>4, <4>1, <4>2
        <5>2. IsSeq(f[i + 1]) /\ Range(f[i + 1]) = Range(f[i]) \cup {seq[i + 1]}
          BY <4>1, <5>1, ConcatIs, SeqOfOne
        <5>3. Once(f[i + 1])
          BY <4>1, <5>1, OnceMore
        <5>4. Range(f[i + 1]) \subseteq {seq[j] : j \in 1..(i + 1)}
          BY <3>2, <3>3, <4>1, <5>2
        <5> QED BY <5>2, <5>3, <5>4
      <4>3. CASE ~keep[i + 1]
        <5>1. f[i + 1] = f[i] \o <<>>
          BY <3>4, <4>1, <4>3
        <5>2. f[i] \o <<>> = f[i]
          BY <4>1 DEF IsSeq
        <5>3. Range(f[i]) \subseteq {seq[j] : j \in 1..(i + 1)}
          BY <3>3, <4>1
        <5> QED BY <4>1, <5>1, <5>2, <5>3
      <4> QED BY <4>2, <4>3
    <3> QED BY <3>5, <3>6
  <2> HIDE DEF Good
  <2>5. P = Nat
    <3> HIDE DEF P
    <3>1. P \in SUBSET Nat
      BY DEF P
    <3> QED BY <2>3, <2>4, <3>1, SetInduction
  <2>6. Good(n)
    BY <1>1, <1>6, <2>5
  <2> QED BY <1>3, <2>2, <2>6 DEF Good, ss
<1> QED BY <1>5, <1>6

(* -- Sums -------------------------------------------------------------- *)

(* What a sum over a set adds up, element by element. *)
SumsOf(it, f, S) ==
  /\ it \in [SUBSET S -> Int]
  /\ it[{}] = 0
  /\ \A s \in (SUBSET S) \ {{}} : it[s] = f[CHOOSE x \in s : TRUE] + it[s \ {CHOOSE x \in s : TRUE}]

(* A sum adds up its elements. *)
LEMMA SumUnfolds ==
  ASSUME NEW S, IsFiniteSet(S), NEW f, \A i \in S : f[i] \in Int
  PROVE  \E it : SumsOf(it, f, S) /\ SumFunctionOnSet(f, S) = it[S]
<1> DEFINE Rec(g) == g = [s \in SUBSET S |->
                            IF s = {} THEN 0
                            ELSE f[CHOOSE x \in s : TRUE] + g[s \ {CHOOSE x \in s : TRUE}]]
           G == [i \in S |-> [v \in Int |-> f[i] + v]]
           C == [s \in (SUBSET S) \ {{}} |-> CHOOSE x \in s : TRUE]
           c == CHOOSE g : Rec(g)
<1>1. SumFunctionOnSet(f, S) = c[S]
  BY Zenon DEF SumFunctionOnSet, FoldFunctionOnSet, MapThenFoldSet
<1>2. \A s \in (SUBSET S) \ {{}} : (CHOOSE x \in s : TRUE) \in s
  OBVIOUS
<1>3. Picks(C, S)
  BY <1>2 DEF Picks
<1>4. G \in [S -> [Int -> Int]]
  OBVIOUS
<1>5. PICK it \in [SUBSET S -> Int] : Folds(it, S, 0, C, G)
  <2> DEFINE V == Int
  <2>1. 0 \in V /\ G \in [S -> [V -> V]]
    BY <1>4
  <2> HIDE DEF G, C, V
  <2>2. \E it \in [SUBSET S -> V] : Folds(it, S, 0, C, G)
    BY <1>3, <2>1, FoldExists
  <2> QED BY <2>2 DEF V
<1>6. \A s \in (SUBSET S) \ {{}} : it[s] = f[CHOOSE x \in s : TRUE] + it[s \ {CHOOSE x \in s : TRUE}]
  <2> SUFFICES ASSUME NEW s \in (SUBSET S) \ {{}}
               PROVE  it[s] = f[CHOOSE x \in s : TRUE] + it[s \ {CHOOSE x \in s : TRUE}]
    OBVIOUS
  <2> DEFINE p == CHOOSE x \in s : TRUE
  <2>1. it[s] = G[p][it[s \ {p}]]
    BY <1>5 DEF Folds
  <2>2. p \in S /\ it[s \ {p}] \in Int
    BY <1>2
  <2> QED BY <2>1, <2>2
<1>7. Rec(it)
  BY <1>5, <1>6 DEF Folds
<1>8. Rec(c)
  <2> HIDE DEF Rec
  <2> QED BY <1>7, Zenon
<1>9. c = [s \in SUBSET S |-> IF s = {} THEN 0 ELSE f[CHOOSE x \in s : TRUE] + c[s \ {CHOOSE x \in s : TRUE}]]
  BY <1>8, Zenon
<1> HIDE DEF c
<1>10. /\ c[{}] = 0
       /\ \A s \in (SUBSET S) \ {{}} : c[s] = f[CHOOSE x \in s : TRUE] + c[s \ {CHOOSE x \in s : TRUE}]
  BY <1>9
<1>11. c \in [SUBSET S -> Int]
  <2> DEFINE P == {s \in SUBSET S : c[s] \in Int}
  <2>1. ASSUME NEW s \in SUBSET S, \A t \in SUBSET s : t # s => t \in P
        PROVE  s \in P
    <3>1. CASE s # {}
      <4> DEFINE p == CHOOSE x \in s : TRUE
      <4>1. p \in s /\ s \ {p} \in SUBSET s /\ s \ {p} # s
        BY <1>2, <3>1
      <4>2. c[s] = f[p] + c[s \ {p}]
        BY <1>10, <3>1
      <4>3. f[p] \in Int /\ c[s \ {p}] \in Int
        BY <2>1, <4>1
      <4>4. c[s] \in Int
        BY <4>2, <4>3
      <4> QED BY <4>4
    <3>2. CASE s = {}
      BY <1>10, <3>2
    <3> QED BY <3>1, <3>2
  <2> HIDE DEF P
  <2>2. \A s \in SUBSET S : s \in P
    BY <2>1, SubsetInduction
  <2>3. \A s \in SUBSET S : c[s] \in Int
    BY <2>2 DEF P
  <2> DEFINE d == [s \in SUBSET S |-> IF s = {} THEN 0 ELSE f[CHOOSE x \in s : TRUE] + c[s \ {CHOOSE x \in s : TRUE}]]
  <2>4. c = [s \in SUBSET S |-> d[s]]
    BY <1>9, Zenon
  <2> HIDE DEF d
  <2>5. c = [s \in SUBSET S |-> c[s]]
    BY <2>4
  <2> QED BY <2>3, <2>5
<1>12. SumsOf(c, f, S)
  BY <1>10, <1>11 DEF SumsOf
<1> QED BY <1>1, <1>12

(* The order in which a sum takes its elements does not matter. *)
LEMMA SumAny ==
  ASSUME NEW S, IsFiniteSet(S), NEW f, \A i \in S : f[i] \in Int, NEW it, SumsOf(it, f, S)
  PROVE  \A s \in SUBSET S : \A x \in s : it[s] = f[x] + it[s \ {x}]
<1> DEFINE P == {s \in SUBSET S : \A x \in s : it[s] = f[x] + it[s \ {x}]}
<1>1. ASSUME NEW s \in SUBSET S, \A t \in SUBSET s : t # s => t \in P
      PROVE  s \in P
  <2> SUFFICES ASSUME NEW x \in s
               PROVE  it[s] = f[x] + it[s \ {x}]
    OBVIOUS
  <2> DEFINE p == CHOOSE y \in s : TRUE
  <2>1. p \in s /\ it[s] = f[p] + it[s \ {p}]
    BY DEF SumsOf
  <2> HIDE DEF p
  <2>2. CASE p = x
    BY <2>1, <2>2
  <2>3. CASE p # x
    <3> DEFINE t == s \ {p}
               u == s \ {x}
               v == s \ {p, x}
    <3>1. t \in P /\ u \in P /\ x \in t /\ p \in u /\ t \ {x} = v /\ u \ {p} = v
      BY <1>1, <2>1, <2>3
    <3>2. it[t] = f[x] + it[v] /\ it[u] = f[p] + it[v]
      BY <3>1
    <3>3. f[x] \in Int /\ f[p] \in Int /\ it[v] \in Int
      BY <2>1 DEF SumsOf
    <3> HIDE DEF t, u, v
    <3>4. it[s] = f[p] + (f[x] + it[v]) /\ it[u] = f[p] + it[v]
      BY <2>1, <3>2 DEF t
    <3>5. it[s] = f[x] + it[u]
      BY <3>3, <3>4
    <3> QED BY <3>5 DEF u
  <2> QED BY <2>2, <2>3
<1> HIDE DEF P
<1>2. \A s \in SUBSET S : s \in P
  BY <1>1, SubsetInduction
<1> QED BY <1>2 DEF P

(* The partial sums are the sums over the parts. *)
LEMMA SumPart ==
  ASSUME NEW S, IsFiniteSet(S), NEW f, \A i \in S : f[i] \in Int, NEW it, SumsOf(it, f, S),
         NEW T \in SUBSET S
  PROVE  SumFunctionOnSet(f, T) = it[T]
<1>1. IsFiniteSet(T) /\ \A i \in T : f[i] \in Int
  BY FS_Subset
<1>2. PICK jt : SumsOf(jt, f, T) /\ SumFunctionOnSet(f, T) = jt[T]
  BY <1>1, SumUnfolds
<1> DEFINE P == {s \in SUBSET T : jt[s] = it[s]}
<1>3. ASSUME NEW s \in SUBSET T, \A t \in SUBSET s : t # s => t \in P
      PROVE  s \in P
  <2>1. CASE s = {}
    BY <1>2, <2>1 DEF SumsOf
  <2>2. CASE s # {}
    <3> DEFINE p == CHOOSE x \in s : TRUE
    <3>1. p \in s /\ it[s] = f[p] + it[s \ {p}] /\ jt[s] = f[p] + jt[s \ {p}]
      BY <1>2, <2>2 DEF SumsOf
    <3> HIDE DEF p
    <3>2. s \ {p} \in P
      BY <1>3, <3>1
    <3> QED BY <3>1, <3>2
  <2> QED BY <2>1, <2>2
<1> HIDE DEF P
<1>4. \A s \in SUBSET T : s \in P
  BY <1>1, <1>3, SubsetInduction
<1> QED BY <1>2, <1>4 DEF P

(* A sum over a finite set of integers is an integer; it may be taken from *)
(* any of its elements.                                                    *)
LEMMA SumIs ==
  ASSUME NEW S, IsFiniteSet(S), NEW f, \A i \in S : f[i] \in Int
  PROVE  /\ SumFunctionOnSet(f, S) \in Int
         /\ S = {} => SumFunctionOnSet(f, S) = 0
         /\ \A x \in S : SumFunctionOnSet(f, S) = f[x] + SumFunctionOnSet(f, S \ {x})
<1>1. PICK it : SumsOf(it, f, S)
  BY SumUnfolds
<1>2. \A T \in SUBSET S : SumFunctionOnSet(f, T) = it[T]
  BY <1>1, SumPart
<1>3. \A x \in S : it[S] = f[x] + it[S \ {x}]
  BY <1>1, SumAny
<1>4. it[S] \in Int /\ (S = {} => it[S] = 0)
  BY <1>1 DEF SumsOf
<1> QED BY <1>2, <1>3, <1>4

(* A sum depends on nothing but the values it adds up. *)
LEMMA SumCongruent ==
  ASSUME NEW S, IsFiniteSet(S), NEW f, NEW g, \A i \in S : f[i] \in Int /\ f[i] = g[i]
  PROVE  SumFunctionOnSet(f, S) = SumFunctionOnSet(g, S)
<1> DEFINE P == {s \in SUBSET S : SumFunctionOnSet(f, s) = SumFunctionOnSet(g, s)}
<1>1. ASSUME NEW s \in SUBSET S, \A t \in SUBSET s : t # s => t \in P
      PROVE  s \in P
  <2>1. IsFiniteSet(s) /\ (\A i \in s : f[i] \in Int) /\ (\A i \in s : g[i] \in Int)
    BY FS_Subset
  <2>2. CASE s = {}
    BY <2>1, <2>2, SumIs
  <2>3. CASE s # {}
    <3>1. PICK x \in s : TRUE
      BY <2>3
    <3>2. s \ {x} \in P
      BY <1>1, <3>1
    <3>3. SumFunctionOnSet(f, s) = f[x] + SumFunctionOnSet(f, s \ {x})
      BY <2>1, SumIs
    <3>4. SumFunctionOnSet(g, s) = g[x] + SumFunctionOnSet(g, s \ {x})
      BY <2>1, SumIs
    <3> QED BY <3>2, <3>3, <3>4
  <2> QED BY <2>2, <2>3
<1> HIDE DEF P
<1>2. S \in P
  BY <1>1, SubsetInduction
<1> QED BY <1>2 DEF P

(* Larger summands, larger sum; and a factor may be taken out. *)
LEMMA SumCompare ==
  ASSUME NEW S, IsFiniteSet(S), NEW f, NEW g, NEW c \in Int,
         \A i \in S : f[i] \in Int /\ g[i] \in Int /\ f[i] <= c * g[i]
  PROVE  SumFunctionOnSet(f, S) <= c * SumFunctionOnSet(g, S)
<1> DEFINE P == {s \in SUBSET S : SumFunctionOnSet(f, s) <= c * SumFunctionOnSet(g, s)}
<1>1. ASSUME NEW s \in SUBSET S, \A t \in SUBSET s : t # s => t \in P
      PROVE  s \in P
  <2>1. IsFiniteSet(s) /\ (\A i \in s : f[i] \in Int) /\ (\A i \in s : g[i] \in Int)
    BY FS_Subset
  <2>2. CASE s = {}
    BY <2>1, <2>2, SumIs
  <2>3. CASE s # {}
    <3>1. PICK x \in s : TRUE
      BY <2>3
    <3> DEFINE t == s \ {x}
               a == SumFunctionOnSet(f, t)
               b == SumFunctionOnSet(g, t)
    <3>2. t \in P
      BY <1>1, <3>1
    <3>3. IsFiniteSet(t) /\ (\A i \in t : f[i] \in Int) /\ (\A i \in t : g[i] \in Int)
      BY <2>1, FS_Subset
    <3>4. a \in Int /\ b \in Int
      BY <3>3, SumIs
    <3>5. SumFunctionOnSet(f, s) = f[x] + a
      BY <2>1, SumIs
    <3>6. SumFunctionOnSet(g, s) = g[x] + b
      BY <2>1, SumIs
    <3>7. a <= c * b
      BY <3>2
    <3>8. f[x] \in Int /\ g[x] \in Int /\ f[x] <= c * g[x]
      OBVIOUS
    <3> HIDE DEF a, b
    <3>9. \A m, n, k, l \in Int : m <= c * n /\ k <= c * l => m + k <= c * (n + l)
      <4> SUFFICES ASSUME NEW m \in Int, NEW n \in Int, NEW k \in Int, NEW l \in Int,
                          m <= c * n, k <= c * l
                   PROVE  m + k <= c * (n + l)
        OBVIOUS
      <4>1. c * (n + l) = c * n + c * l
        OBVIOUS
      <4> QED BY <4>1
    <3>10. f[x] + a <= c * (g[x] + b)
      BY <3>4, <3>7, <3>8, <3>9
    <3> QED BY <3>5, <3>6, <3>10
  <2> QED BY <2>2, <2>3
<1> HIDE DEF P
<1>2. S \in P
  BY <1>1, SubsetInduction
<1> QED BY <1>2 DEF P

(* Two sets that share nothing are added up one after the other. *)
LEMMA SumUnion ==
  ASSUME NEW A, NEW B, IsFiniteSet(A), IsFiniteSet(B), A \cap B = {},
         NEW f, \A i \in A \cup B : f[i] \in Int
  PROVE  SumFunctionOnSet(f, A \cup B) = SumFunctionOnSet(f, A) + SumFunctionOnSet(f, B)
<1> DEFINE P == {t \in SUBSET B : SumFunctionOnSet(f, A \cup t) = SumFunctionOnSet(f, A) + SumFunctionOnSet(f, t)}
<1>1. ASSUME NEW t \in SUBSET B, \A u \in SUBSET t : u # t => u \in P
      PROVE  t \in P
  <2>1. IsFiniteSet(t) /\ IsFiniteSet(A \cup t) /\ (\A i \in A \cup t : f[i] \in Int)
    BY FS_Subset, FS_Union
  <2>2. SumFunctionOnSet(f, A) \in Int
    BY SumIs
  <2>3. CASE t = {}
    <3>1. SumFunctionOnSet(f, t) = 0
      BY <2>1, <2>3, SumIs
    <3>2. A \cup t = A
      BY <2>3
    <3>3. SumFunctionOnSet(f, A \cup t) = SumFunctionOnSet(f, A)
      BY <3>2, Zenon
    <3> QED BY <2>2, <3>1, <3>3
  <2>4. CASE t # {}
    <3>1. PICK x \in t : TRUE
      BY <2>4
    <3>2. t \ {x} \in P
      BY <1>1, <3>1
    <3>3. (A \cup t) \ {x} = A \cup (t \ {x})
      BY <3>1
    <3>4. /\ SumFunctionOnSet(f, A \cup t) = f[x] + SumFunctionOnSet(f, (A \cup t) \ {x})
          /\ SumFunctionOnSet(f, t) = f[x] + SumFunctionOnSet(f, t \ {x})
      BY <2>1, <3>1, SumIs
    <3>5. SumFunctionOnSet(f, t \ {x}) \in Int /\ f[x] \in Int
      <4>1. IsFiniteSet(t \ {x}) /\ \A i \in t \ {x} : f[i] \in Int
        BY <2>1, FS_Subset
      <4> QED BY <2>1, <3>1, <4>1, SumIs
    <3>6. SumFunctionOnSet(f, A \cup (t \ {x})) = SumFunctionOnSet(f, A) + SumFunctionOnSet(f, t \ {x})
      BY <3>2
    <3> DEFINE a == SumFunctionOnSet(f, A)
               b == SumFunctionOnSet(f, t \ {x})
               u == SumFunctionOnSet(f, A \cup (t \ {x}))
               v == SumFunctionOnSet(f, A \cup t)
    <3>7. v = f[x] + u
      BY <3>3, <3>4, Zenon
    <3>8. v = a + SumFunctionOnSet(f, t)
      <4>1. SumFunctionOnSet(f, t) = f[x] + b /\ b \in Int /\ f[x] \in Int /\ a \in Int /\ u = a + b
        BY <2>2, <3>4, <3>5, <3>6
      <4> HIDE DEF a, b, u, v
      <4> QED BY <3>7, <4>1
    <3> QED BY <3>8
  <2> QED BY <2>3, <2>4
<1> HIDE DEF P
<1>2. B \in P
  BY <1>1, SubsetInduction
<1> QED BY <1>2 DEF P

(* A sum of sums is the sum of the parts. *)
LEMMA SumPlus ==
  ASSUME NEW S, IsFiniteSet(S), NEW f, NEW g, NEW h,
         \A i \in S : f[i] \in Int /\ g[i] \in Int /\ h[i] = f[i] + g[i]
  PROVE  SumFunctionOnSet(h, S) = SumFunctionOnSet(f, S) + SumFunctionOnSet(g, S)
<1> DEFINE P == {s \in SUBSET S : SumFunctionOnSet(h, s) = SumFunctionOnSet(f, s) + SumFunctionOnSet(g, s)}
<1>1. ASSUME NEW s \in SUBSET S, \A t \in SUBSET s : t # s => t \in P
      PROVE  s \in P
  <2>1. IsFiniteSet(s) /\ (\A i \in s : f[i] \in Int) /\ (\A i \in s : g[i] \in Int) /\ (\A i \in s : h[i] \in Int)
    BY FS_Subset
  <2>2. CASE s = {}
    <3>1. SumFunctionOnSet(f, s) = 0 /\ SumFunctionOnSet(g, s) = 0 /\ SumFunctionOnSet(h, s) = 0
      BY <2>1, <2>2, SumIs
    <3> QED BY <3>1
  <2>3. CASE s # {}
    <3>1. PICK x \in s : TRUE
      BY <2>3
    <3>2. s \ {x} \in P
      BY <1>1, <3>1
    <3>3. /\ SumFunctionOnSet(f, s) = f[x] + SumFunctionOnSet(f, s \ {x})
          /\ SumFunctionOnSet(g, s) = g[x] + SumFunctionOnSet(g, s \ {x})
          /\ SumFunctionOnSet(h, s) = h[x] + SumFunctionOnSet(h, s \ {x})
      BY <2>1, <3>1, SumIs
    <3>4. SumFunctionOnSet(f, s \ {x}) \in Int /\ SumFunctionOnSet(g, s \ {x}) \in Int
      <4>1. IsFiniteSet(s \ {x}) /\ (\A i \in s \ {x} : f[i] \in Int) /\ (\A i \in s \ {x} : g[i] \in Int)
        BY <2>1, FS_Subset
      <4> QED BY <4>1, SumIs
    <3>5. f[x] \in Int /\ g[x] \in Int /\ h[x] = f[x] + g[x]
      BY <3>1
    <3>6. SumFunctionOnSet(h, s \ {x}) = SumFunctionOnSet(f, s \ {x}) + SumFunctionOnSet(g, s \ {x})
      BY <3>2
    <3> QED BY <3>3, <3>4, <3>5, <3>6
  <2> QED BY <2>2, <2>3
<1> HIDE DEF P
<1>2. S \in P
  BY <1>1, SubsetInduction
<1> QED BY <1>2 DEF P

(* A sum of one number many times is a product. *)
LEMMA SumConst ==
  ASSUME NEW S, IsFiniteSet(S), NEW c \in Int, NEW f, \A i \in S : f[i] = c
  PROVE  SumFunctionOnSet(f, S) = c * Cardinality(S)
<1> DEFINE P == {s \in SUBSET S : SumFunctionOnSet(f, s) = c * Cardinality(s)}
<1>1. ASSUME NEW s \in SUBSET S, \A t \in SUBSET s : t # s => t \in P
      PROVE  s \in P
  <2>1. IsFiniteSet(s) /\ (\A i \in s : f[i] \in Int)
    BY FS_Subset
  <2>2. CASE s = {}
    <3>1. SumFunctionOnSet(f, s) = 0 /\ Cardinality(s) = 0
      BY <2>1, <2>2, SumIs, FS_EmptySet
    <3> QED BY <3>1
  <2>3. CASE s # {}
    <3>1. PICK x \in s : TRUE
      BY <2>3
    <3>2. s \ {x} \in P
      BY <1>1, <3>1
    <3>3. SumFunctionOnSet(f, s) = c + SumFunctionOnSet(f, s \ {x})
      BY <2>1, <3>1, SumIs
    <3>4. Cardinality(s) \in Nat /\ Cardinality(s \ {x}) = Cardinality(s) - 1
      BY <2>1, <3>1, FS_CardinalityType, FS_RemoveElement
    <3>5. SumFunctionOnSet(f, s \ {x}) = c * (Cardinality(s) - 1)
      BY <3>2, <3>4
    <3>6. \A n \in Nat : c + c * (n - 1) = c * n
      OBVIOUS
    <3> QED BY <3>3, <3>4, <3>5, <3>6
  <2> QED BY <2>2, <2>3
<1> HIDE DEF P
<1>2. S \in P
  BY <1>1, SubsetInduction
<1> QED BY <1>2 DEF P

(* Summands may be gathered into heaps, and the heaps added up.            *)
LEMMA SumGathered ==
  ASSUME NEW S, IsFiniteSet(S), NEW K, IsFiniteSet(K), NEW heap,
         \A y \in K : heap[y] \in SUBSET S,
         \A i \in S : \E y \in K : i \in heap[y],
         \A y, z \in K : \A i \in heap[y] : i \in heap[z] => y = z,
         NEW f, \A i \in S : f[i] \in Int,
         NEW g, \A y \in K : g[y] = SumFunctionOnSet(f, heap[y])
  PROVE  SumFunctionOnSet(g, K) = SumFunctionOnSet(f, S)
<1> DEFINE of(t) == {i \in S : \E y \in t : i \in heap[y]}
           P == {t \in SUBSET K : SumFunctionOnSet(g, t) = SumFunctionOnSet(f, of(t))}
<1>2. \A U \in SUBSET S : IsFiniteSet(U) /\ SumFunctionOnSet(f, U) \in Int
  <2> TAKE U \in SUBSET S
  <2>1. IsFiniteSet(U) /\ \A i \in U : f[i] \in Int
    BY FS_Subset
  <2> QED BY <2>1, SumIs
<1>3. \A y \in K : heap[y] \in SUBSET S /\ g[y] = SumFunctionOnSet(f, heap[y]) /\ g[y] \in Int
  BY <1>2
<1>4. ASSUME NEW t \in SUBSET K, \A u \in SUBSET t : u # t => u \in P
      PROVE  t \in P
  <2>0. IsFiniteSet(t) /\ \A y \in t : g[y] \in Int
    BY <1>3, FS_Subset
  <2>1. CASE t = {}
    <3>1. of(t) = {}
      BY <2>1
    <3>2. SumFunctionOnSet(g, t) = 0
      BY <2>0, <2>1, SumIs
    <3>3. SumFunctionOnSet(f, {}) = 0
      BY FS_EmptySet, SumIs
    <3> HIDE DEF of
    <3> QED BY <3>1, <3>2, <3>3
  <2>2. CASE t # {}
    <3>1. PICK y \in t : TRUE
      BY <2>2
    <3>2. t \ {y} \in P
      BY <1>4, <3>1
    <3> DEFINE U == heap[y]
               V == of(t \ {y})
    <3>3. U \in SUBSET S /\ V \in SUBSET S /\ of(t) = U \cup V /\ U \cap V = {}
      BY <1>3, <3>1
    <3>4. SumFunctionOnSet(g, t) = g[y] + SumFunctionOnSet(g, t \ {y})
      BY <2>0, <3>1, SumIs
    <3>5. SumFunctionOnSet(g, t \ {y}) = SumFunctionOnSet(f, V)
      BY <3>2
    <3>6. g[y] = SumFunctionOnSet(f, U)
      BY <1>3, <3>1
    <3> HIDE DEF of, U, V
    <3>7. IsFiniteSet(U) /\ IsFiniteSet(V) /\ \A i \in U \cup V : f[i] \in Int
      BY <1>2, <3>3
    <3>8. SumFunctionOnSet(f, U \cup V) = SumFunctionOnSet(f, U) + SumFunctionOnSet(f, V)
      BY <3>3, <3>7, SumUnion
    <3> QED BY <3>3, <3>4, <3>5, <3>6, <3>8
  <2> QED BY <2>1, <2>2
<1>5. K \in P
  <2> HIDE DEF P
  <2> QED BY <1>4, SubsetInduction
<1>6. of(K) = S
  OBVIOUS
<1> QED BY <1>5, <1>6

(* A sum may be taken over other names of the same summands.               *)
LEMMA SumRenamed ==
  ASSUME NEW D, IsFiniteSet(D), NEW T, NEW w,
         \A i \in D : w[i] \in T, \A y \in T : \E i \in D : w[i] = y,
         \A i, j \in D : w[i] = w[j] => i = j,
         NEW f, \A i \in D : f[i] \in Int, NEW g, \A i \in D : f[i] = g[w[i]]
  PROVE  SumFunctionOnSet(f, D) = SumFunctionOnSet(g, T)
<1> DEFINE heap == [i \in D |-> {w[i]}]
<1>1. IsFiniteSet(T)
  <2> DEFINE v == [i \in D |-> w[i]]
  <2>1. T = {v[i] : i \in D} /\ DOMAIN v = D
    OBVIOUS
  <2> HIDE DEF v
  <2> QED BY <2>1, FiniteImage
<1>2. \A y \in T : g[y] \in Int
  OBVIOUS
<1>3. \A i \in D : heap[i] = {w[i]} /\ f[i] = SumFunctionOnSet(g, heap[i])
  <2> TAKE i \in D
  <2>1. heap[i] = {w[i]} /\ g[w[i]] \in Int /\ f[i] = g[w[i]] /\ {w[i]} \ {w[i]} = {}
    OBVIOUS
  <2>2. SumFunctionOnSet(g, {w[i]}) = g[w[i]] + SumFunctionOnSet(g, {w[i]} \ {w[i]})
    <3> DEFINE S == {w[i]}
    <3>1. IsFiniteSet(S) /\ w[i] \in S /\ \A y \in S : g[y] \in Int
      BY <2>1, FS_Singleton
    <3> HIDE DEF S
    <3>2. SumFunctionOnSet(g, S) = g[w[i]] + SumFunctionOnSet(g, S \ {w[i]})
      BY <3>1, SumIs
    <3> QED BY <3>2 DEF S
  <2>3. SumFunctionOnSet(g, {}) = 0
    BY FS_EmptySet, SumIs
  <2>4. SumFunctionOnSet(g, {w[i]}) = f[i]
    <3>1. SumFunctionOnSet(g, {w[i]} \ {w[i]}) = 0
      BY <2>1, <2>3, Zenon
    <3> QED BY <2>1, <2>2, <3>1
  <2> QED BY <2>1, <2>4, Zenon
<1>4. /\ \A i \in D : heap[i] \in SUBSET T
      /\ \A y \in T : \E i \in D : y \in heap[i]
      /\ \A i, j \in D : \A y \in heap[i] : y \in heap[j] => i = j
  OBVIOUS
<1> HIDE DEF heap
<1> QED BY <1>1, <1>2, <1>3, <1>4, SumGathered

(* A finite set can be written down in the order of some key. *)
LEMMA SortExists ==
  ASSUME NEW S, IsFiniteSet(S), NEW key, \A x \in S : key[x] \in Int
  PROVE  \E g \in [1..Cardinality(S) -> S] :
           /\ Range(g) = S
           /\ \A i, j \in DOMAIN g : i < j => key[g[i]] <= key[g[j]]
<1> DEFINE Sorts(g, s) == /\ g \in [1..Cardinality(s) -> s] /\ Range(g) = s
                          /\ \A i, j \in 1..Cardinality(s) : i < j => key[g[i]] <= key[g[j]]
           P == {s \in SUBSET S : \E g : Sorts(g, s)}
<1>1. ASSUME NEW s \in SUBSET S, \A t \in SUBSET s : t # s => t \in P
      PROVE  s \in P
  <2>0. IsFiniteSet(s) /\ Cardinality(s) \in Nat
    BY FS_Subset, FS_CardinalityType
  <2>1. CASE s = {}
    <3>1. Cardinality(s) = 0 /\ 1..0 = {}
      BY <2>1, FS_EmptySet
    <3>2. Sorts(<<>>, s)
      BY <2>1, <3>1 DEF Range
    <3> QED BY <3>2
  <2>2. CASE s # {}
    <3> DEFINE keys == {key[x] : x \in s}
    <3>1. keys \in SUBSET Int /\ IsFiniteSet(keys) /\ keys # {}
      <4> DEFINE f == [x \in s |-> key[x]]
      <4>1. keys = {f[x] : x \in s} /\ DOMAIN f = s
        OBVIOUS
      <4>2. keys \in SUBSET Int /\ keys # {}
        BY <2>2
      <4> HIDE DEF keys, f
      <4>3. IsFiniteSet({f[x] : x \in s})
        BY <2>0, <4>1, FiniteImage
      <4> QED BY <4>1, <4>2, <4>3
    <3>2. Max(keys) \in keys /\ \A k \in keys : k <= Max(keys)
      <4> HIDE DEF keys
      <4> QED BY <3>1, MaxIs
    <3>3. PICK m \in s : \A x \in s : key[x] <= key[m]
      BY <3>2
    <3> DEFINE t == s \ {m}
               n == Cardinality(s)
    <3>4. t \in P
      BY <1>1, <3>3
    <3>5. PICK g : Sorts(g, t)
      BY <3>4
    <3>6. Cardinality(t) = n - 1 /\ n \in Nat /\ n >= 1
      <4>1. Cardinality(t) = n - 1
        BY <2>0, <3>3, FS_RemoveElement
      <4>2. n # 0
        BY <2>0, <2>2, FS_EmptySet
      <4> QED BY <2>0, <4>1, <4>2
    <3>7. /\ g \in [1..n - 1 -> t] /\ Range(g) = t
          /\ \A i, j \in 1..n - 1 : i < j => key[g[i]] <= key[g[j]]
      BY <3>5, <3>6
    <3> HIDE DEF t, n
    <3> DEFINE gg == [i \in 1..n |-> IF i = n THEN m ELSE g[i]]
    <3>8. \A i \in 1..n : i = n \/ i \in 1..n - 1
      BY <3>6
    <3>9. n \in 1..n /\ 1..n - 1 \subseteq 1..n /\ n \notin 1..n - 1
      BY <3>6
    <3>10. \A i \in 1..n - 1 : gg[i] = g[i] /\ gg[i] \in t
      BY <3>7, <3>9
    <3>11. gg[n] = m /\ DOMAIN gg = 1..n
      BY <3>9
    <3> HIDE DEF gg
    <3>12. t \subseteq s /\ s = t \cup {m}
      BY <3>3 DEF t
    <3>13. \A i \in 1..n : gg[i] \in s
      BY <3>3, <3>8, <3>10, <3>11, <3>12
    <3>14. gg = [i \in 1..n |-> gg[i]]
      BY DEF gg
    <3>15. gg \in [1..n -> s]
      BY <3>13, <3>14
    <3>16. Range(gg) = s
      <4>1. ASSUME NEW x \in t
            PROVE  \E i \in 1..n : gg[i] = x
        <5>1. PICK i \in 1..n - 1 : g[i] = x
          BY <3>7, <4>1 DEF Range
        <5> QED BY <3>9, <3>10, <5>1
      <4>2. \A x \in s : \E i \in 1..n : gg[i] = x
        BY <3>9, <3>11, <3>12, <4>1
      <4> QED BY <3>11, <3>13, <4>2 DEF Range
    <3>17. ASSUME NEW i \in 1..n, NEW j \in 1..n, i < j
           PROVE  key[gg[i]] <= key[gg[j]]
      <4>1. CASE j = n
        BY <3>3, <3>11, <3>13, <4>1
      <4>2. CASE j # n
        <5>1. i \in 1..n - 1 /\ j \in 1..n - 1
          BY <3>6, <3>17, <4>2
        <5> QED BY <3>7, <3>10, <3>17, <5>1
      <4> QED BY <4>1, <4>2
    <3>18. Sorts(gg, s)
      BY <3>15, <3>16, <3>17 DEF n
    <3> QED BY <3>18
  <2> QED BY <2>1, <2>2
<1>2. S \in P
  <2> HIDE DEF P
  <2> QED BY <1>1, SubsetInduction
<1>3. PICK g : Sorts(g, S)
  BY <1>2
<1> QED BY <1>3

(* A sum of zeros, and sums of opposites.                                  *)
LEMMA SumOpposite ==
  ASSUME NEW S, IsFiniteSet(S), NEW f, NEW g, \A i \in S : f[i] \in Int /\ g[i] = -f[i]
  PROVE  SumFunctionOnSet(g, S) = -SumFunctionOnSet(f, S)
<1> DEFINE h == [i \in S |-> 0]
<1>1. \A i \in S : h[i] = 0
  OBVIOUS
<1> HIDE DEF h
<1>2. SumFunctionOnSet(h, S) = 0 * Cardinality(S)
  BY <1>1, SumConst
<1>3. SumFunctionOnSet(h, S) = SumFunctionOnSet(f, S) + SumFunctionOnSet(g, S)
  <2>1. \A i \in S : f[i] \in Int /\ g[i] \in Int /\ h[i] = f[i] + g[i]
    BY <1>1
  <2> QED BY <2>1, SumPlus
<1>4. SumFunctionOnSet(f, S) \in Int /\ SumFunctionOnSet(g, S) \in Int /\ Cardinality(S) \in Int
  BY SumIs, FS_CardinalityType
<1> QED BY <1>2, <1>3, <1>4

(* A factor of every summand is a factor of the sum.                       *)
LEMMA SumScaled ==
  ASSUME NEW S, IsFiniteSet(S), NEW c \in Int, NEW f, NEW g, \A i \in S : f[i] \in Int /\ g[i] = c * f[i]
  PROVE  SumFunctionOnSet(g, S) = c * SumFunctionOnSet(f, S)
<1> DEFINE P == {s \in SUBSET S : SumFunctionOnSet(g, s) = c * SumFunctionOnSet(f, s)}
<1>1. ASSUME NEW s \in SUBSET S, \A t \in SUBSET s : t # s => t \in P
      PROVE  s \in P
  <2>1. IsFiniteSet(s) /\ (\A i \in s : f[i] \in Int) /\ (\A i \in s : g[i] \in Int)
    BY FS_Subset
  <2>2. CASE s = {}
    BY <2>1, <2>2, SumIs
  <2>3. CASE s # {}
    <3>1. PICK x \in s : TRUE
      BY <2>3
    <3> DEFINE t == s \ {x}
               a == SumFunctionOnSet(f, t)
               b == f[x]
    <3>2. t \in P /\ IsFiniteSet(t) /\ \A i \in t : f[i] \in Int
      BY <1>1, <2>1, <3>1, FS_Subset
    <3>3. SumFunctionOnSet(g, s) = g[x] + SumFunctionOnSet(g, t) /\ SumFunctionOnSet(f, s) = f[x] + SumFunctionOnSet(f, t)
      BY <2>1, <3>1, SumIs
    <3>4. a \in Int /\ b \in Int /\ SumFunctionOnSet(g, t) = c * a /\ g[x] = c * b
      BY <2>1, <3>1, <3>2, SumIs
    <3>5. SumFunctionOnSet(g, s) = c * b + c * a /\ SumFunctionOnSet(f, s) = b + a
      BY <3>3, <3>4
    <3> HIDE DEF a, b
    <3>6. c * b + c * a = c * (b + a)
      BY <3>4
    <3> QED BY <3>5, <3>6
  <2> QED BY <2>2, <2>3
<1> HIDE DEF P
<1>2. \A s \in SUBSET S : s \in P
  BY <1>1, SubsetInduction
<1> QED BY <1>2 DEF P

(* A table of integers, its rows and its columns; what they add up to.     *)
Transposed(h, t, A, B) == \A a \in A, b \in B : h[a][b] \in Int /\ t[b][a] = h[a][b]
SumsRows(rows, h, A, B) == \A a \in A : rows[a] = SumFunctionOnSet(h[a], B)

(* A table may be added up by its rows or by its columns.                  *)
LEMMA SumSwap ==
  ASSUME NEW A, IsFiniteSet(A), NEW B, IsFiniteSet(B), NEW h, NEW t, Transposed(h, t, A, B),
         NEW rows, SumsRows(rows, h, A, B), NEW cols, SumsRows(cols, t, B, A)
  PROVE  SumFunctionOnSet(rows, A) = SumFunctionOnSet(cols, B)
<1> USE DEF Transposed, SumsRows
<1> DEFINE upto(s) == [b \in B |-> SumFunctionOnSet(t[b], s)]
           P == {s \in SUBSET A : SumFunctionOnSet(rows, s) = SumFunctionOnSet(upto(s), B)}
<1>1. \A a \in A : rows[a] \in Int
  BY SumIs
<1>2. \A a \in A, b \in B : t[b][a] = h[a][b] /\ t[b][a] \in Int
  OBVIOUS
<1>3. \A s : \A b \in B : upto(s)[b] = SumFunctionOnSet(t[b], s)
  OBVIOUS
<1> HIDE DEF upto
<1>4. ASSUME NEW s \in SUBSET A, \A u \in SUBSET s : u # s => u \in P
      PROVE  s \in P
  <2>1. IsFiniteSet(s) /\ (\A a \in s : rows[a] \in Int) /\ \A b \in B : \A a \in s : t[b][a] \in Int
    BY <1>1, <1>2, FS_Subset
  <2>2. CASE s = {}
    <3>1. SumFunctionOnSet(rows, s) = 0
      BY <2>1, <2>2, SumIs
    <3>2. \A b \in B : upto(s)[b] = 0
      BY <1>3, <2>1, <2>2, SumIs
    <3>3. SumFunctionOnSet(upto(s), B) = 0 * Cardinality(B)
      BY <3>2, SumConst
    <3> QED BY <3>1, <3>3, FS_CardinalityType
  <2>3. CASE s # {}
    <3>1. PICK x \in s : TRUE
      BY <2>3
    <3> DEFINE u == s \ {x}
    <3>2. u \in P /\ IsFiniteSet(u) /\ u \subseteq A
      BY <1>4, <2>1, <3>1, FS_Subset
    <3>3. SumFunctionOnSet(rows, s) = rows[x] + SumFunctionOnSet(rows, u)
      BY <2>1, <3>1, SumIs
    <3>4. SumFunctionOnSet(rows, u) = SumFunctionOnSet(upto(u), B) /\ rows[x] = SumFunctionOnSet(h[x], B)
      BY <3>1, <3>2
    <3>5. \A b \in B : /\ h[x][b] \in Int /\ upto(u)[b] \in Int
                       /\ upto(s)[b] = h[x][b] + upto(u)[b]
      <4> TAKE b \in B
      <4>1. SumFunctionOnSet(t[b], s) = t[b][x] + SumFunctionOnSet(t[b], u)
        BY <2>1, <3>1, SumIs
      <4>2. SumFunctionOnSet(t[b], u) \in Int
        <5>1. \A a \in u : t[b][a] \in Int
          BY <1>2, <3>2
        <5> HIDE DEF u
        <5> QED BY <3>2, <5>1, SumIs
      <4> QED BY <1>2, <1>3, <3>1, <4>1, <4>2
    <3> HIDE DEF u
    <3>6. SumFunctionOnSet(upto(s), B) = SumFunctionOnSet(h[x], B) + SumFunctionOnSet(upto(u), B)
      BY <3>5, SumPlus
    <3> QED BY <3>3, <3>4, <3>6
  <2> QED BY <2>2, <2>3
<1>5. \A s \in SUBSET A : s \in P
  <2> HIDE DEF P
  <2> QED BY <1>4, SubsetInduction
<1>6. SumFunctionOnSet(rows, A) = SumFunctionOnSet(upto(A), B)
  BY <1>5
<1>7. \A b \in B : upto(A)[b] \in Int /\ upto(A)[b] = cols[b]
  <2> TAKE b \in B
  <2>1. SumFunctionOnSet(t[b], A) \in Int
    BY <1>2, SumIs
  <2> QED BY <1>3, <2>1
<1> QED BY <1>6, <1>7, SumCongruent

(* The floors of means, added up: when every column of a table adds up to  *)
(* at most c either way, the floored means of its rows add up to at most c *)
(* and one for each row.                                                   *)
LEMMA FlooredMeans ==
  ASSUME NEW A, IsFiniteSet(A), NEW B, IsFiniteSet(B), B # {}, NEW h, NEW t, Transposed(h, t, A, B),
         NEW c \in Nat,
         \A b \in B : -c <= SumFunctionOnSet(t[b], A) /\ SumFunctionOnSet(t[b], A) <= c,
         NEW score, \A a \in A : score[a] = SumFunctionOnSet(h[a], B) \div Cardinality(B)
  PROVE  /\ \A a \in A : score[a] \in Int
         /\ SumFunctionOnSet(score, A) \in Int
         /\ -(c + Cardinality(A)) <= SumFunctionOnSet(score, A)
         /\ SumFunctionOnSet(score, A) <= c + Cardinality(A)
<1> DEFINE rows == [a \in A |-> SumFunctionOnSet(h[a], B)]
           cols == [b \in B |-> SumFunctionOnSet(t[b], A)]
           m == Cardinality(B)
           n == Cardinality(A)
           one == [b \in B |-> 1]
           X == SumFunctionOnSet(rows, A)
           Y == SumFunctionOnSet(score, A)
<1>1. m \in Nat \ {0} /\ n \in Nat
  BY FS_CardinalityType, FS_EmptySet
<1>2. \A a \in A : rows[a] = SumFunctionOnSet(h[a], B) /\ rows[a] \in Int
  BY SumIs DEF Transposed
<1>3. \A b \in B : /\ cols[b] = SumFunctionOnSet(t[b], A)
                   /\ cols[b] \in Int /\ -c <= cols[b] /\ cols[b] <= c
  <2> TAKE b \in B
  <2>1. \A a \in A : t[b][a] \in Int
    BY DEF Transposed
  <2>2. cols[b] = SumFunctionOnSet(t[b], A) /\ -c <= SumFunctionOnSet(t[b], A) /\ SumFunctionOnSet(t[b], A) <= c
    OBVIOUS
  <2> HIDE DEF cols
  <2>3. SumFunctionOnSet(t[b], A) \in Int
    BY <2>1, SumIs
  <2> QED BY <2>2, <2>3
<1>4. X = SumFunctionOnSet(cols, B)
  <2>1. \A a \in A : rows[a] = SumFunctionOnSet(h[a], B)
    BY <1>2
  <2>2. \A b \in B : cols[b] = SumFunctionOnSet(t[b], A)
    BY <1>3
  <2> HIDE DEF rows, cols, m, n, one
  <2>3. SumsRows(rows, h, A, B) /\ SumsRows(cols, t, B, A)
    BY <2>1, <2>2 DEF SumsRows
  <2> QED BY <2>3, SumSwap
<1>5. \A b \in B : one[b] = 1
  OBVIOUS
<1>19. c * 1 = c
  OBVIOUS
<1> HIDE DEF rows, cols, one
<1>6. SumFunctionOnSet(one, B) = 1 * m
  BY <1>5, SumConst
<1>7. X <= c * m
  <2>1. \A b \in B : cols[b] \in Int /\ one[b] \in Int /\ cols[b] <= c * one[b]
    BY <1>3, <1>5, <1>19
  <2> QED BY <1>1, <1>4, <1>6, <2>1, SumCompare
<1>8. -X <= c * m
  <2> DEFINE neg == [b \in B |-> -cols[b]]
  <2>1. \A b \in B : cols[b] \in Int /\ neg[b] = -cols[b]
    BY <1>3
  <2>2. \A b \in B : neg[b] \in Int /\ one[b] \in Int /\ neg[b] <= c * one[b]
    BY <1>3, <1>5, <1>19, <2>1
  <2> HIDE DEF neg
  <2>3. SumFunctionOnSet(neg, B) = -X
    BY <1>4, <2>1, SumOpposite
  <2> QED BY <1>1, <1>6, <2>2, <2>3, SumCompare
<1>9. \A a \in A : score[a] \in Int /\ m * score[a] <= rows[a] /\ rows[a] <= m * score[a] + (m - 1)
  <2> TAKE a \in A
  <2> DEFINE r == rows[a]
  <2>1. r \in Int /\ score[a] = r \div m
    BY <1>2
  <2> HIDE DEF r, m
  <2>2. r = m * (r \div m) + (r % m) /\ r % m \in 0..(m - 1) /\ r \div m \in Int
    BY <1>1, <2>1
  <2> QED BY <1>1, <2>1, <2>2 DEF r
<1> DEFINE big == [a \in A |-> m * score[a]]
           gap == [a \in A |-> rows[a] - big[a]]
<1>10. \A a \in A : /\ big[a] = m * score[a] /\ big[a] \in Int
                    /\ gap[a] = rows[a] - big[a] /\ gap[a] \in Int /\ 0 <= gap[a] /\ gap[a] <= m - 1
  BY <1>1, <1>2, <1>9
<1> HIDE DEF big, gap
<1>11. SumFunctionOnSet(big, A) = m * Y
  <2>1. \A a \in A : score[a] \in Int /\ big[a] = m * score[a]
    BY <1>9, <1>10
  <2>2. m \in Int
    BY <1>1
  <2> HIDE DEF m, n
  <2> QED BY <2>1, <2>2, SumScaled
<1>12. X = SumFunctionOnSet(big, A) + SumFunctionOnSet(gap, A)
  <2>1. \A a \in A : big[a] \in Int /\ gap[a] \in Int /\ rows[a] = big[a] + gap[a]
    BY <1>2, <1>10
  <2> QED BY <2>1, SumPlus
<1>13. 0 <= SumFunctionOnSet(gap, A) /\ SumFunctionOnSet(gap, A) <= (m - 1) * n /\ SumFunctionOnSet(gap, A) \in Int
  <2> DEFINE ones == [a \in A |-> 1]
             less == [a \in A |-> -gap[a]]
  <2>1. \A a \in A : ones[a] = 1 /\ less[a] = -gap[a]
    OBVIOUS
  <2> HIDE DEF ones, less
  <2>2. SumFunctionOnSet(ones, A) = 1 * n
    BY <2>1, SumConst
  <2>3. SumFunctionOnSet(gap, A) <= (m - 1) * SumFunctionOnSet(ones, A)
    <3>1. \A a \in A : gap[a] \in Int /\ ones[a] \in Int /\ gap[a] <= (m - 1) * ones[a]
      BY <1>1, <1>10, <2>1
    <3>2. m - 1 \in Int
      BY <1>1
    <3> QED BY <3>1, <3>2, SumCompare
  <2>4. SumFunctionOnSet(less, A) <= 0 * SumFunctionOnSet(ones, A)
    <3>1. \A a \in A : less[a] \in Int /\ ones[a] \in Int /\ less[a] <= 0 * ones[a]
      BY <1>10, <2>1
    <3> QED BY <3>1, SumCompare
  <2>5. SumFunctionOnSet(less, A) = -SumFunctionOnSet(gap, A) /\ SumFunctionOnSet(gap, A) \in Int
    BY <1>10, <2>1, SumOpposite, SumIs
  <2>6. SumFunctionOnSet(ones, A) = n
    BY <1>1, <2>2
  <2> HIDE DEF n, m
  <2> QED BY <1>1, <2>3, <2>4, <2>5, <2>6
<1>14. Y \in Int
  BY <1>9, SumIs
<1> DEFINE Z == SumFunctionOnSet(gap, A)
<1>15. X = m * Y + Z /\ Z \in Int /\ 0 <= Z /\ Z <= (m - 1) * n /\ X <= c * m /\ -X <= c * m
  BY <1>7, <1>8, <1>11, <1>12, <1>13
<1> HIDE DEF X, Y, Z, m, n
<1>16. X \in Int
  BY <1>1, <1>14, <1>15
<1>17. Y <= c + n
  <2>1. m * Y <= c * m
    BY <1>1, <1>14, <1>15, <1>16
  <2>2. Y <= c
    BY <1>1, <1>14, <2>1
  <2> QED BY <1>1, <1>14, <2>2
<1>18. -(c + n) <= Y
  <2>1. 0 <= m * Y + (m - 1) * n + c * m
    BY <1>1, <1>14, <1>15, <1>16
  <2>2. m * Y + (m - 1) * n + c * m <= m * (Y + n + c)
    BY <1>1, <1>14
  <2>3. 0 <= m * (Y + n + c)
    BY <1>1, <1>14, <2>1, <2>2
  <2>4. Y + n + c >= 0
    <3> DEFINE q == Y + n + c
    <3>1. q \in Int /\ 0 <= m * q
      BY <1>1, <1>14, <2>3
    <3> HIDE DEF q
    <3>2. q >= 0
      BY <1>1, <3>1
    <3> QED BY <3>2 DEF q
  <2> QED BY <1>1, <1>14, <2>4
<1> QED BY <1>9, <1>14, <1>17, <1>18 DEF Y, n

(* w is a one to one map of D onto T, and f is g behind it.               *)
Renames(w, D, T, f, g) ==
  /\ \A i \in D : w[i] \in T /\ f[i] \in Int /\ f[i] = g[w[i]]
  /\ \A y \in T : \E i \in D : w[i] = y
  /\ \A i, j \in D : w[i] = w[j] => i = j

(* Such a renaming leaves a sum as it is.                                  *)
LEMMA SumBehind ==
  ASSUME NEW D, IsFiniteSet(D), NEW T, NEW w, NEW f, NEW g, Renames(w, D, T, f, g)
  PROVE  SumFunctionOnSet(f, D) = SumFunctionOnSet(g, T)
<1>1. \A i \in D : w[i] \in T
  BY DEF Renames
<1>2. \A y \in T : \E i \in D : w[i] = y
  BY DEF Renames
<1>3. \A i, j \in D : w[i] = w[j] => i = j
  BY DEF Renames
<1>4. \A i \in D : f[i] \in Int
  BY DEF Renames
<1>5. \A i \in D : f[i] = g[w[i]]
  BY DEF Renames
<1> QED BY <1>1, <1>2, <1>3, <1>4, <1>5, SumRenamed
=============================================================================
