------------------------------ MODULE FoldFacts ------------------------------
(* What FoldLeft and FlattenSeq compute: induction over the length of a       *)
(* sequence, from the fact that the natural numbers are well founded.         *)
(* Instantiate it with the operator that is folded; its first argument is     *)
(* what the operator takes from its surroundings.                             *)
EXTENDS Integers, Sequences, Folds, WellFoundedInduction, TLAPS

CONSTANT Op(_, _, _)

(* As in SequencesExt and FiniteSetsExt: an instance of this module would     *)
(* bring all of theirs into every proof that follows it.                      *)
Max(S) == CHOOSE x \in S : \A y \in S : x >= y

FoldLeft(op(_, _), base, seq) ==
  MapThenFoldSet(LAMBDA e, x : op(x, e), base, LAMBDA i : seq[i], LAMBDA S : Max(S), DOMAIN seq)

FlattenSeq(seqs) ==
  IF Len(seqs) = 0 THEN seqs
  ELSE LET flatten[i \in 1 .. Len(seqs)] == IF i = 1 THEN seqs[i] ELSE flatten[i - 1] \o seqs[i]
       IN flatten[Len(seqs)]

(* Induction, with a set in place of a predicate. *)
LEMMA SetInduction ==
  ASSUME NEW S, S \subseteq Nat, 0 \in S, \A n \in S : n + 1 \in S
  PROVE  S = Nat
<1> DEFINE T == Nat \ S
           R == OpToRel(<, Nat)
<1>1. SUFFICES ASSUME T # {} PROVE FALSE
  OBVIOUS
<1>2. IsWellFoundedOn(R, Nat)
  BY NatLessThanWellFounded
<1>3. \A x, y \in Nat : x < y => <<x, y>> \in R
  BY DEF OpToRel
<1>4. T \subseteq Nat
  OBVIOUS
<1> HIDE DEF T, R
<1>5. PICK x \in T : \A y \in T : ~ (<<y, x>> \in R)
  BY <1>1, <1>2, <1>4, WFMin
<1>6. x \in Nat /\ x \notin S
  BY DEF T
<1>7. x # 0 /\ x - 1 \in Nat /\ x - 1 < x /\ (x - 1) + 1 = x
  BY <1>6
<1>8. x - 1 \in S
  BY <1>3, <1>5, <1>6, <1>7 DEF T
<1> QED
  BY <1>6, <1>7, <1>8

LEMMA MaxOfNumbers ==
  ASSUME NEW n \in Nat, NEW s \in SUBSET (1 .. n), s # {}
  PROVE  Max(s) \in s /\ \A y \in s : Max(s) >= y
<1> DEFINE HasMax(t) == \E x \in t : \A y \in t : x >= y
           S == {m \in Nat : \A t \in SUBSET (1 .. m) : t # {} => HasMax(t)}
<1>1. 0 \in S
  <2>1. \A t \in SUBSET (1 .. 0) : t = {}
    OBVIOUS
  <2> QED
    BY <2>1
<1>2. ASSUME NEW m \in S PROVE m + 1 \in S
  <2> SUFFICES ASSUME NEW t \in SUBSET (1 .. (m + 1)), t # {} PROVE HasMax(t)
    BY <1>2
  <2>1. CASE m + 1 \in t
    BY <2>1
  <2>2. CASE m + 1 \notin t
    <3>1. t \in SUBSET (1 .. m)
      BY <2>2
    <3> QED
      BY <3>1
  <2> QED
    BY <2>1, <2>2
<1>3. S = Nat
  <2> HIDE DEF S
  <2>1. S \subseteq Nat
    BY DEF S
  <2> QED
    BY <1>1, <1>2, <2>1, SetInduction
<1>4. HasMax(s)
  BY <1>3
<1> QED
  BY <1>4 DEF Max

-----------------------------------------------------------------------------
Fold(p, base, seq) == FoldLeft(LAMBDA x, e : Op(p, x, e), base, seq)

(* The function that FoldLeft chooses, on the subsets of the places of seq.   *)

IsFold(f, p, base, seq, D) ==
  f = [s \in SUBSET D |->
         IF s = {} THEN base ELSE LET x == Max(s) IN Op(p, f[s \ {x}], seq[x])]

LEMMA FoldExists ==
  ASSUME NEW p, NEW base, NEW seq, NEW n \in Nat
  PROVE  \E f : IsFold(f, p, base, seq, 1 .. n)
<1> DEFINE S == {m \in Nat : \E f : IsFold(f, p, base, seq, 1 .. m)}
<1>1. 0 \in S
  <2> DEFINE f == [s \in SUBSET (1 .. 0) |-> base]
  <2>1. \A s \in SUBSET (1 .. 0) : s = {}
    OBVIOUS
  <2>2. IsFold(f, p, base, seq, 1 .. 0)
    BY <2>1 DEF IsFold
  <2> QED
    BY <2>2
<1>2. ASSUME NEW m \in S PROVE m + 1 \in S
  <2>1. PICK g : IsFold(g, p, base, seq, 1 .. m)
    BY <1>2
  <2> DEFINE D == 1 .. (m + 1)
             f == [s \in SUBSET D |-> IF m + 1 \in s THEN Op(p, g[s \ {m + 1}], seq[m + 1])
                                      ELSE g[s]]
  <2>2. \A s \in SUBSET (1 .. m) : s \in SUBSET D /\ m + 1 \notin s /\ f[s] = g[s]
    BY <1>2
  <2>3. ASSUME NEW s \in SUBSET D
        PROVE  f[s] = IF s = {} THEN base
                      ELSE LET x == Max(s) IN Op(p, f[s \ {x}], seq[x])
    <3>1. CASE m + 1 \in s
      <4>1. Max(s) = m + 1
        <5>1. m + 1 \in Nat /\ s \in SUBSET (1 .. (m + 1)) /\ s # {}
          BY <1>2, <3>1
        <5>2. Max(s) \in s /\ \A y \in s : Max(s) >= y
          BY <5>1, MaxOfNumbers
        <5>3. Max(s) \in 1 .. (m + 1) /\ Max(s) >= m + 1
          BY <3>1, <5>1, <5>2
        <5> QED
          BY <5>1, <5>3
      <4>2. s \ {m + 1} \in SUBSET (1 .. m)
        BY <1>2
      <4>3. f[s] = Op(p, f[s \ {m + 1}], seq[m + 1])
        BY <2>2, <3>1, <4>2
      <4> HIDE DEF f
      <4> QED
        BY <3>1, <4>1, <4>3
    <3>2. CASE m + 1 \notin s
      <4>1. s \in SUBSET (1 .. m)
        BY <1>2, <3>2
      <4>2. g[s] = IF s = {} THEN base ELSE LET x == Max(s) IN Op(p, g[s \ {x}], seq[x])
        BY <2>1, <4>1 DEF IsFold
      <4>3. s \ {Max(s)} \in SUBSET (1 .. m)
        BY <4>1
      <4>4. f[s] = g[s] /\ f[s \ {Max(s)}] = g[s \ {Max(s)}]
        BY <2>2, <4>1, <4>3
      <4> HIDE DEF f
      <4> QED
        BY <4>2, <4>4
    <3> QED
      BY <3>1, <3>2
  <2>4. f = [s \in SUBSET D |-> f[s]]
    OBVIOUS
  <2> HIDE DEF f
  <2>5. IsFold(f, p, base, seq, D)
    BY <2>3, <2>4 DEF IsFold
  <2> QED
    BY <1>2, <2>5
<1>3. S = Nat
  <2> HIDE DEF S
  <2>1. S \subseteq Nat
    BY DEF S
  <2> QED
    BY <1>1, <1>2, <2>1, SetInduction
<1> QED
  BY <1>3

(* A run of the fold: the intermediate results. *)
IsRun(t, p, base, seq, n) ==
  /\ t[0] = base
  /\ \A i \in 1 .. n : t[i] = Op(p, t[i - 1], seq[i])

IsStepwise(f, p, base, seq, n) ==
  /\ f[1 .. 0] = base
  /\ \A i \in 1 .. n : f[1 .. i] = Op(p, f[1 .. (i - 1)], seq[i])

LEMMA FoldStep ==
  ASSUME NEW p, NEW base, NEW seq, NEW n \in Nat, NEW f, IsFold(f, p, base, seq, 1 .. n)
  PROVE  IsStepwise(f, p, base, seq, n)
<1>1. \A s \in SUBSET (1 .. n) :
        f[s] = IF s = {} THEN base ELSE LET x == Max(s) IN Op(p, f[s \ {x}], seq[x])
  BY DEF IsFold
<1>2. f[1 .. 0] = base
  <2>1. 1 .. 0 = {} /\ 1 .. 0 \in SUBSET (1 .. n)
    OBVIOUS
  <2> QED
    BY <1>1, <2>1
<1>3. ASSUME NEW i \in 1 .. n PROVE f[1 .. i] = Op(p, f[1 .. (i - 1)], seq[i])
  <2>1. i \in Nat /\ 1 .. i \in SUBSET (1 .. n) /\ 1 .. i # {} /\ i \in 1 .. i
    <3>1. i \in Nat /\ 1 .. i \in SUBSET (1 .. n) /\ i \in 1 .. i
      OBVIOUS
    <3> QED
      BY <3>1
  <2>2. Max(1 .. i) \in 1 .. i /\ \A y \in 1 .. i : Max(1 .. i) >= y
    BY <2>1, MaxOfNumbers
  <2>3. Max(1 .. i) = i
    <3>1. Max(1 .. i) >= i
      BY <2>1, <2>2
    <3> QED
      BY <2>1, <2>2, <3>1
  <2>4. (1 .. i) \ {i} = 1 .. (i - 1)
    BY <2>1
  <2> QED
    BY <1>1, <2>1, <2>3, <2>4
<1> QED
  BY <1>2, <1>3 DEF IsStepwise

LEMMA RunsAgree ==
  ASSUME NEW p, NEW base, NEW seq, NEW n \in Nat, NEW t, NEW u,
         IsRun(t, p, base, seq, n), IsRun(u, p, base, seq, n)
  PROVE  \A i \in 0 .. n : t[i] = u[i]
<1> DEFINE S == {m \in Nat : m <= n => t[m] = u[m]}
<1>1. 0 \in S
  BY DEF IsRun
<1>2. ASSUME NEW m \in S PROVE m + 1 \in S
  <2> SUFFICES ASSUME m + 1 <= n PROVE t[m + 1] = u[m + 1]
    BY <1>2
  <2>1. m \in Nat /\ m + 1 \in 1 .. n /\ m <= n /\ (m + 1) - 1 = m
    BY <1>2
  <2>2. t[m] = u[m]
    BY <1>2, <2>1
  <2>3. t[m + 1] = Op(p, t[m], seq[m + 1]) /\ u[m + 1] = Op(p, u[m], seq[m + 1])
    BY <2>1 DEF IsRun
  <2> QED
    BY <2>2, <2>3
<1>3. S = Nat
  <2> HIDE DEF S
  <2>1. S \subseteq Nat
    BY DEF S
  <2> QED
    BY <1>1, <1>2, <2>1, SetInduction
<1> QED
  BY <1>3

(* FoldLeft has a run, and ends where every run of it ends. *)
LEMMA FoldHasRun ==
  ASSUME NEW p, NEW base, NEW T, NEW seq \in Seq(T)
  PROVE  \E t : /\ IsRun(t, p, base, seq, Len(seq))
                /\ Fold(p, base, seq) = t[Len(seq)]
<1> DEFINE n == Len(seq)
           f == CHOOSE f : IsFold(f, p, base, seq, 1 .. n)
           t == [i \in 0 .. n |-> f[1 .. i]]
<1>1. n \in Nat /\ DOMAIN seq = 1 .. n
  OBVIOUS
<1>2. IsFold(f, p, base, seq, 1 .. n)
  <2> HIDE DEF n
  <2> QED
    BY <1>1, FoldExists
<1>3. Fold(p, base, seq) = f[1 .. n]
  BY <1>1, Zenon DEF Fold, FoldLeft, MapThenFoldSet, IsFold
<1> HIDE DEF f, n
<1>4. IsStepwise(f, p, base, seq, n)
  BY <1>1, <1>2, FoldStep
<1>5. /\ t[0] = f[1 .. 0] /\ t[n] = f[1 .. n]
      /\ \A i \in 1 .. n : t[i] = f[1 .. i] /\ t[i - 1] = f[1 .. (i - 1)]
  BY <1>1
<1> HIDE DEF t
<1>6. IsRun(t, p, base, seq, n)
  BY <1>4, <1>5 DEF IsRun, IsStepwise
<1> QED
  BY <1>3, <1>5, <1>6 DEF n

LEMMA FoldIsRun ==
  ASSUME NEW p, NEW base, NEW T, NEW seq \in Seq(T), NEW t,
         IsRun(t, p, base, seq, Len(seq))
  PROVE  Fold(p, base, seq) = t[Len(seq)]
<1>1. PICK u : /\ IsRun(u, p, base, seq, Len(seq))
               /\ Fold(p, base, seq) = u[Len(seq)]
  BY FoldHasRun
<1>2. Len(seq) \in Nat /\ Len(seq) \in 0 .. Len(seq)
  OBVIOUS
<1> QED
  BY <1>1, <1>2, RunsAgree

(* What every step keeps, the fold keeps: R is closed under Op. *)
LEMMA FoldStays ==
  ASSUME NEW p, NEW R, NEW base \in R, NEW T, NEW seq \in Seq(T),
         \A x \in R : \A i \in 1 .. Len(seq) : Op(p, x, seq[i]) \in R
  PROVE  Fold(p, base, seq) \in R
<1>1. PICK t : IsRun(t, p, base, seq, Len(seq)) /\ Fold(p, base, seq) = t[Len(seq)]
  BY FoldHasRun
<1> DEFINE n == Len(seq)
           S == {k \in Nat : k <= n => t[k] \in R}
<1>2. n \in Nat
  OBVIOUS
<1> HIDE DEF n
<1>3. 0 \in S
  BY <1>1 DEF IsRun
<1>4. ASSUME NEW k \in S PROVE k + 1 \in S
  <2> SUFFICES ASSUME k + 1 <= n PROVE t[k + 1] \in R
    BY <1>4
  <2>1. k \in Nat /\ k + 1 \in 1 .. n /\ k <= n /\ (k + 1) - 1 = k
    BY <1>2, <1>4
  <2>2. t[k] \in R
    BY <1>4, <2>1
  <2>3. t[k + 1] = Op(p, t[k], seq[k + 1])
    BY <1>1, <2>1 DEF IsRun, n
  <2> QED
    BY <2>1, <2>2, <2>3 DEF n
<1>5. S = Nat
  <2> HIDE DEF S
  <2>1. S \subseteq Nat
    BY DEF S
  <2> QED
    BY <1>3, <1>4, <2>1, SetInduction
<1>6. n \in S
  <2> HIDE DEF S
  <2> QED
    BY <1>2, <1>5
<1> QED
  BY <1>1, <1>2, <1>6 DEF n

(* The two equations of FoldLeft. *)
LEMMA FoldLeftEmpty ==
  ASSUME NEW p, NEW base
  PROVE  Fold(p, base, <<>>) = base
<1> DEFINE t == [i \in {0} |-> base]
           seq == <<>>
<1>1. seq \in Seq({}) /\ Len(seq) = 0
  OBVIOUS
<1>2. t[0] = base
  OBVIOUS
<1> HIDE DEF t, seq
<1>3. IsRun(t, p, base, seq, Len(seq))
  BY <1>1, <1>2 DEF IsRun
<1>4. Fold(p, base, seq) = t[Len(seq)]
  BY <1>1, <1>3, FoldIsRun
<1> QED
  BY <1>1, <1>2, <1>4 DEF seq

LEMMA FoldLeftAppend ==
  ASSUME NEW p, NEW base, NEW T, NEW seq \in Seq(T), NEW x \in T
  PROVE  Fold(p, base, Append(seq, x)) = Op(p, Fold(p, base, seq), x)
<1> DEFINE n == Len(seq)
           q == Append(seq, x)
<1>1. PICK t : IsRun(t, p, base, seq, n) /\ Fold(p, base, seq) = t[n]
  BY FoldHasRun
<1> DEFINE u == [i \in 0 .. (n + 1) |-> IF i = n + 1 THEN Op(p, t[n], x) ELSE t[i]]
<1>2. /\ n \in Nat /\ q \in Seq(T) /\ Len(q) = n + 1
      /\ q[n + 1] = x /\ \A i \in 1 .. n : q[i] = seq[i]
  OBVIOUS
<1> HIDE DEF q, n
<1>3. /\ u[n + 1] = Op(p, t[n], x) /\ \A i \in 0 .. n : u[i] = t[i]
  BY <1>2
<1> HIDE DEF u
<1>4. IsRun(u, p, base, q, n + 1)
  <2>1. u[0] = base
    BY <1>1, <1>2, <1>3 DEF IsRun
  <2>2. ASSUME NEW i \in 1 .. (n + 1) PROVE u[i] = Op(p, u[i - 1], q[i])
    <3>1. CASE i = n + 1
      <4>1. i - 1 = n /\ n \in 0 .. n
        BY <1>2, <3>1
      <4> QED
        BY <1>2, <1>3, <3>1, <4>1
    <3>2. CASE i # n + 1
      <4>1. i \in 1 .. n /\ i \in 0 .. n /\ i - 1 \in 0 .. n
        BY <1>2, <3>2
      <4> QED
        BY <1>1, <1>2, <1>3, <4>1 DEF IsRun
    <3> QED
      BY <3>1, <3>2
  <2> QED
    BY <2>1, <2>2 DEF IsRun
<1>5. Fold(p, base, q) = u[n + 1]
  <2>1. IsRun(u, p, base, q, Len(q))
    BY <1>2, <1>4
  <2>2. Fold(p, base, q) = u[Len(q)]
    BY <1>2, <2>1, FoldIsRun
  <2> QED
    BY <1>2, <2>2
<1> QED
  BY <1>1, <1>3, <1>5 DEF q

-----------------------------------------------------------------------------
(* FlattenSeq: where the elements of each sequence are in the result.         *)

IsFlat(f, seqs, n) ==
  f = [i \in 1 .. n |-> IF i = 1 THEN seqs[i] ELSE f[i - 1] \o seqs[i]]

LEMMA FlatExists ==
  ASSUME NEW seqs, NEW n \in Nat
  PROVE  \E f : IsFlat(f, seqs, n)
<1> DEFINE S == {m \in Nat : \E f : IsFlat(f, seqs, m)}
<1>1. 0 \in S
  <2> DEFINE f == [i \in 1 .. 0 |-> seqs[i]]
  <2>1. 1 .. 0 = {}
    OBVIOUS
  <2>2. IsFlat(f, seqs, 0)
    BY <2>1 DEF IsFlat
  <2> QED
    BY <2>2
<1>2. ASSUME NEW m \in S PROVE m + 1 \in S
  <2>1. PICK g : IsFlat(g, seqs, m)
    BY <1>2
  <2>2. m \in Nat
    BY <1>2
  <2> DEFINE f == [i \in 1 .. (m + 1) |->
                     IF i = m + 1
                     THEN IF i = 1 THEN seqs[i] ELSE g[i - 1] \o seqs[i]
                     ELSE g[i]]
  <2>3. \A i \in 1 .. m : f[i] = g[i]
    BY <2>2
  <2>4. ASSUME NEW i \in 1 .. (m + 1)
        PROVE  f[i] = IF i = 1 THEN seqs[i] ELSE f[i - 1] \o seqs[i]
    <3>1. CASE i = m + 1
      <4>1. i # 1 => i - 1 \in 1 .. m
        BY <2>2, <3>1
      <4>2. i # 1 => f[i - 1] = g[i - 1]
        BY <2>3, <4>1
      <4>3. f[i] = IF i = 1 THEN seqs[i] ELSE g[i - 1] \o seqs[i]
        BY <3>1
      <4> HIDE DEF f
      <4> QED
        BY <4>2, <4>3
    <3>2. CASE i # m + 1
      <4>1. i \in 1 .. m /\ (i # 1 => i - 1 \in 1 .. m)
        BY <2>2, <3>2
      <4>2. g[i] = IF i = 1 THEN seqs[i] ELSE g[i - 1] \o seqs[i]
        BY <2>1, <4>1 DEF IsFlat
      <4> HIDE DEF f
      <4> QED
        BY <2>3, <4>1, <4>2
    <3> QED
      BY <3>1, <3>2
  <2>5. f = [i \in 1 .. (m + 1) |-> f[i]]
    OBVIOUS
  <2> HIDE DEF f
  <2>6. IsFlat(f, seqs, m + 1)
    BY <2>4, <2>5 DEF IsFlat
  <2> QED
    BY <2>2, <2>6
<1>3. S = Nat
  <2> HIDE DEF S
  <2>1. S \subseteq Nat
    BY DEF S
  <2> QED
    BY <1>1, <1>2, <2>1, SetInduction
<1> QED
  BY <1>3

(* P[i] is the length of the first i sequences. *)
IsPlaces(P, seqs, n) ==
  /\ P[0] = 0
  /\ \A i \in 1 .. n : P[i] = P[i - 1] + Len(seqs[i])

(* The sequence s is the first n sequences, one after the other. *)
Joins(s, P, seqs, n) ==
  /\ Len(s) = P[n]
  /\ \A i \in 1 .. n : \A j \in 1 .. Len(seqs[i]) :
       P[i - 1] + j \in 1 .. P[n] /\ s[P[i - 1] + j] = seqs[i][j]
  /\ \A k \in 1 .. P[n] : \E i \in 1 .. n : \E j \in 1 .. Len(seqs[i]) : k = P[i - 1] + j

LEMMA JoinNext ==
  ASSUME NEW S, NEW n \in Nat, NEW seqs \in Seq(Seq(S)), n + 1 <= Len(seqs),
         NEW P, IsPlaces(P, seqs, n + 1), NEW s \in Seq(S), Joins(s, P, seqs, n)
  PROVE  s \o seqs[n + 1] \in Seq(S) /\ Joins(s \o seqs[n + 1], P, seqs, n + 1)
<1> DEFINE q == seqs[n + 1]
           t == s \o q
           a == Len(s)
           b == Len(q)
<1>1. q \in Seq(S) /\ a \in Nat /\ b \in Nat
  <2>1. n + 1 \in 1 .. Len(seqs)
    OBVIOUS
  <2> QED
    BY <2>1
<1>2. /\ t \in Seq(S) /\ Len(t) = a + b
      /\ \A k \in 1 .. a : t[k] = s[k]
      /\ \A j \in 1 .. b : t[a + j] = q[j]
  BY <1>1
<1>3. P[n] = a /\ P[n + 1] = a + b
  <2>1. P[n] = a
    BY DEF Joins
  <2>2. n + 1 \in 1 .. (n + 1) /\ (n + 1) - 1 = n
    OBVIOUS
  <2>3. P[n + 1] = P[n] + Len(seqs[n + 1])
    BY <2>2 DEF IsPlaces
  <2> QED
    BY <2>1, <2>3
<1> HIDE DEF t, q, a, b
<1>4. ASSUME NEW i \in 1 .. (n + 1), NEW j \in 1 .. Len(seqs[i])
      PROVE  P[i - 1] + j \in 1 .. P[n + 1] /\ t[P[i - 1] + j] = seqs[i][j]
  <2>1. CASE i = n + 1
    <3>1. i - 1 = n /\ j \in 1 .. b /\ seqs[i] = q
      BY <2>1 DEF q, b
    <3>2. a + j \in 1 .. (a + b)
      BY <1>1, <3>1
    <3> QED
      BY <1>2, <1>3, <3>1, <3>2
  <2>2. CASE i # n + 1
    <3>1. i \in 1 .. n
      BY <2>2
    <3>2. P[i - 1] + j \in 1 .. a /\ s[P[i - 1] + j] = seqs[i][j]
      BY <1>3, <3>1 DEF Joins
    <3> DEFINE p == P[i - 1] + j
    <3> HIDE DEF p
    <3>3. p \in 1 .. a /\ s[p] = seqs[i][j]
      BY <3>2 DEF p
    <3>4. p \in 1 .. (a + b)
      BY <1>1, <3>3
    <3>5. t[p] = s[p]
      BY <1>2, <3>3
    <3>6. p \in 1 .. P[n + 1] /\ t[p] = seqs[i][j]
      BY <1>3, <3>3, <3>4, <3>5
    <3> QED
      BY <3>6 DEF p
  <2> QED
    BY <2>1, <2>2
<1>5. ASSUME NEW k \in 1 .. P[n + 1]
      PROVE  \E i \in 1 .. (n + 1) : \E j \in 1 .. Len(seqs[i]) : k = P[i - 1] + j
  <2>1. CASE k <= a
    <3>1. k \in 1 .. P[n]
      BY <1>1, <1>3, <2>1
    <3>2. PICK i \in 1 .. n : \E j \in 1 .. Len(seqs[i]) : k = P[i - 1] + j
      BY <3>1 DEF Joins
    <3>3. i \in 1 .. (n + 1)
      OBVIOUS
    <3> QED
      BY <3>2, <3>3
  <2>2. CASE ~(k <= a)
    <3>1. k - a \in 1 .. b /\ k = a + (k - a)
      BY <1>1, <1>3, <2>2
    <3>2. n + 1 \in 1 .. (n + 1) /\ (n + 1) - 1 = n
      OBVIOUS
    <3>3. \E j \in 1 .. Len(seqs[n + 1]) : k = P[(n + 1) - 1] + j
      BY <1>3, <3>1, <3>2 DEF b, q
    <3> QED
      BY <3>2, <3>3
  <2> QED
    BY <2>1, <2>2
<1> QED
  BY <1>2, <1>3, <1>4, <1>5 DEF Joins, t, q

LEMMA FlattenJoins ==
  ASSUME NEW S, NEW seqs \in Seq(Seq(S)), NEW P, IsPlaces(P, seqs, Len(seqs))
  PROVE  FlattenSeq(seqs) \in Seq(S) /\ Joins(FlattenSeq(seqs), P, seqs, Len(seqs))
<1> DEFINE n == Len(seqs)
<1>1. n \in Nat
  OBVIOUS
<1>2. CASE n = 0
  <2>1. FlattenSeq(seqs) = seqs /\ seqs = <<>>
    BY <1>2 DEF FlattenSeq
  <2> QED
    BY <1>2, <2>1 DEF Joins, IsPlaces
<1>3. CASE n # 0
  <2> DEFINE f == CHOOSE f : IsFlat(f, seqs, n)
  <2>1. IsFlat(f, seqs, n)
    <3> HIDE DEF n
    <3> QED
      BY <1>1, FlatExists
  <2>2. FlattenSeq(seqs) = f[n]
    BY <1>3, Zenon DEF FlattenSeq, IsFlat
  <2> HIDE DEF f
  <2> DEFINE T == {m \in Nat : m + 1 <= n => /\ f[m + 1] \in Seq(S)
                                            /\ Joins(f[m + 1], P, seqs, m + 1)}
  <2>3. \A i \in 1 .. n : f[i] = IF i = 1 THEN seqs[i] ELSE f[i - 1] \o seqs[i]
    BY <2>1 DEF IsFlat
  <2>4. \A i \in 1 .. n : IsPlaces(P, seqs, i)
    BY DEF IsPlaces
  <2>5. 0 \in T
    <3>1. f[1] = seqs[1] /\ 1 \in 1 .. n /\ seqs[1] \in Seq(S)
      BY <1>1, <1>3, <2>3
    <3>2. P[0] = 0 /\ P[1] = P[0] + Len(seqs[1])
      BY <3>1 DEF IsPlaces
    <3>3. P[1] = Len(seqs[1]) /\ Len(seqs[1]) \in Nat
      BY <3>1, <3>2
    <3>4. Joins(f[1], P, seqs, 1)
      BY <3>1, <3>2, <3>3 DEF Joins
    <3> QED
      BY <3>1, <3>4
  <2>6. ASSUME NEW m \in T PROVE m + 1 \in T
    <3>1. m \in Nat
      BY <2>6
    <3> SUFFICES ASSUME m + 1 + 1 <= n
                 PROVE  f[m + 1 + 1] \in Seq(S) /\ Joins(f[m + 1 + 1], P, seqs, m + 1 + 1)
      BY <3>1
    <3> DEFINE k == m + 1
    <3>2. k \in Nat /\ k + 1 \in 1 .. n /\ k + 1 # 1 /\ (k + 1) - 1 = k /\ k <= n
      BY <1>1, <3>1
    <3>3. f[k] \in Seq(S) /\ Joins(f[k], P, seqs, k)
      BY <2>6, <3>2
    <3> HIDE DEF k
    <3>4. f[k + 1] = f[k] \o seqs[k + 1]
      BY <2>3, <3>2
    <3>5. IsPlaces(P, seqs, k + 1)
      BY <2>4, <3>2
    <3>6. k + 1 <= Len(seqs)
      BY <3>2
    <3>7. f[k + 1] \in Seq(S) /\ Joins(f[k + 1], P, seqs, k + 1)
      BY <3>2, <3>3, <3>4, <3>5, <3>6, JoinNext
    <3> QED
      BY <3>7 DEF k
  <2>7. T = Nat
    <3> HIDE DEF T
    <3>1. T \subseteq Nat
      BY DEF T
    <3> QED
      BY <2>5, <2>6, <3>1, SetInduction
  <2>8. n - 1 \in Nat /\ (n - 1) + 1 = n /\ n <= n
    BY <1>1, <1>3
  <2> HIDE DEF n
  <2>9. n - 1 \in T
    <3> HIDE DEF T
    <3> QED
      BY <2>7, <2>8
  <2>10. f[n] \in Seq(S) /\ Joins(f[n], P, seqs, n)
    BY <2>8, <2>9
  <2> QED
    BY <2>2, <2>10 DEF n
<1> QED
  BY <1>2, <1>3

LEMMA PlacesExist ==
  ASSUME NEW S, NEW seqs \in Seq(Seq(S))
  PROVE  \E P : IsPlaces(P, seqs, Len(seqs)) /\ P \in [0 .. Len(seqs) -> Nat]
<1> DEFINE n == Len(seqs)
           Places(m) == \E P : IsPlaces(P, seqs, m) /\ P \in [0 .. m -> Nat]
           T == {m \in Nat : m <= n => Places(m)}
<1>1. n \in Nat
  OBVIOUS
<1>2. 0 \in T
  <2> DEFINE P == [i \in 0 .. 0 |-> 0]
  <2>1. P[0] = 0 /\ P \in [0 .. 0 -> Nat]
    OBVIOUS
  <2> HIDE DEF P
  <2>2. IsPlaces(P, seqs, 0)
    BY <2>1 DEF IsPlaces
  <2> QED
    BY <2>1, <2>2
<1>3. ASSUME NEW m \in T PROVE m + 1 \in T
  <2>1. m \in Nat
    BY <1>3
  <2> SUFFICES ASSUME m + 1 <= n PROVE Places(m + 1)
    <3> HIDE DEF Places
    <3> QED
      BY <2>1
  <2>2. m <= n /\ m + 1 \in 1 .. n
    BY <1>1, <2>1
  <2>3. PICK Q : IsPlaces(Q, seqs, m) /\ Q \in [0 .. m -> Nat]
    BY <1>3, <2>2
  <2>4. Len(seqs[m + 1]) \in Nat /\ Q[m] \in Nat
    <3>1. seqs[m + 1] \in Seq(S)
      BY <2>2
    <3> QED
      BY <2>1, <2>3, <3>1
  <2> DEFINE k == Q[m] + Len(seqs[m + 1])
             P == [i \in 0 .. (m + 1) |-> IF i = m + 1 THEN k ELSE Q[i]]
  <2>5. k \in Nat
    BY <2>4
  <2> HIDE DEF k
  <2>6. P \in [0 .. (m + 1) -> Nat]
    BY <2>1, <2>3, <2>5
  <2>7. P[m + 1] = k /\ \A i \in 0 .. m : P[i] = Q[i]
    BY <2>1
  <2> HIDE DEF P
  <2>8. P[0] = 0
    BY <2>1, <2>3, <2>7 DEF IsPlaces
  <2>9. ASSUME NEW i \in 1 .. (m + 1) PROVE P[i] = P[i - 1] + Len(seqs[i])
    <3>1. CASE i = m + 1
      <4>1. i - 1 = m /\ m \in 0 .. m
        BY <2>1, <3>1
      <4> QED
        BY <2>7, <3>1, <4>1 DEF k
    <3>2. CASE i # m + 1
      <4>1. i \in 1 .. m /\ i \in 0 .. m /\ i - 1 \in 0 .. m
        BY <2>1, <3>2
      <4> QED
        BY <2>3, <2>7, <4>1 DEF IsPlaces
    <3> QED
      BY <3>1, <3>2
  <2> QED
    BY <2>6, <2>8, <2>9 DEF IsPlaces
<1>4. T = Nat
  <2> HIDE DEF T
  <2>1. T \subseteq Nat
    BY DEF T
  <2> QED
    BY <1>2, <1>3, <2>1, SetInduction
<1>5. n \in T
  <2> HIDE DEF T, n
  <2> QED
    BY <1>1, <1>4
<1> QED
  BY <1>1, <1>5

(* The elements are those of the sequences. *)
LEMMA FlattenElements ==
  ASSUME NEW S, NEW seqs \in Seq(Seq(S))
  PROVE  /\ FlattenSeq(seqs) \in Seq(S)
         /\ \A i \in 1 .. Len(seqs) : \A j \in 1 .. Len(seqs[i]) :
              \E k \in 1 .. Len(FlattenSeq(seqs)) : FlattenSeq(seqs)[k] = seqs[i][j]
         /\ \A k \in 1 .. Len(FlattenSeq(seqs)) :
              \E i \in 1 .. Len(seqs) : \E j \in 1 .. Len(seqs[i]) :
                FlattenSeq(seqs)[k] = seqs[i][j]
<1>1. PICK P : IsPlaces(P, seqs, Len(seqs))
  BY PlacesExist
<1>2. FlattenSeq(seqs) \in Seq(S) /\ Joins(FlattenSeq(seqs), P, seqs, Len(seqs))
  BY <1>1, FlattenJoins
<1> DEFINE f == FlattenSeq(seqs)
           n == Len(seqs)
<1> HIDE DEF f, n
<1>3. /\ Len(f) = P[n]
      /\ \A i \in 1 .. n : \A j \in 1 .. Len(seqs[i]) :
           P[i - 1] + j \in 1 .. P[n] /\ f[P[i - 1] + j] = seqs[i][j]
      /\ \A k \in 1 .. P[n] : \E i \in 1 .. n : \E j \in 1 .. Len(seqs[i]) : k = P[i - 1] + j
  BY <1>2 DEF Joins, f, n
<1>4. ASSUME NEW k \in 1 .. Len(f)
      PROVE  \E i \in 1 .. n : \E j \in 1 .. Len(seqs[i]) : f[k] = seqs[i][j]
  <2>1. PICK i \in 1 .. n : \E j \in 1 .. Len(seqs[i]) : k = P[i - 1] + j
    BY <1>3
  <2>2. PICK j \in 1 .. Len(seqs[i]) : k = P[i - 1] + j
    BY <2>1
  <2>3. f[k] = seqs[i][j]
    BY <1>3, <2>2
  <2> QED
    BY <2>3
<1>5. ASSUME NEW i \in 1 .. n, NEW j \in 1 .. Len(seqs[i])
      PROVE  \E k \in 1 .. Len(f) : f[k] = seqs[i][j]
  BY <1>3
<1> QED
  BY <1>2, <1>4, <1>5 DEF f, n

(* Blocks of one length b: element j of block i is at b * (i - 1) + j. *)
LEMMA FlattenBlocks ==
  ASSUME NEW S, NEW seqs \in Seq(Seq(S)), NEW b \in Nat,
         \A i \in 1 .. Len(seqs) : Len(seqs[i]) = b
  PROVE  /\ FlattenSeq(seqs) \in Seq(S)
         /\ Len(FlattenSeq(seqs)) = b * Len(seqs)
         /\ \A i \in 1 .. Len(seqs) : \A j \in 1 .. b :
              /\ b * (i - 1) + j \in 1 .. Len(FlattenSeq(seqs))
              /\ FlattenSeq(seqs)[b * (i - 1) + j] = seqs[i][j]
<1> DEFINE n == Len(seqs)
           P == [i \in 0 .. n |-> b * i]
<1>1. n \in Nat
  OBVIOUS
<1>2. /\ P[0] = 0 /\ P[n] = b * n
      /\ \A i \in 1 .. n : P[i - 1] = b * (i - 1) /\ P[i] = P[i - 1] + b
  <2>1. b * 0 = 0 /\ \A i \in 1 .. n : b * i = b * (i - 1) + b
    BY <1>1
  <2>2. /\ P[0] = b * 0 /\ P[n] = b * n
        /\ \A i \in 1 .. n : P[i - 1] = b * (i - 1) /\ P[i] = b * i
    BY <1>1
  <2> HIDE DEF P
  <2> QED
    BY <2>1, <2>2
<1> HIDE DEF P
<1>3. IsPlaces(P, seqs, n)
  BY <1>2 DEF IsPlaces
<1>4. FlattenSeq(seqs) \in Seq(S) /\ Joins(FlattenSeq(seqs), P, seqs, n)
  BY <1>3, FlattenJoins
<1>5. ASSUME NEW i \in 1 .. n, NEW j \in 1 .. b
      PROVE  /\ b * (i - 1) + j \in 1 .. Len(FlattenSeq(seqs))
             /\ FlattenSeq(seqs)[b * (i - 1) + j] = seqs[i][j]
  <2>1. /\ P[i - 1] + j \in 1 .. P[n] /\ FlattenSeq(seqs)[P[i - 1] + j] = seqs[i][j]
        /\ Len(FlattenSeq(seqs)) = P[n]
    BY <1>4 DEF Joins
  <2> QED
    BY <1>2, <2>1
<1>6. Len(FlattenSeq(seqs)) = b * n
  BY <1>2, <1>4 DEF Joins
<1> QED
  BY <1>4, <1>5, <1>6

(* Sequences without a type.                                                  *)
IsSeq(q) == \E S : q \in Seq(S)

LEMMA SeqEmpty == IsSeq(<<>>) /\ Len(<<>>) = 0
<1>1. <<>> \in Seq({})
  OBVIOUS
<1> QED
  BY <1>1 DEF IsSeq

LEMMA SeqLength ==
  ASSUME NEW q, IsSeq(q)
  PROVE  Len(q) \in Nat /\ DOMAIN q = 1 .. Len(q) /\ (q = <<>> <=> Len(q) = 0)
<1>1. PICK S : q \in Seq(S)
  BY DEF IsSeq
<1> QED
  BY <1>1

LEMMA SeqAppend ==
  ASSUME NEW q, IsSeq(q), NEW x
  PROVE  /\ IsSeq(Append(q, x)) /\ Append(q, x) # <<>>
         /\ Len(Append(q, x)) = Len(q) + 1
         /\ Append(q, x)[Len(q) + 1] = x
         /\ \A i \in 1 .. Len(q) : Append(q, x)[i] = q[i]
<1>1. PICK S : q \in Seq(S)
  BY DEF IsSeq
<1> DEFINE T == S \union {x}
<1>2. q \in Seq(T) /\ x \in T
  BY <1>1
<1> HIDE DEF T
<1>3. Append(q, x) \in Seq(T)
  BY <1>2
<1> QED
  BY <1>2, <1>3 DEF IsSeq

LEMMA SeqTail ==
  ASSUME NEW q, IsSeq(q), q # <<>>
  PROVE  /\ IsSeq(Tail(q)) /\ Len(Tail(q)) = Len(q) - 1
         /\ Head(q) = q[1] /\ 1 \in 1 .. Len(q)
         /\ \A i \in 1 .. Len(Tail(q)) : i + 1 \in 1 .. Len(q) /\ Tail(q)[i] = q[i + 1]
<1>1. PICK S : q \in Seq(S)
  BY DEF IsSeq
<1>2. Tail(q) \in Seq(S) /\ Len(q) \in Nat \ {0}
  BY <1>1
<1> QED
  BY <1>1, <1>2 DEF IsSeq
=============================================================================
