------------------------------ MODULE FoldProofs ------------------------------
(***************************************************************************)
(* What FoldLeft computes, for any operator and for sequences of any       *)
(* length.  A module that folds with an operator of its own takes the      *)
(* lemmas by INSTANCE.                                                     *)
(***************************************************************************)
EXTENDS Integers, Sequences, SequencesExt, WellFoundedInduction, TLAPS

CONSTANTS Op(_, _), Base

Fold(t) == FoldLeft(Op, Base, t)

-------------------------------------------------------------------------------
(***************************************************************************)
(* A set of natural numbers that is not empty has a least element; from    *)
(* this, induction, and the greatest element of a bounded set.             *)
(***************************************************************************)
LEMMA Least ==
    ASSUME NEW S \in SUBSET Nat, S # {}
    PROVE  \E m \in S : \A n \in S : m <= n
<1>1. \E x \in S : \A y \in S : ~(<<y, x>> \in OpToRel(<, Nat))
  BY NatLessThanWellFounded, WFMin, Zenon
<1>2. PICK x \in S : \A y \in S : ~(<<y, x>> \in OpToRel(<, Nat))
  BY <1>1
<1>3. \A y \in S : ~(y < x)
  BY <1>2 DEF OpToRel
<1>4. \A y \in S : x \in Int /\ y \in Int
  OBVIOUS
<1>5. \A y \in S : x <= y
  BY <1>3, <1>4
<1> QED
  BY <1>5

LEMMA Induction ==
    ASSUME NEW P \in SUBSET Nat, 0 \in P, \A n \in P : n + 1 \in P
    PROVE  P = Nat
<1>1. SUFFICES ASSUME Nat \ P # {} PROVE FALSE
  OBVIOUS
<1>2. PICK m \in Nat \ P : \A n \in Nat \ P : m <= n
  BY <1>1, Least
<1>3. m # 0 /\ m - 1 \in Nat
  BY <1>2
<1>4. m - 1 \in P
  BY <1>2, <1>3
<1> QED
  BY <1>2, <1>3, <1>4

LEMMA Greatest ==
    ASSUME NEW n \in Nat, NEW S \in SUBSET (0..n), S # {}
    PROVE  \E m \in S : \A k \in S : k <= m
<1> DEFINE T == {k \in 0..n : n - k \in S}
<1>1. T \in SUBSET Nat
  OBVIOUS
<1>2. T # {}
  <2>1. PICK k \in S : TRUE
    OBVIOUS
  <2>2. n - k \in 0..n /\ n - (n - k) = k
    OBVIOUS
  <2>3. n - k \in T
    BY <2>2
  <2> QED
    BY <2>3
<1> HIDE DEF T
<1>3. PICK m \in T : \A k \in T : m <= k
  BY <1>1, <1>2, Least
<1>4. m \in 0..n /\ n - m \in S
  BY DEF T
<1>5. ASSUME NEW k \in S PROVE k <= n - m
  <2>1. k \in 0..n /\ n - k \in 0..n /\ n - (n - k) = k
    OBVIOUS
  <2>2. n - k \in T
    BY <2>1 DEF T
  <2> QED
    BY <1>3, <1>4, <2>1, <2>2
<1> QED
  BY <1>4, <1>5

-------------------------------------------------------------------------------
(***************************************************************************)
(* FoldLeft takes the greatest index off a set of indices, over and over.  *)
(* A function that does so exists for the sets of indices below any n.     *)
(***************************************************************************)
Unwinds(g, n, t) ==
    g = [s \in SUBSET (1..n) |-> IF s = {} THEN Base
                                 ELSE Op(g[s \ {Max(s)}], t[Max(s)])]

LEMMA UnwindsMore ==
    ASSUME NEW n \in Nat, NEW t, NEW g, Unwinds(g, n, t)
    PROVE  \E h : Unwinds(h, n + 1, t)
<1> DEFINE h == [s \in SUBSET (1..(n + 1)) |->
                   IF n + 1 \in s THEN Op(g[s \ {n + 1}], t[n + 1]) ELSE g[s]]
<1>1. ASSUME NEW s \in SUBSET (1..(n + 1)), n + 1 \in s
      PROVE  h[s] = Op(h[s \ {Max(s)}], t[Max(s)])
  <2>1. Max(s) = n + 1
    <3>1. \A x \in s : x \in Int /\ n + 1 >= x
      OBVIOUS
    <3>2. n + 1 \in s /\ \A y \in s : n + 1 >= y
      BY <1>1, <3>1
    <3>3. \A x \in s : (\A y \in s : x >= y) => x = n + 1
      BY <1>1, <3>1
    <3> QED
      BY <3>2, <3>3 DEF Max
  <2>2. s \ {n + 1} \in SUBSET (1..(n + 1)) /\ n + 1 \notin s \ {n + 1}
    OBVIOUS
  <2>3. h[s \ {n + 1}] = g[s \ {n + 1}]
    BY <2>2
  <2> QED
    BY <1>1, <2>1, <2>3
<1>2. ASSUME NEW s \in SUBSET (1..(n + 1)), n + 1 \notin s
      PROVE  h[s] = IF s = {} THEN Base ELSE Op(h[s \ {Max(s)}], t[Max(s)])
  <2>1. s \in SUBSET (1..n)
    BY <1>2
  <2>2. s \ {Max(s)} \in SUBSET (1..(n + 1)) /\ n + 1 \notin s \ {Max(s)}
    BY <1>2
  <2>3. h[s] = g[s] /\ h[s \ {Max(s)}] = g[s \ {Max(s)}]
    BY <1>2, <2>2
  <2>4. g[s] = IF s = {} THEN Base ELSE Op(g[s \ {Max(s)}], t[Max(s)])
    BY <2>1 DEF Unwinds
  <2> QED
    BY <2>3, <2>4
<1>3. \A s \in SUBSET (1..(n + 1)) :
         h[s] = IF s = {} THEN Base ELSE Op(h[s \ {Max(s)}], t[Max(s)])
  BY <1>1, <1>2
<1>4. h = [s \in SUBSET (1..(n + 1)) |-> h[s]]
  OBVIOUS
<1> HIDE DEF h
<1>5. Unwinds(h, n + 1, t)
  BY <1>3, <1>4 DEF Unwinds
<1> QED
  BY <1>5

LEMMA UnwindsAll ==
    ASSUME NEW t PROVE \A n \in Nat : \E g : Unwinds(g, n, t)
<1> DEFINE P == {n \in Nat : \E g : Unwinds(g, n, t)}
<1>1. 0 \in P
  <2> DEFINE g == [s \in SUBSET (1..0) |-> Base]
  <2>1. 1..0 = {}
    OBVIOUS
  <2>2. \A s \in SUBSET (1..0) : s = {}
    BY <2>1
  <2>3. Unwinds(g, 0, t)
    BY <2>2 DEF Unwinds
  <2> QED
    BY <2>3
<1>2. \A n \in P : n + 1 \in P
  BY UnwindsMore
<1>3. P = Nat
  <2> HIDE DEF P
  <2>1. P \in SUBSET Nat
    BY DEF P
  <2> QED
    BY <1>1, <1>2, <2>1, Induction
<1> QED
  BY <1>3

-------------------------------------------------------------------------------
(***************************************************************************)
(* A run over t: what there is after each of its elements.  Fold is where  *)
(* a run ends, and a run depends on nothing but the elements.              *)
(***************************************************************************)
IsRun(r, t) == r[0] = Base /\ \A k \in 1..Len(t) : r[k] = Op(r[k - 1], t[k])

LEMMA FoldIsRun ==
    ASSUME NEW S, NEW t \in Seq(S)
    PROVE  \E r : IsRun(r, t) /\ Fold(t) = r[Len(t)]
<1> DEFINE n == Len(t)
           it == CHOOSE g : Unwinds(g, n, t)
           r == [k \in 0..n |-> it[1..k]]
<1>1. n \in Nat /\ DOMAIN t = 1..n
  OBVIOUS
<1>2. Fold(t) = it[1..n]
  BY <1>1 DEF Fold, FoldLeft, MapThenFoldSet, Unwinds
<1>3. Unwinds(it, n, t)
  BY <1>1, UnwindsAll
<1> HIDE DEF it, n
<1>4. r[0] = Base
  <2>1. 1..0 = {} /\ {} \in SUBSET (1..n)
    OBVIOUS
  <2>2. it[{}] = Base
    BY <1>3, <2>1 DEF Unwinds
  <2> QED
    BY <1>1, <2>1, <2>2
<1>5. ASSUME NEW k \in 1..n
      PROVE  r[k] = Op(r[k - 1], t[k])
  <2>1. 1..k \in SUBSET (1..n) /\ 1..k # {}
    BY <1>1
  <2>2. Max(1..k) = k
    <3>1. k \in 1..k /\ \A y \in 1..k : k >= y
      BY <1>1
    <3>2. \A x \in 1..k : (\A y \in 1..k : x >= y) => x = k
      BY <1>1, <3>1
    <3> QED
      BY <3>1, <3>2 DEF Max
  <2>3. (1..k) \ {k} = 1..(k - 1)
    BY <1>1
  <2>4. it[1..k] = Op(it[1..(k - 1)], t[k])
    BY <1>3, <2>1, <2>2, <2>3 DEF Unwinds
  <2>5. k \in 0..n /\ k - 1 \in 0..n
    BY <1>1
  <2> QED
    BY <2>4, <2>5
<1>6. r[n] = it[1..n]
  BY <1>1
<1>7. IsRun(r, t)
  BY <1>4, <1>5 DEF IsRun, n
<1> QED
  BY <1>2, <1>6, <1>7 DEF n

LEMMA RunsAgree ==
    ASSUME NEW t, NEW u, NEW r, NEW q, IsRun(r, t), IsRun(q, u),
           NEW n \in Nat, Len(t) \in Nat, Len(u) \in Nat, n <= Len(t), n <= Len(u),
           \A k \in 1..n : t[k] = u[k]
    PROVE  r[n] = q[n]
<1> DEFINE P == {k \in Nat : k <= n => r[k] = q[k]}
<1>1. 0 \in P
  BY DEF IsRun
<1>2. \A k \in P : k + 1 \in P
  <2> SUFFICES ASSUME NEW k \in P, k + 1 <= n PROVE r[k + 1] = q[k + 1]
    OBVIOUS
  <2>1. k \in Nat /\ k + 1 \in 1..n /\ k + 1 \in 1..Len(t) /\ k + 1 \in 1..Len(u)
        /\ (k + 1) - 1 = k
    OBVIOUS
  <2>2. r[k] = q[k]
    BY <2>1
  <2>3. r[k + 1] = Op(r[k], t[k + 1]) /\ q[k + 1] = Op(q[k], u[k + 1])
    BY <2>1 DEF IsRun
  <2> QED
    BY <2>1, <2>2, <2>3
<1>3. P = Nat
  <2> HIDE DEF P
  <2>1. P \in SUBSET Nat
    BY DEF P
  <2> QED
    BY <1>1, <1>2, <2>1, Induction
<1> QED
  BY <1>3

(***************************************************************************)
(* Folding element by element.                                             *)
(***************************************************************************)
LEMMA FoldEmpty == Fold(<<>>) = Base
<1>1. <<>> \in Seq({}) /\ Len(<<>>) = 0
  OBVIOUS
<1>2. PICK r : IsRun(r, <<>>) /\ Fold(<<>>) = r[Len(<<>>)]
  BY <1>1, FoldIsRun
<1> QED
  BY <1>1, <1>2 DEF IsRun

LEMMA FoldAppend ==
    ASSUME NEW S, NEW t \in Seq(S), NEW c \in S
    PROVE  Fold(Append(t, c)) = Op(Fold(t), c)
<1> DEFINE u == Append(t, c)
           n == Len(t)
<1>1. /\ u \in Seq(S) /\ n \in Nat /\ Len(u) = n + 1
      /\ u[n + 1] = c /\ \A k \in 1..n : u[k] = t[k]
  OBVIOUS
<1>2. PICK r : IsRun(r, t) /\ Fold(t) = r[n]
  BY FoldIsRun
<1> HIDE DEF u
<1>3. PICK q : IsRun(q, u) /\ Fold(u) = q[Len(u)]
  BY <1>1, FoldIsRun
<1>4. n <= Len(t) /\ n <= Len(u) /\ Len(t) \in Nat /\ Len(u) \in Nat
  BY <1>1
<1> HIDE DEF n
<1>5. r[n] = q[n]
  BY <1>1, <1>2, <1>3, <1>4, RunsAgree
<1>6. q[n + 1] = Op(q[n], c)
  <2>1. n + 1 \in 1..Len(u) /\ (n + 1) - 1 = n
    BY <1>1
  <2> QED
    BY <1>1, <1>3, <2>1 DEF IsRun
<1> QED
  BY <1>1, <1>2, <1>3, <1>5, <1>6 DEF u
===============================================================================
