------------------------------ MODULE FoldRule ------------------------------
(***************************************************************************)
(* Induction for FoldLeft, to be instantiated: Op is the operator that is  *)
(* folded, with a parameter c that stays the same, and Inv(c, seq, i, s)   *)
(* what is known of the state s after i elements of seq.                   *)
(***************************************************************************)
EXTENDS Integers, FiniteSets, WellFoundedInduction, TLAPS

CONSTANTS Op(_, _, _), Inv(_, _, _, _)

\* The greatest element of a set, as in FiniteSetsExt.
Top(S) == CHOOSE x \in S : \A y \in S : x >= y

\* FoldLeft of SequencesExt, whose recursion is over sets of indices.
Unfolds(f, c, base, seq, D) ==
  f = [s \in SUBSET D |->
         IF s = {} THEN base ELSE Op(c, f[s \ {Top(s)}], seq[Top(s)])]

Fold(c, base, seq) == (CHOOSE f : Unfolds(f, c, base, seq, DOMAIN seq))[DOMAIN seq]

-----------------------------------------------------------------------------
\* A set of natural numbers has a least element.
LEMMA Least ==
  ASSUME NEW T \in SUBSET Nat, T # {}
  PROVE  \E n \in T : \A m \in T : n <= m
<1>1. \E R : IsWellFoundedOn(R, Nat) /\ \A x, y \in Nat : <<y, x>> \in R <=> y < x
  <2> DEFINE Q == OpToRel(<, Nat)
  <2>1. IsWellFoundedOn(Q, Nat)
    BY NatLessThanWellFounded
  <2>2. \A x, y \in Nat : <<y, x>> \in Q <=> y < x
    BY DEF OpToRel
  <2> HIDE DEF Q
  <2> QED BY <2>1, <2>2, Zenon
<1>2. PICK R : IsWellFoundedOn(R, Nat) /\ \A x, y \in Nat : <<y, x>> \in R <=> y < x
  BY <1>1, Zenon
<1>3. PICK n \in T : \A y \in T : ~(<<y, n>> \in R)
  BY <1>2, WFMin, Zenon
<1>4. \A m \in T : ~(m < n)
  BY <1>2, <1>3, Zenon
<1> QED BY <1>4

\* The top of a set of indices up to n.
LEMMA TopIs ==
  ASSUME NEW n \in Nat, NEW S \in SUBSET (1 .. n), S # {}
  PROVE  Top(S) \in S /\ \A y \in S : Top(S) >= y
<1> DEFINE T == {n - x : x \in S}
<1>0. \A x \in S : x \in Nat /\ x <= n
  OBVIOUS
<1>1. T \in SUBSET Nat /\ T # {}
  <2>1. \A x \in S : n - x \in Nat
    BY <1>0
  <2> QED BY <2>1
<1>2. PICK t \in T : \A m \in T : t <= m
  BY <1>1, Least
<1>3. PICK x \in S : t = n - x
  BY <1>2
<1>4. \A y \in S : x >= y
  <2> TAKE y \in S
  <2>1. n - y \in T
    OBVIOUS
  <2>2. t <= n - y
    BY <2>1, <1>2
  <2> QED BY <2>2, <1>3, <1>0
<1> QED BY <1>3, <1>4, Zenon DEF Top

LEMMA TopOfFull == ASSUME NEW n \in Nat, n # 0
                   PROVE  Top(1 .. n) = n /\ (1 .. n) \ {n} = 1 .. n - 1
<1>1. 1 .. n # {} /\ n \in 1 .. n
  OBVIOUS
<1>2. Top(1 .. n) \in 1 .. n /\ Top(1 .. n) >= n
  BY <1>1, TopIs
<1> QED BY <1>2

\* The function that FoldLeft chooses exists.
LEMMA FoldExists ==
  ASSUME NEW N \in Nat, NEW c, NEW base, NEW seq
  PROVE  \E f : Unfolds(f, c, base, seq, 1 .. N)
<1> DEFINE Fun(n, f) == Unfolds(f, c, base, seq, 1 .. n)
           T == {n \in Nat : ~ \E f : Fun(n, f)}
<1>1. SUFFICES ASSUME T # {} PROVE FALSE
  BY Zenon
<1>2. PICK n \in T : \A m \in T : n <= m
  BY <1>1, Least
<1>3. n \in Nat /\ ~ \E f : Fun(n, f)
  BY <1>2
<1>4. CASE n = 0
  <2> DEFINE f == [s \in SUBSET (1 .. 0) |-> base]
  <2>1. \A s \in SUBSET (1 .. 0) : s = {}
    OBVIOUS
  <2>2. Fun(0, f)
    BY <2>1 DEF Unfolds
  <2> QED BY <1>3, <1>4, <2>2, Zenon
<1>5. CASE n # 0
  <2>1. n - 1 \in Nat /\ n - 1 \notin T
    BY <1>2, <1>3, <1>5
  <2>2. PICK g : Fun(n - 1, g)
    BY <2>1
  <2> DEFINE f == [s \in SUBSET (1 .. n) |-> IF n \in s THEN Op(c, g[s \ {n}], seq[n]) ELSE g[s]]
  <2>3. \A s \in SUBSET (1 .. n) : n \notin s => s \in SUBSET (1 .. n - 1)
    <3>1. (1 .. n) \ {n} = 1 .. n - 1
      BY <1>3, <1>5, TopOfFull
    <3> QED BY <3>1
  <2>4. \A s \in SUBSET (1 .. n - 1) : s \in SUBSET (1 .. n) /\ n \notin s /\ f[s] = g[s]
    <3>1. 1 .. n - 1 \subseteq 1 .. n /\ n \notin 1 .. n - 1
      BY <1>3
    <3> QED BY <3>1
  <2>5. \A s \in SUBSET (1 .. n) : n \in s => f[s] = Op(c, g[s \ {n}], seq[n])
    OBVIOUS
  <2>6. \A s \in SUBSET (1 .. n - 1) :
          g[s] = IF s = {} THEN base ELSE Op(c, g[s \ {Top(s)}], seq[Top(s)])
    BY <2>2 DEF Unfolds
  <2>7. DOMAIN f = SUBSET (1 .. n) /\ f = [s \in SUBSET (1 .. n) |-> f[s]]
    OBVIOUS
  <2> HIDE DEF f
  <2>8. \A s \in SUBSET (1 .. n) :
          f[s] = IF s = {} THEN base ELSE Op(c, f[s \ {Top(s)}], seq[Top(s)])
    <3> TAKE s \in SUBSET (1 .. n)
    <3>1. CASE n \in s
      <4>1. Top(s) \in s /\ \A y \in s : Top(s) >= y
        BY <1>3, <3>1, TopIs
      <4>2. Top(s) \in 1 .. n /\ Top(s) >= n
        BY <4>1, <3>1
      <4>4. Top(s) = n /\ s # {}
        BY <1>3, <3>1, <4>2
      <4>3. f[s \ {n}] = g[s \ {n}]
        BY <2>3, <2>4
      <4> QED BY <3>1, <4>3, <4>4, <2>5
    <3>2. CASE n \notin s
      <4>1. s \in SUBSET (1 .. n - 1) /\ f[s] = g[s]
        BY <3>2, <2>3, <2>4
      <4>2. s \ {Top(s)} \in SUBSET (1 .. n - 1)
        BY <4>1
      <4>3. f[s \ {Top(s)}] = g[s \ {Top(s)}]
        BY <4>2, <2>4
      <4> QED BY <4>1, <4>3, <2>6
    <3> QED BY <3>1, <3>2
  <2>9. Fun(n, f)
    BY <2>7, <2>8 DEF Unfolds
  <2> QED BY <1>3, <2>9, Zenon
<1> QED BY <1>4, <1>5

\* The states h[0] .. h[n] that a fold goes through.
Traces(h, c, base, seq, n) ==
  /\ h[0] = base
  /\ \A i \in 1 .. n : h[i] = Op(c, h[i - 1], seq[i])
  /\ Fold(c, base, seq) = h[n]

LEMMA FoldStates ==
  ASSUME NEW c, NEW base, NEW seq, NEW n \in Nat, DOMAIN seq = 1 .. n
  PROVE  \E h : Traces(h, c, base, seq, n)
<1> DEFINE f == CHOOSE f : Unfolds(f, c, base, seq, DOMAIN seq)
           h == [i \in 0 .. n |-> f[1 .. i]]
<1>1. Unfolds(f, c, base, seq, 1 .. n)
  BY FoldExists, Zenon
<1>2. Fold(c, base, seq) = f[1 .. n]
  BY DEF Fold
<1> HIDE DEF f
<1>3. \A s \in SUBSET (1 .. n) :
        f[s] = IF s = {} THEN base ELSE Op(c, f[s \ {Top(s)}], seq[Top(s)])
  BY <1>1 DEF Unfolds
<1>4. h[0] = base
  <2>1. 1 .. 0 = {} /\ {} \in SUBSET (1 .. n) /\ 0 \in 0 .. n
    OBVIOUS
  <2>2. f[{}] = base
    BY <2>1, <1>3
  <2>3. h[0] = f[1 .. 0]
    BY <2>1
  <2> QED BY <2>1, <2>2, <2>3, Zenon
<1>5. \A i \in 1 .. n : h[i] = Op(c, h[i - 1], seq[i])
  <2> TAKE i \in 1 .. n
  <2>1. i \in Nat /\ i # 0 /\ i \in 1 .. i /\ 1 .. i \subseteq 1 .. n
    OBVIOUS
  <2>2. Top(1 .. i) = i /\ (1 .. i) \ {i} = 1 .. i - 1
    BY <2>1, TopOfFull
  <2>3. f[1 .. i] = Op(c, f[1 .. i - 1], seq[i])
    BY <2>1, <2>2, <1>3
  <2> QED BY <2>3
<1>6. h[n] = f[1 .. n]
  OBVIOUS
<1> HIDE DEF h
<1>7. Traces(h, c, base, seq, n)
  BY <1>2, <1>4, <1>5, <1>6 DEF Traces
<1> QED BY <1>7

\* What holds at the start and is kept by every element holds at the end.
LEMMA FoldInduction ==
  ASSUME NEW c, NEW base, NEW seq, NEW n \in Nat, DOMAIN seq = 1 .. n,
         Inv(c, seq, 0, base),
         \A i \in 1 .. n : \A s :
           Inv(c, seq, i - 1, s) => Inv(c, seq, i, Op(c, s, seq[i]))
  PROVE  Inv(c, seq, n, Fold(c, base, seq))
<1>0. PICK h : Traces(h, c, base, seq, n)
  BY FoldStates
<1>1. /\ h[0] = base /\ Fold(c, base, seq) = h[n]
      /\ \A i \in 1 .. n : h[i] = Op(c, h[i - 1], seq[i])
  BY <1>0 DEF Traces
<1> DEFINE T == {i \in 0 .. n : ~ Inv(c, seq, i, h[i])}
<1>2. SUFFICES ASSUME T # {} PROVE FALSE
  BY <1>1
<1>3. T \in SUBSET Nat
  OBVIOUS
<1>4. PICK i \in T : \A j \in T : i <= j
  BY <1>2, <1>3, Least
<1>5. i \in 0 .. n /\ ~ Inv(c, seq, i, h[i])
  BY <1>4
<1>6. CASE i = 0
  BY <1>1, <1>5, <1>6
<1>7. CASE i # 0
  <2>1. i \in 1 .. n /\ i - 1 \in 0 .. n /\ ~(i <= i - 1)
    BY <1>5, <1>7
  <2>2. i - 1 \notin T
    BY <2>1, <1>4
  <2>3. Inv(c, seq, i - 1, h[i - 1])
    BY <2>1, <2>2, Zenon
  <2>4. Inv(c, seq, i, Op(c, h[i - 1], seq[i]))
    BY <2>1, <2>3, Zenon
  <2> QED BY <1>1, <1>5, <2>1, <2>4, Zenon
<1> QED BY <1>6, <1>7
=============================================================================
