------------------------------- MODULE Folding -------------------------------
(***************************************************************************)
(* Induction over the natural numbers in a form that needs no operator as  *)
(* a parameter, and what FoldLeft computes, for any operator Op: a module  *)
(* takes it with INSTANCE and gives the operator that it folds with.       *)
(***************************************************************************)
EXTENDS Integers, Sequences, WellFoundedInduction, TLAPS

CONSTANT Op(_, _)

(* FoldLeft(Op, b, s), with its definition expanded.                         *)
LastOf(t) == CHOOSE x \in t : \A y \in t : x >= y
Fold(b, s) ==
  (CHOOSE it : it = [t \in SUBSET DOMAIN s |-> IF t = {} THEN b ELSE Op(it[t \ {LastOf(t)}], s[LastOf(t)])])[DOMAIN s]

(* A set of natural numbers has a least element.                             *)
LEMMA Least ==
  ASSUME NEW S, S \subseteq Nat, S # {}
  PROVE  \E n \in S : \A m \in S : n <= m
<1> DEFINE R == OpToRel(<, Nat)
<1>1. IsWellFoundedOn(R, Nat)  BY NatLessThanWellFounded
<1>2. \A a, b \in Nat : <<a, b>> \in R <=> a < b  BY DEF OpToRel
<1> HIDE DEF R
<1>3. PICK n \in S : \A m \in S : <<m, n>> \notin R  BY <1>1, WFMin
<1>4. \A m \in S : ~(m < n)  BY <1>2, <1>3
<1> QED  BY <1>4

(* What holds of 0 and with n of n + 1 holds of all numbers: S is the set of *)
(* those it holds of.                                                        *)
LEMMA Induction ==
  ASSUME NEW S, 0 \in S, \A n \in Nat : n \in S => n + 1 \in S
  PROVE  Nat \subseteq S
<1> SUFFICES ASSUME Nat \ S # {} PROVE FALSE  OBVIOUS
<1>1. PICK n \in Nat \ S : \A m \in Nat \ S : n <= m  BY Least
<1>2. n # 0 /\ n - 1 \in Nat  OBVIOUS
<1>3. n - 1 \in S  BY <1>1, <1>2
<1> QED  BY <1>2, <1>3

(* The function that MapThenFoldSet calls iter, on the sets of the first n   *)
(* indexes.                                                                  *)
Iter(it, b, s, n) ==
  it = [t \in SUBSET (1..n) |-> IF t = {} THEN b ELSE Op(it[t \ {LastOf(t)}], s[LastOf(t)])]

(* The last index of a set of the first n + 1 indexes that holds n + 1 is   *)
(* n + 1.                                                                   *)
LEMMA LastIsLast ==
  ASSUME NEW n \in Nat, NEW t \in SUBSET (1..(n + 1)), n + 1 \in t
  PROVE  LastOf(t) = n + 1
<1>1. \A y \in t : n + 1 >= y  OBVIOUS
<1>2. \A x \in t : (\A y \in t : x >= y) => x = n + 1  OBVIOUS
<1> QED  BY <1>1, <1>2 DEF LastOf

(* There is such a function, for every n.                                   *)
LEMMA IterExists ==
  ASSUME NEW b, NEW s, NEW n \in Nat
  PROVE  \E it : Iter(it, b, s, n)
<1> DEFINE S == {k \in Nat : \E it : Iter(it, b, s, k)}
<1>1. 0 \in S
  <2> DEFINE it == [t \in SUBSET (1..0) |-> b]
  <2>1. \A t \in SUBSET (1..0) : t = {}  OBVIOUS
  <2>2. it = [t \in SUBSET (1..0) |-> IF t = {} THEN b ELSE Op(it[t \ {LastOf(t)}], s[LastOf(t)])]  BY <2>1
  <2> QED  BY <2>2 DEF Iter
<1>2. \A k \in Nat : k \in S => k + 1 \in S
  <2> TAKE k \in Nat
  <2> HAVE k \in S
  <2>1. PICK old : Iter(old, b, s, k)  OBVIOUS
  <2> DEFINE it == [t \in SUBSET (1..(k + 1)) |-> IF k + 1 \in t THEN Op(old[t \ {k + 1}], s[k + 1]) ELSE old[t]]
  <2>2. \A t \in SUBSET (1..(k + 1)) : k + 1 \notin t => t \in SUBSET (1..k)  OBVIOUS
  <2>3. \A t \in SUBSET (1..(k + 1)) : t \ {k + 1} \in SUBSET (1..k)  OBVIOUS
  <2>4. \A t \in SUBSET (1..k) : it[t] = old[t]  
    <3> TAKE t \in SUBSET (1..k)
    <3>1. t \in SUBSET (1..(k + 1)) /\ k + 1 \notin t  OBVIOUS
    <3> QED  BY <3>1
  <2>5. ASSUME NEW t \in SUBSET (1..(k + 1))
        PROVE  it[t] = IF t = {} THEN b ELSE Op(it[t \ {LastOf(t)}], s[LastOf(t)])
    <3>1. CASE k + 1 \in t
      <4>1. LastOf(t) = k + 1  BY <3>1, LastIsLast
      <4>2. it[t \ {k + 1}] = old[t \ {k + 1}]  BY <2>3, <2>4
      <4> QED  BY <3>1, <4>1, <4>2
    <3>2. CASE k + 1 \notin t
      <4>1. t \in SUBSET (1..k)  BY <3>2
      <4>2. t \ {LastOf(t)} \in SUBSET (1..k)  BY <4>1
      <4>3. it[t] = old[t] /\ it[t \ {LastOf(t)}] = old[t \ {LastOf(t)}]  BY <2>4, <4>1, <4>2
      <4>4. old[t] = IF t = {} THEN b ELSE Op(old[t \ {LastOf(t)}], s[LastOf(t)])  BY <2>1, <4>1 DEF Iter
      <4> QED  BY <4>3, <4>4
    <3> QED  BY <3>1, <3>2
  <2> HIDE DEF it
  <2>6. DOMAIN it = SUBSET (1..(k + 1)) /\ it = [t \in DOMAIN it |-> it[t]]  BY DEF it
  <2>7. Iter(it, b, s, k + 1)  BY <2>5, <2>6 DEF Iter
  <2> QED  BY <2>7
<1>3. n \in S  BY <1>1, <1>2, Induction
<1> QED  BY <1>3

(* Folding is going along the sequence: f has what it has got so far.        *)
Along(f, b, s, n) == f[0] = b /\ \A i \in 1..n : f[i] = Op(f[i - 1], s[i])

(* A fold of FoldLeft is the end of a function that goes along the          *)
(* sequence.                                                                *)
LEMMA FoldSteps ==
  ASSUME NEW b, NEW s, NEW n \in Nat, DOMAIN s = 1..n
  PROVE  \E f : Along(f, b, s, n) /\ Fold(b, s) = f[n]
<1> DEFINE it == CHOOSE it : it = [t \in SUBSET (1..n) |-> IF t = {} THEN b ELSE Op(it[t \ {LastOf(t)}], s[LastOf(t)])]
<1>1. Fold(b, s) = it[1..n]  BY DEF Fold
<1>2. Iter(it, b, s, n)
  <2>1. PICK o : Iter(o, b, s, n)  BY IterExists
  <2> QED  BY <2>1 DEF Iter
<1> HIDE DEF it
<1> DEFINE f == [i \in 0..n |-> it[1..i]]
<1>3. f[0] = b
  <2>1. 1..0 = {}  OBVIOUS
  <2> QED  BY <1>2, <2>1 DEF Iter
<1>4. ASSUME NEW i \in 1..n PROVE f[i] = Op(f[i - 1], s[i])
  <2>1. 1..i \in SUBSET (1..n) /\ 1..i # {} /\ i \in 1..i  OBVIOUS
  <2>2. LastOf(1..i) = i
    <3>1. i - 1 \in Nat /\ (i - 1) + 1 = i  OBVIOUS
    <3> QED  BY <2>1, <3>1, LastIsLast
  <2>3. (1..i) \ {i} = 1..(i - 1)  OBVIOUS
  <2>4. it[1..i] = Op(it[1..(i - 1)], s[i])  BY <1>2, <2>1, <2>2, <2>3 DEF Iter
  <2> QED  BY <2>4
<1>5. Fold(b, s) = f[n]  BY <1>1
<1> HIDE DEF f
<1> QED  BY <1>3, <1>4, <1>5 DEF Along

(* ... and so any function that goes along it ends with the fold.            *)
LEMMA FoldIs ==
  ASSUME NEW b, NEW s, NEW n \in Nat, DOMAIN s = 1..n, NEW g, Along(g, b, s, n)
  PROVE  Fold(b, s) = g[n]
<1>1. PICK f : Along(f, b, s, n) /\ Fold(b, s) = f[n]  BY FoldSteps
<1> DEFINE S == {k \in Nat : k <= n => f[k] = g[k]}
<1>2. 0 \in S  BY <1>1 DEF Along
<1>3. \A k \in Nat : k \in S => k + 1 \in S
  <2> TAKE k \in Nat
  <2> HAVE k \in S
  <2>1. SUFFICES ASSUME k + 1 <= n PROVE f[k + 1] = g[k + 1]  OBVIOUS
  <2>2. k + 1 \in 1..n /\ (k + 1) - 1 = k  BY <2>1
  <2>3. f[k] = g[k]  BY <2>1
  <2>4. f[k + 1] = Op(f[k], s[k + 1]) /\ g[k + 1] = Op(g[k], s[k + 1])  BY <1>1, <2>2 DEF Along
  <2> QED  BY <2>3, <2>4
<1>4. n \in S  BY <1>2, <1>3, Induction
<1> QED  BY <1>1, <1>4

(* What adds up along one sequence and another adds up along both.           *)
Adds(S) == \A n \in Nat, x \in S : Op(n, x) \in Nat /\ Op(n, x) = n + Op(0, x)

(* When Op adds a number that its second argument has, the sums along a     *)
(* sequence are numbers.                                                    *)
LEMMA SumsAreNat ==
  ASSUME NEW S, Adds(S), NEW s \in Seq(S), NEW n \in Nat, n = Len(s), NEW f, Along(f, 0, s, n)
  PROVE  \A k \in 0..n : f[k] \in Nat
<1> DEFINE T == {k \in Nat : k <= n => f[k] \in Nat}
<1>1. 0 \in T  BY DEF Along
<1>2. \A k \in Nat : k \in T => k + 1 \in T
  <2> TAKE k \in Nat
  <2> HAVE k \in T
  <2>1. SUFFICES ASSUME k + 1 <= n PROVE f[k + 1] \in Nat  OBVIOUS
  <2>2. k + 1 \in 1..n /\ (k + 1) - 1 = k /\ f[k] \in Nat  BY <2>1
  <2>3. s[k + 1] \in S  BY <2>2
  <2>4. f[k + 1] = Op(f[k], s[k + 1])  BY <2>2 DEF Along
  <2> QED  BY <2>2, <2>3, <2>4 DEF Adds
<1>3. Nat \subseteq T  BY <1>1, <1>2, Induction
<1> QED  BY <1>3

(* A fold of sums is the sum of the folds of the parts (the totals of       *)
(* bytes, groups and changes in trim-history!, scheme/undo.scm).            *)
LEMMA FoldAdds ==
  ASSUME NEW S, Adds(S), NEW s \in Seq(S), NEW t \in Seq(S)
  PROVE  /\ Fold(0, s) \in Nat /\ Fold(0, t) \in Nat
         /\ Fold(0, s \o t) = Fold(0, s) + Fold(0, t)
<1> DEFINE m == Len(s)  n == Len(t)  u == s \o t
<1>1. /\ m \in Nat /\ n \in Nat /\ m + n \in Nat /\ u \in Seq(S) /\ Len(u) = m + n
      /\ \A i \in 1..m : u[i] = s[i]
      /\ \A i \in 1..n : u[m + i] = t[i] /\ t[i] \in S
  OBVIOUS
<1>d. DOMAIN s = 1..m /\ DOMAIN t = 1..n /\ DOMAIN u = 1..(m + n)  BY <1>1
<1>n. m = Len(s) /\ n = Len(t)  OBVIOUS
<1> HIDE DEF m, n, u
<1>2. PICK f : Along(f, 0, u, m + n) /\ Fold(0, u) = f[m + n]
  <2>1. m + n \in Nat  BY <1>1
  <2> QED  BY <1>d, <2>1, FoldSteps
<1>3. \A k \in 0..(m + n) : f[k] \in Nat  BY <1>1, <1>2, SumsAreNat
<1>4. Fold(0, s) = f[m]
  <2>1. Along(f, 0, s, m)  BY <1>1, <1>2 DEF Along
  <2> QED  BY <1>1, <1>d, <2>1, FoldIs
<1> DEFINE g == [i \in 0..n |-> f[m + i] - f[m]]
<1>5. Along(g, 0, t, n)
  <2>1. g[0] = 0  BY <1>1, <1>3
  <2>2. ASSUME NEW i \in 1..n PROVE g[i] = Op(g[i - 1], t[i])
    <3>1. /\ i \in 0..n /\ i - 1 \in 0..n /\ m + i \in 1..(m + n) /\ (m + i) - 1 = m + (i - 1)
          /\ m \in 0..(m + n) /\ m + i \in 0..(m + n) /\ m + (i - 1) \in 0..(m + n)
      BY <1>1
    <3>2. g[i] = f[m + i] - f[m] /\ g[i - 1] = f[m + (i - 1)] - f[m]  BY <3>1
    <3>3. f[m + i] = Op(f[m + (i - 1)], t[i])  BY <1>1, <1>2, <3>1 DEF Along
    <3>4. f[m + i] = f[m + (i - 1)] + Op(0, t[i]) /\ Op(0, t[i]) \in Nat
      BY <1>1, <1>3, <3>1, <3>3 DEF Adds
    <3>5. g[i - 1] \in Nat
      <4> DEFINE T == {k \in Nat : k <= n => f[m] <= f[m + k]}
      <4>1. 0 \in T  BY <1>1, <1>3
      <4>2. \A k \in Nat : k \in T => k + 1 \in T
        <5> TAKE k \in Nat
        <5> HAVE k \in T
        <5>1. SUFFICES ASSUME k + 1 <= n PROVE f[m] <= f[m + (k + 1)]  BY <1>1
        <5>2. /\ m + (k + 1) \in 1..(m + n) /\ (m + (k + 1)) - 1 = m + k /\ k + 1 \in 1..n
              /\ m \in 0..(m + n) /\ m + k \in 0..(m + n) /\ f[m] <= f[m + k]
          BY <1>1, <5>1
        <5>3. f[m + (k + 1)] = Op(f[m + k], t[k + 1])  BY <1>1, <1>2, <5>2 DEF Along
        <5>4. f[m + (k + 1)] = f[m + k] + Op(0, t[k + 1]) /\ Op(0, t[k + 1]) \in Nat
          BY <1>1, <1>3, <5>2, <5>3 DEF Adds
        <5>5. f[m] \in Nat /\ f[m + k] \in Nat  BY <1>3, <5>2
        <5> QED  BY <5>2, <5>4, <5>5
      <4>3. Nat \subseteq T  BY <4>1, <4>2, Induction
      <4>a. i - 1 \in Nat /\ i - 1 <= n  BY <1>1
      <4>4. i - 1 \in T /\ i - 1 <= n
        <5> HIDE DEF T
        <5> QED  BY <4>a, <4>3
      <4>5. f[m] <= f[m + (i - 1)]  BY <4>4
      <4>6. f[m] \in Nat /\ f[m + (i - 1)] \in Nat  BY <1>3, <3>1
      <4> QED  BY <3>2, <4>5, <4>6
    <3>6. Op(g[i - 1], t[i]) = g[i - 1] + Op(0, t[i])  BY <1>1, <3>5 DEF Adds
    <3>7. f[m] \in Nat /\ f[m + (i - 1)] \in Nat  BY <1>3, <3>1
    <3> HIDE DEF g
    <3> QED  BY <3>2, <3>4, <3>6, <3>7
  <2> HIDE DEF g
  <2> QED  BY <2>1, <2>2 DEF Along
<1>6. Fold(0, t) = f[m + n] - f[m]
  <2>1. g[n] = f[m + n] - f[m]  BY <1>1
  <2> HIDE DEF g
  <2> QED  BY <1>1, <1>d, <1>5, <2>1, FoldIs
<1>7. Fold(0, t) \in Nat
  <2>1. PICK h : Along(h, 0, t, n) /\ Fold(0, t) = h[n]  BY <1>1, <1>d, FoldSteps
  <2>2. \A k \in 0..n : h[k] \in Nat  BY <1>n, <1>1, <2>1, SumsAreNat
  <2> QED  BY <1>1, <2>1, <2>2
<1>8. f[m] \in Nat /\ f[m + n] \in Nat  BY <1>1, <1>3
<1> QED  BY <1>2, <1>4, <1>6, <1>7, <1>8 DEF u
=============================================================================
