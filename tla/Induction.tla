------------------------------ MODULE Induction ------------------------------
(***************************************************************************)
(* Induction over numbers and finite sets with a set, not an operator, as  *)
(* the induction hypothesis: each rests on the well-foundedness of strict  *)
(* inclusion between finite sets.  A loop over numbers has a result by the  *)
(* same induction.                                                         *)
(***************************************************************************)
EXTENDS Integers, TLAPS, FiniteSetTheorems

\* A non-empty set of numbers has a least element.
LEMMA LeastOf ==
  ASSUME NEW S \in SUBSET Nat, S # {}
  PROVE  \E m \in S : \A n \in S : m <= n
<1> DEFINE Below(n) == 0 .. n-1
           T == {Below(n) : n \in S}
<1>1. T \subseteq FiniteSubsetsOf(Nat) /\ T # {}
  <2>1. ASSUME NEW n \in S PROVE IsFiniteSet(Below(n)) /\ Below(n) \in SUBSET Nat
    BY FS_Interval
  <2> QED BY <2>1 DEF FiniteSubsetsOf
<1>2. PICK B \in T : \A C \in T : ~ <<C, B>> \in StrictSubsetOrdering(Nat)
  BY <1>1, FS_StrictSubsetOrderingWellFounded, WFMin
<1>3. PICK m \in S : B = Below(m)
  BY <1>2
<1>4. ASSUME NEW n \in S, n < m PROVE FALSE
  <2>1. Below(n) \subseteq Below(m) /\ n \in Below(m) /\ n \notin Below(n)
    BY <1>4
  <2>2. Below(n) \in SUBSET Nat /\ Below(m) \in SUBSET Nat
    OBVIOUS
  <2>3. <<Below(n), Below(m)>> \in StrictSubsetOrdering(Nat)
    BY <2>1, <2>2 DEF StrictSubsetOrdering
  <2> QED BY <1>2, <1>3, <2>3
<1> QED BY <1>4

\* What holds for 0 and passes from each number to the next holds for all.
LEMMA InductionOnNat ==
  ASSUME NEW S, 0 \in S, \A n \in Nat : n \in S => n + 1 \in S
  PROVE  Nat \subseteq S
<1> DEFINE Bad == Nat \ S
<1>1. SUFFICES ASSUME Bad # {} PROVE FALSE
  OBVIOUS
<1>2. PICK m \in Bad : \A n \in Bad : m <= n
  BY <1>1, LeastOf
<1>3. m # 0 /\ m - 1 \in Nat /\ m - 1 \notin Bad
  BY <1>2
<1> QED BY <1>3

\* What holds for {} and stays when an element is added holds for a finite set.
LEMMA InductionOnFiniteSet ==
  ASSUME NEW S, IsFiniteSet(S), NEW F, {} \in F,
         \A T \in SUBSET S : \A x \in S \ T : T \in F => T \cup {x} \in F
  PROVE  S \in F
<1> DEFINE Bad == (SUBSET S) \ F
<1>1. SUFFICES ASSUME Bad # {} PROVE FALSE
  OBVIOUS
<1>2. Bad \subseteq FiniteSubsetsOf(S)
  BY FS_FiniteSubsetsOfFinite
<1>3. PICK B \in Bad : \A C \in Bad : ~ <<C, B>> \in StrictSubsetOrdering(S)
  BY <1>1, <1>2, FS_StrictSubsetOrderingWellFounded, WFMin
<1>4. PICK x \in B : TRUE
  BY <1>3
<1>5. <<B \ {x}, B>> \in StrictSubsetOrdering(S)
  BY <1>3, <1>4 DEF StrictSubsetOrdering
<1>6. B \ {x} \in F
  BY <1>3, <1>5
<1>7. (B \ {x}) \cup {x} \in F /\ (B \ {x}) \cup {x} = B
  BY <1>3, <1>4, <1>6
<1> QED BY <1>3, <1>7

\* A loop of N turns has a result: the function of all its states exists.
LEMMA LoopExists ==
  ASSUME NEW N \in Nat, NEW S, NEW base \in S, NEW step \in [1 .. N -> [S -> S]]
  PROVE  \E f \in [0 .. N -> S] :
           f[0] = base /\ \A n \in 1 .. N : f[n] = step[n][f[n - 1]]
<1> DEFINE Upto(n, f) == f[0] = base /\ \A i \in 1 .. n : f[i] = step[i][f[i - 1]]
           Ok == {n \in Nat : n <= N => \E f \in [0 .. n -> S] : Upto(n, f)}
<1>1. 0 \in Ok
  <2>1. [i \in 0 .. 0 |-> base] \in [0 .. 0 -> S] /\ Upto(0, [i \in 0 .. 0 |-> base])
    OBVIOUS
  <2> QED BY <2>1
<1>2. ASSUME NEW n \in Nat, n \in Ok PROVE n + 1 \in Ok
  <2>1. SUFFICES ASSUME n + 1 <= N PROVE \E f \in [0 .. n + 1 -> S] : Upto(n + 1, f)
    OBVIOUS
  <2>2. PICK f \in [0 .. n -> S] : Upto(n, f)
    BY <1>2, <2>1
  <2> DEFINE g == [i \in 0 .. n + 1 |-> IF i = n + 1 THEN step[n + 1][f[n]] ELSE f[i]]
  <2>3. step[n + 1][f[n]] \in S
    <3>1. n + 1 \in 1 .. N /\ n \in 0 .. n BY <2>1
    <3>2. f[n] \in S BY <2>2, <3>1
    <3> QED BY <3>1, <3>2
  <2>4. g \in [0 .. n + 1 -> S]
    BY <2>2, <2>3
  <2>5. g[0] = base
    BY <2>2
  <2>6. ASSUME NEW i \in 1 .. n + 1 PROVE g[i] = step[i][g[i - 1]]
    <3>1. CASE i = n + 1
      <4>1. i - 1 = n /\ i - 1 # n + 1 /\ i - 1 \in 0 .. n + 1 /\ i \in 0 .. n + 1 BY <3>1
      <4>2. g[i - 1] = f[n] BY <4>1
      <4>3. g[i] = step[n + 1][f[n]] BY <3>1, <4>1
      <4> QED BY <3>1, <4>2, <4>3
    <3>2. CASE i # n + 1
      <4>1. i \in 1 .. n /\ i \in 0 .. n + 1 /\ i - 1 \in 0 .. n + 1 /\ i - 1 # n + 1 BY <3>2
      <4>2. g[i] = f[i] /\ g[i - 1] = f[i - 1] BY <3>2, <4>1
      <4> QED BY <2>2, <4>1, <4>2
    <3> QED BY <3>1, <3>2
  <2> HIDE DEF g
  <2> QED BY <2>4, <2>5, <2>6
<1> HIDE DEF Ok
<1>3. Nat \subseteq Ok
  BY <1>1, <1>2, InductionOnNat
<1> QED BY <1>3 DEF Ok

\* A loop of N turns stays in what each turn leads to.
LEMMA LoopStays ==
  ASSUME NEW N \in Nat, NEW Q, NEW h, h[0] \in Q[0],
         \A n \in 1 .. N : h[n - 1] \in Q[n - 1] => h[n] \in Q[n]
  PROVE  \A n \in 0 .. N : h[n] \in Q[n]
<1> DEFINE T == {n \in Nat : n <= N => h[n] \in Q[n]}
<1>1. 0 \in T
  OBVIOUS
<1>2. ASSUME NEW n \in Nat, n \in T PROVE n + 1 \in T
  <2> SUFFICES ASSUME n + 1 <= N PROVE h[n + 1] \in Q[n + 1]
    OBVIOUS
  <2>1. n + 1 \in 1 .. N /\ (n + 1) - 1 = n
    OBVIOUS
  <2>2. h[n] \in Q[n]
    BY <1>2
  <2> QED BY <2>1, <2>2
<1> HIDE DEF T
<1>3. Nat \subseteq T
  BY <1>1, <1>2, InductionOnNat
<1> QED BY <1>3 DEF T

\* The states of a loop of N turns that starts with base: step[n] is turn n.
IsLoop(h, N, base, step) ==
  h = [n \in 0 .. N |-> IF n = 0 THEN base ELSE step[n][h[n - 1]]]

\* The turns lead from Q[n - 1] to Q[n].
Leads(N, Q, step) == \A n \in 1 .. N : \A x \in Q[n - 1] : step[n][x] \in Q[n]

Within(h, N, Q) == \A n \in 0 .. N : h[n] \in Q[n]

\* A loop whose turns lead from Q[n - 1] to Q[n], whatever they do elsewhere, has
\* a result: the recursive function of its states exists.
LEMMA LoopWithin ==
  ASSUME NEW N \in Nat, NEW Q, NEW base \in Q[0], NEW step, Leads(N, Q, step)
  PROVE  \E h : IsLoop(h, N, base, step) /\ Within(h, N, Q)
<1> USE DEF Leads
<1> DEFINE Upto(n, h) ==
             /\ h = [i \in 0 .. n |-> IF i = 0 THEN base ELSE step[i][h[i - 1]]]
             /\ \A i \in 0 .. n : h[i] \in Q[i]
           Done == {n \in Nat : n <= N => \E h : Upto(n, h)}
<1>1. 0 \in Done
  <2> DEFINE h == [i \in 0 .. 0 |-> base]
  <2>1. \A i \in 0 .. 0 : i = 0
    OBVIOUS
  <2>2. h = [i \in 0 .. 0 |-> IF i = 0 THEN base ELSE step[i][h[i - 1]]]
    BY <2>1
  <2>3. \A i \in 0 .. 0 : h[i] \in Q[i]
    BY <2>1
  <2> HIDE DEF h
  <2>4. Upto(0, h)
    BY <2>2, <2>3
  <2> QED BY <2>4
<1>2. ASSUME NEW n \in Nat, n \in Done PROVE n + 1 \in Done
  <2>1. SUFFICES ASSUME n + 1 <= N PROVE \E h : Upto(n + 1, h)
    OBVIOUS
  <2>2. PICK h : Upto(n, h)
    BY <1>2, <2>1
  <2> DEFINE g == [i \in 0 .. n + 1 |-> IF i = n + 1 THEN step[n + 1][h[n]] ELSE h[i]]
  <2>3. n + 1 \in 1 .. N /\ (n + 1) - 1 = n /\ n \in 0 .. n /\ n + 1 \in 0 .. n + 1
    BY <2>1
  <2>4. g[n + 1] = step[n + 1][h[n]] /\ g[n + 1] \in Q[n + 1]
    <3>1. h[n] \in Q[n] BY <2>2, <2>3
    <3>2. step[n + 1][h[n]] \in Q[n + 1] BY <2>3, <3>1
    <3> QED BY <2>3, <3>2
  <2>5. \A i \in 0 .. n : g[i] = h[i] /\ i \in 0 .. n + 1 /\ i # n + 1
    OBVIOUS
  <2>6. DOMAIN g = 0 .. n + 1 /\ g = [i \in 0 .. n + 1 |-> g[i]]
    OBVIOUS
  <2> HIDE DEF g
  <2>7. ASSUME NEW i \in 0 .. n + 1
        PROVE  g[i] = (IF i = 0 THEN base ELSE step[i][g[i - 1]]) /\ g[i] \in Q[i]
    <3>1. CASE i = n + 1
      <4>1. i # 0 /\ i - 1 = n /\ g[i - 1] = h[n] BY <2>3, <2>5, <3>1
      <4> QED BY <2>4, <3>1, <4>1
    <3>2. CASE i # n + 1
      <4>1. i \in 0 .. n BY <3>2
      <4>2. g[i] = h[i] /\ h[i] \in Q[i] BY <2>2, <2>5, <4>1
      <4>3. h[i] = IF i = 0 THEN base ELSE step[i][h[i - 1]] BY <2>2, <4>1
      <4>4. i # 0 => i - 1 \in 0 .. n BY <4>1
      <4>5. i # 0 => g[i - 1] = h[i - 1] BY <2>5, <4>4
      <4> QED BY <4>2, <4>3, <4>5
    <3> QED BY <3>1, <3>2
  <2>8. g = [i \in 0 .. n + 1 |-> IF i = 0 THEN base ELSE step[i][g[i - 1]]]
    BY <2>6, <2>7
  <2>9. Upto(n + 1, g)
    BY <2>7, <2>8
  <2> QED BY <2>9
<1> HIDE DEF Done
<1>3. Nat \subseteq Done
  BY <1>1, <1>2, InductionOnNat
<1> QED BY <1>3 DEF Done, IsLoop, Within

=============================================================================
