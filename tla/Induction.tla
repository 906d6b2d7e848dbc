----------------------------- MODULE Induction ------------------------------
(***************************************************************************)
(* Induction over the natural numbers, stated with sets: the set of the    *)
(* numbers that have a property takes the place of the property, so that   *)
(* a fact about a recursive definition follows by citing a theorem.        *)
(***************************************************************************)
EXTENDS Naturals, FiniteSetTheorems, WellFoundedInduction, TLAPS

\* A set of natural numbers with a member has a least one: initial segments of
\* the numbers are finite, and finite sets are well-founded by inclusion.
THEOREM LeastMember ==
    ASSUME NEW T \in SUBSET Nat, T # {}
    PROVE  \E n \in T : \A m \in T : n <= m
<1> DEFINE D == {0..n : n \in T}
           R == StrictSubsetOrdering(Nat)
<1>1. IsWellFoundedOn(R, FiniteSubsetsOf(Nat))
  BY FS_StrictSubsetOrderingWellFounded
<1>2. D \subseteq FiniteSubsetsOf(Nat)
  <2>1. ASSUME NEW n \in T PROVE IsFiniteSet(0..n) /\ 0..n \in SUBSET Nat
    BY FS_Interval
  <2> QED
    BY <2>1 DEF FiniteSubsetsOf
<1>3. D # {}
  OBVIOUS
<1>4. PICK x \in D : \A y \in D : <<y, x>> \notin R
  <2> HIDE DEF D, R
  <2> QED
    BY <1>1, <1>2, <1>3, WFMin
<1>5. PICK n \in T : x = 0..n
  OBVIOUS
<1>6. ASSUME NEW m \in T, ~(n <= m) PROVE FALSE
  <2>1. 0..m \subseteq 0..n /\ n \in 0..n /\ n \notin 0..m
    BY <1>6
  <2>2. 0..m # 0..n /\ 0..m \in SUBSET Nat /\ 0..n \in SUBSET Nat
    BY <2>1
  <2>3. <<0..m, 0..n>> \in R
    BY <2>1, <2>2 DEF StrictSubsetOrdering
  <2> QED
    BY <1>4, <1>5, <2>3
<1> QED
  BY <1>6

\* Induction: a set with 0 that is closed under successor has every number.
THEOREM SetInduction ==
    ASSUME NEW S, 0 \in S, \A n \in Nat : n \in S => n + 1 \in S
    PROVE  Nat \subseteq S
<1> DEFINE T == Nat \ S
<1> SUFFICES ASSUME T # {} PROVE FALSE
  OBVIOUS
<1>1. PICK n \in T : \A m \in T : n <= m
  <2>1. T \in SUBSET Nat
    OBVIOUS
  <2> HIDE DEF T
  <2> QED
    BY <2>1, LeastMember
<1>2. n # 0 /\ n \in Nat /\ n - 1 \in Nat /\ n - 1 \notin T /\ n = (n - 1) + 1
  BY <1>1
<1> QED
  BY <1>1, <1>2

\* A bounded set of natural numbers with a member has a greatest one.
THEOREM GreatestMember ==
    ASSUME NEW n \in Nat, NEW T \in SUBSET (0..n), T # {}
    PROVE  \E m \in T : \A k \in T : m >= k
<1> DEFINE D == {n - k : k \in T}
<1>1. D \in SUBSET Nat /\ D # {}
  <2>1. \A k \in T : n - k \in Nat
    OBVIOUS
  <2>2. D \subseteq Nat
    BY <2>1
  <2> QED
    BY <2>2
<1>2. PICK d \in D : \A e \in D : d <= e
  <2> HIDE DEF D
  <2> QED
    BY <1>1, LeastMember
<1>3. PICK m \in T : d = n - m
  OBVIOUS
<1>4. ASSUME NEW k \in T PROVE m >= k
  <2>1. n - k \in D /\ m \in Nat /\ k \in Nat
    OBVIOUS
  <2> HIDE DEF D
  <2>2. n - m <= n - k
    BY <1>2, <1>3, <2>1
  <2> QED
    BY <2>1, <2>2
<1> QED
  BY <1>4

\* A fold: f[0] is z, and each element is a step from the one before.  Such a
\* function exists.
FollowsFold(f, M, z, step) == f = [n \in 0..M |-> IF n = 0 THEN z ELSE step[n][f[n - 1]]]

\* A recursion over 1..M whose steps stay in T has a function that follows it.
THEOREM FoldRecursion ==
    ASSUME NEW M \in Nat, NEW T, NEW z \in T, NEW step,
           \A n \in 1..M : \A t \in T : step[n][t] \in T
    PROVE  \E f \in [0..M -> T] : FollowsFold(f, M, z, step)
<1> DEFINE Row(g, n) == IF n = 0 THEN z ELSE step[n][g[n - 1]]
           S == {m \in Nat : m <= M => \E f \in [0..m -> T] : f = [n \in 0..m |-> Row(f, n)]}
<1>1. 0 \in S
  <2>1. \A g : Row(g, 0) = z
    OBVIOUS
  <2> HIDE DEF Row
  <2> DEFINE f == [n \in 0..0 |-> z]
  <2>2. f \in [0..0 -> T] /\ f = [n \in 0..0 |-> Row(f, n)]
    BY <2>1
  <2> HIDE DEF f
  <2> QED
    BY <2>2
<1>2. ASSUME NEW m \in Nat, m \in S PROVE m + 1 \in S
  <2> SUFFICES ASSUME m + 1 <= M
               PROVE  \E g \in [0..(m + 1) -> T] : g = [n \in 0..(m + 1) |-> Row(g, n)]
    OBVIOUS
  <2>1. PICK f \in [0..m -> T] : f = [n \in 0..m |-> Row(f, n)]
    BY <1>2
  <2> DEFINE g == [n \in 0..(m + 1) |-> IF n = m + 1 THEN step[m + 1][f[m]] ELSE f[n]]
  <2>2. step[m + 1][f[m]] \in T
    BY <2>1
  <2>3. g \in [0..(m + 1) -> T]
    BY <2>1, <2>2
  <2>4. \A n \in 0..m : g[n] = f[n]
    OBVIOUS
  <2>5. g[m + 1] = step[m + 1][f[m]]
    OBVIOUS
  <2>6. DOMAIN g = 0..(m + 1)
    OBVIOUS
  <2> HIDE DEF g
  <2>7. ASSUME NEW n \in 0..(m + 1) PROVE g[n] = Row(g, n)
    <3>1. CASE n = m + 1
      BY <2>4, <2>5, <3>1
    <3>2. CASE n # m + 1
      <4>1. n \in 0..m /\ (n # 0 => n - 1 \in 0..m)
        BY <3>2
      <4>2. f[n] = Row(f, n)
        <5> HIDE DEF Row
        <5> QED
          BY <2>1, <4>1
      <4> QED
        BY <2>4, <4>1, <4>2
    <3> QED
      BY <3>1, <3>2
  <2> HIDE DEF Row
  <2>8. g = [n \in 0..(m + 1) |-> Row(g, n)]
    BY <2>3, <2>7
  <2> QED
    BY <2>3, <2>8
<1>3. M \in S
  <2> HIDE DEF S
  <2> QED
    BY <1>1, <1>2, SetInduction
<1> QED
  BY <1>3 DEF FollowsFold

\* f is defined by recursion on the length of a chain: at length 0 it is z, and
\* elsewhere r where the chain stops or, where it goes on, what the rest of the
\* chain comes to.
FollowsChain(f, M, T, z, stop, r, next) ==
    f = [n \in 0..M |-> [t \in T |->
            IF n = 0 THEN z[t] ELSE IF stop[t] THEN r[t] ELSE f[n - 1][next[t]]]]

\* Such a function exists.
THEOREM ChainRecursion ==
    ASSUME NEW M \in Nat, NEW T, NEW z, NEW stop, NEW r, NEW next,
           \A t \in T : ~stop[t] => next[t] \in T
    PROVE  \E f : FollowsChain(f, M, T, z, stop, r, next)
<1> DEFINE Row(g, n) == [t \in T |->
               IF n = 0 THEN z[t] ELSE IF stop[t] THEN r[t] ELSE g[n - 1][next[t]]]
           S == {m \in Nat : \E f : f = [n \in 0..m |-> Row(f, n)]}
<1>1. 0 \in S
  <2>1. ASSUME NEW g, NEW h PROVE Row(g, 0) = Row(h, 0)
    OBVIOUS
  <2> HIDE DEF Row
  <2>2. [n \in 0..0 |-> Row(z, 0)] = [n \in 0..0 |-> Row([i \in 0..0 |-> Row(z, 0)], n)]
    BY <2>1
  <2> QED
    BY <2>2
<1>2. ASSUME NEW m \in Nat, m \in S PROVE m + 1 \in S
  <2>1. PICK f : f = [n \in 0..m |-> Row(f, n)]
    BY <1>2
  <2> DEFINE g == [n \in 0..(m + 1) |-> IF n = m + 1 THEN Row(f, m + 1) ELSE f[n]]
  <2>2. ASSUME NEW n \in 0..(m + 1) PROVE Row(g, n) = Row(f, n)
    <3>1. n # 0 => n - 1 \in 0..m /\ n - 1 # m + 1 /\ n - 1 \in 0..(m + 1)
      OBVIOUS
    <3>2. n # 0 => g[n - 1] = f[n - 1]
      BY <3>1
    <3> HIDE DEF g
    <3> QED
      BY <3>2
  <2> HIDE DEF Row
  <2>3. ASSUME NEW n \in 0..(m + 1) PROVE g[n] = Row(g, n)
    <3>1. CASE n = m + 1
      BY <2>2, <3>1
    <3>2. CASE n # m + 1
      <4>1. n \in 0..m
        BY <3>2
      <4>2. f[n] = Row(f, n)
        BY <2>1, <4>1
      <4> QED
        BY <2>2, <3>2, <4>2
    <3> QED
      BY <3>1, <3>2
  <2>4. g = [n \in 0..(m + 1) |-> Row(g, n)]
    BY <2>3
  <2> HIDE DEF g
  <2> QED
    BY <2>4
<1>3. M \in S
  <2> HIDE DEF S
  <2> QED
    BY <1>1, <1>2, SetInduction
<1> QED
  BY <1>3 DEF FollowsChain
=============================================================================
