---------------------------- MODULE PacingProof -----------------------------
(***************************************************************************)
(* The paced collector implements the collector of Arena, in which a call  *)
(* may stop at any test for debt: pacing decides when work is done, never  *)
(* whether it is safe.  What ArenaProof shows of every behaviour of Arena  *)
(* thereby holds of the composition with the counters, for any sizes, any  *)
(* factors, and also where the counters wrap around.                       *)
(*                                                                         *)
(* Then what the counters add up to: sums over the boxes, the ledger of    *)
(* PacingInv, and from them that collect_debt pays and that no cycle has   *)
(* credit for more than its boxes are worth.                               *)
(***************************************************************************)
EXTENDS PacingInv, ArenaProof, Induction

\* One pass of do_collection's loop, with its counters and its test for debt,
\* is a step of Arena's collector.
LEMMA PacedCollectorStep == PacedCollector => Collector
<1>1. ASSUME WorkStep PROVE Collector
  <2>1. CASE MarkRoot(root_strong, root_weak, FALSE)
    BY <2>1 DEF Collector
  <2> QED
    BY <1>1, <2>1 DEF WorkStep, Collector
<1>2. ASSUME PanicStep PROVE Collector
  <2>1. ASSUME NEW S \in SUBSET root_strong, NEW W \in SUBSET root_weak, MarkRoot(S, W, TRUE)
        PROVE  Collector
    BY <2>1 DEF Collector
  <2> QED
    BY <1>2, <2>1 DEF PanicStep, Collector
<1> QED
  BY <1>1, <1>2
  DEF PacedCollector, PacedLoop, PacedStopAtSweep, PacedEndMark, PacedEndSweep, Collector

\* Every step of the composition is a step of Arena or changes only counters.
LEMMA PacedStep == [PacedNext]_paced_vars => [Next]_vars
<1>1. ASSUME PacedNext PROVE [Next]_vars
  <2>1. CASE PacedMutator
    BY <2>1 DEF PacedMutator, Next
  <2>2. CASE PacedRequest
    BY <2>2 DEF PacedRequest, Next
  <2>3. CASE PacedCollector
    BY <2>3, PacedCollectorStep DEF Next
  <2>4. CASE External
    BY <2>4 DEF External
  <2>5. CASE (DropArena \/ DropBox) /\ Counted
    BY <2>5 DEF Next
  <2> QED
    BY <1>1, <2>1, <2>2, <2>3, <2>4, <2>5 DEF PacedNext
<1>2. ASSUME UNCHANGED paced_vars PROVE UNCHANGED vars
  BY <1>2 DEF paced_vars
<1> QED
  BY <1>1, <1>2

\* The collector with its pacing implements the collector without: no choice
\* the counters of Metrics make is one that Arena does not allow.
THEOREM PacedImplementsArena == PacedSpec => Spec
<1>1. PacedInit => Init
  BY DEF PacedInit
<1> QED
  BY <1>1, PacedStep, PTL DEF PacedSpec, Spec

\* The inductive invariant of the collector holds under pacing.
THEOREM PacedInvariance == PacedSpec => []IInv
BY PacedImplementsArena, Invariance, PTL

\* Nothing the program can reach is freed, whatever the pacing is and whatever
\* the counters hold.
THEOREM PacedNoDangling == PacedSpec => []NoDangling
BY PacedImplementsArena, NoDanglingPointers, PTL

\* When mark_debt or finish_marking returns a MarkedArena, marking is complete,
\* however the debt was paid in between.
THEOREM PacedMarkingIsComplete == PacedSpec => []MarkedIsComplete
BY PacedImplementsArena, MarkingIsComplete, PTL

-----------------------------------------------------------------------------
(* Sums over the boxes                                                     *)

Adds(s, f) == /\ s \in [0..MaxBox -> Int] /\ s[0] = 0
              /\ \A b \in Box : s[b] = s[b - 1] + f[b]

\* The sum that Total takes is there, and adds one box after the other.
LEMMA TotalAdds ==
  ASSUME NEW f \in [Box -> Int]
  PROVE  \E s : Adds(s, f) /\ Total(f) = s[MaxBox]
<1> DEFINE step == [b \in Box |-> [t \in Int |-> t + f[b]]]
           Row(g, b) == IF b = 0 THEN 0 ELSE g[b - 1] + f[b]
<1>1. \A b \in 1..MaxBox : \A t \in Int : step[b][t] \in Int /\ step[b][t] = t + f[b]
  BY DEF Box
<1> HIDE DEF step
<1>2. PICK s \in [0..MaxBox -> Int] : s = [b \in 0..MaxBox |-> IF b = 0 THEN 0 ELSE step[b][s[b - 1]]]
  <2>1. \E s \in [0..MaxBox -> Int] : FollowsFold(s, MaxBox, 0, step)
    <3>1. 0 \in Int /\ MaxBox \in Nat
      BY MaxBoxAssumption
    <3> QED
      BY <1>1, <3>1, FoldRecursion, Zenon
  <2> QED
    BY <2>1, Zenon DEF FollowsFold
<1>3. \A b \in 0..MaxBox : s[b] = Row(s, b)
  <2> SUFFICES ASSUME NEW b \in 0..MaxBox PROVE s[b] = Row(s, b)
    OBVIOUS
  <2>1. CASE b = 0
    BY <1>2, <2>1
  <2>2. CASE b # 0
    <3>1. b \in 1..MaxBox /\ b - 1 \in 0..MaxBox
      BY MaxBoxAssumption, <2>2
    <3>2. s[b - 1] \in Int /\ s[b] = step[b][s[b - 1]]
      BY <1>2, <2>2, <3>1
    <3> QED
      BY <1>1, <2>2, <3>1, <3>2
  <2> QED
    BY <2>1, <2>2
<1>4. s = [b \in 0..MaxBox |-> Row(s, b)]
  <2> HIDE DEF Row
  <2> QED
    BY <1>2, <1>3
<1>5. ASSUME NEW g, g = [b \in 0..MaxBox |-> Row(g, b)] PROVE g = s
  <2> DEFINE S == {n \in Nat : n <= MaxBox => g[n] = s[n]}
  <2>1. \A b \in 0..MaxBox : g[b] = Row(g, b) /\ s[b] = Row(s, b)
    <3> HIDE DEF Row
    <3> QED
      BY <1>4, <1>5, Zenon
  <2>2. 0 \in S
    <3>1. Row(g, 0) = 0 /\ Row(s, 0) = 0 /\ 0 \in 0..MaxBox
      BY MaxBoxAssumption
    <3> HIDE DEF Row
    <3> QED
      BY <2>1, <3>1
  <2>3. ASSUME NEW n \in Nat, n \in S PROVE n + 1 \in S
    <3> SUFFICES ASSUME n + 1 <= MaxBox PROVE g[n + 1] = s[n + 1]
      OBVIOUS
    <3>1. n + 1 \in 0..MaxBox /\ (n + 1) - 1 = n /\ g[n] = s[n] /\ n + 1 # 0
      BY MaxBoxAssumption, <2>3
    <3>2. Row(g, n + 1) = Row(s, n + 1)
      BY <3>1, Zenon
    <3> QED
      BY <2>1, <3>1, <3>2
  <2>4. Nat \subseteq S
    <3> HIDE DEF S
    <3> QED
      BY <2>2, <2>3, SetInduction
  <2>5. \A b \in 0..MaxBox : g[b] = s[b]
    BY MaxBoxAssumption, <2>4
  <2> HIDE DEF Row
  <2>6. DOMAIN g = 0..MaxBox /\ DOMAIN s = 0..MaxBox
        /\ g = [b \in 0..MaxBox |-> g[b]] /\ s = [b \in 0..MaxBox |-> s[b]]
    BY <1>2, <1>5
  <2> QED
    BY <2>5, <2>6
<1>6. Total(f) = s[MaxBox]
  <2>1. s = CHOOSE g : g = [b \in 0..MaxBox |-> Row(g, b)]
    BY <1>4, <1>5, Zenon
  <2> QED
    BY <2>1, Zenon DEF Total
<1>7. Adds(s, f)
  <2>1. s[0] = 0
    BY <1>3, MaxBoxAssumption
  <2>2. \A b \in Box : s[b] = s[b - 1] + f[b]
    BY <1>3, MaxBoxAssumption DEF Box
  <2> QED
    BY <1>2, <2>1, <2>2 DEF Adds
<1> QED
  BY <1>6, <1>7

\* Sums are whole numbers.
LEMMA TotalType == ASSUME NEW f \in [Box -> Int] PROVE Total(f) \in Int
<1>1. PICK s : Adds(s, f) /\ Total(f) = s[MaxBox]
  BY TotalAdds, Zenon
<1> QED
  BY <1>1, MaxBoxAssumption DEF Adds

\* What relates two functions at every box relates their sums.
LEMMA TotalMono ==
  ASSUME NEW f \in [Box -> Int], NEW g \in [Box -> Int], \A b \in Box : f[b] <= g[b]
  PROVE  Total(f) <= Total(g)
<1>1. PICK s : Adds(s, f) /\ Total(f) = s[MaxBox]
  BY TotalAdds, Zenon
<1>2. PICK t : Adds(t, g) /\ Total(g) = t[MaxBox]
  BY TotalAdds, Zenon
<1> DEFINE S == {n \in Nat : n <= MaxBox => s[n] <= t[n]}
<1>3. 0 \in S
  BY <1>1, <1>2 DEF Adds
<1>4. ASSUME NEW n \in Nat, n \in S PROVE n + 1 \in S
  <2> SUFFICES ASSUME n + 1 <= MaxBox PROVE s[n + 1] <= t[n + 1]
    OBVIOUS
  <2>1. n + 1 \in Box /\ n \in 0..MaxBox /\ n + 1 \in 0..MaxBox /\ (n + 1) - 1 = n
    BY MaxBoxAssumption DEF Box
  <2>2. s[n] <= t[n]
    BY <1>4, <2>1
  <2>3. /\ s[n + 1] = s[n] + f[n + 1] /\ t[n + 1] = t[n] + g[n + 1]
        /\ s[n] \in Int /\ t[n] \in Int /\ f[n + 1] \in Int /\ g[n + 1] \in Int
        /\ f[n + 1] <= g[n + 1]
    BY <1>1, <1>2, <2>1 DEF Adds
  <2> QED
    BY <2>2, <2>3
<1>5. Nat \subseteq S
  <2> HIDE DEF S
  <2> QED
    BY <1>3, <1>4, SetInduction
<1> QED
  BY <1>1, <1>2, <1>5, MaxBoxAssumption

\* The sum of sums.
LEMMA TotalPlus ==
  ASSUME NEW f \in [Box -> Int], NEW g \in [Box -> Int], NEW h \in [Box -> Int],
         \A b \in Box : h[b] = f[b] + g[b]
  PROVE  Total(h) = Total(f) + Total(g)
<1>1. PICK s : Adds(s, f) /\ Total(f) = s[MaxBox]
  BY TotalAdds, Zenon
<1>2. PICK t : Adds(t, g) /\ Total(g) = t[MaxBox]
  BY TotalAdds, Zenon
<1>3. PICK u : Adds(u, h) /\ Total(h) = u[MaxBox]
  BY TotalAdds, Zenon
<1> DEFINE S == {n \in Nat : n <= MaxBox => u[n] = s[n] + t[n]}
<1>4. 0 \in S
  BY <1>1, <1>2, <1>3 DEF Adds
<1>5. ASSUME NEW n \in Nat, n \in S PROVE n + 1 \in S
  <2> SUFFICES ASSUME n + 1 <= MaxBox PROVE u[n + 1] = s[n + 1] + t[n + 1]
    OBVIOUS
  <2>1. n + 1 \in Box /\ n \in 0..MaxBox /\ (n + 1) - 1 = n
    BY MaxBoxAssumption DEF Box
  <2>2. u[n] = s[n] + t[n]
    BY <1>5, <2>1
  <2>3. /\ s[n + 1] = s[n] + f[n + 1] /\ t[n + 1] = t[n] + g[n + 1]
        /\ u[n + 1] = u[n] + h[n + 1] /\ h[n + 1] = f[n + 1] + g[n + 1]
        /\ s[n] \in Int /\ t[n] \in Int /\ f[n + 1] \in Int /\ g[n + 1] \in Int
    BY <1>1, <1>2, <1>3, <2>1 DEF Adds
  <2> QED
    BY <2>2, <2>3
<1>6. Nat \subseteq S
  <2> HIDE DEF S
  <2> QED
    BY <1>4, <1>5, SetInduction
<1> QED
  BY <1>1, <1>2, <1>3, <1>6, MaxBoxAssumption

\* Multiplication distributes over addition.
LEMMA Distributes == \A k, x, y \in Int : k * (x + y) = k * x + k * y /\ k * x \in Int
OBVIOUS

\* The sum of multiples.
LEMMA TotalTimes ==
  ASSUME NEW k \in Int, NEW f \in [Box -> Int], NEW h \in [Box -> Int],
         \A b \in Box : h[b] = k * f[b]
  PROVE  Total(h) = k * Total(f)
<1>1. PICK s : Adds(s, f) /\ Total(f) = s[MaxBox]
  BY TotalAdds, Zenon
<1>2. PICK u : Adds(u, h) /\ Total(h) = u[MaxBox]
  BY TotalAdds, Zenon
<1> DEFINE S == {n \in Nat : n <= MaxBox => u[n] = k * s[n]}
<1>3. 0 \in S
  BY <1>1, <1>2 DEF Adds
<1>4. ASSUME NEW n \in Nat, n \in S PROVE n + 1 \in S
  <2> SUFFICES ASSUME n + 1 <= MaxBox PROVE u[n + 1] = k * s[n + 1]
    OBVIOUS
  <2>1. n + 1 \in Box /\ n \in 0..MaxBox /\ (n + 1) - 1 = n
    BY MaxBoxAssumption DEF Box
  <2>2. u[n] = k * s[n]
    BY <1>4, <2>1
  <2>3. /\ s[n + 1] = s[n] + f[n + 1] /\ u[n + 1] = u[n] + h[n + 1] /\ h[n + 1] = k * f[n + 1]
        /\ s[n] \in Int /\ f[n + 1] \in Int
    BY <1>1, <1>2, <2>1 DEF Adds
  <2>4. k * (s[n] + f[n + 1]) = k * s[n] + k * f[n + 1]
    BY <2>3, Distributes
  <2> QED
    BY <2>2, <2>3, <2>4
<1>5. Nat \subseteq S
  <2> HIDE DEF S
  <2> QED
    BY <1>3, <1>4, SetInduction
<1> QED
  BY <1>1, <1>2, <1>5, MaxBoxAssumption

\* The bytes of the boxes of S, box by box.
WeightIn(S) == [b \in Box |-> IF b \in S THEN Size[b] ELSE 0]

\* Bytes is the sum of these.
LEMMA WeightInType == \A S : WeightIn(S) \in [Box -> Nat] /\ Bytes(S) = Total(WeightIn(S))
BY SizeAssumption DEF WeightIn, Bytes

\* Bytes are natural numbers.
LEMMA BytesType == \A S : Bytes(S) \in Nat
<1> SUFFICES ASSUME NEW S PROVE Bytes(S) \in Nat
  OBVIOUS
<1> DEFINE w == WeightIn(S)
           z == [b \in Box |-> 0]
<1>1. w \in [Box -> Int] /\ z \in [Box -> Int] /\ \A b \in Box : z[b] = 0 /\ z[b] <= w[b]
  BY WeightInType
<1>2. Total(z) = 0 * Total(w)
  <2>1. \A b \in Box : z[b] = 0 * w[b]
    BY <1>1
  <2> HIDE DEF w, z
  <2> QED
    BY <1>1, <2>1, TotalTimes
<1>3. Total(z) <= Total(w)
  <2> HIDE DEF w, z
  <2> QED
    BY <1>1, TotalMono
<1>4. Total(w) \in Int /\ Total(z) \in Int
  <2> HIDE DEF w, z
  <2> QED
    BY <1>1, TotalType
<1> QED
  BY <1>2, <1>3, <1>4, WeightInType

\* The empty set has no bytes.
LEMMA BytesEmpty == Bytes({}) = 0
<1> DEFINE w == WeightIn({})
<1>1. w \in [Box -> Int] /\ \A b \in Box : w[b] = 0 * w[b]
  BY DEF WeightIn
<1>2. Total(w) = 0 * Total(w) /\ Total(w) \in Int
  <2> HIDE DEF w
  <2> QED
    BY <1>1, TotalTimes, TotalType
<1> QED
  BY <1>2, WeightInType

\* What is counted apart adds up.
LEMMA BytesUnion ==
  ASSUME NEW S, NEW T, S \cap T = {}
  PROVE  Bytes(S \cup T) = Bytes(S) + Bytes(T)
<1> DEFINE u == WeightIn(S \cup T)
           s == WeightIn(S)
           t == WeightIn(T)
<1>1. /\ u \in [Box -> Int] /\ s \in [Box -> Int] /\ t \in [Box -> Int]
      /\ Bytes(S \cup T) = Total(u) /\ Bytes(S) = Total(s) /\ Bytes(T) = Total(t)
  BY WeightInType
<1>2. \A b \in Box : u[b] = s[b] + t[b]
  BY SizeAssumption DEF WeightIn
<1>3. Total(u) = Total(s) + Total(t)
  <2> HIDE DEF u, s, t
  <2> QED
    BY <1>1, <1>2, TotalPlus
<1> QED
  BY <1>1, <1>3

\* What is taken away is subtracted.
LEMMA BytesMinus ==
  ASSUME NEW S, NEW T, T \subseteq S
  PROVE  Bytes(S \ T) = Bytes(S) - Bytes(T)
<1>1. (S \ T) \cap T = {} /\ (S \ T) \cup T = S
  OBVIOUS
<1>2. Bytes(S) = Bytes(S \ T) + Bytes(T)
  BY <1>1, BytesUnion
<1> QED
  BY <1>2, BytesType

\* More boxes have more bytes.
LEMMA BytesMono ==
  ASSUME NEW S, NEW T, T \subseteq S
  PROVE  Bytes(T) <= Bytes(S)
<1>1. Bytes(S \ T) = Bytes(S) - Bytes(T)
  BY BytesMinus
<1> QED
  BY <1>1, BytesType

\* A larger factor makes a larger product.
LEMMA TimesMono == \A x \in Nat : \A k, l \in Int : k <= l => k * x <= l * x
OBVIOUS

\* The part of a number above zero.
LEMMA MaxZero == \A x \in Int : Max({0, x}) = IF x > 0 THEN x ELSE 0
BY DEF Max

\* The greater of two numbers.
LEMMA MaxPair == \A x, y \in Int : Max({x, y}) = IF x > y THEN x ELSE y
BY DEF Max

\* The greatest of three numbers.
LEMMA MaxTriple ==
  ASSUME NEW x \in Int, NEW y \in Int, NEW z \in Int
  PROVE  /\ Max({x, y, z}) \in Int
         /\ x <= Max({x, y, z}) /\ y <= Max({x, y, z}) /\ z <= Max({x, y, z})
<1>1. \E m \in {x, y, z} : \A n \in {x, y, z} : m >= n
  <2>1. CASE x >= y /\ x >= z
    BY <2>1
  <2>2. CASE y >= x /\ y >= z
    BY <2>2
  <2>3. CASE z >= x /\ z >= y
    BY <2>3
  <2> QED
    BY <2>1, <2>2, <2>3
<1>2. Max({x, y, z}) \in {x, y, z} /\ \A n \in {x, y, z} : Max({x, y, z}) >= n
  BY <1>1 DEF Max
<1> QED
  BY <1>2

\* Numbers that fit a word do not wrap.
LEMMA NoWrap == \A x \in Nat : x < Word => x % Word = x
BY WordAssumption

-----------------------------------------------------------------------------
(* The work a cycle is credited for                                        *)

\* The factors are natural numbers, and no path weighs more than PathWork.
LEMMA PathWorkBounds ==
  /\ pacing.mark_factor \in Nat /\ pacing.trace_factor \in Nat /\ pacing.keep_factor \in Nat
  /\ pacing.drop_factor \in Nat /\ pacing.free_factor \in Nat
  /\ PathWork(pacing) \in Int
  /\ pacing.mark_factor + pacing.trace_factor + pacing.keep_factor <= PathWork(pacing)
  /\ pacing.drop_factor + pacing.free_factor <= PathWork(pacing)
  /\ pacing.mark_factor + pacing.drop_factor + pacing.keep_factor <= PathWork(pacing)
<1> DEFINE x == pacing.mark_factor + pacing.trace_factor + pacing.keep_factor
           y == pacing.drop_factor + pacing.free_factor
           z == pacing.mark_factor + pacing.drop_factor + pacing.keep_factor
<1>1. /\ pacing.mark_factor \in Nat /\ pacing.trace_factor \in Nat /\ pacing.keep_factor \in Nat
      /\ pacing.drop_factor \in Nat /\ pacing.free_factor \in Nat
  BY PacingAssumption DEF Pacings
<1>2. x \in Int /\ y \in Int /\ z \in Int /\ PathWork(pacing) = Max({x, y, z})
  BY <1>1 DEF PathWork
<1>3. PathWork(pacing) \in Int /\ x <= PathWork(pacing) /\ y <= PathWork(pacing) /\ z <= PathWork(pacing)
  <2> HIDE DEF x, y, z
  <2>1. /\ Max({x, y, z}) \in Int
        /\ x <= Max({x, y, z}) /\ y <= Max({x, y, z}) /\ z <= Max({x, y, z})
    BY <1>2, MaxTriple, Zenon
  <2> QED
    BY <1>2, <2>1
<1> QED
  BY <1>1, <1>3

\* What the work on the boxes of a cycle is worth, where each box takes a path.
LEMMA CreditsBounded ==
  ASSUME NEW A, NEW M \in SUBSET A, NEW T \in SUBSET A, NEW R \in SUBSET A,
         NEW F, F \cap A = {}, NEW D \in SUBSET (A \cup F), D \cap T = {}
  PROVE  Bytes(M) * pacing.mark_factor + Bytes(T) * pacing.trace_factor
           + Bytes(R) * pacing.keep_factor + Bytes(D) * pacing.drop_factor
           + Bytes(F) * pacing.free_factor
         <= PathWork(pacing) * (Bytes(A) + Bytes(F))
<1> DEFINE m == pacing.mark_factor
           t == pacing.trace_factor
           k == pacing.keep_factor
           d == pacing.drop_factor
           f == pacing.free_factor
           p == PathWork(pacing)
           In(b, S) == IF b \in S THEN Size[b] ELSE 0
           times(c, S) == [b \in Box |-> c * In(b, S)]
           mt == [b \in Box |-> m * In(b, M) + t * In(b, T)]
           mtk == [b \in Box |-> mt[b] + k * In(b, R)]
           mtkd == [b \in Box |-> mtk[b] + d * In(b, D)]
           mtkdf == [b \in Box |-> mtkd[b] + f * In(b, F)]
<1>0. /\ m \in Nat /\ t \in Nat /\ k \in Nat /\ d \in Nat /\ f \in Nat /\ p \in Int
      /\ m + t + k <= p /\ d + f <= p /\ m + d + k <= p
  BY PathWorkBounds
<1> HIDE DEF m, t, k, d, f, p
<1>1. \A b \in Box : \A S : In(b, S) \in Nat
  BY SizeAssumption
<1>2. \A c, x \in Nat : c * x \in Nat
  OBVIOUS
<1>3. \A b \in Box : \A S : \A c \in Nat : c * In(b, S) \in Nat
  <2> HIDE DEF In
  <2> QED
    BY <1>1, <1>2
<1>4. \A c \in Nat : \A S : times(c, S) \in [Box -> Int] /\ Total(times(c, S)) = c * Bytes(S)
  <2> SUFFICES ASSUME NEW c \in Nat, NEW S
               PROVE  times(c, S) \in [Box -> Int] /\ Total(times(c, S)) = c * Bytes(S)
    OBVIOUS
  <2>1. WeightIn(S) \in [Box -> Int] /\ Bytes(S) = Total(WeightIn(S))
    BY WeightInType
  <2>2. times(c, S) \in [Box -> Int] /\ \A b \in Box : times(c, S)[b] = c * WeightIn(S)[b]
    <3>1. \A b \in Box : WeightIn(S)[b] = In(b, S)
      BY DEF WeightIn
    <3> HIDE DEF In
    <3>2. \A b \in Box : c * In(b, S) \in Int
      BY <1>3
    <3> QED
      BY <3>1, <3>2
  <2> HIDE DEF times
  <2> QED
    BY <2>1, <2>2, TotalTimes
<1>5. /\ mt \in [Box -> Int] /\ mtk \in [Box -> Int] /\ mtkd \in [Box -> Int]
      /\ mtkdf \in [Box -> Int]
  <2> HIDE DEF In
  <2>1. \A b \in Box : \A S : /\ m * In(b, S) \in Int /\ t * In(b, S) \in Int /\ k * In(b, S) \in Int
                          /\ d * In(b, S) \in Int /\ f * In(b, S) \in Int
    BY <1>0, <1>3
  <2>2. mt \in [Box -> Int]
    BY <2>1
  <2>3. mtk \in [Box -> Int]
    <3> HIDE DEF mt
    <3> QED
      BY <2>1, <2>2
  <2>4. mtkd \in [Box -> Int]
    <3> HIDE DEF mtk
    <3> QED
      BY <2>1, <2>3
  <2>5. mtkdf \in [Box -> Int]
    <3> HIDE DEF mtkd
    <3> QED
      BY <2>1, <2>4
  <2> QED
    BY <2>2, <2>3, <2>4, <2>5
<1>6. \A b \in Box :
        /\ mt[b] = times(m, M)[b] + times(t, T)[b]
        /\ mtk[b] = mt[b] + times(k, R)[b]
        /\ mtkd[b] = mtk[b] + times(d, D)[b]
        /\ mtkdf[b] = mtkd[b] + times(f, F)[b]
        /\ mtkdf[b] = m * In(b, M) + t * In(b, T) + k * In(b, R) + d * In(b, D) + f * In(b, F)
  <2> HIDE DEF In
  <2> QED
    OBVIOUS
<1>7. \A b \in Box : mtkdf[b] <= p * In(b, A \cup F)
  <2> SUFFICES ASSUME NEW b \in Box PROVE mtkdf[b] <= p * In(b, A \cup F)
    OBVIOUS
  <2> DEFINE s == Size[b]
  <2>1. s \in Nat /\ \A c \in Nat : c * 0 = 0 /\ 0 <= c * s /\ c * s \in Nat
    BY SizeAssumption
  <2>2. mtkdf[b] = m * In(b, M) + t * In(b, T) + k * In(b, R) + d * In(b, D) + f * In(b, F)
    BY <1>6
  <2>3. \A c \in Nat : \A S :
          /\ c * In(b, S) \in Nat /\ c * In(b, S) <= c * s
          /\ b \notin S => c * In(b, S) = 0
          /\ b \in S => c * In(b, S) = c * s
    <3>1. \A S : (b \in S /\ In(b, S) = s) \/ (b \notin S /\ In(b, S) = 0)
      OBVIOUS
    <3> HIDE DEF In, s
    <3>2. \A c \in Nat : \A S : c * In(b, S) \in Nat
      BY <1>3
    <3> QED
      BY <2>1, <3>1, <3>2
  <2> DEFINE mM == m * In(b, M)
             tT == t * In(b, T)
             kR == k * In(b, R)
             dD == d * In(b, D)
             fF == f * In(b, F)
             ms == m * s
             ts == t * s
             ks == k * s
             ds == d * s
             fs == f * s
             ps == p * s
  <2>4. /\ mM \in Nat /\ tT \in Nat /\ kR \in Nat /\ dD \in Nat /\ fF \in Nat
        /\ mM <= ms /\ tT <= ts /\ kR <= ks /\ dD <= ds /\ fF <= fs
        /\ (b \notin M => mM = 0) /\ (b \notin T => tT = 0) /\ (b \notin R => kR = 0)
        /\ (b \notin D => dD = 0) /\ (b \notin F => fF = 0)
    <3> HIDE DEF In, s
    <3> QED
      BY <1>0, <2>3
  <2>5. mtkdf[b] = mM + tT + kR + dD + fF
    BY <2>2
  <2>6. ds + fs <= ps /\ ms + ds + ks <= ps /\ ms + ts + ks <= ps
    <3>1. (d + f) * s = ds + fs /\ (m + d + k) * s = ms + ds + ks /\ (m + t + k) * s = ms + ts + ks
      BY <1>0, <2>1
    <3>2. (d + f) * s <= ps
      BY <1>0, <2>1, TimesMono
    <3>3. (m + d + k) * s <= ps
      BY <1>0, <2>1, TimesMono
    <3>4. (m + t + k) * s <= ps
      BY <1>0, <2>1, TimesMono
    <3> QED
      BY <3>1, <3>2, <3>3, <3>4
  <2>7. ms \in Nat /\ ts \in Nat /\ ks \in Nat /\ ds \in Nat /\ fs \in Nat
    BY <1>0, <2>1
  <2>8. ps \in Int
    BY <1>0, <2>1
  <2>9. b \in A \cup F => p * In(b, A \cup F) = ps
    OBVIOUS
  <2>10. CASE b \in F
    <3>1. b \notin M /\ b \notin T /\ b \notin R /\ b \in F /\ b \in A \cup F
      BY <2>10
    <3> HIDE DEF In, s, mtkdf, mM, tT, kR, dD, fF, ms, ts, ks, ds, fs, ps
    <3>2. mtkdf[b] <= ds + fs /\ mtkdf[b] \in Int
      BY <2>4, <2>5, <2>7, <3>1
    <3> QED
      BY <2>6, <2>7, <2>8, <2>9, <3>1, <3>2
  <2>11. CASE b \in D /\ b \notin F
    <3>1. b \in D /\ b \notin T /\ b \notin F /\ b \in A \cup F
      BY <2>11
    <3> HIDE DEF In, s, mtkdf, mM, tT, kR, dD, fF, ms, ts, ks, ds, fs, ps
    <3>2. mtkdf[b] <= ms + ds + ks /\ mtkdf[b] \in Int
      BY <2>4, <2>5, <2>7, <3>1
    <3> QED
      BY <2>6, <2>7, <2>8, <2>9, <3>1, <3>2
  <2>12. CASE b \in A /\ b \notin D /\ b \notin F
    <3>1. b \notin D /\ b \notin F /\ b \in A \cup F
      BY <2>12
    <3> HIDE DEF In, s, mtkdf, mM, tT, kR, dD, fF, ms, ts, ks, ds, fs, ps
    <3>2. mtkdf[b] <= ms + ts + ks /\ mtkdf[b] \in Int
      BY <2>4, <2>5, <2>7, <3>1
    <3> QED
      BY <2>6, <2>7, <2>8, <2>9, <3>1, <3>2
  <2>13. CASE b \notin A \cup F
    <3>1. /\ In(b, M) = 0 /\ In(b, T) = 0 /\ In(b, R) = 0 /\ In(b, F) = 0 /\ In(b, D) = 0
          /\ In(b, A \cup F) = 0
      BY <2>13
    <3>2. p * 0 = 0
      BY <1>0
    <3> HIDE DEF In, s, mtkdf
    <3> QED
      BY <1>0, <2>1, <2>2, <3>1, <3>2
  <2> QED
    BY <2>10, <2>11, <2>12, <2>13
<1>8. WeightIn(A \cup F) \in [Box -> Int] /\ \A b \in Box : WeightIn(A \cup F)[b] = In(b, A \cup F)
  BY WeightInType DEF WeightIn
<1> DEFINE bound == [b \in Box |-> p * In(b, A \cup F)]
<1>9. bound \in [Box -> Int] /\ Total(bound) = p * Bytes(A \cup F)
  <2>1. \A b \in Box : bound[b] = p * WeightIn(A \cup F)[b]
    BY <1>8
  <2>2. bound \in [Box -> Int]
    <3>1. \A b \in Box : p * In(b, A \cup F) \in Int
      <4>1. \A x \in Nat : p * x \in Int
        BY <1>0
      <4> HIDE DEF In
      <4> QED
        BY <1>1, <4>1
    <3> HIDE DEF In
    <3> QED
      BY <3>1
  <2> HIDE DEF bound
  <2> QED
    BY <1>0, <1>8, <2>1, <2>2, TotalTimes, WeightInType
<1>10. \A b \in Box : mtkdf[b] <= bound[b]
  BY <1>7
<1>11. Bytes(A \cup F) = Bytes(A) + Bytes(F)
  BY BytesUnion
<1> HIDE DEF mt, mtk, mtkd, mtkdf, bound, times
<1>12. /\ Total(mt) = m * Bytes(M) + t * Bytes(T)
       /\ Total(mtk) = Total(mt) + k * Bytes(R)
       /\ Total(mtkd) = Total(mtk) + d * Bytes(D)
       /\ Total(mtkdf) = Total(mtkd) + f * Bytes(F)
  <2>1. /\ times(m, M) \in [Box -> Int] /\ Total(times(m, M)) = m * Bytes(M)
        /\ times(t, T) \in [Box -> Int] /\ Total(times(t, T)) = t * Bytes(T)
        /\ times(k, R) \in [Box -> Int] /\ Total(times(k, R)) = k * Bytes(R)
        /\ times(d, D) \in [Box -> Int] /\ Total(times(d, D)) = d * Bytes(D)
        /\ times(f, F) \in [Box -> Int] /\ Total(times(f, F)) = f * Bytes(F)
    BY <1>0, <1>4
  <2>2. Total(mt) = Total(times(m, M)) + Total(times(t, T))
    <3>1. \A b \in Box : mt[b] = times(m, M)[b] + times(t, T)[b]
      BY <1>6
    <3> QED
      BY <1>5, <2>1, <3>1, TotalPlus
  <2>3. Total(mtk) = Total(mt) + Total(times(k, R))
    <3>1. \A b \in Box : mtk[b] = mt[b] + times(k, R)[b]
      BY <1>6
    <3> QED
      BY <1>5, <2>1, <3>1, TotalPlus
  <2>4. Total(mtkd) = Total(mtk) + Total(times(d, D))
    <3>1. \A b \in Box : mtkd[b] = mtk[b] + times(d, D)[b]
      BY <1>6
    <3> QED
      BY <1>5, <2>1, <3>1, TotalPlus
  <2>5. Total(mtkdf) = Total(mtkd) + Total(times(f, F))
    <3>1. \A b \in Box : mtkdf[b] = mtkd[b] + times(f, F)[b]
      BY <1>6
    <3> QED
      BY <1>5, <2>1, <3>1, TotalPlus
  <2> QED
    BY <2>1, <2>2, <2>3, <2>4, <2>5
<1>13. Total(mtkdf) <= Total(bound)
  BY <1>5, <1>9, <1>10, TotalMono
<1>14. \A c, x \in Nat : c * x = x * c
  OBVIOUS
<1>15. /\ m * Bytes(M) = Bytes(M) * m /\ t * Bytes(T) = Bytes(T) * t /\ k * Bytes(R) = Bytes(R) * k
       /\ d * Bytes(D) = Bytes(D) * d /\ f * Bytes(F) = Bytes(F) * f
  BY <1>0, <1>14, BytesType
<1>16. Bytes(M) * m + Bytes(T) * t + Bytes(R) * k + Bytes(D) * d + Bytes(F) * f
       <= p * (Bytes(A) + Bytes(F))
  BY <1>9, <1>11, <1>12, <1>13, <1>15
<1> QED
  BY <1>16 DEF m, t, k, d, f, p

-----------------------------------------------------------------------------
(* The counters are numbers, and the debt is paid.                         *)

\* Debits, credits and debt are numbers.
LEMMA DebtType ==
  ASSUME NEW m \in Counters
  PROVE  /\ cycle_debits(m) \in Int /\ cycle_credits(m) \in Int
         /\ allocation_debt(m) \in Nat
<1>1. cycle_debits(m) \in Int
  <2>1. Max({0, m.total_external_bytes - m.external_bytes_start}) \in Int
    BY MaxZero DEF Counters
  <2> QED
    BY <2>1 DEF cycle_debits, Counters
<1>2. cycle_credits(m) \in Int
  <2>1. /\ m.marked_gc_bytes \in Int /\ m.traced_gc_bytes \in Int /\ m.remembered_gc_bytes \in Int
        /\ m.dropped_gc_bytes \in Int /\ m.freed_gc_bytes \in Int
    BY DEF Counters
  <2>2. \A x \in Int : \A y \in Nat : x * y \in Int
    OBVIOUS
  <2>3. /\ m.marked_gc_bytes * pacing.mark_factor \in Int
        /\ m.traced_gc_bytes * pacing.trace_factor \in Int
        /\ m.remembered_gc_bytes * pacing.keep_factor \in Int
        /\ m.dropped_gc_bytes * pacing.drop_factor \in Int
        /\ m.freed_gc_bytes * pacing.free_factor \in Int
    BY <2>1, <2>2, PathWorkBounds
  <2> QED
    BY <2>3 DEF cycle_credits
<1>3. allocation_debt(m) \in Nat
  <2> DEFINE rest == cycle_debits(m) - cycle_credits(m)
  <2>1. rest \in Int
    BY <1>1, <1>2
  <2>2. Max({0, rest}) \in Nat
    <3> HIDE DEF rest
    <3> QED
      BY <2>1, MaxZero
  <2> QED
    BY <2>2 DEF allocation_debt
<1> QED
  BY <1>1, <1>2, <1>3

\* Counting a step gives numbers again.
LEMMA CountedType ==
  ASSUME MetricsTypeOK, HeapTypeOK, HeapTypeOK', Counted
  PROVE  MetricsTypeOK'
<1>1. IsFiniteSet(Box)
  BY MaxBoxAssumption, FS_Interval DEF Box
<1>2. Cardinality(Allocated) \in Nat /\ Cardinality(Freed) \in Nat
  <2>1. Allocated \in SUBSET Box /\ Freed \in SUBSET Box
    BY DEF HeapTypeOK, Allocated, Freed
  <2> QED
    BY <1>1, <2>1, FS_Subset, FS_CardinalityType
<1>3. /\ Bytes(Allocated) \in Nat /\ Bytes(Freed) \in Nat /\ Bytes(Marked) \in Nat
      /\ Bytes(TracedBoxes) \in Nat /\ Bytes(Untraced) \in Nat /\ Bytes(Dropped) \in Nat
      /\ Bytes(Remembered) \in Nat
  BY BytesType
<1>4. (metrics.traced_gc_bytes + Bytes(TracedBoxes) - Bytes(Untraced)) % Word \in Int
  BY <1>3, WordAssumption DEF MetricsTypeOK, Counters
<1>5. /\ metrics.total_gcs + Cardinality(Allocated) - Cardinality(Freed) \in Int
      /\ metrics.total_gc_bytes + Bytes(Allocated) - Bytes(Freed) \in Int
      /\ metrics.allocated_gc_bytes + Bytes(Allocated) \in Int
      /\ metrics.marked_gc_bytes + Bytes(Marked) \in Int
      /\ metrics.dropped_gc_bytes + Bytes(Dropped) \in Int
      /\ metrics.freed_gc_bytes + Bytes(Freed) \in Int
      /\ metrics.remembered_gc_bytes + Bytes(Remembered) \in Int
  BY <1>2, <1>3 DEF MetricsTypeOK, Counters
<1>6. metrics' \in Counters
  BY <1>4, <1>5 DEF Counted, MetricsTypeOK, Counters
<1> QED
  BY <1>6 DEF MetricsTypeOK

\* So does starting to count afresh.
LEMMA FinishedType ==
  ASSUME NEW m \in Counters, NEW w \in Int, NEW d \in Int, NEW x \in Int, NEW z \in Int
  PROVE  [m EXCEPT !.wakeup_amount = w, !.artificial_debt = d, !.external_bytes_start = x,
                   !.allocated_gc_bytes = z, !.dropped_gc_bytes = z, !.freed_gc_bytes = z,
                   !.marked_gc_bytes = z, !.traced_gc_bytes = z, !.remembered_gc_bytes = z]
         \in Counters
BY DEF Counters

\* Every step leaves numbers in the counters.
LEMMA MetricsStep ==
  ASSUME MetricsTypeOK, IInv, IInv', [PacedNext]_paced_vars
  PROVE  MetricsTypeOK'
<1>1. HeapTypeOK /\ HeapTypeOK'
  BY DEF IInv, TypeOK
<1>2. CASE Counted
  BY <1>1, <1>2, CountedType
<1>3. CASE UNCHANGED metrics
  BY <1>3 DEF MetricsTypeOK
<1>4. CASE PacedEndSweep
  <2>1. allocation_debt(metrics) \in Int
    BY DebtType DEF MetricsTypeOK
  <2>2. Max({metrics.remembered_gc_bytes * pacing.sleep_factor, 100 * pacing.min_sleep}) \in Int
    <3> DEFINE x == metrics.remembered_gc_bytes * pacing.sleep_factor
               y == 100 * pacing.min_sleep
    <3>1. x \in Int /\ y \in Int
      <4>1. metrics.remembered_gc_bytes \in Int /\ pacing.sleep_factor \in Nat /\ pacing.min_sleep \in Nat
        BY PacingAssumption DEF MetricsTypeOK, Counters, Pacings
      <4> QED
        BY <4>1
    <3>2. Max({x, y}) \in Int
      <4> HIDE DEF x, y
      <4> QED
        BY <3>1, MaxPair
    <3> QED
      BY <3>2
  <2>3. metrics_finish_cycle(metrics, has_slept) \in Counters
    <3> DEFINE w == Max({metrics.remembered_gc_bytes * pacing.sleep_factor, 100 * pacing.min_sleep})
               d == IF has_slept THEN 0 ELSE allocation_debt(metrics)
    <3>1. w \in Int /\ d \in Int
      BY <2>1, <2>2
    <3>2. metrics \in Counters /\ metrics.total_external_bytes \in Int /\ 0 \in Int
      BY DEF MetricsTypeOK, Counters
    <3> DEFINE m == [metrics EXCEPT !.wakeup_amount = w, !.artificial_debt = d,
                            !.external_bytes_start = metrics.total_external_bytes,
                            !.allocated_gc_bytes = 0, !.dropped_gc_bytes = 0, !.freed_gc_bytes = 0,
                            !.marked_gc_bytes = 0, !.traced_gc_bytes = 0, !.remembered_gc_bytes = 0]
    <3>3. metrics_finish_cycle(metrics, has_slept) = m
      BY Zenon DEF metrics_finish_cycle
    <3>4. m \in Counters
      <4> HIDE DEF w, d
      <4> QED
        BY <3>1, <3>2, FinishedType, Zenon
    <3> HIDE DEF m
    <3> QED
      BY <3>3, <3>4
  <2> QED
    BY <1>4, <2>3 DEF PacedEndSweep, MetricsTypeOK
<1>5. CASE External
  <2>1. PICK n \in Amounts : add_debt(n) \/ mark_external_allocation(n) \/ mark_external_deallocation(n)
    BY <1>5 DEF External
  <2>2. n \in Int /\ metrics.total_external_bytes - n \in Int
        /\ Max({0, metrics.total_external_bytes - n}) \in Int
    BY AmountsAssumption, MaxZero DEF MetricsTypeOK, Counters
  <2> QED
    BY <2>1, <2>2 DEF add_debt, mark_external_allocation, mark_external_deallocation, MetricsTypeOK, Counters
<1> QED
  BY <1>2, <1>3, <1>4, <1>5
  DEF PacedNext, PacedMutator, PacedRequest, PacedCollector, PacedLoop, WorkStep, PanicStep,
      PacedStopAtSweep, PacedEndMark, paced_vars

\* Before anything is counted the counters are zero.
LEMMA MetricsInit == PacedInit => MetricsTypeOK
BY DEF PacedInit, MetricsTypeOK, Counters

\* The counters always hold numbers.
THEOREM CountersHoldNumbers == PacedSpec => []MetricsTypeOK
<1>1. MetricsTypeOK /\ IInv /\ IInv' /\ [PacedNext]_paced_vars => MetricsTypeOK'
  BY MetricsStep
<1> QED
  BY <1>1, MetricsInit, PacedInvariance, PTL DEF PacedSpec

\* A cycle that starts afresh, with debt reset, owes nothing.
LEMMA ResetOwesNothing ==
  ASSUME NEW m \in Counters
  PROVE  allocation_debt(metrics_finish_cycle(m, TRUE)) = 0
<1> DEFINE x == m.remembered_gc_bytes * pacing.sleep_factor
           y == 100 * pacing.min_sleep
           w == Max({x, y})
           n == metrics_finish_cycle(m, TRUE)
<1>1. x \in Int /\ y \in Nat
  <2>1. m.remembered_gc_bytes \in Int /\ pacing.sleep_factor \in Nat /\ pacing.min_sleep \in Nat
    BY PacingAssumption DEF Counters, Pacings
  <2> QED
    BY <2>1
<1>2. w \in Nat
  <2> HIDE DEF x, y
  <2> QED
    BY <1>1, MaxPair
<1> HIDE DEF x, y
<1>3. /\ n.wakeup_amount = w /\ n.artificial_debt = 0 /\ n.allocated_gc_bytes = 0
      /\ n.total_external_bytes \in Int /\ n.total_external_bytes = n.external_bytes_start
  BY DEF Counters, metrics_finish_cycle, x, y
<1> HIDE DEF w, n
<1>4. Max({0, n.total_external_bytes - n.external_bytes_start}) = 0
  BY <1>3, MaxZero
<1>5. cycle_debits(n) <= 0
  BY <1>2, <1>3, <1>4 DEF cycle_debits
<1> QED
  BY <1>5 DEF allocation_debt, n

\* A call of collect_debt that no panic ends returns with the debt paid.
LEMMA PaidStep ==
  ASSUME MetricsTypeOK, IInv, [PacedNext]_paced_vars,
         call = "collect", run_until = "PayDebt", stop = Full, call' = "none", ~PanicStep
  PROVE  allocation_debt(metrics') = 0
<1>1. CASE WorkStep
  BY <1>1 DEF WorkStep, PaysDebt
<1>2. CASE PacedStopAtSweep
  BY <1>2 DEF PacedStopAtSweep, StopAtSweep, AtSweep, Full
<1>3. CASE PacedEndMark
  BY <1>3 DEF PacedEndMark, PaysDebt, FullyMarked, Full
<1>4. CASE PacedEndSweep
  <2>1. CASE has_slept
    <3>1. metrics' = metrics_finish_cycle(metrics, TRUE)
      <4>1. has_slept = TRUE
        BY <2>1 DEF IInv, TypeOK, RequestTypeOK
      <4> QED
        BY <1>4, <4>1 DEF PacedEndSweep
    <3> QED
      BY <3>1, ResetOwesNothing DEF MetricsTypeOK
  <2>2. CASE ~has_slept
    BY <1>4, <2>2 DEF PacedEndSweep, PaysDebt, FinishCycle, Full
  <2> QED
    BY <2>1, <2>2
<1>5. CASE PacedMutator
  BY <1>5 DEF PacedMutator, Mutator, mutate, mutate_root, finalize, BeginCallback, EndCallback,
     allocate, WriteRoot, WriteStrong, AdoptBackward, AdoptForward, AdoptStrong, WriteWeak,
     AdoptBackwardWeak, AdoptForwardWeak, AdoptWeak, Overwrite, downgrade, upgrade, resurrect,
     Callbacks
<1>6. CASE PacedRequest
  BY <1>6 DEF PacedRequest, Request, collect_debt, mark_debt, finish_marking, cycle_debt,
     finish_cycle, start_sweeping, do_collection
<1>7. CASE External
  BY <1>7 DEF External
<1>8. CASE (DropArena \/ DropBox) /\ Counted
  BY <1>8 DEF DropArena, DropBox
<1>9. CASE UNCHANGED paced_vars
  BY <1>9 DEF paced_vars, vars
<1> QED
  BY <1>1, <1>2, <1>3, <1>4, <1>5, <1>6, <1>7, <1>8, <1>9
  DEF PacedNext, PacedCollector, PacedLoop

\* Where collect_debt returns, the debt is zero: whatever the factors, the
\* counters and the debt left over are.
THEOREM CollectDebtPays == PacedSpec => DebtIsPaid
<1>1. MetricsTypeOK /\ IInv /\ [PacedNext]_paced_vars =>
        [ call = "collect" /\ run_until = "PayDebt" /\ stop = Full /\ call' = "none" /\ ~PanicStep
          => allocation_debt(metrics') = 0 ]_paced_vars
  BY PaidStep
<1> QED
  BY <1>1, CountersHoldNumbers, PacedInvariance, PTL DEF PacedSpec, DebtIsPaid

-----------------------------------------------------------------------------
(* Which boxes have been counted.                                          *)

\* The counters of MetricsInner change as the sets of boxes counted do; the
\* traces taken back were counted, so traced_gc_bytes does not wrap around.
LEMMA Recount ==
  ASSUME MetricsTypeOK, Counted, HeapFits',
         NEW M, NEW T, NEW R, NEW D, NEW F, Counts(M, T, R, D, F),
         NEW M1, NEW T1, NEW R1, NEW D1, NEW F1,
         M \cap Marked = {}, M1 = M \cup Marked,
         Untraced \subseteq T, T \cap TracedBoxes = {},
         T1 = (T \ Untraced) \cup TracedBoxes, T1 \subseteq alloc',
         R \cap Remembered = {}, R1 = R \cup Remembered,
         D \cap Dropped = {}, D1 = D \cup Dropped,
         F \cap Freed = {}, F1 = F \cup Freed
  PROVE  Counts(M1, T1, R1, D1, F1)'
<1>1. /\ Bytes(M1) = Bytes(M) + Bytes(Marked) /\ Bytes(R1) = Bytes(R) + Bytes(Remembered)
      /\ Bytes(D1) = Bytes(D) + Bytes(Dropped) /\ Bytes(F1) = Bytes(F) + Bytes(Freed)
  BY BytesUnion
<1>2. Bytes(T1) = Bytes(T) + Bytes(TracedBoxes) - Bytes(Untraced)
  <2>1. (T \ Untraced) \cap TracedBoxes = {}
    OBVIOUS
  <2>2. Bytes(T1) = Bytes(T \ Untraced) + Bytes(TracedBoxes)
    BY <2>1, BytesUnion
  <2>3. Bytes(T \ Untraced) = Bytes(T) - Bytes(Untraced)
    BY BytesMinus
  <2> QED
    BY <2>2, <2>3, BytesType
<1>3. Bytes(alloc') = Bytes(alloc) + Bytes(Allocated) - Bytes(Freed)
  <2>1. /\ Freed \subseteq alloc /\ (alloc \ Freed) \cap Allocated = {}
        /\ alloc' = (alloc \ Freed) \cup Allocated
    BY DEF Freed, Allocated
  <2>2. Bytes(alloc') = Bytes(alloc \ Freed) + Bytes(Allocated)
    BY <2>1, BytesUnion
  <2>3. Bytes(alloc \ Freed) = Bytes(alloc) - Bytes(Freed)
    BY <2>1, BytesMinus
  <2> QED
    BY <2>2, <2>3, BytesType
<1>4. Bytes(T1) % Word = Bytes(T1)
  <2>1. Bytes(T1) <= Bytes(alloc') /\ Bytes(alloc') < Word
    BY BytesMono DEF HeapFits
  <2>2. Bytes(T1) \in Nat /\ Bytes(alloc') \in Nat /\ Bytes(T1) < Word
    BY <2>1, BytesType, WordAssumption
  <2> QED
    BY <2>2, NoWrap
<1>5. /\ metrics'.total_gc_bytes = Bytes(alloc')
      /\ metrics'.marked_gc_bytes = Bytes(M1)
      /\ metrics'.traced_gc_bytes = Bytes(T1)
      /\ metrics'.remembered_gc_bytes = Bytes(R1)
      /\ metrics'.dropped_gc_bytes = Bytes(D1)
      /\ metrics'.freed_gc_bytes = Bytes(F1)
  BY <1>1, <1>2, <1>3, <1>4 DEF Counted, Counts, MetricsTypeOK, Counters
<1> QED
  BY <1>5 DEF Counts

\* Boxes that do not change leave the ledger as it is.
LEMMA LedgerKept ==
  ASSUME NEW M \in SUBSET Box, NEW T \in SUBSET Box, NEW R \in SUBSET Box,
         NEW D \in SUBSET Box, NEW F \in SUBSET Box,
         Ledger(M, T, R, D, F), Counts(M, T, R, D, F)',
         UNCHANGED <<alloc, live, fresh, color, phase, sweep>>
  PROVE  LedgerInv'
<1>1. Paths(M, T, R, D, F)'
  BY DEF Ledger, Paths
<1>2. (phase = "Sleep" => M \cup T \cup R \cup D \cup F = {})'
  BY DEF Ledger
<1>3. (phase = "Mark" => MarkPaths(M, T) /\ R \cup D \cup F = {})'
  BY DEF Ledger, MarkPaths
<1>4. (phase = "Sweep" => SweepPaths(M, T, R))'
  BY DEF Ledger, SweepPaths
<1>5. Ledger(M, T, R, D, F)'
  BY <1>1, <1>2, <1>3, <1>4 DEF Ledger
<1> QED
  BY <1>5 DEF LedgerInv

\* Nothing is counted when no box changes.
LEMMA NothingCounted ==
  ASSUME UNCHANGED <<alloc, live, color>>, call # "collect" \/ sweep' = sweep
  PROVE  /\ Allocated = {} /\ Freed = {} /\ Dropped = {} /\ Marked = {} /\ TracedBoxes = {}
         /\ Untraced = {} /\ Remembered = {}
BY DEF Allocated, Freed, Dropped, Marked, TracedBoxes, Untraced, Remembered

\* Steps between which only the other counters change.
LEMMA LedgerIdle ==
  ASSUME MetricsTypeOK, LedgerInv, HeapFits, HeapFits', phase # "Drop",
         UNCHANGED <<alloc, live, fresh, color, phase, sweep>>,
         \/ Counted
         \/ /\ metrics'.total_gc_bytes = metrics.total_gc_bytes
            /\ metrics'.marked_gc_bytes = metrics.marked_gc_bytes
            /\ metrics'.traced_gc_bytes = metrics.traced_gc_bytes
            /\ metrics'.remembered_gc_bytes = metrics.remembered_gc_bytes
            /\ metrics'.dropped_gc_bytes = metrics.dropped_gc_bytes
            /\ metrics'.freed_gc_bytes = metrics.freed_gc_bytes
  PROVE  LedgerInv'
<1>1. PICK M \in SUBSET Box, T \in SUBSET Box, R \in SUBSET Box, D \in SUBSET Box, F \in SUBSET Box :
        Ledger(M, T, R, D, F)
  BY DEF LedgerInv
<1>2. Counts(M, T, R, D, F)'
  <2>1. CASE Counted
    <3>1. /\ Marked = {} /\ Untraced = {} /\ TracedBoxes = {} /\ Remembered = {}
          /\ Dropped = {} /\ Freed = {}
      BY NothingCounted
    <3>2. T \subseteq alloc'
      BY <1>1 DEF Ledger, Paths
    <3>3. Counts(M, T, R, D, F)
      BY <1>1 DEF Ledger
    <3> QED
      BY <2>1, <3>1, <3>2, <3>3, Recount
  <2>2. CASE ~Counted
    BY <1>1, <2>2 DEF Ledger, Counts
  <2> QED
    BY <2>1, <2>2
<1> QED
  BY <1>1, <1>2, LedgerKept

\* How colors change while marking: a marked box stays marked, only a gray box
\* with pointers turns black, and only a barrier turns a black box gray.
Recolored ==
  /\ \A b \in Box : color[b] # "White" => color'[b] # "White"
  /\ \A b \in Box : color[b] = "Black" => color'[b] \in {"Black", "Gray"}
  /\ \A b \in Box \ Leaf : color'[b] = "Black" => color[b] \in {"Black", "Gray"}

\* A box is marked once in a cycle, and each trace it had but the last was taken
\* back when it turned gray again.
LEMMA LedgerMark ==
  ASSUME MetricsTypeOK, LedgerInv, HeapFits', IInv, IInv', Counted,
         phase = "Mark", phase' = "Mark", UNCHANGED <<alloc, live, fresh, sweep>>,
         Recolored, Untraced \cap Leaf = {}
  PROVE  LedgerInv'
<1>1. PICK M \in SUBSET Box, T \in SUBSET Box, R \in SUBSET Box, D \in SUBSET Box, F \in SUBSET Box :
        Ledger(M, T, R, D, F)
  BY DEF LedgerInv
<1>2. /\ Counts(M, T, R, D, F) /\ Paths(M, T, R, D, F) /\ MarkPaths(M, T)
      /\ R = {} /\ D = {} /\ F = {}
  BY <1>1 DEF Ledger
<1>3. Remembered = {} /\ Dropped = {} /\ Freed = {}
  BY DEF Remembered, Dropped, Freed
<1>4. PICK M1 \in SUBSET Box : M1 = M \cup Marked
  BY DEF Marked
<1>5. PICK T1 \in SUBSET Box : T1 = (T \ Untraced) \cup TracedBoxes
  BY DEF TracedBoxes
<1>6. M \cap Marked = {} /\ Untraced \subseteq T /\ T \cap TracedBoxes = {}
  BY <1>2 DEF Marked, Untraced, TracedBoxes, MarkPaths
<1>7. M1 = {b \in Box : color'[b] # "White"}
  BY <1>2, <1>4 DEF Recolored, Marked, MarkPaths
<1>8. \A b \in T1 : color'[b] = "Black"
  <2>1. ASSUME NEW b \in T, b \notin Untraced PROVE color'[b] = "Black"
    BY <1>2, <2>1 DEF Recolored, Untraced, MarkPaths
  <2> QED
    BY <1>5, <2>1 DEF TracedBoxes
<1>9. \A b \in Box \ Leaf : color'[b] = "Black" => b \in T1
  <2> SUFFICES ASSUME NEW b \in Box \ Leaf, color'[b] = "Black" PROVE b \in T1
    OBVIOUS
  <2>1. CASE color[b] = "Black"
    <3>1. b \in T /\ b \notin Untraced
      BY <1>2, <2>1 DEF MarkPaths, Untraced
    <3> QED
      BY <1>5, <3>1
  <2>2. CASE color[b] = "Gray"
    BY <1>5, <2>2 DEF TracedBoxes
  <2> QED
    BY <2>1, <2>2 DEF Recolored
<1>10. \A b \in Box : color'[b] # "White" => b \in alloc'
  BY DEF IInv, BoxInv
<1>11. M1 \subseteq alloc' /\ T1 \subseteq alloc'
  BY <1>7, <1>8, <1>10
<1>12. Counts(M1, T1, R, D, F)'
  <2>1. R = R \cup Remembered /\ D = D \cup Dropped /\ F = F \cup Freed
        /\ R \cap Remembered = {} /\ D \cap Dropped = {} /\ F \cap Freed = {}
    BY <1>3
  <2> QED
    BY <1>2, <1>4, <1>5, <1>6, <1>11, <2>1, Recount
<1>13. Paths(M1, T1, R, D, F)'
  BY <1>2, <1>11 DEF Paths
<1>14. MarkPaths(M1, T1)'
  BY <1>7, <1>8, <1>9 DEF MarkPaths
<1>15. Ledger(M1, T1, R, D, F)'
  BY <1>2, <1>12, <1>13, <1>14 DEF Ledger
<1> QED
  BY <1>15 DEF LedgerInv

\* A new box has a number no box had before, and is ahead of the sweep.
LEMMA LedgerAllocate ==
  ASSUME MetricsTypeOK, LedgerInv, HeapFits', IInv, Counted,
         NEW S, NEW W, allocate(S, W)
  PROVE  LedgerInv'
<1>0. phase # "Drop" /\ call # "collect" /\ fresh \in Nat /\ sweep \in Nat
      /\ live \subseteq alloc /\ alloc \subseteq Box
  BY MaxBoxAssumption
  DEF allocate, IInv, TypeOK, CollectorTypeOK, HeapTypeOK, CallInv, Callbacks, Box, Null
<1>1. PICK M \in SUBSET Box, T \in SUBSET Box, R \in SUBSET Box, D \in SUBSET Box, F \in SUBSET Box :
        Ledger(M, T, R, D, F)
  BY <1>0 DEF LedgerInv
<1>2. /\ UNCHANGED <<phase, sweep, color>>
      /\ alloc' = alloc \cup {fresh} /\ live' = live \cup {fresh} /\ fresh' = fresh + 1
  BY DEF allocate
<1>3. Counts(M, T, R, D, F) /\ Paths(M, T, R, D, F)
  BY <1>1 DEF Ledger
<1>4. Counts(M, T, R, D, F)'
  <2>1. /\ Freed = {} /\ Dropped = {} /\ Marked = {} /\ TracedBoxes = {}
        /\ Untraced = {} /\ Remembered = {}
    BY <1>0, <1>2 DEF Freed, Dropped, Marked, TracedBoxes, Untraced, Remembered
  <2>2. T \subseteq alloc'
    BY <1>2, <1>3 DEF Paths
  <2> QED
    BY <1>3, <2>1, <2>2, Recount
<1>5. \A b \in alloc : b < fresh
  BY DEF IInv, BoxInv
<1>6. fresh \notin alloc /\ fresh \notin F /\ fresh \notin D
  BY <1>0, <1>3, <1>5 DEF Paths
<1>7. Paths(M, T, R, D, F)'
  <2>1. \A b \in F : b < fresh'
    BY <1>0, <1>2, <1>3 DEF Paths, Box
  <2>2. F \cap alloc' = {} /\ D \cap live' = {} /\ D \subseteq alloc' \cup F
    BY <1>2, <1>3, <1>6 DEF Paths
  <2>3. M \subseteq alloc' /\ T \subseteq alloc' /\ R \subseteq alloc' /\ D \cap T = {}
    BY <1>2, <1>3 DEF Paths
  <2> QED
    BY <2>1, <2>2, <2>3 DEF Paths
<1>8. (phase = "Sweep" => SweepPaths(M, T, R))'
  <2> SUFFICES ASSUME phase = "Sweep" PROVE SweepPaths(M, T, R)'
    BY <1>2
  <2>1. SweepPaths(M, T, R)
    BY <1>1 DEF Ledger
  <2>2. sweep < fresh
    BY <1>0, <1>5 DEF IInv, TypeOK, HeapTypeOK, SweepInv, Null
  <2>3. ~(fresh <= sweep)
    BY <1>0, <2>2
  <2>4. \A b \in alloc' : b <= sweep' => b \in alloc /\ b <= sweep
    BY <1>2, <2>3
  <2> QED
    BY <1>2, <2>1, <2>4 DEF SweepPaths
<1>9. /\ (phase = "Sleep" => M \cup T \cup R \cup D \cup F = {})'
      /\ (phase = "Mark" => MarkPaths(M, T) /\ R \cup D \cup F = {})'
  BY <1>1, <1>2 DEF Ledger, MarkPaths
<1>10. Ledger(M, T, R, D, F)'
  BY <1>4, <1>7, <1>8, <1>9 DEF Ledger
<1> QED
  BY <1>10 DEF LedgerInv

\* A cycle begins with nothing counted and every box white.
LEMMA LedgerWakeUp ==
  ASSUME MetricsTypeOK, LedgerInv, HeapFits', IInv, Counted, WakeUp
  PROVE  LedgerInv'
<1>1. PICK M \in SUBSET Box, T \in SUBSET Box, R \in SUBSET Box, D \in SUBSET Box, F \in SUBSET Box :
        Ledger(M, T, R, D, F)
  BY DEF LedgerInv, WakeUp
<1>2. /\ phase = "Sleep" /\ phase' = "Mark"
      /\ UNCHANGED <<alloc, live, fresh, color, sweep>>
  BY DEF WakeUp, list, boxes
<1>3. /\ Counts(M, T, R, D, F) /\ Paths(M, T, R, D, F)
      /\ M = {} /\ T = {} /\ R = {} /\ D = {} /\ F = {}
  BY <1>1, <1>2 DEF Ledger
<1>4. Counts(M, T, R, D, F)'
  <2>1. /\ Freed = {} /\ Dropped = {} /\ Marked = {} /\ TracedBoxes = {}
        /\ Untraced = {} /\ Remembered = {}
    BY <1>2, NothingCounted
  <2> QED
    BY <1>3, <2>1, Recount
<1>5. Paths(M, T, R, D, F)'
  BY <1>2, <1>3 DEF Paths
<1>6. \A b \in Box : color'[b] = "White"
  BY <1>2 DEF IInv, ColorInv
<1>7. MarkPaths(M, T)'
  BY <1>3, <1>6 DEF MarkPaths
<1>8. Ledger(M, T, R, D, F)'
  BY <1>2, <1>3, <1>4, <1>5, <1>7 DEF Ledger
<1> QED
  BY <1>8 DEF LedgerInv

\* When the sweep begins it has yet to count every box.
LEMMA LedgerEndMark ==
  ASSUME MetricsTypeOK, LedgerInv, HeapFits, HeapFits', IInv, EndMark, UNCHANGED metrics
  PROVE  LedgerInv'
<1>1. CASE phase' = "Mark"
  BY <1>1, LedgerIdle DEF EndMark, list, boxes
<1>2. CASE phase' # "Mark"
  <2>1. /\ phase = "Mark" /\ phase' = "Sweep"
        /\ UNCHANGED <<alloc, live, fresh, color>>
    BY <1>2 DEF EndMark, boxes
  <2>2. PICK M \in SUBSET Box, T \in SUBSET Box, R \in SUBSET Box, D \in SUBSET Box, F \in SUBSET Box :
          Ledger(M, T, R, D, F)
    BY <2>1 DEF LedgerInv
  <2>3. /\ Counts(M, T, R, D, F) /\ Paths(M, T, R, D, F) /\ MarkPaths(M, T)
        /\ R = {} /\ D = {} /\ F = {}
    BY <2>1, <2>2 DEF Ledger
  <2>4. Counts(M, T, R, D, F)' /\ Paths(M, T, R, D, F)'
    BY <2>1, <2>3 DEF Counts, Paths
  <2>5. SweepPaths(M, T, R)'
    BY <2>1, <2>3 DEF MarkPaths, SweepPaths
  <2>6. Ledger(M, T, R, D, F)'
    BY <2>1, <2>4, <2>5 DEF Ledger
  <2> QED
    BY <2>6 DEF LedgerInv
<1> QED
  BY <1>1, <1>2

\* finish_cycle of Metrics begins the next cycle.
LEMMA LedgerEndSweep ==
  ASSUME MetricsTypeOK, LedgerInv, IInv, PacedEndSweep
  PROVE  LedgerInv'
<1>1. PICK M \in SUBSET Box, T \in SUBSET Box, R \in SUBSET Box, D \in SUBSET Box, F \in SUBSET Box :
        Ledger(M, T, R, D, F)
  BY DEF LedgerInv, PacedEndSweep, EndSweep
<1>2. phase' = "Sleep" /\ UNCHANGED <<alloc, live, fresh>>
  BY DEF PacedEndSweep, EndSweep, boxes
<1>3. Counts({}, {}, {}, {}, {})'
  <2>1. metrics.total_gc_bytes = Bytes(alloc)
    BY <1>1 DEF Ledger, Counts
  <2>2. /\ metrics'.total_gc_bytes = metrics.total_gc_bytes
        /\ metrics'.marked_gc_bytes = 0 /\ metrics'.traced_gc_bytes = 0
        /\ metrics'.remembered_gc_bytes = 0 /\ metrics'.dropped_gc_bytes = 0
        /\ metrics'.freed_gc_bytes = 0
    BY DEF PacedEndSweep, metrics_finish_cycle, MetricsTypeOK, Counters
  <2> QED
    BY <1>2, <2>1, <2>2, BytesEmpty DEF Counts
<1>4. Ledger({}, {}, {}, {}, {})'
  BY <1>2, <1>3 DEF Ledger, Paths
<1> QED
  BY <1>4 DEF LedgerInv

\* What one step of the sweep counts of the box it visits: it is dropped if it
\* is white and has not been, freed if nothing points to it, and kept if not.
LEMMA LedgerSweep ==
  ASSUME MetricsTypeOK, LedgerInv, HeapFits', IInv, Counted, Sweeping,
         color[sweep] \in {"White", "WhiteWeak", "Black"},
         color' = [color EXCEPT ![sweep] = "White"],
         live' = IF color[sweep] = "Black" THEN live ELSE live \ {sweep},
         alloc' = IF color[sweep] = "White" THEN alloc \ {sweep} ELSE alloc
  PROVE  LedgerInv'
<1>1. /\ sweep \in alloc /\ sweep \in Box /\ sweep' \in alloc \cup {Null} /\ sweep' < sweep
      /\ \A b \in alloc : b <= sweep' <=> b < sweep
  BY SweepPosition DEF Sweeping, Null
<1>2. /\ phase = "Sweep" /\ phase' = "Sweep" /\ call = "collect" /\ UNCHANGED fresh
      /\ color \in [Box -> Colors] /\ live \subseteq alloc /\ alloc \subseteq Box
      /\ sweep \in Int /\ sweep' # sweep /\ \A b \in Box : b \in Int
  BY <1>1, MaxBoxAssumption DEF Sweeping, IInv, TypeOK, CollectorTypeOK, HeapTypeOK, Box, Null
<1>3. PICK M \in SUBSET Box, T \in SUBSET Box, R \in SUBSET Box, D \in SUBSET Box, F \in SUBSET Box :
        Ledger(M, T, R, D, F)
  BY <1>2 DEF LedgerInv
<1>4. Counts(M, T, R, D, F) /\ Paths(M, T, R, D, F) /\ SweepPaths(M, T, R)
  BY <1>2, <1>3 DEF Ledger
<1>5. /\ sweep \in M => color[sweep] # "White"
      /\ sweep \in T => color[sweep] = "Black"
      /\ sweep \notin R
  BY <1>1, <1>2, <1>4 DEF SweepPaths
<1>6. Marked = {} /\ TracedBoxes = {} /\ Untraced = {}
  BY <1>1, <1>2 DEF Marked, TracedBoxes, Untraced
<1>7. PICK R1 \in SUBSET Box : R1 = R \cup Remembered
  BY <1>1, <1>2 DEF Remembered
<1>8. PICK D1 \in SUBSET Box : D1 = D \cup Dropped
  BY <1>2 DEF Dropped
<1>9. PICK F1 \in SUBSET Box : F1 = F \cup Freed
  BY <1>2 DEF Freed
<1>10. /\ Remembered = IF color[sweep] = "White" THEN {} ELSE {sweep}
       /\ Dropped = IF color[sweep] = "Black" THEN {} ELSE live \cap {sweep}
       /\ Freed = IF color[sweep] = "White" THEN {sweep} ELSE {}
  BY <1>1, <1>2 DEF Remembered, Dropped, Freed
<1>11. M \subseteq alloc' /\ T \subseteq alloc' /\ R1 \subseteq alloc'
  BY <1>1, <1>4, <1>5, <1>7, <1>10 DEF Paths
<1>12. Counts(M, T, R1, D1, F1)'
  <2>1. R \cap Remembered = {} /\ D \cap Dropped = {} /\ F \cap Freed = {}
    BY <1>1, <1>4, <1>5, <1>10 DEF Paths
  <2> QED
    BY <1>4, <1>6, <1>7, <1>8, <1>9, <1>11, <2>1, Recount
<1>13. Paths(M, T, R1, D1, F1)'
  <2>1. D1 \subseteq alloc' \cup F1
    BY <1>1, <1>2, <1>4, <1>8, <1>9, <1>10 DEF Paths
  <2>2. D1 \cap live' = {}
    BY <1>1, <1>4, <1>8, <1>10 DEF Paths
  <2>3. F1 \cap alloc' = {}
    BY <1>1, <1>4, <1>9, <1>10 DEF Paths
  <2>4. \A b \in F1 : b < fresh'
    <3>1. sweep < fresh
      BY <1>1 DEF IInv, BoxInv
    <3> QED
      BY <1>2, <1>4, <1>9, <1>10, <3>1 DEF Paths
  <2>5. D1 \cap T = {}
    BY <1>4, <1>5, <1>8, <1>10 DEF Paths
  <2> QED
    BY <1>11, <2>1, <2>2, <2>3, <2>4, <2>5 DEF Paths
<1>14. SweepPaths(M, T, R1)'
  <2>1. \A b \in alloc' : b <= sweep' => b \in alloc /\ b <= sweep /\ b # sweep
    BY <1>1, <1>2
  <2>2. \A b \in alloc' : b # sweep => color'[b] = color[b] /\ (b \in R1 <=> b \in R)
    BY <1>2, <1>7, <1>10
  <2> QED
    BY <1>4, <2>1, <2>2 DEF SweepPaths
<1>15. Ledger(M, T, R1, D1, F1)'
  BY <1>2, <1>12, <1>13, <1>14 DEF Ledger
<1> QED
  BY <1>15 DEF LedgerInv

\* What a step of the mutator can do to the boxes.
LEMMA MutatorKinds ==
  ASSUME IInv, Mutator
  PROVE  /\ UNCHANGED <<phase, sweep>> /\ phase # "Drop"
         /\ \/ UNCHANGED <<alloc, live, fresh, color>>
            \/ phase = "Mark" /\ UNCHANGED <<alloc, live, fresh>> /\ Recolored
            \/ \E S \in SUBSET held, W \in SUBSET held_weak : allocate(S, W)
<1> DEFINE Kept == UNCHANGED <<phase, sweep>> /\ call # "drop"
           Kinds == /\ Kept
                    /\ \/ UNCHANGED <<alloc, live, fresh, color>>
                       \/ phase = "Mark" /\ UNCHANGED <<alloc, live, fresh>> /\ Recolored
                       \/ \E S \in SUBSET held, W \in SUBSET held_weak : allocate(S, W)
<1>0. color \in [Box -> Colors] /\ (call = "finalize" => phase = "Mark") /\ held \subseteq Box
      /\ held_weak \subseteq Box
  BY DEF IInv, TypeOK, CollectorTypeOK, HeapTypeOK, CallInv
<1>1. ASSUME mutate \/ mutate_root \/ finalize \/ EndCallback PROVE Kinds
  BY <1>1 DEF mutate, mutate_root, finalize, BeginCallback, EndCallback, boxes, list, Callbacks
<1>2. ASSUME NEW S \in SUBSET held, NEW W \in SUBSET held_weak, WriteRoot(S, W) PROVE Kinds
  BY <1>2 DEF WriteRoot, boxes, list
<1>3. ASSUME NEW p \in held, NEW hit \in BOOLEAN, GrayAgainIf(hit, p),
             hit => phase = "Mark" /\ color[p] = "Black", UNCHANGED <<alloc, live, fresh>>, Kept
      PROVE  Kinds
  BY <1>0, <1>3 DEF GrayAgainIf, Recolored
<1>4. ASSUME NEW p \in held, NEW white \in BOOLEAN, backward_barrier(p, white),
             UNCHANGED <<alloc, live, fresh>>, Kept
      PROVE  Kinds
  BY <1>3, <1>4 DEF backward_barrier
<1>5. ASSUME NEW black \in BOOLEAN, NEW S \in SUBSET Box, NEW W \in SUBSET Box,
             forward_barrier(black, S, W), UNCHANGED <<alloc, live, fresh>>, Kept
      PROVE  Kinds
  BY <1>0, <1>5 DEF forward_barrier, Traced, Whites, Colors, Recolored
<1>6. ASSUME NEW p \in held, NEW c \in held,
             WriteStrong(p, c) \/ AdoptBackward(p, c) \/ \E given \in BOOLEAN : AdoptForward(p, c, given)
      PROVE  Kinds
  <2>1. UNCHANGED <<alloc, live, fresh>> /\ Kept
    BY <1>6 DEF WriteStrong, AdoptBackward, AdoptForward, AdoptStrong, boxes, list, Callbacks
  <2>2. CASE WriteStrong(p, c)
    BY <1>4, <2>1, <2>2 DEF WriteStrong
  <2>3. CASE AdoptBackward(p, c)
    <3>1. (color[c] \in Whites) \in BOOLEAN
      OBVIOUS
    <3> QED
      BY <1>4, <2>1, <2>3, <3>1 DEF AdoptBackward
  <2>4. ASSUME NEW given \in BOOLEAN, AdoptForward(p, c, given) PROVE Kinds
    <3>1. (given => color[p] = "Black") \in BOOLEAN /\ {c} \in SUBSET Box /\ {} \in SUBSET Box
      BY <1>0
    <3> QED
      BY <1>5, <2>1, <2>4, <3>1 DEF AdoptForward
  <2> QED
    BY <1>6, <2>2, <2>3, <2>4
<1>7. ASSUME NEW p \in held, NEW c \in held_weak,
             WriteWeak(p, c) \/ AdoptBackwardWeak(p, c)
               \/ \E given \in BOOLEAN : AdoptForwardWeak(p, c, given)
      PROVE  Kinds
  <2>1. UNCHANGED <<alloc, live, fresh>> /\ Kept
    BY <1>7 DEF WriteWeak, AdoptBackwardWeak, AdoptForwardWeak, AdoptWeak, boxes, list, Callbacks
  <2>2. CASE WriteWeak(p, c)
    BY <1>4, <2>1, <2>2 DEF WriteWeak
  <2>3. CASE AdoptBackwardWeak(p, c)
    <3>1. (color[c] = "White") \in BOOLEAN
      OBVIOUS
    <3> QED
      BY <1>4, <2>1, <2>3, <3>1 DEF AdoptBackwardWeak
  <2>4. ASSUME NEW given \in BOOLEAN, AdoptForwardWeak(p, c, given) PROVE Kinds
    <3>1. (given => color[p] = "Black") \in BOOLEAN /\ {c} \in SUBSET Box /\ {} \in SUBSET Box
      BY <1>0
    <3> QED
      BY <1>5, <2>1, <2>4, <3>1 DEF AdoptForwardWeak
  <2> QED
    BY <1>7, <2>2, <2>3, <2>4
<1>8. ASSUME NEW p \in held, NEW c \in Box, Overwrite(p, c) PROVE Kinds
  <2>1. UNCHANGED <<alloc, live, fresh>> /\ Kept /\ backward_barrier(p, TRUE)
    BY <1>8 DEF Overwrite, boxes, list, Callbacks
  <2> QED
    BY <1>4, <2>1
<1>9. ASSUME NEW c \in held, downgrade(c) PROVE Kinds
  BY <1>9 DEF downgrade, boxes, list, Callbacks
<1>10. ASSUME NEW w \in held_weak, upgrade(w) PROVE Kinds
  BY <1>10 DEF upgrade, boxes, list, Callbacks
<1>11. ASSUME NEW w \in held_weak, resurrect(w) PROVE Kinds
  BY <1>0, <1>11 DEF resurrect, Recolored, Whites, boxes, list
<1>12. Kinds
  <2> HIDE DEF Kinds
  <2>1. ASSUME NEW S \in SUBSET held, NEW W \in SUBSET held_weak, allocate(S, W) PROVE Kinds
    BY <2>1 DEF Kinds, allocate, list, Callbacks
  <2> QED
    BY <1>1, <1>2, <1>6, <1>7, <1>8, <1>9, <1>10, <1>11, <2>1 DEF Mutator
<1> QED
  BY <1>12 DEF IInv, CallInv

\* What mark_one does to the boxes, also when a trace method panics.
LEMMA MarkKinds ==
  ASSUME IInv,
         \/ \E b \in Box : MarkBox(b)
         \/ \E b \in Box : \E S \in SUBSET strong[b], W \in SUBSET weak[b] : MarkBoxPanic(b, S, W)
         \/ \E S \in SUBSET root_strong, W \in SUBSET root_weak, p \in BOOLEAN : MarkRoot(S, W, p)
  PROVE  /\ phase = "Mark" /\ UNCHANGED <<phase, alloc, live, fresh, sweep>>
         /\ Recolored /\ Untraced = {}
<1>0. color \in [Box -> Colors]
  BY DEF IInv, TypeOK, CollectorTypeOK
<1> DEFINE Kind == /\ phase = "Mark" /\ UNCHANGED <<phase, alloc, live, fresh, sweep>>
                   /\ Recolored /\ Untraced = {}
<1>1. ASSUME phase = "Mark", NEW b \in Poppable PROVE b \in Box /\ color[b] = "Gray"
  BY <1>1 DEF IInv, ColorInv, Poppable
<1>2. ASSUME NEW b \in Box, MarkBox(b) PROVE Kind
  <2>1. /\ phase = "Mark" /\ UNCHANGED <<phase, alloc, live, fresh, sweep>>
        /\ color' = Traced([color EXCEPT ![b] = "Black"], strong[b], weak[b])
    BY <1>2 DEF MarkBox, boxes, list
  <2>2. color[b] = "Gray"
    BY <1>1, <1>2 DEF MarkBox
  <2>3. Recolored
    BY <1>0, <2>1, <2>2 DEF Recolored, Traced, Whites, Colors
  <2>4. Untraced = {}
    BY <1>0, <2>1, <2>2 DEF Untraced, Traced, Whites, Colors
  <2> QED
    BY <2>1, <2>3, <2>4
<1>3. ASSUME NEW b \in Box, NEW S, NEW W, MarkBoxPanic(b, S, W) PROVE Kind
  <2>1. /\ phase = "Mark" /\ UNCHANGED <<phase, alloc, live, fresh, sweep>>
        /\ color' = [Traced([color EXCEPT ![b] = "Black"], S, W) EXCEPT ![b] = "Gray"]
    BY <1>3 DEF MarkBoxPanic, boxes, list
  <2>2. color[b] = "Gray"
    BY <1>1, <1>3 DEF MarkBoxPanic
  <2>3. Recolored
    BY <1>0, <2>1, <2>2 DEF Recolored, Traced, Whites, Colors
  <2>4. Untraced = {}
    BY <1>0, <2>1, <2>2 DEF Untraced, Traced, Whites, Colors
  <2> QED
    BY <2>1, <2>3, <2>4
<1>4. ASSUME NEW S, NEW W, NEW p, MarkRoot(S, W, p) PROVE Kind
  <2>1. /\ phase = "Mark" /\ UNCHANGED <<phase, alloc, live, fresh, sweep>>
        /\ color' = Traced(color, S, W)
    BY <1>4 DEF MarkRoot, boxes, list
  <2>2. Recolored
    BY <1>0, <2>1 DEF Recolored, Traced, Whites, Colors
  <2>3. Untraced = {}
    BY <1>0, <2>1 DEF Untraced, Traced, Whites, Colors
  <2> QED
    BY <2>1, <2>2, <2>3
<1> QED
  <2> HIDE DEF Kind
  <2>1. Kind
    BY <1>2, <1>3, <1>4
  <2> QED
    BY <2>1 DEF Kind

\* Before the first cycle nothing has been counted.
LEMMA LedgerInit == PacedInit => LedgerInv
<1> SUFFICES ASSUME PacedInit PROVE LedgerInv
  OBVIOUS
<1>1. Ledger({}, {}, {}, {}, {})
  BY BytesEmpty DEF PacedInit, Init, Ledger, Counts, Paths
<1> QED
  BY <1>1 DEF LedgerInv

\* Every step leaves the counters right, if the program does not write to boxes
\* without pointers through a write barrier.
LEMMA LedgerStep ==
  ASSUME LeafWrites = FALSE,
         MetricsTypeOK, LedgerInv, HeapFits, HeapFits', IInv, IInv', [PacedNext]_paced_vars
  PROVE  LedgerInv'
<1>1. CASE PacedMutator
  <2>1. Mutator /\ Counted /\ Untraced \cap Leaf = {}
    BY <1>1 DEF PacedMutator
  <2>2. UNCHANGED <<phase, sweep>> /\ phase # "Drop"
    BY <2>1, MutatorKinds
  <2>3. CASE UNCHANGED <<alloc, live, fresh, color>>
    BY <2>1, <2>2, <2>3, LedgerIdle
  <2>4. CASE phase = "Mark" /\ UNCHANGED <<alloc, live, fresh>> /\ Recolored
    BY <2>1, <2>2, <2>4, LedgerMark
  <2>5. ASSUME NEW S, NEW W, allocate(S, W) PROVE LedgerInv'
    BY <2>1, <2>5, LedgerAllocate
  <2> QED
    BY <2>1, <2>3, <2>4, <2>5, MutatorKinds
<1>2. CASE PacedRequest
  <2>1. UNCHANGED <<alloc, live, fresh, color, phase, sweep, metrics>> /\ call = "none"
    BY <1>2 DEF PacedRequest, Request, collect_debt, mark_debt, finish_marking, cycle_debt,
       finish_cycle, start_sweeping, do_collection, boxes, list
  <2>2. phase # "Drop"
    BY <2>1 DEF IInv, CallInv
  <2> QED
    BY <2>1, <2>2, LedgerIdle
<1>3. CASE WorkStep
  <2>1. Counted
    BY <1>3 DEF WorkStep
  <2>2. CASE WakeUp
    BY <2>1, <2>2, LedgerWakeUp
  <2>3. CASE (\E b \in Box : MarkBox(b)) \/ MarkRoot(root_strong, root_weak, FALSE)
    <3>1. \/ \E b \in Box : MarkBox(b)
          \/ \E S \in SUBSET root_strong, W \in SUBSET root_weak, p \in BOOLEAN : MarkRoot(S, W, p)
      BY <2>3
    <3> QED
      BY <2>1, <3>1, MarkKinds, LedgerMark
  <2>4. CASE SweepWhite
    <3>1. /\ Sweeping /\ color[sweep] = "White" /\ color' = color
          /\ live' = live \ {sweep} /\ alloc' = alloc \ {sweep}
      BY <2>4 DEF SweepWhite, DropContents
    <3>2. color' = [color EXCEPT ![sweep] = "White"]
      BY <3>1 DEF IInv, TypeOK, CollectorTypeOK
    <3> QED
      BY <2>1, <3>1, <3>2, LedgerSweep
  <2>5. CASE SweepWhiteWeak
    BY <2>1, <2>5, LedgerSweep DEF SweepWhiteWeak, DropContents
  <2>6. CASE SweepBlack
    BY <2>1, <2>6, LedgerSweep DEF SweepBlack
  <2> QED
    BY <1>3, <2>2, <2>3, <2>4, <2>5, <2>6 DEF WorkStep
<1>4. CASE PanicStep
  <2>1. Counted
    BY <1>4 DEF PanicStep
  <2>2. \/ \E b \in Box : \E S \in SUBSET strong[b], W \in SUBSET weak[b] : MarkBoxPanic(b, S, W)
        \/ \E S \in SUBSET root_strong, W \in SUBSET root_weak, p \in BOOLEAN : MarkRoot(S, W, p)
    BY <1>4 DEF PanicStep
  <2> QED
    BY <2>1, <2>2, MarkKinds, LedgerMark
<1>5. CASE PacedStopAtSweep
  BY <1>5, LedgerIdle DEF PacedStopAtSweep, StopAtSweep, boxes, list
<1>6. CASE PacedEndMark
  BY <1>6, LedgerEndMark DEF PacedEndMark
<1>7. CASE PacedEndSweep
  BY <1>7, LedgerEndSweep
<1>8. CASE External
  <2>1. UNCHANGED <<alloc, live, fresh, color, phase, sweep>> /\ phase # "Drop"
    BY <1>8 DEF External, vars, boxes, list, IInv, CallInv
  <2>2. PICK n \in Amounts : add_debt(n) \/ mark_external_allocation(n) \/ mark_external_deallocation(n)
    BY <1>8 DEF External
  <2>3. /\ metrics'.total_gc_bytes = metrics.total_gc_bytes
        /\ metrics'.marked_gc_bytes = metrics.marked_gc_bytes
        /\ metrics'.traced_gc_bytes = metrics.traced_gc_bytes
        /\ metrics'.remembered_gc_bytes = metrics.remembered_gc_bytes
        /\ metrics'.dropped_gc_bytes = metrics.dropped_gc_bytes
        /\ metrics'.freed_gc_bytes = metrics.freed_gc_bytes
    BY <2>2 DEF add_debt, mark_external_allocation, mark_external_deallocation, MetricsTypeOK, Counters
  <2> QED
    BY <2>1, <2>3, LedgerIdle
<1>9. CASE (DropArena \/ DropBox) /\ Counted
  BY <1>9 DEF DropArena, DropBox, LedgerInv, IInv, CallInv
<1>10. CASE UNCHANGED paced_vars
  <2>1. CASE phase = "Drop"
    BY <1>10, <2>1 DEF paced_vars, vars, LedgerInv
  <2>2. CASE phase # "Drop"
    BY <1>10, <2>2, LedgerIdle DEF paced_vars, vars, boxes, list
  <2> QED
    BY <2>1, <2>2
<1> QED
  BY <1>1, <1>2, <1>3, <1>4, <1>5, <1>6, <1>7, <1>8, <1>9, <1>10
  DEF PacedNext, PacedCollector, PacedLoop

\* The ledger bounds what the cycle is credited for.
LEMMA LedgerBounds ==
  ASSUME MetricsTypeOK, LedgerInv
  PROVE  NeverStalls
<1> DEFINE bytes == metrics.total_gc_bytes + metrics.freed_gc_bytes
<1> SUFFICES ASSUME phase # "Drop", metrics.total_gcs > 0,
                    cycle_debits(metrics) > PathWork(pacing) * bytes
             PROVE  allocation_debt(metrics) > 0
  BY DEF NeverStalls
<1>1. PICK M \in SUBSET Box, T \in SUBSET Box, R \in SUBSET Box, D \in SUBSET Box, F \in SUBSET Box :
        Counts(M, T, R, D, F) /\ Paths(M, T, R, D, F)
  BY DEF LedgerInv, Ledger
<1>2. cycle_credits(metrics) <= PathWork(pacing) * bytes
  <2>1. Bytes(M) * pacing.mark_factor + Bytes(T) * pacing.trace_factor
          + Bytes(R) * pacing.keep_factor + Bytes(D) * pacing.drop_factor
          + Bytes(F) * pacing.free_factor
        <= PathWork(pacing) * (Bytes(alloc) + Bytes(F))
    <3>1. /\ M \in SUBSET alloc /\ T \in SUBSET alloc /\ R \in SUBSET alloc
          /\ F \cap alloc = {} /\ D \in SUBSET (alloc \cup F) /\ D \cap T = {}
      BY <1>1 DEF Paths
    <3> QED
      BY <3>1, CreditsBounded
  <2> QED
    BY <1>1, <2>1 DEF Counts, cycle_credits
<1>3. PathWork(pacing) * bytes >= 0 /\ PathWork(pacing) * bytes \in Int
  <2>1. bytes \in Nat
    BY <1>1, BytesType DEF Counts
  <2>2. PathWork(pacing) \in Nat
    BY PathWorkBounds
  <2> HIDE DEF bytes
  <2> QED
    BY <2>1, <2>2
<1>4. cycle_debits(metrics) \in Int /\ cycle_credits(metrics) \in Int
  BY DebtType DEF MetricsTypeOK
<1> DEFINE rest == cycle_debits(metrics) - cycle_credits(metrics)
           work == PathWork(pacing) * bytes
<1>5. rest \in Int /\ rest > 0 /\ cycle_debits(metrics) > 0
  <2>1. work \in Int /\ work >= 0 /\ cycle_credits(metrics) <= work /\ cycle_debits(metrics) > work
    BY <1>2, <1>3
  <2> HIDE DEF work
  <2> QED
    BY <1>4, <2>1
<1>6. Max({0, rest}) > 0
  <2> HIDE DEF rest
  <2> QED
    BY <1>5, MaxZero
<1>7. metrics.total_gcs # 0 /\ ~(cycle_debits(metrics) <= 0)
  BY <1>4, <1>5 DEF MetricsTypeOK, Counters
<1> QED
  BY <1>6, <1>7 DEF allocation_debt

\* The counters of a cycle are the bytes of its boxes, each counted along one
\* path, for as long as usize can count the bytes of the heap.
THEOREM CountersKeepLedger ==
  ASSUME LeafWrites = FALSE
  PROVE  PacedSpec /\ []HeapFits => []LedgerInv
<1>1. MetricsTypeOK /\ IInv /\ IInv' /\ HeapFits /\ HeapFits' /\ LedgerInv /\ [PacedNext]_paced_vars
      => LedgerInv'
  BY LedgerStep
<1> QED
  BY <1>1, LedgerInit, CountersHoldNumbers, PacedInvariance, PTL DEF PacedSpec

\* Debt beyond PathWork for every byte of a cycle keeps the collector at work
\* until the cycle ends, for any heap usize can count and any factors.
THEOREM CollectorNeverStalls ==
  ASSUME LeafWrites = FALSE
  PROVE  PacedSpec /\ []HeapFits => []NeverStalls
<1>1. MetricsTypeOK /\ LedgerInv => NeverStalls
  BY LedgerBounds
<1> QED
  BY <1>1, CountersKeepLedger, CountersHoldNumbers, PTL
=============================================================================
