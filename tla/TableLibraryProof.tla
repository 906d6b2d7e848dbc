------------------------- MODULE TableLibraryProof --------------------------
(***************************************************************************)
(* The table library is correct for every integer width, every array and   *)
(* every comparator: functions that shift elements leave what the manual   *)
(* says, and the quicksort of table.sort stays in its bounds, loses        *)
(* nothing and sorts.                                                      *)
(***************************************************************************)
EXTENDS TableLibraryInv, Induction, SequenceTheorems

\* Tables of values from V, at the integer keys from MinInt on.
State(V) == [array : Seq(V), misc : [MinInt..0 -> V]]
IntKeys == MinInt..MaxInt
-----------------------------------------------------------------------------
(* Numbers                                                                 *)

\* The ends of the integers, and nil beyond them.
LEMMA Width == MaxInt \in Nat /\ MinInt \in Int /\ MinInt <= -1 /\ Nil \in Nat /\ Nil = MaxInt + 1
BY IntAssumption DEF Nil

\* The larger of two integers.
LEMMA MaxOfTwo ==
    ASSUME NEW a \in Int, NEW b \in Int
    PROVE  Max({a, b}) = IF a >= b THEN a ELSE b
<1> DEFINE m == IF a >= b THEN a ELSE b
<1>1. m \in {a, b} /\ \A y \in {a, b} : m >= y
  OBVIOUS
<1>2. \A x \in {a, b} : (\A y \in {a, b} : x >= y) => x = m
  OBVIOUS
<1> HIDE DEF m
<1>3. Max({a, b}) \in {a, b} /\ \A y \in {a, b} : Max({a, b}) >= y
  BY <1>1 DEF Max
<1> QED
  BY <1>2, <1>3 DEF m

\* A function on 1..m is a sequence of length m.
LEMMA FunctionSeq ==
    ASSUME NEW V, NEW m \in Nat, NEW a \in [1..m -> V]
    PROVE  a \in Seq(V) /\ Len(a) = m
<1>1. a \in Seq(V)
  BY SeqDef
<1>2. Len(a) \in Nat /\ DOMAIN a = 1..Len(a) /\ DOMAIN a = 1..m
  BY <1>1, LenProperties
<1>3. Len(a) <= m /\ m <= Len(a)
  <2>1. \A i \in Nat : i >= 1 => (i \in 1..Len(a) <=> i \in 1..m)
    BY <1>2
  <2> QED
    BY <1>2, <2>1
<1> QED
  BY <1>1, <1>2, <1>3
-----------------------------------------------------------------------------
(* Tables                                                                  *)

\* raw_len is the length of the array part.
LEMMA Lengths ==
    ASSUME NEW V, NEW t \in State(V)
    PROVE  raw_len(t) \in Nat /\ DOMAIN t.array = 1..raw_len(t) /\ t.array \in Seq(V)
BY DEF State, raw_len

\* raw_get reads the array, the hash, or nothing.
LEMMA RawGet ==
    ASSUME NEW V, Nil \in V, NEW t \in State(V), NEW k \in Int, MinInt <= k
    PROVE  /\ raw_get(t, k) \in V
           /\ k \in 1..raw_len(t) => raw_get(t, k) = t.array[k]
BY Width DEF State, raw_get, raw_len

\* raw_set stores at one key and changes no other.
LEMMA RawSet ==
    ASSUME NEW V, Nil \in V, NEW t \in State(V), NEW k \in Int, MinInt <= k, NEW v \in V
    PROVE  /\ raw_set(t, k, v) \in State(V)
           /\ raw_len(raw_set(t, k, v)) = IF k > raw_len(t) THEN k ELSE raw_len(t)
           /\ \A j \in Int : MinInt <= j =>
                 raw_get(raw_set(t, k, v), j) = IF j = k THEN v ELSE raw_get(t, j)
<1> DEFINE n == raw_len(t)
<1>1. t.array \in Seq(V) /\ t.misc \in [MinInt..0 -> V] /\ n \in Nat
      /\ DOMAIN t.array = 1..n /\ \A i \in 1..n : t.array[i] \in V
  BY DEF State, raw_len
<1>2. CASE k < 1
  <2> DEFINE h == [t.misc EXCEPT ![k] = v]
  <2>1. raw_set(t, k, v) = [t EXCEPT !.misc = h]
    BY <1>2 DEF raw_set
  <2>2. h \in [MinInt..0 -> V] /\ \A j \in MinInt..0 : h[j] = IF j = k THEN v ELSE t.misc[j]
    BY <1>1, <1>2
  <2> HIDE DEF h
  <2>3. raw_set(t, k, v).array = t.array /\ raw_set(t, k, v).misc = h
        /\ raw_set(t, k, v) \in State(V)
    BY <2>1, <2>2 DEF State
  <2>4. \A j \in Int : MinInt <= j /\ j < 1 => j \in MinInt..0
    BY Width
  <2> QED
    BY <1>1, <1>2, <2>2, <2>3, <2>4 DEF raw_get, raw_len
<1>3. CASE k >= 1
  <2> DEFINE m == IF k > n THEN k ELSE n
             a == [i \in 1..m |-> IF i = k THEN v ELSE IF i <= n THEN t.array[i] ELSE Nil]
  <2>1. Max({k, n}) = m /\ m \in Nat
    BY <1>1, <1>3, MaxOfTwo
  <2>2. raw_set(t, k, v) = [t EXCEPT !.array = a]
    <3> DEFINE b == [i \in 1..Max({k, Len(t.array)}) |->
                       IF i = k THEN v ELSE IF i <= Len(t.array) THEN t.array[i] ELSE Nil]
    <3>0. ~(k < 1)
      BY <1>3
    <3>1. raw_set(t, k, v) = [t EXCEPT !.array = b]
      BY <3>0, Zenon DEF raw_set
    <3>2. b = a
      BY <2>1, Zenon DEF raw_len
    <3> QED
      BY <3>1, <3>2, Zenon
  <2>3. a \in Seq(V) /\ Len(a) = m
    <3>1. a \in [1..m -> V]
      BY <1>1, <2>1
    <3> HIDE DEF a, m
    <3> QED
      BY <2>1, <3>1, FunctionSeq
  <2>4. \A i \in 1..m : a[i] = IF i = k THEN v ELSE IF i <= n THEN t.array[i] ELSE Nil
    OBVIOUS
  <2> HIDE DEF a
  <2>5. raw_set(t, k, v).array = a /\ raw_set(t, k, v).misc = t.misc
        /\ raw_set(t, k, v) \in State(V)
    BY <1>1, <2>2, <2>3 DEF State
  <2> QED
    BY <1>1, <1>3, <2>1, <2>3, <2>4, <2>5 DEF raw_get, raw_len
<1> QED
  BY <1>2, <1>3
-----------------------------------------------------------------------------
(* Swaps                                                                   *)

Content == Vals \cup {Nil}

\* What a table of the program holds.
LEMMA Contents == Content \subseteq Nat /\ Nil \in Content /\ TableState = State(Content)
BY BoundsAssumption, Width DEF Content, TableState, State

\* b differs from a only by a rearrangement of the elements from lo to up.
Rearranged(a, b, n, lo, up) ==
    /\ \A j \in lo..up : \E i \in lo..up : b[j] = a[i]
    /\ \A j \in (1..n) \ (lo..up) : b[j] = a[j]

\* swap exchanges two elements and leaves the others and the length alone.
LEMMA Swap ==
    ASSUME NEW t \in State(Content), NEW x \in 1..raw_len(t), NEW y \in 1..raw_len(t)
    PROVE  LET u == swap(t, x, y) IN
           /\ u \in State(Content) /\ raw_len(u) = raw_len(t)
           /\ u.array[x] = t.array[y] /\ u.array[y] = t.array[x]
           /\ \A j \in 1..raw_len(t) : j \notin {x, y} => u.array[j] = t.array[j]
<1> DEFINE n == raw_len(t)
           s == raw_set(t, x, raw_get(t, y))
           u == swap(t, x, y)
<1>1. /\ n \in Nat /\ \A j \in 1..n : raw_get(t, j) \in Content /\ raw_get(t, j) = t.array[j]
      /\ \A j \in 1..n : j \in Int /\ MinInt <= j
  <2>1. n \in Nat
    BY Lengths
  <2>2. \A j \in 1..n : j \in Int /\ MinInt <= j
    BY <2>1, Width
  <2>3. Nil \in Content
    BY Contents
  <2>4. ASSUME NEW j \in 1..n
        PROVE  raw_get(t, j) \in Content /\ raw_get(t, j) = t.array[j]
    <3>1. raw_get(t, j) \in Content /\ (j \in 1..raw_len(t) => raw_get(t, j) = t.array[j])
      BY <2>2, <2>3, RawGet, Zenon
    <3> QED
      BY <3>1
  <2> QED
    BY <2>1, <2>2, <2>4
<1>2. /\ s \in State(Content) /\ raw_len(s) = n
      /\ \A j \in 1..n : raw_get(s, j) = IF j = x THEN raw_get(t, y) ELSE raw_get(t, j)
  BY <1>1, RawSet, Contents
<1>3. u = raw_set(s, y, raw_get(t, x))
  BY DEF swap
<1> HIDE DEF s, u
<1>4. /\ u \in State(Content) /\ raw_len(u) = n
      /\ \A j \in 1..n : raw_get(u, j) = IF j = y THEN raw_get(t, x) ELSE raw_get(s, j)
  BY <1>1, <1>2, <1>3, RawSet, Contents
<1>5. \A j \in 1..n : u.array[j] = raw_get(u, j)
  BY <1>1, <1>4, RawGet, Contents
<1> QED
  BY <1>1, <1>2, <1>4, <1>5 DEF u

\* A swap within a range rearranges it.
LEMMA SwapRearranges ==
    ASSUME NEW t \in State(Content), NEW n \in Nat, n <= raw_len(t),
           NEW lo \in Nat, NEW up \in Nat, 1 <= lo, up <= n,
           NEW x \in lo..up, NEW y \in lo..up
    PROVE  LET u == swap(t, x, y) IN
           /\ u \in State(Content) /\ raw_len(u) = raw_len(t)
           /\ Rearranged(t.array, u.array, n, lo, up)
           /\ u.array[x] = t.array[y] /\ u.array[y] = t.array[x]
           /\ \A j \in 1..n : j \notin {x, y} => u.array[j] = t.array[j]
<1>1. raw_len(t) \in Nat /\ x \in 1..raw_len(t) /\ y \in 1..raw_len(t)
      /\ (\A j \in 1..n : j \in 1..raw_len(t))
      /\ (\A j \in lo..up : j \in 1..n)
  BY Lengths
<1> DEFINE u == swap(t, x, y)
<1>2. /\ u \in State(Content) /\ raw_len(u) = raw_len(t)
      /\ u.array[x] = t.array[y] /\ u.array[y] = t.array[x]
      /\ \A j \in 1..raw_len(t) : j \notin {x, y} => u.array[j] = t.array[j]
  BY <1>1, Swap
<1> HIDE DEF u
<1>3. Rearranged(t.array, u.array, n, lo, up)
  BY <1>1, <1>2 DEF Rearranged
<1> QED
  BY <1>1, <1>2, <1>3 DEF u

\* A swap keeps how often each value occurs.
LEMMA SwapCount ==
    ASSUME NEW t \in State(Content), NEW x \in 1..raw_len(t), NEW y \in 1..raw_len(t)
    PROVE  Count(swap(t, x, y).array) = Count(t.array)
<1> DEFINE n == raw_len(t)
           u == swap(t, x, y)
           Other(j) == IF j = x THEN y ELSE IF j = y THEN x ELSE j
<1>1. /\ DOMAIN t.array = 1..n /\ DOMAIN u.array = 1..n /\ n \in Nat
      /\ \A j \in 1..n : Other(j) \in 1..n /\ u.array[Other(j)] = t.array[j]
      /\ \A j \in 1..n : Other(Other(j)) = j
  <2>1. /\ u \in State(Content) /\ raw_len(u) = n
        /\ u.array[x] = t.array[y] /\ u.array[y] = t.array[x]
        /\ \A j \in 1..n : j \notin {x, y} => u.array[j] = t.array[j]
    BY Swap
  <2> HIDE DEF u
  <2> QED
    BY <2>1, Lengths
<1> HIDE DEF u, Other
<1>2. ASSUME NEW v PROVE Cardinality({i \in 1..n : u.array[i] = v}) = Cardinality({i \in 1..n : t.array[i] = v})
  <2> DEFINE S == {i \in 1..n : t.array[i] = v}
             T == {i \in 1..n : u.array[i] = v}
             f == [i \in S |-> Other(i)]
  <2>1. f \in [S -> T] /\ \A i, j \in S : f[i] = f[j] => i = j
    BY <1>1
  <2>2. \A j \in T : \E i \in S : f[i] = j
    <3> SUFFICES ASSUME NEW j \in T PROVE Other(j) \in S /\ Other(Other(j)) = j
      OBVIOUS
    <3>1. Other(j) \in 1..n /\ Other(Other(j)) = j
      BY <1>1
    <3>2. u.array[Other(Other(j))] = t.array[Other(j)]
      BY <1>1, <3>1
    <3> QED
      BY <3>1, <3>2
  <2>3. IsFiniteSet(S)
    <3>1. IsFiniteSet(1..n) /\ S \in SUBSET (1..n)
      BY <1>1, FS_Interval
    <3> HIDE DEF S
    <3> QED
      BY <3>1, FS_Subset
  <2> HIDE DEF S, T, f
  <2>4. ExistsBijection(S, T)
    BY <2>1, <2>2 DEF ExistsBijection, Bijection, Injection, Surjection, IsInjective
  <2>5. Cardinality(T) = Cardinality(S)
    BY <2>3, <2>4, FS_Bijection
  <2> QED
    BY <2>5 DEF S, T
<1>3. /\ Count(u.array) = [v \in Content |-> Cardinality({i \in 1..n : u.array[i] = v})]
      /\ Count(t.array) = [v \in Content |-> Cardinality({i \in 1..n : t.array[i] = v})]
  BY <1>1, Zenon DEF Count, Content
<1>4. Count(u.array) = Count(t.array)
  BY <1>2, <1>3, Zenon
<1> QED
  BY <1>4 DEF u
-----------------------------------------------------------------------------
(* Ranges                                                                  *)

\* Rearranging one of the ranges keeps the elements of different ranges in order.
LEMMA RearrangedSeparates ==
    ASSUME NEW n \in Nat, NEW a, NEW b, NEW parts, Partitioned(parts, n), Separated(a, n, parts),
           NEW m \in DOMAIN parts, NEW lo \in Nat, NEW up \in Nat, parts[m] = <<lo, up>>,
           Rearranged(a, b, n, lo, up)
    PROVE  Separated(b, n, parts)
<1>1. /\ 1 <= lo /\ up <= n /\ Part(parts[m]) = lo..up
      /\ \A k \in DOMAIN parts : k # m => Part(parts[k]) \cap (lo..up) = {}
  BY DEF Partitioned, Part
<1> SUFFICES ASSUME NEW x \in 1..n, NEW y \in 1..n, x < y,
                    \A k \in DOMAIN parts : ~({x, y} \subseteq Part(parts[k]))
             PROVE  b[x] <= b[y]
  BY DEF Separated
<1>2. ~(x \in lo..up /\ y \in lo..up)
  BY <1>1
<1>0. \A z \in 1..n : \E i \in 1..n :
          b[z] = a[i] /\ (z \in lo..up => i \in lo..up) /\ (z \notin lo..up => i = z)
  <2> SUFFICES ASSUME NEW z \in 1..n
               PROVE  \E i \in 1..n : /\ b[z] = a[i]
                                      /\ z \in lo..up => i \in lo..up
                                      /\ z \notin lo..up => i = z
    OBVIOUS
  <2>1. CASE z \in lo..up
    <3>1. PICK i \in lo..up : b[z] = a[i]
      BY <2>1 DEF Rearranged
    <3>2. i \in 1..n
      BY <1>1
    <3> QED
      BY <2>1, <3>1, <3>2
  <2>2. CASE z \notin lo..up
    BY <2>2 DEF Rearranged
  <2> QED
    BY <2>1, <2>2
<1>3. PICK i \in 1..n : b[x] = a[i] /\ (x \in lo..up => i \in lo..up) /\ (x \notin lo..up => i = x)
  BY <1>0
<1>4. PICK j \in 1..n : b[y] = a[j] /\ (y \in lo..up => j \in lo..up) /\ (y \notin lo..up => j = y)
  BY <1>0
<1>5. i < j
  BY <1>1, <1>2, <1>3, <1>4
<1>6. \A k \in DOMAIN parts : ~({i, j} \subseteq Part(parts[k]))
  <2> SUFFICES ASSUME NEW k \in DOMAIN parts, i \in Part(parts[k]), j \in Part(parts[k]) PROVE FALSE
    OBVIOUS
  <2>1. CASE k = m
    BY <1>1, <1>2, <1>3, <1>4, <2>1
  <2>2. CASE k # m
    BY <1>1, <1>3, <1>4, <2>2
  <2> QED
    BY <2>1, <2>2
<1> QED
  BY <1>3, <1>4, <1>5, <1>6 DEF Separated

\* A finer partition separates what is in order already.
Finer(a, n, parts, finer) ==
    \A x, y \in 1..n : \A k \in DOMAIN parts :
        x < y /\ {x, y} \subseteq Part(parts[k]) =>
            \/ a[x] <= a[y]
            \/ \E l \in DOMAIN finer : {x, y} \subseteq Part(finer[l])

\* Ranges may be replaced by others if what the old ones separate stays in order.
LEMMA FinerSeparates ==
    ASSUME NEW n \in Nat, NEW a, NEW parts, NEW finer, Separated(a, n, parts),
           Finer(a, n, parts, finer)
    PROVE  Separated(a, n, finer)
<1> SUFFICES ASSUME NEW x \in 1..n, NEW y \in 1..n, x < y,
                    \A l \in DOMAIN finer : ~({x, y} \subseteq Part(finer[l]))
             PROVE  a[x] <= a[y]
  BY DEF Separated
<1> QED
  BY DEF Separated, Finer

Ranges == (0..MaxLen + 1) \X (0..MaxLen)

\* r, reached from s, goes on with the last range of work that has two
\* elements, if there is one.
GoesOnWithLast(r, s, work) ==
    LET Open(k) == work[k][1] < work[k][2] IN
    /\ r \in Sorts
    /\ r.comp = s.comp /\ r.n = s.n /\ r.orig = s.orig /\ r.alone = s.alone
    /\ \/ /\ r.st = "done" /\ r.pc = "end" /\ r.work = <<>>
          /\ \A k \in DOMAIN work : ~Open(k)
       \/ \E k \in DOMAIN work :
             /\ r.st = "running" /\ r.pc = "ends" /\ r.work = SubSeq(work, 1, k - 1)
             /\ Open(k) /\ r.lo = work[k][1] /\ r.up = work[k][2]
             /\ \A l \in DOMAIN work : l > k => ~Open(l)

\* pop finds the last range worth sorting.
LEMMA Popped ==
    ASSUME NEW work \in Seq(Ranges), NEW s \in Sorts
    PROVE  GoesOnWithLast(pop(s, work), s, work)
<1> DEFINE O == {k \in DOMAIN work : work[k][1] < work[k][2]}
           r == pop(s, work)
<1>1. CASE O = {}
  <2>1. r = [s EXCEPT !.st = "done", !.pc = "end", !.work = <<>>, !.lo = 0, !.up = 0, !.i = 0, !.j = 0]
    BY <1>1 DEF pop
  <2>2. 0 \in 0..MaxLen /\ <<>> \in Seq(Ranges)
    BY BoundsAssumption
  <2>3. r \in Sorts /\ r.st = "done" /\ r.pc = "end" /\ r.work = <<>>
        /\ r.comp = s.comp /\ r.n = s.n /\ r.orig = s.orig /\ r.alone = s.alone
    BY <2>1, <2>2 DEF Sorts, Ranges
  <2> HIDE DEF r
  <2>9. GoesOnWithLast(r, s, work)
    BY <1>1, <2>3 DEF GoesOnWithLast
  <2> QED
    BY <2>9, Zenon DEF r
<1>2. CASE O # {}
  <2>1. DOMAIN work = 1..Len(work) /\ Len(work) \in Nat
    BY LenProperties
  <2> DEFINE k == Max(O)
  <2>2. k \in O /\ \A l \in O : k >= l
    <3>1. O \subseteq 0..Len(work)
      BY <2>1
    <3> HIDE DEF O
    <3> QED
      BY <1>2, <2>1, <3>1, GreatestMember DEF Max
  <2>3. r = [s EXCEPT !.st = "running", !.pc = "ends", !.work = SubSeq(work, 1, k - 1),
                      !.lo = work[k][1], !.up = work[k][2], !.i = 0, !.j = 0]
    BY <1>2 DEF pop
  <2>4. work[k] \in Ranges /\ k \in 1..Len(work)
    BY <2>1, <2>2, LenProperties
  <2>5. work[k][1] \in 0..MaxLen /\ work[k][2] \in 0..MaxLen /\ 0 \in 0..MaxLen
    BY <2>2, <2>4, BoundsAssumption DEF Ranges
  <2>6. SubSeq(work, 1, k - 1) \in Seq(Ranges)
    <3>1. k \in Nat /\ k <= Len(work)
      BY <2>1, <2>4
    <3>2. \A i \in 1..(k - 1) : work[i] \in Ranges
      BY <2>1, <3>1, ElementOfSeq
    <3> HIDE DEF k
    <3> QED
      BY <3>1, <3>2, SubSeqProperties
  <2> HIDE DEF k
  <2>7. r \in Sorts /\ r.st = "running" /\ r.pc = "ends" /\ r.work = SubSeq(work, 1, k - 1)
        /\ r.lo = work[k][1] /\ r.up = work[k][2]
        /\ r.comp = s.comp /\ r.n = s.n /\ r.orig = s.orig /\ r.alone = s.alone
    BY <2>3, <2>5, <2>6 DEF Sorts, Ranges
  <2>8. \A l \in DOMAIN work : l > k => ~(work[l][1] < work[l][2])
    <3>1. k \in Int
      BY <2>4
    <3> QED
      BY <2>1, <2>2, <3>1
  <2> HIDE DEF r
  <2>9. GoesOnWithLast(r, s, work)
    BY <2>2, <2>7, <2>8 DEF GoesOnWithLast
  <2> QED
    BY <2>9, Zenon DEF r
<1> QED
  BY <1>1, <1>2
-----------------------------------------------------------------------------
(* One step of sort                                                        *)

\* What the invariant says while a sort runs.
LEMMA Sorting ==
    ASSUME IInv, SortRuns
    PROVE  LET n == sort.n
               m == Len(sort.work) + 1
           IN  /\ sort # NoSort /\ sort \in Sorts /\ sort.st \in {"running", "calling"}
               /\ tbl \in State(Content) /\ raw_len(tbl) \in Nat
               /\ n \in Nat /\ n <= raw_len(tbl) /\ raw_len(tbl) <= MaxLen /\ MaxLen \in Nat
               /\ sort.lo \in Nat /\ sort.up \in Nat /\ sort.i \in Nat /\ sort.j \in Nat
               /\ 1 <= sort.lo /\ sort.lo < sort.up /\ sort.up <= n
               /\ sort.work \in Seq(Ranges) /\ Parts(sort) = Append(sort.work, <<sort.lo, sort.up>>)
               /\ m \in Nat /\ DOMAIN Parts(sort) = 1..m /\ DOMAIN sort.work = 1..(m - 1)
               /\ Parts(sort)[m] = <<sort.lo, sort.up>>
               /\ \A k \in 1..(m - 1) : Parts(sort)[k] = sort.work[k]
               /\ Partitioned(Parts(sort), n) /\ Cursors(sort)
               /\ \A k \in 1..n : tbl.array[k] \in Nat
               /\ sort.comp # "any" =>
                     /\ Separated(tbl.array, n, Parts(sort)) /\ Established(sort, tbl.array)
<1>1. sort # NoSort /\ sort.st \in {"running", "calling"}
  BY DEF SortRuns, NoSort
<1>2. /\ sort \in Sorts /\ sort.n <= raw_len(tbl) /\ Partitioned(Parts(sort), sort.n)
      /\ Cursors(sort) /\ sort.lo < sort.up
      /\ tbl \in State(Content) /\ raw_len(tbl) <= MaxLen
      /\ sort.comp # "any" =>
            /\ Separated(tbl.array, sort.n, Parts(sort)) /\ Established(sort, tbl.array)
  BY <1>1, Contents DEF IInv, TableInv, RangesInv, OrderInv, SortRuns
<1>3. /\ sort.n \in Nat /\ sort.lo \in 0..MaxLen /\ sort.up \in 0..MaxLen
      /\ sort.i \in Nat /\ sort.j \in Nat
      /\ sort.work \in Seq(Ranges) /\ MaxLen \in Nat
  BY <1>2, BoundsAssumption DEF Sorts, Ranges
<1>4. Parts(sort) = Append(sort.work, <<sort.lo, sort.up>>)
  BY <1>1 DEF Parts
<1>5. /\ Len(sort.work) \in Nat /\ DOMAIN sort.work = 1..Len(sort.work)
      /\ <<sort.lo, sort.up>> \in Ranges
  BY <1>3, LenProperties DEF Ranges
<1>6. /\ DOMAIN Parts(sort) = 1..(Len(sort.work) + 1)
      /\ Parts(sort)[Len(sort.work) + 1] = <<sort.lo, sort.up>>
      /\ \A k \in 1..Len(sort.work) : Parts(sort)[k] = sort.work[k]
  BY <1>3, <1>4, <1>5, AppendProperties, LenProperties
<1>7. 1 <= sort.lo /\ sort.up <= sort.n
  BY <1>2, <1>5, <1>6 DEF Partitioned
<1>8. raw_len(tbl) \in Nat /\ \A k \in 1..sort.n : tbl.array[k] \in Nat
  <2>1. /\ raw_len(tbl) \in Nat /\ DOMAIN tbl.array = 1..raw_len(tbl) /\ tbl.array \in Seq(Content)
    BY <1>2, Lengths
  <2>2. \A k \in 1..raw_len(tbl) : tbl.array[k] \in Content
    BY <2>1, ElementOfSeq DEF raw_len
  <2>3. \A k \in 1..sort.n : k \in 1..raw_len(tbl)
    BY <1>2, <1>3, <2>1
  <2>4. \A k \in 1..sort.n : tbl.array[k] \in Nat
    BY <2>2, <2>3, Contents
  <2> QED
    BY <2>1, <2>4
<1> QED
  BY <1>1, <1>2, <1>3, <1>4, <1>5, <1>6, <1>7, <1>8

\* What a step of sort has to leave.
LEMMA Advance ==
    ASSUME IInv, SortRuns, NEW r \in Sorts, NEW t \in State(Content),
           r.st \in {"running", "done", "invalid", "raised"},
           r.comp = sort.comp, r.n = sort.n, r.orig = sort.orig, r.alone = sort.alone,
           raw_len(t) = raw_len(tbl), Count(t.array) = Count(tbl.array),
           Partitioned(Parts(r), sort.n),
           r.st = "running" => Cursors(r) /\ r.lo < r.up,
           r.st = "done" => r.work = <<>>,
           sort.comp # "any" =>
               /\ r.st # "invalid" /\ (r.st # "raised" => Separated(t.array, sort.n, Parts(r)))
               /\ r.st = "running" => Established(r, t.array),
           tbl' = t, sort' = r
    PROVE  IInv'
<1>1. sort # NoSort /\ tbl \in State(Content) /\ raw_len(tbl) <= MaxLen
  BY Sorting
<1>2. TableInv'
  BY <1>1, Contents DEF TableInv
<1>3. RangesInv'
  BY <1>1 DEF IInv, RangesInv, SortRuns
<1>4. CallInv'
  BY <1>1 DEF IInv, CallInv
<1>5. OrderInv'
  BY <1>1 DEF OrderInv, SortRuns
<1> QED
  BY <1>2, <1>3, <1>4, <1>5 DEF IInv

\* The range in hand is done with: pop goes on with one of those put off.
LEMMA NextRange ==
    ASSUME IInv, SortRuns, NEW s \in Sorts, NEW t \in State(Content), NEW work \in Seq(Ranges),
           s.comp = sort.comp, s.n = sort.n, s.orig = sort.orig, s.alone = sort.alone,
           raw_len(t) = raw_len(tbl), Count(t.array) = Count(tbl.array),
           Partitioned(work, sort.n),
           sort.comp # "any" => Separated(t.array, sort.n, work),
           tbl' = t, sort' = pop(s, work)
    PROVE  IInv'
<1> DEFINE r == pop(s, work)
           n == sort.n
           Open(k) == work[k][1] < work[k][2]
<1>1. /\ r \in Sorts /\ n \in Nat
      /\ r.comp = s.comp /\ r.n = s.n /\ r.orig = s.orig /\ r.alone = s.alone
      /\ \/ /\ r.st = "done" /\ r.pc = "end" /\ r.work = <<>>
            /\ \A k \in DOMAIN work : ~Open(k)
         \/ \E k \in DOMAIN work :
               /\ r.st = "running" /\ r.pc = "ends" /\ r.work = SubSeq(work, 1, k - 1)
               /\ Open(k) /\ r.lo = work[k][1] /\ r.up = work[k][2]
               /\ \A l \in DOMAIN work : l > k => ~Open(l)
  <2>1. GoesOnWithLast(r, s, work) /\ n \in Nat
    BY Popped, Sorting, Zenon
  <2> HIDE DEF r
  <2> QED
    BY <2>1 DEF GoesOnWithLast
<1>2. /\ Len(work) \in Nat /\ DOMAIN work = 1..Len(work)
      /\ \A k \in DOMAIN work : work[k] \in Ranges /\ work[k] = <<work[k][1], work[k][2]>>
      /\ \A k \in DOMAIN work : work[k][1] \in Nat /\ work[k][2] \in Nat
  BY LenProperties, ElementOfSeq, BoundsAssumption DEF Ranges
<1>3. \A k \in DOMAIN work : ~Open(k) => \A x, y \in Part(work[k]) : ~(x < y)
  BY <1>2 DEF Part
<1> HIDE DEF r
<1>4. CASE r.st = "done" /\ r.pc = "end" /\ r.work = <<>> /\ \A k \in DOMAIN work : ~Open(k)
  <2>1. Parts(r) = <<>> /\ DOMAIN <<>> = {}
    BY <1>4 DEF Parts
  <2>2. Partitioned(Parts(r), n)
    BY <2>1 DEF Partitioned
  <2>3. sort.comp # "any" => Separated(t.array, n, Parts(r))
    <3>1. Finer(t.array, n, work, Parts(r))
      BY <1>3, <1>4 DEF Finer
    <3> QED
      BY <1>1, <3>1, FinerSeparates
  <2> QED
    BY <1>1, <1>4, <2>2, <2>3, Advance DEF r
<1>5. ASSUME NEW k \in DOMAIN work,
             r.st = "running", r.pc = "ends", r.work = SubSeq(work, 1, k - 1),
             Open(k), r.lo = work[k][1], r.up = work[k][2],
             \A l \in DOMAIN work : l > k => ~Open(l)
      PROVE  IInv'
  <2>1. k \in Nat /\ k >= 1 /\ k <= Len(work) /\ \A l \in 1..k : l \in DOMAIN work
    BY <1>2
  <2>2. /\ r.work \in Seq(Ranges) /\ Len(r.work) = k - 1
        /\ \A l \in 1..(k - 1) : r.work[l] = work[l]
    <3>1. \A l \in 1..(k - 1) : work[l] \in Ranges
      BY <1>2, <2>1
    <3> QED
      BY <1>5, <2>1, <3>1, SubSeqProperties
  <2>3. Parts(r) = Append(r.work, work[k])
    BY <1>2, <1>5 DEF Parts
  <2>4. DOMAIN Parts(r) = 1..k /\ \A l \in 1..k : Parts(r)[l] = work[l]
    BY <1>2, <2>1, <2>2, <2>3, AppendProperties, LenProperties
  <2>5. Partitioned(Parts(r), n)
    BY <2>1, <2>4 DEF Partitioned
  <2>6. sort.comp # "any" => Separated(t.array, n, Parts(r))
    <3> SUFFICES ASSUME sort.comp # "any" PROVE Separated(t.array, n, Parts(r))
      OBVIOUS
    <3>1. ASSUME NEW x \in 1..n, NEW y \in 1..n, NEW l \in DOMAIN work, x < y,
                 {x, y} \subseteq Part(work[l])
          PROVE  \E q \in DOMAIN Parts(r) : {x, y} \subseteq Part(Parts(r)[q])
      <4>1. ~(l > k)
        BY <1>3, <1>5, <3>1
      <4>2. l \in 1..k
        BY <1>2, <2>1, <4>1
      <4> QED
        BY <2>4, <3>1, <4>2
    <3>2. Finer(t.array, n, work, Parts(r))
      BY <3>1 DEF Finer
    <3> QED
      BY <1>1, <3>2, FinerSeparates
  <2>7. Cursors(r) /\ r.lo < r.up /\ Established(r, t.array)
    BY <1>5 DEF Cursors, Established
  <2> QED
    BY <1>1, <1>5, <2>5, <2>6, <2>7, Advance DEF r
<1> QED
  BY <1>1, <1>4, <1>5

\* u is t with the range in hand rearranged.
Shuffle(t, u) ==
    /\ u \in State(Content) /\ raw_len(u) = raw_len(t) /\ Count(u.array) = Count(t.array)
    /\ Rearranged(t.array, u.array, sort.n, sort.lo, sort.up)

\* Doing nothing rearranges the range in hand.
LEMMA ShuffleSame ==
    ASSUME IInv, SortRuns
    PROVE  Shuffle(tbl, tbl)
BY Sorting DEF Shuffle, Rearranged

\* For an order, the elements of the range in hand are numbers to compare.
LEMMA Elements ==
    ASSUME IInv, SortRuns, NEW t, Shuffle(tbl, t)
    PROVE  \A k \in sort.lo..sort.up : t.array[k] \in Nat
<1>1. /\ sort.lo \in Nat /\ sort.up \in Nat /\ sort.n \in Nat /\ 1 <= sort.lo /\ sort.up <= sort.n
      /\ \A k \in 1..sort.n : tbl.array[k] \in Nat
  BY Sorting
<1>2. \A k \in sort.lo..sort.up : \E i \in sort.lo..sort.up : t.array[k] = tbl.array[i]
  BY DEF Shuffle, Rearranged
<1>3. \A i \in sort.lo..sort.up : i \in 1..sort.n
  BY <1>1
<1> QED
  BY <1>1, <1>2, <1>3

\* Swaps within the range in hand shuffle it.
Swapped(t, u, x, y) ==
    /\ Shuffle(tbl, u)
    /\ u.array[x] = t.array[y] /\ u.array[y] = t.array[x]
    /\ \A j \in sort.lo..sort.up : j \notin {x, y} => u.array[j] = t.array[j]

\* A swap after a rearrangement of the range in hand is one again.
LEMMA ShuffleSwap ==
    ASSUME IInv, SortRuns, NEW t, Shuffle(tbl, t),
           NEW x \in sort.lo..sort.up, NEW y \in sort.lo..sort.up
    PROVE  Swapped(t, swap(t, x, y), x, y)
<1> DEFINE u == swap(t, x, y)
           n == sort.n
<1>1. /\ sort.lo \in Nat /\ sort.up \in Nat /\ n \in Nat /\ 1 <= sort.lo /\ sort.up <= n
      /\ n <= raw_len(tbl) /\ raw_len(tbl) \in Nat /\ tbl \in State(Content)
  BY Sorting
<1>2. /\ t \in State(Content) /\ raw_len(t) = raw_len(tbl) /\ Count(t.array) = Count(tbl.array)
      /\ Rearranged(tbl.array, t.array, n, sort.lo, sort.up)
  BY DEF Shuffle
<1>3. /\ u \in State(Content) /\ raw_len(u) = raw_len(t)
      /\ Rearranged(t.array, u.array, n, sort.lo, sort.up)
      /\ u.array[x] = t.array[y] /\ u.array[y] = t.array[x]
      /\ \A j \in 1..n : j \notin {x, y} => u.array[j] = t.array[j]
  BY <1>1, <1>2, SwapRearranges
<1>4. Count(u.array) = Count(t.array)
  <2>1. x \in 1..raw_len(t) /\ y \in 1..raw_len(t)
    BY <1>1, <1>2
  <2> QED
    BY <1>2, <2>1, SwapCount
<1> HIDE DEF u, n
<1>5. Rearranged(tbl.array, u.array, n, sort.lo, sort.up)
  <2>1. \A j \in sort.lo..sort.up : \E i \in sort.lo..sort.up : u.array[j] = tbl.array[i]
    <3> SUFFICES ASSUME NEW j \in sort.lo..sort.up
                 PROVE  \E i \in sort.lo..sort.up : u.array[j] = tbl.array[i]
      OBVIOUS
    <3>1. PICK k \in sort.lo..sort.up : u.array[j] = t.array[k]
      BY <1>3 DEF Rearranged
    <3>2. PICK i \in sort.lo..sort.up : t.array[k] = tbl.array[i]
      BY <1>2 DEF Rearranged
    <3> QED
      BY <3>1, <3>2
  <2>2. \A j \in (1..n) \ (sort.lo..sort.up) : u.array[j] = tbl.array[j]
    BY <1>2, <1>3 DEF Rearranged
  <2> QED
    BY <2>1, <2>2 DEF Rearranged
<1>6. Shuffle(tbl, u)
  BY <1>2, <1>3, <1>4, <1>5 DEF Shuffle, n
<1>7. \A j \in sort.lo..sort.up : j \notin {x, y} => u.array[j] = t.array[j]
  BY <1>1, <1>3
<1> QED
  BY <1>3, <1>6, <1>7 DEF u, Swapped

\* Rearranging the range in hand leaves the ranges separated.
LEMMA ShuffleSeparates ==
    ASSUME IInv, SortRuns, NEW t, Shuffle(tbl, t), sort.comp # "any"
    PROVE  Separated(t.array, sort.n, Parts(sort))
<1>1. Rearranged(tbl.array, t.array, sort.n, sort.lo, sort.up)
  BY DEF Shuffle
<1> DEFINE m == Len(sort.work) + 1
<1>2. /\ sort.n \in Nat /\ sort.lo \in Nat /\ sort.up \in Nat
      /\ Partitioned(Parts(sort), sort.n) /\ Separated(tbl.array, sort.n, Parts(sort))
      /\ m \in DOMAIN Parts(sort) /\ Parts(sort)[m] = <<sort.lo, sort.up>>
  <2>1. m \in Nat /\ m >= 1 /\ DOMAIN Parts(sort) = 1..m
    BY Sorting, LenProperties
  <2> HIDE DEF m
  <2>2. m \in DOMAIN Parts(sort)
    BY <2>1
  <2> QED
    BY <2>2, Sorting DEF m
<1> HIDE DEF m
<1> QED
  BY <1>1, <1>2, RearrangedSeparates

\* The sort of r is that of s, in another control state.
SameSort(r, s) == r.comp = s.comp /\ r.n = s.n /\ r.orig = s.orig /\ r.alone = s.alone

\* A step that stays with the range in hand.
LEMMA Stays ==
    ASSUME IInv, SortRuns, NEW t, Shuffle(tbl, t), NEW r \in Sorts, r.st = "running",
           SameSort(r, sort), r.work = sort.work, r.lo = sort.lo, r.up = sort.up,
           Cursors(r), sort.comp # "any" => Established(r, t.array),
           tbl' = t, sort' = r
    PROVE  IInv'
<1>1. Parts(r) = Parts(sort) /\ Partitioned(Parts(sort), sort.n) /\ sort.lo < sort.up
  BY Sorting DEF Parts
<1>2. /\ t \in State(Content) /\ raw_len(t) = raw_len(tbl) /\ Count(t.array) = Count(tbl.array)
      /\ r.comp = sort.comp /\ r.n = sort.n /\ r.orig = sort.orig /\ r.alone = sort.alone
  BY DEF Shuffle, SameSort
<1> QED
  BY <1>1, <1>2, ShuffleSeparates, Advance

\* sort ends with the range in hand where it is.
LEMMA Stops ==
    ASSUME IInv, SortRuns, NEW st \in {"invalid", "raised"},
           sort.comp # "any" => st = "raised",
           tbl' = tbl, sort' = Ends(sort, st)
    PROVE  IInv'
<1> DEFINE r == Ends(sort, st)
<1>1. /\ r \in Sorts /\ r.st = st /\ r.work = sort.work
      /\ r.comp = sort.comp /\ r.n = sort.n /\ r.orig = sort.orig /\ r.alone = sort.alone
  <2>1. sort \in Sorts
    BY Sorting
  <2> QED
    BY <2>1 DEF Ends, Sorts
<1> HIDE DEF r
<1>2. Parts(r) = sort.work
  BY <1>1 DEF Parts
<1>3. Partitioned(Parts(r), sort.n)
  <2>1. /\ Len(sort.work) + 1 \in Nat /\ DOMAIN Parts(sort) = 1..(Len(sort.work) + 1)
        /\ DOMAIN sort.work = 1..((Len(sort.work) + 1) - 1)
        /\ \A k \in 1..((Len(sort.work) + 1) - 1) : Parts(sort)[k] = sort.work[k]
        /\ Partitioned(Parts(sort), sort.n)
    BY Sorting
  <2>2. \A k \in DOMAIN sort.work : k \in DOMAIN Parts(sort) /\ Parts(sort)[k] = sort.work[k]
    BY <2>1
  <2> QED
    BY <1>2, <2>1, <2>2 DEF Partitioned
<1>4. tbl \in State(Content)
  BY Sorting
<1> QED
  BY <1>1, <1>3, <1>4, Advance DEF r

\* The range in hand is in order.
LEMMA Closes ==
    ASSUME IInv, SortRuns, NEW t, Shuffle(tbl, t), NEW s \in Sorts, SameSort(s, sort),
           sort.comp # "any" =>
               \A x, y \in sort.lo..sort.up : x < y => t.array[x] <= t.array[y],
           tbl' = t, sort' = pop(s, sort.work)
    PROVE  IInv'
<1> DEFINE m == Len(sort.work) + 1
<1>1. /\ m \in Nat /\ DOMAIN Parts(sort) = 1..m /\ DOMAIN sort.work = 1..(m - 1)
      /\ Parts(sort)[m] = <<sort.lo, sort.up>>
      /\ \A k \in 1..(m - 1) : Parts(sort)[k] = sort.work[k]
      /\ Partitioned(Parts(sort), sort.n) /\ sort.work \in Seq(Ranges) /\ sort.n \in Nat
  BY Sorting
<1> HIDE DEF m
<1>2. \A k \in DOMAIN sort.work : k \in DOMAIN Parts(sort) /\ Parts(sort)[k] = sort.work[k]
  BY <1>1
<1>3. Partitioned(sort.work, sort.n)
  BY <1>1, <1>2 DEF Partitioned
<1>4. sort.comp # "any" => Separated(t.array, sort.n, sort.work)
  <2> SUFFICES ASSUME sort.comp # "any" PROVE Separated(t.array, sort.n, sort.work)
    OBVIOUS
  <2>1. Separated(t.array, sort.n, Parts(sort))
    BY ShuffleSeparates
  <2>2. ASSUME NEW x \in 1..sort.n, NEW y \in 1..sort.n, NEW k \in DOMAIN Parts(sort),
               x < y, {x, y} \subseteq Part(Parts(sort)[k])
        PROVE  \/ t.array[x] <= t.array[y]
               \/ \E l \in DOMAIN sort.work : {x, y} \subseteq Part(sort.work[l])
    <3>1. CASE k = m
      BY <1>1, <2>2, <3>1 DEF Part
    <3>2. CASE k # m
      <4>1. k \in DOMAIN sort.work /\ Parts(sort)[k] = sort.work[k]
        BY <1>1, <3>2
      <4> QED
        BY <2>2, <4>1
    <3> QED
      BY <3>1, <3>2
  <2>3. Finer(t.array, sort.n, Parts(sort), sort.work)
    BY <2>2 DEF Finer
  <2> QED
    BY <1>1, <2>1, <2>3, FinerSeparates
<1>5. /\ t \in State(Content) /\ raw_len(t) = raw_len(tbl) /\ Count(t.array) = Count(tbl.array)
      /\ s.comp = sort.comp /\ s.n = sort.n /\ s.orig = sort.orig /\ s.alone = sort.alone
  BY DEF Shuffle, SameSort
<1> QED
  BY <1>1, <1>3, <1>4, <1>5, NextRange

\* The range in hand is partitioned around one index.
LEMMA Splits ==
    ASSUME IInv, SortRuns, NEW t, Shuffle(tbl, t), NEW s \in Sorts, SameSort(s, sort),
           s.work = sort.work, s.lo = sort.lo, s.up = sort.up,
           NEW i \in (sort.lo + 1)..(sort.up - 1),
           sort.comp # "any" =>
               /\ \A k \in sort.lo..(i - 1) : t.array[k] <= t.array[i]
               /\ \A k \in (i + 1)..sort.up : t.array[i] <= t.array[k],
           tbl' = t, sort' = split(s, i)
    PROVE  IInv'
<1> DEFINE m == Len(sort.work) + 1
           low == <<sort.lo, i - 1>>
           high == <<i + 1, sort.up>>
<1>1. /\ m \in Nat /\ DOMAIN Parts(sort) = 1..m /\ DOMAIN sort.work = 1..(m - 1)
      /\ Parts(sort)[m] = <<sort.lo, sort.up>>
      /\ \A k \in 1..(m - 1) : Parts(sort)[k] = sort.work[k]
      /\ Partitioned(Parts(sort), sort.n) /\ sort.work \in Seq(Ranges) /\ sort.n \in Nat
      /\ sort.lo \in Nat /\ sort.up \in Nat /\ 1 <= sort.lo /\ sort.up <= sort.n
      /\ sort.n <= MaxLen /\ MaxLen \in Nat /\ m >= 1
  <2>1. m \in Nat /\ m >= 1
    BY Sorting, LenProperties
  <2> QED
    BY <2>1, Sorting
<1>0. Len(sort.work) = m - 1
  BY <1>1
<1> HIDE DEF m
<1>2. /\ low \in Ranges /\ high \in Ranges
      /\ 1 <= low[1] /\ low[1] <= low[2] /\ low[2] <= sort.n
      /\ 1 <= high[1] /\ high[1] <= high[2] /\ high[2] <= sort.n
  <2>1. /\ sort.lo \in 0..(MaxLen + 1) /\ i - 1 \in 0..MaxLen
        /\ i + 1 \in 0..(MaxLen + 1) /\ sort.up \in 0..MaxLen
        /\ 1 <= sort.lo /\ sort.lo <= i - 1 /\ i - 1 <= sort.n
        /\ 1 <= i + 1 /\ i + 1 <= sort.up /\ sort.up <= sort.n
    <3>1. /\ sort.lo \in Nat /\ sort.up \in Nat /\ sort.n \in Nat /\ MaxLen \in Nat
          /\ 1 <= sort.lo /\ sort.up <= sort.n /\ sort.n <= MaxLen
      BY <1>1, Zenon
    <3>2. i \in Nat /\ sort.lo + 1 <= i /\ i <= sort.up - 1
      BY <3>1
    <3> QED
      BY <3>1, <3>2
  <2> QED
    BY <2>1 DEF Ranges
<1>3. PICK a, b : /\ {a, b} = {low, high}
                  /\ sort' = pop(s, sort.work \o <<a, b>>)
  BY DEF split
<1> DEFINE work == sort.work \o <<a, b>>
<1>4. a \in Ranges /\ b \in Ranges /\ <<a, b>> \in Seq(Ranges) /\ Len(<<a, b>>) = 2
  BY <1>2, <1>3
<1>5. /\ work \in Seq(Ranges) /\ DOMAIN work = 1..(m + 1)
      /\ \A k \in 1..(m - 1) : work[k] = sort.work[k]
      /\ work[m] = a /\ work[m + 1] = b
  <2>1. /\ work \in Seq(Ranges) /\ Len(work) = m + 1
        /\ \A k \in 1..Len(work) :
              work[k] = IF k <= m - 1 THEN sort.work[k] ELSE <<a, b>>[k - (m - 1)]
    <3>1. sort.work \in Seq(Ranges) /\ <<a, b>> \in Seq(Ranges) /\ m \in Nat
      BY <1>1, <1>4, Zenon
    <3>2. /\ work \in Seq(Ranges) /\ Len(work) = Len(sort.work) + Len(<<a, b>>)
          /\ \A k \in 1..Len(sort.work) + Len(<<a, b>>) :
                work[k] = IF k <= Len(sort.work) THEN sort.work[k]
                          ELSE <<a, b>>[k - Len(sort.work)]
      BY <3>1, ConcatProperties
    <3>3. Len(sort.work) + Len(<<a, b>>) = m + 1
      BY <1>0, <1>4, <3>1
    <3> HIDE DEF work
    <3> QED
      BY <1>0, <3>2, <3>3, Zenon
  <2>2. m - (m - 1) = 1 /\ (m + 1) - (m - 1) = 2 /\ m \in 1..(m + 1) /\ m + 1 \in 1..(m + 1)
        /\ \A k \in 1..(m - 1) : k \in 1..(m + 1) /\ k <= m - 1
    BY <1>1
  <2>3. <<a, b>>[1] = a /\ <<a, b>>[2] = b
    OBVIOUS
  <2>4. DOMAIN work = 1..(m + 1)
    BY <2>1, LenProperties
  <2>5. ~(m <= m - 1) /\ ~(m + 1 <= m - 1)
    BY <1>1
  <2> HIDE DEF work
  <2> QED
    BY <2>1, <2>2, <2>3, <2>4, <2>5
<1> HIDE DEF work
<1>6. /\ \A l \in {m, m + 1} : work[l] \in {low, high}
      /\ \E l \in {m, m + 1} : work[l] = low
      /\ \E l \in {m, m + 1} : work[l] = high
      /\ DOMAIN work = (1..(m - 1)) \cup {m, m + 1}
  <2> HIDE DEF low, high
  <2>1. (work[m] = low \/ work[m + 1] = low) /\ (work[m] = high \/ work[m + 1] = high)
        /\ work[m] \in {low, high} /\ work[m + 1] \in {low, high}
    BY <1>3, <1>5
  <2>2. DOMAIN work = (1..(m - 1)) \cup {m, m + 1}
    BY <1>1, <1>5
  <2> QED
    BY <2>1, <2>2
<1>7. /\ Part(low) = sort.lo..(i - 1) /\ Part(high) = (i + 1)..sort.up
      /\ Part(low) \cap Part(high) = {} /\ low # high
      /\ Part(low) \subseteq sort.lo..sort.up /\ Part(high) \subseteq sort.lo..sort.up
      /\ Part(Parts(sort)[m]) = sort.lo..sort.up
  BY <1>1 DEF Part
<1> HIDE DEF low, high
<1>8. work[m] # work[m + 1]
  BY <1>6, <1>7
<1>9. Partitioned(work, sort.n)
  <2>1. \A x \in DOMAIN work :
           1 <= work[x][1] /\ work[x][1] <= work[x][2] /\ work[x][2] <= sort.n
    <3>1. ASSUME NEW x \in 1..(m - 1) PROVE 1 <= work[x][1] /\ work[x][1] <= work[x][2] /\ work[x][2] <= sort.n
      <4>1. x \in DOMAIN Parts(sort) /\ work[x] = Parts(sort)[x]
        BY <1>1, <1>5
      <4> QED
        BY <1>1, <4>1 DEF Partitioned
    <3>2. \A r \in {low, high} : 1 <= r[1] /\ r[1] <= r[2] /\ r[2] <= sort.n
      BY <1>2
    <3> QED
      BY <1>6, <3>1, <3>2
  <2>2. \A x \in 1..(m - 1) : Part(work[x]) \cap (sort.lo..sort.up) = {}
    <3> SUFFICES ASSUME NEW x \in 1..(m - 1) PROVE Part(work[x]) \cap (sort.lo..sort.up) = {}
      OBVIOUS
    <3>1. x \in DOMAIN Parts(sort) /\ m \in DOMAIN Parts(sort) /\ x # m /\ work[x] = Parts(sort)[x]
      BY <1>1, <1>5
    <3> QED
      BY <1>1, <1>7, <3>1 DEF Partitioned
  <2>3. \A x, y \in 1..(m - 1) : x # y => Part(work[x]) \cap Part(work[y]) = {}
    <3> SUFFICES ASSUME NEW x \in 1..(m - 1), NEW y \in 1..(m - 1), x # y
                 PROVE  Part(work[x]) \cap Part(work[y]) = {}
      OBVIOUS
    <3>1. x \in DOMAIN Parts(sort) /\ y \in DOMAIN Parts(sort)
          /\ work[x] = Parts(sort)[x] /\ work[y] = Parts(sort)[y]
      BY <1>1, <1>5
    <3> QED
      BY <1>1, <3>1 DEF Partitioned
  <2>4. \A x, y \in {m, m + 1} : x # y => Part(work[x]) \cap Part(work[y]) = {}
    BY <1>6, <1>7, <1>8
  <2>5. \A x \in {m, m + 1} : Part(work[x]) \subseteq sort.lo..sort.up
    BY <1>6, <1>7
  <2>6. \A x, y \in DOMAIN work : x # y => Part(work[x]) \cap Part(work[y]) = {}
    BY <1>6, <2>2, <2>3, <2>4, <2>5
  <2> QED
    BY <2>1, <2>6 DEF Partitioned
<1>10. sort.comp # "any" => Separated(t.array, sort.n, work)
  <2> SUFFICES ASSUME sort.comp # "any" PROVE Separated(t.array, sort.n, work)
    OBVIOUS
  <2>1. Separated(t.array, sort.n, Parts(sort)) /\ \A k \in sort.lo..sort.up : t.array[k] \in Nat
    BY ShuffleSeparates, Elements
  <2>2. ASSUME NEW x \in 1..sort.n, NEW y \in 1..sort.n, NEW k \in DOMAIN Parts(sort),
               x < y, {x, y} \subseteq Part(Parts(sort)[k])
        PROVE  \/ t.array[x] <= t.array[y]
               \/ \E l \in DOMAIN work : {x, y} \subseteq Part(work[l])
    <3>1. CASE k # m
      <4>0. k \in 1..(m - 1) /\ k \in 1..(m + 1)
        BY <1>1, <3>1
      <4>1. k \in DOMAIN work /\ Parts(sort)[k] = work[k]
        BY <1>1, <1>5, <4>0
      <4> QED
        BY <2>2, <4>1
    <3>2. CASE k = m
      <4>1. x \in sort.lo..sort.up /\ y \in sort.lo..sort.up
        BY <1>7, <2>2, <3>2
      <4>2. CASE y < i
        <5>1. {x, y} \subseteq Part(low)
          BY <1>1, <1>7, <2>2, <4>1, <4>2
        <5> QED
          BY <1>6, <5>1
      <4>3. CASE x > i
        <5>1. {x, y} \subseteq Part(high)
          BY <1>1, <1>7, <2>2, <4>1, <4>3
        <5> QED
          BY <1>6, <5>1
      <4>4. CASE x <= i /\ i <= y
        <5>1. x \in sort.lo..(i - 1) \/ x = i
          BY <1>1, <4>1, <4>4
        <5>2. y \in (i + 1)..sort.up \/ y = i
          BY <1>1, <4>1, <4>4
        <5>3. i \in sort.lo..sort.up
          BY <1>1
        <5>4. t.array[x] \in Nat /\ t.array[i] \in Nat /\ t.array[y] \in Nat
          BY <2>1, <4>1, <5>3
        <5>5. t.array[x] <= t.array[i] /\ t.array[i] <= t.array[y]
          BY <5>1, <5>2, <5>4
        <5> QED
          BY <5>4, <5>5
      <4> QED
        BY <4>1, <4>2, <4>3, <4>4, <1>1
    <3> QED
      BY <3>1, <3>2
  <2>3. Finer(t.array, sort.n, Parts(sort), work)
    BY <2>2 DEF Finer
  <2> QED
    BY <1>1, <2>1, <2>3, FinerSeparates
<1>11. /\ t \in State(Content) /\ raw_len(t) = raw_len(tbl) /\ Count(t.array) = Count(tbl.array)
       /\ s.comp = sort.comp /\ s.n = sort.n /\ s.orig = sort.orig /\ s.alone = sort.alone
  BY DEF Shuffle, SameSort
<1> QED
  BY <1>3, <1>5, <1>9, <1>10, <1>11, NextRange DEF work
-----------------------------------------------------------------------------
(* The steps of sort                                                       *)

\* Where the median and the pivot are, and what a comparison is about.
LEMMA Indices ==
    ASSUME IInv, SortRuns
    PROVE  /\ Mid(sort) \in Int /\ Pivot(sort) \in sort.lo..sort.up /\ Pivot(sort) = sort.up - 1
           /\ sort.up - sort.lo >= 2 => Mid(sort) \in (sort.lo + 1)..(sort.up - 1)
           /\ sort.up - sort.lo >= 3 => Mid(sort) <= sort.up - 1 /\ Pivot(sort) > sort.lo
           /\ sort.up - sort.lo = 2 => Mid(sort) = sort.lo + 1
           /\ sort.pc \in {"ends", "low", "high", "rise", "fall"}
           /\ Compared(sort) = << Compared(sort)[1], Compared(sort)[2] >>
           /\ Compared(sort)[1] \in sort.lo..sort.up /\ Compared(sort)[2] \in sort.lo..sort.up
           /\ \A k \in sort.lo..sort.up : raw_get(tbl, k) = tbl.array[k] /\ raw_get(tbl, k) \in Content
<1>1. /\ sort.lo \in Nat /\ sort.up \in Nat /\ sort.lo < sort.up /\ 1 <= sort.lo
      /\ sort.i \in Nat /\ sort.j \in Nat /\ sort \in Sorts
      /\ tbl \in State(Content) /\ raw_len(tbl) \in Nat /\ sort.n \in Nat
      /\ sort.up <= sort.n /\ sort.n <= raw_len(tbl) /\ Cursors(sort)
  BY Sorting
<1>2. /\ Mid(sort) \in Int /\ Pivot(sort) \in sort.lo..sort.up /\ Pivot(sort) = sort.up - 1
      /\ sort.up - sort.lo >= 2 => Mid(sort) \in (sort.lo + 1)..(sort.up - 1)
      /\ sort.up - sort.lo >= 3 => Mid(sort) <= sort.up - 1 /\ Pivot(sort) > sort.lo
      /\ sort.up - sort.lo = 2 => Mid(sort) = sort.lo + 1
  BY <1>1 DEF Mid, Pivot
<1>3. sort.pc \in {"ends", "low", "high", "rise", "fall", "end"}
  BY <1>1 DEF Sorts
<1>4. sort.pc # "end"
  BY <1>1 DEF Cursors
<1>5. sort.lo \in sort.lo..sort.up /\ sort.up \in sort.lo..sort.up
  BY <1>1
<1>6. /\ Compared(sort) = << Compared(sort)[1], Compared(sort)[2] >>
      /\ Compared(sort)[1] \in sort.lo..sort.up /\ Compared(sort)[2] \in sort.lo..sort.up
  <2>1. CASE sort.pc = "ends"
    BY <1>5, <2>1 DEF Compared
  <2>2. CASE sort.pc = "low" \/ sort.pc = "high"
    <3>1. Mid(sort) \in sort.lo..sort.up
      <4>1. sort.up - sort.lo >= 2
        BY <1>1, <2>2 DEF Cursors
      <4>2. Mid(sort) \in (sort.lo + 1)..(sort.up - 1)
        BY <1>2, <4>1
      <4> QED
        BY <1>1, <4>2
    <3> QED
      BY <1>5, <2>2, <3>1 DEF Compared
  <2>3. CASE sort.pc = "rise"
    <3>1. sort.i \in sort.lo..sort.up
      BY <1>1, <2>3 DEF Cursors
    <3> QED
      BY <1>2, <2>3, <3>1 DEF Compared
  <2>4. CASE sort.pc = "fall"
    <3>1. sort.j \in sort.lo..sort.up
      BY <1>1, <2>4 DEF Cursors
    <3> QED
      BY <1>2, <2>4, <3>1 DEF Compared
  <2> QED
    BY <1>3, <1>4, <2>1, <2>2, <2>3, <2>4
<1>7. \A k \in sort.lo..sort.up : raw_get(tbl, k) = tbl.array[k] /\ raw_get(tbl, k) \in Content
  <2>1. \A k \in sort.lo..sort.up : k \in 1..raw_len(tbl) /\ k \in Int /\ MinInt <= k
    BY <1>1, Width
  <2> QED
    BY <1>1, <2>1, RawGet, Contents
<1> QED
  BY <1>2, <1>3, <1>4, <1>6, <1>7

\* What an answer says of the elements, when the comparator is an order.
LEMMA Answers ==
    ASSUME IInv, NEW less \in Less
    PROVE  /\ SortRuns /\ less \in BOOLEAN
           /\ sort.comp # "any" =>
                 (less <=> tbl.array[Compared(sort)[1]] < tbl.array[Compared(sort)[2]])
<1>1. Decided # <<>>
  BY DEF Less
<1>2. SortRuns
  BY <1>1 DEF Decided, SortRuns
<1>3. sort.comp # "any" => Decided = Operands(sort)
  BY <1>1, Sorting, <1>2 DEF Decided, IInv, CallInv
<1>4. sort.comp # "any" => less = (Decided[1] < Decided[2])
  BY <1>1 DEF Less
<1>5. /\ Operands(sort)[1] = tbl.array[Compared(sort)[1]]
      /\ Operands(sort)[2] = tbl.array[Compared(sort)[2]]
      /\ Operands(sort)[1] \in Nat /\ Operands(sort)[2] \in Nat
  BY <1>2, Indices, Contents DEF Operands
<1>6. sort.comp = "any" => less \in BOOLEAN
  BY DEF Less
<1>7. sort.comp # "any" => less = (Operands(sort)[1] < Operands(sort)[2])
  BY <1>3, <1>4, Zenon
<1>8. (Operands(sort)[1] < Operands(sort)[2]) \in BOOLEAN
  BY <1>5
<1>9. less \in BOOLEAN
  BY <1>6, <1>7, <1>8, Zenon
<1>10. sort.comp # "any" => (less <=> tbl.array[Compared(sort)[1]] < tbl.array[Compared(sort)[2]])
  BY <1>5, <1>7, Zenon
<1> QED
  BY <1>2, <1>9, <1>10

\* r is the sort at hand, about to make the comparison of another place.
Going(r, pc, i, j) ==
    /\ r \in Sorts /\ SameSort(r, sort) /\ r.st = "running" /\ r.pc = pc
    /\ r.work = sort.work /\ r.lo = sort.lo /\ r.up = sort.up /\ r.i = i /\ r.j = j

\* Goes moves the program counter and keeps range and cursors.
LEMMA GoesTypes ==
    ASSUME IInv, SortRuns, NEW pc \in {"ends", "low", "high", "rise", "fall"}
    PROVE  Going(Goes(sort, pc), pc, sort.i, sort.j)
<1>1. sort \in Sorts
  BY Sorting
<1> QED
  BY <1>1 DEF Sorts, Goes, SameSort, Going

\* So it stays when a cursor moves.
LEMMA GoesOn ==
    ASSUME NEW g, NEW pc, NEW a, NEW b, Going(g, pc, a, b),
           NEW i \in 0..MaxLen, NEW j \in 0..MaxLen
    PROVE  /\ Going([g EXCEPT !.i = i], pc, i, b)
           /\ Going([g EXCEPT !.j = j], pc, a, j)
           /\ Going([g EXCEPT !.i = i, !.j = j], pc, i, j)
BY DEF Going, Sorts, SameSort

\* With the median of three in place the range is done, or its partition begins.
LEMMA Partitions ==
    ASSUME IInv, SortRuns, NEW t, Shuffle(tbl, t), sort.up - sort.lo >= 2,
           sort.comp # "any" => /\ t.array[sort.lo] <= t.array[Mid(sort)]
                                /\ t.array[Mid(sort)] <= t.array[sort.up],
           Partition(t, sort)
    PROVE  IInv'
<1> DEFINE lo == sort.lo
           up == sort.up
           mid == Mid(sort)
           pivot == Pivot(sort)
<1>1. /\ lo \in Nat /\ up \in Nat /\ lo < up /\ mid \in (lo + 1)..(up - 1) /\ mid \in Int
      /\ pivot \in lo..up /\ pivot = up - 1 /\ (up - lo = 2 => mid = lo + 1)
      /\ sort \in Sorts /\ lo \in lo..up /\ up \in lo..up /\ mid \in lo..up
      /\ MaxLen \in Nat /\ up <= MaxLen
  <2>1. /\ lo \in Nat /\ up \in Nat /\ lo < up /\ sort \in Sorts /\ MaxLen \in Nat
        /\ up <= sort.n /\ sort.n \in Nat /\ sort.n <= MaxLen
    BY Sorting
  <2>2. /\ mid \in (lo + 1)..(up - 1) /\ pivot \in lo..up /\ pivot = up - 1
        /\ (up - lo = 2 => mid = lo + 1)
    BY Indices
  <2> HIDE DEF lo, up, mid, pivot
  <2> QED
    BY <2>1, <2>2
<1>2. \A k \in lo..up : t.array[k] \in Nat
  BY Elements
<1>3. CASE up - lo = 2
  <2>1. tbl' = t /\ sort' = pop(Goes(sort, "ends"), sort.work)
    BY <1>3 DEF Partition, Goes
  <2>2. Goes(sort, "ends") \in Sorts /\ SameSort(Goes(sort, "ends"), sort)
    BY GoesTypes DEF Going
  <2>3. sort.comp # "any" => \A x, y \in lo..up : x < y => t.array[x] <= t.array[y]
    <3>1. \A x \in lo..up : x = lo \/ x = mid \/ x = up
      BY <1>1, <1>3
    <3>2. lo < mid /\ mid < up
      BY <1>1
    <3> HIDE DEF lo, up, mid
    <3>3. \A x, y \in lo..up : x < y => \/ x = lo /\ y = mid
                                        \/ x = lo /\ y = up
                                        \/ x = mid /\ y = up
      BY <1>1, <3>1, <3>2
    <3>4. t.array[lo] \in Nat /\ t.array[mid] \in Nat /\ t.array[up] \in Nat
      BY <1>1, <1>2
    <3>5. sort.comp # "any" => t.array[lo] <= t.array[mid] /\ t.array[mid] <= t.array[up]
      BY DEF lo, mid, up
    <3> QED
      BY <3>3, <3>4, <3>5
  <2> QED
    BY <2>1, <2>2, <2>3, Closes
<1>4. CASE up - lo # 2
  <2> DEFINE u == swap(t, mid, pivot)
             r == [Goes(sort, "rise") EXCEPT !.i = lo + 1, !.j = pivot]
  <2>1. tbl' = u /\ sort' = r
    BY <1>4 DEF Partition
  <2>2. /\ Shuffle(tbl, u) /\ u.array[mid] = t.array[pivot] /\ u.array[pivot] = t.array[mid]
        /\ \A k \in lo..up : k \notin {mid, pivot} => u.array[k] = t.array[k]
    <3>1. Swapped(t, u, mid, pivot)
      BY <1>1, ShuffleSwap, Zenon
    <3> QED
      BY <3>1 DEF Swapped
  <2> HIDE DEF u
  <2>3. lo + 1 \in 0..MaxLen /\ pivot \in 0..MaxLen
    BY <1>1
  <2>4. /\ r \in Sorts /\ SameSort(r, sort) /\ r.st = "running" /\ r.pc = "rise"
        /\ r.work = sort.work /\ r.lo = lo /\ r.up = up /\ r.i = lo + 1 /\ r.j = pivot
    <3>1. Going(Goes(sort, "rise"), "rise", sort.i, sort.j)
      BY GoesTypes
    <3>2. Going(r, "rise", lo + 1, pivot)
      BY <2>3, <3>1, GoesOn, Zenon
    <3> QED
      BY <3>2 DEF Going
  <2> HIDE DEF r
  <2>5. Cursors(r)
    BY <1>1, <1>4, <2>4 DEF Cursors
  <2>6. ASSUME sort.comp # "any" PROVE Established(r, u.array)
    <3>1. /\ up \notin {mid, pivot} /\ lo \notin {mid, pivot}
          /\ Pivot(r) = pivot
      BY <1>1, <1>4, <2>4 DEF Pivot
    <3>2. u.array[lo] = t.array[lo] /\ u.array[up] = t.array[up]
      BY <1>1, <2>2, <3>1
    <3>3. t.array[lo] \in Nat /\ t.array[mid] \in Nat /\ t.array[up] \in Nat
      BY <1>1, <1>2
    <3>4. /\ \A k \in lo..((lo + 1) - 1) : k = lo
          /\ \A k \in pivot..up : k = pivot \/ k = up
      BY <1>1
    <3>5. /\ u.array[lo] <= u.array[pivot] /\ u.array[pivot] <= u.array[up]
          /\ u.array[pivot] <= u.array[pivot]
      BY <2>2, <2>6, <3>2, <3>3
    <3> HIDE DEF pivot
    <3>6. /\ \A k \in lo..((lo + 1) - 1) : u.array[k] <= u.array[pivot]
          /\ \A k \in pivot..up : u.array[pivot] <= u.array[k]
      BY <3>4, <3>5
    <3> QED
      BY <2>4, <3>1, <3>6 DEF Established
  <2> QED
    BY <2>1, <2>2, <2>4, <2>5, <2>6, Stays
<1> QED
  BY <1>3, <1>4

\* The first comparison orders the two ends.
LEMMA OrderEnds ==
    ASSUME IInv, NEW less \in Less, order_ends(less)
    PROVE  IInv'
<1> DEFINE lo == sort.lo
           up == sort.up
           t == IF less THEN swap(tbl, lo, up) ELSE tbl
<1>1. SortRuns /\ less \in BOOLEAN
      /\ (sort.comp # "any" => (less <=> tbl.array[up] < tbl.array[lo]))
  BY Answers DEF order_ends, Compared
<1>2. /\ lo \in Nat /\ up \in Nat /\ lo < up /\ sort \in Sorts /\ lo \in lo..up /\ up \in lo..up
      /\ sort.i \in 0..MaxLen /\ sort.j \in 0..MaxLen
  BY <1>1, Sorting DEF Sorts
<1>3. Shuffle(tbl, t) /\ Swapped(tbl, swap(tbl, lo, up), lo, up)
  <2>1. Swapped(tbl, swap(tbl, lo, up), lo, up)
    BY <1>1, <1>2, ShuffleSame, ShuffleSwap, Zenon
  <2> QED
    BY <1>1, <2>1, ShuffleSame DEF Swapped
<1>4. sort.comp # "any" => t.array[lo] <= t.array[up]
  <2>1. tbl.array[lo] \in Nat /\ tbl.array[up] \in Nat
    BY <1>1, <1>2, ShuffleSame, Elements
  <2>2. LET u == swap(tbl, lo, up) IN u.array[lo] = tbl.array[up] /\ u.array[up] = tbl.array[lo]
    BY <1>3 DEF Swapped
  <2> QED
    BY <1>1, <2>1, <2>2
<1>5. tbl' = t
  BY DEF order_ends
<1> HIDE DEF t
<1>6. CASE up - lo = 1
  <2>1. sort' = pop(Goes(sort, "ends"), sort.work)
    BY <1>6 DEF order_ends
  <2>2. Goes(sort, "ends") \in Sorts /\ SameSort(Goes(sort, "ends"), sort)
    BY <1>1, GoesTypes DEF Going
  <2>3. sort.comp # "any" => \A x, y \in lo..up : x < y => t.array[x] <= t.array[y]
    <3>1. \A x, y \in lo..up : x < y => x = lo /\ y = up
      BY <1>2, <1>6
    <3> QED
      BY <1>4, <3>1
  <2> QED
    BY <1>1, <1>3, <1>5, <2>1, <2>2, <2>3, Closes
<1>7. CASE up - lo # 1
  <2> DEFINE r == Goes(sort, "low")
  <2>1. sort' = r
    BY <1>7 DEF order_ends
  <2>2. /\ r \in Sorts /\ SameSort(r, sort) /\ r.st = "running" /\ r.pc = "low"
        /\ r.work = sort.work /\ r.lo = lo /\ r.up = up
    <3>1. Going(r, "low", sort.i, sort.j)
      BY <1>1, GoesTypes
    <3> QED
      BY <3>1 DEF Going
  <2> HIDE DEF r
  <2>3. Cursors(r)
    BY <1>2, <1>7, <2>2 DEF Cursors
  <2>4. sort.comp # "any" => Established(r, t.array)
    BY <1>4, <2>2 DEF Established
  <2> QED
    BY <1>1, <1>3, <1>5, <2>1, <2>2, <2>3, <2>4, Stays
<1> QED
  BY <1>6, <1>7

\* The second orders the low end and the middle.
LEMMA OrderLow ==
    ASSUME IInv, NEW less \in Less, order_low(less)
    PROVE  IInv'
<1> DEFINE lo == sort.lo
           up == sort.up
           mid == Mid(sort)
           a == tbl.array
<1>1. SortRuns /\ less \in BOOLEAN /\ sort.pc = "low"
      /\ (sort.comp # "any" => (less <=> a[mid] < a[lo]))
  BY Answers DEF order_low, Compared
<1>2. up - lo >= 2 /\ lo \in Nat /\ up \in Nat /\ (sort.comp # "any" => a[lo] <= a[up])
  BY <1>1, Sorting DEF Cursors, Established
<1>3. mid \in (lo + 1)..(up - 1)
  BY <1>1, <1>2, Indices
<1>4. lo \in lo..up /\ mid \in lo..up /\ up \in lo..up /\ up \notin {mid, lo}
  BY <1>2, <1>3
<1>5. a[lo] \in Nat /\ a[mid] \in Nat /\ a[up] \in Nat
  BY <1>1, <1>4, ShuffleSame, Elements
<1>6. CASE less
  <2> DEFINE t == swap(tbl, mid, lo)
  <2>1. Swapped(tbl, t, mid, lo)
    BY <1>1, <1>4, ShuffleSame, ShuffleSwap, Zenon
  <2>2. Partition(t, sort)
    BY <1>6 DEF order_low
  <2> HIDE DEF t
  <2>3. /\ Shuffle(tbl, t)
        /\ t.array[mid] = a[lo] /\ t.array[lo] = a[mid] /\ t.array[up] = a[up]
    BY <1>4, <2>1 DEF Swapped
  <2>4. sort.comp # "any" => t.array[lo] <= t.array[mid] /\ t.array[mid] <= t.array[up]
    BY <1>1, <1>2, <1>5, <1>6, <2>3
  <2> QED
    BY <1>1, <1>2, <2>2, <2>3, <2>4, Partitions
<1>7. CASE ~less
  <2> DEFINE r == Goes(sort, "high")
  <2>1. sort' = r /\ tbl' = tbl
    BY <1>7 DEF order_low
  <2>2. Going(r, "high", sort.i, sort.j)
    BY <1>1, GoesTypes
  <2> HIDE DEF r
  <2>3. Cursors(r)
    BY <1>2, <2>2 DEF Going, Cursors
  <2>4. ASSUME sort.comp # "any" PROVE Established(r, a)
    <3>1. Mid(r) = mid /\ a[lo] <= a[mid]
      BY <1>1, <1>5, <1>7, <2>2, <2>4 DEF Going, Mid
    <3> QED
      BY <1>2, <2>2, <2>4, <3>1 DEF Going, Established
  <2> QED
    BY <1>1, <2>1, <2>2, <2>3, <2>4, ShuffleSame, Stays DEF Going
<1> QED
  BY <1>1, <1>6, <1>7

\* The third orders the middle and the high end.
LEMMA OrderHigh ==
    ASSUME IInv, NEW less \in Less, order_high(less)
    PROVE  IInv'
<1> DEFINE lo == sort.lo
           up == sort.up
           mid == Mid(sort)
           a == tbl.array
           t == IF less THEN swap(tbl, mid, up) ELSE tbl
<1>1. SortRuns /\ less \in BOOLEAN /\ sort.pc = "high"
      /\ (sort.comp # "any" => (less <=> a[up] < a[mid]))
  BY Answers DEF order_high, Compared
<1>2. up - lo >= 2 /\ lo \in Nat /\ up \in Nat
      /\ (sort.comp # "any" => a[lo] <= a[up] /\ a[lo] <= a[mid])
  BY <1>1, Sorting DEF Cursors, Established
<1>3. mid \in (lo + 1)..(up - 1)
  BY <1>1, <1>2, Indices
<1>4. lo \in lo..up /\ mid \in lo..up /\ up \in lo..up /\ lo \notin {mid, up}
  BY <1>2, <1>3
<1>5. a[lo] \in Nat /\ a[mid] \in Nat /\ a[up] \in Nat
  BY <1>1, <1>4, ShuffleSame, Elements
<1>6. Partition(t, sort)
  BY DEF order_high
<1>7. Swapped(tbl, swap(tbl, mid, up), mid, up)
  BY <1>1, <1>4, ShuffleSame, ShuffleSwap, Zenon
<1>8. Shuffle(tbl, t)
  BY <1>1, <1>7, ShuffleSame DEF Swapped
<1>9. sort.comp # "any" => t.array[lo] <= t.array[mid] /\ t.array[mid] <= t.array[up]
  <2>1. CASE less
    <3>1. t.array[mid] = a[up] /\ t.array[up] = a[mid] /\ t.array[lo] = a[lo]
      BY <1>4, <1>7, <2>1 DEF Swapped
    <3> QED
      BY <1>1, <1>2, <1>5, <2>1, <3>1
  <2>2. CASE ~less
    <3>1. t = tbl
      BY <2>2
    <3> HIDE DEF t
    <3> QED
      BY <1>1, <1>2, <1>5, <2>2, <3>1
  <2> QED
    BY <1>1, <2>1, <2>2
<1> HIDE DEF t
<1> QED
  BY <1>1, <1>2, <1>6, <1>8, <1>9, Partitions

\* i moves up past what is less than the pivot.
LEMMA AdvanceI ==
    ASSUME IInv, NEW less \in Less, advance_i(less)
    PROVE  IInv'
<1> DEFINE lo == sort.lo
           up == sort.up
           pivot == Pivot(sort)
           i == sort.i
           j == sort.j
           a == tbl.array
<1>1. SortRuns /\ less \in BOOLEAN /\ sort.pc = "rise"
      /\ (sort.comp # "any" => (less <=> a[i] < a[pivot]))
  BY Answers DEF advance_i, Compared
<1>2. /\ up - lo >= 3 /\ lo \in Nat /\ up \in Nat /\ MaxLen \in Nat /\ up <= MaxLen
      /\ i \in (lo + 1)..(up - 1) /\ j \in (lo + 1)..(up - 1)
      /\ pivot = up - 1 /\ i \in Nat /\ j \in Nat
  <2>1. /\ lo \in Nat /\ up \in Nat /\ MaxLen \in Nat /\ up <= sort.n /\ sort.n <= MaxLen
        /\ sort.n \in Nat /\ i \in Nat /\ j \in Nat /\ Cursors(sort)
    BY <1>1, Sorting
  <2>2. up - lo >= 3 /\ i \in (lo + 1)..(up - 1) /\ j \in (lo + 1)..(up - 1)
    BY <1>1, <2>1 DEF Cursors
  <2> QED
    BY <2>1, <2>2 DEF Pivot
<1>3. sort.comp # "any" => /\ \A k \in lo..(i - 1) : a[k] <= a[pivot]
                           /\ \A k \in j..up : a[pivot] <= a[k]
  BY <1>1, Sorting DEF Established
<1>4. \A k \in lo..up : a[k] \in Nat
  BY <1>1, ShuffleSame, Elements
<1>5. i \in lo..up /\ pivot \in lo..up
  BY <1>2
<1>6. CASE ~less
  <2> DEFINE r == [Goes(sort, "fall") EXCEPT !.j = j - 1]
  <2>1. sort' = r /\ tbl' = tbl
    <3>1. Goes(sort, "fall").j = j
      BY <1>1, GoesTypes DEF Going
    <3>2. sort' = [Goes(sort, "fall") EXCEPT !.j = @ - 1]
      BY <1>6 DEF advance_i
    <3> QED
      BY <3>1, <3>2 DEF advance_i
  <2>2. Going(r, "fall", i, j - 1)
    <3>1. Going(Goes(sort, "fall"), "fall", i, j)
      BY <1>1, GoesTypes
    <3>2. j - 1 \in 0..MaxLen /\ i \in 0..MaxLen
      BY <1>2
    <3> HIDE DEF i, j
    <3> QED
      BY <3>1, <3>2, GoesOn, Zenon
  <2> HIDE DEF r
  <2>3. r.pc = "fall" /\ r.lo = lo /\ r.up = up /\ r.i = i /\ r.j = j - 1
    BY <2>2 DEF Going
  <2>4. Cursors(r)
    BY <1>2, <2>3 DEF Cursors
  <2>5. ASSUME sort.comp # "any" PROVE Established(r, a)
    <3>1. Pivot(r) = pivot /\ (j - 1) + 1 = j
      BY <1>2, <2>3 DEF Pivot
    <3>2. a[pivot] <= a[i]
      BY <1>1, <1>4, <1>5, <1>6, <2>5
    <3> QED
      BY <1>3, <2>3, <2>5, <3>1, <3>2 DEF Established
  <2> QED
    BY <1>1, <2>1, <2>2, <2>4, <2>5, ShuffleSame, Stays DEF Going
<1>7. CASE less /\ i = pivot
  <2>1. sort' = Ends(sort, "invalid") /\ tbl' = tbl
    BY <1>7 DEF advance_i
  <2>2. sort.comp = "any"
    BY <1>1, <1>4, <1>5, <1>7
  <2> QED
    BY <1>1, <2>1, <2>2, Stops
<1>8. CASE less /\ i # pivot
  <2> DEFINE r == [Goes(sort, "rise") EXCEPT !.i = i + 1]
  <2>1. sort' = r /\ tbl' = tbl
    <3>1. Goes(sort, "rise").i = i
      BY <1>1, GoesTypes DEF Going
    <3>2. sort' = [Goes(sort, "rise") EXCEPT !.i = @ + 1]
      BY <1>8 DEF advance_i
    <3> QED
      BY <3>1, <3>2 DEF advance_i
  <2>2. Going(r, "rise", i + 1, j)
    <3>1. Going(Goes(sort, "rise"), "rise", i, j)
      BY <1>1, GoesTypes
    <3>2. i + 1 \in 0..MaxLen /\ j \in 0..MaxLen
      BY <1>2
    <3> HIDE DEF i, j
    <3> QED
      BY <3>1, <3>2, GoesOn, Zenon
  <2> HIDE DEF r
  <2>3. r.pc = "rise" /\ r.lo = lo /\ r.up = up /\ r.i = i + 1 /\ r.j = j
    BY <2>2 DEF Going
  <2>4. Cursors(r)
    BY <1>2, <1>8, <2>3 DEF Cursors
  <2>5. ASSUME sort.comp # "any" PROVE Established(r, a)
    <3>1. Pivot(r) = pivot /\ \A k \in lo..((i + 1) - 1) : k \in lo..(i - 1) \/ k = i
      BY <1>2, <2>3 DEF Pivot
    <3>2. a[i] <= a[pivot]
      BY <1>1, <1>4, <1>5, <1>8, <2>5
    <3>3. \A k \in lo..((i + 1) - 1) : a[k] <= a[pivot]
      BY <1>3, <2>5, <3>1, <3>2
    <3> QED
      BY <1>3, <2>3, <2>5, <3>1, <3>3 DEF Established
  <2> QED
    BY <1>1, <2>1, <2>2, <2>4, <2>5, ShuffleSame, Stays DEF Going
<1> QED
  BY <1>1, <1>6, <1>7, <1>8

\* j moves down past what is greater; where the cursors meet the range splits.
LEMMA RetreatJ ==
    ASSUME IInv, NEW less \in Less, retreat_j(less)
    PROVE  IInv'
<1> DEFINE lo == sort.lo
           up == sort.up
           pivot == Pivot(sort)
           i == sort.i
           j == sort.j
           a == tbl.array
<1>1. SortRuns /\ less \in BOOLEAN /\ sort.pc = "fall"
      /\ (sort.comp # "any" => (less <=> a[pivot] < a[j]))
  BY Answers DEF retreat_j, Compared
<1>2. /\ up - lo >= 3 /\ lo \in Nat /\ up \in Nat /\ MaxLen \in Nat /\ up <= MaxLen
      /\ i \in (lo + 1)..(up - 1) /\ j \in lo..(up - 2)
      /\ pivot = up - 1 /\ i \in Nat /\ j \in Nat
  <2>1. /\ lo \in Nat /\ up \in Nat /\ MaxLen \in Nat /\ up <= sort.n /\ sort.n <= MaxLen
        /\ sort.n \in Nat /\ i \in Nat /\ j \in Nat /\ Cursors(sort)
    BY <1>1, Sorting
  <2>2. up - lo >= 3 /\ i \in (lo + 1)..(up - 1) /\ j \in lo..(up - 2)
    BY <1>1, <2>1 DEF Cursors
  <2> QED
    BY <2>1, <2>2 DEF Pivot
<1>3. sort.comp # "any" => /\ \A k \in lo..(i - 1) : a[k] <= a[pivot]
                           /\ \A k \in (j + 1)..up : a[pivot] <= a[k]
                           /\ a[pivot] <= a[i]
  BY <1>1, Sorting DEF Established
<1>4. \A k \in lo..up : a[k] \in Nat
  BY <1>1, ShuffleSame, Elements
<1>5. i \in lo..up /\ j \in lo..up /\ pivot \in lo..up
  BY <1>2
<1>6. CASE less /\ j < i
  <2>1. sort' = Ends(sort, "invalid") /\ tbl' = tbl
    BY <1>6 DEF retreat_j
  <2>2. j \in lo..(i - 1)
    BY <1>2, <1>6
  <2>3. sort.comp = "any"
    BY <1>1, <1>3, <1>4, <1>5, <1>6, <2>2
  <2> QED
    BY <1>1, <2>1, <2>3, Stops
<1>7. CASE less /\ ~(j < i)
  <2> DEFINE r == [Goes(sort, "fall") EXCEPT !.j = j - 1]
  <2>1. sort' = r /\ tbl' = tbl
    <3>1. Goes(sort, "fall").j = j
      BY <1>1, GoesTypes DEF Going
    <3>2. sort' = [Goes(sort, "fall") EXCEPT !.j = @ - 1] /\ tbl' = tbl
      BY <1>7 DEF retreat_j
    <3> QED
      BY <3>1, <3>2
  <2>2. Going(r, "fall", i, j - 1)
    <3>1. Going(Goes(sort, "fall"), "fall", i, j)
      BY <1>1, GoesTypes
    <3>2. j - 1 \in 0..MaxLen /\ i \in 0..MaxLen
      BY <1>2, <1>7
    <3> HIDE DEF i, j
    <3> QED
      BY <3>1, <3>2, GoesOn, Zenon
  <2> HIDE DEF r
  <2>3. r.pc = "fall" /\ r.lo = lo /\ r.up = up /\ r.i = i /\ r.j = j - 1
    BY <2>2 DEF Going
  <2>4. Cursors(r)
    BY <1>2, <1>7, <2>3 DEF Cursors
  <2>5. ASSUME sort.comp # "any" PROVE Established(r, a)
    <3>1. Pivot(r) = pivot /\ \A k \in ((j - 1) + 1)..up : k = j \/ k \in (j + 1)..up
      BY <1>2, <2>3 DEF Pivot
    <3>2. a[pivot] <= a[j]
      BY <1>1, <1>4, <1>5, <1>7, <2>5
    <3>3. \A k \in ((j - 1) + 1)..up : a[pivot] <= a[k]
      BY <1>3, <2>5, <3>1, <3>2
    <3> QED
      BY <1>3, <2>3, <2>5, <3>1, <3>3 DEF Established
  <2> QED
    BY <1>1, <2>1, <2>2, <2>4, <2>5, ShuffleSame, Stays DEF Going
<1>8. CASE ~less /\ j < i
  <2> DEFINE t == swap(tbl, pivot, i)
             s == Goes(sort, "ends")
  <2>1. tbl' = t /\ sort' = split(s, i)
    BY <1>8 DEF retreat_j
  <2>2. Swapped(tbl, t, pivot, i)
    BY <1>1, <1>5, ShuffleSame, ShuffleSwap, Zenon
  <2>3. Going(s, "ends", i, j)
    BY <1>1, GoesTypes
  <2> HIDE DEF s, t
  <2>4. /\ Shuffle(tbl, t) /\ t.array[pivot] = a[i] /\ t.array[i] = a[pivot]
        /\ \A k \in lo..up : k \notin {pivot, i} => t.array[k] = a[k]
    BY <2>2 DEF Swapped
  <2>5. ASSUME sort.comp # "any", NEW k \in lo..(i - 1) PROVE t.array[k] <= t.array[i]
    <3>1. k \in lo..up /\ k \notin {pivot, i}
      BY <1>2
    <3> QED
      BY <1>3, <2>4, <2>5, <3>1
  <2>6. ASSUME sort.comp # "any", NEW k \in (i + 1)..up PROVE t.array[i] <= t.array[k]
    <3>1. k \in lo..up /\ k # i /\ k \in (j + 1)..up
      BY <1>2, <1>8
    <3>2. CASE k = pivot
      BY <1>3, <2>4, <2>6, <3>2
    <3>3. CASE k # pivot
      BY <1>3, <2>4, <2>6, <3>1, <3>3
    <3> QED
      BY <3>2, <3>3
  <2>7. s \in Sorts /\ SameSort(s, sort) /\ s.work = sort.work /\ s.lo = lo /\ s.up = up
    BY <2>3 DEF Going
  <2>8. i \in (lo + 1)..(up - 1)
    BY <1>2
  <2> QED
    BY <1>1, <2>1, <2>4, <2>5, <2>6, <2>7, <2>8, Splits
<1>9. CASE ~less /\ ~(j < i)
  <2> DEFINE t == swap(tbl, i, j)
             r == [Goes(sort, "rise") EXCEPT !.i = i + 1]
  <2>1. tbl' = t /\ sort' = r
    <3>1. Goes(sort, "rise").i = i
      BY <1>1, GoesTypes DEF Going
    <3>2. sort' = [Goes(sort, "rise") EXCEPT !.i = @ + 1] /\ tbl' = t
      BY <1>9 DEF retreat_j
    <3> QED
      BY <3>1, <3>2
  <2>2. Swapped(tbl, t, i, j)
    BY <1>1, <1>5, ShuffleSame, ShuffleSwap, Zenon
  <2>3. Going(r, "rise", i + 1, j)
    <3>1. Going(Goes(sort, "rise"), "rise", i, j)
      BY <1>1, GoesTypes
    <3>2. i + 1 \in 0..MaxLen /\ j \in 0..MaxLen
      BY <1>2, <1>9
    <3> HIDE DEF i, j
    <3> QED
      BY <3>1, <3>2, GoesOn, Zenon
  <2> HIDE DEF r, t
  <2>4. r.pc = "rise" /\ r.lo = lo /\ r.up = up /\ r.i = i + 1 /\ r.j = j
    BY <2>3 DEF Going
  <2>5. Cursors(r)
    BY <1>2, <1>9, <2>4 DEF Cursors
  <2>6. /\ Shuffle(tbl, t) /\ t.array[i] = a[j] /\ t.array[j] = a[i]
        /\ \A k \in lo..up : k \notin {i, j} => t.array[k] = a[k]
    BY <2>2 DEF Swapped
  <2>7. ASSUME sort.comp # "any" PROVE Established(r, t.array)
    <3>1. Pivot(r) = pivot /\ t.array[pivot] = a[pivot]
      BY <1>2, <1>5, <1>9, <2>4, <2>6 DEF Pivot
    <3>2. a[j] <= a[pivot] /\ a[pivot] <= a[i]
      BY <1>1, <1>3, <1>4, <1>5, <1>9, <2>7
    <3>3. ASSUME NEW k \in lo..((i + 1) - 1) PROVE t.array[k] <= a[pivot]
      <4>1. k = i \/ (k \in lo..(i - 1) /\ k \in lo..up /\ k \notin {i, j})
        BY <1>2, <1>9
      <4> QED
        BY <1>3, <2>6, <2>7, <3>2, <4>1
    <3>4. ASSUME NEW k \in j..up PROVE a[pivot] <= t.array[k]
      <4>1. k = j \/ (k \in (j + 1)..up /\ k \in lo..up /\ k \notin {i, j})
        BY <1>2, <1>9
      <4> QED
        BY <1>3, <2>6, <2>7, <3>2, <4>1
    <3> QED
      BY <2>4, <3>1, <3>3, <3>4 DEF Established
  <2> QED
    BY <1>1, <2>1, <2>3, <2>5, <2>6, <2>7, Stays DEF Going
<1> QED
  BY <1>1, <1>6, <1>7, <1>8, <1>9

\* How often a value occurs is at most the length.
LEMMA CountTypes ==
    ASSUME NEW t \in State(Content), raw_len(t) <= MaxLen
    PROVE  Count(t.array) \in [Content -> 0..MaxLen]
<1> DEFINE n == raw_len(t)
<1>1. n \in Nat /\ DOMAIN t.array = 1..n /\ MaxLen \in Nat
  BY Lengths, BoundsAssumption
<1> HIDE DEF n
<1>2. ASSUME NEW v PROVE Cardinality({k \in 1..n : t.array[k] = v}) \in 0..MaxLen
  <2>1. IsFiniteSet(1..n) /\ Cardinality(1..n) = n
    BY <1>1, FS_Interval
  <2> DEFINE S == {k \in 1..n : t.array[k] = v}
  <2>2. S \in SUBSET (1..n)
    OBVIOUS
  <2> HIDE DEF S
  <2>3. IsFiniteSet(S) /\ Cardinality(S) <= n
    BY <2>1, <2>2, FS_Subset
  <2>4. Cardinality(S) \in Nat
    BY <2>3, FS_CardinalityType
  <2>5. Cardinality(S) \in 0..MaxLen
    BY <1>1, <2>3, <2>4 DEF n
  <2> QED
    BY <2>5 DEF S
<1>3. Count(t.array) = [v \in Content |-> Cardinality({k \in 1..n : t.array[k] = v})]
  BY <1>1, Zenon DEF Count, Content
<1> QED
  BY <1>2, <1>3

\* A sort begins with one range, the whole array.
LEMMA LuaSort ==
    ASSUME IInv, lua_sort
    PROVE  IInv'
<1> DEFINE n == raw_len(tbl)
<1>1. PICK c \in Comps :
         /\ sort' = [st |-> "running", comp |-> c, pc |-> "ends", work |-> <<>>, lo |-> 1, up |-> n,
                     i |-> 0, j |-> 0, args |-> <<>>, n |-> n, orig |-> Count(tbl.array),
                     alone |-> TRUE]
         /\ n > 1 /\ tbl' = tbl
  BY DEF lua_sort
<1>2. tbl \in State(Content) /\ n \in Nat /\ n <= MaxLen /\ MaxLen \in Nat
  BY Contents, Lengths, BoundsAssumption DEF IInv, TableInv
<1>3. Count(tbl.array) \in [Content -> 0..MaxLen]
  BY <1>2, CountTypes
<1> HIDE DEF n
<1>4. /\ sort'.st = "running" /\ sort'.comp = c /\ sort'.pc = "ends" /\ sort'.work = <<>>
      /\ sort'.lo = 1 /\ sort'.up = n /\ sort'.n = n /\ sort'.orig = Count(tbl.array) /\ sort'.alone
      /\ sort' # NoSort
  BY <1>1 DEF NoSort
<1>5. sort' \in Sorts
  <2>1. <<>> \in Seq((0..MaxLen + 1) \X (0..MaxLen)) /\ 0 \in 0..MaxLen /\ 1 \in 0..MaxLen /\ n \in 0..MaxLen
    BY <1>1, <1>2
  <2> QED
    BY <1>1, <1>3, <2>1 DEF Sorts, Content
<1>6. Parts(sort') = <<<<1, n>>>>
  BY <1>4 DEF Parts
<1>7. /\ DOMAIN Parts(sort') = 1..1 /\ Parts(sort')[1] = <<1, n>>
      /\ \A k \in 1..1 : k = 1
  BY <1>6
<1>8. Partitioned(Parts(sort'), n)
  <2>1. \A x \in DOMAIN Parts(sort') : x = 1 /\ Parts(sort')[x][1] = 1 /\ Parts(sort')[x][2] = n
    BY <1>7
  <2>2. 1 <= n /\ n <= n
    BY <1>1, <1>2
  <2> QED
    BY <2>1, <2>2 DEF Partitioned
<1>9. Separated(tbl.array, n, Parts(sort'))
  BY <1>2, <1>7 DEF Separated, Part
<1>10. TableInv'
  BY <1>1 DEF IInv, TableInv
<1>11. RangesInv'
  BY <1>1, <1>2, <1>4, <1>5, <1>8 DEF RangesInv, Cursors, SortRuns, n
<1>12. CallInv'
  BY <1>4 DEF CallInv
<1>13. OrderInv'
  BY <1>1, <1>4, <1>9 DEF OrderInv, Established
<1> QED
  BY <1>10, <1>11, <1>12, <1>13 DEF IInv

\* sort_less calls the program's comparator with the two elements it compares.
LEMMA LessCalls ==
    ASSUME IInv, sort_less_calls
    PROVE  IInv'
<1> DEFINE v == IF sort.comp = "any" THEN <<Nil, Nil>> ELSE Operands(sort)
           r == [sort EXCEPT !.st = "calling", !.args = v]
<1>1. /\ SortRuns /\ sort.comp # "default" /\ tbl' = tbl /\ sort' = r
  BY DEF sort_less_calls, SortRuns
<1>2. /\ sort \in Sorts /\ sort # NoSort /\ sort.st \in {"running", "calling"} /\ sort.lo < sort.up
      /\ Partitioned(Parts(sort), sort.n) /\ Cursors(sort)
  BY <1>1, Sorting
<1>3. /\ v \in Content \X Content /\ v # <<>> /\ (sort.comp # "any" => v = Operands(sort))
  <2>1. Operands(sort) \in Content \X Content
    BY <1>1, Indices DEF Operands
  <2>2. \A x \in Content \X Content : x # <<>>
    OBVIOUS
  <2>3. v \in Content \X Content
    BY <2>1, Contents
  <2> QED
    BY <2>2, <2>3
<1> HIDE DEF v
<1>4. /\ r \in Sorts /\ r.st = "calling" /\ r.args = v /\ r # NoSort
      /\ r.comp = sort.comp /\ r.n = sort.n /\ r.orig = sort.orig /\ r.alone = sort.alone
      /\ r.pc = sort.pc /\ r.work = sort.work /\ r.lo = sort.lo /\ r.up = sort.up
      /\ r.i = sort.i /\ r.j = sort.j
  <2>1. v \in {<<>>} \cup (Vals \cup {Nil}) \X (Vals \cup {Nil})
    BY <1>3 DEF Content
  <2>2. /\ r \in Sorts /\ r.st = "calling" /\ r.args = v
        /\ r.comp = sort.comp /\ r.n = sort.n /\ r.orig = sort.orig /\ r.alone = sort.alone
        /\ r.pc = sort.pc /\ r.work = sort.work /\ r.lo = sort.lo /\ r.up = sort.up
        /\ r.i = sort.i /\ r.j = sort.j
    BY <1>2, <2>1 DEF Sorts
  <2> QED
    BY <2>2 DEF NoSort
<1> HIDE DEF r
<1>5. Parts(r) = Parts(sort) /\ Mid(r) = Mid(sort) /\ Pivot(r) = Pivot(sort)
  BY <1>2, <1>4 DEF Parts, Mid, Pivot
<1>6. Cursors(r) /\ Compared(r) = Compared(sort) /\ (Established(sort, tbl.array) => Established(r, tbl.array))
  BY <1>2, <1>4, <1>5 DEF Cursors, Compared, Established
<1>8. TableInv'
  BY <1>1 DEF IInv, TableInv
<1>9. RangesInv'
  BY <1>1, <1>2, <1>4, <1>5, <1>6 DEF IInv, RangesInv, SortRuns
<1>10. CallInv'
  <2>1. Operands(sort)' = Operands(sort)
    BY <1>1, <1>6 DEF Operands, raw_get
  <2> QED
    BY <1>1, <1>2, <1>3, <1>4, <2>1 DEF IInv, CallInv
<1>11. OrderInv'
  BY <1>1, <1>2, <1>4, <1>5, <1>6 DEF IInv, OrderInv, SortRuns
<1> QED
  BY <1>8, <1>9, <1>10, <1>11 DEF IInv

\* A comparator that raises ends the sort.
LEMMA Raises ==
    ASSUME IInv, sort_raises
    PROVE  IInv'
<1>1. SortRuns
  BY DEF sort_raises, Decided, SortRuns
<1>2. tbl' = tbl /\ sort' = Ends(sort, "raised")
  BY DEF sort_raises, Ends
<1> QED
  BY <1>1, <1>2, Stops

\* When a sort returns the table is the program's again.
LEMMA Returns ==
    ASSUME IInv, sort_returns
    PROVE  IInv'
BY DEF sort_returns, IInv, TableInv, RangesInv, CallInv, OrderInv

\* The program runs between sorts, or while one waits that has to stand anything.
LEMMA Becoming ==
    ASSUME IInv, ProgramRuns, NEW t \in State(Content), raw_len(tbl) <= raw_len(t), Becomes(t)
    PROVE  IInv'
<1>1. tbl' = t /\ raw_len(t) <= MaxLen
  BY DEF Becomes
<1>2. TableInv'
  BY <1>1, Contents DEF TableInv
<1>3. CASE sort.st = "none"
  <2>1. sort = NoSort
    <3>1. \A s \in Sorts : s.st # "none"
      BY DEF Sorts
    <3> QED
      BY <1>3, <3>1 DEF IInv, RangesInv
  <2>2. sort' = NoSort
    BY <1>3, <2>1 DEF Becomes
  <2> QED
    BY <1>2, <2>2 DEF IInv, RangesInv, CallInv, OrderInv
<1>4. CASE sort.st = "calling" /\ sort.comp = "any" /\ sort.alone
  <2> DEFINE r == [sort EXCEPT !.alone = FALSE, !.orig = NoCount]
  <2>0. SortRuns
    BY <1>4 DEF SortRuns
  <2>1. sort' = r
    BY <1>4 DEF Becomes
  <2>2. NoCount \in [Content -> 0..MaxLen]
    <3>1. Empty \in State(Content) /\ raw_len(Empty) = 0 /\ Empty.array = <<>>
      BY Contents DEF Empty, State, raw_len
    <3> QED
      BY <3>1, BoundsAssumption, CountTypes DEF NoCount
  <2>3. /\ sort \in Sorts /\ sort.n <= raw_len(tbl) /\ sort.lo < sort.up /\ sort.n \in Nat
        /\ Partitioned(Parts(sort), sort.n) /\ Cursors(sort) /\ raw_len(tbl) \in Nat
    BY <2>0, Sorting
  <2>4. /\ r \in Sorts /\ r.st = "calling" /\ r.args = sort.args /\ r.alone = FALSE
        /\ r.comp = "any" /\ r.n = sort.n
        /\ r.pc = sort.pc /\ r.work = sort.work /\ r.lo = sort.lo /\ r.up = sort.up
        /\ r.i = sort.i /\ r.j = sort.j
    BY <1>4, <2>2, <2>3 DEF Sorts, Content
  <2> HIDE DEF r
  <2>5. Parts(r) = Parts(sort) /\ Cursors(r)
    BY <1>4, <2>3, <2>4 DEF Parts, Cursors
  <2>6. r.n <= raw_len(t)
    BY <2>3, <2>4, Lengths
  <2>7. RangesInv'
    BY <1>1, <2>1, <2>3, <2>4, <2>5, <2>6 DEF RangesInv, SortRuns
  <2>8. CallInv'
    BY <1>4, <2>1, <2>3, <2>4 DEF IInv, CallInv, NoSort
  <2>9. OrderInv'
    BY <2>1, <2>4 DEF OrderInv
  <2> QED
    BY <1>2, <2>7, <2>8, <2>9 DEF IInv
<1> QED
  BY <1>3, <1>4 DEF ProgramRuns
-----------------------------------------------------------------------------
(* The functions that copy elements                                        *)

\* Pairs from f to d where no key is written twice or read after it was
\* written.
Plan(pairs, same, N, f, d) ==
    /\ DOMAIN pairs = 1..N
    /\ \A i \in 1..N : /\ pairs[i] = <<f[i], d[i]>> /\ f[i] \in Int /\ d[i] \in Int
                       /\ MinInt <= f[i] /\ MinInt <= d[i]
    /\ \A i, j \in 1..N : i < j => d[i] # d[j] /\ (same => f[j] # d[i])

\* r is dst with the elements of src at f copied to d.
Copied(V, r, src, dst, N, f, d) ==
    /\ r \in State(V) /\ raw_len(r) >= raw_len(dst)
    /\ \A i \in 1..N : raw_get(r, d[i]) = raw_get(src, f[i])
    /\ \A k \in Int : MinInt <= k /\ (\A i \in 1..N : d[i] # k) => raw_get(r, k) = raw_get(dst, k)

\* Copying pair by pair puts at each target what its source held, when no source is overwritten
\* early.
LEMMA Copies ==
    ASSUME NEW V, Nil \in V, NEW src \in State(V), NEW dst \in State(V), NEW same \in BOOLEAN,
           same => src = dst, NEW N \in Nat, NEW f, NEW d, NEW pairs, Plan(pairs, same, N, f, d)
    PROVE  Copied(V, CopyAll(src, dst, same, pairs), src, dst, N, f, d)
<1> DEFINE From(u) == IF same THEN u ELSE src
           step == [n \in 1..N |-> [u \in State(V) |->
                       raw_set(u, d[n], raw_get(From(u), f[n]))]]
           Row(g, n) == IF n = 0 THEN dst
                        ELSE raw_set(g[n - 1], pairs[n][2], raw_get(IF same THEN g[n - 1] ELSE src, pairs[n][1]))
           Done(u, n) ==
              /\ u \in State(V) /\ raw_len(u) >= raw_len(dst)
              /\ \A i \in 1..n : raw_get(u, d[i]) = raw_get(src, f[i])
              /\ \A k \in Int : MinInt <= k /\ (\A i \in 1..n : d[i] # k) =>
                                   raw_get(u, k) = raw_get(dst, k)
<1>0. /\ DOMAIN pairs = 1..N
      /\ \A i \in 1..N : /\ pairs[i] = <<f[i], d[i]>> /\ f[i] \in Int /\ d[i] \in Int
                         /\ MinInt <= f[i] /\ MinInt <= d[i]
      /\ \A i, j \in 1..N : i < j => d[i] # d[j] /\ (same => f[j] # d[i])
  BY DEF Plan
<1>1. Cardinality(DOMAIN pairs) = N
  BY <1>0, FS_Interval
<1>2. \A u \in State(V) : From(u) \in State(V)
  OBVIOUS
<1>3. \A n \in 1..N : \A u \in State(V) : step[n][u] = raw_set(u, d[n], raw_get(From(u), f[n]))
  OBVIOUS
<1> HIDE DEF step, From
<1>4. \A n \in 1..N : \A u \in State(V) : step[n][u] \in State(V)
  <2> SUFFICES ASSUME NEW n \in 1..N, NEW u \in State(V) PROVE step[n][u] \in State(V)
    OBVIOUS
  <2>1. f[n] \in Int /\ MinInt <= f[n] /\ d[n] \in Int /\ MinInt <= d[n] /\ From(u) \in State(V)
    BY <1>0, <1>2
  <2>2. raw_get(From(u), f[n]) \in V
    BY <2>1, RawGet
  <2>3. raw_set(u, d[n], raw_get(From(u), f[n])) \in State(V)
    BY <2>1, <2>2, RawSet
  <2> QED
    BY <1>3, <2>3
<1>5. PICK t \in [0..N -> State(V)] : t = [n \in 0..N |-> IF n = 0 THEN dst ELSE step[n][t[n - 1]]]
  <2>1. \E t \in [0..N -> State(V)] : FollowsFold(t, N, dst, step)
    BY <1>4, FoldRecursion, Zenon
  <2> QED
    BY <2>1, Zenon DEF FollowsFold
<1>6. ASSUME NEW n \in 0..N, n # 0
      PROVE  n \in 1..N /\ n - 1 \in 0..N /\ t[n - 1] \in State(V)
             /\ step[n][t[n - 1]] = Row(t, n) /\ t[n] = step[n][t[n - 1]]
  <2>1. n \in 1..N /\ n - 1 \in 0..N
    BY <1>6
  <2>2. t[n] = step[n][t[n - 1]]
    BY <1>5, <1>6
  <2>3. t[n - 1] \in State(V)
    BY <1>5, <2>1
  <2>4. pairs[n][1] = f[n] /\ pairs[n][2] = d[n]
    BY <1>0, <2>1
  <2>5. step[n][t[n - 1]] = raw_set(t[n - 1], d[n], raw_get(From(t[n - 1]), f[n]))
    BY <1>3, <2>1, <2>3
  <2> QED
    BY <1>6, <2>1, <2>2, <2>3, <2>4, <2>5, Zenon DEF From
<1>7. t = [n \in 0..N |-> Row(t, n)]
  <2>1. \A n \in 0..N : t[n] = Row(t, n)
    <3>1. t[0] = dst
      BY <1>5
    <3> QED
      BY <1>6, <3>1
  <2> HIDE DEF Row
  <2> QED
    BY <1>5, <2>1
<1>8. ASSUME NEW g, g = [n \in 0..N |-> Row(g, n)] PROVE g = t
  <2> DEFINE S == {n \in Nat : n <= N => g[n] = t[n]}
  <2>1. \A n \in 0..N : g[n] = Row(g, n) /\ t[n] = Row(t, n)
    <3> HIDE DEF Row
    <3> QED
      BY <1>7, <1>8, Zenon
  <2>2. 0 \in S
    <3>1. Row(g, 0) = dst /\ Row(t, 0) = dst /\ 0 \in 0..N
      OBVIOUS
    <3> HIDE DEF Row
    <3> QED
      BY <2>1, <3>1
  <2>3. ASSUME NEW n \in Nat, n \in S PROVE n + 1 \in S
    <3> SUFFICES ASSUME n + 1 <= N PROVE g[n + 1] = t[n + 1]
      OBVIOUS
    <3>1. n + 1 \in 0..N /\ (n + 1) - 1 = n /\ g[n] = t[n] /\ n + 1 # 0
      BY <2>3
    <3>2. Row(g, n + 1) = Row(t, n + 1)
      BY <3>1, Zenon
    <3> QED
      BY <2>1, <3>1, <3>2
  <2>4. Nat \subseteq S
    <3> HIDE DEF S
    <3> QED
      BY <2>2, <2>3, SetInduction
  <2>5. \A n \in 0..N : g[n] = t[n]
    BY <2>4
  <2> HIDE DEF Row
  <2>6. DOMAIN g = 0..N /\ DOMAIN t = 0..N /\ g = [n \in 0..N |-> g[n]] /\ t = [n \in 0..N |-> t[n]]
    BY <1>5, <1>8
  <2> QED
    BY <2>5, <2>6
<1>9. CopyAll(src, dst, same, pairs) = t[N]
  <2>1. t = CHOOSE g : g = [n \in 0..N |-> Row(g, n)]
    BY <1>7, <1>8, Zenon
  <2> QED
    BY <1>1, <2>1, Zenon DEF CopyAll
<1> DEFINE S == {n \in Nat : n <= N => Done(t[n], n)}
<1>10. 0 \in S
  <2>1. t[0] = dst /\ raw_len(dst) \in Nat
    BY <1>5, Lengths
  <2> QED
    BY <2>1
<1>11. ASSUME NEW n \in Nat, n \in S PROVE n + 1 \in S
  <2> SUFFICES ASSUME n + 1 <= N PROVE Done(t[n + 1], n + 1)
    OBVIOUS
  <2>1. /\ n + 1 \in 1..N /\ n + 1 \in 0..N /\ (n + 1) - 1 = n /\ n + 1 # 0 /\ t[n] \in State(V)
        /\ \A i \in 1..n : i \in 1..N /\ i < n + 1
        /\ \A i \in 1..(n + 1) : i \in 1..n \/ i = n + 1
    <3>1. n + 1 \in 1..N /\ n + 1 \in 0..N /\ (n + 1) - 1 = n /\ n + 1 # 0 /\ n \in 0..N
      OBVIOUS
    <3>2. t[n] \in State(V)
      BY <1>5, <3>1
    <3>3. \A i \in 1..n : i \in 1..N /\ i < n + 1
      OBVIOUS
    <3>4. \A i \in 1..(n + 1) : i \in 1..n \/ i = n + 1
      OBVIOUS
    <3> QED
      BY <3>1, <3>2, <3>3, <3>4
  <2>2. Done(t[n], n)
    BY <1>11
  <2>3. t[n + 1] = raw_set(t[n], d[n + 1], raw_get(From(t[n]), f[n + 1]))
    BY <1>3, <1>6, <2>1
  <2> DEFINE k1 == d[n + 1]
             v == raw_get(From(t[n]), f[n + 1])
  <2>4. /\ k1 \in Int /\ MinInt <= k1 /\ v \in V
        /\ v = raw_get(src, f[n + 1])
    <3>1. k1 \in Int /\ MinInt <= k1 /\ f[n + 1] \in Int /\ MinInt <= f[n + 1]
      BY <1>0, <2>1 DEF k1
    <3>2. v \in V
      BY <1>2, <2>1, <3>1, RawGet
    <3>3. v = raw_get(src, f[n + 1])
      <4>1. CASE same
        <5>1. \A i \in 1..n : d[i] # f[n + 1]
          BY <1>0, <2>1, <4>1
        <5>2. raw_get(t[n], f[n + 1]) = raw_get(dst, f[n + 1])
          BY <2>2, <3>1, <5>1
        <5> QED
          BY <4>1, <5>2 DEF From
      <4>2. CASE ~same
        BY <4>2 DEF From
      <4> QED
        BY <4>1, <4>2
    <3> QED
      BY <3>1, <3>2, <3>3
  <2> HIDE DEF v, k1
  <2>5. /\ t[n + 1] \in State(V)
        /\ raw_len(t[n + 1]) = IF k1 > raw_len(t[n]) THEN k1 ELSE raw_len(t[n])
        /\ \A j \in Int : MinInt <= j =>
              raw_get(t[n + 1], j) = IF j = k1 THEN v ELSE raw_get(t[n], j)
    BY <2>1, <2>3, <2>4, RawSet DEF v, k1
  <2>6. raw_len(t[n + 1]) >= raw_len(dst)
    BY <2>1, <2>2, <2>4, <2>5, Lengths
  <2>7. ASSUME NEW i \in 1..(n + 1) PROVE raw_get(t[n + 1], d[i]) = raw_get(src, f[i])
    <3>1. CASE i = n + 1
      BY <2>4, <2>5, <3>1 DEF k1
    <3>2. CASE i \in 1..n
      <4>1. d[i] # k1 /\ d[i] \in Int /\ MinInt <= d[i]
        BY <1>0, <2>1, <3>2 DEF k1
      <4> QED
        BY <2>2, <2>5, <3>2, <4>1
    <3> QED
      BY <2>1, <3>1, <3>2
  <2>8. ASSUME NEW k \in Int, MinInt <= k, \A i \in 1..(n + 1) : d[i] # k
        PROVE  raw_get(t[n + 1], k) = raw_get(dst, k)
    <3>1. k # k1 /\ \A i \in 1..n : d[i] # k
      BY <2>1, <2>8 DEF k1
    <3> QED
      BY <2>2, <2>5, <2>8, <3>1
  <2> QED
    BY <2>5, <2>6, <2>7, <2>8
<1>12. N \in S
  <2> HIDE DEF S
  <2> QED
    BY <1>10, <1>11, SetInduction
<1>13. Done(t[N], N)
  BY <1>12
<1> QED
  BY <1>9, <1>13 DEF Copied

\* A value for each key, where a range of keys has been shifted.
LEMMA InsertShifts ==
    ASSUME NEW V, Nil \in V, NEW t \in State(V), NEW pos \in Int, NEW v \in V
    PROVE  LET n == raw_len(t)
               r == lua_insert(t, pos, v)
           IN  IF pos \notin 1..(n + 1) THEN r.err # "none"
               ELSE /\ r.err = "none" /\ r.t \in State(V) /\ raw_len(r.t) >= n
                    /\ \A k \in Int : MinInt <= k =>
                          raw_get(r.t, k) = IF k = pos THEN v
                                            ELSE raw_get(t, IF k \in (pos + 1)..(n + 1) THEN k - 1 ELSE k)
<1> DEFINE n == raw_len(t)
           r == lua_insert(t, pos, v)
           N == n - pos + 1
           f == [i \in 1..N |-> n - i + 1]
           d == [i \in 1..N |-> n - i + 2]
           pairs == [i \in 1..N |-> <<n - i + 1, n - i + 2>>]
           R == CopyAll(t, t, TRUE, pairs)
<1>1. n \in Nat /\ MinInt \in Int /\ MinInt <= -1
  BY Lengths, Width
<1>2. CASE pos \notin 1..(n + 1)
  <2>1. pos < 1 \/ pos > n + 1
    BY <1>1, <1>2
  <2> QED
    BY <1>2, <2>1 DEF lua_insert, Raise
<1>3. CASE pos \in 1..(n + 1)
  <2>1. ~(pos < 1 \/ pos > n + 1) /\ N \in Nat /\ pos >= 1
    BY <1>1, <1>3
  <2>2. r = Ok(raw_set(R, pos, v), <<>>)
    BY <2>1, Zenon DEF lua_insert
  <2>3. DOMAIN pairs = 1..N /\ \A i \in 1..N : /\ pairs[i] = <<f[i], d[i]>> /\ f[i] \in Int /\ d[i] \in Int
                                               /\ MinInt <= f[i] /\ MinInt <= d[i]
    BY <1>1, <2>1
  <2>4. \A i, j \in 1..N : i < j => d[i] # d[j] /\ (TRUE => f[j] # d[i])
    BY <1>1, <2>1
  <2>5. \A i \in 1..N : f[i] = n - i + 1 /\ d[i] = n - i + 2
    OBVIOUS
  <2> HIDE DEF pairs, f, d, N
  <2>6. /\ R \in State(V) /\ raw_len(R) >= n
        /\ \A i \in 1..N : raw_get(R, d[i]) = raw_get(t, f[i])
        /\ \A k \in Int : MinInt <= k /\ (\A i \in 1..N : d[i] # k) => raw_get(R, k) = raw_get(t, k)
    <3>1. Plan(pairs, TRUE, N, f, d)
      BY <2>3, <2>4 DEF Plan
    <3>2. Copied(V, R, t, t, N, f, d)
      BY <2>1, <3>1, Copies, Zenon
    <3> QED
      BY <3>2 DEF Copied
  <2> HIDE DEF R
  <2>7. ASSUME NEW k \in Int, MinInt <= k, k # pos
        PROVE  raw_get(R, k) = raw_get(t, IF k \in (pos + 1)..(n + 1) THEN k - 1 ELSE k)
    <3>1. CASE k \in (pos + 1)..(n + 1)
      <4>1. n + 2 - k \in 1..N /\ n - (n + 2 - k) + 1 = k - 1 /\ n - (n + 2 - k) + 2 = k
        BY <1>1, <1>3, <3>1 DEF N
      <4> QED
        BY <2>5, <2>6, <3>1, <4>1
    <3>2. CASE k \notin (pos + 1)..(n + 1)
      <4>1. \A i \in 1..N : n - i + 2 # k
        BY <1>1, <1>3, <3>2 DEF N
      <4> QED
        BY <2>5, <2>6, <2>7, <3>2, <4>1
    <3> QED
      BY <3>1, <3>2
  <2>8. /\ raw_set(R, pos, v) \in State(V)
        /\ raw_len(raw_set(R, pos, v)) >= raw_len(R)
        /\ \A k \in Int : MinInt <= k =>
              raw_get(raw_set(R, pos, v), k) = IF k = pos THEN v ELSE raw_get(R, k)
    <3>1. R \in State(V) /\ MinInt <= pos /\ raw_len(R) \in Nat
      BY <1>1, <2>1, <2>6, Lengths
    <3>2. raw_len(raw_set(R, pos, v)) = IF pos > raw_len(R) THEN pos ELSE raw_len(R)
      BY <3>1, RawSet
    <3>3. raw_len(raw_set(R, pos, v)) >= raw_len(R)
      BY <3>1, <3>2
    <3> QED
      BY <3>1, <3>3, RawSet
  <2>9. r.err = "none" /\ r.t = raw_set(R, pos, v)
    BY <2>2 DEF Ok
  <2>10. raw_len(r.t) >= n
    BY <1>1, <2>6, <2>8, <2>9, Lengths
  <2> QED
    BY <1>3, <2>7, <2>8, <2>9, <2>10
<1> QED
  BY <1>2, <1>3

\* r is what removing the element at pos leaves and returns.
Removed(V, t, pos, r) ==
    LET n == raw_len(t) IN
    /\ r.err = "none" /\ r.t \in State(V) /\ raw_len(r.t) >= n
    /\ r.v = <<raw_get(t, pos)>>
    /\ \A k \in Int : MinInt <= k =>
          raw_get(r.t, k) = IF k = Max({pos, n}) THEN Nil
                            ELSE raw_get(t, IF k \in pos..(n - 1) THEN k + 1 ELSE k)

\* lua_remove moves what is above the position down by one.
LEMMA RemoveShifts ==
    ASSUME NEW V, Nil \in V, NEW t \in State(V), NEW pos \in Int
    PROVE  LET n == raw_len(t)
               r == lua_remove(t, pos)
           IN  IF pos \notin {n} \cup 1..(n + 1) THEN r.err # "none" ELSE Removed(V, t, pos, r)
<1> DEFINE n == raw_len(t)
           r == lua_remove(t, pos)
           m == Max({pos, n})
           N == IF n >= pos THEN n - pos ELSE 0
           f == [i \in 1..N |-> pos + i]
           d == [i \in 1..N |-> pos + i - 1]
           pairs == [i \in 1..(n - pos) |-> <<pos + i, pos + i - 1>>]
           R == CopyAll(t, t, TRUE, pairs)
<1>1. n \in Nat /\ MinInt \in Int /\ MinInt <= -1
  BY Lengths, Width
<1>2. CASE pos \notin {n} \cup 1..(n + 1)
  <2>1. pos # n /\ (pos < 1 \/ pos > n + 1)
    BY <1>1, <1>2
  <2> QED
    BY <1>2, <2>1 DEF lua_remove, Raise
<1>3. CASE pos \in {n} \cup 1..(n + 1)
  <2>1. ~(pos # n /\ (pos < 1 \/ pos > n + 1)) /\ N \in Nat /\ pos >= 0 /\ pos <= n + 1
    BY <1>1, <1>3
  <2>2. r = Ok(raw_set(R, m, Nil), <<raw_get(t, pos)>>)
    BY <2>1, Zenon DEF lua_remove
  <2>3. m = (IF pos >= n THEN pos ELSE n) /\ m \in Nat
    BY <1>1, <2>1, MaxOfTwo
  <2>4. 1..(n - pos) = 1..N
    BY <1>1, <2>1
  <2>5. DOMAIN pairs = 1..N /\ \A i \in 1..N : /\ pairs[i] = <<f[i], d[i]>> /\ f[i] \in Int /\ d[i] \in Int
                                               /\ MinInt <= f[i] /\ MinInt <= d[i]
    BY <1>1, <2>1, <2>4
  <2>6. \A i, j \in 1..N : i < j => d[i] # d[j] /\ (TRUE => f[j] # d[i])
    BY <1>1, <2>1
  <2>7. \A i \in 1..N : f[i] = pos + i /\ d[i] = pos + i - 1
    OBVIOUS
  <2> HIDE DEF pairs, f, d, N
  <2>8. /\ R \in State(V) /\ raw_len(R) >= n
        /\ \A i \in 1..N : raw_get(R, d[i]) = raw_get(t, f[i])
        /\ \A k \in Int : MinInt <= k /\ (\A i \in 1..N : d[i] # k) => raw_get(R, k) = raw_get(t, k)
    <3>1. Plan(pairs, TRUE, N, f, d)
      BY <2>5, <2>6 DEF Plan
    <3>2. Copied(V, R, t, t, N, f, d)
      BY <2>1, <3>1, Copies, Zenon
    <3> QED
      BY <3>2 DEF Copied
  <2> HIDE DEF R, m
  <2>9. ASSUME NEW k \in Int, MinInt <= k
        PROVE  raw_get(R, k) = raw_get(t, IF k \in pos..(n - 1) THEN k + 1 ELSE k)
    <3>1. CASE k \in pos..(n - 1)
      <4>1. (k - pos) + 1 \in 1..N /\ pos + ((k - pos) + 1) = k + 1 /\ pos + ((k - pos) + 1) - 1 = k
        BY <1>1, <1>3, <2>1, <3>1 DEF N
      <4> QED
        BY <2>7, <2>8, <3>1, <4>1
    <3>2. CASE k \notin pos..(n - 1)
      <4>1. \A i \in 1..N : pos + i - 1 # k
        BY <1>1, <1>3, <2>1, <3>2 DEF N
      <4> QED
        BY <2>7, <2>8, <2>9, <3>2, <4>1
    <3> QED
      BY <3>1, <3>2
  <2>10. /\ raw_set(R, m, Nil) \in State(V)
         /\ raw_len(raw_set(R, m, Nil)) >= raw_len(R)
         /\ \A k \in Int : MinInt <= k =>
               raw_get(raw_set(R, m, Nil), k) = IF k = m THEN Nil ELSE raw_get(R, k)
    <3>1. R \in State(V) /\ m \in Int /\ MinInt <= m /\ raw_len(R) \in Nat
      BY <1>1, <2>3, <2>8, Lengths
    <3>2. raw_len(raw_set(R, m, Nil)) = IF m > raw_len(R) THEN m ELSE raw_len(R)
      BY <3>1, RawSet
    <3>3. raw_len(raw_set(R, m, Nil)) >= raw_len(R)
      BY <3>1, <3>2
    <3> QED
      BY <3>1, <3>3, RawSet
  <2>11. r.err = "none" /\ r.t = raw_set(R, m, Nil) /\ r.v = <<raw_get(t, pos)>>
    BY <2>2 DEF Ok
  <2>12. raw_len(r.t) >= n
    BY <1>1, <2>8, <2>10, <2>11, Lengths
  <2>13. \A k \in Int : MinInt <= k =>
            raw_get(r.t, k) = IF k = m THEN Nil
                              ELSE raw_get(t, IF k \in pos..(n - 1) THEN k + 1 ELSE k)
    BY <2>9, <2>10, <2>11
  <2> HIDE DEF r
  <2>14. Removed(V, t, pos, r)
    BY <2>10, <2>11, <2>12, <2>13 DEF Removed, m
  <2> QED
    BY <1>3, <2>14 DEF r
<1> QED
  BY <1>2, <1>3

\* lua_move copies a range, also onto itself, or refuses one that overflows.
LEMMA MoveCopies ==
    ASSUME NEW V, Nil \in V, NEW a1 \in State(V), NEW a2 \in State(V), NEW same \in BOOLEAN,
           same => a1 = a2, NEW f \in IntKeys, NEW e \in IntKeys, NEW t \in IntKeys
    PROVE  LET r == lua_move(a1, a2, same, f, e, t)
           IN  IF e >= f /\ (e - f + 1 > MaxInt \/ t + e - f > MaxInt) THEN r.err # "none"
               ELSE /\ r.err = "none" /\ r.t \in State(V) /\ raw_len(r.t) >= raw_len(a2)
                    /\ \A k \in Int : MinInt <= k =>
                          raw_get(r.t, k) = IF k \in t..(t + e - f) THEN raw_get(a1, f + k - t)
                                            ELSE raw_get(a2, k)
<1> DEFINE r == lua_move(a1, a2, same, f, e, t)
           n == e - f + 1
           pairs == [i \in 1..n |-> <<f + i - 1, t + i - 1>>]
           ahead == t > e \/ t <= f \/ ~same
           order == IF ahead THEN pairs ELSE Reverse(pairs)
           R == CopyAll(a1, a2, same, order)
           New(u, k) == raw_get(u, k) = IF k \in t..(t + e - f) THEN raw_get(a1, f + k - t)
                                        ELSE raw_get(a2, k)
<1>1. /\ f \in Int /\ e \in Int /\ t \in Int /\ MinInt \in Int /\ MaxInt \in Int
      /\ MinInt <= f /\ MinInt <= e /\ MinInt <= t /\ f <= MaxInt /\ e <= MaxInt /\ t <= MaxInt
  BY Width DEF IntKeys
<1>2. CASE e < f
  <2>1. r = Ok(a2, <<>>)
    BY <1>2, Zenon DEF lua_move
  <2>2. r.err = "none" /\ r.t = a2
    BY <2>1 DEF Ok
  <2>3. t..(t + e - f) = {} /\ ~(e >= f) /\ raw_len(a2) \in Nat
    BY <1>1, <1>2, Lengths
  <2>4. \A k \in Int : New(r.t, k)
    BY <2>2, <2>3
  <2> QED
    BY <2>2, <2>3, <2>4
<1>3. CASE e >= f
  <2>1. n \in Nat /\ ~(e < f)
    BY <1>1, <1>3
  <2>2. CASE ~MoveFits(f, e)
    <3>1. e - f + 1 > MaxInt
      BY <1>1, <2>2 DEF MoveFits
    <3>2. r = Raise("too many elements to move")
      BY <2>1, <2>2, Zenon DEF lua_move
    <3> HIDE DEF r
    <3>3. Raise("too many elements to move").err # "none"
      BY DEF Raise
    <3>4. r.err # "none"
      BY <3>2, <3>3
    <3> QED
      BY <1>3, <3>1, <3>4 DEF r
  <2>3. CASE MoveFits(f, e) /\ t > MaxInt - n + 1
    <3>1. t + e - f > MaxInt
      BY <1>1, <2>3
    <3>2. r = Raise("destination wrap around")
      BY <2>1, <2>3, Zenon DEF lua_move
    <3> HIDE DEF r
    <3>3. Raise("destination wrap around").err # "none"
      BY DEF Raise
    <3>4. r.err # "none"
      BY <3>2, <3>3
    <3> QED
      BY <1>3, <3>1, <3>4 DEF r
  <2>4. CASE MoveFits(f, e) /\ ~(t > MaxInt - n + 1)
    <3>1. ~(e - f + 1 > MaxInt \/ t + e - f > MaxInt)
      BY <1>1, <2>4 DEF MoveFits
    <3>2. r = Ok(R, <<>>)
      BY <2>1, <2>4, Zenon DEF lua_move
    <3>3. r.err = "none" /\ r.t = R
      BY <3>2 DEF Ok
    <3>4. R \in State(V) /\ raw_len(R) >= raw_len(a2) /\ \A k \in Int : MinInt <= k => New(R, k)
      <4>1. CASE ahead
        <5> DEFINE fs == [i \in 1..n |-> f + i - 1]
                   ds == [i \in 1..n |-> t + i - 1]
        <5>1. \A i \in 1..n : fs[i] = f + i - 1 /\ ds[i] = t + i - 1
          OBVIOUS
        <5>2. order = pairs
          BY <4>1
        <5>3. Plan(pairs, same, n, fs, ds)
          <6>1. DOMAIN pairs = 1..n /\ \A i \in 1..n : pairs[i] = <<f + i - 1, t + i - 1>>
            OBVIOUS
          <6>2. \A i \in 1..n : /\ f + i - 1 \in Int /\ t + i - 1 \in Int
                                /\ MinInt <= f + i - 1 /\ MinInt <= t + i - 1
            BY <1>1, <2>1
          <6>3. \A i, j \in 1..n : i < j => t + i - 1 # t + j - 1 /\ (same => f + j - 1 # t + i - 1)
            BY <1>1, <2>1, <4>1
          <6> HIDE DEF pairs, fs, ds
          <6> QED
            BY <5>1, <6>1, <6>2, <6>3 DEF Plan
        <5> HIDE DEF pairs, fs, ds
        <5>4. Copied(V, R, a1, a2, n, fs, ds)
          BY <2>1, <5>2, <5>3, Copies, Zenon
        <5> HIDE DEF R
        <5>5. ASSUME NEW k \in Int, MinInt <= k PROVE New(R, k)
          <6>1. CASE k \in t..(t + e - f)
            <7>1. (k - t) + 1 \in 1..n /\ f + ((k - t) + 1) - 1 = f + k - t /\ t + ((k - t) + 1) - 1 = k
              BY <1>1, <1>3, <6>1
            <7> QED
              BY <5>1, <5>4, <6>1, <7>1 DEF Copied
          <6>2. CASE k \notin t..(t + e - f)
            <7>1. \A i \in 1..n : t + i - 1 # k
              BY <1>1, <1>3, <6>2
            <7> QED
              BY <5>1, <5>4, <5>5, <6>2, <7>1 DEF Copied
          <6> QED
            BY <6>1, <6>2
        <5> QED
          BY <5>4, <5>5 DEF Copied
      <4>2. CASE ~ahead
        <5> DEFINE fs == [i \in 1..n |-> f + n - i]
                   ds == [i \in 1..n |-> t + n - i]
        <5>1. \A i \in 1..n : fs[i] = f + n - i /\ ds[i] = t + n - i
          OBVIOUS
        <5>2. order = Reverse(pairs)
          BY <4>2
        <5>3. Plan(Reverse(pairs), same, n, fs, ds)
          <6>0. pairs \in [1..n -> Int \X Int] /\ \A i \in 1..n : pairs[i] = <<f + i - 1, t + i - 1>>
            BY <1>1, <2>1
          <6> HIDE DEF pairs
          <6>1. Len(pairs) = n
            BY <2>1, <6>0, FunctionSeq
          <6>2. Reverse(pairs) = [i \in 1..n |-> pairs[(n - i) + 1]]
            BY <6>1, Zenon DEF Reverse
          <6>3. \A i \in 1..n : /\ (n - i) + 1 \in 1..n
                                /\ f + ((n - i) + 1) - 1 = f + n - i /\ t + ((n - i) + 1) - 1 = t + n - i
            BY <1>1, <2>1
          <6>4. /\ DOMAIN Reverse(pairs) = 1..n
                /\ \A i \in 1..n : Reverse(pairs)[i] = <<f + n - i, t + n - i>>
            BY <6>0, <6>2, <6>3
          <6>5. \A i \in 1..n : /\ f + n - i \in Int /\ t + n - i \in Int
                                /\ MinInt <= f + n - i /\ MinInt <= t + n - i
            BY <1>1, <2>1
          <6>6. \A i, j \in 1..n : i < j => t + n - i # t + n - j /\ f + n - j # t + n - i
            BY <1>1, <2>1, <4>2
          <6> HIDE DEF fs, ds
          <6> QED
            BY <5>1, <6>4, <6>5, <6>6 DEF Plan
        <5> HIDE DEF pairs, fs, ds
        <5>4. Copied(V, R, a1, a2, n, fs, ds)
          BY <2>1, <5>2, <5>3, Copies, Zenon
        <5> HIDE DEF R
        <5>5. ASSUME NEW k \in Int, MinInt <= k PROVE New(R, k)
          <6>1. CASE k \in t..(t + e - f)
            <7>1. (t + n) - k \in 1..n /\ f + n - ((t + n) - k) = f + k - t /\ t + n - ((t + n) - k) = k
              BY <1>1, <1>3, <6>1
            <7> QED
              BY <5>1, <5>4, <6>1, <7>1 DEF Copied
          <6>2. CASE k \notin t..(t + e - f)
            <7>1. \A i \in 1..n : t + n - i # k
              BY <1>1, <1>3, <6>2
            <7> QED
              BY <5>1, <5>4, <5>5, <6>2, <7>1 DEF Copied
          <6> QED
            BY <6>1, <6>2
        <5> QED
          BY <5>4, <5>5 DEF Copied
      <4> QED
        BY <4>1, <4>2
    <3> HIDE DEF R, r
    <3> QED
      BY <3>1, <3>3, <3>4 DEF r
  <2> QED
    BY <2>2, <2>3, <2>4
<1> QED
  BY <1>1, <1>2, <1>3

\* lua_pack makes a sequence of its arguments.
LEMMA Packs ==
    ASSUME NEW V, Nil \in V, NEW vs \in Seq(V)
    PROVE  /\ lua_pack(vs) \in State(V) /\ raw_len(lua_pack(vs)) = Len(vs)
           /\ \A i \in 1..Len(vs) : raw_get(lua_pack(vs), i) = vs[i]
<1> DEFINE N == Len(vs)
           step == [n \in 1..N |-> [u \in State(V) |-> raw_set(u, n, vs[n])]]
           Row(g, n) == IF n = 0 THEN Empty ELSE raw_set(g[n - 1], n, vs[n])
           Done(u, n) == /\ u \in State(V) /\ raw_len(u) = n
                         /\ \A i \in 1..n : raw_get(u, i) = vs[i]
<1>1. N \in Nat /\ \A i \in 1..N : vs[i] \in V /\ i \in Int /\ MinInt <= i
  BY Width, LenProperties, ElementOfSeq
<1>2. Empty \in State(V) /\ raw_len(Empty) = 0
  BY DEF Empty, State, raw_len
<1>3. \A n \in 1..N : \A u \in State(V) : step[n][u] = raw_set(u, n, vs[n])
  OBVIOUS
<1> HIDE DEF N, step
<1>4. \A n \in 1..N : \A u \in State(V) : step[n][u] \in State(V)
  BY <1>1, <1>3, RawSet
<1>5. PICK t \in [0..N -> State(V)] : t = [n \in 0..N |-> IF n = 0 THEN Empty ELSE step[n][t[n - 1]]]
  <2>1. \E t \in [0..N -> State(V)] : FollowsFold(t, N, Empty, step)
    BY <1>1, <1>2, <1>4, FoldRecursion, Zenon
  <2> QED
    BY <2>1, Zenon DEF FollowsFold
<1>6. \A n \in 0..N : t[n] = Row(t, n)
  <2> SUFFICES ASSUME NEW n \in 0..N PROVE t[n] = Row(t, n)
    OBVIOUS
  <2>1. CASE n = 0
    BY <1>5, <2>1
  <2>2. CASE n # 0
    <3>1. n \in 1..N /\ n - 1 \in 0..N
      BY <1>1, <2>2
    <3>2. t[n - 1] \in State(V) /\ t[n] = step[n][t[n - 1]]
      BY <1>5, <2>2, <3>1
    <3> QED
      BY <1>3, <2>2, <3>1, <3>2
  <2> QED
    BY <2>1, <2>2
<1>7. t = [n \in 0..N |-> Row(t, n)]
  <2> HIDE DEF Row
  <2> QED
    BY <1>5, <1>6
<1>8. ASSUME NEW g, g = [n \in 0..N |-> Row(g, n)] PROVE g = t
  <2> DEFINE S == {n \in Nat : n <= N => g[n] = t[n]}
  <2>1. \A n \in 0..N : g[n] = Row(g, n) /\ t[n] = Row(t, n)
    <3> HIDE DEF Row
    <3> QED
      BY <1>7, <1>8, Zenon
  <2>2. 0 \in S
    <3>1. Row(g, 0) = Empty /\ Row(t, 0) = Empty /\ 0 \in 0..N
      BY <1>1
    <3> HIDE DEF Row
    <3> QED
      BY <2>1, <3>1
  <2>3. ASSUME NEW n \in Nat, n \in S PROVE n + 1 \in S
    <3> SUFFICES ASSUME n + 1 <= N PROVE g[n + 1] = t[n + 1]
      OBVIOUS
    <3>1. n + 1 \in 0..N /\ (n + 1) - 1 = n /\ g[n] = t[n] /\ n + 1 # 0
      BY <1>1, <2>3
    <3>2. Row(g, n + 1) = Row(t, n + 1)
      BY <3>1, Zenon
    <3> QED
      BY <2>1, <3>1, <3>2
  <2>4. Nat \subseteq S
    <3> HIDE DEF S
    <3> QED
      BY <2>2, <2>3, SetInduction
  <2>5. \A n \in 0..N : g[n] = t[n]
    BY <1>1, <2>4
  <2> HIDE DEF Row
  <2>6. DOMAIN g = 0..N /\ DOMAIN t = 0..N /\ g = [n \in 0..N |-> g[n]] /\ t = [n \in 0..N |-> t[n]]
    BY <1>5, <1>8
  <2> QED
    BY <2>5, <2>6
<1>9. lua_pack(vs) = t[N]
  <2>1. t = CHOOSE g : g = [n \in 0..N |-> Row(g, n)]
    BY <1>7, <1>8, Zenon
  <2> QED
    BY <2>1, Zenon DEF lua_pack, N
<1> DEFINE S == {n \in Nat : n <= N => Done(t[n], n)}
<1>10. 0 \in S
  BY <1>1, <1>2, <1>6
<1>11. ASSUME NEW n \in Nat, n \in S PROVE n + 1 \in S
  <2> SUFFICES ASSUME n + 1 <= N PROVE Done(t[n + 1], n + 1)
    OBVIOUS
  <2>1. /\ n + 1 \in 1..N /\ n + 1 \in 0..N /\ (n + 1) - 1 = n /\ n + 1 # 0 /\ n \in 0..N
        /\ n + 1 > n
    BY <1>1
  <2>2. Done(t[n], n)
    BY <1>1, <1>11
  <2>3. t[n + 1] = raw_set(t[n], n + 1, vs[n + 1])
    BY <1>6, <2>1
  <2>4. n + 1 \in Int /\ MinInt <= n + 1 /\ vs[n + 1] \in V
    BY <1>1, <2>1
  <2>5. /\ t[n + 1] \in State(V)
        /\ raw_len(t[n + 1]) = IF n + 1 > raw_len(t[n]) THEN n + 1 ELSE raw_len(t[n])
        /\ \A j \in Int : MinInt <= j =>
              raw_get(t[n + 1], j) = IF j = n + 1 THEN vs[n + 1] ELSE raw_get(t[n], j)
    BY <2>2, <2>3, <2>4, RawSet
  <2>6. raw_len(t[n + 1]) = n + 1
    BY <2>1, <2>2, <2>5
  <2>7. ASSUME NEW i \in 1..(n + 1) PROVE raw_get(t[n + 1], i) = vs[i]
    <3>1. i \in Int /\ MinInt <= i /\ (i = n + 1 \/ (i \in 1..n /\ i # n + 1))
      BY Width
    <3> QED
      BY <2>2, <2>5, <3>1
  <2> QED
    BY <2>5, <2>6, <2>7
<1>12. N \in S
  <2> HIDE DEF S
  <2> QED
    BY <1>1, <1>10, <1>11, SetInduction
<1>13. Done(t[N], N)
  BY <1>1, <1>12
<1> QED
  BY <1>9, <1>13 DEF N
-----------------------------------------------------------------------------
(* The invariant                                                           *)

\* The library's other functions keep the invariant.
LEMMA ProgramSteps ==
    ASSUME IInv, call_insert \/ call_remove \/ call_move \/ call_rawset \/ call_pack
    PROVE  IInv'
<1> DEFINE n == raw_len(tbl)
<1>1. tbl \in State(Content) /\ n \in Nat /\ Nil \in Content /\ MaxLen \in Nat /\ MaxLen <= MaxInt
      /\ MinInt \in Int /\ MinInt <= -1 /\ Vals \subseteq Content
  BY Contents, Lengths, BoundsAssumption, Width DEF IInv, TableInv, Content
<1>2. CASE call_insert
  <2>1. PICK pos \in 1..MaxLen, v \in Vals :
           LET r == lua_insert(tbl, pos, v) IN r.err = "none" /\ Becomes(r.t) /\ ProgramRuns
    BY <1>2 DEF call_insert
  <2> DEFINE r == lua_insert(tbl, pos, v)
  <2>2. pos \in Int /\ v \in Content
    BY <1>1
  <2>3. IF pos \notin 1..(n + 1) THEN r.err # "none" ELSE r.t \in State(Content) /\ raw_len(r.t) >= n
    BY <1>1, <2>2, InsertShifts
  <2> HIDE DEF r
  <2>4. r.err = "none" /\ Becomes(r.t) /\ ProgramRuns
    BY <2>1 DEF r
  <2>5. r.t \in State(Content) /\ raw_len(r.t) \in Nat /\ n <= raw_len(r.t)
    BY <1>1, <2>3, <2>4, Lengths
  <2> QED
    BY <2>4, <2>5, Becoming
<1>3. CASE call_remove
  <2>1. PICK pos \in 0..(MaxLen + 1) :
           LET r == lua_remove(tbl, pos) IN r.err = "none" /\ Becomes(r.t) /\ ProgramRuns
    BY <1>3 DEF call_remove
  <2> DEFINE r == lua_remove(tbl, pos)
  <2>2. pos \in Int
    BY <1>1
  <2>3. IF pos \notin {n} \cup 1..(n + 1) THEN r.err # "none" ELSE r.t \in State(Content) /\ raw_len(r.t) >= n
    BY <1>1, <2>2, RemoveShifts DEF Removed
  <2> HIDE DEF r
  <2>4. r.err = "none" /\ Becomes(r.t) /\ ProgramRuns
    BY <2>1 DEF r
  <2>5. r.t \in State(Content) /\ raw_len(r.t) \in Nat /\ n <= raw_len(r.t)
    BY <1>1, <2>3, <2>4, Lengths
  <2> QED
    BY <2>4, <2>5, Becoming
<1>4. CASE call_move
  <2>1. PICK f \in 1..MaxLen, e \in 1..MaxLen, t \in 1..MaxLen :
           LET r == lua_move(tbl, tbl, TRUE, f, e, t) IN r.err = "none" /\ Becomes(r.t)
    BY <1>4 DEF call_move
  <2> DEFINE r == lua_move(tbl, tbl, TRUE, f, e, t)
  <2>2. f \in IntKeys /\ e \in IntKeys /\ t \in IntKeys /\ TRUE \in BOOLEAN
    BY <1>1, Width DEF IntKeys
  <2>3. IF e >= f /\ (e - f + 1 > MaxInt \/ t + e - f > MaxInt) THEN r.err # "none"
        ELSE r.t \in State(Content) /\ raw_len(r.t) >= n
    BY <1>1, <2>2, MoveCopies
  <2> HIDE DEF r
  <2>4. r.err = "none" /\ Becomes(r.t) /\ ProgramRuns
    BY <1>4, <2>1 DEF r, call_move, ProgramRuns
  <2>5. r.t \in State(Content) /\ raw_len(r.t) \in Nat /\ n <= raw_len(r.t)
    BY <1>1, <2>3, <2>4, Lengths
  <2> QED
    BY <2>4, <2>5, Becoming
<1>5. CASE call_rawset
  <2>1. PICK k \in 1..MaxLen, v \in Vals \cup {Nil} : Becomes(raw_set(tbl, k, v)) /\ ProgramRuns
    BY <1>5 DEF call_rawset
  <2>2. k \in Int /\ MinInt <= k /\ v \in Content
    BY <1>1 DEF Content
  <2>3. raw_set(tbl, k, v) \in State(Content) /\ raw_len(raw_set(tbl, k, v)) = IF k > n THEN k ELSE n
    BY <1>1, <2>2, RawSet
  <2>4. n <= raw_len(raw_set(tbl, k, v))
    BY <1>1, <2>2, <2>3
  <2> QED
    BY <2>1, <2>3, <2>4, Becoming
<1>6. CASE call_pack
  <2>1. PICK m \in 1..MaxLen : \E vs \in [1..m -> Vals \cup {Nil}] :
           tbl = Empty /\ sort.st = "none" /\ Becomes(lua_pack(vs))
    BY <1>6 DEF call_pack
  <2>2. PICK vs \in [1..m -> Content] : tbl = Empty /\ sort.st = "none" /\ Becomes(lua_pack(vs))
    BY <2>1 DEF Content
  <2>3. vs \in Seq(Content) /\ Len(vs) = m /\ m \in Nat
    BY FunctionSeq
  <2>4. lua_pack(vs) \in State(Content) /\ raw_len(lua_pack(vs)) = m
    BY <1>1, <2>3, Packs
  <2>5. n <= raw_len(lua_pack(vs)) /\ ProgramRuns
    <3>1. n = 0
      BY <2>2 DEF Empty, raw_len
    <3> QED
      BY <2>2, <2>3, <2>4, <3>1 DEF ProgramRuns
  <2> QED
    BY <2>2, <2>4, <2>5, Becoming
<1> QED
  BY <1>2, <1>3, <1>4, <1>5, <1>6

\* Every step keeps the invariant.
LEMMA Step ==
    ASSUME IInv, [Next]_vars
    PROVE  IInv'
<1>1. CASE call_insert \/ call_remove \/ call_move \/ call_rawset \/ call_pack
  BY <1>1, ProgramSteps
<1>2. CASE lua_sort
  BY <1>2, LuaSort
<1>3. CASE sort_less_calls
  BY <1>3, LessCalls
<1>4. CASE sort_answers
  BY <1>4, OrderEnds, OrderLow, OrderHigh, AdvanceI, RetreatJ DEF sort_answers
<1>5. CASE sort_raises
  BY <1>5, Raises
<1>6. CASE sort_returns
  BY <1>6, Returns
<1>7. CASE UNCHANGED vars
  BY <1>7 DEF vars, IInv, TableInv, RangesInv, CallInv, OrderInv, SortRuns, Operands, raw_get
<1> QED
  BY <1>1, <1>2, <1>3, <1>4, <1>5, <1>6, <1>7 DEF Next, SortStep

\* The inductive invariant: the ranges, cursors and calls of sort_run, and the table under it.
THEOREM TableInvariance == Spec => []IInv
<1>1. Init => IInv
  <2> SUFFICES ASSUME Init PROVE IInv
    OBVIOUS
  <2>1. Empty \in TableState /\ raw_len(Empty) = 0
    BY DEF Empty, TableState, raw_len
  <2>2. tbl = Empty /\ sort = NoSort /\ 0 <= MaxLen
    BY BoundsAssumption DEF Init
  <2> QED
    BY <2>1, <2>2 DEF IInv, TableInv, RangesInv, CallInv, OrderInv
<1>2. IInv /\ [Next]_vars => IInv'
  BY Step
<1> QED
  BY <1>1, <1>2, PTL DEF Spec

\* sort_run compares and swaps within the range it works on, the ranges it has
\* put off are disjoint from it and from one another, and no index is below
\* zero, for every comparator and whatever that does to the table.
THEOREM SortStaysInBounds == Spec => []SortInBounds
<1>1. ASSUME IInv PROVE SortInBounds
  <2>1. TypeOK
    BY <1>1 DEF IInv, TableInv, TableState, RangesInv, TypeOK
  <2>2. ASSUME SortRuns
        PROVE  /\ 1 <= sort.lo /\ sort.lo < sort.up /\ sort.up <= sort.n
               /\ Range(Compared(sort)) \subseteq sort.lo..sort.up
    <3>1. 1 <= sort.lo /\ sort.lo < sort.up /\ sort.up <= sort.n
      BY <1>1, <2>2, Sorting
    <3> DEFINE a == Compared(sort)[1]
               b == Compared(sort)[2]
    <3>2. Compared(sort) = <<a, b>> /\ a \in sort.lo..sort.up /\ b \in sort.lo..sort.up
      BY <1>1, <2>2, Indices
    <3> HIDE DEF a, b
    <3>3. Range(<<a, b>>) = {a, b}
      BY DEF Range
    <3> QED
      BY <3>1, <3>2, <3>3
  <2>3. ASSUME SortRuns
        PROVE  LET part == Append(sort.work, <<sort.lo, sort.up>>)
               IN  \A x, y \in DOMAIN part :
                     /\ part[x][1]..part[x][2] \subseteq 1..sort.n
                     /\ x # y => (part[x][1]..part[x][2]) \cap (part[y][1]..part[y][2]) = {}
    <3> DEFINE part == Append(sort.work, <<sort.lo, sort.up>>)
    <3>1. /\ Partitioned(part, sort.n) /\ sort.n \in Nat
          /\ sort.work \in Seq(Ranges) /\ sort.lo \in Nat /\ sort.up \in Nat
      BY <1>1, <2>3, Sorting
    <3>2. <<sort.lo, sort.up>> \in Nat \X Nat /\ sort.work \in Seq(Nat \X Nat)
      <4>1. \A r \in Ranges : r \in Nat \X Nat
        BY BoundsAssumption DEF Ranges
      <4>2. Len(sort.work) \in Nat /\ sort.work \in [1..Len(sort.work) -> Ranges]
        BY <3>1, LenProperties
      <4>3. sort.work \in [1..Len(sort.work) -> Nat \X Nat]
        BY <4>1, <4>2
      <4> QED
        BY <3>1, <4>2, <4>3, FunctionSeq
    <3>3. part \in Seq(Nat \X Nat)
      BY <3>2, AppendProperties
    <3> HIDE DEF part
    <3>4. \A x \in DOMAIN part : part[x][1] \in Nat /\ part[x][2] \in Nat
      <4>1. \A x \in DOMAIN part : part[x] \in Nat \X Nat
        BY <3>3, LenProperties, ElementOfSeq
      <4> QED
        BY <4>1
    <3>5. \A x, y \in DOMAIN part :
             /\ part[x][1]..part[x][2] \subseteq 1..sort.n
             /\ x # y => (part[x][1]..part[x][2]) \cap (part[y][1]..part[y][2]) = {}
      BY <3>1, <3>4 DEF Partitioned, Part
    <3> QED
      BY <3>5 DEF part
  <2> QED
    BY <2>1, <2>2, <2>3 DEF SortInBounds
<1> QED
  BY <1>1, TableInvariance, PTL

\* Whatever the comparator answers sort loses and duplicates no element, and
\* with a consistent order it sorts and never calls the order invalid.
THEOREM SortIsCorrect == Spec => []SortSorts
<1>1. ASSUME IInv PROVE SortSorts
  <2> SUFFICES ASSUME sort.st # "none", sort.alone
               PROVE  /\ Count(tbl.array) = sort.orig
                      /\ sort.comp # "any" =>
                            /\ sort.st # "invalid"
                            /\ sort.st = "done" => \A i \in 1..(sort.n - 1) : tbl.array[i] <= tbl.array[i + 1]
    BY DEF SortSorts
  <2>1. sort # NoSort
    BY DEF NoSort
  <2>2. sort \in Sorts /\ Count(tbl.array) = sort.orig
    BY <1>1, <2>1 DEF IInv, RangesInv
  <2>3. ASSUME sort.comp # "any" PROVE sort.st # "invalid"
    BY <1>1, <2>1, <2>3 DEF IInv, OrderInv
  <2>4. ASSUME sort.comp # "any", sort.st = "done", NEW i \in 1..(sort.n - 1)
        PROVE  tbl.array[i] <= tbl.array[i + 1]
    <3>1. sort.work = <<>> /\ Parts(sort) = <<>> /\ DOMAIN <<>> = {}
      BY <1>1, <2>1, <2>4 DEF IInv, RangesInv, Parts
    <3>2. Separated(tbl.array, sort.n, <<>>)
      BY <1>1, <2>1, <2>4, <3>1 DEF IInv, OrderInv
    <3>3. sort.n \in Nat
      BY <2>2, BoundsAssumption DEF Sorts
    <3>4. i \in 1..sort.n /\ i + 1 \in 1..sort.n /\ i < i + 1
      BY <3>3
    <3> QED
      BY <3>1, <3>2, <3>4 DEF Separated
  <2> QED
    BY <2>2, <2>3, <2>4
<1> QED
  BY <1>1, TableInvariance, PTL
-----------------------------------------------------------------------------
(* What the functions promise                                              *)

\* A labelled table is a table.
LEMMA LabelledState ==
    ASSUME NEW n \in Nat
    PROVE  /\ Labelled(n) \in State(Int) /\ Labelled(n).array \in Seq(Int)
           /\ Nil \in Int /\ Nil + 1 \in Int
<1> DEFINE a == [i \in 1..n |-> i]
           m == [k \in MinInt..0 |-> k]
<1>1. a \in [1..n -> Int] /\ m \in [MinInt..0 -> Int]
  BY Width
<1>2. Labelled(n) = [array |-> a, misc |-> m]
  BY DEF Labelled
<1> HIDE DEF a, m
<1>3. a \in Seq(Int)
  BY <1>1, FunctionSeq
<1> QED
  BY <1>1, <1>2, <1>3, Width DEF State

\* insert leaves at every key what the manual says.
LEMMA InsertIsRight ==
    ASSUME NEW V, Nil \in V, NEW t \in State(V), NEW pos \in Int, NEW v \in V
    PROVE  InsertAgrees(t, pos, v)
<1>1. \A k \in MinInt..MaxInt : k \in Int /\ MinInt <= k
  BY Width
<1> QED
  BY <1>1, InsertShifts DEF InsertAgrees, Leaves

\* So does remove.
LEMMA RemoveIsRight ==
    ASSUME NEW V, Nil \in V, NEW t \in State(V), NEW pos \in Int
    PROVE  RemoveAgrees(t, pos)
<1>1. \A k \in MinInt..MaxInt : k \in Int /\ MinInt <= k
  BY Width
<1> DEFINE n == raw_len(t)
           r == lua_remove(t, pos)
<1>2. pos \notin {n} \cup 1..(n + 1) => r.err # "none"
  BY RemoveShifts
<1>3. pos \in {n} \cup 1..(n + 1) => Removed(V, t, pos, r)
  BY RemoveShifts
<1> HIDE DEF r
<1>4. ASSUME pos \in {n} \cup 1..(n + 1)
      PROVE  /\ r.err = "none" /\ r.v = <<raw_get(t, pos)>>
             /\ \A k \in MinInt..MaxInt :
                   raw_get(r.t, k) = IF k = Max({pos, n}) THEN Nil
                                     ELSE raw_get(t, IF k \in pos..(n - 1) THEN k + 1 ELSE k)
  BY <1>1, <1>3, <1>4 DEF Removed
<1> QED
  BY <1>2, <1>4 DEF RemoveAgrees, Leaves, r

\* So does move.
LEMMA MoveIsRight ==
    ASSUME NEW V, Nil \in V, NEW a1 \in State(V), NEW a2 \in State(V), NEW same \in BOOLEAN,
           same => a1 = a2, NEW f \in IntKeys, NEW e \in IntKeys, NEW t \in IntKeys
    PROVE  MoveAgrees(a1, a2, same, f, e, t)
<1>1. \A k \in MinInt..MaxInt : k \in Int /\ MinInt <= k
  BY Width
<1> QED
  BY <1>1, MoveCopies DEF MoveAgrees, Leaves

\* unpack undoes pack.
LEMMA UnpackPacked ==
    ASSUME NEW V, Nil \in V, NEW vs \in Seq(V)
    PROVE  lua_unpack(lua_pack(vs), 1, raw_len(lua_pack(vs))) = vs
<1> DEFINE n == Len(vs)
           p == lua_pack(vs)
<1>1. n \in Nat /\ vs = [k \in 1..n |-> vs[k]]
  BY LenProperties
<1>2. raw_len(p) = n /\ \A k \in 1..n : raw_get(p, k) = vs[k]
  BY Packs
<1>3. lua_unpack(p, 1, raw_len(p)) = [k \in 1..(n - 1 + 1) |-> raw_get(p, 1 + k - 1)]
  BY <1>2, Zenon DEF lua_unpack
<1> HIDE DEF n, p
<1>4. n - 1 + 1 = n /\ \A k \in 1..n : 1 + k - 1 = k
  BY <1>1
<1>5. [k \in 1..(n - 1 + 1) |-> raw_get(p, 1 + k - 1)] = [k \in 1..n |-> vs[k]]
  BY <1>2, <1>4
<1> QED
  BY <1>1, <1>3, <1>5 DEF p

\* insert, remove and move leave at every key what the manual says, pack and
\* unpack are inverse, and the calls refused are those that cannot be done, for
\* integers of every width and tables of every length.
THEOREM LibraryIsCorrect == Spec => []LibraryAgrees
<1>1. AgreesOnInputs
  <2> SUFFICES ASSUME NEW t \in Tables
               PROVE  /\ \A pos \in MinInt..MaxInt : InsertAgrees(t, pos, Nil + 1) /\ RemoveAgrees(t, pos)
                      /\ \A f, e, to \in MinInt..MaxInt :
                            MoveAgrees(t, t, TRUE, f, e, to) /\ MoveAgrees(t, Empty, FALSE, f, e, to)
                      /\ \A vs \in {t.array, t.array \o <<Nil>>} :
                            lua_unpack(lua_pack(vs), 1, raw_len(lua_pack(vs))) = vs
    BY DEF AgreesOnInputs
  <2>1. PICK n \in 0..(MaxInt - 1) : t = Labelled(n)
    BY DEF Tables
  <2>2. n \in Nat
    BY Width
  <2>3. t \in State(Int) /\ t.array \in Seq(Int) /\ Nil \in Int /\ Nil + 1 \in Int
    BY <2>1, <2>2, LabelledState
  <2>4. \A pos \in MinInt..MaxInt : InsertAgrees(t, pos, Nil + 1) /\ RemoveAgrees(t, pos)
    <3>1. \A pos \in MinInt..MaxInt : pos \in Int
      BY Width
    <3> QED
      BY <2>3, <3>1, InsertIsRight, RemoveIsRight
  <2>5. \A f, e, to \in MinInt..MaxInt :
           MoveAgrees(t, t, TRUE, f, e, to) /\ MoveAgrees(t, Empty, FALSE, f, e, to)
    <3>1. Empty \in State(Int)
      BY <2>3 DEF Empty, State
    <3>2. TRUE \in BOOLEAN /\ FALSE \in BOOLEAN
      OBVIOUS
    <3> QED
      BY <2>3, <3>1, <3>2, MoveIsRight DEF IntKeys
  <2>6. \A vs \in {t.array, t.array \o <<Nil>>} :
           lua_unpack(lua_pack(vs), 1, raw_len(lua_pack(vs))) = vs
    <3>1. <<Nil>> \in Seq(Int) /\ t.array \o <<Nil>> \in Seq(Int)
      BY <2>3, ConcatProperties
    <3> QED
      BY <2>3, <3>1, UnpackPacked
  <2> QED
    BY <2>4, <2>5, <2>6
<1>2. LibraryAgrees
  BY <1>1 DEF LibraryAgrees
<1> QED
  BY <1>2, PTL
=============================================================================
