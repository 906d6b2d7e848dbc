------------------------- MODULE DynamicRootsProof -------------------------
(***************************************************************************)
(* Proofs for DynamicRoots: handles hold their values, slots count their   *)
(* handles, free lists meet every vacant slot and the program never        *)
(* fetches a freed value, for any number of sets, values and handles.      *)
(***************************************************************************)
EXTENDS DynamicRoots, Induction, SequenceTheorems

\* The free list is a stack: q[1] was vacated first of the m vacant slots and
\* is the end of the list, q[m] was vacated last and is its head.
Stacked(sl, m, q) ==
    /\ m \in Nat /\ q \in [1..m -> DOMAIN sl.slots]
    /\ \A j, k \in 1..m : q[j] = q[k] => j = k
    /\ \A j \in 1..m :
          /\ IsVacant(sl, q[j])
          /\ sl.slots[q[j]].next_free = IF j = 1 THEN NULL_INDEX ELSE q[j - 1]
    /\ sl.next_free = IF m = 0 THEN NULL_INDEX ELSE q[m]
    /\ \A i : IsVacant(sl, i) => \E j \in 1..m : q[j] = i

\* The vacant slots are linked in some order.
Linked(sl) == \E m, q : Stacked(sl, m, q)

\* Two slot vectors agree on which slots are taken, and by what, except at i.
SameBut(sl, tl, i) ==
    /\ tl.live = sl.live
    /\ \A j \in Nat \ {i} : IsOccupied(tl, j) <=> IsOccupied(sl, j)
    /\ \A j \in Nat \ {i} : IsOccupied(sl, j) => tl.slots[j] = sl.slots[j]

\* Slot i holds x and the free list starts at n.
Put(sl, i, x, n) == [sl EXCEPT !.slots = [sl.slots EXCEPT ![i] = x], !.next_free = n]

\* What the record constructors build.
LEMMA SlotKinds ==
    /\ \A n \in Nat : Vacant(n) \in Slot /\ Vacant(n).kind = "Vacant" /\ Vacant(n).next_free = n
    /\ \A v \in Values, n \in Nat :
          /\ Occupied(v, n) \in Slot /\ Occupied(v, n).kind = "Occupied"
          /\ Occupied(v, n).root = v /\ Occupied(v, n).ref_count = n
    /\ \A x \in Slot : x.kind = "Occupied" => x.root \in Values /\ x.ref_count \in Nat
    /\ \A x \in Slot : x.kind # "Occupied" <=> x.kind = "Vacant"
    /\ \A x \in Slot : x.kind = "Vacant" => x.next_free \in Nat
BY DEF Slot, Vacant, Occupied

\* Replacing slot i of a vector changes that slot only.
LEMMA Replace ==
    ASSUME NEW sl \in Slots, NEW i \in DOMAIN sl.slots, NEW x \in Slot, NEW n \in Nat
    PROVE  LET tl == Put(sl, i, x, n) IN
           /\ tl \in Slots /\ tl.live = sl.live /\ tl.next_free = n
           /\ DOMAIN tl.slots = DOMAIN sl.slots /\ DOMAIN tl.slots \subseteq Nat \ {0}
           /\ \A j \in DOMAIN sl.slots : tl.slots[j] = IF j = i THEN x ELSE sl.slots[j]
           /\ \A j \in DOMAIN sl.slots : tl.slots[j] \in Slot
<1> DEFINE tl == Put(sl, i, x, n)
<1>1. sl.slots \in Seq(Slot) /\ DOMAIN sl.slots = 1..Len(sl.slots) /\ Len(sl.slots) \in Nat
  BY LenProperties DEF Slots
<1>2. tl.slots = [sl.slots EXCEPT ![i] = x] /\ tl.live = sl.live /\ tl.next_free = n
  BY DEF Slots, Put
<1>3. tl.slots \in Seq(Slot) /\ Len(tl.slots) = Len(sl.slots)
      /\ \A j \in 1..Len(sl.slots) : tl.slots[j] = IF j = i THEN x ELSE sl.slots[j]
  BY <1>1, <1>2, ExceptSeq
<1>4. tl \in Slots
  BY <1>2, <1>3 DEF Slots, Put
<1> HIDE DEF tl
<1>5. DOMAIN tl.slots = 1..Len(sl.slots) /\ \A j \in 1..Len(sl.slots) : tl.slots[j] \in Slot
  BY <1>3, LenProperties, ElementOfSeq
<1> QED
  BY <1>1, <1>2, <1>3, <1>4, <1>5 DEF tl

\* What a well-typed slot vector consists of.
LEMMA SlotTypes ==
    ASSUME NEW sl \in Slots
    PROVE  /\ DOMAIN sl.slots = 1..Len(sl.slots) /\ Len(sl.slots) \in Nat /\ sl.next_free \in Nat
           /\ \A j \in DOMAIN sl.slots : sl.slots[j] \in Slot
           /\ \A j : IsVacant(sl, j) => sl.slots[j].next_free \in Nat
           /\ \A j : IsOccupied(sl, j) => sl.slots[j].root \in Values /\ sl.slots[j].ref_count \in Nat
<1>1. sl.slots \in Seq(Slot) /\ sl.next_free \in Nat
  BY DEF Slots
<1>2. DOMAIN sl.slots = 1..Len(sl.slots) /\ Len(sl.slots) \in Nat
      /\ \A j \in DOMAIN sl.slots : sl.slots[j] \in Slot
  BY <1>1, LenProperties, ElementOfSeq
<1> QED
  BY <1>1, <1>2, SlotKinds DEF IsVacant, IsOccupied

\* Whatever keeps the vacant slots and the head keeps the free list.
LEMMA SameList ==
    ASSUME NEW sl, NEW tl, Linked(sl), tl.next_free = sl.next_free,
           DOMAIN sl.slots \subseteq DOMAIN tl.slots,
           \A j : IsVacant(tl, j) <=> IsVacant(sl, j),
           \A j : IsVacant(sl, j) => tl.slots[j] = sl.slots[j]
    PROVE  Linked(tl)
<1>1. PICK m, q : Stacked(sl, m, q)
  BY DEF Linked
<1>2. q \in [1..m -> DOMAIN tl.slots]
  BY <1>1 DEF Stacked
<1>3. Stacked(tl, m, q)
  BY <1>1, <1>2 DEF Stacked
<1> QED
  BY <1>3 DEF Linked

\* Writing a taken slot leaves the free list alone.
LEMMA PutOccupied ==
    ASSUME NEW sl \in Slots, Linked(sl), NEW i \in Nat, IsOccupied(sl, i),
           NEW v \in Values, NEW n \in Nat
    PROVE  LET tl == Put(sl, i, Occupied(v, n), sl.next_free) IN
           /\ tl \in Slots /\ Linked(tl) /\ SameBut(sl, tl, i)
           /\ IsOccupied(tl, i) /\ tl.slots[i] = Occupied(v, n)
<1> DEFINE x == Occupied(v, n)
           tl == Put(sl, i, x, sl.next_free)
<1>1. i \in DOMAIN sl.slots /\ sl.slots[i].kind = "Occupied" /\ sl.next_free \in Nat
  BY SlotTypes DEF IsOccupied
<1>2. x \in Slot /\ x.kind = "Occupied"
  BY SlotKinds
<1>3. /\ tl \in Slots /\ tl.live = sl.live /\ tl.next_free = sl.next_free
      /\ DOMAIN tl.slots = DOMAIN sl.slots
      /\ \A j \in DOMAIN sl.slots : tl.slots[j] = IF j = i THEN x ELSE sl.slots[j]
  BY <1>1, <1>2, Replace
<1> HIDE DEF x, tl
<1>4. \A j : IsVacant(tl, j) <=> IsVacant(sl, j)
  BY <1>1, <1>2, <1>3 DEF IsVacant
<1>5. \A j : IsVacant(sl, j) => tl.slots[j] = sl.slots[j]
  BY <1>1, <1>3 DEF IsVacant
<1>6. Linked(tl)
  BY <1>3, <1>4, <1>5, SameList
<1>7. SameBut(sl, tl, i)
  BY <1>3 DEF SameBut, IsOccupied
<1>8. IsOccupied(tl, i) /\ tl.slots[i] = x
  BY <1>1, <1>2, <1>3 DEF IsOccupied
<1> QED
  BY <1>3, <1>6, <1>7, <1>8 DEF x, tl

\* Counting one handle more changes the count of a taken slot and no more.
LEMMA IncSlot ==
    ASSUME NEW sl \in Slots, Linked(sl), NEW i \in Nat, IsOccupied(sl, i)
    PROVE  /\ inc(sl, i) \in Slots /\ Linked(inc(sl, i)) /\ SameBut(sl, inc(sl, i), i)
           /\ IsOccupied(inc(sl, i), i)
           /\ inc(sl, i).slots[i] = Occupied(sl.slots[i].root, sl.slots[i].ref_count + 1)
<1>1. i \in DOMAIN sl.slots /\ sl.slots[i] \in Slot /\ sl.slots[i].kind = "Occupied"
      /\ sl.slots[i].root \in Values /\ sl.slots[i].ref_count \in Nat
  BY SlotTypes DEF IsOccupied
<1>2. [sl.slots[i] EXCEPT !.ref_count = @ + 1]
          = Occupied(sl.slots[i].root, sl.slots[i].ref_count + 1)
  BY <1>1 DEF Slot, Occupied
<1>3. inc(sl, i) = Put(sl, i, Occupied(sl.slots[i].root, sl.slots[i].ref_count + 1), sl.next_free)
  BY <1>1, <1>2 DEF inc, Slots, Put
<1>4. sl.slots[i].ref_count + 1 \in Nat
  BY <1>1
<1> QED
  BY <1>1, <1>3, <1>4, PutOccupied

\* Counting one handle less likewise, while there are others.
LEMMA DecSlot ==
    ASSUME NEW sl \in Slots, Linked(sl), NEW i \in Nat, IsOccupied(sl, i),
           sl.slots[i].ref_count # 0
    PROVE  /\ dec(sl, i) \in Slots /\ Linked(dec(sl, i)) /\ SameBut(sl, dec(sl, i), i)
           /\ IsOccupied(dec(sl, i), i)
           /\ dec(sl, i).slots[i] = Occupied(sl.slots[i].root, sl.slots[i].ref_count - 1)
<1>1. i \in DOMAIN sl.slots /\ sl.slots[i] \in Slot /\ sl.slots[i].kind = "Occupied"
      /\ sl.slots[i].root \in Values /\ sl.slots[i].ref_count \in Nat
  BY SlotTypes DEF IsOccupied
<1>2. [sl.slots[i] EXCEPT !.ref_count = @ - 1]
          = Occupied(sl.slots[i].root, sl.slots[i].ref_count - 1)
  BY <1>1 DEF Slot, Occupied
<1>3. dec(sl, i) = Put(sl, i, Occupied(sl.slots[i].root, sl.slots[i].ref_count - 1), sl.next_free)
  BY <1>1, <1>2 DEF dec, Slots, Put
<1>4. sl.slots[i].ref_count - 1 \in Nat
  BY <1>1
<1> QED
  BY <1>1, <1>3, <1>4, PutOccupied

\* Dropping the last handle vacates the slot and puts it in front of the free
\* list.
LEMMA VacateSlot ==
    ASSUME NEW sl \in Slots, Linked(sl), NEW i \in Nat, IsOccupied(sl, i),
           sl.slots[i].ref_count = 0
    PROVE  /\ dec(sl, i) \in Slots /\ Linked(dec(sl, i)) /\ SameBut(sl, dec(sl, i), i)
           /\ ~IsOccupied(dec(sl, i), i)
<1> DEFINE x == Vacant(sl.next_free)
           tl == Put(sl, i, x, i)
<1>1. i \in DOMAIN sl.slots /\ sl.slots[i].kind = "Occupied" /\ sl.next_free \in Nat
      /\ i # NULL_INDEX /\ ~IsVacant(sl, i)
  BY SlotTypes DEF IsOccupied, IsVacant, NULL_INDEX
<1>2. x \in Slot /\ x.kind = "Vacant" /\ x.next_free = sl.next_free
  BY <1>1, SlotKinds
<1>3. dec(sl, i) = tl
  BY <1>1 DEF dec, Slots, Put
<1>4. /\ tl \in Slots /\ tl.live = sl.live /\ tl.next_free = i
      /\ DOMAIN tl.slots = DOMAIN sl.slots
      /\ \A j \in DOMAIN sl.slots : tl.slots[j] = IF j = i THEN x ELSE sl.slots[j]
  BY <1>1, <1>2, Replace
<1> HIDE DEF x, tl
<1>5. \A j : IsVacant(tl, j) <=> (IsVacant(sl, j) \/ j = i)
  BY <1>1, <1>2, <1>4 DEF IsVacant
<1>6. \A j \in DOMAIN sl.slots : IsVacant(sl, j) => tl.slots[j] = sl.slots[j]
  BY <1>1, <1>4
<1>7. tl.slots[i].next_free = sl.next_free
  BY <1>1, <1>2, <1>4
<1>8. Linked(tl)
  <2>1. PICK m, q : Stacked(sl, m, q)
    BY DEF Linked
  <2> DEFINE p == [j \in 1..(m + 1) |-> IF j = m + 1 THEN i ELSE q[j]]
  <2>2. m \in Nat /\ p \in [1..(m + 1) -> DOMAIN tl.slots]
    BY <1>1, <1>4, <2>1 DEF Stacked
  <2>3. p[m + 1] = i /\ \A j \in 1..m : j \in 1..(m + 1) /\ j # m + 1 /\ p[j] = q[j]
    BY <2>2
  <2> HIDE DEF p
  <2>4. \A j \in 1..m : IsVacant(sl, q[j]) /\ q[j] # i
    BY <1>1, <2>1 DEF Stacked
  <2>5. \A j \in 1..(m + 1) : j = m + 1 \/ j \in 1..m
    BY <2>2
  <2>6. ASSUME NEW j \in 1..(m + 1), NEW k \in 1..(m + 1), p[j] = p[k] PROVE j = k
    <3>1. \A a, b \in 1..m : q[a] = q[b] => a = b
      BY <2>1 DEF Stacked
    <3>2. (j \in 1..m \/ p[j] = i) /\ (k \in 1..m \/ p[k] = i)
      BY <2>3, <2>5
    <3>3. j \in 1..m <=> k \in 1..m
      BY <2>3, <2>4, <2>6, <3>2
    <3> QED BY <2>3, <2>5, <2>6, <3>1, <3>3
  <2>7. ASSUME NEW j \in 1..(m + 1)
        PROVE  /\ IsVacant(tl, p[j])
               /\ tl.slots[p[j]].next_free = IF j = 1 THEN NULL_INDEX ELSE p[j - 1]
    <3>1. CASE j = m + 1
      <4>1. m # 0 => m \in 1..m /\ p[m] = q[m] /\ j - 1 = m
        BY <2>2, <2>3, <3>1
      <4>2. sl.next_free = IF j = 1 THEN NULL_INDEX ELSE p[j - 1]
        BY <2>1, <2>2, <3>1, <4>1 DEF Stacked
      <4> QED
        BY <1>5, <1>7, <2>3, <3>1, <4>2
    <3>2. CASE j \in 1..m
      <4>1. p[j] = q[j] /\ (j # 1 => j - 1 \in 1..m /\ p[j - 1] = q[j - 1])
        BY <2>2, <2>3, <3>2
      <4>2. IsVacant(sl, q[j]) /\ q[j] \in DOMAIN sl.slots /\ tl.slots[q[j]] = sl.slots[q[j]]
        BY <1>6, <2>1, <2>4, <3>2 DEF Stacked
      <4>3. sl.slots[q[j]].next_free = IF j = 1 THEN NULL_INDEX ELSE q[j - 1]
        BY <2>1, <3>2 DEF Stacked
      <4> QED
        BY <1>5, <4>1, <4>2, <4>3
    <3> QED BY <2>5, <3>1, <3>2
  <2>8. tl.next_free = IF m + 1 = 0 THEN NULL_INDEX ELSE p[m + 1]
    BY <1>4, <2>2, <2>3
  <2>9. ASSUME NEW k, IsVacant(tl, k) PROVE \E j \in 1..(m + 1) : p[j] = k
    <3>1. CASE k = i
      BY <2>2, <2>3, <3>1
    <3>2. CASE k # i
      <4>1. PICK j \in 1..m : q[j] = k
        BY <1>5, <2>1, <2>9, <3>2 DEF Stacked
      <4> QED BY <2>3, <4>1
    <3> QED BY <3>1, <3>2
  <2>10. Stacked(tl, m + 1, p)
    BY <2>2, <2>6, <2>7, <2>8, <2>9 DEF Stacked
  <2> QED
    BY <2>10 DEF Linked
<1>9. SameBut(sl, tl, i)
  BY <1>4 DEF SameBut, IsOccupied
<1>10. ~IsOccupied(tl, i)
  BY <1>1, <1>2, <1>4 DEF IsOccupied
<1> QED
  BY <1>3, <1>4, <1>8, <1>9, <1>10

\* A new root takes a slot that nobody has.
LEMMA AddSlot ==
    ASSUME NEW sl \in Slots, Linked(sl), NEW v \in Values
    PROVE  LET i == AddIndex(sl) tl == add(sl, v) IN
           /\ i \in Nat \ {0} /\ ~IsOccupied(sl, i)
           /\ tl \in Slots /\ Linked(tl) /\ SameBut(sl, tl, i)
           /\ IsOccupied(tl, i) /\ tl.slots[i] = Occupied(v, 0)
<1> DEFINE i == AddIndex(sl)
           tl == add(sl, v)
           x == Occupied(v, 0)
<1>0. x \in Slot /\ x.kind = "Occupied"
  BY SlotKinds
<1>1. CASE sl.next_free # NULL_INDEX
  <2> DEFINE n == sl.slots[i].next_free
  <2>0. PICK m, q : Stacked(sl, m, q)
    BY DEF Linked
  <2>00. m \in Nat /\ m # 0 /\ m \in 1..m /\ m - 1 \in Nat /\ sl.next_free = q[m] /\ IsVacant(sl, q[m])
    BY <1>1, <2>0 DEF Stacked
  <2>1. i = sl.next_free /\ IsVacant(sl, i) /\ i \in DOMAIN sl.slots /\ i \in Nat \ {0}
        /\ sl.slots[i].kind = "Vacant" /\ ~IsOccupied(sl, i)
    BY <1>1, <2>00, SlotTypes DEF AddIndex, IsVacant, IsOccupied
  <2>2. n \in Nat
    BY <2>1, SlotTypes
  <2>3. tl = Put(sl, i, x, n)
    BY <1>1, <2>1 DEF add, Put, Slots
  <2>4. /\ tl \in Slots /\ tl.live = sl.live /\ tl.next_free = n
        /\ DOMAIN tl.slots = DOMAIN sl.slots
        /\ \A j \in DOMAIN sl.slots : tl.slots[j] = IF j = i THEN x ELSE sl.slots[j]
    BY <1>0, <2>1, <2>2, <2>3, Replace
  <2> HIDE DEF x, tl, i
  <2>5. \A j : IsVacant(tl, j) <=> (IsVacant(sl, j) /\ j # i)
    BY <1>0, <2>1, <2>4 DEF IsVacant
  <2>6. \A j \in DOMAIN sl.slots : j # i => tl.slots[j] = sl.slots[j]
    BY <2>4
  <2>7. /\ q \in [1..m -> DOMAIN sl.slots] /\ i = q[m]
        /\ \A j, k \in 1..m : q[j] = q[k] => j = k
        /\ \A j \in 1..m : /\ IsVacant(sl, q[j])
                          /\ sl.slots[q[j]].next_free = IF j = 1 THEN NULL_INDEX ELSE q[j - 1]
        /\ \A k : IsVacant(sl, k) => \E j \in 1..m : q[j] = k
    BY <2>0, <2>00, <2>1 DEF Stacked
  <2>8. Linked(tl)
    <3> DEFINE p == [j \in 1..(m - 1) |-> q[j]]
    <3>1. \A j \in 1..(m - 1) : j \in 1..m /\ j # m /\ p[j] = q[j] /\ q[j] # i
      BY <2>00, <2>7
    <3>2. p \in [1..(m - 1) -> DOMAIN tl.slots]
      BY <2>4, <2>7, <3>1
    <3> HIDE DEF p
    <3>3. \A j, k \in 1..(m - 1) : p[j] = p[k] => j = k
      BY <2>7, <3>1
    <3>4. ASSUME NEW j \in 1..(m - 1)
          PROVE  /\ IsVacant(tl, p[j])
                 /\ tl.slots[p[j]].next_free = IF j = 1 THEN NULL_INDEX ELSE p[j - 1]
      <4>1. j # 1 => j - 1 \in 1..(m - 1)
        BY <2>00
      <4>2. q[j] \in DOMAIN sl.slots /\ tl.slots[q[j]] = sl.slots[q[j]]
        BY <2>6, <2>7, <3>1
      <4> QED
        BY <2>5, <2>7, <3>1, <4>1, <4>2
    <3>5. n = IF m - 1 = 0 THEN NULL_INDEX ELSE p[m - 1]
      <4>1. n = IF m = 1 THEN NULL_INDEX ELSE q[m - 1]
        BY <2>00, <2>7
      <4>2. m # 1 => m - 1 \in 1..(m - 1)
        BY <2>00
      <4> QED BY <2>00, <3>1, <4>1, <4>2
    <3>6. ASSUME NEW k, IsVacant(tl, k) PROVE \E j \in 1..(m - 1) : p[j] = k
      <4>1. PICK j \in 1..m : q[j] = k
        BY <2>5, <2>7, <3>6
      <4>2. j \in 1..(m - 1)
        BY <2>00, <2>5, <2>7, <3>6, <4>1
      <4> QED BY <3>1, <4>1, <4>2
    <3>7. Stacked(tl, m - 1, p)
      BY <2>00, <2>4, <3>2, <3>3, <3>4, <3>5, <3>6 DEF Stacked
    <3> QED
      BY <3>7 DEF Linked
  <2>9. SameBut(sl, tl, i)
    BY <2>4 DEF SameBut, IsOccupied
  <2>10. IsOccupied(tl, i) /\ tl.slots[i] = x
    BY <1>0, <2>1, <2>4 DEF IsOccupied
  <2> QED
    BY <2>1, <2>4, <2>8, <2>9, <2>10 DEF x, tl, i
<1>2. CASE sl.next_free = NULL_INDEX
  <2>1. sl.slots \in Seq(Slot) /\ Len(sl.slots) \in Nat /\ DOMAIN sl.slots = 1..Len(sl.slots)
    BY SlotTypes DEF Slots
  <2>2. i = Len(sl.slots) + 1 /\ i \in Nat \ {0} /\ ~IsOccupied(sl, i) /\ ~IsVacant(sl, i)
    BY <1>2, <2>1 DEF AddIndex, IsOccupied, IsVacant
  <2>3. /\ tl.slots = Append(sl.slots, x) /\ tl.live = sl.live /\ tl.next_free = NULL_INDEX
        /\ tl = [sl EXCEPT !.slots = Append(sl.slots, x)]
    BY <1>2 DEF add, Slots
  <2>4. /\ tl.slots \in Seq(Slot) /\ Len(tl.slots) = Len(sl.slots) + 1
        /\ \A j \in 1..Len(sl.slots) : tl.slots[j] = sl.slots[j]
        /\ tl.slots[i] = x
    BY <1>0, <2>1, <2>2, <2>3, AppendProperties
  <2>5. tl \in Slots
    BY <2>3, <2>4 DEF Slots
  <2>6. DOMAIN tl.slots = 1..i
    BY <2>2, <2>4, LenProperties
  <2> HIDE DEF x, tl, i
  <2>7. \A j : IsVacant(tl, j) <=> IsVacant(sl, j)
    BY <1>0, <2>1, <2>2, <2>4, <2>6 DEF IsVacant
  <2>8. \A j : IsVacant(sl, j) => tl.slots[j] = sl.slots[j]
    BY <2>1, <2>4 DEF IsVacant
  <2>0. DOMAIN sl.slots \subseteq DOMAIN tl.slots /\ tl.next_free = sl.next_free
    BY <1>2, <2>1, <2>2, <2>3, <2>6
  <2>9. Linked(tl)
    BY <2>0, <2>7, <2>8, SameList
  <2>10. SameBut(sl, tl, i)
    BY <2>1, <2>2, <2>3, <2>4, <2>6 DEF SameBut, IsOccupied
  <2>11. IsOccupied(tl, i)
    BY <1>0, <2>2, <2>4, <2>6 DEF IsOccupied
  <2> QED
    BY <2>2, <2>4, <2>5, <2>9, <2>10, <2>11 DEF x, tl, i
<1> QED
  BY <1>1, <1>2
-----------------------------------------------------------------------------
(* The inductive invariant                                                 *)

\* Free lists are linked; slots that were dropped are gone; a set in reach is
\* not dropped.
SetsInv ==
    /\ \A s \in Sets : Linked(set[s])
    /\ \A s \in Sets : ~set[s].live => set[s] = NoSlots
    /\ \A s \in rooted : set[s].live

\* The slot of a handle is taken by the handle's value.
HandlesInv ==
    \A h \in Handles : upgrade(h) =>
        /\ IsOccupied(set[handle[h].slots], handle[h].index)
        /\ set[handle[h].slots].slots[handle[h].index].root = handle[h].ptr

\* What the program can reach is not freed.
AliveInv ==
    /\ linked \subseteq alive
    /\ \A s \in rooted : \A i \in Nat : IsOccupied(set[s], i) => set[s].slots[i].root \in alive

\* No traced set holds an unmarked value, and when marking is over everything
\* in reach is marked.
MarkInv ==
    /\ phase = "Sleep" => black = {}
    /\ \A s \in black \cap rooted : \A i \in Nat :
          IsOccupied(set[s], i) => set[s].slots[i].root \in marked
    /\ phase = "Sweep" => rooted \subseteq black /\ linked \subseteq marked

IInv == TypeOK /\ SetsInv /\ HandlesInv /\ CountsHandles /\ AliveInv /\ MarkInv

\* What is known of a handle.
LEMMA HandleKinds ==
    /\ Dropped \in StashedValue /\ Dropped.kind # "root"
    /\ \A v \in Immediates : Inline(v) \in StashedValue /\ Inline(v).kind # "root"
    /\ \A s \in Sets, i \in Nat \ {0}, v \in Values :
          LET r == DynamicRoot(s, i, v) IN
          /\ r \in StashedValue /\ r.kind = "root"
          /\ r.slots = s /\ r.index = i /\ r.ptr = v
    /\ \A r \in StashedValue : r.kind = "root" =>
          r.slots \in Sets /\ r.index \in Nat \ {0} /\ r.ptr \in Values
BY DEF StashedValue, Dropped, Inline, DynamicRoot

\* A set without slots.
LEMMA EmptySlots ==
    /\ NoSlots \in Slots /\ [NoSlots EXCEPT !.live = TRUE] \in Slots
    /\ Linked(NoSlots) /\ Linked([NoSlots EXCEPT !.live = TRUE])
    /\ [NoSlots EXCEPT !.live = TRUE].live
    /\ \A i : ~IsOccupied(NoSlots, i) /\ ~IsOccupied([NoSlots EXCEPT !.live = TRUE], i)
<1>1. <<>> \in Seq(Slot) /\ DOMAIN <<>> = {}
  BY EmptySeq, LenProperties
<1> DEFINE E == [NoSlots EXCEPT !.live = TRUE]
<1>2. /\ NoSlots \in Slots /\ NoSlots.slots = <<>> /\ NoSlots.next_free = NULL_INDEX
      /\ E \in Slots /\ E.live /\ E.slots = <<>> /\ E.next_free = NULL_INDEX
  BY <1>1 DEF NoSlots, Slots, NULL_INDEX
<1> HIDE DEF E
<1>3. ASSUME NEW sl, sl.slots = <<>>, sl.next_free = NULL_INDEX
      PROVE  Linked(sl) /\ \A i : ~IsOccupied(sl, i)
  <2>1. Stacked(sl, 0, <<>>)
    BY <1>1, <1>3 DEF Stacked, IsVacant
  <2> QED
    BY <1>1, <1>3, <2>1 DEF Linked, IsOccupied
<1> QED
  BY <1>2, <1>3 DEF E

\* A taken slot is in its vector, so CountsHandles speaks of it.
LEMMA CountOf ==
    ASSUME TypeOK
    PROVE  CountsHandles <=>
               \A s \in Sets, i \in Nat : IsOccupied(set[s], i) =>
                   Cardinality(HandlesOf(s, i)) = set[s].slots[i].ref_count + 1
<1>1. \A s \in Sets : DOMAIN set[s].slots \subseteq Nat
  BY SlotTypes DEF TypeOK
<1> QED
  BY <1>1 DEF CountsHandles, IsOccupied

\* Handles are finite, so sets of them can be counted.
LEMMA Countable == \A s, i : IsFiniteSet(HandlesOf(s, i)) /\ Cardinality(HandlesOf(s, i)) \in Nat
<1> SUFFICES ASSUME NEW s, NEW i
             PROVE  IsFiniteSet(HandlesOf(s, i)) /\ Cardinality(HandlesOf(s, i)) \in Nat
  OBVIOUS
<1>1. HandlesOf(s, i) \in SUBSET Handles
  BY DEF HandlesOf
<1> QED
  BY <1>1, HandlesAssumption, FS_Subset, FS_CardinalityType

\* No root set exists yet, so nothing is held or free.
LEMMA InitInv == Init => IInv
<1> SUFFICES ASSUME Init PROVE IInv
  OBVIOUS
<1>1. TypeOK
  BY EmptySlots, HandleKinds DEF Init, TypeOK
<1>2. SetsInv
  BY EmptySlots DEF Init, SetsInv
<1>3. HandlesInv
  BY HandleKinds DEF Init, HandlesInv, upgrade
<1>4. CountsHandles
  BY <1>1, EmptySlots, CountOf DEF Init
<1>5. AliveInv /\ MarkInv
  BY DEF Init, AliveInv, MarkInv
<1> QED
  BY <1>1, <1>2, <1>3, <1>4, <1>5 DEF IInv
-----------------------------------------------------------------------------
(* Steps that change slots and handles                                     *)

\* A step that leaves the slots of every other set alone, and that changes
\* only slot k of set s, keeps what is known of the other slots.
LEMMA OtherSlots ==
    ASSUME IInv, TypeOK', NEW s \in Sets, NEW tl \in Slots, NEW k \in Nat,
           set' = [set EXCEPT ![s] = tl], Linked(tl), set[s].live, SameBut(set[s], tl, k),
           rooted' = rooted
    PROVE  /\ SetsInv'
           /\ \A t \in Sets, i \in Nat : ~(t = s /\ i = k) =>
                 /\ IsOccupied(set[t], i)' <=> IsOccupied(set[t], i)
                 /\ IsOccupied(set[t], i) => set'[t].slots[i] = set[t].slots[i]
           /\ \A t \in Sets : set'[t].live = set[t].live
<1>1. set \in [Sets -> Slots]
  BY DEF IInv, TypeOK
<1>2. \A t \in Sets : set'[t] = IF t = s THEN tl ELSE set[t]
  BY <1>1
<1>3. \A t \in Sets : set'[t].live = set[t].live
  BY <1>2 DEF SameBut
<1>4. SetsInv'
  BY <1>2, <1>3 DEF IInv, TypeOK, SetsInv
<1>5. \A t \in Sets, i \in Nat : ~(t = s /\ i = k) =>
         /\ IsOccupied(set[t], i)' <=> IsOccupied(set[t], i)
         /\ IsOccupied(set[t], i) => set'[t].slots[i] = set[t].slots[i]
  BY <1>2 DEF SameBut, IsOccupied
<1> QED
  BY <1>3, <1>4, <1>5

\* stash takes a slot from the free list or a new one, and its barrier keeps what is marked
\* closed.
LEMMA StashStep ==
    ASSUME IInv, NEW s \in Sets, NEW v \in Values, NEW h \in Handles, stash(s, v, h)
    PROVE  IInv'
<1>0. PICK i : i = AddIndex(set[s])
  OBVIOUS
<1> DEFINE tl == add(set[s], v)
           r == DynamicRoot(s, i, v)
<1>1. /\ s \in rooted /\ v \in linked /\ handle[h] = Dropped
      /\ set' = [set EXCEPT ![s] = tl] /\ handle' = [handle EXCEPT ![h] = r]
      /\ UNCHANGED <<rooted, alive, linked, phase, marked>>
      /\ black' = IF phase = "Mark" /\ v \notin marked THEN black \ {s} ELSE black
  BY <1>0 DEF stash
<1>2. set[s] \in Slots /\ Linked(set[s]) /\ set[s].live
  BY <1>1 DEF IInv, TypeOK, SetsInv
<1>3. /\ i \in Nat \ {0} /\ ~IsOccupied(set[s], i)
      /\ tl \in Slots /\ Linked(tl) /\ SameBut(set[s], tl, i)
      /\ IsOccupied(tl, i) /\ tl.slots[i] = Occupied(v, 0)
  BY <1>0, <1>2, AddSlot
<1>4. /\ r \in StashedValue /\ r.kind = "root" /\ r.slots = s /\ r.index = i /\ r.ptr = v
  BY <1>3, HandleKinds
<1> HIDE DEF tl, r
<1>5. TypeOK'
  BY <1>1, <1>3, <1>4 DEF IInv, TypeOK
<1>6. /\ SetsInv'
      /\ \A t \in Sets, j \in Nat : ~(t = s /\ j = i) =>
            /\ IsOccupied(set[t], j)' <=> IsOccupied(set[t], j)
            /\ IsOccupied(set[t], j) => set'[t].slots[j] = set[t].slots[j]
      /\ \A t \in Sets : set'[t].live = set[t].live
  BY <1>1, <1>2, <1>3, <1>5, OtherSlots
<1>7. /\ IsOccupied(set[s], i)' /\ set'[s].slots[i].root = v /\ set'[s].slots[i].ref_count = 0
  BY <1>1, <1>3, SlotKinds DEF IInv, TypeOK, IsOccupied
<1>8. /\ handle \in [Handles -> StashedValue]
      /\ \A g \in Handles : handle'[g] = IF g = h THEN r ELSE handle[g]
  BY <1>1 DEF IInv, TypeOK
<1>9. \A g \in Handles : g # h /\ handle[g].kind = "root" => ~(handle[g].slots = s /\ handle[g].index = i)
  BY <1>2, <1>3 DEF IInv, HandlesInv, upgrade
<1>10. HandlesInv'
  <2> SUFFICES ASSUME NEW g \in Handles, upgrade(g)'
               PROVE  /\ IsOccupied(set[handle[g].slots], handle[g].index)'
                      /\ set'[handle'[g].slots].slots[handle'[g].index].root = handle'[g].ptr
    BY DEF HandlesInv
  <2>1. CASE g = h
    BY <1>4, <1>7, <1>8, <2>1 DEF IsOccupied
  <2>2. CASE g # h
    <3>1. handle'[g] = handle[g] /\ handle[g].kind = "root"
          /\ handle[g].slots \in Sets /\ handle[g].index \in Nat
      BY <1>8, <2>2, HandleKinds DEF upgrade
    <3>2. upgrade(g)
      BY <1>6, <3>1 DEF upgrade
    <3> QED
      BY <1>6, <1>9, <2>2, <3>1, <3>2 DEF IInv, HandlesInv, IsOccupied
  <2> QED BY <2>1, <2>2
<1>11. CountsHandles'
  <2>1. HandlesOf(s, i)' = {h}
    BY <1>4, <1>8, <1>9 DEF HandlesOf
  <2>2. Cardinality(HandlesOf(s, i)') = 1
    BY <2>1, FS_Singleton
  <2>3. \A t \in Sets, j \in Nat : ~(t = s /\ j = i) => HandlesOf(t, j)' = HandlesOf(t, j)
    BY <1>1, <1>4, <1>8, HandleKinds DEF HandlesOf
  <2>4. \A t \in Sets, j \in Nat : IsOccupied(set[t], j)' =>
            Cardinality(HandlesOf(t, j)') = set'[t].slots[j].ref_count + 1
    <3> SUFFICES ASSUME NEW t \in Sets, NEW j \in Nat, IsOccupied(set[t], j)'
                 PROVE  Cardinality(HandlesOf(t, j)') = set'[t].slots[j].ref_count + 1
      OBVIOUS
    <3>1. CASE t = s /\ j = i
      BY <1>7, <2>2, <3>1
    <3>2. CASE ~(t = s /\ j = i)
      BY <1>6, <2>3, <3>2, CountOf DEF IInv
    <3> QED BY <3>1, <3>2
  <2>5. \A t \in Sets : DOMAIN set'[t].slots \subseteq Nat
    BY <1>5, SlotTypes DEF TypeOK
  <2> QED
    BY <2>4, <2>5 DEF CountsHandles
<1>12. AliveInv'
  <2>1. \A t \in rooted, j \in Nat : IsOccupied(set[t], j)' => set'[t].slots[j].root \in alive
    BY <1>1, <1>6, <1>7 DEF IInv, AliveInv, TypeOK
  <2> QED
    BY <1>1, <2>1 DEF IInv, AliveInv
<1>13. MarkInv'
  <2>1. phase = "Sleep" => black' = {}
    BY <1>1 DEF IInv, MarkInv
  <2>2. phase = "Sweep" => rooted \subseteq black' /\ linked \subseteq marked
    BY <1>1 DEF IInv, MarkInv
  <2>3. s \in black' => v \in marked
    BY <1>1 DEF IInv, MarkInv, TypeOK
  <2>4. black' \subseteq black
    BY <1>1
  <2>5. ASSUME NEW t \in black' \cap rooted, NEW j \in Nat, IsOccupied(set[t], j)'
        PROVE  set'[t].slots[j].root \in marked
    <3>0. t \in Sets /\ t \in black \cap rooted
      BY <2>4 DEF IInv, TypeOK
    <3>1. CASE t = s /\ j = i
      BY <1>7, <2>3, <2>5, <3>1
    <3>2. CASE ~(t = s /\ j = i)
      BY <1>6, <2>5, <3>0, <3>2 DEF IInv, MarkInv
    <3> QED BY <3>1, <3>2
  <2> QED
    BY <1>1, <2>1, <2>2, <2>5 DEF MarkInv
<1> QED
  BY <1>5, <1>6, <1>10, <1>11, <1>12, <1>13 DEF IInv

\* A step that changes only the count of slot i of set s, and handles, keeps
\* what is known of the values that slots hold.
LEMMA SameRoots ==
    ASSUME IInv, UNCHANGED <<rooted, alive, linked, phase, black, marked>>,
           \A t \in Sets, j \in Nat : IsOccupied(set'[t], j) =>
               IsOccupied(set[t], j) /\ set'[t].slots[j].root = set[t].slots[j].root
    PROVE  AliveInv' /\ MarkInv'
<1>1. rooted \subseteq Sets /\ black \subseteq Sets
  BY DEF IInv, TypeOK
<1>2. AliveInv'
  BY <1>1 DEF IInv, AliveInv
<1>3. MarkInv'
  BY <1>1 DEF IInv, MarkInv
<1> QED
  BY <1>2, <1>3

\* A clone counts one more handle of its slot.
LEMMA CloneStep ==
    ASSUME IInv, NEW h \in Handles, NEW g \in Handles, clone(h, g)
    PROVE  IInv'
<1>0. PICK s, i : s = handle[h].slots /\ i = handle[h].index
  OBVIOUS
<1>1. /\ handle[h].kind = "root" /\ handle[g] = Dropped
      /\ handle' = [handle EXCEPT ![g] = handle[h]]
      /\ set' = IF set[s].live THEN [set EXCEPT ![s] = inc(set[s], i)] ELSE set
      /\ UNCHANGED <<rooted, alive, linked, phase, black, marked>>
  BY <1>0 DEF clone, upgrade
<1>2. /\ handle \in [Handles -> StashedValue] /\ s \in Sets /\ i \in Nat
      /\ set[s] \in Slots /\ Linked(set[s]) /\ g # h
      /\ \A f \in Handles : handle'[f] = IF f = g THEN handle[h] ELSE handle[f]
      /\ handle' \in [Handles -> StashedValue]
  BY <1>0, <1>1, HandleKinds DEF IInv, TypeOK, SetsInv
<1>3. \A t \in Sets, j \in Nat :
         HandlesOf(t, j)' = IF t = s /\ j = i THEN HandlesOf(t, j) \cup {g} ELSE HandlesOf(t, j)
  BY <1>0, <1>1, <1>2, HandleKinds DEF HandlesOf
<1>4. g \notin HandlesOf(s, i)
  BY <1>1, HandleKinds DEF HandlesOf
<1>5. CASE set[s].live
  <2>1. set' = [set EXCEPT ![s] = inc(set[s], i)]
    BY <1>1, <1>5
  <2>2. IsOccupied(set[s], i) /\ set[s].slots[i].root = handle[h].ptr
    BY <1>0, <1>1, <1>5 DEF IInv, HandlesInv, upgrade
  <2>3. /\ inc(set[s], i) \in Slots /\ Linked(inc(set[s], i)) /\ SameBut(set[s], inc(set[s], i), i)
        /\ IsOccupied(inc(set[s], i), i)
        /\ inc(set[s], i).slots[i] = Occupied(set[s].slots[i].root, set[s].slots[i].ref_count + 1)
    BY <1>2, <2>2, IncSlot
  <2>4. TypeOK'
    BY <1>1, <1>2, <2>1, <2>3 DEF IInv, TypeOK
  <2>5. /\ SetsInv'
        /\ \A t \in Sets, j \in Nat : ~(t = s /\ j = i) =>
              /\ IsOccupied(set[t], j)' <=> IsOccupied(set[t], j)
              /\ IsOccupied(set[t], j) => set'[t].slots[j] = set[t].slots[j]
        /\ \A t \in Sets : set'[t].live = set[t].live
    BY <1>1, <1>2, <1>5, <2>1, <2>3, <2>4, OtherSlots
  <2>6. set[s].slots[i].root \in Values /\ set[s].slots[i].ref_count \in Nat
    BY <1>2, <2>2, SlotTypes
  <2>7. /\ IsOccupied(set'[s], i) /\ set'[s].slots[i].root = set[s].slots[i].root
        /\ set'[s].slots[i].ref_count = set[s].slots[i].ref_count + 1
    BY <1>2, <2>1, <2>3, <2>6, SlotKinds DEF IInv, TypeOK
  <2>8. \A t \in Sets, j \in Nat : IsOccupied(set'[t], j) =>
            IsOccupied(set[t], j) /\ set'[t].slots[j].root = set[t].slots[j].root
    BY <2>2, <2>5, <2>7
  <2>9. AliveInv' /\ MarkInv'
    BY <1>1, <2>8, SameRoots
  <2>10. HandlesInv'
    <3> SUFFICES ASSUME NEW f \in Handles, upgrade(f)'
                 PROVE  /\ IsOccupied(set'[handle'[f].slots], handle'[f].index)
                        /\ set'[handle'[f].slots].slots[handle'[f].index].root = handle'[f].ptr
      BY DEF HandlesInv
    <3>1. PICK e \in Handles : handle'[f] = handle[e]
      BY <1>2
    <3>2. upgrade(e) /\ handle[e].slots \in Sets /\ handle[e].index \in Nat
      BY <1>2, <2>5, <3>1, HandleKinds DEF upgrade
    <3>3. /\ IsOccupied(set[handle[e].slots], handle[e].index)
          /\ set[handle[e].slots].slots[handle[e].index].root = handle[e].ptr
      BY <3>2 DEF IInv, HandlesInv
    <3> QED
      BY <2>5, <2>7, <3>1, <3>2, <3>3
  <2>11. CountsHandles'
    <3>1. Cardinality(HandlesOf(s, i)') = Cardinality(HandlesOf(s, i)) + 1
      BY <1>2, <1>3, <1>4, Countable, FS_AddElement
    <3>2. Cardinality(HandlesOf(s, i)) = set[s].slots[i].ref_count + 1
      BY <1>2, <2>2, CountOf DEF IInv
    <3>3. \A t \in Sets, j \in Nat : IsOccupied(set'[t], j) =>
              Cardinality(HandlesOf(t, j)') = set'[t].slots[j].ref_count + 1
      <4> SUFFICES ASSUME NEW t \in Sets, NEW j \in Nat, IsOccupied(set'[t], j)
                   PROVE  Cardinality(HandlesOf(t, j)') = set'[t].slots[j].ref_count + 1
        OBVIOUS
      <4>1. CASE t = s /\ j = i
        BY <2>6, <2>7, <3>1, <3>2, <4>1
      <4>2. CASE ~(t = s /\ j = i)
        BY <1>3, <2>5, <4>2, CountOf DEF IInv
      <4> QED BY <4>1, <4>2
    <3>4. \A t \in Sets : DOMAIN set'[t].slots \subseteq Nat
      BY <2>4, SlotTypes DEF TypeOK
    <3> QED
      BY <3>3, <3>4 DEF CountsHandles
  <2> QED
    BY <2>4, <2>5, <2>9, <2>10, <2>11 DEF IInv
<1>6. CASE ~set[s].live
  <2>1. set' = set /\ set[s] = NoSlots
    BY <1>1, <1>2, <1>6 DEF IInv, SetsInv
  <2>2. TypeOK'
    BY <1>1, <1>2, <2>1 DEF IInv, TypeOK
  <2>3. SetsInv'
    BY <1>1, <2>1 DEF IInv, SetsInv
  <2>4. AliveInv' /\ MarkInv'
    BY <1>1, <2>1, SameRoots
  <2>5. HandlesInv'
    BY <1>0, <1>2, <1>6, <2>1 DEF IInv, HandlesInv, upgrade
  <2>6. \A j : ~IsOccupied(set[s], j)
    BY <2>1, EmptySlots
  <2>7. \A t \in Sets, j \in Nat : IsOccupied(set[t], j) => HandlesOf(t, j)' = HandlesOf(t, j)
    BY <1>3, <2>6
  <2>8. \A t \in Sets : DOMAIN set[t].slots \subseteq Nat
    BY SlotTypes DEF IInv, TypeOK
  <2>9. CountsHandles'
    BY <2>1, <2>7, <2>8 DEF IInv, CountsHandles
  <2> QED
    BY <2>2, <2>3, <2>4, <2>5, <2>9 DEF IInv
<1> QED
  BY <1>5, <1>6

\* The last handle of a slot vacates it and puts it on the free list.
LEMMA DropStep ==
    ASSUME IInv, NEW h \in Handles, drop(h)
    PROVE  IInv'
<1>0. PICK s, i : s = handle[h].slots /\ i = handle[h].index
  OBVIOUS
<1>1. /\ handle' = [handle EXCEPT ![h] = Dropped]
      /\ set' = IF upgrade(h) THEN [set EXCEPT ![s] = dec(set[s], i)] ELSE set
      /\ UNCHANGED <<rooted, alive, linked, phase, black, marked>>
  BY <1>0 DEF drop
<1>2. /\ handle \in [Handles -> StashedValue]
      /\ \A f \in Handles : handle'[f] = IF f = h THEN Dropped ELSE handle[f]
      /\ handle' \in [Handles -> StashedValue]
  BY <1>1, HandleKinds DEF IInv, TypeOK
<1>3. \A t, j : HandlesOf(t, j)' = HandlesOf(t, j) \ {h}
  BY <1>2, HandleKinds DEF HandlesOf
<1>4. \A t, j : ~(t = s /\ j = i /\ handle[h].kind = "root") => HandlesOf(t, j)' = HandlesOf(t, j)
  BY <1>0, <1>3 DEF HandlesOf
<1>5. CASE upgrade(h)
  <2> DEFINE tl == dec(set[s], i)
  <2>0. /\ s \in Sets /\ i \in Nat /\ handle[h].kind = "root"
        /\ set[s].live /\ set[s] \in Slots /\ Linked(set[s])
    BY <1>0, <1>2, <1>5, HandleKinds DEF IInv, TypeOK, SetsInv, upgrade
  <2>1. set' = [set EXCEPT ![s] = tl]
    BY <1>1, <1>5
  <2>2. IsOccupied(set[s], i) /\ set[s].slots[i].root = handle[h].ptr
    BY <1>0, <1>5 DEF IInv, HandlesInv
  <2>3. set[s].slots[i].root \in Values /\ set[s].slots[i].ref_count \in Nat
    BY <2>0, <2>2, SlotTypes
  <2>4. /\ tl \in Slots /\ Linked(tl) /\ SameBut(set[s], tl, i)
        /\ IsOccupied(tl, i) <=> set[s].slots[i].ref_count # 0
        /\ IsOccupied(tl, i) =>
              tl.slots[i] = Occupied(set[s].slots[i].root, set[s].slots[i].ref_count - 1)
    BY <2>0, <2>2, DecSlot, VacateSlot
  <2> HIDE DEF tl
  <2>5. TypeOK'
    BY <1>1, <1>2, <2>1, <2>4 DEF IInv, TypeOK
  <2>6. /\ SetsInv'
        /\ \A t \in Sets, j \in Nat : ~(t = s /\ j = i) =>
              /\ IsOccupied(set[t], j)' <=> IsOccupied(set[t], j)
              /\ IsOccupied(set[t], j) => set'[t].slots[j] = set[t].slots[j]
        /\ \A t \in Sets : set'[t].live = set[t].live
    BY <1>1, <2>0, <2>1, <2>4, <2>5, OtherSlots
  <2>7. set'[s] = tl
    BY <2>0, <2>1 DEF IInv, TypeOK
  <2>8. IsOccupied(set'[s], i) =>
            /\ set[s].slots[i].ref_count # 0
            /\ set'[s].slots[i].root = set[s].slots[i].root
            /\ set'[s].slots[i].ref_count = set[s].slots[i].ref_count - 1
    <3> SUFFICES ASSUME IsOccupied(tl, i)
                 PROVE  /\ set[s].slots[i].ref_count # 0
                        /\ tl.slots[i].root = set[s].slots[i].root
                        /\ tl.slots[i].ref_count = set[s].slots[i].ref_count - 1
      BY <2>7
    <3>1. set[s].slots[i].ref_count - 1 \in Nat
      BY <2>3, <2>4
    <3> QED
      BY <2>3, <2>4, <3>1, SlotKinds
  <2>9. \A t \in Sets, j \in Nat : IsOccupied(set'[t], j) =>
            IsOccupied(set[t], j) /\ set'[t].slots[j].root = set[t].slots[j].root
    BY <2>2, <2>6, <2>8
  <2>10. AliveInv' /\ MarkInv'
    BY <1>1, <2>9, SameRoots
  <2>11. Cardinality(HandlesOf(s, i)) = set[s].slots[i].ref_count + 1
    BY <2>0, <2>2, CountOf DEF IInv
  <2>12. h \in HandlesOf(s, i)
    BY <1>0, <2>0 DEF HandlesOf
  <2>13. HandlesInv'
    <3> SUFFICES ASSUME NEW f \in Handles, upgrade(f)'
                 PROVE  /\ IsOccupied(set'[handle'[f].slots], handle'[f].index)
                        /\ set'[handle'[f].slots].slots[handle'[f].index].root = handle'[f].ptr
      BY DEF HandlesInv
    <3>1. f # h /\ handle'[f] = handle[f]
      BY <1>2, HandleKinds DEF upgrade
    <3>2. upgrade(f) /\ handle[f].slots \in Sets /\ handle[f].index \in Nat
      BY <1>2, <2>6, <3>1, HandleKinds DEF upgrade
    <3>3. /\ IsOccupied(set[handle[f].slots], handle[f].index)
          /\ set[handle[f].slots].slots[handle[f].index].root = handle[f].ptr
      BY <3>2 DEF IInv, HandlesInv
    <3>4. CASE handle[f].slots = s /\ handle[f].index = i
      <4>1. f \in HandlesOf(s, i)
        BY <3>2, <3>4 DEF HandlesOf, upgrade
      <4>2. Cardinality(HandlesOf(s, i)) # 1
        BY <2>12, <3>1, <4>1, Countable, FS_Singleton
      <4>3. IsOccupied(set'[s], i)
        BY <2>3, <2>4, <2>7, <2>11, <4>2
      <4> QED
        BY <2>8, <3>1, <3>3, <3>4, <4>3
    <3>5. CASE ~(handle[f].slots = s /\ handle[f].index = i)
      BY <2>6, <3>1, <3>2, <3>3, <3>5
    <3> QED BY <3>4, <3>5
  <2>14. CountsHandles'
    <3>1. Cardinality(HandlesOf(s, i)') = Cardinality(HandlesOf(s, i)) - 1
      BY <1>3, <2>12, Countable, FS_RemoveElement
    <3>2. \A t \in Sets, j \in Nat : IsOccupied(set'[t], j) =>
              Cardinality(HandlesOf(t, j)') = set'[t].slots[j].ref_count + 1
      <4> SUFFICES ASSUME NEW t \in Sets, NEW j \in Nat, IsOccupied(set'[t], j)
                   PROVE  Cardinality(HandlesOf(t, j)') = set'[t].slots[j].ref_count + 1
        OBVIOUS
      <4>1. CASE t = s /\ j = i
        BY <2>3, <2>8, <2>11, <3>1, <4>1
      <4>2. CASE ~(t = s /\ j = i)
        BY <1>4, <2>6, <4>2, CountOf DEF IInv
      <4> QED BY <4>1, <4>2
    <3>3. \A t \in Sets : DOMAIN set'[t].slots \subseteq Nat
      BY <2>5, SlotTypes DEF TypeOK
    <3> QED
      BY <3>2, <3>3 DEF CountsHandles
  <2> QED
    BY <2>5, <2>6, <2>10, <2>13, <2>14 DEF IInv
<1>6. CASE ~upgrade(h)
  <2>1. set' = set
    BY <1>1, <1>6
  <2>2. TypeOK'
    BY <1>1, <1>2, <2>1 DEF IInv, TypeOK
  <2>3. SetsInv'
    BY <1>1, <2>1 DEF IInv, SetsInv
  <2>4. AliveInv' /\ MarkInv'
    BY <1>1, <2>1, SameRoots
  <2>5. HandlesInv'
    BY <1>2, <2>1, HandleKinds DEF IInv, HandlesInv, upgrade
  <2>6. \A t \in Sets, j \in Nat : IsOccupied(set[t], j) => HandlesOf(t, j)' = HandlesOf(t, j)
    <3> SUFFICES ASSUME NEW t \in Sets, NEW j \in Nat, IsOccupied(set[t], j),
                        t = s, handle[h].kind = "root"
                 PROVE  FALSE
      BY <1>4
    <3>1. set[s] = NoSlots
      BY <1>0, <1>6 DEF IInv, SetsInv, upgrade
    <3> QED
      BY <3>1, EmptySlots
  <2>7. \A t \in Sets : DOMAIN set[t].slots \subseteq Nat
    BY SlotTypes DEF IInv, TypeOK
  <2>8. CountsHandles'
    BY <2>1, <2>6, <2>7 DEF IInv, CountsHandles
  <2> QED
    BY <2>2, <2>3, <2>4, <2>5, <2>8 DEF IInv
<1> QED
  BY <1>5, <1>6

\* Storing a value without a box takes no slot.
LEMMA ImmediateStep ==
    ASSUME IInv, NEW v \in Immediates, NEW h \in Handles, stash_immediate(v, h)
    PROVE  IInv'
<1>1. /\ handle[h] = Dropped /\ handle' = [handle EXCEPT ![h] = Inline(v)]
      /\ UNCHANGED <<set, rooted, alive, linked, phase, black, marked>>
  BY DEF stash_immediate
<1>2. /\ handle' \in [Handles -> StashedValue]
      /\ \A f \in Handles : handle'[f] = IF f = h THEN Inline(v) ELSE handle[f]
  BY <1>1, HandleKinds DEF IInv, TypeOK
<1>3. \A t, j : HandlesOf(t, j)' = HandlesOf(t, j)
  BY <1>1, <1>2, HandleKinds DEF HandlesOf
<1>4. TypeOK' /\ SetsInv'
  BY <1>1, <1>2 DEF IInv, TypeOK, SetsInv
<1>5. HandlesInv'
  BY <1>1, <1>2, HandleKinds DEF IInv, HandlesInv, upgrade
<1>6. CountsHandles'
  BY <1>1, <1>3 DEF IInv, CountsHandles
<1>7. AliveInv' /\ MarkInv'
  BY <1>1, SameRoots
<1> QED
  BY <1>4, <1>5, <1>6, <1>7 DEF IInv

\* A set made at an address nobody refers to, or dropped out of reach.
LEMMA SetStep ==
    ASSUME IInv, NEW s \in Sets, new(s) \/ FreeSet(s)
    PROVE  IInv'
<1> DEFINE tl == set'[s]
<1>1. /\ set' = [set EXCEPT ![s] = tl] /\ tl \in {NoSlots, [NoSlots EXCEPT !.live = TRUE]}
      /\ UNCHANGED <<handle, alive, linked, phase, marked>>
  BY DEF new, FreeSet, IInv, TypeOK
<1>2. /\ tl \in Slots /\ Linked(tl) /\ \A j : ~IsOccupied(tl, j)
      /\ ~tl.live => tl = NoSlots
  BY <1>1, EmptySlots
<1>3. \A t \in Sets : t # s => set'[t] = set[t]
  BY <1>1 DEF IInv, TypeOK
<1>4. /\ s \in rooted' => tl.live
      /\ rooted' \subseteq rooted \cup {s} /\ black' \subseteq black \cup {s}
      /\ phase = "Sleep" => black' = black
      /\ phase = "Sweep" /\ rooted \subseteq black => rooted' \subseteq black'
  <2>1. CASE new(s)
    BY <2>1, EmptySlots DEF new, IInv, TypeOK
  <2>2. CASE FreeSet(s)
    BY <2>2 DEF FreeSet, IInv, MarkInv
  <2> QED BY <2>1, <2>2
<1>5. TypeOK'
  BY <1>1, <1>2, <1>4 DEF IInv, TypeOK
<1>6. SetsInv'
  BY <1>2, <1>3, <1>4 DEF IInv, SetsInv, TypeOK
<1>7. HandlesInv'
  <2> SUFFICES ASSUME NEW f \in Handles, upgrade(f)'
               PROVE  handle[f].slots # s /\ handle[f].slots \in Sets
    BY <1>1, <1>3 DEF IInv, HandlesInv, upgrade
  <2>1. handle[f].kind = "root" /\ handle[f].slots \in Sets /\ set'[handle[f].slots].live
    BY <1>1, HandleKinds DEF upgrade, IInv, TypeOK
  <2>2. CASE new(s)
    BY <2>1, <2>2 DEF new, AddressFree
  <2>3. CASE FreeSet(s)
    BY <2>1, <2>3 DEF FreeSet, NoSlots, IInv, TypeOK
  <2> QED BY <2>1, <2>2, <2>3
<1>8. \A t \in Sets : DOMAIN set'[t].slots \subseteq Nat /\ DOMAIN set[t].slots \subseteq Nat
  BY <1>5, SlotTypes DEF IInv, TypeOK
<1>9. \A t, j : HandlesOf(t, j)' = HandlesOf(t, j)
  BY <1>1 DEF HandlesOf
<1>10. CountsHandles'
  BY <1>2, <1>3, <1>8, <1>9 DEF IInv, CountsHandles
<1>11. AliveInv'
  BY <1>1, <1>2, <1>3, <1>4 DEF IInv, AliveInv, TypeOK
<1>12. MarkInv'
  BY <1>1, <1>2, <1>3, <1>4 DEF IInv, MarkInv, TypeOK
<1> QED
  BY <1>5, <1>6, <1>7, <1>10, <1>11, <1>12 DEF IInv

\* The other steps leave slots and handles alone.
LEMMA QuietStep ==
    ASSUME IInv, TypeOK', UNCHANGED <<set, handle>>, rooted' \subseteq rooted, AliveInv', MarkInv'
    PROVE  IInv'
<1>1. SetsInv'
  BY DEF IInv, SetsInv
<1>2. HandlesInv'
  BY DEF IInv, HandlesInv, upgrade
<1>3. CountsHandles'
  BY DEF IInv, CountsHandles, HandlesOf
<1> QED
  BY <1>1, <1>2, <1>3 DEF IInv

\* The program's other steps touch neither slots nor handles of a living set.
LEMMA ProgramStep ==
    ASSUME IInv,
           \/ \E v \in Values : Allocate(v) \/ Unlink(v)
           \/ \E s \in Sets : Unroot(s) \/ \E h \in Handles : fetch(s, h)
    PROVE  IInv'
<1>1. ASSUME NEW v \in Values, Allocate(v) PROVE IInv'
  <2>1. TypeOK' /\ AliveInv' /\ MarkInv'
    BY <1>1 DEF Allocate, IInv, TypeOK, AliveInv, MarkInv
  <2> QED
    BY <1>1, <2>1, QuietStep DEF Allocate
<1>2. ASSUME NEW v \in Values, Unlink(v) PROVE IInv'
  <2>1. TypeOK' /\ AliveInv' /\ MarkInv'
    BY <1>2 DEF Unlink, IInv, TypeOK, AliveInv, MarkInv
  <2> QED
    BY <1>2, <2>1, QuietStep DEF Unlink
<1>3. ASSUME NEW s \in Sets, NEW h \in Handles, fetch(s, h) PROVE IInv'
  <2>1. handle[h].ptr \in Values /\ handle[h].index \in Nat
    BY <1>3, HandleKinds DEF fetch, contains, IInv, TypeOK
  <2>2. upgrade(h)
    BY <1>3 DEF fetch, contains, upgrade, IInv, SetsInv
  <2>3. IsOccupied(set[s], handle[h].index) /\ set[s].slots[handle[h].index].root = handle[h].ptr
    BY <1>3, <2>2 DEF fetch, contains, IInv, HandlesInv
  <2>4. handle[h].ptr \in alive
    BY <1>3, <2>1, <2>3 DEF fetch, IInv, AliveInv
  <2>5. phase = "Sweep" => handle[h].ptr \in marked
    BY <1>3, <2>1, <2>3 DEF fetch, IInv, MarkInv
  <2>6. TypeOK' /\ AliveInv'
    BY <1>3, <2>1, <2>4 DEF fetch, IInv, TypeOK, AliveInv
  <2>7. MarkInv'
    BY <1>3, <2>5 DEF fetch, IInv, MarkInv
  <2> QED
    BY <1>3, <2>6, <2>7, QuietStep DEF fetch
<1>4. ASSUME NEW s \in Sets, Unroot(s) PROVE IInv'
  <2>1. TypeOK' /\ AliveInv' /\ MarkInv'
    BY <1>4 DEF Unroot, IInv, TypeOK, AliveInv, MarkInv
  <2> QED
    BY <1>4, <2>1, QuietStep DEF Unroot
<1> QED
  BY <1>1, <1>2, <1>3, <1>4

\* A step of the collector marks or frees only what the marks allow.
LEMMA CollectorStep ==
    ASSUME IInv,
           \/ WakeUp \/ StartSweep \/ EndSweep
           \/ \E s \in Sets : TraceSet(s)
           \/ \E v \in Values : MarkLinked(v) \/ FreeValue(v)
    PROVE  IInv'
<1>1. CASE WakeUp
  <2>1. TypeOK' /\ AliveInv' /\ MarkInv'
    BY <1>1 DEF WakeUp, IInv, TypeOK, AliveInv, MarkInv
  <2> QED
    BY <1>1, <2>1, QuietStep DEF WakeUp
<1>2. ASSUME NEW s \in Sets, TraceSet(s) PROVE IInv'
  <2>1. \A i \in Nat : IsOccupied(set[s], i) => set[s].slots[i].root \in trace(set[s])
    BY DEF trace, IsOccupied
  <2>2. trace(set[s]) \subseteq Values
    BY SlotTypes DEF trace, IInv, TypeOK
  <2>3. TypeOK' /\ AliveInv'
    BY <1>2, <2>2 DEF TraceSet, IInv, TypeOK, AliveInv
  <2>4. MarkInv'
    BY <1>2, <2>1 DEF TraceSet, IInv, MarkInv
  <2> QED
    BY <1>2, <2>3, <2>4, QuietStep DEF TraceSet
<1>3. ASSUME NEW v \in Values, MarkLinked(v) PROVE IInv'
  <2>1. TypeOK' /\ AliveInv' /\ MarkInv'
    BY <1>3 DEF MarkLinked, IInv, TypeOK, AliveInv, MarkInv
  <2> QED
    BY <1>3, <2>1, QuietStep DEF MarkLinked
<1>4. CASE StartSweep
  <2>1. TypeOK' /\ AliveInv' /\ MarkInv'
    BY <1>4 DEF StartSweep, IInv, TypeOK, AliveInv, MarkInv
  <2> QED
    BY <1>4, <2>1, QuietStep DEF StartSweep
<1>5. ASSUME NEW v \in Values, FreeValue(v) PROVE IInv'
  <2>1. v \notin linked
    BY <1>5 DEF FreeValue, IInv, MarkInv
  <2>2. \A t \in rooted : \A i \in Nat : IsOccupied(set[t], i) => set[t].slots[i].root # v
    BY <1>5 DEF FreeValue, IInv, MarkInv
  <2>3. TypeOK' /\ MarkInv'
    BY <1>5 DEF FreeValue, IInv, TypeOK, MarkInv
  <2>4. AliveInv'
    BY <1>5, <2>1, <2>2 DEF FreeValue, IInv, AliveInv
  <2> QED
    BY <1>5, <2>3, <2>4, QuietStep DEF FreeValue
<1>6. CASE EndSweep
  <2>1. TypeOK' /\ AliveInv' /\ MarkInv'
    BY <1>6 DEF EndSweep, IInv, TypeOK, AliveInv, MarkInv
  <2> QED
    BY <1>6, <2>1, QuietStep DEF EndSweep
<1> QED
  BY <1>1, <1>2, <1>3, <1>4, <1>5, <1>6
-----------------------------------------------------------------------------
(* Theorems                                                                *)

\* Every step keeps the invariant.
LEMMA NextInv == IInv /\ [Next]_vars => IInv'
<1> SUFFICES ASSUME IInv, [Next]_vars PROVE IInv'
  OBVIOUS
<1>1. CASE Program
  BY <1>1, SetStep, StashStep, ImmediateStep, ProgramStep DEF Program
<1>2. CASE Holder
  BY <1>2, CloneStep, DropStep DEF Holder
<1>3. CASE Collector
  BY <1>3, SetStep, CollectorStep DEF Collector
<1>4. CASE UNCHANGED vars
  <2>1. TypeOK' /\ AliveInv' /\ MarkInv'
    BY <1>4 DEF vars, IInv, TypeOK, AliveInv, MarkInv
  <2> QED
    BY <1>4, <2>1, QuietStep DEF vars
<1> QED
  BY <1>1, <1>2, <1>3, <1>4 DEF Next

\* The inductive invariant holds in every reachable state, for any number of
\* sets, values and handles.
THEOREM RootsInvariance == Spec => []IInv
<1> QED
  BY InitInv, NextInv, PTL DEF Spec

\* Every variable keeps its type; counts never go below zero.
THEOREM RootsTypeCorrect == Spec => []TypeOK
<1>1. IInv => TypeOK
  BY DEF IInv
<1> QED
  BY <1>1, RootsInvariance, PTL

\* Through every order of stash, clone, drop and collection, the slot of a
\* handle is taken by the handle's own value, and this value is not freed
\* while the set can be reached: Slots::inc and dec never panic.
THEOREM HandlesKeepValues == Spec => []HandlesHold
<1>1. IInv => HandlesHold
  <2> SUFFICES ASSUME IInv, NEW h \in Handles, upgrade(h)
               PROVE  /\ IsOccupied(set[handle[h].slots], handle[h].index)
                      /\ set[handle[h].slots].slots[handle[h].index].root = handle[h].ptr
                      /\ handle[h].slots \in rooted => handle[h].ptr \in alive
    BY DEF HandlesHold
  <2>1. handle[h].index \in Nat
    BY HandleKinds DEF IInv, TypeOK, upgrade
  <2> QED
    BY <2>1 DEF IInv, HandlesInv, AliveInv
<1> QED
  BY <1>1, RootsInvariance, PTL

\* Every taken slot counts its handles exactly.
THEOREM CountsAreExact == Spec => []CountsHandles
<1>1. IInv => CountsHandles
  BY DEF IInv
<1> QED
  BY <1>1, RootsInvariance, PTL

\* No fetch gives the program a freed value.
THEOREM FetchIsSafe == Spec => []FetchedIsAlive
<1>1. IInv => FetchedIsAlive
  BY DEF IInv, AliveInv, FetchedIsAlive
<1> QED
  BY <1>1, RootsInvariance, PTL

\* Following the free list pops the stack of vacant slots.
LEMMA WalkPops ==
    ASSUME NEW sl \in Slots, NEW m, NEW q, Stacked(sl, m, q)
    PROVE  /\ m <= Len(sl.slots)
           /\ FreeWalk(sl) = [n \in 0..Len(sl.slots) |-> IF n < m THEN q[m - n] ELSE NULL_INDEX]
<1> DEFINE L == Len(sl.slots)
           Next1(n, x) == IF n = 0 THEN sl.next_free
                          ELSE IF IsVacant(sl, x) THEN sl.slots[x].next_free ELSE x
           f == [n \in 0..L |-> IF n < m THEN q[m - n] ELSE NULL_INDEX]
<1>1. /\ L \in Nat /\ DOMAIN sl.slots = 1..L /\ ~IsVacant(sl, NULL_INDEX)
  BY SlotTypes DEF IsVacant, NULL_INDEX
<1>2. /\ m \in Nat /\ q \in [1..m -> 1..L]
      /\ \A j, k \in 1..m : q[j] = q[k] => j = k
      /\ \A j \in 1..m : /\ IsVacant(sl, q[j])
                        /\ sl.slots[q[j]].next_free = IF j = 1 THEN NULL_INDEX ELSE q[j - 1]
      /\ sl.next_free = IF m = 0 THEN NULL_INDEX ELSE q[m]
  BY <1>1 DEF Stacked
<1> HIDE DEF L
<1>3. m <= L
  <2>1. q \in Injection(1..m, 1..L)
    BY <1>2 DEF Injection, IsInjective
  <2>2. IsFiniteSet(1..m) /\ Cardinality(1..m) = m /\ IsFiniteSet(1..L) /\ Cardinality(1..L) = L
    <3>1. 1 \in Int /\ m \in Int /\ L \in Int
      BY <1>1, <1>2
    <3> HIDE DEF L
    <3> QED BY <1>1, <1>2, <3>1, FS_Interval
  <2>3. Cardinality(1..m) <= Cardinality(1..L)
    BY <2>1, <2>2, FS_Injection DEF ExistsInjection
  <2> QED BY <2>2, <2>3
<1>4. ASSUME NEW n \in 0..L PROVE f[n] = Next1(n, f[n - 1])
  <2>1. CASE n = 0
    BY <1>1, <1>2, <2>1
  <2>2. CASE n # 0 /\ n - 1 < m
    <3>1. n - 1 \in 0..L /\ m - (n - 1) \in 1..m /\ f[n - 1] = q[m - (n - 1)]
      <4>1. n - 1 \in 0..L /\ m - (n - 1) \in 1..m
        BY <1>1, <1>2, <2>2
      <4> QED
        BY <2>2, <4>1
    <3>2. /\ IsVacant(sl, f[n - 1])
          /\ sl.slots[f[n - 1]].next_free =
                IF m - (n - 1) = 1 THEN NULL_INDEX ELSE q[(m - (n - 1)) - 1]
      BY <1>2, <3>1
    <3>3. m - (n - 1) = 1 <=> ~(n < m)
      BY <1>1, <1>2, <2>2
    <3>4. (m - (n - 1)) - 1 = m - n
      BY <1>1, <1>2
    <3> QED
      BY <2>2, <3>2, <3>3, <3>4
  <2>3. CASE n # 0 /\ ~(n - 1 < m)
    <3>1. n - 1 \in 0..L /\ f[n - 1] = NULL_INDEX /\ f[n] = NULL_INDEX
      BY <1>1, <1>2, <2>3
    <3> QED
      BY <1>1, <2>3, <3>1
  <2> QED BY <2>1, <2>2, <2>3
<1>5. f = [n \in 0..L |-> Next1(n, f[n - 1])]
  <2> HIDE DEF Next1
  <2> QED BY <1>4
<1>6. ASSUME NEW g, g = [n \in 0..L |-> Next1(n, g[n - 1])] PROVE g = f
  <2> DEFINE S == {n \in Nat : n <= L => g[n] = f[n]}
  <2> HIDE DEF f
  <2>1. \A n \in 0..L : g[n] = Next1(n, g[n - 1]) /\ f[n] = Next1(n, f[n - 1])
    BY <1>4, <1>6
  <2>2. 0 \in S
    BY <1>1, <2>1
  <2>3. ASSUME NEW n \in Nat, n \in S PROVE n + 1 \in S
    <3>1. CASE n + 1 <= L
      <4>1. n + 1 \in 0..L /\ n <= L /\ (n + 1) - 1 = n /\ g[n] = f[n]
        BY <1>1, <2>3, <3>1
      <4> QED
        BY <2>1, <4>1
    <3>2. CASE ~(n + 1 <= L)
      BY <3>2
    <3> QED BY <3>1, <3>2
  <2>4. Nat \subseteq S
    <3> HIDE DEF S
    <3> QED BY <2>2, <2>3, SetInduction
  <2>5. \A n \in 0..L : g[n] = f[n]
    BY <1>1, <2>4
  <2>6. f = [n \in 0..L |-> f[n]] /\ g = [n \in 0..L |-> g[n]]
    BY <1>5, <1>6
  <2> QED BY <2>5, <2>6
<1>7. FreeWalk(sl) = f
  <2> HIDE DEF f
  <2>1. FreeWalk(sl) = CHOOSE g : g = [n \in 0..L |-> Next1(n, g[n - 1])]
    BY DEF FreeWalk, L
  <2> QED
    BY <1>5, <1>6, <2>1
<1> QED
  BY <1>3, <1>7 DEF L

\* The free list of every set ends, and meets every vacant slot and no other:
\* Slots::add never finds a taken slot at its head.
THEOREM FreeListsAreSound == Spec => []FreeListSound
<1>1. IInv => FreeListSound
  <2> SUFFICES ASSUME IInv, NEW s \in Sets
               PROVE  LET sl == set[s] Walk == FreeWalk(sl)
                      IN  /\ Walk[Len(sl.slots)] = NULL_INDEX
                          /\ {Walk[n] : n \in DOMAIN Walk} \ {NULL_INDEX}
                                 = {i \in DOMAIN sl.slots : IsVacant(sl, i)}
    BY DEF FreeListSound
  <2> DEFINE sl == set[s]
             L == Len(sl.slots)
             W == FreeWalk(sl)
  <2>1. sl \in Slots /\ Linked(sl)
    BY DEF IInv, TypeOK, SetsInv
  <2>2. PICK m, q : Stacked(sl, m, q)
    BY <2>1 DEF Linked
  <2> HIDE DEF sl
  <2>3. m <= L /\ W = [n \in 0..L |-> IF n < m THEN q[m - n] ELSE NULL_INDEX]
    BY <2>1, <2>2, WalkPops
  <2>4. /\ m \in Nat /\ L \in Nat /\ DOMAIN sl.slots = 1..L
        /\ \A j \in 1..m : q[j] \in 1..L /\ IsVacant(sl, q[j])
        /\ \A i : IsVacant(sl, i) => \E j \in 1..m : q[j] = i
    BY <2>1, <2>2, SlotTypes DEF Stacked
  <2> HIDE DEF W, L
  <2>5. W[L] = NULL_INDEX
    BY <2>3, <2>4
  <2>6. ASSUME NEW n \in DOMAIN W, W[n] # NULL_INDEX
        PROVE  W[n] \in DOMAIN sl.slots /\ IsVacant(sl, W[n])
    <3>1. n \in 0..L /\ n < m /\ m - n \in 1..m /\ W[n] = q[m - n]
      BY <2>3, <2>4, <2>6
    <3> QED BY <2>4, <3>1
  <2>7. ASSUME NEW i \in DOMAIN sl.slots, IsVacant(sl, i)
        PROVE  i # NULL_INDEX /\ \E n \in DOMAIN W : W[n] = i
    <3>1. PICK j \in 1..m : q[j] = i
      BY <2>4, <2>7
    <3>2. m - j \in 0..L /\ m - j < m /\ m - (m - j) = j
      BY <2>3, <2>4
    <3>3. W[m - j] = i /\ m - j \in DOMAIN W
      BY <2>3, <3>1, <3>2
    <3> QED BY <2>4, <3>3 DEF NULL_INDEX
  <2> QED
    BY <2>5, <2>6, <2>7 DEF sl, L, W
<1> QED
  BY <1>1, RootsInvariance, PTL
=============================================================================
