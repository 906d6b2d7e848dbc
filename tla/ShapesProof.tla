---------------------------- MODULE ShapesProof -----------------------------
(***************************************************************************)
(* Proofs for Shapes, for any tables, keys, bounds and programs: shapes    *)
(* and storage agree, metamethod bits and inline caches are never stale,   *)
(* and tables with hidden classes behave like tables without.              *)
(***************************************************************************)
EXTENDS ShapesInv, Induction, SequenceTheorems

\* The type of a heap.
HeapTypes(h) ==
    /\ h \in [shape : [ShapeIds -> ShapeData], table : [Tables -> TableState],
              mtc : [Tables -> MtCacheData]]
    /\ \A s \in ShapeIds : Len(h.shape[s].descriptors) <= MaxProps
    /\ \A t \in Tables : Len(h.table[t].properties) <= MaxProps

\* Going from heap h to g, no live shape was dropped or changed its face.
Extends(h, g) ==
    \A s \in ShapeIds : h.shape[s].live =>
        g.shape[s].live /\ Face(g.shape[s]) = Face(h.shape[s])

\* Going from h to g, tables and the metamethod bits stayed as they are.
SameTables(h, g) ==
    /\ g.table = h.table
    /\ \A t \in Tables : g.mtc[t].made = h.mtc[t].made /\ g.mtc[t].bits = h.mtc[t].bits

\* Going from h to g, the program stored v in field k of table t, and no more.
Stored(h, g, t, k, v) ==
    \A q \in Tables :
        /\ g.table[q].metatable = h.table[q].metatable
        /\ \A j \in Keys :
              raw_get(g, q, j) = IF q = t /\ j = k THEN v ELSE raw_get(h, q, j)

\* Going from h to g, the program gave t the metatable mt, and no more.
MetatableSet(h, g, t, mt) ==
    \A q \in Tables :
        /\ g.table[q].metatable = IF q = t THEN mt ELSE h.table[q].metatable
        /\ \A j \in Keys : raw_get(g, q, j) = raw_get(h, q, j)

\* Going from h to g, nothing happened that a program could see.
Unseen(h, g) ==
    \A q \in Tables :
        /\ g.table[q].metatable = h.table[q].metatable
        /\ \A j \in Keys : raw_get(g, q, j) = raw_get(h, q, j)

\* What CachesAreFresh says, of a heap and the inline caches.
FreshIn(h, c) ==
    \A i \in Sites : c[i].shape # NoShape =>
        h.shape[c[i].shape].live /\ c[i].slot = find_slot(h.shape[c[i].shape], SiteKey[i])
-----------------------------------------------------------------------------
(* Slots                                                                   *)

\* find_slot finds the slot of a key that the descriptors name, and only that.
LEMMA FindSlot ==
    ASSUME NEW sh, sh.descriptors \in Seq(Keys), NEW k
    PROVE  /\ find_slot(sh, k) \in 0..Len(sh.descriptors)
           /\ find_slot(sh, k) # ABSENT_SLOT =>
                 /\ find_slot(sh, k) \in DOMAIN sh.descriptors
                 /\ sh.descriptors[find_slot(sh, k)] = k
           /\ find_slot(sh, k) = ABSENT_SLOT =>
                 \A i \in DOMAIN sh.descriptors : sh.descriptors[i] # k
<1> DEFINE at == {i \in DOMAIN sh.descriptors : sh.descriptors[i] = k}
<1>1. at \in SUBSET Nat /\ DOMAIN sh.descriptors = 1..Len(sh.descriptors)
      /\ Len(sh.descriptors) \in Nat
  BY LenProperties
<1>2. CASE at = {}
  BY <1>1, <1>2 DEF find_slot, ABSENT_SLOT
<1>3. CASE at # {}
  <2>1. PICK i \in at : \A j \in at : i <= j
    <3> HIDE DEF at
    <3> QED
      BY <1>1, <1>3, LeastMember
  <2>2. find_slot(sh, k) = Min(at)
    BY <1>3 DEF find_slot
  <2> HIDE DEF at
  <2>3. Min(at) \in at
    BY <2>1 DEF Min
  <2> QED
    BY <1>1, <2>2, <2>3 DEF at, ABSENT_SLOT
<1> QED
  BY <1>2, <1>3

\* With distinct keys, a key's slot is where it is.
LEMMA SlotOf ==
    ASSUME NEW sh, sh.descriptors \in Seq(Keys), IsInjective(sh.descriptors),
           NEW i \in DOMAIN sh.descriptors
    PROVE  find_slot(sh, sh.descriptors[i]) = i
<1>1. find_slot(sh, sh.descriptors[i]) # ABSENT_SLOT
  BY FindSlot
<1> QED
  BY <1>1, FindSlot DEF IsInjective

\* The lookup reads the descriptors and nothing else.
LEMMA SameSlot ==
    ASSUME NEW sh, NEW th, sh.descriptors = th.descriptors, NEW k
    PROVE  find_slot(sh, k) = find_slot(th, k)
BY DEF find_slot

\* A key that was appended has the last slot; every other keeps its own.
LEMMA AppendedSlot ==
    ASSUME NEW sh, NEW th, sh.descriptors \in Seq(Keys), NEW k \in Keys,
           IsInjective(sh.descriptors), find_slot(sh, k) = ABSENT_SLOT,
           th.descriptors = Append(sh.descriptors, k)
    PROVE  /\ th.descriptors \in Seq(Keys) /\ Len(th.descriptors) = Len(sh.descriptors) + 1
           /\ IsInjective(th.descriptors)
           /\ find_slot(th, k) = Len(sh.descriptors) + 1
           /\ \A j \in Keys \ {k} : find_slot(th, j) = find_slot(sh, j)
<1> DEFINE d == sh.descriptors
           e == th.descriptors
           n == Len(d)
<1>1. /\ n \in Nat /\ DOMAIN d = 1..n
      /\ e \in Seq(Keys) /\ Len(e) = n + 1 /\ DOMAIN e = 1..(n + 1)
      /\ \A i \in 1..n : e[i] = d[i]
      /\ e[n + 1] = k
  BY AppendProperties, LenProperties
<1>2. \A i \in 1..n : d[i] # k
  BY <1>1, FindSlot
<1>3. IsInjective(e)
  <2> SUFFICES ASSUME NEW a \in 1..(n + 1), NEW b \in 1..(n + 1), e[a] = e[b] PROVE a = b
    BY <1>1 DEF IsInjective
  <2>1. CASE a \in 1..n /\ b \in 1..n
    BY <1>1, <2>1 DEF IsInjective
  <2>2. CASE a = n + 1 \/ b = n + 1
    BY <1>1, <1>2, <2>2
  <2> QED
    BY <1>1, <2>1, <2>2
<1>4. \A i \in 1..(n + 1) : find_slot(th, e[i]) = i
  BY <1>1, <1>3, SlotOf
<1>5. ASSUME NEW j \in Keys \ {k} PROVE find_slot(th, j) = find_slot(sh, j)
  <2>1. CASE find_slot(sh, j) = ABSENT_SLOT
    <3>1. \A i \in 1..n : d[i] # j
      BY <1>1, <2>1, FindSlot
    <3>2. \A i \in DOMAIN e : e[i] # j
      BY <1>1, <3>1
    <3>3. find_slot(th, j) # ABSENT_SLOT =>
              find_slot(th, j) \in DOMAIN e /\ e[find_slot(th, j)] = j
      BY <1>1, FindSlot
    <3> QED
      BY <2>1, <3>2, <3>3
  <2>2. CASE find_slot(sh, j) # ABSENT_SLOT
    <3>1. find_slot(sh, j) \in 1..n /\ d[find_slot(sh, j)] = j
      BY <1>1, <2>2, FindSlot
    <3> QED
      BY <1>1, <1>4, <3>1
  <2> QED
    BY <2>1, <2>2
<1> QED
  BY <1>1, <1>3, <1>4, <1>5, n + 1 \in 1..(n + 1)
-----------------------------------------------------------------------------
(* Heaps                                                                   *)

\* The shapes that the code makes.
LEMMA ShapeTypes ==
    /\ Unused \in ShapeData /\ root_empty \in ShapeData
    /\ \A m \in Metatables : dict_sentinel(m) \in ShapeData
    /\ Unused.descriptors = <<>> /\ Len(<<>>) = 0 /\ IsInjective(<<>>)
<1>1. <<>> \in Seq(Keys) /\ Len(<<>>) = 0 /\ DOMAIN <<>> = {}
  BY EmptySeq, LenProperties
<1>2. Unused \in ShapeData /\ Unused.descriptors = <<>>
  BY <1>1 DEF Unused, ShapeData, Metatables
<1>3. root_empty \in ShapeData
  BY <1>2 DEF root_empty, ShapeData
<1>4. \A m \in Metatables : dict_sentinel(m) \in ShapeData
  BY <1>2 DEF dict_sentinel, ShapeData
<1> QED
  BY <1>1, <1>2, <1>3, <1>4 DEF IsInjective

\* Gc::new of a shape finds an identity that is not in use.
LEMMA FreeShape ==
    ASSUME NEW h, Free(h) # {}
    PROVE  Min(Free(h)) \in ShapeIds /\ ~h.shape[Min(Free(h))].live
<1>1. Free(h) \in SUBSET Nat
  BY BoundsAssumption DEF Free, ShapeIds
<1>2. PICK s \in Free(h) : \A y \in Free(h) : s <= y
  BY <1>1, LeastMember
<1>3. Min(Free(h)) \in Free(h)
  BY <1>2 DEF Min
<1> QED
  BY <1>3 DEF Free

\* What the heap is made of.
LEMMA HeapParts ==
    ASSUME NEW h, HeapTypes(h)
    PROVE  /\ \A s \in ShapeIds :
                 /\ h.shape[s] \in ShapeData /\ h.shape[s].live \in BOOLEAN
                 /\ h.shape[s].descriptors \in Seq(Keys) /\ h.shape[s].mt_cache \in Metatables
                 /\ \A k \in Keys : h.shape[s].by_prop[k] \in ShapeIds \cup {NoShape}
                 /\ \A m \in Metatables : h.shape[s].by_mt[m] \in ShapeIds \cup {NoShape}
           /\ \A t \in Tables :
                 /\ h.table[t] \in TableState /\ h.table[t].shape \in ShapeIds
                 /\ h.table[t].properties \in Seq(Values) /\ h.table[t].metatable \in Metatables
                 /\ h.table[t].dict \in [Keys -> Values] /\ h.table[t].is_dict \in BOOLEAN
                 /\ h.mtc[t] \in MtCacheData /\ h.mtc[t].made \in BOOLEAN
                 /\ h.mtc[t].dict_sentinel \in ShapeIds \cup {NoShape}
                 /\ h.mtc[t].bits \in SUBSET Metamethods
           /\ h = [shape |-> h.shape, table |-> h.table, mtc |-> h.mtc]
           /\ NoShape \notin ShapeIds
           /\ empty_shape \in ShapeIds /\ empty_dict_sentinel \in ShapeIds
           /\ empty_shape # empty_dict_sentinel
<1>1. /\ h.shape \in [ShapeIds -> ShapeData] /\ h.table \in [Tables -> TableState]
      /\ h.mtc \in [Tables -> MtCacheData]
      /\ h = [shape |-> h.shape, table |-> h.table, mtc |-> h.mtc]
  BY DEF HeapTypes
<1>2. \A x \in ShapeData : /\ x.live \in BOOLEAN /\ x.descriptors \in Seq(Keys)
                           /\ x.mt_cache \in Metatables
                           /\ x.by_prop \in [Keys -> ShapeIds \cup {NoShape}]
                           /\ x.by_mt \in [Metatables -> ShapeIds \cup {NoShape}]
  BY DEF ShapeData
<1>3. \A x \in TableState : /\ x.shape \in ShapeIds /\ x.properties \in Seq(Values)
                            /\ x.metatable \in Metatables /\ x.dict \in [Keys -> Values]
                            /\ x.is_dict \in BOOLEAN
  BY DEF TableState
<1>4. \A x \in MtCacheData : /\ x.made \in BOOLEAN /\ x.bits \in SUBSET Metamethods
                             /\ x.dict_sentinel \in ShapeIds \cup {NoShape}
  BY DEF MtCacheData
<1>5. NoShape \notin ShapeIds /\ empty_shape \in ShapeIds /\ empty_dict_sentinel \in ShapeIds
      /\ empty_shape # empty_dict_sentinel
  BY BoundsAssumption DEF NoShape, ShapeIds, empty_shape, empty_dict_sentinel
<1> QED
  BY <1>1, <1>2, <1>3, <1>4, <1>5

\* Equal faces are equal in each part.
LEMMA SameFace ==
    ASSUME NEW sh, NEW sg, Face(sg) = Face(sh)
    PROVE  /\ sg.descriptors = sh.descriptors /\ sg.is_dict = sh.is_dict
           /\ sg.mt_cache = sh.mt_cache
BY DEF Face

\* Tables do not notice that the pool of shapes has grown.
LEMMA SameLayout ==
    ASSUME NEW h, NEW g, HeapTypes(h), TablesInv(h), Extends(h, g), SameTables(h, g)
    PROVE  /\ TablesInv(g)
           /\ \A t \in Tables : /\ \A k : raw_get(g, t, k) = raw_get(h, t, k)
                                /\ g.table[t].metatable = h.table[t].metatable
           /\ BitsInv(h) => BitsInv(g)
<1>1. ASSUME NEW t \in Tables
      PROVE  LET sh == h.shape[h.table[t].shape] sg == g.shape[g.table[t].shape] IN
             /\ sh.live /\ sg.live /\ g.table[t] = h.table[t]
             /\ sg.descriptors = sh.descriptors /\ sg.is_dict = sh.is_dict
             /\ sg.mt_cache = sh.mt_cache
  <2>1. g.table[t] = h.table[t]
    BY DEF SameTables
  <2>2. h.shape[h.table[t].shape].live /\ h.table[t].shape \in ShapeIds
    BY HeapParts DEF TablesInv
  <2>3. g.shape[h.table[t].shape].live
        /\ Face(g.shape[h.table[t].shape]) = Face(h.shape[h.table[t].shape])
    BY <2>2 DEF Extends
  <2> QED
    BY <2>1, <2>2, <2>3, SameFace
<1>2. TablesInv(g)
  <2>1. ASSUME NEW t \in Tables
        PROVE  LET r == h.table[t] sh == h.shape[r.shape] IN
               /\ r.is_dict = sh.is_dict /\ Len(r.properties) = Len(sh.descriptors)
               /\ r.metatable = sh.mt_cache
    BY DEF TablesInv
  <2> QED
    BY <1>1, <2>1 DEF TablesInv
<1>3. ASSUME NEW t \in Tables, NEW k PROVE raw_get(g, t, k) = raw_get(h, t, k)
  <2>1. find_slot(g.shape[g.table[t].shape], k) = find_slot(h.shape[h.table[t].shape], k)
    BY <1>1, SameSlot
  <2> QED
    BY <1>1, <2>1 DEF raw_get
<1>4. BitsInv(h) => BitsInv(g)
  BY <1>3 DEF BitsInv, SameTables
<1> QED
  BY <1>1, <1>2, <1>3, <1>4

\* Fields hold values.
LEMMA RawGetType ==
    ASSUME NEW h, HeapTypes(h), TablesInv(h), NEW t \in Tables, NEW k \in Keys
    PROVE  raw_get(h, t, k) \in Values
<1> DEFINE r == h.table[t]
           sh == h.shape[r.shape]
           slot == find_slot(sh, k)
<1>1. /\ r.dict \in [Keys -> Values] /\ r.properties \in Seq(Values)
      /\ sh.descriptors \in Seq(Keys) /\ Len(r.properties) = Len(sh.descriptors)
  BY HeapParts DEF TablesInv
<1>2. slot # ABSENT_SLOT => slot \in DOMAIN r.properties
  BY <1>1, FindSlot, LenProperties
<1>3. slot # ABSENT_SLOT => r.properties[slot] \in Values
  BY <1>1, <1>2, ElementOfSeq, LenProperties
<1> QED
  BY <1>1, <1>3 DEF raw_get, Values

\* Edges are between shapes.
LEMMA SameEdges ==
    ASSUME NEW h, NEW g, g.shape = h.shape, EdgesInv(h)
    PROVE  EdgesInv(g)
<1>1. \A p, k, c : PropEdge(g, p, k, c) <=> PropEdge(h, p, k, c)
  BY DEF PropEdge
<1>2. \A p, m, c : MtEdge(g, p, m, c) <=> MtEdge(h, p, m, c)
  BY DEF MtEdge
<1> QED
  BY <1>1, <1>2 DEF EdgesInv

\* Extending is transitive.
LEMMA ExtendsTwice ==
    ASSUME NEW h, NEW g, NEW f, Extends(h, g), Extends(g, f)
    PROVE  Extends(h, f)
BY DEF Extends
-----------------------------------------------------------------------------
(* Transitions                                                             *)

\* The shape tree stays sound while live shapes keep their faces, every new
\* shape is a sound node and every new edge leads where it says.
LEMMA Grow ==
    ASSUME NEW h, NEW g, HeapTypes(h), HeapTypes(g), TreeInv(h), Extends(h, g),
           \A t \in Tables : /\ g.mtc[t].made = h.mtc[t].made
                             /\ g.mtc[t].dict_sentinel # h.mtc[t].dict_sentinel =>
                                   LET s == g.mtc[t].dict_sentinel IN
                                   /\ g.mtc[t].made /\ s \in ShapeIds
                                   /\ g.shape[s].live /\ Face(g.shape[s]) = Face(dict_sentinel(t)),
           \A s \in ShapeIds : g.shape[s].live => h.shape[s].live \/ Node(h, g.shape[s]),
           \A p \in ShapeIds : \A k \in Keys : LET c == g.shape[p].by_prop[k] IN c # NoShape =>
               (c = h.shape[p].by_prop[k] /\ Face(g.shape[p]) = Face(h.shape[p]))
                   \/ PropEdge(g, p, k, c),
           \A p \in ShapeIds : \A m \in Metatables : LET c == g.shape[p].by_mt[m] IN c # NoShape =>
               (c = h.shape[p].by_mt[m] /\ Face(g.shape[p]) = Face(h.shape[p]))
                   \/ MtEdge(g, p, m, c)
    PROVE  TreeInv(g)
<1>1. \A s \in ShapeIds : h.shape[s].live =>
          /\ g.shape[s].live /\ Face(g.shape[s]) = Face(h.shape[s])
          /\ g.shape[s].descriptors = h.shape[s].descriptors
          /\ g.shape[s].is_dict = h.shape[s].is_dict
          /\ g.shape[s].mt_cache = h.shape[s].mt_cache
  BY SameFace DEF Extends
<1>2. EdgesInv(g)
  <2>1. ASSUME NEW p \in ShapeIds, NEW k \in Keys, NEW c, c = g.shape[p].by_prop[k],
               c # NoShape, c = h.shape[p].by_prop[k], Face(g.shape[p]) = Face(h.shape[p])
        PROVE  PropEdge(g, p, k, c)
    <3>1. c \in ShapeIds /\ PropEdge(h, p, k, c)
      BY <2>1, HeapParts DEF TreeInv, EdgesInv
    <3>2. g.shape[p].descriptors = h.shape[p].descriptors /\ g.shape[p].mt_cache = h.shape[p].mt_cache
      BY <2>1, SameFace
    <3> QED
      BY <1>1, <3>1, <3>2 DEF PropEdge
  <2>2. ASSUME NEW p \in ShapeIds, NEW m \in Metatables, NEW c, c = g.shape[p].by_mt[m],
               c # NoShape, c = h.shape[p].by_mt[m], Face(g.shape[p]) = Face(h.shape[p])
        PROVE  MtEdge(g, p, m, c)
    <3>1. c \in ShapeIds /\ MtEdge(h, p, m, c)
      BY <2>2, HeapParts DEF TreeInv, EdgesInv
    <3>2. g.shape[p].descriptors = h.shape[p].descriptors
      BY <2>2, SameFace
    <3> QED
      BY <1>1, <3>1, <3>2 DEF MtEdge
  <2> QED
    BY <2>1, <2>2 DEF EdgesInv
<1>3. NodesInv(g)
  <2>1. ASSUME NEW s \in ShapeIds, g.shape[s].live PROVE Node(g, g.shape[s])
    <3>1. CASE h.shape[s].live
      <4>1. Node(h, h.shape[s])
        BY <3>1 DEF TreeInv, NodesInv
      <4>2. h.shape[s].mt_cache \in Metatables
        BY HeapParts
      <4> QED
        BY <1>1, <3>1, <4>1, <4>2 DEF Node, Metatables
    <3>2. CASE Node(h, g.shape[s])
      <4>1. g.shape[s].mt_cache \in Metatables
        BY HeapParts
      <4> QED
        BY <3>2, <4>1 DEF Node, Metatables
    <3> QED
      BY <2>1, <3>1, <3>2
  <2>2. empty_shape \in ShapeIds /\ empty_dict_sentinel \in ShapeIds
    BY HeapParts
  <2> QED
    BY <1>1, <2>1, <2>2 DEF TreeInv, NodesInv
<1>4. CachesInv(g)
  <2> SUFFICES ASSUME NEW t \in Tables
               PROVE  LET s == g.mtc[t].dict_sentinel IN
                      /\ ~g.mtc[t].made => s = NoShape
                      /\ s # NoShape =>
                            g.shape[s].live /\ Face(g.shape[s]) = Face(dict_sentinel(t))
    BY DEF CachesInv
  <2>1. CASE g.mtc[t].dict_sentinel = h.mtc[t].dict_sentinel
    BY <1>1, <2>1, HeapParts DEF TreeInv, CachesInv
  <2>2. CASE g.mtc[t].dict_sentinel # h.mtc[t].dict_sentinel
    BY <2>2
  <2> QED
    BY <2>1, <2>2
<1> QED
  BY <1>2, <1>3, <1>4 DEF TreeInv

\* Writing shape s changes that shape only.
LEMMA PutShape ==
    ASSUME NEW h, HeapTypes(h), NEW s \in ShapeIds, NEW sh \in ShapeData,
           Len(sh.descriptors) <= MaxProps
    PROVE  LET g == [h EXCEPT !.shape[s] = sh] IN
           /\ HeapTypes(g) /\ SameTables(h, g) /\ g.mtc = h.mtc /\ g.table = h.table
           /\ \A p \in ShapeIds : g.shape[p] = IF p = s THEN sh ELSE h.shape[p]
<1> DEFINE g == [h EXCEPT !.shape[s] = sh]
<1>1. /\ g.mtc = h.mtc /\ g.table = h.table /\ g.shape = [h.shape EXCEPT ![s] = sh]
      /\ h.shape \in [ShapeIds -> ShapeData]
      /\ g \in [shape : [ShapeIds -> ShapeData], table : [Tables -> TableState],
                mtc : [Tables -> MtCacheData]]
  BY DEF HeapTypes
<1>2. \A p \in ShapeIds : g.shape[p] = IF p = s THEN sh ELSE h.shape[p]
  BY <1>1
<1>3. HeapTypes(g)
  BY <1>1, <1>2 DEF HeapTypes
<1> QED
  BY <1>1, <1>2, <1>3 DEF SameTables

\* Gc::new of a sound shape, to which no edge leads yet.
LEMMA NewNode ==
    ASSUME NEW h, HeapTypes(h), TreeInv(h), Free(h) # {},
           NEW sh \in ShapeData, sh.live, Len(sh.descriptors) <= MaxProps, Node(h, sh),
           \A k \in Keys : sh.by_prop[k] = NoShape,
           \A m \in Metatables : sh.by_mt[m] = NoShape
    PROVE  LET r == New(h, sh) IN
           /\ HeapTypes(r.h) /\ TreeInv(r.h) /\ Extends(h, r.h) /\ SameTables(h, r.h)
           /\ r.h.mtc = h.mtc /\ r.s \in ShapeIds /\ ~h.shape[r.s].live
           /\ \A p \in ShapeIds : r.h.shape[p] = IF p = r.s THEN sh ELSE h.shape[p]
<1> DEFINE s == Min(Free(h))
           g == [h EXCEPT !.shape[s] = sh]
<1>1. New(h, sh).h = g /\ New(h, sh).s = s
  BY DEF New, To
<1>2. s \in ShapeIds /\ ~h.shape[s].live
  BY FreeShape
<1> HIDE DEF s
<1>3. /\ HeapTypes(g) /\ SameTables(h, g) /\ g.mtc = h.mtc
      /\ \A p \in ShapeIds : g.shape[p] = IF p = s THEN sh ELSE h.shape[p]
  BY <1>2, PutShape
<1> HIDE DEF g
<1>4. Extends(h, g)
  BY <1>2, <1>3 DEF Extends
<1>5. TreeInv(g)
  BY <1>2, <1>3, <1>4, Grow
<1> QED
  BY <1>1, <1>2, <1>3, <1>4, <1>5

\* An edge for a key, to a shape with that key more.
LEMMA NewPropEdge ==
    ASSUME NEW h, HeapTypes(h), TreeInv(h),
           NEW p \in ShapeIds, NEW c \in ShapeIds, NEW k \in Keys, PropEdge(h, p, k, c)
    PROVE  LET g == [h EXCEPT !.shape[p].by_prop[k] = c] IN
           /\ HeapTypes(g) /\ TreeInv(g) /\ Extends(h, g) /\ SameTables(h, g) /\ g.mtc = h.mtc
           /\ \A s \in ShapeIds : g.shape[s].live = h.shape[s].live
                                  /\ Face(g.shape[s]) = Face(h.shape[s])
<1> DEFINE sh == [h.shape[p] EXCEPT !.by_prop = [h.shape[p].by_prop EXCEPT ![k] = c]]
           g == [h EXCEPT !.shape[p] = sh]
<1>1. [h EXCEPT !.shape[p].by_prop[k] = c] = g
  OBVIOUS
<1>2. /\ sh \in ShapeData /\ sh.live = h.shape[p].live
      /\ sh.descriptors = h.shape[p].descriptors /\ Face(sh) = Face(h.shape[p])
      /\ sh.by_mt = h.shape[p].by_mt
      /\ \A j \in Keys : sh.by_prop[j] = IF j = k THEN c ELSE h.shape[p].by_prop[j]
  BY HeapParts DEF ShapeData, Face
<1> HIDE DEF sh
<1>3. Len(sh.descriptors) <= MaxProps
  BY <1>2 DEF HeapTypes
<1>4. /\ HeapTypes(g) /\ SameTables(h, g) /\ g.mtc = h.mtc
      /\ \A q \in ShapeIds : g.shape[q] = IF q = p THEN sh ELSE h.shape[q]
  BY <1>2, <1>3, PutShape
<1> HIDE DEF g
<1>5. \A s \in ShapeIds : /\ g.shape[s].live = h.shape[s].live
                          /\ Face(g.shape[s]) = Face(h.shape[s])
                          /\ g.shape[s].by_mt = h.shape[s].by_mt
  BY <1>2, <1>4
<1>6. Extends(h, g)
  BY <1>5 DEF Extends
<1>7. PropEdge(g, p, k, c)
  BY <1>5, SameFace DEF PropEdge
<1>8. ASSUME NEW q \in ShapeIds, NEW j \in Keys, g.shape[q].by_prop[j] # h.shape[q].by_prop[j]
      PROVE  PropEdge(g, q, j, g.shape[q].by_prop[j])
  BY <1>2, <1>4, <1>7, <1>8
<1>9. TreeInv(g)
  BY <1>4, <1>5, <1>6, <1>8, Grow
<1> QED
  BY <1>1, <1>4, <1>5, <1>6, <1>9

\* An edge for a metatable, to a shape with that metatable.
LEMMA NewMtEdge ==
    ASSUME NEW h, HeapTypes(h), TreeInv(h),
           NEW p \in ShapeIds, NEW c \in ShapeIds, NEW m \in Metatables, MtEdge(h, p, m, c)
    PROVE  LET g == [h EXCEPT !.shape[p].by_mt[m] = c] IN
           /\ HeapTypes(g) /\ TreeInv(g) /\ Extends(h, g) /\ SameTables(h, g) /\ g.mtc = h.mtc
           /\ \A s \in ShapeIds : g.shape[s].live = h.shape[s].live
                                  /\ Face(g.shape[s]) = Face(h.shape[s])
<1> DEFINE sh == [h.shape[p] EXCEPT !.by_mt = [h.shape[p].by_mt EXCEPT ![m] = c]]
           g == [h EXCEPT !.shape[p] = sh]
<1>1. [h EXCEPT !.shape[p].by_mt[m] = c] = g
  OBVIOUS
<1>2. /\ sh \in ShapeData /\ sh.live = h.shape[p].live
      /\ sh.descriptors = h.shape[p].descriptors /\ Face(sh) = Face(h.shape[p])
      /\ sh.by_prop = h.shape[p].by_prop
      /\ \A j \in Metatables : sh.by_mt[j] = IF j = m THEN c ELSE h.shape[p].by_mt[j]
  BY HeapParts DEF ShapeData, Face
<1> HIDE DEF sh
<1>3. Len(sh.descriptors) <= MaxProps
  BY <1>2 DEF HeapTypes
<1>4. /\ HeapTypes(g) /\ SameTables(h, g) /\ g.mtc = h.mtc
      /\ \A q \in ShapeIds : g.shape[q] = IF q = p THEN sh ELSE h.shape[q]
  BY <1>2, <1>3, PutShape
<1> HIDE DEF g
<1>5. \A s \in ShapeIds : /\ g.shape[s].live = h.shape[s].live
                          /\ Face(g.shape[s]) = Face(h.shape[s])
                          /\ g.shape[s].by_prop = h.shape[s].by_prop
  BY <1>2, <1>4
<1>6. Extends(h, g)
  BY <1>5 DEF Extends
<1>7. MtEdge(g, p, m, c)
  BY <1>5, SameFace DEF MtEdge
<1>8. ASSUME NEW q \in ShapeIds, NEW j \in Metatables, g.shape[q].by_mt[j] # h.shape[q].by_mt[j]
      PROVE  MtEdge(g, q, j, g.shape[q].by_mt[j])
  BY <1>2, <1>4, <1>7, <1>8
<1>9. TreeInv(g)
  BY <1>4, <1>5, <1>6, <1>8, Grow
<1> QED
  BY <1>1, <1>4, <1>5, <1>6, <1>9

\* Adding a key leads to a shape with that key last.
LEMMA AddProp ==
    ASSUME NEW h, HeapTypes(h), TreeInv(h), Free(h) # {},
           NEW p \in ShapeIds, h.shape[p].live, ~h.shape[p].is_dict,
           Len(h.shape[p].descriptors) < MaxProps,
           NEW k \in Keys, find_slot(h.shape[p], k) = ABSENT_SLOT
    PROVE  LET r == transition_add_prop(h, p, k) IN
           /\ HeapTypes(r.h) /\ TreeInv(r.h) /\ Extends(h, r.h) /\ SameTables(h, r.h)
           /\ r.h.mtc = h.mtc /\ r.s \in ShapeIds /\ PropEdge(r.h, p, k, r.s)
<1> DEFINE r == transition_add_prop(h, p, k)
<1>1. CASE h.shape[p].by_prop[k] # NoShape
  <2>1. r.h = h /\ r.s = h.shape[p].by_prop[k]
    BY <1>1 DEF transition_add_prop, To
  <2>2. r.s \in ShapeIds /\ PropEdge(h, p, k, r.s)
    BY <1>1, <2>1, HeapParts DEF TreeInv, EdgesInv
  <2> QED
    BY <2>1, <2>2 DEF Extends, SameTables
<1>2. CASE h.shape[p].by_prop[k] = NoShape
  <2> DEFINE sh == [Unused EXCEPT
                       !.live = TRUE, !.parent = p, !.last_key = k,
                       !.mt_cache = h.shape[p].mt_cache,
                       !.descriptors = Append(h.shape[p].descriptors, k)]
             n == New(h, sh)
             g == [n.h EXCEPT !.shape[p].by_prop[k] = n.s]
  <2>1. r.h = g /\ r.s = n.s
    BY <1>2 DEF transition_add_prop, To
  <2>2. /\ sh.live /\ sh.mt_cache = h.shape[p].mt_cache /\ ~sh.is_dict
        /\ sh.descriptors = Append(h.shape[p].descriptors, k)
        /\ \A j \in Keys : sh.by_prop[j] = NoShape
        /\ \A m \in Metatables : sh.by_mt[m] = NoShape
    BY DEF Unused
  <2>3. /\ sh.descriptors \in Seq(Keys) /\ IsInjective(sh.descriptors)
        /\ Len(sh.descriptors) = Len(h.shape[p].descriptors) + 1
        /\ Len(h.shape[p].descriptors) \in Nat
    <3>1. h.shape[p].descriptors \in Seq(Keys) /\ IsInjective(h.shape[p].descriptors)
      BY HeapParts DEF TreeInv, NodesInv, Node
    <3> QED
      BY <2>2, <3>1, AppendedSlot, LenProperties
  <2>4. Len(sh.descriptors) <= MaxProps
    BY <2>3, BoundsAssumption
  <2>5. sh \in ShapeData
    BY <2>2, <2>3, ShapeTypes, HeapParts DEF ShapeData
  <2>6. Node(h, sh)
    BY <2>2, <2>3 DEF Node, TreeInv, NodesInv
  <2> HIDE DEF sh
  <2>7. /\ HeapTypes(n.h) /\ TreeInv(n.h) /\ Extends(h, n.h) /\ SameTables(h, n.h)
        /\ n.h.mtc = h.mtc /\ n.s \in ShapeIds /\ ~h.shape[n.s].live
        /\ \A q \in ShapeIds : n.h.shape[q] = IF q = n.s THEN sh ELSE h.shape[q]
    BY <2>2, <2>4, <2>5, <2>6, NewNode
  <2> HIDE DEF n
  <2>8. PropEdge(n.h, p, k, n.s)
    BY <2>2, <2>7 DEF PropEdge
  <2>9. /\ HeapTypes(g) /\ TreeInv(g) /\ Extends(n.h, g) /\ SameTables(n.h, g) /\ g.mtc = n.h.mtc
        /\ \A s \in ShapeIds : g.shape[s].live = n.h.shape[s].live
                               /\ Face(g.shape[s]) = Face(n.h.shape[s])
    <3> HIDE DEF r
    <3> QED
      BY <2>7, <2>8, NewPropEdge, SMTT(60)
  <2> HIDE DEF g
  <2>10. PropEdge(g, p, k, n.s)
    <3>1. /\ g.shape[n.s].live = n.h.shape[n.s].live
          /\ Face(g.shape[n.s]) = Face(n.h.shape[n.s]) /\ Face(g.shape[p]) = Face(n.h.shape[p])
      BY <2>7, <2>9
    <3>2. /\ g.shape[n.s].descriptors = n.h.shape[n.s].descriptors
          /\ g.shape[n.s].is_dict = n.h.shape[n.s].is_dict
          /\ g.shape[n.s].mt_cache = n.h.shape[n.s].mt_cache
          /\ g.shape[p].descriptors = n.h.shape[p].descriptors
          /\ g.shape[p].mt_cache = n.h.shape[p].mt_cache
      BY <3>1 DEF Face
    <3> QED
      BY <2>8, <3>1, <3>2 DEF PropEdge
  <2>11. Extends(h, g) /\ SameTables(h, g)
    BY <2>7, <2>9, ExtendsTwice DEF SameTables
  <2> QED
    BY <2>1, <2>7, <2>9, <2>10, <2>11
<1> QED
  BY <1>1, <1>2

\* The dictionary shape of a metatable is made once.
LEMMA Sentinel ==
    ASSUME NEW h, HeapTypes(h), TreeInv(h), Free(h) # {},
           NEW mt \in Metatables, mt # None => h.mtc[mt].made
    PROVE  LET r == ensure_dict_sentinel(h, mt) IN
           /\ HeapTypes(r.h) /\ TreeInv(r.h) /\ Extends(h, r.h) /\ SameTables(h, r.h)
           /\ r.s \in ShapeIds /\ r.h.shape[r.s].live
           /\ Face(r.h.shape[r.s]) = Face(dict_sentinel(mt))
<1> DEFINE r == ensure_dict_sentinel(h, mt)
<1>1. CASE mt = None
  <2>1. r.h = h /\ r.s = empty_dict_sentinel
    BY <1>1 DEF ensure_dict_sentinel, To
  <2> QED
    BY <1>1, <2>1, HeapParts DEF TreeInv, NodesInv, Extends, SameTables
<1>2. CASE mt # None /\ h.mtc[mt].dict_sentinel # NoShape
  <2>1. r.h = h /\ r.s = h.mtc[mt].dict_sentinel /\ mt \in Tables
    BY <1>2 DEF ensure_dict_sentinel, To, Metatables
  <2> QED
    BY <1>2, <2>1, HeapParts DEF TreeInv, CachesInv, Extends, SameTables
<1>3. CASE mt # None /\ h.mtc[mt].dict_sentinel = NoShape
  <2> DEFINE sh == dict_sentinel(mt)
             n == New(h, sh)
             mc == [n.h.mtc[mt] EXCEPT !.dict_sentinel = n.s]
             g == [n.h EXCEPT !.mtc[mt].dict_sentinel = n.s]
  <2>1. r.h = g /\ r.s = n.s /\ mt \in Tables
    BY <1>3 DEF ensure_dict_sentinel, To, Metatables
  <2>2. /\ sh.live /\ sh.mt_cache = mt /\ sh.is_dict /\ sh.descriptors = <<>>
        /\ \A j \in Keys : sh.by_prop[j] = NoShape
        /\ \A m \in Metatables : sh.by_mt[m] = NoShape
    BY DEF dict_sentinel, Unused
  <2>3. sh \in ShapeData /\ Len(sh.descriptors) <= MaxProps /\ Node(h, sh)
    BY <2>2, ShapeTypes, BoundsAssumption DEF Node
  <2> HIDE DEF sh
  <2>4. /\ HeapTypes(n.h) /\ TreeInv(n.h) /\ Extends(h, n.h) /\ SameTables(h, n.h)
        /\ n.h.mtc = h.mtc /\ n.s \in ShapeIds
        /\ \A q \in ShapeIds : n.h.shape[q] = IF q = n.s THEN sh ELSE h.shape[q]
    BY <2>2, <2>3, NewNode
  <2> HIDE DEF n
  <2>5. /\ g = [n.h EXCEPT !.mtc = [n.h.mtc EXCEPT ![mt] = mc]]
        /\ mc \in MtCacheData /\ mc.made = h.mtc[mt].made /\ mc.bits = h.mtc[mt].bits
        /\ mc.dict_sentinel = n.s
    BY <2>1, <2>4, HeapParts DEF MtCacheData
  <2> HIDE DEF mc
  <2>6. /\ HeapTypes(g) /\ g.shape = n.h.shape /\ g.table = n.h.table
        /\ \A t \in Tables : g.mtc[t] = IF t = mt THEN mc ELSE h.mtc[t]
    <3>1. /\ n.h \in [shape : [ShapeIds -> ShapeData], table : [Tables -> TableState],
                        mtc : [Tables -> MtCacheData]]
          /\ n.h.mtc \in [Tables -> MtCacheData]
      BY <2>4 DEF HeapTypes
    <3>2. [n.h.mtc EXCEPT ![mt] = mc] \in [Tables -> MtCacheData]
      BY <2>5, <3>1
    <3>3. /\ g \in [shape : [ShapeIds -> ShapeData], table : [Tables -> TableState],
                     mtc : [Tables -> MtCacheData]]
          /\ g.shape = n.h.shape /\ g.table = n.h.table /\ g.mtc = [n.h.mtc EXCEPT ![mt] = mc]
      BY <2>5, <3>1, <3>2
    <3>4. \A t \in Tables : g.mtc[t] = IF t = mt THEN mc ELSE h.mtc[t]
      BY <2>1, <2>4, <3>1, <3>3
    <3> HIDE DEF g
    <3> QED
      BY <2>4, <3>3, <3>4 DEF HeapTypes
  <2> HIDE DEF g
  <2>7. Extends(n.h, g) /\ Extends(h, g) /\ SameTables(h, g)
    BY <2>4, <2>5, <2>6 DEF Extends, SameTables
  <2>8. g.shape[n.s].live /\ Face(g.shape[n.s]) = Face(dict_sentinel(mt))
    BY <2>2, <2>4, <2>6 DEF sh
  <2>9. TreeInv(g)
    <3>1. \A s \in ShapeIds : g.shape[s] = n.h.shape[s]
      BY <2>6
    <3>2. \A t \in Tables :
              /\ g.mtc[t].made = n.h.mtc[t].made
              /\ g.mtc[t].dict_sentinel # n.h.mtc[t].dict_sentinel =>
                    t = mt /\ g.mtc[t].dict_sentinel = n.s /\ g.mtc[t].made
      BY <1>3, <2>1, <2>4, <2>5, <2>6
    <3>3. \A s \in ShapeIds : g.shape[s].live => n.h.shape[s].live
      BY <3>1
    <3>4. \A p \in ShapeIds : /\ g.shape[p].by_prop = n.h.shape[p].by_prop
                              /\ g.shape[p].by_mt = n.h.shape[p].by_mt
                              /\ Face(g.shape[p]) = Face(n.h.shape[p])
      BY <3>1
    <3> QED
      BY <2>4, <2>6, <2>7, <2>8, <3>2, <3>3, <3>4, Grow
  <2> QED
    BY <2>1, <2>4, <2>6, <2>7, <2>8, <2>9
<1> QED
  BY <1>1, <1>2, <1>3

\* Changing the metatable leads to a shape of the same layout.
LEMMA SetMt ==
    ASSUME NEW h, HeapTypes(h), TreeInv(h), Free(h) # {},
           NEW p \in ShapeIds, h.shape[p].live,
           NEW mt \in Metatables, mt # None => h.mtc[mt].made
    PROVE  LET r == transition_set_metatable(h, p, mt) IN
           /\ HeapTypes(r.h) /\ TreeInv(r.h) /\ Extends(h, r.h) /\ SameTables(h, r.h)
           /\ r.s \in ShapeIds /\ r.h.shape[r.s].live
           /\ r.h.shape[r.s].descriptors = h.shape[p].descriptors
           /\ r.h.shape[r.s].is_dict = h.shape[p].is_dict
           /\ r.h.shape[r.s].mt_cache = mt
<1> DEFINE r == transition_set_metatable(h, p, mt)
<1>0. Node(h, h.shape[p])
  BY DEF TreeInv, NodesInv
<1>1. CASE h.shape[p].is_dict
  <2>1. r = ensure_dict_sentinel(h, mt)
    BY <1>1 DEF transition_set_metatable
  <2>2. h.shape[p].descriptors = <<>>
    BY <1>0, <1>1 DEF Node
  <2>3. /\ dict_sentinel(mt).descriptors = <<>> /\ dict_sentinel(mt).is_dict
        /\ dict_sentinel(mt).mt_cache = mt
    BY DEF dict_sentinel, Unused
  <2>4. /\ HeapTypes(r.h) /\ TreeInv(r.h) /\ Extends(h, r.h) /\ SameTables(h, r.h)
        /\ r.s \in ShapeIds /\ r.h.shape[r.s].live
        /\ Face(r.h.shape[r.s]) = Face(dict_sentinel(mt))
    BY <2>1, Sentinel
  <2> HIDE DEF r
  <2>5. h.shape[p].is_dict = TRUE /\ dict_sentinel(mt).is_dict = TRUE
    BY <1>1, HeapParts DEF ShapeData, dict_sentinel, Unused
  <2> QED
    BY <2>2, <2>3, <2>4, <2>5, SameFace DEF r
<1>2. CASE ~h.shape[p].is_dict /\ h.shape[p].by_mt[mt] # NoShape
  <2>1. r.h = h /\ r.s = h.shape[p].by_mt[mt]
    BY <1>2 DEF transition_set_metatable, To
  <2>2. r.s \in ShapeIds /\ MtEdge(h, p, mt, r.s)
    BY <1>2, <2>1, HeapParts DEF TreeInv, EdgesInv
  <2>3. h.shape[p].is_dict \in BOOLEAN /\ h.shape[r.s].is_dict \in BOOLEAN
    BY <2>2, HeapParts DEF ShapeData
  <2>4. h.shape[r.s].is_dict = h.shape[p].is_dict
    BY <1>2, <2>2, <2>3 DEF MtEdge
  <2> HIDE DEF r
  <2> QED
    BY <2>1, <2>2, <2>4 DEF MtEdge, Extends, SameTables, r
<1>3. CASE ~h.shape[p].is_dict /\ h.shape[p].by_mt[mt] = NoShape
  <2> DEFINE sh == [Unused EXCEPT
                       !.live = TRUE, !.parent = p, !.mt_cache = mt,
                       !.descriptors = h.shape[p].descriptors]
             n == New(h, sh)
             g == [n.h EXCEPT !.shape[p].by_mt[mt] = n.s]
  <2>1. r.h = g /\ r.s = n.s
    BY <1>3 DEF transition_set_metatable, To
  <2>2. /\ sh.live /\ sh.mt_cache = mt /\ ~sh.is_dict
        /\ sh.descriptors = h.shape[p].descriptors
        /\ \A j \in Keys : sh.by_prop[j] = NoShape
        /\ \A m \in Metatables : sh.by_mt[m] = NoShape
    BY DEF Unused
  <2>3. sh \in ShapeData
    <3>1. h.shape[p].descriptors \in Seq(Keys) /\ p \in ShapeIds \cup {NoShape}
      BY HeapParts
    <3> QED
      BY <3>1, ShapeTypes DEF ShapeData
  <2>4. Node(h, sh) /\ Len(sh.descriptors) <= MaxProps
    BY <1>0, <2>2 DEF Node, HeapTypes
  <2> HIDE DEF sh
  <2>5. /\ HeapTypes(n.h) /\ TreeInv(n.h) /\ Extends(h, n.h) /\ SameTables(h, n.h)
        /\ n.s \in ShapeIds /\ ~h.shape[n.s].live
        /\ \A q \in ShapeIds : n.h.shape[q] = IF q = n.s THEN sh ELSE h.shape[q]
    BY <2>2, <2>3, <2>4, NewNode
  <2> HIDE DEF n
  <2>6. MtEdge(n.h, p, mt, n.s)
    BY <2>2, <2>5 DEF MtEdge
  <2>7. /\ HeapTypes(g) /\ TreeInv(g) /\ Extends(n.h, g) /\ SameTables(n.h, g)
        /\ \A s \in ShapeIds : g.shape[s].live = n.h.shape[s].live
                               /\ Face(g.shape[s]) = Face(n.h.shape[s])
    BY <2>5, <2>6, NewMtEdge
  <2> HIDE DEF g
  <2>8. Extends(h, g) /\ SameTables(h, g)
    BY <2>5, <2>7, ExtendsTwice DEF SameTables
  <2>9. /\ g.shape[n.s].live /\ ~g.shape[n.s].is_dict /\ g.shape[n.s].mt_cache = mt
        /\ g.shape[n.s].descriptors = h.shape[p].descriptors
    BY <2>2, <2>5, <2>7, SameFace
  <2>10. h.shape[p].is_dict = FALSE /\ g.shape[n.s].is_dict = FALSE
    <3>1. h.shape[p].is_dict \in BOOLEAN /\ g.shape[n.s].is_dict \in BOOLEAN
      BY <2>5, <2>7, HeapParts DEF ShapeData
    <3> QED
      BY <1>3, <2>9, <3>1
  <2> QED
    BY <2>1, <2>5, <2>7, <2>8, <2>9, <2>10
<1> QED
  BY <1>1, <1>2, <1>3
-----------------------------------------------------------------------------
(* Stores                                                                  *)

\* Writing the state of table t changes that table only.
\* x fits the shape it names.
Puttable(h, x) ==
    /\ HeapTypes(h) /\ TreeInv(h) /\ TablesInv(h)
    /\ x \in TableState /\ Len(x.properties) <= MaxProps
    /\ LET sh == h.shape[x.shape] IN
       /\ sh.live /\ x.is_dict = sh.is_dict
       /\ Len(x.properties) = Len(sh.descriptors) /\ x.metatable = sh.mt_cache

\* g is h with x for the table t.
IsPut(h, g, t, x) ==
    /\ HeapTypes(g) /\ TreeInv(g) /\ TablesInv(g) /\ Extends(h, g)
    /\ g.shape = h.shape /\ g.mtc = h.mtc
    /\ \A q \in Tables : g.table[q] = IF q = t THEN x ELSE h.table[q]
    /\ \A q \in Tables \ {t} : \A j : raw_get(g, q, j) = raw_get(h, q, j)

\* Replacing a table by one with as many slots as its shape says is a put.
LEMMA PutTable ==
    ASSUME NEW h, NEW t \in Tables, NEW x, Puttable(h, x)
    PROVE  IsPut(h, [h EXCEPT !.table[t] = x], t, x)
<1>0. /\ HeapTypes(h) /\ TreeInv(h) /\ TablesInv(h)
      /\ x \in TableState /\ Len(x.properties) <= MaxProps
      /\ LET sh == h.shape[x.shape] IN
         /\ sh.live /\ x.is_dict = sh.is_dict
         /\ Len(x.properties) = Len(sh.descriptors) /\ x.metatable = sh.mt_cache
  BY DEF Puttable
<1> DEFINE g == [h EXCEPT !.table[t] = x]
<1>1. /\ g.mtc = h.mtc /\ g.shape = h.shape /\ g.table = [h.table EXCEPT ![t] = x]
      /\ h.table \in [Tables -> TableState]
      /\ g \in [shape : [ShapeIds -> ShapeData], table : [Tables -> TableState],
                mtc : [Tables -> MtCacheData]]
  BY <1>0 DEF HeapTypes
<1>2. \A q \in Tables : g.table[q] = IF q = t THEN x ELSE h.table[q]
  BY <1>1
<1> HIDE DEF g
<1>3. HeapTypes(g)
  BY <1>0, <1>1, <1>2 DEF HeapTypes
<1>4. Extends(h, g)
  BY <1>1 DEF Extends
<1>5. TreeInv(g)
  <2>1. EdgesInv(g)
    <3>1. g.shape = h.shape /\ EdgesInv(h)
      BY <1>0, <1>1 DEF TreeInv
    <3> QED
      BY <3>1, SameEdges
  <2>2. NodesInv(g) /\ CachesInv(g)
    BY <1>0, <1>1 DEF TreeInv, NodesInv, Node, CachesInv
  <2> QED
    BY <2>1, <2>2 DEF TreeInv
<1>6. TablesInv(g)
  BY <1>0, <1>1, <1>2 DEF TablesInv
<1>7. \A q \in Tables \ {t} : \A j : raw_get(g, q, j) = raw_get(h, q, j)
  BY <1>1, <1>2 DEF raw_get
<1> QED
  BY <1>1, <1>2, <1>3, <1>4, <1>5, <1>6, <1>7 DEF g, IsPut

\* A store is mirrored in the metamethod bits of its table.
LEMMA Mirror ==
    ASSUME NEW h, NEW g, NEW t \in Tables, NEW k \in Keys, NEW v \in Values,
           HeapTypes(h), BitsInv(h), HeapTypes(g), TreeInv(g), TablesInv(g),
           Extends(h, g), Stored(h, g, t, k, v),
           \A q \in Tables : g.mtc[q].made = h.mtc[q].made /\ g.mtc[q].bits = h.mtc[q].bits
    PROVE  LET f == maybe_update_mt_bit(g, t, k, v) IN
           /\ HeapTypes(f) /\ HeapInv(f) /\ Extends(h, f) /\ Stored(h, f, t, k, v)
<1> DEFINE f == maybe_update_mt_bit(g, t, k, v)
<1>1. /\ HeapTypes(f) /\ f.shape = g.shape /\ f.table = g.table
      /\ \A q \in Tables :
            /\ f.mtc[q].made = g.mtc[q].made /\ f.mtc[q].dict_sentinel = g.mtc[q].dict_sentinel
            /\ f.mtc[q].bits = IF q = t /\ g.mtc[t].made /\ k \in Metamethods
                               THEN IF v = Nil THEN g.mtc[t].bits \ {k} ELSE g.mtc[t].bits \cup {k}
                               ELSE g.mtc[q].bits
  <2>1. CASE ~(g.mtc[t].made /\ k \in Metamethods)
    <3>1. f = g
      BY <2>1 DEF maybe_update_mt_bit
    <3> HIDE DEF f
    <3> QED
      BY <2>1, <3>1
  <2>2. CASE g.mtc[t].made /\ k \in Metamethods
    <3> DEFINE b == IF v = Nil THEN g.mtc[t].bits \ {k} ELSE g.mtc[t].bits \cup {k}
               mc == [g.mtc[t] EXCEPT !.bits = b]
    <3>1. f = [g EXCEPT !.mtc = [g.mtc EXCEPT ![t] = mc]]
      BY <2>2 DEF maybe_update_mt_bit
    <3>2. b \in SUBSET Metamethods
      BY <2>2, HeapParts
    <3> HIDE DEF b, f
    <3>3. /\ mc \in MtCacheData /\ mc.made = g.mtc[t].made /\ mc.bits = b
          /\ mc.dict_sentinel = g.mtc[t].dict_sentinel
      <4>1. g.mtc[t] \in MtCacheData
        BY HeapParts
      <4> QED
        BY <3>2, <4>1 DEF MtCacheData
    <3> HIDE DEF mc
    <3>4. /\ g \in [shape : [ShapeIds -> ShapeData], table : [Tables -> TableState],
                    mtc : [Tables -> MtCacheData]]
          /\ g.mtc \in [Tables -> MtCacheData]
      BY DEF HeapTypes
    <3>5. /\ f.shape = g.shape /\ f.table = g.table /\ f.mtc = [g.mtc EXCEPT ![t] = mc]
          /\ f \in [shape : [ShapeIds -> ShapeData], table : [Tables -> TableState],
                    mtc : [Tables -> MtCacheData]]
      BY <3>1, <3>3, <3>4
    <3>6. \A q \in Tables : f.mtc[q] = IF q = t THEN mc ELSE g.mtc[q]
      BY <3>4, <3>5
    <3>7. HeapTypes(f)
      BY <3>5 DEF HeapTypes
    <3> QED
      BY <2>2, <3>3, <3>5, <3>6, <3>7 DEF b
  <2> QED
    BY <2>1, <2>2
<1> HIDE DEF f
<1>2. \A q : \A j : raw_get(f, q, j) = raw_get(g, q, j)
  BY <1>1 DEF raw_get
<1>3. Stored(h, f, t, k, v)
  BY <1>1, <1>2 DEF Stored
<1>4. Extends(h, f)
  BY <1>1 DEF Extends
<1>5. TablesInv(f)
  BY <1>1 DEF TablesInv
<1>6. TreeInv(f)
  <2>1. EdgesInv(f)
    <3>1. f.shape = g.shape /\ EdgesInv(g)
      BY <1>1 DEF TreeInv
    <3> QED
      BY <3>1, SameEdges
  <2>2. NodesInv(f)
    <3>1. \A s \in ShapeIds : g.shape[s].mt_cache \in Metatables
      BY HeapParts
    <3> QED
      BY <1>1, <3>1 DEF TreeInv, NodesInv, Node, Metatables
  <2>3. CachesInv(f)
    BY <1>1 DEF TreeInv, CachesInv
  <2> QED
    BY <2>1, <2>2, <2>3 DEF TreeInv
<1>7. BitsInv(f)
  <2> SUFFICES ASSUME NEW q \in Tables, f.mtc[q].made
               PROVE  f.mtc[q].bits = {j \in Metamethods : raw_get(f, q, j) # Nil}
    BY DEF BitsInv
  <2>1. \A j \in Metamethods :
            raw_get(f, q, j) = IF q = t /\ j = k THEN v ELSE raw_get(h, q, j)
    BY <1>3, KeysAssumption DEF Stored
  <2>2. g.mtc[q].bits = {j \in Metamethods : raw_get(h, q, j) # Nil} /\ g.mtc[q].made
    BY <1>1 DEF BitsInv
  <2> QED
    BY <1>1, <2>1, <2>2
<1> QED
  BY <1>1, <1>3, <1>4, <1>5, <1>6, <1>7 DEF HeapInv, f

\* A store into a table in dictionary mode.
LEMMA DictStore ==
    ASSUME NEW h, NEW t \in Tables, NEW k \in Keys, NEW v \in Values,
           HeapTypes(h), HeapInv(h), h.table[t].is_dict
    PROVE  LET f == set_string_key_dict(h, t, k, v) IN
           HeapTypes(f) /\ HeapInv(f) /\ Extends(h, f) /\ Stored(h, f, t, k, v)
<1> DEFINE x == [h.table[t] EXCEPT !.dict = [h.table[t].dict EXCEPT ![k] = v]]
           g == [h EXCEPT !.table[t] = x]
<1>1. set_string_key_dict(h, t, k, v) = maybe_update_mt_bit(g, t, k, v)
  BY DEF set_string_key_dict
<1>2. /\ x \in TableState /\ x.shape = h.table[t].shape /\ x.is_dict = h.table[t].is_dict
      /\ x.properties = h.table[t].properties /\ x.metatable = h.table[t].metatable
      /\ \A j \in Keys : x.dict[j] = IF j = k THEN v ELSE h.table[t].dict[j]
  <2>1. h.table[t] \in TableState /\ h.table[t].dict \in [Keys -> Values]
    BY HeapParts
  <2>2. [h.table[t].dict EXCEPT ![k] = v] \in [Keys -> Values]
    BY <2>1
  <2>3. x \in TableState
    BY <2>1, <2>2 DEF TableState
  <2> QED
    BY <2>1, <2>3 DEF TableState
<1> HIDE DEF x
<1>3. /\ Len(x.properties) <= MaxProps
      /\ LET sh == h.shape[x.shape] IN
         /\ sh.live /\ x.is_dict = sh.is_dict
         /\ Len(x.properties) = Len(sh.descriptors) /\ x.metatable = sh.mt_cache
  BY <1>2 DEF HeapTypes, HeapInv, TablesInv
<1>4. /\ HeapTypes(g) /\ TreeInv(g) /\ TablesInv(g) /\ Extends(h, g)
      /\ g.shape = h.shape /\ g.mtc = h.mtc
      /\ \A q \in Tables : g.table[q] = IF q = t THEN x ELSE h.table[q]
      /\ \A q \in Tables \ {t} : \A j : raw_get(g, q, j) = raw_get(h, q, j)
  <2>1. Puttable(h, x)
    BY <1>2, <1>3 DEF Puttable, HeapInv
  <2>2. IsPut(h, g, t, x)
    BY <2>1, PutTable, Zenon
  <2> QED
    BY <2>2 DEF IsPut
<1> HIDE DEF g
<1>5. Stored(h, g, t, k, v)
  <2>1. \A j \in Keys : raw_get(g, t, j) = x.dict[j] /\ raw_get(h, t, j) = h.table[t].dict[j]
    BY <1>2, <1>4 DEF raw_get
  <2> QED
    BY <1>2, <1>4, <2>1 DEF Stored
<1> QED
  BY <1>1, <1>4, <1>5, Mirror DEF HeapInv

\* A store into a slot that exists, through a lookup or a cache.
LEMMA SlotStore ==
    ASSUME NEW h, NEW t \in Tables, NEW k \in Keys, NEW v \in Values,
           HeapTypes(h), HeapInv(h),
           find_slot(h.shape[h.table[t].shape], k) # ABSENT_SLOT
    PROVE  LET slot == find_slot(h.shape[h.table[t].shape], k)
               f == maybe_update_mt_bit([h EXCEPT !.table[t].properties[slot] = v], t, k, v) IN
           HeapTypes(f) /\ HeapInv(f) /\ Extends(h, f) /\ Stored(h, f, t, k, v)
<1> DEFINE sh == h.shape[h.table[t].shape]
           slot == find_slot(sh, k)
           props == h.table[t].properties
           x == [h.table[t] EXCEPT !.properties = [props EXCEPT ![slot] = v]]
           g == [h EXCEPT !.table[t] = x]
<1>1. [h EXCEPT !.table[t].properties[slot] = v] = g
  OBVIOUS
<1>2. /\ sh.live /\ h.table[t].is_dict = sh.is_dict /\ Len(props) = Len(sh.descriptors)
      /\ h.table[t].metatable = sh.mt_cache /\ Node(h, sh)
      /\ sh.descriptors \in Seq(Keys) /\ props \in Seq(Values)
  BY HeapParts DEF HeapInv, TablesInv, TreeInv, NodesInv
<1>3. /\ slot \in DOMAIN sh.descriptors /\ sh.descriptors[slot] = k
      /\ slot \in 1..Len(props) /\ ~h.table[t].is_dict
  <2>1. slot \in DOMAIN sh.descriptors /\ sh.descriptors[slot] = k
    BY <1>2, FindSlot
  <2>2. DOMAIN sh.descriptors = 1..Len(sh.descriptors)
    BY <1>2, LenProperties
  <2>3. sh.descriptors # <<>>
    BY <2>1, EmptySeq
  <2> QED
    BY <1>2, <2>1, <2>2, <2>3 DEF Node
<1>4. \A j \in Keys : j # k => find_slot(sh, j) # slot
  BY <1>2, <1>3, FindSlot
<1>5. \A j \in Keys : find_slot(sh, j) \in 0..Len(props)
  BY <1>2, FindSlot
<1> HIDE DEF slot
<1>6. /\ [props EXCEPT ![slot] = v] \in Seq(Values)
      /\ Len([props EXCEPT ![slot] = v]) = Len(props)
      /\ \A i \in 1..Len(props) :
            [props EXCEPT ![slot] = v][i] = IF i = slot THEN v ELSE props[i]
  BY <1>2, <1>3, ExceptSeq, LenProperties
<1>7. /\ x \in TableState /\ x.shape = h.table[t].shape /\ x.is_dict = h.table[t].is_dict
      /\ x.properties = [props EXCEPT ![slot] = v] /\ x.metatable = h.table[t].metatable
  <2>1. h.table[t] \in TableState
    BY HeapParts
  <2> QED
    BY <1>6, <2>1 DEF TableState
<1> HIDE DEF x
<1>8. /\ Len(x.properties) <= MaxProps
      /\ LET th == h.shape[x.shape] IN
         /\ th.live /\ x.is_dict = th.is_dict
         /\ Len(x.properties) = Len(th.descriptors) /\ x.metatable = th.mt_cache
  BY <1>2, <1>6, <1>7 DEF HeapTypes
<1>9. /\ HeapTypes(g) /\ TreeInv(g) /\ TablesInv(g) /\ Extends(h, g)
      /\ g.shape = h.shape /\ g.mtc = h.mtc
      /\ \A q \in Tables : g.table[q] = IF q = t THEN x ELSE h.table[q]
      /\ \A q \in Tables \ {t} : \A j : raw_get(g, q, j) = raw_get(h, q, j)
  <2>1. TreeInv(h) /\ TablesInv(h)
    BY DEF HeapInv
  <2> HIDE DEF sh, props
  <2> QED
    <3>1. Puttable(h, x)
      BY <1>7, <1>8, <2>1 DEF Puttable
    <3>2. IsPut(h, g, t, x)
      BY <3>1, PutTable, Zenon
    <3> QED
      BY <3>2 DEF IsPut
<1> HIDE DEF g
<1>10. ASSUME NEW j \in Keys
       PROVE  raw_get(g, t, j) = IF j = k THEN v ELSE raw_get(h, t, j)
  <2>1. /\ raw_get(h, t, j) = IF find_slot(sh, j) = ABSENT_SLOT THEN Nil ELSE props[find_slot(sh, j)]
        /\ raw_get(g, t, j) = IF find_slot(sh, j) = ABSENT_SLOT THEN Nil
                              ELSE [props EXCEPT ![slot] = v][find_slot(sh, j)]
    BY <1>3, <1>7, <1>9 DEF raw_get
  <2>2. CASE j = k
    BY <1>3, <1>6, <2>1, <2>2 DEF slot
  <2>3. CASE j # k /\ find_slot(sh, j) = ABSENT_SLOT
    BY <2>1, <2>3
  <2>4. CASE j # k /\ find_slot(sh, j) # ABSENT_SLOT
    <3>1. find_slot(sh, j) \in 1..Len(props) /\ find_slot(sh, j) # slot
      <4>1. Len(props) \in Nat /\ find_slot(sh, j) \in 0..Len(props)
        BY <1>2, <1>5, LenProperties
      <4>2. find_slot(sh, j) # slot /\ find_slot(sh, j) # 0
        BY <1>4, <2>4 DEF ABSENT_SLOT
      <4> HIDE DEF sh, props
      <4> QED
        BY <4>1, <4>2
    <3>2. [props EXCEPT ![slot] = v][find_slot(sh, j)] = props[find_slot(sh, j)]
      BY <1>6, <3>1
    <3> QED
      BY <2>1, <2>4, <3>2
  <2> QED
    BY <2>2, <2>3, <2>4
<1>11. Stored(h, g, t, k, v)
  BY <1>7, <1>9, <1>10 DEF Stored
<1>12. LET f == maybe_update_mt_bit(g, t, k, v) IN
       HeapTypes(f) /\ HeapInv(f) /\ Extends(h, f) /\ Stored(h, f, t, k, v)
  BY <1>9, <1>11, Mirror DEF HeapInv
<1> QED
  BY <1>1, <1>12 DEF g, slot

\* The fields survive the migration to dictionary mode.
LEMMA Migrate ==
    ASSUME NEW h, NEW t \in Tables, HeapTypes(h), HeapInv(h), Free(h) # {}
    PROVE  LET g == migrate_to_dict(h, t) IN
           /\ HeapTypes(g) /\ HeapInv(g) /\ Extends(h, g) /\ g.table[t].is_dict
           /\ \A q \in Tables : /\ g.table[q].metatable = h.table[q].metatable
                                /\ \A j \in Keys : raw_get(g, q, j) = raw_get(h, q, j)
<1> DEFINE mt == h.shape[h.table[t].shape].mt_cache
           to == ensure_dict_sentinel(h, mt)
           dict == [k \in Keys |-> raw_get(h, t, k)]
           x == [h.table[t] EXCEPT !.properties = <<>>, !.shape = to.s,
                                   !.is_dict = TRUE, !.dict = dict]
           y == [to.h.table[t] EXCEPT !.properties = <<>>, !.shape = to.s,
                                   !.is_dict = TRUE, !.dict = dict]
           g == [to.h EXCEPT !.table[t] = x]
<1>1. migrate_to_dict(h, t) = [to.h EXCEPT !.table[t] = y]
  BY DEF migrate_to_dict
<1>2. mt \in Metatables /\ (mt # None => h.mtc[mt].made) /\ h.table[t].metatable = mt
  BY HeapParts DEF HeapInv, TablesInv, TreeInv, NodesInv, Node
<1> HIDE DEF mt
<1>3. /\ HeapTypes(to.h) /\ TreeInv(to.h) /\ Extends(h, to.h) /\ SameTables(h, to.h)
      /\ to.s \in ShapeIds /\ to.h.shape[to.s].live
      /\ Face(to.h.shape[to.s]) = Face(dict_sentinel(mt))
  BY <1>2, Sentinel DEF HeapInv
<1> HIDE DEF to
<1>4. TablesInv(to.h) /\ \A q \in Tables : \A j : raw_get(to.h, q, j) = raw_get(h, q, j)
  BY <1>3, SameLayout DEF HeapInv
<1>5. to.h.table = h.table /\ y = x
  BY <1>3 DEF SameTables
<1>6. dict \in [Keys -> Values]
  BY RawGetType DEF HeapInv
<1>7. /\ x \in TableState /\ x.shape = to.s /\ x.is_dict /\ x.is_dict = TRUE
      /\ x.properties = <<>> /\ Len(x.properties) = 0 /\ x.metatable = mt
      /\ \A j \in Keys : x.dict[j] = raw_get(h, t, j)
  <2>1. <<>> \in Seq(Values) /\ Len(<<>>) = 0
    BY EmptySeq
  <2> HIDE DEF dict
  <2>2. h.table[t] \in TableState
    BY HeapParts
  <2>3. /\ x \in TableState /\ x.shape = to.s /\ x.is_dict = TRUE /\ x.properties = <<>>
        /\ x.metatable = mt /\ x.dict = dict
    BY <1>2, <1>3, <1>6, <2>1, <2>2 DEF TableState
  <2> QED
    BY <2>1, <2>3 DEF dict
<1> HIDE DEF x, y, dict
<1>8. /\ to.h.shape[to.s].is_dict = TRUE /\ Len(to.h.shape[to.s].descriptors) = 0
      /\ to.h.shape[to.s].mt_cache = mt
  <2>1. /\ dict_sentinel(mt).is_dict = TRUE /\ dict_sentinel(mt).descriptors = <<>>
        /\ dict_sentinel(mt).mt_cache = mt
    BY DEF dict_sentinel, Unused
  <2> QED
    BY <1>3, <2>1, ShapeTypes, SameFace
<1>9. /\ HeapTypes(g) /\ TreeInv(g) /\ TablesInv(g) /\ Extends(to.h, g)
      /\ g.shape = to.h.shape /\ g.mtc = to.h.mtc
      /\ \A q \in Tables : g.table[q] = IF q = t THEN x ELSE to.h.table[q]
      /\ \A q \in Tables \ {t} : \A j : raw_get(g, q, j) = raw_get(to.h, q, j)
  <2>1. /\ Len(x.properties) <= MaxProps
        /\ LET sh == to.h.shape[x.shape] IN
           /\ sh.live /\ x.is_dict = sh.is_dict
           /\ Len(x.properties) = Len(sh.descriptors) /\ x.metatable = sh.mt_cache
    <3>1. Len(x.properties) <= MaxProps
      BY <1>7, BoundsAssumption
    <3>2. to.h.shape[x.shape].live /\ x.is_dict = to.h.shape[x.shape].is_dict
      BY <1>3, <1>7, <1>8
    <3> QED
      BY <1>7, <1>8, <3>1, <3>2
  <2> QED
    <3>1. HeapTypes(to.h) /\ TreeInv(to.h) /\ TablesInv(to.h) /\ x \in TableState
      BY <1>3, <1>4, <1>7
    <3>2. Puttable(to.h, x)
      BY <2>1, <3>1 DEF Puttable
    <3>3. IsPut(to.h, g, t, x)
      BY <3>2, PutTable, Zenon
    <3> QED
      BY <3>3 DEF IsPut
<1> HIDE DEF g
<1>10. \A q \in Tables : /\ g.table[q].metatable = h.table[q].metatable
                         /\ \A j \in Keys : raw_get(g, q, j) = raw_get(h, q, j)
  <2>1. \A j \in Keys : raw_get(g, t, j) = raw_get(h, t, j)
    BY <1>7, <1>9 DEF raw_get
  <2> QED
    BY <1>2, <1>4, <1>5, <1>7, <1>9, <2>1
<1>11. BitsInv(g)
  <2> SUFFICES ASSUME NEW q \in Tables, g.mtc[q].made
               PROVE  g.mtc[q].bits = {j \in Metamethods : raw_get(g, q, j) # Nil}
    BY DEF BitsInv
  <2>1. h.mtc[q].made /\ g.mtc[q].bits = h.mtc[q].bits
    BY <1>3, <1>9 DEF SameTables
  <2> QED
    BY <1>10, <2>1, KeysAssumption DEF HeapInv, BitsInv
<1>12. migrate_to_dict(h, t) = g
  BY <1>1, <1>5 DEF g
<1> QED
  BY <1>3, <1>7, <1>9, <1>10, <1>11, <1>12, ExtendsTwice DEF HeapInv

\* A store that adds a key.
LEMMA AddKey ==
    ASSUME NEW h, NEW t \in Tables, NEW k \in Keys, NEW v \in Values,
           HeapTypes(h), HeapInv(h), Free(h) # {}, ~h.table[t].is_dict,
           find_slot(h.shape[h.table[t].shape], k) = ABSENT_SLOT,
           ~AtLimit(h.shape[h.table[t].shape])
    PROVE  LET f == set_string_key(h, t, k, v) IN
           HeapTypes(f) /\ HeapInv(f) /\ Extends(h, f) /\ Stored(h, f, t, k, v)
<1> DEFINE p == h.table[t].shape
           sh == h.shape[p]
           n == Len(sh.descriptors)
           to == transition_add_prop(h, p, k)
           props == h.table[t].properties
           x == [h.table[t] EXCEPT !.shape = to.s, !.properties = Append(props, v)]
           y == [to.h.table[t] EXCEPT !.shape = to.s,
                                      !.properties = Append(to.h.table[t].properties, v)]
           g == [to.h EXCEPT !.table[t] = x]
<1>1. set_string_key(h, t, k, v) = maybe_update_mt_bit([to.h EXCEPT !.table[t] = y], t, k, v)
  <2>1. [to.h EXCEPT !.table[t].shape = to.s, !.table[t].properties = Append(@, v)]
            = [to.h EXCEPT !.table[t] = y]
    OBVIOUS
  <2> HIDE DEF y
  <2> QED
    BY <2>1 DEF set_string_key
<1>2. /\ p \in ShapeIds /\ sh.live /\ h.table[t].is_dict = sh.is_dict /\ ~sh.is_dict
      /\ Len(props) = n /\ h.table[t].metatable = sh.mt_cache /\ Node(h, sh)
      /\ sh.descriptors \in Seq(Keys) /\ props \in Seq(Values) /\ n \in Nat /\ n < MaxProps
  <2>1. /\ p \in ShapeIds /\ sh.live /\ h.table[t].is_dict = sh.is_dict
        /\ Len(props) = n /\ h.table[t].metatable = sh.mt_cache /\ Node(h, sh)
        /\ sh.descriptors \in Seq(Keys) /\ props \in Seq(Values)
    BY HeapParts DEF HeapInv, TablesInv, TreeInv, NodesInv
  <2>2. n \in Nat
    BY <2>1, LenProperties
  <2> QED
    BY <2>1, <2>2, BoundsAssumption DEF AtLimit
<1>3. /\ HeapTypes(to.h) /\ TreeInv(to.h) /\ Extends(h, to.h) /\ SameTables(h, to.h)
      /\ to.s \in ShapeIds /\ PropEdge(to.h, p, k, to.s)
  BY <1>2, AddProp DEF HeapInv
<1> HIDE DEF to
<1>4. TablesInv(to.h) /\ \A q \in Tables : \A j : raw_get(to.h, q, j) = raw_get(h, q, j)
  BY <1>3, SameLayout DEF HeapInv
<1>5. to.h.table = h.table /\ y = x
  BY <1>3 DEF SameTables
<1>6. /\ Append(props, v) \in Seq(Values) /\ Len(Append(props, v)) = n + 1
      /\ \A i \in 1..n : Append(props, v)[i] = props[i]
      /\ Append(props, v)[n + 1] = v
  <2>1. props \in Seq(Values) /\ Len(props) = n
    BY <1>2
  <2> HIDE DEF props
  <2> QED
    BY <2>1, AppendProperties
<1>7. /\ x \in TableState /\ x.shape = to.s /\ x.is_dict = h.table[t].is_dict
      /\ x.properties = Append(props, v) /\ x.metatable = h.table[t].metatable
  <2>1. h.table[t] \in TableState
    BY HeapParts
  <2> QED
    BY <1>3, <1>6, <2>1 DEF TableState
<1> HIDE DEF x, y
<1>8. LET th == to.h.shape[to.s] IN
      /\ th.live /\ th.is_dict = FALSE /\ h.table[t].is_dict = FALSE
      /\ th.descriptors = Append(sh.descriptors, k)
      /\ th.mt_cache = sh.mt_cache
  <2>1. to.h.shape[p].descriptors = sh.descriptors /\ to.h.shape[p].mt_cache = sh.mt_cache
    BY <1>2, <1>3, SameFace DEF Extends
  <2>2. to.h.shape[to.s].is_dict \in BOOLEAN /\ h.table[t].is_dict \in BOOLEAN
    BY <1>3, HeapParts DEF ShapeData
  <2> QED
    BY <1>3, <2>1, <2>2 DEF PropEdge
<1>9. LET th == to.h.shape[to.s] IN
      /\ Len(th.descriptors) = n + 1 /\ find_slot(th, k) = n + 1
      /\ \A j \in Keys \ {k} : find_slot(th, j) = find_slot(sh, j) /\ find_slot(th, j) \in 0..n
  <2>1. IsInjective(sh.descriptors)
    BY <1>2 DEF Node
  <2>2. \A j \in Keys : find_slot(sh, j) \in 0..n
    BY <1>2, FindSlot
  <2> QED
    <3> DEFINE th == to.h.shape[to.s]
    <3>1. /\ sh.descriptors \in Seq(Keys) /\ th.descriptors = Append(sh.descriptors, k)
          /\ find_slot(sh, k) = ABSENT_SLOT
      BY <1>2, <1>8
    <3> HIDE DEF sh, th
    <3>2. /\ Len(th.descriptors) = n + 1 /\ find_slot(th, k) = n + 1
          /\ \A j \in Keys \ {k} : find_slot(th, j) = find_slot(sh, j)
      BY <2>1, <3>1, AppendedSlot
    <3> QED
      BY <2>2, <3>2 DEF th
<1>10. /\ HeapTypes(g) /\ TreeInv(g) /\ TablesInv(g) /\ Extends(to.h, g)
       /\ g.shape = to.h.shape /\ g.mtc = to.h.mtc
       /\ \A q \in Tables : g.table[q] = IF q = t THEN x ELSE to.h.table[q]
       /\ \A q \in Tables \ {t} : \A j : raw_get(g, q, j) = raw_get(to.h, q, j)
  <2>1. /\ Len(x.properties) <= MaxProps
        /\ LET th == to.h.shape[x.shape] IN
           /\ th.live /\ x.is_dict = th.is_dict
           /\ Len(x.properties) = Len(th.descriptors) /\ x.metatable = th.mt_cache
    <3>1. Len(x.properties) <= MaxProps
      <4>1. n \in Nat /\ n < MaxProps /\ MaxProps \in Nat /\ Len(x.properties) = n + 1
        BY <1>2, <1>6, <1>7, BoundsAssumption
      <4> QED
        BY <4>1
    <3> QED
      BY <1>2, <1>6, <1>7, <1>8, <1>9, <3>1
  <2>2. HeapTypes(to.h) /\ TreeInv(to.h) /\ TablesInv(to.h) /\ x \in TableState
    BY <1>3, <1>4, <1>7
  <2> QED
    <3>1. Puttable(to.h, x)
      BY <2>1, <2>2 DEF Puttable
    <3>2. IsPut(to.h, g, t, x)
      BY <3>1, PutTable, Zenon
    <3> QED
      BY <3>2 DEF IsPut
<1> HIDE DEF g
<1>11. ASSUME NEW j \in Keys
       PROVE  raw_get(g, t, j) = IF j = k THEN v ELSE raw_get(h, t, j)
  <2> DEFINE th == to.h.shape[to.s]
  <2>0. /\ n \in Nat /\ find_slot(sh, k) = ABSENT_SLOT /\ find_slot(th, k) = n + 1
        /\ \A i \in Keys \ {k} : find_slot(th, i) = find_slot(sh, i) /\ find_slot(th, i) \in 0..n
    BY <1>2, <1>9
  <2>1. /\ raw_get(h, t, j) = IF find_slot(sh, j) = ABSENT_SLOT THEN Nil ELSE props[find_slot(sh, j)]
        /\ raw_get(g, t, j) = IF find_slot(th, j) = ABSENT_SLOT THEN Nil
                              ELSE Append(props, v)[find_slot(th, j)]
    <3>1. h.table[t].is_dict = FALSE
      BY <1>8
    <3>2. /\ g.table[t].shape = to.s /\ g.table[t].is_dict = FALSE
          /\ g.table[t].properties = Append(props, v) /\ g.shape = to.h.shape
      BY <1>7, <1>8, <1>10
    <3> QED
      BY <3>1, <3>2 DEF raw_get
  <2> HIDE DEF th, sh, props
  <2>2. CASE j = k
    BY <1>6, <2>0, <2>1, <2>2 DEF ABSENT_SLOT
  <2>3. CASE j # k /\ find_slot(sh, j) = ABSENT_SLOT
    BY <2>0, <2>1, <2>3
  <2>4. CASE j # k /\ find_slot(sh, j) # ABSENT_SLOT
    <3>1. find_slot(sh, j) \in 1..n /\ find_slot(th, j) = find_slot(sh, j)
      BY <2>0, <2>4 DEF ABSENT_SLOT
    <3> QED
      BY <1>6, <2>1, <2>4, <3>1
  <2> QED
    BY <2>2, <2>3, <2>4
<1>12. Stored(h, g, t, k, v)
  BY <1>4, <1>5, <1>7, <1>10, <1>11 DEF Stored
<1>13. Extends(h, g)
  BY <1>3, <1>10, ExtendsTwice
<1>14. \A q \in Tables : g.mtc[q].made = h.mtc[q].made /\ g.mtc[q].bits = h.mtc[q].bits
  BY <1>3, <1>10 DEF SameTables
<1>15. set_string_key(h, t, k, v) = maybe_update_mt_bit(g, t, k, v)
  BY <1>1, <1>5 DEF g
<1> QED
  BY <1>10, <1>12, <1>13, <1>14, <1>15, Mirror DEF HeapInv

\* raw_set stores, and nothing else that a program could see.
LEMMA RawSetStores ==
    ASSUME NEW h, NEW t \in Tables, NEW k \in Keys, NEW v \in Values,
           HeapTypes(h), HeapInv(h), Free(h) # {}
    PROVE  LET f == raw_set(h, t, k, v) IN
           HeapTypes(f) /\ HeapInv(f) /\ Extends(h, f) /\ Stored(h, f, t, k, v)
<1> DEFINE sh == h.shape[h.table[t].shape]
           slot == find_slot(sh, k)
           f == raw_set(h, t, k, v)
<1>1. CASE h.table[t].is_dict
  <2>1. f = set_string_key_dict(h, t, k, v)
    BY <1>1 DEF raw_set, set_string_key
  <2> HIDE DEF f
  <2> QED
    BY <1>1, <2>1, DictStore DEF f
<1>2. CASE ~h.table[t].is_dict /\ slot # ABSENT_SLOT /\ v # Nil
  <2>1. f = maybe_update_mt_bit([h EXCEPT !.table[t].properties[slot] = v], t, k, v)
    BY <1>2 DEF raw_set, set_string_key
  <2> HIDE DEF f
  <2>2. HeapTypes(f) /\ HeapInv(f) /\ Extends(h, f) /\ Stored(h, f, t, k, v)
    BY <1>2, <2>1, SlotStore
  <2> QED
    BY <2>2 DEF f
<1>3. CASE /\ ~h.table[t].is_dict
           /\ IF slot # ABSENT_SLOT THEN v = Nil ELSE AtLimit(sh)
  <2> DEFINE g == migrate_to_dict(h, t)
  <2>1. f = set_string_key_dict(g, t, k, v)
    BY <1>3 DEF raw_set, set_string_key
  <2>2. /\ HeapTypes(g) /\ HeapInv(g) /\ Extends(h, g) /\ g.table[t].is_dict
        /\ \A q \in Tables : /\ g.table[q].metatable = h.table[q].metatable
                             /\ \A j \in Keys : raw_get(g, q, j) = raw_get(h, q, j)
    BY Migrate
  <2> HIDE DEF f, g
  <2>3. HeapTypes(f) /\ HeapInv(f) /\ Extends(g, f) /\ Stored(g, f, t, k, v)
    BY <2>1, <2>2, DictStore
  <2>4. Extends(h, f) /\ Stored(h, f, t, k, v)
    BY <2>2, <2>3, ExtendsTwice DEF Stored
  <2> QED
    BY <2>3, <2>4 DEF f
<1>4. CASE ~h.table[t].is_dict /\ slot = ABSENT_SLOT /\ ~AtLimit(sh)
  BY <1>4, AddKey DEF raw_set
<1> QED
  BY <1>1, <1>2, <1>3, <1>4
-----------------------------------------------------------------------------
(* Metatables                                                              *)

\* An adopted table has the bits of its present fields.
LEMMA Adopt ==
    ASSUME NEW h, NEW t \in Tables, HeapTypes(h), HeapInv(h)
    PROVE  LET f == ensure_mt_cache(h, t) IN
           /\ HeapTypes(f) /\ HeapInv(f) /\ Extends(h, f)
           /\ f.shape = h.shape /\ f.table = h.table /\ f.mtc[t].made
<1> DEFINE f == ensure_mt_cache(h, t)
           b == {k \in Metamethods : raw_get(h, t, k) # Nil}
           mc == [made |-> TRUE, dict_sentinel |-> NoShape, bits |-> b]
<1>1. CASE h.mtc[t].made
  <2>1. f = h
    BY <1>1 DEF ensure_mt_cache
  <2> QED
    BY <1>1, <2>1 DEF Extends
<1>2. CASE ~h.mtc[t].made
  <2>1. f = [h EXCEPT !.mtc = [h.mtc EXCEPT ![t] = mc]]
    BY <1>2 DEF ensure_mt_cache
  <2> HIDE DEF f
  <2>2. mc \in MtCacheData
    BY DEF MtCacheData
  <2>3. mc.made /\ mc.dict_sentinel = NoShape /\ mc.bits = b
    OBVIOUS
  <2> HIDE DEF mc
  <2>4. /\ h \in [shape : [ShapeIds -> ShapeData], table : [Tables -> TableState],
                  mtc : [Tables -> MtCacheData]]
        /\ h.mtc \in [Tables -> MtCacheData]
    BY DEF HeapTypes
  <2>5. /\ f.shape = h.shape /\ f.table = h.table /\ f.mtc = [h.mtc EXCEPT ![t] = mc]
        /\ f \in [shape : [ShapeIds -> ShapeData], table : [Tables -> TableState],
                  mtc : [Tables -> MtCacheData]]
    BY <2>1, <2>2, <2>4
  <2>6. \A q \in Tables : f.mtc[q] = IF q = t THEN mc ELSE h.mtc[q]
    BY <2>4, <2>5
  <2>7. HeapTypes(f)
    BY <2>5 DEF HeapTypes
  <2>8. \A q : \A j : raw_get(f, q, j) = raw_get(h, q, j)
    BY <2>5 DEF raw_get
  <2>9. EdgesInv(f)
    BY <2>5, SameEdges DEF HeapInv, TreeInv
  <2>10. NodesInv(f)
    <3>1. \A s \in ShapeIds : h.shape[s].mt_cache \in Metatables
      BY HeapParts
    <3>2. \A s \in ShapeIds : h.shape[s].live => Node(f, h.shape[s])
      BY <2>3, <2>6, <3>1 DEF HeapInv, TreeInv, NodesInv, Node, Metatables
    <3> QED
      BY <2>5, <3>2 DEF HeapInv, TreeInv, NodesInv
  <2>11. CachesInv(f)
    BY <2>3, <2>5, <2>6 DEF HeapInv, TreeInv, CachesInv
  <2>12. TablesInv(f)
    BY <2>5 DEF HeapInv, TablesInv
  <2>13. BitsInv(f)
    BY <2>3, <2>6, <2>8 DEF HeapInv, BitsInv
  <2>14. Extends(h, f)
    BY <2>5 DEF Extends
  <2> QED
    BY <2>3, <2>5, <2>6, <2>7, <2>9, <2>10, <2>11, <2>12, <2>13, <2>14 DEF HeapInv, TreeInv, f
<1> QED
  BY <1>1, <1>2

\* set_metatable changes what it says, and no field.
LEMMA SetMetatable ==
    ASSUME NEW h, NEW t \in Tables, NEW mt \in Metatables,
           HeapTypes(h), HeapInv(h), Free(h) # {}
    PROVE  LET f == set_metatable(h, t, mt) IN
           /\ HeapTypes(f) /\ HeapInv(f) /\ Extends(h, f)
           /\ MetatableSet(h, f, t, mt)
<1> DEFINE e == IF mt = None THEN h ELSE ensure_mt_cache(h, mt)
           p == h.table[t].shape
           to == transition_set_metatable(e, p, mt)
           x == [h.table[t] EXCEPT !.shape = to.s, !.metatable = mt]
           y == [to.h.table[t] EXCEPT !.shape = to.s, !.metatable = mt]
           f == [to.h EXCEPT !.table[t] = x]
<1>1. set_metatable(h, t, mt) = [to.h EXCEPT !.table[t] = y]
  <2>1. [to.h EXCEPT !.table[t].shape = to.s, !.table[t].metatable = mt]
            = [to.h EXCEPT !.table[t] = y]
    OBVIOUS
  <2> HIDE DEF y
  <2> QED
    BY <2>1 DEF set_metatable
<1>2. /\ HeapTypes(e) /\ HeapInv(e) /\ Extends(h, e) /\ e.shape = h.shape /\ e.table = h.table
      /\ mt # None => e.mtc[mt].made
  <2>1. CASE mt = None
    BY <2>1 DEF Extends
  <2>2. CASE mt # None
    BY <2>2, Adopt DEF Metatables
  <2> QED
    BY <2>1, <2>2
<1> HIDE DEF e
<1>3. Free(e) # {} /\ p \in ShapeIds /\ e.shape[p].live
      /\ h.table[t].is_dict = e.shape[p].is_dict
      /\ Len(h.table[t].properties) = Len(e.shape[p].descriptors)
  <2>1. p \in ShapeIds
    BY HeapParts
  <2> QED
    BY <1>2, <2>1 DEF Free, HeapInv, TablesInv
<1>4. /\ HeapTypes(to.h) /\ TreeInv(to.h) /\ Extends(e, to.h) /\ SameTables(e, to.h)
      /\ to.s \in ShapeIds /\ to.h.shape[to.s].live
      /\ to.h.shape[to.s].descriptors = e.shape[p].descriptors
      /\ to.h.shape[to.s].is_dict = e.shape[p].is_dict
      /\ to.h.shape[to.s].mt_cache = mt
  BY <1>2, <1>3, SetMt DEF HeapInv
<1> HIDE DEF to
<1>5. TablesInv(to.h) /\ BitsInv(to.h)
      /\ \A q \in Tables : \A j : raw_get(to.h, q, j) = raw_get(e, q, j)
  BY <1>2, <1>4, SameLayout DEF HeapInv
<1>6. to.h.table = h.table /\ y = x
  BY <1>2, <1>4 DEF SameTables
<1>7. /\ x \in TableState /\ x.shape = to.s /\ x.is_dict = h.table[t].is_dict
      /\ x.properties = h.table[t].properties /\ x.metatable = mt /\ x.dict = h.table[t].dict
  <2>1. h.table[t] \in TableState
    BY HeapParts
  <2> QED
    BY <1>4, <2>1 DEF TableState
<1> HIDE DEF x, y
<1>8. /\ HeapTypes(f) /\ TreeInv(f) /\ TablesInv(f) /\ Extends(to.h, f)
      /\ f.shape = to.h.shape /\ f.mtc = to.h.mtc
      /\ \A q \in Tables : f.table[q] = IF q = t THEN x ELSE to.h.table[q]
      /\ \A q \in Tables \ {t} : \A j : raw_get(f, q, j) = raw_get(to.h, q, j)
  <2>1. /\ Len(x.properties) <= MaxProps
        /\ LET th == to.h.shape[x.shape] IN
           /\ th.live /\ x.is_dict = th.is_dict
           /\ Len(x.properties) = Len(th.descriptors) /\ x.metatable = th.mt_cache
    <3>1. Len(x.properties) <= MaxProps
      BY <1>7 DEF HeapTypes
    <3> QED
      BY <1>3, <1>4, <1>7, <3>1
  <2>2. HeapTypes(to.h) /\ TreeInv(to.h) /\ TablesInv(to.h) /\ x \in TableState
    BY <1>4, <1>5, <1>7
  <2> QED
    <3>1. Puttable(to.h, x)
      BY <2>1, <2>2 DEF Puttable
    <3>2. IsPut(to.h, f, t, x)
      BY <3>1, PutTable, Zenon
    <3> QED
      BY <3>2 DEF IsPut
<1> HIDE DEF f
<1>9. ASSUME NEW q \in Tables, NEW j \in Keys PROVE raw_get(f, q, j) = raw_get(h, q, j)
  <2>1. raw_get(e, q, j) = raw_get(h, q, j)
    BY <1>2 DEF raw_get
  <2>2. CASE q # t
    BY <1>5, <1>8, <2>1, <2>2
  <2>3. CASE q = t
    <3>1. find_slot(f.shape[f.table[t].shape], j) = find_slot(h.shape[h.table[t].shape], j)
      <4>1. f.shape[f.table[t].shape].descriptors = h.shape[h.table[t].shape].descriptors
        BY <1>2, <1>4, <1>7, <1>8
      <4> QED
        BY <4>1, SameSlot
    <3> QED
      BY <1>7, <1>8, <2>3, <3>1 DEF raw_get
  <2> QED
    BY <2>2, <2>3
<1>10. \A q \in Tables : f.table[q].metatable = IF q = t THEN mt ELSE h.table[q].metatable
  BY <1>6, <1>7, <1>8
<1>11. BitsInv(f)
  <2> SUFFICES ASSUME NEW q \in Tables, f.mtc[q].made
               PROVE  f.mtc[q].bits = {j \in Metamethods : raw_get(f, q, j) # Nil}
    BY DEF BitsInv
  <2>1. to.h.mtc[q].made /\ f.mtc[q].bits = to.h.mtc[q].bits
    BY <1>8
  <2>2. \A j \in Metamethods : raw_get(f, q, j) = raw_get(to.h, q, j)
    <3>1. \A j \in Metamethods : raw_get(e, q, j) = raw_get(h, q, j)
      BY <1>2 DEF raw_get
    <3> QED
      BY <1>5, <1>9, <3>1, KeysAssumption
  <2> QED
    BY <1>5, <2>1, <2>2 DEF BitsInv
<1>12. Extends(h, f)
  BY <1>2, <1>4, <1>8, ExtendsTwice
<1>13. set_metatable(h, t, mt) = f
  BY <1>1, <1>6 DEF f
<1> QED
  BY <1>8, <1>9, <1>10, <1>11, <1>12, <1>13 DEF HeapInv, MetatableSet
-----------------------------------------------------------------------------
(* Chains of metatables                                                    *)

\* The walk of the `__newindex` chain is what its recursion says.
LEMMA NewindexSteps ==
    ASSUME NEW h, NEW k
    PROVE  \A n \in 0..MaxTagLoop : \A t \in Tables : newindex_chain(h, k)[n][t] =
            LET mm == raw_get(h, h.table[t].metatable, "__newindex")
            IN  IF n = 0 THEN Exhausted
                ELSE IF raw_get(h, t, k) # Nil \/ ~has_mm(h, t, "__newindex") THEN RawSet(t)
                ELSE IF mm = Nil THEN RawSet(t)
                ELSE IF mm \in Tables THEN newindex_chain(h, k)[n - 1][mm]
                ELSE Invoke(mm, t)
<1> DEFINE mm(t) == raw_get(h, h.table[t].metatable, "__newindex")
           here(t) == raw_get(h, t, k) # Nil \/ ~has_mm(h, t, "__newindex") \/ mm(t) = Nil
           z == [t \in Tables |-> Exhausted]
           stop == [t \in Tables |-> here(t) \/ mm(t) \notin Tables]
           r == [t \in Tables |-> IF here(t) THEN RawSet(t) ELSE Invoke(mm(t), t)]
           next == [t \in Tables |-> mm(t)]
           Row(f, n) == [t \in Tables |->
                IF n = 0 THEN Exhausted
                ELSE IF raw_get(h, t, k) # Nil \/ ~has_mm(h, t, "__newindex") THEN RawSet(t)
                ELSE IF mm(t) = Nil THEN RawSet(t)
                ELSE IF mm(t) \in Tables THEN f[n - 1][mm(t)]
                ELSE Invoke(mm(t), t)]
<1>1. MaxTagLoop \in Nat
  BY BoundsAssumption
<1>2. \A t \in Tables : ~stop[t] => next[t] \in Tables
  OBVIOUS
<1> HIDE DEF mm
<1>3. PICK f : f = [n \in 0..MaxTagLoop |-> [t \in Tables |->
               IF n = 0 THEN z[t] ELSE IF stop[t] THEN r[t] ELSE f[n - 1][next[t]]]]
  <2> HIDE DEF z, stop, r, next
  <2>1. \E f : FollowsChain(f, MaxTagLoop, Tables, z, stop, r, next)
    BY <1>1, <1>2, ChainRecursion
  <2> QED
    BY <2>1 DEF FollowsChain
<1>4. ASSUME NEW n
      PROVE  [t \in Tables |-> IF n = 0 THEN z[t] ELSE IF stop[t] THEN r[t] ELSE f[n - 1][next[t]]]
                 = Row(f, n)
  OBVIOUS
<1>5. f = [n \in 0..MaxTagLoop |-> Row(f, n)]
  <2> HIDE DEF z, stop, r, next, Row
  <2> QED
    BY <1>3, <1>4
<1>6. newindex_chain(h, k) = [n \in 0..MaxTagLoop |-> Row(newindex_chain(h, k), n)]
  BY <1>5 DEF newindex_chain, mm
<1> HIDE DEF Row
<1>7. \A n \in 0..MaxTagLoop : newindex_chain(h, k)[n] = Row(newindex_chain(h, k), n)
  BY <1>6
<1> QED
  BY <1>7 DEF Row, mm

\* The walk of the `__index` chain is what its recursion says.
LEMMA IndexSteps ==
    ASSUME NEW h, NEW k
    PROVE  \A n \in 0..MaxTagLoop : \A t \in Tables : index_chain(h, k)[n][t] =
            LET mm == raw_get(h, h.table[t].metatable, "__index")
                v == raw_get(h, mm, k)
            IN  IF n = 0 THEN Exhausted
                ELSE IF mm = Nil THEN Resolved(Nil)
                ELSE IF mm \notin Tables THEN Invoke(mm, t)
                ELSE IF v # Nil \/ ~has_mm(h, mm, "__index") THEN Resolved(v)
                ELSE index_chain(h, k)[n - 1][mm]
<1> DEFINE mm(t) == raw_get(h, h.table[t].metatable, "__index")
           v(t) == raw_get(h, mm(t), k)
           z == [t \in Tables |-> Exhausted]
           stop == [t \in Tables |-> \/ mm(t) = Nil \/ mm(t) \notin Tables
                                     \/ v(t) # Nil \/ ~has_mm(h, mm(t), "__index")]
           r == [t \in Tables |-> IF mm(t) = Nil THEN Resolved(Nil)
                                  ELSE IF mm(t) \notin Tables THEN Invoke(mm(t), t)
                                  ELSE Resolved(v(t))]
           next == [t \in Tables |-> mm(t)]
           Row(f, n) == [t \in Tables |->
                IF n = 0 THEN Exhausted
                ELSE IF mm(t) = Nil THEN Resolved(Nil)
                ELSE IF mm(t) \notin Tables THEN Invoke(mm(t), t)
                ELSE IF v(t) # Nil \/ ~has_mm(h, mm(t), "__index") THEN Resolved(v(t))
                ELSE f[n - 1][mm(t)]]
<1>1. MaxTagLoop \in Nat
  BY BoundsAssumption
<1>2. \A t \in Tables : ~stop[t] => next[t] \in Tables
  OBVIOUS
<1> HIDE DEF mm, v
<1>3. PICK f : f = [n \in 0..MaxTagLoop |-> [t \in Tables |->
               IF n = 0 THEN z[t] ELSE IF stop[t] THEN r[t] ELSE f[n - 1][next[t]]]]
  <2> HIDE DEF z, stop, r, next
  <2>1. \E f : FollowsChain(f, MaxTagLoop, Tables, z, stop, r, next)
    BY <1>1, <1>2, ChainRecursion
  <2> QED
    BY <2>1 DEF FollowsChain
<1>4. ASSUME NEW n
      PROVE  [t \in Tables |-> IF n = 0 THEN z[t] ELSE IF stop[t] THEN r[t] ELSE f[n - 1][next[t]]]
                 = Row(f, n)
  OBVIOUS
<1>5. f = [n \in 0..MaxTagLoop |-> Row(f, n)]
  <2> HIDE DEF z, stop, r, next, Row
  <2> QED
    BY <1>3, <1>4
<1>6. ASSUME NEW g, NEW n, NEW t \in Tables
      PROVE  Row(g, n)[t] = IF n = 0 THEN Exhausted
                ELSE IF mm(t) = Nil THEN Resolved(Nil)
                ELSE IF mm(t) \notin Tables THEN Invoke(mm(t), t)
                ELSE IF v(t) # Nil \/ ~has_mm(h, mm(t), "__index") THEN Resolved(v(t))
                ELSE g[n - 1][mm(t)]
  OBVIOUS
<1>7. index_chain(h, k) = [n \in 0..MaxTagLoop |-> Row(index_chain(h, k), n)]
  BY <1>5 DEF index_chain, mm, v
<1> HIDE DEF Row
<1>8. \A n \in 0..MaxTagLoop : index_chain(h, k)[n] = Row(index_chain(h, k), n)
  BY <1>7
<1>9. \A n \in 0..MaxTagLoop : \A t \in Tables : index_chain(h, k)[n][t] =
                IF n = 0 THEN Exhausted
                ELSE IF mm(t) = Nil THEN Resolved(Nil)
                ELSE IF mm(t) \notin Tables THEN Invoke(mm(t), t)
                ELSE IF v(t) # Nil \/ ~has_mm(h, mm(t), "__index") THEN Resolved(v(t))
                ELSE index_chain(h, k)[n - 1][mm(t)]
  BY <1>6, <1>8
<1> QED
  BY <1>9 DEF mm, v

\* An assignment that comes to a store comes to a store in a table.
LEMMA StoresInTable ==
    ASSUME NEW h, NEW t \in Tables, NEW k
    PROVE  /\ settable(h, t, k).r = "store" => settable(h, t, k).on \in Tables
           /\ walk_newindex_chain(h, t, k).r = "store" => walk_newindex_chain(h, t, k).on \in Tables
<1> DEFINE W == newindex_chain(h, k)
           S == {n \in Nat : n <= MaxTagLoop =>
                     \A q \in Tables : W[n][q].r = "store" => W[n][q].on \in Tables}
<1>1. MaxTagLoop \in Nat
  BY BoundsAssumption
<1>2. 0 \in S
  <2>1. \A q \in Tables : W[0][q] = Exhausted
    BY <1>1, NewindexSteps
  <2> QED
    BY <2>1 DEF Exhausted
<1>3. ASSUME NEW n \in Nat, n \in S PROVE n + 1 \in S
  <2> SUFFICES ASSUME n + 1 <= MaxTagLoop, NEW q \in Tables, W[n + 1][q].r = "store"
               PROVE  W[n + 1][q].on \in Tables
    OBVIOUS
  <2> DEFINE mm == raw_get(h, h.table[q].metatable, "__newindex")
  <2>1. n + 1 \in 0..MaxTagLoop /\ n + 1 # 0 /\ (n + 1) - 1 = n /\ n <= MaxTagLoop
    BY <1>1
  <2>2. \/ W[n + 1][q] = RawSet(q)
        \/ mm \in Tables /\ W[n + 1][q] = W[n][mm]
        \/ W[n + 1][q] = Invoke(mm, q)
    <3>1. W[n + 1][q] =
                IF n + 1 = 0 THEN Exhausted
                ELSE IF raw_get(h, q, k) # Nil \/ ~has_mm(h, q, "__newindex") THEN RawSet(q)
                ELSE IF mm = Nil THEN RawSet(q)
                ELSE IF mm \in Tables THEN W[(n + 1) - 1][mm]
                ELSE Invoke(mm, q)
      BY <2>1, NewindexSteps
    <3> HIDE DEF W, mm
    <3> QED
      BY <2>1, <3>1
  <2> HIDE DEF W, mm
  <2> QED
    BY <1>3, <2>1, <2>2 DEF RawSet, Invoke
<1>4. MaxTagLoop \in S
  <2> HIDE DEF S
  <2> QED
    BY <1>1, <1>2, <1>3, SetInduction
<1>5. walk_newindex_chain(h, t, k).r = "store" => walk_newindex_chain(h, t, k).on \in Tables
  BY <1>1, <1>4 DEF walk_newindex_chain
<1> QED
  BY <1>5 DEF settable, RawSet
-----------------------------------------------------------------------------
(* The invariant                                                           *)

\* The invariant, by heap and caches.
LEMMA InvParts ==
    IInv <=> /\ HeapTypes(heap) /\ HeapInv(heap)
             /\ ic \in [Sites -> InlineCache] /\ FreshIn(heap, ic)
<1>1. heap.shape = shape /\ heap.table = table /\ heap.mtc = mtc
  BY DEF heap
<1>2. TypeOK <=> HeapTypes(heap) /\ ic \in [Sites -> InlineCache]
  BY <1>1 DEF TypeOK, HeapTypes, heap
<1>3. CachesAreFresh <=> FreshIn(heap, ic)
  BY <1>1 DEF CachesAreFresh, FreshIn
<1> QED
  BY <1>2, <1>3 DEF IInv

\* The same of the next state.
LEMMA NextInvParts ==
    IInv' <=> /\ HeapTypes(heap') /\ HeapInv(heap')
              /\ ic' \in [Sites -> InlineCache] /\ FreshIn(heap', ic')
<1>1. heap'.shape = shape' /\ heap'.table = table' /\ heap'.mtc = mtc'
  BY DEF heap
<1>2. TypeOK' <=> HeapTypes(heap') /\ ic' \in [Sites -> InlineCache]
  BY <1>1 DEF TypeOK, HeapTypes, heap
<1>3. CachesAreFresh' <=> FreshIn(heap', ic')
  BY <1>1 DEF CachesAreFresh, FreshIn
<1> QED
  BY <1>2, <1>3 DEF IInv

\* Filled caches stay fresh while shapes stay.
LEMMA StayFresh ==
    ASSUME NEW h, NEW g, NEW c \in [Sites -> InlineCache], FreshIn(h, c), Extends(h, g)
    PROVE  FreshIn(g, c)
<1> SUFFICES ASSUME NEW i \in Sites, c[i].shape # NoShape
             PROVE  /\ g.shape[c[i].shape].live
                    /\ c[i].slot = find_slot(g.shape[c[i].shape], SiteKey[i])
  BY DEF FreshIn
<1>1. c[i].shape \in ShapeIds
  BY DEF InlineCache
<1>2. h.shape[c[i].shape].live /\ c[i].slot = find_slot(h.shape[c[i].shape], SiteKey[i])
  BY DEF FreshIn
<1>3. g.shape[c[i].shape].live
      /\ g.shape[c[i].shape].descriptors = h.shape[c[i].shape].descriptors
  BY <1>1, <1>2, SameFace DEF Extends
<1> QED
  BY <1>2, <1>3, SameSlot

\* A cache that is filled is fresh.
LEMMA FillFresh ==
    ASSUME NEW h, HeapTypes(h), HeapInv(h), NEW c \in [Sites -> InlineCache], FreshIn(h, c),
           NEW i \in Sites, NEW t \in Tables
    PROVE  LET d == [c EXCEPT ![i] = fill_ic_for_constant_key(h, i, t)] IN
           d \in [Sites -> InlineCache] /\ FreshIn(h, d)
<1> DEFINE s == h.table[t].shape
           e == fill_ic_for_constant_key(h, i, t)
<1>1. s \in ShapeIds /\ h.shape[s].live /\ h.shape[s].descriptors \in Seq(Keys)
  BY HeapParts DEF HeapInv, TablesInv
<1>2. e.shape = s /\ e.slot = find_slot(h.shape[s], SiteKey[i])
  BY DEF fill_ic_for_constant_key
<1>3. find_slot(h.shape[s], SiteKey[i]) \in 0..MaxProps
  <2>1. find_slot(h.shape[s], SiteKey[i]) \in 0..Len(h.shape[s].descriptors)
    BY <1>1, FindSlot
  <2>2. Len(h.shape[s].descriptors) <= MaxProps /\ Len(h.shape[s].descriptors) \in Nat
    BY <1>1, LenProperties DEF HeapTypes
  <2> QED
    BY <2>1, <2>2, BoundsAssumption
<1>4. e \in InlineCache
  BY <1>1, <1>3 DEF fill_ic_for_constant_key, InlineCache
<1> HIDE DEF e
<1> DEFINE d == [c EXCEPT ![i] = e]
<1>5. d \in [Sites -> InlineCache] /\ \A j \in Sites : d[j] = IF j = i THEN e ELSE c[j]
  BY <1>4
<1> HIDE DEF d
<1>6. FreshIn(h, d)
  BY <1>1, <1>2, <1>5 DEF FreshIn
<1> QED
  BY <1>5, <1>6 DEF d, e

\* The state an action ends in, as a heap.
LEMMA Becomes ==
    ASSUME NEW g, HeapTypes(g), Become(g)
    PROVE  heap' = g
BY HeapParts DEF Become, heap

\* An action that leaves a sound heap, in which shapes stayed, keeps the invariant.
LEMMA SoundStep ==
    ASSUME IInv, NEW g, HeapTypes(g), HeapInv(g), Extends(heap, g), Become(g),
           ic' \in [Sites -> InlineCache], FreshIn(heap, ic')
    PROVE  IInv'
<1>1. heap' = g
  BY Becomes
<1>2. FreshIn(heap', ic')
  BY <1>1, StayFresh
<1> QED
  BY <1>1, <1>2, NextInvParts

\* The program's assignments.
LEMMA StoreTypes ==
    ASSUME NEW w \in Stores
    PROVE  w[1] \in Tables /\ w[2] \in Keys /\ w[3] \in Values
BY StoresAssumption

\* rawset, and the store an assignment comes to
LEMMA RawSetStep ==
    ASSUME IInv, Room, NEW t \in Tables, NEW k \in Keys, NEW v \in Values,
           Become(raw_set(heap, t, k, v)),
           ic' \in [Sites -> InlineCache], FreshIn(heap, ic')
    PROVE  IInv' /\ Stored(heap, heap', t, k, v)
<1> DEFINE g == raw_set(heap, t, k, v)
<1>1. HeapTypes(g) /\ HeapInv(g) /\ Extends(heap, g) /\ Stored(heap, g, t, k, v)
  BY InvParts, RawSetStores DEF Room
<1> HIDE DEF g
<1>2. Become(g)
  BY DEF g
<1> QED
  BY <1>1, <1>2, SoundStep, Becomes

\* A hit stores at the slot that a lookup would find.
LEMMA HitStep ==
    ASSUME IInv, NEW i \in Sites, NEW t \in Tables, NEW v \in Values,
           set_hits(heap, i, t), Become(store_at_hit(heap, i, t, v)), UNCHANGED ic
    PROVE  IInv' /\ Stored(heap, heap', t, SiteKey[i], v)
<1> DEFINE slot == find_slot(heap.shape[heap.table[t].shape], SiteKey[i])
           g == maybe_update_mt_bit([heap EXCEPT !.table[t].properties[slot] = v],
                                    t, SiteKey[i], v)
<1>1. /\ HeapTypes(heap) /\ HeapInv(heap) /\ ic \in [Sites -> InlineCache]
      /\ FreshIn(heap, ic) /\ SiteKey[i] \in Keys
  BY InvParts, StoresAssumption
<1>2. ic[i].slot = slot /\ slot # ABSENT_SLOT
  <2>1. ic[i].slot # ABSENT_SLOT /\ ic[i].shape = heap.table[t].shape
    BY DEF set_hits, ic_check
  <2>2. ic[i].shape # NoShape
    BY <1>1, <2>1, HeapParts
  <2> QED
    BY <1>1, <2>1, <2>2 DEF FreshIn
<1>3. store_at_hit(heap, i, t, v) = g
  BY <1>2 DEF store_at_hit
<1>4. HeapTypes(g) /\ HeapInv(g) /\ Extends(heap, g) /\ Stored(heap, g, t, SiteKey[i], v)
  BY <1>1, <1>2, SlotStore
<1> HIDE DEF g
<1>5. Become(g)
  BY <1>3
<1> QED
  BY <1>1, <1>4, <1>5, SoundStep, Becomes

\* setmetatable
LEMMA SetMetatableStep ==
    ASSUME IInv, Room, NEW t \in Tables, NEW mt \in Classes \cup {None},
           Become(set_metatable(heap, t, mt)), UNCHANGED ic
    PROVE  IInv' /\ MetatableSet(heap, heap', t, mt)
<1> DEFINE g == set_metatable(heap, t, mt)
<1>1. /\ HeapTypes(heap) /\ HeapInv(heap) /\ ic \in [Sites -> InlineCache]
      /\ FreshIn(heap, ic) /\ mt \in Metatables
  BY InvParts, BoundsAssumption DEF Metatables
<1>2. HeapTypes(g) /\ HeapInv(g) /\ Extends(heap, g) /\ MetatableSet(heap, g, t, mt)
  BY <1>1, SetMetatable DEF Room
<1> HIDE DEF g
<1>3. Become(g)
  BY DEF g
<1> QED
  BY <1>1, <1>2, <1>3, SoundStep, Becomes

\* The collection of a shape takes its edges along, and nothing else.
LEMMA CollectStep ==
    ASSUME IInv, collect
    PROVE  IInv' /\ Unseen(heap, heap')
<1> DEFINE h == heap
           g == heap'
<1>1. PICK s \in ShapeIds :
        /\ shape[s].live /\ ~Held(s)
        /\ shape' = [p \in ShapeIds |->
              IF p = s THEN Unused
              ELSE [shape[p] EXCEPT
                      !.by_prop = [k \in Keys |-> IF @[k] = s THEN NoShape ELSE @[k]],
                      !.by_mt = [m \in Metatables |-> IF @[m] = s THEN NoShape ELSE @[m]]]]
        /\ UNCHANGED <<table, mtc, ic>>
  BY DEF collect
<1>2. /\ HeapTypes(h) /\ HeapInv(h) /\ ic \in [Sites -> InlineCache] /\ FreshIn(h, ic)
      /\ h.shape = shape /\ h.table = table /\ h.mtc = mtc
      /\ g.shape = shape' /\ g.table = h.table /\ g.mtc = h.mtc /\ ic' = ic
      /\ g = [shape |-> shape', table |-> table, mtc |-> mtc]
  BY <1>1, InvParts DEF heap
<1> HIDE DEF h, g
<1>3. g.shape[s] = Unused
  BY <1>1, <1>2
<1>4. ASSUME NEW p \in ShapeIds, p # s
      PROVE  /\ g.shape[p] \in ShapeData
             /\ g.shape[p].live = h.shape[p].live /\ Face(g.shape[p]) = Face(h.shape[p])
             /\ g.shape[p].descriptors = h.shape[p].descriptors
             /\ \A k \in Keys : g.shape[p].by_prop[k] # NoShape =>
                   g.shape[p].by_prop[k] = h.shape[p].by_prop[k] /\ h.shape[p].by_prop[k] # s
             /\ \A m \in Metatables : g.shape[p].by_mt[m] # NoShape =>
                   g.shape[p].by_mt[m] = h.shape[p].by_mt[m] /\ h.shape[p].by_mt[m] # s
  <2> DEFINE sh == h.shape[p]
             bp == [k \in Keys |-> IF sh.by_prop[k] = s THEN NoShape ELSE sh.by_prop[k]]
             bm == [m \in Metatables |-> IF sh.by_mt[m] = s THEN NoShape ELSE sh.by_mt[m]]
  <2>1. g.shape[p] = [sh EXCEPT !.by_prop = bp, !.by_mt = bm]
    <3>1. shape'[p] = [shape[p] EXCEPT
              !.by_prop = [k \in Keys |-> IF shape[p].by_prop[k] = s
                                          THEN NoShape ELSE shape[p].by_prop[k]],
              !.by_mt = [m \in Metatables |-> IF shape[p].by_mt[m] = s
                                              THEN NoShape ELSE shape[p].by_mt[m]]]
      <4> HIDE DEF sh, bp, bm
      <4> QED
        BY <1>1, <1>4
    <3>2. h.shape[p] = shape[p] /\ g.shape[p] = shape'[p]
      BY <1>2
    <3> QED
      BY <3>1, <3>2
  <2>2. sh \in ShapeData /\ bp \in [Keys -> ShapeIds \cup {NoShape}]
        /\ bm \in [Metatables -> ShapeIds \cup {NoShape}]
    BY <1>2, HeapParts
  <2>3. /\ \A k \in Keys : bp[k] # NoShape => bp[k] = sh.by_prop[k] /\ sh.by_prop[k] # s
        /\ \A m \in Metatables : bm[m] # NoShape => bm[m] = sh.by_mt[m] /\ sh.by_mt[m] # s
    OBVIOUS
  <2> HIDE DEF sh, bp, bm
  <2>4. /\ g.shape[p] \in ShapeData
        /\ g.shape[p].live = sh.live /\ Face(g.shape[p]) = Face(sh)
        /\ g.shape[p].descriptors = sh.descriptors
        /\ g.shape[p].by_prop = bp /\ g.shape[p].by_mt = bm
    BY <2>1, <2>2 DEF ShapeData, Face
  <2> QED
    BY <2>3, <2>4 DEF sh
<1>5. /\ s # empty_shape /\ s # empty_dict_sentinel
      /\ \A t \in Tables : h.table[t].shape # s /\ h.mtc[t].dict_sentinel # s
      /\ \A i \in Sites : ic[i].shape # s
  BY <1>1, <1>2 DEF Held
<1>6. HeapTypes(g)
  <2>1. \A p \in ShapeIds : g.shape[p] \in ShapeData /\ Len(g.shape[p].descriptors) <= MaxProps
    BY <1>2, <1>3, <1>4, ShapeTypes, BoundsAssumption DEF HeapTypes
  <2>2. g.shape \in [ShapeIds -> ShapeData]
    BY <1>1, <1>2, <2>1
  <2> QED
    BY <1>2, <2>1, <2>2 DEF HeapTypes
<1>7. EdgesInv(g)
  <2>1. ASSUME NEW p \in ShapeIds, NEW k \in Keys, g.shape[p].by_prop[k] # NoShape
        PROVE  PropEdge(g, p, k, g.shape[p].by_prop[k])
    <3> DEFINE c == g.shape[p].by_prop[k]
    <3>1. p # s
      BY <1>3, <2>1 DEF Unused
    <3>2. c = h.shape[p].by_prop[k] /\ c # s /\ c \in ShapeIds
      BY <1>2, <1>4, <2>1, <3>1, HeapParts
    <3> HIDE DEF c
    <3>3. PropEdge(h, p, k, c)
      BY <1>2, <2>1, <3>2, HeapParts DEF HeapInv, TreeInv, EdgesInv
    <3>4. /\ g.shape[c].live = h.shape[c].live /\ Face(g.shape[c]) = Face(h.shape[c])
          /\ Face(g.shape[p]) = Face(h.shape[p])
      BY <1>4, <3>1, <3>2
    <3>5. PropEdge(g, p, k, c)
      BY <3>3, <3>4 DEF PropEdge, Face
    <3> QED
      BY <3>5 DEF c
  <2>2. ASSUME NEW p \in ShapeIds, NEW m \in Metatables, g.shape[p].by_mt[m] # NoShape
        PROVE  MtEdge(g, p, m, g.shape[p].by_mt[m])
    <3> DEFINE c == g.shape[p].by_mt[m]
    <3>1. p # s
      BY <1>3, <2>2 DEF Unused
    <3>2. c = h.shape[p].by_mt[m] /\ c # s /\ c \in ShapeIds
      BY <1>2, <1>4, <2>2, <3>1, HeapParts
    <3> HIDE DEF c
    <3>3. MtEdge(h, p, m, c)
      BY <1>2, <2>2, <3>2, HeapParts DEF HeapInv, TreeInv, EdgesInv
    <3>4. /\ g.shape[c].live = h.shape[c].live /\ Face(g.shape[c]) = Face(h.shape[c])
          /\ Face(g.shape[p]) = Face(h.shape[p])
      BY <1>4, <3>1, <3>2
    <3>5. MtEdge(g, p, m, c)
      BY <3>3, <3>4 DEF MtEdge, Face
    <3> QED
      BY <3>5 DEF c
  <2> QED
    BY <2>1, <2>2 DEF EdgesInv
<1>8. NodesInv(g)
  <2>1. ASSUME NEW p \in ShapeIds, g.shape[p].live PROVE Node(g, g.shape[p])
    <3>1. p # s
      BY <1>3, <2>1 DEF Unused
    <3>2. h.shape[p].live /\ Face(g.shape[p]) = Face(h.shape[p])
      BY <1>4, <2>1, <3>1
    <3>3. Node(h, h.shape[p])
      BY <1>2, <3>2 DEF HeapInv, TreeInv, NodesInv
    <3> QED
      BY <1>2, <3>2, <3>3, SameFace DEF Node
  <2>2. empty_shape \in ShapeIds /\ empty_dict_sentinel \in ShapeIds
    BY <1>2, HeapParts
  <2> QED
    BY <1>2, <1>4, <1>5, <2>1, <2>2 DEF HeapInv, TreeInv, NodesInv
<1>9. CachesInv(g)
  <2> SUFFICES ASSUME NEW t \in Tables, NEW d, d = h.mtc[t].dict_sentinel
               PROVE  /\ ~h.mtc[t].made => d = NoShape
                      /\ d # NoShape =>
                            g.shape[d].live /\ Face(g.shape[d]) = Face(dict_sentinel(t))
    BY <1>2 DEF CachesInv
  <2>1. d # s /\ d \in ShapeIds \cup {NoShape}
    BY <1>2, <1>5, HeapParts
  <2> QED
    BY <1>2, <1>4, <2>1 DEF HeapInv, TreeInv, CachesInv
<1>10. ASSUME NEW t \in Tables
       PROVE  LET p == h.table[t].shape IN
              /\ p \in ShapeIds /\ g.table[t].shape = p
              /\ g.shape[p].live = h.shape[p].live /\ Face(g.shape[p]) = Face(h.shape[p])
              /\ g.shape[p].descriptors = h.shape[p].descriptors
  BY <1>2, <1>4, <1>5, HeapParts
<1>11. TablesInv(g)
  BY <1>2, <1>10, SameFace DEF HeapInv, TablesInv
<1>12. \A t \in Tables : \A k : raw_get(g, t, k) = raw_get(h, t, k)
  BY <1>2, <1>10, SameSlot DEF raw_get
<1>13. BitsInv(g)
  BY <1>2, <1>12 DEF HeapInv, BitsInv
<1>14. FreshIn(g, ic')
  <2> SUFFICES ASSUME NEW i \in Sites, NEW p, p = ic[i].shape, p # NoShape
               PROVE  g.shape[p].live /\ ic[i].slot = find_slot(g.shape[p], SiteKey[i])
    BY <1>2 DEF FreshIn
  <2>1. p \in ShapeIds /\ p # s
    BY <1>2, <1>5 DEF InlineCache
  <2>2. h.shape[p].live /\ ic[i].slot = find_slot(h.shape[p], SiteKey[i])
    BY <1>2 DEF FreshIn
  <2> QED
    BY <1>4, <2>1, <2>2, SameSlot
<1>15. IInv'
  BY <1>2, <1>6, <1>7, <1>8, <1>9, <1>11, <1>13, <1>14, NextInvParts DEF HeapInv, TreeInv, g
<1> QED
  BY <1>2, <1>12, <1>15 DEF Unseen, g, h

\* The initial state satisfies the invariant.
LEMMA InitInv == Init => IInv
<1> SUFFICES ASSUME Init PROVE IInv
  OBVIOUS
<1>0. /\ empty_shape \in ShapeIds /\ empty_dict_sentinel \in ShapeIds
      /\ empty_shape # empty_dict_sentinel /\ NoShape \notin ShapeIds
  BY BoundsAssumption DEF empty_shape, empty_dict_sentinel, ShapeIds, NoShape
<1>1. \A s \in ShapeIds :
          shape[s] = IF s = empty_shape THEN root_empty
                     ELSE IF s = empty_dict_sentinel THEN dict_sentinel(None) ELSE Unused
  BY DEF Init
<1>2. /\ root_empty.live /\ dict_sentinel(None).live /\ ~Unused.live
      /\ root_empty.descriptors = <<>> /\ dict_sentinel(None).descriptors = <<>>
      /\ root_empty.is_dict = FALSE /\ root_empty.mt_cache = None
      /\ dict_sentinel(None).mt_cache = None
      /\ \A k \in Keys : /\ root_empty.by_prop[k] = NoShape
                         /\ dict_sentinel(None).by_prop[k] = NoShape
                         /\ Unused.by_prop[k] = NoShape
      /\ \A m \in Metatables : /\ root_empty.by_mt[m] = NoShape
                               /\ dict_sentinel(None).by_mt[m] = NoShape
                               /\ Unused.by_mt[m] = NoShape
  BY DEF root_empty, dict_sentinel, Unused
<1>3. shape \in [ShapeIds -> ShapeData]
      /\ \A s \in ShapeIds : Len(shape[s].descriptors) <= MaxProps
  <2>1. \A s \in ShapeIds : shape[s] \in ShapeData /\ shape[s].descriptors = <<>>
    BY <1>1, <1>2, ShapeTypes DEF Metatables
  <2>2. shape \in [ShapeIds -> ShapeData]
    BY <2>1 DEF Init
  <2> QED
    BY <2>1, <2>2, ShapeTypes, BoundsAssumption
<1>4. \A t \in Tables : table[t] = [shape |-> empty_shape, properties |-> <<>>, is_dict |-> FALSE,
                                    dict |-> [k \in Keys |-> Nil], metatable |-> None]
  BY DEF Init
<1>5. table \in [Tables -> TableState] /\ \A t \in Tables : Len(table[t].properties) <= MaxProps
  <2>1. <<>> \in Seq(Values) /\ Len(<<>>) = 0
    BY EmptySeq
  <2>2. [k \in Keys |-> Nil] \in [Keys -> Values] /\ None \in Metatables
    BY DEF Values, Metatables
  <2>3. [shape |-> empty_shape, properties |-> <<>>, is_dict |-> FALSE,
         dict |-> [k \in Keys |-> Nil], metatable |-> None] \in TableState
    BY <1>0, <2>1, <2>2 DEF TableState
  <2> QED
    BY <1>4, <2>1, <2>3, BoundsAssumption DEF Init
<1>6. \A t \in Tables : mtc[t] = [made |-> FALSE, bits |-> {}, dict_sentinel |-> NoShape]
  BY DEF Init
<1>7. mtc \in [Tables -> MtCacheData]
  BY <1>6 DEF Init, MtCacheData
<1>8. ic \in [Sites -> InlineCache] /\ \A i \in Sites : ic[i].shape = NoShape
  BY BoundsAssumption DEF Init, InlineCache, ABSENT_SLOT
<1>9. heap.shape = shape /\ heap.table = table /\ heap.mtc = mtc
  BY DEF heap
<1>10. HeapTypes(heap)
  BY <1>3, <1>5, <1>7, <1>9 DEF HeapTypes, heap
<1>11. EdgesInv(heap)
  <2>1. \A s \in ShapeIds : /\ \A k \in Keys : shape[s].by_prop[k] = NoShape
                            /\ \A m \in Metatables : shape[s].by_mt[m] = NoShape
    BY <1>1, <1>2
  <2> QED
    BY <1>9, <2>1 DEF EdgesInv
<1>12. NodesInv(heap)
  <2>1. shape[empty_shape] = root_empty /\ shape[empty_dict_sentinel] = dict_sentinel(None)
    BY <1>0, <1>1
  <2>2. ASSUME NEW s \in ShapeIds, shape[s].live PROVE Node(heap, shape[s])
    <3>1. shape[s].descriptors = <<>> /\ shape[s].mt_cache = None
      BY <1>1, <1>2, <2>2
    <3> QED
      BY <3>1, ShapeTypes DEF Node
  <2> QED
    BY <1>2, <1>9, <2>1, <2>2 DEF NodesInv
<1>13. CachesInv(heap)
  BY <1>6, <1>9 DEF CachesInv
<1>14. TablesInv(heap)
  <2>1. shape[empty_shape] = root_empty
    BY <1>0, <1>1
  <2>2. \A t \in Tables : /\ table[t].shape = empty_shape /\ table[t].properties = <<>>
                          /\ table[t].is_dict = FALSE /\ table[t].metatable = None
    BY <1>4
  <2> QED
    BY <1>2, <1>9, <2>1, <2>2 DEF TablesInv
<1>15. BitsInv(heap)
  BY <1>6, <1>9 DEF BitsInv
<1>16. FreshIn(heap, ic)
  BY <1>8 DEF FreshIn
<1> QED
  BY <1>8, <1>10, <1>11, <1>12, <1>13, <1>14, <1>15, <1>16, InvParts DEF HeapInv, TreeInv

\* Every step keeps the invariant, and does to the program's tables what one
\* step of a program does, or nothing.
LEMMA NextStep ==
    ASSUME IInv, Next
    PROVE  /\ IInv'
           /\ \/ \E t \in Tables, k \in Keys, v \in Values : Stored(heap, heap', t, k, v)
              \/ \E t \in Tables, mt \in Classes \cup {None} :
                    /\ heap.table[t].metatable # None =>
                          raw_get(heap, heap.table[t].metatable, "__metatable") = Nil
                    /\ MetatableSet(heap, heap', t, mt)
              \/ Unseen(heap, heap')
<1>1. /\ HeapTypes(heap) /\ HeapInv(heap)
      /\ ic \in [Sites -> InlineCache] /\ FreshIn(heap, ic)
      /\ heap.table = table
  BY InvParts DEF heap
<1>2. CASE lua_rawset
  <2>1. PICK w \in Stores : Become(raw_set(heap, w[1], w[2], w[3])) /\ UNCHANGED ic
    BY <1>2 DEF lua_rawset
  <2>2. Room
    BY <1>2 DEF lua_rawset
  <2>3. IInv' /\ Stored(heap, heap', w[1], w[2], w[3])
    BY <1>1, <2>1, <2>2, StoreTypes, RawSetStep
  <2> QED
    BY <2>3, StoreTypes
<1>3. CASE op_settable
  <2>1. PICK w \in Stores :
          LET s == settable(heap, w[1], w[2])
          IN  s.r = "store" /\ Become(raw_set(heap, s.on, w[2], w[3])) /\ UNCHANGED ic
    BY <1>3 DEF op_settable
  <2> DEFINE on == settable(heap, w[1], w[2]).on
  <2>2. Room
    BY <1>3 DEF op_settable
  <2>3. on \in Tables /\ w[2] \in Keys /\ w[3] \in Values
    BY <2>1, StoreTypes, StoresInTable
  <2>4. Become(raw_set(heap, on, w[2], w[3])) /\ UNCHANGED ic
    BY <2>1
  <2> HIDE DEF on
  <2>5. IInv' /\ Stored(heap, heap', on, w[2], w[3])
    BY <1>1, <2>2, <2>3, <2>4, RawSetStep
  <2> QED
    BY <2>3, <2>5
<1>4. CASE op_getfield
  <2>1. PICK i \in Sites, t \in Tables :
          /\ ic' = [ic EXCEPT ![i] = fill_ic_for_constant_key(heap, i, t)]
          /\ UNCHANGED <<shape, table, mtc>>
    BY <1>4 DEF op_getfield
  <2>2. heap' = heap
    BY <2>1 DEF heap
  <2>3. ic' \in [Sites -> InlineCache] /\ FreshIn(heap, ic')
    BY <1>1, <2>1, FillFresh
  <2> QED
    BY <1>1, <2>2, <2>3, NextInvParts DEF Unseen
<1>5. CASE op_setfield_hit
  <2>1. PICK i \in Sites, w \in Stores :
          /\ w[2] = SiteKey[i] /\ set_hits(heap, i, w[1])
          /\ Become(store_at_hit(heap, i, w[1], w[3])) /\ UNCHANGED ic
    BY <1>5 DEF op_setfield_hit
  <2>2. IInv' /\ Stored(heap, heap', w[1], SiteKey[i], w[3])
    BY <2>1, StoreTypes, HitStep
  <2> QED
    BY <2>1, <2>2, StoreTypes
<1>6. CASE op_setfield_slow
  <2>1. PICK i \in Sites, w \in Stores :
          /\ w[2] = SiteKey[i] /\ ~set_hits(heap, i, w[1])
          /\ ic' = [ic EXCEPT ![i] = fill_ic_for_constant_key(heap, i, w[1])]
          /\ LET s == setfield(heap, i, w[1])
             IN  Become(IF s.r = "store" THEN raw_set(heap, s.on, w[2], w[3]) ELSE heap)
    BY <1>6 DEF op_setfield_slow
  <2> DEFINE s == setfield(heap, i, w[1])
  <2>2. Room
    BY <1>6 DEF op_setfield_slow
  <2>3. w[1] \in Tables /\ w[2] \in Keys /\ w[3] \in Values
    BY StoreTypes
  <2>4. s = walk_newindex_chain(heap, w[1], SiteKey[i])
    BY <2>1 DEF setfield
  <2>5. s.r = "store" => s.on \in Tables
    BY <2>3, <2>4, StoresInTable
  <2>6. Become(IF s.r = "store" THEN raw_set(heap, s.on, w[2], w[3]) ELSE heap)
    BY <2>1
  <2> HIDE DEF s
  <2>7. ic' \in [Sites -> InlineCache] /\ FreshIn(heap, ic')
    BY <1>1, <2>1, <2>3, FillFresh
  <2>8. CASE s.r = "store"
    <3>1. IInv' /\ Stored(heap, heap', s.on, w[2], w[3])
      BY <2>2, <2>3, <2>5, <2>6, <2>7, <2>8, RawSetStep
    <3> QED
      BY <2>3, <2>5, <2>8, <3>1
  <2>9. CASE s.r # "store"
    <3>1. heap' = heap
      BY <1>1, <2>6, <2>9, Becomes
    <3> QED
      BY <1>1, <2>7, <3>1, NextInvParts DEF Unseen
  <2> QED
    BY <2>8, <2>9
<1>7. CASE lua_setmetatable
  <2>1. PICK t \in Tables, mt \in Classes \cup {None} :
          LET old == table[t].metatable
          IN  /\ old # None => raw_get(heap, old, "__metatable") = Nil
              /\ Become(set_metatable(heap, t, mt)) /\ UNCHANGED ic
    BY <1>7 DEF lua_setmetatable
  <2>2. Room
    BY <1>7 DEF lua_setmetatable
  <2>3. IInv' /\ MetatableSet(heap, heap', t, mt)
    BY <2>1, <2>2, SetMetatableStep
  <2> QED
    BY <1>1, <2>1, <2>3
<1>8. CASE collect
  BY <1>8, CollectStep
<1> QED
  BY <1>2, <1>3, <1>4, <1>5, <1>6, <1>7, <1>8 DEF Next
-----------------------------------------------------------------------------
(* Theorems                                                                *)

\* Shapes, metamethod bits and inline caches stay in step with the tables, in
\* every interleaving of stores, metatable changes, cache fills and collections.
THEOREM ShapesInvariance == Spec => []IInv
<1>1. IInv /\ UNCHANGED vars => IInv'
  <2> SUFFICES ASSUME IInv, UNCHANGED vars PROVE IInv'
    OBVIOUS
  <2>1. heap' = heap /\ ic' = ic
    BY DEF vars, heap
  <2> QED
    BY <2>1, InvParts, NextInvParts
<1>2. IInv /\ [Next]_vars => IInv'
  BY <1>1, NextStep
<1> QED
  BY <1>2, InitInv, PTL DEF Spec

\* Every field holds a value of its type, and no table in fast mode outgrows
\* MAX_PROPERTIES_FAST.
THEOREM ShapesTypeCorrect == Spec => []TypeOK
BY ShapesInvariance, PTL DEF IInv

\* A table's storage has the layout its shape describes: slot accesses are in
\* bounds, and the unwrap_unchecked of a metatable finds one.
THEOREM LayoutsAgree == Spec => []LayoutAgrees
<1>1. IInv => LayoutAgrees
  <2> SUFFICES ASSUME IInv PROVE LayoutAgrees
    OBVIOUS
  <2>1. HeapTypes(heap) /\ HeapInv(heap) /\ TypeOK
    BY InvParts DEF IInv
  <2>2. heap.shape = shape /\ heap.table = table /\ heap.mtc = mtc
    BY DEF heap
  <2>3. ASSUME NEW t \in Tables
        PROVE  /\ table[t].shape \in ShapeIds /\ ShapeOf(t).live
               /\ ShapeOf(t).is_dict = table[t].is_dict
               /\ Len(table[t].properties) = Len(ShapeOf(t).descriptors)
               /\ ShapeOf(t).mt_cache = table[t].metatable
    BY <2>1, <2>2, HeapParts DEF HeapInv, TablesInv, ShapeOf
  <2>4. ASSUME NEW t \in Tables PROVE Node(heap, ShapeOf(t))
    BY <2>1, <2>2, <2>3 DEF HeapInv, TreeInv, NodesInv, ShapeOf
  <2> QED
    BY <2>1, <2>2, <2>3, <2>4 DEF LayoutAgrees, Node
<1> QED
  BY <1>1, ShapesInvariance, PTL

\* The bits of an adopted metatable are the metamethods it defines, whichever
\* path last wrote them.
THEOREM BitsStayLive == Spec => []BitsAreLive
<1>1. IInv => BitsAreLive
  BY InvParts DEF HeapInv, BitsInv, BitsAreLive, heap
<1> QED
  BY <1>1, ShapesInvariance, PTL

\* A filled inline cache holds what a fresh lookup in its shape would find,
\* however long ago it was filled and whatever was collected since.
THEOREM CachesStayFresh == Spec => []CachesAreFresh
BY ShapesInvariance, PTL DEF IInv
-----------------------------------------------------------------------------
(* Shapes implement LuaTables                                              *)

\* The program's view of the initial state, and of each step.
LEMMA ProgramInit == Init => Program!Init
<1> SUFFICES ASSUME Init PROVE Program!Init
  OBVIOUS
<1>1. \A t \in Tables : table[t] = [shape |-> empty_shape, properties |-> <<>>, is_dict |-> FALSE,
                                    dict |-> [k \in Keys |-> Nil], metatable |-> None]
  BY DEF Init
<1>2. \A t \in Tables : heap.table[t].shape = empty_shape /\ heap.table[t].is_dict = FALSE
                        /\ table[t].metatable = None /\ heap.shape = shape
  BY <1>1 DEF heap
<1>3. shape[empty_shape].descriptors = <<>>
  BY BoundsAssumption DEF Init, empty_shape, ShapeIds, root_empty, Unused
<1>4. \A k : find_slot(shape[empty_shape], k) = ABSENT_SLOT
  <2>1. <<>> \in Seq(Keys) /\ Len(<<>>) = 0
    BY EmptySeq
  <2>2. \A k : find_slot(shape[empty_shape], k) \in 0..0
    BY <1>3, <2>1, FindSlot
  <2> QED
    BY <2>2 DEF ABSENT_SLOT
<1>5. \A t \in Tables : \A k \in Keys : raw_get(heap, t, k) = Nil
  BY <1>2, <1>4 DEF raw_get
<1> QED
  BY <1>2, <1>5 DEF Program!Init, Program!Nil, Program!None, Nil, None

\* Every step is a step of LuaTables or leaves its variables alone.
LEMMA ProgramStep ==
    ASSUME IInv, [Next]_vars
    PROVE  [Program!Next]_<<[t \in Tables |-> [k \in Keys |-> raw_get(heap, t, k)]],
                            [t \in Tables |-> table[t].metatable]>>
<1> DEFINE content == [t \in Tables |-> [k \in Keys |-> raw_get(heap, t, k)]]
           meta == [t \in Tables |-> table[t].metatable]
<1>1. heap.table = table /\ heap'.table = table'
  BY DEF heap
<1>2. ASSUME Unseen(heap, heap') PROVE content' = content /\ meta' = meta
  BY <1>1, <1>2 DEF Unseen
<1>3. ASSUME NEW t \in Tables, NEW k \in Keys, NEW v \in Values, Stored(heap, heap', t, k, v)
      PROVE  Program!rawset(t, k, v)
  <2>1. meta' = meta
    BY <1>1, <1>3 DEF Stored
  <2>2. content' = [content EXCEPT ![t][k] = v]
    BY <1>3 DEF Stored
  <2> QED
    BY <2>1, <2>2 DEF Program!rawset
<1>4. ASSUME NEW t \in Tables, NEW mt \in Classes \cup {None},
             heap.table[t].metatable # None =>
                 raw_get(heap, heap.table[t].metatable, "__metatable") = Nil,
             MetatableSet(heap, heap', t, mt)
      PROVE  Program!setmetatable(t, mt)
  <2>1. meta' = [meta EXCEPT ![t] = mt] /\ content' = content
    BY <1>1, <1>4 DEF MetatableSet
  <2>2. Program!Metamethod(t, "__metatable") = Nil
    <3>1. table[t].metatable \in Tables \cup {None}
      BY <1>1, InvParts, HeapParts DEF Metatables
    <3> QED
      BY <1>1, <1>4, <3>1, KeysAssumption DEF Program!Metamethod, Program!None, Program!Nil, None, Nil
  <2> QED
    BY <2>1, <2>2 DEF Program!setmetatable, Program!Nil, Nil
<1>5. CASE UNCHANGED vars
  BY <1>5 DEF vars, heap
<1>6. CASE Next
  <2>1. Program!Values = Values /\ Classes \cup {None} \subseteq Tables \cup {Program!None}
    BY BoundsAssumption DEF Program!Values, Values, Program!Nil, Nil, Program!None, None
  <2>2. CASE \E t \in Tables, k \in Keys, v \in Values : Stored(heap, heap', t, k, v)
    BY <1>3, <2>1, <2>2 DEF Program!Next
  <2>3. CASE \E t \in Tables, mt \in Classes \cup {None} :
                /\ heap.table[t].metatable # None =>
                      raw_get(heap, heap.table[t].metatable, "__metatable") = Nil
                /\ MetatableSet(heap, heap', t, mt)
    BY <1>4, <2>1, <2>3 DEF Program!Next
  <2>4. CASE Unseen(heap, heap')
    BY <1>2, <2>4
  <2> QED
    BY <1>6, <2>2, <2>3, <2>4, NextStep
<1> QED
  BY <1>5, <1>6

\* Tables with hidden classes, dictionary mode and inline caches behave like
\* tables that are maps: every step stores what the program stored, where it
\* stored it, and nothing else.
THEOREM ShapesImplementTables == Spec => TablesBehave
<1>1. Spec => []IInv
  BY ShapesInvariance
<1> QED
  BY <1>1, ProgramInit, ProgramStep, PTL DEF Spec, TablesBehave, Program!Spec
-----------------------------------------------------------------------------
(* Accesses                                                                *)
\* Lua's rule for assigning is what its recursion says.
LEMMA SetSteps ==
    ASSUME NEW k \in Keys
    PROVE  \A n \in 0..MaxTagLoop : \A t \in Tables : Program!SetWithin(k)[n][t] =
                LET mm == Program!Metamethod(t, "__newindex") IN
                IF n = 0 THEN Exhausted
                ELSE IF raw_get(heap, t, k) # Nil \/ mm = Nil THEN RawSet(t)
                ELSE IF mm \in Tables THEN Program!SetWithin(k)[n - 1][mm]
                ELSE Invoke(mm, t)
<1> DEFINE mm(t) == Program!Metamethod(t, "__newindex")
           content == [q \in Tables |-> [j \in Keys |-> raw_get(heap, q, j)]]
           here(t) == content[t][k] # Program!Nil \/ mm(t) = Program!Nil
           z == [t \in Tables |-> Program!Exhausted]
           stop == [t \in Tables |-> here(t) \/ mm(t) \notin Tables]
           r == [t \in Tables |-> IF here(t) THEN Program!RawSet(t) ELSE Program!Invoke(mm(t), t)]
           next == [t \in Tables |-> mm(t)]
           Row(f, n) == [t \in Tables |->
                IF n = 0 THEN Program!Exhausted
                ELSE IF content[t][k] # Program!Nil \/ mm(t) = Program!Nil
                     THEN Program!RawSet(t)
                ELSE IF mm(t) \in Tables THEN f[n - 1][mm(t)]
                ELSE Program!Invoke(mm(t), t)]
<1>1. MaxTagLoop \in Nat
  BY BoundsAssumption
<1>2. \A t \in Tables : ~stop[t] => next[t] \in Tables
  OBVIOUS
<1> HIDE DEF mm, content
<1>3. PICK f : f = [n \in 0..MaxTagLoop |-> [t \in Tables |->
               IF n = 0 THEN z[t] ELSE IF stop[t] THEN r[t] ELSE f[n - 1][next[t]]]]
  <2> HIDE DEF z, stop, r, next
  <2>1. \E f : FollowsChain(f, MaxTagLoop, Tables, z, stop, r, next)
    BY <1>1, <1>2, ChainRecursion
  <2> QED
    BY <2>1 DEF FollowsChain
<1>4. ASSUME NEW n
      PROVE  [t \in Tables |-> IF n = 0 THEN z[t] ELSE IF stop[t] THEN r[t] ELSE f[n - 1][next[t]]]
                 = Row(f, n)
  OBVIOUS
<1>5. f = [n \in 0..MaxTagLoop |-> Row(f, n)]
  <2> HIDE DEF z, stop, r, next, Row
  <2> QED
    BY <1>3, <1>4
<1>6. ASSUME NEW g, NEW n, NEW t \in Tables
      PROVE  Row(g, n)[t] =
                IF n = 0 THEN Exhausted
                ELSE IF raw_get(heap, t, k) # Nil \/ mm(t) = Nil THEN RawSet(t)
                ELSE IF mm(t) \in Tables THEN g[n - 1][mm(t)]
                ELSE Invoke(mm(t), t)
  <2>1. content[t][k] = raw_get(heap, t, k)
    BY DEF content
  <2> QED
    BY <2>1 DEF Program!Exhausted, Exhausted, Program!Nil, Nil, Program!RawSet, RawSet,
                Program!Invoke, Invoke
<1>7. Program!SetWithin(k) = [n \in 0..MaxTagLoop |-> Row(Program!SetWithin(k), n)]
  BY <1>5 DEF Program!SetWithin, mm, content
<1> HIDE DEF Row
<1>8. \A n \in 0..MaxTagLoop : Program!SetWithin(k)[n] = Row(Program!SetWithin(k), n)
  BY <1>7
<1>9. \A n \in 0..MaxTagLoop : \A t \in Tables : Program!SetWithin(k)[n][t] =
                IF n = 0 THEN Exhausted
                ELSE IF raw_get(heap, t, k) # Nil \/ mm(t) = Nil THEN RawSet(t)
                ELSE IF mm(t) \in Tables THEN Program!SetWithin(k)[n - 1][mm(t)]
                ELSE Invoke(mm(t), t)
  BY <1>6, <1>8
<1> QED
  BY <1>9 DEF mm

\* Lua's rule for reading is what its recursion says.
LEMMA GetSteps ==
    ASSUME NEW k \in Keys
    PROVE  \A n \in 0..MaxTagLoop : \A t \in Tables : Program!GetWithin(k)[n][t] =
                LET mm == Program!Metamethod(t, "__index") IN
                IF raw_get(heap, t, k) # Nil \/ mm = Nil THEN Resolved(raw_get(heap, t, k))
                ELSE IF n = 0 THEN Exhausted
                ELSE IF mm \in Tables THEN Program!GetWithin(k)[n - 1][mm]
                ELSE Invoke(mm, t)
<1> DEFINE mm(t) == Program!Metamethod(t, "__index")
           content == [q \in Tables |-> [j \in Keys |-> raw_get(heap, q, j)]]
           here(t) == content[t][k] # Program!Nil \/ mm(t) = Program!Nil
           z == [t \in Tables |-> IF here(t) THEN Program!Resolved(content[t][k])
                                  ELSE Program!Exhausted]
           stop == [t \in Tables |-> here(t) \/ mm(t) \notin Tables]
           r == [t \in Tables |-> IF here(t) THEN Program!Resolved(content[t][k])
                                  ELSE Program!Invoke(mm(t), t)]
           next == [t \in Tables |-> mm(t)]
           Row(f, n) == [t \in Tables |->
                IF content[t][k] # Program!Nil \/ mm(t) = Program!Nil
                THEN Program!Resolved(content[t][k])
                ELSE IF n = 0 THEN Program!Exhausted
                ELSE IF mm(t) \in Tables THEN f[n - 1][mm(t)]
                ELSE Program!Invoke(mm(t), t)]
<1>1. MaxTagLoop \in Nat
  BY BoundsAssumption
<1>2. \A t \in Tables : ~stop[t] => next[t] \in Tables
  OBVIOUS
<1> HIDE DEF mm, content
<1>3. PICK f : f = [n \in 0..MaxTagLoop |-> [t \in Tables |->
               IF n = 0 THEN z[t] ELSE IF stop[t] THEN r[t] ELSE f[n - 1][next[t]]]]
  <2> HIDE DEF z, stop, r, next
  <2>1. \E f : FollowsChain(f, MaxTagLoop, Tables, z, stop, r, next)
    BY <1>1, <1>2, ChainRecursion
  <2> QED
    BY <2>1 DEF FollowsChain
<1>4. ASSUME NEW n
      PROVE  [t \in Tables |-> IF n = 0 THEN z[t] ELSE IF stop[t] THEN r[t] ELSE f[n - 1][next[t]]]
                 = Row(f, n)
  OBVIOUS
<1>5. f = [n \in 0..MaxTagLoop |-> Row(f, n)]
  <2> HIDE DEF z, stop, r, next, Row
  <2> QED
    BY <1>3, <1>4
<1>6. ASSUME NEW g, NEW n, NEW t \in Tables
      PROVE  Row(g, n)[t] =
                IF raw_get(heap, t, k) # Nil \/ mm(t) = Nil THEN Resolved(raw_get(heap, t, k))
                ELSE IF n = 0 THEN Exhausted
                ELSE IF mm(t) \in Tables THEN g[n - 1][mm(t)]
                ELSE Invoke(mm(t), t)
  <2>1. content[t][k] = raw_get(heap, t, k)
    BY DEF content
  <2> QED
    BY <2>1 DEF Program!Exhausted, Exhausted, Program!Nil, Nil, Program!Resolved, Resolved,
                Program!Invoke, Invoke
<1>7. Program!GetWithin(k) = [n \in 0..MaxTagLoop |-> Row(Program!GetWithin(k), n)]
  BY <1>5 DEF Program!GetWithin, mm, content
<1> HIDE DEF Row
<1>8. \A n \in 0..MaxTagLoop : Program!GetWithin(k)[n] = Row(Program!GetWithin(k), n)
  BY <1>7
<1>9. \A n \in 0..MaxTagLoop : \A t \in Tables : Program!GetWithin(k)[n][t] =
                IF raw_get(heap, t, k) # Nil \/ mm(t) = Nil THEN Resolved(raw_get(heap, t, k))
                ELSE IF n = 0 THEN Exhausted
                ELSE IF mm(t) \in Tables THEN Program!GetWithin(k)[n - 1][mm(t)]
                ELSE Invoke(mm(t), t)
  BY <1>6, <1>8
<1> QED
  BY <1>9 DEF mm

\* A metamethod bit says that the metatable defines the metamethod.
LEMMA HasMetamethod ==
    ASSUME IInv, NEW t \in Tables, NEW name \in Metamethods
    PROVE  /\ has_mm(heap, t, name) <=> Program!Metamethod(t, name) # Nil
           /\ has_mm(heap, t, name) =>
                 raw_get(heap, heap.table[t].metatable, name) = Program!Metamethod(t, name)
<1> DEFINE s == heap.table[t].shape
           mt == heap.table[t].metatable
<1>1. /\ HeapTypes(heap) /\ HeapInv(heap) /\ heap.table = table
      /\ s \in ShapeIds /\ mt \in Metatables
      /\ heap.shape[s].live /\ heap.shape[s].mt_cache = mt
  BY InvParts, HeapParts DEF heap, HeapInv, TablesInv
<1>2. mt # None => mt \in Tables /\ heap.mtc[mt].made
  BY <1>1 DEF HeapInv, TreeInv, NodesInv, Node, Metatables
<1>3. name \in Keys
  BY KeysAssumption
<1>4. mt # None => (name \in heap.mtc[mt].bits <=> raw_get(heap, mt, name) # Nil)
  BY <1>1, <1>2 DEF HeapInv, BitsInv
<1>5. Program!Metamethod(t, name) = IF mt = None THEN Nil ELSE raw_get(heap, mt, name)
  <2>1. table[t].metatable = mt
    BY <1>1
  <2> HIDE DEF mt
  <2> QED
    BY <1>2, <1>3, <2>1 DEF Program!Metamethod, Program!None, None, Program!Nil, Nil
<1>6. has_mm(heap, t, name) <=> mt # None /\ name \in heap.mtc[mt].bits
  BY <1>1 DEF has_mm
<1> QED
  BY <1>4, <1>5, <1>6

\* A key that a cache holds a slot for has its value there.
LEMMA CachedSlot ==
    ASSUME IInv, NEW i \in Sites, NEW t \in Tables, ic_check(heap, i, t) # ABSENT_SLOT
    PROVE  /\ ic_check(heap, i, t) = ic[i].slot
           /\ heap.table[t].properties[ic[i].slot] = raw_get(heap, t, SiteKey[i])
<1>1. /\ HeapTypes(heap) /\ HeapInv(heap) /\ FreshIn(heap, ic)
  BY InvParts
<1> DEFINE sh == heap.shape[heap.table[t].shape]
<1>2. ic[i].shape = heap.table[t].shape /\ ic_check(heap, i, t) = ic[i].slot
  BY DEF ic_check
<1>3. heap.table[t].shape # NoShape /\ sh.live /\ sh.descriptors \in Seq(Keys)
      /\ heap.table[t].is_dict = sh.is_dict
  BY <1>1, HeapParts DEF HeapInv, TablesInv
<1>4. ic[i].slot = find_slot(sh, SiteKey[i])
  BY <1>1, <1>2, <1>3 DEF FreshIn
<1>5. ~heap.table[t].is_dict
  <2>1. sh.descriptors # <<>>
    BY <1>2, <1>3, <1>4, FindSlot, EmptySeq
  <2>2. Node(heap, sh)
    BY <1>1, <1>3, HeapParts DEF HeapInv, TreeInv, NodesInv
  <2> QED
    BY <1>3, <2>1, <2>2 DEF Node
<1> QED
  BY <1>2, <1>4, <1>5 DEF raw_get

\* The chain that the VM walks to assign is the one Lua's rule follows.
LEMMA NewindexAgrees ==
    ASSUME IInv, NEW k \in Keys, NEW t \in Tables
    PROVE  walk_newindex_chain(heap, t, k) = Program!Set(t, k)
<1> DEFINE W == newindex_chain(heap, k)
           V == Program!SetWithin(k)
           S == {n \in Nat : n <= MaxTagLoop => \A q \in Tables : W[n][q] = V[n][q]}
<1>1. MaxTagLoop \in Nat /\ "__newindex" \in Metamethods
  BY BoundsAssumption, KeysAssumption
<1>2. 0 \in S
  <2>1. \A q \in Tables : W[0][q] = Exhausted /\ V[0][q] = Exhausted
    BY <1>1, NewindexSteps, SetSteps
  <2> QED
    BY <2>1
<1>3. ASSUME NEW n \in Nat, n \in S PROVE n + 1 \in S
  <2> SUFFICES ASSUME n + 1 <= MaxTagLoop, NEW q \in Tables PROVE W[n + 1][q] = V[n + 1][q]
    OBVIOUS
  <2> DEFINE mm == raw_get(heap, heap.table[q].metatable, "__newindex")
             pm == Program!Metamethod(q, "__newindex")
  <2>1. n + 1 \in 0..MaxTagLoop /\ n + 1 # 0 /\ (n + 1) - 1 = n /\ n <= MaxTagLoop
    BY <1>1
  <2>2. W[n + 1][q] =
                IF n + 1 = 0 THEN Exhausted
                ELSE IF raw_get(heap, q, k) # Nil \/ ~has_mm(heap, q, "__newindex") THEN RawSet(q)
                ELSE IF mm = Nil THEN RawSet(q)
                ELSE IF mm \in Tables THEN W[(n + 1) - 1][mm]
                ELSE Invoke(mm, q)
    BY <2>1, NewindexSteps
  <2>3. V[n + 1][q] =
                IF n + 1 = 0 THEN Exhausted
                ELSE IF raw_get(heap, q, k) # Nil \/ pm = Nil THEN RawSet(q)
                ELSE IF pm \in Tables THEN V[(n + 1) - 1][pm]
                ELSE Invoke(pm, q)
    BY <2>1, SetSteps
  <2>4. (has_mm(heap, q, "__newindex") <=> pm # Nil) /\ (has_mm(heap, q, "__newindex") => mm = pm)
    BY <1>1, HasMetamethod
  <2>5. \A p \in Tables : W[n][p] = V[n][p]
    BY <1>3, <2>1
  <2> HIDE DEF W, V, mm, pm
  <2> QED
    BY <2>1, <2>2, <2>3, <2>4, <2>5
<1>4. MaxTagLoop \in S
  <2> HIDE DEF S
  <2> QED
    BY <1>1, <1>2, <1>3, SetInduction
<1>5. W[MaxTagLoop][t] = V[MaxTagLoop][t]
  BY <1>1, <1>4
<1> QED
  BY <1>5 DEF walk_newindex_chain, Program!Set

\* The chain that the VM walks to read is the one Lua's rule follows.
LEMMA IndexAgrees ==
    ASSUME IInv, NEW k \in Keys, NEW t \in Tables,
           has_mm(heap, t, "__index"), raw_get(heap, t, k) = Nil
    PROVE  walk_index_chain(heap, t, k) = Program!Get(t, k)
<1> DEFINE W == index_chain(heap, k)
           V == Program!GetWithin(k)
           S == {n \in Nat : n <= MaxTagLoop =>
                     \A q \in Tables : has_mm(heap, q, "__index") /\ raw_get(heap, q, k) = Nil =>
                         W[n][q] = V[n][q]}
<1>1. MaxTagLoop \in Nat /\ "__index" \in Metamethods
  BY BoundsAssumption, KeysAssumption
<1>2. 0 \in S
  <2> SUFFICES ASSUME NEW q \in Tables, has_mm(heap, q, "__index"), raw_get(heap, q, k) = Nil
               PROVE  W[0][q] = V[0][q]
    OBVIOUS
  <2>1. W[0][q] = Exhausted
    BY <1>1, IndexSteps
  <2>2. Program!Metamethod(q, "__index") # Nil
    BY <1>1, HasMetamethod
  <2>3. V[0][q] = Exhausted
    BY <1>1, <2>2, GetSteps
  <2> QED
    BY <2>1, <2>3
<1>3. ASSUME NEW n \in Nat, n \in S PROVE n + 1 \in S
  <2> SUFFICES ASSUME n + 1 <= MaxTagLoop, NEW q \in Tables,
                      has_mm(heap, q, "__index"), raw_get(heap, q, k) = Nil
               PROVE  W[n + 1][q] = V[n + 1][q]
    OBVIOUS
  <2> DEFINE mm == raw_get(heap, heap.table[q].metatable, "__index")
             pm == Program!Metamethod(q, "__index")
             v == raw_get(heap, mm, k)
  <2>1. n + 1 \in 0..MaxTagLoop /\ n + 1 # 0 /\ (n + 1) - 1 = n
        /\ n \in 0..MaxTagLoop /\ n <= MaxTagLoop
    BY <1>1
  <2>2. W[n + 1][q] =
                IF n + 1 = 0 THEN Exhausted
                ELSE IF mm = Nil THEN Resolved(Nil)
                ELSE IF mm \notin Tables THEN Invoke(mm, q)
                ELSE IF v # Nil \/ ~has_mm(heap, mm, "__index") THEN Resolved(v)
                ELSE W[(n + 1) - 1][mm]
    BY <2>1, IndexSteps
  <2>3. V[n + 1][q] =
                IF raw_get(heap, q, k) # Nil \/ pm = Nil THEN Resolved(raw_get(heap, q, k))
                ELSE IF n + 1 = 0 THEN Exhausted
                ELSE IF pm \in Tables THEN V[(n + 1) - 1][pm]
                ELSE Invoke(pm, q)
    BY <2>1, GetSteps
  <2>4. pm # Nil /\ mm = pm
    BY <1>1, HasMetamethod
  <2>5. ASSUME mm \in Tables, v # Nil \/ ~has_mm(heap, mm, "__index")
        PROVE  V[n][mm] = Resolved(v)
    <3>1. v # Nil \/ Program!Metamethod(mm, "__index") = Nil
      BY <1>1, <2>5, HasMetamethod
    <3> QED
      BY <2>1, <2>5, <3>1, GetSteps
  <2>6. ASSUME mm \in Tables, v = Nil, has_mm(heap, mm, "__index")
        PROVE  W[n][mm] = V[n][mm]
    BY <1>3, <2>1, <2>6
  <2> HIDE DEF W, V, mm, pm, v
  <2> QED
    BY <2>1, <2>2, <2>3, <2>4, <2>5, <2>6
<1>4. MaxTagLoop \in S
  <2> HIDE DEF S
  <2> QED
    BY <1>1, <1>2, <1>3, SetInduction
<1>5. W[MaxTagLoop][t] = V[MaxTagLoop][t]
  BY <1>1, <1>4
<1> QED
  BY <1>5 DEF walk_index_chain, Program!Get

\* Reading and assigning by the generic paths.
LEMMA GenericAgrees ==
    ASSUME IInv, NEW k \in Keys, NEW t \in Tables
    PROVE  /\ gettable(heap, t, k) = Program!Get(t, k)
           /\ settable(heap, t, k) = Program!Set(t, k)
           /\ raw_get(heap, t, k) # Nil \/ ~has_mm(heap, t, "__index") =>
                 Program!Get(t, k) = Resolved(raw_get(heap, t, k))
           /\ raw_get(heap, t, k) # Nil \/ ~has_mm(heap, t, "__newindex") =>
                 Program!Set(t, k) = RawSet(t)
<1>1. MaxTagLoop \in 0..MaxTagLoop /\ MaxTagLoop # 0
      /\ "__index" \in Metamethods /\ "__newindex" \in Metamethods
  BY BoundsAssumption, KeysAssumption
<1>2. /\ has_mm(heap, t, "__index") <=> Program!Metamethod(t, "__index") # Nil
      /\ has_mm(heap, t, "__newindex") <=> Program!Metamethod(t, "__newindex") # Nil
  BY <1>1, HasMetamethod
<1>3. raw_get(heap, t, k) # Nil \/ ~has_mm(heap, t, "__index") =>
          Program!Get(t, k) = Resolved(raw_get(heap, t, k))
  BY <1>1, <1>2, GetSteps DEF Program!Get
<1>4. raw_get(heap, t, k) # Nil \/ ~has_mm(heap, t, "__newindex") =>
          Program!Set(t, k) = RawSet(t)
  BY <1>1, <1>2, SetSteps DEF Program!Set
<1>5. gettable(heap, t, k) = Program!Get(t, k)
  BY <1>3, IndexAgrees DEF gettable
<1>6. settable(heap, t, k) = Program!Set(t, k)
  BY <1>4, NewindexAgrees DEF settable
<1> QED
  BY <1>3, <1>4, <1>5, <1>6

\* Every instruction reads what Lua's indexing rules say, and every assignment
\* goes where they say, by whichever of the cached and the generic paths.
THEOREM AccessesFollowLua == Spec => []AccessesAgree
<1>1. ASSUME IInv, NEW t \in Tables, NEW i \in Sites
      PROVE  /\ getfield(heap, i, t) = Program!Get(t, SiteKey[i])
             /\ setfield(heap, i, t) = Program!Set(t, SiteKey[i])
  <2>1. SiteKey[i] \in Keys
    BY StoresAssumption
  <2>2. ASSUME get_hits(heap, i, t)
        PROVE  /\ heap.table[t].properties[ic[i].slot] = raw_get(heap, t, SiteKey[i])
               /\ raw_get(heap, t, SiteKey[i]) # Nil \/ ~has_mm(heap, t, "__index")
    BY <1>1, <2>2, CachedSlot DEF get_hits
  <2>3. ASSUME set_hits(heap, i, t)
        PROVE  raw_get(heap, t, SiteKey[i]) # Nil \/ ~has_mm(heap, t, "__newindex")
    BY <1>1, <2>3, CachedSlot DEF set_hits
  <2>4. getfield(heap, i, t) = Program!Get(t, SiteKey[i])
    BY <1>1, <2>1, <2>2, GenericAgrees DEF getfield
  <2>5. setfield(heap, i, t) = Program!Set(t, SiteKey[i])
    BY <1>1, <2>1, <2>3, GenericAgrees, NewindexAgrees DEF setfield
  <2> QED
    BY <2>4, <2>5
<1>2. IInv => AccessesAgree
  BY <1>1, GenericAgrees DEF AccessesAgree
<1> QED
  BY <1>2, ShapesInvariance, PTL
=============================================================================
