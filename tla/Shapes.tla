------------------------------- MODULE Shapes -------------------------------
(***************************************************************************)
(* Tables with hidden classes and inline caches (env/table/mod.rs,         *)
(* env/shape/mod.rs, and the table instructions of vm/interp.rs).          *)
(*                                                                         *)
(* A table's string keys live in `properties`, at the slots its shape      *)
(* assigns.  Shapes form a tree: adding a key or changing the metatable    *)
(* follows (or mints) a transition edge, which holds its child weakly.  A  *)
(* table that deletes a key or outgrows MaxProps goes to dictionary mode.  *)
(* A table adopted as a metatable keeps the set of metamethods it defines  *)
(* in an MtCache that all shapes with this metatable share.  Instructions  *)
(* with a constant key remember the last shape they saw and its slot.      *)
(*                                                                         *)
(* Left out: the array part and the hash for other keys, which no shape    *)
(* or cache is involved in, and the collection of tables themselves.       *)
(***************************************************************************)
EXTENDS Naturals, FiniteSets, SequencesExt

CONSTANTS
    Tables,      \* the tables of the program
    Keys,        \* string keys
    Metamethods, \* the keys of METAMETHOD_TABLE among them
    Plain,       \* values that are neither nil nor a table
    Stores,      \* <<table, key, value>> triples the program assigns
    Classes,     \* the tables it uses as metatables
    SiteKey,     \* the constant key of each cache site
    MaxShapes,   \* bound: shapes alive at a time
    MaxProps,    \* MAX_PROPERTIES_FAST
    MaxTagLoop   \* MAX_TAG_LOOP

ASSUME KeysAssumption ==
    /\ Metamethods \subseteq Keys /\ {"__index", "__newindex"} \subseteq Metamethods
    /\ "__metatable" \in Keys \ Metamethods
ASSUME BoundsAssumption ==
    /\ MaxShapes \in Nat /\ MaxShapes > 2 /\ MaxProps \in Nat /\ MaxTagLoop \in Nat \ {0}
    /\ Classes \subseteq Tables

Nil == "nil"
None == "none"
Values == {Nil} \cup Plain \cup Tables
Sites == DOMAIN SiteKey
Metatables == Tables \cup {None}

\* Strings name keys, tables are neither nil nor the absence of a metatable.
ASSUME StoresAssumption ==
    /\ Stores \subseteq Tables \X Keys \X Values
    /\ \A i \in Sites : SiteKey[i] \in Keys
ASSUME TablesAssumption == Nil \notin Tables /\ None \notin Tables

ShapeIds == 1..MaxShapes
NoShape == 0
ABSENT_SLOT == 0
empty_shape == 1
empty_dict_sentinel == 2

VARIABLES
    shape,  \* ShapeData of every shape
    table,  \* TableState of every table
    mtc,    \* MtCacheData of every table: made, bits, dict_sentinel
    ic      \* InlineCache of every site

vars == <<shape, table, mtc, ic>>
heap == [shape |-> shape, table |-> table, mtc |-> mtc]

\* A slot of the shape pool that holds no shape.
Unused == [live |-> FALSE, parent |-> NoShape, last_key |-> None, mt_cache |-> None,
           is_dict |-> FALSE, descriptors |-> <<>>,
           by_prop |-> [k \in Keys |-> NoShape], by_mt |-> [m \in Metatables |-> NoShape]]

root_empty == [Unused EXCEPT !.live = TRUE]
dict_sentinel(mt) == [Unused EXCEPT !.live = TRUE, !.is_dict = TRUE, !.mt_cache = mt]

Init ==
    /\ shape = [s \in ShapeIds |-> IF s = empty_shape THEN root_empty
                                   ELSE IF s = empty_dict_sentinel THEN dict_sentinel(None)
                                   ELSE Unused]
    /\ table = [t \in Tables |-> [shape |-> empty_shape, properties |-> <<>>, is_dict |-> FALSE,
                                  dict |-> [k \in Keys |-> Nil], metatable |-> None]]
    /\ mtc = [t \in Tables |-> [made |-> FALSE, bits |-> {}, dict_sentinel |-> NoShape]]
    /\ ic = [i \in Sites |-> [shape |-> NoShape, slot |-> ABSENT_SLOT]]
-----------------------------------------------------------------------------
(* Lookup                                                                  *)

\* The slot of key k, by linear search of the descriptors.
find_slot(sh, k) ==
    LET at == {i \in DOMAIN sh.descriptors : sh.descriptors[i] = k}
    IN  IF at = {} THEN ABSENT_SLOT ELSE Min(at)

raw_get(h, t, k) ==
    LET r == h.table[t]
        slot == find_slot(h.shape[r.shape], k)
    IN  IF r.is_dict THEN r.dict[k]
        ELSE IF slot = ABSENT_SLOT THEN Nil ELSE r.properties[slot]

\* Shape::has_mm of the shape of t: the bits of the MtCache the shape names.
has_mm(h, t, bit) ==
    LET mt == h.shape[h.table[t].shape].mt_cache
    IN  mt # None /\ bit \in h.mtc[mt].bits

Resolved(v) == [r |-> "value", v |-> v]
Invoke(f, t) == [r |-> "invoke", v |-> f, on |-> t]
Exhausted == [r |-> "exhausted"]
RawSet(t) == [r |-> "store", on |-> t]

\* The chain of `__index` metamethods from receiver t on, n tables long at most.
index_chain(h, k) ==
    LET W[n \in 0..MaxTagLoop] == [t \in Tables |->
            LET mm == raw_get(h, h.table[t].metatable, "__index")
                v == raw_get(h, mm, k)
            IN  IF n = 0 THEN Exhausted
                ELSE IF mm = Nil THEN Resolved(Nil)
                ELSE IF mm \notin Tables THEN Invoke(mm, t)
                ELSE IF v # Nil \/ ~has_mm(h, mm, "__index") THEN Resolved(v)
                ELSE W[n - 1][mm]]
    IN  W

walk_index_chain(h, t0, k) == index_chain(h, k)[MaxTagLoop][t0]

\* The chain of `__newindex` metamethods from table t on.
newindex_chain(h, k) ==
    LET W[n \in 0..MaxTagLoop] == [t \in Tables |->
            LET mm == raw_get(h, h.table[t].metatable, "__newindex")
            IN  IF n = 0 THEN Exhausted
                ELSE IF raw_get(h, t, k) # Nil \/ ~has_mm(h, t, "__newindex") THEN RawSet(t)
                ELSE IF mm = Nil THEN RawSet(t)
                ELSE IF mm \in Tables THEN W[n - 1][mm]
                ELSE Invoke(mm, t)]
    IN  W

walk_newindex_chain(h, t0, k) == newindex_chain(h, k)[MaxTagLoop][t0]

\* GETTABLE, SELF, and the slow path of GETFIELD and GETTABUP
gettable(h, t, k) ==
    LET v == raw_get(h, t, k)
    IN  IF v # Nil \/ ~has_mm(h, t, "__index") THEN Resolved(v)
        ELSE walk_index_chain(h, t, k)
-----------------------------------------------------------------------------
(* Shape transitions.  Each takes a heap and returns the heap and the      *)
(* shape the transition leads to.                                          *)

Free(h) == {s \in ShapeIds : ~h.shape[s].live}
To(h, s) == [h |-> h, s |-> s]

\* Gc::new of a shape
New(h, sh) == LET s == Min(Free(h)) IN To([h EXCEPT !.shape[s] = sh], s)

\* An edge whose child was collected is NoShape: upgrade fails, and the edge
\* is replaced.
transition_add_prop(h, p, k) ==
    IF h.shape[p].by_prop[k] # NoShape THEN To(h, h.shape[p].by_prop[k])
    ELSE LET n == New(h, [Unused EXCEPT
                             !.live = TRUE, !.parent = p, !.last_key = k,
                             !.mt_cache = h.shape[p].mt_cache,
                             !.descriptors = Append(h.shape[p].descriptors, k)])
         IN  To([n.h EXCEPT !.shape[p].by_prop[k] = n.s], n.s)

\* The dictionary shape of metatable mt, made on first use.
ensure_dict_sentinel(h, mt) ==
    IF mt = None THEN To(h, empty_dict_sentinel)
    ELSE IF h.mtc[mt].dict_sentinel # NoShape THEN To(h, h.mtc[mt].dict_sentinel)
    ELSE LET n == New(h, dict_sentinel(mt))
         IN  To([n.h EXCEPT !.mtc[mt].dict_sentinel = n.s], n.s)

transition_set_metatable(h, p, mt) ==
    IF h.shape[p].is_dict THEN ensure_dict_sentinel(h, mt)
    ELSE IF h.shape[p].by_mt[mt] # NoShape THEN To(h, h.shape[p].by_mt[mt])
    ELSE LET n == New(h, [Unused EXCEPT
                             !.live = TRUE, !.parent = p, !.mt_cache = mt,
                             !.descriptors = h.shape[p].descriptors])
         IN  To([n.h EXCEPT !.shape[p].by_mt[mt] = n.s], n.s)
-----------------------------------------------------------------------------
(* Stores                                                                  *)

\* The write of v at k reaches the MtCache of t, if t has one.
maybe_update_mt_bit(h, t, k, v) ==
    IF h.mtc[t].made /\ k \in Metamethods
    THEN [h EXCEPT !.mtc[t].bits = IF v = Nil THEN @ \ {k} ELSE @ \cup {k}]
    ELSE h

\* mutant: dictionary-mode stores do not mirror the write
set_string_key_dict_no_bit(h, t, k, v) == [h EXCEPT !.table[t].dict[k] = v]

set_string_key_dict(h, t, k, v) ==
    maybe_update_mt_bit([h EXCEPT !.table[t].dict[k] = v], t, k, v)

\* mutant: the dictionary shape of tables without a metatable, always
migrate_to_dict_no_mt(h, t) ==
    [h EXCEPT !.table[t] = [@ EXCEPT !.properties = <<>>, !.shape = empty_dict_sentinel,
        !.is_dict = TRUE, !.dict = [k \in Keys |-> raw_get(h, t, k)]]]

\* mutant: the properties are discarded before they are copied
migrate_to_dict_no_copy(h, t) ==
    LET to == ensure_dict_sentinel(h, h.shape[h.table[t].shape].mt_cache)
    IN  [to.h EXCEPT !.table[t] = [@ EXCEPT !.properties = <<>>, !.shape = to.s, !.is_dict = TRUE]]

migrate_to_dict(h, t) ==
    LET to == ensure_dict_sentinel(h, h.shape[h.table[t].shape].mt_cache)
    IN  [to.h EXCEPT !.table[t] = [@ EXCEPT !.properties = <<>>, !.shape = to.s,
            !.is_dict = TRUE, !.dict = [k \in Keys |-> raw_get(h, t, k)]]]

AtLimit(sh) == Len(sh.descriptors) >= MaxProps

set_string_key(h, t, k, v) ==
    LET sh == h.shape[h.table[t].shape]
        slot == find_slot(sh, k)
        to == transition_add_prop(h, h.table[t].shape, k)
    IN  IF h.table[t].is_dict THEN set_string_key_dict(h, t, k, v)
        ELSE IF (IF slot # ABSENT_SLOT THEN v = Nil ELSE AtLimit(sh))
        THEN set_string_key_dict(migrate_to_dict(h, t), t, k, v)
        ELSE maybe_update_mt_bit(
               IF slot # ABSENT_SLOT THEN [h EXCEPT !.table[t].properties[slot] = v]
               ELSE [to.h EXCEPT !.table[t].shape = to.s,
                                 !.table[t].properties = Append(@, v)],
               t, k, v)

raw_set(h, t, k, v) == set_string_key(h, t, k, v)

\* First adoption of t as a metatable: the bits come from its present fields.
ensure_mt_cache(h, t) ==
    IF h.mtc[t].made THEN h
    ELSE [h EXCEPT !.mtc[t] = [made |-> TRUE, dict_sentinel |-> NoShape,
                               bits |-> {k \in Metamethods : raw_get(h, t, k) # Nil}]]

set_metatable(h, t, mt) ==
    LET h1 == IF mt = None THEN h ELSE ensure_mt_cache(h, mt)
        to == transition_set_metatable(h1, h.table[t].shape, mt)
    IN  [to.h EXCEPT !.table[t].shape = to.s, !.table[t].metatable = mt]
-----------------------------------------------------------------------------
(* Inline caches                                                           *)

\* ic_check: the cached slot, if the cache was filled at the shape of t
ic_check(h, i, t) == IF ic[i].shape = h.table[t].shape THEN ic[i].slot ELSE ABSENT_SLOT

fill_ic_for_constant_key(h, i, t) ==
    [shape |-> h.table[t].shape, slot |-> find_slot(h.shape[h.table[t].shape], SiteKey[i])]

\* mutant: a hit on an empty slot is final
get_hits_nil(h, i, t) == ic_check(h, i, t) # ABSENT_SLOT

get_hits(h, i, t) ==
    LET slot == ic_check(h, i, t)
    IN  slot # ABSENT_SLOT /\ ~(h.table[t].properties[slot] = Nil /\ has_mm(h, t, "__index"))

set_hits(h, i, t) ==
    LET slot == ic_check(h, i, t)
    IN  slot # ABSENT_SLOT /\ ~(h.table[t].properties[slot] = Nil /\ has_mm(h, t, "__newindex"))

\* What GETFIELD or GETTABUP at site i reads from t
getfield(h, i, t) ==
    IF get_hits(h, i, t) THEN Resolved(h.table[t].properties[ic[i].slot])
    ELSE gettable(h, t, SiteKey[i])

\* Where SETFIELD or SETTABUP at site i, and SETTABLE, store
setfield(h, i, t) == IF set_hits(h, i, t) THEN RawSet(t) ELSE walk_newindex_chain(h, t, SiteKey[i])
settable(h, t, k) ==
    IF has_mm(h, t, "__newindex") /\ raw_get(h, t, k) = Nil THEN walk_newindex_chain(h, t, k)
    ELSE RawSet(t)

\* A hit writes the slot itself and mirrors the write.
store_at_hit(h, i, t, v) ==
    maybe_update_mt_bit([h EXCEPT !.table[t].properties[ic[i].slot] = v], t, SiteKey[i], v)
-----------------------------------------------------------------------------
(* Actions                                                                 *)

Become(h) == shape' = h.shape /\ table' = h.table /\ mtc' = h.mtc

\* The pool has room for the one shape an action may allocate.
Room == Free(heap) # {}

lua_rawset == Room /\ \E w \in Stores :
    Become(raw_set(heap, w[1], w[2], w[3])) /\ UNCHANGED ic

op_settable == Room /\ \E w \in Stores :
    LET s == settable(heap, w[1], w[2])
    IN  s.r = "store" /\ Become(raw_set(heap, s.on, w[2], w[3])) /\ UNCHANGED ic

op_getfield == \E i \in Sites, t \in Tables :
    /\ ~get_hits(heap, i, t)
    /\ ic' = [ic EXCEPT ![i] = fill_ic_for_constant_key(heap, i, t)]
    /\ UNCHANGED <<shape, table, mtc>>

op_setfield_hit == \E i \in Sites, w \in Stores :
    /\ w[2] = SiteKey[i] /\ set_hits(heap, i, w[1])
    /\ Become(store_at_hit(heap, i, w[1], w[3])) /\ UNCHANGED ic

\* A call or an error of the chain leaves the cache filled.
op_setfield_slow == Room /\ \E i \in Sites, w \in Stores :
    /\ w[2] = SiteKey[i] /\ ~set_hits(heap, i, w[1])
    /\ ic' = [ic EXCEPT ![i] = fill_ic_for_constant_key(heap, i, w[1])]
    /\ LET s == setfield(heap, i, w[1])
       IN  Become(IF s.r = "store" THEN raw_set(heap, s.on, w[2], w[3]) ELSE heap)

\* A metatable with a `__metatable` field is locked.
lua_setmetatable == Room /\ \E t \in Tables, mt \in Classes \cup {None} :
    LET old == table[t].metatable
    IN  /\ old # None => raw_get(heap, old, "__metatable") = Nil
        /\ Become(set_metatable(heap, t, mt)) /\ UNCHANGED ic

\* mutant: inline caches do not keep their shape alive
Held_not_by_ic(s) ==
    \/ s \in {empty_shape, empty_dict_sentinel}
    \/ \E t \in Tables : s \in {table[t].shape, mtc[t].dict_sentinel}
    \/ \E c \in ShapeIds : shape[c].live /\ shape[c].parent = s

\* Strong pointers to a shape: State, tables, MtCaches, caches, and children.
Held(s) ==
    \/ s \in {empty_shape, empty_dict_sentinel}
    \/ \E t \in Tables : s \in {table[t].shape, mtc[t].dict_sentinel}
    \/ \E i \in Sites : ic[i].shape = s
    \/ \E c \in ShapeIds : shape[c].live /\ shape[c].parent = s

\* The collector drops a shape that is only weakly held; its edge is dead.
collect == \E s \in ShapeIds :
    /\ shape[s].live /\ ~Held(s)
    /\ shape' = [p \in ShapeIds |->
          IF p = s THEN Unused
          ELSE [shape[p] EXCEPT !.by_prop = [k \in Keys |-> IF @[k] = s THEN NoShape ELSE @[k]],
                                !.by_mt = [m \in Metatables |-> IF @[m] = s THEN NoShape ELSE @[m]]]]
    /\ UNCHANGED <<table, mtc, ic>>

Next == \/ lua_rawset \/ op_settable \/ op_getfield \/ op_setfield_hit \/ op_setfield_slow
        \/ lua_setmetatable \/ collect

Spec == Init /\ [][Next]_vars
-----------------------------------------------------------------------------
(* Properties                                                              *)

ShapeData == [live : BOOLEAN, parent : ShapeIds \cup {NoShape}, last_key : Keys \cup {None},
              mt_cache : Metatables, is_dict : BOOLEAN,
              descriptors : Seq(Keys),
              by_prop : [Keys -> ShapeIds \cup {NoShape}],
              by_mt : [Metatables -> ShapeIds \cup {NoShape}]]
TableState == [shape : ShapeIds, properties : Seq(Values),
               is_dict : BOOLEAN, dict : [Keys -> Values], metatable : Metatables]
MtCacheData == [made : BOOLEAN, bits : SUBSET Metamethods, dict_sentinel : ShapeIds \cup {NoShape}]
InlineCache == [shape : ShapeIds \cup {NoShape}, slot : 0..MaxProps]

\* Every field holds a value of its Rust type, and neither a shape nor a
\* table in fast mode outgrows MAX_PROPERTIES_FAST.
TypeOK ==
    /\ shape \in [ShapeIds -> ShapeData]
    /\ \A s \in ShapeIds : Len(shape[s].descriptors) <= MaxProps
    /\ table \in [Tables -> TableState]
    /\ \A t \in Tables : Len(table[t].properties) <= MaxProps
    /\ mtc \in [Tables -> MtCacheData]
    /\ ic \in [Sites -> InlineCache]

ShapeOf(t) == shape[table[t].shape]

\* A table's storage has the layout its shape describes, and its shape names
\* the metatable it has: slot accesses are in bounds, and the unwrap_unchecked
\* after a metamethod bit was seen finds a metatable.
LayoutAgrees ==
    /\ TypeOK
    /\ \A t \in Tables :
        /\ ShapeOf(t).live
        /\ ShapeOf(t).is_dict = table[t].is_dict
        /\ Len(table[t].properties) = Len(ShapeOf(t).descriptors)
        /\ IsInjective(ShapeOf(t).descriptors)
        /\ ShapeOf(t).mt_cache = table[t].metatable
        /\ table[t].metatable # None => mtc[table[t].metatable].made

\* The bits of an adopted metatable are exactly the metamethods it defines,
\* whichever path last wrote them (MtCache: "updated eagerly by every
\* metamethod-named write").
BitsAreLive ==
    \A t \in Tables : mtc[t].made =>
        mtc[t].bits = {k \in Metamethods : raw_get(heap, t, k) # Nil}

\* A filled cache holds what a fresh lookup in its shape would find, however
\* long ago it was filled and whatever was collected since.
CachesAreFresh ==
    \A i \in Sites : ic[i].shape # NoShape =>
        /\ shape[ic[i].shape].live
        /\ ic[i].slot = find_slot(shape[ic[i].shape], SiteKey[i])
-----------------------------------------------------------------------------
(* Shapes implement LuaTables                                              *)

Program == INSTANCE LuaTables
    WITH content <- [t \in Tables |-> [k \in Keys |-> raw_get(heap, t, k)]],
         meta <- [t \in Tables |-> table[t].metatable]

\* Every step stores what the program stored, where it stored it, and nothing
\* else: filling caches, changing shapes, migrating and collecting are
\* invisible.
TablesBehave == Program!Spec

\* Every instruction reads what Lua's indexing rules say, and every assignment
\* goes where they say (to the table itself, to one along the `__newindex`
\* chain, or to a function), by whichever of the cached and the generic paths
\* it takes.
AccessesAgree ==
    \A t \in Tables :
        /\ \A k \in Keys : /\ gettable(heap, t, k) = Program!Get(t, k)
                           /\ settable(heap, t, k) = Program!Set(t, k)
        /\ \A i \in Sites : /\ getfield(heap, i, t) = Program!Get(t, SiteKey[i])
                            /\ setfield(heap, i, t) = Program!Set(t, SiteKey[i])
=============================================================================
