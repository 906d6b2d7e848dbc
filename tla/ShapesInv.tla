----------------------------- MODULE ShapesInv ------------------------------
(***************************************************************************)
(* The inductive invariant of Shapes: why following a transition edge, an  *)
(* MtCache or a filled inline cache never leads to a layout that is not    *)
(* the table's.  The parts about shapes and tables are stated of a heap,   *)
(* so that they can be followed through the operators of an action.        *)
(***************************************************************************)
EXTENDS Shapes

\* What a shape says of the tables that have it; it never changes.
Face(sh) == [descriptors |-> sh.descriptors, is_dict |-> sh.is_dict, mt_cache |-> sh.mt_cache]

\* An edge leads to the layout with one key more, or to the same layout under
\* another metatable.
PropEdge(h, p, k, c) ==
    /\ h.shape[c].live /\ ~h.shape[c].is_dict
    /\ h.shape[c].descriptors = Append(h.shape[p].descriptors, k)
    /\ h.shape[c].mt_cache = h.shape[p].mt_cache

MtEdge(h, p, m, c) ==
    /\ h.shape[c].live /\ ~h.shape[c].is_dict
    /\ h.shape[c].descriptors = h.shape[p].descriptors
    /\ h.shape[c].mt_cache = m

\* An edge whose child was collected is gone.
EdgesInv(h) ==
    \A p \in ShapeIds :
        /\ \A k \in Keys : LET c == h.shape[p].by_prop[k] IN c # NoShape => PropEdge(h, p, k, c)
        /\ \A m \in Metatables : LET c == h.shape[p].by_mt[m] IN c # NoShape => MtEdge(h, p, m, c)

\* A live shape names no key twice and an adopted metatable, and assigns no
\* slots in dictionary mode; the two shapes that State holds are there.
Node(h, sh) ==
    /\ IsInjective(sh.descriptors)
    /\ sh.is_dict => sh.descriptors = <<>>
    /\ sh.mt_cache # None => h.mtc[sh.mt_cache].made

NodesInv(h) ==
    /\ \A s \in ShapeIds : h.shape[s].live => Node(h, h.shape[s])
    /\ h.shape[empty_shape].live /\ Face(h.shape[empty_shape]) = Face(root_empty)
    /\ h.shape[empty_dict_sentinel].live
    /\ Face(h.shape[empty_dict_sentinel]) = Face(dict_sentinel(None))

\* An MtCache comes with the adoption of its table; its dictionary shape, once
\* made, is that of the tables with this metatable.
CachesInv(h) ==
    \A t \in Tables :
        LET s == h.mtc[t].dict_sentinel IN
        /\ ~h.mtc[t].made => s = NoShape
        /\ s # NoShape => h.shape[s].live /\ Face(h.shape[s]) = Face(dict_sentinel(t))

\* What a table has of its own agrees with its shape.
TablesInv(h) ==
    \A t \in Tables :
        LET r == h.table[t]
            sh == h.shape[r.shape]
        IN  /\ sh.live
            /\ r.is_dict = sh.is_dict
            /\ Len(r.properties) = Len(sh.descriptors)
            /\ r.metatable = sh.mt_cache

BitsInv(h) ==
    \A t \in Tables : h.mtc[t].made =>
        h.mtc[t].bits = {k \in Metamethods : raw_get(h, t, k) # Nil}

TreeInv(h) == EdgesInv(h) /\ NodesInv(h) /\ CachesInv(h)
HeapInv(h) == TreeInv(h) /\ TablesInv(h) /\ BitsInv(h)

IInv == TypeOK /\ HeapInv(heap) /\ CachesAreFresh
=============================================================================
