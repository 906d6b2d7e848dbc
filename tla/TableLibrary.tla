---------------------------- MODULE TableLibrary ----------------------------
(***************************************************************************)
(* Integer keys of a table and the table library (env/table/mod.rs,        *)
(* builtin/table.rs).                                                      *)
(*                                                                         *)
(* Positive integer keys live in the vector `array`, others in `misc_hash`.*)
(* insert, remove and move shift elements one by one.  sort is a quicksort *)
(* that runs as a Sequence: every comparison by a Lua function suspends    *)
(* it, and that function, or another coroutine, may use the same table     *)
(* before the answer comes.                                                *)
(*                                                                         *)
(* Left out: string keys (module Shapes), __lt metamethods, which are      *)
(* called the way comparators are, and argument conversion.                *)
(***************************************************************************)
EXTENDS Integers, FiniteSets, SequencesExt

CONSTANTS
    Vals,      \* values other than nil, integers, ordered by <
    MinInt,    \* i64::MIN
    MaxInt,    \* i64::MAX
    MaxLen,    \* bound: the program stores at the keys 1..MaxLen
    Comps,     \* ways to call sort: "default", "order", "any"
    Mutates    \* whether the program touches the table while sort waits

ASSUME IntAssumption == MaxInt \in Nat /\ MinInt = -MaxInt - 1
ASSUME BoundsAssumption ==
    /\ Vals \subseteq Nat /\ Comps \subseteq {"default", "order", "any"}
    /\ MaxLen \in Nat /\ MaxLen <= MaxInt
    /\ Mutates \in BOOLEAN

Nil == MaxInt + 1
ASSUME NilAssumption == Nil \notin Vals

VARIABLES
    tbl,   \* TableState: array and misc_hash
    sort   \* the running or last call of table.sort

vars == <<tbl, sort>>
-----------------------------------------------------------------------------
(* TableState                                                              *)

Empty == [array |-> <<>>, misc |-> [k \in MinInt..0 |-> Nil]]

raw_len(t) == Len(t.array)

raw_get(t, k) ==
    IF k >= 1 THEN IF k <= Len(t.array) THEN t.array[k] ELSE Nil
    ELSE t.misc[k]

\* A store beyond the array resizes it, whatever is stored.
raw_set(t, k, v) ==
    IF k < 1 THEN [t EXCEPT !.misc[k] = v]
    ELSE [t EXCEPT !.array = [i \in 1..Max({k, Len(@)}) |->
              IF i = k THEN v ELSE IF i <= Len(@) THEN @[i] ELSE Nil]]

swap(t, x, y) == raw_set(raw_set(t, x, raw_get(t, y)), y, raw_get(t, x))
-----------------------------------------------------------------------------
(* The functions that complete at once.  Each gives the table it leaves    *)
(* and the values it returns, or the error it raises.                      *)

Ok(t, vs) == [err |-> "none", t |-> t, v |-> vs]
Raise(e) == [err |-> e]

\* Copies src[p[1]] to dst[p[2]] for the pairs p, one after the other.
CopyAll(src, dst, same, pairs) ==
    LET n == Cardinality(DOMAIN pairs)
        t[i \in 0..n] ==
          IF i = 0 THEN dst
          ELSE raw_set(t[i - 1], pairs[i][2], raw_get(IF same THEN t[i - 1] ELSE src, pairs[i][1]))
    IN  t[n]

\* mutant: the elements are shifted from below
lua_insert_up(t, pos, v) ==
    LET n == raw_len(t)
    IN  IF pos < 1 \/ pos > n + 1 THEN Raise("position out of bounds")
        ELSE Ok(raw_set(CopyAll(t, t, TRUE, [i \in 1..(n - pos + 1) |-> <<pos + i - 1, pos + i>>]),
                        pos, v), <<>>)

\* insert(t, v) is insert(t, #t + 1, v).
lua_insert(t, pos, v) ==
    LET n == raw_len(t)
    IN  IF pos < 1 \/ pos > n + 1 THEN Raise("position out of bounds")
        ELSE Ok(raw_set(CopyAll(t, t, TRUE, [i \in 1..(n - pos + 1) |-> <<n - i + 1, n - i + 2>>]),
                        pos, v), <<>>)

\* remove(t) is remove(t, #t).
lua_remove(t, pos) ==
    LET n == raw_len(t)
    IN  IF pos # n /\ (pos < 1 \/ pos > n + 1) THEN Raise("position out of bounds")
        ELSE Ok(raw_set(CopyAll(t, t, TRUE, [i \in 1..(n - pos) |-> <<pos + i, pos + i - 1>>]),
                        Max({pos, n}), Nil), <<raw_get(t, pos)>>)

MoveFits(f, e) == f > 0 \/ e < MaxInt + f

\* a2 is a1 itself when same.
lua_move(a1, a2, same, f, e, t) ==
    LET n == e - f + 1
        pairs == [i \in 1..n |-> <<f + i - 1, t + i - 1>>]
    IN  IF e < f THEN Ok(a2, <<>>)
        ELSE IF ~MoveFits(f, e) THEN Raise("too many elements to move")
        ELSE IF t > MaxInt - n + 1 THEN Raise("destination wrap around")
        ELSE Ok(CopyAll(a1, a2, same, IF t > e \/ t <= f \/ ~same THEN pairs ELSE Reverse(pairs)),
                <<>>)

lua_pack(vs) ==
    LET t[i \in 0..Len(vs)] == IF i = 0 THEN Empty ELSE raw_set(t[i - 1], i, vs[i])
    IN  t[Len(vs)]

lua_unpack(t, i, j) == [k \in 1..(j - i + 1) |-> raw_get(t, i + k - 1)]

\* The elements concat joins, or the error for the first that is no string
\* or number.
lua_concat(t, i, j) ==
    IF \E k \in i..j : raw_get(t, k) = Nil THEN Raise("invalid value") ELSE Ok(t, lua_unpack(t, i, j))

\* What a loop over ipairs visits.
ipairs_aux(t) ==
    LET stop == {k \in 1..(raw_len(t) + 1) : raw_get(t, k) = Nil}
    IN  lua_unpack(t, 1, Min(stop) - 1)
-----------------------------------------------------------------------------
(* The program's calls                                                     *)

NoSort == [st |-> "none"]

\* How often each value occurs in an array.
Count(a) == [v \in Vals \cup {Nil} |-> Cardinality({i \in DOMAIN a : a[i] = v})]
NoCount == Count(<<>>)

\* The program runs when no sort does, and while sort waits for a comparator
\* (bound: one call per sort; the sorts met then have the same control states
\* as those it could make with more).
ProgramRuns ==
    \/ sort.st = "none"
    \/ Mutates /\ sort.st = "calling" /\ sort.comp = "any" /\ sort.alone

\* A sort that waits is no longer alone with its table.
Becomes(t) ==
    /\ raw_len(t) <= MaxLen
    /\ tbl' = t
    /\ sort' = IF sort.st = "calling" THEN [sort EXCEPT !.alone = FALSE, !.orig = NoCount] ELSE sort

call_insert == ProgramRuns /\ \E pos \in 1..MaxLen, v \in Vals :
    LET r == lua_insert(tbl, pos, v) IN r.err = "none" /\ Becomes(r.t)

call_remove == ProgramRuns /\ \E pos \in 0..(MaxLen + 1) :
    LET r == lua_remove(tbl, pos) IN r.err = "none" /\ Becomes(r.t)

call_move == sort.st = "none" /\ \E f, e, t \in 1..MaxLen :
    LET r == lua_move(tbl, tbl, TRUE, f, e, t) IN r.err = "none" /\ Becomes(r.t)

call_rawset == ProgramRuns /\ \E k \in 1..MaxLen, v \in Vals \cup {Nil} : Becomes(raw_set(tbl, k, v))

\* pack, and a table constructor, make the table.
call_pack == \E n \in 1..MaxLen : \E vs \in [1..n -> Vals \cup {Nil}] :
    tbl = Empty /\ sort.st = "none" /\ Becomes(lua_pack(vs))
-----------------------------------------------------------------------------
(* sort                                                                    *)

\* The next range of the work stack that has two elements or more.
pop(s, work) ==
    LET open == {k \in DOMAIN work : work[k][1] < work[k][2]}
        k == Max(open)
    IN  IF open = {} THEN [s EXCEPT !.st = "done", !.pc = "end", !.work = <<>>,
                                    !.lo = 0, !.up = 0, !.i = 0, !.j = 0]
        ELSE [s EXCEPT !.st = "running", !.pc = "ends", !.work = SubSeq(work, 1, k - 1),
                       !.lo = work[k][1], !.up = work[k][2], !.i = 0, !.j = 0]

lua_sort == \E c \in Comps :
    LET n == raw_len(tbl)
        s == [st |-> "running", comp |-> c, pc |-> "ends", work |-> <<>>, lo |-> 1, up |-> n,
              i |-> 0, j |-> 0, args |-> <<>>, n |-> n, orig |-> Count(tbl.array), alone |-> TRUE]
    IN  /\ sort.st = "none"
        /\ n > 1                       \* otherwise sort returns at once
        /\ sort' = s /\ UNCHANGED tbl

Mid(s) == (s.lo + s.up) \div 2
Pivot(s) == s.up - 1

\* The two indices the next comparison is about.
Compared(s) ==
    CASE s.pc = "ends" -> <<s.up, s.lo>>
      [] s.pc = "low"  -> <<Mid(s), s.lo>>
      [] s.pc = "high" -> <<s.up, Mid(s)>>
      [] s.pc = "rise" -> <<s.i, Pivot(s)>>
      [] s.pc = "fall" -> <<Pivot(s), s.j>>

Operands(s) == <<raw_get(tbl, Compared(s)[1]), raw_get(tbl, Compared(s)[2])>>

\* sort_less with a comparator: the call is made, and sort waits.  One that
\* answers as it likes does not look at its arguments.
sort_less_calls ==
    /\ sort.st = "running" /\ sort.comp # "default"
    /\ sort' = [sort EXCEPT !.st = "calling",
                            !.args = IF sort.comp = "any" THEN <<Nil, Nil>> ELSE Operands(sort)]
    /\ UNCHANGED tbl

\* The values whose comparison is decided in this step.
Decided ==
    IF sort.st = "running" /\ sort.comp = "default" THEN Operands(sort)
    ELSE IF sort.st = "calling" THEN sort.args ELSE <<>>

\* The answers it may have: `<` itself, a comparator that calls `<`, or one
\* that answers as it likes.
Less ==
    IF Decided = <<>> \/ (sort.comp # "any" /\ Nil \in Range(Decided)) THEN {}
    ELSE IF sort.comp = "any" THEN BOOLEAN ELSE {Decided[1] < Decided[2]}

\* `<` raises on nil, and so does a comparator that uses it; others may.
sort_raises ==
    /\ Decided # <<>> /\ (sort.comp = "any" \/ Nil \in Range(Decided))
    /\ sort' = [sort EXCEPT !.st = "raised", !.args = <<>>]
    /\ UNCHANGED tbl

Goes(s, pc) == [s EXCEPT !.pc = pc, !.st = "running", !.args = <<>>]
Ends(s, st) == [s EXCEPT !.st = st, !.args = <<>>]

order_ends(less) ==
    /\ sort.pc = "ends"
    /\ tbl' = IF less THEN swap(tbl, sort.lo, sort.up) ELSE tbl
    /\ sort' = IF sort.up - sort.lo = 1 THEN pop(Goes(sort, "ends"), sort.work)
               ELSE Goes(sort, "low")

\* The median is at Mid: partition the rest around it, if there is a rest.
Partition(t, s) ==
    IF s.up - s.lo = 2 THEN tbl' = t /\ sort' = pop(Goes(s, "ends"), s.work)
    ELSE /\ tbl' = swap(t, Mid(s), Pivot(s))
         /\ sort' = [Goes(s, "rise") EXCEPT !.i = s.lo + 1, !.j = Pivot(s)]

order_low(less) ==
    /\ sort.pc = "low"
    /\ IF less THEN Partition(swap(tbl, Mid(sort), sort.lo), sort)
       ELSE sort' = Goes(sort, "high") /\ UNCHANGED tbl

order_high(less) ==
    /\ sort.pc = "high"
    /\ Partition(IF less THEN swap(tbl, Mid(sort), sort.up) ELSE tbl, sort)

\* mutant: i may run past the pivot
advance_i_unchecked(less) ==
    /\ sort.pc = "rise"
    /\ sort' = IF less THEN [Goes(sort, "rise") EXCEPT !.i = @ + 1]
               ELSE [Goes(sort, "fall") EXCEPT !.j = @ - 1]
    /\ UNCHANGED tbl

advance_i(less) ==
    /\ sort.pc = "rise"
    /\ sort' = IF ~less THEN [Goes(sort, "fall") EXCEPT !.j = @ - 1]
               ELSE IF sort.i = Pivot(sort) THEN Ends(sort, "invalid")
               ELSE [Goes(sort, "rise") EXCEPT !.i = @ + 1]
    /\ UNCHANGED tbl

\* mutant: where the upper side is the smaller one, up stays as it is
split_not_narrowed(s, part) ==
    IF part - s.lo < s.up - part
    THEN pop(s, s.work \o <<<<s.lo, part - 1>>, <<part + 1, s.up>>>>)
    ELSE pop(s, Append(s.work, <<s.lo, s.up>>))

\* The smaller side is put off, the larger one goes on.
split(s, part) ==
    IF part - s.lo < s.up - part
    THEN pop(s, s.work \o <<<<s.lo, part - 1>>, <<part + 1, s.up>>>>)
    ELSE pop(s, s.work \o <<<<part + 1, s.up>>, <<s.lo, part - 1>>>>)

\* mutant: the pivot stays where it was stashed
retreat_j_no_pivot(less) ==
    /\ sort.pc = "fall"
    /\ IF less
       THEN /\ sort' = IF sort.j < sort.i THEN Ends(sort, "invalid")
                       ELSE [Goes(sort, "fall") EXCEPT !.j = @ - 1]
            /\ UNCHANGED tbl
       ELSE IF sort.j < sort.i
       THEN sort' = split(Goes(sort, "ends"), sort.i) /\ UNCHANGED tbl
       ELSE /\ tbl' = swap(tbl, sort.i, sort.j)
            /\ sort' = [Goes(sort, "rise") EXCEPT !.i = @ + 1]

retreat_j(less) ==
    /\ sort.pc = "fall"
    /\ IF less
       THEN /\ sort' = IF sort.j < sort.i THEN Ends(sort, "invalid")
                       ELSE [Goes(sort, "fall") EXCEPT !.j = @ - 1]
            /\ UNCHANGED tbl
       ELSE IF sort.j < sort.i
       THEN /\ tbl' = swap(tbl, Pivot(sort), sort.i)
            /\ sort' = split(Goes(sort, "ends"), sort.i)
       ELSE /\ tbl' = swap(tbl, sort.i, sort.j)
            /\ sort' = [Goes(sort, "rise") EXCEPT !.i = @ + 1]

sort_answers == \E less \in Less :
    \/ order_ends(less) \/ order_low(less) \/ order_high(less)
    \/ advance_i(less) \/ retreat_j(less)

sort_returns ==
    /\ sort.st \in {"done", "invalid", "raised"}
    /\ sort' = NoSort /\ UNCHANGED tbl

SortStep == sort_less_calls \/ sort_answers \/ sort_raises
-----------------------------------------------------------------------------
Init == tbl = Empty /\ sort = NoSort

Next == \/ call_insert \/ call_remove \/ call_move \/ call_rawset \/ call_pack
        \/ lua_sort \/ SortStep \/ sort_returns

\* The executor polls a sequence whose call has returned, and a comparator
\* is assumed to return.
Spec == Init /\ [][Next]_vars /\ WF_vars(SortStep)
-----------------------------------------------------------------------------
(* Properties                                                              *)

SortRuns == sort.st \in {"running", "calling"}
Sorts == [st : {"running", "calling", "done", "invalid", "raised"}, comp : Comps,
          pc : {"ends", "low", "high", "rise", "fall", "end"},
          work : Seq((0..MaxLen + 1) \X (0..MaxLen)),
          lo : 0..MaxLen, up : 0..MaxLen, i : 0..MaxLen, j : 0..MaxLen,
          args : {<<>>} \cup (Vals \cup {Nil}) \X (Vals \cup {Nil}), n : 0..MaxLen,
          orig : [Vals \cup {Nil} -> 0..MaxLen], alone : BOOLEAN]

\* Every field holds a value of its Rust type: no index of sort_run, all of
\* them usize, is computed below zero.
TypeOK ==
    /\ tbl.array \in Seq(Vals \cup {Nil}) /\ raw_len(tbl) <= MaxLen
    /\ tbl.misc \in [MinInt..0 -> Vals \cup {Nil}]
    /\ sort = NoSort \/ sort \in Sorts

\* A table of n elements that all differ, and differ from those below index 1.
\* The functions above never look at the values they copy, so what they do to
\* these tables they do to all.
Labelled(n) == [array |-> [i \in 1..n |-> i], misc |-> [k \in MinInt..0 |-> k]]

\* Key by key, r leaves what New says.
Leaves(r, New(_)) == r.err = "none" /\ \A k \in MinInt..MaxInt : raw_get(r.t, k) = New(k)

InsertAgrees(t, pos, v) ==
    LET n == raw_len(t)
        r == lua_insert(t, pos, v)
    IN  IF pos \notin 1..(n + 1) THEN r.err # "none"
        ELSE Leaves(r, LAMBDA k : IF k = pos THEN v
                                  ELSE raw_get(t, IF k \in (pos + 1)..(n + 1) THEN k - 1 ELSE k))

RemoveAgrees(t, pos) ==
    LET n == raw_len(t)
        r == lua_remove(t, pos)
    IN  IF pos \notin {n} \cup 1..(n + 1) THEN r.err # "none"
        ELSE /\ r.v = <<raw_get(t, pos)>>
             /\ Leaves(r, LAMBDA k : IF k = Max({pos, n}) THEN Nil
                                     ELSE raw_get(t, IF k \in pos..(n - 1) THEN k + 1 ELSE k))

\* The range moved and the range it moves to are ranges of integers.
MoveAgrees(a1, a2, same, f, e, t) ==
    LET r == lua_move(a1, a2, same, f, e, t)
    IN  IF e >= f /\ (e - f + 1 > MaxInt \/ t + e - f > MaxInt) THEN r.err # "none"
        ELSE Leaves(r, LAMBDA k : IF k \in t..(t + e - f) THEN raw_get(a1, f + k - t)
                                  ELSE raw_get(a2, k))

Tables == {Labelled(n) : n \in 0..(MaxInt - 1)}

AgreesOnInputs ==
    \A t \in Tables :
        /\ \A pos \in MinInt..MaxInt : InsertAgrees(t, pos, Nil + 1) /\ RemoveAgrees(t, pos)
        /\ \A f, e, to \in MinInt..MaxInt :
              MoveAgrees(t, t, TRUE, f, e, to) /\ MoveAgrees(t, Empty, FALSE, f, e, to)
        /\ \A vs \in {t.array, t.array \o <<Nil>>} :
              lua_unpack(lua_pack(vs), 1, raw_len(lua_pack(vs))) = vs

\* insert, remove and move, which shift element by element through one
\* vector, leave at every key what the manual says, for every position and
\* every range of integers, overlapping and at the ends of the integers; the
\* ranges they refuse are those that cannot be moved.
LibraryAgrees == tbl = Empty /\ sort = NoSort => AgreesOnInputs

\* sort_run compares and swaps within the range it works on, and the ranges
\* it has put off are disjoint from it and from one another, whatever the
\* comparator answers and does to the table; no index is below zero.
SortInBounds ==
    /\ TypeOK
    /\ SortRuns =>
        /\ 1 <= sort.lo /\ sort.lo < sort.up /\ sort.up <= sort.n
        /\ Range(Compared(sort)) \subseteq sort.lo..sort.up
        /\ LET part == Append(sort.work, <<sort.lo, sort.up>>)
           IN  \A x, y \in DOMAIN part :
                 /\ part[x][1]..part[x][2] \subseteq 1..sort.n
                 /\ x # y => (part[x][1]..part[x][2]) \cap (part[y][1]..part[y][2]) = {}

\* Whatever the comparator answers, and also when it raises half way or is
\* found invalid, sort loses and duplicates no element; with a consistent order
\* it ends with a sorted array, and never reports an invalid order function
\* (`lua_sort`: "An inconsistent comparator raises").
SortSorts ==
    sort.st # "none" /\ sort.alone =>
        /\ Count(tbl.array) = sort.orig
        /\ sort.comp # "any" =>
             /\ sort.st # "invalid"
             /\ sort.st = "done" => \A i \in 1..(sort.n - 1) : tbl.array[i] <= tbl.array[i + 1]

\* sort ends however inconsistent the comparator is and whatever it does to
\* the table, as long as the comparator returns.
SortEnds == SortRuns ~> ~SortRuns

\* The manual of the length operator (lua_manual.of:2077): "returns a border
\* in that table", an index that is present and followed by an absent one.
\* rawlen says the same of itself (basic.rs:268).
LengthIsBorder ==
    /\ raw_len(tbl) = 0 \/ raw_get(tbl, raw_len(tbl)) # Nil
    /\ raw_get(tbl, raw_len(tbl) + 1) = Nil
=============================================================================
