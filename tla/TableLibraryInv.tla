-------------------------- MODULE TableLibraryInv ---------------------------
(***************************************************************************)
(* The inductive invariant of TableLibrary: why the quicksort of           *)
(* table.sort stays within its ranges whatever its comparator does, and    *)
(* why it sorts when the comparator is an order.                           *)
(***************************************************************************)
EXTENDS TableLibrary

TableState == [array : Seq(Vals \cup {Nil}), misc : [MinInt..0 -> Vals \cup {Nil}]]

\* The range in hand with those put off.
Parts(s) == IF s.st \in {"running", "calling"} THEN Append(s.work, <<s.lo, s.up>>) ELSE s.work
Part(r) == r[1]..r[2]

\* The ranges lie in the array and share no index.
Partitioned(parts, n) ==
    /\ \A x \in DOMAIN parts : 1 <= parts[x][1] /\ parts[x][1] <= parts[x][2] /\ parts[x][2] <= n
    /\ \A x, y \in DOMAIN parts : x # y => Part(parts[x]) \cap Part(parts[y]) = {}

\* Elements that no range has together are in order.
Separated(a, n, parts) ==
    \A x, y \in 1..n :
        x < y /\ (\A k \in DOMAIN parts : ~{x, y} \subseteq Part(parts[k])) => a[x] <= a[y]

\* How far i and j may be while the range is partitioned.
Cursors(s) ==
    CASE s.pc = "ends" -> TRUE
      [] s.pc \in {"low", "high"} -> s.up - s.lo >= 2
      [] s.pc = "rise" -> /\ s.up - s.lo >= 3
                          /\ {s.i, s.j} \subseteq (s.lo + 1)..(s.up - 1)
      [] s.pc = "fall" -> /\ s.up - s.lo >= 3
                          /\ s.i \in (s.lo + 1)..(s.up - 1) /\ s.j \in s.lo..(s.up - 2)
      [] s.pc = "end" -> FALSE

\* What the comparisons of this range have established, for an order: where
\* the median of three is, and which elements are on which side of the pivot.
Established(s, a) ==
    LET p == a[Pivot(s)]
    IN  CASE s.pc = "ends" -> TRUE
          [] s.pc = "low" -> a[s.lo] <= a[s.up]
          [] s.pc = "high" -> a[s.lo] <= a[s.up] /\ a[s.lo] <= a[Mid(s)]
          [] s.pc = "rise" -> /\ \A k \in s.lo..(s.i - 1) : a[k] <= p
                              /\ \A k \in s.j..s.up : p <= a[k]
          [] s.pc = "fall" -> /\ \A k \in s.lo..(s.i - 1) : a[k] <= p
                              /\ \A k \in (s.j + 1)..s.up : p <= a[k]
                              /\ p <= a[s.i]
          [] s.pc = "end" -> FALSE
-----------------------------------------------------------------------------
TableInv == tbl \in TableState /\ raw_len(tbl) <= MaxLen

RangesInv ==
    sort # NoSort =>
        /\ sort \in Sorts
        /\ sort.n <= raw_len(tbl)
        /\ sort.alone => sort.n = raw_len(tbl) /\ Count(tbl.array) = sort.orig
        /\ Partitioned(Parts(sort), sort.n)
        /\ SortRuns => Cursors(sort) /\ sort.lo < sort.up
        /\ sort.st = "done" => sort.work = <<>>

CallInv ==
    sort # NoSort =>
        /\ sort.st = "calling" =>
              /\ sort.comp # "default" /\ sort.args # <<>>
              /\ sort.comp # "any" => sort.args = Operands(sort)
        /\ sort.comp # "any" => sort.alone

OrderInv ==
    sort # NoSort /\ sort.comp # "any" =>
        /\ sort.st # "invalid"
        /\ sort.st # "raised" => Separated(tbl.array, sort.n, Parts(sort))
        /\ SortRuns => Established(sort, tbl.array)

IInv == TableInv /\ RangesInv /\ CallInv /\ OrderInv
=============================================================================
