------------------------------- MODULE Pacing -------------------------------
(***************************************************************************)
(* When the collector works: the counters of Metrics (dmm/metrics.rs),     *)
(* which decide how far a call that pays debt goes, over the collector of  *)
(* Arena, which leaves that open.                                          *)
(*                                                                         *)
(* Work is counted where a box changes: the counters below follow from the *)
(* step of the collector.  Bytes are whole numbers and amounts of debt are *)
(* in hundredths, so that the factors of a Pacing are whole as well; the   *)
(* rounding of f64 is not modelled.  Destructors do not panic here.        *)
(***************************************************************************)
EXTENDS ArenaInv, FiniteSetsExt

CONSTANTS
  Size,         \* GcBoxHeader::size_of_box of each box
  pacing,       \* the Pacing in force, its factors in hundredths
  Word,         \* usize holds the numbers below this
  Amounts,      \* bound: bytes the host adds at a time
  MaxDebt,      \* bound: bytes of artificial debt the host adds
  MaxExternal,  \* bound: bytes allocated outside the arena
  LeafWrites    \* whether the program writes to boxes that hold no pointers

\* What Pacing asks of its factors: each way a box can go through a cycle is
\* less than one unit of work per byte.
PathWork(p) ==
  Max({p.mark_factor + p.trace_factor + p.keep_factor,
       p.drop_factor + p.free_factor,
       p.mark_factor + p.drop_factor + p.keep_factor})

\* The factors, which are not negative.
Pacings == [sleep_factor : Nat, min_sleep : Nat, mark_factor : Nat, trace_factor : Nat,
            keep_factor : Nat, drop_factor : Nat, free_factor : Nat]

ASSUME SizeAssumption == Size \in [Box -> Nat \ {0}]
ASSUME PacingAssumption == pacing \in Pacings /\ PathWork(pacing) < 100
ASSUME WordAssumption == Word \in Nat \ {0}
ASSUME AmountsAssumption == Amounts \subseteq Nat /\ MaxDebt \in Nat /\ MaxExternal \in Nat

VARIABLE metrics  \* MetricsInner; the *_gcs counters no decision reads are left out

paced_vars == <<vars, metrics>>

\* The sum of f over the boxes, one box after the other.
Total(f) ==
  LET sum[b \in 0..MaxBox] == IF b = 0 THEN 0 ELSE sum[b - 1] + f[b]
  IN  sum[MaxBox]

Bytes(S) == Total([b \in Box |-> IF b \in S THEN Size[b] ELSE 0])

\* Metrics::allocation_debt, without and with the work done.
cycle_debits(m) ==
  LET external == Max({0, m.total_external_bytes - m.external_bytes_start})
  IN  100 * (m.allocated_gc_bytes + external) - m.wakeup_amount + m.artificial_debt

cycle_credits(m) ==
  m.marked_gc_bytes * pacing.mark_factor + m.traced_gc_bytes * pacing.trace_factor
    + m.remembered_gc_bytes * pacing.keep_factor
    + m.dropped_gc_bytes * pacing.drop_factor + m.freed_gc_bytes * pacing.free_factor

allocation_debt(m) ==
  IF m.total_gcs = 0 \/ cycle_debits(m) <= 0 THEN 0
  ELSE Max({0, cycle_debits(m) - cycle_credits(m)})

\* Mutant of finish_cycle: a cycle done in one go leaves its debt.
finish_cycle_keeps_debt(m, reset_debt) ==
  [m EXCEPT !.wakeup_amount = Max({m.remembered_gc_bytes * pacing.sleep_factor, 100 * pacing.min_sleep}),
            !.artificial_debt = allocation_debt(m),
            !.external_bytes_start = m.total_external_bytes,
            !.allocated_gc_bytes = 0, !.dropped_gc_bytes = 0, !.freed_gc_bytes = 0,
            !.marked_gc_bytes = 0, !.traced_gc_bytes = 0, !.remembered_gc_bytes = 0]

\* Metrics::finish_cycle
metrics_finish_cycle(m, reset_debt) ==
  [m EXCEPT !.wakeup_amount = Max({m.remembered_gc_bytes * pacing.sleep_factor, 100 * pacing.min_sleep}),
            !.artificial_debt = IF reset_debt THEN 0 ELSE allocation_debt(m),
            !.external_bytes_start = m.total_external_bytes,
            !.allocated_gc_bytes = 0, !.dropped_gc_bytes = 0, !.freed_gc_bytes = 0,
            !.marked_gc_bytes = 0, !.traced_gc_bytes = 0, !.remembered_gc_bytes = 0]

-----------------------------------------------------------------------------
(* The boxes a step of the collector or of a callback changes, by what     *)
(* calls the counters: allocate; trace, trace_weak and resurrect on a box  *)
(* met for the first time; mark_one; make_gray_again; sweep_one.           *)

Allocated == alloc' \ alloc
Freed == alloc \ alloc'
Dropped == live \ live'
Marked == {b \in Box : color[b] = "White" /\ color'[b] # "White"}
TracedBoxes == {b \in Box : color[b] = "Gray" /\ color'[b] = "Black"}
Remembered == {b \in alloc' : call = "collect" /\ phase = "Sweep" /\ b = sweep /\ sweep' # sweep}

\* Mutant of Untraced: a box put on gray_again keeps the credit of its trace.
Untraced_forgotten == {}

\* The boxes make_gray_again takes back.
Untraced == {b \in Box : color[b] = "Black" /\ color'[b] = "Gray"}

\* The counters after the step; traced_gc_bytes may wrap around zero.
Counted ==
  metrics' = [metrics EXCEPT
    !.total_gcs = @ + Cardinality(Allocated) - Cardinality(Freed),
    !.total_gc_bytes = @ + Bytes(Allocated) - Bytes(Freed),
    !.allocated_gc_bytes = @ + Bytes(Allocated),
    !.marked_gc_bytes = @ + Bytes(Marked),
    !.traced_gc_bytes = (@ + Bytes(TracedBoxes) - Bytes(Untraced)) % Word,
    !.dropped_gc_bytes = @ + Bytes(Dropped),
    !.freed_gc_bytes = @ + Bytes(Freed),
    !.remembered_gc_bytes = @ + Bytes(Remembered)]

\* The test at the bottom of the loop of do_collection: a call that pays debt
\* returns exactly when there is none, any other goes on.
PaysDebt == (call' = "none") <=> (run_until = "PayDebt" /\ allocation_debt(metrics') = 0)
-----------------------------------------------------------------------------

\* A callback may take any step of Arena's; LeafWrites says whether its writes
\* turn boxes without pointers gray again.
PacedMutator == Mutator /\ Counted /\ (LeafWrites \/ Untraced \cap Leaf = {})

\* A call that pays debt and finds none returns at once.
PacedRequest ==
  Request /\ (run_until' = "PayDebt" => allocation_debt(metrics) > 0) /\ UNCHANGED metrics

\* One iteration of do_collection that ends with the test for debt.
WorkStep ==
  /\ \/ WakeUp
     \/ \E b \in Box : MarkBox(b)
     \/ MarkRoot(root_strong, root_weak, FALSE)
     \/ SweepWhite \/ SweepWhiteWeak \/ SweepBlack
  /\ Counted
  /\ PaysDebt

\* One that breaks off: this phase is not to be swept, or a trace method panics.
PacedStopAtSweep == StopAtSweep /\ UNCHANGED metrics

PanicStep ==
  /\ \/ \E b \in Box : \E S \in SUBSET strong[b], W \in SUBSET weak[b] : MarkBoxPanic(b, S, W)
     \/ \E S \in SUBSET root_strong, W \in SUBSET root_weak : MarkRoot(S, W, TRUE)
  /\ Counted

PacedEndMark == EndMark /\ UNCHANGED metrics /\ (stop > FullyMarked => PaysDebt)

PacedEndSweep ==
  /\ EndSweep
  /\ metrics' = metrics_finish_cycle(metrics, has_slept)
  /\ ~(stop = FinishCycle \/ has_slept) => PaysDebt

PacedLoop == WorkStep \/ PacedStopAtSweep \/ PacedEndMark \/ PacedEndSweep

PacedCollector == PacedLoop \/ PanicStep

\* Metrics::add_debt
add_debt(n) ==
  /\ metrics.artificial_debt + 100 * n <= 100 * MaxDebt
  /\ metrics' = [metrics EXCEPT !.artificial_debt = @ + 100 * n]

\* Metrics::mark_external_allocation and mark_external_deallocation
mark_external_allocation(n) ==
  /\ metrics.total_external_bytes + n <= MaxExternal
  /\ metrics' = [metrics EXCEPT !.total_external_bytes = @ + n]

mark_external_deallocation(n) ==
  metrics' = [metrics EXCEPT !.total_external_bytes = Max({0, @ - n})]

\* The host and its allocations.  Those made by a callback or a destructor are
\* counted before or after it: nothing reads the counters in between.
External ==
  /\ call = "none"
  /\ \E n \in Amounts : add_debt(n) \/ mark_external_allocation(n) \/ mark_external_deallocation(n)
  /\ UNCHANGED vars

PacedInit ==
  /\ Init
  /\ metrics = [total_gcs |-> 0, total_gc_bytes |-> 0, total_external_bytes |-> 0,
                wakeup_amount |-> 0, artificial_debt |-> 0, external_bytes_start |-> 0,
                allocated_gc_bytes |-> 0, dropped_gc_bytes |-> 0, freed_gc_bytes |-> 0,
                marked_gc_bytes |-> 0, traced_gc_bytes |-> 0, remembered_gc_bytes |-> 0]

PacedNext ==
  \/ PacedMutator \/ PacedRequest \/ PacedCollector \/ External
  \/ (DropArena \/ DropBox) /\ Counted

\* do_collection is a loop: it goes on by itself, and no trace need panic.
PacedSpec == PacedInit /\ [][PacedNext]_paced_vars /\ WF_paced_vars(PacedLoop)
-----------------------------------------------------------------------------
(* Properties                                                              *)

\* The work counted in a cycle is at most PathWork for every byte that took
\* part in it, however often the mutator turns boxes gray again, upgrades and
\* resurrects them, and traces panic and are repeated.  So a cycle whose debits
\* exceed that has debt left until it ends: collect_debt cannot stall half way.
NeverStalls ==
  LET bytes == metrics.total_gc_bytes + metrics.freed_gc_bytes
  IN  phase # "Drop" /\ metrics.total_gcs > 0 /\ cycle_debits(metrics) > PathWork(pacing) * bytes
        => allocation_debt(metrics) > 0

\* collect_debt returns with the debt paid, also where it gives up after a
\* whole cycle; only a panic in a trace method ends it early.
DebtIsPaid ==
  [][ call = "collect" /\ run_until = "PayDebt" /\ stop = Full /\ call' = "none" /\ ~PanicStep
        => allocation_debt(metrics') = 0 ]_paced_vars

\* Every call of the collector returns, whatever debt it inherits from cycle
\* to cycle.
CollectReturns == call = "collect" ~> call # "collect"
=============================================================================
