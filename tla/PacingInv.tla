----------------------------- MODULE PacingInv ------------------------------
(***************************************************************************)
(* The inductive invariant of Pacing: which boxes the counters of Metrics  *)
(* have counted, and why no box is counted along two paths of a cycle.     *)
(***************************************************************************)
EXTENDS Pacing

\* MetricsInner, whose counters are numbers.
Counters ==
  [total_gcs : Int, total_gc_bytes : Int, total_external_bytes : Int,
   wakeup_amount : Int, artificial_debt : Int, external_bytes_start : Int,
   allocated_gc_bytes : Int, dropped_gc_bytes : Int, freed_gc_bytes : Int,
   marked_gc_bytes : Int, traced_gc_bytes : Int, remembered_gc_bytes : Int]

MetricsTypeOK == metrics \in Counters

\* usize can count the bytes that are allocated at any time.
HeapFits == Bytes(alloc) < Word

\* The counters of the cycle are the bytes of the boxes marked, traced,
\* remembered, dropped and freed in it.
Counts(M, T, R, D, F) ==
  /\ metrics.total_gc_bytes = Bytes(alloc)
  /\ metrics.marked_gc_bytes = Bytes(M)
  /\ metrics.traced_gc_bytes = Bytes(T)
  /\ metrics.remembered_gc_bytes = Bytes(R)
  /\ metrics.dropped_gc_bytes = Bytes(D)
  /\ metrics.freed_gc_bytes = Bytes(F)

\* Each box takes one path: it is freed, perhaps after it was dropped; it is
\* marked, dropped and remembered; or it is marked, traced and remembered.
Paths(M, T, R, D, F) ==
  /\ M \subseteq alloc /\ T \subseteq alloc /\ R \subseteq alloc
  /\ D \subseteq alloc \cup F /\ D \cap live = {}
  /\ F \cap alloc = {} /\ \A b \in F : b < fresh
  /\ D \cap T = {}

\* While the program may turn boxes gray again, what was marked and traced can
\* be told from the colors; resurrect has boxes without pointers traced, too.
MarkPaths(M, T) ==
  /\ M = {b \in Box : color[b] # "White"}
  /\ \A b \in T : color[b] = "Black"
  /\ \A b \in Box \ Leaf : color[b] = "Black" => b \in T

\* The sweep has yet to count the boxes before it.
SweepPaths(M, T, R) ==
  \A b \in alloc : b <= sweep =>
    /\ b \in M => color[b] # "White"
    /\ b \in T => color[b] = "Black"
    /\ b \notin R

Ledger(M, T, R, D, F) ==
  /\ Counts(M, T, R, D, F) /\ Paths(M, T, R, D, F)
  /\ phase = "Sleep" => M \cup T \cup R \cup D \cup F = {}
  /\ phase = "Mark" => MarkPaths(M, T) /\ R \cup D \cup F = {}
  /\ phase = "Sweep" => SweepPaths(M, T, R)

LedgerInv ==
  phase # "Drop" =>
    \E M, T, R, D, F \in SUBSET Box : Ledger(M, T, R, D, F)
=============================================================================
