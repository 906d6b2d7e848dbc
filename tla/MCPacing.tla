----------------------------- MODULE MCPacing -----------------------------
(* Instances of Pacing for TLC. *)
EXTENDS PacingInv

AllMethods ==
  {"collect_debt", "mark_debt", "finish_marking", "cycle_debt", "finish_cycle",
   "start_sweeping", "finalize"}

\* Pacing::DEFAULT, but for min_sleep.
Default ==
  [sleep_factor |-> 50, min_sleep |-> 1, mark_factor |-> 10, trace_factor |-> 40,
   keep_factor |-> 5, drop_factor |-> 20, free_factor |-> 30]

SizeValue == [b \in Box |-> IF b = 2 THEN 2 ELSE 1]
============================================================================
