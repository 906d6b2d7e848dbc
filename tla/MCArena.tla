------------------------------ MODULE MCArena ------------------------------
(* Instances of Arena for TLC. *)
EXTENDS ArenaInv

AllMethods ==
  {"collect_debt", "mark_debt", "finish_marking", "cycle_debt", "finish_cycle",
   "start_sweeping", "finalize"}
============================================================================
