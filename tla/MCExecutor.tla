----------------------------- MODULE MCExecutor -----------------------------
(* Instances of Executor for TLC.                                          *)
EXTENDS ExecutorInv

CONSTANTS co1, co2, main

\* What the coroutine library and the other builtins return.
LibraryNatives == {"return", "error", "create", "resume", "wrap", "close", "yield"}
HostNatives == {"return", "error", "create", "resume", "yield", "sequence", "call", "call_then",
                "yield_then", "host_resume"}
AllNatives == LibraryNatives \cup HostNatives
AllPolls == {"Pending", "Return", "Call", "TailCall", "Yield", "TailYield", "Resume",
             "TailResume", "Err"}
=============================================================================
