--------------------------- MODULE CoroutineSpec ---------------------------
(***************************************************************************)
(* What the executor promises about threads, without frames or stashes:    *)
(* at most one chain of active threads, rooted at the main thread, in      *)
(* which each has resumed the next; a coroutine off the chain is parked    *)
(* (it can be resumed) or dead (it never runs again).                      *)
(***************************************************************************)
EXTENDS Sequences, Naturals

CONSTANTS Main, Coroutines

VARIABLES
    active,  \* the chain of active threads, the running one last
    parked,  \* coroutines that are fresh or suspended at a yield
    dead     \* coroutines that returned, failed or were closed

vars == <<active, parked, dead>>

Running == active[Len(active)]
Deactivate == active' = SubSeq(active, 1, Len(active) - 1)

Init == active = <<>> /\ parked = {} /\ dead = {}

\* The host starts the main thread; nothing else is active then.
Start == active = <<>> /\ active' = <<Main>> /\ UNCHANGED <<parked, dead>>

Create(co) ==
    /\ active # <<>> /\ co \notin parked \cup dead
    /\ \A i \in 1..Len(active) : active[i] # co
    /\ parked' = parked \cup {co} /\ UNCHANGED <<active, dead>>

Resume(co) ==
    /\ active # <<>> /\ co \in parked
    /\ active' = Append(active, co) /\ parked' = parked \ {co} /\ UNCHANGED dead

Yield ==
    /\ Len(active) > 1 /\ Deactivate
    /\ parked' = parked \cup {Running} /\ UNCHANGED dead

\* The running coroutine returns, or fails.
Finish ==
    /\ Len(active) > 1 /\ Deactivate
    /\ dead' = dead \cup {Running} /\ UNCHANGED parked

Close(co) ==
    /\ active # <<>> /\ co \in parked
    /\ parked' = parked \ {co} /\ dead' = dead \cup {co} /\ UNCHANGED active

Next == \/ Start \/ Yield \/ Finish
        \/ \E co \in Coroutines : Create(co) \/ Resume(co) \/ Close(co)

Spec == Init /\ [][Next]_vars
=============================================================================
