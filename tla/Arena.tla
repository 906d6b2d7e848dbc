------------------------------- MODULE Arena -------------------------------
(***************************************************************************)
(* The incremental mark-and-sweep collector of src/src/dmm: the collector  *)
(* state machine (context.rs), the arena that hands out access to the heap *)
(* (arena.rs), the strong and weak pointers (gc.rs, gc_weak.rs) and the    *)
(* write barriers every mutation goes through (barrier.rs).                *)
(*                                                                         *)
(* A GcBox is named by its allocation number, so the intrusive list `all`, *)
(* to which `allocate` only prepends, is always in decreasing order.  The  *)
(* value in a box is abstracted to the sets of Gc and GcWeak pointers it   *)
(* holds, the gray queues to sets (the order in which gray boxes are       *)
(* popped is left open), and the size-based allocation debt to a choice:   *)
(* it may run out after any step of a call that pays debt.                 *)
(***************************************************************************)
EXTENDS Integers, FiniteSets

CONSTANTS
  MaxBox,   \* bound: number of allocations in a behaviour
  Leaf,     \* the boxes whose type has Collect::NEEDS_TRACE = false
  MaxOut,   \* bound: Gc pointers held by one box or by the root
  MaxWeak,  \* bound: GcWeak pointers held by one box or by the root; there
            \* are no weak pointers at all if it is 0
  Methods,  \* the collection methods the host calls
  MayPanic  \* whether a Collect::trace method may panic

Box == 1 .. MaxBox
Null == 0

ASSUME MaxBoxAssumption == MaxBox \in Nat
ASSUME LeafAssumption == Leaf \subseteq Box
ASSUME MayPanicAssumption == MayPanic \in BOOLEAN

VARIABLES
  phase,           \* Context::phase
  root_needs_trace,\* Context::root_needs_trace
  gray,            \* Context::gray
  gray_again,      \* Context::gray_again
  all,             \* Context::all, head of the list of boxes
  next,            \* GcBoxHeader::next of each box
  sweep,           \* Context::sweep
  sweep_prev,      \* Context::sweep_prev
  color,           \* GcBoxHeader::color
  live,            \* boxes whose header says is_live
  alloc,           \* boxes whose memory has not been deallocated
  fresh,           \* the next allocation number
  strong, weak,    \* Gc and GcWeak pointers in the value of each box
  root_strong, root_weak, \* ... and in the arena's root object
  call,            \* the arena method in progress
  run_until, stop, has_slept, \* parameters and local of do_collection
  held, held_weak  \* pointers a callback can get hold of

marking == <<root_needs_trace, gray, gray_again>>
list == <<all, next, sweep, sweep_prev>>
boxes == <<live, alloc, fresh>>
heap == <<strong, weak, root_strong, root_weak>>
request == <<run_until, stop, has_slept>>
callback == <<held, held_weak>>
vars == <<phase, marking, list, color, boxes, heap, call, request, callback>>

Colors == {"White", "WhiteWeak", "Gray", "Black"}
Whites == {"White", "WhiteWeak"}
Phases == {"Sleep", "Mark", "Sweep", "Drop"}

\* Stop, in the order its derived Ord gives it.
FullyMarked == 0
AtSweep     == 1
FinishCycle == 2
Full        == 3

Callbacks == {"mutate", "mutate_root", "finalize"}
Calls == Callbacks \cup {"none", "collect", "drop"}

-----------------------------------------------------------------------------
(* What a callback can reach.                                               *)

\* The boxes reachable through Gc pointers from the boxes in S: the smallest
\* set that contains S and is closed under the strong pointers.
Reach(S) ==
  {b \in Box : \A T \in SUBSET Box :
     (S \subseteq T /\ \A t \in T : strong[t] \subseteq T) => b \in T}

\* The GcWeak pointers held by the boxes in S.
WeakOf(S) == UNION {weak[b] : b \in S}

\* Weak pointers the program can still get at.
WeakReach == root_weak \cup held_weak \cup WeakOf(Reach(root_strong \cup held))

-----------------------------------------------------------------------------
(* Tracing and write barriers.  Each takes the colors and yields new ones.  *)

\* Mutant of Traced: weak pointers are not traced.
Traced_forgets_weak(c, S, W) ==
  [b \in Box |->
     IF b \in S /\ c[b] \in Whites
     THEN IF b \in Leaf THEN "Black" ELSE "Gray"
     ELSE c[b]]

\* Mutant of Traced: a weak pointer keeps a value without pointers alive.
Traced_weak_as_strong(c, S, W) ==
  [b \in Box |->
     CASE b \in S /\ c[b] \in Whites -> IF b \in Leaf THEN "Black" ELSE "Gray"
       [] b \in W \ S /\ c[b] \in Whites -> "Black"
       [] OTHER -> c[b]]

\* Context::trace on every pointer in S and Context::trace_weak on every
\* pointer in W, from the colors c.
Traced(c, S, W) ==
  [b \in Box |->
     CASE b \in S /\ c[b] \in Whites -> IF b \in Leaf THEN "Black" ELSE "Gray"
       [] b \in W \ S /\ c[b] = "White" -> "WhiteWeak"
       [] OTHER -> c[b]]

\* The boxes that tracing S pushes on the gray queue.
Pushed(c, S) == {b \in S \ Leaf : c[b] \in Whites}

\* Context::make_gray_again(p) when the barrier is hit, nothing otherwise.
GrayAgainIf(hit, p) ==
  /\ color' = IF hit THEN [color EXCEPT ![p] = "Gray"] ELSE color
  /\ gray_again' = IF hit THEN gray_again \cup {p} ELSE gray_again
  /\ UNCHANGED <<gray, root_needs_trace>>

\* Context::backward_barrier(p, child) where child is None, or Some with
\* childWhite saying whether it is unmarked.
backward_barrier(p, childWhite) ==
  GrayAgainIf(phase = "Mark" /\ color[p] = "Black" /\ childWhite, p)

\* Context::forward_barrier and forward_barrier_weak: S or W holds the child.
\* With no parent given the child is traced whatever its parent's color.
forward_barrier(parentBlack, S, W) ==
  LET hit == phase = "Mark" /\ parentBlack
  IN  /\ color' = IF hit THEN Traced(color, S, W) ELSE color
      /\ gray' = IF hit THEN gray \cup Pushed(color, S) ELSE gray
      /\ UNCHANGED <<gray_again, root_needs_trace>>

\* Context::root_barrier
root_barrier ==
  root_needs_trace' = (root_needs_trace \/ phase = "Mark")

gray_remaining == gray # {} \/ gray_again # {} \/ root_needs_trace

-----------------------------------------------------------------------------
(* Arena callbacks: mutate, mutate_root and MarkedArena::finalize.  A       *)
(* callback may read every pointer reachable from the root before it does   *)
(* anything else, so it starts out holding them all.                        *)

BeginCallback(kind) ==
  /\ call = "none"
  /\ call' = kind
  /\ held' = Reach(root_strong)
  /\ held_weak' = root_weak \cup WeakOf(Reach(root_strong))
  /\ UNCHANGED <<phase, gray, gray_again, list, color, boxes, heap, request>>

mutate == BeginCallback("mutate") /\ UNCHANGED root_needs_trace

mutate_root == BeginCallback("mutate_root") /\ root_barrier

\* mark_debt and finish_marking hand out a MarkedArena only in this state.
IsMarkedArena == phase = "Mark" /\ ~gray_remaining

finalize ==
  "finalize" \in Methods /\ IsMarkedArena /\ BeginCallback("finalize") /\ UNCHANGED root_needs_trace

\* The callback returns (or unwinds): no Gc pointer survives it outside the
\* object graph.
EndCallback ==
  /\ call \in Callbacks
  /\ call' = "none"
  /\ held' = {} /\ held_weak' = {}
  /\ UNCHANGED <<phase, marking, list, color, boxes, heap, request>>

\* Mutant of allocate: sweep_prev is not set to a box allocated while the sweep
\* has kept no box yet.
allocate_forgets_sweep_prev(S, W) ==
  /\ call \in Callbacks
  /\ fresh \in Box
  /\ fresh \in Leaf => S = {} /\ W = {}
  /\ Cardinality(S) <= MaxOut /\ Cardinality(W) <= MaxWeak
  /\ next' = [next EXCEPT ![fresh] = all]
  /\ all' = fresh
  /\ live' = live \cup {fresh}
  /\ alloc' = alloc \cup {fresh}
  /\ fresh' = fresh + 1
  /\ strong' = [strong EXCEPT ![fresh] = S]
  /\ weak' = [weak EXCEPT ![fresh] = W]
  /\ held' = held \cup {fresh}
  /\ UNCHANGED <<phase, marking, sweep, sweep_prev, color, root_strong,
                 root_weak, call, request, held_weak>>

\* Gc::new(mc, t): t already holds the pointers S and W.
allocate(S, W) ==
  /\ call \in Callbacks
  /\ fresh \in Box
  /\ fresh \in Leaf => S = {} /\ W = {}
  /\ Cardinality(S) <= MaxOut /\ Cardinality(W) <= MaxWeak
  /\ next' = [next EXCEPT ![fresh] = all]
  /\ all' = fresh
  /\ sweep_prev' = IF phase = "Sweep" /\ sweep_prev = Null
                   THEN fresh ELSE sweep_prev
  /\ live' = live \cup {fresh}
  /\ alloc' = alloc \cup {fresh}
  /\ fresh' = fresh + 1
  /\ strong' = [strong EXCEPT ![fresh] = S]
  /\ weak' = [weak EXCEPT ![fresh] = W]
  /\ held' = held \cup {fresh}
  /\ UNCHANGED <<phase, marking, sweep, color, root_strong, root_weak,
                 call, request, held_weak>>

\* The value in p comes to hold the Gc pointer c.  The barrier is the
\* caller's business.
AdoptStrong(p, c) ==
  /\ call \in Callbacks
  /\ p \in held \ Leaf /\ c \in held
  /\ Cardinality(strong[p] \cup {c}) <= MaxOut
  /\ strong' = [strong EXCEPT ![p] = @ \cup {c}]
  /\ UNCHANGED <<phase, list, boxes, weak, root_strong, root_weak,
                 call, request, callback>>

AdoptWeak(p, c) ==
  /\ call \in Callbacks
  /\ p \in held \ Leaf /\ c \in held_weak
  /\ Cardinality(weak[p] \cup {c}) <= MaxWeak
  /\ weak' = [weak EXCEPT ![p] = @ \cup {c}]
  /\ UNCHANGED <<phase, list, boxes, strong, root_strong, root_weak,
                 call, request, callback>>

\* Gc::write(mc, p) and then a store through the Write it returns.
WriteStrong(p, c) == AdoptStrong(p, c) /\ backward_barrier(p, TRUE)
WriteWeak(p, c)   == AdoptWeak(p, c) /\ backward_barrier(p, TRUE)

\* Gc::write(mc, p) and then overwriting a field that holds c; for a box
\* without pointers, any write at all.
Overwrite(p, c) ==
  /\ call \in Callbacks
  /\ p \in held
  /\ p \in Leaf \/ c \in strong[p] \cup weak[p]
  /\ strong' = [strong EXCEPT ![p] = @ \ {c}]
  /\ weak' = [weak EXCEPT ![p] = @ \ {c}]
  /\ backward_barrier(p, TRUE)
  /\ UNCHANGED <<phase, list, boxes, root_strong, root_weak,
                 call, request, callback>>

\* Mutation::backward_barrier(p, Some(c)) before p adopts c.
AdoptBackward(p, c) ==
  AdoptStrong(p, c) /\ backward_barrier(p, color[c] \in Whites)

\* Mutation::backward_barrier_weak(p, c) before p adopts the GcWeak c.
AdoptBackwardWeak(p, c) ==
  AdoptWeak(p, c) /\ backward_barrier(p, color[c] = "White")

\* Mutation::forward_barrier(parent, c), with and without a parent.
AdoptForward(p, c, given) ==
  AdoptStrong(p, c) /\ forward_barrier(given => color[p] = "Black", {c}, {})

AdoptForwardWeak(p, c, given) ==
  AdoptWeak(p, c) /\ forward_barrier(given => color[p] = "Black", {}, {c})

\* Stores into the root object, which mutate_root alone may change.
WriteRoot(S, W) ==
  /\ call = "mutate_root"
  /\ S \subseteq held /\ W \subseteq held_weak
  /\ Cardinality(S) <= MaxOut /\ Cardinality(W) <= MaxWeak
  /\ root_strong' = S
  /\ root_weak' = W
  /\ UNCHANGED <<phase, marking, list, color, boxes, strong, weak,
                 call, request, callback>>

\* Gc::downgrade
downgrade(c) ==
  /\ call \in Callbacks
  /\ MaxWeak > 0
  /\ c \in held
  /\ held_weak' = held_weak \cup {c}
  /\ UNCHANGED <<phase, marking, list, color, boxes, heap, call, request, held>>

\* The callback turns the weak pointer w into a strong one, and can then
\* read everything reachable from it.
Regain(w) ==
  /\ held' = held \cup Reach({w})
  /\ held_weak' = held_weak \cup WeakOf(Reach({w}))

\* Mutant of CanUpgrade: a box the sweep is about to drop can be upgraded.
CanUpgrade_while_sweeping(w) == w \in live

\* Context::upgrade
CanUpgrade(w) == w \in live /\ ~(phase = "Sweep" /\ color[w] = "WhiteWeak")

upgrade(w) ==
  /\ call \in Callbacks
  /\ w \in held_weak
  /\ CanUpgrade(w)
  /\ Regain(w)
  /\ UNCHANGED <<phase, marking, list, color, boxes, heap, call, request>>

\* GcWeak::resurrect, from a finalization callback.
resurrect(w) ==
  /\ call = "finalize"
  /\ w \in held_weak \cap live
  /\ Regain(w)
  /\ color' = IF color[w] \in Whites THEN [color EXCEPT ![w] = "Gray"] ELSE color
  /\ gray' = IF color[w] \in Whites THEN gray \cup {w} ELSE gray
  /\ UNCHANGED <<phase, root_needs_trace, gray_again, list, boxes, heap,
                 call, request>>

-----------------------------------------------------------------------------
(* Context::do_collection.  A call is a loop; each action below is one      *)
(* iteration.  No callback runs between two iterations of one call.         *)

Return ==
  /\ call' = "none"
  /\ run_until' = "Stop" /\ stop' = FullyMarked /\ has_slept' = FALSE

\* The test at the bottom of the loop: a call that pays debt stops once the
\* debt is zero.
DebtCheck(slept) ==
  \/ has_slept' = slept /\ UNCHANGED <<call, run_until, stop>>
  \/ run_until = "PayDebt" /\ Return

\* Entering do_collection.  A call that pays debt and finds none returns at
\* once, changing nothing.
do_collection(until, s) ==
  /\ call = "none"
  /\ call' = "collect"
  /\ run_until' = until /\ stop' = s /\ has_slept' = FALSE
  /\ UNCHANGED <<phase, marking, list, color, boxes, heap, callback>>

\* The Arena methods that collect.
collect_debt   == "collect_debt" \in Methods /\ do_collection("PayDebt", Full)
mark_debt      == "mark_debt" \in Methods /\ do_collection("PayDebt", FullyMarked)
finish_marking == "finish_marking" \in Methods /\ do_collection("Stop", FullyMarked)
cycle_debt     == "cycle_debt" \in Methods /\ do_collection("PayDebt", FinishCycle)
finish_cycle   == "finish_cycle" \in Methods /\ do_collection("Stop", FinishCycle)
start_sweeping ==
  "start_sweeping" \in Methods /\ IsMarkedArena /\ do_collection("Stop", AtSweep)

\* Phase::Sleep
WakeUp ==
  /\ call = "collect" /\ phase = "Sleep"
  /\ phase' = "Mark"
  /\ DebtCheck(TRUE)
  /\ UNCHANGED <<marking, list, color, boxes, heap, callback>>

\* The boxes mark_one may pop: gray first, gray_again when gray is empty.
Poppable == IF gray # {} THEN gray ELSE gray_again

\* mark_one on the gray box b: it turns black and its pointers are traced.
MarkBox(b) ==
  LET c == [color EXCEPT ![b] = "Black"]
  IN  /\ call = "collect" /\ phase = "Mark"
      /\ b \in Poppable
      /\ color' = Traced(c, strong[b], weak[b])
      /\ gray' = (gray \ {b}) \cup Pushed(c, strong[b])
      /\ gray_again' = IF gray # {} THEN gray_again ELSE gray_again \ {b}
      /\ DebtCheck(has_slept)
      /\ UNCHANGED <<phase, root_needs_trace, list, boxes, heap, callback>>

\* Mutant of MarkBoxPanic: without the DropGuard the box stays black.
MarkBoxPanic_no_guard(b, S, W) ==
  LET c == [color EXCEPT ![b] = "Black"]
  IN  /\ MayPanic
      /\ call = "collect" /\ phase = "Mark"
      /\ b \in Poppable
      /\ S \subseteq strong[b] /\ W \subseteq weak[b]
      /\ color' = Traced(c, S, W)
      /\ gray' = (gray \ {b}) \cup Pushed(c, S)
      /\ gray_again' = IF gray # {} THEN gray_again ELSE gray_again \ {b}
      /\ Return
      /\ UNCHANGED <<phase, root_needs_trace, list, boxes, heap, callback>>

\* mark_one when the trace method of b panics after tracing S and W: the
\* DropGuard puts b on gray_again and the panic unwinds out of the call.
MarkBoxPanic(b, S, W) ==
  LET c == [color EXCEPT ![b] = "Black"]
  IN  /\ MayPanic
      /\ call = "collect" /\ phase = "Mark"
      /\ b \in Poppable
      /\ S \subseteq strong[b] /\ W \subseteq weak[b]
      /\ color' = [Traced(c, S, W) EXCEPT ![b] = "Gray"]
      /\ gray' = (gray \ {b}) \cup Pushed(c, S)
      /\ gray_again' = gray_again \cup {b}
      /\ Return
      /\ UNCHANGED <<phase, root_needs_trace, list, boxes, heap, callback>>

\* Mutant of MarkRoot: the root is not noted as traced.
MarkRoot_again(S, W, panicked) ==
  /\ call = "collect" /\ phase = "Mark"
  /\ gray = {} /\ gray_again = {} /\ root_needs_trace
  /\ IF panicked
     THEN MayPanic /\ S \subseteq root_strong /\ W \subseteq root_weak
     ELSE S = root_strong /\ W = root_weak
  /\ color' = Traced(color, S, W)
  /\ gray' = Pushed(color, S)
  /\ IF panicked THEN Return ELSE DebtCheck(has_slept)
  /\ UNCHANGED <<phase, root_needs_trace, gray_again, list, boxes, heap, callback>>

\* mark_one with both queues empty and the root still to be traced; with
\* panicked, its trace method panics after tracing S and W.
MarkRoot(S, W, panicked) ==
  /\ call = "collect" /\ phase = "Mark"
  /\ gray = {} /\ gray_again = {} /\ root_needs_trace
  /\ IF panicked
     THEN MayPanic /\ S \subseteq root_strong /\ W \subseteq root_weak
     ELSE S = root_strong /\ W = root_weak
  /\ color' = Traced(color, S, W)
  /\ gray' = Pushed(color, S)
  /\ root_needs_trace' = panicked
  /\ IF panicked THEN Return ELSE DebtCheck(has_slept)
  /\ UNCHANGED <<phase, gray_again, list, boxes, heap, callback>>

\* mark_one finds nothing gray: stop here, or enter the sweep phase.
EndMark ==
  /\ call = "collect" /\ phase = "Mark"
  /\ ~gray_remaining
  /\ IF stop <= FullyMarked
     THEN Return /\ UNCHANGED <<phase, sweep>>
     ELSE /\ phase' = "Sweep"
          /\ sweep' = all
          /\ DebtCheck(has_slept)
  /\ UNCHANGED <<marking, all, next, sweep_prev, color, boxes, heap, callback>>

\* Phase::Sweep under Stop::FullyMarked or Stop::AtSweep.
StopAtSweep ==
  /\ call = "collect" /\ phase = "Sweep"
  /\ stop <= AtSweep
  /\ Return
  /\ UNCHANGED <<phase, marking, list, color, boxes, heap, callback>>

Sweeping ==
  /\ call = "collect" /\ phase = "Sweep"
  /\ stop > AtSweep
  /\ sweep # Null
  /\ sweep' = next[sweep]
  /\ UNCHANGED <<phase, marking, fresh, root_strong, root_weak, callback>>

\* The contents of the swept box are dropped in place, unless that was done
\* in an earlier cycle.  A destructor that panics unwinds out of the call; the
\* box, which is already unlinked if it is white, is then leaked and no longer
\* counts as one of the context's.
DropContents ==
  /\ DebtCheck(has_slept) \/ (sweep \in live /\ run_until = "Stop" /\ Return)
  /\ live' = live \ {sweep}
  /\ strong' = [strong EXCEPT ![sweep] = {}]
  /\ weak' = [weak EXCEPT ![sweep] = {}]

\* sweep_one on a white box: unlink it, drop it if that has not been done,
\* and deallocate it.
SweepWhite ==
  /\ Sweeping
  /\ color[sweep] = "White"
  /\ IF sweep_prev # Null
     THEN /\ next' = [next EXCEPT ![sweep_prev] = next[sweep], ![sweep] = Null]
          /\ UNCHANGED all
     ELSE /\ all' = next[sweep]
          /\ next' = [next EXCEPT ![sweep] = Null]
  /\ DropContents
  /\ alloc' = alloc \ {sweep}
  /\ UNCHANGED <<sweep_prev, color>>

\* sweep_one on a box that only weak pointers reach: its contents go, the
\* box stays for the weak pointers to look at.
SweepWhiteWeak ==
  /\ Sweeping
  /\ color[sweep] = "WhiteWeak"
  /\ sweep_prev' = sweep
  /\ color' = [color EXCEPT ![sweep] = "White"]
  /\ DropContents
  /\ UNCHANGED <<all, next, alloc>>

\* Mutant of SweepBlack: the box keeps its mark for the next cycle.
SweepBlack_keeps_mark ==
  /\ Sweeping
  /\ color[sweep] = "Black"
  /\ sweep_prev' = sweep
  /\ DebtCheck(has_slept)
  /\ UNCHANGED <<color, all, next, live, alloc, strong, weak>>

\* sweep_one on a marked box: white again for the next cycle.
SweepBlack ==
  /\ Sweeping
  /\ color[sweep] = "Black"
  /\ sweep_prev' = sweep
  /\ color' = [color EXCEPT ![sweep] = "White"]
  /\ DebtCheck(has_slept)
  /\ UNCHANGED <<all, next, live, alloc, strong, weak>>

\* Mutant of EndSweep: sweep_prev survives into the next cycle.
EndSweep_keeps_sweep_prev ==
  /\ call = "collect" /\ phase = "Sweep"
  /\ stop > AtSweep
  /\ sweep = Null
  /\ root_needs_trace' = TRUE
  /\ phase' = "Sleep"
  /\ IF stop = FinishCycle \/ has_slept
     THEN Return
     ELSE DebtCheck(has_slept)
  /\ UNCHANGED <<gray, gray_again, list, color, boxes, heap, callback>>

\* sweep_one at the end of the list: the cycle is over.
EndSweep ==
  /\ call = "collect" /\ phase = "Sweep"
  /\ stop > AtSweep
  /\ sweep = Null
  /\ sweep_prev' = Null
  /\ root_needs_trace' = TRUE
  /\ phase' = "Sleep"
  /\ IF stop = FinishCycle \/ has_slept
     THEN Return
     ELSE DebtCheck(has_slept)
  /\ UNCHANGED <<gray, gray_again, all, next, sweep, color, boxes, heap, callback>>

-----------------------------------------------------------------------------
(* Dropping the arena: Context::drop walks the list and frees every box.    *)

DropArena ==
  /\ call = "none"
  /\ call' = "drop"
  /\ phase' = "Drop"
  /\ root_strong' = {} /\ root_weak' = {}
  /\ UNCHANGED <<marking, list, color, boxes, strong, weak, request, callback>>

DropBox ==
  /\ call = "drop"
  /\ all # Null
  /\ all' = next[all]
  /\ live' = live \ {all}
  /\ alloc' = alloc \ {all}
  /\ strong' = [strong EXCEPT ![all] = {}]
  /\ weak' = [weak EXCEPT ![all] = {}]
  /\ UNCHANGED <<phase, marking, next, sweep, sweep_prev, color, fresh,
                 root_strong, root_weak, call, request, callback>>

-----------------------------------------------------------------------------

\* Context::new, with the root that Arena::new's callback has yet to fill.
\* That callback runs like one of mutate_root's, and so do the ones of
\* map_root and try_map_root, which replace the whole root.
Init ==
  /\ phase = "Sleep" /\ root_needs_trace = TRUE
  /\ gray = {} /\ gray_again = {}
  /\ all = Null /\ sweep = Null /\ sweep_prev = Null
  /\ next = [b \in Box |-> Null]
  /\ color = [b \in Box |-> "White"]
  /\ live = {} /\ alloc = {} /\ fresh = 1
  /\ strong = [b \in Box |-> {}] /\ weak = [b \in Box |-> {}]
  /\ root_strong = {} /\ root_weak = {}
  /\ call = "none"
  /\ run_until = "Stop" /\ stop = FullyMarked /\ has_slept = FALSE
  /\ held = {} /\ held_weak = {}

Mutator ==
  \/ mutate \/ mutate_root \/ finalize \/ EndCallback
  \/ \E S \in SUBSET held, W \in SUBSET held_weak : allocate(S, W)
  \/ \E S \in SUBSET held, W \in SUBSET held_weak : WriteRoot(S, W)
  \/ \E p \in held, c \in held :
       \/ WriteStrong(p, c) \/ AdoptBackward(p, c)
       \/ \E given \in BOOLEAN : AdoptForward(p, c, given)
  \/ \E p \in held, c \in held_weak :
       \/ WriteWeak(p, c) \/ AdoptBackwardWeak(p, c)
       \/ \E given \in BOOLEAN : AdoptForwardWeak(p, c, given)
  \/ \E p \in held, c \in Box : Overwrite(p, c)
  \/ \E c \in held : downgrade(c)
  \/ \E w \in held_weak : upgrade(w) \/ resurrect(w)

Request ==
  \/ collect_debt \/ mark_debt \/ finish_marking
  \/ cycle_debt \/ finish_cycle \/ start_sweeping

Collector ==
  \/ WakeUp
  \/ \E b \in Box : MarkBox(b)
  \/ \E b \in Box : \E S \in SUBSET strong[b], W \in SUBSET weak[b] :
       MarkBoxPanic(b, S, W)
  \/ \E S \in SUBSET root_strong, W \in SUBSET root_weak, p \in BOOLEAN :
       MarkRoot(S, W, p)
  \/ EndMark \/ StopAtSweep
  \/ SweepWhite \/ SweepWhiteWeak \/ SweepBlack \/ EndSweep

Next == Mutator \/ Request \/ Collector \/ DropArena \/ DropBox

Spec == Init /\ [][Next]_vars

-----------------------------------------------------------------------------
(* Safety properties.                                                       *)

CollectorTypeOK ==
  /\ phase \in Phases /\ root_needs_trace \in BOOLEAN
  /\ gray \subseteq Box /\ gray_again \subseteq Box
  /\ all \in Box \cup {Null} /\ next \in [Box -> Box \cup {Null}]
  /\ sweep \in Box \cup {Null} /\ sweep_prev \in Box \cup {Null}
  /\ color \in [Box -> Colors]

HeapTypeOK ==
  /\ live \subseteq alloc /\ alloc \subseteq Box /\ fresh \in 1 .. MaxBox + 1
  /\ strong \in [Box -> SUBSET Box] /\ weak \in [Box -> SUBSET Box]
  /\ root_strong \subseteq Box /\ root_weak \subseteq Box
  /\ held \subseteq Box /\ held_weak \subseteq Box

RequestTypeOK ==
  /\ call \in Calls
  /\ run_until \in {"PayDebt", "Stop"} /\ stop \in FullyMarked .. Full
  /\ has_slept \in BOOLEAN

\* The state of the collector, the heap and the call in progress.
TypeOK == CollectorTypeOK /\ HeapTypeOK /\ RequestTypeOK

\* Every Gc pointer the program can follow, from the root or from what a
\* running callback got hold of by reading, allocating, upgrading or
\* resurrecting, leads to a box whose value has not been dropped: sweep_one
\* never drops a value still in use, whatever the mutator did to the graph
\* between the steps of marking and sweeping.
NoDangling == Reach(root_strong \cup held) \subseteq live \cap alloc

\* GcWeak::upgrade and is_dropped read the header of the box: a box some
\* reachable weak pointer names may lose its value but never its memory.
WeakHeaderValid == WeakReach \subseteq alloc

\* The boxes on the list `all`, found by following `next` from the head.
OnList ==
  {b \in Box : \A T \in SUBSET Box :
     (({all} \ {Null}) \subseteq T
        /\ \A t \in T : {next[t]} \ {Null} \subseteq T) => b \in T}

\* The list holds exactly the boxes not yet deallocated, although sweep_one
\* unlinks boxes behind sweep_prev while allocate prepends new ones: a box off
\* the list would leak, a freed box on it would be freed twice.
ListIsAlloc == OnList = alloc

\* What sweep_one debug_asserts and what it says of sweep_prev: no gray box is
\* left to sweep, and without a sweep_prev the sweep starts the list.
SweepAsserts ==
  phase = "Sweep" /\ sweep # Null =>
    /\ color[sweep] # "Gray"
    /\ sweep_prev = Null => all = sweep
    /\ sweep_prev # Null => next[sweep_prev] = sweep

\* The gray queues hold the gray boxes, each once: a gray box off the queues
\* would never be traced, and a box on both would be pushed back while black.
\* The debug_asserts of trace and mark_one want queued boxes undropped.
QueuesAreGray ==
  phase # "Drop" =>
    /\ gray \cap gray_again = {}
    /\ gray \cup gray_again = {b \in alloc : color[b] = "Gray"}
    /\ gray \cup gray_again \subseteq live

\* When marking is over, and a MarkedArena may be had, marking is complete: all
\* the root reaches is black, and what it only reaches weakly is not white, so
\* that Gc::is_dead tells the truth and the sweep can go by color alone.
MarkedIsComplete ==
  IsMarkedArena /\ call = "none" =>
    /\ \A b \in Reach(root_strong) : color[b] = "Black"
    /\ \A b \in root_weak \cup WeakOf(Reach(root_strong)) : color[b] # "White"

\* The asserts on where a call stops: start_sweeping has nothing left to trace
\* (so nothing can panic on the way) and ends sweeping, and only a call that
\* wants a whole cycle goes from waking up to sweeping.
StopAsserts ==
  call = "collect" =>
    /\ stop = AtSweep => phase = "Sweep" \/ IsMarkedArena
    /\ has_slept /\ phase = "Sweep" => stop >= FinishCycle

-----------------------------------------------------------------------------
(* Liveness, for a host that goes on calling finish_cycle and whose         *)
(* callbacks return, and trace methods that do not panic for ever.  A call  *)
(* of the collector runs to its end on its own.                             *)

TracePanics ==
  \/ \E b \in Box : \E S \in SUBSET strong[b], W \in SUBSET weak[b] : MarkBoxPanic(b, S, W)
  \/ \E S \in SUBSET root_strong, W \in SUBSET root_weak : MarkRoot(S, W, TRUE)

Fairness ==
  /\ <>[][~TracePanics]_vars
  /\ WF_vars(EndCallback)
  /\ SF_vars(finish_cycle)
  /\ WF_vars(Collector)
  /\ WF_vars(DropBox)

FairSpec == Spec /\ Fairness

Unreachable(b) == b \notin Reach(root_strong \cup held)

\* No value stays undropped for ever without a strong pointer to it, even if
\* weak pointers name its box or it is part of a cycle.
DeadValuesAreDropped ==
  \A b \in Box : ~<>[](b \in live /\ Unreachable(b))

\* No box stays allocated for ever once neither strong nor weak pointers reach
\* it: the cycle that finds it dead, or the next one, deallocates it.
DeadBoxesAreFreed ==
  \A b \in Box : ~<>[](b \in alloc /\ Unreachable(b) /\ b \notin WeakReach)
============================================================================
