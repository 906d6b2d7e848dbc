---------------------------- MODULE DynamicRoots ----------------------------
(***************************************************************************)
(* Dynamic root sets and stashed values (dmm/dynamic_roots.rs and          *)
(* lua/stash.rs): how a host, or the future of an async sequence, keeps    *)
(* collected values across callbacks.                                      *)
(*                                                                         *)
(* A set lives in a box of the arena and owns, through an Rc, a vector of  *)
(* slots.  A handle holds the pointer itself, a Weak to the slots and the  *)
(* index of its slot, which counts its handles.  Handles are outside the   *)
(* arena: the host clones and drops them at any time, before or after the  *)
(* set was collected.                                                      *)
(*                                                                         *)
(* The collector is reduced to what a set can observe of it: sets are      *)
(* traced one by one, what is not marked is freed one by one.  Arena has   *)
(* the rest.  A set is named by the address of its slots.  The bytes that  *)
(* Slots reports to Metrics are left out.                                  *)
(***************************************************************************)
EXTENDS Naturals, Sequences, FiniteSets

CONSTANTS
    Sets,       \* addresses the slots of a set can have
    Handles,    \* names for handles of the host
    Values,     \* boxes of the arena that can be stashed
    Immediates  \* nil, booleans and numbers, which need no box

ASSUME HandlesAssumption == IsFiniteSet(Handles)
ASSUME KindsAssumption == Values \cap Immediates = {}

NULL_INDEX == 0
Dropped == [kind |-> "dropped"]

VARIABLES
    set,     \* Slots at every address: slots, next_free; live while the Rc is
    rooted,  \* sets the program can still reach
    handle,  \* StashedValue of every handle name
    alive,   \* boxes that are not freed
    linked,  \* boxes the program can reach without any dynamic root
    phase,   \* "Sleep", "Mark" or "Sweep"
    black,   \* sets traced in this cycle, or allocated after marking ended
    marked   \* values marked in this cycle, or allocated after marking ended

vars == <<set, rooted, handle, alive, linked, phase, black, marked>>

Vacant(next_free) == [kind |-> "Vacant", next_free |-> next_free]
Occupied(root, ref_count) == [kind |-> "Occupied", root |-> root, ref_count |-> ref_count]
NoSlots == [live |-> FALSE, slots |-> <<>>, next_free |-> NULL_INDEX]

Inline(v) == [kind |-> "inline", ptr |-> v]
DynamicRoot(s, i, v) == [kind |-> "root", slots |-> s, index |-> i, ptr |-> v]

Init ==
    /\ set = [s \in Sets |-> NoSlots]
    /\ rooted = {}
    /\ handle = [h \in Handles |-> Dropped]
    /\ alive = {} /\ linked = {}
    /\ phase = "Sleep" /\ black = {} /\ marked = {}
-----------------------------------------------------------------------------
(* The slots                                                               *)

IsOccupied(sl, i) == i \in DOMAIN sl.slots /\ sl.slots[i].kind = "Occupied"
IsVacant(sl, i) == i \in DOMAIN sl.slots /\ sl.slots[i].kind = "Vacant"

\* The handles of slot i of set s.
HandlesOf(s, i) ==
    {h \in Handles : handle[h].kind = "root" /\ handle[h].slots = s /\ handle[h].index = i}

\* The index Slots::add picks: the head of the free list, else a new slot.
AddIndex(sl) == IF sl.next_free # NULL_INDEX THEN sl.next_free ELSE Len(sl.slots) + 1

\* The count starts at 0: an occupied slot has one handle more than it says.
add(sl, v) ==
    IF sl.next_free # NULL_INDEX
    THEN [sl EXCEPT !.next_free = sl.slots[sl.next_free].next_free,
                    !.slots[sl.next_free] = Occupied(v, 0)]
    ELSE [sl EXCEPT !.slots = Append(sl.slots, Occupied(v, 0))]

inc(sl, i) == [sl EXCEPT !.slots[i].ref_count = @ + 1]

\* Mutant of dec: the vacated slot is not linked.
dec_unlinked(sl, i) ==
    IF sl.slots[i].ref_count = 0 THEN [sl EXCEPT !.slots[i] = Vacant(sl.next_free)]
    ELSE [sl EXCEPT !.slots[i].ref_count = @ - 1]

dec(sl, i) ==
    IF sl.slots[i].ref_count = 0
    THEN [sl EXCEPT !.slots[i] = Vacant(sl.next_free), !.next_free = i]
    ELSE [sl EXCEPT !.slots[i].ref_count = @ - 1]

\* The Weak of a handle leads to slots that still exist.
upgrade(h) == handle[h].kind = "root" /\ set[handle[h].slots].live

\* An address is taken while an Rc or a Weak to it exists.
AddressFree(s) ==
    /\ ~set[s].live
    /\ \A h \in Handles : handle[h].kind = "root" => handle[h].slots # s
-----------------------------------------------------------------------------
(* The program in a callback                                               *)

new(s) ==
    /\ AddressFree(s)
    /\ set' = [set EXCEPT ![s] = [NoSlots EXCEPT !.live = TRUE]]
    /\ rooted' = rooted \cup {s}
    /\ black' = IF phase = "Sweep" THEN black \cup {s} ELSE black
    /\ UNCHANGED <<handle, alive, linked, phase, marked>>

Allocate(v) ==
    /\ v \notin alive
    /\ alive' = alive \cup {v}
    /\ linked' = linked \cup {v}
    /\ marked' = IF phase = "Sweep" THEN marked \cup {v} ELSE marked
    /\ UNCHANGED <<set, rooted, handle, phase, black>>

\* Mistake: the barrier is forgotten.
stash_no_barrier(s, v, h) ==
    /\ s \in rooted /\ v \in linked /\ handle[h] = Dropped
    /\ set' = [set EXCEPT ![s] = add(@, v)]
    /\ handle' = [handle EXCEPT ![h] = DynamicRoot(s, AddIndex(set[s]), v)]
    /\ UNCHANGED <<rooted, alive, linked, phase, black, marked>>

\* Adopting a pointer needs a backward barrier: a set that was traced already
\* is queued again when it gets a value that was not marked.
stash(s, v, h) ==
    /\ s \in rooted /\ v \in linked /\ handle[h] = Dropped
    /\ black' = IF phase = "Mark" /\ v \notin marked THEN black \ {s} ELSE black
    /\ set' = [set EXCEPT ![s] = add(@, v)]
    /\ handle' = [handle EXCEPT ![h] = DynamicRoot(s, AddIndex(set[s]), v)]
    /\ UNCHANGED <<rooted, alive, linked, phase, marked>>

stash_immediate(v, h) ==
    /\ handle[h] = Dropped
    /\ handle' = [handle EXCEPT ![h] = Inline(v)]
    /\ UNCHANGED <<set, rooted, alive, linked, phase, black, marked>>

\* Mistake: the handle's set is not compared.
contains_any(s, h) == handle[h].kind = "root"

\* A handle belongs to the set whose slots its Weak has the address of.
contains(s, h) == handle[h].kind = "root" /\ handle[h].slots = s

\* A handle of another set is refused (try_fetch returns an error, fetch
\* panics before it touches anything), so only a hit has an effect.
fetch(s, h) ==
    /\ s \in rooted /\ contains(s, h)
    /\ linked' = linked \cup {handle[h].ptr}
    /\ UNCHANGED <<set, rooted, handle, alive, phase, black, marked>>

\* The program loses its last pointer to a value, or to a set.
Unlink(v) ==
    /\ v \in linked
    /\ linked' = linked \ {v}
    /\ UNCHANGED <<set, rooted, handle, alive, phase, black, marked>>

Unroot(s) ==
    /\ s \in rooted
    /\ rooted' = rooted \ {s}
    /\ UNCHANGED <<set, handle, alive, linked, phase, black, marked>>
-----------------------------------------------------------------------------
(* The holder of handles, at any time                                      *)

\* Mistake: the new handle is not counted.
clone_uncounted(h, g) ==
    /\ handle[h].kind = "root" /\ handle[g] = Dropped
    /\ handle' = [handle EXCEPT ![g] = handle[h]]
    /\ UNCHANGED <<set, rooted, alive, linked, phase, black, marked>>

clone(h, g) ==
    /\ handle[h].kind = "root" /\ handle[g] = Dropped
    /\ set' = IF upgrade(h) THEN [set EXCEPT ![handle[h].slots] = inc(@, handle[h].index)] ELSE set
    /\ handle' = [handle EXCEPT ![g] = handle[h]]
    /\ UNCHANGED <<rooted, alive, linked, phase, black, marked>>

\* Mistake: only the handle goes, not its count.
drop_uncounted(h) ==
    /\ handle[h] # Dropped
    /\ handle' = [handle EXCEPT ![h] = Dropped]
    /\ UNCHANGED <<set, rooted, alive, linked, phase, black, marked>>

drop(h) ==
    /\ handle[h] # Dropped
    /\ set' = IF upgrade(h) THEN [set EXCEPT ![handle[h].slots] = dec(@, handle[h].index)] ELSE set
    /\ handle' = [handle EXCEPT ![h] = Dropped]
    /\ UNCHANGED <<rooted, alive, linked, phase, black, marked>>
-----------------------------------------------------------------------------
(* The collector                                                           *)

\* The pointers that tracing a set finds: those of its occupied slots.
trace(sl) == {sl.slots[i].root : i \in {j \in DOMAIN sl.slots : IsOccupied(sl, j)}}

WakeUp ==
    /\ phase = "Sleep"
    /\ phase' = "Mark"
    /\ UNCHANGED <<set, rooted, handle, alive, linked, black, marked>>

TraceSet(s) ==
    /\ phase = "Mark" /\ s \in rooted \ black
    /\ black' = black \cup {s}
    /\ marked' = marked \cup trace(set[s])
    /\ UNCHANGED <<set, rooted, handle, alive, linked, phase>>

MarkLinked(v) ==
    /\ phase = "Mark" /\ v \in linked \ marked
    /\ marked' = marked \cup {v}
    /\ UNCHANGED <<set, rooted, handle, alive, linked, phase, black>>

\* The queues are empty: everything in reach was traced.
StartSweep ==
    /\ phase = "Mark" /\ rooted \subseteq black /\ linked \subseteq marked
    /\ phase' = "Sweep"
    /\ UNCHANGED <<set, rooted, handle, alive, linked, black, marked>>

FreeValue(v) ==
    /\ phase = "Sweep" /\ v \in alive \ marked
    /\ alive' = alive \ {v}
    /\ UNCHANGED <<set, rooted, handle, linked, phase, black, marked>>

\* The box of a set is dropped, with it the Rc; its handles keep the address.
FreeSet(s) ==
    /\ phase = "Sweep" /\ set[s].live /\ s \notin black
    /\ set' = [set EXCEPT ![s] = NoSlots]
    /\ UNCHANGED <<rooted, handle, alive, linked, phase, black, marked>>

\* What the sweep passes over is white again.
EndSweep ==
    /\ phase = "Sweep" /\ alive \subseteq marked
    /\ \A s \in Sets : set[s].live => s \in black
    /\ phase' = "Sleep" /\ black' = {} /\ marked' = {}
    /\ UNCHANGED <<set, rooted, handle, alive, linked>>

Program ==
    \/ \E s \in Sets : new(s) \/ Unroot(s)
    \/ \E v \in Values : Allocate(v) \/ Unlink(v)
    \/ \E s \in Sets, h \in Handles : fetch(s, h) \/ \E v \in Values : stash(s, v, h)
    \/ \E v \in Immediates, h \in Handles : stash_immediate(v, h)

Holder == \E h \in Handles : drop(h) \/ \E g \in Handles : clone(h, g)

Collector ==
    \/ WakeUp \/ StartSweep \/ EndSweep
    \/ \E s \in Sets : TraceSet(s) \/ FreeSet(s)
    \/ \E v \in Values : MarkLinked(v) \/ FreeValue(v)

Next == Program \/ Holder \/ Collector

Spec == Init /\ [][Next]_vars

\* A host that keeps collecting.  The gray queue is served before the sets
\* that barriers queue again, so what the program can reach is marked in the
\* end even if handles to it come and go.
FairSpec == Spec /\ WF_vars(Collector) /\ \A v \in Values : SF_vars(MarkLinked(v))
-----------------------------------------------------------------------------
(* Properties                                                              *)

Slot ==
    [kind : {"Vacant"}, next_free : Nat] \cup [kind : {"Occupied"}, root : Values, ref_count : Nat]
Slots == [live : BOOLEAN, slots : Seq(Slot), next_free : Nat]
StashedValue ==
    {Dropped} \cup [kind : {"inline"}, ptr : Immediates]
              \cup [kind : {"root"}, slots : Sets, index : Nat \ {0}, ptr : Values]

\* Every variable has the type its Rust counterpart gives it.
TypeOK ==
    /\ set \in [Sets -> Slots]
    /\ rooted \in SUBSET Sets
    /\ handle \in [Handles -> StashedValue]
    /\ alive \in SUBSET Values /\ linked \in SUBSET Values
    /\ phase \in {"Sleep", "Mark", "Sweep"}
    /\ black \in SUBSET Sets /\ marked \in SUBSET Values

\* A handle whose set still exists finds its slot taken by its own value,
\* never vacant (the "improperly freed" panic of inc and dec) and never reused
\* for another value; and while the set is in reach the value is not freed.
HandlesHold ==
    \A h \in Handles :
        LET r == handle[h]
        IN  upgrade(h) => /\ IsOccupied(set[r.slots], r.index)
                          /\ set[r.slots].slots[r.index].root = r.ptr
                          /\ r.slots \in rooted => r.ptr \in alive

\* A taken slot counts its handles, so it is vacated with the last of them,
\* neither earlier nor never, in any order of clone and drop.
CountsHandles ==
    \A s \in Sets : \A i \in DOMAIN set[s].slots :
        IsOccupied(set[s], i) =>
            Cardinality(HandlesOf(s, i)) = set[s].slots[i].ref_count + 1

\* Where following the free list leads in n steps; it stays at its end.
FreeWalk(sl) ==
    LET Walk[n \in 0..Len(sl.slots)] ==
            IF n = 0 THEN sl.next_free
            ELSE IF IsVacant(sl, Walk[n - 1]) THEN sl.slots[Walk[n - 1]].next_free
            ELSE Walk[n - 1]
    IN  Walk

\* The free list: starting from next_free, every vacant slot is met and no
\* other (the "linked list corrupted" panic of add), and the list ends.
FreeListSound ==
    \A s \in Sets :
        LET sl == set[s]
            Walk == FreeWalk(sl)
        IN  /\ Walk[Len(sl.slots)] = NULL_INDEX
            /\ {Walk[n] : n \in DOMAIN Walk} \ {NULL_INDEX}
                   = {i \in DOMAIN sl.slots : IsVacant(sl, i)}

\* The program never gets hold of a freed value: not by fetching through a
\* handle of another set, and not through a handle of a collected set whose
\* address was used again.
FetchedIsAlive == linked \subseteq alive

\* Neither a value that only dropped handles, or handles of collected sets,
\* were made for, nor a set out of reach stays allocated for ever.
ReleasedIsFreed ==
    /\ \A v \in Values :
          ~<>[](/\ v \in alive \ linked
                /\ \A h \in Handles : \A s \in rooted : contains(s, h) => handle[h].ptr # v)
    /\ \A s \in Sets : ~<>[](set[s].live /\ s \notin rooted)
=============================================================================
