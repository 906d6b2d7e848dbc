------------------------------ MODULE ArenaInv ------------------------------
(***************************************************************************)
(* The inductive invariant of Arena: why the colors, the list and the      *)
(* position of the sweep together keep every reachable box alive.          *)
(***************************************************************************)
EXTENDS Arena

\* Boxes the sweep in progress, if any, will not drop: those it has passed,
\* those allocated since it began, and the black ones it has yet to visit.
Keep ==
  {b \in live : phase = "Sweep" /\ b <= sweep => color[b] = "Black"}

\* Boxes it will not deallocate: the same with those weak pointers reach.
WKeep ==
  {b \in alloc : phase = "Sweep" /\ b <= sweep => color[b] # "White"}

\* A box is allocated once, and one without a value holds no pointers.
BoxInv ==
  /\ \A b \in alloc : b < fresh
  /\ \A b \in Box : b \notin live \/ b \in Leaf => strong[b] = {} /\ weak[b] = {}
  /\ phase # "Drop" => \A b \in Box \ alloc : color[b] = "White"

\* The list visits the allocated boxes from the youngest to the oldest.
ListInv ==
  /\ all \in alloc \cup {Null}
  /\ \A b \in alloc : b <= all
  /\ \A b \in alloc : next[b] \in alloc \cup {Null} /\ next[b] < b
  /\ \A b, c \in alloc : c < b => c <= next[b]

\* Where the sweep stands in the list.
SweepInv ==
  /\ phase \in {"Sleep", "Mark"} => sweep = Null /\ sweep_prev = Null
  /\ phase = "Sweep" =>
       /\ sweep \in alloc \cup {Null}
       /\ sweep_prev = Null => all = sweep
       /\ sweep_prev # Null => sweep_prev \in alloc /\ next[sweep_prev] = sweep

\* Which colors the phases allow.
ColorInv ==
  /\ phase = "Sleep" => \A b \in Box : color[b] = "White"
  /\ phase = "Mark" => \A b \in Box : color[b] \in {"Gray", "Black"} => b \in live
  /\ phase = "Sweep" =>
       \A b \in alloc : IF b > sweep THEN color[b] = "White" ELSE color[b] # "Gray"
  /\ phase # "Drop" => gray \cup gray_again = {b \in Box : color[b] = "Gray"}
  /\ phase # "Drop" => gray \cap gray_again = {}

\* No black box points to a white one while marking, nor does the root once it
\* has been traced.
TricolorInv ==
  phase = "Mark" =>
    /\ \A b \in Box : color[b] = "Black" =>
         /\ \A c \in strong[b] : color[c] \notin Whites
         /\ \A c \in weak[b] : color[c] # "White"
    /\ ~root_needs_trace =>
         /\ \A c \in root_strong : color[c] \notin Whites
         /\ \A c \in root_weak : color[c] # "White"

\* Everything the program can get at is kept by the sweep.
KeepInv ==
  phase # "Drop" =>
    /\ \A b \in Keep : strong[b] \subseteq Keep /\ weak[b] \subseteq WKeep
    /\ root_strong \cup held \subseteq Keep
    /\ root_weak \cup held_weak \subseteq WKeep

\* What the arena's methods may rely on about each other.
CallInv ==
  /\ call \notin Callbacks => held = {} /\ held_weak = {}
  /\ call = "drop" <=> phase = "Drop"
  /\ phase = "Drop" => root_strong = {} /\ root_weak = {}
  /\ phase = "Sleep" => root_needs_trace
  /\ call = "mutate_root" /\ phase = "Mark" => root_needs_trace
  /\ call = "finalize" => phase = "Mark"
  /\ call = "collect" /\ stop = AtSweep => ~has_slept
  /\ StopAsserts

IInv ==
  /\ TypeOK /\ BoxInv /\ ListInv /\ SweepInv
  /\ ColorInv /\ TricolorInv /\ KeepInv /\ CallInv
============================================================================
