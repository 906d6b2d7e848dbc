---------------------------- MODULE ArenaProof ----------------------------
(***************************************************************************)
(* Proofs about Arena, for every number of boxes and every placement of    *)
(* pointers: IInv of ArenaInv is inductive, and it implies the safety      *)
(* properties that Arena states.  One lemma per action, and in it one step *)
(* per part of the invariant.                                              *)
(***************************************************************************)
EXTENDS ArenaInv, TLAPS, WellFoundedInduction

USE DEF Box, Null, marking, list, boxes, heap, request, callback

-----------------------------------------------------------------------------
(* Reachability.                                                            *)

\* A set closed under the strong pointers contains all that its members reach.
LEMMA ReachIn ==
  ASSUME NEW S, NEW T \in SUBSET Box, S \subseteq T,
         \A t \in T : strong[t] \subseteq T
  PROVE  Reach(S) \subseteq T
BY DEF Reach

\* Reaching through the heap never leaves the set of boxes.
LEMMA ReachType ==
  ASSUME HeapTypeOK, NEW S
  PROVE  Reach(S) \subseteq Box /\ WeakOf(Reach(S)) \subseteq Box
<1>1. Reach(S) \subseteq Box
  BY DEF Reach
<1> QED
  BY <1>1 DEF WeakOf, HeapTypeOK

\* What kept boxes reach is kept.
LEMMA ReachKeep ==
  ASSUME IInv, phase # "Drop", NEW S, S \subseteq Keep
  PROVE  Reach(S) \subseteq Keep /\ WeakOf(Reach(S)) \subseteq WKeep
<1>1. Keep \in SUBSET Box
  BY DEF IInv, TypeOK, HeapTypeOK, Keep
<1>2. \A t \in Keep : strong[t] \subseteq Keep /\ weak[t] \subseteq WKeep
  BY DEF IInv, KeepInv
<1>3. Reach(S) \subseteq Keep
  BY <1>1, <1>2, ReachIn
<1> QED
  BY <1>2, <1>3 DEF WeakOf

\* A callback runs in an arena that is not being dropped, and holds nothing
\* that has been.
LEMMA CallbackHolds ==
  ASSUME IInv, call \in Callbacks
  PROVE  /\ phase # "Drop"
         /\ held \subseteq Keep /\ held \subseteq live /\ held \subseteq alloc
         /\ held_weak \subseteq WKeep /\ held_weak \subseteq alloc
BY DEF IInv, TypeOK, HeapTypeOK, CallInv, Callbacks, KeepInv, Keep, WKeep

-----------------------------------------------------------------------------
(* The request being served keeps its type.                                 *)

\* Leaving do_collection.
LEMMA ReturnType ==
  ASSUME Return
  PROVE  RequestTypeOK'
<1>1. has_slept' \in BOOLEAN
  BY Zenon DEF Return
<1> QED
  BY <1>1 DEF Return, RequestTypeOK, Calls, FullyMarked, Full

\* The test at the bottom of the loop.
LEMMA DebtCheckType ==
  ASSUME RequestTypeOK, NEW s \in BOOLEAN, DebtCheck(s)
  PROVE  RequestTypeOK'
<1>1. CASE Return
  BY <1>1, ReturnType
<1>2. CASE has_slept' = s /\ UNCHANGED <<call, run_until, stop>>
  <2>1. has_slept' \in BOOLEAN
    BY <1>2, Zenon
  <2> QED
    BY <1>2, <2>1 DEF RequestTypeOK
<1> QED
  BY <1>1, <1>2 DEF DebtCheck

-----------------------------------------------------------------------------
(* The callbacks.                                                           *)

\* Entering a mutate callback.
LEMMA mutateStep ==
  ASSUME IInv, mutate
  PROVE  IInv'
<1> USE DEF mutate, BeginCallback
<1>1. TypeOK'
  BY ReachType DEF IInv, TypeOK, CollectorTypeOK, HeapTypeOK, RequestTypeOK,
     Calls, Callbacks
<1>2. BoxInv' /\ ListInv' /\ SweepInv' /\ ColorInv' /\ TricolorInv'
  BY DEF IInv, BoxInv, ListInv, SweepInv, ColorInv, TricolorInv
<1>3. CallInv'
  BY DEF IInv, CallInv, StopAsserts, Callbacks
<1>4. phase # "Drop" /\ root_strong \subseteq Keep /\ root_weak \subseteq WKeep
  BY DEF IInv, CallInv, KeepInv
<1>5. held' \subseteq Keep /\ held_weak' \subseteq WKeep
  BY <1>4, ReachKeep
<1>6. KeepInv'
  BY <1>4, <1>5 DEF IInv, KeepInv, Keep, WKeep
<1> QED
  BY <1>1, <1>2, <1>3, <1>6 DEF IInv

\* Entering a mutate_root callback: the root barrier asks for a new trace.
LEMMA mutate_rootStep ==
  ASSUME IInv, mutate_root
  PROVE  IInv'
<1> USE DEF mutate_root, BeginCallback, root_barrier
<1>1. TypeOK'
  BY ReachType DEF IInv, TypeOK, CollectorTypeOK, HeapTypeOK, RequestTypeOK,
     Calls, Callbacks
<1>2. BoxInv' /\ ListInv' /\ SweepInv' /\ ColorInv' /\ TricolorInv'
  BY DEF IInv, BoxInv, ListInv, SweepInv, ColorInv, TricolorInv
<1>3. CallInv'
  BY DEF IInv, CallInv, StopAsserts, Callbacks
<1>4. phase # "Drop" /\ root_strong \subseteq Keep /\ root_weak \subseteq WKeep
  BY DEF IInv, CallInv, KeepInv
<1>5. held' \subseteq Keep /\ held_weak' \subseteq WKeep
  BY <1>4, ReachKeep
<1>6. KeepInv'
  BY <1>4, <1>5 DEF IInv, KeepInv, Keep, WKeep
<1> QED
  BY <1>1, <1>2, <1>3, <1>6 DEF IInv

\* Entering a finalize callback, in an arena that is fully marked.
LEMMA finalizeStep ==
  ASSUME IInv, finalize
  PROVE  IInv'
<1> USE DEF finalize, BeginCallback, IsMarkedArena
<1>1. TypeOK'
  BY ReachType DEF IInv, TypeOK, CollectorTypeOK, HeapTypeOK, RequestTypeOK,
     Calls, Callbacks
<1>2. BoxInv' /\ ListInv' /\ SweepInv' /\ ColorInv' /\ TricolorInv'
  BY DEF IInv, BoxInv, ListInv, SweepInv, ColorInv, TricolorInv
<1>3. CallInv'
  BY DEF IInv, CallInv, StopAsserts, Callbacks
<1>4. phase # "Drop" /\ root_strong \subseteq Keep /\ root_weak \subseteq WKeep
  BY DEF IInv, CallInv, KeepInv
<1>5. held' \subseteq Keep /\ held_weak' \subseteq WKeep
  BY <1>4, ReachKeep
<1>6. KeepInv'
  BY <1>4, <1>5 DEF IInv, KeepInv, Keep, WKeep
<1> QED
  BY <1>1, <1>2, <1>3, <1>6 DEF IInv

\* Leaving a callback, which gives up all it held.
LEMMA EndCallbackStep ==
  ASSUME IInv, EndCallback
  PROVE  IInv'
<1> USE DEF EndCallback
<1>1. TypeOK'
  BY DEF IInv, TypeOK, CollectorTypeOK, HeapTypeOK, RequestTypeOK, Calls
<1>2. BoxInv' /\ ListInv' /\ SweepInv' /\ ColorInv' /\ TricolorInv'
  BY DEF IInv, BoxInv, ListInv, SweepInv, ColorInv, TricolorInv
<1>3. KeepInv' /\ CallInv'
  BY DEF IInv, KeepInv, Keep, WKeep, CallInv, StopAsserts, Callbacks
<1> QED
  BY <1>1, <1>2, <1>3 DEF IInv

\* A new box goes to the front of the list, ahead of any sweep in progress.
LEMMA allocateStep ==
  ASSUME IInv, NEW S \in SUBSET held, NEW W \in SUBSET held_weak,
         allocate(S, W)
  PROVE  IInv'
<1> USE DEF allocate
<1>1. TypeOK'
  BY MaxBoxAssumption DEF IInv, TypeOK, CollectorTypeOK, HeapTypeOK,
     RequestTypeOK
<1>2. BoxInv'
  <2>1. \A b \in alloc' : b < fresh'
    BY DEF IInv, TypeOK, CollectorTypeOK, HeapTypeOK, RequestTypeOK, BoxInv
  <2>2. \A b \in Box : b \notin live' \/ b \in Leaf =>
          strong'[b] = {} /\ weak'[b] = {}
    BY DEF IInv, TypeOK, CollectorTypeOK, HeapTypeOK, RequestTypeOK, BoxInv
  <2> QED
    BY <2>1, <2>2 DEF IInv, TypeOK, CollectorTypeOK, HeapTypeOK,
       RequestTypeOK, BoxInv
<1>3. ListInv' /\ SweepInv'
  BY DEF IInv, TypeOK, CollectorTypeOK, HeapTypeOK, RequestTypeOK, BoxInv,
     ListInv, SweepInv
<1>4. ColorInv'
  BY CallbackHolds
     DEF IInv, TypeOK, CollectorTypeOK, HeapTypeOK, RequestTypeOK, BoxInv,
     SweepInv, ColorInv
<1>5. TricolorInv'
  BY DEF IInv, TypeOK, CollectorTypeOK, HeapTypeOK, RequestTypeOK, BoxInv,
     TricolorInv
<1>6. KeepInv'
  <2>1. fresh \notin alloc /\ (fresh > sweep \/ phase # "Sweep")
    BY DEF IInv, TypeOK, CollectorTypeOK, HeapTypeOK, RequestTypeOK, BoxInv,
       SweepInv
  <2>2. Keep' = Keep \cup {fresh} /\ WKeep' = WKeep \cup {fresh}
    BY <2>1 DEF IInv, TypeOK, CollectorTypeOK, HeapTypeOK, RequestTypeOK,
       Keep, WKeep
  <2>3. \A b \in Keep : strong'[b] = strong[b] /\ weak'[b] = weak[b]
    BY <2>1 DEF IInv, TypeOK, CollectorTypeOK, HeapTypeOK, RequestTypeOK,
       BoxInv, Keep
  <2>4. strong'[fresh] \subseteq Keep /\ weak'[fresh] \subseteq WKeep
    BY CallbackHolds DEF IInv, TypeOK, CollectorTypeOK, HeapTypeOK,
       RequestTypeOK
  <2> QED
    BY <2>2, <2>3, <2>4, CallbackHolds DEF IInv, KeepInv
<1>7. CallInv'
  BY DEF IInv, CallInv, StopAsserts, IsMarkedArena, gray_remaining, Callbacks
<1> QED
  BY <1>1, <1>2, <1>3, <1>4, <1>5, <1>6, <1>7 DEF IInv

\* Storing a strong pointer through Gc::write.
LEMMA WriteStrongStep ==
  ASSUME IInv, NEW p \in held, NEW c \in held,
         WriteStrong(p, c)
  PROVE  IInv'
<1> USE DEF WriteStrong, AdoptStrong, backward_barrier, GrayAgainIf
<1>1. TypeOK'
  BY DEF IInv, TypeOK, CollectorTypeOK, HeapTypeOK, RequestTypeOK, Colors
<1>2. ListInv' /\ SweepInv'
  BY DEF IInv, ListInv, SweepInv
<1>3. BoxInv'
  BY CallbackHolds DEF IInv, TypeOK, CollectorTypeOK, HeapTypeOK,
     RequestTypeOK, BoxInv
<1>4. ColorInv'
  BY CallbackHolds
     DEF IInv, TypeOK, CollectorTypeOK, HeapTypeOK, RequestTypeOK, ColorInv,
     Whites
<1>5. TricolorInv'
  BY CallbackHolds
     DEF IInv, TypeOK, CollectorTypeOK, HeapTypeOK, RequestTypeOK, BoxInv,
     TricolorInv, Whites, Colors
<1>6. KeepInv'
  <2>1. Keep' = Keep /\ WKeep' = WKeep
    BY DEF Keep, WKeep
  <2>2. \A b \in Keep : /\ strong'[b] \subseteq strong[b] \cup held
                       /\ weak'[b] \subseteq weak[b] \cup held_weak
    BY DEF IInv, TypeOK, CollectorTypeOK, HeapTypeOK, RequestTypeOK, Keep
  <2>3. UNCHANGED <<phase, root_strong, root_weak, held, held_weak>>
    OBVIOUS
  <2> QED
    BY <2>1, <2>2, <2>3, CallbackHolds DEF IInv, KeepInv
<1>7. CallInv'
  BY DEF IInv, CallInv, StopAsserts, IsMarkedArena, gray_remaining, Callbacks
<1> QED
  BY <1>1, <1>2, <1>3, <1>4, <1>5, <1>6, <1>7 DEF IInv

\* Storing a strong pointer behind a backward barrier.
LEMMA AdoptBackwardStep ==
  ASSUME IInv, NEW p \in held, NEW c \in held,
         AdoptBackward(p, c)
  PROVE  IInv'
<1> USE DEF AdoptBackward, AdoptStrong, backward_barrier, GrayAgainIf
<1>1. TypeOK'
  BY DEF IInv, TypeOK, CollectorTypeOK, HeapTypeOK, RequestTypeOK, Colors
<1>2. ListInv' /\ SweepInv'
  BY DEF IInv, ListInv, SweepInv
<1>3. BoxInv'
  BY CallbackHolds DEF IInv, TypeOK, CollectorTypeOK, HeapTypeOK,
     RequestTypeOK, BoxInv
<1>4. ColorInv'
  BY CallbackHolds
     DEF IInv, TypeOK, CollectorTypeOK, HeapTypeOK, RequestTypeOK, ColorInv,
     Whites
<1>5. TricolorInv'
  BY CallbackHolds
     DEF IInv, TypeOK, CollectorTypeOK, HeapTypeOK, RequestTypeOK, BoxInv,
     TricolorInv, Whites, Colors
<1>6. KeepInv'
  <2>1. Keep' = Keep /\ WKeep' = WKeep
    BY DEF Keep, WKeep
  <2>2. \A b \in Keep : /\ strong'[b] \subseteq strong[b] \cup held
                       /\ weak'[b] \subseteq weak[b] \cup held_weak
    BY DEF IInv, TypeOK, CollectorTypeOK, HeapTypeOK, RequestTypeOK, Keep
  <2>3. UNCHANGED <<phase, root_strong, root_weak, held, held_weak>>
    OBVIOUS
  <2> QED
    BY <2>1, <2>2, <2>3, CallbackHolds DEF IInv, KeepInv
<1>7. CallInv'
  BY DEF IInv, CallInv, StopAsserts, IsMarkedArena, gray_remaining, Callbacks
<1> QED
  BY <1>1, <1>2, <1>3, <1>4, <1>5, <1>6, <1>7 DEF IInv

\* Storing a strong pointer behind a forward barrier.
LEMMA AdoptForwardStep ==
  ASSUME IInv, NEW p \in held, NEW c \in held, NEW given \in BOOLEAN,
         AdoptForward(p, c, given)
  PROVE  IInv'
<1> USE DEF AdoptForward, AdoptStrong, forward_barrier, Traced, Pushed
<1>1. TypeOK'
  BY DEF IInv, TypeOK, CollectorTypeOK, HeapTypeOK, RequestTypeOK, Colors
<1>2. ListInv' /\ SweepInv'
  BY DEF IInv, ListInv, SweepInv
<1>3. BoxInv'
  BY CallbackHolds DEF IInv, TypeOK, CollectorTypeOK, HeapTypeOK,
     RequestTypeOK, BoxInv
<1>4. ColorInv'
  BY CallbackHolds
     DEF IInv, TypeOK, CollectorTypeOK, HeapTypeOK, RequestTypeOK, ColorInv,
     Whites
<1>5. TricolorInv'
  BY CallbackHolds
     DEF IInv, TypeOK, CollectorTypeOK, HeapTypeOK, RequestTypeOK, BoxInv,
     TricolorInv, Whites, Colors
<1>6. KeepInv'
  <2>1. Keep' = Keep /\ WKeep' = WKeep
    BY DEF Keep, WKeep
  <2>2. \A b \in Keep : /\ strong'[b] \subseteq strong[b] \cup held
                       /\ weak'[b] \subseteq weak[b] \cup held_weak
    BY DEF IInv, TypeOK, CollectorTypeOK, HeapTypeOK, RequestTypeOK, Keep
  <2>3. UNCHANGED <<phase, root_strong, root_weak, held, held_weak>>
    OBVIOUS
  <2> QED
    BY <2>1, <2>2, <2>3, CallbackHolds DEF IInv, KeepInv
<1>7. CallInv'
  BY DEF IInv, CallInv, StopAsserts, IsMarkedArena, gray_remaining, Callbacks
<1> QED
  BY <1>1, <1>2, <1>3, <1>4, <1>5, <1>6, <1>7 DEF IInv

\* Storing a weak pointer through Gc::write.
LEMMA WriteWeakStep ==
  ASSUME IInv, NEW p \in held, NEW c \in held_weak,
         WriteWeak(p, c)
  PROVE  IInv'
<1> USE DEF WriteWeak, AdoptWeak, backward_barrier, GrayAgainIf
<1>1. TypeOK'
  BY DEF IInv, TypeOK, CollectorTypeOK, HeapTypeOK, RequestTypeOK, Colors
<1>2. ListInv' /\ SweepInv'
  BY DEF IInv, ListInv, SweepInv
<1>3. BoxInv'
  BY CallbackHolds DEF IInv, TypeOK, CollectorTypeOK, HeapTypeOK,
     RequestTypeOK, BoxInv
<1>4. ColorInv'
  BY CallbackHolds
     DEF IInv, TypeOK, CollectorTypeOK, HeapTypeOK, RequestTypeOK, ColorInv,
     Whites
<1>5. TricolorInv'
  BY CallbackHolds
     DEF IInv, TypeOK, CollectorTypeOK, HeapTypeOK, RequestTypeOK, BoxInv,
     TricolorInv, Whites, Colors
<1>6. KeepInv'
  <2>1. Keep' = Keep /\ WKeep' = WKeep
    BY DEF Keep, WKeep
  <2>2. \A b \in Keep : /\ strong'[b] \subseteq strong[b] \cup held
                       /\ weak'[b] \subseteq weak[b] \cup held_weak
    BY DEF IInv, TypeOK, CollectorTypeOK, HeapTypeOK, RequestTypeOK, Keep
  <2>3. UNCHANGED <<phase, root_strong, root_weak, held, held_weak>>
    OBVIOUS
  <2> QED
    BY <2>1, <2>2, <2>3, CallbackHolds DEF IInv, KeepInv
<1>7. CallInv'
  BY DEF IInv, CallInv, StopAsserts, IsMarkedArena, gray_remaining, Callbacks
<1> QED
  BY <1>1, <1>2, <1>3, <1>4, <1>5, <1>6, <1>7 DEF IInv

\* Storing a weak pointer behind a backward barrier.
LEMMA AdoptBackwardWeakStep ==
  ASSUME IInv, NEW p \in held, NEW c \in held_weak,
         AdoptBackwardWeak(p, c)
  PROVE  IInv'
<1> USE DEF AdoptBackwardWeak, AdoptWeak, backward_barrier, GrayAgainIf
<1>1. TypeOK'
  BY DEF IInv, TypeOK, CollectorTypeOK, HeapTypeOK, RequestTypeOK, Colors
<1>2. ListInv' /\ SweepInv'
  BY DEF IInv, ListInv, SweepInv
<1>3. BoxInv'
  BY CallbackHolds DEF IInv, TypeOK, CollectorTypeOK, HeapTypeOK,
     RequestTypeOK, BoxInv
<1>4. ColorInv'
  BY CallbackHolds
     DEF IInv, TypeOK, CollectorTypeOK, HeapTypeOK, RequestTypeOK, ColorInv,
     Whites
<1>5. TricolorInv'
  BY CallbackHolds
     DEF IInv, TypeOK, CollectorTypeOK, HeapTypeOK, RequestTypeOK, BoxInv,
     TricolorInv, Whites, Colors
<1>6. KeepInv'
  <2>1. Keep' = Keep /\ WKeep' = WKeep
    BY DEF Keep, WKeep
  <2>2. \A b \in Keep : /\ strong'[b] \subseteq strong[b] \cup held
                       /\ weak'[b] \subseteq weak[b] \cup held_weak
    BY DEF IInv, TypeOK, CollectorTypeOK, HeapTypeOK, RequestTypeOK, Keep
  <2>3. UNCHANGED <<phase, root_strong, root_weak, held, held_weak>>
    OBVIOUS
  <2> QED
    BY <2>1, <2>2, <2>3, CallbackHolds DEF IInv, KeepInv
<1>7. CallInv'
  BY DEF IInv, CallInv, StopAsserts, IsMarkedArena, gray_remaining, Callbacks
<1> QED
  BY <1>1, <1>2, <1>3, <1>4, <1>5, <1>6, <1>7 DEF IInv

\* Storing a weak pointer behind a forward barrier.
LEMMA AdoptForwardWeakStep ==
  ASSUME IInv, NEW p \in held, NEW c \in held_weak, NEW given \in BOOLEAN,
         AdoptForwardWeak(p, c, given)
  PROVE  IInv'
<1> USE DEF AdoptForwardWeak, AdoptWeak, forward_barrier, Traced, Pushed
<1>1. TypeOK'
  BY DEF IInv, TypeOK, CollectorTypeOK, HeapTypeOK, RequestTypeOK, Colors
<1>2. ListInv' /\ SweepInv'
  BY DEF IInv, ListInv, SweepInv
<1>3. BoxInv'
  BY CallbackHolds DEF IInv, TypeOK, CollectorTypeOK, HeapTypeOK,
     RequestTypeOK, BoxInv
<1>4. ColorInv'
  BY CallbackHolds
     DEF IInv, TypeOK, CollectorTypeOK, HeapTypeOK, RequestTypeOK, ColorInv,
     Whites
<1>5. TricolorInv'
  BY CallbackHolds
     DEF IInv, TypeOK, CollectorTypeOK, HeapTypeOK, RequestTypeOK, BoxInv,
     TricolorInv, Whites, Colors
<1>6. KeepInv'
  <2>1. Keep' = Keep /\ WKeep' = WKeep
    BY DEF Keep, WKeep
  <2>2. \A b \in Keep : /\ strong'[b] \subseteq strong[b] \cup held
                       /\ weak'[b] \subseteq weak[b] \cup held_weak
    BY DEF IInv, TypeOK, CollectorTypeOK, HeapTypeOK, RequestTypeOK, Keep
  <2>3. UNCHANGED <<phase, root_strong, root_weak, held, held_weak>>
    OBVIOUS
  <2> QED
    BY <2>1, <2>2, <2>3, CallbackHolds DEF IInv, KeepInv
<1>7. CallInv'
  BY DEF IInv, CallInv, StopAsserts, IsMarkedArena, gray_remaining, Callbacks
<1> QED
  BY <1>1, <1>2, <1>3, <1>4, <1>5, <1>6, <1>7 DEF IInv

\* Overwriting a pointer, or any write to a box without pointers.
LEMMA OverwriteStep ==
  ASSUME IInv, NEW p \in held, NEW c \in Box, Overwrite(p, c)
  PROVE  IInv'
<1> USE DEF Overwrite, backward_barrier, GrayAgainIf
<1>1. TypeOK'
  BY DEF IInv, TypeOK, CollectorTypeOK, HeapTypeOK, RequestTypeOK, Colors
<1>2. ListInv' /\ SweepInv'
  BY DEF IInv, ListInv, SweepInv
<1>3. BoxInv'
  BY CallbackHolds DEF IInv, TypeOK, CollectorTypeOK, HeapTypeOK,
     RequestTypeOK, BoxInv
<1>4. ColorInv'
  BY CallbackHolds
     DEF IInv, TypeOK, CollectorTypeOK, HeapTypeOK, RequestTypeOK, ColorInv
<1>5. TricolorInv'
  BY DEF IInv, TypeOK, CollectorTypeOK, HeapTypeOK, RequestTypeOK,
     TricolorInv, Whites
<1>6. KeepInv'
  BY CallbackHolds DEF IInv, TypeOK, CollectorTypeOK, HeapTypeOK,
     RequestTypeOK, KeepInv, Keep, WKeep
<1>7. CallInv'
  BY DEF IInv, CallInv, StopAsserts, IsMarkedArena, gray_remaining, Callbacks
<1> QED
  BY <1>1, <1>2, <1>3, <1>4, <1>5, <1>6, <1>7 DEF IInv

\* Storing into the root, which is then due for tracing if marking is on.
LEMMA WriteRootStep ==
  ASSUME IInv, NEW S \in SUBSET held, NEW W \in SUBSET held_weak,
         WriteRoot(S, W)
  PROVE  IInv'
<1> USE DEF WriteRoot
<1>1. TypeOK'
  BY DEF IInv, TypeOK, CollectorTypeOK, HeapTypeOK, RequestTypeOK
<1>2. BoxInv' /\ ListInv' /\ SweepInv' /\ ColorInv'
  BY DEF IInv, BoxInv, ListInv, SweepInv, ColorInv
<1>3. TricolorInv'
  BY DEF IInv, TricolorInv, CallInv
<1>4. KeepInv'
  BY DEF IInv, KeepInv, Keep, WKeep
<1>5. CallInv'
  BY DEF IInv, CallInv, StopAsserts
<1> QED
  BY <1>1, <1>2, <1>3, <1>4, <1>5 DEF IInv

\* Making a weak pointer out of a strong one: a kept box is weakly kept.
LEMMA downgradeStep ==
  ASSUME IInv, NEW c \in held, downgrade(c)
  PROVE  IInv'
<1> USE DEF downgrade
<1>1. TypeOK'
  BY DEF IInv, TypeOK, CollectorTypeOK, HeapTypeOK, RequestTypeOK
<1>2. BoxInv' /\ ListInv' /\ SweepInv' /\ ColorInv' /\ TricolorInv'
  BY DEF IInv, BoxInv, ListInv, SweepInv, ColorInv, TricolorInv
<1>3. KeepInv'
  BY DEF IInv, TypeOK, HeapTypeOK, KeepInv, Keep, WKeep
<1>4. CallInv'
  BY DEF IInv, CallInv, StopAsserts, Callbacks
<1> QED
  BY <1>1, <1>2, <1>3, <1>4 DEF IInv

\* Upgrading a weak pointer: if the sweep has yet to visit the box, the box is
\* black, for it is neither white, gray nor reached by weak pointers only.
LEMMA upgradeStep ==
  ASSUME IInv, NEW w \in held_weak, upgrade(w)
  PROVE  IInv'
<1> USE DEF upgrade, Regain
<1>1. TypeOK'
  BY ReachType DEF IInv, TypeOK, CollectorTypeOK, HeapTypeOK, RequestTypeOK
<1>2. BoxInv' /\ ListInv' /\ SweepInv' /\ ColorInv' /\ TricolorInv'
  BY DEF IInv, BoxInv, ListInv, SweepInv, ColorInv, TricolorInv
<1>3. w \in Keep
  BY CallbackHolds DEF IInv, TypeOK, CollectorTypeOK, HeapTypeOK, RequestTypeOK,
     ColorInv, CanUpgrade, Keep, WKeep, Colors
<1>4. Reach({w}) \subseteq Keep /\ WeakOf(Reach({w})) \subseteq WKeep
  BY <1>3, CallbackHolds, ReachKeep
<1>5. KeepInv'
  BY <1>4 DEF IInv, KeepInv, Keep, WKeep
<1>6. CallInv'
  BY DEF IInv, CallInv, StopAsserts, Callbacks
<1> QED
  BY <1>1, <1>2, <1>5, <1>6 DEF IInv

\* Resurrecting a weak pointer while marking turns its box gray.
LEMMA resurrectStep ==
  ASSUME IInv, NEW w \in held_weak, resurrect(w)
  PROVE  IInv'
<1> USE DEF resurrect, Regain
<1>0. phase = "Mark" /\ w \in live /\ w \in alloc /\ w \in Box
  BY DEF IInv, TypeOK, CollectorTypeOK, HeapTypeOK, RequestTypeOK, CallInv,
     BoxInv
<1>1. TypeOK'
  BY ReachType DEF IInv, TypeOK, CollectorTypeOK, HeapTypeOK, RequestTypeOK,
     Colors
<1>2. BoxInv' /\ ListInv' /\ SweepInv'
  BY <1>0 DEF IInv, TypeOK, CollectorTypeOK, HeapTypeOK, RequestTypeOK,
     BoxInv, ListInv, SweepInv
<1>3. ColorInv'
  BY <1>0 DEF IInv, TypeOK, CollectorTypeOK, HeapTypeOK, RequestTypeOK,
     ColorInv, Whites
<1>4. TricolorInv'
  BY <1>0 DEF IInv, TypeOK, CollectorTypeOK, HeapTypeOK, RequestTypeOK,
     TricolorInv, Whites
<1>5. w \in Keep
  BY <1>0 DEF Keep
<1>6. Reach({w}) \subseteq Keep /\ WeakOf(Reach({w})) \subseteq WKeep
  BY <1>0, <1>5, ReachKeep
<1>7. KeepInv'
  BY <1>0, <1>6 DEF IInv, KeepInv, Keep, WKeep
<1>8. CallInv'
  BY DEF IInv, CallInv, StopAsserts
<1> QED
  BY <1>1, <1>2, <1>3, <1>4, <1>7, <1>8 DEF IInv

-----------------------------------------------------------------------------
(* The collector.                                                           *)

\* No callback runs during a call of do_collection.
LEMMA Collecting ==
  ASSUME IInv, call = "collect"
  PROVE  held = {} /\ held_weak = {} /\ phase # "Drop"
BY DEF IInv, CallInv, Callbacks

\* The request that do_collection is given.
LEMMA RequestStep ==
  ASSUME IInv, Request
  PROVE  IInv'
<1>1. PICK until \in {"PayDebt", "Stop"}, s \in FullyMarked .. Full :
        do_collection(until, s) /\ (s = AtSweep => IsMarkedArena)
  BY DEF Request, collect_debt, mark_debt, finish_marking, cycle_debt,
     finish_cycle, start_sweeping, FullyMarked, AtSweep, FinishCycle, Full
<1> USE DEF do_collection
<1>2. has_slept' = FALSE
  BY <1>1
<1>3. TypeOK'
  BY <1>1, <1>2 DEF IInv, TypeOK, CollectorTypeOK, HeapTypeOK, RequestTypeOK,
     Calls
<1>4. BoxInv' /\ ListInv' /\ SweepInv' /\ ColorInv' /\ TricolorInv'
  BY <1>1 DEF IInv, BoxInv, ListInv, SweepInv, ColorInv, TricolorInv
<1>5. KeepInv'
  BY <1>1 DEF IInv, KeepInv, Keep, WKeep
<1>6. CallInv'
  BY <1>1 DEF IInv, CallInv, StopAsserts, IsMarkedArena, gray_remaining,
     Callbacks
<1> QED
  BY <1>3, <1>4, <1>5, <1>6 DEF IInv

\* Waking up: every box is white and the root is due for tracing.
LEMMA WakeUpStep ==
  ASSUME IInv, WakeUp
  PROVE  IInv'
<1> USE DEF WakeUp
<1>1. TypeOK'
  BY DebtCheckType DEF IInv, TypeOK, CollectorTypeOK, HeapTypeOK,
     RequestTypeOK, Phases
<1>2. BoxInv' /\ ListInv' /\ SweepInv' /\ ColorInv' /\ TricolorInv'
  BY DEF IInv, BoxInv, ListInv, SweepInv, ColorInv, TricolorInv, CallInv
<1>3. KeepInv'
  BY DEF IInv, KeepInv, Keep, WKeep
<1>4. CallInv'
  BY DEF IInv, CallInv, StopAsserts, IsMarkedArena, gray_remaining, Callbacks,
     DebtCheck, Return, AtSweep
<1> QED
  BY <1>1, <1>2, <1>3, <1>4 DEF IInv

\* Tracing pointers held by a live box or by the root while marking: boxes only
\* get darker, what turns black has no pointers, and what turns gray is pushed.
LEMMA TracedFacts ==
  ASSUME NEW c \in [Box -> Colors], NEW S \in SUBSET Box, NEW W \in SUBSET Box
  PROVE  /\ Traced(c, S, W) \in [Box -> Colors]
         /\ \A b \in S : Traced(c, S, W)[b] \notin Whites
         /\ \A b \in W : Traced(c, S, W)[b] # "White"
         /\ \A b \in Box : c[b] \notin Whites => Traced(c, S, W)[b] = c[b]
         /\ \A b \in Box : c[b] # "White" => Traced(c, S, W)[b] # "White"
         /\ \A b \in Box : b \notin S \cup W => Traced(c, S, W)[b] = c[b]
         /\ \A b \in Box : Traced(c, S, W)[b] = "Black" => c[b] = "Black" \/ b \in Leaf
         /\ \A b \in Box : Traced(c, S, W)[b] \in {"Gray", "Black"} =>
              c[b] \in {"Gray", "Black"} \/ b \in S
         /\ \A b \in Box : Traced(c, S, W)[b] = "Gray" <=>
              c[b] = "Gray" \/ b \in Pushed(c, S)
BY DEF Traced, Pushed, Colors, Whites

\* What mark_one does to the colors c when it traces b: it leaves the colors d
\* and pushes P.
MarkColors(c, b, S, W, P, d) ==
  /\ d \in [Box -> Colors] /\ d[b] = "Black"
  /\ \A x \in S : d[x] \notin Whites
  /\ \A x \in W : d[x] # "White"
  /\ \A x \in Box : c[x] \notin Whites => d[x] \notin Whites
  /\ \A x \in Box : c[x] # "White" => d[x] # "White"
  /\ \A x \in Box : x \notin S \cup W \cup {b} => d[x] = c[x]
  /\ \A x \in Box : d[x] = "Black" => x = b \/ c[x] = "Black" \/ x \in Leaf
  /\ \A x \in Box : d[x] \in {"Gray", "Black"} =>
       c[x] \in {"Gray", "Black"} \/ x \in S
  /\ \A x \in Box : d[x] = "Gray" <=> (x # b /\ c[x] = "Gray") \/ x \in P
  /\ P \subseteq S /\ \A x \in P : x # b /\ c[x] \in Whites

\* MarkColors describes Traced and Pushed.
LEMMA MarkColorsHold ==
  ASSUME NEW c \in [Box -> Colors], NEW b \in Box, c[b] = "Gray",
         NEW S \in SUBSET Box, NEW W \in SUBSET Box
  PROVE  MarkColors(c, b, S, W, Pushed([c EXCEPT ![b] = "Black"], S),
                    Traced([c EXCEPT ![b] = "Black"], S, W))
<1> SUFFICES ASSUME NEW e \in [Box -> Colors], e[b] = "Black",
                    \A x \in Box \ {b} : e[x] = c[x]
             PROVE  MarkColors(c, b, S, W, Pushed(e, S), Traced(e, S, W))
  BY DEF Colors
<1> DEFINE d == Traced(e, S, W)
           P == Pushed(e, S)
<1>2. /\ d \in [Box -> Colors]
      /\ \A x \in S : d[x] \notin Whites
      /\ \A x \in W : d[x] # "White"
      /\ \A x \in Box : e[x] \notin Whites => d[x] = e[x]
      /\ \A x \in Box : e[x] # "White" => d[x] # "White"
      /\ \A x \in Box : x \notin S \cup W => d[x] = e[x]
      /\ \A x \in Box : d[x] = "Black" => e[x] = "Black" \/ x \in Leaf
      /\ \A x \in Box : d[x] \in {"Gray", "Black"} =>
           e[x] \in {"Gray", "Black"} \/ x \in S
      /\ \A x \in Box : d[x] = "Gray" <=> e[x] = "Gray" \/ x \in P
  BY DEF Traced, Pushed, Colors, Whites
<1>3. P \subseteq S /\ \A x \in P : e[x] \in Whites
  BY DEF Pushed
<1> HIDE DEF d, P
<1> QED
  BY <1>2, <1>3 DEF MarkColors, Whites, d, P

\* While marking, a box with a value is kept, and so is all it points to.
LEMMA MarkKeeps ==
  ASSUME IInv, phase = "Mark"
  PROVE  /\ \A b \in live : strong[b] \subseteq live /\ weak[b] \subseteq alloc
         /\ root_strong \subseteq live /\ root_weak \subseteq alloc
         /\ live \subseteq alloc
BY DEF IInv, TypeOK, HeapTypeOK, KeepInv, Keep, WKeep

\* Tracing a gray box.
LEMMA MarkBoxStep ==
  ASSUME IInv, NEW b \in Box, MarkBox(b)
  PROVE  IInv'
<1> USE DEF MarkBox, Poppable
<1>0. /\ color[b] = "Gray" /\ b \in live /\ phase = "Mark"
      /\ strong[b] \in SUBSET Box /\ weak[b] \in SUBSET Box
      /\ strong[b] \subseteq live /\ weak[b] \subseteq alloc
      /\ color \in [Box -> Colors]
  BY MarkKeeps DEF IInv, TypeOK, CollectorTypeOK, HeapTypeOK, RequestTypeOK,
     ColorInv
<1> DEFINE P == Pushed([color EXCEPT ![b] = "Black"], strong[b])
           d == Traced([color EXCEPT ![b] = "Black"], strong[b], weak[b])
<1>a. color' = d /\ gray' = (gray \ {b}) \cup P
  OBVIOUS
<1>b. MarkColors(color, b, strong[b], weak[b], P, d)
  BY <1>0, MarkColorsHold
<1> HIDE DEF P, d
<1>1. TypeOK'
  <2>1. RequestTypeOK'
    BY DebtCheckType DEF IInv, TypeOK, RequestTypeOK
  <2>2. CollectorTypeOK'
    BY <1>0, <1>a, <1>b DEF IInv, TypeOK, CollectorTypeOK, Colors, MarkColors
  <2> QED
    BY <2>1, <2>2 DEF IInv, TypeOK, HeapTypeOK
<1>2. BoxInv'
  BY <1>0, <1>a, <1>b, MarkKeeps DEF IInv, TypeOK, CollectorTypeOK,
     HeapTypeOK, RequestTypeOK, BoxInv, MarkColors
<1>3. ListInv' /\ SweepInv'
  BY DEF IInv, ListInv, SweepInv
<1>4. ColorInv'
  <2>1. \A x \in Box : color'[x] \in {"Gray", "Black"} => x \in live
    BY <1>0, <1>a, <1>b DEF IInv, ColorInv, MarkColors
  <2>2. gray \cup gray_again = {x \in Box : color[x] = "Gray"}
        /\ gray \cap gray_again = {}
    BY <1>0 DEF IInv, ColorInv
  <2>3. gray' \cup gray_again' = {x \in Box : color'[x] = "Gray"}
    <3>1. \A x \in Box : color'[x] = "Gray" <=> x \in gray' \cup gray_again'
      <4>0. \A x \in Box : color'[x] = "Gray" <=>
              (x # b /\ color[x] = "Gray") \/ x \in P
        BY <1>a, <1>b DEF MarkColors
      <4>1. CASE gray # {}
        BY <4>0, <4>1, <1>a, <2>2
      <4>2. CASE gray = {}
        BY <4>0, <4>2, <1>a, <2>2
      <4> QED
        BY <4>1, <4>2
    <3>2. gray' \cup gray_again' \subseteq Box
      BY <1>1 DEF TypeOK, CollectorTypeOK
    <3> QED
      BY <3>1, <3>2
  <2>4. gray' \cap gray_again' = {}
    BY <1>0, <1>a, <1>b, <2>2 DEF MarkColors, Whites
  <2> QED
    BY <1>0, <2>1, <2>3, <2>4 DEF ColorInv
<1>5. TricolorInv'
  <2>1. \A x \in Box : color'[x] = "Black" =>
          x = b \/ color[x] = "Black" \/ x \in Leaf
    BY <1>0, <1>a, <1>b DEF MarkColors
  <2>2. \A x \in Box : /\ color[x] \notin Whites => color'[x] \notin Whites
                       /\ color[x] # "White" => color'[x] # "White"
    BY <1>0, <1>a, <1>b DEF MarkColors, Whites
  <2>3. \A x \in Leaf : strong[x] = {} /\ weak[x] = {}
    BY LeafAssumption DEF IInv, BoxInv
  <2>4. /\ \A x \in strong[b] : color'[x] \notin Whites
        /\ \A x \in weak[b] : color'[x] # "White"
    BY <1>a, <1>b DEF MarkColors
  <2> QED
    BY <1>0, <2>1, <2>2, <2>3, <2>4 DEF IInv, TypeOK, CollectorTypeOK,
       HeapTypeOK, RequestTypeOK, TricolorInv
<1>6. KeepInv'
  BY <1>0, Collecting DEF IInv, KeepInv, Keep, WKeep
<1>7. CallInv'
  BY <1>0, Collecting DEF IInv, CallInv, StopAsserts, IsMarkedArena,
     gray_remaining, Callbacks, DebtCheck, Return
<1> QED
  BY <1>1, <1>2, <1>3, <1>4, <1>5, <1>6, <1>7 DEF IInv

\* A trace method that panics half way leaves its box gray.
LEMMA MarkBoxPanicStep ==
  ASSUME IInv, NEW b \in Box, NEW S \in SUBSET strong[b],
         NEW W \in SUBSET weak[b], MarkBoxPanic(b, S, W)
  PROVE  IInv'
<1> USE DEF MarkBoxPanic, Poppable
<1>0. /\ color[b] = "Gray" /\ b \in live /\ phase = "Mark"
      /\ S \in SUBSET Box /\ W \in SUBSET Box
      /\ S \subseteq live /\ W \subseteq alloc
      /\ color \in [Box -> Colors]
  BY MarkKeeps DEF IInv, TypeOK, CollectorTypeOK, HeapTypeOK, RequestTypeOK,
     ColorInv
<1> DEFINE P == Pushed([color EXCEPT ![b] = "Black"], S)
           d == Traced([color EXCEPT ![b] = "Black"], S, W)
<1>a. color' = [d EXCEPT ![b] = "Gray"] /\ gray' = (gray \ {b}) \cup P
  OBVIOUS
<1>b. MarkColors(color, b, S, W, P, d)
  BY <1>0, MarkColorsHold
<1> HIDE DEF P, d
<1>1. TypeOK'
  <2>1. RequestTypeOK'
    BY ReturnType DEF IInv, TypeOK, RequestTypeOK
  <2>2. CollectorTypeOK'
    BY <1>0, <1>a, <1>b DEF IInv, TypeOK, CollectorTypeOK, Colors, MarkColors
  <2> QED
    BY <2>1, <2>2 DEF IInv, TypeOK, HeapTypeOK
<1>2. BoxInv'
  BY <1>0, <1>a, <1>b, MarkKeeps DEF IInv, TypeOK, CollectorTypeOK,
     HeapTypeOK, RequestTypeOK, BoxInv, MarkColors
<1>3. ListInv' /\ SweepInv'
  BY DEF IInv, ListInv, SweepInv
<1>4. ColorInv'
  <2>1. \A x \in Box : color'[x] \in {"Gray", "Black"} => x \in live
    BY <1>0, <1>a, <1>b DEF IInv, ColorInv, MarkColors
  <2>2. gray \cup gray_again = {x \in Box : color[x] = "Gray"}
        /\ gray \cap gray_again = {}
    BY <1>0 DEF IInv, ColorInv
  <2>3. gray' \cup gray_again' = {x \in Box : color'[x] = "Gray"}
    <3>1. \A x \in Box : color'[x] = "Gray" <=> x \in gray' \cup gray_again'
      <4>0. \A x \in Box : color'[x] = "Gray" <=>
              x = b \/ (x # b /\ color[x] = "Gray") \/ x \in P
        BY <1>a, <1>b DEF MarkColors
      <4>1. CASE gray # {}
        BY <4>0, <4>1, <1>a, <2>2
      <4>2. CASE gray = {}
        BY <4>0, <4>2, <1>a, <2>2
      <4> QED
        BY <4>1, <4>2
    <3>2. gray' \cup gray_again' \subseteq Box
      BY <1>1 DEF TypeOK, CollectorTypeOK
    <3> QED
      BY <3>1, <3>2
  <2>4. gray' \cap gray_again' = {}
    BY <1>0, <1>a, <1>b, <2>2 DEF MarkColors, Whites
  <2> QED
    BY <1>0, <2>1, <2>3, <2>4 DEF ColorInv
<1>5. TricolorInv'
  <2>1. \A x \in Box : color'[x] = "Black" =>
          color[x] = "Black" \/ x \in Leaf
    BY <1>0, <1>a, <1>b DEF MarkColors
  <2>2. \A x \in Box : /\ color[x] \notin Whites => color'[x] \notin Whites
                       /\ color[x] # "White" => color'[x] # "White"
    BY <1>0, <1>a, <1>b DEF MarkColors, Whites
  <2>3. \A x \in Leaf : strong[x] = {} /\ weak[x] = {}
    BY LeafAssumption DEF IInv, BoxInv
  <2> QED
    BY <1>0, <2>1, <2>2, <2>3 DEF IInv, TypeOK, CollectorTypeOK, HeapTypeOK,
       RequestTypeOK, TricolorInv
<1>6. KeepInv'
  BY <1>0, Collecting DEF IInv, KeepInv, Keep, WKeep
<1>7. CallInv'
  BY <1>0, Collecting DEF IInv, CallInv, StopAsserts, IsMarkedArena,
     gray_remaining, Callbacks, DebtCheck, Return
<1> QED
  BY <1>1, <1>2, <1>3, <1>4, <1>5, <1>6, <1>7 DEF IInv

\* Tracing the root.
LEMMA MarkRootStep ==
  ASSUME IInv, NEW S \in SUBSET root_strong, NEW W \in SUBSET root_weak,
         NEW panicked \in BOOLEAN, MarkRoot(S, W, panicked)
  PROVE  IInv'
<1> DEFINE d == Traced(color, S, W)
<1> USE DEF MarkRoot
<1>0. /\ color \in [Box -> Colors] /\ S \in SUBSET Box /\ W \in SUBSET Box
      /\ S \subseteq live /\ W \subseteq alloc
  BY MarkKeeps DEF IInv, TypeOK, CollectorTypeOK, HeapTypeOK, RequestTypeOK
<1>b. /\ d \in [Box -> Colors]
      /\ \A x \in S : d[x] \notin Whites
      /\ \A x \in W : d[x] # "White"
      /\ \A x \in Box : color[x] \notin Whites => d[x] = color[x]
      /\ \A x \in Box : color[x] # "White" => d[x] # "White"
      /\ \A x \in Box : x \notin S \cup W => d[x] = color[x]
      /\ \A x \in Box : d[x] = "Black" => color[x] = "Black" \/ x \in Leaf
      /\ \A x \in Box : d[x] \in {"Gray", "Black"} =>
           color[x] \in {"Gray", "Black"} \/ x \in S
      /\ \A x \in Box : d[x] = "Gray" <=> color[x] = "Gray" \/ x \in Pushed(color, S)
  BY <1>0, TracedFacts
<1>c. /\ color' = d /\ gray' = Pushed(color, S)
      /\ Pushed(color, S) \subseteq S
  BY DEF Pushed
<1>d. \A x \in Box : color[x] # "Gray"
  BY DEF IInv, ColorInv
<1> HIDE DEF d
<1>1. TypeOK'
  <2>1. RequestTypeOK'
    BY ReturnType, DebtCheckType DEF IInv, TypeOK, RequestTypeOK
  <2>2. root_needs_trace' \in BOOLEAN
    BY Zenon
  <2> QED
    BY <1>0, <1>b, <1>c, <2>1, <2>2 DEF IInv, TypeOK, CollectorTypeOK,
       HeapTypeOK
<1>2. BoxInv'
  BY <1>0, <1>b, <1>c, MarkKeeps DEF IInv, TypeOK, CollectorTypeOK,
     HeapTypeOK, RequestTypeOK, BoxInv
<1>3. ListInv' /\ SweepInv'
  BY DEF IInv, ListInv, SweepInv
<1>4. ColorInv'
  BY <1>0, <1>b, <1>c, <1>d DEF IInv, ColorInv
<1>5. TricolorInv'
  BY <1>0, <1>b, <1>c DEF IInv, TypeOK, CollectorTypeOK, HeapTypeOK,
     RequestTypeOK, BoxInv, TricolorInv, Whites
<1>6. KeepInv'
  BY <1>0, Collecting DEF IInv, KeepInv, Keep, WKeep
<1>7. CallInv'
  BY <1>0, Collecting DEF IInv, CallInv, StopAsserts, IsMarkedArena,
     gray_remaining, Callbacks, DebtCheck, Return
<1> QED
  BY <1>1, <1>2, <1>3, <1>4, <1>5, <1>6, <1>7 DEF IInv

\* The end of marking.  If the sweep begins, nothing is gray, so by the
\* tricolor invariant what is black and the root point to black boxes only.
LEMMA EndMarkStep ==
  ASSUME IInv, EndMark
  PROVE  IInv'
<1> USE DEF EndMark, gray_remaining
<1>1. TypeOK'
  <2>1. RequestTypeOK'
    BY ReturnType, DebtCheckType DEF IInv, TypeOK, RequestTypeOK
  <2> QED
    BY <2>1 DEF IInv, TypeOK, CollectorTypeOK, HeapTypeOK, Phases
<1>2. BoxInv' /\ ListInv'
  BY DEF IInv, BoxInv, ListInv
<1>3. SweepInv' /\ ColorInv'
  BY DEF IInv, TypeOK, CollectorTypeOK, HeapTypeOK, RequestTypeOK, ListInv,
     SweepInv, ColorInv
<1>4. TricolorInv'
  BY DEF IInv, TricolorInv
<1>5. KeepInv'
  <2>1. CASE phase' = "Mark"
    BY <2>1 DEF IInv, KeepInv, Keep, WKeep
  <2>2. CASE phase' = "Sweep"
    <3>0. sweep' = all /\ live \subseteq alloc /\ \A b \in alloc : b <= all
      BY <2>2 DEF IInv, TypeOK, HeapTypeOK, ListInv
    <3>1. Keep' = {b \in live : color[b] = "Black"}
      BY <2>2, <3>0 DEF Keep
    <3>2. WKeep' = {b \in alloc : color[b] # "White"}
      BY <2>2, <3>0 DEF WKeep
    <3>3. \A b \in Box : color[b] \in Whites \/ color[b] = "Black"
      BY DEF IInv, TypeOK, CollectorTypeOK, HeapTypeOK, RequestTypeOK,
         ColorInv, Colors, Whites
    <3>4. \A b \in live : color[b] = "Black" =>
            /\ \A x \in strong[b] : color[x] = "Black"
            /\ \A x \in weak[b] : color[x] # "White"
      BY <3>3 DEF IInv, TypeOK, CollectorTypeOK, HeapTypeOK, RequestTypeOK,
         TricolorInv
    <3>5. /\ \A x \in root_strong : color[x] = "Black"
          /\ \A x \in root_weak : color[x] # "White"
      BY <3>3 DEF IInv, TypeOK, CollectorTypeOK, HeapTypeOK, RequestTypeOK,
         TricolorInv
    <3> QED
      BY <3>1, <3>2, <3>4, <3>5, MarkKeeps, Collecting DEF KeepInv
  <2> QED
    BY <2>1, <2>2
<1>6. CallInv'
  <2>1. held' = {} /\ held_weak' = {} /\ phase' # "Drop" /\ phase' # "Sleep"
    BY Collecting
  <2>2. call' \in {"collect", "none"}
    BY DEF DebtCheck, Return
  <2>3. StopAsserts' /\ (call' = "collect" /\ stop' = AtSweep => ~has_slept')
    <3>1. CASE stop <= FullyMarked
      BY <3>1 DEF StopAsserts, Return
    <3>2. CASE ~(stop <= FullyMarked)
      <4>1. phase' = "Sweep" /\ DebtCheck(has_slept)
        BY <3>2
      <4>2. call' = "collect" => stop' = stop /\ has_slept' = has_slept
        BY <4>1 DEF DebtCheck, Return
      <4>3. has_slept /\ call = "collect" => stop # AtSweep
        BY DEF IInv, CallInv
      <4> QED
        BY <3>2, <4>1, <4>2, <4>3 DEF StopAsserts, IInv, TypeOK, RequestTypeOK,
           FullyMarked, AtSweep, FinishCycle, Full
    <3> QED
      BY <3>1, <3>2
  <2> QED
    BY <2>1, <2>2, <2>3 DEF CallInv, Callbacks
<1> QED
  BY <1>1, <1>2, <1>3, <1>4, <1>5, <1>6 DEF IInv

\* A call that does not want to sweep.
LEMMA StopAtSweepStep ==
  ASSUME IInv, StopAtSweep
  PROVE  IInv'
<1> USE DEF StopAtSweep
<1>1. TypeOK'
  BY ReturnType DEF IInv, TypeOK, CollectorTypeOK, HeapTypeOK
<1>2. BoxInv' /\ ListInv' /\ SweepInv' /\ ColorInv' /\ TricolorInv'
  BY DEF IInv, BoxInv, ListInv, SweepInv, ColorInv, TricolorInv
<1>3. KeepInv'
  BY DEF IInv, KeepInv, Keep, WKeep
<1>4. CallInv'
  BY Collecting DEF IInv, CallInv, StopAsserts, Return
<1> QED
  BY <1>1, <1>2, <1>3, <1>4 DEF IInv

\* The boxes left to sweep once the box at the sweep pointer is done.
LEMMA SweepPosition ==
  ASSUME IInv, phase = "Sweep", sweep # Null
  PROVE  /\ sweep \in alloc /\ sweep \in Box
         /\ next[sweep] \in alloc \cup {Null} /\ next[sweep] < sweep
         /\ \A b \in alloc : b <= next[sweep] <=> b < sweep
         /\ sweep_prev # Null => sweep_prev \in alloc /\ sweep_prev > sweep
<1>1. /\ sweep \in alloc /\ sweep \in Box
      /\ next[sweep] \in alloc \cup {Null} /\ next[sweep] < sweep
      /\ sweep_prev # Null => sweep_prev \in alloc /\ sweep_prev > sweep
  BY DEF IInv, TypeOK, CollectorTypeOK, HeapTypeOK, RequestTypeOK, SweepInv,
     ListInv
<1>2. \A b \in alloc : b <= next[sweep] <=> b < sweep
  BY <1>1 DEF IInv, TypeOK, CollectorTypeOK, HeapTypeOK, RequestTypeOK, ListInv
<1> QED
  BY <1>1, <1>2

\* Unlinking and freeing a box that nothing reaches.
LEMMA SweepWhiteStep ==
  ASSUME IInv, SweepWhite
  PROVE  IInv'
<1> USE DEF SweepWhite, Sweeping
<1>0. /\ sweep \in alloc /\ sweep \in Box
      /\ sweep' = next[sweep] /\ sweep' \in alloc \cup {Null} /\ sweep' < sweep
      /\ \A b \in alloc : b <= sweep' <=> b < sweep
      /\ sweep_prev # Null => sweep_prev \in alloc /\ sweep_prev > sweep
  BY SweepPosition
<1>a. /\ color \in [Box -> Colors] /\ next \in [Box -> Box \cup {Null}]
      /\ live \subseteq alloc /\ alloc \subseteq Box
      /\ strong \in [Box -> SUBSET Box] /\ weak \in [Box -> SUBSET Box]
      /\ sweep \in Int /\ sweep' \in Int /\ \A b \in alloc : b \in Int
  BY <1>0, MaxBoxAssumption DEF IInv, TypeOK, CollectorTypeOK, HeapTypeOK,
     RequestTypeOK, BoxInv
<1>e. /\ \A b \in alloc : b # sweep =>
           (b <= sweep' <=> b <= sweep) /\ color'[b] = color[b]
      /\ ~(sweep <= sweep') /\ sweep <= sweep
      /\ phase = "Sweep" /\ phase' = "Sweep"
  BY <1>0, <1>a
<1>1. TypeOK'
  <2>1. RequestTypeOK'
    BY ReturnType, DebtCheckType DEF IInv, TypeOK, RequestTypeOK, DropContents
  <2>2. CollectorTypeOK'
    BY <1>0, <1>a DEF IInv, TypeOK, CollectorTypeOK, Colors
  <2>3. HeapTypeOK'
    BY <1>0, <1>a DEF IInv, TypeOK, HeapTypeOK, DropContents
  <2> QED
    BY <2>1, <2>2, <2>3 DEF TypeOK
<1>2. BoxInv'
  BY <1>0, <1>a DEF IInv, BoxInv, DropContents
<1>b. ASSUME sweep_prev = Null PROVE ListInv' /\ SweepInv'
  <2>1. all = sweep /\ all' = sweep' /\ alloc' = alloc \ {sweep}
    BY <1>b, <1>0 DEF IInv, SweepInv
  <2>2. \A b \in alloc' : next'[b] = next[b] /\ b \in alloc /\ b < sweep
    BY <1>b, <1>a, <2>1 DEF IInv, ListInv
  <2>3. ListInv'
    BY <1>0, <1>a, <2>1, <2>2 DEF IInv, ListInv
  <2>4. SweepInv'
    BY <1>b, <1>0, <1>a, <2>1 DEF SweepInv
  <2> QED
    BY <2>3, <2>4
<1>c. ASSUME sweep_prev # Null PROVE ListInv' /\ SweepInv'
  <2>0. sweep_prev \in alloc /\ sweep_prev \in Box /\ sweep_prev > sweep
    BY <1>c, <1>0, <1>a
  <2>1. /\ all' = all /\ alloc' = alloc \ {sweep} /\ next[sweep_prev] = sweep
        /\ next' = [next EXCEPT ![sweep_prev] = next[sweep], ![sweep] = Null]
    BY <1>c, <1>e DEF IInv, SweepInv
  <2>2. /\ next'[sweep_prev] = sweep'
        /\ \A b \in alloc' : b # sweep_prev => next'[b] = next[b]
    BY <1>0, <1>a, <2>0, <2>1
  <2>3. \A b \in alloc : b # sweep_prev /\ b # sweep => next[b] # sweep
    <3> SUFFICES ASSUME NEW b \in alloc, b # sweep_prev, next[b] = sweep
                 PROVE  FALSE
      OBVIOUS
    <3>1. sweep < b /\ b \in Int /\ sweep_prev \in Int
      BY <1>a, <2>0 DEF IInv, ListInv
    <3>2. CASE b < sweep_prev
      BY <3>1, <3>2, <1>a, <2>0, <2>1 DEF IInv, ListInv
    <3>3. CASE sweep_prev < b
      BY <3>1, <3>3, <1>a, <2>0 DEF IInv, ListInv
    <3> QED
      BY <3>1, <3>2, <3>3
  <2>4. all' \in alloc' \cup {Null} /\ \A b \in alloc' : b <= all'
    <3>1. sweep_prev <= all /\ all \in alloc \cup {Null}
      BY <2>0 DEF IInv, ListInv
    <3>2. all # sweep
      BY <3>1, <2>0, <1>a
    <3> QED
      BY <3>1, <3>2, <2>1 DEF IInv, ListInv
  <2>5. \A b \in alloc' : next'[b] \in alloc' \cup {Null} /\ next'[b] < b
    BY <1>0, <1>a, <2>0, <2>1, <2>2, <2>3 DEF IInv, ListInv
  <2>6. \A b, e \in alloc' : e < b => e <= next'[b]
    <3> TAKE b, e \in alloc'
    <3> HAVE e < b
    <3>1. CASE b = sweep_prev
      <4>1. e \in alloc /\ e # sweep /\ e <= sweep
        BY <3>1, <2>0, <2>1 DEF IInv, ListInv
      <4> QED
        BY <4>1, <3>1, <1>0, <1>a, <2>2
    <3>2. CASE b # sweep_prev
      BY <3>2, <1>0, <1>a, <2>1, <2>2 DEF IInv, ListInv
    <3> QED
      BY <3>1, <3>2
  <2>7. ListInv'
    BY <2>4, <2>5, <2>6 DEF ListInv
  <2>8. SweepInv'
    BY <1>c, <1>e, <1>0, <2>0, <2>1, <2>2 DEF SweepInv
  <2> QED
    BY <2>7, <2>8
<1>3. ListInv' /\ SweepInv'
  BY <1>b, <1>c
<1>5. ColorInv'
  BY <1>0, <1>a DEF IInv, TypeOK, CollectorTypeOK, HeapTypeOK, RequestTypeOK,
     BoxInv, ColorInv
<1>6. TricolorInv'
  BY DEF TricolorInv
<1>7. KeepInv'
  <2>1. Keep' = Keep
    <3>1. \A b \in Keep : b \in Keep'
      BY <1>0, <1>a, <1>e DEF Keep, DropContents
    <3>2. \A b \in Keep' : b \in Keep
      BY <1>0, <1>a, <1>e DEF Keep, DropContents
    <3> QED
      BY <3>1, <3>2
  <2>2. WKeep' = WKeep
    <3>1. \A b \in WKeep : b \in WKeep'
      BY <1>0, <1>a, <1>e DEF WKeep
    <3>2. \A b \in WKeep' : b \in WKeep
      BY <1>0, <1>a, <1>e DEF WKeep
    <3> QED
      BY <3>1, <3>2
  <2>3. \A b \in Keep : strong'[b] \subseteq strong[b] /\ weak'[b] \subseteq weak[b]
    BY <1>0, <1>a DEF Keep, DropContents
  <2>4. UNCHANGED <<phase, root_strong, root_weak, held, held_weak>>
    OBVIOUS
  <2> QED
    BY <2>1, <2>2, <2>3, <2>4 DEF IInv, KeepInv
<1>8. CallInv'
  BY Collecting DEF IInv, CallInv, StopAsserts, Callbacks, DebtCheck, Return,
     DropContents
<1> QED
  BY <1>1, <1>2, <1>3, <1>5, <1>6, <1>7, <1>8 DEF IInv

\* Dropping the value of a box that only weak pointers reach.
LEMMA SweepWhiteWeakStep ==
  ASSUME IInv, SweepWhiteWeak
  PROVE  IInv'
<1> USE DEF SweepWhiteWeak, Sweeping
<1>0. /\ sweep \in alloc /\ sweep \in Box
      /\ sweep' = next[sweep] /\ sweep' \in alloc \cup {Null} /\ sweep' < sweep
      /\ \A b \in alloc : b <= sweep' <=> b < sweep
      /\ sweep_prev # Null => sweep_prev \in alloc /\ sweep_prev > sweep
  BY SweepPosition
<1>a. /\ color \in [Box -> Colors] /\ next \in [Box -> Box \cup {Null}]
      /\ live \subseteq alloc /\ alloc \subseteq Box
      /\ strong \in [Box -> SUBSET Box] /\ weak \in [Box -> SUBSET Box]
      /\ sweep \in Int /\ sweep' \in Int /\ \A b \in alloc : b \in Int
  BY <1>0, MaxBoxAssumption DEF IInv, TypeOK, CollectorTypeOK, HeapTypeOK,
     RequestTypeOK, BoxInv
<1>e. /\ \A b \in alloc : b # sweep =>
           (b <= sweep' <=> b <= sweep) /\ color'[b] = color[b]
      /\ ~(sweep <= sweep') /\ sweep <= sweep
      /\ phase = "Sweep" /\ phase' = "Sweep"
  BY <1>0, <1>a
<1>1. TypeOK'
  <2>1. RequestTypeOK'
    BY ReturnType, DebtCheckType DEF IInv, TypeOK, RequestTypeOK, DropContents
  <2>2. CollectorTypeOK'
    BY <1>0, <1>a DEF IInv, TypeOK, CollectorTypeOK, Colors
  <2>3. HeapTypeOK'
    BY <1>0, <1>a DEF IInv, TypeOK, HeapTypeOK, DropContents
  <2> QED
    BY <2>1, <2>2, <2>3 DEF TypeOK
<1>2. BoxInv'
  BY <1>0, <1>a DEF IInv, BoxInv, DropContents
<1>3. ListInv' /\ SweepInv'
  <2>1. ListInv'
    BY DEF IInv, ListInv, DropContents
  <2>2. SweepInv'
    BY <1>0 DEF SweepInv
  <2> QED
    BY <2>1, <2>2
<1>5. ColorInv'
  BY <1>0, <1>a DEF IInv, TypeOK, CollectorTypeOK, HeapTypeOK, RequestTypeOK,
     BoxInv, ColorInv
<1>6. TricolorInv'
  BY DEF TricolorInv
<1>7. KeepInv'
  <2>1. Keep' = Keep
    <3>1. \A b \in Keep : b \in Keep'
      BY <1>0, <1>a, <1>e DEF Keep, DropContents
    <3>2. \A b \in Keep' : b \in Keep
      BY <1>0, <1>a, <1>e DEF Keep, DropContents
    <3> QED
      BY <3>1, <3>2
  <2>2. WKeep' = WKeep
    <3>1. \A b \in WKeep : b \in WKeep'
      BY <1>0, <1>a, <1>e DEF WKeep
    <3>2. \A b \in WKeep' : b \in WKeep
      BY <1>0, <1>a, <1>e DEF WKeep
    <3> QED
      BY <3>1, <3>2
  <2>3. \A b \in Keep : strong'[b] \subseteq strong[b] /\ weak'[b] \subseteq weak[b]
    BY <1>0, <1>a DEF Keep, DropContents
  <2>4. UNCHANGED <<phase, root_strong, root_weak, held, held_weak>>
    OBVIOUS
  <2> QED
    BY <2>1, <2>2, <2>3, <2>4 DEF IInv, KeepInv
<1>8. CallInv'
  BY Collecting DEF IInv, CallInv, StopAsserts, Callbacks, DebtCheck, Return,
     DropContents
<1> QED
  BY <1>1, <1>2, <1>3, <1>5, <1>6, <1>7, <1>8 DEF IInv

\* Passing over a box that is still in use.
LEMMA SweepBlackStep ==
  ASSUME IInv, SweepBlack
  PROVE  IInv'
<1> USE DEF SweepBlack, Sweeping
<1>0. /\ sweep \in alloc /\ sweep \in Box
      /\ sweep' = next[sweep] /\ sweep' \in alloc \cup {Null} /\ sweep' < sweep
      /\ \A b \in alloc : b <= sweep' <=> b < sweep
      /\ sweep_prev # Null => sweep_prev \in alloc /\ sweep_prev > sweep
  BY SweepPosition
<1>a. /\ color \in [Box -> Colors] /\ next \in [Box -> Box \cup {Null}]
      /\ live \subseteq alloc /\ alloc \subseteq Box
      /\ strong \in [Box -> SUBSET Box] /\ weak \in [Box -> SUBSET Box]
      /\ sweep \in Int /\ sweep' \in Int /\ \A b \in alloc : b \in Int
  BY <1>0, MaxBoxAssumption DEF IInv, TypeOK, CollectorTypeOK, HeapTypeOK,
     RequestTypeOK, BoxInv
<1>e. /\ \A b \in alloc : b # sweep =>
           (b <= sweep' <=> b <= sweep) /\ color'[b] = color[b]
      /\ ~(sweep <= sweep') /\ sweep <= sweep
      /\ phase = "Sweep" /\ phase' = "Sweep"
  BY <1>0, <1>a
<1>1. TypeOK'
  <2>1. RequestTypeOK'
    BY ReturnType, DebtCheckType DEF IInv, TypeOK, RequestTypeOK
  <2>2. CollectorTypeOK'
    BY <1>0, <1>a DEF IInv, TypeOK, CollectorTypeOK, Colors
  <2>3. HeapTypeOK'
    BY <1>0, <1>a DEF IInv, TypeOK, HeapTypeOK
  <2> QED
    BY <2>1, <2>2, <2>3 DEF TypeOK
<1>2. BoxInv'
  BY <1>0, <1>a DEF IInv, BoxInv
<1>3. ListInv' /\ SweepInv'
  <2>1. ListInv'
    BY DEF IInv, ListInv
  <2>2. SweepInv'
    BY <1>0 DEF SweepInv
  <2> QED
    BY <2>1, <2>2
<1>5. ColorInv'
  BY <1>0, <1>a DEF IInv, TypeOK, CollectorTypeOK, HeapTypeOK, RequestTypeOK,
     BoxInv, ColorInv
<1>6. TricolorInv'
  BY DEF TricolorInv
<1>7. KeepInv'
  <2>1. Keep' = Keep
    <3>1. \A b \in Keep : b \in Keep'
      BY <1>0, <1>a, <1>e DEF Keep
    <3>2. \A b \in Keep' : b \in Keep
      BY <1>0, <1>a, <1>e DEF Keep
    <3> QED
      BY <3>1, <3>2
  <2>2. WKeep' = WKeep
    <3>1. \A b \in WKeep : b \in WKeep'
      BY <1>0, <1>a, <1>e DEF WKeep
    <3>2. \A b \in WKeep' : b \in WKeep
      BY <1>0, <1>a, <1>e DEF WKeep
    <3> QED
      BY <3>1, <3>2
  <2>3. \A b \in Keep : strong'[b] \subseteq strong[b] /\ weak'[b] \subseteq weak[b]
    BY <1>0, <1>a DEF Keep
  <2>4. UNCHANGED <<phase, root_strong, root_weak, held, held_weak>>
    OBVIOUS
  <2> QED
    BY <2>1, <2>2, <2>3, <2>4 DEF IInv, KeepInv
<1>8. CallInv'
  BY Collecting DEF IInv, CallInv, StopAsserts, Callbacks, DebtCheck, Return
<1> QED
  BY <1>1, <1>2, <1>3, <1>5, <1>6, <1>7, <1>8 DEF IInv

\* The end of the cycle: the sweep has passed every box, so all are white.
LEMMA EndSweepStep ==
  ASSUME IInv, EndSweep
  PROVE  IInv'
<1> USE DEF EndSweep
<1>1. TypeOK'
  <2>1. RequestTypeOK'
    BY ReturnType, DebtCheckType DEF IInv, TypeOK, RequestTypeOK
  <2> QED
    BY <2>1 DEF IInv, TypeOK, CollectorTypeOK, HeapTypeOK, Phases
<1>2. BoxInv' /\ ListInv' /\ SweepInv' /\ TricolorInv'
  BY DEF IInv, BoxInv, ListInv, SweepInv, TricolorInv
<1>3. ColorInv'
  BY DEF IInv, TypeOK, CollectorTypeOK, HeapTypeOK, RequestTypeOK, BoxInv,
     ColorInv
<1>4. KeepInv'
  BY DEF IInv, TypeOK, CollectorTypeOK, HeapTypeOK, RequestTypeOK, KeepInv,
     Keep, WKeep
<1>5. CallInv'
  BY Collecting DEF IInv, CallInv, StopAsserts, Callbacks, DebtCheck, Return,
     AtSweep
<1> QED
  BY <1>1, <1>2, <1>3, <1>4, <1>5 DEF IInv

\* Starting to drop the arena.
LEMMA DropArenaStep ==
  ASSUME IInv, DropArena
  PROVE  IInv'
<1> USE DEF DropArena
<1>1. TypeOK'
  BY DEF IInv, TypeOK, CollectorTypeOK, HeapTypeOK, RequestTypeOK, Phases, Calls
<1>2. BoxInv' /\ ListInv' /\ SweepInv' /\ ColorInv' /\ TricolorInv' /\ KeepInv'
  BY DEF IInv, BoxInv, ListInv, SweepInv, ColorInv, TricolorInv, KeepInv
<1>3. CallInv'
  BY DEF IInv, CallInv, StopAsserts, Callbacks
<1> QED
  BY <1>1, <1>2, <1>3 DEF IInv

\* Dropping the box at the head of the list.
LEMMA DropBoxStep ==
  ASSUME IInv, DropBox
  PROVE  IInv'
<1> USE DEF DropBox
<1>0. phase = "Drop" /\ all \in alloc /\ all \in Box
  BY DEF IInv, TypeOK, CollectorTypeOK, HeapTypeOK, RequestTypeOK, CallInv,
     ListInv
<1>1. TypeOK'
  BY <1>0 DEF IInv, TypeOK, CollectorTypeOK, HeapTypeOK, RequestTypeOK
<1>2. BoxInv'
  BY <1>0 DEF IInv, TypeOK, CollectorTypeOK, HeapTypeOK, RequestTypeOK, BoxInv
<1>3. ListInv'
  BY <1>0 DEF IInv, TypeOK, CollectorTypeOK, HeapTypeOK, RequestTypeOK,
     BoxInv, ListInv
<1>4. SweepInv' /\ ColorInv' /\ TricolorInv' /\ KeepInv'
  BY <1>0 DEF SweepInv, ColorInv, TricolorInv, KeepInv
<1>5. CallInv'
  BY <1>0 DEF IInv, CallInv, StopAsserts, Callbacks
<1> QED
  BY <1>1, <1>2, <1>3, <1>4, <1>5 DEF IInv

-----------------------------------------------------------------------------
(* The invariant, and what follows from it.                                 *)

\* Context::new establishes the invariant.
LEMMA InitInv == Init => IInv
<1> SUFFICES ASSUME Init PROVE IInv
  OBVIOUS
<1> USE DEF Init
<1>1. TypeOK
  <2>1. root_needs_trace \in BOOLEAN /\ has_slept \in BOOLEAN
    OBVIOUS
  <2> QED
    BY <2>1, MaxBoxAssumption
       DEF TypeOK, CollectorTypeOK, HeapTypeOK, RequestTypeOK, Phases, Calls,
       Colors, FullyMarked, Full
<1>2. BoxInv /\ ListInv /\ SweepInv /\ ColorInv /\ TricolorInv
  BY DEF BoxInv, ListInv, SweepInv, ColorInv, TricolorInv
<1>3. KeepInv /\ CallInv
  BY DEF KeepInv, Keep, WKeep, CallInv, StopAsserts, Callbacks
<1> QED
  BY <1>1, <1>2, <1>3 DEF IInv

\* Every step of the arena preserves the invariant.
LEMMA NextInv == IInv /\ [Next]_vars => IInv'
<1> SUFFICES ASSUME IInv, [Next]_vars PROVE IInv'
  OBVIOUS
<1>1. CASE Mutator
  BY <1>1, mutateStep, mutate_rootStep, finalizeStep, EndCallbackStep,
     allocateStep, WriteRootStep, WriteStrongStep, AdoptBackwardStep,
     AdoptForwardStep, WriteWeakStep, AdoptBackwardWeakStep,
     AdoptForwardWeakStep, OverwriteStep, downgradeStep, upgradeStep,
     resurrectStep DEF Mutator
<1>2. CASE Request
  BY <1>2, RequestStep
<1>3. CASE Collector
  BY <1>3, WakeUpStep, MarkBoxStep, MarkBoxPanicStep, MarkRootStep,
     EndMarkStep, StopAtSweepStep, SweepWhiteStep, SweepWhiteWeakStep,
     SweepBlackStep, EndSweepStep DEF Collector
<1>4. CASE DropArena
  BY <1>4, DropArenaStep
<1>5. CASE DropBox
  BY <1>5, DropBoxStep
<1>6. CASE UNCHANGED vars
  <2> USE <1>6 DEF vars
  <2>1. TypeOK' /\ BoxInv' /\ ListInv' /\ SweepInv' /\ ColorInv' /\ TricolorInv'
    BY DEF IInv, TypeOK, CollectorTypeOK, HeapTypeOK, RequestTypeOK, BoxInv,
       ListInv, SweepInv, ColorInv, TricolorInv
  <2>2. KeepInv' /\ CallInv'
    BY DEF IInv, KeepInv, Keep, WKeep, CallInv, StopAsserts, IsMarkedArena,
       gray_remaining
  <2> QED
    BY <2>1, <2>2 DEF IInv
<1> QED
  BY <1>1, <1>2, <1>3, <1>4, <1>5, <1>6 DEF Next

\* The invariant holds in every state of every behaviour of the arena.
THEOREM Invariance == Spec => []IInv
BY InitInv, NextInv, PTL DEF Spec

\* The state always has the types TypeOK gives it.
THEOREM TypeCorrect == Spec => []TypeOK
<1>1. IInv => TypeOK
  BY DEF IInv
<1> QED
  BY <1>1, Invariance, PTL

\* No Gc pointer a program can follow leads to a dropped or freed box: the
\* collector is safe for heaps of any size and shape, whatever the mutator does.
THEOREM NoDanglingPointers == Spec => []NoDangling
<1>1. IInv => NoDangling
  <2> SUFFICES ASSUME IInv PROVE NoDangling
    OBVIOUS
  <2>1. CASE phase = "Drop"
    <3>1. root_strong \cup held = {}
      BY <2>1 DEF IInv, CallInv, Callbacks
    <3>2. Reach({}) \subseteq {}
      BY ReachIn
    <3> QED
      BY <3>1, <3>2 DEF NoDangling
  <2>2. CASE phase # "Drop"
    BY <2>2, ReachKeep DEF IInv, TypeOK, HeapTypeOK, KeepInv, Keep, NoDangling
  <2> QED
    BY <2>1, <2>2
<1> QED
  BY <1>1, Invariance, PTL

\* No GcWeak pointer a program can get at names a box whose memory is gone.
THEOREM WeakHeadersStay == Spec => []WeakHeaderValid
<1>1. IInv => WeakHeaderValid
  <2> SUFFICES ASSUME IInv PROVE WeakHeaderValid
    OBVIOUS
  <2>1. CASE phase = "Drop"
    <3>1. root_strong \cup held = {} /\ root_weak \cup held_weak = {}
      BY <2>1 DEF IInv, CallInv, Callbacks
    <3>2. Reach({}) \subseteq {}
      BY ReachIn
    <3>3. Reach(root_strong \cup held) = {}
      BY <3>1, <3>2
    <3> QED
      BY <3>1, <3>3 DEF WeakHeaderValid, WeakReach, WeakOf
  <2>2. CASE phase # "Drop"
    <3>1. WeakOf(Reach(root_strong \cup held)) \subseteq WKeep
      BY <2>2, ReachKeep DEF IInv, KeepInv
    <3> QED
      BY <2>2, <3>1 DEF IInv, KeepInv, WKeep, WeakHeaderValid, WeakReach
  <2> QED
    BY <2>1, <2>2
<1> QED
  BY <1>1, Invariance, PTL

\* A non-empty set of natural numbers has a least element.
LEMMA LeastElement ==
  ASSUME NEW T, T \subseteq Nat, T # {}
  PROVE  \E x \in T : \A y \in T : x <= y
<1>1. PICK x \in T : \A y \in T : ~ (<<y, x>> \in OpToRel(<, Nat))
  BY WFMin, NatLessThanWellFounded
<1>2. \A y \in T : y \in Nat /\ x \in Nat /\ ~(y < x)
  BY <1>1 DEF OpToRel
<1> QED
  BY <1>2

\* Boxes are neither lost from the list of all boxes nor left on it when freed.
\* For the first half: were b lost, the youngest-to-oldest walk would step from
\* some box above b to one below it, which ListInv excludes.
THEOREM ListIntegrity == Spec => []ListIsAlloc
<1>1. IInv => ListIsAlloc
  <2> SUFFICES ASSUME IInv PROVE OnList = alloc
    BY DEF ListIsAlloc
  <2>0. alloc \subseteq Box /\ alloc \subseteq Nat
    BY MaxBoxAssumption DEF IInv, TypeOK, HeapTypeOK
  <2>1. OnList \subseteq alloc
    <3>1. {all} \ {Null} \subseteq alloc
      BY DEF IInv, ListInv
    <3>2. \A t \in alloc : {next[t]} \ {Null} \subseteq alloc
      BY DEF IInv, ListInv
    <3> QED
      BY <2>0, <3>1, <3>2 DEF OnList
  <2>2. ASSUME NEW b \in alloc, NEW T \in SUBSET Box, {all} \ {Null} \subseteq T,
               \A t \in T : {next[t]} \ {Null} \subseteq T, b \notin T
        PROVE  FALSE
    <3> DEFINE Above == {x \in T \cap alloc : b <= x}
    <3>1. all \in Above
      BY <2>0, <2>2 DEF IInv, ListInv
    <3>2. PICK x \in Above : \A y \in Above : x <= y
      <4>1. Above \subseteq Nat /\ Above # {}
        BY <2>0, <3>1
      <4> HIDE DEF Above
      <4> QED
        BY <4>1, LeastElement
    <3>3. x \in alloc /\ x \in T /\ x \in Nat /\ b \in Nat /\ b < x
      BY <2>0, <2>2, <3>2
    <3>4. b <= next[x] /\ next[x] < x /\ next[x] \in alloc \cup {Null}
      BY <3>3 DEF IInv, ListInv
    <3>5. next[x] \in alloc
      BY <2>0, <3>4 DEF IInv, TypeOK, HeapTypeOK
    <3>6. next[x] \in Above
      BY <2>0, <2>2, <3>3, <3>4, <3>5
    <3>7. x <= next[x] /\ next[x] \in Nat
      BY <2>0, <3>2, <3>5, <3>6
    <3> QED
      BY <3>3, <3>4, <3>7
  <2>3. alloc \subseteq OnList
    BY <2>0, <2>2 DEF OnList
  <2> QED
    BY <2>1, <2>3
<1> QED
  BY <1>1, Invariance, PTL

\* When marking is over the colors tell reachable from unreachable.
THEOREM MarkingIsComplete == Spec => []MarkedIsComplete
<1>1. IInv => MarkedIsComplete
  <2> SUFFICES ASSUME IInv, IsMarkedArena, call = "none"
               PROVE  /\ \A b \in Reach(root_strong) : color[b] = "Black"
                      /\ \A b \in root_weak \cup WeakOf(Reach(root_strong)) :
                           color[b] # "White"
    BY DEF MarkedIsComplete
  <2> DEFINE T == {b \in Box : color[b] = "Black"}
  <2>1. \A b \in Box : color[b] \in Whites \/ color[b] = "Black"
    BY DEF IInv, TypeOK, CollectorTypeOK, HeapTypeOK, RequestTypeOK,
       ColorInv, Colors, Whites, IsMarkedArena, gray_remaining
  <2>2. \A b \in T : strong[b] \subseteq T /\ \A c \in weak[b] : color[c] # "White"
    BY <2>1 DEF IInv, TypeOK, CollectorTypeOK, HeapTypeOK, RequestTypeOK,
       TricolorInv, IsMarkedArena
  <2>3. root_strong \subseteq T /\ \A c \in root_weak : color[c] # "White"
    BY <2>1 DEF IInv, TypeOK, CollectorTypeOK, HeapTypeOK, RequestTypeOK,
       TricolorInv, IsMarkedArena, gray_remaining
  <2>4. Reach(root_strong) \subseteq T
    BY <2>2, <2>3, ReachIn
  <2> QED
    BY <2>2, <2>3, <2>4 DEF WeakOf
<1> QED
  BY <1>1, Invariance, PTL

\* The assertions of sweep_one hold.
THEOREM SweepAssertsHold == Spec => []SweepAsserts
<1>1. IInv => SweepAsserts
  BY DEF IInv, TypeOK, CollectorTypeOK, HeapTypeOK, RequestTypeOK, SweepInv,
     ColorInv, SweepAsserts
<1> QED
  BY <1>1, Invariance, PTL

\* The gray queues hold the gray boxes, each once.
THEOREM QueuesHoldGray == Spec => []QueuesAreGray
<1>1. IInv => QueuesAreGray
  <2> SUFFICES ASSUME IInv, phase # "Drop"
               PROVE  /\ gray \cap gray_again = {}
                      /\ gray \cup gray_again = {b \in alloc : color[b] = "Gray"}
                      /\ gray \cup gray_again \subseteq live
    BY DEF QueuesAreGray
  <2>1. gray \cup gray_again = {b \in Box : color[b] = "Gray"}
    BY DEF IInv, ColorInv
  <2>2. \A b \in Box : color[b] = "Gray" => b \in live
    BY DEF IInv, TypeOK, CollectorTypeOK, HeapTypeOK, RequestTypeOK,
       ColorInv, BoxInv, Phases
  <2> QED
    BY <2>1, <2>2 DEF IInv, ColorInv, BoxInv, TypeOK, HeapTypeOK
<1> QED
  BY <1>1, Invariance, PTL

\* The assertions on where do_collection stops hold.
THEOREM StopAssertsHold == Spec => []StopAsserts
<1>1. IInv => StopAsserts
  BY DEF IInv, CallInv
<1> QED
  BY <1>1, Invariance, PTL
=============================================================================
