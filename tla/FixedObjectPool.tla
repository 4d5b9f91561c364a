---------------------------- MODULE FixedObjectPool ----------------------------
(* memory/fixed_object_pool.hpp: fixed storage with an intrusive free list, and  *)
(* the move-only Handle that returns its slot.                                   *)
(*                                                                               *)
(* try_create and destroy run under mutex_ from beginning to end, so each is one *)
(* step.  A Handle belongs to one thread: what it does to its own two pointers   *)
(* commutes with every other thread and is part of the step.  pool_ and object_  *)
(* of a Handle are null together, so object_ stands for both.  The pointer to    *)
(* the object in slot i is i.                                                    *)
EXTENDS Integers, FiniteSets

CONSTANTS
    Capacity,
    Handles,         \* the Handle objects of the program
    NoObject,        \* nullptr
    ForeignPointer,  \* a pointer the pool did not hand out
    MaxCreates,      \* bound: try_create calls
    MaxInvalid       \* bound: invalid releases

Slots == 0 .. Capacity - 1
kNoSlot == Capacity

ASSUME CapacityAssumption == Capacity \in Nat \ {0}
ASSUME PointerAssumption ==
    NoObject \notin Slots /\ ForeignPointer \notin Slots /\ NoObject # ForeignPointer
ASSUME BoundAssumption == MaxCreates \in Nat /\ MaxInvalid \in Nat

VARIABLES
    next, occupied,   \* the members of each Slot
    free_head_, stats_,
    object_,          \* what each Handle owns
    raw,              \* pointers release() gave to a caller, not destroyed yet
    stale,            \* pointers a caller still has after destroying their object
    misused           \* history: a stale pointer was destroyed after its slot was reused

\* capacity is filled in by stats().
PoolStats == [in_use : Nat, high_watermark : Nat, successful_allocations : Nat,
              successful_releases : Nat, allocation_failures : Nat, invalid_releases : Nat]

poolVars == <<next, occupied, free_head_, stats_>>
vars == <<next, occupied, free_head_, stats_, object_, raw, stale, misused>>

Init ==
    /\ next = [i \in Slots |-> IF i = Capacity - 1 THEN kNoSlot ELSE i + 1]
    /\ occupied = [i \in Slots |-> FALSE]
    /\ free_head_ = 0
    /\ stats_ = [in_use |-> 0, high_watermark |-> 0, successful_allocations |-> 0,
                 successful_releases |-> 0, allocation_failures |-> 0, invalid_releases |-> 0]
    /\ object_ = [h \in Handles |-> NoObject]
    /\ raw = {}
    /\ stale = {}
    /\ misused = FALSE

---------------------------------------------------------------------------------

\* The linear search compares addresses: it finds a pointer into slots_, and not
\* nullptr or any other pointer.
find_slot(p) == IF p \in Slots THEN p ELSE kNoSlot

\* Faulty variant: the watermark is taken before ++in_use.
OccupyWatermarkFirst ==
    /\ free_head_' = next[free_head_]
    /\ next' = [next EXCEPT ![free_head_] = kNoSlot]
    /\ occupied' = [occupied EXCEPT ![free_head_] = TRUE]
    /\ stats_' = [stats_ EXCEPT
                    !.in_use = @ + 1,
                    !.successful_allocations = @ + 1,
                    !.high_watermark = IF stats_.in_use > @ THEN stats_.in_use ELSE @]

\* The construction in a free slot that try_create does once the object exists.
Occupy ==
    /\ free_head_' = next[free_head_]
    /\ next' = [next EXCEPT ![free_head_] = kNoSlot]
    /\ occupied' = [occupied EXCEPT ![free_head_] = TRUE]
    /\ stats_' = [stats_ EXCEPT
                    !.in_use = @ + 1,
                    !.successful_allocations = @ + 1,
                    !.high_watermark = IF stats_.in_use + 1 > @ THEN stats_.in_use + 1 ELSE @]

\* The three results of destroy.
Released(p) ==
    /\ find_slot(p) # kNoSlot
    /\ occupied[find_slot(p)]
    /\ occupied' = [occupied EXCEPT ![find_slot(p)] = FALSE]
    /\ next' = [next EXCEPT ![find_slot(p)] = free_head_]
    /\ free_head_' = find_slot(p)
    /\ stats_' = [stats_ EXCEPT !.in_use = @ - 1, !.successful_releases = @ + 1]

DoubleRelease(p) ==
    /\ find_slot(p) # kNoSlot
    /\ ~occupied[find_slot(p)]
    /\ stats_' = [stats_ EXCEPT !.invalid_releases = @ + 1]
    /\ UNCHANGED <<next, occupied, free_head_>>

ForeignRelease(p) ==
    /\ find_slot(p) = kNoSlot
    /\ stats_' = [stats_ EXCEPT !.invalid_releases = @ + 1]
    /\ UNCHANGED <<next, occupied, free_head_>>

destroy(p) == Released(p) \/ DoubleRelease(p) \/ ForeignRelease(p)

---------------------------------------------------------------------------------

CanCreate(h) ==
    /\ object_[h] = NoObject
    /\ stats_.successful_allocations + stats_.allocation_failures < MaxCreates

\* Faulty variant: the last free slot is taken for the end of the list.
TryCreateKeepsLast(h) ==
    /\ CanCreate(h)
    /\ \/ /\ free_head_ = kNoSlot \/ next[free_head_] = kNoSlot
          /\ stats_' = [stats_ EXCEPT !.allocation_failures = @ + 1]
          /\ UNCHANGED <<next, occupied, free_head_, object_>>
       \/ /\ free_head_ # kNoSlot /\ next[free_head_] # kNoSlot
          /\ object_' = [object_ EXCEPT ![h] = free_head_]
          /\ Occupy
    /\ UNCHANGED <<raw, stale, misused>>

TryCreate(h) ==
    /\ CanCreate(h)
    /\ \/ /\ free_head_ = kNoSlot
          /\ stats_' = [stats_ EXCEPT !.allocation_failures = @ + 1]
          /\ UNCHANGED <<next, occupied, free_head_, object_>>
       \/ /\ free_head_ # kNoSlot
          /\ object_' = [object_ EXCEPT ![h] = free_head_]
          /\ Occupy
    /\ UNCHANGED <<raw, stale, misused>>

\* Faulty variant: the slot is taken off the list before the object is constructed.
TryCreateThrowsLate(h) ==
    /\ CanCreate(h)
    /\ free_head_ # kNoSlot
    /\ free_head_' = next[free_head_]
    /\ UNCHANGED <<next, occupied, stats_, object_, raw, stale, misused>>

\* T's constructor throws out of construct_at, before any member is changed.
TryCreateThrows(h) ==
    /\ CanCreate(h)
    /\ free_head_ # kNoSlot
    /\ UNCHANGED vars

\* reset(), which is also all the destructor does.
Reset(h) ==
    /\ object_[h] # NoObject
    /\ object_' = [object_ EXCEPT ![h] = NoObject]
    /\ destroy(object_[h])
    /\ UNCHANGED <<raw, stale, misused>>

\* Faulty variant: the source keeps its pointer.
MoveKeepsSource(h, g) ==
    /\ h # g
    /\ object_[g] # NoObject
    /\ object_' = [object_ EXCEPT ![h] = object_[g]]
    /\ \/ object_[h] # NoObject /\ destroy(object_[h])
       \/ object_[h] = NoObject /\ UNCHANGED poolVars
    /\ UNCHANGED <<raw, stale, misused>>

\* Move construction and move assignment to h from g: h's own object goes first.
Move(h, g) ==
    /\ h # g
    /\ object_[g] # NoObject
    /\ object_' = [object_ EXCEPT ![h] = object_[g], ![g] = NoObject]
    /\ \/ object_[h] # NoObject /\ destroy(object_[h])
       \/ object_[h] = NoObject /\ UNCHANGED poolVars
    /\ UNCHANGED <<raw, stale, misused>>

Release(h) ==
    /\ object_[h] # NoObject
    /\ raw' = raw \cup {object_[h]}
    /\ object_' = [object_ EXCEPT ![h] = NoObject]
    /\ UNCHANGED <<poolVars, stale, misused>>

DestroyRaw(p) ==
    /\ destroy(p)
    /\ raw' = raw \ {p}
    /\ stale' = stale \cup {p}
    /\ UNCHANGED <<object_, misused>>

\* A caller's mistake: the same pointer again.
DestroyAgain(p) ==
    /\ stats_.invalid_releases < MaxInvalid
    /\ destroy(p)
    /\ misused' = (misused \/ occupied[p])
    /\ UNCHANGED <<object_, raw, stale>>

DestroyForeign(p) ==
    /\ stats_.invalid_releases < MaxInvalid
    /\ destroy(p)
    /\ UNCHANGED <<object_, raw, stale, misused>>

Next ==
    \/ \E h \in Handles : TryCreate(h) \/ TryCreateThrows(h) \/ Reset(h) \/ Release(h)
    \/ \E h, g \in Handles : Move(h, g)
    \/ \E p \in raw : DestroyRaw(p)
    \/ \E p \in stale : DestroyAgain(p)
    \/ \E p \in {NoObject, ForeignPointer} : DestroyForeign(p)

Spec == Init /\ [][Next]_vars

---------------------------------------------------------------------------------
(* Properties.                                                                   *)

\* chain lists the free list from free_head_ to its end.
IsFreeList(n, chain) ==
    /\ free_head_ = IF n = 0 THEN kNoSlot ELSE chain[1]
    /\ \A i \in 1 .. n : next[chain[i]] = IF i = n THEN kNoSlot ELSE chain[i + 1]
    /\ \A i, j \in 1 .. n : chain[i] = chain[j] => i = j
    /\ \A s \in Slots : ~occupied[s] <=> \E i \in 1 .. n : chain[i] = s

\* The free list has no cycle, ends in kNoSlot and links exactly the unoccupied
\* slots, whatever pointers destroy() is called with and in whatever order slots
\* come back: no slot is lost and none is handed out while it is in use.
FreeListExact ==
    \E n \in 0 .. Capacity : \E chain \in [1 .. n -> Slots] : IsFreeList(n, chain)

Occupied == {s \in Slots : occupied[s]}

\* stats(): the counters agree with the slots, so --in_use never wraps.
UsageCounted ==
    /\ stats_.in_use = Cardinality(Occupied)
    /\ stats_.successful_allocations = stats_.successful_releases + stats_.in_use
    /\ stats_.in_use <= stats_.high_watermark
    /\ stats_.high_watermark <= Capacity

Owned ==
    /\ \A h \in Handles : object_[h] # NoObject => occupied[object_[h]] /\ object_[h] \notin raw
    /\ \A h, g \in Handles : object_[h] = object_[g] /\ object_[h] # NoObject => h = g
    /\ \A s \in Slots : occupied[s] => s \in raw \/ \E h \in Handles : object_[h] = s
    /\ \A p \in raw : occupied[p]

\* Every occupied slot has one owner, a Handle or the caller of release(), and
\* every owner's slot is occupied: no object is leaked, shared or used after it is
\* destroyed, as long as nobody destroys a pointer again after its slot was reused.
\* (Then destroy() takes it for the new object's pointer and reports kReleased.)
ExclusiveOwnership == misused \/ Owned

Abstract == INSTANCE ObjectPool WITH live <- Occupied, failures <- stats_.allocation_failures

\* The free list implements a pool: try_create constructs in a slot that no live
\* object uses, and returns the empty handle only when there is none.
ImplementsPool == Abstract!Spec
=================================================================================
