-------------------------- MODULE FixedObjectPoolProofs --------------------------
(* Proofs about FixedObjectPool, for every capacity, every set of handles and any  *)
(* number of creations and of invalid releases.                                    *)
EXTENDS FixedObjectPool, FiniteSetTheorems, TLAPS

\* --in_use could leave Nat; that it does not is part of UsageCounted.
Counters == [in_use : Int, high_watermark : Int, successful_allocations : Int,
             successful_releases : Int, allocation_failures : Int, invalid_releases : Int]

PoolTypes ==
    /\ next \in [Slots -> 0 .. Capacity]
    /\ occupied \in [Slots -> BOOLEAN]
    /\ free_head_ \in 0 .. Capacity
    /\ stats_ \in Counters

OwnerTypes ==
    /\ object_ \in [Handles -> Slots \cup {NoObject}]
    /\ raw \subseteq Slots /\ stale \subseteq Slots
    /\ misused \in BOOLEAN

---------------------------------------------------------------------------------
(* What a step does to the pool's own members.                                     *)

Creates == free_head_ # kNoSlot /\ Occupy

Fails ==
    /\ free_head_ = kNoSlot
    /\ stats_' = [stats_ EXCEPT !.allocation_failures = @ + 1]
    /\ UNCHANGED <<next, occupied, free_head_>>

Refuses ==
    /\ stats_' = [stats_ EXCEPT !.invalid_releases = @ + 1]
    /\ UNCHANGED <<next, occupied, free_head_>>

PoolStep == Creates \/ Fails \/ Refuses \/ (\E p \in Slots : Released(p)) \/ UNCHANGED poolVars

\* destroy() of any pointer releases a slot of the pool or only counts the attempt.
LEMMA DestroyCases ==
  ASSUME NEW p, destroy(p)
  PROVE  PoolStep
  BY DEF destroy, Released, DoubleRelease, ForeignRelease, find_slot, kNoSlot, PoolStep, Refuses

\* The whole next-state relation, seen from the pool's members.
LEMMA StepCases == [Next]_vars => PoolStep
  <1> SUFFICES ASSUME [Next]_vars PROVE PoolStep
    OBVIOUS
  <1>1. CASE UNCHANGED vars
    BY <1>1 DEF vars, PoolStep, poolVars
  <1>2. ASSUME NEW h \in Handles, TryCreate(h) PROVE PoolStep
    BY <1>2 DEF TryCreate, PoolStep, Creates, Fails
  <1>3. ASSUME NEW h \in Handles, TryCreateThrows(h) \/ Release(h) PROVE PoolStep
    BY <1>3 DEF TryCreateThrows, Release, vars, PoolStep, poolVars
  <1>4. ASSUME NEW h \in Handles, Reset(h) PROVE PoolStep
    BY <1>4, DestroyCases DEF Reset
  <1>5. ASSUME NEW h \in Handles, NEW g \in Handles, Move(h, g) PROVE PoolStep
    BY <1>5, DestroyCases DEF Move, PoolStep
  <1>6. ASSUME NEW p, DestroyRaw(p) \/ DestroyAgain(p) \/ DestroyForeign(p) PROVE PoolStep
    BY <1>6, DestroyCases DEF DestroyRaw, DestroyAgain, DestroyForeign
  <1>7. QED
    BY <1>1, <1>2, <1>3, <1>4, <1>5, <1>6 DEF Next

\* The updates of stats_.
LEMMA CountersCreated ==
  ASSUME NEW c \in Counters, NEW top \in Int
  PROVE  [c EXCEPT !.in_use = @ + 1, !.successful_allocations = @ + 1,
                   !.high_watermark = top] \in Counters
  <1> DEFINE d == [c EXCEPT !.in_use = @ + 1]
             e == [d EXCEPT !.successful_allocations = @ + 1]
  <1>1. d \in Counters
    BY DEF Counters
  <1>2. e \in Counters
    <2> HIDE DEF d
    <2>1. QED BY <1>1 DEF Counters
  <1>3. [e EXCEPT !.high_watermark = top] \in Counters
    <2> HIDE DEF e
    <2>1. QED BY <1>2 DEF Counters
  <1>4. [c EXCEPT !.in_use = @ + 1, !.successful_allocations = @ + 1, !.high_watermark = top]
           = [e EXCEPT !.high_watermark = top]
    BY DEF Counters
  <1>5. QED BY <1>3, <1>4

LEMMA CountersReleased ==
  ASSUME NEW c \in Counters
  PROVE  [c EXCEPT !.in_use = @ - 1, !.successful_releases = @ + 1] \in Counters
  <1> DEFINE d == [c EXCEPT !.in_use = @ - 1]
  <1>1. d \in Counters
    BY DEF Counters
  <1>2. [d EXCEPT !.successful_releases = @ + 1] \in Counters
    <2> HIDE DEF d
    <2>1. QED BY <1>1 DEF Counters
  <1>3. [c EXCEPT !.in_use = @ - 1, !.successful_releases = @ + 1]
           = [d EXCEPT !.successful_releases = @ + 1]
    BY DEF Counters
  <1>4. QED BY <1>2, <1>3

LEMMA CountersFailed ==
  ASSUME NEW c \in Counters
  PROVE  /\ [c EXCEPT !.allocation_failures = @ + 1] \in Counters
         /\ [c EXCEPT !.invalid_releases = @ + 1] \in Counters
  BY DEF Counters

\* Types of the pool's members.
LEMMA PoolTypesStep == PoolTypes /\ PoolStep => PoolTypes'
  <1> SUFFICES ASSUME PoolTypes, PoolStep PROVE PoolTypes'
    OBVIOUS
  <1> USE CapacityAssumption DEF PoolTypes, Slots, kNoSlot
  <1>1. CASE Creates
    <2> DEFINE top == IF stats_.in_use + 1 > stats_.high_watermark
                      THEN stats_.in_use + 1 ELSE stats_.high_watermark
    <2>1. free_head_ \in Slots
      BY <1>1 DEF Creates
    <2>2. (next \in [Slots -> 0 .. Capacity])' /\ (free_head_ \in 0 .. Capacity)'
      BY <1>1, <2>1 DEF Creates, Occupy
    <2>3. (occupied \in [Slots -> BOOLEAN])'
      BY <1>1 DEF Creates, Occupy
    <2>4. top \in Int
      BY DEF Counters
    <2>5. stats_' = [stats_ EXCEPT !.in_use = @ + 1, !.successful_allocations = @ + 1,
                                   !.high_watermark = top]
      BY <1>1 DEF Creates, Occupy
    <2> HIDE DEF top
    <2>6. (stats_ \in Counters)'
      BY <2>4, <2>5, CountersCreated
    <2>7. QED BY <2>2, <2>3, <2>6
  <1>2. CASE Fails
    BY <1>2, CountersFailed DEF Fails
  <1>3. CASE Refuses
    BY <1>3, CountersFailed DEF Refuses
  <1>4. ASSUME NEW p \in Slots, Released(p) PROVE PoolTypes'
    <2>1. (next \in [Slots -> 0 .. Capacity])' /\ (free_head_ \in 0 .. Capacity)'
      BY <1>4 DEF Released, find_slot
    <2>2. (occupied \in [Slots -> BOOLEAN])'
      BY <1>4 DEF Released
    <2>3. (stats_ \in Counters)'
      BY <1>4, CountersReleased DEF Released
    <2>4. QED BY <2>1, <2>2, <2>3
  <1>5. CASE UNCHANGED poolVars
    BY <1>5 DEF poolVars
  <1>6. QED
    BY <1>1, <1>2, <1>3, <1>4, <1>5 DEF PoolStep

---------------------------------------------------------------------------------
(* The free list.                                                                  *)

\* What the rest of the pool needs of the list: its head is a free slot, and it is
\* empty only when no slot is free.
LEMMA HeadIsFree ==
  ASSUME FreeListExact, PoolTypes
  PROVE  /\ free_head_ # kNoSlot => free_head_ \in Slots /\ ~occupied[free_head_]
         /\ free_head_ = kNoSlot => \A s \in Slots : occupied[s]
  <1>1. PICK n \in 0 .. Capacity : \E chain \in [1 .. n -> Slots] : IsFreeList(n, chain)
    BY DEF FreeListExact
  <1>2. PICK chain \in [1 .. n -> Slots] : IsFreeList(n, chain)
    BY <1>1
  <1>3. CASE n = 0
    BY <1>2, <1>3, CapacityAssumption DEF IsFreeList, kNoSlot, Slots
  <1>4. CASE n # 0
    <2>1. 1 \in 1 .. n /\ free_head_ = chain[1] /\ chain[1] \in Slots
      BY <1>2, <1>4, CapacityAssumption DEF IsFreeList
    <2>2. ~occupied[free_head_]
      BY <1>2, <2>1 DEF IsFreeList
    <2>3. free_head_ # kNoSlot
      BY <2>1, CapacityAssumption DEF kNoSlot, Slots
    <2>4. QED BY <2>1, <2>2, <2>3
  <1>5. QED BY <1>3, <1>4

\* A list of slots that repeats none and misses one is shorter than the pool.
LEMMA RoomInList ==
  ASSUME NEW n \in Nat, NEW chain \in [1 .. n -> Slots], NEW p \in Slots,
         \A i, j \in 1 .. n : chain[i] = chain[j] => i = j,
         \A i \in 1 .. n : chain[i] # p
  PROVE  n + 1 <= Capacity
  <1>1. chain \in Injection(1 .. n, Slots \ {p})
    BY DEF Injection, IsInjective
  <1>2. IsFiniteSet(Slots) /\ Cardinality(Slots) = Capacity
    BY FS_Interval, CapacityAssumption DEF Slots
  <1>3. IsFiniteSet(Slots \ {p}) /\ Cardinality(Slots \ {p}) = Capacity - 1
    BY <1>2, FS_RemoveElement
  <1>4. Cardinality(1 .. n) <= Cardinality(Slots \ {p})
    BY <1>1, <1>3, FS_Injection
  <1>5. Cardinality(1 .. n) = n
    BY FS_Interval
  <1>6. QED BY <1>3, <1>4, <1>5, CapacityAssumption

\* Occupying the head leaves the rest of the list.
LEMMA ListAfterCreate ==
  ASSUME PoolTypes, FreeListExact, Creates
  PROVE  FreeListExact'
  <1> USE CapacityAssumption
  <1>1. PICK n \in 0 .. Capacity : \E chain \in [1 .. n -> Slots] : IsFreeList(n, chain)
    BY DEF FreeListExact
  <1>2. PICK chain \in [1 .. n -> Slots] : IsFreeList(n, chain)
    BY <1>1
  <1> DEFINE m == n - 1
             rest == [i \in 1 .. m |-> chain[i + 1]]
  <1>3. n # 0 /\ free_head_ = chain[1] /\ free_head_ \in Slots
    BY <1>2 DEF IsFreeList, Creates
  <1>4. m \in 0 .. Capacity /\ rest \in [1 .. m -> Slots]
    BY <1>3
  <1>5. \A i \in 1 .. m : rest[i] = chain[i + 1] /\ i + 1 \in 1 .. n /\ rest[i] # free_head_
    <2> SUFFICES ASSUME NEW i \in 1 .. m
                 PROVE  rest[i] = chain[i + 1] /\ i + 1 \in 1 .. n /\ rest[i] # free_head_
      OBVIOUS
    <2>1. rest[i] = chain[i + 1] /\ i + 1 \in 1 .. n /\ 1 \in 1 .. n /\ i + 1 # 1
      BY <1>3
    <2>2. QED BY <1>2, <1>3, <2>1 DEF IsFreeList
  <1>6. (free_head_ = IF m = 0 THEN kNoSlot ELSE rest[1])'
    <2>1. free_head_' = next[chain[1]] /\ 1 \in 1 .. n
      BY <1>3 DEF Creates, Occupy
    <2>2. next[chain[1]] = IF 1 = n THEN kNoSlot ELSE chain[2]
      BY <1>2, <2>1 DEF IsFreeList
    <2>3. m # 0 => rest[1] = chain[2]
      BY <1>3
    <2>4. QED BY <1>3, <2>1, <2>2, <2>3 DEF kNoSlot
  <1>7. \A i \in 1 .. m : next'[rest[i]] = IF i = m THEN kNoSlot ELSE rest[i + 1]
    <2> SUFFICES ASSUME NEW i \in 1 .. m
                 PROVE  next'[rest[i]] = IF i = m THEN kNoSlot ELSE rest[i + 1]
      OBVIOUS
    <2>1. next'[rest[i]] = next[chain[i + 1]]
      BY <1>4, <1>5 DEF Creates, Occupy, PoolTypes
    <2>2. next[chain[i + 1]] = IF i + 1 = n THEN kNoSlot ELSE chain[i + 1 + 1]
      BY <1>2, <1>5 DEF IsFreeList
    <2>3. i # m => rest[i + 1] = chain[i + 1 + 1]
      OBVIOUS
    <2>4. QED BY <2>1, <2>2, <2>3
  <1>8. \A i, j \in 1 .. m : rest[i] = rest[j] => i = j
    <2> SUFFICES ASSUME NEW i \in 1 .. m, NEW j \in 1 .. m, rest[i] = rest[j] PROVE i = j
      OBVIOUS
    <2>1. i + 1 = j + 1
      BY <1>2, <1>5 DEF IsFreeList
    <2>2. QED BY <2>1
  <1>9. \A s \in Slots : ~occupied'[s] <=> \E i \in 1 .. m : rest[i] = s
    <2> SUFFICES ASSUME NEW s \in Slots PROVE ~occupied'[s] <=> \E i \in 1 .. m : rest[i] = s
      OBVIOUS
    <2>1. CASE s = free_head_
      BY <1>5, <2>1 DEF Creates, Occupy, PoolTypes
    <2>2. CASE s # free_head_
      <3>1. occupied'[s] = occupied[s]
        BY <2>2 DEF Creates, Occupy, PoolTypes
      <3>2. ASSUME ~occupied[s] PROVE \E i \in 1 .. m : rest[i] = s
        <4>1. PICK k \in 1 .. n : chain[k] = s
          BY <1>2, <3>2 DEF IsFreeList
        <4>2. k # 1
          BY <1>3, <2>2, <4>1
        <4>3. k - 1 \in 1 .. m /\ rest[k - 1] = chain[k]
          BY <4>2
        <4>4. QED BY <4>1, <4>3
      <3>3. ASSUME NEW i \in 1 .. m, rest[i] = s PROVE ~occupied[s]
        BY <1>2, <1>5, <3>3 DEF IsFreeList
      <3>4. QED BY <3>1, <3>2, <3>3
    <2>3. QED BY <2>1, <2>2
  <1> HIDE DEF m, rest
  <1>10. IsFreeList(m, rest)'
    BY <1>6, <1>7, <1>8, <1>9 DEF IsFreeList
  <1>11. QED
    BY <1>4, <1>10 DEF FreeListExact

\* A released slot is put in front of the list.
LEMMA ListAfterRelease ==
  ASSUME PoolTypes, FreeListExact, NEW p \in Slots, Released(p)
  PROVE  FreeListExact'
  <1> USE CapacityAssumption
  <1>1. PICK n \in 0 .. Capacity : \E chain \in [1 .. n -> Slots] : IsFreeList(n, chain)
    BY DEF FreeListExact
  <1>2. PICK chain \in [1 .. n -> Slots] : IsFreeList(n, chain)
    BY <1>1
  <1> DEFINE m == n + 1
             longer == [i \in 1 .. m |-> IF i = 1 THEN p ELSE chain[i - 1]]
  <1>3. /\ occupied[p] /\ occupied' = [occupied EXCEPT ![p] = FALSE]
        /\ next' = [next EXCEPT ![p] = free_head_] /\ free_head_' = p
    BY DEF Released, find_slot
  <1>4. \A i \in 1 .. n : chain[i] # p /\ chain[i] \in Slots
    BY <1>2, <1>3 DEF IsFreeList
  <1>5. m \in 0 .. Capacity
    <2>1. \A i, j \in 1 .. n : chain[i] = chain[j] => i = j
      BY <1>2 DEF IsFreeList
    <2>2. n \in Nat
      OBVIOUS
    <2>3. n + 1 <= Capacity
      BY <1>4, <2>1, <2>2, RoomInList
    <2>4. QED BY <2>2, <2>3
  <1>6. /\ longer \in [1 .. m -> Slots] /\ 1 \in 1 .. m /\ longer[1] = p
        /\ \A i \in 2 .. m : longer[i] = chain[i - 1] /\ i - 1 \in 1 .. n /\ longer[i] # p
    BY <1>4
  <1>7. \A i \in 1 .. m : next'[longer[i]] = IF i = m THEN kNoSlot ELSE longer[i + 1]
    <2> SUFFICES ASSUME NEW i \in 1 .. m
                 PROVE  next'[longer[i]] = IF i = m THEN kNoSlot ELSE longer[i + 1]
      OBVIOUS
    <2>1. CASE i = 1
      <3>1. next'[longer[i]] = free_head_
        BY <1>3, <1>6, <2>1 DEF PoolTypes
      <3>2. n # 0 => longer[2] = chain[1]
        BY <1>6
      <3>3. free_head_ = IF n = 0 THEN kNoSlot ELSE chain[1]
        BY <1>2 DEF IsFreeList
      <3>4. QED BY <2>1, <3>1, <3>2, <3>3
    <2>2. CASE i # 1
      <3>1. i \in 2 .. m
        BY <2>2
      <3>2. next'[longer[i]] = next[chain[i - 1]]
        BY <1>3, <1>4, <1>6, <3>1 DEF PoolTypes
      <3>3. next[chain[i - 1]] = IF i - 1 = n THEN kNoSlot ELSE chain[i - 1 + 1]
        BY <1>2, <1>6, <3>1 DEF IsFreeList
      <3>4. i # m => longer[i + 1] = chain[i - 1 + 1]
        BY <3>1
      <3>5. QED BY <3>2, <3>3, <3>4
    <2>3. QED BY <2>1, <2>2
  <1>8. \A i, j \in 1 .. m : longer[i] = longer[j] => i = j
    <2> SUFFICES ASSUME NEW i \in 1 .. m, NEW j \in 1 .. m, longer[i] = longer[j] PROVE i = j
      OBVIOUS
    <2>1. CASE i = 1 \/ j = 1
      <3>1. (i = 1 \/ i \in 2 .. m) /\ (j = 1 \/ j \in 2 .. m)
        OBVIOUS
      <3>2. QED BY <1>6, <2>1, <3>1
    <2>2. CASE i # 1 /\ j # 1
      <3>1. i \in 2 .. m /\ j \in 2 .. m
        BY <2>2
      <3>2. i - 1 = j - 1
        BY <1>2, <1>6, <3>1 DEF IsFreeList
      <3>3. QED BY <3>2
    <2>3. QED BY <2>1, <2>2
  <1>9. \A s \in Slots : ~occupied'[s] <=> \E i \in 1 .. m : longer[i] = s
    <2> SUFFICES ASSUME NEW s \in Slots PROVE ~occupied'[s] <=> \E i \in 1 .. m : longer[i] = s
      OBVIOUS
    <2>1. CASE s = p
      BY <1>3, <1>6, <2>1 DEF PoolTypes
    <2>2. CASE s # p
      <3>1. occupied'[s] = occupied[s]
        BY <1>3, <2>2 DEF PoolTypes
      <3>2. ASSUME ~occupied[s] PROVE \E i \in 1 .. m : longer[i] = s
        <4>1. PICK k \in 1 .. n : chain[k] = s
          BY <1>2, <3>2 DEF IsFreeList
        <4>2. k + 1 \in 1 .. m /\ longer[k + 1] = chain[k]
          OBVIOUS
        <4>3. QED BY <4>1, <4>2
      <3>3. ASSUME NEW i \in 1 .. m, longer[i] = s PROVE ~occupied[s]
        <4>1. i \in 2 .. m
          BY <1>6, <2>2, <3>3
        <4>2. QED BY <1>2, <1>6, <3>3, <4>1 DEF IsFreeList
      <3>4. QED BY <3>1, <3>2, <3>3
    <2>3. QED BY <2>1, <2>2
  <1>10. m # 0
    OBVIOUS
  <1> HIDE DEF m, longer
  <1>11. IsFreeList(m, longer)'
    BY <1>3, <1>6, <1>7, <1>8, <1>9, <1>10 DEF IsFreeList
  <1>12. QED
    BY <1>5, <1>6, <1>11 DEF FreeListExact

\* The list is empty of used slots at the start: all slots, in order.
LEMMA ListInit == Init => PoolTypes /\ FreeListExact
  <1> SUFFICES ASSUME Init PROVE PoolTypes /\ FreeListExact
    OBVIOUS
  <1> USE CapacityAssumption DEF Init, Slots, kNoSlot
  <1>1. PoolTypes
    BY DEF PoolTypes, Counters
  <1> DEFINE chain == [i \in 1 .. Capacity |-> i - 1]
  <1>2. chain \in [1 .. Capacity -> Slots]
    OBVIOUS
  <1>3. \A s \in Slots : s + 1 \in 1 .. Capacity /\ chain[s + 1] = s
    OBVIOUS
  <1>4. IsFreeList(Capacity, chain)
    BY <1>3 DEF IsFreeList
  <1>5. Capacity \in 0 .. Capacity
    OBVIOUS
  <1> HIDE DEF chain, Init
  <1>6. QED
    BY <1>1, <1>2, <1>4, <1>5 DEF FreeListExact

LEMMA ListStep == PoolTypes /\ FreeListExact /\ PoolStep => FreeListExact'
  <1> SUFFICES ASSUME PoolTypes, FreeListExact, PoolStep PROVE FreeListExact'
    OBVIOUS
  <1>1. CASE UNCHANGED <<next, occupied, free_head_>>
    BY <1>1 DEF FreeListExact, IsFreeList
  <1>2. QED
    BY <1>1, ListAfterCreate, ListAfterRelease DEF PoolStep, Fails, Refuses, poolVars

LEMMA PoolInvariant == Spec => [](PoolTypes /\ FreeListExact)
  <1>1. PoolTypes /\ FreeListExact /\ [Next]_vars => (PoolTypes /\ FreeListExact)'
    BY StepCases, PoolTypesStep, ListStep
  <1>2. QED BY <1>1, ListInit, PTL DEF Spec

\* No slot is lost and none is handed out while it is in use: the list that try_create
\* and destroy() keep links exactly the free slots, once each, after any calls.
THEOREM FreeListCorrect == Spec => []FreeListExact
  BY PoolInvariant, PTL

---------------------------------------------------------------------------------
(* The statistics, and the pool that the free list implements.                     *)

LEMMA OccupiedFinite == IsFiniteSet(Occupied) /\ Cardinality(Occupied) \in 0 .. Capacity
  <1>1. IsFiniteSet(Slots) /\ Cardinality(Slots) = Capacity
    BY FS_Interval, CapacityAssumption DEF Slots
  <1>2. IsFiniteSet(Occupied) /\ Cardinality(Occupied) <= Capacity
    BY <1>1, FS_Subset DEF Occupied
  <1>3. QED BY <1>2, FS_CardinalityType, CapacityAssumption

\* One more slot is in use after a creation, and it was free before.
LEMMA OccupiedCreates ==
  ASSUME PoolTypes, FreeListExact, Creates
  PROVE  /\ free_head_ \in Slots \ Occupied
         /\ Occupied' = Occupied \cup {free_head_}
         /\ Cardinality(Occupied') = Cardinality(Occupied) + 1
         /\ Cardinality(Occupied') <= Capacity
  <1>1. free_head_ \in Slots \ Occupied
    BY HeadIsFree DEF Creates, Occupied
  <1>2. Occupied' = Occupied \cup {free_head_}
    BY <1>1 DEF Creates, Occupy, PoolTypes, Occupied
  <1>3. Cardinality(Occupied') = Cardinality(Occupied) + 1
    BY <1>1, <1>2, OccupiedFinite, FS_AddElement
  <1>4. IsFiniteSet(Slots) /\ Cardinality(Slots) = Capacity
    BY FS_Interval, CapacityAssumption DEF Slots
  <1>5. Occupied' \in SUBSET Slots
    BY DEF Occupied
  <1>6. Cardinality(Occupied') <= Capacity
    BY <1>4, <1>5, FS_Subset
  <1>7. QED BY <1>1, <1>2, <1>3, <1>6

\* One slot less is in use after a release.
LEMMA OccupiedReleases ==
  ASSUME PoolTypes, NEW p \in Slots, Released(p)
  PROVE  /\ p \in Occupied
         /\ Occupied' = Occupied \ {p}
         /\ Cardinality(Occupied') = Cardinality(Occupied) - 1
  <1>1. occupied[p] /\ occupied' = [occupied EXCEPT ![p] = FALSE]
    BY DEF Released, find_slot
  <1>2. p \in Occupied /\ Occupied' = Occupied \ {p}
    BY <1>1 DEF PoolTypes, Occupied
  <1>3. QED BY <1>2, OccupiedFinite, FS_RemoveElement

LEMMA UsageStep == PoolTypes /\ FreeListExact /\ UsageCounted /\ PoolStep => UsageCounted'
  <1> SUFFICES ASSUME PoolTypes, FreeListExact, UsageCounted, PoolStep PROVE UsageCounted'
    OBVIOUS
  <1>1. Cardinality(Occupied) \in 0 .. Capacity
    BY OccupiedFinite
  <1>2. CASE Creates
    <2>1. /\ stats_'.in_use = stats_.in_use + 1
          /\ stats_'.successful_allocations = stats_.successful_allocations + 1
          /\ stats_'.successful_releases = stats_.successful_releases
          /\ stats_'.high_watermark = IF stats_.in_use + 1 > stats_.high_watermark
                                     THEN stats_.in_use + 1 ELSE stats_.high_watermark
      BY <1>2 DEF Creates, Occupy, PoolTypes, Counters
    <2>2. /\ stats_.high_watermark \in Int /\ stats_.successful_releases \in Int
          /\ stats_.successful_allocations \in Int
      BY DEF PoolTypes, Counters
    <2>3. QED
      BY <1>1, <1>2, <2>1, <2>2, OccupiedCreates, CapacityAssumption DEF UsageCounted
  <1>3. ASSUME NEW p \in Slots, Released(p) PROVE UsageCounted'
    <2>1. /\ stats_'.in_use = stats_.in_use - 1
          /\ stats_'.successful_allocations = stats_.successful_allocations
          /\ stats_'.successful_releases = stats_.successful_releases + 1
          /\ stats_'.high_watermark = stats_.high_watermark
      BY <1>3 DEF Released, PoolTypes, Counters
    <2>2. /\ stats_.high_watermark \in Int /\ stats_.successful_releases \in Int
          /\ stats_.successful_allocations \in Int
      BY DEF PoolTypes, Counters
    <2>3. QED
      BY <1>1, <1>3, <2>1, <2>2, OccupiedReleases, CapacityAssumption DEF UsageCounted
  <1>4. CASE Fails \/ Refuses \/ UNCHANGED poolVars
    <2>1. /\ stats_'.in_use = stats_.in_use
          /\ stats_'.successful_allocations = stats_.successful_allocations
          /\ stats_'.successful_releases = stats_.successful_releases
          /\ stats_'.high_watermark = stats_.high_watermark
      BY <1>4 DEF Fails, Refuses, poolVars, PoolTypes, Counters
    <2>2. Occupied' = Occupied
      BY <1>4 DEF Fails, Refuses, poolVars, Occupied
    <2>3. QED BY <2>1, <2>2 DEF UsageCounted
  <1>5. QED BY <1>2, <1>3, <1>4 DEF PoolStep

\* in_use is the number of occupied slots, so that --in_use never wraps, and the high
\* watermark lies between it and the capacity.
THEOREM UsageCorrect == Spec => []UsageCounted
  <1>1. Init => UsageCounted
    <2> SUFFICES ASSUME Init PROVE UsageCounted
      OBVIOUS
    <2>1. Occupied = {}
      BY DEF Init, Occupied
    <2>2. Cardinality(Occupied) = 0
      BY <2>1, FS_EmptySet
    <2>3. QED BY <2>2, CapacityAssumption DEF Init, UsageCounted
  <1>2. PoolTypes /\ FreeListExact /\ UsageCounted /\ [Next]_vars => UsageCounted'
    BY StepCases, UsageStep
  <1>3. QED BY <1>1, <1>2, PoolInvariant, PTL DEF Spec

\* The free list implements a pool: an object is created in a slot that no live object
\* uses, and creation fails only when every slot is in use.
THEOREM PoolImplemented == Spec => ImplementsPool
  <1>1. Init => Abstract!Init
    BY DEF Init, Abstract!Init, Occupied
  <1>2. ASSUME PoolTypes, FreeListExact, [Next]_vars
        PROVE  [Abstract!Next]_(Abstract!objectPoolVars)
    <2>1. CASE Creates
      <3>1. stats_'.allocation_failures = stats_.allocation_failures
        BY <1>2, <2>1 DEF Creates, Occupy, PoolTypes, Counters
      <3>2. Abstract!Create(free_head_) /\ free_head_ \in Slots
        BY <1>2, <2>1, <3>1, OccupiedCreates DEF Abstract!Create
      <3>3. QED BY <3>2 DEF Abstract!Next
    <2>2. CASE Fails
      <3>1. stats_'.allocation_failures = stats_.allocation_failures + 1
        BY <1>2, <2>2 DEF Fails, PoolTypes, Counters
      <3>2. Occupied = Slots /\ Occupied' = Occupied
        BY <1>2, <2>2, HeadIsFree DEF Fails, Occupied
      <3>3. Abstract!Exhausted
        BY <3>1, <3>2 DEF Abstract!Exhausted
      <3>4. QED BY <3>3 DEF Abstract!Next
    <2>3. ASSUME NEW p \in Slots, Released(p) PROVE Abstract!Next
      <3>1. stats_'.allocation_failures = stats_.allocation_failures
        BY <1>2, <2>3 DEF Released, PoolTypes, Counters
      <3>2. Abstract!Destroy(p)
        BY <1>2, <2>3, <3>1, OccupiedReleases DEF Abstract!Destroy
      <3>3. QED BY <3>2 DEF Abstract!Next
    <2>4. CASE Refuses \/ UNCHANGED poolVars
      <3>1. stats_'.allocation_failures = stats_.allocation_failures
        BY <1>2, <2>4 DEF Refuses, poolVars, PoolTypes, Counters
      <3>2. Occupied' = Occupied
        BY <2>4 DEF Refuses, poolVars, Occupied
      <3>3. QED BY <3>1, <3>2 DEF Abstract!objectPoolVars
    <2>5. QED BY <1>2, <2>1, <2>2, <2>3, <2>4, StepCases DEF PoolStep
  <1>3. QED
    BY <1>1, <1>2, PoolInvariant, PTL DEF Spec, ImplementsPool, Abstract!Spec

---------------------------------------------------------------------------------
(* Ownership.                                                                      *)

\* What destroy() does to the occupied flags.
LEMMA DestroyOccupied ==
  ASSUME NEW p \in Slots, occupied[p], destroy(p)
  PROVE  occupied' = [occupied EXCEPT ![p] = FALSE]
  BY CapacityAssumption
     DEF destroy, Released, DoubleRelease, ForeignRelease, find_slot, Slots, kNoSlot

LEMMA DestroyOther ==
  ASSUME NEW p, p \notin Slots \/ ~occupied[p], destroy(p)
  PROVE  occupied' = occupied
  BY DEF destroy, Released, DoubleRelease, ForeignRelease, find_slot, kNoSlot

LEMMA OwnerTypesStep == PoolTypes /\ OwnerTypes /\ [Next]_vars => OwnerTypes'
  <1> SUFFICES ASSUME PoolTypes, OwnerTypes, [Next]_vars PROVE OwnerTypes'
    OBVIOUS
  <1> USE DEF OwnerTypes
  <1>1. CASE UNCHANGED vars
    BY <1>1 DEF vars
  <1>2. ASSUME NEW h \in Handles, TryCreate(h) PROVE OwnerTypes'
    <2>1. free_head_ # kNoSlot => free_head_ \in Slots
      BY CapacityAssumption DEF PoolTypes, kNoSlot, Slots
    <2>2. QED BY <1>2, <2>1 DEF TryCreate
  <1>3. ASSUME NEW h \in Handles, TryCreateThrows(h) PROVE OwnerTypes'
    BY <1>3 DEF TryCreateThrows, vars
  <1>4. ASSUME NEW h \in Handles, Reset(h) \/ Release(h) PROVE OwnerTypes'
    BY <1>4 DEF Reset, Release
  <1>5. ASSUME NEW h \in Handles, NEW g \in Handles, Move(h, g) PROVE OwnerTypes'
    BY <1>5 DEF Move
  <1>6. ASSUME NEW p \in raw, DestroyRaw(p) PROVE OwnerTypes'
    BY <1>6 DEF DestroyRaw
  <1>7. ASSUME NEW p \in stale, DestroyAgain(p) PROVE OwnerTypes'
    BY <1>7 DEF DestroyAgain
  <1>8. ASSUME NEW p, DestroyForeign(p) PROVE OwnerTypes'
    BY <1>8 DEF DestroyForeign
  <1>9. QED
    BY <1>1, <1>2, <1>3, <1>4, <1>5, <1>6, <1>7, <1>8 DEF Next

\* The steps of a Handle keep the owners apart.
LEMMA OwnedHandle ==
  ASSUME PoolTypes, OwnerTypes, FreeListExact, Owned,
         NEW h \in Handles, TryCreate(h) \/ TryCreateThrows(h) \/ Reset(h) \/ Release(h)
  PROVE  Owned'
  <1> USE PointerAssumption DEF PoolTypes, OwnerTypes, Owned
  <1>1. CASE TryCreate(h)
    <2>1. CASE free_head_ = kNoSlot
      BY <1>1, <2>1 DEF TryCreate
    <2>2. CASE free_head_ # kNoSlot
      <3>1. free_head_ \in Slots /\ ~occupied[free_head_]
        BY <2>2, HeadIsFree
      <3>2. /\ object_[h] = NoObject /\ object_' = [object_ EXCEPT ![h] = free_head_]
            /\ occupied' = [occupied EXCEPT ![free_head_] = TRUE] /\ raw' = raw
        BY <1>1, <2>2 DEF TryCreate, CanCreate, Occupy
      <3>3. QED BY <3>1, <3>2
    <2>3. QED BY <2>1, <2>2
  <1>2. CASE TryCreateThrows(h)
    BY <1>2 DEF TryCreateThrows, vars
  <1>3. CASE Reset(h)
    <2>1. object_[h] \in Slots /\ occupied[object_[h]]
      BY <1>3 DEF Reset
    <2>2. /\ object_' = [object_ EXCEPT ![h] = NoObject] /\ raw' = raw
          /\ occupied' = [occupied EXCEPT ![object_[h]] = FALSE]
      BY <1>3, <2>1, DestroyOccupied DEF Reset
    <2>3. QED BY <2>1, <2>2
  <1>4. CASE Release(h)
    <2>1. /\ object_[h] \in Slots /\ raw' = raw \cup {object_[h]}
          /\ object_' = [object_ EXCEPT ![h] = NoObject] /\ occupied' = occupied
      BY <1>4 DEF Release, poolVars
    <2>2. QED BY <2>1
  <1>5. QED BY <1>1, <1>2, <1>3, <1>4

\* So does a move, to an empty Handle or to one that gives up its object first.
LEMMA OwnedMove ==
  ASSUME PoolTypes, OwnerTypes, Owned, NEW h \in Handles, NEW g \in Handles, Move(h, g)
  PROVE  Owned'
  <1> USE PointerAssumption DEF PoolTypes, OwnerTypes, Owned
  <1>1. /\ h # g /\ object_[g] \in Slots /\ raw' = raw
        /\ object_' = [object_ EXCEPT ![h] = object_[g], ![g] = NoObject]
    BY DEF Move
  <1>2. CASE object_[h] = NoObject
    <2>1. occupied' = occupied
      BY <1>2 DEF Move, poolVars
    <2>2. QED BY <1>1, <1>2, <2>1
  <1>3. CASE object_[h] # NoObject
    <2>1. object_[h] \in Slots /\ occupied[object_[h]] /\ object_[h] # object_[g]
      BY <1>1, <1>3
    <2>2. occupied' = [occupied EXCEPT ![object_[h]] = FALSE]
      BY <1>3, <2>1, DestroyOccupied DEF Move
    <2>3. QED BY <1>1, <2>1, <2>2
  <1>4. QED BY <1>2, <1>3

\* A pointer from release() is destroyed once; a stale one whose slot is free, nullptr
\* and a foreign pointer change no owner.
LEMMA OwnedDestroy ==
  ASSUME PoolTypes, OwnerTypes, Owned, ~misused',
         \/ \E p \in raw : DestroyRaw(p)
         \/ \E p \in stale : DestroyAgain(p)
         \/ \E p \in {NoObject, ForeignPointer} : DestroyForeign(p)
  PROVE  Owned'
  <1> USE PointerAssumption DEF PoolTypes, OwnerTypes, Owned
  <1>1. ASSUME NEW p \in raw, DestroyRaw(p) PROVE Owned'
    <2>1. p \in Slots /\ occupied[p]
      OBVIOUS
    <2>2. /\ occupied' = [occupied EXCEPT ![p] = FALSE]
          /\ raw' = raw \ {p} /\ object_' = object_
      BY <1>1, <2>1, DestroyOccupied DEF DestroyRaw
    <2>3. QED BY <2>1, <2>2
  <1>2. ASSUME NEW p \in stale, DestroyAgain(p) PROVE Owned'
    <2>1. ~occupied[p]
      BY <1>2 DEF DestroyAgain
    <2>2. occupied' = occupied /\ raw' = raw /\ object_' = object_
      BY <1>2, <2>1, DestroyOther DEF DestroyAgain
    <2>3. QED BY <2>2
  <1>3. ASSUME NEW p \in {NoObject, ForeignPointer}, DestroyForeign(p) PROVE Owned'
    <2>1. occupied' = occupied /\ raw' = raw /\ object_' = object_
      BY <1>3, DestroyOther DEF DestroyForeign
    <2>2. QED BY <2>1
  <1>4. QED BY <1>1, <1>2, <1>3

\* misused is never taken back.
LEMMA MisusedStays == [Next]_vars /\ misused => misused'
  BY DEF Next, vars, TryCreate, TryCreateThrows, Reset, Release, Move, DestroyRaw, DestroyAgain,
         DestroyForeign

\* Until a caller destroys a pointer again after its slot was reused, every occupied slot
\* has exactly one owner and every owner's slot is occupied.
THEOREM OwnershipCorrect == Spec => []ExclusiveOwnership
  <1>1. Init => OwnerTypes /\ ExclusiveOwnership
    BY DEF Init, OwnerTypes, ExclusiveOwnership, Owned
  <1>2. ASSUME PoolTypes, FreeListExact, OwnerTypes, ExclusiveOwnership, [Next]_vars
        PROVE  ExclusiveOwnership'
    <2>1. CASE misused'
      BY <2>1 DEF ExclusiveOwnership
    <2>2. CASE ~misused'
      <3>1. Owned
        BY <1>2, <2>2, MisusedStays DEF ExclusiveOwnership
      <3>2. CASE UNCHANGED vars
        BY <3>1, <3>2 DEF vars, Owned, ExclusiveOwnership
      <3>3. CASE Next
        BY <1>2, <2>2, <3>1, <3>3, OwnedHandle, OwnedMove, OwnedDestroy
           DEF Next, ExclusiveOwnership
      <3>4. QED BY <1>2, <3>2, <3>3
    <2>3. QED BY <2>1, <2>2
  <1>3. PoolTypes /\ FreeListExact /\ OwnerTypes /\ ExclusiveOwnership /\ [Next]_vars
          => (OwnerTypes /\ ExclusiveOwnership)'
    BY <1>2, OwnerTypesStep
  <1>4. QED BY <1>1, <1>3, PoolInvariant, PTL DEF Spec
=================================================================================
