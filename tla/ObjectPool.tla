------------------------------- MODULE ObjectPool -------------------------------
(* What a fixed pool promises: an object is created in a slot no live object     *)
(* uses, creation fails only when every slot is in use, and a destroyed object's *)
(* slot is free again.  Which free slot is taken is left open.  FixedObjectPool  *)
(* implements this specification with its free list.                             *)
EXTENDS Naturals

CONSTANT Slots

VARIABLES
    live,      \* the slots that hold an object
    failures   \* creations refused

objectPoolVars == <<live, failures>>

Init == live = {} /\ failures = 0

Create(s) ==
    /\ s \in Slots \ live
    /\ live' = live \cup {s}
    /\ UNCHANGED failures

Exhausted ==
    /\ live = Slots
    /\ failures' = failures + 1
    /\ UNCHANGED live

Destroy(s) ==
    /\ s \in live
    /\ live' = live \ {s}
    /\ UNCHANGED failures

Next == Exhausted \/ \E s \in Slots : Create(s) \/ Destroy(s)

Spec == Init /\ [][Next]_objectPoolVars
=================================================================================
