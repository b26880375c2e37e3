------------------------------- MODULE Permits -------------------------------
(* What a named semaphore of the command-runtime API promises to the scripts    *)
(* of a deploy (src/jobcommand/runtime_semaphore.go): a section with a number   *)
(* of permits fixed by whoever comes first, which allocations enter one at a    *)
(* time and leave only by themselves, each on leaving letting others in.        *)
EXTENDS Naturals, FiniteSets

CONSTANTS Allocs,        \* allocation ids
          MaxCapacity    \* maxSemaphoreCapacity

VARIABLES permits,   \* 0 until the section exists
          inside     \* the allocations in it

vars == <<permits, inside>>

Init == permits = 0 /\ inside = {}

Open(a) ==
    /\ permits = 0
    /\ permits' \in 1..MaxCapacity
    /\ inside' = {a}

Enter(a) ==
    /\ Cardinality(inside) < permits
    /\ inside' = inside \cup {a}
    /\ UNCHANGED permits

Leave(a) ==
    /\ a \in inside
    /\ inside' \in SUBSET Allocs
    /\ inside \ {a} \subseteq inside'
    /\ Cardinality(inside') <= permits
    /\ UNCHANGED permits

Next == \E a \in Allocs : Open(a) \/ Enter(a) \/ Leave(a)

Spec == Init /\ [][Next]_vars
=============================================================================
