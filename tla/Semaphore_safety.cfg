CONSTANTS
    r1 = r1  r2 = r2  r3 = r3  r4 = r4
    a = a  b = b  c = c
    Requests = {r1, r2, r3, r4}
    Allocs = {a, b, c}
    AllocOf <- MCAllocOf
    Capacities = {0, 1, 2, 3}
    MaxCapacity = 2
    MayTimeout = {r1, r2, r3, r4}
SPECIFICATION FairSpec
INVARIANTS NoIdlePermit QueueConsistent HeldMeansHolder
PROPERTIES GrantsInOrder RefinesPermits EveryWaiterServed
