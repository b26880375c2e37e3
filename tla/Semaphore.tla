------------------------------ MODULE Semaphore ------------------------------
(* The semaphoreCoordinator of the command-runtime API                        *)
(* (src/jobcommand/runtime_semaphore.go), for one scope key: scopes share      *)
(* nothing but the coordinator's mutex, and every action below is one critical *)
(* section of that mutex or one select of a request goroutine.                 *)
(*                                                                            *)
(* A request is one goroutine serving POST /semaphore/acquire for a script;    *)
(* the script releases what it acquired and may then ask again.  The permit    *)
(* belongs to the ALLOCATION of the script, not to the request, so two         *)
(* requests of one allocation share a permit.                                  *)
EXTENDS Naturals, Sequences, FiniteSets

CONSTANTS Requests,      \* acquire goroutines (one script thread each)
          Allocs,        \* allocation ids
          AllocOf,       \* [Requests -> Allocs], resolved from X-ALLOCATION-ID
          Capacities,    \* the "capacity" fields scripts send
          MaxCapacity,   \* maxSemaphoreCapacity (64)
          MayTimeout     \* the requests whose deadline may pass

ASSUME SemaphoreAssumption ==
    /\ AllocOf \in [Requests -> Allocs]
    /\ IsFiniteSet(Allocs)
    /\ Capacities \subseteq Nat
    /\ MaxCapacity \in Nat \ {0}
    /\ MayTimeout \subseteq Requests

VARIABLES capacity,   \* sem.capacity; 0 while c.semaphores[scopeKey] is nil
          holders,    \* sem.holders
          waiters,    \* sem.waiters, by the request whose notify channel it is
          notified,   \* requests whose notify channel is closed
          pc          \* where each request is

vars == <<capacity, holders, waiters, notified, pc>>

Init ==
    /\ capacity = 0
    /\ holders = {}
    /\ waiters = <<>>
    /\ notified = {}
    /\ pc = [r \in Requests |-> "idle"]

-----------------------------------------------------------------------------
(* acquire: a capacity below 1 means defaultSemaphoreCapacity. *)
Normalized(c) == IF c < 1 THEN 1 ELSE c

Waiting == {waiters[i] : i \in 1..Len(waiters)}

(* Slip: the comparison of registerWait and of the grant loop off by one. *)
HasRoomOffByOne(h, cap) == Cardinality(h) <= cap

(* A permit is free: registerWait takes it, the grant loop hands it on. *)
HasRoom(h, cap) == Cardinality(h) < cap

(* Slip: no upper bound on the capacity a script asks for. *)
AcceptsAnyCapacity(want, cap) == want = cap

(* A capacity above the maximum, or other than the one the semaphore was
   created with, answers 409 and changes nothing. *)
Accepts(want, cap) == want <= MaxCapacity /\ want = cap

(* acquire up to the select. *)
RegisterWait(r) ==
    /\ pc[r] = "idle"
    /\ \E c \in Capacities :
         LET want == Normalized(c)
             cap  == IF capacity = 0 THEN want ELSE capacity
         IN  /\ Accepts(want, cap)
             /\ capacity' = cap
             /\ IF AllocOf[r] \in holders \/ HasRoom(holders, cap)
                THEN /\ holders' = holders \cup {AllocOf[r]}
                     /\ pc' = [pc EXCEPT ![r] = "held"]
                     /\ UNCHANGED waiters
                ELSE /\ waiters' = Append(waiters, r)
                     /\ pc' = [pc EXCEPT ![r] = "waiting"]
                     /\ UNCHANGED holders
    /\ UNCHANGED notified

(* The select of acquire finds its channel closed: 200, acquired. *)
SelectNotify(r) ==
    /\ pc[r] = "waiting"
    /\ r \in notified
    /\ pc' = [pc EXCEPT ![r] = "held"]
    /\ notified' = notified \ {r}
    /\ UNCHANGED <<capacity, holders, waiters>>

(* The select takes ctx.Done: the deadline passed or the client went away.  It
   may do so although the channel is closed as well, for select picks any ready
   case; cancelWait has still to get the mutex. *)
SelectDone(r) ==
    /\ r \in MayTimeout
    /\ pc[r] = "waiting"
    /\ pc' = [pc EXCEPT ![r] = "cancelling"]
    /\ UNCHANGED <<capacity, holders, waiters, notified>>

Without(s, i) == [j \in 1..(Len(s) - 1) |-> IF j < i THEN s[j] ELSE s[j + 1]]

(* Slip: a cancelled waiter stays in the queue. *)
CancelWaitKeepsWaiter(r) ==
    /\ pc[r] = "cancelling"
    /\ notified' = notified \ {r}
    /\ pc' = [pc EXCEPT ![r] = "idle"]
    /\ UNCHANGED <<capacity, holders, waiters>>

(* cancelWait removes the request's waiter if it is still queued; the request
   answers 408 and its script, told that it has no permit, releases nothing. *)
CancelWait(r) ==
    /\ pc[r] = "cancelling"
    /\ \/ \E i \in 1..Len(waiters) : /\ waiters[i] = r
                                     /\ waiters' = Without(waiters, i)
       \/ r \notin Waiting /\ UNCHANGED waiters
    /\ notified' = notified \ {r}
    /\ pc' = [pc EXCEPT ![r] = "idle"]
    /\ UNCHANGED <<capacity, holders>>

(* The allocations that hold after the first k waiters were granted. *)
Granted(h, k) == h \cup {AllocOf[waiters[i]] : i \in 1..k}

(* Slip: the newest waiter is served first. *)
GrantFromTail(h) ==
    \/ /\ waiters = <<>>
       /\ holders' = h
       /\ UNCHANGED <<notified, waiters>>
    \/ /\ waiters # <<>>
       /\ holders' = h \cup {AllocOf[waiters[Len(waiters)]]}
       /\ notified' = notified \cup {waiters[Len(waiters)]}
       /\ waiters' = SubSeq(waiters, 1, Len(waiters) - 1)

(* Slip: the permit is freed and nobody is told. *)
GrantNobody(h) == holders' = h /\ UNCHANGED <<notified, waiters>>

(* Slip: waiters are woken before the permit is recorded as theirs. *)
GrantUnrecorded(h) ==
    /\ holders' = h
    /\ notified' = notified \cup Waiting
    /\ waiters' = <<>>

(* grantNextWaiterLocked, started with holder set h: it pops waiters from the
   head while there is room, hence exactly k of them. *)
GrantNextWaiters(h) ==
    \E k \in 0..Len(waiters) :
        /\ \A i \in 0..(k - 1) : HasRoom(Granted(h, i), capacity)
        /\ k = Len(waiters) \/ ~HasRoom(Granted(h, k), capacity)
        /\ holders' = Granted(h, k)
        /\ notified' = notified \cup {waiters[i] : i \in 1..k}
        /\ waiters' = SubSeq(waiters, k + 1, Len(waiters))

(* release, called by a script that was told it holds the semaphore.  When a
   sibling request of the allocation has released it already, release answers
   409 and changes nothing. *)
Release(r) ==
    /\ pc[r] = "held"
    /\ pc' = [pc EXCEPT ![r] = "idle"]
    /\ IF AllocOf[r] \in holders
       THEN GrantNextWaiters(holders \ {AllocOf[r]})
       ELSE UNCHANGED <<holders, notified, waiters>>
    /\ UNCHANGED capacity

Next == \E r \in Requests :
            \/ RegisterWait(r)
            \/ SelectNotify(r)
            \/ SelectDone(r)
            \/ CancelWait(r)
            \/ Release(r)

(* Every goroutine that can go on does, and scripts finish what they started;
   nothing makes a script ask for the semaphore or a deadline pass. *)
Fairness == \A r \in Requests :
                /\ WF_vars(SelectNotify(r))
                /\ WF_vars(CancelWait(r))
                /\ WF_vars(Release(r))

Spec == Init /\ [][Next]_vars

FairSpec == Spec /\ Fairness

-----------------------------------------------------------------------------
(* Every variable has its type. *)
TypeOK ==
    /\ capacity \in 0..MaxCapacity
    /\ holders \subseteq Allocs
    /\ waiters \in Seq(Requests)
    /\ notified \subseteq Requests
    /\ pc \in [Requests -> {"idle", "waiting", "cancelling", "held"}]

(* No more allocations hold the semaphore than it has permits, although release
   hands permits to waiters in a loop and registerWait takes them directly
   (runtime_semaphore.go:91 and 142). *)
CapacityRespected == Cardinality(holders) <= capacity

(* No permit lies idle while a request queues: whoever frees a permit passes it
   on in the same critical section, so registerWait's fast path can never
   overtake a waiter (runtime_semaphore.go:91, 137). *)
NoIdlePermit == waiters # <<>> => Cardinality(holders) >= capacity

(* A request whose channel is closed is not queued any more, a queued one is
   still before the end of its acquire, and no request queues twice: cancelWait
   and the grant loop never disagree about a waiter (runtime_semaphore.go:115,
   143-146). *)
QueueConsistent ==
    /\ Waiting \cap notified = {}
    /\ \A r \in Waiting \cup notified : pc[r] \in {"waiting", "cancelling"}
    /\ \A r \in Requests : pc[r] = "waiting" => r \in Waiting \cup notified
    /\ \A i, j \in 1..Len(waiters) : waiters[i] = waiters[j] => i = j

(* A script that was told it has a permit, or is about to be, keeps it until it
   releases it; with CapacityRespected, at most that many allocations are
   inside the section the semaphore guards, which is what "only one allocation
   runs DDL at a time" needs (runtime_semaphore.go:88-94, 136, 145).  Two
   threads of one allocation share its permit, so r is taken to be the only
   request of its allocation. *)
HeldMeansHolder ==
    \A r \in Requests :
        /\ \A q \in Requests : AllocOf[q] = AllocOf[r] => q = r
        /\ pc[r] = "held" \/ r \in notified
        => AllocOf[r] \in holders

(* Requests leave the queue in the order in which they joined it, unless they
   give up: whoever is granted in a step stood before all who stay queued
   (runtime_semaphore.go:143). *)
GrantedFromHead ==
    \A i, j \in 1..Len(waiters) :
        waiters[j] \in notified' /\ i < j => waiters[i] \in notified'

GrantsInOrder == [][GrantedFromHead]_vars

(* A permit whose every request has gone without it: the deadline of the request
   passed after it was granted and before its script could be told. *)
Leaked ==
    \E a \in holders : \A r \in Requests :
        AllocOf[r] = a => pc[r] # "held" /\ r \notin notified

(* As long as no permit leaks that way, every queued request is served or gives
   up by itself: scripts that release what they hold starve nobody, whatever
   deadlines pass around them (runtime_semaphore.go:137). *)
EveryWaiterServed ==
    \A r \in Requests : pc[r] = "waiting" ~> (pc[r] # "waiting" \/ Leaked)

(* The coordinator, its queue, its channels and its goroutines are a section with
   permits: the capacity never changes once set, no allocation loses its permit
   but by a release of its own, and no step lets in more than fit. *)
Abstract == INSTANCE Permits WITH permits <- capacity, inside <- holders

RefinesPermits == Abstract!Spec
=============================================================================
