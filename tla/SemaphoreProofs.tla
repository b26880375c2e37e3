--------------------------- MODULE SemaphoreProofs ---------------------------
(* Proofs about Semaphore for every set of requests, every assignment of       *)
(* allocations and every capacity.                                             *)
EXTENDS Semaphore, FiniteSetTheorems, TLAPS

(* A set of holders has a natural cardinality, and one more holder adds at most
   one to it. *)
LEMMA AddHolder ==
    ASSUME NEW h \in SUBSET Allocs, NEW x \in Allocs
    PROVE  /\ IsFiniteSet(h)
           /\ Cardinality(h) \in Nat
           /\ Cardinality(h \cup {x}) \in Nat
           /\ Cardinality(h \cup {x}) <= Cardinality(h) + 1
<1>1. IsFiniteSet(h)
  BY SemaphoreAssumption, FS_Subset
<1>2. Cardinality(h) \in Nat
  BY <1>1, FS_CardinalityType
<1>3. Cardinality(h \cup {x}) = IF x \in h THEN Cardinality(h) ELSE Cardinality(h) + 1
  BY <1>1, FS_AddElement
<1> QED
  BY <1>1, <1>2, <1>3

(* One holder fewer: the cardinality drops by at most one, as release does. *)
LEMMA RemoveHolder ==
    ASSUME NEW h \in SUBSET Allocs, NEW x \in h
    PROVE  /\ Cardinality(h) \in Nat
           /\ Cardinality(h \ {x}) \in Nat
           /\ Cardinality(h \ {x}) = Cardinality(h) - 1
<1>1. IsFiniteSet(h)
  BY SemaphoreAssumption, FS_Subset
<1>2. Cardinality(h) \in Nat
  BY <1>1, FS_CardinalityType
<1>3. Cardinality(h \ {x}) = Cardinality(h) - 1
  BY <1>1, FS_RemoveElement
<1>4. IsFiniteSet(h \ {x})
  BY <1>1, FS_Subset
<1>5. Cardinality(h \ {x}) \in Nat
  BY <1>4, FS_CardinalityType
<1> QED
  BY <1>2, <1>3, <1>5

(* What cancelWait leaves of the queue: the other requests, in their order. *)
LEMMA WithoutProperties ==
    ASSUME NEW s \in Seq(Requests), NEW i \in 1..Len(s)
    PROVE  /\ Without(s, i) \in Seq(Requests)
           /\ Len(Without(s, i)) = Len(s) - 1
           /\ \A j \in 1..(Len(s) - 1) :
                 Without(s, i)[j] = IF j < i THEN s[j] ELSE s[j + 1]
  BY DEF Without

(* Cancelling removes the request from the queue and nobody else, and keeps the
   queue free of duplicates. *)
LEMMA CancelQueue ==
    ASSUME NEW s \in Seq(Requests), NEW i \in 1..Len(s),
           \A j, k \in 1..Len(s) : s[j] = s[k] => j = k,
           NEW t, t = Without(s, i)
    PROVE  /\ \A j \in 1..Len(t) : \E k \in 1..Len(s) : t[j] = s[k] /\ k # i
           /\ \A k \in 1..Len(s) : k # i => \E j \in 1..Len(t) : t[j] = s[k]
           /\ \A j, k \in 1..Len(t) : t[j] = t[k] => j = k
<1>0. Len(s) \in Nat
  OBVIOUS
<1>1. /\ Len(t) = Len(s) - 1
      /\ \A j \in 1..(Len(s) - 1) : t[j] = IF j < i THEN s[j] ELSE s[j + 1]
  BY WithoutProperties
<1>2. ASSUME NEW j \in 1..Len(t)
      PROVE  \E k \in 1..Len(s) : t[j] = s[k] /\ k # i
  <2>1. CASE j < i
    BY <2>1, <1>0, <1>1
  <2>2. CASE ~(j < i)
    <3>1. j + 1 \in 1..Len(s) /\ j + 1 # i /\ t[j] = s[j + 1]
      BY <2>2, <1>0, <1>1
    <3> QED
      BY <3>1
  <2> QED
    BY <2>1, <2>2
<1>3. ASSUME NEW k \in 1..Len(s), k # i
      PROVE  \E j \in 1..Len(t) : t[j] = s[k]
  <2>1. CASE k < i
    <3>1. k \in 1..Len(t) /\ t[k] = s[k]
      BY <2>1, <1>0, <1>1
    <3> QED
      BY <3>1
  <2>2. CASE ~(k < i)
    <3>1. k - 1 \in 1..Len(t) /\ t[k - 1] = s[k]
      BY <2>2, <1>0, <1>1, <1>3
    <3> QED
      BY <3>1
  <2> QED
    BY <2>1, <2>2
<1>4. ASSUME NEW j \in 1..Len(t), NEW k \in 1..Len(t), t[j] = t[k]
      PROVE  j = k
  <2>1. /\ t[j] = IF j < i THEN s[j] ELSE s[j + 1]
        /\ t[k] = IF k < i THEN s[k] ELSE s[k + 1]
    BY <1>0, <1>1
  <2>2. j \in 1..Len(s) /\ j + 1 \in 1..Len(s) /\ k \in 1..Len(s) /\ k + 1 \in 1..Len(s)
    BY <1>0, <1>1
  <2> QED
    BY <2>1, <2>2, <1>4
<1> QED
  BY <1>2, <1>3, <1>4

-----------------------------------------------------------------------------
(* The inductive invariant: CapacityRespected and NoIdlePermit hold each other
   up (a permit freed while requests queue must be handed on exactly once), and
   HeldMeansHolder needs QueueConsistent, for a request is notified only once
   its allocation holds. *)
IInv == /\ TypeOK
        /\ CapacityRespected
        /\ NoIdlePermit
        /\ QueueConsistent
        /\ HeldMeansHolder
        /\ capacity = 0 => waiters = <<>>

(* The coordinator starts without semaphores, which satisfies the invariant. *)
LEMMA InitIInv == Init => IInv
<1> SUFFICES ASSUME Init PROVE IInv
  OBVIOUS
<1>1. Cardinality({}) = 0
  BY FS_EmptySet
<1>2. TypeOK
  BY SemaphoreAssumption DEF Init, TypeOK
<1>3. CapacityRespected /\ NoIdlePermit
  BY <1>1 DEF Init, CapacityRespected, NoIdlePermit
<1>4. QueueConsistent /\ HeldMeansHolder
  BY DEF Init, QueueConsistent, HeldMeansHolder, Waiting
<1> QED
  BY <1>2, <1>3, <1>4 DEF IInv, Init

(* registerWait: refused, granted at once, or queued behind the others. *)
LEMMA RegisterWaitIInv ==
    ASSUME IInv, NEW r \in Requests, RegisterWait(r)
    PROVE  IInv'
<1> USE DEF IInv
<1>1. PICK c \in Capacities :
         LET want == Normalized(c)
             cap  == IF capacity = 0 THEN want ELSE capacity
         IN  /\ Accepts(want, cap)
             /\ capacity' = cap
             /\ IF AllocOf[r] \in holders \/ HasRoom(holders, cap)
                THEN /\ holders' = holders \cup {AllocOf[r]}
                     /\ pc' = [pc EXCEPT ![r] = "held"]
                     /\ UNCHANGED waiters
                ELSE /\ waiters' = Append(waiters, r)
                     /\ pc' = [pc EXCEPT ![r] = "waiting"]
                     /\ UNCHANGED holders
  BY DEF RegisterWait
<1>2. c \in Nat /\ AllocOf[r] \in Allocs /\ pc[r] = "idle" /\ notified' = notified
  BY SemaphoreAssumption DEF RegisterWait
<1>3. /\ capacity' \in 1..MaxCapacity
      /\ capacity # 0 => capacity' = capacity
  BY <1>1, <1>2, SemaphoreAssumption DEF Normalized, Accepts, TypeOK
<1>4. /\ Cardinality(holders) \in Nat
      /\ Cardinality(holders \cup {AllocOf[r]}) \in Nat
      /\ Cardinality(holders \cup {AllocOf[r]}) <= Cardinality(holders) + 1
  BY <1>2, AddHolder DEF TypeOK
<1>5. Cardinality(holders) <= capacity'
  BY <1>3, <1>4 DEF CapacityRespected, TypeOK
<1>6. capacity = 0 => waiters = <<>>
  OBVIOUS
<1>7. CASE AllocOf[r] \in holders \/ HasRoom(holders, capacity')
  <2>1. /\ holders' = holders \cup {AllocOf[r]}
        /\ pc' = [pc EXCEPT ![r] = "held"]
        /\ waiters' = waiters
    BY <1>1, <1>7
  <2>2. TypeOK'
    BY <1>2, <1>3, <2>1 DEF TypeOK
  <2>3. AllocOf[r] \in holders => holders' = holders
    BY <2>1
  <2>4. CapacityRespected'
    <3>1. CASE AllocOf[r] \in holders
      BY <3>1, <1>5, <2>3 DEF CapacityRespected
    <3>2. CASE HasRoom(holders, capacity')
      <4>1. Cardinality(holders) < capacity'
        BY <3>2 DEF HasRoom
      <4>2. Cardinality(holders \cup {AllocOf[r]}) <= capacity'
        BY <4>1, <1>3, <1>4
      <4> QED
        BY <4>2, <2>1 DEF CapacityRespected
    <3> QED
      BY <3>1, <3>2, <1>7
  <2>5. Cardinality(holders') >= Cardinality(holders)
    <3>1. IsFiniteSet(holders) /\ IsFiniteSet(holders')
      BY <2>2, AddHolder, <1>2 DEF TypeOK
    <3> QED
      BY <3>1, <2>1, FS_Subset
  <2>6. NoIdlePermit'
    BY <1>3, <1>4, <1>6, <2>1, <2>5 DEF NoIdlePermit, TypeOK
  <2>7. QueueConsistent'
    BY <1>2, <2>1 DEF QueueConsistent, Waiting, TypeOK
  <2>8. HeldMeansHolder'
    BY <1>2, <2>1 DEF HeldMeansHolder, TypeOK
  <2> QED
    BY <1>3, <2>2, <2>4, <2>6, <2>7, <2>8
<1>8. CASE ~(AllocOf[r] \in holders \/ HasRoom(holders, capacity'))
  <2>1. /\ holders' = holders
        /\ pc' = [pc EXCEPT ![r] = "waiting"]
        /\ waiters' = Append(waiters, r)
    BY <1>1, <1>8
  <2>2. TypeOK'
    BY <1>2, <1>3, <2>1 DEF TypeOK
  <2>3. CapacityRespected'
    BY <1>5, <2>1 DEF CapacityRespected
  <2>4. NoIdlePermit'
    BY <1>3, <1>4, <1>8, <2>1 DEF NoIdlePermit, HasRoom
  <2>5. /\ Len(waiters') = Len(waiters) + 1
        /\ Len(waiters) \in Nat
        /\ waiters'[Len(waiters) + 1] = r
        /\ \A i \in 1..Len(waiters) : waiters'[i] = waiters[i]
    BY <2>1 DEF TypeOK
  <2>6. Waiting' = Waiting \cup {r}
    BY <2>5 DEF Waiting
  <2>7. r \notin Waiting \cup notified
    BY <1>2 DEF QueueConsistent
  <2>8. ASSUME NEW i \in 1..Len(waiters'), NEW j \in 1..Len(waiters'), waiters'[i] = waiters'[j]
        PROVE  i = j
    BY <2>5, <2>7, <2>8 DEF QueueConsistent, Waiting
  <2>9. QueueConsistent'
    BY <1>2, <2>1, <2>6, <2>7, <2>8 DEF QueueConsistent, TypeOK
  <2>10. HeldMeansHolder'
    BY <1>2, <2>1 DEF HeldMeansHolder, TypeOK
  <2> QED
    BY <1>3, <2>2, <2>3, <2>4, <2>9, <2>10
<1> QED
  BY <1>7, <1>8

(* acquire returns because its channel was closed: only the script moves. *)
LEMMA SelectNotifyIInv ==
    ASSUME IInv, NEW r \in Requests, SelectNotify(r)
    PROVE  IInv'
<1> USE DEF IInv, SelectNotify
<1>1. TypeOK' /\ CapacityRespected' /\ NoIdlePermit'
  BY DEF TypeOK, CapacityRespected, NoIdlePermit
<1>2. QueueConsistent'
  BY DEF QueueConsistent, Waiting, TypeOK
<1>3. HeldMeansHolder'
  BY DEF HeldMeansHolder, TypeOK
<1> QED
  BY <1>1, <1>2, <1>3

(* acquire returns because its deadline passed: only the script moves. *)
LEMMA SelectDoneIInv ==
    ASSUME IInv, NEW r \in Requests, SelectDone(r)
    PROVE  IInv'
<1> USE DEF IInv, SelectDone
<1>1. TypeOK' /\ CapacityRespected' /\ NoIdlePermit'
  BY DEF TypeOK, CapacityRespected, NoIdlePermit
<1>2. QueueConsistent'
  BY DEF QueueConsistent, Waiting, TypeOK
<1>3. HeldMeansHolder'
  BY DEF HeldMeansHolder, TypeOK
<1> QED
  BY <1>1, <1>2, <1>3

(* cancelWait: the request leaves the queue, if it is still there. *)
LEMMA CancelWaitIInv ==
    ASSUME IInv, NEW r \in Requests, CancelWait(r)
    PROVE  IInv'
<1> USE DEF IInv
<1>1. /\ pc[r] = "cancelling"
      /\ notified' = notified \ {r}
      /\ pc' = [pc EXCEPT ![r] = "idle"]
      /\ capacity' = capacity /\ holders' = holders
  BY DEF CancelWait
<1>2. CapacityRespected' /\ HeldMeansHolder'
  BY <1>1 DEF CapacityRespected, HeldMeansHolder, TypeOK
<1>3. CASE r \notin Waiting /\ waiters' = waiters
  <2>1. TypeOK' /\ NoIdlePermit'
    BY <1>1, <1>3 DEF TypeOK, NoIdlePermit
  <2>2. QueueConsistent'
    BY <1>1, <1>3 DEF QueueConsistent, Waiting, TypeOK
  <2> QED
    BY <1>1, <1>2, <1>3, <2>1, <2>2
<1>4. CASE \E i \in 1..Len(waiters) : waiters[i] = r /\ waiters' = Without(waiters, i)
  <2>1. PICK i \in 1..Len(waiters) : waiters[i] = r /\ waiters' = Without(waiters, i)
    BY <1>4
  <2>2. waiters \in Seq(Requests) /\ waiters' \in Seq(Requests)
    BY <2>1, WithoutProperties DEF TypeOK
  <2>3. TypeOK'
    BY <1>1, <2>2 DEF TypeOK
  <2>4. waiters # <<>>
    BY <2>1, <2>2
  <2>5. NoIdlePermit'
    BY <1>1, <2>4 DEF NoIdlePermit
  <2>6. \A j, k \in 1..Len(waiters) : waiters[j] = waiters[k] => j = k
    BY DEF QueueConsistent
  <2> DEFINE left == Without(waiters, i)
  <2>a. /\ \A j \in 1..Len(left) : \E k \in 1..Len(waiters) : left[j] = waiters[k] /\ k # i
        /\ \A k \in 1..Len(waiters) : k # i => \E j \in 1..Len(left) : left[j] = waiters[k]
        /\ \A j, k \in 1..Len(left) : left[j] = left[k] => j = k
    BY <2>2, <2>6, CancelQueue
  <2>7. /\ \A j \in 1..Len(waiters') : \E k \in 1..Len(waiters) : waiters'[j] = waiters[k] /\ k # i
        /\ \A k \in 1..Len(waiters) : k # i => \E j \in 1..Len(waiters') : waiters'[j] = waiters[k]
        /\ \A j, k \in 1..Len(waiters') : waiters'[j] = waiters'[k] => j = k
    BY <2>1, <2>a
  <2>b. ASSUME NEW q
        PROVE  q \in Waiting' <=> q \in Waiting /\ q # r
    <3>1. q \in Waiting' <=> \E j \in 1..Len(waiters') : waiters'[j] = q
      BY DEF Waiting
    <3>2. q \in Waiting <=> \E k \in 1..Len(waiters) : waiters[k] = q
      BY DEF Waiting
    <3>3. ASSUME q \in Waiting' PROVE q \in Waiting /\ q # r
      <4>1. PICK j \in 1..Len(waiters') : waiters'[j] = q
        BY <3>1, <3>3
      <4>2. PICK k \in 1..Len(waiters) : waiters'[j] = waiters[k] /\ k # i
        BY <2>7
      <4>3. waiters[k] # waiters[i]
        BY <2>6, <4>2
      <4> QED
        BY <2>1, <3>2, <4>1, <4>2, <4>3
    <3>4. q \in Waiting /\ q # r => q \in Waiting'
      BY <3>1, <3>2, <2>1, <2>7
    <3> QED
      BY <3>3, <3>4
  <2>8. Waiting' = Waiting \ {r}
    BY <2>b
  <2>9. QueueConsistent'
    BY <1>1, <2>7, <2>8 DEF QueueConsistent, TypeOK
  <2> QED
    BY <1>1, <1>2, <2>3, <2>4, <2>5, <2>9
<1> QED
  BY <1>3, <1>4 DEF CancelWait
(* One grant loop, started with h holders of which at least one permit is free:
   it fills the semaphore or empties the queue, never more. *)
LEMMA GrantIInv ==
    ASSUME IInv, NEW r \in Requests, Release(r), AllocOf[r] \in holders
    PROVE  IInv'
<1> USE DEF IInv
<1> DEFINE h == holders \ {AllocOf[r]}
<1>1. PICK k \in 0..Len(waiters) :
         /\ \A i \in 0..(k - 1) : HasRoom(Granted(h, i), capacity)
         /\ k = Len(waiters) \/ ~HasRoom(Granted(h, k), capacity)
         /\ holders' = Granted(h, k)
         /\ notified' = notified \cup {waiters[i] : i \in 1..k}
         /\ waiters' = SubSeq(waiters, k + 1, Len(waiters))
  BY DEF Release, GrantNextWaiters
<1>2. /\ pc[r] = "held"
      /\ pc' = [pc EXCEPT ![r] = "idle"]
      /\ capacity' = capacity
  BY DEF Release
<1>3. /\ waiters \in Seq(Requests) /\ Len(waiters) \in Nat /\ capacity \in Nat
      /\ AllocOf \in [Requests -> Allocs]
  BY SemaphoreAssumption DEF TypeOK
<1>4. \A i \in 1..Len(waiters) : waiters[i] \in Requests /\ AllocOf[waiters[i]] \in Allocs
  BY <1>3
<1>5. ASSUME NEW i \in 0..Len(waiters)
      PROVE  Granted(h, i) \in SUBSET Allocs
  BY <1>3, <1>4 DEF Granted, TypeOK
<1>6. /\ waiters' \in Seq(Requests)
      /\ Len(waiters') = Len(waiters) - k
      /\ \A i \in 1..Len(waiters') : waiters'[i] = waiters[k + i]
  BY <1>1, <1>3
<1>7. TypeOK'
  <2>1. holders' \subseteq Allocs
    BY <1>1, <1>5
  <2>2. notified' \subseteq Requests
    BY <1>1, <1>4 DEF TypeOK
  <2> QED
    BY <1>2, <1>6, <2>1, <2>2 DEF TypeOK
<1>8. CapacityRespected'
  <2>1. CASE k = 0
    <3>1. Granted(h, 0) = h
      BY DEF Granted
    <3>2. /\ Cardinality(h) = Cardinality(holders) - 1
          /\ Cardinality(holders) \in Nat
      BY RemoveHolder DEF TypeOK
    <3>3. Cardinality(holders') = Cardinality(holders) - 1
      BY <1>1, <2>1, <3>1, <3>2
    <3> QED
      BY <1>2, <1>3, <3>2, <3>3 DEF CapacityRespected
  <2>2. CASE k # 0
    <3>1. k - 1 \in 0..Len(waiters) /\ k \in 1..Len(waiters) /\ k - 1 \in 0..(k - 1)
      BY <2>2, <1>3
    <3>2. Granted(h, k) = Granted(h, k - 1) \cup {AllocOf[waiters[k]]}
      BY <3>1 DEF Granted
    <3>3. Cardinality(Granted(h, k - 1)) < capacity
      BY <1>1, <3>1 DEF HasRoom
    <3>4. /\ Cardinality(Granted(h, k - 1)) \in Nat
          /\ Cardinality(Granted(h, k)) \in Nat
          /\ Cardinality(Granted(h, k)) <= Cardinality(Granted(h, k - 1)) + 1
      BY <1>4, <1>5, <3>1, <3>2, AddHolder
    <3>5. Cardinality(Granted(h, k)) <= capacity
      BY <1>3, <3>3, <3>4
    <3> QED
      BY <1>1, <1>2, <3>5 DEF CapacityRespected
  <2> QED
    BY <2>1, <2>2
<1>9. NoIdlePermit'
  <2>1. Cardinality(Granted(h, k)) \in Nat
    BY <1>5, <1>4, AddHolder, RemoveHolder, SemaphoreAssumption, FS_Subset, FS_CardinalityType
  <2>2. SUFFICES ASSUME waiters' # <<>>
                 PROVE  Cardinality(holders') >= capacity'
    BY DEF NoIdlePermit
  <2>3. k # Len(waiters)
    BY <1>3, <1>6, <2>2
  <2>4. ~HasRoom(Granted(h, k), capacity)
    BY <1>1, <2>3
  <2> QED
    BY <1>1, <1>2, <1>3, <2>1, <2>4 DEF HasRoom
<1>10. /\ Waiting' \subseteq Waiting
       /\ notified' \subseteq notified \cup Waiting
       /\ Waiting \cup notified = Waiting' \cup notified'
  <2>1. \A i \in 1..Len(waiters') : k + i \in 1..Len(waiters)
    BY <1>3, <1>6
  <2>2. \A i \in 1..Len(waiters) : i \in 1..k \/ (i - k \in 1..Len(waiters') /\ waiters[i] = waiters'[i - k])
    BY <1>3, <1>6
  <2>3. Waiting' \subseteq Waiting
    BY <1>6, <2>1 DEF Waiting
  <2>4. notified' \subseteq notified \cup Waiting
    BY <1>1, <1>3 DEF Waiting
  <2>5. Waiting \subseteq Waiting' \cup notified'
    BY <1>1, <2>2 DEF Waiting
  <2> QED
    BY <1>1, <2>3, <2>4, <2>5
<1>11. QueueConsistent'
  <2>1. \A i, j \in 1..Len(waiters') : waiters'[i] = waiters'[j] => i = j
    BY <1>3, <1>6 DEF QueueConsistent
  <2>2. Waiting' \cap notified' = {}
    <3>1. ASSUME NEW i \in 1..Len(waiters'), NEW j \in 1..k
          PROVE  waiters'[i] # waiters[j]
      BY <1>3, <1>6 DEF QueueConsistent
    <3>2. \A q \in Waiting' : q \notin {waiters[j] : j \in 1..k}
      BY <3>1 DEF Waiting
    <3> QED
      BY <1>1, <1>10, <3>2 DEF QueueConsistent
  <2>3. r \notin Waiting \cup notified
    BY <1>2 DEF QueueConsistent
  <2>4. \A q \in Waiting' \cup notified' : pc'[q] \in {"waiting", "cancelling"}
    BY <1>2, <1>10, <2>3 DEF QueueConsistent, TypeOK
  <2>5. \A q \in Requests : pc'[q] = "waiting" => q \in Waiting' \cup notified'
    BY <1>2, <1>10 DEF QueueConsistent, TypeOK
  <2> QED
    BY <2>1, <2>2, <2>4, <2>5 DEF QueueConsistent
<1>12. HeldMeansHolder'
  <2> SUFFICES ASSUME NEW q \in Requests,
                      \A p \in Requests : AllocOf[p] = AllocOf[q] => p = q,
                      pc'[q] = "held" \/ q \in notified'
               PROVE  AllocOf[q] \in holders'
    BY DEF HeldMeansHolder
  <2>1. CASE q \in {waiters[i] : i \in 1..k}
    BY <1>1, <2>1 DEF Granted
  <2>2. CASE q \notin {waiters[i] : i \in 1..k}
    <3>1. q # r
      BY <1>1, <1>2, <2>2 DEF QueueConsistent, TypeOK
    <3>2. pc[q] = "held" \/ q \in notified
      BY <1>1, <1>2, <2>2, <3>1 DEF TypeOK
    <3>3. AllocOf[q] \in holders
      BY <3>2 DEF HeldMeansHolder
    <3>4. AllocOf[q] # AllocOf[r]
      BY <3>1
    <3> QED
      BY <1>1, <3>3, <3>4 DEF Granted
  <2> QED
    BY <2>1, <2>2
<1>13. capacity' = 0 => waiters' = <<>>
  <2> SUFFICES ASSUME capacity = 0 PROVE waiters' = <<>>
    BY <1>2
  <2>1. Len(waiters') = 0
    BY <1>3, <1>6
  <2> QED
    BY <1>6, <2>1
<1> QED
  BY <1>7, <1>8, <1>9, <1>11, <1>12, <1>13

(* release: a holder leaves and the grant loop runs. *)
LEMMA ReleaseIInv ==
    ASSUME IInv, NEW r \in Requests, Release(r)
    PROVE  IInv'
<1>1. CASE AllocOf[r] \in holders
  BY <1>1, GrantIInv
<1>2. CASE AllocOf[r] \notin holders
  <2> USE DEF IInv
  <2>1. /\ UNCHANGED <<capacity, holders, notified, waiters>>
        /\ pc[r] = "held"
        /\ pc' = [pc EXCEPT ![r] = "idle"]
    BY <1>2 DEF Release
  <2>2. TypeOK' /\ CapacityRespected' /\ NoIdlePermit'
    BY <2>1 DEF TypeOK, CapacityRespected, NoIdlePermit
  <2>3. QueueConsistent'
    BY <2>1 DEF QueueConsistent, Waiting, TypeOK
  <2>4. HeldMeansHolder'
    BY <2>1 DEF HeldMeansHolder, TypeOK
  <2> QED
    BY <2>1, <2>2, <2>3, <2>4
<1> QED
  BY <1>1, <1>2

(* Steps that change nothing keep the invariant. *)
LEMMA StutterIInv ==
    ASSUME IInv, UNCHANGED vars
    PROVE  IInv'
  BY DEF IInv, vars, TypeOK, CapacityRespected, NoIdlePermit, QueueConsistent,
         HeldMeansHolder, Waiting

(* The invariant the other theorems are read off: types, capacity, queue,
   holders and the channels that were closed, for every set of requests. *)
THEOREM InductiveInvariant == Spec => []IInv
<1>1. Init => IInv
  BY InitIInv
<1>2. IInv /\ [Next]_vars => IInv'
  <2> SUFFICES ASSUME IInv, [Next]_vars PROVE IInv'
    OBVIOUS
  <2>1. CASE UNCHANGED vars
    BY <2>1, StutterIInv
  <2>2. ASSUME NEW r \in Requests, RegisterWait(r) PROVE IInv'
    BY <2>2, RegisterWaitIInv
  <2>3. ASSUME NEW r \in Requests, SelectNotify(r) PROVE IInv'
    BY <2>3, SelectNotifyIInv
  <2>4. ASSUME NEW r \in Requests, SelectDone(r) PROVE IInv'
    BY <2>4, SelectDoneIInv
  <2>5. ASSUME NEW r \in Requests, CancelWait(r) PROVE IInv'
    BY <2>5, CancelWaitIInv
  <2>6. ASSUME NEW r \in Requests, Release(r) PROVE IInv'
    BY <2>6, ReleaseIInv
  <2> QED
    BY <2>1, <2>2, <2>3, <2>4, <2>5, <2>6 DEF Next
<1> QED
  BY <1>1, <1>2, PTL DEF Spec

-----------------------------------------------------------------------------
(* Type correctness of the coordinator's state. *)
THEOREM TypeCorrect == Spec => []TypeOK
  BY InductiveInvariant, PTL DEF IInv

(* However many scripts ask, time out and release, no more allocations hold the
   semaphore than registerWait was given permits. *)
THEOREM CapacityAlwaysRespected == Spec => []CapacityRespected
  BY InductiveInvariant, PTL DEF IInv

(* A request queues only while every permit is taken. *)
THEOREM NoPermitIdles == Spec => []NoIdlePermit
  BY InductiveInvariant, PTL DEF IInv

(* A script told it acquired the semaphore holds it until it releases it. *)
THEOREM HeldScriptsHold == Spec => []HeldMeansHolder
  BY InductiveInvariant, PTL DEF IInv

(* Nobody is granted the semaphore before a request that queued earlier and
   still queues: only the grant loop of release closes channels, from the head. *)
THEOREM GrantsAreInOrder == Spec => GrantsInOrder
<1>1. IInv /\ [Next]_vars => [GrantedFromHead]_vars
  <2> SUFFICES ASSUME IInv, [Next]_vars PROVE [GrantedFromHead]_vars
    OBVIOUS
  <2>0. QueueConsistent /\ Len(waiters) \in Nat
    BY DEF IInv, TypeOK
  <2>1. CASE notified' \subseteq notified
    BY <2>0, <2>1 DEF GrantedFromHead, QueueConsistent, Waiting
  <2>2. ASSUME NEW r \in Requests, Release(r), AllocOf[r] \in holders PROVE GrantedFromHead
    <3>1. PICK k \in 0..Len(waiters) : notified' = notified \cup {waiters[i] : i \in 1..k}
      BY <2>2 DEF Release, GrantNextWaiters
    <3> SUFFICES ASSUME NEW i \in 1..Len(waiters), NEW j \in 1..Len(waiters),
                        waiters[j] \in notified', i < j
                 PROVE  waiters[i] \in notified'
      BY DEF GrantedFromHead
    <3>2. waiters[j] \notin notified
      BY <2>0 DEF QueueConsistent, Waiting
    <3>3. PICK m \in 1..k : waiters[j] = waiters[m]
      BY <3>1, <3>2
    <3>4. j = m
      BY <2>0, <3>3 DEF QueueConsistent
    <3> QED
      BY <2>0, <3>1, <3>4
  <2>3. ASSUME NEW r \in Requests, Release(r), AllocOf[r] \notin holders
        PROVE  notified' \subseteq notified
    BY <2>3 DEF Release
  <2>4. ASSUME NEW r \in Requests,
               RegisterWait(r) \/ SelectNotify(r) \/ SelectDone(r) \/ CancelWait(r)
        PROVE  notified' \subseteq notified
    BY <2>4 DEF RegisterWait, SelectNotify, SelectDone, CancelWait
  <2>5. CASE UNCHANGED vars
    BY <2>5
  <2>6. CASE Next
    BY <2>1, <2>2, <2>3, <2>4, <2>6 DEF Next
  <2> QED
    BY <2>5, <2>6
<1> QED
  BY <1>1, InductiveInvariant, PTL DEF Spec, GrantsInOrder

(* Queue, channels and request goroutines never disagree about who waits. *)
THEOREM QueueStaysConsistent == Spec => []QueueConsistent
  BY InductiveInvariant, PTL DEF IInv

-----------------------------------------------------------------------------
(* Permits counts as Semaphore does. *)
LEMMA SameCardinality == \A S : Abstract!Cardinality(S) = Cardinality(S)
  BY Zenon DEF Abstract!Cardinality, Cardinality

(* registerWait opens the section, enters it, or changes nothing of it. *)
LEMMA RegisterWaitMaps ==
    ASSUME IInv, NEW r \in Requests, RegisterWait(r)
    PROVE  [Abstract!Next]_(Abstract!vars)
<1>1. PICK c \in Capacities :
         LET want == Normalized(c)
             cap  == IF capacity = 0 THEN want ELSE capacity
         IN  /\ Accepts(want, cap)
             /\ capacity' = cap
             /\ IF AllocOf[r] \in holders \/ HasRoom(holders, cap)
                THEN holders' = holders \cup {AllocOf[r]}
                ELSE UNCHANGED holders
  BY DEF RegisterWait
<1>2. /\ AllocOf[r] \in Allocs /\ IsFiniteSet(Allocs)
      /\ Normalized(c) \in Nat /\ Normalized(c) >= 1
      /\ capacity \in Nat /\ holders \subseteq Allocs
      /\ MaxCapacity \in Nat
  BY SemaphoreAssumption DEF Normalized, IInv, TypeOK
<1>3. CASE capacity = 0
  <2>1. IsFiniteSet(holders) /\ Cardinality(holders) = 0
    <3>1. IsFiniteSet(holders)
      BY <1>2, FS_Subset
    <3>2. Cardinality(holders) \in Nat
      BY <3>1, FS_CardinalityType
    <3> QED
      BY <1>3, <3>1, <3>2 DEF IInv, CapacityRespected
  <2>2. holders = {}
    BY <2>1, FS_EmptySet
  <2>3. HasRoom(holders, Normalized(c))
    BY <1>2, <2>1 DEF HasRoom
  <2>4. holders' = {AllocOf[r]} /\ capacity' = Normalized(c)
    BY <1>1, <1>3, <2>2, <2>3
  <2>5. capacity' \in 1..MaxCapacity
    BY <1>1, <1>2, <1>3, <2>4 DEF Accepts
  <2> QED
    BY <1>2, <1>3, <2>4, <2>5 DEF Abstract!Next, Abstract!Open
<1>4. CASE capacity # 0 /\ AllocOf[r] \in holders
  BY <1>1, <1>4 DEF Abstract!vars
<1>5. CASE capacity # 0 /\ AllocOf[r] \notin holders
  <2>1. capacity' = capacity
    BY <1>1, <1>5
  <2>2. CASE HasRoom(holders, capacity)
    <3>1. holders' = holders \cup {AllocOf[r]} /\ Cardinality(holders) < capacity
      BY <1>1, <1>5, <2>2 DEF HasRoom
    <3> QED
      BY <1>2, <2>1, <3>1, SameCardinality DEF Abstract!Next, Abstract!Enter
  <2>3. CASE ~HasRoom(holders, capacity)
    BY <1>1, <1>5, <2>1, <2>3 DEF Abstract!vars
  <2> QED
    BY <2>2, <2>3
<1> QED
  BY <1>3, <1>4, <1>5

(* release is a leave: the grant loop lets in no more than fit, which is
   CapacityRespected in the next state. *)
LEMMA ReleaseMaps ==
    ASSUME IInv, IInv', NEW r \in Requests, Release(r)
    PROVE  [Abstract!Next]_(Abstract!vars)
<1>1. CASE AllocOf[r] \in holders
  <2>1. PICK k \in 0..Len(waiters) : holders' = Granted(holders \ {AllocOf[r]}, k)
    BY <1>1 DEF Release, GrantNextWaiters
  <2>2. holders \ {AllocOf[r]} \subseteq holders'
    BY <2>1 DEF Granted
  <2>3. capacity' = capacity
    BY DEF Release
  <2>4. holders' \in SUBSET Allocs /\ Cardinality(holders') <= capacity
    BY <2>3 DEF IInv, TypeOK, CapacityRespected
  <2>5. Abstract!Leave(AllocOf[r])
    BY <1>1, <2>2, <2>3, <2>4, SameCardinality DEF Abstract!Leave
  <2> QED
    BY <2>5, SemaphoreAssumption DEF Abstract!Next
<1>2. CASE AllocOf[r] \notin holders
  BY <1>2 DEF Release, Abstract!vars
<1> QED
  BY <1>1, <1>2

(* The coordinator is a section with permits, for every set of requests and
   however their deadlines fall. *)
THEOREM ImplementsPermits == Spec => RefinesPermits
<1>1. Init => Abstract!Init
  BY DEF Init, Abstract!Init
<1>2. IInv /\ IInv' /\ [Next]_vars => [Abstract!Next]_(Abstract!vars)
  <2> SUFFICES ASSUME IInv, IInv', [Next]_vars PROVE [Abstract!Next]_(Abstract!vars)
    OBVIOUS
  <2>1. CASE UNCHANGED vars
    BY <2>1 DEF vars, Abstract!vars
  <2>2. ASSUME NEW r \in Requests, SelectNotify(r) \/ SelectDone(r) \/ CancelWait(r)
        PROVE  UNCHANGED Abstract!vars
    BY <2>2 DEF SelectNotify, SelectDone, CancelWait, Abstract!vars
  <2> QED
    BY <2>1, <2>2, RegisterWaitMaps, ReleaseMaps DEF Next
<1> QED
  BY <1>1, <1>2, InductiveInvariant, PTL DEF Spec, RefinesPermits, Abstract!Spec
=============================================================================
