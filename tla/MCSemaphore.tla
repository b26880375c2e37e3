----------------------------- MODULE MCSemaphore -----------------------------
(* Small instances of Semaphore: two scripts of allocation a (or one script    *)
(* with two threads) and one script each of b and c.                           *)
EXTENDS Semaphore, TLC

CONSTANTS r1, r2, r3, r4, a, b, c

MCAllocOf == (r1 :> a) @@ (r2 :> a) @@ (r3 :> b) @@ (r4 :> c)
=============================================================================
