------------------------------- MODULE Catalog -------------------------------
(* The allocation tables of maand.db and the queries and updates that build,   *)
(* deploy and gc run on them (src/data, src/build/build_allocations.go).       *)
(*                                                                            *)
(* A slot is a (job, worker) pair, the primary key of table allocations; its   *)
(* alloc_id is a function of the pair.  The catalog is a record               *)
(*   workers   the IPs of table worker                                        *)
(*   content   the tree each job renders to, None for a job without a row     *)
(*   rows, disabled, removed   the allocation rows and their two flags        *)
(*   version   allocations.new_version                                        *)
(* and the hash table (namespace <job>_allocation) is a record                *)
(*   cur       current_hash, None when the slot has no hash row               *)
(*   prev      previous_hash, None for SQL NULL                               *)
(*   ver       current_version, DefaultVersion for NULL                       *)
(* A hash and its file manifest are determined by the rendered tree, so both   *)
(* are represented by the tree's content.                                     *)
EXTENDS Naturals, FiniteSets

CONSTANTS Jobs, Workers,
          Contents,          \* rendered job trees
          Versions,          \* manifest versions
          DefaultVersion,    \* DefaultAllocationVersion, "0.0.0"
          None

ASSUME CatalogAssumption ==
    /\ IsFiniteSet(Jobs) /\ IsFiniteSet(Workers)
    /\ None \notin Contents
    /\ DefaultVersion \in Versions

Slots == Jobs \X Workers

JobOf(s) == s[1]

WorkerOf(s) == s[2]

MaybeContent == Contents \cup {None}

CatalogType ==
    [workers  : SUBSET Workers,
     content  : [Jobs -> MaybeContent],
     rows     : SUBSET Slots,
     disabled : SUBSET Slots,
     removed  : SUBSET Slots,
     version  : [Slots -> Versions]]

HashType ==
    [cur  : [Slots -> MaybeContent],
     prev : [Slots -> MaybeContent],
     ver  : [Slots -> Versions]]

EmptyCatalog ==
    [workers  |-> {},
     content  |-> [j \in Jobs |-> None],
     rows     |-> {},
     disabled |-> {},
     removed  |-> {},
     version  |-> [s \in Slots |-> DefaultVersion]]

EmptyHash ==
    [cur  |-> [s \in Slots |-> None],
     prev |-> [s \in Slots |-> None],
     ver  |-> [s \in Slots |-> DefaultVersion]]

-----------------------------------------------------------------------------
(* Allocation states (data/allocation_state.go, data/worker.go). *)

(* GetNonRemovedAllocations *)
NonRemoved(cat, j) == {s \in cat.rows \ cat.removed : JobOf(s) = j}

(* Slip: disabled allocations count as active. *)
ActiveIgnoringDisabled(cat, j) == NonRemoved(cat, j)

(* GetActiveAllocations, IsAllocationActive: neither removed nor disabled. *)
Active(cat, j) == NonRemoved(cat, j) \ cat.disabled

(* Slip: only disabled allocations are listed. *)
StoppedDisabledOnly(cat) == cat.rows \cap cat.disabled

(* ListStoppedAllocations *)
Stopped(cat) == cat.rows \cap (cat.removed \cup cat.disabled)

(* StoppedAllocationAssumeDead *)
AssumeDead(cat, s) == s \in cat.removed /\ WorkerOf(s) \notin cat.workers

-----------------------------------------------------------------------------
(* Queries on the deploy plan (data/job.go, data/allocation_version.go). *)

(* Slip: a disabled allocation is started as well. *)
NewIncludingDisabled(cat, h, j) ==
    {s \in NonRemoved(cat, j) : h.cur[s] # None /\ h.prev[s] = None}

(* GetNewAllocations: active, with a plan, never promoted. *)
NewAllocations(cat, h, j) ==
    {s \in Active(cat, j) : h.cur[s] # None /\ h.prev[s] = None}

(* previous_hash IS NOT NULL AND previous_hash != current_hash *)
ContentChanged(h, s) == h.prev[s] # None /\ h.prev[s] # h.cur[s]

(* AllocationNeedsVersionRollout *)
VersionChanged(cat, h, s) == h.ver[s] # cat.version[s]

(* GetUpdatedAllocations and GetVersionPendingAllocations without the new ones,
   or every active allocation but the new ones under --force:
   allocationsNeedingRestart. *)
NeedingRestart(cat, h, j, force) ==
    {s \in Active(cat, j) :
        force \/ ContentChanged(h, s) \/ VersionChanged(cat, h, s)}
    \ NewAllocations(cat, h, j)

(* Slip: a version bump alone does not count. *)
NeedsRolloutIgnoringVersion(cat, h, j) ==
    \/ \E s \in NonRemoved(cat, j) : h.cur[s] = None \/ ContentChanged(h, s)
    \/ NewAllocations(cat, h, j) # {}

(* JobNeedsRollout *)
JobNeedsRollout(cat, h, j) ==
    \/ \E s \in NonRemoved(cat, j) :
          h.cur[s] = None \/ ContentChanged(h, s) \/ VersionChanged(cat, h, s)
    \/ NewAllocations(cat, h, j) # {}

(* GetJobsByDeploymentSeq for one sequence number, seq being the deployment_seq
   that build stores on the rows of each job. *)
JobsAtSeq(cat, seq, n) ==
    {j \in Jobs : seq[j] = n /\ cat.content[j] # None /\ NonRemoved(cat, j) # {}}

-----------------------------------------------------------------------------
(* Updates of the hash table (data/hash_allocation.go). *)

(* updateAllocationHash: UpdateAllocationPlan for every non-removed allocation of
   a set of jobs whose trees have just been staged. *)
UpdateAllocationPlan(cat, h, J) ==
    [h EXCEPT !.cur = [s \in Slots |-> IF JobOf(s) \in J /\ s \in NonRemoved(cat, JobOf(s))
                                       THEN cat.content[JobOf(s)] ELSE h.cur[s]]]

(* promoteAllocationHash: PromoteAllocationState for every non-removed
   allocation of the job, disabled ones included. *)
Promote(cat, h, j) ==
    [h EXCEPT !.prev = [s \in Slots |-> IF s \in NonRemoved(cat, j)
                                        THEN h.cur[s] ELSE h.prev[s]],
              !.ver  = [s \in Slots |-> IF s \in NonRemoved(cat, j)
                                        THEN cat.version[s] ELSE h.ver[s]]]

(* Slip: the DELETE matches no row. *)
RemoveHashNothing(h, S) == h

(* RemoveAllocationHash for a set of slots *)
RemoveHash(h, S) ==
    [cur  |-> [s \in Slots |-> IF s \in S THEN None ELSE h.cur[s]],
     prev |-> [s \in Slots |-> IF s \in S THEN None ELSE h.prev[s]],
     ver  |-> [s \in Slots |-> IF s \in S THEN DefaultVersion ELSE h.ver[s]]]

(* MarkAllocationStartPending for a set of slots *)
MarkStartPending(h, S) ==
    [h EXCEPT !.prev = [s \in Slots |-> IF s \in S THEN None ELSE h.prev[s]]]

-----------------------------------------------------------------------------
(* Build (build/build_allocations.go).  A workspace is a record                *)
(*   workers, content   workers.json and the job folders                      *)
(*   place     the slots whose worker carries every selector of the job       *)
(*   disabled  the slots disabled.json names, by worker, job or allocation    *)
(*   version   the manifest version of each job                               *)

BuildCatalog(cat, ws) ==
    LET rows == cat.rows \cup ws.place
    IN  [workers  |-> ws.workers,
         content  |-> ws.content,
         rows     |-> rows,
         disabled |-> (cat.disabled \ ws.place) \cup (ws.disabled \cap rows),
         removed  |-> rows \ ws.place,
         version  |-> [s \in Slots |-> IF s \in ws.place
                                       THEN ws.version[JobOf(s)]
                                       ELSE cat.version[s]]]

(* Slip: an allocation that was removed in between is marked as well. *)
ReenabledOrReplaced(cat, new) ==
    {s \in cat.rows \cap (cat.disabled \cup cat.removed) :
        s \in new.rows /\ s \notin new.disabled /\ s \notin new.removed}

(* markReenabledAllocations: the rows that loadDisabledAllocations found
   disabled and not removed, and that are active now. *)
Reenabled(cat, new) ==
    {s \in cat.rows \cap cat.disabled :
        /\ s \notin cat.removed
        /\ s \in new.rows /\ s \notin new.disabled /\ s \notin new.removed}

(* gc/purge: the removed rows and their hash rows are deleted. *)
PurgeRemoved(cat) ==
    [cat EXCEPT !.rows = @ \ cat.removed,
                !.disabled = @ \ cat.removed,
                !.removed = {},
                !.version = [s \in Slots |-> IF s \in cat.removed
                                             THEN DefaultVersion
                                             ELSE cat.version[s]]]
=============================================================================
