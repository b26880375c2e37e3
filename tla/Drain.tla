-------------------------------- MODULE Drain ---------------------------------
(* Deploy with two history variables, for what it promises about allocations   *)
(* that are drained and about deploys that nothing disturbs.  The code takes    *)
(* "was promoted" for "is running".  That is not the same; astray is the        *)
(* difference: processes the database does not have as promoted, entered by     *)
(* the four steps that make them and by no other.                              *)
EXTENDS Deploy

VARIABLES
    astray,     \* slots whose process runs without being on record
    orderly     \* the deploy in progress started in order

drainVars == <<vars, astray, orderly>>

Up(s) == live[s] # Down

(* Of the astray slots and those a step adds, what still runs. *)
Strays(lost) == astray' = {s \in astray \cup lost : live'[s] # Down}

-----------------------------------------------------------------------------
(* What a deploy takes for granted of the workers. *)

(* Every stop of the reconcile loop can be run, or may fail. *)
StopsRun ==
    \A s \in WereRunning : RunnerMayWork(s) \/ AssumeDead(catalog, s)

(* A job that loses an allocation is up as a whole: the health check that ends
   reconcile comes before the first start. *)
LosersUp ==
    \A s \in WereRunning : JobOf(s) \in Probed =>
        \A t \in Active(catalog, JobOf(s)) : Up(t)

(* What was promoted is up: the health check after the first batch of an upgrade
   looks at the allocations of all the other batches. *)
PromotedRun ==
    \A j \in Probed : \A s \in Active(catalog, j) : hash.prev[s] # None => Up(s)

InOrder == StopsRun /\ LosersUp /\ PromotedRun

-----------------------------------------------------------------------------
DrainInit == Init /\ astray = {} /\ orderly = FALSE

(* markReenabledAllocations clears the promoted hash of an allocation that was
   disabled and enabled again before any deploy stopped it. *)
DrainBuild ==
    /\ Build
    /\ Strays({s \in catalog.disabled \ catalog.removed : s \in Active(catalog', JobOf(s))})
    /\ UNCHANGED orderly

(* gc before the deploy that would have stopped what it collects. *)
DrainGC == GC /\ Strays(catalog.removed) /\ UNCHANGED orderly

DrainStart ==
    \E o \in Options : StartDeploy(o) /\ orderly' = InOrder /\ UNCHANGED astray

(* A worker that left the catalog: reconcile goes on if it cannot be reached. *)
DrainReconcile ==
    /\ \E s \in Slots :
          /\ ReconcileStop(s)
          /\ Strays(IF AssumeDead(catalog, s) /\ run' # Idle THEN {s} ELSE {})
    /\ UNCHANGED orderly

(* The start of an allocation, until its job is promoted and that is committed. *)
DrainBatch ==
    /\ RunBatch
    /\ Strays({s \in run.todo : hash.prev[s] = None})
    /\ UNCHANGED orderly

DrainCommit ==
    /\ Commit
    /\ astray' = astray \ UNION {Active(catalog, j) : j \in run.deployed}
    /\ UNCHANGED orderly

(* The steps that neither start nor stop a process, nor change what is on record. *)
DrainOther ==
    /\ \/ \E s \in Slots : ReconcileSkip(s)
       \/ FinishReconcile
       \/ PlanWave \/ NextWave
       \/ \E j \in Jobs : SyncJob(j)
       \/ CheckHealth \/ ChooseUpdates \/ NextAction \/ FinalizeJob
       \/ FinalSync
       \/ Crash
    /\ UNCHANGED <<astray, orderly>>

DrainNext ==
    \/ DrainBuild \/ DrainGC \/ DrainStart
    \/ DrainReconcile \/ DrainBatch \/ DrainCommit
    \/ DrainOther

DrainSpec == DrainInit /\ [][DrainNext]_drainVars

-----------------------------------------------------------------------------
(* Properties. *)

(* Once reconcile is through, and after a deploy that committed, no process of a
   disabled or removed allocation is left on a worker of the catalog, whatever
   failed or died before and however many edits lie between two deploys, except
   processes gone astray. *)
DrainedStaysDown ==
    run.phase \notin {"idle", "reconcile"} \/ result \in {"ok", "failed"} =>
        \A s \in Stopped(catalog) : WorkerOf(s) \in catalog.workers =>
            ~Up(s) \/ s \in astray

(* No process outlives its allocation: what runs and did not go astray has a row
   and a promoted hash, and its runner can stop it, so that a later deploy will. *)
NoOrphans ==
    \A s \in Slots : Up(s) /\ s \notin astray =>
        s \in catalog.rows /\ hash.prev[s] # None /\ RunnerActs(s)

(* A deploy that no fault hits and that starts in order succeeds, whatever earlier
   deploys left half done: trees of another release, processes that were never
   promoted, workers without a bucket, rows and hashes of removed allocations.
   --sync-only is left out; it fails if an allocation was never started. *)
OrderlySucceeds ==
    run # Idle /\ run' = Idle /\ faults' = run.hits /\ orderly /\ ~run.opts.syncOnly
        => result' = "ok"

OrderlyDeploySucceeds == [][OrderlySucceeds]_drainVars
=============================================================================
