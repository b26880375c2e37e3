-------------------------------- MODULE Deploy --------------------------------
(* maand deploy (src/deploy) between the builds and garbage collections that   *)
(* change what it deploys, against workers that may fail at every step.        *)
(*                                                                            *)
(* The database is catalog, hash and updateSeq.  A deploy works on run.hash,   *)
(* its uncommitted copy of the hash table: Commit stores it, an abort or a     *)
(* crash forgets it.  What it did to the workers is not undone.  A worker      *)
(* keeps, per job, a tree on disk and a process; per bucket, jobs.json and the *)
(* update_seq of worker.json.                                                 *)
(*                                                                            *)
(* Commands of one batch, and the rsyncs of one job, run in parallel on        *)
(* different workers: a batch is one step whose outcome is any combination of  *)
(* their outcomes.  Stopping at any point in between is a fault of the ones    *)
(* not done, followed by Crash.                                               *)
EXTENDS Catalog, Sequences

CONSTANTS Edits,           \* the k-th build finds one of the workspaces Edits[k]
          Options,         \* deploy flags: [force, syncOnly, jobs]
          DeploymentSeq,   \* [Jobs -> Nat], stored by build on every row
          Policy,          \* restart_policy: "always", "reload" or "never"
          GlobHit,         \* {<<old, new>>} whose changed files match restart_globs
          MaxStarts,       \* max_concurrent_starts of each job
          MaxUpgrades,     \* max_concurrent_upgrades of each job
          Position,        \* [Workers -> Nat], the order of workers in the catalog
          Reorders,        \* jobs whose hooks put a rollout_order into the KV store
          KeepsData,       \* jobs that leave data/ or logs/ in their directory
          Probed,          \* jobs with health_check probes or commands
          StartKeeps,      \* jobs whose make start leaves a running process alone
          FaultKinds,      \* what may go wrong: see Fault
          MaxFaults,       \* how often
          MaxDeploys,      \* bound on updateSeq
          MaxEdits         \* bound on builds between two committed deploys

ASSUME DeployAssumption ==
    /\ \A k \in 1..Len(Edits) : \A ws \in Edits[k] :
          /\ ws.workers \subseteq Workers
          /\ ws.content \in [Jobs -> MaybeContent]
          /\ ws.place \subseteq {s \in Slots : WorkerOf(s) \in ws.workers
                                               /\ ws.content[JobOf(s)] # None}
          /\ ws.disabled \subseteq Slots
          /\ ws.version \in [Jobs -> Versions]
    /\ Options \subseteq [force : BOOLEAN, syncOnly : BOOLEAN, jobs : SUBSET Jobs]
    /\ DeploymentSeq \in [Jobs -> Nat]
    /\ Policy \in [Jobs -> {"always", "reload", "never"}]
    /\ MaxStarts \in [Jobs -> Nat]
    /\ MaxUpgrades \in [Jobs -> Nat]
    /\ Position \in [Workers -> Nat]
    /\ {Reorders, KeepsData, Probed, StartKeeps} \subseteq SUBSET Jobs
    /\ None \notin Jobs
    /\ \A p \in GlobHit : p[1] # p[2]
    /\ {"down", "absent", "emptied"} \cap Contents = {}
    /\ {MaxDeploys, MaxFaults, MaxEdits} \subseteq Nat

VARIABLES
    catalog, hash, updateSeq,        \* maand.db
    tree, live, jobsFile, seqFile,   \* the workers
    run,                             \* the deploy in progress
    result,                          \* how the last deploy ended
    owed,       \* jobs in need that a deploy set out to roll out and did not
                \* commit as promoted
    finished,   \* jobs rolled out and promoted since the last build
    faults, builds, edits            \* counters for the bounds

db     == <<catalog, hash, updateSeq>>
hosts  == <<tree, live, jobsFile, seqFile>>
ledger == <<result, owed, finished>>
bounds == <<faults, builds, edits>>
vars   == <<db, hosts, run, ledger, bounds>>

Down    == "down"
Absent  == "absent"     \* no jobs/<job> directory
Emptied == "emptied"    \* a directory without a Makefile, holding data/ or logs/

(* The locals of Execute and of the functions below it. *)
Idle ==
    [phase     |-> "idle",
     opts      |-> [force |-> FALSE, syncOnly |-> FALSE, jobs |-> {}],
     hash      |-> EmptyHash,   \* the hash table as the transaction sees it
     todo      |-> {},          \* slots the current loop has still to visit
     restart   |-> {},          \* slots to restart once todo is reloaded
     wave      |-> 0,           \* deployment sequence being rolled out
     staged    |-> {},          \* jobsToStage, less the ones already taken
     job       |-> None,        \* the job being deployed
     attempted |-> {},          \* every job staged because it needs a rollout
     errors    |-> FALSE,       \* deployFailures is not empty
     deployed  |-> {},          \* deployedJobs
     touched   |-> {},          \* slots of job started, reloaded or restarted
                                \* since a health check passed
     up        |-> {},          \* promoted slots that were up at the start
     hits      |-> 0]           \* value of faults at the start

Init ==
    /\ catalog = EmptyCatalog /\ hash = EmptyHash /\ updateSeq = 0
    /\ tree = [s \in Slots |-> Absent]
    /\ live = [s \in Slots |-> Down]
    /\ jobsFile = [w \in Workers |-> {}]
    /\ seqFile = [w \in Workers |-> 0]     \* 0: no bucket directory yet
    /\ run = Idle
    /\ result = "none" /\ owed = {} /\ finished = {}
    /\ faults = 0 /\ builds = 0 /\ edits = 0

-----------------------------------------------------------------------------
(* Faults, by kind: "connect" (prerequisites), "stop" and "cleanup" (reconcile of
   catalog workers), "lost" (a stop that worked and is reported failed), "offline"
   (a worker that left the catalog cannot be reached), "sync" (rsync), "command"
   (a start, restart or reload that fails and changes nothing), "outage" (one that
   fails and leaves the process down), "hook", "health", "gc", "crash". *)

Faultless == UNCHANGED faults

Fault(kind) ==
    /\ kind \in FaultKinds
    /\ faults < MaxFaults
    /\ faults' = faults + 1

(* An error that Execute returns at once, or the end of the process: the
   transaction rolls back and no staged job is promoted. *)
Abort ==
    /\ run' = Idle
    /\ result' = "aborted"
    /\ owed' = owed \cup run.attempted
    /\ finished' = finished \ run.deployed
    /\ UNCHANGED <<db, builds, edits>>

Crash ==
    /\ run # Idle
    /\ Fault("crash")
    /\ Abort
    /\ UNCHANGED hosts

-----------------------------------------------------------------------------
(* Build and garbage collection, between deploys. *)

(* build.Execute, as far as allocations go. *)
Build ==
    /\ run = Idle /\ builds < Len(Edits) /\ edits < MaxEdits
    /\ \E ws \in Edits[builds + 1] :
          /\ catalog' = BuildCatalog(catalog, ws)
          /\ hash' = MarkStartPending(hash, Reenabled(catalog, BuildCatalog(catalog, ws)))
    /\ builds' = builds + 1 /\ edits' = edits + 1
    /\ result' = "none" /\ owed' = {} /\ finished' = {}
    /\ UNCHANGED <<updateSeq, hosts, run, faults>>

(* gc.Execute: RemoveJobTree on the worker of every removed row, then the rows
   go.  An error on a catalog worker aborts with some trees deleted already;
   one on a worker that left the catalog is ignored. *)
GC ==
    /\ run = Idle /\ catalog.removed # {}
    /\ \E done \in SUBSET catalog.removed :
          LET left == catalog.removed \ done
          IN  /\ tree' = [s \in Slots |-> IF s \in done THEN Absent ELSE tree[s]]
              /\ IF left = {} THEN Faultless
                 ELSE IF \A s \in left : AssumeDead(catalog, s) THEN Fault("offline")
                 ELSE Fault("gc")
              /\ IF \A s \in left : AssumeDead(catalog, s)
                 THEN /\ catalog' = PurgeRemoved(catalog)
                      /\ hash' = RemoveHash(hash, catalog.removed)
                 ELSE UNCHANGED <<catalog, hash>>
    /\ UNCHANGED <<updateSeq, live, jobsFile, seqFile, run, ledger, builds, edits>>

-----------------------------------------------------------------------------
(* Execute up to the reconcile loop.  UpdateSeq commits on its own, and stays
   when the prerequisites check fails. *)
StartDeploy(o) ==
    /\ run = Idle /\ updateSeq < MaxDeploys /\ builds > 0
    /\ updateSeq' = updateSeq + 1
    /\ \/ /\ Faultless
          /\ run' = [Idle EXCEPT !.phase = "reconcile", !.opts = o, !.hash = hash,
                                 !.todo = Stopped(catalog), !.hits = faults,
                                 !.up = {s \in Slots : hash.prev[s] # None
                                                        /\ live[s] # Down}]
          /\ result' = "none"
       \/ /\ Fault("connect")
          /\ result' = "aborted"
          /\ UNCHANGED run
    /\ UNCHANGED <<catalog, hash, hosts, owed, finished, builds, edits>>

(* runner.py: it fails without jobs.json, ignores a job that jobs.json does not
   list or that has no directory, and runs make otherwise, which fails without
   a Makefile. *)
RunnerActs(s) ==
    /\ seqFile[WorkerOf(s)] # 0
    /\ JobOf(s) \in jobsFile[WorkerOf(s)]
    /\ tree[s] # Absent

RunnerMayWork(s) ==
    seqFile[WorkerOf(s)] # 0 /\ (RunnerActs(s) => tree[s] # Emptied)

AfterStop(s) == IF RunnerActs(s) THEN [live EXCEPT ![s] = Down] ELSE live

(* removeJobDeployArtifactsFromWorker, for removed allocations: it keeps the
   job directory itself. *)
AfterCleanup(s) ==
    IF s \in catalog.removed /\ tree[s] # Absent
    THEN [tree EXCEPT ![s] = Emptied] ELSE tree

(* Slip: the hash row of a removed allocation survives reconcile. *)
ReconciledKeepingHash(s) == [run EXCEPT !.todo = @ \ {s}]

(* reconcileStoppedAllocation ends by dropping the hash row if removed. *)
Reconciled(s) ==
    [run EXCEPT !.todo = @ \ {s},
                !.hash = IF s \in catalog.removed THEN RemoveHash(@, {s}) ELSE @]

(* reconcileStoppedAllocation of an allocation that was promoted: stop, hook,
   and cleanup of a removed one.  If its worker left the catalog, errors of the
   stop and of the cleanup are ignored. *)
ReconcileStop(s) ==
    /\ run.phase = "reconcile" /\ s \in run.todo
    /\ run.hash.prev[s] # None
    /\ \/ /\ RunnerMayWork(s) /\ Faultless
          /\ live' = AfterStop(s) /\ tree' = AfterCleanup(s)
          /\ run' = Reconciled(s)
          /\ UNCHANGED <<db, ledger, builds, edits>>
       \/ /\ AssumeDead(catalog, s)
          /\ IF RunnerMayWork(s) THEN Fault("offline") ELSE Faultless
          /\ live' \in {live, AfterStop(s)} /\ tree' \in {tree, AfterCleanup(s)}
          /\ run' = Reconciled(s)
          /\ UNCHANGED <<db, ledger, builds, edits>>
       \/ /\ ~AssumeDead(catalog, s)
          /\ \/ (IF RunnerMayWork(s) THEN Fault("stop") ELSE Faultless) /\ live' = live
             \/ RunnerMayWork(s) /\ Fault("lost") /\ live' = AfterStop(s)
          /\ UNCHANGED tree
          /\ Abort
       \/ /\ \/ RunnerMayWork(s) /\ live' = AfterStop(s)
             \/ AssumeDead(catalog, s) /\ live' \in {live, AfterStop(s)}
          /\ \/ Fault("hook") /\ UNCHANGED tree
             \/ ~AssumeDead(catalog, s) /\ s \in catalog.removed
                /\ Fault("cleanup") /\ tree' \in {tree, AfterCleanup(s)}
          /\ Abort
    /\ UNCHANGED <<jobsFile, seqFile>>

(* The same for one that was not promoted: nothing is stopped. *)
ReconcileSkip(s) ==
    /\ run.phase = "reconcile" /\ s \in run.todo
    /\ run.hash.prev[s] = None
    /\ run' = Reconciled(s)
    /\ UNCHANGED <<db, hosts, ledger, bounds>>

(* The allocations this deploy has stopped, for the committed hash table is the
   one it started from. *)
WereRunning == {s \in Stopped(catalog) : hash.prev[s] # None}

Wiped == {WorkerOf(s) : s \in {t \in WereRunning : AssumeDead(catalog, t)}}

(* Slip: disabled allocations are probed as well. *)
HealthyWithDisabled(j) ==
    j \in Probed => \A s \in NonRemoved(catalog, j) : live[s] # Down

(* HealthCheck with its retries: vacuous without probes or active allocations,
   else it needs every active allocation up. *)
Healthy(j) == j \in Probed => \A s \in Active(catalog, j) : live[s] # Down

(* The rest of reconcileRemovedAndDisabledAllocations: a health check of every
   job that lost a running allocation and keeps active ones, then rm -rf of the
   bucket on the workers that left the catalog, where they can be reached. *)
FinishReconcile ==
    /\ run.phase = "reconcile" /\ run.todo = {}
    /\ LET affected == {JobOf(s) : s \in WereRunning}
       IN  \/ /\ \A j \in affected : Healthy(j)
              /\ \E gone \in SUBSET Wiped :
                    /\ IF gone = Wiped THEN Faultless ELSE Fault("offline")
                    /\ seqFile' = [w \in Workers |-> IF w \in gone THEN 0 ELSE seqFile[w]]
                    /\ jobsFile' = [w \in Workers |-> IF w \in gone THEN {} ELSE jobsFile[w]]
                    /\ tree' = [s \in Slots |-> IF WorkerOf(s) \in gone THEN Absent ELSE tree[s]]
              /\ run' = [run EXCEPT !.phase = "plan"]
              /\ UNCHANGED <<db, live, ledger, builds, edits>>
           \/ /\ \/ /\ \E j \in affected : ~Healthy(j)
                    /\ Faultless
                 \/ /\ \E j \in affected : j \in Probed /\ Active(catalog, j) # {}
                    /\ Fault("health")
              /\ Abort
              /\ UNCHANGED hosts

-----------------------------------------------------------------------------
(* One deployment sequence. *)

(* The first loop over the jobs of a sequence: pre_deploy hooks and staging,
   which may fail for a job, new plan hashes, and the choice of jobsToStage. *)
PlanWave ==
    /\ run.phase = "plan"
    /\ \E bad \in SUBSET (JobsAtSeq(catalog, DeploymentSeq, run.wave) \cap run.opts.jobs) :
          LET good == (JobsAtSeq(catalog, DeploymentSeq, run.wave) \cap run.opts.jobs) \ bad
              plan == UpdateAllocationPlan(catalog, run.hash, good)
              need == {j \in good : JobNeedsRollout(catalog, plan, j)}
          IN  /\ IF bad = {} THEN Faultless ELSE Fault("hook")
              /\ run' = [run EXCEPT !.phase = "stage", !.hash = plan,
                                    !.staged = IF run.opts.force THEN good ELSE need,
                                    !.attempted = @ \cup need,
                                    !.errors = @ \/ bad # {}]
    /\ UNCHANGED <<db, hosts, ledger, builds, edits>>

NextWave ==
    /\ run.phase = "stage" /\ run.staged = {}
    /\ run' = IF \E j \in Jobs : DeploymentSeq[j] > run.wave
              THEN [run EXCEPT !.phase = "plan", !.wave = @ + 1]
              ELSE [run EXCEPT !.phase = "final"]
    /\ UNCHANGED <<db, hosts, ledger, bounds>>

(* rsync --delete of jobs/<job>/, data/ and logs/ excluded: the staged tree of a
   non-removed allocation, nothing for any other slot. *)
SyncedTree(s) ==
    IF s \in NonRemoved(catalog, JobOf(s)) THEN catalog.content[JobOf(s)]
    ELSE IF JobOf(s) \in KeepsData /\ tree[s] # Absent THEN Emptied ELSE Absent

(* syncWorkers: trees of the slots S, worker.json and jobs.json of the workers W *)
Synced(S, W) ==
    /\ tree' = [s \in Slots |-> IF s \in S THEN SyncedTree(s) ELSE tree[s]]
    /\ jobsFile' = [w \in Workers |-> IF w \in W
                                      THEN {j \in Jobs : <<j, w>> \in NonRemoved(catalog, j)}
                                      ELSE jobsFile[w]]
    /\ seqFile' = [w \in Workers |-> IF w \in W THEN updateSeq ELSE seqFile[w]]

(* Slip: the error of a batch is logged and the job is promoted. *)
JobErrorSwallowed ==
    run' = [run EXCEPT !.phase = "finalize", !.todo = {}, !.restart = {}, !.touched = {}]

(* The job in hand ends with an error; the loop goes on to the next one. *)
JobFailed ==
    run' = [run EXCEPT !.phase = "stage", !.job = None, !.todo = {}, !.restart = {},
                       !.touched = {}, !.errors = TRUE]

(* The second loop: stage, rsync to every worker of the catalog, plan hashes,
   and deployJob as far as its first batch.  Any rsync failure ends the deploy. *)
SyncJob(j) ==
    /\ run.phase = "stage" /\ j \in run.staged
    /\ live' = live
    /\ \E full \in SUBSET catalog.workers : \E meta \in SUBSET (catalog.workers \ full) :
          /\ Synced({j} \X full, full \cup meta)
          /\ IF full = catalog.workers
             THEN /\ Faultless
                  /\ LET h == UpdateAllocationPlan(catalog, run.hash, {j})
                         new == NewAllocations(catalog, h, j)
                         r == [run EXCEPT !.staged = @ \ {j}, !.hash = h]
                     IN  run' = IF run.opts.syncOnly
                                THEN IF new = {}
                                     THEN [r EXCEPT !.phase = "finalize", !.job = j]
                                     ELSE [r EXCEPT !.errors = TRUE]
                                ELSE [r EXCEPT !.phase = "start", !.job = j, !.todo = new]
                  /\ UNCHANGED <<db, ledger, builds, edits>>
             ELSE Fault("sync") /\ Abort

-----------------------------------------------------------------------------
(* Rolling out one job: handleNewAllocations, handleUpdatedAllocations. *)

(* Slip: max_concurrent_starts bounds upgrades as well. *)
BatchSizeOfStarts(n) ==
    IF MaxStarts[run.job] < 1 \/ MaxStarts[run.job] > n THEN n ELSE MaxStarts[run.job]

(* Slip: 0, "all at once", is taken at its word and the loop never advances. *)
BatchSizeUnclamped(n) ==
    LET asked == IF run.phase = "start" THEN MaxStarts[run.job] ELSE MaxUpgrades[run.job]
    IN  IF asked > n THEN n ELSE asked

(* effectiveBatchSize and the parallelism of rolloutRestartBatches, for the n
   slots that are left. *)
BatchSize(n) ==
    LET asked == IF run.phase = "start" THEN MaxStarts[run.job]
                 ELSE IF MaxUpgrades[run.job] < 1 THEN 1 ELSE MaxUpgrades[run.job]
    IN  IF asked < 1 \/ asked > n THEN n ELSE asked

(* make start, reload or restart of a job whose tree is in place. *)
Effect(s) ==
    CASE run.phase = "start" /\ JobOf(s) \in StartKeeps /\ live[s] # Down -> live[s]
      [] run.phase = "reload" /\ live[s] = Down -> Down
      [] OTHER -> tree[s]

(* ResolveRolloutOrder: a batch is the head of what is left, in catalog order or
   in whatever order the hooks of the job have asked for. *)
HeadOf(B, S) ==
    \/ run.job \in Reorders
    \/ \A s \in B, t \in S \ B : Position[WorkerOf(s)] <= Position[WorkerOf(t)]

(* A batch of rolloutStartBatches or rolloutRestartBatches: commands in parallel,
   all of them waited for, then after_allocation_started. *)
RunBatch ==
    /\ run.phase \in {"start", "reload", "restart"} /\ run.todo # {}
    /\ run.phase = "start" \/ run.touched = {}
    /\ \E B \in SUBSET run.todo :
          /\ Cardinality(B) = BatchSize(Cardinality(run.todo))
          /\ HeadOf(B, run.todo)
          /\ \/ /\ live' = [s \in Slots |-> IF s \in B THEN Effect(s) ELSE live[s]]
                /\ \/ /\ run' = [run EXCEPT !.todo = @ \ B, !.touched = @ \cup B]
                      /\ Faultless
                   \/ JobFailed /\ Fault("hook")
             \/ /\ JobFailed
                /\ \E bad \in (SUBSET B) \ {{}} :
                      \/ /\ Fault("command")
                         /\ live' = [s \in Slots |-> IF s \in B \ bad THEN Effect(s) ELSE live[s]]
                      \/ /\ Fault("outage")
                         /\ live' = [s \in Slots |-> IF s \in bad THEN Down
                                                    ELSE IF s \in B THEN Effect(s) ELSE live[s]]
    /\ UNCHANGED <<db, tree, jobsFile, seqFile, ledger, builds, edits>>

(* The health check after the last start batch and after each upgrade batch. *)
CheckHealth ==
    /\ run.phase \in {"start", "reload", "restart"} /\ run.touched # {}
    /\ run.phase = "start" => run.todo = {}
    /\ \/ Healthy(run.job) /\ Faultless /\ run' = [run EXCEPT !.touched = {}]
       \/ ~Healthy(run.job) /\ Faultless /\ JobFailed
       \/ run.job \in Probed /\ Fault("health") /\ JobFailed
    /\ UNCHANGED <<db, hosts, ledger, builds, edits>>

(* resolveUpdateAction, of a deploy that is not sync-only: equal hashes have equal
   manifests, so a version bump alone touches no file of restart_globs. *)
UpdateAction(h, s) ==
    CASE Policy[JobOf(s)] = "never" -> "sync"
      [] \/ Policy[JobOf(s)] = "always"
         \/ Policy[JobOf(s)] = "reload" /\ <<h.prev[s], h.cur[s]>> \in GlobHit -> "restart"
      [] OTHER -> "reload"

(* handleUpdatedAllocations: who is reloaded first, who is restarted then. *)
ChooseUpdates ==
    /\ run.phase = "start" /\ run.todo = {} /\ run.touched = {}
    /\ LET updated == {s \in NeedingRestart(catalog, run.hash, run.job, run.opts.force) :
                          UpdateAction(run.hash, s) # "sync"}
           restart == {s \in updated : UpdateAction(run.hash, s) = "restart"}
       IN  run' = [run EXCEPT !.phase = "reload", !.todo = updated \ restart,
                              !.restart = restart]
    /\ UNCHANGED <<db, hosts, ledger, bounds>>

NextAction ==
    /\ run.phase \in {"reload", "restart"} /\ run.todo = {} /\ run.touched = {}
    /\ run' = IF run.phase = "reload"
              THEN [run EXCEPT !.phase = "restart", !.todo = run.restart, !.restart = {}]
              ELSE [run EXCEPT !.phase = "finalize"]
    /\ UNCHANGED <<db, hosts, ledger, bounds>>

(* Slip: the job is promoted before post_deploy runs. *)
FinalizePromotingFirst ==
    /\ run.phase = "finalize"
    /\ \E ok \in BOOLEAN :
          /\ IF ok THEN Faultless ELSE Fault("hook")
          /\ run' = [run EXCEPT !.phase = "stage", !.job = None, !.errors = @ \/ ~ok,
                                !.hash = Promote(catalog, @, run.job),
                                !.deployed = IF ok THEN @ \cup {run.job} ELSE @]
          /\ finished' = IF ok THEN finished \cup {run.job} ELSE finished
    /\ UNCHANGED <<db, hosts, result, owed, builds, edits>>

(* finalizeJobDeploy: post_deploy, then promoteAllocationHash. *)
FinalizeJob ==
    /\ run.phase = "finalize"
    /\ \/ /\ run' = [run EXCEPT !.phase = "stage", !.job = None,
                                !.hash = Promote(catalog, @, run.job),
                                !.deployed = @ \cup {run.job}]
          /\ finished' = finished \cup {run.job}
          /\ Faultless
       \/ JobFailed /\ Fault("hook") /\ UNCHANGED finished
    /\ UNCHANGED <<db, hosts, result, owed, builds, edits>>

-----------------------------------------------------------------------------
(* The end of Execute. *)

(* finalSyncDeployedJobs, to the workers with an active allocation. *)
FinalSync ==
    /\ run.phase = "final"
    /\ LET targets == UNION {Active(catalog, j) : j \in run.deployed}
       IN  \E S \in SUBSET targets :
             /\ Synced(S, {WorkerOf(s) : s \in S})
             /\ IF S = targets THEN Faultless ELSE Fault("sync")
             /\ run' = [run EXCEPT !.phase = "commit", !.errors = @ \/ S # targets]
    /\ UNCHANGED <<db, live, ledger, builds, edits>>

(* Slip: a deploy with failed jobs is rolled back. *)
CommitUnlessErrors ==
    /\ run.phase = "commit"
    /\ hash' = IF run.errors THEN hash ELSE run.hash
    /\ result' = IF run.errors THEN "failed" ELSE "ok"
    /\ owed' = (owed \cup run.attempted) \ run.deployed
    /\ run' = Idle
    /\ edits' = 0
    /\ UNCHANGED <<catalog, updateSeq, hosts, finished, faults, builds>>

Commit ==
    /\ run.phase = "commit"
    /\ hash' = run.hash
    /\ result' = IF run.errors THEN "failed" ELSE "ok"
    /\ owed' = (owed \cup run.attempted) \ run.deployed
    /\ run' = Idle
    /\ edits' = 0
    /\ UNCHANGED <<catalog, updateSeq, hosts, finished, faults, builds>>

DeployStep ==
    \/ \E s \in Slots : ReconcileStop(s) \/ ReconcileSkip(s)
    \/ FinishReconcile
    \/ PlanWave \/ NextWave
    \/ \E j \in Jobs : SyncJob(j)
    \/ RunBatch \/ CheckHealth \/ ChooseUpdates \/ NextAction \/ FinalizeJob
    \/ FinalSync \/ Commit

Next ==
    \/ Build \/ GC
    \/ \E o \in Options : StartDeploy(o)
    \/ DeployStep
    \/ Crash

Spec == Init /\ [][Next]_vars

(* A deploy that was started goes on, and the operator deploys again. *)
FairSpec ==
    /\ Spec
    /\ WF_vars(DeployStep)
    /\ WF_vars(\E o \in Options : StartDeploy(o))

-----------------------------------------------------------------------------
(* Properties. *)

RunType ==
    [phase     : {"idle", "reconcile", "plan", "stage", "start", "reload", "restart",
                  "finalize", "final", "commit"},
     opts      : [force : BOOLEAN, syncOnly : BOOLEAN, jobs : SUBSET Jobs],
     hash      : HashType,
     todo      : SUBSET Slots,
     restart   : SUBSET Slots,
     wave      : Nat,
     staged    : SUBSET Jobs,
     job       : Jobs \cup {None},
     attempted : SUBSET Jobs,
     errors    : BOOLEAN,
     deployed  : SUBSET Jobs,
     touched   : SUBSET Slots,
     up        : SUBSET Slots,
     hits      : Nat]

(* Every variable keeps its type; the slots of a rollout belong to the job in
   hand and are active, so no start, reload or restart reaches a disabled or
   removed allocation. *)
TypeOK ==
    /\ catalog \in CatalogType
    /\ hash \in HashType
    /\ updateSeq \in Nat
    /\ tree \in [Slots -> Contents \cup {Absent, Emptied}]
    /\ live \in [Slots -> Contents \cup {Down}]
    /\ jobsFile \in [Workers -> SUBSET Jobs]
    /\ seqFile \in [Workers -> Nat]
    /\ run \in RunType
    /\ run.phase \in {"start", "reload", "restart"} =>
          run.job \in Jobs /\ run.todo \cup run.restart \subseteq Active(catalog, run.job)
    /\ result \in {"none", "ok", "failed", "aborted"}
    /\ owed \subseteq Jobs /\ finished \subseteq Jobs
    /\ {faults, builds, edits} \subseteq Nat

(* The blast radius of a rollout: whatever fails, a deploy takes down at most one
   upgrade batch of the allocations of a job that were up and promoted when it
   started (rolloutRestartBatches stops at the first error, and a new release is
   health-checked before the next batch). *)
BlastRadius ==
    \A j \in Jobs :
        Cardinality({s \in run.up \cap Active(catalog, j) : live[s] = Down})
            <= IF MaxUpgrades[j] < 1 THEN 1 ELSE MaxUpgrades[j]

(* Between deploys, a job that needed a rollout, had it begun by some deploy and
   not committed as promoted, is picked up by the next deploy even without
   --force: "continues from failed jobs".  A rollout --force adds is not retried. *)
FailedJobsRetried ==
    run = Idle => \A j \in owed :
        JobNeedsRollout(catalog, UpdateAllocationPlan(catalog, hash, {j}), j)

(* Between deploys, a job rolled out and promoted since the last build is skipped
   by the next deploy: "Job A: skipped (already promoted)". *)
FinishedJobsSkipped ==
    run = Idle => \A j \in finished :
        ~JobNeedsRollout(catalog, UpdateAllocationPlan(catalog, hash, {j}), j)

(* A deploy of every job that reports success leaves each active allocation
   running the tree of the catalog, up to jobs that are never restarted. *)
ActiveRunsCatalog ==
    result = "ok" => \A j \in Jobs : Policy[j] # "never" =>
        \A s \in Active(catalog, j) : live[s] = catalog.content[j]

(* A deploy of every job that reports success leaves nothing to do: content and
   version of each non-removed allocation are promoted, and only a disabled one may
   still have to be started, once it is enabled. *)
OkMeansPromoted ==
    result = "ok" => \A j \in Jobs : \A s \in NonRemoved(catalog, j) :
        /\ hash.ver[s] = catalog.version[s]
        /\ \/ hash.prev[s] = catalog.content[j]
           \/ s \in catalog.disabled /\ hash.prev[s] = None

(* A hash row belongs to an allocation row.  The key of a hash is a function of
   job and worker, so a row that outlived its allocation would make the next
   allocation of the pair look promoted before it ever ran. *)
HashRowsTracked ==
    \A s \in Slots : hash.cur[s] # None \/ hash.prev[s] # None => s \in catalog.rows

(* A committed deploy has forgotten the promoted state of removed allocations, so
   that one added again is started. *)
RemovedForgotten ==
    result \in {"ok", "failed"} => \A s \in catalog.removed : hash.prev[s] = None

(* With the workspace settled and more deploys to come than faults, some deploy
   succeeds: every deploy ends, and each fault costs at most one. *)
Converges ==
    (builds = Len(Edits) /\ updateSeq + MaxFaults < MaxDeploys) ~> result = "ok"
=============================================================================
