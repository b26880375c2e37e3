----------------------------- MODULE DeployProofs -----------------------------
(* Proofs about Deploy, for every cluster, every list of edits and any number   *)
(* of faults and deploys.  First the types.  Then what the hash table           *)
(* remembers: no failure, crash, filter or collection makes maand forget a job  *)
(* it owes a rollout, remember an allocation that is gone, or keep a hash       *)
(* without an allocation.                                                      *)
EXTENDS Deploy, TLAPS

-----------------------------------------------------------------------------
(* Catalog operators keep the types of their arguments. *)

(* GetNonRemovedAllocations and GetActiveAllocations return slots of the job. *)
LEMMA AllocationQueries ==
    ASSUME NEW cat \in CatalogType, NEW j
    PROVE  /\ NonRemoved(cat, j) \subseteq Slots
           /\ Active(cat, j) \subseteq NonRemoved(cat, j)
           /\ \A s \in NonRemoved(cat, j) : JobOf(s) = j
           /\ \A h : NewAllocations(cat, h, j) \subseteq Active(cat, j)
  BY DEF CatalogType, NonRemoved, Active, NewAllocations

(* UpdateAllocationPlan writes current_hash only, and only for allocations that
   are not removed. *)
LEMMA PlanEffect ==
    ASSUME NEW cat \in CatalogType, NEW h \in HashType, NEW J \in SUBSET Jobs
    PROVE  /\ UpdateAllocationPlan(cat, h, J) \in HashType
           /\ UpdateAllocationPlan(cat, h, J).prev = h.prev
           /\ UpdateAllocationPlan(cat, h, J).ver = h.ver
           /\ \A s \in Slots :
                 UpdateAllocationPlan(cat, h, J).cur[s] =
                     IF JobOf(s) \in J /\ s \in NonRemoved(cat, JobOf(s))
                     THEN cat.content[JobOf(s)] ELSE h.cur[s]
  BY DEF CatalogType, HashType, MaybeContent, UpdateAllocationPlan, Slots, JobOf

(* promoteAllocationHash writes previous_hash and current_version, and only for
   allocations of the job that are not removed. *)
LEMMA PromoteEffect ==
    ASSUME NEW cat \in CatalogType, NEW h \in HashType, NEW j \in Jobs
    PROVE  /\ Promote(cat, h, j) \in HashType
           /\ Promote(cat, h, j).cur = h.cur
           /\ \A s \in Slots :
                 /\ Promote(cat, h, j).prev[s] =
                       IF s \in NonRemoved(cat, j) THEN h.cur[s] ELSE h.prev[s]
                 /\ s \notin NonRemoved(cat, j) => Promote(cat, h, j).ver[s] = h.ver[s]
  BY DEF CatalogType, HashType, Promote

(* RemoveAllocationHash forgets the slots it is given and no other. *)
LEMMA RemoveEffect ==
    ASSUME NEW h \in HashType, NEW S
    PROVE  /\ RemoveHash(h, S) \in HashType
           /\ \A s \in Slots \ S : /\ RemoveHash(h, S).cur[s] = h.cur[s]
                                   /\ RemoveHash(h, S).prev[s] = h.prev[s]
                                   /\ RemoveHash(h, S).ver[s] = h.ver[s]
           /\ \A s \in Slots \cap S : /\ RemoveHash(h, S).cur[s] = None
                                      /\ RemoveHash(h, S).prev[s] = None
  BY CatalogAssumption DEF HashType, MaybeContent, RemoveHash

(* MarkAllocationStartPending only ever clears previous_hash. *)
LEMMA MarkEffect ==
    ASSUME NEW h \in HashType, NEW S
    PROVE  /\ MarkStartPending(h, S) \in HashType
           /\ MarkStartPending(h, S).cur = h.cur
           /\ \A s \in Slots : MarkStartPending(h, S).prev[s] \in {None, h.prev[s]}
  BY DEF HashType, MaybeContent, MarkStartPending

-----------------------------------------------------------------------------
(* Build places allocations on workers of the catalog and of jobs that have a
   tree; whatever it does not place is removed. *)
CatalogSound ==
    /\ catalog.removed \subseteq catalog.rows
    /\ \A s \in catalog.rows \ catalog.removed :
          WorkerOf(s) \in catalog.workers /\ catalog.content[JobOf(s)] # None

(* While a job is rolled out, its tree is on disk wherever it is to run. *)
TreesInPlace ==
    run.phase \in {"start", "reload", "restart"} =>
        \A s \in NonRemoved(catalog, run.job) : tree[s] \in Contents

(* Allocations are queued for a restart only while others are reloaded, and a job
   that is finalized is the job in hand. *)
RunSound ==
    /\ run.phase # "reload" => run.restart = {}
    /\ run.phase = "finalize" => run.job \in Jobs

(* TypeOK is not inductive by itself: make start brings up whatever tree is on
   disk, so the type of live rests on the trees, and those on the catalog. *)
TypeInv == TypeOK /\ CatalogSound /\ TreesInPlace /\ RunSound

(* The locals of Execute start with their types. *)
LEMMA IdleType == Idle \in RunType /\ Idle.phase = "idle" /\ Idle.restart = {}
  <1>1. EmptyHash \in HashType
    BY CatalogAssumption DEF EmptyHash, HashType, MaybeContent
  <1> QED BY <1>1 DEF Idle, RunType

(* The empty bucket has the types. *)
LEMMA InitType == Init => TypeInv
  <1> SUFFICES ASSUME Init PROVE TypeInv
    OBVIOUS
  <1>1. catalog \in CatalogType /\ hash \in HashType
    BY CatalogAssumption DEF Init, EmptyCatalog, CatalogType, EmptyHash, HashType, MaybeContent
  <1>2. run \in RunType /\ run.phase = "idle" /\ run.restart = {}
    BY IdleType DEF Init
  <1>3. TypeOK
    BY <1>1, <1>2 DEF TypeOK, Init
  <1>4. CatalogSound
    BY DEF Init, EmptyCatalog, CatalogSound
  <1> QED BY <1>2, <1>3, <1>4 DEF TypeInv, TreesInPlace, RunSound

(* A fault, or none, leaves a counter that is a number. *)
LEMMA FaultCount ==
    ASSUME TypeOK
    PROVE  (Faultless \/ \E kind : Fault(kind)) => faults' \in Nat
  BY DEF TypeOK, Faultless, Fault

(* What a deploy may do to the workers. *)
HostsTyped ==
    /\ tree \in [Slots -> Contents \cup {Absent, Emptied}]
    /\ live \in [Slots -> Contents \cup {Down}]
    /\ jobsFile \in [Workers -> SUBSET Jobs]
    /\ seqFile \in [Workers -> Nat]

(* A deploy that ends before its commit keeps the database's types, if the workers
   keep theirs. *)
LEMMA AbortType ==
    ASSUME TypeInv, Abort, HostsTyped', faults' \in Nat
    PROVE  TypeInv'
  <1>1. run' \in RunType /\ run'.phase = "idle" /\ run'.restart = {}
    BY IdleType DEF Abort
  <1>2. owed' \subseteq Jobs
    BY DEF TypeInv, TypeOK, RunType, Abort
  <1>3. TypeOK'
    BY <1>1, <1>2 DEF TypeInv, TypeOK, HostsTyped, Abort, db
  <1>4. CatalogSound'
    BY DEF TypeInv, CatalogSound, Abort, db
  <1> QED BY <1>1, <1>3, <1>4 DEF TypeInv, TreesInPlace, RunSound

(* A step of a deploy outside the rollout of a job. *)
LEMMA QuietStepType ==
    ASSUME TypeInv, UNCHANGED <<catalog, hash, updateSeq, result, owed, builds, edits>>,
           HostsTyped', faults' \in Nat, finished' \subseteq Jobs,
           run' \in RunType, run'.phase \notin {"start", "reload", "restart"},
           run'.restart = {}, run'.phase = "finalize" => run'.job \in Jobs
    PROVE  TypeInv'
  <1>1. TypeOK'
    BY DEF TypeInv, TypeOK, HostsTyped
  <1>2. CatalogSound'
    BY DEF TypeInv, CatalogSound
  <1> QED BY <1>1, <1>2 DEF TypeInv, TreesInPlace, RunSound

(* A step within the rollout of a job, which leaves the trees alone. *)
LEMMA RolloutStepType ==
    ASSUME TypeInv, UNCHANGED <<catalog, hash, updateSeq, tree, result, owed, finished,
                                builds, edits>>,
           HostsTyped', faults' \in Nat, run' \in RunType,
           run.phase \in {"start", "reload", "restart"},
           run'.job = run.job,
           run'.todo \cup run'.restart \subseteq Active(catalog, run.job),
           RunSound'
    PROVE  TypeInv'
  <1>1. run'.job \in Jobs
    BY DEF TypeInv, TypeOK
  <1>2. TypeOK'
    BY <1>1 DEF TypeInv, TypeOK, HostsTyped
  <1>3. CatalogSound'
    BY DEF TypeInv, CatalogSound
  <1>4. TreesInPlace'
    BY DEF TypeInv, TreesInPlace, RunSound
  <1> QED BY <1>2, <1>3, <1>4 DEF TypeInv

(* A build yields a sound catalog and a hash table of its type. *)
LEMMA BuildType == TypeInv /\ Build => TypeInv'
  <1> SUFFICES ASSUME TypeInv, Build PROVE TypeInv'
    OBVIOUS
  <1>1. PICK ws \in Edits[builds + 1] :
            /\ catalog' = BuildCatalog(catalog, ws)
            /\ hash' = MarkStartPending(hash, Reenabled(catalog, BuildCatalog(catalog, ws)))
    BY DEF Build
  <1>2. /\ ws.workers \subseteq Workers
        /\ ws.content \in [Jobs -> MaybeContent]
        /\ ws.place \subseteq Slots
        /\ \A s \in ws.place : WorkerOf(s) \in ws.workers /\ ws.content[JobOf(s)] # None
        /\ ws.disabled \subseteq Slots
        /\ ws.version \in [Jobs -> Versions]
    <2>1. builds + 1 \in 1..Len(Edits)
      BY DEF Build, TypeInv, TypeOK
    <2> QED BY <2>1, DeployAssumption
  <1>3. catalog' \in CatalogType
    <2>1. catalog \in CatalogType
      BY DEF TypeInv, TypeOK
    <2>2. \A s \in Slots : JobOf(s) \in Jobs
      BY DEF Slots, JobOf
    <2> QED BY <1>1, <1>2, <2>1, <2>2 DEF BuildCatalog, CatalogType
  <1>4. CatalogSound'
    BY <1>1, <1>2 DEF BuildCatalog, CatalogSound
  <1>5. hash' \in HashType
    BY <1>1, MarkEffect DEF TypeInv, TypeOK
  <1>6. run' = run /\ run.phase = "idle" /\ run.restart = {}
    BY IdleType DEF Build
  <1>7. TypeOK'
    <2>1. {builds', edits', faults'} \subseteq Nat
      BY DEF Build, TypeInv, TypeOK
    <2> QED BY <1>3, <1>5, <1>6, <2>1 DEF Build, TypeInv, TypeOK, hosts
  <1> QED BY <1>4, <1>6, <1>7 DEF TypeInv, TreesInPlace, RunSound

(* gc keeps types, and the catalog sound, whether it gets through or not. *)
LEMMA GCType == TypeInv /\ GC => TypeInv'
  <1> SUFFICES ASSUME TypeInv, GC PROVE TypeInv'
    OBVIOUS
  <1>1. catalog \in CatalogType /\ hash \in HashType
    BY DEF TypeInv, TypeOK
  <1>2. \/ UNCHANGED <<catalog, hash>>
        \/ catalog' = PurgeRemoved(catalog) /\ hash' = RemoveHash(hash, catalog.removed)
    BY DEF GC
  <1>3. catalog' \in CatalogType /\ hash' \in HashType
    <2>1. PurgeRemoved(catalog) \in CatalogType
      BY <1>1, CatalogAssumption DEF PurgeRemoved, CatalogType
    <2> QED BY <1>1, <1>2, <2>1, RemoveEffect
  <1>4. CatalogSound'
    BY <1>1, <1>2 DEF TypeInv, CatalogSound, PurgeRemoved, CatalogType
  <1>5. tree' \in [Slots -> Contents \cup {Absent, Emptied}]
    BY DEF GC, TypeInv, TypeOK
  <1>6. faults' \in Nat
    BY FaultCount DEF GC, TypeInv
  <1>7. run' = run /\ run.phase = "idle" /\ run.restart = {}
    BY IdleType DEF GC
  <1>8. TypeOK'
    BY <1>3, <1>5, <1>6, <1>7 DEF GC, TypeInv, TypeOK, ledger
  <1> QED BY <1>4, <1>7, <1>8 DEF TypeInv, TreesInPlace, RunSound

(* The start of a deploy, or its refusal by the prerequisites check, keeps types. *)
LEMMA StartDeployType ==
    ASSUME NEW o \in Options, TypeInv, StartDeploy(o)
    PROVE  TypeInv'
  <1>2. run' \in RunType /\ run'.phase \in {"idle", "reconcile"} /\ run'.restart = {}
    <2>1. CASE run' = run
      BY <2>1, IdleType DEF StartDeploy
    <2>2. CASE run' = [Idle EXCEPT !.phase = "reconcile", !.opts = o, !.hash = hash,
                                   !.todo = Stopped(catalog), !.hits = faults,
                                   !.up = {s \in Slots : hash.prev[s] # None
                                                          /\ live[s] # Down}]
      <3>1. Stopped(catalog) \subseteq Slots
        BY DEF TypeInv, TypeOK, CatalogType, Stopped
      <3>2. o \in [force : BOOLEAN, syncOnly : BOOLEAN, jobs : SUBSET Jobs]
        BY DeployAssumption
      <3> QED BY <2>2, <3>1, <3>2, IdleType DEF TypeInv, TypeOK, RunType
    <2> QED BY <2>1, <2>2 DEF StartDeploy
  <1>3. faults' \in Nat
    BY FaultCount DEF StartDeploy, TypeInv
  <1>4. result' \in {"none", "aborted"} /\ updateSeq' \in Nat /\ finished' \subseteq Jobs
    BY DEF StartDeploy, TypeInv, TypeOK
  <1>5. TypeOK'
    BY <1>2, <1>3, <1>4 DEF StartDeploy, TypeInv, TypeOK, hosts
  <1>6. CatalogSound'
    BY DEF StartDeploy, TypeInv, CatalogSound
  <1> QED BY <1>2, <1>5, <1>6 DEF TypeInv, TreesInPlace, RunSound

(* reconcileStoppedAllocation keeps the types of the deploy and of the workers. *)
LEMMA ReconcileEffect ==
    ASSUME NEW s \in Slots, TypeInv, run.phase = "reconcile"
    PROVE  /\ Reconciled(s) \in RunType
           /\ Reconciled(s).phase = "reconcile" /\ Reconciled(s).restart = {}
           /\ AfterStop(s) \in [Slots -> Contents \cup {Down}]
           /\ AfterCleanup(s) \in [Slots -> Contents \cup {Absent, Emptied}]
  <1>1. run \in RunType /\ run.hash \in HashType /\ run.restart = {}
    BY DEF TypeInv, TypeOK, RunType, RunSound
  <1>2. RemoveHash(run.hash, {s}) \in HashType
    BY <1>1, RemoveEffect
  <1>3. /\ Reconciled(s) \in RunType
        /\ Reconciled(s).phase = "reconcile" /\ Reconciled(s).restart = {}
    BY <1>1, <1>2 DEF Reconciled, RunType
  <1> QED BY <1>3 DEF AfterStop, AfterCleanup, TypeInv, TypeOK

(* Stopping an allocation keeps types, in every way it can go. *)
LEMMA ReconcileStopType ==
    ASSUME NEW s \in Slots, TypeInv, ReconcileStop(s)
    PROVE  TypeInv'
  <1>1. run.phase = "reconcile"
    BY DEF ReconcileStop
  <1>2. live' \in {live, AfterStop(s)} /\ tree' \in {tree, AfterCleanup(s)}
    BY DEF ReconcileStop
  <1>3. HostsTyped'
    BY <1>1, <1>2, ReconcileEffect DEF HostsTyped, TypeInv, TypeOK, ReconcileStop
  <1>4. faults' \in Nat
    BY FaultCount DEF ReconcileStop, TypeInv
  <1>5. CASE Abort
    BY <1>3, <1>4, <1>5, AbortType
  <1>6. CASE run' = Reconciled(s) /\ UNCHANGED <<db, ledger, builds, edits>>
    <2>1. run' \in RunType /\ run'.phase = "reconcile" /\ run'.restart = {}
      BY <1>1, <1>6, ReconcileEffect
    <2>2. UNCHANGED <<catalog, hash, updateSeq, result, owed, builds, edits, finished>>
      BY <1>6 DEF db, ledger
    <2>3. finished' \subseteq Jobs
      BY <2>2 DEF TypeInv, TypeOK
    <2> QED BY <1>3, <1>4, <2>1, <2>2, <2>3, QuietStepType
  <1> QED BY <1>5, <1>6 DEF ReconcileStop

(* Passing over an allocation that was never promoted keeps types. *)
LEMMA ReconcileSkipType ==
    ASSUME NEW s \in Slots, TypeInv, ReconcileSkip(s)
    PROVE  TypeInv'
  <1>1. run' \in RunType /\ run'.phase = "reconcile" /\ run'.restart = {}
    BY ReconcileEffect DEF ReconcileSkip
  <1>2. UNCHANGED <<catalog, hash, updateSeq, tree, live, jobsFile, seqFile, result, owed,
                    finished, faults, builds, edits>>
    BY DEF ReconcileSkip, db, hosts, ledger, bounds
  <1>3. HostsTyped' /\ faults' \in Nat /\ finished' \subseteq Jobs
    BY <1>2 DEF HostsTyped, TypeInv, TypeOK
  <1> QED BY <1>1, <1>2, <1>3, QuietStepType

(* The health checks and wiped buckets that end reconcile keep types. *)
LEMMA FinishReconcileType == TypeInv /\ FinishReconcile => TypeInv'
  <1> SUFFICES ASSUME TypeInv, FinishReconcile PROVE TypeInv'
    OBVIOUS
  <1>1. faults' \in Nat
    BY FaultCount DEF FinishReconcile, TypeInv
  <1>2. CASE Abort /\ UNCHANGED hosts
    <2>1. HostsTyped'
      BY <1>2 DEF hosts, HostsTyped, TypeInv, TypeOK
    <2> QED BY <1>1, <1>2, <2>1, AbortType
  <1>3. CASE /\ \E gone \in SUBSET Wiped :
                   /\ seqFile' = [w \in Workers |-> IF w \in gone THEN 0 ELSE seqFile[w]]
                   /\ jobsFile' = [w \in Workers |-> IF w \in gone THEN {} ELSE jobsFile[w]]
                   /\ tree' = [s \in Slots |-> IF WorkerOf(s) \in gone THEN Absent ELSE tree[s]]
             /\ run' = [run EXCEPT !.phase = "plan"]
             /\ UNCHANGED <<db, live, ledger, builds, edits>>
    <2>1. HostsTyped'
      BY <1>3 DEF HostsTyped, TypeInv, TypeOK
    <2>2. run' \in RunType /\ run'.phase = "plan" /\ run'.restart = {}
      BY <1>3 DEF TypeInv, TypeOK, RunType, RunSound, FinishReconcile
    <2>3. UNCHANGED <<catalog, hash, updateSeq, result, owed, builds, edits, finished>>
      BY <1>3 DEF db, ledger
    <2>4. finished' \subseteq Jobs
      BY <2>3 DEF TypeInv, TypeOK
    <2> QED BY <1>1, <2>1, <2>2, <2>3, <2>4, QuietStepType
  <1> QED BY <1>2, <1>3 DEF FinishReconcile

(* Planning a sequence stages jobs of the catalog only. *)
LEMMA PlanWaveType == TypeInv /\ PlanWave => TypeInv'
  <1> SUFFICES ASSUME TypeInv, PlanWave PROVE TypeInv'
    OBVIOUS
  <1> DEFINE wave == JobsAtSeq(catalog, DeploymentSeq, run.wave) \cap run.opts.jobs
             plan(bad) == UpdateAllocationPlan(catalog, run.hash, wave \ bad)
             need(bad) == {j \in wave \ bad : JobNeedsRollout(catalog, plan(bad), j)}
  <1>1. PICK bad \in SUBSET wave :
            run' = [run EXCEPT !.phase = "stage", !.hash = plan(bad),
                               !.staged = IF run.opts.force THEN wave \ bad ELSE need(bad),
                               !.attempted = @ \cup need(bad),
                               !.errors = @ \/ bad # {}]
    BY DEF PlanWave
  <1>2. wave \subseteq Jobs
    BY DEF JobsAtSeq
  <1>3. plan(bad) \in HashType
    BY <1>2, PlanEffect DEF TypeInv, TypeOK, RunType
  <1>4. need(bad) \subseteq wave
    OBVIOUS
  <1> HIDE DEF wave, plan, need
  <1>5. run' \in RunType /\ run'.phase = "stage" /\ run'.restart = {}
    <2>1. run \in RunType /\ run.restart = {}
      BY DEF TypeInv, TypeOK, RunSound, PlanWave
    <2> QED BY <1>1, <1>2, <1>3, <1>4, <2>1 DEF RunType
  <1>6. UNCHANGED <<catalog, hash, updateSeq, tree, live, jobsFile, seqFile, result, owed,
                    finished, builds, edits>>
    BY DEF PlanWave, db, hosts, ledger
  <1>7. faults' \in Nat
    BY FaultCount DEF PlanWave, TypeInv
  <1>8. HostsTyped' /\ finished' \subseteq Jobs
    BY <1>6 DEF HostsTyped, TypeInv, TypeOK
  <1> QED BY <1>5, <1>6, <1>7, <1>8, QuietStepType

(* Going on to the next sequence, or to the final sync, keeps types. *)
LEMMA NextWaveType == TypeInv /\ NextWave => TypeInv'
  <1> SUFFICES ASSUME TypeInv, NextWave PROVE TypeInv'
    OBVIOUS
  <1>1. UNCHANGED <<catalog, hash, updateSeq, tree, live, jobsFile, seqFile, result, owed,
                    finished, faults, builds, edits>>
    BY DEF NextWave, db, hosts, ledger, bounds
  <1>2. run' \in RunType /\ run'.phase \in {"plan", "final"} /\ run'.restart = {}
    <2> DEFINE w == run.wave + 1
    <2>1. run \in RunType /\ w \in Nat /\ run.restart = {}
      BY DEF TypeInv, TypeOK, RunType, NextWave, RunSound
    <2>2. \/ run' = [run EXCEPT !.phase = "plan", !.wave = w]
          \/ run' = [run EXCEPT !.phase = "final"]
      BY DEF NextWave
    <2> HIDE DEF w
    <2>3. CASE run' = [run EXCEPT !.phase = "plan", !.wave = w]
      BY <2>1, <2>3 DEF RunType
    <2>4. CASE run' = [run EXCEPT !.phase = "final"]
      BY <2>1, <2>4 DEF RunType
    <2> QED BY <2>2, <2>3, <2>4
  <1>3. HostsTyped' /\ faults' \in Nat /\ finished' \subseteq Jobs
    BY <1>1 DEF HostsTyped, TypeInv, TypeOK
  <1> QED BY <1>1, <1>2, <1>3, QuietStepType

(* syncWorkers and finalSyncDeployedJobs put job trees on disk, or clear them. *)
LEMMA SyncedType ==
    ASSUME NEW S, NEW W, TypeInv, Synced(S, W)
    PROVE  /\ tree' \in [Slots -> Contents \cup {Absent, Emptied}]
           /\ jobsFile' \in [Workers -> SUBSET Jobs]
           /\ seqFile' \in [Workers -> Nat]
           /\ \A s \in S \cap (catalog.rows \ catalog.removed) : tree'[s] \in Contents
  <1>1. \A s \in Slots : s \in NonRemoved(catalog, JobOf(s))
                             => catalog.content[JobOf(s)] \in Contents
    BY DEF TypeInv, TypeOK, CatalogSound, NonRemoved, CatalogType, MaybeContent, Slots, JobOf
  <1>2. \A s \in Slots : SyncedTree(s) \in Contents \cup {Absent, Emptied}
    BY <1>1 DEF SyncedTree
  <1>3. catalog.rows \subseteq Slots
    BY DEF TypeInv, TypeOK, CatalogType
  <1>4. \A s \in catalog.rows \ catalog.removed : s \in NonRemoved(catalog, JobOf(s))
    BY DEF NonRemoved
  <1>5. \A s \in catalog.rows \ catalog.removed : SyncedTree(s) \in Contents
    BY <1>1, <1>3, <1>4 DEF SyncedTree
  <1>6. tree' = [s \in Slots |-> IF s \in S THEN SyncedTree(s) ELSE tree[s]]
    BY DEF Synced
  <1>7. tree' \in [Slots -> Contents \cup {Absent, Emptied}]
    BY <1>2, <1>6 DEF TypeInv, TypeOK
  <1>8. \A s \in S \cap (catalog.rows \ catalog.removed) : tree'[s] \in Contents
    BY <1>3, <1>5, <1>6
  <1>9. jobsFile' \in [Workers -> SUBSET Jobs] /\ seqFile' \in [Workers -> Nat]
    BY DEF Synced, TypeInv, TypeOK
  <1> QED BY <1>7, <1>8, <1>9

(* Every allocation of a job that is not removed is on a worker of the catalog. *)
LEMMA PlacedOnWorkers ==
    ASSUME TypeInv, NEW j, NEW s \in NonRemoved(catalog, j)
    PROVE  s \in {j} \X catalog.workers
  <1>1. s \in Slots /\ JobOf(s) = j /\ WorkerOf(s) \in catalog.workers
    BY DEF NonRemoved, TypeInv, TypeOK, CatalogSound, CatalogType
  <1>2. PICK k \in Jobs, w \in Workers : s = <<k, w>>
    BY <1>1 DEF Slots
  <1> QED BY <1>1, <1>2 DEF JobOf, WorkerOf

(* The states SyncJob may leave a deploy in. *)
LEMMA SyncJobType ==
    ASSUME NEW j \in Jobs, TypeInv, SyncJob(j)
    PROVE  TypeInv'
  <1>1. PICK full \in SUBSET catalog.workers :
            /\ \E W : Synced({j} \X full, W)
            /\ IF full = catalog.workers
               THEN /\ Faultless
                    /\ LET h == UpdateAllocationPlan(catalog, run.hash, {j})
                           new == NewAllocations(catalog, h, j)
                           r == [run EXCEPT !.staged = @ \ {j}, !.hash = h]
                       IN  run' = IF run.opts.syncOnly
                                  THEN IF new = {}
                                       THEN [r EXCEPT !.phase = "finalize", !.job = j]
                                       ELSE [r EXCEPT !.errors = TRUE]
                                  ELSE [r EXCEPT !.phase = "start", !.job = j, !.todo = new]
                    /\ UNCHANGED <<db, ledger, builds, edits>>
               ELSE Fault("sync") /\ Abort
    BY DEF SyncJob
  <1>2. HostsTyped'
    BY <1>1, SyncedType DEF HostsTyped, TypeInv, TypeOK, SyncJob
  <1>3. faults' \in Nat
    BY <1>1, FaultCount DEF TypeInv
  <1>4. CASE full # catalog.workers
    BY <1>1, <1>2, <1>3, <1>4, AbortType
  <1>5. CASE full = catalog.workers
    <2> DEFINE h == UpdateAllocationPlan(catalog, run.hash, {j})
               new == NewAllocations(catalog, h, j)
               r == [run EXCEPT !.staged = @ \ {j}, !.hash = h]
    <2>1. h \in HashType
      BY PlanEffect DEF TypeInv, TypeOK, RunType
    <2>2. new \subseteq Active(catalog, j) /\ new \subseteq Slots
      BY AllocationQueries DEF TypeInv, TypeOK
    <2>3. \/ run' = [r EXCEPT !.phase = "finalize", !.job = j]
          \/ run' = [r EXCEPT !.errors = TRUE]
          \/ run' = [r EXCEPT !.phase = "start", !.job = j, !.todo = new]
      BY <1>1, <1>5
    <2>4. UNCHANGED <<catalog, hash, updateSeq, result, owed, builds, edits, finished>>
      BY <1>1, <1>5 DEF db, ledger
    <2>5. finished' \subseteq Jobs
      BY <2>4 DEF TypeInv, TypeOK
    <2> HIDE DEF h, new
    <2>6. r \in RunType /\ r.phase = "stage" /\ r.restart = {}
      BY <2>1 DEF TypeInv, TypeOK, RunSound, RunType, SyncJob
    <2> HIDE DEF r
    <2>7. CASE \/ run' = [r EXCEPT !.phase = "finalize", !.job = j]
               \/ run' = [r EXCEPT !.errors = TRUE]
      <3>1. /\ run' \in RunType /\ run'.phase \in {"finalize", "stage"} /\ run'.restart = {}
            /\ (run'.phase = "finalize" => run'.job \in Jobs)
        <4>1. CASE run' = [r EXCEPT !.phase = "finalize", !.job = j]
          BY <2>6, <4>1 DEF RunType
        <4>2. CASE run' = [r EXCEPT !.errors = TRUE]
          BY <2>6, <4>2 DEF RunType
        <4> QED BY <2>7, <4>1, <4>2
      <3> QED BY <1>2, <1>3, <2>4, <2>5, <3>1, QuietStepType
    <2>8. CASE run' = [r EXCEPT !.phase = "start", !.job = j, !.todo = new]
      <3>1. /\ run' \in RunType /\ run'.phase = "start" /\ run'.job = j
            /\ run'.todo = new /\ run'.restart = {}
        BY <2>2, <2>6, <2>8 DEF RunType
      <3>3. TypeOK'
        BY <1>2, <1>3, <2>2, <2>4, <2>5, <3>1 DEF HostsTyped, TypeInv, TypeOK
      <3>4. CatalogSound'
        BY <2>4 DEF TypeInv, CatalogSound
      <3>5. \A s \in NonRemoved(catalog, j) : s \in {j} \X full
        BY <1>5, PlacedOnWorkers
      <3>6. \A s \in NonRemoved(catalog, j) : tree'[s] \in Contents
        BY <1>1, <3>5, SyncedType DEF NonRemoved
      <3>7. TreesInPlace'
        BY <2>4, <3>1, <3>6 DEF TreesInPlace
      <3> QED BY <3>1, <3>3, <3>4, <3>7 DEF TypeInv, RunSound
    <2> QED BY <2>3, <2>7, <2>8
  <1> QED BY <1>4, <1>5

(* The end of a job that failed. *)
LEMMA JobFailedType ==
    ASSUME TypeInv, JobFailed
    PROVE  run' \in RunType /\ run'.phase = "stage" /\ run'.restart = {}
  BY DEF TypeInv, TypeOK, JobFailed, RunType

(* Whatever make starts, reloads or restarts runs the tree that is on disk. *)
LEMMA EffectType ==
    ASSUME TypeInv, run.phase \in {"start", "reload", "restart"}, NEW s \in run.todo
    PROVE  Effect(s) \in Contents \cup {Down}
  <1>1. s \in Slots /\ live[s] \in Contents \cup {Down}
    BY DEF TypeInv, TypeOK, RunType
  <1>2. tree[s] \in Contents
    BY AllocationQueries DEF TypeInv, TypeOK, TreesInPlace
  <1> QED BY <1>1, <1>2 DEF Effect

(* A batch, however many of its commands fail, leaves processes of their types and
   the rest of the batch queue active. *)
LEMMA RunBatchType == TypeInv /\ RunBatch => TypeInv'
  <1> SUFFICES ASSUME TypeInv, RunBatch PROVE TypeInv'
    OBVIOUS
  <1> DEFINE started(B) == [s \in Slots |-> IF s \in B THEN Effect(s) ELSE live[s]]
  <1>1. run.phase \in {"start", "reload", "restart"}
    BY DEF RunBatch
  <1>2. UNCHANGED <<catalog, hash, updateSeq, tree, jobsFile, seqFile, result, owed,
                    finished, builds, edits>>
    BY DEF RunBatch, db, ledger
  <1>3. PICK B \in SUBSET run.todo :
            \/ /\ live' = started(B)
               /\ \/ run' = [run EXCEPT !.todo = @ \ B, !.touched = @ \cup B]
                  \/ JobFailed
            \/ /\ JobFailed
               /\ \E bad \in SUBSET B :
                     \/ live' = started(B \ bad)
                     \/ live' = [s \in Slots |-> IF s \in bad THEN Down
                                                ELSE IF s \in B THEN Effect(s) ELSE live[s]]
    BY DEF RunBatch
  <1>4. live' \in [Slots -> Contents \cup {Down}]
    <2>1. \A s \in B : Effect(s) \in Contents \cup {Down}
      BY <1>1, EffectType
    <2>2. \A s \in Slots : live[s] \in Contents \cup {Down}
      BY DEF TypeInv, TypeOK
    <2> QED BY <1>3, <2>1, <2>2
  <1>5. HostsTyped' /\ finished' \subseteq Jobs
    BY <1>2, <1>4 DEF HostsTyped, TypeInv, TypeOK
  <1>6. faults' \in Nat
    BY FaultCount DEF RunBatch, TypeInv
  <1>7. CASE JobFailed
    BY <1>2, <1>5, <1>6, <1>7, JobFailedType, QuietStepType
  <1>8. CASE run' = [run EXCEPT !.todo = @ \ B, !.touched = @ \cup B]
    <2>1. /\ run' \in RunType /\ run'.phase = run.phase /\ run'.job = run.job
          /\ run'.restart = run.restart /\ run'.todo \subseteq run.todo
      BY <1>8 DEF TypeInv, TypeOK, RunType
    <2>2. run'.todo \cup run'.restart \subseteq Active(catalog, run.job)
      BY <1>1, <2>1 DEF TypeInv, TypeOK
    <2>3. RunSound'
      BY <2>1 DEF TypeInv, RunSound
    <2> QED BY <1>1, <1>2, <1>5, <1>6, <2>1, <2>2, <2>3, RolloutStepType
  <1> QED BY <1>3, <1>7, <1>8

(* A health check ends the job or lets the rollout go on; types are kept. *)
LEMMA CheckHealthType == TypeInv /\ CheckHealth => TypeInv'
  <1> SUFFICES ASSUME TypeInv, CheckHealth PROVE TypeInv'
    OBVIOUS
  <1>1. run.phase \in {"start", "reload", "restart"}
    BY DEF CheckHealth
  <1>2. UNCHANGED <<catalog, hash, updateSeq, tree, live, jobsFile, seqFile, result, owed,
                    finished, builds, edits>>
    BY DEF CheckHealth, db, hosts, ledger
  <1>3. HostsTyped' /\ finished' \subseteq Jobs
    BY <1>2 DEF HostsTyped, TypeInv, TypeOK
  <1>4. faults' \in Nat
    BY FaultCount DEF CheckHealth, TypeInv
  <1>5. CASE JobFailed
    BY <1>2, <1>3, <1>4, <1>5, JobFailedType, QuietStepType
  <1>6. CASE run' = [run EXCEPT !.touched = {}]
    <2>1. /\ run' \in RunType /\ run'.phase = run.phase /\ run'.job = run.job
          /\ run'.restart = run.restart /\ run'.todo = run.todo
      BY <1>6 DEF TypeInv, TypeOK, RunType
    <2>2. run'.todo \cup run'.restart \subseteq Active(catalog, run.job)
      BY <1>1, <2>1 DEF TypeInv, TypeOK
    <2>3. RunSound'
      BY <2>1 DEF TypeInv, RunSound
    <2> QED BY <1>1, <1>2, <1>3, <1>4, <2>1, <2>2, <2>3, RolloutStepType
  <1> QED BY <1>5, <1>6 DEF CheckHealth

(* Only active allocations of the job in hand are queued for reload or restart. *)
LEMMA ChooseUpdatesType == TypeInv /\ ChooseUpdates => TypeInv'
  <1> SUFFICES ASSUME TypeInv, ChooseUpdates PROVE TypeInv'
    OBVIOUS
  <1>1. UNCHANGED <<catalog, hash, updateSeq, tree, live, jobsFile, seqFile, result, owed,
                    finished, faults, builds, edits>>
    BY DEF ChooseUpdates, db, hosts, ledger, bounds
  <1>2. HostsTyped' /\ faults' \in Nat
    BY <1>1 DEF HostsTyped, TypeInv, TypeOK
  <1> DEFINE updated == {s \in NeedingRestart(catalog, run.hash, run.job, run.opts.force) :
                            UpdateAction(run.hash, s) # "sync"}
             restart == {s \in updated : UpdateAction(run.hash, s) = "restart"}
  <1>3. run' = [run EXCEPT !.phase = "reload", !.todo = updated \ restart, !.restart = restart]
    BY DEF ChooseUpdates
  <1>4. updated \subseteq Active(catalog, run.job) /\ restart \subseteq updated
    BY DEF NeedingRestart
  <1> HIDE DEF updated, restart
  <1>5. Active(catalog, run.job) \subseteq Slots
    BY AllocationQueries DEF TypeInv, TypeOK
  <1>6. /\ run' \in RunType /\ run'.phase = "reload" /\ run'.job = run.job
        /\ run'.todo \cup run'.restart \subseteq Active(catalog, run.job)
    BY <1>3, <1>4, <1>5 DEF TypeInv, TypeOK, RunType
  <1>7. RunSound'
    BY <1>6 DEF RunSound
  <1> QED BY <1>1, <1>2, <1>6, <1>7, RolloutStepType DEF ChooseUpdates

(* Reloads give way to restarts, restarts to the promotion of the job. *)
LEMMA NextActionType == TypeInv /\ NextAction => TypeInv'
  <1> SUFFICES ASSUME TypeInv, NextAction PROVE TypeInv'
    OBVIOUS
  <1>1. UNCHANGED <<catalog, hash, updateSeq, tree, live, jobsFile, seqFile, result, owed,
                    finished, faults, builds, edits>>
    BY DEF NextAction, db, hosts, ledger, bounds
  <1>2. HostsTyped' /\ faults' \in Nat /\ finished' \subseteq Jobs
    BY <1>1 DEF HostsTyped, TypeInv, TypeOK
  <1>3. CASE run.phase = "reload"
    <2>1. run' = [run EXCEPT !.phase = "restart", !.todo = run.restart, !.restart = {}]
      BY <1>3 DEF NextAction
    <2>2. /\ run' \in RunType /\ run'.phase = "restart" /\ run'.job = run.job
          /\ run'.todo = run.restart /\ run'.restart = {}
      BY <2>1 DEF TypeInv, TypeOK, RunType
    <2>3. run'.todo \cup run'.restart \subseteq Active(catalog, run.job)
      BY <1>3, <2>2 DEF TypeInv, TypeOK
    <2>4. RunSound'
      BY <2>2 DEF RunSound
    <2> QED BY <1>1, <1>2, <1>3, <2>2, <2>3, <2>4, RolloutStepType
  <1>4. CASE run.phase = "restart"
    <2>1. run' = [run EXCEPT !.phase = "finalize"]
      BY <1>4 DEF NextAction
    <2>2. /\ run' \in RunType /\ run'.phase = "finalize"
          /\ run'.restart = {} /\ run'.job \in Jobs
      BY <1>4, <2>1 DEF TypeInv, TypeOK, RunSound, RunType
    <2> QED BY <1>1, <1>2, <2>2, QuietStepType
  <1> QED BY <1>3, <1>4 DEF NextAction

(* Promoting the job in hand, or failing to, keeps types. *)
LEMMA FinalizeJobType == TypeInv /\ FinalizeJob => TypeInv'
  <1> SUFFICES ASSUME TypeInv, FinalizeJob PROVE TypeInv'
    OBVIOUS
  <1>1. run.job \in Jobs /\ run \in RunType /\ run.restart = {}
    BY DEF FinalizeJob, TypeInv, TypeOK, RunSound
  <1>2. UNCHANGED <<catalog, hash, updateSeq, tree, live, jobsFile, seqFile, result, owed,
                    builds, edits>>
    BY DEF FinalizeJob, db, hosts
  <1>3. HostsTyped'
    BY <1>2 DEF HostsTyped, TypeInv, TypeOK
  <1>4. faults' \in Nat
    BY FaultCount DEF FinalizeJob, TypeInv
  <1>5. finished' \subseteq Jobs
    BY <1>1 DEF FinalizeJob, TypeInv, TypeOK
  <1>6. CASE JobFailed
    BY <1>2, <1>3, <1>4, <1>5, <1>6, JobFailedType, QuietStepType
  <1>7. CASE run' = [run EXCEPT !.phase = "stage", !.job = None,
                                !.hash = Promote(catalog, @, run.job),
                                !.deployed = @ \cup {run.job}]
    <2>1. Promote(catalog, run.hash, run.job) \in HashType
      BY <1>1, PromoteEffect DEF TypeInv, TypeOK, RunType
    <2>2. run' \in RunType /\ run'.phase = "stage" /\ run'.restart = {}
      BY <1>1, <1>7, <2>1 DEF RunType
    <2> QED BY <1>2, <1>3, <1>4, <1>5, <2>2, QuietStepType
  <1> QED BY <1>6, <1>7 DEF FinalizeJob

(* The final sync keeps types. *)
LEMMA FinalSyncType == TypeInv /\ FinalSync => TypeInv'
  <1> SUFFICES ASSUME TypeInv, FinalSync PROVE TypeInv'
    OBVIOUS
  <1>1. PICK S : /\ Synced(S, {WorkerOf(s) : s \in S})
                 /\ \E b \in BOOLEAN :
                       run' = [run EXCEPT !.phase = "commit", !.errors = @ \/ b]
    BY DEF FinalSync
  <1>2. UNCHANGED <<catalog, hash, updateSeq, live, result, owed, finished, builds, edits>>
    BY DEF FinalSync, db, ledger
  <1>3. HostsTyped' /\ finished' \subseteq Jobs
    BY <1>1, <1>2, SyncedType DEF HostsTyped, TypeInv, TypeOK
  <1>4. faults' \in Nat
    BY FaultCount DEF FinalSync, TypeInv
  <1>5. run' \in RunType /\ run'.phase = "commit" /\ run'.restart = {}
    <2>1. run \in RunType /\ run.restart = {}
      BY DEF FinalSync, TypeInv, TypeOK, RunSound
    <2> QED BY <1>1, <2>1 DEF RunType
  <1> QED BY <1>2, <1>3, <1>4, <1>5, QuietStepType

(* The table a deploy commits has the type of the table it started from. *)
LEMMA CommitType == TypeInv /\ Commit => TypeInv'
  <1> SUFFICES ASSUME TypeInv, Commit PROVE TypeInv'
    OBVIOUS
  <1>1. run \in RunType
    BY DEF TypeInv, TypeOK
  <1>2. hash' \in HashType /\ owed' \subseteq Jobs
    BY <1>1 DEF Commit, TypeInv, TypeOK, RunType
  <1>3. run' \in RunType /\ run'.phase = "idle" /\ run'.restart = {}
    BY IdleType DEF Commit
  <1>4. TypeOK'
    BY <1>2, <1>3 DEF Commit, TypeInv, TypeOK, hosts
  <1>5. CatalogSound'
    BY DEF Commit, TypeInv, CatalogSound
  <1> QED BY <1>3, <1>4, <1>5 DEF TypeInv, TreesInPlace, RunSound

(* A crash keeps types: only the locals are lost. *)
LEMMA CrashType == TypeInv /\ Crash => TypeInv'
  <1> SUFFICES ASSUME TypeInv, Crash PROVE TypeInv'
    OBVIOUS
  <1>1. HostsTyped'
    BY DEF Crash, hosts, HostsTyped, TypeInv, TypeOK
  <1>2. faults' \in Nat
    BY FaultCount DEF Crash, TypeInv
  <1> QED BY <1>1, <1>2, AbortType DEF Crash

(* A step of somebody else keeps types. *)
LEMMA StutterType == TypeInv /\ UNCHANGED vars => TypeInv'
  <1> SUFFICES ASSUME TypeInv, UNCHANGED vars PROVE TypeInv'
    OBVIOUS
  <1>1. UNCHANGED <<catalog, hash, updateSeq, tree, live, jobsFile, seqFile, run, result,
                    owed, finished, faults, builds, edits>>
    BY DEF vars, db, hosts, ledger, bounds
  <1> QED BY <1>1 DEF TypeInv, TypeOK, CatalogSound, TreesInPlace, RunSound

(* TypeInv is inductive. *)
LEMMA NextType == TypeInv /\ [Next]_vars => TypeInv'
  <1> SUFFICES ASSUME TypeInv, [Next]_vars PROVE TypeInv'
    OBVIOUS
  <1>1. CASE DeployStep
    BY <1>1, ReconcileStopType, ReconcileSkipType, FinishReconcileType, PlanWaveType,
       NextWaveType, SyncJobType, RunBatchType, CheckHealthType, ChooseUpdatesType,
       NextActionType, FinalizeJobType, FinalSyncType, CommitType DEF DeployStep
  <1> QED BY <1>1, BuildType, GCType, StartDeployType, CrashType, StutterType DEF Next

(* The database, the workers and the deploy in progress keep their types through
   builds, collections, deploys, faults and crashes, and no start, reload or
   restart is ever queued for an allocation that is disabled, removed or of
   another job. *)
THEOREM TypeCorrect == Spec => []TypeOK
  <1>1. TypeInv => TypeOK
    BY DEF TypeInv
  <1> QED BY InitType, NextType, <1>1, PTL DEF Spec


-----------------------------------------------------------------------------
(* Sequences are planned once each and in order: whatever is staged, in hand or
   deployed belongs to the current one or to one before. *)
WaveInv ==
    /\ \A j \in run.deployed \cup run.staged : DeploymentSeq[j] <= run.wave
    /\ run.job \in Jobs => DeploymentSeq[run.job] <= run.wave
    /\ run.phase = "plan" => \A j \in run.deployed : DeploymentSeq[j] < run.wave
    /\ run.phase \in {"idle", "reconcile"} => run.deployed = {} /\ run.attempted = {}

(* The ways in which a step of a deploy treats its copy of the hash table. *)
KeepsHash ==
    /\ run'.hash = run.hash /\ run'.attempted = run.attempted /\ run'.deployed = run.deployed
    /\ run'.phase # "reconcile"
    /\ run.phase = "reconcile" => run.todo = {}

ForgetsOne(s) ==
    /\ run.phase = "reconcile" /\ run'.phase = "reconcile" /\ s \in Slots
    /\ run'.todo = run.todo \ {s}
    /\ run'.hash = IF s \in catalog.removed THEN RemoveHash(run.hash, {s}) ELSE run.hash
    /\ run'.attempted = run.attempted /\ run'.deployed = run.deployed

PlansJobs(J) ==
    /\ run.phase # "reconcile" /\ run'.phase # "reconcile"
    /\ J \subseteq Jobs
    /\ run'.hash = UpdateAllocationPlan(catalog, run.hash, J)
    /\ run'.deployed = run.deployed
    /\ \A j \in run'.attempted \ run.attempted :
          j \in J \ run.deployed /\ JobNeedsRollout(catalog, run'.hash, j)

PromotesJob(j) ==
    /\ run.phase # "reconcile" /\ run'.phase # "reconcile"
    /\ j \in Jobs
    /\ run'.hash = Promote(catalog, run.hash, j)
    /\ run'.attempted = run.attempted
    /\ run'.deployed = run.deployed \cup {j}

Works ==
    /\ UNCHANGED <<catalog, hash, owed, result>>
    /\ run.phase # "idle" /\ run'.phase # "idle"
    /\ \/ KeepsHash
       \/ \E s : ForgetsOne(s)
       \/ \E J : PlansJobs(J)
       \/ \E j : PromotesJob(j)

(* The fields a failed job leaves alone. *)
LEMMA JobFailedWorks ==
    ASSUME TypeInv, WaveInv, JobFailed, run.phase \notin {"idle", "reconcile"},
           UNCHANGED <<catalog, hash, owed, result>>
    PROVE  WaveInv' /\ Works
  <1>1. run \in RunType
    BY DEF TypeInv, TypeOK
  <1>2. /\ run'.phase = "stage" /\ run'.hash = run.hash /\ run'.job = None
        /\ run'.attempted = run.attempted /\ run'.deployed = run.deployed
        /\ run'.staged = run.staged /\ run'.wave = run.wave
    BY <1>1 DEF JobFailed, RunType
  <1>3. None \notin Jobs
    BY DeployAssumption
  <1>4. WaveInv'
    BY <1>2, <1>3 DEF WaveInv
  <1> QED BY <1>2, <1>4 DEF Works, KeepsHash

(* Going on to the next sequence puts every deployed job behind it. *)
LEMMA NextWaveWorks ==
    ASSUME TypeInv, WaveInv, NextWave
    PROVE  WaveInv' /\ Works
  <1>1. UNCHANGED <<catalog, hash, owed, result>> /\ run.phase = "stage" /\ run.staged = {}
    BY DEF NextWave, db, ledger
  <1> DEFINE w == run.wave + 1
  <1>2. run \in RunType /\ w \in Nat /\ run.wave \in Nat /\ run.deployed \subseteq Jobs
    BY DEF TypeInv, TypeOK, RunType
  <1>3. \/ run' = [run EXCEPT !.phase = "plan", !.wave = w]
        \/ run' = [run EXCEPT !.phase = "final"]
    BY DEF NextWave
  <1>4. \A j \in Jobs : DeploymentSeq[j] \in Nat
    BY DeployAssumption
  <1>5. \A j \in Jobs : DeploymentSeq[j] <= run.wave => DeploymentSeq[j] < w
    BY <1>2, <1>4
  <1>6. \A j \in Jobs : DeploymentSeq[j] < w => DeploymentSeq[j] <= w
    BY <1>2, <1>4
  <1> HIDE DEF w
  <1>7. CASE run' = [run EXCEPT !.phase = "plan", !.wave = w]
    <2>1. /\ run'.phase = "plan" /\ run'.hash = run.hash /\ run'.job = run.job
          /\ run'.attempted = run.attempted /\ run'.deployed = run.deployed
          /\ run'.staged = {} /\ run'.wave = w
      BY <1>1, <1>2, <1>7 DEF RunType
    <2>2. WaveInv'
      BY <1>2, <1>5, <1>6, <2>1 DEF WaveInv
    <2> QED BY <1>1, <2>1, <2>2 DEF Works, KeepsHash
  <1>8. CASE run' = [run EXCEPT !.phase = "final"]
    <2>1. /\ run'.phase = "final" /\ run'.hash = run.hash /\ run'.job = run.job
          /\ run'.attempted = run.attempted /\ run'.deployed = run.deployed
          /\ run'.staged = run.staged /\ run'.wave = run.wave
      BY <1>2, <1>8 DEF RunType
    <2>2. WaveInv'
      BY <2>1 DEF WaveInv
    <2> QED BY <1>1, <2>1, <2>2 DEF Works, KeepsHash
  <1> QED BY <1>3, <1>7, <1>8

(* A deploy that is over has no sequence behind it. *)
LEMMA IdleWave == run' = Idle => WaveInv'
  <1>1. None \notin Jobs
    BY DeployAssumption
  <1> QED BY <1>1 DEF Idle, WaveInv

(* Reconcile forgets one allocation at a time, and aborts at the first error. *)
LEMMA ReconcileWorks ==
    ASSUME TypeInv, WaveInv, NEW s \in Slots, ReconcileStop(s) \/ ReconcileSkip(s)
    PROVE  WaveInv' /\ (Works \/ Abort)
  <1>1. CASE Abort
    BY <1>1, IdleWave DEF Abort
  <1>2. CASE run' = Reconciled(s) /\ UNCHANGED <<db, ledger>>
    <2>1. run \in RunType /\ run.phase = "reconcile"
      BY DEF TypeInv, TypeOK, ReconcileStop, ReconcileSkip
    <2>2. /\ run'.phase = "reconcile" /\ run'.todo = run.todo \ {s} /\ run'.job = run.job
          /\ run'.hash = IF s \in catalog.removed THEN RemoveHash(run.hash, {s}) ELSE run.hash
          /\ run'.attempted = run.attempted /\ run'.deployed = run.deployed
          /\ run'.staged = run.staged /\ run'.wave = run.wave
      BY <1>2, <2>1 DEF Reconciled, RunType
    <2>3. WaveInv'
      BY <2>1, <2>2 DEF WaveInv
    <2>4. UNCHANGED <<catalog, hash, owed, result>>
      BY <1>2 DEF db, ledger
    <2> QED BY <2>1, <2>2, <2>3, <2>4 DEF Works, ForgetsOne
  <1> QED BY <1>1, <1>2 DEF ReconcileStop, ReconcileSkip

(* Reconcile is over once every stopped allocation was visited. *)
LEMMA FinishReconcileWorks ==
    ASSUME TypeInv, WaveInv, FinishReconcile
    PROVE  WaveInv' /\ (Works \/ Abort)
  <1>1. CASE Abort
    BY <1>1, IdleWave DEF Abort
  <1>2. CASE run' = [run EXCEPT !.phase = "plan"] /\ UNCHANGED <<db, ledger>>
    <2>1. run \in RunType /\ run.phase = "reconcile" /\ run.todo = {}
      BY DEF TypeInv, TypeOK, FinishReconcile
    <2>2. /\ run'.phase = "plan" /\ run'.hash = run.hash /\ run'.job = run.job
          /\ run'.attempted = run.attempted /\ run'.deployed = run.deployed
          /\ run'.staged = run.staged /\ run'.wave = run.wave
      BY <1>2, <2>1 DEF RunType
    <2>3. WaveInv'
      BY <2>1, <2>2 DEF WaveInv
    <2>4. UNCHANGED <<catalog, hash, owed, result>>
      BY <1>2 DEF db, ledger
    <2> QED BY <2>1, <2>2, <2>3, <2>4 DEF Works, KeepsHash
  <1> QED BY <1>1, <1>2 DEF FinishReconcile

(* The jobs a sequence adds to the attempted ones need a rollout by the plan just
   written, and none of them was deployed before. *)
LEMMA PlanWaveWorks ==
    ASSUME TypeInv, WaveInv, PlanWave
    PROVE  WaveInv' /\ Works
  <1> DEFINE wave == JobsAtSeq(catalog, DeploymentSeq, run.wave) \cap run.opts.jobs
             plan(bad) == UpdateAllocationPlan(catalog, run.hash, wave \ bad)
             need(bad) == {j \in wave \ bad : JobNeedsRollout(catalog, plan(bad), j)}
  <1>1. PICK bad \in SUBSET wave :
            run' = [run EXCEPT !.phase = "stage", !.hash = plan(bad),
                               !.staged = IF run.opts.force THEN wave \ bad ELSE need(bad),
                               !.attempted = @ \cup need(bad),
                               !.errors = @ \/ bad # {}]
    BY DEF PlanWave
  <1>2. wave \subseteq Jobs /\ \A j \in wave : DeploymentSeq[j] = run.wave
    BY DEF JobsAtSeq
  <1>3. need(bad) \subseteq wave \ bad /\ \A j \in need(bad) : JobNeedsRollout(catalog, plan(bad), j)
    OBVIOUS
  <1>4. run \in RunType /\ run.phase = "plan"
    BY DEF TypeInv, TypeOK, PlanWave
  <1>5. plan(bad) = UpdateAllocationPlan(catalog, run.hash, wave \ bad)
    OBVIOUS
  <1> HIDE DEF wave, plan, need
  <1>6. /\ run'.phase = "stage" /\ run'.hash = plan(bad) /\ run'.job = run.job
        /\ run'.attempted = run.attempted \cup need(bad) /\ run'.deployed = run.deployed
        /\ run'.staged \subseteq wave /\ run'.wave = run.wave
    BY <1>1, <1>3, <1>4 DEF RunType
  <1>7. /\ run.wave \in Nat /\ run.deployed \subseteq Jobs
        /\ \A j \in Jobs : DeploymentSeq[j] \in Nat
    BY <1>4, DeployAssumption DEF RunType
  <1>8. wave \cap run.deployed = {}
    BY <1>2, <1>4, <1>7 DEF WaveInv
  <1>9. \A j \in wave : DeploymentSeq[j] <= run.wave
    BY <1>2, <1>7
  <1>10. WaveInv'
    BY <1>6, <1>9 DEF WaveInv
  <1>11. UNCHANGED <<catalog, hash, owed, result>>
    BY DEF PlanWave, db, ledger
  <1>12. PlansJobs(wave \ bad)
    BY <1>2, <1>3, <1>4, <1>5, <1>6, <1>8 DEF PlansJobs
  <1> QED BY <1>4, <1>6, <1>10, <1>11, <1>12 DEF Works

(* Sending a job writes its plan hashes again, or aborts the deploy. *)
LEMMA SyncJobWorks ==
    ASSUME TypeInv, WaveInv, NEW j \in Jobs, SyncJob(j)
    PROVE  WaveInv' /\ (Works \/ Abort)
  <1> DEFINE h == UpdateAllocationPlan(catalog, run.hash, {j})
             new == NewAllocations(catalog, h, j)
             r == [run EXCEPT !.staged = @ \ {j}, !.hash = h]
  <1>1. \/ Abort
        \/ /\ UNCHANGED <<db, ledger>>
           /\ \/ run' = [r EXCEPT !.phase = "finalize", !.job = j]
              \/ run' = [r EXCEPT !.errors = TRUE]
              \/ run' = [r EXCEPT !.phase = "start", !.job = j, !.todo = new]
    BY DEF SyncJob
  <1>2. run \in RunType /\ run.phase = "stage" /\ j \in run.staged
    BY DEF SyncJob, TypeInv, TypeOK
  <1> HIDE DEF h, new
  <1>3. CASE Abort
    BY <1>3, IdleWave DEF Abort
  <1>4. CASE ~Abort
    <2>1. /\ r.phase = "stage" /\ r.hash = h /\ r.job = run.job
          /\ r.attempted = run.attempted /\ r.deployed = run.deployed
          /\ r.staged = run.staged \ {j} /\ r.wave = run.wave
          /\ DOMAIN r = DOMAIN run
      BY <1>2 DEF RunType
    <2>2. DOMAIN run = {"phase", "opts", "hash", "todo", "restart", "wave", "staged", "job",
                        "attempted", "errors", "deployed", "touched", "up", "hits"}
      BY <1>2 DEF RunType
    <2> HIDE DEF r
    <2>3. /\ run'.phase \in {"finalize", "stage", "start"} /\ run'.hash = h
          /\ run'.job \in {run.job, j}
          /\ run'.attempted = run.attempted /\ run'.deployed = run.deployed
          /\ run'.staged = run.staged \ {j} /\ run'.wave = run.wave
      <3>1. CASE run' = [r EXCEPT !.phase = "finalize", !.job = j]
        BY <2>1, <2>2, <3>1
      <3>2. CASE run' = [r EXCEPT !.errors = TRUE]
        BY <2>1, <2>2, <3>2
      <3>3. CASE run' = [r EXCEPT !.phase = "start", !.job = j, !.todo = new]
        BY <2>1, <2>2, <3>3
      <3> QED BY <1>1, <1>4, <3>1, <3>2, <3>3
    <2>4. WaveInv'
      BY <1>2, <2>3 DEF WaveInv
    <2>5. UNCHANGED <<catalog, hash, owed, result>>
      BY <1>1, <1>4 DEF db, ledger
    <2>6. PlansJobs({j})
      BY <1>2, <2>3 DEF PlansJobs, h
    <2> QED BY <1>2, <2>3, <2>4, <2>5, <2>6 DEF Works
  <1> QED BY <1>3, <1>4

(* The steps of a rollout and the final sync leave the ledger of a deploy alone. *)
LEMMA LedgerKept ==
    ASSUME TypeInv, WaveInv, UNCHANGED <<catalog, hash, owed, result>>,
           run.phase \notin {"idle", "reconcile"},
           run'.phase \notin {"idle", "reconcile", "plan"},
           run'.hash = run.hash, run'.job = run.job, run'.attempted = run.attempted,
           run'.deployed = run.deployed, run'.staged = run.staged, run'.wave = run.wave
    PROVE  WaveInv' /\ Works
  BY DEF WaveInv, Works, KeepsHash

(* Batches and health checks do not touch the hash table. *)
LEMMA RolloutWorks ==
    ASSUME TypeInv, WaveInv, RunBatch \/ CheckHealth \/ ChooseUpdates \/ NextAction
    PROVE  WaveInv' /\ Works
  <1>1. /\ run \in RunType
        /\ run.phase \in {"start", "reload", "restart"}
        /\ UNCHANGED <<catalog, hash, owed, result>>
    BY DEF TypeInv, TypeOK, RunBatch, CheckHealth, ChooseUpdates, NextAction, db, ledger
  <1>2. CASE JobFailed
    BY <1>1, <1>2, JobFailedWorks
  <1>3. CASE RunBatch /\ ~JobFailed
    <2>1. PICK B : run' = [run EXCEPT !.todo = @ \ B, !.touched = @ \cup B]
      BY <1>3 DEF RunBatch
    <2>2. /\ run'.phase = run.phase /\ run'.hash = run.hash /\ run'.job = run.job
          /\ run'.attempted = run.attempted /\ run'.deployed = run.deployed
          /\ run'.staged = run.staged /\ run'.wave = run.wave
      BY <1>1, <2>1 DEF RunType
    <2> QED BY <1>1, <2>2, LedgerKept
  <1>4. CASE CheckHealth /\ ~JobFailed
    <2>1. run' = [run EXCEPT !.touched = {}]
      BY <1>4 DEF CheckHealth
    <2>2. /\ run'.phase = run.phase /\ run'.hash = run.hash /\ run'.job = run.job
          /\ run'.attempted = run.attempted /\ run'.deployed = run.deployed
          /\ run'.staged = run.staged /\ run'.wave = run.wave
      BY <1>1, <2>1 DEF RunType
    <2> QED BY <1>1, <2>2, LedgerKept
  <1>5. CASE ChooseUpdates
    <2>1. PICK T, R : run' = [run EXCEPT !.phase = "reload", !.todo = T, !.restart = R]
      BY <1>5 DEF ChooseUpdates
    <2>2. /\ run'.phase = "reload" /\ run'.hash = run.hash /\ run'.job = run.job
          /\ run'.attempted = run.attempted /\ run'.deployed = run.deployed
          /\ run'.staged = run.staged /\ run'.wave = run.wave
      BY <1>1, <2>1 DEF RunType
    <2> QED BY <1>1, <2>2, LedgerKept
  <1>6. CASE NextAction
    <2>1. CASE run' = [run EXCEPT !.phase = "restart", !.todo = run.restart, !.restart = {}]
      <3>1. /\ run'.phase = "restart" /\ run'.hash = run.hash /\ run'.job = run.job
            /\ run'.attempted = run.attempted /\ run'.deployed = run.deployed
            /\ run'.staged = run.staged /\ run'.wave = run.wave
        BY <1>1, <2>1 DEF RunType
      <3> QED BY <1>1, <3>1, LedgerKept
    <2>2. CASE run' = [run EXCEPT !.phase = "finalize"]
      <3>1. /\ run'.phase = "finalize" /\ run'.hash = run.hash /\ run'.job = run.job
            /\ run'.attempted = run.attempted /\ run'.deployed = run.deployed
            /\ run'.staged = run.staged /\ run'.wave = run.wave
        BY <1>1, <2>2 DEF RunType
      <3> QED BY <1>1, <3>1, LedgerKept
    <2> QED BY <1>6, <2>1, <2>2 DEF NextAction
  <1> QED BY <1>2, <1>3, <1>4, <1>5, <1>6

(* The final sync does not touch the hash table. *)
LEMMA FinalSyncWorks ==
    ASSUME TypeInv, WaveInv, FinalSync
    PROVE  WaveInv' /\ Works
  <1>1. run \in RunType /\ run.phase = "final" /\ UNCHANGED <<catalog, hash, owed, result>>
    BY DEF TypeInv, TypeOK, FinalSync, db, ledger
  <1>2. PICK b : run' = [run EXCEPT !.phase = "commit", !.errors = b]
    BY DEF FinalSync
  <1>3. /\ run'.phase = "commit" /\ run'.hash = run.hash /\ run'.job = run.job
        /\ run'.attempted = run.attempted /\ run'.deployed = run.deployed
        /\ run'.staged = run.staged /\ run'.wave = run.wave
    BY <1>1, <1>2 DEF RunType
  <1> QED BY <1>1, <1>3, LedgerKept

(* A job is added to the deployed ones in the step that promotes it. *)
LEMMA FinalizeJobWorks ==
    ASSUME TypeInv, WaveInv, FinalizeJob
    PROVE  WaveInv' /\ Works
  <1>1. /\ run \in RunType /\ run.phase = "finalize" /\ run.job \in Jobs
        /\ UNCHANGED <<catalog, hash, owed, result>>
    BY DEF TypeInv, TypeOK, RunSound, FinalizeJob, db
  <1>2. CASE JobFailed
    BY <1>1, <1>2, JobFailedWorks
  <1>3. CASE run' = [run EXCEPT !.phase = "stage", !.job = None,
                                !.hash = Promote(catalog, @, run.job),
                                !.deployed = @ \cup {run.job}]
    <2>1. /\ run'.phase = "stage" /\ run'.hash = Promote(catalog, run.hash, run.job)
          /\ run'.job = None /\ run'.attempted = run.attempted
          /\ run'.deployed = run.deployed \cup {run.job}
          /\ run'.staged = run.staged /\ run'.wave = run.wave
      BY <1>1, <1>3 DEF RunType
    <2>2. None \notin Jobs
      BY DeployAssumption
    <2>3. WaveInv'
      BY <1>1, <2>1, <2>2 DEF WaveInv
    <2>4. PromotesJob(run.job)
      BY <1>1, <2>1 DEF PromotesJob
    <2> QED BY <1>1, <2>1, <2>3, <2>4 DEF Works
  <1> QED BY <1>2, <1>3 DEF FinalizeJob

(* Every step of a deploy works on its copy of the hash table, aborts or commits. *)
LEMMA StepKinds ==
    ASSUME TypeInv, WaveInv, DeployStep
    PROVE  WaveInv' /\ (Works \/ Abort \/ Commit)
  <1>1. CASE Commit
    BY <1>1, IdleWave DEF Commit
  <1> QED BY <1>1, ReconcileWorks, FinishReconcileWorks, PlanWaveWorks, NextWaveWorks,
             SyncJobWorks, RolloutWorks, FinalizeJobWorks, FinalSyncWorks DEF DeployStep

-----------------------------------------------------------------------------
(* The three ledgers. *)

Tracked(cat, h) ==
    \A s \in Slots : h.cur[s] # None \/ h.prev[s] # None => s \in cat.rows

(* Hash rows belong to allocation rows, in the copy of the deploy as well. *)
TrackInv == Tracked(catalog, hash) /\ Tracked(catalog, run.hash)

(* While reconcile runs, exactly the removed allocations it has still to visit may
   look promoted; afterwards none does, until the transaction is over. *)
ForgetInv ==
    /\ RemovedForgotten
    /\ run.phase # "idle" => result = "none"
    /\ run.phase = "reconcile" => \A s \in catalog.removed \ run.todo : run.hash.prev[s] = None
    /\ run.phase \notin {"idle", "reconcile"} =>
           \A s \in catalog.removed : run.hash.prev[s] = None

(* What the next deploy would find, were the table h. *)
Needs(cat, h, j) == JobNeedsRollout(cat, UpdateAllocationPlan(cat, h, {j}), j)

Agree(cat, g, h, j) ==
    \A s \in NonRemoved(cat, j) : g.prev[s] = h.prev[s] /\ g.ver[s] = h.ver[s]

(* The committed table knows of every job that is owed a rollout or is getting
   one, and the copy of the deploy differs from it on promoted jobs only. *)
RetryInv ==
    /\ \A j \in owed \cup run.attempted : Needs(catalog, hash, j)
    /\ run.phase # "idle" => \A j \in Jobs \ run.deployed : Agree(catalog, run.hash, hash, j)

LedgerInv == TypeInv /\ WaveInv /\ TrackInv /\ ForgetInv /\ RetryInv

(* Whether a job needs a rollout depends on what was promoted for it, and on no
   plan hash written before. *)
LEMMA NeedsDependsOnPromoted ==
    ASSUME NEW cat \in CatalogType, NEW g \in HashType, NEW h \in HashType,
           NEW J \in SUBSET Jobs, NEW j \in J, Agree(cat, g, h, j),
           JobNeedsRollout(cat, UpdateAllocationPlan(cat, g, J), j)
    PROVE  Needs(cat, h, j)
  <1> DEFINE gp == UpdateAllocationPlan(cat, g, J)
             hp == UpdateAllocationPlan(cat, h, {j})
  <1>1. \A s \in NonRemoved(cat, j) : s \in Slots /\ JobOf(s) = j
    BY AllocationQueries
  <1>2. gp.prev = g.prev /\ gp.ver = g.ver /\ hp.prev = h.prev /\ hp.ver = h.ver
    BY PlanEffect
  <1>3. \A s \in NonRemoved(cat, j) : gp.cur[s] = cat.content[j]
    BY <1>1, PlanEffect
  <1>4. \A s \in NonRemoved(cat, j) : hp.cur[s] = cat.content[j]
    BY <1>1, PlanEffect
  <1>5. JobNeedsRollout(cat, gp, j)
    OBVIOUS
  <1> HIDE DEF gp, hp
  <1>6. \A s \in NonRemoved(cat, j) :
            gp.cur[s] = hp.cur[s] /\ gp.prev[s] = hp.prev[s] /\ gp.ver[s] = hp.ver[s]
    BY <1>2, <1>3, <1>4 DEF Agree
  <1>7. JobNeedsRollout(cat, hp, j)
    BY <1>5, <1>6, AllocationQueries
       DEF JobNeedsRollout, ContentChanged, VersionChanged, NewAllocations
  <1> QED BY <1>7 DEF Needs, hp

(* A working deploy writes hashes of rows only. *)
LEMMA WorksTrack ==
    ASSUME TypeInv, TrackInv, Works
    PROVE  TrackInv'
  <1>1. catalog \in CatalogType /\ run.hash \in HashType
    BY DEF TypeInv, TypeOK, RunType
  <1>2. catalog' = catalog /\ hash' = hash
    BY DEF Works
  <1>3. Tracked(catalog, run'.hash)
    <2>1. CASE KeepsHash
      BY <2>1 DEF KeepsHash, TrackInv
    <2>2. CASE \E s : ForgetsOne(s)
      <3>1. PICK s : ForgetsOne(s)
        BY <2>2
      <3>2. CASE run'.hash = run.hash
        BY <3>2 DEF TrackInv
      <3>3. CASE run'.hash = RemoveHash(run.hash, {s})
        BY <1>1, <3>3, RemoveEffect DEF TrackInv, Tracked
      <3> QED BY <3>1, <3>2, <3>3 DEF ForgetsOne
    <2>3. CASE \E J : PlansJobs(J)
      <3>1. PICK J : PlansJobs(J)
        BY <2>3
      <3>2. J \in SUBSET Jobs /\ run'.hash = UpdateAllocationPlan(catalog, run.hash, J)
        BY <3>1 DEF PlansJobs
      <3>3. \A s \in Slots : s \in NonRemoved(catalog, JobOf(s)) => s \in catalog.rows
        BY DEF NonRemoved
      <3>4. /\ run'.hash.prev = run.hash.prev
            /\ \A s \in Slots : s \in catalog.rows \/ run'.hash.cur[s] = run.hash.cur[s]
        BY <1>1, <3>2, <3>3, PlanEffect
      <3> QED BY <3>4 DEF TrackInv, Tracked
    <2>4. CASE \E j : PromotesJob(j)
      <3>1. PICK j : PromotesJob(j)
        BY <2>4
      <3>2. j \in Jobs /\ run'.hash = Promote(catalog, run.hash, j)
        BY <3>1 DEF PromotesJob
      <3>3. \A s \in NonRemoved(catalog, j) : s \in catalog.rows
        BY DEF NonRemoved
      <3>4. /\ run'.hash.cur = run.hash.cur
            /\ \A s \in Slots : s \in catalog.rows \/ run'.hash.prev[s] = run.hash.prev[s]
        BY <1>1, <3>2, <3>3, PromoteEffect
      <3> QED BY <3>4 DEF TrackInv, Tracked
    <2> QED BY <2>1, <2>2, <2>3, <2>4 DEF Works
  <1> QED BY <1>2, <1>3 DEF TrackInv, Tracked

(* A working deploy makes no removed allocation look promoted. *)
LEMMA WorksForget ==
    ASSUME TypeInv, ForgetInv, Works
    PROVE  ForgetInv'
  <1>1. catalog \in CatalogType /\ run.hash \in HashType /\ catalog.removed \subseteq Slots
    BY DEF TypeInv, TypeOK, RunType, CatalogType
  <1>2. /\ catalog' = catalog /\ hash' = hash /\ result' = result
        /\ run.phase # "idle" /\ run'.phase # "idle" /\ result = "none"
    BY DEF Works, ForgetInv
  <1>3. RemovedForgotten'
    BY <1>2 DEF RemovedForgotten
  <1>4. CASE KeepsHash
    BY <1>2, <1>3, <1>4 DEF ForgetInv, KeepsHash
  <1>5. CASE \E s : ForgetsOne(s)
    <2>1. PICK s : ForgetsOne(s)
      BY <1>5
    <2>2. /\ run.phase = "reconcile" /\ run'.phase = "reconcile"
          /\ run'.todo = run.todo \ {s} /\ s \in Slots
          /\ s \in catalog.removed => run'.hash = RemoveHash(run.hash, {s})
          /\ s \notin catalog.removed => run'.hash = run.hash
      BY <2>1 DEF ForgetsOne
    <2>3. \A t \in catalog.removed \ run'.todo : run'.hash.prev[t] = None
      <3>1. CASE s \in catalog.removed
        <4>1. \A t \in catalog.removed \ run.todo : run.hash.prev[t] = None
          BY <2>2 DEF ForgetInv
        <4> QED BY <1>1, <2>2, <3>1, <4>1, RemoveEffect
      <3>2. CASE s \notin catalog.removed
        BY <2>2, <3>2 DEF ForgetInv
      <3> QED BY <3>1, <3>2
    <2> QED BY <1>2, <1>3, <2>2, <2>3 DEF ForgetInv
  <1>6. CASE \E J : PlansJobs(J)
    <2>1. PICK J : PlansJobs(J)
      BY <1>6
    <2>2. run'.hash.prev = run.hash.prev /\ run.phase # "reconcile" /\ run'.phase # "reconcile"
      BY <1>1, <2>1, PlanEffect DEF PlansJobs
    <2> QED BY <1>2, <1>3, <2>2 DEF ForgetInv
  <1>7. CASE \E j : PromotesJob(j)
    <2>1. PICK j : PromotesJob(j)
      BY <1>7
    <2>2. \A s \in catalog.removed : s \in Slots /\ s \notin NonRemoved(catalog, j)
      BY <1>1 DEF NonRemoved
    <2>3. run.phase # "reconcile" /\ run'.phase # "reconcile"
      BY <2>1 DEF PromotesJob
    <2>4. \A s \in catalog.removed : run'.hash.prev[s] = run.hash.prev[s]
      BY <1>1, <2>1, <2>2, PromoteEffect DEF PromotesJob
    <2> QED BY <1>2, <1>3, <2>3, <2>4 DEF ForgetInv
  <1> QED BY <1>4, <1>5, <1>6, <1>7 DEF Works

(* A working deploy touches what was promoted of the jobs it promotes, and of no
   other job. *)
LEMMA WorksRetry ==
    ASSUME TypeInv, RetryInv, Works
    PROVE  RetryInv'
  <1>1. catalog \in CatalogType /\ hash \in HashType /\ run.hash \in HashType
    BY DEF TypeInv, TypeOK, RunType
  <1>2. /\ catalog' = catalog /\ hash' = hash /\ owed' = owed
        /\ run.phase # "idle" /\ run'.phase # "idle"
    BY DEF Works
  <1> SUFFICES /\ \A j \in run'.attempted \ run.attempted : Needs(catalog, hash, j)
               /\ \A j \in Jobs \ run'.deployed : Agree(catalog, run'.hash, hash, j)
    BY <1>2 DEF RetryInv, Needs, Agree
  <1>3. \A j \in Jobs \ run.deployed : Agree(catalog, run.hash, hash, j)
    BY <1>2 DEF RetryInv
  <1>4. \A j : \A s \in NonRemoved(catalog, j) :
            s \in Slots /\ s \notin catalog.removed /\ JobOf(s) = j
    BY <1>1, AllocationQueries DEF NonRemoved
  <1>5. CASE KeepsHash
    BY <1>3, <1>5 DEF KeepsHash
  <1>6. CASE \E s : ForgetsOne(s)
    <2>1. PICK s : ForgetsOne(s)
      BY <1>6
    <2>2. run'.attempted = run.attempted /\ run'.deployed = run.deployed
      BY <2>1 DEF ForgetsOne
    <2>3. \A t \in Slots \ catalog.removed :
              run'.hash.prev[t] = run.hash.prev[t] /\ run'.hash.ver[t] = run.hash.ver[t]
      <3>1. CASE s \notin catalog.removed
        BY <2>1, <3>1 DEF ForgetsOne
      <3>2. CASE s \in catalog.removed
        BY <1>1, <2>1, <3>2, RemoveEffect DEF ForgetsOne
      <3> QED BY <3>1, <3>2
    <2> QED BY <1>3, <1>4, <2>2, <2>3 DEF Agree
  <1>7. CASE \E J : PlansJobs(J)
    <2>1. PICK J : PlansJobs(J)
      BY <1>7
    <2>2. J \in SUBSET Jobs /\ run'.hash = UpdateAllocationPlan(catalog, run.hash, J)
      BY <2>1 DEF PlansJobs
    <2>3. run'.hash.prev = run.hash.prev /\ run'.hash.ver = run.hash.ver
      BY <1>1, <2>2, PlanEffect
    <2>4. \A j \in Jobs \ run'.deployed : Agree(catalog, run'.hash, hash, j)
      BY <1>3, <2>1, <2>3 DEF Agree, PlansJobs
    <2>5. ASSUME NEW j \in run'.attempted \ run.attempted
          PROVE  Needs(catalog, hash, j)
      <3>1. /\ j \in J /\ j \in Jobs \ run.deployed
            /\ JobNeedsRollout(catalog, UpdateAllocationPlan(catalog, run.hash, J), j)
        BY <2>1, <2>2 DEF PlansJobs
      <3> QED BY <1>1, <1>3, <2>2, <3>1, NeedsDependsOnPromoted
    <2> QED BY <2>4, <2>5
  <1>8. CASE \E j : PromotesJob(j)
    <2>1. PICK j : PromotesJob(j)
      BY <1>8
    <2>2. /\ j \in Jobs /\ run'.hash = Promote(catalog, run.hash, j)
          /\ run'.attempted = run.attempted /\ run'.deployed = run.deployed \cup {j}
      BY <2>1 DEF PromotesJob
    <2>3. \A s \in Slots \ NonRemoved(catalog, j) :
              run'.hash.prev[s] = run.hash.prev[s] /\ run'.hash.ver[s] = run.hash.ver[s]
      BY <1>1, <2>2, PromoteEffect
    <2>4. \A k \in Jobs \ {j} : \A s \in NonRemoved(catalog, k) :
              s \in Slots \ NonRemoved(catalog, j)
      BY <1>4
    <2> QED BY <1>3, <2>2, <2>3, <2>4 DEF Agree
  <1> QED BY <1>5, <1>6, <1>7, <1>8 DEF Works

(* No hash row, no attempt and no deployed job in the locals of a fresh deploy. *)
LEMMA IdleFields ==
    /\ Idle.hash = EmptyHash /\ Idle.attempted = {} /\ Idle.deployed = {}
    /\ \A cat : Tracked(cat, Idle.hash)
  BY DEF Idle, EmptyHash, Tracked

(* The empty bucket owes nothing. *)
LEMMA InitLedger == Init => LedgerInv
  <1> SUFFICES ASSUME Init PROVE LedgerInv
    OBVIOUS
  <1>1. run = Idle /\ hash = EmptyHash /\ owed = {} /\ result = "none"
    BY DEF Init
  <1>2. WaveInv
    <2>1. None \notin Jobs
      BY DeployAssumption
    <2> QED BY <1>1, <2>1 DEF WaveInv, Idle
  <1>3. TrackInv
    BY <1>1, IdleFields DEF TrackInv
  <1>4. ForgetInv
    BY <1>1, IdleType DEF ForgetInv, RemovedForgotten
  <1>5. RetryInv
    BY <1>1, IdleType, IdleFields DEF RetryInv
  <1> QED BY <1>2, <1>3, <1>4, <1>5, InitType DEF LedgerInv

(* An abort forgets the copy: the jobs it attempted are owed, and the committed
   table says so. *)
LEMMA AbortLedger ==
    ASSUME LedgerInv, Abort
    PROVE  WaveInv' /\ TrackInv' /\ ForgetInv' /\ RetryInv'
  <1>1. /\ run' = Idle /\ catalog' = catalog /\ hash' = hash /\ result' = "aborted"
        /\ owed' = owed \cup run.attempted
    BY DEF Abort, db
  <1>2. WaveInv'
    BY <1>1, IdleWave
  <1>3. TrackInv'
    BY <1>1, IdleFields DEF LedgerInv, TrackInv
  <1>4. ForgetInv'
    BY <1>1, IdleType DEF ForgetInv, RemovedForgotten
  <1>5. RetryInv'
    BY <1>1, IdleType, IdleFields DEF LedgerInv, RetryInv
  <1> QED BY <1>2, <1>3, <1>4, <1>5

(* A commit leaves owed what was attempted and not promoted, and its table says so. *)
LEMMA CommitLedger ==
    ASSUME LedgerInv, Commit
    PROVE  WaveInv' /\ TrackInv' /\ ForgetInv' /\ RetryInv'
  <1>1. /\ run' = Idle /\ catalog' = catalog /\ hash' = run.hash
        /\ owed' = (owed \cup run.attempted) \ run.deployed /\ run.phase = "commit"
    BY DEF Commit
  <1>2. WaveInv'
    BY <1>1, IdleWave
  <1>3. TrackInv'
    BY <1>1, IdleFields DEF LedgerInv, TrackInv
  <1>4. ForgetInv'
    BY <1>1, IdleType DEF LedgerInv, ForgetInv, RemovedForgotten
  <1>5. ASSUME NEW j \in owed' PROVE Needs(catalog, run.hash, j)
    <2>1. /\ catalog \in CatalogType /\ hash \in HashType /\ run.hash \in HashType
          /\ j \in Jobs \ run.deployed
      BY <1>1 DEF LedgerInv, TypeInv, TypeOK, RunType
    <2>2. Needs(catalog, hash, j) /\ Agree(catalog, run.hash, hash, j)
      BY <1>1, <2>1 DEF LedgerInv, RetryInv
    <2>3. Agree(catalog, hash, run.hash, j)
      BY <2>2 DEF Agree
    <2>4. JobNeedsRollout(catalog, UpdateAllocationPlan(catalog, hash, {j}), j)
      BY <2>2 DEF Needs
    <2>5. {j} \in SUBSET Jobs /\ j \in {j}
      BY <2>1
    <2> QED BY <2>1, <2>3, <2>4, <2>5, NeedsDependsOnPromoted
  <1>6. RetryInv'
    BY <1>1, <1>5, IdleType, IdleFields DEF RetryInv
  <1> QED BY <1>2, <1>3, <1>4, <1>6

(* A build only adds rows and clears previous hashes. *)
LEMMA BuildLedger ==
    ASSUME LedgerInv, Build
    PROVE  WaveInv' /\ TrackInv' /\ ForgetInv' /\ RetryInv'
  <1>1. run' = Idle /\ run = Idle /\ owed' = {} /\ result' = "none"
    BY DEF Build
  <1>2. WaveInv'
    BY <1>1, IdleWave
  <1>3. PICK ws : /\ catalog' = BuildCatalog(catalog, ws)
                  /\ hash' = MarkStartPending(hash, Reenabled(catalog, BuildCatalog(catalog, ws)))
    BY DEF Build
  <1>4. catalog.rows \subseteq catalog'.rows
    BY <1>3 DEF BuildCatalog
  <1>5. hash'.cur = hash.cur /\ \A s \in Slots : hash'.prev[s] \in {None, hash.prev[s]}
    BY <1>3, MarkEffect DEF LedgerInv, TypeInv, TypeOK
  <1>6. TrackInv'
    BY <1>1, <1>4, <1>5, IdleFields DEF LedgerInv, TrackInv, Tracked
  <1>7. ForgetInv'
    BY <1>1, IdleType DEF ForgetInv, RemovedForgotten
  <1>8. RetryInv'
    BY <1>1, IdleType, IdleFields DEF RetryInv
  <1> QED BY <1>2, <1>6, <1>7, <1>8

(* Purging removed rows takes nothing from the allocations that stay. *)
LEMMA PurgeKeepsNeeds ==
    ASSUME NEW cat \in CatalogType, NEW h \in HashType, NEW j \in Jobs, Needs(cat, h, j)
    PROVE  Needs(PurgeRemoved(cat), RemoveHash(h, cat.removed), j)
  <1> DEFINE new == PurgeRemoved(cat)
             g == RemoveHash(h, cat.removed)
             hp == UpdateAllocationPlan(cat, h, {j})
             gp == UpdateAllocationPlan(new, g, {j})
  <1>1. new \in CatalogType /\ g \in HashType
    BY CatalogAssumption, RemoveEffect DEF PurgeRemoved, CatalogType
  <1>2. /\ new.content = cat.content
        /\ NonRemoved(new, j) = NonRemoved(cat, j)
        /\ Active(new, j) = Active(cat, j)
        /\ \A s \in NonRemoved(cat, j) : new.version[s] = cat.version[s]
    BY DEF PurgeRemoved, CatalogType, NonRemoved, Active
  <1>3. \A s \in NonRemoved(cat, j) : s \in Slots \ cat.removed /\ JobOf(s) = j
    BY AllocationQueries DEF NonRemoved
  <1>4. \A s \in NonRemoved(cat, j) : g.prev[s] = h.prev[s] /\ g.ver[s] = h.ver[s]
    BY <1>3, RemoveEffect
  <1>5. hp.prev = h.prev /\ hp.ver = h.ver
    BY PlanEffect
  <1>6. \A s \in NonRemoved(cat, j) : hp.cur[s] = cat.content[j]
    BY <1>3, PlanEffect
  <1>7. JobNeedsRollout(cat, hp, j)
    BY DEF Needs
  <1> HIDE DEF new, g, hp
  <1>8. gp.prev = g.prev /\ gp.ver = g.ver
    BY <1>1, PlanEffect
  <1>9. \A s \in NonRemoved(cat, j) : gp.cur[s] = cat.content[j]
    BY <1>1, <1>2, <1>3, PlanEffect
  <1> HIDE DEF gp
  <1>10. JobNeedsRollout(new, gp, j)
    <2>1. Active(cat, j) \subseteq NonRemoved(cat, j)
      BY AllocationQueries
    <2> QED BY <1>2, <1>4, <1>5, <1>6, <1>7, <1>8, <1>9, <2>1
            DEF JobNeedsRollout, ContentChanged, VersionChanged, NewAllocations
  <1> QED BY <1>10 DEF Needs, new, g, gp

(* gc deletes a row and its hash together. *)
LEMMA GCLedger ==
    ASSUME LedgerInv, GC
    PROVE  WaveInv' /\ TrackInv' /\ ForgetInv' /\ RetryInv'
  <1>1. run' = Idle /\ run = Idle /\ owed' = owed /\ result' = result
    BY DEF GC, ledger
  <1>2. \/ UNCHANGED <<catalog, hash>>
        \/ catalog' = PurgeRemoved(catalog) /\ hash' = RemoveHash(hash, catalog.removed)
    BY DEF GC
  <1>3. WaveInv'
    BY <1>1, IdleWave
  <1>4. CASE UNCHANGED <<catalog, hash>>
    BY <1>1, <1>3, <1>4 DEF LedgerInv, TrackInv, ForgetInv, RetryInv, RemovedForgotten
  <1>5. CASE catalog' = PurgeRemoved(catalog) /\ hash' = RemoveHash(hash, catalog.removed)
    <2>1. catalog \in CatalogType /\ hash \in HashType /\ owed \subseteq Jobs
      BY DEF LedgerInv, TypeInv, TypeOK
    <2>2. catalog'.rows = catalog.rows \ catalog.removed /\ catalog'.removed = {}
      BY <1>5, <2>1 DEF PurgeRemoved, CatalogType
    <2>3. Tracked(catalog', hash')
      BY <1>5, <2>1, <2>2, RemoveEffect DEF Tracked, LedgerInv, TrackInv
    <2>4. TrackInv'
      BY <1>1, <2>3, IdleFields DEF TrackInv
    <2>5. ForgetInv'
      BY <1>1, <2>2, IdleType DEF ForgetInv, RemovedForgotten
    <2>6. \A j \in owed : Needs(catalog', hash', j)
      BY <1>5, <2>1, PurgeKeepsNeeds DEF LedgerInv, RetryInv
    <2>7. RetryInv'
      BY <1>1, <2>6, IdleType, IdleFields DEF RetryInv
    <2> QED BY <1>3, <2>4, <2>5, <2>7
  <1> QED BY <1>2, <1>4, <1>5

(* A deploy starts from the committed table. *)
LEMMA StartDeployLedger ==
    ASSUME LedgerInv, NEW o \in Options, StartDeploy(o)
    PROVE  WaveInv' /\ TrackInv' /\ ForgetInv' /\ RetryInv'
  <1>1. run = Idle /\ catalog' = catalog /\ hash' = hash /\ owed' = owed
    BY DEF StartDeploy
  <1>2. CASE run' = run /\ result' = "aborted"
    <2>1. WaveInv'
      BY <1>1, <1>2, IdleWave
    <2> QED BY <1>1, <1>2, <2>1, IdleType
            DEF LedgerInv, TrackInv, ForgetInv, RetryInv, RemovedForgotten
  <1>3. CASE /\ run' = [Idle EXCEPT !.phase = "reconcile", !.opts = o, !.hash = hash,
                                    !.todo = Stopped(catalog), !.hits = faults,
                                    !.up = {s \in Slots : hash.prev[s] # None
                                                           /\ live[s] # Down}]
             /\ result' = "none"
    <2>1. /\ run'.phase = "reconcile" /\ run'.hash = hash /\ run'.todo = Stopped(catalog)
          /\ run'.attempted = {} /\ run'.deployed = {} /\ run'.staged = {} /\ run'.job = None
      BY <1>3 DEF Idle
    <2>2. WaveInv'
      <3>1. None \notin Jobs
        BY DeployAssumption
      <3> QED BY <2>1, <3>1 DEF WaveInv
    <2>3. TrackInv'
      BY <1>1, <2>1 DEF LedgerInv, TrackInv
    <2>4. catalog.removed \subseteq Stopped(catalog)
      BY DEF LedgerInv, TypeInv, CatalogSound, Stopped
    <2>5. ForgetInv'
      BY <1>1, <1>3, <2>1, <2>4 DEF ForgetInv, RemovedForgotten
    <2>6. RetryInv'
      BY <1>1, <2>1 DEF LedgerInv, RetryInv, Agree
    <2> QED BY <2>2, <2>3, <2>5, <2>6
  <1> QED BY <1>2, <1>3 DEF StartDeploy

(* LedgerInv is inductive. *)
LEMMA NextLedger == LedgerInv /\ [Next]_vars => LedgerInv'
  <1> SUFFICES ASSUME LedgerInv, [Next]_vars PROVE LedgerInv'
    OBVIOUS
  <1>1. TypeInv'
    BY NextType DEF LedgerInv
  <1> SUFFICES WaveInv' /\ TrackInv' /\ ForgetInv' /\ RetryInv'
    BY <1>1 DEF LedgerInv
  <1>2. CASE DeployStep
    <2>1. WaveInv' /\ (Works \/ Abort \/ Commit)
      BY <1>2, StepKinds DEF LedgerInv
    <2>2. CASE Works
      BY <2>1, <2>2, WorksTrack, WorksForget, WorksRetry DEF LedgerInv
    <2> QED BY <2>1, <2>2, AbortLedger, CommitLedger
  <1>3. CASE Crash
    BY <1>3, AbortLedger DEF Crash
  <1>4. CASE UNCHANGED vars
    <2>1. UNCHANGED <<catalog, hash, run, result, owed>>
      BY <1>4 DEF vars, db, ledger
    <2> QED BY <2>1 DEF LedgerInv, WaveInv, TrackInv, ForgetInv, RetryInv, RemovedForgotten
  <1> QED BY <1>2, <1>3, <1>4, BuildLedger, GCLedger, StartDeployLedger DEF Next

(* The inductive invariant behind the theorems below. *)
THEOREM LedgerInvariant == Spec => []LedgerInv
  BY InitLedger, NextLedger, PTL DEF Spec

(* A hash row always belongs to an allocation row (build_allocations.go, gc, the
   deploy transaction), so no allocation is ever taken for promoted because of a
   predecessor on the same worker. *)
THEOREM HashRowsAreTracked == Spec => []HashRowsTracked
  <1>1. LedgerInv => HashRowsTracked
    BY DEF LedgerInv, TrackInv, Tracked, HashRowsTracked
  <1> QED BY LedgerInvariant, <1>1, PTL

(* After a deploy that committed, with or without failed jobs, no removed
   allocation looks promoted (reconcileStoppedAllocation). *)
THEOREM RemovedAreForgotten == Spec => []RemovedForgotten
  <1>1. LedgerInv => RemovedForgotten
    BY DEF LedgerInv, ForgetInv
  <1> QED BY LedgerInvariant, <1>1, PTL

(* However a deploy ends - failed jobs, failed rsyncs, crashes - and whatever job
   filters and collections follow, a job whose rollout was begun and not promoted
   is found by the next deploy (JobNeedsRollout). *)
THEOREM FailedJobsAreRetried == Spec => []FailedJobsRetried
  <1>1. LedgerInv => FailedJobsRetried
    BY DEF LedgerInv, RetryInv, Needs, FailedJobsRetried
  <1> QED BY LedgerInvariant, <1>1, PTL
=============================================================================
