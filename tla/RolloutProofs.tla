---------------------------- MODULE RolloutProofs ----------------------------
(* What a rollout does to the processes and what its result says: a deploy      *)
(* takes down at most one upgrade batch of what was up, a deploy of every job   *)
(* that reports success leaves nothing to do, and a job that was promoted is    *)
(* skipped, whatever fails, crashes or is collected in between.  A deploy does  *)
(* what its dry run announced.  What is drained stays down and nothing is       *)
(* orphaned, but for what goes astray; a deploy that starts in order and is     *)
(* not disturbed succeeds; and, where releases are deployed in the order they   *)
(* are built, a success leaves the catalog running.                             *)
EXTENDS DryRun, Drain, DeployProofs, FiniteSetTheorems

-----------------------------------------------------------------------------
(* The invariant. *)

Rolling == {"start", "reload", "restart"}

InHand == Rolling \cup {"finalize"}

(* A job is staged, in hand or deployed, and never comes back. *)
OnceInv ==
    /\ run.staged \cap run.deployed = {}
    /\ run.phase \in InHand => run.job \in Jobs \ (run.deployed \cup run.staged)
    /\ run.phase \in {"idle", "reconcile", "plan", "final", "commit"} => run.staged = {}

(* The hash table h has the tree and the version of every allocation of job j. *)
Promoted(cat, h, j) ==
    \A s \in NonRemoved(cat, j) : h.prev[s] = cat.content[j] /\ h.ver[s] = cat.version[s]

(* The plan hashes of job j are those of its tree. *)
PlanIsTree(cat, h, j) == \A s \in NonRemoved(cat, j) : h.cur[s] = cat.content[j]

(* What was rolled out stays promoted: in the copy of the deploy, until that is
   committed or forgotten, and in the table. *)
FinishInv ==
    /\ \A j \in finished \ run.deployed : Promoted(catalog, hash, j)
    /\ \A j \in run.deployed : Promoted(catalog, run.hash, j)
    /\ run.phase \in InHand => PlanIsTree(catalog, run.hash, run.job)

(* The allocations of job j that were up when the deploy started and are not. *)
Lost(j) == {s \in run.up \cap Active(catalog, j) : live[s] = Down}

Limit(j) == IF MaxUpgrades[j] < 1 THEN 1 ELSE MaxUpgrades[j]

(* The rollout of the job is still to come, if it comes, or under way. *)
Ahead(j) ==
    \/ j \in run.staged
    \/ run.phase \in InHand /\ j = run.job
    \/ DeploymentSeq[j] > run.wave
    \/ run.phase \in {"reconcile", "plan"} /\ DeploymentSeq[j] >= run.wave

(* A job loses nothing before its rollout, nothing in batches that succeed, and at
   most one batch in the one that fails, which is the last. *)
BlastInv ==
    /\ run.phase = "idle" => run.up = {}
    /\ run.phase = "reconcile" => run.todo \subseteq Stopped(catalog)
    /\ \A s \in run.up : hash.prev[s] # None
    /\ run.phase = "start" => \A s \in run.todo : run.hash.prev[s] = None
    /\ \A j \in Jobs : IsFiniteSet(Lost(j)) /\ Cardinality(Lost(j)) <= Limit(j)
    /\ \A j \in Jobs : Ahead(j) => Lost(j) = {}

(* Nothing is left to do for job j, but to start what is disabled once it is not. *)
Settled(cat, h, j) ==
    \A s \in NonRemoved(cat, j) :
        /\ h.ver[s] = cat.version[s]
        /\ h.prev[s] = cat.content[j] \/ (s \in cat.disabled /\ h.prev[s] = None)

(* The sequence of the job has been planned. *)
Behind(j) ==
    DeploymentSeq[j] < run.wave \/ (DeploymentSeq[j] = run.wave /\ run.phase # "plan")

(* As long as no job has failed, every job of the sequences that were planned is
   settled, staged or in hand; after the last of them all are settled. *)
OkInv ==
    /\ result = "ok" => \A j \in Jobs : Settled(catalog, hash, j)
    /\ run.phase # "idle" => run.opts.jobs = Jobs
    /\ run.phase = "reconcile" => run.wave = 0
    /\ run.phase \notin {"idle", "reconcile"} /\ ~run.errors =>
          \A j \in Jobs : Behind(j) => \/ Settled(catalog, run.hash, j)
                                       \/ j \in run.staged
                                       \/ run.phase \in InHand /\ j = run.job
    /\ run.phase \in {"final", "commit"} => \A j \in Jobs : Behind(j)

(* Every deploy is one of every job. *)
EveryJob == \A o \in Options : o.jobs = Jobs

-----------------------------------------------------------------------------
(* The kinds of steps a deploy takes, by what they do to its locals. *)

Carries ==
    /\ UNCHANGED <<catalog, hash, result>>
    /\ run'.up = run.up /\ run'.opts = run.opts
    /\ run.phase # "idle" /\ run'.phase # "idle"

SameQueue == run'.staged = run.staged /\ run'.deployed = run.deployed /\ run'.wave = run.wave

(* One stopped allocation is dealt with. *)
Visits(s) ==
    /\ Carries /\ SameQueue /\ finished' = finished
    /\ run.phase = "reconcile" /\ run'.phase = "reconcile"
    /\ s \in run.todo /\ run'.todo \subseteq run.todo
    /\ live' \in {live, AfterStop(s)}

(* Reconcile gives way to the first sequence, or the last one to the final sync,
   and that to the commit. *)
Passes ==
    /\ Carries /\ SameQueue /\ finished' = finished /\ live' = live
    /\ run'.hash = run.hash /\ (run.errors => run'.errors)
    /\ <<run.phase, run'.phase>> \in {<<"reconcile", "plan">>, <<"stage", "final">>,
                                      <<"final", "commit">>}
    /\ run.phase = "stage" =>
          run.staged = {} /\ \A j \in Jobs : ~(DeploymentSeq[j] > run.wave)

(* The next sequence. *)
Advances ==
    /\ Carries /\ finished' = finished /\ live' = live
    /\ run.phase = "stage" /\ run.staged = {} /\ run'.phase = "plan"
    /\ run'.staged = {} /\ run'.deployed = run.deployed /\ run'.wave = run.wave + 1
    /\ run'.hash = run.hash /\ run'.errors = run.errors

(* The jobs J of a sequence are planned: all of them, or there are errors. *)
Stages(J) ==
    /\ Carries /\ finished' = finished /\ live' = live
    /\ run.phase = "plan" /\ run'.phase = "stage"
    /\ J \subseteq JobsAtSeq(catalog, DeploymentSeq, run.wave) \cap run.opts.jobs
    /\ run'.hash = UpdateAllocationPlan(catalog, run.hash, J)
    /\ run'.deployed = run.deployed /\ run'.wave = run.wave
    /\ run'.staged \subseteq J
    /\ \A j \in J : JobNeedsRollout(catalog, run'.hash, j) => j \in run'.staged
    /\ ~run'.errors => /\ ~run.errors
                       /\ J = JobsAtSeq(catalog, DeploymentSeq, run.wave) \cap run.opts.jobs

(* A staged job is taken in hand, or turned down. *)
Takes(j) ==
    /\ Carries /\ finished' = finished /\ live' = live
    /\ j \in Jobs /\ run.phase = "stage" /\ j \in run.staged
    /\ run'.hash = UpdateAllocationPlan(catalog, run.hash, {j})
    /\ run'.staged = run.staged \ {j} /\ run'.deployed = run.deployed /\ run'.wave = run.wave
    /\ \/ run'.phase = "stage" /\ run'.errors
       \/ /\ run'.phase \in {"start", "finalize"} /\ run'.job = j
          /\ run'.errors = run.errors
          /\ run'.phase = "start" => run'.todo = NewAllocations(catalog, run'.hash, j)

(* The rollout of the job in hand goes on, or fails. *)
Moves ==
    /\ Carries /\ SameQueue /\ finished' = finished
    /\ run'.hash = run.hash
    /\ run.phase \in InHand
    /\ \/ run'.phase = "stage" /\ run'.errors
       \/ /\ run.phase \in Rolling /\ run'.phase \in InHand
          /\ run'.job = run.job /\ run'.errors = run.errors
          /\ run'.phase = "start" => run.phase = "start" /\ run'.todo \subseteq run.todo

(* The job in hand is promoted. *)
Promotes ==
    /\ Carries /\ live' = live
    /\ run.phase = "finalize" /\ run'.phase = "stage" /\ run.job \in Jobs
    /\ finished' = finished \cup {run.job}
    /\ run'.deployed = run.deployed \cup {run.job}
    /\ run'.hash = Promote(catalog, run.hash, run.job)
    /\ run'.staged = run.staged /\ run'.wave = run.wave /\ run'.errors = run.errors

(* Stopping, or passing over, an allocation is a visit, unless it aborts. *)
LEMMA ReconcileKind ==
    ASSUME TypeInv, NEW s \in Slots, ReconcileStop(s) \/ ReconcileSkip(s)
    PROVE  Abort \/ Visits(s)
  <1>1. run \in RunType /\ run.phase = "reconcile" /\ s \in run.todo
    BY DEF TypeInv, TypeOK, ReconcileStop, ReconcileSkip
  <1>2. \/ Abort
        \/ /\ run' = Reconciled(s) /\ UNCHANGED <<db, ledger>>
           /\ live' \in {live, AfterStop(s)}
    BY DEF ReconcileStop, ReconcileSkip, hosts
  <1>3. CASE run' = Reconciled(s) /\ UNCHANGED <<db, ledger>> /\ live' \in {live, AfterStop(s)}
    <2>1. /\ run'.phase = "reconcile" /\ run'.todo = run.todo \ {s}
          /\ run'.staged = run.staged /\ run'.deployed = run.deployed /\ run'.wave = run.wave
          /\ run'.up = run.up /\ run'.opts = run.opts
      BY <1>1, <1>3 DEF Reconciled, RunType
    <2> QED BY <1>1, <1>3, <2>1 DEF Visits, Carries, SameQueue, db, ledger
  <1> QED BY <1>2, <1>3

(* The health checks that end reconcile only let the deploy pass, or abort it. *)
LEMMA FinishReconcileKind ==
    ASSUME TypeInv, FinishReconcile
    PROVE  Abort \/ Passes
  <1>1. run \in RunType /\ run.phase = "reconcile"
    BY DEF TypeInv, TypeOK, FinishReconcile
  <1>2. \/ Abort
        \/ run' = [run EXCEPT !.phase = "plan"] /\ UNCHANGED <<db, live, ledger>>
    BY DEF FinishReconcile
  <1>3. CASE run' = [run EXCEPT !.phase = "plan"] /\ UNCHANGED <<db, live, ledger>>
    <2>1. /\ run'.phase = "plan" /\ run'.hash = run.hash /\ run'.errors = run.errors
          /\ run'.staged = run.staged /\ run'.deployed = run.deployed /\ run'.wave = run.wave
          /\ run'.up = run.up /\ run'.opts = run.opts
      BY <1>1, <1>3 DEF RunType
    <2> QED BY <1>1, <1>3, <2>1 DEF Passes, Carries, SameQueue, db, ledger
  <1> QED BY <1>2, <1>3

(* The jobs of a sequence that pass their hooks are planned; those in need of a
   rollout are staged. *)
LEMMA PlanWaveKind ==
    ASSUME TypeInv, PlanWave
    PROVE  \E J \in SUBSET Jobs : Stages(J)
  <1> DEFINE wave == JobsAtSeq(catalog, DeploymentSeq, run.wave) \cap run.opts.jobs
             plan(bad) == UpdateAllocationPlan(catalog, run.hash, wave \ bad)
             need(bad) == {j \in wave \ bad : JobNeedsRollout(catalog, plan(bad), j)}
  <1>1. PICK bad \in SUBSET wave :
            run' = [run EXCEPT !.phase = "stage", !.hash = plan(bad),
                               !.staged = IF run.opts.force THEN wave \ bad ELSE need(bad),
                               !.attempted = @ \cup need(bad),
                               !.errors = @ \/ bad # {}]
    BY DEF PlanWave
  <1>2. wave \subseteq Jobs
    BY DEF JobsAtSeq
  <1>3. /\ need(bad) \subseteq wave \ bad
        /\ \A j \in wave \ bad : JobNeedsRollout(catalog, plan(bad), j) => j \in need(bad)
    OBVIOUS
  <1>4. run \in RunType /\ run.phase = "plan"
    BY DEF TypeInv, TypeOK, PlanWave
  <1>5. plan(bad) = UpdateAllocationPlan(catalog, run.hash, wave \ bad)
    OBVIOUS
  <1>6. wave = JobsAtSeq(catalog, DeploymentSeq, run.wave) \cap run.opts.jobs
    OBVIOUS
  <1> HIDE DEF wave, plan, need
  <1> DEFINE e == run.errors \/ bad # {}
  <1>7. run' = [run EXCEPT !.phase = "stage", !.hash = plan(bad),
                           !.staged = IF run.opts.force THEN wave \ bad ELSE need(bad),
                           !.attempted = @ \cup need(bad), !.errors = e]
    BY <1>1
  <1>8. ~e => ~run.errors /\ bad = {}
    OBVIOUS
  <1> HIDE DEF e
  <1>9. /\ run'.phase = "stage" /\ run'.hash = plan(bad) /\ run'.errors = e
        /\ run'.staged = (IF run.opts.force THEN wave \ bad ELSE need(bad))
        /\ run'.deployed = run.deployed /\ run'.wave = run.wave
        /\ run'.up = run.up /\ run'.opts = run.opts
    BY <1>4, <1>7 DEF RunType
  <1>10. Carries /\ finished' = finished /\ live' = live
    BY <1>4, <1>9 DEF Carries, PlanWave, db, hosts, ledger
  <1>11. \A j \in wave \ bad :
            JobNeedsRollout(catalog, run'.hash, j) => j \in run'.staged
    BY <1>3, <1>9
  <1>12. ~run'.errors => ~run.errors /\ wave \ bad = wave
    BY <1>8, <1>9
  <1>13. Stages(wave \ bad)
    BY <1>3, <1>4, <1>5, <1>6, <1>9, <1>10, <1>11, <1>12 DEF Stages
  <1> QED BY <1>2, <1>13

(* With nothing staged any more, the next sequence is planned or the last one is
   over. *)
LEMMA NextWaveKind ==
    ASSUME TypeInv, NextWave
    PROVE  Advances \/ Passes
  <1>1. /\ run.phase = "stage" /\ run.staged = {} /\ run \in RunType
        /\ UNCHANGED <<catalog, hash, result, finished, live>>
    BY DEF NextWave, TypeInv, TypeOK, db, hosts, ledger
  <1> DEFINE w == run.wave + 1
  <1>2. \/ run' = [run EXCEPT !.phase = "plan", !.wave = w]
        \/ /\ run' = [run EXCEPT !.phase = "final"]
           /\ \A j \in Jobs : ~(DeploymentSeq[j] > run.wave)
    BY DEF NextWave
  <1>3. w = run.wave + 1
    OBVIOUS
  <1> HIDE DEF w
  <1>4. CASE run' = [run EXCEPT !.phase = "plan", !.wave = w]
    <2>1. /\ run'.phase = "plan" /\ run'.hash = run.hash /\ run'.errors = run.errors
          /\ run'.staged = {} /\ run'.deployed = run.deployed /\ run'.wave = w
          /\ run'.up = run.up /\ run'.opts = run.opts
      BY <1>1, <1>4 DEF RunType
    <2> QED BY <1>1, <1>3, <2>1 DEF Advances, Carries
  <1>5. CASE /\ run' = [run EXCEPT !.phase = "final"]
             /\ \A j \in Jobs : ~(DeploymentSeq[j] > run.wave)
    <2>1. /\ run'.phase = "final" /\ run'.hash = run.hash /\ run'.errors = run.errors
          /\ run'.staged = run.staged /\ run'.deployed = run.deployed /\ run'.wave = run.wave
          /\ run'.up = run.up /\ run'.opts = run.opts
      BY <1>1, <1>5 DEF RunType
    <2> QED BY <1>1, <1>5, <2>1 DEF Passes, Carries, SameQueue
  <1> QED BY <1>2, <1>4, <1>5

(* A job whose rsyncs all worked is taken in hand, or turned down by --sync-only. *)
LEMMA SyncJobKind ==
    ASSUME TypeInv, NEW j \in Jobs, SyncJob(j)
    PROVE  Abort \/ Takes(j)
  <1> DEFINE h == UpdateAllocationPlan(catalog, run.hash, {j})
             new == NewAllocations(catalog, h, j)
             r == [run EXCEPT !.staged = @ \ {j}, !.hash = h]
  <1>1. \/ Abort
        \/ /\ UNCHANGED <<db, ledger>>
           /\ \/ run' = [r EXCEPT !.phase = "finalize", !.job = j]
              \/ run' = [r EXCEPT !.errors = TRUE]
              \/ run' = [r EXCEPT !.phase = "start", !.job = j, !.todo = new]
    BY DEF SyncJob
  <1>2. run \in RunType /\ run.phase = "stage" /\ j \in run.staged /\ live' = live
    BY DEF SyncJob, TypeInv, TypeOK
  <1>3. h = UpdateAllocationPlan(catalog, run.hash, {j}) /\ new = NewAllocations(catalog, h, j)
    OBVIOUS
  <1> HIDE DEF h, new
  <1>4. CASE ~Abort
    <2>1. /\ r.phase = "stage" /\ r.hash = h /\ r.errors = run.errors
          /\ r.staged = run.staged \ {j} /\ r.deployed = run.deployed /\ r.wave = run.wave
          /\ r.up = run.up /\ r.opts = run.opts
          /\ DOMAIN r = DOMAIN run
      BY <1>2 DEF RunType
    <2>2. DOMAIN run = {"phase", "opts", "hash", "todo", "restart", "wave", "staged", "job",
                        "attempted", "errors", "deployed", "touched", "up", "hits"}
      BY <1>2 DEF RunType
    <2> HIDE DEF r
    <2>3. /\ run'.hash = h /\ run'.staged = run.staged \ {j}
          /\ run'.deployed = run.deployed /\ run'.wave = run.wave
          /\ run'.up = run.up /\ run'.opts = run.opts
          /\ \/ run'.phase = "stage" /\ run'.errors
             \/ /\ run'.phase \in {"start", "finalize"} /\ run'.job = j
                /\ run'.errors = run.errors
                /\ run'.phase = "start" => run'.todo = new
      <3>1. CASE run' = [r EXCEPT !.phase = "finalize", !.job = j]
        BY <2>1, <2>2, <3>1
      <3>2. CASE run' = [r EXCEPT !.errors = TRUE]
        BY <2>1, <2>2, <3>2
      <3>3. CASE run' = [r EXCEPT !.phase = "start", !.job = j, !.todo = new]
        BY <2>1, <2>2, <3>3
      <3> QED BY <1>1, <1>4, <3>1, <3>2, <3>3
    <2>4. Carries /\ finished' = finished
      BY <1>1, <1>2, <1>4, <2>3 DEF Carries, db, ledger
    <2>5. run'.phase = "start" => run'.todo = NewAllocations(catalog, run'.hash, j)
      BY <1>3, <2>3
    <2> QED BY <1>2, <1>3, <2>3, <2>4, <2>5 DEF Takes
  <1> QED BY <1>4

(* The fields a failed job leaves alone. *)
LEMMA JobFailedKind ==
    ASSUME TypeInv, JobFailed, run.phase \in InHand,
           UNCHANGED <<catalog, hash, result, finished>>
    PROVE  Moves /\ run'.phase = "stage"
  <1>1. run \in RunType
    BY DEF TypeInv, TypeOK
  <1>2. /\ run'.phase = "stage" /\ run'.hash = run.hash /\ run'.errors = TRUE
        /\ run'.staged = run.staged /\ run'.deployed = run.deployed /\ run'.wave = run.wave
        /\ run'.up = run.up /\ run'.opts = run.opts
    BY <1>1 DEF JobFailed, RunType
  <1> QED BY <1>2 DEF Moves, Carries, SameQueue, InHand, Rolling

(* A batch, a health check and a change of action are moves of the rollout. *)
LEMMA RolloutKind ==
    ASSUME TypeInv, RunBatch \/ CheckHealth \/ ChooseUpdates \/ NextAction
    PROVE  Moves
  <1>1. /\ run \in RunType /\ run.phase \in Rolling
        /\ UNCHANGED <<catalog, hash, result, finished>>
    BY DEF TypeInv, TypeOK, RunBatch, CheckHealth, ChooseUpdates, NextAction, db, ledger, Rolling
  <1>2. run.phase \in InHand
    BY <1>1 DEF InHand
  <1>3. CASE JobFailed
    BY <1>1, <1>2, <1>3, JobFailedKind
  <1> DEFINE Same == /\ run'.hash = run.hash /\ run'.errors = run.errors /\ run'.job = run.job
                     /\ run'.staged = run.staged /\ run'.deployed = run.deployed
                     /\ run'.wave = run.wave /\ run'.up = run.up /\ run'.opts = run.opts
  <1>4. ASSUME Same, run'.phase \in InHand,
               run'.phase = "start" => run.phase = "start" /\ run'.todo \subseteq run.todo
        PROVE  Moves
    BY <1>1, <1>2, <1>4 DEF Moves, Carries, SameQueue, InHand, Rolling
  <1>5. CASE RunBatch /\ ~JobFailed
    <2>1. PICK B : run' = [run EXCEPT !.todo = @ \ B, !.touched = @ \cup B]
      BY <1>5 DEF RunBatch
    <2>2. Same /\ run'.phase = run.phase /\ run'.todo \subseteq run.todo
      BY <1>1, <2>1 DEF RunType
    <2> QED BY <1>2, <1>4, <2>2
  <1>6. CASE CheckHealth /\ ~JobFailed
    <2>1. run' = [run EXCEPT !.touched = {}]
      BY <1>6 DEF CheckHealth
    <2>2. Same /\ run'.phase = run.phase /\ run'.todo = run.todo
      BY <1>1, <2>1 DEF RunType
    <2> QED BY <1>2, <1>4, <2>2
  <1>7. CASE ChooseUpdates
    <2>1. PICK T, R : run' = [run EXCEPT !.phase = "reload", !.todo = T, !.restart = R]
      BY <1>7 DEF ChooseUpdates
    <2>2. Same /\ run'.phase = "reload"
      BY <1>1, <2>1 DEF RunType
    <2> QED BY <1>4, <2>2 DEF InHand, Rolling
  <1>8. CASE NextAction
    <2>1. CASE run' = [run EXCEPT !.phase = "restart", !.todo = run.restart, !.restart = {}]
      <3>1. Same /\ run'.phase = "restart"
        BY <1>1, <2>1 DEF RunType
      <3> QED BY <1>4, <3>1 DEF InHand, Rolling
    <2>2. CASE run' = [run EXCEPT !.phase = "finalize"]
      <3>1. Same /\ run'.phase = "finalize"
        BY <1>1, <2>2 DEF RunType
      <3> QED BY <1>4, <3>1 DEF InHand, Rolling
    <2> QED BY <1>8, <2>1, <2>2 DEF NextAction
  <1> QED BY <1>3, <1>5, <1>6, <1>7, <1>8

(* The end of a job promotes it, or fails it. *)
LEMMA FinalizeJobKind ==
    ASSUME TypeInv, FinalizeJob
    PROVE  (Moves /\ run'.phase = "stage") \/ Promotes
  <1>1. /\ run \in RunType /\ run.phase = "finalize" /\ run.job \in Jobs /\ live' = live
        /\ UNCHANGED <<catalog, hash, result>>
    BY DEF TypeInv, TypeOK, RunSound, FinalizeJob, db, hosts
  <1>2. CASE JobFailed /\ UNCHANGED finished
    <2>1. run.phase \in InHand
      BY <1>1 DEF InHand
    <2> QED BY <1>1, <1>2, <2>1, JobFailedKind
  <1>3. CASE /\ run' = [run EXCEPT !.phase = "stage", !.job = None,
                                   !.hash = Promote(catalog, @, run.job),
                                   !.deployed = @ \cup {run.job}]
             /\ finished' = finished \cup {run.job}
    <2>1. /\ run'.phase = "stage" /\ run'.hash = Promote(catalog, run.hash, run.job)
          /\ run'.errors = run.errors /\ run'.deployed = run.deployed \cup {run.job}
          /\ run'.staged = run.staged /\ run'.wave = run.wave
          /\ run'.up = run.up /\ run'.opts = run.opts
      BY <1>1, <1>3 DEF RunType
    <2> QED BY <1>1, <1>3, <2>1 DEF Promotes, Carries
  <1> QED BY <1>2, <1>3 DEF FinalizeJob

(* The final sync keeps the errors there are. *)
LEMMA FinalSyncKind ==
    ASSUME TypeInv, FinalSync
    PROVE  Passes
  <1>1. /\ run \in RunType /\ run.phase = "final"
        /\ UNCHANGED <<catalog, hash, result, finished, live>>
    BY DEF TypeInv, TypeOK, FinalSync, db, ledger
  <1>2. PICK e : run' = [run EXCEPT !.phase = "commit", !.errors = e] /\ (run.errors => e)
    BY DEF FinalSync
  <1>3. /\ run'.phase = "commit" /\ run'.hash = run.hash /\ run'.errors = e
        /\ run'.staged = run.staged /\ run'.deployed = run.deployed /\ run'.wave = run.wave
        /\ run'.up = run.up /\ run'.opts = run.opts
    BY <1>1, <1>2 DEF RunType
  <1> QED BY <1>1, <1>2, <1>3 DEF Passes, Carries, SameQueue

(* Whatever a step of a deploy does, it is of one of these kinds. *)
LEMMA DeployStepKinds ==
    ASSUME TypeInv, DeployStep
    PROVE  \/ Abort \/ Commit
           \/ \E s \in Slots : Visits(s)
           \/ Passes \/ Advances
           \/ \E J \in SUBSET Jobs : Stages(J)
           \/ \E j \in Jobs : Takes(j)
           \/ Moves \/ Promotes
  <1>1. CASE \E s \in Slots : ReconcileStop(s) \/ ReconcileSkip(s)
    BY <1>1, ReconcileKind
  <1>2. CASE \E j \in Jobs : SyncJob(j)
    BY <1>2, SyncJobKind
  <1>3. CASE FinishReconcile
    BY <1>3, FinishReconcileKind
  <1>4. CASE PlanWave
    BY <1>4, PlanWaveKind
  <1>5. CASE NextWave
    BY <1>5, NextWaveKind
  <1>6. CASE RunBatch \/ CheckHealth \/ ChooseUpdates \/ NextAction
    BY <1>6, RolloutKind
  <1>7. CASE FinalizeJob
    BY <1>7, FinalizeJobKind
  <1>8. CASE FinalSync
    BY <1>8, FinalSyncKind
  <1> QED BY <1>1, <1>2, <1>3, <1>4, <1>5, <1>6, <1>7, <1>8 DEF DeployStep

-----------------------------------------------------------------------------
(* No job comes back to a deploy that has taken it in hand. *)

(* A fresh run has nothing staged and nothing deployed. *)
LEMMA IdleOnce == run' = Idle => OnceInv'
  BY DEF Idle, OnceInv, InHand, Rolling

(* The steps of a deploy keep staged, in hand and deployed apart. *)
LEMMA StepOnce ==
    ASSUME TypeInv, WaveInv, OnceInv, DeployStep
    PROVE  OnceInv'
  <1>1. CASE Abort \/ Commit
    BY <1>1, IdleOnce DEF Abort, Commit
  <1>2. CASE \E s \in Slots : Visits(s)
    BY <1>2 DEF Visits, SameQueue, OnceInv, InHand, Rolling
  <1>3. CASE Passes
    BY <1>3 DEF Passes, SameQueue, OnceInv, InHand, Rolling
  <1>4. CASE Advances
    BY <1>4 DEF Advances, OnceInv, InHand, Rolling
  <1>5. CASE \E J \in SUBSET Jobs : Stages(J)
    <2>1. PICK J \in SUBSET Jobs : Stages(J)
      BY <1>5
    <2>2. /\ \A j \in run'.staged : DeploymentSeq[j] = run.wave
          /\ \A j \in run.deployed : DeploymentSeq[j] < run.wave
          /\ run.wave \in Nat
      BY <2>1 DEF Stages, JobsAtSeq, WaveInv, TypeInv, TypeOK, RunType
    <2>3. run'.staged \cap run.deployed = {}
      BY <2>2
    <2> QED BY <2>1, <2>3 DEF Stages, OnceInv, InHand, Rolling
  <1>6. CASE \E j \in Jobs : Takes(j)
    BY <1>6 DEF Takes, OnceInv, InHand, Rolling
  <1>7. CASE Moves
    BY <1>7 DEF Moves, SameQueue, OnceInv, InHand, Rolling
  <1>8. CASE Promotes
    BY <1>8 DEF Promotes, OnceInv, InHand, Rolling
  <1> QED BY <1>1, <1>2, <1>3, <1>4, <1>5, <1>6, <1>7, <1>8, DeployStepKinds

-----------------------------------------------------------------------------
(* What is finished stays promoted. *)

(* promoteAllocationHash, of a job whose plan hashes are those of its tree. *)
LEMMA PromotedByPromote ==
    ASSUME NEW cat \in CatalogType, NEW h \in HashType, NEW j \in Jobs, PlanIsTree(cat, h, j)
    PROVE  Promoted(cat, Promote(cat, h, j), j)
  <1>1. NonRemoved(cat, j) \subseteq Slots
    BY AllocationQueries
  <1> QED BY <1>1 DEF Promoted, PlanIsTree, Promote, HashType

(* Two tables that agree on a job have both promoted it or neither. *)
LEMMA PromotedAgrees ==
    ASSUME NEW cat, NEW g, NEW h, NEW j, Agree(cat, g, h, j), Promoted(cat, h, j)
    PROVE  Promoted(cat, g, j)
  BY DEF Agree, Promoted

(* Promoting a job leaves the promoted state of the others alone. *)
LEMMA PromoteOthers ==
    ASSUME NEW cat \in CatalogType, NEW h \in HashType, NEW j \in Jobs, NEW k \in Jobs \ {j}
    PROVE  Agree(cat, Promote(cat, h, j), h, k)
  <1>1. \A s \in NonRemoved(cat, k) : s \in Slots /\ s \notin NonRemoved(cat, j)
    BY AllocationQueries
  <1> QED BY <1>1, PromoteEffect DEF Agree

(* Planning leaves the promoted state of every job alone, and gives its own jobs
   the hashes of their trees. *)
LEMMA PlanAgrees ==
    ASSUME NEW cat \in CatalogType, NEW h \in HashType, NEW J \in SUBSET Jobs
    PROVE  /\ \A k : Agree(cat, UpdateAllocationPlan(cat, h, J), h, k)
           /\ \A j \in J : PlanIsTree(cat, UpdateAllocationPlan(cat, h, J), j)
  <1>1. \A j : \A s \in NonRemoved(cat, j) : s \in Slots /\ JobOf(s) = j
    BY AllocationQueries
  <1> QED BY <1>1, PlanEffect DEF Agree, PlanIsTree

(* A job is promoted for good by the tables that follow one another. *)
LEMMA StepFinish ==
    ASSUME LedgerInv, OnceInv, FinishInv, DeployStep
    PROVE  FinishInv'
  <1>1. /\ catalog \in CatalogType /\ hash \in HashType /\ run.hash \in HashType
        /\ finished \subseteq Jobs /\ run.deployed \subseteq Jobs
    BY DEF LedgerInv, TypeInv, TypeOK, RunType
  <1>2. CASE Abort
    BY <1>2, IdleFields, IdleType DEF Abort, db, FinishInv, InHand, Rolling
  <1>3. CASE Commit
    <2>1. /\ run.phase = "commit" /\ hash' = run.hash /\ run' = Idle
          /\ catalog' = catalog /\ finished' = finished
      BY <1>3 DEF Commit
    <2>2. ASSUME NEW j \in finished PROVE Promoted(catalog, run.hash, j)
      <3>1. CASE j \in run.deployed
        BY <3>1 DEF FinishInv
      <3>2. CASE j \notin run.deployed
        <4>1. Promoted(catalog, hash, j)
          BY <3>2 DEF FinishInv
        <4>2. Agree(catalog, run.hash, hash, j)
          BY <1>1, <2>1, <3>2 DEF LedgerInv, RetryInv
        <4> QED BY <4>1, <4>2, PromotedAgrees
      <3> QED BY <3>1, <3>2
    <2> QED BY <2>1, <2>2, IdleFields, IdleType DEF FinishInv, InHand, Rolling
  <1>4. CASE \E s \in Slots : Visits(s)
    <2>1. run.deployed = {}
      BY <1>4 DEF Visits, LedgerInv, WaveInv
    <2> QED BY <1>4, <2>1 DEF Visits, Carries, SameQueue, FinishInv, InHand, Rolling
  <1>5. CASE Passes
    BY <1>5 DEF Passes, Carries, SameQueue, FinishInv, InHand, Rolling
  <1>6. CASE Advances
    BY <1>6 DEF Advances, Carries, FinishInv, InHand, Rolling
  <1>7. CASE \E J \in SUBSET Jobs : Stages(J)
    <2>1. PICK J \in SUBSET Jobs : Stages(J)
      BY <1>7
    <2>2. \A j : Agree(catalog, run'.hash, run.hash, j)
      BY <1>1, <2>1, PlanAgrees DEF Stages
    <2>3. \A j \in run.deployed : Promoted(catalog, run'.hash, j)
      BY <2>2, PromotedAgrees DEF FinishInv
    <2> QED BY <2>1, <2>3 DEF Stages, Carries, FinishInv, InHand, Rolling
  <1>8. CASE \E j \in Jobs : Takes(j)
    <2>1. PICK j \in Jobs : Takes(j)
      BY <1>8
    <2>2. \A k : Agree(catalog, run'.hash, run.hash, k)
      BY <1>1, <2>1, PlanAgrees DEF Takes
    <2>3. \A k \in run.deployed : Promoted(catalog, run'.hash, k)
      BY <2>2, PromotedAgrees DEF FinishInv
    <2>4. PlanIsTree(catalog, run'.hash, j)
      BY <1>1, <2>1, PlanAgrees DEF Takes
    <2> QED BY <2>1, <2>3, <2>4 DEF Takes, Carries, FinishInv, InHand, Rolling
  <1>9. CASE Moves
    BY <1>9 DEF Moves, Carries, SameQueue, FinishInv, InHand, Rolling
  <1>10. CASE Promotes
    <2> DEFINE j == run.job
    <2>1. /\ j \in Jobs /\ run'.hash = Promote(catalog, run.hash, j) /\ hash' = hash
          /\ run'.deployed = run.deployed \cup {j} /\ finished' = finished \cup {j}
          /\ catalog' = catalog /\ run'.phase = "stage"
      BY <1>10 DEF Promotes, Carries
    <2>2. PlanIsTree(catalog, run.hash, j)
      BY <1>10 DEF Promotes, FinishInv, InHand
    <2>3. Promoted(catalog, run'.hash, j)
      BY <1>1, <2>1, <2>2, PromotedByPromote
    <2>4. ASSUME NEW k \in run.deployed \ {j} PROVE Promoted(catalog, run'.hash, k)
      <3>1. Agree(catalog, run'.hash, run.hash, k)
        BY <1>1, <2>1, PromoteOthers
      <3> QED BY <3>1, PromotedAgrees DEF FinishInv
    <2>5. finished' \ run'.deployed \subseteq finished \ run.deployed
      BY <2>1
    <2> QED BY <2>1, <2>3, <2>4, <2>5 DEF FinishInv, InHand, Rolling
  <1> QED BY <1>2, <1>3, <1>4, <1>5, <1>6, <1>7, <1>8, <1>9, <1>10, DeployStepKinds DEF LedgerInv

-----------------------------------------------------------------------------
(* What a rollout takes down. *)

(* Stopping an allocation, if it has an effect, ends its process and no other. *)
LEMMA StopEffect ==
    ASSUME NEW s \in Slots, live \in [Slots -> Contents \cup {Down}]
    PROVE  \A t \in Slots \ {s} : AfterStop(s)[t] = live[t]
  BY DEF AfterStop

(* With the same processes, the same are lost. *)
LEMMA LostKept ==
    ASSUME UNCHANGED <<catalog, live>>, run'.up = run.up
    PROVE  \A j : Lost(j)' = Lost(j)
  BY DEF Lost

(* A step that leaves the processes alone and adds nothing to what is ahead. *)
LEMMA CalmStep ==
    ASSUME BlastInv, UNCHANGED <<catalog, live, hash>>, run'.up = run.up,
           run'.phase \notin {"idle", "reconcile"},
           \A j \in Jobs : Ahead(j)' => Ahead(j),
           run'.phase = "start" => \A s \in run'.todo : run'.hash.prev[s] = None
    PROVE  BlastInv'
  <1>1. \A j : Lost(j)' = Lost(j)
    BY LostKept
  <1>2. \A j : Limit(j)' = Limit(j)
    BY DEF Limit
  <1>3. \A s \in run'.up : hash'.prev[s] # None
    BY DEF BlastInv
  <1>4. \A j \in Jobs : IsFiniteSet(Lost(j)') /\ Cardinality(Lost(j)') <= Limit(j)'
    BY <1>1, <1>2 DEF BlastInv
  <1>5. \A j \in Jobs : Ahead(j)' => Lost(j)' = {}
    BY <1>1 DEF BlastInv
  <1>6. /\ run'.phase # "idle" /\ run'.phase # "reconcile"
        /\ run'.phase = "start" => \A s \in run'.todo : run'.hash.prev[s] = None
    OBVIOUS
  <1> QED BY <1>3, <1>4, <1>5, <1>6 DEF BlastInv

(* Sets of slots are finite, for the cluster is. *)
LEMMA SlotsFinite == \A S \in SUBSET Slots : IsFiniteSet(S)
  <1>1. IsFiniteSet(Jobs) /\ IsFiniteSet(Workers)
    BY CatalogAssumption
  <1>2. IsFiniteSet(Jobs \X Workers)
    BY <1>1, FS_Product
  <1> QED BY <1>2, FS_Subset DEF Slots

(* effectiveBatchSize: upgrades go max_concurrent_upgrades at a time. *)
LEMMA BatchBound ==
    ASSUME TypeInv, run.phase \in {"reload", "restart"}, NEW n \in Nat
    PROVE  BatchSize(n) <= Limit(run.job)
  <1>1. run.job \in Jobs /\ MaxUpgrades[run.job] \in Nat /\ run.phase # "start"
    BY DeployAssumption DEF TypeInv, TypeOK
  <1> QED BY <1>1 DEF BatchSize, Limit

(* Nothing of what was up is hit by a command that works: what make start is given
   was not promoted, and what a reload or a restart is given has its tree. *)
LEMMA EffectSpares ==
    ASSUME LedgerInv, OnceInv, BlastInv, run.phase \in Rolling,
           NEW s \in run.todo \cap run.up
    PROVE  Effect(s) # Down /\ run.phase # "start"
  <1>1. /\ run.job \in Jobs \ run.deployed /\ s \in Active(catalog, run.job)
        /\ s \in NonRemoved(catalog, run.job)
    BY AllocationQueries DEF Rolling, InHand, OnceInv, LedgerInv, TypeInv, TypeOK
  <1>2. run.phase # "start"
    <2>1. hash.prev[s] # None
      BY DEF BlastInv
    <2>2. run.hash.prev[s] = hash.prev[s]
      BY <1>1 DEF Rolling, LedgerInv, RetryInv, Agree
    <2> QED BY <2>1, <2>2 DEF BlastInv
  <1>3. tree[s] \in Contents
    BY <1>1 DEF Rolling, LedgerInv, TypeInv, TreesInPlace
  <1>4. live[s] # Down
    BY <1>1 DEF BlastInv, Ahead, Rolling, InHand, Lost
  <1>5. Down \notin Contents
    BY DeployAssumption DEF Down
  <1> QED BY <1>2, <1>3, <1>4, <1>5 DEF Effect

(* A batch takes down nothing, or ends the rollout and takes down allocations of
   its own only. *)
LEMMA BatchLoses ==
    ASSUME LedgerInv, OnceInv, BlastInv, RunBatch, NEW j \in Jobs
    PROVE  \/ Lost(j)' = Lost(j)
           \/ /\ j = run.job /\ JobFailed
              /\ IsFiniteSet(Lost(j)') /\ Cardinality(Lost(j)') <= Limit(j)
  <1> DEFINE started(B) == [s \in Slots |-> IF s \in B THEN Effect(s) ELSE live[s]]
  <1>1. PICK B \in SUBSET run.todo :
            /\ Cardinality(B) = BatchSize(Cardinality(run.todo))
            /\ \/ live' = started(B)
               \/ /\ JobFailed
                  /\ \E bad \in SUBSET B :
                        \/ live' = started(B \ bad)
                        \/ live' = [s \in Slots |-> IF s \in bad THEN Down
                                                   ELSE IF s \in B THEN Effect(s) ELSE live[s]]
    BY DEF RunBatch
  <1>2. /\ TypeInv /\ run.phase \in Rolling /\ run.job \in Jobs /\ catalog \in CatalogType
        /\ run.todo \subseteq Active(catalog, run.job) /\ run.todo \subseteq Slots
    BY DEF RunBatch, Rolling, LedgerInv, TypeInv, TypeOK, RunType
  <1>3. catalog' = catalog /\ run'.up = run.up
    BY <1>2, RolloutKind DEF Moves, Carries
  <1>4. /\ \A s \in Active(catalog, run.job) : JobOf(s) = run.job
        /\ \A s \in Active(catalog, j) : JobOf(s) = j /\ s \in Slots
    BY <1>2, AllocationQueries
  <1>5. CASE j # run.job
    <2>1. \A s \in Active(catalog, j) : s \notin B
      BY <1>2, <1>4, <1>5
    <2>2. \A s \in Active(catalog, j) : live'[s] = live[s]
      BY <1>1, <1>4, <2>1
    <2> QED BY <1>3, <2>2 DEF Lost
  <1>6. CASE j = run.job
    <2>1. Lost(j) = {}
      BY <1>2, <1>6 DEF BlastInv, Ahead, InHand
    <2>2. \A s \in run.up \cap Active(catalog, j) : live[s] # Down
      BY <2>1 DEF Lost
    <2>3. \A s \in B \cap run.up : Effect(s) # Down /\ run.phase # "start"
      BY <1>2, EffectSpares
    <2>4. Lost(j)' = {s \in run.up \cap Active(catalog, j) : live'[s] = Down}
      BY <1>3 DEF Lost
    <2>5. CASE \E C \in SUBSET B : live' = started(C)
      <3>1. PICK C \in SUBSET B : live' = started(C)
        BY <2>5
      <3>2. \A s \in run.up \cap Active(catalog, j) : live'[s] # Down
        BY <1>4, <2>2, <2>3, <3>1
      <3> QED BY <2>1, <2>4, <3>2
    <2>6. CASE /\ JobFailed
               /\ \E bad \in SUBSET B :
                     live' = [s \in Slots |-> IF s \in bad THEN Down
                                             ELSE IF s \in B THEN Effect(s) ELSE live[s]]
      <3>1. \A s \in run.up \cap Active(catalog, j) : s \notin B => live'[s] # Down
        BY <1>4, <2>2, <2>6
      <3>2. Lost(j)' \subseteq B \cap run.up
        BY <2>4, <3>1
      <3>3. CASE B \cap run.up = {}
        BY <2>1, <3>2, <3>3
      <3>4. CASE B \cap run.up # {}
        <4>1. run.phase \in {"reload", "restart"}
          BY <1>2, <2>3, <3>4 DEF Rolling
        <4>2. IsFiniteSet(run.todo) /\ IsFiniteSet(B)
          BY <1>2, SlotsFinite
        <4>3. Cardinality(B) <= Limit(j)
          BY <1>1, <1>2, <1>6, <4>1, <4>2, FS_CardinalityType, BatchBound
        <4>4. /\ IsFiniteSet(Lost(j)') /\ Cardinality(Lost(j)') <= Cardinality(B)
              /\ Cardinality(Lost(j)') \in Nat /\ Cardinality(B) \in Nat
          BY <3>2, <4>2, FS_Subset, FS_CardinalityType
        <4>5. Limit(j) \in Nat
          BY DeployAssumption DEF Limit
        <4>6. Cardinality(Lost(j)') <= Limit(j)
          BY <4>3, <4>4, <4>5
        <4> QED BY <1>6, <2>6, <4>4, <4>6
      <3> QED BY <3>3, <3>4
    <2> QED BY <1>1, <2>5, <2>6
  <1> QED BY <1>5, <1>6

(* With nothing recorded as up, nothing is lost. *)
LEMMA NothingLost ==
    ASSUME run'.up = {}, run'.phase = "idle", run'.staged = {}
    PROVE  BlastInv'
  <1>1. \A j : Lost(j)' = {}
    BY DEF Lost
  <1>2. \A j \in Jobs : Limit(j)' \in Nat
    BY DeployAssumption DEF Limit
  <1>3. IsFiniteSet({}) /\ Cardinality({}) = 0
    BY FS_EmptySet
  <1>4. \A j \in Jobs : IsFiniteSet(Lost(j)') /\ Cardinality(Lost(j)') <= Limit(j)'
    BY <1>1, <1>2, <1>3
  <1>5. \A s \in run'.up : hash'.prev[s] # None
    OBVIOUS
  <1> QED BY <1>1, <1>4, <1>5 DEF BlastInv

(* The locals of a deploy that is over. *)
LEMMA IdleLocals == Idle.up = {} /\ Idle.phase = "idle" /\ Idle.staged = {} /\ Idle.wave = 0
  BY DEF Idle

(* Reconcile stops disabled and removed allocations only. *)
LEMMA VisitBlast ==
    ASSUME LedgerInv, BlastInv, NEW s \in Slots, Visits(s)
    PROVE  BlastInv'
  <1>1. /\ run.phase = "reconcile" /\ run'.phase = "reconcile" /\ s \in run.todo
        /\ run'.todo \subseteq run.todo /\ run'.up = run.up
        /\ run'.staged = run.staged /\ run'.wave = run.wave
        /\ catalog' = catalog /\ hash' = hash /\ live' \in {live, AfterStop(s)}
    BY DEF Visits, Carries, SameQueue
  <1>2. \A j : s \notin Active(catalog, j)
    BY <1>1 DEF BlastInv, Stopped, Active, NonRemoved
  <1>3. \A j : Active(catalog, j) \subseteq Slots
    BY AllocationQueries DEF LedgerInv, TypeInv, TypeOK
  <1>4. \A t \in Slots \ {s} : live'[t] = live[t]
    BY <1>1, StopEffect DEF LedgerInv, TypeInv, TypeOK
  <1>5. \A j : Lost(j)' = Lost(j)
    BY <1>1, <1>2, <1>3, <1>4 DEF Lost
  <1>6. \A j \in Jobs : Limit(j)' = Limit(j) /\ (Ahead(j)' => Ahead(j))
    BY <1>1 DEF Limit, Ahead, InHand, Rolling
  <1>7. Stopped(catalog)' = Stopped(catalog)
    BY <1>1 DEF Stopped
  <1>8. \A j \in Jobs : IsFiniteSet(Lost(j)') /\ Cardinality(Lost(j)') <= Limit(j)'
    BY <1>5, <1>6 DEF BlastInv
  <1>9. \A j \in Jobs : Ahead(j)' => Lost(j)' = {}
    BY <1>5, <1>6 DEF BlastInv
  <1>10. run'.todo \subseteq Stopped(catalog)' /\ \A t \in run'.up : hash'.prev[t] # None
    BY <1>1, <1>7 DEF BlastInv
  <1> QED BY <1>1, <1>8, <1>9, <1>10 DEF BlastInv

(* The moves of a rollout: it loses nothing, or it ends with what a batch may
   take down. *)
LEMMA MoveBlast ==
    ASSUME LedgerInv, OnceInv, BlastInv, Moves,
           \A j \in Jobs : \/ Lost(j)' = Lost(j)
                           \/ /\ j = run.job /\ run'.phase = "stage"
                              /\ IsFiniteSet(Lost(j)') /\ Cardinality(Lost(j)') <= Limit(j)
    PROVE  BlastInv'
  <1>1. /\ catalog' = catalog /\ hash' = hash /\ run'.up = run.up /\ run'.hash = run.hash
        /\ run'.staged = run.staged /\ run'.wave = run.wave
        /\ run.phase \in InHand /\ run'.phase \notin {"idle", "reconcile", "plan"}
        /\ run'.phase \in InHand => run'.job = run.job
        /\ run'.phase = "start" => run.phase = "start" /\ run'.todo \subseteq run.todo
    BY DEF Moves, Carries, SameQueue, InHand, Rolling
  <1>2. \A j \in Jobs : Limit(j)' = Limit(j) /\ (Ahead(j)' => Ahead(j))
    BY <1>1 DEF Limit, Ahead
  <1>3. \A j \in Jobs : IsFiniteSet(Lost(j)') /\ Cardinality(Lost(j)') <= Limit(j)'
    BY <1>2 DEF BlastInv
  <1>4. ASSUME NEW j \in Jobs, Ahead(j)' PROVE Lost(j)' = {}
    <2>1. Ahead(j) /\ Lost(j) = {}
      BY <1>2, <1>4 DEF BlastInv
    <2>2. CASE j = run.job /\ run'.phase = "stage"
      <3>1. j \notin run.staged
        BY <1>1, <2>2 DEF OnceInv
      <3>2. DeploymentSeq[j] <= run.wave /\ DeploymentSeq[j] \in Nat /\ run.wave \in Nat
        BY <2>2, DeployAssumption DEF LedgerInv, WaveInv, TypeInv, TypeOK, RunType
      <3>3. ~(DeploymentSeq[j] > run.wave)
        BY <3>2
      <3>4. FALSE
        BY <1>1, <1>4, <2>2, <3>1, <3>3 DEF Ahead, InHand, Rolling
      <3> QED BY <3>4
    <2> QED BY <2>1, <2>2
  <1>5. run'.phase = "start" => \A s \in run'.todo : run'.hash.prev[s] = None
    BY <1>1 DEF BlastInv
  <1>6. \A s \in run'.up : hash'.prev[s] # None
    BY <1>1 DEF BlastInv
  <1> QED BY <1>1, <1>3, <1>4, <1>5, <1>6 DEF BlastInv

(* Whatever the step, a deploy stays within the blast radius of its upgrades. *)
LEMMA StepBlast ==
    ASSUME LedgerInv, OnceInv, BlastInv, DeployStep
    PROVE  BlastInv'
  <1>1. TypeInv /\ run.wave \in Nat /\ \A j \in Jobs : DeploymentSeq[j] \in Nat
    BY DeployAssumption DEF LedgerInv, TypeInv, TypeOK, RunType
  <1>2. CASE Abort \/ Commit
    BY <1>2, NothingLost, IdleLocals DEF Abort, Commit
  <1>3. CASE \E s \in Slots : Visits(s)
    BY <1>3, VisitBlast
  <1>4. CASE Passes
    <2>1. /\ UNCHANGED <<catalog, live, hash>> /\ run'.up = run.up
          /\ run'.phase \in {"plan", "final", "commit"}
          /\ run'.staged = run.staged /\ run'.wave = run.wave
          /\ run'.phase = "plan" => run.phase = "reconcile"
      BY <1>4 DEF Passes, Carries, SameQueue
    <2>2. \A j \in Jobs : Ahead(j)' => Ahead(j)
      BY <2>1 DEF Ahead, InHand, Rolling
    <2> QED BY <2>1, <2>2, CalmStep
  <1>5. CASE Advances
    <2>1. /\ UNCHANGED <<catalog, live, hash>> /\ run'.up = run.up
          /\ run'.phase = "plan" /\ run'.staged = {} /\ run'.wave = run.wave + 1
      BY <1>5 DEF Advances, Carries
    <2>2. \A j \in Jobs : DeploymentSeq[j] >= run.wave + 1 \/ DeploymentSeq[j] > run.wave + 1
                              => DeploymentSeq[j] > run.wave
      BY <1>1
    <2>3. \A j \in Jobs : Ahead(j)' => DeploymentSeq[j] > run.wave
      BY <2>1, <2>2 DEF Ahead, InHand, Rolling
    <2>4. \A j \in Jobs : Ahead(j)' => Ahead(j)
      BY <2>3 DEF Ahead
    <2> QED BY <2>1, <2>4, CalmStep
  <1>6. CASE \E J \in SUBSET Jobs : Stages(J)
    <2>1. PICK J \in SUBSET Jobs : Stages(J)
      BY <1>6
    <2>2. /\ UNCHANGED <<catalog, live, hash>> /\ run'.up = run.up
          /\ run.phase = "plan" /\ run'.phase = "stage" /\ run'.wave = run.wave
          /\ \A j \in run'.staged : DeploymentSeq[j] = run.wave
      BY <2>1 DEF Stages, Carries, JobsAtSeq
    <2>3. \A j \in Jobs : DeploymentSeq[j] = run.wave => DeploymentSeq[j] >= run.wave
      BY <1>1
    <2>4. \A j \in Jobs : Ahead(j)' => Ahead(j)
      BY <2>2, <2>3 DEF Ahead, InHand, Rolling
    <2> QED BY <2>2, <2>4, CalmStep
  <1>7. CASE \E j \in Jobs : Takes(j)
    <2>1. PICK j \in Jobs : Takes(j)
      BY <1>7
    <2>2. /\ UNCHANGED <<catalog, live, hash>> /\ run'.up = run.up
          /\ run.phase = "stage" /\ run'.phase \in {"stage", "start", "finalize"}
          /\ run'.wave = run.wave /\ j \in run.staged /\ run'.staged = run.staged \ {j}
          /\ run'.phase # "stage" => run'.job = j
          /\ run'.phase = "start" => run'.todo = NewAllocations(catalog, run'.hash, j)
      BY <2>1 DEF Takes, Carries
    <2>3. \A k \in Jobs : Ahead(k)' => Ahead(k)
      BY <2>2 DEF Ahead, InHand, Rolling
    <2>4. run'.phase = "start" => \A s \in run'.todo : run'.hash.prev[s] = None
      BY <2>2 DEF NewAllocations
    <2> QED BY <2>2, <2>3, <2>4, CalmStep
  <1>8. CASE Promotes
    <2>1. /\ UNCHANGED <<catalog, live, hash>> /\ run'.up = run.up
          /\ run'.phase = "stage" /\ run'.staged = run.staged /\ run'.wave = run.wave
      BY <1>8 DEF Promotes, Carries
    <2>2. \A j \in Jobs : Ahead(j)' => Ahead(j)
      BY <2>1 DEF Ahead, InHand, Rolling
    <2> QED BY <2>1, <2>2, CalmStep
  <1>9. CASE RunBatch
    <2>1. Moves
      BY <1>1, <1>9, RolloutKind
    <2>2. JobFailed => run'.phase = "stage"
      BY <1>1, JobFailedType
    <2> QED BY <1>9, <2>1, <2>2, BatchLoses, MoveBlast
  <1>10. CASE Moves /\ ~RunBatch
    <2>1. live' = live
      <3>1. run.phase \in InHand /\ run'.phase # "idle"
        BY <1>10 DEF Moves, Carries
      <3>2. run.phase \notin {"reconcile", "plan", "stage", "final", "commit"}
        BY <3>1 DEF InHand, Rolling
      <3>3. CheckHealth \/ ChooseUpdates \/ NextAction \/ FinalizeJob
        BY <1>10, <3>2 DEF DeployStep, ReconcileStop, ReconcileSkip, FinishReconcile, PlanWave,
                           NextWave, SyncJob, FinalSync, Commit
      <3> QED BY <3>3 DEF CheckHealth, ChooseUpdates, NextAction, FinalizeJob, hosts
    <2>2. catalog' = catalog /\ run'.up = run.up
      BY <1>10 DEF Moves, Carries
    <2> QED BY <1>10, <2>1, <2>2, LostKept, MoveBlast
  <1> QED BY <1>1, <1>2, <1>3, <1>4, <1>5, <1>6, <1>7, <1>8, <1>9, <1>10, DeployStepKinds

-----------------------------------------------------------------------------
(* What success says. *)

(* Two tables that agree on a job have both settled it or neither. *)
LEMMA SettledAgrees ==
    ASSUME NEW cat, NEW g, NEW h, NEW j, Agree(cat, g, h, j), Settled(cat, h, j)
    PROVE  Settled(cat, g, j)
  BY DEF Agree, Settled

(* A job that was promoted is settled. *)
LEMMA PromotedSettles ==
    ASSUME NEW cat, NEW h, NEW j, Promoted(cat, h, j)
    PROVE  Settled(cat, h, j)
  BY DEF Promoted, Settled

(* JobNeedsRollout: a planned job that needs none is settled. *)
LEMMA UnneededSettles ==
    ASSUME NEW cat \in CatalogType, NEW h \in HashType, NEW j, PlanIsTree(cat, h, j),
           \A s \in NonRemoved(cat, j) : cat.content[j] # None,
           ~JobNeedsRollout(cat, h, j)
    PROVE  Settled(cat, h, j)
  <1> SUFFICES ASSUME NEW s \in NonRemoved(cat, j)
               PROVE  /\ h.ver[s] = cat.version[s]
                      /\ h.prev[s] = cat.content[j] \/ (s \in cat.disabled /\ h.prev[s] = None)
    BY DEF Settled
  <1>1. h.cur[s] = cat.content[j] /\ cat.content[j] # None
    BY DEF PlanIsTree
  <1>2. ~ContentChanged(h, s) /\ ~VersionChanged(cat, h, s)
    BY DEF JobNeedsRollout
  <1>3. s \notin NewAllocations(cat, h, j)
    BY DEF JobNeedsRollout
  <1>4. h.prev[s] = None => s \in cat.disabled
    BY <1>1, <1>3 DEF NewAllocations, Active
  <1> QED BY <1>1, <1>2, <1>4 DEF ContentChanged, VersionChanged

(* A step that keeps the promoted state, what is behind and what is staged. *)
LEMMA OkKept ==
    ASSUME OkInv, catalog' = catalog, hash' = hash, result' = result, run'.opts = run.opts,
           run.phase \notin {"idle", "reconcile"}, run'.phase \notin {"idle", "reconcile"},
           \A j : Agree(catalog, run'.hash, run.hash, j),
           ~run'.errors => ~run.errors,
           \A j \in Jobs : Behind(j)' => Behind(j),
           \A j \in Jobs : j \in run.staged \/ (run.phase \in InHand /\ j = run.job) =>
                           run'.errors \/ j \in run'.staged
                                       \/ (run'.phase \in InHand /\ j = run'.job),
           run'.phase \in {"final", "commit"} => \A j \in Jobs : Behind(j)'
    PROVE  OkInv'
  <1>1. result' = "ok" => \A j \in Jobs : Settled(catalog', hash', j)
    BY DEF OkInv
  <1>2. run'.opts.jobs = Jobs
    BY DEF OkInv
  <1>3. ASSUME ~run'.errors, NEW j \in Jobs, Behind(j)'
        PROVE  \/ Settled(catalog', run'.hash, j)
               \/ j \in run'.staged
               \/ run'.phase \in InHand /\ j = run'.job
    <2>1. CASE Settled(catalog, run.hash, j)
      BY <2>1, SettledAgrees
    <2>2. CASE j \in run.staged \/ (run.phase \in InHand /\ j = run.job)
      BY <1>3, <2>2
    <2> QED BY <1>3, <2>1, <2>2 DEF OkInv
  <1>4. InHand' = InHand
    BY DEF InHand, Rolling
  <1> QED BY <1>1, <1>2, <1>3, <1>4 DEF OkInv

(* A planned sequence leaves its jobs settled or staged, unless some of them
   failed. *)
LEMMA StagesOk ==
    ASSUME LedgerInv, OnceInv, OkInv, NEW J \in SUBSET Jobs, Stages(J)
    PROVE  OkInv'
  <1>1. /\ catalog' = catalog /\ hash' = hash /\ result' = result /\ run'.opts = run.opts
        /\ run.phase = "plan" /\ run'.phase = "stage" /\ run'.wave = run.wave
        /\ run'.hash = UpdateAllocationPlan(catalog, run.hash, J) /\ run'.staged \subseteq J
        /\ \A j \in J : JobNeedsRollout(catalog, run'.hash, j) => j \in run'.staged
        /\ ~run'.errors => /\ ~run.errors
                           /\ J = JobsAtSeq(catalog, DeploymentSeq, run.wave) \cap run.opts.jobs
    BY DEF Stages, Carries
  <1>2. /\ catalog \in CatalogType /\ run.hash \in HashType /\ run'.hash \in HashType
        /\ run.wave \in Nat /\ \A j \in Jobs : DeploymentSeq[j] \in Nat
    BY <1>1, PlanEffect, DeployAssumption DEF LedgerInv, TypeInv, TypeOK, RunType
  <1>3. run.opts.jobs = Jobs /\ run.staged = {}
    BY <1>1 DEF OkInv, OnceInv
  <1>4. ASSUME NEW j \in Jobs PROVE \A s \in NonRemoved(catalog, j) : catalog.content[j] # None
    BY DEF LedgerInv, TypeInv, CatalogSound, NonRemoved
  <1>5. ASSUME NEW j \in Jobs, ~run'.errors, Behind(j)'
        PROVE  Settled(catalog, run'.hash, j) \/ j \in run'.staged
    <2>1. DeploymentSeq[j] < run.wave \/ DeploymentSeq[j] = run.wave
      BY <1>1, <1>5 DEF Behind
    <2>2. CASE DeploymentSeq[j] < run.wave
      <3>1. Settled(catalog, run.hash, j)
        BY <1>1, <1>3, <1>5, <2>2 DEF OkInv, Behind, InHand, Rolling
      <3>2. Agree(catalog, run'.hash, run.hash, j)
        BY <1>1, <1>2, PlanAgrees
      <3> QED BY <3>1, <3>2, SettledAgrees
    <2>3. CASE DeploymentSeq[j] = run.wave
      <3>1. CASE NonRemoved(catalog, j) = {}
        BY <3>1 DEF Settled
      <3>2. CASE NonRemoved(catalog, j) # {}
        <4>1. j \in J
          BY <1>1, <1>3, <1>4, <1>5, <2>3, <3>2 DEF JobsAtSeq
        <4>2. PlanIsTree(catalog, run'.hash, j)
          BY <1>1, <1>2, <4>1, PlanAgrees
        <4> QED BY <1>1, <1>2, <1>4, <4>1, <4>2, UnneededSettles
      <3> QED BY <3>1, <3>2
    <2> QED BY <2>1, <2>2, <2>3
  <1>6. result' = "ok" => \A j \in Jobs : Settled(catalog', hash', j)
    BY <1>1 DEF OkInv
  <1> QED BY <1>1, <1>3, <1>5, <1>6 DEF OkInv

(* The other steps of a deploy either keep what they plan, promote it or fail. *)
LEMMA StepOk ==
    ASSUME LedgerInv, OnceInv, FinishInv, OkInv, DeployStep
    PROVE  OkInv'
  <1>1. /\ TypeInv /\ catalog \in CatalogType /\ run.hash \in HashType
        /\ run.wave \in Nat /\ \A j \in Jobs : DeploymentSeq[j] \in Nat
    BY DeployAssumption DEF LedgerInv, TypeInv, TypeOK, RunType
  <1>2. CASE Abort
    BY <1>2, IdleLocals DEF Abort, OkInv
  <1>3. CASE Commit
    <2>1. /\ run.phase = "commit" /\ hash' = run.hash /\ run' = Idle /\ catalog' = catalog
          /\ result' = (IF run.errors THEN "failed" ELSE "ok")
      BY <1>3 DEF Commit
    <2>2. ~run.errors => \A j \in Jobs : Settled(catalog, run.hash, j)
      BY <2>1 DEF OkInv, OnceInv, InHand, Rolling
    <2> QED BY <2>1, <2>2, IdleLocals DEF OkInv
  <1>4. CASE \E s \in Slots : Visits(s)
    BY <1>4 DEF Visits, Carries, SameQueue, OkInv
  <1>5. CASE Passes
    <2>1. /\ catalog' = catalog /\ hash' = hash /\ result' = result /\ run'.opts = run.opts
          /\ run'.hash = run.hash /\ run'.staged = run.staged /\ run'.wave = run.wave
          /\ ~run'.errors => ~run.errors
          /\ run'.phase \notin {"idle", "reconcile"}
          /\ \/ run.phase = "reconcile" /\ run'.phase = "plan"
             \/ /\ run.phase = "stage" /\ run'.phase = "final"
                /\ \A j \in Jobs : ~(DeploymentSeq[j] > run.wave)
             \/ run.phase = "final" /\ run'.phase = "commit"
      BY <1>5 DEF Passes, Carries, SameQueue
    <2>2. \A j : Agree(catalog, run'.hash, run.hash, j)
      BY <2>1 DEF Agree
    <2>3. CASE run.phase = "reconcile" /\ run'.phase = "plan"
      <3>1. run.wave = 0
        BY <2>3 DEF OkInv
      <3>2. \A j \in Jobs : ~(DeploymentSeq[j] < 0)
        BY <1>1
      <3>3. \A j \in Jobs : ~Behind(j)'
        BY <2>1, <2>3, <3>1, <3>2 DEF Behind
      <3> QED BY <2>1, <2>3, <3>3 DEF OkInv
    <2>4. CASE run.phase \in {"stage", "final"} /\ run'.phase \in {"final", "commit"}
      <3>1. \A j \in Jobs : Behind(j)' <=> Behind(j)
        BY <2>1, <2>4 DEF Behind
      <3>2. \A j \in Jobs : Behind(j)
        <4>1. CASE run.phase = "final"
          BY <4>1 DEF OkInv
        <4>2. CASE run.phase = "stage"
          <5>1. \A j \in Jobs : DeploymentSeq[j] < run.wave \/ DeploymentSeq[j] = run.wave
            BY <1>1, <2>1, <4>2
          <5> QED BY <4>2, <5>1 DEF Behind
        <4> QED BY <2>4, <4>1, <4>2
      <3> QED BY <2>1, <2>2, <2>4, <3>1, <3>2, OkKept DEF InHand, Rolling
    <2> QED BY <2>1, <2>3, <2>4
  <1>6. CASE Advances
    <2>1. /\ catalog' = catalog /\ hash' = hash /\ result' = result /\ run'.opts = run.opts
          /\ run.phase = "stage" /\ run.staged = {} /\ run'.phase = "plan"
          /\ run'.hash = run.hash /\ run'.wave = run.wave + 1 /\ run'.errors = run.errors
      BY <1>6 DEF Advances, Carries
    <2>2. \A j : Agree(catalog, run'.hash, run.hash, j)
      BY <2>1 DEF Agree
    <2>3. \A j \in Jobs : DeploymentSeq[j] < run.wave + 1 =>
              DeploymentSeq[j] < run.wave \/ DeploymentSeq[j] = run.wave
      BY <1>1
    <2>4. \A j \in Jobs : Behind(j)' => Behind(j)
      BY <2>1, <2>3 DEF Behind
    <2> QED BY <2>1, <2>2, <2>4, OkKept DEF InHand, Rolling
  <1>7. CASE \E J \in SUBSET Jobs : Stages(J)
    BY <1>7, StagesOk
  <1>8. CASE \E j \in Jobs : Takes(j)
    <2>1. PICK j \in Jobs : Takes(j)
      BY <1>8
    <2>2. /\ catalog' = catalog /\ hash' = hash /\ result' = result /\ run'.opts = run.opts
          /\ run.phase = "stage" /\ run'.wave = run.wave
          /\ run'.hash = UpdateAllocationPlan(catalog, run.hash, {j})
          /\ run'.staged = run.staged \ {j}
          /\ \/ run'.phase = "stage" /\ run'.errors
             \/ /\ run'.phase \in {"start", "finalize"} /\ run'.job = j
                /\ run'.errors = run.errors
      BY <2>1 DEF Takes, Carries
    <2>3. \A k : Agree(catalog, run'.hash, run.hash, k)
      BY <1>1, <2>2, PlanAgrees
    <2>4. \A k \in Jobs : Behind(k)' => Behind(k)
      BY <2>2 DEF Behind
    <2> QED BY <2>2, <2>3, <2>4, OkKept DEF InHand, Rolling
  <1>9. CASE Moves
    <2>1. /\ catalog' = catalog /\ hash' = hash /\ result' = result /\ run'.opts = run.opts
          /\ run.phase \in InHand /\ run'.wave = run.wave
          /\ run'.hash = run.hash /\ run'.staged = run.staged
          /\ \/ run'.phase = "stage" /\ run'.errors
             \/ /\ run'.phase \in InHand /\ run'.job = run.job
                /\ run'.errors = run.errors
      BY <1>9 DEF Moves, Carries, SameQueue
    <2>2. \A k : Agree(catalog, run'.hash, run.hash, k)
      BY <2>1 DEF Agree
    <2>3. \A k \in Jobs : Behind(k)' => Behind(k)
      BY <2>1 DEF Behind, InHand, Rolling
    <2> QED BY <2>1, <2>2, <2>3, OkKept DEF InHand, Rolling
  <1>10. CASE Promotes
    <2> DEFINE j == run.job
    <2>1. /\ catalog' = catalog /\ hash' = hash /\ result' = result /\ run'.opts = run.opts
          /\ run.phase = "finalize" /\ run'.phase = "stage" /\ run'.wave = run.wave
          /\ run'.hash = Promote(catalog, run.hash, j) /\ run'.staged = run.staged
          /\ run'.errors = run.errors /\ j \in Jobs
      BY <1>10 DEF Promotes, Carries
    <2>2. Settled(catalog, run'.hash, j)
      <3>1. PlanIsTree(catalog, run.hash, j)
        BY <2>1 DEF FinishInv, InHand
      <3> QED BY <1>1, <2>1, <3>1, PromotedByPromote, PromotedSettles
    <2>3. ASSUME NEW k \in Jobs \ {j}, Behind(k)', ~run'.errors
          PROVE  Settled(catalog, run'.hash, k) \/ k \in run'.staged
      <3>1. Behind(k)
        BY <2>1, <2>3 DEF Behind
      <3>2. Settled(catalog, run.hash, k) \/ k \in run.staged
        BY <2>1, <2>3, <3>1 DEF OkInv
      <3>3. Agree(catalog, run'.hash, run.hash, k)
        BY <1>1, <2>1, PromoteOthers
      <3> QED BY <2>1, <3>2, <3>3, SettledAgrees
    <2>4. ASSUME NEW k \in Jobs, Behind(k)', ~run'.errors
          PROVE  Settled(catalog, run'.hash, k) \/ k \in run'.staged
      BY <2>2, <2>3, <2>4
    <2>5. result' = "ok" => \A k \in Jobs : Settled(catalog, hash, k)
      BY <2>1 DEF OkInv
    <2>6. run'.opts.jobs = Jobs
      BY <2>1 DEF OkInv
    <2> HIDE DEF j
    <2> QED BY <2>1, <2>4, <2>5, <2>6 DEF OkInv
  <1> QED BY <1>1, <1>2, <1>3, <1>4, <1>5, <1>6, <1>7, <1>8, <1>9, <1>10, DeployStepKinds

-----------------------------------------------------------------------------
(* Between the steps of a deploy: builds, collections, starts and crashes. *)

RolloutInv == LedgerInv /\ OnceInv /\ FinishInv /\ BlastInv

(* The empty bucket has nothing finished, nothing up and nothing deployed. *)
LEMMA InitRollout == Init => RolloutInv /\ OkInv
  <1> SUFFICES ASSUME Init PROVE RolloutInv /\ OkInv
    OBVIOUS
  <1>1. run = Idle /\ finished = {} /\ result = "none"
    BY DEF Init
  <1>2. run.phase = "idle" /\ run.staged = {} /\ run.deployed = {} /\ run.up = {} /\ run.wave = 0
    BY <1>1, IdleLocals, IdleFields
  <1>3. OnceInv /\ FinishInv /\ OkInv
    BY <1>1, <1>2 DEF OnceInv, FinishInv, OkInv, InHand, Rolling
  <1>4. BlastInv
    <2>1. \A j : Lost(j) = {}
      BY <1>2 DEF Lost
    <2>2. \A j \in Jobs : Limit(j) \in Nat
      BY DeployAssumption DEF Limit
    <2>3. IsFiniteSet({}) /\ Cardinality({}) = 0
      BY FS_EmptySet
    <2>4. \A j \in Jobs : IsFiniteSet(Lost(j)) /\ Cardinality(Lost(j)) <= Limit(j)
      BY <2>1, <2>2, <2>3
    <2> QED BY <1>2, <2>1, <2>4 DEF BlastInv
  <1> QED BY <1>3, <1>4, InitLedger DEF RolloutInv

(* While no deploy runs, the invariants only speak of the tables. *)
LEMMA IdleStep ==
    ASSUME run' = Idle, \A j \in finished' : Promoted(catalog', hash', j)
    PROVE  OnceInv' /\ FinishInv' /\ BlastInv'
  <1>1. run'.phase = "idle" /\ run'.staged = {} /\ run'.deployed = {} /\ run'.up = {}
    BY IdleLocals, IdleFields
  <1>2. FinishInv'
    BY <1>1 DEF FinishInv, InHand, Rolling
  <1> QED BY <1>1, <1>2, IdleOnce, NothingLost

(* So does the one of success. *)
LEMMA IdleOk ==
    ASSUME run' = Idle, result' = "ok" => \A j \in Jobs : Settled(catalog', hash', j)
    PROVE  OkInv'
  BY IdleLocals DEF OkInv

(* What an idle state promises. *)
LEMMA IdleKnows ==
    ASSUME FinishInv, run = Idle
    PROVE  \A j \in finished : Promoted(catalog, hash, j)
  BY IdleFields DEF FinishInv

(* gc deletes removed rows and their hashes: the allocations that stay keep their
   content, version and promoted state. *)
LEMMA PurgeKeepsPromoted ==
    ASSUME NEW cat \in CatalogType, NEW h \in HashType, NEW j
    PROVE  /\ Promoted(cat, h, j) =>
                  Promoted(PurgeRemoved(cat), RemoveHash(h, cat.removed), j)
           /\ Settled(cat, h, j) =>
                  Settled(PurgeRemoved(cat), RemoveHash(h, cat.removed), j)
  <1> DEFINE new == PurgeRemoved(cat)
             g == RemoveHash(h, cat.removed)
  <1>1. \A s \in NonRemoved(cat, j) : s \in Slots \ cat.removed
    BY AllocationQueries DEF NonRemoved
  <1>2. /\ new.content = cat.content
        /\ NonRemoved(new, j) = NonRemoved(cat, j)
        /\ \A s \in NonRemoved(cat, j) : /\ new.version[s] = cat.version[s]
                                         /\ s \in cat.disabled => s \in new.disabled
    BY <1>1 DEF PurgeRemoved, CatalogType, NonRemoved
  <1>3. \A s \in NonRemoved(cat, j) : g.prev[s] = h.prev[s] /\ g.ver[s] = h.ver[s]
    BY <1>1, RemoveEffect
  <1> HIDE DEF new, g
  <1>4. /\ Promoted(cat, h, j) => Promoted(new, g, j)
        /\ Settled(cat, h, j) => Settled(new, g, j)
    BY <1>2, <1>3 DEF Promoted, Settled
  <1> QED BY <1>4 DEF new, g

(* A collection takes nothing from what is finished or settled, whether it gets
   through or not. *)
LEMMA GCRollout ==
    ASSUME LedgerInv, GC
    PROVE  /\ FinishInv => OnceInv' /\ FinishInv' /\ BlastInv'
           /\ OkInv => OkInv'
  <1>1. run = Idle /\ run' = Idle /\ result' = result /\ finished' = finished
    BY DEF GC, ledger
  <1>2. catalog \in CatalogType /\ hash \in HashType
    BY DEF LedgerInv, TypeInv, TypeOK
  <1>3. \/ UNCHANGED <<catalog, hash>>
        \/ catalog' = PurgeRemoved(catalog) /\ hash' = RemoveHash(hash, catalog.removed)
    BY DEF GC
  <1>4. ASSUME FinishInv PROVE OnceInv' /\ FinishInv' /\ BlastInv'
    <2>1. \A j \in finished : Promoted(catalog, hash, j)
      BY <1>1, <1>4, IdleKnows
    <2>2. \A j \in finished' : Promoted(catalog', hash', j)
      BY <1>1, <1>2, <1>3, <2>1, PurgeKeepsPromoted
    <2> QED BY <1>1, <2>2, IdleStep
  <1>5. ASSUME OkInv PROVE OkInv'
    <2>1. result = "ok" => \A j \in Jobs : Settled(catalog, hash, j)
      BY <1>5 DEF OkInv
    <2>2. result' = "ok" => \A j \in Jobs : Settled(catalog', hash', j)
      BY <1>1, <1>2, <1>3, <2>1, PurgeKeepsPromoted
    <2> QED BY <1>1, <2>2, IdleOk
  <1> QED BY <1>4, <1>5

(* A build starts the record of what is finished afresh. *)
LEMMA BuildRollout ==
    ASSUME Build
    PROVE  OnceInv' /\ FinishInv' /\ BlastInv' /\ OkInv'
  <1>1. run' = Idle /\ finished' = {} /\ result' = "none"
    BY DEF Build
  <1> QED BY <1>1, IdleStep, IdleOk

(* A deploy starts with nothing taken down, and one of every job if every deploy
   is. *)
LEMMA StartDeployRollout ==
    ASSUME LedgerInv, NEW o \in Options, StartDeploy(o)
    PROVE  /\ FinishInv => OnceInv' /\ FinishInv' /\ BlastInv'
           /\ o.jobs = Jobs => OkInv'
  <1>1. run = Idle /\ UNCHANGED <<catalog, hash, live, finished>>
    BY DEF StartDeploy, hosts
  <1>2. CASE run' = run /\ result' = "aborted"
    <2>1. ASSUME FinishInv PROVE OnceInv' /\ FinishInv' /\ BlastInv'
      BY <1>1, <1>2, <2>1, IdleKnows, IdleStep
    <2> QED BY <1>1, <1>2, <2>1, IdleOk
  <1>3. CASE /\ run' = [Idle EXCEPT !.phase = "reconcile", !.opts = o, !.hash = hash,
                                    !.todo = Stopped(catalog), !.hits = faults,
                                    !.up = {s \in Slots : hash.prev[s] # None
                                                           /\ live[s] # Down}]
             /\ result' = "none"
    <2>1. /\ run'.phase = "reconcile" /\ run'.opts = o /\ run'.todo = Stopped(catalog)
          /\ run'.deployed = {} /\ run'.staged = {} /\ run'.wave = 0
          /\ run'.up = {s \in Slots : hash.prev[s] # None /\ live[s] # Down}
      BY <1>3 DEF Idle
    <2>2. OnceInv' /\ (o.jobs = Jobs => OkInv')
      BY <1>3, <2>1 DEF OnceInv, OkInv, InHand, Rolling
    <2>3. ASSUME FinishInv PROVE FinishInv'
      <3>1. \A j \in finished : Promoted(catalog, hash, j)
        BY <1>1, <2>3, IdleKnows
      <3> QED BY <1>1, <2>1, <3>1 DEF FinishInv, InHand, Rolling
    <2>4. BlastInv'
      <3>1. \A j : Lost(j)' = {}
        BY <1>1, <2>1 DEF Lost
      <3>2. \A j \in Jobs : Limit(j)' \in Nat
        BY DeployAssumption DEF Limit
      <3>3. IsFiniteSet({}) /\ Cardinality({}) = 0
        BY FS_EmptySet
      <3>4. \A j \in Jobs : IsFiniteSet(Lost(j)') /\ Cardinality(Lost(j)') <= Limit(j)'
        BY <3>1, <3>2, <3>3
      <3>5. /\ \A s \in run'.up : hash'.prev[s] # None
            /\ run'.todo \subseteq Stopped(catalog)'
        BY <1>1, <2>1 DEF Stopped
      <3> QED BY <2>1, <3>1, <3>4, <3>5 DEF BlastInv
    <2> QED BY <2>2, <2>3, <2>4
  <1> QED BY <1>2, <1>3 DEF StartDeploy

(* A crash forgets the copy, and with it what was promoted there only. *)
LEMMA CrashRollout ==
    ASSUME FinishInv, Crash
    PROVE  OnceInv' /\ FinishInv' /\ BlastInv' /\ OkInv'
  <1>1. /\ run' = Idle /\ result' = "aborted" /\ UNCHANGED <<catalog, hash>>
        /\ finished' = finished \ run.deployed
    BY DEF Crash, Abort, db
  <1>2. \A j \in finished' : Promoted(catalog', hash', j)
    BY <1>1 DEF FinishInv
  <1> QED BY <1>1, <1>2, IdleStep, IdleOk

(* A step of somebody else. *)
LEMMA StutterRollout ==
    ASSUME UNCHANGED vars
    PROVE  /\ OnceInv /\ FinishInv /\ BlastInv => OnceInv' /\ FinishInv' /\ BlastInv'
           /\ OkInv => OkInv'
  <1>1. UNCHANGED <<catalog, hash, live, run, result, finished>>
    BY DEF vars, db, hosts, ledger
  <1>2. /\ \A j : Lost(j)' = Lost(j) /\ Limit(j)' = Limit(j) /\ Ahead(j)' = Ahead(j)
        /\ Stopped(catalog)' = Stopped(catalog) /\ \A j : Behind(j)' = Behind(j)
    BY <1>1 DEF Lost, Limit, Ahead, Stopped, Behind, InHand, Rolling
  <1>3. OnceInv /\ FinishInv => OnceInv' /\ FinishInv'
    BY <1>1 DEF OnceInv, FinishInv, InHand, Rolling
  <1>4. BlastInv => BlastInv'
    BY <1>1, <1>2 DEF BlastInv
  <1>5. OkInv => OkInv'
    BY <1>1, <1>2 DEF OkInv, InHand, Rolling
  <1> QED BY <1>3, <1>4, <1>5

(* RolloutInv is inductive. *)
LEMMA NextRollout == RolloutInv /\ [Next]_vars => RolloutInv'
  <1> SUFFICES ASSUME RolloutInv, [Next]_vars PROVE RolloutInv'
    OBVIOUS
  <1>1. LedgerInv /\ OnceInv /\ FinishInv /\ BlastInv
    BY DEF RolloutInv
  <1>2. LedgerInv'
    BY <1>1, NextLedger
  <1>3. OnceInv' /\ FinishInv' /\ BlastInv'
    <2>1. CASE DeployStep
      BY <1>1, <2>1, StepOnce, StepFinish, StepBlast DEF LedgerInv
    <2>2. CASE Build
      BY <2>2, BuildRollout
    <2>3. CASE GC
      BY <1>1, <2>3, GCRollout
    <2>4. CASE \E o \in Options : StartDeploy(o)
      BY <1>1, <2>4, StartDeployRollout
    <2>5. CASE Crash
      BY <1>1, <2>5, CrashRollout
    <2>6. CASE UNCHANGED vars
      BY <1>1, <2>6, StutterRollout
    <2> QED BY <2>1, <2>2, <2>3, <2>4, <2>5, <2>6 DEF Next
  <1> QED BY <1>2, <1>3 DEF RolloutInv

(* OkInv is inductive relative to it, where every deploy is one of every job. *)
LEMMA NextOk ==
    ASSUME EveryJob, RolloutInv, OkInv, [Next]_vars
    PROVE  OkInv'
  <1>1. LedgerInv /\ OnceInv /\ FinishInv
    BY DEF RolloutInv
  <1>2. CASE DeployStep
    BY <1>1, <1>2, StepOk
  <1>3. CASE Build
    BY <1>3, BuildRollout
  <1>4. CASE GC
    BY <1>1, <1>4, GCRollout
  <1>5. CASE \E o \in Options : StartDeploy(o)
    BY <1>1, <1>5, StartDeployRollout DEF EveryJob
  <1>6. CASE Crash
    BY <1>1, <1>6, CrashRollout
  <1>7. CASE UNCHANGED vars
    BY <1>7, StutterRollout
  <1> QED BY <1>2, <1>3, <1>4, <1>5, <1>6, <1>7 DEF Next

-----------------------------------------------------------------------------
(* The inductive invariant behind the theorems below. *)
THEOREM RolloutInvariant == Spec => []RolloutInv
  <1>1. Init => RolloutInv
    BY InitRollout
  <1> QED BY <1>1, NextRollout, PTL DEF Spec

(* rolloutRestartBatches: whatever commands fail, processes are lost, health checks
   give up and deploys crash, a deploy takes down at most max_concurrent_upgrades
   of the allocations of a job that were up and promoted when it started. *)
THEOREM RolloutsStayInBounds == Spec => []BlastRadius
  <1>1. RolloutInv => BlastRadius
    BY DEF RolloutInv, BlastInv, BlastRadius, Lost, Limit
  <1> QED BY RolloutInvariant, <1>1, PTL

(* "Job A: skipped (already promoted)": between deploys, no job that was rolled out
   and promoted since the last build needs a rollout, whatever jobs failed beside
   it, whatever later deploys were filtered, forced or aborted, and whatever was
   collected. *)
THEOREM FinishedJobsAreSkipped == Spec => []FinishedJobsSkipped
  <1>1. RolloutInv => FinishedJobsSkipped
    <2> SUFFICES ASSUME RolloutInv, run = Idle, NEW j \in finished
                 PROVE  ~JobNeedsRollout(catalog, UpdateAllocationPlan(catalog, hash, {j}), j)
      BY DEF FinishedJobsSkipped
    <2> DEFINE h == UpdateAllocationPlan(catalog, hash, {j})
    <2>1. catalog \in CatalogType /\ hash \in HashType /\ j \in Jobs
      BY DEF RolloutInv, LedgerInv, TypeInv, TypeOK
    <2>2. Promoted(catalog, hash, j)
      BY IdleKnows DEF RolloutInv
    <2>3. {j} \in SUBSET Jobs /\ j \in {j}
      BY <2>1
    <2>4. Agree(catalog, h, hash, j) /\ PlanIsTree(catalog, h, j)
      BY <2>1, <2>3, PlanAgrees
    <2>5. Promoted(catalog, h, j)
      BY <2>2, <2>4, PromotedAgrees
    <2>6. \A s \in NonRemoved(catalog, j) : catalog.content[j] # None
      BY DEF RolloutInv, LedgerInv, TypeInv, CatalogSound, NonRemoved
    <2>7. Active(catalog, j) \subseteq NonRemoved(catalog, j)
      BY DEF Active
    <2> HIDE DEF h
    <2>8. ~JobNeedsRollout(catalog, h, j)
      BY <2>4, <2>5, <2>6, <2>7 DEF JobNeedsRollout, NewAllocations, ContentChanged,
                                    VersionChanged, Promoted, PlanIsTree
    <2> QED BY <2>8 DEF h
  <1> QED BY RolloutInvariant, <1>1, PTL

(* Where every deploy is one of every job, one that reports success leaves the
   content and the version of every allocation promoted, but for disabled ones
   that were never started. *)
THEOREM SuccessMeansPromoted ==
    ASSUME EveryJob
    PROVE  Spec => []OkMeansPromoted
  <1>1. Init => RolloutInv /\ OkInv
    BY InitRollout
  <1>2. RolloutInv /\ OkInv /\ [Next]_vars => RolloutInv' /\ OkInv'
    BY NextRollout, NextOk
  <1>3. OkInv => OkMeansPromoted
    BY DEF OkInv, Settled, OkMeansPromoted
  <1> QED BY <1>1, <1>2, <1>3, PTL DEF Spec

-----------------------------------------------------------------------------
(* The dry run.  It decides with a switch on each allocation's hash row what the
   deploy decides with queries, and it reads the committed table, which differs
   from the copy of the deploy.  What decides is the same in both, as long as the
   job has not been promoted. *)

(* A table from which the deploy decides what to do with job j. *)
Decides(h, j) ==
    /\ h \in HashType
    /\ Agree(catalog, h, hash, j)
    /\ PlanIsTree(catalog, h, j)

(* The plan of the dry run is the switch on any such table. *)
LEMMA SamePlan ==
    ASSUME TypeInv, NEW o, o.jobs \subseteq Jobs, NEW j \in Selected(o), NEW h, Decides(h, j),
           NEW s \in NonRemoved(catalog, j)
    PROVE  /\ s \in Slots /\ JobOf(s) = j /\ h.cur[s] # None
           /\ s \in catalog.disabled => PlanOf(o, s) = PlanDisabled(h, s, o)
           /\ s \notin catalog.disabled => PlanOf(o, s) = PlanActive(h, s, o)
  <1>1. catalog \in CatalogType /\ hash \in HashType
    BY DEF TypeInv, TypeOK
  <1>2. s \in Slots /\ JobOf(s) = j /\ catalog.content[j] # None
    BY <1>1, AllocationQueries DEF TypeInv, CatalogSound, NonRemoved
  <1>3. Selected(o) \in SUBSET Jobs
    BY DEF Selected
  <1>4. /\ Refreshed(o).cur[s] = catalog.content[j]
        /\ Refreshed(o).prev[s] = hash.prev[s]
        /\ Refreshed(o).ver[s] = hash.ver[s]
    BY <1>1, <1>2, <1>3, PlanEffect DEF Refreshed
  <1>5. h.cur[s] = catalog.content[j] /\ h.prev[s] = hash.prev[s] /\ h.ver[s] = hash.ver[s]
    BY DEF Decides, Agree, PlanIsTree
  <1> DEFINE r == Refreshed(o)
  <1>6. r.cur[s] = h.cur[s] /\ r.prev[s] = h.prev[s] /\ r.ver[s] = h.ver[s]
    BY <1>4, <1>5
  <1> HIDE DEF r
  <1>7. UpdateAction(r, s) = UpdateAction(h, s) /\ VersionChanged(catalog, r, s) = VersionChanged(catalog, h, s)
    BY <1>6 DEF UpdateAction, VersionChanged
  <1>8. PlanActive(r, s, o) = PlanActive(h, s, o) /\ PlanDisabled(r, s, o) = PlanDisabled(h, s, o)
    BY <1>6, <1>7 DEF PlanActive, PlanDisabled, Lifecycle
  <1> QED BY <1>2, <1>5, <1>8 DEF PlanOf, r

(* The action of an update is one of three (resolveUpdateAction). *)
LEMMA ThreeActions ==
    ASSUME NEW h, NEW s \in Slots
    PROVE  UpdateAction(h, s) \in {"sync", "restart", "reload"}
  BY DEF UpdateAction

(* The active allocations the dry run starts are those GetNewAllocations returns;
   the ones it restarts and reloads are those allocationsNeedingRestart returns,
   with that action. *)
LEMMA SameActions ==
    ASSUME TypeInv, NEW o, o.jobs \subseteq Jobs, NEW j \in Selected(o), NEW h, Decides(h, j)
    PROVE  /\ Planned(o, j, "start") = NewAllocations(catalog, h, j)
           /\ ~o.syncOnly => \A a \in {"restart", "reload"} :
                 Planned(o, j, a) = {s \in NeedingRestart(catalog, h, j, o.force) :
                                        UpdateAction(h, s) = a}
  <1>1. \A s \in Active(catalog, j) :
           /\ s \in NonRemoved(catalog, j) /\ s \in Slots /\ h.cur[s] # None
           /\ PlanOf(o, s) = PlanActive(h, s, o)
    <2>1. \A s \in Active(catalog, j) : s \in NonRemoved(catalog, j) /\ s \notin catalog.disabled
      BY DEF Active
    <2> QED BY <2>1, SamePlan
  <1>2. \A s \in Active(catalog, j) : Lifecycle(h, s, o) # "start"
    BY <1>1, ThreeActions DEF Lifecycle
  <1>3. \A s \in Active(catalog, j) : PlanOf(o, s) = "start" <=> h.prev[s] = None
    BY <1>1, <1>2 DEF PlanActive
  <1>4. Planned(o, j, "start") = NewAllocations(catalog, h, j)
    BY <1>1, <1>3 DEF Planned, NewAllocations
  <1>5. ASSUME ~o.syncOnly, NEW a \in {"restart", "reload"}
        PROVE  Planned(o, j, a) = {s \in NeedingRestart(catalog, h, j, o.force) :
                                      UpdateAction(h, s) = a}
    <2>1. ASSUME NEW s \in Active(catalog, j)
          PROVE  PlanOf(o, s) = a <=>
                    s \in NeedingRestart(catalog, h, j, o.force) /\ UpdateAction(h, s) = a
      <3>1. Lifecycle(h, s, o) = UpdateAction(h, s)
        BY <1>5 DEF Lifecycle
      <3>2. s \in NeedingRestart(catalog, h, j, o.force) <=>
               h.prev[s] # None /\ (o.force \/ h.prev[s] # h.cur[s] \/ VersionChanged(catalog, h, s))
        BY <1>1 DEF NeedingRestart, NewAllocations, ContentChanged
      <3>3. CASE h.prev[s] = None
        BY <1>1, <3>2, <3>3 DEF PlanActive
      <3>4. CASE h.prev[s] # None /\ (o.force \/ h.prev[s] # h.cur[s] \/ VersionChanged(catalog, h, s))
        <4>1. PlanOf(o, s) = UpdateAction(h, s)
          BY <1>1, <3>1, <3>4 DEF PlanActive
        <4> QED BY <4>1, <3>2, <3>4
      <3>5. CASE h.prev[s] # None /\ ~(o.force \/ h.prev[s] # h.cur[s] \/ VersionChanged(catalog, h, s))
        <4>1. PlanOf(o, s) = "skip"
          BY <1>1, <3>5 DEF PlanActive
        <4> QED BY <4>1, <3>2, <3>5
      <3> QED BY <3>3, <3>4, <3>5
    <2>2. NeedingRestart(catalog, h, j, o.force) \subseteq Active(catalog, j)
      BY DEF NeedingRestart
    <2> QED BY <2>1, <2>2 DEF Planned
  <1> QED BY <1>4, <1>5

(* Who the dry run reports is who JobNeedsRollout finds, or who --force finds with
   something active; who it plans something active for is staged. *)
LEMMA SameJobs ==
    ASSUME TypeInv, NEW o, o.jobs \subseteq Jobs, NEW j \in Selected(o), NEW h, Decides(h, j)
    PROVE  /\ JobNeedsRollout(catalog, h, j) => NeedsRollout(o, j)
           /\ o.force /\ Active(catalog, j) # {} => NeedsRollout(o, j)
           /\ (\E s \in Active(catalog, j) : PlanOf(o, s) # "skip") =>
                 o.force \/ JobNeedsRollout(catalog, h, j)
  <1>1. \A s \in Active(catalog, j) : s \in NonRemoved(catalog, j) /\ s \notin catalog.disabled
    BY DEF Active
  <1>2. \A s \in NonRemoved(catalog, j) : s \notin catalog.disabled => s \in Active(catalog, j)
    BY DEF Active
  <1>3. \A s \in Active(catalog, j) : Lifecycle(h, s, o) # "skip"
    BY <1>1, SamePlan, ThreeActions DEF Lifecycle
  <1>4. ASSUME NEW s \in NonRemoved(catalog, j),
               ContentChanged(h, s) \/ VersionChanged(catalog, h, s)
        PROVE  PlanOf(o, s) # "skip"
    <2>1. CASE s \in catalog.disabled
      BY <1>4, <2>1, SamePlan DEF PlanDisabled, ContentChanged
    <2>2. CASE s \notin catalog.disabled
      BY <1>2, <1>3, <1>4, <2>2, SamePlan DEF PlanActive, ContentChanged
    <2> QED BY <2>1, <2>2
  <1>5. \A s \in NewAllocations(catalog, h, j) : PlanOf(o, s) # "skip"
    BY <1>1, SamePlan DEF NewAllocations, PlanActive
  <1>6. NewAllocations(catalog, h, j) \subseteq NonRemoved(catalog, j)
    BY <1>1 DEF NewAllocations
  <1>7. \A s \in NonRemoved(catalog, j) : h.cur[s] # None
    BY SamePlan
  <1>8. JobNeedsRollout(catalog, h, j) => NeedsRollout(o, j)
    BY <1>4, <1>5, <1>6, <1>7 DEF JobNeedsRollout, NeedsRollout
  <1>9. o.force /\ Active(catalog, j) # {} => NeedsRollout(o, j)
    BY <1>1, <1>3, SamePlan DEF PlanActive, NeedsRollout
  <1>10. ASSUME NEW s \in Active(catalog, j), PlanOf(o, s) # "skip", ~o.force
         PROVE  JobNeedsRollout(catalog, h, j)
    <2>1. PlanActive(h, s, o) # "skip" /\ s \in NonRemoved(catalog, j) /\ h.cur[s] # None
      BY <1>1, <1>10, SamePlan
    <2>2. CASE h.prev[s] = None
      BY <2>1, <2>2 DEF JobNeedsRollout, NewAllocations
    <2>3. CASE h.prev[s] # None
      <3>1. h.prev[s] # h.cur[s] \/ VersionChanged(catalog, h, s)
        BY <1>10, <2>1, <2>3 DEF PlanActive
      <3> QED BY <2>1, <2>3, <3>1 DEF JobNeedsRollout, ContentChanged
    <2> QED BY <2>2, <2>3
  <1> QED BY <1>8, <1>9, <1>10

(* What a deploy keeps to: jobs that are staged or in hand were selected by its
   flags; one that only syncs rolls nothing out, and unless its dry run was refused
   it meets an error only where a fault hits. *)
PlanInv ==
    /\ run.phase # "idle" => run.staged \subseteq Selected(run.opts)
    /\ run.phase \in Rolling => run.job \in Selected(run.opts) /\ ~run.opts.syncOnly
    /\ run.phase # "idle" => run.hits <= faults
    /\ run.phase # "idle" /\ run.errors /\ run.opts.syncOnly /\ ~Refused(run.opts) =>
          run.hits < faults

(* The flags of the deploy in progress. *)
LEMMA OptsType ==
    ASSUME TypeInv
    PROVE  run.opts.jobs \subseteq Jobs /\ run.hits \in Nat /\ faults \in Nat
  BY DEF TypeInv, TypeOK, RunType

(* The jobs of the sequence in hand are the selected ones of that sequence. *)
LEMMA WaveSelected ==
    ASSUME TypeInv
    PROVE  /\ JobsAtSeq(catalog, DeploymentSeq, run.wave) \cap run.opts.jobs
                  \subseteq Selected(run.opts)
           /\ \A j \in Selected(run.opts) : DeploymentSeq[j] = run.wave =>
                  j \in JobsAtSeq(catalog, DeploymentSeq, run.wave) \cap run.opts.jobs
  BY OptsType DEF JobsAtSeq, Selected

(* A job that was not deployed is decided on by the plan the deploy makes of it. *)
LEMMA PlanDecides ==
    ASSUME LedgerInv, run.phase # "idle", NEW J \in SUBSET Jobs, NEW j \in J \ run.deployed
    PROVE  Decides(UpdateAllocationPlan(catalog, run.hash, J), j)
  <1>1. catalog \in CatalogType /\ run.hash \in HashType
    BY DEF LedgerInv, TypeInv, TypeOK, RunType
  <1> DEFINE h == UpdateAllocationPlan(catalog, run.hash, J)
  <1>2. h \in HashType /\ Agree(catalog, h, run.hash, j) /\ PlanIsTree(catalog, h, j)
    BY <1>1, PlanEffect, PlanAgrees
  <1>3. Agree(catalog, run.hash, hash, j)
    BY DEF LedgerInv, RetryInv
  <1> HIDE DEF h
  <1>4. Decides(h, j)
    BY <1>2, <1>3 DEF Decides, Agree
  <1> QED BY <1>4 DEF h

(* What becomes of a deploy in a step that is no commit and no abort: faults only
   grow, and errors come from faults, from rollouts and from sync-only deploys that
   would have to start an allocation. *)
Goes ==
    /\ run'.opts = run.opts /\ run'.hits = run.hits
    /\ UNCHANGED <<catalog, hash>>
    /\ faults' \in Nat /\ faults <= faults'
    /\ run'.errors => \/ run.errors
                      \/ faults < faults'
                      \/ run.phase \in Rolling
                      \/ \E j \in run.staged :
                            /\ run.phase = "stage" /\ run.opts.syncOnly
                            /\ NewAllocations(catalog,
                                  UpdateAllocationPlan(catalog, run.hash, {j}), j) # {}

(* A fault, or none. *)
LEMMA FaultGrows ==
    ASSUME TypeInv
    PROVE  /\ Faultless => faults' \in Nat /\ faults <= faults'
           /\ \A kind : Fault(kind) => faults' \in Nat /\ faults < faults' /\ faults <= faults'
  BY OptsType DEF Faultless, Fault

(* Every step of a deploy goes on like that, or ends it. *)
LEMMA StepGoes ==
    ASSUME TypeInv, DeployStep
    PROVE  run' = Idle \/ Goes
  <1>1. run \in RunType
    BY DEF TypeInv, TypeOK
  <1>2. ASSUME NEW s \in Slots, ReconcileStop(s)
        PROVE  run' = Idle \/ Goes
    <2>1. CASE Abort
      BY <2>1 DEF Abort
    <2>2. CASE run' = Reconciled(s) /\ UNCHANGED <<db, ledger, builds, edits>>
      <3>1. run'.opts = run.opts /\ run'.hits = run.hits /\ run'.errors = run.errors
        BY <1>1, <2>2 DEF Reconciled, RunType
      <3>2. Faultless \/ \E kind : Fault(kind)
        BY <1>2 DEF ReconcileStop
      <3> QED BY <2>2, <3>1, <3>2, FaultGrows DEF Goes, db
    <2> QED BY <1>2, <2>1, <2>2 DEF ReconcileStop
  <1>3. ASSUME NEW s \in Slots, ReconcileSkip(s)
        PROVE  Goes
    <2>1. run'.opts = run.opts /\ run'.hits = run.hits /\ run'.errors = run.errors
      BY <1>1, <1>3 DEF ReconcileSkip, Reconciled, RunType
    <2>2. Faultless /\ UNCHANGED <<catalog, hash>>
      BY <1>3 DEF ReconcileSkip, bounds, db, Faultless
    <2> QED BY <2>1, <2>2, FaultGrows DEF Goes
  <1>4. CASE FinishReconcile
    <2>1. CASE Abort
      BY <2>1 DEF Abort
    <2>2. CASE /\ run' = [run EXCEPT !.phase = "plan"]
               /\ UNCHANGED <<db, live, ledger, builds, edits>>
               /\ Faultless \/ Fault("offline")
      BY <1>1, <2>2, FaultGrows DEF Goes, db, RunType
    <2> QED BY <1>4, <2>1, <2>2 DEF FinishReconcile
  <1>5. CASE PlanWave
    <2> DEFINE wave == JobsAtSeq(catalog, DeploymentSeq, run.wave) \cap run.opts.jobs
               plan(bad) == UpdateAllocationPlan(catalog, run.hash, wave \ bad)
               need(bad) == {j \in wave \ bad : JobNeedsRollout(catalog, plan(bad), j)}
    <2>1. PICK bad \in SUBSET wave :
             /\ IF bad = {} THEN Faultless ELSE Fault("hook")
             /\ run' = [run EXCEPT !.phase = "stage", !.hash = plan(bad),
                                   !.staged = IF run.opts.force THEN wave \ bad ELSE need(bad),
                                   !.attempted = @ \cup need(bad),
                                   !.errors = @ \/ bad # {}]
      BY <1>5 DEF PlanWave
    <2> HIDE DEF wave, plan, need
    <2>2. /\ run'.opts = run.opts /\ run'.hits = run.hits
          /\ run'.errors = (run.errors \/ bad # {})
      BY <1>1, <2>1 DEF RunType
    <2>3. UNCHANGED <<catalog, hash>>
      BY <1>5 DEF PlanWave, db
    <2> QED BY <2>1, <2>2, <2>3, FaultGrows DEF Goes
  <1>6. CASE NextWave
    <2>1. run'.opts = run.opts /\ run'.hits = run.hits /\ run'.errors = run.errors
      BY <1>1, <1>6 DEF NextWave, RunType
    <2>2. Faultless /\ UNCHANGED <<catalog, hash>>
      BY <1>6 DEF NextWave, bounds, db, Faultless
    <2> QED BY <2>1, <2>2, FaultGrows DEF Goes
  <1>7. ASSUME NEW j \in Jobs, SyncJob(j)
        PROVE  run' = Idle \/ Goes
    <2> DEFINE h == UpdateAllocationPlan(catalog, run.hash, {j})
               new == NewAllocations(catalog, h, j)
               r == [run EXCEPT !.staged = @ \ {j}, !.hash = h]
    <2>1. CASE Abort
      BY <2>1 DEF Abort
    <2>2. CASE /\ Faultless
               /\ run' = IF run.opts.syncOnly
                         THEN IF new = {}
                              THEN [r EXCEPT !.phase = "finalize", !.job = j]
                              ELSE [r EXCEPT !.errors = TRUE]
                         ELSE [r EXCEPT !.phase = "start", !.job = j, !.todo = new]
               /\ UNCHANGED <<db, ledger, builds, edits>>
      <3> HIDE DEF h
      <3>1. /\ run'.opts = run.opts /\ run'.hits = run.hits
            /\ run'.errors => run.errors \/ (run.opts.syncOnly /\ new # {})
        <4> HIDE DEF new
        <4> QED BY <1>1, <2>2 DEF RunType
      <3>2. run.phase = "stage" /\ j \in run.staged
        BY <1>7 DEF SyncJob
      <3> QED BY <2>2, <3>1, <3>2, FaultGrows DEF Goes, db, h
    <2> QED BY <1>7, <2>1, <2>2 DEF SyncJob
  <1>8. CASE RunBatch \/ CheckHealth
    <2>1. run.phase \in Rolling /\ UNCHANGED <<catalog, hash>>
      BY <1>8 DEF RunBatch, CheckHealth, Rolling, db
    <2>2. Faultless \/ \E kind : Fault(kind)
      BY <1>8 DEF RunBatch, CheckHealth
    <2>3. \/ JobFailed
          \/ run' = [run EXCEPT !.touched = {}]
          \/ \E B : run' = [run EXCEPT !.todo = @ \ B, !.touched = @ \cup B]
      BY <1>8 DEF RunBatch, CheckHealth
    <2>4. run'.opts = run.opts /\ run'.hits = run.hits
      BY <1>1, <2>3 DEF JobFailed, RunType
    <2> QED BY <2>1, <2>2, <2>4, FaultGrows DEF Goes
  <1>9. CASE ChooseUpdates \/ NextAction
    <2>1. run.phase \in Rolling /\ UNCHANGED <<catalog, hash>> /\ Faultless
      BY <1>9 DEF ChooseUpdates, NextAction, Rolling, db, bounds, Faultless
    <2>2. run'.opts = run.opts /\ run'.hits = run.hits
      BY <1>1, <1>9 DEF ChooseUpdates, NextAction, RunType
    <2> QED BY <2>1, <2>2, FaultGrows DEF Goes
  <1>10. CASE FinalizeJob
    <2>1. UNCHANGED <<catalog, hash>>
      BY <1>10 DEF FinalizeJob, db
    <2>2. CASE JobFailed /\ Fault("hook")
      <3>1. run'.opts = run.opts /\ run'.hits = run.hits
        BY <1>1, <2>2 DEF JobFailed, RunType
      <3> QED BY <2>1, <2>2, <3>1, FaultGrows DEF Goes
    <2>3. CASE /\ run' = [run EXCEPT !.phase = "stage", !.job = None,
                                     !.hash = Promote(catalog, @, run.job),
                                     !.deployed = @ \cup {run.job}]
               /\ Faultless
      <3>1. run'.opts = run.opts /\ run'.hits = run.hits /\ run'.errors = run.errors
        BY <1>1, <2>3 DEF RunType
      <3> QED BY <2>1, <2>3, <3>1, FaultGrows DEF Goes
    <2> QED BY <1>10, <2>2, <2>3 DEF FinalizeJob
  <1>11. CASE FinalSync
    <2> DEFINE targets == UNION {Active(catalog, j) : j \in run.deployed}
    <2>1. PICK S \in SUBSET targets :
             /\ IF S = targets THEN Faultless ELSE Fault("sync")
             /\ run' = [run EXCEPT !.phase = "commit", !.errors = @ \/ S # targets]
      BY <1>11 DEF FinalSync
    <2> HIDE DEF targets
    <2>2. /\ run'.opts = run.opts /\ run'.hits = run.hits
          /\ run'.errors = (run.errors \/ S # targets)
      BY <1>1, <2>1 DEF RunType
    <2>3. UNCHANGED <<catalog, hash>>
      BY <1>11 DEF FinalSync, db
    <2> QED BY <2>1, <2>2, <2>3, FaultGrows DEF Goes
  <1>12. CASE Commit
    BY <1>12 DEF Commit
  <1> QED
    BY <1>2, <1>3, <1>4, <1>5, <1>6, <1>7, <1>8, <1>9, <1>10, <1>11, <1>12 DEF DeployStep

(* The phase a deploy is in decides which of its actions can be taken: sequences
   are planned in "plan" only, a rollout begins by sending the job, and updates are
   chosen after the starts. *)
LEMMA PhaseActs ==
    ASSUME TypeInv, DeployStep
    PROVE  /\ run.phase = "plan" => PlanWave
           /\ run.phase = "stage" => NextWave \/ \E j \in Jobs : SyncJob(j)
           /\ run.phase = "start" => RunBatch \/ CheckHealth \/ ChooseUpdates
  <1>1. /\ \A s \in Slots : ReconcileStop(s) \/ ReconcileSkip(s) => run.phase = "reconcile"
        /\ FinishReconcile => run.phase = "reconcile"
    BY DEF ReconcileStop, ReconcileSkip, FinishReconcile
  <1>2. PlanWave => run.phase = "plan"
    BY DEF PlanWave
  <1>3. /\ NextWave => run.phase = "stage"
        /\ \A j \in Jobs : SyncJob(j) => run.phase = "stage"
    BY DEF NextWave, SyncJob
  <1>4. /\ RunBatch \/ CheckHealth => run.phase \in Rolling
        /\ ChooseUpdates => run.phase = "start"
        /\ NextAction => run.phase \in {"reload", "restart"}
    BY DEF RunBatch, CheckHealth, ChooseUpdates, NextAction, Rolling
  <1>5. /\ FinalizeJob => run.phase = "finalize"
        /\ FinalSync => run.phase = "final"
        /\ Commit => run.phase = "commit"
    BY DEF FinalizeJob, FinalSync, Commit
  <1> QED BY <1>1, <1>2, <1>3, <1>4, <1>5 DEF DeployStep, Rolling

(* A deploy that only syncs rolls nothing out: it goes from sending a job to
   finalizing it. *)
LEMMA SyncOnlyRollsNothing ==
    ASSUME TypeInv, DeployStep, run.phase = "stage", run'.phase = "start"
    PROVE  ~run.opts.syncOnly
  <1>1. run \in RunType
    BY DEF TypeInv, TypeOK
  <1>2. CASE NextWave
    <2>1. run'.phase \in {"plan", "final"}
      BY <1>1, <1>2 DEF NextWave, RunType
    <2> QED BY <2>1
  <1>3. ASSUME NEW j \in Jobs, SyncJob(j)
        PROVE  ~run.opts.syncOnly
    <2> DEFINE h == UpdateAllocationPlan(catalog, run.hash, {j})
               new == NewAllocations(catalog, h, j)
               r == [run EXCEPT !.staged = @ \ {j}, !.hash = h]
    <2>1. CASE Abort
      BY <2>1, IdleType DEF Abort
    <2>2. CASE run' = IF run.opts.syncOnly
                      THEN IF new = {}
                           THEN [r EXCEPT !.phase = "finalize", !.job = j]
                           ELSE [r EXCEPT !.errors = TRUE]
                      ELSE [r EXCEPT !.phase = "start", !.job = j, !.todo = new]
      <3> HIDE DEF h, new
      <3>1. SUFFICES ASSUME run.opts.syncOnly PROVE run'.phase # "start"
        OBVIOUS
      <3>2. \/ run' = [r EXCEPT !.phase = "finalize", !.job = j]
            \/ run' = [r EXCEPT !.errors = TRUE]
        BY <2>2, <3>1
      <3> QED BY <1>1, <3>2 DEF RunType
    <2> QED BY <1>3, <2>1, <2>2 DEF SyncJob
  <1> QED BY <1>2, <1>3, PhaseActs

(* The dry run reads the committed tables only: while they stay, so does what it
   selects, plans and refuses. *)
LEMMA PlanStays ==
    ASSUME UNCHANGED <<catalog, hash>>, run'.opts = run.opts
    PROVE  /\ Selected(run.opts)' = Selected(run.opts)
           /\ Refused(run.opts)' = Refused(run.opts)
  <1>1. /\ Selected(run.opts)' = Selected(run.opts)
        /\ Refreshed(run.opts)' = Refreshed(run.opts)
    BY DEF Selected, Refreshed, UpdateAllocationPlan, JobsAtSeq, NonRemoved
  <1>2. \A j : NonRemoved(catalog, j)' = NonRemoved(catalog, j)
    BY DEF NonRemoved
  <1>3. \A s : PlanOf(run.opts, s)' = PlanOf(run.opts, s)
    BY <1>1 DEF PlanOf, PlanActive, PlanDisabled, Lifecycle, UpdateAction, VersionChanged
  <1>4. RequiredJobs(run.opts)' = RequiredJobs(run.opts)
    BY <1>1, <1>2, <1>3 DEF RequiredJobs, NeedsRollout
  <1>5. \A j : NewAllocations(catalog, Refreshed(run.opts), j)'
                  = NewAllocations(catalog, Refreshed(run.opts), j)
    BY <1>1 DEF NewAllocations, Active, NonRemoved
  <1> QED BY <1>1, <1>4, <1>5 DEF Refused

(* A sync-only deploy turns down a job only if its dry run was refused. *)
LEMMA RefusedBefore ==
    ASSUME LedgerInv, OnceInv, PlanInv, run.phase = "stage", run.opts.syncOnly,
           NEW j \in run.staged,
           NewAllocations(catalog, UpdateAllocationPlan(catalog, run.hash, {j}), j) # {}
    PROVE  Refused(run.opts)
  <1> DEFINE h == UpdateAllocationPlan(catalog, run.hash, {j})
             o == run.opts
  <1>1. TypeInv /\ catalog \in CatalogType /\ hash \in HashType /\ o.jobs \subseteq Jobs
    BY OptsType DEF LedgerInv, TypeInv, TypeOK
  <1>2. j \in Selected(o) /\ j \notin run.deployed
    BY DEF PlanInv, OnceInv
  <1>3. Selected(o) \in SUBSET Jobs
    BY <1>1 DEF Selected
  <1>4. Decides(h, j)
    <2>1. {j} \in SUBSET Jobs /\ j \in {j} \ run.deployed
      BY <1>2, <1>3
    <2> QED BY <2>1, PlanDecides
  <1>5. Decides(Refreshed(o), j)
    BY <1>1, <1>2, <1>3, PlanEffect, PlanAgrees DEF Decides, Refreshed
  <1> HIDE DEF h, o
  <1>6. /\ NewAllocations(catalog, h, j) = NewAllocations(catalog, Refreshed(o), j)
        /\ NewAllocations(catalog, h, j) # {}
    BY <1>1, <1>2, <1>4, <1>5, SameActions DEF h
  <1>7. JobNeedsRollout(catalog, h, j)
    BY <1>6 DEF JobNeedsRollout
  <1>8. j \in RequiredJobs(o)
    BY <1>1, <1>2, <1>4, <1>7, SameJobs DEF RequiredJobs
  <1> QED BY <1>6, <1>8 DEF Refused, o

(* The steps of a deploy keep to what was selected and to what was refused. *)
LEMMA StepPlan ==
    ASSUME LedgerInv, OnceInv, PlanInv, DeployStep
    PROVE  PlanInv'
  <1>1. TypeInv /\ OnceInv
    BY DEF LedgerInv
  <1>2. CASE run' = Idle
    BY <1>2, IdleLocals DEF PlanInv, Rolling
  <1>3. CASE run' # Idle
    <2>1. Goes
      BY <1>1, <1>3, StepGoes
    <2>2. /\ run'.opts = run.opts
          /\ Selected(run.opts)' = Selected(run.opts)
          /\ Refused(run.opts)' = Refused(run.opts)
      BY <2>1, PlanStays DEF Goes
    <2>3. ~Abort /\ ~Commit
      BY <1>3 DEF Abort, Commit
    <2>4. run.phase # "idle"
      BY <1>1, <2>3, DeployStepKinds
         DEF Visits, Passes, Advances, Stages, Takes, Moves, Promotes, Carries
    <2>5. run'.staged \subseteq Selected(run.opts)
      <3>1. run'.staged \subseteq run.staged \/ \E J \in SUBSET Jobs : Stages(J)
        BY <1>1, <2>3, DeployStepKinds
           DEF Visits, Passes, Advances, Takes, Moves, Promotes, SameQueue
      <3>2. CASE run'.staged \subseteq run.staged
        BY <2>4, <3>2 DEF PlanInv
      <3>3. CASE \E J \in SUBSET Jobs : Stages(J)
        BY <1>1, <3>3, WaveSelected DEF Stages
      <3> QED BY <3>1, <3>2, <3>3
    <2>6. ASSUME run'.phase \in Rolling
          PROVE  run'.job \in Selected(run.opts) /\ ~run.opts.syncOnly
      <3>1. \/ run.phase \in Rolling /\ run'.job = run.job
            \/ run.phase = "stage" /\ run'.phase = "start" /\ run'.job \in run.staged
        BY <1>1, <2>3, <2>6, DeployStepKinds
           DEF Visits, Passes, Advances, Stages, Takes, Moves, Promotes, Rolling
      <3>2. CASE run.phase \in Rolling /\ run'.job = run.job
        BY <3>2 DEF PlanInv
      <3>3. CASE run.phase = "stage" /\ run'.phase = "start" /\ run'.job \in run.staged
        BY <1>1, <2>4, <3>3, SyncOnlyRollsNothing DEF PlanInv
      <3> QED BY <3>1, <3>2, <3>3
    <2>7. /\ run'.hits = run.hits /\ run.hits \in Nat /\ faults \in Nat
          /\ faults' \in Nat /\ faults <= faults' /\ run.hits <= faults
      BY <1>1, <2>1, <2>4, OptsType DEF Goes, PlanInv
    <2>8. run'.hits <= faults'
      BY <2>7
    <2>9. ASSUME run'.errors, run.opts.syncOnly, ~Refused(run.opts)
          PROVE  run'.hits < faults'
      <3>1. CASE run.errors
        <4>1. run.hits < faults
          BY <2>4, <2>9, <3>1 DEF PlanInv
        <4> QED BY <2>7, <4>1
      <3>2. CASE faults < faults'
        BY <2>7, <3>2
      <3>3. run.phase \notin Rolling
        BY <2>9 DEF PlanInv
      <3>4. ~(\E j \in run.staged :
                /\ run.phase = "stage" /\ run.opts.syncOnly
                /\ NewAllocations(catalog,
                      UpdateAllocationPlan(catalog, run.hash, {j}), j) # {})
        BY <2>9, RefusedBefore
      <3> QED BY <2>1, <2>9, <3>1, <3>2, <3>3, <3>4 DEF Goes
    <2> QED BY <2>2, <2>5, <2>6, <2>8, <2>9 DEF PlanInv
  <1> QED BY <1>2, <1>3

(* So do the other steps: a deploy starts without errors, with nothing staged. *)
LEMMA NextPlan ==
    ASSUME RolloutInv, PlanInv, [Next]_vars
    PROVE  PlanInv'
  <1>1. LedgerInv /\ OnceInv /\ TypeInv
    BY DEF RolloutInv, LedgerInv
  <1>2. CASE DeployStep
    BY <1>1, <1>2, StepPlan
  <1>3. CASE run' = Idle
    BY <1>3, IdleLocals DEF PlanInv, Rolling
  <1>4. CASE Build \/ GC \/ Crash
    BY <1>3, <1>4 DEF Build, GC, Crash, Abort
  <1>5. ASSUME NEW o \in Options, StartDeploy(o)
        PROVE  PlanInv'
    <2>1. CASE run' = run
      BY <1>3, <1>5, <2>1 DEF StartDeploy
    <2>2. CASE /\ Faultless
               /\ run' = [Idle EXCEPT !.phase = "reconcile", !.opts = o, !.hash = hash,
                                      !.todo = Stopped(catalog), !.hits = faults,
                                      !.up = {s \in Slots : hash.prev[s] # None
                                                             /\ live[s] # Down}]
      <3>1. /\ run'.phase = "reconcile" /\ run'.staged = {} /\ ~run'.errors
            /\ run'.hits = faults /\ faults' = faults /\ faults \in Nat
        BY <1>1, <2>2, OptsType DEF Idle, Faultless
      <3>2. run'.hits <= faults'
        BY <3>1
      <3> QED BY <3>1, <3>2 DEF PlanInv, Rolling
    <2> QED BY <1>5, <2>1, <2>2 DEF StartDeploy
  <1>6. CASE UNCHANGED vars
    <2>1. UNCHANGED <<catalog, hash, run, faults>>
      BY <1>6 DEF vars, db, bounds
    <2>2. /\ Selected(run.opts)' = Selected(run.opts)
          /\ Refused(run.opts)' = Refused(run.opts)
      BY <2>1, PlanStays
    <2> QED BY <2>1, <2>2 DEF PlanInv, Rolling
  <1> QED BY <1>2, <1>4, <1>5, <1>6 DEF Next

(* Planning a sequence stages the jobs the dry run reports, but for those a hook
   failed on and those --force adds. *)
LEMMA StagesAsPlanned ==
    ASSUME LedgerInv, run.phase = "plan", DeployStep
    PROVE  /\ \A j \in run'.staged :
                  Active(catalog, j) # {} => j \in RequiredJobs(run.opts)
           /\ \A j \in Selected(run.opts) : DeploymentSeq[j] = run.wave =>
                  \/ \A s \in Active(catalog, j) : PlanOf(run.opts, s) = "skip"
                  \/ j \in run'.staged
                  \/ faults' # faults
  <1> DEFINE o == run.opts
             wave == JobsAtSeq(catalog, DeploymentSeq, run.wave) \cap run.opts.jobs
             plan(bad) == UpdateAllocationPlan(catalog, run.hash, wave \ bad)
             need(bad) == {j \in wave \ bad : JobNeedsRollout(catalog, plan(bad), j)}
  <1>1. /\ TypeInv /\ run \in RunType /\ o.jobs \subseteq Jobs
        /\ run.deployed \subseteq Jobs /\ run.wave \in Nat
    BY OptsType DEF LedgerInv, TypeInv, TypeOK, RunType
  <1>2. PlanWave
    BY <1>1, PhaseActs
  <1>3. PICK bad \in SUBSET wave :
           /\ IF bad = {} THEN Faultless ELSE Fault("hook")
           /\ run' = [run EXCEPT !.phase = "stage", !.hash = plan(bad),
                                 !.staged = IF run.opts.force THEN wave \ bad ELSE need(bad),
                                 !.attempted = @ \cup need(bad),
                                 !.errors = @ \/ bad # {}]
    BY <1>2 DEF PlanWave
  <1>4. run'.staged = IF o.force THEN wave \ bad ELSE need(bad)
    <2> HIDE DEF wave, plan, need
    <2> QED BY <1>1, <1>3 DEF RunType
  <1>5. ASSUME NEW j \in wave \ bad
        PROVE  j \in Selected(o) /\ Decides(plan(bad), j)
    <2>1. j \in Jobs /\ DeploymentSeq[j] = run.wave /\ j \in Selected(o)
      BY <1>1, WaveSelected DEF JobsAtSeq
    <2>2. j \notin run.deployed
      BY <1>1, <2>1 DEF LedgerInv, WaveInv
    <2>3. wave \ bad \in SUBSET Jobs
      BY DEF JobsAtSeq
    <2> HIDE DEF wave
    <2> QED BY <1>5, <2>1, <2>2, <2>3, PlanDecides
  <1>6. \A j \in run'.staged : Active(catalog, j) # {} => j \in RequiredJobs(o)
    <2> SUFFICES ASSUME NEW j \in run'.staged, Active(catalog, j) # {}
                 PROVE  j \in RequiredJobs(o)
      OBVIOUS
    <2>1. j \in wave \ bad
      BY <1>4
    <2>2. o.force \/ JobNeedsRollout(catalog, plan(bad), j)
      BY <1>4
    <2>3. j \in Selected(o) /\ Decides(plan(bad), j)
      BY <1>5, <2>1
    <2> HIDE DEF o, wave, plan, need
    <2> QED BY <1>1, <2>2, <2>3, SameJobs DEF RequiredJobs
  <1>7. ASSUME NEW j \in Selected(o), DeploymentSeq[j] = run.wave,
               NEW s \in Active(catalog, j), PlanOf(o, s) # "skip"
        PROVE  j \in run'.staged \/ faults' # faults
    <2>1. j \in wave
      BY <1>1, <1>7, WaveSelected
    <2>2. CASE j \in bad
      BY <1>1, <1>3, <2>2, FaultGrows
    <2>3. CASE j \notin bad
      <3>1. Decides(plan(bad), j)
        BY <1>5, <2>1, <2>3
      <3> HIDE DEF o, wave, plan
      <3>2. o.force \/ JobNeedsRollout(catalog, plan(bad), j)
        BY <1>1, <1>7, <3>1, SameJobs
      <3> QED BY <1>4, <2>1, <2>3, <3>2
    <2> QED BY <2>2, <2>3
  <1> QED BY <1>6, <1>7

(* Exactly the allocations planned "start" are started. *)
LEMMA StartsAsPlanned ==
    ASSUME LedgerInv, OnceInv, PlanInv, DeployStep, run.phase = "stage", run'.phase = "start"
    PROVE  run'.todo = Planned(run.opts, run'.job, "start")
  <1>1. TypeInv /\ run.opts.jobs \subseteq Jobs
    BY OptsType DEF LedgerInv
  <1>2. PICK j \in Jobs : Takes(j)
    <2>1. ~Abort /\ ~Commit
      BY IdleLocals DEF Abort, Commit
    <2> QED BY <1>1, <2>1, DeployStepKinds
            DEF Visits, Passes, Advances, Stages, Moves, Promotes, InHand, Rolling
  <1>3. j \in Selected(run.opts) /\ j \in {j} \ run.deployed
    BY <1>2 DEF Takes, PlanInv, OnceInv
  <1>4. Decides(run'.hash, j)
    BY <1>2, <1>3, PlanDecides DEF Takes
  <1>5. run'.todo = NewAllocations(catalog, run'.hash, j) /\ run'.job = j
    BY <1>2 DEF Takes
  <1> QED BY <1>1, <1>3, <1>4, <1>5, SameActions

(* Exactly the allocations planned "reload" and "restart" are queued for that. *)
LEMMA UpdatesAsPlanned ==
    ASSUME LedgerInv, OnceInv, FinishInv, PlanInv, DeployStep,
           run.phase = "start", run'.phase = "reload"
    PROVE  /\ run'.todo = Planned(run.opts, run.job, "reload")
           /\ run'.restart = Planned(run.opts, run.job, "restart")
  <1> DEFINE o == run.opts
             j == run.job
             h == run.hash
             needing == NeedingRestart(catalog, h, j, o.force)
             updated == {s \in needing : UpdateAction(h, s) # "sync"}
             restart == {s \in updated : UpdateAction(h, s) = "restart"}
  <1>1. TypeInv /\ run \in RunType /\ o.jobs \subseteq Jobs
    BY OptsType DEF LedgerInv, TypeInv, TypeOK
  <1>2. ChooseUpdates
    <2>1. run'.phase \in {"start", "stage"} \/ ChooseUpdates
      BY <1>1, PhaseActs DEF RunBatch, CheckHealth, JobFailed, RunType
    <2> QED BY <2>1
  <1>3. run' = [run EXCEPT !.phase = "reload", !.todo = updated \ restart,
                           !.restart = restart]
    BY <1>2 DEF ChooseUpdates
  <1>4. run'.todo = updated \ restart /\ run'.restart = restart
    <2> HIDE DEF updated, restart
    <2> QED BY <1>1, <1>3 DEF RunType
  <1>5. j \in Selected(o) /\ ~o.syncOnly
    BY DEF PlanInv, Rolling
  <1>6. Decides(h, j)
    BY <1>1 DEF LedgerInv, RetryInv, OnceInv, FinishInv, InHand, Rolling, Decides, RunType
  <1>7. \A s \in needing : s \in Slots
    BY <1>1, AllocationQueries DEF NeedingRestart, TypeInv, TypeOK
  <1> HIDE DEF o, j, h
  <1>8. /\ Planned(o, j, "restart") = {s \in needing : UpdateAction(h, s) = "restart"}
        /\ Planned(o, j, "reload") = {s \in needing : UpdateAction(h, s) = "reload"}
    BY <1>1, <1>5, <1>6, SameActions
  <1> HIDE DEF needing
  <1>9. /\ restart = {s \in needing : UpdateAction(h, s) = "restart"}
        /\ updated \ restart = {s \in needing : UpdateAction(h, s) = "reload"}
    BY <1>7, ThreeActions
  <1> QED BY <1>4, <1>8, <1>9 DEF o, j

(* "maand deploy --dry-run": whatever failed before, whatever the deploy promotes on
   its way and whatever fails in it, a deploy stages the jobs its dry run reports,
   starts, reloads and restarts exactly the allocations planned for that, and a
   sync-only one whose dry run was accepted meets no error but a fault. *)
THEOREM DeploysAreAsPlanned == Spec => DeployIsAsPlanned
  <1>1. Init => PlanInv
    BY IdleLocals DEF Init, PlanInv, Rolling
  <1>2. RolloutInv /\ PlanInv /\ [Next]_vars => PlanInv'
    BY NextPlan
  <1>3. RolloutInv /\ PlanInv /\ PlanInv' /\ [Next]_vars => [run # Idle => AsPlanned]_vars
    <2> SUFFICES ASSUME RolloutInv, PlanInv, PlanInv', Next, run # Idle
                 PROVE  AsPlanned
      OBVIOUS
    <2>1. CASE run' = Idle
      BY <2>1, IdleLocals DEF AsPlanned, Idle
    <2>2. CASE run' # Idle
      <3>1. DeployStep
        BY <2>2 DEF Next, Build, GC, StartDeploy, Crash, Abort
      <3>2. LedgerInv /\ OnceInv /\ FinishInv /\ TypeInv
        BY DEF RolloutInv, LedgerInv
      <3>3. Goes
        BY <2>2, <3>1, <3>2, StepGoes
      <3>4. run.opts.syncOnly /\ ~Refused(run.opts) /\ faults' = run.hits => ~run'.errors
        <4> SUFFICES ASSUME run.opts.syncOnly, ~Refused(run.opts), faults' = run.hits,
                            run'.errors
                     PROVE  FALSE
          BY DEF Goes
        <4>1. Refused(run.opts)' = Refused(run.opts) /\ run'.opts = run.opts
              /\ run'.hits = run.hits
          BY <3>3, PlanStays DEF Goes
        <4>2. run'.phase # "idle"
          <5>1. ~Abort /\ ~Commit
            BY <2>2 DEF Abort, Commit
          <5> QED BY <3>1, <3>2, <5>1, DeployStepKinds
                  DEF Visits, Passes, Advances, Stages, Takes, Moves, Promotes, Carries
        <4>3. run'.hits < faults'
          BY <4>1, <4>2 DEF PlanInv
        <4>4. run.hits \in Nat
          BY <3>2, OptsType
        <4> QED BY <4>1, <4>3, <4>4
      <3> QED BY <3>1, <3>2, <3>4, StagesAsPlanned, StartsAsPlanned, UpdatesAsPlanned
              DEF AsPlanned
    <2> QED BY <2>1, <2>2
  <1> QED BY <1>1, <1>2, <1>3, RolloutInvariant, PTL DEF Spec, DeployIsAsPlanned

-----------------------------------------------------------------------------
(* What is drained stays down and nothing is orphaned, whatever fails or dies,   *)
(* but for the processes Drain calls astray.                                     *)

(* runner.py does what it is told to an allocation in this state. *)
Runnable(s) == RunnerActs(s) /\ tree[s] \in Contents

OnRecord(s) == Up(s) /\ s \notin astray

(* What runs on record is promoted in the committed table, and can be stopped. *)
RecordInv == \A s \in Slots : OnRecord(s) => hash.prev[s] # None /\ Runnable(s)

(* Reconcile finds a stopped allocation as it was committed, and leaves none behind
   that is on record. *)
VisitInv ==
    run.phase = "reconcile" =>
        /\ \A s \in Stopped(catalog) \ run.todo : ~OnRecord(s)
        /\ \A s \in run.todo : run.hash.prev[s] = hash.prev[s]

PastInv ==
    run.phase \notin {"idle", "reconcile"} \/ result \in {"ok", "failed"} =>
        \A s \in Stopped(catalog) : ~OnRecord(s)

(* The job has been sent to its workers by this deploy. *)
Sent(j) == j \in run.deployed \/ (run.phase \in InHand /\ j = run.job)

SentInv ==
    /\ run.phase # "idle" => updateSeq # 0
    /\ \A j \in Jobs : Sent(j) => \A s \in NonRemoved(catalog, j) : Runnable(s)

AstrayInv == RecordInv /\ VisitInv /\ PastInv /\ SentInv

(* What is stopped is not active, and what is neither is no allocation. *)
LEMMA StoppedOrActive ==
    ASSUME NEW cat \in CatalogType
    PROVE  /\ Stopped(cat) \subseteq cat.rows /\ cat.rows \subseteq Slots
           /\ \A s \in cat.rows \ Stopped(cat) : s \in Active(cat, JobOf(s))
           /\ \A s \in Stopped(cat) : \A j : s \notin Active(cat, j)
           /\ \A j : \A s \in Active(cat, j) : JobOf(s) = j /\ s \in NonRemoved(cat, j)
           /\ \A s \in Slots : JobOf(s) \in Jobs /\ WorkerOf(s) \in Workers
  BY DEF Stopped, Active, NonRemoved, CatalogType, Slots, JobOf, WorkerOf

(* What is on record depends on the workers and the history alone. *)
LEMMA SameRecord ==
    ASSUME UNCHANGED <<hosts, astray>>
    PROVE  \A s : (OnRecord(s)' <=> OnRecord(s)) /\ (Runnable(s)' <=> Runnable(s))
  BY DEF hosts, OnRecord, Up, Runnable, RunnerActs

(* A process on record belongs to an allocation that is active, once reconcile is
   through. *)
LEMMA RecordActive ==
    ASSUME LedgerInv, RecordInv, PastInv, run.phase \notin {"idle", "reconcile"},
           NEW s \in Slots, OnRecord(s)
    PROVE  /\ s \in catalog.rows /\ s \notin Stopped(catalog) /\ JobOf(s) \in Jobs
           /\ s \in Active(catalog, JobOf(s)) /\ s \in NonRemoved(catalog, JobOf(s))
  <1>1. catalog \in CatalogType
    BY DEF LedgerInv, TypeInv, TypeOK
  <1>2. s \in catalog.rows
    BY DEF RecordInv, LedgerInv, TrackInv, Tracked
  <1>3. s \notin Stopped(catalog)
    BY DEF PastInv
  <1> QED BY <1>1, <1>2, <1>3, StoppedOrActive

(* The empty bucket runs nothing. *)
LEMMA InitAstray == DrainInit => AstrayInv
  <1> SUFFICES ASSUME DrainInit PROVE AstrayInv
    OBVIOUS
  <1>1. /\ run = Idle /\ run.phase = "idle" /\ result = "none"
        /\ \A s \in Slots : live[s] = Down
    BY IdleLocals DEF DrainInit, Init
  <1>2. run.deployed = {}
    BY <1>1 DEF Idle
  <1> QED BY <1>1, <1>2 DEF AstrayInv, RecordInv, VisitInv, PastInv, SentInv, Sent, OnRecord, Up,
                            InHand, Rolling

(* A step that leaves workers, record and tables alone, sends nothing and does not
   begin a deploy. *)
LEMMA CalmAstray ==
    ASSUME AstrayInv, UNCHANGED <<catalog, hash, updateSeq, hosts, astray>>,
           run'.phase # "reconcile",
           run.phase = "idle" => run'.phase = "idle",
           \A j \in Jobs : Sent(j)' => Sent(j),
           \/ run.phase \notin {"idle", "reconcile"}
           \/ run'.phase = "idle" /\ (result' = result \/ result' = "aborted")
    PROVE  AstrayInv'
  <1>1. \A s : (OnRecord(s)' <=> OnRecord(s)) /\ (Runnable(s)' <=> Runnable(s))
    BY SameRecord
  <1>2. /\ Stopped(catalog)' = Stopped(catalog)
        /\ \A j : NonRemoved(catalog, j)' = NonRemoved(catalog, j)
    BY DEF Stopped, NonRemoved
  <1>3. RecordInv'
    BY <1>1 DEF AstrayInv, RecordInv
  <1>4. PastInv'
    BY <1>1, <1>2 DEF AstrayInv, PastInv
  <1>5. SentInv'
    BY <1>1, <1>2 DEF AstrayInv, SentInv
  <1> QED BY <1>3, <1>4, <1>5 DEF AstrayInv, VisitInv

(* The end of a deploy by Abort, that has left what is on record in place. *)
LEMMA AbortAstray ==
    ASSUME TypeInv, AstrayInv, Abort,
           \A s \in Slots : OnRecord(s)' => OnRecord(s) /\ Runnable(s)'
    PROVE  AstrayInv'
  <1>1. /\ run' = Idle /\ run'.phase = "idle" /\ result' = "aborted" /\ UNCHANGED hash
    BY IdleLocals DEF Abort, db
  <1>2. run'.deployed = {}
    BY <1>1 DEF Idle
  <1>3. RecordInv'
    BY <1>1 DEF AstrayInv, RecordInv
  <1> QED BY <1>1, <1>2, <1>3 DEF AstrayInv, VisitInv, PastInv, SentInv, Sent, InHand, Rolling

(* Where a job is taken to once its rsyncs have worked. *)
Taken(j) ==
    /\ run'.hash = UpdateAllocationPlan(catalog, run.hash, {j})
    /\ run'.phase \in {"stage", "start", "finalize"}
    /\ run'.phase # "stage" => run'.job = j
    /\ run'.phase = "start" => run'.todo = NewAllocations(catalog, run'.hash, j)
    /\ run'.phase = "finalize" => NewAllocations(catalog, run'.hash, j) = {}
    /\ run'.phase # "start" => run.opts.syncOnly
    /\ UNCHANGED <<db, ledger, builds, edits>>
    /\ \E W \in SUBSET catalog.workers : Synced({j} \X catalog.workers, catalog.workers \cup W)

(* One failed rsync ends the deploy. *)
LEMMA TakenTo ==
    ASSUME TypeInv, NEW j \in Jobs, SyncJob(j)
    PROVE  live' = live /\ (Taken(j) \/ (Abort /\ Fault("sync")))
  <1> DEFINE h == UpdateAllocationPlan(catalog, run.hash, {j})
             new == NewAllocations(catalog, h, j)
             r == [run EXCEPT !.staged = @ \ {j}, !.hash = h]
  <1> SUFFICES ASSUME ~(Abort /\ Fault("sync")) PROVE live' = live /\ Taken(j)
    BY DEF SyncJob
  <1>1. /\ UNCHANGED <<db, live, ledger, builds, edits>>
        /\ \E W \in SUBSET catalog.workers :
              Synced({j} \X catalog.workers, catalog.workers \cup W)
        /\ \/ /\ run.opts.syncOnly
              /\ \/ new = {} /\ run' = [r EXCEPT !.phase = "finalize", !.job = j]
                 \/ run' = [r EXCEPT !.errors = TRUE]
           \/ run' = [r EXCEPT !.phase = "start", !.job = j, !.todo = new]
    BY DEF SyncJob
  <1>2. run \in RunType /\ run.phase = "stage"
    BY DEF SyncJob, TypeInv, TypeOK
  <1>3. h = UpdateAllocationPlan(catalog, run.hash, {j}) /\ new = NewAllocations(catalog, h, j)
    OBVIOUS
  <1> HIDE DEF h, new
  <1>4. r.phase = "stage" /\ r.hash = h /\ DOMAIN r = DOMAIN run
    BY <1>2 DEF RunType
  <1>5. DOMAIN run = {"phase", "opts", "hash", "todo", "restart", "wave", "staged", "job",
                      "attempted", "errors", "deployed", "touched", "up", "hits"}
    BY <1>2 DEF RunType
  <1> HIDE DEF r
  <1>6. /\ run'.hash = h
        /\ \/ run'.phase = "stage" /\ run.opts.syncOnly
           \/ run'.phase = "start" /\ run'.job = j /\ run'.todo = new
           \/ run'.phase = "finalize" /\ run'.job = j /\ new = {} /\ run.opts.syncOnly
    <2>1. CASE run.opts.syncOnly /\ new = {} /\ run' = [r EXCEPT !.phase = "finalize", !.job = j]
      BY <1>4, <1>5, <2>1
    <2>2. CASE run.opts.syncOnly /\ run' = [r EXCEPT !.errors = TRUE]
      BY <1>4, <1>5, <2>2
    <2>3. CASE run' = [r EXCEPT !.phase = "start", !.job = j, !.todo = new]
      BY <1>4, <1>5, <2>3
    <2> QED BY <1>1, <2>1, <2>2, <2>3
  <1> QED BY <1>1, <1>3, <1>6 DEF Taken

(* A build writes tables; what it takes off the record has gone astray. *)
LEMMA BuildAstray ==
    ASSUME LedgerInv, AstrayInv, DrainBuild
    PROVE  AstrayInv'
  <1>1. /\ run = Idle /\ run' = Idle /\ result' = "none" /\ UNCHANGED hosts
        /\ hash \in HashType
    BY DEF DrainBuild, Build, LedgerInv, TypeInv, TypeOK
  <1>2. PICK k \in 1..Len(Edits) : \E ws \in Edits[k] :
            /\ catalog' = BuildCatalog(catalog, ws)
            /\ hash' = MarkStartPending(hash, Reenabled(catalog, BuildCatalog(catalog, ws)))
    BY DEF DrainBuild, Build, LedgerInv, TypeInv, TypeOK
  <1>3. hash' = MarkStartPending(hash, Reenabled(catalog, catalog'))
    BY <1>2
  <1>4. run'.phase = "idle" /\ run'.deployed = {}
    BY <1>1, IdleLocals DEF Idle
  <1>5. ASSUME NEW s \in Slots, OnRecord(s)'
        PROVE  OnRecord(s) /\ hash'.prev[s] = hash.prev[s] /\ (Runnable(s)' <=> Runnable(s))
    <2>1. Up(s) /\ s \notin astray'
      BY <1>1, <1>5 DEF OnRecord, Up, hosts
    <2>2. s \notin astray
          /\ s \notin {t \in catalog.disabled \ catalog.removed : t \in Active(catalog', JobOf(t))}
      BY <1>5, <2>1 DEF DrainBuild, Strays, OnRecord, Up
    <2>3. s \notin Reenabled(catalog, catalog')
      BY <2>2 DEF Reenabled, Active, NonRemoved
    <2>4. hash'.prev[s] = hash.prev[s]
      BY <1>1, <1>3, <2>3 DEF MarkStartPending, HashType
    <2> QED BY <1>1, <2>1, <2>2, <2>4 DEF OnRecord, hosts, Runnable, RunnerActs
  <1>6. RecordInv'
    BY <1>5 DEF AstrayInv, RecordInv
  <1> QED BY <1>1, <1>4, <1>6 DEF AstrayInv, VisitInv, PastInv, SentInv, Sent, InHand, Rolling

(* A collection deletes trees and rows of removed allocations only; one that still
   runs has gone astray. *)
LEMMA GCAstray ==
    ASSUME LedgerInv, AstrayInv, DrainGC
    PROVE  AstrayInv'
  <1>1. /\ run = Idle /\ run' = Idle /\ result' = result
        /\ UNCHANGED <<live, jobsFile, seqFile>>
    BY DEF DrainGC, GC, ledger
  <1>2. run'.phase = "idle" /\ run'.deployed = {}
    BY <1>1, IdleLocals DEF Idle
  <1>3. catalog \in CatalogType /\ hash \in HashType
        /\ tree \in [Slots -> Contents \cup {Absent, Emptied}]
    BY DEF LedgerInv, TypeInv, TypeOK
  <1>4. \A s \in Slots : s \in catalog.removed \/ tree'[s] = tree[s]
    BY <1>3 DEF DrainGC, GC
  <1>5. \/ UNCHANGED <<catalog, hash>>
        \/ catalog' = PurgeRemoved(catalog) /\ hash' = RemoveHash(hash, catalog.removed)
    BY DEF DrainGC, GC
  <1>6. \A s \in Slots : s \notin catalog.removed => hash'.prev[s] = hash.prev[s]
    BY <1>3, <1>5, RemoveEffect
  <1>7. Stopped(catalog)' \subseteq Stopped(catalog)
    BY <1>3, <1>5 DEF Stopped, PurgeRemoved, CatalogType
  <1>8. ASSUME NEW s \in Slots, OnRecord(s)'
        PROVE  OnRecord(s) /\ s \notin catalog.removed
    BY <1>1, <1>8 DEF OnRecord, Up, DrainGC, Strays
  <1>9. RecordInv'
    <2> SUFFICES ASSUME NEW s \in Slots, OnRecord(s)' PROVE hash'.prev[s] # None /\ Runnable(s)'
      BY DEF RecordInv
    <2>1. hash.prev[s] # None /\ Runnable(s) /\ s \notin catalog.removed
      BY <1>8 DEF AstrayInv, RecordInv
    <2> QED BY <1>1, <1>4, <1>6, <2>1 DEF Runnable, RunnerActs
  <1>10. PastInv'
    <2> SUFFICES ASSUME result' \in {"ok", "failed"}, NEW s \in Stopped(catalog)'
                 PROVE  ~OnRecord(s)'
      BY <1>2 DEF PastInv
    <2>1. s \in Stopped(catalog) /\ s \in Slots
      BY <1>3, <1>7, StoppedOrActive
    <2>2. ~OnRecord(s)
      BY <1>1, <2>1 DEF AstrayInv, PastInv
    <2> QED BY <1>8, <2>1, <2>2
  <1> QED BY <1>2, <1>9, <1>10 DEF AstrayInv, VisitInv, SentInv, Sent, InHand, Rolling

(* A deploy starts with every stopped allocation to visit and nothing sent. *)
LEMMA StartAstray ==
    ASSUME LedgerInv, AstrayInv, DrainStart
    PROVE  AstrayInv'
  <1>1. PICK o \in Options : StartDeploy(o) /\ UNCHANGED astray
    BY DEF DrainStart
  <1>2. /\ run = Idle /\ UNCHANGED <<catalog, hash, hosts>> /\ updateSeq' = updateSeq + 1
        /\ updateSeq \in Nat
    BY <1>1 DEF StartDeploy, LedgerInv, TypeInv, TypeOK
  <1>3. /\ run'.phase \in {"idle", "reconcile"} /\ run'.deployed = {}
        /\ run'.phase = "reconcile" => run'.todo = Stopped(catalog) /\ run'.hash = hash
        /\ result' \in {"none", "aborted"}
    <2>1. Idle.phase = "idle" /\ Idle.deployed = {} /\ Idle \in RunType
      BY IdleType DEF Idle
    <2>2. \/ run' = Idle /\ result' = "aborted"
          \/ /\ result' = "none"
             /\ \E u : run' = [Idle EXCEPT !.phase = "reconcile", !.opts = o, !.hash = hash,
                                         !.todo = Stopped(catalog), !.hits = faults, !.up = u]
      BY <1>1, <1>2 DEF StartDeploy
    <2> QED BY <2>1, <2>2 DEF RunType
  <1>4. \A s : (OnRecord(s)' <=> OnRecord(s)) /\ (Runnable(s)' <=> Runnable(s))
    BY <1>1, <1>2, SameRecord
  <1>5. RecordInv'
    BY <1>2, <1>4 DEF AstrayInv, RecordInv
  <1>6. VisitInv'
    BY <1>2, <1>3 DEF VisitInv, Stopped
  <1>7. SentInv'
    BY <1>2, <1>3 DEF SentInv, Sent, InHand, Rolling
  <1> QED BY <1>3, <1>5, <1>6, <1>7 DEF AstrayInv, PastInv

(* What the stop and the cleanup of an allocation do to it and to no other; a stop
   that is reported to work has worked on whatever was on record. *)
LEMMA StopOnRecord ==
    ASSUME TypeInv, AstrayInv, NEW s \in Slots, ReconcileStop(s),
           Strays(IF AssumeDead(catalog, s) /\ run' # Idle THEN {s} ELSE {})
    PROVE  /\ UNCHANGED <<catalog, hash, updateSeq>>
           /\ \A t \in Slots : OnRecord(t)' => OnRecord(t) /\ Runnable(t)'
           /\ Abort \/ (run' = Reconciled(s) /\ result' = result /\ ~OnRecord(s)')
  <1>1. /\ live \in [Slots -> Contents \cup {Down}]
        /\ tree \in [Slots -> Contents \cup {Absent, Emptied}]
        /\ UNCHANGED <<jobsFile, seqFile>>
    BY DEF TypeInv, TypeOK, ReconcileStop
  <1>2. UNCHANGED <<catalog, hash, updateSeq>>
    BY DEF ReconcileStop, Abort, db
  <1>3. OnRecord(s) => RunnerActs(s) /\ RunnerMayWork(s)
    <2>1. Emptied \notin Contents
      BY DeployAssumption DEF Emptied
    <2>2. OnRecord(s) => RunnerActs(s) /\ tree[s] \in Contents
      BY DEF AstrayInv, RecordInv, Runnable
    <2> QED BY <2>1, <2>2 DEF RunnerActs, RunnerMayWork
  <1>4. /\ \A t \in Slots \ {s} : AfterStop(s)[t] = live[t]
        /\ RunnerActs(s) => AfterStop(s)[s] = Down
        /\ AfterStop(s)[s] \in {Down, live[s]}
    BY <1>1 DEF AfterStop
  <1>5. \A t \in Slots \ {s} : AfterCleanup(s)[t] = tree[t]
    BY <1>1 DEF AfterCleanup
  <1>6. run.phase = "reconcile" /\ run \in RunType
    BY DEF ReconcileStop, TypeInv, TypeOK
  <1>7. /\ live' \in {live, AfterStop(s)} /\ tree' \in {tree, AfterCleanup(s)}
        /\ \/ Abort /\ (tree' = tree \/ live' = AfterStop(s))
           \/ /\ run' = Reconciled(s) /\ result' = result
              /\ live' = AfterStop(s) \/ AssumeDead(catalog, s)
    BY DEF ReconcileStop, ledger
  <1>8. \A t \in Slots \ {s} : live'[t] = live[t] /\ tree'[t] = tree[t]
    BY <1>4, <1>5, <1>7
  <1>9. \A t \in Slots : OnRecord(t)' => OnRecord(t)
    <2> SUFFICES ASSUME NEW t \in Slots, OnRecord(t)' PROVE OnRecord(t)
      OBVIOUS
    <2>1. live'[t] # Down /\ t \notin astray'
      BY DEF OnRecord, Up
    <2>2. live[t] # Down
      BY <1>4, <1>7, <1>8, <2>1
    <2>3. t \notin astray
      BY <2>1 DEF Strays
    <2> QED BY <2>2, <2>3 DEF OnRecord, Up
  <1>10. live' = AfterStop(s) => ~OnRecord(s)'
    <2> SUFFICES ASSUME live' = AfterStop(s), OnRecord(s)' PROVE FALSE
      OBVIOUS
    <2>1. live'[s] = Down
      BY <1>3, <1>4, <1>9
    <2> QED BY <2>1 DEF OnRecord, Up
  <1>11. Reconciled(s) # Idle
    <2>1. Reconciled(s).phase = "reconcile"
      BY <1>6 DEF Reconciled, RunType
    <2> QED BY <2>1, IdleLocals
  <1>12. run' = Reconciled(s) /\ AssumeDead(catalog, s) => ~OnRecord(s)'
    BY <1>11 DEF Strays, OnRecord, Up
  <1>13. Abort \/ (run' = Reconciled(s) /\ result' = result /\ ~OnRecord(s)')
    BY <1>7, <1>10, <1>12
  <1>14. \A t \in Slots : OnRecord(t)' => Runnable(t)'
    <2> SUFFICES ASSUME NEW t \in Slots, OnRecord(t)' PROVE Runnable(t)'
      OBVIOUS
    <2>1. Runnable(t)
      BY <1>9 DEF AstrayInv, RecordInv
    <2>2. tree'[t] = tree[t]
      <3>1. CASE t # s
        BY <1>8, <3>1
      <3>2. CASE t = s
        BY <1>7, <1>10, <1>12, <3>2
      <3> QED BY <3>1, <3>2
    <2> QED BY <1>1, <2>1, <2>2 DEF Runnable, RunnerActs
  <1> QED BY <1>2, <1>9, <1>13, <1>14

(* Reconcile visits one stopped allocation, or ends the deploy. *)
LEMMA VisitAstray ==
    ASSUME TypeInv, WaveInv, AstrayInv, NEW s \in Slots, run.phase = "reconcile", s \in run.todo,
           run' = Reconciled(s), result' = result, ~OnRecord(s)',
           UNCHANGED <<catalog, hash, updateSeq>>,
           \A t \in Slots : OnRecord(t)' => OnRecord(t) /\ Runnable(t)'
    PROVE  AstrayInv'
  <1>1. run \in RunType /\ run.hash \in HashType /\ catalog \in CatalogType
    BY DEF TypeInv, TypeOK, RunType
  <1> DEFINE h == IF s \in catalog.removed THEN RemoveHash(run.hash, {s}) ELSE run.hash
  <1>2. run' = [run EXCEPT !.todo = @ \ {s}, !.hash = h]
    BY DEF Reconciled
  <1>3. \A t \in Slots \ {s} : h.prev[t] = run.hash.prev[t]
    BY <1>1, RemoveEffect
  <1> HIDE DEF h
  <1>4. /\ run'.phase = "reconcile" /\ run'.todo = run.todo \ {s} /\ run'.hash = h
        /\ run'.deployed = run.deployed /\ run.todo \subseteq Slots
    BY <1>1, <1>2 DEF RunType
  <1>5. RecordInv'
    BY DEF AstrayInv, RecordInv
  <1>6. VisitInv'
    <2>1. Stopped(catalog)' = Stopped(catalog) /\ Stopped(catalog) \subseteq Slots
      BY <1>1 DEF Stopped, CatalogType
    <2>2. \A t \in Stopped(catalog) \ run'.todo : ~OnRecord(t)'
      BY <1>4, <2>1 DEF AstrayInv, VisitInv
    <2>3. \A t \in run'.todo : run'.hash.prev[t] = hash.prev[t]
      BY <1>3, <1>4 DEF AstrayInv, VisitInv
    <2> QED BY <2>1, <2>2, <2>3 DEF VisitInv
  <1>7. PastInv'
    <2> SUFFICES ASSUME result \in {"ok", "failed"}, NEW t \in Stopped(catalog)
                 PROVE  ~OnRecord(t)'
      BY <1>4 DEF PastInv, Stopped
    <2>1. t \in Slots
      BY <1>1 DEF Stopped, CatalogType
    <2> QED BY <2>1 DEF AstrayInv, PastInv
  <1>8. SentInv'
    <2>1. run'.deployed = {}
      BY <1>4 DEF WaveInv
    <2>2. updateSeq' # 0
      BY DEF AstrayInv, SentInv
    <2> QED BY <1>4, <2>1, <2>2 DEF SentInv, Sent, InHand, Rolling
  <1> QED BY <1>5, <1>6, <1>7, <1>8 DEF AstrayInv

(* A stop, whatever comes of it, and the skip of what was never promoted. *)
LEMMA ReconcileAstray ==
    ASSUME LedgerInv, BlastInv, AstrayInv,
           DrainReconcile \/ (UNCHANGED <<astray, orderly>> /\ \E s \in Slots : ReconcileSkip(s))
    PROVE  AstrayInv'
  <1>1. TypeInv /\ WaveInv
    BY DEF LedgerInv
  <1>2. CASE DrainReconcile
    <2>1. PICK s \in Slots :
              /\ ReconcileStop(s)
              /\ Strays(IF AssumeDead(catalog, s) /\ run' # Idle THEN {s} ELSE {})
      BY <1>2 DEF DrainReconcile
    <2>2. run.phase = "reconcile" /\ s \in run.todo
      BY <2>1 DEF ReconcileStop
    <2>3. /\ UNCHANGED <<catalog, hash, updateSeq>>
          /\ \A t \in Slots : OnRecord(t)' => OnRecord(t) /\ Runnable(t)'
          /\ Abort \/ (run' = Reconciled(s) /\ result' = result /\ ~OnRecord(s)')
      BY <1>1, <2>1, StopOnRecord
    <2>4. CASE Abort
      BY <1>1, <2>3, <2>4, AbortAstray
    <2> QED BY <1>1, <2>2, <2>3, <2>4, VisitAstray
  <1>3. CASE UNCHANGED <<astray, orderly>> /\ \E s \in Slots : ReconcileSkip(s)
    <2>1. PICK s \in Slots : ReconcileSkip(s)
      BY <1>3
    <2>2. /\ run.phase = "reconcile" /\ s \in run.todo /\ run.hash.prev[s] = None
          /\ run' = Reconciled(s) /\ UNCHANGED <<catalog, hash, updateSeq, hosts, result>>
      BY <2>1 DEF ReconcileSkip, db, ledger, bounds
    <2>3. \A t : (OnRecord(t)' <=> OnRecord(t)) /\ (Runnable(t)' <=> Runnable(t))
      BY <1>3, <2>2, SameRecord
    <2>4. ~OnRecord(s)
      BY <2>2 DEF AstrayInv, VisitInv, RecordInv
    <2>5. \A t \in Slots : OnRecord(t)' => OnRecord(t) /\ Runnable(t)'
      BY <2>3 DEF AstrayInv, RecordInv
    <2> QED BY <1>1, <2>2, <2>3, <2>4, <2>5, VisitAstray
  <1> QED BY <1>2, <1>3

(* Everything stopped has been visited, and the buckets that are wiped run nothing
   that is on record. *)
LEMMA FinishAstray ==
    ASSUME LedgerInv, AstrayInv, FinishReconcile, UNCHANGED astray
    PROVE  AstrayInv'
  <1>1. /\ run.phase = "reconcile" /\ run.todo = {} /\ run \in RunType
        /\ catalog \in CatalogType /\ TypeInv
    BY DEF FinishReconcile, LedgerInv, TypeInv, TypeOK
  <1>2. CASE Abort /\ UNCHANGED hosts
    <2>1. \A s : (OnRecord(s)' <=> OnRecord(s)) /\ (Runnable(s)' <=> Runnable(s))
      BY <1>2, SameRecord
    <2> QED BY <1>1, <1>2, <2>1, AbortAstray DEF AstrayInv, RecordInv
  <1>3. CASE /\ run' = [run EXCEPT !.phase = "plan"]
             /\ UNCHANGED <<db, live, ledger, builds, edits>>
             /\ \E gone \in SUBSET Wiped :
                   /\ seqFile' = [w \in Workers |-> IF w \in gone THEN 0 ELSE seqFile[w]]
                   /\ jobsFile' = [w \in Workers |-> IF w \in gone THEN {} ELSE jobsFile[w]]
                   /\ tree' = [s \in Slots |-> IF WorkerOf(s) \in gone THEN Absent ELSE tree[s]]
    <2>1. /\ run'.phase = "plan" /\ run'.deployed = run.deployed
          /\ UNCHANGED <<catalog, hash, updateSeq, live>>
      BY <1>1, <1>3 DEF RunType, db
    <2>2. \A s : OnRecord(s)' <=> OnRecord(s)
      BY <2>1 DEF OnRecord, Up
    <2>3. Stopped(catalog)' = Stopped(catalog) /\ \A s \in Stopped(catalog) : ~OnRecord(s)
      BY <1>1, <2>1 DEF AstrayInv, VisitInv, Stopped
    <2>4. PICK gone \in SUBSET Wiped :
              /\ seqFile' = [w \in Workers |-> IF w \in gone THEN 0 ELSE seqFile[w]]
              /\ jobsFile' = [w \in Workers |-> IF w \in gone THEN {} ELSE jobsFile[w]]
              /\ tree' = [s \in Slots |-> IF WorkerOf(s) \in gone THEN Absent ELSE tree[s]]
      BY <1>3
    <2>5. RecordInv'
      <3> SUFFICES ASSUME NEW s \in Slots, OnRecord(s) PROVE hash.prev[s] # None /\ Runnable(s)'
        BY <2>1, <2>2 DEF RecordInv
      <3>1. hash.prev[s] # None /\ Runnable(s)
        BY DEF AstrayInv, RecordInv
      <3>2. s \in catalog.rows /\ s \notin Stopped(catalog)
        BY <2>3, <3>1 DEF LedgerInv, TrackInv, Tracked
      <3>3. WorkerOf(s) \in catalog.workers
        BY <1>1, <3>2 DEF Stopped, TypeInv, CatalogSound
      <3>4. WorkerOf(s) \notin gone
        BY <3>3 DEF Wiped, AssumeDead
      <3>5. WorkerOf(s) \in Workers
        BY <1>1, StoppedOrActive
      <3> QED BY <2>4, <3>1, <3>4, <3>5 DEF Runnable, RunnerActs
    <2>6. SentInv'
      <3>1. run'.deployed = {}
        BY <1>1, <2>1 DEF LedgerInv, WaveInv
      <3> QED BY <1>1, <2>1, <3>1 DEF AstrayInv, SentInv, Sent, InHand, Rolling
    <2>7. PastInv' /\ VisitInv'
      BY <2>1, <2>2, <2>3 DEF PastInv, VisitInv
    <2> QED BY <2>5, <2>6, <2>7 DEF AstrayInv
  <1>4. (Abort /\ UNCHANGED hosts)
        \/ /\ run' = [run EXCEPT !.phase = "plan"]
           /\ UNCHANGED <<db, live, ledger, builds, edits>>
           /\ \E gone \in SUBSET Wiped :
                 /\ seqFile' = [w \in Workers |-> IF w \in gone THEN 0 ELSE seqFile[w]]
                 /\ jobsFile' = [w \in Workers |-> IF w \in gone THEN {} ELSE jobsFile[w]]
                 /\ tree' = [s \in Slots |-> IF WorkerOf(s) \in gone THEN Absent ELSE tree[s]]
    BY DEF FinishReconcile
  <1> QED BY <1>2, <1>3, <1>4

(* Planning and moving on between commands touches no worker; a crash leaves them
   as they are. *)
LEMMA QuietAstray ==
    ASSUME LedgerInv, AstrayInv, UNCHANGED astray,
           PlanWave \/ NextWave \/ CheckHealth \/ ChooseUpdates \/ NextAction \/ FinalizeJob \/ Crash
    PROVE  AstrayInv'
  <1>1. TypeInv /\ UNCHANGED <<catalog, hash, updateSeq, hosts>>
    BY DEF LedgerInv, PlanWave, NextWave, CheckHealth, ChooseUpdates, NextAction, FinalizeJob,
           Crash, Abort, db, bounds
  <1>2. CASE Crash
    <2>1. \A s : (OnRecord(s)' <=> OnRecord(s)) /\ (Runnable(s)' <=> Runnable(s))
      BY <1>1, SameRecord
    <2> QED BY <1>1, <1>2, <2>1, AbortAstray DEF Crash, AstrayInv, RecordInv
  <1>3. CASE ~Crash
    <2>1. /\ run.phase \notin {"idle", "reconcile"} /\ run'.phase \notin {"idle", "reconcile"}
          /\ \A j \in Jobs : Sent(j)' => Sent(j)
      <3>1. CASE PlanWave
        <4>1. PICK J \in SUBSET Jobs : Stages(J)
          BY <1>1, <3>1, PlanWaveKind
        <4> QED BY <4>1 DEF Stages, Sent, InHand, Rolling
      <3>2. CASE NextWave
        <4>1. Advances \/ Passes
          BY <1>1, <3>2, NextWaveKind
        <4>2. run.phase = "stage"
          BY <3>2 DEF NextWave
        <4> QED BY <4>1, <4>2 DEF Advances, Passes, SameQueue, Sent, InHand, Rolling
      <3>3. CASE CheckHealth \/ ChooseUpdates \/ NextAction
        <4>1. Moves
          BY <1>1, <3>3, RolloutKind
        <4> QED BY <4>1 DEF Moves, SameQueue, Sent, InHand, Rolling
      <3>4. CASE FinalizeJob
        <4>1. (Moves /\ run'.phase = "stage") \/ Promotes
          BY <1>1, <3>4, FinalizeJobKind
        <4> QED BY <4>1 DEF Moves, Promotes, SameQueue, Sent, InHand, Rolling
      <3> QED BY <1>3, <3>1, <3>2, <3>3, <3>4
    <2> QED BY <1>1, <2>1, CalmAstray
  <1> QED BY <1>2, <1>3

(* What a sync leaves of an allocation that is not removed. *)
LEMMA SyncRunnable ==
    ASSUME TypeInv, NEW S \in SUBSET Slots, NEW W \in SUBSET catalog.workers, Synced(S, W),
           updateSeq # 0, NEW j \in Jobs, NEW s \in NonRemoved(catalog, j)
    PROVE  /\ Runnable(s) => Runnable(s)'
           /\ s \in S /\ WorkerOf(s) \in W => Runnable(s)'
  <1>1. /\ s \in Slots /\ JobOf(s) = j /\ s = <<j, WorkerOf(s)>> /\ s \in catalog.rows
        /\ s \notin catalog.removed /\ WorkerOf(s) \in Workers
    BY DEF NonRemoved, TypeInv, TypeOK, CatalogType, Slots, JobOf, WorkerOf
  <1>2. catalog.content[j] \in Contents
    BY <1>1 DEF TypeInv, TypeOK, CatalogSound, CatalogType, MaybeContent
  <1>3. SyncedTree(s) \in Contents
    BY <1>1, <1>2 DEF SyncedTree
  <1>4. tree'[s] = IF s \in S THEN SyncedTree(s) ELSE tree[s]
    BY <1>1 DEF Synced
  <1>5. /\ WorkerOf(s) \in W => seqFile'[WorkerOf(s)] # 0 /\ j \in jobsFile'[WorkerOf(s)]
        /\ WorkerOf(s) \notin W => /\ seqFile'[WorkerOf(s)] = seqFile[WorkerOf(s)]
                                   /\ jobsFile'[WorkerOf(s)] = jobsFile[WorkerOf(s)]
    BY <1>1 DEF Synced
  <1>6. Absent \notin Contents
    BY DeployAssumption DEF Absent
  <1> QED BY <1>1, <1>3, <1>4, <1>5, <1>6 DEF Runnable, RunnerActs

(* A sync, of whatever part of the workers it reaches, leaves what is on record
   there, and what has been sent. *)
LEMMA SyncKeeps ==
    ASSUME LedgerInv, AstrayInv, run.phase \notin {"idle", "reconcile"},
           NEW S \in SUBSET Slots, NEW W \in SUBSET catalog.workers, Synced(S, W),
           UNCHANGED <<catalog, hash, live, astray>>
    PROVE  /\ RecordInv' /\ \A s : OnRecord(s)' <=> OnRecord(s)
           /\ \A j \in Jobs : Sent(j) => \A s \in NonRemoved(catalog, j) : Runnable(s)'
  <1>1. \A s : OnRecord(s)' <=> OnRecord(s)
    BY DEF OnRecord, Up
  <1>2. TypeInv /\ updateSeq # 0
    BY DEF LedgerInv, AstrayInv, SentInv
  <1>3. RecordInv'
    <2> SUFFICES ASSUME NEW s \in Slots, OnRecord(s) PROVE hash.prev[s] # None /\ Runnable(s)'
      BY <1>1 DEF RecordInv
    <2>1. JobOf(s) \in Jobs /\ s \in NonRemoved(catalog, JobOf(s))
      BY RecordActive DEF AstrayInv
    <2>2. hash.prev[s] # None /\ Runnable(s)
      BY DEF AstrayInv, RecordInv
    <2> QED BY <1>2, <2>1, <2>2, SyncRunnable
  <1>4. \A j \in Jobs : Sent(j) => \A s \in NonRemoved(catalog, j) : Runnable(s)'
    <2> SUFFICES ASSUME NEW j \in Jobs, Sent(j), NEW s \in NonRemoved(catalog, j)
                 PROVE  Runnable(s)'
      OBVIOUS
    <2>1. Runnable(s)
      BY DEF AstrayInv, SentInv
    <2> QED BY <1>2, <2>1, SyncRunnable
  <1> QED BY <1>1, <1>3, <1>4

(* The rsyncs of a job put its tree wherever it is to run, or end the deploy. *)
LEMMA SyncJobAstray ==
    ASSUME LedgerInv, AstrayInv, NEW j \in Jobs, SyncJob(j), UNCHANGED astray
    PROVE  AstrayInv'
  <1>1. /\ TypeInv /\ catalog.workers \subseteq Workers /\ run.phase = "stage"
        /\ run \in RunType
    BY DEF LedgerInv, TypeInv, TypeOK, CatalogType, SyncJob
  <1>2. live' = live /\ (Taken(j) \/ Abort)
    BY <1>1, TakenTo
  <1>3. UNCHANGED <<catalog, hash, updateSeq>>
    BY <1>2 DEF Taken, Abort, db
  <1>4. CASE Abort
    <2>1. PICK full \in SUBSET catalog.workers :
              \E meta \in SUBSET (catalog.workers \ full) : Synced({j} \X full, full \cup meta)
      BY DEF SyncJob
    <2>2. PICK meta \in SUBSET (catalog.workers \ full) : Synced({j} \X full, full \cup meta)
      BY <2>1
    <2>3. {j} \X full \in SUBSET Slots /\ full \cup meta \in SUBSET catalog.workers
      BY <1>1 DEF Slots
    <2>4. RecordInv' /\ \A s : OnRecord(s)' <=> OnRecord(s)
      BY <1>1, <1>2, <1>3, <2>2, <2>3, SyncKeeps
    <2> QED BY <1>1, <1>4, <2>4, AbortAstray DEF RecordInv
  <1>5. CASE Taken(j)
    <2>1. PICK V \in SUBSET catalog.workers :
              Synced({j} \X catalog.workers, catalog.workers \cup V)
      BY <1>5 DEF Taken
    <2> DEFINE S == {j} \X catalog.workers
               W == catalog.workers \cup V
    <2>2. S \in SUBSET Slots /\ W \in SUBSET catalog.workers /\ Synced(S, W)
      BY <1>1, <2>1 DEF Slots
    <2>3. \A s \in NonRemoved(catalog, j) : s \in S /\ WorkerOf(s) \in W
      BY <1>1, PlacedOnWorkers DEF WorkerOf
    <2> HIDE DEF S, W
    <2>4. /\ RecordInv' /\ \A s : OnRecord(s)' <=> OnRecord(s)
          /\ \A i \in Jobs : Sent(i) => \A s \in NonRemoved(catalog, i) : Runnable(s)'
      BY <1>1, <1>2, <1>3, <2>2, SyncKeeps
    <2>5. \A s \in NonRemoved(catalog, j) : Runnable(s)'
      BY <1>1, <2>2, <2>3, SyncRunnable DEF AstrayInv, SentInv
    <2>6. /\ run'.phase \in {"stage", "start", "finalize"}
          /\ run'.phase # "stage" => run'.job = j
      BY <1>5 DEF Taken
    <2>7. run'.deployed = run.deployed
      <3>1. Abort \/ Takes(j)
        BY <1>1, SyncJobKind
      <3>2. ~Abort
        BY <2>6, IdleLocals DEF Abort
      <3> QED BY <3>1, <3>2 DEF Takes
    <2>8. \A i \in Jobs : Sent(i)' => Sent(i) \/ i = j
      BY <2>6, <2>7 DEF Sent, InHand, Rolling
    <2>9. SentInv'
      <3>1. updateSeq' # 0
        BY <1>1, <1>3 DEF AstrayInv, SentInv
      <3>2. \A i \in Jobs : Sent(i)' => \A s \in NonRemoved(catalog, i) : Runnable(s)'
        BY <2>4, <2>5, <2>8
      <3>3. \A i : NonRemoved(catalog, i)' = NonRemoved(catalog, i)
        BY <1>3 DEF NonRemoved
      <3> QED BY <3>1, <3>2, <3>3 DEF SentInv
    <2>10. PastInv'
      <3>1. Stopped(catalog)' = Stopped(catalog)
        BY <1>3 DEF Stopped
      <3>2. \A s \in Stopped(catalog) : ~OnRecord(s)
        BY <1>1 DEF AstrayInv, PastInv
      <3> QED BY <2>4, <3>1, <3>2 DEF PastInv
    <2> QED BY <2>4, <2>6, <2>9, <2>10 DEF AstrayInv, VisitInv
  <1> QED BY <1>2, <1>4, <1>5

(* The final sync renews what is there. *)
LEMMA FinalSyncAstray ==
    ASSUME LedgerInv, AstrayInv, FinalSync, UNCHANGED astray
    PROVE  AstrayInv'
  <1>1. PICK S \in SUBSET UNION {Active(catalog, j) : j \in run.deployed} :
            Synced(S, {WorkerOf(s) : s \in S})
    BY DEF FinalSync
  <1>2. /\ run.phase = "final" /\ UNCHANGED <<catalog, hash, updateSeq, live, result>>
        /\ catalog \in CatalogType /\ TypeInv
    BY DEF FinalSync, LedgerInv, TypeInv, TypeOK, db, ledger
  <1>3. run'.phase = "commit" /\ run'.deployed = run.deployed
    BY <1>2, FinalSyncKind DEF Passes, SameQueue
  <1> DEFINE W == {WorkerOf(s) : s \in S}
  <1>4. S \in SUBSET Slots /\ W \in SUBSET catalog.workers /\ Synced(S, W)
    BY <1>1, <1>2 DEF Active, NonRemoved, CatalogType, TypeInv, CatalogSound
  <1> HIDE DEF W
  <1>5. /\ RecordInv' /\ \A s : OnRecord(s)' <=> OnRecord(s)
        /\ \A j \in Jobs : Sent(j) => \A s \in NonRemoved(catalog, j) : Runnable(s)'
    BY <1>2, <1>4, SyncKeeps
  <1>6. PastInv' /\ VisitInv'
    <2>1. Stopped(catalog)' = Stopped(catalog)
      BY <1>2 DEF Stopped
    <2> QED BY <1>2, <1>3, <1>5, <2>1 DEF AstrayInv, PastInv, VisitInv
  <1>7. SentInv'
    <2>1. updateSeq' # 0 /\ \A j \in Jobs : Sent(j)' => Sent(j)
      BY <1>2, <1>3 DEF AstrayInv, SentInv, Sent, InHand, Rolling
    <2>2. \A j : NonRemoved(catalog, j)' = NonRemoved(catalog, j)
      BY <1>2 DEF NonRemoved
    <2> QED BY <1>5, <2>1, <2>2 DEF SentInv
  <1> QED BY <1>5, <1>6, <1>7 DEF AstrayInv

(* A batch starts what is active and was sent; what it starts without a promoted
   hash has gone astray. *)
LEMMA BatchAstray ==
    ASSUME LedgerInv, AstrayInv, DrainBatch
    PROVE  AstrayInv'
  <1>1. /\ TypeInv /\ run \in RunType /\ run.phase \in Rolling /\ run.job \in Jobs
        /\ catalog \in CatalogType /\ live \in [Slots -> Contents \cup {Down}]
        /\ run.todo \subseteq Active(catalog, run.job)
        /\ UNCHANGED <<catalog, hash, updateSeq, tree, jobsFile, seqFile>>
    BY DEF DrainBatch, RunBatch, LedgerInv, TypeInv, TypeOK, Rolling, db
  <1>2. Moves
    BY <1>1, RolloutKind DEF DrainBatch
  <1>3. \A s \in Slots \ run.todo : live'[s] \in {live[s], Down}
    BY DEF DrainBatch, RunBatch
  <1>4. ASSUME NEW s \in Slots, OnRecord(s)'
        PROVE  /\ Runnable(s)' <=> Runnable(s)
               /\ s \in run.todo => hash.prev[s] # None
               /\ s \notin run.todo => OnRecord(s)
    <2>1. s \notin astray /\ (s \in run.todo => hash.prev[s] # None)
      BY <1>4 DEF OnRecord, Up, DrainBatch, Strays
    <2>2. s \notin run.todo => Up(s)
      BY <1>3, <1>4 DEF OnRecord, Up
    <2>3. Runnable(s)' <=> Runnable(s)
      BY <1>1 DEF Runnable, RunnerActs
    <2> QED BY <2>1, <2>2, <2>3 DEF OnRecord
  <1>5. \A s \in run.todo : Runnable(s) /\ s \notin Stopped(catalog)
    <2>1. \A s \in run.todo : s \in NonRemoved(catalog, run.job) /\ s \notin Stopped(catalog)
      BY <1>1, StoppedOrActive
    <2>2. Sent(run.job)
      BY <1>1 DEF Sent, InHand
    <2> QED BY <1>1, <2>1, <2>2 DEF AstrayInv, SentInv
  <1>6. RecordInv'
    BY <1>1, <1>4, <1>5 DEF AstrayInv, RecordInv
  <1>7. PastInv'
    <2>1. Stopped(catalog)' = Stopped(catalog) /\ Stopped(catalog) \subseteq Slots
      BY <1>1, StoppedOrActive DEF Stopped
    <2>2. \A s \in Stopped(catalog) : ~OnRecord(s)
      BY <1>1 DEF AstrayInv, PastInv, Rolling
    <2>3. \A s \in Stopped(catalog) : ~OnRecord(s)'
      BY <1>4, <1>5, <2>1, <2>2
    <2> QED BY <2>1, <2>3 DEF PastInv
  <1>8. SentInv'
    <2>1. updateSeq' # 0 /\ \A j \in Jobs : Sent(j)' => Sent(j)
      BY <1>1, <1>2 DEF AstrayInv, SentInv, Sent, Moves, SameQueue, InHand, Rolling
    <2>2. \A j : NonRemoved(catalog, j)' = NonRemoved(catalog, j)
      BY <1>1 DEF NonRemoved
    <2>3. \A s : Runnable(s)' <=> Runnable(s)
      BY <1>1 DEF Runnable, RunnerActs
    <2> QED BY <2>1, <2>2, <2>3 DEF AstrayInv, SentInv
  <1>9. run'.phase # "reconcile"
    BY <1>2 DEF Moves, InHand, Rolling
  <1> QED BY <1>6, <1>7, <1>8, <1>9 DEF AstrayInv, VisitInv

(* A commit records what was promoted; of that, all is active and was sent. *)
LEMMA CommitAstray ==
    ASSUME LedgerInv, FinishInv, AstrayInv, DrainCommit
    PROVE  AstrayInv'
  <1>1. /\ run.phase = "commit" /\ run' = Idle /\ hash' = run.hash
        /\ UNCHANGED <<catalog, updateSeq, hosts>> /\ catalog \in CatalogType
        /\ run \in RunType /\ CatalogSound
    BY DEF DrainCommit, Commit, LedgerInv, TypeInv, TypeOK
  <1>2. run'.phase = "idle" /\ run'.deployed = {}
    BY <1>1, IdleLocals DEF Idle
  <1>3. \A s : (Up(s)' <=> Up(s)) /\ (Runnable(s)' <=> Runnable(s))
    BY <1>1 DEF hosts, Up, Runnable, RunnerActs
  <1>4. ASSUME NEW s \in Slots, OnRecord(s)', s \notin astray
        PROVE  run.hash.prev[s] # None /\ Runnable(s)
    <2>1. OnRecord(s)
      BY <1>3, <1>4 DEF OnRecord
    <2>2. hash.prev[s] # None /\ Runnable(s)
      BY <2>1 DEF AstrayInv, RecordInv
    <2>3. /\ JobOf(s) \in Jobs /\ s \in NonRemoved(catalog, JobOf(s))
          /\ s \in catalog.rows \ catalog.removed
      BY <1>1, <2>1, RecordActive DEF AstrayInv, NonRemoved
    <2>4. CASE JobOf(s) \in run.deployed
      BY <1>1, <2>2, <2>3, <2>4 DEF FinishInv, Promoted, CatalogSound
    <2>5. CASE JobOf(s) \notin run.deployed
      BY <1>1, <2>2, <2>3, <2>5 DEF LedgerInv, RetryInv, Agree
    <2> QED BY <2>2, <2>4, <2>5
  <1>5. ASSUME NEW s \in Slots, OnRecord(s)', s \in astray
        PROVE  run.hash.prev[s] # None /\ Runnable(s)
    <2>1. PICK j \in run.deployed : s \in Active(catalog, j)
      BY <1>5 DEF DrainCommit, OnRecord
    <2>2. j \in Jobs /\ JobOf(s) = j /\ s \in NonRemoved(catalog, j)
      BY <1>1, <2>1, StoppedOrActive DEF RunType
    <2>3. run.hash.prev[s] # None
      BY <1>1, <2>1, <2>2 DEF FinishInv, Promoted, CatalogSound, NonRemoved
    <2>4. Runnable(s)
      BY <2>1, <2>2 DEF AstrayInv, SentInv, Sent
    <2> QED BY <2>3, <2>4
  <1>6. RecordInv'
    BY <1>1, <1>3, <1>4, <1>5 DEF RecordInv
  <1>7. PastInv'
    <2> SUFFICES ASSUME NEW s \in Stopped(catalog)' PROVE ~OnRecord(s)'
      BY DEF PastInv
    <2>1. s \in Stopped(catalog) /\ \A j : s \notin Active(catalog, j)
      BY <1>1, StoppedOrActive DEF Stopped
    <2>2. s \notin astray' => s \notin astray
      BY <2>1 DEF DrainCommit
    <2>3. ~OnRecord(s)
      BY <1>1, <2>1 DEF AstrayInv, PastInv
    <2> QED BY <1>3, <2>2, <2>3 DEF OnRecord
  <1> QED BY <1>2, <1>6, <1>7 DEF AstrayInv, VisitInv, SentInv, Sent, InHand, Rolling

(* A step of somebody else. *)
LEMMA StutterAstray == AstrayInv /\ UNCHANGED drainVars => AstrayInv'
  <1> SUFFICES ASSUME AstrayInv, UNCHANGED drainVars PROVE AstrayInv'
    OBVIOUS
  <1>1. UNCHANGED <<catalog, hash, updateSeq, hosts, run, result, astray>>
    BY DEF drainVars, vars, db, ledger
  <1>2. \A s : (OnRecord(s)' <=> OnRecord(s)) /\ (Runnable(s)' <=> Runnable(s))
    BY <1>1, SameRecord
  <1>3. /\ Stopped(catalog)' = Stopped(catalog)
        /\ \A j : NonRemoved(catalog, j)' = NonRemoved(catalog, j)
        /\ \A j : Sent(j)' <=> Sent(j)
    BY <1>1 DEF Stopped, NonRemoved, Sent, InHand, Rolling
  <1>4. RecordInv' /\ VisitInv'
    BY <1>1, <1>2, <1>3 DEF AstrayInv, RecordInv, VisitInv
  <1>5. PastInv' /\ SentInv'
    BY <1>1, <1>2, <1>3 DEF AstrayInv, PastInv, SentInv
  <1> QED BY <1>4, <1>5 DEF AstrayInv

(* AstrayInv is inductive relative to RolloutInv. *)
LEMMA NextAstray ==
    ASSUME RolloutInv, AstrayInv, [DrainNext]_drainVars
    PROVE  AstrayInv'
  <1>1. LedgerInv /\ FinishInv /\ BlastInv
    BY DEF RolloutInv
  <1>2. CASE DrainBuild \/ DrainGC \/ DrainStart
    BY <1>1, <1>2, BuildAstray, GCAstray, StartAstray
  <1>3. CASE DrainReconcile \/ (UNCHANGED <<astray, orderly>> /\ \E s \in Slots : ReconcileSkip(s))
    BY <1>1, <1>3, ReconcileAstray
  <1>4. CASE DrainBatch
    BY <1>1, <1>4, BatchAstray
  <1>5. CASE DrainCommit
    BY <1>1, <1>5, CommitAstray
  <1>6. CASE FinishReconcile /\ UNCHANGED astray
    BY <1>1, <1>6, FinishAstray
  <1>7. CASE /\ UNCHANGED astray
             /\ \/ PlanWave \/ NextWave \/ CheckHealth \/ ChooseUpdates \/ NextAction
                \/ FinalizeJob \/ Crash
    BY <1>1, <1>7, QuietAstray
  <1>8. CASE UNCHANGED astray /\ \E j \in Jobs : SyncJob(j)
    BY <1>1, <1>8, SyncJobAstray
  <1>9. CASE UNCHANGED astray /\ FinalSync
    BY <1>1, <1>9, FinalSyncAstray
  <1>10. CASE UNCHANGED drainVars
    BY <1>10, StutterAstray
  <1> QED BY <1>2, <1>3, <1>4, <1>5, <1>6, <1>7, <1>8, <1>9, <1>10 DEF DrainNext, DrainOther

(* The history variables neither forbid a step nor add one. *)
LEMMA DrainIsDeploy ==
    /\ DrainInit => Init
    /\ [DrainNext]_drainVars => [Next]_vars
  <1>1. DrainInit => Init
    BY DEF DrainInit
  <1>2. UNCHANGED drainVars => UNCHANGED vars
    BY DEF drainVars
  <1>3. DrainBuild \/ DrainGC \/ DrainStart => Next
    BY DEF DrainBuild, DrainGC, DrainStart, Next
  <1>4. DrainReconcile \/ DrainBatch \/ DrainCommit => Next
    BY DEF DrainReconcile, DrainBatch, DrainCommit, Next, DeployStep
  <1>5. DrainOther => Next
    BY DEF DrainOther, Next, DeployStep
  <1> QED BY <1>1, <1>2, <1>3, <1>4, <1>5 DEF DrainNext

(* Reconcile: once it is through, and after every deploy that committed, no process
   of a disabled or removed allocation is left on a worker of the catalog, but for
   those gone astray: whatever batch, hook, health check or rsync failed, whatever
   stop was lost and whatever deploy died before, however often the catalog was
   built between two deploys, and whenever gc ran. *)
THEOREM DrainedStayDown == DrainSpec => []DrainedStaysDown
  <1>1. DrainInit => RolloutInv /\ AstrayInv
    BY DrainIsDeploy, InitRollout, InitAstray
  <1>2. RolloutInv /\ AstrayInv /\ [DrainNext]_drainVars => RolloutInv' /\ AstrayInv'
    BY DrainIsDeploy, NextRollout, NextAstray
  <1>3. AstrayInv => DrainedStaysDown
    BY DEF AstrayInv, PastInv, OnRecord, DrainedStaysDown
  <1> QED BY <1>1, <1>2, <1>3, PTL DEF DrainSpec

(* What runs and has not gone astray is on record, with a row and a promoted hash,
   and its runner can stop it: no failure, crash, build or collection leaves any
   other process out of the reach of the deploys to come. *)
THEOREM NothingIsOrphaned == DrainSpec => []NoOrphans
  <1>1. DrainInit => RolloutInv /\ AstrayInv
    BY DrainIsDeploy, InitRollout, InitAstray
  <1>2. RolloutInv /\ AstrayInv /\ [DrainNext]_drainVars => RolloutInv' /\ AstrayInv'
    BY DrainIsDeploy, NextRollout, NextAstray
  <1>3. RolloutInv /\ AstrayInv => NoOrphans
    <2> SUFFICES ASSUME RolloutInv, AstrayInv, NEW s \in Slots, Up(s), s \notin astray
                 PROVE  s \in catalog.rows /\ hash.prev[s] # None /\ RunnerActs(s)
      BY DEF NoOrphans
    <2>1. hash.prev[s] # None /\ Runnable(s)
      BY DEF AstrayInv, RecordInv, OnRecord
    <2>2. s \in catalog.rows
      BY <2>1 DEF RolloutInv, LedgerInv, TrackInv, Tracked
    <2> QED BY <2>1, <2>2 DEF Runnable
  <1> QED BY <1>1, <1>2, <1>3, PTL DEF DrainSpec

-----------------------------------------------------------------------------
(* A deploy that starts in order and that nothing disturbs succeeds.            *)

(* A deploy is under way that started in order and that no fault has hit. *)
Quiet == run # Idle /\ orderly /\ faults = run.hits /\ ~run.opts.syncOnly

(* The stops that are left can be run, or may fail. *)
StopsLeftRun ==
    \A s \in run.todo : hash.prev[s] # None => RunnerMayWork(s) \/ AssumeDead(catalog, s)

(* The job in hand is up, but for what is still to be started. *)
HandUp ==
    run.phase \in Rolling /\ run.job \in Probed =>
        \A s \in Active(catalog, run.job) : Up(s) \/ (run.phase = "start" /\ s \in run.todo)

(* Whatever a health check of this deploy may look at is up when it does. *)
OrderlyInv ==
    /\ run # Idle => run.hits <= faults
    /\ Quiet => /\ ~run.errors
                /\ run.phase = "reconcile" => StopsLeftRun /\ LosersUp
                /\ PromotedRun
                /\ HandUp

(* Steps of a deploy are taken by a deploy. *)
LEMMA StepRuns == DeployStep => run.phase # "idle" /\ run # Idle
  <1>1. /\ \A s \in Slots : ReconcileStop(s) \/ ReconcileSkip(s) => run.phase # "idle"
        /\ FinishReconcile => run.phase # "idle"
    BY DEF ReconcileStop, ReconcileSkip, FinishReconcile
  <1>2. /\ PlanWave \/ NextWave \/ FinalizeJob \/ FinalSync \/ Commit => run.phase # "idle"
        /\ \A j \in Jobs : SyncJob(j) => run.phase # "idle"
    BY DEF PlanWave, NextWave, SyncJob, FinalizeJob, FinalSync, Commit
  <1>3. RunBatch \/ CheckHealth \/ ChooseUpdates \/ NextAction => run.phase # "idle"
    BY DEF RunBatch, CheckHealth, ChooseUpdates, NextAction
  <1> QED BY <1>1, <1>2, <1>3, IdleLocals DEF DeployStep

(* An undisturbed deploy has been undisturbed so far. *)
LEMMA QuietStep ==
    ASSUME TypeInv, OrderlyInv, DeployStep, UNCHANGED orderly, run' # Idle
    PROVE  /\ Goes /\ run'.hits <= faults' /\ catalog' = catalog /\ hash' = hash
           /\ Quiet' => /\ Quiet /\ faults' = faults /\ \A kind : ~Fault(kind)
                        /\ ~run.errors /\ PromotedRun /\ HandUp
                        /\ run.phase = "reconcile" => StopsLeftRun /\ LosersUp
                        /\ run.phase \notin Rolling => ~run'.errors
  <1>1. Goes /\ run # Idle
    BY StepGoes, StepRuns
  <1>2. /\ run'.opts = run.opts /\ run'.hits = run.hits
        /\ faults \in Nat /\ run.hits \in Nat /\ faults' \in Nat /\ faults <= faults'
        /\ run.hits <= faults
    BY <1>1 DEF Goes, TypeInv, TypeOK, RunType, OrderlyInv
  <1>3. run'.hits <= faults'
    BY <1>2
  <1>4. ASSUME Quiet' PROVE Quiet /\ faults' = faults /\ \A kind : ~Fault(kind)
    <2>1. faults' = run.hits /\ orderly /\ ~run.opts.syncOnly
      BY <1>2, <1>4 DEF Quiet
    <2>2. faults' = faults
      BY <1>2, <2>1
    <2> QED BY <1>1, <1>2, <2>1, <2>2 DEF Quiet, Fault
  <1>5. ASSUME Quiet' PROVE run.phase \notin Rolling => ~run'.errors
    <2>1. ~run.errors /\ faults' = faults /\ ~run.opts.syncOnly
      BY <1>4, <1>5 DEF OrderlyInv, Quiet
    <2>2. run'.errors => \/ run.errors \/ faults < faults' \/ run.phase \in Rolling
                         \/ run.opts.syncOnly
      BY <1>1, Zenon DEF Goes
    <2>3. ~(faults < faults')
      BY <1>2, <2>1
    <2> QED BY <2>1, <2>2, <2>3
  <1>6. catalog' = catalog /\ hash' = hash
    BY <1>1 DEF Goes
  <1> QED BY <1>1, <1>3, <1>4, <1>5, <1>6 DEF OrderlyInv

(* Where the same is active, up and promoted, what was to be up still is. *)
LEMMA SameUp ==
    ASSUME catalog' = catalog, hash' = hash,
           \A j \in Probed : \A s \in Active(catalog, j) : Up(s) => Up(s)'
    PROVE  PromotedRun => PromotedRun'
  <1>1. \A j : Active(catalog, j)' = Active(catalog, j)
    BY DEF Active, NonRemoved
  <1> QED BY <1>1 DEF PromotedRun

(* The stop of an allocation touches no other, and nothing that is active. *)
LEMMA ReconcileOrderly ==
    ASSUME TypeInv, BlastInv, OrderlyInv, NEW s \in Slots, ReconcileStop(s) \/ ReconcileSkip(s),
           UNCHANGED orderly, run' # Idle
    PROVE  OrderlyInv'
  <1>1. DeployStep
    BY DEF DeployStep
  <1>2. /\ run'.hits <= faults' /\ catalog' = catalog /\ hash' = hash
        /\ Quiet' => /\ PromotedRun
                     /\ run.phase = "reconcile" => StopsLeftRun /\ LosersUp
                     /\ run.phase \notin Rolling => ~run'.errors
    BY <1>1, QuietStep
  <1>3. /\ run.phase = "reconcile" /\ s \in run.todo /\ run \in RunType
        /\ live \in [Slots -> Contents \cup {Down}]
        /\ tree \in [Slots -> Contents \cup {Absent, Emptied}]
        /\ catalog \in CatalogType
    BY DEF ReconcileStop, ReconcileSkip, TypeInv, TypeOK
  <1>4. run' = Reconciled(s)
    BY DEF ReconcileStop, ReconcileSkip, Abort
  <1>5. run'.phase = "reconcile" /\ run'.todo = run.todo \ {s}
    BY <1>3, <1>4 DEF Reconciled, RunType
  <1>6. /\ live' \in {live, AfterStop(s)} /\ tree' \in {tree, AfterCleanup(s)}
        /\ UNCHANGED <<jobsFile, seqFile>>
    BY DEF ReconcileStop, ReconcileSkip, hosts
  <1>7. \A t \in Slots \ {s} : live'[t] = live[t] /\ tree'[t] = tree[t]
    BY <1>3, <1>6 DEF AfterStop, AfterCleanup
  <1>8. \A j : \A t \in Active(catalog, j) : t \in Slots \ {s}
    <2>1. s \in Stopped(catalog)
      BY <1>3 DEF BlastInv
    <2>2. \A j : s \notin Active(catalog, j)
      BY <1>3, <2>1, StoppedOrActive
    <2>3. \A j : Active(catalog, j) \subseteq Slots
      BY <1>3, AllocationQueries
    <2> QED BY <2>2, <2>3
  <1>9. \A j : \A t \in Active(catalog, j) : Up(t) => Up(t)'
    BY <1>7, <1>8 DEF Up
  <1>10. StopsLeftRun => StopsLeftRun'
    <2> SUFFICES ASSUME StopsLeftRun, NEW t \in run'.todo, hash.prev[t] # None
                 PROVE  RunnerMayWork(t)' \/ AssumeDead(catalog, t)
      BY <1>2 DEF StopsLeftRun, AssumeDead
    <2>1. t \in run.todo /\ t \in Slots \ {s}
      BY <1>3, <1>5 DEF RunType
    <2>2. tree'[t] = tree[t]
      BY <1>7, <2>1
    <2>3. RunnerMayWork(t) <=> RunnerMayWork(t)'
      BY <1>6, <2>2 DEF RunnerMayWork, RunnerActs
    <2> QED BY <2>1, <2>3 DEF StopsLeftRun
  <1>11. LosersUp => LosersUp'
    <2>1. WereRunning' = WereRunning /\ \A j : Active(catalog, j)' = Active(catalog, j)
      BY <1>2 DEF WereRunning, Stopped, Active, NonRemoved
    <2> QED BY <1>9, <2>1 DEF LosersUp
  <1>12. PromotedRun => PromotedRun'
    BY <1>2, <1>9, SameUp
  <1>13. Quiet' => ~run'.errors /\ StopsLeftRun' /\ LosersUp' /\ PromotedRun'
    BY <1>2, <1>3, <1>10, <1>11, <1>12 DEF Rolling
  <1>14. HandUp'
    BY <1>5 DEF HandUp, Rolling
  <1> QED BY <1>2, <1>13, <1>14 DEF OrderlyInv

(* The steps that touch no process and take no job in hand. *)
LEMMA PassOrderly ==
    ASSUME TypeInv, OrderlyInv, FinishReconcile \/ PlanWave \/ NextWave \/ FinalizeJob \/ FinalSync,
           UNCHANGED orderly, run' # Idle
    PROVE  OrderlyInv'
  <1>1. DeployStep
    BY DEF DeployStep
  <1>2. /\ run'.hits <= faults' /\ catalog' = catalog /\ hash' = hash
        /\ Quiet' => PromotedRun /\ (run.phase \notin Rolling => ~run'.errors)
    BY <1>1, QuietStep
  <1>3. run.phase \notin Rolling
    BY DEF FinishReconcile, PlanWave, NextWave, FinalizeJob, FinalSync, Rolling
  <1>4. live' = live
    BY DEF FinishReconcile, Abort, PlanWave, NextWave, FinalizeJob, FinalSync, hosts
  <1>5. run'.phase \notin Rolling \cup {"reconcile"}
    <2>1. CASE FinishReconcile
      BY <2>1, FinishReconcileKind DEF Passes, Abort, Rolling
    <2>2. CASE PlanWave
      BY <2>2, PlanWaveKind DEF Stages, Rolling
    <2>3. CASE NextWave
      BY <2>3, NextWaveKind DEF Advances, Passes, Rolling
    <2>4. CASE FinalizeJob
      BY <2>4, FinalizeJobKind DEF Promotes, Rolling
    <2>5. CASE FinalSync
      BY <2>5, FinalSyncKind DEF Passes, Rolling
    <2> QED BY <2>1, <2>2, <2>3, <2>4, <2>5
  <1>6. PromotedRun => PromotedRun'
    BY <1>2, <1>4, SameUp DEF Up
  <1>7. HandUp'
    BY <1>5 DEF HandUp
  <1> QED BY <1>2, <1>3, <1>5, <1>6, <1>7 DEF OrderlyInv

(* A job that is taken in hand is up where it was promoted, and is started where it
   was not. *)
LEMMA SyncOrderly ==
    ASSUME RolloutInv, OrderlyInv, NEW j \in Jobs, SyncJob(j), UNCHANGED orderly, run' # Idle
    PROVE  OrderlyInv'
  <1>1. DeployStep /\ TypeInv
    BY DEF DeployStep, RolloutInv, LedgerInv
  <1>2. /\ run'.hits <= faults' /\ catalog' = catalog /\ hash' = hash
        /\ Quiet' => PromotedRun /\ (run.phase \notin Rolling => ~run'.errors)
    BY <1>1, QuietStep
  <1>3. live' = live /\ Taken(j)
    BY <1>1, TakenTo DEF Abort
  <1>4. run.phase = "stage" /\ j \in run.staged /\ run.hash \in HashType
        /\ catalog \in CatalogType /\ CatalogSound
    BY <1>1 DEF SyncJob, TypeInv, TypeOK, RunType
  <1>5. PromotedRun => PromotedRun'
    BY <1>2, <1>3, SameUp DEF Up
  <1>6. PromotedRun => HandUp'
    <2> SUFFICES ASSUME PromotedRun, run'.phase \in Rolling, run'.job \in Probed,
                        NEW s \in Active(catalog, run'.job)
                 PROVE  Up(s)' \/ (run'.phase = "start" /\ s \in run'.todo)
      BY <1>2 DEF HandUp, Active, NonRemoved
    <2>1. /\ run'.phase = "start" /\ run'.job = j
          /\ run'.todo = NewAllocations(catalog, run'.hash, j)
          /\ run'.hash = UpdateAllocationPlan(catalog, run.hash, {j})
      BY <1>3 DEF Taken, Rolling
    <2>2. s \in NonRemoved(catalog, j) /\ s \in Slots /\ JobOf(s) = j
      BY <1>4, <2>1, AllocationQueries
    <2>3. /\ run'.hash.prev[s] = run.hash.prev[s]
          /\ run'.hash.cur[s] = catalog.content[j]
      BY <1>4, <2>1, <2>2, PlanEffect
    <2>4. catalog.content[j] # None
      BY <1>4, <2>2 DEF NonRemoved, CatalogSound
    <2>5. run.hash.prev[s] = hash.prev[s]
      <3>1. j \notin run.deployed
        BY <1>4 DEF RolloutInv, OnceInv
      <3> QED BY <1>4, <2>2, <3>1 DEF RolloutInv, LedgerInv, RetryInv, Agree
    <2>6. CASE hash.prev[s] = None
      BY <2>1, <2>3, <2>4, <2>5, <2>6 DEF NewAllocations
    <2>7. CASE hash.prev[s] # None
      BY <1>3, <2>1, <2>7 DEF PromotedRun, Up
    <2> QED BY <2>6, <2>7
  <1>7. run'.phase # "reconcile"
    BY <1>3 DEF Taken
  <1>8. run.phase \notin Rolling
    BY <1>4 DEF Rolling
  <1> QED BY <1>2, <1>5, <1>6, <1>7, <1>8 DEF OrderlyInv

(* A batch without a fault takes down nothing of a job that is up, and brings up
   what it starts. *)
LEMMA BatchOrderly ==
    ASSUME TypeInv, OrderlyInv, RunBatch, UNCHANGED orderly, run' # Idle
    PROVE  OrderlyInv'
  <1>1. DeployStep
    BY DEF DeployStep
  <1>2. /\ run'.hits <= faults' /\ catalog' = catalog /\ hash' = hash
        /\ Quiet' => ~run.errors /\ PromotedRun /\ HandUp /\ \A kind : ~Fault(kind)
    BY <1>1, QuietStep
  <1> SUFFICES ASSUME Quiet'
               PROVE  /\ ~run'.errors /\ run'.phase # "reconcile" /\ PromotedRun' /\ HandUp'
    BY <1>2 DEF OrderlyInv
  <1>3. ~run.errors /\ PromotedRun /\ HandUp /\ \A kind : ~Fault(kind)
    BY <1>2
  <1>4. PICK B \in SUBSET run.todo :
            /\ live' = [s \in Slots |-> IF s \in B THEN Effect(s) ELSE live[s]]
            /\ run' = [run EXCEPT !.todo = @ \ B, !.touched = @ \cup B]
    BY <1>3 DEF RunBatch
  <1>5. /\ run \in RunType /\ run.phase \in Rolling /\ catalog \in CatalogType
        /\ run.todo \subseteq Active(catalog, run.job) /\ run.job \in Jobs
    BY DEF RunBatch, TypeInv, TypeOK, Rolling
  <1>6. /\ run'.phase = run.phase /\ run'.job = run.job /\ run'.todo = run.todo \ B
        /\ run'.errors = run.errors
    BY <1>4, <1>5 DEF RunType
  <1>7. Down \notin Contents
    BY DeployAssumption DEF Down
  <1>8. \A s \in B : tree[s] \in Contents /\ JobOf(s) = run.job /\ s \in Slots
    <2>1. \A s \in B : s \in NonRemoved(catalog, run.job) /\ JobOf(s) = run.job /\ s \in Slots
      BY <1>5, AllocationQueries
    <2> QED BY <1>5, <2>1 DEF TypeInv, TreesInPlace, Rolling
  <1>9. \A s \in B : (Up(s) => Up(s)') /\ (run.phase = "start" => Up(s)')
    BY <1>4, <1>7, <1>8 DEF Up, Effect
  <1>10. \A s \in Slots \ B : Up(s)' <=> Up(s)
    BY <1>4 DEF Up
  <1>11. \A j : \A s \in Active(catalog, j) : s \in Slots
    BY <1>5, AllocationQueries
  <1>12. PromotedRun'
    BY <1>2, <1>3, <1>9, <1>10, <1>11, SameUp
  <1>13. HandUp'
    <2> SUFFICES ASSUME run.job \in Probed, NEW s \in Active(catalog, run.job)
                 PROVE  Up(s)' \/ (run.phase = "start" /\ s \in run.todo \ B)
      BY <1>2, <1>6 DEF HandUp, Active, NonRemoved
    <2>1. Up(s) \/ (run.phase = "start" /\ s \in run.todo)
      BY <1>3, <1>5 DEF HandUp
    <2> QED BY <1>9, <1>10, <1>11, <2>1
  <1>14. run'.phase # "reconcile"
    BY <1>5, <1>6 DEF Rolling
  <1> QED BY <1>3, <1>6, <1>12, <1>13, <1>14

(* The health check passes, for all it looks at is up, and what follows it leaves
   the job up. *)
LEMMA HealthOrderly ==
    ASSUME TypeInv, OrderlyInv, CheckHealth \/ ChooseUpdates \/ NextAction,
           UNCHANGED orderly, run' # Idle
    PROVE  OrderlyInv'
  <1>1. DeployStep
    BY DEF DeployStep
  <1>2. /\ run'.hits <= faults' /\ catalog' = catalog /\ hash' = hash
        /\ Quiet' => ~run.errors /\ PromotedRun /\ HandUp /\ \A kind : ~Fault(kind)
    BY <1>1, QuietStep
  <1> SUFFICES ASSUME Quiet'
               PROVE  /\ ~run'.errors /\ run'.phase # "reconcile" /\ PromotedRun' /\ HandUp'
    BY <1>2 DEF OrderlyInv
  <1>3. ~run.errors /\ PromotedRun /\ HandUp /\ \A kind : ~Fault(kind)
    BY <1>2
  <1>4. /\ run \in RunType /\ run.phase \in Rolling /\ live' = live
    BY DEF CheckHealth, ChooseUpdates, NextAction, hosts, TypeInv, TypeOK, Rolling
  <1>5. PromotedRun'
    BY <1>2, <1>3, <1>4, SameUp DEF Up
  <1>6. \A j : Active(catalog, j)' = Active(catalog, j)
    BY <1>2 DEF Active, NonRemoved
  <1>7. CASE CheckHealth
    <2>1. Healthy(run.job)
      <3>1. run.phase = "start" => run.todo = {}
        BY <1>7 DEF CheckHealth
      <3> QED BY <1>3, <1>4, <3>1 DEF HandUp, Healthy, Up
    <2>2. run' = [run EXCEPT !.touched = {}]
      BY <1>3, <1>7, <2>1 DEF CheckHealth
    <2>3. /\ run'.phase = run.phase /\ run'.job = run.job /\ run'.todo = run.todo
          /\ run'.errors = run.errors
      BY <1>4, <2>2 DEF RunType
    <2>4. HandUp'
      BY <1>3, <1>4, <1>6, <2>3 DEF HandUp, Up
    <2> QED BY <1>3, <1>4, <1>5, <2>3, <2>4 DEF Rolling
  <1>8. CASE ChooseUpdates \/ NextAction
    <2>1. run.phase = "start" => run.todo = {}
      BY <1>8 DEF ChooseUpdates, NextAction
    <2>2. /\ run'.phase \in {"reload", "restart", "finalize"} /\ run'.job = run.job
          /\ run'.errors = run.errors
      <3>1. \/ \E T, R : run' = [run EXCEPT !.phase = "reload", !.todo = T, !.restart = R]
            \/ run' = [run EXCEPT !.phase = "restart", !.todo = run.restart, !.restart = {}]
            \/ run' = [run EXCEPT !.phase = "finalize"]
        BY <1>8 DEF ChooseUpdates, NextAction
      <3> QED BY <1>4, <3>1 DEF RunType
    <2>3. HandUp'
      BY <1>3, <1>4, <1>6, <2>1, <2>2 DEF HandUp, Up
    <2> QED BY <1>3, <1>5, <2>2, <2>3
  <1> QED BY <1>7, <1>8

(* A deploy in order begins in order. *)
LEMMA StartOrderly ==
    ASSUME TypeInv, DrainStart
    PROVE  OrderlyInv'
  <1>1. PICK o \in Options : StartDeploy(o) /\ orderly' = InOrder
    BY DEF DrainStart
  <1>2. /\ run = Idle /\ UNCHANGED <<catalog, hash, hosts>> /\ faults \in Nat
    BY <1>1 DEF StartDeploy, TypeInv, TypeOK
  <1>3. \/ run' = Idle
        \/ /\ faults' = faults
           /\ run'.phase = "reconcile" /\ run'.todo = Stopped(catalog) /\ run'.hits = faults
           /\ ~run'.errors
    <2>1. Idle \in RunType /\ ~Idle.errors
      BY IdleType DEF Idle
    <2>2. \/ run' = Idle
          \/ /\ faults' = faults
             /\ \E u : run' = [Idle EXCEPT !.phase = "reconcile", !.opts = o, !.hash = hash,
                                         !.todo = Stopped(catalog), !.hits = faults, !.up = u]
      BY <1>1, <1>2 DEF StartDeploy, Faultless
    <2> QED BY <2>1, <2>2 DEF RunType
  <1>4. CASE run' = Idle
    BY <1>4 DEF OrderlyInv, Quiet
  <1>5. CASE run' # Idle
    <2>1. /\ WereRunning' = WereRunning /\ Stopped(catalog)' = Stopped(catalog)
          /\ \A j : Active(catalog, j)' = Active(catalog, j)
          /\ \A s : (Up(s)' <=> Up(s)) /\ (RunnerMayWork(s)' <=> RunnerMayWork(s))
      BY <1>2 DEF WereRunning, Stopped, Active, NonRemoved, Up, RunnerMayWork, RunnerActs, hosts
    <2>2. InOrder => StopsLeftRun'
      BY <1>2, <1>3, <1>5, <2>1 DEF InOrder, StopsRun, WereRunning, StopsLeftRun, AssumeDead
    <2>3. InOrder => LosersUp' /\ PromotedRun'
      BY <1>2, <2>1 DEF InOrder, LosersUp, PromotedRun
    <2>4. HandUp' /\ run'.hits <= faults'
      BY <1>2, <1>3, <1>5 DEF HandUp, Rolling
    <2> QED BY <1>1, <1>3, <1>5, <2>2, <2>3, <2>4 DEF OrderlyInv, Quiet
  <1> QED BY <1>4, <1>5

(* OrderlyInv is inductive relative to RolloutInv. *)
LEMMA NextOrderly ==
    ASSUME RolloutInv, OrderlyInv, [DrainNext]_drainVars
    PROVE  OrderlyInv'
  <1>1. TypeInv /\ BlastInv
    BY DEF RolloutInv, LedgerInv
  <1>2. CASE run' = Idle
    BY <1>2 DEF OrderlyInv, Quiet
  <1>3. CASE DrainStart
    BY <1>1, <1>3, StartOrderly
  <1>4. CASE run' # Idle /\ UNCHANGED orderly /\ DeployStep
    <2>1. CASE \E s \in Slots : ReconcileStop(s) \/ ReconcileSkip(s)
      BY <1>1, <1>4, <2>1, ReconcileOrderly
    <2>2. CASE FinishReconcile \/ PlanWave \/ NextWave \/ FinalizeJob \/ FinalSync
      BY <1>1, <1>4, <2>2, PassOrderly
    <2>3. CASE \E j \in Jobs : SyncJob(j)
      BY <1>4, <2>3, SyncOrderly
    <2>4. CASE RunBatch
      BY <1>1, <1>4, <2>4, BatchOrderly
    <2>5. CASE CheckHealth \/ ChooseUpdates \/ NextAction
      BY <1>1, <1>4, <2>5, HealthOrderly
    <2>6. CASE Commit
      BY <1>4, <2>6 DEF Commit
    <2> QED BY <1>4, <2>1, <2>2, <2>3, <2>4, <2>5, <2>6 DEF DeployStep
  <1>5. CASE UNCHANGED drainVars
    <2>1. UNCHANGED <<catalog, hash, hosts, run, faults, orderly>>
      BY <1>5 DEF drainVars, vars, db, bounds
    <2>2. /\ WereRunning' = WereRunning /\ \A j : Active(catalog, j)' = Active(catalog, j)
          /\ \A s : (Up(s)' <=> Up(s)) /\ (RunnerMayWork(s)' <=> RunnerMayWork(s))
      BY <2>1 DEF WereRunning, Stopped, Active, NonRemoved, Up, RunnerMayWork, RunnerActs, hosts
    <2>3. (StopsLeftRun => StopsLeftRun') /\ (LosersUp => LosersUp')
      BY <2>1, <2>2 DEF StopsLeftRun, AssumeDead, LosersUp
    <2>4. (PromotedRun => PromotedRun') /\ (HandUp => HandUp')
      BY <2>1, <2>2 DEF PromotedRun, HandUp, Rolling
    <2> QED BY <2>1, <2>3, <2>4 DEF OrderlyInv, Quiet
  <1>6. DrainBuild \/ DrainGC \/ (UNCHANGED orderly /\ Crash) => run' = Idle
    BY DEF DrainBuild, DrainGC, Build, GC, Crash, Abort
  <1>7. DrainReconcile \/ DrainBatch \/ DrainCommit => UNCHANGED orderly /\ DeployStep
    BY DEF DrainReconcile, DrainBatch, DrainCommit, DeployStep
  <1>8. DrainOther => UNCHANGED orderly /\ (DeployStep \/ Crash)
    BY DEF DrainOther, DeployStep
  <1> QED BY <1>2, <1>3, <1>4, <1>5, <1>6, <1>7, <1>8 DEF DrainNext

(* How a deploy ends without a fault: by its commit, if all stops could be run and
   all that a health check looks at was up. *)
LEMMA OrderlyEnd ==
    ASSUME RolloutInv, AstrayInv, OrderlyInv, [DrainNext]_drainVars
    PROVE  OrderlySucceeds
  <1> SUFFICES ASSUME run # Idle, run' = Idle, faults' = run.hits, orderly, ~run.opts.syncOnly
               PROVE  result' = "ok"
    BY DEF OrderlySucceeds
  <1>1. TypeInv /\ faults \in Nat /\ run.hits \in Nat /\ run.hits <= faults
    BY DEF RolloutInv, LedgerInv, TypeInv, TypeOK, RunType, OrderlyInv
  <1>2. \A kind : ~Fault(kind)
    BY <1>1 DEF Fault
  <1>3. [Next]_vars /\ run' # run
    BY DrainIsDeploy
  <1>4. DeployStep
    BY <1>2, <1>3 DEF Next, Build, GC, StartDeploy, Crash, vars
  <1>5. Quiet => ~run.errors /\ (run.phase = "reconcile" => StopsLeftRun /\ LosersUp)
    BY DEF OrderlyInv
  <1>6. ASSUME Faultless PROVE Quiet
    BY <1>6 DEF Faultless, Quiet
  <1>7. CASE Commit
    <2>1. Quiet
      BY <1>7 DEF Commit, Quiet
    <2> QED BY <1>5, <1>7, <2>1 DEF Commit
  <1>8. ASSUME NEW s \in Slots, ReconcileStop(s) \/ ReconcileSkip(s) PROVE FALSE
    <2>1. run.phase = "reconcile" /\ s \in run.todo /\ run \in RunType
      BY <1>1, <1>8 DEF ReconcileStop, ReconcileSkip, TypeInv, TypeOK
    <2>2. run' # Reconciled(s)
      <3>1. Reconciled(s).phase = "reconcile"
        BY <2>1 DEF Reconciled, RunType
      <3> QED BY <3>1, IdleLocals
    <2>3. ~AssumeDead(catalog, s) /\ ~RunnerMayWork(s) /\ Faultless /\ run.hash.prev[s] # None
      BY <1>2, <1>8, <2>2 DEF ReconcileStop, ReconcileSkip
    <2>4. hash.prev[s] # None
      BY <2>1, <2>3 DEF AstrayInv, VisitInv
    <2> QED BY <1>5, <1>6, <2>1, <2>3, <2>4 DEF StopsLeftRun
  <1>9. CASE FinishReconcile
    <2>1. run.phase = "reconcile" /\ run \in RunType
      BY <1>1, <1>9 DEF FinishReconcile, TypeInv, TypeOK
    <2>2. run' # [run EXCEPT !.phase = "plan"]
      <3>1. [run EXCEPT !.phase = "plan"].phase = "plan"
        BY <2>1 DEF RunType
      <3> QED BY <3>1, IdleLocals
    <2>3. Faultless /\ \E s \in WereRunning : ~Healthy(JobOf(s))
      BY <1>2, <1>9, <2>2 DEF FinishReconcile
    <2> QED BY <1>5, <1>6, <2>1, <2>3 DEF LosersUp, Healthy, Up
  <1>10. ASSUME NEW j \in Jobs, SyncJob(j) PROVE FALSE
    <2>1. Taken(j)
      BY <1>1, <1>2, <1>10, TakenTo
    <2> QED BY <2>1, IdleLocals DEF Taken
  <1>11. ASSUME PlanWave \/ NextWave \/ RunBatch \/ CheckHealth \/ ChooseUpdates \/ NextAction
                \/ FinalizeJob \/ FinalSync
         PROVE  FALSE
    <2>1. PlanWave => run'.phase # "idle"
      BY <1>1, PlanWaveKind DEF Stages, Carries
    <2>2. NextWave \/ FinalSync => run'.phase # "idle"
      BY <1>1, NextWaveKind, FinalSyncKind DEF Advances, Passes, Carries
    <2>3. RunBatch \/ CheckHealth \/ ChooseUpdates \/ NextAction \/ FinalizeJob
              => run'.phase # "idle"
      BY <1>1, RolloutKind, FinalizeJobKind DEF Moves, Promotes, Carries
    <2> QED BY <1>11, <2>1, <2>2, <2>3, IdleLocals
  <1> QED BY <1>4, <1>7, <1>8, <1>9, <1>10, <1>11 DEF DeployStep

(* Execute reports success if no fault hits it and it started with every stop able
   to run, every job that loses an allocation up, and what was promoted up: whatever
   the earlier deploys left half done, on the workers and in the tables, for every
   workspace, flag but --sync-only, policy and batch size. *)
THEOREM OrderlyDeploysSucceed == DrainSpec => OrderlyDeploySucceeds
  <1>1. DrainInit => RolloutInv /\ AstrayInv /\ OrderlyInv
    BY DrainIsDeploy, InitRollout, InitAstray DEF DrainInit, Init, OrderlyInv, Quiet
  <1>2. RolloutInv /\ AstrayInv /\ OrderlyInv /\ [DrainNext]_drainVars
            => RolloutInv' /\ AstrayInv' /\ OrderlyInv'
    BY DrainIsDeploy, NextRollout, NextAstray, NextOrderly
  <1>3. RolloutInv /\ AstrayInv /\ OrderlyInv /\ [DrainNext]_drainVars
            => [OrderlySucceeds]_drainVars
    BY OrderlyEnd
  <1> QED BY <1>1, <1>2, <1>3, PTL DEF DrainSpec, OrderlyDeploySucceeds

-----------------------------------------------------------------------------
(* A success that is one: whatever failed before, each active allocation runs    *)
(* the tree of the catalog.  The table cannot tell a release from the same one   *)
(* built again later, nor an allocation an outage took down in a forced rollout  *)
(* from one that is up: hence the order of releases.                             *)

Outages == "outage" \in FaultKinds

Released(ws, j) == <<ws.content[j], ws.version[j]>>

(* Every build is deployed before the next one, by deploys of every job that roll
   out; no release of a job comes back after another one; make start replaces what
   runs; and where a failing command may leave a process down, updates restart it
   and only what changed is updated. *)
ReleaseOrder ==
    /\ \A o \in Options : o.jobs = Jobs /\ ~o.syncOnly
    /\ MaxEdits = 1
    /\ StartKeeps = {}
    /\ Outages => /\ \A o \in Options : ~o.force
                  /\ \A j \in Jobs : Policy[j] # "reload"
    /\ \A j \in Jobs : \A m \in 1..Len(Edits) : \A l \in 1..(m - 1) : \A k \in 1..(l - 1) :
          \A us \in Edits[m], vs \in Edits[l], ws \in Edits[k] :
             Released(ws, j) = Released(us, j) => Released(vs, j) = Released(us, j)

(* Table h says that s is promoted as the catalog has it. *)
Current(cat, h, s) == h.prev[s] = cat.content[JobOf(s)] /\ h.ver[s] = cat.version[s]

AsCatalog(s) == live[s] = catalog.content[JobOf(s)]

(* Active, and of a job that is restarted when it changes. *)
Renewed(cat, s) == s \in Active(cat, JobOf(s)) /\ Policy[JobOf(s)] # "never"

(* The table is right about what runs, committed and for the jobs of this deploy. *)
TableRuns ==
    \A s \in Slots : Renewed(catalog, s) =>
        /\ Current(catalog, hash, s) => AsCatalog(s)
        /\ JobOf(s) \in run.deployed => AsCatalog(s)

(* A rollout has still to reach s. *)
Waits(s) ==
    \/ run.phase = "start" /\ (s \in run.todo \/ (run.hash.prev[s] # None
                                                  /\ ~Current(catalog, run.hash, s)))
    \/ run.phase = "reload" /\ s \in run.todo \cup run.restart
    \/ run.phase = "restart" /\ s \in run.todo

HandRuns ==
    /\ run.phase \in Rolling =>
          \A s \in NonRemoved(catalog, run.job) : tree[s] = catalog.content[run.job]
    /\ run.phase \in InHand =>
          \A s \in Slots : Renewed(catalog, s) /\ JobOf(s) = run.job => AsCatalog(s) \/ Waits(s)
    /\ run.phase = "reload" /\ run.todo # {} => Policy[run.job] = "reload"
    /\ Outages /\ run.phase \in Rolling =>
          \A s \in run.todo \cup run.restart : ~Current(catalog, run.hash, s)

(* Without outages, what was promoted and is active is up: make reload replaces a
   process and starts none. *)
PromotedUp ==
    ~Outages =>
        /\ \A s \in Slots : s \in Active(catalog, JobOf(s)) =>
              (hash.prev[s] # None => Up(s)) /\ (JobOf(s) \in run.deployed => Up(s))
        /\ run.phase \in InHand =>
              \A s \in Active(catalog, run.job) : Up(s) \/ (run.phase = "start" /\ s \in run.todo)

Ordered ==
    /\ edits = 0 => \A s \in catalog.removed : hash.prev[s] = None
    /\ run.phase # "idle" => ~run.opts.syncOnly /\ (Outages => ~run.opts.force)

(* The table has s promoted as workspace ws has it. *)
Recorded(h, ws, s) == h.prev[s] = ws.content[JobOf(s)] /\ h.ver[s] = ws.version[JobOf(s)]

(* What was promoted was promoted by a deploy of some build, the last or one
   before. *)
History ==
    /\ builds = 0 => catalog.rows = {}
    /\ builds > 0 => builds \in 1..Len(Edits) /\ \E ws \in Edits[builds] :
          /\ catalog.content = ws.content
          /\ \A s \in catalog.rows \ catalog.removed : catalog.version[s] = ws.version[JobOf(s)]
          /\ \A s \in Slots : hash.prev[s] # None =>
                \/ Recorded(hash, ws, s)
                \/ \E k \in 1..(builds - 1) : \E vs \in Edits[k] : Recorded(hash, vs, s)

ReleaseInv == TableRuns /\ HandRuns /\ PromotedUp /\ Ordered /\ History

(* The empty bucket. *)
LEMMA InitRelease == Init => ReleaseInv
  <1> SUFFICES ASSUME Init PROVE ReleaseInv
    OBVIOUS
  <1>1. /\ run.phase = "idle" /\ run.deployed = {} /\ catalog = EmptyCatalog /\ hash = EmptyHash
        /\ builds = 0
    BY IdleLocals, IdleFields DEF Init
  <1>2. catalog.rows = {} /\ catalog.removed = {} /\ \A j : Active(catalog, j) = {}
    BY <1>1 DEF EmptyCatalog, Active, NonRemoved
  <1>3. TableRuns /\ PromotedUp /\ Ordered
    BY <1>1, <1>2 DEF TableRuns, Renewed, PromotedUp, Ordered, InHand, Rolling
  <1>4. HandRuns
    BY <1>1 DEF HandRuns, InHand, Rolling
  <1>5. History
    BY <1>1, <1>2 DEF History
  <1> QED BY <1>3, <1>4, <1>5 DEF ReleaseInv

(* An allocation that is active, or not removed, is one of the catalog's. *)
LEMMA RowFacts ==
    ASSUME NEW cat \in CatalogType
    PROVE  /\ \A s \in Slots : s \in Active(cat, JobOf(s))
                 <=> s \in cat.rows /\ s \notin cat.removed /\ s \notin cat.disabled
           /\ \A j : \A s \in Slots : s \in NonRemoved(cat, j)
                 <=> s \in cat.rows /\ s \notin cat.removed /\ JobOf(s) = j
           /\ \A j : NonRemoved(cat, j) \subseteq Slots /\ Active(cat, j) \subseteq NonRemoved(cat, j)
           /\ \A j : \A s \in NonRemoved(cat, j) : JobOf(s) = j
           /\ \A j : \A s \in Slots : s \in Active(cat, j) <=> JobOf(s) = j /\ s \in Active(cat, JobOf(s))
           /\ \A s \in Slots : JobOf(s) \in Jobs
  BY DEF Active, NonRemoved, CatalogType, Slots, JobOf

(* A build: a release that was current before is current after it only if it did
   not change, and what is newly active counts as never promoted. *)
LEMMA BuildKnows ==
    ASSUME ReleaseOrder, LedgerInv, Ordered, History, Build
    PROVE  /\ History'
           /\ \A s \in Slots : s \in Active(catalog, JobOf(s))' /\ hash'.prev[s] # None =>
                 /\ s \in Active(catalog, JobOf(s)) /\ hash'.prev[s] = hash.prev[s]
                 /\ Current(catalog', hash', s) =>
                       /\ Current(catalog, hash, s)
                       /\ catalog'.content[JobOf(s)] = catalog.content[JobOf(s)]
  <1>1. /\ builds \in Nat /\ builds' = builds + 1 /\ builds + 1 \in 1..Len(Edits) /\ edits = 0
        /\ catalog \in CatalogType /\ hash \in HashType
    BY DEF Build, ReleaseOrder, LedgerInv, TypeInv, TypeOK
  <1>2. PICK us \in Edits[builds + 1] :
            /\ catalog' = BuildCatalog(catalog, us)
            /\ hash' = MarkStartPending(hash, Reenabled(catalog, BuildCatalog(catalog, us)))
    BY DEF Build
  <1>3. catalog' \in CatalogType
    BY BuildType DEF LedgerInv, TypeInv, TypeOK
  <1> DEFINE R == Reenabled(catalog, catalog')
  <1>4. \A s \in Slots : /\ hash'.prev[s] = IF s \in R THEN None ELSE hash.prev[s]
                         /\ hash'.ver[s] = hash.ver[s]
    BY <1>1, <1>2 DEF MarkStartPending, HashType
  <1>5. \A s \in Slots : s \in R <=> /\ s \in catalog.rows \cap catalog.disabled
                                     /\ s \notin catalog.removed
                                     /\ s \in catalog'.rows /\ s \notin catalog'.disabled
                                     /\ s \notin catalog'.removed
    BY DEF Reenabled
  <1> HIDE DEF R
  <1>6. /\ catalog'.content = us.content
        /\ \A s \in catalog'.rows \ catalog'.removed : catalog'.version[s] = us.version[JobOf(s)]
    <2>1. catalog'.rows \subseteq Slots
      BY <1>3 DEF CatalogType
    <2> QED BY <1>2, <2>1 DEF BuildCatalog
  <1>7. \A s \in Slots : hash'.prev[s] # None =>
            hash'.prev[s] = hash.prev[s] /\ hash.prev[s] # None /\ s \in catalog.rows
            /\ s \notin catalog.removed
    <2>1. \A s \in catalog.removed : hash.prev[s] = None
      BY <1>1 DEF Ordered
    <2> QED BY <1>4, <2>1 DEF LedgerInv, TrackInv, Tracked
  <1>8. CASE builds = 0
    <2>1. \A s \in Slots : hash'.prev[s] = None
      BY <1>7, <1>8 DEF History
    <2>2. History'
      BY <1>1, <1>2, <1>6, <2>1 DEF History
    <2> QED BY <2>1, <2>2
  <1>9. CASE builds > 0
    <2>1. PICK vs \in Edits[builds] :
            /\ catalog.content = vs.content
            /\ \A s \in catalog.rows \ catalog.removed : catalog.version[s] = vs.version[JobOf(s)]
            /\ \A s \in Slots : hash.prev[s] # None =>
                  \/ Recorded(hash, vs, s)
                  \/ \E k \in 1..(builds - 1) : \E ws \in Edits[k] : Recorded(hash, ws, s)
      BY <1>9 DEF History
    <2>2. \A s \in Slots : hash'.prev[s] # None =>
              \E k \in 1..(builds' - 1) : \E ws \in Edits[k] : Recorded(hash', ws, s)
      <3> SUFFICES ASSUME NEW s \in Slots, hash'.prev[s] # None
                   PROVE  \E k \in 1..builds : \E ws \in Edits[k] : Recorded(hash', ws, s)
        BY <1>1
      <3>1. \A ws : Recorded(hash, ws, s) => Recorded(hash', ws, s)
        BY <1>4, <1>7 DEF Recorded
      <3>2. CASE Recorded(hash, vs, s)
        BY <1>1, <1>9, <2>1, <3>1, <3>2
      <3>3. CASE \E k \in 1..(builds - 1) : \E ws \in Edits[k] : Recorded(hash, ws, s)
        BY <1>1, <1>9, <3>1, <3>3
      <3> QED BY <1>7, <2>1, <3>2, <3>3
    <2>3. History'
      BY <1>1, <1>2, <1>6, <2>2 DEF History
    <2>4. ASSUME NEW s \in Slots, s \in Active(catalog, JobOf(s))', hash'.prev[s] # None
          PROVE  s \in Active(catalog, JobOf(s))
      <3>1. s \in catalog'.rows /\ s \notin catalog'.removed /\ s \notin catalog'.disabled
        BY <2>4 DEF Active, NonRemoved
      <3>2. s \in catalog.rows /\ s \notin catalog.removed /\ s \notin R
        BY <1>4, <1>7, <2>4
      <3>3. s \notin catalog.disabled
        BY <1>5, <3>1, <3>2
      <3> QED BY <1>1, <3>2, <3>3, RowFacts
    <2>5. ASSUME NEW s \in Slots, s \in Active(catalog, JobOf(s))', hash'.prev[s] # None,
                 Current(catalog', hash', s)
          PROVE  /\ Current(catalog, hash, s)
                 /\ catalog'.content[JobOf(s)] = catalog.content[JobOf(s)]
      <3> DEFINE j == JobOf(s)
      <3>1. j \in Jobs
        BY DEF Slots, JobOf
      <3>2. s \in catalog'.rows \ catalog'.removed
        BY <2>5 DEF Active, NonRemoved
      <3>3. hash.prev[s] = us.content[j] /\ hash.ver[s] = us.version[j] /\ hash.prev[s] # None
        BY <1>4, <1>6, <1>7, <2>5, <3>2 DEF Current
      <3>4. Released(vs, j) = Released(us, j)
        <4>1. CASE Recorded(hash, vs, s)
          BY <3>3, <4>1 DEF Recorded, Released
        <4>2. CASE \E k \in 1..(builds - 1) : \E ws \in Edits[k] : Recorded(hash, ws, s)
          <5>1. PICK k \in 1..(builds - 1) : \E ws \in Edits[k] : Recorded(hash, ws, s)
            BY <4>2
          <5>2. PICK ws \in Edits[k] : Recorded(hash, ws, s)
            BY <5>1
          <5>3. Released(ws, j) = Released(us, j)
            BY <3>3, <5>2 DEF Recorded, Released
          <5>4. builds \in 1..((builds + 1) - 1)
            BY <1>1, <1>9
          <5> QED BY <1>1, <3>1, <5>3, <5>4 DEF ReleaseOrder
        <4> QED BY <2>1, <3>3, <4>1, <4>2
      <3>5. us.content[j] = vs.content[j] /\ us.version[j] = vs.version[j]
        BY <3>4 DEF Released
      <3>6. s \in catalog.rows \ catalog.removed
        BY <1>7, <2>5
      <3> QED BY <1>6, <2>1, <3>3, <3>5, <3>6 DEF Current
    <2> QED BY <1>7, <2>3, <2>4, <2>5
  <1> QED BY <1>1, <1>8, <1>9

(* A build takes no process and no promotion that stands. *)
LEMMA BuildRelease ==
    ASSUME ReleaseOrder, LedgerInv, ReleaseInv, Build
    PROVE  ReleaseInv'
  <1>1. /\ run = Idle /\ run' = Idle /\ UNCHANGED live /\ edits' = edits + 1 /\ edits \in Nat
        /\ catalog' \in CatalogType
    BY BuildType DEF Build, hosts, LedgerInv, TypeInv, TypeOK
  <1>2. run'.phase = "idle" /\ run'.deployed = {} /\ run.deployed = {}
    BY <1>1, IdleLocals, IdleFields
  <1>3. /\ History'
        /\ \A s \in Slots : s \in Active(catalog, JobOf(s))' /\ hash'.prev[s] # None =>
              /\ s \in Active(catalog, JobOf(s)) /\ hash'.prev[s] = hash.prev[s]
              /\ Current(catalog', hash', s) =>
                    /\ Current(catalog, hash, s)
                    /\ catalog'.content[JobOf(s)] = catalog.content[JobOf(s)]
    BY BuildKnows DEF ReleaseInv
  <1>4. TableRuns'
    <2> SUFFICES ASSUME NEW s \in Slots, Renewed(catalog', s), Current(catalog', hash', s)
                 PROVE  live[s] = catalog'.content[JobOf(s)]
      BY <1>1, <1>2 DEF TableRuns, AsCatalog
    <2>1. s \in Active(catalog, JobOf(s))' /\ Policy[JobOf(s)] # "never"
      BY DEF Renewed
    <2>2. hash'.prev[s] # None
      <3>1. s \in catalog'.rows \ catalog'.removed
        BY <2>1 DEF Active, NonRemoved
      <3>2. CatalogSound'
        BY BuildType DEF LedgerInv, TypeInv
      <3> QED BY <3>1, <3>2 DEF Current, CatalogSound
    <2>3. /\ Renewed(catalog, s) /\ Current(catalog, hash, s)
          /\ catalog'.content[JobOf(s)] = catalog.content[JobOf(s)]
      BY <1>3, <2>1, <2>2 DEF Renewed
    <2> QED BY <2>3 DEF ReleaseInv, TableRuns, AsCatalog
  <1>5. PromotedUp'
    BY <1>1, <1>2, <1>3 DEF ReleaseInv, PromotedUp, Up, InHand, Rolling
  <1>6. Ordered' /\ HandRuns'
    BY <1>1, <1>2 DEF Ordered, HandRuns, InHand, Rolling
  <1> QED BY <1>3, <1>4, <1>5, <1>6 DEF ReleaseInv

(* A collection deletes rows and hashes of what is not active. *)
LEMMA GCRelease ==
    ASSUME LedgerInv, ReleaseInv, GC
    PROVE  ReleaseInv'
  <1>1. /\ run = Idle /\ run' = Idle /\ UNCHANGED <<live, builds, edits>>
        /\ catalog \in CatalogType /\ hash \in HashType
        /\ catalog.removed \subseteq catalog.rows
    BY DEF GC, LedgerInv, TypeInv, TypeOK, CatalogSound
  <1>2. run'.phase = "idle" /\ run'.deployed = {} /\ run.deployed = {}
    BY <1>1, IdleLocals, IdleFields
  <1>3. \/ UNCHANGED <<catalog, hash>>
        \/ catalog' = PurgeRemoved(catalog) /\ hash' = RemoveHash(hash, catalog.removed)
    BY DEF GC
  <1>4. /\ catalog'.content = catalog.content /\ catalog'.rows \subseteq catalog.rows
        /\ catalog'.removed \subseteq catalog.removed
        /\ catalog'.rows \ catalog'.removed = catalog.rows \ catalog.removed
        /\ \A s \in Slots \ catalog.removed : catalog'.version[s] = catalog.version[s]
        /\ \A s \in Slots : s \in Active(catalog', JobOf(s)) => s \in Active(catalog, JobOf(s))
    <2>1. CASE UNCHANGED <<catalog, hash>>
      BY <1>1, <2>1
    <2>2. CASE catalog' = PurgeRemoved(catalog)
      <3>1. /\ catalog'.content = catalog.content
            /\ catalog'.rows = catalog.rows \ catalog.removed
            /\ catalog'.disabled = catalog.disabled \ catalog.removed
            /\ catalog'.removed = {}
            /\ \A s \in Slots \ catalog.removed : catalog'.version[s] = catalog.version[s]
        BY <1>1, <2>2 DEF PurgeRemoved, CatalogType
      <3>2. \A s \in Slots : s \in Active(catalog', JobOf(s)) => s \in Active(catalog, JobOf(s))
        BY <3>1 DEF Active, NonRemoved
      <3> QED BY <3>1, <3>2
    <2> QED BY <1>3, <2>1, <2>2
  <1>5. \A s \in Slots : /\ s \notin catalog.removed => hash'.prev[s] = hash.prev[s]
                                                        /\ hash'.ver[s] = hash.ver[s]
                         /\ hash'.prev[s] # None => hash'.prev[s] = hash.prev[s]
                                                    /\ hash'.ver[s] = hash.ver[s]
    <2>1. CASE UNCHANGED <<catalog, hash>>
      BY <2>1
    <2>2. CASE hash' = RemoveHash(hash, catalog.removed)
      BY <1>1, <2>2, RemoveEffect
    <2> QED BY <1>3, <2>1, <2>2
  <1>6. \A s \in Slots : s \in Active(catalog, JobOf(s)) => s \notin catalog.removed
    BY DEF Active, NonRemoved
  <1>7. TableRuns'
    <2> SUFFICES ASSUME NEW s \in Slots, Renewed(catalog', s), Current(catalog', hash', s)
                 PROVE  live'[s] = catalog'.content[JobOf(s)]
      BY <1>2 DEF TableRuns, AsCatalog
    <2>1. Renewed(catalog, s) /\ s \notin catalog.removed
      BY <1>4, <1>6 DEF Renewed
    <2>2. Current(catalog, hash, s)
      BY <1>4, <1>5, <2>1 DEF Current
    <2> QED BY <1>1, <1>4, <2>1, <2>2 DEF ReleaseInv, TableRuns, AsCatalog
  <1>8. PromotedUp'
    BY <1>1, <1>2, <1>4, <1>5 DEF ReleaseInv, PromotedUp, Up, InHand, Rolling
  <1>9. Ordered' /\ HandRuns'
    <2>1. \A s \in catalog'.removed : s \in Slots /\ s \in catalog.removed
      BY <1>1, <1>4 DEF CatalogType
    <2>2. Ordered'
      BY <1>1, <1>2, <1>5, <2>1 DEF ReleaseInv, Ordered
    <2> QED BY <1>2, <2>2 DEF HandRuns, InHand, Rolling
  <1>10. History'
    <2>1. catalog.rows \ catalog.removed \subseteq Slots
      BY <1>1 DEF CatalogType
    <2>2. CASE builds = 0
      BY <1>1, <1>4, <2>2 DEF ReleaseInv, History
    <2>3. CASE builds > 0
      <3>1. builds \in 1..Len(Edits)
        BY <2>3 DEF ReleaseInv, History
      <3>2. PICK ws \in Edits[builds] :
              /\ catalog.content = ws.content
              /\ \A s \in catalog.rows \ catalog.removed : catalog.version[s] = ws.version[JobOf(s)]
              /\ \A s \in Slots : hash.prev[s] # None =>
                    \/ Recorded(hash, ws, s)
                    \/ \E k \in 1..(builds - 1) : \E vs \in Edits[k] : Recorded(hash, vs, s)
        BY <2>3 DEF ReleaseInv, History
      <3>3. \A s \in Slots : hash'.prev[s] # None =>
                \A vs : Recorded(hash, vs, s) => Recorded(hash', vs, s)
        BY <1>5 DEF Recorded
      <3>4. \A s \in Slots : hash'.prev[s] # None =>
                \/ Recorded(hash', ws, s)
                \/ \E k \in 1..(builds - 1) : \E vs \in Edits[k] : Recorded(hash', vs, s)
        <4> SUFFICES ASSUME NEW s \in Slots, hash'.prev[s] # None
                     PROVE  \/ Recorded(hash', ws, s)
                            \/ \E k \in 1..(builds - 1) : \E vs \in Edits[k] : Recorded(hash', vs, s)
          OBVIOUS
        <4>1. \A vs : Recorded(hash, vs, s) => Recorded(hash', vs, s)
          BY <3>3
        <4>2. hash.prev[s] # None
          BY <1>5
        <4> QED BY <3>2, <4>1, <4>2
      <3>5. \A s \in catalog'.rows \ catalog'.removed : catalog'.version[s] = ws.version[JobOf(s)]
        BY <1>4, <2>1, <3>2
      <3> QED BY <1>1, <1>4, <2>3, <3>1, <3>2, <3>4, <3>5 DEF History
    <2>4. builds = 0 \/ builds > 0
      BY DEF LedgerInv, TypeInv, TypeOK
    <2> QED BY <2>2, <2>3, <2>4
  <1> QED BY <1>7, <1>8, <1>9, <1>10 DEF ReleaseInv

(* As long as the tables stay and nothing active changes its process, what the
   table says of the processes stays true. *)
LEMMA TablesKept ==
    ASSUME UNCHANGED <<catalog, hash, builds, edits>>, run'.deployed \subseteq run.deployed,
           \A s \in Slots : s \in Active(catalog, JobOf(s)) => live'[s] = live[s]
    PROVE  /\ TableRuns => TableRuns'
           /\ History => History'
           /\ ~Outages /\ PromotedUp => \A s \in Slots : s \in Active(catalog, JobOf(s)) =>
                    (hash'.prev[s] # None => Up(s)') /\ (JobOf(s) \in run'.deployed => Up(s)')
  <1>1. \A j : Active(catalog, j)' = Active(catalog, j)
    BY DEF Active, NonRemoved
  <1>2. TableRuns => TableRuns'
    BY <1>1 DEF TableRuns, Renewed, Current, AsCatalog
  <1>3. History => History'
    BY DEF History, Recorded
  <1>4. ~Outages /\ PromotedUp => \A s \in Slots : s \in Active(catalog, JobOf(s)) =>
                    (hash'.prev[s] # None => Up(s)') /\ (JobOf(s) \in run'.deployed => Up(s)')
    BY <1>1 DEF PromotedUp, Up
  <1> QED BY <1>2, <1>3, <1>4

(* A step that leaves no job in hand. *)
LEMMA OutOfHand ==
    ASSUME ReleaseInv, UNCHANGED <<catalog, hash, builds, edits>>,
           run'.deployed \subseteq run.deployed, run'.phase \notin InHand,
           run'.phase # "idle" => ~run'.opts.syncOnly /\ (Outages => ~run'.opts.force),
           \A s \in Slots : s \in Active(catalog, JobOf(s)) => live'[s] = live[s]
    PROVE  ReleaseInv'
  <1>1. TableRuns' /\ History'
    BY TablesKept DEF ReleaseInv
  <1>2. \A j : Active(catalog, j)' = Active(catalog, j)
    BY DEF Active, NonRemoved
  <1>3. PromotedUp'
    BY <1>2, TablesKept DEF ReleaseInv, PromotedUp
  <1>4. Ordered' /\ HandRuns'
    BY DEF ReleaseInv, Ordered, HandRuns, InHand, Rolling
  <1> QED BY <1>1, <1>3, <1>4 DEF ReleaseInv

(* The end of a deploy that does not commit. *)
LEMMA AbortRelease ==
    ASSUME ReleaseInv, Abort,
           \A s \in Slots : s \in Active(catalog, JobOf(s)) => live'[s] = live[s]
    PROVE  ReleaseInv'
  <1>1. run'.phase = "idle" /\ run'.deployed = {} /\ UNCHANGED <<catalog, hash, builds, edits>>
    BY IdleLocals, IdleFields DEF Abort, db
  <1> QED BY <1>1, OutOfHand DEF InHand, Rolling

(* A deploy starts, or its prerequisites fail. *)
LEMMA StartRelease ==
    ASSUME ReleaseOrder, ReleaseInv, NEW o \in Options, StartDeploy(o)
    PROVE  ReleaseInv'
  <1>1. run = Idle /\ UNCHANGED <<catalog, hash, live, builds, edits>>
    BY DEF StartDeploy, hosts
  <1>2. run'.phase \in {"idle", "reconcile"} /\ run'.deployed = {}
        /\ (run'.phase # "idle" => run'.opts = o)
    <2>1. CASE UNCHANGED run
      BY <1>1, <2>1, IdleLocals, IdleFields
    <2>2. CASE run' = [Idle EXCEPT !.phase = "reconcile", !.opts = o, !.hash = hash,
                                   !.todo = Stopped(catalog), !.hits = faults,
                                   !.up = {s \in Slots : hash.prev[s] # None
                                                          /\ live[s] # Down}]
      BY <2>2 DEF Idle
    <2> QED BY <2>1, <2>2 DEF StartDeploy
  <1>3. ~o.syncOnly /\ (Outages => ~o.force)
    BY DEF ReleaseOrder
  <1> QED BY <1>1, <1>2, <1>3, OutOfHand DEF InHand, Rolling

(* Stopping an allocation touches no active one. *)
LEMMA ReconcileRelease ==
    ASSUME RolloutInv, ReleaseInv, NEW s \in Slots, ReconcileStop(s) \/ ReconcileSkip(s)
    PROVE  ReleaseInv'
  <1>1. /\ run.phase = "reconcile" /\ s \in run.todo /\ TypeInv
        /\ UNCHANGED <<catalog, hash, builds, edits>> /\ live' \in {live, AfterStop(s)}
    BY DEF RolloutInv, LedgerInv, ReconcileStop, ReconcileSkip, Abort, db, hosts, bounds
  <1>2. live \in [Slots -> Contents \cup {Down}] /\ s \notin Active(catalog, JobOf(s))
    BY <1>1 DEF RolloutInv, BlastInv, Stopped, Active, NonRemoved, TypeInv, TypeOK
  <1>3. \A t \in Slots : t # s => live'[t] = live[t]
    BY <1>1, <1>2 DEF AfterStop
  <1>4. \A t \in Slots : t \in Active(catalog, JobOf(t)) => live'[t] = live[t]
    BY <1>2, <1>3
  <1>5. CASE Abort
    BY <1>4, <1>5, AbortRelease
  <1>6. CASE Visits(s)
    <2>1. /\ run'.deployed = run.deployed /\ run'.phase = "reconcile" /\ run'.opts = run.opts
          /\ run.phase # "idle"
      BY <1>6 DEF Visits, Carries, SameQueue
    <2> QED BY <1>1, <1>4, <2>1, OutOfHand DEF ReleaseInv, Ordered, InHand, Rolling
  <1> QED BY <1>1, <1>5, <1>6, ReconcileKind

(* Before, between and after the rollouts, nothing starts and nothing stops. *)
LEMMA WaveRelease ==
    ASSUME RolloutInv, ReleaseInv, FinishReconcile \/ PlanWave \/ NextWave \/ FinalSync
    PROVE  ReleaseInv'
  <1>1. TypeInv
    BY DEF RolloutInv, LedgerInv
  <1>2. UNCHANGED <<catalog, hash, live, builds, edits>>
    BY DEF FinishReconcile, PlanWave, NextWave, FinalSync, Abort, db, hosts, bounds
  <1>3. CASE Abort
    BY <1>2, <1>3, AbortRelease
  <1>4. CASE Passes \/ Advances \/ \E J \in SUBSET Jobs : Stages(J)
    <2>1. /\ run'.deployed = run.deployed /\ run'.phase \in {"plan", "stage", "final", "commit"}
          /\ run'.opts = run.opts /\ run.phase # "idle"
      BY <1>4 DEF Passes, Advances, Stages, Carries, SameQueue
    <2> QED BY <1>2, <2>1, OutOfHand DEF ReleaseInv, Ordered, InHand, Rolling
  <1> QED BY <1>1, <1>3, <1>4, FinishReconcileKind, PlanWaveKind, NextWaveKind, FinalSyncKind

(* A crash stops nothing. *)
LEMMA CrashRelease ==
    ASSUME ReleaseInv, Crash
    PROVE  ReleaseInv'
  BY AbortRelease DEF Crash, hosts

(* A job is taken in hand: what the table has as the catalog has it runs that
   already, and all the rest waits for the rollout. *)
LEMMA SyncJobRelease ==
    ASSUME ReleaseOrder, RolloutInv, ReleaseInv, NEW j \in Jobs, SyncJob(j)
    PROVE  ReleaseInv'
  <1>1. TypeInv /\ TypeInv' /\ run.phase = "stage" /\ j \in run.staged
    <2>1. Next
      BY DEF Next, DeployStep
    <2> QED BY <2>1, NextType DEF RolloutInv, LedgerInv, SyncJob
  <1>2. CASE Abort
    BY <1>1, <1>2, TakenTo, AbortRelease
  <1>3. CASE ~Abort
    <2>1. live' = live /\ Taken(j) /\ Takes(j)
      BY <1>1, <1>3, TakenTo, SyncJobKind
    <2>2. ~run.opts.syncOnly /\ (Outages => ~run.opts.force)
      BY <1>1 DEF ReleaseInv, Ordered
    <2>3. /\ run'.phase = "start" /\ run'.job = j /\ run'.restart = {}
          /\ run'.todo = NewAllocations(catalog, run'.hash, j)
          /\ run'.deployed = run.deployed /\ run'.opts = run.opts
          /\ run'.hash = UpdateAllocationPlan(catalog, run.hash, {j})
          /\ UNCHANGED <<catalog, hash, live, builds, edits>>
      BY <1>1, <2>1, <2>2 DEF Taken, Takes, Carries, db, TypeInv, RunSound
    <2>4. /\ catalog \in CatalogType /\ run.hash \in HashType /\ {j} \in SUBSET Jobs
          /\ catalog.workers \subseteq Workers
      BY <1>1 DEF TypeInv, TypeOK, RunType, CatalogType
    <2>5. \A i : Active(catalog, i)' = Active(catalog, i) /\ NonRemoved(catalog, i)' = NonRemoved(catalog, i)
      BY <2>3 DEF Active, NonRemoved
    <2>6. /\ \A s \in NonRemoved(catalog, j) : /\ s \in Slots /\ JobOf(s) = j
                                               /\ catalog.content[j] # None
          /\ Active(catalog, j) \subseteq NonRemoved(catalog, j)
      BY <1>1, <2>4, AllocationQueries DEF NonRemoved, TypeInv, CatalogSound
    <2>7. \A s \in NonRemoved(catalog, j) :
              /\ run'.hash.prev[s] = hash.prev[s] /\ run'.hash.ver[s] = hash.ver[s]
              /\ run'.hash.cur[s] = catalog.content[j]
      <3>1. Agree(catalog, run.hash, hash, j)
        BY <1>1 DEF RolloutInv, LedgerInv, RetryInv, OnceInv
      <3>2. Agree(catalog, run'.hash, run.hash, j) /\ PlanIsTree(catalog, run'.hash, j)
        BY <2>3, <2>4, PlanAgrees
      <3> QED BY <3>1, <3>2 DEF Agree, PlanIsTree
    <2>8. \A s \in Active(catalog, j) : hash.prev[s] = None <=> s \in run'.todo
      BY <2>3, <2>6, <2>7 DEF NewAllocations
    <2>9. \A s \in run'.todo : s \in Active(catalog, j)
      BY <2>3 DEF NewAllocations
    <2>10. \A s \in NonRemoved(catalog, j) : tree'[s] = catalog.content[j]
      <3>1. PICK W : Synced({j} \X catalog.workers, W)
        BY <2>1 DEF Taken
      <3> SUFFICES ASSUME NEW s \in NonRemoved(catalog, j) PROVE tree'[s] = catalog.content[j]
        OBVIOUS
      <3>2. s \in {j} \X catalog.workers /\ s \in Slots
        BY <1>1, <2>6, PlacedOnWorkers
      <3> QED BY <2>6, <3>1, <3>2 DEF Synced, SyncedTree
    <2>11. TableRuns' /\ History'
      BY <2>3, TablesKept DEF ReleaseInv
    <2>12. HandRuns'
      <3>1. ASSUME NEW s \in Slots, Renewed(catalog, s), JobOf(s) = j
            PROVE  AsCatalog(s) \/ Waits(s)'
        <4>1. s \in Active(catalog, j)
          BY <3>1 DEF Renewed
        <4>2. CASE hash.prev[s] = None
          BY <2>3, <2>8, <4>1, <4>2 DEF Waits
        <4>3. CASE hash.prev[s] # None /\ Current(catalog, hash, s)
          BY <3>1, <4>3 DEF ReleaseInv, TableRuns
        <4>4. CASE hash.prev[s] # None /\ ~Current(catalog, hash, s)
          <5>1. run'.hash.prev[s] = hash.prev[s] /\ run'.hash.ver[s] = hash.ver[s]
            BY <2>6, <2>7, <4>1
          <5> QED BY <2>3, <4>4, <5>1 DEF Waits, Current
        <4> QED BY <4>2, <4>3, <4>4
      <3>2. \A s \in Slots : Renewed(catalog, s)' /\ JobOf(s) = j => AsCatalog(s)' \/ Waits(s)'
        BY <2>3, <2>5, <3>1 DEF Renewed, AsCatalog
      <3>3. \A s \in run'.todo : ~Current(catalog, run'.hash, s)
        BY <2>6, <2>7, <2>8, <2>9 DEF Current
      <3> QED BY <2>3, <2>5, <2>10, <3>2, <3>3 DEF HandRuns, Rolling, InHand
    <2>13. PromotedUp'
      <3>1. ~Outages => \A s \in Slots : s \in Active(catalog, JobOf(s)) =>
                (hash'.prev[s] # None => Up(s)') /\ (JobOf(s) \in run'.deployed => Up(s)')
        BY <2>3, TablesKept DEF ReleaseInv
      <3>2. ~Outages => \A s \in Active(catalog, j) : Up(s)' \/ s \in run'.todo
        BY <2>3, <2>6, <2>8, <3>1
      <3> QED BY <2>3, <2>5, <3>1, <3>2 DEF PromotedUp
    <2>14. Ordered'
      BY <2>2, <2>3 DEF ReleaseInv, Ordered
    <2> QED BY <2>11, <2>12, <2>13, <2>14 DEF ReleaseInv
  <1> QED BY <1>2, <1>3

(* A command that works leaves the tree of the catalog running. *)
LEMMA EffectIsTree ==
    ASSUME ReleaseOrder, TypeInv, ReleaseInv, run.phase \in Rolling, NEW s \in run.todo
    PROVE  Effect(s) = catalog.content[run.job]
  <1>1. s \in Active(catalog, run.job) /\ s \in NonRemoved(catalog, run.job)
    BY DEF TypeInv, TypeOK, Rolling, Active
  <1>2. s \in Slots /\ JobOf(s) = run.job /\ run.job \in Jobs
    BY <1>1 DEF TypeInv, TypeOK, CatalogType, NonRemoved, Rolling
  <1>3. tree[s] = catalog.content[run.job]
    BY <1>1 DEF ReleaseInv, HandRuns
  <1>4. ~(run.phase = "reload" /\ live[s] = Down)
    <2> SUFFICES ASSUME run.phase = "reload" PROVE Up(s)
      BY DEF Up
    <2>1. Policy[run.job] = "reload"
      BY DEF ReleaseInv, HandRuns
    <2>2. ~Outages
      BY <1>2, <2>1 DEF ReleaseOrder
    <2> QED BY <1>1, <2>2 DEF ReleaseInv, PromotedUp, InHand
  <1>5. JobOf(s) \notin StartKeeps
    BY DEF ReleaseOrder
  <1> QED BY <1>3, <1>4, <1>5 DEF Effect

(* What a batch does to processes and to the rollout. *)
LEMMA BatchOutcome ==
    ASSUME ReleaseOrder, TypeInv, ReleaseInv, RunBatch
    PROVE  \E B \in SUBSET run.todo :
              /\ \A s \in Slots \ B : live'[s] = live[s]
              /\ \/ /\ run' = [run EXCEPT !.todo = @ \ B, !.touched = @ \cup B]
                    /\ \A s \in B : live'[s] = catalog.content[run.job]
                 \/ /\ JobFailed
                    /\ \A s \in B : \/ live'[s] \in {live[s], catalog.content[run.job]}
                                    \/ Outages /\ live'[s] = Down
  <1>1. /\ run.phase \in Rolling /\ live \in [Slots -> Contents \cup {Down}]
        /\ run.todo \subseteq Slots
    BY DEF RunBatch, Rolling, TypeInv, TypeOK, RunType
  <1>2. \A s \in run.todo : Effect(s) = catalog.content[run.job]
    BY <1>1, EffectIsTree
  <1>3. PICK B \in SUBSET run.todo :
          \/ /\ live' = [s \in Slots |-> IF s \in B THEN Effect(s) ELSE live[s]]
             /\ \/ run' = [run EXCEPT !.todo = @ \ B, !.touched = @ \cup B]
                \/ JobFailed
          \/ /\ JobFailed
             /\ \E bad \in (SUBSET B) \ {{}} :
                  \/ live' = [s \in Slots |-> IF s \in B \ bad THEN Effect(s) ELSE live[s]]
                  \/ /\ Outages
                     /\ live' = [s \in Slots |-> IF s \in bad THEN Down
                                                 ELSE IF s \in B THEN Effect(s) ELSE live[s]]
    BY DEF RunBatch, Fault, Outages
  <1>4. \A s \in B : s \in Slots /\ s \in run.todo
    BY <1>1
  <1>5. CASE live' = [s \in Slots |-> IF s \in B THEN Effect(s) ELSE live[s]]
    <2>1. \A s \in Slots \ B : live'[s] = live[s]
      BY <1>5
    <2>2. \A s \in B : live'[s] = catalog.content[run.job]
      BY <1>2, <1>4, <1>5
    <2> QED BY <1>3, <2>1, <2>2
  <1>6. ASSUME JobFailed, NEW bad \in SUBSET B,
               live' = [s \in Slots |-> IF s \in B \ bad THEN Effect(s) ELSE live[s]]
        PROVE  /\ \A s \in Slots \ B : live'[s] = live[s]
               /\ \A s \in B : live'[s] \in {live[s], catalog.content[run.job]}
    BY <1>2, <1>4, <1>6
  <1>7. ASSUME Outages, NEW bad \in SUBSET B,
               live' = [s \in Slots |-> IF s \in bad THEN Down
                                        ELSE IF s \in B THEN Effect(s) ELSE live[s]]
        PROVE  /\ \A s \in Slots \ B : live'[s] = live[s]
               /\ \A s \in B : live'[s] \in {Down, catalog.content[run.job]}
    BY <1>2, <1>4, <1>7
  <1>8. CASE live' # [s \in Slots |-> IF s \in B THEN Effect(s) ELSE live[s]]
    <2>1. JobFailed
      BY <1>3, <1>8
    <2>2. PICK bad \in SUBSET B :
                  \/ live' = [s \in Slots |-> IF s \in B \ bad THEN Effect(s) ELSE live[s]]
                  \/ /\ Outages
                     /\ live' = [s \in Slots |-> IF s \in bad THEN Down
                                                 ELSE IF s \in B THEN Effect(s) ELSE live[s]]
      BY <1>3, <1>8
    <2>3. CASE live' = [s \in Slots |-> IF s \in B \ bad THEN Effect(s) ELSE live[s]]
      BY <1>6, <2>1, <2>3
    <2>4. CASE /\ Outages
               /\ live' = [s \in Slots |-> IF s \in bad THEN Down
                                           ELSE IF s \in B THEN Effect(s) ELSE live[s]]
      <3>1. /\ \A s \in Slots \ B : live'[s] = live[s]
            /\ \A s \in B : live'[s] \in {Down, catalog.content[run.job]}
        BY <1>7, <2>4
      <3>2. \A s \in B : \/ live'[s] \in {live[s], catalog.content[run.job]}
                         \/ Outages /\ live'[s] = Down
        BY <2>4, <3>1
      <3> QED BY <2>1, <3>1, <3>2
    <2> QED BY <2>2, <2>3, <2>4
  <1> QED BY <1>5, <1>8

(* A batch brings its allocations to the tree of the catalog; one that fails ends
   the job, and what it may have taken down is recorded nowhere as current. *)
LEMMA RunBatchRelease ==
    ASSUME ReleaseOrder, RolloutInv, ReleaseInv, RunBatch
    PROVE  ReleaseInv'
  <1>1. /\ TypeInv /\ run \in RunType /\ run.phase \in Rolling /\ run.job \in Jobs \ run.deployed
        /\ UNCHANGED <<catalog, hash, tree, builds, edits>>
        /\ catalog \in CatalogType /\ run.todo \subseteq Active(catalog, run.job)
    BY DEF RolloutInv, LedgerInv, OnceInv, TypeInv, TypeOK, RunBatch, Rolling, InHand, db
  <1>2. PICK B \in SUBSET run.todo :
              /\ \A s \in Slots \ B : live'[s] = live[s]
              /\ \/ /\ run' = [run EXCEPT !.todo = @ \ B, !.touched = @ \cup B]
                    /\ \A s \in B : live'[s] = catalog.content[run.job]
                 \/ /\ JobFailed
                    /\ \A s \in B : \/ live'[s] \in {live[s], catalog.content[run.job]}
                                    \/ Outages /\ live'[s] = Down
    BY <1>1, BatchOutcome
  <1>3. \A s \in B : /\ s \in Slots /\ s \in run.todo /\ JobOf(s) = run.job
                     /\ s \in NonRemoved(catalog, run.job)
                     /\ catalog.content[run.job] \in Contents
    BY <1>1 DEF Active, NonRemoved, CatalogType, TypeInv, CatalogSound, MaybeContent
  <1>4. \A i : Active(catalog, i)' = Active(catalog, i) /\ NonRemoved(catalog, i)' = NonRemoved(catalog, i)
    BY <1>1 DEF Active, NonRemoved
  <1>5. run'.deployed = run.deployed /\ run'.opts = run.opts
    <2>1. CASE JobFailed
      BY <1>1, <2>1 DEF JobFailed, RunType
    <2>2. CASE run' = [run EXCEPT !.todo = @ \ B, !.touched = @ \cup B]
      BY <1>1, <2>2 DEF RunType
    <2> QED BY <1>2, <2>1, <2>2
  <1>6. \A s \in Slots \ B : AsCatalog(s)' <=> AsCatalog(s)
    BY <1>1, <1>2 DEF AsCatalog
  <1>7. \A s \in B : Outages \/ (AsCatalog(s) => AsCatalog(s)')
    BY <1>1, <1>2, <1>3 DEF AsCatalog
  <1>8. \A s \in Slots : ~Outages /\ Up(s) => Up(s)'
    <2>1. \A s \in B : catalog.content[run.job] # Down
      BY <1>3, DeployAssumption DEF Down
    <2> QED BY <1>2, <2>1 DEF Up
  <1>9. TableRuns'
    <2>1. ASSUME NEW s \in Slots, Renewed(catalog, s), Current(catalog, hash, s)
          PROVE  AsCatalog(s)'
      <3>1. AsCatalog(s)
        BY <2>1 DEF ReleaseInv, TableRuns
      <3>2. CASE s \notin B
        BY <1>6, <3>1, <3>2
      <3>3. CASE s \in B /\ ~Outages
        BY <1>7, <3>1, <3>3
      <3>4. CASE s \in B /\ Outages
        <4>1. ~Current(catalog, run.hash, s)
          BY <1>1, <1>3, <3>4 DEF ReleaseInv, HandRuns
        <4>2. run.hash.prev[s] = hash.prev[s] /\ run.hash.ver[s] = hash.ver[s]
          <5>1. run.phase # "idle"
            BY <1>1 DEF Rolling
          <5> QED BY <1>1, <1>3, <3>4, <5>1 DEF RolloutInv, LedgerInv, RetryInv, Agree
        <4> QED BY <2>1, <4>1, <4>2 DEF Current
      <3> QED BY <3>2, <3>3, <3>4
    <2>2. ASSUME NEW s \in Slots, Renewed(catalog, s), JobOf(s) \in run.deployed
          PROVE  AsCatalog(s)'
      <3>1. s \notin B
        BY <1>1, <1>3, <2>2
      <3> QED BY <1>6, <2>2, <3>1 DEF ReleaseInv, TableRuns
    <2> QED BY <1>1, <1>4, <1>5, <2>1, <2>2 DEF TableRuns, Renewed, Current
  <1>10. History'
    BY <1>1 DEF ReleaseInv, History, Recorded
  <1>11. Ordered'
    <2>1. run.phase # "idle"
      BY <1>1 DEF Rolling
    <2> QED BY <1>1, <1>5, <2>1 DEF ReleaseInv, Ordered
  <1>12. ~Outages => \A s \in Slots : s \in Active(catalog, JobOf(s)) =>
              (hash'.prev[s] # None => Up(s)') /\ (JobOf(s) \in run'.deployed => Up(s)')
    BY <1>1, <1>5, <1>8 DEF ReleaseInv, PromotedUp
  <1>13. CASE JobFailed
    <2>1. run'.phase = "stage"
      BY <1>1, <1>13 DEF JobFailed, RunType
    <2>2. HandRuns' /\ PromotedUp'
      BY <1>4, <1>12, <2>1 DEF HandRuns, PromotedUp, InHand, Rolling
    <2> QED BY <1>9, <1>10, <1>11, <2>2 DEF ReleaseInv
  <1>14. CASE /\ run' = [run EXCEPT !.todo = @ \ B, !.touched = @ \cup B]
              /\ \A s \in B : live'[s] = catalog.content[run.job]
    <2>1. /\ run'.phase = run.phase /\ run'.job = run.job /\ run'.hash = run.hash
          /\ run'.todo = run.todo \ B /\ run'.restart = run.restart
      BY <1>1, <1>14 DEF RunType
    <2>2. \A s \in B : AsCatalog(s)' /\ Up(s)'
      BY <1>1, <1>3, <1>14, DeployAssumption DEF AsCatalog, Up, Down
    <2>3. HandRuns'
      <3>1. ASSUME NEW s \in Slots, Renewed(catalog, s), JobOf(s) = run.job
            PROVE  AsCatalog(s)' \/ Waits(s)'
        <4>1. CASE s \in B
          BY <2>2, <4>1
        <4>2. CASE s \notin B
          <5>1. AsCatalog(s) \/ Waits(s)
            BY <1>1, <3>1 DEF ReleaseInv, HandRuns, InHand
          <5>2. Waits(s) => Waits(s)'
            BY <1>1, <2>1, <4>2 DEF Waits, Current
          <5> QED BY <1>6, <4>2, <5>1, <5>2
        <4> QED BY <4>1, <4>2
      <3>2. \A s \in Slots : Renewed(catalog, s)' /\ JobOf(s) = run.job => AsCatalog(s)' \/ Waits(s)'
        BY <1>4, <3>1 DEF Renewed
      <3> QED BY <1>1, <1>4, <2>1, <3>2 DEF ReleaseInv, HandRuns, Rolling, InHand, Current
    <2>4. PromotedUp'
      <3>1. ASSUME ~Outages, NEW s \in Active(catalog, run.job)
            PROVE  Up(s)' \/ (run.phase = "start" /\ s \in run.todo \ B)
        <4>1. Up(s) \/ (run.phase = "start" /\ s \in run.todo)
          BY <1>1, <3>1 DEF ReleaseInv, PromotedUp, InHand
        <4>2. s \in Slots
          BY <1>1 DEF Active, NonRemoved, CatalogType
        <4> QED BY <1>8, <2>2, <3>1, <4>1, <4>2
      <3> QED BY <1>4, <1>12, <2>1, <3>1 DEF PromotedUp
    <2> QED BY <1>9, <1>10, <1>11, <2>3, <2>4 DEF ReleaseInv
  <1> QED BY <1>2, <1>13, <1>14

(* The rollout goes on without touching a process. *)
LEMMA StillInHand ==
    ASSUME RolloutInv, ReleaseInv, UNCHANGED <<catalog, hash, hosts, builds, edits>>,
           run.phase \in Rolling, run'.phase \in InHand, run'.job = run.job,
           run'.deployed = run.deployed, run'.opts = run.opts,
           run'.phase = "start" => run.phase = "start" /\ run'.todo = run.todo,
           run.phase = "start" /\ run'.phase # "start" => run.todo = {},
           HandRuns'
    PROVE  ReleaseInv'
  <1>1. UNCHANGED live /\ \A i : Active(catalog, i)' = Active(catalog, i)
    BY DEF hosts, Active, NonRemoved
  <1>2. TableRuns' /\ History'
    BY <1>1, TablesKept DEF ReleaseInv
  <1>3. ~Outages => \A s \in Slots : s \in Active(catalog, JobOf(s)) =>
              (hash'.prev[s] # None => Up(s)') /\ (JobOf(s) \in run'.deployed => Up(s)')
    BY <1>1, TablesKept DEF ReleaseInv
  <1>4. ~Outages => \A s \in Active(catalog, run.job) :
              Up(s)' \/ (run'.phase = "start" /\ s \in run'.todo)
    BY <1>1 DEF ReleaseInv, PromotedUp, Up, InHand
  <1>5. PromotedUp'
    BY <1>1, <1>3, <1>4 DEF PromotedUp
  <1>6. Ordered'
    BY DEF ReleaseInv, Ordered, Rolling
  <1> QED BY <1>2, <1>5, <1>6 DEF ReleaseInv

(* A health check touches no process. *)
LEMMA CheckHealthRelease ==
    ASSUME RolloutInv, ReleaseInv, CheckHealth
    PROVE  ReleaseInv'
  <1>1. /\ TypeInv /\ run \in RunType /\ run.phase \in Rolling
        /\ UNCHANGED <<catalog, hash, hosts, builds, edits>>
    BY DEF RolloutInv, LedgerInv, TypeInv, TypeOK, CheckHealth, Rolling, db
  <1>2. CASE JobFailed
    <2>1. run'.phase = "stage" /\ run'.deployed = run.deployed /\ run'.opts = run.opts
      BY <1>1, <1>2 DEF JobFailed, RunType
    <2> QED BY <1>1, <2>1, OutOfHand DEF ReleaseInv, Ordered, InHand, Rolling, hosts
  <1>3. CASE run' = [run EXCEPT !.touched = {}]
    <2>1. /\ run'.phase = run.phase /\ run'.job = run.job /\ run'.hash = run.hash
          /\ run'.todo = run.todo /\ run'.restart = run.restart
          /\ run'.deployed = run.deployed /\ run'.opts = run.opts
      BY <1>1, <1>3 DEF RunType
    <2>2. HandRuns'
      <3>1. \A i : Active(catalog, i)' = Active(catalog, i) /\ NonRemoved(catalog, i)' = NonRemoved(catalog, i)
        BY <1>1 DEF Active, NonRemoved
      <3> QED BY <1>1, <2>1, <3>1 DEF ReleaseInv, HandRuns, Renewed, AsCatalog, Waits, Current, hosts
    <2> QED BY <1>1, <2>1, <2>2, StillInHand DEF InHand
  <1> QED BY <1>2, <1>3 DEF CheckHealth

(* Once the new allocations are started, those that the table does not have as the
   catalog are the ones to reload or restart. *)
LEMMA ChooseUpdatesRelease ==
    ASSUME ReleaseOrder, RolloutInv, ReleaseInv, ChooseUpdates
    PROVE  ReleaseInv'
  <1> DEFINE j == run.job
             updated == {s \in NeedingRestart(catalog, run.hash, j, run.opts.force) :
                            UpdateAction(run.hash, s) # "sync"}
             restart == {s \in updated : UpdateAction(run.hash, s) = "restart"}
  <1>1. /\ TypeInv /\ run \in RunType /\ run.phase = "start" /\ run.todo = {}
        /\ UNCHANGED <<catalog, hash, hosts, builds, edits>> /\ j \in Jobs
        /\ catalog \in CatalogType
        /\ run' = [run EXCEPT !.phase = "reload", !.todo = updated \ restart,
                              !.restart = restart]
    BY DEF RolloutInv, LedgerInv, TypeInv, TypeOK, ChooseUpdates, db, bounds
  <1>2. /\ run'.phase = "reload" /\ run'.job = j /\ run'.hash = run.hash
        /\ run'.todo = updated \ restart /\ run'.restart = restart
        /\ run'.deployed = run.deployed /\ run'.opts = run.opts
    BY <1>1 DEF RunType
  <1>3. /\ \A s \in NonRemoved(catalog, j) : s \in Slots /\ JobOf(s) = j
        /\ Active(catalog, j) \subseteq NonRemoved(catalog, j)
        /\ PlanIsTree(catalog, run.hash, j)
    BY <1>1, AllocationQueries DEF RolloutInv, FinishInv, InHand, Rolling
  <1>4. \A i : Active(catalog, i)' = Active(catalog, i) /\ NonRemoved(catalog, i)' = NonRemoved(catalog, i)
    BY <1>1 DEF Active, NonRemoved
  <1>5. \A s \in updated : s \in Active(catalog, j) /\ s \in Slots /\ JobOf(s) = j
    BY <1>3 DEF NeedingRestart
  <1>6. ASSUME NEW s \in Slots, Renewed(catalog, s), JobOf(s) = j, ~AsCatalog(s)
        PROVE  s \in updated
    <2>1. s \in Active(catalog, j)
      BY <1>6 DEF Renewed
    <2>2. run.hash.prev[s] # None /\ ~Current(catalog, run.hash, s)
      BY <1>1, <1>6 DEF ReleaseInv, HandRuns, Waits, InHand, Rolling
    <2>3. ContentChanged(run.hash, s) \/ VersionChanged(catalog, run.hash, s)
      BY <1>3, <1>6, <2>1, <2>2 DEF PlanIsTree, ContentChanged, VersionChanged, Current
    <2>4. s \in NeedingRestart(catalog, run.hash, j, run.opts.force)
      BY <2>1, <2>2, <2>3 DEF NeedingRestart, NewAllocations
    <2>5. UpdateAction(run.hash, s) # "sync"
      BY <1>6 DEF UpdateAction, Renewed
    <2> QED BY <2>4, <2>5
  <1>7. \A s \in updated \ restart : Policy[j] = "reload"
    <2> SUFFICES ASSUME NEW s \in updated \ restart PROVE Policy[j] = "reload"
      OBVIOUS
    <2>1. UpdateAction(run.hash, s) \notin {"sync", "restart"} /\ JobOf(s) = j
      BY <1>5
    <2>2. Policy[j] \in {"always", "reload", "never"}
      BY <1>1, DeployAssumption
    <2> HIDE DEF updated, restart
    <2> QED BY <2>1, <2>2 DEF UpdateAction
  <1>8. ASSUME Outages, NEW s \in updated PROVE ~Current(catalog, run.hash, s)
    <2>1. ~run.opts.force
      BY <1>1, <1>8 DEF ReleaseInv, Ordered
    <2>2. ContentChanged(run.hash, s) \/ VersionChanged(catalog, run.hash, s)
      BY <1>8, <2>1 DEF NeedingRestart
    <2>3. run.hash.cur[s] = catalog.content[j] /\ JobOf(s) = j
      BY <1>3, <1>5, <1>8 DEF PlanIsTree
    <2> HIDE DEF updated
    <2> QED BY <2>2, <2>3 DEF ContentChanged, VersionChanged, Current
  <1>9. restart \subseteq updated
    OBVIOUS
  <1> HIDE DEF updated, restart
  <1>10. HandRuns'
    <2>1. \A s \in Slots : Renewed(catalog, s)' /\ JobOf(s) = j => AsCatalog(s)' \/ Waits(s)'
      BY <1>1, <1>2, <1>4, <1>6, <1>9 DEF Renewed, AsCatalog, Waits, hosts
    <2>2. \A s \in NonRemoved(catalog, j) : tree[s] = catalog.content[j]
      BY <1>1 DEF ReleaseInv, HandRuns, Rolling
    <2>3. Outages => \A s \in run'.todo \cup run'.restart : ~Current(catalog, run.hash, s)
      BY <1>2, <1>8, <1>9
    <2> QED BY <1>1, <1>2, <1>4, <1>7, <2>1, <2>2, <2>3 DEF HandRuns, Rolling, InHand, Current, hosts
  <1> QED BY <1>1, <1>2, <1>10, StillInHand DEF InHand, Rolling

(* Restarts follow reloads, and then nothing waits. *)
LEMMA NextActionRelease ==
    ASSUME RolloutInv, ReleaseInv, NextAction
    PROVE  ReleaseInv'
  <1>1. /\ TypeInv /\ run \in RunType /\ run.phase \in {"reload", "restart"} /\ run.todo = {}
        /\ UNCHANGED <<catalog, hash, hosts, builds, edits>>
    BY DEF RolloutInv, LedgerInv, TypeInv, TypeOK, NextAction, db, bounds
  <1>2. \A i : Active(catalog, i)' = Active(catalog, i) /\ NonRemoved(catalog, i)' = NonRemoved(catalog, i)
    BY <1>1 DEF Active, NonRemoved
  <1>3. /\ \A s \in NonRemoved(catalog, run.job) : tree[s] = catalog.content[run.job]
        /\ \A s \in Slots : Renewed(catalog, s) /\ JobOf(s) = run.job => AsCatalog(s) \/ Waits(s)
        /\ Outages => \A s \in run.todo \cup run.restart : ~Current(catalog, run.hash, s)
    BY <1>1 DEF ReleaseInv, HandRuns, Rolling, InHand
  <1>4. CASE run.phase = "reload"
    <2>1. run' = [run EXCEPT !.phase = "restart", !.todo = run.restart, !.restart = {}]
      BY <1>4 DEF NextAction
    <2>2. /\ run'.phase = "restart" /\ run'.job = run.job /\ run'.hash = run.hash
          /\ run'.todo = run.restart /\ run'.restart = {}
          /\ run'.deployed = run.deployed /\ run'.opts = run.opts
      BY <1>1, <2>1 DEF RunType
    <2>3. \A s \in Slots : Renewed(catalog, s)' /\ JobOf(s) = run.job => AsCatalog(s)' \/ Waits(s)'
      BY <1>1, <1>2, <1>3, <1>4, <2>2 DEF Renewed, AsCatalog, Waits, hosts
    <2>4. HandRuns'
      BY <1>1, <1>2, <1>3, <2>2, <2>3 DEF HandRuns, Rolling, InHand, Current, hosts
    <2> QED BY <1>1, <1>4, <2>2, <2>4, StillInHand DEF InHand, Rolling
  <1>5. CASE run.phase = "restart"
    <2>1. run' = [run EXCEPT !.phase = "finalize"]
      BY <1>5 DEF NextAction
    <2>2. /\ run'.phase = "finalize" /\ run'.job = run.job
          /\ run'.deployed = run.deployed /\ run'.opts = run.opts
      BY <1>1, <2>1 DEF RunType
    <2>3. \A s \in Slots : Renewed(catalog, s)' /\ JobOf(s) = run.job => AsCatalog(s)'
      BY <1>1, <1>2, <1>3, <1>5 DEF Renewed, AsCatalog, Waits, hosts
    <2>4. HandRuns'
      BY <2>2, <2>3 DEF HandRuns, Rolling, InHand
    <2> QED BY <1>1, <1>5, <2>2, <2>4, StillInHand DEF InHand, Rolling
  <1> QED BY <1>1, <1>4, <1>5

(* When a job is promoted, every one of its processes is where it belongs. *)
LEMMA FinalizeRelease ==
    ASSUME RolloutInv, ReleaseInv, FinalizeJob
    PROVE  ReleaseInv'
  <1>1. /\ TypeInv /\ run.phase = "finalize" /\ run \in RunType
        /\ UNCHANGED <<catalog, hash, live, builds, edits>>
    BY DEF RolloutInv, LedgerInv, TypeInv, TypeOK, FinalizeJob, db, hosts
  <1>2. \A i : Active(catalog, i)' = Active(catalog, i)
    BY <1>1 DEF Active, NonRemoved
  <1>3. CASE Moves /\ run'.phase = "stage"
    <2>1. run'.deployed = run.deployed /\ run'.opts = run.opts
      BY <1>3 DEF Moves, Carries, SameQueue
    <2> QED BY <1>1, <1>3, <2>1, OutOfHand DEF ReleaseInv, Ordered, InHand, Rolling
  <1>4. CASE Promotes
    <2>1. /\ run'.phase = "stage" /\ run'.opts = run.opts
          /\ run'.deployed = run.deployed \cup {run.job}
      BY <1>4 DEF Promotes, Carries
    <2>2. \A s \in Slots : Renewed(catalog, s) /\ JobOf(s) = run.job => AsCatalog(s)
      BY <1>1 DEF ReleaseInv, HandRuns, Waits, InHand
    <2>3. TableRuns'
      BY <1>1, <1>2, <2>1, <2>2 DEF ReleaseInv, TableRuns, Renewed, Current, AsCatalog
    <2>4. PromotedUp'
      <3>1. ~Outages => \A s \in Slots : s \in Active(catalog, JobOf(s)) /\ JobOf(s) = run.job => Up(s)
        BY <1>1 DEF ReleaseInv, PromotedUp, InHand
      <3> QED BY <1>1, <1>2, <2>1, <3>1 DEF ReleaseInv, PromotedUp, Up, InHand, Rolling
    <2>5. HandRuns' /\ Ordered' /\ History'
      BY <1>1, <2>1 DEF ReleaseInv, HandRuns, Ordered, History, Recorded, InHand, Rolling
    <2> QED BY <2>3, <2>4, <2>5 DEF ReleaseInv
  <1> QED BY <1>1, <1>3, <1>4, FinalizeJobKind

(* A commit records what was promoted, and that runs. *)
LEMMA CommitRelease ==
    ASSUME RolloutInv, ReleaseInv, Commit
    PROVE  ReleaseInv'
  <1>1. /\ run.phase = "commit" /\ run' = Idle /\ hash' = run.hash /\ edits' = 0
        /\ UNCHANGED <<catalog, live, builds>> /\ catalog \in CatalogType /\ LedgerInv
    BY DEF RolloutInv, LedgerInv, TypeInv, TypeOK, Commit, hosts
  <1>2. run'.phase = "idle" /\ run'.deployed = {}
    BY <1>1, IdleLocals, IdleFields
  <1>3. \A i : Active(catalog, i)' = Active(catalog, i)
    BY <1>1 DEF Active, NonRemoved
  <1>4. \A s \in catalog.removed : hash'.prev[s] = None
    BY <1>1 DEF LedgerInv, ForgetInv
  <1>5. \A s \in Slots : s \in catalog.rows \ catalog.removed /\ JobOf(s) \notin run.deployed =>
            hash'.prev[s] = hash.prev[s] /\ hash'.ver[s] = hash.ver[s]
    <2> SUFFICES ASSUME NEW s \in Slots, s \in catalog.rows \ catalog.removed,
                        JobOf(s) \notin run.deployed
                 PROVE  hash'.prev[s] = hash.prev[s] /\ hash'.ver[s] = hash.ver[s]
      OBVIOUS
    <2>1. JobOf(s) \in Jobs /\ s \in NonRemoved(catalog, JobOf(s))
      BY <1>1, RowFacts
    <2> QED BY <1>1, <2>1 DEF LedgerInv, RetryInv, Agree
  <1>6. \A s \in Slots : s \in Active(catalog, JobOf(s)) => s \in catalog.rows \ catalog.removed
    BY <1>1, RowFacts
  <1>7. TableRuns'
    <2> SUFFICES ASSUME NEW s \in Slots, Renewed(catalog, s), Current(catalog, hash', s)
                 PROVE  AsCatalog(s)
      BY <1>1, <1>2, <1>3 DEF TableRuns, Renewed, AsCatalog
    <2>1. s \in catalog.rows \ catalog.removed
      BY <1>6 DEF Renewed
    <2>2. JobOf(s) \notin run.deployed => Current(catalog, hash, s)
      BY <1>5, <2>1 DEF Current
    <2> QED BY <2>2 DEF ReleaseInv, TableRuns
  <1>8. PromotedUp'
    <2>1. ASSUME ~Outages, NEW s \in Slots, s \in Active(catalog, JobOf(s)), hash'.prev[s] # None
          PROVE  Up(s)
      BY <1>5, <1>6, <2>1 DEF ReleaseInv, PromotedUp
    <2> QED BY <1>1, <1>2, <1>3, <2>1 DEF PromotedUp, Up, InHand, Rolling
  <1>9. HandRuns' /\ Ordered'
    BY <1>1, <1>2, <1>4 DEF HandRuns, Ordered, InHand, Rolling
  <1>10. History'
    <2>1. CASE builds = 0
      BY <1>1, <2>1 DEF ReleaseInv, History
    <2>2. CASE builds # 0
      <3>1. builds > 0 /\ builds \in 1..Len(Edits)
        BY <1>1, <2>2 DEF ReleaseInv, History, LedgerInv, TypeInv, TypeOK
      <3>2. PICK ws \in Edits[builds] :
              /\ catalog.content = ws.content
              /\ \A s \in catalog.rows \ catalog.removed : catalog.version[s] = ws.version[JobOf(s)]
              /\ \A s \in Slots : hash.prev[s] # None =>
                    \/ Recorded(hash, ws, s)
                    \/ \E k \in 1..(builds - 1) : \E vs \in Edits[k] : Recorded(hash, vs, s)
        BY <3>1 DEF ReleaseInv, History
      <3>3. ASSUME NEW s \in Slots, hash'.prev[s] # None
            PROVE  \/ Recorded(hash', ws, s)
                   \/ \E k \in 1..(builds - 1) : \E vs \in Edits[k] : Recorded(hash', vs, s)
        <4>1. s \in catalog.rows \ catalog.removed
          BY <1>1, <1>4, <3>3 DEF LedgerInv, TrackInv, Tracked
        <4>2. CASE JobOf(s) \in run.deployed
          <5>1. Promoted(catalog, run.hash, JobOf(s)) /\ s \in NonRemoved(catalog, JobOf(s))
            BY <4>1, <4>2 DEF RolloutInv, FinishInv, NonRemoved
          <5> QED BY <1>1, <3>2, <4>1, <5>1 DEF Promoted, Recorded
        <4>3. CASE JobOf(s) \notin run.deployed
          <5>1. hash'.prev[s] = hash.prev[s] /\ hash'.ver[s] = hash.ver[s]
            BY <1>5, <4>1, <4>3
          <5>2. \A vs : Recorded(hash, vs, s) => Recorded(hash', vs, s)
            BY <5>1 DEF Recorded
          <5> QED BY <3>2, <3>3, <5>1, <5>2
        <4> QED BY <4>2, <4>3
      <3> QED BY <1>1, <3>1, <3>2, <3>3 DEF History
    <2> QED BY <2>1, <2>2
  <1> QED BY <1>7, <1>8, <1>9, <1>10 DEF ReleaseInv

(* A step of somebody else. *)
LEMMA StutterRelease == ReleaseInv /\ UNCHANGED vars => ReleaseInv'
  <1> SUFFICES ASSUME ReleaseInv, UNCHANGED vars PROVE ReleaseInv'
    OBVIOUS
  <1>1. UNCHANGED <<catalog, hash, tree, live, run, builds, edits>>
    BY DEF vars, db, hosts, bounds
  <1>2. \A i : Active(catalog, i)' = Active(catalog, i) /\ NonRemoved(catalog, i)' = NonRemoved(catalog, i)
    BY <1>1 DEF Active, NonRemoved
  <1>3. TableRuns' /\ Ordered' /\ History'
    BY <1>1, <1>2 DEF ReleaseInv, TableRuns, Ordered, History, Renewed, Current, AsCatalog, Recorded
  <1>4. HandRuns' /\ PromotedUp'
    BY <1>1, <1>2 DEF ReleaseInv, HandRuns, PromotedUp, Renewed, Current, AsCatalog, Waits, Up
  <1> QED BY <1>3, <1>4 DEF ReleaseInv

(* ReleaseInv is inductive relative to RolloutInv. *)
LEMMA NextRelease ==
    ASSUME ReleaseOrder, RolloutInv, ReleaseInv, [Next]_vars
    PROVE  ReleaseInv'
  <1>1. LedgerInv
    BY DEF RolloutInv
  <1>2. CASE DeployStep
    <2>1. CASE \E s \in Slots : ReconcileStop(s) \/ ReconcileSkip(s)
      BY <2>1, ReconcileRelease
    <2>2. CASE FinishReconcile \/ PlanWave \/ NextWave \/ FinalSync
      BY <2>2, WaveRelease
    <2>3. CASE \E j \in Jobs : SyncJob(j)
      BY <2>3, SyncJobRelease
    <2>4. CASE RunBatch
      BY <2>4, RunBatchRelease
    <2>5. CASE CheckHealth
      BY <2>5, CheckHealthRelease
    <2>6. CASE ChooseUpdates
      BY <2>6, ChooseUpdatesRelease
    <2>7. CASE NextAction
      BY <2>7, NextActionRelease
    <2>8. CASE FinalizeJob
      BY <2>8, FinalizeRelease
    <2>9. CASE Commit
      BY <2>9, CommitRelease
    <2> QED BY <1>2, <2>1, <2>2, <2>3, <2>4, <2>5, <2>6, <2>7, <2>8, <2>9 DEF DeployStep
  <1>3. CASE Build
    BY <1>1, <1>3, BuildRelease
  <1>4. CASE GC
    BY <1>1, <1>4, GCRelease
  <1>5. CASE \E o \in Options : StartDeploy(o)
    BY <1>5, StartRelease
  <1>6. CASE Crash
    BY <1>6, CrashRelease
  <1>7. CASE UNCHANGED vars
    BY <1>7, StutterRelease
  <1> QED BY <1>2, <1>3, <1>4, <1>5, <1>6, <1>7 DEF Next

(* Where releases are deployed in the order they are built and none comes back, a
   deploy that reports success leaves each active allocation running the tree of
   the catalog, up to jobs that are never restarted: whatever batches failed half
   way, processes were lost, deploys crashed and trees were collected before it,
   what an earlier deploy started and did not promote is started again. *)
THEOREM SuccessRunsCatalog ==
    ASSUME ReleaseOrder
    PROVE  Spec => []ActiveRunsCatalog
  <1>1. EveryJob
    BY DEF ReleaseOrder, EveryJob
  <1>2. Init => RolloutInv /\ OkInv /\ ReleaseInv
    BY InitRollout, InitRelease
  <1>3. RolloutInv /\ OkInv /\ ReleaseInv /\ [Next]_vars => RolloutInv' /\ OkInv' /\ ReleaseInv'
    BY <1>1, NextRollout, NextOk, NextRelease
  <1>4. RolloutInv /\ OkInv /\ ReleaseInv => ActiveRunsCatalog
    <2> SUFFICES ASSUME RolloutInv, OkInv, ReleaseInv, result = "ok", NEW j \in Jobs,
                        Policy[j] # "never", NEW s \in Active(catalog, j)
                 PROVE  live[s] = catalog.content[j]
      BY DEF ActiveRunsCatalog
    <2>1. s \in Slots /\ JobOf(s) = j /\ s \in NonRemoved(catalog, j) /\ s \notin catalog.disabled
      BY DEF RolloutInv, LedgerInv, TypeInv, TypeOK, CatalogType, Active, NonRemoved
    <2>2. Current(catalog, hash, s)
      BY <2>1 DEF OkInv, Settled, Current
    <2> QED BY <2>1, <2>2 DEF ReleaseInv, TableRuns, Renewed, AsCatalog
  <1> QED BY <1>2, <1>3, <1>4, PTL DEF Spec
=============================================================================
