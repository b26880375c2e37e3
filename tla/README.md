# A TLA+ model of maand

maand deploys *jobs* (directories with a Makefile) to *workers* (hosts reached by
ssh and rsync). `maand init` makes a bucket: an SQLite database, a CA and a key.
An operator edits a workspace, `maand build` turns it into tables and key-value
pairs, `maand deploy` carries them to the workers, `maand gc` deletes what was
removed, and `maand job`, `run_command`, `job_command` and `health_check` act on
what runs. There is no daemon: a command is one process that opens one
transaction, acts on remote hosts in the middle of it, and commits or rolls back.
What it did to the hosts is never rolled back, and no lock keeps two commands
apart. That is where the difficulty lies.

## 1. Inventory

| component | state it keeps | operations | hard part |
|---|---|---|---|
| **deploy pipeline** (`deploy/`) | `update_seq`; the transaction's copy of the hash table; trees, processes, `jobs.json`, `worker.json` on workers | `UpdateSeq`, reconcile, plan and stage per deployment sequence, rsync, batches, health checks, promotion, final sync, commit; dry run | any remote step may fail or be lost; some errors end the job, others the deploy; retries meet half-upgraded jobs; the dry run is a second implementation |
| **allocation catalog, hashes** (`data/`) | rows `allocations`, `hash` | who is new, changed, stopped, active; plan, promote, remove, mark pending | "promoted" stands in for "running" |
| **runtime semaphore** (`jobcommand/runtime_semaphore.go`) | per scope: capacity, holders, queue | acquire with deadline, release | goroutines; a grant racing a timeout |
| **build** (`build/`) | catalog tables, ports, certificates, KV namespaces | validation, placement, sequence, ports, variables, certificates | state carried from build to build: flags, numbers, certificates, versions of keys |
| **key-value store** (`kv/`) | versions and tombstones per key, a session per process | put, get, delete, secrets, load, checkpoint, purge | sessions of several processes over one table without a unique constraint |
| **job commands, runtime API** (`jobcommand/`) | an HTTP server per process on port 8080 | handlers of `/kv`, `/kv/secret`, `/kv/keys`, `/demands` | who serves whose scripts; what is saved when |
| **garbage collection** (`gc/`) | none | trees, rows, hashes, namespaces, history | partial failure; purge next to other commands |
| **job control, run command, health checks** (`jobcontrol/`, `runcommand/`, `healthcheck/`) | none | start, stop, restart, ad-hoc scripts, probes | batches over a catalog read before; the `update_seq` check |
| **Prometheus configuration** (`promconfig/`) | KV namespace `maand/prometheus` | validate and store scrape jobs at build, render at deploy | stored text joined with the rows of later |
| **initialization, schema** (`initialize/`, `data/schema.go`, `cmd/schema.go`) | maand.db, `secrets/`, configuration files | init, migration, schema check | a crash between files; two inits; databases of old binaries |
| **worker, prereq, bucket, workspace, dashboards, runbooks, certs, cat, logs, workerfacts, cmd, utils** | files | ssh, parsing, rendering, reports | none for a model: I/O and conversion |

Interactions. Build writes the catalog and clears the previous hash of re-enabled
allocations. Deploy reads the catalog, writes hashes, drives the workers, calls
health checks and job commands, whose scripts call the semaphore and the
key-value store over HTTP. gc deletes catalog rows, hashes, namespaces and trees.
Job control trusts `worker.json`. All share `maand.db`, in WAL mode, one writer at
a time. Every command but init first checks the schema.

What makes the components correct: a deploy that reports success has brought the
cluster to the catalog and did what its dry run said; a failed one is picked up
where it failed and harms at most one batch; drained and removed allocations are
stopped and forgotten; deploying again converges. Successive builds keep what must
stay (port numbers, certificates, key versions) and leave nothing of what left.
No process loses, duplicates or rewrites a key of another. A bucket whose schema
check passes is complete, and stays the bucket it is.

## 2. Modules

| module | models | composed of |
|---|---|---|
| `Semaphore` | `semaphoreCoordinator` for one scope key | implements `Permits` |
| `Permits` | what a semaphore promises (abstract) | |
| `Catalog` | allocation and hash rows, as operators | |
| `Deploy` | deploy, build and gc against failing workers | `Catalog` |
| `DryRun` | `deploy --dry-run`, against the deploy that follows | `Deploy` |
| `Drain` | `Deploy` with two history variables: processes gone astray, deploys that start in order | `Deploy` |
| `Operations` | `maand job` and `maand run_command` next to builds and deploys | `DryRun` |
| `Ports` | the port allocator across builds | |
| `KVStore` | package `kv`, as operators | |
| `RuntimeAPI` | the handlers scripts call | `KVStore` |
| `KVSessions` | build, deploy, job_command, health_check and gc as processes on one store | `RuntimeAPI`; implements `VersionedMap` |
| `VersionedMap` | what the store promises (abstract) | |
| `Scrape` | the Prometheus catalog | `KVStore` |
| `Build` | build from workspace to catalog, with deploys, gc, time and CA changes in between | `Scrape` |
| `Bucket` | init, migration, schema check | |
| `MC...` | small instances for TLC | |
| `SemaphoreProofs`, `DeployProofs`, `RolloutProofs`, `OperationsProofs`, `PortsProofs`, `KVProofs`, `BuildProofs`, `BucketProofs` | theorems | `RolloutProofs` and `OperationsProofs` use `DeployProofs` |

Operators commented "Slip: ..." are plausible mistakes in the definition that
follows them. No specification uses them; each shows that some property would
notice.

**Semaphore.** A request is a goroutine that serves one acquire. `RegisterWait` is
the critical section of `acquire` up to its select, `SelectNotify` and
`SelectDone` the cases of the select, `CancelWait` the critical section after a
timeout, `Release` the handler with `grantNextWaiterLocked` inside. A deadline may
pass at any time; a script that got its permit releases it, one that was refused
does not. Permits belong to allocations, not to requests, as in the code. A
request that was told 408 although it holds a permit is in `Leaked`. Scopes are
independent, so one is modelled. The refinement to `Permits` hides queue and
channels: capacity is `permits`, holders is `inside`.

**Catalog, Deploy.** A *slot* is a (job, worker) pair. `catalog` and `hash` are
committed, `run` holds the locals of `Execute` and `run.hash`, the transaction's
copy. A rendered tree stands for its hash and manifest. On a worker, `tree` is what
is in `jobs/<job>`, `live` what its process was started from, `jobsFile` and
`seqFile` the content of `jobs.json` and the `update_seq` of `worker.json`.
`StartDeploy` is `UpdateSeq` (its own transaction), prerequisites and begin;
`ReconcileStop`, `ReconcileSkip`, `FinishReconcile` the reconcile loop; `PlanWave`,
`NextWave`, `SyncJob` the loops of a sequence; `RunBatch`, `CheckHealth`,
`ChooseUpdates`, `NextAction`, `FinalizeJob` a rollout; `FinalSync`, `Commit` the
end; `Crash` a process that dies anywhere. Commands of one batch, and rsyncs of
one job, run in parallel on different hosts and are all waited for; they touch
disjoint slots, so a batch is one step with every combination of outcomes. `owed`,
`finished`, `run.attempted`, `run.up`, `run.hits` are history variables. The faults
are listed above `Fault`; `FaultKinds` and `MaxFaults` say which an instance has.

**Drain** takes the steps of `Deploy` as they are and adds two histories. `astray` are
the slots whose process runs while the database does not have it as promoted. Only
four steps make one: the start of an allocation, until its job is promoted and that
is committed (`DrainBatch`, `DrainCommit`); a build that enables an allocation no
deploy has stopped, and clears its promoted hash (`DrainBuild`); a collection before
the deploy that would have stopped what it collects (`DrainGC`); and reconcile when
it gives up on a worker that left the catalog (`DrainReconcile`). The code takes
"promoted" for "running", so no later deploy looks for such a process until it is
promoted again. `orderly` says of the deploy in progress that it started `InOrder`:
every stop of its reconcile loop can be run or may fail, a probed job that loses an
allocation is up, and so is what was promoted.

**DryRun** is a function of the committed database and the flags; its property
speaks of the steps of the deploy that follows with the same flags.

**Operations** adds one operator command in progress (`ctl`), with the catalog and
`update_seq` of its snapshot, to the variables of `Deploy`. What a make target or a
script does to processes is the operator's: `Harms` says whether it works, takes
them down and fails, or takes them down and reports success.

**Ports.** `table` is committed; `existing` and `used` are the maps of
`portAllocator`, `rows` the table inside the transaction. The jobs of a build are
visited in order, the ports of a job in order, and an error rolls back.

**KVStore, RuntimeAPI, KVSessions.** A path is a key with its namespace, a store a
function from paths to entries (version 0: not there), the table a set of rows.
Every process has its snapshot, its store and the hooks it has to run. `lock` is
SQLite's write lock, `fresh` whether somebody committed since the snapshot,
`owner` who listens on 8080. `Serve` is a request of a script of one process
answered by the process that has the port. `Checkpoint` is `PersistToTransaction`.
Scripts write the name of their event, so a row tells who wrote it.

**Build, Scrape.** A build is one transaction and one action; its stages are
operators in the order of `Execute`. The tables a build rewrites are the workspace
of the last committed build (`catalog`). A certificate is its CA, subject, hosts
and last day. `Sync` is the put-then-delete of a namespace. `Rendered` of `Scrape`
is what `{{ scrapeConfigs }}` makes of the stored keys and the current rows.

**Bucket.** `db` is what is committed: tables, columns (missing, default or an
operator's value), views, version and the rows of table `bucket`; a file is
missing, torn, or of the init that wrote it. `Begin` is everything up to the files
inside the transaction, on what is committed when it gets the lock; whether the
database is new was decided before, in `Start`.

## 3. Runs

| run | asks | distinct states |
|---|---|---|
| `semaphore_safety` | four requests of three allocations, all timeouts, capacities 0 to 3 with a maximum of 2 (0 is the default, 3 is refused): no idle permit, queue and channels agree, holders hold, grants in order, refinement of `Permits`, everybody is served while no permit leaks | 3 thousand |
| `deploy_rollout` | one job on three workers, one of them perhaps disabled from the start or by the upgrade, a content or version upgrade, three faults, six deploys: blast radius; success means the catalog runs and is promoted | 27 thousand |
| `deploy_waves` | two jobs of two sequences, job filters, `--sync-only`, `--force`, a disabled or a removed allocation, gc, failed rsyncs and crashes: what was promoted is not rolled out again, and the deploy is what the dry run announced | 183 thousand |
| `deploy_storm` | one job on two workers with every kind of fault at every step, gc at any time, up to three builds between two deploys: retries, forgotten and tracked rows; drained allocations are down and nothing runs without a row, but what went astray; a deploy that starts in order and is not disturbed succeeds | 1.5 million |
| `deploy_converges` | under fairness, with the workspace settled and more deploys to come than faults: some deploy succeeds, crashes and failed rsyncs included | 14 thousand |
| `ports` | three builds over every small workspace of two jobs and three ports, provisioned or fixed, in and outside a pool that moves: numbers unique, provisioned numbers kept | 331 thousand |
| `kv_sessions` | two processes among build, deploy, job_command, health_check and gc, two script requests, crashes, a passing day: versions unique, sessions ahead of the table, secrets sealed, health checks store nothing, no lost update, variables of active jobs kept, history bounded, writes read back | 89 thousand |
| `build` | three builds over six workspaces of two jobs and fifteen mistaken edits, with deploys, gc, a passing day and a replaced CA between them: sequence respects demands, resources fit, certificates valid, nothing left behind, scrape targets exact, a repeated build changes nothing | 27 thousand |
| `operations` | a rolling restart, a start, an ad-hoc script, next to the deploy of a new release: the damage is one batch | 1.4 million |
| `bucket` | two processes run init three times, fail or die twice between any two files, over no database, an empty one and 121 of earlier binaries: the gate means ready, init means gate, values survive, identity kept | 47 thousand |

Expected to be violated, against the documentation (see the findings):

| run | shows |
|---|---|
| `operations_refused` | after a build and a successful deploy with nothing to stage, `maand job` refuses the workers: `update_seq` went up and no `worker.json` was sent |
| `build_scrape` | a job whose only scrape target names a worker is not skipped when that worker is not active: the whole rendering fails |

### Bounds

Two workers are enough for every property that relates a failed slot to a healthy
one; `deploy_rollout` has three, so that an upgrade batch of one leaves one done,
one failed and one untouched. Two contents tell old from new. One job is enough where jobs
do not interact; the others have two. `MaxFaults` is one to three: the safety
properties are invariants of what one failed deploy leaves behind. `MaxDeploys`
leaves room for retries. `MaxEdits` is the number of builds between committed
deploys: 1 means every edit is deployed. `deploy_storm` has 3, with two faults of any of
twelve kinds and four deploys: disable, remove and add back between two deploys, a
rollout that fails or a deploy that dies before them, and a collection anywhere.

Two sessions with two requests reach every pair of commands that overlap, with a
request before and after a commit of the other; `Keep = 0` makes retention bite at
the second version. Three builds let a key, a port number or a certificate be made,
dropped and made again. Three inits: one that fails, one that succeeds, one over
it, in two processes. `MaxDays` of one reaches the renewal window (`TTL` 2,
`Buffer` 1). `CHECK_DEADLOCK FALSE` where these bounds end every behaviour.

### Fairness

`Semaphore`: weak fairness of the goroutines that can go on, and of `Release`,
which is the contract of the API's users; nothing makes a script ask or a deadline
pass. `Deploy`: weak fairness of the steps of a deploy that was started (hooks and
ssh have timeouts, which are faults) and of the operator starting another one.
`outage` is not among the faults of `deploy_converges`, for the reason given first
below. The other specifications state safety only.

### Seen while modelling, without a run of its own

Deploy:

- An upgrade that leaves a later allocation down cannot be repaired by deploying
  again: the health check after the first batch fails on it (`rollout.go:138`;
  `docs/reference/cli/deploy.md:416` says to run deploy again).
- The cleanup of a removed allocation deletes its Makefile and keeps the directory.
  If that deploy does not commit, every later one runs `make stop` there, fails and
  returns (`allocations.go:229`).
- An allocation started by a rollout that failed later was never promoted, so it is
  not stopped when it is disabled or removed (`allocations.go:213`;
  `docs/guides/disable-and-drain.md:62`).
- An rsync failure of one job rolls back promotions of jobs finished before it
  (`execute.go:195`, against the comment at `execute.go:17`), and leaves workers
  with the newest `update_seq` and old trees (`sync_workers.go:37`).
- An allocation drained, then removed and added back between two deploys, is not
  marked for start (`build_allocations.go:149`).
- A failed `--force` rollout of unchanged content is not retried
  (`execute.go:164`), which is why `owed` counts the jobs that needed a rollout.
- A build that both stops an allocation of a probed job and gives it a new one
  makes the next deploy fail, and every later one: the health check that ends
  reconcile wants every active allocation up, and the new one is started only
  after it (`allocations.go:267`).
- Three of these states keep an undisturbed deploy from succeeding: the first is
  `PromotedRun` of `Drain`, the Makefile that is gone `StopsRun` (a stop on a worker
  whose bucket was removed counts too), the health check of reconcile `LosersUp`.
  `OrderlyDeploySucceeds` shows that nothing else of what earlier deploys leave does.
- The process of an allocation that was started and not promoted, enabled again,
  collected early or left on a worker that is gone is `astray` there, and is not
  stopped either. `DrainedStaysDown` and `NoOrphans` show that no other is missed.
- An allocation removed, stopped by a deploy that then aborts, and added back with
  the same content looks promoted and is not started; taking a partly rolled out
  release back looks promoted as well, and the newer one goes on running. This is
  why `ActiveRunsCatalog` needs an order of releases (section 4).
- A job that failed does not keep jobs of higher sequences from being rolled out
  (`execute.go:206`).
- The dry run announces "stop" for a disabled promoted allocation every time, while
  deploy skips the job; `--force` stages jobs with nothing active or promoted that
  the dry run does not report; removed allocations that reconcile will stop are not
  in the plan. `AsPlanned` says exactly what does agree.

Semaphore, job commands, store:

- A grant that races the deadline of its waiter leaves the permit with an
  allocation that was answered 408 and will never release it
  (`runtime_semaphore.go:67`; `docs/reference/job-command-api.md:229`).
- The second of two processes logs that port 8080 is taken and goes on. Its scripts
  write into the session of the first, which may roll back or end without saving;
  the second one's own exit saves nothing of them (`runtime_server.go:54`;
  `docs/reference/kv/persistence.md` "On successful CLI exit").
- KV writes of a failed job are checkpointed too, and `job_command` saves after a
  failure as well.
- gc purges variables and secrets of a job that lost an allocation and whose others
  are only disabled (`gc/references.go:49`; `docs/guides/disable-and-drain.md:165`).
- `Delete` of a deleted key makes another version.

Operations:

- `maand job` runs a job's `job_control` commands instead of make, on all active
  allocations whatever `--allocations` says (`jobcontrol/commands.go:46`), though
  `docs/reference/cli/job.md:41` says it always runs runner.py.
- The check of `update_seq` is on a snapshot; a deploy that commits after it is not
  noticed.

Build:

- A demand on a job name with spaces around it is validated trimmed and stored as
  it is, so neither cycle detection nor the sequence sees it.
- The port of a removed job stays taken until the job loop is over; fixed ports are
  not checked against the pool.
- One worker without a certificate renews those of all workers of the job.
- A job scraped under another name than its own gets two versions of `job_name` at
  every build (`promconfig/catalog.go:159`), and a job out of use gets the key back
  in the namespace that was just purged. `RebuildChangesNothing` excepts both.
- `{{ scrapeConfigs }}` falls back to the workspace, built or not, when the stored
  fragment is empty (`scrape_deploy.go:33`). A pinned worker that is not active, or
  an item without targets, passes the build and fails the rendering; the first is
  the finding of `build_scrape`, with a job that has no target left.

Initialization:

- Two first inits that race insert two bucket rows; the first stays the one that is
  read (`initialize/execute.go:34`).
- `MigrateSchema` renumbers a database of a later binary to version 1, although
  `CheckSchemaVersion` would refuse it as too new.
- Half a CA makes every later init fail until somebody removes the half. A torn
  `kv.key`, `ca.key` or `workers.json` is never repaired (`kv/key.go:28`).

## 4. Proofs

All theorems hold for every value of the constants that satisfies the named
assumptions of their module: any number of jobs, workers, processes, edits, faults
and deploys.

**SemaphoreProofs**: `TypeOK`, `CapacityRespected`, `NoIdlePermit`,
`HeldMeansHolder`, `QueueConsistent`, the action property `GrantsInOrder`, and that
`Semaphore` implements `Permits`. The inductive invariant `IInv` joins the first
four with what they need of each other: that a queued or notified request is in the
middle of its acquire, and that the capacity is set once somebody holds or waits.
The grant loop is the crux (`GrantIInv`): the k waiters it pops are characterised by
the room before each of them, and adding one holder raises the cardinality by at
most one. The refinement follows step by step, a release being the only step that
changes more than one allocation.

**DeployProofs**: `TypeOK` of `Deploy`. It is not inductive by itself: `make start`
brings up whatever tree is on disk, so the type of `live` rests on the trees being
in place (`TreesInPlace`), that on every allocation of the catalog being placed on
a worker that was synced and belonging to a job that has a tree (`CatalogSound`).
Then `FailedJobsRetried`, `RemovedForgotten`, `HashRowsTracked` from `LedgerInv`.
Every step of a deploy either aborts, commits, or does one of four things to its
copy of the hash table (`StepKinds`): keep it, forget one allocation, write plan
hashes, promote one job. Whether a job needs a rollout depends only on what was
promoted for it (`NeedsDependsOnPromoted`). So it suffices that the copy agrees
with the committed table on every job the deploy has not promoted, and that the
committed table says so of every job that is owed or attempted (`RetryInv`): then
it makes no difference whether the transaction is committed or lost. `WaveInv` is
needed because a job attempted after it was promoted would break this.

**RolloutProofs** goes on from there. Every step of a deploy is an abort, the
commit, or one of seven kinds (`Visits`, `Passes`, `Advances`, `Stages`, `Takes`,
`Moves`, `Promotes`), and each invariant is shown once per kind.

- `BlastRadius` from `BlastInv`. A job loses nothing before its rollout, and
  nothing in batches that succeed; a start batch only reaches allocations that were
  not promoted, a reload or restart batch is no larger than the limit and, when it
  fails, is the last of its job. Jobs and workers are finite (`CatalogAssumption`),
  or there would be nothing to count.
- `FinishedJobsSkipped` from `FinishInv`: what was rolled out is promoted in the
  copy until that is committed or forgotten, and in the table after.
- `OkMeansPromoted` from `OkInv`, where every deploy is one of every job
  (`EveryJob`); after a filtered deploy it is false of the jobs left out.
- `DeployIsAsPlanned` from `PlanInv`: the dry run reads the committed table, the
  deploy its copy, and what decides is the same in both for a job that has not
  been promoted (`SamePlan`).
- `DrainedStaysDown` and `NoOrphans` from `AstrayInv`, without hypotheses: all
  faults, crashes, edits and collections. The invariant relates what runs to what is
  on record. A process that did not go astray is promoted in the committed table and
  its runner can stop it (`RecordInv`); reconcile finds each stopped allocation in
  its copy as it was committed and leaves none behind that is on record (`VisitInv`,
  `PastInv`); and a job that was sent has its trees and its name in `jobs.json`
  (`SentInv`), or what it starts could not be stopped later. The four steps at which
  a process goes astray are part of the specification, so the theorems say that
  there is no fifth.
- `OrderlyDeploySucceeds` from `OrderlyInv`: in a deploy that started `InOrder` and
  that no fault has hit, whatever a health check may still look at is up. A failed
  health check is the only way left to fail, once every stop can be run, since
  planning, rsync and make fail by faults only.
- `ActiveRunsCatalog` from `ReleaseInv`, under `ReleaseOrder`, for all faults:
  every build is deployed before the next one by deploys of every job that roll
  out, no release (content and version of a job) comes back after another one, and
  `make start` replaces what runs. If a failing command may leave its process down
  (`outage`), there is no `--force` and no reload policy either. `TableRuns` says
  that an allocation promoted as the catalog has it runs that; `HandRuns`, that of
  the job in hand whatever does not is still going to be started, reloaded or
  restarted; `History`, that whatever is promoted was a release of this build or an
  earlier one, so that a build never makes an old promotion look current
  (`BuildKnows`). Each part is needed: the list in section 3 shows a release that
  comes back and a removal undone; an outage in a forced rollout of unchanged
  content is recorded nowhere; a reload does not start what is down. The constants
  of `deploy_rollout` satisfy `ReleaseOrder`.

**OperationsProofs**: `RollingControl` and `CommandContained` from `OperationsInv`. A
job or a script of which something was taken down is at its end, or is health
checked next, which will end it. Builds, deploys and collections next to it only
bring up what the command took down. They may change the catalog, but the command
goes by its snapshot, which is one some build left.

**PortsProofs**: `PortsUnique` and `UsedIsExisting`. The invariant says that inside
a build the used set is exactly the numbers of the map, that the map is injective,
that the rows written so far agree with the map for the jobs that are done and are
empty for the others, so that a commit at the end stores an injective table.
`PoolNumberKept` from `KeptInv`: a port the build has not come to still has its
committed number, for nobody but its own job releases it, and one it has been
through has that number if the pool holds it.

**KVProofs**: `VersionsUnique`, `SessionAheadOfTable`, `SecretsSealed`,
`HealthChecksStoreNothing`, `ReadYourWrites`, `ActiveJobsKeepVars`,
`HistoryBounded` and that `KVSessions` implements `VersionedMap`. There is no unique
constraint on the table, so everything rests on isolation (`Isolated`): a
transaction that may still begin to write has seen the last commit, and one that
has begun is ahead of it while nobody else can commit. Every handler, whoever's
session it works on, makes entries newer and never older (`Grows`), and what a
checkpoint writes is then above every row of its key (`Follows`).
`ActiveJobsKeepVars` from `Sheltered`: a transaction that may still commit sees the
allocations that are committed, for a build or a gc in between would make its
snapshot stale, so no session has purged anything of a job that is in use when it
commits; build and gc purge and commit at once, reconcile purges many checkpoints
before its deploy commits. `HistoryBounded` counts the rows a collection leaves of
a key: none if its newest one is a tombstone.
`HealthChecksStoreNothing` assumes that scripts of other events do not say what a
health check says (`HealthIsTold`), or a row would not tell who wrote it.

**BuildProofs**: `NothingLeftBehind` and `CertsValid` from `BuildInv`. A certificate
that a build keeps is right because of what an earlier build asked for: the
promoted hashes of a job's manifest and of the CA, which move only in a build that
writes the certificates of every allocation in use, say what those are (`CertsInv`).
`SeqRespectsDemands` and `ResourcesFit` are about recursive functions over data (lengths of walks along
demands, sums of reservations). The induction they need goes through the
well-foundedness of a finite order, stated as a property of sets
(`SetInduction`): a walk as long as there are jobs does not exist in an accepted
workspace, so each job has a longest one, and that of a job that demands another is
longer. `ScrapeTargetsExact` from `PrometheusInv`: the keys of the last build list
the jobs that have somewhere to be scraped, as of the allocations of now, because a
gc takes none that is active. A job with an active allocation then has no block that
comes out empty without failing, so either source of the rendering, the keys or the
workspace, gives the same targets (`JobsRenderExactly`), and unique names make a
target tell its job and item. Failing renderings are described for workspaces of
which every job has a target; of the others, `EmptyJobsSkipped` is refuted.
`RebuildChangesNothing` from `RebuildInv`: as long as
the CA is the one the last build promoted, each namespace of that build still says
what its workspace says (`Settled`) and the rows are those its placement gives
(`AsPlaced`), through any deploys, collections and rejected builds. Both need that
the stages of a build have keys of their own (`StagesAre`, `VariablesAre`,
`BuiltKeys`), which is also what makes the four syncs of a repeated build leave
each other's keys alone; of certificates it uses `BuildInv`. That no CA comes back
is part of the invariant: the model numbers them, so a replaced `ca.crt` is new.

**BucketProofs**: `IdentityKept`, `GateMeansReady`, `InitMeansGate`, `DataSurvives`.
The first invariant says that only the holder of the write lock is inside a
transaction, that what it is about to commit starts with the row that is there, and
that a file being written has no content yet. `Prepared` follows the list of files an
init still has to make; `maand.conf`, which is only made together with the row of the
bucket, is there whenever a row is (`Configured`). That a file is there does not say
that it is whole: an init that died while writing one leaves it torn for good. The gate rests on the migration
adding every column and view whatever it finds (`Shaped`), and on the version being
written last; a database of an earlier binary with the current version has a bucket
row (`LegaciesNamed`), since those binaries inserted it in the same transaction. That
a column belongs to a table that is there is an assumption on the databases of
earlier binaries, which TLC evaluates for the 121 of the run.

### Only model-checked

- Liveness: `EveryWaiterServed` of the semaphore and `Converges` of deploy. Fairness
  and ENABLED are out of the prover's reach.
`ActiveRunsCatalog`, `OkMeansPromoted`, `HealthChecksStoreNothing` and the gate
theorems are proved under the hypotheses
named above and not without them.

## 5. What is not modelled, and what comes next

- ssh, rsync and make themselves: a failure is a fault of `Deploy`.
- Parsing and rendering of files, templates, dashboards and runbooks; certificates'
  cryptography; reports (`cat`, `logs`, `workerfacts`, `certs`); argument parsing.
- `job_control` commands inside a rollout; in `maand job` they are modelled.
- How the commands of one event are batched over the allocations of a job, and the
  retries of probes.
- `Build` and `Ports` are separate, for a build composes them without feedback:
  numbers depend on jobs and bindings only. `KVSessions` and `Build` overlap in the
  namespaces both know; the first has the interleavings, the second the detail.

Next: job-control jobs in `Deploy`; an abstract rollout (per job: untouched, in
progress, promoted) that `Deploy` implements.
