----------------------------- MODULE Operations -----------------------------
(* The operator's commands on a deployed bucket: maand job (src/jobcontrol),   *)
(* maand run_command (src/runcommand) and the health checks both use           *)
(* (src/healthcheck), next to the builds, deploys and collections of Deploy.    *)
(*                                                                            *)
(* No lock keeps two maand processes apart.  A command reads its catalog and   *)
(* update_seq from the snapshot its transaction opened (maand.db is in WAL     *)
(* mode) and goes on with it while another process builds or deploys.  One     *)
(* command at a time is modelled, against any number of builds and deploys.    *)
(*                                                                            *)
(* What a make target, a job_control command or a script does to the processes *)
(* it runs against is the operator's: Harm says whether it works, takes them   *)
(* down and fails, or takes them down and reports success.                     *)
EXTENDS DryRun

CONSTANTS Requests,      \* maand job: [jobs, workers, target, health], {} = no filter
          Scripts,       \* maand run_command: [workers, health]
          Concurrency,   \* run_command -c
          Commanded,     \* jobs with job_control commands
          Harms          \* \subseteq {"none", "loud", "silent"}

ASSUME OperationsAssumption ==
    /\ Requests \subseteq [jobs : SUBSET Jobs, workers : SUBSET Workers,
                           target : {"start", "stop", "restart", "status"},
                           health : BOOLEAN]
    /\ Scripts \subseteq [workers : SUBSET Workers, health : BOOLEAN]
    /\ Concurrency \in Nat \ {0}
    /\ Commanded \subseteq Jobs
    /\ Harms \subseteq {"none", "loud", "silent"}

VARIABLE ctl     \* the command in progress

opsVars == <<vars, ctl>>

Calm ==
    [phase   |-> "idle",
     cat     |-> EmptyCatalog,   \* the snapshot
     seq     |-> 0,              \* update_seq in the snapshot
     jobs    |-> {},             \* job filter
     workers |-> {},             \* worker filter of a request
     target  |-> "status",
     health  |-> FALSE,
     harm    |-> "none",
     wave    |-> 0,
     todo    |-> {},             \* slots of the wave still to be controlled
     hosts   |-> {},             \* workers the script has still to run on
     probing |-> {},             \* jobs whose health is checked next
     downed  |-> {}]             \* slots this command took down, still down

OpsInit == Init /\ ctl = Calm

Filtered(S, filter) == IF filter = {} THEN S ELSE S \cap filter

-----------------------------------------------------------------------------
(* maand job. *)

(* validateAgainst: a filter has to name something that exists. *)
ValidFilters(q) ==
    /\ q.jobs = {} \/ q.jobs \cap {JobOf(s) : s \in catalog.rows} # {}
    /\ q.workers = {} \/ q.workers \cap catalog.workers # {}

(* runControl up to the check of the workers. *)
BeginControl(q, harm) ==
    /\ ctl.phase = "idle" /\ builds > 0 /\ ValidFilters(q)
    /\ ctl' = [Calm EXCEPT !.phase = "validate", !.cat = catalog, !.seq = updateSeq,
                           !.jobs = q.jobs, !.workers = q.workers, !.target = q.target,
                           !.health = q.health, !.harm = harm]
    /\ UNCHANGED vars

(* worker.py: worker.json is there and has the update_seq of the snapshot. *)
InStep(w) == seqFile[w] = ctl.seq /\ seqFile[w] # 0

(* filterWorkers.  JobCommand is not told of the filter: job_control commands run
   on every active allocation as soon as the filter leaves one. *)
Targets(j) ==
    LET active == Active(ctl.cat, j)
        chosen == {s \in active : WorkerOf(s) \in Filtered(Workers, ctl.workers)}
    IN  IF j \in Commanded /\ chosen # {} THEN active ELSE chosen

(* The loop of runControl over the deployment sequences. *)
AtWave(n) ==
    [ctl EXCEPT !.phase = "wave", !.wave = n,
                !.todo = UNION {Targets(j) : j \in Filtered(
                                    JobsAtSeq(ctl.cat, DeploymentSeq, n), ctl.jobs)}]

(* ValidateBucketUpdateSeq over every worker of the catalog, whatever the filter. *)
Validate ==
    /\ ctl.phase = "validate"
    /\ \/ (\A w \in ctl.cat.workers : InStep(w)) /\ Faultless /\ ctl' = AtWave(0)
       \/ (\E w \in ctl.cat.workers : ~InStep(w)) /\ Faultless /\ ctl' = Calm
       \/ Fault("connect") /\ ctl' = Calm
    /\ UNCHANGED <<db, hosts, run, ledger, builds, edits>>

(* runner.py <target>: it changes the process of a job it knows. *)
Controlled(s) ==
    IF ~RunnerActs(s) \/ ~RunnerMayWork(s) \/ ctl.target = "status" THEN live[s]
    ELSE IF ctl.target = "stop" \/ ctl.harm # "none" THEN Down
    ELSE IF ctl.target = "start" /\ JobOf(s) \in StartKeeps /\ live[s] # Down THEN live[s]
    ELSE tree[s]

(* runWorkerBatch on the slots B of job j, in parallel and to the end: a failure
   on one of them ends the job, and no health check is made. *)
RunOn(B, j) ==
    LET failed == \E s \in B : ~RunnerMayWork(s) \/ (ctl.harm = "loud" /\ RunnerActs(s))
    IN  /\ live' = [s \in Slots |-> IF s \in B THEN Controlled(s) ELSE live[s]]
        /\ ctl' = [ctl EXCEPT
              !.todo = @ \ (IF failed THEN {s \in Slots : JobOf(s) = j} ELSE B),
              !.probing = IF failed \/ ~ctl.health THEN @ ELSE @ \cup {j},
              !.downed = @ \cup {s \in B : live[s] # Down /\ live'[s] = Down}]
        /\ UNCHANGED <<db, tree, jobsFile, seqFile, run, ledger, bounds>>

(* Slip: max_concurrent_upgrades is not read. *)
ControlBatchOfAll(j, n) == n

ControlBatchSize(j, n) ==
    IF MaxUpgrades[j] < 1 THEN 1 ELSE IF MaxUpgrades[j] > n THEN n ELSE MaxUpgrades[j]

(* One round of the loop of runRunnerTarget, in the order of the catalog. *)
RunnerBatch(j) ==
    LET S == {s \in ctl.todo : JobOf(s) = j}
    IN  /\ ctl.phase = "wave" /\ S # {} /\ j \notin ctl.probing \cup Commanded
        /\ \E B \in SUBSET S :
              /\ Cardinality(B) = ControlBatchSize(j, Cardinality(S))
              /\ \A s \in B, t \in S \ B : Position[WorkerOf(s)] <= Position[WorkerOf(t)]
              /\ RunOn(B, j)

(* runJobControlCommands: the job's own commands replace make and run on all of
   its allocations at once; the first that fails ends the job. *)
ControlCommands(j) ==
    LET S == {s \in ctl.todo : JobOf(s) = j}
    IN  /\ ctl.phase = "wave" /\ S # {} /\ j \in Commanded \ ctl.probing
        /\ RunOn(S, j)

(* Slip: the result of the health check is printed and forgotten. *)
ControlHealthIgnored(j) ==
    /\ ctl.phase = "wave" /\ j \in ctl.probing
    /\ ctl' = [ctl EXCEPT !.probing = @ \ {j}]
    /\ UNCHANGED vars

(* HealthCheck on the snapshot's active allocations. *)
HealthyIn(cat, j) == j \in Probed => \A s \in Active(cat, j) : live[s] # Down

(* The health check after a batch: failing, it ends the job. *)
ControlHealth(j) ==
    /\ ctl.phase = "wave" /\ j \in ctl.probing
    /\ ctl' = [ctl EXCEPT !.probing = @ \ {j},
                          !.todo = IF HealthyIn(ctl.cat, j) THEN @
                                   ELSE {s \in @ : JobOf(s) # j}]
    /\ UNCHANGED vars

(* Failures are collected: the jobs of later sequences are controlled as well. *)
NextControlWave ==
    /\ ctl.phase = "wave" /\ ctl.todo = {} /\ ctl.probing = {}
    /\ ctl' = IF \E j \in Jobs : DeploymentSeq[j] > ctl.wave THEN AtWave(ctl.wave + 1)
              ELSE Calm
    /\ UNCHANGED vars

-----------------------------------------------------------------------------
(* maand run_command. *)

(* resolveTargetWorkerIPs: an unknown worker, or no worker at all, is an error. *)
CommandTargets(q) ==
    IF q.workers \subseteq catalog.workers THEN Filtered(catalog.workers, q.workers) ELSE {}

(* runcommand.Execute up to its loop.  It has touched nothing when the
   prerequisites of a target or the script itself are missing. *)
BeginCommand(q, harm) ==
    /\ ctl.phase = "idle" /\ builds > 0 /\ CommandTargets(q) # {}
    /\ ctl' = [Calm EXCEPT !.phase = "script", !.cat = catalog, !.hosts = CommandTargets(q),
                           !.health = q.health, !.harm = harm]
    /\ UNCHANGED vars

(* Slip: the batch iterator is given no batch size. *)
ScriptBatchOfAll(n) == n

(* NewBatchIterator *)
ScriptBatchSize(n) == IF Concurrency > n THEN n ELSE Concurrency

(* runScriptOnWorkerBatch: an error on any worker of the batch ends the command,
   after the others of the batch have finished. *)
ScriptBatch ==
    /\ ctl.phase = "script" /\ ctl.hosts # {} /\ ctl.probing = {}
    /\ \E B \in SUBSET ctl.hosts :
          /\ Cardinality(B) = ScriptBatchSize(Cardinality(ctl.hosts))
          /\ live' = [s \in Slots |-> IF WorkerOf(s) \in B /\ ctl.harm # "none"
                                      THEN Down ELSE live[s]]
          /\ ctl' = [ctl EXCEPT
                !.hosts = IF ctl.harm = "loud" THEN {} ELSE @ \ B,
                !.probing = IF ctl.health /\ ctl.harm # "loud"
                            THEN {j \in Jobs : ctl.cat.content[j] # None} ELSE {},
                !.downed = @ \cup {s \in Slots : live[s] # Down /\ live'[s] = Down}]
    /\ UNCHANGED <<db, tree, jobsFile, seqFile, run, ledger, bounds>>

(* CheckWorkers: after its retries, the SSH port of some worker is closed. *)
WorkerUnreachable == Fault("connect")

(* RunJobs: the SSH ports of all workers, then every job; any failure ends the
   command before the next batch. *)
ScriptHealth ==
    /\ ctl.phase = "script" /\ ctl.probing # {}
    /\ \/ /\ \A j \in ctl.probing : HealthyIn(ctl.cat, j)
          /\ Faultless
          /\ ctl' = [ctl EXCEPT !.probing = {}]
       \/ /\ IF \A j \in ctl.probing : HealthyIn(ctl.cat, j) THEN WorkerUnreachable ELSE Faultless
          /\ ctl' = [ctl EXCEPT !.probing = {}, !.hosts = {}]
    /\ UNCHANGED <<db, hosts, run, ledger, builds, edits>>

EndScript ==
    /\ ctl.phase = "script" /\ ctl.hosts = {} /\ ctl.probing = {}
    /\ ctl' = Calm
    /\ UNCHANGED vars

-----------------------------------------------------------------------------
OperatorStep ==
    \/ \E harm \in Harms : \/ \E q \in Requests : BeginControl(q, harm)
                           \/ \E q \in Scripts : BeginCommand(q, harm)
    \/ Validate
    \/ \E j \in Jobs : RunnerBatch(j) \/ ControlCommands(j) \/ ControlHealth(j)
    \/ NextControlWave
    \/ ScriptBatch \/ ScriptHealth \/ EndScript

(* A step of a build, deploy or collection may bring up what the command downed. *)
OpsNext ==
    \/ Next /\ ctl' = [ctl EXCEPT !.downed = {s \in @ : live'[s] = Down}]
    \/ OperatorStep

OpsSpec == OpsInit /\ [][OpsNext]_opsVars

-----------------------------------------------------------------------------
(* The damage maand job can do to one job is one batch, even in the middle of a
   deploy or a build: a restart that takes processes down, be it with an error or
   caught by the health check, stops at the first batch (runRunnerTarget). *)
RollingControl ==
    \A j \in Jobs \ Commanded :
        ctl.phase = "wave" /\ ctl.target # "stop"
            /\ (ctl.harm = "loud" \/ (ctl.health /\ j \in Probed))
        => Cardinality({s \in ctl.downed : JobOf(s) = j})
              <= IF MaxUpgrades[j] < 1 THEN 1 ELSE MaxUpgrades[j]

(* The damage of maand run_command is one batch of -c workers, even in the middle
   of a deploy or a build: a script that takes down active processes, be it with
   an error or caught by the health check, does not reach the next batch. *)
CommandContained ==
    ctl.phase = "script" /\ (ctl.harm = "loud" \/ ctl.health) =>
        Cardinality({WorkerOf(s) : s \in {t \in ctl.downed :
            t \in Active(ctl.cat, JobOf(t)) /\ (ctl.harm = "loud" \/ JobOf(t) \in Probed)}})
        <= Concurrency

(* What the documentation promises of the check: the remedy for a refused job
   control is maand deploy, so none is refused when the last deploy succeeded and
   nothing happened since. *)
DeployRemedies ==
    ctl.phase = "validate" /\ ctl'.phase = "idle" /\ faults' = faults
        => ~(result = "ok" /\ ctl.seq = updateSeq)

NotRefusedAfterDeploy == [][DeployRemedies]_opsVars
=============================================================================
