-------------------------------- MODULE Build --------------------------------
(* maand build (build/execute.go) from workspace to catalog: workers and jobs, *)
(* demands between jobs, placement, deployment sequence, worker resources, the *)
(* key-value namespaces a build owns, the certificates of allocations, and the *)
(* Prometheus catalog.                                                         *)
(*                                                                            *)
(* A build is one transaction, so it is one action here; its stages are        *)
(* operators in the order of Execute.  The rows that every build rewrites from *)
(* the workspace (worker, worker_labels, job, job_selectors, job_commands,     *)
(* job_certs) are the workspace of the last build that committed.  The port    *)
(* numbers are in Ports, the sessions that share the store in KVSessions.      *)
EXTENDS Scrape

CONSTANTS Labels,
          Resources,    \* memory and cpu
          CertNames,    \* keys of manifest.certs
          Workspaces,   \* what a build may find
          TTL,          \* certs_ttl, in days
          Buffer,       \* certs_renewal_buffer, in days
          MaxBuilds, MaxDays, MaxCA, MaxWrites  \* bounds

None  == "-"    \* no demand
Unset == -1     \* not in bucket.jobs.conf
Slots == Jobs \X Workers

CommandNames == {"command_x", "command_y"}
Command  == [name : CommandNames, job : Jobs \cup {None}, command : CommandNames \cup {None},
             min : Nat, max : Nat]
CertSpec == [name : CertNames, one : BOOLEAN, subject : Nat]
Manifest ==
    [selectors : SUBSET Labels, version : Nat, min : [Resources -> Nat], max : [Resources -> Nat],
     commands : SUBSET Command, least : Nat, certs : SUBSET CertSpec, prometheus : Monitored]
Workspace ==
    [hosts : Seq(Workers), labels : [Workers -> SUBSET Labels],
     capacity : [Workers -> [Resources -> Nat]], tagged : SUBSET Workers,
     jobs : UNION {[J -> Manifest] : J \in SUBSET Jobs},
     config : [Jobs -> [Resources -> Nat \cup {Unset}]],
     offWorkers : SUBSET Workers,                                       \* disabled.json
     offJobs : UNION {[J -> SUBSET Workers] : J \in SUBSET Jobs},
     vars : SUBSET Jobs,                                                \* with a vars.toml
     purge : BOOLEAN]                                                   \* --purge-job-command-kv

(* The keys modelled of each namespace *)
JobNS(j)      == {<<"maand/job", j, "version">>, <<"maand/job", j, "workers">>,
                  <<"maand/job", j, "rollout_order">>, NameKey(j)}
ConfNS(j)     == {<<"vars/bucket/job", j>>}
VarsNS(j)     == {<<"vars/job", j>>}
SecretsNS(j)  == {<<"secrets/job", j>>}
CertNS(j, h)  == {<<"alloc", j, h, "certs/", c>> : c \in CertNames}
AllocNS(j, h) == CertNS(j, h) \cup {<<"alloc", j, h, "version">>, <<"alloc", j, h, "peer_workers">>}
WorkerNS(h)   == {<<"maand/worker", h, "jobs">>, <<"maand/worker", h, "labels">>}
TagsNS(h)     == {<<"maand/worker/tags", h>>}
SharedNS      == {<<"maand/worker", l>> : l \in Labels} \cup {<<"maand/worker", "certs/ca.crt">>}
BucketNS      == {<<"maand/bucket", "activejobs">>}

PathsOfBuild ==
    (UNION {JobNS(j) \cup ConfNS(j) \cup VarsNS(j) \cup SecretsNS(j) : j \in Jobs})
    \cup (UNION {AllocNS(s[1], s[2]) : s \in Slots})
    \cup (UNION {WorkerNS(h) \cup TagsNS(h) : h \in Workers})
    \cup SharedNS \cup BucketNS \cup PrometheusNS

ASSUME BuildAssumption ==
    /\ Paths = PathsOfBuild /\ IsFiniteSet(Jobs)
    /\ \A w \in Workspaces :
          /\ DOMAIN w = {"hosts", "labels", "capacity", "tagged", "jobs", "config",
                         "offWorkers", "offJobs", "vars", "purge"}
          /\ w.hosts \in Seq(Workers)
          /\ w.capacity \in [Workers -> [Resources -> Nat]]
          /\ w.config \in [Jobs -> [Resources -> Nat \cup {Unset}]]
          /\ DOMAIN w.jobs \subseteq Jobs
          /\ \A j \in DOMAIN w.jobs :
                /\ w.jobs[j] \in Manifest
                /\ \A c, d \in w.jobs[j].certs : c.name = d.name => c = d
    /\ TTL \in Nat \ {0} /\ Buffer \in Nat
    /\ MaxBuilds \in Nat /\ MaxDays \in Nat /\ MaxCA \in Nat /\ MaxWrites \in Nat

VARIABLES
    catalog,        \* the workspace of the last committed build
    alloc,          \* flags of allocation rows, "none" is no row
    seq,            \* deployment_seq of allocation rows
    certHash,       \* hash rows build_certs/<job>
    caHash,         \* hash row build/ca
    kv,             \* what the next command loads from key_value
    ca,             \* the ca.crt in secrets/
    today, builds, writes,
    outcome         \* how the last build ended

rows  == <<catalog, alloc, seq, certHash, caHash, kv>>
vars  == <<rows, ca, today, builds, writes, outcome>>

NoHash    == [current |-> {}, previous |-> {}]     \* no row; {h} is the hash of h
NoCatalog == [hosts |-> <<>>, labels |-> [h \in Workers |-> {}],
              capacity |-> [h \in Workers |-> [r \in Resources |-> 0]], tagged |-> {},
              jobs |-> <<>>, config |-> [j \in Jobs |-> [r \in Resources |-> Unset]],
              offWorkers |-> {}, offJobs |-> <<>>, vars |-> {}, purge |-> FALSE]

Init ==
    /\ catalog = NoCatalog
    /\ alloc = [s \in Slots |-> "none"] /\ seq = [s \in Slots |-> 0]
    /\ certHash = [j \in Jobs |-> NoHash] /\ caHash = NoHash
    /\ kv = NewStore
    /\ ca = 1 /\ today = 0 /\ builds = 0 /\ writes = 0
    /\ outcome = "none"

JobsOf(w)  == DOMAIN w.jobs
HostsOf(w) == ToSet(w.hosts)

NonRemoved(a, j) == {h \in Workers : a[<<j, h>>] \in {"active", "disabled"}}
Active(a, j)     == {h \in Workers : a[<<j, h>>] = "active"}
Allocated(a, j)  == {h \in Workers : a[<<j, h>>] # "none"}

(* A set of workers in the order of their positions *)
InOrder(w, H) == SelectSeq(w.hosts, LAMBDA h : h \in H)

-----------------------------------------------------------------------------
(* BuildWorkers and BuildJobs *)

UniqueHosts(w) == IsInjective(w.hosts)

RemovedWorkers(w) == HostsOf(catalog) \ HostsOf(w)
RemovedJobs(w)    == JobsOf(catalog) \ JobsOf(w)

(* A minimum alone is the maximum too. *)
MaxOf(m, r) == IF m.min[r] # 0 /\ m.max[r] = 0 THEN m.min[r] ELSE m.max[r]

(* current_memory_mb and current_cpu_mhz *)
Requested(w, j, r) ==
    IF w.config[j][r] = Unset THEN MaxOf(w.jobs[j], r) ELSE w.config[j][r]

(* The limits of a manifest, and what bucket.jobs.conf asks for within them.  A
   manifest without limits takes what is asked for. *)
WithinLimits(w, j, r) ==
    LET lo == w.jobs[j].min[r]
        hi == MaxOf(w.jobs[j], r)
    IN  /\ lo <= hi
        /\ \/ w.config[j][r] = Unset
           \/ lo = 0 /\ hi = 0
           \/ lo <= w.config[j][r] /\ w.config[j][r] <= hi

(* ValidateDemandReference: both or none, and of another job *)
WellFormed(j, c) == (c.job = None <=> c.command = None) /\ c.job # j

ValidJobs(w) ==
    \A j \in JobsOf(w) :
        /\ \A r \in Resources : WithinLimits(w, j, r)
        /\ \A c \in w.jobs[j].commands : WellFormed(j, c)

UpdateHash(h, x) == [h EXCEPT !.current = {x}]
HashChanged(h)   == h = NoHash \/ h.current # h.previous
PromoteHash(h)   == [h EXCEPT !.previous = h.current]

(* The hash of manifest.certs, kept for the jobs of the workspace *)
CertHashes(w) ==
    [j \in Jobs |-> IF j \in JobsOf(w) THEN UpdateHash(certHash[j], w.jobs[j].certs)
                    ELSE IF j \in RemovedJobs(w) THEN NoHash ELSE certHash[j]]

-----------------------------------------------------------------------------
(* ValidateJobCommandDemands *)

Demanding(w, j) == {c \in w.jobs[j].commands : c.job # None}
IsDemandTarget(w, j) == \E i \in JobsOf(w) : \E c \in Demanding(w, i) : c.job = j

(* resolveJobVersion: who takes part in a demand has a version. *)
HasVersion(w, j) == w.jobs[j].version # 0
VersionResolved(w, j) == Demanding(w, j) # {} \/ IsDemandTarget(w, j) => HasVersion(w, j)

(* ParseVersionConstraint and Satisfies; 0 is no bound. *)
Satisfies(c, version) ==
    /\ c.min # 0 /\ c.max # 0 => c.min <= c.max
    /\ c.min # 0 => c.min <= version
    /\ c.max # 0 => version <= c.max

ValidDemands(w) ==
    \A j \in JobsOf(w) :
        /\ VersionResolved(w, j)
        /\ \A c \in Demanding(w, j) :
              /\ c.job \in JobsOf(w)
              /\ \E d \in w.jobs[c.job].commands : d.name = c.command
              /\ Satisfies(c, w.jobs[c.job].version)

-----------------------------------------------------------------------------
(* BuildAllocations, ValidateMinAllocationsCount, ValidateWorkerResources *)

(* matchingJobsByLabelsQuery *)
Matches(w, j, h) ==
    /\ w.jobs[j].selectors \subseteq w.labels[h]
    /\ w.jobs[j].selectors # {}

IsDisabled(w, j, h) ==
    \/ h \in w.offWorkers
    \/ j \in DOMAIN w.offJobs /\ (w.offJobs[j] = {} \/ h \in w.offJobs[j])

IsPlaced(w, s) == s[1] \in JobsOf(w) /\ s[2] \in HostsOf(w) /\ Matches(w, s[1], s[2])

Placed(w) ==
    [s \in Slots |->
        IF IsPlaced(w, s) THEN (IF IsDisabled(w, s[1], s[2]) THEN "disabled" ELSE "active")
        ELSE IF alloc[s] = "none" THEN "none" ELSE "removed"]

EnoughAllocations(w, a) ==
    \A j \in JobsOf(w) : Cardinality(NonRemoved(a, j)) >= w.jobs[j].least

(* What a set of jobs asks for together *)
RequestedBy(w, J, r) == MapThenSumSet(LAMBDA j : Requested(w, j, r), J)

Required(w, a, h, r) == RequestedBy(w, {j \in JobsOf(w) : a[<<j, h>>] = "active"}, r)

(* Slip: what is reserved is the minimum. *)
EnoughOfMin(w, a) ==
    \A h \in HostsOf(w), r \in Resources :
        MapThenSumSet(LAMBDA j : w.jobs[j].min[r], {j \in JobsOf(w) : a[<<j, h>>] = "active"})
            <= w.capacity[h][r]

EnoughResources(w, a) ==
    \A h \in HostsOf(w), r \in Resources :
        LET need == Required(w, a, h, r)
        IN  need > 0 => w.capacity[h][r] > 0 /\ w.capacity[h][r] >= need

-----------------------------------------------------------------------------
(* BuildDeploymentSequence *)

(* The jobs with a command that demands one of X *)
Demanders(w, X) == {j \in JobsOf(w) : \E c \in Demanding(w, j) : c.job \in X}

(* The jobs that walks of n demands lead from into X, for each n *)
Walks(w, X) ==
    LET at[n \in 0 .. Cardinality(Jobs)] == IF n = 0 THEN X ELSE Demanders(w, at[n - 1])
    IN  at

(* detectCircularJobCommandDependencies: a walk along demands as long as there
   are jobs comes back to one of them. *)
Circular(w) == Walks(w, JobsOf(w))[Cardinality(Jobs)] # {}

(* The recursive query: a job with a command that demands nothing is at level 0,
   one that demands a job is a level above it. *)
Levels(w) ==
    LET at == Walks(w, {j \in JobsOf(w) : \E c \in w.jobs[j].commands : c.job = None})
    IN  [j \in JobsOf(w) |-> {n \in 0 .. Cardinality(Jobs) : j \in at[n]}]

(* Slip: the first level a job is found at. *)
SequencedFirst(w) ==
    LET levels == Levels(w)
    IN  [s \in Slots |-> IF s[1] \in JobsOf(w) /\ levels[s[1]] # {} THEN Min(levels[s[1]])
                         ELSE IF IsPlaced(w, s) THEN 0 ELSE seq[s]]

(* Every row of a job that has commands gets its highest level. *)
Sequenced(w) ==
    LET levels == Levels(w)
    IN  [s \in Slots |-> IF s[1] \in JobsOf(w) /\ levels[s[1]] # {} THEN Max(levels[s[1]])
                         ELSE IF IsPlaced(w, s) THEN 0 ELSE seq[s]]

-----------------------------------------------------------------------------
(* BuildVariables *)

(* jobShouldPurgeBuildKV *)
OutOfUse(a, j) == Allocated(a, j) # {} /\ NonRemoved(a, j) = {}

Purged(w, a) == RemovedJobs(w) \cup {j \in JobsOf(w) : OutOfUse(a, j)}
Kept(w, a)   == JobsOf(w) \ Purged(w, a)

WorkerVars(w, a) ==
    [p \in UNION {WorkerNS(h) : h \in HostsOf(w)} |->
        IF p[3] = "labels" THEN w.labels[p[2]] ELSE {j \in Jobs : a[<<j, p[2]>>] = "active"}]

TagVars(w) == [p \in UNION {TagsNS(h) : h \in HostsOf(w) \cap w.tagged} |-> "tags"]

JobVars(w, a) ==
    [p \in UNION {JobNS(j) : j \in Kept(w, a)} |->
        IF p[3] = "version" THEN w.jobs[p[2]].version
        ELSE IF p[3] = "job_name" THEN p[2] ELSE InOrder(w, Active(a, p[2]))]

ConfVars(w, a) ==
    [p \in UNION {ConfNS(j) : j \in {i \in Kept(w, a) : \E r \in Resources : w.config[i][r] # Unset}} |->
        w.config[p[2]]]

(* mergeWorkspaceJobVars: the file wins, other keys stay *)
FileVars(w, a) == [p \in UNION {VarsNS(j) : j \in Kept(w, a) \cap w.vars} |-> "vars.toml"]

SharedVars(w) ==
    [p \in {<<"maand/worker", l>> : l \in {m \in Labels : \E h \in HostsOf(w) : m \in w.labels[h]}}
           \cup {<<"maand/worker", "certs/ca.crt">>} |->
        IF p[2] = "certs/ca.crt" THEN ca ELSE InOrder(w, {h \in Workers : p[2] \in w.labels[h]})]

BucketVars(w, a) == [p \in BucketNS |-> {j \in JobsOf(w) : Active(a, j) # {}}]

(* The namespaces that are rewritten or cleared: those of workers and jobs in
   use, of workers and jobs that left, and of jobs without allocations; what
   scripts stored goes with a job only if --purge says so. *)
VariableScope(w, a) ==
    (UNION {WorkerNS(h) \cup TagsNS(h) : h \in HostsOf(w)})
    \cup (UNION {WorkerNS(h) \cup UNION {AllocNS(j, h) : j \in {i \in Jobs : a[<<i, h>>] # "none"}}
                 : h \in RemovedWorkers(w)})
    \cup (UNION {JobNS(j) \cup ConfNS(j) : j \in JobsOf(w) \cup RemovedJobs(w)})
    \cup (UNION {UNION {AllocNS(j, h) : h \in Allocated(a, j)} : j \in Purged(w, a)})
    \cup (IF w.purge THEN UNION {VarsNS(j) \cup SecretsNS(j) : j \in Purged(w, a)} ELSE {})
    \cup SharedNS \cup BucketNS

WithVariables(w, a) ==
    Sync(kv, Together({WorkerVars(w, a), TagVars(w), JobVars(w, a), ConfVars(w, a), FileVars(w, a),
                       SharedVars(w), BucketVars(w, a)}),
         VariableScope(w, a))

-----------------------------------------------------------------------------
(* BuildCerts *)

CAHash == UpdateHash(caHash, ca)

Certificate(subject, hosts) ==
    [ca |-> ca, subject |-> subject, hosts |-> hosts, until |-> today + TTL, build |-> builds + 1]

(* CertNeedsRenewal *)
NeedsRenewal(cert) == today >= cert.until \/ (Buffer > 0 /\ today >= cert.until - Buffer)

CertPath(j, h, spec) == <<"alloc", j, h, "certs/", spec.name>>

(* workerCertNeedsRegeneration *)
WorkerNeeds(s, j, h, spec) ==
    LET p == CertPath(j, h, spec) IN ~Live(s, p) \/ NeedsRenewal(s[p].value.text)

(* Slip: of a shared certificate, only the worker it would be copied from is
   looked at. *)
RegenerateByFirst(w, a, s, j, spec) ==
    \/ HashChanged(CAHash) \/ HashChanged(CertHashes(w)[j])
    \/ \E h \in NonRemoved(a, j) :
          WorkerNeeds(s, j, h, spec) /\ (spec.one => h = CHOOSE i \in NonRemoved(a, j) : TRUE)

(* certNeedsRegeneration: one worker that needs it is enough for all. *)
Regenerate(w, a, s, j, spec) ==
    \/ HashChanged(CAHash) \/ HashChanged(CertHashes(w)[j])
    \/ \E h \in NonRemoved(a, j) : WorkerNeeds(s, j, h, spec)

(* buildSharedCertPEM of the first worker in the order of addresses, or
   buildWorkerCertPEM *)
CertOf(w, a, s, j, h, spec) ==
    LET hosts == NonRemoved(a, j)
        first == CHOOSE i \in hosts : TRUE
        from  == IF spec.one THEN first ELSE h
    IN  IF Regenerate(w, a, s, j, spec)
        THEN Certificate(spec.subject, IF spec.one THEN hosts ELSE {h})
        ELSE s[CertPath(j, from, spec)].value.text

CertSpecs(w, j) == IF j \in JobsOf(w) THEN w.jobs[j].certs ELSE {}

CertVars(w, a, s) ==
    [p \in UNION {{CertPath(t[1], t[2], spec) : spec \in CertSpecs(w, t[1])}
                  : t \in {u \in Slots : u[2] \in NonRemoved(a, u[1])}} |->
        CertOf(w, a, s, p[2], p[3], CHOOSE spec \in CertSpecs(w, p[2]) : spec.name = p[5])]

(* Slip: syncCertKeyValues clears the whole namespace of an allocation. *)
CertScopeFull(w, a, j) ==
    UNION {AllocNS(j, h) : h \in (IF CertSpecs(w, j) = {} \/ NonRemoved(a, j) = {}
                                 THEN Allocated(a, j) ELSE NonRemoved(a, j))}

(* syncCertKeyValues of the allocations that have certificates, or
   purgeJobAllocationCertKV *)
CertScope(w, a, j) ==
    UNION {CertNS(j, h) : h \in (IF CertSpecs(w, j) = {} \/ NonRemoved(a, j) = {}
                                 THEN Allocated(a, j) ELSE NonRemoved(a, j))}

WithCerts(w, a, s) == Sync(s, CertVars(w, a, s), UNION {CertScope(w, a, j) : j \in Jobs})

(* The hashes of allocated jobs are promoted as their certificates are written. *)
PromotedHashes(w, a) ==
    [j \in Jobs |-> IF Allocated(a, j) # {} THEN PromoteHash(CertHashes(w)[j]) ELSE CertHashes(w)[j]]

-----------------------------------------------------------------------------
(* BuildJobAllocationVariables *)

AllocVars(w, a) ==
    [p \in {<<"alloc", t[1], t[2], "peer_workers">> :
               t \in {u \in Slots : u[1] \in JobsOf(w) /\ u[2] \in NonRemoved(a, u[1])}} |->
        InOrder(w, NonRemoved(a, p[2]) \ {p[3]})]

(* What the sync of allocations that are there owns.  Slip, if it is all: those
   that left keep their namespace. *)
AllocScopeInUse(w, a) ==
    UNION {AllocNS(t[1], t[2]) \ (CertNS(t[1], t[2]) \cup {<<"alloc", t[1], t[2], "version">>})
           : t \in {u \in Slots : u[1] \in JobsOf(w) /\ u[2] \in NonRemoved(a, u[1])}}

(* syncAllocationKeyValues spares certificates and the version that deploy
   writes; of removed allocations, and of jobs that left, nothing is spared. *)
AllocScope(w, a) ==
    AllocScopeInUse(w, a)
    \cup UNION {AllocNS(t[1], t[2]) : t \in {u \in Slots : /\ u[1] \in JobsOf(w) \cup RemovedJobs(w)
                                                           /\ a[u] = "removed"}}

WithAllocations(w, a, s) == Sync(s, AllocVars(w, a), AllocScope(w, a))

-----------------------------------------------------------------------------
(* promconfig.BuildCatalog *)

Monitoring(w) == [j \in JobsOf(w) |-> w.jobs[j].prometheus]
ActiveOf(a)   == [j \in Jobs |-> Active(a, j)]

(* Slip: the catalog is made of the allocations before this build. *)
WithScrapesOfOld(w, a, s) == WithPrometheus(Monitoring(w), ActiveOf(alloc), s)

WithScrapes(w, a, s) == WithPrometheus(Monitoring(w), ActiveOf(a), s)

-----------------------------------------------------------------------------
Accepted(w) ==
    /\ UniqueHosts(w) /\ ValidJobs(w) /\ ValidDemands(w)
    /\ EnoughAllocations(w, Placed(w))
    /\ ~Circular(w)
    /\ ValidMonitoring(Monitoring(w))
    /\ EnoughResources(w, Placed(w))

(* A build of workspace w.  What it finds wrong, it finds before its commit. *)
Build(w) ==
    /\ builds < MaxBuilds
    /\ IF Accepted(w)
       THEN LET a == Placed(w)
                s == WithScrapes(w, a, WithAllocations(w, a, WithCerts(w, a, WithVariables(w, a))))
            IN  /\ catalog' = w /\ alloc' = a /\ seq' = Sequenced(w)
                /\ certHash' = PromotedHashes(w, a) /\ caHash' = PromoteHash(CAHash)
                /\ kv' = Clean(s)
                /\ outcome' = "ok" /\ builds' = builds + 1
       ELSE outcome' = "rejected" /\ UNCHANGED <<rows, builds>>
    /\ UNCHANGED <<ca, today, writes>>

(* A deploy records the version of the allocations it rolled out
   (syncAllocationVersionKV), and job commands store variables. *)
Deploy ==
    /\ writes < MaxWrites /\ builds < MaxBuilds /\ writes' = writes + 1
    /\ LET running == {j \in JobsOf(catalog) : Active(alloc, j) # {}}
       IN  kv' = Clean(Sync(kv, [p \in UNION {{<<"alloc", j, h, "version">> : h \in NonRemoved(alloc, j)}
                                              \cup VarsNS(j) \cup SecretsNS(j) : j \in running}
                                    |-> "deployed"], {}))
    /\ UNCHANGED <<catalog, alloc, seq, certHash, caHash, ca, today, builds, outcome>>

(* gc: rows and namespaces of removed allocations, and the namespaces of jobs
   that lost one and have none active *)
Collect ==
    LET removed == {s \in Slots : alloc[s] = "removed"}
        gone    == {j \in Jobs : (\E s \in removed : s[1] = j) /\ Active(alloc, j) = {}}
    IN  /\ removed # {}
        /\ alloc' = [s \in Slots |-> IF s \in removed THEN "none" ELSE alloc[s]]
        /\ kv' = Clean(PurgePaths(kv, (UNION {AllocNS(s[1], s[2]) : s \in removed}) \cup
                           (UNION {JobNS(j) \cup ConfNS(j) \cup VarsNS(j) \cup SecretsNS(j) : j \in gone})))
        /\ seq' = [s \in Slots |-> IF s \in removed THEN 0 ELSE seq[s]]
        /\ UNCHANGED <<catalog, certHash, caHash, ca, today, builds, writes, outcome>>

(* Somebody replaces secrets/ca.crt and ca.key. *)
ReplaceCA ==
    /\ ca < MaxCA /\ builds < MaxBuilds /\ ca' = ca + 1
    /\ UNCHANGED <<rows, today, builds, writes, outcome>>

Tick ==
    /\ today < MaxDays /\ builds < MaxBuilds /\ today' = today + 1
    /\ UNCHANGED <<rows, ca, builds, writes, outcome>>

Next ==
    \/ \E w \in Workspaces : Build(w)
    \/ Deploy \/ Collect \/ ReplaceCA \/ Tick

Spec == Init /\ [][Next]_vars

-----------------------------------------------------------------------------
(* Properties. *)

(* deploy runs the waves of the sequence in order, so a job must come after
   every job its commands demand, on whatever workers they are and however many
   demands lead to it (docs/reference/deployment-sequence.md). *)
SeqRespectsDemands ==
    \A s, t \in Slots :
        /\ alloc[s] \in {"active", "disabled"} /\ alloc[t] \in {"active", "disabled"}
        /\ \E c \in Demanding(catalog, s[1]) : c.job = t[1]
        => seq[s] > seq[t]

(* What the active jobs of a worker ask for together is what it has, through
   every change of limits, configuration, placement and disabled.json. *)
ResourcesFit ==
    \A h \in HostsOf(catalog), r \in Resources :
        Required(catalog, alloc, h, r) <= catalog.capacity[h][r]

(* After a build every allocation in use has the certificates of its manifest:
   by the CA of that build, for its own address, not due for renewal, and the
   same one on all workers if the manifest says one. *)
CertsValid ==
    [][builds' # builds /\ outcome' = "ok" =>
        \A j \in JobsOf(catalog') : \A spec \in CertSpecs(catalog', j), h \in NonRemoved(alloc', j) :
            LET p == CertPath(j, h, spec)
                c == kv'[p].value.text
            IN  /\ Live(kv', p)
                /\ c.ca = ca /\ h \in c.hosts /\ c.subject = spec.subject
                /\ Buffer < TTL => ~NeedsRenewal(c)
                /\ spec.one => \A i \in NonRemoved(alloc', j) : kv'[CertPath(j, i, spec)].value = kv'[p].value
       ]_vars

(* A build or gc leaves no live key, no private key above all, of an allocation
   that is not in use, and no certificate that its manifest no longer has. *)
NothingLeftBehind ==
    \A s \in Slots : \A p \in AllocNS(s[1], s[2]) :
        Live(kv, p) => /\ alloc[s] \in {"active", "disabled"}
                       /\ p \in CertNS(s[1], s[2]) => \E spec \in CertSpecs(catalog, s[1]) : spec.name = p[5]

(* A build of what the last one built, with no certificate due and the same CA,
   changes nothing: no new version of any key, no new certificate ("repeat
   builds without config changes do not churn certificates",
   docs/reference/certs.md:139).  vars.toml may win back what a script wrote, a job
   without active allocations gets the namespaces back that gc purged, and the
   job_name of a job that is scraped under another name is put twice, as the name
   of the job and as the other. *)
RebuildChangesNothing ==
    [][builds' # builds /\ outcome' = "ok" /\ catalog' = catalog /\ caHash.current = {ca}
       /\ (\A s \in Slots : \A p \in CertNS(s[1], s[2]) : Live(kv, p) => ~NeedsRenewal(kv[p].value.text)) =>
          \A p \in Paths :
             kv'[p].version # kv[p].version =>
                \/ p[1] \in {"vars/job", "secrets/job"}
                \/ p[1] \in {"maand/job", "vars/bucket/job"} /\ Active(alloc, p[2]) = {}
                \/ \E j \in Jobs : p = NameKey(j) /\ kv[p].value.text # j]_vars

(* A job whose targets expand to nothing: each names a port of a worker, and no
   such worker is active. *)
NothingToScrape(m, active, j) ==
    \A t \in TargetsOf(m[j].items) : Expanded(j, t, m[j].ports, active[j]) = {}

(* What {{ scrapeConfigs }} renders, from the keys of one build and the rows that
   builds and gc have left since, is every port of every active allocation of the
   job that asks for it and nothing of other workers (docs/guides/prometheus.md:90),
   under a name no other job uses (:84).  As long as every job has a target, it
   fails only for a worker that was named and is not active, or for a block
   without targets; EmptyJobsSkipped is about the other jobs. *)
ScrapeTargetsExact ==
    LET m      == Monitoring(catalog)
        active == ActiveOf(alloc)
        r      == Rendered(kv, m, active, m)
    IN  HasServer(m) =>
        /\ ~r.fails => \A x \in ItemsOf(m) : LET i == m[x[1]].items[x[2]] IN
              \A t \in TargetsOf(<<i>>) : t.port # Address /\ t.pin = Nobody =>
                  \A h \in Workers, p \in PortsOf(x[1], t, m[x[1]].ports) :
                      <<Resolved(x[1], i), h, p>> \in r.targets <=> h \in Active(alloc, x[1])
        /\ r.fails /\ (\A j \in Scraped(m) : ~NothingToScrape(m, active, j)) =>
              \E j \in Scraped(m) :
                 \/ {} \in ToSet(Blocks(m[j].items))
                 \/ \E t \in Placeholders(m[j].items) : t.pin \notin {Nobody} \cup Active(alloc, j)

(* "At deploy, jobs with zero expanded targets are skipped (not an error)"
   (docs/guides/prometheus.md:172): a rendering fails only for a job that has a
   target, or for a scrape file with a block that has none. *)
EmptyJobsSkipped ==
    LET m      == Monitoring(catalog)
        active == ActiveOf(alloc)
    IN  HasServer(m) /\ Rendered(kv, m, active, m).fails =>
        \E j \in Scraped(m) :
           /\ ExpandScrapeConfigs(j, m[j].items, m[j].ports, m[j].ports, active[j]).fails
           /\ ~NothingToScrape(m, active, j) \/ {} \in ToSet(Blocks(m[j].items))
=============================================================================
