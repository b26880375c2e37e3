----------------------------- MODULE KVSessions -----------------------------
(* The maand commands that read and write the key-value store, as processes    *)
(* that share one SQLite database and one port for the runtime API:            *)
(*   build        the catalog transaction, VACUUM, then post_build hooks        *)
(*   deploy       reconcile, pre_deploy hooks and rollouts with checkpoints     *)
(*   cli          maand job_command                                            *)
(*   gc           maand gc                                                     *)
(*   health       maand health_check                                           *)
(* Nothing keeps two of them from running at the same time.                    *)
EXTENDS RuntimeAPI, Sequences

CONSTANTS Procs,        \* shells in which somebody runs maand
          None,
          JobOrder,     \* the jobs, by deployment sequence and name
          Kinds,        \* commands that are run
          Flags,        \* what a build may make of the allocations
          Payloads,     \* requests that scripts make: <<op, path>>
          Says,         \* what they write, by event
          RetainDays,   \* the retention of a build (7) and of gc (its flag)
          MaxSessions, MaxRequests, MaxDays     \* bounds

AllKinds == {"build", "deploy", "cli", "gc", "health"}
Events   == {"post_build", "pre_deploy", "post_deploy", "cli", "health_check"}
Ops      == {"put", "delete", "put secret", "delete secret"}

ASSUME SessionsAssumption ==
    /\ None \notin Procs
    /\ JobOrder \in Seq(Jobs)
    /\ Kinds \subseteq AllKinds
    /\ Flags \subseteq [Slots -> {"none", "active", "disabled"}]
    /\ Payloads \subseteq Ops \X Paths
    /\ Says \in [Events -> SUBSET Values]
    /\ {"default", "v1"} \subseteq Values
    /\ RetainDays \in [{"build", "gc"} -> Nat]
    /\ MaxSessions \in Nat /\ MaxRequests \in Nat /\ MaxDays \in Nat

VARIABLES
    rows,       \* key_value, committed
    alloc,      \* the flags of allocation rows, committed; "none" is no row
    lock,       \* the process that holds SQLite's write lock
    owner,      \* the process that listens on localhost:8080
    pc, kind,   \* where each process is, and the command it runs
    store,      \* kv.sessionStore of each process
    txRows, txAlloc,    \* what its transaction sees
    fresh,      \* nobody committed since its transaction took its snapshot
    work,       \* the hooks it has still to run: <<event, job>>
    errs,       \* one of them failed
    today, sessions, requests

db    == <<rows, alloc>>
tx    == <<txRows, txAlloc, fresh>>
count == <<today, sessions, requests>>
vars  == <<db, lock, owner, pc, kind, store, tx, work, errs, count>>

NoAlloc == [s \in Slots |-> "none"]

-----------------------------------------------------------------------------
(* Slip: a writer does not mind that its snapshot is old. *)
CanWriteStale(p) == lock = p \/ lock = None

(* SQLite in WAL mode with a busy timeout: one writer, and a transaction that
   read before somebody else committed can no longer write. *)
CanWrite(p) == lock = p \/ (lock = None /\ fresh[p])

(* GetActiveAllocations, GetNonRemovedAllocations, GetAllocatedWorkers *)
ActiveWorkers(a, j)     == {w \in Workers : a[<<j, w>>] = "active"}
NonRemovedWorkers(a, j) == {w \in Workers : a[<<j, w>>] \in {"active", "disabled"}}
AllocatedWorkers(a, j)  == {w \in Workers : a[<<j, w>>] # "none"}

Hooks(event) == [i \in DOMAIN JobOrder |-> <<event, JobOrder[i]>>]

(* The process is gone: its transaction rolls back if it has not committed, its
   session store is lost and the port is free. *)
Quit(p) ==
    /\ pc' = [pc EXCEPT ![p] = "off"] /\ kind' = [kind EXCEPT ![p] = "build"]
    /\ lock' = (IF lock = p THEN None ELSE lock)
    /\ owner' = (IF owner = p THEN None ELSE owner)
    /\ store' = [store EXCEPT ![p] = NewStore]
    /\ txRows' = [txRows EXCEPT ![p] = {}] /\ txAlloc' = [txAlloc EXCEPT ![p] = NoAlloc]
    /\ work' = [work EXCEPT ![p] = <<>>] /\ errs' = [errs EXCEPT ![p] = FALSE]

(* What a commit does to the snapshots of the others; one that wrote nothing
   does nothing. *)
Stales(p, wrote) == fresh' = [q \in Procs |-> fresh[q] /\ q # p /\ ~wrote]

(* tx.Begin and kv.Initialize *)
Snapshot(p) ==
    /\ store' = [store EXCEPT ![p] = Load(rows)]
    /\ txRows' = [txRows EXCEPT ![p] = rows] /\ txAlloc' = [txAlloc EXCEPT ![p] = alloc]

(* StartRuntimeAPI: if the port is taken the error is logged, no more.  Scripts
   then talk to the process that has the port. *)
Listen(p) == owner' = IF owner = None THEN p ELSE owner

-----------------------------------------------------------------------------
(* The start of a command.  UpdateSeq of a deploy commits a transaction of its
   own first.  A post_build hook needs the catalog: its API starts later. *)
Start(p, k) ==
    /\ pc[p] = "off" /\ sessions < MaxSessions /\ k \in Kinds
    /\ k = "deploy" => lock = None
    /\ kind' = [kind EXCEPT ![p] = k] /\ sessions' = sessions + 1
    /\ Snapshot(p)
    /\ fresh' = [q \in Procs |-> q = p \/ (fresh[q] /\ k # "deploy")]
    /\ IF k \in {"build", "gc"}
       THEN /\ pc' = [pc EXCEPT ![p] = "catalog"] /\ UNCHANGED <<owner, work>>
       ELSE /\ pc' = [pc EXCEPT ![p] = IF k = "deploy" THEN "reconcile" ELSE "hooks"]
            /\ Listen(p)
            /\ work' = [work EXCEPT ![p] =
                 CASE k = "deploy" -> Hooks("pre_deploy") \o Hooks("post_deploy")
                   [] k = "cli"    -> Hooks("cli")
                   [] k = "health" -> Hooks("health_check")]
    /\ UNCHANGED <<db, lock, errs, today, requests>>

(* BuildAllocations: rows of placements that are gone stay, as removed. *)
Placed(a, f) ==
    [s \in Slots |-> IF f[s] # "none" THEN f[s]
                     ELSE IF a[s] = "none" THEN "none" ELSE "removed"]

(* jobShouldPurgeBuildKV: there are rows, and all of them are removed *)
OutOfUse(a, j) == AllocatedWorkers(a, j) # {} /\ NonRemovedWorkers(a, j) = {}

(* What the variables of a build do to the paths of this model: namespaces of
   jobs out of use are purged, with --purge-job-kv what their commands wrote
   too; rollout_order of the others goes back to the default; the version of an
   allocation that is left is kept. *)
SyncedByBuild(s, a, purge) ==
    LET gone   == {j \in Jobs : OutOfUse(a, j)}
        purged == PurgePaths(s, {Catalog(j) : j \in gone}
                                \cup (IF purge THEN {Vars(j) : j \in gone} \cup {Secrets(j) : j \in gone}
                                      ELSE {})
                                \cup {AllocOf(t[1], t[2]) : t \in {u \in Slots : a[u] = "removed"}})
        used   == {Catalog(j) : j \in {i \in Jobs : NonRemovedWorkers(a, i) # {}}}
    IN  [p \in Paths |-> IF p \in used THEN Put(purged, p, "default")[p] ELSE purged[p]]

(* A bucket after its first build. *)
Init ==
    /\ alloc \in Flags /\ rows = Inserted(SyncedByBuild(NewStore, alloc, FALSE), 0)
    /\ lock = None /\ owner = None
    /\ pc = [p \in Procs |-> "off"] /\ kind = [p \in Procs |-> "build"]
    /\ store = [p \in Procs |-> NewStore]
    /\ txRows = [p \in Procs |-> {}] /\ txAlloc = [p \in Procs |-> NoAlloc]
    /\ fresh = [p \in Procs |-> FALSE]
    /\ work = [p \in Procs |-> <<>>] /\ errs = [p \in Procs |-> FALSE]
    /\ today = 0 /\ sessions = 0 /\ requests = 0

(* The catalog transaction of a build.  History is purged before the new
   entries are written. *)
BuildCatalog(p) ==
    /\ pc[p] = "catalog" /\ kind[p] = "build" /\ CanWrite(p)
    /\ \E f \in Flags, purge \in BOOLEAN :
          LET a == Placed(txAlloc[p], f)
              s == SyncedByBuild(store[p], a, purge)
          IN  /\ rows' = PurgeStale(txRows[p], RetainDays["build"], today) \cup Inserted(s, today)
              /\ alloc' = a
    /\ Stales(p, TRUE)
    /\ pc' = [pc EXCEPT ![p] = "vacuum"]
    /\ UNCHANGED <<lock, owner, kind, store, txRows, txAlloc, work, errs, count>>

(* VACUUM fails while somebody writes; runPostBuildHooks loads the store again. *)
PostBuild(p) ==
    /\ pc[p] = "vacuum"
    /\ IF lock # None THEN Quit(p) /\ fresh' = fresh
       ELSE /\ Snapshot(p) /\ fresh' = [fresh EXCEPT ![p] = TRUE]
            /\ Listen(p)
            /\ work' = [work EXCEPT ![p] = Hooks("post_build")]
            /\ pc' = [pc EXCEPT ![p] = "hooks"]
            /\ UNCHANGED <<lock, kind, errs>>
    /\ UNCHANGED <<db, count>>

(* Slip: whoever lost an allocation is purged. *)
PurgedByGCAll(a) == {j \in Jobs : \E w \in Workers : a[<<j, w>>] = "removed"}

(* purgeRemovedJobNamespaces *)
PurgedByGC(a) ==
    {j \in Jobs : (\E w \in Workers : a[<<j, w>>] = "removed") /\ ActiveWorkers(a, j) = {}}

(* gc: the references to removed allocations, their rows, then old history. *)
Collect(p) ==
    /\ pc[p] = "catalog" /\ kind[p] = "gc" /\ CanWrite(p)
    /\ LET removed == {t \in Slots : txAlloc[p][t] = "removed"}
           s == PurgePaths(store[p], {AllocOf(t[1], t[2]) : t \in removed}
                                     \cup UNION {JobPaths(j) : j \in PurgedByGC(txAlloc[p])})
       IN  /\ rows' = PurgeStale(txRows[p] \cup Inserted(s, today), RetainDays["gc"], today)
           /\ alloc' = [t \in Slots |-> IF t \in removed THEN "none" ELSE txAlloc[p][t]]
    /\ Stales(p, TRUE)
    /\ Quit(p)
    /\ UNCHANGED count

-----------------------------------------------------------------------------
(* PersistToTransaction inside the transaction of p: takes the write lock. *)
Checkpoint(p, s) ==
    /\ txRows' = [txRows EXCEPT ![p] = @ \cup Inserted(s, today)]
    /\ store' = [store EXCEPT ![p] = Clean(s)]
    /\ lock' = p

(* Slip: whoever was stopped on a worker is purged. *)
PurgedByReconcileAll(a) == {j \in Jobs : \E w \in Workers : a[<<j, w>>] = "removed"}

(* The jobs that purgeJobCommandKVForInactiveJobs does not retain. *)
PurgedByReconcile(a) == {j \in Jobs : OutOfUse(a, j)}

(* purgeJobCommandKVForInactiveJobs, at the end of reconcile.  Reconcile has
   removed the hashes of removed allocations by then. *)
Reconcile(p) ==
    /\ pc[p] = "reconcile"
    /\ pc' = [pc EXCEPT ![p] = "hooks"]
    /\ LET a == txAlloc[p]
           s == PurgePaths(store[p],
                  UNION {JobPaths(j) \cup {AllocOf(j, w) : w \in AllocatedWorkers(a, j)} :
                           j \in PurgedByReconcile(a)})
       IN  IF \A t \in Slots : a[t] # "removed"
           THEN UNCHANGED <<store, txRows, lock>>
           ELSE CanWrite(p) /\ Checkpoint(p, s)
    /\ UNCHANGED <<db, owner, kind, txAlloc, fresh, work, errs, count>>

(* The events of which scripts run while p works on the head of its hooks; a
   rollout checks the health of its job. *)
EventsOf(p) ==
    LET e == Head(work[p])[1]
    IN  IF e = "post_deploy" THEN {e, "health_check"} ELSE {e}

(* A script of p makes a request: the process that has the port answers it from
   its own session store and its own view of the allocations. *)
Serve(p, w, e, op, path, v) ==
    /\ pc[p] = "hooks" /\ work[p] # <<>> /\ requests < MaxRequests /\ owner # None
    /\ w \in ActiveWorkers(txAlloc[p], Head(work[p])[2])
    /\ e \in EventsOf(p) /\ <<op, path>> \in Payloads /\ v \in Says[e]
    /\ LET c == <<Head(work[p])[2], w>>
           r == IF txAlloc[owner][c] = "none" THEN Answer("refused", store[owner])
                ELSE Handle(store[owner], c, e, [op |-> op, path |-> path, value |-> v])
       IN  store' = [store EXCEPT ![owner] = r.store]
    /\ requests' = requests + 1
    /\ UNCHANGED <<db, lock, owner, pc, kind, tx, work, errs, today, sessions>>

(* syncAllocationVersionKV of the allocations of a job *)
PutVersions(s, a, j) ==
    [p \in Paths |-> IF p \in {AllocOf(j, w) : w \in NonRemovedWorkers(a, j)}
                     THEN PutValue(s[p], Plain("v1")) ELSE s[p]]

(* A job command of a deploy ends.  After pre_deploy a job that failed is left
   out; a rollout is followed by a checkpoint whether it failed or not. *)
DeployHookDone(p, ok) ==
    /\ pc[p] = "hooks" /\ kind[p] = "deploy" /\ work[p] # <<>>
    /\ errs' = [errs EXCEPT ![p] = @ \/ ~ok]
    /\ LET e == Head(work[p])[1]
           j == Head(work[p])[2]
           a == txAlloc[p]
       IN  \/ /\ e = "pre_deploy" /\ ok /\ CanWrite(p)
              /\ Checkpoint(p, PutVersions(store[p], a, j))
              /\ work' = [work EXCEPT ![p] = Tail(@)]
           \/ /\ e = "pre_deploy" /\ ~ok
              /\ work' = [work EXCEPT ![p] = SelectSeq(Tail(@), LAMBDA x : x # <<"post_deploy", j>>)]
              /\ UNCHANGED <<store, txRows, lock>>
           \/ /\ e = "post_deploy" /\ CanWrite(p)
              /\ Checkpoint(p, PutVersions(store[p], a, j))
              /\ work' = [work EXCEPT ![p] = Tail(@)]
    /\ UNCHANGED <<db, owner, pc, kind, txAlloc, fresh, count>>

(* A job command of job_command, health_check or post_build ends. *)
HookDone(p, ok) ==
    /\ pc[p] = "hooks" /\ kind[p] # "deploy" /\ work[p] # <<>>
    /\ errs' = [errs EXCEPT ![p] = @ \/ ~ok]
    /\ work' = [work EXCEPT ![p] = Tail(@)]
    /\ UNCHANGED <<db, lock, owner, pc, kind, store, tx, count>>

(* What the session leaves in the database when it ends without an error of its
   own: a deploy what it checkpointed, job_command and post_build what is
   pending, health_check nothing. *)
Leaves(p) ==
    CASE kind[p] = "deploy"                    -> txRows[p]
      [] kind[p] = "cli"                       -> txRows[p] \cup Inserted(store[p], today)
      [] kind[p] = "build" /\ ~errs[p]         -> txRows[p] \cup Inserted(store[p], today)
      [] kind[p] = "build" /\ errs[p]          -> rows
      [] kind[p] = "health"                    -> rows

Writes(p) == lock = p \/ (kind[p] \in {"cli", "build"} /\ Leaves(p) # rows)

Finish(p) ==
    /\ pc[p] = "hooks" /\ work[p] = <<>>
    /\ Writes(p) => CanWrite(p)
    /\ rows' = (IF Writes(p) THEN Leaves(p) ELSE rows)
    /\ Stales(p, Writes(p))
    /\ Quit(p)
    /\ UNCHANGED <<alloc, count>>

(* A crash, an error of a step that is not modelled, or a write that found the
   database locked or its snapshot old. *)
Abort(p) ==
    /\ pc[p] # "off"
    /\ Quit(p)
    /\ Stales(p, FALSE)
    /\ UNCHANGED <<db, count>>

Tick ==
    /\ today < MaxDays
    /\ today' = today + 1
    /\ UNCHANGED <<db, lock, owner, pc, kind, store, tx, work, errs, sessions, requests>>

Request(p) ==
    \E w \in Workers, e \in Events, x \in Payloads : \E v \in Says[e] : Serve(p, w, e, x[1], x[2], v)

Next ==
    \/ \E p \in Procs :
          \/ \E k \in AllKinds : Start(p, k)
          \/ BuildCatalog(p) \/ PostBuild(p) \/ Collect(p) \/ Reconcile(p)
          \/ Request(p)
          \/ \E ok \in BOOLEAN : DeployHookDone(p, ok) \/ HookDone(p, ok)
          \/ Finish(p) \/ Abort(p)
    \/ Tick

Spec == Init /\ [][Next]_vars

-----------------------------------------------------------------------------
(* Properties. *)

TypeOK ==
    /\ rows \subseteq Row /\ alloc \in [Slots -> {"none", "active", "disabled", "removed"}]
    /\ lock \in Procs \cup {None} /\ owner \in Procs \cup {None}
    /\ pc \in [Procs -> {"off", "catalog", "vacuum", "reconcile", "hooks"}]
    /\ kind \in [Procs -> AllKinds]
    /\ store \in [Procs -> [Paths -> Entry]]
    /\ txRows \in [Procs -> SUBSET Row]
    /\ txAlloc \in [Procs -> [Slots -> {"none", "active", "disabled", "removed"}]]
    /\ fresh \in [Procs -> BOOLEAN] /\ errs \in [Procs -> BOOLEAN]
    /\ work \in [Procs -> Seq(Events \X Jobs)]
    /\ today \in Nat /\ sessions \in Nat /\ requests \in Nat

(* key_value has no unique constraint: that a key has one row per version rests
   on the versions the sessions count, on their checkpoints and on the isolation
   of their transactions. *)
VersionsUnique ==
    \A r, q \in rows : r.path = q.path /\ r.version = q.version => r = q

(* What a session has not changed is what its transaction would load, and what
   it has changed is newer than any row, so that the next load finds it
   (LoadFromTransaction, PersistToTransaction). *)
SessionAheadOfTable ==
    \A p \in Procs : pc[p] \in {"reconcile", "hooks"} =>
        \A x \in Paths :
            IF store[p][x].changed
            THEN \A r \in Of(txRows[p], x) : r.version < store[p][x].version
            ELSE store[p][x] = Load(txRows[p])[x]

(* No secret reaches maand.db in the clear, through whichever process its
   script was served (handleStoreKeyPut, handleStoreSecretPut). *)
SecretsSealed == \A r \in rows : IsSecret(r.path) => IsEncrypted(r.value)

(* What a health check says is never stored, although a deploy that serves its
   scripts persists everything in its store. *)
HealthChecksStoreNothing ==
    \A r \in rows : r.value.text # "health_check"

(* The table implements the versioned map: no commit loses or rewrites what
   others committed, whatever they read before it, and no key falls back to an
   older value or an older version. *)
Abs == INSTANCE VersionedMap WITH Keys <- Paths, Nothing <- NoEntry, map <- Load(rows)
RefinesMap == Abs!Spec

(* What no script deletes of a job. *)
Kept(j) == {x \in {Vars(j), Secrets(j)} : \A op \in {"delete", "delete secret"} : <<op, x>> \notin Payloads}

(* Whoever purges, a job with an active allocation keeps what its commands stored.
   A build (jobShouldPurgeBuildKV) and gc (purgeRemovedJobNamespaces) purge and
   commit in one step.  What a deploy purges in reconcile
   (purgeJobCommandKVForInactiveJobs) is committed at its end, many checkpoints
   later, with what scripts have deleted in between. *)
ActiveJobsKeepVars ==
    [][\A j \in Jobs : ActiveWorkers(alloc', j) # {} =>
          \A x \in {Vars(j), Secrets(j)} :
             /\ (\E p \in Procs : pc[p] = "catalog" /\ pc'[p] # "catalog") =>
                   (Live(Load(rows), x) => Load(rows)'[x] = Load(rows)[x])
             /\ x \in Kept(j) /\ Live(Load(rows), x) => Live(Load(rows)', x)]_rows

(* What gc leaves of a key that has not been written lately: of a deleted one
   nothing, of any other at most Keep + 1 rows, or more if gc itself has just
   deleted it (PurgeStaleVersions). *)
HistoryBounded ==
    [][\A p \in Procs : Collect(p) =>
          \A x \in Paths :
             (\A r \in Of(rows, x) : r.day < today - RetainDays["gc"]) =>
                /\ Load(rows)[x].deleted => Of(rows', x) = {}
                /\ \/ Cardinality(Of(rows', x)) <= Keep + 1
                   \/ \E r \in Of(rows', x) : r.day = today]_vars

(* A script reads back what it wrote, finds the key in the list of its job, and
   so do the jobs that the API says demand it. *)
ReadYourWrites ==
    [][\A p \in Procs, w \in Workers, e \in Events, x \in Payloads : \A v \in Says[e] :
          Serve(p, w, e, x[1], x[2], v) /\ store' # store /\ x[1] \in {"put", "put secret"} =>
             LET c    == <<Head(work[p])[2], w>>
                 s    == store'[owner]
                 said == Found("ok", IF x[1] = "put" THEN Trim(v) ELSE v)
             IN  /\ HandleGet(s, c, x[2]) = said
                 /\ x[2] \in HandleList(s, c) \cup {Catalog(c[1])}
                 /\ \A j \in HandleDemands(c), u \in Workers : HandleGet(s, <<j, u>>, x[2]) = said]_requests
=============================================================================
