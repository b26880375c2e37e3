------------------------------- MODULE Bucket --------------------------------
(* maand init (src/initialize), the migration of maand.db (src/data/schema.go)  *)
(* and the schema check every other command makes first (src/cmd/schema.go).    *)
(*                                                                            *)
(* The database changes only at Commit.  The files of the bucket are written on *)
(* the way there and stay when init fails or dies; a file is created and then   *)
(* filled, so one may be left torn.  Several processes may run init at once:    *)
(* SQLite lets one of them write, and the others wait five seconds for it.      *)
EXTENDS Integers, Sequences

CONSTANTS Procs,       \* processes that run maand init
          Legacies,    \* what init may find: the databases of earlier binaries
          NoProc,
          MaxInits,    \* bound on runs of init
          MaxFaults    \* bound on runs that fail or die

(* A database: whether maand.db is there, its tables, for every column whether it
   is missing, holds its default or a value, its views, the version it claims
   (0: none) and the rows of table bucket, by the init that inserted them. *)
Tables == {"allocations", "job", "hash"}

HashColumns == {"current_version", "current_files", "previous_files"}

JobColumns ==
    {"health_check", "restart_policy", "restart_globs", "current_memory_source",
     "current_cpu_source", "max_concurrent_upgrades", "max_concurrent_starts",
     "update_parallel_count", "deploy_parallel_count"}

TableOf ==
    [c \in {"new_version"} \cup HashColumns \cup JobColumns |->
        IF c \in HashColumns THEN "hash" ELSE IF c \in JobColumns THEN "job" ELSE "allocations"]

Columns == DOMAIN TableOf

(* baseTableDDL: the columns a fresh table has. *)
BaseColumns == Columns \ {"update_parallel_count", "deploy_parallel_count"}

Views == {"cat_jobs", "cat_deployments"}

Database ==
    [there : BOOLEAN, tables : SUBSET Tables, cols : [Columns -> {"missing", "default", "set"}],
     views : [Views -> {"missing", "stale", "current"}], version : Nat, rows : Seq(0..MaxInits)]

NoDatabase ==
    [there |-> FALSE, tables |-> {}, cols |-> [c \in Columns |-> "missing"],
     views |-> [v \in Views |-> "missing"], version |-> 0, rows |-> <<>>]

Files == {"maand.conf", "workers.json", "bucket.conf", "ca.crt", "ca.key", "kv.key"}

Missing == -2
Torn    == -1      \* otherwise, the init that wrote it; 0: one of an earlier binary

(* What an earlier binary left is there, and has no column without its table. *)
ASSUME BucketAssumption ==
    /\ NoProc \notin Procs
    /\ Legacies \subseteq Database
    /\ \A d \in Legacies :
          d.there /\ \A c \in Columns : TableOf[c] \notin d.tables => d.cols[c] = "missing"
    /\ MaxInits \in Nat /\ MaxFaults \in Nat

VARIABLES
    db,       \* what is committed
    files,    \* [Files -> {Missing, Torn} \cup 0..MaxInits]
    writer,   \* the process that holds the write lock of maand.db
    proc,     \* every process: [pc, fresh, work, todo, id]
    ended,    \* how the last init to end did so
    inits, faults

vars == <<db, files, writer, proc, ended, inits, faults>>

Idle == [pc |-> "idle", fresh |-> FALSE, work |-> NoDatabase, todo |-> <<>>, id |-> 0]

Init ==
    /\ \/ db = NoDatabase /\ files = [f \in Files |-> Missing]
       \/ db \in Legacies /\ files = [f \in Files |-> 0]
    /\ writer = NoProc
    /\ proc = [p \in Procs |-> Idle]
    /\ ended = "none" /\ inits = 0 /\ faults = 0

-----------------------------------------------------------------------------
(* The migration, on the columns of a database. *)

LatestSchemaVersion == 1

(* ensureTableColumn *)
EnsureColumn(cols, c) ==
    IF cols[c] = "missing" THEN [cols EXCEPT ![c] = "default"] ELSE cols

(* renameTableColumn *)
RenameColumn(cols, from, to) ==
    IF cols[from] = "missing" \/ cols[to] # "missing" THEN cols
    ELSE [cols EXCEPT ![to] = cols[from], ![from] = "missing"]

(* CREATE TABLE IF NOT EXISTS for every table *)
WithBaseTables(d) ==
    [c \in Columns |-> IF TableOf[c] \notin d.tables /\ c \in BaseColumns THEN "default"
                       ELSE d.cols[c]]

(* Slip: the new columns are added before the old ones are renamed to them. *)
RolloutAddedFirst(cols) ==
    RenameColumn(RenameColumn(
        EnsureColumn(EnsureColumn(cols, "max_concurrent_upgrades"), "max_concurrent_starts"),
        "update_parallel_count", "max_concurrent_upgrades"),
        "deploy_parallel_count", "max_concurrent_starts")

(* migrateJobRolloutColumns.  A table that has the new columns gets the old ones
   next to them, and keeps those. *)
RolloutColumns(cols) ==
    LET both    == EnsureColumn(EnsureColumn(cols, "update_parallel_count"),
                                "deploy_parallel_count")
        renamed == RenameColumn(RenameColumn(both,
                        "update_parallel_count", "max_concurrent_upgrades"),
                        "deploy_parallel_count", "max_concurrent_starts")
    IN  EnsureColumn(EnsureColumn(renamed, "max_concurrent_upgrades"), "max_concurrent_starts")

(* migrateToV1 adds these one by one. *)
AddedColumns ==
    {"new_version", "current_version", "health_check", "restart_policy", "restart_globs",
     "current_files", "previous_files", "current_memory_source", "current_cpu_source"}

(* Slip: a catalog view that exists is taken to be the right one. *)
ViewsIfMissing(views) ==
    [v \in Views |-> IF views[v] = "missing" THEN "current" ELSE views[v]]

(* recreateCatalogViews drops and creates, and so does ensureCatDeploymentsView. *)
RecreatedViews(views) == [views EXCEPT !["cat_jobs"] = "current"]

DeploymentsView(views) == [views EXCEPT !["cat_deployments"] = "current"]

(* MigrateSchema.  The version it finds is not looked at: one this binary does not
   know is renumbered like those it does. *)
Migrated(d) ==
    LET based == WithBaseTables(d)
        added == [c \in Columns |-> IF c \in AddedColumns /\ based[c] = "missing"
                                    THEN "default" ELSE based[c]]
    IN  [d EXCEPT !.there = TRUE, !.tables = Tables, !.cols = RolloutColumns(added),
                  !.views = DeploymentsView(RecreatedViews(d.views)), !.version = LatestSchemaVersion]

-----------------------------------------------------------------------------
(* CheckSchemaVersion *)

RequiredColumns ==
    {"max_concurrent_starts", "max_concurrent_upgrades", "health_check", "restart_policy",
     "restart_globs", "current_memory_source", "current_cpu_source",
     "current_version", "current_files", "previous_files", "new_version"}

ColumnsPresent(d) == \A c \in RequiredColumns : d.cols[c] # "missing"

ViewsPresent(d) == \A v \in Views : d.views[v] = "current"

GateOpen(d) ==
    /\ d.there
    /\ d.version = LatestSchemaVersion
    /\ ColumnsPresent(d) /\ ViewsPresent(d)

-----------------------------------------------------------------------------
(* maand init. *)

(* Execute up to Begin.  Whether the database is new is decided here, outside the
   transaction. *)
Start(p) ==
    /\ proc[p].pc = "idle" /\ inits < MaxInits
    /\ inits' = inits + 1
    /\ proc' = [proc EXCEPT ![p] = [pc |-> "begin", fresh |-> ~db.there, work |-> NoDatabase,
                                    todo |-> <<>>, id |-> inits + 1]]
    /\ UNCHANGED <<db, files, writer, ended, faults>>

(* isNewDatabase || !bucketInitialized *)
NeedsRecord(fresh, d) == fresh \/ d.rows = <<>>

(* Slip: the row of the bucket is replaced. *)
InsertReplacing(rows, id) == <<id>>

(* InsertBucketRecord; GetBucketID reads the first row. *)
InsertRow(rows, id) == Append(rows, id)

(* The first write of MigrateSchema takes the lock, on what is committed by then;
   everything up to the files happens inside the transaction.  Opening the database
   has created maand.db. *)
Begin(p) ==
    /\ proc[p].pc = "begin" /\ writer = NoProc
    /\ writer' = p
    /\ LET d   == Migrated(db)
           new == NeedsRecord(proc[p].fresh, d)
       IN  proc' = [proc EXCEPT ![p] =
              [pc   |-> "files", fresh |-> @.fresh, id |-> @.id,
               work |-> IF new THEN [d EXCEPT !.rows = InsertRow(@, proc[p].id)] ELSE d,
               todo |-> (IF new THEN <<"maand.conf">> ELSE <<>>)
                            \o <<"workers.json", "bucket.conf", "ca", "kv.key">>]]
    /\ db' = [db EXCEPT !.there = TRUE]
    /\ UNCHANGED <<files, ended, inits, faults>>

(* A file that is there is left alone, torn or not. *)
CreateFile(p, f) ==
    /\ proc[p].pc = "files" /\ proc[p].todo # <<>> /\ Head(proc[p].todo) = f
    /\ IF files[f] # Missing
       THEN /\ proc' = [proc EXCEPT ![p].todo = Tail(@)]
            /\ UNCHANGED files
       ELSE /\ proc' = [proc EXCEPT ![p].pc = "writing"]
            /\ files' = [files EXCEPT ![f] = Torn]
    /\ UNCHANGED <<db, writer, ended, inits, faults>>

EnsureDefaultMaandConfig(p) == CreateFile(p, "maand.conf")
EnsureWorkspaceFiles(p) == CreateFile(p, "workers.json") \/ CreateFile(p, "bucket.conf")
GenerateCA(p) == CreateFile(p, "ca.crt") \/ CreateFile(p, "ca.key")
EnsureEncryptionKey(p) == CreateFile(p, "kv.key")

FillFile(p) ==
    /\ proc[p].pc = "writing"
    /\ files' = [files EXCEPT ![Head(proc[p].todo)] = proc[p].id]
    /\ proc' = [proc EXCEPT ![p].pc = "files", ![p].todo = Tail(@)]
    /\ UNCHANGED <<db, writer, ended, inits, faults>>

(* The end of a run without a commit: the transaction is rolled back. *)
Abandon(p) ==
    /\ proc' = [proc EXCEPT ![p] = Idle]
    /\ writer' = IF writer = p THEN NoProc ELSE writer
    /\ ended' = "error"
    /\ UNCHANGED <<db, files, inits>>

MissingOf(half) == files[half] = Missing

(* Slip: the half of the CA that is missing is generated. *)
EnsureMissingHalf(p) ==
    /\ proc[p].pc = "files" /\ proc[p].todo # <<>> /\ Head(proc[p].todo) = "ca"
    /\ proc' = [proc EXCEPT ![p].todo = <<"ca.crt", "ca.key">> \o Tail(@)]
    /\ UNCHANGED <<db, files, writer, ended, inits, faults>>

(* ensureCA generates both halves or neither. *)
EnsureCA(p) ==
    /\ proc[p].pc = "files" /\ proc[p].todo # <<>> /\ Head(proc[p].todo) = "ca"
    /\ \/ /\ MissingOf("ca.crt") /\ MissingOf("ca.key")
          /\ proc' = [proc EXCEPT ![p].todo = <<"ca.crt", "ca.key">> \o Tail(@)]
          /\ UNCHANGED <<db, files, writer, ended, inits>>
       \/ /\ ~MissingOf("ca.crt") /\ ~MissingOf("ca.key")
          /\ proc' = [proc EXCEPT ![p].todo = Tail(@)]
          /\ UNCHANGED <<db, files, writer, ended, inits>>
       \/ /\ MissingOf("ca.crt") # MissingOf("ca.key")
          /\ Abandon(p)
    /\ UNCHANGED faults

(* Slip: the transaction is committed before the CA and the key are there. *)
CommitEarly(p) ==
    /\ proc[p].pc = "files"
    /\ db' = proc[p].work
    /\ proc' = [proc EXCEPT ![p] = Idle]
    /\ writer' = NoProc
    /\ ended' = "ok"
    /\ UNCHANGED <<files, inits, faults>>

Commit(p) ==
    /\ proc[p].pc = "files" /\ proc[p].todo = <<>>
    /\ db' = proc[p].work
    /\ proc' = [proc EXCEPT ![p] = Idle]
    /\ writer' = NoProc
    /\ ended' = "ok"
    /\ UNCHANGED <<files, inits, faults>>

(* The busy timeout of SQLite passes while another command writes, or one has
   committed since this transaction began to read. *)
Busy(p) ==
    /\ proc[p].pc = "begin" /\ (writer # NoProc \/ GateOpen(db))
    /\ Abandon(p)
    /\ UNCHANGED faults

(* Init fails in any other way, or its process dies. *)
Die(p) ==
    /\ proc[p].pc # "idle" /\ faults < MaxFaults
    /\ faults' = faults + 1
    /\ Abandon(p)

-----------------------------------------------------------------------------
(* Around it. *)

(* The operator answers "bucket CA is incomplete" by removing what is there. *)
ClearCA ==
    /\ MissingOf("ca.crt") # MissingOf("ca.key") /\ writer = NoProc
    /\ files' = [files EXCEPT !["ca.crt"] = Missing, !["ca.key"] = Missing]
    /\ UNCHANGED <<db, writer, proc, ended, inits, faults>>

(* Builds and deploys that pass the gate fill the columns. *)
UseDatabase ==
    /\ GateOpen(db) /\ writer = NoProc
    /\ db' = [db EXCEPT !.cols = [c \in Columns |-> IF c \in BaseColumns THEN "set" ELSE @[c]]]
    /\ UNCHANGED <<files, writer, proc, ended, inits, faults>>

Next ==
    \/ \E p \in Procs :
          \/ Start(p) \/ Begin(p) \/ EnsureDefaultMaandConfig(p) \/ EnsureWorkspaceFiles(p)
          \/ EnsureCA(p) \/ GenerateCA(p) \/ EnsureEncryptionKey(p) \/ FillFile(p)
          \/ Commit(p) \/ Busy(p) \/ Die(p)
    \/ ClearCA \/ UseDatabase

Spec == Init /\ [][Next]_vars

-----------------------------------------------------------------------------
(* Properties. *)

(* A command that passes the schema check finds a bucket: a row that names it, every
   file init makes, maand.conf among them, and a CA whose halves were made together,
   whatever init died before, next to or after the one that committed (Execute commits
   last; ensureCA refuses half a CA).  A file may be torn: an init that died while it
   wrote one leaves it there, and no later init looks into it. *)
GateMeansReady ==
    GateOpen(db) =>
        /\ db.rows # <<>>
        /\ \A f \in Files : files[f] # Missing
        /\ files["ca.crt"] >= 0 /\ files["ca.key"] >= 0 => files["ca.crt"] = files["ca.key"]

(* Whatever an earlier binary left, the commands go once maand init has succeeded:
   migrateToV1 and the lists of CheckSchemaVersion agree. *)
InitMeansGate == ended = "ok" /\ writer = NoProc => GateOpen(db)

(* What the current binary reads of a column: a legacy name counts until the new
   column exists. *)
OldName == [c \in {"max_concurrent_upgrades", "max_concurrent_starts"} |->
                IF c = "max_concurrent_upgrades" THEN "update_parallel_count"
                ELSE "deploy_parallel_count"]

Holds(d, c) ==
    IF c \in DOMAIN OldName /\ d.cols[c] = "missing" THEN d.cols[OldName[c]] ELSE d.cols[c]

(* No upgrade, retry or concurrent init loses a value: not what a job was told of
   its rollout, under its old or its new name, nor what is recorded of the running
   version (migrateJobRolloutColumns renames before it adds). *)
ValuesKept ==
    \A c \in BaseColumns : Holds(db, c) = "set" => Holds(db', c) = "set"

DataSurvives == [][ValuesKept]_vars

(* "Later runs apply schema migrations ... without changing bucket_id or CA": the row
   commands read stays the first one and no key that was written is written again,
   even when two first inits race (Execute looks for maand.db before it begins). *)
Unchanged ==
    /\ db.rows # <<>> => db'.rows # <<>> /\ Head(db'.rows) = Head(db.rows)
    /\ \A f \in Files : files[f] >= 0 => files'[f] = files[f] \/ ClearCA

IdentityKept == [][Unchanged]_vars
=============================================================================
