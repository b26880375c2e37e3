---------------------------- MODULE BucketProofs ----------------------------
(* Theorems about Bucket: however many inits race, fail and die over whatever   *)
(* database, the bucket keeps its first row and the files it was given.        *)
EXTENDS Bucket, SequenceTheorems, TLAPS

(* The shape of a database and of a process: what a field holds matters only
   for the rows. *)
ShapeOf(d) ==
    [there |-> d.there, tables |-> d.tables, cols |-> d.cols, views |-> d.views,
     version |-> d.version, rows |-> d.rows]
IsDatabase(d) == d = ShapeOf(d) /\ d.rows \in Seq(Int)

Phase == {"idle", "begin", "files", "writing"}

IsProc(r) ==
    /\ r = [pc |-> r.pc, fresh |-> r.fresh, work |-> r.work, todo |-> r.todo, id |-> r.id]
    /\ r.pc \in Phase
    /\ r.id \in Nat
    /\ IsDatabase(r.work)

(* Only the holder of the lock is inside a transaction; what it is about to commit
   starts with the row that is there, and the file it is writing has no content yet. *)
Inside(p) == proc[p].pc \in {"files", "writing"}

Extends(new, old) == old # <<>> => new # <<>> /\ Head(new) = Head(old)

Shapes ==
    /\ IsDatabase(db)
    /\ proc \in [Procs -> {proc[p] : p \in Procs}]
    /\ \A p \in Procs : IsProc(proc[p])
    /\ files \in [Files -> Int]
    /\ inits \in Nat

Locking == \A p \in Procs : Inside(p) => writer = p /\ Extends(proc[p].work.rows, db.rows)

Writing == \A p \in Procs : proc[p].pc = "writing" => files[Head(proc[p].todo)] = Torn

IdentityInv == Shapes /\ Locking /\ Writing

-----------------------------------------------------------------------------
(* The migration does not touch the rows of the bucket. *)
LEMMA MigrationKeepsRows ==
    ASSUME NEW d, IsDatabase(d)
    PROVE  IsDatabase(Migrated(d)) /\ Migrated(d).rows = d.rows
<1> DEFINE based == WithBaseTables(d)
           added == [c \in Columns |-> IF c \in AddedColumns /\ based[c] = "missing"
                                       THEN "default" ELSE based[c]]
           cols  == RolloutColumns(added)
           views == DeploymentsView(RecreatedViews(d.views))
<1>1. Migrated(d) = [d EXCEPT !.there = TRUE, !.tables = Tables, !.cols = cols, !.views = views,
                              !.version = LatestSchemaVersion]
  BY DEF Migrated
<1> HIDE DEF cols, views
<1>2. Migrated(d) = [there |-> TRUE, tables |-> Tables, cols |-> cols, views |-> views,
                     version |-> LatestSchemaVersion, rows |-> d.rows]
  BY <1>1, d = ShapeOf(d) DEF IsDatabase, ShapeOf
<1>3. QED
  BY <1>2 DEF IsDatabase, ShapeOf

(* A row that is inserted comes after those that are there. *)
LEMMA AppendExtends ==
    ASSUME NEW rows \in Seq(Int), NEW n \in Int
    PROVE  InsertRow(rows, n) \in Seq(Int) /\ Extends(InsertRow(rows, n), rows)
  BY HeadTailAppend, AppendProperties DEF InsertRow, Extends

(* The invariant holds of whatever maand init finds. *)
LEMMA InitIdentity == Init => IdentityInv
<1> SUFFICES ASSUME Init PROVE IdentityInv
  OBVIOUS
<1>1. IsDatabase(NoDatabase)
  BY EmptySeq DEF IsDatabase, ShapeOf, NoDatabase
<1>2. \A d \in Database : IsDatabase(d)
  BY BucketAssumption DEF Database, IsDatabase, ShapeOf
<1>3. IsDatabase(db)
  BY <1>1, <1>2, BucketAssumption DEF Init
<1>4. IsProc(Idle)
  BY <1>1 DEF IsProc, Idle, Phase
<1>5. \A p \in Procs : IsProc(proc[p]) /\ proc[p].pc = "idle"
  BY <1>4 DEF Init, Idle
<1>6. files \in [Files -> Int]
  BY DEF Init, Missing
<1>7. proc \in [Procs -> {proc[p] : p \in Procs}]
  BY DEF Init
<1>8. QED
  BY <1>3, <1>5, <1>6, <1>7 DEF IdentityInv, Shapes, Locking, Writing, Inside, Init

-----------------------------------------------------------------------------
(* A step of one process leaves the others alone. *)
LEMMA OneProcess ==
    ASSUME Shapes, NEW p \in Procs, NEW r, IsProc(r), proc' = [proc EXCEPT ![p] = r]
    PROVE  /\ proc' \in [Procs -> {proc'[q] : q \in Procs}]
           /\ \A q \in Procs : IsProc(proc'[q]) /\ (q # p => proc'[q] = proc[q])
           /\ proc'[p] = r
  BY DEF Shapes

(* Changing the phase or the plan of a process leaves the rest of it. *)
LEMMA FieldsKept ==
    ASSUME NEW r, IsProc(r)
    PROVE  /\ \A x \in Phase : /\ IsProc([r EXCEPT !.pc = x])
                                /\ [r EXCEPT !.pc = x].pc = x
                                /\ [r EXCEPT !.pc = x].work = r.work
                                /\ [r EXCEPT !.pc = x].id = r.id
                                /\ [r EXCEPT !.pc = x].todo = r.todo
           /\ \A t : /\ IsProc([r EXCEPT !.todo = t])
                     /\ [r EXCEPT !.todo = t].pc = r.pc
                     /\ [r EXCEPT !.todo = t].work = r.work
                     /\ [r EXCEPT !.todo = t].id = r.id
                     /\ [r EXCEPT !.todo = t].todo = t
  BY DEF IsProc

(* The end of a run: nobody else was inside. *)
LEMMA AbandonIdentity ==
    ASSUME IdentityInv, NEW p \in Procs, Abandon(p)
    PROVE  IdentityInv' /\ Unchanged
<1>1. IsProc(Idle) /\ Idle.pc = "idle"
  BY EmptySeq DEF IsProc, Idle, Phase, IsDatabase, ShapeOf, NoDatabase
<1>2. /\ proc' \in [Procs -> {proc'[q] : q \in Procs}]
      /\ \A q \in Procs : IsProc(proc'[q]) /\ (q # p => proc'[q] = proc[q])
      /\ proc'[p] = Idle
  BY <1>1, OneProcess DEF Abandon, IdentityInv
<1>3. Shapes'
  BY <1>2 DEF IdentityInv, Shapes, Abandon
<1>4. Locking'
  BY <1>1, <1>2 DEF IdentityInv, Locking, Inside, Abandon
<1>5. Writing'
  BY <1>1, <1>2 DEF IdentityInv, Writing, Abandon
<1>6. Unchanged
  BY DEF Abandon, Unchanged
<1>7. QED
  BY <1>3, <1>4, <1>5, <1>6 DEF IdentityInv

(* An init that starts holds nothing yet. *)
LEMMA StartIdentity ==
    ASSUME IdentityInv, NEW p \in Procs, Start(p)
    PROVE  IdentityInv' /\ Unchanged
<1> DEFINE r == [pc |-> "begin", fresh |-> ~db.there, work |-> NoDatabase,
                  todo |-> <<>>, id |-> inits + 1]
<1>0. proc' = [proc EXCEPT ![p] = r]
  BY DEF Start
<1>1. IsProc(r) /\ r.pc = "begin"
  <2>1. IsDatabase(NoDatabase)
    BY EmptySeq DEF IsDatabase, ShapeOf, NoDatabase
  <2>2. inits + 1 \in Nat
    BY DEF IdentityInv, Shapes
  <2>3. QED
    BY <2>1, <2>2 DEF IsProc, Phase
<1>2. /\ proc' \in [Procs -> {proc'[q] : q \in Procs}]
      /\ \A q \in Procs : IsProc(proc'[q]) /\ (q # p => proc'[q] = proc[q])
      /\ proc'[p] = r
  BY <1>0, <1>1, OneProcess DEF IdentityInv
<1> HIDE DEF r
<1>3. Shapes'
  BY <1>2 DEF IdentityInv, Shapes, Start
<1>4. Locking' /\ Writing'
  BY <1>1, <1>2 DEF IdentityInv, Locking, Writing, Inside, Start
<1>5. Unchanged
  BY DEF Start, Unchanged
<1>6. QED
  BY <1>3, <1>4, <1>5 DEF IdentityInv

(* An init that takes the lock works on what is committed by then. *)
LEMMA BeginIdentity ==
    ASSUME IdentityInv, NEW p \in Procs, Begin(p)
    PROVE  IdentityInv' /\ Unchanged
<1> DEFINE d    == Migrated(db)
           new  == NeedsRecord(proc[p].fresh, d)
           work == IF new THEN [d EXCEPT !.rows = InsertRow(@, proc[p].id)] ELSE d
           todo == (IF new THEN <<"maand.conf">> ELSE <<>>)
                       \o <<"workers.json", "bucket.conf", "ca", "kv.key">>
           r    == [pc |-> "files", fresh |-> proc[p].fresh, id |-> proc[p].id, work |-> work, todo |-> todo]
<1>1. IsDatabase(d) /\ d.rows = db.rows
  BY MigrationKeepsRows DEF IdentityInv, Shapes
<1>2. IsProc(proc[p])
  BY DEF IdentityInv, Shapes
<1>3. IsDatabase(work) /\ Extends(work.rows, db.rows)
  <2> HIDE DEF d, new
  <2>1. CASE new
    <3>1. InsertRow(d.rows, proc[p].id) \in Seq(Int) /\ Extends(InsertRow(d.rows, proc[p].id), db.rows)
      <4>1. d.rows \in Seq(Int) /\ proc[p].id \in Int
        BY <1>1, <1>2 DEF IsDatabase, IsProc
      <4>2. InsertRow(d.rows, proc[p].id) \in Seq(Int) /\ Extends(InsertRow(d.rows, proc[p].id), d.rows)
        BY <4>1, AppendExtends
      <4>3. QED
        BY <4>2, <1>1
    <3> DEFINE rows == InsertRow(d.rows, proc[p].id)
    <3> HIDE DEF rows
    <3>2. work = [there |-> d.there, tables |-> d.tables, cols |-> d.cols, views |-> d.views,
                  version |-> d.version, rows |-> rows]
      <4>1. work = [d EXCEPT !.rows = rows]
        BY <2>1 DEF rows
      <4>2. d = ShapeOf(d)
        BY <1>1 DEF IsDatabase
      <4>3. PICK t, ta, c, v, n, s : d = [there |-> t, tables |-> ta, cols |-> c, views |-> v,
                                          version |-> n, rows |-> s]
        BY <4>2 DEF ShapeOf
      <4> HIDE DEF work
      <4>4. QED
        BY <4>1, <4>3
    <3>3. QED
      BY <3>1, <3>2 DEF IsDatabase, ShapeOf, rows
  <2>2. CASE ~new
    BY <1>1, <2>2 DEF Extends
  <2>3. QED
    BY <2>1, <2>2
<1>4. proc' = [proc EXCEPT ![p] = r]
  BY DEF Begin
<1> HIDE DEF d, new, work, todo
<1>5. IsProc(r) /\ r.pc = "files" /\ r.work = work
  BY <1>2, <1>3 DEF IsProc, Phase
<1>6. /\ proc' \in [Procs -> {proc'[q] : q \in Procs}]
      /\ \A q \in Procs : IsProc(proc'[q]) /\ (q # p => proc'[q] = proc[q])
      /\ proc'[p] = r
  BY <1>4, <1>5, OneProcess DEF IdentityInv
<1> HIDE DEF r
<1>7. IsDatabase(db') /\ db'.rows = db.rows
  <2>1. db' = [there |-> TRUE, tables |-> db.tables, cols |-> db.cols, views |-> db.views,
               version |-> db.version, rows |-> db.rows]
    BY db = ShapeOf(db) DEF Begin, IdentityInv, Shapes, IsDatabase, ShapeOf
  <2>2. QED
    BY <2>1 DEF IdentityInv, Shapes, IsDatabase, ShapeOf
<1>8. Shapes'
  BY <1>6, <1>7 DEF IdentityInv, Shapes, Begin
<1>9. \A q \in Procs \ {p} : ~Inside(q)
  BY BucketAssumption DEF IdentityInv, Locking, Begin
<1>10. Locking' /\ Writing'
  BY <1>3, <1>5, <1>6, <1>7, <1>9 DEF Locking, Writing, Inside, Begin
<1>11. Unchanged
  BY <1>7 DEF Unchanged, Begin
<1>12. QED
  BY <1>8, <1>10, <1>11 DEF IdentityInv

-----------------------------------------------------------------------------
(* A file is only created where there is none. *)
LEMMA CreateIdentity ==
    ASSUME IdentityInv, NEW p \in Procs, NEW f \in Files, CreateFile(p, f)
    PROVE  IdentityInv' /\ Unchanged
<1>1. IsProc(proc[p]) /\ Inside(p)
  BY DEF IdentityInv, Shapes, CreateFile, Inside
<1>2. \A q \in Procs \ {p} : ~Inside(q)
  BY <1>1 DEF IdentityInv, Locking
<1>3. CASE files[f] # Missing
  <2> DEFINE r == [proc[p] EXCEPT !.todo = Tail(@)]
  <2>1. proc' = [proc EXCEPT ![p] = r] /\ files' = files
    BY <1>3 DEF CreateFile
  <2>2. IsProc(r) /\ r.pc = "files" /\ r.work = proc[p].work
    BY <1>1, FieldsKept DEF CreateFile
  <2>3. /\ proc' \in [Procs -> {proc'[q] : q \in Procs}]
        /\ \A q \in Procs : IsProc(proc'[q]) /\ (q # p => proc'[q] = proc[q])
        /\ proc'[p] = r
    BY <2>1, <2>2, OneProcess DEF IdentityInv
  <2> HIDE DEF r
  <2>4. Shapes' /\ Locking' /\ Writing'
    BY <1>1, <1>2, <2>1, <2>2, <2>3 DEF IdentityInv, Shapes, Locking, Writing, Inside, CreateFile
  <2>5. Unchanged
    BY <2>1 DEF Unchanged, CreateFile
  <2>6. QED
    BY <2>4, <2>5 DEF IdentityInv
<1>4. CASE files[f] = Missing
  <2> DEFINE r == [proc[p] EXCEPT !.pc = "writing"]
  <2>1. proc' = [proc EXCEPT ![p] = r] /\ files' = [files EXCEPT ![f] = Torn]
    BY <1>4 DEF CreateFile
  <2>2. IsProc(r) /\ r.pc = "writing" /\ r.work = proc[p].work /\ Head(r.todo) = f
    BY <1>1, FieldsKept DEF CreateFile, Phase
  <2>3. /\ proc' \in [Procs -> {proc'[q] : q \in Procs}]
        /\ \A q \in Procs : IsProc(proc'[q]) /\ (q # p => proc'[q] = proc[q])
        /\ proc'[p] = r
    BY <2>1, <2>2, OneProcess DEF IdentityInv
  <2> HIDE DEF r
  <2>4. files' \in [Files -> Int] /\ files'[f] = Torn /\ \A g \in Files \ {f} : files'[g] = files[g]
    BY <2>1 DEF IdentityInv, Shapes, Torn
  <2>5. Shapes' /\ Locking' /\ Writing'
    BY <1>1, <1>2, <2>2, <2>3, <2>4 DEF IdentityInv, Shapes, Locking, Writing, Inside, CreateFile
  <2>6. Unchanged
    BY <1>4, <2>4 DEF Unchanged, CreateFile, Missing
  <2>7. QED
    BY <2>5, <2>6 DEF IdentityInv
<1>5. QED
  BY <1>3, <1>4

(* The file that is being written had no content. *)
LEMMA FillIdentity ==
    ASSUME IdentityInv, NEW p \in Procs, FillFile(p)
    PROVE  IdentityInv' /\ Unchanged
<1> DEFINE s == [proc[p] EXCEPT !.pc = "files"]
           r == [s EXCEPT !.todo = Tail(proc[p].todo)]
           f == Head(proc[p].todo)
<1>1. IsProc(proc[p]) /\ Inside(p) /\ files[f] = Torn
  BY DEF IdentityInv, Shapes, Writing, FillFile, Inside
<1>2. \A q \in Procs \ {p} : ~Inside(q)
  BY <1>1 DEF IdentityInv, Locking
<1>3. IsProc(s) /\ s.pc = "files" /\ s.work = proc[p].work
  BY <1>1, FieldsKept DEF Phase
<1>4. proc' = [proc EXCEPT ![p] = r]
  BY DEF FillFile, IdentityInv, Shapes
<1> HIDE DEF s
<1>5. IsProc(r) /\ r.pc = "files" /\ r.work = proc[p].work
  BY <1>3, FieldsKept
<1>6. /\ proc' \in [Procs -> {proc'[q] : q \in Procs}]
      /\ \A q \in Procs : IsProc(proc'[q]) /\ (q # p => proc'[q] = proc[q])
      /\ proc'[p] = r
  BY <1>4, <1>5, OneProcess DEF IdentityInv
<1> HIDE DEF r
<1>7. files' \in [Files -> Int] /\ \A g \in Files : g # f => files'[g] = files[g]
  <2> DEFINE n == proc[p].id
  <2>1. n \in Int
    BY <1>1 DEF IsProc
  <2>2. files' = [files EXCEPT ![f] = n]
    BY DEF FillFile
  <2>3. files \in [Files -> Int]
    BY DEF IdentityInv, Shapes
  <2> HIDE DEF n, f
  <2>4. QED
    BY <2>1, <2>2, <2>3
<1>8. Shapes' /\ Locking' /\ Writing'
  BY <1>1, <1>2, <1>5, <1>6, <1>7 DEF IdentityInv, Shapes, Locking, Writing, Inside, FillFile
<1>9. Unchanged
  BY <1>1, <1>7 DEF Unchanged, FillFile, Torn
<1>10. QED
  BY <1>8, <1>9 DEF IdentityInv

(* A step that only changes what a process has left to do. *)
LEMMA TodoIdentity ==
    ASSUME IdentityInv, NEW p \in Procs, NEW t, proc[p].pc = "files",
           proc' = [proc EXCEPT ![p] = [@ EXCEPT !.todo = t]], UNCHANGED <<db, files, writer, inits>>
    PROVE  IdentityInv' /\ Unchanged
<1> DEFINE r == [proc[p] EXCEPT !.todo = t]
<1>1. IsProc(proc[p]) /\ Inside(p)
  BY DEF IdentityInv, Shapes, Inside
<1>2. \A q \in Procs \ {p} : ~Inside(q)
  BY <1>1 DEF IdentityInv, Locking
<1>3. proc' = [proc EXCEPT ![p] = r]
  OBVIOUS
<1>4. IsProc(r) /\ r.pc = "files" /\ r.work = proc[p].work
  BY <1>1, FieldsKept
<1>5. /\ proc' \in [Procs -> {proc'[q] : q \in Procs}]
      /\ \A q \in Procs : IsProc(proc'[q]) /\ (q # p => proc'[q] = proc[q])
      /\ proc'[p] = r
  BY <1>3, <1>4, OneProcess DEF IdentityInv
<1> HIDE DEF r
<1>6. Shapes' /\ Locking' /\ Writing'
  BY <1>1, <1>2, <1>4, <1>5 DEF IdentityInv, Shapes, Locking, Writing, Inside
<1>7. Unchanged
  BY DEF Unchanged
<1>8. QED
  BY <1>6, <1>7 DEF IdentityInv

(* Half a CA ends the run; otherwise the two halves are put in front, or skipped. *)
LEMMA CAIdentity ==
    ASSUME IdentityInv, NEW p \in Procs, EnsureCA(p)
    PROVE  IdentityInv' /\ Unchanged
<1>1. proc[p].pc = "files"
  BY DEF EnsureCA
<1>2. CASE Abandon(p)
  BY <1>2, AbandonIdentity
<1>3. CASE /\ proc' = [proc EXCEPT ![p].todo = <<"ca.crt", "ca.key">> \o Tail(@)]
           /\ UNCHANGED <<db, files, writer, inits>>
  <2> DEFINE t == <<"ca.crt", "ca.key">> \o Tail(proc[p].todo)
  <2>1. proc' = [proc EXCEPT ![p] = [@ EXCEPT !.todo = t]]
    BY <1>3
  <2> HIDE DEF t
  <2>2. QED
    BY <1>1, <1>3, <2>1, TodoIdentity
<1>4. CASE /\ proc' = [proc EXCEPT ![p].todo = Tail(@)]
           /\ UNCHANGED <<db, files, writer, inits>>
  <2> DEFINE t == Tail(proc[p].todo)
  <2>1. proc' = [proc EXCEPT ![p] = [@ EXCEPT !.todo = t]]
    BY <1>4
  <2> HIDE DEF t
  <2>2. QED
    BY <1>1, <1>4, <2>1, TodoIdentity
<1>5. QED
  BY <1>2, <1>3, <1>4 DEF EnsureCA

(* What is committed starts with the row that was there. *)
LEMMA CommitIdentity ==
    ASSUME IdentityInv, NEW p \in Procs, Commit(p)
    PROVE  IdentityInv' /\ Unchanged
<1>1. IsProc(proc[p]) /\ Inside(p) /\ Extends(proc[p].work.rows, db.rows)
  BY DEF IdentityInv, Shapes, Locking, Commit, Inside
<1>2. \A q \in Procs \ {p} : ~Inside(q)
  BY <1>1 DEF IdentityInv, Locking
<1>3. IsProc(Idle) /\ Idle.pc = "idle"
  BY EmptySeq DEF IsProc, Idle, Phase, IsDatabase, ShapeOf, NoDatabase
<1>4. /\ proc' \in [Procs -> {proc'[q] : q \in Procs}]
      /\ \A q \in Procs : IsProc(proc'[q]) /\ (q # p => proc'[q] = proc[q])
      /\ proc'[p] = Idle
  BY <1>3, OneProcess DEF Commit, IdentityInv
<1>5. IsDatabase(db')
  BY <1>1 DEF Commit, IsProc
<1>6. Shapes'
  BY <1>4, <1>5 DEF IdentityInv, Shapes, Commit
<1>7. Locking' /\ Writing'
  BY <1>2, <1>3, <1>4 DEF Locking, Writing, Inside
<1>8. Unchanged
  BY <1>1 DEF Commit, Unchanged, Extends
<1>9. QED
  BY <1>6, <1>7, <1>8 DEF IdentityInv

(* Nobody is inside a transaction while the operator removes half a CA or another
   command commits, and no command touches the rows of the bucket. *)
LEMMA AroundIdentity ==
    ASSUME IdentityInv, ClearCA \/ UseDatabase
    PROVE  IdentityInv' /\ Unchanged
<1>1. \A q \in Procs : ~Inside(q)
  BY BucketAssumption DEF IdentityInv, Locking, ClearCA, UseDatabase
<1>2. CASE ClearCA
  <2>1. files' \in [Files -> Int]
    <3>1. Missing \in Int /\ files \in [Files -> Int]
      BY DEF Missing, IdentityInv, Shapes
    <3>2. files' = [[files EXCEPT !["ca.crt"] = Missing] EXCEPT !["ca.key"] = Missing]
      BY <1>2 DEF ClearCA
    <3>3. [files EXCEPT !["ca.crt"] = Missing] \in [Files -> Int]
      BY <3>1
    <3>4. QED
      BY <3>1, <3>2, <3>3
  <2>2. Shapes'
    BY <1>2, <2>1 DEF ClearCA, IdentityInv, Shapes
  <2>3. Locking' /\ Writing'
    BY <1>1, <1>2 DEF ClearCA, Locking, Writing, Inside
  <2>4. QED
    BY <1>2, <2>2, <2>3 DEF IdentityInv, Unchanged, ClearCA
<1>3. CASE UseDatabase
  <2> DEFINE cols == [c \in Columns |-> IF c \in BaseColumns THEN "set" ELSE db.cols[c]]
  <2>1. db' = [db EXCEPT !.cols = cols]
    BY <1>3 DEF UseDatabase
  <2> HIDE DEF cols
  <2>2. db' = [there |-> db.there, tables |-> db.tables, cols |-> cols, views |-> db.views,
               version |-> db.version, rows |-> db.rows]
    BY <2>1, db = ShapeOf(db) DEF IdentityInv, Shapes, IsDatabase, ShapeOf
  <2>3. IsDatabase(db') /\ db'.rows = db.rows
    BY <2>2 DEF IdentityInv, Shapes, IsDatabase, ShapeOf
  <2>4. Shapes'
    BY <1>3, <2>3 DEF UseDatabase, IdentityInv, Shapes
  <2>5. Locking' /\ Writing'
    BY <1>1, <1>3 DEF UseDatabase, Locking, Writing, Inside
  <2>6. QED
    BY <1>3, <2>3, <2>4, <2>5 DEF IdentityInv, Unchanged, UseDatabase
<1>4. QED
  BY <1>2, <1>3

(* Every step keeps the invariant, and with it the identity. *)
LEMMA NextIdentity ==
    ASSUME IdentityInv, [Next]_vars
    PROVE  IdentityInv' /\ Unchanged
<1>1. CASE UNCHANGED vars
  BY <1>1 DEF vars, IdentityInv, Shapes, Locking, Writing, Inside, Unchanged
<1>2. ASSUME NEW p \in Procs, NEW f \in Files, CreateFile(p, f)
      PROVE  IdentityInv' /\ Unchanged
  BY <1>2, CreateIdentity
<1>3. ASSUME NEW p \in Procs,
             \/ EnsureDefaultMaandConfig(p) \/ EnsureWorkspaceFiles(p)
             \/ GenerateCA(p) \/ EnsureEncryptionKey(p)
      PROVE  IdentityInv' /\ Unchanged
  BY <1>2, <1>3 DEF EnsureDefaultMaandConfig, EnsureWorkspaceFiles, GenerateCA,
                    EnsureEncryptionKey, Files
<1>4. ASSUME NEW p \in Procs,
             \/ Start(p) \/ Begin(p) \/ EnsureCA(p) \/ FillFile(p) \/ Commit(p)
      PROVE  IdentityInv' /\ Unchanged
  BY <1>4, StartIdentity, BeginIdentity, CAIdentity, FillIdentity, CommitIdentity
<1>5. ASSUME NEW p \in Procs, Busy(p) \/ Die(p)
      PROVE  IdentityInv' /\ Unchanged
  BY <1>5, AbandonIdentity DEF Busy, Die
<1>6. CASE ClearCA \/ UseDatabase
  BY <1>6, AroundIdentity
<1>7. QED
  BY <1>1, <1>3, <1>4, <1>5, <1>6 DEF Next

(* However many inits run, race, fail and die, over whatever database: the row that
   names the bucket stays the first one, and no file that was written is written
   again (Execute of src/initialize holds the write lock from its first write on). *)
THEOREM BucketKeepsIdentity == Spec => IdentityKept
<1>1. IdentityInv /\ [Next]_vars => IdentityInv'
  BY NextIdentity
<1>2. IdentityInv /\ [Next]_vars => [Unchanged]_vars
  BY NextIdentity
<1>3. QED
  BY <1>1, <1>2, InitIdentity, PTL DEF Spec, IdentityKept

-----------------------------------------------------------------------------
(* The gate: what a command finds once CheckSchemaVersion lets it pass. *)

(* A bucket whose schema is current has a row: earlier binaries inserted it in the
   transaction that wrote the version. *)
LegaciesNamed == \A d \in Legacies : GateOpen(d) => d.rows # <<>>

(* A database with columns and views of which the migration knows what to do. *)
Shaped(d) ==
    /\ d.cols \in [Columns -> {"missing", "default", "set"}]
    /\ d.views \in [Views -> {"missing", "stale", "current"}]
    /\ \A c \in Columns : TableOf[c] \notin d.tables => d.cols[c] = "missing"

(* No value of old is lost in new. *)
Kept(old, new) == \A c \in BaseColumns : Holds(old, c) = "set" => Holds(new, c) = "set"

FilesThere == \A f \in Files : files[f] # Missing

(* maand.conf is made by the init that inserts the row, and is there once it has. *)
Configured == db.rows # <<>> => files["maand.conf"] # Missing

OneCA == files["ca.crt"] >= 0 /\ files["ca.key"] >= 0 => files["ca.crt"] = files["ca.key"]

(* What an init has still to do, step by step, and what it has done by then. *)
Plans == << <<"maand.conf", "workers.json", "bucket.conf", "ca", "kv.key">>,
            <<"workers.json", "bucket.conf", "ca", "kv.key">>,
            <<"bucket.conf", "ca", "kv.key">>,
            <<"ca", "kv.key">>,
            <<"ca.crt", "ca.key", "kv.key">>,
            <<"ca.key", "kv.key">>,
            <<"kv.key">>,
            <<>> >>

(* A half of the CA that is still to be made is missing, or is being made now. *)
ToMake(p, f) ==
    \/ proc[p].pc = "files" /\ files[f] = Missing
    \/ proc[p].pc = "writing" /\ files[f] = Torn

Done(p, n) ==
    /\ n >= 2 => files["maand.conf"] # Missing
    /\ n >= 3 => files["workers.json"] # Missing
    /\ n >= 4 => files["bucket.conf"] # Missing
    /\ n = 5 => ToMake(p, "ca.crt") /\ files["ca.key"] = Missing
    /\ n = 6 => files["ca.crt"] = proc[p].id /\ ToMake(p, "ca.key")
    /\ n >= 7 => files["ca.crt"] # Missing /\ files["ca.key"] # Missing
    /\ n = 8 => files["kv.key"] # Missing
    /\ proc[p].pc = "writing" => n \notin {4, 8}

(* An init inside its transaction is about to commit a database that opens the gate,
   names the bucket and keeps every value, once the files are there. *)
Prepared(p) ==
    /\ Shaped(proc[p].work) /\ GateOpen(proc[p].work)
    /\ proc[p].work.rows # <<>> /\ Kept(db, proc[p].work)
    /\ \E n \in 1..8 : proc[p].todo = Plans[n] /\ Done(p, n)

GateInv ==
    /\ IdentityInv
    /\ Shaped(db)
    /\ ~db.there => db.version # LatestSchemaVersion
    /\ GateOpen(db) => db.rows # <<>> /\ FilesThere
    /\ Configured
    /\ ended = "ok" => GateOpen(db)
    /\ OneCA
    /\ \A p \in Procs : Inside(p) => Prepared(p)

(* The tables of the columns. *)
LEMMA ColumnTables ==
    /\ Columns = {"new_version", "current_version", "current_files", "previous_files",
                  "health_check", "restart_policy", "restart_globs", "current_memory_source",
                  "current_cpu_source", "max_concurrent_upgrades", "max_concurrent_starts",
                  "update_parallel_count", "deploy_parallel_count"}
    /\ \A c \in Columns : TableOf[c] \in Tables
    /\ \A c \in {"max_concurrent_upgrades", "max_concurrent_starts",
                 "update_parallel_count", "deploy_parallel_count"} : TableOf[c] = "job"
    /\ TableOf["new_version"] = "allocations" /\ TableOf["current_version"] = "hash"
BY DEF TableOf, Columns, Tables, HashColumns, JobColumns

Contents == {"missing", "default", "set"}

(* ensureTableColumn adds one column, renameTableColumn moves one to where there is none. *)
LEMMA EnsureIs ==
    ASSUME NEW cols \in [Columns -> Contents], NEW c \in Columns
    PROVE  /\ EnsureColumn(cols, c) \in [Columns -> Contents]
           /\ EnsureColumn(cols, c)[c] = (IF cols[c] = "missing" THEN "default" ELSE cols[c])
           /\ \A x \in Columns \ {c} : EnsureColumn(cols, c)[x] = cols[x]
BY DEF EnsureColumn, Contents

(* RENAME COLUMN moves the values of the old name, if there are any and the new name is
   free, and leaves the other columns as they are. *)
LEMMA RenameIs ==
    ASSUME NEW cols \in [Columns -> Contents], NEW a \in Columns, NEW b \in Columns, a # b
    PROVE  /\ RenameColumn(cols, a, b) \in [Columns -> Contents]
           /\ \A x \in Columns \ {a, b} : RenameColumn(cols, a, b)[x] = cols[x]
           /\ cols[a] # "missing" /\ cols[b] = "missing" =>
                 RenameColumn(cols, a, b)[b] = cols[a] /\ RenameColumn(cols, a, b)[a] = "missing"
           /\ cols[a] = "missing" \/ cols[b] # "missing" => RenameColumn(cols, a, b) = cols
<1>1. CASE cols[a] = "missing" \/ cols[b] # "missing"
  BY <1>1 DEF RenameColumn
<1>2. CASE ~(cols[a] = "missing" \/ cols[b] # "missing")
  <2>1. RenameColumn(cols, a, b) = [cols EXCEPT ![b] = cols[a], ![a] = "missing"]
    BY <1>2 DEF RenameColumn
  <2>2. [cols EXCEPT ![b] = cols[a], ![a] = "missing"]
           = [x \in Columns |-> IF x = a THEN "missing" ELSE IF x = b THEN cols[a] ELSE cols[x]]
    OBVIOUS
  <2> QED
    BY <1>2, <2>1, <2>2 DEF Contents
<1> QED
  BY <1>1, <1>2

(* migrateJobRolloutColumns: an operator's value is found under the new name, whether
   it was there or under the old one. *)
LEMMA RolloutIs ==
    ASSUME NEW cols \in [Columns -> Contents]
    PROVE  LET up == "max_concurrent_upgrades"
               st == "max_concurrent_starts"
               ou == "update_parallel_count"
               os == "deploy_parallel_count"
               R  == RolloutColumns(cols)
           IN  /\ R \in [Columns -> Contents]
               /\ \A x \in Columns \ {up, st, ou, os} : R[x] = cols[x]
               /\ R[up] = (IF cols[up] # "missing" THEN cols[up]
                           ELSE IF cols[ou] # "missing" THEN cols[ou] ELSE "default")
               /\ R[st] = (IF cols[st] # "missing" THEN cols[st]
                           ELSE IF cols[os] # "missing" THEN cols[os] ELSE "default")
<1> DEFINE up == "max_concurrent_upgrades"
           st == "max_concurrent_starts"
           ou == "update_parallel_count"
           os == "deploy_parallel_count"
           c1 == EnsureColumn(cols, ou)
           c2 == EnsureColumn(c1, os)
           c3 == RenameColumn(c2, ou, up)
           c4 == RenameColumn(c3, os, st)
           c5 == EnsureColumn(c4, up)
           c6 == EnsureColumn(c5, st)
<1>0. RolloutColumns(cols) = c6
  BY DEF RolloutColumns
<1>1. up \in Columns /\ st \in Columns /\ ou \in Columns /\ os \in Columns
  BY ColumnTables
<1>2. up # st /\ up # ou /\ up # os /\ st # ou /\ st # os /\ ou # os
  OBVIOUS
<1> HIDE DEF up, st, ou, os, c1, c2, c3, c4, c5, c6
<1>3. /\ c1 \in [Columns -> Contents] /\ c1[ou] = (IF cols[ou] = "missing" THEN "default" ELSE cols[ou])
      /\ \A x \in Columns \ {ou} : c1[x] = cols[x]
  BY <1>1, EnsureIs DEF c1
<1>4. /\ c2 \in [Columns -> Contents] /\ c2[os] = (IF cols[os] = "missing" THEN "default" ELSE cols[os])
      /\ c2[ou] = c1[ou] /\ \A x \in Columns \ {ou, os} : c2[x] = cols[x]
  BY <1>1, <1>2, <1>3, EnsureIs DEF c2
<1>5. /\ c3 \in [Columns -> Contents] /\ \A x \in Columns \ {ou, up} : c3[x] = c2[x]
      /\ c3[up] = (IF cols[up] # "missing" THEN cols[up] ELSE c1[ou])
  <2>1. c2[ou] # "missing" /\ c2[up] = cols[up]
    BY <1>1, <1>2, <1>3, <1>4
  <2>2. /\ c3 \in [Columns -> Contents]
        /\ \A x \in Columns \ {ou, up} : c3[x] = c2[x]
        /\ c2[ou] # "missing" /\ c2[up] = "missing" => c3[up] = c2[ou]
        /\ c2[ou] = "missing" \/ c2[up] # "missing" => c3 = c2
    BY <1>1, <1>2, <1>4, RenameIs DEF c3
  <2> QED
    BY <1>4, <2>1, <2>2
<1>6. /\ c4 \in [Columns -> Contents] /\ \A x \in Columns \ {os, st} : c4[x] = c3[x]
      /\ c4[st] = (IF cols[st] # "missing" THEN cols[st] ELSE c2[os])
  <2>1. c3[os] = c2[os] /\ c2[os] # "missing" /\ c3[st] = cols[st]
    BY <1>1, <1>2, <1>4, <1>5
  <2>2. /\ c4 \in [Columns -> Contents]
        /\ \A x \in Columns \ {os, st} : c4[x] = c3[x]
        /\ c3[os] # "missing" /\ c3[st] = "missing" => c4[st] = c3[os]
        /\ c3[os] = "missing" \/ c3[st] # "missing" => c4 = c3
    BY <1>1, <1>2, <1>5, RenameIs DEF c4
  <2> QED
    BY <2>1, <2>2
<1>7. /\ c5 \in [Columns -> Contents] /\ \A x \in Columns \ {up} : c5[x] = c4[x]
      /\ c5[up] = (IF c4[up] = "missing" THEN "default" ELSE c4[up])
  BY <1>1, <1>6, EnsureIs DEF c5
<1>8. /\ c6 \in [Columns -> Contents] /\ \A x \in Columns \ {st} : c6[x] = c5[x]
      /\ c6[st] = (IF c5[st] = "missing" THEN "default" ELSE c5[st])
  BY <1>1, <1>7, EnsureIs DEF c6
<1>9. \A x \in Columns \ {up, st, ou, os} : c6[x] = cols[x]
  BY <1>1, <1>4, <1>5, <1>6, <1>7, <1>8
<1>10. c6[up] = (IF cols[up] # "missing" THEN cols[up]
                 ELSE IF cols[ou] # "missing" THEN cols[ou] ELSE "default")
  BY <1>1, <1>2, <1>3, <1>5, <1>6, <1>7, <1>8
<1>11. c6[st] = (IF cols[st] # "missing" THEN cols[st]
                 ELSE IF cols[os] # "missing" THEN cols[os] ELSE "default")
  BY <1>1, <1>2, <1>4, <1>6, <1>7, <1>8
<1> QED
  BY <1>0, <1>8, <1>9, <1>10, <1>11 DEF up, st, ou, os

(* The fields of a migrated database. *)
Added(d) ==
    [c \in Columns |-> IF c \in AddedColumns /\ WithBaseTables(d)[c] = "missing"
                       THEN "default" ELSE WithBaseTables(d)[c]]

(* MigrateSchema sets everything but the rows. *)
LEMMA MigratedIs ==
    ASSUME NEW d, IsDatabase(d), Shaped(d)
    PROVE  /\ Migrated(d).there = TRUE
           /\ Migrated(d).tables = Tables
           /\ Migrated(d).cols = RolloutColumns(Added(d))
           /\ Migrated(d).views = [v \in Views |-> "current"]
           /\ Migrated(d).version = LatestSchemaVersion
           /\ Migrated(d).rows = d.rows
<1> DEFINE cols  == RolloutColumns(Added(d))
           views == DeploymentsView(RecreatedViews(d.views))
<1>1. Migrated(d) = [d EXCEPT !.there = TRUE, !.tables = Tables, !.cols = cols, !.views = views,
                              !.version = LatestSchemaVersion]
  BY DEF Migrated, Added
<1>2. views = [v \in Views |-> "current"]
  <2>1. d.views \in [Views -> {"missing", "stale", "current"}]
    BY DEF Shaped
  <2>2. QED
    BY <2>1 DEF DeploymentsView, RecreatedViews, Views
<1> HIDE DEF cols, views
<1>3. Migrated(d) = [there |-> TRUE, tables |-> Tables, cols |-> cols, views |-> views,
                     version |-> LatestSchemaVersion, rows |-> d.rows]
  BY <1>1, d = ShapeOf(d) DEF IsDatabase, ShapeOf
<1>4. QED
  BY <1>2, <1>3 DEF cols

(* A column that was there keeps what it held; one that was not, and that every table
   has or migrateToV1 adds, holds its default. *)
LEMMA AddedIs ==
    ASSUME NEW d, Shaped(d)
    PROVE  /\ Added(d) \in [Columns -> Contents]
           /\ \A c \in Columns : d.cols[c] # "missing" => Added(d)[c] = d.cols[c]
           /\ \A c \in Columns \cap AddedColumns : Added(d)[c] # "missing"
           /\ \A c \in Columns \ AddedColumns : TableOf[c] \in d.tables => Added(d)[c] = d.cols[c]
<1>1. \A c \in Columns : WithBaseTables(d)[c] = (IF TableOf[c] \notin d.tables /\ c \in BaseColumns
                                                 THEN "default" ELSE d.cols[c])
  BY DEF WithBaseTables
<1>2. \A c \in Columns : d.cols[c] \in Contents /\ (TableOf[c] \notin d.tables => d.cols[c] = "missing")
  BY DEF Shaped, Contents
<1>3. \A c \in Columns : Added(d)[c] = (IF c \in AddedColumns /\ WithBaseTables(d)[c] = "missing"
                                        THEN "default" ELSE WithBaseTables(d)[c])
  BY DEF Added
<1>4. Added(d) \in [Columns -> Contents]
  <2>1. \A c \in Columns : Added(d)[c] \in Contents
    BY <1>1, <1>2, <1>3 DEF Contents
  <2>2. QED
    BY <2>1 DEF Added
<1>5. QED
  BY <1>1, <1>2, <1>3, <1>4

(* migrateToV1 leaves a database that CheckSchemaVersion lets pass and loses nothing. *)
LEMMA Migration ==
    ASSUME NEW d, IsDatabase(d), Shaped(d)
    PROVE  Shaped(Migrated(d)) /\ GateOpen(Migrated(d)) /\ Kept(d, Migrated(d))
<1> DEFINE up == "max_concurrent_upgrades"
           st == "max_concurrent_starts"
           ou == "update_parallel_count"
           os == "deploy_parallel_count"
           A  == Added(d)
           R  == RolloutColumns(A)
           M  == Migrated(d)
<1>1. /\ M.there = TRUE /\ M.tables = Tables /\ M.cols = R
      /\ M.views = [v \in Views |-> "current"] /\ M.version = LatestSchemaVersion
  BY MigratedIs
<1>2. /\ A \in [Columns -> Contents]
      /\ \A c \in Columns : d.cols[c] # "missing" => A[c] = d.cols[c]
      /\ \A c \in Columns \cap AddedColumns : A[c] # "missing"
      /\ \A c \in Columns \ AddedColumns : TableOf[c] \in d.tables => A[c] = d.cols[c]
  BY AddedIs
<1> HIDE DEF A
<1>3. /\ R \in [Columns -> Contents]
      /\ \A x \in Columns \ {up, st, ou, os} : R[x] = A[x]
      /\ R[up] = (IF A[up] # "missing" THEN A[up] ELSE IF A[ou] # "missing" THEN A[ou] ELSE "default")
      /\ R[st] = (IF A[st] # "missing" THEN A[st] ELSE IF A[os] # "missing" THEN A[os] ELSE "default")
  BY <1>2, RolloutIs
<1> HIDE DEF R, M
<1>4. Shaped(M)
  BY <1>1, <1>3, ColumnTables DEF Shaped, Contents
<1>5. ColumnsPresent(M)
  <2>1. /\ RequiredColumns = AddedColumns \cup {up, st} /\ AddedColumns \subseteq Columns
        /\ AddedColumns \cap {up, st, ou, os} = {}
    BY ColumnTables DEF RequiredColumns, AddedColumns
  <2>2. R[up] # "missing" /\ R[st] # "missing"
    BY <1>3
  <2>3. \A c \in AddedColumns : R[c] # "missing"
    BY <1>2, <1>3, <2>1
  <2>4. QED
    BY <1>1, <2>1, <2>2, <2>3 DEF ColumnsPresent
<1>6. GateOpen(M)
  BY <1>1, <1>5 DEF GateOpen, ViewsPresent
<1>7. Kept(d, M)
  <2> SUFFICES ASSUME NEW c \in BaseColumns, Holds(d, c) = "set"
               PROVE  Holds(M, c) = "set"
    BY DEF Kept
  <2>1. /\ c \in Columns \ {ou, os} /\ up \in Columns /\ st \in Columns /\ ou \in Columns /\ os \in Columns
        /\ {up, st, ou, os} \cap AddedColumns = {}
        /\ TableOf[up] = "job" /\ TableOf[st] = "job" /\ TableOf[ou] = "job" /\ TableOf[os] = "job"
    BY ColumnTables DEF BaseColumns, AddedColumns
  <2>2. DOMAIN OldName = {up, st} /\ OldName[up] = ou /\ OldName[st] = os
    BY DEF OldName
  <2>3. CASE c \notin {up, st}
    BY <1>1, <1>2, <1>3, <2>1, <2>2, <2>3 DEF Holds
  <2>4. CASE c = up
    <3>1. d.cols[up] = "set" \/ (d.cols[up] = "missing" /\ d.cols[ou] = "set")
      BY <2>2, <2>4 DEF Holds
    <3>2. CASE d.cols[up] = "set"
      BY <1>1, <1>2, <1>3, <2>1, <2>2, <2>4, <3>2 DEF Holds
    <3>3. CASE d.cols[up] = "missing" /\ d.cols[ou] = "set"
      <4>1. "job" \in d.tables
        BY <2>1, <3>3 DEF Shaped
      <4>2. A[up] = "missing" /\ A[ou] = "set"
        BY <1>2, <2>1, <3>3, <4>1
      <4>3. QED
        BY <1>1, <1>3, <2>4, <4>2 DEF Holds
    <3>4. QED
      BY <3>1, <3>2, <3>3
  <2>5. CASE c = st
    <3>1. d.cols[st] = "set" \/ (d.cols[st] = "missing" /\ d.cols[os] = "set")
      BY <2>2, <2>5 DEF Holds
    <3>2. CASE d.cols[st] = "set"
      BY <1>1, <1>2, <1>3, <2>1, <2>2, <2>5, <3>2 DEF Holds
    <3>3. CASE d.cols[st] = "missing" /\ d.cols[os] = "set"
      <4>1. "job" \in d.tables
        BY <2>1, <3>3 DEF Shaped
      <4>2. A[st] = "missing" /\ A[os] = "set"
        BY <1>2, <2>1, <3>3, <4>1
      <4>3. QED
        BY <1>1, <1>3, <2>5, <4>2 DEF Holds
    <3>4. QED
      BY <3>1, <3>2, <3>3
  <2>6. QED
    BY <2>3, <2>4, <2>5
<1>8. QED
  BY <1>4, <1>6, <1>7 DEF M

-----------------------------------------------------------------------------
(* The plan of an init. *)

(* Short sequences, one after the other: what ensureCA and Execute put together. *)
LEMMA OneAfterTwo ==
    ASSUME NEW S, NEW a \in S, NEW b \in S, NEW c \in S
    PROVE  <<a, b>> \o <<c>> = <<a, b, c>>
<1>1. <<a, b>> \in Seq(S) /\ <<c>> \in Seq(S) /\ <<a, b, c>> \in Seq(S)
  OBVIOUS
<1> DEFINE u == <<a, b>> \o <<c>>
<1>2. u \in Seq(S) /\ Len(u) = 3
  BY <1>1, ConcatProperties
<1>3. u[1] = a /\ u[2] = b /\ u[3] = c
  BY <1>1, ConcatProperties
<1> HIDE DEF u
<1>4. u = <<a, b, c>>
  BY <1>1, <1>2, <1>3, SeqEqual
<1>5. QED
  BY <1>4 DEF u

(* The same for a step that comes before four others. *)
LEMMA FourAfterOne ==
    ASSUME NEW S, NEW a \in S, NEW b \in S, NEW c \in S, NEW d \in S, NEW e \in S
    PROVE  <<a>> \o <<b, c, d, e>> = <<a, b, c, d, e>>
<1>1. <<a>> \in Seq(S) /\ <<b, c, d, e>> \in Seq(S) /\ <<a, b, c, d, e>> \in Seq(S)
  OBVIOUS
<1> DEFINE u == <<a>> \o <<b, c, d, e>>
<1>2. u \in Seq(S) /\ Len(u) = 5
  BY <1>1, ConcatProperties
<1>3. u[1] = a /\ u[2] = b /\ u[3] = c /\ u[4] = d /\ u[5] = e
  BY <1>1, ConcatProperties
<1> HIDE DEF u
<1>4. u = <<a, b, c, d, e>>
  BY <1>1, <1>2, <1>3, SeqEqual
<1>5. QED
  BY <1>4 DEF u

(* What comes next in a plan, and what is left of it then. *)
LEMMA PlanSteps ==
    /\ Plans[1] # <<>> /\ Head(Plans[1]) = "maand.conf"   /\ Tail(Plans[1]) = Plans[2]
    /\ Plans[2] # <<>> /\ Head(Plans[2]) = "workers.json" /\ Tail(Plans[2]) = Plans[3]
    /\ Plans[3] # <<>> /\ Head(Plans[3]) = "bucket.conf"  /\ Tail(Plans[3]) = Plans[4]
    /\ Plans[4] # <<>> /\ Head(Plans[4]) = "ca"           /\ Tail(Plans[4]) = Plans[7]
    /\ Plans[5] # <<>> /\ Head(Plans[5]) = "ca.crt"       /\ Tail(Plans[5]) = Plans[6]
    /\ Plans[6] # <<>> /\ Head(Plans[6]) = "ca.key"       /\ Tail(Plans[6]) = Plans[7]
    /\ Plans[7] # <<>> /\ Head(Plans[7]) = "kv.key"       /\ Tail(Plans[7]) = Plans[8]
    /\ Plans[8] = <<>>
    /\ <<"ca.crt", "ca.key">> \o Plans[7] = Plans[5]
    /\ <<"maand.conf">> \o Plans[2] = Plans[1] /\ <<>> \o Plans[2] = Plans[2]
<1>1. /\ Plans[1] = <<"maand.conf", "workers.json", "bucket.conf", "ca", "kv.key">>
      /\ Plans[2] = <<"workers.json", "bucket.conf", "ca", "kv.key">>
      /\ Plans[3] = <<"bucket.conf", "ca", "kv.key">>
      /\ Plans[4] = <<"ca", "kv.key">>
      /\ Plans[5] = <<"ca.crt", "ca.key", "kv.key">>
      /\ Plans[6] = <<"ca.key", "kv.key">>
      /\ Plans[7] = <<"kv.key">>
      /\ Plans[8] = <<>>
  BY DEF Plans
<1>2. Plans[1] # <<>> /\ Head(Plans[1]) = "maand.conf"   /\ Tail(Plans[1]) = Plans[2]
  BY <1>1
<1>3. Plans[2] # <<>> /\ Head(Plans[2]) = "workers.json" /\ Tail(Plans[2]) = Plans[3]
  BY <1>1
<1>4. Plans[3] # <<>> /\ Head(Plans[3]) = "bucket.conf"  /\ Tail(Plans[3]) = Plans[4]
  BY <1>1
<1>5. Plans[4] # <<>> /\ Head(Plans[4]) = "ca"           /\ Tail(Plans[4]) = Plans[7]
  BY <1>1
<1>6. Plans[5] # <<>> /\ Head(Plans[5]) = "ca.crt"       /\ Tail(Plans[5]) = Plans[6]
  BY <1>1
<1>7. Plans[6] # <<>> /\ Head(Plans[6]) = "ca.key"       /\ Tail(Plans[6]) = Plans[7]
  BY <1>1
<1>8. Plans[7] # <<>> /\ Head(Plans[7]) = "kv.key"       /\ Tail(Plans[7]) = Plans[8]
  BY <1>1
<1>9. <<"ca.crt", "ca.key">> \o Plans[7] = Plans[5]
  <2> DEFINE S == {"ca.crt", "ca.key", "kv.key"}
  <2>1. "ca.crt" \in S /\ "ca.key" \in S /\ "kv.key" \in S
    OBVIOUS
  <2> HIDE DEF S
  <2>2. <<"ca.crt", "ca.key">> \o <<"kv.key">> = <<"ca.crt", "ca.key", "kv.key">>
    BY <2>1, OneAfterTwo, Zenon
  <2>3. QED
    BY <1>1, <2>2
<1>10. <<"maand.conf">> \o Plans[2] = Plans[1]
  <2> DEFINE a == "maand.conf"
             b == "workers.json"
             c == "bucket.conf"
             d == "ca"
             e == "kv.key"
  <2>1. Plans[1] = <<a, b, c, d, e>> /\ Plans[2] = <<b, c, d, e>>
    BY <1>1
  <2> HIDE DEF a, b, c, d, e
  <2>2. <<a>> \o <<b, c, d, e>> = <<a, b, c, d, e>>
    <3> DEFINE S == {a, b, c, d, e}
    <3>1. a \in S /\ b \in S /\ c \in S /\ d \in S /\ e \in S
      OBVIOUS
    <3> HIDE DEF S
    <3>2. QED
      BY <3>1, FourAfterOne
  <2>3. <<a>> \o Plans[2] = Plans[1]
    BY <2>1, <2>2
  <2>4. QED
    BY <2>3 DEF a
<1>11. <<>> \o Plans[2] = Plans[2]
  BY <1>1, ConcatEmptySeq
<1>12. QED
  BY <1>1, <1>2, <1>3, <1>4, <1>5, <1>6, <1>7, <1>8, <1>9, <1>10, <1>11

(* But for the CA, what is left of a plan is the next one. *)
LEMMA NextPlan ==
    \A n \in {1, 2, 3, 5, 6, 7} : n + 1 \in 1..8 /\ Tail(Plans[n]) = Plans[n + 1]
<1> TAKE n \in {1, 2, 3, 5, 6, 7}
<1>1. n = 1 => n + 1 = 2
  OBVIOUS
<1>2. n = 2 => n + 1 = 3
  OBVIOUS
<1>3. n = 3 => n + 1 = 4
  OBVIOUS
<1>4. n = 5 => n + 1 = 6
  OBVIOUS
<1>5. n = 6 => n + 1 = 7
  OBVIOUS
<1>6. n = 7 => n + 1 = 8
  OBVIOUS
<1> DEFINE m == n + 1
<1> HIDE DEF m
<1>7. Tail(Plans[n]) = Plans[m]
  BY <1>1, <1>2, <1>3, <1>4, <1>5, <1>6, PlanSteps DEF m
<1>8. QED
  BY <1>7 DEF m

(* Only one process is inside a transaction. *)
LEMMA OneInside ==
    ASSUME IdentityInv, NEW p \in Procs, Inside(p)
    PROVE  IsProc(proc[p]) /\ \A q \in Procs \ {p} : ~Inside(q)
  BY DEF IdentityInv, Locking, Shapes

(* A step of an init on its files. *)
LEMMA FilesStep ==
    ASSUME GateInv, IdentityInv', NEW p \in Procs, Inside(p),
           \A q \in Procs \ {p} : proc'[q] = proc[q], proc'[p].work = proc[p].work,
           UNCHANGED <<db, ended>>, \A f \in Files : files[f] # Missing => files'[f] # Missing,
           OneCA', NEW n \in 1..8, proc'[p].todo = Plans[n], Done(p, n)'
    PROVE  GateInv'
<1>1. IdentityInv /\ Prepared(p)
  BY DEF GateInv
<1>2. \A q \in Procs \ {p} : ~Inside(q)'
  BY <1>1, OneInside DEF Inside
<1>3. Prepared(p)'
  BY <1>1 DEF Prepared, Shaped, GateOpen, ColumnsPresent, ViewsPresent, Kept, Holds
<1>4. \A q \in Procs : Inside(q)' => Prepared(q)'
  BY <1>2, <1>3
<1>5. FilesThere => FilesThere'
  BY DEF FilesThere
<1>6. /\ Shaped(db)' /\ (~db.there => db.version # LatestSchemaVersion)'
      /\ (GateOpen(db)' => db'.rows # <<>> /\ FilesThere') /\ (ended' = "ok" => GateOpen(db)')
  BY <1>5 DEF GateInv, Shaped, GateOpen, ColumnsPresent, ViewsPresent
<1>7. Configured'
  BY DEF GateInv, Configured, Files
<1>8. QED
  BY <1>4, <1>6, <1>7 DEF GateInv

(* The file that comes next is there already, or is created: never the CA's, that are
   only to be made when neither was there. *)
LEMMA CreateGate ==
    ASSUME GateInv, NEW p \in Procs, NEW f \in Files, CreateFile(p, f)
    PROVE  GateInv'
<1>1. IdentityInv /\ IdentityInv' /\ Inside(p) /\ proc[p].pc = "files"
  BY CreateIdentity DEF GateInv, CreateFile, Inside
<1>2. IsProc(proc[p]) /\ proc \in [Procs -> {proc[q] : q \in Procs}] /\ files \in [Files -> Int]
  BY <1>1, OneInside DEF IdentityInv, Shapes
<1>3. PICK n \in 1..8 : proc[p].todo = Plans[n] /\ Done(p, n)
  BY <1>1 DEF GateInv, Prepared
<1>4. Head(Plans[n]) = f /\ Plans[n] # <<>> /\ UNCHANGED <<db, ended>> /\ OneCA
  BY <1>3 DEF CreateFile, GateInv
<1>5. n \in {1, 2, 3, 5, 6, 7}
  BY <1>4, PlanSteps DEF Files
<1>6. CASE files[f] # Missing
  <2> DEFINE r == [proc[p] EXCEPT !.todo = Tail(@)]
  <2>1. proc' = [proc EXCEPT ![p] = r] /\ files' = files
    BY <1>6 DEF CreateFile
  <2>2. r.pc = "files" /\ r.work = proc[p].work /\ r.id = proc[p].id /\ r.todo = Tail(Plans[n])
    BY <1>1, <1>2, <1>3, FieldsKept
  <2>3. proc'[p] = r /\ \A q \in Procs \ {p} : proc'[q] = proc[q]
    BY <1>2, <2>1
  <2> HIDE DEF r
  <2>4. n \notin {5, 6}
    BY <1>1, <1>3, <1>4, <1>6, PlanSteps DEF Done, ToMake
  <2>5. n + 1 \in 1..8 /\ r.todo = Plans[n + 1]
    <3>1. r.todo = Tail(Plans[n]) /\ n \in {1, 2, 3, 7}
      BY <1>5, <2>2, <2>4
    <3>2. QED
      BY <3>1, NextPlan
  <2>6. Done(p, n + 1)'
    BY <1>3, <1>4, <1>5, <1>6, <2>1, <2>2, <2>3, <2>4, PlanSteps DEF Done
  <2>7. OneCA'
    BY <1>4, <2>1 DEF OneCA
  <2>8. QED
    BY <1>1, <1>4, <2>1, <2>2, <2>3, <2>5, <2>6, <2>7, FilesStep
<1>7. CASE files[f] = Missing
  <2> DEFINE r == [proc[p] EXCEPT !.pc = "writing"]
  <2>1. proc' = [proc EXCEPT ![p] = r] /\ files' = [files EXCEPT ![f] = Torn]
    BY <1>7 DEF CreateFile
  <2>2. r.pc = "writing" /\ r.work = proc[p].work /\ r.id = proc[p].id /\ r.todo = Plans[n]
    BY <1>1, <1>2, <1>3, FieldsKept DEF Phase
  <2>3. proc'[p] = r /\ \A q \in Procs \ {p} : proc'[q] = proc[q]
    BY <1>2, <2>1
  <2> HIDE DEF r
  <2>4. files'[f] = Torn /\ \A g \in Files \ {f} : files'[g] = files[g]
    BY <1>2, <2>1
  <2>5. \A g \in Files : files[g] # Missing => files'[g] # Missing
    BY <1>7, <2>4
  <2>6. Done(p, n)'
    <3>1. CASE n \in {1, 2, 3, 7}
      BY <1>3, <2>3, <2>5, <3>1 DEF Done, Files
    <3>2. CASE n = 5
      <4>1. f = "ca.crt"
        BY <1>4, <3>2, PlanSteps
      <4>2. QED
        BY <1>3, <2>2, <2>3, <2>4, <2>5, <3>2, <4>1 DEF Done, ToMake, Files
    <3>3. CASE n = 6
      <4>1. f = "ca.key"
        BY <1>4, <3>3, PlanSteps
      <4>2. QED
        BY <1>3, <2>2, <2>3, <2>4, <2>5, <3>3, <4>1 DEF Done, ToMake, Files
    <3>4. QED
      BY <1>5, <3>1, <3>2, <3>3
  <2>7. OneCA'
    BY <1>4, <2>4 DEF OneCA, Torn, Files
  <2>8. QED
    BY <1>1, <1>4, <2>2, <2>3, <2>5, <2>6, <2>7, FilesStep
<1>8. QED
  BY <1>6, <1>7

(* The file that was created is filled; the second half of the CA by the init that
   filled the first. *)
LEMMA FillGate ==
    ASSUME GateInv, NEW p \in Procs, FillFile(p)
    PROVE  GateInv'
<1>1. IdentityInv /\ IdentityInv' /\ Inside(p) /\ proc[p].pc = "writing"
  BY FillIdentity DEF GateInv, FillFile, Inside
<1>2. IsProc(proc[p]) /\ proc \in [Procs -> {proc[q] : q \in Procs}] /\ files \in [Files -> Int]
  BY <1>1, OneInside DEF IdentityInv, Shapes
<1>3. PICK n \in 1..8 : proc[p].todo = Plans[n] /\ Done(p, n)
  BY <1>1 DEF GateInv, Prepared
<1>4. n \in {1, 2, 3, 5, 6, 7}
  BY <1>1, <1>3 DEF Done
<1> DEFINE f == Head(Plans[n])
           s == [proc[p] EXCEPT !.pc = "files"]
           r == [s EXCEPT !.todo = Tail(Plans[n])]
<1>5. f \in Files /\ UNCHANGED <<db, ended>> /\ OneCA
  BY <1>4, PlanSteps DEF Files, FillFile, GateInv
<1>6. proc' = [proc EXCEPT ![p] = r] /\ files' = [files EXCEPT ![f] = proc[p].id]
  BY <1>2, <1>3 DEF FillFile
<1>7. IsProc(s) /\ s.pc = "files" /\ s.work = proc[p].work /\ s.id = proc[p].id
  BY <1>2, FieldsKept DEF Phase
<1> HIDE DEF s
<1>8. r.pc = "files" /\ r.work = proc[p].work /\ r.id = proc[p].id /\ r.todo = Tail(Plans[n])
  BY <1>7, FieldsKept
<1>9. proc'[p] = r /\ \A q \in Procs \ {p} : proc'[q] = proc[q]
  BY <1>2, <1>6
<1> HIDE DEF r, f
<1>10. files'[f] = proc[p].id /\ \A g \in Files \ {f} : files'[g] = files[g]
  BY <1>2, <1>5, <1>6
<1>11. proc[p].id \in Nat
  BY <1>2 DEF IsProc
<1> DEFINE m == n + 1
<1>12. m \in 1..8 /\ r.todo = Plans[m]
  BY <1>4, <1>8, NextPlan
<1>13. Done(p, m)'
  <2>1. CASE n = 1
    <3>1. f = "maand.conf" /\ m = 2
      BY <2>1, PlanSteps DEF f
    <3> HIDE DEF m
    <3>2. QED
      BY <1>1, <1>3, <1>8, <1>9, <1>10, <1>11, <2>1, <3>1 DEF Done, ToMake, Missing, Files
  <2>2. CASE n = 2
    <3>1. f = "workers.json" /\ m = 3
      BY <2>2, PlanSteps DEF f
    <3> HIDE DEF m
    <3>2. QED
      BY <1>1, <1>3, <1>8, <1>9, <1>10, <1>11, <2>2, <3>1 DEF Done, ToMake, Missing, Files
  <2>3. CASE n = 3
    <3>1. f = "bucket.conf" /\ m = 4
      BY <2>3, PlanSteps DEF f
    <3> HIDE DEF m
    <3>2. QED
      BY <1>1, <1>3, <1>8, <1>9, <1>10, <1>11, <2>3, <3>1 DEF Done, ToMake, Missing, Files
  <2>4. CASE n = 5
    <3>1. f = "ca.crt" /\ m = 6
      BY <2>4, PlanSteps DEF f
    <3> HIDE DEF m
    <3>2. QED
      BY <1>1, <1>3, <1>8, <1>9, <1>10, <1>11, <2>4, <3>1 DEF Done, ToMake, Missing, Files
  <2>5. CASE n = 6
    <3>1. f = "ca.key" /\ m = 7
      BY <2>5, PlanSteps DEF f
    <3> HIDE DEF m
    <3>2. QED
      BY <1>1, <1>3, <1>8, <1>9, <1>10, <1>11, <2>5, <3>1 DEF Done, ToMake, Missing, Files
  <2>6. CASE n = 7
    <3>1. f = "kv.key" /\ m = 8
      BY <2>6, PlanSteps DEF f
    <3> HIDE DEF m
    <3>2. QED
      BY <1>1, <1>3, <1>8, <1>9, <1>10, <1>11, <2>6, <3>1 DEF Done, ToMake, Missing, Files
  <2>7. QED
    BY <1>4, <2>1, <2>2, <2>3, <2>4, <2>5, <2>6
<1>14. OneCA'
  BY <1>1, <1>3, <1>4, <1>5, <1>10, PlanSteps DEF OneCA, Done, ToMake, Torn, Missing, Files, f
<1>15. \A g \in Files : files[g] # Missing => files'[g] # Missing
  BY <1>10, <1>11 DEF Missing
<1>16. QED
  BY <1>1, <1>5, <1>8, <1>9, <1>12, <1>13, <1>14, <1>15, FilesStep

(* Both halves of the CA are there, or both are put in front of the plan; with one the
   run ends. *)
LEMMA CAGate ==
    ASSUME GateInv, NEW p \in Procs, EnsureCA(p), ~Abandon(p)
    PROVE  GateInv'
<1>1. IdentityInv /\ IdentityInv' /\ Inside(p) /\ proc[p].pc = "files"
  BY CAIdentity DEF GateInv, EnsureCA, Inside
<1>2. IsProc(proc[p]) /\ proc \in [Procs -> {proc[q] : q \in Procs}]
  BY <1>1, OneInside DEF IdentityInv, Shapes
<1>3. PICK n \in 1..8 : proc[p].todo = Plans[n] /\ Done(p, n)
  BY <1>1 DEF GateInv, Prepared
<1>4. n = 4
  BY <1>3, PlanSteps DEF EnsureCA
<1>5. OneCA /\ UNCHANGED <<db, files, ended>>
  BY DEF EnsureCA, GateInv
<1>6. OneCA' /\ \A f \in Files : files[f] # Missing => files'[f] # Missing
  BY <1>5 DEF OneCA
<1>7. /\ files["maand.conf"] # Missing
      /\ files["workers.json"] # Missing /\ files["bucket.conf"] # Missing
  BY <1>3, <1>4 DEF Done
<1>8. CASE /\ MissingOf("ca.crt") /\ MissingOf("ca.key")
           /\ proc' = [proc EXCEPT ![p].todo = <<"ca.crt", "ca.key">> \o Tail(@)]
  <2> DEFINE t == <<"ca.crt", "ca.key">> \o Tail(proc[p].todo)
             r == [proc[p] EXCEPT !.todo = t]
  <2>1. t = Plans[5]
    BY <1>3, <1>4, PlanSteps
  <2>2. proc' = [proc EXCEPT ![p] = r]
    BY <1>8
  <2> HIDE DEF t
  <2>3. r.pc = "files" /\ r.work = proc[p].work /\ r.todo = Plans[5]
    BY <1>1, <1>2, <2>1, FieldsKept
  <2>4. proc'[p] = r /\ \A q \in Procs \ {p} : proc'[q] = proc[q]
    BY <1>2, <2>2
  <2> HIDE DEF r
  <2>5. Done(p, 5)'
    <3>1. (ToMake(p, "ca.crt") /\ files["ca.key"] = Missing)'
      BY <1>5, <1>8, <2>3, <2>4 DEF ToMake, MissingOf
    <3>2. QED
      BY <1>5, <1>7, <2>3, <2>4, <3>1 DEF Done
  <2>6. QED
    BY <1>1, <1>5, <1>6, <2>3, <2>4, <2>5, FilesStep
<1>9. CASE /\ ~MissingOf("ca.crt") /\ ~MissingOf("ca.key")
           /\ proc' = [proc EXCEPT ![p].todo = Tail(@)]
  <2> DEFINE r == [proc[p] EXCEPT !.todo = Plans[7]]
  <2>1. proc' = [proc EXCEPT ![p] = r]
    BY <1>3, <1>4, <1>9, PlanSteps
  <2>2. r.pc = "files" /\ r.work = proc[p].work /\ r.todo = Plans[7]
    BY <1>1, <1>2, FieldsKept
  <2>3. proc'[p] = r /\ \A q \in Procs \ {p} : proc'[q] = proc[q]
    BY <1>2, <2>1
  <2> HIDE DEF r
  <2>4. Done(p, 7)'
    BY <1>5, <1>7, <1>9, <2>2, <2>3 DEF Done, MissingOf
  <2>5. QED
    BY <1>1, <1>5, <1>6, <2>2, <2>3, <2>4, FilesStep
<1>10. QED
  BY <1>8, <1>9 DEF EnsureCA

(* What the committed database is worth, when it stays what it is. *)
LEMMA SameDatabase ==
    ASSUME UNCHANGED <<db, files>>
    PROVE  /\ Shaped(db)' = Shaped(db) /\ GateOpen(db)' = GateOpen(db)
           /\ FilesThere' = FilesThere /\ OneCA' = OneCA /\ Configured' = Configured
           /\ ValuesKept
  BY DEF Shaped, GateOpen, ColumnsPresent, ViewsPresent, FilesThere, OneCA, Configured,
         ValuesKept, Holds

(* An init that is where it was has what it had. *)
LEMMA SamePrepared ==
    ASSUME NEW q \in Procs, proc'[q] = proc[q], UNCHANGED <<db, files>>, Prepared(q)
    PROVE  Prepared(q)'
  BY DEF Prepared, Shaped, GateOpen, ColumnsPresent, ViewsPresent, Kept, Holds, Done, ToMake

(* The end of a run without a commit, and its start, leave the database and the files. *)
LEMMA AbandonGate ==
    ASSUME GateInv, NEW p \in Procs, Abandon(p) \/ Start(p)
    PROVE  GateInv' /\ ValuesKept
<1>1. IdentityInv /\ IdentityInv'
  BY AbandonIdentity, StartIdentity DEF GateInv
<1>2. UNCHANGED <<db, files>> /\ (ended' = ended \/ ended' = "error")
  BY DEF Abandon, Start
<1>3. ~Inside(p)' /\ \A q \in Procs \ {p} : proc'[q] = proc[q]
  BY <1>1 DEF Abandon, Start, Inside, Idle, IdentityInv, Shapes
<1>4. \A q \in Procs : Inside(q)' => Prepared(q)'
  <2> TAKE q \in Procs
  <2> HAVE Inside(q)'
  <2>1. proc'[q] = proc[q] /\ Inside(q) /\ Prepared(q)
    BY <1>3 DEF Inside, GateInv
  <2>2. QED
    BY <1>2, <2>1, SamePrepared
<1>5. QED
  BY <1>1, <1>2, <1>4, SameDatabase DEF GateInv

(* The transaction that takes the lock is prepared on what is committed by then. *)
LEMMA BeginGate ==
    ASSUME GateInv, NEW p \in Procs, Begin(p)
    PROVE  GateInv' /\ ValuesKept
<1> DEFINE d    == Migrated(db)
           new  == NeedsRecord(proc[p].fresh, d)
           work == IF new THEN [d EXCEPT !.rows = InsertRow(@, proc[p].id)] ELSE d
           todo == (IF new THEN <<"maand.conf">> ELSE <<>>)
                       \o <<"workers.json", "bucket.conf", "ca", "kv.key">>
           r    == [pc |-> "files", fresh |-> proc[p].fresh, id |-> proc[p].id, work |-> work, todo |-> todo]
<1>1. /\ IdentityInv /\ IdentityInv' /\ IsDatabase(db) /\ Shaped(db) /\ IsProc(proc[p])
      /\ proc \in [Procs -> {proc[q] : q \in Procs}]
  BY BeginIdentity DEF GateInv, IdentityInv, Shapes
<1>2. Shaped(d) /\ GateOpen(d) /\ Kept(db, d) /\ IsDatabase(d) /\ d.rows = db.rows
  BY <1>1, Migration, MigrationKeepsRows
<1>3. db' = [there |-> TRUE, tables |-> db.tables, cols |-> db.cols, views |-> db.views,
             version |-> db.version, rows |-> db.rows]
  BY <1>1 DEF Begin, IsDatabase, ShapeOf
<1>4. /\ work.there = d.there /\ work.tables = d.tables /\ work.cols = d.cols
      /\ work.views = d.views /\ work.version = d.version /\ work.rows # <<>>
  <2>1. CASE new
    <3>1. InsertRow(d.rows, proc[p].id) # <<>>
      <4>1. d.rows \in Seq(Int) /\ proc[p].id \in Int
        BY <1>1, <1>2 DEF IsDatabase, IsProc
      <4>2. QED
        BY <4>1, AppendProperties DEF InsertRow
    <3> DEFINE rows == InsertRow(d.rows, proc[p].id)
    <3>2. work = [d EXCEPT !.rows = rows]
      BY <2>1
    <3> HIDE DEF rows, d, work
    <3>3. PICK t, ta, c, v, n, s : d = [there |-> t, tables |-> ta, cols |-> c, views |-> v,
                                        version |-> n, rows |-> s]
      BY <1>2 DEF IsDatabase, ShapeOf
    <3>4. work.rows = rows
      BY <3>2, <3>3
    <3>5. QED
      BY <3>1, <3>2, <3>3, <3>4 DEF rows
  <2>2. CASE ~new
    BY <2>2 DEF NeedsRecord
  <2>3. QED
    BY <2>1, <2>2
<1>5. todo = Plans[1] \/ (~new /\ todo = Plans[2])
  <2>1. Plans[2] = <<"workers.json", "bucket.conf", "ca", "kv.key">>
    BY DEF Plans
  <2>2. todo = (IF new THEN <<"maand.conf">> ELSE <<>>) \o Plans[2]
    BY <2>1
  <2> HIDE DEF new, todo
  <2>3. QED
    BY <2>2, PlanSteps
<1> HIDE DEF d, new, work, todo
<1>6. proc' = [proc EXCEPT ![p] = r]
  BY DEF Begin, d, new, work, todo
<1>7. proc'[p] = r /\ \A q \in Procs \ {p} : proc'[q] = proc[q]
  BY <1>1, <1>6
<1>8. r.pc = "files" /\ r.work = work /\ r.todo = todo
  OBVIOUS
<1> HIDE DEF r
<1>9. \A q \in Procs \ {p} : ~Inside(q)'
  BY <1>7, BucketAssumption DEF Begin, GateInv, IdentityInv, Locking, Inside
<1>10. Prepared(p)'
  <2>1. Shaped(work) /\ GateOpen(work)
    BY <1>2, <1>4 DEF Shaped, GateOpen, ColumnsPresent, ViewsPresent
  <2>2. Kept(db', work)
    BY <1>2, <1>3, <1>4 DEF Kept, Holds
  <2>3. Done(p, 1)' /\ (~new => Done(p, 2)')
    <3>1. ~new => db.rows # <<>>
      BY <1>2 DEF new, NeedsRecord
    <3>2. files' = files /\ (~new => files["maand.conf"] # Missing)
      BY <3>1 DEF GateInv, Configured, Begin
    <3>3. QED
      BY <1>7, <1>8, <3>2 DEF Done
  <2>4. \E n \in 1..8 : todo = Plans[n] /\ Done(p, n)'
    BY <1>5, <2>3
  <2>5. QED
    BY <1>4, <1>7, <1>8, <2>1, <2>2, <2>4 DEF Prepared
<1>11. Shaped(db') /\ ValuesKept
  BY <1>1, <1>3 DEF Shaped, ValuesKept, Holds
<1>12. GateOpen(db') <=> GateOpen(db)
  <2>1. ~db.there => db.version # LatestSchemaVersion
    BY DEF GateInv
  <2>2. QED
    BY <1>3, <2>1 DEF GateOpen, ColumnsPresent, ViewsPresent
<1>13. UNCHANGED <<files, ended>>
  BY DEF Begin
<1>14. FilesThere' = FilesThere /\ OneCA' = OneCA
  BY <1>13 DEF FilesThere, OneCA
<1>15. \A q \in Procs : Inside(q)' => Prepared(q)'
  BY <1>9, <1>10
<1>16. db'.rows = db.rows /\ db'.there
  BY <1>3
<1>17. Configured'
  BY <1>13, <1>16 DEF GateInv, Configured
<1>18. QED
  BY <1>1, <1>11, <1>12, <1>13, <1>14, <1>15, <1>16, <1>17 DEF GateInv

(* The commit comes last: every file is there. *)
LEMMA CommitGate ==
    ASSUME GateInv, NEW p \in Procs, Commit(p)
    PROVE  GateInv' /\ ValuesKept
<1>1. IdentityInv /\ IdentityInv' /\ Inside(p) /\ Prepared(p)
  BY CommitIdentity DEF GateInv, Commit, Inside
<1>2. proc \in [Procs -> {proc[q] : q \in Procs}]
  BY <1>1 DEF IdentityInv, Shapes
<1>3. PICK n \in 1..8 : proc[p].todo = Plans[n] /\ Done(p, n)
  BY <1>1 DEF Prepared
<1>4. n = 8
  BY <1>3, PlanSteps DEF Commit
<1>5. FilesThere
  BY <1>3, <1>4 DEF Done, FilesThere, Files
<1>6. db' = proc[p].work /\ files' = files /\ ended' = "ok" /\ proc' = [proc EXCEPT ![p] = Idle]
  BY DEF Commit
<1>7. Shaped(db') /\ GateOpen(db') /\ db'.rows # <<>> /\ Kept(db, db')
  BY <1>1, <1>6 DEF Prepared
<1>8. \A q \in Procs : ~Inside(q)'
  BY <1>1, <1>2, <1>6, OneInside DEF Inside, Idle
<1>9. FilesThere' /\ OneCA' /\ Configured'
  BY <1>5, <1>6 DEF FilesThere, OneCA, Configured, Files, GateInv
<1>10. db'.there
  BY <1>7 DEF GateOpen
<1>11. QED
  BY <1>1, <1>6, <1>7, <1>8, <1>9, <1>10 DEF GateInv, ValuesKept, Kept

(* Half a CA is only ever removed while the gate is closed, and the commands that pass
   the gate write into tables that are all there. *)
LEMMA AroundGate ==
    ASSUME GateInv, ClearCA \/ UseDatabase
    PROVE  GateInv' /\ ValuesKept
<1>1. IdentityInv /\ IdentityInv' /\ proc' = proc /\ ended' = ended /\ files \in [Files -> Int]
  BY AroundIdentity DEF GateInv, ClearCA, UseDatabase, IdentityInv, Shapes
<1>2. \A q \in Procs : ~Inside(q)'
  BY <1>1, BucketAssumption DEF IdentityInv, Locking, ClearCA, UseDatabase, Inside
<1>3. CASE ClearCA
  <2>1. ~GateOpen(db)
    BY <1>3 DEF GateInv, FilesThere, ClearCA, MissingOf, Files
  <2>2. db' = db /\ files'["ca.crt"] = Missing /\ files'["maand.conf"] = files["maand.conf"]
    BY <1>1, <1>3 DEF ClearCA, Files
  <2>3. OneCA' /\ Configured'
    BY <2>2 DEF OneCA, Configured, Missing, GateInv
  <2>4. Shaped(db)' /\ ~GateOpen(db') /\ ValuesKept
    BY <2>1, <2>2 DEF Shaped, ValuesKept, Holds, GateInv
  <2>5. QED
    BY <1>1, <1>2, <2>1, <2>2, <2>3, <2>4 DEF GateInv
<1>4. CASE UseDatabase
  <2> DEFINE cols == [c \in Columns |-> IF c \in BaseColumns THEN "set" ELSE db.cols[c]]
  <2>1. db' = [db EXCEPT !.cols = cols]
    BY <1>4 DEF UseDatabase
  <2> HIDE DEF cols
  <2>2. db' = [there |-> db.there, tables |-> db.tables, cols |-> cols, views |-> db.views,
               version |-> db.version, rows |-> db.rows]
    BY <1>1, <2>1 DEF IdentityInv, Shapes, IsDatabase, ShapeOf
  <2>3. GateOpen(db) /\ Shaped(db) /\ db.rows # <<>> /\ FilesThere
    BY <1>4 DEF GateInv, UseDatabase
  <2>4. Tables \subseteq db.tables
    <3>1. /\ {"new_version", "current_version", "health_check"} \subseteq RequiredColumns
          /\ RequiredColumns \subseteq Columns /\ TableOf["health_check"] = "job"
      BY ColumnTables DEF RequiredColumns, TableOf, HashColumns, JobColumns
    <3>2. \A c \in RequiredColumns : TableOf[c] \in db.tables
      BY <2>3, <3>1 DEF GateOpen, ColumnsPresent, Shaped
    <3>3. QED
      BY <3>1, <3>2, ColumnTables DEF Tables
  <2>5. Shaped(db')
    <3>1. cols \in [Columns -> {"missing", "default", "set"}]
      BY <2>3 DEF Shaped, cols
    <3>2. \A c \in Columns : TableOf[c] \in db.tables
      BY <2>4, ColumnTables
    <3>3. QED
      BY <2>2, <2>3, <3>1, <3>2 DEF Shaped
  <2>6. \A c \in Columns : cols[c] = (IF c \in BaseColumns THEN "set" ELSE db.cols[c])
    BY DEF cols
  <2>7. RequiredColumns \subseteq Columns /\ BaseColumns \subseteq Columns
    BY ColumnTables DEF RequiredColumns, BaseColumns
  <2>8. GateOpen(db')
    BY <2>2, <2>3, <2>6, <2>7 DEF GateOpen, ColumnsPresent, ViewsPresent
  <2>9. ValuesKept
    BY <2>2, <2>6, <2>7 DEF ValuesKept, Holds
  <2>10. files' = files
    BY <1>4 DEF UseDatabase
  <2>11. FilesThere' /\ OneCA' /\ Configured'
    BY <2>2, <2>3, <2>10 DEF FilesThere, OneCA, Configured, GateInv
  <2>12. db'.there
    BY <2>8 DEF GateOpen
  <2>13. QED
    BY <1>1, <1>2, <2>2, <2>3, <2>5, <2>8, <2>9, <2>11, <2>12 DEF GateInv
<1>5. QED
  BY <1>3, <1>4

(* What init may find satisfies the invariant. *)
LEMMA InitGate == ASSUME LegaciesNamed, Init PROVE GateInv
<1>1. IdentityInv
  BY InitIdentity
<1>2. \A q \in Procs : ~Inside(q)
  BY DEF Init, Inside, Idle
<1>3. CASE db = NoDatabase /\ files = [f \in Files |-> Missing]
  <2>1. Shaped(db) /\ ~GateOpen(db) /\ db.version # LatestSchemaVersion
    BY <1>3 DEF Shaped, NoDatabase, GateOpen, LatestSchemaVersion
  <2>2. OneCA /\ Configured
    BY <1>3 DEF OneCA, Configured, NoDatabase, Files, Missing
  <2>3. QED
    BY <1>1, <1>2, <2>1, <2>2 DEF GateInv, Init
<1>4. CASE db \in Legacies /\ files = [f \in Files |-> 0]
  <2>1. Shaped(db) /\ db.there
    BY <1>4, BucketAssumption DEF Shaped, Database
  <2>2. GateOpen(db) => db.rows # <<>>
    BY <1>4 DEF LegaciesNamed
  <2>3. OneCA /\ FilesThere /\ Configured
    BY <1>4 DEF OneCA, FilesThere, Configured, Files, Missing
  <2>4. QED
    BY <1>1, <1>2, <2>1, <2>2, <2>3 DEF GateInv, Init
<1>5. QED
  BY <1>3, <1>4 DEF Init

(* Every step keeps the gate and the values. *)
LEMMA NextGate ==
    ASSUME GateInv, [Next]_vars
    PROVE  GateInv' /\ ValuesKept
<1>1. CASE UNCHANGED vars
  <2>1. UNCHANGED <<db, files, ended, proc>> /\ IdentityInv'
    BY <1>1, NextIdentity DEF vars, GateInv
  <2>2. \A q \in Procs : Inside(q)' => Prepared(q)'
    BY <2>1, SamePrepared DEF GateInv, Inside
  <2>3. QED
    BY <2>1, <2>2, SameDatabase DEF GateInv
<1>2. ASSUME NEW p \in Procs, NEW f \in Files, CreateFile(p, f)
      PROVE  GateInv' /\ ValuesKept
  BY <1>2, CreateGate DEF CreateFile, ValuesKept, Holds
<1>3. ASSUME NEW p \in Procs,
             \/ EnsureDefaultMaandConfig(p) \/ EnsureWorkspaceFiles(p)
             \/ GenerateCA(p) \/ EnsureEncryptionKey(p)
      PROVE  GateInv' /\ ValuesKept
  BY <1>2, <1>3 DEF EnsureDefaultMaandConfig, EnsureWorkspaceFiles, GenerateCA,
                    EnsureEncryptionKey, Files
<1>4. ASSUME NEW p \in Procs, FillFile(p)
      PROVE  GateInv' /\ ValuesKept
  BY <1>4, FillGate DEF FillFile, ValuesKept, Holds
<1>5. ASSUME NEW p \in Procs, EnsureCA(p)
      PROVE  GateInv' /\ ValuesKept
  <2>1. CASE Abandon(p)
    BY <2>1, AbandonGate
  <2>2. CASE ~Abandon(p)
    BY <1>5, <2>2, CAGate DEF EnsureCA, ValuesKept, Holds
  <2>3. QED
    BY <2>1, <2>2
<1>6. ASSUME NEW p \in Procs, Start(p) \/ Begin(p) \/ Commit(p) \/ Busy(p) \/ Die(p)
      PROVE  GateInv' /\ ValuesKept
  BY <1>6, AbandonGate, BeginGate, CommitGate DEF Busy, Die
<1>7. CASE ClearCA \/ UseDatabase
  BY <1>7, AroundGate
<1>8. QED
  BY <1>1, <1>3, <1>4, <1>5, <1>6, <1>7 DEF Next

(* A command that CheckSchemaVersion lets pass finds the row that names the bucket, all
   the files init makes, maand.conf among them, and a CA whose halves were made together,
   whichever inits died before, next to or after the one that committed: Execute commits
   last, and ensureCA refuses half a CA.  That a file is there does not say it is whole. *)
THEOREM GateIsReady == ASSUME LegaciesNamed PROVE Spec => []GateMeansReady
<1>1. Init => GateInv
  BY InitGate
<1>2. GateInv /\ [Next]_vars => GateInv'
  BY NextGate
<1>3. GateInv => GateMeansReady
  BY DEF GateInv, GateMeansReady, FilesThere, OneCA
<1>4. QED
  BY <1>1, <1>2, <1>3, PTL DEF Spec

(* Once maand init has succeeded the commands go, whatever an earlier binary left:
   migrateToV1 provides what CheckSchemaVersion asks for, and what runs later, or races
   with it, takes nothing of it back. *)
THEOREM InitOpensGate == ASSUME LegaciesNamed PROVE Spec => []InitMeansGate
<1>1. Init => GateInv
  BY InitGate
<1>2. GateInv /\ [Next]_vars => GateInv'
  BY NextGate
<1>3. GateInv => InitMeansGate
  BY DEF GateInv, InitMeansGate
<1>4. QED
  BY <1>1, <1>2, <1>3, PTL DEF Spec

(* No upgrade, retry or concurrent init loses a value an operator or a deploy wrote,
   under the old name of its column or the new one: migrateJobRolloutColumns renames
   before it adds. *)
THEOREM ValuesSurvive == ASSUME LegaciesNamed PROVE Spec => DataSurvives
<1>1. Init => GateInv
  BY InitGate
<1>2. GateInv /\ [Next]_vars => GateInv'
  BY NextGate
<1>3. GateInv /\ [Next]_vars => [ValuesKept]_vars
  BY NextGate
<1>4. QED
  BY <1>1, <1>2, <1>3, PTL DEF Spec, DataSurvives
=============================================================================
