------------------------------- MODULE KVProofs -------------------------------
(* Proofs about KVSessions: whatever commands overlap, crash or fail, for every  *)
(* number of processes, jobs and requests, the key-value table keeps one row per *)
(* version, loses no commit and stores no secret in the clear.                  *)
EXTENDS KVSessions, FiniteSetTheorems, FunctionTheorems, TLAPS

-----------------------------------------------------------------------------
(* What may be stored under a path: a secret is sealed, and, where the scripts of
   a health check say something of their own, nothing of what they say. *)
HealthIsTold ==
    \A e \in Events \ {"health_check"} : "health_check" \notin Says[e]

Fit(x) ==
    {v \in Stored : /\ IsSecret(x) => IsEncrypted(v)
                    /\ HealthIsTold => v.text # "health_check"}

(* A table has one row per version of a key, the highest among them, and only
   values that fit. *)
OneRowPerVersion(R) == \A r, q \in R : r.path = q.path /\ r.version = q.version => r = q

IsLatest(R, r) == r \in R /\ \A q \in R : q.path = r.path => q.version <= r.version

Table(R) ==
    /\ R \subseteq Row
    /\ OneRowPerVersion(R)
    /\ \A r \in R : \E q \in R : q.path = r.path /\ IsLatest(R, q)
    /\ \A r \in R : r.value \in Fit(r.path)

(* A session over a table: an entry that is marked as changed is newer than every
   row of its key, and any other is what the table says. *)
Newer(s, R) ==
    \A x \in Paths : s[x].changed =>
        s[x].version > 0 /\ \A r \in R : r.path = x => r.version < s[x].version

FitStore(s) == \A x \in Paths : s[x].version > 0 => s[x].value \in Fit(x)

Session(s, R) ==
    /\ s \in [Paths -> Entry]
    /\ Newer(s, R)
    /\ \A x \in Paths : ~s[x].changed => s[x] = Load(R)[x]
    /\ FitStore(s)

(* What any handler or command may do to an entry, and to the entries of a
   session: it is newer then, and its value is fit or the one it had. *)
Moved(x, e, f) ==
    /\ f \in Entry
    /\ \/ f = e
       \/ /\ f.changed /\ f.version > e.version
          /\ f.value \in Fit(x) \/ (e.version > 0 /\ f.value = e.value)

Grows(s, t) == t \in [Paths -> Entry] /\ \A x \in Paths : Moved(x, s[x], t[x])

(* Every key is as it was or has a higher version. *)
Follows(R, T) ==
    \A x \in Paths : Load(T)[x] = Load(R)[x] \/ Load(T)[x].version > Load(R)[x].version

InTx(p) == pc[p] \in {"catalog", "reconcile", "hooks"}

KVTypes ==
    /\ today \in Nat
    /\ pc \in [Procs -> {"off", "catalog", "vacuum", "reconcile", "hooks"}]
    /\ kind \in [Procs -> AllKinds]
    /\ store \in [Procs -> [Paths -> Entry]]
    /\ txRows \in [Procs -> SUBSET Row]
    /\ fresh \in [Procs -> BOOLEAN]

Sessions == \A p \in Procs : InTx(p) => Table(txRows[p]) /\ Session(store[p], txRows[p])

(* The catalog phase works on what it read, gc has no other, and only a process
   that is past it listens. *)
Snapshots == \A p \in Procs : pc[p] = "catalog" => store[p] = Load(txRows[p])

Listening == \A p \in Procs : owner = p => pc[p] \in {"reconcile", "hooks"}

(* A transaction that may still begin to write has seen the last commit; one that
   has begun is ahead of it, and nobody else can commit. *)
Isolated ==
    \A p \in Procs :
        /\ InTx(p) /\ fresh[p] /\ lock # p => txRows[p] = rows
        /\ lock = p => pc[p] = "hooks" /\ Follows(rows, txRows[p])

Collecting == \A p \in Procs : kind[p] = "gc" => pc[p] \in {"off", "catalog"}

KVInv ==
    /\ KVTypes /\ Table(rows) /\ Collecting
    /\ Sessions /\ Snapshots /\ Listening /\ Isolated

-----------------------------------------------------------------------------
(* The table (LoadFromTransaction, PersistToTransaction, PurgeStaleVersions). *)

EntryOf(r) == [value |-> r.value, version |-> r.version, deleted |-> r.deleted, changed |-> FALSE]

(* What a key is loaded as: nothing, or its row of the highest version. *)
LEMMA LoadIs ==
    ASSUME NEW R, Table(R), NEW x \in Paths
    PROVE  \/ /\ \A r \in R : r.path # x
              /\ Load(R)[x] = NoEntry
           \/ \E r \in R : /\ r.path = x /\ IsLatest(R, r)
                           /\ Latest(R, x) = r
                           /\ Load(R)[x] = EntryOf(r)
<1>1. CASE Of(R, x) = {}
  BY <1>1 DEF Load, Of
<1>2. CASE Of(R, x) # {}
  <2>1. PICK r \in R : r.path = x /\ IsLatest(R, r)
    BY <1>2 DEF Of, Table
  <2>2. \A q \in Of(R, x) : (\A u \in Of(R, x) : u.version <= q.version) => q = r
    <3> SUFFICES ASSUME NEW q \in Of(R, x), \A u \in Of(R, x) : u.version <= q.version
                 PROVE  q = r
      OBVIOUS
    <3>1. r \in Of(R, x) /\ q \in R /\ q.path = x
      BY <2>1 DEF Of
    <3>2. r.version <= q.version /\ q.version <= r.version
      BY <2>1, <3>1 DEF IsLatest
    <3>3. r.version \in Nat /\ q.version \in Nat
      BY <2>1, <3>1 DEF Table, Row
    <3> QED
      BY <2>1, <3>1, <3>2, <3>3 DEF Table, OneRowPerVersion
  <2>3. r \in Of(R, x) /\ \A u \in Of(R, x) : u.version <= r.version
    BY <2>1 DEF IsLatest, Of
  <2>4. Latest(R, x) = r
    BY <2>2, <2>3 DEF Latest
  <2> QED
    BY <1>2, <2>1, <2>4 DEF Load, EntryOf
<1> QED
  BY <1>1, <1>2

(* The same, from the row: the row of the highest version is what is loaded. *)
LEMMA LoadOfLatest ==
    ASSUME NEW R, Table(R), NEW r \in R, IsLatest(R, r)
    PROVE  r.path \in Paths /\ Load(R)[r.path] = EntryOf(r) /\ Latest(R, r.path) = r
<1>1. r.path \in Paths
  BY DEF Table, Row
<1>2. PICK q \in R : q.path = r.path /\ IsLatest(R, q) /\ Latest(R, r.path) = q
                      /\ Load(R)[r.path] = EntryOf(q)
  BY <1>1, LoadIs
<1>3. q.version <= r.version /\ r.version <= q.version /\ r.version \in Nat /\ q.version \in Nat
  BY <1>2 DEF IsLatest, Table, Row
<1> QED
  BY <1>1, <1>2, <1>3 DEF Table, OneRowPerVersion

(* What is loaded has the type of an entry, is clean, and fits. *)
LEMMA LoadType ==
    ASSUME NEW R, Table(R)
    PROVE  /\ Load(R) \in [Paths -> Entry]
           /\ \A x \in Paths : ~Load(R)[x].changed
           /\ FitStore(Load(R))
<1>1. NoEntry \in Entry /\ ~NoEntry.changed /\ NoEntry.version = 0
  BY KVAssumption DEF NoEntry, Entry, Plain, Stored
<1>2. ASSUME NEW x \in Paths
      PROVE  /\ Load(R)[x] \in Entry /\ ~Load(R)[x].changed
             /\ Load(R)[x].version > 0 => Load(R)[x].value \in Fit(x)
  <2>1. CASE Load(R)[x] = NoEntry
    BY <1>1, <2>1
  <2>2. CASE \E r \in R : r.path = x /\ Load(R)[x] = EntryOf(r)
    <3>1. PICK r \in R : r.path = x /\ Load(R)[x] = EntryOf(r)
      BY <2>2
    <3>2. r \in Row /\ r.value \in Fit(x)
      BY <3>1 DEF Table
    <3> QED
      BY <3>1, <3>2 DEF EntryOf, Entry, Row
  <2> QED
    BY <2>1, <2>2, LoadIs
<1> QED
  BY <1>2 DEF Load, FitStore

(* A row is never newer than what is loaded of its key. *)
LEMMA LoadBounds ==
    ASSUME NEW R, Table(R), NEW r \in R
    PROVE  r.version <= Load(R)[r.path].version
<1>1. r.path \in Paths
  BY DEF Table, Row
<1>2. PICK q \in R : q.path = r.path /\ IsLatest(R, q) /\ Load(R)[r.path] = EntryOf(q)
  BY <1>1, LoadIs
<1> QED
  BY <1>2 DEF IsLatest, EntryOf

(* The row a session writes of a key. *)
NewRow(s, d, x) ==
    [path |-> x, value |-> s[x].value, version |-> s[x].version,
     deleted |-> s[x].deleted, day |-> d]

(* An entry that is marked as clean (PersistToTransaction). *)
Marked(e) == [e EXCEPT !.changed = FALSE]

(* PersistToTransaction clears the changed mark of an entry and nothing else. *)
LEMMA CleanEntry ==
    ASSUME NEW e \in Entry
    PROVE  /\ Marked(e) =
                [value |-> e.value, version |-> e.version, deleted |-> e.deleted, changed |-> FALSE]
           /\ Marked(e).version = e.version
<1> DEFINE f == [e EXCEPT !.changed = FALSE]
<1>1. f \in Entry /\ f.value = e.value /\ f.version = e.version /\ f.deleted = e.deleted
  BY DEF Entry
<1>2. f.changed = FALSE
  BY DEF Entry
<1> HIDE DEF f
<1>3. f = [value |-> f.value, version |-> f.version, deleted |-> f.deleted, changed |-> f.changed]
  BY <1>1 DEF Entry
<1> QED
  BY <1>1, <1>2, <1>3 DEF f, Marked

(* Persisting adds the newest row of every pending key and leaves the others:
   the next load finds what the session has. *)
Persisted(R, s, d, T) ==
    /\ Table(T)
    /\ \A x \in Paths : s[x].changed => NewRow(s, d, x) \in T /\ IsLatest(T, NewRow(s, d, x))
    /\ \A x \in Paths : s[x].changed => Load(T)[x] = Marked(s[x])
    /\ \A x \in Paths : ~s[x].changed => Of(T, x) = Of(R, x) /\ Load(T)[x] = Load(R)[x]

(* Checkpointing a session that is ahead of the table inserts, for each changed key, a
   row that is the newest of that key, and touches no other key (PersistToTransaction). *)
LEMMA InsertTable ==
    ASSUME NEW R, Table(R), NEW s \in [Paths -> Entry], Newer(s, R), FitStore(s), NEW d \in Nat
    PROVE  Persisted(R, s, d, R \cup Inserted(s, d))
<1> DEFINE I == Inserted(s, d)
           T == R \cup I
           N(x) == NewRow(s, d, x)
<1>1. I = {N(x) : x \in {y \in Paths : s[y].changed}}
  BY DEF Inserted, Pending, NewRow
<1>2. \A x \in Paths : N(x).path = x /\ N(x).version = s[x].version /\ N(x).day = d
  BY DEF NewRow
<1>3. \A x \in Paths : s[x].changed =>
         /\ s[x].version \in Nat \ {0}
         /\ \A r \in R : r.path = x => r.version < s[x].version /\ r.version \in Nat
         /\ N(x) \in Row /\ N(x).value \in Fit(x)
  BY DEF Newer, FitStore, Table, NewRow, Row, Entry
<1> HIDE DEF N, I
<1>4. T \subseteq Row
  BY <1>1, <1>3 DEF Table
<1>5. OneRowPerVersion(T)
  <2> SUFFICES ASSUME NEW r \in T, NEW q \in T, r.path = q.path, r.version = q.version
               PROVE  r = q
    BY DEF OneRowPerVersion
  <2>1. CASE r \in R /\ q \in R
    BY <2>1 DEF Table, OneRowPerVersion
  <2>2. CASE r \in I /\ q \in I
    BY <1>1, <1>2, <2>2
  <2>3. ASSUME NEW u \in R, NEW w \in I, u.path = w.path, u.version = w.version
        PROVE  FALSE
    <3>1. PICK x \in Paths : w = N(x) /\ s[x].changed
      BY <1>1, <2>3
    <3>2. u.version < s[x].version /\ u.version = s[x].version /\ u.version \in Nat
      BY <1>2, <1>3, <2>3, <3>1
    <3> QED
      BY <3>2
  <2> QED
    BY <2>1, <2>2, <2>3
<1>6. \A x \in Paths : s[x].changed => N(x) \in T /\ IsLatest(T, N(x))
  <2> SUFFICES ASSUME NEW x \in Paths, s[x].changed
               PROVE  N(x) \in T /\ IsLatest(T, N(x))
    OBVIOUS
  <2>1. N(x) \in T
    BY <1>1
  <2>2. ASSUME NEW q \in T, q.path = x PROVE q.version <= s[x].version
    <3>1. CASE q \in R
      BY <1>3, <2>2, <3>1
    <3>2. CASE q \in I
      BY <1>1, <1>2, <1>3, <2>2, <3>2
    <3> QED
      BY <3>1, <3>2
  <2> QED
    BY <1>2, <2>1, <2>2 DEF IsLatest
<1>7. \A x \in Paths : ~s[x].changed => \A r \in T : r.path = x => r \in R
  BY <1>1, <1>2
<1>8. \A r \in T : \E q \in T : q.path = r.path /\ IsLatest(T, q)
  <2> SUFFICES ASSUME NEW r \in T PROVE \E q \in T : q.path = r.path /\ IsLatest(T, q)
    OBVIOUS
  <2>1. r.path \in Paths
    BY <1>4 DEF Row
  <2>2. CASE s[r.path].changed
    BY <1>2, <1>6, <2>1, <2>2
  <2>3. CASE ~s[r.path].changed
    <3>1. r \in R
      BY <1>7, <2>1, <2>3
    <3>2. PICK q \in R : q.path = r.path /\ IsLatest(R, q)
      BY <3>1 DEF Table
    <3>3. IsLatest(T, q)
      BY <1>7, <2>1, <2>3, <3>2 DEF IsLatest
    <3> QED
      BY <3>2, <3>3
  <2> QED
    BY <2>2, <2>3
<1>9. \A r \in T : r.value \in Fit(r.path)
  BY <1>1, <1>2, <1>3 DEF Table
<1>10. Table(T)
  BY <1>4, <1>5, <1>8, <1>9 DEF Table
<1>11. \A x \in Paths : s[x].changed => Load(T)[x] = Marked(s[x])
  <2> SUFFICES ASSUME NEW x \in Paths, s[x].changed
               PROVE  Load(T)[x] = Marked(s[x])
    OBVIOUS
  <2>1. N(x) \in T /\ IsLatest(T, N(x)) /\ N(x).path = x
    BY <1>2, <1>6
  <2>2. Load(T)[x] = EntryOf(N(x))
    BY <1>10, <2>1, LoadOfLatest
  <2>3. s[x] \in Entry
    OBVIOUS
  <2>4. Load(T)[x] = [value |-> s[x].value, version |-> s[x].version, deleted |-> s[x].deleted,
                      changed |-> FALSE]
    BY <2>2 DEF EntryOf, N, NewRow
  <2> QED
    BY <2>3, <2>4, CleanEntry
<1>12. \A x \in Paths : ~s[x].changed => Of(T, x) = Of(R, x)
  BY <1>7 DEF Of
<1>13. \A x \in Paths : Of(T, x) = Of(R, x) => Load(T)[x] = Load(R)[x]
  BY DEF Load, Latest
<1> QED
  BY <1>6, <1>10, <1>11, <1>12, <1>13 DEF N, I, Persisted

(* Purging keeps a row of every key, its last one, unless the key is deleted and
   all its rows go: what is loaded stays, or was deleted. *)
LEMMA PurgeTable ==
    ASSUME NEW R, Table(R), NEW k \in Nat, NEW d \in Nat
    PROVE  LET T == PurgeStale(R, k, d)
           IN  /\ Table(T) /\ T \subseteq R
               /\ \A r \in T : IsLatest(R, Latest(R, r.path)) /\ Latest(R, r.path) \in T
               /\ \A x \in Paths : \/ Load(T)[x] = Load(R)[x]
                                   \/ /\ Load(R)[x].deleted /\ Load(T)[x] = NoEntry
                                      /\ Latest(R, x).day < d - k
<1> DEFINE T == PurgeStale(R, k, d)
<1>1. T \subseteq R
  BY DEF PurgeStale
<1>2. ASSUME NEW r \in T
      PROVE  LET q == Latest(R, r.path)
             IN  IsLatest(R, q) /\ q.path = r.path /\ q \in T /\ IsLatest(T, q)
  <2>1. r \in R /\ r.path \in Paths
    BY <1>1, <1>2 DEF Table, Row
  <2>2. PICK q \in R : q.path = r.path /\ IsLatest(R, q) /\ Latest(R, r.path) = q
    BY <2>1, LoadIs
  <2>3. q.version \in Nat /\ q.day \in Nat /\ q.deleted \in BOOLEAN
    BY <2>2 DEF Table, Row
  <2>4. ~((r.version < q.version - Keep \/ q.deleted) /\ q.day < d - k)
    BY <1>2, <2>1, <2>2 DEF PurgeStale, Stale
  <2>5. ~(q.version < q.version - Keep)
    BY <2>3, KVAssumption
  <2>6. q \in T
    BY <2>2, <2>4, <2>5 DEF PurgeStale, Stale
  <2> QED
    BY <1>1, <2>2, <2>6 DEF IsLatest
<1>3. Table(T)
  BY <1>1, <1>2 DEF Table, OneRowPerVersion
<1>4. ASSUME NEW x \in Paths
      PROVE  \/ Load(T)[x] = Load(R)[x]
             \/ /\ Load(R)[x].deleted /\ Load(T)[x] = NoEntry
                /\ Latest(R, x).day < d - k
  <2>1. CASE \A r \in R : r.path # x
    BY <1>1, <2>1 DEF Load, Of
  <2>2. ASSUME NEW q \in R, q.path = x, IsLatest(R, q), Latest(R, x) = q, Load(R)[x] = EntryOf(q)
        PROVE  \/ Load(T)[x] = Load(R)[x]
               \/ /\ Load(R)[x].deleted /\ Load(T)[x] = NoEntry
                  /\ Latest(R, x).day < d - k
    <3>1. CASE q \in T
      <4>1. IsLatest(T, q)
        BY <1>1, <2>2, <3>1 DEF IsLatest
      <4> QED
        BY <1>3, <2>2, <3>1, <4>1, LoadOfLatest
    <3>2. CASE q \notin T
      <4>1. \A r \in T : r.path # x
        BY <1>2, <2>2, <3>2
      <4>2. Load(T)[x] = NoEntry
        BY <4>1 DEF Load, Of
      <4>3. q.version \in Nat /\ q.deleted \in BOOLEAN
        BY <2>2 DEF Table, Row
      <4>4. q.deleted /\ q.day < d - k
        BY <2>2, <3>2, <4>3, KVAssumption DEF PurgeStale, Stale
      <4> QED
        BY <2>2, <4>2, <4>4 DEF EntryOf
    <3> QED
      BY <3>1, <3>2
  <2> QED
    BY <2>1, <2>2, LoadIs
<1> QED
  BY <1>1, <1>2, <1>3, <1>4

-----------------------------------------------------------------------------
(* The operations of a store and the handlers of the runtime API. *)

(* Two changes in a row are one. *)
LEMMA MovedTwice ==
    ASSUME NEW x, NEW e \in Entry, NEW f, NEW g, Moved(x, e, f), Moved(x, f, g)
    PROVE  Moved(x, e, g)
<1>1. e.version \in Nat /\ f \in Entry /\ f.version \in Nat /\ g \in Entry /\ g.version \in Nat
  BY DEF Moved, Entry
<1>2. CASE f = e \/ g = f
  BY <1>2 DEF Moved
<1>3. CASE f # e /\ g # f
  BY <1>1, <1>3 DEF Moved
<1> QED
  BY <1>2, <1>3

(* The same of whole stores. *)
LEMMA GrowsTwice ==
    ASSUME NEW s \in [Paths -> Entry], NEW t, NEW u, Grows(s, t), Grows(t, u)
    PROVE  Grows(s, u)
BY MovedTwice DEF Grows

(* putValue, of a new value and of the same one. *)
LEMMA PutMoves ==
    ASSUME NEW x, NEW e \in Entry, NEW v \in Fit(x)
    PROVE  Moved(x, e, PutValue(e, v)) /\ Moved(x, e, PutChanged(e, v))
<1>1. PutChanged(e, v) \in Entry /\ PutChanged(e, v).changed
      /\ PutChanged(e, v).version > e.version /\ PutChanged(e, v).value = v
  BY DEF PutChanged, Entry, Fit
<1> QED
  BY <1>1 DEF Moved, PutValue

(* Delete of a key that exists. *)
LEMMA DeleteMoves ==
    ASSUME NEW x, NEW e \in Entry, e.version > 0
    PROVE  Moved(x, e, DeleteEntry(e))
<1> DEFINE F(n) == [e EXCEPT !.deleted = TRUE, !.changed = TRUE, !.version = n]
<1>1. e.version \in Nat /\ e.version + 1 \in Nat
  BY DEF Entry
<1>2. \A n \in Nat : F(n) \in Entry /\ F(n).version = n /\ F(n).value = e.value
  BY DEF Entry
<1>3. F(e.version + 1).changed
  BY DEF Entry
<1>4. DeleteEntry(e) = F(e.version + 1)
  BY DEF DeleteEntry
<1> HIDE DEF F
<1>5. e.version + 1 > e.version
  BY <1>1
<1> QED
  BY <1>1, <1>2, <1>3, <1>4, <1>5 DEF Moved

(* What the build and the rollout say fits every key they write. *)
LEMMA CatalogFits ==
    ASSUME NEW x, ~IsSecret(x), NEW v \in {"default", "v1"}
    PROVE  Plain(v) \in Fit(x)
<1>1. v \in Values
  BY SessionsAssumption
<1>2. Plain(v) \in Stored /\ Plain(v).text = v
  BY <1>1 DEF Plain, Stored
<1> QED
  BY <1>2 DEF Fit

(* Only the namespaces secrets/job/<job> hold secrets. *)
LEMMA SecretPaths ==
    ASSUME NEW j, NEW w
    PROVE  /\ ~IsSecret(Vars(j)) /\ ~IsSecret(Catalog(j)) /\ ~IsSecret(AllocOf(j, w))
           /\ IsSecret(Secrets(j))
           /\ Vars(j) # Secrets(j) /\ Catalog(j) # Secrets(j) /\ Vars(j) # Catalog(j)
BY DEF IsSecret, Vars, Catalog, AllocOf, Secrets

(* Nothing happens. *)
LEMMA GrowsNothing ==
    ASSUME NEW s \in [Paths -> Entry]
    PROVE  Grows(s, s)
BY DEF Grows, Moved

(* One entry changes. *)
LEMMA GrowsOne ==
    ASSUME NEW s \in [Paths -> Entry], NEW p \in Paths, NEW f, Moved(p, s[p], f)
    PROVE  Grows(s, [s EXCEPT ![p] = f])
BY DEF Grows, Moved

(* PurgeNamespace *)
LEMMA PurgeGrows ==
    ASSUME NEW s \in [Paths -> Entry], NEW P
    PROVE  Grows(s, PurgePaths(s, P))
<1>1. ASSUME NEW x \in Paths PROVE Moved(x, s[x], PurgePaths(s, P)[x])
  <2>1. CASE x \in P /\ Live(s, x)
    BY <2>1, DeleteMoves DEF PurgePaths, Live, IsLive
  <2>2. CASE ~(x \in P /\ Live(s, x))
    BY <2>2 DEF PurgePaths, Moved
  <2> QED
    BY <2>1, <2>2
<1> QED
  BY <1>1 DEF Grows, Moved, PurgePaths

(* The variables of a build (SyncedByBuild). *)
LEMMA SyncGrows ==
    ASSUME NEW s \in [Paths -> Entry], NEW a, NEW purge
    PROVE  Grows(s, SyncedByBuild(s, a, purge))
<1> DEFINE P == PurgePaths(s, {Catalog(j) : j \in {j \in Jobs : OutOfUse(a, j)}}
                                \cup (IF purge THEN {Vars(j) : j \in {j \in Jobs : OutOfUse(a, j)}}
                                                    \cup {Secrets(j) : j \in {j \in Jobs : OutOfUse(a, j)}}
                                      ELSE {})
                                \cup {AllocOf(t[1], t[2]) : t \in {u \in Slots : a[u] = "removed"}})
           used == {Catalog(j) : j \in {i \in Jobs : NonRemovedWorkers(a, i) # {}}}
           new == [p \in Paths |-> IF p \in used THEN Put(P, p, "default")[p] ELSE P[p]]
<1>1. SyncedByBuild(s, a, purge) = new
  BY DEF SyncedByBuild
<1>2. Grows(s, P)
  BY PurgeGrows
<1> HIDE DEF P
<1>3. ASSUME NEW x \in Paths PROVE Moved(x, P[x], new[x])
  <2>1. CASE x \in used
    <3>1. ~IsSecret(x)
      BY <2>1, SecretPaths
    <3>2. new[x] = PutValue(P[x], Plain("default"))
      BY <1>2, <2>1 DEF Put, Grows
    <3> HIDE DEF new, used
    <3> QED
      BY <1>2, <3>1, <3>2, PutMoves, CatalogFits DEF Grows
  <2>2. CASE x \notin used
    BY <1>2, <2>2 DEF Moved, Grows
  <2> QED
    BY <2>1, <2>2
<1>4. new \in [Paths -> Entry]
  <2>1. new = [x \in Paths |-> new[x]]
    OBVIOUS
  <2> HIDE DEF new
  <2> QED
    BY <1>3, <2>1 DEF Moved
<1>5. Grows(P, new)
  BY <1>3, <1>4 DEF Grows
<1> HIDE DEF new
<1> QED
  BY <1>1, <1>2, <1>5, GrowsTwice

(* syncAllocationVersionKV *)
LEMMA VersionsGrow ==
    ASSUME NEW s \in [Paths -> Entry], NEW a, NEW j
    PROVE  Grows(s, PutVersions(s, a, j))
<1>1. ASSUME NEW x \in Paths PROVE Moved(x, s[x], PutVersions(s, a, j)[x])
  <2>1. CASE x \in {AllocOf(j, w) : w \in NonRemovedWorkers(a, j)}
    <3>1. ~IsSecret(x)
      BY <2>1, SecretPaths
    <3>2. PutVersions(s, a, j)[x] = PutValue(s[x], Plain("v1"))
      BY <2>1 DEF PutVersions
    <3> QED
      BY <3>1, <3>2, PutMoves, CatalogFits
  <2>2. CASE x \notin {AllocOf(j, w) : w \in NonRemovedWorkers(a, j)}
    BY <2>2 DEF PutVersions, Moved
  <2> QED
    BY <2>1, <2>2
<1> QED
  BY <1>1 DEF Grows, Moved, PutVersions

(* What a script may say fits every path that is not a secret; and a sealed
   value fits every path (handleStoreKeyPut, handleStoreSecretPut). *)
LEMMA SaidFits ==
    ASSUME NEW e \in Events, NEW v \in Says[e], ~ReadOnly(e), NEW x
    PROVE  Encrypted(v) \in Fit(x) /\ (~IsSecret(x) => Plain(Trim(v)) \in Fit(x))
<1>1. v \in Values /\ Trim(v) \in Values
  BY SessionsAssumption, KVAssumption, APIAssumption DEF Trim
<1>2. HealthIsTold => v # "health_check" /\ Trim(v) # "health_check"
  BY DEF HealthIsTold, ReadOnly, Trim
<1>3. Encrypted(v) \in Stored /\ Encrypted(v).text = v /\ IsEncrypted(Encrypted(v))
      /\ Plain(Trim(v)) \in Stored /\ Plain(Trim(v)).text = Trim(v)
  BY <1>1 DEF Encrypted, Plain, Stored, IsEncrypted
<1> QED
  BY <1>2, <1>3 DEF Fit

(* Whatever a script asks for, its answer leaves a store with newer entries. *)
LEMMA HandleGrows ==
    ASSUME NEW s \in [Paths -> Entry], NEW c, NEW e \in Events, NEW op \in Ops,
           NEW x \in Paths, NEW v \in Says[e]
    PROVE  Grows(s, Handle(s, c, e, [op |-> op, path |-> x, value |-> v]).store)
<1> DEFINE r == [op |-> op, path |-> x, value |-> v]
<1>0. r.op = op /\ r.path = x /\ r.value = v
  OBVIOUS
<1> HIDE DEF r
<1>1. \A a : Answer(a, s).store = s
  BY DEF Answer
<1>2. Grows(s, s)
  BY GrowsNothing
<1>3. ~ReadOnly(e) => Encrypted(v) \in Fit(x) /\ (~IsSecret(x) => Plain(Trim(v)) \in Fit(x))
  BY SaidFits
<1>4. CASE op = "put"
  <2>1. Handle(s, c, e, r) = HandlePut(s, c, e, x, v)
    BY <1>0, <1>4 DEF Handle
  <2>2. ~ReadOnly(e) /\ ~IsSecret(x) => Grows(s, Put(s, x, Trim(v)))
    BY <1>3, PutMoves, GrowsOne DEF Put
  <2>3. Answer("ok", Put(s, x, Trim(v))).store = Put(s, x, Trim(v))
    BY DEF Answer
  <2> QED
    BY <1>1, <1>2, <2>1, <2>2, <2>3 DEF HandlePut, r
<1>5. ASSUME op \in {"delete", "delete secret"}
      PROVE  Grows(s, Handle(s, c, e, r).store)
  <2>1. Handle(s, c, e, r) = HandleDelete(s, c, e, x) \/ Handle(s, c, e, r) = HandleSecretDelete(s, c, e, x)
    BY <1>0, <1>5 DEF Handle
  <2>2. Exists(s, x) => Grows(s, Delete(s, x))
    BY DeleteMoves, GrowsOne DEF Delete, Exists
  <2>3. Answer("ok", Delete(s, x)).store = Delete(s, x)
    BY DEF Answer
  <2> QED
    BY <1>1, <1>2, <2>1, <2>2, <2>3 DEF HandleDelete, HandleSecretDelete
<1>6. CASE op = "put secret"
  <2>1. Handle(s, c, e, r) = HandleSecretPut(s, c, e, x, v)
    BY <1>0, <1>6 DEF Handle
  <2>2. ~ReadOnly(e) => Grows(s, PutSecret(s, x, v))
    BY <1>3, PutMoves, GrowsOne DEF PutSecret
  <2>3. Answer("ok", PutSecret(s, x, v)).store = PutSecret(s, x, v)
    BY DEF Answer
  <2> QED
    <3>1. \/ HandleSecretPut(s, c, e, x, v) = Answer("refused", s)
          \/ ~ReadOnly(e) /\ HandleSecretPut(s, c, e, x, v) = Answer("ok", PutSecret(s, x, v))
      BY DEF HandleSecretPut
    <3> QED
      BY <1>1, <1>2, <2>1, <2>2, <2>3, <3>1 DEF r
<1> QED
  BY <1>4, <1>5, <1>6 DEF Ops, r

-----------------------------------------------------------------------------
(* Sessions over a table. *)

(* kv.Initialize: what is loaded is a session. *)
LEMMA LoadSession ==
    ASSUME NEW R, Table(R)
    PROVE  Session(Load(R), R)
BY LoadType DEF Session, Newer

(* An entry that is marked or not is never older than its rows. *)
LEMMA SessionBounds ==
    ASSUME NEW R, Table(R), NEW s, Session(s, R), NEW r \in R
    PROVE  r.path \in Paths /\ r.version <= s[r.path].version
<1>1. r.path \in Paths /\ r.version \in Nat
  BY DEF Table, Row
<1>2. s[r.path].version \in Nat
  BY <1>1 DEF Session, Entry
<1> QED
  BY <1>1, <1>2, LoadBounds DEF Session, Newer

(* Handlers and commands keep a session ahead of its table. *)
LEMMA GrowsSession ==
    ASSUME NEW R, Table(R), NEW s, Session(s, R), NEW t, Grows(s, t)
    PROVE  Session(t, R)
<1>1. s \in [Paths -> Entry] /\ t \in [Paths -> Entry]
  BY DEF Session, Grows
<1>2. ASSUME NEW x \in Paths
      PROVE  /\ t[x].changed => t[x].version > 0 /\ \A r \in R : r.path = x => r.version < t[x].version
             /\ ~t[x].changed => t[x] = Load(R)[x]
             /\ t[x].version > 0 => t[x].value \in Fit(x)
  <2>1. CASE t[x] = s[x]
    BY <2>1 DEF Session, Newer, FitStore
  <2>2. CASE t[x] # s[x]
    <3>1. /\ t[x].changed /\ t[x].version > s[x].version
          /\ t[x].value \in Fit(x) \/ (s[x].version > 0 /\ t[x].value = s[x].value)
      BY <2>2 DEF Grows, Moved
    <3>2. s[x].version \in Nat /\ t[x].version \in Nat
      BY <1>1 DEF Entry
    <3>3. \A r \in R : r.path = x => r.version <= s[x].version /\ r.version \in Nat
      BY SessionBounds DEF Table, Row
    <3> QED
      BY <3>1, <3>2, <3>3 DEF Session, FitStore
  <2> QED
    BY <2>1, <2>2
<1> QED
  BY <1>1, <1>2 DEF Session, Newer, FitStore

(* A checkpoint (PersistToTransaction): the rows follow from the ones before,
   and the session that is left is what they say. *)
LEMMA CheckpointSession ==
    ASSUME NEW R, Table(R), NEW s, Session(s, R), NEW d \in Nat
    PROVE  LET T == R \cup Inserted(s, d)
           IN  Table(T) /\ Session(Clean(s), T) /\ Follows(R, T)
<1> DEFINE T == R \cup Inserted(s, d)
<1>1. s \in [Paths -> Entry] /\ Newer(s, R) /\ FitStore(s)
  BY DEF Session
<1>2. /\ Table(T)
      /\ \A x \in Paths : s[x].changed => Load(T)[x] = Marked(s[x])
      /\ \A x \in Paths : ~s[x].changed => Of(T, x) = Of(R, x) /\ Load(T)[x] = Load(R)[x]
  <2>1. Persisted(R, s, d, T)
    BY <1>1, InsertTable
  <2> QED
    BY <2>1 DEF Persisted
<1> HIDE DEF T
<1>3. Clean(s) = Load(T)
  <2>1. ASSUME NEW x \in Paths
        PROVE  Load(T)[x] = IF x \in Pending(s) THEN Marked(s[x]) ELSE s[x]
    BY <1>2 DEF Pending, Session
  <2>2. Load(T) = [x \in Paths |-> Load(T)[x]]
    BY DEF Load
  <2>3. Clean(s) = [x \in Paths |-> IF x \in Pending(s) THEN Marked(s[x]) ELSE s[x]]
    BY DEF Clean, Marked, Pending
  <2> QED
    BY <2>1, <2>2, <2>3
<1>4. Follows(R, T)
  <2> SUFFICES ASSUME NEW x \in Paths, s[x].changed
               PROVE  Load(T)[x].version > Load(R)[x].version
    BY <1>2 DEF Follows
  <2>1. Load(T)[x].version = s[x].version
    <3>1. Marked(s[x]).version = s[x].version
      BY <1>1, CleanEntry
    <3> QED
      BY <1>2, <3>1
  <2>2. CASE Load(R)[x] = NoEntry
    BY <1>1, <2>1, <2>2 DEF NoEntry, Newer
  <2>3. CASE \E r \in R : r.path = x /\ Load(R)[x] = EntryOf(r)
    BY <1>1, <2>1, <2>3 DEF EntryOf, Newer
  <2> QED
    BY <2>2, <2>3, LoadIs
<1> QED
  BY <1>2, <1>3, <1>4, LoadSession DEF T

(* What a commit may do to the table: keys stay or get a higher version, and
   deleted ones may be forgotten. *)
Commits(R, T) ==
    \A x \in Paths :
        \/ Load(T)[x] = Load(R)[x]
        \/ Load(T)[x].version > Load(R)[x].version
        \/ Load(R)[x].deleted /\ Load(T)[x] = NoEntry

(* A pending entry is newer than what is loaded of its key. *)
LEMMA PendingNewer ==
    ASSUME NEW R, Table(R), NEW s, Session(s, R), NEW x \in Paths, s[x].changed
    PROVE  s[x].version > Load(R)[x].version
<1>1. CASE Load(R)[x] = NoEntry
  BY <1>1 DEF NoEntry, Session, Newer
<1>2. CASE \E r \in R : r.path = x /\ Load(R)[x] = EntryOf(r)
  BY <1>2 DEF EntryOf, Session, Newer
<1> QED
  BY <1>1, <1>2, LoadIs

(* The rows a build leaves: history is purged, then the session is written. *)
LEMMA BuildRows ==
    ASSUME NEW R, Table(R), NEW s, Session(s, R), NEW k \in Nat, NEW d \in Nat
    PROVE  LET T == PurgeStale(R, k, d) \cup Inserted(s, d)
           IN  /\ Table(T) /\ Commits(R, T)
               /\ \A x \in Paths : ~s[x].changed /\ ~Load(R)[x].deleted => Load(T)[x] = Load(R)[x]
<1> DEFINE P == PurgeStale(R, k, d)
           T == P \cup Inserted(s, d)
<1>1. /\ Table(P) /\ P \subseteq R
      /\ \A x \in Paths : \/ Load(P)[x] = Load(R)[x]
                          \/ Load(R)[x].deleted /\ Load(P)[x] = NoEntry
  BY PurgeTable
<1>2. s \in [Paths -> Entry] /\ Newer(s, P) /\ FitStore(s)
  BY <1>1 DEF Session, Newer
<1> HIDE DEF P
<1>3. /\ Table(T)
      /\ \A x \in Paths : s[x].changed => Load(T)[x] = Marked(s[x])
      /\ \A x \in Paths : ~s[x].changed => Of(T, x) = Of(P, x) /\ Load(T)[x] = Load(P)[x]
  <2>1. Persisted(P, s, d, T)
    BY <1>1, <1>2, InsertTable
  <2> QED
    BY <2>1 DEF Persisted
<1> HIDE DEF T
<1>4. \A x \in Paths : s[x].changed => Load(T)[x].version > Load(R)[x].version
  BY <1>2, <1>3, PendingNewer, CleanEntry
<1>5. Commits(R, T)
  BY <1>1, <1>3, <1>4 DEF Commits
<1> QED
  BY <1>1, <1>3, <1>5 DEF P, T

(* The rows gc leaves: the session is written, then history is purged. *)
LEMMA CollectRows ==
    ASSUME NEW R, Table(R), NEW s, Session(s, R), NEW k \in Nat, NEW d \in Nat
    PROVE  LET T == PurgeStale(R \cup Inserted(s, d), k, d)
           IN  /\ Table(T) /\ Commits(R, T)
               /\ \A x \in Paths : ~s[x].changed /\ ~Load(R)[x].deleted => Load(T)[x] = Load(R)[x]
<1> DEFINE I == R \cup Inserted(s, d)
           T == PurgeStale(I, k, d)
<1>1. s \in [Paths -> Entry] /\ Newer(s, R) /\ FitStore(s)
  BY DEF Session
<1>2. /\ Table(I)
      /\ \A x \in Paths : s[x].changed => NewRow(s, d, x) \in I /\ IsLatest(I, NewRow(s, d, x))
      /\ \A x \in Paths : s[x].changed => Load(I)[x] = Marked(s[x])
      /\ \A x \in Paths : ~s[x].changed => Of(I, x) = Of(R, x) /\ Load(I)[x] = Load(R)[x]
  <2>1. Persisted(R, s, d, I)
    BY <1>1, InsertTable
  <2> QED
    BY <2>1 DEF Persisted
<1> HIDE DEF I
<1>3. /\ Table(T)
      /\ \A x \in Paths : \/ Load(T)[x] = Load(I)[x]
                          \/ /\ Load(I)[x].deleted /\ Load(T)[x] = NoEntry
                             /\ Latest(I, x).day < d - k
  BY <1>2, PurgeTable
<1>4. \A x \in Paths : s[x].changed => Latest(I, x).day = d
  <2> SUFFICES ASSUME NEW x \in Paths, s[x].changed PROVE Latest(I, x).day = d
    OBVIOUS
  <2>1. NewRow(s, d, x).path = x /\ NewRow(s, d, x).day = d
    BY DEF NewRow
  <2> QED
    BY <1>2, <2>1, LoadOfLatest
<1>5. \A x \in Paths : s[x].changed => Load(T)[x] = Marked(s[x])
  BY <1>2, <1>3, <1>4
<1> HIDE DEF T
<1>6. \A x \in Paths : s[x].changed => Load(T)[x].version > Load(R)[x].version
  BY <1>1, <1>5, PendingNewer, CleanEntry
<1>7. Commits(R, T)
  BY <1>2, <1>3, <1>6 DEF Commits
<1> QED
  BY <1>2, <1>3, <1>7 DEF I, T

-----------------------------------------------------------------------------
(* The invariant. *)

(* A table that holds nothing, and the first build over it. *)
LEMMA EmptyTable == Table({}) /\ Load({}) = NewStore /\ Session(NewStore, {})
<1>1. Table({})
  BY DEF Table, OneRowPerVersion
<1>2. Load({}) = NewStore
  BY DEF Load, NewStore, Of
<1> QED
  BY <1>1, <1>2, LoadSession

(* The bucket after its first build. *)
LEMMA InitKV == Init => KVInv
<1> SUFFICES ASSUME Init PROVE KVInv
  OBVIOUS
<1> DEFINE s == SyncedByBuild(NewStore, alloc, FALSE)
<1>1. Session(s, {})
  BY EmptyTable, SyncGrows, GrowsSession DEF Session
<1> HIDE DEF s
<1>2. rows = {} \cup Inserted(s, 0)
  BY DEF Init, s
<1>3. Table(rows)
  BY <1>1, <1>2, EmptyTable, CheckpointSession
<1>4. NewStore \in [Paths -> Entry]
  BY EmptyTable DEF Session
<1>5. KVTypes
  BY <1>4 DEF Init, KVTypes, AllKinds
<1>6. Collecting /\ Sessions /\ Snapshots
  BY DEF Init, Collecting, Sessions, Snapshots, InTx
<1>7. Listening /\ Isolated
  BY SessionsAssumption DEF Init, Listening, Isolated, InTx
<1> QED
  BY <1>3, <1>5, <1>6, <1>7 DEF KVInv

(* What an action of a process must do to the invariant of its own session, when
   it leaves the other processes as they are. *)
Mine(p) ==
    /\ kind[p] = "gc" => pc[p] \in {"off", "catalog"}
    /\ InTx(p) => Table(txRows[p]) /\ Session(store[p], txRows[p])
    /\ pc[p] = "catalog" => store[p] = Load(txRows[p])
    /\ owner = p => pc[p] \in {"reconcile", "hooks"}
    /\ InTx(p) /\ fresh[p] /\ lock # p => txRows[p] = rows
    /\ lock = p => pc[p] = "hooks" /\ Follows(rows, txRows[p])

(* A commit finds nobody else with the write lock and leaves nobody else with a
   good snapshot. *)
LEMMA OneProcess ==
    ASSUME KVInv, NEW p \in Procs, KVTypes', Table(rows'), Mine(p)',
           \A q \in Procs \ {p} :
              /\ pc'[q] = pc[q] /\ kind'[q] = kind[q] /\ store'[q] = store[q]
              /\ txRows'[q] = txRows[q] /\ (fresh'[q] => fresh[q]),
           \/ rows' = rows
           \/ \A q \in Procs \ {p} : ~fresh'[q] /\ lock # q,
           lock' = lock \/ (lock \in {p, None} /\ lock' \in {p, None}),
           owner' \in {owner, p, None}
    PROVE  KVInv'
<1>1. \A q \in Procs \ {p} : Mine(q)'
  <2> SUFFICES ASSUME NEW q \in Procs \ {p} PROVE Mine(q)'
    OBVIOUS
  <2>1. Mine(q)
    BY DEF KVInv, Collecting, Sessions, Snapshots, Listening, Isolated, Mine
  <2>2. InTx(q)' = InTx(q)
    BY DEF InTx
  <2>3. /\ lock' = q <=> lock = q
        /\ owner' = q => owner = q
    BY SessionsAssumption
  <2>4. \/ rows' = rows
        \/ ~fresh'[q] /\ lock # q
    OBVIOUS
  <2>5. /\ pc'[q] = pc[q] /\ kind'[q] = kind[q] /\ store'[q] = store[q] /\ txRows'[q] = txRows[q]
        /\ fresh'[q] => fresh[q]
    OBVIOUS
  <2> QED
    BY <2>1, <2>2, <2>3, <2>4, <2>5 DEF Mine
<1>2. \A q \in Procs : Mine(q)'
  BY <1>1
<1>3. Collecting' /\ Sessions' /\ Snapshots' /\ Listening' /\ Isolated'
  BY <1>2 DEF Mine, Collecting, Sessions, Snapshots, Listening, Isolated
<1> QED
  BY <1>3 DEF KVInv

(* The invariant says of every process what Mine says. *)
LEMMA MineOfInv ==
    ASSUME KVInv, NEW p \in Procs
    PROVE  Mine(p)
BY DEF KVInv, Collecting, Sessions, Snapshots, Listening, Isolated, Mine

(* The end of a process, whether it has committed or not. *)
LEMMA QuitKV ==
    ASSUME KVInv, NEW p \in Procs, Quit(p), Table(rows'), UNCHANGED today,
           fresh' \in [Procs -> BOOLEAN],
           \A q \in Procs \ {p} : fresh'[q] => fresh[q],
           \/ rows' = rows
           \/ \A q \in Procs \ {p} : ~fresh'[q] /\ lock # q
    PROVE  KVInv'
<1>0. NewStore \in [Paths -> Entry]
  BY EmptyTable DEF Session
<1>1. /\ pc' = [pc EXCEPT ![p] = "off"] /\ kind' = [kind EXCEPT ![p] = "build"]
      /\ store' = [store EXCEPT ![p] = NewStore] /\ txRows' = [txRows EXCEPT ![p] = {}]
      /\ lock' = (IF lock = p THEN None ELSE lock)
      /\ owner' = (IF owner = p THEN None ELSE owner)
  BY DEF Quit
<1>2. KVTypes'
  BY <1>0, <1>1 DEF KVInv, KVTypes, AllKinds
<1>3. pc'[p] = "off" /\ ~InTx(p)' /\ lock' # p /\ owner' # p
  BY <1>1, SessionsAssumption DEF KVInv, KVTypes, InTx
<1>4. Mine(p)'
  BY <1>3 DEF Mine
<1> QED
  BY <1>1, <1>2, <1>4, OneProcess DEF KVInv, KVTypes

(* tx.Begin and kv.Initialize of a command that starts. *)
LEMMA StartKV ==
    ASSUME KVInv, NEW p \in Procs, NEW k \in AllKinds, Start(p, k)
    PROVE  KVInv'
<1>1. /\ pc[p] = "off" /\ rows' = rows /\ lock' = lock /\ today' = today
      /\ k = "deploy" => lock = None
      /\ kind' = [kind EXCEPT ![p] = k]
      /\ store' = [store EXCEPT ![p] = Load(rows)] /\ txRows' = [txRows EXCEPT ![p] = rows]
      /\ fresh' = [q \in Procs |-> q = p \/ (fresh[q] /\ k # "deploy")]
      /\ owner' \in {owner, p}
      /\ pc' = [pc EXCEPT ![p] = IF k \in {"build", "gc"} THEN "catalog"
                                 ELSE IF k = "deploy" THEN "reconcile" ELSE "hooks"]
      /\ k \in {"build", "gc"} => owner' = owner
  BY DEF Start, Snapshot, Listen, db
<1>2. owner # p /\ lock # p
  BY <1>1 DEF KVInv, Listening, Isolated
<1>3. Table(rows) /\ Session(Load(rows), rows) /\ Load(rows) \in [Paths -> Entry] /\ rows \subseteq Row
  BY LoadSession DEF KVInv, Session, Table
<1>4. KVTypes'
  BY <1>1, <1>3 DEF KVInv, KVTypes
<1>5. /\ store'[p] = Load(rows) /\ txRows'[p] = rows /\ kind'[p] = k
      /\ pc'[p] = (IF k \in {"build", "gc"} THEN "catalog"
                   ELSE IF k = "deploy" THEN "reconcile" ELSE "hooks")
  BY <1>1 DEF KVInv, KVTypes
<1>6. Mine(p)'
  BY <1>1, <1>2, <1>3, <1>5 DEF Mine
<1>7. \A q \in Procs \ {p} :
         /\ pc'[q] = pc[q] /\ kind'[q] = kind[q] /\ store'[q] = store[q]
         /\ txRows'[q] = txRows[q] /\ (fresh'[q] => fresh[q])
  BY <1>1 DEF KVInv, KVTypes
<1> QED
  BY <1>1, <1>3, <1>4, <1>6, <1>7, OneProcess

(* Before it writes, a transaction has seen the last commit. *)
LEMMA CatalogReads ==
    ASSUME KVInv, NEW p \in Procs, pc[p] = "catalog", CanWrite(p)
    PROVE  /\ lock = None /\ owner # p /\ txRows[p] = rows
           /\ Session(store[p], rows) /\ store[p] = Load(rows) /\ Table(rows)
BY MineOfInv DEF CanWrite, Mine, InTx, KVInv

(* The catalog transaction of a build commits. *)
LEMMA BuildCatalogKV ==
    ASSUME KVInv, NEW p \in Procs, BuildCatalog(p)
    PROVE  KVInv' /\ Commits(rows, rows')
<1>1. PICK f \in Flags, purge \in BOOLEAN :
          rows' = PurgeStale(txRows[p], RetainDays["build"], today)
                     \cup Inserted(SyncedByBuild(store[p], Placed(txAlloc[p], f), purge), today)
  BY DEF BuildCatalog
<1>2. /\ pc[p] = "catalog" /\ kind[p] = "build" /\ CanWrite(p)
      /\ fresh' = [q \in Procs |-> fresh[q] /\ q # p /\ ~TRUE]
      /\ pc' = [pc EXCEPT ![p] = "vacuum"]
      /\ UNCHANGED <<lock, owner, kind, store, txRows, today>>
  BY DEF BuildCatalog, Stales, count
<1> DEFINE s == SyncedByBuild(store[p], Placed(txAlloc[p], f), purge)
<1>3. /\ lock = None /\ owner # p /\ txRows[p] = rows
      /\ Session(store[p], rows) /\ Table(rows)
  BY <1>2, CatalogReads
<1>4. Session(s, rows)
  BY <1>3, SyncGrows, GrowsSession DEF Session
<1> HIDE DEF s
<1>5. RetainDays["build"] \in Nat /\ today \in Nat
  BY SessionsAssumption DEF KVInv, KVTypes
<1>6. Table(rows') /\ Commits(rows, rows')
  BY <1>1, <1>3, <1>4, <1>5, BuildRows DEF s
<1>7. KVTypes'
  BY <1>2 DEF KVInv, KVTypes
<1>8. pc'[p] = "vacuum" /\ ~InTx(p)' /\ lock' # p /\ owner' # p /\ kind'[p] = "build"
  BY <1>2, <1>3, SessionsAssumption DEF KVInv, KVTypes, InTx
<1>9. Mine(p)'
  BY <1>8 DEF Mine
<1>10. \A q \in Procs \ {p} :
          /\ pc'[q] = pc[q] /\ kind'[q] = kind[q] /\ store'[q] = store[q]
          /\ txRows'[q] = txRows[q] /\ ~fresh'[q] /\ lock # q
  BY <1>2, <1>3, SessionsAssumption DEF KVInv, KVTypes
<1>11. KVInv'
  BY <1>2, <1>6, <1>7, <1>9, <1>10, OneProcess
<1> QED
  BY <1>6, <1>11

(* VACUUM, and the session of the post_build hooks. *)
LEMMA PostBuildKV ==
    ASSUME KVInv, NEW p \in Procs, PostBuild(p)
    PROVE  KVInv' /\ rows' = rows
<1>1. pc[p] = "vacuum" /\ rows' = rows /\ today' = today
  BY DEF PostBuild, db, count
<1>2. CASE lock # None
  <2>1. Quit(p) /\ fresh' = fresh
    BY <1>2 DEF PostBuild
  <2>2. Table(rows') /\ fresh' \in [Procs -> BOOLEAN] /\ \A q \in Procs \ {p} : fresh'[q] => fresh[q]
    BY <1>1, <2>1 DEF KVInv, KVTypes
  <2> QED
    BY <1>1, <2>1, <2>2, QuitKV
<1>3. CASE lock = None
  <2>1. /\ store' = [store EXCEPT ![p] = Load(rows)] /\ txRows' = [txRows EXCEPT ![p] = rows]
        /\ fresh' = [fresh EXCEPT ![p] = TRUE] /\ owner' \in {owner, p}
        /\ pc' = [pc EXCEPT ![p] = "hooks"] /\ lock' = lock /\ kind' = kind
    BY <1>3 DEF PostBuild, Snapshot, Listen
  <2>2. Table(rows) /\ Session(Load(rows), rows) /\ Load(rows) \in [Paths -> Entry] /\ rows \subseteq Row
    BY LoadSession DEF KVInv, Session, Table
  <2>3. KVTypes'
    BY <1>1, <2>1, <2>2 DEF KVInv, KVTypes
  <2>4. kind[p] # "gc" /\ lock # p
    BY <1>1, MineOfInv DEF Mine
  <2>5. /\ store'[p] = Load(rows) /\ txRows'[p] = rows /\ kind'[p] = kind[p] /\ pc'[p] = "hooks"
    BY <2>1 DEF KVInv, KVTypes
  <2>6. Mine(p)'
    BY <1>1, <2>1, <2>2, <2>4, <2>5 DEF Mine
  <2>7. \A q \in Procs \ {p} :
           /\ pc'[q] = pc[q] /\ kind'[q] = kind[q] /\ store'[q] = store[q]
           /\ txRows'[q] = txRows[q] /\ (fresh'[q] => fresh[q])
    BY <2>1 DEF KVInv, KVTypes
  <2> QED
    BY <1>1, <2>1, <2>2, <2>3, <2>6, <2>7, OneProcess
<1> QED
  BY <1>2, <1>3

(* gc writes its session, purges old history and ends. *)
LEMMA CollectKV ==
    ASSUME KVInv, NEW p \in Procs, Collect(p)
    PROVE  KVInv' /\ Commits(rows, rows')
<1> DEFINE s == PurgePaths(store[p],
                    {AllocOf(t[1], t[2]) : t \in {t \in Slots : txAlloc[p][t] = "removed"}}
                    \cup UNION {JobPaths(j) : j \in PurgedByGC(txAlloc[p])})
<1>1. rows' = PurgeStale(txRows[p] \cup Inserted(s, today), RetainDays["gc"], today)
  BY DEF Collect
<1>2. /\ pc[p] = "catalog" /\ CanWrite(p) /\ Quit(p) /\ today' = today
      /\ fresh' = [q \in Procs |-> fresh[q] /\ q # p /\ ~TRUE]
  BY DEF Collect, Stales, count
<1>3. /\ lock = None /\ txRows[p] = rows
      /\ Session(store[p], rows) /\ Table(rows)
  BY <1>2, CatalogReads
<1>4. Session(s, rows)
  BY <1>3, PurgeGrows, GrowsSession DEF Session
<1> HIDE DEF s
<1>5. RetainDays["gc"] \in Nat /\ today \in Nat
  BY SessionsAssumption DEF KVInv, KVTypes
<1>6. Table(rows') /\ Commits(rows, rows')
  BY <1>1, <1>3, <1>4, <1>5, CollectRows
<1>7. fresh' \in [Procs -> BOOLEAN] /\ \A q \in Procs \ {p} : ~fresh'[q] /\ lock # q
  BY <1>2, <1>3, SessionsAssumption
<1> QED
  BY <1>2, <1>6, <1>7, QuitKV

(* PersistToTransaction of what a session has become: it takes the write lock
   and is ahead of the table. *)
LEMMA CheckpointKV ==
    ASSUME KVInv, NEW p \in Procs, InTx(p), pc[p] # "catalog", CanWrite(p),
           NEW s, Grows(store[p], s), Checkpoint(p, s), pc' = [pc EXCEPT ![p] = "hooks"],
           UNCHANGED <<rows, kind, owner, fresh, today>>
    PROVE  KVInv'
<1> DEFINE T == txRows[p] \cup Inserted(s, today)
<1>1. Mine(p) /\ kind[p] # "gc"
  BY MineOfInv DEF Mine, InTx
<1>2. Table(txRows[p]) /\ Session(s, txRows[p])
  BY <1>1, GrowsSession DEF Mine
<1>3. today \in Nat
  BY DEF KVInv, KVTypes
<1>4. Table(T) /\ Session(Clean(s), T) /\ Follows(txRows[p], T)
  BY <1>2, <1>3, CheckpointSession
<1>5. /\ txRows' = [txRows EXCEPT ![p] = T] /\ store' = [store EXCEPT ![p] = Clean(s)] /\ lock' = p
  BY DEF Checkpoint
<1> HIDE DEF T
<1>6. Follows(rows, T)
  <2>1. CASE lock # p
    BY <1>1, <1>4, <2>1 DEF Mine, CanWrite
  <2>2. CASE lock = p
    <3>1. Follows(rows, txRows[p])
      BY <1>1, <2>2 DEF Mine
    <3>2. \A x \in Paths : /\ Load(rows)[x].version \in Nat /\ Load(txRows[p])[x].version \in Nat
                           /\ Load(T)[x].version \in Nat
      <4>1. Load(rows) \in [Paths -> Entry] /\ Load(txRows[p]) \in [Paths -> Entry] /\ Load(T) \in [Paths -> Entry]
        BY <1>2, <1>4, LoadType DEF KVInv
      <4> QED
        BY <4>1 DEF Entry
    <3> QED
      BY <1>4, <3>1, <3>2 DEF Follows
  <2> QED
    BY <2>1, <2>2
<1>7. KVTypes'
  BY <1>4, <1>5 DEF KVInv, KVTypes, Table, Session
<1>8. pc'[p] = "hooks" /\ txRows'[p] = T /\ store'[p] = Clean(s) /\ kind'[p] = kind[p]
  BY <1>5 DEF KVInv, KVTypes
<1>9. Mine(p)'
  BY <1>1, <1>4, <1>5, <1>6, <1>8 DEF Mine
<1>10. \A q \in Procs \ {p} :
          /\ pc'[q] = pc[q] /\ kind'[q] = kind[q] /\ store'[q] = store[q]
          /\ txRows'[q] = txRows[q] /\ (fresh'[q] => fresh[q])
  BY <1>5 DEF KVInv, KVTypes
<1>11. Table(rows') /\ (lock = p \/ lock = None)
  BY DEF KVInv, CanWrite
<1> QED
  BY <1>5, <1>7, <1>9, <1>10, <1>11, OneProcess

(* Nothing but the phase, the hooks and the errors of a process changes. *)
LEMMA PhaseKV ==
    ASSUME KVInv, NEW p \in Procs, pc[p] \in {"reconcile", "hooks"},
           pc' = [pc EXCEPT ![p] = "hooks"],
           UNCHANGED <<rows, lock, kind, owner, store, txRows, fresh, today>>
    PROVE  KVInv'
<1>1. Mine(p)
  BY MineOfInv
<1>2. pc'[p] = "hooks" /\ InTx(p)
  BY DEF KVInv, KVTypes, InTx
<1>3. Mine(p)'
  BY <1>1, <1>2 DEF Mine
<1>4. KVTypes' /\ Table(rows')
  BY DEF KVInv, KVTypes
<1>5. \A q \in Procs \ {p} : pc'[q] = pc[q]
  BY DEF KVInv, KVTypes
<1> QED
  BY <1>3, <1>4, <1>5, OneProcess

(* The end of reconcile purges the namespaces of jobs out of use. *)
LEMMA ReconcileKV ==
    ASSUME KVInv, NEW p \in Procs, Reconcile(p)
    PROVE  KVInv' /\ rows' = rows
<1> DEFINE P == UNION {JobPaths(j) \cup {AllocOf(j, w) : w \in AllocatedWorkers(txAlloc[p], j)} :
                          j \in PurgedByReconcile(txAlloc[p])}
<1>1. /\ pc[p] = "reconcile" /\ pc' = [pc EXCEPT ![p] = "hooks"]
      /\ UNCHANGED <<rows, owner, kind, fresh, today>>
  BY DEF Reconcile, db, count
<1>2. \/ UNCHANGED <<store, txRows, lock>>
      \/ CanWrite(p) /\ Checkpoint(p, PurgePaths(store[p], P))
  BY DEF Reconcile
<1> HIDE DEF P
<1>3. Grows(store[p], PurgePaths(store[p], P))
  BY PurgeGrows DEF KVInv, KVTypes
<1> QED
  BY <1>1, <1>2, <1>3, CheckpointKV, PhaseKV DEF InTx

(* A job command of a deploy ends. *)
LEMMA DeployHookDoneKV ==
    ASSUME KVInv, NEW p \in Procs, NEW ok, DeployHookDone(p, ok)
    PROVE  KVInv' /\ rows' = rows
<1>1. /\ pc[p] = "hooks" /\ UNCHANGED <<rows, owner, pc, kind, fresh, today>>
  BY DEF DeployHookDone, db, count
<1>2. \/ UNCHANGED <<store, txRows, lock>>
      \/ CanWrite(p) /\ Checkpoint(p, PutVersions(store[p], txAlloc[p], Head(work[p])[2]))
  BY DEF DeployHookDone
<1>3. Grows(store[p], PutVersions(store[p], txAlloc[p], Head(work[p])[2]))
  BY VersionsGrow DEF KVInv, KVTypes
<1>4. pc' = [pc EXCEPT ![p] = "hooks"]
  BY <1>1 DEF KVInv, KVTypes
<1> QED
  BY <1>1, <1>2, <1>3, <1>4, CheckpointKV, PhaseKV DEF InTx

(* A job command of another command ends. *)
LEMMA HookDoneKV ==
    ASSUME KVInv, NEW p \in Procs, NEW ok, HookDone(p, ok)
    PROVE  KVInv' /\ rows' = rows
<1>1. pc[p] = "hooks" /\ UNCHANGED <<rows, lock, owner, pc, kind, store, txRows, fresh, today>>
  BY DEF HookDone, db, tx, count
<1>2. pc' = [pc EXCEPT ![p] = "hooks"]
  BY <1>1 DEF KVInv, KVTypes
<1> QED
  BY <1>1, <1>2, PhaseKV

(* A request is served by whoever listens, from its own session. *)
LEMMA ServeKV ==
    ASSUME KVInv, NEW p \in Procs, NEW w \in Workers, NEW e \in Events, NEW op, NEW x,
           NEW v \in Says[e], Serve(p, w, e, op, x, v)
    PROVE  KVInv' /\ rows' = rows
<1>1. UNCHANGED <<rows, lock, owner, pc, kind, txRows, fresh, today>>
  BY DEF Serve, db, tx
<1> DEFINE c == <<Head(work[p])[2], w>>
           r == IF txAlloc[owner][c] = "none" THEN Answer("refused", store[owner])
                ELSE Handle(store[owner], c, e, [op |-> op, path |-> x, value |-> v])
<1>2. store' = [store EXCEPT ![owner] = r.store] /\ op \in Ops /\ x \in Paths
  BY SessionsAssumption DEF Serve
<1>3. CASE owner \notin Procs
  <2>1. store' = store
    BY <1>2, <1>3 DEF KVInv, KVTypes
  <2> QED
    BY <1>1, <2>1 DEF KVInv, KVTypes, Collecting, Sessions, Snapshots, Listening, Isolated, InTx
<1>4. CASE owner \in Procs
  <2>1. Mine(owner) /\ store[owner] \in [Paths -> Entry]
    BY <1>4, MineOfInv DEF KVInv, KVTypes
  <2>2. Grows(store[owner], r.store)
    <3>1. Grows(store[owner], Handle(store[owner], c, e, [op |-> op, path |-> x, value |-> v]).store)
      BY <1>2, <2>1, HandleGrows
    <3>2. Answer("refused", store[owner]).store = store[owner]
      BY DEF Answer
    <3> QED
      BY <2>1, <3>1, <3>2, GrowsNothing
  <2> HIDE DEF r
  <2>3. store'[owner] = r.store /\ r.store \in [Paths -> Entry]
    BY <1>2, <1>4, <2>2 DEF KVInv, KVTypes, Grows
  <2>4. KVTypes'
    BY <1>1, <1>2, <2>3 DEF KVInv, KVTypes
  <2>5. Table(txRows[owner]) => (Session(store[owner], txRows[owner]) => Session(r.store, txRows[owner]))
    BY <2>2, GrowsSession
  <2>6. Mine(owner)'
    BY <1>1, <2>1, <2>3, <2>5 DEF Mine, InTx
  <2>7. \A q \in Procs \ {owner} : store'[q] = store[q]
    BY <1>2 DEF KVInv, KVTypes
  <2> QED
    BY <1>1, <1>4, <2>4, <2>6, <2>7, OneProcess DEF KVInv
<1> QED
  BY <1>3, <1>4

(* Tables are compared through what is loaded of them: versions are numbers. *)
LEMMA VersionsAreNat ==
    ASSUME NEW R, Table(R), NEW x \in Paths
    PROVE  Load(R)[x].version \in Nat
<1>1. Load(R) \in [Paths -> Entry]
  BY LoadType
<1> QED
  BY <1>1 DEF Entry

(* Two commits in a row, a checkpoint and a retention, are one as far as versions go. *)
LEMMA FollowsTwice ==
    ASSUME NEW R, Table(R), NEW S, Table(S), NEW T, Table(T), Follows(R, S), Follows(S, T)
    PROVE  Follows(R, T) /\ Commits(R, T)
BY VersionsAreNat DEF Follows, Commits

(* A session ends and what it leaves becomes the table. *)
LEMMA FinishKV ==
    ASSUME KVInv, NEW p \in Procs, Finish(p)
    PROVE  KVInv' /\ Commits(rows, rows')
<1>1. /\ pc[p] = "hooks" /\ (Writes(p) => CanWrite(p))
      /\ rows' = (IF Writes(p) THEN Leaves(p) ELSE rows)
      /\ fresh' = [q \in Procs |-> fresh[q] /\ q # p /\ ~Writes(p)]
      /\ Quit(p) /\ today' = today
  BY DEF Finish, Stales, count
<1>2. Mine(p) /\ InTx(p) /\ kind[p] \in AllKinds \ {"gc"} /\ Table(rows)
  BY <1>1, MineOfInv DEF Mine, InTx, KVInv, KVTypes
<1>3. Table(rows') /\ Commits(rows, rows')
  <2>1. CASE rows' = rows
    BY <1>2, <2>1 DEF Commits
  <2>2. CASE rows' # rows
    <3>1. Writes(p) /\ rows' = Leaves(p) /\ CanWrite(p)
      BY <1>1, <2>2
    <3>2. \/ rows' = txRows[p]
          \/ rows' = txRows[p] \cup Inserted(store[p], today)
      BY <1>2, <2>2, <3>1 DEF Leaves, AllKinds
    <3>3. Table(txRows[p]) /\ Session(store[p], txRows[p]) /\ today \in Nat
      BY <1>2 DEF Mine, KVInv, KVTypes
    <3>4. Follows(rows, txRows[p])
      BY <1>2, <3>1 DEF Mine, CanWrite, Follows
    <3>5. Table(rows') /\ Follows(txRows[p], rows')
      <4>1. CASE rows' = txRows[p]
        BY <3>3, <4>1 DEF Follows
      <4>2. CASE rows' = txRows[p] \cup Inserted(store[p], today)
        BY <3>3, <4>2, CheckpointSession
      <4> QED
        BY <3>2, <4>1, <4>2
    <3> QED
      BY <1>2, <3>3, <3>4, <3>5, FollowsTwice
  <2> QED
    BY <2>1, <2>2
<1>4. fresh' \in [Procs -> BOOLEAN] /\ \A q \in Procs \ {p} : fresh'[q] => fresh[q]
  BY <1>1 DEF KVInv, KVTypes, Writes
<1>5. \/ rows' = rows
      \/ \A q \in Procs \ {p} : ~fresh'[q] /\ lock # q
  BY <1>1, SessionsAssumption DEF CanWrite
<1>6. KVInv'
  BY <1>1, <1>3, <1>4, <1>5, QuitKV
<1> QED
  BY <1>3, <1>6

(* A crash, or an error: nothing of the session is left. *)
LEMMA AbortKV ==
    ASSUME KVInv, NEW p \in Procs, Abort(p)
    PROVE  KVInv' /\ rows' = rows
<1>1. /\ Quit(p) /\ rows' = rows /\ today' = today
      /\ fresh' = [q \in Procs |-> fresh[q] /\ q # p /\ ~FALSE]
  BY DEF Abort, Stales, db, count
<1>2. Table(rows')
  BY <1>1 DEF KVInv
<1>3. fresh' \in [Procs -> BOOLEAN] /\ \A q \in Procs \ {p} : fresh'[q] => fresh[q]
  BY <1>1 DEF KVInv, KVTypes
<1> QED
  BY <1>1, <1>2, <1>3, QuitKV

(* A day passes, or nothing happens. *)
LEMMA TickKV ==
    ASSUME KVInv, Tick \/ UNCHANGED vars
    PROVE  KVInv' /\ rows' = rows
<1>1. UNCHANGED <<rows, lock, owner, pc, kind, store, txRows, fresh>>
  BY DEF Tick, vars, db, tx
<1>2. today' \in Nat
  BY DEF Tick, vars, count, KVInv, KVTypes
<1>3. KVTypes'
  BY <1>1, <1>2 DEF KVInv, KVTypes
<1> QED
  BY <1>1, <1>3 DEF KVInv, Collecting, Sessions, Snapshots, Listening, Isolated, InTx

(* Every step keeps the invariant, and commits or leaves the table alone. *)
LEMMA NextKV ==
    ASSUME KVInv, [Next]_vars
    PROVE  KVInv' /\ Commits(rows, rows')
<1>0. rows' = rows => Commits(rows, rows')
  BY DEF Commits
<1>1. CASE Tick \/ UNCHANGED vars
  BY <1>0, <1>1, TickKV
<1>2. ASSUME NEW p \in Procs, NEW k \in AllKinds, Start(p, k)
      PROVE  KVInv' /\ rows' = rows
  BY <1>2, StartKV DEF Start, db
<1>3. ASSUME NEW p \in Procs, BuildCatalog(p) \/ Collect(p) \/ Finish(p)
      PROVE  KVInv' /\ Commits(rows, rows')
  BY <1>3, BuildCatalogKV, CollectKV, FinishKV
<1>4. ASSUME NEW p \in Procs, PostBuild(p) \/ Reconcile(p) \/ Abort(p)
      PROVE  KVInv' /\ rows' = rows
  BY <1>4, PostBuildKV, ReconcileKV, AbortKV
<1>5. ASSUME NEW p \in Procs, Request(p)
      PROVE  KVInv' /\ rows' = rows
  <2>1. PICK w \in Workers, e \in Events, x \in Payloads : \E v \in Says[e] : Serve(p, w, e, x[1], x[2], v)
    BY <1>5 DEF Request
  <2>2. PICK v \in Says[e] : Serve(p, w, e, x[1], x[2], v)
    BY <2>1
  <2> QED
    BY <2>2, ServeKV
<1>6. ASSUME NEW p \in Procs, NEW ok \in BOOLEAN, DeployHookDone(p, ok) \/ HookDone(p, ok)
      PROVE  KVInv' /\ rows' = rows
  BY <1>6, DeployHookDoneKV, HookDoneKV
<1> QED
  BY <1>0, <1>1, <1>2, <1>3, <1>4, <1>5, <1>6 DEF Next

(* The inductive invariant holds of every behaviour of the store, however many
   commands run at once and wherever they crash. *)
THEOREM KVInvariant == Spec => []KVInv
<1>1. Init => KVInv
  BY InitKV
<1>2. KVInv /\ [Next]_vars => KVInv'
  BY NextKV
<1> QED
  BY <1>1, <1>2, PTL DEF Spec

(* A key has one row per version, without a constraint of the database
   (PersistToTransaction, LoadFromTransaction). *)
THEOREM RowsAreUnique == Spec => []VersionsUnique
<1>1. KVInv => VersionsUnique
  BY DEF KVInv, Table, OneRowPerVersion, VersionsUnique
<1> QED
  BY <1>1, KVInvariant, PTL

(* A session is ahead of its transaction, entry by entry. *)
THEOREM SessionsAreAhead == Spec => []SessionAheadOfTable
<1>1. KVInv => SessionAheadOfTable
  <2> SUFFICES ASSUME KVInv, NEW p \in Procs, pc[p] \in {"reconcile", "hooks"}, NEW x \in Paths
               PROVE  IF store[p][x].changed
                      THEN \A r \in Of(txRows[p], x) : r.version < store[p][x].version
                      ELSE store[p][x] = Load(txRows[p])[x]
    BY DEF SessionAheadOfTable
  <2>1. Session(store[p], txRows[p])
    BY DEF KVInv, Sessions, InTx
  <2> QED
    BY <2>1 DEF Session, Newer, Of
<1> QED
  BY <1>1, KVInvariant, PTL

(* No secret reaches the database in the clear. *)
THEOREM SecretsAreSealed == Spec => []SecretsSealed
<1>1. KVInv => SecretsSealed
  BY DEF KVInv, Table, Fit, SecretsSealed
<1> QED
  BY <1>1, KVInvariant, PTL

(* Where only health checks say what they say, nothing of it is ever stored:
   every handler that writes refuses their requests (blockedWriteDuringHealthCheck). *)
THEOREM HealthChecksLeaveNoTrace ==
    ASSUME HealthIsTold
    PROVE  Spec => []HealthChecksStoreNothing
<1>1. KVInv => HealthChecksStoreNothing
  BY DEF KVInv, Table, Fit, HealthChecksStoreNothing
<1> QED
  BY <1>1, KVInvariant, PTL

(* The table implements the versioned map: no commit loses or rewrites what
   another one wrote, whatever its session had read before. *)
THEOREM TableImplementsMap == Spec => RefinesMap
<1>1. Init => Abs!Init
  <2> SUFFICES ASSUME Init, NEW x \in Paths
               PROVE  Load(rows)[x] = NoEntry \/ Load(rows)[x].version > NoEntry.version
    BY DEF Abs!Init, Abs!Unwritten, Abs!NewerThan
  <2>1. Table(rows)
    BY InitKV DEF KVInv
  <2>2. NoEntry.version = 0
    BY DEF NoEntry
  <2>3. CASE \E r \in rows : Load(rows)[x] = EntryOf(r)
    BY <2>1, <2>2, <2>3 DEF EntryOf, Table, Row
  <2> QED
    BY <2>1, <2>3, LoadIs
<1>2. KVInv /\ [Next]_vars => [Abs!Commit]_(Load(rows))
  <2> SUFFICES ASSUME KVInv, [Next]_vars PROVE Abs!Commit
    OBVIOUS
  <2>1. Commits(rows, rows')
    BY NextKV
  <2>2. Load(rows)' = Load(rows')
    BY DEF Load, Of, Latest
  <2> QED
    BY <2>1, <2>2 DEF Commits, Abs!Commit, Abs!Touch, Abs!Forget, Abs!NewerThan, Abs!Unwritten
<1> QED
  BY <1>1, <1>2, KVInvariant, PTL DEF Spec, RefinesMap, Abs!Spec

(* A put that is not refused writes the key it names, which is one of the caller's
   job (handleStoreKeyPut, handleStoreSecretPut). *)
Written(s, c, op, x, v, t) ==
    \/ /\ op = "put" /\ t = Put(s, x, Trim(v))
       /\ ~IsSecret(x) /\ x \in {Vars(c[1]), Catalog(c[1])}
    \/ /\ op = "put secret" /\ t = PutSecret(s, x, v)
       /\ IsSecret(x) /\ x = Secrets(c[1])

(* A request of a script that changes the store writes one of the paths its job may
   write: the handlers of PUT /kv and PUT /kv/secret resolve the namespace. *)
LEMMA PutWrites ==
    ASSUME NEW s, NEW c, NEW e, NEW op \in {"put", "put secret"}, NEW x, NEW v,
           Handle(s, c, e, [op |-> op, path |-> x, value |-> v]).store # s
    PROVE  Written(s, c, op, x, v, Handle(s, c, e, [op |-> op, path |-> x, value |-> v]).store)
<1> DEFINE r == [op |-> op, path |-> x, value |-> v]
<1>0. r.op = op /\ r.path = x /\ r.value = v
  OBVIOUS
<1> HIDE DEF r
<1>1. \A a, z : Answer(a, z).store = z
  BY DEF Answer
<1>2. CASE op = "put"
  <2>1. Handle(s, c, e, r) = HandlePut(s, c, e, x, v)
    BY <1>0, <1>2 DEF Handle
  <2>2. \/ HandlePut(s, c, e, x, v) = Answer("refused", s)
        \/ /\ HandlePut(s, c, e, x, v) = Answer("ok", Put(s, x, Trim(v)))
           /\ Writable(c, e, x) /\ ~IsSecret(x)
    BY DEF HandlePut
  <2> QED
    BY <1>1, <1>2, <2>1, <2>2 DEF Written, Writable, r
<1>3. CASE op = "put secret"
  <2>1. Handle(s, c, e, r) = HandleSecretPut(s, c, e, x, v)
    BY <1>0, <1>3 DEF Handle
  <2>2. \/ HandleSecretPut(s, c, e, x, v) = Answer("refused", s)
        \/ /\ HandleSecretPut(s, c, e, x, v) = Answer("ok", PutSecret(s, x, v))
           /\ x = Secrets(c[1])
    BY DEF HandleSecretPut
  <2> QED
    BY <1>1, <1>3, <2>1, <2>2, SecretPaths DEF Written, r
<1> QED
  BY <1>2, <1>3

(* The caller reads a value back, finds the key in its list, and so do the jobs
   that demand its own. *)
ReadBack(t, c, op, x, v) ==
    LET said == Found("ok", IF op = "put" THEN Trim(v) ELSE v)
    IN  /\ HandleGet(t, c, x) = said
        /\ x \in HandleList(t, c) \cup {Catalog(c[1])}
        /\ \A j \in HandleDemands(c), u \in Workers : HandleGet(t, <<j, u>>, x) = said

(* What was written is read wherever it is asked for: by a get of the caller, in
   its list of keys and by the jobs that demand its own (handleStoreKeyGet,
   UpstreamDemandKVNamespaces). *)
LEMMA WrittenIsRead ==
    ASSUME NEW s \in [Paths -> Entry], NEW c, NEW op, NEW x \in Paths, NEW v,
           NEW t, Written(s, c, op, x, v, t)
    PROVE  ReadBack(t, c, op, x, v)
<1> DEFINE said == Found("ok", IF op = "put" THEN Trim(v) ELSE v)
           val == IF op = "put" THEN Plain(Trim(v)) ELSE Encrypted(v)
<1>2. /\ x \in {Vars(c[1]), Catalog(c[1]), Secrets(c[1])}
      /\ \/ op = "put" /\ t = Put(s, x, Trim(v)) /\ ~IsSecret(x)
         \/ op # "put" /\ t = PutSecret(s, x, v) /\ IsSecret(x)
  BY DEF Written
<1>3. t[x].value = val /\ Live(t, x)
  <2>1. s[x].version \in Nat
    BY DEF Entry
  <2>2. \A z : /\ PutChanged(s[x], z).value = z /\ IsLive(PutChanged(s[x], z))
               /\ PutValue(s[x], z).value = z /\ IsLive(PutValue(s[x], z))
    <3>1. ASSUME NEW z PROVE PutChanged(s[x], z).value = z /\ IsLive(PutChanged(s[x], z))
      <4>1. /\ PutChanged(s[x], z).value = z /\ ~PutChanged(s[x], z).deleted
            /\ PutChanged(s[x], z).version = s[x].version + 1
        BY DEF PutChanged
      <4> QED
        BY <2>1, <4>1 DEF IsLive
    <3> QED
      BY <3>1 DEF PutValue
  <2>3. t[x] = (IF op = "put" THEN PutValue(s[x], Plain(Trim(v))) ELSE PutChanged(s[x], Encrypted(v)))
    BY <1>2 DEF Put, PutSecret
  <2> QED
    BY <2>2, <2>3 DEF Live
<1>4. \A d : x \in Readable(d) => HandleGet(t, d, x) = said
  <2>1. IsSecret(x) <=> op # "put"
    BY <1>2
  <2>2. CASE op = "put"
    <3>1. t[x].value.text = Trim(v) /\ said = Found("ok", Trim(v))
      BY <1>3, <2>2 DEF Plain
    <3> QED
      BY <1>3, <2>1, <2>2, <3>1 DEF HandleGet
  <2>3. CASE op # "put"
    <3>1. t[x].value = Encrypted(v) /\ said = Found("ok", v)
      BY <1>3, <2>3
    <3>2. IsEncrypted(t[x].value) /\ Decrypted(t[x].value) = v
      BY <3>1 DEF Encrypted, IsEncrypted, Decrypted
    <3> HIDE DEF said
    <3> QED
      BY <1>3, <2>1, <2>3, <3>1, <3>2 DEF HandleGet
  <2> QED
    BY <2>2, <2>3
<1>5. x \in JobPaths(c[1])
  BY <1>2 DEF JobPaths
<1>6. x \in Readable(c)
  BY <1>5 DEF Readable, Allowed
<1>7. \A j \in HandleDemands(c), u \in Workers : x \in Readable(<<j, u>>)
  <2> SUFFICES ASSUME NEW d \in Demands, d[2] = c[1], NEW u \in Workers
               PROVE  x \in Readable(<<d[1], u>>)
    BY DEF HandleDemands
  <2>1. x \in Upstream(d[1])
    BY <1>5 DEF Upstream
  <2> QED
    BY <2>1 DEF Readable
<1>8. x \in HandleList(t, c) \cup {Catalog(c[1])}
  BY <1>2, <1>3 DEF HandleList
<1> QED
  BY <1>4, <1>6, <1>7, <1>8 DEF ReadBack

(* Whoever serves a request, the script finds what it wrote. *)
LEMMA ServeReads ==
    ASSUME KVTypes, NEW p, NEW w, NEW e \in Events, NEW x \in Payloads, NEW v \in Says[e],
           Serve(p, w, e, x[1], x[2], v), store' # store, x[1] \in {"put", "put secret"}
    PROVE  ReadBack(store'[owner], <<Head(work[p])[2], w>>, x[1], x[2], v)
<1> DEFINE c == <<Head(work[p])[2], w>>
           a == Handle(store[owner], c, e, [op |-> x[1], path |-> x[2], value |-> v]).store
<1>1. x[2] \in Paths
  BY SessionsAssumption
<1>2. \/ store' = [store EXCEPT ![owner] = Answer("refused", store[owner]).store]
      \/ store' = [store EXCEPT ![owner] = a]
  BY DEF Serve
<1>3. Answer("refused", store[owner]).store = store[owner]
  BY DEF Answer
<1> HIDE DEF a
<1>4. store' = [store EXCEPT ![owner] = a] /\ owner \in Procs
  <2>1. ASSUME NEW z, owner \notin Procs \/ z = store[owner]
        PROVE  [store EXCEPT ![owner] = z] = store
    BY <2>1 DEF KVTypes
  <2> HIDE DEF c
  <2>2. store' # [store EXCEPT ![owner] = Answer("refused", store[owner]).store]
    BY <1>3, <2>1
  <2> QED
    BY <1>2, <2>1, <2>2
<1>5. store'[owner] = a /\ store[owner] \in [Paths -> Entry]
  BY <1>4 DEF KVTypes
<1>6. a # store[owner]
  BY <1>4 DEF KVTypes
<1> HIDE DEF c
<1>7. Written(store[owner], c, x[1], x[2], v, a)
  BY <1>6, PutWrites DEF a
<1>8. Written(store[owner], c, x[1], x[2], v, store'[owner])
  BY <1>5, <1>7
<1>9. ReadBack(store'[owner], c, x[1], x[2], v)
  BY <1>1, <1>5, <1>8, WrittenIsRead
<1> QED
  BY <1>9 DEF c

(* Read your writes, over every interleaving of the commands and their scripts. *)
THEOREM ScriptsReadTheirWrites == Spec => ReadYourWrites
<1>1. KVInv => \A p \in Procs, w \in Workers, e \in Events, x \in Payloads : \A v \in Says[e] :
          Serve(p, w, e, x[1], x[2], v) /\ store' # store /\ x[1] \in {"put", "put secret"} =>
             ReadBack(store'[owner], <<Head(work[p])[2], w>>, x[1], x[2], v)
  BY ServeReads DEF KVInv
<1>2. KVInv => [\A p \in Procs, w \in Workers, e \in Events, x \in Payloads : \A v \in Says[e] :
          Serve(p, w, e, x[1], x[2], v) /\ store' # store /\ x[1] \in {"put", "put secret"} =>
             LET c    == <<Head(work[p])[2], w>>
                 s    == store'[owner]
                 said == Found("ok", IF x[1] = "put" THEN Trim(v) ELSE v)
             IN  /\ HandleGet(s, c, x[2]) = said
                 /\ x[2] \in HandleList(s, c) \cup {Catalog(c[1])}
                 /\ \A j \in HandleDemands(c), u \in Workers : HandleGet(s, <<j, u>>, x[2]) = said]_requests
  BY <1>1, Zenon DEF ReadBack
<1> QED
  BY <1>2, KVInvariant, PTL DEF ReadYourWrites

(* What a purge of namespaces leaves alone. *)
LEMMA PurgeSpares ==
    ASSUME NEW s \in [Paths -> Entry], NEW P, NEW x \in Paths, x \notin P
    PROVE  PurgePaths(s, P)[x] = s[x]
BY DEF PurgePaths

(* The paths of one job are not those of another, nor of an allocation. *)
LEMMA PathsDiffer ==
    ASSUME NEW i, NEW j, NEW w
    PROVE  /\ Vars(i) = Vars(j) => i = j
           /\ Secrets(i) = Secrets(j) => i = j
           /\ \A x \in {Vars(i), Secrets(i)} :
                 /\ x # Catalog(j) /\ x # AllocOf(j, w)
                 /\ (x = Vars(j) \/ x = Secrets(j)) => i = j
BY DEF Vars, Secrets, Catalog, AllocOf

(* The namespaces that a build purges are not those of a job with an active
   allocation (jobShouldPurgeBuildKV). *)
LEMMA BuildSpares ==
    ASSUME NEW s \in [Paths -> Entry], NEW a, NEW j \in Jobs, ActiveWorkers(a, j) # {},
           NEW x \in {Vars(j), Secrets(j)}, x \in Paths, NEW purge \in BOOLEAN
    PROVE  SyncedByBuild(s, a, purge)[x] = s[x]
<1> DEFINE gone == {i \in Jobs : OutOfUse(a, i)}
           G == {Catalog(i) : i \in gone}
                \cup (IF purge THEN {Vars(i) : i \in gone} \cup {Secrets(i) : i \in gone} ELSE {})
                \cup {AllocOf(t[1], t[2]) : t \in {u \in Slots : a[u] = "removed"}}
           used == {Catalog(i) : i \in {i \in Jobs : NonRemovedWorkers(a, i) # {}}}
<1>1. j \notin gone
  BY DEF OutOfUse, ActiveWorkers, NonRemovedWorkers
<1>2. x \notin G
  BY <1>1, PathsDiffer
<1>3. x \notin used
  BY PathsDiffer
<1>4. SyncedByBuild(s, a, purge)[x] = PurgePaths(s, G)[x]
  BY <1>3 DEF SyncedByBuild
<1> HIDE DEF G
<1> QED
  BY <1>2, <1>4, PurgeSpares

(* Nor are those that gc purges (purgeRemovedJobNamespaces). *)
GCPaths(a) ==
    {AllocOf(t[1], t[2]) : t \in {t \in Slots : a[t] = "removed"}}
    \cup UNION {JobPaths(i) : i \in PurgedByGC(a)}

(* gc purges no variables and no secrets of a job with an active allocation. *)
LEMMA CollectSpares ==
    ASSUME NEW s \in [Paths -> Entry], NEW a, NEW j \in Jobs, ActiveWorkers(a, j) # {},
           NEW x \in {Vars(j), Secrets(j)}, x \in Paths
    PROVE  PurgePaths(s, GCPaths(a))[x] = s[x]
<1>1. j \notin PurgedByGC(a)
  BY DEF PurgedByGC
<1>2. \A i \in PurgedByGC(a) : x \notin JobPaths(i)
  BY <1>1, PathsDiffer DEF JobPaths
<1>3. x \notin GCPaths(a)
  BY <1>2, PathsDiffer DEF GCPaths
<1> QED
  BY <1>3, PurgeSpares

(* Three actions write to the table: the ends of a catalog transaction and of a
   session. *)
LEMMA WhoCommits ==
    ASSUME [Next]_vars, rows' # rows
    PROVE  \E q \in Procs : BuildCatalog(q) \/ Collect(q) \/ Finish(q)
<1>1. ASSUME NEW q \in Procs, NEW k \in AllKinds, Start(q, k) PROVE rows' = rows
  BY <1>1 DEF Start, db
<1>2. ASSUME NEW q \in Procs, PostBuild(q) \/ Reconcile(q) \/ Abort(q) PROVE rows' = rows
  BY <1>2 DEF PostBuild, Reconcile, Abort, db
<1>3. ASSUME NEW q \in Procs, Request(q) PROVE rows' = rows
  BY <1>3 DEF Request, Serve, db
<1>4. ASSUME NEW q \in Procs, NEW ok \in BOOLEAN, DeployHookDone(q, ok) \/ HookDone(q, ok)
      PROVE  rows' = rows
  BY <1>4 DEF DeployHookDone, HookDone, db
<1>5. CASE Tick \/ UNCHANGED vars
  BY <1>5 DEF Tick, vars, db
<1> QED
  BY <1>1, <1>2, <1>3, <1>4, <1>5 DEF Next

(* The namespaces of a job are paths. *)
LEMMA VarsArePaths ==
    ASSUME NEW j \in Jobs, NEW x \in {Vars(j), Secrets(j)}
    PROVE  x \in Paths
<1>1. <<"vars/job", j>> \in {"vars/job", "secrets/job", "maand/job"} \X Jobs
  OBVIOUS
<1>2. <<"secrets/job", j>> \in {"vars/job", "secrets/job", "maand/job"} \X Jobs
  OBVIOUS
<1>3. x = <<"vars/job", j>> \/ x = <<"secrets/job", j>>
  BY DEF Vars, Secrets
<1> QED
  BY <1>1, <1>2, <1>3, APIAssumption DEF PathsOfJobs

(* Whoever commits out of the catalog phase, an active job keeps what its commands
   stored. *)
LEMMA CatalogSpares ==
    ASSUME KVInv, NEW p \in Procs, [Next]_vars, pc[p] = "catalog", pc'[p] # "catalog",
           NEW j \in Jobs, ActiveWorkers(alloc', j) # {},
           NEW x \in {Vars(j), Secrets(j)}, Live(Load(rows), x)
    PROVE  Load(rows')[x] = Load(rows)[x]
<1>0. x \in Paths
  BY VarsArePaths
<1>1. CASE rows' = rows
  BY <1>1
<1>2. CASE BuildCatalog(p)
  <2>1. PICK f \in Flags, purge \in BOOLEAN :
           LET a == Placed(txAlloc[p], f)
               s == SyncedByBuild(store[p], a, purge)
           IN  /\ rows' = PurgeStale(txRows[p], RetainDays["build"], today) \cup Inserted(s, today)
               /\ alloc' = a
    BY <1>2 DEF BuildCatalog
  <2> DEFINE s == SyncedByBuild(store[p], Placed(txAlloc[p], f), purge)
  <2>2. /\ rows' = PurgeStale(txRows[p], RetainDays["build"], today) \cup Inserted(s, today)
        /\ alloc' = Placed(txAlloc[p], f)
    BY <2>1
  <2>3. CanWrite(p)
    BY <1>2 DEF BuildCatalog
  <2>4. txRows[p] = rows /\ Session(store[p], rows) /\ store[p] = Load(rows) /\ Table(rows)
    BY <2>3, CatalogReads
  <2>5. store[p] \in [Paths -> Entry] /\ ~store[p][x].changed /\ ~Load(rows)[x].deleted
    BY <1>0, <2>4, LoadType DEF Live, IsLive
  <2>6. s[x] = store[p][x]
    BY <1>0, <2>2, <2>5, BuildSpares
  <2>7. Session(s, rows)
    BY <2>4, <2>5, SyncGrows, GrowsSession
  <2> HIDE DEF s
  <2>8. RetainDays["build"] \in Nat /\ today \in Nat
    BY SessionsAssumption DEF KVInv, KVTypes
  <2>9. \A y \in Paths : ~s[y].changed /\ ~Load(rows)[y].deleted => Load(rows')[y] = Load(rows)[y]
    BY <2>2, <2>4, <2>7, <2>8, BuildRows DEF s
  <2> QED
    BY <1>0, <2>5, <2>6, <2>9
<1>3. CASE Collect(p)
  <2> DEFINE s == PurgePaths(store[p], GCPaths(txAlloc[p]))
  <2>2. /\ rows' = PurgeStale(txRows[p] \cup Inserted(s, today), RetainDays["gc"], today)
        /\ alloc' = [t \in Slots |-> IF t \in {u \in Slots : txAlloc[p][u] = "removed"}
                                     THEN "none" ELSE txAlloc[p][t]]
        /\ CanWrite(p)
    BY <1>3 DEF Collect, GCPaths
  <2>3. ActiveWorkers(txAlloc[p], j) # {}
    <3>1. PICK w \in Workers : alloc'[<<j, w>>] = "active"
      BY DEF ActiveWorkers
    <3>2. <<j, w>> \in Slots
      BY DEF Slots
    <3>3. txAlloc[p][<<j, w>>] = "active"
      BY <2>2, <3>1, <3>2
    <3> QED
      BY <3>3 DEF ActiveWorkers
  <2>4. txRows[p] = rows /\ Session(store[p], rows) /\ store[p] = Load(rows) /\ Table(rows)
    BY <2>2, CatalogReads
  <2>5. store[p] \in [Paths -> Entry] /\ ~store[p][x].changed /\ ~Load(rows)[x].deleted
    BY <1>0, <2>4, LoadType DEF Live, IsLive
  <2>6. s[x] = store[p][x]
    BY <1>0, <2>3, <2>5, CollectSpares
  <2>7. Session(s, rows)
    BY <2>4, <2>5, PurgeGrows, GrowsSession
  <2> HIDE DEF s
  <2>8. RetainDays["gc"] \in Nat /\ today \in Nat
    BY SessionsAssumption DEF KVInv, KVTypes
  <2>9. \A y \in Paths : ~s[y].changed /\ ~Load(rows)[y].deleted => Load(rows')[y] = Load(rows)[y]
    BY <2>2, <2>4, <2>7, <2>8, CollectRows
  <2> QED
    BY <1>0, <2>5, <2>6, <2>9
<1>4. ASSUME NEW q \in Procs, BuildCatalog(q) \/ Collect(q) \/ Finish(q), q # p
      PROVE  pc'[p] = pc[p]
  BY <1>4 DEF BuildCatalog, Collect, Finish, Quit, KVInv, KVTypes
<1>5. ~Finish(p)
  BY DEF Finish
<1> QED
  BY <1>1, <1>2, <1>3, <1>4, <1>5, WhoCommits

(* What is live in a table of the jobs in use, and not for scripts to delete, is
   live in a store. *)
Keeps(a, R, s) ==
    \A j \in Jobs : ActiveWorkers(a, j) # {} =>
        \A x \in Kept(j) : Live(Load(R), x) => Live(s, x)

(* Of a session that may still commit: it sees the allocations that are committed,
   and it has purged nothing of a job in use, in its store or in its transaction. *)
Shelter(p) ==
    InTx(p) /\ (fresh[p] \/ lock = p) =>
        /\ txAlloc[p] = alloc
        /\ Keeps(alloc, rows, store[p]) /\ Keeps(alloc, rows, Load(txRows[p]))

TxFunction == txAlloc = [q \in Procs |-> txAlloc[q]]

Sheltered == TxFunction /\ \A p \in Procs : Shelter(p)

(* A store spares what another has if it is the same, or live as well, there. *)
LEMMA KeepsAlong ==
    ASSUME NEW a, NEW R, NEW s, NEW t, Keeps(a, R, s),
           \A j \in Jobs : ActiveWorkers(a, j) # {} =>
              \A x \in Kept(j) : x \in Paths /\ Live(s, x) => Live(t, x)
    PROVE  Keeps(a, R, t)
<1> SUFFICES ASSUME NEW j \in Jobs, ActiveWorkers(a, j) # {}, NEW x \in Kept(j), Live(Load(R), x)
             PROVE  Live(t, x)
  BY DEF Keeps
<1>1. x \in Paths
  BY VarsArePaths DEF Kept
<1>2. Live(s, x)
  BY DEF Keeps
<1> QED
  BY <1>1, <1>2

(* What a step of one process must do to shelter the others. *)
LEMMA OneShelter ==
    ASSUME Sheltered, NEW p \in Procs, Shelter(p)', TxFunction',
           \A q \in Procs \ {p} :
              /\ pc'[q] = pc[q] /\ store'[q] = store[q]
              /\ txRows'[q] = txRows[q] /\ txAlloc'[q] = txAlloc[q] /\ (fresh'[q] => fresh[q]),
           \/ rows' = rows /\ alloc' = alloc
           \/ \A q \in Procs \ {p} : ~fresh'[q] /\ lock' # q,
           lock' = lock \/ lock' \in {p, None}
    PROVE  Sheltered'
<1>1. ASSUME NEW q \in Procs \ {p} PROVE Shelter(q)'
  <2>1. Shelter(q)
    BY DEF Sheltered
  <2>2. InTx(q)' = InTx(q)
    BY DEF InTx
  <2>3. lock' = q => lock = q
    BY SessionsAssumption
  <2>4. CASE rows' = rows /\ alloc' = alloc
    BY <2>1, <2>2, <2>3, <2>4 DEF Shelter
  <2>5. CASE ~fresh'[q] /\ lock' # q
    BY <2>5 DEF Shelter
  <2> QED
    BY <2>4, <2>5
<1> QED
  BY <1>1 DEF Sheltered

(* A session that has just begun. *)
LEMMA BegunShelter ==
    ASSUME NEW p \in Procs, txAlloc'[p] = alloc', store'[p] = Load(rows'), txRows'[p] = rows'
    PROVE  Shelter(p)'
<1>1. Keeps(alloc', rows', Load(rows'))
  BY DEF Keeps
<1> QED
  BY <1>1 DEF Shelter

(* A process that is gone, or that has nothing open, needs no shelter. *)
LEMMA QuitShelter ==
    ASSUME KVInv, Sheltered, NEW p \in Procs, Quit(p),
           \A q \in Procs \ {p} : fresh'[q] => fresh[q],
           \/ rows' = rows /\ alloc' = alloc
           \/ \A q \in Procs \ {p} : ~fresh'[q] /\ lock # q
    PROVE  Sheltered'
<1>1. /\ pc' = [pc EXCEPT ![p] = "off"] /\ store' = [store EXCEPT ![p] = NewStore]
      /\ lock' = (IF lock = p THEN None ELSE lock)
      /\ txRows' = [txRows EXCEPT ![p] = {}] /\ txAlloc' = [txAlloc EXCEPT ![p] = NoAlloc]
  BY DEF Quit
<1>2. pc'[p] = "off"
  BY <1>1 DEF KVInv, KVTypes
<1>3. Shelter(p)'
  BY <1>2 DEF Shelter, InTx
<1>4. TxFunction'
  BY <1>1 DEF Sheltered, TxFunction
<1>5. \A q \in Procs \ {p} :
         /\ pc'[q] = pc[q] /\ store'[q] = store[q]
         /\ txRows'[q] = txRows[q] /\ txAlloc'[q] = txAlloc[q] /\ (fresh'[q] => fresh[q])
  BY <1>1 DEF KVInv, KVTypes, Sheltered, TxFunction
<1>6. lock' \in {lock, None}
  BY <1>1
<1>7. \A q \in Procs \ {p} : lock # q => lock' # q
  BY <1>6, SessionsAssumption
<1> QED
  BY <1>3, <1>4, <1>5, <1>6, <1>7, OneShelter

(* The start of a command. *)
LEMMA StartShelter ==
    ASSUME KVInv, Sheltered, NEW p \in Procs, NEW k \in AllKinds, Start(p, k)
    PROVE  Sheltered'
<1>1. /\ rows' = rows /\ alloc' = alloc /\ lock' = lock
      /\ store' = [store EXCEPT ![p] = Load(rows)] /\ txRows' = [txRows EXCEPT ![p] = rows]
      /\ txAlloc' = [txAlloc EXCEPT ![p] = alloc]
      /\ fresh' = [q \in Procs |-> q = p \/ (fresh[q] /\ k # "deploy")]
      /\ \E z : pc' = [pc EXCEPT ![p] = z]
  BY DEF Start, Snapshot, db
<1>2. txAlloc'[p] = alloc' /\ store'[p] = Load(rows') /\ txRows'[p] = rows' /\ TxFunction'
  BY <1>1 DEF KVInv, KVTypes, Sheltered, TxFunction
<1>3. \A q \in Procs \ {p} :
         /\ pc'[q] = pc[q] /\ store'[q] = store[q]
         /\ txRows'[q] = txRows[q] /\ txAlloc'[q] = txAlloc[q] /\ (fresh'[q] => fresh[q])
  BY <1>1 DEF KVInv, KVTypes, Sheltered, TxFunction
<1>4. Shelter(p)'
  BY <1>2, BegunShelter
<1> QED
  BY <1>1, <1>2, <1>3, <1>4, OneShelter

(* The session of the post_build hooks. *)
LEMMA PostBuildShelter ==
    ASSUME KVInv, Sheltered, NEW p \in Procs, PostBuild(p)
    PROVE  Sheltered'
<1>0. rows' = rows /\ alloc' = alloc
  BY DEF PostBuild, db
<1>1. CASE lock # None
  <2>1. Quit(p) /\ fresh' = fresh
    BY <1>1 DEF PostBuild
  <2> QED
    BY <1>0, <2>1, QuitShelter
<1>2. CASE lock = None
  <2>1. /\ store' = [store EXCEPT ![p] = Load(rows)] /\ txRows' = [txRows EXCEPT ![p] = rows]
        /\ txAlloc' = [txAlloc EXCEPT ![p] = alloc]
        /\ fresh' = [fresh EXCEPT ![p] = TRUE]
        /\ pc' = [pc EXCEPT ![p] = "hooks"] /\ lock' = lock
    BY <1>2 DEF PostBuild, Snapshot
  <2>2. txAlloc'[p] = alloc' /\ store'[p] = Load(rows') /\ txRows'[p] = rows' /\ TxFunction'
    BY <1>0, <2>1 DEF KVInv, KVTypes, Sheltered, TxFunction
  <2>3. \A q \in Procs \ {p} :
           /\ pc'[q] = pc[q] /\ store'[q] = store[q]
           /\ txRows'[q] = txRows[q] /\ txAlloc'[q] = txAlloc[q] /\ (fresh'[q] => fresh[q])
    BY <2>1 DEF KVInv, KVTypes, Sheltered, TxFunction
  <2>4. Shelter(p)'
    BY <2>2, BegunShelter
  <2> QED
    BY <1>0, <2>1, <2>2, <2>3, <2>4, OneShelter
<1> QED
  BY <1>1, <1>2

(* The catalog transaction of a build leaves nobody else with a good snapshot. *)
LEMMA BuildCatalogShelter ==
    ASSUME KVInv, Sheltered, NEW p \in Procs, BuildCatalog(p)
    PROVE  Sheltered'
<1>1. /\ pc[p] = "catalog" /\ CanWrite(p)
      /\ fresh' = [q \in Procs |-> fresh[q] /\ q # p /\ ~TRUE]
      /\ pc' = [pc EXCEPT ![p] = "vacuum"]
      /\ UNCHANGED <<lock, store, txRows, txAlloc>>
  BY DEF BuildCatalog, Stales
<1>2. lock = None
  BY <1>1, CatalogReads
<1>3. Shelter(p)' /\ TxFunction'
  BY <1>1 DEF Shelter, InTx, KVInv, KVTypes, Sheltered, TxFunction
<1>4. \A q \in Procs \ {p} :
         /\ pc'[q] = pc[q] /\ store'[q] = store[q]
         /\ txRows'[q] = txRows[q] /\ txAlloc'[q] = txAlloc[q] /\ ~fresh'[q] /\ lock' # q
  BY <1>1, <1>2, SessionsAssumption DEF KVInv, KVTypes
<1> QED
  BY <1>1, <1>3, <1>4, OneShelter

(* gc, a session that ends, and a crash. *)
LEMMA EndShelter ==
    ASSUME KVInv, Sheltered, NEW p \in Procs, Collect(p) \/ Finish(p) \/ Abort(p)
    PROVE  Sheltered'
<1>1. CASE Collect(p)
  <2>1. /\ pc[p] = "catalog" /\ CanWrite(p) /\ Quit(p)
        /\ fresh' = [q \in Procs |-> fresh[q] /\ q # p /\ ~TRUE]
    BY <1>1 DEF Collect, Stales
  <2>2. lock = None
    BY <2>1, CatalogReads
  <2>3. \A q \in Procs \ {p} : ~fresh'[q] /\ lock # q
    BY <2>1, <2>2, SessionsAssumption
  <2> QED
    BY <2>1, <2>3, QuitShelter
<1>2. CASE Finish(p)
  <2>1. /\ Quit(p) /\ alloc' = alloc
        /\ Writes(p) => CanWrite(p)
        /\ ~Writes(p) => rows' = rows
        /\ fresh' = [q \in Procs |-> fresh[q] /\ q # p /\ ~Writes(p)]
    BY <1>2 DEF Finish, Stales
  <2>2. \A q \in Procs \ {p} : fresh'[q] => fresh[q]
    BY <2>1
  <2>3. Writes(p) => \A q \in Procs \ {p} : ~fresh'[q] /\ lock # q
    BY <2>1, SessionsAssumption DEF CanWrite
  <2> QED
    BY <2>1, <2>2, <2>3, QuitShelter
<1>3. CASE Abort(p)
  <2>1. /\ Quit(p) /\ rows' = rows /\ alloc' = alloc
        /\ fresh' = [q \in Procs |-> fresh[q] /\ q # p /\ ~FALSE]
    BY <1>3 DEF Abort, Stales, db
  <2> QED
    BY <2>1, QuitShelter
<1> QED
  BY <1>1, <1>2, <1>3

(* A store and its clean copy hold the same. *)
LEMMA CleanLive ==
    ASSUME NEW s \in [Paths -> Entry], NEW x \in Paths
    PROVE  /\ ~Clean(s)[x].changed
           /\ Live(Clean(s), x) <=> Live(s, x)
<1>1. CASE s[x].changed
  <2>1. Clean(s)[x] = Marked(s[x])
    BY <1>1 DEF Clean, Marked
  <2>2. Marked(s[x]) = [value |-> s[x].value, version |-> s[x].version, deleted |-> s[x].deleted,
                        changed |-> FALSE]
    BY CleanEntry
  <2> QED
    BY <2>1, <2>2 DEF Live, IsLive
<1>2. CASE ~s[x].changed
  BY <1>2 DEF Clean, Live, IsLive
<1> QED
  BY <1>1, <1>2

(* A checkpoint of a store that spared the jobs in use. *)
LEMMA CheckpointShelter ==
    ASSUME KVInv, KVInv', Sheltered, NEW p \in Procs, InTx(p), CanWrite(p), pc[p] # "catalog",
           NEW s \in [Paths -> Entry], Checkpoint(p, s), pc' = [pc EXCEPT ![p] = "hooks"],
           UNCHANGED <<rows, alloc, fresh, txAlloc>>,
           \A j \in Jobs : ActiveWorkers(txAlloc[p], j) # {} =>
              \A x \in Kept(j) : x \in Paths => s[x] = store[p][x]
    PROVE  Sheltered'
<1>1. /\ \E T : txRows' = [txRows EXCEPT ![p] = T]
      /\ store' = [store EXCEPT ![p] = Clean(s)] /\ lock' = p
  BY DEF Checkpoint
<1>2. txAlloc[p] = alloc /\ Keeps(alloc, rows, store[p])
  BY DEF Sheltered, Shelter, CanWrite
<1>3. Keeps(alloc, rows, Clean(s))
  <2>1. \A j \in Jobs : ActiveWorkers(alloc, j) # {} =>
           \A x \in Kept(j) : x \in Paths /\ Live(store[p], x) => Live(Clean(s), x)
    BY <1>2, CleanLive DEF Live
  <2> QED
    BY <1>2, <2>1, KeepsAlong
<1>4. store'[p] = Clean(s) /\ pc'[p] = "hooks"
  BY <1>1 DEF KVInv, KVTypes
<1>5. Session(store'[p], txRows'[p])
  BY <1>4 DEF KVInv, Sessions, InTx
<1>6. \A x \in Paths : Clean(s)[x] = Load(txRows'[p])[x]
  BY <1>4, <1>5, CleanLive DEF Session
<1>7. Keeps(alloc, rows, Load(txRows'[p]))
  <2>1. \A j \in Jobs : ActiveWorkers(alloc, j) # {} =>
           \A x \in Kept(j) : x \in Paths /\ Live(Clean(s), x) => Live(Load(txRows'[p]), x)
    BY <1>6 DEF Live
  <2> QED
    BY <1>3, <2>1, KeepsAlong
<1>8. Shelter(p)'
  BY <1>2, <1>3, <1>4, <1>7 DEF Shelter
<1>9. \A q \in Procs \ {p} :
         /\ pc'[q] = pc[q] /\ store'[q] = store[q]
         /\ txRows'[q] = txRows[q] /\ txAlloc'[q] = txAlloc[q] /\ (fresh'[q] => fresh[q])
  BY <1>1 DEF KVInv, KVTypes
<1>10. TxFunction'
  BY DEF Sheltered, TxFunction
<1> QED
  BY <1>1, <1>8, <1>9, <1>10, OneShelter

(* A step that changes neither stores nor tables. *)
LEMMA PhaseShelter ==
    ASSUME KVInv, Sheltered, NEW p \in Procs, pc[p] \in {"reconcile", "hooks"},
           pc' = [pc EXCEPT ![p] = "hooks"],
           UNCHANGED <<rows, alloc, lock, store, txRows, txAlloc, fresh>>
    PROVE  Sheltered'
<1>1. InTx(p)
  BY DEF InTx
<1>2. Shelter(p)'
  BY <1>1 DEF Sheltered, Shelter
<1>3. \A q \in Procs \ {p} : pc'[q] = pc[q]
  BY DEF KVInv, KVTypes
<1>4. TxFunction'
  BY DEF Sheltered, TxFunction
<1> QED
  BY <1>2, <1>3, <1>4, OneShelter

(* Reconcile purges nothing of a job in use. *)
LEMMA ReconcileShelter ==
    ASSUME KVInv, KVInv', Sheltered, NEW p \in Procs, Reconcile(p)
    PROVE  Sheltered'
<1> DEFINE a == txAlloc[p]
           P == UNION {JobPaths(j) \cup {AllocOf(j, w) : w \in AllocatedWorkers(a, j)} :
                          j \in PurgedByReconcile(a)}
           s == PurgePaths(store[p], P)
<1>1. /\ pc[p] = "reconcile" /\ pc' = [pc EXCEPT ![p] = "hooks"]
      /\ UNCHANGED <<rows, alloc, fresh, txAlloc>>
  BY DEF Reconcile, db
<1>2. \/ UNCHANGED <<store, txRows, lock>>
      \/ CanWrite(p) /\ Checkpoint(p, s)
  BY DEF Reconcile
<1>3. ASSUME NEW j \in Jobs, ActiveWorkers(a, j) # {}, NEW x \in Kept(j), x \in Paths
      PROVE  s[x] = store[p][x]
  <2>1. j \notin PurgedByReconcile(a)
    BY <1>3 DEF PurgedByReconcile, OutOfUse, ActiveWorkers, NonRemovedWorkers
  <2>2. x \in {Vars(j), Secrets(j)}
    BY <1>3 DEF Kept
  <2>3. \A i \in PurgedByReconcile(a) : x \notin JobPaths(i) /\ \A w : x # AllocOf(i, w)
    BY <2>1, <2>2, PathsDiffer DEF JobPaths
  <2>4. x \notin P
    BY <2>3
  <2>5. store[p] \in [Paths -> Entry]
    BY DEF KVInv, KVTypes
  <2> HIDE DEF P
  <2> QED
    BY <1>3, <2>4, <2>5, PurgeSpares
<1>4. s \in [Paths -> Entry]
  <2> HIDE DEF P
  <2>1. store[p] \in [Paths -> Entry]
    BY DEF KVInv, KVTypes
  <2> QED
    BY <2>1, PurgeGrows DEF Grows
<1> HIDE DEF s
<1>5. CASE UNCHANGED <<store, txRows, lock>>
  BY <1>1, <1>5, PhaseShelter
<1>6. CASE CanWrite(p) /\ Checkpoint(p, s)
  BY <1>1, <1>3, <1>4, <1>6, CheckpointShelter DEF InTx
<1> QED
  BY <1>2, <1>5, <1>6

(* Nor do the checkpoints of a rollout. *)
LEMMA DeployHookShelter ==
    ASSUME KVInv, KVInv', Sheltered, NEW p \in Procs, NEW ok, DeployHookDone(p, ok)
    PROVE  Sheltered'
<1> DEFINE i == Head(work[p])[2]
           s == PutVersions(store[p], txAlloc[p], i)
<1>1. /\ pc[p] = "hooks" /\ UNCHANGED <<rows, alloc, pc, fresh, txAlloc>>
  BY DEF DeployHookDone, db
<1>2. \/ UNCHANGED <<store, txRows, lock>>
      \/ CanWrite(p) /\ Checkpoint(p, s)
  BY DEF DeployHookDone
<1> HIDE DEF i
<1>3. ASSUME NEW j \in Jobs, NEW x \in Kept(j), x \in Paths
      PROVE  s[x] = store[p][x]
  <2>1. \A w : x # AllocOf(i, w)
    BY PathsDiffer DEF Kept
  <2> QED
    BY <1>3, <2>1 DEF PutVersions
<1>4. s \in [Paths -> Entry]
  BY VersionsGrow DEF Grows, KVInv, KVTypes
<1>5. pc' = [pc EXCEPT ![p] = "hooks"]
  BY <1>1 DEF KVInv, KVTypes
<1> HIDE DEF s
<1>6. CASE UNCHANGED <<store, txRows, lock>>
  BY <1>1, <1>5, <1>6, PhaseShelter
<1>7. CASE CanWrite(p) /\ Checkpoint(p, s)
  BY <1>1, <1>3, <1>4, <1>5, <1>7, CheckpointShelter DEF InTx
<1> QED
  BY <1>2, <1>6, <1>7

(* A put leaves a live entry. *)
LEMMA PutLives ==
    ASSUME NEW e \in Entry, NEW v
    PROVE  IsLive(PutChanged(e, v)) /\ IsLive(PutValue(e, v))
<1>1. e.version + 1 > 0
  BY DEF Entry
<1> QED
  BY <1>1 DEF IsLive, PutChanged, PutValue

(* A handler makes no key dead but by a delete that a script asks for. *)
LEMMA HandleSpares ==
    ASSUME NEW s \in [Paths -> Entry], NEW c, NEW e, NEW op \in Ops, NEW x \in Paths, NEW v,
           <<op, x>> \in Payloads, NEW j \in Jobs, NEW y \in Kept(j), y \in Paths, Live(s, y)
    PROVE  Live(Handle(s, c, e, [op |-> op, path |-> x, value |-> v]).store, y)
<1> DEFINE r == [op |-> op, path |-> x, value |-> v]
<1>1. r.op = op /\ r.path = x /\ r.value = v
  OBVIOUS
<1> HIDE DEF r
<1>2. \A n : Answer(n, s).store = s
  BY DEF Answer
<1>3. CASE op = "put"
  <2>1. Handle(s, c, e, r) = HandlePut(s, c, e, x, v)
    BY <1>1, <1>3 DEF Handle
  <2>2. Live(Put(s, x, Trim(v)), y)
    BY PutLives DEF Live, Put
  <2>3. Answer("ok", Put(s, x, Trim(v))).store = Put(s, x, Trim(v))
    BY DEF Answer
  <2> QED
    BY <1>2, <2>1, <2>2, <2>3 DEF HandlePut, r
<1>4. CASE op = "put secret"
  <2>1. Handle(s, c, e, r) = HandleSecretPut(s, c, e, x, v)
    BY <1>1, <1>4 DEF Handle
  <2>2. Live(PutSecret(s, x, v), y)
    BY PutLives DEF Live, PutSecret
  <2>3. Answer("ok", PutSecret(s, x, v)).store = PutSecret(s, x, v)
    BY DEF Answer
  <2> QED
    BY <1>2, <2>1, <2>2, <2>3 DEF HandleSecretPut, r
<1>5. CASE op \in {"delete", "delete secret"}
  <2>1. x # y
    BY <1>5 DEF Kept
  <2>2. Live(Delete(s, x), y)
    BY <2>1 DEF Live, Delete
  <2>3. Answer("ok", Delete(s, x)).store = Delete(s, x)
    BY DEF Answer
  <2>4. CASE op = "delete"
    <3>1. Handle(s, c, e, r) = HandleDelete(s, c, e, x)
      BY <1>1, <2>4 DEF Handle
    <3> QED
      BY <1>2, <2>2, <2>3, <3>1 DEF HandleDelete, r
  <2>5. CASE op = "delete secret"
    <3>1. Handle(s, c, e, r) = HandleSecretDelete(s, c, e, x)
      BY <1>1, <2>5 DEF Handle
    <3> QED
      BY <1>2, <2>2, <2>3, <3>1 DEF HandleSecretDelete, r
  <2> QED
    BY <1>5, <2>4, <2>5
<1> QED
  BY <1>3, <1>4, <1>5 DEF Ops

(* Whoever serves a request, what no script deletes stays. *)
LEMMA ServeShelter ==
    ASSUME KVInv, KVInv', Sheltered, NEW p \in Procs, NEW w \in Workers, NEW e \in Events,
           NEW op, NEW x, NEW v \in Says[e], Serve(p, w, e, op, x, v)
    PROVE  Sheltered'
<1> DEFINE c == <<Head(work[p])[2], w>>
           h == Handle(store[owner], c, e, [op |-> op, path |-> x, value |-> v]).store
<1>1. UNCHANGED <<rows, alloc, lock, pc, txRows, txAlloc, fresh>>
  BY DEF Serve, db, tx
<1>2. op \in Ops /\ x \in Paths /\ <<op, x>> \in Payloads
  BY SessionsAssumption DEF Serve
<1>3. Answer("refused", store[owner]).store = store[owner]
  BY DEF Answer
<1>4. \/ store' = [store EXCEPT ![owner] = store[owner]]
      \/ store' = [store EXCEPT ![owner] = h]
  BY <1>3 DEF Serve
<1>5. CASE store' = store
  <2>1. Shelter(p)'
    BY <1>1, <1>5 DEF Sheltered, Shelter, InTx
  <2>2. TxFunction'
    BY <1>1 DEF Sheltered, TxFunction
  <2> QED
    BY <1>1, <1>5, <2>1, <2>2, OneShelter
<1>6. CASE owner \in Procs /\ store' = [store EXCEPT ![owner] = h]
  <2>1. store[owner] \in [Paths -> Entry]
    BY <1>6 DEF KVInv, KVTypes
  <2>2. \A j \in Jobs : \A y \in Kept(j) : y \in Paths /\ Live(store[owner], y) => Live(h, y)
    BY <1>2, <2>1, HandleSpares
  <2> HIDE DEF h, c
  <2>3. store'[owner] = h
    BY <1>6 DEF KVInv, KVTypes
  <2>4. Keeps(alloc, rows, store[owner]) => Keeps(alloc, rows, h)
    BY <2>2, KeepsAlong
  <2>5. PICK o \in Procs : o = owner
    BY <1>6
  <2>6. Shelter(o)'
    BY <1>1, <2>3, <2>4, <2>5 DEF Sheltered, Shelter, InTx
  <2>7. \A q \in Procs \ {o} : store'[q] = store[q]
    BY <1>6, <2>5 DEF KVInv, KVTypes
  <2>8. TxFunction'
    BY <1>1 DEF Sheltered, TxFunction
  <2> QED
    BY <1>1, <1>6, <2>6, <2>7, <2>8, OneShelter
<1> HIDE DEF h, c
<1>7. \A z : owner \notin Procs => [store EXCEPT ![owner] = z] = store
  BY DEF KVInv, KVTypes
<1>8. [store EXCEPT ![owner] = store[owner]] = store
  BY DEF KVInv, KVTypes
<1> QED
  BY <1>4, <1>5, <1>6, <1>7, <1>8

(* Every step keeps the shelter. *)
LEMMA NextShelter ==
    ASSUME KVInv, KVInv', Sheltered, [Next]_vars
    PROVE  Sheltered'
<1>1. CASE Tick \/ UNCHANGED vars
  <2>1. UNCHANGED <<rows, alloc, lock, pc, store, txRows, txAlloc, fresh>>
    BY <1>1 DEF Tick, vars, db, tx
  <2> QED
    BY <2>1 DEF Sheltered, TxFunction, Shelter, InTx
<1>2. ASSUME NEW p \in Procs, NEW k \in AllKinds, Start(p, k) PROVE Sheltered'
  BY <1>2, StartShelter
<1>3. ASSUME NEW p \in Procs,
             BuildCatalog(p) \/ PostBuild(p) \/ Collect(p) \/ Reconcile(p) \/ Finish(p) \/ Abort(p)
      PROVE  Sheltered'
  BY <1>3, BuildCatalogShelter, PostBuildShelter, ReconcileShelter, EndShelter
<1>4. ASSUME NEW p \in Procs, Request(p) PROVE Sheltered'
  <2>1. PICK w \in Workers, e \in Events, x \in Payloads : \E v \in Says[e] : Serve(p, w, e, x[1], x[2], v)
    BY <1>4 DEF Request
  <2>2. PICK v \in Says[e] : Serve(p, w, e, x[1], x[2], v)
    BY <2>1
  <2> QED
    BY <2>2, ServeShelter
<1>5. ASSUME NEW p \in Procs, NEW ok \in BOOLEAN, DeployHookDone(p, ok) PROVE Sheltered'
  BY <1>5, DeployHookShelter
<1>6. ASSUME NEW p \in Procs, NEW ok \in BOOLEAN, HookDone(p, ok) PROVE Sheltered'
  <2>1. pc[p] = "hooks" /\ UNCHANGED <<rows, alloc, lock, pc, store, txRows, txAlloc, fresh>>
    BY <1>6 DEF HookDone, db, tx
  <2>2. pc' = [pc EXCEPT ![p] = "hooks"]
    BY <2>1 DEF KVInv, KVTypes
  <2> QED
    BY <2>1, <2>2, PhaseShelter
<1> QED
  BY <1>1, <1>2, <1>3, <1>4, <1>5, <1>6 DEF Next

(* No session that may still commit has purged anything of a job in use. *)
THEOREM SessionsShelter == Spec => []Sheltered
<1>1. Init => Sheltered
  BY DEF Init, Sheltered, TxFunction, Shelter, InTx
<1>2. KVInv /\ KVInv' /\ Sheltered /\ [Next]_vars => Sheltered'
  BY NextShelter
<1> QED
  BY <1>1, <1>2, KVInvariant, PTL DEF Spec

(* What a session leaves in the table when it ends. *)
LEMMA FinishSpares ==
    ASSUME KVInv, Sheltered, NEW p \in Procs, Finish(p), NEW j \in Jobs,
           ActiveWorkers(alloc', j) # {}, NEW x \in Kept(j), Live(Load(rows), x)
    PROVE  Live(Load(rows'), x)
<1>1. /\ pc[p] = "hooks" /\ alloc' = alloc /\ (Writes(p) => CanWrite(p))
      /\ rows' = (IF Writes(p) THEN Leaves(p) ELSE rows)
  BY DEF Finish
<1>2. x \in Paths
  BY VarsArePaths DEF Kept
<1>3. CASE rows' = rows
  BY <1>3
<1>4. CASE rows' # rows
  <2>1. Writes(p) /\ rows' = Leaves(p) /\ (lock = p \/ fresh[p]) /\ InTx(p)
    BY <1>1, <1>4 DEF CanWrite, InTx
  <2>2. Live(store[p], x) /\ Live(Load(txRows[p]), x)
    BY <1>1, <2>1 DEF Sheltered, Shelter, Keeps
  <2>3. kind[p] \in AllKinds \ {"gc"}
    BY <1>1 DEF KVInv, Collecting, KVTypes
  <2>4. rows' = txRows[p] \/ rows' = txRows[p] \cup Inserted(store[p], today)
    BY <1>4, <2>1, <2>3 DEF Leaves, AllKinds
  <2>5. CASE rows' = txRows[p] \cup Inserted(store[p], today)
    <3>1. Table(txRows[p]) /\ Session(store[p], txRows[p]) /\ today \in Nat
          /\ store[p] \in [Paths -> Entry]
      BY <2>1 DEF KVInv, Sessions, KVTypes
    <3>2. Session(Clean(store[p]), rows')
      BY <2>5, <3>1, CheckpointSession
    <3>3. Live(Clean(store[p]), x) /\ ~Clean(store[p])[x].changed
      BY <1>2, <2>2, <3>1, CleanLive
    <3> QED
      BY <1>2, <3>2, <3>3 DEF Session, Live
  <2> QED
    BY <2>2, <2>4, <2>5
<1> QED
  BY <1>3, <1>4

(* No commit of a command takes what the commands of a job in use have stored. *)
LEMMA CommitSpares ==
    ASSUME KVInv, Sheltered, [Next]_vars, NEW j \in Jobs,
           ActiveWorkers(alloc', j) # {}, NEW x \in Kept(j), Live(Load(rows), x)
    PROVE  Live(Load(rows'), x)
<1>1. CASE rows' = rows
  BY <1>1
<1>2. ASSUME NEW q \in Procs, BuildCatalog(q) \/ Collect(q) PROVE Live(Load(rows'), x)
  <2>1. pc[q] = "catalog" /\ pc'[q] # "catalog"
    BY <1>2 DEF BuildCatalog, Collect, Quit, KVInv, KVTypes
  <2>2. Load(rows')[x] = Load(rows)[x]
    BY <2>1, CatalogSpares DEF Kept
  <2> QED
    BY <2>2 DEF Live
<1>3. ASSUME NEW q \in Procs, Finish(q) PROVE Live(Load(rows'), x)
  BY <1>3, FinishSpares
<1> QED
  BY <1>1, <1>2, <1>3, WhoCommits

(* A job that is in use loses nothing to the purges of build, deploy and gc. *)
THEOREM ActiveJobsKeepTheirVars == Spec => ActiveJobsKeepVars
<1>1. KVInv /\ Sheltered /\ [Next]_vars =>
         \A j \in Jobs : ActiveWorkers(alloc', j) # {} =>
            \A x \in {Vars(j), Secrets(j)} :
               /\ (\E p \in Procs : pc[p] = "catalog" /\ pc'[p] # "catalog") =>
                     (Live(Load(rows), x) => Load(rows')[x] = Load(rows)[x])
               /\ x \in Kept(j) /\ Live(Load(rows), x) => Live(Load(rows'), x)
  <2>1. ASSUME KVInv, Sheltered, [Next]_vars, NEW j \in Jobs, ActiveWorkers(alloc', j) # {},
               NEW x \in {Vars(j), Secrets(j)}
        PROVE  /\ (\E p \in Procs : pc[p] = "catalog" /\ pc'[p] # "catalog") =>
                     (Live(Load(rows), x) => Load(rows')[x] = Load(rows)[x])
               /\ x \in Kept(j) /\ Live(Load(rows), x) => Live(Load(rows'), x)
    BY <2>1, CatalogSpares, CommitSpares
  <2> QED
    BY <2>1
<1>2. KVInv /\ Sheltered /\ [Next]_vars =>
         [\A j \in Jobs : ActiveWorkers(alloc', j) # {} =>
            \A x \in {Vars(j), Secrets(j)} :
               /\ (\E p \in Procs : pc[p] = "catalog" /\ pc'[p] # "catalog") =>
                     (Live(Load(rows), x) => Load(rows)'[x] = Load(rows)[x])
               /\ x \in Kept(j) /\ Live(Load(rows), x) => Live(Load(rows)', x)]_rows
  BY <1>1 DEF Load, Of, Latest
<1> QED
  BY <1>2, KVInvariant, SessionsShelter, PTL DEF Spec, ActiveJobsKeepVars

(* The rows of a key with versions in an interval are no more than its numbers. *)
LEMMA FewVersions ==
    ASSUME NEW R, NEW x, OneRowPerVersion(R), NEW lo \in Int, NEW hi \in Int, lo <= hi,
           \A r \in Of(R, x) : r.version \in lo .. hi
    PROVE  IsFiniteSet(Of(R, x)) /\ Cardinality(Of(R, x)) <= hi - lo + 1
<1> DEFINE f == [r \in Of(R, x) |-> r.version]
<1>1. f \in Injection(Of(R, x), lo .. hi)
  BY DEF Injection, IsInjective, Of, OneRowPerVersion
<1>2. IsFiniteSet(lo .. hi) /\ Cardinality(lo .. hi) = hi - lo + 1
  BY FS_Interval
<1> QED
  BY <1>1, <1>2, FS_Injection DEF ExistsInjection

(* After gc a key that has not been written lately has at most Keep + 1 rows, if
   any (PurgeStaleVersions). *)
LEMMA CollectBounds ==
    ASSUME KVInv, NEW p \in Procs, Collect(p), NEW x \in Paths,
           \A r \in Of(rows, x) : r.day < today - RetainDays["gc"]
    PROVE  /\ Load(rows)[x].deleted => Of(rows', x) = {}
           /\ \/ Cardinality(Of(rows', x)) <= Keep + 1
              \/ \E r \in Of(rows', x) : r.day = today
<1> DEFINE s == PurgePaths(store[p], GCPaths(txAlloc[p]))
           k == RetainDays["gc"]
           I == rows \cup Inserted(s, today)
           T == PurgeStale(I, k, today)
<1>1. txRows[p] = rows /\ Session(store[p], rows) /\ Table(rows) /\ store[p] \in [Paths -> Entry]
  BY CatalogReads DEF Collect, Session
<1>2. rows' = T
  BY <1>1 DEF Collect, GCPaths
<1>3. k \in Nat /\ today \in Nat /\ Keep \in Nat
  BY SessionsAssumption, KVAssumption DEF KVInv, KVTypes
<1>4. Session(s, rows)
  BY <1>1, PurgeGrows, GrowsSession
<1> HIDE DEF s
<1>5. s \in [Paths -> Entry] /\ Newer(s, rows) /\ FitStore(s)
  BY <1>4 DEF Session
<1>6. /\ Table(I)
      /\ \A y \in Paths : s[y].changed => NewRow(s, today, y) \in I /\ IsLatest(I, NewRow(s, today, y))
      /\ \A y \in Paths : s[y].changed => Load(I)[y] = Marked(s[y])
      /\ \A y \in Paths : ~s[y].changed => Of(I, y) = Of(rows, y) /\ Load(I)[y] = Load(rows)[y]
  <2>1. Persisted(rows, s, today, I)
    BY <1>1, <1>3, <1>5, InsertTable
  <2> QED
    BY <2>1 DEF Persisted
<1> HIDE DEF I, k
<1>7. /\ Table(T) /\ T \subseteq I
      /\ \A r \in T : IsLatest(I, Latest(I, r.path)) /\ Latest(I, r.path) \in T
  BY <1>3, <1>6, PurgeTable
<1>10. Load(rows)[x].deleted => ~s[x].changed
  <2>1. store[p] = Load(rows) /\ ~Load(rows)[x].changed
    BY <1>1, CatalogReads, LoadType DEF Collect
  <2>2. Load(rows)[x].deleted => s[x] = store[p][x]
    BY <2>1 DEF s, PurgePaths, Live, IsLive
  <2> QED
    BY <2>1, <2>2
<1>8. CASE s[x].changed
  <2> DEFINE n == NewRow(s, today, x)
  <2>1. n \in I /\ IsLatest(I, n) /\ n.path = x /\ n.day = today
    BY <1>6, <1>8 DEF NewRow
  <2> HIDE DEF n
  <2>2. Latest(I, x) = n
    BY <1>6, <2>1, LoadOfLatest
  <2>3. ~(n.day < today - k)
    BY <1>3, <2>1
  <2>4. n \in T
    BY <2>1, <2>2, <2>3 DEF PurgeStale, Stale
  <2> QED
    BY <1>2, <1>8, <1>10, <2>1, <2>4 DEF Of
<1>9. CASE ~s[x].changed
  <2>1. CASE Of(T, x) = {}
    <3>1. Cardinality({}) = 0
      BY FS_EmptySet
    <3> QED
      BY <1>2, <1>3, <2>1, <3>1
  <2>2. CASE Of(T, x) # {}
    <3> DEFINE q == Latest(I, x)
    <3>1. IsLatest(I, q) /\ q \in T
      BY <1>7, <2>2 DEF Of
    <3>2. q \in I /\ q.path = x
      BY <1>6, <1>7, <2>2, LoadIs DEF Of
    <3>3. q.day < today - k
      BY <1>6, <1>9, <3>2 DEF Of, k
    <3>4. q.version \in Nat
      BY <1>6, <3>2 DEF Table, Row
    <3>7. ~Load(rows)[x].deleted
      <4>1. Load(I)[x] = EntryOf(q)
        BY <1>6, <3>1, <3>2, LoadOfLatest
      <4>2. ~q.deleted
        BY <3>1, <3>2, <3>3 DEF PurgeStale, Stale
      <4> QED
        BY <1>6, <1>9, <4>1, <4>2 DEF EntryOf
    <3> HIDE DEF q
    <3>5. \A r \in Of(T, x) : r.version \in (q.version - Keep) .. q.version
      <4> SUFFICES ASSUME NEW r \in Of(T, x)
                   PROVE  r.version \in (q.version - Keep) .. q.version
        OBVIOUS
      <4>1. r \in T /\ r \in I /\ r.path = x
        BY <1>7 DEF Of
      <4>2. r.version \in Nat
        BY <1>6, <4>1 DEF Table, Row
      <4>3. r.version <= q.version
        BY <3>1, <3>2, <4>1 DEF IsLatest
      <4>4. ~(r.version < q.version - Keep)
        BY <3>3, <4>1 DEF PurgeStale, Stale, q
      <4> QED
        BY <1>3, <3>4, <4>2, <4>3, <4>4
    <3>6. Cardinality(Of(T, x)) <= q.version - (q.version - Keep) + 1
      BY <1>3, <1>7, <3>4, <3>5, FewVersions DEF Table
    <3> QED
      BY <1>2, <1>3, <3>4, <3>6, <3>7
  <2> QED
    BY <2>1, <2>2
<1> QED
  BY <1>8, <1>9

(* gc bounds the history of every key that is not being written. *)
THEOREM HistoryIsBounded == Spec => HistoryBounded
<1>1. KVInv =>
         \A p \in Procs : Collect(p) =>
            \A x \in Paths :
               (\A r \in Of(rows, x) : r.day < today - RetainDays["gc"]) =>
                  /\ Load(rows)[x].deleted => Of(rows', x) = {}
                  /\ \/ Cardinality(Of(rows', x)) <= Keep + 1
                     \/ \E r \in Of(rows', x) : r.day = today
  BY CollectBounds
<1> QED
  BY <1>1, KVInvariant, PTL DEF HistoryBounded
=============================================================================
