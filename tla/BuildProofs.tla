----------------------------- MODULE BuildProofs -----------------------------
(* Proofs about Build: what successive builds, deploys and collections leave   *)
(* in the store of the allocations, their certificates above all, that a build *)
(* accepts no workspace whose demands or resources do not work out, what       *)
(* Prometheus is rendered of, and that a build of the same again is no change. *)
EXTENDS Build, WellFoundedInduction, FiniteSetTheorems, TLAPS

-----------------------------------------------------------------------------
(* The store, entry by entry. *)

IsEntry(e) ==
    e \in [value : {e.value}, version : Nat, deleted : BOOLEAN, changed : BOOLEAN]

IsStore(s) == \A p \in Paths : IsEntry(s[p])

(* putValue leaves a live entry of the value it was given. *)
LEMMA PutLives ==
    ASSUME NEW e, IsEntry(e), NEW x
    PROVE  IsEntry(PutValue(e, x)) /\ IsLive(PutValue(e, x)) /\ PutValue(e, x).value = x
  <1>1. e.version \in Nat
    BY DEF IsEntry
  <1>2. CASE IsLive(e) /\ e.value = x
    BY <1>2 DEF PutValue
  <1>3. CASE ~(IsLive(e) /\ e.value = x)
    <2>1. PutValue(e, x) = [value |-> x, version |-> e.version + 1, deleted |-> FALSE, changed |-> TRUE]
      BY <1>3 DEF PutValue, PutChanged
    <2>2. e.version + 1 \in Nat /\ e.version + 1 > 0
      BY <1>1
    <2> QED BY <2>1, <2>2 DEF IsEntry, IsLive
  <1> QED BY <1>2, <1>3

(* A deleted entry is not live. *)
LEMMA DeletedIsDead ==
    ASSUME NEW e, IsEntry(e)
    PROVE  IsEntry(DeleteEntry(e)) /\ ~IsLive(DeleteEntry(e))
  <1> DEFINE f == DeleteEntry(e)
  <1>1. PICK V : V = {e.value} /\ e \in [value : V, version : Nat, deleted : BOOLEAN, changed : BOOLEAN]
    BY DEF IsEntry
  <1>2. PICK n \in Nat : n = e.version + 1
    BY <1>1
  <1>3. f = [e EXCEPT !.deleted = TRUE, !.changed = TRUE, !.version = n]
    BY <1>2 DEF DeleteEntry
  <1> HIDE DEF f
  <1>4. e \in [value : V, version : Nat, deleted : BOOLEAN, changed : BOOLEAN]
    BY <1>1
  <1>5. /\ f \in [value : V, version : Nat, deleted : BOOLEAN, changed : BOOLEAN]
        /\ f.deleted = TRUE /\ f.value = e.value
    BY <1>3, <1>4
  <1> QED BY <1>1, <1>5 DEF IsEntry, IsLive, f

(* syncNamespaceKeyValues: what is put is live and as put, what the namespace gives
   up is not, and the rest stays. *)
LEMMA SyncEffect ==
    ASSUME NEW s, IsStore(s), NEW new, NEW scope, NEW p \in Paths
    PROVE  LET t == Sync(s, new, scope)
           IN  /\ IsEntry(t[p])
               /\ p \in DOMAIN new => Live(t, p) /\ t[p].value = Plain(new[p])
               /\ p \notin DOMAIN new /\ p \in scope => ~Live(t, p)
               /\ p \notin DOMAIN new /\ p \notin scope => t[p] = s[p]
               /\ p \notin DOMAIN new /\ Live(t, p) => t[p] = s[p] /\ Live(s, p)
  <1> DEFINE t == Sync(s, new, scope)
             e == s[p]
  <1>1. IsEntry(e)
    BY DEF IsStore
  <1>2. t[p] = IF p \in DOMAIN new THEN PutValue(e, Plain(new[p]))
               ELSE IF p \in scope /\ IsLive(e) THEN DeleteEntry(e) ELSE e
    BY DEF Sync
  <1> HIDE DEF t, e
  <1>3. CASE p \in DOMAIN new
    BY <1>1, <1>2, <1>3, PutLives DEF Live, t
  <1>4. CASE p \notin DOMAIN new
    <2>1. CASE p \in scope /\ IsLive(e)
      BY <1>1, <1>2, <1>4, <2>1, DeletedIsDead DEF Live, t
    <2>2. CASE ~(p \in scope /\ IsLive(e))
      BY <1>1, <1>2, <1>4, <2>2 DEF Live, t, e
    <2> QED BY <2>1, <2>2
  <1> QED BY <1>3, <1>4

(* PersistToTransaction changes no value and no version. *)
LEMMA CleanEffect ==
    ASSUME NEW s, IsStore(s), NEW p \in Paths
    PROVE  LET t == Clean(s)
           IN  /\ IsEntry(t[p]) /\ t[p].value = s[p].value /\ t[p].version = s[p].version
               /\ Live(t, p) <=> Live(s, p)
  <1> DEFINE e == s[p]
  <1>1. IsEntry(e)
    BY DEF IsStore
  <1>2. Clean(s)[p] = IF e.changed THEN [e EXCEPT !.changed = FALSE] ELSE e
    BY DEF Clean
  <1> HIDE DEF e
  <1>3. PICK V : V = {e.value} /\ e \in [value : V, version : Nat, deleted : BOOLEAN, changed : BOOLEAN]
    BY <1>1 DEF IsEntry
  <1>4. ASSUME e.changed
        PROVE  LET f == [e EXCEPT !.changed = FALSE]
               IN  IsEntry(f) /\ f.value = e.value /\ f.version = e.version /\ f.deleted = e.deleted
    <2> DEFINE f == [e EXCEPT !.changed = FALSE]
    <2>1. /\ f \in [value : V, version : Nat, deleted : BOOLEAN, changed : BOOLEAN]
          /\ f.value = e.value /\ f.version = e.version /\ f.deleted = e.deleted
      BY <1>3
    <2> QED BY <1>3, <2>1 DEF IsEntry
  <1> QED BY <1>1, <1>2, <1>4 DEF IsLive, Live, e

(* PurgeNamespace: what is purged is not live, and the rest stays. *)
LEMMA PurgeEffect ==
    ASSUME NEW s, IsStore(s), NEW P, NEW p \in Paths
    PROVE  LET t == PurgePaths(s, P)
           IN  /\ IsEntry(t[p])
               /\ p \in P => ~Live(t, p)
               /\ p \notin P => t[p] = s[p]
               /\ Live(t, p) => t[p] = s[p]
  <1> DEFINE t == PurgePaths(s, P)
             e == s[p]
  <1>1. IsEntry(e)
    BY DEF IsStore
  <1>2. t[p] = IF p \in P /\ IsLive(e) THEN DeleteEntry(e) ELSE e
    BY DEF PurgePaths, Live
  <1> HIDE DEF t, e
  <1>3. CASE p \in P /\ IsLive(e)
    BY <1>1, <1>2, <1>3, DeletedIsDead DEF Live, t
  <1>4. CASE ~(p \in P /\ IsLive(e))
    BY <1>1, <1>2, <1>4 DEF Live, t, e
  <1> QED BY <1>3, <1>4

-----------------------------------------------------------------------------
(* Paths: who owns which. *)

(* A key of an allocation names its job and its worker, and certificates have a
   place of their own among them. *)
LEMMA AllocPaths ==
    /\ \A j, h : \A p \in AllocNS(j, h) : p[1] = "alloc" /\ p[2] = j /\ p[3] = h
    /\ \A j, h : \A p \in CertNS(j, h) : p \in AllocNS(j, h) /\ p[4] = "certs/" /\ p[5] \in CertNames
    /\ \A j, h : \A p \in AllocNS(j, h) \ CertNS(j, h) : p[4] \in {"version", "peer_workers"}
    /\ \A s \in Slots : AllocNS(s[1], s[2]) \subseteq Paths
  <1>1. \A s \in Slots : AllocNS(s[1], s[2]) \subseteq Paths
    BY BuildAssumption DEF PathsOfBuild
  <1> QED BY <1>1 DEF AllocNS, CertNS

(* No key of an allocation is in another namespace. *)
LEMMA OtherPaths ==
    /\ \A j : \A p \in JobNS(j) \cup ConfNS(j) \cup VarsNS(j) \cup SecretsNS(j) : p[1] # "alloc"
    /\ \A h : \A p \in WorkerNS(h) \cup TagsNS(h) : p[1] # "alloc"
    /\ \A p \in SharedNS \cup BucketNS \cup PrometheusNS : p[1] # "alloc"
  BY DEF JobNS, ConfNS, VarsNS, SecretsNS, WorkerNS, TagsNS, SharedNS, BucketNS, PrometheusNS,
         NameKey, ScrapeKey, ScrapeJobs

(* BuildVariables puts no key of an allocation. *)
LEMMA VariablesPutNone ==
    ASSUME NEW w, NEW a
    PROVE  \A p \in DOMAIN Together({WorkerVars(w, a), TagVars(w), JobVars(w, a), ConfVars(w, a),
                                     FileVars(w, a), SharedVars(w), BucketVars(w, a)}) :
               p[1] # "alloc"
  <1>1. \A p \in DOMAIN WorkerVars(w, a) \cup DOMAIN TagVars(w) : p[1] # "alloc"
    BY OtherPaths DEF WorkerVars, TagVars
  <1>2. \A p \in DOMAIN JobVars(w, a) \cup DOMAIN ConfVars(w, a) \cup DOMAIN FileVars(w, a) :
            p[1] # "alloc"
    <2>1. \A p \in DOMAIN JobVars(w, a) : p[1] # "alloc"
      BY OtherPaths DEF JobVars
    <2>2. \A p \in DOMAIN ConfVars(w, a) : p[1] # "alloc"
      BY OtherPaths DEF ConfVars
    <2>3. \A p \in DOMAIN FileVars(w, a) : p[1] # "alloc"
      BY OtherPaths DEF FileVars
    <2> QED BY <2>1, <2>2, <2>3
  <1>3. \A p \in DOMAIN SharedVars(w) \cup DOMAIN BucketVars(w, a) : p[1] # "alloc"
    BY OtherPaths DEF SharedVars, BucketVars
  <1> QED BY <1>1, <1>2, <1>3 DEF Together

(* Nor does promconfig.BuildCatalog. *)
LEMMA ScrapesPutNone ==
    ASSUME NEW m, NEW active
    PROVE  \A p \in DOMAIN ScrapeNames(m) \cup DOMAIN CatalogVars(m, active) : p[1] # "alloc"
  BY DEF ScrapeNames, CatalogVars, NameKey, ScrapeKey, ScrapeJobs

(* The store a build of w leaves (Execute, up to the commit). *)
Built(w, a) == Clean(WithScrapes(w, a, WithAllocations(w, a, WithCerts(w, a, WithVariables(w, a)))))

CertScopes(w, a) == UNION {CertScope(w, a, j) : j \in Jobs}

(* The keys of allocations pass BuildVariables, where they may be deleted, BuildCerts
   and BuildJobAllocationVariables, and nothing after that. *)
LEMMA BuiltAlloc ==
    ASSUME IsStore(kv), NEW w, NEW a
    PROVE  LET t == Built(w, a)
               s1 == WithVariables(w, a)
               c == CertVars(w, a, s1)
           IN  /\ IsStore(t)
               /\ \A p \in Paths : p[1] = "alloc" =>
                     /\ Live(s1, p) => Live(kv, p) /\ s1[p] = kv[p]
                     /\ p \in DOMAIN c /\ p \notin DOMAIN AllocVars(w, a) /\ p \notin AllocScope(w, a) =>
                           Live(t, p) /\ t[p].value = Plain(c[p])
                     /\ Live(t, p) => \/ p \in DOMAIN AllocVars(w, a)
                                      \/ /\ p \notin AllocScope(w, a)
                                         /\ \/ p \in DOMAIN c
                                            \/ p \notin CertScopes(w, a) /\ Live(kv, p)
  <1> DEFINE s1 == WithVariables(w, a)
             c  == CertVars(w, a, s1)
             s2 == WithCerts(w, a, s1)
             s3 == WithAllocations(w, a, s2)
             m  == Monitoring(w)
             s4 == Sync(s3, ScrapeNames(m), {})
             s5 == WithScrapes(w, a, s3)
             t  == Clean(s5)
  <1>1. IsStore(s1)
    BY SyncEffect DEF IsStore, WithVariables
  <1>2. ASSUME NEW p \in Paths, p[1] = "alloc", Live(s1, p)
        PROVE  Live(kv, p) /\ s1[p] = kv[p]
    BY <1>2, SyncEffect, VariablesPutNone DEF WithVariables
  <1> HIDE DEF s1, c
  <1>3. s2 = Sync(s1, c, CertScopes(w, a))
    BY DEF WithCerts, CertScopes, c
  <1> HIDE DEF s2
  <1>4. IsStore(s2)
    BY <1>1, <1>3, SyncEffect DEF IsStore
  <1>5. s3 = Sync(s2, AllocVars(w, a), AllocScope(w, a))
    BY DEF WithAllocations
  <1> HIDE DEF s3, m
  <1>6. IsStore(s3)
    BY <1>4, <1>5, SyncEffect DEF IsStore
  <1>7. IsStore(s4)
    BY <1>6, SyncEffect DEF IsStore
  <1>8. s5 = Sync(s4, CatalogVars(m, ActiveOf(a)), PrometheusNS)
    BY DEF WithScrapes, WithPrometheus, m
  <1>9. ASSUME NEW p \in Paths, p[1] = "alloc"
        PROVE  s5[p] = s3[p]
    <2>1. s4[p] = s3[p]
      BY <1>6, <1>9, ScrapesPutNone, SyncEffect
    <2>2. p \notin PrometheusNS /\ p \notin DOMAIN CatalogVars(m, ActiveOf(a))
      BY <1>9, ScrapesPutNone, OtherPaths
    <2> HIDE DEF s4, s5
    <2>3. s5[p] = s4[p]
      BY <1>7, <1>8, <2>2, SyncEffect
    <2> QED BY <2>1, <2>3
  <1> HIDE DEF s4
  <1>10. IsStore(s5)
    <2> HIDE DEF s5
    <2> QED BY <1>7, <1>8, SyncEffect DEF IsStore
  <1> HIDE DEF s5
  <1>11. IsStore(t)
    BY <1>10, CleanEffect DEF IsStore
  <1>12. ASSUME NEW p \in Paths, p[1] = "alloc"
         PROVE  (Live(t, p) <=> Live(s3, p)) /\ t[p].value = s3[p].value
    BY <1>9, <1>10, <1>12, CleanEffect DEF Live
  <1> HIDE DEF t
  <1>13. ASSUME NEW p \in Paths, p[1] = "alloc", p \in DOMAIN c,
                p \notin DOMAIN AllocVars(w, a), p \notin AllocScope(w, a)
         PROVE  Live(t, p) /\ t[p].value = Plain(c[p])
    <2>1. Live(s2, p) /\ s2[p].value = Plain(c[p])
      BY <1>1, <1>3, <1>13, SyncEffect
    <2>2. s3[p] = s2[p]
      BY <1>4, <1>5, <1>13, SyncEffect
    <2> QED BY <1>12, <1>13, <2>1, <2>2 DEF Live
  <1>14. ASSUME NEW p \in Paths, p[1] = "alloc", Live(t, p), p \notin DOMAIN AllocVars(w, a)
         PROVE  /\ p \notin AllocScope(w, a)
                /\ \/ p \in DOMAIN c
                   \/ p \notin CertScopes(w, a) /\ Live(kv, p)
    <2>1. Live(s3, p)
      BY <1>12, <1>14
    <2>2. p \notin AllocScope(w, a) /\ Live(s2, p)
      BY <1>4, <1>5, <1>14, <2>1, SyncEffect
    <2>3. p \in DOMAIN c \/ (p \notin CertScopes(w, a) /\ Live(s1, p))
      BY <1>1, <1>3, <2>2, SyncEffect
    <2> QED BY <1>2, <1>14, <2>2, <2>3
  <1> QED BY <1>2, <1>11, <1>13, <1>14 DEF t, s5, s4, s3, s2, c, s1, m, Built

-----------------------------------------------------------------------------
(* The invariant. *)

Placement == {"none", "active", "disabled", "removed"}

InUse(a, s) == a[s] \in {"active", "disabled"}

IsHash(h) == h = [current |-> h.current, previous |-> h.previous]

BuildTypes ==
    /\ catalog \in Workspaces \cup {NoCatalog}
    /\ alloc \in [Slots -> Placement]
    /\ IsStore(kv)
    /\ certHash = [j \in Jobs |-> certHash[j]] /\ \A j \in Jobs : IsHash(certHash[j])
    /\ IsHash(caHash)
    /\ today \in Nat

(* What is in use is an allocation of a job of the last build. *)
RowsInv == \A s \in Slots : InUse(alloc, s) => s[1] \in JobsOf(catalog)

(* The promoted hashes are those of the certificates in use, and each of these is
   what its manifest asked for when it was built. *)
CertsInv ==
    \A j \in JobsOf(catalog) : \A h \in NonRemoved(alloc, j) :
        /\ certHash[j].previous = {catalog.jobs[j].certs}
        /\ \A spec \in CertSpecs(catalog, j) :
              LET p == CertPath(j, h, spec)
                  c == kv[p].value.text
              IN  /\ Live(kv, p)
                  /\ caHash.previous = {c.ca} /\ h \in c.hosts /\ c.subject = spec.subject
                  /\ spec.one => \A i \in NonRemoved(alloc, j) :
                        kv[CertPath(j, i, spec)].value = kv[p].value

BuildInv == BuildTypes /\ RowsInv /\ NothingLeftBehind /\ CertsInv

-----------------------------------------------------------------------------
(* What the stages of a build do to the keys of an allocation. *)

(* BuildAllocations: what is in use has a job in the workspace, and a row that is
   there is never lost. *)
LEMMA PlacedRows ==
    ASSUME NEW w, alloc \in [Slots -> Placement]
    PROVE  /\ Placed(w) \in [Slots -> Placement]
           /\ \A s \in Slots : /\ InUse(Placed(w), s) => s[1] \in JobsOf(w)
                               /\ Placed(w)[s] = "none" => alloc[s] = "none"
  <1>1. \A s \in Slots : Placed(w)[s] =
            IF IsPlaced(w, s) THEN (IF IsDisabled(w, s[1], s[2]) THEN "disabled" ELSE "active")
            ELSE IF alloc[s] = "none" THEN "none" ELSE "removed"
    BY DEF Placed
  <1>2. \A s \in Slots : Placed(w)[s] \in Placement
    BY <1>1 DEF Placement
  <1>3. \A s \in Slots : InUse(Placed(w), s) => s[1] \in JobsOf(w)
    BY <1>1 DEF InUse, IsPlaced
  <1>4. \A s \in Slots : Placed(w)[s] = "none" => alloc[s] = "none"
    BY <1>1
  <1> QED BY <1>2, <1>3, <1>4 DEF Placed

(* The allocations in use, by job. *)
LEMMA InUseIs ==
    ASSUME NEW a, NEW j, NEW h
    PROVE  /\ h \in NonRemoved(a, j) <=> h \in Workers /\ InUse(a, <<j, h>>)
           /\ h \in Allocated(a, j) <=> h \in Workers /\ a[<<j, h>>] # "none"
           /\ h \in NonRemoved(a, j) => h \in Allocated(a, j)
  BY DEF NonRemoved, InUse, Allocated

(* A slot is its job and its worker. *)
LEMMA SlotIs ==
    ASSUME NEW s \in Slots
    PROVE  s = <<s[1], s[2]>> /\ s[1] \in Jobs /\ s[2] \in Workers
  BY DEF Slots

(* The certificates of a job have names of the manifest, each its own. *)
LEMMA SpecsOf ==
    ASSUME NEW w \in Workspaces \cup {NoCatalog}, NEW j
    PROVE  \A c \in CertSpecs(w, j) :
               c.name \in CertNames /\ \A d \in CertSpecs(w, j) : c.name = d.name => c = d
  <1>1. CASE w \in Workspaces /\ j \in JobsOf(w)
    <2>1. /\ w.jobs[j] \in Manifest
          /\ \A c, d \in w.jobs[j].certs : c.name = d.name => c = d
      BY <1>1, BuildAssumption DEF JobsOf
    <2>2. w.jobs[j].certs \subseteq CertSpec
      BY <2>1 DEF Manifest
    <2> QED BY <1>1, <2>1, <2>2 DEF CertSpecs, CertSpec
  <1>2. CASE j \notin JobsOf(w)
    BY <1>2 DEF CertSpecs
  <1>3. CASE w = NoCatalog
    <2>1. JobsOf(w) = {}
      BY <1>3 DEF JobsOf, NoCatalog
    <2> QED BY <2>1, <1>2
  <1> QED BY <1>1, <1>2, <1>3

(* buildSharedCertPEM, buildWorkerCertPEM: one certificate per worker in use and
   name in the manifest. *)
LEMMA CertsPut ==
    ASSUME NEW w \in Workspaces, NEW a, NEW st
    PROVE  /\ \A s \in Slots : \A p \in AllocNS(s[1], s[2]) :
                  p \in DOMAIN CertVars(w, a, st) =>
                     /\ s[2] \in NonRemoved(a, s[1])
                     /\ \E spec \in CertSpecs(w, s[1]) : p = CertPath(s[1], s[2], spec)
           /\ \A j \in Jobs : \A h \in NonRemoved(a, j), spec \in CertSpecs(w, j) :
                  LET p == CertPath(j, h, spec)
                  IN  /\ p \in CertNS(j, h) /\ p \in Paths
                      /\ p \in DOMAIN CertVars(w, a, st)
                      /\ CertVars(w, a, st)[p] = CertOf(w, a, st, j, h, spec)
  <1> DEFINE D == UNION {{CertPath(t[1], t[2], spec) : spec \in CertSpecs(w, t[1])}
                         : t \in {u \in Slots : u[2] \in NonRemoved(a, u[1])}}
  <1>1. /\ DOMAIN CertVars(w, a, st) = D
        /\ \A p \in D : CertVars(w, a, st)[p] =
              CertOf(w, a, st, p[2], p[3], CHOOSE spec \in CertSpecs(w, p[2]) : spec.name = p[5])
    BY DEF CertVars
  <1>2. \A j, h, spec : LET p == CertPath(j, h, spec)
                        IN  p[2] = j /\ p[3] = h /\ p[5] = spec.name
    BY DEF CertPath
  <1>3. ASSUME NEW s \in Slots, NEW p \in AllocNS(s[1], s[2]), p \in D
        PROVE  /\ s[2] \in NonRemoved(a, s[1])
               /\ \E spec \in CertSpecs(w, s[1]) : p = CertPath(s[1], s[2], spec)
    <2>1. PICK t \in Slots : /\ t[2] \in NonRemoved(a, t[1])
                             /\ \E spec \in CertSpecs(w, t[1]) : p = CertPath(t[1], t[2], spec)
      BY <1>3
    <2>2. t[1] = s[1] /\ t[2] = s[2]
      BY <1>2, <2>1, AllocPaths
    <2> QED BY <2>1, <2>2
  <1>4. ASSUME NEW j \in Jobs, NEW h \in NonRemoved(a, j), NEW spec \in CertSpecs(w, j)
        PROVE  LET p == CertPath(j, h, spec)
               IN  /\ p \in CertNS(j, h) /\ p \in Paths /\ p \in D
                   /\ CertOf(w, a, st, p[2], p[3], CHOOSE c \in CertSpecs(w, p[2]) : c.name = p[5])
                         = CertOf(w, a, st, j, h, spec)
    <2> DEFINE p == CertPath(j, h, spec)
               s == <<j, h>>
    <2>1. s \in Slots /\ s[1] = j /\ s[2] = h
      BY InUseIs DEF Slots
    <2>2. p \in CertNS(j, h)
      BY SpecsOf DEF CertPath, CertNS
    <2>3. p \in Paths
      BY <2>1, <2>2, AllocPaths
    <2>4. p \in D
      BY <2>1
    <2>5. (CHOOSE c \in CertSpecs(w, j) : c.name = spec.name) = spec
      BY SpecsOf
    <2>6. p[2] = j /\ p[3] = h /\ p[5] = spec.name
      BY <1>2
    <2> HIDE DEF p, s, D
    <2> QED BY <2>2, <2>3, <2>4, <2>5, <2>6 DEF p
  <1> QED BY <1>1, <1>3, <1>4

(* BuildJobAllocationVariables puts no key of an allocation that is not in use, and
   no certificate. *)
LEMMA AllocPuts ==
    ASSUME NEW w, NEW a, NEW s \in Slots, NEW p \in AllocNS(s[1], s[2]), p \in DOMAIN AllocVars(w, a)
    PROVE  InUse(a, s) /\ p \notin CertNS(s[1], s[2])
  <1>1. PICK t \in Slots : t[2] \in NonRemoved(a, t[1]) /\ p = <<"alloc", t[1], t[2], "peer_workers">>
    BY DEF AllocVars
  <1>2. p[2] = t[1] /\ p[3] = t[2] /\ p[4] = "peer_workers"
    BY <1>1
  <1>3. t[1] = s[1] /\ t[2] = s[2] /\ p \notin CertNS(s[1], s[2])
    BY <1>2, AllocPaths
  <1> QED BY <1>1, <1>3, InUseIs, SlotIs

(* syncAllocationKeyValues clears the whole namespace of an allocation that left,
   and spares the certificates of one in use. *)
LEMMA AllocClears ==
    ASSUME NEW w, NEW a, NEW s \in Slots, NEW p \in AllocNS(s[1], s[2])
    PROVE  /\ a[s] = "removed" /\ s[1] \in JobsOf(w) \cup RemovedJobs(w) => p \in AllocScope(w, a)
           /\ InUse(a, s) /\ p \in CertNS(s[1], s[2]) => p \notin AllocScope(w, a)
  <1>1. ASSUME a[s] = "removed", s[1] \in JobsOf(w) \cup RemovedJobs(w)
        PROVE  p \in AllocScope(w, a)
    BY <1>1 DEF AllocScope
  <1>2. ASSUME InUse(a, s), p \in CertNS(s[1], s[2]), p \in AllocScope(w, a)
        PROVE  FALSE
    <2>1. CASE p \in AllocScopeInUse(w, a)
      <3>1. PICK t \in Slots : p \in AllocNS(t[1], t[2]) \ CertNS(t[1], t[2])
        BY <2>1 DEF AllocScopeInUse
      <3>2. p[4] # "certs/"
        BY <3>1, AllocPaths
      <3> QED BY <1>2, <3>2, AllocPaths
    <2>2. CASE p \notin AllocScopeInUse(w, a)
      <3>1. PICK t \in Slots : p \in AllocNS(t[1], t[2]) /\ a[t] = "removed"
        BY <1>2, <2>2 DEF AllocScope
      <3>2. t[1] = s[1] /\ t[2] = s[2]
        BY <3>1, AllocPaths
      <3>3. t = s
        BY <3>2, SlotIs
      <3> QED BY <1>2, <3>1, <3>3 DEF InUse
    <2> QED BY <2>1, <2>2
  <1> QED BY <1>1, <1>2

(* syncCertKeyValues and purgeJobAllocationCertKV own the certificates of every
   allocation in use. *)
LEMMA CertsOwned ==
    ASSUME NEW w, NEW a, NEW s \in Slots, InUse(a, s)
    PROVE  CertNS(s[1], s[2]) \subseteq CertScopes(w, a)
  <1>1. s[1] \in Jobs /\ s[2] \in NonRemoved(a, s[1]) /\ s[2] \in Allocated(a, s[1])
    BY SlotIs, InUseIs
  <1>2. CertNS(s[1], s[2]) \subseteq CertScope(w, a, s[1])
    BY <1>1 DEF CertScope
  <1> QED BY <1>1, <1>2 DEF CertScopes

-----------------------------------------------------------------------------
(* A build that is accepted. *)

(* Whatever the build cleared, what an allocation keeps is of one in use and of its
   manifest. *)
LEMMA BuildLeavesNothing ==
    ASSUME BuildTypes, RowsInv, NothingLeftBehind, NEW w \in Workspaces,
           NEW s \in Slots, NEW p \in AllocNS(s[1], s[2]), Live(Built(w, Placed(w)), p)
    PROVE  /\ InUse(Placed(w), s)
           /\ p \in CertNS(s[1], s[2]) => \E spec \in CertSpecs(w, s[1]) : spec.name = p[5]
  <1> DEFINE a  == Placed(w)
             s1 == WithVariables(w, a)
             c  == CertVars(w, a, s1)
             t  == Built(w, a)
  <1>1. p \in Paths /\ p[1] = "alloc"
    BY AllocPaths
  <1>2. IsStore(kv) /\ alloc \in [Slots -> Placement]
    BY DEF BuildTypes
  <1>3. Live(t, p) => \/ p \in DOMAIN AllocVars(w, a)
                      \/ /\ p \notin AllocScope(w, a)
                         /\ \/ p \in DOMAIN c
                            \/ p \notin CertScopes(w, a) /\ Live(kv, p)
    BY <1>1, <1>2, BuiltAlloc
  <1>4. p \in DOMAIN c => /\ InUse(a, s)
                          /\ \E spec \in CertSpecs(w, s[1]) : p = CertPath(s[1], s[2], spec)
    BY CertsPut, InUseIs, SlotIs
  <1> HIDE DEF s1, c
  <1>5. Live(kv, p) => s[1] \in JobsOf(w) \cup RemovedJobs(w) /\ a[s] # "none"
    <2>1. Live(kv, p) => InUse(alloc, s)
      BY DEF NothingLeftBehind, InUse
    <2>2. InUse(alloc, s) => s[1] \in JobsOf(catalog)
      BY DEF RowsInv
    <2>3. a[s] = "none" => alloc[s] = "none"
      BY <1>2, PlacedRows
    <2> QED BY <2>1, <2>2, <2>3 DEF RemovedJobs, InUse
  <1>6. a[s] \in Placement
    BY <1>2, PlacedRows
  <1> HIDE DEF a, t
  <1>7. InUse(a, s)
    <2> SUFFICES ASSUME ~InUse(a, s) PROVE FALSE
      OBVIOUS
    <2>1. p \notin DOMAIN AllocVars(w, a) /\ p \notin DOMAIN c
      BY <1>4, AllocPuts
    <2>2. Live(kv, p) /\ p \notin AllocScope(w, a)
      BY <1>3, <2>1 DEF a, t
    <2>3. a[s] = "removed"
      BY <1>5, <1>6, <2>2 DEF Placement, InUse
    <2> QED BY <1>5, <2>2, <2>3, AllocClears
  <1>8. ASSUME p \in CertNS(s[1], s[2])
        PROVE  \E spec \in CertSpecs(w, s[1]) : spec.name = p[5]
    <2>1. p \notin DOMAIN AllocVars(w, a) /\ p \in CertScopes(w, a)
      BY <1>7, <1>8, AllocPuts, CertsOwned
    <2>2. p \in DOMAIN c
      BY <1>3, <2>1 DEF a, t
    <2>3. PICK spec \in CertSpecs(w, s[1]) : p = CertPath(s[1], s[2], spec)
      BY <1>4, <2>2
    <2> QED BY <2>3 DEF CertPath
  <1> QED BY <1>7, <1>8 DEF a

(* CalculateHash and UpdateHash: a hash that did not change is the promoted one. *)
LEMMA HashIs ==
    ASSUME NEW h, IsHash(h), NEW x
    PROVE  /\ ~HashChanged(UpdateHash(h, x)) => h.previous = {x}
           /\ IsHash(UpdateHash(h, x)) /\ IsHash(PromoteHash(UpdateHash(h, x)))
           /\ PromoteHash(UpdateHash(h, x)).previous = {x}
  <1>1. UpdateHash(h, x) = [current |-> {x}, previous |-> h.previous]
    BY DEF UpdateHash, IsHash
  <1>2. PromoteHash(UpdateHash(h, x)) = [current |-> {x}, previous |-> {x}]
    BY <1>1 DEF PromoteHash
  <1> QED BY <1>1, <1>2 DEF HashChanged, IsHash

(* NeedsRenewal of a certificate of today *)
LEMMA FreshIsNotDue ==
    ASSUME today \in Nat, NEW x, NEW H
    PROVE  /\ Certificate(x, H).ca = ca /\ Certificate(x, H).subject = x /\ Certificate(x, H).hosts = H
           /\ Buffer < TTL => ~NeedsRenewal(Certificate(x, H))
  <1>1. /\ Certificate(x, H).ca = ca /\ Certificate(x, H).subject = x /\ Certificate(x, H).hosts = H
        /\ Certificate(x, H).until = today + TTL
    BY DEF Certificate
  <1>2. TTL \in Nat \ {0} /\ Buffer \in Nat
    BY BuildAssumption
  <1> HIDE DEF Certificate
  <1>3. Buffer < TTL => ~(today >= today + TTL) /\ ~(today >= today + TTL - Buffer)
    BY <1>2
  <1> QED BY <1>1, <1>2, <1>3 DEF NeedsRenewal

(* certNeedsRegeneration: certificates are kept only if the last build made every one
   of them, with this CA and for this manifest. *)
LEMMA KeptCertificates ==
    ASSUME BuildInv, NEW w \in Workspaces, NEW j \in JobsOf(w), NEW a, NEW spec \in CertSpecs(w, j),
           j \in Jobs, NonRemoved(a, j) # {},
           ~Regenerate(w, a, WithVariables(w, a), j, spec)
    PROVE  \A h \in NonRemoved(a, j) :
              LET p == CertPath(j, h, spec)
                  x == kv[p].value.text
              IN  /\ WithVariables(w, a)[p] = kv[p]
                  /\ x.ca = ca /\ h \in x.hosts /\ x.subject = spec.subject /\ ~NeedsRenewal(x)
                  /\ spec.one => \A i \in NonRemoved(a, j) : kv[CertPath(j, i, spec)].value = kv[p].value
  <1> DEFINE s1 == WithVariables(w, a)
             P(h) == CertPath(j, h, spec)
  <1>1. ~HashChanged(CAHash) /\ ~HashChanged(CertHashes(w)[j])
    BY DEF Regenerate
  <1>2. \A h \in NonRemoved(a, j) : Live(s1, P(h)) /\ ~NeedsRenewal(s1[P(h)].value.text)
    BY DEF Regenerate, WorkerNeeds
  <1>3. caHash.previous = {ca}
    BY <1>1, HashIs DEF CAHash, BuildInv, BuildTypes
  <1>4. certHash[j].previous = {w.jobs[j].certs}
    <2>1. CertHashes(w)[j] = UpdateHash(certHash[j], w.jobs[j].certs)
      BY DEF CertHashes
    <2>2. IsHash(certHash[j])
      BY DEF BuildInv, BuildTypes
    <2> QED BY <1>1, <2>1, <2>2, HashIs
  <1>5. \A h \in NonRemoved(a, j) : P(h) \in CertNS(j, h) /\ P(h) \in Paths /\ P(h)[1] = "alloc"
    BY CertsPut, AllocPaths
  <1>6. \A h \in NonRemoved(a, j) : Live(kv, P(h)) /\ s1[P(h)] = kv[P(h)]
    <2>1. IsStore(kv)
      BY DEF BuildInv, BuildTypes
    <2> HIDE DEF P
    <2> QED BY <1>2, <1>5, <2>1, BuiltAlloc
  <1> HIDE DEF s1, P
  <1>7. \A h \in NonRemoved(a, j) : h \in NonRemoved(alloc, j) /\ j \in JobsOf(catalog)
    <2> TAKE h \in NonRemoved(a, j)
    <2> DEFINE s == <<j, h>>
    <2>1. s \in Slots /\ s[1] = j /\ s[2] = h /\ h \in Workers
      BY InUseIs DEF Slots
    <2> HIDE DEF s
    <2>2. P(h) \in AllocNS(s[1], s[2]) /\ Live(kv, P(h))
      BY <1>5, <1>6, <2>1, AllocPaths
    <2>3. InUse(alloc, s)
      BY <2>1, <2>2 DEF BuildInv, NothingLeftBehind, InUse
    <2>4. s[1] \in JobsOf(catalog)
      BY <2>1, <2>3 DEF BuildInv, RowsInv
    <2> QED BY <2>1, <2>3, <2>4, InUseIs DEF s
  <1>8. PICK g : g \in NonRemoved(a, j)
    OBVIOUS
  <1>9. j \in JobsOf(catalog) /\ catalog.jobs[j].certs = w.jobs[j].certs
    BY <1>4, <1>7, <1>8 DEF BuildInv, CertsInv
  <1>10. spec \in CertSpecs(catalog, j)
    BY <1>9 DEF CertSpecs
  <1> SUFFICES ASSUME NEW h \in NonRemoved(a, j)
               PROVE  LET x == kv[P(h)].value.text
                      IN  /\ s1[P(h)] = kv[P(h)]
                          /\ x.ca = ca /\ h \in x.hosts /\ x.subject = spec.subject /\ ~NeedsRenewal(x)
                          /\ spec.one => \A i \in NonRemoved(a, j) : kv[P(i)].value = kv[P(h)].value
    BY DEF P, s1
  <1>11. LET x == kv[P(h)].value.text
         IN  /\ caHash.previous = {x.ca} /\ h \in x.hosts /\ x.subject = spec.subject
             /\ spec.one => \A i \in NonRemoved(alloc, j) : kv[P(i)].value = kv[P(h)].value
    BY <1>7, <1>9, <1>10 DEF BuildInv, CertsInv, P
  <1>12. ~NeedsRenewal(kv[P(h)].value.text)
    BY <1>2, <1>6
  <1>13. kv[P(h)].value.text.ca = ca
    BY <1>3, <1>11
  <1> QED BY <1>6, <1>7, <1>11, <1>12, <1>13

(* BuildCerts: what is written for a worker in use, whether it was made now or kept. *)
LEMMA CertOfIs ==
    ASSUME BuildInv, NEW w \in Workspaces, NEW j \in JobsOf(w), NEW a, NEW spec \in CertSpecs(w, j),
           j \in Jobs, NEW h \in NonRemoved(a, j)
    PROVE  LET x(i) == CertOf(w, a, WithVariables(w, a), j, i, spec)
           IN  /\ x(h).ca = ca /\ h \in x(h).hosts /\ x(h).subject = spec.subject
               /\ Buffer < TTL => ~NeedsRenewal(x(h))
               /\ spec.one => \A i \in NonRemoved(a, j) : x(i) = x(h)
  <1> DEFINE s1   == WithVariables(w, a)
             H    == NonRemoved(a, j)
             from == IF spec.one THEN CHOOSE i \in H : TRUE ELSE h
             x(i) == CertOf(w, a, s1, j, i, spec)
  <1>1. spec.one => \A i \in H : x(i) = x(h)
    BY DEF CertOf
  <1>2. CASE Regenerate(w, a, s1, j, spec)
    <2>1. x(h) = Certificate(spec.subject, IF spec.one THEN H ELSE {h})
      BY <1>2 DEF CertOf
    <2>2. today \in Nat
      BY DEF BuildInv, BuildTypes
    <2>3. h \in (IF spec.one THEN H ELSE {h})
      OBVIOUS
    <2> HIDE DEF x, H, s1
    <2> QED BY <1>1, <2>1, <2>2, <2>3, FreshIsNotDue DEF x, H, s1
  <1>3. CASE ~Regenerate(w, a, s1, j, spec)
    <2>1. x(h) = s1[CertPath(j, from, spec)].value.text /\ from \in H
      BY <1>3 DEF CertOf
    <2> HIDE DEF s1
    <2>2. \A i \in H : LET p == CertPath(j, i, spec)
                           y == kv[p].value.text
                       IN  /\ s1[p] = kv[p]
                           /\ y.ca = ca /\ i \in y.hosts /\ y.subject = spec.subject /\ ~NeedsRenewal(y)
                           /\ spec.one => \A k \in H : kv[CertPath(j, k, spec)].value = kv[p].value
      BY <1>3, KeptCertificates DEF s1
    <2>3. kv[CertPath(j, from, spec)].value = kv[CertPath(j, h, spec)].value
      BY <2>1, <2>2
    <2>4. x(h) = kv[CertPath(j, h, spec)].value.text
      BY <2>1, <2>2, <2>3
    <2> HIDE DEF x, from
    <2>5. /\ x(h).ca = ca /\ h \in x(h).hosts /\ x(h).subject = spec.subject
          /\ Buffer < TTL => ~NeedsRenewal(x(h))
      BY <2>2, <2>4
    <2> QED BY <1>1, <2>5 DEF x, H, s1
  <1> QED BY <1>2, <1>3

(* The jobs of a workspace have rows. *)
LEMMA JobsAre ==
    ASSUME NEW w \in Workspaces \cup {NoCatalog}
    PROVE  JobsOf(w) \subseteq Jobs
  <1>1. JobsOf(NoCatalog) = {}
    BY DEF JobsOf, NoCatalog
  <1> QED BY <1>1, BuildAssumption DEF JobsOf

(* The store of an accepted build holds the certificates of BuildCerts, live, for
   every worker in use. *)
LEMMA BuildWritesCerts ==
    ASSUME BuildInv, NEW w \in Workspaces, NEW j \in JobsOf(w), NEW spec \in CertSpecs(w, j),
           NEW h \in NonRemoved(Placed(w), j)
    PROVE  LET t == Built(w, Placed(w))
               p == CertPath(j, h, spec)
               x == t[p].value.text
           IN  /\ Live(t, p)
               /\ x.ca = ca /\ h \in x.hosts /\ x.subject = spec.subject
               /\ Buffer < TTL => ~NeedsRenewal(x)
               /\ spec.one => \A i \in NonRemoved(Placed(w), j) :
                                 t[CertPath(j, i, spec)].value = t[p].value
  <1> DEFINE a    == Placed(w)
             s1   == WithVariables(w, a)
             t    == Built(w, a)
             c    == CertVars(w, a, s1)
             x(i) == CertOf(w, a, s1, j, i, spec)
             P(i) == CertPath(j, i, spec)
  <1>1. j \in Jobs
    BY JobsAre
  <1>2. /\ x(h).ca = ca /\ h \in x(h).hosts /\ x(h).subject = spec.subject
        /\ Buffer < TTL => ~NeedsRenewal(x(h))
        /\ spec.one => \A i \in NonRemoved(a, j) : x(i) = x(h)
    <2> HIDE DEF a
    <2> QED BY <1>1, CertOfIs DEF a
  <1>3. ASSUME NEW i \in NonRemoved(a, j)
        PROVE  Live(t, P(i)) /\ t[P(i)].value = Plain(x(i))
    <2> DEFINE s == <<j, i>>
    <2>1. s \in Slots /\ s[1] = j /\ s[2] = i /\ InUse(a, s)
      BY <1>1, InUseIs DEF Slots
    <2>2. P(i) \in CertNS(j, i) /\ P(i) \in Paths /\ P(i) \in DOMAIN c /\ c[P(i)] = x(i)
      BY <1>1, CertsPut
    <2>3. IsStore(kv)
      BY DEF BuildInv, BuildTypes
    <2> HIDE DEF a, c, x, P, s, s1, t
    <2>4. P(i) \in AllocNS(s[1], s[2]) /\ P(i) \in CertNS(s[1], s[2]) /\ P(i)[1] = "alloc"
      BY <2>1, <2>2, AllocPaths
    <2>5. P(i) \notin DOMAIN AllocVars(w, a) /\ P(i) \notin AllocScope(w, a)
      BY <2>1, <2>4, AllocPuts, AllocClears
    <2>6. Live(t, P(i)) /\ t[P(i)].value = Plain(c[P(i)])
      BY <2>2, <2>3, <2>4, <2>5, BuiltAlloc DEF c, s1, t
    <2> QED BY <2>2, <2>6
  <1>4. \A i \in NonRemoved(a, j) : Plain(x(i)).text = x(i)
    BY DEF Plain
  <1> HIDE DEF x, t, P, a
  <1>5. t[P(h)].value.text = x(h)
    BY <1>3, <1>4 DEF a
  <1>6. /\ Live(t, P(h))
        /\ t[P(h)].value.text.ca = ca /\ h \in t[P(h)].value.text.hosts
        /\ t[P(h)].value.text.subject = spec.subject
        /\ Buffer < TTL => ~NeedsRenewal(t[P(h)].value.text)
    BY <1>2, <1>3, <1>5 DEF a
  <1>7. spec.one => \A i \in NonRemoved(a, j) : t[P(i)].value = t[P(h)].value
    BY <1>2, <1>3 DEF a
  <1> QED BY <1>6, <1>7 DEF t, P, a

(* What an accepted build assigns, and what one that is rejected leaves. *)
LEMMA BuildCases ==
    ASSUME NEW w, Build(w)
    PROVE  /\ ca' = ca /\ today' = today
           /\ \/ /\ catalog' = w /\ alloc' = Placed(w) /\ kv' = Built(w, Placed(w))
                 /\ certHash' = PromotedHashes(w, Placed(w)) /\ caHash' = PromoteHash(CAHash)
              \/ UNCHANGED <<rows, builds>>
  BY DEF Build, Built

(* The hashes an accepted build promotes are those of its own manifests and CA. *)
LEMMA BuildPromotes ==
    ASSUME BuildTypes, NEW w \in Workspaces, NEW a
    PROVE  /\ PromotedHashes(w, a) = [j \in Jobs |-> PromotedHashes(w, a)[j]]
           /\ \A j \in Jobs : IsHash(PromotedHashes(w, a)[j])
           /\ \A j \in JobsOf(w) : Allocated(a, j) # {} =>
                 PromotedHashes(w, a)[j].previous = {w.jobs[j].certs}
           /\ IsHash(PromoteHash(CAHash)) /\ PromoteHash(CAHash).previous = {ca}
  <1>1. IsHash(caHash) /\ \A j \in Jobs : IsHash(certHash[j])
    BY DEF BuildTypes
  <1>2. IsHash(PromoteHash(CAHash)) /\ PromoteHash(CAHash).previous = {ca}
    BY <1>1, HashIs DEF CAHash
  <1>3. \A j \in Jobs : CertHashes(w)[j] =
            IF j \in JobsOf(w) THEN UpdateHash(certHash[j], w.jobs[j].certs)
            ELSE IF j \in RemovedJobs(w) THEN NoHash ELSE certHash[j]
    BY DEF CertHashes
  <1>4. \A j \in Jobs : PromotedHashes(w, a)[j] =
            IF Allocated(a, j) # {} THEN PromoteHash(CertHashes(w)[j]) ELSE CertHashes(w)[j]
    BY DEF PromotedHashes
  <1>5. JobsOf(w) \subseteq Jobs
    BY JobsAre
  <1>6. \A j \in JobsOf(w) : Allocated(a, j) # {} => PromotedHashes(w, a)[j].previous = {w.jobs[j].certs}
    BY <1>1, <1>3, <1>4, <1>5, HashIs
  <1>7. IsHash(NoHash)
    BY DEF IsHash, NoHash
  <1>8. \A h : IsHash(h) => IsHash(PromoteHash(h))
    BY DEF IsHash, PromoteHash
  <1>9. \A j \in Jobs : IsHash(CertHashes(w)[j])
    BY <1>1, <1>3, <1>7, HashIs
  <1>10. \A j \in Jobs : IsHash(PromotedHashes(w, a)[j])
    BY <1>4, <1>8, <1>9
  <1> QED BY <1>2, <1>6, <1>10 DEF PromotedHashes

(* An accepted build keeps the invariant. *)
LEMMA AcceptedKeeps ==
    ASSUME BuildInv, NEW w \in Workspaces, ca' = ca, today' = today,
           catalog' = w, alloc' = Placed(w), kv' = Built(w, Placed(w)),
           certHash' = PromotedHashes(w, Placed(w)), caHash' = PromoteHash(CAHash)
    PROVE  BuildInv'
  <1> DEFINE a == Placed(w)
  <1>1. BuildTypes /\ RowsInv /\ NothingLeftBehind
    BY DEF BuildInv
  <1>2. /\ a \in [Slots -> Placement]
        /\ \A s \in Slots : InUse(a, s) => s[1] \in JobsOf(w)
    BY <1>1, PlacedRows DEF BuildTypes
  <1>3. IsStore(Built(w, a))
    BY <1>1, BuiltAlloc DEF BuildTypes
  <1>4. /\ PromotedHashes(w, a) = [j \in Jobs |-> PromotedHashes(w, a)[j]]
        /\ \A j \in Jobs : IsHash(PromotedHashes(w, a)[j])
        /\ \A j \in JobsOf(w) : Allocated(a, j) # {} =>
              PromotedHashes(w, a)[j].previous = {w.jobs[j].certs}
        /\ IsHash(PromoteHash(CAHash)) /\ PromoteHash(CAHash).previous = {ca}
    BY <1>1, BuildPromotes
  <1>5. BuildTypes'
    <2>1. IsStore(kv)'
      BY <1>3 DEF IsStore
    <2>2. /\ certHash' = [j \in Jobs |-> certHash'[j]] /\ \A j \in Jobs : IsHash(certHash'[j])
          /\ IsHash(caHash')
      BY <1>4
    <2> QED BY <1>1, <1>2, <2>1, <2>2 DEF BuildTypes
  <1>6. RowsInv'
    BY <1>2 DEF RowsInv, InUse
  <1>7. NothingLeftBehind'
    <2>1. ASSUME NEW s \in Slots, NEW p \in AllocNS(s[1], s[2]), Live(Built(w, a), p)
          PROVE  /\ a[s] \in {"active", "disabled"}
                 /\ p \in CertNS(s[1], s[2]) => \E spec \in CertSpecs(w, s[1]) : spec.name = p[5]
      BY <1>1, <2>1, BuildLeavesNothing DEF InUse
    <2> QED BY <2>1 DEF NothingLeftBehind, Live
  <1>8. CertsInv'
    <2>1. ASSUME NEW j \in JobsOf(w), NEW h \in NonRemoved(a, j)
          PROVE  /\ certHash'[j].previous = {w.jobs[j].certs}
                 /\ \A spec \in CertSpecs(w, j) :
                       LET p == CertPath(j, h, spec)
                           c == Built(w, a)[p].value.text
                       IN  /\ Live(Built(w, a), p)
                           /\ caHash'.previous = {c.ca} /\ h \in c.hosts /\ c.subject = spec.subject
                           /\ spec.one => \A i \in NonRemoved(a, j) :
                                 Built(w, a)[CertPath(j, i, spec)].value = Built(w, a)[p].value
      <3>1. Allocated(a, j) # {}
        BY InUseIs
      <3>2. certHash'[j].previous = {w.jobs[j].certs} /\ caHash'.previous = {ca}
        BY <1>4, <3>1
      <3> QED BY <3>2, BuildWritesCerts
    <2> HIDE DEF a
    <2>2. kv' = Built(w, a) /\ alloc' = a /\ catalog' = w
      BY DEF a
    <2> QED BY <2>1, <2>2 DEF CertsInv, Live
  <1> QED BY <1>5, <1>6, <1>7, <1>8 DEF BuildInv

-----------------------------------------------------------------------------
(* The other actions. *)

(* A step that keeps the rows, the allocations in use and their certificates, and
   brings no key of an allocation to life but of one in use, keeps the invariant. *)
LEMMA StoreStepKeeps ==
    ASSUME BuildInv, UNCHANGED <<catalog, certHash, caHash, today>>,
           alloc' \in [Slots -> Placement], IsStore(kv'),
           \A s \in Slots : InUse(alloc', s) <=> InUse(alloc, s),
           \A s \in Slots : \A p \in AllocNS(s[1], s[2]) :
               /\ Live(kv', p) => \/ Live(kv, p)
                                  \/ InUse(alloc, s) /\ p \notin CertNS(s[1], s[2])
               /\ InUse(alloc, s) /\ p \in CertNS(s[1], s[2]) =>
                     /\ kv'[p].value = kv[p].value
                     /\ Live(kv, p) => Live(kv', p)
    PROVE  BuildInv'
  <1>1. BuildTypes'
    BY DEF BuildInv, BuildTypes, IsStore
  <1>2. RowsInv'
    BY DEF BuildInv, RowsInv, InUse
  <1>3. NothingLeftBehind'
    <2>1. ASSUME NEW s \in Slots, NEW p \in AllocNS(s[1], s[2]), Live(kv', p)
          PROVE  /\ InUse(alloc', s)
                 /\ p \in CertNS(s[1], s[2]) => \E spec \in CertSpecs(catalog, s[1]) : spec.name = p[5]
      BY <2>1 DEF BuildInv, NothingLeftBehind, InUse
    <2> QED BY <2>1 DEF NothingLeftBehind, Live, InUse
  <1>4. CertsInv'
    <2>1. ASSUME NEW j, NEW h
          PROVE  j \in Jobs => (h \in NonRemoved(alloc', j) <=> h \in NonRemoved(alloc, j))
      BY InUseIs DEF Slots
    <2>2. JobsOf(catalog) \subseteq Jobs
      BY JobsAre DEF BuildInv, BuildTypes
    <2>3. ASSUME NEW j \in JobsOf(catalog), NEW h \in NonRemoved(alloc, j), NEW spec \in CertSpecs(catalog, j)
          PROVE  LET p == CertPath(j, h, spec)
                 IN  kv'[p].value = kv[p].value /\ (Live(kv, p) => Live(kv', p))
      <3> DEFINE s == <<j, h>>
      <3>1. s \in Slots /\ s[1] = j /\ s[2] = h /\ InUse(alloc, s)
        BY <2>2, InUseIs DEF Slots
      <3>2. CertPath(j, h, spec) \in CertNS(j, h)
        BY SpecsOf DEF BuildInv, BuildTypes, CertPath, CertNS
      <3> HIDE DEF s
      <3> QED BY <3>1, <3>2, AllocPaths
    <2>4. ASSUME NEW j \in JobsOf(catalog), NEW h \in NonRemoved(alloc', j)
          PROVE  /\ certHash[j].previous = {catalog.jobs[j].certs}
                 /\ \A spec \in CertSpecs(catalog, j) :
                       LET p == CertPath(j, h, spec)
                           c == kv'[p].value.text
                       IN  /\ Live(kv', p)
                           /\ caHash.previous = {c.ca} /\ h \in c.hosts /\ c.subject = spec.subject
                           /\ spec.one => \A i \in NonRemoved(alloc', j) :
                                 kv'[CertPath(j, i, spec)].value = kv'[p].value
      <3>1. h \in NonRemoved(alloc, j) /\ NonRemoved(alloc', j) = NonRemoved(alloc, j)
        BY <2>1, <2>2
      <3>2. certHash[j].previous = {catalog.jobs[j].certs}
        BY <3>1 DEF BuildInv, CertsInv
      <3>3. ASSUME NEW spec \in CertSpecs(catalog, j)
            PROVE  LET p == CertPath(j, h, spec)
                       c == kv'[p].value.text
                   IN  /\ Live(kv', p)
                       /\ caHash.previous = {c.ca} /\ h \in c.hosts /\ c.subject = spec.subject
                       /\ spec.one => \A i \in NonRemoved(alloc', j) :
                             kv'[CertPath(j, i, spec)].value = kv'[p].value
        <4> DEFINE P(i) == CertPath(j, i, spec)
        <4>1. LET c == kv[P(h)].value.text
              IN  /\ Live(kv, P(h))
                  /\ caHash.previous = {c.ca} /\ h \in c.hosts /\ c.subject = spec.subject
                  /\ spec.one => \A i \in NonRemoved(alloc, j) : kv[P(i)].value = kv[P(h)].value
          BY <3>1 DEF BuildInv, CertsInv
        <4>2. \A i \in NonRemoved(alloc, j) :
                 kv'[P(i)].value = kv[P(i)].value /\ (Live(kv, P(i)) => Live(kv', P(i)))
          BY <2>3
        <4> HIDE DEF P
        <4>3. /\ Live(kv', P(h))
              /\ LET c == kv'[P(h)].value.text
                 IN  caHash.previous = {c.ca} /\ h \in c.hosts /\ c.subject = spec.subject
              /\ spec.one => \A i \in NonRemoved(alloc', j) : kv'[P(i)].value = kv'[P(h)].value
          BY <3>1, <4>1, <4>2
        <4> QED BY <4>3 DEF P
      <3> QED BY <3>2, <3>3
    <2> QED BY <2>4 DEF CertsInv, Live
  <1> QED BY <1>1, <1>2, <1>3, <1>4 DEF BuildInv

(* A deploy writes versions of allocations in use, and what scripts store. *)
LEMMA DeployKeeps ==
    ASSUME BuildInv, Deploy
    PROVE  BuildInv'
  <1> DEFINE running == {j \in JobsOf(catalog) : Active(alloc, j) # {}}
             new == [p \in UNION {{<<"alloc", j, h, "version">> : h \in NonRemoved(alloc, j)}
                                  \cup VarsNS(j) \cup SecretsNS(j) : j \in running} |-> "deployed"]
             s1  == Sync(kv, new, {})
  <1>1. /\ kv' = Clean(s1)
        /\ UNCHANGED <<catalog, alloc, certHash, caHash, today>>
    BY DEF Deploy
  <1>2. IsStore(kv) /\ alloc \in [Slots -> Placement]
    BY DEF BuildInv, BuildTypes
  <1>3. ASSUME NEW s \in Slots, NEW p \in AllocNS(s[1], s[2]), p \in DOMAIN new
        PROVE  InUse(alloc, s) /\ p \notin CertNS(s[1], s[2])
    <2>1. PICK j \in running : p \in {<<"alloc", j, h, "version">> : h \in NonRemoved(alloc, j)}
                                     \cup VarsNS(j) \cup SecretsNS(j)
      BY <1>3
    <2>2. PICK h \in NonRemoved(alloc, j) : p = <<"alloc", j, h, "version">>
      BY <2>1, AllocPaths, OtherPaths
    <2>3. j = s[1] /\ h = s[2] /\ p[4] = "version"
      BY <2>2, AllocPaths
    <2> QED BY <2>2, <2>3, AllocPaths, InUseIs, SlotIs
  <1> HIDE DEF new
  <1>4. IsStore(s1)
    BY <1>2, SyncEffect DEF IsStore
  <1>5. ASSUME NEW p \in Paths
        PROVE  /\ p \notin DOMAIN new => s1[p] = kv[p]
               /\ p \in DOMAIN new \/ (Live(s1, p) <=> Live(kv, p))
    BY <1>2, SyncEffect DEF Live
  <1> HIDE DEF s1
  <1>6. ASSUME NEW p \in Paths
        PROVE  /\ IsEntry(kv'[p]) /\ kv'[p].value = s1[p].value
               /\ Live(kv', p) <=> Live(s1, p)
    BY <1>1, <1>4, CleanEffect
  <1>7. IsStore(kv')
    BY <1>6 DEF IsStore
  <1>8. ASSUME NEW s \in Slots, NEW p \in AllocNS(s[1], s[2])
        PROVE  /\ Live(kv', p) => \/ Live(kv, p)
                                  \/ InUse(alloc, s) /\ p \notin CertNS(s[1], s[2])
               /\ InUse(alloc, s) /\ p \in CertNS(s[1], s[2]) =>
                     /\ kv'[p].value = kv[p].value
                     /\ Live(kv, p) => Live(kv', p)
    <2>1. p \in Paths
      BY AllocPaths
    <2> QED BY <1>3, <1>5, <1>6, <2>1
  <1> QED BY <1>1, <1>2, <1>7, <1>8, StoreStepKeeps

(* gc takes removed rows away with all their keys. *)
LEMMA CollectKeeps ==
    ASSUME BuildInv, Collect
    PROVE  BuildInv'
  <1> DEFINE removed == {s \in Slots : alloc[s] = "removed"}
             gone    == {j \in Jobs : (\E s \in removed : s[1] = j) /\ Active(alloc, j) = {}}
             P       == (UNION {AllocNS(s[1], s[2]) : s \in removed}) \cup
                        (UNION {JobNS(j) \cup ConfNS(j) \cup VarsNS(j) \cup SecretsNS(j) : j \in gone})
             s1      == PurgePaths(kv, P)
  <1>1. /\ kv' = Clean(s1) /\ alloc' = [s \in Slots |-> IF s \in removed THEN "none" ELSE alloc[s]]
        /\ UNCHANGED <<catalog, certHash, caHash, today>>
    BY DEF Collect
  <1>2. IsStore(kv) /\ alloc \in [Slots -> Placement]
    BY DEF BuildInv, BuildTypes
  <1>3. ASSUME NEW s \in Slots, NEW p \in AllocNS(s[1], s[2]), InUse(alloc, s)
        PROVE  p \notin P
    <2>1. ASSUME NEW u \in removed, p \in AllocNS(u[1], u[2])
          PROVE  FALSE
      <3>1. u[1] = s[1] /\ u[2] = s[2]
        BY <2>1, AllocPaths
      <3>2. u = s
        BY <3>1, SlotIs
      <3> QED BY <1>3, <3>2 DEF InUse
    <2>2. ASSUME NEW j, p \in JobNS(j) \cup ConfNS(j) \cup VarsNS(j) \cup SecretsNS(j)
          PROVE  FALSE
      BY <2>2, AllocPaths, OtherPaths
    <2> QED BY <2>1, <2>2
  <1>4. /\ alloc' \in [Slots -> Placement]
        /\ \A s \in Slots : InUse(alloc', s) <=> InUse(alloc, s)
    <2>1. \A s \in Slots : alloc'[s] = IF alloc[s] = "removed" THEN "none" ELSE alloc[s]
      BY <1>1
    <2>2. alloc' \in [Slots -> Placement]
      BY <1>1, <1>2 DEF Placement
    <2> QED BY <2>1, <2>2 DEF InUse
  <1> HIDE DEF P
  <1>5. IsStore(s1)
    BY <1>2, PurgeEffect DEF IsStore
  <1>6. ASSUME NEW p \in Paths
        PROVE  /\ p \notin P => s1[p] = kv[p]
               /\ Live(s1, p) => Live(kv, p)
    BY <1>2, PurgeEffect DEF Live
  <1> HIDE DEF s1
  <1>7. ASSUME NEW p \in Paths
        PROVE  /\ IsEntry(kv'[p]) /\ kv'[p].value = s1[p].value
               /\ Live(kv', p) <=> Live(s1, p)
    BY <1>1, <1>5, CleanEffect
  <1>8. IsStore(kv')
    BY <1>7 DEF IsStore
  <1>9. ASSUME NEW s \in Slots, NEW p \in AllocNS(s[1], s[2])
        PROVE  /\ Live(kv', p) => Live(kv, p)
               /\ InUse(alloc, s) /\ p \in CertNS(s[1], s[2]) =>
                     /\ kv'[p].value = kv[p].value
                     /\ Live(kv, p) => Live(kv', p)
    <2>1. p \in Paths
      BY AllocPaths
    <2> QED BY <1>3, <1>6, <1>7, <2>1 DEF Live
  <1> HIDE DEF removed
  <1> QED BY <1>1, <1>4, <1>8, <1>9, StoreStepKeeps

-----------------------------------------------------------------------------
(* Every step. *)

(* A new CA and a new day change no row. *)
LEMMA RowsKeep ==
    ASSUME BuildInv, UNCHANGED rows, today' \in Nat
    PROVE  BuildInv'
  <1>1. UNCHANGED <<catalog, alloc, certHash, caHash, kv>>
    BY DEF rows
  <1>2. BuildTypes'
    BY <1>1 DEF BuildInv, BuildTypes, IsStore
  <1>3. RowsInv' /\ NothingLeftBehind'
    BY <1>1 DEF BuildInv, RowsInv, InUse, NothingLeftBehind, Live
  <1>4. CertsInv'
    BY <1>1 DEF BuildInv, CertsInv, NonRemoved, Live
  <1> QED BY <1>2, <1>3, <1>4 DEF BuildInv

(* The bucket before its first build *)
LEMMA InitHolds == Init => BuildInv
  <1> SUFFICES ASSUME Init PROVE BuildInv
    OBVIOUS
  <1>1. \A p \in Paths : kv[p] = NoEntry
    BY DEF Init, NewStore
  <1>2. IsEntry(NoEntry) /\ ~IsLive(NoEntry)
    BY DEF NoEntry, IsEntry, IsLive
  <1>3. JobsOf(catalog) = {} /\ \A s \in Slots : ~InUse(alloc, s)
    BY DEF Init, JobsOf, NoCatalog, InUse
  <1>4. BuildTypes
    BY <1>1, <1>2 DEF Init, BuildTypes, IsStore, IsHash, NoHash, Placement
  <1>5. NothingLeftBehind
    BY <1>1, <1>2, AllocPaths DEF NothingLeftBehind, Live
  <1> QED BY <1>3, <1>4, <1>5 DEF BuildInv, RowsInv, CertsInv

(* Every step keeps the invariant. *)
LEMMA NextKeeps == BuildInv /\ [Next]_vars => BuildInv'
  <1> SUFFICES ASSUME BuildInv, [Next]_vars PROVE BuildInv'
    OBVIOUS
  <1>1. ASSUME NEW w \in Workspaces, Build(w)
        PROVE  BuildInv'
    <2>1. CASE UNCHANGED <<rows, builds>>
      <3>1. today' \in Nat
        BY <1>1, BuildCases DEF BuildInv, BuildTypes
      <3> QED BY <2>1, <3>1, RowsKeep
    <2> QED BY <1>1, <2>1, BuildCases, AcceptedKeeps
  <1>2. CASE ReplaceCA
    BY <1>2, RowsKeep DEF ReplaceCA, BuildInv, BuildTypes
  <1>3. CASE Tick
    <2>1. today' \in Nat
      BY <1>3 DEF Tick, BuildInv, BuildTypes
    <2> QED BY <1>3, <2>1, RowsKeep DEF Tick
  <1>4. CASE UNCHANGED vars
    BY <1>4, RowsKeep DEF vars, BuildInv, BuildTypes
  <1> QED BY <1>1, <1>2, <1>3, <1>4, DeployKeeps, CollectKeeps DEF Next

(* What a build that was accepted leaves of certificates *)
LEMMA CertificatesStep ==
    ASSUME BuildInv, [Next]_vars, builds' # builds, outcome' = "ok"
    PROVE  \A j \in JobsOf(catalog') : \A spec \in CertSpecs(catalog', j), h \in NonRemoved(alloc', j) :
              LET p == CertPath(j, h, spec)
                  c == kv'[p].value.text
              IN  /\ Live(kv', p)
                  /\ c.ca = ca /\ h \in c.hosts /\ c.subject = spec.subject
                  /\ Buffer < TTL => ~NeedsRenewal(c)
                  /\ spec.one => \A i \in NonRemoved(alloc', j) :
                        kv'[CertPath(j, i, spec)].value = kv'[p].value
  <1>1. PICK w \in Workspaces : Build(w)
    BY DEF Next, Deploy, Collect, ReplaceCA, Tick, vars
  <1>2. /\ catalog' = w /\ alloc' = Placed(w) /\ kv' = Built(w, Placed(w))
    BY <1>1, BuildCases
  <1> QED BY <1>2, BuildWritesCerts

(* BuildInv is an invariant: what the hashes of the last build promise of certificates
   is in the store, whatever deploys, collections and builds there were since. *)
THEOREM BuildInvariant == Spec => []BuildInv
  <1> QED BY InitHolds, NextKeeps, PTL DEF Spec

(* No build and no gc leaves a live key, a private key above all, of an allocation that
   is not in use, or a certificate its manifest no longer has (AllocScope, CertScope). *)
THEOREM NothingIsLeftBehind == Spec => []NothingLeftBehind
  <1>1. BuildInv => NothingLeftBehind
    BY DEF BuildInv
  <1> QED BY <1>1, BuildInvariant, PTL

(* After every accepted build each allocation in use has the certificates of its
   manifest, by the CA of that build, for its own address and, if the renewal buffer is
   shorter than their life, not due: those that certNeedsRegeneration keeps too. *)
THEOREM CertificatesAreValid == Spec => CertsValid
  <1> DEFINE Valid ==
        builds' # builds /\ outcome' = "ok" =>
        \A j \in JobsOf(catalog') : \A spec \in CertSpecs(catalog', j), h \in NonRemoved(alloc', j) :
            LET p == CertPath(j, h, spec)
                c == kv'[p].value.text
            IN  /\ Live(kv', p)
                /\ c.ca = ca /\ h \in c.hosts /\ c.subject = spec.subject
                /\ Buffer < TTL => ~NeedsRenewal(c)
                /\ spec.one => \A i \in NonRemoved(alloc', j) : kv'[CertPath(j, i, spec)].value = kv'[p].value
  <1>1. BuildInv /\ [Next]_vars => [Valid]_vars
    BY CertificatesStep
  <1> QED BY <1>1, BuildInvariant, PTL DEF Spec, CertsValid

-----------------------------------------------------------------------------
(* Induction on data.  The library's induction theorems take an operator, this one
   a set: that < is well-founded on Nat is enough. *)
LEMMA LeastIs ==
    ASSUME NEW S, S \subseteq Nat, S # {}
    PROVE  \E m \in S : \A n \in S : m <= n
  <1> DEFINE R == OpToRel(<, Nat)
  <1>1. IsWellFoundedOn(R, Nat)
    BY NatLessThanWellFounded
  <1>2. \A m, n \in Nat : m < n => <<m, n>> \in R
    BY DEF OpToRel
  <1> HIDE DEF R
  <1>3. \E m \in S : \A n \in S : ~(<<n, m>> \in R)
    BY <1>1, WFMin
  <1>4. PICK m \in S : \A n \in S : ~(<<n, m>> \in R)
    BY <1>3
  <1>5. ASSUME NEW n \in S PROVE m <= n
    <2>1. m \in Nat /\ n \in Nat
      OBVIOUS
    <2>2. ~(n < m)
      BY <1>2, <1>4, <2>1
    <2> QED BY <2>1, <2>2
  <1> QED BY <1>5

(* A set of naturals with 0 and every successor of its own has all naturals. *)
LEMMA SetInduction ==
    ASSUME NEW S, 0 \in S, \A n \in Nat : n \in S => n + 1 \in S
    PROVE  Nat \subseteq S
  <1> SUFFICES ASSUME Nat \ S # {} PROVE FALSE
    OBVIOUS
  <1>1. PICK m \in Nat \ S : \A n \in Nat \ S : m <= n
    BY LeastIs
  <1>2. m # 0
    OBVIOUS
  <1>3. m - 1 \in Nat /\ ~(m <= m - 1) /\ (m - 1) + 1 = m
    BY <1>2
  <1>4. m - 1 \in S
    BY <1>1, <1>3
  <1> QED BY <1>3, <1>4

(* A set of naturals up to a bound has a maximum, and Max finds it. *)
LEMMA GreatestIs ==
    ASSUME NEW N \in Nat, NEW S, S \subseteq 0 .. N, S # {}
    PROVE  Max(S) \in S /\ \A n \in S : Max(S) >= n
  <1> DEFINE T == {N - n : n \in S}
  <1>1. T \subseteq Nat /\ T # {}
    <2>1. \A n \in S : N - n \in Nat
      OBVIOUS
    <2>2. PICK n \in S : TRUE
      OBVIOUS
    <2>3. N - n \in T
      OBVIOUS
    <2> QED BY <2>1, <2>3
  <1> HIDE DEF T
  <1>2. PICK m \in T : \A n \in T : m <= n
    BY <1>1, LeastIs
  <1>3. PICK x \in S : m = N - x
    BY DEF T
  <1>4. ASSUME NEW n \in S PROVE x >= n
    <2>1. N - n \in T
      BY DEF T
    <2>2. x \in 0 .. N /\ n \in 0 .. N
      OBVIOUS
    <2>3. N - x <= N - n
      BY <1>2, <1>3, <2>1
    <2> QED BY <2>2, <2>3
  <1>5. \E y \in S : \A n \in S : y >= n
    BY <1>4
  <1> QED BY <1>5 DEF Max

-----------------------------------------------------------------------------
(* The deployment sequence. *)

(* The recursion of BuildDeploymentSequence is well defined: the walks of no demand
   lead from X itself, and one demand more leads to the demanders. *)
LEMMA WalksAre ==
    ASSUME NEW w, NEW X, Cardinality(Jobs) \in Nat
    PROVE  /\ Walks(w, X)[0] = X
           /\ \A n \in 1 .. Cardinality(Jobs) : Walks(w, X)[n] = Demanders(w, Walks(w, X)[n - 1])
  <1> DEFINE N == Cardinality(Jobs)
             Is(f, M) == f = [n \in 0 .. M |-> IF n = 0 THEN X ELSE Demanders(w, f[n - 1])]
             S == {M \in Nat : \E f : Is(f, M)}
  <1>1. 0 \in S
    <2>1. Is([n \in 0 .. 0 |-> X], 0)
      OBVIOUS
    <2> QED BY <2>1
  <1>2. ASSUME NEW M \in Nat, M \in S PROVE M + 1 \in S
    <2>1. PICK f : Is(f, M)
      BY <1>2
    <2> DEFINE g == [n \in 0 .. M + 1 |-> IF n = 0 THEN X ELSE Demanders(w, f[n - 1])]
    <2>2. \A n \in 0 .. M : f[n] = IF n = 0 THEN X ELSE Demanders(w, f[n - 1])
      BY <2>1
    <2>3. \A n \in 0 .. M : f[n] = g[n]
      BY <2>2
    <2>4. \A n \in 0 .. M + 1 : n # 0 => n - 1 \in 0 .. M
      OBVIOUS
    <2>5. g = [n \in 0 .. M + 1 |-> IF n = 0 THEN X ELSE Demanders(w, g[n - 1])]
      BY <2>3, <2>4
    <2> HIDE DEF g
    <2> QED BY <2>5
  <1> HIDE DEF S
  <1>3. N \in S
    BY <1>1, <1>2, SetInduction
  <1>4. \E f : Is(f, N)
    BY <1>3 DEF S
  <1> DEFINE at == CHOOSE f : Is(f, N)
  <1>5. Is(at, N)
    BY <1>4
  <1>6. at = Walks(w, X)
    BY DEF Walks
  <1> HIDE DEF at
  <1>7. \A n \in 0 .. N : at[n] = IF n = 0 THEN X ELSE Demanders(w, at[n - 1])
    BY <1>5
  <1> QED BY <1>6, <1>7

(* The recursion keeps what demanding keeps: walks from fewer jobs lead to fewer, and
   jobs that all demand one of their own number are on walks of every length. *)
LEMMA WalksKeep ==
    ASSUME NEW w, Cardinality(Jobs) \in Nat
    PROVE  /\ \A X : X \subseteq JobsOf(w) =>
                  \A n \in 0 .. Cardinality(Jobs) : Walks(w, X)[n] \subseteq Walks(w, JobsOf(w))[n]
           /\ \A B : B \subseteq Demanders(w, B) =>
                  \A n \in 0 .. Cardinality(Jobs) : B \subseteq Walks(w, JobsOf(w))[n]
  <1> DEFINE N == Cardinality(Jobs)
             all == Walks(w, JobsOf(w))
  <1>1. \A X, Y : X \subseteq Y => Demanders(w, X) \subseteq Demanders(w, Y)
    BY DEF Demanders
  <1>2. all[0] = JobsOf(w) /\ \A n \in 1 .. N : all[n] = Demanders(w, all[n - 1])
    BY WalksAre
  <1> HIDE DEF all
  <1>3. ASSUME NEW X, X \subseteq JobsOf(w)
        PROVE  \A n \in 0 .. N : Walks(w, X)[n] \subseteq all[n]
    <2> DEFINE at == Walks(w, X)
               S  == {n \in Nat : n <= N => at[n] \subseteq all[n]}
    <2>1. at[0] = X /\ \A n \in 1 .. N : at[n] = Demanders(w, at[n - 1])
      BY WalksAre
    <2> HIDE DEF at
    <2>2. 0 \in S
      BY <1>2, <1>3, <2>1
    <2>3. ASSUME NEW n \in Nat, n \in S PROVE n + 1 \in S
      <3> SUFFICES ASSUME n + 1 <= N PROVE at[n + 1] \subseteq all[n + 1]
        OBVIOUS
      <3>1. n + 1 \in 1 .. N /\ (n + 1) - 1 = n /\ n <= N
        OBVIOUS
      <3>2. at[n] \subseteq all[n]
        BY <2>3, <3>1
      <3> QED BY <1>1, <1>2, <2>1, <3>1, <3>2
    <2> HIDE DEF S
    <2>4. Nat \subseteq S
      BY <2>2, <2>3, SetInduction
    <2> QED BY <2>4 DEF S, at
  <1>4. ASSUME NEW B, B \subseteq Demanders(w, B)
        PROVE  \A n \in 0 .. N : B \subseteq all[n]
    <2> DEFINE S == {n \in Nat : n <= N => B \subseteq all[n]}
    <2>1. 0 \in S
      BY <1>2, <1>4 DEF Demanders
    <2>2. ASSUME NEW n \in Nat, n \in S PROVE n + 1 \in S
      <3> SUFFICES ASSUME n + 1 <= N PROVE B \subseteq all[n + 1]
        OBVIOUS
      <3>1. n + 1 \in 1 .. N /\ (n + 1) - 1 = n /\ n <= N
        OBVIOUS
      <3>2. B \subseteq all[n]
        BY <2>2, <3>1
      <3>3. Demanders(w, B) \subseteq Demanders(w, all[n])
        BY <1>1, <3>2
      <3> QED BY <1>2, <1>4, <3>1, <3>3
    <2> HIDE DEF S
    <2>3. Nat \subseteq S
      BY <2>1, <2>2, SetInduction
    <2> QED BY <2>3 DEF S
  <1> QED BY <1>3, <1>4 DEF all

(* Of valid demands without a circle, every job that has commands is at some level, no
   job is at the highest number, and who demands a job is a level above it. *)
LEMMA LevelsAre ==
    ASSUME NEW w, ValidDemands(w), ~Circular(w), Cardinality(Jobs) \in Nat
    PROVE  /\ \A j \in JobsOf(w) : w.jobs[j].commands # {} => Levels(w)[j] # {}
           /\ \A j \in JobsOf(w) : Levels(w)[j] \subseteq 0 .. Cardinality(Jobs)
           /\ \A j \in JobsOf(w) : \A c \in Demanding(w, j) :
                 /\ c.job \in JobsOf(w) /\ w.jobs[c.job].commands # {}
                 /\ \A n \in Levels(w)[c.job] : n + 1 \in Levels(w)[j]
  <1> DEFINE N  == Cardinality(Jobs)
             F  == {j \in JobsOf(w) : \E c \in w.jobs[j].commands : c.job = None}
             at == Walks(w, F)
  <1>1. \A j \in JobsOf(w) : Levels(w)[j] = {n \in 0 .. N : j \in at[n]}
    BY DEF Levels
  <1>2. at[0] = F /\ \A n \in 1 .. N : at[n] = Demanders(w, at[n - 1])
    BY WalksAre
  <1>3. at[N] = {}
    <2>1. at[N] \subseteq Walks(w, JobsOf(w))[N]
      BY WalksKeep
    <2> QED BY <2>1 DEF Circular
  <1> HIDE DEF at
  <1>4. ASSUME NEW j \in JobsOf(w), NEW c \in Demanding(w, j), NEW n \in 0 .. N, c.job \in at[n]
        PROVE  n + 1 \in 0 .. N /\ j \in at[n + 1]
    <2>1. n # N
      BY <1>3, <1>4
    <2>2. n + 1 \in 1 .. N /\ n + 1 \in 0 .. N /\ (n + 1) - 1 = n
      BY <2>1
    <2>3. j \in Demanders(w, at[n])
      BY <1>4 DEF Demanders
    <2> QED BY <1>2, <2>2, <2>3
  <1>5. ASSUME NEW j \in JobsOf(w), NEW c \in Demanding(w, j)
        PROVE  c.job \in JobsOf(w) /\ w.jobs[c.job].commands # {}
    BY DEF ValidDemands
  <1>6. ASSUME NEW j \in JobsOf(w), w.jobs[j].commands # {}
        PROVE  \E n \in 0 .. N : j \in at[n]
    <2> DEFINE B == {k \in JobsOf(w) : w.jobs[k].commands # {} /\ \A n \in 0 .. N : k \notin at[n]}
    <2>1. ASSUME NEW k \in B PROVE k \in Demanders(w, B)
      <3>1. k \notin F
        BY <1>2
      <3>2. PICK c \in w.jobs[k].commands : TRUE
        OBVIOUS
      <3>3. c \in Demanding(w, k)
        BY <3>1, <3>2 DEF Demanding
      <3>4. \A n \in 0 .. N : c.job \notin at[n]
        BY <1>4, <3>3
      <3>5. c.job \in B
        BY <1>5, <3>3, <3>4
      <3> QED BY <3>3, <3>5 DEF Demanders
    <2> HIDE DEF B
    <2>2. B \subseteq Walks(w, JobsOf(w))[N]
      BY <2>1, WalksKeep
    <2>3. B = {}
      BY <2>2 DEF Circular
    <2> QED BY <1>6, <2>3 DEF B
  <1> QED BY <1>1, <1>4, <1>5, <1>6

(* A job comes after every job its commands demand (BuildDeploymentSequence). *)
LEMMA SequencedRespects ==
    ASSUME NEW w, ValidDemands(w), ~Circular(w), NEW s \in Slots, NEW t \in Slots,
           s[1] \in JobsOf(w), NEW c \in Demanding(w, s[1]), c.job = t[1]
    PROVE  Sequenced(w)[s] > Sequenced(w)[t]
  <1> DEFINE N == Cardinality(Jobs)
             L == Levels(w)
  <1>1. N \in Nat
    BY BuildAssumption, FS_CardinalityType
  <1>2. /\ t[1] \in JobsOf(w) /\ L[t[1]] # {}
        /\ L[t[1]] \subseteq 0 .. N /\ L[s[1]] \subseteq 0 .. N
        /\ \A n \in L[t[1]] : n + 1 \in L[s[1]]
    BY <1>1, LevelsAre
  <1>3. Sequenced(w)[s] = Max(L[s[1]]) /\ Sequenced(w)[t] = Max(L[t[1]])
    BY <1>2 DEF Sequenced
  <1> HIDE DEF L
  <1>4. Max(L[t[1]]) \in L[t[1]]
    BY <1>1, <1>2, GreatestIs
  <1>5. Max(L[s[1]]) \in L[s[1]] /\ Max(L[s[1]]) >= Max(L[t[1]]) + 1
    BY <1>1, <1>2, <1>4, GreatestIs
  <1>6. Max(L[t[1]]) \in Nat /\ Max(L[s[1]]) \in Nat
    BY <1>1, <1>2, <1>4, <1>5
  <1> QED BY <1>3, <1>5, <1>6

(* The sequence survives what changes no allocation in use. *)
LEMMA SequenceKeeps ==
    ASSUME BuildInv, SeqRespectsDemands, [Next]_vars
    PROVE  SeqRespectsDemands'
  <1> SUFFICES ASSUME NEW s \in Slots, NEW t \in Slots, InUse(alloc', s), InUse(alloc', t),
                      NEW c \in Demanding(catalog', s[1]), c.job = t[1]
               PROVE  seq'[s] > seq'[t]
    BY DEF SeqRespectsDemands, InUse
  <1>1. CASE UNCHANGED <<catalog, alloc, seq>>
    BY <1>1 DEF SeqRespectsDemands, InUse
  <1>2. ASSUME NEW w \in Workspaces, Build(w)
        PROVE  seq'[s] > seq'[t]
    <2>1. CASE UNCHANGED rows
      BY <1>1, <2>1 DEF rows
    <2>2. CASE Accepted(w) /\ catalog' = w /\ alloc' = Placed(w) /\ seq' = Sequenced(w)
      <3>1. s[1] \in JobsOf(w)
        BY <2>2, PlacedRows DEF BuildInv, BuildTypes
      <3>2. ValidDemands(w) /\ ~Circular(w)
        BY <2>2 DEF Accepted
      <3> QED BY <2>2, <3>1, <3>2, SequencedRespects
    <2> QED BY <1>2, <2>1, <2>2 DEF Build
  <1>3. CASE Collect
    <2>1. \A u \in Slots : /\ alloc'[u] = IF alloc[u] = "removed" THEN "none" ELSE alloc[u]
                           /\ seq'[u] = IF alloc[u] = "removed" THEN 0 ELSE seq[u]
      BY <1>3 DEF Collect
    <2>2. InUse(alloc, s) /\ InUse(alloc, t) /\ seq'[s] = seq[s] /\ seq'[t] = seq[t]
      BY <2>1 DEF InUse
    <2>3. catalog' = catalog
      BY <1>3 DEF Collect
    <2> QED BY <2>2, <2>3 DEF SeqRespectsDemands, InUse
  <1> QED BY <1>1, <1>2, <1>3 DEF Next, vars, rows, Deploy, ReplaceCA, Tick

(* deploy runs the waves of the sequence in order, so a job must come after every job
   its commands demand, however many demands lead to it and whatever was built before
   (detectCircularJobCommandDependencies, BuildDeploymentSequence). *)
THEOREM SequenceRespectsDemands == Spec => []SeqRespectsDemands
  <1>1. Init => SeqRespectsDemands
    BY DEF Init, SeqRespectsDemands
  <1>2. BuildInv /\ SeqRespectsDemands /\ [Next]_vars => SeqRespectsDemands'
    BY SequenceKeeps
  <1> QED BY <1>1, <1>2, BuildInvariant, PTL DEF Spec

-----------------------------------------------------------------------------
(* Resources. *)

(* The sums of ValidateWorkerResources are natural numbers.  The fold is over the
   subsets of the jobs, in the order CHOOSE takes them. *)
LEMMA SumIsNatural ==
    ASSUME NEW w, NEW r, NEW S, IsFiniteSet(S), \A j \in S : Requested(w, j, r) \in Nat
    PROVE  RequestedBy(w, S, r) \in Nat
  <1> DEFINE N      == Cardinality(S)
             One(s) == CHOOSE x \in s : TRUE
             Upto(n) == {s \in SUBSET S : Cardinality(s) <= n}
             Is(f, D) == f = [s \in D |-> IF s = {} THEN 0
                                          ELSE Requested(w, One(s), r) + f[s \ {One(s)}]]
             E == {n \in Nat : \E f : Is(f, Upto(n))}
  <1>1. \A s \in SUBSET S : /\ IsFiniteSet(s) /\ Cardinality(s) \in Nat /\ Cardinality(s) <= N
                            /\ Cardinality(s) = 0 <=> s = {}
    BY FS_Subset, FS_CardinalityType, FS_EmptySet
  <1>2. \A n \in Nat : \A s \in Upto(n + 1) : s # {} => One(s) \in s /\ s \ {One(s)} \in Upto(n)
    <2> TAKE n \in Nat
    <2> TAKE s \in Upto(n + 1)
    <2> HAVE s # {}
    <2>1. One(s) \in s
      OBVIOUS
    <2> HIDE DEF One
    <2>2. Cardinality(s \ {One(s)}) = Cardinality(s) - 1
      BY <1>1, <2>1, FS_RemoveElement
    <2>3. Cardinality(s) <= n + 1 /\ Cardinality(s) \in Nat
      BY <1>1
    <2>4. Cardinality(s) - 1 <= n
      BY <2>3
    <2> QED BY <2>1, <2>2, <2>4
  <1>3. \A n \in Nat : Upto(n) \subseteq Upto(n + 1)
    BY <1>1
  <1>4. Upto(0) = {{}}
    <2>1. \A s \in Upto(0) : s = {}
      BY <1>1
    <2>2. {} \in Upto(0)
      BY <1>1
    <2> QED BY <2>1, <2>2
  <1>5. Upto(N) = SUBSET S
    BY <1>1
  <1> HIDE DEF Upto, One
  <1>6. 0 \in E
    <2> DEFINE f == [s \in {{}} |-> 0]
    <2>1. Is(f, Upto(0))
      BY <1>4
    <2> QED BY <2>1
  <1>7. ASSUME NEW n \in Nat, n \in E PROVE n + 1 \in E
    <2>1. PICK f : Is(f, Upto(n))
      BY <1>7
    <2> DEFINE g == [s \in Upto(n + 1) |-> IF s = {} THEN 0
                                           ELSE Requested(w, One(s), r) + f[s \ {One(s)}]]
    <2>2. \A s \in Upto(n) : f[s] = g[s]
      BY <1>3, <2>1
    <2>3. Is(g, Upto(n + 1))
      BY <1>2, <2>2
    <2> HIDE DEF g
    <2> QED BY <2>3
  <1> HIDE DEF E
  <1>8. N \in E
    <2>1. N \in Nat
      BY FS_CardinalityType
    <2>2. Nat \subseteq E
      BY <1>6, <1>7, SetInduction
    <2> QED BY <2>1, <2>2
  <1> DEFINE iter == CHOOSE f : Is(f, SUBSET S)
  <1>9. Is(iter, SUBSET S)
    <2>1. \E f : Is(f, SUBSET S)
      BY <1>5, <1>8 DEF E
    <2> QED BY <2>1
  <1>10. RequestedBy(w, S, r) = iter[S]
    BY DEF RequestedBy, MapThenSumSet, MapThenFoldSet, One
  <1> HIDE DEF iter
  <1>11. \A s \in SUBSET S : iter[s] = IF s = {} THEN 0 ELSE Requested(w, One(s), r) + iter[s \ {One(s)}]
    BY <1>9
  <1> DEFINE T == {n \in Nat : \A s \in Upto(n) : iter[s] \in Nat}
  <1>12. \A n \in Nat : \A s \in Upto(n) : s \in SUBSET S /\ (s = {} => iter[s] \in Nat)
    BY <1>11 DEF Upto
  <1>13. 0 \in T
    <2>1. \A s \in Upto(0) : s = {}
      BY <1>4
    <2> QED BY <1>12, <2>1
  <1>14. ASSUME NEW n \in Nat, n \in T PROVE n + 1 \in T
    <2>1. ASSUME NEW s \in Upto(n + 1), s # {}
          PROVE  iter[s] \in Nat
      <3>1. One(s) \in s /\ s \ {One(s)} \in Upto(n) /\ s \in SUBSET S
        BY <1>2, <2>1 DEF Upto
      <3>2. Requested(w, One(s), r) \in Nat /\ iter[s \ {One(s)}] \in Nat
        BY <1>14, <3>1
      <3> QED BY <1>11, <2>1, <3>1, <3>2
    <2>2. \A s \in Upto(n + 1) : iter[s] \in Nat
      BY <1>12, <2>1
    <2> QED BY <2>2
  <1> HIDE DEF T
  <1>15. N \in T
    <2>1. N \in Nat
      BY FS_CardinalityType
    <2> QED BY <1>13, <1>14, <2>1, SetInduction
  <1>16. iter[S] \in Nat
    BY <1>5, <1>15 DEF T
  <1> QED BY <1>10, <1>16

(* What the jobs of a worker ask for is a natural number. *)
LEMMA RequiredIsNatural ==
    ASSUME NEW w \in Workspaces, NEW a, NEW h, NEW r \in Resources
    PROVE  Required(w, a, h, r) \in Nat
  <1> DEFINE S == {j \in JobsOf(w) : a[<<j, h>>] = "active"}
  <1>1. JobsOf(w) \subseteq Jobs /\ IsFiniteSet(Jobs)
    BY JobsAre, BuildAssumption
  <1>2. IsFiniteSet(S)
    BY <1>1, FS_Subset
  <1>3. ASSUME NEW j \in JobsOf(w)
        PROVE  Requested(w, j, r) \in Nat
    <2>1. /\ w.jobs[j].min[r] \in Nat /\ w.jobs[j].max[r] \in Nat
          /\ w.config[j][r] \in Nat \cup {Unset}
      <3>1. w.jobs[j] \in Manifest /\ w.config \in [Jobs -> [Resources -> Nat \cup {Unset}]]
        BY BuildAssumption DEF JobsOf
      <3>2. w.jobs[j].min \in [Resources -> Nat] /\ w.jobs[j].max \in [Resources -> Nat]
        BY <3>1 DEF Manifest
      <3> QED BY <1>1, <3>1, <3>2
    <2> QED BY <2>1 DEF Requested, MaxOf
  <1> HIDE DEF S
  <1>4. RequestedBy(w, S, r) \in Nat
    <2>1. \A j \in S : Requested(w, j, r) \in Nat
      BY <1>3 DEF S
    <2> QED BY <1>2, <2>1, SumIsNatural
  <1> QED BY <1>4 DEF Required, S

(* A sum is over the jobs that are active. *)
LEMMA RequiredDepends ==
    ASSUME NEW w, NEW a, NEW b, NEW h, NEW r,
           \A j \in JobsOf(w) : a[<<j, h>>] = "active" <=> b[<<j, h>>] = "active"
    PROVE  Required(w, a, h, r) = Required(w, b, h, r)
  <1>1. {j \in JobsOf(w) : a[<<j, h>>] = "active"} = {j \in JobsOf(w) : b[<<j, h>>] = "active"}
    OBVIOUS
  <1> QED BY <1>1 DEF Required

(* A build that is accepted fits, and nothing else makes an allocation active. *)
LEMMA ResourcesKeep ==
    ASSUME BuildInv, ResourcesFit, [Next]_vars
    PROVE  ResourcesFit'
  <1>1. CASE UNCHANGED <<catalog, alloc>>
    BY <1>1 DEF ResourcesFit
  <1>2. ASSUME NEW w \in Workspaces, Build(w)
        PROVE  ResourcesFit'
    <2>1. CASE UNCHANGED rows
      BY <1>1, <2>1 DEF rows
    <2>2. CASE Accepted(w) /\ catalog' = w /\ alloc' = Placed(w)
      <3>1. EnoughResources(w, Placed(w))
        BY <2>2 DEF Accepted
      <3>2. ASSUME NEW h \in HostsOf(w), NEW r \in Resources
            PROVE  Required(w, Placed(w), h, r) <= w.capacity[h][r]
        <4>1. w.hosts \in Seq(Workers) /\ w.capacity \in [Workers -> [Resources -> Nat]]
          BY BuildAssumption
        <4>2. h \in Workers
          BY <4>1 DEF HostsOf, ToSet
        <4>3. w.capacity[h][r] \in Nat /\ Required(w, Placed(w), h, r) \in Nat
          BY <4>1, <4>2, RequiredIsNatural
        <4>4. Required(w, Placed(w), h, r) > 0 => w.capacity[h][r] >= Required(w, Placed(w), h, r)
          BY <3>1 DEF EnoughResources
        <4> QED BY <4>3, <4>4
      <3> QED BY <2>2, <3>2 DEF ResourcesFit
    <2> QED BY <1>2, <2>1, <2>2 DEF Build
  <1>3. CASE Collect
    <2>1. \A s \in Slots : alloc'[s] = IF alloc[s] = "removed" THEN "none" ELSE alloc[s]
      BY <1>3 DEF Collect
    <2>2. catalog' = catalog
      BY <1>3 DEF Collect
    <2>3. JobsOf(catalog) \subseteq Jobs
      BY JobsAre DEF BuildInv, BuildTypes
    <2>4. ASSUME NEW h \in HostsOf(catalog), NEW r \in Resources
          PROVE  Required(catalog, alloc', h, r) <= catalog.capacity[h][r]
      <3>1. h \in Workers
        <4>1. HostsOf(NoCatalog) = {}
          BY DEF HostsOf, ToSet, NoCatalog
        <4>2. catalog \in Workspaces /\ catalog.hosts \in Seq(Workers)
          BY <4>1, BuildAssumption DEF BuildInv, BuildTypes
        <4> QED BY <4>2 DEF HostsOf, ToSet
      <3>2. \A j \in JobsOf(catalog) : alloc'[<<j, h>>] = "active" <=> alloc[<<j, h>>] = "active"
        BY <2>1, <2>3, <3>1 DEF Slots
      <3>3. Required(catalog, alloc', h, r) = Required(catalog, alloc, h, r)
        BY <3>2, RequiredDepends
      <3> QED BY <3>3 DEF ResourcesFit
    <2> QED BY <2>2, <2>4 DEF ResourcesFit
  <1> QED BY <1>1, <1>2, <1>3 DEF Next, vars, rows, Deploy, ReplaceCA, Tick

(* What the active jobs of a worker ask for together is what it has, through every
   change of limits, configuration, placement and disabled.json
   (ValidateWorkerResources). *)
THEOREM ResourcesAlwaysFit == Spec => []ResourcesFit
  <1>1. Init => ResourcesFit
    <2>1. HostsOf(NoCatalog) = {}
      BY DEF HostsOf, ToSet, NoCatalog
    <2> QED BY <2>1 DEF Init, ResourcesFit
  <1>2. BuildInv /\ ResourcesFit /\ [Next]_vars => ResourcesFit'
    BY ResourcesKeep
  <1> QED BY <1>1, <1>2, BuildInvariant, PTL DEF Spec

-----------------------------------------------------------------------------
(* The scrape targets of Prometheus. *)

(* A sequence of sequences, one after another: their elements and no others. *)
LEMMA Flattened ==
    ASSUME NEW B, NEW ss \in Seq(Seq(B))
    PROVE  FlattenSeq(ss) \in Seq(B)
  <1> DEFINE N == Len(ss)
             Is(f, M) == f = [i \in 1 .. M |-> IF i = 1 THEN ss[i] ELSE f[i - 1] \o ss[i]]
             S == {M \in Nat : \E f : Is(f, M)}
  <1>1. N \in Nat /\ \A i \in 1 .. N : ss[i] \in Seq(B)
    OBVIOUS
  <1>2. 0 \in S
    <2>1. Is([i \in 1 .. 0 |-> B], 0)
      OBVIOUS
    <2> QED BY <2>1
  <1>3. ASSUME NEW M \in Nat, M \in S PROVE M + 1 \in S
    <2>1. PICK f : Is(f, M)
      BY <1>3
    <2> DEFINE g == [i \in 1 .. M + 1 |-> IF i = 1 THEN ss[i] ELSE f[i - 1] \o ss[i]]
    <2>2. \A i \in 1 .. M : f[i] = IF i = 1 THEN ss[i] ELSE f[i - 1] \o ss[i]
      BY <2>1
    <2>3. \A i \in 1 .. M : f[i] = g[i]
      BY <2>2
    <2>4. \A i \in 1 .. M + 1 : i # 1 => i - 1 \in 1 .. M
      OBVIOUS
    <2>5. g = [i \in 1 .. M + 1 |-> IF i = 1 THEN ss[i] ELSE g[i - 1] \o ss[i]]
      BY <2>3, <2>4
    <2> HIDE DEF g
    <2>6. \E h : Is(h, M + 1)
      BY <2>5
    <2>7. M + 1 \in Nat
      OBVIOUS
    <2> HIDE DEF Is
    <2> QED BY <2>6, <2>7
  <1> HIDE DEF S
  <1>4. \E f : Is(f, N)
    <2>1. N \in S
      BY <1>1, <1>2, <1>3, SetInduction
    <2> QED BY <2>1 DEF S
  <1> DEFINE flatten == CHOOSE f : Is(f, N)
  <1>5. Is(flatten, N)
    BY <1>4
  <1>6. FlattenSeq(ss) = IF N = 0 THEN ss ELSE flatten[N]
    BY DEF FlattenSeq
  <1> HIDE DEF flatten
  <1>7. \A i \in 1 .. N : flatten[i] = IF i = 1 THEN ss[i] ELSE flatten[i - 1] \o ss[i]
    BY <1>5
  <1> DEFINE T == {n \in Nat : n \in 1 .. N => flatten[n] \in Seq(B)}
  <1>8. 0 \in T
    OBVIOUS
  <1>9. ASSUME NEW n \in Nat, n \in T PROVE n + 1 \in T
    <2> SUFFICES ASSUME n + 1 \in 1 .. N PROVE flatten[n + 1] \in Seq(B)
      OBVIOUS
    <2>1. CASE n = 0
      BY <1>1, <1>7, <2>1
    <2>2. CASE n # 0
      <3>1. n \in 1 .. N /\ n + 1 # 1 /\ (n + 1) - 1 = n
        BY <1>1, <2>2
      <3>2. flatten[n] \in Seq(B) /\ ss[n + 1] \in Seq(B)
        BY <1>1, <1>9, <3>1
      <3>3. flatten[n + 1] = flatten[n] \o ss[n + 1]
        BY <1>7, <3>1
      <3> QED BY <3>2, <3>3
    <2> QED BY <2>1, <2>2
  <1> HIDE DEF T
  <1>10. N # 0 => flatten[N] \in Seq(B)
    <2>1. N \in T
      BY <1>1, <1>8, <1>9, SetInduction
    <2> QED BY <1>1, <2>1 DEF T
  <1>11. N = 0 => ss \in Seq(B)
    OBVIOUS
  <1> QED BY <1>6, <1>10, <1>11

(* The blocks of a scrape file are those of its items; one that is not of an item is
   empty. *)
LEMMA BlocksAre ==
    ASSUME NEW items \in Seq(Item), NEW n \in DOMAIN Blocks(items)
    PROVE  /\ Blocks(items)[n] \in ToSet(Blocks(items))
           /\ \A t \in Blocks(items)[n] : t \in TargetsOf(items)
  <1> DEFINE B     == {{}} \cup UNION {ToSet(items[k].blocks) : k \in DOMAIN items}
             of(k) == IF items[k].blocks = <<>> THEN <<{}>> ELSE items[k].blocks
  <1>1. \A k \in DOMAIN items : items[k].blocks \in Seq(SUBSET Target)
    <2>1. \A k \in DOMAIN items : items[k] \in Item
      OBVIOUS
    <2> QED BY <2>1 DEF Item
  <1>2. ASSUME NEW k \in DOMAIN items PROVE of(k) \in Seq(B)
    <2>1. CASE items[k].blocks = <<>>
      <3>1. {} \in B
        OBVIOUS
      <3> HIDE DEF B
      <3> QED BY <2>1, <3>1
    <2>2. CASE items[k].blocks # <<>>
      <3> DEFINE q == items[k].blocks
      <3>1. q \in Seq(SUBSET Target)
        BY <1>1
      <3>2. \A i \in DOMAIN q : q[i] \in B
        BY DEF ToSet
      <3> HIDE DEF B, q
      <3>3. q \in Seq(B)
        BY <3>1, <3>2
      <3> QED BY <2>2, <3>3 DEF q
    <2> QED BY <2>1, <2>2
  <1>3. [k \in DOMAIN items |-> of(k)] \in Seq(Seq(B))
    <2> HIDE DEF B, of
    <2>1. DOMAIN items = 1 .. Len(items) /\ Len(items) \in Nat
      OBVIOUS
    <2> QED BY <1>2, <2>1
  <1>4. Blocks(items) = FlattenSeq([k \in DOMAIN items |-> of(k)])
    BY DEF Blocks
  <1> HIDE DEF B, of
  <1>5. Blocks(items) \in Seq(B)
    BY <1>3, <1>4, Flattened
  <1>6. Blocks(items)[n] \in B
    BY <1>5
  <1>7. ASSUME NEW t \in Blocks(items)[n] PROVE t \in TargetsOf(items)
    <2>1. PICK k \in DOMAIN items : Blocks(items)[n] \in ToSet(items[k].blocks)
      BY <1>6 DEF B
    <2>2. items[k] \in ToSet(items)
      BY DEF ToSet
    <2> QED BY <2>1, <2>2 DEF TargetsOf
  <1> QED BY <1>7 DEF ToSet

(* ResolveMetricsPortKey: a target stands for ports of the manifest. *)
LEMMA PortsAreOwn ==
    ASSUME NEW j, NEW t, NEW ports
    PROVE  PortsOf(j, t, ports) \subseteq ports
  BY DEF PortsOf, ImplicitPorts

(* No port has the name that stands for an address. *)
LEMMA AddressIsNoPort == Address \notin PortNames
  <1>1. \A j : OwnMetricsPort(j) # Address
    BY DEF OwnMetricsPort, Address
  <1>2. Address \notin {MetricsPort, <<"http_port">>}
    BY DEF Address, MetricsPort
  <1> QED BY <1>1, <1>2 DEF PortNames

(* expandStaticConfigs: a block that does not fail, of a job that is active somewhere,
   has targets. *)
LEMMA GoodBlocksHaveTargets ==
    ASSUME NEW j, NEW b, NEW ports, NEW numbered, NEW active, active # {},
           ~BlockFails(j, b, ports, numbered, active)
    PROVE  ~BlockIsEmpty(j, b, ports, active)
  <1>1. PICK t \in b : TRUE
    BY DEF BlockFails
  <1>2. Expanded(j, t, ports, active) # {}
    <2>1. CASE t.port = Address
      <3>1. <<Nobody, Address>> \in Expanded(j, t, ports, active)
        BY <2>1 DEF Expanded
      <3> QED BY <3>1
    <2>2. CASE t.port # Address
      <3>1. Cardinality(PortsOf(j, t, ports)) = 1 /\ (t.pin = Nobody \/ t.pin \in active)
        BY <1>1, <2>2 DEF BlockFails
      <3>2. PortsOf(j, t, ports) # {}
        BY <3>1, FS_EmptySet
      <3>3. PICK p : p \in PortsOf(j, t, ports)
        BY <3>2
      <3>4. PICK h \in active : t.pin \in {Nobody, h}
        BY <3>1
      <3>5. <<h, p>> \in Expanded(j, t, ports, active)
        BY <2>2, <3>3, <3>4 DEF Expanded
      <3> QED BY <3>5
    <2> QED BY <2>1, <2>2
  <1> QED BY <1>1, <1>2 DEF BlockIsEmpty

(* ExpandScrapeConfigs: what is rendered of a job is of its items, and all of it if
   nothing fails and the job is active somewhere. *)
LEMMA TargetsRendered ==
    ASSUME NEW j, NEW items, NEW ports, NEW numbered, NEW active
    PROVE  LET r == ExpandScrapeConfigs(j, items, ports, numbered, active)
               y(i, x) == <<Resolved(j, i), x[1], x[2]>>
           IN  /\ \A z \in r.targets : \E i \in ToSet(items) : \E t \in TargetsOf(<<i>>) :
                      \E x \in Expanded(j, t, ports, active) : z = y(i, x)
               /\ ~r.fails /\ active # {} =>
                      \A i \in ToSet(items) : \A t \in TargetsOf(<<i>>) :
                          \A x \in Expanded(j, t, ports, active) : y(i, x) \in r.targets
               /\ r.fails => \E n \in DOMAIN Blocks(items) :
                                BlockFails(j, Blocks(items)[n], ports, numbered, active)
  <1> DEFINE blocks  == Blocks(items)
             failing == {n \in DOMAIN blocks : BlockFails(j, blocks[n], ports, numbered, active)}
             empty   == {n \in DOMAIN blocks : BlockIsEmpty(j, blocks[n], ports, active)} \ failing
             all     == UNION {UNION {{<<Resolved(j, i), x[1], x[2]>> : x \in Expanded(j, t, ports, active)}
                                      : t \in UNION ToSet(i.blocks)} : i \in ToSet(items)}
             r       == ExpandScrapeConfigs(j, items, ports, numbered, active)
  <1>1. /\ r.fails = (\E n \in failing : \A k \in empty : n < k)
        /\ r.targets = IF empty # {} THEN {} ELSE all
    BY DEF ExpandScrapeConfigs
  <1>2. \A i : TargetsOf(<<i>>) = UNION ToSet(i.blocks)
    BY DEF TargetsOf, ToSet
  <1>3. \A z : z \in all <=> \E i \in ToSet(items) : \E t \in TargetsOf(<<i>>) :
                                \E x \in Expanded(j, t, ports, active) : z = <<Resolved(j, i), x[1], x[2]>>
    <2> DEFINE Ys(i, t) == {<<Resolved(j, i), x[1], x[2]>> : x \in Expanded(j, t, ports, active)}
    <2>1. all = UNION {UNION {Ys(i, t) : t \in UNION ToSet(i.blocks)} : i \in ToSet(items)}
      OBVIOUS
    <2>2. \A i, t, z : z \in Ys(i, t) <=> \E x \in Expanded(j, t, ports, active) :
                                            z = <<Resolved(j, i), x[1], x[2]>>
      OBVIOUS
    <2> DEFINE U(i) == UNION {Ys(i, t) : t \in UNION ToSet(i.blocks)}
    <2> HIDE DEF Ys, all
    <2>4. \A i, z : z \in U(i) <=> \E t \in UNION ToSet(i.blocks) : z \in Ys(i, t)
      OBVIOUS
    <2>5. all = UNION {U(i) : i \in ToSet(items)}
      BY <2>1
    <2> HIDE DEF U
    <2>6. \A z : z \in all <=> \E i \in ToSet(items) : z \in U(i)
      BY <2>5
    <2>3. \A z : z \in all <=> \E i \in ToSet(items) : \E t \in UNION ToSet(i.blocks) : z \in Ys(i, t)
      BY <2>4, <2>6
    <2>7. \A i : \A t : t \in TargetsOf(<<i>>) <=> t \in UNION ToSet(i.blocks)
      BY <1>2
    <2>8. \A z : z \in all <=> \E i \in ToSet(items) : \E t \in TargetsOf(<<i>>) : z \in Ys(i, t)
      BY <2>3, <2>7, Zenon
    <2>9. ASSUME NEW z \in all
          PROVE  \E i \in ToSet(items) : \E t \in TargetsOf(<<i>>) :
                     \E x \in Expanded(j, t, ports, active) : z = <<Resolved(j, i), x[1], x[2]>>
      <3>1. PICK i \in ToSet(items) : \E t \in TargetsOf(<<i>>) : z \in Ys(i, t)
        BY <2>8
      <3>2. PICK t \in TargetsOf(<<i>>) : z \in Ys(i, t)
        BY <3>1
      <3>3. \E x \in Expanded(j, t, ports, active) : z = <<Resolved(j, i), x[1], x[2]>>
        BY <2>2, <3>2
      <3> QED BY <3>3, Zenon
    <2>10. ASSUME NEW i \in ToSet(items), NEW t \in TargetsOf(<<i>>), NEW x \in Expanded(j, t, ports, active)
           PROVE  <<Resolved(j, i), x[1], x[2]>> \in all
      <3>1. <<Resolved(j, i), x[1], x[2]>> \in Ys(i, t)
        BY <2>2
      <3> QED BY <2>8, <3>1
    <2> QED BY <2>9, <2>10
  <1>4. ASSUME active # {} PROVE empty = {}
    <2> HIDE DEF blocks
    <2> QED BY <1>4, GoodBlocksHaveTargets
  <1>5. r.fails => \E n \in DOMAIN blocks : BlockFails(j, blocks[n], ports, numbered, active)
    BY <1>1
  <1> HIDE DEF all, empty, failing, r, blocks
  <1>6. r.targets \subseteq all /\ (active # {} => r.targets = all)
    BY <1>1, <1>4
  <1> QED BY <1>3, <1>5, <1>6 DEF r, blocks

(* What the jobs of J render together. *)
JobsRendered(m, act, J) ==
    Joined({ExpandScrapeConfigs(j, m[j].items, m[j].ports, m[j].ports, act[j]) : j \in J})

(* The two halves of ScrapeTargetsExact, of what is rendered as r for allocations act. *)
TargetsExact(m, act, r) ==
    ~r.fails => \A x \in ItemsOf(m) : LET i == m[x[1]].items[x[2]] IN
        \A t \in TargetsOf(<<i>>) : t.port # Address /\ t.pin = Nobody =>
            \A h \in Workers, p \in PortsOf(x[1], t, m[x[1]].ports) :
                <<Resolved(x[1], i), h, p>> \in r.targets <=> h \in act[x[1]]

FailuresFounded(m, act, r) ==
    r.fails => \E j \in Scraped(m) :
        \/ {} \in ToSet(Blocks(m[j].items))
        \/ \E t \in Placeholders(m[j].items) : t.pin \notin {Nobody} \cup act[j]

(* What a build knows of the _prometheus directories it accepted. *)
GoodMonitoring(m) ==
    /\ DOMAIN m \subseteq Jobs /\ \A j \in DOMAIN m : m[j] \in Monitored
    /\ HasServer(m) /\ ValidMonitoring(m)

(* The jobs and items of a target that is rendered: names tell them apart. *)
LEMMA JobsRenderExactly ==
    ASSUME NEW m, GoodMonitoring(m), NEW act, NEW J, J \subseteq Scraped(m), Listed(m, act) \subseteq J
    PROVE  TargetsExact(m, act, JobsRendered(m, act, J))
  <1> DEFINE of(j) == ExpandScrapeConfigs(j, m[j].items, m[j].ports, m[j].ports, act[j])
             r     == JobsRendered(m, act, J)
  <1>1. /\ r.fails = (\E j \in J : of(j).fails)
        /\ r.targets = UNION {of(j).targets : j \in J}
    BY DEF JobsRendered, Joined
  <1> HIDE DEF r
  <1> SUFFICES ASSUME ~r.fails, NEW x \in ItemsOf(m),
                      NEW t \in TargetsOf(<<m[x[1]].items[x[2]]>>), t.port # Address, t.pin = Nobody,
                      NEW h \in Workers, NEW p \in PortsOf(x[1], t, m[x[1]].ports)
               PROVE  <<Resolved(x[1], m[x[1]].items[x[2]]), h, p>> \in r.targets <=> h \in act[x[1]]
    BY DEF TargetsExact, r
  <1> DEFINE j == x[1]
             i == m[j].items[x[2]]
  <1>2. j \in Scraped(m) /\ x[2] \in DOMAIN m[j].items /\ x = <<j, x[2]>>
    BY DEF ItemsOf
  <1>3. m[j] \in Monitored /\ m[j].ports \subseteq PortNames
    BY <1>2 DEF GoodMonitoring, Scraped, Monitored
  <1>4. i \in ToSet(m[j].items)
    BY <1>2 DEF ToSet
  <1>5. p # Address
    BY <1>3, PortsAreOwn, AddressIsNoPort
  <1>6. ASSUME h \in act[j] PROVE <<Resolved(j, i), h, p>> \in r.targets
    <2>1. j \in J
      BY <1>2, <1>6 DEF Listed
    <2>2. <<h, p>> \in Expanded(j, t, m[j].ports, act[j])
      BY <1>6 DEF Expanded
    <2>3. ~of(j).fails /\ act[j] # {}
      BY <1>1, <1>6, <2>1
    <2>4. <<Resolved(j, i), <<h, p>>[1], <<h, p>>[2]>> \in of(j).targets
      <3>1. \A o \in ToSet(m[j].items) : \A u \in TargetsOf(<<o>>) :
                \A z \in Expanded(j, u, m[j].ports, act[j]) :
                    <<Resolved(j, o), z[1], z[2]>> \in of(j).targets
        BY <2>3, TargetsRendered
      <3>2. t \in TargetsOf(<<i>>)
        OBVIOUS
      <3> HIDE DEF i, j, of
      <3> QED BY <1>4, <2>2, <3>1, <3>2
    <2> QED BY <1>1, <2>1, <2>4
  <1>7. ASSUME <<Resolved(j, i), h, p>> \in r.targets PROVE h \in act[j]
    <2>1. PICK k \in J : <<Resolved(j, i), h, p>> \in of(k).targets
      BY <1>1, <1>7
    <2>2. PICK o \in ToSet(m[k].items) : \E u \in TargetsOf(<<o>>) :
              \E z \in Expanded(k, u, m[k].ports, act[k]) :
                  <<Resolved(j, i), h, p>> = <<Resolved(k, o), z[1], z[2]>>
      <3> HIDE DEF i, j
      <3> QED BY <2>1, TargetsRendered
    <2>3. PICK u, z : /\ z \in Expanded(k, u, m[k].ports, act[k])
                      /\ Resolved(j, i) = Resolved(k, o) /\ h = z[1] /\ p = z[2]
      BY <2>2
    <2>4. PICK n \in DOMAIN m[k].items : o = m[k].items[n]
      BY <2>2 DEF ToSet
    <2>5. <<k, n>> \in ItemsOf(m)
      BY <2>1, <2>4 DEF ItemsOf
    <2>6. x = <<k, n>>
      <3>1. UniqueNames(m)
        BY DEF GoodMonitoring, ValidMonitoring
      <3> QED BY <2>3, <2>4, <2>5, <3>1 DEF UniqueNames
    <2>7. h \in act[k]
      BY <1>5, <2>3 DEF Expanded
    <2> QED BY <2>6, <2>7
  <1> QED BY <1>6, <1>7

(* A rendering fails only for what a build cannot know: targets that are not there. *)
LEMMA FailuresAreFounded ==
    ASSUME NEW m, GoodMonitoring(m), NEW act, NEW J, J \subseteq Scraped(m)
    PROVE  FailuresFounded(m, act, JobsRendered(m, act, J))
  <1> DEFINE of(j) == ExpandScrapeConfigs(j, m[j].items, m[j].ports, m[j].ports, act[j])
             r     == JobsRendered(m, act, J)
  <1>1. r.fails = (\E j \in J : of(j).fails)
    BY DEF JobsRendered, Joined
  <1> HIDE DEF r
  <1> SUFFICES ASSUME r.fails
               PROVE  \E j \in Scraped(m) :
                          \/ {} \in ToSet(Blocks(m[j].items))
                          \/ \E t \in Placeholders(m[j].items) : t.pin \notin {Nobody} \cup act[j]
    BY DEF FailuresFounded, r
  <1>2. PICK j \in J : of(j).fails
    BY <1>1
  <1>3. PICK n \in DOMAIN Blocks(m[j].items) :
            BlockFails(j, Blocks(m[j].items)[n], m[j].ports, m[j].ports, act[j])
    BY <1>2, TargetsRendered
  <1> DEFINE b == Blocks(m[j].items)[n]
  <1>4. j \in Scraped(m) /\ m[j].items \in Seq(Item)
    BY DEF GoodMonitoring, Scraped, Monitored
  <1>5. b \in ToSet(Blocks(m[j].items)) /\ \A t \in b : t \in TargetsOf(m[j].items)
    BY <1>4, BlocksAre
  <1>6. \A t \in Placeholders(m[j].items) : Cardinality(PortsOf(j, t, m[j].ports)) = 1
    BY <1>4 DEF GoodMonitoring, ValidMonitoring, ValidItems
  <1> HIDE DEF b
  <1>7. CASE b = {}
    BY <1>4, <1>5, <1>7
  <1>8. CASE b # {}
    <2>1. PICK t \in b : /\ t.port # Address
                         /\ \/ Cardinality(PortsOf(j, t, m[j].ports)) # 1
                            \/ ~(PortsOf(j, t, m[j].ports) \subseteq m[j].ports)
                            \/ t.pin # Nobody /\ t.pin \notin act[j]
      BY <1>3, <1>8 DEF BlockFails, b
    <2>2. t \in Placeholders(m[j].items)
      BY <1>5, <2>1 DEF Placeholders
    <2>3. t.pin # Nobody /\ t.pin \notin act[j]
      BY <1>6, <2>1, <2>2, PortsAreOwn
    <2> QED BY <1>4, <2>2, <2>3
  <1> QED BY <1>7, <1>8

(* renderScrapeConfigsFromWorkspace, while the workspace is that of the last build:
   no scrape file is unreadable. *)
LEMMA WorkspaceRenders ==
    ASSUME NEW m, GoodMonitoring(m), NEW act
    PROVE  RenderedFromWorkspace(m, act, m) = JobsRendered(m, act, Scraped(m))
  <1> DEFINE unreadable(j) == \/ Cardinality(m[j].scrape) # 1 \/ m[j].items = <<>>
                              \/ "tpl" \in m[j].scrape /\ j \notin DOMAIN m
             ports(j)      == IF j \in DOMAIN m THEN m[j].ports ELSE m[j].ports
             numbered(j)   == IF j \in DOMAIN m THEN m[j].ports ELSE {}
             failed        == [fails |-> TRUE, targets |-> {}]
  <1>1. ASSUME NEW j \in Scraped(m)
        PROVE  ~unreadable(j) /\ ports(j) = m[j].ports /\ numbered(j) = m[j].ports
    <2>1. j \in DOMAIN m /\ m[j].scrape # {} /\ m[j] \in Monitored
      BY DEF Scraped, GoodMonitoring
    <2>2. m[j].items # <<>> /\ Cardinality(m[j].scrape) <= 1
      BY <2>1 DEF GoodMonitoring, ValidMonitoring, ValidItems
    <2>3. m[j].scrape \subseteq {"yaml", "tpl"}
      BY <2>1 DEF Monitored
    <2>4. IsFiniteSet({"yaml", "tpl"})
      <3>1. IsFiniteSet({"yaml"})
        BY FS_Singleton
      <3>2. IsFiniteSet({"yaml"} \cup {"tpl"})
        BY <3>1, FS_AddElement
      <3>3. {"yaml"} \cup {"tpl"} = {"yaml", "tpl"}
        OBVIOUS
      <3> QED BY <3>2, <3>3
    <2>5. IsFiniteSet(m[j].scrape)
      BY <2>3, <2>4, FS_Subset
    <2>6. Cardinality(m[j].scrape) \in Nat /\ Cardinality(m[j].scrape) # 0
      BY <2>1, <2>5, FS_CardinalityType, FS_EmptySet
    <2>7. Cardinality(m[j].scrape) = 1
      BY <2>2, <2>6
    <2> QED BY <2>1, <2>2, <2>7
  <1>2. RenderedFromWorkspace(m, act, m) =
            Joined({IF unreadable(j) THEN failed
                    ELSE ExpandScrapeConfigs(j, m[j].items, ports(j), numbered(j), act[j]) : j \in Scraped(m)})
    BY DEF RenderedFromWorkspace
  <1> HIDE DEF unreadable, ports, numbered, failed
  <1>3. {IF unreadable(j) THEN failed
         ELSE ExpandScrapeConfigs(j, m[j].items, ports(j), numbered(j), act[j]) : j \in Scraped(m)}
          = {ExpandScrapeConfigs(j, m[j].items, m[j].ports, m[j].ports, act[j]) : j \in Scraped(m)}
    BY <1>1
  <1> QED BY <1>2, <1>3 DEF JobsRendered

(* What the store holds of the jobs that are scraped. *)
CatalogStored(s, m, act) ==
    /\ Live(s, ScrapeJobs) /\ s[ScrapeJobs].value.text = Listed(m, act)
    /\ \A j \in Scraped(m) : s[ScrapeKey(j)].value.text = m[j].items

(* RenderScrapeConfigsYAML is exact, from the keys and from the workspace. *)
LEMMA RenderedIsExact ==
    ASSUME NEW m, GoodMonitoring(m), NEW act, NEW s, CatalogStored(s, m, act)
    PROVE  LET r == Rendered(s, m, act, m)
           IN  TargetsExact(m, act, r) /\ FailuresFounded(m, act, r)
  <1> DEFINE J == Listed(m, act)
  <1>1. J \subseteq Scraped(m)
    BY DEF Listed
  <1>2. RenderedFromKV(s, m, act) = JobsRendered(m, act, J)
    <2>1. \A j \in J : s[ScrapeKey(j)].value.text = m[j].items
      BY <1>1 DEF CatalogStored
    <2>2. RenderedFromKV(s, m, act) =
              Joined({ExpandScrapeConfigs(j, s[ScrapeKey(j)].value.text, m[j].ports, m[j].ports, act[j]) : j \in J})
      BY DEF RenderedFromKV, CatalogStored
    <2> HIDE DEF J
    <2>3. {ExpandScrapeConfigs(j, s[ScrapeKey(j)].value.text, m[j].ports, m[j].ports, act[j]) : j \in J}
            = {ExpandScrapeConfigs(j, m[j].items, m[j].ports, m[j].ports, act[j]) : j \in J}
      BY <2>1
    <2> QED BY <2>2, <2>3 DEF JobsRendered
  <1>3. \/ Rendered(s, m, act, m) = JobsRendered(m, act, J)
        \/ Rendered(s, m, act, m) = JobsRendered(m, act, Scraped(m))
    BY <1>2, WorkspaceRenders DEF Rendered
  <1> HIDE DEF J
  <1>4. /\ TargetsExact(m, act, JobsRendered(m, act, J))
        /\ FailuresFounded(m, act, JobsRendered(m, act, J))
    BY <1>1, JobsRenderExactly, FailuresAreFounded DEF J
  <1>5. /\ TargetsExact(m, act, JobsRendered(m, act, Scraped(m)))
        /\ FailuresFounded(m, act, JobsRendered(m, act, Scraped(m)))
    BY <1>1, JobsRenderExactly, FailuresAreFounded DEF J
  <1> QED BY <1>3, <1>4, <1>5

(* The catalog of Prometheus is in the store as the last build left it. *)
PrometheusInv ==
    LET m == Monitoring(catalog)
    IN  HasServer(m) => GoodMonitoring(m) /\ CatalogStored(kv, m, ActiveOf(alloc))

(* The keys of promconfig.BuildCatalog have a namespace of their own. *)
LEMMA PrometheusPaths ==
    /\ \A p \in PrometheusNS : p \in Paths /\ p[1] = "maand/prometheus"
    /\ ScrapeJobs \in PrometheusNS /\ \A j \in Jobs : ScrapeKey(j) \in PrometheusNS
    /\ \A j : ScrapeKey(j) # ScrapeJobs /\ ScrapeKey(j)[3] = j
  <1>1. PrometheusNS \subseteq Paths
    BY BuildAssumption DEF PathsOfBuild
  <1>2. \A j : ScrapeKey(j)[2] = "scrape/"
    BY DEF ScrapeKey
  <1>3. ScrapeJobs[2] = "scrape_jobs"
    BY DEF ScrapeJobs
  <1>4. \A j : ScrapeKey(j) # ScrapeJobs
    BY <1>2, <1>3
  <1> QED BY <1>1, <1>4 DEF PrometheusNS, ScrapeKey, ScrapeJobs

(* A sync and a commit keep a store a store. *)
LEMMA StoreKeeps ==
    ASSUME NEW s, IsStore(s)
    PROVE  /\ \A new, scope : IsStore(Sync(s, new, scope))
           /\ IsStore(Clean(s))
  <1>1. \A p \in Paths : IsEntry(Clean(s)[p])
    BY CleanEffect
  <1>2. ASSUME NEW new, NEW scope PROVE IsStore(Sync(s, new, scope))
    BY SyncEffect DEF IsStore
  <1> QED BY <1>1, <1>2 DEF IsStore

(* The monitoring of a workspace is of its jobs, and as their manifests say. *)
LEMMA MonitoringIs ==
    ASSUME NEW w \in Workspaces \cup {NoCatalog}
    PROVE  /\ DOMAIN Monitoring(w) \subseteq Jobs
           /\ \A j \in DOMAIN Monitoring(w) : Monitoring(w)[j] \in Monitored
           /\ w = NoCatalog => ~HasServer(Monitoring(w))
  <1>1. DOMAIN Monitoring(w) = JobsOf(w) /\ \A j \in JobsOf(w) : Monitoring(w)[j] = w.jobs[j].prometheus
    BY DEF Monitoring
  <1>2. JobsOf(NoCatalog) = {}
    BY DEF JobsOf, NoCatalog
  <1>3. \A j \in JobsOf(w) : w.jobs[j].prometheus \in Monitored
    <2> TAKE j \in JobsOf(w)
    <2>1. w.jobs[j] \in Manifest
      BY <1>2, BuildAssumption DEF JobsOf
    <2> QED BY <2>1 DEF Manifest
  <1> QED BY <1>1, <1>2, <1>3, JobsAre DEF HasServer

(* promconfig.BuildCatalog is the last to write before the commit, and nothing else of
   a build writes its keys. *)
LEMMA BuildStoresCatalog ==
    ASSUME IsStore(kv), NEW w \in Workspaces, NEW a, HasServer(Monitoring(w))
    PROVE  CatalogStored(Built(w, a), Monitoring(w), ActiveOf(a))
  <1> DEFINE m  == Monitoring(w)
             c  == CatalogVars(m, ActiveOf(a))
             s3 == WithAllocations(w, a, WithCerts(w, a, WithVariables(w, a)))
             s4 == Sync(s3, ScrapeNames(m), {})
             s5 == Sync(s4, c, PrometheusNS)
  <1>1. Built(w, a) = Clean(s5)
    BY DEF Built, WithScrapes, WithPrometheus
  <1>2. IsStore(s4)
    <2>1. IsStore(WithVariables(w, a))
      BY StoreKeeps DEF WithVariables
    <2>2. IsStore(WithCerts(w, a, WithVariables(w, a)))
      BY <2>1, StoreKeeps DEF WithCerts
    <2>3. IsStore(s3)
      BY <2>2, StoreKeeps DEF WithAllocations
    <2> HIDE DEF s3
    <2> QED BY <2>3, StoreKeeps
  <1>3. Scraped(m) \subseteq Jobs
    BY MonitoringIs DEF Scraped
  <1>4. /\ DOMAIN c = {ScrapeKey(j) : j \in Scraped(m)} \cup {ScrapeJobs}
        /\ c[ScrapeJobs] = Listed(m, ActiveOf(a))
        /\ \A j \in Scraped(m) : c[ScrapeKey(j)] = m[j].items
    BY PrometheusPaths DEF CatalogVars
  <1> HIDE DEF c, s4, m
  <1>5. IsStore(s5)
    BY <1>2, StoreKeeps
  <1>6. ASSUME NEW p \in DOMAIN c, p \in Paths
        PROVE  Live(s5, p) /\ s5[p].value = Plain(c[p])
    BY <1>2, <1>6, SyncEffect
  <1> HIDE DEF s5
  <1>7. ASSUME NEW p \in DOMAIN c, p \in Paths
        PROVE  Live(Built(w, a), p) /\ Built(w, a)[p].value.text = c[p]
    <2>1. Live(s5, p) /\ s5[p].value = Plain(c[p])
      BY <1>6, <1>7
    <2>2. Live(Clean(s5), p) /\ Clean(s5)[p].value = Plain(c[p])
      BY <1>5, <1>7, <2>1, CleanEffect
    <2>3. Plain(c[p]).text = c[p]
      BY DEF Plain
    <2> QED BY <1>1, <2>2, <2>3
  <1>8. ScrapeJobs \in Paths /\ \A j \in Scraped(m) : ScrapeKey(j) \in Paths
    BY <1>3, PrometheusPaths
  <1>9. Live(Built(w, a), ScrapeJobs) /\ Built(w, a)[ScrapeJobs].value.text = Listed(m, ActiveOf(a))
    BY <1>4, <1>7, <1>8
  <1>10. \A j \in Scraped(m) : Built(w, a)[ScrapeKey(j)].value.text = m[j].items
    BY <1>4, <1>7, <1>8
  <1> QED BY <1>9, <1>10 DEF CatalogStored, m

(* What the jobs that are scraped render depends on the workers they are active on. *)
LEMMA ActiveKept ==
    ASSUME NEW a, NEW b, \A s \in Slots : a[s] = "active" <=> b[s] = "active"
    PROVE  ActiveOf(a) = ActiveOf(b)
  <1>1. \A j \in Jobs : \A h \in Workers : <<j, h>> \in Slots
    BY DEF Slots
  <1>2. \A j \in Jobs : Active(a, j) = Active(b, j)
    BY <1>1 DEF Active
  <1> QED BY <1>2 DEF ActiveOf

(* A step that keeps the catalog, the active allocations and the keys of Prometheus
   keeps what prometheus is rendered of. *)
LEMMA CatalogKept ==
    ASSUME PrometheusInv, catalog' = catalog,
           \A s \in Slots : alloc'[s] = "active" <=> alloc[s] = "active",
           \A p \in PrometheusNS : kv'[p].value = kv[p].value /\ (Live(kv, p) => Live(kv', p))
    PROVE  PrometheusInv'
  <1> DEFINE m == Monitoring(catalog)
  <1>1. ActiveOf(alloc') = ActiveOf(alloc)
    BY ActiveKept
  <1> SUFFICES ASSUME HasServer(m)
               PROVE  GoodMonitoring(m) /\ CatalogStored(kv', m, ActiveOf(alloc'))
    BY DEF PrometheusInv, CatalogStored, Live
  <1>2. GoodMonitoring(m) /\ CatalogStored(kv, m, ActiveOf(alloc))
    BY DEF PrometheusInv
  <1>3. Scraped(m) \subseteq Jobs
    BY <1>2 DEF GoodMonitoring, Scraped
  <1> HIDE DEF m
  <1>4. Live(kv', ScrapeJobs) /\ kv'[ScrapeJobs].value.text = Listed(m, ActiveOf(alloc'))
    BY <1>1, <1>2, PrometheusPaths DEF CatalogStored
  <1>5. \A j \in Scraped(m) : kv'[ScrapeKey(j)].value.text = m[j].items
    BY <1>2, <1>3, PrometheusPaths DEF CatalogStored
  <1> QED BY <1>2, <1>4, <1>5 DEF CatalogStored

(* Deploys and collections write no key of Prometheus. *)
LEMMA OthersKeepCatalog ==
    ASSUME IsStore(kv), PrometheusInv, Deploy \/ Collect
    PROVE  PrometheusInv'
  <1>1. CASE Deploy
    <2> DEFINE running == {j \in JobsOf(catalog) : Active(alloc, j) # {}}
               new == [p \in UNION {{<<"alloc", j, h, "version">> : h \in NonRemoved(alloc, j)}
                                    \cup VarsNS(j) \cup SecretsNS(j) : j \in running} |-> "deployed"]
               s1  == Sync(kv, new, {})
    <2>1. kv' = Clean(s1) /\ UNCHANGED <<catalog, alloc>>
      BY <1>1 DEF Deploy
    <2>2. ASSUME NEW p \in DOMAIN new PROVE p[1] # "maand/prometheus"
      <3>1. PICK j \in running : p \in {<<"alloc", j, h, "version">> : h \in NonRemoved(alloc, j)}
                                       \cup VarsNS(j) \cup SecretsNS(j)
        OBVIOUS
      <3>2. CASE p \in {<<"alloc", j, h, "version">> : h \in NonRemoved(alloc, j)}
        BY <3>2
      <3>3. CASE p \in VarsNS(j) \cup SecretsNS(j)
        BY <3>3 DEF VarsNS, SecretsNS
      <3> QED BY <3>1, <3>2, <3>3
    <2> HIDE DEF new
    <2>3. IsStore(s1)
      BY StoreKeeps
    <2>4. ASSUME NEW p \in PrometheusNS
          PROVE  kv'[p].value = kv[p].value /\ (Live(kv, p) => Live(kv', p))
      <3>1. p \in Paths /\ p \notin DOMAIN new
        BY <2>2, PrometheusPaths
      <3>2. s1[p] = kv[p]
        BY <3>1, SyncEffect
      <3> HIDE DEF s1
      <3>3. Clean(s1)[p].value = s1[p].value /\ (Live(Clean(s1), p) <=> Live(s1, p))
        BY <2>3, <3>1, CleanEffect
      <3> QED BY <2>1, <3>2, <3>3 DEF Live
    <2> QED BY <2>1, <2>4, CatalogKept
  <1>2. CASE Collect
    <2> DEFINE removed == {s \in Slots : alloc[s] = "removed"}
               gone    == {j \in Jobs : (\E s \in removed : s[1] = j) /\ Active(alloc, j) = {}}
               P       == (UNION {AllocNS(s[1], s[2]) : s \in removed}) \cup
                          (UNION {JobNS(j) \cup ConfNS(j) \cup VarsNS(j) \cup SecretsNS(j) : j \in gone})
               s1      == PurgePaths(kv, P)
    <2>1. /\ kv' = Clean(s1) /\ catalog' = catalog
          /\ \A s \in Slots : alloc'[s] = IF alloc[s] = "removed" THEN "none" ELSE alloc[s]
      BY <1>2 DEF Collect
    <2>2. \A p \in P : p[1] # "maand/prometheus"
      <3>1. \A j : \A p \in JobNS(j) \cup ConfNS(j) \cup VarsNS(j) \cup SecretsNS(j) :
                p[1] # "maand/prometheus"
        BY DEF JobNS, ConfNS, VarsNS, SecretsNS, NameKey
      <3> QED BY <3>1, AllocPaths
    <2> HIDE DEF P
    <2>3. IsStore(s1)
      BY PurgeEffect DEF IsStore
    <2>4. ASSUME NEW p \in PrometheusNS
          PROVE  kv'[p].value = kv[p].value /\ (Live(kv, p) => Live(kv', p))
      <3>1. p \in Paths /\ p \notin P
        BY <2>2, PrometheusPaths
      <3>2. s1[p] = kv[p]
        BY <3>1, PurgeEffect
      <3> HIDE DEF s1
      <3>3. Clean(s1)[p].value = s1[p].value /\ (Live(Clean(s1), p) <=> Live(s1, p))
        BY <2>3, <3>1, CleanEffect
      <3> QED BY <2>1, <3>2, <3>3 DEF Live
    <2>5. \A s \in Slots : alloc'[s] = "active" <=> alloc[s] = "active"
      BY <2>1
    <2> QED BY <2>1, <2>4, <2>5, CatalogKept
  <1> QED BY <1>1, <1>2

(* Every step keeps the catalog of Prometheus as the last build left it. *)
LEMMA PrometheusKeeps ==
    ASSUME BuildInv, PrometheusInv, [Next]_vars
    PROVE  PrometheusInv'
  <1>1. IsStore(kv)
    BY DEF BuildInv, BuildTypes
  <1>2. CASE UNCHANGED rows
    BY <1>2, CatalogKept DEF rows, Live
  <1>3. ASSUME NEW w \in Workspaces, Build(w)
        PROVE  PrometheusInv'
    <2>1. CASE Accepted(w) /\ catalog' = w /\ alloc' = Placed(w) /\ kv' = Built(w, Placed(w))
      <3> SUFFICES ASSUME HasServer(Monitoring(w))
                   PROVE  /\ GoodMonitoring(Monitoring(w))
                          /\ CatalogStored(Built(w, Placed(w)), Monitoring(w), ActiveOf(Placed(w)))
        BY <2>1 DEF PrometheusInv, CatalogStored, Live
      <3>1. GoodMonitoring(Monitoring(w))
        BY <2>1, MonitoringIs DEF GoodMonitoring, Accepted
      <3> QED BY <1>1, <3>1, BuildStoresCatalog
    <2>2. CASE UNCHANGED rows
      BY <1>2, <2>2
    <2> QED BY <1>3, <2>1, <2>2 DEF Build, Built
  <1> QED BY <1>1, <1>2, <1>3, OthersKeepCatalog DEF Next, vars, rows, ReplaceCA, Tick

(* What {{ scrapeConfigs }} renders, of the keys of one build and the rows that builds
   and gc have left since, is every port of every active allocation of the job that asks
   for it, and it fails only for targets that are not there (RenderScrapeConfigsYAML). *)
THEOREM ScrapesAreExact == Spec => []ScrapeTargetsExact
  <1>1. Init => PrometheusInv
    BY MonitoringIs DEF Init, PrometheusInv
  <1>2. BuildInv /\ PrometheusInv /\ [Next]_vars => PrometheusInv'
    BY PrometheusKeeps
  <1>3. PrometheusInv => ScrapeTargetsExact
    <2> DEFINE m == Monitoring(catalog)
               act == ActiveOf(alloc)
               r == Rendered(kv, m, act, m)
    <2> SUFFICES ASSUME PrometheusInv, HasServer(m) PROVE ScrapeTargetsExact
      BY DEF ScrapeTargetsExact
    <2>1. GoodMonitoring(m) /\ CatalogStored(kv, m, act)
      BY DEF PrometheusInv
    <2>2. \A j \in Jobs : act[j] = Active(alloc, j)
      BY DEF ActiveOf
    <2>3. Scraped(m) \subseteq Jobs /\ \A x \in ItemsOf(m) : x[1] \in Scraped(m)
      BY <2>1 DEF GoodMonitoring, Scraped, ItemsOf
    <2> HIDE DEF m, act
    <2>4. TargetsExact(m, act, r) /\ FailuresFounded(m, act, r)
      BY <2>1, RenderedIsExact
    <2> HIDE DEF r
    <2>5. ~r.fails => \A x \in ItemsOf(m) : LET i == m[x[1]].items[x[2]] IN
              \A t \in TargetsOf(<<i>>) : t.port # Address /\ t.pin = Nobody =>
                  \A h \in Workers, p \in PortsOf(x[1], t, m[x[1]].ports) :
                      <<Resolved(x[1], i), h, p>> \in r.targets <=> h \in Active(alloc, x[1])
      BY <2>2, <2>3, <2>4 DEF TargetsExact
    <2>6. r.fails => \E j \in Scraped(m) :
              \/ {} \in ToSet(Blocks(m[j].items))
              \/ \E t \in Placeholders(m[j].items) : t.pin \notin {Nobody} \cup Active(alloc, j)
      BY <2>2, <2>3, <2>4 DEF FailuresFounded
    <2> QED BY <2>5, <2>6, Zenon DEF ScrapeTargetsExact, m, act, r
  <1> QED BY <1>1, <1>2, <1>3, BuildInvariant, PTL DEF Spec

-----------------------------------------------------------------------------
(* A build of what the last one built. *)

(* Two entries that loads cannot tell apart. *)
Same(e, f) == e.value = f.value /\ e.version = f.version /\ (IsLive(e) <=> IsLive(f))

(* The keys P are as f has them, and those f does not have are not there. *)
Says(s, f, P) ==
    \A p \in P : IF p \in DOMAIN f THEN Live(s, p) /\ s[p].value = Plain(f[p]) ELSE ~Live(s, p)

(* syncNamespaceKeyValues, key by key: it depends on the entry of the key, leaves what
   is not its own, and what is as it should be. *)
LEMMA SyncKeeps ==
    ASSUME NEW s, NEW new, NEW scope, NEW p \in Paths
    PROVE  /\ \A u : u[p] = s[p] => Sync(u, new, scope)[p] = Sync(s, new, scope)[p]
           /\ p \notin DOMAIN new /\ (p \notin scope \/ ~Live(s, p)) => Sync(s, new, scope)[p] = s[p]
           /\ p \in DOMAIN new /\ Live(s, p) /\ s[p].value = Plain(new[p]) => Sync(s, new, scope)[p] = s[p]
  <1>1. \A u : Sync(u, new, scope)[p] =
            IF p \in DOMAIN new THEN PutValue(u[p], Plain(new[p]))
            ELSE IF p \in scope /\ IsLive(u[p]) THEN DeleteEntry(u[p]) ELSE u[p]
    BY DEF Sync
  <1>2. \A e, x : IsLive(e) /\ e.value = x => PutValue(e, x) = e
    BY DEF PutValue
  <1> QED BY <1>1, <1>2 DEF Live

(* What the stages of a build put and own. *)
LEMMA StagesAre ==
    ASSUME NEW w, NEW a, NEW s
    PROVE  /\ \A p \in DOMAIN CertVars(w, a, s) \cup CertScopes(w, a) : p[1] = "alloc"
           /\ \A p \in DOMAIN AllocVars(w, a) \cup AllocScope(w, a) : p[1] = "alloc"
           /\ \A p \in DOMAIN ScrapeNames(Monitoring(w)) : p[1] = "maand/job" /\ p[3] = "job_name"
           /\ \A p \in DOMAIN CatalogVars(Monitoring(w), ActiveOf(a)) \cup PrometheusNS : p[1] = "maand/prometheus"
           /\ \A p \in VariableScope(w, a) : p[1] # "maand/prometheus"
  <1>1. \A p \in DOMAIN CertVars(w, a, s) : p[1] = "alloc"
    BY DEF CertVars, CertPath
  <1>2. \A p \in CertScopes(w, a) : p[1] = "alloc"
    BY AllocPaths DEF CertScopes, CertScope
  <1>3. \A p \in DOMAIN AllocVars(w, a) \cup AllocScope(w, a) : p[1] = "alloc"
    BY AllocPaths DEF AllocVars, AllocScope, AllocScopeInUse
  <1>4. \A p \in DOMAIN ScrapeNames(Monitoring(w)) : p[1] = "maand/job" /\ p[3] = "job_name"
    BY DEF ScrapeNames, NameKey
  <1>5. \A p \in DOMAIN CatalogVars(Monitoring(w), ActiveOf(a)) \cup PrometheusNS : p[1] = "maand/prometheus"
    BY PrometheusPaths DEF CatalogVars, ScrapeKey, ScrapeJobs
  <1>6. \A p \in VariableScope(w, a) : p[1] # "maand/prometheus"
    <2> DEFINE N == "maand/prometheus"
    <2>1. \A j : \A p \in JobNS(j) \cup ConfNS(j) \cup VarsNS(j) \cup SecretsNS(j) : p[1] # N
      BY DEF JobNS, ConfNS, VarsNS, SecretsNS, NameKey
    <2>2. \A h : \A p \in WorkerNS(h) \cup TagsNS(h) : p[1] # N
      BY DEF WorkerNS, TagsNS
    <2>3. \A p \in SharedNS \cup BucketNS : p[1] # N
      BY DEF SharedNS, BucketNS
    <2>4. \A j, h : \A p \in AllocNS(j, h) : p[1] # N
      BY AllocPaths
    <2> DEFINE W1 == UNION {WorkerNS(h) \cup TagsNS(h) : h \in HostsOf(w)}
               W2 == UNION {WorkerNS(h) \cup UNION {AllocNS(j, h) : j \in {i \in Jobs : a[<<i, h>>] # "none"}}
                            : h \in RemovedWorkers(w)}
               W3 == UNION {JobNS(j) \cup ConfNS(j) : j \in JobsOf(w) \cup RemovedJobs(w)}
               W4 == UNION {UNION {AllocNS(j, h) : h \in Allocated(a, j)} : j \in Purged(w, a)}
               W5 == IF w.purge THEN UNION {VarsNS(j) \cup SecretsNS(j) : j \in Purged(w, a)} ELSE {}
    <2>5. \A p \in W1 : p[1] # N
      BY <2>2
    <2>6. ASSUME NEW p \in W2 PROVE p[1] # N
      <3>1. PICK h \in RemovedWorkers(w) :
                p \in WorkerNS(h) \cup UNION {AllocNS(j, h) : j \in {i \in Jobs : a[<<i, h>>] # "none"}}
        OBVIOUS
      <3>2. CASE p \in WorkerNS(h)
        BY <2>2, <3>2
      <3>3. CASE p \in UNION {AllocNS(j, h) : j \in {i \in Jobs : a[<<i, h>>] # "none"}}
        BY <2>4, <3>3
      <3> QED BY <3>1, <3>2, <3>3
    <2>7. \A p \in W3 : p[1] # N
      BY <2>1
    <2>8. \A p \in W4 : p[1] # N
      BY <2>4
    <2>9. \A p \in W5 : p[1] # N
      BY <2>1
    <2>10. VariableScope(w, a) = W1 \cup W2 \cup W3 \cup W4 \cup W5 \cup SharedNS \cup BucketNS
      BY DEF VariableScope
    <2> HIDE DEF N, W1, W2, W3, W4, W5
    <2>11. \A p \in VariableScope(w, a) : p[1] # N
      BY <2>3, <2>5, <2>6, <2>7, <2>8, <2>9, <2>10
    <2> QED BY <2>11 DEF N
  <1> QED BY <1>1, <1>2, <1>3, <1>4, <1>5, <1>6

(* What BuildVariables puts, all together. *)
Variables(w, a) ==
    Together({WorkerVars(w, a), TagVars(w), JobVars(w, a), ConfVars(w, a), FileVars(w, a),
              SharedVars(w), BucketVars(w, a)})

(* No two functions of BuildVariables put the same key. *)
LEMMA VariablesAre ==
    ASSUME NEW w, NEW a
    PROVE  LET F == {WorkerVars(w, a), TagVars(w), JobVars(w, a), ConfVars(w, a), FileVars(w, a),
                     SharedVars(w), BucketVars(w, a)}
               V == Variables(w, a)
           IN  /\ \A f \in F : \A p \in DOMAIN f : p \in DOMAIN V /\ V[p] = f[p]
               /\ \A p \in DOMAIN V : \E f \in F : p \in DOMAIN f
               /\ \A p \in DOMAIN V : p[1] \notin {"alloc", "maand/prometheus"}
               /\ \A p \in DOMAIN V :
                     /\ p[1] = "maand/worker" => p \in DOMAIN WorkerVars(w, a) \/ p \in DOMAIN SharedVars(w)
                     /\ p[1] = "maand/worker/tags" => p \in DOMAIN TagVars(w)
                     /\ p[1] = "maand/job" => p \in DOMAIN JobVars(w, a)
                     /\ p[1] = "vars/bucket/job" => p \in DOMAIN ConfVars(w, a)
                     /\ p[1] = "maand/bucket" => p \in DOMAIN BucketVars(w, a)
  <1> DEFINE f1 == WorkerVars(w, a)
             f2 == TagVars(w)
             f3 == JobVars(w, a)
             f4 == ConfVars(w, a)
             f5 == FileVars(w, a)
             f6 == SharedVars(w)
             f7 == BucketVars(w, a)
             F  == {f1, f2, f3, f4, f5, f6, f7}
  <1>1. \A p \in DOMAIN f1 : p[1] = "maand/worker" /\ p \notin DOMAIN f6
    BY DEF WorkerVars, WorkerNS, SharedVars
  <1>2. \A p \in DOMAIN f6 : p[1] = "maand/worker"
    BY DEF SharedVars
  <1>3. \A p \in DOMAIN f2 : p[1] = "maand/worker/tags"
    BY DEF TagVars, TagsNS
  <1>4. \A p \in DOMAIN f3 : p[1] = "maand/job"
    BY DEF JobVars, JobNS, NameKey
  <1>5. \A p \in DOMAIN f4 : p[1] = "vars/bucket/job"
    BY DEF ConfVars, ConfNS
  <1>6. \A p \in DOMAIN f5 : p[1] = "vars/job"
    BY DEF FileVars, VarsNS
  <1>7. \A p \in DOMAIN f7 : p[1] = "maand/bucket"
    BY DEF BucketVars, BucketNS
  <1> HIDE DEF f1, f2, f3, f4, f5, f6, f7
  <1>8. \A f, g \in F : \A p : p \in DOMAIN f /\ p \in DOMAIN g => f = g
    BY <1>1, <1>2, <1>3, <1>4, <1>5, <1>6, <1>7
  <1>9. Variables(w, a) = Together(F)
    BY DEF Variables, f1, f2, f3, f4, f5, f6, f7
  <1>10. \A p \in DOMAIN Together(F) : \E f \in F : p \in DOMAIN f
    BY DEF Together
  <1>11. ASSUME NEW f \in F, NEW p \in DOMAIN f
         PROVE  p \in DOMAIN Together(F) /\ Together(F)[p] = f[p]
    <2>1. p \in DOMAIN Together(F)
      BY DEF Together
    <2>2. (CHOOSE g \in F : p \in DOMAIN g) = f
      BY <1>8
    <2>3. Together(F)[p] = (CHOOSE g \in F : p \in DOMAIN g)[p]
      BY <2>1 DEF Together
    <2> QED BY <2>1, <2>2, <2>3
  <1>12. \A p \in DOMAIN Together(F) :
            /\ p[1] \notin {"alloc", "maand/prometheus"}
            /\ p[1] = "maand/worker" => p \in DOMAIN f1 \/ p \in DOMAIN f6
            /\ p[1] = "maand/worker/tags" => p \in DOMAIN f2
            /\ p[1] = "maand/job" => p \in DOMAIN f3
            /\ p[1] = "vars/bucket/job" => p \in DOMAIN f4
            /\ p[1] = "maand/bucket" => p \in DOMAIN f7
    BY <1>1, <1>2, <1>3, <1>4, <1>5, <1>6, <1>7, <1>10
  <1> QED BY <1>9, <1>10, <1>11, <1>12 DEF f1, f2, f3, f4, f5, f6, f7

(* The store of a build, key by key: which stage decides. *)
LEMMA BuiltKeys ==
    ASSUME IsStore(kv), NEW w, NEW a
    PROVE  LET t  == Built(w, a)
               m  == Monitoring(w)
               s1 == Sync(kv, Variables(w, a), VariableScope(w, a))
               s2 == WithCerts(w, a, s1)
           IN  /\ s1 = WithVariables(w, a) /\ IsStore(s1) /\ IsStore(t)
               /\ \A p \in Paths :
                     /\ p[1] \notin {"alloc", "maand/prometheus"} /\ p \notin DOMAIN ScrapeNames(m) =>
                           Same(t[p], s1[p])
                     /\ p \in DOMAIN ScrapeNames(m) => Same(t[p], Sync(s1, ScrapeNames(m), {})[p])
                     /\ p[1] = "alloc" => Same(t[p], Sync(s2, AllocVars(w, a), AllocScope(w, a))[p])
                     /\ p[1] = "maand/prometheus" =>
                           Same(t[p], Sync(kv, CatalogVars(m, ActiveOf(a)), PrometheusNS)[p])
  <1> DEFINE t  == Built(w, a)
             m  == Monitoring(w)
             n  == ScrapeNames(m)
             g  == CatalogVars(m, ActiveOf(a))
             s1 == Sync(kv, Variables(w, a), VariableScope(w, a))
             c  == CertVars(w, a, s1)
             s2 == WithCerts(w, a, s1)
             s3 == Sync(s2, AllocVars(w, a), AllocScope(w, a))
             s4 == Sync(s3, n, {})
             s5 == Sync(s4, g, PrometheusNS)
  <1>1. s1 = WithVariables(w, a)
    BY DEF WithVariables, Variables
  <1>2. t = Clean(s5)
    BY <1>1 DEF Built, WithScrapes, WithAllocations, WithPrometheus
  <1>3. s2 = Sync(s1, c, CertScopes(w, a))
    BY DEF WithCerts, CertScopes
  <1>4. /\ \A p \in DOMAIN c \cup CertScopes(w, a) : p[1] = "alloc"
        /\ \A p \in DOMAIN AllocVars(w, a) \cup AllocScope(w, a) : p[1] = "alloc"
        /\ \A p \in DOMAIN n : p[1] = "maand/job" /\ p[3] = "job_name"
        /\ \A p \in DOMAIN g \cup PrometheusNS : p[1] = "maand/prometheus"
        /\ \A p \in VariableScope(w, a) : p[1] # "maand/prometheus"
        /\ \A p \in DOMAIN Variables(w, a) : p[1] \notin {"alloc", "maand/prometheus"}
    <2>1. \A p \in DOMAIN Variables(w, a) : p[1] \notin {"alloc", "maand/prometheus"}
      BY VariablesAre
    <2> HIDE DEF s1
    <2>2. \A p \in DOMAIN c \cup CertScopes(w, a) : p[1] = "alloc"
      BY StagesAre
    <2>3. \A p \in DOMAIN AllocVars(w, a) \cup AllocScope(w, a) : p[1] = "alloc"
      BY StagesAre
    <2>4. \A p \in DOMAIN n : p[1] = "maand/job" /\ p[3] = "job_name"
      BY StagesAre
    <2>5. \A p \in DOMAIN g \cup PrometheusNS : p[1] = "maand/prometheus"
      BY StagesAre
    <2>6. \A p \in VariableScope(w, a) : p[1] # "maand/prometheus"
      BY StagesAre
    <2> HIDE DEF c, n, g
    <2> QED BY <2>1, <2>2, <2>3, <2>4, <2>5, <2>6
  <1> HIDE DEF n, g, c
  <1>5. IsStore(s1)
    BY StoreKeeps
  <1> HIDE DEF s1, s2
  <1>6. IsStore(s2)
    BY <1>3, <1>5, StoreKeeps
  <1>7. IsStore(s3)
    BY <1>6, StoreKeeps
  <1> HIDE DEF s3
  <1>8. IsStore(s4)
    BY <1>7, StoreKeeps
  <1>9. \A p \in Paths : p \notin DOMAIN n => s4[p] = s3[p]
    BY SyncKeeps
  <1>10. \A p \in Paths : \A u : u[p] = s3[p] => s4[p] = Sync(u, n, {})[p]
    BY SyncKeeps
  <1> HIDE DEF s4
  <1>11. IsStore(s5)
    BY <1>8, StoreKeeps
  <1>12. \A p \in Paths : p[1] # "maand/prometheus" => s5[p] = s4[p]
    BY <1>4, SyncKeeps
  <1>13. \A p \in Paths : s4[p] = kv[p] => s5[p] = Sync(kv, g, PrometheusNS)[p]
    BY SyncKeeps
  <1> HIDE DEF s5
  <1>14. IsStore(t) /\ \A p \in Paths : Same(t[p], s5[p])
    BY <1>2, <1>11, StoreKeeps, CleanEffect DEF Same, Live
  <1>15. \A p \in Paths : p[1] # "alloc" => s3[p] = s1[p]
    <2>1. \A p \in Paths : p[1] # "alloc" => s2[p] = s1[p]
      BY <1>3, <1>4, SyncKeeps
    <2>2. \A p \in Paths : p[1] # "alloc" => s3[p] = s2[p]
      BY <1>4, SyncKeeps DEF s3
    <2> QED BY <2>1, <2>2
  <1>16. \A p \in Paths : p[1] = "maand/prometheus" => s1[p] = kv[p]
    BY <1>4, SyncKeeps DEF s1
  <1> HIDE DEF t
  <1>17. ASSUME NEW p \in Paths
         PROVE  /\ p[1] \notin {"alloc", "maand/prometheus"} /\ p \notin DOMAIN n => Same(t[p], s1[p])
                /\ p \in DOMAIN n => Same(t[p], Sync(s1, n, {})[p])
                /\ p[1] = "alloc" => Same(t[p], s3[p])
                /\ p[1] = "maand/prometheus" => Same(t[p], Sync(kv, g, PrometheusNS)[p])
    <2>1. ASSUME p[1] \notin {"alloc", "maand/prometheus"}, p \notin DOMAIN n PROVE Same(t[p], s1[p])
      <3>1. s5[p] = s1[p]
        BY <1>9, <1>12, <1>15, <2>1
      <3> QED BY <1>14, <3>1
    <2>2. ASSUME p \in DOMAIN n PROVE Same(t[p], Sync(s1, n, {})[p])
      <3>1. p[1] = "maand/job"
        BY <1>4, <2>2
      <3>2. s1[p] = s3[p] /\ s5[p] = s4[p]
        BY <1>12, <1>15, <3>1
      <3>3. s5[p] = Sync(s1, n, {})[p]
        BY <1>10, <3>2
      <3> QED BY <1>14, <3>3
    <2>3. ASSUME p[1] = "alloc" PROVE Same(t[p], s3[p])
      <3>1. s5[p] = s3[p]
        BY <1>4, <1>9, <1>12, <2>3
      <3> QED BY <1>14, <3>1
    <2>4. ASSUME p[1] = "maand/prometheus" PROVE Same(t[p], Sync(kv, g, PrometheusNS)[p])
      <3>1. s4[p] = kv[p]
        BY <1>4, <1>9, <1>15, <1>16, <2>4
      <3>2. s5[p] = Sync(kv, g, PrometheusNS)[p]
        BY <1>13, <3>1
      <3> QED BY <1>14, <3>2
    <2> QED BY <2>1, <2>2, <2>3, <2>4
  <1> QED BY <1>1, <1>5, <1>14, <1>17 DEF t, n, g, s1, s2, s3

(* The keys of a job that is active, as builds have them: it may be scraped under
   another name. *)
NameOf(m, j) == IF j \in Scraped(m) /\ HasServer(m) THEN Resolved(j, m[j].items[1]) ELSE j

JobKeys(w, a, j) ==
    [p \in JobNS(j) |-> IF p[3] = "version" THEN w.jobs[j].version
                        ELSE IF p[3] = "job_name" THEN NameOf(Monitoring(w), j)
                        ELSE InOrder(w, Active(a, j))]

ConfKeys(w, j) ==
    [p \in {q \in ConfNS(j) : \E r \in Resources : w.config[j][r] # Unset} |-> w.config[j]]

(* The store has of workspace w what a build of it for allocations a puts. *)
Settled(s, w, a) ==
    /\ \A h \in HostsOf(w) : Says(s, WorkerVars(w, a), WorkerNS(h)) /\ Says(s, TagVars(w), TagsNS(h))
    /\ Says(s, SharedVars(w), SharedNS) /\ Says(s, BucketVars(w, a), BucketNS)
    /\ \A j \in JobsOf(w) : Active(a, j) # {} =>
          Says(s, JobKeys(w, a, j), JobNS(j)) /\ Says(s, ConfKeys(w, j), ConfNS(j))
    /\ Says(s, AllocVars(w, a), DOMAIN AllocVars(w, a))
    /\ Says(s, CatalogVars(Monitoring(w), ActiveOf(a)), PrometheusNS)
    /\ \A u \in Slots : \A p \in CertNS(u[1], u[2]) : Live(s, p) => s[p].value = Plain(s[p].value.text)

(* Every key of a namespace is one of the store. *)
LEMMA NamespacesAre ==
    /\ \A h \in Workers : \A p \in WorkerNS(h) \cup TagsNS(h) : p \in Paths
    /\ \A j \in Jobs : \A p \in JobNS(j) \cup ConfNS(j) : p \in Paths /\ p[2] = j
    /\ \A p \in SharedNS \cup BucketNS : p \in Paths
    /\ \A h : \A p \in WorkerNS(h) : p[1] = "maand/worker" /\ p \notin SharedNS
    /\ \A h : \A p \in TagsNS(h) : p[1] = "maand/worker/tags"
    /\ \A p \in SharedNS : p[1] = "maand/worker"
    /\ \A p \in BucketNS : p[1] = "maand/bucket"
    /\ \A j : /\ \A p \in JobNS(j) : p[1] = "maand/job" /\ (p[3] = "job_name" <=> p = NameKey(j))
              /\ \A p \in ConfNS(j) : p[1] = "vars/bucket/job"
  <1>1. PathsOfBuild = Paths
    BY BuildAssumption
  <1>2. \A h \in Workers : \A p \in WorkerNS(h) \cup TagsNS(h) : p \in Paths
    BY <1>1 DEF PathsOfBuild
  <1>3. \A j \in Jobs : \A p \in JobNS(j) \cup ConfNS(j) : p \in Paths
    BY <1>1 DEF PathsOfBuild
  <1>4. \A p \in SharedNS \cup BucketNS : p \in Paths
    BY <1>1 DEF PathsOfBuild
  <1>5. /\ \A h : \A p \in WorkerNS(h) : p[1] = "maand/worker" /\ p \notin SharedNS
        /\ \A h : \A p \in TagsNS(h) : p[1] = "maand/worker/tags"
        /\ \A p \in SharedNS : p[1] = "maand/worker"
        /\ \A p \in BucketNS : p[1] = "maand/bucket"
    BY DEF WorkerNS, TagsNS, SharedNS, BucketNS
  <1>6. \A j : /\ \A p \in JobNS(j) : p[1] = "maand/job" /\ p[2] = j
               /\ \A p \in JobNS(j) : p[3] = "job_name" <=> p = NameKey(j)
               /\ \A p \in ConfNS(j) : p[1] = "vars/bucket/job" /\ p[2] = j
    BY DEF JobNS, ConfNS, NameKey
  <1> QED BY <1>2, <1>3, <1>4, <1>5, <1>6

(* BuildVariables keeps the keys of a job that is active. *)
LEMMA ActiveIsKept ==
    ASSUME NEW w, NEW a, NEW j \in JobsOf(w), Active(a, j) # {}
    PROVE  j \in Kept(w, a) /\ j \notin Purged(w, a)
  <1>1. NonRemoved(a, j) # {}
    BY DEF Active, NonRemoved
  <1> QED BY <1>1 DEF Kept, Purged, OutOfUse, RemovedJobs

(* What BuildVariables says of a key is what the build leaves, but of the names of
   jobs that are scraped. *)
LEMMA VariablesSaid ==
    ASSUME IsStore(kv), NEW w, NEW a, NEW p \in Paths,
           p[1] \notin {"alloc", "maand/prometheus"}, p \notin DOMAIN ScrapeNames(Monitoring(w))
    PROVE  /\ p \in DOMAIN Variables(w, a) => /\ Live(Built(w, a), p)
                                              /\ Built(w, a)[p].value = Plain(Variables(w, a)[p])
           /\ p \notin DOMAIN Variables(w, a) /\ p \in VariableScope(w, a) => ~Live(Built(w, a), p)
  <1> DEFINE t  == Built(w, a)
             V  == Variables(w, a)
             s1 == Sync(kv, V, VariableScope(w, a))
  <1>1. Same(t[p], s1[p])
    BY BuiltKeys
  <1>2. p \in DOMAIN V => Live(s1, p) /\ s1[p].value = Plain(V[p])
    BY SyncEffect
  <1>3. p \notin DOMAIN V /\ p \in VariableScope(w, a) => ~Live(s1, p)
    BY SyncEffect
  <1> HIDE DEF s1, V, t
  <1> QED BY <1>1, <1>2, <1>3 DEF Same, Live, V, t

(* The keys of workers, of the bucket, and of labels, after a build. *)
LEMMA WorkersSettle ==
    ASSUME IsStore(kv), NEW w \in Workspaces, NEW a
    PROVE  LET t == Built(w, a)
           IN  /\ \A h \in HostsOf(w) : Says(t, WorkerVars(w, a), WorkerNS(h)) /\ Says(t, TagVars(w), TagsNS(h))
               /\ Says(t, SharedVars(w), SharedNS) /\ Says(t, BucketVars(w, a), BucketNS)
  <1> DEFINE t == Built(w, a)
             V == Variables(w, a)
             n == ScrapeNames(Monitoring(w))
  <1>1. ASSUME NEW p \in Paths, p[1] \notin {"alloc", "maand/prometheus", "maand/job"}
        PROVE  /\ p \in DOMAIN V => Live(t, p) /\ t[p].value = Plain(V[p])
               /\ p \notin DOMAIN V /\ p \in VariableScope(w, a) => ~Live(t, p)
    <2>1. p \notin DOMAIN n
      BY <1>1, StagesAre
    <2> QED BY <1>1, <2>1, VariablesSaid
  <1>2. HostsOf(w) \subseteq Workers
    BY BuildAssumption DEF HostsOf, ToSet
  <1>3. /\ \A p \in DOMAIN WorkerVars(w, a) : p \in DOMAIN V /\ V[p] = WorkerVars(w, a)[p]
        /\ \A p \in DOMAIN TagVars(w) : p \in DOMAIN V /\ V[p] = TagVars(w)[p]
        /\ \A p \in DOMAIN SharedVars(w) : p \in DOMAIN V /\ V[p] = SharedVars(w)[p]
        /\ \A p \in DOMAIN BucketVars(w, a) : p \in DOMAIN V /\ V[p] = BucketVars(w, a)[p]
    <2>1. \A f \in {WorkerVars(w, a), TagVars(w), JobVars(w, a), ConfVars(w, a), FileVars(w, a),
                    SharedVars(w), BucketVars(w, a)} :
             \A p \in DOMAIN f : p \in DOMAIN V /\ V[p] = f[p]
      BY VariablesAre
    <2> HIDE DEF V
    <2> QED BY <2>1
  <1>4. \A p \in DOMAIN V :
           /\ p[1] = "maand/worker" => p \in DOMAIN WorkerVars(w, a) \/ p \in DOMAIN SharedVars(w)
           /\ p[1] = "maand/worker/tags" => p \in DOMAIN TagVars(w)
    BY VariablesAre
  <1>5. /\ \A h \in HostsOf(w) : WorkerNS(h) \subseteq DOMAIN WorkerVars(w, a)
        /\ \A h \in HostsOf(w) : TagsNS(h) \subseteq VariableScope(w, a)
        /\ SharedNS \subseteq VariableScope(w, a)
        /\ BucketNS \subseteq DOMAIN BucketVars(w, a)
    BY DEF WorkerVars, VariableScope, BucketVars
  <1>6. \A p \in DOMAIN WorkerVars(w, a) : p \notin SharedNS
    BY NamespacesAre DEF WorkerVars
  <1> HIDE DEF V, t, n
  <1>7. ASSUME NEW h \in HostsOf(w)
        PROVE  Says(t, WorkerVars(w, a), WorkerNS(h)) /\ Says(t, TagVars(w), TagsNS(h))
    <2>1. Says(t, WorkerVars(w, a), WorkerNS(h))
      BY <1>1, <1>2, <1>3, <1>5, NamespacesAre DEF Says
    <2>2. ASSUME NEW p \in TagsNS(h), p \notin DOMAIN TagVars(w) PROVE ~Live(t, p)
      BY <1>1, <1>2, <1>4, <1>5, <2>2, NamespacesAre
    <2>3. ASSUME NEW p \in TagsNS(h), p \in DOMAIN TagVars(w)
          PROVE  Live(t, p) /\ t[p].value = Plain(TagVars(w)[p])
      BY <1>1, <1>2, <1>3, <2>3, NamespacesAre
    <2> QED BY <2>1, <2>2, <2>3 DEF Says
  <1>8. Says(t, SharedVars(w), SharedNS)
    <2>1. ASSUME NEW p \in SharedNS, p \notin DOMAIN SharedVars(w) PROVE ~Live(t, p)
      BY <1>1, <1>4, <1>5, <1>6, <2>1, NamespacesAre
    <2>2. ASSUME NEW p \in SharedNS, p \in DOMAIN SharedVars(w)
          PROVE  Live(t, p) /\ t[p].value = Plain(SharedVars(w)[p])
      BY <1>1, <1>3, <2>2, NamespacesAre
    <2> QED BY <2>1, <2>2 DEF Says
  <1>9. Says(t, BucketVars(w, a), BucketNS)
    BY <1>1, <1>3, <1>5, NamespacesAre DEF Says
  <1> QED BY <1>7, <1>8, <1>9 DEF t

(* The name a scraped job is stored under. *)
LEMMA NamesAre ==
    ASSUME NEW m, NEW j
    PROVE  /\ NameKey(j) \in DOMAIN ScrapeNames(m) <=> j \in Scraped(m) /\ HasServer(m)
           /\ NameKey(j) \in DOMAIN ScrapeNames(m) => ScrapeNames(m)[NameKey(j)] = NameOf(m, j)
           /\ NameKey(j) \notin DOMAIN ScrapeNames(m) => NameOf(m, j) = j
  <1>1. \A i : NameKey(i)[2] = i
    BY DEF NameKey
  <1>2. NameKey(j) \in DOMAIN ScrapeNames(m) <=> j \in Scraped(m) /\ HasServer(m)
    BY <1>1 DEF ScrapeNames
  <1>3. NameKey(j) \in DOMAIN ScrapeNames(m) =>
            ScrapeNames(m)[NameKey(j)] = Resolved(NameKey(j)[2], m[NameKey(j)[2]].items[1])
    BY DEF ScrapeNames
  <1> QED BY <1>1, <1>2, <1>3 DEF NameOf

(* The keys of jobs that are active, after a build. *)
LEMMA JobsSettle ==
    ASSUME IsStore(kv), NEW w \in Workspaces, NEW a, NEW j \in JobsOf(w), Active(a, j) # {}
    PROVE  LET t == Built(w, a)
           IN  Says(t, JobKeys(w, a, j), JobNS(j)) /\ Says(t, ConfKeys(w, j), ConfNS(j))
  <1> DEFINE t == Built(w, a)
             V == Variables(w, a)
             m == Monitoring(w)
             n == ScrapeNames(m)
             s1 == Sync(kv, V, VariableScope(w, a))
  <1>1. j \in Jobs /\ j \in Kept(w, a)
    BY JobsAre, ActiveIsKept
  <1>2. /\ \A p \in DOMAIN JobVars(w, a) : p \in DOMAIN V /\ V[p] = JobVars(w, a)[p]
        /\ \A p \in DOMAIN ConfVars(w, a) : p \in DOMAIN V /\ V[p] = ConfVars(w, a)[p]
        /\ \A p \in DOMAIN V : p[1] = "vars/bucket/job" => p \in DOMAIN ConfVars(w, a)
    <2>1. \A f \in {WorkerVars(w, a), TagVars(w), JobVars(w, a), ConfVars(w, a), FileVars(w, a),
                    SharedVars(w), BucketVars(w, a)} :
             \A p \in DOMAIN f : p \in DOMAIN V /\ V[p] = f[p]
      BY VariablesAre
    <2>2. \A p \in DOMAIN V : p[1] = "vars/bucket/job" => p \in DOMAIN ConfVars(w, a)
      BY VariablesAre
    <2> HIDE DEF V
    <2> QED BY <2>1, <2>2
  <1>3. \A p \in JobNS(j) \cup ConfNS(j) : p \in Paths /\ p[2] = j /\ p[1] \in {"maand/job", "vars/bucket/job"}
    BY <1>1, NamespacesAre
  <1>4. \A p \in JobNS(j) : /\ p \in DOMAIN JobVars(w, a)
                            /\ JobVars(w, a)[p] = IF p[3] = "version" THEN w.jobs[p[2]].version
                                                  ELSE IF p[3] = "job_name" THEN p[2]
                                                  ELSE InOrder(w, Active(a, p[2]))
    BY <1>1 DEF JobVars
  <1>5. ASSUME NEW p \in ConfNS(j)
        PROVE  /\ p \in DOMAIN ConfVars(w, a) <=> \E r \in Resources : w.config[j][r] # Unset
               /\ p \in DOMAIN ConfVars(w, a) => ConfVars(w, a)[p] = w.config[p[2]]
               /\ p \in VariableScope(w, a)
    <2>1. DOMAIN ConfVars(w, a) = UNION {ConfNS(i) : i \in {k \in Kept(w, a) : \E r \in Resources : w.config[k][r] # Unset}}
      BY DEF ConfVars
    <2>2. \A i : p \in ConfNS(i) => i = j
      BY DEF ConfNS
    <2>3. p \in DOMAIN ConfVars(w, a) <=> \E r \in Resources : w.config[j][r] # Unset
      BY <1>1, <2>1, <2>2
    <2>4. p \in DOMAIN ConfVars(w, a) => ConfVars(w, a)[p] = w.config[p[2]]
      BY DEF ConfVars
    <2>5. p \in VariableScope(w, a)
      BY DEF VariableScope
    <2> QED BY <2>3, <2>4, <2>5
  <1>6. ASSUME NEW p \in JobNS(j) \cup ConfNS(j), p \notin DOMAIN n
        PROVE  /\ p \in DOMAIN V => Live(t, p) /\ t[p].value = Plain(V[p])
               /\ p \notin DOMAIN V /\ p \in VariableScope(w, a) => ~Live(t, p)
    <2>1. p \in Paths /\ p[1] \notin {"alloc", "maand/prometheus"}
      BY <1>3
    <2> QED BY <1>6, <2>1, VariablesSaid
  <1>7. ASSUME NEW p \in Paths, p \in DOMAIN n
        PROVE  Live(t, p) /\ t[p].value = Plain(n[p])
    <2>1. Same(t[p], Sync(s1, n, {})[p])
      BY <1>7, BuiltKeys
    <2>2. IsStore(s1)
      BY StoreKeeps
    <2> HIDE DEF s1, n, t
    <2>3. Live(Sync(s1, n, {}), p) /\ Sync(s1, n, {})[p].value = Plain(n[p])
      BY <1>7, <2>2, SyncEffect
    <2> QED BY <2>1, <2>3 DEF Same, Live
  <1>8. \A p \in DOMAIN n : p[1] = "maand/job" /\ p[3] = "job_name"
    BY StagesAre
  <1> HIDE DEF t, V, n, m, s1
  <1>9. ASSUME NEW p \in JobNS(j)
        PROVE  /\ p \in DOMAIN JobKeys(w, a, j)
               /\ Live(t, p) /\ t[p].value = Plain(JobKeys(w, a, j)[p])
    <2>1. /\ p \in DOMAIN JobKeys(w, a, j)
          /\ JobKeys(w, a, j)[p] = IF p[3] = "version" THEN w.jobs[j].version
                                   ELSE IF p[3] = "job_name" THEN NameOf(m, j) ELSE InOrder(w, Active(a, j))
      BY DEF JobKeys, m
    <2>2. p[2] = j /\ p \in Paths /\ (p[3] = "job_name" <=> p = NameKey(j))
      BY <1>3, NamespacesAre
    <2>3. CASE p \in DOMAIN n
      <3>1. p = NameKey(j) /\ p[3] = "job_name"
        BY <1>8, <2>2, <2>3
      <3>2. n[p] = NameOf(m, j)
        BY <2>3, <3>1, NamesAre DEF n
      <3> QED BY <1>7, <2>1, <2>2, <2>3, <3>1, <3>2
    <2>4. CASE p \notin DOMAIN n
      <3>1. Live(t, p) /\ t[p].value = Plain(JobVars(w, a)[p])
        BY <1>2, <1>4, <1>6, <2>4
      <3>2. p[3] = "job_name" => NameOf(m, j) = j
        BY <2>2, <2>4, NamesAre DEF n
      <3>3. JobVars(w, a)[p] = JobKeys(w, a, j)[p]
        BY <1>4, <2>1, <2>2, <3>2
      <3> QED BY <2>1, <3>1, <3>3
    <2> QED BY <2>3, <2>4
  <1>10. ASSUME NEW p \in ConfNS(j)
         PROVE  IF p \in DOMAIN ConfKeys(w, j) THEN Live(t, p) /\ t[p].value = Plain(ConfKeys(w, j)[p])
                ELSE ~Live(t, p)
    <2>1. /\ p \in DOMAIN ConfKeys(w, j) <=> \E r \in Resources : w.config[j][r] # Unset
          /\ p \in DOMAIN ConfKeys(w, j) => ConfKeys(w, j)[p] = w.config[j]
      BY DEF ConfKeys
    <2>2. p[1] = "vars/bucket/job" /\ p[2] = j /\ p \notin DOMAIN n
      BY <1>3, <1>8, NamespacesAre
    <2>3. CASE p \in DOMAIN ConfKeys(w, j)
      BY <1>2, <1>5, <1>6, <2>1, <2>2, <2>3
    <2>4. CASE p \notin DOMAIN ConfKeys(w, j)
      BY <1>2, <1>5, <1>6, <2>1, <2>2, <2>4
    <2> QED BY <2>3, <2>4
  <1> QED BY <1>9, <1>10 DEF Says, t

(* What allocations are told, and Prometheus, after a build. *)
LEMMA RestSettles ==
    ASSUME IsStore(kv), NEW w \in Workspaces, NEW a
    PROVE  LET t == Built(w, a)
           IN  /\ Says(t, AllocVars(w, a), DOMAIN AllocVars(w, a))
               /\ Says(t, CatalogVars(Monitoring(w), ActiveOf(a)), PrometheusNS)
  <1> DEFINE t  == Built(w, a)
             s1 == Sync(kv, Variables(w, a), VariableScope(w, a))
             s2 == WithCerts(w, a, s1)
             f  == AllocVars(w, a)
             g  == CatalogVars(Monitoring(w), ActiveOf(a))
             s3 == Sync(s2, f, AllocScope(w, a))
             s5 == Sync(kv, g, PrometheusNS)
  <1>1. IsStore(s2)
    BY StoreKeeps DEF WithCerts
  <1>2. \A p \in DOMAIN f : p \in Paths /\ p[1] = "alloc"
    <2>1. \A u \in Slots : <<"alloc", u[1], u[2], "peer_workers">> \in AllocNS(u[1], u[2])
      BY DEF AllocNS
    <2> QED BY <2>1, AllocPaths DEF AllocVars
  <1>3. \A p \in Paths : /\ p[1] = "alloc" => Same(t[p], s3[p])
                         /\ p[1] = "maand/prometheus" => Same(t[p], s5[p])
    BY BuiltKeys
  <1> HIDE DEF t, s2, f, g
  <1>4. \A p \in Paths : p \in DOMAIN f => Live(s3, p) /\ s3[p].value = Plain(f[p])
    BY <1>1, SyncEffect
  <1>5. \A p \in PrometheusNS : IF p \in DOMAIN g THEN Live(s5, p) /\ s5[p].value = Plain(g[p])
                                ELSE ~Live(s5, p)
    BY PrometheusPaths, SyncEffect
  <1> HIDE DEF s3, s5
  <1>6. \A p \in DOMAIN f : Live(t, p) /\ t[p].value = Plain(f[p])
    BY <1>2, <1>3, <1>4 DEF Same, Live
  <1>7. \A p \in PrometheusNS : IF p \in DOMAIN g THEN Live(t, p) /\ t[p].value = Plain(g[p])
                                ELSE ~Live(t, p)
    BY <1>3, <1>5, PrometheusPaths DEF Same, Live
  <1> QED BY <1>6, <1>7 DEF Says, f, g, t

(* A certificate is stored as it is, not sealed. *)
LEMMA CertsSettle ==
    ASSUME BuildInv, NEW w \in Workspaces, NEW u \in Slots, NEW p \in CertNS(u[1], u[2]),
           Live(Built(w, Placed(w)), p)
    PROVE  LET t == Built(w, Placed(w)) IN t[p].value = Plain(t[p].value.text)
  <1> DEFINE a  == Placed(w)
             t  == Built(w, a)
             s1 == WithVariables(w, a)
             c  == CertVars(w, a, s1)
  <1>1. p \in AllocNS(u[1], u[2]) /\ p \in Paths /\ p[1] = "alloc"
    BY AllocPaths
  <1>2. IsStore(kv)
    BY DEF BuildInv, BuildTypes
  <1>3. InUse(a, u)
    BY <1>1, BuildLeavesNothing DEF BuildInv
  <1> HIDE DEF a
  <1>4. p \notin DOMAIN AllocVars(w, a) /\ p \notin AllocScope(w, a) /\ p \in CertScopes(w, a)
    BY <1>1, <1>3, AllocPuts, AllocClears, CertsOwned
  <1>5. /\ Live(t, p) => \/ p \in DOMAIN AllocVars(w, a)
                         \/ /\ p \notin AllocScope(w, a)
                            /\ \/ p \in DOMAIN c
                               \/ p \notin CertScopes(w, a) /\ Live(kv, p)
        /\ p \in DOMAIN c /\ p \notin DOMAIN AllocVars(w, a) /\ p \notin AllocScope(w, a) =>
              t[p].value = Plain(c[p])
    BY <1>1, <1>2, BuiltAlloc
  <1> HIDE DEF c, s1, t
  <1>6. t[p].value = Plain(c[p])
    BY <1>4, <1>5 DEF a, t
  <1>7. Plain(c[p]).text = c[p]
    BY DEF Plain
  <1> QED BY <1>6, <1>7 DEF a, t

(* The flags of rows are what BuildAllocations makes of the workspace of the last
   build; rows that gc deleted are the exception it knows. *)
AsPlaced(w, a) ==
    \A s \in Slots : IF IsPlaced(w, s) THEN a[s] = (IF IsDisabled(w, s[1], s[2]) THEN "disabled" ELSE "active")
                     ELSE a[s] \in {"none", "removed"}

(* While the CA is that of the last build, rows and keys are as that build left them.
   No CA comes back. *)
RebuildInv ==
    /\ ca \in Nat /\ \A c \in caHash.current : c \in Nat /\ c <= ca
    /\ caHash.previous = caHash.current
    /\ caHash.current = {ca} => Settled(kv, catalog, alloc) /\ AsPlaced(catalog, alloc)

(* What BuildVariables and the rest put depends on the allocations in use. *)
LEMMA PutsDepend ==
    ASSUME NEW w \in Workspaces \cup {NoCatalog}, NEW a, NEW b,
           \A s \in Slots : (a[s] = "active" <=> b[s] = "active") /\ (InUse(a, s) <=> InUse(b, s))
    PROVE  /\ WorkerVars(w, a) = WorkerVars(w, b) /\ BucketVars(w, a) = BucketVars(w, b)
           /\ AllocVars(w, a) = AllocVars(w, b)
           /\ \A j \in Jobs : Active(a, j) = Active(b, j) /\ JobKeys(w, a, j) = JobKeys(w, b, j)
           /\ ActiveOf(a) = ActiveOf(b)
  <1>1. \A j \in Jobs : \A h \in Workers : <<j, h>> \in Slots
    BY DEF Slots
  <1>2. \A j \in Jobs : Active(a, j) = Active(b, j)
    BY <1>1 DEF Active
  <1>3. \A j \in Jobs : NonRemoved(a, j) = NonRemoved(b, j)
    BY <1>1 DEF NonRemoved, InUse
  <1>4. HostsOf(w) \subseteq Workers
    <2>1. HostsOf(NoCatalog) = {}
      BY DEF HostsOf, ToSet, NoCatalog
    <2>2. w \in Workspaces => w.hosts \in Seq(Workers)
      BY BuildAssumption
    <2> QED BY <2>1, <2>2 DEF HostsOf, ToSet
  <1>5. WorkerVars(w, a) = WorkerVars(w, b)
    <2> DEFINE D == UNION {WorkerNS(h) : h \in HostsOf(w)}
    <2>1. \A p \in D : p[2] \in Workers
      BY <1>4 DEF WorkerNS
    <2>2. \A p \in D : {j \in Jobs : a[<<j, p[2]>>] = "active"} = {j \in Jobs : b[<<j, p[2]>>] = "active"}
      BY <1>1, <2>1
    <2> QED BY <2>2 DEF WorkerVars
  <1>6. BucketVars(w, a) = BucketVars(w, b)
    <2>1. {j \in JobsOf(w) : Active(a, j) # {}} = {j \in JobsOf(w) : Active(b, j) # {}}
      BY <1>2, JobsAre
    <2> QED BY <2>1 DEF BucketVars
  <1>7. AllocVars(w, a) = AllocVars(w, b)
    <2> DEFINE D(x) == {<<"alloc", t[1], t[2], "peer_workers">> :
                        t \in {u \in Slots : u[1] \in JobsOf(w) /\ u[2] \in NonRemoved(x, u[1])}}
    <2>1. {u \in Slots : u[1] \in JobsOf(w) /\ u[2] \in NonRemoved(a, u[1])}
            = {u \in Slots : u[1] \in JobsOf(w) /\ u[2] \in NonRemoved(b, u[1])}
      BY <1>3, JobsAre
    <2>2. D(a) = D(b)
      BY <2>1
    <2>3. \A p \in D(a) : p[2] \in Jobs
      BY SlotIs
    <2>4. \A p \in D(a) : NonRemoved(a, p[2]) = NonRemoved(b, p[2])
      BY <1>3, <2>3
    <2>5. /\ AllocVars(w, a) = [p \in D(a) |-> InOrder(w, NonRemoved(a, p[2]) \ {p[3]})]
          /\ AllocVars(w, b) = [p \in D(b) |-> InOrder(w, NonRemoved(b, p[2]) \ {p[3]})]
      BY DEF AllocVars
    <2> HIDE DEF D
    <2> QED BY <2>2, <2>4, <2>5
  <1>8. \A j \in Jobs : JobKeys(w, a, j) = JobKeys(w, b, j)
    BY <1>2 DEF JobKeys
  <1>9. ActiveOf(a) = ActiveOf(b)
    BY <1>2 DEF ActiveOf
  <1> QED BY <1>2, <1>5, <1>6, <1>7, <1>8, <1>9

(* The keys a deploy and gc have nothing to do with *)
Quiet(p, w, a) ==
    \/ p[1] \in {"maand/worker", "maand/worker/tags", "maand/bucket", "maand/prometheus"}
    \/ p[1] \in {"maand/job", "vars/bucket/job"} /\ Active(a, p[2]) # {}
    \/ p \in DOMAIN AllocVars(w, a)

(* A store in which those keys are the same is as settled. *)
LEMMA SettledKept ==
    ASSUME NEW w \in Workspaces \cup {NoCatalog}, NEW a, NEW b, NEW s, NEW t, Settled(s, w, a),
           \A u \in Slots : (a[u] = "active" <=> b[u] = "active") /\ (InUse(a, u) <=> InUse(b, u)),
           \A p \in Paths : Quiet(p, w, a) => t[p].value = s[p].value /\ (Live(t, p) <=> Live(s, p)),
           \A u \in Slots : \A p \in CertNS(u[1], u[2]) :
               Live(t, p) => Live(s, p) /\ t[p].value = s[p].value
    PROVE  Settled(t, w, b)
  <1>1. /\ WorkerVars(w, b) = WorkerVars(w, a) /\ BucketVars(w, b) = BucketVars(w, a)
        /\ AllocVars(w, b) = AllocVars(w, a) /\ ActiveOf(b) = ActiveOf(a)
        /\ \A j \in Jobs : Active(b, j) = Active(a, j) /\ JobKeys(w, b, j) = JobKeys(w, a, j)
    BY PutsDepend
  <1>2. ASSUME NEW f, NEW P, P \subseteq Paths, \A p \in P : Quiet(p, w, a), Says(s, f, P)
        PROVE  Says(t, f, P)
    BY <1>2 DEF Says
  <1>3. HostsOf(w) \subseteq Workers /\ JobsOf(w) \subseteq Jobs
    <2>1. HostsOf(NoCatalog) = {}
      BY DEF HostsOf, ToSet, NoCatalog
    <2>2. w \in Workspaces => w.hosts \in Seq(Workers)
      BY BuildAssumption
    <2> QED BY <2>1, <2>2, JobsAre DEF HostsOf, ToSet
  <1>4. ASSUME NEW h \in HostsOf(w)
        PROVE  Says(t, WorkerVars(w, a), WorkerNS(h)) /\ Says(t, TagVars(w), TagsNS(h))
    <2>1. Says(s, WorkerVars(w, a), WorkerNS(h)) /\ Says(s, TagVars(w), TagsNS(h))
      BY DEF Settled
    <2>2. /\ WorkerNS(h) \subseteq Paths /\ TagsNS(h) \subseteq Paths
          /\ \A p \in WorkerNS(h) \cup TagsNS(h) : Quiet(p, w, a)
      BY <1>3, NamespacesAre DEF Quiet
    <2> QED BY <1>2, <2>1, <2>2
  <1>5. Says(t, SharedVars(w), SharedNS) /\ Says(t, BucketVars(w, a), BucketNS)
    <2>1. Says(s, SharedVars(w), SharedNS) /\ Says(s, BucketVars(w, a), BucketNS)
      BY DEF Settled
    <2>2. /\ SharedNS \subseteq Paths /\ BucketNS \subseteq Paths
          /\ \A p \in SharedNS \cup BucketNS : Quiet(p, w, a)
      BY NamespacesAre DEF Quiet
    <2> QED BY <1>2, <2>1, <2>2
  <1>6. ASSUME NEW j \in JobsOf(w), Active(a, j) # {}
        PROVE  Says(t, JobKeys(w, a, j), JobNS(j)) /\ Says(t, ConfKeys(w, j), ConfNS(j))
    <2>1. Says(s, JobKeys(w, a, j), JobNS(j)) /\ Says(s, ConfKeys(w, j), ConfNS(j))
      BY <1>6 DEF Settled
    <2>2. /\ JobNS(j) \subseteq Paths /\ ConfNS(j) \subseteq Paths
          /\ \A p \in JobNS(j) \cup ConfNS(j) : Quiet(p, w, a)
      BY <1>3, <1>6, NamespacesAre DEF Quiet
    <2> QED BY <1>2, <2>1, <2>2
  <1>7. Says(t, AllocVars(w, a), DOMAIN AllocVars(w, a))
    <2>1. \A u \in Slots : <<"alloc", u[1], u[2], "peer_workers">> \in AllocNS(u[1], u[2])
      BY DEF AllocNS
    <2>2. DOMAIN AllocVars(w, a) \subseteq Paths
      BY <2>1, AllocPaths DEF AllocVars
    <2>3. \A p \in DOMAIN AllocVars(w, a) : Quiet(p, w, a)
      BY DEF Quiet
    <2>4. Says(s, AllocVars(w, a), DOMAIN AllocVars(w, a))
      BY DEF Settled
    <2> QED BY <1>2, <2>2, <2>3, <2>4
  <1>8. Says(t, CatalogVars(Monitoring(w), ActiveOf(a)), PrometheusNS)
    <2>1. Says(s, CatalogVars(Monitoring(w), ActiveOf(a)), PrometheusNS)
      BY DEF Settled
    <2>2. PrometheusNS \subseteq Paths /\ \A p \in PrometheusNS : Quiet(p, w, a)
      BY PrometheusPaths DEF Quiet
    <2> QED BY <1>2, <2>1, <2>2
  <1>9. \A u \in Slots : \A p \in CertNS(u[1], u[2]) : Live(t, p) => t[p].value = Plain(t[p].value.text)
    BY DEF Settled
  <1> QED BY <1>1, <1>3, <1>4, <1>5, <1>6, <1>7, <1>8, <1>9 DEF Settled

(* An accepted build settles rows and keys. *)
LEMMA BuildSettles ==
    ASSUME BuildInv, NEW w \in Workspaces
    PROVE  Settled(Built(w, Placed(w)), w, Placed(w)) /\ AsPlaced(w, Placed(w))
  <1> DEFINE a == Placed(w)
             t == Built(w, a)
  <1>1. IsStore(kv)
    BY DEF BuildInv, BuildTypes
  <1>2. AsPlaced(w, a)
    BY DEF AsPlaced, Placed
  <1>3. \A u \in Slots : \A p \in CertNS(u[1], u[2]) : Live(t, p) => t[p].value = Plain(t[p].value.text)
    BY CertsSettle
  <1> HIDE DEF a
  <1>4. /\ \A h \in HostsOf(w) : Says(t, WorkerVars(w, a), WorkerNS(h)) /\ Says(t, TagVars(w), TagsNS(h))
        /\ Says(t, SharedVars(w), SharedNS) /\ Says(t, BucketVars(w, a), BucketNS)
    BY <1>1, WorkersSettle
  <1>5. \A j \in JobsOf(w) : Active(a, j) # {} =>
            Says(t, JobKeys(w, a, j), JobNS(j)) /\ Says(t, ConfKeys(w, j), ConfNS(j))
    BY <1>1, JobsSettle
  <1>6. /\ Says(t, AllocVars(w, a), DOMAIN AllocVars(w, a))
        /\ Says(t, CatalogVars(Monitoring(w), ActiveOf(a)), PrometheusNS)
    BY <1>1, RestSettles
  <1>7. Settled(t, w, a)
    BY <1>3, <1>4, <1>5, <1>6 DEF Settled
  <1> QED BY <1>2, <1>7 DEF a

(* With the same CA, what the next state has is settled there too. *)
LEMMA SettledNext ==
    ASSUME ca' = ca, Settled(kv', catalog', alloc')
    PROVE  Settled(kv, catalog, alloc)'
  BY DEF Settled, SharedVars, Says, Live

(* A deploy and a collection leave alone what the last build settled. *)
LEMMA OthersKeepSettled ==
    ASSUME BuildInv, Settled(kv, catalog, alloc), AsPlaced(catalog, alloc), Deploy \/ Collect
    PROVE  Settled(kv, catalog, alloc)' /\ AsPlaced(catalog', alloc')
  <1>1. /\ IsStore(kv) /\ catalog \in Workspaces \cup {NoCatalog} /\ alloc \in [Slots -> Placement]
        /\ \A u \in Slots : \A p \in AllocNS(u[1], u[2]) : Live(kv, p) => InUse(alloc, u)
    BY DEF BuildInv, BuildTypes, NothingLeftBehind, InUse
  <1>2. \A p \in DOMAIN AllocVars(catalog, alloc) : p[1] = "alloc" /\ p[4] = "peer_workers"
    BY DEF AllocVars
  <1>3. \A p \in DOMAIN AllocVars(catalog, alloc) :
            \E u \in Slots : InUse(alloc, u) /\ p \in AllocNS(u[1], u[2])
    <2> TAKE p \in DOMAIN AllocVars(catalog, alloc)
    <2>1. PICK u \in Slots : u[2] \in NonRemoved(alloc, u[1]) /\ p = <<"alloc", u[1], u[2], "peer_workers">>
      BY DEF AllocVars
    <2>2. p \in AllocNS(u[1], u[2])
      BY <2>1 DEF AllocNS
    <2>3. InUse(alloc, u)
      BY <2>1, InUseIs, SlotIs
    <2> QED BY <2>2, <2>3
  <1>4. CASE Deploy
    <2> DEFINE running == {j \in JobsOf(catalog) : Active(alloc, j) # {}}
               new == [p \in UNION {{<<"alloc", j, h, "version">> : h \in NonRemoved(alloc, j)}
                                    \cup VarsNS(j) \cup SecretsNS(j) : j \in running} |-> "deployed"]
               s1  == Sync(kv, new, {})
    <2>1. kv' = Clean(s1) /\ UNCHANGED <<catalog, alloc, ca>>
      BY <1>4 DEF Deploy
    <2>2. ASSUME NEW p \in DOMAIN new
          PROVE  \/ p[1] = "alloc" /\ p[4] = "version"
                 \/ p[1] \in {"vars/job", "secrets/job"}
      <3>1. PICK j \in running : p \in {<<"alloc", j, h, "version">> : h \in NonRemoved(alloc, j)}
                                       \cup VarsNS(j) \cup SecretsNS(j)
        OBVIOUS
      <3>2. CASE p \in {<<"alloc", j, h, "version">> : h \in NonRemoved(alloc, j)}
        BY <3>2
      <3>3. CASE p \in VarsNS(j) \cup SecretsNS(j)
        BY <3>3 DEF VarsNS, SecretsNS
      <3> QED BY <3>1, <3>2, <3>3
    <2> HIDE DEF new
    <2>3. IsStore(s1)
      BY <1>1, StoreKeeps
    <2>4. ASSUME NEW p \in Paths, p \notin DOMAIN new
          PROVE  kv'[p].value = kv[p].value /\ (Live(kv', p) <=> Live(kv, p))
      <3>1. s1[p] = kv[p]
        BY <1>1, <2>4, SyncEffect
      <3> HIDE DEF s1
      <3>2. Clean(s1)[p].value = s1[p].value /\ (Live(Clean(s1), p) <=> Live(s1, p))
        BY <2>3, <2>4, CleanEffect
      <3> QED BY <2>1, <3>1, <3>2 DEF Live
    <2>5. \A p \in Paths : Quiet(p, catalog, alloc) => p \notin DOMAIN new
      BY <1>2, <2>2 DEF Quiet
    <2>6. \A u \in Slots : \A p \in CertNS(u[1], u[2]) : p \in Paths /\ p \notin DOMAIN new
      BY <2>2, AllocPaths
    <2>7. Settled(kv', catalog, alloc)
      BY <1>1, <2>4, <2>5, <2>6, SettledKept
    <2> QED BY <2>1, <2>7, SettledNext
  <1>5. CASE Collect
    <2> DEFINE removed == {s \in Slots : alloc[s] = "removed"}
               gone    == {j \in Jobs : (\E s \in removed : s[1] = j) /\ Active(alloc, j) = {}}
               P       == (UNION {AllocNS(s[1], s[2]) : s \in removed}) \cup
                          (UNION {JobNS(j) \cup ConfNS(j) \cup VarsNS(j) \cup SecretsNS(j) : j \in gone})
               s1      == PurgePaths(kv, P)
    <2>1. /\ kv' = Clean(s1) /\ UNCHANGED <<catalog, ca>>
          /\ \A s \in Slots : alloc'[s] = IF alloc[s] = "removed" THEN "none" ELSE alloc[s]
      BY <1>5 DEF Collect
    <2>2. ASSUME NEW p \in P
          PROVE  \/ \E s \in removed : p \in AllocNS(s[1], s[2])
                 \/ p[1] \in {"maand/job", "vars/bucket/job"} /\ Active(alloc, p[2]) = {}
                 \/ p[1] \in {"vars/job", "secrets/job"}
      <3>1. \A j : \A p_1 \in JobNS(j) \cup ConfNS(j) : p_1[1] \in {"maand/job", "vars/bucket/job"} /\ p_1[2] = j
        BY DEF JobNS, ConfNS, NameKey
      <3>2. \A j : \A p_1 \in VarsNS(j) \cup SecretsNS(j) : p_1[1] \in {"vars/job", "secrets/job"}
        BY DEF VarsNS, SecretsNS
      <3>3. CASE p \in UNION {AllocNS(s[1], s[2]) : s \in removed}
        BY <3>3
      <3>4. CASE p \in UNION {JobNS(j) \cup ConfNS(j) \cup VarsNS(j) \cup SecretsNS(j) : j \in gone}
        <4>1. PICK j \in gone : p \in JobNS(j) \cup ConfNS(j) \cup VarsNS(j) \cup SecretsNS(j)
          BY <3>4
        <4> QED BY <3>1, <3>2, <4>1
      <3> QED BY <3>3, <3>4
    <2> HIDE DEF P
    <2>3. IsStore(s1)
      BY <1>1, PurgeEffect DEF IsStore
    <2>4. ASSUME NEW p \in Paths
          PROVE  /\ p \notin P => kv'[p].value = kv[p].value /\ (Live(kv', p) <=> Live(kv, p))
                 /\ Live(kv', p) => Live(kv, p) /\ kv'[p].value = kv[p].value
      <3>1. p \notin P => s1[p] = kv[p]
        BY <1>1, PurgeEffect
      <3>2. Live(s1, p) => s1[p] = kv[p]
        BY <1>1, PurgeEffect
      <3> HIDE DEF s1
      <3>3. Clean(s1)[p].value = s1[p].value /\ (Live(Clean(s1), p) <=> Live(s1, p))
        BY <2>3, CleanEffect
      <3> QED BY <2>1, <3>1, <3>2, <3>3 DEF Live
    <2>5. \A s, u \in Slots : \A p \in AllocNS(s[1], s[2]) : p \in AllocNS(u[1], u[2]) => s = u
      BY AllocPaths, SlotIs
    <2>6. ASSUME NEW p \in Paths, Quiet(p, catalog, alloc) PROVE p \notin P
      <3> SUFFICES ASSUME p \in P PROVE FALSE
        OBVIOUS
      <3>1. CASE p \in DOMAIN AllocVars(catalog, alloc)
        <4>1. PICK u \in Slots : InUse(alloc, u) /\ p \in AllocNS(u[1], u[2])
          BY <1>3, <3>1
        <4>2. PICK s \in removed : p \in AllocNS(s[1], s[2])
          BY <1>2, <2>2, <3>1
        <4>3. s = u
          BY <2>5, <4>1, <4>2
        <4> QED BY <4>1, <4>2, <4>3 DEF InUse
      <3>2. CASE p \notin DOMAIN AllocVars(catalog, alloc)
        <4>1. p[1] # "alloc"
          BY <2>6, <3>2 DEF Quiet
        <4>2. ~\E s \in removed : p \in AllocNS(s[1], s[2])
          BY <4>1, AllocPaths
        <4> QED BY <2>2, <2>6, <3>2, <4>2 DEF Quiet
      <3> QED BY <3>1, <3>2
    <2>7. \A u \in Slots : /\ alloc[u] = "active" <=> alloc'[u] = "active"
                           /\ InUse(alloc, u) <=> InUse(alloc', u)
      BY <2>1 DEF InUse
    <2>8. \A u \in Slots : \A p \in CertNS(u[1], u[2]) : p \in Paths
      BY AllocPaths
    <2>9. Settled(kv', catalog, alloc')
      BY <1>1, <2>4, <2>6, <2>7, <2>8, SettledKept
    <2>10. AsPlaced(catalog, alloc')
      BY <2>1 DEF AsPlaced
    <2> QED BY <2>1, <2>9, <2>10, SettledNext
  <1> QED BY <1>4, <1>5

(* Every step keeps what the last build settled, until there is another CA. *)
LEMMA RebuildKeeps ==
    ASSUME BuildInv, RebuildInv, [Next]_vars
    PROVE  RebuildInv'
  <1>1. ASSUME UNCHANGED <<rows, ca>> PROVE RebuildInv'
    <2>1. Settled(kv', catalog', alloc') <=> Settled(kv, catalog, alloc)
      BY <1>1 DEF rows
    <2>2. AsPlaced(catalog', alloc') <=> AsPlaced(catalog, alloc)
      BY <1>1 DEF rows
    <2>3. Settled(kv', catalog', alloc') => Settled(kv, catalog, alloc)'
      BY <1>1, SettledNext
    <2> QED BY <1>1, <2>1, <2>2, <2>3 DEF RebuildInv, rows
  <1>2. ASSUME NEW w \in Workspaces, Build(w) PROVE RebuildInv'
    <2>1. CASE /\ catalog' = w /\ alloc' = Placed(w) /\ kv' = Built(w, Placed(w)) /\ ca' = ca
               /\ caHash' = PromoteHash(CAHash)
      <3>1. Settled(Built(w, Placed(w)), w, Placed(w)) /\ AsPlaced(w, Placed(w))
        BY BuildSettles
      <3>2. Settled(kv', catalog', alloc') /\ AsPlaced(catalog', alloc')
        BY <2>1, <3>1
      <3>3. Settled(kv, catalog, alloc)'
        BY <2>1, <3>2, SettledNext
      <3>4. caHash'.current = {ca} /\ caHash'.previous = {ca}
        <4>1. IsHash(caHash)
          BY DEF BuildInv, BuildTypes
        <4> QED BY <2>1, <4>1 DEF PromoteHash, CAHash, UpdateHash, IsHash
      <3> QED BY <2>1, <3>2, <3>3, <3>4 DEF RebuildInv
    <2>2. CASE UNCHANGED <<rows, ca>>
      BY <1>1, <2>2
    <2> QED BY <1>2, <2>1, <2>2, BuildCases DEF rows
  <1>3. ASSUME Deploy \/ Collect PROVE RebuildInv'
    <2>1. UNCHANGED <<ca, caHash>>
      BY <1>3 DEF Deploy, Collect
    <2>2. Settled(kv, catalog, alloc) /\ AsPlaced(catalog, alloc) =>
              Settled(kv, catalog, alloc)' /\ AsPlaced(catalog', alloc')
      BY <1>3, OthersKeepSettled
    <2> QED BY <2>1, <2>2 DEF RebuildInv
  <1>4. ASSUME ReplaceCA PROVE RebuildInv'
    <2>1. ca' = ca + 1 /\ caHash' = caHash
      BY <1>4 DEF ReplaceCA, rows
    <2>2. ca' \notin caHash'.current /\ ca' \in Nat /\ \A c \in caHash'.current : c \in Nat /\ c <= ca'
      BY <2>1 DEF RebuildInv
    <2>3. caHash'.current # {ca'}
      BY <2>2
    <2> QED BY <2>1, <2>2, <2>3 DEF RebuildInv
  <1>5. Tick \/ UNCHANGED vars => UNCHANGED <<rows, ca>>
    BY DEF Tick, vars
  <1> QED BY <1>1, <1>2, <1>3, <1>4, <1>5 DEF Next

(* It holds of the bucket before its first build. *)
LEMMA RebuildStarts == Init => RebuildInv
  BY DEF Init, RebuildInv, NoHash

(* What the build finds that repeats the last one. *)
NoneDue ==
    \A s \in Slots : \A p \in CertNS(s[1], s[2]) : Live(kv, p) => ~NeedsRenewal(kv[p].value.text)

Repeating ==
    /\ BuildInv /\ RebuildInv /\ catalog \in Workspaces
    /\ caHash.current = {ca} /\ NoneDue

(* BuildAllocations makes the rows again that are there. *)
LEMMA PlacedAgain ==
    ASSUME Repeating
    PROVE  Placed(catalog) = alloc
  <1>1. alloc \in [Slots -> Placement] /\ AsPlaced(catalog, alloc)
    BY DEF Repeating, BuildInv, BuildTypes, RebuildInv
  <1>2. \A s \in Slots : Placed(catalog)[s] = alloc[s]
    BY <1>1 DEF AsPlaced, Placed
  <1>3. Placed(catalog) = [s \in Slots |-> Placed(catalog)[s]]
    BY DEF Placed
  <1> QED BY <1>1, <1>2, <1>3

(* What BuildVariables clears of itself: nothing of an allocation in use. *)
LEMMA OwnScope ==
    ASSUME NEW p \in VariableScope(catalog, alloc)
    PROVE  \/ \E h \in HostsOf(catalog) : p \in WorkerNS(h) \cup TagsNS(h)
           \/ \E j \in JobsOf(catalog) : p \in JobNS(j) \cup ConfNS(j)
           \/ \E j \in JobsOf(catalog) : NonRemoved(alloc, j) = {} /\ \E h : p \in AllocNS(j, h)
           \/ p[1] \in {"vars/job", "secrets/job"}
           \/ p \in SharedNS \cup BucketNS
  <1> DEFINE X == Purged(catalog, alloc)
  <1>1. RemovedWorkers(catalog) = {} /\ RemovedJobs(catalog) = {}
    BY DEF RemovedWorkers, RemovedJobs
  <1>2. \A j \in X : j \in JobsOf(catalog) /\ NonRemoved(alloc, j) = {}
    BY <1>1 DEF Purged, OutOfUse
  <1>3. \A j : \A q \in VarsNS(j) \cup SecretsNS(j) : q[1] \in {"vars/job", "secrets/job"}
    BY DEF VarsNS, SecretsNS
  <1> HIDE DEF X
  <1>4. \/ p \in UNION {WorkerNS(h) \cup TagsNS(h) : h \in HostsOf(catalog)}
        \/ p \in UNION {JobNS(j) \cup ConfNS(j) : j \in JobsOf(catalog)}
        \/ p \in UNION {UNION {AllocNS(j, h) : h \in Allocated(alloc, j)} : j \in X}
        \/ p \in UNION {VarsNS(j) \cup SecretsNS(j) : j \in X}
        \/ p \in SharedNS \cup BucketNS
    BY <1>1 DEF VariableScope, X
  <1>5. p \in UNION {UNION {AllocNS(j, h) : h \in Allocated(alloc, j)} : j \in X} =>
            \E j \in X : \E h : p \in AllocNS(j, h)
    OBVIOUS
  <1>6. p \in UNION {VarsNS(j) \cup SecretsNS(j) : j \in X} => p[1] \in {"vars/job", "secrets/job"}
    BY <1>3
  <1> QED BY <1>2, <1>4, <1>5, <1>6

(* certNeedsRegeneration finds no reason: each certificate is written as it is. *)
LEMMA CertificatesStand ==
    ASSUME Repeating, NEW j \in JobsOf(catalog), j \in Jobs, NEW h \in NonRemoved(alloc, j),
           NEW spec \in CertSpecs(catalog, j), NEW s,
           \A i \in NonRemoved(alloc, j) : s[CertPath(j, i, spec)] = kv[CertPath(j, i, spec)]
    PROVE  LET p == CertPath(j, h, spec)
           IN  CertOf(catalog, alloc, s, j, h, spec) = kv[p].value.text
  <1>1. /\ certHash[j].previous = {catalog.jobs[j].certs} /\ IsHash(certHash[j]) /\ IsHash(caHash)
        /\ \A i \in NonRemoved(alloc, j) :
              /\ Live(kv, CertPath(j, i, spec))
              /\ spec.one => \A k \in NonRemoved(alloc, j) :
                    kv[CertPath(j, k, spec)].value = kv[CertPath(j, i, spec)].value
    BY DEF Repeating, BuildInv, BuildTypes, CertsInv
  <1>2. ~HashChanged(CAHash)
    <2>1. CAHash = caHash /\ caHash.current = {ca} /\ caHash.previous = {ca}
      BY <1>1 DEF Repeating, RebuildInv, CAHash, UpdateHash, IsHash
    <2> QED BY <2>1 DEF HashChanged, NoHash
  <1>3. ~HashChanged(CertHashes(catalog)[j])
    <2>1. CertHashes(catalog)[j] = UpdateHash(certHash[j], catalog.jobs[j].certs)
      BY DEF CertHashes
    <2> QED BY <1>1, <2>1 DEF HashChanged, NoHash, UpdateHash, IsHash
  <1>4. ASSUME NEW i \in NonRemoved(alloc, j) PROVE ~WorkerNeeds(s, j, i, spec)
    <2>1. i \in Workers /\ <<j, i>> \in Slots
      BY DEF NonRemoved, Slots
    <2>2. CertPath(j, i, spec) \in CertNS(j, i)
      BY SpecsOf DEF CertPath, CertNS, Repeating
    <2>3. ~NeedsRenewal(kv[CertPath(j, i, spec)].value.text)
      BY <1>1, <2>1, <2>2 DEF Repeating, NoneDue
    <2> QED BY <1>1, <2>3 DEF WorkerNeeds, Live
  <1>5. ~Regenerate(catalog, alloc, s, j, spec)
    BY <1>2, <1>3, <1>4 DEF Regenerate
  <1>6. CertOf(catalog, alloc, s, j, h, spec)
          = s[CertPath(j, IF spec.one THEN CHOOSE i \in NonRemoved(alloc, j) : TRUE ELSE h, spec)].value.text
    BY <1>5 DEF CertOf
  <1>7. (CHOOSE i \in NonRemoved(alloc, j) : TRUE) \in NonRemoved(alloc, j)
    OBVIOUS
  <1> HIDE DEF CertPath
  <1> QED BY <1>1, <1>6, <1>7

(* BuildVariables writes and clears nothing of an allocation in use, nor of one that
   has no live key. *)
LEMMA VariablesSpare ==
    ASSUME Repeating, NEW u \in Slots, NEW p \in AllocNS(u[1], u[2])
    PROVE  Sync(kv, Variables(catalog, alloc), VariableScope(catalog, alloc))[p] = kv[p]
  <1>1. p \in Paths /\ p[1] = "alloc"
    BY AllocPaths
  <1>2. p \notin DOMAIN Variables(catalog, alloc)
    BY <1>1, VariablesAre
  <1>3. Live(kv, p) => InUse(alloc, u) /\ u[1] \in JobsOf(catalog)
    BY DEF Repeating, BuildInv, NothingLeftBehind, RowsInv, InUse
  <1>4. Live(kv, p) => p \notin VariableScope(catalog, alloc)
    <2> SUFFICES ASSUME Live(kv, p), p \in VariableScope(catalog, alloc) PROVE FALSE
      OBVIOUS
    <2>1. \E j \in JobsOf(catalog) : NonRemoved(alloc, j) = {} /\ \E h : p \in AllocNS(j, h)
      BY <1>1, OwnScope, OtherPaths
    <2>2. PICK j \in JobsOf(catalog) : NonRemoved(alloc, j) = {} /\ \E h : p \in AllocNS(j, h)
      BY <2>1
    <2>3. j = u[1]
      BY <2>2, AllocPaths
    <2>4. u[2] \in NonRemoved(alloc, u[1])
      BY <1>3, InUseIs, SlotIs
    <2> QED BY <2>2, <2>3, <2>4
  <1> QED BY <1>1, <1>2, <1>4, SyncKeeps

(* A build that repeats the last one puts and deletes no key of an allocation. *)
LEMMA AllocationsStand ==
    ASSUME Repeating, NEW u \in Slots, NEW p \in AllocNS(u[1], u[2])
    PROVE  Same(Built(catalog, alloc)[p], kv[p])
  <1> DEFINE s1 == Sync(kv, Variables(catalog, alloc), VariableScope(catalog, alloc))
             c  == CertVars(catalog, alloc, s1)
             f  == AllocVars(catalog, alloc)
             s2 == WithCerts(catalog, alloc, s1)
             s3 == Sync(s2, f, AllocScope(catalog, alloc))
  <1>1. p \in Paths /\ p[1] = "alloc" /\ IsStore(kv)
    BY AllocPaths DEF Repeating, BuildInv, BuildTypes
  <1>2. Same(Built(catalog, alloc)[p], s3[p])
    BY <1>1, BuiltKeys
  <1>3. \A v \in Slots : \A q \in AllocNS(v[1], v[2]) : s1[q] = kv[q]
    BY VariablesSpare
  <1>4. catalog \in Workspaces /\ Settled(kv, catalog, alloc)
    BY DEF Repeating, RebuildInv
  <1>5. s2 = Sync(s1, c, CertScopes(catalog, alloc))
    BY DEF WithCerts, CertScopes
  <1> HIDE DEF s1
  <1>6. ASSUME p \in DOMAIN c
        PROVE  Live(kv, p) /\ kv[p].value = Plain(c[p]) /\ p \in CertNS(u[1], u[2])
    <2>1. PICK spec \in CertSpecs(catalog, u[1]) :
              p = CertPath(u[1], u[2], spec) /\ u[2] \in NonRemoved(alloc, u[1])
      BY <1>4, <1>6, CertsPut
    <2>2. u[1] \in JobsOf(catalog) /\ u[1] \in Jobs
      BY <2>1, SlotIs DEF CertSpecs
    <2>3. p \in CertNS(u[1], u[2]) /\ c[p] = CertOf(catalog, alloc, s1, u[1], u[2], spec)
      BY <1>4, <2>1, <2>2, CertsPut
    <2>4. ASSUME NEW i \in NonRemoved(alloc, u[1])
          PROVE  s1[CertPath(u[1], i, spec)] = kv[CertPath(u[1], i, spec)]
      <3>1. <<u[1], i>> \in Slots
        BY <2>2 DEF NonRemoved, Slots
      <3>2. CertPath(u[1], i, spec) \in AllocNS(u[1], i)
        BY <1>4, <2>1, <2>2, CertsPut, AllocPaths
      <3> QED BY <1>3, <3>1, <3>2
    <2>5. c[p] = kv[p].value.text
      BY <2>1, <2>2, <2>3, <2>4, CertificatesStand
    <2>6. Live(kv, p)
      BY <2>1, <2>2 DEF Repeating, BuildInv, CertsInv
    <2>7. kv[p].value = Plain(kv[p].value.text)
      BY <1>4, <2>3, <2>6 DEF Settled
    <2> QED BY <2>3, <2>5, <2>6, <2>7
  <1>7. Live(kv, p) => /\ InUse(alloc, u)
                       /\ p \in CertNS(u[1], u[2]) =>
                             \E spec \in CertSpecs(catalog, u[1]) : p = CertPath(u[1], u[2], spec)
    <2> SUFFICES ASSUME Live(kv, p)
                 PROVE  /\ InUse(alloc, u)
                        /\ p \in CertNS(u[1], u[2]) =>
                              \E spec \in CertSpecs(catalog, u[1]) : p = CertPath(u[1], u[2], spec)
      OBVIOUS
    <2>1. /\ InUse(alloc, u)
          /\ p \in CertNS(u[1], u[2]) => \E spec \in CertSpecs(catalog, u[1]) : spec.name = p[5]
      BY DEF Repeating, BuildInv, NothingLeftBehind, InUse
    <2>2. ASSUME p \in CertNS(u[1], u[2]), NEW spec \in CertSpecs(catalog, u[1]), spec.name = p[5]
          PROVE  p = CertPath(u[1], u[2], spec)
      BY <2>2 DEF CertNS, CertPath
    <2> QED BY <2>1, <2>2
  <1>8. s2[p] = s1[p]
    <2>1. CASE p \in DOMAIN c
      <3>1. Live(s1, p) /\ s1[p].value = Plain(c[p])
        BY <1>3, <1>6, <2>1 DEF Live
      <3> HIDE DEF c
      <3> QED BY <1>1, <1>5, <2>1, <3>1, SyncKeeps
    <2>2. CASE p \notin DOMAIN c
      <3>1. p \notin CertScopes(catalog, alloc) \/ ~Live(kv, p)
        <4> SUFFICES ASSUME p \in CertScopes(catalog, alloc), Live(kv, p) PROVE FALSE
          OBVIOUS
        <4>1. p \in CertNS(u[1], u[2])
          <5>1. PICK j, h : p \in CertNS(j, h)
            BY DEF CertScopes, CertScope
          <5>2. j = u[1] /\ h = u[2]
            BY <5>1, AllocPaths
          <5> QED BY <5>1, <5>2
        <4>2. PICK spec \in CertSpecs(catalog, u[1]) : p = CertPath(u[1], u[2], spec)
          BY <1>7, <4>1
        <4>3. u[2] \in NonRemoved(alloc, u[1]) /\ u[1] \in Jobs
          BY <1>7, InUseIs, SlotIs
        <4> QED BY <1>4, <2>2, <4>2, <4>3, CertsPut
      <3>2. Live(s1, p) <=> Live(kv, p)
        BY <1>3 DEF Live
      <3> HIDE DEF c
      <3> QED BY <1>1, <1>5, <2>2, <3>1, <3>2, SyncKeeps
    <2> QED BY <2>1, <2>2
  <1>9. s2[p] = kv[p]
    BY <1>3, <1>8
  <1> HIDE DEF s2, c
  <1>10. s3[p] = s2[p]
    <2>1. CASE p \in DOMAIN f
      <3>1. Live(kv, p) /\ kv[p].value = Plain(f[p])
        BY <1>4, <2>1 DEF Settled, Says
      <3>2. Live(s2, p) /\ s2[p].value = Plain(f[p])
        BY <1>9, <3>1 DEF Live
      <3> HIDE DEF f
      <3> QED BY <1>1, <2>1, <3>2, SyncKeeps
    <2>2. CASE p \notin DOMAIN f
      <3>1. p \notin AllocScope(catalog, alloc) \/ ~Live(kv, p)
        <4> SUFFICES ASSUME p \in AllocScope(catalog, alloc), Live(kv, p) PROVE FALSE
          OBVIOUS
        <4>1. PICK t \in Slots : /\ p \in AllocNS(t[1], t[2])
                                 /\ \/ alloc[t] = "removed"
                                    \/ /\ t[1] \in JobsOf(catalog) /\ t[2] \in NonRemoved(alloc, t[1])
                                       /\ p \notin CertNS(t[1], t[2])
                                       /\ p # <<"alloc", t[1], t[2], "version">>
          BY DEF AllocScope, AllocScopeInUse
        <4>2. t = u
          BY <4>1, AllocPaths, SlotIs
        <4>3. u[1] \in JobsOf(catalog) /\ u[2] \in NonRemoved(alloc, u[1])
              /\ p \notin CertNS(u[1], u[2]) /\ p # <<"alloc", u[1], u[2], "version">>
          BY <1>7, <4>1, <4>2 DEF InUse
        <4>4. p = <<"alloc", u[1], u[2], "peer_workers">>
          BY <4>3 DEF AllocNS
        <4> QED BY <2>2, <4>3, <4>4 DEF AllocVars
      <3>2. Live(s2, p) <=> Live(kv, p)
        BY <1>9 DEF Live
      <3> HIDE DEF f
      <3> QED BY <1>1, <2>2, <3>1, <3>2, SyncKeeps
    <2> QED BY <2>1, <2>2
  <1> QED BY <1>2, <1>9, <1>10

(* What BuildVariables says is what the store has: it stays. *)
LEMMA SaidStands ==
    ASSUME NEW w, NEW a, NEW f, NEW P, P \subseteq Paths, Says(kv, f, P), NEW p \in P,
           p \in DOMAIN Variables(w, a) <=> p \in DOMAIN f,
           p \in DOMAIN f => Variables(w, a)[p] = f[p]
    PROVE  Sync(kv, Variables(w, a), VariableScope(w, a))[p] = kv[p]
  <1> DEFINE V == Variables(w, a)
  <1>1. p \in Paths
    OBVIOUS
  <1>2. IF p \in DOMAIN f THEN Live(kv, p) /\ kv[p].value = Plain(f[p]) ELSE ~Live(kv, p)
    BY DEF Says
  <1> HIDE DEF V
  <1>3. CASE p \in DOMAIN V
    BY <1>1, <1>2, <1>3, SyncKeeps DEF V
  <1>4. CASE p \notin DOMAIN V
    BY <1>1, <1>2, <1>4, SyncKeeps DEF V
  <1> QED BY <1>3, <1>4 DEF V

(* The keys of workers, labels and the bucket, of a build that repeats the last one *)
LEMMA WorkersStand ==
    ASSUME Repeating, NEW p \in Paths,
           p \in (UNION {WorkerNS(h) \cup TagsNS(h) : h \in Workers}) \cup SharedNS \cup BucketNS
    PROVE  Same(Built(catalog, alloc)[p], kv[p])
  <1> DEFINE V  == Variables(catalog, alloc)
             s1 == Sync(kv, V, VariableScope(catalog, alloc))
             f1 == WorkerVars(catalog, alloc)
             f2 == TagVars(catalog)
             f3 == SharedVars(catalog)
             f4 == BucketVars(catalog, alloc)
  <1>1. catalog \in Workspaces /\ IsStore(kv) /\ Settled(kv, catalog, alloc)
    BY DEF Repeating, RebuildInv, BuildInv, BuildTypes
  <1>2. p[1] \in {"maand/worker", "maand/worker/tags", "maand/bucket"}
    BY NamespacesAre
  <1>3. Same(Built(catalog, alloc)[p], s1[p])
    <2>1. p \notin DOMAIN ScrapeNames(Monitoring(catalog))
      BY <1>2, StagesAre
    <2> QED BY <1>1, <1>2, <2>1, BuiltKeys
  <1>4. /\ \A q \in DOMAIN f1 : q \in DOMAIN V /\ V[q] = f1[q]
        /\ \A q \in DOMAIN f2 : q \in DOMAIN V /\ V[q] = f2[q]
        /\ \A q \in DOMAIN f3 : q \in DOMAIN V /\ V[q] = f3[q]
        /\ \A q \in DOMAIN f4 : q \in DOMAIN V /\ V[q] = f4[q]
    <2>1. \A f \in {WorkerVars(catalog, alloc), TagVars(catalog), JobVars(catalog, alloc),
                    ConfVars(catalog, alloc), FileVars(catalog, alloc),
                    SharedVars(catalog), BucketVars(catalog, alloc)} :
             \A q \in DOMAIN f : q \in DOMAIN V /\ V[q] = f[q]
      BY VariablesAre
    <2> HIDE DEF V
    <2> QED BY <2>1
  <1>5. \A q \in DOMAIN V :
           /\ q[1] = "maand/worker" => q \in DOMAIN f1 \/ q \in DOMAIN f3
           /\ q[1] = "maand/worker/tags" => q \in DOMAIN f2
           /\ q[1] = "maand/bucket" => q \in DOMAIN f4
    BY VariablesAre
  <1>6. /\ \A q \in DOMAIN f1 : q \notin SharedNS /\ \E h \in HostsOf(catalog) : q \in WorkerNS(h)
        /\ \A q \in DOMAIN f2 : \E h \in HostsOf(catalog) : q \in TagsNS(h)
        /\ DOMAIN f3 \subseteq SharedNS
    <2>1. \A q \in DOMAIN f1 : \E h \in HostsOf(catalog) : q \in WorkerNS(h)
      BY DEF WorkerVars
    <2>2. \A q \in DOMAIN f2 : \E h \in HostsOf(catalog) : q \in TagsNS(h)
      BY DEF TagVars
    <2>3. DOMAIN f3 \subseteq SharedNS
      BY DEF SharedVars, SharedNS
    <2> QED BY <2>1, <2>2, <2>3, NamespacesAre
  <1>7. \A h, i : \A q \in WorkerNS(h) \cup TagsNS(h) : q \in WorkerNS(i) \cup TagsNS(i) => h = i
    BY DEF WorkerNS, TagsNS
  <1> SUFFICES s1[p] = kv[p]
    BY <1>3 DEF Same
  <1> HIDE DEF f1, f2, f3, f4
  <1>8. ASSUME NEW h \in HostsOf(catalog), p \in WorkerNS(h) PROVE s1[p] = kv[p]
    <2>1. Says(kv, f1, WorkerNS(h)) /\ WorkerNS(h) \subseteq Paths
      BY <1>1, NamespacesAre, BuildAssumption DEF Settled, f1, HostsOf, ToSet
    <2>2. p \notin SharedNS /\ p[1] = "maand/worker"
      BY <1>8, NamespacesAre
    <2>3. p \in DOMAIN V <=> p \in DOMAIN f1
      BY <1>4, <1>5, <1>6, <2>2
    <2>4. p \in DOMAIN f1 => V[p] = f1[p]
      BY <1>4
    <2> HIDE DEF V
    <2> QED BY <1>8, <2>1, <2>3, <2>4, SaidStands DEF V
  <1>9. ASSUME NEW h \in HostsOf(catalog), p \in TagsNS(h) PROVE s1[p] = kv[p]
    <2>1. Says(kv, f2, TagsNS(h)) /\ TagsNS(h) \subseteq Paths
      BY <1>1, NamespacesAre, BuildAssumption DEF Settled, f2, HostsOf, ToSet
    <2>2. p[1] = "maand/worker/tags"
      BY <1>9, NamespacesAre
    <2>3. p \in DOMAIN V <=> p \in DOMAIN f2
      BY <1>4, <1>5, <2>2
    <2>4. p \in DOMAIN f2 => V[p] = f2[p]
      BY <1>4
    <2> HIDE DEF V
    <2> QED BY <1>9, <2>1, <2>3, <2>4, SaidStands DEF V
  <1>10. ASSUME NEW h \in Workers, p \in WorkerNS(h) \cup TagsNS(h), h \notin HostsOf(catalog)
         PROVE  s1[p] = kv[p]
    <2>1. p \notin DOMAIN f1 /\ p \notin DOMAIN f2
      BY <1>6, <1>7, <1>10
    <2>2. p \notin SharedNS /\ p \notin BucketNS
      BY <1>10, NamespacesAre
    <2>3. p \notin DOMAIN V
      BY <1>5, <1>6, <1>10, <2>1, <2>2, NamespacesAre
    <2>4. p \notin VariableScope(catalog, alloc)
      <3> SUFFICES ASSUME p \in VariableScope(catalog, alloc) PROVE FALSE
        OBVIOUS
      <3>1. \A j : p \notin JobNS(j) \cup ConfNS(j)
        BY <1>2, NamespacesAre
      <3>2. \A j, i : p \notin AllocNS(j, i)
        BY <1>2, AllocPaths
      <3>3. PICK i \in HostsOf(catalog) : p \in WorkerNS(i) \cup TagsNS(i)
        BY <1>2, <2>2, <3>1, <3>2, OwnScope
      <3> QED BY <1>7, <1>10, <3>3
    <2> HIDE DEF V
    <2> QED BY <2>3, <2>4, SyncKeeps
  <1>11. ASSUME p \in SharedNS PROVE s1[p] = kv[p]
    <2>1. Says(kv, f3, SharedNS) /\ SharedNS \subseteq Paths
      BY <1>1, NamespacesAre DEF Settled, f3
    <2>2. p[1] = "maand/worker"
      BY <1>11, NamespacesAre
    <2>3. p \in DOMAIN V <=> p \in DOMAIN f3
      BY <1>4, <1>5, <1>6, <1>11, <2>2
    <2>4. p \in DOMAIN f3 => V[p] = f3[p]
      BY <1>4
    <2> HIDE DEF V
    <2> QED BY <1>11, <2>1, <2>3, <2>4, SaidStands DEF V
  <1>12. ASSUME p \in BucketNS PROVE s1[p] = kv[p]
    <2>1. Says(kv, f4, BucketNS) /\ BucketNS \subseteq Paths
      BY <1>1, NamespacesAre DEF Settled, f4
    <2>2. p[1] = "maand/bucket"
      BY <1>12, NamespacesAre
    <2>3. p \in DOMAIN V <=> p \in DOMAIN f4
      BY <1>4, <1>5, <2>2
    <2>4. p \in DOMAIN f4 => V[p] = f4[p]
      BY <1>4
    <2> HIDE DEF V
    <2> QED BY <1>12, <2>1, <2>3, <2>4, SaidStands DEF V
  <1> HIDE DEF s1
  <1> QED BY <1>8, <1>9, <1>10, <1>11, <1>12

(* The keys of a job that is active, of a build that repeats the last one: the name may
   be put twice if the job is scraped under another. *)
LEMMA JobsStand ==
    ASSUME Repeating, NEW j \in Jobs, Active(alloc, j) # {}, NEW p \in JobNS(j) \cup ConfNS(j),
           p = NameKey(j) => kv[p].value.text = j
    PROVE  Same(Built(catalog, alloc)[p], kv[p])
  <1> DEFINE V  == Variables(catalog, alloc)
             s1 == Sync(kv, V, VariableScope(catalog, alloc))
             m  == Monitoring(catalog)
             n  == ScrapeNames(m)
             f  == JobKeys(catalog, alloc, j)
             g  == ConfKeys(catalog, j)
             jv == JobVars(catalog, alloc)
             cv == ConfVars(catalog, alloc)
  <1>1. catalog \in Workspaces /\ IsStore(kv) /\ Settled(kv, catalog, alloc)
    BY DEF Repeating, RebuildInv, BuildInv, BuildTypes
  <1>2. j \in JobsOf(catalog)
    <2>1. PICK h \in Active(alloc, j) : TRUE
      OBVIOUS
    <2>2. <<j, h>> \in Slots /\ InUse(alloc, <<j, h>>)
      BY <2>1 DEF Active, Slots, InUse
    <2>3. <<j, h>>[1] = j
      OBVIOUS
    <2> QED BY <2>2, <2>3 DEF Repeating, BuildInv, RowsInv
  <1>3. j \in Kept(catalog, alloc)
    BY <1>2, ActiveIsKept
  <1>4. Says(kv, f, JobNS(j)) /\ Says(kv, g, ConfNS(j))
    BY <1>1, <1>2 DEF Settled
  <1>5. p \in Paths /\ p[2] = j /\ p[1] \in {"maand/job", "vars/bucket/job"}
    BY NamespacesAre
  <1>6. /\ \A q \in DOMAIN jv : q \in DOMAIN V /\ V[q] = jv[q]
        /\ \A q \in DOMAIN cv : q \in DOMAIN V /\ V[q] = cv[q]
        /\ \A q \in DOMAIN V : q[1] = "vars/bucket/job" => q \in DOMAIN cv
    <2>1. \A x \in {WorkerVars(catalog, alloc), TagVars(catalog), JobVars(catalog, alloc),
                    ConfVars(catalog, alloc), FileVars(catalog, alloc),
                    SharedVars(catalog), BucketVars(catalog, alloc)} :
             \A q \in DOMAIN x : q \in DOMAIN V /\ V[q] = x[q]
      BY VariablesAre
    <2>2. \A q \in DOMAIN V : q[1] = "vars/bucket/job" => q \in DOMAIN cv
      BY VariablesAre
    <2> HIDE DEF V
    <2> QED BY <2>1, <2>2
  <1>7. p = NameKey(j) => NameOf(m, j) = j
    <2> SUFFICES ASSUME p = NameKey(j) PROVE NameOf(m, j) = j
      OBVIOUS
    <2>1. p \in JobNS(j) /\ p[3] = "job_name"
      BY DEF JobNS, NameKey
    <2>2. f[p] = NameOf(m, j) /\ p \in DOMAIN f
      BY <2>1 DEF JobKeys
    <2>3. kv[p].value = Plain(NameOf(m, j))
      BY <1>4, <2>1, <2>2 DEF Says
    <2> HIDE DEF m
    <2> QED BY <2>3 DEF Plain
  <1>8. s1[p] = kv[p]
    <2>1. CASE p \in JobNS(j)
      <3>1. p \in DOMAIN jv /\ p \in DOMAIN f
        BY <1>3, <2>1 DEF JobVars, JobKeys
      <3>2. jv[p] = f[p]
        <4>1. jv[p] = IF p[3] = "version" THEN catalog.jobs[p[2]].version
                      ELSE IF p[3] = "job_name" THEN p[2] ELSE InOrder(catalog, Active(alloc, p[2]))
          BY <3>1 DEF JobVars
        <4>2. f[p] = IF p[3] = "version" THEN catalog.jobs[j].version
                     ELSE IF p[3] = "job_name" THEN NameOf(m, j) ELSE InOrder(catalog, Active(alloc, j))
          BY <2>1 DEF JobKeys
        <4>3. p[3] = "job_name" => NameOf(m, j) = j
          BY <1>7, <2>1, NamespacesAre
        <4> HIDE DEF jv, f, m
        <4> QED BY <1>5, <4>1, <4>2, <4>3
      <3>3. JobNS(j) \subseteq Paths
        BY NamespacesAre
      <3> HIDE DEF V, jv, f
      <3> QED BY <1>4, <1>6, <2>1, <3>1, <3>2, <3>3, SaidStands DEF V
    <2>2. CASE p \in ConfNS(j)
      <3>1. p \in DOMAIN cv <=> p \in DOMAIN g
        <4>1. \A i : p \in ConfNS(i) => i = j
          BY <2>2 DEF ConfNS
        <4>2. DOMAIN cv = UNION {ConfNS(i) : i \in {k \in Kept(catalog, alloc) :
                                                    \E r \in Resources : catalog.config[k][r] # Unset}}
          BY DEF ConfVars
        <4> QED BY <1>3, <2>2, <4>1, <4>2 DEF ConfKeys
      <3>2. p \in DOMAIN g => cv[p] = g[p]
        BY <1>5, <3>1 DEF ConfVars, ConfKeys
      <3>3. p[1] = "vars/bucket/job" /\ ConfNS(j) \subseteq Paths
        BY <2>2, NamespacesAre
      <3>4. p \in DOMAIN V <=> p \in DOMAIN g
        BY <1>6, <3>1, <3>3
      <3> HIDE DEF V, cv, g
      <3> QED BY <1>4, <1>6, <2>2, <3>1, <3>2, <3>3, <3>4, SaidStands DEF V
    <2> QED BY <2>1, <2>2
  <1>9. CASE p \notin DOMAIN n
    <2>1. Same(Built(catalog, alloc)[p], s1[p])
      BY <1>1, <1>5, <1>9, BuiltKeys
    <2> HIDE DEF s1
    <2> QED BY <1>8, <2>1 DEF Same
  <1>10. CASE p \in DOMAIN n
    <2>1. Same(Built(catalog, alloc)[p], Sync(s1, n, {})[p])
      BY <1>1, <1>5, <1>10, BuiltKeys
    <2>2. p = NameKey(j) /\ p \in JobNS(j)
      <3>1. p[1] = "maand/job" /\ p[3] = "job_name"
        BY <1>10, StagesAre
      <3> QED BY <3>1, NamespacesAre
    <2>3. n[p] = j
      BY <1>7, <1>10, <2>2, NamesAre
    <2>4. Live(kv, p) /\ kv[p].value = Plain(f[p]) /\ f[p] = j
      <3>1. p \in DOMAIN f
        BY <2>2 DEF JobKeys
      <3>2. Live(kv, p) /\ kv[p].value = Plain(f[p])
        BY <1>4, <2>2, <3>1 DEF Says
      <3>3. kv[p].value.text = j /\ Plain(f[p]).text = f[p]
        BY <2>2 DEF Plain
      <3> HIDE DEF f
      <3> QED BY <3>2, <3>3
    <2>5. Live(s1, p) /\ s1[p].value = Plain(n[p])
      BY <1>8, <2>3, <2>4 DEF Live
    <2> HIDE DEF s1, n
    <2>6. Sync(s1, n, {})[p] = s1[p]
      BY <1>5, <1>10, <2>5, SyncKeeps
    <2> QED BY <1>8, <2>1, <2>6 DEF Same
  <1> QED BY <1>9, <1>10

(* The keys of promconfig.BuildCatalog, of a build that repeats the last one *)
LEMMA ScrapesStand ==
    ASSUME Repeating, NEW p \in PrometheusNS
    PROVE  Same(Built(catalog, alloc)[p], kv[p])
  <1> DEFINE g == CatalogVars(Monitoring(catalog), ActiveOf(alloc))
  <1>1. IsStore(kv) /\ Says(kv, g, PrometheusNS)
    BY DEF Repeating, RebuildInv, Settled, BuildInv, BuildTypes
  <1>2. p \in Paths /\ p[1] = "maand/prometheus"
    BY PrometheusPaths
  <1>3. Same(Built(catalog, alloc)[p], Sync(kv, g, PrometheusNS)[p])
    BY <1>1, <1>2, BuiltKeys
  <1>4. IF p \in DOMAIN g THEN Live(kv, p) /\ kv[p].value = Plain(g[p]) ELSE ~Live(kv, p)
    BY <1>1 DEF Says
  <1> HIDE DEF g
  <1>5. Sync(kv, g, PrometheusNS)[p] = kv[p]
    BY <1>2, <1>4, SyncKeeps
  <1> QED BY <1>3, <1>5 DEF Same

(* No key of the store but the exceptions gets a version from a build that repeats the
   last one. *)
LEMMA RebuildIsQuiet ==
    ASSUME Repeating, NEW p \in Paths, Built(catalog, Placed(catalog))[p].version # kv[p].version
    PROVE  \/ p[1] \in {"vars/job", "secrets/job"}
           \/ p[1] \in {"maand/job", "vars/bucket/job"} /\ Active(alloc, p[2]) = {}
           \/ \E j \in Jobs : p = NameKey(j) /\ kv[p].value.text # j
  <1>1. ~Same(Built(catalog, alloc)[p], kv[p])
    BY PlacedAgain DEF Same
  <1>2. \/ \E j \in Jobs : p \in JobNS(j) \cup ConfNS(j)
        \/ \E j \in Jobs : p \in VarsNS(j) \cup SecretsNS(j)
        \/ \E u \in Slots : p \in AllocNS(u[1], u[2])
        \/ p \in (UNION {WorkerNS(h) \cup TagsNS(h) : h \in Workers}) \cup SharedNS \cup BucketNS
        \/ p \in PrometheusNS
    <2>1. Paths = PathsOfBuild
      BY BuildAssumption
    <2>2. \/ p \in UNION {JobNS(j) \cup ConfNS(j) \cup VarsNS(j) \cup SecretsNS(j) : j \in Jobs}
          \/ p \in UNION {AllocNS(s[1], s[2]) : s \in Slots}
          \/ p \in UNION {WorkerNS(h) \cup TagsNS(h) : h \in Workers}
          \/ p \in SharedNS \cup BucketNS \cup PrometheusNS
      BY <2>1 DEF PathsOfBuild
    <2> QED BY <2>2
  <1>3. CASE \E j \in Jobs : p \in JobNS(j) \cup ConfNS(j)
    <2>1. PICK j \in Jobs : p \in JobNS(j) \cup ConfNS(j)
      BY <1>3
    <2>2. p[2] = j /\ p[1] \in {"maand/job", "vars/bucket/job"}
      BY <2>1, NamespacesAre
    <2> QED BY <1>1, <2>1, <2>2, JobsStand
  <1>4. CASE \E j \in Jobs : p \in VarsNS(j) \cup SecretsNS(j)
    BY <1>4 DEF VarsNS, SecretsNS
  <1>5. ~\E u \in Slots : p \in AllocNS(u[1], u[2])
    BY <1>1, AllocationsStand
  <1>6. p \notin (UNION {WorkerNS(h) \cup TagsNS(h) : h \in Workers}) \cup SharedNS \cup BucketNS
    BY <1>1, WorkersStand
  <1>7. p \notin PrometheusNS
    BY <1>1, ScrapesStand
  <1> QED BY <1>2, <1>3, <1>4, <1>5, <1>6, <1>7

(* An accepted build of what the last one built, with no certificate due and the same CA,
   makes no version of any key and so no certificate, whatever deploys and collections
   there were in between (Execute: putValue, certNeedsRegeneration). *)
THEOREM RebuildsChangeNothing == Spec => RebuildChangesNothing
  <1>1. ASSUME BuildInv, RebuildInv, [Next]_vars, builds' # builds, outcome' = "ok", catalog' = catalog,
               caHash.current = {ca},
               \A s \in Slots : \A p \in CertNS(s[1], s[2]) :
                   Live(kv, p) => ~NeedsRenewal(kv[p].value.text)
        PROVE  \A p \in Paths :
                   kv'[p].version # kv[p].version =>
                      \/ p[1] \in {"vars/job", "secrets/job"}
                      \/ p[1] \in {"maand/job", "vars/bucket/job"} /\ Active(alloc, p[2]) = {}
                      \/ \E j \in Jobs : p = NameKey(j) /\ kv[p].value.text # j
    <2>1. PICK w \in Workspaces : Build(w)
      BY <1>1 DEF Next, vars, Deploy, Collect, ReplaceCA, Tick
    <2>2. catalog' = w /\ kv' = Built(w, Placed(w))
      BY <1>1, <2>1, BuildCases
    <2>3. Repeating
      BY <1>1, <2>2 DEF Repeating, NoneDue
    <2>4. kv' = Built(catalog, Placed(catalog))
      BY <1>1, <2>2
    <2> QED BY <2>3, <2>4, RebuildIsQuiet
  <1>2. BuildInv /\ RebuildInv /\ [Next]_vars =>
            [builds' # builds /\ outcome' = "ok" /\ catalog' = catalog /\ caHash.current = {ca}
             /\ (\A s \in Slots : \A p \in CertNS(s[1], s[2]) : Live(kv, p) => ~NeedsRenewal(kv[p].value.text)) =>
                \A p \in Paths :
                   kv'[p].version # kv[p].version =>
                      \/ p[1] \in {"vars/job", "secrets/job"}
                      \/ p[1] \in {"maand/job", "vars/bucket/job"} /\ Active(alloc, p[2]) = {}
                      \/ \E j \in Jobs : p = NameKey(j) /\ kv[p].value.text # j]_vars
    BY <1>1
  <1>3. BuildInv /\ RebuildInv /\ [Next]_vars => RebuildInv'
    BY RebuildKeeps
  <1> QED BY <1>2, <1>3, RebuildStarts, BuildInvariant, PTL DEF Spec, RebuildChangesNothing
=============================================================================
