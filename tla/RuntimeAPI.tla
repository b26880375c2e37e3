----------------------------- MODULE RuntimeAPI -----------------------------
(* The handlers behind /kv, /kv/secret, /kv/keys and /demands that the scripts *)
(* of job commands call (jobcommand/runtime_handlers.go, runtime_http.go), as  *)
(* operators from a store and a request to the answer and the new store.       *)
(*                                                                            *)
(* Of every namespace one key is modelled: vars/job/<job> and                 *)
(* secrets/job/<job> hold what scripts write, maand/job/<job> holds            *)
(* rollout_order and maand/job/<job>/worker/<ip> the version of an allocation. *)
EXTENDS KVStore

CONSTANTS Jobs, Workers,
          Demands   \* pairs <<job, upstream>> of job_commands.demand_job

Vars(j)       == <<"vars/job", j>>
Secrets(j)    == <<"secrets/job", j>>
Catalog(j)    == <<"maand/job", j>>
AllocOf(j, w) == <<"maand/job/worker", j, w>>

Slots == Jobs \X Workers
PathsOfJobs == ({"vars/job", "secrets/job", "maand/job"} \X Jobs)
                  \cup {AllocOf(s[1], s[2]) : s \in Slots}

ASSUME APIAssumption == Empty = "" /\ Paths = PathsOfJobs /\ Demands \subseteq Jobs \X Jobs

(* strings.TrimSpace, on the one value that has space to trim *)
Trim(v) == IF v = " " THEN "" ELSE v

Answer(status, s)     == [status |-> status, store |-> s]
Found(status, value)  == [status |-> status, value |-> value]

-----------------------------------------------------------------------------
(* Access control.  A caller c is <<job, worker>> of X-ALLOCATION-ID. *)

IsSecret(p) == p[1] = "secrets/job"

(* JobKVNamespaces: the namespaces of a job that belong to no worker *)
JobPaths(j) == {Vars(j), Secrets(j), Catalog(j)}

(* AllowedKVNamespaces *)
Allowed(c) == JobPaths(c[1]) \cup {AllocOf(c[1], c[2])}

(* Slip: secrets of upstream jobs are left out. *)
UpstreamOpen(j) == UNION {JobPaths(d[2]) \ {Secrets(d[2])} : d \in {e \in Demands : e[1] = j}}

(* UpstreamDemandKVNamespaces *)
Upstream(j) == UNION {JobPaths(d[2]) : d \in {e \in Demands : e[1] = j}}

(* AllowedKVNamespacesWithUpstream, for reads *)
Readable(c) == Allowed(c) \cup Upstream(c[1])

(* validateStoreKeyWrite: rollout_order only where a deploy has yet to read it *)
Writable(c, event, p) ==
    \/ p = Vars(c[1])
    \/ p = Catalog(c[1]) /\ event \in {"pre_deploy", "cli"}

(* Slip: the rule for health checks is left to the process that serves them. *)
ReadOnlyNever(event) == FALSE

(* blockedWriteDuringHealthCheck *)
ReadOnly(event) == event = "health_check"

-----------------------------------------------------------------------------
(* handleStoreKeyPut *)
HandlePut(s, c, event, p, v) ==
    IF \/ v = ""
       \/ ~Writable(c, event, p)
       \/ IsSecret(p)
       \/ ReadOnly(event)
    THEN Answer("refused", s)
    ELSE Answer("ok", Put(s, p, Trim(v)))

(* handleStoreKeyDelete; a missing namespace and a missing key are both errors *)
HandleDelete(s, c, event, p) ==
    IF \/ p # Vars(c[1])
       \/ p \notin Readable(c)
       \/ ReadOnly(event)
    THEN Answer("refused", s)
    ELSE IF Exists(s, p) THEN Answer("ok", Delete(s, p))
    ELSE Answer("not found", s)

(* handleStoreSecretPut with validateStoreSecretPayload *)
HandleSecretPut(s, c, event, p, v) ==
    IF \/ v = ""
       \/ p # Secrets(c[1])
       \/ p \notin Allowed(c)
       \/ ReadOnly(event)
    THEN Answer("refused", s)
    ELSE Answer("ok", PutSecret(s, p, v))

(* handleStoreSecretDelete *)
HandleSecretDelete(s, c, event, p) ==
    IF \/ p # Secrets(c[1])
       \/ p \notin Allowed(c)
       \/ ReadOnly(event)
    THEN Answer("refused", s)
    ELSE IF Exists(s, p) THEN Answer("ok", Delete(s, p))
    ELSE Answer("not found", s)

(* handleStoreKeyGet *)
HandleGet(s, c, p) ==
    IF p \notin Readable(c) THEN Found("refused", "")
    ELSE IF ~Live(s, p) THEN Found("not found", "")
    ELSE IF IsSecret(p) /\ ~IsEncrypted(s[p].value) THEN Found("error", "")
    ELSE Found("ok", IF IsSecret(p) THEN Decrypted(s[p].value) ELSE s[p].value.text)

(* handleStoreKeysList of the two namespaces scripts write *)
HandleList(s, c) == {p \in {Vars(c[1]), Secrets(c[1])} : Live(s, p)}

(* handleCommandDemandsGet: the jobs whose commands demand one of this job *)
HandleDemands(c) == {d[1] : d \in {e \in Demands : e[2] = c[1]}}

(* serveStoreKeys and serveStoreSecret: the handler of a request *)
Handle(s, c, event, r) ==
    CASE r.op = "put"           -> HandlePut(s, c, event, r.path, r.value)
      [] r.op = "delete"        -> HandleDelete(s, c, event, r.path)
      [] r.op = "put secret"    -> HandleSecretPut(s, c, event, r.path, r.value)
      [] r.op = "delete secret" -> HandleSecretDelete(s, c, event, r.path)
=============================================================================
