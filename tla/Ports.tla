-------------------------------- MODULE Ports --------------------------------
(* The port numbers of jobs (build/build_ports.go), across builds of a         *)
(* changing workspace.  A port is named by <<job, name>>.                      *)
(*                                                                            *)
(* A build works on existing and used, the maps of its portAllocator, and on   *)
(* rows, the job_ports table as its transaction sees it.  Commit stores rows;  *)
(* an error rolls the transaction back.                                       *)
EXTENDS Integers, FiniteSets

CONSTANTS Jobs,         \* job names
          Names,        \* port names
          JobRank,      \* [Jobs -> Nat], the order of sortedJobNames
          NameRank,     \* [Names -> Nat], the order of ManifestPorts.Names
          Workspaces,   \* what a build may find: [min, max, jobs, ports]
          MaxBuilds     \* bound on builds

Keys        == Jobs \X Names
NoPort      == 0        \* no such row, or not in the manifest
Provisioned == -1       \* the binding {} of a manifest

(* resources.ports of every job of a workspace, and port_min and port_max of
   bucket.conf. *)
Workspace ==
    [min : Nat, max : Nat, jobs : SUBSET Jobs, ports : [Keys -> Nat \cup {Provisioned}]]

ASSUME PortsAssumption ==
    /\ Workspaces \subseteq Workspace
    /\ JobRank \in [Jobs -> Nat]
    /\ NameRank \in [Names -> Nat]
    /\ MaxBuilds \in Nat

VARIABLES
    table,      \* job_ports, committed: [Keys -> Nat]
    jobRows,    \* names in the job table, committed
    phase,      \* "idle", "jobs" or "ports"
    ws,         \* the workspace this build reads
    existing,   \* portAllocator.existing
    used,       \* portAllocator.usedNumbers
    rows,       \* job_ports inside the transaction
    todo,       \* jobs BuildJobs has still to visit
    job, names, \* the job syncJobPorts works on, and its names not yet resolved
    outcome,    \* how the last build ended
    builds

db      == <<table, jobRows>>
alloc   == <<existing, used, rows>>
vars    == <<db, phase, ws, alloc, todo, job, names, outcome, builds>>

NoPorts == [k \in Keys |-> NoPort]
Nobody  == [min |-> 1, max |-> 1, jobs |-> {}, ports |-> NoPorts]

Init ==
    /\ table = NoPorts /\ jobRows = {}
    /\ phase = "idle" /\ ws = Nobody
    /\ existing = NoPorts /\ used = {} /\ rows = NoPorts
    /\ todo = {} /\ job \in Jobs /\ names = {}
    /\ outcome = "none" /\ builds = 0

-----------------------------------------------------------------------------
(* The helpers of the allocator. *)

(* LoadPortRange and PortRange.Validate *)
ValidRange(w) == w.min >= 1 /\ w.max <= 65535 /\ w.min <= w.max

(* PortRange.Contains *)
Pool(w) == w.min .. w.max

(* ManifestPorts.Names of a job *)
Declared(w, j) == {n \in Names : j \in w.jobs /\ w.ports[<<j, n>>] # NoPort}

(* newPortAllocator: every number of GetAllJobPortAssignments is taken. *)
Numbers(t) == {t[k] : k \in Keys} \ {NoPort}

(* The element a loop over a sorted slice comes to first. *)
IsFirst(x, S, rank) == x \in S /\ \A y \in S : rank[x] <= rank[y]

(* assignProvisioned scans the pool from its lower end. *)
IsLowest(n, S) == n \in S /\ \A m \in S : n <= m

-----------------------------------------------------------------------------
(* buildPortAllocator: an invalid range ends the build before anything is
   written.  Ports of jobs that left the workspace are among the existing ones:
   BuildJobs drops those jobs last. *)
StartBuild ==
    /\ phase = "idle" /\ builds < MaxBuilds
    /\ builds' = builds + 1
    /\ \E w \in Workspaces :
          IF ValidRange(w)
          THEN /\ ws' = w /\ phase' = "jobs" /\ todo' = w.jobs
               /\ existing' = table /\ rows' = table /\ used' = Numbers(table)
               /\ UNCHANGED <<db, job, names, outcome>>
          ELSE /\ outcome' = "range"
               /\ UNCHANGED <<db, phase, ws, alloc, todo, job, names>>

(* releaseRemoved *)
Released(j) ==
    [k \in Keys |-> IF k[1] = j /\ k[2] \notin Declared(ws, j) THEN NoPort ELSE existing[k]]

(* Slip: the numbers of dropped names stay taken. *)
UsedKeptOnRelease(j) == used

UsedAfterRelease(j) ==
    used \ {existing[k] : k \in {<<j, n>> : n \in Names \ Declared(ws, j)}}

(* syncJobPorts of the next job, up to the loop over its ports *)
BeginJob ==
    /\ phase = "jobs"
    /\ \E j \in todo :
          /\ IsFirst(j, todo, JobRank)
          /\ job' = j /\ todo' = todo \ {j} /\ names' = Declared(ws, j)
          /\ existing' = Released(j)
          /\ used' = UsedAfterRelease(j)
          /\ rows' = [k \in Keys |-> IF k[1] = j THEN NoPort ELSE rows[k]]
    /\ phase' = "ports"
    /\ UNCHANGED <<db, ws, outcome, builds>>

Insert(k, port) ==
    /\ existing' = [existing EXCEPT ![k] = port]
    /\ rows' = [rows EXCEPT ![k] = port]
    /\ names' = names \ {k[2]}
    /\ UNCHANGED <<db, phase, ws, todo, job, outcome, builds>>

(* An error anywhere in the build: the transaction rolls back. *)
Fail(why) ==
    /\ outcome' = why /\ phase' = "idle"
    /\ ws' = Nobody /\ todo' = {} /\ names' = {}
    /\ existing' = NoPorts /\ used' = {} /\ rows' = NoPorts
    /\ UNCHANGED <<db, job, builds>>

(* Slip: a number outside the pool is kept. *)
ReusableAnywhere(k) == existing[k] # NoPort

(* Slip: a provisioned port is drawn anew by every build. *)
ReusableNever(k) == FALSE

(* The stored number is kept if the pool still holds it. *)
Reusable(k) == existing[k] # NoPort /\ existing[k] \in Pool(ws)

(* releaseAssignedNumber *)
WithoutNumber(k) == used \ {existing[k]}

(* assignProvisioned *)
AssignProvisioned(k) ==
    \/ /\ Reusable(k)
       /\ used' = used \cup {existing[k]}
       /\ Insert(k, existing[k])
    \/ /\ ~Reusable(k)
       /\ LET free == Pool(ws) \ WithoutNumber(k)
          IN  \/ free = {} /\ Fail("exhausted")
              \/ \E n \in free : /\ IsLowest(n, free)
                                 /\ used' = WithoutNumber(k) \cup {n}
                                 /\ Insert(k, n)

(* Slip: claimPort does not look whether the number is taken. *)
NeverTaken(k, port) == FALSE

(* claimPort refuses a number that another port has. *)
Taken(k, port) == existing[k] # port /\ port \in WithoutNumber(k)

(* assignFixed *)
AssignFixed(k, port) ==
    IF Taken(k, port) THEN Fail("collision")
    ELSE /\ used' = (IF existing[k] = port THEN used ELSE WithoutNumber(k)) \cup {port}
         /\ Insert(k, port)

(* portAllocator.resolve of the next name *)
Resolve ==
    /\ phase = "ports"
    /\ \E n \in names :
          /\ IsFirst(n, names, NameRank)
          /\ LET k == <<job, n>>
             IN  IF ws.ports[k] = Provisioned THEN AssignProvisioned(k)
                 ELSE AssignFixed(k, ws.ports[k])

EndJob ==
    /\ phase = "ports" /\ names = {}
    /\ phase' = "jobs"
    /\ UNCHANGED <<db, ws, alloc, todo, job, names, outcome, builds>>

(* Any other step of the build fails. *)
Reject ==
    /\ phase # "idle"
    /\ Fail("rejected")

(* The end of BuildJobs, which drops the jobs that left the workspace, and the
   commit of the build. *)
Commit ==
    /\ phase = "jobs" /\ todo = {}
    /\ table' = [k \in Keys |-> IF k[1] \in ws.jobs THEN rows[k] ELSE NoPort]
    /\ jobRows' = ws.jobs
    /\ phase' = "idle" /\ outcome' = "ok"
    /\ existing' = NoPorts /\ used' = {} /\ rows' = NoPorts
    /\ UNCHANGED <<ws, todo, job, names, builds>>

Next == StartBuild \/ BeginJob \/ Resolve \/ EndJob \/ Reject \/ Commit

Spec == Init /\ [][Next]_vars

-----------------------------------------------------------------------------
(* Properties. *)

TypeOK ==
    /\ table \in [Keys -> Nat] /\ jobRows \subseteq Jobs
    /\ phase \in {"idle", "jobs", "ports"}
    /\ ws \in Workspace
    /\ existing \in [Keys -> Nat] /\ rows \in [Keys -> Nat] /\ used \subseteq Nat
    /\ todo \subseteq Jobs /\ job \in Jobs /\ names \subseteq Names
    /\ outcome \in {"none", "ok", "range", "exhausted", "collision", "rejected"}
    /\ builds \in Nat

Injective(t) == \A k, l \in Keys : t[k] = t[l] /\ t[k] # NoPort => k = l

(* No two ports of the bucket have one number, whatever the order in which a
   workspace dropped, moved, pinned and provisioned them (claimPort and the
   releases before it). *)
PortsUnique == Injective(table)

(* usedNumbers is exactly what existing holds, all through a build: a number is
   neither lost to the pool nor free while a port has it (releaseRemoved,
   releaseAssignedNumber, claimPort). *)
UsedIsExisting == phase # "idle" => used = Numbers(existing) /\ Injective(existing)

(* A build leaves every provisioned port with a number of the pool, even one that
   was fixed outside it or whose pool moved, and with the number it had while the
   pool holds that, whichever jobs come and go before it in the order
   (assignProvisioned). *)
PoolNumberKept ==
    [][Commit => \A k \in Keys :
          k[1] \in ws.jobs /\ ws.ports[k] = Provisioned =>
              /\ table'[k] \in Pool(ws)
              /\ table[k] \in Pool(ws) => table'[k] = table[k]]_vars
=============================================================================
