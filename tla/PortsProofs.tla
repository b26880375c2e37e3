----------------------------- MODULE PortsProofs -----------------------------
(* Proofs about Ports for every set of jobs and port names, every order the     *)
(* allocator may visit them in and every workspace a build may find.            *)
EXTENDS Ports, TLAPS

(* The port the allocator works on next has a binding. *)
NamesDeclared == phase = "ports" => names \subseteq Declared(ws, job)

(* A build that got past buildPortAllocator has a sound pool. *)
PoolSound == phase # "idle" => ValidRange(ws) /\ ws \in Workspaces

(* What the build has written so far, it has claimed. *)
RowsClaimed == \A k \in Keys : phase # "idle" /\ rows[k] # NoPort => rows[k] = existing[k]

(* The inductive invariant: the table stays injective because a build writes only
   what it claimed (RowsClaimed) and claims only what nobody has, which it reads
   off usedNumbers, so usedNumbers has to agree with existing all along. *)
PortsInv ==
    /\ TypeOK
    /\ NamesDeclared
    /\ PoolSound
    /\ UsedIsExisting
    /\ RowsClaimed
    /\ PortsUnique

(* Taking away the numbers of some ports of an injective assignment leaves the
   numbers of the others (releaseRemoved, releaseAssignedNumber). *)
LEMMA NumbersWithout ==
    ASSUME NEW t \in [Keys -> Nat], Injective(t), NEW S \in SUBSET Keys,
           NEW u, u = [k \in Keys |-> IF k \in S THEN NoPort ELSE t[k]]
    PROVE  /\ Injective(u)
           /\ u \in [Keys -> Nat]
           /\ Numbers(u) = Numbers(t) \ {t[k] : k \in S}
<1>1. u \in [Keys -> Nat]
  BY DEF NoPort
<1>2. Injective(u)
  BY DEF Injective, NoPort
<1>3. ASSUME NEW n \in Numbers(u) PROVE n \in Numbers(t) \ {t[k] : k \in S}
  <2>1. PICK k \in Keys : n = u[k] /\ n # NoPort
    BY <1>3 DEF Numbers
  <2>2. k \notin S /\ n = t[k]
    BY <2>1
  <2>3. \A l \in S : t[l] # n
    BY <2>1, <2>2 DEF Injective
  <2> QED
    BY <2>1, <2>2, <2>3 DEF Numbers
<1>4. ASSUME NEW n \in Numbers(t) \ {t[k] : k \in S} PROVE n \in Numbers(u)
  <2>1. PICK k \in Keys : n = t[k] /\ n # NoPort
    BY <1>4 DEF Numbers
  <2>2. u[k] = n
    BY <1>4, <2>1
  <2> QED
    BY <2>1, <2>2 DEF Numbers
<1> QED
  BY <1>1, <1>2, <1>3, <1>4

(* Giving one port a number nobody else has (claimPort). *)
LEMMA NumbersWith ==
    ASSUME NEW t \in [Keys -> Nat], Injective(t), NEW p \in Keys,
           NEW n \in Nat, n # NoPort, n \notin Numbers(t) \ {t[p]},
           NEW u \in [Keys -> Nat], u[p] = n, \A l \in Keys : l # p => u[l] = t[l]
    PROVE  /\ Injective(u)
           /\ Numbers(u) = (Numbers(t) \ {t[p]}) \cup {n}
<1>1. u[p] = n /\ \A l \in Keys : l # p => u[l] = t[l]
  OBVIOUS
<1>2. ASSUME NEW l \in Keys, l # p PROVE t[l] # n
  BY <1>2 DEF Injective, Numbers
<1>3. Injective(u)
  BY <1>1, <1>2 DEF Injective
<1>4. ASSUME NEW m \in Numbers(u) PROVE m \in (Numbers(t) \ {t[p]}) \cup {n}
  <2>1. PICK l \in Keys : m = u[l] /\ m # NoPort
    BY <1>4 DEF Numbers
  <2>2. CASE l = p
    BY <1>1, <2>1, <2>2
  <2>3. CASE l # p
    <3>1. m = t[l] /\ m # t[p]
      BY <1>1, <2>1, <2>3 DEF Injective
    <3> QED
      BY <2>1, <3>1 DEF Numbers
  <2> QED
    BY <2>2, <2>3
<1>5. ASSUME NEW m \in (Numbers(t) \ {t[p]}) \cup {n} PROVE m \in Numbers(u)
  <2>1. CASE m = n
    BY <1>1, <2>1 DEF Numbers
  <2>2. CASE m # n
    <3>1. PICK l \in Keys : m = t[l] /\ m # NoPort /\ l # p
      BY <1>5, <2>2 DEF Numbers
    <3>2. u[l] = m
      BY <1>1, <3>1
    <3> QED
      BY <3>1, <3>2 DEF Numbers
  <2> QED
    BY <2>1, <2>2
<1> QED
  BY <1>1, <1>3, <1>4, <1>5

-----------------------------------------------------------------------------
LEMMA InitPorts == Init => PortsInv
<1> SUFFICES ASSUME Init PROVE PortsInv
  OBVIOUS
<1>1. NoPorts \in [Keys -> Nat] /\ Injective(NoPorts)
  BY DEF NoPorts, NoPort, Injective
<1>2. Nobody \in Workspace
  BY <1>1 DEF Nobody, Workspace, NoPorts, NoPort
<1> QED
  BY <1>1, <1>2 DEF Init, PortsInv, TypeOK, NamesDeclared, PoolSound, UsedIsExisting,
                    RowsClaimed, PortsUnique

(* An error of the build leaves the committed table as it was. *)
LEMMA FailPorts ==
    ASSUME PortsInv, NEW why \in {"exhausted", "collision", "rejected"}, Fail(why)
    PROVE  PortsInv'
<1>1. NoPorts \in [Keys -> Nat]
  BY DEF NoPorts, NoPort
<1>2. Nobody \in Workspace
  BY <1>1 DEF Nobody, Workspace, NoPorts, NoPort
<1> QED
  BY <1>1, <1>2 DEF Fail, PortsInv, TypeOK, NamesDeclared, PoolSound, UsedIsExisting,
                    RowsClaimed, PortsUnique, db, Injective

LEMMA StartBuildPorts ==
    ASSUME PortsInv, StartBuild
    PROVE  PortsInv'
<1>1. PICK w \in Workspaces :
          IF ValidRange(w)
          THEN /\ ws' = w /\ phase' = "jobs" /\ todo' = w.jobs
               /\ existing' = table /\ rows' = table /\ used' = Numbers(table)
               /\ UNCHANGED <<db, job, names, outcome>>
          ELSE /\ outcome' = "range"
               /\ UNCHANGED <<db, phase, ws, alloc, todo, job, names>>
  BY DEF StartBuild
<1>2. w \in Workspace /\ w.jobs \subseteq Jobs /\ builds' \in Nat /\ Numbers(table) \subseteq Nat
  BY PortsAssumption DEF StartBuild, Workspace, PortsInv, TypeOK, Numbers
<1>3. CASE ValidRange(w)
  BY <1>1, <1>2, <1>3 DEF PortsInv, TypeOK, NamesDeclared, PoolSound, UsedIsExisting,
                          RowsClaimed, PortsUnique, db, Injective
<1>4. CASE ~ValidRange(w)
  <2>1. /\ UNCHANGED <<table, jobRows, phase, ws, existing, used, rows, todo, job, names>>
        /\ phase = "idle"
    BY <1>1, <1>4 DEF StartBuild, db, alloc
  <2> QED
    BY <1>1, <1>2, <1>4, <2>1 DEF PortsInv, TypeOK, NamesDeclared, PoolSound,
                                  UsedIsExisting, RowsClaimed, PortsUnique
<1> QED
  BY <1>3, <1>4

LEMMA BeginJobPorts ==
    ASSUME PortsInv, BeginJob
    PROVE  PortsInv'
<1>1. PICK j \in todo :
         /\ job' = j /\ todo' = todo \ {j} /\ names' = Declared(ws, j)
         /\ existing' = Released(j)
         /\ used' = UsedAfterRelease(j)
         /\ rows' = [k \in Keys |-> IF k[1] = j THEN NoPort ELSE rows[k]]
  BY DEF BeginJob
<1>2. /\ phase = "jobs" /\ phase' = "ports"
      /\ UNCHANGED <<table, jobRows, ws, outcome, builds>>
  BY DEF BeginJob, db
<1>3. /\ j \in Jobs /\ existing \in [Keys -> Nat] /\ rows \in [Keys -> Nat]
      /\ Injective(existing) /\ used = Numbers(existing)
  BY <1>2 DEF PortsInv, TypeOK, UsedIsExisting
<1> DEFINE S == {<<j, n>> : n \in Names \ Declared(ws, j)}
<1>4. S \subseteq Keys
  BY <1>3 DEF Keys
<1>5. existing' = [k \in Keys |-> IF k \in S THEN NoPort ELSE existing[k]]
  <2>1. ASSUME NEW k \in Keys PROVE k \in S <=> (k[1] = j /\ k[2] \notin Declared(ws, j))
    BY DEF Keys
  <2> QED
    BY <1>1, <2>1 DEF Released
<1>6. used' = used \ {existing[k] : k \in S}
  BY <1>1 DEF UsedAfterRelease
<1> HIDE DEF S
<1>7. /\ Injective(existing')
      /\ existing' \in [Keys -> Nat]
      /\ Numbers(existing') = Numbers(existing) \ {existing[k] : k \in S}
  BY <1>3, <1>4, <1>5, NumbersWithout
<1>8. TypeOK'
  <2>1. rows' \in [Keys -> Nat]
    BY <1>1, <1>3 DEF NoPort
  <2>2. names' \subseteq Names
    BY <1>1 DEF Declared
  <2>3. used' \subseteq Nat
    BY <1>6 DEF PortsInv, TypeOK
  <2> QED
    BY <1>1, <1>2, <1>3, <1>7, <2>1, <2>2, <2>3 DEF PortsInv, TypeOK
<1>9. NamesDeclared' /\ PoolSound'
  BY <1>1, <1>2 DEF PortsInv, NamesDeclared, PoolSound, Declared
<1>10. UsedIsExisting'
  <2>1. used' = Numbers(existing')
    BY <1>3, <1>6, <1>7
  <2> QED
    BY <1>7, <2>1 DEF UsedIsExisting, Numbers, Injective
<1>11. RowsClaimed'
  <2> SUFFICES ASSUME NEW k \in Keys, rows'[k] # NoPort PROVE rows'[k] = existing'[k]
    BY DEF RowsClaimed
  <2>1. k[1] # j /\ rows'[k] = rows[k]
    BY <1>1
  <2>2. rows[k] = existing[k]
    BY <1>2, <2>1 DEF PortsInv, RowsClaimed
  <2>3. k \notin S
    BY <2>1 DEF S
  <2> QED
    BY <1>5, <2>1, <2>2, <2>3
<1>12. PortsUnique'
  BY <1>2 DEF PortsInv, PortsUnique, Injective
<1> QED
  BY <1>8, <1>9, <1>10, <1>11, <1>12 DEF PortsInv

(* The common part of assignProvisioned and assignFixed: a number nobody else has
   goes to k, in the maps of the allocator and in the row. *)
LEMMA InsertPorts ==
    ASSUME PortsInv, phase = "ports", NEW m \in names,
           NEW n \in Nat, n # NoPort,
           n \notin used \ {existing[<<job, m>>]},
           used' = (used \ {existing[<<job, m>>]}) \cup {n},
           Insert(<<job, m>>, n)
    PROVE  PortsInv'
<1> DEFINE k == <<job, m>>
<1>1. /\ k \in Keys /\ k[2] = m
      /\ existing \in [Keys -> Nat] /\ rows \in [Keys -> Nat]
      /\ Injective(existing) /\ used = Numbers(existing) /\ used \subseteq Nat
  BY DEF PortsInv, TypeOK, UsedIsExisting, Keys
<1>2. /\ existing' = [existing EXCEPT ![k] = n]
      /\ rows' = [rows EXCEPT ![k] = n]
      /\ names' = names \ {m}
      /\ UNCHANGED <<table, jobRows, phase, ws, todo, job, outcome, builds>>
  BY DEF Insert, db
<1>3. /\ n \notin used \ {existing[k]}
      /\ used' = (used \ {existing[k]}) \cup {n}
  OBVIOUS
<1> HIDE DEF k
<1>4. /\ Injective(existing')
      /\ existing' \in [Keys -> Nat]
      /\ Numbers(existing') = (Numbers(existing) \ {existing[k]}) \cup {n}
  <2>1. n \notin Numbers(existing) \ {existing[k]}
    BY <1>1, <1>3
  <2>2. /\ existing' \in [Keys -> Nat]
        /\ existing'[k] = n
        /\ \A l \in Keys : l # k => existing'[l] = existing[l]
    BY <1>1, <1>2
  <2> QED
    BY <1>1, <2>1, <2>2, NumbersWith
<1>5. TypeOK'
  <2>1. rows' \in [Keys -> Nat]
    BY <1>1, <1>2
  <2>2. used' \subseteq Nat
    BY <1>1, <1>3
  <2> QED
    BY <1>2, <1>4, <2>1, <2>2 DEF PortsInv, TypeOK
<1>6. NamesDeclared' /\ PoolSound'
  BY <1>2 DEF PortsInv, NamesDeclared, PoolSound, Declared
<1>7. UsedIsExisting'
  <2>1. used' = Numbers(existing')
    BY <1>1, <1>3, <1>4
  <2> QED
    BY <1>4, <2>1 DEF UsedIsExisting, Numbers, Injective
<1>8. RowsClaimed'
  <2> SUFFICES ASSUME NEW l \in Keys, rows'[l] # NoPort PROVE rows'[l] = existing'[l]
    BY DEF RowsClaimed
  <2>1. CASE l = k
    BY <1>1, <1>2, <2>1
  <2>2. CASE l # k
    BY <1>1, <1>2, <2>2 DEF PortsInv, RowsClaimed
  <2> QED
    BY <2>1, <2>2
<1>9. PortsUnique'
  BY <1>2 DEF PortsInv, PortsUnique, Injective
<1> QED
  BY <1>5, <1>6, <1>7, <1>8, <1>9 DEF PortsInv

LEMMA ResolvePorts ==
    ASSUME PortsInv, Resolve
    PROVE  PortsInv'
<1>1. PICK m \in names :
         IF ws.ports[<<job, m>>] = Provisioned THEN AssignProvisioned(<<job, m>>)
         ELSE AssignFixed(<<job, m>>, ws.ports[<<job, m>>])
  BY DEF Resolve
<1> DEFINE k == <<job, m>>
<1>2. phase = "ports" /\ k \in Keys
  BY DEF Resolve, PortsInv, TypeOK, Keys
<1>3. /\ existing \in [Keys -> Nat] /\ used = Numbers(existing) /\ Injective(existing)
      /\ ws.min \in Nat /\ ws.max \in Nat /\ ws.min >= 1
      /\ ws.ports \in [Keys -> Nat \cup {Provisioned}]
  BY <1>2 DEF PortsInv, TypeOK, UsedIsExisting, PoolSound, ValidRange, Workspace
<1>4. ws.ports[k] # NoPort
  BY <1>2 DEF PortsInv, NamesDeclared, Declared
<1>5. existing[k] # NoPort => existing[k] \in used
  BY <1>2, <1>3 DEF Numbers
<1>6. NoPort \notin used
  BY <1>3 DEF Numbers
<1>7. ASSUME AssignProvisioned(k) PROVE PortsInv'
  <2>1. CASE Reusable(k)
    <3>1. used' = used \cup {existing[k]} /\ Insert(k, existing[k])
      BY <1>7, <2>1 DEF AssignProvisioned
    <3>2. existing[k] # NoPort /\ existing[k] \in Nat
      BY <1>2, <1>3, <2>1 DEF Reusable
    <3>3. used' = (used \ {existing[k]}) \cup {existing[k]}
      BY <3>1
    <3> QED
      BY <1>2, <3>1, <3>2, <3>3, InsertPorts
  <2>2. CASE ~Reusable(k)
    <3> DEFINE free == Pool(ws) \ WithoutNumber(k)
    <3>1. CASE free = {} /\ Fail("exhausted")
      BY <3>1, FailPorts
    <3>2. ASSUME NEW n \in free, used' = WithoutNumber(k) \cup {n}, Insert(k, n)
          PROVE  PortsInv'
      <4>1. n \in Nat /\ n # NoPort
        BY <1>3 DEF Pool, NoPort
      <4>2. n \notin used \ {existing[k]} /\ used' = (used \ {existing[k]}) \cup {n}
        BY <3>2 DEF WithoutNumber
      <4> QED
        BY <1>2, <3>2, <4>1, <4>2, InsertPorts
    <3> QED
      BY <1>7, <2>2, <3>1, <3>2 DEF AssignProvisioned
  <2> QED
    BY <2>1, <2>2
<1>8. ASSUME AssignFixed(k, ws.ports[k]), ws.ports[k] # Provisioned PROVE PortsInv'
  <2> DEFINE n == ws.ports[k]
  <2>1. n \in Nat /\ n # NoPort
    BY <1>2, <1>3, <1>4, <1>8
  <2>2. CASE Taken(k, n)
    <3>1. Fail("collision")
      BY <1>8, <2>2 DEF AssignFixed
    <3> QED
      BY <3>1, FailPorts
  <2>3. CASE ~Taken(k, n)
    <3>1. /\ used' = (IF existing[k] = n THEN used ELSE WithoutNumber(k)) \cup {n}
          /\ Insert(k, n)
      BY <1>8, <2>3 DEF AssignFixed
    <3>2. n \notin used \ {existing[k]}
      BY <2>3 DEF Taken, WithoutNumber
    <3>3. used' = (used \ {existing[k]}) \cup {n}
      BY <3>1 DEF WithoutNumber
    <3> QED
      BY <1>2, <2>1, <3>1, <3>2, <3>3, InsertPorts
  <2> QED
    BY <2>2, <2>3
<1> QED
  BY <1>1, <1>7, <1>8

(* The end of BuildJobs drops rows and adds none. *)
LEMMA CommitPorts ==
    ASSUME PortsInv, Commit
    PROVE  PortsInv'
<1>1. /\ phase = "jobs" /\ phase' = "idle"
      /\ table' = [k \in Keys |-> IF k[1] \in ws.jobs THEN rows[k] ELSE NoPort]
      /\ rows \in [Keys -> Nat] /\ ws.jobs \subseteq Jobs
      /\ jobRows' = ws.jobs /\ outcome' = "ok"
      /\ existing' = NoPorts /\ used' = {} /\ rows' = NoPorts
      /\ UNCHANGED <<ws, todo, job, names, builds>>
  BY DEF Commit, PortsInv, TypeOK, Workspace
<1>2. NoPorts \in [Keys -> Nat] /\ table' \in [Keys -> Nat]
  BY <1>1 DEF NoPorts, NoPort
<1>3. TypeOK'
  BY <1>1, <1>2 DEF PortsInv, TypeOK
<1>4. PortsUnique'
  <2> SUFFICES ASSUME NEW k \in Keys, NEW l \in Keys,
                      table'[k] = table'[l], table'[k] # NoPort
               PROVE  k = l
    BY DEF PortsUnique, Injective
  <2>1. table'[k] = existing[k] /\ table'[l] = existing[l]
    BY <1>1 DEF PortsInv, RowsClaimed
  <2> QED
    BY <1>1, <2>1 DEF PortsInv, UsedIsExisting, Injective
<1> QED
  BY <1>1, <1>3, <1>4 DEF PortsInv, NamesDeclared, PoolSound, UsedIsExisting, RowsClaimed

LEMMA OtherPorts ==
    ASSUME PortsInv, EndJob \/ UNCHANGED vars
    PROVE  PortsInv'
<1>1. /\ UNCHANGED <<table, jobRows, ws, existing, used, rows, todo, job, names, outcome, builds>>
      /\ phase' = phase \/ (phase = "ports" /\ phase' = "jobs")
  BY DEF EndJob, vars, db, alloc
<1> QED
  BY <1>1 DEF PortsInv, TypeOK, NamesDeclared, PoolSound, UsedIsExisting, RowsClaimed,
              PortsUnique, Injective, Numbers, Declared, ValidRange

LEMMA PortsInductive == Spec => []PortsInv
<1>1. PortsInv /\ [Next]_vars => PortsInv'
  <2> SUFFICES ASSUME PortsInv, [Next]_vars PROVE PortsInv'
    OBVIOUS
  <2>1. CASE StartBuild
    BY <2>1, StartBuildPorts
  <2>2. CASE BeginJob
    BY <2>2, BeginJobPorts
  <2>3. CASE Resolve
    BY <2>3, ResolvePorts
  <2>4. CASE EndJob \/ UNCHANGED vars
    BY <2>4, OtherPorts
  <2>5. CASE Reject
    BY <2>5, FailPorts DEF Reject
  <2>6. CASE Commit
    BY <2>6, CommitPorts
  <2> QED
    BY <2>1, <2>2, <2>3, <2>4, <2>5, <2>6 DEF Next
<1> QED
  BY <1>1, InitPorts, PTL DEF Spec

(* No two ports of a bucket ever have one number, for every number of jobs and
   every sequence of workspaces. *)
THEOREM PortsAreUnique == Spec => []PortsUnique
  BY PortsInductive, PTL DEF PortsInv

(* The allocator's set of used numbers agrees with its assignments throughout. *)
THEOREM UsedStaysExisting == Spec => []UsedIsExisting
  BY PortsInductive, PTL DEF PortsInv

-----------------------------------------------------------------------------
(* Provisioned numbers are kept. *)

(* The provisioned ports of the workspace being built. *)
Wanted == {k \in Keys : k[1] \in ws.jobs /\ ws.ports[k] = Provisioned}

(* The ports the build has been through. *)
Settled(k) == k[1] \notin todo /\ ~(phase = "ports" /\ k[1] = job /\ k[2] \in names)

(* A port the build has not come to still has its committed number in existing, for
   nobody but its own job releases it; one it has been through has a number of the
   pool, the committed one if the pool holds that. *)
KeptInv ==
    phase # "idle" =>
        /\ todo \subseteq ws.jobs
        /\ phase = "ports" => job \in ws.jobs \ todo
        /\ \A k \in Wanted :
              IF Settled(k) THEN /\ rows[k] \in Pool(ws)
                                 /\ table[k] \in Pool(ws) => rows[k] = table[k]
              ELSE existing[k] = table[k]

(* The first step of a build has been through nothing. *)
LEMMA StartBuildKept ==
    ASSUME PortsInv, StartBuild
    PROVE  KeptInv'
<1>1. PICK w \in Workspaces :
          IF ValidRange(w)
          THEN /\ ws' = w /\ phase' = "jobs" /\ todo' = w.jobs
               /\ existing' = table /\ rows' = table /\ used' = Numbers(table)
               /\ UNCHANGED <<db, job, names, outcome>>
          ELSE /\ outcome' = "range"
               /\ UNCHANGED <<db, phase, ws, alloc, todo, job, names>>
  BY DEF StartBuild
<1>2. CASE ValidRange(w)
  <2>1. ws' = w /\ phase' = "jobs" /\ todo' = w.jobs /\ existing' = table /\ table' = table
    BY <1>1, <1>2 DEF db
  <2> QED
    BY <2>1 DEF KeptInv, Wanted, Settled
<1>3. CASE ~ValidRange(w)
  BY <1>1, <1>3 DEF StartBuild, KeptInv
<1> QED
  BY <1>2, <1>3

(* syncJobPorts releases the names of its own job that the manifest dropped. *)
LEMMA BeginJobKept ==
    ASSUME PortsInv, KeptInv, BeginJob
    PROVE  KeptInv'
<1>1. PICK j \in todo :
         /\ job' = j /\ todo' = todo \ {j} /\ names' = Declared(ws, j)
         /\ existing' = Released(j)
         /\ rows' = [k \in Keys |-> IF k[1] = j THEN NoPort ELSE rows[k]]
  BY DEF BeginJob
<1>2. /\ phase = "jobs" /\ phase' = "ports"
      /\ UNCHANGED <<table, ws>>
  BY DEF BeginJob, db
<1>3. todo \subseteq ws.jobs
  BY <1>2 DEF KeptInv
<1>4. ASSUME NEW k \in Wanted'
      PROVE  IF Settled(k)' THEN /\ rows'[k] \in Pool(ws)
                                 /\ table[k] \in Pool(ws) => rows'[k] = table[k]
             ELSE existing'[k] = table[k]
  <2>1. k \in Wanted /\ k \in Keys
    BY <1>2, <1>4 DEF Wanted
  <2>2. k[2] \in Declared(ws, k[1])
    <3>1. k = <<k[1], k[2]>> /\ k[2] \in Names /\ k[1] \in ws.jobs /\ ws.ports[k] # NoPort
      BY <2>1 DEF Wanted, Keys, Provisioned, NoPort
    <3> QED
      BY <3>1 DEF Declared
  <2>3. CASE k[1] = j
    <3>1. ~Settled(k) /\ ~Settled(k)'
      BY <1>1, <1>2, <2>2, <2>3 DEF Settled
    <3>2. existing'[k] = existing[k]
      BY <1>1, <2>1, <2>2, <2>3 DEF Released
    <3>3. existing[k] = table[k]
      BY <1>2, <2>1, <3>1 DEF KeptInv
    <3> QED
      BY <3>1, <3>2, <3>3
  <2>4. CASE k[1] # j
    <3>1. Settled(k)' = Settled(k)
      BY <1>1, <1>2, <2>4 DEF Settled
    <3>2. existing'[k] = existing[k] /\ rows'[k] = rows[k]
      BY <1>1, <2>1, <2>4 DEF Released
    <3> QED
      BY <1>2, <2>1, <3>1, <3>2 DEF KeptInv
  <2> QED
    BY <2>3, <2>4
<1>5. Pool(ws)' = Pool(ws)
  BY <1>2 DEF Pool
<1> QED
  BY <1>1, <1>2, <1>3, <1>4, <1>5 DEF KeptInv

(* Resolving one name settles it, and leaves the numbers of the others. *)
LEMMA InsertKept ==
    ASSUME PortsInv, KeptInv, phase = "ports", NEW m \in names, NEW n \in Nat,
           Insert(<<job, m>>, n),
           <<job, m>> \in Wanted =>
               n \in Pool(ws) /\ (existing[<<job, m>>] \in Pool(ws) => n = existing[<<job, m>>])
    PROVE  KeptInv'
<1>0. PICK k : k = <<job, m>>
  OBVIOUS
<1>1. /\ k \in Keys /\ k[1] = job /\ k[2] = m
      /\ existing \in [Keys -> Nat] /\ rows \in [Keys -> Nat]
  BY <1>0 DEF PortsInv, TypeOK, Keys
<1>2. /\ existing' = [existing EXCEPT ![k] = n]
      /\ rows' = [rows EXCEPT ![k] = n]
      /\ names' = names \ {m}
      /\ UNCHANGED <<table, phase, ws, todo, job>>
  BY <1>0 DEF Insert, db
<1>3. k \in Wanted => n \in Pool(ws) /\ (existing[k] \in Pool(ws) => n = existing[k])
  BY <1>0
<1>4. job \in ws.jobs \ todo /\ todo \subseteq ws.jobs
  BY DEF KeptInv
<1>5. Wanted' = Wanted /\ Pool(ws)' = Pool(ws)
  BY <1>2 DEF Wanted, Pool
<1>6. ASSUME NEW l \in Wanted
      PROVE  IF Settled(l)' THEN /\ rows'[l] \in Pool(ws)
                                 /\ table[l] \in Pool(ws) => rows'[l] = table[l]
             ELSE existing'[l] = table[l]
  <2>1. CASE l = k
    <3>1. ~Settled(k) /\ Settled(k)'
      BY <1>1, <1>2, <1>4 DEF Settled
    <3>2. existing[k] = table[k]
      BY <2>1, <3>1 DEF KeptInv
    <3>3. rows'[k] = n
      BY <1>1, <1>2
    <3> QED
      BY <1>3, <2>1, <3>1, <3>2, <3>3
  <2>2. CASE l # k
    <3>1. l \in Keys /\ (l[1] # job \/ l[2] # m)
      BY <1>0, <2>2 DEF Wanted, Keys
    <3>2. Settled(l)' = Settled(l)
      BY <1>2, <3>1 DEF Settled
    <3>3. existing'[l] = existing[l] /\ rows'[l] = rows[l]
      BY <1>1, <1>2, <2>2, <3>1
    <3> QED
      BY <3>2, <3>3 DEF KeptInv
  <2> QED
    BY <2>1, <2>2
<1> QED
  BY <1>2, <1>4, <1>5, <1>6 DEF KeptInv

(* assignProvisioned keeps a number of the pool or draws one from it; assignFixed is
   not for the ports in question. *)
LEMMA ResolveKept ==
    ASSUME PortsInv, KeptInv, Resolve
    PROVE  KeptInv'
<1>1. PICK m \in names :
         IF ws.ports[<<job, m>>] = Provisioned THEN AssignProvisioned(<<job, m>>)
         ELSE AssignFixed(<<job, m>>, ws.ports[<<job, m>>])
  BY DEF Resolve
<1> DEFINE k == <<job, m>>
<1>2. /\ phase = "ports" /\ k \in Keys /\ existing[k] \in Nat
      /\ ws.min \in Nat /\ ws.max \in Nat /\ ws.min >= 1
      /\ ws.ports[k] \in Nat \cup {Provisioned}
  BY DEF Resolve, PortsInv, TypeOK, PoolSound, ValidRange, Workspace, Keys
<1>3. \A why : Fail(why) => KeptInv'
  BY DEF Fail, KeptInv
<1>4. Pool(ws) \subseteq Nat /\ NoPort \notin Pool(ws)
  BY <1>2 DEF Pool, NoPort
<1>5. CASE ws.ports[k] = Provisioned
  <2>1. \/ Reusable(k) /\ Insert(k, existing[k])
        \/ ~Reusable(k) /\ Fail("exhausted")
        \/ ~Reusable(k) /\ \E n \in Pool(ws) : Insert(k, n)
    BY <1>1, <1>5 DEF AssignProvisioned
  <2>2. CASE Reusable(k) /\ Insert(k, existing[k])
    BY <1>2, <2>2, InsertKept DEF Reusable
  <2>3. ASSUME ~Reusable(k), NEW n \in Pool(ws), Insert(k, n)
        PROVE  KeptInv'
    <3>1. existing[k] \notin Pool(ws) /\ n \in Nat
      BY <1>4, <2>3 DEF Reusable
    <3> QED
      BY <1>2, <2>3, <3>1, InsertKept
  <2> QED
    BY <1>3, <2>1, <2>2, <2>3
<1>6. CASE ws.ports[k] # Provisioned
  <2>1. Fail("collision") \/ Insert(k, ws.ports[k])
    BY <1>1, <1>6 DEF AssignFixed
  <2>2. CASE Insert(k, ws.ports[k])
    <3>1. k \notin Wanted /\ ws.ports[k] \in Nat
      BY <1>2, <1>6 DEF Wanted
    <3> QED
      BY <1>2, <2>2, <3>1, InsertKept
  <2> QED
    BY <1>3, <2>1, <2>2
<1> QED
  BY <1>5, <1>6

(* All through a build, provisioned ports keep their numbers or wait with them. *)
LEMMA KeptInductive == Spec => [](PortsInv /\ KeptInv)
<1>1. Init => KeptInv
  BY DEF Init, KeptInv
<1>2. PortsInv /\ KeptInv /\ [Next]_vars => KeptInv'
  <2> SUFFICES ASSUME PortsInv, KeptInv, [Next]_vars PROVE KeptInv'
    OBVIOUS
  <2>1. CASE EndJob \/ UNCHANGED vars
    <3>1. /\ UNCHANGED <<table, ws, existing, rows, todo, job, names>>
          /\ phase' = phase \/ (phase = "ports" /\ phase' = "jobs" /\ names = {})
      BY <2>1 DEF EndJob, vars, db, alloc
    <3>2. \A k : Settled(k)' = Settled(k)
      BY <3>1 DEF Settled
    <3> QED
      BY <3>1, <3>2 DEF KeptInv, Wanted, Pool
  <2>2. CASE Reject \/ Commit
    BY <2>2 DEF Reject, Fail, Commit, KeptInv
  <2> QED
    BY <2>1, <2>2, StartBuildKept, BeginJobKept, ResolveKept DEF Next
<1> QED
  BY <1>1, <1>2, PortsInductive, PTL DEF Spec

(* A build that commits leaves every provisioned port with a number of the pool, and
   with the one it had while the pool holds that, for every number of jobs and every
   sequence of workspaces (assignProvisioned). *)
THEOREM PoolNumbersAreKept == Spec => PoolNumberKept
<1>1. PortsInv /\ KeptInv =>
        (Commit => \A k \in Keys :
            k[1] \in ws.jobs /\ ws.ports[k] = Provisioned =>
                /\ table'[k] \in Pool(ws)
                /\ table[k] \in Pool(ws) => table'[k] = table[k])
  <2> SUFFICES ASSUME PortsInv, KeptInv, Commit, NEW k \in Wanted
               PROVE  table'[k] \in Pool(ws) /\ (table[k] \in Pool(ws) => table'[k] = table[k])
    BY DEF Wanted
  <2>1. phase = "jobs" /\ todo = {} /\ table'[k] = rows[k]
    BY DEF Commit, Wanted
  <2>2. Settled(k)
    BY <2>1 DEF Settled
  <2> QED
    BY <2>1, <2>2 DEF KeptInv
<1> QED
  BY <1>1, KeptInductive, PTL DEF PoolNumberKept
=============================================================================
