--------------------------- MODULE OperationsProofs ---------------------------
(* What one operator command can do to the allocations, for every request, every *)
(* script and every build, deploy, crash or collection next to it: maand job     *)
(* harms at most one batch of a job, maand run_command at most one batch of      *)
(* workers.                                                                     *)
EXTENDS Operations, DeployProofs, FiniteSetTheorems

-----------------------------------------------------------------------------
(* The invariant. *)

CtlType ==
    [phase   : {"idle", "validate", "wave", "script"},
     cat     : CatalogType,
     seq     : Nat,
     jobs    : SUBSET Jobs,
     workers : SUBSET Workers,
     target  : {"start", "stop", "restart", "status"},
     health  : BOOLEAN,
     harm    : {"none", "loud", "silent"},
     wave    : Nat,
     todo    : SUBSET Slots,
     hosts   : SUBSET Workers,
     probing : SUBSET Jobs,
     downed  : SUBSET Slots]

(* What a command took down is down until somebody starts it.  The snapshot is a
   catalog that some build left: a job with an active allocation has a row. *)
CommandInv ==
    /\ ctl \in CtlType
    /\ \A s \in ctl.downed : live[s] = Down
    /\ ctl.phase = "validate" => ctl.downed = {}
    /\ \A j \in Jobs : Active(ctl.cat, j) # {} => ctl.cat.content[j] # None

Batch(j) == IF MaxUpgrades[j] < 1 THEN 1 ELSE MaxUpgrades[j]

Taken(j) == {s \in ctl.downed : JobOf(s) = j}

Waiting(j) == {s \in ctl.todo : JobOf(s) = j}

(* The jobs RollingControl is about. *)
Noticed(j) ==
    j \notin Commanded /\ ctl.target # "stop"
        /\ (ctl.harm = "loud" \/ (ctl.health /\ j \in Probed))

(* A job of which something was taken down is at its end, or its health is checked
   next, which will end it.  Jobs of later sequences are untouched. *)
ControlInv ==
    ctl.phase = "wave" =>
        /\ \A s \in ctl.todo :
              s \in Active(ctl.cat, JobOf(s)) /\ DeploymentSeq[JobOf(s)] = ctl.wave
        /\ \A s \in ctl.downed :
              s \in Active(ctl.cat, JobOf(s)) /\ DeploymentSeq[JobOf(s)] <= ctl.wave
        /\ ctl.todo \cap ctl.downed = {}
        /\ \A j \in Jobs : Noticed(j) =>
              /\ Cardinality(Taken(j)) <= Batch(j)
              /\ \/ Taken(j) = {}
                 \/ Waiting(j) = {}
                 \/ ctl.harm # "loud" /\ j \in ctl.probing

(* The allocations CommandContained is about. *)
Struck == {t \in ctl.downed :
              t \in Active(ctl.cat, JobOf(t)) /\ (ctl.harm = "loud" \/ JobOf(t) \in Probed)}

StruckWorkers == {WorkerOf(s) : s \in Struck}

(* Once an allocation was taken down the script has no next batch, or the health of
   all jobs is checked before it. *)
ScriptInv ==
    ctl.phase = "script" /\ (ctl.harm = "loud" \/ ctl.health) =>
        /\ Cardinality(StruckWorkers) <= Concurrency
        /\ \/ Struck = {}
           \/ ctl.hosts = {}
           \/ /\ ctl.harm # "loud"
              /\ ctl.probing = {j \in Jobs : ctl.cat.content[j] # None}

(* Together they are inductive. *)
OperationsInv == TypeInv /\ CommandInv /\ ControlInv /\ ScriptInv

-----------------------------------------------------------------------------
(* Counting. *)

(* There are finitely many allocations and workers. *)
LEMMA FiniteCluster ==
    /\ IsFiniteSet(Slots)
    /\ \A S \in SUBSET Slots : IsFiniteSet(S)
    /\ \A W \in SUBSET Workers : IsFiniteSet(W)
  <1>1. IsFiniteSet(Slots)
    BY FS_Product, CatalogAssumption DEF Slots
  <1> QED BY <1>1, FS_Subset, CatalogAssumption

(* A batch of maand job, or of maand run_command, is at most what was asked for. *)
LEMMA BatchBounds ==
    /\ \A j \in Jobs : Batch(j) \in Nat \ {0}
    /\ \A j \in Jobs, n \in Nat : ControlBatchSize(j, n) \in Int /\ ControlBatchSize(j, n) <= Batch(j)
    /\ \A n \in Nat : ScriptBatchSize(n) <= Concurrency
  BY DeployAssumption, OperationsAssumption DEF Batch, ControlBatchSize, ScriptBatchSize

-----------------------------------------------------------------------------
(* Between commands. *)

(* An idle command has the types and has taken nothing down. *)
LEMMA CalmType ==
    /\ Calm \in CtlType /\ Calm.phase = "idle" /\ Calm.downed = {} /\ Calm.todo = {}
    /\ Calm.probing = {} /\ Calm.cat = EmptyCatalog
    /\ EmptyCatalog \in CatalogType
    /\ \A j \in Jobs : Active(EmptyCatalog, j) = {}
  <1>1. EmptyCatalog \in CatalogType
    BY CatalogAssumption DEF EmptyCatalog, CatalogType, MaybeContent
  <1>2. \A j \in Jobs : Active(EmptyCatalog, j) = {}
    BY DEF EmptyCatalog, Active, NonRemoved
  <1> QED BY <1>1, <1>2 DEF Calm, CtlType

(* The initial states. *)
LEMMA InitOperations == OpsInit => OperationsInv
  <1> SUFFICES ASSUME OpsInit PROVE OperationsInv
    OBVIOUS
  <1>1. TypeInv
    BY InitType DEF OpsInit
  <1>2. ctl = Calm
    BY DEF OpsInit
  <1>3. CommandInv
    BY <1>2, CalmType DEF CommandInv
  <1>4. ControlInv /\ ScriptInv
    BY <1>2, CalmType DEF ControlInv, ScriptInv
  <1> QED BY <1>1, <1>3, <1>4 DEF OperationsInv

(* A command that ends, or that is only validated, has nothing to answer for. *)
LEMMA Untouched ==
    ASSUME ctl' \in CtlType, ctl'.downed = {}, ctl'.phase # "wave",
           \A j \in Jobs : Active(ctl'.cat, j) # {} => ctl'.cat.content[j] # None
    PROVE  CommandInv' /\ ControlInv' /\ ScriptInv'
  <1>1. CommandInv' /\ ControlInv'
    BY DEF CommandInv, ControlInv
  <1>2. Struck' = {} /\ StruckWorkers' = {}
    BY DEF Struck, StruckWorkers
  <1>3. Cardinality(StruckWorkers') <= Concurrency
    BY <1>2, FS_EmptySet, OperationsAssumption
  <1>4. ScriptInv'
    BY <1>2, <1>3 DEF ScriptInv
  <1> QED BY <1>1, <1>4

(* The catalog a command reads is sound. *)
LEMMA SnapshotSound ==
    ASSUME TypeInv
    PROVE  /\ catalog \in CatalogType
           /\ \A j \in Jobs : Active(catalog, j) # {} => catalog.content[j] # None
  <1>1. catalog \in CatalogType
    BY DEF TypeInv, TypeOK
  <1>2. ASSUME NEW j \in Jobs, NEW s \in Active(catalog, j)
        PROVE  catalog.content[j] # None
    BY DEF TypeInv, CatalogSound, Active, NonRemoved
  <1> QED BY <1>1, <1>2

(* A start, be it of maand job or of maand run_command, takes a snapshot. *)
LEMMA BeginKeeps ==
    ASSUME OperationsInv, NEW harm \in Harms,
           \/ \E q \in Requests : BeginControl(q, harm)
           \/ \E q \in Scripts : BeginCommand(q, harm)
    PROVE  CommandInv' /\ ControlInv' /\ ScriptInv'
  <1>1. harm \in {"none", "loud", "silent"}
    BY OperationsAssumption
  <1>2. catalog \in CatalogType /\ updateSeq \in Nat
    BY DEF OperationsInv, TypeInv, TypeOK
  <1>3. ctl' \in CtlType /\ ctl'.downed = {} /\ ctl'.phase # "wave" /\ ctl'.cat = catalog
    <2>1. ASSUME NEW q \in Requests, BeginControl(q, harm)
          PROVE  ctl' \in CtlType /\ ctl'.downed = {} /\ ctl'.phase # "wave"
                 /\ ctl'.cat = catalog
      <3>1. /\ q.jobs \in SUBSET Jobs /\ q.workers \in SUBSET Workers /\ q.health \in BOOLEAN
            /\ q.target \in {"start", "stop", "restart", "status"}
        BY OperationsAssumption
      <3> QED BY <2>1, <3>1, <1>1, <1>2, CalmType DEF BeginControl, CtlType
    <2>2. ASSUME NEW q \in Scripts, BeginCommand(q, harm)
          PROVE  ctl' \in CtlType /\ ctl'.downed = {} /\ ctl'.phase # "wave"
                 /\ ctl'.cat = catalog
      <3>1. q.workers \in SUBSET Workers /\ q.health \in BOOLEAN
        BY OperationsAssumption
      <3>2. CommandTargets(q) \in SUBSET Workers
        BY <1>2 DEF CommandTargets, Filtered, CatalogType
      <3> QED BY <2>2, <3>1, <3>2, <1>1, <1>2, CalmType DEF BeginCommand, CtlType
    <2> QED BY <2>1, <2>2
  <1>4. \A j \in Jobs : Active(ctl'.cat, j) # {} => ctl'.cat.content[j] # None
    BY <1>3, SnapshotSound DEF OperationsInv
  <1> QED BY <1>3, <1>4, Untouched

-----------------------------------------------------------------------------
(* Builds, deploys and collections next to a command. *)

(* The rest of the command's state is as it was, and less of what it took down is
   down: what Next does to a command. *)
Spared ==
    ctl' = [ctl EXCEPT !.downed = {s \in @ : live'[s] = Down}]

(* Another process can only bring up what a command took down. *)
LEMMA SparedKeeps ==
    ASSUME OperationsInv, Spared
    PROVE  CommandInv' /\ ControlInv' /\ ScriptInv'
  <1>1. /\ ctl \in CtlType
        /\ ctl' = [ctl EXCEPT !.downed = ctl'.downed]
        /\ ctl'.downed = {s \in ctl.downed : live'[s] = Down}
    BY DEF OperationsInv, CommandInv, CtlType, Spared
  <1>2. /\ ctl' \in CtlType /\ ctl'.downed \subseteq ctl.downed
        /\ \A s \in ctl'.downed : live'[s] = Down
    BY <1>1 DEF CtlType
  <1>3. /\ ctl'.phase = ctl.phase /\ ctl'.cat = ctl.cat /\ ctl'.target = ctl.target
        /\ ctl'.health = ctl.health /\ ctl'.harm = ctl.harm /\ ctl'.wave = ctl.wave
        /\ ctl'.todo = ctl.todo /\ ctl'.hosts = ctl.hosts /\ ctl'.probing = ctl.probing
    BY <1>1 DEF CtlType
  <1>4. CommandInv'
    BY <1>2, <1>3 DEF OperationsInv, CommandInv
  <1>5. ControlInv'
    <2> SUFFICES ASSUME ctl.phase = "wave" PROVE ControlInv'
      BY <1>3 DEF ControlInv
    <2>1. \A j \in Jobs : Noticed(j)' = Noticed(j) /\ Waiting(j)' = Waiting(j)
      BY <1>3 DEF Noticed, Waiting
    <2>2. \A j \in Jobs : Taken(j)' \subseteq Taken(j)
      BY <1>2 DEF Taken
    <2>3. ASSUME NEW j \in Jobs
          PROVE  Cardinality(Taken(j)') <= Cardinality(Taken(j))
                 /\ Cardinality(Taken(j)') \in Nat /\ Cardinality(Taken(j)) \in Nat
      <3>1. IsFiniteSet(Taken(j))
        BY <1>1, FiniteCluster DEF Taken, CtlType
      <3> QED BY <2>2, <3>1, FS_Subset, FS_CardinalityType
    <2>4. ASSUME NEW j \in Jobs, Noticed(j)'
          PROVE  Cardinality(Taken(j)') <= Batch(j)
      <3>1. Cardinality(Taken(j)) <= Batch(j)
        BY <2>1, <2>4 DEF OperationsInv, ControlInv
      <3> QED BY <3>1, <2>3, BatchBounds
    <2>5. \A j \in Jobs : Batch(j)' = Batch(j)
      BY DEF Batch
    <2>6. ASSUME NEW j \in Jobs, Noticed(j)'
          PROVE  \/ Taken(j)' = {}
                 \/ Waiting(j)' = {}
                 \/ ctl'.harm # "loud" /\ j \in ctl'.probing
      BY <2>1, <2>2, <2>6, <1>3 DEF OperationsInv, ControlInv
    <2>7. /\ \A s \in ctl'.todo :
                s \in Active(ctl'.cat, JobOf(s)) /\ DeploymentSeq[JobOf(s)] = ctl'.wave
          /\ \A s \in ctl'.downed :
                s \in Active(ctl'.cat, JobOf(s)) /\ DeploymentSeq[JobOf(s)] <= ctl'.wave
          /\ ctl'.todo \cap ctl'.downed = {}
      BY <1>2, <1>3 DEF OperationsInv, ControlInv
    <2> QED BY <2>4, <2>5, <2>6, <2>7 DEF ControlInv
  <1>6. ScriptInv'
    <2> SUFFICES ASSUME ctl.phase = "script", ctl.harm = "loud" \/ ctl.health
                 PROVE  ScriptInv'
      BY <1>3 DEF ScriptInv
    <2>1. Struck' \subseteq Struck /\ StruckWorkers' \subseteq StruckWorkers
      BY <1>2, <1>3 DEF Struck, StruckWorkers
    <2>2. StruckWorkers \subseteq Workers
      BY <1>1 DEF StruckWorkers, Struck, CtlType, Slots, WorkerOf
    <2>3. /\ Cardinality(StruckWorkers') <= Cardinality(StruckWorkers)
          /\ Cardinality(StruckWorkers') \in Nat /\ Cardinality(StruckWorkers) \in Nat
      <3>1. IsFiniteSet(StruckWorkers)
        BY <2>2, FiniteCluster
      <3> QED BY <2>1, <3>1, FS_Subset, FS_CardinalityType
    <2>4. Cardinality(StruckWorkers') <= Concurrency
      <3>1. Cardinality(StruckWorkers) <= Concurrency
        BY DEF OperationsInv, ScriptInv
      <3> QED BY <2>3, <3>1, OperationsAssumption
    <2>5. \/ Struck' = {}
          \/ ctl'.hosts = {}
          \/ /\ ctl'.harm # "loud"
             /\ ctl'.probing = {j \in Jobs : ctl'.cat.content[j] # None}
      BY <2>1, <1>3 DEF OperationsInv, ScriptInv
    <2> QED BY <2>4, <2>5 DEF ScriptInv
  <1> QED BY <1>4, <1>5, <1>6

(* A command at rest is disturbed by nothing. *)
LEMMA StutterKeeps ==
    ASSUME OperationsInv, UNCHANGED opsVars
    PROVE  OperationsInv'
  <1>1. TypeInv'
    BY StutterType DEF OperationsInv, opsVars
  <1>2. ctl' = ctl /\ live' = live
    BY DEF opsVars, vars, hosts
  <1>3. Spared
    <2>1. {s \in ctl.downed : live'[s] = Down} = ctl.downed
      BY <1>2 DEF OperationsInv, CommandInv
    <2>2. ctl = [ctl EXCEPT !.downed = ctl.downed]
      BY DEF OperationsInv, CommandInv, CtlType
    <2> QED BY <1>2, <2>1, <2>2 DEF Spared
  <1> QED BY <1>1, <1>3, SparedKeeps DEF OperationsInv

-----------------------------------------------------------------------------
(* The types of the workers. *)

(* runner.py starts what is on disk, where a tree and its Makefile are. *)
LEMMA ControlledType ==
    ASSUME TypeInv, NEW s \in Slots
    PROVE  Controlled(s) \in Contents \cup {Down}
  <1>1. tree[s] \in Contents \cup {Absent, Emptied} /\ live[s] \in Contents \cup {Down}
    BY DEF TypeInv, TypeOK
  <1>2. RunnerActs(s) /\ RunnerMayWork(s) => tree[s] \in Contents
    BY <1>1 DEF RunnerActs, RunnerMayWork
  <1> QED BY <1>1, <1>2 DEF Controlled

(* An operator command changes processes and spends faults, nothing else. *)
LEMMA OperatorEffect ==
    ASSUME OperationsInv, OperatorStep
    PROVE  /\ UNCHANGED <<catalog, hash, updateSeq, tree, jobsFile, seqFile, run,
                          result, owed, finished, builds, edits>>
           /\ live' \in [Slots -> Contents \cup {Down}]
           /\ faults' \in Nat
  <1>1. TypeInv /\ live \in [Slots -> Contents \cup {Down}] /\ faults \in Nat
    BY DEF OperationsInv, TypeInv, TypeOK
  <1>2. CASE UNCHANGED vars
    BY <1>1, <1>2 DEF vars, db, hosts, ledger, bounds
  <1>3. ASSUME NEW B, NEW j, RunOn(B, j)
        PROVE  /\ UNCHANGED <<db, tree, jobsFile, seqFile, run, ledger, bounds>>
               /\ live' \in [Slots -> Contents \cup {Down}]
    <2>1. live' = [s \in Slots |-> IF s \in B THEN Controlled(s) ELSE live[s]]
      BY <1>3 DEF RunOn
    <2> QED BY <1>1, <1>3, <2>1, ControlledType DEF RunOn
  <1>4. CASE ScriptBatch
    <2>1. /\ UNCHANGED <<db, tree, jobsFile, seqFile, run, ledger, bounds>>
          /\ live' \in [Slots -> Contents \cup {Down}]
      BY <1>1, <1>4 DEF ScriptBatch
    <2> QED BY <1>1, <2>1 DEF db, ledger, bounds
  <1>5. CASE \E j \in Jobs : RunnerBatch(j) \/ ControlCommands(j)
    <2>1. PICK B, j : RunOn(B, j)
      BY <1>5 DEF RunnerBatch, ControlCommands
    <2> QED BY <1>1, <1>3, <2>1 DEF db, ledger, bounds
  <1>6. CASE Validate \/ ScriptHealth
    <2>1. UNCHANGED <<db, hosts, run, ledger, builds, edits>>
      BY <1>6 DEF Validate, ScriptHealth
    <2>2. Faultless \/ \E kind : Fault(kind)
      BY <1>6 DEF Validate, ScriptHealth, WorkerUnreachable
    <2> QED BY <1>1, <2>1, <2>2, FaultCount DEF db, hosts, ledger, TypeInv
  <1> QED
    BY <1>2, <1>4, <1>5, <1>6
    DEF OperatorStep, BeginControl, BeginCommand, ControlHealth, NextControlWave, EndScript

(* So it keeps the types of the bucket and of the workers. *)
LEMMA OperatorType ==
    ASSUME OperationsInv, OperatorStep
    PROVE  TypeInv'
  <1>1. TypeInv
    BY DEF OperationsInv
  <1>2. TypeOK'
    BY <1>1, OperatorEffect DEF TypeInv, TypeOK
  <1>3. CatalogSound' /\ TreesInPlace' /\ RunSound'
    BY <1>1, OperatorEffect DEF TypeInv, CatalogSound, TreesInPlace, RunSound
  <1> QED BY <1>2, <1>3 DEF TypeInv

-----------------------------------------------------------------------------
(* maand job. *)

(* The allocations a job is controlled on are active in the snapshot. *)
LEMMA WaveTargets ==
    ASSUME OperationsInv, NEW n \in Nat, ctl' = AtWave(n)
    PROVE  /\ ctl' \in CtlType
           /\ ctl'.phase = "wave" /\ ctl'.wave = n
           /\ ctl'.cat = ctl.cat /\ ctl'.target = ctl.target /\ ctl'.health = ctl.health
           /\ ctl'.harm = ctl.harm /\ ctl'.probing = ctl.probing /\ ctl'.downed = ctl.downed
           /\ \A s \in ctl'.todo :
                 s \in Active(ctl.cat, JobOf(s)) /\ DeploymentSeq[JobOf(s)] = n
  <1> DEFINE J == Filtered(JobsAtSeq(ctl.cat, DeploymentSeq, n), ctl.jobs)
             T == UNION {Targets(j) : j \in J}
  <1>1. ctl \in CtlType
    BY DEF OperationsInv, CommandInv
  <1>2. J \subseteq Jobs /\ \A j \in J : DeploymentSeq[j] = n
    BY DEF Filtered, JobsAtSeq
  <1>3. \A j \in J : /\ Targets(j) \subseteq Active(ctl.cat, j)
                     /\ Targets(j) \subseteq Slots
                     /\ \A s \in Targets(j) : JobOf(s) = j
    <2>1. ctl.cat \in CatalogType
      BY <1>1 DEF CtlType
    <2> QED BY <2>1, AllocationQueries DEF Targets
  <1>4. T \in SUBSET Slots
    BY <1>3
  <1>5. \A s \in T : s \in Active(ctl.cat, JobOf(s)) /\ DeploymentSeq[JobOf(s)] = n
    <2> SUFFICES ASSUME NEW s \in T
                 PROVE  s \in Active(ctl.cat, JobOf(s)) /\ DeploymentSeq[JobOf(s)] = n
      OBVIOUS
    <2>1. PICK j \in J : s \in Targets(j)
      OBVIOUS
    <2> QED BY <2>1, <1>2, <1>3
  <1>6. ctl' = [ctl EXCEPT !.phase = "wave", !.wave = n, !.todo = T]
    BY DEF AtWave
  <1> HIDE DEF J, T
  <1>7. ctl' \in CtlType
    BY <1>1, <1>4, <1>6 DEF CtlType
  <1>8. /\ ctl'.phase = "wave" /\ ctl'.wave = n /\ ctl'.todo = T
        /\ ctl'.cat = ctl.cat /\ ctl'.target = ctl.target /\ ctl'.health = ctl.health
        /\ ctl'.harm = ctl.harm /\ ctl'.probing = ctl.probing /\ ctl'.downed = ctl.downed
    BY <1>1, <1>6 DEF CtlType
  <1> QED BY <1>5, <1>7, <1>8

(* The check of the workers lets the command pass with nothing taken down. *)
LEMMA ValidateKeeps ==
    ASSUME OperationsInv, Validate
    PROVE  CommandInv' /\ ControlInv' /\ ScriptInv'
  <1>1. CASE ctl' = Calm
    <2>1. \A j \in Jobs : Active(ctl'.cat, j) = {}
      BY <1>1, CalmType
    <2> QED BY <1>1, <2>1, CalmType, Untouched
  <1>2. CASE ctl' = AtWave(0)
    <2>1. /\ ctl' \in CtlType
          /\ ctl'.phase = "wave" /\ ctl'.wave = 0 /\ ctl'.cat = ctl.cat
          /\ ctl'.downed = {}
          /\ \A s \in ctl'.todo :
                s \in Active(ctl.cat, JobOf(s)) /\ DeploymentSeq[JobOf(s)] = 0
      <3>1. ctl.downed = {}
        BY DEF Validate, OperationsInv, CommandInv
      <3> QED BY <1>2, <3>1, WaveTargets
    <2>2. CommandInv'
      BY <2>1 DEF OperationsInv, CommandInv
    <2>3. \A j \in Jobs : Taken(j)' = {} /\ Cardinality(Taken(j)') = 0
      BY <2>1, FS_EmptySet DEF Taken
    <2>4. \A j \in Jobs : Batch(j)' \in Nat
      BY BatchBounds DEF Batch
    <2>5. ControlInv'
      BY <2>1, <2>3, <2>4 DEF ControlInv
    <2>6. ScriptInv'
      BY <2>1 DEF ScriptInv
    <2> QED BY <2>2, <2>5, <2>6
  <1> QED BY <1>1, <1>2 DEF Validate

(* The jobs of the next sequence are untouched; nothing waits of the ones before. *)
LEMMA NextControlWaveKeeps ==
    ASSUME OperationsInv, NextControlWave
    PROVE  CommandInv' /\ ControlInv' /\ ScriptInv'
  <1>1. CASE ctl' = Calm
    <2>1. \A j \in Jobs : Active(ctl'.cat, j) = {}
      BY <1>1, CalmType
    <2> QED BY <1>1, <2>1, CalmType, Untouched
  <1>2. CASE ctl' = AtWave(ctl.wave + 1)
    <2>1. ctl.wave \in Nat /\ ctl.phase = "wave" /\ live' = live
      BY DEF OperationsInv, CommandInv, CtlType, NextControlWave, vars, hosts
    <2>2. /\ ctl' \in CtlType
          /\ ctl'.phase = "wave" /\ ctl'.wave = ctl.wave + 1
          /\ ctl'.cat = ctl.cat /\ ctl'.target = ctl.target /\ ctl'.health = ctl.health
          /\ ctl'.harm = ctl.harm /\ ctl'.probing = ctl.probing /\ ctl'.downed = ctl.downed
          /\ \A s \in ctl'.todo :
                s \in Active(ctl.cat, JobOf(s)) /\ DeploymentSeq[JobOf(s)] = ctl.wave + 1
      <3>1. ctl.wave + 1 \in Nat
        BY <2>1
      <3> QED BY <1>2, <3>1, WaveTargets
    <2>3. CommandInv'
      BY <2>1, <2>2 DEF OperationsInv, CommandInv
    <2>4. \A s \in ctl.downed :
             s \in Slots /\ s \in Active(ctl.cat, JobOf(s)) /\ DeploymentSeq[JobOf(s)] <= ctl.wave
      BY <2>1 DEF OperationsInv, CommandInv, CtlType, ControlInv
    <2>5. \A s \in Slots : DeploymentSeq[JobOf(s)] \in Nat
      BY DeployAssumption DEF Slots, JobOf
    <2>6. \A s \in ctl'.downed :
             s \in Active(ctl'.cat, JobOf(s)) /\ DeploymentSeq[JobOf(s)] <= ctl'.wave
      BY <2>1, <2>2, <2>4, <2>5
    <2>7. \A s \in ctl'.downed, t \in ctl'.todo : JobOf(s) # JobOf(t)
      <3> SUFFICES ASSUME NEW s \in ctl'.downed, NEW t \in ctl'.todo, JobOf(s) = JobOf(t)
                   PROVE  FALSE
        OBVIOUS
      <3>1. DeploymentSeq[JobOf(s)] <= ctl.wave /\ DeploymentSeq[JobOf(s)] = ctl.wave + 1
            /\ DeploymentSeq[JobOf(s)] \in Nat
        BY <2>2, <2>4, <2>5
      <3> QED BY <3>1, <2>1
    <2>8. \A j \in Jobs : Taken(j)' = {} \/ Waiting(j)' = {}
      BY <2>7 DEF Taken, Waiting
    <2>9. \A j \in Jobs : Noticed(j)' = Noticed(j) /\ Taken(j)' = Taken(j) /\ Batch(j)' = Batch(j)
      BY <2>2 DEF Noticed, Taken, Batch
    <2>10. \A j \in Jobs : Noticed(j)' => Cardinality(Taken(j)') <= Batch(j)'
      BY <2>1, <2>9 DEF OperationsInv, ControlInv
    <2>11. ctl'.todo \cap ctl'.downed = {}
      BY <2>7
    <2>12. ControlInv'
      BY <2>2, <2>6, <2>8, <2>10, <2>11 DEF ControlInv
    <2>13. ScriptInv'
      BY <2>2 DEF ScriptInv
    <2> QED BY <2>3, <2>12, <2>13
  <1> QED BY <1>1, <1>2 DEF NextControlWave

(* The slots a batch has taken down. *)
Fallen(B) == {s \in B : live[s] # Down /\ live'[s] = Down}

(* A batch of job j is the first that took anything of it down; if it did, the job is
   at its end or its health is checked next. *)
LEMMA RunOnKeeps ==
    ASSUME OperationsInv, NEW j \in Jobs, NEW B, B \subseteq Waiting(j), Waiting(j) # {},
           ctl.phase = "wave", j \notin ctl.probing, RunOn(B, j),
           j \notin Commanded => Cardinality(B) <= Batch(j)
    PROVE  CommandInv' /\ ControlInv' /\ ScriptInv'
  <1> DEFINE failed == \E s \in B : ~RunnerMayWork(s) \/ (ctl.harm = "loud" /\ RunnerActs(s))
             todo == ctl.todo \ (IF failed THEN {s \in Slots : JobOf(s) = j} ELSE B)
             probing == IF failed \/ ~ctl.health THEN ctl.probing ELSE ctl.probing \cup {j}
  <1>1. /\ ctl \in CtlType /\ live \in [Slots -> Contents \cup {Down}]
        /\ B \subseteq Slots /\ B \subseteq ctl.todo
    BY DEF OperationsInv, CommandInv, TypeInv, TypeOK, CtlType, Waiting
  <1>2. live' = [s \in Slots |-> IF s \in B THEN Controlled(s) ELSE live[s]]
    BY DEF RunOn
  <1>3. ctl' = [ctl EXCEPT !.todo = todo, !.probing = probing, !.downed = @ \cup Fallen(B)]
    BY DEF RunOn, Fallen
  <1>4. todo \in SUBSET Slots /\ probing \in SUBSET Jobs /\ Fallen(B) \in SUBSET Slots
    BY <1>1 DEF CtlType, Fallen
  <1> HIDE DEF todo, probing
  <1>5. /\ ctl' \in CtlType
        /\ ctl'.phase = "wave" /\ ctl'.cat = ctl.cat /\ ctl'.target = ctl.target
        /\ ctl'.health = ctl.health /\ ctl'.harm = ctl.harm /\ ctl'.wave = ctl.wave
        /\ ctl'.todo = todo /\ ctl'.probing = probing
        /\ ctl'.downed = ctl.downed \cup Fallen(B)
    BY <1>1, <1>3, <1>4 DEF CtlType
  <1>6. todo \subseteq ctl.todo \ B /\ ctl.probing \subseteq probing
    BY <1>1 DEF todo, probing, Waiting
  <1>7. CommandInv'
    <2>1. \A s \in ctl'.downed : live'[s] = Down
      <3> SUFFICES ASSUME NEW s \in ctl'.downed PROVE live'[s] = Down
        OBVIOUS
      <3>1. CASE s \in Fallen(B)
        BY <3>1 DEF Fallen
      <3>2. CASE s \in ctl.downed
        <4>1. s \notin B /\ s \in Slots /\ live[s] = Down
          BY <1>1, <3>2 DEF OperationsInv, CommandInv, ControlInv, CtlType
        <4> QED BY <4>1, <1>2
      <3> QED BY <1>5, <3>1, <3>2
    <2> QED BY <1>5, <2>1 DEF OperationsInv, CommandInv
  <1>8. /\ \A s \in ctl'.todo :
              s \in Active(ctl'.cat, JobOf(s)) /\ DeploymentSeq[JobOf(s)] = ctl'.wave
        /\ ctl'.todo \cap ctl'.downed = {}
    BY <1>5, <1>6 DEF OperationsInv, ControlInv, Fallen
  <1>9. \A s \in ctl'.downed :
           s \in Active(ctl'.cat, JobOf(s)) /\ DeploymentSeq[JobOf(s)] <= ctl'.wave
    <2> SUFFICES ASSUME NEW s \in ctl'.downed
                 PROVE  s \in Active(ctl'.cat, JobOf(s)) /\ DeploymentSeq[JobOf(s)] <= ctl'.wave
      OBVIOUS
    <2>1. CASE s \in ctl.downed
      BY <1>5, <2>1 DEF OperationsInv, ControlInv
    <2>2. CASE s \in Fallen(B)
      <3>1. s \in Active(ctl.cat, JobOf(s)) /\ DeploymentSeq[JobOf(s)] = ctl.wave
        BY <1>1, <2>2 DEF OperationsInv, ControlInv, Fallen
      <3>2. ctl.wave \in Nat
        BY <1>1 DEF CtlType
      <3> QED BY <3>1, <3>2, <1>5
    <2> QED BY <1>5, <2>1, <2>2
  <1>10. \A i : Noticed(i)' = Noticed(i) /\ Batch(i)' = Batch(i)
    BY <1>5 DEF Noticed, Batch
  <1>11. \A s \in B : JobOf(s) = j
    BY DEF Waiting
  <1>12. ASSUME NEW i \in Jobs \ {j}, Noticed(i)'
         PROVE  /\ Cardinality(Taken(i)') <= Batch(i)'
                /\ \/ Taken(i)' = {}
                   \/ Waiting(i)' = {}
                   \/ ctl'.harm # "loud" /\ i \in ctl'.probing
    <2>1. Taken(i)' = Taken(i)
      BY <1>5, <1>11 DEF Taken, Fallen
    <2>2. Waiting(i)' \subseteq Waiting(i)
      BY <1>5, <1>6 DEF Waiting
    <2> QED BY <1>5, <1>6, <1>10, <1>12, <2>1, <2>2 DEF OperationsInv, ControlInv
  <1>13. ASSUME Noticed(j)'
         PROVE  /\ Cardinality(Taken(j)') <= Batch(j)'
                /\ \/ Taken(j)' = {}
                   \/ Waiting(j)' = {}
                   \/ ctl'.harm # "loud" /\ j \in ctl'.probing
    <2>1. Noticed(j) /\ Taken(j) = {}
      BY <1>10, <1>13 DEF OperationsInv, ControlInv
    <2>2. Taken(j)' \subseteq B /\ Taken(j)' \subseteq Fallen(B)
      BY <1>5, <2>1 DEF Taken, Fallen
    <2>3. Cardinality(Taken(j)') <= Batch(j)'
      <3>1. IsFiniteSet(B)
        BY <1>1, FiniteCluster
      <3>2. /\ Cardinality(Taken(j)') <= Cardinality(B)
            /\ Cardinality(Taken(j)') \in Nat /\ Cardinality(B) \in Nat
        BY <2>2, <3>1, FS_Subset, FS_CardinalityType
      <3>3. Cardinality(B) <= Batch(j) /\ Batch(j) \in Nat
        BY <2>1, BatchBounds DEF Noticed
      <3> QED BY <1>10, <3>2, <3>3
    <2>4. CASE failed
      <3>1. Waiting(j)' = {}
        BY <1>1, <1>5, <2>4 DEF Waiting, todo, CtlType
      <3> QED BY <2>3, <3>1
    <2>5. CASE ~failed /\ ctl.harm = "loud"
      <3>1. \A s \in B : ~RunnerActs(s)
        BY <2>5
      <3>2. \A s \in B : Controlled(s) = live[s]
        BY <3>1 DEF Controlled
      <3>3. Fallen(B) = {}
        BY <1>1, <1>2, <3>2 DEF Fallen
      <3> QED BY <2>2, <2>3, <3>3
    <2>6. CASE ~failed /\ ctl.harm # "loud"
      <3>1. ctl.health /\ j \in probing
        BY <2>1, <2>6 DEF Noticed, probing
      <3> QED BY <1>5, <2>3, <2>6, <3>1
    <2> QED BY <2>4, <2>5, <2>6
  <1>14. ControlInv'
    BY <1>8, <1>9, <1>12, <1>13 DEF ControlInv
  <1>15. ScriptInv'
    BY <1>5 DEF ScriptInv
  <1> QED BY <1>7, <1>14, <1>15

(* One round of runRunnerTarget. *)
LEMMA RunnerBatchKeeps ==
    ASSUME OperationsInv, NEW j \in Jobs, RunnerBatch(j)
    PROVE  CommandInv' /\ ControlInv' /\ ScriptInv'
  <1>1. PICK B \in SUBSET Waiting(j) :
            Cardinality(B) = ControlBatchSize(j, Cardinality(Waiting(j))) /\ RunOn(B, j)
    BY DEF RunnerBatch, Waiting
  <1>2. Cardinality(Waiting(j)) \in Nat
    <2>1. Waiting(j) \subseteq Slots
      BY DEF OperationsInv, CommandInv, CtlType, Waiting
    <2> QED BY <2>1, FiniteCluster, FS_CardinalityType
  <1>3. Cardinality(B) <= Batch(j)
    BY <1>1, <1>2, BatchBounds
  <1>4. ctl.phase = "wave" /\ Waiting(j) # {} /\ j \notin ctl.probing
    BY DEF RunnerBatch, Waiting
  <1> QED BY <1>1, <1>3, <1>4, RunOnKeeps

(* The job's own commands, which RollingControl does not bound. *)
LEMMA ControlCommandsKeeps ==
    ASSUME OperationsInv, NEW j \in Jobs, ControlCommands(j)
    PROVE  CommandInv' /\ ControlInv' /\ ScriptInv'
  <1>1. /\ RunOn(Waiting(j), j) /\ Waiting(j) # {} /\ j \in Commanded
        /\ ctl.phase = "wave" /\ j \notin ctl.probing
    BY DEF ControlCommands, Waiting
  <1> QED BY <1>1, RunOnKeeps

(* The health check ends a job of which the batch took something down. *)
LEMMA ControlHealthKeeps ==
    ASSUME OperationsInv, NEW j \in Jobs, ControlHealth(j)
    PROVE  CommandInv' /\ ControlInv' /\ ScriptInv'
  <1> DEFINE todo == IF HealthyIn(ctl.cat, j) THEN ctl.todo ELSE {s \in ctl.todo : JobOf(s) # j}
  <1>1. /\ ctl \in CtlType /\ ctl.phase = "wave" /\ j \in ctl.probing /\ live' = live
        /\ ctl' = [ctl EXCEPT !.probing = @ \ {j}, !.todo = todo]
    BY DEF OperationsInv, CommandInv, ControlHealth, vars, hosts, CtlType
  <1>2. todo \in SUBSET Slots /\ todo \subseteq ctl.todo
    BY <1>1 DEF CtlType
  <1> HIDE DEF todo
  <1>3. /\ ctl' \in CtlType
        /\ ctl'.phase = "wave" /\ ctl'.cat = ctl.cat /\ ctl'.target = ctl.target
        /\ ctl'.health = ctl.health /\ ctl'.harm = ctl.harm /\ ctl'.wave = ctl.wave
        /\ ctl'.todo = todo /\ ctl'.probing = ctl.probing \ {j} /\ ctl'.downed = ctl.downed
    BY <1>1, <1>2 DEF CtlType
  <1>4. CommandInv'
    BY <1>1, <1>3 DEF OperationsInv, CommandInv
  <1>5. \A i : /\ Noticed(i)' = Noticed(i) /\ Batch(i)' = Batch(i) /\ Taken(i)' = Taken(i)
               /\ Waiting(i)' \subseteq Waiting(i)
    BY <1>2, <1>3 DEF Noticed, Batch, Taken, Waiting
  <1>6. ASSUME NEW i \in Jobs, Noticed(i)', Taken(i)' # {}
        PROVE  Waiting(i)' = {} \/ (ctl'.harm # "loud" /\ i \in ctl'.probing)
    <2>1. Noticed(i) /\ Taken(i) # {}
      BY <1>5, <1>6
    <2>2. CASE Waiting(i) = {}
      BY <1>5, <2>2
    <2>3. CASE i # j
      BY <1>1, <1>3, <1>5, <2>1, <2>3 DEF OperationsInv, ControlInv
    <2>4. CASE i = j /\ ctl.harm = "loud"
      BY <1>1, <2>1, <2>2, <2>4 DEF OperationsInv, ControlInv
    <2>5. CASE i = j /\ ctl.harm # "loud"
      <3>1. j \in Probed
        BY <2>1, <2>5 DEF Noticed
      <3>2. PICK s \in ctl.downed : JobOf(s) = j
        BY <2>1, <2>5 DEF Taken
      <3>3. s \in Active(ctl.cat, j) /\ live[s] = Down
        BY <1>1, <3>2 DEF OperationsInv, CommandInv, ControlInv
      <3>4. ~HealthyIn(ctl.cat, j)
        BY <3>1, <3>3 DEF HealthyIn
      <3>5. Waiting(j)' = {}
        BY <1>3, <3>4 DEF Waiting, todo
      <3> QED BY <2>5, <3>5
    <2> QED BY <2>2, <2>3, <2>4, <2>5
  <1>7. \A i \in Jobs : Noticed(i)' => Cardinality(Taken(i)') <= Batch(i)'
    BY <1>1, <1>5 DEF OperationsInv, ControlInv
  <1>8. /\ \A s \in ctl'.todo :
              s \in Active(ctl'.cat, JobOf(s)) /\ DeploymentSeq[JobOf(s)] = ctl'.wave
        /\ \A s \in ctl'.downed :
              s \in Active(ctl'.cat, JobOf(s)) /\ DeploymentSeq[JobOf(s)] <= ctl'.wave
        /\ ctl'.todo \cap ctl'.downed = {}
    BY <1>1, <1>2, <1>3 DEF OperationsInv, ControlInv
  <1>9. ControlInv'
    BY <1>6, <1>7, <1>8 DEF ControlInv
  <1>10. ScriptInv'
    BY <1>3 DEF ScriptInv
  <1> QED BY <1>4, <1>9, <1>10

-----------------------------------------------------------------------------
(* maand run_command. *)

(* While the health of every job is checked, or when no job has a row, an allocation
   that was struck belongs to a job that is checked. *)
LEMMA StruckIsProbed ==
    ASSUME OperationsInv, ctl.phase = "script", NEW s \in Struck
    PROVE  /\ s \in Slots /\ JobOf(s) \in Jobs /\ live[s] = Down
           /\ s \in Active(ctl.cat, JobOf(s))
           /\ JobOf(s) \in {j \in Jobs : ctl.cat.content[j] # None}
  <1>1. s \in ctl.downed /\ s \in Active(ctl.cat, JobOf(s)) /\ ctl \in CtlType
    BY DEF Struck, OperationsInv, CommandInv
  <1>2. s \in Slots /\ JobOf(s) \in Jobs
    BY <1>1 DEF CtlType, Slots, JobOf
  <1> QED BY <1>1, <1>2 DEF OperationsInv, CommandInv

(* A batch of the script is the first that struck anything, and if it did it is the
   last, or the health checks come next. *)
LEMMA ScriptBatchKeeps ==
    ASSUME OperationsInv, ScriptBatch
    PROVE  CommandInv' /\ ControlInv' /\ ScriptInv'
  <1> DEFINE left(B) == IF ctl.harm = "loud" THEN {} ELSE ctl.hosts \ B
             probing == IF ctl.health /\ ctl.harm # "loud"
                        THEN {j \in Jobs : ctl.cat.content[j] # None} ELSE {}
             down == {s \in Slots : live[s] # Down /\ live'[s] = Down}
  <1>1. PICK B \in SUBSET ctl.hosts :
            /\ Cardinality(B) = ScriptBatchSize(Cardinality(ctl.hosts))
            /\ live' = [s \in Slots |-> IF WorkerOf(s) \in B /\ ctl.harm # "none"
                                        THEN Down ELSE live[s]]
            /\ ctl' = [ctl EXCEPT !.hosts = left(B), !.probing = probing,
                                  !.downed = @ \cup down]
    BY DEF ScriptBatch
  <1>2. /\ ctl \in CtlType /\ live \in [Slots -> Contents \cup {Down}]
        /\ ctl.phase = "script" /\ ctl.hosts # {} /\ ctl.probing = {}
    BY DEF OperationsInv, CommandInv, TypeInv, TypeOK, ScriptBatch
  <1>3. left(B) \in SUBSET Workers /\ probing \in SUBSET Jobs /\ down \in SUBSET Slots
    BY <1>2 DEF CtlType
  <1>4. \A s \in down : WorkerOf(s) \in B
    BY <1>1, <1>2
  <1> HIDE DEF left, down
  <1>5. /\ ctl' \in CtlType
        /\ ctl'.phase = "script" /\ ctl'.cat = ctl.cat /\ ctl'.harm = ctl.harm
        /\ ctl'.health = ctl.health /\ ctl'.hosts = left(B) /\ ctl'.probing = probing
        /\ ctl'.downed = ctl.downed \cup down
    <2> HIDE DEF probing
    <2> QED BY <1>1, <1>2, <1>3 DEF CtlType
  <1>6. CommandInv'
    <2>1. \A s \in ctl'.downed : live'[s] = Down
      <3>1. \A s \in ctl.downed : s \in Slots /\ live[s] = Down
        BY <1>2 DEF OperationsInv, CommandInv, CtlType
      <3> QED BY <1>1, <1>5, <3>1 DEF down
    <2> QED BY <1>5, <2>1 DEF OperationsInv, CommandInv
  <1>7. ControlInv'
    BY <1>5 DEF ControlInv
  <1>8. ASSUME ctl.harm = "loud" \/ ctl.health
        PROVE  ScriptInv'
    <2>1. Struck = {}
      <3>1. CASE ctl.probing = {j \in Jobs : ctl.cat.content[j] # None}
        BY <1>2, <3>1, StruckIsProbed
      <3> QED BY <1>2, <1>8, <3>1 DEF OperationsInv, ScriptInv
    <2>2. Struck' \subseteq down
      BY <1>5, <2>1 DEF Struck
    <2>3. StruckWorkers' \subseteq B
      BY <1>4, <2>2 DEF StruckWorkers
    <2>4. Cardinality(StruckWorkers') <= Concurrency
      <3>1. B \subseteq Workers /\ IsFiniteSet(B) /\ IsFiniteSet(ctl.hosts)
        BY <1>2, FiniteCluster DEF CtlType
      <3>2. /\ Cardinality(StruckWorkers') <= Cardinality(B)
            /\ Cardinality(StruckWorkers') \in Nat /\ Cardinality(B) \in Nat
            /\ Cardinality(ctl.hosts) \in Nat
        BY <2>3, <3>1, FS_Subset, FS_CardinalityType
      <3>3. Cardinality(B) <= Concurrency
        BY <1>1, <3>2, BatchBounds
      <3> QED BY <3>2, <3>3, OperationsAssumption
    <2>5. CASE ctl.harm = "loud"
      BY <1>5, <2>4, <2>5 DEF ScriptInv, left
    <2>6. CASE ctl.harm # "loud"
      BY <1>5, <1>8, <2>4, <2>6 DEF ScriptInv
    <2> QED BY <2>5, <2>6
  <1>9. ASSUME ~(ctl.harm = "loud" \/ ctl.health)
        PROVE  ScriptInv'
    BY <1>5, <1>9 DEF ScriptInv
  <1> QED BY <1>6, <1>7, <1>8, <1>9

(* The health checks end the command, unless nothing was struck. *)
LEMMA ScriptHealthKeeps ==
    ASSUME OperationsInv, ScriptHealth
    PROVE  CommandInv' /\ ControlInv' /\ ScriptInv'
  <1>1. /\ ctl \in CtlType /\ ctl.phase = "script" /\ live' = live
    BY DEF OperationsInv, CommandInv, ScriptHealth, hosts
  <1>2. PICK left \in {ctl.hosts, {}} :
            /\ ctl' = [ctl EXCEPT !.probing = {}, !.hosts = left]
            /\ left = {} \/ \A j \in ctl.probing : HealthyIn(ctl.cat, j)
    <2>1. CASE ctl' = [ctl EXCEPT !.probing = {}] /\ \A j \in ctl.probing : HealthyIn(ctl.cat, j)
      <3>1. ctl' = [ctl EXCEPT !.probing = {}, !.hosts = ctl.hosts]
        BY <1>1, <2>1 DEF CtlType
      <3> QED BY <2>1, <3>1
    <2>2. CASE ctl' = [ctl EXCEPT !.probing = {}, !.hosts = {}]
      BY <2>2
    <2> QED BY <2>1, <2>2 DEF ScriptHealth
  <1>3. /\ ctl' \in CtlType
        /\ ctl'.phase = "script" /\ ctl'.cat = ctl.cat /\ ctl'.harm = ctl.harm
        /\ ctl'.health = ctl.health /\ ctl'.hosts = left /\ ctl'.probing = {}
        /\ ctl'.downed = ctl.downed
    BY <1>1, <1>2 DEF CtlType
  <1>4. CommandInv'
    BY <1>1, <1>3 DEF OperationsInv, CommandInv
  <1>5. ControlInv'
    BY <1>3 DEF ControlInv
  <1>6. Struck' = Struck /\ StruckWorkers' = StruckWorkers
    BY <1>3 DEF Struck, StruckWorkers
  <1>7. ASSUME ctl.harm = "loud" \/ ctl.health
        PROVE  Struck = {} \/ left = {}
    <2>1. CASE ctl.hosts = {}
      BY <1>2, <2>1
    <2>2. CASE /\ ctl.harm # "loud"
               /\ ctl.probing = {j \in Jobs : ctl.cat.content[j] # None}
               /\ \A j \in ctl.probing : HealthyIn(ctl.cat, j)
      <3> SUFFICES ASSUME NEW s \in Struck PROVE FALSE
        OBVIOUS
      <3>1. /\ JobOf(s) \in ctl.probing /\ s \in Active(ctl.cat, JobOf(s)) /\ live[s] = Down
        BY <1>1, <2>2, StruckIsProbed
      <3>2. JobOf(s) \in Probed
        BY <2>2 DEF Struck
      <3> QED BY <2>2, <3>1, <3>2 DEF HealthyIn
    <2> QED BY <1>1, <1>2, <1>7, <2>1, <2>2 DEF OperationsInv, ScriptInv
  <1>8. ScriptInv'
    BY <1>1, <1>3, <1>6, <1>7 DEF OperationsInv, ScriptInv
  <1> QED BY <1>4, <1>5, <1>8

-----------------------------------------------------------------------------
(* Every step keeps the invariant. *)
LEMMA OperatorStepKeeps ==
    ASSUME OperationsInv, OperatorStep
    PROVE  OperationsInv'
  <1>1. TypeInv'
    BY OperatorType
  <1>2. CASE \E harm \in Harms : \/ \E q \in Requests : BeginControl(q, harm)
                                 \/ \E q \in Scripts : BeginCommand(q, harm)
    BY <1>1, <1>2, BeginKeeps DEF OperationsInv
  <1>3. CASE Validate
    BY <1>1, <1>3, ValidateKeeps DEF OperationsInv
  <1>4. CASE \E j \in Jobs : RunnerBatch(j) \/ ControlCommands(j) \/ ControlHealth(j)
    BY <1>1, <1>4, RunnerBatchKeeps, ControlCommandsKeeps, ControlHealthKeeps DEF OperationsInv
  <1>5. CASE NextControlWave
    BY <1>1, <1>5, NextControlWaveKeeps DEF OperationsInv
  <1>6. CASE ScriptBatch
    BY <1>1, <1>6, ScriptBatchKeeps DEF OperationsInv
  <1>7. CASE ScriptHealth
    BY <1>1, <1>7, ScriptHealthKeeps DEF OperationsInv
  <1>8. CASE EndScript
    <2>1. ctl' = Calm
      BY <1>8 DEF EndScript
    <2>2. \A j \in Jobs : Active(ctl'.cat, j) = {}
      BY <2>1, CalmType
    <2> QED BY <1>1, <2>1, <2>2, CalmType, Untouched DEF OperationsInv
  <1> QED BY <1>2, <1>3, <1>4, <1>5, <1>6, <1>7, <1>8 DEF OperatorStep

(* The invariant holds of every behaviour of commands next to builds and deploys. *)
THEOREM OperationsInvariant == OpsSpec => []OperationsInv
  <1>1. OperationsInv /\ [OpsNext]_opsVars => OperationsInv'
    <2> SUFFICES ASSUME OperationsInv, [OpsNext]_opsVars PROVE OperationsInv'
      OBVIOUS
    <2>1. CASE Next /\ Spared
      <3>1. TypeInv'
        BY <2>1, NextType DEF OperationsInv
      <3> QED BY <2>1, <3>1, SparedKeeps DEF OperationsInv
    <2>2. CASE OperatorStep
      BY <2>2, OperatorStepKeeps
    <2>3. CASE UNCHANGED opsVars
      BY <2>3, StutterKeeps
    <2> QED BY <2>1, <2>2, <2>3 DEF OpsNext, Spared
  <1> QED BY <1>1, InitOperations, PTL DEF OpsSpec

(* The damage of maand job to one job is one batch, whatever is built, deployed or
   collected meanwhile (runRunnerTarget stops at the first failure). *)
THEOREM ControlIsRolling == OpsSpec => []RollingControl
  <1>1. OperationsInv => RollingControl
    <2> SUFFICES ASSUME OperationsInv, NEW j \in Jobs \ Commanded,
                        ctl.phase = "wave", ctl.target # "stop",
                        ctl.harm = "loud" \/ (ctl.health /\ j \in Probed)
                 PROVE  Cardinality({s \in ctl.downed : JobOf(s) = j})
                           <= IF MaxUpgrades[j] < 1 THEN 1 ELSE MaxUpgrades[j]
      BY DEF RollingControl
    <2>1. Noticed(j)
      BY DEF Noticed
    <2>2. Cardinality(Taken(j)) <= Batch(j)
      BY <2>1 DEF OperationsInv, ControlInv
    <2> QED BY <2>2 DEF Taken, Batch
  <1> QED BY <1>1, OperationsInvariant, PTL

(* The damage of maand run_command is one batch of -c workers, whatever is built,
   deployed or collected meanwhile (runScriptOnWorkerBatch, RunJobs). *)
THEOREM CommandsAreContained == OpsSpec => []CommandContained
  <1>1. OperationsInv => CommandContained
    BY DEF OperationsInv, ScriptInv, CommandContained, StruckWorkers, Struck
  <1> QED BY <1>1, OperationsInvariant, PTL
=============================================================================
