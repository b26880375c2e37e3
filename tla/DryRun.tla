------------------------------- MODULE DryRun -------------------------------
(* maand deploy --dry-run (src/deploy/dry_run.go) and what it has to do with   *)
(* the deploy that follows.  A dry run stages every selected job, refreshes    *)
(* the plan hashes in a transaction it rolls back and prints, per allocation,  *)
(* what deploying would do.  It is a second implementation of the decisions of *)
(* Deploy: there the batches are chosen by SQL queries (Catalog), here by a    *)
(* switch on each allocation's hash row.                                      *)
(*                                                                            *)
(* The dry run is a function of the committed database and of the flags; it    *)
(* fails as a whole when a pre_deploy hook does.                               *)
EXTENDS Deploy

(* selectJobsForDeploy over the sequences 0..max: every job of the catalog with a
   non-removed allocation that the filter lets through. *)
Selected(o) == {j \in o.jobs : JobsAtSeq(catalog, DeploymentSeq, DeploymentSeq[j]) \cap {j} # {}}

(* refreshPlanHashesForJobPlan of every selected job, on the rolled-back copy. *)
Refreshed(o) == UpdateAllocationPlan(catalog, hash, Selected(o))

(* resolveAllocationLifecycle *)
Lifecycle(h, s, o) == IF o.syncOnly THEN "sync" ELSE UpdateAction(h, s)

(* Slip: an allocation with a hash row is taken for one that was promoted. *)
PlanActiveByRow(h, s, o) ==
    IF h.cur[s] = None THEN "start"
    ELSE IF h.prev[s] # h.cur[s] \/ o.force \/ VersionChanged(catalog, h, s)
         THEN Lifecycle(h, s, o) ELSE "skip"

(* planActiveAllocation: the action, "skip" when none is needed. *)
PlanActive(h, s, o) ==
    IF h.cur[s] = None \/ h.prev[s] = None THEN "start"
    ELSE IF h.prev[s] # h.cur[s] \/ o.force \/ VersionChanged(catalog, h, s)
         THEN Lifecycle(h, s, o) ELSE "skip"

(* planDisabledAllocation: stop what was promoted, which the dry run announces
   on every call, and promote what differs. *)
PlanDisabled(h, s, o) ==
    LET deployed == h.prev[s] # None
        promote  == \/ deployed /\ (h.prev[s] # h.cur[s] \/ o.force)
                    \/ VersionChanged(catalog, h, s)
    IN  CASE deployed /\ promote -> "stop+promote"
          [] deployed /\ ~promote -> "stop"
          [] ~deployed /\ promote -> "promote"
          [] OTHER -> "skip"

(* The loop of planJobRollout over the non-removed allocations of a job. *)
PlanOf(o, s) ==
    IF s \in catalog.disabled THEN PlanDisabled(Refreshed(o), s, o)
    ELSE PlanActive(Refreshed(o), s, o)

(* JobPlan.NeedsRollout *)
NeedsRollout(o, j) == \E s \in NonRemoved(catalog, j) : PlanOf(o, s) # "skip"

Planned(o, j, action) == {s \in Active(catalog, j) : PlanOf(o, s) = action}

(* DryRun: the jobs reported as "deploy required"; deployment is required when
   there is one. *)
RequiredJobs(o) == {j \in Selected(o) : NeedsRollout(o, j)}

(* validateSyncOnlyRollout: a sync-only dry run fails on a job that would have to
   start an allocation. *)
Refused(o) ==
    o.syncOnly /\ \E j \in RequiredJobs(o) : NewAllocations(catalog, Refreshed(o), j) # {}

-----------------------------------------------------------------------------
(* The dry run of the committed database is what the deploy then does: while a
   deploy with the same flags is under way the committed tables are those the dry
   run read, so its plan stays defined, and
     - no job is staged that was not reported, except that --force also stages
       jobs of which nothing is active or promoted, and every job with something
       to do on an active allocation is staged unless its hook failed;
     - exactly the allocations planned "start" are started, and exactly those
       planned "reload" and "restart" are queued for that, although the jobs of
       earlier sequences were promoted or failed in between;
     - a sync-only deploy whose dry run was accepted meets no error but a fault. *)
AsPlanned ==
    LET o == run.opts
    IN  /\ run.phase = "plan" /\ run'.phase = "stage" =>
              /\ \A j \in run'.staged : Active(catalog, j) # {} => j \in RequiredJobs(o)
              /\ \A j \in Selected(o) : DeploymentSeq[j] = run.wave =>
                    \/ \A s \in Active(catalog, j) : PlanOf(o, s) = "skip"
                    \/ j \in run'.staged
                    \/ faults' # faults
        /\ run.phase = "stage" /\ run'.phase = "start" =>
              run'.todo = Planned(o, run'.job, "start")
        /\ run.phase = "start" /\ run'.phase = "reload" =>
              /\ run'.todo = Planned(o, run.job, "reload")
              /\ run'.restart = Planned(o, run.job, "restart")
        /\ o.syncOnly /\ ~Refused(o) /\ faults' = run.hits => ~run'.errors

DeployIsAsPlanned == [][run # Idle => AsPlanned]_vars
=============================================================================
