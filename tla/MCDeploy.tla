------------------------------ MODULE MCDeploy ------------------------------
(* Small clusters for Deploy. *)
EXTENDS DryRun, TLC

CONSTANTS j1, j2, w1, w2, w3, c1, c2, v0, v1

Ws(workers, content, place, disabled) ==
    [workers |-> workers, content |-> content, place |-> place,
     disabled |-> disabled, version |-> [j \in Jobs |-> v0]]

Bumped(ws) == [ws EXCEPT !.version = [j \in Jobs |-> v1]]

AllJobs == {[force |-> FALSE, syncOnly |-> FALSE, jobs |-> Jobs]}

Rank == [w \in Workers |-> IF w = w1 THEN 1 ELSE IF w = w2 THEN 2 ELSE 3]

One == [j \in Jobs |-> 1]

Zero == [j \in Jobs |-> 0]

Always == [j \in Jobs |-> "always"]

On(c) == [j \in Jobs |-> c]

(* One job on every worker, upgraded once. *)
Upgrade == <<{Ws(Workers, On(c1), Slots, {})},
             {Ws(Workers, On(c2), Slots, {}), Bumped(Ws(Workers, On(c1), Slots, {}))}>>

(* The same, with an allocation disabled from the start, or by the upgrade. *)
Upgrades ==
    LET off == {<<j1, w3>>}
    IN  <<Upgrade[1] \cup {Ws(Workers, On(c1), Slots, off)},
          Upgrade[2] \cup {Ws(Workers, On(c2), Slots, off)}>>

(* j1 on w1; w2 drained, filled again, left out, or taken off the catalog. *)
Small(c) == {Ws(Workers, On(c), Slots, {}),
             Ws(Workers, On(c), Slots, {<<j1, w2>>}),
             Ws(Workers, On(c), {<<j1, w1>>}, {}),
             Ws({w1}, On(c), {<<j1, w1>>}, {})}

Drains == <<{Ws(Workers, On(c1), Slots, {})}, Small(c1), Small(c2), Small(c2)>>

(* Two jobs, the second after the first and upgraded on its own. *)
TwoJobs == <<{Ws(Workers, On(c1), Slots, {})},
             {Ws(Workers, On(c2), Slots, {}),
              Ws(Workers, [On(c1) EXCEPT ![j2] = c2], Slots, {}),
              Bumped(Ws(Workers, On(c1), Slots, {})),
              Ws(Workers, On(c1), Slots, {<<j1, w2>>}),
              Ws(Workers, On(c1), Slots \ {<<j1, w2>>}, {})}>>

Ranks == [j \in Jobs |-> IF j = j1 THEN 0 ELSE 1]

Mixed == [j \in Jobs |-> IF j = j1 THEN "always" ELSE "reload"]

SyncToo == {[force |-> FALSE, syncOnly |-> y, jobs |-> J] : y \in BOOLEAN, J \in (SUBSET Jobs) \ {{}}}

EveryFlag == SyncToo \cup {[force |-> TRUE, syncOnly |-> FALSE, jobs |-> Jobs]}

(* The change of content touches a file of restart_globs. *)
Globs == {<<c1, c2>>}
=============================================================================
