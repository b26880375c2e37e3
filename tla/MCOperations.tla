---------------------------- MODULE MCOperations ----------------------------
(* Operator commands on the small clusters of MCDeploy. *)
EXTENDS Operations, MCDeploy

(* Both jobs everywhere, then a new release of j1 without w2. *)
Release == <<{Ws(Workers, On(c1), Slots, {})},
             {Ws(Workers, [On(c1) EXCEPT ![j1] = c2], Slots, {<<j1, w2>>})}>>

(* A rolling restart of everything, and one job on one worker. *)
Restarts == {[jobs |-> {}, workers |-> {}, target |-> "restart", health |-> TRUE],
             [jobs |-> {j2}, workers |-> {w1}, target |-> "start", health |-> FALSE]}

Anywhere == {[workers |-> {}, health |-> TRUE]}
=============================================================================
