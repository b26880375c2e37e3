------------------------------- MODULE MCPorts -------------------------------
(* Two jobs, the first with two ports, in every combination of provisioned and
   fixed bindings, inside and outside a pool that moves. *)
EXTENDS Ports

MCJobRank  == [j \in Jobs |-> IF j = "a" THEN 1 ELSE 2]
MCNameRank == [n \in Names |-> IF n = "x" THEN 1 ELSE 2]

Bindings == {NoPort, Provisioned, 2, 9}

MCWorkspaces ==
    {w \in [min : {1, 2}, max : {1, 2, 3}, jobs : SUBSET Jobs, ports : [Keys -> Bindings]] :
        /\ w.max - w.min \in {-1, 1}
        /\ w.ports[<<"b", "y">>] = NoPort
        /\ \A k \in Keys : k[1] \notin w.jobs => w.ports[k] = NoPort}
=============================================================================
