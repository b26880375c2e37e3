---------------------------- MODULE MCKVSessions ----------------------------
(* Two shells and one or two jobs.  Scripts write the name of their event, so
   that a row tells who wrote it. *)
EXTENDS KVSessions, TLC

MCValues == Events \cup {"", " ", "default", "v1"}
MCSays   == [e \in Events |-> {e}]
MCRetain == [k \in {"build", "gc"} |-> IF k = "build" THEN 1 ELSE 0]

(* Job a on two workers, then on one, then on none; b demands it and is not
   placed. *)
MCDemands == {<<"b", "a">>}
MCFlags == {f \in [Slots -> {"none", "active"}] :
               /\ f[<<"a", "w2">>] = "active" => f[<<"a", "w1">>] = "active"
               /\ \A w \in Workers : f[<<"b", w>>] = "none"}
MCOrder == <<"a">>
MCPayloads == {<<"put", Vars("a")>>, <<"delete", Vars("a")>>, <<"put secret", Secrets("a")>>}

Symmetry == Permutations(Procs)
=============================================================================
