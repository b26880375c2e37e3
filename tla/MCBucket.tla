------------------------------ MODULE MCBucket -------------------------------
(* The databases that init has to upgrade. *)
EXTENDS Bucket

(* Tables as some earlier binary left them: the columns that were added one by one
   all there or not, and the columns of a rollout under their old names, their new
   names, both or none, with an operator's value or the default. *)
Old(tables, version, added, upgrades, starts, view) ==
    [there |-> TRUE, tables |-> tables, version |-> version, rows |-> <<0>>,
     views |-> [v \in Views |-> view],
     cols |-> [c \in Columns |->
        IF TableOf[c] \notin tables THEN "missing"
        ELSE CASE c \in AddedColumns -> added
               [] c = "max_concurrent_upgrades" -> upgrades[1]
               [] c = "update_parallel_count" -> upgrades[2]
               [] c = "max_concurrent_starts" -> starts[1]
               [] c = "deploy_parallel_count" -> starts[2]]]

Rollouts == {<<"missing", "missing">>, <<"missing", "set">>, <<"set", "missing">>,
             <<"set", "default">>, <<"default", "set">>}

(* Versions 0 (before there were any), 2 to 4, which are renumbered, and one of a
   later binary; and an empty maand.db. *)
MCLegacies ==
    {Old(Tables, version, added, upgrades, starts, view) :
        version \in {0, 4, 5}, added \in {"missing", "set"}, upgrades \in Rollouts,
        starts \in {<<"missing", "missing">>, <<"missing", "set">>}, view \in {"missing", "stale"}}
    \cup {Old({"allocations"}, 0, "missing", <<"missing", "missing">>,
              <<"missing", "missing">>, "missing"),
          [NoDatabase EXCEPT !.there = TRUE]}
=============================================================================
