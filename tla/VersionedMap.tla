---------------------------- MODULE VersionedMap ----------------------------
(* What the key-value store promises to whoever reads it between two commands, *)
(* however many of them run at once: a key is there with a version or not at   *)
(* all, whatever happens to it gives it a higher version, deletion included,   *)
(* and only a key that was deleted may be forgotten.                           *)
EXTENDS Integers

CONSTANTS Keys, Nothing

VARIABLE map    \* the latest entry of each key

Unwritten(e) == e = Nothing
NewerThan(e, f) == e.version > f.version

Init == \A k \in Keys : Unwritten(map[k]) \/ NewerThan(map[k], Nothing)

Touch(k)  == NewerThan(map'[k], map[k])
Forget(k) == map[k].deleted /\ Unwritten(map'[k])

Commit == \A k \in Keys : map'[k] = map[k] \/ Touch(k) \/ Forget(k)

Spec == Init /\ [][Commit]_map
=============================================================================
