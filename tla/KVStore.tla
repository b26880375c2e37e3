------------------------------- MODULE KVStore -------------------------------
(* The key-value store of maand (package kv) as operators.                     *)
(*                                                                            *)
(* A path is a key with its namespace.  A store is the working set of one      *)
(* command: a function from paths to entries, an entry of version 0 standing   *)
(* for a path the maps of Store do not hold.  The table key_value is a set of  *)
(* rows, one for each version that was saved.                                  *)
EXTENDS Integers, FiniteSets, TLC

CONSTANTS Paths,    \* namespace/key pairs
          Values,   \* plain values
          Empty,    \* the empty string
          Keep      \* MaxVersionsToKeep

ASSUME KVAssumption == Keep \in Nat /\ Empty \in Values

(* A stored value: the text itself, or, of EncryptPlaintext, the prefix enc:v1:
   and the text sealed with kv.key, which DecryptStoredValue opens again. *)
Stored         == [text : Values, sealed : BOOLEAN]
Plain(v)       == [text |-> v, sealed |-> FALSE]
Encrypted(v)   == [text |-> v, sealed |-> TRUE]
IsEncrypted(x) == x.sealed
Decrypted(x)   == x.text

Entry == [value : Stored, version : Nat, deleted : BOOLEAN, changed : BOOLEAN]
Row   == [path : Paths, value : Stored, version : Nat \ {0}, deleted : BOOLEAN, day : Nat]

NoEntry  == [value |-> Plain(Empty), version |-> 0, deleted |-> FALSE, changed |-> FALSE]
NewStore == [p \in Paths |-> NoEntry]

IsLive(e)    == e.version > 0 /\ ~e.deleted
Exists(s, p) == s[p].version > 0
Live(s, p)   == IsLive(s[p])

-----------------------------------------------------------------------------
(* Slip: a deleted key that is written again keeps its version. *)
PutReviving(e, x) ==
    [value |-> x, version |-> IF e.deleted THEN e.version ELSE e.version + 1,
     deleted |-> FALSE, changed |-> TRUE]

(* putValue of a value that differs from the stored one, of a new key, or of a
   deleted one: the entry gets the next version. *)
PutChanged(e, x) == [value |-> x, version |-> e.version + 1, deleted |-> FALSE, changed |-> TRUE]

(* The same value again changes nothing.  Every caller passes ttl 0. *)
PutValue(e, x) == IF IsLive(e) /\ e.value = x THEN e ELSE PutChanged(e, x)

DeleteEntry(e) == [e EXCEPT !.deleted = TRUE, !.changed = TRUE, !.version = @ + 1]

Put(s, p, v) == [s EXCEPT ![p] = PutValue(@, Plain(v))]

(* Slip: the secret is stored as it came. *)
PutSecretPlain(s, p, v) == Put(s, p, v)

(* PutSecret: a fresh nonce makes every ciphertext a new value. *)
PutSecret(s, p, v) == [s EXCEPT ![p] = PutChanged(@, Encrypted(v))]

(* Delete of an existing key, deleted or not. *)
Delete(s, p) == [s EXCEPT ![p] = DeleteEntry(@)]

(* PurgeNamespace of the namespaces that hold the paths P. *)
PurgePaths(s, P) == [p \in Paths |-> IF p \in P /\ Live(s, p) THEN DeleteEntry(s[p]) ELSE s[p]]

(* HasPendingChanges *)
Pending(s) == {p \in Paths : s[p].changed}

(* What a set of functions with different domains says. *)
Together(F) == [p \in UNION {DOMAIN f : f \in F} |-> (CHOOSE f \in F : p \in DOMAIN f)[p]]

(* syncKeyValues and syncNamespaceKeyValues: put what a namespace is to hold, and
   delete the other live keys among those the policy gives up. *)
Sync(s, new, scope) ==
    [p \in Paths |->
        LET e == s[p]
        IN  IF p \in DOMAIN new THEN PutValue(e, Plain(new[p]))
            ELSE IF p \in scope /\ IsLive(e) THEN DeleteEntry(e) ELSE e]

-----------------------------------------------------------------------------
(* LoadFromTransaction: the row with the highest version of each path. *)
Of(rows, p)     == {r \in rows : r.path = p}
Latest(rows, p) == CHOOSE r \in Of(rows, p) : \A q \in Of(rows, p) : q.version <= r.version

Load(rows) ==
    [p \in Paths |->
        IF Of(rows, p) = {} THEN NoEntry
        ELSE [value |-> Latest(rows, p).value, version |-> Latest(rows, p).version,
              deleted |-> Latest(rows, p).deleted, changed |-> FALSE]]

(* PersistToTransaction: a row for each pending entry, which is then clean. *)
Inserted(s, today) ==
    {[path |-> p, value |-> s[p].value, version |-> s[p].version,
      deleted |-> s[p].deleted, day |-> today] : p \in Pending(s)}

(* Slip: entries stay marked as changed. *)
CleanNothing(s) == s

Clean(s) ==
    [p \in Paths |-> LET e == s[p] IN IF e.changed THEN [e EXCEPT !.changed = FALSE] ELSE e]

(* Slip: the last row of a deleted key stays. *)
StaleKeepingTombstones(rows, retain, today) ==
    {r \in rows : LET latest == Latest(rows, r.path)
                  IN r.version < latest.version - Keep /\ latest.day < today - retain}

(* PurgeStaleVersions: of a path whose latest row is older than retain days,
   the versions below the last Keep, or all of them if it is deleted. *)
Stale(rows, retain, today) ==
    {r \in rows : LET latest == Latest(rows, r.path)
                  IN  /\ \/ r.version < latest.version - Keep
                         \/ latest.deleted
                      /\ latest.day < today - retain}

PurgeStale(rows, retain, today) == rows \ Stale(rows, retain, today)
=============================================================================
