------------------------------- MODULE KeyRing -------------------------------
(***************************************************************************)
(* The keys that credentials are encrypted with: which of the environment's   *)
(* keys a process loads, under which names, which of them it encrypts with,    *)
(* and what rows written by earlier processes need. Between two processes the   *)
(* operator edits the environment.                                          *)
(***************************************************************************)
EXTENDS Naturals

CONSTANTS Key,              \* key material
          Row               \* encrypted columns

NoKey == "none"
Slot == {"primary", "legacy", "v1", "v2"}
Version == Slot \cup {"kms"}

ASSUME KeyRingAssumption == NoKey \notin Key

VARIABLES
    env,            \* ENCRYPTION_KEY*: Slot -> Key or NoKey; "kms" is the wrapped key
    keys,           \* the process: Version -> Key or NoKey
    primaryKeyId,   \* Version, or NoKey while no process runs
    awaitingKmsUnwrap,
    rows,           \* Row -> [version, key]; version NoKey: the old format
    renamed         \* history: rows encrypted as "primary" with a key that was replaced

keyVars == <<env, keys, primaryKeyId, awaitingKmsUnwrap, rows, renamed>>

NoRow == [version |-> "empty", key |-> NoKey]

KeyRingTypeOK ==
    /\ env \in [Version -> Key \cup {NoKey}] /\ keys \in [Version -> Key \cup {NoKey}]
    /\ primaryKeyId \in Version \cup {NoKey} /\ awaitingKmsUnwrap \in BOOLEAN
    /\ rows \in [Row -> [version : Version \cup {NoKey, "empty"}, key : Key \cup {NoKey}]]
    /\ renamed \subseteq Row

NoKeys == [v \in Version |-> NoKey]

\* Rows of the time before versions were written with the only key.
KeyRingInit ==
    /\ env \in {[NoKeys EXCEPT !["legacy"] = k] : k \in Key}
    /\ rows \in [Row -> {NoRow, [version |-> NoKey, key |-> env["legacy"]]}]
    /\ keys = NoKeys /\ primaryKeyId = NoKey /\ awaitingKmsUnwrap = FALSE
    /\ renamed = {}

down == primaryKeyId = NoKey /\ ~awaitingKmsUnwrap

\* Mutant: with a wrapped key the others are not loaded.
wrappedOnly ==
    [v \in Version |-> IF v = "kms" \/ env["kms"] # NoKey THEN NoKey ELSE env[v]]

\* The numbered keys are read up to the first gap; the wrapped one comes later.
loadedKeys ==
    [v \in Version |-> IF v = "kms" \/ (v = "v2" /\ env["v1"] = NoKey) THEN NoKey
                       ELSE env[v]]

\* The first of the keys that were loaded, in the order of loadKeys.
firstKey ==
    IF loadedKeys["primary"] # NoKey THEN "primary"
    ELSE IF loadedKeys["legacy"] # NoKey THEN "legacy" ELSE "v1"

\* Without any key the process does not start.
loadKeys ==
    /\ down /\ keys' = loadedKeys
    /\ IF env["kms"] # NoKey
       THEN awaitingKmsUnwrap' = TRUE /\ primaryKeyId' = NoKey
       ELSE /\ loadedKeys # NoKeys /\ awaitingKmsUnwrap' = FALSE
            /\ primaryKeyId' = firstKey
    /\ UNCHANGED <<env, rows, renamed>>

initializeFromKms ==
    /\ awaitingKmsUnwrap
    /\ keys' = [keys EXCEPT !["kms"] = env["kms"]]
    /\ primaryKeyId' = "kms" /\ awaitingKmsUnwrap' = FALSE
    /\ UNCHANGED <<env, rows, renamed>>

\* Not before the wrapped key is there (getPrimaryKey).
encrypt(r) ==
    /\ primaryKeyId # NoKey /\ ~awaitingKmsUnwrap
    /\ rows' = [rows EXCEPT ![r] = [version |-> primaryKeyId, key |-> keys[primaryKeyId]]]
    /\ renamed' = renamed \ {r}
    /\ UNCHANGED <<env, keys, primaryKeyId, awaitingKmsUnwrap>>

\* The version of the row names the key, whichever that is by now.
decrypts(row) ==
    keys[IF row.version = NoKey THEN "legacy" ELSE row.version] = row.key

stop ==
    /\ ~down /\ keys' = NoKeys /\ primaryKeyId' = NoKey /\ awaitingKmsUnwrap' = FALSE
    /\ UNCHANGED <<env, rows, renamed>>

free(v) == env[v] = NoKey /\ (v = "v2" => env["v1"] # NoKey)

\* The operator adds a key while the process is down, the numbered ones in order.
addKey ==
    /\ down
    /\ \E v \in Version, k \in Key : free(v) /\ env' = [env EXCEPT ![v] = k]
    /\ UNCHANGED <<keys, primaryKeyId, awaitingKmsUnwrap, rows, renamed>>

\* The documented rotation: a new key becomes the primary one, the key it replaces is
\* kept as the next numbered one (.env.example:102-103).
rotatePrimary ==
    /\ down /\ env["primary"] # NoKey
    /\ \E v \in {"v1", "v2"}, k \in Key :
           /\ free(v) /\ \A x \in Version : env[x] # k
           /\ env' = [env EXCEPT !["primary"] = k, ![v] = env["primary"]]
    /\ renamed' = renamed \cup {r \in Row : rows[r].version = "primary"}
    /\ UNCHANGED <<keys, primaryKeyId, awaitingKmsUnwrap, rows>>

KeyRingNext ==
    \/ loadKeys \/ initializeFromKms \/ stop \/ addKey \/ rotatePrimary
    \/ \E r \in Row : encrypt(r)

KeyRingSpec == KeyRingInit /\ [][KeyRingNext]_keyVars

-----------------------------------------------------------------------------

\* A process that is up reads the rows that any earlier one wrote, whichever keys were
\* added since - those it encrypted with a key that is no longer the first, in the old
\* format, before or after a wrapped key - but for one sort: the rows encrypted as
\* "primary" before a documented rotation. Of these none can be read until it is written
\* anew, although the process has their key, since a row names its key by the slot
\* (against `existing rows keep working across upgrades and key rotations',
\* crypto.service.ts:7).
RowsReadable ==
    primaryKeyId # NoKey =>
        /\ \A r \in Row : rows[r] # NoRow => (decrypts(rows[r]) <=> r \notin renamed)
        /\ \A r \in renamed : \E v \in Version : keys[v] = rows[r].key
=============================================================================
