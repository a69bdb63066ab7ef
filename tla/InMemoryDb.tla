----------------------------- MODULE InMemoryDb -----------------------------
(***************************************************************************)
(* The map behind pkg/storage/inmemory/client.go.  Every method of the     *)
(* store takes the one mutex on entry and releases it on return, so a call *)
(* is one step: a relation between the map before and after it and the     *)
(* error it returns.  Revisions are parameters of the Go interface that    *)
(* this implementation never looks at, hence they do not appear here.      *)
(***************************************************************************)
CONSTANTS
    Keys,       \* the storage keys, one per report that can exist
    NoReport    \* what an absent entry of the Go map is written as

VARIABLE db     \* inMemoryDb.db

DbInit == db = [k \in Keys |-> NoReport]

Found(k) == db[k] # NoReport

\* Update written with the body of Put: the existence check is forgotten.
DbUpdateIsPut(k, v, err) ==
    /\ err = "none"
    /\ db' = [db EXCEPT ![k] = v]

\* Delete without its existence check, idempotent like the built-in delete.
DbDeleteIsIdempotent(k, err) ==
    /\ err = "none"
    /\ db' = [db EXCEPT ![k] = NoReport]

\* Delete that stores a zero value instead of removing the entry.
DbDeleteZeroes(k, err) ==
    \/ Found(k) /\ err = "none" /\ db' = [db EXCEPT ![k] = << >>]
    \/ ~Found(k) /\ err = "missing" /\ UNCHANGED db

DbCreate(k, v, err) ==
    \/ ~Found(k) /\ err = "none" /\ db' = [db EXCEPT ![k] = v]
    \/ Found(k) /\ err = "exists" /\ UNCHANGED db

DbUpdate(k, v, err) ==
    \/ Found(k) /\ err = "none" /\ db' = [db EXCEPT ![k] = v]
    \/ ~Found(k) /\ err = "missing" /\ UNCHANGED db

DbDelete(k, err) ==
    \/ Found(k) /\ err = "none" /\ db' = [db EXCEPT ![k] = NoReport]
    \/ ~Found(k) /\ err = "missing" /\ UNCHANGED db
=============================================================================
