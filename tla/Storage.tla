------------------------------- MODULE Storage -------------------------------
(***************************************************************************)
(* The store that NewStorage of pkg/storage/store.go hands to the REST     *)
(* storages: with --debug the map of InMemoryDb, otherwise the kine client,*)
(* a client of an etcd-like database.  The database gives every row the    *)
(* number of the transaction that wrote it last, its modification revision,*)
(* and carries out an update or a deletion only if the revision the caller *)
(* passes is that of the row.                                              *)
(***************************************************************************)
EXTENDS InMemoryDb, Naturals

CONSTANTS
    DebugFlags,     \* the values of --debug the server is started with
    FirstRevision   \* the revision of the database before any report is stored

ASSUME DebugAssumption == DebugFlags \subseteq BOOLEAN

\* etcd starts at revision 1, kine has written rows of its own by then.
ASSUME RevisionAssumption == FirstRevision \in Nat /\ FirstRevision >= 1

VARIABLES
    debug,      \* the --debug flag
    modified,   \* the modification revision of each row, 0 if there is none
    revision    \* the database's last revision

storageVars == <<debug, modified, revision>>

StorageInit ==
    /\ DbInit
    /\ debug \in DebugFlags
    /\ modified = [k \in Keys |-> 0]
    /\ revision = FirstRevision

-----------------------------------------------------------------------------
(* The kine client's operations.                                           *)

\* A transaction that leaves v in the row of k.
Commit(k, v) ==
    /\ db' = [db EXCEPT ![k] = v]
    /\ revision' = revision + 1
    /\ modified' = [modified EXCEPT ![k] = IF v = NoReport THEN 0 ELSE revision + 1]

Abort == UNCHANGED <<db, revision, modified>>

KineCreate(k, v, err) ==
    \/ ~Found(k) /\ err = "none" /\ Commit(k, v)
    \/ Found(k) /\ err = "exists" /\ Abort

KineUpdate(k, rev, v, err) ==
    \/ modified[k] = rev /\ err = "none" /\ Commit(k, v)
    \/ modified[k] # rev /\ err = "conflict" /\ Abort

KineDelete(k, rev, err) ==
    \/ modified[k] = rev /\ err = "none" /\ Commit(k, NoReport)
    \/ modified[k] # rev /\ err = "conflict" /\ Abort

-----------------------------------------------------------------------------
(* The client.Client interface, by the implementation NewStorage chose.    *)

StoreErrors == {"none", "exists", "missing", "conflict"}

StoreCreate(k, v, err) ==
    /\ \/ debug /\ DbCreate(k, v, err) /\ UNCHANGED <<modified, revision>>
       \/ ~debug /\ KineCreate(k, v, err)
    /\ UNCHANGED debug

StoreUpdate(k, rev, v, err) ==
    /\ \/ debug /\ DbUpdate(k, v, err) /\ UNCHANGED <<modified, revision>>
       \/ ~debug /\ KineUpdate(k, rev, v, err)
    /\ UNCHANGED debug

StoreDelete(k, rev, err) ==
    /\ \/ debug /\ DbDelete(k, err) /\ UNCHANGED <<modified, revision>>
       \/ ~debug /\ KineDelete(k, rev, err)
    /\ UNCHANGED debug
=============================================================================
