-------------------------- MODULE StoredProperties --------------------------
(***************************************************************************)
(* What the storages guarantee over the store they were given, in          *)
(* particular over kine, where the revision a handler passes is compared   *)
(* with one that the database has assigned.                                *)
(***************************************************************************)
EXTENDS StoredReports, PolicyReportProperties

StoredStages == Stages \cup {"recreate"}
StoredOutcomes == Outcomes \cup {"conflict"}

(* Types, and what every stage knows of the report it works on: a deletion *)
(* has the report that was found, an update of a cluster report starts     *)
(* from a report with version 1 (cpolr.go:333).                            *)
StoredTypeOK ==
    /\ db \in [Keys -> Report \cup {NoReport}]
    /\ debug \in BOOLEAN /\ revision \in Nat /\ modified \in [Keys -> 0..revision]
    /\ pc \in [Threads -> StoredStages] /\ res \in [Threads -> StoredOutcomes]
    /\ \A t \in Threads : pc[t] # "idle" => req[t] \in Request
    /\ \A t \in Threads : pc[t] \in {"reread", "update", "apply", "delete", "recreate"} =>
           req[t].obj \in Report
    /\ log \in Seq(Event) /\ writes \in Nat /\ calls \in Nat

(* The resource version of a report lags behind the revision of its row in *)
(* kine, and a deletion under way holds a version behind it too: handlers  *)
(* count the updates of a report from 1, the database counts all of its    *)
(* transactions (kine/client.go:30, polr.go:380, 387).                     *)
VersionsLagBehind ==
    ~debug => /\ \A k \in Keys : Found(k) => db[k].rv < modified[k]
              /\ \A t \in Threads : pc[t] = "delete" => req[t].obj.rv < modified[req[t].key]

(* A report kept by kine cannot be deleted through the API: Delete passes  *)
(* the report's own version for the revision, and that is never the row's. *)
KineReportsNeverVanish == [][~debug => \A k \in Keys : ~Vanishes(k)]_storedVars

(* Nor can it be changed, if the database has counted anything before the  *)
(* first report (polr.go:371, 380).                                        *)
KineReportsNeverChange == [][~debug => \A k \in Keys : ~Changes(k)]_storedVars

(* With kine concurrent updates of one report do not overwrite each other: *)
(* an update takes effect on the very report it took its version from.     *)
KineUpdatesFollow ==
    [][\A k \in Keys : ~debug /\ Changes(k) => db'[k].rv = db[k].rv + 1]_storedVars

(* No request ever makes a cluster report appear, in either store, since   *)
(* createCpolr updates a row that is not there (cpolr.go:341).             *)
ClusterReportsNeverAppear == [][\A k \in CpolrKeys : ~Appears(k)]_storedVars

(* Watchers of cluster reports are never told anything: a create fails at  *)
(* the row that is not there, an update or a deletion finds no report, a   *)
(* collection is empty, and an apply fails where the API server builds no  *)
(* object for a missing report (cpolr.go:127-131, 341).                    *)
ClusterEventsNeverSent == \A i \in DOMAIN log : log[i].key \notin CpolrKeys
=============================================================================
