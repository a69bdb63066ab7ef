--------------------------- MODULE MCVersionedApis ---------------------------
(***************************************************************************)
(* All three versions, each with one report in one namespace and one       *)
(* cluster report, over either store; the database starts at the lowest    *)
(* revision there is.                                                      *)
(***************************************************************************)
EXTENDS VersionedApis, StoredProperties

CONSTANTS ns1, cluster, a, t1, t2

MCVersions == {"v1alpha1", "v1alpha2", "v1beta1"}
MCScopes == MCVersions \X {cluster}
MCNamespaces == MCVersions \X {ns1, cluster}
MCNames == {a}
MCKeys == MCNamespaces \X MCNames
MCThreads == {t1, t2}
ThreadSymmetry == Permutations(Threads)

MCLabelMaps == {<< >>}
MCVerbs == AllVerbs
BothStores == BOOLEAN
=============================================================================
