----------------------------- MODULE ReportKeys -----------------------------
(***************************************************************************)
(* The storage keys that key and keyForList of every storage format, as    *)
(* sequences of path segments.  A list prefix ends in a slash, so the store*)
(* compares whole segments.                                                *)
(***************************************************************************)
EXTENDS Naturals, Sequences

PolrKey(version, namespace, name) ==
    <<"apis", version, "namespaces", namespace, "policyreports", name>>

PolrListKey(version, namespace) ==
    <<"apis", version, "namespaces", namespace, "policyreports">>

CpolrKey(version, name) == <<"apis", version, "clusterpolicyreports", name>>

CpolrListKey(version) == <<"apis", version, "clusterpolicyreports">>

\* The namespace is left out of the list prefix.
PrefixOfAllNamespaces(prefix, key) ==
    Len(prefix) <= Len(key) /\ SubSeq(key, 1, 3) = SubSeq(prefix, 1, 3)

\* strings.HasPrefix, as List of the store applies it.
HasPrefix(prefix, key) ==
    Len(prefix) <= Len(key) /\ \A i \in 1..Len(prefix) : prefix[i] = key[i]

\* genericapirequest.NamespaceValue of a request on all namespaces.
AllNamespaces == ""
=============================================================================
