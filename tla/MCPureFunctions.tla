--------------------------- MODULE MCPureFunctions ---------------------------
(***************************************************************************)
(* The functions without state, over all of their small inputs: lists of up*)
(* to MaxItems stored reports over two labels with two values each with    *)
(* every equality selector, each set of up to MaxItems storage keys, and   *)
(* each resolution up to MaxTimeout.                                       *)
(***************************************************************************)
EXTENDS ReportList, ReportKeys, ScrapeBuckets, FiniteSets

CONSTANTS MaxItems, MaxTimeout

VARIABLES labelsOf, selector, stored, timeout

vars == <<labelsOf, selector, stored, timeout>>

LabelMaps == UNION {[S -> {1, 2}] : S \in SUBSET {"app", "tier"}}

Versions == {"v1", "v2"}
Namespaces == {"n1", "n2"}
Names == {"a", "b"}

\* What a key stands for; a cluster report has no namespace.
Identities == Versions \X (Namespaces \cup {AllNamespaces}) \X Names

KeyOf(id) == IF id[2] = AllNamespaces THEN CpolrKey(id[1], id[3])
             ELSE PolrKey(id[1], id[2], id[3])

Init ==
    /\ labelsOf = << >> /\ selector \in LabelMaps
    /\ stored = {} /\ timeout = 2

\* The store holds one more report, listed last.
OneMoreReport ==
    /\ stored = {} /\ timeout = 2 /\ Len(labelsOf) < MaxItems
    /\ \E labels \in LabelMaps : labelsOf' = Append(labelsOf, labels)
    /\ UNCHANGED <<selector, stored, timeout>>

OneMoreKey ==
    /\ labelsOf = << >> /\ timeout = 2 /\ selector = << >>
    /\ Cardinality(stored) < MaxItems
    /\ \E id \in Identities : stored' = stored \cup {id}
    /\ UNCHANGED <<labelsOf, selector, timeout>>

\* The next whole millisecond.
LongerTimeout ==
    /\ labelsOf = << >> /\ stored = {} /\ selector = << >>
    /\ timeout < MaxTimeout /\ timeout' = timeout + 2
    /\ UNCHANGED <<labelsOf, selector, stored>>

Full == UNCHANGED vars

Next == OneMoreReport \/ OneMoreKey \/ LongerTimeout \/ Full

Spec == Init /\ [][Next]_vars

-----------------------------------------------------------------------------
(* A list with a selector is all of the stored reports or none of them.    *)
ListAllOrNothing == AllOrNothing(labelsOf, selector)

(* Every label in the map that the decoded items share has the value of    *)
(* the last item which carries it (listPolr, polr.go:335-341).             *)
ListLastWriterWins == LastWriterWins(labelsOf)

(* The selector restricts the list to the reports it matches.              *)
ListSelectorRestricts == SelectorRestricts(labelsOf, selector)

\* The keys that a List with this prefix returns.
Listed(prefix) == {id \in stored : HasPrefix(prefix, KeyOf(id))}

(* However many reports of whatever kind, version and namespace the one    *)
(* store holds, each has a key of its own and a list finds exactly the     *)
(* reports of its kind, version and namespace; a list over all namespaces  *)
(* finds none (polr.go:286-292, cpolr.go:271-277).                         *)
ListFindsItsOwn ==
    /\ Cardinality({KeyOf(id) : id \in stored}) = Cardinality(stored)
    /\ \A v \in Versions :
           /\ \A ns \in Namespaces :
                  Listed(PolrListKey(v, ns)) = {id \in stored : id[1] = v /\ id[2] = ns}
           /\ Listed(CpolrListKey(v)) = {id \in stored : id[1] = v /\ id[2] = AllNamespaces}
           /\ Listed(PolrListKey(v, AllNamespaces)) = {}

(* Buckets increase strictly whatever the timeout: below the first bucket, *)
(* on one, next to one, at and above the last (monitoring.go:26-43).       *)
BucketsIncrease == Increasing(timeout)

(* A bucket is at every resolution that the options accept, ten seconds or *)
(* more, and less than the shortest bucket, 5 ms, from any other.          *)
BucketAtTimeout == PinpointsTimeout(timeout)
=============================================================================
