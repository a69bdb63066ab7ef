--------------------------- MODULE MCWatchedReports ---------------------------
(***************************************************************************)
(* One or two reports of a namespace and a watcher of them.                *)
(***************************************************************************)
EXTENDS WatchedProperties

CONSTANTS ns1, a, b, t1, t2, w1

MCNamespaces == {ns1}
MCNames == {a, b}
OneReport == {<<ns1, a>>}
TwoReports == {<<ns1, a>>, <<ns1, b>>}
MCThreads == {t1, t2}
MCWatchers == {w1}
MCLabelMaps == {<< >>}

App(v) == [l \in {"app"} |-> v]
TwoLabellings == {App(1), App(2)}
SelectApp1 == {App(1)}
MCVerbs == AllVerbs
NoApply == AllVerbs \ {"apply"}

\* Threads are interchangeable: no definition chooses among them.
ThreadSymmetry == Permutations(Threads)
=============================================================================
