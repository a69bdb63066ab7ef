------------------------- MODULE MCPolicyReportStore -------------------------
(***************************************************************************)
(* Small instances of PolicyReportStore: one or two reports of one         *)
(* namespace, all with one label, and two or three threads.                *)
(***************************************************************************)
EXTENDS PolicyReportProperties

CONSTANTS ns1, a, b, t1, t2, t3

MCNamespaces == {ns1}
MCNames == {a, b}
TwoThreads == {t1, t2}
ThreeThreads == {t1, t2, t3}

\* Threads are interchangeable: no definition chooses among them.
ThreadSymmetry == Permutations(Threads)
TwoReports == {<<ns1, a>>, <<ns1, b>>}
OneReport == {<<ns1, a>>}

App(v) == [l \in {"app"} |-> v]
Unlabelled == << >>
OneLabelling == {App(1)}
Everything == {Unlabelled}

AllOperations == AllVerbs
NoApply == AllVerbs \ {"apply"}
=============================================================================
