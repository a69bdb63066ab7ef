--------------------------- MODULE MCAskedReports ---------------------------
(***************************************************************************)
(* The instances of MCPolicyReportStore, with what each request asked for. *)
(***************************************************************************)
EXTENDS MCPolicyReportStore, AskedReports

\* Reports are interchangeable too: only the request says which one it is about.
ReportSymmetry == ThreadSymmetry \cup Permutations(Names)
=============================================================================
