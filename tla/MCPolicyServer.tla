--------------------------- MODULE MCPolicyServer ---------------------------
(***************************************************************************)
(* One report in each of two namespaces and one informer on the first.     *)
(***************************************************************************)
EXTENDS PolicyServerProperties

CONSTANTS ns1, ns2, a, t1, t2, i1

MCNamespaces == {ns1, ns2}
MCNames == {a}
MCKeys == MCNamespaces \X MCNames
MCThreads == {t1, t2}
MCInformers == {i1}
MCScopeOf == [i \in MCInformers |-> ns1]
MCLabelMaps == {<< >>}
MCVerbs == AllVerbs
MCDebug == BOOLEAN
=============================================================================
