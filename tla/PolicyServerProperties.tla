------------------------- MODULE PolicyServerProperties -------------------------
(***************************************************************************)
(* What the clients of the server process can rely on.                     *)
(***************************************************************************)
EXTENDS PolicyServer

NoOneWorksOn(k) == \A t \in Threads : k \notin WorkingOn(t)

\* What a client knows of k is what is stored.
Same(known, k) ==
    /\ k \in DOMAIN known <=> Found(k)
    /\ Found(k) => known[k].uid = db[k].uid /\ known[k].rv = db[k].rv

UpToDate(i) == phase = "serving" /\ mode[i] = "follow" /\ seen[i] = Len(log)

(* An informer that has received every event since it began to watch knows *)
(* the reports of its namespace, except those whose changes fell between   *)
(* its list, or its last watch, and its watch.  Clients do not overlap     *)
(* requests on a report here (polr.go:56, 252).                            *)
InformedUnlessMissed ==
    \A i \in Informers, k \in Keys :
        UpToDate(i) /\ NoOneWorksOn(k) /\ k[1] = ScopeOf[i] /\ k \notin missed[i] =>
            Same(view[i], k)

(* A client that lists and then watches knows the stored reports: a watch  *)
(* is "a stream of add, update, and remove notifications" for "changes to  *)
(* the described resources", and "specify resourceVersion" says from where *)
(* (pkg/api/generated/openapi/zz_generated.openapi.go:1227).               *)
Informed ==
    \A i \in Informers, k \in Keys :
        UpToDate(i) /\ NoOneWorksOn(k) /\ k[1] = ScopeOf[i] => Same(view[i], k)

(* Every request that the server has begun is answered or ends with it.    *)
RequestsEnd == \A t \in Threads : pc[t] # "idle" ~> pc[t] = "idle"

(* If the process runs on, each informer gets to follow and to receive all *)
(* there is, and from then on knows what it has not missed.                *)
InformersConverge ==
    <>[](phase = "serving") =>
        \A i \in Informers : <>[](/\ UpToDate(i)
            /\ \A k \in Keys : k[1] = ScopeOf[i] => k \in missed[i] \/ Same(view[i], k))
=================================================================================
