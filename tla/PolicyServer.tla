---------------------------- MODULE PolicyServer ----------------------------
(***************************************************************************)
(* The server process of cmd/app and pkg/server with the storages it       *)
(* installs, and informers: clients that list the reports of a namespace   *)
(* and then watch, as controllers do.  A start builds the options, the     *)
(* configuration, the store and the storages, and serves until the process *)
(* ends; the map of --debug, the broadcasters and the requests under way   *)
(* end with it, the informers and what they know do not.  A broadcaster is *)
(* the log that Broadcaster implements (EventLog).                         *)
(***************************************************************************)
EXTENDS StoredReports

CONSTANTS
    Endpoints,      \* utils.Endpoints: of the database, {} in the code
    Informers,
    ScopeOf,        \* ScopeOf[i]: the namespace informer i lists
    MaxStarts,      \* bound: starts of the process
    MaxDrops        \* bound: watch connections lost while the server runs

VARIABLES
    phase,      \* what the process is doing
    starts,     \* how often it was started
    mode,       \* mode[i]: the request informer i makes next, or "follow"
    view,       \* view[i]: the reports i knows, a function from their keys
    seen,       \* seen[i]: how much of the log i has received or was listed
    missed,     \* missed[i]: reports that changed unseen by i since it listed
    drops       \* how many connections were lost

informerVars == <<mode, view, seen, missed, drops>>
processVars == <<phase, starts>>
serverVars == <<storedVars, informerVars, processVars>>

NoReports == [k \in Keys |-> NoReport]

ServerInit ==
    /\ StoredInit
    /\ phase = "down" /\ starts = 0 /\ drops = 0
    /\ mode = [i \in Informers |-> "list"]
    /\ view = [i \in Informers |-> << >>]
    /\ seen = [i \in Informers |-> 0]
    /\ missed = [i \in Informers |-> {}]

-----------------------------------------------------------------------------
(* Start.                                                                  *)

Fail == phase' = "down"

\* runCommand: --version or invalid options end it.
RunCommand ==
    /\ phase = "down" /\ starts < MaxStarts
    /\ starts' = starts + 1
    /\ Fail \/ phase' = "validated"
    /\ UNCHANGED <<storedVars, informerVars>>

\* Certificates, the options of the API server, the configuration of its client.
ServerConfig ==
    /\ phase = "validated"
    /\ Fail \/ phase' = "configured"
    /\ UNCHANGED <<storedVars, informerVars, starts>>

\* The kine client is not made without endpoints; no option adds any.
KineOpens == Endpoints # {}

\* Config.Complete as far as NewStorage: metrics, generic server, store.
OpenStore ==
    /\ phase = "configured"
    /\ \/ Fail
       \/ (debug \/ KineOpens) /\ phase' = "stored"
    /\ UNCHANGED <<storedVars, informerVars, starts>>

\* The rest of Complete, Install and RegisterProbes, then RunUntil.
InstallAndRun ==
    /\ phase = "stored"
    /\ Fail \/ phase' = "serving"
    /\ UNCHANGED <<storedVars, informerVars, starts>>

\* The process ends, between any two steps: requests and broadcasters with it.
\* An informer resumes with the request that fails, usually its watch.
Stop ==
    /\ phase = "serving"
    /\ Fail
    /\ pc' = [t \in Threads |-> "idle"] /\ req' = [t \in Threads |-> NoRequest]
    /\ todo' = [t \in Threads |-> NoKeys] /\ res' = [t \in Threads |-> "none"]
    /\ log' = << >>
    /\ db' = IF debug THEN NoReports ELSE db
    /\ mode' = [i \in Informers |-> IF mode[i] = "follow" THEN "watch" ELSE mode[i]]
    /\ seen' = [i \in Informers |-> 0]
    /\ missed' = [i \in Informers |-> Keys]
    /\ UNCHANGED <<writes, calls, storageVars, starts, view, drops>>

-----------------------------------------------------------------------------
(* Informers.                                                              *)

\* List with no selector, decoded the way listPolr does.  What is sent from
\* now on is newer than the list or repeats it.
ListReports(i) ==
    /\ phase = "serving" /\ mode[i] = "list"
    /\ \E order \in Orders({k \in KeysOf(ScopeOf[i]) : Found(k)}) :
           LET labelsOf == [n \in DOMAIN order |-> db[order[n]].labels]
               Listed(n) == [db[order[n]] EXCEPT !.labels = DecodedLabels(labelsOf, n)]
           IN  view' = [view EXCEPT ![i] = [k \in {order[n] : n \in DOMAIN order} |->
                   Listed(CHOOSE n \in DOMAIN order : order[n] = k)]]
    /\ mode' = [mode EXCEPT ![i] = "watch"]
    /\ seen' = [seen EXCEPT ![i] = Len(log)]
    /\ missed' = [missed EXCEPT ![i] = {}]
    /\ UNCHANGED <<storedVars, processVars, drops>>

\* Watch looks at nothing in its request: events begin with the next one, of
\* any namespace.
WatchReports(i) ==
    /\ phase = "serving" /\ mode[i] = "watch"
    /\ mode' = [mode EXCEPT ![i] = "follow"]
    /\ seen' = [seen EXCEPT ![i] = Len(log)]
    /\ missed' = [missed EXCEPT ![i] = @ \cup {log[n].key : n \in (seen[i] + 1)..Len(log)}]
    /\ UNCHANGED <<storedVars, processVars, view, drops>>

\* What a client knows after an event.
Removed(known, k) == [j \in DOMAIN known \ {k} |-> known[j]]
Stored(known, k, obj) == [j \in DOMAIN known \cup {k} |-> IF j = k THEN obj ELSE known[j]]

ReceiveEvent(i) ==
    LET e == log[seen[i] + 1]
    IN  /\ mode[i] = "follow" /\ seen[i] < Len(log)
        /\ view' = [view EXCEPT ![i] = IF e.type = "Deleted" THEN Removed(@, e.key)
                                                          ELSE Stored(@, e.key, e.obj)]
        /\ seen' = [seen EXCEPT ![i] = @ + 1]
        /\ missed' = [missed EXCEPT ![i] = @ \ {e.key}]
        /\ UNCHANGED <<storedVars, processVars, mode, drops>>

\* The watch connection ends.  The client watches again from the version it
\* has, or lists again.
LoseConnection(i) ==
    /\ mode[i] = "follow" /\ drops < MaxDrops
    /\ drops' = drops + 1
    /\ \E next \in {"watch", "list"} : mode' = [mode EXCEPT ![i] = next]
    /\ UNCHANGED <<storedVars, processVars, view, seen, missed>>

-----------------------------------------------------------------------------
ServeRequests(t) ==
    /\ phase = "serving"
    /\ ServePolr(t) \/ ServeCpolr(t)
    /\ UNCHANGED <<informerVars, processVars>>

Inform(i) == ListReports(i) \/ WatchReports(i) \/ ReceiveEvent(i)

\* The bounds are reached and nothing is under way.
Settled ==
    /\ phase \in {"down", "serving"}
    /\ phase = "down" => starts = MaxStarts
    /\ phase = "serving" => /\ calls = MaxCalls
                            /\ \A t \in Threads : pc[t] = "idle"
                            /\ \A i \in Informers : mode[i] = "follow" /\ seen[i] = Len(log)
    /\ UNCHANGED serverVars

ServerNext ==
    \/ RunCommand \/ ServerConfig \/ OpenStore \/ InstallAndRun \/ Stop
    \/ \E t \in Threads : ServeRequests(t)
    \/ \E i \in Informers : Inform(i) \/ LoseConnection(i)
    \/ Settled

ServerSpec == ServerInit /\ [][ServerNext]_serverVars

(***************************************************************************)
(* The goroutine of a request that has begun runs on, and a client that is *)
(* behind carries on.  No client has to make a request, nothing makes the  *)
(* process stop, and nothing in the code starts it again.                  *)
(***************************************************************************)
FairServerSpec ==
    /\ ServerSpec
    /\ \A t \in Threads : WF_serverVars(pc[t] # "idle" /\ ServeRequests(t))
    /\ \A i \in Informers : WF_serverVars(Inform(i))
=============================================================================
