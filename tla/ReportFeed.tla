----------------------------- MODULE ReportFeed -----------------------------
(***************************************************************************)
(* What the report storage promises its clients: a dictionary that every   *)
(* request reads or changes in one atomic step at the key it names, and a  *)
(* feed that carries each change before the request that made it is        *)
(* answered.  A request about a collection is a series of such steps.  In  *)
(* which order the feed carries the changes of different requests is not   *)
(* promised.                                                               *)
(***************************************************************************)
EXTENDS Naturals, Sequences

CONSTANTS
    Keys, Report, NoReport, Threads,
    Nothing,        \* no request, no event
    FalseClaims     \* an apply may announce a report that it did not store

VARIABLES
    db,         \* the dictionary
    asked,      \* asked[t]: the request of t, its last one once it is answered
    unsent,     \* unsent[t]: the change of t's request that is not in the feed
    log,        \* the feed
    writes,     \* the number of changes
    res         \* res[t]: the answer to t's request, "none" until it is given

vars == <<db, asked, unsent, log, writes, res>>

Init ==
    /\ db = [k \in Keys |-> NoReport]
    /\ asked = [t \in Threads |-> Nothing]
    /\ unsent = [t \in Threads |-> Nothing]
    /\ log = << >>
    /\ writes = 0
    /\ res = [t \in Threads |-> "none"]

Stored(k) == db[k] # NoReport

Busy(t) == asked[t] # Nothing /\ res[t] = "none"

\* t works on the request q: the one it has, or a new one when that is answered.
WorksOn(t, q) ==
    /\ q # Nothing
    /\ Busy(t) => q = asked[t]
    /\ asked' = [asked EXCEPT ![t] = q]

-----------------------------------------------------------------------------
(* Changes: at a key of the request, in the way it asks for.               *)

\* The request of t is not a dry run and names key k.
Asking(t, verbs, k) ==
    asked'[t].verb \in verbs /\ k \in asked'[t].keys /\ ~asked'[t].dry

\* A change of report k by t's request; its event is due.
Change(t, type, k) ==
    /\ unsent[t] = Nothing /\ unsent'[t] # Nothing
    /\ db' = [db EXCEPT ![k] = db'[k]]
    /\ writes' = writes + 1
    /\ unsent' = [unsent EXCEPT ![t] = [type |-> type, key |-> k,
           obj |-> unsent'[t].obj, seq |-> writes + 1, again |-> FALSE]]
    /\ res' = [res EXCEPT ![t] = "none"]
    /\ UNCHANGED log

Insert(t, k) ==
    /\ Asking(t, {"create"}, k)
    /\ ~Stored(k) /\ db'[k] \in Report /\ db'[k].rv = 1
    /\ db'[k].labels = asked'[t].labels
    /\ Change(t, "Added", k) /\ unsent'[t].obj = db'[k]

\* Nothing is promised of the version and the UID of the new report, nor that
\* an apply heeds that it is a dry run.
Replace(t, k) ==
    /\ \/ Asking(t, {"update"}, k)
       \/ asked'[t].verb = "apply" /\ k \in asked'[t].keys
    /\ Stored(k) /\ db'[k] \in Report
    /\ db'[k].labels = asked'[t].labels
    /\ Change(t, "Added", k) /\ unsent'[t].obj = db'[k]

\* The event shows some report, perhaps an earlier one than that removed.
Remove(t, k) ==
    /\ Asking(t, {"delete", "deletecollection"}, k)
    /\ Stored(k) /\ db'[k] = NoReport
    /\ Change(t, "Deleted", k) /\ unsent'[t].obj \in Report

\* An apply finds no report to replace and announces its own nevertheless.
Claim(t, k) ==
    /\ FalseClaims
    /\ asked'[t].verb = "apply" /\ k \in asked'[t].keys
    /\ ~Stored(k)
    /\ unsent[t] = Nothing /\ unsent'[t] # Nothing
    /\ unsent'[t].obj \in Report /\ unsent'[t].obj.labels = asked'[t].labels
    /\ unsent' = [unsent EXCEPT ![t] = [type |-> "Added", key |-> k,
           obj |-> unsent'[t].obj, seq |-> 0, again |-> FALSE]]
    /\ res' = [res EXCEPT ![t] = "none"]
    /\ UNCHANGED <<db, log, writes>>

-----------------------------------------------------------------------------
(* The feed.                                                               *)

\* The feed takes the event of t, which is the answer "ok" to its request; a
\* deletion of a collection comes a second time first.
Send(t) ==
    /\ unsent[t] # Nothing
    /\ log' = Append(log, unsent[t])
    /\ \/ unsent' = [unsent EXCEPT ![t] = Nothing]
       \/ /\ asked[t].verb = "deletecollection" /\ ~unsent[t].again
          /\ unsent' = [unsent EXCEPT ![t].again = TRUE]
    /\ res' = [res EXCEPT ![t] = IF unsent'[t] = Nothing THEN "ok" ELSE "none"]
    /\ UNCHANGED <<db, writes>>

\* A collection continues with its next deletion when the event is sent.
SendAndGoOn(t) ==
    /\ unsent[t] # Nothing /\ unsent[t].again
    /\ log' = Append(log, unsent[t])
    /\ unsent' = [unsent EXCEPT ![t] = Nothing]
    /\ res' = [res EXCEPT ![t] = "none"]
    /\ UNCHANGED <<db, writes>>

-----------------------------------------------------------------------------
(* Answers without a change.                                               *)

\* What an answer says of the request's report, or of one of its collection.
Justified(t, answer, q) ==
    CASE answer = "none" -> TRUE
      [] answer = "exists" ->
             q.verb = "create" /\ ~q.dry /\ \E k \in q.keys : Stored(k)
      [] answer = "missing" ->
             /\ q.verb \in {"update", "delete", "deletecollection"}
             /\ \E k \in q.keys : ~Stored(k)
      [] answer = "rejected" ->
             q.verb \in {"create", "apply"} \/ \E k \in q.keys : Stored(k)
      [] answer = "ok" ->
             \/ q.verb = "create" /\ q.dry
             \/ q.verb \in {"update", "delete"} /\ q.dry /\ \E k \in q.keys : Stored(k)
             \/ q.verb = "deletecollection" /\ ~Busy(t)

\* t is answered without a change, or gives no answer yet.
Answer(t, answer) ==
    /\ unsent[t] = Nothing
    /\ Justified(t, answer, asked'[t])
    /\ res' = [res EXCEPT ![t] = answer]
    /\ UNCHANGED <<db, unsent, log, writes>>

Answers == {"none", "ok", "exists", "missing", "rejected"}

Next ==
    \E t \in Threads :
        /\ WorksOn(t, asked'[t])
        /\ \/ \E k \in Keys : Insert(t, k) \/ Replace(t, k) \/ Remove(t, k) \/ Claim(t, k)
           \/ Send(t) \/ SendAndGoOn(t)
           \/ \E answer \in Answers : Answer(t, answer)

Spec == Init /\ [][Next]_vars
=============================================================================
