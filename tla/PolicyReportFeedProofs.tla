----------------------- MODULE PolicyReportFeedProofs -----------------------
(***************************************************************************)
(* The handlers implement ReportFeed: what a request changes, announces    *)
(* and answers is what it asked for, for any number of threads, reports    *)
(* and requests.                                                           *)
(***************************************************************************)
EXTENDS AskedReports, PolicyReportProofs

-----------------------------------------------------------------------------
(* What is remembered of a request agrees with what its handler works on.  *)

Remembers(t) ==
    /\ pc[t] # "idle" <=> asked[t] # NoRequest /\ res[t] = "none"
    /\ pc[t] # "idle" =>
           /\ asked[t].verb = req[t].verb
           /\ asked[t].dry = req[t].dry
           /\ req[t].key \in asked[t].keys
    /\ pc[t] # "idle" /\ req[t].verb = "deletecollection" =>
           \A i \in DOMAIN todo[t] : todo[t][i] \in asked[t].keys
    /\ pc[t] \in {"reread", "update", "apply"} => req[t].obj.labels = asked[t].labels

AskedInv ==
    /\ asked \in [Threads -> Question \cup {NoRequest}]
    /\ \A t \in Threads : Remembers(t)

\* What holds before a step.
Before == TypeOK /\ AllSuit /\ AskedInv

\* The other threads are left alone.
OthersRest(t) ==
    \A u \in Threads \ {t} :
        /\ pc'[u] = pc[u] /\ req'[u] = req[u] /\ todo'[u] = todo[u] /\ res'[u] = res[u]
        /\ asked'[u] = asked[u]

\* A step of t is one of ReportFeed.
FeedOf(t) ==
    /\ asked' \in [Threads -> Question \cup {NoRequest}]
    /\ OthersRest(t) /\ Remembers(t)' /\ Feed!Next

-----------------------------------------------------------------------------
(* The request of a step: a new one, or the one the thread has.            *)

\* t works on q in this step, a new request if it is idle.
Handles(t, q) ==
    /\ q \in Question
    /\ Asks(t, q)
    /\ pc[t] # "idle" => q = asked[t]

LEMMA HandlesWorks ==
    ASSUME Before, NEW t \in Threads, NEW q, Handles(t, q)
    PROVE  /\ asked' \in [Threads -> Question \cup {NoRequest}]
           /\ \A u \in Threads \ {t} : asked'[u] = asked[u]
           /\ asked'[t] = q /\ q # NoRequest
           /\ Feed!WorksOn(t, asked'[t])
           /\ Feed!Busy(t) <=> pc[t] # "idle"
<1>1. asked \in [Threads -> Question \cup {NoRequest}] /\ Remembers(t)
  BY DEF Before, AskedInv
<1>2. asked'[t] = q /\ q # NoRequest
  BY <1>1, QuestionAssumption DEF Handles, Asks
<1>3. Feed!Busy(t) <=> pc[t] # "idle"
  BY <1>1, QuestionAssumption DEF Handles, Asks, Feed!Busy, Remembers
<1>4. Feed!WorksOn(t, q)
  BY <1>2, <1>3 DEF Feed!WorksOn, Handles, Asks
<1>5. QED
  BY <1>1, <1>2, <1>3, <1>4 DEF Handles, Asks

\* A request that t has when it makes another call.
LEMMA KeepsHandling ==
    ASSUME Before, NEW t \in Threads, pc[t] # "idle", UNCHANGED asked
    PROVE  Handles(t, asked[t])
<1>1. asked \in [Threads -> Question \cup {NoRequest}] /\ Remembers(t)
  BY DEF Before, AskedInv
<1>2. asked[t] \in Question
  BY <1>1 DEF Remembers
<1>3. [asked EXCEPT ![t] = asked[t]] = asked
  BY <1>1
<1>4. QED
  BY <1>2, <1>3 DEF Handles, Asks

LEMMA StartsHandling ==
    ASSUME NEW t \in Threads, NEW verb \in AllVerbs, NEW ks \in SUBSET Keys,
           NEW labels \in LabelMaps \cup {NoLabels}, NEW dry \in BOOLEAN,
           Asks(t, Ask(verb, ks, labels, dry)), pc[t] = "idle"
    PROVE  Handles(t, Ask(verb, ks, labels, dry))
  BY DEF Handles, Ask, Question

-----------------------------------------------------------------------------
(* The kinds of step.                                                      *)

LEMMA OthersKeepUnsent ==
    ASSUME NEW t \in Threads, OthersRest(t)
    PROVE  \A u \in Threads \ {t} : Unsent(u)' = Unsent(u)
  BY DEF OthersRest, Unsent

LEMMA NothingUnsent ==
    ASSUME NEW t \in Threads, ~Announcing(t)
    PROVE  Unsent(t) = NoRequest
  BY DEF Unsent, Announcing

LEMMA NothingUnsentThen ==
    ASSUME NEW t \in Threads, ~Announcing(t)'
    PROVE  Unsent(t)' = NoRequest
  BY DEF Unsent, Announcing

\* What a step of t that ends or continues its request does to the threads.
LEMMA ReplyRests ==
    ASSUME Before, NEW t \in Threads, NEW q, Handles(t, q),
           NEW answer \in Outcomes \ {"none"}, Reply(t, answer)
    PROVE  /\ OthersRest(t) /\ Remembers(t)' /\ pc'[t] = "idle"
           /\ res' = [res EXCEPT ![t] = answer]
<1>1. \A u \in Threads \ {t} : asked'[u] = asked[u]
  BY HandlesWorks
<1>2. OthersRest(t) /\ pc'[t] = "idle" /\ res' = [res EXCEPT ![t] = answer]
  BY <1>1 DEF Before, TypeOK, ThreadsOK, Reply, OthersRest
<1>3. res'[t] # "none"
  BY <1>2 DEF Before, TypeOK, ThreadsOK
<1>4. QED
  BY <1>2, <1>3 DEF Remembers

LEMMA ContinueRests ==
    ASSUME Before, NEW t \in Threads, NEW q, Handles(t, q),
           NEW stage, NEW r, Continue(t, stage, r), stage # "idle",
           q.verb = r.verb, q.dry = r.dry, r.key \in q.keys,
           q.verb = "deletecollection" => pc[t] # "idle",
           stage \in {"reread", "update", "apply"} => r.obj.labels = q.labels
    PROVE  /\ OthersRest(t) /\ Remembers(t)' /\ pc'[t] = stage /\ req'[t] = r
           /\ res' = [res EXCEPT ![t] = "none"]
<1>1. /\ \A u \in Threads \ {t} : asked'[u] = asked[u]
      /\ asked'[t] = q /\ q # NoRequest
  BY HandlesWorks
<1>2. /\ OthersRest(t) /\ pc'[t] = stage /\ req'[t] = r /\ todo'[t] = todo[t]
      /\ res' = [res EXCEPT ![t] = "none"] /\ res'[t] = "none"
  BY <1>1 DEF Before, TypeOK, ThreadsOK, Continue, OthersRest
<1>3. r.verb = "deletecollection" => \A i \in DOMAIN todo'[t] : todo'[t][i] \in q.keys
  BY <1>2 DEF Handles, Before, AskedInv, Remembers
<1>4. QED
  BY <1>1, <1>2, <1>3 DEF Remembers

LEMMA NextItemRests ==
    ASSUME Before, NEW t \in Threads, NEW q, Handles(t, q),
           NEW items, NextItem(t, items), \A i \in DOMAIN items : items[i] \in q.keys,
           q.verb = "deletecollection", ~q.dry
    PROVE  /\ OthersRest(t) /\ Remembers(t)' /\ pc'[t] = "collect"
           /\ res' = [res EXCEPT ![t] = "none"]
<1>1. /\ \A u \in Threads \ {t} : asked'[u] = asked[u]
      /\ asked'[t] = q /\ q # NoRequest
  BY HandlesWorks
<1>2. PICK i \in DOMAIN items :
          /\ pc' = [pc EXCEPT ![t] = "collect"]
          /\ req' = [req EXCEPT ![t] = NewRequest("deletecollection", items[i], FALSE, NoReport)]
          /\ todo' = [todo EXCEPT ![t] = [j \in DOMAIN items \ {i} |-> items[j]]]
          /\ res' = [res EXCEPT ![t] = "none"]
  BY DEF NextItem
<1>3. OthersRest(t) /\ pc'[t] = "collect" /\ res'[t] = "none"
  BY <1>1, <1>2 DEF Before, TypeOK, ThreadsOK, OthersRest
<1>4. req'[t].verb = "deletecollection" /\ ~req'[t].dry /\ req'[t].key = items[i]
  BY <1>2 DEF Before, TypeOK, ThreadsOK, NewRequest
<1>5. \A j \in DOMAIN todo'[t] : todo'[t][j] \in q.keys
  BY <1>2 DEF Before, TypeOK, ThreadsOK
<1>6. req'[t].dry = q.dry
  BY <1>4, <1>2 DEF Before, TypeOK, ThreadsOK, NewRequest, Handles, Question
<1>7. QED
  BY <1>1, <1>2, <1>3, <1>4, <1>5, <1>6 DEF Remembers

\* An answer, or none yet, and no change.
LEMMA AnswerFeeds ==
    ASSUME Before, NEW t \in Threads, NEW q, Handles(t, q),
           NEW answer \in Outcomes, OthersRest(t), Remembers(t)',
           ~Announcing(t), ~Announcing(t)', UNCHANGED <<db, log, writes>>,
           res' = [res EXCEPT ![t] = answer], Feed!Justified(t, answer, q)
    PROVE  FeedOf(t)
<1>1. [u \in Threads |-> Unsent(u)]' = [u \in Threads |-> Unsent(u)]
  BY OthersKeepUnsent, NothingUnsent, NothingUnsentThen
<1>2. asked'[t] = q /\ Feed!WorksOn(t, asked'[t])
  BY HandlesWorks
<1>3. Feed!Answer(t, answer)
  BY <1>1, <1>2, NothingUnsent DEF Feed!Answer
<1>4. Feed!Next
  BY <1>2, <1>3 DEF Feed!Next, Feed!Answers, Outcomes
<1>5. QED
  BY <1>4, HandlesWorks DEF FeedOf

LEMMA ReplyFeeds ==
    ASSUME Before, NEW t \in Threads, NEW q, Handles(t, q),
           NEW answer \in Outcomes \ {"none"}, Reply(t, answer),
           ~Announcing(t), UNCHANGED <<db, log, writes>>, Feed!Justified(t, answer, q)
    PROVE  FeedOf(t)
<1>1. /\ OthersRest(t) /\ Remembers(t)' /\ pc'[t] = "idle"
      /\ res' = [res EXCEPT ![t] = answer]
  BY ReplyRests
<1>2. QED
  BY <1>1, AnswerFeeds DEF Announcing

LEMMA ContinueFeeds ==
    ASSUME Before, NEW t \in Threads, NEW q, Handles(t, q),
           NEW stage, NEW r, Continue(t, stage, r),
           stage \notin {"idle", "announce", "announceAgain"},
           q.verb = r.verb, q.dry = r.dry, r.key \in q.keys,
           q.verb = "deletecollection" => pc[t] # "idle",
           stage \in {"reread", "update", "apply"} => r.obj.labels = q.labels,
           ~Announcing(t), UNCHANGED <<db, log, writes>>
    PROVE  FeedOf(t)
<1>1. /\ OthersRest(t) /\ Remembers(t)' /\ pc'[t] = stage
      /\ res' = [res EXCEPT ![t] = "none"]
  BY ContinueRests
<1>2. Feed!Justified(t, "none", q)
  BY DEF Feed!Justified
<1>3. QED
  BY <1>1, <1>2, AnswerFeeds DEF Announcing, Outcomes

LEMMA NextItemFeeds ==
    ASSUME Before, NEW t \in Threads, NEW q, Handles(t, q),
           NEW items, NextItem(t, items), \A i \in DOMAIN items : items[i] \in q.keys,
           q.verb = "deletecollection", ~q.dry,
           ~Announcing(t), UNCHANGED <<db, log, writes>>
    PROVE  FeedOf(t)
<1>1. /\ OthersRest(t) /\ Remembers(t)' /\ pc'[t] = "collect"
      /\ res' = [res EXCEPT ![t] = "none"]
  BY NextItemRests
<1>2. Feed!Justified(t, "none", q)
  BY DEF Feed!Justified
<1>3. QED
  BY <1>1, <1>2, AnswerFeeds DEF Announcing, Outcomes

\* A write replaces one report and leaves its event unsent.
LEMMA WriteFeeds ==
    ASSUME Before, NEW t \in Threads, NEW q, Handles(t, q),
           NEW r \in Request, Written(t, r), ~Announcing(t),
           q.verb = r.verb, q.dry = r.dry, r.key \in q.keys,
           q.verb = "deletecollection" => pc[t] # "idle",
           NEW v, db' = [db EXCEPT ![r.key] = v], UNCHANGED log
    PROVE  /\ OthersRest(t) /\ Remembers(t)'
           /\ asked'[t] = q /\ Feed!WorksOn(t, asked'[t])
           /\ Feed!Change(t, EventType(r), r.key)
           /\ [u \in Threads |-> Unsent(u)]'[t].obj = r.obj
           /\ db'[r.key] = v
<1> DEFINE s == [r EXCEPT !.seq = writes + 1]
           e == EventOf(s, FALSE)
<1>1. /\ s \in Request /\ s.key = r.key /\ s.verb = r.verb /\ s.obj = r.obj
      /\ s.seq = writes + 1 /\ s.dry = r.dry /\ r.key \in Keys
  BY DEF Before, TypeOK, Request
<1>2. Continue(t, "announce", s) /\ writes' = writes + 1
  BY DEF Written
<1>3. e = [type |-> EventType(r), key |-> r.key, obj |-> r.obj, seq |-> writes + 1,
           again |-> FALSE]
  BY <1>1 DEF EventOf, EventType
<1>4. e \in Event /\ e # NoRequest
  BY <1>1, EventsHaveType, NoRequestAssumption
<1> HIDE DEF s, e
<1>5. /\ OthersRest(t) /\ Remembers(t)' /\ pc'[t] = "announce" /\ req'[t] = s
      /\ res' = [res EXCEPT ![t] = "none"]
  BY <1>1, <1>2, ContinueRests
<1>6. Unsent(t)' = e
  BY <1>5 DEF Unsent, e
<1>7. [u \in Threads |-> Unsent(u)]' = [[u \in Threads |-> Unsent(u)] EXCEPT ![t] = e]
  BY <1>5, <1>6, OthersKeepUnsent
<1>8. e.obj = r.obj
  BY <1>3
<1>9. db'[r.key] = v /\ db' = [db EXCEPT ![r.key] = db'[r.key]]
  BY <1>1 DEF Before, TypeOK
<1>10. Feed!Change(t, EventType(r), r.key)
  BY <1>2, <1>3, <1>4, <1>5, <1>6, <1>7, <1>8, <1>9, NothingUnsent DEF Feed!Change
<1>11. QED
  BY <1>5, <1>6, <1>8, <1>9, <1>10, HandlesWorks

-----------------------------------------------------------------------------
(* The handlers' first calls.                                              *)

LEMMA CreateFeeds ==
    ASSUME Before, NEW t \in Threads, NEW k \in Keys, NEW labels \in LabelMaps,
           NEW dry \in BOOLEAN, CreateReport(t, k, labels, dry),
           Asks(t, Ask("create", {k}, labels, dry))
    PROVE  FeedOf(t)
<1> DEFINE q == Ask("create", {k}, labels, dry)
           obj == CreatedReport(labels)
           r == NewRequest("create", k, dry, obj)
<1>1. pc[t] = "idle" /\ ~Announcing(t) /\ log' = log
  BY DEF CreateReport, Accept, Announcing
<1>2. /\ Handles(t, q)
      /\ q.verb = "create" /\ q.keys = {k} /\ q.labels = labels /\ q.dry = dry
  <2>1. "create" \in AllVerbs /\ {k} \in SUBSET Keys
    BY DEF AllVerbs
  <2>2. QED
    BY <1>1, <2>1, StartsHandling DEF Ask
<1> HIDE DEF q
<1>3. obj \in Report /\ obj.rv = 1 /\ obj.labels = labels
  BY DEF Before, TypeOK, CreatedReport, Report
<1>4. /\ r \in Request /\ r.obj = obj /\ r.key = k /\ EventType(r) = "Added"
      /\ r.dry = dry /\ r.verb = "create"
  BY <1>3 DEF NewRequest, Request, AllVerbs, EventType
<1> HIDE DEF obj, r
<1>5. CASE Reply(t, "rejected") /\ UNCHANGED <<db, writes>>
  <2>1. Feed!Justified(t, "rejected", q)
    BY <1>2 DEF Feed!Justified
  <2>2. QED
    BY <1>1, <1>2, <1>5, <2>1, ReplyFeeds DEF Outcomes
<1>6. CASE dry /\ Reply(t, "ok") /\ UNCHANGED <<db, writes>>
  <2>1. Feed!Justified(t, "ok", q)
    BY <1>2, <1>6 DEF Feed!Justified
  <2>2. QED
    BY <1>1, <1>2, <1>6, <2>1, ReplyFeeds DEF Outcomes
<1>7. CASE ~dry /\ CreatePolr(t, r)
  <2>1. CASE ~Found(k) /\ db' = [db EXCEPT ![k] = obj] /\ Written(t, r)
    <3>1. /\ q.verb = r.verb /\ q.dry = r.dry /\ r.key \in q.keys
          /\ q.verb # "deletecollection" /\ db' = [db EXCEPT ![r.key] = obj]
          /\ Handles(t, q) /\ r \in Request /\ Written(t, r)
          /\ ~Announcing(t) /\ UNCHANGED log
      BY <1>1, <1>2, <1>4, <2>1
    <3>2. /\ OthersRest(t) /\ Remembers(t)'
          /\ asked'[t] = q /\ Feed!WorksOn(t, asked'[t])
          /\ Feed!Change(t, EventType(r), r.key)
          /\ [u \in Threads |-> Unsent(u)]'[t].obj = r.obj
          /\ db'[r.key] = obj
      BY <3>1, WriteFeeds
    <3>3. Feed!Insert(t, k)
      BY <1>2, <1>3, <1>4, <1>7, <2>1, <3>2 DEF Feed!Insert, Feed!Asking, Feed!Stored, Found
    <3>4. QED
      BY <1>2, <3>2, <3>3, HandlesWorks DEF FeedOf, Feed!Next
  <2>2. CASE Found(k) /\ UNCHANGED <<db, writes>> /\ Reply(t, "exists")
    <3>1. Feed!Justified(t, "exists", q)
      BY <1>2, <1>7, <2>2 DEF Feed!Justified, Feed!Stored, Found
    <3>2. QED
      BY <1>1, <1>2, <2>2, <3>1, ReplyFeeds DEF Outcomes
  <2>3. QED
    BY <1>4, <1>7, <2>1, <2>2 DEF CreatePolr, DbCreate
<1>8. QED
  BY <1>5, <1>6, <1>7 DEF CreateReport, r, obj

LEMMA UpdateGetFeeds ==
    ASSUME Before, NEW t \in Threads, NEW k \in Keys, NEW labels \in LabelMaps,
           NEW uid \in 0..writes, NEW dry \in BOOLEAN, UpdateGet(t, k, labels, uid, dry),
           Asks(t, Ask("update", {k}, labels, dry))
    PROVE  FeedOf(t)
<1> DEFINE q == Ask("update", {k}, labels, dry)
           r == NewRequest("update", k, dry, [uid |-> uid, rv |-> 0, labels |-> labels])
<1>1. pc[t] = "idle" /\ ~Announcing(t) /\ UNCHANGED <<db, log, writes>>
  BY DEF UpdateGet, Accept, Announcing
<1>2. /\ Handles(t, q)
      /\ q.verb = "update" /\ q.keys = {k} /\ q.labels = labels /\ q.dry = dry
  <2>1. "update" \in AllVerbs /\ {k} \in SUBSET Keys
    BY DEF AllVerbs
  <2>2. QED
    BY <1>1, <2>1, StartsHandling DEF Ask
<1> HIDE DEF q
<1>3. r.verb = "update" /\ r.dry = dry /\ r.key = k /\ r.obj.labels = labels
  BY DEF NewRequest
<1> HIDE DEF r
<1>4. ASSUME NEW answer \in {"missing", "rejected", "ok"}, Reply(t, answer),
             answer = "missing" <=> ~Found(k), answer = "ok" => dry
      PROVE  FeedOf(t)
  <2>1. Feed!Justified(t, answer, q)
    BY <1>2, <1>4 DEF Feed!Justified, Feed!Stored, Found
  <2>2. QED
    BY <1>1, <1>2, <1>4, <2>1, ReplyFeeds DEF Outcomes
<1>5. CASE Continue(t, "reread", r)
  BY <1>1, <1>2, <1>3, <1>5, ContinueFeeds
<1>6. QED
  BY <1>4, <1>5 DEF UpdateGet, r

LEMMA ApplyGetFeeds ==
    ASSUME Before, NEW t \in Threads, NEW k \in Keys, NEW labels \in LabelMaps,
           NEW dry \in BOOLEAN, ApplyGet(t, k, labels, dry),
           Asks(t, Ask("apply", {k}, labels, dry))
    PROVE  FeedOf(t)
<1> DEFINE q == Ask("apply", {k}, labels, dry)
           r == NewRequest("apply", k, dry,
                    [uid |-> IF Found(k) THEN db[k].uid ELSE 0, rv |-> 1, labels |-> labels])
<1>1. pc[t] = "idle" /\ ~Announcing(t) /\ UNCHANGED <<db, log, writes>>
  BY DEF ApplyGet, Accept, Announcing
<1>2. /\ Handles(t, q)
      /\ q.verb = "apply" /\ q.keys = {k} /\ q.labels = labels /\ q.dry = dry
  <2>1. "apply" \in AllVerbs /\ {k} \in SUBSET Keys
    BY DEF AllVerbs
  <2>2. QED
    BY <1>1, <2>1, StartsHandling DEF Ask
<1> HIDE DEF q
<1>3. r.verb = "apply" /\ r.dry = dry /\ r.key = k /\ r.obj.labels = labels
  BY DEF NewRequest
<1> HIDE DEF r
<1>4. CASE Reply(t, "rejected")
  <2>1. Feed!Justified(t, "rejected", q)
    BY <1>2 DEF Feed!Justified
  <2>2. QED
    BY <1>1, <1>2, <1>4, <2>1, ReplyFeeds DEF Outcomes
<1>5. CASE Continue(t, "apply", r)
  BY <1>1, <1>2, <1>3, <1>5, ContinueFeeds
<1>6. QED
  BY <1>4, <1>5 DEF ApplyGet, r

\* The deletion of one report, or of one of a collection's.
LEMMA FindForDeleteFeeds ==
    ASSUME Before, NEW t \in Threads, NEW q, Handles(t, q),
           NEW r \in Request, FindForDelete(t, r),
           q.verb = r.verb, q.dry = r.dry, r.key \in q.keys,
           r.verb = "delete" \/ (r.verb = "deletecollection" /\ pc[t] # "idle" /\ ~r.dry),
           ~Announcing(t), UNCHANGED <<db, log, writes>>
    PROVE  FeedOf(t)
<1> DEFINE s == [r EXCEPT !.obj = db[r.key]]
<1>1. ASSUME NEW answer \in {"missing", "rejected", "ok"}, Reply(t, answer),
             answer = "missing" <=> ~Found(r.key), answer = "ok" => r.dry
      PROVE  FeedOf(t)
  <2>1. Feed!Justified(t, answer, q)
    BY <1>1 DEF Feed!Justified, Feed!Stored, Found
  <2>2. QED
    BY <1>1, <2>1, ReplyFeeds DEF Outcomes
<1>2. CASE Continue(t, "delete", s)
  <2>1. s.verb = r.verb /\ s.dry = r.dry /\ s.key = r.key
    BY DEF Request
  <2> HIDE DEF s
  <2>2. QED
    BY <1>2, <2>1, ContinueFeeds
<1>3. QED
  BY <1>1, <1>2 DEF FindForDelete

LEMMA DeleteGetFeeds ==
    ASSUME Before, NEW t \in Threads, NEW k \in Keys, NEW dry \in BOOLEAN,
           DeleteGet(t, k, dry), Asks(t, Ask("delete", {k}, NoLabels, dry))
    PROVE  FeedOf(t)
<1> DEFINE q == Ask("delete", {k}, NoLabels, dry)
           r == NewRequest("delete", k, dry, NoReport)
<1>1. pc[t] = "idle" /\ ~Announcing(t) /\ UNCHANGED <<db, log, writes>>
  BY DEF DeleteGet, Accept, Announcing
<1>2. /\ Handles(t, q)
      /\ q.verb = "delete" /\ q.keys = {k} /\ q.dry = dry
  <2>1. "delete" \in AllVerbs /\ {k} \in SUBSET Keys
    BY DEF AllVerbs
  <2>2. QED
    BY <1>1, <2>1, StartsHandling DEF Ask
<1> HIDE DEF q
<1>3. r \in Request /\ r.verb = "delete" /\ r.dry = dry /\ r.key = k
  BY NewRequestType DEF AllVerbs, NewRequest
<1> HIDE DEF r
<1>4. FindForDelete(t, r)
  BY DEF DeleteGet, r
<1>5. QED
  BY <1>1, <1>2, <1>3, <1>4, FindForDeleteFeeds

LEMMA CollectionListFeeds ==
    ASSUME Before, NEW t \in Threads, NEW ns \in Namespaces, NEW selector,
           NEW dry \in BOOLEAN, CollectionList(t, ns, selector, dry),
           Asks(t, Ask("deletecollection", KeysOf(ns), NoLabels, dry))
    PROVE  FeedOf(t)
<1> DEFINE q == Ask("deletecollection", KeysOf(ns), NoLabels, dry)
<1>1. pc[t] = "idle" /\ ~Announcing(t) /\ UNCHANGED <<db, log, writes>>
  BY DEF CollectionList, Accept, Announcing
<1>2. /\ Handles(t, q)
      /\ q.verb = "deletecollection" /\ q.keys = KeysOf(ns) /\ q.dry = dry
  <2>1. "deletecollection" \in AllVerbs /\ KeysOf(ns) \in SUBSET Keys
    BY DEF AllVerbs, KeysOf
  <2>2. QED
    BY <1>1, <2>1, StartsHandling DEF Ask
<1> HIDE DEF q
<1>3. CASE Reply(t, "ok")
  <2>1. ~Feed!Busy(t)
    BY <1>1, <1>2, HandlesWorks
  <2>2. Feed!Justified(t, "ok", q)
    BY <1>2, <2>1 DEF Feed!Justified
  <2>3. QED
    BY <1>1, <1>2, <1>3, <2>2, ReplyFeeds DEF Outcomes
<1>4. ASSUME NEW order \in Orders({k \in KeysOf(ns) : Found(k)}), NEW kept,
             kept \subseteq DOMAIN order, ~dry, NextItem(t, [i \in kept |-> order[i]])
      PROVE  FeedOf(t)
  <2>1. \A i \in DOMAIN order : order[i] \in KeysOf(ns)
    BY DEF Orders
  <2>2. \A j \in kept : [i \in kept |-> order[i]][j] \in q.keys
    BY <1>2, <1>4, <2>1
  <2>3. QED
    BY <1>1, <1>2, <1>4, <2>2, NextItemFeeds
<1>5. \A labelsOf : Kept(labelsOf, selector) \subseteq DOMAIN labelsOf
  BY DEF Kept
<1>6. PICK order \in Orders({k \in KeysOf(ns) : Found(k)}) :
          LET kept == Kept([i \in DOMAIN order |-> db[order[i]].labels], selector)
          IN  IF dry \/ kept = {} THEN Reply(t, "ok")
                                  ELSE NextItem(t, [i \in kept |-> order[i]])
  BY DEF CollectionList
<1>7. Kept([i \in DOMAIN order |-> db[order[i]].labels], selector) \subseteq DOMAIN order
  BY <1>5
<1>8. QED
  BY <1>3, <1>4, <1>6, <1>7

-----------------------------------------------------------------------------
(* The handlers' later calls.                                              *)

\* What is known of a thread at a call, of its request and of the report.
LEMMA AtCall ==
    ASSUME Before, NEW t \in Threads, pc[t] # "idle", UNCHANGED asked
    PROVE  /\ Handles(t, asked[t])
           /\ req[t] \in Request /\ req[t].key \in Keys
           /\ asked[t].verb = req[t].verb
           /\ asked[t].dry = req[t].dry
           /\ req[t].key \in asked[t].keys
  BY KeepsHandling DEF Before, AskedInv, Remembers, TypeOK, ThreadsOK, Request

LEMMA UpdateRereadFeeds ==
    ASSUME Before, NEW t \in Threads, UpdateReread(t), UNCHANGED asked
    PROVE  FeedOf(t)
<1> DEFINE q == asked[t]
           r == [req[t] EXCEPT !.obj.rv = db[req[t].key].rv + 1]
<1>1. pc[t] = "reread" /\ ~Announcing(t) /\ UNCHANGED <<db, log, writes>>
  BY DEF UpdateReread, Announcing
<1>2. /\ Handles(t, q) /\ req[t] \in Request /\ req[t].key \in Keys
      /\ q.verb = req[t].verb /\ q.dry = req[t].dry /\ req[t].key \in q.keys
  BY <1>1, AtCall
<1>3. /\ req[t].verb = "update" /\ req[t].obj.labels = q.labels
      /\ req[t].obj \in Report
  BY <1>1 DEF Before, AllSuit, SuitsCall, AskedInv, Remembers, TypeOK, ThreadsOK
<1>4. /\ r.verb = req[t].verb /\ r.dry = req[t].dry /\ r.key = req[t].key
      /\ r.obj.labels = req[t].obj.labels
  BY <1>2, <1>3 DEF Request, Report
<1> HIDE DEF q, r
<1>5. CASE ~Found(req[t].key) /\ Reply(t, "missing")
  <2>1. Feed!Justified(t, "missing", q)
    BY <1>2, <1>3, <1>5 DEF Feed!Justified, Feed!Stored, Found
  <2>2. QED
    BY <1>1, <1>2, <1>5, <2>1, ReplyFeeds DEF Outcomes
<1>6. CASE Continue(t, "update", r)
  <2>1. /\ q.verb = r.verb /\ q.dry = r.dry /\ r.key \in q.keys
        /\ q.verb # "deletecollection" /\ r.obj.labels = q.labels
    BY <1>2, <1>3, <1>4
  <2>2. QED
    BY <1>1, <1>2, <1>6, <2>1, ContinueFeeds
<1>7. QED
  BY <1>5, <1>6 DEF UpdateReread, r

LEMMA UpdateStoreFeeds ==
    ASSUME Before, NEW t \in Threads, UpdateStore(t), UNCHANGED asked
    PROVE  FeedOf(t)
<1> DEFINE q == asked[t]
           k == req[t].key
           obj == req[t].obj
<1>1. pc[t] = "update" /\ ~Announcing(t) /\ UNCHANGED log
  BY DEF UpdateStore, Announcing
<1>2. /\ Handles(t, q) /\ req[t] \in Request /\ k \in Keys
      /\ q.verb = req[t].verb /\ q.dry = req[t].dry /\ k \in q.keys
  BY <1>1, AtCall
<1>3. /\ req[t].verb = "update" /\ ~req[t].dry /\ EventType(req[t]) = "Added"
      /\ obj \in Report /\ obj.labels = q.labels
  BY <1>1 DEF Before, AllSuit, SuitsCall, AskedInv, Remembers, TypeOK, ThreadsOK, EventType
<1> HIDE DEF q
<1>4. CASE Found(k) /\ db' = [db EXCEPT ![k] = obj] /\ Written(t, req[t])
  <2>1. /\ OthersRest(t) /\ Remembers(t)'
        /\ asked'[t] = q /\ Feed!WorksOn(t, asked'[t])
        /\ Feed!Change(t, EventType(req[t]), k)
        /\ [u \in Threads |-> Unsent(u)]'[t].obj = obj
        /\ db'[k] = obj
    BY <1>1, <1>2, <1>4, WriteFeeds
  <2>2. Feed!Replace(t, k)
    BY <1>2, <1>3, <1>4, <2>1 DEF Feed!Replace, Feed!Asking, Feed!Stored, Found
  <2>3. QED
    BY <1>2, <2>1, <2>2, HandlesWorks DEF FeedOf, Feed!Next
<1>5. CASE ~Found(k) /\ UNCHANGED <<db, writes>> /\ Reply(t, "missing")
  <2>1. Feed!Justified(t, "missing", q)
    BY <1>2, <1>3, <1>5 DEF Feed!Justified, Feed!Stored, Found
  <2>2. QED
    BY <1>1, <1>2, <1>5, <2>1, ReplyFeeds DEF Outcomes
<1>6. QED
  BY <1>4, <1>5 DEF UpdateStore, DbUpdate

\* An event is not taken for none, and its repetition differs in one field.
LEMMA EventIsSomething ==
    ASSUME NEW r \in Request
    PROVE  /\ EventOf(r, FALSE) # NoRequest /\ EventOf(r, TRUE) # NoRequest
           /\ ~EventOf(r, FALSE).again /\ EventOf(r, TRUE).again = TRUE
           /\ EventOf(r, TRUE) = [EventOf(r, FALSE) EXCEPT !.again = TRUE]
<1> DEFINE e == EventOf(r, FALSE)
           f == EventOf(r, TRUE)
<1>1. e \in Event /\ f \in Event /\ ~e.again /\ f.again = TRUE
  BY EventsHaveType
<1>2. e.type = f.type /\ e.key = f.key /\ e.obj = f.obj /\ e.seq = f.seq
  BY DEF EventOf
<1> HIDE DEF e, f
<1>3. f = [e EXCEPT !.again = TRUE]
  BY <1>1, <1>2 DEF Event
<1>4. QED
  BY <1>1, <1>3, NoRequestAssumption DEF e, f

\* The report an apply announces was not stored, if there was none to replace.
LEMMA ClaimFeeds ==
    ASSUME Before, NEW t \in Threads, pc[t] = "apply", UNCHANGED asked,
           ~Found(req[t].key), Continue(t, "announce", req[t]), UNCHANGED <<db, log, writes>>
    PROVE  FeedOf(t)
<1> DEFINE q == asked[t]
           unsent == [u \in Threads |-> Unsent(u)]
           e == EventOf(req[t], FALSE)
<1>1. /\ Handles(t, q) /\ req[t] \in Request /\ req[t].key \in Keys
      /\ q.verb = req[t].verb /\ q.dry = req[t].dry /\ req[t].key \in q.keys
  BY AtCall
<1>2. /\ req[t].verb = "apply" /\ req[t].seq = 0 /\ "apply" \in Verbs
      /\ req[t].obj \in Report /\ req[t].obj.labels = q.labels
  BY DEF Before, AllSuit, SuitsCall, AskedInv, Remembers, TypeOK, ThreadsOK
<1>3. e = [type |-> "Added", key |-> req[t].key, obj |-> req[t].obj, seq |-> 0, again |-> FALSE]
  BY <1>2 DEF EventOf, EventType
<1>4. e # NoRequest
  BY <1>1, EventIsSomething
<1> HIDE DEF q, e
<1>5. /\ OthersRest(t) /\ Remembers(t)' /\ pc'[t] = "announce" /\ req'[t] = req[t]
      /\ res' = [res EXCEPT ![t] = "none"]
  BY <1>1, <1>2, ContinueRests
<1>6. Unsent(t) = NoRequest /\ Unsent(t)' = e
  BY <1>5 DEF Unsent, e
<1>7. unsent' = [unsent EXCEPT ![t] = e]
  BY <1>5, <1>6, OthersKeepUnsent
<1>8. e.obj = req[t].obj
  BY <1>3
<1>9. asked'[t] = q /\ Feed!WorksOn(t, asked'[t])
  BY <1>1, HandlesWorks
<1>10. Feed!Claim(t, req[t].key)
  BY <1>1, <1>2, <1>3, <1>4, <1>5, <1>6, <1>7, <1>8, <1>9 DEF Feed!Claim, Feed!Stored, Found
<1>11. QED
  BY <1>1, <1>5, <1>9, <1>10, HandlesWorks DEF FeedOf, Feed!Next

LEMMA ApplyStoreFeeds ==
    ASSUME Before, NEW t \in Threads, ApplyStore(t), UNCHANGED asked
    PROVE  FeedOf(t)
<1> DEFINE q == asked[t]
           k == req[t].key
           obj == req[t].obj
<1>1. pc[t] = "apply" /\ ~Announcing(t) /\ UNCHANGED log
  BY DEF ApplyStore, Announcing
<1>2. /\ Handles(t, q) /\ req[t] \in Request /\ k \in Keys
      /\ q.verb = req[t].verb /\ q.dry = req[t].dry /\ k \in q.keys
  BY <1>1, AtCall
<1>3. /\ req[t].verb = "apply" /\ EventType(req[t]) = "Added"
      /\ obj \in Report /\ obj.labels = q.labels
  BY <1>1 DEF Before, AllSuit, SuitsCall, AskedInv, Remembers, TypeOK, ThreadsOK, EventType
<1> HIDE DEF q
<1>4. CASE Found(k) /\ db' = [db EXCEPT ![k] = obj] /\ Written(t, req[t])
  <2>1. /\ OthersRest(t) /\ Remembers(t)'
        /\ asked'[t] = q /\ Feed!WorksOn(t, asked'[t])
        /\ Feed!Change(t, EventType(req[t]), k)
        /\ [u \in Threads |-> Unsent(u)]'[t].obj = obj
        /\ db'[k] = obj
    BY <1>1, <1>2, <1>4, WriteFeeds
  <2>2. Feed!Replace(t, k)
    BY <1>2, <1>3, <1>4, <2>1 DEF Feed!Replace, Feed!Stored, Found
  <2>3. QED
    BY <1>2, <2>1, <2>2, HandlesWorks DEF FeedOf, Feed!Next
<1>5. CASE ~Found(k) /\ UNCHANGED <<db, writes>> /\ Continue(t, "announce", req[t])
  BY <1>1, <1>5, ClaimFeeds
<1>6. QED
  BY <1>4, <1>5 DEF ApplyStore, DbUpdate

LEMMA DeleteStoreFeeds ==
    ASSUME Before, NEW t \in Threads, DeleteStore(t), UNCHANGED asked
    PROVE  FeedOf(t)
<1> DEFINE q == asked[t]
           k == req[t].key
           obj == req[t].obj
<1>1. pc[t] = "delete" /\ pc[t] # "idle" /\ ~Announcing(t) /\ UNCHANGED log
  BY DEF DeleteStore, Announcing
<1>2. /\ Handles(t, q) /\ req[t] \in Request /\ k \in Keys
      /\ q.verb = req[t].verb /\ q.dry = req[t].dry /\ k \in q.keys
  BY <1>1, AtCall
<1>3. /\ req[t].verb \in {"delete", "deletecollection"} /\ ~req[t].dry
      /\ EventType(req[t]) = "Deleted" /\ obj \in Report
  BY <1>1 DEF Before, AllSuit, SuitsCall, TypeOK, ThreadsOK, EventType
<1> HIDE DEF q
<1>4. CASE Found(k) /\ db' = [db EXCEPT ![k] = NoReport] /\ Written(t, req[t])
  <2>1. /\ OthersRest(t) /\ Remembers(t)'
        /\ asked'[t] = q /\ Feed!WorksOn(t, asked'[t])
        /\ Feed!Change(t, EventType(req[t]), k)
        /\ [u \in Threads |-> Unsent(u)]'[t].obj = obj
        /\ db'[k] = NoReport
    <3>1. /\ Handles(t, q) /\ req[t] \in Request /\ Written(t, req[t]) /\ ~Announcing(t)
          /\ q.verb = req[t].verb /\ q.dry = req[t].dry /\ req[t].key \in q.keys
          /\ q.verb = "deletecollection" => pc[t] # "idle"
          /\ db' = [db EXCEPT ![req[t].key] = NoReport] /\ UNCHANGED log
      BY <1>1, <1>2, <1>4
    <3>2. QED
      BY <3>1, WriteFeeds
  <2>2. Feed!Remove(t, k)
    BY <1>2, <1>3, <1>4, <2>1 DEF Feed!Remove, Feed!Asking, Feed!Stored, Found
  <2>3. QED
    BY <1>2, <2>1, <2>2, HandlesWorks DEF FeedOf, Feed!Next
<1>5. CASE ~Found(k) /\ UNCHANGED <<db, writes>> /\ Reply(t, "missing")
  <2>1. Feed!Justified(t, "missing", q)
    BY <1>2, <1>3, <1>5 DEF Feed!Justified, Feed!Stored, Found
  <2>2. QED
    BY <1>1, <1>2, <1>5, <2>1, ReplyFeeds DEF Outcomes
<1>6. QED
  BY <1>4, <1>5 DEF DeleteStore, DbDelete

LEMMA CollectionItemFeeds ==
    ASSUME Before, NEW t \in Threads, CollectionItem(t), UNCHANGED asked
    PROVE  FeedOf(t)
<1>1. /\ pc[t] = "collect" /\ ~Announcing(t) /\ UNCHANGED <<db, log, writes>>
      /\ FindForDelete(t, req[t])
  BY DEF CollectionItem, Announcing
<1>2. /\ Handles(t, asked[t]) /\ req[t] \in Request
      /\ asked[t].verb = req[t].verb /\ asked[t].dry = req[t].dry
      /\ req[t].key \in asked[t].keys
  BY <1>1, AtCall
<1>3. req[t].verb = "deletecollection" /\ ~req[t].dry
  BY <1>1 DEF Before, AllSuit, SuitsCall
<1>4. QED
  BY <1>1, <1>2, <1>3, FindForDeleteFeeds

LEMMA AnnounceFeeds ==
    ASSUME Before, NEW t \in Threads, Announce(t), UNCHANGED asked
    PROVE  FeedOf(t)
<1> DEFINE q == asked[t]
           unsent == [u \in Threads |-> Unsent(u)]
           e == EventOf(req[t], FALSE)
           f == EventOf(req[t], TRUE)
<1>1. pc[t] = "announce"
  BY DEF Announce
<1>2. /\ Handles(t, q) /\ req[t] \in Request
      /\ q.verb = req[t].verb /\ q.dry = req[t].dry /\ req[t].key \in q.keys
  BY <1>1, AtCall
<1>3. e # NoRequest /\ f # NoRequest /\ f = [e EXCEPT !.again = TRUE] /\ ~e.again
  BY <1>2, EventIsSomething
<1>4. Unsent(t) = e /\ log' = Append(log, e) /\ UNCHANGED <<db, writes>>
  BY DEF Unsent, Announce
<1>5. asked'[t] = q /\ Feed!WorksOn(t, asked'[t])
  BY <1>2, HandlesWorks
<1>6. CASE req[t].verb = "deletecollection" /\ Continue(t, "announceAgain", req[t])
  <2>1. /\ OthersRest(t) /\ Remembers(t)' /\ pc'[t] = "announceAgain" /\ req'[t] = req[t]
        /\ res' = [res EXCEPT ![t] = "none"]
    BY <1>1, <1>2, <1>6, ContinueRests
  <2>2. Unsent(t)' = f
    BY <2>1 DEF Unsent
  <2> HIDE DEF e, f
  <2>3. unsent' = [unsent EXCEPT ![t].again = TRUE] /\ unsent'[t] # NoRequest
    BY <1>3, <1>4, <2>1, <2>2, OthersKeepUnsent
  <2>4. asked[t].verb = "deletecollection"
    BY <1>2, <1>6
  <2>5. Feed!Send(t)
    BY <1>3, <1>4, <2>1, <2>3, <2>4 DEF Feed!Send
  <2>6. QED
    BY <1>2, <1>5, <2>1, <2>5, HandlesWorks DEF FeedOf, Feed!Next
<1>7. CASE Reply(t, "ok")
  <2>1. OthersRest(t) /\ Remembers(t)' /\ pc'[t] = "idle" /\ res' = [res EXCEPT ![t] = "ok"]
    BY <1>2, <1>7, ReplyRests DEF Outcomes
  <2>2. Unsent(t)' = NoRequest
    BY <2>1 DEF Unsent
  <2> HIDE DEF e, f
  <2>3. unsent' = [unsent EXCEPT ![t] = NoRequest] /\ unsent'[t] = NoRequest
    BY <2>1, <2>2, OthersKeepUnsent
  <2>4. Feed!Send(t)
    BY <1>3, <1>4, <2>1, <2>3 DEF Feed!Send
  <2>5. QED
    BY <1>2, <1>5, <2>1, <2>4, HandlesWorks DEF FeedOf, Feed!Next
<1>8. QED
  BY <1>6, <1>7 DEF Announce

LEMMA AnnounceAgainFeeds ==
    ASSUME Before, NEW t \in Threads, AnnounceAgain(t), UNCHANGED asked
    PROVE  FeedOf(t)
<1> DEFINE q == asked[t]
           unsent == [u \in Threads |-> Unsent(u)]
           f == EventOf(req[t], TRUE)
<1>1. pc[t] = "announceAgain"
  BY DEF AnnounceAgain
<1>2. /\ Handles(t, q) /\ req[t] \in Request
      /\ q.verb = req[t].verb /\ q.dry = req[t].dry
  BY <1>1, AtCall
<1>3. /\ req[t].verb = "deletecollection" /\ ~req[t].dry
      /\ \A i \in DOMAIN todo[t] : todo[t][i] \in q.keys
  BY <1>1 DEF Before, AllSuit, SuitsCall, AskedInv, Remembers
<1>4. f # NoRequest /\ f.again = TRUE
  BY <1>2, EventIsSomething
<1>5. Unsent(t) = f /\ log' = Append(log, f) /\ UNCHANGED <<db, writes>>
  BY DEF Unsent, AnnounceAgain
<1>6. asked'[t] = q /\ Feed!WorksOn(t, asked'[t])
  BY <1>2, HandlesWorks
<1> HIDE DEF q, f
<1>7. CASE Reply(t, "ok")
  <2>1. OthersRest(t) /\ Remembers(t)' /\ pc'[t] = "idle" /\ res' = [res EXCEPT ![t] = "ok"]
    BY <1>2, <1>7, ReplyRests DEF Outcomes
  <2>2. Unsent(t)' = NoRequest
    BY <2>1 DEF Unsent
  <2>3. unsent' = [unsent EXCEPT ![t] = NoRequest] /\ unsent'[t] = NoRequest
    BY <2>1, <2>2, OthersKeepUnsent
  <2>4. Feed!Send(t)
    BY <1>4, <1>5, <2>1, <2>3 DEF Feed!Send
  <2>5. QED
    BY <1>2, <1>6, <2>1, <2>4, HandlesWorks DEF FeedOf, Feed!Next
<1>8. CASE NextItem(t, todo[t])
  <2>1. OthersRest(t) /\ Remembers(t)' /\ pc'[t] = "collect" /\ res' = [res EXCEPT ![t] = "none"]
    BY <1>2, <1>3, <1>8, NextItemRests
  <2>2. Unsent(t)' = NoRequest
    BY <2>1 DEF Unsent
  <2>3. unsent' = [unsent EXCEPT ![t] = NoRequest]
    BY <2>1, <2>2, OthersKeepUnsent
  <2>4. Feed!SendAndGoOn(t)
    BY <1>4, <1>5, <2>1, <2>3 DEF Feed!SendAndGoOn
  <2>5. QED
    BY <1>2, <1>6, <2>1, <2>4, HandlesWorks DEF FeedOf, Feed!Next
<1>9. QED
  BY <1>7, <1>8 DEF AnnounceAgain

-----------------------------------------------------------------------------
(* The refinement.                                                         *)

LEMMA StepFeeds ==
    ASSUME Before, NEW t \in Threads, AskedRequest(t) \/ AskedCall(t)
    PROVE  FeedOf(t)
<1>1. CASE AskedRequest(t)
  BY <1>1, CreateFeeds, UpdateGetFeeds, ApplyGetFeeds, DeleteGetFeeds, CollectionListFeeds
  DEF AskedRequest
<1>2. CASE AskedCall(t)
  BY <1>2, UpdateRereadFeeds, UpdateStoreFeeds, ApplyStoreFeeds, DeleteStoreFeeds,
     CollectionItemFeeds, AnnounceFeeds, AnnounceAgainFeeds DEF AskedCall
<1>3. QED
  BY <1>1, <1>2

LEMMA NextFeeds ==
    ASSUME Before, [AskedNext]_askedVars
    PROVE  AskedInv' /\ [Feed!Next]_(Feed!vars)
<1>1. ASSUME NEW t \in Threads, AskedRequest(t) \/ AskedCall(t)
      PROVE  AskedInv' /\ Feed!Next
  <2>1. FeedOf(t)
    BY <1>1, StepFeeds
  <2>2. ASSUME NEW u \in Threads \ {t} PROVE Remembers(u)'
    BY <2>1, <2>2 DEF Before, AskedInv, Remembers, FeedOf, OthersRest
  <2>3. QED
    BY <2>1, <2>2 DEF AskedInv, FeedOf
<1>2. CASE UNCHANGED askedVars
  <2>1. AskedInv'
    BY <1>2 DEF Before, AskedInv, Remembers, askedVars, vars
  <2>2. UNCHANGED Feed!vars
    BY <1>2 DEF Feed!vars, askedVars, vars, Unsent, EventOf
  <2>3. QED
    BY <2>1, <2>2
<1>3. QED
  BY <1>1, <1>2 DEF AskedNext, Quiet, askedVars

\* The history variable leaves the rest of the state to behave as before.
LEMMA AskedIsSpec == AskedSpec => Spec
<1>1. AskedInit => Init
  BY DEF AskedInit
<1>2. [AskedNext]_askedVars => [Next]_vars
  <2>1. ASSUME NEW t \in Threads, AskedRequest(t) \/ AskedCall(t)
        PROVE  Serve(t)
    BY <2>1 DEF AskedRequest, AskedCall, Serve
  <2>2. QED
    BY <2>1 DEF AskedNext, Next, askedVars
<1>3. QED
  BY <1>1, <1>2, PTL DEF AskedSpec, Spec

LEMMA AskedInvariant == AskedSpec => []Before
<1>1. AskedInit => AskedInv
  BY DEF AskedInit, Init, AskedInv, Remembers
<1>2. Before /\ [AskedNext]_askedVars => AskedInv'
  BY NextFeeds
<1>3. QED
  BY <1>1, <1>2, AskedIsSpec, TypeCorrect, RequestsSuit, PTL DEF AskedSpec, Before

(* Every step of every handler is one of ReportFeed for the request it     *)
(* serves, or is invisible to it: the up to three store calls and the      *)
(* broadcast of a request act like one change at the key it names and one  *)
(* event, whatever other requests do in between, and an answer without a   *)
(* change is true of that key when it is given.  A collection acts like a  *)
(* series of deletions, and only an apply may claim a change.              *)
THEOREM HandlersImplementFeed == AskedSpec => ImplementsFeed
<1>1. AskedInit => Feed!Init
  BY DEF AskedInit, Init, DbInit, Feed!Init, Unsent
<1>2. Before /\ [AskedNext]_askedVars => [Feed!Next]_(Feed!vars)
  BY NextFeeds
<1>3. QED
  BY <1>1, <1>2, AskedInvariant, PTL DEF AskedSpec, ImplementsFeed, Feed!Spec
=============================================================================
