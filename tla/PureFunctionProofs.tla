------------------------- MODULE PureFunctionProofs -------------------------
(***************************************************************************)
(* The functions without state, for all of their inputs: lists and their   *)
(* selectors, storage keys for all versions, namespaces and names, and the *)
(* metric buckets for all resolutions.  The last part states the invariants*)
(* of MCPureFunctions, however many reports and keys there are.            *)
(***************************************************************************)
EXTENDS MCPureFunctions, FiniteSetTheorems, WellFoundedInduction, TLAPS

-----------------------------------------------------------------------------
(* Lists.                                                                  *)

(* The items that have labels after decoding have the same ones: they all  *)
(* point at the one map of listPolr (polr.go:335-341).                     *)
LEMMA LabelledItemsShare ==
    ASSUME NEW items, NEW i \in DOMAIN items,
           Labelled(DecodedLabels(items, i))
    PROVE  DecodedLabels(items, i) = SharedLabels(items)
<1>1. CASE \E j \in DOMAIN items : j <= i /\ Labelled(items[j])
  BY <1>1 DEF DecodedLabels
<1>2. CASE ~ \E j \in DOMAIN items : j <= i /\ Labelled(items[j])
  <2>1. DecodedLabels(items, i) = << >>
    BY <1>2 DEF DecodedLabels
  <2>2. ~Labelled(<< >>)
    BY DEF Labelled
  <2>3. QED
    BY <2>1, <2>2
<1>3. QED
  BY <1>1, <1>2

(* A selector keeps every item of a list or none of them, whatever labels  *)
(* the reports were stored with and in whatever order the store lists them.*)
THEOREM SelectorKeepsAllOrNothing ==
    ASSUME NEW items, NEW sel
    PROVE  AllOrNothing(items, sel)
<1>1. CASE \E i \in DOMAIN items : ~Labelled(DecodedLabels(items, i))
  BY <1>1 DEF AllOrNothing, Kept
<1>2. CASE \A i \in DOMAIN items : Labelled(DecodedLabels(items, i))
  <2>1. \A i \in DOMAIN items : DecodedLabels(items, i) = SharedLabels(items)
    BY <1>2, LabelledItemsShare
  <2>2. Kept(items, sel) =
          {i \in DOMAIN items : Matches(sel, DecodedLabels(items, i))}
    BY <1>2 DEF Kept
  <2>3. CASE Matches(sel, SharedLabels(items))
    <3>1. Kept(items, sel) = DOMAIN items
      BY <2>1, <2>2, <2>3
    <3>2. QED
      BY <3>1 DEF AllOrNothing
  <2>4. CASE ~Matches(sel, SharedLabels(items))
    <3>1. Kept(items, sel) = {}
      BY <2>1, <2>2, <2>4
    <3>2. QED
      BY <3>1 DEF AllOrNothing
  <2>5. QED
    BY <2>3, <2>4
<1>3. QED
  BY <1>1, <1>2

(* Least numbers serve for induction over the numbers.                     *)
LEMMA LeastNumber ==
    ASSUME NEW S \in SUBSET Nat, S # {}
    PROVE  \E m \in S : \A n \in S : m <= n
<1>1. PICK m \in S : \A n \in S : ~(<<n, m>> \in OpToRel(<, Nat))
  BY NatLessThanWellFounded, WFMin
<1>2. \A n \in S : ~(n < m)
  BY <1>1 DEF OpToRel
<1>3. QED
  BY <1>2

(* So do the greatest ones, which a fold takes out first.                  *)
LEMMA GreatestNumber ==
    ASSUME NEW n \in Nat, NEW S \in SUBSET (1..n), S # {}
    PROVE  /\ Max(S) \in S
           /\ \A i \in S : i <= Max(S)
<1> DEFINE R == {n - i : i \in S}
<1>1. R \in SUBSET Nat
  BY SMT
<1>2. R # {}
  OBVIOUS
<1>3. PICK m \in R : \A r \in R : m <= r
  <2> HIDE DEF R
  <2> QED
    BY <1>1, <1>2, LeastNumber
<1>4. PICK x \in S : m = n - x
  BY <1>3
<1>5. \A y \in S : n - x <= n - y
  BY <1>3, <1>4
<1>6. \A y \in S : x >= y
  BY <1>5, <1>4
<1>7. QED
  BY <1>6 DEF Max

\* The last of the items in s that has label l.
LastCarrier(items, s, l) == Max({i \in s : l \in DOMAIN items[i]})

\* The map that the items in s leave behind.
Merged(items, s) ==
    [l \in UNION {DOMAIN items[i] : i \in s} |-> items[LastCarrier(items, s, l)][l]]

LEMMA NothingMerged == ASSUME NEW items PROVE Merged(items, {}) = << >>
  BY DEF Merged

(* One more item sets its keys in the map.                                 *)
LEMMA MergedStep ==
    ASSUME NEW n \in Nat, NEW items, NEW s \in SUBSET (1..n), s # {}
    PROVE  Merged(items, s) = SetKeys(Merged(items, s \ {Max(s)}), items[Max(s)])
<1>0. PICK m : m = Max(s)
  OBVIOUS
<1> DEFINE rest == s \ {m}
<1>1. m \in s /\ \A i \in s : i <= m
  BY <1>0, GreatestNumber
<1>2. UNION {DOMAIN items[i] : i \in s}
        = DOMAIN items[m] \cup UNION {DOMAIN items[i] : i \in rest}
  BY <1>1
<1>3. ASSUME NEW l \in DOMAIN items[m]
      PROVE  LastCarrier(items, s, l) = m
  <2>1. PICK carriers : carriers = {i \in s : l \in DOMAIN items[i]}
    OBVIOUS
  <2>2. carriers \in SUBSET (1..n) /\ m \in carriers
    BY <1>1, <1>3, <2>1
  <2>3. Max(carriers) \in carriers /\ m <= Max(carriers)
    BY <2>2, GreatestNumber
  <2>4. Max(carriers) \in s /\ Max(carriers) <= m /\ m \in 1..n /\ Max(carriers) \in 1..n
    BY <1>1, <2>1, <2>3
  <2>5. Max(carriers) = m
    BY <2>3, <2>4
  <2>6. QED
    BY <2>1, <2>5 DEF LastCarrier
<1>4. ASSUME NEW l, l \notin DOMAIN items[m]
      PROVE  LastCarrier(items, s, l) = LastCarrier(items, rest, l)
  <2>1. {i \in s : l \in DOMAIN items[i]} = {i \in rest : l \in DOMAIN items[i]}
    BY <1>4
  <2>2. QED
    BY <2>1 DEF LastCarrier
<1>5. QED
  BY <1>0, <1>2, <1>3, <1>4 DEF Merged, SetKeys

\* A function shared from sets of items to what they leave behind, with one
\* more turn of the decoding loop.
Turn(items, shared) ==
    [s \in SUBSET DOMAIN items |->
        IF s = {} THEN << >> ELSE SetKeys(shared[s \ {Max(s)}], items[Max(s)])]

(* The fold of the model is a function that satisfies the equation of Turn,*)
(* if there is one ...                                                     *)
LEMMA SharedIsAFold ==
    ASSUME NEW items
    PROVE  SharedLabels(items) = (CHOOSE shared : shared = Turn(items, shared))[DOMAIN items]
  BY DEF SharedLabels, FoldLeft, MapThenFoldSet, Turn

(* ... which there is ...                                                  *)
LEMMA MergedIsAFold ==
    ASSUME NEW n \in Nat, NEW items, DOMAIN items = 1..n
    PROVE  [s \in SUBSET DOMAIN items |-> Merged(items, s)]
             = Turn(items, [s \in SUBSET DOMAIN items |-> Merged(items, s)])
<1> DEFINE f == [s \in SUBSET DOMAIN items |-> Merged(items, s)]
<1>1. ASSUME NEW s \in SUBSET DOMAIN items
      PROVE  f[s] = Turn(items, f)[s]
  <2>1. CASE s = {}
    BY <2>1, NothingMerged DEF Turn
  <2>2. CASE s # {}
    <3>1. Merged(items, s) = SetKeys(Merged(items, s \ {Max(s)}), items[Max(s)])
      BY <2>2, MergedStep
    <3>2. f[s \ {Max(s)}] = Merged(items, s \ {Max(s)})
      OBVIOUS
    <3>3. QED
      BY <2>2, <3>1, <3>2 DEF Turn
  <2>3. QED
    BY <2>1, <2>2
<1>2. QED
  BY <1>1 DEF Turn

(* ... and there is no other, by induction over the last item of s.        *)
LEMMA FoldsAreMerged ==
    ASSUME NEW n \in Nat, NEW items, DOMAIN items = 1..n,
           NEW shared, shared = Turn(items, shared)
    PROVE  \A s \in SUBSET DOMAIN items : shared[s] = Merged(items, s)
<1> DEFINE Bad == {m \in 0..n : \E s \in SUBSET (1..m) : shared[s] # Merged(items, s)}
<1> SUFFICES ASSUME Bad # {} PROVE FALSE
  <2>1. n \notin Bad
    OBVIOUS
  <2>2. QED
    BY <2>1
<1>1. PICK m \in Bad : \A i \in Bad : m <= i
  <2>1. Bad \in SUBSET Nat
    OBVIOUS
  <2> HIDE DEF Bad
  <2>2. QED
    BY <2>1, LeastNumber
<1>2. PICK s \in SUBSET (1..m) : shared[s] # Merged(items, s)
  OBVIOUS
<1>3. s \in SUBSET DOMAIN items /\ m \in Nat /\ m <= n
  BY <1>1
<1>4. CASE s = {}
  BY <1>2, <1>3, <1>4, NothingMerged DEF Turn
<1>5. CASE s # {}
  <2>1. PICK g : g = Max(s)
    OBVIOUS
  <2>2. g \in s /\ \A i \in s : i <= g
    BY <1>3, <1>5, <2>1, GreatestNumber
  <2>3. s \ {g} \in SUBSET (1..(g - 1)) /\ g \in 1..m /\ g - 1 \in 0..n
    BY <1>3, <2>2
  <2>4. g - 1 \notin Bad
    <3>1. ~(m <= g - 1)
      BY <1>3, <2>3
    <3> HIDE DEF Bad
    <3>2. QED
      BY <1>1, <3>1
  <2>5. shared[s \ {g}] = Merged(items, s \ {g})
    BY <2>3, <2>4
  <2>6. shared[s] = SetKeys(shared[s \ {g}], items[g])
    BY <1>3, <1>5, <2>1 DEF Turn
  <2> HIDE DEF Bad
  <2>7. Merged(items, s) = SetKeys(Merged(items, s \ {g}), items[g])
    BY <1>3, <1>5, <2>1, MergedStep
  <2>8. QED
    BY <1>2, <2>5, <2>6, <2>7
<1>6. QED
  BY <1>4, <1>5

LEMMA SharedIsMerged ==
    ASSUME NEW n \in Nat, NEW items, DOMAIN items = 1..n
    PROVE  SharedLabels(items) = Merged(items, DOMAIN items)
<1>1. PICK shared : shared = CHOOSE f : f = Turn(items, f)
  OBVIOUS
<1>2. shared = Turn(items, shared)
  BY <1>1, MergedIsAFold
<1>3. QED
  BY <1>1, <1>2, FoldsAreMerged, SharedIsAFold

(* The map that all decoded items share has, for every label, the value of *)
(* the last item that carries it (listPolr, polr.go:335-341), whatever     *)
(* items there are.                                                        *)
THEOREM SharedMapIsLastWriters ==
    ASSUME NEW n \in Nat, NEW items, DOMAIN items = 1..n
    PROVE  LastWriterWins(items)
<1>1. PICK shared : shared = SharedLabels(items)
  OBVIOUS
<1>2. shared = Merged(items, DOMAIN items)
  BY <1>1, SharedIsMerged
<1>3. DOMAIN shared = UNION {DOMAIN items[i] : i \in DOMAIN items}
  BY <1>2 DEF Merged
<1>4. ASSUME NEW l \in DOMAIN shared
      PROVE  \E i \in DOMAIN items :
                 /\ l \in DOMAIN items[i] /\ shared[l] = items[i][l]
                 /\ \A j \in DOMAIN items : l \in DOMAIN items[j] => j <= i
  <2>1. PICK carriers : carriers = {i \in DOMAIN items : l \in DOMAIN items[i]}
    OBVIOUS
  <2>2. carriers \in SUBSET (1..n) /\ carriers # {}
    BY <1>3, <2>1
  <2>3. Max(carriers) \in carriers /\ \A j \in carriers : j <= Max(carriers)
    BY <2>2, GreatestNumber
  <2>4. shared[l] = items[Max(carriers)][l]
    BY <1>2, <1>3, <2>1 DEF Merged, LastCarrier
  <2>5. QED
    BY <2>1, <2>3, <2>4
<1>5. QED
  BY <1>1, <1>3, <1>4 DEF LastWriterWins

-----------------------------------------------------------------------------
(* Keys.                                                                   *)

(* Two reports share a key only if they are the same: within a kind the key*)
(* tells version, namespace and name, and the kinds' keys never meet.      *)
THEOREM KeysTellReportsApart ==
    ASSUME NEW v, NEW w, NEW ns, NEW ms, NEW a, NEW b
    PROVE  /\ PolrKey(v, ns, a) = PolrKey(w, ms, b) => v = w /\ ns = ms /\ a = b
           /\ CpolrKey(v, a) = CpolrKey(w, b) => v = w /\ a = b
           /\ PolrKey(v, ns, a) # CpolrKey(w, b)
<1>1. PolrKey(v, ns, a) = PolrKey(w, ms, b) => v = w /\ ns = ms /\ a = b
  BY DEF PolrKey
<1>2. CpolrKey(v, a) = CpolrKey(w, b) => v = w /\ a = b
  BY DEF CpolrKey
<1>3. PolrKey(v, ns, a)[3] # CpolrKey(w, b)[3]
  BY DEF PolrKey, CpolrKey
<1>4. QED
  BY <1>1, <1>2, <1>3

LEMMA PolrListFinds ==
    ASSUME NEW v, NEW w, NEW ns, NEW ms, NEW a
    PROVE  HasPrefix(PolrListKey(v, ns), PolrKey(w, ms, a)) <=> v = w /\ ns = ms
<1>1. Len(PolrListKey(v, ns)) = 5 /\ Len(PolrKey(w, ms, a)) = 6
  BY DEF PolrListKey, PolrKey
<1>2. \A i \in 1..5 : i \in {1, 2, 3, 4, 5}
  OBVIOUS
<1>3. QED
  BY <1>1, <1>2 DEF HasPrefix, PolrListKey, PolrKey

(* A list returns the reports of its version, namespace and kind, and a    *)
(* list over all namespaces, for which the namespace in the prefix is      *)
(* empty, returns none that is in a namespace.                             *)
THEOREM ListsFindTheirOwn ==
    ASSUME NEW v, NEW w, NEW ns, NEW ms, NEW a
    PROVE  /\ HasPrefix(PolrListKey(v, ns), PolrKey(w, ms, a)) <=> v = w /\ ns = ms
           /\ HasPrefix(CpolrListKey(v), CpolrKey(w, a)) <=> v = w
           /\ ~HasPrefix(PolrListKey(v, ns), CpolrKey(w, a))
           /\ ~HasPrefix(CpolrListKey(v), PolrKey(w, ms, a))
           /\ ms # "" => ~HasPrefix(PolrListKey(v, AllNamespaces), PolrKey(w, ms, a))
<1>1. \A n : HasPrefix(PolrListKey(v, n), PolrKey(w, ms, a)) <=> v = w /\ n = ms
  BY PolrListFinds
<1>2. HasPrefix(CpolrListKey(v), CpolrKey(w, a)) <=> v = w
  <2>1. Len(CpolrListKey(v)) = 3 /\ Len(CpolrKey(w, a)) = 4
    BY DEF CpolrListKey, CpolrKey
  <2>2. \A i \in 1..3 : i \in {1, 2, 3}
    OBVIOUS
  <2>3. QED
    BY <2>1, <2>2 DEF HasPrefix, CpolrListKey, CpolrKey
<1>3. ~HasPrefix(PolrListKey(v, ns), CpolrKey(w, a))
  BY DEF HasPrefix, PolrListKey, CpolrKey
<1>4. ~HasPrefix(CpolrListKey(v), PolrKey(w, ms, a))
  <2>1. Len(CpolrListKey(v)) = 3 /\ CpolrListKey(v)[3] # PolrKey(w, ms, a)[3]
    BY DEF CpolrListKey, PolrKey
  <2>2. QED
    BY <2>1 DEF HasPrefix
<1>5. QED
  BY <1>1, <1>2, <1>3, <1>4 DEF AllNamespaces

-----------------------------------------------------------------------------
(* Buckets.                                                                *)

LEMMA ElementIn ==
    ASSUME NEW s \in Seq(Nat), NEW i \in 1..Len(s)
    PROVE  s[i] \in Nat
  OBVIOUS

LEMMA ConcatValues ==
    ASSUME NEW a \in Seq(Nat), NEW b \in Seq(Nat)
    PROVE  /\ Len(a \o b) = Len(a) + Len(b)
           /\ \A i \in 1..(Len(a) + Len(b)) :
                  (a \o b)[i] = IF i <= Len(a) THEN a[i] ELSE b[i - Len(a)]
<1>1. Len(a) \in Nat /\ Len(b) \in Nat
  OBVIOUS
<1>2. Len(a \o b) = Len(a) + Len(b)
  OBVIOUS
<1>3. \A i \in 1..(Len(a) + Len(b)) : (a \o b)[i] = IF i <= Len(a) THEN a[i] ELSE b[i - Len(a)]
  BY <1>1
<1>4. QED
  BY <1>2, <1>3

LEMMA ConcatAt ==
    ASSUME NEW a \in Seq(Nat), NEW b \in Seq(Nat), NEW i \in 1..Len(b)
    PROVE  Len(a) + i \in DOMAIN (a \o b) /\ (a \o b)[Len(a) + i] = b[i]
<1>1. /\ Len(a) \in Nat /\ Len(b) \in Nat
      /\ a \o b \in Seq(Nat) /\ Len(a \o b) = Len(a) + Len(b)
  OBVIOUS
<1>2. Len(a) + i \in 1..(Len(a) + Len(b)) /\ ~(Len(a) + i <= Len(a)) /\ Len(a) + i - Len(a) = i
  BY <1>1
<1>3. DOMAIN (a \o b) = 1..(Len(a) + Len(b))
  BY <1>1
<1>4. QED
  BY <1>2, <1>3, ConcatValues

LEMMA DefBucketsLength == DefBuckets \in Seq(Nat) /\ Len(DefBuckets) = 11
<1>1. DefBuckets \in Seq(Nat)
  BY DEF DefBuckets
<1>2. Len(DefBuckets) = 11
  BY DEF DefBuckets
<1>3. QED
  BY <1>1, <1>2

LEMMA DefBucketValues ==
    /\ DefBuckets[1] = 10 /\ DefBuckets[2] = 20 /\ DefBuckets[3] = 50
    /\ DefBuckets[4] = 100 /\ DefBuckets[5] = 200 /\ DefBuckets[6] = 500
    /\ DefBuckets[7] = 1000 /\ DefBuckets[8] = 2000 /\ DefBuckets[9] = 5000
    /\ DefBuckets[10] = 10000 /\ DefBuckets[11] = 20000
<1>1. /\ DefBuckets[1] = 10 /\ DefBuckets[2] = 20 /\ DefBuckets[3] = 50
      /\ DefBuckets[4] = 100 /\ DefBuckets[5] = 200 /\ DefBuckets[6] = 500
  BY DEF DefBuckets
<1>2. /\ DefBuckets[7] = 1000 /\ DefBuckets[8] = 2000 /\ DefBuckets[9] = 5000
      /\ DefBuckets[10] = 10000 /\ DefBuckets[11] = 20000
  BY DEF DefBuckets
<1>3. QED
  BY <1>1, <1>2

LEMMA Ends == Shortest = 10 /\ Longest = 20000 /\ Longest = DefBuckets[11]
  BY DefBucketsLength, DefBucketValues DEF Shortest, Longest, Last

LEMMA DefBucketsIncrease == \A i \in 1..10 : DefBuckets[i] < DefBuckets[i + 1]
<1> DEFINE d == DefBuckets
<1>1. /\ d[1] < d[2] /\ d[2] < d[3] /\ d[3] < d[4] /\ d[4] < d[5] /\ d[5] < d[6]
      /\ d[6] < d[7] /\ d[7] < d[8] /\ d[8] < d[9] /\ d[9] < d[10] /\ d[10] < d[11]
  BY DefBucketValues
<1> HIDE DEF d
<1>2. SUFFICES ASSUME NEW i \in 1..10 PROVE d[i] < d[i + 1]
  BY DEF d
<1>3. i = 1 \/ i = 2 \/ i = 3 \/ i = 4 \/ i = 5 \/ i = 6 \/ i = 7 \/ i = 8 \/ i = 9 \/ i = 10
  OBVIOUS
<1>4. QED
  BY <1>1, <1>3

LEMMA InsertAtValues ==
    ASSUME NEW s \in Seq(Nat), NEW i \in 1..Len(s), NEW e \in Nat
    PROVE  /\ Len(InsertAt(s, i, e)) = Len(s) + 1
           /\ \A j \in 1..(Len(s) + 1) : InsertAt(s, i, e)[j] =
                  IF j < i THEN s[j] ELSE IF j = i THEN e ELSE s[j - 1]
<1> DEFINE front == SubSeq(s, 1, i - 1)
           back == SubSeq(s, i, Len(s))
<1>0. Len(s) \in Nat /\ i - 1 \in Nat /\ i - 1 <= Len(s)
  OBVIOUS
<1>1. front \in Seq(Nat) /\ Len(front) = i - 1 /\ \A j \in 1..(i - 1) : front[j] = s[j]
  <2>1. front = [j \in 1..(i - 1) |-> s[j]]
    BY <1>0
  <2>2. \A j \in 1..(i - 1) : s[j] \in Nat
    BY <1>0
  <2>3. QED
    BY <1>0, <2>1, <2>2
<1>2. /\ back \in Seq(Nat) /\ Len(back) = Len(s) + 1 - i
      /\ \A j \in 1..(Len(s) + 1 - i) : back[j] = s[i + j - 1]
  <2>1. back = [j \in 1..(Len(s) + 1 - i) |-> s[i + j - 1]]
    BY <1>0
  <2>2. \A j \in 1..(Len(s) + 1 - i) : s[i + j - 1] \in Nat
    BY <1>0
  <2>3. QED
    BY <1>0, <2>1, <2>2
<1>3. InsertAt(s, i, e) = front \o <<e>> \o back
  BY DEF InsertAt
<1> HIDE DEF front, back
<1> DEFINE start == front \o <<e>>
<1>4. /\ start \in Seq(Nat) /\ Len(start) = i
      /\ \A j \in 1..i : start[j] = IF j < i THEN s[j] ELSE e
  BY <1>1
<1> HIDE DEF start
<1>5. /\ Len(start \o back) = Len(s) + 1
      /\ \A j \in 1..(Len(s) + 1) : (start \o back)[j] =
             IF j < i THEN s[j] ELSE IF j = i THEN e ELSE s[j - 1]
  <2>0. i + (Len(s) + 1 - i) = Len(s) + 1
    BY <1>0
  <2>1. Len(start \o back) = Len(s) + 1
    BY ONLY <1>2, <1>4, <2>0, ConcatValues
  <2>2. ASSUME NEW j \in 1..(Len(s) + 1)
        PROVE  (start \o back)[j] = IF j <= i THEN start[j] ELSE back[j - i]
    <3>1. j \in 1..(Len(start) + Len(back))
      BY <1>2, <1>4, <2>0
    <3>2. (start \o back)[j] = IF j <= Len(start) THEN start[j] ELSE back[j - Len(start)]
      BY <1>2, <1>4, <3>1, ConcatValues, Zenon
    <3>3. QED
      BY <1>4, <3>2
  <2>3. ASSUME NEW j \in 1..(Len(s) + 1)
        PROVE  (start \o back)[j] = IF j < i THEN s[j] ELSE IF j = i THEN e ELSE s[j - 1]
    <3>1. CASE j <= i
      BY <1>4, <2>2, <3>1
    <3>2. CASE j > i
      <4>1. j - i \in 1..(Len(s) + 1 - i) /\ i + (j - i) - 1 = j - 1
        BY <1>0, <3>2
      <4>2. back[j - i] = s[j - 1]
        BY <1>2, <4>1
      <4>3. ~(j <= i) /\ ~(j < i) /\ j # i
        BY <1>0, <3>2
      <4>4. QED
        BY <2>2, <4>2, <4>3
    <3>3. j <= i \/ j > i
      BY <1>0
    <3>4. QED
      BY <3>1, <3>2, <3>3
  <2>4. QED
    BY <2>1, <2>3
<1>6. QED
  BY <1>3, <1>5 DEF start

LEMMA InsertIncreases ==
    ASSUME NEW s \in Seq(Nat), \A j \in 1..(Len(s) - 1) : s[j] < s[j + 1],
           NEW i \in 1..Len(s), NEW e \in Nat, e < s[i], i > 1 => s[i - 1] < e
    PROVE  \A j \in 1..(Len(InsertAt(s, i, e)) - 1) :
               InsertAt(s, i, e)[j] < InsertAt(s, i, e)[j + 1]
<1> DEFINE r == InsertAt(s, i, e)
<1>1. /\ Len(r) = Len(s) + 1
      /\ \A j \in 1..(Len(s) + 1) : r[j] = IF j < i THEN s[j] ELSE IF j = i THEN e ELSE s[j - 1]
  BY InsertAtValues
<1> HIDE DEF r
<1>2. SUFFICES ASSUME NEW j \in 1..Len(s) PROVE r[j] < r[j + 1]
  BY <1>1 DEF r
<1>3. CASE j < i - 1
  <2>1. r[j] = s[j] /\ r[j + 1] = s[j + 1] /\ j \in 1..(Len(s) - 1)
    BY <1>1, <1>3
  <2>2. QED
    BY <2>1
<1>4. CASE j = i - 1
  <2>1. r[j] = s[i - 1] /\ r[j + 1] = e
    BY <1>1, <1>4
  <2>2. QED
    BY <1>4, <2>1
<1>5. CASE j = i
  <2>1. r[j] = e /\ r[j + 1] = s[i]
    BY <1>1, <1>5
  <2>2. QED
    BY <2>1
<1>6. CASE j > i
  <2>1. r[j] = s[j - 1] /\ r[j + 1] = s[j] /\ j - 1 \in 1..(Len(s) - 1)
    BY <1>1, <1>6
  <2>2. s[j - 1] < s[(j - 1) + 1]
    BY <2>1
  <2>3. QED
    BY <2>1, <2>2
<1>7. QED
  BY <1>3, <1>4, <1>5, <1>6

(* The bucket at which the loop breaks off is the first above the t. *)
LEMMA FirstAboveFound ==
    ASSUME NEW t \in Nat, t < Longest
    PROVE  /\ FirstAbove(t) \in 1..11
           /\ DefBuckets[FirstAbove(t)] > t
           /\ \A j \in 1..(FirstAbove(t) - 1) : DefBuckets[j] <= t
<1> DEFINE First(n) == DefBuckets[n] > t /\ \A j \in 1..(n - 1) : DefBuckets[j] <= t
<1>1. ASSUME NEW n \in 1..10, \A j \in 1..n : DefBuckets[j] <= t, ~First(n + 1)
      PROVE  \A j \in 1..(n + 1) : DefBuckets[j] <= t
  <2>1. n + 1 \in 1..Len(DefBuckets)
    BY DefBucketsLength
  <2>2. DefBuckets[n + 1] \in Nat
    BY <2>1, DefBucketsLength, ElementIn
  <2>3. QED
    BY <1>1, <2>2
<1>2. First(1) \/ \A j \in 1..1 : DefBuckets[j] <= t
  BY DefBucketValues
<1> HIDE DEF First
<1> DEFINE Below(n) == \A j \in 1..n : DefBuckets[j] <= t
<1>3. \A n \in 1..10 : Below(n) /\ ~First(n + 1) => Below(n + 1)
  BY <1>1
<1>4. ~Below(11)
  BY Ends
<1>5. First(1) \/ Below(1)
  BY <1>2
<1> HIDE DEF Below
<1>6. \E n \in 1..11 : First(n)
  <2> SUFFICES ASSUME \A n \in 1..11 : ~First(n) PROVE FALSE
    OBVIOUS
  <2>1. \A n \in 1..10 : Below(n) => Below(n + 1)
    BY <1>3
  <2>2. Below(2) /\ Below(3) /\ Below(4) /\ Below(5) /\ Below(6)
    BY <1>5, <2>1
  <2>3. Below(7) /\ Below(8) /\ Below(9) /\ Below(10) /\ Below(11)
    BY <2>1, <2>2
  <2>4. QED
    BY <1>4, <2>3
<1>7. FirstAbove(t) = CHOOSE n \in 1..11 : First(n)
  BY DefBucketsLength DEF FirstAbove, First
<1>8. First(FirstAbove(t)) /\ FirstAbove(t) \in 1..11
  BY <1>6, <1>7
<1>9. QED
  BY <1>8 DEF First

LEMMA BucketCases ==
    ASSUME NEW t \in Nat
    PROVE  /\ t > Longest => BucketsForScrapeDuration(t) =
                  DefBuckets \o <<Longest + (t - Longest) \div 2, t,
                                  t + t \div 2, 2 * t>>
           /\ t < Longest => BucketsForScrapeDuration(t) =
                  IF CloseToABucket(t, FirstAbove(t)) THEN DefBuckets
                  ELSE InsertAt(DefBuckets, FirstAbove(t), t)
           /\ t = Longest => BucketsForScrapeDuration(t) = DefBuckets
<1>1. Longest \in Nat
  BY Ends
<1>2. /\ t > Longest => ~(t < Longest)
      /\ t < Longest => ~(t > Longest)
      /\ t = Longest => ~(t < Longest) /\ ~(t > Longest)
  BY <1>1
<1>3. QED
  BY ONLY <1>2, Zenon DEF BucketsForScrapeDuration

LEMMA IncreasingIf ==
    ASSUME NEW t, NEW r, r = BucketsForScrapeDuration(t),
           \A i \in 1..(Len(r) - 1) : r[i] < r[i + 1]
    PROVE  Increasing(t)
  BY DEF Increasing

LEMMA LongerIncrease ==
    ASSUME NEW d \in Seq(Nat), Len(d) = 11, \A i \in 1..10 : d[i] < d[i + 1],
           NEW b \in Seq(Nat), Len(b) = 4,
           d[11] < b[1], b[1] < b[2], b[2] < b[3], b[3] < b[4]
    PROVE  Len(d \o b) = 15 /\ \A i \in 1..14 : (d \o b)[i] < (d \o b)[i + 1]
<1> DEFINE r == d \o b
<1>1. Len(d) + Len(b) = 15
  OBVIOUS
<1>2. Len(r) = 15 /\ \A i \in 1..15 : r[i] = IF i <= 11 THEN d[i] ELSE b[i - 11]
  <2>1. /\ Len(r) = Len(d) + Len(b)
        /\ \A i \in 1..(Len(d) + Len(b)) :
               r[i] = IF i <= Len(d) THEN d[i] ELSE b[i - Len(d)]
    BY ConcatValues, Zenon
  <2>2. QED
    BY <1>1, <2>1
<1> HIDE DEF r
<1>3. ASSUME NEW i \in 1..14 PROVE r[i] < r[i + 1]
  <2>1. CASE i <= 10
    <3>1. r[i] = d[i] /\ r[i + 1] = d[i + 1] /\ i \in 1..10
      BY <1>2, <2>1
    <3>2. QED
      BY <3>1
  <2>2. CASE i = 11
    <3>1. r[i] = d[11] /\ r[i + 1] = b[1]
      BY <1>2, <2>2
    <3>2. QED
      BY <3>1
  <2>3. CASE i = 12 \/ i = 13 \/ i = 14
    BY <1>2, <2>3
  <2>4. QED
    BY <2>1, <2>2, <2>3
<1>4. QED
  BY <1>2, <1>3 DEF r

LEMMA AboveLongestIncreases ==
    ASSUME NEW ms \in Nat, NEW t \in Nat, t = 2 * ms, t > Longest
    PROVE  Increasing(t)
<1> DEFINE mid == Longest + (t - Longest) \div 2
           b == <<mid, t, t + t \div 2, 2 * t>>
<1>1. t \div 2 = ms /\ (t - 20000) \div 2 = ms - 10000 /\ ms > 10000
  BY Ends
<1>2. mid = ms + 10000 /\ mid \in Nat
  BY <1>1, Ends
<1>3. BucketsForScrapeDuration(t) = DefBuckets \o b
  BY BucketCases
<1> HIDE DEF mid
<1>4. /\ b \in Seq(Nat) /\ Len(b) = 4
      /\ b[1] = mid /\ b[2] = t /\ b[3] = t + ms /\ b[4] = 2 * t
  BY <1>1, <1>2
<1> HIDE DEF b
<1>5. Longest < b[1] /\ b[1] < b[2] /\ b[2] < b[3] /\ b[3] < b[4]
  BY <1>1, <1>2, <1>4, Ends
<1>6. DefBuckets[11] < b[1]
  BY <1>5, Ends
<1>7. /\ Len(DefBuckets \o b) = 15
      /\ \A i \in 1..14 : (DefBuckets \o b)[i] < (DefBuckets \o b)[i + 1]
  BY ONLY <1>4, <1>5, <1>6, DefBucketsLength, DefBucketsIncrease, LongerIncrease
<1>8. \A i \in 1..(Len(DefBuckets \o b) - 1) : (DefBuckets \o b)[i] < (DefBuckets \o b)[i + 1]
  <2> DEFINE r == DefBuckets \o b
  <2>1. Len(r) = 15 /\ \A i \in 1..14 : r[i] < r[i + 1]
    BY <1>7
  <2> HIDE DEF r
  <2>2. \A i \in 1..(Len(r) - 1) : r[i] < r[i + 1]
    BY <2>1
  <2>3. QED
    BY <2>2, Zenon DEF r
<1>9. QED
  BY <1>3, <1>8, IncreasingIf, Zenon

LEMMA UnchangedIncreases ==
    ASSUME NEW t, BucketsForScrapeDuration(t) = DefBuckets
    PROVE  Increasing(t)
<1>1. \A i \in 1..(Len(DefBuckets) - 1) : DefBuckets[i] < DefBuckets[i + 1]
  BY DefBucketsLength, DefBucketsIncrease
<1>2. QED
  BY <1>1, IncreasingIf

LEMMA BelowLongestIncreases ==
    ASSUME NEW t \in Nat, t < Longest
    PROVE  Increasing(t)
<1>1. PICK i \in 1..11 : /\ i = FirstAbove(t) /\ DefBuckets[i] > t
                         /\ \A j \in 1..(i - 1) : DefBuckets[j] <= t
  BY FirstAboveFound
<1>2. BucketsForScrapeDuration(t) =
          IF CloseToABucket(t, i) THEN DefBuckets ELSE InsertAt(DefBuckets, i, t)
  BY <1>1, BucketCases
<1>3. CASE CloseToABucket(t, i)
  BY <1>2, <1>3, UnchangedIncreases
<1>4. CASE ~CloseToABucket(t, i)
  <2>1. i > 1 => ~(t - DefBuckets[i - 1] < 10)
    BY <1>4, Ends DEF CloseToABucket
  <2>2. i > 1 => DefBuckets[i - 1] \in Nat
    <3>1. i > 1 => i - 1 \in 1..Len(DefBuckets)
      BY DefBucketsLength
    <3>2. QED
      BY <3>1, DefBucketsLength, ElementIn
  <2>3. i > 1 => DefBuckets[i - 1] < t
    BY <2>1, <2>2
  <2>4. i \in 1..Len(DefBuckets) /\ t < DefBuckets[i]
    <3>1. DefBuckets[i] \in Nat
      BY DefBucketsLength, ElementIn
    <3>2. QED
      BY <1>1, <3>1, DefBucketsLength
  <2>6. \A j \in 1..(Len(DefBuckets) - 1) : DefBuckets[j] < DefBuckets[j + 1]
    BY DefBucketsLength, DefBucketsIncrease
  <2>7. \A j \in 1..(Len(InsertAt(DefBuckets, i, t)) - 1) :
            InsertAt(DefBuckets, i, t)[j] < InsertAt(DefBuckets, i, t)[j + 1]
    BY <2>3, <2>4, <2>6, DefBucketsLength, InsertIncreases
  <2>8. QED
    BY <1>2, <1>4, <2>7, IncreasingIf, Zenon
<1>5. QED
  BY <1>3, <1>4

(* Buckets increase strictly for every resolution in whole milliseconds.   *)
THEOREM BucketsAlwaysIncrease == \A ms \in Nat : Increasing(2 * ms)
<1> SUFFICES ASSUME NEW ms \in Nat, NEW t \in Nat, t = 2 * ms
             PROVE  Increasing(t)
  OBVIOUS
<1>1. CASE t > Longest
  BY <1>1, AboveLongestIncreases
<1>2. CASE t < Longest
  BY <1>2, BelowLongestIncreases
<1>3. CASE t = Longest
  BY <1>3, BucketCases, UnchangedIncreases
<1>4. QED
  BY <1>1, <1>2, <1>3, Ends

LEMMA InsertedBucket ==
    ASSUME NEW i \in 1..11, NEW e \in Nat
    PROVE  Len(InsertAt(DefBuckets, i, e)) = 12 /\ InsertAt(DefBuckets, i, e)[i] = e
<1>1. ASSUME NEW s \in Seq(Nat), i \in 1..Len(s)
      PROVE  Len(InsertAt(s, i, e)) = Len(s) + 1 /\ InsertAt(s, i, e)[i] = e
  <2>1. Len(InsertAt(s, i, e)) = Len(s) + 1
    BY <1>1, InsertAtValues
  <2>2. i \in 1..(Len(s) + 1) /\ ~(i < i)
    BY <1>1
  <2>3. QED
    BY <1>1, <2>1, <2>2, InsertAtValues
<1>2. DefBuckets \in Seq(Nat) /\ Len(DefBuckets) = 11
  BY DefBucketsLength
<1>3. i \in 1..Len(DefBuckets)
  BY <1>2
<1>4. Len(InsertAt(DefBuckets, i, e)) = Len(DefBuckets) + 1 /\ InsertAt(DefBuckets, i, e)[i] = e
  BY <1>1, <1>2, <1>3
<1>5. QED
  BY <1>2, <1>4

(* A bucket is less than the shortest bucket, 5 ms, from the resolution,   *)
(* and at it if the options accept it, whatever the whole milliseconds.    *)
LEMMA BucketsPinpointTimeout == \A ms \in Nat \ {0} : PinpointsTimeout(2 * ms)
<1> SUFFICES ASSUME NEW t \in Nat, t > 0
             PROVE  PinpointsTimeout(t)
  OBVIOUS
<1> DEFINE near == IF Accepted(t) THEN {t} ELSE (t - Shortest + 1)..(t + Shortest - 1)
           b == <<Longest + (t - Longest) \div 2, t, t + t \div 2, 2 * t>>
<1>1. t \in near
  BY Ends
<1>2. SUFFICES \E i \in DOMAIN BucketsForScrapeDuration(t) : BucketsForScrapeDuration(t)[i] \in near
  BY DEF PinpointsTimeout
<1>3. DefBuckets \in Seq(Nat) /\ Len(DefBuckets) = 11 /\ DOMAIN DefBuckets = 1..11
  BY DefBucketsLength
<1>4. CASE t > Longest
  <2>1. BucketsForScrapeDuration(t) = DefBuckets \o b
    BY <1>4, BucketCases
  <2>2. b \in Seq(Nat) /\ Len(b) = 4 /\ b[2] = t
    BY <1>4, Ends
  <2> HIDE DEF b, near
  <2>3. 2 \in 1..Len(b)
    BY <2>2
  <2>4. /\ Len(DefBuckets) + 2 \in DOMAIN (DefBuckets \o b)
        /\ (DefBuckets \o b)[Len(DefBuckets) + 2] = b[2]
    BY <1>3, <2>2, <2>3, ConcatAt, Zenon
  <2>5. QED
    BY <1>1, <2>1, <2>2, <2>4, Zenon
<1>5. CASE t < Longest
  <2>1. PICK i \in 1..11 : i = FirstAbove(t) /\ DefBuckets[i] > t
    BY <1>5, FirstAboveFound
  <2>2. near = (t - 9)..(t + 9)
    BY <1>5, Ends DEF Accepted
  <2> HIDE DEF b, near
  <2>3. CASE CloseToABucket(t, i)
    <3>1. BucketsForScrapeDuration(t) = DefBuckets
      BY <1>5, <2>1, <2>3, BucketCases
    <3>2. CASE DefBuckets[i] - t < Shortest
      <4>1. DefBuckets[i] \in Nat
        BY <1>3, ElementIn
      <4>2. DefBuckets[i] \in near
        BY <2>1, <2>2, <3>2, <4>1, Ends
      <4>3. QED
        BY <1>3, <3>1, <4>2
    <3>3. CASE i > 1 /\ t - DefBuckets[i - 1] < Shortest
      <4>1. i - 1 \in 1..11 /\ DefBuckets[i - 1] \in Nat
        <5>1. i - 1 \in 1..11
          BY <3>3
        <5>2. QED
          BY <1>3, <5>1, ElementIn
      <4>2. DefBuckets[i - 1] <= t
        BY <1>5, <2>1, <3>3, FirstAboveFound
      <4>3. DefBuckets[i - 1] \in near
        BY <2>2, <3>3, <4>1, <4>2, Ends
      <4>4. QED
        BY <1>3, <3>1, <4>1, <4>3
    <3>4. QED
      BY <2>3, <3>2, <3>3 DEF CloseToABucket
  <2>4. CASE ~CloseToABucket(t, i)
    <3>1. BucketsForScrapeDuration(t) = InsertAt(DefBuckets, i, t)
      BY <1>5, <2>1, <2>4, BucketCases
    <3>2. Len(InsertAt(DefBuckets, i, t)) = 12 /\ InsertAt(DefBuckets, i, t)[i] = t
      BY InsertedBucket
    <3>3. i \in DOMAIN InsertAt(DefBuckets, i, t)
      BY <1>3 DEF InsertAt
    <3>4. QED
      BY <1>1, <3>1, <3>2, <3>3, Zenon
  <2>5. QED
    BY <2>3, <2>4
<1>6. CASE t = Longest
  <2>1. BucketsForScrapeDuration(t) = DefBuckets
    BY <1>6, BucketCases, Zenon
  <2>2. DefBuckets[11] = t /\ 11 \in DOMAIN DefBuckets
    BY <1>3, <1>6, Ends
  <2> HIDE DEF b, near
  <2>3. QED
    BY <1>1, <2>1, <2>2, Zenon
<1>7. QED
  BY <1>4, <1>5, <1>6, Ends

(* The options accept a resolution of ten seconds or more; every such one  *)
(* is a bucket itself.  A shorter one may be left out for a bucket less    *)
(* than five milliseconds from it, as 6 ms is (monitoring.go:32).      *)
THEOREM AcceptedResolutionIsABucket ==
    ASSUME NEW ms \in Nat, Accepted(2 * ms)
    PROVE  LET buckets == BucketsForScrapeDuration(2 * ms)
           IN  \E i \in DOMAIN buckets : buckets[i] = 2 * ms
<1>1. ms \in Nat \ {0}
  BY DEF Accepted
<1>2. PinpointsTimeout(2 * ms)
  BY <1>1, BucketsPinpointTimeout
<1>3. QED
  BY <1>2 DEF PinpointsTimeout

-----------------------------------------------------------------------------
(* The invariants of MCPureFunctions.                                      *)

Inputs ==
    /\ labelsOf \in Seq(LabelMaps)
    /\ stored \subseteq Identities /\ IsFiniteSet(stored)
    /\ timeout \in Nat /\ \E ms \in Nat \ {0} : timeout = 2 * ms

LEMMA InputsStay == Spec => []Inputs
<1>1. Init => Inputs
  <2> SUFFICES ASSUME Init
               PROVE  Inputs
    OBVIOUS
  <2>1. timeout = 2 * 1 /\ 1 \in Nat \ {0}
    BY DEF Init
  <2>2. QED
    BY <2>1, FS_EmptySet DEF Init, Inputs
<1>2. Inputs /\ [Next]_vars => Inputs'
  <2> SUFFICES ASSUME Inputs, [Next]_vars
               PROVE  Inputs'
    OBVIOUS
  <2>1. CASE OneMoreReport
    BY <2>1 DEF OneMoreReport, Inputs
  <2>2. CASE OneMoreKey
    BY <2>2, FS_AddElement DEF OneMoreKey, Inputs
  <2>3. CASE LongerTimeout
    <3>1. PICK ms \in Nat \ {0} : timeout = 2 * ms
      BY DEF Inputs
    <3>2. timeout' = 2 * (ms + 1) /\ ms + 1 \in Nat \ {0} /\ timeout' \in Nat
      BY <2>3, <3>1 DEF LongerTimeout
    <3>3. QED
      BY <2>3, <3>2 DEF LongerTimeout, Inputs
  <2>4. CASE UNCHANGED vars
    BY <2>4 DEF vars, Inputs
  <2>5. QED
    BY <2>1, <2>2, <2>3, <2>4 DEF Next, Full
<1>3. QED
  BY <1>1, <1>2, PTL DEF Spec

(* A list with a selector is all of the stored reports or none of them     *)
(* (polr.go:86-108), however many reports are stored.                      *)
THEOREM ListsAreAllOrNothing == Spec => []ListAllOrNothing
<1>1. ListAllOrNothing
  BY SelectorKeepsAllOrNothing DEF ListAllOrNothing
<1>2. QED
  BY <1>1, PTL

(* The labels of the decoded items are those of the last writers, whatever *)
(* reports are stored (polr.go:335-341).                                   *)
THEOREM ListsAreLastWriters == Spec => []ListLastWriterWins
<1>1. Inputs => ListLastWriterWins
  BY SharedMapIsLastWriters DEF Inputs, ListLastWriterWins
<1>2. QED
  BY <1>1, InputsStay, PTL

(* Buckets increase strictly (monitoring.go:26-43), however long the       *)
(* resolution.                                                             *)
THEOREM BucketsAreIncreasing == Spec => []BucketsIncrease
<1>1. Inputs => BucketsIncrease
  BY BucketsAlwaysIncrease DEF Inputs, BucketsIncrease
<1>2. QED
  BY <1>1, InputsStay, PTL

(* A bucket is at the resolution, or less than 5 ms from one that the      *)
(* options do not accept, however long it is (monitoring.go:16-43).        *)
THEOREM BucketsAreAtTimeout == Spec => []BucketAtTimeout
<1>1. Inputs => BucketAtTimeout
  BY BucketsPinpointTimeout DEF Inputs, BucketAtTimeout
<1>2. QED
  BY <1>1, InputsStay, PTL

LEMMA KeysDiffer ==
    ASSUME NEW id \in Identities, NEW other \in Identities, KeyOf(id) = KeyOf(other)
    PROVE  id = other
<1>1. id = <<id[1], id[2], id[3]>> /\ other = <<other[1], other[2], other[3]>>
  BY DEF Identities
<1>2. CASE id[2] = AllNamespaces /\ other[2] = AllNamespaces
  BY <1>1, <1>2, KeysTellReportsApart DEF KeyOf
<1>3. CASE id[2] # AllNamespaces /\ other[2] # AllNamespaces
  BY <1>1, <1>3, KeysTellReportsApart DEF KeyOf
<1>4. CASE (id[2] = AllNamespaces) # (other[2] = AllNamespaces)
  BY <1>4, KeysTellReportsApart DEF KeyOf
<1>5. QED
  BY <1>2, <1>3, <1>4

(* Each of any number of stored reports has a key of its own, and a list   *)
(* finds those of its kind, version and namespace.                         *)
THEOREM ListsAlwaysFindTheirOwn == Spec => []ListFindsItsOwn
<1>1. Inputs => ListFindsItsOwn
  <2> SUFFICES ASSUME Inputs
               PROVE  ListFindsItsOwn
    OBVIOUS
  <2>1. Cardinality({KeyOf(id) : id \in stored}) = Cardinality(stored)
    <3> DEFINE keys == {KeyOf(id) : id \in stored}
               f == [id \in stored |-> KeyOf(id)]
    <3>1. f \in Surjection(stored, keys)
      BY DEF Surjection
    <3>2. f \in Injection(stored, keys)
      BY <3>1, KeysDiffer DEF Surjection, Injection, IsInjective, Inputs
    <3>3. QED
      BY <3>1, <3>2, FS_Surjection DEF Inputs
  <2>2. ASSUME NEW v, NEW ns, NEW id
        PROVE  /\ ns # AllNamespaces =>
                      (HasPrefix(PolrListKey(v, ns), KeyOf(id)) <=> id[1] = v /\ id[2] = ns)
               /\ HasPrefix(CpolrListKey(v), KeyOf(id)) <=> id[1] = v /\ id[2] = AllNamespaces
               /\ ~HasPrefix(PolrListKey(v, AllNamespaces), KeyOf(id))
    <3>1. id[2] = AllNamespaces => KeyOf(id) = CpolrKey(id[1], id[3])
      BY DEF KeyOf
    <3>2. id[2] # AllNamespaces => KeyOf(id) = PolrKey(id[1], id[2], id[3]) /\ id[2] # ""
      BY DEF KeyOf, AllNamespaces
    <3>3. \A w, ms, a : HasPrefix(PolrListKey(v, ns), PolrKey(w, ms, a)) <=> v = w /\ ns = ms
      BY PolrListFinds
    <3>4. \A w, a : HasPrefix(CpolrListKey(v), CpolrKey(w, a)) <=> v = w
      BY ListsFindTheirOwn
    <3>5. \A w, a : ~HasPrefix(PolrListKey(v, ns), CpolrKey(w, a))
      BY ListsFindTheirOwn
    <3>6. \A w, ms, a : ~HasPrefix(CpolrListKey(v), PolrKey(w, ms, a))
      BY ListsFindTheirOwn
    <3>7. \A w, ms, a : ms # "" => ~HasPrefix(PolrListKey(v, AllNamespaces), PolrKey(w, ms, a))
      BY ListsFindTheirOwn
    <3>8. \A w, a : ~HasPrefix(PolrListKey(v, AllNamespaces), CpolrKey(w, a))
      BY ListsFindTheirOwn
    <3>9. CASE id[2] = AllNamespaces
      BY <3>1, <3>4, <3>5, <3>8, <3>9
    <3>10. CASE id[2] # AllNamespaces
      BY <3>2, <3>3, <3>6, <3>7, <3>10
    <3>11. QED
      BY <3>9, <3>10
  <2>3. \A ns \in Namespaces : ns # AllNamespaces
    BY DEF Namespaces, AllNamespaces
  <2>4. QED
    BY <2>1, <2>2, <2>3 DEF ListFindsItsOwn, Listed
<1>2. QED
  BY <1>1, InputsStay, PTL
=============================================================================
