----------------------------- MODULE ReportList -----------------------------
(***************************************************************************)
(* What List of pkg/api/polr.go and pkg/api/cpolr.go return for the values *)
(* the store hands back.  A label map is a function from label names to    *)
(* label values; the empty function stands for Labels == nil, since        *)
(* "labels" is omitted from the stored JSON when the map is empty.  A      *)
(* selector is a set of equality requirements, written as a function too;  *)
(* the empty one is labels.Everything().                                   *)
(***************************************************************************)
EXTENDS Naturals, Sequences, SequencesExt

Labelled(labels) == DOMAIN labels # {}

Matches(selector, labels) ==
    \A l \in DOMAIN selector : l \in DOMAIN labels /\ labels[l] = selector[l]

\* encoding/json sets the keys of an object in the map that it finds.
SetKeys(shared, labels) ==
    [l \in DOMAIN shared \cup DOMAIN labels |->
        IF l \in DOMAIN labels THEN labels[l] ELSE shared[l]]

\* The loop of listPolr run over the items backwards.
SharedLabelsBackwards(labelsOf) ==
    FoldLeft(LAMBDA shared, labels : SetKeys(labels, shared), << >>, labelsOf)

(***************************************************************************)
(* listPolr decodes every value into one variable declared outside its     *)
(* loop.  encoding/json keeps a map that is not nil, so the first labelled *)
(* item allocates a map that every later item shares and writes to.                                                        *)
(***************************************************************************)
SharedLabels(labelsOf) ==
    FoldLeft(SetKeys, << >>, labelsOf)

\* listPolr with the variable declared inside the loop.
DecodedAfresh(labelsOf, i) == labelsOf[i]

\* The labels of the i-th item once listPolr has returned.
DecodedLabels(labelsOf, i) ==
    IF \E j \in DOMAIN labelsOf : j <= i /\ Labelled(labelsOf[j])
    THEN SharedLabels(labelsOf)
    ELSE << >>

\* The positions of the items that List returns.  An unlabelled item makes it
\* return the whole list, whatever it had collected by then.
Kept(labelsOf, selector) ==
    IF \E i \in DOMAIN labelsOf : ~Labelled(DecodedLabels(labelsOf, i))
    THEN DOMAIN labelsOf
    ELSE {i \in DOMAIN labelsOf : Matches(selector, DecodedLabels(labelsOf, i))}

-----------------------------------------------------------------------------
(* A selector keeps the whole list or none of it, never a part: all items  *)
(* that are compared with it share one label map, and one unlabelled item  *)
(* ends the comparison.                                                    *)
AllOrNothing(labelsOf, selector) ==
    Kept(labelsOf, selector) \in {{}, DOMAIN labelsOf}

(* The shared map holds, for every label, the value of the last item that  *)
(* has the label: the decoding loop of listPolr against its closed form.   *)
LastWriterWins(labelsOf) ==
    LET shared == SharedLabels(labelsOf)
    IN  /\ DOMAIN shared = UNION {DOMAIN labelsOf[i] : i \in DOMAIN labelsOf}
        /\ \A l \in DOMAIN shared : \E i \in DOMAIN labelsOf :
               /\ l \in DOMAIN labelsOf[i] /\ shared[l] = labelsOf[i][l]
               /\ \A j \in DOMAIN labelsOf : l \in DOMAIN labelsOf[j] => j <= i

(* What the API promises of labelSelector, "a selector to restrict the     *)
(* list of returned objects by their labels"                               *)
(* (pkg/api/generated/openapi/zz_generated.openapi.go:1213): an item is    *)
(* returned only if the labels it was stored with match.                   *)
SelectorRestricts(labelsOf, selector) ==
    \A i \in Kept(labelsOf, selector) : Matches(selector, labelsOf[i])
=============================================================================
