---------------------------- MODULE AlertLabels ----------------------------
(***************************************************************************)
(* The label de-duplication of queryAlerts in                              *)
(*   src/datav/frontend/src/views/dashboard/grid/PanelGrid/PanelGrid.tsx   *)
(* for one alert of one rule: alertname is deleted from the alert's        *)
(* labels, then every key of the rule's labels, in Object.keys order, is   *)
(* deleted from them when the alert holds the same value.  Each iteration  *)
(* of the loop over ruleLabelKeys is one step, and the result is compared  *)
(* with a direct definition of what the loop should leave.                 *)
(*                                                                         *)
(* A label set is a function from some of the label names in Keys to       *)
(* Values (a JavaScript object with those own properties).                 *)
(***************************************************************************)
EXTENDS Naturals, Sequences, FiniteSets

CONSTANTS
    Keys,       \* label names
    AlertName,  \* the label name "alertname"
    Values      \* label values (strings: == is equality)

ASSUME KeysAssumption == AlertName \in Keys /\ IsFiniteSet(Keys)

(* The label sets over Keys.                                               *)
LabelSets == UNION {[D -> Values] : D \in SUBSET Keys}

(* The label set f without the names in S: `delete f[k]` for k in S.       *)
Without(f, S) == [k \in DOMAIN f \ S |-> f[k]]

(* The names a sequence lists.                                             *)
Listed(s) == {s[i] : i \in DOMAIN s}

(* The orders Object.keys can list the names of D in: each name once.     *)
Orders(D) == {s \in [1..Cardinality(D) -> D] :
                /\ Listed(s) = D
                /\ \A i, j \in DOMAIN s : s[i] = s[j] => i = j}

VARIABLES
    ruleLabels,  \* r.labels (read only)
    input,       \* the alert's labels as the datasource returned them
    labels,      \* alert.labels, being edited
    keys,        \* the part of ruleLabelKeys the loop has still to visit
    pc           \* "strip" before the delete of alertname, "loop", "done"

vars == <<ruleLabels, input, labels, keys, pc>>

Init ==
    /\ ruleLabels \in LabelSets
    /\ input \in LabelSets
    /\ labels = input
    /\ keys = << >>
    /\ pc = "strip"

(* const ruleLabelKeys = Object.keys(r.labels), and                        *)
(* `delete alert.labels.alertname`.                                        *)
Strip ==
    /\ pc = "strip"
    /\ labels' = Without(labels, {AlertName})
    /\ keys' \in Orders(DOMAIN ruleLabels)
    /\ pc' = "loop"
    /\ UNCHANGED <<ruleLabels, input>>

(* Mutant: the comparison is `!=` instead of `==`.                         *)
VisitKeyUnequal ==
    /\ pc = "loop" /\ keys # << >>
    /\ LET k == Head(keys) IN
         labels' = IF k \in DOMAIN labels /\ labels[k] # ruleLabels[k]
                   THEN Without(labels, {k}) ELSE labels
    /\ keys' = Tail(keys)
    /\ UNCHANGED <<ruleLabels, input, pc>>

(* One iteration for k: `if (alert.labels[k] == r.labels[k]) delete        *)
(* alert.labels[k]`; a name the alert lacks reads undefined, which equals  *)
(* no string.                                                              *)
VisitKey ==
    /\ pc = "loop" /\ keys # << >>
    /\ LET k == Head(keys) IN
         labels' = IF k \in DOMAIN labels /\ labels[k] = ruleLabels[k]
                   THEN Without(labels, {k}) ELSE labels
    /\ keys' = Tail(keys)
    /\ UNCHANGED <<ruleLabels, input, pc>>

(* The loop over ruleLabelKeys ends.                                       *)
LoopEnd ==
    /\ pc = "loop" /\ keys = << >>
    /\ pc' = "done"
    /\ UNCHANGED <<ruleLabels, input, labels, keys>>

Next == Strip \/ VisitKey \/ LoopEnd

Spec == Init /\ [][Next]_vars

TypeOK ==
    /\ ruleLabels \in LabelSets
    /\ input \in LabelSets
    /\ labels \in LabelSets
    /\ keys \in Seq(DOMAIN ruleLabels)
    /\ pc \in {"strip", "loop", "done"}

(* The loop seen from the specification of its result: the labels shown   *)
(* are the alert's own until the loop is over.                             *)
Abs == INSTANCE AlertDedup WITH labels <- IF pc = "done" THEN labels ELSE input,
                                done <- (pc = "done")

(* The loop over ruleLabelKeys, in whatever order Object.keys lists the    *)
(* rule's names, implements the one-step de-duplication: every iteration  *)
(* but the last leaves the result unchanged, and leaving the loop          *)
(* produces exactly Dedup.                                                 *)
DedupRefines == Abs!Spec

====
