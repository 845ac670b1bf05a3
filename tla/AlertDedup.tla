----------------------------- MODULE AlertDedup -----------------------------
(***************************************************************************)
(* What the label de-duplication of queryAlerts promises for one alert of  *)
(* one rule (spec 4.4, step 3): the alert's labels go, in one step, from   *)
(* what the datasource returned to those labels minus alertname and minus  *)
(* every label equal to the rule's label of the same name.  AlertLabels    *)
(* is shown to implement this specification.                               *)
(***************************************************************************)
CONSTANTS Keys, AlertName, Values

(* The label sets over Keys.                                               *)
LabelSets == UNION {[D -> Values] : D \in SUBSET Keys}

(* The label set f without the names in S.                                 *)
Without(f, S) == [k \in DOMAIN f \ S |-> f[k]]

(* The result: the alert's labels but alertname and those it shares with   *)
(* the rule.                                                               *)
Dedup(rule, alert) ==
    Without(alert, {AlertName} \cup {k \in DOMAIN alert \cap DOMAIN rule :
                                        alert[k] = rule[k]})

VARIABLES
    ruleLabels,  \* the rule's labels
    input,       \* the alert's labels as returned
    labels,      \* the alert's labels as shown
    done         \* the de-duplication has happened

vars == <<ruleLabels, input, labels, done>>

Init ==
    /\ ruleLabels \in LabelSets
    /\ input \in LabelSets
    /\ labels = input
    /\ done = FALSE

Dedupe ==
    /\ ~done
    /\ labels' = Dedup(ruleLabels, input)
    /\ done' = TRUE
    /\ UNCHANGED <<ruleLabels, input>>

Spec == Init /\ [][Dedupe]_vars
=============================================================================
