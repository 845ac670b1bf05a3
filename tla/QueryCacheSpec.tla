--------------------------- MODULE QueryCacheSpec ---------------------------
(***************************************************************************)
(* What the query cache of one panel promises (spec sections 4.3 and 4.4): *)
(* each of the panel's queries has at most one entry, which pairs the      *)
(* resolved query last fetched with the data that fetch returned.  An      *)
(* entry is only ever written with a non-empty answer to the very query    *)
(* it is keyed by, and a forced requery of the panel invalidates all of    *)
(* its entries.  Data is abstracted as in PanelQuery: an answer to a       *)
(* resolved query t is t itself.                                           *)
(***************************************************************************)
CONSTANTS
    QueryIds,  \* the panel's queries
    Answers,   \* Answers[q]: the resolved texts q can be fetched under
    None       \* no entry

VARIABLE cache \* cache[q]: None, or [text |-> resolved query, data |-> its data]

Init == cache = [q \in QueryIds |-> None]

(* A fetch of q under the resolved query t answered with data: the entry   *)
(* is replaced by t and that data.                                         *)
Store(q, t) ==
    /\ t \in Answers[q]
    /\ cache' = [cache EXCEPT ![q] = [text |-> t, data |-> t]]

(* A forced requery of the panel invalidates every entry of the panel.     *)
Invalidate == cache' = [q \in QueryIds |-> None]

Next ==
    \/ \E q \in QueryIds, t \in UNION {Answers[x] : x \in QueryIds} : Store(q, t)
    \/ Invalidate

Spec == Init /\ [][Next]_cache
=============================================================================
