-------------------------- MODULE MCVariableLoader --------------------------
(***************************************************************************)
(* Small dashboards for VariableLoader: a TextInput t and two query        *)
(* variables a and b over the candidate values {1, 2}.                     *)
(***************************************************************************)
EXTENDS VariableLoader

CONSTANTS t, a, b

MCVars == {t, a, b}
MCOrder == <<t, a, b>>

(* t is typed in; a (OnDashboardLoad, multi-select) refers to t, b         *)
(* (OnTimeRangeChange, with All) to a.                                     *)
MCRefresh == [v \in MCVars |-> IF v = b THEN "time" ELSE "load"]

(* A chain without a loop: t <- a <- b.                                    *)
MCChainRefs == [v \in MCVars |-> CASE v = a -> {t} [] v = b -> {a} [] OTHER -> {}]

(* A loop of three queries that the filter does not break: t <- a <- b <- t. *)
MCCycleRefs == [v \in MCVars |-> CASE v = a -> {t} [] v = b -> {a} [] OTHER -> {b}]

MCNoRefs == [v \in MCVars |-> {}]

(* a's datasource refers to b: with the chain t <- a <- b, a and b refer   *)
(* to each other, one way through a value and back through a datasource;  *)
(* the filter skips a when b changes, since b's value refers to a.         *)
MCDsRefs == [v \in MCVars |-> IF v = a THEN {b} ELSE {}]

(* The datasource's answers: a offers only 1 when t is 1; b offers only 2  *)
(* when a is 1.                                                            *)
MCFetch(w, snap) ==
    CASE w = a /\ t \in DOMAIN snap /\ snap[t] = {1} -> {1}
      [] w = b /\ a \in DOMAIN snap /\ snap[a] = {1} -> {2}
      [] OTHER -> {1, 2}

=============================================================================
