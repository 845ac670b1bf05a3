---------------------------- MODULE MCAlertQuery ----------------------------
(* Small instances of AlertQuery: two datasource ids and two possible      *)
(* alert answers (model values in the cfgs).                               *)
EXTENDS AlertQuery

MCDsIds == <<1, 2>>
====
