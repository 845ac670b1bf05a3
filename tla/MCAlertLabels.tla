---------------------------- MODULE MCAlertLabels ---------------------------
(***************************************************************************)
(* Label sets over alertname and two other names, with two values.        *)
(***************************************************************************)
EXTENDS AlertLabels

CONSTANTS an, k1, k2

MCKeys == {an, k1, k2}
====
