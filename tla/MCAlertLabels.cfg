\* Every rule and alert label set over alertname and two other names with two
\* values, and every order of the rule's names.
CONSTANTS
    an = an
    k1 = k1
    k2 = k2
    Keys <- MCKeys
    AlertName = an
    Values = {"v1", "v2"}
SPECIFICATION Spec
\* The loop ends after the last name: a finished de-duplication is not a
\* deadlock.
CHECK_DEADLOCK FALSE
PROPERTY
    DedupRefines
