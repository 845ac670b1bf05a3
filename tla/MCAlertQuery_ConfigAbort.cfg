\* The filter names datasource 2, which is not in the store (deleted, or of a
\* type whose plugin has no queryAlerts): ds.type throws inside queryAlerts.
CONSTANTS
    None = None
    DsIds <- MCDsIds
    Known = {1}
    Answers = {a1, a2}
    Outcomes = {"ok"}
    MaxTriggers = 1
SPECIFICATION Spec
\* Once the changes are spent and every run has ended or been dropped, the
\* panel idles, which is not a deadlock.
CHECK_DEADLOCK FALSE
PROPERTY
    LoadingSettles
