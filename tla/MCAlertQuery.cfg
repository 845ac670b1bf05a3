\* Two datasources in the alert filter, answering with one of two alert sets,
\* an error or a rejection, while the panel's own datasource may go missing
\* or lose its plugin; three dependency changes let runs overlap.
CONSTANTS
    None = None
    DsIds <- MCDsIds
    Known = {1, 2}
    Answers = {a1, a2}
    Outcomes = {"ok", "error", "reject"}
    MaxTriggers = 3
SPECIFICATION Spec
\* Once the changes are spent and every run has ended or been dropped, the
\* panel idles, which is not a deadlock.
CHECK_DEADLOCK FALSE
INVARIANT
    TypeOK
