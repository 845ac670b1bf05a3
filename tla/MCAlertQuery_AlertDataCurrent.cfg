\* Two overlapping runs each compare their result with the panelData their
\* closure saw when the timeout was armed.
CONSTANTS
    None = None
    DsIds <- MCDsIds
    Known = {1, 2}
    Answers = {a1, a2}
    Outcomes = {"ok"}
    MaxTriggers = 2
SPECIFICATION Spec
\* Once the changes are spent and every run has ended or been dropped, the
\* panel idles, which is not a deadlock.
CHECK_DEADLOCK FALSE
INVARIANT
    AlertDataCurrent
