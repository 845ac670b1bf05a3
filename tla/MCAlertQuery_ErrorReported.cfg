\* One timeout, two datasources in the filter, each answering with alerts or
\* with an error: the first fails and the second answers.
CONSTANTS
    None = None
    DsIds <- MCDsIds
    Known = {1, 2}
    Answers = {a1, a2}
    Outcomes = {"ok", "error"}
    MaxTriggers = 0
SPECIFICATION Spec
\* The single run ends and the panel idles, which is not a deadlock.
CHECK_DEADLOCK FALSE
INVARIANT
    AlertErrorReported
