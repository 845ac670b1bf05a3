\* A loop of three queries t <- a <- b <- t with All selected: the dependants
\* filter only skips direct back-references, so the reloads never end
\* (Loader.tsx:214).
\* The loop needs no user action, so the user is left out (MaxTriggers 0).
CONSTANTS
    t = t
    a = a
    b = b
    All = All
    NoValues = NoValues
    None = None
    Vars <- MCVars
    Order <- MCOrder
    TextVars = {}
    Refresh <- MCRefresh
    EnableAll = {b}
    Multi = {a}
    ValueRefs <- MCCycleRefs
    DsRefs <- MCNoRefs
    Opts = {1, 2}
    Fetch <- MCFetch
    LoadOutcomes = {"ok"}
    MaxTriggers = 0
SPECIFICATION Spec
\* Once every load has settled and the user is done, nothing is enabled:
\* the dashboard idles, which is not a deadlock.
CHECK_DEADLOCK FALSE
PROPERTY ReloadsSettle
