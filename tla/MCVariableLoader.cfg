\* Variable loading with a mutual reference between a and b: the selection
\* stays within the values, and the reloads settle once the user stops.
CONSTANTS
    t = t
    a = a
    b = b
    All = All
    NoValues = NoValues
    None = None
    Vars <- MCVars
    Order <- MCOrder
    TextVars = {t}
    Refresh <- MCRefresh
    EnableAll = {b}
    Multi = {a}
    ValueRefs <- MCChainRefs
    DsRefs <- MCDsRefs
    Opts = {1, 2}
    Fetch <- MCFetch
    LoadOutcomes = {"ok", "error", "throw"}
    MaxTriggers = 1
SPECIFICATION Spec
INVARIANTS TypeOK SelectedWithinValues
PROPERTIES ReloadsSettle
\* Once every load has settled and the user is done, nothing is enabled:
\* the dashboard idles, which is not a deadlock.
CHECK_DEADLOCK FALSE
