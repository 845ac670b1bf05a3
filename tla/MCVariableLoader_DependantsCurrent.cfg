\* A chain t <- a <- b, answers always data: two quick edits of t leave two
\* loads of a in flight, and the older answer, arriving last, overwrites the
\* newer one (Loader.tsx:159).
CONSTANTS
    t = t
    a = a
    b = b
    All = All
    NoValues = NoValues
    None = None
    Vars <- MCVars
    Order <- MCOrder
    TextVars = {t}
    Refresh <- MCRefresh
    EnableAll = {b}
    Multi = {a}
    ValueRefs <- MCChainRefs
    DsRefs <- MCNoRefs
    Opts = {1, 2}
    Fetch <- MCFetch
    LoadOutcomes = {"ok"}
    MaxTriggers = 2
SPECIFICATION Spec
\* Once every load has settled and the user is done, nothing is enabled:
\* the dashboard idles, which is not a deadlock.
CHECK_DEADLOCK FALSE
INVARIANT DependantsCurrent
