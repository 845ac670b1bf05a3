CONSTANTS
    q1 = q1
    q2 = q2
    p1 = p1
    p2 = p2
    p3 = p3
    p4 = p4
    Unresolved = Unresolved
    None = None
    QueryIds <- MCQueryIds
    Queries <- MCQueries
    Visible <- MCQueryIds
    Params <- MCParams
    Texts <- MCTexts
    Resolve <- MCResolve
    Loaded <- MCLoaded
    MaxTriggers = 3

SPECIFICATION Spec

INVARIANTS
    TypeOK
    PanelDataAttributed

PROPERTY
    GateOpens
    CacheRefines

\* The panel's environment makes at most MaxTriggers changes; once they are
\* spent and every run has resumed, the panel waits for the user.
CHECK_DEADLOCK FALSE
