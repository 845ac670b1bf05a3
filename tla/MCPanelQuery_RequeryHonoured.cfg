CONSTANTS
    q1 = q1
    q2 = q2
    p1 = p1
    p2 = p2
    p3 = p3
    p4 = p4
    Unresolved = Unresolved
    None = None
    QueryIds <- MCQueryIds
    Queries <- MCQueries
    Visible <- MCQueryIds
    Params <- MCParams
    Texts <- MCTexts
    Resolve <- MCResolve
    Loaded <- MCLoaded
    MaxTriggers = 3
SPECIFICATION Spec

INVARIANT
    RequeryHonoured

CHECK_DEADLOCK FALSE
