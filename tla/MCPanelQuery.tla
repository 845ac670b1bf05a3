---------------------------- MODULE MCPanelQuery ----------------------------
(* A panel with two queries and four parameter snapshots.  q1 mentions a   *)
(* variable that differs between p1, p2 and p3 (p4 gives p1's value).  q2  *)
(* mentions one that p1 and p2 share: going from p1 to p2 refetches q1     *)
(* and lets q2 hit the cache.  Under p4 the variable q2 needs has not      *)
(* loaded yet, so q2 stays unresolved and is skipped.                      *)
EXTENDS PanelQuery

CONSTANTS q1, q2, p1, p2, p3, p4

MCQueryIds == {q1, q2}
MCQueries == <<q1, q2>>
MCParams == {p1, p2, p3, p4}
MCTexts == {"a1", "a2", "a3", "b1", "b3"}
MCResolve ==
    [x \in MCQueryIds \X MCParams |->
        IF x[1] = q1
          THEN CASE x[2] \in {p1, p4} -> "a1"
                 [] x[2] = p2 -> "a2"
                 [] x[2] = p3 -> "a3"
          ELSE CASE x[2] \in {p1, p2} -> "b1"
                 [] x[2] = p3 -> "b3"
                 [] x[2] = p4 -> Unresolved]

(* The gate finds the variables loaded except under p4.                    *)
MCLoaded == {p1, p2, p3}
=============================================================================
