----------------------------- MODULE PanelQuery -----------------------------
(***************************************************************************)
(* The query pipeline of one dashboard panel: PanelComponent's debounced   *)
(* query effect and its async queryData, the panel-forced requery handler  *)
(* of PanelGrid, PanelGrid's dependency gate that holds the panel back    *)
(* until its variables have values, and the process-wide query cache       *)
(* (prevQueries and prevQueryData) in                                      *)
(*   src/datav/frontend/src/views/dashboard/grid/PanelGrid/PanelGrid.tsx   *)
(*                                                                         *)
(* The JavaScript event loop runs one synchronous stretch of code at a     *)
(* time.  queryData runs synchronously from the timer callback up to its   *)
(* single await (Promise.allSettled), and again from the resumption to its *)
(* end; each loop iteration of those stretches is one step here, and the   *)
(* variable pc keeps every other handler out while a stretch runs, so the  *)
(* steps of one stretch are never interleaved with anything else.  Runs    *)
(* that have passed the await are in flight and resume in any order.       *)
(*                                                                         *)
(* Data is abstracted: a parameter snapshot (dashboard and panel variables *)
(* and the time range) is a member of Params, and the resolved query       *)
(* (the triple [q, timeRange, datasource.type] the cache compares) is      *)
(* Resolve[q, p], a member of Texts.  A successful datasource answer to a  *)
(* resolved query t is represented by t itself, so the data a panel shows  *)
(* says which query and which parameters it was fetched for.               *)
(***************************************************************************)
EXTENDS Naturals, Sequences, FiniteSets

CONSTANTS
    QueryIds,    \* ids of the panel's queries (q.id)
    Queries,     \* panel.datasource.queries, in order, as a sequence of ids
    Visible,     \* the ids of queries with q.visible set
    Params,      \* snapshots of variables and time range a render can hold
    Texts,       \* resolved queries: the cache's [q, timeRange, dsType]
    Resolve,     \* Resolve[q, p]: replaceQueryWithVariables of q under p
    Unresolved,  \* a resolved text that still has a ${...} placeholder
    None,        \* an absent cache entry
    Loaded,      \* snapshots in which every global variable the queries'
                 \* metrics name has values
    MaxTriggers  \* bound on the changes the environment makes

ASSUME QueriesAssumption ==
    /\ Queries \in Seq(QueryIds)
    /\ \A i, j \in 1..Len(Queries) : Queries[i] = Queries[j] => i = j
    /\ Visible \subseteq QueryIds

ASSUME ResolveAssumption ==
    /\ Resolve \in [QueryIds \X Params -> Texts \cup {Unresolved}]
    /\ Unresolved \notin Texts
    /\ None \notin Texts
    /\ Params # {}

ASSUME MaxTriggersAssumption == MaxTriggers \in Nat

ASSUME LoadedAssumption == Loaded \subseteq Params

(* The dependency gate gives up once retryNum exceeds this.                *)
GiveUp == 5

(* A call handed to the datasource plugin: the query id and its resolved   *)
(* text (promises[i].id and promises[i].query in queryData).               *)
Call == [q : QueryIds, text : Texts]

(* A run of queryData suspended at `await Promise.allSettled`: its         *)
(* parameter snapshot, the data already taken from the cache, and the      *)
(* calls still pending.  id tells apart runs that are otherwise equal.     *)
Run == [id : Nat, p : Params, hits : Seq(Texts), calls : Seq(Call)]

(* Outcomes of one settled promise: fulfilled with non-empty data and no   *)
(* error, fulfilled with empty data and no error, or an error (fulfilled   *)
(* with res.error and no data, or rejected: both set the error and         *)
(* contribute no data).                                                    *)
Outcomes == {"ok", "empty", "error"}

VARIABLES
    params,      \* the props the latest render holds (variables, time range)
    dsExists,    \* getDatasource(ds.id) finds the panel's datasource
    timer,       \* queryH.current: a debounce timeout is pending
    triggers,    \* number of environment changes so far (bounded)
    pc,          \* "idle", or the synchronous stretch running: "dispatch", "settle"
    pos,         \* loop index of the running stretch
    cur,         \* parameter snapshot of the running stretch
    data,        \* queryData's local `data` array
    calls,       \* queryData's local `promises` array
    inflight,    \* runs suspended at the await
    nextRun,     \* id for the next run
    cacheQuery,  \* prevQueries: query id -> resolved text last fetched
    cacheData,   \* prevQueryData: query id -> data last fetched
    panelData,   \* PanelComponent's panelData state
    queryError,  \* PanelComponent's queryError state is set
    invalidated, \* history: ids a requery deleted, until the next run reads them
    sawError,    \* history: the resuming stretch has met an error outcome
    depsInited,  \* PanelGrid's depsInited: PanelComponent is rendered
    retryNum     \* the gate's retryNum

vars == <<params, dsExists, timer, triggers, pc, pos, cur, data, calls,
          inflight, nextRun, cacheQuery, cacheData, panelData, queryError,
          invalidated, sawError, depsInited, retryNum>>

NQ == Len(Queries)

-----------------------------------------------------------------------------
(* PanelGrid has mounted and set the gate's 100 ms interval; no           *)
(* PanelComponent is rendered yet, so no query timeout is pending; the     *)
(* cache and the panel are empty.                                          *)
Init ==
    /\ params \in Params
    /\ dsExists \in BOOLEAN
    /\ timer = FALSE
    /\ triggers = 0
    /\ pc = "idle"
    /\ pos = 1
    /\ cur = params
    /\ data = << >>
    /\ calls = << >>
    /\ inflight = {}
    /\ nextRun = 0
    /\ cacheQuery = [q \in QueryIds |-> None]
    /\ cacheData = [q \in QueryIds |-> None]
    /\ panelData = << >>
    /\ queryError = FALSE
    /\ invalidated = {}
    /\ sawError = FALSE
    /\ depsInited = FALSE
    /\ retryNum = 0

(* Any change in the effect's dependencies (time range, variables, panel   *)
(* variables, datasources, forceQuery) clears the pending timeout and sets *)
(* a new one: the debounce.  Before the gate opens no PanelComponent is   *)
(* rendered and no effect runs.                                            *)
Debounce == timer' = depsInited

EnvStep ==
    /\ pc = "idle"
    /\ triggers < MaxTriggers
    /\ triggers' = triggers + 1

(* TimeChangedEvent or a variable change re-renders the panel with new     *)
(* props.  The dependency array compares by reference, so a render with   *)
(* equal values still re-arms the timer.                                   *)
SetParams(p) ==
    /\ EnvStep
    /\ params' = p
    /\ Debounce
    /\ UNCHANGED <<dsExists, pos, pc, cur, data, calls, inflight, nextRun,
                   cacheQuery, cacheData, panelData, queryError, invalidated,
                   sawError, depsInited, retryNum>>

(* The datasource store changes: the panel's datasource is removed or     *)
(* added back.                                                             *)
ToggleDatasource ==
    /\ EnvStep
    /\ dsExists' = ~dsExists
    /\ Debounce
    /\ UNCHANGED <<params, pos, pc, cur, data, calls, inflight, nextRun,
                   cacheQuery, cacheData, panelData, queryError, invalidated,
                   sawError, depsInited, retryNum>>

(* Mutant: the deletion loop stops one query short of the end.           *)
RequeryShort ==
    /\ EnvStep
    /\ cacheQuery' = [q \in QueryIds |->
                        IF \E i \in 1..NQ - 1 : Queries[i] = q THEN None
                        ELSE cacheQuery[q]]
    /\ invalidated' = {Queries[i] : i \in 1..NQ}
    /\ Debounce
    /\ UNCHANGED <<params, dsExists, pos, pc, cur, data, calls, inflight,
                   nextRun, cacheData, panelData, queryError, sawError,
                   depsInited, retryNum>>

(* PanelForceRequeryEvent: delete every query's cache entry and bump       *)
(* forceQuery.  prevQueryData is a Map whose entries are stored as plain   *)
(* properties (prevQueryData[id] = ...), so prevQueryData.delete(id)       *)
(* removes nothing: cacheData is left as it is.                            *)
Requery ==
    /\ EnvStep
    /\ cacheQuery' = [q \in QueryIds |-> None]
    /\ invalidated' = {Queries[i] : i \in 1..NQ}
    /\ Debounce
    /\ UNCHANGED <<params, dsExists, pos, pc, cur, data, calls, inflight,
                   nextRun, cacheData, panelData, queryError, sawError,
                   depsInited, retryNum>>

GateUnchanged ==
    UNCHANGED <<params, dsExists, triggers, pc, pos, cur, data, calls, inflight,
                nextRun, cacheQuery, cacheData, panelData, queryError,
                invalidated, sawError>>

(* Mutant: a failed poll does not count, retryNum += 1 is missing.         *)
GatePollNoRetry ==
    /\ ~depsInited
    /\ IF retryNum > GiveUp \/ params \in Loaded
         THEN /\ depsInited' = TRUE
              /\ timer' = TRUE
              /\ UNCHANGED retryNum
         ELSE UNCHANGED <<depsInited, timer, retryNum>>
    /\ GateUnchanged

(* A tick of the dependency gate's 100 ms interval: past the retries it   *)
(* gives up, and when every global variable the queries name has values   *)
(* it opens; either way PanelComponent is rendered and its query effect    *)
(* arms the first timeout.  Otherwise the poll is counted.                 *)
GatePoll ==
    /\ ~depsInited
    /\ IF retryNum > GiveUp \/ params \in Loaded
         THEN /\ depsInited' = TRUE
              /\ timer' = TRUE
              /\ UNCHANGED retryNum
         ELSE /\ retryNum' = retryNum + 1
              /\ UNCHANGED <<depsInited, timer>>
    /\ GateUnchanged

(* The debounce timeout fires and queryData starts.  Without the panel's  *)
(* datasource it sets empty data and returns; otherwise it enters the     *)
(* loop over ds.queries with empty data and promises.                      *)
TimerFire ==
    /\ pc = "idle"
    /\ timer
    /\ timer' = FALSE
    /\ invalidated' = {}
    /\ IF dsExists
         THEN /\ pc' = "dispatch"
              /\ pos' = 1
              /\ cur' = params
              /\ data' = << >>
              /\ calls' = << >>
              /\ UNCHANGED panelData
         ELSE /\ panelData' = << >>
              /\ UNCHANGED <<pc, pos, cur, data, calls>>
    /\ UNCHANGED <<params, dsExists, triggers, inflight, nextRun, cacheQuery,
                   cacheData, queryError, sawError, depsInited, retryNum>>

(* The query at the loop index and its resolved text.                      *)
CurQuery == Queries[pos]
CurText == Resolve[CurQuery, cur]

Dispatching == pc = "dispatch" /\ pos <= NQ

LoopUnchanged == UNCHANGED <<params, dsExists, timer, triggers, cur, inflight,
                             nextRun, cacheData, panelData, invalidated,
                             sawError, depsInited, retryNum>>

(* A hidden query, or one whose text still holds a placeholder (a         *)
(* variable whose values have not loaded), is skipped.                     *)
DispatchSkip ==
    /\ Dispatching
    /\ CurQuery \notin Visible \/ CurText = Unresolved
    /\ pos' = pos + 1
    /\ UNCHANGED <<pc, data, calls, cacheQuery, queryError>>
    /\ LoopUnchanged

(* Mutant: the hit test looks only for a cache entry of the query id, not *)
(* for an equal [q, timeRange, dsType] triple.                             *)
DispatchHitAnyEntry ==
    /\ Dispatching
    /\ CurQuery \in Visible
    /\ CurText # Unresolved
    /\ cacheQuery[CurQuery] # None
    /\ data' = IF cacheData[CurQuery] # None
                 THEN Append(data, cacheData[CurQuery]) ELSE data
    /\ queryError' = FALSE
    /\ pos' = pos + 1
    /\ UNCHANGED <<pc, calls, cacheQuery>>
    /\ LoopUnchanged

(* The cached triple equals the current one: push the cached data if any, *)
(* clear the error, and send nothing.                                      *)
DispatchHit ==
    /\ Dispatching
    /\ CurQuery \in Visible
    /\ CurText # Unresolved
    /\ cacheQuery[CurQuery] = CurText
    /\ data' = IF cacheData[CurQuery] # None
                 THEN Append(data, cacheData[CurQuery]) ELSE data
    /\ queryError' = FALSE
    /\ pos' = pos + 1
    /\ UNCHANGED <<pc, calls, cacheQuery>>
    /\ LoopUnchanged

(* A cache miss: call the plugin's runQuery and keep the promise.          *)
DispatchCall ==
    /\ Dispatching
    /\ CurQuery \in Visible
    /\ CurText # Unresolved
    /\ cacheQuery[CurQuery] # CurText
    /\ calls' = Append(calls, [q |-> CurQuery, text |-> CurText])
    /\ pos' = pos + 1
    /\ UNCHANGED <<pc, data, cacheQuery, queryError>>
    /\ LoopUnchanged

(* End of the loop.  With no promises queryData never awaits and sets the  *)
(* panel's data at once; otherwise the run suspends at the await.          *)
DispatchEnd ==
    /\ pc = "dispatch"
    /\ pos > NQ
    /\ pc' = "idle"
    /\ IF calls = << >>
         THEN /\ panelData' = data
              /\ UNCHANGED <<inflight, nextRun>>
         ELSE /\ inflight' = inflight \cup
                    {[id |-> nextRun, p |-> cur, hits |-> data, calls |-> calls]}
              /\ nextRun' = nextRun + 1
              /\ UNCHANGED panelData
    /\ UNCHANGED <<params, dsExists, timer, triggers, pos, cur, data, calls,
                   cacheQuery, cacheData, queryError, invalidated, sawError,
                   depsInited, retryNum>>

(* Mutant: the resumed loop indexes the settled results from 0, as       *)
(* res0.forEach's index does, against 1-based calls.                       *)
SettleStartZeroBased(r) ==
    /\ pc = "idle"
    /\ r \in inflight
    /\ pc' = "settle"
    /\ pos' = 0
    /\ cur' = r.p
    /\ data' = r.hits
    /\ calls' = r.calls
    /\ inflight' = inflight \ {r}
    /\ sawError' = FALSE
    /\ UNCHANGED <<params, dsExists, timer, triggers, nextRun, cacheQuery,
                   cacheData, panelData, queryError, invalidated, depsInited,
                   retryNum>>

(* All promises of a suspended run have settled: it resumes.               *)
SettleStart(r) ==
    /\ pc = "idle"
    /\ r \in inflight
    /\ pc' = "settle"
    /\ pos' = 1
    /\ cur' = r.p
    /\ data' = r.hits
    /\ calls' = r.calls
    /\ inflight' = inflight \ {r}
    /\ sawError' = FALSE
    /\ UNCHANGED <<params, dsExists, timer, triggers, nextRun, cacheQuery,
                   cacheData, panelData, queryError, invalidated, depsInited,
                   retryNum>>

(* One iteration of res0.forEach: the promise's outcome sets the error    *)
(* (setQueryError(res.error) or setQueryError(res0.reason)), and only     *)
(* non-empty data is pushed and written to both caches.                    *)
SettleOne(o) ==
    /\ pc = "settle"
    /\ pos <= Len(calls)
    /\ LET c == calls[pos] IN
         IF o = "ok"
           THEN /\ data' = Append(data, c.text)
                /\ cacheQuery' = [cacheQuery EXCEPT ![c.q] = c.text]
                /\ cacheData' = [cacheData EXCEPT ![c.q] = c.text]
           ELSE UNCHANGED <<data, cacheQuery, cacheData>>
    /\ queryError' = (o = "error")
    /\ sawError' = (sawError \/ o = "error")
    /\ pos' = pos + 1
    /\ UNCHANGED <<params, dsExists, timer, triggers, pc, cur, calls, inflight,
                   nextRun, panelData, invalidated, depsInited, retryNum>>

(* After the forEach: setPanelData(data) (needUpdate is set, there were   *)
(* promises).                                                              *)
SettleEnd ==
    /\ pc = "settle"
    /\ pos > Len(calls)
    /\ pc' = "idle"
    /\ panelData' = data
    /\ UNCHANGED <<params, dsExists, timer, triggers, pos, cur, data, calls,
                   inflight, nextRun, cacheQuery, cacheData, queryError,
                   invalidated, sawError, depsInited, retryNum>>

Next ==
    \/ GatePoll
    \/ \E p \in Params : SetParams(p)
    \/ ToggleDatasource
    \/ Requery
    \/ TimerFire
    \/ DispatchSkip
    \/ DispatchHit
    \/ DispatchCall
    \/ DispatchEnd
    \/ \E r \in inflight : SettleStart(r)
    \/ \E o \in Outcomes : SettleOne(o)
    \/ SettleEnd

(* The gate's interval keeps ticking until it is cleared: the event loop  *)
(* runs every due interval callback.  Nothing else is assumed to happen.   *)
Spec == Init /\ [][Next]_vars /\ WF_vars(GatePoll)

-----------------------------------------------------------------------------
(* The type invariant, in two parts: the Boolean flags, and the data.     *)
FlagsOK ==
    /\ dsExists \in BOOLEAN
    /\ timer \in BOOLEAN
    /\ queryError \in BOOLEAN
    /\ sawError \in BOOLEAN
    /\ depsInited \in BOOLEAN

StateOK ==
    /\ params \in Params
    /\ triggers \in 0..MaxTriggers
    /\ pc \in {"idle", "dispatch", "settle"}
    /\ pos \in Nat \ {0}
    /\ cur \in Params
    /\ data \in Seq(Texts)
    /\ calls \in Seq(Call)
    /\ inflight \subseteq Run
    /\ nextRun \in Nat
    /\ cacheQuery \in [QueryIds -> Texts \cup {None}]
    /\ cacheData \in [QueryIds -> Texts \cup {None}]
    /\ panelData \in Seq(Texts)
    /\ invalidated \subseteq QueryIds
    /\ retryNum \in 0..GiveUp + 1

TypeOK == FlagsOK /\ StateOK

(* Cache coherence: whenever prevQueries holds a triple for a query,       *)
(* prevQueryData holds the data fetched for exactly that triple.  Overlap- *)
(* ping runs, requeries and empty answers must never leave the two maps    *)
(* describing different fetches, or a later cache hit shows wrong data.    *)
(* It is implied by CacheRefines; the proofs use it as part of their       *)
(* inductive invariant.                                                    *)
CacheCoherent ==
    \A q \in QueryIds : cacheQuery[q] # None => cacheData[q] = cacheQuery[q]

(* The panel is always shown: whether or not the variables its queries    *)
(* name ever get values, the dependency gate eventually renders            *)
(* PanelComponent, because it gives up after its retries.                  *)
GateOpens == <>depsInited

(* Result attribution: everything the panel shows was fetched for one      *)
(* parameter snapshot: each item is the answer to some query of the panel  *)
(* resolved under the same variables and time range, whether it came from *)
(* the cache or from the datasource.                                       *)
PanelDataAttributed ==
    \E p \in Params :
        \A k \in 1..Len(panelData) : \E q \in QueryIds : panelData[k] = Resolve[q, p]

(* Position of a query id in ds.queries.                                   *)
QueryPos(q) == CHOOSE i \in 1..NQ : Queries[i] = q

(* The query a shown item answers.                                         *)
QueryOfText(t) == CHOOSE q \in QueryIds : \E p \in Params : Resolve[q, p] = t

(* Query order: the panel's dataset lists the answers in the order of      *)
(* ds.queries (spec section 4.4, step 7), whether each came from the cache *)
(* or from the datasource.  queryData pushes cache hits before the loop's  *)
(* await and fetched data after it.                                        *)
DataInQueryOrder ==
    \A i, j \in 1..Len(panelData) :
        i < j => QueryPos(QueryOfText(panelData[i])) < QueryPos(QueryOfText(panelData[j]))

(* Partial failure is reported: when a resumed run met a failed query, the *)
(* panel's error is set once it has set its data (spec section 8: N-1      *)
(* successes and a non-null error).  Each forEach iteration overwrites     *)
(* queryError with that promise's res.error.                               *)
ErrorReported ==
    [][(pc = "settle" /\ pc' = "idle" /\ sawError) => queryError']_vars

(* A forced requery refetches: from PanelForceRequeryEvent until the run   *)
(* it schedules reads the cache, no entry the requery deleted is back      *)
(* (spec section 4.3: invalidate on forced requery).  A run suspended at   *)
(* its await when the requery came writes its answers back into            *)
(* prevQueries when it resumes.                                            *)
RequeryHonoured ==
    \A q \in invalidated : cacheQuery[q] = None

(* The cache seen as the specification's entries: a query prevQueries has *)
(* no triple for has no entry (whatever prevQueryData still holds), and   *)
(* otherwise its entry pairs the triple with prevQueryData's data.         *)
CacheView ==
    [q \in QueryIds |-> IF cacheQuery[q] = None THEN None
                        ELSE [text |-> cacheQuery[q], data |-> cacheData[q]]]

(* The resolved texts a query of the panel has under some snapshot.        *)
Fetchable == [q \in QueryIds |-> {Resolve[q, p] : p \in Params} \cap Texts]

CacheSpec == INSTANCE QueryCacheSpec WITH cache <- CacheView, Answers <- Fetchable

(* The cache keeps its promise: prevQueries and prevQueryData only change  *)
(* together, by storing a non-empty answer under the triple it was fetched *)
(* for, or by the forced requery's invalidation; overlapping runs, empty   *)
(* and failed answers never leave an entry whose data is another fetch's.  *)
CacheRefines == CacheSpec!Spec
=============================================================================
