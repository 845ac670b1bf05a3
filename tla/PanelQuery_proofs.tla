-------------------------- MODULE PanelQuery_proofs --------------------------
(***************************************************************************)
(* Proofs about the panel query pipeline, for every value of the           *)
(* constants that satisfies the module's assumptions.  Each step of the   *)
(* type proof has two leaves: the Boolean flags (Zenon) and the data       *)
(* (SMT), since neither backend does both.                                 *)
(***************************************************************************)
EXTENDS PanelQuery, TLAPS

(* The query at the loop index is a query id, and its resolved text is a   *)
(* text or Unresolved, whenever the dispatch loop is inside ds.queries.    *)
LEMMA CurTextType ==
    ASSUME StateOK, Dispatching
    PROVE  /\ CurQuery \in QueryIds
           /\ CurText \in Texts \cup {Unresolved}
<1>1. pos \in 1..Len(Queries)
    BY DEF StateOK, Dispatching, NQ
<1>2. CurQuery \in QueryIds
    BY <1>1, QueriesAssumption DEF CurQuery
<1>3. QED
    BY <1>2, ResolveAssumption DEF StateOK, CurText

LEMMA InitTypeOK == Init => TypeOK
<1> SUFFICES ASSUME Init PROVE TypeOK
    OBVIOUS
<1>1. FlagsOK
    BY DEF Init, FlagsOK
<1>2. StateOK
    BY MaxTriggersAssumption DEF Init, StateOK, GiveUp
<1>3. QED
    BY <1>1, <1>2 DEF TypeOK

(* Every step preserves the Boolean flags' type.                           *)
LEMMA FlagsOKStep == FlagsOK /\ [Next]_vars => FlagsOK'
<1> SUFFICES ASSUME FlagsOK, [Next]_vars PROVE FlagsOK'
    OBVIOUS
<1>1. ASSUME NEW o \in Outcomes, SettleOne(o) PROVE FlagsOK'
    BY <1>1, Zenon DEF SettleOne, FlagsOK
<1>2. CASE GatePoll
    BY <1>2, Zenon DEF GatePoll, GateUnchanged, FlagsOK
<1>3. QED
    BY <1>1, <1>2, Zenon DEF Next, vars, FlagsOK, SetParams, ToggleDatasource,
       Requery, Debounce, TimerFire, DispatchSkip, DispatchHit, DispatchCall,
       DispatchEnd, SettleStart, SettleEnd, LoopUnchanged

(* Every step preserves the data's type.                                   *)
LEMMA StateOKStep == StateOK /\ [Next]_vars => StateOK'
<1> SUFFICES ASSUME StateOK, [Next]_vars PROVE StateOK'
    OBVIOUS
<1>0. ASSUME EnvStep PROVE triggers' \in 0..MaxTriggers
    BY <1>0, MaxTriggersAssumption DEF EnvStep, StateOK
<1>1. ASSUME NEW p \in Params, SetParams(p) PROVE StateOK'
    BY <1>0, <1>1 DEF SetParams, StateOK
<1>2. CASE ToggleDatasource
    BY <1>0, <1>2 DEF ToggleDatasource, StateOK
<1>3. CASE Requery
    BY <1>0, <1>3, QueriesAssumption DEF Requery, StateOK, NQ
<1>4. CASE TimerFire
    <2>1. UNCHANGED <<params, triggers, inflight, nextRun, cacheQuery, cacheData, retryNum>>
          /\ invalidated' = {}
        BY <1>4, Zenon DEF TimerFire
    <2>2. CASE dsExists
        <3>1. pc' = "dispatch" /\ pos' = 1 /\ cur' = params /\ data' = << >>
              /\ calls' = << >> /\ UNCHANGED panelData
            BY <1>4, <2>2, Zenon DEF TimerFire
        <3>2. QED
            BY <2>1, <3>1 DEF StateOK
    <2>3. CASE ~dsExists
        <3>1. panelData' = << >> /\ UNCHANGED <<pc, pos, cur, data, calls>>
            BY <1>4, <2>3, Zenon DEF TimerFire
        <3>2. QED
            BY <2>1, <3>1 DEF StateOK
    <2>4. QED
        BY <2>2, <2>3
<1>5. CASE DispatchSkip
    BY <1>5 DEF DispatchSkip, Dispatching, LoopUnchanged, StateOK
<1>6. CASE DispatchHit
    <2>1. CurQuery \in QueryIds
        BY <1>6, CurTextType DEF DispatchHit
    <2>2. cacheData[CurQuery] # None => cacheData[CurQuery] \in Texts
        BY <2>1 DEF StateOK
    <2>3. QED
        BY <1>6, <2>2 DEF DispatchHit, Dispatching, LoopUnchanged, StateOK
<1>7. CASE DispatchCall
    <2>1. [q |-> CurQuery, text |-> CurText] \in Call
        BY <1>7, CurTextType DEF DispatchCall, Call
    <2>2. QED
        BY <1>7, <2>1 DEF DispatchCall, Dispatching, LoopUnchanged, StateOK
<1>8. CASE DispatchEnd
    <2>1. [id |-> nextRun, p |-> cur, hits |-> data, calls |-> calls] \in Run
        BY DEF StateOK, Run
    <2>2. QED
        BY <1>8, <2>1 DEF DispatchEnd, StateOK
<1>9. ASSUME NEW r \in inflight, SettleStart(r) PROVE StateOK'
    <2>1. r \in Run
        BY DEF StateOK
    <2>2. QED
        BY <1>9, <2>1 DEF SettleStart, StateOK, Run
<1>10. ASSUME NEW o \in Outcomes, SettleOne(o) PROVE StateOK'
    <2>1. calls[pos] \in Call
        BY <1>10 DEF SettleOne, StateOK
    <2>2. /\ UNCHANGED <<params, triggers, pc, cur, calls, inflight, nextRun,
                         panelData, invalidated, retryNum>>
          /\ pos' = pos + 1
        BY <1>10, Zenon DEF SettleOne
    <2>3. CASE o = "ok"
        <3>1. /\ data' = Append(data, calls[pos].text)
              /\ cacheQuery' = [cacheQuery EXCEPT ![calls[pos].q] = calls[pos].text]
              /\ cacheData' = [cacheData EXCEPT ![calls[pos].q] = calls[pos].text]
            BY <1>10, <2>3, Zenon DEF SettleOne
        <3>2. QED
            BY <2>1, <2>2, <3>1 DEF StateOK, Call
    <2>4. CASE o # "ok"
        <3>1. UNCHANGED <<data, cacheQuery, cacheData>>
            BY <1>10, <2>4, Zenon DEF SettleOne
        <3>2. QED
            BY <2>2, <3>1 DEF StateOK
    <2>5. QED
        BY <2>3, <2>4
<1>11. CASE SettleEnd
    BY <1>11 DEF SettleEnd, StateOK
<1>12. CASE UNCHANGED vars
    BY <1>12 DEF vars, StateOK
<1>14. CASE GatePoll
    <2>1. CASE retryNum > GiveUp \/ params \in Loaded
        BY <1>14, <2>1 DEF GatePoll, GateUnchanged, StateOK
    <2>2. CASE ~(retryNum > GiveUp \/ params \in Loaded)
        <3>1. retryNum' = retryNum + 1 /\ retryNum \in 0..GiveUp
            BY <1>14, <2>2 DEF GatePoll, StateOK, GiveUp
        <3>2. QED
            BY <1>14, <3>1 DEF GatePoll, GateUnchanged, StateOK, GiveUp
    <2>3. QED
        BY <2>1, <2>2
<1>13. QED
    BY <1>1, <1>2, <1>3, <1>4, <1>5, <1>6, <1>7, <1>8, <1>9, <1>10, <1>11,
       <1>12, <1>14 DEF Next

(* Type correctness: in every reachable state of the panel's query         *)
(* pipeline the loop index is positive, the cache maps hold query texts or *)
(* nothing, and the suspended runs are well-formed.                        *)
THEOREM TypeCorrect == Spec => []TypeOK
<1>1. TypeOK /\ [Next]_vars => TypeOK'
    BY FlagsOKStep, StateOKStep DEF TypeOK
<1>2. QED
    BY <1>1, InitTypeOK, PTL DEF Spec

(* The inductive invariant behind cache coherence: the data's type and the *)
(* coherence of prevQueries with prevQueryData.                            *)
IInv == StateOK /\ CacheCoherent

LEMMA CacheCoherentStep == IInv /\ [Next]_vars => CacheCoherent'
<1> SUFFICES ASSUME IInv, [Next]_vars PROVE CacheCoherent'
    OBVIOUS
<1> USE DEF IInv
<1>1. ASSUME NEW o \in Outcomes, SettleOne(o) PROVE CacheCoherent'
    <2>1. calls[pos] \in Call
        BY <1>1 DEF SettleOne, StateOK
    <2>2. CASE o = "ok"
        <3>1. /\ cacheQuery' = [cacheQuery EXCEPT ![calls[pos].q] = calls[pos].text]
              /\ cacheData' = [cacheData EXCEPT ![calls[pos].q] = calls[pos].text]
            BY <1>1, <2>2, Zenon DEF SettleOne
        <3>2. QED
            BY <2>1, <3>1 DEF StateOK, Call, CacheCoherent
    <2>3. CASE o # "ok"
        <3>1. UNCHANGED <<cacheQuery, cacheData>>
            BY <1>1, <2>3, Zenon DEF SettleOne
        <3>2. QED
            BY <3>1 DEF CacheCoherent
    <2>4. QED
        BY <2>2, <2>3
<1>2. CASE Requery
    BY <1>2 DEF Requery, CacheCoherent
<1>3. CASE UNCHANGED <<cacheQuery, cacheData>>
    BY <1>3 DEF CacheCoherent
<1>4. QED
    BY <1>1, <1>2, <1>3 DEF Next, vars, SetParams, ToggleDatasource, TimerFire,
       DispatchSkip, DispatchHit, DispatchCall, DispatchEnd, SettleStart,
       SettleEnd, LoopUnchanged, GatePoll, GateUnchanged

(* Cache coherence: in every reachable state, for every query whose        *)
(* triple prevQueries holds, prevQueryData holds the data fetched for that *)
(* very triple, however runs overlap, requeries interleave and answers     *)
(* come back empty or failed.                                              *)
LEMMA CacheCoherence == Spec => []CacheCoherent
<1>1. Init => IInv
    BY InitTypeOK DEF Init, IInv, TypeOK, CacheCoherent
<1>2. IInv /\ [Next]_vars => IInv'
    BY StateOKStep, CacheCoherentStep DEF IInv
<1>3. QED
    BY <1>1, <1>2, PTL DEF Spec, IInv
-----------------------------------------------------------------------------
(* Query q resolved under snapshot p.  Kept opaque in the proofs below:    *)
(* the SMT backend cannot encode Resolve applied under quantifiers.        *)
Res(q, p) == Resolve[q, p]

(* Every item of s answers some query of the panel resolved under p.       *)
Attributed(s, p) == \A k \in 1..Len(s) : \E q \in QueryIds : s[k] = Res(q, p)

(* Every call in cs carries its query's text resolved under p.             *)
CallsFor(cs, p) == \A k \in 1..Len(cs) : cs[k].text = Res(cs[k].q, p)

(* The panel shows a list attributed to some snapshot.                     *)
Shown == \E p \in Params : Attributed(panelData, p)

(* The strengthening behind result attribution: the running stretch's      *)
(* data and promises were all made under its snapshot cur, and so were     *)
(* every suspended run's hits and calls under the snapshot it keeps.       *)
AttrInv ==
    /\ Attributed(data, cur)
    /\ CallsFor(calls, cur)
    /\ \A r \in inflight : Attributed(r.hits, r.p) /\ CallsFor(r.calls, r.p)
    /\ Shown

AInv == IInv /\ AttrInv

(* A shown list attributed to a snapshot is what PanelDataAttributed says. *)
LEMMA ShownAttributed == Shown => PanelDataAttributed
BY Zenon DEF Shown, Attributed, Res, PanelDataAttributed

(* Appending the answer to a query resolved under p keeps a list           *)
(* attributed to p.                                                        *)
LEMMA AppendAttributed ==
    ASSUME NEW s \in Seq(Texts), NEW p, Attributed(s, p),
           NEW q \in QueryIds, NEW t, t = Res(q, p)
    PROVE  Attributed(Append(s, t), p)
BY DEF Attributed

(* Appending a call whose text is its query resolved under p keeps the     *)
(* promises made for p.                                                    *)
LEMMA AppendCallsFor ==
    ASSUME NEW cs \in Seq(Call), NEW p, CallsFor(cs, p), NEW c,
           c.text = Res(c.q, p)
    PROVE  CallsFor(Append(cs, c), p)
BY DEF CallsFor

(* The empty list is attributed to every snapshot.                         *)
LEMMA EmptyAttributed ==
    ASSUME NEW p
    PROVE  Attributed(<< >>, p) /\ CallsFor(<< >>, p)
BY DEF Attributed, CallsFor

(* Every step keeps the attribution of data, promises and suspended runs.  *)
LEMMA AttrInvStep == AInv /\ [Next]_vars => AttrInv'
<1> SUFFICES ASSUME AInv, [Next]_vars PROVE AttrInv'
    OBVIOUS
<1>0. StateOK /\ CacheCoherent /\ AttrInv
    BY DEF AInv, IInv
<1>1. CASE UNCHANGED <<data, cur, calls, inflight, panelData>>
    BY <1>0, <1>1 DEF AttrInv, Shown
<1>2. CASE TimerFire
    <2>1. CASE dsExists
        <3>1. /\ data' = << >> /\ calls' = << >> /\ cur' = params
              /\ UNCHANGED <<inflight, panelData>>
            BY <1>2, <2>1, Zenon DEF TimerFire
        <3>2. QED
            BY <1>0, <3>1, EmptyAttributed DEF AttrInv, Shown
    <2>2. CASE ~dsExists
        <3>1. panelData' = << >> /\ UNCHANGED <<data, cur, calls, inflight>>
            BY <1>2, <2>2, Zenon DEF TimerFire
        <3>2. Shown'
            BY <1>0, <3>1, EmptyAttributed DEF Shown, StateOK
        <3>3. QED
            BY <1>0, <3>1, <3>2 DEF AttrInv
    <2>3. QED
        BY <2>1, <2>2
<1>3. CASE DispatchHit
    <2>1. CurQuery \in QueryIds /\ CurText \in Texts /\ cacheQuery[CurQuery] = CurText
        BY <1>3, <1>0, CurTextType DEF DispatchHit
    <2>2. CurText = Res(CurQuery, cur)
        BY DEF CurText, Res
    <2>3. cacheData[CurQuery] = Res(CurQuery, cur)
        BY <1>0, <2>1, <2>2, ResolveAssumption DEF CacheCoherent
    <2>4. Attributed(data', cur)
        BY <1>3, <1>0, <2>1, <2>3, AppendAttributed DEF DispatchHit, AttrInv, StateOK
    <2>5. QED
        BY <1>3, <1>0, <2>4 DEF DispatchHit, LoopUnchanged, AttrInv, Shown
<1>4. CASE DispatchCall
    <2>1. CurQuery \in QueryIds /\ CurText = Res(CurQuery, cur)
        BY <1>4, <1>0, CurTextType DEF DispatchCall, CurText, Res
    <2>2. calls' = Append(calls, [q |-> CurQuery, text |-> CurText])
        BY <1>4 DEF DispatchCall
    <2>3. CallsFor(calls', cur)
        BY <1>0, <2>1, <2>2, AppendCallsFor DEF AttrInv, StateOK
    <2>4. QED
        BY <1>4, <1>0, <2>3 DEF DispatchCall, LoopUnchanged, AttrInv, Shown
<1>5. CASE DispatchEnd
    <2>1. UNCHANGED <<data, cur, calls>>
        BY <1>5 DEF DispatchEnd
    <2>2. CASE calls = << >>
        <3>1. panelData' = data /\ UNCHANGED inflight
            BY <1>5, <2>2 DEF DispatchEnd
        <3>2. Shown'
            BY <1>0, <3>1 DEF AttrInv, StateOK, Shown
        <3>3. QED
            BY <1>0, <2>1, <3>1, <3>2 DEF AttrInv
    <2>3. CASE calls # << >>
        <3>1. /\ inflight' = inflight \cup
                   {[id |-> nextRun, p |-> cur, hits |-> data, calls |-> calls]}
              /\ UNCHANGED panelData
            BY <1>5, <2>3 DEF DispatchEnd
        <3>2. QED
            BY <1>0, <2>1, <3>1 DEF AttrInv, Shown
    <2>4. QED
        BY <2>2, <2>3
<1>6. ASSUME NEW r \in inflight, SettleStart(r) PROVE AttrInv'
    <2>1. /\ cur' = r.p /\ data' = r.hits /\ calls' = r.calls
          /\ inflight' = inflight \ {r} /\ UNCHANGED panelData
        BY <1>6 DEF SettleStart
    <2>2. QED
        BY <1>0, <2>1 DEF AttrInv, Shown
<1>7. ASSUME NEW o \in Outcomes, SettleOne(o) PROVE AttrInv'
    <2>1. /\ UNCHANGED <<cur, calls, inflight, panelData>>
          /\ pc = "settle" /\ pos <= Len(calls)
        BY <1>7, Zenon DEF SettleOne
    <2>2. CASE o = "ok"
        <3>1. data' = Append(data, calls[pos].text)
            BY <1>7, <2>2, Zenon DEF SettleOne
        <3>2. pos \in 1..Len(calls) /\ calls[pos] \in Call
            BY <1>0, <2>1 DEF StateOK
        <3>3. calls[pos].text = Res(calls[pos].q, cur) /\ calls[pos].q \in QueryIds
            BY <1>0, <3>2 DEF AttrInv, CallsFor, Call
        <3>4. Attributed(data', cur)
            BY <1>0, <3>1, <3>3, AppendAttributed DEF AttrInv, StateOK
        <3>5. QED
            BY <1>0, <2>1, <3>4 DEF AttrInv, Shown
    <2>3. CASE o # "ok"
        <3>1. UNCHANGED data
            BY <1>7, <2>3, Zenon DEF SettleOne
        <3>2. QED
            BY <2>1, <3>1, <1>1
    <2>4. QED
        BY <2>2, <2>3
<1>8. CASE SettleEnd
    <2>1. panelData' = data /\ UNCHANGED <<data, cur, calls, inflight>>
        BY <1>8 DEF SettleEnd
    <2>2. Shown'
        BY <1>0, <2>1 DEF AttrInv, StateOK, Shown
    <2>3. QED
        BY <1>0, <2>1, <2>2 DEF AttrInv
<1>9. QED
    BY <1>1, <1>2, <1>3, <1>4, <1>5, <1>6, <1>7, <1>8 DEF Next, vars, GatePoll,
       GateUnchanged, SetParams, ToggleDatasource, Requery, DispatchSkip,
       LoopUnchanged

(* The initial state satisfies the attribution invariant.                 *)
LEMMA ResultAttributionInit == Init => AInv
<1> SUFFICES ASSUME Init PROVE AInv
    OBVIOUS
<1>1. IInv
    BY InitTypeOK DEF Init, IInv, TypeOK, CacheCoherent
<1>2. PICK p \in Params : cur = p /\ panelData = << >> /\ data = << >>
                          /\ calls = << >> /\ inflight = {}
    BY DEF Init
<1>3. AttrInv
    BY <1>2, EmptyAttributed DEF AttrInv, Shown
<1>4. QED
    BY <1>1, <1>3 DEF AInv

(* Result attribution: in every reachable state of every panel, all the    *)
(* panel shows was fetched under one snapshot of variables and time range, *)
(* whether queryData took it from prevQueryData or from the datasource,    *)
(* and however runs overlap, since each resumed run carries its own        *)
(* snapshot through the await.                                             *)
THEOREM ResultAttribution == Spec => []PanelDataAttributed
<1>1. Init => AInv
    BY ResultAttributionInit
<1>2. AInv /\ [Next]_vars => AInv'
    BY StateOKStep, CacheCoherentStep, AttrInvStep DEF AInv, IInv
<1>3. AInv => PanelDataAttributed
    BY ShownAttributed DEF AInv, AttrInv
<1>4. QED
    BY <1>1, <1>2, <1>3, PTL DEF Spec

-----------------------------------------------------------------------------
(* A call of a resolved run is a text its query can be fetched under.      *)
LEMMA CallFetchable ==
    ASSUME NEW c \in Call, NEW p \in Params, c.text = Res(c.q, p)
    PROVE  c.text \in Fetchable[c.q]
<1>1. c.text \in {Resolve[c.q, x] : x \in Params}
    BY Zenon DEF Res
<1>2. QED
    BY <1>1 DEF Fetchable, Call

(* Every step of the pipeline is a step of the cache specification or     *)
(* leaves the cache's entries as they are.                                 *)
LEMMA CacheStepRefines == AInv /\ [Next]_vars => [CacheSpec!Next]_CacheView
<1> SUFFICES ASSUME AInv, [Next]_vars PROVE [CacheSpec!Next]_CacheView
    OBVIOUS
<1>0. StateOK /\ AttrInv
    BY DEF AInv, IInv
<1>1. ASSUME NEW o \in Outcomes, SettleOne(o), o = "ok"
      PROVE  CacheSpec!Next
    <2> DEFINE c == calls[pos]
    <2>1. /\ cacheQuery' = [cacheQuery EXCEPT ![c.q] = c.text]
          /\ cacheData' = [cacheData EXCEPT ![c.q] = c.text]
          /\ pc = "settle" /\ pos <= Len(calls)
        BY <1>1, Zenon DEF SettleOne
    <2>2. c \in Call /\ c.text = Res(c.q, cur) /\ cur \in Params
        BY <1>0, <2>1 DEF StateOK, AttrInv, CallsFor
    <2>3. c.text \in Fetchable[c.q] /\ c.q \in QueryIds /\ c.text \in Texts
        BY <2>2, CallFetchable DEF Call
    <2>4. CacheView' = [CacheView EXCEPT ![c.q] = [text |-> c.text, data |-> c.text]]
        BY <1>0, <2>1, <2>3, ResolveAssumption DEF CacheView, StateOK
    <2>5. CacheSpec!Store(c.q, c.text)
        BY <2>3, <2>4 DEF CacheSpec!Store
    <2>6. c.text \in UNION {Fetchable[x] : x \in QueryIds}
        BY <2>3
    <2>7. QED
        BY <2>3, <2>5, <2>6 DEF CacheSpec!Next
<1>2. CASE Requery
    <2>1. cacheQuery' = [q \in QueryIds |-> None]
        BY <1>2 DEF Requery
    <2>2. CacheSpec!Invalidate
        BY <2>1 DEF CacheSpec!Invalidate, CacheView
    <2>3. QED
        BY <2>2 DEF CacheSpec!Next
<1>3. CASE UNCHANGED <<cacheQuery, cacheData>>
    BY <1>3 DEF CacheView
<1>4. ASSUME NEW o \in Outcomes, SettleOne(o) PROVE [CacheSpec!Next]_CacheView
    <2>1. CASE o = "ok"
        BY <1>1, <1>4, <2>1
    <2>2. CASE o # "ok"
        <3>1. UNCHANGED <<cacheQuery, cacheData>>
            BY <1>4, <2>2, Zenon DEF SettleOne
        <3>2. QED
            BY <3>1 DEF CacheView
    <2>3. QED
        BY <2>1, <2>2
<1>5. QED
    BY <1>2, <1>3, <1>4 DEF Next, vars, GatePoll, GateUnchanged, SetParams,
       ToggleDatasource, TimerFire, DispatchSkip, DispatchHit, DispatchCall,
       DispatchEnd, SettleStart, SettleEnd, LoopUnchanged

(* The query cache implements its specification: from an empty cache,     *)
(* prevQueries and prevQueryData change only by storing a non-empty       *)
(* answer under the very triple it was fetched for, or by a forced         *)
(* requery invalidating every entry of the panel, however the runs that    *)
(* write them back interleave.                                             *)
THEOREM CacheImplemented == Spec => CacheRefines
<1>1. Init => CacheSpec!Init
    BY DEF Init, CacheSpec!Init, CacheView
<1>2. Spec => []AInv
    <2>1. Init => AInv
        BY ResultAttributionInit
    <2>2. AInv /\ [Next]_vars => AInv'
        BY StateOKStep, CacheCoherentStep, AttrInvStep DEF AInv, IInv
    <2>3. QED
        BY <2>1, <2>2, PTL DEF Spec
<1>3. QED
    BY <1>1, <1>2, CacheStepRefines, PTL DEF Spec, CacheRefines, CacheSpec!Spec
=============================================================================
