# TLA+ verification of the xobserve panel query and variable pipeline

This directory models the data-fetching core of the xobserve (datav) frontend.
It covers how a dashboard panel turns its queries, the template variables and
the time range into datasource calls. It also covers how the panel caches the
answers, and how variables load their values and make their dependants reload.
The rest of the source tree is view code and string tables. It is listed below
and is not modelled.

## 1. Inventory

### Components

| Component | Source | State it keeps | Operations |
|---|---|---|---|
| PanelQueryOrchestrator | `PanelGrid.tsx` `PanelComponent` (lines 258-472) | `panelData`, `queryError`, `loading`; the debounce handle `queryH` | the query effect (307-327) that re-arms a 200 ms timeout on every dependency change; `queryData` (329-472): early returns, a loop over `ds.queries` (skip, cache hit, dispatch), one `await Promise.allSettled`, then a `forEach` over the results |
| QueryCache | `PanelGrid.tsx` `prevQueries`, `prevQueryData` (256-257), `formatQueryId` (938-975) | two process-wide maps from a fingerprint to the last `[query, timeRange, dsType]` triple and to its data | read at 407-410, written at 448-449, deleted by forced requery (213-229) and by alert-panel unmount (289-305) |
| PanelGridEvents | `PanelGrid.tsx` `PanelGrid` (135-245) | `tr`, `pvars`, `forceRenderCount`, `forceQueryCount`, `depsInited` | TimeChangedEvent, PanelVariableChangeEvent, PanelForceRebuildEvent, PanelForceRequeryEvent; the dependency gate (`setInterval`, up to 6 retries) |
| AlertQuery | `PanelGrid.tsx` the alert branch of `queryData` (374-383) and `queryAlerts` (977-1029) | `result` (error, data) of each run | one awaited call per datasource id, error and data merging, label de-duplication |
| VariableValueLoader | `Loader.tsx` `SelectVariable` (60-302), `queryVariableValues` (419-463) | `v.values`, `v.selected` (mutated in place), the `VariableManuallyChangedKey` storage record, `values`/`loading` state | `loadValues` (128-243), `forceReload` (106-126), the 100 ms deferred `VariableForceReload` of dependants (209-228) |
| VariableSelection | `Loader.tsx` (303-417) | the `variables` storage record, `$variables` store | `initVariableSelected`, `setValue` (synchronous dependant reload), `setValueToStorage`, `setVariable` |
| VariableResolver | `utils/variable` (not in this tree) | none | `replaceQueryWithVariables`, `hasVariableFormat` |
| UI components, i18n | `ColorPicker.tsx`, `ComplexTable.tsx`, `SpanDetail/index.tsx`, `plugin.ts`, `en.ts` | React view state only | rendering |

### How they interact

All of this code runs on one JavaScript event loop. "Concurrency" means
interleaved callbacks and resumptions of async functions. Nothing runs in
parallel, and no two synchronous stretches ever overlap.

- A change of the time range, of a variable, of the datasources store, or a
  forced requery re-renders `PanelComponent`. Its effect clears the pending
  timeout and sets a new one: a debounce. The debounce never cancels a
  `queryData` that is already waiting on its `await`.
- `queryData` resolves each query with the variables, compares the resolved
  triple with `prevQueries` and either reuses `prevQueryData` or calls the
  datasource plugin. It then awaits all calls together and resumes with every
  result in query order. Several runs can be suspended at once and resume in
  any order.
- `Loader.tsx` loads a variable's values, repairs its selection and publishes
  the change, either to the global `$variables` store or as a
  PanelVariableChangeEvent to the owning panel. Both re-render panels, which
  re-arms their query timeout. Dependants (variables whose expression names
  `${v}`) are reloaded through VariableForceReload: after 100 ms from
  `loadValues`, and at once from `setValue`.

### What is hard

- Overlapping `queryData` runs, because the debounce does not cancel runs in
  flight. Their results come back in any order and each one writes the shared
  cache and the panel state.
- The two cache maps are written separately, and a forced requery deletes
  entries while older runs are still suspended.
- Partial failure. All results are joined with `allSettled`, so one error must
  not hide the others, and one error must not be hidden by them.
- Variable reload chains. The reloads are deferred by fixed timeouts, the
  async loads are not ordered, and a reference cycle is broken only for cycles
  of length two.
- Bounded retries. The dependency gate gives up after six polls.

### What makes each component correct

- QueryCache: the two maps always describe the same fetch (coherence). A
  forced requery really refetches.
- Orchestrator: a dataset comes from one parameter snapshot (attribution) and
  is ordered by query. A quiet panel shows data for the parameters it holds
  now. A failure is reported.
- VariableValueLoader: once loaded, the selection is one of the values (or
  All). Each change reloads each dependant. Reload chains terminate. The last
  answer applied is the newest one.
- AlertQuery: one datasource's error neither drops the other's rules nor is
  lost.

## 2. Modules

| Module | Models | Proofs |
|---|---|---|
| `PanelQuery` (+ `MCPanelQuery`) | PanelQueryOrchestrator and QueryCache for one regular panel, and the PanelGrid events that re-run it | `PanelQuery_proofs` |
| `VariableLoader` (+ `MCVariableLoader`) | VariableValueLoader and `setValue` of VariableSelection, for a small dashboard of variables | `VariableLoader_proofs` |
| `AlertQuery` (+ `MCAlertQuery`) | the alert-panel branch of `queryData`, its debounce and `queryAlerts`' per-datasource loop | `AlertQuery_proofs` |
| `AlertLabels` | the label de-duplication loop of `queryAlerts` for one alert of one rule | `AlertLabels_proofs` |
| `QueryCacheSpec` | what the query cache promises (spec 4.3, 4.4 step 6): an entry is only written with a non-empty answer to the query it is keyed by, and a forced requery invalidates all of the panel's entries (abstract specification refined by `PanelQuery`) | |
| `AlertDedup` | what the de-duplication loop promises: one step to the de-duplicated labels (abstract specification refined by `AlertLabels`) | |

The modules share no variables: the variables reach a panel as the constant
set of parameter snapshots of `PanelQuery`, and the alert branch is a
separate module because it shares none of the regular branch's cache.

## 3. The PanelQuery module

State. `params` is the props the latest render holds: a snapshot of the
variables and the time range, taken from the constant set `Params`.
`dsExists` says whether `getDatasource` finds the panel's datasource. `timer`
is the pending debounce timeout. `cacheQuery` and `cacheData` are
`prevQueries` and `prevQueryData`. `panelData` and `queryError` are the
component's state. A run suspended at the await is a record in `inflight`:
its snapshot, the cache hits it collected, and its pending calls. `pc`, `pos`,
`cur`, `data` and `calls` are the locals of the synchronous stretch that is
running. `depsInited` and `retryNum` are PanelGrid's dependency gate: until
it opens, no PanelComponent is rendered and no query timeout is armed.

Data abstraction. `Resolve[q, p]` is the resolved triple of query `q` under
snapshot `p`, or `Unresolved` if a placeholder remains. A successful answer to
a resolved query `t` is represented by `t` itself, so shown data records what
it was fetched for. Fingerprints are query ids: for one panel `formatQueryId`
differs only in `q.id`.

Actions and their code.

| Action | Code |
|---|---|
| `GatePoll` | a tick of the gate's 100 ms interval (148-178): give up once `retryNum > 5`, open when every global variable the queries' metrics name has values (the constant `Loaded`), else count the poll; opening renders PanelComponent, whose effect arms the first timeout |
| `SetParams(p)` | TimeChangedEvent and PanelVariableChangeEvent (181-205), which re-render the panel and re-arm the timeout (307-327) |
| `ToggleDatasource` | the `$datasources` store changing (278) |
| `Requery` | PanelForceRequeryEvent (213-229). `prevQueryData.delete` removes nothing, because data is stored as properties of the Map, so `cacheData` is unchanged. |
| `TimerFire` | the timeout calling `queryData`, and its early return on a missing datasource (329-353) |
| `DispatchSkip` | hidden or unresolved query (387-404) |
| `DispatchHit` | equal triple: push cached data, clear the error (406-417) |
| `DispatchCall` | call `runQuery` and keep the promise (419-435) |
| `DispatchEnd` | no promises means `setPanelData(data)` at once; otherwise suspend at the await (436-467) |
| `SettleStart(r)` | the await of run `r` returns (437) |
| `SettleOne(o)` | one `forEach` iteration with outcome ok, empty or error (438-456) |
| `SettleEnd` | `setPanelData(data)` (460-469) |

Each loop iteration is one step. `pc` keeps every other action disabled while
a stretch runs, which matches the event loop: no handler runs in the middle of
synchronous code. Splitting the loops this way also lets the proofs work with
`Append` instead of filtered sequences.

Not modelled in `PanelQuery`:
- `disableAutoQuery`, a missing plugin, `initData`, and a plugin without
  `runQuery`. These are static configuration.
- The TestData exception to the unresolved-query skip.
- The `loading` flag, the transform, and rendering.

`Visible` is a constant: editing visibility is a panel edit, and its effect is
the same re-run.

## 4. PanelQuery runs

`MCPanelQuery` uses two queries and four snapshots. `q1`'s text differs
between p1, p2 and p3. `q2`'s text is shared by p1 and p2, so moving from p1
to p2 refetches `q1` while `q2` hits the cache. Under p4, `q2` is unresolved,
and p4 is the one snapshot outside `Loaded`, so a panel starting under p4
polls until the gate gives up after its seventh poll.
`MaxTriggers = 3` environment changes are enough for a run to overlap a
parameter change and a requery or a datasource toggle. Each run finishes in
under 30 s (the pass run explores about 1.06M states). `CHECK_DEADLOCK FALSE` is
set because, once the bounded changes are spent and every run has resumed,
the panel waits for the user and there is nothing left to do.

| Run | Expect | What it shows |
|---|---|---|
| `panel_query` | pass | `TypeOK` and `PanelDataAttributed` (the dataset comes from one snapshot) hold under all interleavings; `CacheRefines`: the cache implements `QueryCacheSpec`; and `GateOpens`: the gate always renders the panel |
| `query_order` | violation | `DataInQueryOrder`: q2 is a cache hit and q1 is fetched, so the dataset is [q2, q1] |
| `partial_failure` | violation | `ErrorReported`: q1 fails and q2 succeeds, and q2's `setQueryError(undefined)` clears the error |
| `requery_race` | violation | `RequeryHonoured`: a requery arrives while a run is suspended, and the run's resumption writes `prevQueries` back before the forced run reads it |

Each violation is a disagreement with `spec.md` (sections 4.3, 4.4 and 8),
recorded under "findings" in `PROJECT.json`. Each property of the pass run has
a mutant that TLC catches:
- a loop index from 0 breaks `TypeOK`;
- a hit test that ignores the triple breaks `PanelDataAttributed`;
- a gate that does not count its failed polls breaks `GateOpens`;
- a requery loop that stops one query short breaks `CacheRefines`.

`CacheRefines == CacheSpec!Spec` instantiates `QueryCacheSpec` with the
refinement mapping `CacheView`. A query with no triple in `prevQueries` has
no entry, whatever `prevQueryData` still holds. Otherwise its entry is the
pair of the triple and `prevQueryData`'s data. `Answers` is `Fetchable`: the
texts the query resolves to under some snapshot. So the property says that
every step leaves the entries alone, stores a fetched answer under its own
triple, or invalidates them all. It implies `CacheCoherent` (the two maps
describe one fetch), which the proofs use, and also rules out an entry that
is cleared alone or keyed by another query's text.

Fairness: only the gate's interval, `WF_vars(GatePoll)`. The event loop runs
every due interval callback until `clearInterval`; the user, the
datasources and the debounce timeout are not assumed to do anything for
`GateOpens`, which must hold even if no variable ever loads.

## 5. The VariableLoader module

State. `sel[v]` is `v.selected`, as the set of its parts; `vals[v]` is
`v.values` as a set (the code sorts the list, so two lists are equal exactly
when their sets are); `loading`, the bag `pending` of loads suspended at the
await of `queryVariableValues`, each with the selections of the variables it
refers to when it was issued; `timers[w]`, the number of 100 ms
`VariableForceReload` timeouts pending for `w`; `stored`, the
`VariableManuallyChangedKey` record; `mountPos`, the next component whose
mount effect runs. The datasource is the constant `Fetch(w, snap)`.

| Action | Code (`Loader.tsx`) |
|---|---|
| `Init` | `initVariableSelected` (303-334): any selection from URL, storage or default |
| `Mount` | the mount effect, `loadValues(false)` (91-98, 128-159): a TextInput returns, a stored list is taken synchronously, otherwise the query is issued |
| `SelectValue(v, x)` | the select's `onChange` (263-280), then `setValue` (342-382): the dependants are reloaded at once |
| `TextInput(v, x)` | the TextInput's `onChange` (285-295): `setValue` runs twice, so every dependant is reloaded twice |
| `TimeChange` | TimeChangedEvent (69-80): every OnTimeRangeChange variable reloads |
| `TimerFire(w)` | the 100 ms timeout and `forceReload` (82-127) |
| `LoadComplete(l, o)` | the await returns (156-185), and the tail `ApplyResult` (186-231): throw, error (empty list) or data; selection repair `NewSel`; dependants' timeouts when the selection changed or is All |

`Deps(v)` is the dependants' filter at 208-221: every other variable that
refers to `v`, except those `v`'s own value refers to.

Runs. `MCVariableLoader` uses a TextInput `t` and two query variables `a`
(OnDashboardLoad, multi) and `b` (OnTimeRangeChange, with All) over the
values {1, 2}. Fairness: weak fairness of `Mount`, of every `TimerFire(w)`
and of `LoadComplete`. The event loop runs every mount effect and every due
timeout, and each query eventually answers or throws. The user and the time
picker get no fairness.

| Run | Expect | What it shows |
|---|---|---|
| `variable_loader` | pass | values reference `t <- a <- b`, and `a`'s datasource refers back to `b`, all three outcomes, `MaxTriggers = 1`: `TypeOK`, `SelectedWithinValues` and `ReloadsSettle` (46,555 states) |
| `variable_race` | violation | `DependantsCurrent`: one edit of `t` while the mount load of `a` is still in flight leaves two loads of `a` in flight, and the older answer, applied last, wins (`Loader.tsx:159`) |
| `variable_cycle` | violation | `ReloadsSettle`: a loop of three references with All selected reloads for ever; the filter only breaks loops of two (`Loader.tsx:214`) |

One user change is enough for the pass run: the mutual reference through
`DsRefs` makes a change of `b` reach `a` and the filter stop it coming back,
and every load can overlap the timers it schedules. Mutants: a timeout that
fires with none pending breaks `TypeOK`; keeping a selection none of whose
parts is offered breaks `SelectedWithinValues`; dropping the back-reference
filter breaks `ReloadsSettle`.

## 6. The AlertQuery module

State. `dsState` is what `getDatasource` and the plugin registries find for
the panel's own datasource (`ok`, `missing`, `noplugin`). `timer` and
`armSeen` are the pending debounce timeout and the `panelData` of the render
whose effect armed it: the callback is that render's `queryData` closure.
`runs` holds the runs suspended at the await of a plugin's `queryAlerts`, as
records of the position in the filter, the closure's `panelData`, and
`result.error` and `result.data` so far. `panelData`, `queryError` and
`loading` are the component's state. `last` and `newest` are history: the
last run to end `queryData`, and the run the newest timeout started (`None`
when that timeout took an early return).

| Action | Code (`PanelGrid.tsx`) |
|---|---|
| `Rearm(s)` | a dependency change re-runs the query effect (307-327), the datasource becoming `s` |
| `TimerFire` | the timeout runs `queryData` (329-383): the early returns for a missing datasource and plugin, then `setLoading(true)` and the loop's first position |
| `Answer(r, o, d)` | the plugin's `queryAlerts` settles (994-999): it rejects, or `result.error = res.error` and `res.data` is appended |
| `Reach(r, R, ld)` | the loop reaching a position synchronously (988-995): past the end `Finish` runs; an id that is not in the store or has no `queryAlerts` throws and the run ends unhandled |
| `Finish(r)` | the tail of `queryData` (460-469): `setQueryError`, `setPanelData` only if `!isEqual(panelData, data)` against the closure's `panelData`, `setLoading(false)` |

Each stretch between two awaits is one step: a run resumes in a macrotask of
its own, and the return to `queryData` and its tail run in the microtasks of
that same turn.

Runs (`MCAlertQuery`: filter ids `<<1, 2>>`, answers two model values).
Fairness: weak fairness of `TimerFire` and of `Answer`, since the 200 ms
timeout always fires and every plugin call eventually settles.

| Run | Expect | What it shows |
|---|---|---|
| `alert_query` | pass | three triggers, outcomes ok, error and reject: `TypeOK` (144,588 states) |
| `alert_config_abort` | violation | `LoadingSettles`: filter id 2 is not in the store, `ds.type` throws, the spinner stays on and id 1's alerts are dropped |
| `alert_partial_failure` | violation | `AlertErrorReported`: datasource 1 answers with an error and datasource 2 with alerts; `result.error = res.error` (line 997) overwrites the error, and the panel shows no error |
| `alert_stale_data` | violation | `AlertDataCurrent`: runs 0 and 1 start before any data is shown; run 0 sets `[x, x]`, and the newest timeout is armed seeing `[x, x]`; older run 1 then sets `[x, y]`; the newest run returns `[x, x]`, equal to its closure's stale `panelData`, skips `setPanelData` and the panel keeps run 1's alerts |

`AlertDataCurrent` only asks for the newest run's data when that run is also
the last to finish and no early return came after it: a run superseded by a
newer timeout is not required to win.

Mutant: an answer pushed as one element (`result.data.push(res.data)`)
breaks `TypeOK`.

`LoadingSettles` fails only through the throws: the runs of a filter whose
ids are all known and whose plugins never reject end in `Finish`, which
clears `loading`.

`AlertLabels` models lines 1013-1020 for one alert of one rule: `Strip` takes
`Object.keys(r.labels)` in any order (`Orders`) and deletes `alertname`;
`VisitKey` is one iteration of the inner loop, and `LoopEnd` its exit.
`AlertDedup` is the abstract specification of what the loop promises: one
step `Dedupe` that replaces the labels with `Dedup(ruleLabels, input)`, the
alert's labels minus `alertname` and those equal to the rule's label of the
same name. `AlertLabels` instantiates it with the refinement mapping
`labels <- IF pc = "done" THEN labels ELSE input`, `done <- (pc = "done")`:
the loop's intermediate label sets are invisible, and its exit is the
abstract step. The run `alert_labels` (`MCAlertLabels`) checks the property
`DedupRefines == Abs!Spec` over every rule and alert label set on three names
(one of them `alertname`) and two values (6,885 states). Mutant: comparing
with `!=` breaks `DedupRefines`.

## 7. Proofs

Each proof module EXTENDS its model and TLAPS, and proves `Spec => []P` from
an inductive invariant `IInv` with three facts: `Init => IInv`,
`IInv /\ [Next]_vars => IInv'` (one step per action, one case per branch of
the code), and `IInv => P`; the last step is `PTL DEF Spec`. Every `IInv` was
first checked by TLC as an invariant. A pattern used throughout: a type
invariant is split into the Boolean variables (proved with Zenon) and the
data (proved with SMT), because neither backend handles obligations mixing
both; record updates of several fields are proved one field at a time.

- `PanelQuery_proofs`, from `QueriesAssumption`, `ResolveAssumption` and
  `MaxTriggersAssumption`:
  - `TypeCorrect == Spec => []TypeOK`. `TypeOK` is inductive.
  - Lemma `CacheCoherence == Spec => []CacheCoherent`, with
    `IInv == StateOK /\ CacheCoherent`: the type is needed so that
    `calls[pos]` is a `Call` whose query and text are what both maps get.
  - `ResultAttribution == Spec => []PanelDataAttributed`.
    `PanelDataAttributed` is not inductive: a step that sets `panelData`
    from `data` needs to know where `data` came from. `AInv` adds `AttrInv`:
    every item of `data` and every promise in `calls` was made under the
    running stretch's snapshot `cur`. Every suspended run's `hits` and
    `calls` were made under the snapshot it keeps. A cache hit keeps this
    only because of `CacheCoherent`: the data pushed equals the triple that
    matched, `Resolve[q, cur]`. TLC checked `AttrInv` on the `panel_query`
    instance before the proof. `Resolve` is wrapped in the operator `Res`,
    which the proofs keep opaque. Lemma `ShownAttributed` unfolds it once,
    with Zenon, because the SMT backend cannot encode `Resolve` applied
    under quantifiers.
  - `CacheImplemented == Spec => CacheRefines`, the refinement of
    `QueryCacheSpec`. `Init` maps to `CacheSpec!Init`, and `Spec => []AInv`.
    Under `AInv`, a successful `SettleOne` maps to `Store`: its text is
    `Res(c.q, cur)` by `AttrInv`, so it is in `Fetchable[c.q]` (lemma
    `CallFetchable`). `Requery` maps to `Invalidate`. Every other step leaves
    both maps unchanged.
- `VariableLoader_proofs`, from `VarsAssumption`, `OptsAssumption`,
  `FetchAssumption` and `MaxTriggersAssumption`:
  `SelectionWithinValues == Spec => []SelectedWithinValues`. `IInv` adds the
  types, that every pending load is of a query variable with a snapshot of
  its referred variables (`PendingOK`), and that TextInputs never get
  values. Lemmas about `First` and `NewSel` show the repaired selection lies
  in the new list.
  `LoaderTypeCorrect == Spec => []TypeOK`, from `IInv /\ TypeOK`. `IInv`
  gives the types of the selections, values, stored lists and pending
  loads' variables. `TypeStep` proves the rest (`RestOK`): TextInputs hold
  a text, `loading` stays a flag per variable, `pending` stays a bag
  (lemmas `ReloadType` and `RemoveType` on `(+)` and `(-)`), and the timeout
  counts stay natural numbers, since `TimerFire` is guarded by
  `timers[w] > 0`.
- `AlertQuery_proofs`, from `DsAssumption`, `OutcomesAssumption`,
  `MaxTriggersAssumption` and `NoneAssumption`:
  `AlertTypeCorrect == Spec => []TypeOK`, from `IInv == TypeOK /\ ErrInv`
  (the error shown is the last finished run's `result.error`, which is only
  set by a failing datasource). The lemma `ReachStep` covers the loop
  position shared by `TimerFire` and `Answer`.
- `AlertLabels_proofs`, from `KeysAssumption`:
  `DedupImplemented == Spec => DedupRefines`, the refinement of `AlertDedup`,
  for every label name set and value set. Its argument: `Init`
  maps to `Abs!Init`; `Spec => []IInv`; and under `IInv` every step maps to
  `Abs!Dedupe` or a stutter (`StepRefines`): `Strip` and `VisitKey` leave
  the mapped variables unchanged because `pc` is not `"done"` before or
  after, and at `LoopEnd` the labels already equal `Dedup` (`DoneDedup`).
  `IInv` is the loop invariant: the keys left are distinct, and the labels
  are the input minus `alertname` and the equal names already visited,
  `Eq \ Listed(keys)`. Lemmas: `TailListed` (the tail of a list of
  distinct names lists the others), `WithoutWithout`, `WithoutLabelSet` and
  `DomainFinite` (via `FS_Subset` and `FS_CardinalityType`).
  The lemma `LabelsTypeCorrect == Spec => []TypeOK` follows from the same
  `IInv`.

Only TLC checks: the liveness properties `GateOpens`, `ReloadsSettle` and
`LoadingSettles` (TLAPS cannot reason about fairness and ENABLED), and the
violation runs. Every invariant and every safety property of the passing
runs is stated by a theorem.

## 8. Hazards

`PROJECT.json` lists the hazards of this code with the properties that
cover them. Those without a property: the debounce timeout surviving a
remount (`PanelGrid.tsx:315`), the unbounded process-wide cache
(`PanelGrid.tsx:256`), and `forceReload` closing over the first render's
variable object (`Loader.tsx:88`).

## 9. Not modelled

- View code (`ColorPicker`, `ComplexTable`, `SpanDetail`), the type
  declarations in `plugin.ts`, and the i18n tables. They have no behaviour
  beyond rendering.
- The variable resolver. It is not in this source tree, so it is the constant
  `Resolve` of `PanelQuery` and `Fetch` of `VariableLoader`.
- PanelForceRebuildEvent: the remount decides which component instance
  holds which state, which the model of one component does not distinguish.
- `initVariableSelected(pvars)` at PanelGrid's mount: it is the same
  selection set-up `VariableLoader`'s `Init` takes as given.
- In the alert branch: flattening the groups into rules with `fromDs`,
  `groupName` and `groupNamespace`, and `alert.name` (`jsonToEqualPairs` is
  not in this tree). They format data and change no control.
- The unbounded growth of the process-wide cache. A bounded model of one
  panel cannot show it.
