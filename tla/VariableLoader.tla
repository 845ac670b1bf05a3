--------------------------- MODULE VariableLoader ---------------------------
(***************************************************************************)
(* The loading of the dashboard's global variables' candidate values, as  *)
(* SelectVariable and setValue do it in                                    *)
(*   src/datav/frontend/src/views/variables/Loader.tsx                     *)
(*                                                                         *)
(* Each variable's component loads its values on mount, on a time change   *)
(* (refresh OnTimeRangeChange) and on a VariableForceReload event.  A      *)
(* load runs synchronously up to its one await (queryVariableValues),      *)
(* which hands the query, with the referred variables' selections of that  *)
(* moment, to the datasource; the answers of the loads in flight come back *)
(* in any order.  The tail of loadValues repairs the selection and, when   *)
(* it changed, schedules a forced reload of every dependant after 100 ms.  *)
(* setValue, a user's choice, forces the dependants' reloads at once.      *)
(*                                                                         *)
(* Data is abstracted: the candidate values are a set (the code sorts      *)
(* them, so two lists are equal exactly when their sets are), a selection  *)
(* is the set of its parts (selected.split(VariableSplitChar)), and the    *)
(* datasource's answer is Fetch(w, snap) for the selections snap of the    *)
(* variables w refers to.                                                  *)
(***************************************************************************)
EXTENDS Naturals, FiniteSets, Sequences, Bags

CONSTANTS
    Vars,         \* the dashboard's variables (v.id)
    Order,        \* the order LoadVariables renders, and mounts, them in
    TextVars,     \* variables of type TextInput
    Refresh,      \* Refresh[v]: "load", "manual" or "time" (v.refresh)
    EnableAll,    \* variables with v.enableAll
    Multi,        \* variables with v.enableMulti
    ValueRefs,    \* ValueRefs[v]: variables named as ${..} in v.value
    DsRefs,       \* DsRefs[v]: variables named as ${..} in v.datasource
    Opts,         \* candidate values a datasource can return
    All,          \* VarialbeAllOption
    NoValues,     \* v.values before the first load (null)
    None,         \* no list stored under VariableManuallyChangedKey
    Fetch(_, _),  \* Fetch(w, snap): queryVariableValues' data for w
    LoadOutcomes, \* the outcomes a query may have: "ok", "error", "throw"
    MaxTriggers   \* bound on the user's and the time picker's changes

ASSUME VarsAssumption ==
    /\ Order \in Seq(Vars)
    /\ TextVars \subseteq Vars /\ EnableAll \subseteq Vars /\ Multi \subseteq Vars
    /\ Refresh \in [Vars -> {"load", "manual", "time"}]
    /\ ValueRefs \in [Vars -> SUBSET Vars] /\ DsRefs \in [Vars -> SUBSET Vars]

ASSUME OptsAssumption ==
    /\ Opts \subseteq Nat
    /\ All \notin Opts
    /\ LoadOutcomes \subseteq {"ok", "error", "throw"}

(* A query's data is made of candidate values, whatever the selections it *)
(* is issued with.                                                          *)
ASSUME FetchAssumption ==
    \A w \in Vars : \A snap \in [ValueRefs[w] \cup DsRefs[w] -> (SUBSET Opts) \cup {{All}}] :
        Fetch(w, snap) \subseteq Opts

ASSUME MaxTriggersAssumption == MaxTriggers \in Nat

(* The selections a variable can hold: some of the candidate values, or    *)
(* the All option alone.                                                   *)
Sels == (SUBSET Opts) \cup {{All}}

(* What a TextInput can hold: a text, or nothing.                          *)
TextSels == {{}} \cup {{o} : o \in Opts}

(* The variables whose ${name} occurs in w's value or datasource.          *)
Refs(w) == ValueRefs[w] \cup DsRefs[w]

(* Mutant: the dependants without the back-reference filter.              *)
DepsNoSkip(v) == {w \in Vars \ {v} : v \in Refs(w)}

(* The dependants a change of v reloads: every other variable that refers  *)
(* to v, except those that v's own value refers to (the guard against      *)
(* "A refer B, B refer A" reload loops).                                   *)
Deps(v) == {w \in Vars \ {v} : v \in Refs(w) /\ w \notin ValueRefs[v]}

(* The selections of w's referred variables when w's query is issued.     *)
SnapOf(w, s) == [u \in Refs(w) |-> s[u]]

(* The All option heads the candidate list of a variable with enableAll.  *)
AllPart(v) == IF v \in EnableAll THEN {All} ELSE {}

VARIABLES
    mountPos,  \* the next SelectVariable whose mount effect runs
    sel,       \* v.selected
    vals,      \* v.values (and the component's values state)
    loading,   \* the component's loading state
    pending,   \* bag of loads suspended at the await: <<w, snapshot>>
    timers,    \* timers[w]: 100 ms timeouts pending to force w's reload
    stored,    \* storage[VariableManuallyChangedKey][teamId + v.id]
    triggers   \* number of user and time-picker changes so far

vars == <<mountPos, sel, vals, loading, pending, timers, stored, triggers>>

Mounted == mountPos > Len(Order)

-----------------------------------------------------------------------------
(* initVariableSelected has set each selection from the URL, the stored    *)
(* selections or the default (possibly none), and the previous sessions   *)
(* have left any lists in storage, where only Manually and                 *)
(* OnTimeRangeChange variables store them.  No component has mounted yet. *)
Init ==
    /\ mountPos = 1
    /\ sel \in {s \in [Vars -> Sels] : \A v \in TextVars : s[v] \in TextSels}
    /\ vals = [v \in Vars |-> NoValues]
    /\ loading = [v \in Vars |-> FALSE]
    /\ pending = EmptyBag
    /\ timers = [v \in Vars |-> 0]
    /\ stored \in {f \in [Vars -> (SUBSET Opts) \cup {None}] :
                     \A v \in Vars : Refresh[v] = "load" => f[v] = None}
    /\ triggers = 0

(* loadValues(true) of the variables W, up to the await: each one that is *)
(* not a TextInput sets loading and issues its query, k times over, with   *)
(* the selections s.                                                       *)
Reload(W, s, k) ==
    LET Q == W \ TextVars
    IN  /\ loading' = [u \in Vars |-> IF u \in Q THEN TRUE ELSE loading[u]]
        /\ pending' = pending (+) [l \in {<<w, SnapOf(w, s)>> : w \in Q} |-> k]

(* result[0], the fallback selection: All when it heads the list, else the *)
(* least value, else nothing (undefined).                                  *)
First(result) ==
    IF All \in result THEN {All}
    ELSE IF result = {} THEN {}
    ELSE {CHOOSE o \in result : \A o2 \in result : o <= o2}

(* Mutant: a selection none of whose parts is offered any more is kept.   *)
NewSelKeepStale(v, result) ==
    IF result # vals[v] /\ sel[v] # {All} /\ sel[v] # {} /\ sel[v] \cap result # {}
    THEN sel[v] \cap result
    ELSE sel[v]

(* The selection repair of loadValues: only when the list changed, and     *)
(* neither for All nor for an empty selection (autoSetSelected is          *)
(* commented out), the parts no longer offered are dropped, and the first  *)
(* candidate is taken if none is left.                                     *)
NewSel(v, result) ==
    IF result # vals[v] /\ sel[v] # {All} /\ sel[v] # {}
    THEN IF sel[v] \cap result = {} THEN First(result) ELSE sel[v] \cap result
    ELSE sel[v]

(* The synchronous tail of loadValues after the list `result` is known:    *)
(* repair the selection, schedule the dependants' reloads when it changed  *)
(* or is All, and store the list as v.values.                              *)
ApplyResult(v, result) ==
    LET s == NewSel(v, result)
    IN  /\ sel' = [sel EXCEPT ![v] = s]
        /\ vals' = [vals EXCEPT ![v] = result]
        /\ timers' = IF s # sel[v] \/ s = {All}
                     THEN [w \in Vars |-> IF w \in Deps(v) THEN timers[w] + 1
                                                           ELSE timers[w]]
                     ELSE timers

(* The mount effect of the next SelectVariable: loadValues(false).  A      *)
(* TextInput returns at once; a Manually or OnTimeRangeChange variable     *)
(* with a stored list takes it without a query and finishes synchronously; *)
(* any other issues its query.                                             *)
Mount ==
    /\ ~Mounted
    /\ mountPos' = mountPos + 1
    /\ UNCHANGED <<stored, triggers>>
    /\ LET v == Order[mountPos] IN
       \/ /\ v \in TextVars
          /\ UNCHANGED <<sel, vals, loading, pending, timers>>
       \/ /\ v \notin TextVars
          /\ Refresh[v] \in {"manual", "time"} /\ stored[v] # None
          /\ ApplyResult(v, AllPart(v) \cup stored[v])
          /\ UNCHANGED <<loading, pending>>
       \/ /\ v \notin TextVars
          /\ ~(Refresh[v] \in {"manual", "time"} /\ stored[v] # None)
          /\ Reload({v}, sel, 1)
          /\ UNCHANGED <<sel, vals, timers>>

EnvStep ==
    /\ Mounted
    /\ triggers < MaxTriggers
    /\ triggers' = triggers + 1

(* setValue(v, x), k times: the selection is set, and every dependant is   *)
(* force-reloaded by a synchronous dispatch, with the new selection.       *)
SetValue(v, x, k) ==
    LET s == [sel EXCEPT ![v] = x]
    IN  /\ sel' = s
        /\ Reload(Deps(v), s, k)

(* The choices PopoverSelect can hand to onChange: offered values only,    *)
(* All exclusive, and one at most unless enableMulti.                      *)
Choices(v) ==
    {x \in SUBSET vals[v] : /\ All \in x => x = {All}
                            /\ v \notin Multi => Cardinality(x) <= 1}

(* The user picks from a variable's select, shown when it is not loading   *)
(* and has values.                                                         *)
SelectValue(v, x) ==
    /\ EnvStep
    /\ v \notin TextVars /\ ~loading[v] /\ vals[v] \notin {NoValues, {}}
    /\ x \in Choices(v)
    /\ SetValue(v, x, 1)
    /\ UNCHANGED <<mountPos, vals, timers, stored>>

(* The user edits a TextInput variable: onChange calls setValue and then   *)
(* setVariableValue, which calls setValue again, so every dependant is     *)
(* reloaded twice.                                                         *)
TextInput(v, x) ==
    /\ EnvStep
    /\ v \in TextVars /\ x # sel[v]
    /\ SetValue(v, x, 2)
    /\ UNCHANGED <<mountPos, vals, timers, stored>>

(* TimeChangedEvent: every OnTimeRangeChange variable runs loadValues(true). *)
TimeChange ==
    /\ EnvStep
    /\ Reload({v \in Vars : Refresh[v] = "time"}, sel, 1)
    /\ UNCHANGED <<mountPos, sel, vals, timers, stored>>

(* Mutant: a timeout fires without one being pending.                     *)
TimerFireUnguarded(w) ==
    /\ Mounted
    /\ timers' = [timers EXCEPT ![w] = @ - 1]
    /\ Reload({w}, sel, 1)
    /\ UNCHANGED <<mountPos, sel, vals, stored, triggers>>

(* A 100 ms timeout fires: VariableForceReload of w, and w's forceReload   *)
(* runs loadValues(true).                                                  *)
TimerFire(w) ==
    /\ Mounted
    /\ timers[w] > 0
    /\ timers' = [timers EXCEPT ![w] = @ - 1]
    /\ Reload({w}, sel, 1)
    /\ UNCHANGED <<mountPos, sel, vals, stored, triggers>>

(* A suspended load l of variable w resumes with outcome o.  A thrown      *)
(* query clears loading and returns; an error answer yields the empty      *)
(* list; a data answer yields the list, stored for a Manually or           *)
(* OnTimeRangeChange variable.                                             *)
LoadComplete(l, o) ==
    LET w == l[1]
        data == Fetch(w, l[2])
    IN  /\ Mounted
        /\ pending' = pending (-) SetToBag({l})
        /\ loading' = [loading EXCEPT ![w] = FALSE]
        /\ UNCHANGED <<mountPos, triggers>>
        /\ \/ /\ o = "throw"
              /\ UNCHANGED <<sel, vals, timers, stored>>
           \/ /\ o = "error"
              /\ ApplyResult(w, {})
              /\ UNCHANGED stored
           \/ /\ o = "ok"
              /\ ApplyResult(w, AllPart(w) \cup data)
              /\ stored' = IF Refresh[w] \in {"manual", "time"}
                           THEN [stored EXCEPT ![w] = data] ELSE stored

Next ==
    \/ Mount
    \/ \E v \in Vars, x \in Sels : SelectValue(v, x)
    \/ \E v \in TextVars, x \in TextSels : TextInput(v, x)
    \/ TimeChange
    \/ \E w \in Vars : TimerFire(w)
    \/ \E l \in DOMAIN pending, o \in LoadOutcomes : LoadComplete(l, o)

(* The event loop runs every mount effect and every due timeout, and each  *)
(* datasource query eventually answers or fails; the user and the time     *)
(* picker need not act.                                                    *)
Fairness ==
    /\ WF_vars(Mount)
    /\ \A w \in Vars : WF_vars(TimerFire(w))
    /\ WF_vars(\E l \in DOMAIN pending, o \in LoadOutcomes : LoadComplete(l, o))

Spec == Init /\ [][Next]_vars /\ Fairness

-----------------------------------------------------------------------------
(* Nothing is left to run: every component has mounted, no load is in     *)
(* flight and no reload timeout is pending.                                *)
Quiescent ==
    /\ Mounted
    /\ pending = EmptyBag
    /\ \A w \in Vars : timers[w] = 0

TypeOK ==
    /\ mountPos \in 1..Len(Order) + 1
    /\ sel \in {s \in [Vars -> Sels] : \A v \in TextVars : s[v] \in TextSels}
    /\ vals \in [Vars -> (SUBSET (Opts \cup {All})) \cup {NoValues}]
    /\ loading \in [Vars -> BOOLEAN]
    /\ IsABag(pending)
    /\ \A l \in DOMAIN pending : l[1] \in Vars \ TextVars
    /\ timers \in [Vars -> Nat]
    /\ stored \in [Vars -> (SUBSET Opts) \cup {None}]
    /\ triggers \in 0..MaxTriggers

(* Once a variable has values, its selection is made of them (or is All):  *)
(* the repair in loadValues, over the stored lists, the answers of loads   *)
(* that come back in any order, errors and the user's choices, never      *)
(* leaves a part the list no longer offers.                                *)
SelectedWithinValues ==
    \A v \in Vars : vals[v] # NoValues => sel[v] \subseteq vals[v] \cup {All}

(* The dependants whose values the reload protocol promises to keep       *)
(* current: OnDashboardLoad queries every referred variable of which       *)
(* reloads them on a change.                                               *)
Promised ==
    {w \in Vars \ TextVars : /\ Refresh[w] = "load"
                             /\ \A u \in Refs(w) : w \in Deps(u)}

(* When everything has settled, a promised dependant's values are those    *)
(* its query returns for the current selections of the variables it        *)
(* refers to (spec 4.2, dependency propagation).                           *)
DependantsCurrent ==
    Quiescent =>
        \A w \in Promised : vals[w] = AllPart(w) \cup Fetch(w, SnapOf(w, sel))

(* The reloads settle: once the user and the time picker stop, every load *)
(* and every deferred reload of the dependency protocol comes to an end.  *)
ReloadsSettle == <>[]Quiescent

=============================================================================
