----------------------------- MODULE AlertQuery -----------------------------
(***************************************************************************)
(* The alert-panel branch of PanelComponent's queryData and the exported   *)
(* queryAlerts in                                                          *)
(*   src/datav/frontend/src/views/dashboard/grid/PanelGrid/PanelGrid.tsx   *)
(*                                                                         *)
(* The debounced query effect arms a 200 ms timeout; its callback is the   *)
(* queryData of the render that ran the effect, so it compares the result *)
(* with the panelData of that render.  queryAlerts walks the filter's      *)
(* datasource ids one at a time with one await each; a run resumes from    *)
(* each await in a macrotask of its own, so the runs of several timeouts   *)
(* interleave at those awaits.  Everything between two awaits (including   *)
(* the return to queryData and its tail) is one step.                      *)
(*                                                                         *)
(* Data is abstracted: the alert groups one datasource returns are one     *)
(* member of Answers, and the merged result.data is the sequence of the    *)
(* answers in the order of the filter's ids.  An error is a flag.          *)
(***************************************************************************)
EXTENDS Naturals, Sequences

CONSTANTS
    DsIds,         \* panel.plugins.alert.filter.datasources, in order
    Known,         \* ids found in datasources whose plugin has queryAlerts
    Answers,       \* the alert data one datasource can return
    Outcomes,      \* what a queryAlerts call of a plugin can do
    None,          \* the undefined initial panelData
    MaxTriggers    \* bound on the dependency changes of the effect

ASSUME DsAssumption ==
    /\ DsIds \in Seq(Nat)
    /\ Known \subseteq Nat

ASSUME OutcomesAssumption ==
    /\ Outcomes \subseteq {"ok", "error", "reject"}
    /\ None \notin Seq(Answers)

ASSUME MaxTriggersAssumption == MaxTriggers \in Nat

(* A run of queryData suspended inside queryAlerts at the await on the     *)
(* datasource DsIds[pos]: the panelData its closure saw, result.error and  *)
(* result.data so far.  failed (whether any datasource of the run has      *)
(* answered with an error) is history kept for the properties.             *)
(* What getDatasource and the plugin registries find for the panel's own  *)
(* datasource: a datasource with a plugin, no datasource, or a datasource  *)
(* whose type has no plugin.                                               *)
DsStates == {"ok", "missing", "noplugin"}

Run == [id : Nat, pos : Nat, seen : Seq(Answers) \cup {None},
        err : BOOLEAN, data : Seq(Answers), failed : BOOLEAN]

ASSUME NoneAssumption == None \notin Run

VARIABLES
    dsState,     \* DsStates: the panel's datasource in the store
    timer,       \* queryH.current: a debounce timeout is pending
    armSeen,     \* panelData of the render whose effect armed that timeout
    triggers,    \* dependency changes so far (bounded)
    runs,        \* queryData runs suspended at an await of queryAlerts
    nextRun,     \* id for the next run
    panelData,   \* PanelComponent's panelData state
    queryError,  \* PanelComponent's queryError state is set
    loading,     \* PanelComponent's loading state
    last,        \* history: the last run to end queryData, None after an
                 \* early return
    newest       \* history: id of the run the newest timeout started, None
                 \* when that timeout took an early return (or none fired)

vars == <<dsState, timer, armSeen, triggers, runs, nextRun, panelData, queryError,
          loading, last, newest>>

(* Mount: initData is undefined, so the effect arms the first timeout.     *)
Init ==
    /\ dsState \in DsStates
    /\ timer = TRUE
    /\ armSeen = None
    /\ triggers = 0
    /\ runs = {}
    /\ nextRun = 0
    /\ panelData = None
    /\ queryError = FALSE
    /\ loading = FALSE
    /\ last = None
    /\ newest = None

(* A dependency of the query effect changes (time range, variables,       *)
(* datasources, forceQuery), the panel's datasource becoming s: the        *)
(* pending timeout is cleared and a new one armed, whose callback sees the *)
(* current panelData.                                                      *)
Rearm(s) ==
    /\ triggers < MaxTriggers
    /\ dsState' = s
    /\ triggers' = triggers + 1
    /\ timer' = TRUE
    /\ armSeen' = panelData
    /\ UNCHANGED <<runs, nextRun, panelData, queryError, loading, last, newest>>

(* Mutant: the error is only set when result.error is truthy, as in       *)
(* `if (res.error) setQueryError(res.error)`.                              *)
FinishKeepError(r) ==
    /\ queryError' = (queryError \/ r.err)
    /\ panelData' = IF r.seen # r.data THEN r.data ELSE panelData
    /\ loading' = FALSE
    /\ last' = r

(* Mutant: setLoading(false) moved inside the branch that sets the data.   *)
FinishLoadingOnUpdate(r) ==
    /\ queryError' = r.err
    /\ panelData' = IF r.seen # r.data THEN r.data ELSE panelData
    /\ loading' = IF r.seen # r.data THEN FALSE ELSE loading
    /\ last' = r

(* The tail of queryData once queryAlerts has returned: setQueryError with *)
(* result.error, setPanelData only when the data differs from the          *)
(* panelData the closure saw (needUpdate is never set on this branch),     *)
(* then setLoading(false).                                                 *)
Finish(r) ==
    /\ queryError' = r.err
    /\ panelData' = IF r.seen # r.data THEN r.data ELSE panelData
    /\ loading' = FALSE
    /\ last' = r

(* queryAlerts reaches position r.pos of its loop synchronously, with the *)
(* other runs R in flight and loading ld: past the last id it returns and *)
(* queryData finishes; an id with no datasource (ds.type of undefined) or  *)
(* with no queryAlerts in its plugin (res.error of undefined) throws, the  *)
(* promise rejects and queryData stops unhandled, loading left as it is;   *)
(* otherwise the run suspends at the await.                                *)
Reach(r, R, ld) ==
    IF r.pos > Len(DsIds)
    THEN Finish(r) /\ runs' = R
    ELSE /\ runs' = IF DsIds[r.pos] \in Known THEN R \cup {r} ELSE R
         /\ loading' = ld
         /\ UNCHANGED <<panelData, queryError, last>>

(* The timeout fires and runs queryData: with no datasource it sets empty  *)
(* data, with no plugin it sets the error and empty data; otherwise it     *)
(* sets loading and enters queryAlerts with an empty result.               *)
TimerFire ==
    /\ timer
    /\ timer' = FALSE
    /\ \/ /\ dsState = "missing"
          /\ panelData' = << >>
          /\ last' = None
          /\ newest' = None
          /\ UNCHANGED <<runs, nextRun, queryError, loading>>
       \/ /\ dsState = "noplugin"
          /\ queryError' = TRUE
          /\ panelData' = << >>
          /\ last' = None
          /\ newest' = None
          /\ UNCHANGED <<runs, nextRun, loading>>
       \/ /\ dsState = "ok"
          /\ nextRun' = nextRun + 1
          /\ newest' = nextRun
          /\ Reach([id |-> nextRun, pos |-> 1, seen |-> armSeen, err |-> FALSE,
                    data |-> << >>, failed |-> FALSE], runs, TRUE)
    /\ UNCHANGED <<dsState, armSeen, triggers>>

(* Mutant: each answer is pushed as one element instead of concatenated,  *)
(* as in `result.data.push(res.data)`.                                     *)
AnswerPushNested(r, o, d) ==
    /\ r \in runs
    /\ \/ /\ o = "reject"
          /\ runs' = runs \ {r}
          /\ UNCHANGED <<panelData, queryError, loading, last>>
       \/ /\ o = "error"
          /\ Reach([r EXCEPT !.pos = @ + 1, !.err = TRUE, !.failed = TRUE],
                   runs \ {r}, loading)
       \/ /\ o = "ok"
          /\ Reach([r EXCEPT !.pos = @ + 1, !.err = FALSE,
                             !.data = Append(@, <<d>>)],
                   runs \ {r}, loading)
    /\ UNCHANGED <<dsState, timer, armSeen, triggers, nextRun, newest>>

(* The plugin's queryAlerts for DsIds[r.pos] settles.  A rejection rejects *)
(* queryAlerts and queryData unhandled.  Otherwise result.error becomes    *)
(* res.error and res.data is appended (an error answer carries no data),   *)
(* and the loop goes on to the next id.                                    *)
Answer(r, o, d) ==
    /\ r \in runs
    /\ \/ /\ o = "reject"
          /\ runs' = runs \ {r}
          /\ UNCHANGED <<panelData, queryError, loading, last>>
       \/ /\ o = "error"
          /\ Reach([r EXCEPT !.pos = @ + 1, !.err = TRUE, !.failed = TRUE],
                   runs \ {r}, loading)
       \/ /\ o = "ok"
          /\ Reach([r EXCEPT !.pos = @ + 1, !.err = FALSE,
                             !.data = Append(@, d)],
                   runs \ {r}, loading)
    /\ UNCHANGED <<dsState, timer, armSeen, triggers, nextRun, newest>>

Next ==
    \/ \E s \in DsStates : Rearm(s)
    \/ TimerFire
    \/ \E r \in runs, o \in Outcomes, d \in Answers : Answer(r, o, d)

(* The 200 ms timeout eventually fires, and every plugin call eventually   *)
(* settles; the dependency changes come from the user and need not happen. *)
Fairness ==
    /\ WF_vars(TimerFire)
    /\ WF_vars(\E r \in runs, o \in Outcomes, d \in Answers : Answer(r, o, d))

Spec == Init /\ [][Next]_vars /\ Fairness

Quiescent == ~timer /\ runs = {}

TypeOK ==
    /\ dsState \in DsStates
    /\ timer \in BOOLEAN
    /\ armSeen \in Seq(Answers) \cup {None}
    /\ triggers \in 0..MaxTriggers
    /\ runs \subseteq Run
    /\ nextRun \in Nat
    /\ panelData \in Seq(Answers) \cup {None}
    /\ queryError \in BOOLEAN
    /\ loading \in BOOLEAN
    /\ last \in Run \cup {None}
    /\ newest \in Nat \cup {None}

(* A run of queryAlerts in which one datasource answered with an error    *)
(* leaves the panel showing an error when it finishes, whatever the other *)
(* datasources answered (spec sections 4.4 and 8: an adapter failure is   *)
(* stored as the panel's display error while the others' alerts are       *)
(* shown).  Broken when result.error of a failing datasource is            *)
(* overwritten by a later one's.                                           *)
AlertErrorReported ==
    last \in Run /\ last.failed => queryError

(* Once the panel has gone quiet, if the run started by the newest timeout *)
(* was also the last to finish, the panel shows its merged alerts: the     *)
(* isEqual test against the closure's panelData must not skip the newest   *)
(* result because an older run changed panelData after the timeout was    *)
(* armed.                                                                  *)
AlertDataCurrent ==
    Quiescent /\ last \in Run /\ last.id = newest => panelData = last.data

(* The loading spinner set by queryData is eventually cleared for good.    *)
LoadingSettles == <>[](~loading)
====
