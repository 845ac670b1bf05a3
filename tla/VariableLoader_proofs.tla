------------------------ MODULE VariableLoader_proofs ------------------------
(***************************************************************************)
(* Proofs about the loading of variable values, for every dashboard that   *)
(* satisfies the module's assumptions: any variables, references, refresh *)
(* modes and datasource answers.                                           *)
(***************************************************************************)
EXTENDS VariableLoader, WellFoundedInduction, TLAPS

(* A non-empty set of naturals has a least element, so result[0] of a      *)
(* sorted list of values without All is one of its values.                 *)
LEMMA LeastElement ==
    ASSUME NEW T \in SUBSET Nat, T # {}
    PROVE  \E o \in T : \A o2 \in T : o <= o2
<1>1. \E x \in T : \A y \in T : ~(<<y, x>> \in OpToRel(<, Nat))
    BY NatLessThanWellFounded, WFMin
<1>2. PICK x \in T : \A y \in T : ~(<<y, x>> \in OpToRel(<, Nat))
    BY <1>1
<1>3. ASSUME NEW y \in T PROVE x <= y
    <2>1. <<y, x>> \in Nat \X Nat
        OBVIOUS
    <2>2. ~(y < x)
        BY <1>2, <2>1 DEF OpToRel
    <2>3. QED
        BY <2>2
<1>4. QED
    BY <1>3

(* The fallback selection is taken from the list, or is All.               *)
LEMMA FirstWithin ==
    ASSUME NEW r \in SUBSET (Opts \cup {All})
    PROVE  First(r) \subseteq r \cup {All}
<1>1. CASE All \notin r /\ r # {}
    <2>1. r \in SUBSET Nat /\ r # {}
        BY <1>1, OptsAssumption
    <2>2. \E o \in r : \A o2 \in r : o <= o2
        BY <2>1, LeastElement
    <2>3. QED
        BY <1>1, <2>2 DEF First
<1>2. QED
    BY <1>1 DEF First

(* The fallback selection is a selection.                                  *)
LEMMA FirstSel ==
    ASSUME NEW r \in SUBSET (Opts \cup {All})
    PROVE  First(r) \in Sels
<1>1. CASE All \notin r /\ r # {}
    <2>1. First(r) \subseteq r \cup {All}
        BY FirstWithin
    <2>2. QED
        BY <1>1, <2>1 DEF First, Sels
<1>2. CASE All \in r
    BY <1>2 DEF First, Sels
<1>3. CASE r = {}
    BY <1>3 DEF First, Sels
<1>4. QED
    BY <1>1, <1>2, <1>3

-----------------------------------------------------------------------------
(* The inductive invariant: the types SelectedWithinValues rests on, that  *)
(* loads are only issued for query variables with their referred          *)
(* variables' selections, and that TextInput variables never get values.   *)
PendingOK(P) ==
    \A l \in DOMAIN P : /\ l[1] \in Vars \ TextVars
                       /\ l[2] \in [Refs(l[1]) -> Sels]

IInv ==
    /\ mountPos \in 1..Len(Order) + 1
    /\ sel \in [Vars -> Sels]
    /\ vals \in [Vars -> (SUBSET (Opts \cup {All})) \cup {NoValues}]
    /\ stored \in [Vars -> (SUBSET Opts) \cup {None}]
    /\ PendingOK(pending)
    /\ \A v \in TextVars : vals[v] = NoValues
    /\ SelectedWithinValues

(* The repaired selection is a selection, and lies within the new list.   *)
LEMMA NewSelWithin ==
    ASSUME IInv, NEW v \in Vars, NEW r \in SUBSET (Opts \cup {All})
    PROVE  /\ NewSel(v, r) \in Sels
           /\ r # NoValues => NewSel(v, r) \subseteq r \cup {All}
<1>1. CASE r # vals[v] /\ sel[v] # {All} /\ sel[v] # {}
    <2>1. sel[v] \in SUBSET Opts
        <3>1. sel[v] \in Sels
            BY DEF IInv
        <3>2. QED
            BY <1>1, <3>1, Zenon DEF Sels
    <2>2. CASE sel[v] \cap r = {}
        BY <1>1, <2>2, FirstWithin, FirstSel DEF NewSel
    <2>3. CASE sel[v] \cap r # {}
        BY <1>1, <2>1, <2>3 DEF NewSel, Sels
    <2>4. QED
        BY <2>2, <2>3
<1>2. CASE ~(r # vals[v] /\ sel[v] # {All} /\ sel[v] # {})
    <2>1. NewSel(v, r) = sel[v]
        BY <1>2 DEF NewSel
    <2>2. sel[v] \in Sels
        BY DEF IInv
    <2>3. CASE r = vals[v]
        BY <2>1, <2>2, <2>3 DEF IInv, SelectedWithinValues
    <2>4. CASE sel[v] = {All} \/ sel[v] = {}
        BY <2>1, <2>2, <2>4
    <2>5. QED
        BY <1>2, <2>3, <2>4
<1>3. QED
    BY <1>1, <1>2

LEMMA InitIInv == Init => IInv
<1> SUFFICES ASSUME Init PROVE IInv
    OBVIOUS
<1>1. PendingOK(pending)
    BY DEF Init, PendingOK, EmptyBag, SetToBag
<1>2. QED
    BY <1>1, VarsAssumption DEF Init, IInv, SelectedWithinValues, TextSels, Sels

(* Issuing loads keeps every load a query's, with its referred variables' *)
(* selections.                                                             *)
LEMMA ReloadPending ==
    ASSUME PendingOK(pending), NEW W \in SUBSET Vars, NEW s \in [Vars -> Sels],
           NEW k, Reload(W, s, k)
    PROVE  PendingOK(pending')
<1> DEFINE Q == W \ TextVars
           N == [l \in {<<w, SnapOf(w, s)>> : w \in Q} |-> k]
<1>1. pending' = pending (+) N
    BY DEF Reload
<1>2. DOMAIN pending' = DOMAIN pending \cup {<<w, SnapOf(w, s)>> : w \in Q}
    BY <1>1 DEF (+)
<1>3. ASSUME NEW w \in Q PROVE SnapOf(w, s) \in [Refs(w) -> Sels]
    BY VarsAssumption DEF SnapOf, Refs
<1>4. QED
    BY <1>2, <1>3 DEF PendingOK

(* Removing a load keeps the others as they were.                          *)
LEMMA RemovePending ==
    ASSUME PendingOK(pending), NEW l
    PROVE  PendingOK(pending (-) SetToBag({l}))
BY DEF PendingOK, (-), SetToBag

(* The tail of loadValues, applied to a list of candidate values, keeps    *)
(* the invariant's parts about selections and values.                      *)
LEMMA ApplyResultStep ==
    ASSUME IInv, NEW v \in Vars \ TextVars, NEW r \in SUBSET (Opts \cup {All}),
           ApplyResult(v, r)
    PROVE  /\ sel' \in [Vars -> Sels]
           /\ vals' \in [Vars -> (SUBSET (Opts \cup {All})) \cup {NoValues}]
           /\ \A u \in TextVars : vals'[u] = NoValues
           /\ SelectedWithinValues'
<1>1. sel' = [sel EXCEPT ![v] = NewSel(v, r)] /\ vals' = [vals EXCEPT ![v] = r]
    BY DEF ApplyResult
<1>2. NewSel(v, r) \in Sels /\ (r # NoValues => NewSel(v, r) \subseteq r \cup {All})
    BY NewSelWithin
<1>3. QED
    BY <1>1, <1>2 DEF IInv, SelectedWithinValues

(* Every step keeps the inductive invariant.                              *)
LEMMA IInvStep == IInv /\ [Next]_vars => IInv'
<1> SUFFICES ASSUME IInv, [Next]_vars PROVE IInv'
    OBVIOUS
<1>0. PendingOK(pending) /\ sel \in [Vars -> Sels]
    BY DEF IInv
<1>1. CASE Mount
    <2> DEFINE v == Order[mountPos]
    <2>1. mountPos \in 1..Len(Order) /\ mountPos' = mountPos + 1
        BY <1>1 DEF Mount, Mounted, IInv
    <2>2. v \in Vars
        BY <2>1, VarsAssumption
    <2>3. mountPos' \in 1..Len(Order) + 1 /\ UNCHANGED stored
        BY <1>1, <2>1 DEF Mount
    <2>4. CASE v \in TextVars /\ UNCHANGED <<sel, vals, loading, pending, timers>>
        BY <2>3, <2>4 DEF IInv, SelectedWithinValues
    <2>5. CASE /\ v \notin TextVars
               /\ Refresh[v] \in {"manual", "time"} /\ stored[v] # None
               /\ ApplyResult(v, AllPart(v) \cup stored[v])
               /\ UNCHANGED <<loading, pending>>
        <3>1. AllPart(v) \cup stored[v] \in SUBSET (Opts \cup {All})
            BY <2>2, <2>5 DEF IInv, AllPart
        <3>2. QED
            BY <2>2, <2>3, <2>5, <3>1, ApplyResultStep DEF IInv
    <2>6. CASE /\ v \notin TextVars
               /\ Reload({v}, sel, 1)
               /\ UNCHANGED <<sel, vals, timers>>
        BY <1>0, <2>2, <2>3, <2>6, ReloadPending DEF IInv, SelectedWithinValues
    <2>7. QED
        BY <1>1, <2>4, <2>5, <2>6 DEF Mount
<1>2. ASSUME NEW v \in Vars, NEW x \in Sels, SelectValue(v, x) PROVE IInv'
    <2>1. v \notin TextVars /\ vals[v] \in SUBSET (Opts \cup {All}) /\ x \in Choices(v)
        BY <1>2 DEF SelectValue, IInv
    <2>2. x \subseteq vals[v]
        BY <2>1 DEF Choices
    <2>3. sel' = [sel EXCEPT ![v] = x] /\ sel' \in [Vars -> Sels]
        BY <1>2, <1>0 DEF SelectValue, SetValue
    <2>4. PendingOK(pending')
        BY <1>0, <2>3, <1>2, ReloadPending, VarsAssumption DEF SelectValue, SetValue, Deps
    <2>5. QED
        BY <1>2, <2>1, <2>2, <2>3, <2>4 DEF SelectValue, IInv, SelectedWithinValues, EnvStep
<1>3. ASSUME NEW v \in TextVars, NEW x \in TextSels, TextInput(v, x) PROVE IInv'
    <2>1. sel' = [sel EXCEPT ![v] = x] /\ sel' \in [Vars -> Sels]
        BY <1>3, <1>0, VarsAssumption DEF TextInput, SetValue, TextSels, Sels
    <2>2. PendingOK(pending')
        BY <1>0, <2>1, <1>3, ReloadPending, VarsAssumption DEF TextInput, SetValue, Deps
    <2>3. QED
        BY <1>3, <2>1, <2>2, VarsAssumption DEF TextInput, IInv, SelectedWithinValues, EnvStep
<1>4. CASE TimeChange
    BY <1>0, <1>4, ReloadPending DEF TimeChange, IInv, SelectedWithinValues, EnvStep
<1>5. ASSUME NEW w \in Vars, TimerFire(w) PROVE IInv'
    BY <1>0, <1>5, ReloadPending DEF TimerFire, IInv, SelectedWithinValues
<1>6. ASSUME NEW l \in DOMAIN pending, NEW o \in LoadOutcomes, LoadComplete(l, o)
      PROVE IInv'
    <2> DEFINE w == l[1]
               data == Fetch(w, l[2])
    <2>1. w \in Vars \ TextVars /\ l[2] \in [Refs(w) -> Sels]
        BY <1>0 DEF PendingOK
    <2>2. data \subseteq Opts
        BY <2>1, FetchAssumption DEF Refs, Sels
    <2>3. PendingOK(pending') /\ UNCHANGED mountPos
        BY <1>0, <1>6, RemovePending DEF LoadComplete
    <2>4. CASE o = "throw"
        BY <1>6, <2>3, <2>4 DEF LoadComplete, IInv, SelectedWithinValues
    <2>5. CASE o = "error"
        <3>1. ApplyResult(w, {}) /\ UNCHANGED stored
            BY <1>6, <2>5 DEF LoadComplete
        <3>2. QED
            BY <2>1, <2>3, <3>1, ApplyResultStep DEF IInv
    <2>6. CASE o = "ok"
        <3>1. /\ ApplyResult(w, AllPart(w) \cup data)
              /\ stored' = IF Refresh[w] \in {"manual", "time"}
                           THEN [stored EXCEPT ![w] = data] ELSE stored
            BY <1>6, <2>6 DEF LoadComplete
        <3>2. AllPart(w) \cup data \in SUBSET (Opts \cup {All})
            BY <2>2 DEF AllPart
        <3>3. stored' \in [Vars -> (SUBSET Opts) \cup {None}]
            BY <2>1, <2>2, <3>1 DEF IInv
        <3>4. QED
            BY <2>1, <2>3, <3>1, <3>2, <3>3, ApplyResultStep DEF IInv
    <2>7. QED
        BY <2>4, <2>5, <2>6, OptsAssumption
<1>7. CASE UNCHANGED vars
    BY <1>7 DEF vars, IInv, SelectedWithinValues, PendingOK
<1>8. QED
    BY <1>1, <1>2, <1>3, <1>4, <1>5, <1>6, <1>7 DEF Next

(* Once a variable has values, its selection is made of them or is All,    *)
(* in every reachable state of every dashboard: the selection repair of    *)
(* loadValues keeps this over stored lists, errors, thrown queries, user   *)
(* choices and loads answered in any order.                                *)
THEOREM SelectionWithinValues == Spec => []SelectedWithinValues
<1>1. Init => IInv
    BY InitIInv
<1>2. IInv /\ [Next]_vars => IInv'
    BY IInvStep
<1>3. IInv => SelectedWithinValues
    BY DEF IInv
<1>4. QED
    BY <1>1, <1>2, <1>3, PTL DEF Spec

-----------------------------------------------------------------------------
(* Issuing k copies of loads keeps the suspended loads a bag and loading a *)
(* flag per variable.                                                      *)
LEMMA ReloadType ==
    ASSUME IsABag(pending), loading \in [Vars -> BOOLEAN], NEW W \in SUBSET Vars,
           NEW s, NEW k \in Nat \ {0}, Reload(W, s, k)
    PROVE  IsABag(pending') /\ loading' \in [Vars -> BOOLEAN]
<1> DEFINE N == [l \in {<<w, SnapOf(w, s)>> : w \in W \ TextVars} |-> k]
<1>1. pending' = pending (+) N /\ IsABag(N)
    BY DEF Reload, IsABag
<1>2. IsABag(pending (+) N)
    BY <1>1 DEF IsABag, (+)
<1>3. QED
    BY <1>1, <1>2 DEF Reload

(* Removing one copy of a load keeps the suspended loads a bag.           *)
LEMMA RemoveType ==
    ASSUME IsABag(pending), NEW l
    PROVE  IsABag(pending (-) SetToBag({l}))
BY DEF IsABag, (-), SetToBag

(* The tail of loadValues for a query variable changes no TextInput's      *)
(* selection and counts each dependant's timeout once more.                *)
LEMMA ApplyResultType ==
    ASSUME TypeOK, NEW v \in Vars \ TextVars, NEW r, ApplyResult(v, r)
    PROVE  /\ \A u \in TextVars : sel'[u] = sel[u]
           /\ timers' \in [Vars -> Nat]
BY DEF ApplyResult, TypeOK

(* The parts of the type the inductive invariant does not give.           *)
RestOK ==
    /\ \A u \in TextVars : sel'[u] \in TextSels
    /\ loading' \in [Vars -> BOOLEAN]
    /\ IsABag(pending')
    /\ timers' \in [Vars -> Nat]
    /\ triggers' \in 0..MaxTriggers

(* Every step keeps the types, given the inductive invariant.              *)
LEMMA TypeStep == IInv /\ TypeOK /\ [Next]_vars => TypeOK'
<1> SUFFICES ASSUME IInv, TypeOK, [Next]_vars PROVE TypeOK'
    OBVIOUS
<1>0. IInv'
    BY IInvStep
<1>1. /\ mountPos' \in 1..Len(Order) + 1
      /\ vals' \in [Vars -> (SUBSET (Opts \cup {All})) \cup {NoValues}]
      /\ stored' \in [Vars -> (SUBSET Opts) \cup {None}]
      /\ sel' \in [Vars -> Sels]
      /\ \A l \in DOMAIN pending' : l[1] \in Vars \ TextVars
    BY <1>0 DEF IInv, PendingOK
<1>2. RestOK => TypeOK'
    BY <1>1 DEF TypeOK, RestOK
<1> SUFFICES RestOK
    BY <1>2
<1>3. CASE Mount
    <2> DEFINE v == Order[mountPos]
    <2>1. v \in Vars /\ UNCHANGED triggers
        BY <1>3, VarsAssumption DEF Mount, Mounted, TypeOK
    <2>2. CASE v \in TextVars /\ UNCHANGED <<sel, vals, loading, pending, timers>>
        BY <2>1, <2>2 DEF TypeOK, RestOK
    <2>3. CASE /\ v \notin TextVars
               /\ ApplyResult(v, AllPart(v) \cup stored[v])
               /\ UNCHANGED <<loading, pending>>
        BY <2>1, <2>3, ApplyResultType DEF TypeOK, RestOK
    <2>4. CASE v \notin TextVars /\ Reload({v}, sel, 1) /\ UNCHANGED <<sel, vals, timers>>
        <3>1. IsABag(pending) /\ loading \in [Vars -> BOOLEAN] /\ {v} \in SUBSET Vars
            BY <2>1 DEF TypeOK
        <3>2. IsABag(pending') /\ loading' \in [Vars -> BOOLEAN]
            BY <2>4, <3>1, ReloadType
        <3>3. QED
            BY <2>1, <2>4, <3>2 DEF TypeOK, RestOK
    <2>5. QED
        BY <1>3, <2>2, <2>3, <2>4 DEF Mount
<1>4. ASSUME NEW v \in Vars, NEW x \in Sels, SelectValue(v, x) PROVE RestOK
    <2>1. v \notin TextVars /\ triggers' \in 0..MaxTriggers /\ UNCHANGED timers
        BY <1>4, MaxTriggersAssumption DEF SelectValue, EnvStep, TypeOK
    <2>2. sel' = [sel EXCEPT ![v] = x] /\ Reload(Deps(v), [sel EXCEPT ![v] = x], 1)
        BY <1>4 DEF SelectValue, SetValue
    <2>3. IsABag(pending') /\ loading' \in [Vars -> BOOLEAN]
        <3>1. IsABag(pending) /\ loading \in [Vars -> BOOLEAN] /\ Deps(v) \in SUBSET Vars
            BY DEF TypeOK, Deps
        <3>2. QED
            BY <2>2, <3>1, ReloadType
    <2>4. \A u \in TextVars : sel'[u] \in TextSels
        BY <2>1, <2>2, VarsAssumption DEF TypeOK
    <2>5. QED
        BY <2>1, <2>3, <2>4 DEF TypeOK, RestOK
<1>5. ASSUME NEW v \in TextVars, NEW x \in TextSels, TextInput(v, x) PROVE RestOK
    <2>1. triggers' \in 0..MaxTriggers /\ UNCHANGED timers
        BY <1>5, MaxTriggersAssumption DEF TextInput, EnvStep, TypeOK
    <2>2. sel' = [sel EXCEPT ![v] = x] /\ Reload(Deps(v), [sel EXCEPT ![v] = x], 2)
        BY <1>5 DEF TextInput, SetValue
    <2>3. IsABag(pending') /\ loading' \in [Vars -> BOOLEAN]
        <3>1. IsABag(pending) /\ loading \in [Vars -> BOOLEAN] /\ Deps(v) \in SUBSET Vars
            BY DEF TypeOK, Deps
        <3>2. QED
            BY <2>2, <3>1, ReloadType
    <2>4. \A u \in TextVars : sel'[u] \in TextSels
        BY <2>1, <2>2, VarsAssumption DEF TypeOK
    <2>5. QED
        BY <2>1, <2>3, <2>4 DEF TypeOK, RestOK
<1>6. CASE TimeChange
    <2>1. triggers' \in 0..MaxTriggers /\ UNCHANGED <<sel, timers>>
        BY <1>6, MaxTriggersAssumption DEF TimeChange, EnvStep, TypeOK
    <2>2. IsABag(pending') /\ loading' \in [Vars -> BOOLEAN]
        <3>1. /\ IsABag(pending) /\ loading \in [Vars -> BOOLEAN]
              /\ {u \in Vars : Refresh[u] = "time"} \in SUBSET Vars
            BY DEF TypeOK
        <3>2. QED
            BY <1>6, <3>1, ReloadType DEF TimeChange
    <2>3. QED
        BY <2>1, <2>2 DEF TypeOK, RestOK
<1>7. ASSUME NEW w \in Vars, TimerFire(w) PROVE RestOK
    <2>1. timers' \in [Vars -> Nat] /\ UNCHANGED <<sel, triggers>>
        BY <1>7 DEF TimerFire, TypeOK
    <2>2. IsABag(pending') /\ loading' \in [Vars -> BOOLEAN]
        <3>1. IsABag(pending) /\ loading \in [Vars -> BOOLEAN] /\ {w} \in SUBSET Vars
            BY DEF TypeOK
        <3>2. QED
            BY <1>7, <3>1, ReloadType DEF TimerFire
    <2>3. QED
        BY <2>1, <2>2 DEF TypeOK, RestOK
<1>8. ASSUME NEW l \in DOMAIN pending, NEW o \in LoadOutcomes, LoadComplete(l, o)
      PROVE RestOK
    <2>1. l[1] \in Vars \ TextVars
        BY DEF TypeOK
    <2>2. /\ IsABag(pending') /\ loading' \in [Vars -> BOOLEAN]
          /\ UNCHANGED triggers
        BY <1>8, <2>1, RemoveType DEF LoadComplete, TypeOK
    <2>3. /\ \A u \in TextVars : sel'[u] = sel[u]
          /\ timers' \in [Vars -> Nat]
        <3>1. CASE o = "throw"
            BY <1>8, <3>1 DEF LoadComplete, TypeOK
        <3>2. CASE o # "throw"
            <4>1. \E r : ApplyResult(l[1], r)
                BY <1>8, <3>2 DEF LoadComplete
            <4>2. QED
                BY <2>1, <4>1, ApplyResultType
        <3>3. QED
            BY <3>1, <3>2
    <2>4. QED
        BY <2>2, <2>3 DEF TypeOK, RestOK
<1>9. CASE UNCHANGED vars
    BY <1>9 DEF vars, TypeOK, RestOK
<1>10. QED
    BY <1>3, <1>4, <1>5, <1>6, <1>7, <1>8, <1>9 DEF Next

(* The state of the loader keeps its types in every reachable state of     *)
(* every dashboard: the suspended loads of loadValues stay a bag of query   *)
(* variables' loads, a TextInput only ever holds a text, and the reload    *)
(* timeouts never count below zero.                                        *)
THEOREM LoaderTypeCorrect == Spec => []TypeOK
<1>1. Init => IInv /\ TypeOK
    BY InitIInv, VarsAssumption, MaxTriggersAssumption DEF Init, TypeOK, EmptyBag, SetToBag, IsABag
<1>2. IInv /\ TypeOK /\ [Next]_vars => IInv' /\ TypeOK'
    BY IInvStep, TypeStep
<1>3. QED
    BY <1>1, <1>2, PTL DEF Spec
=============================================================================
