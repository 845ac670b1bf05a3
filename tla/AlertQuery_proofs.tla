-------------------------- MODULE AlertQuery_proofs --------------------------
(***************************************************************************)
(* Proofs about the alert-panel query, for every value of the constants    *)
(* that satisfies the module's assumptions.                                *)
(***************************************************************************)
EXTENDS AlertQuery, TLAPS

(* The error bookkeeping of queryData: the error shown is the            *)
(* result.error of the last run to finish, and a run's result.error is     *)
(* only set when one of its datasources answered with an error.            *)
ErrInv ==
    /\ last \in Run => queryError = last.err /\ (last.err => last.failed)
    /\ \A r \in runs : r.err => r.failed

IInv == TypeOK /\ ErrInv

LEMMA InitIInv == Init => IInv
<1> SUFFICES ASSUME Init PROVE IInv
    OBVIOUS
<1>1. TypeOK
    <2>1. dsState \in DsStates /\ timer \in BOOLEAN /\ queryError \in BOOLEAN
          /\ loading \in BOOLEAN
        BY Zenon DEF Init, DsStates
    <2>2. armSeen \in Seq(Answers) \cup {None} /\ panelData \in Seq(Answers) \cup {None}
          /\ last \in Run \cup {None} /\ newest \in Nat \cup {None}
        BY DEF Init
    <2>3. triggers \in 0..MaxTriggers /\ runs \subseteq Run /\ nextRun \in Nat
        BY MaxTriggersAssumption DEF Init
    <2>4. QED
        BY <2>1, <2>2, <2>3 DEF TypeOK
<1>2. ErrInv
    BY NoneAssumption DEF Init, ErrInv
<1>3. QED
    BY <1>1, <1>2 DEF IInv

(* TypeOK in two halves: the flags, which Zenon handles, and the data,     *)
(* which SMT handles.                                                      *)
FlagsOK ==
    /\ dsState \in DsStates /\ timer \in BOOLEAN
    /\ queryError \in BOOLEAN /\ loading \in BOOLEAN

DataOK ==
    /\ armSeen \in Seq(Answers) \cup {None}
    /\ triggers \in 0..MaxTriggers
    /\ runs \subseteq Run
    /\ nextRun \in Nat
    /\ panelData \in Seq(Answers) \cup {None}
    /\ last \in Run \cup {None}
    /\ newest \in Nat \cup {None}

LEMMA TypeOKSplit == TypeOK <=> FlagsOK /\ DataOK
    BY Zenon DEF TypeOK, FlagsOK, DataOK

(* queryAlerts reaching a loop position keeps the invariant, whichever of  *)
(* its three outcomes (finish, throw, suspend) it has.                     *)
LEMMA ReachStep ==
    ASSUME IInv, NEW r \in Run, r.err => r.failed,
           NEW R \in SUBSET runs, NEW ld \in BOOLEAN,
           Reach(r, R, ld),
           UNCHANGED <<dsState, armSeen, triggers>>, timer' \in BOOLEAN,
           nextRun' \in Nat, newest' \in Nat \cup {None}
    PROVE  IInv'
<1>0. FlagsOK /\ DataOK /\ ErrInv
    BY TypeOKSplit DEF IInv
<1>1a. r.pos \in Nat /\ r.seen \in Seq(Answers) \cup {None} /\ r.data \in Seq(Answers)
    BY DEF Run
<1>1b. r.err \in BOOLEAN
    BY Zenon DEF Run
<1>1. CASE r.pos > Len(DsIds)
    <2>0. Finish(r) /\ runs' = R
        BY <1>1, Zenon DEF Reach
    <2>1. /\ queryError' = r.err /\ loading' = FALSE /\ last' = r /\ runs' = R
          /\ panelData' = IF r.seen # r.data THEN r.data ELSE panelData
        BY <2>0, Zenon DEF Finish
    <2>2. FlagsOK'
        BY <1>0, <1>1b, <2>1, Zenon DEF FlagsOK
    <2>3. DataOK'
        BY <1>0, <1>1a, <2>1 DEF DataOK
    <2>4. ErrInv'
        BY <1>0, <2>1, Zenon DEF ErrInv
    <2>5. QED
        BY <2>2, <2>3, <2>4, Zenon DEF IInv, TypeOK, FlagsOK, DataOK
<1>2. CASE ~(r.pos > Len(DsIds))
    <2>1. /\ runs' = IF DsIds[r.pos] \in Known THEN R \cup {r} ELSE R
          /\ loading' = ld /\ UNCHANGED <<panelData, queryError, last>>
        BY <1>2, Zenon DEF Reach
    <2>2. runs' \subseteq runs \cup {r}
        BY <2>1
    <2>3. FlagsOK'
        BY <1>0, <2>1, Zenon DEF FlagsOK
    <2>4. DataOK'
        BY <1>0, <2>1, <2>2 DEF DataOK
    <2>5. ErrInv'
        BY <1>0, <2>1, <2>2, Zenon DEF ErrInv
    <2>6. QED
        BY <2>3, <2>4, <2>5, Zenon DEF IInv, TypeOK, FlagsOK, DataOK
<1>4. QED
    BY <1>1, <1>2

LEMMA IInvStep == IInv /\ [Next]_vars => IInv'
<1> SUFFICES ASSUME IInv, [Next]_vars PROVE IInv'
    OBVIOUS
<1>0. FlagsOK /\ DataOK /\ ErrInv
    BY TypeOKSplit DEF IInv
<1>0a. DataOK
    BY <1>0
<1>1. ASSUME NEW s \in DsStates, Rearm(s) PROVE IInv'
    <2>1. /\ dsState' = s /\ timer' = TRUE
          /\ UNCHANGED <<queryError, loading, runs, last>>
        BY <1>1, Zenon DEF Rearm
    <2>2. FlagsOK'
        BY <1>0, <2>1, Zenon DEF FlagsOK
    <2>3. DataOK'
        <3>1. /\ armSeen' = panelData /\ triggers' = triggers + 1
              /\ triggers < MaxTriggers
              /\ UNCHANGED <<runs, nextRun, panelData, last, newest>>
            BY <1>1, Zenon DEF Rearm
        <3>2. triggers' \in 0..MaxTriggers
            BY <1>0a, <3>1, MaxTriggersAssumption DEF DataOK
        <3>3. armSeen' \in Seq(Answers) \cup {None}
            BY <1>0, <3>1 DEF DataOK
        <3>4. QED
            BY <1>0, <3>1, <3>2, <3>3 DEF DataOK
    <2>4. ErrInv'
        BY <1>0, <2>1, Zenon DEF ErrInv
    <2>5. QED
        BY <2>2, <2>3, <2>4, Zenon DEF IInv, TypeOK, FlagsOK, DataOK
<1>2. CASE TimerFire
    <2>0. timer' = FALSE /\ UNCHANGED <<dsState, armSeen, triggers>>
        BY <1>2, Zenon DEF TimerFire
    <2>1. CASE dsState = "missing"
        <3>1. /\ panelData' = << >> /\ last' = None /\ newest' = None
              /\ UNCHANGED <<runs, nextRun, queryError, loading>>
            BY <1>2, <2>1, Zenon DEF TimerFire
        <3>2. FlagsOK'
            BY <1>0, <2>0, <3>1, Zenon DEF FlagsOK
        <3>3. DataOK'
            BY <1>0, <2>0, <3>1 DEF DataOK
        <3>4. ErrInv'
            BY <1>0, <3>1, NoneAssumption, Zenon DEF ErrInv
        <3>5. QED
            BY <3>2, <3>3, <3>4, Zenon DEF IInv, TypeOK, FlagsOK, DataOK
    <2>2. CASE dsState = "noplugin"
        <3>1. /\ panelData' = << >> /\ last' = None /\ queryError' = TRUE
              /\ newest' = None
              /\ UNCHANGED <<runs, nextRun, loading>>
            BY <1>2, <2>2, Zenon DEF TimerFire
        <3>2. FlagsOK'
            BY <1>0, <2>0, <3>1, Zenon DEF FlagsOK
        <3>3. DataOK'
            BY <1>0, <2>0, <3>1 DEF DataOK
        <3>4. ErrInv'
            BY <1>0, <3>1, NoneAssumption, Zenon DEF ErrInv
        <3>5. QED
            BY <3>2, <3>3, <3>4, Zenon DEF IInv, TypeOK, FlagsOK, DataOK
    <2>3. CASE dsState = "ok"
        <3> DEFINE r0 == [id |-> nextRun, pos |-> 1, seen |-> armSeen,
                          err |-> FALSE, data |-> << >>, failed |-> FALSE]
        <3>1. nextRun' = nextRun + 1 /\ newest' = nextRun /\ Reach(r0, runs, TRUE)
            BY <1>2, <2>3, Zenon DEF TimerFire
        <3>2. r0 \in Run
            BY <1>0 DEF DataOK, Run
        <3>3. nextRun' \in Nat /\ newest' \in Nat \cup {None}
            BY <1>0, <3>1 DEF DataOK
        <3>4. timer' \in BOOLEAN /\ TRUE \in BOOLEAN /\ runs \in SUBSET runs
            BY <2>0, Zenon
        <3>5. r0.err => r0.failed
            BY Zenon
        <3>6. QED
            BY <2>0, <3>1, <3>2, <3>3, <3>4, <3>5, ReachStep, Zenon
    <2>4. QED
        BY <1>0, <2>1, <2>2, <2>3 DEF FlagsOK, DsStates
<1>3. ASSUME NEW r \in runs, NEW o \in Outcomes, NEW d \in Answers,
             Answer(r, o, d)
      PROVE  IInv'
    <2>1. r \in Run
        BY <1>0a DEF DataOK
    <2>1a. r.err => r.failed
        BY <1>0, Zenon DEF ErrInv
    <2>2. UNCHANGED <<dsState, timer, armSeen, triggers, nextRun, newest>>
        BY <1>3, Zenon DEF Answer
    <2>3. CASE o = "reject"
        <3>1. runs' = runs \ {r} /\ UNCHANGED <<panelData, queryError, loading, last>>
            BY <1>3, <2>3, Zenon DEF Answer
        <3>2. FlagsOK'
            BY <1>0, <2>2, <3>1, Zenon DEF FlagsOK
        <3>3. DataOK'
            BY <1>0, <2>2, <3>1 DEF DataOK
        <3>4. ErrInv'
            BY <1>0, <3>1, Zenon DEF ErrInv
        <3>5. QED
            BY <3>2, <3>3, <3>4, Zenon DEF IInv, TypeOK, FlagsOK, DataOK
    <2>4. CASE o = "error"
        <3> DEFINE r1 == [r EXCEPT !.pos = @ + 1, !.err = TRUE, !.failed = TRUE]
        <3>1. Reach(r1, runs \ {r}, loading)
            BY <1>3, <2>4, Zenon DEF Answer
        <3>2. r1 \in Run
            <4>0. r.pos + 1 \in Nat
                BY <2>1 DEF Run
            <4>1. [r EXCEPT !.pos = @ + 1] \in Run
                BY <2>1, <4>0, Zenon DEF Run
            <4>2. [[r EXCEPT !.pos = @ + 1] EXCEPT !.err = TRUE] \in Run
                BY <4>1, Zenon DEF Run
            <4>3. QED
                BY <4>2, Zenon DEF Run
        <3>3. r1.err => r1.failed
            BY <2>1, <2>1a, Zenon DEF Run
        <3>4. /\ timer' \in BOOLEAN /\ nextRun' \in Nat /\ loading \in BOOLEAN
              /\ newest' \in Nat \cup {None}
            BY <1>0, <2>2, Zenon DEF FlagsOK, DataOK
        <3>5. runs \ {r} \in SUBSET runs
            OBVIOUS
        <3>6. QED
            BY <2>2, <3>1, <3>2, <3>3, <3>4, <3>5, ReachStep, Zenon
    <2>5. CASE o = "ok"
        <3> DEFINE r1 == [r EXCEPT !.pos = @ + 1, !.err = FALSE,
                                   !.data = Append(@, d)]
        <3>1. Reach(r1, runs \ {r}, loading)
            BY <1>3, <2>5, Zenon DEF Answer
        <3>2. r1 \in Run
            <4>0. r.pos + 1 \in Nat
                BY <2>1 DEF Run
            <4>1. [r EXCEPT !.pos = @ + 1] \in Run
                BY <2>1, <4>0, Zenon DEF Run
            <4>2. [[r EXCEPT !.pos = @ + 1] EXCEPT !.err = FALSE] \in Run
                BY <4>1, Zenon DEF Run
            <4>3. Append(r.data, d) \in Seq(Answers)
                BY <2>1 DEF Run
            <4>4. QED
                BY <4>2, <4>3, Zenon DEF Run
        <3>3. r1.err => r1.failed
            BY <2>1, <2>1a, Zenon DEF Run
        <3>4. /\ timer' \in BOOLEAN /\ nextRun' \in Nat /\ loading \in BOOLEAN
              /\ newest' \in Nat \cup {None}
            BY <1>0, <2>2, Zenon DEF FlagsOK, DataOK
        <3>5. runs \ {r} \in SUBSET runs
            OBVIOUS
        <3>6. QED
            BY <2>2, <3>1, <3>2, <3>3, <3>4, <3>5, ReachStep, Zenon
    <2>6. QED
        BY <2>3, <2>4, <2>5, OutcomesAssumption
<1>4. CASE UNCHANGED vars
    BY <1>4 DEF vars, IInv, TypeOK, ErrInv
<1>5. QED
    BY <1>1, <1>2, <1>3, <1>4 DEF Next

(* Type correctness of the alert-panel query: the suspended runs are       *)
(* well-formed records and the bound on the environment's changes holds.   *)
THEOREM AlertTypeCorrect == Spec => []TypeOK
<1>1. IInv => TypeOK
    BY DEF IInv
<1>2. QED
    BY <1>1, InitIInv, IInvStep, PTL DEF Spec

====
