------------------------- MODULE AlertLabels_proofs -------------------------
(***************************************************************************)
(* The label de-duplication loop of queryAlerts computes Dedup for every   *)
(* set of label names and values and every order of the rule's names.     *)
(* The loop invariant: the names already visited have been removed from   *)
(* the alert's labels exactly when they carry the rule's value.           *)
(***************************************************************************)
EXTENDS AlertLabels, FiniteSetTheorems, SequenceTheorems, TLAPS

(* The names whose label the alert shares with the rule.                   *)
Eq == {k \in DOMAIN input \cap DOMAIN ruleLabels : input[k] = ruleLabels[k]}

(* The names a suffix of ruleLabelKeys still lists, each once.             *)
Distinct(s) == \A i, j \in 1..Len(s) : s[i] = s[j] => i = j

LoopInv ==
    /\ pc = "strip" => labels = input
    /\ pc \in {"loop", "done"} =>
           /\ Distinct(keys)
           /\ labels = Without(input, {AlertName} \cup (Eq \ Listed(keys)))
    /\ pc = "done" => keys = << >>

IInv == TypeOK /\ LoopInv

(* A label set without some names is a label set.                          *)
LEMMA WithoutLabelSet ==
    ASSUME NEW f \in LabelSets, NEW S
    PROVE  Without(f, S) \in LabelSets
<1>1. PICK D \in SUBSET Keys : f \in [D -> Values]
    BY DEF LabelSets
<1>2. Without(f, S) \in [D \ S -> Values]
    BY <1>1 DEF Without
<1>3. QED
    BY <1>2 DEF LabelSets

(* The names of a label set form a finite set of Keys.                     *)
LEMMA DomainFinite ==
    ASSUME NEW f \in LabelSets
    PROVE  DOMAIN f \subseteq Keys /\ Cardinality(DOMAIN f) \in Nat
<1>1. PICK D \in SUBSET Keys : f \in [D -> Values]
    BY DEF LabelSets
<1>2. IsFiniteSet(DOMAIN f)
    BY <1>1, KeysAssumption, FS_Subset
<1>3. QED
    BY <1>1, <1>2, FS_CardinalityType

(* Removing names one at a time is removing them together.                 *)
LEMMA WithoutWithout ==
    ASSUME NEW f, NEW S, NEW T
    PROVE  Without(Without(f, S), T) = Without(f, S \cup T)
BY DEF Without

(* The tail of a list of distinct names lists the others, each once.       *)
LEMMA TailListed ==
    ASSUME NEW D, NEW s \in Seq(D), s # << >>, Distinct(s)
    PROVE  /\ Distinct(Tail(s))
           /\ Listed(Tail(s)) = Listed(s) \ {Head(s)}
<1>1. /\ Len(Tail(s)) = Len(s) - 1
      /\ \A i \in 1..Len(Tail(s)) : Tail(s)[i] = s[i + 1]
      /\ Len(s) \in Nat \ {0}
      /\ DOMAIN s = 1..Len(s)
    BY HeadTailProperties, EmptySeq, LenProperties
<1>2. DOMAIN Tail(s) = 1..Len(Tail(s))
    BY HeadTailProperties, LenProperties
<1>3. Distinct(Tail(s))
    BY <1>1 DEF Distinct
<1>4. Head(s) = s[1]
    BY HeadTailProperties, EmptySeq
<1>5. Listed(Tail(s)) \subseteq Listed(s) \ {Head(s)}
    <2> SUFFICES ASSUME NEW i \in 1..Len(Tail(s)) PROVE Tail(s)[i] \in Listed(s) \ {s[1]}
        BY <1>2, <1>4 DEF Listed
    <2>1. i + 1 \in 1..Len(s) /\ i + 1 # 1
        BY <1>1
    <2>2. s[i + 1] # s[1]
        BY <1>1, <2>1 DEF Distinct
    <2>3. QED
        BY <1>1, <2>1, <2>2 DEF Listed
<1>6. Listed(s) \ {Head(s)} \subseteq Listed(Tail(s))
    <2> SUFFICES ASSUME NEW i \in 1..Len(s), s[i] # s[1] PROVE s[i] \in Listed(Tail(s))
        BY <1>1, <1>4 DEF Listed
    <2>1. i # 1 /\ i - 1 \in 1..Len(Tail(s))
        BY <1>1
    <2>2. Tail(s)[i - 1] = s[i]
        BY <1>1, <2>1
    <2>3. QED
        BY <1>2, <2>1, <2>2 DEF Listed
<1>7. QED
    BY <1>3, <1>5, <1>6

(* Before the loop starts the labels are the alert's own.                 *)
LEMMA InitIInv == Init => IInv
BY DEF Init, IInv, TypeOK, LoopInv

(* Every step of queryAlerts' de-duplication keeps the loop invariant.     *)
LEMMA IInvStep == IInv /\ [Next]_vars => IInv'
<1> SUFFICES ASSUME IInv, [Next]_vars PROVE IInv'
    OBVIOUS
<1> USE DEF IInv, TypeOK
<1>1. CASE Strip
    <2>1. PICK s \in Orders(DOMAIN ruleLabels) : keys' = s
        BY <1>1 DEF Strip
    <2>2. /\ labels' = Without(labels, {AlertName}) /\ pc' = "loop"
          /\ UNCHANGED <<ruleLabels, input>> /\ labels = input
        BY <1>1 DEF Strip, LoopInv
    <2>3. Cardinality(DOMAIN ruleLabels) \in Nat
        BY DomainFinite
    <2>4. s \in Seq(DOMAIN ruleLabels) /\ Listed(s) = DOMAIN ruleLabels /\ Distinct(s)
        BY <2>3 DEF Orders, Distinct
    <2>5. Eq' \ Listed(keys') = {}
        BY <2>1, <2>2, <2>4 DEF Eq
    <2>6. labels' = Without(input', {AlertName} \cup (Eq' \ Listed(keys')))
        BY <2>2, <2>5
    <2>7. labels' \in LabelSets
        BY <2>2, WithoutLabelSet
    <2>8. QED
        BY <2>1, <2>2, <2>4, <2>6, <2>7 DEF LoopInv
<1>2. CASE VisitKey
    <2> DEFINE k == Head(keys)
               S == {AlertName} \cup (Eq \ Listed(keys))
    <2>1. /\ pc = "loop" /\ keys # << >> /\ keys' = Tail(keys)
          /\ labels' = IF k \in DOMAIN labels /\ labels[k] = ruleLabels[k]
                       THEN Without(labels, {k}) ELSE labels
          /\ UNCHANGED <<ruleLabels, input, pc>>
        BY <1>2 DEF VisitKey
    <2>2. labels = Without(input, S) /\ Distinct(keys)
        BY <2>1 DEF LoopInv
    <2>3. /\ Distinct(keys') /\ Listed(keys') = Listed(keys) \ {k}
          /\ keys' \in Seq(DOMAIN ruleLabels)
        BY <2>1, <2>2, TailListed, HeadTailProperties
    <2>4. k \in Listed(keys) /\ k \in DOMAIN ruleLabels
        BY <2>1, HeadTailProperties, LenProperties, EmptySeq DEF Listed
    <2>5. CASE k \in Eq /\ k # AlertName
        <3>1. k \in DOMAIN labels /\ labels[k] = ruleLabels[k]
            BY <2>2, <2>4, <2>5 DEF Without, Eq
        <3>2. labels' = Without(input, S \cup {k})
            BY <2>1, <2>2, <3>1, WithoutWithout
        <3>3. S \cup {k} = {AlertName} \cup (Eq' \ Listed(keys'))
            BY <2>1, <2>3, <2>5 DEF Eq
        <3>4. QED
            BY <2>1, <2>3, <3>2, <3>3, WithoutLabelSet DEF LoopInv
    <2>6. CASE ~(k \in Eq /\ k # AlertName)
        <3>1. ~(k \in DOMAIN labels /\ labels[k] = ruleLabels[k])
            BY <2>2, <2>4, <2>6 DEF Without, Eq
        <3>2. labels' = labels
            BY <2>1, <3>1
        <3>3. S = {AlertName} \cup (Eq' \ Listed(keys'))
            BY <2>1, <2>3, <2>6 DEF Eq
        <3>4. QED
            BY <2>1, <2>2, <2>3, <3>2, <3>3 DEF LoopInv
    <2>7. QED
        BY <2>5, <2>6
<1>3. CASE LoopEnd
    <2>1. /\ pc = "loop" /\ keys = << >> /\ pc' = "done"
          /\ UNCHANGED <<ruleLabels, input, labels, keys>>
        BY <1>3 DEF LoopEnd
    <2>2. TypeOK'
        BY <2>1
    <2>3. Eq' = Eq
        BY <2>1 DEF Eq
    <2>4. LoopInv'
        BY <2>1, <2>3 DEF LoopInv
    <2>5. QED
        BY <2>2, <2>4
<1>4. CASE UNCHANGED vars
    <2>1. UNCHANGED <<ruleLabels, input, labels, keys, pc>>
        BY <1>4 DEF vars
    <2>2. TypeOK'
        BY <2>1
    <2>3. Eq' = Eq
        BY <2>1 DEF Eq
    <2>4. LoopInv'
        BY <2>1, <2>3 DEF LoopInv
    <2>5. QED
        BY <2>2, <2>4
<1>5. QED
    BY <1>1, <1>2, <1>3, <1>4 DEF Next

(* The loop of queryAlerts keeps its types in every run: the labels shown  *)
(* are always a label set over the names, and ruleLabelKeys a list of the  *)
(* rule's names, whatever order Object.keys returns them in.              *)
LEMMA LabelsTypeCorrect == Spec => []TypeOK
<1>1. Init => IInv
    BY InitIInv
<1>2. IInv /\ [Next]_vars => IInv'
    BY IInvStep
<1>3. IInv => TypeOK
    BY DEF IInv
<1>4. QED
    BY <1>1, <1>2, <1>3, PTL DEF Spec

(* Once the loop has visited every name, the labels are Dedup of the input. *)
LEMMA DoneDedup ==
    ASSUME IInv, pc \in {"loop", "done"}, keys = << >>
    PROVE  labels = Abs!Dedup(ruleLabels, input)
<1>1. labels = Without(input, {AlertName} \cup (Eq \ Listed(keys)))
    BY DEF IInv, LoopInv
<1>2. Listed(keys) = {}
    BY DEF Listed
<1>3. QED
    BY <1>1, <1>2 DEF Abs!Dedup, Abs!Without, Without, Eq

(* Every step of the loop is a step of the one-step de-duplication or      *)
(* leaves what it specifies unchanged.                                      *)
LEMMA StepRefines == IInv /\ [Next]_vars => [Abs!Dedupe]_Abs!vars
<1> SUFFICES ASSUME IInv, [Next]_vars PROVE [Abs!Dedupe]_Abs!vars
    OBVIOUS
<1>1. CASE Strip
    BY <1>1 DEF Strip, Abs!vars
<1>2. CASE VisitKey
    BY <1>2 DEF VisitKey, Abs!vars
<1>3. CASE LoopEnd
    <2>1. /\ pc = "loop" /\ keys = << >> /\ pc' = "done"
          /\ UNCHANGED <<ruleLabels, input, labels, keys>>
        BY <1>3 DEF LoopEnd
    <2>2. labels = Abs!Dedup(ruleLabels, input)
        BY <2>1, DoneDedup
    <2>3. labels' = Abs!Dedup(ruleLabels, input)
        BY <2>1, <2>2
    <2>4. QED
        BY <2>1, <2>3 DEF Abs!Dedupe
<1>4. CASE UNCHANGED vars
    BY <1>4 DEF vars, Abs!vars
<1>5. QED
    BY <1>1, <1>2, <1>3, <1>4 DEF Next

(* The de-duplication loop of queryAlerts implements its specification:    *)
(* for every set of label names and values and whatever order Object.keys  *)
(* lists the rule's names in, the labels shown stay the alert's own until  *)
(* the loop over ruleLabelKeys ends, and are then exactly the alert's      *)
(* labels minus alertname and those equal to the rule's.                   *)
THEOREM DedupImplemented == Spec => DedupRefines
<1>1. Init => Abs!Init
    BY DEF Init, Abs!Init, Abs!LabelSets, LabelSets
<1>2. Spec => []IInv
    BY InitIInv, IInvStep, PTL DEF Spec
<1>3. QED
    BY <1>1, <1>2, StepRefines, PTL DEF Spec, DedupRefines, Abs!Spec
====
