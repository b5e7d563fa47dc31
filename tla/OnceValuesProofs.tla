-------------------------- MODULE OnceValuesProofs --------------------------
(***************************************************************************)
(* Proofs about the values computed once, for any number of handlers that  *)
(* run at the same time and every ledger index.                            *)
(***************************************************************************)
EXTENDS OnceValues, TLAPS

LEMMA InitInv == Init => Inv
<1> SUFFICES ASSUME Init PROVE Inv
  OBVIOUS
<1>1. TypeOK
  BY DEF Init, TypeOK, FreshIndex, FreshState, Stages
<1>2. IndexInv
  BY DEF Init, IndexInv, Reads, FreshIndex
<1>3. StateInv
  BY DEF Init, StateInv, Truthful, FreshState
<1> QED
  BY <1>1, <1>2, <1>3 DEF Inv

LEMMA OpeningInv == Inv /\ Opening => Inv'
<1> SUFFICES ASSUME Inv, Opening PROVE Inv'
  OBVIOUS
<1>1. UNCHANGED <<ledger, milestones, state, asks, pc, failed, told, toldInfo>>
  BY DEF Opening, OpenUpToDate, OpenAfterRebuild, Opened, OpenPanics, store, history
<1>2. phase = "opening" /\ phase' \in {"serving", "exited"} /\ rebuilt' \in BOOLEAN
  BY DEF Opening, OpenUpToDate, OpenAfterRebuild, Opened, OpenPanics, history, Inv, TypeOK
<1>3. \/ index' = [stage |-> "done", value |-> ledger]
      \/ index' = FreshIndex /\ rebuilt'
      \/ index' = index /\ phase' = "exited"
  BY DEF Opening, OpenUpToDate, OpenAfterRebuild, Opened, OpenPanics
<1>4. \A r \in Requests : pc[r] = "idle"
  BY <1>2 DEF Inv, IndexInv
<1>5. index.stage = "fresh" /\ index.value = 0 /\ told = {}
  BY <1>2 DEF Inv, IndexInv
<1>6. TypeOK'
  BY <1>1, <1>2, <1>3 DEF Inv, TypeOK, FreshIndex, Stages
<1>7. IndexInv'
  BY <1>1, <1>2, <1>3, <1>4, <1>5 DEF IndexInv, Reads, FreshIndex
<1>8. StateInv'
  BY <1>1, <1>5 DEF Inv, StateInv, Truthful, Truth
<1> QED
  BY <1>6, <1>7, <1>8 DEF Inv

(* Steps of a handler that leave the index as it is. *)
LEMMA IndexUntouched ==
    ASSUME Inv, UNCHANGED <<ledger, milestones, phase, index, rebuilt, failed>>,
           TypeOK', StateInv',
           NEW r \in Requests, NEW to, pc' = [pc EXCEPT ![r] = to],
           to # "loadIndex", phase = "serving",
           to \in {"loadTimestamp", "useIndex"} => index.stage = "done",
           told' \subseteq told \cup {index.value},
           told' # told => index.stage = "done"
    PROVE  Inv'
<1>1. \A q \in Requests : pc'[q] = IF q = r THEN to ELSE pc[q]
  BY DEF Inv, TypeOK
<1>2. IndexInv'
  BY <1>1 DEF Inv, IndexInv, Reads
<1> QED
  BY <1>2 DEF Inv

LEMMA ArriveInv ==
    ASSUME Inv, NEW r \in Requests, NEW e \in {"info", "ledger"}, Arrive(r, e)
    PROVE  Inv'
<1>1. UNCHANGED <<ledger, milestones, phase, index, state, rebuilt, failed, told, toldInfo>>
  BY DEF Arrive, store, history
<1> DEFINE to == IF e = "info" THEN "callState" ELSE "callIndex"
<1>2. pc' = [pc EXCEPT ![r] = to] /\ asks' = [asks EXCEPT ![r] = e] /\ phase = "serving"
  BY DEF Arrive, Goto
<1>3. TypeOK'
  BY <1>1, <1>2 DEF Inv, TypeOK
<1>4. StateInv'
  BY <1>1 DEF Inv, StateInv, Truthful, Truth
<1> QED
  BY <1>1, <1>2, <1>3, <1>4, IndexUntouched

LEMMA CallStateInv == ASSUME Inv, NEW r \in Requests, CallState(r) PROVE Inv'
<1>1. UNCHANGED <<ledger, milestones, phase, index, asks, rebuilt, failed, told, toldInfo>>
      /\ pc[r] = "callState" /\ state'.value = state.value
  BY DEF CallState, Goto, store, history, Inv, TypeOK
<1>2. PICK to \in {"callIndex", "useState"} : pc' = [pc EXCEPT ![r] = to]
  BY DEF CallState, Goto
<1>3. TypeOK'
  BY <1>1, <1>2 DEF CallState, Inv, TypeOK, Stages
<1>4. StateInv'
  BY <1>1 DEF Inv, StateInv, Truthful, Truth
<1>5. phase = "serving"
  BY <1>1 DEF Inv, IndexInv
<1> QED
  BY <1>1, <1>2, <1>3, <1>4, <1>5, IndexUntouched

LEMMA CallIndexInv == ASSUME Inv, NEW r \in Requests, CallIndex(r) PROVE Inv'
<1>1. UNCHANGED <<ledger, milestones, phase, state, asks, rebuilt, failed, told, toldInfo>>
      /\ pc[r] = "callIndex"
  BY DEF CallIndex, Goto, store, history
<1>2. phase = "serving"
  BY <1>1 DEF Inv, IndexInv
<1>3. CASE index.stage = "done"
  <2>1. index' = index /\ pc' = [pc EXCEPT ![r] = AfterIndex(r)]
        /\ AfterIndex(r) \in {"loadTimestamp", "useIndex"}
    BY <1>3 DEF CallIndex, Goto, AfterIndex
  <2>2. TypeOK'
    BY <1>1, <2>1 DEF Inv, TypeOK
  <2>3. StateInv'
    BY <1>1, <2>1 DEF Inv, StateInv, Truthful, Truth
  <2> QED
    BY <1>1, <1>2, <1>3, <2>1, <2>2, <2>3, IndexUntouched
<1>4. CASE index.stage # "done"
  <2>1. index.stage = "fresh" /\ pc' = [pc EXCEPT ![r] = "loadIndex"]
        /\ index'.stage = "running" /\ index'.value = index.value
    BY <1>4 DEF CallIndex, Goto, Inv, TypeOK
  <2>2. TypeOK'
    BY <1>1, <1>4 DEF CallIndex, Goto, Inv, TypeOK, Stages
  <2>3. \A q \in Requests : pc'[q] = IF q = r THEN "loadIndex" ELSE pc[q]
    BY <2>1 DEF Inv, TypeOK
  <2>4. IndexInv'
    BY <1>1, <1>2, <2>1, <2>3 DEF Inv, IndexInv, Reads
  <2>5. StateInv'
    BY <1>1, <2>1 DEF Inv, StateInv, Truthful, Truth
  <2> QED
    BY <2>2, <2>4, <2>5 DEF Inv
<1> QED
  BY <1>3, <1>4

LEMMA LoadIndexInv ==
    ASSUME Inv, NEW r \in Requests, LoadIndex(r) \/ LoadIndexFails(r) PROVE Inv'
<1>1. UNCHANGED <<ledger, milestones, phase, asks, rebuilt, told, toldInfo>>
      /\ pc[r] = "loadIndex" /\ index'.stage = "done"
      /\ state'.value = state.value
  BY DEF LoadIndex, LoadIndexFails, LoadIndexFailsTo, StateAfterPanic, Goto, store, history,
     Inv, TypeOK
<1>2. /\ index.stage = "running" /\ index.value = 0 /\ told = {}
      /\ phase = "serving" /\ rebuilt
      /\ \A q \in Requests : pc[q] = "loadIndex" => q = r
  BY <1>1 DEF Inv, IndexInv, Reads
<1>3. \/ index' = [stage |-> "done", value |-> ledger] /\ failed' = failed
      \/ index' = [index EXCEPT !.stage = "done"] /\ failed' = TRUE
  BY DEF LoadIndex, LoadIndexFails, LoadIndexFailsTo, history
<1>4. PICK to \in {"loadTimestamp", "useIndex", "idle"} : pc' = [pc EXCEPT ![r] = to]
  BY DEF LoadIndex, LoadIndexFails, LoadIndexFailsTo, AfterIndex, Goto
<1>5. \A q \in Requests : pc'[q] = IF q = r THEN to ELSE pc[q]
  BY <1>4 DEF Inv, TypeOK
<1>6. TypeOK'
  <2>1. index' \in [stage : Stages, value : LedgerIndexes \cup {0}]
    BY <1>3 DEF Inv, TypeOK, Stages
  <2>2. failed' \in BOOLEAN
    BY <1>3, Zenon DEF Inv, TypeOK
  <2>3. state' \in [stage : Stages, value : SUBSET SyncStates]
    BY DEF LoadIndex, LoadIndexFails, LoadIndexFailsTo, StateAfterPanic, Inv, TypeOK, Stages
  <2> QED
    BY <1>1, <1>4, <2>1, <2>2, <2>3 DEF Inv, TypeOK
<1>7. IndexInv'
  <2>1. index'.value = ledger \/ (index'.value = 0 /\ failed')
    BY <1>2, <1>3 DEF Inv, TypeOK
  <2> QED
    BY <1>1, <1>2, <1>5, <2>1 DEF Inv, IndexInv, Reads
<1>8. state.value = {} /\ toldInfo = {}
  BY <1>2 DEF Inv, StateInv, Truthful
<1>9. StateInv'
  BY <1>1, <1>8 DEF StateInv, Truthful
<1> QED
  BY <1>6, <1>7, <1>9 DEF Inv

LEMMA LoadTimestampInv ==
    ASSUME Inv, NEW r \in Requests, LoadTimestamp(r) \/ LoadTimestampFails(r) PROVE Inv'
<1>1. UNCHANGED <<ledger, milestones, phase, index, asks, rebuilt, failed, told, toldInfo>>
      /\ pc[r] = "loadTimestamp"
  BY DEF LoadTimestamp, LoadTimestampFails, Goto, store, history
<1>2. phase = "serving" /\ index.stage = "done"
  BY <1>1 DEF Inv, IndexInv
<1>3. PICK to \in {"useState", "idle"} : pc' = [pc EXCEPT ![r] = to]
  BY DEF LoadTimestamp, LoadTimestampFails, Goto
<1>4. \/ state'.value = state.value /\ state'.stage \in Stages
      \/ /\ state' = [stage |-> "done", value |-> {Truth}]
         /\ index.value = ledger /\ ledger \in milestones
  <2>1. CASE LoadTimestampFails(r)
    BY <2>1 DEF LoadTimestampFails, StateAfterPanic, Inv, TypeOK, Stages
  <2>2. CASE LoadTimestamp(r)
    <3>1. index.value \in milestones /\ 0 \notin milestones
      BY <2>2, IndexAssumption DEF LoadTimestamp, Inv, TypeOK
    <3>2. index.value = ledger
      BY <1>2, <3>1 DEF Inv, IndexInv
    <3> QED
      BY <2>2, <3>1, <3>2 DEF LoadTimestamp, Truth
  <2> QED
    BY <2>1, <2>2
<1>5. Truth \in SyncStates
  BY DEF Inv, TypeOK, Truth, SyncStates
<1>6. state' \in [stage : Stages, value : SUBSET SyncStates]
  BY <1>4, <1>5 DEF LoadTimestamp, LoadTimestampFails, StateAfterPanic, Inv, TypeOK, Stages
<1>7. TypeOK'
  BY <1>1, <1>3, <1>6 DEF Inv, TypeOK
<1>8. StateInv'
  BY <1>1, <1>2, <1>4 DEF Inv, StateInv, Truthful, Truth
<1> QED
  BY <1>1, <1>2, <1>3, <1>7, <1>8, IndexUntouched

LEMMA AnswerInv ==
    ASSUME Inv, NEW r \in Requests, AnswerIndex(r) \/ AnswerInfo(r) PROVE Inv'
<1>1. UNCHANGED <<ledger, milestones, phase, index, state, asks, rebuilt, failed>>
      /\ pc' = [pc EXCEPT ![r] = "idle"] /\ pc[r] \in {"useIndex", "useState"}
  BY DEF AnswerIndex, AnswerInfo, Goto, store
<1>2. phase = "serving"
  BY <1>1 DEF Inv, IndexInv
<1>3. /\ told' \subseteq told \cup {index.value}
      /\ told' # told => index.stage = "done"
      /\ toldInfo' \in {toldInfo, toldInfo \cup state.value}
  BY DEF AnswerIndex, AnswerInfo, Goto, Inv, IndexInv
<1>4. TypeOK'
  BY <1>1, <1>3 DEF Inv, TypeOK
<1>5. StateInv'
  BY <1>1, <1>3 DEF Inv, StateInv, Truthful, Truth
<1> QED
  BY <1>1, <1>2, <1>3, <1>4, <1>5, IndexUntouched

LEMMA StepInv == Inv /\ [Next]_vars => Inv'
<1> SUFFICES ASSUME Inv, [Next]_vars PROVE Inv'
  OBVIOUS
<1>1. CASE Opening
  BY <1>1, OpeningInv
<1>2. ASSUME NEW r \in Requests, Arrive(r, "info") \/ Arrive(r, "ledger") PROVE Inv'
  BY <1>2, ArriveInv
<1>3. ASSUME NEW r \in Requests, Handle(r) PROVE Inv'
  BY <1>3, CallStateInv, CallIndexInv, LoadIndexInv, LoadTimestampInv, AnswerInv DEF Handle
<1>4. CASE UNCHANGED vars
  BY <1>4
  DEF vars, store, history, Inv, TypeOK, IndexInv, Reads, StateInv, Truthful, Truth
<1> QED
  BY <1>1, <1>2, <1>3, <1>4 DEF Next

(* The inductive invariant: one handler reads the index at most, an index  *)
(* that is there never changes, and a sync state that is there is true.    *)
THEOREM Invariance == Spec => []Inv
  BY InitInv, StepInv, PTL DEF Spec

(* Values, pointers and the places of the handlers keep their types; above *)
(* all no node information is made from a nil sync state.                  *)
THEOREM TypeCorrect == Spec => []TypeOK
<1>1. Inv => TypeOK
  BY DEF Inv
<1> QED
  BY <1>1, Invariance, PTL

(* Whatever fails and however the handlers wait for each other, one        *)
(* process answers with one ledger index.                                  *)
THEOREM OneIndex == Spec => []AnswersAgree
<1>1. ASSUME Inv PROVE AnswersAgree
  <2>1. told \subseteq {index.value}
    BY <1>1 DEF Inv, IndexInv
  <2>2. \A x \in toldInfo : x.index = index.value
    BY <1>1 DEF Inv, StateInv, Truthful, Truth
  <2> QED
    BY <2>1, <2>2 DEF AnswersAgree
<1>2. Inv => AnswersAgree
  BY <1>1
<1> QED
  BY <1>2, Invariance, PTL

(* A process that compared the index while it opened the database never    *)
(* answers with 0, nor does one whose first read succeeded.                *)
THEOREM ZeroOnlyAfterFailure == Spec => []ZeroIndexOnlyAfterFailedLoad
<1>1. ASSUME Inv, 0 \in told PROVE rebuilt /\ failed
  <2>1. index.value = 0 /\ index.stage = "done"
    BY <1>1 DEF Inv, IndexInv
  <2>2. ledger # 0
    BY <1>1, IndexAssumption DEF Inv, TypeOK
  <2> QED
    BY <1>1, <2>1, <2>2 DEF Inv, IndexInv
<1>2. Inv => ZeroIndexOnlyAfterFailedLoad
  BY <1>1 DEF ZeroIndexOnlyAfterFailedLoad
<1> QED
  BY <1>2, Invariance, PTL

(* Node information is that of the ledger index or not answered at all.    *)
THEOREM InfoIsTrue == Spec => []InfoTruthful
<1>1. Inv => InfoTruthful
  BY DEF Inv, StateInv, Truthful, Truth, InfoTruthful
<1> QED
  BY <1>1, Invariance, PTL
=============================================================================
