------------------------------ MODULE OnceValues ------------------------------
(***************************************************************************)
(* The two values the service computes once and then keeps: the ledger     *)
(* index of the utxo manager (ReadLedgerIndex) and the sync state of the   *)
(* database (LatestSyncState), which reads the ledger index and the        *)
(* timestamp of its milestone.  Handlers of concurrent requests call them. *)
(*                                                                         *)
(* sync.Once runs a function for the first caller and lets the others wait *)
(* until it has returned, or panicked: either counts as done.  A panic of  *)
(* a handler ends its request only; a panic while the database is opened   *)
(* ends the process.  One life of the process is followed.                 *)
(***************************************************************************)
EXTENDS Integers

CONSTANTS
    Requests,       \* handlers that run at the same time
    LedgerIndexes   \* ledger indexes of databases with a confirmed milestone

ASSUME IndexAssumption == LedgerIndexes \subseteq Nat \ {0}

VARIABLES
    ledger,      \* ledger index in the utxo store
    milestones,  \* indexes whose milestone the tangle store holds
    phase,       \* "opening", "serving", "exited"
    index,       \* ledgerIndexOnce, ledgerIndex
    state,       \* syncStateOnce, syncState: a nil pointer is the empty set
    asks,        \* per request: for the "info" or for a "ledger" endpoint
    pc,          \* per request: where its handler is
    rebuilt,     \* history: the database was opened again after a rebuild
    failed,      \* history: a handler could not read the ledger index
    told,        \* history: ledger indexes answered
    toldInfo     \* history: node information answered

store == <<ledger, milestones>>
history == <<rebuilt, failed, told, toldInfo>>
vars == <<store, phase, index, state, asks, pc, history>>

Stages == {"fresh", "running", "done"}
SyncStates == [index : LedgerIndexes, timestampOf : LedgerIndexes]

TypeOK ==
    /\ ledger \in LedgerIndexes
    /\ milestones \subseteq LedgerIndexes
    /\ phase \in {"opening", "serving", "exited"}
    /\ index \in [stage : Stages, value : LedgerIndexes \cup {0}]
    /\ state \in [stage : Stages, value : SUBSET SyncStates]
    /\ asks \in [Requests -> {"info", "ledger"}]
    /\ pc \in [Requests -> {"idle", "callState", "callIndex", "loadIndex",
                            "loadTimestamp", "useState", "useIndex"}]
    /\ rebuilt \in BOOLEAN /\ failed \in BOOLEAN
    /\ told \subseteq LedgerIndexes \cup {0} /\ toldInfo \subseteq SyncStates

FreshIndex == [stage |-> "fresh", value |-> 0]
FreshState == [stage |-> "fresh", value |-> {}]

Init ==
    /\ ledger \in LedgerIndexes
    /\ milestones \in SUBSET LedgerIndexes
    /\ phase = "opening"
    /\ index = FreshIndex /\ state = FreshState
    /\ asks = [r \in Requests |-> "info"]
    /\ pc = [r \in Requests |-> "idle"]
    /\ rebuilt = FALSE /\ failed = FALSE /\ told = {} /\ toldInfo = {}

-----------------------------------------------------------------------------
(* Opening.  An up-to-date lookup table was compared with the index, so    *)
(* that the manager has it already; after a rebuild the database and its   *)
(* manager are new ones.                                                   *)

Opened(i, again) ==
    /\ phase = "opening" /\ phase' = "serving"
    /\ index' = i
    /\ rebuilt' = again
    /\ UNCHANGED <<store, state, asks, pc, failed, told, toldInfo>>

OpenUpToDate == Opened([stage |-> "done", value |-> ledger], FALSE)
OpenAfterRebuild == Opened(FreshIndex, TRUE)

(* Mutant: New recovers from the panic. *)
OpenGoesOn == Opened([stage |-> "done", value |-> 0], FALSE)

OpenPanics ==
    /\ phase = "opening" /\ phase' = "exited"
    /\ UNCHANGED <<store, index, state, asks, pc, history>>

-----------------------------------------------------------------------------
(* A handler.  Goto moves the request r; what was called once is decided   *)
(* when the call begins.                                                   *)

Goto(r, from, to) == pc[r] = from /\ pc' = [pc EXCEPT ![r] = to]

Arrive(r, endpoint) ==
    /\ phase = "serving"
    /\ Goto(r, "idle", IF endpoint = "info" THEN "callState" ELSE "callIndex")
    /\ asks' = [asks EXCEPT ![r] = endpoint]
    /\ UNCHANGED <<store, phase, index, state, history>>

(* LatestSyncState: the first caller goes on to read the ledger index, one *)
(* that comes while it runs waits, a later one uses what is there.         *)
CallState(r) ==
    /\ \/ /\ state.stage = "fresh"
          /\ Goto(r, "callState", "callIndex")
          /\ state' = [state EXCEPT !.stage = "running"]
       \/ /\ state.stage = "done"
          /\ Goto(r, "callState", "useState")
          /\ UNCHANGED state
    /\ UNCHANGED <<store, phase, index, asks, history>>

AfterIndex(r) == IF asks[r] = "info" THEN "loadTimestamp" ELSE "useIndex"

(* Mutant: who comes while the index is read takes what is there. *)
CallIndexNoWait(r) ==
    /\ \/ /\ index.stage = "fresh"
          /\ Goto(r, "callIndex", "loadIndex")
          /\ index' = [index EXCEPT !.stage = "running"]
       \/ /\ index.stage \in {"running", "done"}
          /\ Goto(r, "callIndex", AfterIndex(r))
          /\ UNCHANGED index
    /\ UNCHANGED <<store, phase, state, asks, history>>

(* ReadLedgerIndex, from LatestSyncState or from a handler itself. *)
CallIndex(r) ==
    /\ \/ /\ index.stage = "fresh"
          /\ Goto(r, "callIndex", "loadIndex")
          /\ index' = [index EXCEPT !.stage = "running"]
       \/ /\ index.stage = "done"
          /\ Goto(r, "callIndex", AfterIndex(r))
          /\ UNCHANGED index
    /\ UNCHANGED <<store, phase, state, asks, history>>

LoadIndex(r) ==
    /\ Goto(r, "loadIndex", AfterIndex(r))
    /\ index' = [stage |-> "done", value |-> ledger]
    /\ UNCHANGED <<store, phase, state, asks, history>>

(* The panic passes through every Once the handler is in. *)
StateAfterPanic(r) == IF asks[r] = "info" THEN [state EXCEPT !.stage = "done"] ELSE state

LoadIndexFailsTo(r, stage) ==
    /\ Goto(r, "loadIndex", "idle")
    /\ index' = [index EXCEPT !.stage = stage]
    /\ state' = StateAfterPanic(r)
    /\ failed' = TRUE
    /\ UNCHANGED <<store, phase, asks, rebuilt, told, toldInfo>>

(* Mutant: a panic leaves the lock with the caller. *)
LoadIndexFailsLocked(r) == LoadIndexFailsTo(r, "running")

LoadIndexFails(r) == LoadIndexFailsTo(r, "done")

(* Mutant: a milestone that is missing has the timestamp 0. *)
LoadTimestampUnchecked(r) ==
    /\ Goto(r, "loadTimestamp", "useState")
    /\ state' = [stage |-> "done", value |-> {[index |-> index.value,
          timestampOf |-> IF index.value \in milestones THEN index.value ELSE 0]}]
    /\ UNCHANGED <<store, phase, index, asks, history>>

LoadTimestamp(r) ==
    /\ index.value \in milestones
    /\ Goto(r, "loadTimestamp", "useState")
    /\ state' = [stage |-> "done",
                 value |-> {[index |-> index.value, timestampOf |-> index.value]}]
    /\ UNCHANGED <<store, phase, index, asks, history>>

(* The milestone is missing, or cannot be read. *)
LoadTimestampFails(r) ==
    /\ Goto(r, "loadTimestamp", "idle")
    /\ state' = StateAfterPanic(r)
    /\ UNCHANGED <<store, phase, index, asks, history>>

-----------------------------------------------------------------------------
(* Answers. *)

AnswerIndex(r) ==
    /\ Goto(r, "useIndex", "idle")
    /\ told' = told \cup {index.value}
    /\ UNCHANGED <<store, phase, index, state, asks, rebuilt, failed, toldInfo>>

(* Mutant: fields of a nil sync state are taken for zero. *)
AnswerInfoOfNil(r) ==
    /\ Goto(r, "useState", "idle")
    /\ toldInfo' = toldInfo \cup
         (IF state.value = {} THEN {[index |-> 0, timestampOf |-> 0]} ELSE state.value)
    /\ UNCHANGED <<store, phase, index, state, asks, rebuilt, failed, told>>

(* A nil sync state makes the handler panic: no node information then. *)
AnswerInfo(r) ==
    /\ Goto(r, "useState", "idle")
    /\ toldInfo' = toldInfo \cup state.value
    /\ UNCHANGED <<store, phase, index, state, asks, rebuilt, failed, told>>

Opening == OpenUpToDate \/ OpenAfterRebuild \/ OpenPanics

(* What a handler does once its request has arrived. *)
Handle(r) ==
    \/ CallState(r) \/ CallIndex(r)
    \/ LoadIndex(r) \/ LoadIndexFails(r)
    \/ LoadTimestamp(r) \/ LoadTimestampFails(r)
    \/ AnswerIndex(r) \/ AnswerInfo(r)

Next ==
    \/ Opening
    \/ \E r \in Requests :
         \/ Arrive(r, "info") \/ Arrive(r, "ledger")
         \/ Handle(r)

(* Handlers are goroutines: each of them runs on unless it waits. *)
Spec == Init /\ [][Next]_vars /\ \A r \in Requests : WF_vars(Handle(r))

-----------------------------------------------------------------------------
(* Properties.                                                             *)

(* One process answers with one ledger index, on all endpoints and at all  *)
(* times: balances, outputs and histories are never of different ledgers,  *)
(* nor is the node information (ReadLedgerIndex, LatestSyncState).         *)
AnswersAgree ==
    LET all == told \cup {x.index : x \in toldInfo}
    IN \A i, j \in all : i = j

(* The ledger index 0, which no ledger has, is answered only by a process  *)
(* that has rebuilt the lookup table and whose first handler could not     *)
(* read the index: an index compared with the table serves all requests.   *)
ZeroIndexOnlyAfterFailedLoad == 0 \in told => rebuilt /\ failed

(* Node information names the ledger index, with the timestamp of its own  *)
(* milestone, or is not answered at all, whatever failed before.           *)
InfoTruthful ==
    \A x \in toldInfo : x = [index |-> ledger, timestampOf |-> ledger] /\ ledger \in milestones

(* Every handler returns, although it may wait for another one that reads  *)
(* the value, and that one may panic, with one Once inside the other.      *)
EveryCallReturns == \A r \in Requests : pc[r] # "idle" ~> pc[r] = "idle"

(* The ledger index of an answer is the one it was queried at, as the      *)
(* documentation of the answers says.  Violated: see the run once_index.   *)
AnsweredIndexIsCurrent == told \subseteq {ledger}

-----------------------------------------------------------------------------
(* The inductive invariant. *)

Reads(r) == pc[r] = "loadIndex"

(* One handler reads the index, at most; it is used when it is there.  An  *)
(* index that is there is the ledger index, or the 0 of a failed read,     *)
(* and then it was not read while the database was opened.                 *)
IndexInv ==
    /\ \A r \in Requests : Reads(r) => index.stage = "running"
    /\ \A r, q \in Requests : Reads(r) /\ Reads(q) => r = q
    /\ \A r \in Requests : pc[r] \in {"loadTimestamp", "useIndex"} => index.stage = "done"
    /\ \A r \in Requests : pc[r] # "idle" => phase = "serving"
    /\ index.stage = "done" => index.value = ledger \/ (index.value = 0 /\ rebuilt /\ failed)
    /\ index.stage # "done" => index.value = 0 /\ told = {}
    /\ phase = "serving" /\ index.stage # "done" => rebuilt
    /\ phase = "opening" => index.stage = "fresh"
    /\ told \subseteq {index.value}

Truth == [index |-> ledger, timestampOf |-> ledger]
Truthful(S) ==
    /\ S \subseteq {Truth}
    /\ S # {} => ledger \in milestones /\ index.stage = "done" /\ index.value = ledger
StateInv == Truthful(state.value) /\ Truthful(toldInfo)

Inv == TypeOK /\ IndexInv /\ StateInv
=============================================================================
