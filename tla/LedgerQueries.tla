--------------------------- MODULE LedgerQueries ---------------------------
(***************************************************************************)
(* What the endpoints answer from the tables: the history of an address    *)
(* (which messages it lists and what they did to the balance), outputs,    *)
(* balances, milestone changes, the treasury, the message of a             *)
(* transaction.  Each query joins several tables that the legacy node has  *)
(* filled and pruned on its own; a row that is missing is either skipped,  *)
(* or makes the answer "not found", or makes it an error.                  *)
(*                                                                         *)
(* The stores do not change while the service runs, so a query is an       *)
(* operator on a state in which the databases are at rest.                 *)
(***************************************************************************)
EXTENDS LegacyLedger

NoMessageID == <<"nil">>   \* what a message ID is when there is none

ASSUME NilAssumption ==
    /\ NoMessageID \notin TxMessages \cup {NoMessage}
    /\ \A i \in 1..MaxIndex : NoMessageID # MilestoneMessage(i)

AtRest == ~writing

-----------------------------------------------------------------------------
(* utxo.Manager *)

Found(o) == o \in DOMAIN outputs   \* ReadOutputByOutputID
UnspentOutputs(a) == {o \in unspent : outputs[o].address = a}
SpentOutputs(a) == {o \in DOMAIN spents : outputs[o].address = a}
readBalanceForAddress(a) == IF a \in DOMAIN balances THEN balances[a] ELSE NoBalance

DustAllowance(row) == Min({row.allowance \div Divisor, MaxDust})

(* Mutant: an address that is full may take one more. *)
AddressBalanceAtLimit(a) ==
    LET row == readBalanceForAddress(a)
    IN [balance |-> row.amount, dustAllowed |-> DustAllowance(row) >= row.dust]

AddressBalance(a) ==
    LET row == readBalanceForAddress(a)
    IN [balance |-> row.amount, dustAllowed |-> DustAllowance(row) > row.dust]

(* The unspent and the spent outputs are joined with the table of outputs: *)
(* a row that is missing there ends the iteration with an error. *)
UnspentOutputsLoad == unspent \subseteq DOMAIN outputs
SpentOutputsLoad == DOMAIN spents \subseteq DOMAIN outputs

(* Mutant: the new treasury output is looked for among the unspent only. *)
MilestoneDiffUnspentTreasury(i) ==
    /\ i \in DOMAIN diffs
    /\ \A o \in diffs[i].created : Found(o)
    /\ \A o \in diffs[i].consumed : Found(o) /\ o \in DOMAIN spents
    /\ diffs[i].treasury # <<>> => diffs[i].treasury[1] \in treasury.unspent

(* A milestone diff is not found, or is loaded row by row from the other   *)
(* tables; a row that is missing there looks like a diff that is missing.  *)
MilestoneDiffFound(i) ==
    /\ i \in DOMAIN diffs
    /\ \A o \in diffs[i].created : Found(o)
    /\ \A o \in diffs[i].consumed : Found(o) /\ o \in DOMAIN spents
    /\ diffs[i].treasury # <<>> =>
         /\ diffs[i].treasury[1] \in treasury.unspent \cup treasury.spent
         /\ diffs[i].treasury[2] \in treasury.spent

NoTreasury == -1

(* Mutant: the prefix of the iteration takes in the spent ones. *)
UnspentTreasuryAnyPrefix ==
    LET found == treasury.unspent \cup treasury.spent
    IN IF Cardinality(found) = 1 THEN CHOOSE t \in found : TRUE ELSE NoTreasury

(* There is none to report unless there is exactly one. *)
UnspentTreasuryOutput ==
    LET found == treasury.unspent
    IN IF Cardinality(found) = 1 THEN CHOOSE t \in found : TRUE ELSE NoTreasury

-----------------------------------------------------------------------------
(* pkg/server: outputs and transactions *)

OutputByID(o) ==
    [status |-> IF ~Found(o) THEN "notFound"
                ELSE IF o \in unspent THEN "unspent"
                ELSE IF o \in DOMAIN spents THEN "spent" ELSE "notFound",
     spents |-> {spents[k] : k \in {o} \cap DOMAIN spents}]

(* Mutant: it is found by the second output. *)
MessageBySecondOutput(tx) ==
    IF Found(<<tx, 1>>) THEN outputs[<<tx, 1>>].message ELSE NoMessageID

(* The message of a transaction is found by its first output. *)
MessageByTransaction(tx) ==
    IF Found(<<tx, 0>>) THEN outputs[<<tx, 0>>].message ELSE NoMessageID

(* The message itself is handed out only when it is stored, too. *)
IncludedMessage(tx) ==
    LET m == MessageByTransaction(tx) IN IF m \in messages THEN m ELSE NoMessageID

-----------------------------------------------------------------------------
(* pkg/server: messages and milestones *)

IsIncludedTxInLedger(meta) == meta.referenced /\ ~meta.noTx /\ ~meta.conflicting

(* Mutant: the conflict is not looked at, and whatever holds a transaction *)
(* counts as included. *)
InclusionStateOfPayload(meta) == IF meta.noTx THEN "noTransaction" ELSE "included"

InclusionState(meta) ==
    CASE meta.conflict # "none"     -> "conflicting"
      [] IsIncludedTxInLedger(meta) -> "included"
      [] OTHER                      -> "noTransaction"

(* Mutant: every message reports the milestone that references it. *)
MessageMetadataAnyMilestone(m) ==
    LET meta == metadata[m]
    IN [index |-> meta.index, milestone |-> meta.index,
        state |-> IF meta.referenced THEN InclusionState(meta) ELSE "none"]

(* The metadata endpoint: index 0 and state "none" stand for a field that  *)
(* is left out. *)
MessageMetadata(m) ==
    LET meta == metadata[m]
    IN [index |-> meta.index, milestone |-> IF meta.milestone THEN meta.index ELSE 0,
        state |-> IF meta.referenced THEN InclusionState(meta) ELSE "none"]

(* The milestone endpoint; the timestamp is there whenever the row is. *)
MilestoneByIndex(i) == IF i \in DOMAIN milestones THEN milestones[i] ELSE NoMessageID

-----------------------------------------------------------------------------
(* The history of an address. *)

(* Mutant: the iteration over the lookup table is not limited to the       *)
(* address. *)
ConflictingMessagesOfAll(a) == {m \in DOMAIN metadata : metadata[m].conflicting}

(* The lookup table for the address (module LookupTable), made from the    *)
(* databases as they are: inputs that are not known are left out of it.    *)
ConflictingMessages(a) ==
    {m \in DOMAIN metadata :
        /\ metadata[m].conflicting
        /\ \/ \E o \in Range_(Tx[m].inputs) : o \in DOMAIN outputs /\ outputs[o].address = a
           \/ \E k \in DOMAIN Tx[m].outputs : Tx[m].outputs[k].address = a}

SpendingMessage(o) == MessageByTransaction(spents[o].tx)

(* Mutant: the messages that spent an output are not collected. *)
HistoryMessagesNoSpender(a) ==
    {outputs[o].message : o \in UnspentOutputs(a) \cup SpentOutputs(a)} \cup ConflictingMessages(a)

HistoryMessages(a) ==
    {outputs[o].message : o \in UnspentOutputs(a)}
      \cup {outputs[o].message : o \in SpentOutputs(a)}
      \cup {SpendingMessage(o) : o \in SpentOutputs(a)}
      \cup ConflictingMessages(a)

IsMilestone(m) == \E i \in 1..MaxIndex : m = MilestoneMessage(i)
IndexOf(m) == CHOOSE i \in 1..MaxIndex : m = MilestoneMessage(i)

AmountTo(list, a) ==
    MapThenSumSet(LAMBDA k : list[k].amount, {k \in DOMAIN list : list[k].address = a})

Item(m, state, change) == [message |-> m, state |-> state, change |-> change]
Skipped(m) == Item(m, "skipped", 0)   \* the nil item: no history
Failed(m) == Item(m, "error", 0)

(* The item of a milestone that migrated funds, and of a transaction.  An  *)
(* input without an output row, of this or of another address, leaves the  *)
(* whole item out. *)
MigrationItem(a, m) ==
    IF Receipts[IndexOf(m)] = <<>> THEN Failed(m)
    ELSE Item(m, "migrated", AmountTo(Receipts[IndexOf(m)], a))

Change(a, m) ==
    LET own == {o \in Range_(Tx[m].inputs) : Found(o) /\ outputs[o].address = a}
    IN AmountTo(Tx[m].outputs, a) - Worth(own, outputs)

TransactionItem(a, m) ==
    IF \A o \in Range_(Tx[m].inputs) : Found(o)
    THEN Item(m, InclusionState(metadata[m]), Change(a, m)) ELSE Skipped(m)

(* Mutant: a missing message is an error, too. *)
HistoryItemStrict(a, m) ==
    IF m \notin messages \cap DOMAIN metadata \/ metadata[m].index \notin DOMAIN milestones
    THEN Failed(m)
    ELSE IF IsMilestone(m) THEN MigrationItem(a, m) ELSE TransactionItem(a, m)

(* A message that is missing is skipped, but one without metadata, or of a *)
(* milestone without a timestamp, is an error; so is the nil message ID.   *)
HistoryItem(a, m) ==
    IF m # NoMessageID /\ m \notin messages THEN Skipped(m)
    ELSE IF m \notin DOMAIN metadata \/ metadata[m].index \notin DOMAIN milestones THEN Failed(m)
    ELSE IF IsMilestone(m) THEN MigrationItem(a, m) ELSE TransactionItem(a, m)

Items(a) == {HistoryItem(a, m) : m \in HistoryMessages(a)}
HistoryFails(a) ==
    ~UnspentOutputsLoad \/ ~SpentOutputsLoad \/ \E x \in Items(a) : x.state = "error"
History(a) == {x \in Items(a) : x.state # "skipped"}

-----------------------------------------------------------------------------
(* Properties.                                                             *)

(* No history is an error in any state the legacy node leaves: whatever    *)
(* was pruned is either skipped as a whole or is there with its metadata,  *)
(* its milestone and the message that spent its outputs.                   *)
HistoryAnswered == AtRest => \A a \in Addresses : ~HistoryFails(a)

(* What a set of history items did to the balance. *)
Changes(items) == MapThenSumSet(LAMBDA x : x.change, items)

(* The history explains the balance: what the address owned at the pruning *)
(* index and the changes of the listed transactions and migrations add up  *)
(* to the balance the balance endpoint reports.  Conflicting transactions  *)
(* are listed with a change, but changed nothing.                          *)
HistoryExplainsBalance ==
    AtRest => \A a \in Addresses :
        LET applied == {x \in History(a) : x.state # "conflicting"}
        IN AddressBalance(a).balance =
             Worth(Owned(DOMAIN opening, opening, a), opening)
               + Changes(applied)

(* The history lists exactly the referenced transactions that are still    *)
(* stored and touch the address, except those with an input that is not    *)
(* known any more: it does not depend on which of the indexes led to the   *)
(* message, and none of them leads to a transaction of other addresses, or *)
(* to one that no milestone references.                                    *)
TouchedBy(m, a) ==
    \/ \E k \in DOMAIN Tx[m].outputs : Tx[m].outputs[k].address = a
    \/ \E o \in Range_(Tx[m].inputs) : outputs[o].address = a
HistoryComplete ==
    AtRest => \A a \in Addresses : \A m \in TxMessages \cap messages :
        LET known == Range_(Tx[m].inputs) \subseteq DOMAIN outputs
            listed == \E x \in History(a) : x.message = m
        IN /\ metadata[m].referenced /\ known /\ TouchedBy(m, a) => listed
           /\ listed => known /\ metadata[m].referenced /\ TouchedBy(m, a)

(* The endpoints agree on an output that was spent: the transaction it     *)
(* names resolves to a message, and the history of its owner lists it.     *)
SpenderResolves ==
    AtRest => \A o \in DOMAIN outputs :
        LET answer == OutputByID(o)
        IN /\ answer.status # "notFound"
           /\ \A s \in answer.spents :
                LET m == MessageByTransaction(s.tx)
                IN /\ answer.status = "spent"
                   /\ m # NoMessageID
                   /\ \E x \in History(outputs[o].address) :
                        x.message = m /\ x.state = "included"

(* The changes of the milestones that are still stored can be loaded, and  *)
(* lead from the outputs at the pruning index to the unspent outputs.      *)
MilestoneChangesAddUp ==
    AtRest =>
        /\ \A i \in pruned + 1..ledger : MilestoneDiffFound(i)
        /\ LET all == {diffs[i] : i \in pruned + 1..ledger}
           IN unspent = (DOMAIN opening \cup UNION {d.created : d \in all})
                          \ UNION {d.consumed : d \in all}

(* The treasury endpoint reports the output that the newest migration left *)
(* behind, and the migrations that are still stored hand it on from one to *)
(* the next.                                                               *)
TreasuryCurrent ==
    AtRest =>
        LET migrations == {i \in DOMAIN diffs : diffs[i].treasury # <<>>}
            next(i) == Min({j \in migrations : j > i})
        IN /\ UnspentTreasuryOutput # NoTreasury
           /\ migrations # {} => UnspentTreasuryOutput = diffs[Max(migrations)].treasury[1]
           /\ \A i \in migrations \ {UnspentTreasuryOutput} :
                diffs[next(i)].treasury[2] = diffs[i].treasury[1]

(* An address answers that dust may be sent to it exactly when one more    *)
(* dust output, next to the unspent outputs it owns, keeps the dust rule.  *)
DustAllowedHonest ==
    AtRest => \A a \in Addresses :
        LET now == Sums(UnspentOutputs(a), outputs)
        IN AddressBalance(a).dustAllowed <=> DustRule([now EXCEPT !.dust = @ + 1])

(* The endpoints agree on what became of a transaction.  The message that  *)
(* is handed out for it is the one whose metadata says "included", every   *)
(* other message that carries it conflicts, an included one has its inputs *)
(* recorded as spent by it, and only the referenced ones have a state.     *)
InclusionAgrees ==
    AtRest => \A m \in TxMessages \cap messages :
        LET state == MessageMetadata(m).state
            tx == Tx[m].tx
        IN /\ state = "none" <=> m \notin seen
           /\ state \in {"none", "included", "conflicting"}
           /\ IncludedMessage(tx) = m => state = "included"
           /\ state = "included" =>
                /\ MessageByTransaction(tx) \in {m, NoMessageID}
                /\ \A o \in Range_(Tx[m].inputs) \cap DOMAIN spents : spents[o].tx = tx
                /\ Range_(Tx[m].inputs) \cap unspent = {}

(* Whatever message a milestone references, the milestone is there to ask  *)
(* for, and so is its message, whose metadata names that milestone; and no *)
(* other message is said to be a milestone.                                *)
MilestoneResolves ==
    AtRest => \A m \in messages :
        LET answer == MessageMetadata(m)
            of == MilestoneByIndex(answer.index)
        IN /\ answer.state # "none" =>
                of \in messages /\ MessageMetadata(of).milestone = answer.index
           /\ answer.milestone # 0 => of = m
=============================================================================
