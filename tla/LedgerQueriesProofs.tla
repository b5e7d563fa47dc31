------------------------ MODULE LedgerQueriesProofs ------------------------
(***************************************************************************)
(* Proofs about the queries: each answer joins rows of several tables, and *)
(* the invariant of the tables (theorem Tables) says what the rows found   *)
(* there are.                                                              *)
(***************************************************************************)
EXTENDS BalanceProofs

-----------------------------------------------------------------------------
(* Messages. *)

(* What a row of the metadata can be when the databases are at rest. *)
LEMMA MessageRows ==
    ASSUME TablesInv, AtRest
    PROVE  /\ DOMAIN milestones = Stored /\ Stored = pruned + 1..ledger
           /\ \A i \in Stored : i \in 1..MaxIndex /\ i > 0
           /\ \A m \in TxMessages \cap messages :
                /\ m \notin seen => metadata[m] = Meta(0, "transaction", "none")
                /\ m \in seen =>
                     \E i \in Stored, c \in Conflicts : metadata[m] = Meta(i, "transaction", c)
           /\ \A i \in 1..MaxIndex : MilestoneMessage(i) \in messages =>
                /\ i \in Stored /\ metadata[MilestoneMessage(i)] = Meta(i, "milestone", "none")
           /\ \A i \in Stored :
                /\ milestones[i] = MilestoneMessage(i) /\ MilestoneMessage(i) \in messages
<1>1. /\ ledger \in Nat /\ pruned \in Nat /\ ledger <= MaxIndex /\ MaxIndex \in Nat
  BY UniverseAssumption DEF TablesInv, MilestonesInv
<1>2. Stored = pruned + 1..ledger
  BY DEF AtRest, Stored, Reached
<1>3. \A i \in Stored : i \in 1..MaxIndex /\ i > 0
  BY <1>1, <1>2
<1>4. /\ DOMAIN milestones = pruned + 1..ledger
      /\ \A i \in 1..MaxIndex : MilestoneMessage(i) \in messages <=> i \in DOMAIN milestones
      /\ \A i \in DOMAIN milestones :
            /\ milestones[i] = MilestoneMessage(i)
            /\ metadata[MilestoneMessage(i)] = Meta(i, "milestone", "none")
  BY DEF TablesInv, MessagesInv
<1>5. \A m \in TxMessages \cap messages :
         /\ m \notin seen => metadata[m] = Meta(0, "transaction", "none")
         /\ m \in seen =>
              \E i \in Stored, c \in Conflicts : metadata[m] = Meta(i, "transaction", c)
  BY DEF TablesInv, MessagesInv
<1> QED
  BY <1>2, <1>3, <1>4, <1>5

(* The inclusion state that is reported for a transaction message. *)
LEMMA InclusionStates ==
    ASSUME TablesInv, AtRest, NEW m \in TxMessages \cap messages
    PROVE  /\ m \in DOMAIN metadata /\ m # NoMessageID /\ ~IsMilestone(m)
           /\ m \notin seen => /\ ~metadata[m].referenced /\ ~metadata[m].conflicting
                               /\ ~Included(m) /\ ~metadata[m].milestone
           /\ m \in seen => /\ metadata[m].referenced /\ metadata[m].index \in DOMAIN milestones
                            /\ InclusionState(metadata[m]) \in {"included", "conflicting"}
                            /\ InclusionState(metadata[m]) = "included" <=> Included(m)
                            /\ metadata[m].conflicting <=> ~Included(m)
                            /\ ~metadata[m].milestone
<1>1. m \in DOMAIN metadata
  BY DEF TablesInv, MessagesInv
<1>2. m # NoMessageID /\ ~IsMilestone(m)
  BY NilAssumption, MilestoneNames DEF IsMilestone
<1>3. CASE m \notin seen
  <2>1. metadata[m] = Meta(0, "transaction", "none")
    BY <1>3, MessageRows
  <2>2. ~metadata[m].referenced /\ ~metadata[m].conflicting /\ ~metadata[m].milestone
    BY <2>1, MetaFields
  <2> QED
    BY <1>1, <1>2, <1>3, <2>2 DEF Included
<1>4. CASE m \in seen
  <2>1. PICK i \in Stored, c \in Conflicts : metadata[m] = Meta(i, "transaction", c)
    BY <1>4, MessageRows
  <2>2. i > 0 /\ i \in DOMAIN milestones
    BY MessageRows
  <2>3. /\ metadata[m].index = i /\ metadata[m].conflict = c /\ metadata[m].referenced
        /\ ~metadata[m].noTx /\ ~metadata[m].milestone /\ (metadata[m].conflicting <=> c # "none")
    BY <2>1, <2>2, MetaFields
  <2>4. CASE c = "none"
    <3>1. InclusionState(metadata[m]) = "included" /\ Included(m)
      BY <2>3, <2>4 DEF InclusionState, IsIncludedTxInLedger, Included
    <3> QED
      BY <1>1, <1>2, <1>4, <2>2, <2>3, <2>4, <3>1
  <2>5. CASE c # "none"
    <3>1. InclusionState(metadata[m]) = "conflicting" /\ ~Included(m)
      BY <2>3, <2>5 DEF InclusionState, IsIncludedTxInLedger, Included
    <3> QED
      BY <1>1, <1>2, <1>4, <2>2, <2>3, <2>5, <3>1
  <2> QED
    BY <2>4, <2>5
<1> QED
  BY <1>3, <1>4

LEMMA ResolvesStep == TablesInv => MilestoneResolves
<1> SUFFICES ASSUME TablesInv, AtRest, NEW m \in messages
             PROVE  LET answer == MessageMetadata(m)
                        of == MilestoneByIndex(answer.index)
                    IN /\ answer.state # "none" =>
                            of \in messages /\ MessageMetadata(of).milestone = answer.index
                       /\ answer.milestone # 0 => of = m
  BY DEF MilestoneResolves
<1>1. \A n : /\ MessageMetadata(n).index = metadata[n].index
             /\ MessageMetadata(n).milestone =
                  IF metadata[n].milestone THEN metadata[n].index ELSE 0
             /\ ~metadata[n].referenced => MessageMetadata(n).state = "none"
  BY DEF MessageMetadata
<1>2. \A i \in Stored :
         /\ MilestoneByIndex(i) = MilestoneMessage(i) /\ MilestoneMessage(i) \in messages
         /\ MessageMetadata(MilestoneMessage(i)).milestone = i
  <2> TAKE i \in Stored
  <2>1. /\ i \in 1..MaxIndex /\ i \in DOMAIN milestones
        /\ milestones[i] = MilestoneMessage(i) /\ MilestoneMessage(i) \in messages
    BY MessageRows
  <2>2. metadata[MilestoneMessage(i)] = Meta(i, "milestone", "none")
    BY <2>1, MessageRows
  <2>3. metadata[MilestoneMessage(i)].index = i /\ metadata[MilestoneMessage(i)].milestone
    BY <2>2, MetaFields
  <2> QED
    BY <1>1, <2>1, <2>3 DEF MilestoneByIndex
<1>3. CASE m \in TxMessages
  <2>1. MessageMetadata(m).milestone = 0
    BY <1>1, <1>3, InclusionStates
  <2>2. MessageMetadata(m).state # "none" => m \in seen
    BY <1>1, <1>3, InclusionStates
  <2>3. m \in seen => metadata[m].index \in Stored
    BY <1>3, InclusionStates, MessageRows
  <2> QED
    BY <1>1, <1>2, <2>1, <2>2, <2>3
<1>4. CASE m \notin TxMessages
  <2>1. PICK i \in 1..MaxIndex : m = MilestoneMessage(i)
    BY <1>4 DEF TablesInv, MessagesInv, AllMessages
  <2>2. i \in Stored /\ metadata[m] = Meta(i, "milestone", "none")
    BY <2>1, MessageRows
  <2>3. metadata[m].index = i
    BY <2>2, MetaFields
  <2> QED
    BY <1>1, <1>2, <2>1, <2>2, <2>3
<1> QED
  BY <1>3, <1>4

(* Whatever milestone a message's metadata names resolves to its message,  *)
(* and only its message says that it is that milestone. *)
THEOREM Resolves == Spec => []MilestoneResolves
BY Tables, ResolvesStep, PTL

-----------------------------------------------------------------------------
(* Transactions. *)

(* A transaction that has been applied is found by its first output.       *)
LEMMA MessageOfIncluded ==
    ASSUME TablesInv, NEW m \in TxMessages, Included(m)
    PROVE  MessageByTransaction(Tx[m].tx) = m
<1>1. /\ <<Tx[m].tx, 0>> \in DOMAIN NewOutputs(m)
      /\ NewOutputs(m)[<<Tx[m].tx, 0>>].message = m
  BY TransactionOutputs
<1>2. <<Tx[m].tx, 0>> \in DOMAIN outputs
  BY <1>1, IncludedStored
<1>3. outputs[<<Tx[m].tx, 0>>] = NewOutputs(m)[<<Tx[m].tx, 0>>]
  BY <1>1 DEF TablesInv, SpendingInv
<1> QED
  BY <1>1, <1>2, <1>3 DEF MessageByTransaction, Found

(* Where the message that an output names comes from. *)
LEMMA OutputMessage ==
    ASSUME TablesInv, NEW o \in DOMAIN outputs
    PROVE  \/ outputs[o].message = NoMessage
           \/ /\ outputs[o].message \in TxMessages \cap seen
              /\ outputs[o].message \in messages => Included(outputs[o].message)
           \/ \E i \in 1..MaxIndex :
                 outputs[o].message = MilestoneMessage(i) /\ Receipts[i] # <<>>
<1>1. CASE FromSnapshot(o)
  BY <1>1 DEF FromSnapshot
<1>2. CASE FromTransaction(o)
  <2>1. PICK m \in TxMessages \cap seen :
          /\ o \in DOMAIN NewOutputs(m) /\ outputs[o] = NewOutputs(m)[o]
          /\ m \in messages => Included(m)
    BY <1>2 DEF FromTransaction
  <2>2. outputs[o].message = m
    BY <2>1, TransactionOutputs
  <2> QED
    BY <2>1, <2>2
<1>3. CASE FromReceipt(o)
  <2>1. PICK i \in 1..ledger : o \in DOMAIN Migrated(i) /\ outputs[o] = Migrated(i)[o]
    BY <1>3 DEF FromReceipt
  <2>2. ledger \in 0..MaxIndex /\ MaxIndex \in Nat
    BY UniverseAssumption DEF TablesInv, MilestonesInv
  <2>3. i \in 1..MaxIndex
    BY <2>2
  <2> QED
    BY <2>1, <2>3, MigratedOutputs
<1> QED
  BY <1>1, <1>2, <1>3 DEF TablesInv, OriginInv

LEMMA AgreesStep == TablesInv => InclusionAgrees
<1> SUFFICES ASSUME TablesInv, AtRest, NEW m \in TxMessages \cap messages
             PROVE  LET state == MessageMetadata(m).state
                        tx == Tx[m].tx
                    IN /\ state = "none" <=> m \notin seen
                       /\ state \in {"none", "included", "conflicting"}
                       /\ IncludedMessage(tx) = m => state = "included"
                       /\ state = "included" =>
                            /\ MessageByTransaction(tx) \in {m, NoMessageID}
                            /\ \A o \in Range_(Tx[m].inputs) \cap DOMAIN spents : spents[o].tx = tx
                            /\ Range_(Tx[m].inputs) \cap unspent = {}
  BY DEF InclusionAgrees
<1> DEFINE state == MessageMetadata(m).state
           tx == Tx[m].tx
<1>1. state = IF metadata[m].referenced THEN InclusionState(metadata[m]) ELSE "none"
  BY DEF MessageMetadata
<1>2. /\ state = "none" <=> m \notin seen
      /\ state \in {"none", "included", "conflicting"}
      /\ state = "included" <=> Included(m)
  <2>1. CASE m \notin seen
    BY <1>1, <2>1, InclusionStates
  <2>2. CASE m \in seen
    BY <1>1, <2>2, InclusionStates
  <2> QED
    BY <2>1, <2>2
<1>3. IncludedMessage(tx) = m => Included(m)
  <2> SUFFICES ASSUME IncludedMessage(tx) = m PROVE Included(m)
    OBVIOUS
  <2>1. m # NoMessageID /\ m # NoMessage /\ \A i \in 1..MaxIndex : m # MilestoneMessage(i)
    BY NilAssumption, IdentityAssumption, MilestoneNames
  <2>2. MessageByTransaction(tx) = m
    BY <2>1 DEF IncludedMessage
  <2>3. <<tx, 0>> \in DOMAIN outputs /\ outputs[<<tx, 0>>].message = m
    BY <2>1, <2>2 DEF MessageByTransaction, Found
  <2> QED
    BY <2>1, <2>3, OutputMessage
<1>4. Included(m) =>
        /\ MessageByTransaction(tx) = m
        /\ \A o \in Range_(Tx[m].inputs) : o \in DOMAIN spents /\ spents[o].tx = tx
        /\ Range_(Tx[m].inputs) \cap unspent = {}
  BY MessageOfIncluded DEF TablesInv, SpendingInv, OutputsInv, SpentBy
<1> HIDE DEF state, tx
<1> QED
  BY <1>2, <1>3, <1>4 DEF state, tx

(* The endpoints agree on what became of a transaction. *)
THEOREM Agrees == Spec => []InclusionAgrees
BY Tables, AgreesStep, PTL

-----------------------------------------------------------------------------
(* The history of an address. *)

(* A message that is not stored is skipped, whatever else is missing. *)
LEMMA MissingItem ==
    ASSUME NEW a, NEW m, m \notin messages, m # NoMessageID
    PROVE  HistoryItem(a, m).message = m /\ HistoryItem(a, m).state = "skipped"
BY DEF HistoryItem, Skipped, Item

(* A stored transaction is skipped when one of its inputs is not known.    *)
LEMMA TransactionHistoryItem ==
    ASSUME TablesInv, AtRest, NEW a, NEW m \in TxMessages \cap messages, m \in seen
    PROVE  /\ HistoryItem(a, m).message = m
           /\ IF Range_(Tx[m].inputs) \subseteq DOMAIN outputs
              THEN HistoryItem(a, m).state = InclusionState(metadata[m])
              ELSE HistoryItem(a, m).state = "skipped"
<1>1. /\ m \in DOMAIN metadata /\ ~IsMilestone(m) /\ metadata[m].index \in DOMAIN milestones
  BY InclusionStates
<1>2. HistoryItem(a, m) = TransactionItem(a, m)
  BY <1>1 DEF HistoryItem
<1>3. CASE Range_(Tx[m].inputs) \subseteq DOMAIN outputs
  <2>1. TransactionItem(a, m) = Item(m, InclusionState(metadata[m]), Change(a, m))
    BY <1>3 DEF TransactionItem, Found
  <2> QED
    BY <1>2, <1>3, <2>1 DEF Item
<1>4. CASE ~(Range_(Tx[m].inputs) \subseteq DOMAIN outputs)
  <2>1. TransactionItem(a, m) = Skipped(m)
    BY <1>4 DEF TransactionItem, Found
  <2> QED
    BY <1>2, <1>4, <2>1 DEF Skipped, Item
<1> QED
  BY <1>3, <1>4

(* A stored milestone is listed with what its receipt migrated. *)
LEMMA MilestoneHistoryItem ==
    ASSUME TablesInv, AtRest, NEW a, NEW i \in 1..MaxIndex, MilestoneMessage(i) \in messages,
           Receipts[i] # <<>>
    PROVE  /\ HistoryItem(a, MilestoneMessage(i)).message = MilestoneMessage(i)
           /\ HistoryItem(a, MilestoneMessage(i)).state = "migrated"
<1> DEFINE M == MilestoneMessage(i)
<1>1. i \in DOMAIN milestones /\ metadata[M] = Meta(i, "milestone", "none")
  BY MessageRows
<1>2. M \in DOMAIN metadata /\ metadata[M].index \in DOMAIN milestones
  BY <1>1, MetaFields DEF TablesInv, MessagesInv
<1>3. IsMilestone(M) /\ IndexOf(M) = i
  BY MilestoneNames DEF IsMilestone, IndexOf
<1> HIDE DEF M
<1>4. HistoryItem(a, M) = MigrationItem(a, M)
  BY <1>2, <1>3 DEF HistoryItem, M
<1>5. MigrationItem(a, M) = Item(M, "migrated", AmountTo(Receipts[IndexOf(M)], a))
  BY <1>3 DEF MigrationItem
<1> QED
  BY <1>4, <1>5 DEF Item, M

(* The message that spent an output has been applied and is stored. *)
LEMMA SpendingMessages ==
    ASSUME TablesInv, NEW o \in DOMAIN spents
    PROVE  \E m \in TxMessages : /\ Included(m) /\ o \in Range_(Tx[m].inputs)
                                 /\ spents[o].tx = Tx[m].tx
                                 /\ SpendingMessage(o) = m
<1>1. PICK m \in TxMessages : Included(m) /\ o \in Range_(Tx[m].inputs) /\ SpentBy(o, m)
  BY DEF TablesInv, SpendingInv
<1>2. spents[o].tx = Tx[m].tx
  BY <1>1 DEF SpentBy
<1>3. SpendingMessage(o) = m
  BY <1>1, <1>2, MessageOfIncluded DEF SpendingMessage
<1> QED
  BY <1>1, <1>2, <1>3

(* What the messages of a history can be. *)
LEMMA ListedMessages ==
    ASSUME TablesInv, AtRest, NEW a, NEW m \in HistoryMessages(a)
    PROVE  /\ m # NoMessageID
           /\ \/ m \notin messages
              \/ m \in TxMessages /\ m \in seen
              \/ \E i \in 1..MaxIndex : m = MilestoneMessage(i) /\ Receipts[i] # <<>>
<1>1. ASSUME NEW o \in DOMAIN outputs, m = outputs[o].message
      PROVE  /\ m # NoMessageID
             /\ \/ m \notin messages
                \/ m \in TxMessages /\ m \in seen
                \/ \E i \in 1..MaxIndex : m = MilestoneMessage(i) /\ Receipts[i] # <<>>
  <2>1. CASE m = NoMessage
    <3>1. NoMessage \notin AllMessages
      BY IdentityAssumption, MilestoneNames DEF AllMessages
    <3> QED
      BY <2>1, <3>1, NilAssumption DEF TablesInv, MessagesInv
  <2>2. CASE m # NoMessage
    BY <1>1, <2>2, OutputMessage, NilAssumption
  <2> QED
    BY <2>1, <2>2
<1>2. CASE m \in {outputs[o].message : o \in UnspentOutputs(a) \cup SpentOutputs(a)}
  <2>1. UnspentOutputs(a) \cup SpentOutputs(a) \subseteq DOMAIN outputs
    BY DEF UnspentOutputs, SpentOutputs, TablesInv, OutputsInv
  <2> QED
    BY <1>1, <1>2, <2>1
<1>3. CASE m \in {SpendingMessage(o) : o \in SpentOutputs(a)}
  <2>1. PICK o \in SpentOutputs(a) : m = SpendingMessage(o)
    BY <1>3
  <2>2. o \in DOMAIN spents
    BY DEF SpentOutputs
  <2>3. m \in TxMessages /\ Included(m)
    BY <2>1, <2>2, SpendingMessages
  <2>4. m \in seen
    BY <2>3, IncludedStored
  <2> QED
    BY <2>3, <2>4, NilAssumption
<1>4. CASE m \in ConflictingMessages(a)
  <2>1. m \in messages /\ metadata[m].conflicting
    BY <1>4 DEF ConflictingMessages, TablesInv, MessagesInv
  <2>2. m \in TxMessages
    <3> SUFFICES ASSUME m \notin TxMessages PROVE FALSE
      OBVIOUS
    <3>1. PICK i \in 1..MaxIndex : m = MilestoneMessage(i)
      BY <2>1 DEF TablesInv, MessagesInv, AllMessages
    <3>2. metadata[m] = Meta(i, "milestone", "none")
      BY <2>1, <3>1, MessageRows
    <3> QED
      BY <2>1, <3>2, MetaFields
  <2>3. m \in seen
    BY <2>1, <2>2, InclusionStates
  <2> QED
    BY <2>2, <2>3, NilAssumption
<1> QED
  BY <1>2, <1>3, <1>4 DEF HistoryMessages

(* The item of any message that is collected for a history. *)
LEMMA HistoryItems ==
    ASSUME TablesInv, AtRest, NEW a, NEW m \in HistoryMessages(a)
    PROVE  /\ HistoryItem(a, m).message = m
           /\ HistoryItem(a, m).state # "error"
           /\ HistoryItem(a, m).state # "skipped" /\ m \in TxMessages \cap messages =>
                metadata[m].referenced /\ Range_(Tx[m].inputs) \subseteq DOMAIN outputs
<1>1. CASE m \notin messages
  BY <1>1, ListedMessages, MissingItem
<1>2. CASE m \in messages /\ m \in TxMessages /\ m \in seen
  <2>1. InclusionState(metadata[m]) \in {"included", "conflicting"} /\ metadata[m].referenced
    BY <1>2, InclusionStates
  <2> QED
    BY <1>2, <2>1, TransactionHistoryItem
<1>3. ASSUME NEW i \in 1..MaxIndex, m = MilestoneMessage(i), Receipts[i] # <<>>, m \in messages
      PROVE  HistoryItem(a, m).message = m /\ HistoryItem(a, m).state = "migrated"
             /\ m \notin TxMessages
  BY <1>3, MilestoneHistoryItem, MilestoneNames
<1> QED
  BY <1>1, <1>2, <1>3, ListedMessages

LEMMA AnsweredStep == TablesInv => HistoryAnswered
<1> SUFFICES ASSUME TablesInv, AtRest, NEW a \in Addresses PROVE ~HistoryFails(a)
  BY DEF HistoryAnswered
<1>1. UnspentOutputsLoad /\ SpentOutputsLoad
  BY DEF UnspentOutputsLoad, SpentOutputsLoad, TablesInv, OutputsInv
<1>2. \A x \in Items(a) : x.state # "error"
  BY HistoryItems DEF Items
<1> QED
  BY <1>1, <1>2 DEF HistoryFails

(* Whatever was pruned, no history is an error. *)
THEOREM Answered == Spec => []HistoryAnswered
BY Tables, AnsweredStep, PTL

(* A referenced transaction that touches an address, and whose inputs are  *)
(* known, is found by one of the indexes. *)
LEMMA TouchedListed ==
    ASSUME TablesInv, AtRest, NEW a, NEW m \in TxMessages \cap messages, m \in seen,
           Range_(Tx[m].inputs) \subseteq DOMAIN outputs, TouchedBy(m, a)
    PROVE  m \in HistoryMessages(a)
<1>1. CASE ~Included(m)
  <2>1. m \in DOMAIN metadata /\ metadata[m].conflicting
    BY <1>1, InclusionStates
  <2>2. m \in ConflictingMessages(a)
    BY <2>1 DEF ConflictingMessages, TouchedBy
  <2> QED
    BY <2>2 DEF HistoryMessages
<1>2. ASSUME Included(m), NEW k \in DOMAIN Tx[m].outputs, Tx[m].outputs[k].address = a
      PROVE  m \in HistoryMessages(a)
  <2> DEFINE o == <<Tx[m].tx, k - 1>>
  <2>1. Tx[m].outputs \in Seq(Payment)
    BY UniverseAssumption
  <2>2. k \in 1..Len(Tx[m].outputs) /\ Len(Tx[m].outputs) \in Nat
    BY <2>1
  <2>3. k - 1 \in 0..Len(Tx[m].outputs) - 1 /\ (k - 1) + 1 = k
    BY <2>2
  <2>4. o \in Names(Tx[m].tx, Tx[m].outputs) /\ o[2] = k - 1
    BY <2>3 DEF Names
  <2> HIDE DEF o
  <2>5. o \in DOMAIN NewOutputs(m) /\ NewOutputs(m)[o].message = m
    BY <2>4, TransactionOutputs
  <2>6. NewOutputs(m)[o].address = a
    BY <1>2, <2>3, <2>4 DEF NewOutputs, Created
  <2>7. o \in DOMAIN outputs /\ outputs[o] = NewOutputs(m)[o]
    BY <1>2, <2>5, IncludedStored DEF TablesInv, SpendingInv
  <2>8. o \in UnspentOutputs(a) \/ o \in SpentOutputs(a)
    BY <2>6, <2>7 DEF UnspentOutputs, SpentOutputs, TablesInv, OutputsInv
  <2>9. outputs[o].message = m
    BY <2>5, <2>7
  <2> QED
    BY <2>8, <2>9 DEF HistoryMessages
<1>3. ASSUME Included(m), NEW o \in Range_(Tx[m].inputs), outputs[o].address = a
      PROVE  m \in HistoryMessages(a)
  <2>1. o \in DOMAIN spents /\ spents[o].tx = Tx[m].tx
    BY <1>3 DEF TablesInv, SpendingInv, SpentBy
  <2>2. SpendingMessage(o) = m
    BY <1>3, <2>1, MessageOfIncluded DEF SpendingMessage
  <2>3. o \in SpentOutputs(a)
    BY <1>3, <2>1 DEF SpentOutputs
  <2> QED
    BY <2>2, <2>3 DEF HistoryMessages
<1> QED
  BY <1>1, <1>2, <1>3 DEF TouchedBy

(* No index leads to a transaction that does not touch the address: it     *)
(* made an output of the address, or spent one, or the lookup table names  *)
(* it for one of its parties. *)
LEMMA ListedTouched ==
    ASSUME TablesInv, NEW a, NEW m \in TxMessages, m \in HistoryMessages(a)
    PROVE  TouchedBy(m, a)
<1>1. ASSUME NEW o \in DOMAIN outputs, outputs[o].address = a, outputs[o].message = m
      PROVE  TouchedBy(m, a)
  <2>1. ~FromSnapshot(o)
    BY <1>1, IdentityAssumption DEF FromSnapshot
  <2>2. ~FromReceipt(o)
    <3> SUFFICES ASSUME FromReceipt(o) PROVE FALSE
      OBVIOUS
    <3>1. PICK i \in 1..ledger : o \in DOMAIN Migrated(i) /\ outputs[o] = Migrated(i)[o]
      BY DEF FromReceipt
    <3>2. ledger \in 0..MaxIndex /\ MaxIndex \in Nat
      BY UniverseAssumption DEF TablesInv, MilestonesInv
    <3>3. i \in 1..MaxIndex
      BY <3>2
    <3>4. m = MilestoneMessage(i)
      BY <1>1, <3>1, <3>3, MigratedOutputs
    <3> QED
      BY <3>3, <3>4, MilestoneNames
  <2>3. PICK n \in TxMessages : o \in DOMAIN NewOutputs(n) /\ outputs[o] = NewOutputs(n)[o]
    BY <2>1, <2>2 DEF TablesInv, OriginInv, FromTransaction
  <2>4. n = m
    BY <1>1, <2>3, TransactionOutputs
  <2>5. o \in Names(Tx[m].tx, Tx[m].outputs)
    BY <2>3, <2>4, TransactionOutputs
  <2>6. PICK k \in 0..Len(Tx[m].outputs) - 1 : o = <<Tx[m].tx, k>>
    BY <2>5 DEF Names
  <2>7. k + 1 \in DOMAIN Tx[m].outputs
    <3>1. Tx[m].outputs \in Seq(Payment)
      BY UniverseAssumption
    <3> QED
      BY <3>1
  <2>8. outputs[o].address = Tx[m].outputs[k + 1].address
    BY <2>3, <2>4, <2>5, <2>6 DEF NewOutputs, Created
  <2> QED
    BY <1>1, <2>7, <2>8 DEF TouchedBy
<1>2. ASSUME NEW o \in DOMAIN spents, outputs[o].address = a, SpendingMessage(o) = m
      PROVE  TouchedBy(m, a)
  BY <1>2, SpendingMessages DEF TouchedBy
<1>3. m \in ConflictingMessages(a) => TouchedBy(m, a)
  BY DEF ConflictingMessages, TouchedBy
<1>4. /\ UnspentOutputs(a) \subseteq {o \in DOMAIN outputs : outputs[o].address = a}
      /\ SpentOutputs(a) \subseteq {o \in DOMAIN spents : outputs[o].address = a}
      /\ DOMAIN spents \subseteq DOMAIN outputs
  BY DEF UnspentOutputs, SpentOutputs, TablesInv, OutputsInv
<1> QED
  BY <1>1, <1>2, <1>3, <1>4 DEF HistoryMessages

LEMMA CompleteStep == TablesInv => HistoryComplete
<1> SUFFICES ASSUME TablesInv, AtRest, NEW a \in Addresses, NEW m \in TxMessages \cap messages
             PROVE  LET known == Range_(Tx[m].inputs) \subseteq DOMAIN outputs
                        listed == \E x \in History(a) : x.message = m
                    IN /\ metadata[m].referenced /\ known /\ TouchedBy(m, a) => listed
                       /\ listed => known /\ metadata[m].referenced /\ TouchedBy(m, a)
  BY DEF HistoryComplete
<1>1. ASSUME metadata[m].referenced, Range_(Tx[m].inputs) \subseteq DOMAIN outputs,
             TouchedBy(m, a)
      PROVE  \E x \in History(a) : x.message = m
  <2>1. m \in seen
    BY <1>1, InclusionStates
  <2>2. m \in HistoryMessages(a)
    BY <1>1, <2>1, TouchedListed
  <2>3. HistoryItem(a, m).message = m /\ HistoryItem(a, m).state # "skipped"
    BY <1>1, <2>1, TransactionHistoryItem, InclusionStates
  <2> QED
    BY <2>2, <2>3 DEF History, Items
<1>2. ASSUME NEW x \in History(a), x.message = m
      PROVE  /\ Range_(Tx[m].inputs) \subseteq DOMAIN outputs /\ metadata[m].referenced
             /\ TouchedBy(m, a)
  <2>1. PICK n \in HistoryMessages(a) : x = HistoryItem(a, n) /\ x.state # "skipped"
    BY DEF History, Items
  <2>2. n = m
    BY <1>2, <2>1, HistoryItems
  <2>3. TouchedBy(m, a)
    BY <2>1, <2>2, ListedTouched
  <2> QED
    BY <2>1, <2>2, <2>3, HistoryItems
<1> QED
  BY <1>1, <1>2

(* Of the transactions that are stored and whose inputs are known, the     *)
(* history of an address lists exactly those that a milestone references   *)
(* and that touch the address. *)
THEOREM Complete == Spec => []HistoryComplete
BY Tables, CompleteStep, PTL

LEMMA SpenderStep == TablesInv => SpenderResolves
<1> SUFFICES ASSUME TablesInv, AtRest, NEW o \in DOMAIN outputs
             PROVE  LET answer == OutputByID(o)
                    IN /\ answer.status # "notFound"
                       /\ \A s \in answer.spents :
                            LET m == MessageByTransaction(s.tx)
                            IN /\ answer.status = "spent"
                               /\ m # NoMessageID
                               /\ \E x \in History(outputs[o].address) :
                                    x.message = m /\ x.state = "included"
  BY DEF SpenderResolves
<1>1. o \in unspent \/ o \in DOMAIN spents
  BY DEF TablesInv, OutputsInv
<1>2. OutputByID(o).status = IF o \in unspent THEN "unspent" ELSE "spent"
  BY <1>1 DEF OutputByID, Found
<1>3. ASSUME NEW s \in OutputByID(o).spents
      PROVE  s = spents[o] /\ o \in DOMAIN spents /\ o \notin unspent
  BY DEF OutputByID, TablesInv, OutputsInv
<1>4. ASSUME o \in DOMAIN spents
      PROVE  /\ MessageByTransaction(spents[o].tx) # NoMessageID
             /\ \E x \in History(outputs[o].address) :
                  x.message = MessageByTransaction(spents[o].tx) /\ x.state = "included"
  <2> DEFINE a == outputs[o].address
  <2>1. PICK m \in TxMessages : Included(m) /\ SpendingMessage(o) = m
    BY <1>4, SpendingMessages
  <2>2. MessageByTransaction(spents[o].tx) = m
    BY <2>1 DEF SpendingMessage
  <2>3. o \in SpentOutputs(a)
    BY <1>4 DEF SpentOutputs
  <2>4. m \in HistoryMessages(a)
    BY <2>1, <2>3 DEF HistoryMessages
  <2>5. m \in messages /\ m \in seen
    BY <2>1, IncludedStored DEF Included
  <2>6. Range_(Tx[m].inputs) \subseteq DOMAIN outputs
    BY <2>1 DEF TablesInv, SpendingInv, OutputsInv
  <2>7. InclusionState(metadata[m]) = "included"
    BY <2>1, <2>5, InclusionStates
  <2>8. HistoryItem(a, m).message = m /\ HistoryItem(a, m).state = "included"
    BY <2>5, <2>6, <2>7, TransactionHistoryItem
  <2>9. m # NoMessageID
    BY NilAssumption
  <2> HIDE DEF a
  <2>10. HistoryItem(a, m) \in History(a)
    BY <2>4, <2>8 DEF History, Items
  <2> QED
    BY <2>2, <2>8, <2>9, <2>10 DEF a
<1> QED
  BY <1>2, <1>3, <1>4

(* The transaction that a spent output names resolves to a message that    *)
(* the history of the output's owner lists as included. *)
THEOREM SpentResolves == Spec => []SpenderResolves
BY Tables, SpenderStep, PTL

-----------------------------------------------------------------------------
(* Milestone changes and the treasury. *)

LEMMA ChangesStep == TablesInv => MilestoneChangesAddUp
<1> SUFFICES ASSUME TablesInv, AtRest
             PROVE  /\ \A i \in Stored : MilestoneDiffFound(i)
                    /\ LET all == {diffs[i] : i \in Stored}
                       IN unspent = (DOMAIN opening \cup UNION {d.created : d \in all})
                                       \ UNION {d.consumed : d \in all}
  BY MessageRows DEF MilestoneChangesAddUp
<1>1. /\ DOMAIN outputs = unspent \cup DOMAIN spents /\ unspent \cap DOMAIN spents = {}
      /\ DOMAIN diffs = Stored
      /\ \A o \in DOMAIN spents : spents[o].index \in Stored
      /\ \A i \in Stored :
            /\ diffs[i].consumed = {o \in DOMAIN spents : spents[o].index = i}
            /\ diffs[i].created \subseteq DOMAIN outputs
      /\ DOMAIN opening \subseteq DOMAIN outputs
      /\ \A o \in DOMAIN outputs \ DOMAIN opening : \E i \in Stored : o \in diffs[i].created
  BY DEF TablesInv, OutputsInv
<1>2. ASSUME NEW i \in Stored PROVE MilestoneDiffFound(i)
  <2>1. \A o \in diffs[i].created \cup diffs[i].consumed : Found(o)
    BY <1>1 DEF Found
  <2>2. \A o \in diffs[i].consumed : o \in DOMAIN spents
    BY <1>1
  <2>3. ASSUME diffs[i].treasury # <<>>
        PROVE  /\ diffs[i].treasury[1] \in treasury.unspent \cup treasury.spent
               /\ diffs[i].treasury[2] \in treasury.spent
    <3>1. i \in Migrations
      BY <1>1, <2>3 DEF Migrations
    <3>2. PICK old : Hands(old, i) /\ old \in treasury.spent
      BY <3>1 DEF TablesInv, TreasuryInv
    <3>3. diffs[i].treasury[1] = i /\ diffs[i].treasury[2] = old
      BY <3>2 DEF Hands
    <3>4. i \in treasury.unspent \cup treasury.spent
      BY <3>1 DEF TablesInv, TreasuryInv
    <3> QED
      BY <3>2, <3>3, <3>4
  <2> QED
    BY <1>1, <2>1, <2>2, <2>3 DEF MilestoneDiffFound
<1> DEFINE all == {diffs[i] : i \in Stored}
           created == UNION {d.created : d \in all}
           consumed == UNION {d.consumed : d \in all}
<1>3. consumed = DOMAIN spents
  <2>1. \A x \in consumed : x \in DOMAIN spents
    BY <1>1
  <2>2. ASSUME NEW x \in DOMAIN spents PROVE x \in consumed
    <3>1. x \in diffs[spents[x].index].consumed /\ diffs[spents[x].index] \in all
      BY <1>1
    <3> QED
      BY <3>1
  <2> QED
    BY <2>1, <2>2
<1>4. created \subseteq DOMAIN outputs
  BY <1>1
<1>5. DOMAIN outputs \ DOMAIN opening \subseteq created
  <2> SUFFICES ASSUME NEW x \in DOMAIN outputs \ DOMAIN opening PROVE x \in created
    OBVIOUS
  <2>1. PICK i \in Stored : x \in diffs[i].created
    BY <1>1
  <2>2. diffs[i] \in all
    OBVIOUS
  <2> QED
    BY <2>1, <2>2
<1> HIDE DEF created, consumed
<1>6. unspent = (DOMAIN opening \cup created) \ consumed
  BY <1>1, <1>3, <1>4, <1>5
<1> QED
  BY <1>2, <1>6 DEF created, consumed

(* The milestones' changes can be loaded and lead from the outputs at the  *)
(* pruning index to the unspent outputs. *)
THEOREM ChangesAddUp == Spec => []MilestoneChangesAddUp
BY Tables, ChangesStep, PTL

LEMMA TreasuryStep == TablesInv => TreasuryCurrent
<1> SUFFICES ASSUME TablesInv
             PROVE  /\ UnspentTreasuryOutput # NoTreasury
                    /\ Migrations # {} =>
                         UnspentTreasuryOutput = diffs[Max(Migrations)].treasury[1]
                    /\ \A i \in Migrations \ {UnspentTreasuryOutput} :
                         diffs[Min({j \in Migrations : j > i})].treasury[2] = diffs[i].treasury[1]
  BY DEF TreasuryCurrent, Migrations
<1>1. PICK t \in 0..ledger :
        /\ treasury.unspent = {t}
        /\ Migrations # {} => t \in Migrations
        /\ \A i \in Migrations : i <= t
        /\ \A i \in Migrations \ {t} : \E j \in Migrations : i < j /\ Hands(i, j)
  BY DEF TablesInv, TreasuryInv
<1>2. \A i \in Migrations : \E old \in 0..i - 1 :
         /\ Hands(old, i) /\ \A j \in Migrations : j < i => j <= old
  BY DEF TablesInv, TreasuryInv
<1>3. \A i, old : Hands(old, i) => diffs[i].treasury[1] = i /\ diffs[i].treasury[2] = old
  BY DEF Hands
<1>4. ledger \in Nat /\ Migrations \subseteq Nat
  <2>1. ledger \in Nat /\ pruned \in Nat
    BY UniverseAssumption DEF TablesInv, MilestonesInv
  <2>2. Stored \subseteq Nat
    BY <2>1 DEF Stored, Reached
  <2> QED
    BY <2>1, <2>2 DEF Migrations, TablesInv, OutputsInv
<1>5. UnspentTreasuryOutput = t
  <2>1. Cardinality({t}) = 1
    BY FS_Singleton
  <2> QED
    BY <1>1, <2>1 DEF UnspentTreasuryOutput
<1>6. t # NoTreasury
  BY <1>4 DEF NoTreasury
<1>7. Migrations # {} => Max(Migrations) = t
  <2> SUFFICES ASSUME Migrations # {} PROVE Max(Migrations) = t
    OBVIOUS
  <2>1. t \in Migrations /\ \A y \in Migrations : t >= y
    BY <1>1, <1>4
  <2>2. \A x \in Migrations : x >= t => x = t
    BY <1>1, <1>4
  <2> QED
    BY <2>1, <2>2 DEF Max
<1>8. ASSUME NEW i \in Migrations \ {t}
      PROVE  diffs[Min({j \in Migrations : j > i})].treasury[2] = diffs[i].treasury[1]
  <2> DEFINE later == {j \in Migrations : j > i}
  <2>1. PICK j \in Migrations : i < j /\ Hands(i, j)
    BY <1>1
  <2>2. PICK old \in 0..j - 1 : Hands(old, j) /\ \A k \in Migrations : k < j => k <= old
    BY <1>2
  <2>3. old = i
    BY <1>3, <2>1, <2>2
  <2>4. j \in later /\ \A y \in later : j <= y
    BY <1>4, <2>1, <2>2, <2>3
  <2>5. \A x \in later : x <= j => x = j
    BY <1>4, <2>4
  <2>6. Min(later) = j
    BY <2>4, <2>5 DEF Min
  <2>7. diffs[i].treasury[1] = i
    BY <1>2, <1>3
  <2> QED
    BY <1>3, <2>1, <2>6, <2>7
<1> QED
  BY <1>1, <1>3, <1>2, <1>5, <1>6, <1>7, <1>8

(* The treasury output that is reported is the one the newest migration    *)
(* left behind, and each migration spent the one of the migration before.  *)
THEOREM Treasury == Spec => []TreasuryCurrent
BY Tables, TreasuryStep, PTL

-----------------------------------------------------------------------------
(* Dust. *)

LEMMA MinOfTwo ==
    ASSUME NEW x \in Int, NEW y \in Int
    PROVE  Min({x, y}) = IF x <= y THEN x ELSE y
<1>1. CASE x <= y
  <2>1. x \in {x, y} /\ \A z \in {x, y} : x <= z
    BY <1>1
  <2>2. \A u \in {x, y} : (\A z \in {x, y} : u <= z) => u = x
    BY <1>1
  <2> QED
    BY <1>1, <2>1, <2>2 DEF Min
<1>2. CASE ~(x <= y)
  <2>1. y \in {x, y} /\ \A z \in {x, y} : y <= z
    BY <1>2
  <2>2. \A u \in {x, y} : (\A z \in {x, y} : u <= z) => u = y
    BY <1>2
  <2> QED
    BY <1>2, <2>1, <2>2 DEF Min
<1> QED
  BY <1>1, <1>2

LEMMA DustStep == TablesInv /\ AccountsInv => DustAllowedHonest
<1> SUFFICES ASSUME TablesInv, AccountsInv, NEW a \in Addresses,
                    NEW now, now = Sums(UnspentOutputs(a), outputs)
             PROVE  AddressBalance(a).dustAllowed <=> DustRule([now EXCEPT !.dust = @ + 1])
  BY DEF DustAllowedHonest
<1>1. UnspentOutputs(a) = Owned(unspent, outputs, a)
  BY DEF UnspentOutputs, Owned
<1>2. readBalanceForAddress(a) = now
  BY <1>1 DEF AccountsInv, BalancesInv
<1>3. now \in [amount : Nat, allowance : Nat, dust : Nat]
  BY <1>1, OwnSums
<1> DEFINE limit == Min({now.allowance \div Divisor, MaxDust})
<1>4. limit \in Int
  <2>1. Divisor \in Nat \ {0} /\ MaxDust \in Int
    BY UniverseAssumption
  <2>2. now.allowance \div Divisor \in Int
    BY <1>3, <2>1
  <2> QED
    BY <2>1, <2>2, MinOfTwo
<1>5. AddressBalance(a).dustAllowed <=> limit > now.dust
  BY <1>2, Zenon DEF AddressBalance, DustAllowance
<1>6. DustRule([now EXCEPT !.dust = @ + 1]) <=> now.dust + 1 <= limit
  <2> PICK row : row = [now EXCEPT !.dust = @ + 1]
    OBVIOUS
  <2>1. row.dust = now.dust + 1 /\ row.allowance = now.allowance
    BY <1>3
  <2> QED
    BY <2>1, Zenon DEF DustRule
<1> HIDE DEF limit
<1> QED
  BY <1>3, <1>4, <1>5, <1>6

(* Dust is allowed exactly when one more dust output keeps the dust rule.  *)
THEOREM DustHonest == Spec => []DustAllowedHonest
BY Tables, Accounts, DustStep, PTL
-----------------------------------------------------------------------------
(* The history and the balance. *)

(* What a list of payments gives an address is such a sum, too, and so are *)
(* the changes of a set of history items.                                  *)
LEMMA AmountTotal ==
    ASSUME NEW list, NEW a, NEW S, S = {k \in DOMAIN list : list[k].address = a}, IsFiniteSet(S),
           NEW w, \A k \in S : w[k] = list[k].amount
    PROVE  AmountTo(list, a) = Total(w, S)
<1> DEFINE IsSums(f) ==
             f = [s \in SUBSET S |->
                    IF s = {} THEN 0 ELSE list[Pick(s)].amount + f[s \ {Pick(s)}]]
           f == CHOOSE g : IsSums(g)
<1>1. AmountTo(list, a) = f[S]
  BY DEF AmountTo, MapThenSumSet, MapThenFoldSet, Pick
<1>2. ASSUME NEW g PROVE IsSums(g) <=> SubsetSums(g, w, S)
  <2>1. \A s \in SUBSET S : s # {} => w[Pick(s)] = list[Pick(s)].amount
    BY Picked
  <2>2. [s \in SUBSET S |-> IF s = {} THEN 0 ELSE list[Pick(s)].amount + g[s \ {Pick(s)}]]
          = [s \in SUBSET S |-> IF s = {} THEN 0 ELSE w[Pick(s)] + g[s \ {Pick(s)}]]
    BY <2>1
  <2> QED
    BY <2>2 DEF SubsetSums, Partial
<1> HIDE DEF IsSums
<1>3. IsSums(f)
  <2>1. PICK g : Partial(g, w, SUBSET S)
    BY PartialExists
  <2>2. IsSums(g)
    BY <1>2, <2>1 DEF SubsetSums
  <2> QED
    BY <2>2
<1> HIDE DEF f
<1>4. SubsetSums(f, w, S)
  BY <1>2, <1>3
<1>5. PICK g : SubsetSums(g, w, S) /\ Total(w, S) = g[S]
  BY TotalSums
<1>6. f[S] = g[S]
  BY <1>4, <1>5, SumsUnique
<1> QED
  BY <1>1, <1>5, <1>6

LEMMA ChangesTotal ==
    ASSUME NEW S, IsFiniteSet(S), NEW w, \A x \in S : w[x] = x.change
    PROVE  Changes(S) = Total(w, S)
<1> DEFINE IsSums(f) ==
             f = [s \in SUBSET S |->
                    IF s = {} THEN 0 ELSE Pick(s).change + f[s \ {Pick(s)}]]
           f == CHOOSE g : IsSums(g)
<1>1. Changes(S) = f[S]
  BY DEF Changes, MapThenSumSet, MapThenFoldSet, Pick
<1>2. ASSUME NEW g PROVE IsSums(g) <=> SubsetSums(g, w, S)
  <2>1. \A s \in SUBSET S : s # {} => w[Pick(s)] = Pick(s).change
    BY Picked
  <2>2. [s \in SUBSET S |-> IF s = {} THEN 0 ELSE Pick(s).change + g[s \ {Pick(s)}]]
          = [s \in SUBSET S |-> IF s = {} THEN 0 ELSE w[Pick(s)] + g[s \ {Pick(s)}]]
    BY <2>1
  <2> QED
    BY <2>2 DEF SubsetSums, Partial
<1> HIDE DEF IsSums
<1>3. IsSums(f)
  <2>1. PICK g : Partial(g, w, SUBSET S)
    BY PartialExists
  <2>2. IsSums(g)
    BY <1>2, <2>1 DEF SubsetSums
  <2> QED
    BY <2>2
<1> HIDE DEF f
<1>4. SubsetSums(f, w, S)
  BY <1>2, <1>3
<1>5. PICK g : SubsetSums(g, w, S) /\ Total(w, S) = g[S]
  BY TotalSums
<1>6. f[S] = g[S]
  BY <1>4, <1>5, SumsUnique
<1> QED
  BY <1>1, <1>5, <1>6

(* The payments of a list to an address are the outputs made of it that    *)
(* the address owns. *)
LEMMA AmountCreated ==
    ASSUME NEW id, NEW list, list \in Seq(Payment), NEW message, NEW a,
           NEW new, new = Created(id, list, message),
           NEW w, \A o \in DOMAIN new : w[o] = new[o].amount
    PROVE  AmountTo(list, a) = Total(w, {o \in DOMAIN new : new[o].address = a})
<1> DEFINE K == {k \in DOMAIN list : list[k].address = a}
           h == [k \in K |-> <<id, k - 1>>]
           v == [k \in K |-> list[k].amount]
           mine == {o \in DOMAIN new : new[o].address = a}
<1>1. DOMAIN list = 1..Len(list) /\ Len(list) \in Nat
  OBVIOUS
<1>2. IsFiniteSet(K)
  <2>1. IsFiniteSet(1..Len(list))
    BY <1>1, FS_Interval
  <2> QED
    BY <1>1, <2>1, FS_Subset
<1>3. ASSUME NEW k \in K
      PROVE  /\ h[k] \in mine /\ new[h[k]].amount = list[k].amount
             /\ list[k].amount \in Nat /\ k \in Int
  <2>1. k \in 1..Len(list) /\ k - 1 \in 0..Len(list) - 1 /\ (k - 1) + 1 = k
    BY <1>1
  <2> PICK o : o = <<id, k - 1>>
    OBVIOUS
  <2>2. o \in Names(id, list) /\ o[2] = k - 1 /\ h[k] = o
    BY <2>1 DEF Names
  <2>3. o \in DOMAIN new /\ new[o].address = list[k].address /\ new[o].amount = list[k].amount
    BY <2>1, <2>2 DEF Created
  <2>4. list[k] \in Payment
    BY <2>1, <1>1
  <2> QED
    BY <2>1, <2>2, <2>3, <2>4 DEF Payment
<1>4. \A k, j \in K : h[k] = h[j] => k = j
  <2> TAKE k, j \in K
  <2>1. h[k] = <<id, k - 1>> /\ h[j] = <<id, j - 1>> /\ k \in Int /\ j \in Int
    BY <1>3
  <2> QED
    BY <2>1
<1>5. ASSUME NEW o \in mine PROVE \E k \in K : h[k] = o
  <2>1. o \in Names(id, list)
    BY DEF Created
  <2>2. PICK n \in 0..Len(list) - 1 : o = <<id, n>>
    BY <2>1 DEF Names
  <2>3. n + 1 \in 1..Len(list) /\ (n + 1) - 1 = n /\ o[2] = n
    BY <1>1, <2>2
  <2>4. new[o].address = list[n + 1].address
    BY <2>1, <2>3 DEF Created
  <2>5. n + 1 \in K
    BY <1>1, <2>3, <2>4
  <2>6. h[n + 1] = o
    BY <2>2, <2>3, <2>5
  <2> QED
    BY <2>5, <2>6
<1>6. \A k \in K : v[k] = list[k].amount
  OBVIOUS
<1> HIDE DEF K, h, v, mine
<1>7. Renames(h, K, mine)
  BY <1>3, <1>4, <1>5 DEF Renames
<1>8. \A k \in K : v[k] \in Int /\ w[h[k]] = v[k]
  <2> TAKE k \in K
  <2>1. h[k] \in DOMAIN new
    BY <1>3 DEF mine
  <2> QED
    BY <1>3, <1>6, <2>1
<1>9. AmountTo(list, a) = Total(v, K)
  BY <1>2, <1>6, AmountTotal DEF K
<1>10. Total(w, mine) = Total(v, K)
  BY <1>2, <1>7, <1>8, TotalRenamed
<1> QED
  BY <1>9, <1>10 DEF mine

(* What a message that has been applied gave to an address and took from it. *)
Movers == {m \in TxMessages : Included(m)} \cup {MilestoneMessage(i) : i \in Stored}
Gained(a, m) ==
    {o \in DOMAIN outputs \ DOMAIN opening : outputs[o].address = a /\ outputs[o].message = m}
Lost(a, m) == {o \in DOMAIN spents : outputs[o].address = a /\ SpendingMessage(o) = m}

(* Where an output that was made since the pruning index comes from.       *)
LEMMA MadeOutput ==
    ASSUME TablesInv, AccountsInv, AtRest, NEW o \in DOMAIN outputs \ DOMAIN opening
    PROVE  \/ \E m \in TxMessages :
                 /\ Included(m) /\ o \in DOMAIN NewOutputs(m)
                 /\ outputs[o] = NewOutputs(m)[o] /\ outputs[o].message = m
           \/ \E i \in Stored :
                 /\ o \in DOMAIN Migrated(i)
                 /\ outputs[o] = Migrated(i)[o] /\ outputs[o].message = MilestoneMessage(i)
<1>1. PICK i \in Stored : o \in diffs[i].created
  BY DEF TablesInv, OutputsInv
<1>2. MadeBy(o, i)
  BY <1>1 DEF AccountsInv, CreatedInv
<1>3. CASE \E m \in TxMessages : Included(m) /\ o \in DOMAIN NewOutputs(m)
  <2>1. PICK m \in TxMessages : Included(m) /\ o \in DOMAIN NewOutputs(m)
    BY <1>3
  <2>2. outputs[o] = NewOutputs(m)[o]
    BY <2>1 DEF TablesInv, SpendingInv
  <2>3. NewOutputs(m)[o].message = m
    BY <2>1, TransactionOutputs
  <2> QED
    BY <2>1, <2>2, <2>3
<1>4. CASE i <= ledger /\ o \in DOMAIN Migrated(i)
  <2>1. outputs[o] = Migrated(i)[o]
    BY <1>4 DEF AccountsInv, CreatedInv
  <2>2. Migrated(i)[o].message = MilestoneMessage(i)
    BY <1>4, StoredBound, MigratedOutputs
  <2> QED
    BY <1>4, <2>1, <2>2
<1> QED
  BY <1>2, <1>3, <1>4 DEF MadeBy

LEMMA TransactionMoves ==
    ASSUME TablesInv, AccountsInv, AtRest, NEW a, NEW m \in TxMessages, Included(m)
    PROVE  /\ Gained(a, m) = {o \in DOMAIN NewOutputs(m) : NewOutputs(m)[o].address = a}
           /\ \A o \in DOMAIN NewOutputs(m) : o \in DOMAIN outputs /\ outputs[o] = NewOutputs(m)[o]
           /\ Lost(a, m) = {o \in Range_(Tx[m].inputs) : Found(o) /\ outputs[o].address = a}
<1>1. ASSUME NEW o \in DOMAIN NewOutputs(m)
      PROVE  /\ o \in DOMAIN outputs \ DOMAIN opening /\ outputs[o] = NewOutputs(m)[o]
             /\ outputs[o].message = m
  <2>1. metadata[m].index \in Stored /\ o \in diffs[metadata[m].index].created
        /\ o \in DOMAIN outputs
    BY IncludedStored
  <2>2. o \notin DOMAIN opening
    BY <2>1 DEF AccountsInv, CreatedInv
  <2>3. outputs[o] = NewOutputs(m)[o]
    BY DEF TablesInv, SpendingInv
  <2>4. NewOutputs(m)[o].message = m
    BY TransactionOutputs
  <2> QED
    BY <2>1, <2>2, <2>3, <2>4
<1>2. ASSUME NEW o \in DOMAIN outputs \ DOMAIN opening, outputs[o].message = m
      PROVE  o \in DOMAIN NewOutputs(m)
  <2>1. \A i \in Stored : m # MilestoneMessage(i)
    BY StoredBound, MilestoneNames
  <2> QED
    BY <1>2, <2>1, MadeOutput
<1>3. ASSUME NEW o \in Range_(Tx[m].inputs)
      PROVE  o \in DOMAIN spents /\ SpendingMessage(o) = m
  <2>1. o \in DOMAIN spents /\ spents[o].tx = Tx[m].tx
    BY DEF TablesInv, SpendingInv, SpentBy
  <2> QED
    BY <2>1, MessageOfIncluded DEF SpendingMessage
<1>4. ASSUME NEW o \in DOMAIN spents, SpendingMessage(o) = m
      PROVE  o \in Range_(Tx[m].inputs) /\ Found(o)
  BY <1>4, SpendingMessages DEF Found, TablesInv, OutputsInv
<1>5. Gained(a, m) = {o \in DOMAIN NewOutputs(m) : NewOutputs(m)[o].address = a}
  BY <1>1, <1>2 DEF Gained
<1>6. Lost(a, m) = {o \in Range_(Tx[m].inputs) : Found(o) /\ outputs[o].address = a}
  BY <1>3, <1>4 DEF Lost
<1> QED
  BY <1>1, <1>5, <1>6

LEMMA MilestoneMoves ==
    ASSUME TablesInv, AccountsInv, AtRest, NEW a, NEW i \in Stored
    PROVE  /\ Gained(a, MilestoneMessage(i)) =
                 {o \in DOMAIN Migrated(i) : Migrated(i)[o].address = a}
           /\ \A o \in DOMAIN Migrated(i) : o \in DOMAIN outputs /\ outputs[o] = Migrated(i)[o]
           /\ Lost(a, MilestoneMessage(i)) = {}
<1>1. i \in 1..MaxIndex /\ i <= ledger
  <2>1. ledger \in Nat /\ pruned \in Nat /\ Stored = pruned + 1..ledger
    BY MessageRows, UniverseAssumption DEF TablesInv, MilestonesInv
  <2> QED
    BY <2>1, StoredBound
<1>2. ASSUME NEW o \in DOMAIN Migrated(i)
      PROVE  /\ o \in DOMAIN outputs \ DOMAIN opening /\ outputs[o] = Migrated(i)[o]
             /\ outputs[o].message = MilestoneMessage(i)
  <2>1. o \in diffs[i].created /\ outputs[o] = Migrated(i)[o]
    BY <1>1 DEF AccountsInv, CreatedInv
  <2>2. o \notin DOMAIN opening
    BY <2>1 DEF AccountsInv, CreatedInv
  <2>3. o \in DOMAIN outputs
    BY <2>1 DEF TablesInv, OutputsInv
  <2>4. Migrated(i)[o].message = MilestoneMessage(i)
    BY <1>1, MigratedOutputs
  <2> QED
    BY <2>1, <2>2, <2>3, <2>4
<1>3. ASSUME NEW o \in DOMAIN outputs \ DOMAIN opening, outputs[o].message = MilestoneMessage(i)
      PROVE  o \in DOMAIN Migrated(i)
  <2>1. /\ \A m \in TxMessages : m # MilestoneMessage(i)
        /\ \A j : MilestoneMessage(j) = MilestoneMessage(i) => j = i
    BY <1>1, MilestoneNames
  <2> QED
    BY <1>3, <2>1, MadeOutput
<1>4. Gained(a, MilestoneMessage(i)) = {o \in DOMAIN Migrated(i) : Migrated(i)[o].address = a}
  BY <1>2, <1>3 DEF Gained
<1>5. Lost(a, MilestoneMessage(i)) = {}
  <2>1. \A o \in DOMAIN spents : SpendingMessage(o) \in TxMessages
    BY SpendingMessages
  <2>2. MilestoneMessage(i) \notin TxMessages
    BY <1>1, MilestoneNames
  <2> QED
    BY <2>1, <2>2 DEF Lost
<1> QED
  BY <1>2, <1>4, <1>5

Amounts(w) == \A o \in DOMAIN outputs : w[o] = outputs[o].amount

(* Outputs that move are stored, so what they are worth can be summed up.  *)
LEMMA MovedNumbers ==
    ASSUME TablesInv, AccountsInv, NEW S, S \subseteq DOMAIN outputs,
           NEW w, Amounts(w)
    PROVE  /\ IsFiniteSet(S) /\ (\A o \in S : w[o] \in Int)
           /\ Worth(S, outputs) = Total(w, S) /\ Total(w, S) \in Int
<1>1. IsFiniteSet(S)
  BY FS_Subset DEF AccountsInv, KindsInv
<1>2. \A o \in S : w[o] = outputs[o].amount /\ w[o] \in Int
  BY DEF Amounts, AccountsInv, KindsInv, OutputRows
<1>3. Worth(S, outputs) = Total(w, S)
  BY <1>1, <1>2, WorthTotal
<1>4. Total(w, S) \in Int
  BY <1>1, <1>2, TotalRules
<1> QED
  BY <1>1, <1>2, <1>3, <1>4

(* The change an item reports is what its message gave less what it took.  *)
LEMMA TransactionChange ==
    ASSUME TablesInv, AccountsInv, AtRest, NEW a, NEW m \in TxMessages, Included(m),
           NEW w, Amounts(w)
    PROVE  /\ HistoryItem(a, m).state = "included"
           /\ HistoryItem(a, m).change = Total(w, Gained(a, m)) - Total(w, Lost(a, m))
<1>1. m \in messages /\ m \in seen
  BY IncludedStored DEF Included
<1>2. /\ m \in DOMAIN metadata /\ ~IsMilestone(m) /\ metadata[m].index \in DOMAIN milestones
      /\ InclusionState(metadata[m]) = "included"
  BY <1>1, InclusionStates
<1>3. \A o \in Range_(Tx[m].inputs) : Found(o)
  BY DEF TablesInv, SpendingInv, OutputsInv, Found
<1>4. HistoryItem(a, m) = TransactionItem(a, m)
  BY <1>1, <1>2 DEF HistoryItem
<1>5. TransactionItem(a, m) = Item(m, InclusionState(metadata[m]), Change(a, m))
  BY <1>3 DEF TransactionItem
<1>6. HistoryItem(a, m).state = "included" /\ HistoryItem(a, m).change = Change(a, m)
  BY <1>2, <1>4, <1>5 DEF Item
<1>7. Change(a, m) = AmountTo(Tx[m].outputs, a) - Worth(Lost(a, m), outputs)
  BY TransactionMoves DEF Change
<1>8. Lost(a, m) \subseteq DOMAIN outputs
  BY DEF Lost, TablesInv, OutputsInv
<1>9. Worth(Lost(a, m), outputs) = Total(w, Lost(a, m))
  BY <1>8, MovedNumbers
<1>10. AmountTo(Tx[m].outputs, a) = Total(w, Gained(a, m))
  <2> PICK new : new = NewOutputs(m)
    OBVIOUS
  <2>1. new = Created(Tx[m].tx, Tx[m].outputs, m) /\ Tx[m].outputs \in Seq(Payment)
    BY UniverseAssumption DEF NewOutputs
  <2>2. /\ Gained(a, m) = {o \in DOMAIN new : new[o].address = a}
        /\ \A o \in DOMAIN new : o \in DOMAIN outputs /\ outputs[o] = new[o]
    BY TransactionMoves
  <2>3. \A o \in DOMAIN new : w[o] = new[o].amount
    BY <2>2 DEF Amounts
  <2>4. AmountTo(Tx[m].outputs, a) = Total(w, {o \in DOMAIN new : new[o].address = a})
    <3> PICK id, list : id = Tx[m].tx /\ list = Tx[m].outputs
      OBVIOUS
    <3>1. new = Created(id, list, m) /\ list \in Seq(Payment)
      BY <2>1
    <3>2. AmountTo(list, a) = Total(w, {o \in DOMAIN new : new[o].address = a})
      BY <2>3, <3>1, AmountCreated
    <3> QED
      BY <3>2
  <2> QED
    BY <2>2, <2>4
<1> QED
  BY <1>6, <1>7, <1>9, <1>10

LEMMA MilestoneChange ==
    ASSUME TablesInv, AccountsInv, AtRest, NEW a, NEW i \in Stored, Receipts[i] # <<>>,
           NEW w, Amounts(w),
           NEW m, m = MilestoneMessage(i)
    PROVE  /\ HistoryItem(a, m).state = "migrated"
           /\ HistoryItem(a, m).change = Total(w, Gained(a, m)) - Total(w, Lost(a, m))
<1>1. i \in 1..MaxIndex /\ m \in messages /\ i \in DOMAIN milestones
      /\ metadata[m] = Meta(i, "milestone", "none")
  BY MessageRows
<1>2. m \in DOMAIN metadata /\ metadata[m].index \in DOMAIN milestones
  BY <1>1, MetaFields DEF TablesInv, MessagesInv
<1>3. IsMilestone(m) /\ IndexOf(m) = i
  BY <1>1, MilestoneNames DEF IsMilestone, IndexOf
<1>4. HistoryItem(a, m) = MigrationItem(a, m)
  BY <1>1, <1>2, <1>3 DEF HistoryItem
<1>5. MigrationItem(a, m) = Item(m, "migrated", AmountTo(Receipts[i], a))
  BY <1>3 DEF MigrationItem
<1>6. HistoryItem(a, m).state = "migrated" /\ HistoryItem(a, m).change = AmountTo(Receipts[i], a)
  BY <1>4, <1>5 DEF Item
<1>7. Total(w, Lost(a, m)) = 0
  BY MilestoneMoves, FS_EmptySet, TotalZero
<1>8. AmountTo(Receipts[i], a) = Total(w, Gained(a, m))
  <2> PICK new : new = Migrated(i)
    OBVIOUS
  <2>1. new = Created(m, Receipts[i], m) /\ Receipts[i] \in Seq(Payment)
    BY <1>1, UniverseAssumption DEF Migrated
  <2>2. /\ Gained(a, m) = {o \in DOMAIN new : new[o].address = a}
        /\ \A o \in DOMAIN new : o \in DOMAIN outputs /\ outputs[o] = new[o]
    BY MilestoneMoves
  <2>3. \A o \in DOMAIN new : w[o] = new[o].amount
    BY <2>2 DEF Amounts
  <2>4. AmountTo(Receipts[i], a) = Total(w, {o \in DOMAIN new : new[o].address = a})
    BY <2>1, <2>3, AmountCreated
  <2> QED
    BY <2>2, <2>4
<1>9. Total(w, Gained(a, m)) \in Int
  BY MovedNumbers DEF Gained
<1> QED
  BY <1>6, <1>7, <1>8, <1>9

(* The item of a message that has been applied counts, one of another      *)
(* message conflicts or is skipped, and a message that is not listed gave  *)
(* the address nothing and took nothing from it. *)
LEMMA AppliedItem ==
    ASSUME TablesInv, AccountsInv, AtRest, NEW a, NEW m, m \in Movers, m \in HistoryMessages(a),
           NEW w, Amounts(w)
    PROVE  /\ HistoryItem(a, m).message = m
           /\ HistoryItem(a, m).state \in {"included", "migrated"}
           /\ HistoryItem(a, m).change = Total(w, Gained(a, m)) - Total(w, Lost(a, m))
<1>1. HistoryItem(a, m).message = m
  BY HistoryItems
<1>2. CASE m \in TxMessages /\ Included(m)
  BY <1>1, <1>2, TransactionChange
<1>3. CASE \E i \in Stored : m = MilestoneMessage(i)
  <2>1. PICK i \in Stored : m = MilestoneMessage(i)
    BY <1>3
  <2>2. m \in messages /\ i \in 1..MaxIndex
    BY <2>1, MessageRows
  <2>3. m \notin TxMessages /\ \A j : m = MilestoneMessage(j) => j = i
    BY <2>1, <2>2, MilestoneNames
  <2>4. Receipts[i] # <<>>
    BY <2>2, <2>3, ListedMessages
  <2> QED
    BY <1>1, <2>1, <2>4, MilestoneChange
<1> QED
  BY <1>2, <1>3 DEF Movers

LEMMA OtherItem ==
    ASSUME TablesInv, AccountsInv, AtRest, NEW a, NEW m, m \notin Movers, m \in HistoryMessages(a)
    PROVE  HistoryItem(a, m).state \in {"skipped", "conflicting"}
<1>1. CASE m \notin messages
  BY <1>1, ListedMessages, MissingItem
<1>2. CASE m \in messages /\ m \in TxMessages /\ m \in seen
  <2>1. ~Included(m)
    BY <1>2 DEF Movers
  <2>2. InclusionState(metadata[m]) = "conflicting"
    BY <1>2, <2>1, InclusionStates
  <2> QED
    BY <1>2, <2>2, TransactionHistoryItem
<1>3. ASSUME NEW i \in 1..MaxIndex, m = MilestoneMessage(i), m \in messages PROVE FALSE
  <2>1. i \in Stored
    BY <1>3, MessageRows
  <2> QED
    BY <1>3, <2>1 DEF Movers
<1> QED
  BY <1>1, <1>2, <1>3, ListedMessages

LEMMA UnlistedMoves ==
    ASSUME TablesInv, NEW a, NEW m, m \notin HistoryMessages(a)
    PROVE  Gained(a, m) = {} /\ Lost(a, m) = {}
<1>1. DOMAIN outputs = unspent \cup DOMAIN spents
  BY DEF TablesInv, OutputsInv
<1>2. ASSUME NEW o \in Gained(a, m) PROVE FALSE
  <2>1. o \in UnspentOutputs(a) \cup SpentOutputs(a) /\ outputs[o].message = m
    BY <1>1 DEF Gained, UnspentOutputs, SpentOutputs
  <2> QED
    BY <2>1 DEF HistoryMessages
<1>3. ASSUME NEW o \in Lost(a, m) PROVE FALSE
  <2>1. o \in SpentOutputs(a) /\ SpendingMessage(o) = m
    BY DEF Lost, SpentOutputs
  <2> QED
    BY <2>1 DEF HistoryMessages
<1> QED
  BY <1>2, <1>3

LEMMA ListedItems ==
    ASSUME TablesInv, AccountsInv, AtRest, NEW a, NEW L, L = Movers \cap HistoryMessages(a),
           NEW h, \A m \in L : h[m] = HistoryItem(a, m)
    PROVE  Renames(h, L, {x \in History(a) : x.state # "conflicting"})
<1> PICK applied : applied = {x \in History(a) : x.state # "conflicting"}
  OBVIOUS
<1> PICK w : Amounts(w)
  <2> PICK w : w = [o \in DOMAIN outputs |-> outputs[o].amount]
    OBVIOUS
  <2> QED
    BY DEF Amounts
<1>1. ASSUME NEW m \in L
      PROVE  /\ h[m].message = m /\ h[m] \in applied
  <2>1. HistoryItem(a, m).message = m /\ HistoryItem(a, m).state \in {"included", "migrated"}
    BY AppliedItem
  <2> QED
    BY <2>1 DEF History, Items
<1>2. ASSUME NEW x \in applied PROVE \E m \in L : x = h[m]
  <2>1. PICK m \in HistoryMessages(a) : x = HistoryItem(a, m)
    BY DEF History, Items
  <2>2. x.state \notin {"skipped", "conflicting"}
    BY DEF History
  <2>3. m \in L
    BY <2>1, <2>2, OtherItem
  <2> QED
    BY <2>1, <2>3
<1>3. Renames(h, L, applied)
  BY <1>1, <1>2 DEF Renames
<1> QED
  BY <1>3

(* Changes whose gains and losses are groups of two sets of outputs.       *)
Numbers(w, S) == \A o \in S : w[o] \in Int
Nets(c, w, gain, loss, M) == \A m \in M : c[m] = Total(w, gain[m]) - Total(w, loss[m])

LEMMA MovesAddUp ==
    ASSUME NEW M, IsFiniteSet(M), NEW w, NEW G, NEW H, Numbers(w, G), Numbers(w, H),
           NEW gain, Groups(gain, M, G), NEW loss, Groups(loss, M, H),
           NEW c, Nets(c, w, gain, loss, M)
    PROVE  /\ \A m \in M : c[m] \in Int
           /\ Total(w, G) \in Int /\ Total(w, H) \in Int
           /\ Total(c, M) = Total(w, G) - Total(w, H)
<1> PICK p, q : \A m \in M : p[m] = Total(w, gain[m]) /\ q[m] = Total(w, loss[m])
  <2> PICK p, q : p = [m \in M |-> Total(w, gain[m])] /\ q = [m \in M |-> Total(w, loss[m])]
    OBVIOUS
  <2> QED
    OBVIOUS
<1>1. ASSUME NEW m \in M PROVE p[m] \in Int /\ q[m] \in Int
  <2> PICK A, B : A = gain[m] /\ B = loss[m]
    OBVIOUS
  <2>1. /\ IsFiniteSet(A) /\ (\A o \in A : w[o] \in Int)
        /\ IsFiniteSet(B) /\ (\A o \in B : w[o] \in Int)
    BY DEF Groups, Numbers
  <2>2. Total(w, A) \in Int /\ Total(w, B) \in Int
    BY <2>1, TotalRules
  <2> QED
    BY <2>2
<1>2. Total(w, G) = Total(p, M)
  BY TotalGroups DEF Numbers
<1>3. Total(w, H) = Total(q, M)
  BY TotalGroups DEF Numbers
<1>4. \A m \in M : p[m] \in Int /\ q[m] \in Int /\ c[m] = p[m] - q[m] /\ c[m] \in Int
  BY <1>1 DEF Nets
<1>5. Total(c, M) = Total(p, M) - Total(q, M)
  BY <1>4, TotalMinus
<1>6. Total(p, M) \in Int /\ Total(q, M) \in Int
  BY <1>4, TotalRules
<1> QED
  BY <1>2, <1>3, <1>4, <1>5, <1>6

(* The items of those messages whose changes are not all zero. *)
LEMMA ItemsAddUp ==
    ASSUME NEW M, IsFiniteSet(M), NEW c, \A m \in M : c[m] \in Int,
           NEW L, L \subseteq M, \A m \in M \ L : c[m] = 0,
           NEW h, NEW items, Renames(h, L, items), \A m \in L : h[m].change = c[m]
    PROVE  Changes(items) = Total(c, M)
<1> PICK rest : rest = M \ L
  OBVIOUS
<1>1. IsFiniteSet(L) /\ IsFiniteSet(rest)
  BY FS_Subset
<1>2. Total(c, M) = Total(c, L) + Total(c, rest)
  BY TotalSplit
<1>3. Total(c, rest) = 0
  BY <1>1, TotalZero
<1>4. Total(c, L) \in Int
  BY <1>1, TotalRules
<1> PICK v : \A x \in items : v[x] = x.change
  <2> PICK v : v = [x \in items |-> x.change]
    OBVIOUS
  <2> QED
    OBVIOUS
<1>5. \A m \in L : c[m] \in Int /\ v[h[m]] = c[m]
  BY DEF Renames
<1>6. IsFiniteSet(items) /\ Total(v, items) = Total(c, L)
  BY <1>1, <1>5, TotalRenamed
<1>7. Changes(items) = Total(v, items)
  BY <1>6, ChangesTotal
<1> QED
  BY <1>2, <1>3, <1>4, <1>6, <1>7

(* What the applied messages gave an address and took from it is what was  *)
(* made for it since the pruning index and what was spent of it. *)
LEMMA MoversFinite ==
    ASSUME TablesInv, AccountsInv, AtRest PROVE IsFiniteSet(Movers)
<1>1. Movers \subseteq messages
  BY MessageRows DEF Movers, Included
<1> QED
  BY <1>1, FS_Subset DEF AccountsInv, KindsInv

LEMMA GainGroups ==
    ASSUME TablesInv, AccountsInv, AtRest, NEW a,
           NEW gain, \A m \in Movers : gain[m] = Gained(a, m)
    PROVE  Groups(gain, Movers, Owned(DOMAIN outputs \ DOMAIN opening, outputs, a))
<1> PICK since : since = Owned(DOMAIN outputs \ DOMAIN opening, outputs, a)
  OBVIOUS
<1>1. \A m \in Movers : gain[m] \subseteq DOMAIN outputs
  BY DEF Gained
<1>2. \A m \in Movers : IsFiniteSet(gain[m])
  BY <1>1, FS_Subset DEF AccountsInv, KindsInv
<1>3. \A o : o \in since <=> \E m \in Movers : o \in gain[m]
  <2>1. ASSUME NEW o \in since PROVE \E m \in Movers : o \in Gained(a, m)
    <3>1. o \in DOMAIN outputs \ DOMAIN opening /\ outputs[o].address = a
      BY DEF Owned
    <3>2. outputs[o].message \in Movers
      BY <3>1, MadeOutput DEF Movers
    <3> QED
      BY <3>1, <3>2 DEF Gained
  <2>2. \A m, o : o \in Gained(a, m) => o \in since
    BY DEF Gained, Owned
  <2> QED
    BY <2>1, <2>2
<1>4. \A m, n \in Movers : m # n => gain[m] \cap gain[n] = {}
  BY DEF Gained
<1> QED
  BY <1>2, <1>3, <1>4 DEF Groups

LEMMA LossGroups ==
    ASSUME TablesInv, AccountsInv, AtRest, NEW a,
           NEW loss, \A m \in Movers : loss[m] = Lost(a, m)
    PROVE  Groups(loss, Movers, Owned(DOMAIN spents, outputs, a))
<1> PICK spent : spent = Owned(DOMAIN spents, outputs, a)
  OBVIOUS
<1>1. \A m \in Movers : loss[m] \subseteq DOMAIN outputs
  BY DEF Lost, TablesInv, OutputsInv
<1>2. \A m \in Movers : IsFiniteSet(loss[m])
  BY <1>1, FS_Subset DEF AccountsInv, KindsInv
<1>3. \A o : o \in spent <=> \E m \in Movers : o \in loss[m]
  <2>1. ASSUME NEW o \in spent PROVE \E m \in Movers : o \in Lost(a, m)
    <3>1. o \in DOMAIN spents /\ outputs[o].address = a
      BY DEF Owned
    <3>2. SpendingMessage(o) \in Movers
      BY <3>1, SpendingMessages DEF Movers
    <3> QED
      BY <3>1, <3>2 DEF Lost
  <2>2. \A m, o : o \in Lost(a, m) => o \in spent
    BY DEF Lost, Owned
  <2> QED
    BY <2>1, <2>2
<1>4. \A m, n \in Movers : m # n => loss[m] \cap loss[n] = {}
  BY DEF Lost
<1> QED
  BY <1>2, <1>3, <1>4 DEF Groups

(* So the changes that are listed are what was made less what was spent.   *)
LEMMA ListedChanges ==
    ASSUME TablesInv, AccountsInv, AtRest, NEW a, NEW w, Amounts(w),
           NEW since, since = Owned(DOMAIN outputs \ DOMAIN opening, outputs, a),
           NEW spent, spent = Owned(DOMAIN spents, outputs, a),
           NEW applied, applied = {x \in History(a) : x.state # "conflicting"}
    PROVE  Changes(applied) = Total(w, since) - Total(w, spent)
<1> PICK gain, loss :
      (\A m \in Movers : gain[m] = Gained(a, m)) /\ (\A m \in Movers : loss[m] = Lost(a, m))
  <2> PICK gain, loss : gain = [m \in Movers |-> Gained(a, m)] /\ loss = [m \in Movers |-> Lost(a, m)]
    OBVIOUS
  <2> QED
    OBVIOUS
<1> PICK c : Nets(c, w, gain, loss, Movers)
  <2> PICK c : c = [m \in Movers |-> Total(w, gain[m]) - Total(w, loss[m])]
    OBVIOUS
  <2> QED
    BY DEF Nets
<1>1. IsFiniteSet(Movers) /\ Groups(gain, Movers, since) /\ Groups(loss, Movers, spent)
  BY MoversFinite, GainGroups, LossGroups
<1>2. /\ \A m \in Movers : c[m] \in Int
      /\ Total(c, Movers) = Total(w, since) - Total(w, spent)
  <2>1. since \subseteq DOMAIN outputs /\ spent \subseteq DOMAIN outputs
    BY DEF Owned, TablesInv, OutputsInv
  <2>2. Numbers(w, since) /\ Numbers(w, spent)
    BY <2>1, MovedNumbers DEF Numbers
  <2> QED
    BY <1>1, <2>2, MovesAddUp
<1> PICK L : L = Movers \cap HistoryMessages(a)
  OBVIOUS
<1> PICK h : \A m \in L : h[m] = HistoryItem(a, m)
  <2> PICK h : h = [m \in L |-> HistoryItem(a, m)]
    OBVIOUS
  <2> QED
    OBVIOUS
<1>3. Renames(h, L, applied)
  BY ListedItems
<1>4. ASSUME NEW m \in L PROVE h[m].change = c[m]
  <2>1. h[m].change = Total(w, Gained(a, m)) - Total(w, Lost(a, m))
    BY AppliedItem
  <2> QED
    BY <2>1 DEF Nets
<1>5. ASSUME NEW m \in Movers \ L PROVE c[m] = 0
  <2> PICK none : none = {}
    OBVIOUS
  <2>1. Total(w, none) = 0
    BY FS_EmptySet, TotalZero
  <2>2. gain[m] = none /\ loss[m] = none
    BY UnlistedMoves
  <2>3. c[m] = Total(w, none) - Total(w, none)
    BY <2>2 DEF Nets
  <2> QED
    BY <2>1, <2>3
<1>6. Changes(applied) = Total(c, Movers)
  <2>1. L \subseteq Movers
    OBVIOUS
  <2> QED
    BY <1>1, <1>2, <1>3, <1>4, <1>5, <2>1, ItemsAddUp
<1> QED
  BY <1>2, <1>6

LEMMA ExplainsStep == TablesInv /\ AccountsInv => HistoryExplainsBalance
<1> SUFFICES ASSUME TablesInv, AccountsInv, AtRest, NEW a \in Addresses
             PROVE  AddressBalance(a).balance =
                      Worth(Owned(DOMAIN opening, opening, a), opening)
                        + Changes({x \in History(a) : x.state # "conflicting"})
  BY DEF HistoryExplainsBalance
<1> PICK w : Amounts(w)
  <2> PICK w : w = [o \in DOMAIN outputs |-> outputs[o].amount]
    OBVIOUS
  <2> QED
    BY DEF Amounts
<1> PICK own, spent, before, since :
      /\ own = Owned(unspent, outputs, a)
      /\ spent = Owned(DOMAIN spents, outputs, a)
      /\ before = Owned(DOMAIN opening, outputs, a)
      /\ since = Owned(DOMAIN outputs \ DOMAIN opening, outputs, a)
  OBVIOUS
<1>1. /\ DOMAIN outputs = unspent \cup DOMAIN spents /\ unspent \cap DOMAIN spents = {}
      /\ DOMAIN opening \subseteq DOMAIN outputs
  BY DEF TablesInv, OutputsInv
<1>2. /\ own \cup spent = before \cup since
      /\ own \cap spent = {} /\ before \cap since = {}
      /\ own \subseteq DOMAIN outputs /\ spent \subseteq DOMAIN outputs
      /\ before \subseteq DOMAIN outputs /\ since \subseteq DOMAIN outputs
  BY <1>1 DEF Owned
<1>3. /\ IsFiniteSet(own) /\ IsFiniteSet(spent) /\ IsFiniteSet(before) /\ IsFiniteSet(since)
      /\ Total(w, own) \in Int /\ Total(w, spent) \in Int
      /\ Total(w, before) \in Int /\ Total(w, since) \in Int
      /\ Worth(own, outputs) = Total(w, own)
  BY <1>2, MovedNumbers
<1>4. AddressBalance(a).balance = Total(w, own)
  <2>1. readBalanceForAddress(a) = Sums(own, outputs)
    BY DEF AccountsInv, BalancesInv
  <2>2. AddressBalance(a).balance = Worth(own, outputs)
    BY <2>1 DEF AddressBalance, Sums
  <2> QED
    BY <1>3, <2>2
<1>5. Worth(Owned(DOMAIN opening, opening, a), opening) = Total(w, before)
  <2>1. \A o \in DOMAIN opening :
           opening[o].address = outputs[o].address /\ w[o] = opening[o].amount
    BY <1>1 DEF Amounts, AccountsInv, OpeningInv
  <2>2. Owned(DOMAIN opening, opening, a) = before
    BY <2>1 DEF Owned
  <2>3. \A o \in before : w[o] = opening[o].amount
    BY <2>1 DEF Owned
  <2>4. Worth(before, opening) = Total(w, before)
    BY <1>3, <2>3, WorthTotal
  <2> QED
    BY <2>2, <2>4
<1>6. Total(w, own) + Total(w, spent) = Total(w, before) + Total(w, since)
  <2>1. /\ \A o \in own \cup spent : w[o] \in Int
        /\ \A o \in before \cup since : w[o] \in Int
    <3>1. \A o \in DOMAIN outputs : w[o] \in Int
      BY DEF Amounts, AccountsInv, KindsInv, OutputRows
    <3> QED
      BY <1>2, <3>1
  <2>2. Total(w, own \cup spent) = Total(w, own) + Total(w, spent)
    BY <1>2, <1>3, <2>1, TotalDisjoint
  <2>3. Total(w, before \cup since) = Total(w, before) + Total(w, since)
    BY <1>2, <1>3, <2>1, TotalDisjoint
  <2> QED
    BY <1>2, <2>2, <2>3
<1>7. Changes({x \in History(a) : x.state # "conflicting"}) = Total(w, since) - Total(w, spent)
  <2> PICK applied : applied = {x \in History(a) : x.state # "conflicting"}
    OBVIOUS
  <2>1. Changes(applied) = Total(w, since) - Total(w, spent)
    BY ListedChanges
  <2> QED
    BY <2>1
<1> QED
  BY <1>3, <1>4, <1>5, <1>6, <1>7

(* What an address owned at the pruning index and the changes its history  *)
(* lists, but for the conflicting ones, add up to its balance.             *)
THEOREM Explains == Spec => []HistoryExplainsBalance
BY Tables, Accounts, ExplainsStep, PTL
=============================================================================
