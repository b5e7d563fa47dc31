---------------------------- MODULE LedgerProofs ----------------------------
(***************************************************************************)
(* Proofs about the tables of the legacy node and the queries over them,   *)
(* for any messages, transactions and receipts and any number of           *)
(* milestones.                                                             *)
(***************************************************************************)
EXTENDS LedgerInvariant, TLAPS

-----------------------------------------------------------------------------
(* Names of messages and outputs. *)
LEMMA MilestoneNames ==
    /\ \A i, j : MilestoneMessage(i) = MilestoneMessage(j) => i = j
    /\ \A i \in 1..MaxIndex :
          MilestoneMessage(i) \notin TxMessages /\ MilestoneMessage(i) # NoMessage
<1>1. \A i : MilestoneMessage(i) = <<"milestone", i>>
  BY DEF MilestoneMessage
<1>2. \A i : <<"milestone", i>> # <<"none">>
  OBVIOUS
<1> QED
  BY <1>1, <1>2, IdentityAssumption DEF NoMessage

LEMMA CreatedRows ==
    ASSUME NEW id, NEW list, NEW message
    PROVE  /\ DOMAIN Created(id, list, message) = Names(id, list)
           /\ \A o \in Names(id, list) :
                /\ o[1] = id
                /\ Created(id, list, message)[o].message = message
                /\ \E k \in 0..Len(list) - 1 : o = <<id, k>>
<1>1. /\ DOMAIN Created(id, list, message) = Names(id, list)
      /\ \A o \in Names(id, list) : Created(id, list, message)[o].message = message
  BY DEF Created
<1>2. ASSUME NEW o \in Names(id, list)
      PROVE  o[1] = id /\ \E k \in 0..Len(list) - 1 : o = <<id, k>>
  <2>1. PICK k \in 0..Len(list) - 1 : o = <<id, k>>
    BY DEF Names
  <2> QED
    BY <2>1
<1> QED
  BY <1>1, <1>2

LEMMA TransactionOutputs ==
    ASSUME NEW m \in TxMessages
    PROVE  /\ DOMAIN NewOutputs(m) = Names(Tx[m].tx, Tx[m].outputs)
           /\ <<Tx[m].tx, 0>> \in DOMAIN NewOutputs(m)
           /\ \A o \in DOMAIN NewOutputs(m) : NewOutputs(m)[o].message = m /\ o[1] = Tx[m].tx
           /\ \E o : o \in Range_(Tx[m].inputs)
<1>1. Tx[m].outputs \in Seq(Payment) /\ Len(Tx[m].outputs) > 0
  BY UniverseAssumption
<1>2. 0 \in 0..Len(Tx[m].outputs) - 1
  BY <1>1
<1>3. <<Tx[m].tx, 0>> \in Names(Tx[m].tx, Tx[m].outputs)
  BY <1>2 DEF Names
<1>4. Tx[m].inputs \in Seq(Range_(Tx[m].inputs)) /\ Len(Tx[m].inputs) > 0
  BY UniverseAssumption
<1>5. 1 \in DOMAIN Tx[m].inputs
  BY <1>4
<1>6. Tx[m].inputs[1] \in Range_(Tx[m].inputs)
  BY <1>5 DEF Range_
<1>7. NewOutputs(m) = Created(Tx[m].tx, Tx[m].outputs, m)
  BY DEF NewOutputs
<1> QED
  BY <1>3, <1>6, <1>7, CreatedRows

LEMMA MigratedOutputs ==
    ASSUME NEW i \in 1..MaxIndex
    PROVE  /\ DOMAIN Migrated(i) = Names(MilestoneMessage(i), Receipts[i])
           /\ \A o \in DOMAIN Migrated(i) :
                /\ Migrated(i)[o].message = MilestoneMessage(i)
                /\ o[1] = MilestoneMessage(i) /\ Receipts[i] # <<>>
<1>1. Receipts[i] = <<>> => 0..Len(Receipts[i]) - 1 = {}
  OBVIOUS
<1>2. Migrated(i) = Created(MilestoneMessage(i), Receipts[i], MilestoneMessage(i))
  BY DEF Migrated
<1> QED
  BY <1>1, <1>2, CreatedRows

LEMMA OutputNames ==
    /\ \A m \in TxMessages : DOMAIN NewOutputs(m) \cap DOMAIN Genesis = {}
    /\ \A i \in 1..MaxIndex : DOMAIN Migrated(i) \cap DOMAIN Genesis = {}
    /\ \A m \in TxMessages : \A i \in 1..MaxIndex :
          DOMAIN Migrated(i) \cap DOMAIN NewOutputs(m) = {}
    /\ \A m, n \in TxMessages :
          DOMAIN NewOutputs(n) \cap DOMAIN NewOutputs(m) # {} => Tx[n] = Tx[m]
    /\ \A i, j \in 1..MaxIndex : DOMAIN Migrated(j) \cap DOMAIN Migrated(i) # {} => i = j
<1>1. \A m \in TxMessages : DOMAIN NewOutputs(m) \cap DOMAIN Genesis = {}
  <2> TAKE m \in TxMessages
  <2>1. DOMAIN Genesis \cap Names(Tx[m].tx, Tx[m].outputs) = {}
    BY IdentityAssumption
  <2> QED
    BY <2>1, TransactionOutputs
<1>2. \A i \in 1..MaxIndex : DOMAIN Migrated(i) \cap DOMAIN Genesis = {}
  BY MigratedOutputs, IdentityAssumption
<1>3. \A m \in TxMessages : \A i \in 1..MaxIndex :
        DOMAIN Migrated(i) \cap DOMAIN NewOutputs(m) = {}
  <2> SUFFICES ASSUME NEW m \in TxMessages, NEW i \in 1..MaxIndex,
                      NEW o \in DOMAIN Migrated(i), o \in DOMAIN NewOutputs(m)
               PROVE  FALSE
    OBVIOUS
  <2>1. o[1] = MilestoneMessage(i)
    BY MigratedOutputs
  <2>2. o[1] = Tx[m].tx
    BY TransactionOutputs
  <2> QED
    BY <2>1, <2>2, IdentityAssumption
<1>4. \A m, n \in TxMessages :
        DOMAIN NewOutputs(n) \cap DOMAIN NewOutputs(m) # {} => Tx[n] = Tx[m]
  <2> SUFFICES ASSUME NEW m \in TxMessages, NEW n \in TxMessages,
                      NEW o \in DOMAIN NewOutputs(n), o \in DOMAIN NewOutputs(m)
               PROVE  Tx[n] = Tx[m]
    OBVIOUS
  <2>1. o[1] = Tx[m].tx
    BY TransactionOutputs
  <2>2. o[1] = Tx[n].tx
    BY TransactionOutputs
  <2> QED
    BY <2>1, <2>2, IdentityAssumption
<1>5. \A i, j \in 1..MaxIndex : DOMAIN Migrated(j) \cap DOMAIN Migrated(i) # {} => i = j
  <2> SUFFICES ASSUME NEW i \in 1..MaxIndex, NEW j \in 1..MaxIndex,
                      NEW o \in DOMAIN Migrated(j), o \in DOMAIN Migrated(i)
               PROVE  i = j
    OBVIOUS
  <2>1. o[1] = MilestoneMessage(i) /\ o[1] = MilestoneMessage(j)
    BY MigratedOutputs
  <2> QED
    BY <2>1, MilestoneNames
<1> QED
  BY <1>1, <1>2, <1>3, <1>4, <1>5

LEMMA MetaFields ==
    \A i, kind, c :
        /\ Meta(i, kind, c).index = i /\ Meta(i, kind, c).conflict = c
        /\ Meta(i, kind, c).referenced <=> i > 0
        /\ Meta(i, kind, c).noTx <=> kind # "transaction"
        /\ Meta(i, kind, c).milestone <=> kind = "milestone"
        /\ Meta(i, kind, c).conflicting <=> c # "none"
BY DEF Meta

-----------------------------------------------------------------------------
(* The invariant of the tables holds at first. *)

LEMMA InitTables == Init => TablesInv
<1> SUFFICES ASSUME Init PROVE TablesInv
  OBVIOUS
<1>1. MilestonesInv /\ Stored = {} /\ Reached = 0
  <2>1. ledger = 0 /\ pruned = 0 /\ writing = FALSE /\ MaxIndex \in Nat
    BY UniverseAssumption DEF Init
  <2>2. Reached = 0
    BY <2>1 DEF Reached
  <2>3. Stored = {}
    <3>1. pruned = 0
      BY <2>1
    <3> QED
      BY <2>2, <3>1 DEF Stored
  <2>4. ledger \in 0..MaxIndex /\ pruned \in 0..ledger
    <3>1. ledger = 0 /\ pruned = 0 /\ MaxIndex \in Nat
      BY <2>1
    <3> QED
      BY <3>1
  <2>5. writing \in BOOLEAN /\ ~writing
    BY <2>1, Zenon
  <2> QED
    BY <2>2, <2>3, <2>4, <2>5, Zenon DEF MilestonesInv
<1> USE UniverseAssumption DEF Init
<1>2. MessagesInv
  <2>1. DOMAIN metadata = {} /\ DOMAIN milestones = {} /\ pruned + 1..ledger = {}
    OBVIOUS
  <2> QED
    BY <2>1 DEF MessagesInv
<1>3. OutputsInv
  <2>1. DOMAIN spents = {} /\ DOMAIN diffs = {}
    OBVIOUS
  <2> QED
    BY <1>1, <2>1 DEF OutputsInv
<1>4. MadeInv
  BY OutputNames DEF MadeInv
<1>5. OriginInv
  BY DEF OriginInv, FromSnapshot
<1>6. SpendingInv
  <2>1. DOMAIN spents = {} /\ \A m : ~Included(m)
    BY DEF Included
  <2> QED
    BY <2>1 DEF SpendingInv
<1>7. TreasuryInv
  <2>1. Migrations = {}
    BY DEF Migrations
  <2>2. 0 \in 0..ledger
    OBVIOUS
  <2> QED
    BY <2>1, <2>2 DEF TreasuryInv, FirstTreasury
<1> QED
  BY <1>1, <1>2, <1>3, <1>4, <1>5, <1>6, <1>7 DEF TablesInv

-----------------------------------------------------------------------------
(* A message is stored. *)

LEMMA AttachTables == ASSUME TablesInv, NEW m \in TxMessages, Attach(m) PROVE TablesInv'
<1>1. /\ ~writing /\ m \notin messages /\ m \notin seen
      /\ messages' = messages \cup {m}
      /\ metadata' = Put(metadata, m, Meta(0, "transaction", "none"))
      /\ UNCHANGED <<ledger, pruned, writing, outputs, unspent, spents, balances, diffs,
                     treasury, milestones, seen, made, opening>>
  BY DEF Attach
<1>2. MilestonesInv' /\ Reached' = Reached /\ Stored' = Stored
  BY <1>1 DEF TablesInv, MilestonesInv, Reached, Stored
<1>3. OutputsInv' /\ MadeInv' /\ TreasuryInv'
  BY <1>1, <1>2 DEF TablesInv, OutputsInv, MadeInv, TreasuryInv, Migrations, Hands
<1>4. /\ DOMAIN metadata' = DOMAIN metadata \cup {m}
      /\ metadata'[m] = Meta(0, "transaction", "none")
      /\ \A n \in DOMAIN metadata \ {m} : metadata'[n] = metadata[n]
  BY <1>1 DEF Put
<1>5. MessagesInv'
  <2>1. m \in AllMessages /\ \A i \in 1..MaxIndex : m # MilestoneMessage(i)
    BY MilestoneNames DEF AllMessages
  <2>2. DOMAIN milestones \subseteq 1..MaxIndex
    BY UniverseAssumption DEF TablesInv, MilestonesInv, MessagesInv
  <2>3. \A i \in DOMAIN milestones : MilestoneMessage(i) \in DOMAIN metadata \ {m}
    BY <2>1, <2>2 DEF TablesInv, MessagesInv
  <2> QED
    BY <1>1, <1>2, <1>4, <2>1, <2>2, <2>3 DEF TablesInv, MessagesInv
<1>6. ~Included(m)' /\ ~Included(m)
  BY <1>1, <1>4, MetaFields DEF Included
<1>7. \A n \in TxMessages \ {m} :
        (Included(n)' <=> Included(n)) /\ (Included(n) => metadata'[n] = metadata[n])
  BY <1>1, <1>4 DEF TablesInv, MessagesInv, Included
<1>8. OriginInv'
  BY <1>1, <1>6, <1>7 DEF TablesInv, OriginInv, FromSnapshot, FromTransaction, FromReceipt
<1>9. SpendingInv'
  BY <1>1, <1>6, <1>7 DEF TablesInv, SpendingInv, SpentBy
<1> QED
  BY <1>2, <1>3, <1>5, <1>8, <1>9 DEF TablesInv

-----------------------------------------------------------------------------
(* A message is referenced by the milestone that is being applied. *)

(* The diff of that milestone so far. *)
LEMMA Current ==
    ASSUME TablesInv, ledger < MaxIndex
    PROVE  /\ ledger \in Nat /\ pruned \in Nat /\ pruned <= ledger /\ MaxIndex \in Nat
           /\ Stored \subseteq 1..ledger + 1
           /\ Stored \cup {ledger + 1} = pruned + 1..ledger + 1
           /\ ledger + 1 \in Stored => writing /\ CurrentDiff = diffs[ledger + 1]
           /\ ledger + 1 \notin Stored => ~writing /\ CurrentDiff = NoDiff
<1>1. /\ ledger \in Nat /\ pruned \in Nat /\ pruned <= ledger /\ MaxIndex \in Nat
      /\ writing \in BOOLEAN
  BY UniverseAssumption DEF TablesInv, MilestonesInv
<1>2. CASE writing
  <2>1. Stored = pruned + 1..ledger + 1
    BY <1>1, <1>2 DEF Stored, Reached
  <2> QED
    BY <1>1, <1>2, <2>1 DEF CurrentDiff
<1>3. CASE ~writing
  <2>1. Stored = pruned + 1..ledger
    BY <1>1, <1>3 DEF Stored, Reached
  <2> QED
    BY <1>1, <1>3, <2>1 DEF CurrentDiff
<1> QED
  BY <1>1, <1>2, <1>3

LEMMA CurrentRow ==
    ASSUME TablesInv, ledger < MaxIndex
    PROVE  /\ DOMAIN CurrentDiff = {"created", "consumed", "treasury"}
           /\ CurrentDiff.treasury = <<>> /\ ledger + 1 \notin Migrations
           /\ CurrentDiff.consumed = {o \in DOMAIN spents : spents[o].index = ledger + 1}
           /\ CurrentDiff.created \subseteq DOMAIN outputs
           /\ \A o \in CurrentDiff.created \cap DOMAIN spents : spents[o].index >= ledger + 1
<1>1. ledger + 1 \notin Migrations
  <2>1. PICK t \in 0..ledger : \A i \in Migrations \ {t} : i \in treasury.spent
    BY DEF TablesInv, TreasuryInv
  <2>2. treasury.spent \subseteq 0..ledger
    BY DEF TablesInv, TreasuryInv
  <2> QED
    BY <2>1, <2>2, Current
<1>2. CASE ledger + 1 \in Stored
  <2>1. CurrentDiff = diffs[ledger + 1]
    BY <1>2, Current
  <2>2. diffs[ledger + 1].treasury = <<>>
    BY <1>1, <1>2 DEF TablesInv, OutputsInv, Migrations
  <2> QED
    BY <1>1, <1>2, <2>1, <2>2 DEF TablesInv, OutputsInv
<1>3. CASE ledger + 1 \notin Stored
  <2>1. CurrentDiff = [created |-> {}, consumed |-> {}, treasury |-> <<>>]
    BY <1>3, Current DEF NoDiff
  <2>2. {o \in DOMAIN spents : spents[o].index = ledger + 1} = {}
    BY <1>3 DEF TablesInv, OutputsInv
  <2> QED
    BY <1>1, <2>1, <2>2
<1> QED
  BY <1>2, <1>3

(* A row is put into the table of diffs. *)
LEMMA DiffRow ==
    ASSUME TablesInv, NEW i, NEW row, diffs' = Put(diffs, i, row)
    PROVE  /\ DOMAIN diffs' = Stored \cup {i}
           /\ diffs'[i] = row
           /\ \A j \in Stored \ {i} : diffs'[j] = diffs[j]
BY DEF TablesInv, OutputsInv, Put

(* Outputs are taken away and others added. *)
LEMMA ApplyRows ==
    ASSUME TablesInv, NEW consumed, NEW created, NEW by, Apply(consumed, created, by),
           consumed \subseteq unspent, DOMAIN created \cap made = {}
    PROVE  /\ DOMAIN outputs' = DOMAIN outputs \cup DOMAIN created
           /\ \A o \in DOMAIN outputs : outputs'[o] = outputs[o]
           /\ \A o \in DOMAIN created : outputs'[o] = created[o]
           /\ DOMAIN spents' = DOMAIN spents \cup consumed
           /\ \A o \in DOMAIN spents : spents'[o] = spents[o]
           /\ \A o \in consumed : spents'[o].tx = by /\ spents'[o].index = ledger + 1
           /\ unspent' = (unspent \ consumed) \cup DOMAIN created
           /\ made' = made \cup DOMAIN created
<1>1. DOMAIN created \cap DOMAIN outputs = {}
  BY DEF TablesInv, MadeInv
<1>2. consumed \cap DOMAIN spents = {}
  BY DEF TablesInv, OutputsInv
<1> QED
  BY <1>1, <1>2 DEF Apply, Added

LEMMA ApplyOutputs ==
    ASSUME TablesInv, ledger < MaxIndex,
           NEW consumed, NEW created, NEW by, Apply(consumed, created, by),
           consumed \subseteq unspent, DOMAIN created \cap made = {},
           NEW row, diffs' = Put(diffs, ledger + 1, row),
           DOMAIN row = {"created", "consumed", "treasury"},
           row.created = CurrentDiff.created \cup DOMAIN created,
           row.consumed = CurrentDiff.consumed \cup consumed,
           Stored' = Stored \cup {ledger + 1}, opening' = opening
    PROVE  OutputsInv'
<1> DEFINE N == ledger + 1
<1>1. /\ DOMAIN diffs' = Stored' /\ diffs'[N] = row
      /\ \A j \in Stored \ {N} : diffs'[j] = diffs[j]
  BY DiffRow
<1>2. /\ DOMAIN outputs' = DOMAIN outputs \cup DOMAIN created
      /\ DOMAIN spents' = DOMAIN spents \cup consumed
      /\ \A o \in DOMAIN spents : spents'[o] = spents[o]
      /\ \A o \in consumed : spents'[o].index = N
      /\ unspent' = (unspent \ consumed) \cup DOMAIN created
  BY ApplyRows
<1>3. DOMAIN created \cap DOMAIN outputs = {}
  BY DEF TablesInv, MadeInv
<1>4. /\ DOMAIN outputs = unspent \cup DOMAIN spents /\ unspent \cap DOMAIN spents = {}
      /\ \A o \in DOMAIN spents : spents[o].index \in Stored
      /\ DOMAIN opening \subseteq DOMAIN outputs
      /\ \A o \in DOMAIN outputs \ DOMAIN opening : \E i \in Stored : o \in diffs[i].created
  BY DEF TablesInv, OutputsInv
<1>5. /\ CurrentDiff.consumed = {o \in DOMAIN spents : spents[o].index = N}
      /\ CurrentDiff.created \subseteq DOMAIN outputs
      /\ \A o \in CurrentDiff.created \cap DOMAIN spents : spents[o].index >= N
      /\ N \in Stored => CurrentDiff = diffs[N]
      /\ ledger \in Nat /\ Stored \subseteq 1..N
  BY Current, CurrentRow
<1>6. /\ DOMAIN outputs' = unspent' \cup DOMAIN spents'
      /\ unspent' \cap DOMAIN spents' = {}
  BY <1>2, <1>3, <1>4
<1>7. \A o \in DOMAIN spents' : spents'[o].index \in Stored'
  BY <1>2, <1>4
<1>8. ASSUME NEW i \in Stored'
      PROVE  /\ DOMAIN diffs'[i] = {"created", "consumed", "treasury"}
             /\ diffs'[i].consumed = {o \in DOMAIN spents' : spents'[o].index = i}
             /\ diffs'[i].created \subseteq DOMAIN outputs'
             /\ \A o \in diffs'[i].created \cap DOMAIN spents' : spents'[o].index >= i
  <2>1. CASE i = N
    <3>1. row.consumed = {o \in DOMAIN spents' : spents'[o].index = N}
      BY <1>2, <1>5
    <3>2. row.created \subseteq DOMAIN outputs'
      BY <1>2, <1>5
    <3>3. \A o \in row.created \cap DOMAIN spents' : spents'[o].index >= N
      <4> TAKE o \in row.created \cap DOMAIN spents'
      <4>1. CASE o \in consumed
        BY <1>2, <1>5, <4>1
      <4>2. CASE o \in DOMAIN spents
        <5>1. o \notin DOMAIN created
          BY <1>3, <1>4, <4>2
        <5> QED
          BY <1>2, <1>5, <4>2, <5>1
      <4> QED
        BY <1>2, <4>1, <4>2
    <3> QED
      BY <1>1, <2>1, <3>1, <3>2, <3>3
  <2>2. CASE i # N
    <3>1. i \in Stored /\ diffs'[i] = diffs[i] /\ i \in Nat /\ i < N
      <4>1. i \in Stored
        BY <2>2
      <4>2. i \in 1..N
        BY <1>5, <4>1
      <4> QED
        BY <1>1, <1>5, <2>2, <4>1, <4>2
    <3>2. /\ DOMAIN diffs[i] = {"created", "consumed", "treasury"}
          /\ diffs[i].consumed = {o \in DOMAIN spents : spents[o].index = i}
          /\ diffs[i].created \subseteq DOMAIN outputs
          /\ \A o \in diffs[i].created \cap DOMAIN spents : spents[o].index >= i
      BY <3>1 DEF TablesInv, OutputsInv
    <3>3. diffs[i].consumed = {o \in DOMAIN spents' : spents'[o].index = i}
      BY <1>2, <3>2, <2>2
    <3>4. \A o \in diffs[i].created \cap DOMAIN spents' : spents'[o].index >= i
      BY <1>2, <1>5, <3>1, <3>2
    <3> QED
      BY <1>2, <3>1, <3>2, <3>3, <3>4
  <2> QED
    BY <2>1, <2>2
<1>9. DOMAIN opening' \subseteq DOMAIN outputs'
  BY <1>2, <1>4
<1>10. ASSUME NEW o \in DOMAIN outputs' \ DOMAIN opening'
       PROVE  \E i \in Stored' : o \in diffs'[i].created
  <2>1. CASE o \in DOMAIN created
    BY <1>1, <2>1
  <2>2. CASE o \in DOMAIN outputs
    <3>1. PICK i \in Stored : o \in diffs[i].created
      BY <1>4, <2>2
    <3>2. CASE i = N
      BY <1>1, <1>5, <3>1, <3>2
    <3>3. CASE i # N
      BY <1>1, <3>1, <3>3
    <3> QED
      BY <3>2, <3>3
  <2> QED
    BY <1>2, <2>1, <2>2
<1> HIDE DEF N
<1> QED
  BY <1>1, <1>6, <1>7, <1>8, <1>9, <1>10 DEF OutputsInv

LEMMA ConflictKinds ==
    ASSUME NEW in, NEW new
    PROVE  Conflict(in, new) \in Conflicts /\ (Conflict(in, new) = "none" => in \subseteq unspent)
BY DEF Conflict, Conflicts

(* What the step does to the milestones and to the messages. *)
LEMMA ReferenceFrame ==
    ASSUME TablesInv, NEW m \in TxMessages, Reference(m), NEW c \in Conflicts,
           metadata' = Put(metadata, m, Meta(ledger + 1, "transaction", c))
    PROVE  /\ ledger < MaxIndex /\ m \in messages /\ m \notin seen
           /\ ledger' = ledger /\ pruned' = pruned /\ treasury' = treasury /\ opening' = opening
           /\ messages' = messages /\ seen' = seen \cup {m}
           /\ Stored' = Stored \cup {ledger + 1}
           /\ MilestonesInv' /\ MessagesInv'
           /\ \A n \in TxMessages \ {m} :
                (Included(n)' <=> Included(n)) /\ (Included(n) => metadata'[n] = metadata[n])
           /\ ~Included(m) /\ (Included(m)' <=> c = "none")
           /\ metadata'[m].index = ledger + 1
<1>1. /\ ledger < MaxIndex /\ m \in messages /\ m \notin seen
      /\ ledger' = ledger /\ pruned' = pruned /\ treasury' = treasury /\ opening' = opening
      /\ messages' = messages /\ seen' = seen \cup {m} /\ milestones' = milestones
  BY DEF Reference
<1>2. writing' = TRUE
  BY DEF Reference
<1>3. /\ ledger \in Nat /\ pruned \in Nat /\ pruned <= ledger /\ MaxIndex \in Nat
      /\ Stored \cup {ledger + 1} = pruned + 1..ledger + 1
  BY <1>1, Current
<1>4. Stored' = Stored \cup {ledger + 1}
  <2>1. Reached' = ledger + 1
    BY <1>1, <1>2 DEF Reached
  <2> QED
    BY <1>1, <1>3, <2>1 DEF Stored
<1>5. MilestonesInv'
  <2>1. ledger' \in 0..MaxIndex /\ pruned' \in 0..ledger' /\ ledger' < MaxIndex
    BY <1>1, <1>3
  <2> QED
    BY <1>2, <2>1, Zenon DEF MilestonesInv
<1>6. /\ DOMAIN metadata' = DOMAIN metadata \cup {m}
      /\ metadata'[m] = Meta(ledger + 1, "transaction", c)
      /\ \A n \in DOMAIN metadata \ {m} : metadata'[n] = metadata[n]
  BY DEF Put
<1>7. MessagesInv'
  <2>1. \A i \in 1..MaxIndex : m # MilestoneMessage(i)
    BY MilestoneNames
  <2>2. DOMAIN milestones \subseteq 1..MaxIndex
    BY <1>1, <1>3 DEF TablesInv, MessagesInv
  <2>3. \A i \in DOMAIN milestones : MilestoneMessage(i) \in DOMAIN metadata \ {m}
    BY <2>1, <2>2 DEF TablesInv, MessagesInv
  <2>4. /\ DOMAIN metadata' = messages' /\ messages' \subseteq AllMessages
        /\ seen' \subseteq TxMessages /\ DOMAIN milestones' = pruned' + 1..ledger'
        /\ \A i \in 1..MaxIndex : MilestoneMessage(i) \in messages' <=> i \in DOMAIN milestones'
    BY <1>1, <1>6 DEF TablesInv, MessagesInv
  <2>5. \A i \in DOMAIN milestones' :
          /\ milestones'[i] = MilestoneMessage(i)
          /\ metadata'[MilestoneMessage(i)] = Meta(i, "milestone", "none")
    BY <1>1, <1>6, <2>3 DEF TablesInv, MessagesInv
  <2>6. ASSUME NEW n \in TxMessages \cap messages'
        PROVE  IF n \in seen'
               THEN \E i \in Stored', k \in Conflicts : metadata'[n] = Meta(i, "transaction", k)
               ELSE metadata'[n] = Meta(0, "transaction", "none")
    <3>1. CASE n = m
      BY <1>1, <1>4, <1>6, <3>1
    <3>2. CASE n # m
      <4>1. metadata'[n] = metadata[n] /\ (n \in seen' <=> n \in seen)
        BY <1>1, <1>6, <3>2 DEF TablesInv, MessagesInv
      <4>2. IF n \in seen
            THEN \E i \in Stored, k \in Conflicts : metadata[n] = Meta(i, "transaction", k)
            ELSE metadata[n] = Meta(0, "transaction", "none")
        BY <1>1 DEF TablesInv, MessagesInv
      <4> QED
        BY <1>4, <4>1, <4>2
    <3> QED
      BY <3>1, <3>2
  <2> QED
    BY <2>4, <2>5, <2>6 DEF MessagesInv
<1>8. \A n \in TxMessages \ {m} :
        (Included(n)' <=> Included(n)) /\ (Included(n) => metadata'[n] = metadata[n])
  BY <1>1, <1>6 DEF TablesInv, MessagesInv, Included
<1>9. ~Included(m)
  BY <1>1, MetaFields DEF TablesInv, MessagesInv, Included
<1>10. /\ metadata'[m].index = ledger + 1 /\ metadata'[m].conflict = c
       /\ metadata'[m].referenced
  <2>1. ledger + 1 > 0
    BY <1>3
  <2> QED
    BY <1>6, <2>1, MetaFields
<1>11. Included(m)' <=> c = "none"
  BY <1>1, <1>10 DEF Included
<1> QED
  BY <1>1, <1>4, <1>5, <1>7, <1>8, <1>9, <1>10, <1>11

(* Migrations are not disturbed by the diff of a milestone that has none.  *)
LEMMA TreasuryFrame ==
    ASSUME TablesInv, ledger < MaxIndex, NEW row, diffs' = Put(diffs, ledger + 1, row),
           row.treasury = <<>>, ledger' \in {ledger, ledger + 1}, treasury' = treasury
    PROVE  TreasuryInv'
<1>1. /\ DOMAIN diffs' = DOMAIN diffs \cup {ledger + 1} /\ diffs'[ledger + 1] = row
      /\ \A j \in DOMAIN diffs \ {ledger + 1} : diffs'[j] = diffs[j]
  BY DEF Put
<1>2. ledger + 1 \notin Migrations
  BY CurrentRow
<1>3. Migrations' = Migrations /\ \A i \in Migrations : diffs'[i] = diffs[i]
  BY <1>1, <1>2 DEF Migrations
<1>4. \A i \in Migrations : \A old : Hands(old, i)' <=> Hands(old, i)
  BY <1>3 DEF Hands
<1>5. 0..ledger \subseteq 0..ledger'
  BY Current
<1> QED
  BY <1>3, <1>4, <1>5 DEF TablesInv, TreasuryInv

(* A transaction that conflicts leaves the outputs as they are. *)
LEMMA ConflictTables ==
    ASSUME TablesInv, NEW m \in TxMessages, Reference(m), NEW c \in Conflicts, c # "none",
           metadata' = Put(metadata, m, Meta(ledger + 1, "transaction", c)),
           diffs' = Put(diffs, ledger + 1, CurrentDiff),
           UNCHANGED <<outputs, unspent, spents, balances, made>>
    PROVE  TablesInv'
<1>1. /\ ledger < MaxIndex /\ m \notin seen
      /\ ledger' = ledger /\ pruned' = pruned /\ treasury' = treasury /\ opening' = opening
      /\ messages' = messages /\ seen' = seen \cup {m}
      /\ Stored' = Stored \cup {ledger + 1}
      /\ MilestonesInv' /\ MessagesInv'
      /\ \A n \in TxMessages \ {m} :
           (Included(n)' <=> Included(n)) /\ (Included(n) => metadata'[n] = metadata[n])
      /\ ~Included(m) /\ ~Included(m)'
  BY ReferenceFrame
<1>2. /\ DOMAIN diffs' = Stored \cup {ledger + 1} /\ diffs'[ledger + 1] = CurrentDiff
      /\ \A j \in Stored \ {ledger + 1} : diffs'[j] = diffs[j]
  BY DiffRow
<1>3. /\ DOMAIN CurrentDiff = {"created", "consumed", "treasury"}
      /\ CurrentDiff.treasury = <<>>
      /\ CurrentDiff.consumed = {o \in DOMAIN spents : spents[o].index = ledger + 1}
      /\ CurrentDiff.created \subseteq DOMAIN outputs
      /\ \A o \in CurrentDiff.created \cap DOMAIN spents : spents[o].index >= ledger + 1
  BY <1>1, CurrentRow
<1>4. \A j \in Stored : diffs'[j] = diffs[j]
  BY <1>1, <1>2, Current
<1>5. OutputsInv'
  BY <1>1, <1>2, <1>3, <1>4 DEF TablesInv, OutputsInv
<1>6. MadeInv'
  BY <1>1 DEF TablesInv, MadeInv
<1>7. OriginInv'
  BY <1>1 DEF TablesInv, OriginInv, FromSnapshot, FromTransaction, FromReceipt
<1>8. \A n \in TxMessages : Included(n) => metadata[n].index \in Stored
  BY MetaFields DEF TablesInv, MessagesInv, Included
<1>9. SpendingInv'
  BY <1>1, <1>4, <1>8 DEF TablesInv, SpendingInv, SpentBy
<1>10. TreasuryInv'
  BY <1>1, <1>3, TreasuryFrame
<1> QED
  BY <1>1, <1>5, <1>6, <1>7, <1>9, <1>10 DEF TablesInv

(* A stored message that has been applied belongs to a stored milestone.   *)
LEMMA IncludedStored ==
    ASSUME TablesInv, NEW m \in TxMessages, Included(m)
    PROVE  /\ metadata[m].index \in Stored /\ m \in seen
           /\ DOMAIN NewOutputs(m) \subseteq diffs[metadata[m].index].created
           /\ DOMAIN NewOutputs(m) \subseteq DOMAIN outputs
<1>1. metadata[m].index \in Stored /\ m \in seen
  BY MetaFields DEF TablesInv, MessagesInv, Included
<1>2. DOMAIN NewOutputs(m) \subseteq diffs[metadata[m].index].created
  BY DEF TablesInv, SpendingInv
<1> QED
  BY <1>1, <1>2 DEF TablesInv, OutputsInv

(* A transaction is applied: its outputs are new, its inputs were unspent. *)
LEMMA AppliedTables ==
    ASSUME TablesInv, NEW m \in TxMessages, Reference(m),
           metadata' = Put(metadata, m, Meta(ledger + 1, "transaction", "none")),
           Range_(Tx[m].inputs) \subseteq unspent,
           Apply(Range_(Tx[m].inputs), NewOutputs(m), Tx[m].tx),
           diffs' = Put(diffs, ledger + 1,
                        [CurrentDiff EXCEPT !.created = @ \cup DOMAIN NewOutputs(m),
                                            !.consumed = @ \cup Range_(Tx[m].inputs)])
    PROVE  TablesInv'
<1> DEFINE in == Range_(Tx[m].inputs)
           new == NewOutputs(m)
           N == ledger + 1
           row == [CurrentDiff EXCEPT !.created = @ \cup DOMAIN new, !.consumed = @ \cup in]
<1>1. /\ ledger < MaxIndex /\ m \notin seen /\ m \in messages
      /\ ledger' = ledger /\ pruned' = pruned /\ treasury' = treasury /\ opening' = opening
      /\ messages' = messages /\ seen' = seen \cup {m}
      /\ Stored' = Stored \cup {N}
      /\ MilestonesInv' /\ MessagesInv'
      /\ \A n \in TxMessages \ {m} :
           (Included(n)' <=> Included(n)) /\ (Included(n) => metadata'[n] = metadata[n])
      /\ ~Included(m) /\ Included(m)' /\ metadata'[m].index = N
  BY ReferenceFrame DEF Conflicts
<1>2. /\ DOMAIN CurrentDiff = {"created", "consumed", "treasury"}
      /\ CurrentDiff.treasury = <<>>
  BY <1>1, CurrentRow
<1>3. /\ DOMAIN row = {"created", "consumed", "treasury"} /\ row.treasury = <<>>
      /\ row.created = CurrentDiff.created \cup DOMAIN new
      /\ row.consumed = CurrentDiff.consumed \cup in
  BY <1>2
<1>4. /\ DOMAIN new \cap made = {}
  <2>1. PICK o : o \in in
    BY TransactionOutputs
  <2> QED
    BY <2>1 DEF TablesInv, MadeInv
<1> HIDE DEF in, new, row
<1>5. diffs' = Put(diffs, N, row) /\ Apply(in, new, Tx[m].tx) /\ in \subseteq unspent
  BY DEF in, new, row
<1>6. OutputsInv'
  BY <1>1, <1>3, <1>4, <1>5, ApplyOutputs
<1>7. TreasuryInv'
  BY <1>1, <1>3, <1>5, TreasuryFrame
<1>8. /\ DOMAIN outputs' = DOMAIN outputs \cup DOMAIN new
      /\ \A o \in DOMAIN outputs : outputs'[o] = outputs[o]
      /\ \A o \in DOMAIN new : outputs'[o] = new[o]
      /\ DOMAIN spents' = DOMAIN spents \cup in
      /\ \A o \in DOMAIN spents : spents'[o] = spents[o]
      /\ \A o \in in : spents'[o].tx = Tx[m].tx /\ spents'[o].index = N
      /\ unspent' = (unspent \ in) \cup DOMAIN new
      /\ made' = made \cup DOMAIN new
  BY <1>4, <1>5, ApplyRows
<1>9. MadeInv'
  <2>1. DOMAIN outputs' \subseteq made'
    BY <1>8 DEF TablesInv, MadeInv
  <2>2. ASSUME NEW n \in TxMessages, made' \cap DOMAIN NewOutputs(n) # {}
        PROVE  Range_(Tx[n].inputs) \subseteq made' \ unspent'
    <3>1. in \subseteq made
      BY <1>5 DEF TablesInv, OutputsInv, MadeInv
    <3>2. CASE made \cap DOMAIN NewOutputs(n) # {}
      <4>1. Range_(Tx[n].inputs) \subseteq made \ unspent
        BY <3>2 DEF TablesInv, MadeInv
      <4> QED
        BY <1>4, <1>8, <4>1
    <3>3. CASE DOMAIN new \cap DOMAIN NewOutputs(n) # {}
      <4>1. Tx[n] = Tx[m]
        BY <3>3, OutputNames DEF new
      <4>2. Range_(Tx[n].inputs) = in
        BY <4>1 DEF in
      <4> QED
        BY <1>4, <1>8, <3>1, <4>2
    <3> QED
      BY <1>8, <2>2, <3>2, <3>3
  <2>3. \A i \in ledger' + 1..MaxIndex : made' \cap DOMAIN Migrated(i) = {}
    <3>1. \A i \in ledger + 1..MaxIndex : i \in 1..MaxIndex
      BY <1>1, Current
    <3>2. \A i \in 1..MaxIndex : DOMAIN Migrated(i) \cap DOMAIN new = {}
      BY OutputNames DEF new
    <3>3. \A i \in ledger + 1..MaxIndex : made \cap DOMAIN Migrated(i) = {}
      BY DEF TablesInv, MadeInv
    <3> QED
      BY <1>1, <1>8, <3>1, <3>2, <3>3
  <2> QED
    BY <2>1, <2>2, <2>3 DEF MadeInv
<1>10. ASSUME NEW o \in DOMAIN outputs'
       PROVE  (FromSnapshot(o) \/ FromTransaction(o) \/ FromReceipt(o))'
  <2>1. CASE o \in DOMAIN outputs
    <3>1. outputs'[o] = outputs[o]
      BY <1>8, <2>1
    <3>2. FromSnapshot(o) \/ FromTransaction(o) \/ FromReceipt(o)
      BY <2>1 DEF TablesInv, OriginInv
    <3>3. FromTransaction(o) => FromTransaction(o)'
      BY <1>1, <3>1 DEF FromTransaction
    <3> QED
      BY <1>1, <3>1, <3>2, <3>3 DEF FromSnapshot, FromReceipt
  <2>2. CASE o \in DOMAIN new
    <3>1. outputs'[o] = NewOutputs(m)[o] /\ o \in DOMAIN NewOutputs(m)
      BY <1>8, <2>2 DEF new
    <3> QED
      BY <1>1, <3>1 DEF FromTransaction
  <2> QED
    BY <1>8, <2>1, <2>2
<1>11. \A i \in Stored : diffs[i].created \subseteq diffs'[i].created
  <2>1. /\ diffs'[N] = row /\ \A j \in Stored \ {N} : diffs'[j] = diffs[j]
    BY <1>5, DiffRow
  <2> QED
    BY <1>1, <1>3, <2>1, Current
<1>12. ASSUME NEW n \in TxMessages, Included(n)'
       PROVE  /\ DOMAIN NewOutputs(n) \subseteq diffs'[metadata'[n].index].created
              /\ \A o \in DOMAIN NewOutputs(n) : outputs'[o] = NewOutputs(n)[o]
              /\ \A o \in Range_(Tx[n].inputs) : o \in DOMAIN spents' /\ SpentBy(o, n)'
  <2>1. CASE n = m
    <3>1. diffs'[N] = row
      BY <1>5, DiffRow
    <3> QED
      BY <1>1, <1>3, <1>8, <2>1, <3>1 DEF in, new, SpentBy
  <2>2. CASE n # m
    <3>1. Included(n) /\ metadata'[n] = metadata[n]
      BY <1>1, <1>12, <2>2
    <3>2. /\ metadata[n].index \in Stored
          /\ DOMAIN NewOutputs(n) \subseteq diffs[metadata[n].index].created
          /\ DOMAIN NewOutputs(n) \subseteq DOMAIN outputs
      BY <3>1, IncludedStored
    <3>3. /\ \A o \in DOMAIN NewOutputs(n) : outputs[o] = NewOutputs(n)[o]
          /\ \A o \in Range_(Tx[n].inputs) : o \in DOMAIN spents /\ SpentBy(o, n)
      BY <3>1 DEF TablesInv, SpendingInv
    <3> QED
      BY <1>8, <1>11, <3>1, <3>2, <3>3 DEF SpentBy
  <2> QED
    BY <2>1, <2>2
<1>13. ASSUME NEW o \in DOMAIN spents'
       PROVE  \E n \in TxMessages :
                 Included(n)' /\ o \in Range_(Tx[n].inputs) /\ SpentBy(o, n)'
  <2>1. CASE o \in in
    BY <1>1, <1>8, <2>1 DEF in, SpentBy
  <2>2. CASE o \in DOMAIN spents
    <3>1. PICK n \in TxMessages : Included(n) /\ o \in Range_(Tx[n].inputs) /\ SpentBy(o, n)
      BY <2>2 DEF TablesInv, SpendingInv
    <3> QED
      BY <1>1, <1>8, <2>2, <3>1 DEF SpentBy
  <2> QED
    BY <1>8, <2>1, <2>2
<1>14. SpendingInv'
  BY <1>12, <1>13 DEF SpendingInv
<1>15. OriginInv'
  BY <1>10 DEF OriginInv
<1> QED
  BY <1>1, <1>6, <1>7, <1>9, <1>14, <1>15 DEF TablesInv

LEMMA ReferenceTables == ASSUME TablesInv, NEW m \in TxMessages, Reference(m) PROVE TablesInv'
<1> DEFINE in == Range_(Tx[m].inputs)
           new == NewOutputs(m)
<1>1. PICK c \in Conflicts : c = Conflict(in, new) /\ (c = "none" => in \subseteq unspent)
  BY ConflictKinds
<1>2. metadata' = Put(metadata, m, Meta(ledger + 1, "transaction", c))
  BY <1>1 DEF Reference
<1>3. CASE c = "none"
  <2>1. /\ Apply(in, new, Tx[m].tx)
        /\ diffs' = Put(diffs, ledger + 1,
                        [CurrentDiff EXCEPT !.created = @ \cup DOMAIN NewOutputs(m),
                                            !.consumed = @ \cup Range_(Tx[m].inputs)])
    BY <1>1, <1>3 DEF Reference
  <2> QED
    BY <1>1, <1>2, <1>3, <2>1, AppliedTables
<1>4. CASE c # "none"
  <2>1. /\ diffs' = Put(diffs, ledger + 1, CurrentDiff)
        /\ UNCHANGED <<outputs, unspent, spents, balances, made>>
    BY <1>1, <1>4 DEF Reference
  <2> QED
    BY <1>2, <1>4, <2>1, ConflictTables
<1> QED
  BY <1>3, <1>4

-----------------------------------------------------------------------------
(* A milestone is confirmed. *)

LEMMA ConfirmFrame ==
    ASSUME TablesInv, Confirm, NEW i, i = ledger + 1
    PROVE  /\ ledger < MaxIndex /\ i \in 1..MaxIndex
           /\ ledger' = i /\ pruned' = pruned /\ opening' = opening /\ seen' = seen
           /\ messages' = messages \cup {MilestoneMessage(i)}
           /\ Stored' = Stored \cup {ledger + 1}
           /\ MilestonesInv' /\ MessagesInv'
           /\ \A n \in TxMessages : n \in messages' <=> n \in messages
           /\ \A n \in TxMessages :
                (Included(n)' <=> Included(n)) /\ (Included(n) => metadata'[n] = metadata[n])
<1> DEFINE M == MilestoneMessage(i)
<1>1. /\ ledger < MaxIndex /\ pruned' = pruned /\ opening' = opening /\ seen' = seen
      /\ ledger' = i /\ messages' = messages \cup {M}
      /\ milestones' = Put(milestones, i, M)
      /\ metadata' = Put(metadata, M, Meta(i, "milestone", "none"))
  BY DEF Confirm
<1>2. writing' = FALSE
  BY DEF Confirm
<1>3. /\ ledger \in Nat /\ pruned \in Nat /\ pruned <= ledger /\ MaxIndex \in Nat
      /\ Stored \cup {ledger + 1} = pruned + 1..ledger + 1
  BY <1>1, Current
<1>4. Stored' = Stored \cup {ledger + 1}
  <2>1. ~writing'
    BY <1>2
  <2>2. Reached' = i
    BY <1>1, <2>1 DEF Reached
  <2> QED
    BY <1>1, <1>3, <2>2 DEF Stored
<1>5. i \in 1..MaxIndex
  BY <1>1, <1>3
<1>6. MilestonesInv'
  <2>1. ledger' \in 0..MaxIndex /\ pruned' \in 0..ledger'
    BY <1>1, <1>3
  <2> QED
    BY <1>2, <2>1, Zenon DEF MilestonesInv
<1>7. /\ DOMAIN milestones = pruned + 1..ledger /\ i \notin DOMAIN milestones
      /\ M \notin messages /\ DOMAIN metadata = messages
  BY <1>1, <1>3, <1>5 DEF TablesInv, MessagesInv
<1>8. /\ DOMAIN metadata' = messages \cup {M} /\ metadata'[M] = Meta(i, "milestone", "none")
      /\ \A n \in messages : metadata'[n] = metadata[n]
      /\ DOMAIN milestones' = DOMAIN milestones \cup {i} /\ milestones'[i] = M
      /\ \A k \in DOMAIN milestones : milestones'[k] = milestones[k]
  BY <1>1, <1>7 DEF Put
<1>9. M \in AllMessages /\ \A n \in TxMessages : n # M
  BY <1>5, MilestoneNames DEF AllMessages
<1>10. MessagesInv'
  <2>1. DOMAIN milestones' = pruned' + 1..ledger'
    <3>1. (pruned + 1..ledger) \cup {i} = pruned + 1..i
      BY <1>3
    <3> QED
      BY <1>1, <1>7, <1>8, <3>1
  <2>2. \A k \in 1..MaxIndex : MilestoneMessage(k) \in messages' <=> k \in DOMAIN milestones'
    BY <1>1, <1>8, MilestoneNames DEF TablesInv, MessagesInv
  <2>3. ASSUME NEW k \in DOMAIN milestones'
        PROVE  /\ milestones'[k] = MilestoneMessage(k)
               /\ metadata'[MilestoneMessage(k)] = Meta(k, "milestone", "none")
    <3>1. CASE k = i
      BY <1>8, <3>1
    <3>2. CASE k \in DOMAIN milestones
      <4>1. k \in 1..MaxIndex
        BY <1>1, <1>3, <1>7, <3>2
      <4>2. MilestoneMessage(k) \in messages
        BY <3>2, <4>1 DEF TablesInv, MessagesInv
      <4> QED
        BY <1>8, <3>2, <4>2 DEF TablesInv, MessagesInv
    <3> QED
      BY <1>8, <3>1, <3>2
  <2>4. \A n \in TxMessages \cap messages' :
          IF n \in seen'
          THEN \E k \in Stored', c \in Conflicts : metadata'[n] = Meta(k, "transaction", c)
          ELSE metadata'[n] = Meta(0, "transaction", "none")
    <3> TAKE n \in TxMessages \cap messages'
    <3>1. n \in messages /\ metadata'[n] = metadata[n] /\ (n \in seen' <=> n \in seen)
      BY <1>1, <1>8, <1>9
    <3>2. IF n \in seen
          THEN \E k \in Stored, c \in Conflicts : metadata[n] = Meta(k, "transaction", c)
          ELSE metadata[n] = Meta(0, "transaction", "none")
      BY <3>1 DEF TablesInv, MessagesInv
    <3> QED
      BY <1>4, <3>1, <3>2
  <2>5. messages' \subseteq AllMessages /\ seen' \subseteq TxMessages
    BY <1>1, <1>9 DEF TablesInv, MessagesInv
  <2> QED
    BY <1>1, <1>8, <2>1, <2>2, <2>3, <2>4, <2>5 DEF MessagesInv
<1>11. \A n \in TxMessages : n \in messages' <=> n \in messages
  BY <1>1, <1>9
<1>12. \A n \in TxMessages :
         (Included(n)' <=> Included(n)) /\ (Included(n) => metadata'[n] = metadata[n])
  BY <1>8, <1>11 DEF Included
<1> QED
  BY <1>1, <1>4, <1>5, <1>6, <1>10, <1>11, <1>12

(* A migration takes the unspent treasury output and leaves a new one.     *)
LEMMA MigrationTreasury ==
    ASSUME TablesInv, ledger < MaxIndex, NEW i, i = ledger + 1, NEW t, treasury.unspent = {t},
           NEW row, diffs' = Put(diffs, i, row), row.treasury = <<i, t>>, ledger' = i,
           treasury' = [unspent |-> {i}, spent |-> treasury.spent \cup {t}]
    PROVE  TreasuryInv'
<1>1. /\ DOMAIN diffs' = DOMAIN diffs \cup {i} /\ diffs'[i] = row
      /\ \A j \in DOMAIN diffs \ {i} : diffs'[j] = diffs[j]
  BY DEF Put
<1>2. i \notin Migrations /\ ledger \in Nat
  BY CurrentRow, Current
<1>3. row.treasury # <<>>
  OBVIOUS
<1>4. Migrations' = Migrations \cup {i} /\ \A k \in Migrations : diffs'[k] = diffs[k]
  BY <1>1, <1>2, <1>3 DEF Migrations
<1>5. /\ \A k \in Migrations : \A old : Hands(old, k)' <=> Hands(old, k)
      /\ Hands(t, i)'
  BY <1>1, <1>4 DEF Hands
<1>6. /\ t \in 0..ledger /\ \A k \in Migrations : k <= t
      /\ \A k \in Migrations \ {t} :
            k \in treasury.spent /\ \E j \in Migrations : k < j /\ Hands(k, j)
      /\ \A k \in Migrations : \E old \in 0..k - 1 :
            /\ Hands(old, k) /\ old \in treasury.spent
            /\ \A j \in Migrations : j < k => j <= old
      /\ treasury.spent \subseteq 0..ledger
  <2>1. PICK u \in 0..ledger :
          /\ treasury.unspent = {u} /\ \A k \in Migrations : k <= u
          /\ \A k \in Migrations \ {u} :
                k \in treasury.spent /\ \E j \in Migrations : k < j /\ Hands(k, j)
    BY DEF TablesInv, TreasuryInv
  <2>2. u = t
    BY <2>1
  <2> QED
    BY <2>1, <2>2 DEF TablesInv, TreasuryInv
<1>7. treasury'.unspent = {i} /\ treasury'.spent = treasury.spent \cup {t}
  OBVIOUS
<1>8. \A k \in Migrations' \ {i} :
         k \in treasury'.spent /\ \E j \in Migrations' : k < j /\ Hands(k, j)'
  <2> TAKE k \in Migrations' \ {i}
  <2>1. CASE k = t
    BY <1>2, <1>4, <1>5, <1>6, <1>7, <2>1
  <2>2. CASE k # t
    BY <1>4, <1>5, <1>6, <1>7, <2>2
  <2> QED
    BY <2>1, <2>2
<1>9. ASSUME NEW k \in Migrations'
      PROVE  \E old \in 0..k - 1 :
                /\ Hands(old, k)' /\ old \in treasury'.spent
                /\ \A j \in Migrations' : j < k => j <= old
  <2>1. CASE k = i
    <3>1. t \in 0..k - 1
      BY <1>2, <1>6, <2>1
    <3>2. \A j \in Migrations' : j < k => j <= t
      BY <1>2, <1>4, <1>6, <2>1
    <3> QED
      BY <1>5, <1>7, <2>1, <3>1, <3>2
  <2>2. CASE k \in Migrations
    <3>1. PICK old \in 0..k - 1 :
            /\ Hands(old, k) /\ old \in treasury.spent
            /\ \A j \in Migrations : j < k => j <= old
      BY <1>6, <2>2
    <3>2. ~(i < k)
      BY <1>2, <1>6, <2>2
    <3> QED
      BY <1>4, <1>5, <1>7, <2>2, <3>1, <3>2
  <2> QED
    BY <1>4, <2>1, <2>2
<1>10. /\ treasury'.spent \subseteq 0..ledger' /\ i \in 0..ledger' /\ i \in Migrations'
       /\ \A k \in Migrations' : k <= i
  BY <1>2, <1>4, <1>6, <1>7
<1> QED
  BY <1>7, <1>8, <1>9, <1>10 DEF TreasuryInv

LEMMA ConfirmTables == ASSUME TablesInv, Confirm PROVE TablesInv'
<1>1. PICK i : i = ledger + 1
  OBVIOUS
<1>2. PICK t \in 0..ledger : treasury.unspent = {t}
  BY DEF TablesInv, TreasuryInv
<1>3. (CHOOSE u \in treasury.unspent : TRUE) = t
  BY <1>2
<1> DEFINE new == Migrated(i)
           fresh == DOMAIN Migrated(ledger + 1)
           paid == IF Receipts[ledger + 1] = <<>> THEN <<>>
                   ELSE <<ledger + 1, CHOOSE u \in treasury.unspent : TRUE>>
           row == [CurrentDiff EXCEPT !.created = @ \cup fresh, !.treasury = paid]
<1>4. diffs' = Put(diffs, i, row)
  <2>1. diffs' = Put(diffs, ledger + 1, row)
    BY Zenon DEF Confirm
  <2> HIDE DEF row
  <2> QED
    BY <1>1, <2>1
<1>5. /\ ledger < MaxIndex /\ i \in 1..MaxIndex
      /\ ledger' = i /\ pruned' = pruned /\ opening' = opening /\ seen' = seen
      /\ Stored' = Stored \cup {ledger + 1}
      /\ MilestonesInv' /\ MessagesInv'
      /\ \A n \in TxMessages : n \in messages' <=> n \in messages
      /\ \A n \in TxMessages :
           (Included(n)' <=> Included(n)) /\ (Included(n) => metadata'[n] = metadata[n])
  BY <1>1, ConfirmFrame
<1>6. /\ DOMAIN CurrentDiff = {"created", "consumed", "treasury"}
  BY <1>5, CurrentRow
<1>7. /\ DOMAIN row = {"created", "consumed", "treasury"}
      /\ row.created = CurrentDiff.created \cup DOMAIN new
      /\ row.consumed = CurrentDiff.consumed \cup {}
  BY <1>1, <1>6
<1>8. /\ Receipts[i] = <<>> => row.treasury = <<>>
      /\ Receipts[i] # <<>> => row.treasury = <<i, t>>
  BY <1>1, <1>3, <1>6
<1> HIDE DEF new, row
<1>9. Apply({}, new, MilestoneMessage(i)) /\ DOMAIN new \cap made = {}
  <2>1. Apply({}, new, MilestoneMessage(i))
    BY <1>1 DEF Confirm, new
  <2>2. i \in ledger + 1..MaxIndex
    BY <1>1, <1>5, Current
  <2> QED
    BY <2>1, <2>2 DEF TablesInv, MadeInv, new
<1>10. OutputsInv'
  BY <1>1, <1>4, <1>5, <1>7, <1>9, ApplyOutputs
<1>11. TreasuryInv'
  <2>1. CASE Receipts[i] = <<>>
    <3>1. treasury' = treasury /\ row.treasury = <<>>
      BY <1>1, <1>8, <2>1 DEF Confirm
    <3> QED
      BY <1>1, <1>4, <1>5, <3>1, TreasuryFrame
  <2>2. CASE Receipts[i] # <<>>
    <3>1. /\ treasury' = [unspent |-> {i}, spent |-> treasury.spent \cup {t}]
          /\ row.treasury = <<i, t>>
      BY <1>1, <1>3, <1>8, <2>2 DEF Confirm
    <3> QED
      BY <1>1, <1>2, <1>4, <1>5, <3>1, MigrationTreasury
  <2> QED
    BY <2>1, <2>2
<1>12. /\ DOMAIN outputs' = DOMAIN outputs \cup DOMAIN new
       /\ \A o \in DOMAIN outputs : outputs'[o] = outputs[o]
       /\ \A o \in DOMAIN new : outputs'[o] = new[o]
       /\ DOMAIN spents' = DOMAIN spents
       /\ \A o \in DOMAIN spents : spents'[o] = spents[o]
       /\ unspent' = unspent \cup DOMAIN new
       /\ made' = made \cup DOMAIN new
  <2>1. DOMAIN new \cap DOMAIN outputs = {}
    BY <1>9 DEF TablesInv, MadeInv
  <2> QED
    BY <1>9, <2>1 DEF Apply, Added
<1>13. MadeInv'
  <2>1. DOMAIN outputs' \subseteq made'
    BY <1>12 DEF TablesInv, MadeInv
  <2>2. \A n \in TxMessages : DOMAIN new \cap DOMAIN NewOutputs(n) = {}
    BY <1>5, OutputNames DEF new
  <2>3. ASSUME NEW n \in TxMessages, made' \cap DOMAIN NewOutputs(n) # {}
        PROVE  Range_(Tx[n].inputs) \subseteq made' \ unspent'
    <3>1. made \cap DOMAIN NewOutputs(n) # {}
      BY <1>12, <2>2, <2>3
    <3>2. Range_(Tx[n].inputs) \subseteq made \ unspent
      BY <3>1 DEF TablesInv, MadeInv
    <3> QED
      BY <1>9, <1>12, <3>2
  <2>4. ASSUME NEW k \in ledger' + 1..MaxIndex PROVE made' \cap DOMAIN Migrated(k) = {}
    <3>1. k \in 1..MaxIndex /\ k # i /\ k \in ledger + 1..MaxIndex
      BY <1>1, <1>5, Current
    <3>2. DOMAIN new \cap DOMAIN Migrated(k) = {}
      BY <1>5, <3>1, OutputNames DEF new
    <3>3. made \cap DOMAIN Migrated(k) = {}
      BY <3>1 DEF TablesInv, MadeInv
    <3> QED
      BY <1>12, <3>2, <3>3
  <2> QED
    BY <2>1, <2>3, <2>4 DEF MadeInv
<1>14. ASSUME NEW o \in DOMAIN outputs'
       PROVE  (FromSnapshot(o) \/ FromTransaction(o) \/ FromReceipt(o))'
  <2>1. CASE o \in DOMAIN outputs
    <3>1. outputs'[o] = outputs[o]
      BY <1>12, <2>1
    <3>2. FromSnapshot(o) \/ FromTransaction(o) \/ FromReceipt(o)
      BY <2>1 DEF TablesInv, OriginInv
    <3>3. FromTransaction(o) => FromTransaction(o)'
      BY <1>5, <3>1 DEF FromTransaction
    <3>4. 1..ledger \subseteq 1..ledger'
      BY <1>1, <1>5, Current
    <3>5. FromReceipt(o) => FromReceipt(o)'
      BY <3>1, <3>4 DEF FromReceipt
    <3> QED
      BY <3>1, <3>2, <3>3, <3>5 DEF FromSnapshot
  <2>2. CASE o \in DOMAIN new
    <3>1. outputs'[o] = Migrated(i)[o] /\ o \in DOMAIN Migrated(i)
      BY <1>12, <2>2 DEF new
    <3>2. i \in 1..ledger'
      BY <1>5
    <3> QED
      BY <3>1, <3>2 DEF FromReceipt
  <2> QED
    BY <1>12, <2>1, <2>2
<1>15. \A k \in Stored : diffs[k].created \subseteq diffs'[k].created
  <2>1. /\ diffs'[i] = row /\ \A j \in Stored \ {i} : diffs'[j] = diffs[j]
    BY <1>4, DiffRow
  <2> QED
    BY <1>1, <1>5, <1>7, <2>1, Current
<1>16. SpendingInv'
  <2>1. ASSUME NEW n \in TxMessages, Included(n)'
        PROVE  /\ DOMAIN NewOutputs(n) \subseteq diffs'[metadata'[n].index].created
               /\ \A o \in DOMAIN NewOutputs(n) : outputs'[o] = NewOutputs(n)[o]
               /\ \A o \in Range_(Tx[n].inputs) : o \in DOMAIN spents' /\ SpentBy(o, n)'
    <3>1. Included(n) /\ metadata'[n] = metadata[n]
      BY <1>5, <2>1
    <3>2. /\ metadata[n].index \in Stored
          /\ DOMAIN NewOutputs(n) \subseteq diffs[metadata[n].index].created
          /\ DOMAIN NewOutputs(n) \subseteq DOMAIN outputs
      BY <3>1, IncludedStored
    <3>3. /\ \A o \in DOMAIN NewOutputs(n) : outputs[o] = NewOutputs(n)[o]
          /\ \A o \in Range_(Tx[n].inputs) : o \in DOMAIN spents /\ SpentBy(o, n)
      BY <3>1 DEF TablesInv, SpendingInv
    <3> QED
      BY <1>12, <1>15, <3>1, <3>2, <3>3 DEF SpentBy
  <2>2. ASSUME NEW o \in DOMAIN spents'
        PROVE  \E n \in TxMessages :
                  Included(n)' /\ o \in Range_(Tx[n].inputs) /\ SpentBy(o, n)'
    <3>1. PICK n \in TxMessages : Included(n) /\ o \in Range_(Tx[n].inputs) /\ SpentBy(o, n)
      BY <1>12 DEF TablesInv, SpendingInv
    <3> QED
      BY <1>5, <1>12, <3>1 DEF SpentBy
  <2> QED
    BY <2>1, <2>2 DEF SpendingInv
<1>17. OriginInv'
  BY <1>14 DEF OriginInv
<1> QED
  BY <1>5, <1>10, <1>11, <1>13, <1>16, <1>17 DEF TablesInv

-----------------------------------------------------------------------------
(* A milestone is pruned. *)

LEMMA PruneFrame ==
    ASSUME TablesInv, Prune, NEW i, i = pruned + 1
    PROVE  /\ ledger \in Nat /\ i \in Stored /\ i \in 1..MaxIndex
           /\ pruned' = i /\ ledger' = ledger /\ writing' = writing
           /\ Stored' = Stored \ {i} /\ \A j \in Stored' : j > i /\ j \in Nat
           /\ unspent' = unspent /\ seen' = seen /\ made' = made
           /\ messages' = messages \ {m \in DOMAIN metadata : metadata[m].index = i}
           /\ metadata' = Without(metadata, {m \in DOMAIN metadata : metadata[m].index = i})
           /\ outputs' = Without(outputs, diffs[i].consumed)
           /\ spents' = Without(spents, diffs[i].consumed)
           /\ diffs' = Without(diffs, {i}) /\ milestones' = Without(milestones, {i})
           /\ DOMAIN opening' = (DOMAIN opening \cup diffs[i].created) \ diffs[i].consumed
           /\ MilestonesInv'
<1>1. /\ pruned' = i /\ ledger' = ledger /\ writing' = writing
      /\ unspent' = unspent /\ seen' = seen /\ made' = made
      /\ messages' = messages \ {m \in DOMAIN metadata : metadata[m].index = i}
      /\ metadata' = Without(metadata, {m \in DOMAIN metadata : metadata[m].index = i})
      /\ outputs' = Without(outputs, diffs[i].consumed)
      /\ spents' = Without(spents, diffs[i].consumed)
      /\ diffs' = Without(diffs, {i}) /\ milestones' = Without(milestones, {i})
  BY DEF Prune
<1>2. DOMAIN opening' = (DOMAIN opening \cup diffs[i].created) \ diffs[i].consumed
  BY DEF Prune
<1>3. ~writing /\ i < ledger
  BY DEF Prune
<1>4. /\ ledger \in Nat /\ pruned \in Nat /\ pruned <= ledger /\ MaxIndex \in Nat
      /\ ledger <= MaxIndex
  BY UniverseAssumption DEF TablesInv, MilestonesInv
<1>5. Stored = pruned + 1..ledger
  BY <1>3 DEF Stored, Reached
<1>6. Stored' = pruned' + 1..ledger'
  BY <1>1, <1>3 DEF Stored, Reached
<1>7. Stored' = Stored \ {i} /\ \A j \in Stored' : j > i /\ j \in Nat
  BY <1>1, <1>4, <1>5, <1>6
<1>8. i \in Stored /\ i \in 1..MaxIndex /\ i \in 0..ledger
  BY <1>3, <1>4, <1>5
<1>9. MilestonesInv'
  BY <1>1, <1>8 DEF TablesInv, MilestonesInv
<1> QED
  BY <1>1, <1>2, <1>4, <1>7, <1>8, <1>9

LEMMA PruneMessages ==
    ASSUME TablesInv, Prune, NEW i, i = pruned + 1
    PROVE  /\ MessagesInv'
           /\ \A m \in TxMessages :
                /\ Included(m)' <=> Included(m) /\ metadata[m].index # i
                /\ Included(m)' => metadata'[m] = metadata[m]
                /\ Included(m) /\ m \in messages' => Included(m)'
           /\ messages' \subseteq messages
<1> DEFINE gone == {m \in DOMAIN metadata : metadata[m].index = i}
<1>1. /\ ledger \in Nat /\ i \in Stored /\ i \in 1..MaxIndex
      /\ pruned' = i /\ ledger' = ledger /\ seen' = seen
      /\ Stored' = Stored \ {i}
      /\ messages' = messages \ gone /\ metadata' = Without(metadata, gone)
      /\ milestones' = Without(milestones, {i})
  BY PruneFrame
<1>2. /\ DOMAIN metadata = messages /\ messages \subseteq AllMessages /\ seen \subseteq TxMessages
      /\ DOMAIN milestones = pruned + 1..ledger
      /\ \A k \in 1..MaxIndex : MilestoneMessage(k) \in messages <=> k \in DOMAIN milestones
      /\ \A k \in DOMAIN milestones :
            /\ milestones[k] = MilestoneMessage(k)
            /\ metadata[MilestoneMessage(k)] = Meta(k, "milestone", "none")
      /\ pruned \in Nat /\ MaxIndex \in Nat /\ ledger <= MaxIndex
  BY UniverseAssumption DEF TablesInv, MessagesInv, MilestonesInv
<1>3. /\ DOMAIN metadata' = DOMAIN metadata \ gone
      /\ \A m \in DOMAIN metadata \ gone : metadata'[m] = metadata[m]
      /\ DOMAIN milestones' = DOMAIN milestones \ {i}
      /\ \A k \in DOMAIN milestones \ {i} : milestones'[k] = milestones[k]
  BY <1>1 DEF Without
<1>4. ASSUME NEW k \in DOMAIN milestones
      PROVE  metadata[MilestoneMessage(k)].index = k /\ k \in 1..MaxIndex
  <2>1. k \in 1..MaxIndex
    BY <1>1, <1>2
  <2>2. metadata[MilestoneMessage(k)] = Meta(k, "milestone", "none")
    BY <1>2
  <2> QED
    BY <2>1, <2>2, MetaFields
<1>5. \A k \in 1..MaxIndex : MilestoneMessage(k) \in messages' <=> k \in DOMAIN milestones'
  BY <1>1, <1>2, <1>3, <1>4
<1>6. DOMAIN milestones' = pruned' + 1..ledger'
  <2>1. (pruned + 1..ledger) \ {i} = i + 1..ledger
    BY <1>1, <1>2
  <2> QED
    BY <1>1, <1>2, <1>3, <2>1
<1>7. \A k \in DOMAIN milestones' :
         /\ milestones'[k] = MilestoneMessage(k)
         /\ metadata'[MilestoneMessage(k)] = Meta(k, "milestone", "none")
  BY <1>2, <1>3, <1>4
<1>8. \A m \in TxMessages \cap messages' :
         IF m \in seen'
         THEN \E k \in Stored', c \in Conflicts : metadata'[m] = Meta(k, "transaction", c)
         ELSE metadata'[m] = Meta(0, "transaction", "none")
  <2> TAKE m \in TxMessages \cap messages'
  <2>1. m \in messages /\ metadata'[m] = metadata[m] /\ metadata[m].index # i
    BY <1>1, <1>2, <1>3
  <2>2. IF m \in seen
        THEN \E k \in Stored, c \in Conflicts : metadata[m] = Meta(k, "transaction", c)
        ELSE metadata[m] = Meta(0, "transaction", "none")
    BY <2>1 DEF TablesInv, MessagesInv
  <2>3. CASE m \in seen
    <3>1. PICK k \in Stored, c \in Conflicts : metadata[m] = Meta(k, "transaction", c)
      BY <2>2, <2>3
    <3>2. k # i
      BY <2>1, <3>1, MetaFields
    <3> QED
      BY <1>1, <2>1, <2>3, <3>1, <3>2
  <2>4. CASE m \notin seen
    BY <1>1, <2>1, <2>2, <2>4
  <2> QED
    BY <2>3, <2>4
<1>9. MessagesInv'
  <2>1. DOMAIN metadata' = messages' /\ messages' \subseteq AllMessages /\ seen' \subseteq TxMessages
    BY <1>1, <1>2, <1>3
  <2> QED
    BY <1>5, <1>6, <1>7, <1>8, <2>1 DEF MessagesInv
<1>10. \A m \in TxMessages :
          /\ Included(m)' <=> Included(m) /\ metadata[m].index # i
          /\ Included(m)' => metadata'[m] = metadata[m]
          /\ Included(m) /\ m \in messages' => Included(m)'
  BY <1>1, <1>2, <1>3 DEF Included
<1> QED
  BY <1>1, <1>9, <1>10

LEMMA PruneOutputs ==
    ASSUME TablesInv, Prune, NEW i, i = pruned + 1
    PROVE  /\ OutputsInv' /\ MadeInv'
           /\ DOMAIN outputs' \subseteq DOMAIN outputs
           /\ \A o \in DOMAIN outputs' : outputs'[o] = outputs[o]
           /\ DOMAIN spents' = {o \in DOMAIN spents : spents[o].index # i}
           /\ \A o \in DOMAIN spents' : spents'[o] = spents[o]
           /\ DOMAIN diffs' = DOMAIN diffs \ {i}
           /\ \A k \in DOMAIN diffs' : diffs'[k] = diffs[k]
<1> DEFINE spent == diffs[i].consumed
<1>1. /\ ledger \in Nat /\ i \in Stored /\ i \in 1..MaxIndex
      /\ pruned' = i /\ ledger' = ledger /\ unspent' = unspent /\ made' = made
      /\ Stored' = Stored \ {i} /\ \A j \in Stored' : j > i /\ j \in Nat
      /\ outputs' = Without(outputs, spent) /\ spents' = Without(spents, spent)
      /\ diffs' = Without(diffs, {i})
      /\ DOMAIN opening' = (DOMAIN opening \cup diffs[i].created) \ spent
  BY PruneFrame
<1>2. /\ DOMAIN outputs = unspent \cup DOMAIN spents
      /\ unspent \cap DOMAIN spents = {}
      /\ DOMAIN diffs = Stored
      /\ \A o \in DOMAIN spents : spents[o].index \in Stored
      /\ DOMAIN opening \subseteq DOMAIN outputs
      /\ \A o \in DOMAIN outputs \ DOMAIN opening : \E k \in Stored : o \in diffs[k].created
  BY DEF TablesInv, OutputsInv
<1>3. \A k \in Stored :
         /\ DOMAIN diffs[k] = {"created", "consumed", "treasury"}
         /\ diffs[k].consumed = {o \in DOMAIN spents : spents[o].index = k}
         /\ diffs[k].created \subseteq DOMAIN outputs
         /\ \A o \in diffs[k].created \cap DOMAIN spents : spents[o].index >= k
  BY DEF TablesInv, OutputsInv
<1>4. spent = {o \in DOMAIN spents : spents[o].index = i}
  BY <1>1, <1>3
<1>5. /\ DOMAIN outputs' = DOMAIN outputs \ spent
      /\ \A o \in DOMAIN outputs' : outputs'[o] = outputs[o]
      /\ DOMAIN spents' = {o \in DOMAIN spents : spents[o].index # i}
      /\ \A o \in DOMAIN spents' : spents'[o] = spents[o]
      /\ DOMAIN diffs' = Stored'
      /\ \A k \in Stored' : diffs'[k] = diffs[k]
  BY <1>1, <1>2, <1>4 DEF Without
<1> HIDE DEF spent
<1>6. /\ DOMAIN outputs' = unspent' \cup DOMAIN spents'
      /\ unspent' \cap DOMAIN spents' = {}
  BY <1>1, <1>2, <1>4, <1>5
<1>7. ASSUME NEW k \in Stored'
      PROVE  /\ DOMAIN diffs'[k] = {"created", "consumed", "treasury"}
             /\ diffs'[k].consumed = {o \in DOMAIN spents' : spents'[o].index = k}
             /\ diffs'[k].created \subseteq DOMAIN outputs'
             /\ \A o \in diffs'[k].created \cap DOMAIN spents' : spents'[o].index >= k
  <2>1. k \in Stored /\ k # i /\ k > i /\ diffs'[k] = diffs[k]
    BY <1>1, <1>5
  <2>2. diffs[k].consumed = {o \in DOMAIN spents' : spents'[o].index = k}
    BY <1>3, <1>5, <2>1
  <2>3. \A o \in diffs[k].created : o \notin spent
    BY <1>1, <1>3, <1>4, <2>1
  <2>4. diffs[k].created \subseteq DOMAIN outputs'
    BY <1>3, <1>5, <2>1, <2>3
  <2> QED
    BY <1>3, <1>5, <2>1, <2>2, <2>4
<1>8. \A o \in DOMAIN spents' : spents'[o].index \in Stored'
  BY <1>1, <1>2, <1>5
<1>9. DOMAIN opening' \subseteq DOMAIN outputs'
  BY <1>1, <1>2, <1>3, <1>5
<1>10. \A o \in DOMAIN outputs' \ DOMAIN opening' : \E k \in Stored' : o \in diffs'[k].created
  BY <1>1, <1>2, <1>5
<1>11. OutputsInv'
  BY <1>5, <1>6, <1>7, <1>8, <1>9, <1>10 DEF OutputsInv
<1>12. MadeInv'
  BY <1>1, <1>5 DEF TablesInv, MadeInv
<1> QED
  BY <1>1, <1>2, <1>5, <1>11, <1>12

LEMMA PruneTreasury ==
    ASSUME TablesInv, Prune, NEW i, i = pruned + 1
    PROVE  TreasuryInv'
<1>1. /\ ledger \in Nat /\ i \in Stored /\ i \in 1..MaxIndex
      /\ ledger' = ledger /\ Stored' = Stored \ {i} /\ \A j \in Stored' : j > i /\ j \in Nat
  BY PruneFrame
<1>2. /\ DOMAIN diffs = Stored /\ DOMAIN diffs' = Stored \ {i}
      /\ \A k \in Stored \ {i} : diffs'[k] = diffs[k]
  BY PruneOutputs DEF TablesInv, OutputsInv
<1>3. Migrations' = Migrations \ {i} /\ Migrations \subseteq Stored
  BY <1>2 DEF Migrations
<1>4. \A k \in Migrations' : k > i /\ k \in Nat /\ \A old : Hands(old, k)' <=> Hands(old, k)
  BY <1>1, <1>2, <1>3 DEF Hands
<1>5. PICK t \in 0..ledger :
        /\ treasury.unspent = {t}
        /\ Migrations # {} => t \in Migrations
        /\ \A k \in Migrations : k <= t
        /\ \A k \in Migrations \ {t} :
              k \in treasury.spent /\ \E j \in Migrations : k < j /\ Hands(k, j)
  BY DEF TablesInv, TreasuryInv
<1>6. /\ treasury.spent \subseteq 0..ledger
      /\ \A k \in Migrations : \E old \in 0..k - 1 :
            /\ Hands(old, k) /\ old \in treasury.spent
            /\ \A j \in Migrations : j < k => j <= old
  BY DEF TablesInv, TreasuryInv
<1> DEFINE taken == {diffs[i].treasury[k] : k \in {2} \cap DOMAIN diffs[i].treasury}
<1>7. /\ treasury'.unspent = treasury.unspent /\ treasury'.spent = treasury.spent \ taken
  BY DEF Prune
<1>8. ASSUME NEW x \in taken
      PROVE  i \in Migrations /\ Hands(x, i) /\ x < i /\ x \in Nat
  <2>1. 2 \in DOMAIN diffs[i].treasury /\ x = diffs[i].treasury[2]
    OBVIOUS
  <2>2. diffs[i].treasury # <<>>
    BY <2>1
  <2>3. i \in Migrations
    BY <1>1, <1>2, <2>2 DEF Migrations
  <2>4. PICK old \in 0..i - 1 : Hands(old, i)
    BY <1>6, <2>3
  <2>5. x = old
    BY <2>1, <2>4 DEF Hands
  <2> QED
    BY <1>1, <2>3, <2>4, <2>5
<1> HIDE DEF taken
<1>9. \A k \in Migrations' : k \notin taken
  BY <1>1, <1>4, <1>8
<1>10. ASSUME NEW k \in Migrations'
       PROVE  \E old \in 0..k - 1 :
                 /\ Hands(old, k)' /\ old \in treasury'.spent
                 /\ \A j \in Migrations' : j < k => j <= old
  <2>1. PICK old \in 0..k - 1 :
           /\ Hands(old, k) /\ old \in treasury.spent
           /\ \A j \in Migrations : j < k => j <= old
    BY <1>3, <1>6
  <2>2. old \notin taken
    BY <1>1, <1>4, <1>8, <2>1
  <2> QED
    BY <1>3, <1>4, <1>7, <2>1, <2>2
<1>11. Migrations' # {} => t \in Migrations'
  <2> SUFFICES ASSUME NEW k \in Migrations' PROVE t \in Migrations'
    OBVIOUS
  <2>1. k <= t /\ k > i /\ k \in Nat /\ t \in Migrations
    BY <1>3, <1>4, <1>5
  <2> QED
    BY <1>1, <1>3, <2>1
<1>12. ASSUME NEW k \in Migrations' \ {t}
       PROVE  k \in treasury'.spent /\ \E j \in Migrations' : k < j /\ Hands(k, j)'
  <2>1. PICK j \in Migrations : k < j /\ Hands(k, j) /\ k \in treasury.spent
    BY <1>3, <1>5
  <2>2. j # i
    BY <1>1, <1>4, <2>1
  <2> QED
    BY <1>3, <1>4, <1>7, <1>9, <2>1, <2>2
<1>13. treasury'.spent \subseteq 0..ledger'
  BY <1>1, <1>6, <1>7
<1> QED
  BY <1>1, <1>3, <1>5, <1>7, <1>10, <1>11, <1>12, <1>13 DEF TreasuryInv

LEMMA PruneTables == ASSUME TablesInv, Prune PROVE TablesInv'
<1>1. PICK i : i = pruned + 1
  OBVIOUS
<1>2. /\ ledger' = ledger /\ Stored' = Stored \ {i} /\ seen' = seen /\ MilestonesInv'
  BY <1>1, PruneFrame
<1>3. /\ MessagesInv' /\ messages' \subseteq messages
      /\ \A m \in TxMessages :
           /\ Included(m)' <=> Included(m) /\ metadata[m].index # i
           /\ Included(m)' => metadata'[m] = metadata[m]
           /\ Included(m) /\ m \in messages' => Included(m)'
  BY <1>1, PruneMessages
<1>4. /\ OutputsInv' /\ MadeInv'
      /\ DOMAIN outputs' \subseteq DOMAIN outputs
      /\ \A o \in DOMAIN outputs' : outputs'[o] = outputs[o]
      /\ DOMAIN spents' = {o \in DOMAIN spents : spents[o].index # i}
      /\ \A o \in DOMAIN spents' : spents'[o] = spents[o]
      /\ DOMAIN diffs' = DOMAIN diffs \ {i}
      /\ \A k \in DOMAIN diffs' : diffs'[k] = diffs[k]
  BY <1>1, PruneOutputs
<1>5. TreasuryInv'
  BY <1>1, PruneTreasury
<1>6. ASSUME NEW o \in DOMAIN outputs'
      PROVE  (FromSnapshot(o) \/ FromTransaction(o) \/ FromReceipt(o))'
  <2>1. o \in DOMAIN outputs /\ outputs'[o] = outputs[o]
    BY <1>4
  <2>2. FromSnapshot(o) \/ FromTransaction(o) \/ FromReceipt(o)
    BY <2>1 DEF TablesInv, OriginInv
  <2>3. FromTransaction(o) => FromTransaction(o)'
    BY <1>2, <1>3, <2>1 DEF FromTransaction
  <2> QED
    BY <1>2, <2>1, <2>2, <2>3 DEF FromSnapshot, FromReceipt
<1>7. ASSUME NEW m \in TxMessages, Included(m)'
      PROVE  /\ DOMAIN NewOutputs(m) \subseteq diffs'[metadata'[m].index].created
             /\ \A o \in DOMAIN NewOutputs(m) : outputs'[o] = NewOutputs(m)[o]
             /\ \A o \in Range_(Tx[m].inputs) : o \in DOMAIN spents' /\ SpentBy(o, m)'
  <2>1. Included(m) /\ metadata[m].index # i /\ metadata'[m] = metadata[m]
    BY <1>3, <1>7
  <2>2. metadata[m].index \in Stored'
    BY <1>2, <2>1, IncludedStored
  <2>3. DOMAIN diffs' = Stored'
    BY <1>4 DEF OutputsInv
  <2>4. /\ DOMAIN NewOutputs(m) \subseteq diffs[metadata[m].index].created
        /\ \A o \in DOMAIN NewOutputs(m) : outputs[o] = NewOutputs(m)[o]
        /\ \A o \in Range_(Tx[m].inputs) : o \in DOMAIN spents /\ SpentBy(o, m)
    BY <2>1 DEF TablesInv, SpendingInv
  <2>5. DOMAIN NewOutputs(m) \subseteq diffs'[metadata'[m].index].created
    BY <1>4, <2>1, <2>2, <2>3, <2>4
  <2>6. DOMAIN NewOutputs(m) \subseteq DOMAIN outputs'
    BY <1>4, <2>1, <2>2, <2>5 DEF OutputsInv
  <2> QED
    BY <1>4, <2>1, <2>4, <2>5, <2>6 DEF SpentBy
<1>8. ASSUME NEW o \in DOMAIN spents'
      PROVE  \E m \in TxMessages :
                Included(m)' /\ o \in Range_(Tx[m].inputs) /\ SpentBy(o, m)'
  <2>1. PICK m \in TxMessages : Included(m) /\ o \in Range_(Tx[m].inputs) /\ SpentBy(o, m)
    BY <1>4 DEF TablesInv, SpendingInv
  <2> QED
    BY <1>3, <1>4, <2>1 DEF SpentBy
<1>9. SpendingInv'
  BY <1>7, <1>8 DEF SpendingInv
<1>10. OriginInv'
  BY <1>6 DEF OriginInv
<1> QED
  BY <1>2, <1>3, <1>4, <1>5, <1>9, <1>10 DEF TablesInv

-----------------------------------------------------------------------------
(* The rows that one table relies on are in the other tables at every      *)
(* step, whatever has been applied and pruned: the invariant that the      *)
(* queries' answers follow from. *)
THEOREM Tables == Spec => []TablesInv
<1>1. Init => TablesInv
  BY InitTables
<1>2. TablesInv /\ [Next]_vars => TablesInv'
  <2> SUFFICES ASSUME TablesInv, [Next]_vars PROVE TablesInv'
    OBVIOUS
  <2>1. ASSUME NEW m \in TxMessages, Attach(m) PROVE TablesInv'
    BY <2>1, AttachTables
  <2>2. ASSUME NEW m \in TxMessages, Reference(m) PROVE TablesInv'
    BY <2>2, ReferenceTables
  <2>3. CASE Confirm
    BY <2>3, ConfirmTables
  <2>4. CASE Prune
    BY <2>4, PruneTables
  <2>5. CASE UNCHANGED vars
    <3>1. /\ UNCHANGED <<ledger, pruned, writing, outputs, unspent, spents, diffs, treasury>>
          /\ UNCHANGED <<messages, metadata, milestones, seen, made, opening>>
      BY <2>5 DEF vars
    <3>2. MilestonesInv' /\ Reached' = Reached /\ Stored' = Stored
      BY <3>1 DEF TablesInv, MilestonesInv, Reached, Stored
    <3>3. MessagesInv' /\ OutputsInv' /\ MadeInv'
      BY <3>1, <3>2 DEF TablesInv, MessagesInv, OutputsInv, MadeInv
    <3>4. OriginInv' /\ SpendingInv'
      BY <3>1 DEF TablesInv, OriginInv, SpendingInv, Included, SpentBy, FromSnapshot,
                  FromTransaction, FromReceipt
    <3>5. TreasuryInv'
      BY <3>1 DEF TablesInv, TreasuryInv, Migrations, Hands
    <3> QED
      BY <3>2, <3>3, <3>4, <3>5 DEF TablesInv
  <2> QED
    BY <2>1, <2>2, <2>3, <2>4, <2>5 DEF Next
<1> QED
  BY <1>1, <1>2, PTL DEF Spec
=============================================================================
