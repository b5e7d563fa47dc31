-------------------------- MODULE LedgerInvariant --------------------------
(***************************************************************************)
(* What holds of the tables at every step of the legacy node, also in the  *)
(* middle of a milestone: the rows of one table that the rows of another   *)
(* one rely on.  Pruning takes away whole milestones, so every claim is    *)
(* about the milestones that are still stored.                             *)
(***************************************************************************)
EXTENDS LedgerQueries

(* The milestone the tables have reached: one that is being applied counts. *)
Reached == IF writing THEN ledger + 1 ELSE ledger
Stored == pruned + 1..Reached

MilestonesInv ==
    /\ ledger \in 0..MaxIndex /\ pruned \in 0..ledger /\ writing \in BOOLEAN
    /\ writing => ledger < MaxIndex

(* A transaction message that a milestone references and applies. *)
Included(m) ==
    /\ m \in TxMessages \cap messages
    /\ metadata[m].referenced /\ metadata[m].conflict = "none"
SpentBy(o, m) == spents[o].tx = Tx[m].tx /\ spents[o].index = metadata[m].index

(* Messages and metadata come and go together, and a milestone is stored   *)
(* with its message as long as it is not pruned. *)
Conflicts == {"none", "input", "dust"}
MessagesInv ==
    /\ DOMAIN metadata = messages /\ messages \subseteq AllMessages /\ seen \subseteq TxMessages
    /\ DOMAIN milestones = pruned + 1..ledger
    /\ \A i \in 1..MaxIndex : MilestoneMessage(i) \in messages <=> i \in DOMAIN milestones
    /\ \A i \in DOMAIN milestones :
          /\ milestones[i] = MilestoneMessage(i)
          /\ metadata[MilestoneMessage(i)] = Meta(i, "milestone", "none")
    /\ \A m \in TxMessages \cap messages :
          IF m \in seen
          THEN \E i \in Stored, c \in Conflicts : metadata[m] = Meta(i, "transaction", c)
          ELSE metadata[m] = Meta(0, "transaction", "none")

(* An output is unspent or spent; what a stored milestone made is there,   *)
(* and was spent no earlier; the rest was there at the pruning index.      *)
OutputsInv ==
    /\ DOMAIN outputs = unspent \cup DOMAIN spents
    /\ unspent \cap DOMAIN spents = {}
    /\ DOMAIN diffs = Stored
    /\ \A o \in DOMAIN spents : spents[o].index \in Stored
    /\ \A i \in Stored :
          /\ DOMAIN diffs[i] = {"created", "consumed", "treasury"}
          /\ diffs[i].consumed = {o \in DOMAIN spents : spents[o].index = i}
          /\ diffs[i].created \subseteq DOMAIN outputs
          /\ \A o \in diffs[i].created \cap DOMAIN spents : spents[o].index >= i
    /\ DOMAIN opening \subseteq DOMAIN outputs
    /\ \A o \in DOMAIN outputs \ DOMAIN opening : \E i \in Stored : o \in diffs[i].created

(* No output is made twice: the inputs of a transaction that has been      *)
(* applied are not unspent, and its outputs can never be made again.       *)
MadeInv ==
    /\ DOMAIN outputs \subseteq made
    /\ \A m \in TxMessages :
          made \cap DOMAIN NewOutputs(m) # {} => Range_(Tx[m].inputs) \subseteq made \ unspent
    /\ \A i \in ledger + 1..MaxIndex : made \cap DOMAIN Migrated(i) = {}

(* Where an output comes from.  Its message, if it is still stored, is one *)
(* that has been applied. *)
FromSnapshot(o) == o \in DOMAIN Genesis /\ outputs[o].message = NoMessage
FromTransaction(o) ==
    \E m \in TxMessages \cap seen :
        /\ o \in DOMAIN NewOutputs(m) /\ outputs[o] = NewOutputs(m)[o]
        /\ m \in messages => Included(m)
FromReceipt(o) ==
    \E i \in 1..ledger : o \in DOMAIN Migrated(i) /\ outputs[o] = Migrated(i)[o]
OriginInv ==
    \A o \in DOMAIN outputs : FromSnapshot(o) \/ FromTransaction(o) \/ FromReceipt(o)

(* An applied transaction that is stored has all its outputs and inputs    *)
(* stored, and every spent output has such a transaction that spent it.    *)
SpendingInv ==
    /\ \A m \in TxMessages : Included(m) =>
          /\ DOMAIN NewOutputs(m) \subseteq diffs[metadata[m].index].created
          /\ \A o \in DOMAIN NewOutputs(m) : outputs[o] = NewOutputs(m)[o]
          /\ \A o \in Range_(Tx[m].inputs) : o \in DOMAIN spents /\ SpentBy(o, m)
    /\ \A o \in DOMAIN spents :
          \E m \in TxMessages :
              Included(m) /\ o \in Range_(Tx[m].inputs) /\ SpentBy(o, m)

(* The stored migrations hand one treasury output on from one to the next. *)
Migrations == {i \in DOMAIN diffs : diffs[i].treasury # <<>>}
Hands(old, i) == diffs[i].treasury = <<i, old>>
TreasuryInv ==
    /\ treasury.spent \subseteq 0..ledger
    /\ \E t \in 0..ledger :
          /\ treasury.unspent = {t}
          /\ Migrations # {} => t \in Migrations
          /\ \A i \in Migrations : i <= t
          /\ \A i \in Migrations \ {t} :
                i \in treasury.spent /\ \E j \in Migrations : i < j /\ Hands(i, j)
    /\ \A i \in Migrations : \E old \in 0..i - 1 :
          /\ Hands(old, i) /\ old \in treasury.spent
          /\ \A j \in Migrations : j < i => j <= old

TablesInv ==
    MilestonesInv /\ MessagesInv /\ OutputsInv /\ MadeInv /\ OriginInv /\ SpendingInv /\ TreasuryInv

(* The sums that the balances are made of are over finite sets of outputs, *)
(* and every output has an owner, an amount and a type.                    *)
KindsInv ==
    /\ IsFiniteSet(DOMAIN outputs) /\ IsFiniteSet(messages)
    /\ \A o \in DOMAIN outputs : outputs[o] \in OutputRows
    /\ treasury \in [unspent : SUBSET (0..MaxIndex), spent : SUBSET (0..MaxIndex)]

(* The row of an address is the sum of the unspent outputs it owns.        *)
BalancesInv ==
    /\ DOMAIN balances \subseteq Addresses
    /\ \A a \in Addresses :
          readBalanceForAddress(a) = Sums(Owned(unspent, outputs, a), outputs)

(* What a stored milestone made are the outputs of the transactions it     *)
(* applied and of its own receipt, and none of it was there before.        *)
MadeBy(o, i) ==
    \/ \E m \in TxMessages : Included(m) /\ metadata[m].index = i /\ o \in DOMAIN NewOutputs(m)
    \/ i <= ledger /\ o \in DOMAIN Migrated(i)
CreatedInv ==
    \A i \in Stored :
        /\ \A o \in diffs[i].created : MadeBy(o, i) /\ o \notin DOMAIN opening
        /\ i <= ledger => \A o \in DOMAIN Migrated(i) :
              o \in diffs[i].created /\ outputs[o] = Migrated(i)[o]

(* The outputs at the pruning index that are still stored are unchanged.   *)
OpeningInv ==
    \A o \in DOMAIN opening :
        opening[o].address = outputs[o].address /\ opening[o].amount = outputs[o].amount

AccountsInv == KindsInv /\ BalancesInv /\ CreatedInv /\ OpeningInv
=============================================================================
