---------------------------- MODULE LegacyLedger ----------------------------
(***************************************************************************)
(* The databases the service reads: what the legacy node (Hornet, not in   *)
(* the repository) has written into the tables of the tangle and the utxo  *)
(* store, milestone by milestone, and what it has pruned.  The service     *)
(* opens them read-only, so this module holds no code of it; it makes the  *)
(* states in which the queries of LedgerQueries are asked.                 *)
(***************************************************************************)
EXTENDS Integers, Sequences, FiniteSets, FiniteSetsExt

CONSTANTS
    Addresses,
    MaxIndex,    \* bound: milestones the node confirms
    Genesis,     \* outputs of the snapshot: [OutputID -> [address, amount, type]]
    TxMessages,  \* transaction messages the tangle may hold
    Tx,          \* [TxMessages -> [tx, inputs, outputs]]
    Receipts,    \* [1..MaxIndex -> Seq([address, amount, type])]: migrated funds
    DustLimit,   \* a single output of less than this is dust
    Divisor,     \* iotago.DustAllowanceDivisor
    MaxDust      \* iotago.MaxDustOutputsOnAddress

NoMessage == <<"none">>        \* message ID of the outputs of the snapshot
MilestoneMessage(i) == <<"milestone", i>>
FirstTreasury == 0             \* treasury outputs are named by milestone

Range_(s) == {s[k] : k \in DOMAIN s}
Names(id, list) == {<<id, k>> : k \in 0..Len(list) - 1}   \* output IDs
Types == {"single", "allowance"}
Payment == [address : Addresses, amount : Nat, type : Types]

ASSUME UniverseAssumption ==
    /\ MaxIndex \in Nat \ {0}
    /\ IsFiniteSet(DOMAIN Genesis) /\ Genesis \in [DOMAIN Genesis -> Payment]
    /\ \A m \in TxMessages :
          /\ Tx[m].inputs \in Seq(Range_(Tx[m].inputs)) /\ Len(Tx[m].inputs) > 0
          /\ Tx[m].outputs \in Seq(Payment) /\ Len(Tx[m].outputs) > 0
    /\ Receipts \in [1..MaxIndex -> Seq(Payment)]
    /\ DustLimit \in Nat /\ Divisor \in Nat \ {0} /\ MaxDust \in Nat

(* Transactions, messages and outputs are named by hashes of what they are: *)
(* what is different has different names.                                  *)
ASSUME IdentityAssumption ==
    /\ \A m, n \in TxMessages : Tx[m].tx = Tx[n].tx => Tx[m] = Tx[n]
    /\ NoMessage \notin TxMessages
    /\ \A i \in 1..MaxIndex : MilestoneMessage(i) \notin TxMessages
    /\ \A m \in TxMessages : DOMAIN Genesis \cap Names(Tx[m].tx, Tx[m].outputs) = {}
    /\ \A i \in 1..MaxIndex :
          /\ DOMAIN Genesis \cap Names(MilestoneMessage(i), Receipts[i]) = {}
          /\ \A m \in TxMessages : Tx[m].tx # MilestoneMessage(i)

VARIABLES
    ledger,      \* ledger milestone index
    pruned,      \* pruning index
    writing,     \* a milestone is being applied: the databases are not at rest
    outputs,     \* table of outputs: [OutputID -> [message, address, amount, type]]
    unspent,     \* table of unspent outputs
    spents,      \* table of spent outputs: [OutputID -> [tx, index]]
    balances,    \* table of balances: [address -> [amount, allowance, dust]]
    diffs,       \* table of milestone diffs: [index -> [created, consumed, treasury]]
    treasury,    \* treasury outputs, spent and unspent
    messages,    \* messages store
    metadata,    \* metadata store: [message -> bits, referenced index, conflict]
    milestones,  \* milestones store: [index -> message]
    seen,        \* history: messages that have been referenced
    made,        \* history: outputs that have ever been made
    opening      \* history: unspent outputs when the pruning index was confirmed

vars == <<ledger, pruned, writing, outputs, unspent, spents, balances, diffs, treasury,
          messages, metadata, milestones, seen, made, opening>>

(* Rows are taken out of a table, put into it, added to it. *)
Without(f, S) == [x \in DOMAIN f \ S |-> f[x]]
Put(f, x, row) == [y \in DOMAIN f \cup {x} |-> IF y = x THEN row ELSE f[y]]
Added(f, g) == [x \in DOMAIN f \cup DOMAIN g |-> IF x \in DOMAIN f THEN f[x] ELSE g[x]]

NoDiff == [created |-> {}, consumed |-> {}, treasury |-> <<>>]

(* The outputs a transaction or a receipt makes: [OutputID -> output]. *)
Created(id, list, message) ==
    [o \in Names(id, list) |->
        [message |-> message, address |-> list[o[2] + 1].address,
         amount |-> list[o[2] + 1].amount, type |-> list[o[2] + 1].type]]
NewOutputs(m) == Created(Tx[m].tx, Tx[m].outputs, m)
Migrated(i) == Created(MilestoneMessage(i), Receipts[i], MilestoneMessage(i))

Owned(S, table, a) == {o \in S : table[o].address = a}
Worth(S, table) == MapThenSumSet(LAMBDA o : table[o].amount, S)

(* A row of the table of balances, of the outputs S; there is no row for   *)
(* an address that owns nothing. *)
IsDust(output) == output.type = "single" /\ output.amount < DustLimit
NoBalance == [amount |-> 0, allowance |-> 0, dust |-> 0]
Sums(S, table) ==
    [amount    |-> Worth(S, table),
     allowance |-> Worth({o \in S : table[o].type = "allowance"}, table),
     dust      |-> Cardinality({o \in S : IsDust(table[o])})]
Rows(row) == [a \in {b \in Addresses : row[b] # NoBalance} |-> row[a]]

(* The metadata row of a message: the bits, the milestone that references  *)
(* it, and why it conflicts. *)
Meta(index, kind, conflict) ==
    [referenced |-> index > 0, index |-> index, noTx |-> kind # "transaction",
     milestone |-> kind = "milestone", conflicting |-> conflict # "none", conflict |-> conflict]

Init ==
    /\ ledger = 0 /\ pruned = 0 /\ writing = FALSE
    /\ outputs = [o \in DOMAIN Genesis |-> [message |-> NoMessage, type |-> Genesis[o].type,
                    address |-> Genesis[o].address, amount |-> Genesis[o].amount]]
    /\ unspent = DOMAIN Genesis
    /\ spents = <<>>
    /\ balances = Rows([a \in Addresses |-> Sums(Owned(DOMAIN Genesis, Genesis, a), Genesis)])
    /\ diffs = <<>>
    /\ treasury = [unspent |-> {FirstTreasury}, spent |-> {}]
    /\ messages = {} /\ metadata = <<>> /\ milestones = <<>> /\ seen = {}
    /\ made = DOMAIN Genesis
    /\ opening = [o \in DOMAIN Genesis |-> Genesis[o]]

(* What a row of the table of outputs can be. *)
AllMessages == TxMessages \cup {MilestoneMessage(i) : i \in 1..MaxIndex}
OutputRows == [message : AllMessages \cup {NoMessage}, address : Addresses,
               amount : Nat, type : Types]

CurrentDiff == IF writing THEN diffs[ledger + 1] ELSE NoDiff

(* The rows of the balances once outputs are taken away and others added.  *)
NewRows(consumed, created) ==
    [a \in Addresses |->
        LET old == IF a \in DOMAIN balances THEN balances[a] ELSE NoBalance
            plus == Sums(Owned(DOMAIN created, created, a), created)
            minus == Sums(Owned(consumed, outputs, a), outputs)
        IN [f \in DOMAIN old |-> old[f] + plus[f] - minus[f]]]

(* An address holds no more dust outputs than its dust allowance is worth. *)
DustRule(row) == row.dust <= Min({row.allowance \div Divisor, MaxDust})

BreaksDustRule(in, new) == \E a \in Addresses : ~DustRule(NewRows(in, new)[a])

Conflict(in, new) ==
    CASE ~(in \subseteq unspent)  -> "input"
      [] BreaksDustRule(in, new) -> "dust"
      [] OTHER                   -> "none"

(* The next milestone takes outputs away and adds others. *)
Apply(consumed, created, by) ==
    /\ outputs' = Added(outputs, created)
    /\ made' = made \cup DOMAIN created
    /\ unspent' = (unspent \ consumed) \cup DOMAIN created
    /\ spents' = Added(spents, [o \in consumed |-> [tx |-> by, index |-> ledger + 1]])
    /\ balances' = Rows(NewRows(consumed, created))

(* A message arrives and is stored; no milestone references it yet. *)
Attach(m) ==
    /\ ~writing /\ m \notin messages \cup seen
    /\ messages' = messages \cup {m}
    /\ metadata' = Put(metadata, m, Meta(0, "transaction", "none"))
    /\ UNCHANGED <<ledger, pruned, writing, outputs, unspent, spents, balances, diffs,
                   treasury, milestones, seen, made, opening>>

(* A message is referenced by the next milestone, in white-flag order.  Its *)
(* transaction is applied, or conflicts because an input is not unspent or  *)
(* because an address would hold too much dust.                             *)
Reference(m) ==
    /\ ledger < MaxIndex
    /\ m \in messages \ seen /\ seen' = seen \cup {m}
    /\ writing' = TRUE
    /\ LET in == Range_(Tx[m].inputs)
           new == NewOutputs(m)
           diff == CurrentDiff
           conflict == Conflict(in, new)
       IN /\ metadata' = Put(metadata, m, Meta(ledger + 1, "transaction", conflict))
          /\ IF conflict = "none"
             THEN /\ Apply(in, new, Tx[m].tx)
                  /\ diffs' = Put(diffs, ledger + 1, [diff EXCEPT !.created = @ \cup DOMAIN new,
                                                                   !.consumed = @ \cup in])
             ELSE /\ diffs' = Put(diffs, ledger + 1, diff)
                  /\ UNCHANGED <<outputs, unspent, spents, balances, made>>
    /\ UNCHANGED <<ledger, pruned, treasury, messages, milestones, opening>>

(* The milestone itself, with the funds its receipt migrates out of the    *)
(* treasury. *)
Confirm ==
    /\ ledger < MaxIndex
    /\ LET i == ledger + 1
           m == MilestoneMessage(i)
           new == Migrated(i)
           old == CHOOSE t \in treasury.unspent : TRUE
       IN /\ messages' = messages \cup {m}
          /\ metadata' = Put(metadata, m, Meta(i, "milestone", "none"))
          /\ milestones' = Put(milestones, i, m)
          /\ Apply({}, new, m)
          /\ diffs' = Put(diffs, i, [CurrentDiff EXCEPT !.created = @ \cup DOMAIN new,
                               !.treasury = IF Receipts[i] = <<>> THEN <<>> ELSE <<i, old>>])
          /\ IF Receipts[i] = <<>>
             THEN UNCHANGED treasury
             ELSE treasury' = [unspent |-> {i}, spent |-> treasury.spent \cup {old}]
          /\ ledger' = i
    /\ writing' = FALSE
    /\ UNCHANGED <<pruned, seen, opening>>

(* The oldest milestone goes, with its messages, the outputs it spent and  *)
(* the treasury output it consumed.                                        *)
Prune ==
    /\ ~writing /\ pruned + 1 < ledger
    /\ LET i == pruned + 1
           gone == {m \in DOMAIN metadata : metadata[m].index = i}
           spent == diffs[i].consumed
       IN /\ opening' = LET fresh == diffs[i].created
                        IN [o \in (DOMAIN opening \cup fresh) \ spent |->
                              IF o \in fresh
                              THEN [address |-> outputs[o].address, amount |-> outputs[o].amount,
                                    type |-> outputs[o].type]
                              ELSE opening[o]]
          /\ messages' = messages \ gone
          /\ metadata' = Without(metadata, gone)
          /\ outputs' = Without(outputs, spent)
          /\ spents' = Without(spents, spent)
          /\ treasury' = [treasury EXCEPT !.spent =
                            @ \ {diffs[i].treasury[k] : k \in {2} \cap DOMAIN diffs[i].treasury}]
          /\ diffs' = Without(diffs, {i})
          /\ milestones' = Without(milestones, {i})
          /\ pruned' = i
    /\ UNCHANGED <<ledger, writing, unspent, balances, seen, made>>

Next == (\E m \in TxMessages : Attach(m) \/ Reference(m)) \/ Confirm \/ Prune

Spec == Init /\ [][Next]_vars
=============================================================================
