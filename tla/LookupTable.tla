---------------------------- MODULE LookupTable ----------------------------
(***************************************************************************)
(* The lookup table of conflicting transactions and the start of the       *)
(* database that keeps it up to date (pkg/database: New,                   *)
(* createConflictingTransactionsMessageIDsLookupTable and friends).        *)
(*                                                                         *)
(* New opens the tangle and the utxo store read-only, compares the status  *)
(* key of the table with the ledger index, and, when they differ, closes   *)
(* the stores, opens them for writing, rebuilds the table by a scan of all *)
(* message metadata, closes them and opens them read-only again.  The      *)
(* process may crash at every step, may be told to stop, and every store   *)
(* operation may fail; afterwards it is started again on what the disk     *)
(* kept.                                                                   *)
(***************************************************************************)
EXTENDS Integers, Sequences

CONSTANTS
    Addresses,        \* owners of outputs
    MessageIDs,
    Pruned,           \* "owner" of an input the utxo store does not know
    Unsupported,      \* "owner" of an input or output of an unsupported type
    MaxLedger,        \* bound: ledger indexes the databases go through
    Tangle,           \* [1..MaxLedger -> Seq(Row)]: metadata rows by ledger index
    Faults,           \* which of the faults below may happen
    SkipHealthCheck   \* ParamsDatabase.Debug

Dbs == {"tangle", "utxo"}
Modes == {"closed", "ro", "rw"}
Owners == Addresses \cup {Pruned, Unsupported}

(* One row of the metadata store with the transaction it belongs to.  The  *)
(* parties are the inputs and then the outputs of the transaction.         *)
Row == [id : MessageIDs,
        kind : {"plain", "conflicting", "undecodable"},
        payload : {"transaction", "other", "absent", "undecodable"},
        parties : Seq([side : {"input", "output"}, owner : Owners])]

ASSUME OwnersAssumption ==
    Pruned \notin Addresses /\ Unsupported \notin Addresses /\ Pruned # Unsupported
ASSUME LedgerAssumption == MaxLedger \in Nat \ {0}
ASSUME TangleAssumption == Tangle \in [1..MaxLedger -> Seq(Row)]
ASSUME FaultsAssumption == Faults \subseteq {"crash", "shutdown", "io"}
ASSUME SkipAssumption == SkipHealthCheck \in BOOLEAN

VARIABLES
    ledger,    \* ledger index stored in the utxo database
    healthy,   \* per database: neither corrupted nor tainted, right version
    network,   \* the snapshot info is readable and of the configured network
    table,     \* the table as the store returns it
    images,    \* the contents a crash may leave: the writes since the last flush
    pc,        \* where New is
    handle,    \* how each database is open
    stopped,   \* the context handed to New is done
    row, col,  \* the metadata row and the party the scan is at
    lossy      \* history: this rebuild has left something out

env  == <<ledger, healthy, network>>
disk == <<table, images>>
scan == <<row, col, lossy>>
vars == <<env, disk, pc, handle, stopped, scan>>

-----------------------------------------------------------------------------
(* Data.  A table maps (address, message ID) keys to nothing, next to one  *)
(* status key; status 0 stands for the absent key.  lossy is a history     *)
(* field: the rebuild that wrote the status key has left something out.    *)

EmptyTable == [entries |-> {}, status |-> 0, lossy |-> FALSE]
Tables == [entries : SUBSET (Addresses \X MessageIDs),
           status : 0..MaxLedger, lossy : BOOLEAN]

Rows == Tangle[ledger]
Current == Rows[row]
LastParty == IF row <= Len(Rows) THEN Len(Current.parties) ELSE 0

IsConflictingTx(r) == r.kind = "conflicting"

(* The keys one party of a row, and the whole row, contribute. *)
PartyEntries(r, c) == {<<r.parties[c].owner, r.id>>} \cap (Addresses \X MessageIDs)
RowEntries(r) ==
    IF IsConflictingTx(r) THEN UNION {PartyEntries(r, c) : c \in DOMAIN r.parties}
                          ELSE {}

(* What the table has to hold at a ledger index: reference definition. *)
Expected(index) == UNION {RowEntries(Tangle[index][i]) : i \in DOMAIN Tangle[index]}

(* ConflictingTransactionsMessageIDs without a limit. *)
Lookup(t, address) == {m \in MessageIDs : <<address, m>> \in t.entries}

(* A party and a row the rebuild can analyse. *)
AnalysableParty(p) == p.owner # Unsupported /\ (p.owner = Pruned => p.side = "input")
Analysable(r) ==
    /\ r.kind # "undecodable"
    /\ IsConflictingTx(r) => /\ r.payload = "transaction"
                             /\ \A c \in DOMAIN r.parties : AnalysableParty(r.parties[c])

-----------------------------------------------------------------------------
AllClosed == [d \in Dbs |-> "closed"]

TypeOK ==
    /\ ledger \in 1..MaxLedger
    /\ healthy \in [Dbs -> BOOLEAN]
    /\ network \in BOOLEAN
    /\ table \in Tables
    /\ images \subseteq Tables
    /\ pc \in {"down", "openRO", "check", "closeRO", "openRW", "delete", "scan",
               "entries", "status", "flush", "closeRW", "reopen", "serving", "failed"}
    /\ handle \in [Dbs -> Modes]
    /\ stopped \in BOOLEAN
    /\ row \in 1..Len(Rows) + 1
    /\ col \in 1..LastParty + 1
    /\ lossy \in BOOLEAN

Init ==
    /\ ledger \in 1..MaxLedger
    /\ healthy \in [Dbs -> BOOLEAN]
    /\ network \in BOOLEAN
    /\ table = EmptyTable
    /\ images = {EmptyTable}
    /\ pc = "down"
    /\ handle = AllClosed
    /\ stopped = FALSE
    /\ row = 1 /\ col = 1 /\ lossy = FALSE

(* The process is gone and with it everything it held in memory. *)
Vanish ==
    /\ pc' = "down"
    /\ handle' = AllClosed
    /\ stopped' = FALSE
    /\ row' = 1 /\ col' = 1 /\ lossy' = FALSE

Goto(at, next) == pc = at /\ pc' = next

(* A write reaches the store now and the disk some time later, in order. *)
Write(t) == table' = t /\ images' = images \cup {t}

-----------------------------------------------------------------------------
(* Opening and closing the pair of databases (initDatabase,                *)
(* CloseDatabases).                                                        *)

Start ==
    /\ Goto("down", "openRO")
    /\ UNCHANGED <<env, disk, handle, stopped, scan>>

(* The health check of a store, and of the network of its snapshot. *)
Healthy(d) == SkipHealthCheck \/ healthy[d]
SnapshotMatches == network
Verified == SnapshotMatches /\ \A d \in Dbs : Healthy(d)

(* A database that fails a check after it was opened is not closed again. *)
Open(at, mode, next) ==
    /\ Goto(at, IF Verified THEN next ELSE "failed")
    /\ handle' = [d \in Dbs |-> mode]
    /\ UNCHANGED <<env, disk, stopped, scan>>

(* Either store, or a read of its health or of the snapshot, may fail. *)
OpenFails(at, mode) ==
    /\ "io" \in Faults
    /\ Goto(at, "failed")
    /\ handle' \in {handle, [handle EXCEPT !["tangle"] = mode], [d \in Dbs |-> mode]}
    /\ UNCHANGED <<env, disk, stopped, scan>>

CloseDatabases(at, next) ==
    /\ Goto(at, next)
    /\ handle' = AllClosed
    /\ UNCHANGED <<env, disk, stopped, scan>>

(* Both databases are tried even when closing the first one fails. *)
CloseFails(at) ==
    /\ "io" \in Faults
    /\ Goto(at, "failed")
    /\ handle' \in {h \in [Dbs -> Modes] :
                      h # AllClosed /\ \A d \in Dbs : h[d] \in {"closed", handle[d]}}
    /\ UNCHANGED <<env, disk, stopped, scan>>

OpenReadOnly == Open("openRO", "ro", "check")
OpenForWriting == Open("openRW", "rw", "delete")
Reopen == Open("reopen", "ro", "serving")
(* Mutant: the read-only databases stay open. *)
CloseReadOnlyForgotten ==
    Goto("closeRO", "openRW") /\ UNCHANGED <<env, disk, handle, stopped, scan>>
CloseReadOnly == CloseDatabases("closeRO", "openRW")
CloseWriteMode == CloseDatabases("closeRW", "reopen")

(* Mutant: a table with any status key counts as up to date. *)
CheckStatusKeyOnly ==
    /\ Goto("check", IF table.status # 0 THEN "serving" ELSE "closeRO")
    /\ UNCHANGED <<env, disk, handle, stopped, scan>>

(* checkConflictingTransactionsMessageIDsStatus: is the table up to date? *)
CheckStatus ==
    /\ Goto("check", IF table.status = ledger THEN "serving" ELSE "closeRO")
    /\ UNCHANGED <<env, disk, handle, stopped, scan>>

(* An error that New returns after it has closed the databases. *)
GiveUp(at) ==
    /\ Goto(at, "failed")
    /\ handle' = AllClosed
    /\ UNCHANGED <<env, disk, stopped, scan>>

StoreError(at) == "io" \in Faults /\ GiveUp(at)

(* A panic ends the process with the databases as they are: nothing closes *)
(* them, and nothing is rolled back.                                       *)
Panic(at) ==
    /\ Goto(at, "failed")
    /\ UNCHANGED <<env, disk, handle, stopped, scan>>

(* ReadLedgerIndex panics when the index cannot be read. *)
LedgerIndexUnreadable == "io" \in Faults /\ (Panic("check") \/ Panic("status"))

-----------------------------------------------------------------------------
(* createConflictingTransactionsMessageIDsLookupTable.                     *)

DeleteTo(t) ==
    /\ Goto("delete", "scan")
    /\ Write(t)
    /\ row' = 1 /\ col' = 1 /\ lossy' = FALSE
    /\ UNCHANGED <<env, handle, stopped>>

(* Mutants: the delete keeps the entries, or the status key, or the status *)
(* key is set before the scan instead of after it. *)
DeleteStatusOnly == DeleteTo([table EXCEPT !.status = 0])
DeleteEntriesOnly == DeleteTo([table EXCEPT !.entries = {}])
StatusBeforeScan == DeleteTo([EmptyTable EXCEPT !.status = ledger])

(* The status key goes with the entries, in one write batch. *)
DeleteTable == DeleteTo(EmptyTable)

AtRow == pc = "scan" /\ row <= Len(Rows)

ScanRow ==
    /\ AtRow
    /\ \/ /\ Current.kind = "plain"
          /\ pc' = "scan" /\ row' = row + 1
       \/ /\ IsConflictingTx(Current) /\ Current.payload = "transaction"
          /\ pc' = "entries" /\ row' = row
    /\ col' = 1
    /\ UNCHANGED <<env, disk, handle, stopped, lossy>>

(* A metadata row that cannot be decoded, and a conflicting message that is *)
(* not there or is no transaction, are errors. *)
Unsuitable(r) ==
    \/ r.kind = "undecodable"
    \/ IsConflictingTx(r) /\ r.payload \in {"other", "absent"}

(* Mutant: a row that cannot be analysed is left out. *)
RejectRowSkips ==
    /\ AtRow /\ Unsuitable(Current)
    /\ row' = row + 1
    /\ UNCHANGED <<env, disk, pc, handle, stopped, col, lossy>>
RejectRow == AtRow /\ Unsuitable(Current) /\ GiveUp("scan")

(* MessageOrNil and Message panic when the message of a conflicting row     *)
(* cannot be read or decoded. *)
AtConflict == AtRow /\ IsConflictingTx(Current)
MessageUndecodable ==
    AtConflict /\ Current.payload = "undecodable" /\ Panic("scan")
MessageUnreadable == AtConflict /\ "io" \in Faults /\ Panic("scan")

(* Every printStatusInterval the callback looks at the context.  It ends   *)
(* the iteration without recording the error, so that the code behind it   *)
(* runs as after a complete scan.                                          *)
Abort ==
    /\ stopped /\ AtRow
    /\ pc' = "status"
    /\ lossy' = TRUE
    /\ UNCHANGED <<env, disk, handle, stopped, row, col>>

(* Mutant: the scan ends one row early. *)
EndScanEarly ==
    /\ row >= Len(Rows)
    /\ Goto("scan", "status")
    /\ UNCHANGED <<env, disk, handle, stopped, scan>>
EndScan ==
    /\ row > Len(Rows)
    /\ Goto("scan", "status")
    /\ UNCHANGED <<env, disk, handle, stopped, scan>>

AtParty == pc = "entries" /\ col <= Len(Current.parties)
Party == Current.parties[col]

NextParty == col' = col + 1 /\ UNCHANGED <<env, pc, handle, stopped, row>>

PutEntry ==
    /\ AtParty /\ Party.owner \in Addresses
    /\ Write([table EXCEPT !.entries = @ \cup {<<Party.owner, Current.id>>}])
    /\ NextParty
    /\ UNCHANGED lossy

SkipInput ==
    /\ AtParty /\ Party = [side |-> "input", owner |-> Pruned]
    /\ NextParty
    /\ UNCHANGED <<disk, lossy>>

(* The code does not tell an output that is not there from one that could  *)
(* not be read.                                                            *)
InputReadFails ==
    /\ "io" \in Faults
    /\ AtParty /\ Party.side = "input" /\ Party.owner \in Addresses
    /\ NextParty
    /\ lossy' = TRUE
    /\ UNCHANGED disk

RejectParty ==
    /\ AtParty
    /\ \/ Party.owner = Unsupported
       \/ Party.owner = Pruned /\ Party.side = "output"
    /\ GiveUp("entries")

(* Mutant: the party index is not reset. *)
RowDoneKeepsParty ==
    /\ Goto("entries", "scan")
    /\ col > Len(Current.parties)
    /\ row' = row + 1
    /\ UNCHANGED <<env, disk, handle, stopped, col, lossy>>
RowDone ==
    /\ Goto("entries", "scan")
    /\ col > Len(Current.parties)
    /\ row' = row + 1 /\ col' = 1
    /\ UNCHANGED <<env, disk, handle, stopped, lossy>>

(* Mutant: the status names the index before the current one. *)
SetStatusOffByOne ==
    /\ Goto("status", "flush")
    /\ Write([table EXCEPT !.status = ledger - 1, !.lossy = lossy])
    /\ UNCHANGED <<env, handle, stopped, scan>>
SetStatus ==
    /\ Goto("status", "flush")
    /\ Write([table EXCEPT !.status = ledger, !.lossy = lossy])
    /\ UNCHANGED <<env, handle, stopped, scan>>

FlushTable ==
    /\ Goto("flush", "closeRW")
    /\ images' = {table}
    /\ UNCHANGED <<env, table, handle, stopped, scan>>

-----------------------------------------------------------------------------
(* The end of the process, and what happens to it and around it.           *)

(* The "Close database" worker, and everything New returned an error for. *)
Stop ==
    /\ \/ pc = "serving" /\ stopped
       \/ pc = "failed"
    /\ Vanish
    /\ UNCHANGED <<env, disk>>

Shutdown ==
    /\ "shutdown" \in Faults
    /\ pc \notin {"down", "failed"} /\ ~stopped
    /\ stopped' = TRUE
    /\ UNCHANGED <<env, disk, pc, handle, scan>>

Crash ==
    /\ "crash" \in Faults
    /\ \E t \in images : table' = t /\ images' = {t}
    /\ Vanish
    /\ UNCHANGED env

(* The legacy node works on the databases, or the operator puts others in  *)
(* place or changes the configuration, while the process is down.          *)
LegacyNodeRuns ==
    /\ pc = "down"
    /\ ledger' \in ledger..MaxLedger
    /\ healthy' \in [Dbs -> BOOLEAN]
    /\ network' \in BOOLEAN
    /\ UNCHANGED <<disk, pc, handle, stopped, scan>>

Opening == OpenReadOnly \/ OpenForWriting \/ Reopen
Closing == CloseReadOnly \/ CloseWriteMode
Scanning == ScanRow \/ RejectRow \/ MessageUndecodable \/ EndScan \/ RowDone
Recording == PutEntry \/ SkipInput \/ RejectParty

(* What the process does of itself, *)
Step == Start \/ Opening \/ Closing \/ CheckStatus \/ DeleteTable \/ Scanning
        \/ Recording \/ SetStatus \/ FlushTable \/ Stop

(* what it does when a store operation fails, *)
StoreFailure ==
    \/ OpenFails("openRO", "ro") \/ OpenFails("openRW", "rw") \/ OpenFails("reopen", "ro")
    \/ CloseFails("closeRO") \/ CloseFails("closeRW")
    \/ \E at \in {"check", "delete", "scan", "status", "flush"} : StoreError(at)
    \/ AtParty /\ Party.owner \in Addresses /\ StoreError("entries")
    \/ LedgerIndexUnreadable
    \/ MessageUnreadable
    \/ InputReadFails

(* and what happens to it. *)
Disturbance == StoreFailure \/ Shutdown \/ Crash \/ LegacyNodeRuns

Next == Step \/ Abort \/ Disturbance

(* New and the worker run to their end, and a process that is down is      *)
(* started again.  Nothing is assumed of faults.                           *)
Fairness == WF_vars(Step)

Spec == Init /\ [][Next]_vars /\ Fairness
=============================================================================
