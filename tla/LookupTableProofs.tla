------------------------- MODULE LookupTableProofs -------------------------
(***************************************************************************)
(* Proofs about the lookup table, for every tangle, set of addresses and   *)
(* choice of faults.                                                       *)
(***************************************************************************)
EXTENDS LookupTableProperties, SequenceTheorems, TLAPS

(* The tangle of every ledger index is a sequence of well-formed rows. *)
LEMMA TangleTypes ==
    ASSUME NEW index \in 1..MaxLedger
    PROVE  /\ Len(Tangle[index]) \in Nat
           /\ DOMAIN Tangle[index] = 1..Len(Tangle[index])
           /\ \A i \in 1..Len(Tangle[index]) : Tangle[index][i] \in Row
<1>1. Tangle[index] \in Seq(Row)
  BY TangleAssumption
<1> QED
  BY <1>1, ElementOfSeq

LEMMA RowTypes ==
    ASSUME NEW r \in Row
    PROVE  /\ r.id \in MessageIDs
           /\ r.kind \in {"plain", "conflicting", "undecodable"}
           /\ r.payload \in {"transaction", "other", "absent", "undecodable"}
           /\ DOMAIN r.parties = 1..Len(r.parties)
           /\ Len(r.parties) \in Nat
           /\ \A c \in 1..Len(r.parties) :
                r.parties[c].side \in {"input", "output"} /\ r.parties[c].owner \in Owners
<1> DEFINE Parties == [side : {"input", "output"}, owner : Owners]
<1>1. r.id \in MessageIDs /\ r.parties \in Seq(Parties)
  BY DEF Row
<1>2. /\ r.kind \in {"plain", "conflicting", "undecodable"}
      /\ r.payload \in {"transaction", "other", "absent", "undecodable"}
  BY DEF Row
<1>3. \A p \in Parties : p.side \in {"input", "output"} /\ p.owner \in Owners
  OBVIOUS
<1> HIDE DEF Parties
<1>4. /\ DOMAIN r.parties = 1..Len(r.parties) /\ Len(r.parties) \in Nat
      /\ \A c \in 1..Len(r.parties) : r.parties[c] \in Parties
  BY <1>1, ElementOfSeq, LenProperties
<1> QED
  BY <1>1, <1>2, <1>3, <1>4

(* The last party of the row the scan is at is a number. *)
LEMMA PositionTypes ==
    ASSUME ledger \in 1..MaxLedger, row \in 1..Len(Rows) + 1
    PROVE  /\ LastParty \in Nat
           /\ row <= Len(Rows) => LastParty = Len(Current.parties)
<1>1. CASE row <= Len(Rows)
  <2>1. Current \in Row
    BY <1>1, TangleTypes DEF Current, Rows
  <2>2. Len(Current.parties) \in Nat
    BY <2>1, RowTypes
  <2> QED
    BY <1>1, <2>2 DEF LastParty
<1>2. CASE ~(row <= Len(Rows))
  BY <1>2 DEF LastParty
<1> QED
  BY <1>1, <1>2

LEMMA FirstIndex == \A n \in Nat : 1 \in 1..n + 1
  OBVIOUS

LEMMA TypeInit == Init => TypeInv
<1> SUFFICES ASSUME Init PROVE TypeInv
  OBVIOUS
<1>1. EmptyTable \in Tables
  BY LedgerAssumption DEF EmptyTable, Tables
<1>2. row \in 1..Len(Rows) + 1 /\ col = 1
  BY TangleTypes DEF Init, Rows
<1>3. col \in 1..LastParty + 1
  BY <1>2, PositionTypes DEF Init
<1>4. AllClosed \in [Dbs -> Modes]
  BY DEF AllClosed, Modes
<1>5. TypeOK
  BY <1>1, <1>2, <1>3, <1>4 DEF Init, TypeOK
<1> QED
  BY <1>5 DEF Init, TypeInv, ScanPosition

(* Where the scan is does not change with the rest of the state. *)
LEMMA PositionStays ==
    ASSUME UNCHANGED <<ledger, row>>
    PROVE  Rows' = Rows /\ Current' = Current /\ LastParty' = LastParty
  BY DEF Rows, Current, LastParty

(* Steps that only move on, open and close the databases. *)
LEMMA TypeHandles ==
    ASSUME TypeInv, UNCHANGED <<env, disk, stopped, scan>>,
           handle' \in [Dbs -> Modes],
           pc' \in {"openRO", "check", "closeRO", "openRW", "delete", "scan", "status",
                    "flush", "closeRW", "reopen", "serving", "failed"}
    PROVE  TypeInv'
<1>1. Rows' = Rows /\ Current' = Current /\ LastParty' = LastParty
  BY PositionStays DEF env, scan
<1>2. TypeOK'
  BY <1>1 DEF TypeInv, TypeOK, env, disk, scan
<1> QED
  BY <1>1, <1>2 DEF TypeInv, ScanPosition, disk

(* The process is gone, and the store holds one of its images. *)
LEMMA TypeVanish ==
    ASSUME TypeInv, Vanish, ledger' \in 1..MaxLedger, healthy' \in [Dbs -> BOOLEAN],
           network' \in BOOLEAN,
           table' \in images',
           images' \subseteq images
    PROVE  TypeInv'
<1>1. Len(Rows') \in Nat /\ (Len(Rows') >= 1 => Rows'[1] \in Row)
  BY TangleTypes DEF Rows
<1>2. row' \in 1..Len(Rows') + 1 /\ LastParty' \in Nat
  BY <1>1, TangleTypes, RowTypes DEF Vanish, LastParty, Current, Rows
<1>3. AllClosed \in [Dbs -> Modes]
  BY DEF AllClosed, Modes
<1>4. col' \in 1..LastParty' + 1
  BY <1>2, FirstIndex DEF Vanish
<1>5. TypeOK'
  BY <1>2, <1>3, <1>4 DEF TypeInv, TypeOK, Vanish
<1> QED
  BY <1>5 DEF TypeInv, ScanPosition, Vanish

(* Writes to the table that do not move the scan. *)
LEMMA TypeWrites ==
    ASSUME TypeInv, UNCHANGED <<env, handle, stopped, row, col>>,
           lossy' \in BOOLEAN,
           pc' \in {"status", "flush", "closeRW"},
           table' \in Tables, table' \in images', images' \subseteq images \cup {table'}
    PROVE  TypeInv'
<1>1. Rows' = Rows /\ Current' = Current /\ LastParty' = LastParty
  BY PositionStays DEF env
<1>2. TypeOK'
  BY <1>1 DEF TypeInv, TypeOK, env
<1> QED
  BY <1>1, <1>2 DEF TypeInv, ScanPosition

LEMMA TypeDelete == ASSUME TypeInv, DeleteTable PROVE TypeInv'
<1>1. UNCHANGED <<env, handle, stopped>> /\ row' = 1 /\ col' = 1 /\ lossy' = FALSE
  BY DEF DeleteTable, DeleteTo
<1>2. Len(Rows') \in Nat /\ (Len(Rows') >= 1 => Rows'[1] \in Row)
  BY <1>1, TangleTypes DEF TypeInv, TypeOK, env, Rows
<1>3. row' \in 1..Len(Rows') + 1 /\ LastParty' \in Nat
  BY <1>1, <1>2, RowTypes DEF LastParty, Current
<1>4. col' \in 1..LastParty' + 1
  BY <1>1, <1>3, FirstIndex
<1>5. EmptyTable \in Tables /\ table' = EmptyTable /\ images' = images \cup {EmptyTable}
  BY LedgerAssumption DEF EmptyTable, Tables, DeleteTable, DeleteTo, Write
<1>6. pc' = "scan"
  BY DEF DeleteTable, DeleteTo, Goto
<1>7. TypeOK'
  BY <1>1, <1>3, <1>4, <1>5, <1>6 DEF TypeInv, TypeOK, env
<1> QED
  BY <1>5, <1>6, <1>7 DEF TypeInv, ScanPosition

(* The scan goes on to the next row. *)
LEMMA TypeNextRow ==
    ASSUME TypeInv, UNCHANGED <<env, handle, stopped, lossy, disk>>,
           row <= Len(Rows), row' = row + 1, col' = 1, pc' = "scan"
    PROVE  TypeInv'
<1>1. Rows' = Rows /\ Len(Rows) \in Nat /\ row \in 1..Len(Rows) + 1
  BY TangleTypes DEF TypeInv, TypeOK, env, Rows
<1>2. row' \in 1..Len(Rows') + 1
  BY <1>1
<1>3. LastParty' \in Nat
  BY <1>1, <1>2, TangleTypes, RowTypes DEF TypeInv, TypeOK, LastParty, Current, Rows
<1>4. col' \in 1..LastParty' + 1
  BY <1>3, FirstIndex
<1>5. TypeOK'
  BY <1>2, <1>4 DEF TypeInv, TypeOK, env, disk
<1> QED
  BY <1>5 DEF TypeInv, ScanPosition, disk

(* The scan takes the next party of a row. *)
LEMMA TypeNextParty ==
    ASSUME TypeInv, AtParty, NextParty, lossy' \in BOOLEAN,
           table' \in Tables, table' \in images', images' \subseteq images \cup {table'}
    PROVE  TypeInv'
<1>1. Rows' = Rows /\ Current' = Current /\ LastParty' = LastParty
  BY PositionStays DEF NextParty, env
<1>2. LastParty = Len(Current.parties) /\ LastParty \in Nat
  BY PositionTypes DEF TypeInv, TypeOK, ScanPosition, AtParty
<1>3. col' \in 1..LastParty' + 1
  BY <1>1, <1>2 DEF TypeInv, TypeOK, AtParty, NextParty
<1>4. TypeOK'
  BY <1>1, <1>3 DEF TypeInv, TypeOK, NextParty, env
<1> QED
  BY <1>1, <1>4 DEF TypeInv, ScanPosition, AtParty, NextParty

-----------------------------------------------------------------------------
(* The steps that neither write the table nor move the scan.               *)
Passive ==
    /\ UNCHANGED <<env, disk, stopped, scan>>
    /\ handle' \in [Dbs -> Modes]
    /\ \/ pc' \in {"openRO", "check", "closeRO", "openRW", "delete", "failed"}
       \/ pc = "closeRW" /\ pc' = "reopen"
       \/ pc = "reopen" /\ pc' = "serving"
       \/ pc = "check" /\ table.status = ledger /\ pc' = "serving"

Writing == DeleteTable \/ PutEntry \/ SetStatus \/ FlushTable
Walking == ScanRow \/ Abort \/ EndScan \/ RowDone \/ SkipInput \/ InputReadFails
Ending == Stop \/ Crash

LEMMA OpeningIsPassive == TypeInv /\ (Start \/ Opening \/ Closing \/ CheckStatus) => Passive
<1> SUFFICES ASSUME TypeInv, Start \/ Opening \/ Closing \/ CheckStatus PROVE Passive
  OBVIOUS
<1>1. handle \in [Dbs -> Modes] /\ AllClosed \in [Dbs -> Modes]
      /\ \A m \in Modes : [d \in Dbs |-> m] \in [Dbs -> Modes]
  BY DEF TypeInv, TypeOK, AllClosed, Modes
<1>2. "ro" \in Modes /\ "rw" \in Modes
  BY DEF Modes
<1>3. CASE Start
  BY <1>1, <1>3 DEF Start, Goto, Passive
<1>4. CASE OpenReadOnly
  BY <1>1, <1>2, <1>4 DEF OpenReadOnly, Open, Goto, Passive
<1>5. CASE OpenForWriting
  BY <1>1, <1>2, <1>5 DEF OpenForWriting, Open, Goto, Passive
<1>6. CASE Reopen
  BY <1>1, <1>2, <1>6 DEF Reopen, Open, Goto, Passive
<1>7. CASE Closing
  BY <1>1, <1>7 DEF Closing, CloseReadOnly, CloseWriteMode, CloseDatabases, Goto, Passive
<1>8. CASE CheckStatus
  BY <1>1, <1>8 DEF CheckStatus, Goto, Passive
<1> QED
  BY <1>3, <1>4, <1>5, <1>6, <1>7, <1>8 DEF Opening

LEMMA FailureIsPassive ==
    TypeInv /\ (RejectRow \/ MessageUndecodable \/ RejectParty \/ StoreFailure)
      => Passive \/ InputReadFails
<1> SUFFICES ASSUME TypeInv, RejectRow \/ MessageUndecodable \/ RejectParty \/ StoreFailure
             PROVE Passive \/ InputReadFails
  OBVIOUS
<1>1. handle \in [Dbs -> Modes] /\ AllClosed \in [Dbs -> Modes]
  BY DEF TypeInv, TypeOK, AllClosed, Modes
<1>2. ASSUME NEW at, GiveUp(at) PROVE Passive
  BY <1>1, <1>2 DEF GiveUp, Goto, Passive
<1>3. ASSUME NEW at, NEW m \in {"ro", "rw"}, OpenFails(at, m) PROVE Passive
  <2>1. [handle EXCEPT !["tangle"] = m] \in [Dbs -> Modes]
    BY <1>1 DEF Modes, Dbs
  <2>2. handle' \in [Dbs -> Modes]
    BY <1>1, <1>3, <2>1 DEF OpenFails
  <2> QED
    BY <1>3, <2>2 DEF OpenFails, Goto, Passive
<1>4. ASSUME NEW at, CloseFails(at) PROVE Passive
  BY <1>4 DEF CloseFails, Goto, Passive
<1>5. ASSUME NEW at, Panic(at) PROVE Passive
  BY <1>1, <1>5 DEF Panic, Goto, Passive
<1>6. CASE RejectRow \/ MessageUndecodable
  BY <1>2, <1>5, <1>6 DEF RejectRow, MessageUndecodable
<1>7. CASE RejectParty
  BY <1>2, <1>7 DEF RejectParty
<1>8. CASE StoreFailure
  <2>1. CASE LedgerIndexUnreadable \/ MessageUnreadable
    BY <1>5, <2>1 DEF LedgerIndexUnreadable, MessageUnreadable
  <2> QED
    BY <1>2, <1>3, <1>4, <1>8, <2>1 DEF StoreFailure, StoreError
<1> QED
  BY <1>6, <1>7, <1>8

(* One step of the system is of one of these kinds. *)
LEMMA StepKinds ==
    TypeInv /\ [Next]_vars =>
        Passive \/ Writing \/ Walking \/ Ending \/ Shutdown \/ LegacyNodeRuns
          \/ UNCHANGED vars
  BY OpeningIsPassive, FailureIsPassive
  DEF Next, Step, Scanning, Recording, Disturbance, Writing, Walking, Ending

LEMMA TypeWriting == TypeInv /\ Writing => TypeInv'
<1> SUFFICES ASSUME TypeInv, Writing PROVE TypeInv'
  OBVIOUS
<1>1. table \in Tables /\ ledger \in 0..MaxLedger /\ lossy \in BOOLEAN
      /\ images \subseteq Tables
  BY DEF TypeInv, TypeOK
<1>2. CASE DeleteTable
  BY <1>2, TypeDelete
<1>3. CASE PutEntry
  <2>1. row <= Len(Rows) /\ row \in 1..Len(Rows) + 1 /\ Len(Rows) \in Nat
    BY <1>3, TangleTypes DEF PutEntry, AtParty, TypeInv, TypeOK, ScanPosition, Rows
  <2>2. Current.id \in MessageIDs
    BY <2>1, TangleTypes, RowTypes DEF TypeInv, TypeOK, Current, Rows
  <2>3. table' = [table EXCEPT !.entries = @ \cup {<<Party.owner, Current.id>>}]
        /\ images' = images \cup {table'} /\ Party.owner \in Addresses
    BY <1>3 DEF PutEntry, Write
  <2>4. table' \in Tables
    BY <1>1, <2>2, <2>3 DEF Tables
  <2> QED
    BY <1>1, <1>3, <2>3, <2>4, TypeNextParty DEF PutEntry
<1>4. CASE SetStatus
  <2>1. [table EXCEPT !.status = ledger, !.lossy = lossy] \in Tables
    BY <1>1 DEF Tables
  <2> QED
    BY <1>1, <1>4, <2>1, TypeWrites DEF SetStatus, Write, Goto, scan
<1>5. CASE FlushTable
  BY <1>1, <1>5, TypeWrites DEF FlushTable, Goto, scan
<1> QED
  BY <1>2, <1>3, <1>4, <1>5 DEF Writing

LEMMA TypeWalking == TypeInv /\ Walking => TypeInv'
<1> SUFFICES ASSUME TypeInv, Walking PROVE TypeInv'
  OBVIOUS
<1>1. UNCHANGED <<env, disk, handle, stopped>> /\ lossy' \in BOOLEAN
  BY DEF TypeInv, TypeOK, Walking, ScanRow, Abort, EndScan, RowDone, SkipInput,
     InputReadFails, NextParty, scan
<1>2. table' \in Tables /\ table' \in images' /\ images' = images /\ images \subseteq Tables
  BY <1>1 DEF TypeInv, TypeOK, disk
<1>3. CASE SkipInput \/ InputReadFails
  BY <1>1, <1>2, <1>3, TypeNextParty DEF SkipInput, InputReadFails
<1>4. CASE Abort \/ EndScan
  BY <1>1, <1>2, <1>4, TypeWrites DEF Abort, EndScan, Goto, scan
<1>5. CASE RowDone
  BY <1>1, <1>5, TypeNextRow DEF RowDone, Goto, TypeInv, ScanPosition
<1>6. CASE ScanRow /\ pc' = "scan"
  BY <1>1, <1>6, TypeNextRow DEF ScanRow, AtRow
<1>7. CASE ScanRow /\ pc' = "entries"
  <2>1. row <= Len(Rows) /\ row' = row /\ col' = 1 /\ IsConflictingTx(Current)
    BY <1>7 DEF ScanRow, AtRow
  <2>2. Rows' = Rows /\ Current' = Current /\ LastParty' = LastParty
    BY <1>1, <2>1, PositionStays DEF env
  <2>3. col' \in 1..LastParty' + 1
    BY <2>1, <2>2, PositionTypes, FirstIndex DEF TypeInv, TypeOK
  <2>4. TypeOK'
    BY <1>1, <1>2, <1>7, <2>1, <2>2, <2>3 DEF TypeInv, TypeOK, env
  <2> QED
    BY <1>2, <1>7, <2>1, <2>2, <2>4 DEF TypeInv, ScanPosition
<1> QED
  BY <1>3, <1>4, <1>5, <1>6, <1>7 DEF Walking, ScanRow

LEMMA TypeStep == TypeInv /\ [Next]_vars => TypeInv'
<1> SUFFICES ASSUME TypeInv, [Next]_vars PROVE TypeInv'
  OBVIOUS
<1>1. CASE Passive
  BY <1>1, TypeHandles DEF Passive
<1>2. CASE Writing
  BY <1>2, TypeWriting
<1>3. CASE Walking
  BY <1>3, TypeWalking
<1>4. CASE Ending
  <2>1. UNCHANGED env /\ Vanish
    BY <1>4 DEF Ending, Stop, Crash
  <2>2. table' \in images' /\ images' \subseteq images
    BY <1>4 DEF Ending, Stop, Crash, TypeInv, disk
  <2> QED
    BY <2>1, <2>2, TypeVanish DEF TypeInv, TypeOK, env
<1>5. CASE Shutdown
  <2>1. Rows' = Rows /\ Current' = Current /\ LastParty' = LastParty
    BY <1>5, PositionStays DEF Shutdown, env, scan
  <2>2. TypeOK'
    BY <1>5, <2>1 DEF Shutdown, TypeInv, TypeOK, env, disk, scan
  <2> QED
    BY <1>5, <2>1, <2>2 DEF Shutdown, TypeInv, ScanPosition, disk, scan
<1>6. CASE LegacyNodeRuns
  <2>1. row' = 1 /\ col' = 1 /\ pc' = "down" /\ UNCHANGED <<disk, handle, stopped, lossy>>
    BY <1>6 DEF LegacyNodeRuns, TypeInv, ScanPosition, scan
  <2>2. ledger' \in 1..MaxLedger /\ healthy' \in [Dbs -> BOOLEAN] /\ network' \in BOOLEAN
    BY <1>6, LedgerAssumption DEF LegacyNodeRuns, TypeInv, TypeOK
  <2>3. Len(Rows') \in Nat /\ (Len(Rows') >= 1 => Rows'[1] \in Row)
    BY <2>2, TangleTypes DEF Rows
  <2>4. row' \in 1..Len(Rows') + 1 /\ LastParty' \in Nat
    BY <2>1, <2>3, RowTypes DEF LastParty, Current
  <2>5. col' \in 1..LastParty' + 1
    BY <2>1, <2>4, FirstIndex
  <2>6. TypeOK'
    BY <2>1, <2>2, <2>4, <2>5 DEF TypeInv, TypeOK, disk
  <2> QED
    BY <2>1, <2>6 DEF TypeInv, ScanPosition, disk
<1>7. CASE UNCHANGED vars
  <2>1. Rows' = Rows /\ Current' = Current /\ LastParty' = LastParty
    BY <1>7, PositionStays DEF vars, env, scan
  <2>2. TypeOK'
    BY <1>7, <2>1 DEF vars, TypeInv, TypeOK, env, disk, scan
  <2> QED
    BY <1>7, <2>1, <2>2 DEF vars, TypeInv, ScanPosition, disk, scan
<1> QED
  BY <1>1, <1>2, <1>3, <1>4, <1>5, <1>6, <1>7, StepKinds

LEMMA TypeInvariance == Spec => []TypeInv
<1>1. Init => TypeInv
  BY TypeInit
<1>2. TypeInv /\ [Next]_vars => TypeInv'
  BY TypeStep
<1> QED
  BY <1>1, <1>2, PTL DEF Spec

(* The state of the start, the store and the scan stay within their types: *)
(* no index runs past the rows and parties it walks along, whatever the    *)
(* faults and the advances of the ledger (pkg/database New).               *)
THEOREM TypeCorrect == Spec => []TypeOK
<1>1. TypeInv => TypeOK
  BY DEF TypeInv
<1> QED
  BY <1>1, TypeInvariance, PTL

-----------------------------------------------------------------------------
(* Handles.                                                                *)

LEMMA HandleStep == HandleDiscipline /\ [Next]_vars => HandleDiscipline'
<1> SUFFICES ASSUME HandleDiscipline, [Next]_vars PROVE HandleDiscipline'
  OBVIOUS
<1>1. CASE Start \/ CheckStatus
  BY <1>1 DEF Start, CheckStatus, Goto, HandleDiscipline
<1>2. CASE Opening
  BY <1>2
  DEF Opening, OpenReadOnly, OpenForWriting, Reopen, Open, Goto, HandleDiscipline, Dbs
<1>3. CASE Closing
  BY <1>3 DEF Closing, CloseReadOnly, CloseWriteMode, CloseDatabases, Goto, HandleDiscipline
<1>4. CASE Writing
  BY <1>4
  DEF Writing, DeleteTable, DeleteTo, PutEntry, AtParty, NextParty, SetStatus, FlushTable,
      Goto, HandleDiscipline
<1>5. CASE Walking
  BY <1>5
  DEF Walking, ScanRow, Abort, AtRow, EndScan, RowDone, SkipInput, InputReadFails, AtParty,
      NextParty, Goto, HandleDiscipline
<1>6. CASE RejectRow \/ MessageUndecodable \/ RejectParty
  BY <1>6 DEF RejectRow, MessageUndecodable, Panic, RejectParty, GiveUp, Goto, HandleDiscipline
<1>7. CASE StoreFailure
  <2>1. pc' = "failed" \/ InputReadFails
    BY <1>7
    DEF StoreFailure, OpenFails, CloseFails, StoreError, GiveUp, LedgerIndexUnreadable,
        MessageUnreadable, Panic, Goto
  <2> QED
    BY <1>5, <2>1 DEF Walking, HandleDiscipline
<1>8. CASE Ending
  BY <1>8 DEF Ending, Stop, Crash, Vanish, HandleDiscipline
<1>9. CASE Shutdown \/ LegacyNodeRuns \/ UNCHANGED vars
  BY <1>9 DEF Shutdown, LegacyNodeRuns, vars, HandleDiscipline
<1> QED
  BY <1>1, <1>2, <1>3, <1>4, <1>5, <1>6, <1>7, <1>8, <1>9
  DEF Next, Step, Scanning, Recording, Disturbance, Writing, Walking, Ending

(* New never opens a database twice, and writes only to databases it has   *)
(* opened for writing, in spite of every early return.                     *)
THEOREM HandlesKept == Spec => []HandleDiscipline
<1>1. Init => HandleDiscipline
  BY DEF Init, HandleDiscipline
<1>2. HandleDiscipline /\ [Next]_vars => HandleDiscipline'
  BY HandleStep
<1> QED
  BY <1>1, <1>2, PTL DEF Spec

-----------------------------------------------------------------------------
(* The table.                                                              *)

(* Putting the entries of a row together, party by party. *)
LEMMA RowEntriesType ==
    ASSUME NEW index \in 1..MaxLedger
    PROVE  Expected(index) \subseteq Addresses \X MessageIDs
  BY DEF Expected, RowEntries, PartyEntries

(* Every row of the tangle is part of what the table has to hold. *)
LEMMA RowInExpected ==
    ASSUME ledger \in 1..MaxLedger, NEW i \in 1..Len(Rows)
    PROVE  RowEntries(Rows[i]) \subseteq Expected(ledger)
<1>1. DOMAIN Rows = 1..Len(Rows)
  BY TangleTypes DEF Rows
<1> QED
  BY <1>1 DEF Expected, Rows

(* One more party of the current row. *)
LEMMA NextPartyEntries ==
    ASSUME TypeInv, AtParty, NextParty
    PROVE  /\ DoneEntries' = DoneEntries \cup PartyEntries(Current, col)
           /\ PartyEntries(Current, col) \subseteq Expected(ledger)
<1>1. Rows' = Rows /\ Current' = Current /\ LastParty' = LastParty /\ row' = row
      /\ ledger' = ledger
  BY PositionStays DEF NextParty, env
<1>2. LastParty = Len(Current.parties) /\ LastParty \in Nat /\ Len(Rows) \in Nat
      /\ row \in 1..Len(Rows) /\ col \in 1..LastParty
  BY PositionTypes, TangleTypes DEF TypeInv, TypeOK, ScanPosition, AtParty, Rows
<1>3. 1..col' - 1 = (1..col - 1) \cup {col}
  BY <1>2 DEF NextParty
<1>4. pc = "entries" /\ pc' = "entries"
  BY DEF AtParty, NextParty
<1>5. Current \in Row /\ DOMAIN Current.parties = 1..LastParty
  BY <1>2, TangleTypes, RowTypes DEF TypeInv, TypeOK, Current, Rows
<1>6. PartyEntries(Current, col) \subseteq RowEntries(Current)
  BY <1>2, <1>4, <1>5 DEF TypeInv, ScanPosition, RowEntries
<1>7. PartyEntries(Current, col) \subseteq Expected(ledger)
  BY <1>2, <1>6, RowInExpected DEF TypeInv, TypeOK, Current
<1>8. ScannedParties = UNION {PartyEntries(Current, c) : c \in 1..col - 1}
  BY <1>4 DEF ScannedParties
<1>9. ScannedParties' = UNION {PartyEntries(Current, c) : c \in 1..col' - 1}
  BY <1>1, <1>4 DEF ScannedParties, PartyEntries
<1>10. ScannedParties' = ScannedParties \cup PartyEntries(Current, col)
  BY <1>3, <1>8, <1>9
<1>11. ScannedRows' = ScannedRows
  BY <1>1 DEF ScannedRows, RowEntries, PartyEntries, IsConflictingTx
<1> QED
  BY <1>7, <1>10, <1>11 DEF DoneEntries

(* The current row is done. *)
LEMMA NextRowEntries ==
    ASSUME TypeInv, row <= Len(Rows), row' = row + 1, ledger' = ledger, pc' = "scan"
    PROVE  /\ DoneEntries' = ScannedRows \cup RowEntries(Current)
           /\ RowEntries(Current) \subseteq Expected(ledger)
<1>1. row \in 1..Len(Rows) /\ Rows' = Rows
  BY TangleTypes DEF TypeInv, TypeOK, Rows
<1>2. 1..row' - 1 = (1..row - 1) \cup {row}
  BY <1>1
<1>3. ScannedRows' = UNION {RowEntries(Rows[i]) : i \in 1..row' - 1}
  BY <1>1 DEF ScannedRows, RowEntries, PartyEntries, IsConflictingTx
<1>4. ScannedRows' = ScannedRows \cup RowEntries(Current)
  BY <1>2, <1>3 DEF ScannedRows, Current
<1>5. ScannedParties' = {}
  BY DEF ScannedParties
<1> QED
  BY <1>1, <1>4, <1>5, RowInExpected DEF DoneEntries, Current, TypeInv, TypeOK

(* All parties of the current row are the row. *)
LEMMA WholeRow ==
    ASSUME TypeInv, pc = "entries", col > Len(Current.parties)
    PROVE  ScannedParties = RowEntries(Current)
           /\ DOMAIN Current.parties = 1..col - 1
<1>1. LastParty = Len(Current.parties) /\ LastParty \in Nat /\ row \in 1..Len(Rows)
  BY PositionTypes, TangleTypes DEF TypeInv, TypeOK, ScanPosition, Rows
<1>2. DOMAIN Current.parties = 1..LastParty
  BY <1>1, TangleTypes, RowTypes DEF TypeInv, TypeOK, Current, Rows
<1>3. col - 1 = LastParty
  BY <1>1 DEF TypeInv, TypeOK
<1> QED
  BY <1>2, <1>3 DEF ScannedParties, RowEntries, TypeInv, ScanPosition

(* All rows are the tangle. *)
LEMMA WholeTangle ==
    ASSUME TypeInv, pc = "status", row = Len(Rows) + 1
    PROVE  DoneEntries = Expected(ledger) /\ DOMAIN Rows = 1..row - 1
<1>1. DOMAIN Rows = 1..Len(Rows) /\ Len(Rows) \in Nat
  BY TangleTypes DEF TypeInv, TypeOK, Rows
<1>2. DOMAIN Rows = 1..row - 1
  BY <1>1
<1> QED
  BY <1>2 DEF DoneEntries, ScannedRows, ScannedParties, Expected, Rows

(* Steps outside a rebuild leave the store one of its images. *)
LEMMA TableKept ==
    ASSUME TypeInv, TableInv, table' \in images', images' \subseteq images,
           ~Rebuilding',
           stopped' => stopped, lossy' => lossy,
           pc' \in {"flush", "closeRW", "reopen", "serving"} => table'.status = ledger'
    PROVE  TableInv'
<1>1. PublishedTablesSound'
  BY DEF TableInv, PublishedTablesSound
<1>2. LossyOnlyByFault'
  BY DEF TableInv, LossyOnlyByFault
<1>3. \A t \in images' : TableAnalysed(t)
  BY DEF TableInv
<1> QED
  BY <1>1, <1>2, <1>3 DEF TableInv, RebuildProgress, AnalysedSoFar, UpToDate

(* Steps inside a rebuild never set a status. *)
LEMMA TableBuilt ==
    ASSUME TypeInv, TableInv, table'.status = 0, table'.lossy => \E t \in images : t.lossy,
           table' \in images', images' \subseteq images \cup {table'},
           Rebuilding', stopped' => stopped,
           lossy' => lossy \/ MayLoseEntries,
           RebuildProgress', AnalysedSoFar'
    PROVE  TableInv'
<1>1. PublishedTablesSound'
  BY DEF TableInv, PublishedTablesSound, TableSound
<1>2. LossyOnlyByFault'
  BY DEF TableInv, LossyOnlyByFault
<1>3. \A t \in images' : TableAnalysed(t)
  BY DEF TableInv, TableAnalysed
<1>4. UpToDate'
  BY DEF Rebuilding, UpToDate
<1> QED
  BY <1>1, <1>2, <1>3, <1>4 DEF TableInv

LEMMA TableInit == Init => TableInv
  BY DEF Init, TableInv, PublishedTablesSound, TableSound, EmptyTable, RebuildProgress,
     Rebuilding, UpToDate, LossyOnlyByFault, AnalysedSoFar, TableAnalysed

LEMMA TablePassive == TypeInv /\ TableInv /\ Passive => TableInv'
<1> SUFFICES ASSUME TypeInv, TableInv, Passive PROVE TableInv'
  OBVIOUS
<1>1. table' \in images' /\ images' \subseteq images /\ table' = table /\ ledger' = ledger
      /\ stopped' = stopped /\ lossy' = lossy
  BY DEF Passive, TypeInv, disk, env, scan
<1>2. ~Rebuilding'
  BY DEF Passive, Rebuilding
<1>3. pc' \in {"flush", "closeRW", "reopen", "serving"} => table'.status = ledger'
  BY <1>1 DEF Passive, TableInv, UpToDate
<1> QED
  BY <1>1, <1>2, <1>3, TableKept

LEMMA TableEnding == TypeInv /\ TableInv /\ (Ending \/ LegacyNodeRuns) => TableInv'
<1> SUFFICES ASSUME TypeInv, TableInv, Ending \/ LegacyNodeRuns PROVE TableInv'
  OBVIOUS
<1>1. table' \in images' /\ images' \subseteq images
  BY DEF Ending, Stop, Crash, LegacyNodeRuns, TypeInv, disk
<1>2. pc' = "down" /\ (stopped' => stopped) /\ (lossy' => lossy)
  BY DEF Ending, Stop, Crash, Vanish, LegacyNodeRuns, scan
<1> QED
  BY <1>1, <1>2, TableKept DEF Rebuilding

(* A shutdown and a stutter leave table and scan alone. *)
LEMMA TableUntouched ==
    ASSUME TypeInv, TableInv, UNCHANGED <<ledger, disk, scan, pc>>,
           stopped' => stopped \/ "shutdown" \in Faults
    PROVE  TableInv'
<1>1. Rows' = Rows /\ Current' = Current /\ row' = row /\ col' = col /\ lossy' = lossy
      /\ table' = table /\ images' = images
  BY PositionStays DEF scan, disk
<1>2. RebuildProgress'
  BY <1>1 DEF TableInv, RebuildProgress, Rebuilding, DoneEntries, ScannedRows,
     ScannedParties, RowEntries, PartyEntries, IsConflictingTx, Expected
<1>3. AnalysedSoFar'
  BY <1>1 DEF TableInv, AnalysedSoFar, Rebuilding, Analysable, AnalysableParty,
     IsConflictingTx
<1>4. UpToDate' /\ LossyOnlyByFault'
  BY <1>1 DEF TableInv, UpToDate, LossyOnlyByFault
<1>5. PublishedTablesSound' /\ \A t \in images' : TableAnalysed(t)
  BY <1>1 DEF TableInv, PublishedTablesSound
<1> QED
  BY <1>2, <1>3, <1>4, <1>5 DEF TableInv

LEMMA TableDelete == TypeInv /\ TableInv /\ DeleteTable => TableInv'
<1> SUFFICES ASSUME TypeInv, TableInv, DeleteTable PROVE TableInv'
  OBVIOUS
<1>1. table' = EmptyTable /\ images' = images \cup {EmptyTable} /\ stopped' = stopped
      /\ lossy' = FALSE /\ pc' = "scan" /\ row' = 1 /\ ledger' = ledger
  BY DEF DeleteTable, DeleteTo, Write, Goto, env
<1>2. 1..row' - 1 = {}
  BY <1>1
<1>3. DoneEntries' = {}
  BY <1>1, <1>2 DEF DoneEntries, ScannedRows, ScannedParties
<1>4. RebuildProgress'
  BY <1>1, <1>3 DEF RebuildProgress, EmptyTable
<1>5. AnalysedSoFar'
  BY <1>1, <1>2 DEF AnalysedSoFar
<1>6. table'.status = 0 /\ table'.lossy = FALSE
  BY <1>1 DEF EmptyTable
<1> QED
  BY <1>1, <1>4, <1>5, <1>6, TableBuilt DEF Rebuilding

LEMMA TablePut == TypeInv /\ TableInv /\ PutEntry => TableInv'
<1> SUFFICES ASSUME TypeInv, TableInv, PutEntry PROVE TableInv'
  OBVIOUS
<1>1. UNCHANGED <<ledger, stopped, lossy, row, pc>> /\ AtParty /\ NextParty
      /\ pc = "entries" /\ Party.owner \in Addresses
  BY DEF PutEntry, NextParty, AtParty, env
<1>2. Rows' = Rows /\ Current' = Current
  BY <1>1, PositionStays
<1>3. row \in 1..Len(Rows) /\ Current \in Row
  BY <1>1, TangleTypes DEF TypeInv, TypeOK, ScanPosition, Rows, Current
<1>4. PartyEntries(Current, col) = {<<Party.owner, Current.id>>}
  BY <1>1, <1>3, RowTypes DEF PartyEntries, Party
<1>5. table' = [table EXCEPT !.entries = @ \cup PartyEntries(Current, col)]
      /\ images' = images \cup {table'} /\ table \in images /\ table \in Tables
  BY <1>4 DEF PutEntry, Write, TypeInv, TypeOK
<1>6. table'.status = table.status /\ table'.lossy = table.lossy
      /\ table'.entries = table.entries \cup PartyEntries(Current, col)
  BY <1>5 DEF Tables
<1>7. RebuildProgress'
  BY <1>1, <1>2, <1>6, NextPartyEntries
  DEF TableInv, RebuildProgress, Rebuilding, IsConflictingTx
<1>8. AnalysedSoFar'
  <2>1. \A c \in 1..col' - 1 : c \in 1..col - 1 \/ c = col
    BY <1>1 DEF NextParty, TypeInv, TypeOK
  <2>2. AnalysableParty(Current.parties[col])
    BY <1>1, OwnersAssumption DEF AnalysableParty, Party
  <2> QED
    BY <1>1, <1>2, <2>1, <2>2
    DEF TableInv, AnalysedSoFar, Rebuilding, Analysable, AnalysableParty, IsConflictingTx
<1>9. table.status = 0
  BY <1>1 DEF TableInv, RebuildProgress, Rebuilding
<1> QED
  BY <1>1, <1>5, <1>6, <1>7, <1>8, <1>9, TableBuilt DEF Rebuilding

LEMMA TableSetStatus == TypeInv /\ TableInv /\ SetStatus => TableInv'
<1> SUFFICES ASSUME TypeInv, TableInv, SetStatus PROVE TableInv'
  OBVIOUS
<1>1. UNCHANGED <<ledger, stopped, lossy, row>> /\ pc = "status" /\ pc' = "flush"
  BY DEF SetStatus, Goto, env, scan
<1>2. table' = [table EXCEPT !.status = ledger, !.lossy = lossy]
      /\ images' = images \cup {table'} /\ table \in Tables
  BY DEF SetStatus, Write, TypeInv, TypeOK
<1>3. table'.status = ledger /\ table'.lossy = lossy /\ table'.entries = table.entries
  BY <1>2 DEF Tables
<1>4. /\ table.entries \subseteq Expected(ledger)
      /\ lossy \/ table.entries = DoneEntries
      /\ lossy \/ row = Len(Rows) + 1
  BY <1>1 DEF TableInv, RebuildProgress, Rebuilding
<1>5. TableSound(table')
  BY <1>1, <1>3, <1>4, WholeTangle DEF TableSound
<1>6. PublishedTablesSound'
  BY <1>2, <1>5 DEF TableInv, PublishedTablesSound
<1>7. TableAnalysed(table')
  <2>1. lossy \/ \A i \in DOMAIN Rows : Analysable(Rows[i])
    BY <1>1, <1>4, WholeTangle DEF TableInv, AnalysedSoFar, Rebuilding
  <2> QED
    BY <1>3, <2>1 DEF TableAnalysed, Rows
<1>8. \A t \in images' : TableAnalysed(t)
  BY <1>2, <1>7 DEF TableInv
<1>9. LossyOnlyByFault'
  BY <1>1, <1>2, <1>3 DEF TableInv, LossyOnlyByFault
<1>10. UpToDate'
  BY <1>1, <1>3 DEF UpToDate
<1> QED
  BY <1>1, <1>6, <1>8, <1>9, <1>10 DEF TableInv, RebuildProgress, AnalysedSoFar, Rebuilding

LEMMA TableFlush == TypeInv /\ TableInv /\ FlushTable => TableInv'
<1> SUFFICES ASSUME TypeInv, TableInv, FlushTable PROVE TableInv'
  OBVIOUS
<1>1. UNCHANGED <<ledger, stopped, lossy, table>> /\ pc = "flush" /\ pc' = "closeRW"
      /\ images' = {table}
  BY DEF FlushTable, Goto, env, scan
<1>2. table' \in images' /\ images' \subseteq images /\ table'.status = ledger'
  BY <1>1 DEF TypeInv, TableInv, UpToDate
<1> QED
  BY <1>1, <1>2, TableKept DEF Rebuilding

(* What TableBuilt asks of a step that writes nothing. *)
LEMMA TableWalked ==
    ASSUME TypeInv, TableInv, Rebuilding, Rebuilding', UNCHANGED <<disk, stopped>>,
           lossy' => lossy \/ MayLoseEntries,
           RebuildProgress', AnalysedSoFar'
    PROVE  TableInv'
<1>1. table.status = 0
  BY DEF TableInv, RebuildProgress
<1> QED
  BY <1>1, TableBuilt DEF disk, TypeInv

LEMMA TableScanRow == TypeInv /\ TableInv /\ ScanRow => TableInv'
<1> SUFFICES ASSUME TypeInv, TableInv, ScanRow PROVE TableInv'
  OBVIOUS
<1>1. UNCHANGED <<ledger, disk, table, stopped, lossy>> /\ pc = "scan" /\ row <= Len(Rows)
      /\ col' = 1
  BY DEF ScanRow, AtRow, env, disk
<1>2. Rows' = Rows /\ ScannedParties = {}
  BY <1>1 DEF Rows, ScannedParties
<1>3. CASE pc' = "scan" /\ row' = row + 1 /\ Current.kind = "plain"
  <2>1. RowEntries(Current) = {}
    BY <1>3 DEF RowEntries, IsConflictingTx
  <2>2. RebuildProgress'
    BY <1>1, <1>2, <1>3, <2>1, NextRowEntries
    DEF TableInv, RebuildProgress, Rebuilding, DoneEntries
  <2>3. \A i \in 1..row' - 1 : i \in 1..row - 1 \/ i = row
    BY <1>3 DEF TypeInv, TypeOK
  <2>4. Analysable(Current)
    BY <1>3 DEF Analysable, IsConflictingTx
  <2>5. AnalysedSoFar'
    BY <1>1, <1>2, <1>3, <2>3, <2>4
    DEF TableInv, AnalysedSoFar, Rebuilding, Current, Analysable, AnalysableParty,
        IsConflictingTx
  <2> QED
    BY <1>1, <1>3, <2>2, <2>5, TableWalked DEF Rebuilding
<1>4. CASE pc' = "entries" /\ row' = row /\ IsConflictingTx(Current)
           /\ Current.payload = "transaction"
  <2>1. 1..col' - 1 = {}
    BY <1>1
  <2>2. Current' = Current
    BY <1>1, <1>4, PositionStays
  <2>3. ScannedParties' = {}
    BY <1>4, <2>1 DEF ScannedParties
  <2>4. ScannedRows' = ScannedRows
    BY <1>2, <1>4 DEF ScannedRows, RowEntries, PartyEntries, IsConflictingTx
  <2>5. RebuildProgress'
    BY <1>1, <1>2, <1>4, <2>2, <2>3, <2>4
    DEF TableInv, RebuildProgress, Rebuilding, DoneEntries, IsConflictingTx
  <2>6. AnalysedSoFar'
    BY <1>1, <1>2, <1>4, <2>1, <2>2
    DEF TableInv, AnalysedSoFar, Rebuilding, Analysable, AnalysableParty, IsConflictingTx
  <2> QED
    BY <1>1, <1>4, <2>5, <2>6, TableWalked DEF Rebuilding
<1> QED
  BY <1>3, <1>4 DEF ScanRow

LEMMA TableRowDone == TypeInv /\ TableInv /\ RowDone => TableInv'
<1> SUFFICES ASSUME TypeInv, TableInv, RowDone PROVE TableInv'
  OBVIOUS
<1>1. UNCHANGED <<ledger, disk, table, stopped, lossy>> /\ pc = "entries" /\ pc' = "scan"
      /\ row' = row + 1 /\ col > Len(Current.parties) /\ row <= Len(Rows)
  BY DEF RowDone, Goto, env, disk, TypeInv, ScanPosition
<1>2. Rows' = Rows
  BY <1>1 DEF Rows
<1>3. DoneEntries' = DoneEntries
  BY <1>1, NextRowEntries, WholeRow DEF DoneEntries
<1>4. RebuildProgress'
  BY <1>1, <1>3 DEF TableInv, RebuildProgress, Rebuilding
<1>5. \A i \in 1..row' - 1 : i \in 1..row - 1 \/ i = row
  BY <1>1 DEF TypeInv, TypeOK
<1>6. IsConflictingTx(Current)
  BY <1>1 DEF TypeInv, ScanPosition
<1>7. lossy \/ Analysable(Current)
  BY <1>1, <1>6, WholeRow DEF TableInv, AnalysedSoFar, Rebuilding, Analysable, IsConflictingTx
<1>8. AnalysedSoFar'
  BY <1>1, <1>2, <1>5, <1>7
  DEF TableInv, AnalysedSoFar, Rebuilding, Current, Analysable, AnalysableParty,
      IsConflictingTx
<1> QED
  BY <1>1, <1>4, <1>8, TableWalked DEF Rebuilding

LEMMA TableNextParty == TypeInv /\ TableInv /\ (SkipInput \/ InputReadFails) => TableInv'
<1> SUFFICES ASSUME TypeInv, TableInv, SkipInput \/ InputReadFails PROVE TableInv'
  OBVIOUS
<1>1. UNCHANGED <<ledger, disk, table, stopped, row, pc>> /\ AtParty /\ NextParty
      /\ pc = "entries"
  BY DEF SkipInput, InputReadFails, NextParty, AtParty, env, disk
<1>2. Rows' = Rows /\ Current' = Current
  BY <1>1, PositionStays
<1>3. CASE SkipInput
  <2>1. Party = [side |-> "input", owner |-> Pruned] /\ lossy' = lossy
    BY <1>3 DEF SkipInput
  <2>2. PartyEntries(Current, col) = {}
    BY <2>1, OwnersAssumption DEF PartyEntries, Party
  <2>3. DoneEntries' = DoneEntries
    BY <1>1, <2>2, NextPartyEntries
  <2>4. RebuildProgress'
    BY <1>1, <1>2, <2>1, <2>3 DEF TableInv, RebuildProgress, Rebuilding, IsConflictingTx
  <2>5. \A c \in 1..col' - 1 : c \in 1..col - 1 \/ c = col
    BY <1>1 DEF NextParty, TypeInv, TypeOK
  <2>6. AnalysableParty(Current.parties[col])
    BY <2>1, OwnersAssumption DEF AnalysableParty, Party
  <2>7. AnalysedSoFar'
    BY <1>1, <1>2, <2>1, <2>5, <2>6
    DEF TableInv, AnalysedSoFar, Rebuilding, Analysable, AnalysableParty, IsConflictingTx
  <2> QED
    BY <1>1, <2>1, <2>4, <2>7, TableWalked DEF Rebuilding
<1>4. CASE InputReadFails
  <2>1. lossy' = TRUE /\ MayLoseEntries
    BY <1>4 DEF InputReadFails, MayLoseEntries
  <2>2. RebuildProgress'
    BY <1>1, <1>2, <2>1 DEF TableInv, RebuildProgress, Rebuilding, IsConflictingTx
  <2>3. AnalysedSoFar'
    BY <2>1 DEF AnalysedSoFar
  <2> QED
    BY <1>1, <2>1, <2>2, <2>3, TableWalked DEF Rebuilding
<1> QED
  BY <1>3, <1>4

LEMMA TableScanEnds == TypeInv /\ TableInv /\ (Abort \/ EndScan) => TableInv'
<1> SUFFICES ASSUME TypeInv, TableInv, Abort \/ EndScan PROVE TableInv'
  OBVIOUS
<1>1. UNCHANGED <<ledger, disk, table, stopped, row, col>> /\ pc = "scan" /\ pc' = "status"
  BY DEF Abort, AtRow, EndScan, Goto, env, disk, scan
<1>2. Rows' = Rows
  BY <1>1 DEF Rows
<1>3. \/ lossy' = TRUE /\ MayLoseEntries
      \/ lossy' = lossy /\ row = Len(Rows) + 1
  BY TangleTypes
  DEF Abort, EndScan, scan, MayLoseEntries, TableInv, LossyOnlyByFault, TypeInv, TypeOK, Rows
<1>4. DoneEntries' = DoneEntries
  BY <1>1, <1>2 DEF DoneEntries, ScannedRows, ScannedParties, RowEntries, PartyEntries,
     IsConflictingTx
<1>5. RebuildProgress'
  BY <1>1, <1>2, <1>3, <1>4 DEF TableInv, RebuildProgress, Rebuilding
<1>6. AnalysedSoFar'
  BY <1>1, <1>2, <1>3
  DEF TableInv, AnalysedSoFar, Rebuilding, Analysable, AnalysableParty, IsConflictingTx
<1> QED
  BY <1>1, <1>3, <1>5, <1>6, TableWalked DEF Rebuilding

LEMMA TableStep == TypeInv /\ TableInv /\ [Next]_vars => TableInv'
<1> SUFFICES ASSUME TypeInv, TableInv, [Next]_vars PROVE TableInv'
  OBVIOUS
<1>1. CASE Passive
  BY <1>1, TablePassive
<1>2. CASE Writing
  BY <1>2, TableDelete, TablePut, TableSetStatus, TableFlush DEF Writing
<1>3. CASE Walking
  BY <1>3, TableScanRow, TableRowDone, TableNextParty, TableScanEnds DEF Walking
<1>4. CASE Ending \/ LegacyNodeRuns
  BY <1>4, TableEnding
<1>5. CASE Shutdown \/ UNCHANGED vars
  BY <1>5, TableUntouched DEF Shutdown, vars, env
<1> QED
  BY <1>1, <1>2, <1>3, <1>4, <1>5, StepKinds

(* The inductive invariant. *)
THEOREM Invariance == Spec => []Inv
<1>1. Init => TableInv
  BY TableInit
<1>2. TypeInv /\ TableInv /\ [Next]_vars => TableInv'
  BY TableStep
<1>3. Spec => []TableInv
  BY <1>1, <1>2, TypeInvariance, PTL DEF Spec
<1>4. TypeInv /\ HandleDiscipline /\ TableInv => Inv
  BY DEF Inv
<1> QED
  BY <1>3, <1>4, TypeInvariance, HandlesKept, PTL

-----------------------------------------------------------------------------
(* What follows from it.                                                   *)

(* A table on disk, or on its way there, that carries a status key holds   *)
(* the entries of that ledger index, up to what an aborted scan or a read  *)
(* error has left out; no crash changes that.                              *)
THEOREM PublishedSound == Spec => []PublishedTablesSound
<1>1. Inv => PublishedTablesSound
  BY DEF Inv, TableInv
<1> QED
  BY <1>1, Invariance, PTL

(* In the middle of a rebuild the table holds just the rows and parties    *)
(* the scan has passed, and no status key that would make it count.        *)
THEOREM ProgressKept == Spec => []RebuildProgress
<1>1. Inv => RebuildProgress
  BY DEF Inv, TableInv
<1> QED
  BY <1>1, Invariance, PTL

(* What an entry of the complete table stands for. *)
LEMMA ExpectedEntries ==
    ASSUME ledger \in 1..MaxLedger, NEW a \in Addresses
    PROVE  {m \in MessageIDs : <<a, m>> \in Expected(ledger)}
             = {Rows[i].id : i \in {j \in DOMAIN Rows : Touches(Rows[j], a)}}
<1>1. \A i \in DOMAIN Rows : Rows[i].id \in MessageIDs
  BY TangleTypes, RowTypes DEF Rows
<1>2. ASSUME NEW m \in MessageIDs, NEW i \in DOMAIN Rows
      PROVE  <<a, m>> \in RowEntries(Rows[i]) <=> Touches(Rows[i], a) /\ m = Rows[i].id
  BY <1>1, <1>2 DEF RowEntries, PartyEntries, Touches
<1>3. ASSUME NEW m \in MessageIDs
      PROVE  <<a, m>> \in Expected(ledger) <=>
               \E i \in DOMAIN Rows : <<a, m>> \in RowEntries(Rows[i])
  BY DEF Expected, Rows
<1> QED
  BY <1>1, <1>2, <1>3

LEMMA ServedFollows == Inv => ServedLookupExact
<1> SUFFICES ASSUME Inv, pc = "serving", NEW a \in Addresses
             PROVE  LET exact == {Rows[i].id : i \in {j \in DOMAIN Rows : Touches(Rows[j], a)}}
                    IN  /\ Lookup(table, a) \subseteq exact
                        /\ table.lossy \/ Lookup(table, a) = exact
  BY DEF ServedLookupExact
<1>1. ledger \in 1..MaxLedger /\ table.status = ledger
  BY DEF Inv, TypeInv, TypeOK, TableInv, UpToDate
<1>2. ledger # 0
  BY <1>1
<1>3. table.entries \subseteq Expected(ledger)
      /\ (table.lossy \/ table.entries = Expected(ledger))
  BY <1>1, <1>2 DEF Inv, TableInv, PublishedTablesSound, TableSound
<1> QED
  BY <1>1, <1>3, ExpectedEntries DEF Lookup

(* A served database answers the lookup of an address with exactly the     *)
(* conflicting transactions of the current tangle that touch it, unless    *)
(* the rebuild has left something out.                                     *)
THEOREM ServedExact == Spec => []ServedLookupExact
  BY Invariance, ServedFollows, PTL

(* No served table that misses nothing comes from a tangle with a row New  *)
(* could not analyse.                                                      *)
THEOREM ServedAnalysable == Spec => []ServedTangleAnalysable
<1>1. ASSUME Inv PROVE ServedTangleAnalysable
  <2> SUFFICES ASSUME pc = "serving", ~table.lossy
               PROVE  \A i \in DOMAIN Rows : Analysable(Rows[i])
    BY DEF ServedTangleAnalysable
  <2>1. table.status = ledger /\ ledger \in 1..MaxLedger /\ TableAnalysed(table)
    BY <1>1 DEF Inv, TypeInv, TypeOK, TableInv, UpToDate
  <2>2. ledger # 0
    BY <2>1
  <2> QED
    BY <2>1, <2>2 DEF TableAnalysed, Rows
<1>2. Inv => ServedTangleAnalysable
  BY <1>1
<1> QED
  BY <1>2, Invariance, PTL

LEMMA EditStep ==
    Inv /\ [Next]_vars =>
        (table.status # 0 /\ table' # table => table'.status = 0 \/ table' \in images)
<1> SUFFICES ASSUME Inv, [Next]_vars, table.status # 0, table' # table
             PROVE  table'.status = 0 \/ table' \in images
  OBVIOUS
<1>1. CASE Passive \/ Walking \/ Shutdown \/ LegacyNodeRuns \/ UNCHANGED vars
  BY <1>1
  DEF Passive, Walking, ScanRow, Abort, EndScan, RowDone, SkipInput, InputReadFails,
      Shutdown, LegacyNodeRuns, vars, disk
<1>2. CASE DeleteTable
  BY <1>2 DEF DeleteTable, DeleteTo, Write, EmptyTable
<1>3. CASE PutEntry \/ SetStatus
  BY <1>3
  DEF PutEntry, AtParty, SetStatus, Goto, Inv, TableInv, RebuildProgress, Rebuilding
<1>4. CASE FlushTable
  BY <1>4 DEF FlushTable
<1>5. CASE Ending
  BY <1>5 DEF Ending, Stop, Crash, disk
<1> QED
  BY <1>1, <1>2, <1>3, <1>4, <1>5, StepKinds DEF Inv, Writing

(* A table is never edited while its status key stands: a rebuild first    *)
(* takes the key away, and a crash brings back a whole earlier content.    *)
THEOREM NotEditedInPlace == Spec => NeverEditedInPlace
<1>1. Inv /\ [Next]_vars =>
        [table.status # 0 /\ table' # table => table'.status = 0 \/ table' \in images]_vars
  BY EditStep
<1> QED
  BY <1>1, Invariance, PTL DEF Spec, NeverEditedInPlace

-----------------------------------------------------------------------------
(* The rebuild implements TablePublication.                                *)

Durable == {Pub(t) : t \in images}

LEMMA PromiseInit == Init => Promise!Init
  BY DEF Init, Promise!Init, Promise!None, Pub, EmptyTable

(* Without a write, readers see at most that serving begins or ends. *)
LEMMA PromiseUnwritten ==
    ASSUME Inv, UNCHANGED <<ledger, disk>>,
           pc' = "serving" => table.status = ledger
    PROVE  [Promise!Next]_(Promise!vars)
<1>1. Pub(table)' = Pub(table) /\ Durable' = Durable /\ ledger' = ledger
  BY DEF disk, Pub, Durable
<1>2. CASE pc' = "serving"
  <2>1. table.status # 0 /\ table.status = ledger
    BY <1>2 DEF Inv, TypeInv, TypeOK
  <2>2. Pub(table).status = ledger
    BY <2>1 DEF Pub
  <2> QED
    BY <1>1, <1>2, <2>2 DEF Promise!Next, Promise!Serve, Durable
<1>3. CASE pc' # "serving"
  BY <1>1, <1>3 DEF Promise!Next, Promise!Close, Durable
<1> QED
  BY <1>2, <1>3

LEMMA PromiseStep == Inv /\ [Next]_vars => [Promise!Next]_(Promise!vars)
<1> SUFFICES ASSUME Inv, [Next]_vars PROVE [Promise!Next]_(Promise!vars)
  OBVIOUS
<1>1. CASE Passive
  <2>1. pc' = "serving" => table.status = ledger
    BY <1>1 DEF Passive, Inv, TableInv, UpToDate
  <2> QED
    BY <1>1, <2>1, PromiseUnwritten DEF Passive, env
<1>2. CASE Walking \/ Shutdown \/ UNCHANGED vars
  <2>1. UNCHANGED <<ledger, disk>> /\ (pc' = "serving" => pc = "serving")
    BY <1>2
    DEF Walking, ScanRow, Abort, EndScan, RowDone, SkipInput, InputReadFails, NextParty,
        AtParty, Goto, Shutdown, vars, env, disk
  <2> QED
    BY <2>1, PromiseUnwritten DEF Inv, TableInv, UpToDate
<1>3. CASE DeleteTable
  <2>1. pc = "delete" /\ pc' = "scan" /\ ledger' = ledger /\ table' = EmptyTable
        /\ images' = images \cup {EmptyTable}
    BY <1>3 DEF DeleteTable, DeleteTo, Write, Goto, env
  <2>2. Pub(table)' = Promise!None /\ Durable' = Durable \cup {Promise!None}
    BY <2>1 DEF Pub, Durable, EmptyTable, Promise!None
  <2>3. Promise!Withdraw
    BY <2>1, <2>2 DEF Promise!Withdraw, Promise!Replace, Durable
  <2> QED
    BY <2>3 DEF Promise!Next
<1>4. CASE PutEntry
  <2>1. pc = "entries" /\ pc' = "entries" /\ ledger' = ledger /\ table.status = 0
        /\ table'.status = 0 /\ images' = images \cup {table'} /\ table \in images
    BY <1>4
    DEF PutEntry, AtParty, NextParty, Write, env, Inv, TableInv, RebuildProgress, Rebuilding,
        TypeInv, TypeOK, Tables
  <2>2. Pub(table)' = Pub(table)
    BY <2>1 DEF Pub
  <2>3. Durable' = Durable
    BY <2>1, <2>2 DEF Durable, Pub
  <2> QED
    BY <2>1, <2>2, <2>3 DEF Promise!vars, Durable
<1>5. CASE SetStatus
  <2>1. pc = "status" /\ pc' = "flush" /\ ledger' = ledger /\ table.status = 0
        /\ table' = [table EXCEPT !.status = ledger, !.lossy = lossy]
        /\ images' = images \cup {table'} /\ ledger # 0 /\ table \in Tables
    BY <1>5
    DEF SetStatus, Write, Goto, env, Inv, TableInv, RebuildProgress, Rebuilding,
        TypeInv, TypeOK
  <2>2. /\ table.entries \subseteq Expected(ledger)
        /\ table.entries = Expected(ledger) \/ MayLoseEntries
    BY <2>1, WholeTangle
    DEF Inv, TableInv, RebuildProgress, Rebuilding, LossyOnlyByFault
  <2>3. table'.status = ledger /\ table'.entries = table.entries
    BY <2>1 DEF Tables
  <2>4. Pub(table) = Promise!None
        /\ Pub(table)' = [status |-> ledger, entries |-> table.entries]
        /\ Durable' = Durable \cup {Pub(table)'}
    BY <2>1, <2>3 DEF Pub, Durable, Promise!None
  <2>5. Pub(table)' \in Promise!Publishable(ledger)
    BY <2>2, <2>4 DEF Promise!Publishable
  <2>6. Promise!Replace(Pub(table)')
    BY <2>1, <2>4 DEF Promise!Replace, Durable
  <2> QED
    BY <2>4, <2>5, <2>6 DEF Promise!Next, Promise!Publish
<1>6. CASE FlushTable
  <2>1. pc = "flush" /\ pc' = "closeRW" /\ ledger' = ledger /\ table' = table
        /\ images' = {table}
    BY <1>6 DEF FlushTable, Goto, env
  <2>2. Pub(table)' = Pub(table) /\ Durable' = {Pub(table)}
    BY <2>1 DEF Pub, Durable
  <2> QED
    BY <2>1, <2>2 DEF Promise!Next, Promise!Sync, Durable
<1>7. CASE Crash
  <2>1. pc' = "down" /\ ledger' = ledger /\ table' \in images /\ images' = {table'}
    BY <1>7 DEF Crash, Vanish, env
  <2>2. Pub(table)' \in Durable /\ Durable' = {Pub(table)'}
    BY <2>1 DEF Pub, Durable
  <2> QED
    BY <2>1, <2>2 DEF Promise!Next, Promise!Crash, Durable
<1>8. CASE Stop
  BY <1>8, PromiseUnwritten DEF Stop, Vanish, env
<1>9. CASE LegacyNodeRuns
  <2>1. pc = "down" /\ pc' = "down" /\ ledger' \in ledger..MaxLedger
        /\ UNCHANGED <<table, images>>
    BY <1>9 DEF LegacyNodeRuns, disk
  <2>2. Pub(table)' = Pub(table) /\ Durable' = Durable
    BY <2>1 DEF Pub, Durable
  <2> QED
    BY <2>1, <2>2 DEF Promise!Next, Promise!Advance, Durable
<1> QED
  BY <1>1, <1>2, <1>3, <1>4, <1>5, <1>6, <1>7, <1>8, <1>9, StepKinds
  DEF Inv, Writing, Ending

(* To its readers the table changes at once: the rebuild, with all its     *)
(* faults, implements TablePublication.                                    *)
THEOREM RebuildPublishes == Spec => PublishesAtomically
<1>1. Init => Promise!Init
  BY PromiseInit
<1>2. Inv /\ [Next]_vars => [Promise!Next]_(Promise!vars)
  BY PromiseStep
<1> QED
  BY <1>1, <1>2, Invariance, PTL DEF Spec, PublishesAtomically, Promise!Spec

=============================================================================
