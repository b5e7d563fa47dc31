----------------------- MODULE LookupTableProperties -----------------------
(***************************************************************************)
(* What has to hold of the lookup table, and the promise it implements.    *)
(***************************************************************************)
EXTENDS LookupTable

(* Whatever a crash leaves on disk, a table with a status key never holds  *)
(* an entry its ledger index does not justify, and holds all of them       *)
(* unless the rebuild that wrote the key has left something out (database  *)
(* New trusts the key alone).                                              *)
TableSound(t) ==
    t.status # 0 =>
        /\ t.entries \subseteq Expected(t.status)
        /\ t.lossy \/ t.entries = Expected(t.status)
PublishedTablesSound == TableSound(table) /\ \A t \in images : TableSound(t)

(* A database New has returned answers the lookup of every address with    *)
(* exactly the conflicting transactions of the current tangle that touch   *)
(* it, unless the rebuild has left something out.                          *)
Touches(r, address) ==
    IsConflictingTx(r) /\ \E c \in DOMAIN r.parties : r.parties[c].owner = address
ServedLookupExact ==
    pc = "serving" =>
        \A a \in Addresses :
            LET exact == {Rows[i].id : i \in {j \in DOMAIN Rows : Touches(Rows[j], a)}}
            IN /\ Lookup(table, a) \subseteq exact
               /\ table.lossy \/ Lookup(table, a) = exact

(* The databases are never opened twice: New holds both of them, in the    *)
(* mode its step needs, and none while it is about to open them.  Writes   *)
(* happen only while they are open for writing, requests only read-only.   *)
HandleDiscipline ==
    /\ pc \in {"down", "openRO", "openRW", "reopen"} => handle = AllClosed
    /\ pc \in {"check", "closeRO", "serving"} => \A d \in Dbs : handle[d] = "ro"
    /\ pc \in {"delete", "scan", "entries", "status", "flush", "closeRW"} =>
         \A d \in Dbs : handle[d] = "rw"

(* A table is never edited while its status key stands: New either leaves  *)
(* it alone or first takes the key away.  Only a crash, which brings back  *)
(* an earlier content, may set another one.                                *)
NeverEditedInPlace ==
    [][table.status # 0 /\ table' # table => table'.status = 0 \/ table' \in images]_vars

(* The faults end: from some time on no store operation fails, nobody      *)
(* stops or kills the process and the legacy node stays away.              *)
Quiet == <>[][~Disturbance]_vars

(* The databases can be opened and every row of the tangle analysed. *)
Servable == Verified /\ \A i \in DOMAIN Rows : Analysable(Rows[i])

(* Once the faults end, the database of a sound node is served with an     *)
(* up-to-date table, whatever was left behind by crashed, stopped and      *)
(* failed attempts before.                                                 *)
EventuallyServes ==
    Quiet => <>[](Servable => pc = "serving" /\ table.status = ledger)

(* A table that is served, and nothing of which was left out, was made     *)
(* from a tangle New could analyse to the last row and party: a message or *)
(* metadata entry that cannot be read makes New fail, whenever it is       *)
(* stopped or killed and started again.                                    *)
ServedTangleAnalysable ==
    pc = "serving" /\ ~table.lossy => \A i \in DOMAIN Rows : Analysable(Rows[i])

-----------------------------------------------------------------------------
(* The promise: what is published is the table under its status key. *)

Pub(t) == IF t.status = 0 THEN [status |-> 0, entries |-> {}]
                          ELSE [status |-> t.status, entries |-> t.entries]

(* Only a shutdown and a read error make a rebuild leave something out. *)
MayLoseEntries == Faults \cap {"shutdown", "io"} # {}

Promise == INSTANCE TablePublication WITH
    Complete <- Expected,
    MayLoseEntries <- MayLoseEntries,
    published <- Pub(table),
    durable <- {Pub(t) : t \in images},
    serving <- pc = "serving"

(* The rebuild, step by step, keeps the promise of TablePublication: to    *)
(* readers the table changes from none to a whole one in a single step.    *)
PublishesAtomically == Promise!Spec

-----------------------------------------------------------------------------
(* The inductive invariant: what holds in the middle of a rebuild.         *)

Rebuilding == pc \in {"scan", "entries", "status"}

(* Rows before the current one, and parties of the current row before the  *)
(* current one, are in the table already. *)
ScannedRows == UNION {RowEntries(Rows[i]) : i \in 1..row - 1}
ScannedParties ==
    IF pc = "entries" THEN UNION {PartyEntries(Current, c) : c \in 1..col - 1} ELSE {}
DoneEntries == ScannedRows \cup ScannedParties

RebuildProgress ==
    Rebuilding =>
        /\ table.status = 0
        /\ table.entries \subseteq Expected(ledger)
        /\ lossy \/ table.entries = DoneEntries
        /\ pc = "entries" => row <= Len(Rows) /\ IsConflictingTx(Current)
        /\ pc = "status" => lossy \/ row = Len(Rows) + 1

UpToDate == pc \in {"flush", "closeRW", "reopen", "serving"} => table.status = ledger

(* The position of the scan is reset with the process, and a row is only  *)
(* taken apart while it is a conflicting transaction. *)
ScanPosition ==
    /\ pc = "down" => row = 1 /\ col = 1
    /\ pc = "entries" => row <= Len(Rows) /\ IsConflictingTx(Current)

LossyOnlyByFault ==
    /\ stopped => "shutdown" \in Faults
    /\ lossy \/ (\E t \in images : t.lossy) => MayLoseEntries

(* What has been scanned could be analysed. *)
AnalysedSoFar ==
    Rebuilding /\ ~lossy =>
        /\ \A i \in 1..row - 1 : Analysable(Rows[i])
        /\ pc = "entries" => /\ Current.payload = "transaction"
                             /\ \A c \in 1..col - 1 : AnalysableParty(Current.parties[c])
TableAnalysed(t) ==
    t.status # 0 /\ ~t.lossy =>
        \A i \in DOMAIN Tangle[t.status] : Analysable(Tangle[t.status][i])

TypeInv == TypeOK /\ table \in images /\ ScanPosition
TableInv ==
    /\ PublishedTablesSound
    /\ RebuildProgress
    /\ UpToDate
    /\ LossyOnlyByFault
    /\ AnalysedSoFar
    /\ \A t \in images : TableAnalysed(t)
Inv == TypeInv /\ HandleDiscipline /\ TableInv

(* A table that claims to be up to date with an index is complete for it:  *)
(* what the comments in the code say of the check and of an aborted        *)
(* rebuild.  It does not hold: see the run lookup_abort.                   *)
UpToDateTableIsComplete == table.status # 0 => table.entries = Expected(table.status)
=============================================================================
