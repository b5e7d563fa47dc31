-------------------------- MODULE TablePublication --------------------------
(***************************************************************************)
(* What the lookup table promises its readers, whatever the rebuild does   *)
(* in between: a table is published at once, for the ledger index it was   *)
(* made at, it is never changed while it stands, a crash brings back a     *)
(* published table or none, and it is served only while it belongs to the  *)
(* current ledger.                                                         *)
(***************************************************************************)
EXTENDS Integers

CONSTANTS
    MaxLedger,
    Complete(_),     \* the entries a table of a ledger index has to hold
    MayLoseEntries   \* a rebuild may be cut short or fail to read something

VARIABLES ledger, published, durable, serving
vars == <<ledger, published, durable, serving>>

None == [status |-> 0, entries |-> {}]

(* The tables a rebuild at an index may publish. *)
Publishable(index) ==
    [status : {index},
     entries : IF MayLoseEntries THEN SUBSET Complete(index) ELSE {Complete(index)}]

Init ==
    /\ ledger \in 1..MaxLedger
    /\ published = None
    /\ durable = {None}
    /\ serving = FALSE

Advance ==
    /\ ~serving
    /\ ledger' \in ledger..MaxLedger
    /\ UNCHANGED <<published, durable, serving>>

Replace(t) ==
    /\ ~serving
    /\ published' = t
    /\ durable' = durable \cup {t}
    /\ UNCHANGED <<ledger, serving>>

Withdraw == Replace(None)

Publish == published = None /\ \E t \in Publishable(ledger) : Replace(t)

Sync == durable' = {published} /\ UNCHANGED <<ledger, published, serving>>

Crash ==
    /\ published' \in durable
    /\ durable' = {published'}
    /\ serving' = FALSE
    /\ UNCHANGED ledger

Serve ==
    /\ published.status = ledger
    /\ serving' = TRUE
    /\ UNCHANGED <<ledger, published, durable>>

Close == serving' = FALSE /\ UNCHANGED <<ledger, published, durable>>

Next == Advance \/ Withdraw \/ Publish \/ Sync \/ Crash \/ Serve \/ Close

Spec == Init /\ [][Next]_vars
=============================================================================
