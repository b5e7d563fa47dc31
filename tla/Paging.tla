------------------------------- MODULE Paging -------------------------------
(***************************************************************************)
(* The list endpoints: how many of the matching rows of a store a request  *)
(* gets (maxResultsFromContext and the iterations over the key-value       *)
(* stores).                                                                *)
(*                                                                         *)
(* A store hands its rows to a callback, in key order, until the callback  *)
(* returns false.  The stores are read-only; a single request is followed  *)
(* row by row.  The rows of an address, a message or an index are numbered *)
(* in key order; the keys of outputs go by their type first.               *)
(***************************************************************************)
EXTENDS Integers, Sequences

CONSTANTS
    MaxRows,     \* bound: rows of one store
    UintRange,   \* 2^32: the limit is kept in an unsigned integer of this range
    Configured,  \* values of restAPI.limits.maxResults
    PageSizes,   \* values of the pageSize parameter
    TypeRange,   \* 2^8: an output type is an unsigned integer of this range
    TypeParams   \* values of the type parameter

ASSUME RangeAssumption ==
    /\ MaxRows \in Nat
    /\ UintRange \in Nat /\ UintRange > MaxRows + 1
    /\ Configured \subseteq Nat
    /\ PageSizes \subseteq Nat
    /\ TypeRange \in Nat /\ TypeRange > 1
    /\ TypeParams \subseteq Int

NoPageSize == -1   \* the parameter is absent or cannot be parsed

(* "iterated" endpoints list the children of a message and the messages of *)
(* an index; "outputs" the outputs of an address, "allOutputs" with       *)
(* include-spent; "history" its transactions; "receipts" takes no limit.   *)
Endpoints == {"iterated", "outputs", "allOutputs", "history", "receipts"}
Stores == {"main", "spent"}
OutputTypes == {0, 1}   \* OutputSigLockedSingleOutput, OutputSigLockedDustAllowanceOutput
RowCounts == {c \in [OutputTypes -> 0..MaxRows] : c[0] + c[1] <= MaxRows}

VARIABLES
    config,    \* RestAPILimitsMaxResults
    rows,      \* number of rows by store and type
    endpoint, pageSize,  \* what is asked for
    typeParam, \* the type parameter, the empty set without one
    limit,     \* maxResults
    pc,        \* "idle", the store being iterated, "answered", "refused", "error"
    pos,       \* rows the current iteration has handed to the callback
    maxCount,  \* opt.maxResultCount of the current iteration, 0 for none
    found      \* what has been collected: pairs of store and row

vars == <<config, rows, endpoint, pageSize, typeParam, limit, pc, pos, maxCount, found>>
asked == <<config, rows, endpoint, pageSize, typeParam, limit>>

Smaller(m, n) == IF m < n THEN m ELSE n

NoRows == [t \in OutputTypes |-> 0]
OutputEndpoints == {"outputs", "allOutputs"}
StoresOf(e) == IF e = "allOutputs" THEN Stores ELSE {"main"}

-----------------------------------------------------------------------------
(* Mutant: the integer of the configuration is not cut. *)
MaxResultsUncut(configured, size) ==
    IF size = NoPageSize THEN configured ELSE Smaller(size, configured)

(* The integer of the configuration is cut to 32 bits; 0 means no limit.   *)
(* A page size that cannot be parsed, or is greater than the limit, is     *)
(* ignored, a smaller one replaces it. *)
MaxResultsOf(configured, size) ==
    LET cut == configured % UintRange
        maxPageSize == IF cut = 0 THEN UintRange - 1 ELSE cut
    IN IF size = NoPageSize THEN maxPageSize ELSE Smaller(size, maxPageSize)

TypeOK ==
    /\ config \in Configured
    /\ rows \in [Stores -> RowCounts]
    /\ endpoint \in Endpoints
    /\ pageSize \in PageSizes \cup {NoPageSize}
    /\ typeParam \in {{}} \cup {{n} : n \in TypeParams}
    /\ limit \in 0..UintRange - 1
    /\ pc \in Stores \cup {"idle", "answered", "refused", "error"}
    /\ pos \in 0..MaxRows
    /\ maxCount \in 0..UintRange - 1
    /\ found \in Seq(Stores \X (1..MaxRows))

Init ==
    /\ config \in Configured
    /\ endpoint \in Endpoints
    /\ rows \in [Stores -> RowCounts]
    /\ \A s \in Stores : rows[s] # NoRows => s \in StoresOf(endpoint)
    /\ pageSize \in PageSizes \cup {NoPageSize}
    /\ typeParam \in {{}} \cup {{n} : n \in TypeParams}
    /\ endpoint \notin OutputEndpoints =>
         typeParam = {} /\ \A s \in Stores : rows[s][1] = 0
    /\ limit = 0 /\ pc = "idle" /\ pos = 0 /\ maxCount = 0 /\ found = <<>>

(* The number of the type parameter is cut to a byte; one that cannot be    *)
(* parsed is refused as one that is no type. *)
Filter == {n % TypeRange : n \in typeParam}
TypeKnown == Filter \subseteq OutputTypes

Refuse ==
    /\ pc = "idle" /\ ~TypeKnown /\ pc' = "refused"
    /\ UNCHANGED <<asked, pos, maxCount, found>>

Ask ==
    /\ pc = "idle" /\ TypeKnown /\ pc' = "main"
    /\ limit' = MaxResultsOf(config, pageSize)
    /\ maxCount' = IF endpoint \in OutputEndpoints THEN limit' ELSE 0
    /\ UNCHANGED <<config, rows, endpoint, pageSize, typeParam, pos, found>>

(* Mutant: the filter does not reach the spent outputs. *)
BeforeUnspentOnly(s) == IF Filter = {1} /\ s = "main" THEN rows[s][0] ELSE 0

(* The filter is part of the prefix of the iteration: the rows of a type    *)
(* stand together, those of type 1 behind those of type 0. *)
Before(s) == IF Filter = {1} THEN rows[s][0] ELSE 0
Matching(s) == IF Filter = {} THEN rows[s][0] + rows[s][1]
               ELSE IF Filter = {1} THEN rows[s][1] ELSE rows[s][0]

Iterating == pc \in Stores
RowLeft == Iterating /\ pos < Matching(pc)

Take == pos' = pos + 1 /\ found' = Append(found, <<pc, Before(pc) + pos + 1>>)

(* ChildrenMessageIDs, IndexMessageIDs: the row is taken, then the callback *)
(* compares the number of rows with the limit. *)
CollectKey ==
    /\ endpoint = "iterated" /\ RowLeft
    /\ Take
    /\ pc' = IF pos' <= limit THEN pc ELSE "answered"
    /\ UNCHANGED <<asked, maxCount>>

(* ForEachUnspentOutput, ForEachSpentOutput, ForEachReceiptTuple: the count *)
(* is compared first, 0 being no maximum; a row that cannot be loaded ends  *)
(* the iteration with an error.                                             *)
CollectRow ==
    /\ endpoint # "iterated" /\ RowLeft
    /\ maxCount > 0 => pos < maxCount
    /\ Take
    /\ UNCHANGED <<asked, pc, maxCount>>

RowUnreadable ==
    /\ endpoint # "iterated" /\ RowLeft
    /\ maxCount > 0 => pos < maxCount
    /\ pc' = "error"
    /\ UNCHANGED <<asked, pos, maxCount, found>>

IterationEnds ==
    /\ Iterating
    /\ pos = Matching(pc) \/ (maxCount > 0 /\ pos >= maxCount)

(* Mutant: spent outputs are listed only when there is no unspent one. *)
GoesOnWhenEmpty == pc = "main" /\ endpoint = "allOutputs" /\ Len(found) = 0 /\ limit > 0

(* outputsResponse goes on with the spent outputs, for what the unspent    *)
(* ones have left of the limit. *)
GoesOn == pc = "main" /\ endpoint = "allOutputs" /\ limit - Len(found) > 0

BeginSpentAt(p, n) ==
    /\ IterationEnds /\ GoesOn
    /\ pc' = "spent" /\ pos' = p
    /\ maxCount' = n
    /\ UNCHANGED <<asked, found>>

(* Mutants: the count is not reset; the spent outputs get the whole limit. *)
BeginSpentUnreset == BeginSpentAt(Smaller(pos, Matching("spent")), limit - Len(found))
BeginSpentAnew == BeginSpentAt(0, limit)

BeginSpent == BeginSpentAt(0, limit - Len(found))

(* The history is collected whole and cut for the answer. *)
Respond ==
    /\ IterationEnds /\ ~GoesOn
    /\ pc' = "answered"
    /\ found' = IF endpoint = "history"
                THEN SubSeq(found, 1, Smaller(limit, Len(found))) ELSE found
    /\ UNCHANGED <<asked, pos, maxCount>>

Next == Refuse \/ Ask \/ CollectKey \/ CollectRow \/ RowUnreadable \/ BeginSpent \/ Respond

Spec == Init /\ [][Next]_vars

-----------------------------------------------------------------------------
(* Properties.                                                             *)

Available == Matching("main") + (IF endpoint = "allOutputs" THEN Matching("spent") ELSE 0)

(* Rows are listed in key order without a gap, and a spent output only     *)
(* after every unspent output of the address.                              *)
RowAt(k) == IF k <= Matching("main")
            THEN <<"main", Before("main") + k>>
            ELSE <<"spent", Before("spent") + (k - Matching("main"))>>
ListedInOrder == \A k \in 1..Len(found) : found[k] = RowAt(k)

(* Every output that is listed exists and is of the type that was asked    *)
(* for, unspent or spent, up to the byte the parameter is cut to; a        *)
(* request for a type that is none is not answered.                        *)
TypeOf(row) == IF row[2] <= rows[row[1]][0] THEN 0 ELSE 1
FilterHonoured ==
    /\ pc = "answered" => \A n \in typeParam : n % TypeRange \in OutputTypes
    /\ \A k \in 1..Len(found) :
         /\ found[k][2] \in 1..rows[found[k][1]][0] + rows[found[k][1]][1]
         /\ \A n \in typeParam : TypeOf(found[k]) = n % TypeRange

(* A page shorter than its limit is the whole list: a client that sees     *)
(* fewer results than it asked for has seen all of them, on every endpoint. *)
ShortPageIsWhole ==
    pc = "answered" /\ Len(found) < limit => Len(found) = Available

(* Outputs, spent ones included, and the history never exceed a limit that *)
(* is not 0; the endpoints that count after they have taken a key exceed   *)
(* it by one at most. *)
LimitRespected ==
    pc = "answered" =>
        /\ endpoint \in OutputEndpoints \cup {"history"} /\ limit > 0 => Len(found) <= limit
        /\ endpoint = "iterated" => Len(found) <= limit + 1

(* What the configuration says: the maximum number of results that may be  *)
(* returned by an endpoint, 0 for disabled.  Violated: run paging_limit.   *)
WithinConfiguredLimit ==
    pc = "answered" /\ config > 0 => Len(found) <= config

-----------------------------------------------------------------------------
(* The inductive invariant. *)

(* What has been collected is what the iterations have handed on: all that *)
(* match of the first one when there is a second.                          *)
IterationInv ==
    /\ pc \in {"idle", "refused"} => found = <<>> /\ pos = 0
    /\ pc \in {"main", "spent", "answered", "error"} => TypeKnown
    /\ Len(found) <= Available
    /\ pc = "main" =>
         /\ Len(found) = pos /\ pos <= Matching("main")
         /\ maxCount = IF endpoint \in OutputEndpoints THEN limit ELSE 0
         /\ endpoint \in OutputEndpoints /\ limit > 0 => pos <= limit
         /\ endpoint = "iterated" => pos <= limit
    /\ pc = "spent" =>
         /\ endpoint = "allOutputs"
         /\ Len(found) = Matching("main") + pos /\ pos <= Matching("spent")
         /\ maxCount = limit - Matching("main") /\ maxCount > 0 /\ pos <= maxCount

Inv == TypeOK /\ IterationInv /\ ListedInOrder /\ ShortPageIsWhole /\ LimitRespected
=============================================================================
