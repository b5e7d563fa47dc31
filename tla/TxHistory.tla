----------------------------- MODULE TxHistory -----------------------------
(***************************************************************************)
(* The transaction history endpoint (pkg/server/transactions.go).          *)
(*                                                                         *)
(* A request takes the history of an address from a 2Q cache, or collects  *)
(* it from the stores, sorts it newest first and adds it to the cache.  It *)
(* answers with a slice of it, capped to the maximum of the request.  The  *)
(* slice, the cached value and the slices of other requests share one      *)
(* array, and a CSV answer sorts its slice in place, oldest first.         *)
(*                                                                         *)
(* Requests run concurrently; the sort and the rendering go element by     *)
(* element.  Go sorts up to 12 elements by insertion.                      *)
(***************************************************************************)
EXTENDS Integers, Sequences, FiniteSets

CONSTANTS
    Requests,    \* handlers that run at the same time
    Addresses,
    Items,       \* history items: [id, milestone, conflicting]
    HistoryOf,   \* [Addresses -> SUBSET Items]: what the stores hold
    Limits,      \* effective maximum of a request (maxResultsFromContext)
    MimeTypes,   \* which of "json" and "csv" clients ask for
    CacheSize,   \* restAPI.caches.transactionHistorySize
    CsvAlone,    \* no other request is in flight while a CSV answer is made
    ReadsFail    \* reading from the stores may fail

Slots == 1..CacheSize + Cardinality(Requests)   \* arrays in use at a time
MaxLost == 1                                     \* bound: items a failed read leaves out
InsertionSortLimit == 12                         \* of sort.Slice

ASSUME ItemsAssumption ==
    /\ IsFiniteSet(Requests)
    /\ Items \subseteq [id : Nat, milestone : Nat, conflicting : BOOLEAN]
    /\ \A x, y \in Items : x.id = y.id => x = y
ASSUME HistoryAssumption ==
    /\ HistoryOf \in [Addresses -> SUBSET Items]
    /\ \A a \in Addresses :
          IsFiniteSet(HistoryOf[a]) /\ Cardinality(HistoryOf[a]) <= InsertionSortLimit
ASSUME ParameterAssumption ==
    /\ Limits \subseteq Nat /\ CacheSize \in Nat \ {0}
    /\ MimeTypes \subseteq {"json", "csv"}
    /\ CsvAlone \in BOOLEAN /\ ReadsFail \in BOOLEAN

VARIABLES
    heap,     \* the arrays
    cache,    \* txHistoryCache: address -> array
    pc,       \* where each request is
    request,  \* what it asks for: address, MIME type, limit
    slot,     \* the array its slice points to, 0 when none
    count,    \* length of its slice
    i, j,     \* position of the sort, or of the rendering
    held,     \* the two elements a swap has loaded
    body,     \* what it has rendered
    partial,  \* history: arrays from which a failed read has left items out
    resorted  \* history: how many elements of an array CSV answers have sorted

shared == <<heap, cache, partial, resorted>>
vars == <<shared, pc, request, slot, count, i, j, held, body>>

-----------------------------------------------------------------------------
(* Highest milestone first, lowest message ID first within a milestone;    *)
(* and the order of the CSV file. *)
Newer(x, y) ==
    \/ x.milestone > y.milestone
    \/ x.milestone = y.milestone /\ x.id < y.id
Older(x, y) ==
    \/ x.milestone < y.milestone
    \/ x.milestone = y.milestone /\ x.id < y.id

IsSorted(s, Before(_, _)) ==
    \A k, l \in DOMAIN s : k < l => Before(s[k], s[l])
Sorted(S, Before(_, _)) ==
    CHOOSE s \in [1..Cardinality(S) -> S] : IsSorted(s, Before)

Newest(S) == Sorted(S, Newer)
Smaller(m, n) == IF m < n THEN m ELSE n
Larger(m, n) == IF m < n THEN n ELSE m

(* A row of an answer.  JSON carries the conflict reason of the message;   *)
(* the CSV format directive %d is given the pointer to it, and prints      *)
(* where the item was allocated. *)
JsonRow(x) == [id |-> x.id, reason |-> IF x.conflicting THEN "reason" ELSE "none"]
CsvRow(x) == [id |-> x.id, reason |-> IF x.conflicting THEN "pointer" ELSE "none"]

-----------------------------------------------------------------------------
InFlight(r) == pc[r] # "idle"
Sorting(r) == pc[r] \in {"compare", "swap", "store", "store2"}
IsCsv(r) == InFlight(r) /\ request[r].mime = "csv"
Array(r) == heap[slot[r]]
NoRequest == [address |-> "none"]
Asked == [address : Addresses, mime : MimeTypes, limit : Limits]

TypeOK ==
    /\ heap \in [Slots -> Seq(Items)]
    /\ DOMAIN cache \subseteq Addresses /\ \A a \in DOMAIN cache : cache[a] \in Slots
    /\ pc \in [Requests -> {"idle", "get", "collect", "add", "cap", "compare", "swap",
                            "store", "store2", "render", "done", "failed"}]
    /\ request \in [Requests -> Asked \cup {NoRequest}]
    /\ slot \in [Requests -> Slots \cup {0}]
    /\ count \in [Requests -> Nat]
    /\ \A r \in Requests : slot[r] # 0 => count[r] <= Len(Array(r))
    /\ \A r \in Requests : Sorting(r) => j[r] \in 1..count[r]
    /\ \A r \in Requests : pc[r] = "render" => i[r] \in 1..count[r] + 1
    /\ held \in [Requests -> Seq(Items)]
    /\ partial \subseteq Slots /\ resorted \in [Slots -> Nat]

Init ==
    /\ heap = [s \in Slots |-> <<>>]
    /\ cache = <<>>
    /\ pc = [r \in Requests |-> "idle"]
    /\ request = [r \in Requests |-> NoRequest]
    /\ slot = [r \in Requests |-> 0]
    /\ count = [r \in Requests |-> 0]
    /\ i = [r \in Requests |-> 1] /\ j = [r \in Requests |-> 1]
    /\ held = [r \in Requests |-> <<>>]
    /\ body = [r \in Requests |-> <<>>]
    /\ partial = {} /\ resorted = [s \in Slots |-> 0]

Goto(r, from, to) == pc[r] = from /\ pc' = [pc EXCEPT ![r] = to]
Set(f, r, v) == [f EXCEPT ![r] = v]

(* Arrays that neither the cache nor a slice refers to are garbage. *)
Live(c, sl) == {c[a] : a \in DOMAIN c} \cup {sl[r] : r \in Requests}
FreeSlot == CHOOSE s \in Slots : s \notin Live(cache, slot)
CollectGarbage(c, sl) ==
    /\ heap' = [s \in Slots |-> IF s \in Live(c, sl) THEN heap[s] ELSE <<>>]
    /\ partial' = partial \cap Live(c, sl)
    /\ resorted' = [s \in Slots |-> IF s \in Live(c, sl) THEN resorted[s] ELSE 0]

-----------------------------------------------------------------------------
(* A client asks. *)
Arrive(r) ==
    /\ Goto(r, "idle", "get")
    /\ \E q \in Asked :
          /\ request' = Set(request, r, q)
          /\ CsvAlone => \A o \in Requests \ {r} :
                InFlight(o) => ~IsCsv(o) /\ q.mime # "csv"
    /\ UNCHANGED <<shared, slot, count, i, j, held, body>>

GetCached(r) ==
    /\ request[r].address \in DOMAIN cache
    /\ Goto(r, "get", "cap")
    /\ slot' = Set(slot, r, cache[request[r].address])
    /\ UNCHANGED <<shared, request, count, i, j, held, body>>

GetMissing(r) ==
    /\ request[r].address \notin DOMAIN cache
    /\ Goto(r, "get", "collect")
    /\ UNCHANGED <<shared, request, slot, count, i, j, held, body>>

(* The history is collected from the unspent outputs, the spent outputs    *)
(* and the lookup table, all of it, into a new array, and sorted.  A row   *)
(* with an input that cannot be read is left out like one with a pruned    *)
(* input. *)
CollectAs(r, Arrange(_)) ==
    /\ Goto(r, "collect", "add")
    /\ \E lost \in SUBSET HistoryOf[request[r].address] :
          /\ Cardinality(lost) <= IF ReadsFail THEN MaxLost ELSE 0
          /\ slot' = Set(slot, r, FreeSlot)
          /\ heap' = [heap EXCEPT ![FreeSlot] = Arrange(HistoryOf[request[r].address] \ lost)]
          /\ partial' = IF lost = {} THEN partial ELSE partial \cup {FreeSlot}
    /\ UNCHANGED <<cache, resorted, request, count, i, j, held, body>>

(* Mutants: the history is capped before it is cached, or left in the      *)
(* order of the map it was collected in. *)
CollectCapped(r) ==
    LET Capped(S) == SubSeq(Newest(S), 1, Smaller(request[r].limit, Cardinality(S)))
    IN CollectAs(r, Capped)
CollectUnsorted(r) ==
    LET Reversed(S) == [k \in 1..Cardinality(S) |-> Newest(S)[Cardinality(S) + 1 - k]]
    IN CollectAs(r, Reversed)

Collect(r) == CollectAs(r, Newest)

(* Another read fails: the answer is an error and nothing is cached. *)
CollectFails(r) ==
    /\ ReadsFail
    /\ Goto(r, "collect", "failed")
    /\ UNCHANGED <<shared, request, slot, count, i, j, held, body>>

(* A full cache gives up one entry; which one is the cache's own policy.   *)
Add(r) ==
    /\ Goto(r, "add", "cap")
    /\ LET a == request[r].address
           others == DOMAIN cache \ {a}
       IN \E kept \in SUBSET others :
            /\ Cardinality(kept) = Smaller(Cardinality(others), CacheSize - 1)
            /\ cache' = [k \in kept \cup {a} |-> IF k = a THEN slot[r] ELSE cache[k]]
            /\ CollectGarbage(cache', slot)
    /\ UNCHANGED <<request, slot, count, i, j, held, body>>

(* The slice of the answer is cut from the array, not copied. *)
CapTo(r, n) ==
    /\ Goto(r, "cap", IF request[r].mime = "csv" /\ n > 1 THEN "compare" ELSE "render")
    /\ count' = Set(count, r, n)
    /\ i' = Set(i, r, IF request[r].mime = "csv" /\ n > 1 THEN 2 ELSE 1)
    /\ j' = Set(j, r, IF request[r].mime = "csv" /\ n > 1 THEN 2 ELSE 1)
    /\ UNCHANGED <<shared, request, slot, held, body>>

(* Mutant: the limit is not compared with the length. *)
CapUnchecked(r) == CapTo(r, request[r].limit)

Cap(r) == CapTo(r, Smaller(request[r].limit, Len(Array(r))))

-----------------------------------------------------------------------------
(* transactionHistoryCSV: insertion sort of the slice, then the rows.      *)
(* A comparison reads two elements; a swap loads them and stores them in   *)
(* three more steps. *)

CompareBy(r, n, Before(_, _)) ==
    /\ pc[r] = "compare"
    /\ IF j[r] > 1 /\ Before(Array(r)[j[r]], Array(r)[j[r] - 1])
       THEN /\ pc' = Set(pc, r, "swap")
            /\ UNCHANGED <<i, j>>
       ELSE IF i[r] < n
       THEN i' = Set(i, r, i[r] + 1) /\ j' = Set(j, r, i[r] + 1) /\ UNCHANGED pc
       ELSE i' = Set(i, r, 1) /\ j' = Set(j, r, 1) /\ pc' = Set(pc, r, "render")
    /\ resorted' = Set(resorted, slot[r], Larger(resorted[slot[r]], count[r]))
    /\ UNCHANGED <<heap, cache, partial, request, slot, count, held, body>>

(* Mutants: the history is sorted before it is capped, or in the order of  *)
(* the JSON answer. *)
CompareWhole(r) == CompareBy(r, Len(Array(r)), Older)
CompareNewer(r) == CompareBy(r, count[r], Newer)

Compare(r) == CompareBy(r, count[r], Older)

LoadPair(r) ==
    /\ Goto(r, "swap", "store")
    /\ held' = Set(held, r, <<Array(r)[j[r]], Array(r)[j[r] - 1]>>)
    /\ UNCHANGED <<shared, request, slot, count, i, j, body>>

StoreUpper(r) ==
    /\ Goto(r, "store", "store2")
    /\ heap' = [heap EXCEPT ![slot[r]][j[r]] = held[r][2]]
    /\ UNCHANGED <<cache, partial, resorted, request, slot, count, i, j, held, body>>

StoreLower(r) ==
    /\ Goto(r, "store2", "compare")
    /\ heap' = [heap EXCEPT ![slot[r]][j[r] - 1] = held[r][1]]
    /\ held' = Set(held, r, <<>>)
    /\ j' = Set(j, r, j[r] - 1)
    /\ UNCHANGED <<cache, partial, resorted, request, slot, count, i, body>>

RenderRow(r) ==
    /\ pc[r] = "render" /\ i[r] <= count[r]
    /\ LET Row(x) == IF request[r].mime = "csv" THEN CsvRow(x) ELSE JsonRow(x)
       IN body' = Set(body, r, Append(body[r], Row(Array(r)[i[r]])))
    /\ i' = Set(i, r, i[r] + 1)
    /\ UNCHANGED <<shared, pc, request, slot, count, j, held>>

Answer(r) ==
    /\ Goto(r, "render", "done")
    /\ i[r] > count[r]
    /\ UNCHANGED <<shared, request, slot, count, i, j, held, body>>

(* The handler returns and drops its slice. *)
Finish(r) ==
    /\ pc[r] \in {"done", "failed"}
    /\ pc' = Set(pc, r, "idle")
    /\ request' = Set(request, r, NoRequest)
    /\ slot' = Set(slot, r, 0) /\ count' = Set(count, r, 0)
    /\ i' = Set(i, r, 1) /\ j' = Set(j, r, 1)
    /\ body' = Set(body, r, <<>>)
    /\ CollectGarbage(cache, slot')
    /\ UNCHANGED <<cache, held>>

Lookup(r) == GetCached(r) \/ GetMissing(r) \/ Collect(r) \/ CollectFails(r) \/ Add(r) \/ Cap(r)
Sort(r) == Compare(r) \/ LoadPair(r) \/ StoreUpper(r) \/ StoreLower(r)
Handle(r) == Lookup(r) \/ Sort(r) \/ RenderRow(r) \/ Answer(r) \/ Finish(r)

Next == \E r \in Requests : Arrive(r) \/ Handle(r)

Spec == Init /\ [][Next]_vars

-----------------------------------------------------------------------------
(* Properties.                                                             *)

Total(a) == Cardinality(HistoryOf[a])
Ids(b) == [k \in DOMAIN b |-> b[k].id]
Cut(s, limit) == SubSeq(s, 1, Smaller(limit, Len(s)))
NewestIds(a, limit) == Ids(Cut(Newest(HistoryOf[a]), limit))

Swapping(s) == \E r \in Requests : slot[r] = s /\ pc[r] = "store2"

(* An array in the cache holds the whole history of its address, each item *)
(* once, in whatever order: requests with small limits, evictions, double  *)
(* fills and CSV answers made one at a time take nothing from it.  Only a  *)
(* read that failed while it was collected leaves an item out.             *)
CachedHistoryWhole ==
    \A a \in DOMAIN cache :
        LET s == heap[cache[a]]
            held_ == {s[k] : k \in DOMAIN s}
        IN Swapping(cache[a]) \/
             /\ Cardinality(held_) = Len(s)
             /\ held_ \subseteq HistoryOf[a]
             /\ cache[a] \in partial \/ held_ = HistoryOf[a]

(* A JSON answer lists the newest items, newest first, as many as asked    *)
(* for, while no CSV answer has been made from the same array: concurrent  *)
(* fills and evictions do not show.                                        *)
JsonFollowsOrderUnlessResorted ==
    \A r \in Requests :
        pc[r] = "done" /\ request[r].mime = "json"
          /\ slot[r] \notin partial /\ resorted[slot[r]] = 0 =>
            Ids(body[r]) = NewestIds(request[r].address, request[r].limit)

(* A CSV answer made alone is in ascending order, without a gap in its     *)
(* length and without an item twice.                                       *)
CsvOldestFirst ==
    \A r \in Requests :
        pc[r] = "done" /\ request[r].mime = "csv" =>
            LET n == Len(body[r])
                Item(k) == CHOOSE x \in HistoryOf[request[r].address] : x.id = body[r][k].id
            IN /\ slot[r] \in partial \/
                    n = Smaller(request[r].limit, Total(request[r].address))
               /\ \A k, l \in 1..n : k < l => Older(Item(k), Item(l))

(* An answer lists the newest items, whatever the order: the items a CSV    *)
(* answer has sorted to the front of a shared array are still the newest   *)
(* ones for every request that asks for at least as many, from the cache   *)
(* or not.  It does not say so of a request for fewer: that one gets the   *)
(* oldest of them.                                                         *)
AnswersListNewest ==
    \A r \in Requests :
        LET ids == Ids(body[r])
            newest == NewestIds(request[r].address, request[r].limit)
        IN pc[r] = "done" /\ slot[r] \notin partial /\ resorted[slot[r]] <= count[r] =>
             /\ DOMAIN ids = DOMAIN newest
             /\ {ids[k] : k \in DOMAIN ids} = {newest[k] : k \in DOMAIN newest}

(* What the comment on the sort says of the answer: highest milestone and  *)
(* lowest message ID first.  Violated: see the run history_order.          *)
JsonNewestFirst ==
    \A r \in Requests :
        pc[r] = "done" /\ request[r].mime = "json" =>
            Ids(body[r]) = NewestIds(request[r].address, request[r].limit)

(* What the comment on the cache says: a cached history never changes; at  *)
(* least it keeps its items.  Violated by concurrent CSV answers: see the  *)
(* run history_race. *)
CachedHistoryKeepsItems ==
    \A a \in DOMAIN cache :
        (\A r \in Requests : ~Sorting(r)) =>
            {heap[cache[a]][k] : k \in DOMAIN heap[cache[a]]} = HistoryOf[a]

(* What the documentation of the item says of the conflict reason: why the *)
(* message conflicts.  Violated by the CSV column: see history_reason.     *)
ReasonIsShown ==
    \A r \in Requests : \A k \in DOMAIN body[r] : body[r][k].reason # "pointer"
=============================================================================
