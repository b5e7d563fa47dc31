------------------------- MODULE TxHistoryInvariant -------------------------
(***************************************************************************)
(* What holds of the shared arrays at every step of the history endpoint,  *)
(* also in the middle of a sort: which address an array is for, what it    *)
(* holds, how far a sort has come, and what of it has been rendered.       *)
(***************************************************************************)
EXTENDS TxHistory

Rows == [id : Nat, reason : {"reason", "pointer", "none"}]

(* The cache or a slice refers to array s with the history of address a.   *)
UsedFor(s, a) ==
    \/ a \in DOMAIN cache /\ cache[a] = s
    \/ \E r \in Requests : slot[r] = s /\ request[r].address = a

(* A request has an array from the moment it has been collected, and the   *)
(* cache has no more entries than it has room for.                         *)
SlotsInv ==
    /\ \A r \in Requests :
          /\ slot[r] = 0 <=> pc[r] \in {"idle", "get", "collect", "failed"}
          /\ InFlight(r) => request[r] \in Asked
          /\ Sorting(r) => request[r].mime = "csv"
    /\ IsFiniteSet(DOMAIN cache) /\ Cardinality(DOMAIN cache) <= CacheSize

(* An array holds the history of one address.                              *)
SharedInv ==
    \A s \in Slots : \A a, b \in Addresses : UsedFor(s, a) /\ UsedFor(s, b) => a = b

(* An array keeps its length, and behind what CSV answers have sorted, its *)
(* order.                                                                  *)
ArraysInv ==
    \A s \in Slots : \A a \in Addresses :
        UsedFor(s, a) =>
            \E S \in SUBSET HistoryOf[a] :
                /\ Len(heap[s]) = Cardinality(S)
                /\ s \notin partial => S = HistoryOf[a]
                /\ \A k \in 1..Len(heap[s]) :
                      k > resorted[s] => heap[s][k] = Newest(S)[k]

(* A sort moves within its slice.  Between the steps of a swap it knows    *)
(* two elements, the order of which it is about to change.                 *)
StepsInv ==
    /\ i \in [Requests -> Nat] /\ j \in [Requests -> Nat]
    /\ \A r \in Requests :
          /\ Sorting(r) => i[r] \in 2..count[r] /\ j[r] \in 1..i[r]
          /\ pc[r] \in {"swap", "store", "store2"} => j[r] > 1 /\ count[r] <= resorted[slot[r]]
          /\ pc[r] \in {"store", "store2"} => held[r] \in Items \X Items

(* What a request renders is a part of its array as long as nothing sorts  *)
(* that array.                                                             *)
BodyInv ==
    /\ body \in [Requests -> Seq(Rows)]
    /\ \A r \in Requests :
          /\ pc[r] \notin {"render", "done"} => body[r] = <<>>
          /\ pc[r] = "render" => Len(body[r]) = i[r] - 1
          /\ pc[r] = "done" => Len(body[r]) = count[r]
          /\ count[r] = IF Sorting(r) \/ pc[r] \in {"render", "done"}
                        THEN Smaller(request[r].limit, Len(Array(r))) ELSE 0
          /\ pc[r] \in {"render", "done"}
               /\ (resorted[slot[r]] = 0 \/ CsvAlone) =>
                  \A k \in 1..Len(body[r]) : body[r][k].id = Array(r)[k].id

AloneInv ==
    CsvAlone => \A r, o \in Requests : r # o /\ IsCsv(r) => ~InFlight(o)

HistoryInv ==
    TypeOK /\ SlotsInv /\ SharedInv /\ ArraysInv /\ StepsInv /\ BodyInv /\ AloneInv

-----------------------------------------------------------------------------
(* With CSV answers made alone.                                            *)

(* A sequence of different items, all of the address and all there are,    *)
(* unless a read failed.                                                   *)
Whole(q, s, a) ==
    /\ \A k, l \in DOMAIN q : q[k] = q[l] => k = l
    /\ \A k \in DOMAIN q : q[k] \in HistoryOf[a]
    /\ s \notin partial => \A x \in HistoryOf[a] : \E k \in DOMAIN q : q[k] = x

(* The array a sort works on as it is after the swap under way, and the    *)
(* position of the element that is sinking.                                *)
Swapped(r) == IF pc[r] = "store2" THEN [Array(r) EXCEPT ![j[r] - 1] = held[r][1]] ELSE Array(r)
Sinking(r) == IF pc[r] = "store2" THEN j[r] - 1 ELSE j[r]

WholeInv ==
    /\ \A s \in Slots : \A a \in Addresses :
          UsedFor(s, a) /\ ~Swapping(s) => Whole(heap[s], s, a)
    /\ \A r \in Requests :
          pc[r] = "store2" => Whole(Swapped(r), slot[r], request[r].address)

(* The first elements are sorted but for the one that is sinking.          *)
InsertionInv ==
    \A r \in Requests :
        /\ Sorting(r) => \A k, l \in 1..i[r] :
              k < l /\ l # Sinking(r) => Older(Swapped(r)[k], Swapped(r)[l])
        /\ pc[r] \in {"swap", "store"} => Older(Array(r)[j[r]], Array(r)[j[r] - 1])
        /\ pc[r] = "store" => held[r] = <<Array(r)[j[r]], Array(r)[j[r] - 1]>>
        /\ pc[r] \in {"render", "done"} /\ request[r].mime = "csv" =>
              \A k, l \in 1..count[r] : k < l => Older(Array(r)[k], Array(r)[l])

SortInv == CsvAlone => WholeInv /\ InsertionInv
=============================================================================
