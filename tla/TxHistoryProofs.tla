--------------------------- MODULE TxHistoryProofs ---------------------------
(***************************************************************************)
(* Proofs about the history endpoint: any number of requests, addresses    *)
(* and items, any sizes.                                                   *)
(***************************************************************************)
EXTENDS TxHistoryInvariant, FiniteSetTheorems, FunctionTheorems, TLAPS

-----------------------------------------------------------------------------
(* The two orders, and the order in which a history is collected.          *)

LEMMA NewerOrder ==
    /\ \A x \in Items : ~Newer(x, x)
    /\ \A x, y \in Items : x # y => Newer(x, y) \/ Newer(y, x)
    /\ \A x, y, z \in Items : Newer(x, y) /\ Newer(y, z) => Newer(x, z)
<1>1. \A x \in Items : x.id \in Nat /\ x.milestone \in Nat
  BY ItemsAssumption
<1>2. \A x, y \in Items : x # y => x.id # y.id
  BY ItemsAssumption
<1> QED
  BY <1>1, <1>2 DEF Newer

LEMMA OlderOrder ==
    /\ \A x, y \in Items : x # y => Older(x, y) \/ Older(y, x)
    /\ \A x, y, z \in Items : Older(x, y) /\ Older(y, z) => Older(x, z)
<1>1. \A x \in Items : x.id \in Nat /\ x.milestone \in Nat
  BY ItemsAssumption
<1>2. \A x, y \in Items : x # y => x.id # y.id
  BY ItemsAssumption
<1> QED
  BY <1>1, <1>2 DEF Older

(* A finite set of items can be listed newest first: the place of an item  *)
(* is the number of items that are newer.                                  *)
LEMMA Enumeration ==
    ASSUME NEW S \in SUBSET Items, IsFiniteSet(S)
    PROVE  \E s \in [1..Cardinality(S) -> S] :
              \A k, l \in DOMAIN s : k < l => Newer(s[k], s[l])
<1> DEFINE n == Cardinality(S)
           Above(x) == {y \in S : Newer(y, x)}
           place == [x \in S |-> Cardinality(Above(x)) + 1]
<1>1. n \in Nat
  BY FS_CardinalityType
<1>2. \A x \in S : IsFiniteSet(Above(x)) /\ Cardinality(Above(x)) \in Nat
  <2> SUFFICES ASSUME NEW x \in S
               PROVE  IsFiniteSet(Above(x)) /\ Cardinality(Above(x)) \in Nat
    OBVIOUS
  <2>1. Above(x) \in SUBSET S
    OBVIOUS
  <2>2. IsFiniteSet(Above(x))
    BY <2>1, FS_Subset
  <2> QED
    BY <2>2, FS_CardinalityType
<1>3. \A x \in S : Cardinality(Above(x)) < n
  <2> SUFFICES ASSUME NEW x \in S PROVE Cardinality(Above(x)) < n
    OBVIOUS
  <2>1. Above(x) \in SUBSET S /\ Above(x) # S
    BY NewerOrder
  <2>2. Cardinality(Above(x)) <= n /\ Cardinality(Above(x)) # n
    BY <2>1, FS_Subset
  <2> QED
    BY <1>1, <1>2, <2>2
<1>4. \A x, y \in S : Newer(x, y) => place[x] < place[y]
  <2> SUFFICES ASSUME NEW x \in S, NEW y \in S, Newer(x, y) PROVE place[x] < place[y]
    OBVIOUS
  <2>1. Above(x) \in SUBSET Above(y)
    BY NewerOrder
  <2>2. Above(x) # Above(y)
    BY NewerOrder
  <2>3. Cardinality(Above(x)) <= Cardinality(Above(y))
        /\ Cardinality(Above(x)) # Cardinality(Above(y))
    BY <1>2, <2>1, <2>2, FS_Subset
  <2> QED
    BY <1>2, <2>3
<1>5. place \in [S -> 1..n]
  BY <1>1, <1>2, <1>3
<1>6. place \in Injection(S, 1..n)
  <2> HIDE DEF place
  <2>1. ASSUME NEW x \in S, NEW y \in S, x # y PROVE place[x] # place[y]
    <3>1. place[x] \in Nat /\ place[y] \in Nat
      BY <1>5, <1>1
    <3>2. Newer(x, y) \/ Newer(y, x)
      BY <2>1, NewerOrder
    <3> QED
      BY <1>4, <3>1, <3>2
  <2> QED
    BY <1>5, <2>1, Fun_IsInj
<1>7. place \in Surjection(S, 1..n)
  <2> HIDE DEF place
  <2>1. IsFiniteSet(1..n) /\ Cardinality(1..n) = n
    BY <1>1, FS_Interval
  <2> QED
    BY <1>6, <2>1, FS_Injection
<1> HIDE DEF place
<1>8. \A k \in 1..n : \E x \in S : place[x] = k
  BY <1>7 DEF Surjection
<1> DEFINE s == [k \in 1..n |-> CHOOSE x \in S : place[x] = k]
<1>9. \A k \in 1..n : s[k] \in S /\ place[s[k]] = k
  BY <1>8
<1>10. s \in [1..n -> S]
  BY <1>9
<1> HIDE DEF s
<1>11. ASSUME NEW k \in 1..n, NEW l \in 1..n, k < l PROVE Newer(s[k], s[l])
  <2>1. s[k] # s[l]
    BY <1>1, <1>9, <1>11
  <2>2. Newer(s[k], s[l]) \/ Newer(s[l], s[k])
    BY <1>9, <2>1, NewerOrder
  <2>3. ~Newer(s[l], s[k])
    BY <1>1, <1>4, <1>9, <1>11
  <2> QED
    BY <2>2, <2>3
<1>12. DOMAIN s = 1..n
  BY <1>10
<1> QED
  BY <1>10, <1>11, <1>12

(* What a collected history is: a list of the set, each item once.         *)
LEMMA NewestList ==
    ASSUME NEW S \in SUBSET Items, IsFiniteSet(S)
    PROVE  /\ Newest(S) \in Seq(Items) /\ Len(Newest(S)) = Cardinality(S)
           /\ Cardinality(S) \in Nat
           /\ DOMAIN Newest(S) = 1..Cardinality(S)
           /\ \A k, l \in DOMAIN Newest(S) : Newest(S)[k] = Newest(S)[l] => k = l
           /\ \A k \in DOMAIN Newest(S) : Newest(S)[k] \in S
           /\ \A x \in S : \E k \in DOMAIN Newest(S) : Newest(S)[k] = x
<1> DEFINE n == Cardinality(S)
           Good(s) == \A k, l \in DOMAIN s : k < l => Newer(s[k], s[l])
<1>1. n \in Nat
  BY FS_CardinalityType
<1>2. Newest(S) = CHOOSE s \in [1..n -> S] : Good(s)
  BY DEF Newest, Sorted, IsSorted
<1>3. \E s \in [1..n -> S] : Good(s)
  BY Enumeration
<1>4. Newest(S) \in [1..n -> S] /\ Good(Newest(S))
  <2> HIDE DEF Good
  <2> QED
    BY <1>2, <1>3
<1>5. PICK s : s = Newest(S)
  OBVIOUS
<1>6. s \in [1..n -> S] /\ Good(s) /\ DOMAIN s = 1..n
  BY <1>4, <1>5
<1>7. \A k, l \in 1..n : s[k] = s[l] => k = l
  <2> SUFFICES ASSUME NEW k \in 1..n, NEW l \in 1..n, s[k] = s[l], k # l PROVE FALSE
    OBVIOUS
  <2>1. s[k] \in Items /\ s[l] \in Items
    BY <1>6
  <2>2. k < l \/ l < k
    BY <1>1
  <2>3. Newer(s[k], s[l]) \/ Newer(s[l], s[k])
    BY <1>6, <2>2
  <2> QED
    BY <2>1, <2>3, NewerOrder
<1>8. \A x \in S : \E k \in 1..n : s[k] = x
  <2>1. s \in Injection(1..n, S)
    BY <1>6, <1>7, Fun_IsInj
  <2>2. Cardinality(1..n) = n
    BY <1>1, FS_Interval
  <2>3. s \in Surjection(1..n, S)
    BY <2>1, <2>2, FS_Injection
  <2> QED
    BY <2>3 DEF Surjection
<1>9. s \in Seq(Items) /\ Len(s) = n
  BY <1>1, <1>6
<1> QED
  BY <1>1, <1>5, <1>6, <1>7, <1>8, <1>9

(* Every part of a history is a finite set of items.                       *)
LEMMA Parts ==
    ASSUME NEW a \in Addresses, NEW S \in SUBSET HistoryOf[a]
    PROVE  S \in SUBSET Items /\ IsFiniteSet(S) /\ Cardinality(S) \in Nat
<1>1. HistoryOf[a] \in SUBSET Items /\ IsFiniteSet(HistoryOf[a])
  BY HistoryAssumption
<1>2. IsFiniteSet(S)
  BY <1>1, FS_Subset
<1> QED
  BY <1>1, <1>2, FS_CardinalityType

-----------------------------------------------------------------------------
(* Arrays in use.                                                          *)

(* The history of an address, listed. *)
LEMMA HistoryList ==
    ASSUME NEW a \in Addresses
    PROVE  \E t \in Seq(Items) :
              /\ t = Newest(HistoryOf[a]) /\ Len(t) = Cardinality(HistoryOf[a])
              /\ DOMAIN t = 1..Len(t)
              /\ \A k, l \in DOMAIN t : t[k] = t[l] => k = l
              /\ \A k \in DOMAIN t : t[k] \in HistoryOf[a]
              /\ \A x \in HistoryOf[a] : \E k \in DOMAIN t : t[k] = x
<1>1. PICK S \in SUBSET Items : S = HistoryOf[a] /\ IsFiniteSet(S)
  BY HistoryAssumption
<1> QED
  BY <1>1, NewestList

(* The cache and the other requests do not use up the arrays.              *)
LEMMA FreeArray ==
    ASSUME TypeOK, SlotsInv, NEW r \in Requests, slot[r] = 0
    PROVE  FreeSlot \in Slots /\ FreeSlot \notin Live(cache, slot)
<1> DEFINE others == Requests \ {r}
           cached == {cache[a] : a \in DOMAIN cache}
           sliced == {slot[o] : o \in others}
<1>1. CacheSize \in Nat /\ IsFiniteSet(Requests) /\ Cardinality(Requests) \in Nat
  BY ParameterAssumption, ItemsAssumption, FS_CardinalityType
<1>2. IsFiniteSet(cached) /\ Cardinality(cached) \in Nat /\ Cardinality(cached) <= CacheSize
  <2>1. IsFiniteSet(DOMAIN cache) /\ Cardinality(DOMAIN cache) <= CacheSize
        /\ Cardinality(DOMAIN cache) \in Nat
    BY FS_CardinalityType DEF SlotsInv
  <2> DEFINE f == [a \in DOMAIN cache |-> cache[a]]
  <2>2. f \in Surjection(DOMAIN cache, cached)
    BY DEF Surjection
  <2>3. IsFiniteSet(cached) /\ Cardinality(cached) <= Cardinality(DOMAIN cache)
    <3> HIDE DEF f, cached
    <3> QED
      BY <2>1, <2>2, FS_Surjection
  <2>4. Cardinality(cached) \in Nat
    BY <2>3, FS_CardinalityType
  <2> HIDE DEF cached
  <2> QED
    BY <1>1, <2>1, <2>3, <2>4
<1>3. IsFiniteSet(sliced) /\ Cardinality(sliced) \in Nat
      /\ Cardinality(sliced) <= Cardinality(Requests) - 1
  <2>1. IsFiniteSet(others) /\ Cardinality(others) = Cardinality(Requests) - 1
    BY <1>1, FS_RemoveElement
  <2> DEFINE f == [o \in others |-> slot[o]]
  <2>2. f \in Surjection(others, sliced)
    BY DEF Surjection
  <2>3. IsFiniteSet(sliced) /\ Cardinality(sliced) <= Cardinality(others)
    <3> HIDE DEF f, sliced, others
    <3> QED
      BY <2>1, <2>2, FS_Surjection
  <2>4. Cardinality(sliced) \in Nat
    BY <2>3, FS_CardinalityType
  <2> HIDE DEF sliced, others
  <2> QED
    BY <1>1, <2>1, <2>3, <2>4
<1>4. IsFiniteSet(cached \cup sliced) /\ Cardinality(cached \cup sliced) \in Nat
      /\ Cardinality(cached \cup sliced) < CacheSize + Cardinality(Requests)
  <2> HIDE DEF cached, sliced
  <2>1. IsFiniteSet(cached \cup sliced)
        /\ Cardinality(cached \cup sliced)
              = Cardinality(cached) + Cardinality(sliced) - Cardinality(cached \cap sliced)
    BY <1>2, <1>3, FS_Union
  <2>2. Cardinality(cached \cap sliced) \in Nat
    BY <1>2, FS_Intersection, FS_CardinalityType
  <2>3. Cardinality(cached \cup sliced) \in Nat
    BY <2>1, FS_CardinalityType
  <2> QED
    BY <1>1, <1>2, <1>3, <2>1, <2>2, <2>3
<1>5. IsFiniteSet(Slots) /\ Cardinality(Slots) = CacheSize + Cardinality(Requests)
  <2>1. PICK n \in Nat : n = CacheSize + Cardinality(Requests) /\ n >= 0
    BY <1>1
  <2>2. IsFiniteSet(1..n) /\ Cardinality(1..n) = n
    BY FS_Interval
  <2> QED
    BY <2>1, <2>2 DEF Slots
<1>6. PICK s \in Slots : s \notin cached \cup sliced
  <2> HIDE DEF cached, sliced
  <2> SUFFICES ASSUME Slots \subseteq cached \cup sliced PROVE FALSE
    OBVIOUS
  <2>1. Cardinality(Slots) <= Cardinality(cached \cup sliced)
    BY <1>4, FS_Subset
  <2> QED
    BY <1>1, <1>4, <1>5, <2>1
<1>7. s # 0
  BY DEF Slots
<1>8. s \notin Live(cache, slot)
  BY <1>6, <1>7 DEF Live
<1> QED
  BY <1>8 DEF FreeSlot

(* Nothing that is in use is garbage; nothing uses a free array.           *)
LEMMA UsedIsLive ==
    ASSUME NEW s, NEW a, UsedFor(s, a)
    PROVE  s \in Live(cache, slot)
BY DEF UsedFor, Live

(* Only the collection of a history takes an array into use that was not.  *)
LEMMA Uses ==
    ASSUME TypeOK, SlotsInv, NEW r \in Requests, Arrive(r) \/ Handle(r),
           NEW s \in Slots, NEW a \in Addresses, UsedFor(s, a)'
    PROVE  \/ UsedFor(s, a)
           \/ Collect(r) /\ s = FreeSlot /\ a = request[r].address
<1>0. 0 \notin Slots
  BY DEF Slots
<1>1. CASE Arrive(r)
  BY <1>0, <1>1 DEF Arrive, Goto, Set, UsedFor, TypeOK, SlotsInv, shared
<1>2. CASE GetCached(r)
  BY <1>0, <1>2 DEF GetCached, Goto, Set, UsedFor, TypeOK, shared
<1>3. CASE Collect(r)
  BY <1>0, <1>3 DEF Collect, CollectAs, Goto, Set, UsedFor, TypeOK
<1>4. CASE Add(r)
  <2>1. slot' = slot /\ request' = request
    BY <1>4 DEF Add
  <2>2. a \in DOMAIN cache' /\ cache'[a] = s =>
            (a = request[r].address /\ slot[r] = s) \/ (a \in DOMAIN cache /\ cache[a] = s)
    BY <1>4 DEF Add
  <2> QED
    BY <2>1, <2>2 DEF UsedFor
<1>5. CASE Finish(r)
  BY <1>0, <1>5 DEF Finish, Set, UsedFor, TypeOK
<1>6. CASE UNCHANGED <<cache, slot, request>>
  BY <1>6 DEF UsedFor
<1>7. \/ Arrive(r) \/ GetCached(r) \/ Collect(r) \/ Add(r) \/ Finish(r)
      \/ UNCHANGED <<cache, slot, request>>
  BY DEF Handle, Lookup, Sort, GetMissing, CollectFails, Cap, CapTo, Compare, CompareBy,
         LoadPair, StoreUpper, StoreLower, RenderRow, Answer, shared
<1> QED
  BY <1>1, <1>2, <1>3, <1>4, <1>5, <1>6, <1>7

-----------------------------------------------------------------------------
(* The invariant without the assumption that CSV answers are made alone,   *)
(* part by part.                                                           *)

Places == {"idle", "get", "collect", "add", "cap", "compare", "swap", "store", "store2",
           "render", "done", "failed"}

LEMMA InitHistory == Init => HistoryInv
<1> SUFFICES ASSUME Init PROVE HistoryInv
  OBVIOUS
<1>1. DOMAIN cache = {}
  BY DEF Init
<1>2. TypeOK
  BY <1>1 DEF Init, TypeOK, Sorting
<1>3. SlotsInv
  BY <1>1, FS_EmptySet, ParameterAssumption DEF Init, SlotsInv, InFlight, Sorting
<1>4. \A s \in Slots, a \in Addresses : ~UsedFor(s, a)
  BY <1>1 DEF Init, UsedFor, Slots
<1>5. SharedInv /\ ArraysInv
  BY <1>4 DEF SharedInv, ArraysInv
<1>6. StepsInv /\ BodyInv /\ AloneInv
  BY DEF Init, StepsInv, BodyInv, AloneInv, InFlight, IsCsv, Sorting
<1> QED
  BY <1>2, <1>3, <1>5, <1>6 DEF HistoryInv

(* A request changes nothing of what the other requests keep to themselves. *)
LEMMA Locals ==
    ASSUME TypeOK, StepsInv, BodyInv, NEW r \in Requests, Arrive(r) \/ Handle(r),
           NEW o \in Requests, o # r
    PROVE  /\ pc'[o] = pc[o] /\ request'[o] = request[o] /\ slot'[o] = slot[o]
           /\ count'[o] = count[o] /\ i'[o] = i[o] /\ j'[o] = j[o]
           /\ held'[o] = held[o] /\ body'[o] = body[o]
<1>1. pc'[o] = pc[o] /\ request'[o] = request[o] /\ slot'[o] = slot[o]
  BY DEF TypeOK, Handle, Lookup, Sort, Arrive, GetCached, GetMissing, Collect, CollectAs,
         CollectFails, Add, Cap, CapTo, Compare, CompareBy, LoadPair, StoreUpper, StoreLower,
         RenderRow, Answer, Finish, Goto, Set, shared
<1>2. count'[o] = count[o] /\ i'[o] = i[o] /\ j'[o] = j[o]
  BY DEF TypeOK, StepsInv, Handle, Lookup, Sort, Arrive, GetCached, GetMissing, Collect, CollectAs,
         CollectFails, Add, Cap, CapTo, Compare, CompareBy, LoadPair, StoreUpper, StoreLower,
         RenderRow, Answer, Finish, Goto, Set, shared
<1>3. held'[o] = held[o] /\ body'[o] = body[o]
  BY DEF TypeOK, BodyInv, Handle, Lookup, Sort, Arrive, GetCached, GetMissing, Collect, CollectAs,
         CollectFails, Add, Cap, CapTo, Compare, CompareBy, LoadPair, StoreUpper, StoreLower,
         RenderRow, Answer, Finish, Goto, Set, shared
<1> QED
  BY <1>1, <1>2, <1>3

(* The actions that leave the cache and the arrays as they are, and those  *)
(* that do not.                                                            *)
LEMMA SharedBy ==
    ASSUME NEW r \in Requests, Arrive(r) \/ Handle(r)
    PROVE  \/ UNCHANGED shared
           \/ Collect(r) \/ Add(r) \/ Compare(r) \/ StoreUpper(r) \/ StoreLower(r) \/ Finish(r)
BY DEF Handle, Lookup, Sort, Arrive, GetCached, GetMissing, CollectFails, Cap, CapTo,
       LoadPair, RenderRow, Answer, shared

LEMMA SlotsStep ==
    ASSUME TypeOK, SlotsInv, StepsInv, BodyInv, NEW r \in Requests, Arrive(r) \/ Handle(r)
    PROVE  SlotsInv'
<1> DEFINE Fine(o) == /\ slot[o] = 0 <=> pc[o] \in {"idle", "get", "collect", "failed"}
                      /\ pc[o] # "idle" => request[o] \in Asked
                      /\ Sorting(o) => request[o].mime = "csv"
<1>1. Fine(r)'
  <2>0. Fine(r) /\ 0 \notin Slots /\ pc \in [Requests -> Places] /\ slot \in [Requests -> Slots \cup {0}]
        /\ request \in [Requests -> Asked \cup {NoRequest}]
        /\ \A a \in DOMAIN cache : cache[a] \in Slots
    <3>1. Fine(r)
      BY DEF SlotsInv, InFlight
    <3>2. 0 \notin Slots
      BY DEF Slots
    <3>3. pc \in [Requests -> Places]
      BY DEF TypeOK, Places
    <3> QED
      BY <3>1, <3>2, <3>3 DEF TypeOK
  <2>1. CASE Arrive(r)
    BY <2>0, <2>1 DEF Arrive, Goto, Set, Sorting, shared
  <2>2. CASE GetCached(r)
    BY <2>0, <2>2 DEF GetCached, Goto, Set, Sorting, shared
  <2>3. CASE GetMissing(r) \/ CollectFails(r)
    BY <2>0, <2>3 DEF GetMissing, CollectFails, Goto, Sorting, shared
  <2>4. CASE Collect(r)
    <3>1. FreeSlot \in Slots
      BY <2>0, <2>4, FreeArray DEF Collect, CollectAs, Goto
    <3> QED
      BY <2>0, <2>4, <3>1 DEF Collect, CollectAs, Goto, Set, Sorting
  <2>5. CASE Add(r)
    BY <2>0, <2>5 DEF Add, Goto, Sorting
  <2>6. CASE Cap(r)
    BY <2>0, <2>6 DEF Cap, CapTo, Goto, Sorting, shared
  <2>7. CASE Compare(r)
    BY <2>0, <2>7 DEF Compare, CompareBy, Set, Sorting
  <2>8. CASE LoadPair(r) \/ StoreUpper(r) \/ StoreLower(r)
    BY <2>0, <2>8 DEF LoadPair, StoreUpper, StoreLower, Goto, Sorting, shared
  <2>9. CASE RenderRow(r) \/ Answer(r)
    BY <2>0, <2>9 DEF RenderRow, Answer, Goto, Sorting, shared
  <2>10. CASE Finish(r)
    BY <2>0, <2>10 DEF Finish, Set, Sorting
  <2> QED
    BY <2>1, <2>2, <2>3, <2>4, <2>5, <2>6, <2>7, <2>8, <2>9, <2>10 DEF Handle, Lookup, Sort
<1>2. \A o \in Requests : o # r => Fine(o)'
  BY Locals DEF SlotsInv, InFlight, Sorting
<1>3. (IsFiniteSet(DOMAIN cache) /\ Cardinality(DOMAIN cache) <= CacheSize)'
  <2>1. CASE Add(r)
    <3> DEFINE a == request[r].address
               others == DOMAIN cache \ {a}
    <3>1. PICK kept \in SUBSET others :
              /\ Cardinality(kept) = Smaller(Cardinality(others), CacheSize - 1)
              /\ cache' = [k \in kept \cup {a} |-> IF k = a THEN slot[r] ELSE cache[k]]
      BY <2>1 DEF Add
    <3>2. IsFiniteSet(others) /\ Cardinality(others) \in Nat
      BY FS_Difference, FS_CardinalityType DEF SlotsInv
    <3>3. IsFiniteSet(kept) /\ Cardinality(kept) \in Nat
      BY <3>2, FS_Subset, FS_CardinalityType
    <3>4. Cardinality(kept) <= CacheSize - 1
      BY <3>1, <3>2, ParameterAssumption DEF Smaller
    <3>5. DOMAIN cache' = kept \cup {a}
      BY <3>1
    <3>6. IsFiniteSet(kept \cup {a})
          /\ Cardinality(kept \cup {a}) = IF a \in kept THEN Cardinality(kept) ELSE Cardinality(kept) + 1
      BY <3>3, FS_AddElement
    <3> QED
      BY <3>3, <3>4, <3>5, <3>6, ParameterAssumption
  <2>2. CASE UNCHANGED cache
    BY <2>2 DEF SlotsInv
  <2> QED
    BY <2>1, <2>2, SharedBy
    DEF shared, Collect, CollectAs, Compare, CompareBy, StoreUpper, StoreLower, Finish
<1> QED
  BY <1>1, <1>2, <1>3 DEF SlotsInv, InFlight

LEMMA SharedStep ==
    ASSUME TypeOK, SlotsInv, SharedInv, NEW r \in Requests, Arrive(r) \/ Handle(r)
    PROVE  SharedInv'
<1> SUFFICES ASSUME NEW s \in Slots, NEW a \in Addresses, NEW b \in Addresses,
                    UsedFor(s, a)', UsedFor(s, b)'
             PROVE  a = b
  BY DEF SharedInv
<1>1. /\ UsedFor(s, a) \/ (Collect(r) /\ s = FreeSlot /\ a = request[r].address)
      /\ UsedFor(s, b) \/ (Collect(r) /\ s = FreeSlot /\ b = request[r].address)
  BY Uses
<1>2. Collect(r) => ~UsedFor(FreeSlot, a) /\ ~UsedFor(FreeSlot, b)
  BY FreeArray, UsedIsLive DEF Collect, CollectAs, Goto, SlotsInv
<1> QED
  BY <1>1, <1>2 DEF SharedInv

(* What is in use is no garbage, and an array changes only when a history  *)
(* is collected into a free one or the two elements of a swap are stored.  *)
LEMMA InUse ==
    ASSUME TypeOK, SlotsInv, NEW r \in Requests, Arrive(r) \/ Handle(r),
           NEW s \in Slots, s \in Live(cache, slot)'
    PROVE  /\ \/ heap'[s] = heap[s]
              \/ Collect(r) /\ s = FreeSlot
              \/ (StoreUpper(r) \/ StoreLower(r)) /\ s = slot[r]
           /\ s \in partial' <=> s \in partial \/ (Collect(r) /\ s = FreeSlot /\ s \in partial')
           /\ resorted'[s] = IF Compare(r) /\ s = slot[r]
                             THEN Larger(resorted[s], count[r]) ELSE resorted[s]
<1>1. CASE UNCHANGED shared
  BY <1>1 DEF shared, Compare, CompareBy, Set, TypeOK
<1>2. CASE Collect(r)
  BY <1>2 DEF Collect, CollectAs, TypeOK, Goto, Compare, CompareBy
<1>3. CASE Add(r)
  <2>1. CollectGarbage(cache', slot) /\ slot' = slot
    BY <1>3 DEF Add
  <2>2. s \in Live(cache', slot)
    BY <2>1 DEF Live
  <2> QED
    BY <1>3, <2>1, <2>2 DEF CollectGarbage, Add, Compare, CompareBy, Goto
<1>4. CASE Finish(r)
  <2>1. CollectGarbage(cache, slot') /\ cache' = cache
    BY <1>4 DEF Finish
  <2>2. s \in Live(cache, slot')
    BY <2>1 DEF Live
  <2> QED
    BY <1>4, <2>1, <2>2 DEF CollectGarbage, Finish, Compare, CompareBy, Goto
<1>5. CASE Compare(r)
  BY <1>5 DEF Compare, CompareBy, Set, TypeOK
<1>6. CASE StoreUpper(r) \/ StoreLower(r)
  BY <1>6 DEF StoreUpper, StoreLower, TypeOK, Compare, CompareBy, Goto
<1> QED
  BY <1>1, <1>2, <1>3, <1>4, <1>5, <1>6, SharedBy

LEMMA LargerOf ==
    ASSUME NEW m \in Nat, NEW n \in Nat
    PROVE  Larger(m, n) \in Nat /\ m <= Larger(m, n) /\ n <= Larger(m, n)
BY DEF Larger

(* What CSV answers have sorted of an array in use only grows.             *)
LEMMA ResortedGrows ==
    ASSUME TypeOK, SlotsInv, NEW r \in Requests, Arrive(r) \/ Handle(r),
           NEW s \in Slots, s \in Live(cache, slot)'
    PROVE  resorted'[s] \in Nat /\ resorted[s] \in Nat /\ resorted[s] <= resorted'[s]
<1>1. resorted[s] \in Nat /\ count[r] \in Nat
  BY DEF TypeOK
<1>2. resorted'[s] = Larger(resorted[s], count[r]) \/ resorted'[s] = resorted[s]
  BY InUse
<1>3. PICK m \in Nat, n \in Nat : m = resorted[s] /\ n = count[r]
  BY <1>1
<1>4. Larger(m, n) \in Nat /\ m <= Larger(m, n)
  BY LargerOf
<1> QED
  BY <1>2, <1>3, <1>4

(* A swap replaces one element of an array by another item, within what    *)
(* CSV answers have sorted of it.                                          *)
LEMMA Stores ==
    ASSUME TypeOK, SlotsInv, StepsInv, NEW r \in Requests, StoreUpper(r) \/ StoreLower(r)
    PROVE  /\ slot[r] \in Slots /\ slot' = slot /\ resorted' = resorted
           /\ Sorting(r) /\ resorted[slot[r]] > 0
           /\ \E k \in 1..Len(Array(r)), x \in Items :
                 /\ k <= resorted[slot[r]]
                 /\ heap' = [heap EXCEPT ![slot[r]] = [Array(r) EXCEPT ![k] = x]]
<1>1. pc[r] \in {"store", "store2"} /\ slot' = slot /\ resorted' = resorted
  BY DEF StoreUpper, StoreLower, Goto, shared
<1>2. slot[r] \in Slots /\ count[r] <= resorted[slot[r]] /\ resorted[slot[r]] \in Nat
  BY <1>1 DEF SlotsInv, StepsInv, TypeOK
<1>3. /\ j[r] \in 1..i[r] /\ j[r] > 1 /\ i[r] \in 2..count[r] /\ count[r] \in Nat
      /\ count[r] <= Len(Array(r)) /\ held[r] \in Items \X Items
  BY <1>1, <1>2 DEF SlotsInv, StepsInv, TypeOK, Sorting, Slots
<1>4. Array(r) \in Seq(Items) /\ Len(Array(r)) \in Nat
  BY <1>2 DEF TypeOK, Array
<1>5. /\ j[r] \in 1..Len(Array(r)) /\ j[r] - 1 \in 1..Len(Array(r))
      /\ j[r] <= resorted[slot[r]] /\ j[r] - 1 <= resorted[slot[r]] /\ resorted[slot[r]] > 0
  BY <1>2, <1>3, <1>4
<1>6. held[r][1] \in Items /\ held[r][2] \in Items
  BY <1>3
<1>7. CASE StoreUpper(r)
  BY <1>1, <1>2, <1>5, <1>6, <1>7 DEF StoreUpper, Array, Sorting
<1>8. CASE StoreLower(r)
  BY <1>1, <1>2, <1>5, <1>6, <1>8 DEF StoreLower, Array, Sorting
<1> QED
  BY <1>1, <1>2, <1>7, <1>8

(* So an array in use keeps its length and the type of its elements.       *)
LEMMA Lengths ==
    ASSUME TypeOK, SlotsInv, StepsInv, NEW r \in Requests, Arrive(r) \/ Handle(r),
           NEW s \in Slots, s \in Live(cache, slot)', s \in Live(cache, slot)
    PROVE  Len(heap'[s]) = Len(heap[s])
<1>1. CASE heap'[s] = heap[s]
  BY <1>1
<1>2. CASE Collect(r) /\ s = FreeSlot
  BY <1>2, FreeArray DEF Collect, CollectAs, Goto, SlotsInv
<1>3. CASE (StoreUpper(r) \/ StoreLower(r)) /\ s = slot[r]
  <2>1. PICK k \in 1..Len(Array(r)), x \in Items :
            heap' = [heap EXCEPT ![slot[r]] = [Array(r) EXCEPT ![k] = x]]
    BY <1>3, Stores
  <2>2. Array(r) \in Seq(Items) /\ Array(r) = heap[s]
    BY <1>3 DEF TypeOK, Array
  <2>3. heap'[s] = [heap[s] EXCEPT ![k] = x]
    BY <1>3, <2>1, <2>2 DEF TypeOK
  <2> QED
    BY <2>2, <2>3
<1> QED
  BY <1>1, <1>2, <1>3, InUse

LEMMA AloneStep ==
    ASSUME HistoryInv, NEW r \in Requests, Arrive(r) \/ Handle(r)
    PROVE  AloneInv'
<1>0. TypeOK /\ SlotsInv /\ StepsInv /\ BodyInv /\ AloneInv
  BY DEF HistoryInv
<1>1. \A o \in Requests : o # r => pc'[o] = pc[o] /\ request'[o] = request[o]
  BY <1>0, Locals
<1>2. CASE Arrive(r)
  <2>1. PICK q \in Asked :
            /\ request' = Set(request, r, q)
            /\ CsvAlone => \A o \in Requests \ {r} : InFlight(o) => ~IsCsv(o) /\ q.mime # "csv"
    BY <1>2 DEF Arrive
  <2>2. request'[r] = q
    BY <1>0, <2>1 DEF TypeOK, Set
  <2> QED
    BY <1>0, <1>1, <2>1, <2>2 DEF AloneInv, IsCsv, InFlight
<1>3. CASE Handle(r)
  <2>1. pc[r] # "idle" /\ (pc'[r] = "idle" \/ request' = request)
    BY <1>0, <1>3 DEF TypeOK, Handle, Lookup, Sort, GetCached, GetMissing, Collect, CollectAs,
         CollectFails, Add, Cap, CapTo, Compare, CompareBy, LoadPair, StoreUpper, StoreLower,
         RenderRow, Answer, Finish, Goto, Set, shared
  <2> QED
    BY <1>0, <1>1, <2>1 DEF AloneInv, IsCsv, InFlight
<1> QED
  BY <1>2, <1>3

LEMMA ArraysStep ==
    ASSUME HistoryInv, NEW r \in Requests, Arrive(r) \/ Handle(r)
    PROVE  ArraysInv'
<1>0. TypeOK /\ SlotsInv /\ StepsInv /\ BodyInv /\ ArraysInv
  BY DEF HistoryInv
<1> DEFINE Is(s, a, S) == /\ Len(heap[s]) = Cardinality(S)
                          /\ s \notin partial => S = HistoryOf[a]
                          /\ \A k \in 1..Len(heap[s]) :
                                k > resorted[s] => heap[s][k] = Newest(S)[k]
<1> SUFFICES ASSUME NEW s \in Slots, NEW a \in Addresses, UsedFor(s, a)'
             PROVE  \E S \in SUBSET HistoryOf[a] : Is(s, a, S)'
  BY DEF ArraysInv
<1>1. CASE Collect(r) /\ s = FreeSlot /\ a = request[r].address
  <2>1. PICK lost \in SUBSET HistoryOf[a] :
            /\ heap' = [heap EXCEPT ![FreeSlot] = Newest(HistoryOf[a] \ lost)]
            /\ partial' = IF lost = {} THEN partial ELSE partial \cup {FreeSlot}
    BY <1>1 DEF Collect, CollectAs
  <2> DEFINE S == HistoryOf[a] \ lost
  <2>2. heap'[s] = Newest(S)
    BY <1>0, <1>1, <2>1 DEF TypeOK
  <2>3. S \in SUBSET HistoryOf[a] /\ (s \notin partial' => S = HistoryOf[a])
    BY <1>1, <2>1
  <2>4. Len(Newest(S)) = Cardinality(S)
    <3> HIDE DEF S
    <3> QED
      BY <2>3, Parts, NewestList
  <2> QED
    BY <2>2, <2>3, <2>4
<1>2. CASE UsedFor(s, a)
  <2>1. s \in Live(cache, slot) /\ s \in Live(cache, slot)'
    BY <1>2 DEF UsedFor, Live
  <2>2. ~(Collect(r) /\ s = FreeSlot)
    BY <1>0, <2>1, FreeArray DEF Collect, CollectAs, Goto, SlotsInv
  <2>3. PICK S \in SUBSET HistoryOf[a] : Is(s, a, S)
    BY <1>0, <1>2 DEF ArraysInv
  <2>4. Len(heap'[s]) = Len(heap[s])
    BY <1>0, <2>1, Lengths
  <2>5. s \notin partial' => s \notin partial
    BY <1>0, <2>1, InUse
  <2>6. ASSUME NEW k \in 1..Len(heap[s]), k > resorted'[s]
        PROVE  k > resorted[s] /\ heap'[s][k] = heap[s][k]
    <3>1. resorted'[s] \in Nat /\ resorted[s] \in Nat /\ resorted[s] <= resorted'[s]
      BY <1>0, <2>1, ResortedGrows
    <3>2. heap[s] \in Seq(Items) /\ k \in Nat
      BY <1>0 DEF TypeOK
    <3>3. k > resorted[s]
      BY <2>6, <3>1, <3>2
    <3>4. CASE heap'[s] = heap[s]
      BY <3>3, <3>4
    <3>5. CASE (StoreUpper(r) \/ StoreLower(r)) /\ s = slot[r]
      <4>0. PICK l \in 1..Len(Array(r)), x \in Items :
                /\ l <= resorted[slot[r]]
                /\ heap' = [heap EXCEPT ![slot[r]] = [Array(r) EXCEPT ![l] = x]]
        BY <1>0, <3>5, Stores
      <4>1. /\ l \in 1..Len(heap[s]) /\ l <= resorted[s]
            /\ heap' = [heap EXCEPT ![s] = [heap[s] EXCEPT ![l] = x]]
        BY <3>5, <4>0 DEF Array
      <4>2. heap'[s] = [heap[s] EXCEPT ![l] = x]
        BY <1>0, <4>1 DEF TypeOK
      <4>3. l # k
        BY <3>1, <3>2, <3>3, <4>1
      <4> QED
        BY <3>2, <3>3, <4>2, <4>3
    <3> QED
      BY <1>0, <2>1, <2>2, <3>4, <3>5, InUse
  <2> QED
    BY <2>3, <2>4, <2>5, <2>6
<1> QED
  BY <1>0, <1>1, <1>2, Uses

LEMMA StepsStep ==
    ASSUME HistoryInv, NEW r \in Requests, Arrive(r) \/ Handle(r)
    PROVE  StepsInv'
<1>0. TypeOK /\ SlotsInv /\ StepsInv /\ BodyInv
  BY DEF HistoryInv
<1> DEFINE Fine(o) == /\ Sorting(o) => i[o] \in 2..count[o] /\ j[o] \in 1..i[o]
                      /\ pc[o] \in {"swap", "store", "store2"} => j[o] > 1 /\ count[o] <= resorted[slot[o]]
                      /\ pc[o] \in {"store", "store2"} => held[o] \in Items \X Items
<1>1. \A o \in Requests : o # r => Fine(o)'
  <2> SUFFICES ASSUME NEW o \in Requests, o # r PROVE Fine(o)'
    OBVIOUS
  <2>1. /\ pc'[o] = pc[o] /\ slot'[o] = slot[o] /\ count'[o] = count[o] /\ i'[o] = i[o]
        /\ j'[o] = j[o] /\ held'[o] = held[o]
    BY <1>0, Locals
  <2>2. CASE pc[o] \notin {"swap", "store", "store2"}
    BY <1>0, <2>1, <2>2 DEF StepsInv, Sorting
  <2>3. CASE pc[o] \in {"swap", "store", "store2"}
    <3>1. slot[o] \in Slots /\ count[o] \in Nat /\ Fine(o)
      BY <1>0, <2>3 DEF SlotsInv, StepsInv, TypeOK
    <3>2. slot[o] \in Live(cache, slot)'
      BY <2>1 DEF Live
    <3>3. PICK s \in Slots : s = slot[o]
      BY <3>1
    <3>4. resorted'[s] \in Nat /\ resorted[s] \in Nat /\ resorted[s] <= resorted'[s]
      BY <1>0, <3>2, <3>3, ResortedGrows
    <3>5. count[o] <= resorted'[s]
      BY <2>3, <3>1, <3>3, <3>4
    <3> QED
      BY <2>1, <3>1, <3>3, <3>5 DEF Sorting
  <2> QED
    BY <2>2, <2>3
<1>2. i' \in [Requests -> Nat] /\ j' \in [Requests -> Nat] /\ Fine(r)'
  <2>0. /\ i \in [Requests -> Nat] /\ j \in [Requests -> Nat] /\ Fine(r)
        /\ pc \in [Requests -> Places] /\ slot \in [Requests -> Slots \cup {0}]
        /\ request \in [Requests -> Asked \cup {NoRequest}] /\ count \in [Requests -> Nat]
        /\ held \in [Requests -> Seq(Items)]
    BY <1>0 DEF TypeOK, StepsInv, Places
  <2>1. CASE UNCHANGED <<i, j>> /\ pc'[r] \notin {"compare", "swap", "store", "store2"}
    BY <2>0, <2>1 DEF Sorting
  <2>2. CASE Cap(r)
    <3> DEFINE n == Smaller(request[r].limit, Len(Array(r)))
               csv == request[r].mime = "csv" /\ n > 1
    <3>1. n \in Nat
      <4>1. request[r].limit \in Nat
        BY <1>0, <2>2, ParameterAssumption DEF Cap, CapTo, Goto, SlotsInv, InFlight, Asked
      <4>2. slot[r] \in Slots
        BY <1>0, <2>0, <2>2 DEF SlotsInv, Cap, CapTo, Goto
      <4>3. Len(Array(r)) \in Nat
        BY <1>0, <4>2 DEF TypeOK, Array
      <4> QED
        BY <4>1, <4>3 DEF Smaller
    <3>2. /\ pc' = [pc EXCEPT ![r] = IF csv THEN "compare" ELSE "render"]
          /\ count' = [count EXCEPT ![r] = n]
          /\ i' = [i EXCEPT ![r] = IF csv THEN 2 ELSE 1]
          /\ j' = [j EXCEPT ![r] = IF csv THEN 2 ELSE 1]
      BY <2>2 DEF Cap, CapTo, Goto, Set
    <3> HIDE DEF n
    <3> QED
      BY <2>0, <3>1, <3>2 DEF Sorting
  <2>3. CASE Compare(r)
    <3>1. pc[r] = "compare" /\ UNCHANGED <<slot, count, held>>
      BY <2>3 DEF Compare, CompareBy
    <3>6. count[r] <= resorted'[slot[r]]
      <4>1. slot[r] \in Slots /\ resorted[slot[r]] \in Nat
        BY <1>0, <3>1 DEF SlotsInv, TypeOK
      <4>2. resorted'[slot[r]] = Larger(resorted[slot[r]], count[r])
        BY <1>0, <2>3, <4>1 DEF Compare, CompareBy, Set, TypeOK
      <4> QED
        BY <2>0, <4>1, <4>2, LargerOf
    <3>2. i[r] \in 2..count[r] /\ j[r] \in 1..i[r]
      BY <2>0, <3>1 DEF Sorting
    <3>3. CASE pc' = Set(pc, r, "swap") /\ j[r] > 1 /\ UNCHANGED <<i, j>>
      BY <2>0, <3>1, <3>2, <3>3, <3>6 DEF Set
    <3>4. CASE i[r] < count[r] /\ i' = Set(i, r, i[r] + 1) /\ j' = Set(j, r, i[r] + 1) /\ UNCHANGED pc
      BY <2>0, <3>1, <3>2, <3>4 DEF Set
    <3>5. CASE i' = Set(i, r, 1) /\ j' = Set(j, r, 1) /\ pc' = Set(pc, r, "render")
      BY <2>0, <3>1, <3>2, <3>5 DEF Set, Sorting
    <3> QED
      BY <2>3, <3>3, <3>4, <3>5 DEF Compare, CompareBy
  <2>4. CASE LoadPair(r)
    <3>1. /\ pc[r] = "swap" /\ pc' = [pc EXCEPT ![r] = "store"]
          /\ held' = [held EXCEPT ![r] = <<Array(r)[j[r]], Array(r)[j[r] - 1]>>]
          /\ UNCHANGED <<resorted, slot, count, i, j>>
      BY <2>4 DEF LoadPair, Goto, Set, shared
    <3>2. /\ slot[r] \in Slots /\ j[r] \in Nat /\ j[r] > 1
          /\ count[r] <= Len(Array(r)) /\ i[r] \in 2..count[r] /\ j[r] \in 1..i[r]
      BY <1>0, <2>0, <3>1 DEF SlotsInv, TypeOK, Sorting, Slots
    <3>3. Array(r) \in Seq(Items) /\ Len(Array(r)) \in Nat
      BY <1>0, <3>2 DEF TypeOK, Array
    <3>4. Array(r)[j[r]] \in Items /\ Array(r)[j[r] - 1] \in Items
      BY <2>0, <3>2, <3>3
    <3> QED
      BY <2>0, <3>1, <3>4 DEF Sorting
  <2>5. CASE StoreUpper(r)
    <3>1. /\ pc[r] = "store" /\ pc' = [pc EXCEPT ![r] = "store2"]
          /\ UNCHANGED <<resorted, slot, count, i, j, held>>
      BY <2>5 DEF StoreUpper, Goto
    <3> QED
      BY <2>0, <3>1 DEF Sorting
  <2>6. CASE StoreLower(r)
    <3>1. /\ pc[r] = "store2" /\ pc' = [pc EXCEPT ![r] = "compare"]
          /\ j' = [j EXCEPT ![r] = j[r] - 1]
          /\ UNCHANGED <<resorted, slot, count, i>>
      BY <2>6 DEF StoreLower, Goto, Set
    <3>2. i[r] \in 2..count[r] /\ j[r] \in 1..i[r] /\ j[r] > 1
      BY <2>0, <3>1 DEF Sorting
    <3> QED
      BY <2>0, <3>1, <3>2 DEF Sorting
  <2>7. CASE RenderRow(r)
    BY <2>0, <2>7 DEF RenderRow, Set, Sorting
  <2>8. CASE Finish(r)
    BY <2>0, <2>8 DEF Finish, Set, Sorting
  <2>9. Arrive(r) \/ GetCached(r) \/ GetMissing(r) \/ Collect(r) \/ CollectFails(r) \/ Add(r)
          \/ Answer(r) => UNCHANGED <<i, j>> /\ pc'[r] \notin {"compare", "swap", "store", "store2"}
    BY <2>0 DEF Arrive, GetCached, GetMissing, Collect, CollectAs, CollectFails, Add, Answer, Goto
  <2> QED
    BY <2>1, <2>2, <2>3, <2>4, <2>5, <2>6, <2>7, <2>8, <2>9 DEF Handle, Lookup, Sort
<1> QED
  BY <1>1, <1>2 DEF StepsInv

(* No other request takes a step while a CSV answer is made alone.         *)
LEMMA CsvUndisturbed ==
    ASSUME AloneInv, CsvAlone, NEW r \in Requests, Arrive(r) \/ Handle(r),
           NEW o \in Requests, o # r
    PROVE  ~IsCsv(o)
<1> SUFFICES ASSUME IsCsv(o) PROVE FALSE
  OBVIOUS
<1>1. InFlight(o) /\ ~InFlight(r)
  BY DEF AloneInv, IsCsv
<1>2. Arrive(r)
  BY <1>1 DEF InFlight, Handle, Lookup, Sort, GetCached, GetMissing, Collect, CollectAs,
     CollectFails, Add, Cap, CapTo, Compare, CompareBy, LoadPair, StoreUpper, StoreLower,
     RenderRow, Answer, Finish, Goto
<1> QED
  BY <1>1, <1>2 DEF Arrive

LEMMA BodyStep ==
    ASSUME HistoryInv, NEW r \in Requests, Arrive(r) \/ Handle(r)
    PROVE  BodyInv'
<1>0. TypeOK /\ SlotsInv /\ StepsInv /\ BodyInv /\ AloneInv
  BY DEF HistoryInv
<1> DEFINE Rendering(o) == pc[o] \in {"render", "done"}
           Length(o) == count[o] = IF Sorting(o) \/ Rendering(o)
                                   THEN Smaller(request[o].limit, Len(Array(o))) ELSE 0
           Rendered(o) == /\ ~Rendering(o) => body[o] = <<>>
                          /\ pc[o] = "render" => Len(body[o]) = i[o] - 1
                          /\ pc[o] = "done" => Len(body[o]) = count[o]
           Steady(o) == Rendering(o) /\ (resorted[slot[o]] = 0 \/ CsvAlone)
           Same(o) == \A k \in 1..Len(body[o]) : body[o][k].id = Array(o)[k].id
<1>1. ASSUME NEW o \in Requests, o # r PROVE Length(o)' /\ Rendered(o)' /\ (Steady(o) => Same(o))'
  <2>1. /\ pc'[o] = pc[o] /\ request'[o] = request[o] /\ slot'[o] = slot[o] /\ count'[o] = count[o]
        /\ i'[o] = i[o] /\ body'[o] = body[o]
    BY <1>0, <1>1, Locals
  <2>2. Length(o) /\ Rendered(o) /\ (Steady(o) => Same(o))
    BY <1>0 DEF BodyInv
  <2>3. Rendered(o)'
    BY <2>1, <2>2
  <2>4. CASE ~(Sorting(o) \/ Rendering(o))
    BY <2>1, <2>2, <2>3, <2>4 DEF Sorting
  <2>5. CASE Sorting(o) \/ Rendering(o)
    <3>1. slot[o] \in Slots
      BY <1>0, <2>5 DEF SlotsInv, TypeOK, Sorting
    <3>2. slot[o] \in Live(cache, slot) /\ slot[o] \in Live(cache, slot)'
      BY <2>1 DEF Live
    <3>3. Len(heap'[slot[o]]) = Len(heap[slot[o]])
      BY <1>0, <3>1, <3>2, Lengths
    <3>4. Length(o)'
      BY <2>1, <2>2, <3>3 DEF Array, Sorting
    <3>5. ASSUME Steady(o)' PROVE Same(o)'
      <4>1. Rendering(o) /\ (resorted'[slot[o]] = 0 \/ CsvAlone)
        BY <2>1, <3>5
      <4>2. resorted'[slot[o]] = 0 => resorted[slot[o]] = 0
        <5>1. PICK s \in Slots : s = slot[o]
          BY <3>1
        <5>2. resorted'[s] \in Nat /\ resorted[s] \in Nat /\ resorted[s] <= resorted'[s]
          BY <1>0, <3>2, <5>1, ResortedGrows
        <5> QED
          BY <5>1, <5>2
      <4>3. ~(Collect(r) /\ slot[o] = FreeSlot)
        BY <1>0, <3>2, FreeArray DEF Collect, CollectAs, Goto, SlotsInv
      <4>4. ~((StoreUpper(r) \/ StoreLower(r)) /\ slot[o] = slot[r])
        <5> SUFFICES ASSUME StoreUpper(r) \/ StoreLower(r), slot[o] = slot[r] PROVE FALSE
          OBVIOUS
        <5>1. Sorting(r) /\ resorted[slot[o]] > 0
          BY <1>0, Stores
        <5>2. ~CsvAlone
          BY <1>0, <1>1, <4>1, <5>1 DEF AloneInv, IsCsv, InFlight, Sorting, SlotsInv
        <5> QED
          BY <4>1, <4>2, <5>1, <5>2
      <4>5. heap'[slot[o]] = heap[slot[o]]
        BY <1>0, <3>1, <3>2, <4>3, <4>4, InUse
      <4> QED
        BY <2>1, <2>2, <4>1, <4>2, <4>5 DEF Array
    <3> QED
      BY <2>3, <3>4, <3>5
  <2> QED
    BY <2>4, <2>5
<1>2. body' \in [Requests -> Seq(Rows)] /\ Length(r)' /\ Rendered(r)' /\ (Steady(r) => Same(r))'
  <2>0. /\ body \in [Requests -> Seq(Rows)] /\ count \in [Requests -> Nat]
        /\ pc \in [Requests -> Places] /\ i \in [Requests -> Nat]
        /\ Length(r) /\ Rendered(r) /\ (Steady(r) => Same(r))
    BY <1>0 DEF TypeOK, StepsInv, BodyInv, Places
  <2>1. CASE /\ ~Sorting(r) /\ ~Rendering(r) /\ ~Sorting(r)' /\ ~Rendering(r)'
             /\ UNCHANGED <<count, body>>
    BY <2>0, <2>1
  <2>2. CASE Cap(r)
    <3> DEFINE n == Smaller(request[r].limit, Len(Array(r)))
    <3>1. /\ pc[r] = "cap" /\ pc'[r] \in {"compare", "render"}
          /\ count'[r] = n
          /\ pc'[r] = "render" => i'[r] = 1
          /\ UNCHANGED <<heap, slot, request, body>>
      BY <2>0, <2>2 DEF Cap, CapTo, Goto, Set, shared
    <3>2. body[r] = <<>> /\ Len(<<>>) = 0
      BY <2>0, <3>1
    <3>3. Array(r)' = Array(r)
      BY <3>1 DEF Array
    <3> HIDE DEF n
    <3> QED
      BY <2>0, <3>1, <3>2, <3>3 DEF Sorting, n
  <2>3. CASE Compare(r)
    <3>1. /\ pc[r] = "compare" /\ pc'[r] \in {"compare", "swap", "render"}
          /\ pc'[r] = "render" => i'[r] = 1
          /\ UNCHANGED <<heap, slot, request, body, count>>
      BY <2>0, <2>3 DEF Compare, CompareBy, Set
    <3>2. body[r] = <<>> /\ Len(<<>>) = 0
      BY <2>0, <3>1
    <3>3. Array(r)' = Array(r)
      BY <3>1 DEF Array
    <3> QED
      BY <2>0, <3>1, <3>2, <3>3 DEF Sorting
  <2>4. CASE LoadPair(r) \/ StoreUpper(r) \/ StoreLower(r)
    <3>1. /\ pc[r] \in {"swap", "store", "store2"} /\ pc'[r] \in {"store", "store2", "compare"}
          /\ UNCHANGED <<slot, request, body, count>>
      BY <2>0, <2>4 DEF LoadPair, StoreUpper, StoreLower, Goto, shared
    <3>2. slot[r] \in Slots /\ slot[r] \in Live(cache, slot) /\ slot[r] \in Live(cache, slot)'
      BY <1>0, <3>1 DEF SlotsInv, TypeOK, Live
    <3>3. Len(heap'[slot[r]]) = Len(heap[slot[r]])
      BY <1>0, <3>2, Lengths
    <3>4. Sorting(r) /\ Sorting(r)' /\ ~Rendering(r) /\ ~Rendering(r)'
      BY <3>1 DEF Sorting
    <3> QED
      BY <2>0, <3>1, <3>3, <3>4 DEF Array
  <2>5. CASE RenderRow(r)
    <3> DEFINE x == Array(r)[i[r]]
               row == IF request[r].mime = "csv" THEN CsvRow(x) ELSE JsonRow(x)
    <3>1. /\ pc[r] = "render" /\ i[r] <= count[r]
          /\ body' = [body EXCEPT ![r] = Append(body[r], row)]
          /\ i' = [i EXCEPT ![r] = i[r] + 1]
          /\ UNCHANGED <<heap, resorted, pc, request, slot, count>>
      BY <2>5 DEF RenderRow, Set, shared
    <3>2. Array(r)' = Array(r)
      BY <3>1 DEF Array
    <3>3. x \in Items
      <4>1. slot[r] \in Slots /\ slot[r] # 0 /\ count[r] <= Len(Array(r)) /\ i[r] \in 1..count[r] + 1
        BY <1>0, <3>1 DEF SlotsInv, TypeOK
      <4>2. Array(r) \in Seq(Items) /\ Len(Array(r)) \in Nat
        BY <1>0, <4>1 DEF TypeOK, Array
      <4>3. i[r] \in 1..Len(Array(r))
        BY <2>0, <3>1, <4>1, <4>2
      <4> QED
        BY <4>2, <4>3
    <3>4. row \in Rows /\ row.id = x.id
      <4>1. x.id \in Nat
        BY <3>3, ItemsAssumption
      <4> HIDE DEF x
      <4> QED
        BY <4>1 DEF JsonRow, CsvRow, Rows
    <3>5. body' \in [Requests -> Seq(Rows)]
      <4> HIDE DEF row
      <4> QED
        BY <2>0, <3>1, <3>4
    <3>6. Length(r)' /\ Rendered(r)'
      <4> HIDE DEF row
      <4>1. Len(body'[r]) = Len(body[r]) + 1 /\ i'[r] = i[r] + 1
        BY <2>0, <3>1, <3>4
      <4> QED
        BY <2>0, <3>1, <3>2, <4>1 DEF Sorting
    <3>7. ASSUME Steady(r)' PROVE Same(r)'
      <4>1. Same(r)
        BY <2>0, <3>1, <3>7
      <4>2. PICK b \in Seq(Rows) : b = body[r]
        BY <2>0
      <4>3. PICK y \in Rows : y = row /\ y.id = Array(r)[i[r]].id
        BY <3>4
      <4>4. body'[r] = Append(b, y) /\ Len(b) = i[r] - 1
        BY <2>0, <3>1, <4>2, <4>3
      <4>5. \A k \in 1..Len(Append(b, y)) : Append(b, y)[k].id = Array(r)[k].id
        <5> SUFFICES ASSUME NEW k \in 1..Len(b) + 1 PROVE Append(b, y)[k].id = Array(r)[k].id
          BY <4>2
        <5>1. CASE k = Len(b) + 1
          BY <2>0, <4>3, <4>4, <5>1
        <5>2. CASE k \in 1..Len(b)
          BY <4>1, <4>2, <5>2
        <5> QED
          BY <5>1, <5>2
      <4> QED
        BY <3>2, <4>4, <4>5
    <3> QED
      BY <3>5, <3>6, <3>7
  <2>6. CASE Answer(r)
    <3>1. /\ pc[r] = "render" /\ pc'[r] = "done" /\ i[r] > count[r]
          /\ UNCHANGED <<heap, resorted, request, slot, count, i, body>>
      BY <2>0, <2>6 DEF Answer, Goto, shared
    <3>2. i[r] \in 1..count[r] + 1
      BY <1>0, <3>1 DEF TypeOK
    <3>3. Array(r)' = Array(r)
      BY <3>1 DEF Array
    <3>4. Len(body[r]) = count[r]
      BY <2>0, <3>1, <3>2
    <3> QED
      BY <2>0, <3>1, <3>3, <3>4 DEF Sorting
  <2>7. CASE Finish(r)
    <3>1. body' = [body EXCEPT ![r] = <<>>] /\ count' = [count EXCEPT ![r] = 0] /\ pc'[r] = "idle"
      BY <2>0, <2>7 DEF Finish, Set
    <3>2. ~Sorting(r)' /\ ~Rendering(r)'
      BY <3>1 DEF Sorting
    <3> QED
      BY <2>0, <3>1, <3>2
  <2>8. Arrive(r) \/ GetCached(r) \/ GetMissing(r) \/ Collect(r) \/ CollectFails(r) \/ Add(r) =>
          /\ ~Sorting(r) /\ ~Rendering(r) /\ ~Sorting(r)' /\ ~Rendering(r)'
          /\ UNCHANGED <<count, body>>
    BY <2>0 DEF Arrive, GetCached, GetMissing, Collect, CollectAs, CollectFails, Add, Goto, Sorting
  <2> QED
    BY <2>1, <2>2, <2>3, <2>4, <2>5, <2>6, <2>7, <2>8 DEF Handle, Lookup, Sort
<1>3. \A o \in Requests : Length(o)' /\ Rendered(o)' /\ (Steady(o) => Same(o))'
  BY <1>1, <1>2
<1> QED
  BY <1>2, <1>3 DEF BodyInv

LEMMA TypeStep ==
    ASSUME HistoryInv, NEW r \in Requests, Arrive(r) \/ Handle(r)
    PROVE  TypeOK'
<1>0. TypeOK /\ SlotsInv /\ StepsInv /\ BodyInv
  BY DEF HistoryInv
<1>1. heap' \in [Slots -> Seq(Items)]
  <2>1. CASE Collect(r)
    <3> DEFINE a == request[r].address
    <3>1. PICK lost \in SUBSET HistoryOf[a] :
              heap' = [heap EXCEPT ![FreeSlot] = Newest(HistoryOf[a] \ lost)]
      BY <2>1 DEF Collect, CollectAs
    <3>2. a \in Addresses
      BY <1>0, <2>1 DEF Collect, CollectAs, Goto, SlotsInv, InFlight, Asked
    <3>3. HistoryOf[a] \ lost \in SUBSET HistoryOf[a]
      OBVIOUS
    <3>4. PICK S \in SUBSET HistoryOf[a] : S = HistoryOf[a] \ lost
      BY <3>3
    <3>5. Newest(S) \in Seq(Items)
      BY <3>2, Parts, NewestList
    <3> QED
      BY <1>0, <3>1, <3>4, <3>5 DEF TypeOK
  <2>2. CASE StoreUpper(r) \/ StoreLower(r)
    <3>1. PICK k \in 1..Len(Array(r)), x \in Items :
              heap' = [heap EXCEPT ![slot[r]] = [Array(r) EXCEPT ![k] = x]]
      BY <1>0, <2>2, Stores
    <3>2. slot[r] \in Slots
      BY <1>0, <2>2, Stores
    <3>3. Array(r) \in Seq(Items)
      BY <1>0, <3>2 DEF TypeOK, Array
    <3>4. [Array(r) EXCEPT ![k] = x] \in Seq(Items)
      BY <3>3
    <3> QED
      BY <1>0, <3>1, <3>4 DEF TypeOK
  <2>3. CASE Add(r) \/ Finish(r)
    <3>1. \E L : heap' = [s \in Slots |-> IF s \in L THEN heap[s] ELSE <<>>]
      BY <2>3 DEF Add, Finish, CollectGarbage
    <3>2. heap \in [Slots -> Seq(Items)] /\ <<>> \in Seq(Items)
      BY <1>0 DEF TypeOK
    <3> QED
      BY <3>1, <3>2
  <2>4. CASE UNCHANGED heap
    BY <1>0, <2>4 DEF TypeOK
  <2> QED
    BY <2>1, <2>2, <2>3, <2>4, SharedBy DEF shared, Compare, CompareBy
<1>2. partial' \subseteq Slots /\ resorted' \in [Slots -> Nat]
  <2>0. partial \subseteq Slots /\ resorted \in [Slots -> Nat]
    BY <1>0 DEF TypeOK
  <2>1. CASE Collect(r)
    <3>1. FreeSlot \in Slots
      BY <1>0, <2>1, FreeArray DEF Collect, CollectAs, Goto, SlotsInv
    <3> QED
      BY <2>0, <2>1, <3>1 DEF Collect, CollectAs
  <2>2. CASE Compare(r)
    <3>1. slot[r] \in Slots /\ count[r] \in Nat
      BY <1>0, <2>2 DEF Compare, CompareBy, SlotsInv, TypeOK
    <3>2. Larger(resorted[slot[r]], count[r]) \in Nat
      BY <2>0, <3>1, LargerOf
    <3> QED
      BY <2>0, <2>2, <3>2 DEF Compare, CompareBy, Set
  <2>3. CASE Add(r) \/ Finish(r)
    <3>1. /\ partial' \subseteq partial
          /\ \E L : resorted' = [s \in Slots |-> IF s \in L THEN resorted[s] ELSE 0]
      BY <2>3 DEF Add, Finish, CollectGarbage
    <3> QED
      BY <2>0, <3>1
  <2>4. CASE UNCHANGED <<partial, resorted>>
    BY <2>0, <2>4
  <2> QED
    BY <2>1, <2>2, <2>3, <2>4, SharedBy DEF shared, StoreUpper, StoreLower
<1>3. DOMAIN cache' \subseteq Addresses /\ \A a \in DOMAIN cache' : cache'[a] \in Slots
  <2>1. CASE Add(r)
    <3>1. request[r].address \in Addresses /\ slot[r] \in Slots
      BY <1>0, <2>1 DEF Add, Goto, SlotsInv, InFlight, Asked, TypeOK
    <3> QED
      BY <1>0, <2>1, <3>1 DEF TypeOK, Add
  <2>2. CASE UNCHANGED cache
    BY <1>0, <2>2 DEF TypeOK
  <2> QED
    BY <2>1, <2>2, SharedBy
    DEF shared, Collect, CollectAs, Compare, CompareBy, StoreUpper, StoreLower, Finish
<1>4. pc' \in [Requests -> Places]
  <2>1. pc \in [Requests -> Places]
    BY <1>0 DEF TypeOK, Places
  <2> QED
    BY <2>1 DEF Handle, Lookup, Sort, Arrive, GetCached, GetMissing, Collect, CollectAs,
         CollectFails, Add, Cap, CapTo, Compare, CompareBy, LoadPair, StoreUpper, StoreLower,
         RenderRow, Answer, Finish, Goto, Set, Places
<1>5. request' \in [Requests -> Asked \cup {NoRequest}]
  <2>1. request \in [Requests -> Asked \cup {NoRequest}]
    BY <1>0 DEF TypeOK
  <2> QED
    BY <2>1 DEF Handle, Lookup, Sort, Arrive, GetCached, GetMissing, Collect, CollectAs,
         CollectFails, Add, Cap, CapTo, Compare, CompareBy, LoadPair, StoreUpper, StoreLower,
         RenderRow, Answer, Finish, Set
<1>6. slot' \in [Requests -> Slots \cup {0}]
  <2>0. slot \in [Requests -> Slots \cup {0}] /\ \A a \in DOMAIN cache : cache[a] \in Slots
    BY <1>0 DEF TypeOK
  <2>1. CASE Collect(r)
    <3>1. FreeSlot \in Slots
      BY <1>0, <2>1, FreeArray DEF Collect, CollectAs, Goto, SlotsInv
    <3> QED
      BY <2>0, <2>1, <3>1 DEF Collect, CollectAs, Set
  <2>2. CASE GetCached(r) \/ Finish(r)
    BY <2>0, <2>2 DEF GetCached, Finish, Set
  <2>3. CASE UNCHANGED slot
    BY <2>0, <2>3
  <2> QED
    BY <2>1, <2>2, <2>3 DEF Handle, Lookup, Sort, Arrive, GetMissing,
         CollectFails, Add, Cap, CapTo, Compare, CompareBy, LoadPair, StoreUpper, StoreLower,
         RenderRow, Answer
<1>7. held' \in [Requests -> Seq(Items)]
  <2>0. held \in [Requests -> Seq(Items)]
    BY <1>0 DEF TypeOK
  <2>1. CASE LoadPair(r)
    <3>1. pc[r] = "swap" /\ held' = [held EXCEPT ![r] = <<Array(r)[j[r]], Array(r)[j[r] - 1]>>]
      BY <2>1 DEF LoadPair, Goto, Set
    <3>2. /\ slot[r] \in Slots /\ j[r] \in Nat /\ j[r] > 1
          /\ count[r] <= Len(Array(r)) /\ i[r] \in 2..count[r] /\ j[r] \in 1..i[r]
      BY <1>0, <3>1 DEF SlotsInv, StepsInv, TypeOK, Sorting, Slots
    <3>3. Array(r) \in Seq(Items) /\ Len(Array(r)) \in Nat
      BY <1>0, <3>2 DEF TypeOK, Array
    <3>4. Array(r)[j[r]] \in Items /\ Array(r)[j[r] - 1] \in Items
      BY <1>0, <3>2, <3>3 DEF TypeOK
    <3> QED
      BY <2>0, <3>1, <3>4
  <2>2. CASE StoreLower(r)
    BY <2>0, <2>2 DEF StoreLower, Set
  <2>3. CASE UNCHANGED held
    BY <2>0, <2>3
  <2> QED
    BY <2>1, <2>2, <2>3 DEF Handle, Lookup, Sort, Arrive, GetCached, GetMissing, Collect, CollectAs,
         CollectFails, Add, Cap, CapTo, Compare, CompareBy, StoreUpper, RenderRow, Answer, Finish
<1>8. count' \in [Requests -> Nat] /\ \A o \in Requests : (slot[o] # 0 => count[o] <= Len(Array(o)))'
  <2>1. SlotsInv' /\ BodyInv'
    BY <1>0, SlotsStep, BodyStep
  <2>2. \E f : count' = [count EXCEPT ![r] = f]
    <3>1. count = [count EXCEPT ![r] = count[r]]
      BY <1>0 DEF TypeOK
    <3> QED
      BY <3>1 DEF Handle, Lookup, Sort, Arrive, GetCached, GetMissing, Collect, CollectAs,
         CollectFails, Add, Cap, CapTo, Compare, CompareBy, LoadPair, StoreUpper, StoreLower,
         RenderRow, Answer, Finish, Set
  <2>3. ASSUME NEW o \in Requests
        PROVE  count'[o] \in Nat /\ (slot'[o] # 0 => count'[o] <= Len(Array(o)'))
    <3>1. CASE slot'[o] = 0
      <4>1. ~Sorting(o)' /\ pc'[o] \notin {"render", "done"}
        BY <2>1, <3>1 DEF SlotsInv, Sorting
      <4> QED
        BY <2>1, <3>1, <4>1 DEF BodyInv
    <3>2. CASE slot'[o] # 0
      <4>1. slot'[o] \in Slots /\ request'[o].limit \in Nat
        BY <1>6, <2>1, <3>2, ParameterAssumption DEF SlotsInv, InFlight, Asked
      <4>2. Len(Array(o)') \in Nat
        BY <1>1, <4>1 DEF Array
      <4> QED
        BY <2>1, <4>1, <4>2 DEF BodyInv, Smaller
    <3> QED
      BY <3>1, <3>2
  <2>4. count' \in [Requests -> Nat]
    BY <1>0, <2>2, <2>3 DEF TypeOK
  <2> QED
    BY <2>3, <2>4
<1>9. \A o \in Requests : /\ Sorting(o)' => j'[o] \in 1..count'[o]
                          /\ pc'[o] = "render" => i'[o] \in 1..count'[o] + 1
  <2> SUFFICES ASSUME NEW o \in Requests
               PROVE  /\ Sorting(o)' => j'[o] \in 1..count'[o]
                      /\ pc'[o] = "render" => i'[o] \in 1..count'[o] + 1
    OBVIOUS
  <2>1. Sorting(o)' => j'[o] \in 1..count'[o]
    BY <1>8, StepsStep DEF StepsInv
  <2>2. CASE o # r
    BY <1>0, <2>1, <2>2, Locals DEF TypeOK
  <2>3. CASE o = r /\ pc'[r] # "render"
    BY <2>1, <2>3
  <2>4. CASE o = r /\ pc'[r] = "render"
    <3>0. /\ i \in [Requests -> Nat] /\ pc \in [Requests -> Places]
          /\ pc[r] = "render" => i[r] \in 1..count[r] + 1
      BY <1>0 DEF TypeOK, StepsInv, Places
    <3>1. Cap(r) \/ Compare(r) => i'[r] = 1
      BY <2>4, <3>0 DEF Cap, CapTo, Compare, CompareBy, Goto, Set
    <3>2. RenderRow(r) => i'[r] \in 1..count'[r] + 1
      BY <1>8, <3>0 DEF RenderRow, Set
    <3>3. Cap(r) \/ Compare(r) \/ RenderRow(r)
      BY <2>4, <3>0 DEF Handle, Lookup, Sort, Arrive, GetCached, GetMissing, Collect, CollectAs,
         CollectFails, Add, LoadPair, StoreUpper, StoreLower,
         Answer, Finish, Goto, Set
    <3>4. count'[r] \in Nat
      BY <1>8
    <3>5. i'[r] \in 1..count'[r] + 1
      BY <3>1, <3>2, <3>3, <3>4
    <3> QED
      BY <2>1, <2>4, <3>5
  <2> QED
    BY <2>2, <2>3, <2>4
<1> QED
  BY <1>1, <1>2, <1>3, <1>4, <1>5, <1>6, <1>7, <1>8, <1>9 DEF TypeOK, Places

LEMMA HistoryStep ==
    ASSUME HistoryInv, [Next]_vars
    PROVE  HistoryInv'
<1>0. TypeOK /\ SlotsInv /\ SharedInv /\ ArraysInv /\ StepsInv /\ BodyInv /\ AloneInv
  BY DEF HistoryInv
<1>1. CASE Next
  <2>1. PICK r \in Requests : Arrive(r) \/ Handle(r)
    BY <1>1 DEF Next
  <2>2. TypeOK' /\ SlotsInv' /\ SharedInv'
    BY <1>0, <2>1, TypeStep, SlotsStep, SharedStep
  <2>3. ArraysInv' /\ StepsInv' /\ BodyInv' /\ AloneInv'
    BY <2>1, ArraysStep, StepsStep, BodyStep, AloneStep
  <2> QED
    BY <2>2, <2>3 DEF HistoryInv
<1>2. CASE UNCHANGED vars
  <2>1. /\ heap' = heap /\ cache' = cache /\ partial' = partial /\ resorted' = resorted
        /\ pc' = pc /\ request' = request /\ slot' = slot /\ count' = count
        /\ i' = i /\ j' = j /\ held' = held /\ body' = body
    BY <1>2 DEF vars, shared
  <2>2. TypeOK' /\ SlotsInv'
    BY <1>0, <2>1 DEF TypeOK, SlotsInv, Sorting, InFlight, Array
  <2>3. SharedInv' /\ ArraysInv'
    BY <1>0, <2>1 DEF SharedInv, ArraysInv, UsedFor
  <2>4. StepsInv' /\ BodyInv' /\ AloneInv'
    BY <1>0, <2>1 DEF StepsInv, BodyInv, AloneInv, Sorting, InFlight, IsCsv, Array
  <2> QED
    BY <2>2, <2>3, <2>4 DEF HistoryInv
<1> QED
  BY <1>1, <1>2

(* The invariant of the history endpoint: whatever requests run at the     *)
(* same time, an array has one address, its length and, behind what CSV    *)
(* answers have sorted of it, its order.                                   *)
THEOREM Arrays == Spec => []HistoryInv
<1>1. Init => HistoryInv
  BY InitHistory
<1>2. HistoryInv /\ [Next]_vars => HistoryInv'
  BY HistoryStep
<1> QED
  BY <1>1, <1>2, PTL DEF Spec

(* Every variable of the endpoint keeps its type, indices stay within      *)
(* their slices: transactions.go never reads or writes past an array.      *)
THEOREM TypeCorrect == Spec => []TypeOK
<1>1. HistoryInv => TypeOK
  BY DEF HistoryInv
<1> QED
  BY <1>1, Arrays, PTL

(* A JSON answer lists the newest items, newest first, as many as asked    *)
(* for, while no CSV answer has sorted its array and no read has failed.   *)
THEOREM JsonOrder == Spec => []JsonFollowsOrderUnlessResorted
<1>1. HistoryInv => JsonFollowsOrderUnlessResorted
  <2> SUFFICES ASSUME HistoryInv, NEW r \in Requests, pc[r] = "done", request[r].mime = "json",
                      slot[r] \notin partial, resorted[slot[r]] = 0
               PROVE  Ids(body[r]) = NewestIds(request[r].address, request[r].limit)
    BY DEF JsonFollowsOrderUnlessResorted
  <2>0. TypeOK /\ SlotsInv /\ ArraysInv /\ BodyInv
    BY DEF HistoryInv
  <2>1. PICK a \in Addresses, n \in Nat : a = request[r].address /\ n = request[r].limit
    BY <2>0, ParameterAssumption DEF SlotsInv, InFlight, Asked
  <2>2. slot[r] \in Slots /\ UsedFor(slot[r], a)
    BY <2>0, <2>1 DEF SlotsInv, TypeOK, UsedFor
  <2>3. Array(r) = Newest(HistoryOf[a])
    <3>1. /\ Len(Array(r)) = Cardinality(HistoryOf[a])
          /\ \A k \in 1..Len(Array(r)) : k > 0 => Array(r)[k] = Newest(HistoryOf[a])[k]
      BY <2>0, <2>2 DEF ArraysInv, Array
    <3>2. Newest(HistoryOf[a]) \in Seq(Items) /\ Len(Newest(HistoryOf[a])) = Cardinality(HistoryOf[a])
      BY HistoryList
    <3>3. Array(r) \in Seq(Items)
      BY <2>0, <2>2 DEF TypeOK, Array
    <3> QED
      BY <3>1, <3>2, <3>3
  <2>4. PICK s \in Seq(Items) : s = Newest(HistoryOf[a])
    BY HistoryList
  <2>5. PICK b \in Seq(Rows) : b = body[r]
    BY <2>0 DEF BodyInv
  <2>6. PICK m \in Nat : m = Smaller(n, Len(s))
    BY <2>4 DEF Smaller
  <2>7. Len(b) = m
    BY <2>0, <2>1, <2>3, <2>4, <2>5, <2>6 DEF BodyInv
  <2>8. \A k \in 1..m : b[k].id = s[k].id
    BY <2>0, <2>3, <2>4, <2>5, <2>7 DEF BodyInv
  <2>9. DOMAIN SubSeq(s, 1, m) = 1..m /\ \A k \in 1..m : SubSeq(s, 1, m)[k] = s[k]
    BY <2>4, <2>6 DEF Smaller
  <2>10. NewestIds(a, n) = [k \in 1..m |-> s[k].id]
    BY <2>4, <2>6, <2>9 DEF NewestIds, Ids, Cut
  <2>11. Ids(b) = [k \in 1..m |-> b[k].id]
    BY <2>5, <2>7 DEF Ids
  <2> QED
    BY <2>1, <2>5, <2>8, <2>10, <2>11
<1> QED
  BY <1>1, Arrays, PTL

-----------------------------------------------------------------------------
(* The sort of a CSV answer that is made alone.                            *)

(* The first n elements are sorted but for the one at m.                   *)
Inserting(q, n, m) == \A k, l \in 1..n : k < l /\ l # m => Older(q[k], q[l])
Exchanged(q, m) == [[q EXCEPT ![m] = q[m - 1]] EXCEPT ![m - 1] = q[m]]

LEMMA ExchangedElements ==
    ASSUME NEW q \in Seq(Items), NEW m \in 2..Len(q)
    PROVE  /\ Exchanged(q, m) \in Seq(Items) /\ DOMAIN Exchanged(q, m) = DOMAIN q
           /\ DOMAIN q = 1..Len(q) /\ m \in DOMAIN q /\ m - 1 \in DOMAIN q
           /\ \A k \in DOMAIN q :
                 /\ k = m => Exchanged(q, m)[k] = q[m - 1]
                 /\ k = m - 1 => Exchanged(q, m)[k] = q[m]
                 /\ k # m /\ k # m - 1 => Exchanged(q, m)[k] = q[k]
<1>1. DOMAIN q = 1..Len(q) /\ m \in DOMAIN q /\ m - 1 \in DOMAIN q /\ m # m - 1
  OBVIOUS
<1>2. PICK p : p = [q EXCEPT ![m] = q[m - 1]]
  OBVIOUS
<1>3. p \in Seq(Items) /\ DOMAIN p = DOMAIN q /\ Len(p) = Len(q)
  BY <1>1, <1>2
<1>4. Exchanged(q, m) = [p EXCEPT ![m - 1] = q[m]]
  BY <1>2 DEF Exchanged
<1>5. Exchanged(q, m) \in Seq(Items)
  BY <1>1, <1>3, <1>4
<1> QED
  BY <1>1, <1>2, <1>3, <1>4, <1>5

(* An exchange takes nothing away and adds nothing.                        *)
LEMMA ExchangedWhole ==
    ASSUME NEW q \in Seq(Items), NEW m \in 2..Len(q), NEW s, NEW a, Whole(q, s, a)
    PROVE  Whole(Exchanged(q, m), s, a)
<1>1. PICK p : p = Exchanged(q, m)
  OBVIOUS
<1>2. /\ DOMAIN p = DOMAIN q /\ m \in DOMAIN q /\ m - 1 \in DOMAIN q /\ m # m - 1
      /\ p[m] = q[m - 1] /\ p[m - 1] = q[m]
      /\ \A k \in DOMAIN q : k # m /\ k # m - 1 => p[k] = q[k]
  BY <1>1, ExchangedElements
<1>3. \A k, l \in DOMAIN p : p[k] = p[l] => k = l
  BY <1>2 DEF Whole
<1>4. \A k \in DOMAIN p : p[k] \in HistoryOf[a]
  BY <1>2 DEF Whole
<1>5. ASSUME s \notin partial, NEW x \in HistoryOf[a] PROVE \E k \in DOMAIN p : p[k] = x
  <2>1. PICK k \in DOMAIN q : q[k] = x
    BY <1>5 DEF Whole
  <2> QED
    BY <1>2, <2>1
<1> QED
  BY <1>1, <1>3, <1>4, <1>5 DEF Whole

(* The smaller element sinks by one.                                       *)
LEMMA ExchangedInserting ==
    ASSUME NEW q \in Seq(Items), NEW n \in 2..Len(q), NEW m \in 2..n,
           Inserting(q, n, m), Older(q[m], q[m - 1])
    PROVE  Inserting(Exchanged(q, m), n, m - 1)
<1>1. PICK p : p = Exchanged(q, m)
  OBVIOUS
<1>2. /\ p[m] = q[m - 1] /\ p[m - 1] = q[m]
      /\ \A k \in 1..n : k # m /\ k # m - 1 => p[k] = q[k]
  <2>1. m \in 2..Len(q) /\ \A k \in 1..n : k \in DOMAIN q
    OBVIOUS
  <2>2. m \in DOMAIN q /\ m - 1 \in DOMAIN q /\ m # m - 1
    BY <2>1
  <2> QED
    BY <1>1, <2>1, <2>2, ExchangedElements
<1>3. ASSUME NEW k \in 1..n, NEW l \in 1..n, k < l, l # m - 1 PROVE Older(p[k], p[l])
  <2>1. CASE l = m /\ k = m - 1
    BY <1>2, <2>1
  <2>2. CASE l = m /\ k # m - 1
    <3>1. p[k] = q[k] /\ p[l] = q[m - 1] /\ k < m - 1 /\ m - 1 \in 1..n /\ m - 1 # m
      BY <1>2, <1>3, <2>2
    <3> QED
      BY <3>1 DEF Inserting
  <2>3. CASE l # m /\ k = m
    <3>1. p[k] = q[m - 1] /\ p[l] = q[l] /\ m - 1 < l /\ m - 1 \in 1..n
      BY <1>2, <1>3, <2>3
    <3> QED
      BY <2>3, <3>1 DEF Inserting
  <2>4. CASE l # m /\ k = m - 1
    <3>1. p[k] = q[m] /\ p[l] = q[l] /\ m < l /\ m \in 1..n
      BY <1>2, <1>3, <2>4
    <3> QED
      BY <2>4, <3>1 DEF Inserting
  <2>5. CASE l # m /\ k # m /\ k # m - 1
    <3>1. p[k] = q[k] /\ p[l] = q[l]
      BY <1>2, <1>3, <2>5
    <3> QED
      BY <1>3, <2>5, <3>1 DEF Inserting
  <2> QED
    BY <2>1, <2>2, <2>3, <2>4, <2>5
<1> QED
  BY <1>1, <1>3 DEF Inserting

(* An element that is not smaller than the one before it has sunk.         *)
LEMMA Inserted ==
    ASSUME NEW q \in Seq(Items), NEW n \in 1..Len(q), NEW m \in 1..n, Inserting(q, n, m),
           \A k, l \in DOMAIN q : q[k] = q[l] => k = l,
           m > 1 => ~Older(q[m], q[m - 1])
    PROVE  \A k, l \in 1..n : k < l => Older(q[k], q[l])
<1> SUFFICES ASSUME NEW k \in 1..n, NEW l \in 1..n, k < l PROVE Older(q[k], q[l])
  OBVIOUS
<1>1. CASE l # m
  BY <1>1 DEF Inserting
<1>2. CASE l = m
  <2>1. m > 1 /\ m - 1 \in 1..n /\ m - 1 # m /\ DOMAIN q = 1..Len(q) /\ n <= Len(q)
    BY <1>2
  <2>2. q[m] \in Items /\ q[m - 1] \in Items /\ q[k] \in Items /\ q[m] # q[m - 1]
    BY <2>1
  <2>3. Older(q[m - 1], q[m])
    BY <2>1, <2>2, OlderOrder
  <2>4. CASE k = m - 1
    BY <1>2, <2>3, <2>4
  <2>5. CASE k < m - 1
    <3>1. Older(q[k], q[m - 1])
      BY <2>1, <2>5 DEF Inserting
    <3> QED
      BY <1>2, <2>2, <2>3, <3>1, OlderOrder
  <2> QED
    BY <1>2, <2>4, <2>5
<1> QED
  BY <1>1, <1>2

(* Where a sort is, and what it works on.                                  *)
LEMMA SortingAt ==
    ASSUME HistoryInv, NEW r \in Requests, Sorting(r)
    PROVE  /\ slot[r] \in Slots /\ request[r].mime = "csv" /\ request[r].address \in Addresses
           /\ UsedFor(slot[r], request[r].address) /\ IsCsv(r)
           /\ Array(r) \in Seq(Items)
           /\ i[r] \in 2..Len(Array(r)) /\ i[r] <= count[r] /\ count[r] <= Len(Array(r))
           /\ count[r] \in Nat /\ j[r] \in 1..i[r]
           /\ pc[r] # "compare" => j[r] \in 2..i[r] /\ j[r] \in 2..Len(Array(r))
<1>0. TypeOK /\ SlotsInv /\ StepsInv
  BY DEF HistoryInv
<1>1. slot[r] \in Slots /\ slot[r] # 0
  BY <1>0 DEF SlotsInv, TypeOK, Sorting
<1>2. request[r].mime = "csv" /\ request[r].address \in Addresses /\ IsCsv(r)
  BY <1>0 DEF SlotsInv, Asked, InFlight, IsCsv, Sorting
<1>3. Array(r) \in Seq(Items) /\ Len(Array(r)) \in Nat
  BY <1>0, <1>1 DEF TypeOK, Array
<1>4. i[r] \in 2..count[r] /\ count[r] <= Len(Array(r)) /\ count[r] \in Nat /\ j[r] \in 1..i[r]
  BY <1>0, <1>1 DEF StepsInv, TypeOK
<1>5. pc[r] # "compare" => j[r] > 1
  BY <1>0 DEF StepsInv, Sorting
<1>6. UsedFor(slot[r], request[r].address)
  BY DEF UsedFor
<1> QED
  BY <1>1, <1>2, <1>3, <1>4, <1>5, <1>6

(* Nobody else is in the middle of a swap.                                 *)
LEMMA NoSwap ==
    ASSUME HistoryInv, CsvAlone, NEW r \in Requests, InFlight(r), pc[r] # "store2"
    PROVE  ~Swapping(slot[r])
<1> SUFFICES ASSUME NEW o \in Requests, slot[o] = slot[r], pc[o] = "store2" PROVE FALSE
  BY DEF Swapping
<1>1. o # r /\ IsCsv(o)
  BY SortingAt DEF Sorting
<1> QED
  BY <1>1 DEF HistoryInv, AloneInv

(* Loading the pair and storing it again is an exchange.                   *)
LEMMA UpperStored ==
    ASSUME HistoryInv, InsertionInv, NEW r \in Requests, StoreUpper(r)
    PROVE  /\ pc[r] = "store" /\ pc'[r] = "store2" /\ slot' = slot
           /\ Swapped(r)' = Exchanged(Array(r), j[r])
<1>0. TypeOK /\ SlotsInv /\ StepsInv
  BY DEF HistoryInv
<1>1. /\ pc[r] = "store" /\ pc'[r] = "store2" /\ slot' = slot /\ j' = j /\ held' = held
      /\ heap' = [heap EXCEPT ![slot[r]] = [heap[slot[r]] EXCEPT ![j[r]] = held[r][2]]]
  BY <1>0 DEF StoreUpper, Goto, TypeOK
<1>2. slot[r] \in Slots
  BY <1>1, SortingAt DEF Sorting
<1>3. held[r] = <<Array(r)[j[r]], Array(r)[j[r] - 1]>>
  BY <1>1 DEF InsertionInv
<1>4. held[r][1] = Array(r)[j[r]] /\ held[r][2] = Array(r)[j[r] - 1]
  BY <1>3
<1>5. heap'[slot[r]] = [Array(r) EXCEPT ![j[r]] = Array(r)[j[r] - 1]]
  BY <1>0, <1>1, <1>2, <1>4 DEF TypeOK, Array
<1>6. Swapped(r)' = [heap'[slot[r]] EXCEPT ![j[r] - 1] = held[r][1]]
  BY <1>1 DEF Swapped, Array
<1> QED
  BY <1>1, <1>4, <1>5, <1>6 DEF Exchanged

LEMMA LowerStored ==
    ASSUME HistoryInv, NEW r \in Requests, StoreLower(r)
    PROVE  /\ pc[r] = "store2" /\ pc'[r] = "compare" /\ slot' = slot /\ partial' = partial
           /\ heap'[slot[r]] = Swapped(r) /\ i' = i /\ j'[r] = Sinking(r)
<1>0. TypeOK /\ SlotsInv /\ StepsInv
  BY DEF HistoryInv
<1>1. /\ pc[r] = "store2" /\ pc'[r] = "compare" /\ slot' = slot /\ j'[r] = j[r] - 1 /\ i' = i
      /\ heap' = [heap EXCEPT ![slot[r]] = [heap[slot[r]] EXCEPT ![j[r] - 1] = held[r][1]]]
      /\ partial' = partial
  BY <1>0 DEF StoreLower, Goto, TypeOK, StepsInv, Set
<1>2. slot[r] \in Slots
  BY <1>1, SortingAt DEF Sorting
<1> QED
  BY <1>0, <1>1, <1>2 DEF TypeOK, Array, Swapped, Sinking

LEMMA WholeStep ==
    ASSUME HistoryInv, CsvAlone, WholeInv, InsertionInv, NEW r \in Requests, Arrive(r) \/ Handle(r)
    PROVE  WholeInv'
<1>0. TypeOK /\ SlotsInv /\ SharedInv /\ StepsInv /\ BodyInv /\ AloneInv
  BY DEF HistoryInv
<1>1. ASSUME NEW s \in Slots, NEW a \in Addresses, UsedFor(s, a)', ~Swapping(s)'
      PROVE  Whole(heap[s], s, a)'
  <2>1. CASE Collect(r) /\ s = FreeSlot /\ a = request[r].address
    <3>1. PICK lost \in SUBSET HistoryOf[a] :
              /\ heap' = [heap EXCEPT ![FreeSlot] = Newest(HistoryOf[a] \ lost)]
              /\ partial' = IF lost = {} THEN partial ELSE partial \cup {FreeSlot}
      BY <2>1 DEF Collect, CollectAs
    <3>2. PICK S \in SUBSET HistoryOf[a] : S = HistoryOf[a] \ lost
      OBVIOUS
    <3>3. heap'[s] = Newest(S) /\ (s \notin partial' => S = HistoryOf[a])
      BY <1>0, <2>1, <3>1, <3>2 DEF TypeOK
    <3>4. /\ \A k, l \in DOMAIN Newest(S) : Newest(S)[k] = Newest(S)[l] => k = l
          /\ \A k \in DOMAIN Newest(S) : Newest(S)[k] \in S
          /\ \A x \in S : \E k \in DOMAIN Newest(S) : Newest(S)[k] = x
      BY Parts, NewestList
    <3> QED
      BY <3>2, <3>3, <3>4 DEF Whole
  <2>2. CASE UsedFor(s, a)
    <3>1. s \in Live(cache, slot) /\ s \in Live(cache, slot)'
      BY <1>1, <2>2 DEF UsedFor, Live
    <3>2. ~(Collect(r) /\ s = FreeSlot)
      BY <1>0, <3>1, FreeArray DEF Collect, CollectAs, Goto, SlotsInv
    <3>3. s \in partial' <=> s \in partial
      BY <1>0, <3>1, <3>2, InUse
    <3>4. CASE StoreUpper(r) /\ s = slot[r]
      BY <1>1, <3>4, UpperStored DEF Swapping
    <3>5. CASE StoreLower(r) /\ s = slot[r]
      <4>1. pc[r] = "store2" /\ heap'[s] = Swapped(r)
        BY <3>5, LowerStored
      <4>2. request[r].address \in Addresses /\ UsedFor(s, request[r].address)
        BY <3>5, <4>1, SortingAt DEF Sorting
      <4>3. a = request[r].address
        BY <1>0, <2>2, <4>2 DEF SharedInv
      <4> QED
        BY <3>3, <3>5, <4>1, <4>3 DEF WholeInv, Whole
    <3>6. CASE heap'[s] = heap[s] /\ ~(StoreLower(r) /\ s = slot[r])
      <4>1. ~Swapping(s)
        <5> SUFFICES ASSUME NEW o \in Requests, slot[o] = s, pc[o] = "store2" PROVE FALSE
          BY DEF Swapping
        <5>1. CASE o = r
          <6>1. StoreLower(r)
            BY <5>1 DEF Handle, Lookup, Sort, Arrive, GetCached, GetMissing, Collect, CollectAs,
               CollectFails, Add, Cap, CapTo, Compare, CompareBy, LoadPair, StoreUpper,
               RenderRow, Answer, Finish, Goto
          <6> QED
            BY <3>6, <5>1, <6>1
        <5>2. CASE o # r
          <6>1. pc'[o] = pc[o] /\ slot'[o] = slot[o]
            BY <1>0, <5>2, Locals
          <6> QED
            BY <1>1, <6>1 DEF Swapping
        <5> QED
          BY <5>1, <5>2
      <4> QED
        BY <2>2, <3>3, <3>6, <4>1 DEF WholeInv, Whole
    <3> QED
      BY <1>0, <3>1, <3>2, <3>4, <3>5, <3>6, InUse
  <2> QED
    BY <1>0, <1>1, <2>1, <2>2, Uses
<1>2. ASSUME NEW o \in Requests, pc'[o] = "store2"
      PROVE  Whole(Swapped(o), slot[o], request[o].address)'
  <2>1. o = r
    <3> SUFFICES ASSUME o # r PROVE FALSE
      OBVIOUS
    <3>1. pc[o] = "store2"
      BY <1>0, <1>2, Locals
    <3> QED
      BY <1>0, <3>1, SortingAt, CsvUndisturbed DEF Sorting
  <2>2. StoreUpper(r)
    <3>1. pc \in [Requests -> Places]
      BY <1>0 DEF TypeOK, Places
    <3> QED
      BY <1>2, <2>1, <3>1 DEF Handle, Lookup, Sort, Arrive, GetCached, GetMissing, Collect, CollectAs,
         CollectFails, Add, Cap, CapTo, Compare, CompareBy, LoadPair, StoreLower,
         RenderRow, Answer, Finish, Goto, Set
  <2>3. /\ pc[r] = "store" /\ slot' = slot /\ Swapped(r)' = Exchanged(Array(r), j[r])
        /\ partial' = partial /\ request' = request
    BY <2>2, UpperStored DEF StoreUpper
  <2>4. /\ slot[r] \in Slots /\ request[r].address \in Addresses
        /\ UsedFor(slot[r], request[r].address)
        /\ Array(r) \in Seq(Items) /\ j[r] \in 2..Len(Array(r))
    BY <2>3, SortingAt DEF Sorting
  <2>5. ~Swapping(slot[r])
    BY <2>3, NoSwap DEF InFlight
  <2>6. Whole(Array(r), slot[r], request[r].address)
    BY <2>4, <2>5 DEF WholeInv, Array
  <2>7. Whole(Exchanged(Array(r), j[r]), slot[r], request[r].address)
    BY <2>4, <2>6, ExchangedWhole
  <2> QED
    BY <2>1, <2>3, <2>7 DEF Whole
<1> QED
  BY <1>1, <1>2 DEF WholeInv

LEMMA InsertionStep ==
    ASSUME HistoryInv, CsvAlone, WholeInv, InsertionInv, NEW r \in Requests, Arrive(r) \/ Handle(r)
    PROVE  InsertionInv'
<1>0. TypeOK /\ SlotsInv /\ StepsInv /\ BodyInv /\ AloneInv
  BY DEF HistoryInv
<1> DEFINE Prefix(o) == Sorting(o) => Inserting(Swapped(o), i[o], Sinking(o))
           Pair(o) == /\ pc[o] \in {"swap", "store"} => Older(Array(o)[j[o]], Array(o)[j[o] - 1])
                      /\ pc[o] = "store" => held[o] = <<Array(o)[j[o]], Array(o)[j[o] - 1]>>
           Ready(o) == pc[o] \in {"render", "done"} /\ request[o].mime = "csv" =>
                          \A k, l \in 1..count[o] : k < l => Older(Array(o)[k], Array(o)[l])
           Fine(o) == Prefix(o) /\ Pair(o) /\ Ready(o)
<1>1. \A o \in Requests : Fine(o)
  BY DEF InsertionInv, Inserting
<1>2. ASSUME NEW o \in Requests, o # r PROVE Fine(o)'
  <2>1. pc'[o] = pc[o] /\ request'[o] = request[o]
    BY <1>0, <1>2, Locals
  <2>2. ~IsCsv(o)
    BY <1>0, <1>2, CsvUndisturbed
  <2>3. ~Sorting(o) /\ (pc[o] \in {"render", "done"} => request[o].mime # "csv")
    BY <1>0, <2>2 DEF IsCsv, InFlight, Sorting, SlotsInv
  <2> QED
    BY <2>1, <2>3 DEF Sorting
<1>3. Fine(r)'
  <2>0. /\ pc \in [Requests -> Places] /\ i \in [Requests -> Nat] /\ j \in [Requests -> Nat]
        /\ count \in [Requests -> Nat] /\ held \in [Requests -> Seq(Items)]
        /\ Prefix(r) /\ Pair(r) /\ Ready(r)
    BY <1>0, <1>1 DEF TypeOK, StepsInv, Places
  <2>1. CASE pc'[r] \in {"idle", "get", "collect", "add", "cap", "failed"}
    BY <2>1 DEF Sorting
  <2>2. CASE Cap(r)
    <3>1. PICK n : n = Smaller(request[r].limit, Len(Array(r)))
      OBVIOUS
    <3>2. request[r].limit \in Nat /\ slot[r] \in Slots
      BY <1>0, <2>2, ParameterAssumption DEF Cap, CapTo, Goto, SlotsInv, InFlight, Asked, TypeOK
    <3>3. n \in Nat
      BY <1>0, <3>1, <3>2 DEF Smaller, TypeOK, Array
    <3>4. CapTo(r, n)
      BY <2>2, <3>1 DEF Cap
    <3>5. CASE request[r].mime = "csv" /\ n > 1
      <4>1. pc'[r] = "compare" /\ i'[r] = 2 /\ j'[r] = 2
        BY <2>0, <3>4, <3>5 DEF CapTo, Goto, Set
      <4> QED
        BY <4>1 DEF Sorting, Inserting, Sinking
    <3>6. CASE ~(request[r].mime = "csv" /\ n > 1)
      <4>1. pc'[r] = "render" /\ count'[r] = n /\ request' = request
        BY <2>0, <3>4, <3>6 DEF CapTo, Goto, Set
      <4>2. request'[r].mime = "csv" => \A k, l \in 1..count'[r] : ~(k < l)
        BY <3>3, <3>6, <4>1
      <4>3. Ready(r)'
        BY <4>2
      <4> QED
        BY <4>1, <4>3 DEF Sorting
    <3> QED
      BY <3>5, <3>6
  <2>3. CASE Compare(r)
    <3>1. /\ pc[r] = "compare" /\ slot' = slot /\ heap' = heap /\ count' = count
          /\ request' = request
      BY <2>3 DEF Compare, CompareBy
    <3>2. /\ slot[r] \in Slots /\ request[r].address \in Addresses
          /\ UsedFor(slot[r], request[r].address)
          /\ Array(r) \in Seq(Items) /\ i[r] \in 1..Len(Array(r)) /\ i[r] <= count[r]
          /\ count[r] \in Nat /\ j[r] \in 1..i[r]
      BY <3>1, SortingAt DEF Sorting
    <3>3. Inserting(Array(r), i[r], j[r])
      BY <2>0, <3>1 DEF Sorting, Swapped, Sinking
    <3>4. Array(r)' = Array(r)
      BY <3>1 DEF Array
    <3>5. CASE /\ Older(Array(r)[j[r]], Array(r)[j[r] - 1])
               /\ pc' = Set(pc, r, "swap") /\ UNCHANGED <<i, j>>
      <4>1. pc'[r] = "swap" /\ i'[r] = i[r] /\ j'[r] = j[r]
        BY <2>0, <3>5 DEF Set
      <4>2. Swapped(r)' = Array(r) /\ Sinking(r)' = j[r]
        BY <3>4, <4>1 DEF Swapped, Sinking
      <4> QED
        BY <3>3, <3>4, <3>5, <4>1, <4>2
    <3>6. CASE ~(j[r] > 1 /\ Older(Array(r)[j[r]], Array(r)[j[r] - 1]))
      <4>1. ~Swapping(slot[r])
        BY <3>1, NoSwap DEF InFlight
      <4>2. Whole(Array(r), slot[r], request[r].address)
        BY <3>2, <4>1 DEF WholeInv, Array
      <4>3. \A k, l \in 1..i[r] : k < l => Older(Array(r)[k], Array(r)[l])
        <5>1. PICK q \in Seq(Items) : q = Array(r)
          BY <3>2
        <5>2. \A k, l \in DOMAIN q : q[k] = q[l] => k = l
          BY <4>2, <5>1 DEF Whole
        <5>3. PICK n \in 1..Len(q), m \in 1..i[r] : n = i[r] /\ m = j[r]
          BY <3>2, <5>1
        <5>4. m \in 1..n
          BY <5>3
        <5>5. Inserting(q, n, m) /\ (m > 1 => ~Older(q[m], q[m - 1]))
          BY <3>3, <3>6, <5>1, <5>3
        <5>6. \A k, l \in 1..n : k < l => Older(q[k], q[l])
          BY <5>2, <5>4, <5>5, Inserted
        <5> QED
          BY <5>1, <5>3, <5>6
      <4>4. CASE i[r] < count[r]
        <5>1. pc'[r] = "compare" /\ i'[r] = i[r] + 1 /\ j'[r] = i[r] + 1
          BY <2>0, <2>3, <3>1, <3>6, <4>4 DEF Compare, CompareBy, Set
        <5>2. Swapped(r)' = Array(r) /\ Sinking(r)' = i[r] + 1
          BY <3>4, <5>1 DEF Swapped, Sinking
        <5>3. Inserting(Array(r), i[r] + 1, i[r] + 1)
          BY <3>2, <4>3 DEF Inserting
        <5> QED
          BY <5>1, <5>2, <5>3
      <4>5. CASE ~(i[r] < count[r])
        <5>1. pc'[r] = "render"
          BY <2>0, <2>3, <3>1, <3>6, <4>5 DEF Compare, CompareBy, Set
        <5>2. i[r] = count[r]
          BY <3>2, <4>5
        <5>3. Ready(r)'
          BY <3>1, <3>4, <4>3, <5>2
        <5> QED
          BY <5>1, <5>3 DEF Sorting
      <4> QED
        BY <4>4, <4>5
    <3> QED
      BY <2>3, <3>5, <3>6 DEF Compare, CompareBy
  <2>4. CASE LoadPair(r)
    <3>1. /\ pc[r] = "swap" /\ pc'[r] = "store" /\ slot' = slot /\ heap' = heap /\ i' = i /\ j' = j
          /\ held'[r] = <<Array(r)[j[r]], Array(r)[j[r] - 1]>>
      BY <2>0, <2>4 DEF LoadPair, Goto, Set, shared
    <3>2. Array(r)' = Array(r)
      BY <3>1 DEF Array
    <3>3. Swapped(r)' = Swapped(r) /\ Sinking(r)' = Sinking(r)
      BY <3>1, <3>2 DEF Swapped, Sinking
    <3> QED
      BY <2>0, <3>1, <3>2, <3>3 DEF Sorting
  <2>5. CASE StoreUpper(r)
    <3>1. /\ pc[r] = "store" /\ pc'[r] = "store2" /\ i' = i /\ j' = j
          /\ Swapped(r)' = Exchanged(Array(r), j[r])
      BY <2>5, UpperStored DEF StoreUpper
    <3>2. /\ Array(r) \in Seq(Items) /\ i[r] \in 2..Len(Array(r)) /\ j[r] \in 2..i[r]
      BY <3>1, SortingAt DEF Sorting
    <3>3. Inserting(Array(r), i[r], j[r]) /\ Older(Array(r)[j[r]], Array(r)[j[r] - 1])
      BY <2>0, <3>1 DEF Sorting, Swapped, Sinking
    <3>4. Inserting(Exchanged(Array(r), j[r]), i[r], j[r] - 1)
      BY <3>2, <3>3, ExchangedInserting
    <3>5. Sinking(r)' = j[r] - 1
      BY <3>1 DEF Sinking
    <3>6. Prefix(r)'
      BY <3>1, <3>4, <3>5
    <3> QED
      BY <3>1, <3>6
  <2>6. CASE StoreLower(r)
    <3>1. /\ pc[r] = "store2" /\ pc'[r] = "compare" /\ slot' = slot
          /\ heap'[slot[r]] = Swapped(r) /\ i' = i /\ j'[r] = Sinking(r)
      BY <2>6, LowerStored
    <3>2. Swapped(r)' = Swapped(r) /\ Sinking(r)' = Sinking(r)
      <4>1. Swapped(r)' = Array(r)' /\ Sinking(r)' = j'[r]
        BY <3>1 DEF Swapped, Sinking
      <4>2. Array(r)' = heap'[slot[r]]
        BY <3>1 DEF Array
      <4> QED
        BY <3>1, <4>1, <4>2
    <3>3. Prefix(r)'
      BY <2>0, <3>1, <3>2 DEF Sorting
    <3> QED
      BY <3>1, <3>3
  <2>7. CASE RenderRow(r) \/ Answer(r)
    <3>1. /\ pc[r] = "render" /\ pc'[r] \in {"render", "done"}
          /\ UNCHANGED <<heap, slot, count, request>>
      BY <2>0, <2>7 DEF RenderRow, Answer, Goto, shared
    <3>2. Array(r)' = Array(r)
      BY <3>1 DEF Array
    <3>3. Ready(r)'
      BY <2>0, <3>1, <3>2
    <3> QED
      BY <3>1, <3>3 DEF Sorting
  <2>8. \/ Cap(r) \/ Compare(r) \/ LoadPair(r) \/ StoreUpper(r) \/ StoreLower(r)
        \/ RenderRow(r) \/ Answer(r)
        \/ pc'[r] \in {"idle", "get", "collect", "add", "cap", "failed"}
    BY <2>0 DEF Handle, Lookup, Sort, Arrive, GetCached, GetMissing, Collect, CollectAs,
         CollectFails, Add, Finish, Goto, Set
  <2> QED
    BY <2>1, <2>2, <2>3, <2>4, <2>5, <2>6, <2>7, <2>8
<1>4. \A o \in Requests : Fine(o)'
  BY <1>2, <1>3
<1> QED
  BY <1>4 DEF InsertionInv, Inserting

LEMMA SortStep ==
    ASSUME HistoryInv, SortInv, [Next]_vars
    PROVE  SortInv'
<1> SUFFICES ASSUME CsvAlone PROVE WholeInv' /\ InsertionInv'
  BY DEF SortInv
<1>0. WholeInv /\ InsertionInv
  BY DEF SortInv
<1>1. CASE Next
  <2>1. PICK r \in Requests : Arrive(r) \/ Handle(r)
    BY <1>1 DEF Next
  <2> QED
    BY <1>0, <2>1, WholeStep, InsertionStep
<1>2. CASE UNCHANGED vars
  <2>1. /\ heap' = heap /\ cache' = cache /\ partial' = partial /\ pc' = pc /\ request' = request
        /\ slot' = slot /\ count' = count /\ i' = i /\ j' = j /\ held' = held
    BY <1>2 DEF vars, shared
  <2>2. WholeInv'
    BY <1>0, <2>1 DEF WholeInv, Whole, UsedFor, Swapping, Swapped, Array
  <2>3. InsertionInv'
    BY <1>0, <2>1 DEF InsertionInv, Sorting, Sinking, Swapped, Array
  <2> QED
    BY <2>2, <2>3
<1> QED
  BY <1>1, <1>2

LEMMA InitSort == Init => SortInv
<1> SUFFICES ASSUME Init PROVE WholeInv /\ InsertionInv
  BY DEF SortInv
<1>1. \A r \in Requests : pc[r] = "idle" /\ slot[r] = 0
  BY DEF Init
<1>2. \A s \in Slots, a \in Addresses : ~UsedFor(s, a)
  BY <1>1 DEF Init, UsedFor, Slots
<1>3. WholeInv
  BY <1>1, <1>2 DEF WholeInv
<1>4. InsertionInv
  BY <1>1 DEF InsertionInv, Sorting
<1> QED
  BY <1>3, <1>4

(* While every CSV answer is made alone, a sort exchanges the items of its *)
(* array, loses none, and leaves a sorted slice behind.                    *)
THEOREM Sorts == Spec => []SortInv
<1>1. Init => SortInv
  BY InitSort
<1>2. HistoryInv /\ SortInv /\ [Next]_vars => SortInv'
  BY SortStep
<1> QED
  BY <1>1, <1>2, Arrays, PTL DEF Spec

(* A cached array holds the whole history of its address, each item once,  *)
(* unless a read failed while it was collected.                            *)
THEOREM CacheWhole == Spec => [](CsvAlone => CachedHistoryWhole)
<1>1. HistoryInv /\ SortInv => (CsvAlone => CachedHistoryWhole)
  <2> SUFFICES ASSUME HistoryInv, SortInv, CsvAlone, NEW a \in DOMAIN cache, ~Swapping(cache[a])
               PROVE  LET s == heap[cache[a]]
                          held_ == {s[k] : k \in DOMAIN s}
                      IN  /\ Cardinality(held_) = Len(s)
                          /\ held_ \subseteq HistoryOf[a]
                          /\ cache[a] \in partial \/ held_ = HistoryOf[a]
    BY DEF CachedHistoryWhole
  <2>1. a \in Addresses /\ cache[a] \in Slots /\ UsedFor(cache[a], a)
    BY DEF HistoryInv, TypeOK, UsedFor
  <2>2. Whole(heap[cache[a]], cache[a], a)
    BY <2>1 DEF SortInv, WholeInv
  <2>3. PICK s \in Seq(Items) : s = heap[cache[a]]
    BY <2>1 DEF HistoryInv, TypeOK
  <2> DEFINE all == {s[k] : k \in DOMAIN s}
  <2>4. DOMAIN s = 1..Len(s) /\ Len(s) \in Nat
    BY <2>3
  <2>5. IsFiniteSet(DOMAIN s) /\ Cardinality(DOMAIN s) = Len(s)
    <3>1. PICK n \in Nat : n = Len(s)
      BY <2>4
    <3>2. IsFiniteSet(1..n) /\ Cardinality(1..n) = n
      BY FS_Interval
    <3> QED
      BY <2>4, <3>1, <3>2
  <2>6. s \in [DOMAIN s -> all] /\ \A k, l \in DOMAIN s : s[k] = s[l] => k = l
    BY <2>2, <2>3 DEF Whole
  <2>7. s \in Injection(DOMAIN s, all) /\ s \in Surjection(DOMAIN s, all)
    <3>1. s \in Surjection(DOMAIN s, all)
      BY <2>6 DEF Surjection
    <3> HIDE DEF all
    <3> QED
      BY <2>6, <3>1, Fun_IsInj
  <2>8. Cardinality(all) = Cardinality(DOMAIN s)
    <3> HIDE DEF all
    <3> QED
      BY <2>5, <2>7, FS_Surjection
  <2>9. all \subseteq HistoryOf[a] /\ (cache[a] \in partial \/ all = HistoryOf[a])
    BY <2>2, <2>3 DEF Whole
  <2> QED
    BY <2>3, <2>5, <2>8, <2>9
<1> QED
  BY <1>1, Arrays, Sorts, PTL

(* A CSV answer made alone is in ascending order, without a gap in its     *)
(* length and without an item twice.                                       *)
THEOREM CsvOrder == Spec => [](CsvAlone => CsvOldestFirst)
<1>1. HistoryInv /\ SortInv => (CsvAlone => CsvOldestFirst)
  <2> SUFFICES ASSUME HistoryInv, SortInv, CsvAlone, NEW r \in Requests,
                      pc[r] = "done", request[r].mime = "csv"
               PROVE  LET n == Len(body[r])
                          Item(k) == CHOOSE x \in HistoryOf[request[r].address] : x.id = body[r][k].id
                      IN  /\ slot[r] \in partial \/
                               n = Smaller(request[r].limit, Total(request[r].address))
                          /\ \A k, l \in 1..n : k < l => Older(Item(k), Item(l))
    BY DEF CsvOldestFirst
  <2>0. TypeOK /\ SlotsInv /\ ArraysInv /\ BodyInv /\ WholeInv /\ InsertionInv
    BY DEF HistoryInv, SortInv
  <2>1. PICK a \in Addresses : a = request[r].address
    BY <2>0 DEF SlotsInv, InFlight, Asked
  <2>2. slot[r] \in Slots /\ UsedFor(slot[r], a)
    BY <2>0, <2>1 DEF SlotsInv, TypeOK, UsedFor
  <2>3. Whole(Array(r), slot[r], a)
    <3>1. ~Swapping(slot[r])
      BY NoSwap DEF InFlight
    <3> QED
      BY <2>0, <2>2, <3>1 DEF WholeInv, Array
  <2>4. PICK s \in Seq(Items) : s = Array(r)
    BY <2>0, <2>2 DEF TypeOK, Array
  <2>5. PICK n \in Nat : n = Len(body[r]) /\ n = count[r] /\ n = Smaller(request[r].limit, Len(s)) /\ n <= Len(s)
    <3>1. slot[r] # 0
      BY <2>2 DEF Slots
    <3> QED
      BY <2>0, <2>4, <3>1 DEF TypeOK, BodyInv
  <2>6. slot[r] \notin partial => Len(s) = Total(a)
    BY <2>0, <2>2, <2>4 DEF ArraysInv, Array, Total
  <2> DEFINE Item(k) == CHOOSE x \in HistoryOf[a] : x.id = body[r][k].id
  <2>7. ASSUME NEW k \in 1..n PROVE Item(k) = s[k]
    <3>1. body[r][k].id = s[k].id
      BY <2>0, <2>4, <2>5 DEF BodyInv
    <3>2. s[k] \in HistoryOf[a]
      BY <2>3, <2>4, <2>5 DEF Whole
    <3>3. \A x \in HistoryOf[a] : x.id = s[k].id => x = s[k]
      BY <3>2, HistoryAssumption, ItemsAssumption
    <3> QED
      BY <3>1, <3>2, <3>3
  <2>8. \A k, l \in 1..n : k < l => Older(s[k], s[l])
    BY <2>0, <2>4, <2>5 DEF InsertionInv
  <2>9. \A k, l \in 1..n : k < l => Older(Item(k), Item(l))
    <3> HIDE DEF Item
    <3> QED
      BY <2>7, <2>8
  <2> QED
    BY <2>1, <2>5, <2>6, <2>9
<1> QED
  BY <1>1, Arrays, Sorts, PTL

(* While every CSV answer is made alone, an answer from a complete array   *)
(* that lists at least as much of it as CSV answers have sorted lists the  *)
(* newest items, each once.                                                *)
THEOREM NewestListed == Spec => [](CsvAlone => AnswersListNewest)
<1>1. HistoryInv /\ SortInv => (CsvAlone => AnswersListNewest)
  <2> SUFFICES ASSUME HistoryInv, SortInv, CsvAlone, NEW r \in Requests, pc[r] = "done",
                      slot[r] \notin partial, resorted[slot[r]] <= count[r]
               PROVE  LET ids == Ids(body[r])
                          newest == NewestIds(request[r].address, request[r].limit)
                      IN  /\ DOMAIN ids = DOMAIN newest
                          /\ {ids[k] : k \in DOMAIN ids} = {newest[k] : k \in DOMAIN newest}
    BY DEF AnswersListNewest
  <2>0. TypeOK /\ SlotsInv /\ ArraysInv /\ BodyInv /\ WholeInv
    BY DEF HistoryInv, SortInv
  <2>1. PICK a \in Addresses, n \in Nat : a = request[r].address /\ n = request[r].limit
    BY <2>0, ParameterAssumption DEF SlotsInv, InFlight, Asked
  <2>2. slot[r] \in Slots /\ slot[r] # 0 /\ UsedFor(slot[r], a)
    BY <2>0, <2>1 DEF SlotsInv, TypeOK, UsedFor, Slots
  <2>3. Whole(Array(r), slot[r], a)
    <3>1. ~Swapping(slot[r])
      BY NoSwap DEF InFlight
    <3> QED
      BY <2>0, <2>2, <3>1 DEF WholeInv, Array
  <2>4. PICK s \in Seq(Items) : s = Array(r)
    BY <2>0, <2>2 DEF TypeOK, Array
  <2>5. PICK t \in Seq(Items) :
            /\ t = Newest(HistoryOf[a]) /\ Len(t) = Cardinality(HistoryOf[a])
            /\ DOMAIN t = 1..Len(t)
            /\ \A k, l \in DOMAIN t : t[k] = t[l] => k = l
            /\ \A k \in DOMAIN t : t[k] \in HistoryOf[a]
            /\ \A x \in HistoryOf[a] : \E k \in DOMAIN t : t[k] = x
    BY HistoryList
  <2>7. PICK L \in Nat : L = Len(s) /\ L = Len(t) /\ DOMAIN s = 1..L /\ DOMAIN t = 1..L
    BY <2>0, <2>2, <2>4, <2>5 DEF ArraysInv, Array
  <2>8. PICK m \in Nat : m = count[r] /\ m = Smaller(n, L) /\ m <= L /\ Len(body[r]) = m
    BY <2>0, <2>1, <2>2, <2>4, <2>7 DEF TypeOK, BodyInv
  <2>9. \A k \in 1..L : k > m => s[k] = t[k]
    <3>1. resorted[slot[r]] \in Nat
      BY <2>0, <2>2 DEF TypeOK
    <3>2. \A k \in 1..L : k > resorted[slot[r]] => s[k] = t[k]
      BY <2>0, <2>2, <2>4, <2>5, <2>7 DEF ArraysInv, Array
    <3> QED
      BY <2>8, <3>1, <3>2
  <2> DEFINE H == HistoryOf[a]
             Lists(q) == /\ \A k, l \in 1..L : q[k] = q[l] => k = l
                         /\ \A k \in 1..L : q[k] \in H
                         /\ \A x \in H : \E k \in 1..L : q[k] = x
  <2>6. Lists(s) /\ Lists(t)
    BY <2>3, <2>4, <2>5, <2>7 DEF Whole
  <2>10. \A k \in 1..m : \E l \in 1..m : s[k] = t[l]
    <3> HIDE DEF H
    <3> SUFFICES ASSUME NEW k \in 1..m PROVE \E l \in 1..m : s[k] = t[l]
      OBVIOUS
    <3>0. k \in 1..L
      BY <2>8
    <3>1. PICK l \in 1..L : t[l] = s[k]
      BY <2>6, <3>0
    <3>2. l > m => l = k
      BY <2>6, <2>9, <3>0, <3>1
    <3> QED
      BY <2>8, <3>1, <3>2
  <2>11. \A l \in 1..m : \E k \in 1..m : s[k] = t[l]
    <3> HIDE DEF H
    <3> SUFFICES ASSUME NEW l \in 1..m PROVE \E k \in 1..m : s[k] = t[l]
      OBVIOUS
    <3>0. l \in 1..L
      BY <2>8
    <3>1. PICK k \in 1..L : s[k] = t[l]
      BY <2>6, <3>0
    <3>2. k > m => k = l
      BY <2>6, <2>9, <3>0, <3>1
    <3> QED
      BY <2>8, <3>1, <3>2
  <2>12. Ids(body[r]) = [k \in 1..m |-> s[k].id]
    <3>1. PICK b \in Seq(Rows) : b = body[r]
      BY <2>0 DEF BodyInv
    <3>2. \A k \in 1..m : b[k].id = s[k].id
      BY <2>0, <2>4, <2>8, <3>1 DEF BodyInv
    <3>3. Ids(b) = [k \in 1..m |-> b[k].id]
      BY <2>8, <3>1 DEF Ids
    <3> QED
      BY <3>1, <3>2, <3>3
  <2>13. NewestIds(a, n) = [k \in 1..m |-> t[k].id]
    <3>1. DOMAIN SubSeq(t, 1, m) = 1..m /\ \A k \in 1..m : SubSeq(t, 1, m)[k] = t[k]
      BY <2>7, <2>8
    <3> QED
      BY <2>5, <2>7, <2>8, <3>1 DEF NewestIds, Ids, Cut
  <2>14. PICK f : f = [k \in 1..m |-> s[k].id]
    OBVIOUS
  <2>15. PICK g : g = [k \in 1..m |-> t[k].id]
    OBVIOUS
  <2>16. \A k \in 1..m : \E l \in 1..m : f[k] = g[l]
    BY <2>10, <2>14, <2>15
  <2>17. \A l \in 1..m : \E k \in 1..m : f[k] = g[l]
    BY <2>11, <2>14, <2>15
  <2>18. Ids(body[r]) = f /\ NewestIds(request[r].address, request[r].limit) = g
    BY <2>1, <2>12, <2>13, <2>14, <2>15
  <2>19. DOMAIN f = 1..m /\ DOMAIN g = 1..m
    BY <2>14, <2>15
  <2>20. {f[k] : k \in 1..m} = {g[k] : k \in 1..m}
    <3>1. {f[k] : k \in 1..m} \subseteq {g[k] : k \in 1..m}
      <4> SUFFICES ASSUME NEW k \in 1..m PROVE \E l \in 1..m : f[k] = g[l]
        BY Zenon
      <4> QED
        BY <2>16
    <3>2. {g[k] : k \in 1..m} \subseteq {f[k] : k \in 1..m}
      <4> SUFFICES ASSUME NEW l \in 1..m PROVE \E k \in 1..m : g[l] = f[k]
        BY Zenon
      <4> QED
        BY <2>17
    <3> QED
      BY <3>1, <3>2, Zenon
  <2> QED
    BY <2>18, <2>19, <2>20
<1> QED
  BY <1>1, Arrays, Sorts, PTL
=============================================================================
