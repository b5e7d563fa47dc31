---------------------------- MODULE PagingProofs ----------------------------
(***************************************************************************)
(* Proofs about the list endpoints, for any number of rows, any limit and  *)
(* any range of the integers.                                              *)
(***************************************************************************)
EXTENDS Paging, SequenceTheorems, TLAPS

-----------------------------------------------------------------------------
(* Helpers of the model. *)

LEMMA LimitType ==
    ASSUME NEW c \in Configured, NEW s \in PageSizes \cup {NoPageSize}
    PROVE  MaxResultsOf(c, s) \in 0..UintRange - 1
<1>1. c % UintRange \in 0..UintRange - 1
  BY RangeAssumption
<1>2. s # NoPageSize => s \in Nat
  BY RangeAssumption
<1> QED
  BY <1>1, <1>2, RangeAssumption DEF MaxResultsOf, Smaller

(* How many rows match, and where they begin. *)
LEMMA MatchingRange ==
    ASSUME TypeOK, NEW s \in Stores
    PROVE  /\ rows[s][0] \in Nat /\ rows[s][1] \in Nat
           /\ rows[s][0] + rows[s][1] <= MaxRows
           /\ Matching(s) \in Nat /\ Before(s) \in Nat
           /\ Before(s) + Matching(s) <= rows[s][0] + rows[s][1]
<1>1. rows[s] \in [{0, 1} -> 0..MaxRows] /\ rows[s][0] + rows[s][1] <= MaxRows
  BY DEF TypeOK, RowCounts, OutputTypes
<1>2. rows[s][0] \in 0..MaxRows /\ rows[s][1] \in 0..MaxRows
  BY <1>1
<1> QED
  BY <1>1, <1>2, RangeAssumption DEF Matching, Before

(* The rows of a store that match are of the type that was asked for. *)
LEMMA MatchingType ==
    ASSUME TypeOK, TypeKnown, NEW s \in Stores, NEW k \in 1..Matching(s),
           NEW n \in typeParam
    PROVE  TypeOf(<<s, Before(s) + k>>) = n % TypeRange
<1>1. Filter = {n % TypeRange}
  BY DEF TypeOK, Filter
<1>2. n % TypeRange \in {0, 1}
  BY <1>1 DEF TypeKnown, OutputTypes
<1>3. rows[s][0] \in Nat /\ rows[s][1] \in Nat /\ Matching(s) \in Nat
  BY MatchingRange
<1>4. CASE n % TypeRange = 0
  <2>1. Filter = {0}
    BY <1>1, <1>4
  <2>2. Before(s) = 0 /\ Matching(s) = rows[s][0]
    BY <2>1 DEF Before, Matching
  <2> QED
    BY <1>3, <1>4, <2>2 DEF TypeOf
<1>5. CASE n % TypeRange = 1
  <2>1. Filter = {1}
    BY <1>1, <1>5
  <2>2. Before(s) = rows[s][0] /\ Matching(s) = rows[s][1]
    BY <2>1 DEF Before, Matching
  <2> QED
    BY <1>3, <1>5, <2>2 DEF TypeOf
<1> QED
  BY <1>2, <1>4, <1>5

LEMMA AvailableRange ==
    ASSUME TypeOK PROVE Available \in Nat /\ Matching("main") <= Available
<1>1. Matching("main") \in Nat /\ Matching("spent") \in Nat
  BY MatchingRange DEF Stores
<1> QED
  BY <1>1 DEF Available

(* What is asked for and the rows there are decide what matches. *)
LEMMA AskedFrame ==
    ASSUME UNCHANGED asked
    PROVE  /\ Available' = Available /\ TypeKnown' = TypeKnown
           /\ Matching("main")' = Matching("main") /\ Before("main")' = Before("main")
           /\ Matching("spent")' = Matching("spent") /\ Before("spent")' = Before("spent")
           /\ \A k : RowAt(k)' = RowAt(k)
BY DEF RowAt, asked, Available, TypeKnown, Filter, Matching, Before

-----------------------------------------------------------------------------
(* Each step preserves the invariant. *)

LEMMA InitInv == Init => Inv
<1> SUFFICES ASSUME Init PROVE Inv
  OBVIOUS
<1>1. TypeOK
  <2>1. limit \in 0..UintRange - 1 /\ maxCount \in 0..UintRange - 1 /\ pos \in 0..MaxRows
    BY RangeAssumption DEF Init
  <2>2. found \in Seq(Stores \X (1..MaxRows))
    BY DEF Init
  <2> QED
    BY <2>1, <2>2 DEF Init, TypeOK
<1>2. Len(found) = 0
  BY DEF Init
<1>3. IterationInv
  BY <1>1, <1>2, AvailableRange DEF Init, IterationInv
<1> QED
  BY <1>1, <1>2, <1>3 DEF Init, Inv, ListedInOrder, ShortPageIsWhole, LimitRespected

LEMMA RefuseInv == Inv /\ Refuse => Inv'
<1> SUFFICES ASSUME Inv, Refuse PROVE Inv'
  OBVIOUS
<1>1. TypeOK'
  BY DEF Inv, Refuse, TypeOK, asked
<1>2. IterationInv' /\ ListedInOrder'
  BY AskedFrame DEF Inv, Refuse, IterationInv, ListedInOrder
<1> QED
  BY <1>1, <1>2 DEF Inv, Refuse, ShortPageIsWhole, LimitRespected

LEMMA AskInv == Inv /\ Ask => Inv'
<1> SUFFICES ASSUME Inv, Ask PROVE Inv'
  OBVIOUS
<1>1. limit' \in 0..UintRange - 1
  BY LimitType DEF Inv, Ask, TypeOK
<1>2. maxCount' \in 0..UintRange - 1
  BY <1>1, RangeAssumption DEF Ask
<1>3. TypeOK'
  BY <1>1, <1>2 DEF Inv, Ask, TypeOK, Stores
<1>4. pos = 0 /\ Len(found) = 0
  BY DEF Inv, Ask, IterationInv
<1>5. /\ Available' = Available /\ TypeKnown' = TypeKnown
      /\ Matching("main")' = Matching("main") /\ Before("main")' = Before("main")
      /\ Matching("spent")' = Matching("spent") /\ Before("spent")' = Before("spent")
  BY DEF Ask, Available, TypeKnown, Filter, Matching, Before
<1>6. Matching("main") \in Nat /\ Available \in Nat
  BY MatchingRange, AvailableRange DEF Inv, Stores
<1>7. IterationInv'
  BY <1>1, <1>4, <1>5, <1>6 DEF Ask, IterationInv
<1>8. ListedInOrder'
  BY <1>4 DEF Ask, ListedInOrder
<1> QED
  BY <1>3, <1>7, <1>8 DEF Inv, Ask, ShortPageIsWhole, LimitRespected

(* A row that is taken stands where it belongs. *)
LEMMA Taking ==
    ASSUME Inv, RowLeft, Take, UNCHANGED asked
    PROVE  /\ pos' = pos + 1 /\ pos' \in 0..MaxRows
           /\ found' \in Seq(Stores \X (1..MaxRows))
           /\ Len(found') = Len(found) + 1
           /\ Len(found') <= Available
           /\ ListedInOrder'
<1>1. pc \in Stores /\ pos < Matching(pc) /\ pos \in Nat
  BY DEF RowLeft, Iterating, Inv, TypeOK
<1>2. /\ Matching("main") \in Nat /\ Matching("spent") \in Nat /\ Matching(pc) \in Nat
      /\ Before(pc) \in Nat /\ Before(pc) + Matching(pc) <= MaxRows
  BY <1>1, MatchingRange, RangeAssumption DEF Inv, Stores
<1>3. pos' = pos + 1 /\ pos' \in 0..MaxRows
  BY <1>1, <1>2, RangeAssumption DEF Take
<1>4. <<pc, Before(pc) + pos + 1>> \in Stores \X (1..MaxRows)
  BY <1>1, <1>2, RangeAssumption
<1>5. found \in Seq(Stores \X (1..MaxRows))
  BY DEF Inv, TypeOK
<1>6. /\ found' \in Seq(Stores \X (1..MaxRows))
      /\ Len(found') = Len(found) + 1
      /\ \A k \in 1..Len(found) : found'[k] = found[k]
      /\ found'[Len(found) + 1] = <<pc, Before(pc) + pos + 1>>
  BY <1>4, <1>5, AppendProperties DEF Take
<1>7. Len(found) \in Nat
  BY <1>5
<1>8. CASE pc = "main"
  <2>1. Len(found) = pos
    BY <1>8 DEF Inv, IterationInv
  <2>2. Len(found') <= Available
    BY <1>1, <1>2, <1>6, <1>8, <2>1, AvailableRange DEF Inv
  <2>3. ListedInOrder'
    <3> SUFFICES ASSUME NEW k \in 1..Len(found')
                 PROVE  found'[k] = RowAt(k)
      BY AskedFrame DEF ListedInOrder
    <3>1. CASE k \in 1..Len(found)
      BY <1>6, <3>1 DEF Inv, ListedInOrder
    <3>2. CASE k = Len(found) + 1
      <4>1. k <= Matching("main") /\ Before(pc) + pos + 1 = Before("main") + k
        BY <1>1, <1>2, <1>8, <2>1, <3>2
      <4> QED
        BY <1>6, <1>8, <3>2, <4>1 DEF RowAt
    <3> QED
      BY <1>6, <1>7, <3>1, <3>2
  <2> QED
    BY <1>3, <1>6, <2>2, <2>3
<1>9. CASE pc = "spent"
  <2>1. Len(found) = Matching("main") + pos /\ endpoint = "allOutputs"
    BY <1>9 DEF Inv, IterationInv
  <2>2. Len(found') <= Available
    BY <1>1, <1>2, <1>6, <1>9, <2>1 DEF Available
  <2>3. ListedInOrder'
    <3> SUFFICES ASSUME NEW k \in 1..Len(found')
                 PROVE  found'[k] = RowAt(k)
      BY AskedFrame DEF ListedInOrder
    <3>1. CASE k \in 1..Len(found)
      BY <1>6, <3>1 DEF Inv, ListedInOrder
    <3>2. CASE k = Len(found) + 1
      <4>1. ~(k <= Matching("main"))
        BY <1>1, <1>2, <2>1, <3>2
      <4>2. Before(pc) + pos + 1 = Before("spent") + (k - Matching("main"))
        <5>1. k - Matching("main") = pos + 1
          BY <1>1, <1>2, <2>1, <3>2
        <5>2. Before(pc) = Before("spent")
          BY <1>9
        <5>3. Before("spent") \in Nat /\ pos \in Nat
          BY <1>1, <1>2, <5>2
        <5> QED
          BY <5>1, <5>2, <5>3
      <4> QED
        BY <1>6, <1>9, <3>2, <4>1, <4>2 DEF RowAt
    <3> QED
      BY <1>6, <1>7, <3>1, <3>2
  <2> QED
    BY <1>3, <1>6, <2>2, <2>3
<1> QED
  BY <1>1, <1>8, <1>9 DEF Stores

LEMMA CollectKeyInv == Inv /\ CollectKey => Inv'
<1> SUFFICES ASSUME Inv, CollectKey PROVE Inv'
  OBVIOUS
<1>1. RowLeft /\ Take /\ UNCHANGED asked /\ endpoint = "iterated" /\ maxCount' = maxCount
  BY DEF CollectKey
<1>2. pc = "main"
  BY <1>1 DEF RowLeft, Iterating, Stores, Inv, IterationInv
<1>3. pos' = Len(found') /\ pos' \in Nat /\ limit' = limit /\ limit \in Nat
  BY <1>1, <1>2, Taking, RangeAssumption DEF Inv, IterationInv, TypeOK, asked
<1>4. \/ pc' = "main" /\ pos' <= limit
      \/ pc' = "answered" /\ pos' = limit + 1
  BY <1>1, <1>2, <1>3, Taking DEF CollectKey, Inv, IterationInv, TypeOK
<1>5. TypeOK'
  BY <1>1, <1>2, <1>4, Taking DEF Inv, TypeOK, asked, Stores
<1>6. pos' <= Matching("main") /\ TypeKnown
  BY <1>1, <1>2, Taking, MatchingRange DEF Inv, IterationInv, TypeOK, RowLeft, Stores
<1>7. IterationInv'
  BY <1>1, <1>2, <1>3, <1>4, <1>6, Taking, AskedFrame
     DEF Inv, IterationInv, asked, OutputEndpoints
<1>8. LimitRespected' /\ ShortPageIsWhole'
  BY <1>1, <1>3, <1>4 DEF LimitRespected, ShortPageIsWhole, asked, OutputEndpoints
<1> QED
  BY <1>1, <1>5, <1>7, <1>8, Taking DEF Inv

LEMMA CollectRowInv == Inv /\ CollectRow => Inv'
<1> SUFFICES ASSUME Inv, CollectRow PROVE Inv'
  OBVIOUS
<1>1. /\ RowLeft /\ Take /\ UNCHANGED asked /\ pc' = pc /\ maxCount' = maxCount
      /\ endpoint # "iterated" /\ (maxCount > 0 => pos < maxCount)
  BY DEF CollectRow
<1>2. pc \in Stores /\ pos < Matching(pc)
  BY <1>1 DEF RowLeft, Iterating
<1>3. TypeOK'
  BY <1>1, Taking DEF Inv, TypeOK, asked
<1>4. Matching("main") \in Nat /\ Matching("spent") \in Nat
  BY MatchingRange DEF Inv, Stores
<1>5. maxCount \in Nat /\ limit \in Nat /\ pos \in Nat
  BY RangeAssumption DEF Inv, TypeOK
<1>6. Len(found') = Len(found) + 1 /\ pos' = pos + 1 /\ Len(found') <= Available
  BY <1>1, Taking
<1>7. CASE pc = "main"
  <2>1. /\ Len(found) = pos
        /\ maxCount = IF endpoint \in OutputEndpoints THEN limit ELSE 0
        /\ TypeKnown
    BY <1>7 DEF Inv, IterationInv
  <2>2. endpoint \in OutputEndpoints /\ limit > 0 => pos + 1 <= limit
    BY <1>1, <1>5, <2>1
  <2>3. pos + 1 <= Matching("main")
    BY <1>2, <1>4, <1>5, <1>7
  <2>4. IterationInv'
    BY <1>1, <1>6, <1>7, <2>1, <2>2, <2>3, AskedFrame DEF IterationInv, asked
  <2> QED
    BY <1>1, <1>3, <1>7, <2>4, Taking DEF Inv, LimitRespected, ShortPageIsWhole
<1>8. CASE pc = "spent"
  <2>1. /\ endpoint = "allOutputs" /\ TypeKnown
        /\ Len(found) = Matching("main") + pos
        /\ maxCount = limit - Matching("main") /\ maxCount > 0
    BY <1>8 DEF Inv, IterationInv
  <2>2. pos + 1 <= Matching("spent") /\ pos + 1 <= maxCount
    BY <1>1, <1>2, <1>4, <1>5, <1>8, <2>1
  <2>3. Len(found') = Matching("main") + pos'
    BY <1>4, <1>5, <1>6, <2>1
  <2>4. IterationInv'
    BY <1>1, <1>6, <1>8, <2>1, <2>2, <2>3, AskedFrame DEF IterationInv, asked
  <2> QED
    BY <1>1, <1>3, <1>8, <2>4, Taking DEF Inv, LimitRespected, ShortPageIsWhole
<1> QED
  BY <1>2, <1>7, <1>8 DEF Stores

LEMMA RowUnreadableInv == Inv /\ RowUnreadable => Inv'
<1> SUFFICES ASSUME Inv, RowUnreadable PROVE Inv'
  OBVIOUS
<1>1. TypeOK'
  BY DEF Inv, RowUnreadable, TypeOK, asked
<1>2. TypeKnown
  BY DEF Inv, IterationInv, RowUnreadable, RowLeft, Iterating, Stores
<1>3. IterationInv' /\ ListedInOrder'
  BY <1>2, AskedFrame DEF Inv, RowUnreadable, IterationInv, ListedInOrder
<1> QED
  BY <1>1, <1>3 DEF Inv, RowUnreadable, ShortPageIsWhole, LimitRespected

(* The second iteration begins when the first one has run to its end. *)
LEMMA BeginSpentInv == Inv /\ BeginSpent => Inv'
<1> SUFFICES ASSUME Inv, BeginSpent PROVE Inv'
  OBVIOUS
<1>1. /\ pc = "main" /\ endpoint = "allOutputs" /\ limit - Len(found) > 0
      /\ pc' = "spent" /\ pos' = 0 /\ maxCount' = limit - Len(found)
      /\ UNCHANGED asked /\ found' = found
  BY DEF BeginSpent, BeginSpentAt, GoesOn
<1>2. /\ Matching("main") \in Nat /\ Matching("spent") \in Nat
      /\ limit \in 0..UintRange - 1 /\ maxCount \in Nat /\ pos \in 0..MaxRows
  BY MatchingRange, RangeAssumption DEF Inv, TypeOK, Stores
<1>3. Len(found) = pos /\ maxCount = limit /\ pos \in Nat
  BY <1>1, <1>2 DEF Inv, IterationInv, OutputEndpoints
<1>4. Len(found) = Matching("main")
  BY <1>1, <1>2, <1>3 DEF BeginSpent, BeginSpentAt, IterationEnds
<1>5. TypeOK'
  BY <1>1, <1>2, <1>3, RangeAssumption DEF Inv, TypeOK, asked, Stores
<1>6. TypeKnown /\ Len(found) <= Available
  BY <1>1 DEF Inv, IterationInv
<1>7. Len(found) = Matching("main") + 0 /\ 0 <= Matching("spent") /\ 0 <= limit - Len(found)
  BY <1>1, <1>2, <1>4
<1>8. IterationInv'
  BY <1>1, <1>4, <1>6, <1>7, AskedFrame DEF IterationInv, asked
<1>9. ListedInOrder'
  BY <1>1, AskedFrame DEF Inv, ListedInOrder
<1> QED
  BY <1>1, <1>5, <1>8, <1>9 DEF Inv, ShortPageIsWhole, LimitRespected

LEMMA RespondInv == Inv /\ Respond => Inv'
<1> SUFFICES ASSUME Inv, Respond PROVE Inv'
  OBVIOUS
<1>1. pc \in Stores /\ pc' = "answered" /\ UNCHANGED <<asked, pos, maxCount>>
  BY DEF Respond, IterationEnds, Iterating
<1>2. /\ Matching("main") \in Nat /\ Matching("spent") \in Nat
      /\ limit \in Nat /\ maxCount \in Nat /\ pos \in Nat /\ Len(found) \in Nat
      /\ found \in Seq(Stores \X (1..MaxRows))
  BY MatchingRange, RangeAssumption DEF Inv, TypeOK, Stores
<1> DEFINE cut == IF endpoint = "history" THEN Smaller(limit, Len(found)) ELSE Len(found)
<1>3. /\ cut \in 0..Len(found)
      /\ endpoint = "history" => cut <= limit
      /\ cut < limit => cut = Len(found)
  BY <1>2 DEF Smaller
<1>4. /\ found' \in Seq(Stores \X (1..MaxRows)) /\ Len(found') = cut
      /\ \A k \in 1..cut : found'[k] = found[k]
  <2>1. CASE endpoint = "history"
    <3>1. found' = SubSeq(found, 1, cut)
      BY <2>1 DEF Respond
    <3>2. 1 \in 1..Len(found) + 1 /\ cut \in 1 - 1..Len(found)
      BY <1>2, <1>3
    <3>3. /\ SubSeq(found, 1, cut) \in Seq(Stores \X (1..MaxRows))
          /\ Len(SubSeq(found, 1, cut)) = IF 1 <= cut THEN cut - 1 + 1 ELSE 0
          /\ \A k \in 1..cut - 1 + 1 : SubSeq(found, 1, cut)[k] = found[1 + k - 1]
      BY <1>2, <3>2, SubSeqProperties
    <3> HIDE DEF cut
    <3> QED
      BY <1>2, <1>3, <3>1, <3>3
  <2>2. CASE endpoint # "history"
    BY <1>2, <2>2 DEF Respond
  <2> QED
    BY <2>1, <2>2
<1> HIDE DEF cut
<1>5. TypeOK'
  BY <1>1, <1>4 DEF Inv, TypeOK, asked
<1>6. Available \in Nat
  BY AvailableRange DEF Inv
<1>7. IterationInv'
  BY <1>1, <1>2, <1>3, <1>4, <1>6, AskedFrame DEF Inv, IterationInv, Stores
<1>8. ListedInOrder'
  <2> SUFFICES ASSUME NEW k \in 1..cut PROVE found'[k] = RowAt(k)
    BY <1>1, <1>4, AskedFrame DEF ListedInOrder
  <2>1. k \in 1..Len(found) /\ found'[k] = found[k]
    BY <1>2, <1>3, <1>4
  <2> QED
    BY <2>1 DEF Inv, ListedInOrder
<1>9. endpoint = "iterated" \/ endpoint \in OutputEndpoints => cut = Len(found)
  BY DEF cut, OutputEndpoints
<1>10. CASE pc = "main"
  <2>1. /\ Len(found) = pos
        /\ maxCount = IF endpoint \in OutputEndpoints THEN limit ELSE 0
        /\ endpoint \in OutputEndpoints /\ limit > 0 => pos <= limit
        /\ endpoint = "iterated" => pos <= limit
    BY <1>10 DEF Inv, IterationInv
  <2>2. LimitRespected'
    BY <1>1, <1>2, <1>3, <1>4, <1>9, <2>1 DEF LimitRespected, asked
  <2>3. ASSUME Len(found') < limit PROVE Len(found') = Available
    <3>1. Len(found') = pos
      BY <1>3, <1>4, <2>1, <2>3
    <3>2. pos = Matching("main")
      <4>1. pos = Matching("main") \/ (maxCount > 0 /\ pos >= maxCount)
        BY <1>10 DEF Respond, IterationEnds
      <4>2. pos < limit
        BY <2>3, <3>1
      <4> QED
        BY <1>2, <2>1, <4>1, <4>2
    <3>3. endpoint # "allOutputs"
      BY <1>2, <1>10, <2>1, <2>3, <3>1 DEF Respond, GoesOn
    <3> QED
      BY <1>2, <3>1, <3>2, <3>3 DEF Available
  <2>4. ShortPageIsWhole'
    BY <1>1, <2>3, AskedFrame DEF ShortPageIsWhole, asked
  <2> QED
    BY <1>5, <1>7, <1>8, <2>2, <2>4 DEF Inv
<1>11. CASE pc = "spent"
  <2>1. /\ endpoint = "allOutputs" /\ Len(found) = Matching("main") + pos
        /\ maxCount = limit - Matching("main") /\ maxCount > 0 /\ pos <= maxCount
    BY <1>11 DEF Inv, IterationInv
  <2>2. Len(found') = Len(found)
    BY <1>4, <1>9, <2>1 DEF OutputEndpoints
  <2>3. LimitRespected'
    BY <1>1, <1>2, <2>1, <2>2 DEF LimitRespected, asked
  <2>4. ASSUME Len(found') < limit PROVE Len(found') = Available
    <3>1. pos = Matching("spent")
      BY <1>2, <1>11, <2>1, <2>2, <2>4 DEF Respond, IterationEnds
    <3> QED
      BY <1>2, <2>1, <2>2, <3>1 DEF Available
  <2>5. ShortPageIsWhole'
    BY <1>1, <2>4, AskedFrame DEF ShortPageIsWhole, asked
  <2> QED
    BY <1>5, <1>7, <1>8, <2>3, <2>5 DEF Inv
<1> QED
  BY <1>1, <1>10, <1>11 DEF Stores

-----------------------------------------------------------------------------
(* The theorems. *)

(* The inductive invariant of the iterations holds in every state. *)
THEOREM Invariance == Spec => []Inv
<1>1. Inv /\ [Next]_vars => Inv'
  <2> SUFFICES ASSUME Inv, [Next]_vars PROVE Inv'
    OBVIOUS
  <2>1. CASE Next
    BY <2>1, RefuseInv, AskInv, CollectKeyInv, CollectRowInv, RowUnreadableInv,
       BeginSpentInv, RespondInv DEF Next
  <2>2. CASE UNCHANGED vars
    <3>1. UNCHANGED <<asked, pc, pos, maxCount, found>>
      BY <2>2 DEF vars, asked
    <3> QED
      BY <3>1, AskedFrame
         DEF Inv, TypeOK, IterationInv, ListedInOrder, ShortPageIsWhole, LimitRespected, asked
  <2> QED
    BY <2>1, <2>2
<1> QED
  BY InitInv, <1>1, PTL DEF Spec

(* No iteration runs past the rows of a store, and no limit past the range *)
(* of the integer (maxResultsFromContext). *)
THEOREM TypeCorrect == Spec => []TypeOK
<1>1. Inv => TypeOK
  BY DEF Inv
<1> QED
  BY Invariance, <1>1, PTL

(* Every list is in key order, spent outputs behind the unspent ones       *)
(* (outputsResponse). *)
THEOREM InOrder == Spec => []ListedInOrder
<1>1. Inv => ListedInOrder
  BY DEF Inv
<1> QED
  BY Invariance, <1>1, PTL

(* A page that is shorter than its limit is the whole list, on every       *)
(* endpoint. *)
THEOREM ShortIsWhole == Spec => []ShortPageIsWhole
<1>1. Inv => ShortPageIsWhole
  BY DEF Inv
<1> QED
  BY Invariance, <1>1, PTL

(* Outputs and histories keep to the limit, the iterated endpoints exceed  *)
(* it by one at most. *)
THEOREM LimitKept == Spec => []LimitRespected
<1>1. Inv => LimitRespected
  BY DEF Inv
<1> QED
  BY Invariance, <1>1, PTL

LEMMA InvFilter == Inv => FilterHonoured
<1> SUFFICES ASSUME Inv PROVE FilterHonoured
  OBVIOUS
<1>1. pc = "answered" => \A n \in typeParam : n % TypeRange \in OutputTypes
  BY DEF Inv, IterationInv, TypeKnown, Filter
<1>2. ASSUME NEW k \in 1..Len(found)
      PROVE  /\ found[k][2] \in 1..rows[found[k][1]][0] + rows[found[k][1]][1]
             /\ \A n \in typeParam : TypeOf(found[k]) = n % TypeRange
  <2>1. Len(found) \in Nat /\ k \in Nat /\ k > 0
    BY DEF Inv, TypeOK
  <2>2. TypeKnown
    BY <2>1 DEF Inv, IterationInv, TypeOK, Stores
  <2>3. Matching("main") \in Nat /\ Matching("spent") \in Nat
    BY MatchingRange DEF Inv, Stores
  <2>4. PICK s \in Stores : \E j \in 1..Matching(s) : found[k] = <<s, Before(s) + j>>
    <3>1. CASE k <= Matching("main")
      <4>1. found[k] = <<"main", Before("main") + k>> /\ k \in 1..Matching("main")
        <5>1. found[k] = RowAt(k)
          BY DEF Inv, ListedInOrder
        <5>2. k \in 1..Matching("main")
          BY <2>1, <2>3, <3>1
        <5> QED
          BY <3>1, <5>1, <5>2 DEF RowAt
      <4> QED
        BY <4>1 DEF Stores
    <3>2. CASE k > Matching("main")
      <4>1. k - Matching("main") \in 1..Matching("spent")
        BY <2>1, <2>3, <3>2 DEF Inv, IterationInv, Available
      <4>2. found[k] = RowAt(k)
        BY DEF Inv, ListedInOrder
      <4>3. ~(k <= Matching("main"))
        BY <2>1, <2>3, <3>2
      <4>4. found[k] = <<"spent", Before("spent") + (k - Matching("main"))>>
        BY <4>2, <4>3 DEF RowAt
      <4> QED
        BY <4>1, <4>4 DEF Stores
    <3> QED
      BY <2>1, <2>3, <3>1, <3>2
  <2>5. PICK j \in 1..Matching(s) : found[k] = <<s, Before(s) + j>>
    BY <2>4
  <2>6. \A n \in typeParam : TypeOf(found[k]) = n % TypeRange
    BY <2>2, <2>5, MatchingType DEF Inv
  <2>7. /\ rows[s][0] \in Nat /\ rows[s][1] \in Nat /\ Matching(s) \in Nat
        /\ Before(s) \in Nat /\ Before(s) + Matching(s) <= rows[s][0] + rows[s][1]
    BY MatchingRange DEF Inv
  <2>8. found[k][1] = s /\ found[k][2] = Before(s) + j
    BY <2>5
  <2>9. Before(s) + j \in 1..rows[s][0] + rows[s][1]
    BY <2>7
  <2> QED
    BY <2>6, <2>8, <2>9
<1> QED
  BY <1>1, <1>2 DEF FilterHonoured

(* Every output that is listed is of the type the request asked for, as    *)
(* far as the byte goes that the parameter is cut to (outputIDsByAddress). *)
THEOREM FilterKept == Spec => []FilterHonoured
BY Invariance, InvFilter, PTL
=============================================================================
