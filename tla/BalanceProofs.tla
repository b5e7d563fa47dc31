---------------------------- MODULE BalanceProofs ----------------------------
(***************************************************************************)
(* Proofs about the balances: the row of an address is the sum of the      *)
(* unspent outputs it owns, through every payment, migration and pruning.  *)
(*                                                                         *)
(* The sums are those that MapThenSumSet of the community modules makes.   *)
(* It takes the elements in the order of a choice; the first lemmas show   *)
(* that the order does not matter.  An induction over a finite set is an   *)
(* argument about a set that holds all its good subsets.                   *)
(***************************************************************************)
EXTENDS LedgerProofs, FiniteSetTheorems

-----------------------------------------------------------------------------
(* Sums over finite sets. *)

LEMMA SubsetInduction ==
    ASSUME NEW S, IsFiniteSet(S), NEW Good,
           \A T \in SUBSET S : (\A x \in T : T \ {x} \in Good) => T \in Good
    PROVE  \A T \in SUBSET S : T \in Good
<1> DEFINE R == StrictSubsetOrdering(S)
           Bad == (SUBSET S) \ Good
<1> SUFFICES ASSUME Bad # {} PROVE FALSE
  OBVIOUS
<1>1. IsWellFoundedOn(R, SUBSET S)
  <2>1. FiniteSubsetsOf(S) = SUBSET S
    BY FS_FiniteSubsetsOfFinite
  <2>2. IsWellFoundedOn(R, FiniteSubsetsOf(S))
    BY FS_StrictSubsetOrderingWellFounded
  <2> QED
    BY <2>1, <2>2
<1> HIDE DEF R
<1>2. PICK T \in Bad : \A U \in Bad : ~(<<U, T>> \in R)
  <2>1. Bad \subseteq SUBSET S
    OBVIOUS
  <2> HIDE DEF Bad
  <2> QED
    BY <1>1, <2>1, WFMin
<1>3. ASSUME NEW x \in T PROVE T \ {x} \in Good
  <2>1. T \ {x} \in SUBSET S /\ T \ {x} \subseteq T /\ T \ {x} # T
    OBVIOUS
  <2>2. <<T \ {x}, T>> \in R
    BY <2>1 DEF R, StrictSubsetOrdering
  <2> QED
    BY <1>2, <2>1, <2>2
<1> QED
  BY <1>3

LEMMA NumberInduction ==
    ASSUME NEW Good, 0 \in Good, \A n \in Nat : n \in Good => n + 1 \in Good
    PROVE  \A n \in Nat : n \in Good
<1> TAKE n \in Nat
<1> DEFINE G == {T \in SUBSET (1..n) : Cardinality(T) \in Good}
<1>1. IsFiniteSet(1..n) /\ Cardinality(1..n) = n
  BY FS_Interval
<1>2. ASSUME NEW T \in SUBSET (1..n), \A x \in T : T \ {x} \in G PROVE T \in G
  <2>1. IsFiniteSet(T) /\ Cardinality(T) \in Nat
    BY <1>1, FS_Subset, FS_CardinalityType
  <2>2. CASE T = {}
    BY <2>2, FS_EmptySet
  <2>3. ASSUME NEW x \in T PROVE T \in G
    <3>1. Cardinality(T \ {x}) = Cardinality(T) - 1 /\ Cardinality(T \ {x}) \in Good
      BY <1>2, <2>1, FS_RemoveElement
    <3>2. Cardinality(T \ {x}) \in Nat
      BY <2>1, FS_RemoveElement, FS_CardinalityType
    <3>3. Cardinality(T) \in Good
      BY <2>1, <3>1, <3>2
    <3> QED
      BY <3>3
  <2> QED
    BY <2>2, <2>3
<1>3. \A T \in SUBSET (1..n) : T \in G
  <2> HIDE DEF G
  <2> QED
    BY <1>1, <1>2, SubsetInduction
<1> QED
  BY <1>1, <1>3

-----------------------------------------------------------------------------
(* The function that a sum is defined by: it takes the elements of a set   *)
(* one by one. *)

Pick(s) == CHOOSE x \in s : TRUE
Partial(f, w, D) ==
    f = [s \in D |-> IF s = {} THEN 0 ELSE w[Pick(s)] + f[s \ {Pick(s)}]]

LEMMA Picked == ASSUME NEW s, s # {} PROVE Pick(s) \in s
BY DEF Pick

LEMMA PartialRules ==
    ASSUME NEW f, NEW w, NEW D, Partial(f, w, D)
    PROVE  /\ {} \in D => f[{}] = 0
           /\ \A s \in D : s # {} => f[s] = w[Pick(s)] + f[s \ {Pick(s)}]
BY DEF Partial

(* It can be extended to larger and larger sets. *)
LEMMA PartialExtends ==
    ASSUME NEW D, NEW E, D \subseteq E, \A s \in E : s # {} => s \ {Pick(s)} \in D,
           NEW w, NEW g, Partial(g, w, D)
    PROVE  \E f : Partial(f, w, E)
<1> DEFINE f == [s \in E |-> IF s = {} THEN 0 ELSE w[Pick(s)] + g[s \ {Pick(s)}]]
<1>1. \A s \in D : f[s] = g[s]
  <2> TAKE s \in D
  <2>1. g[s] = IF s = {} THEN 0 ELSE w[Pick(s)] + g[s \ {Pick(s)}]
    BY DEF Partial
  <2> QED
    BY <2>1
<1>2. \A s \in E : f[s] = IF s = {} THEN 0 ELSE w[Pick(s)] + f[s \ {Pick(s)}]
  BY <1>1
<1>3. f = [s \in E |-> f[s]]
  OBVIOUS
<1> HIDE DEF f
<1>4. Partial(f, w, E)
  BY <1>2, <1>3 DEF Partial
<1> QED
  BY <1>4

Upto(S, n) == {s \in SUBSET S : Cardinality(s) <= n}

LEMMA PartialExists ==
    ASSUME NEW S, IsFiniteSet(S), NEW w
    PROVE  \E f : Partial(f, w, SUBSET S)
<1> DEFINE Good == {n \in Nat : \E f : Partial(f, w, Upto(S, n))}
<1>1. \A s \in SUBSET S : IsFiniteSet(s) /\ Cardinality(s) \in Nat
  BY FS_Subset, FS_CardinalityType
<1>2. ASSUME NEW s \in SUBSET S, s # {}
      PROVE  s \ {Pick(s)} \in SUBSET S /\ Cardinality(s \ {Pick(s)}) = Cardinality(s) - 1
  BY <1>1, <1>2, Picked, FS_RemoveElement
<1>3. 0 \in Good
  <2>1. \A s \in Upto(S, 0) : s = {}
    BY <1>1, FS_EmptySet DEF Upto
  <2>2. Partial([s \in Upto(S, 0) |-> 0], w, Upto(S, 0))
    BY <2>1 DEF Partial
  <2> QED
    BY <2>2
<1>4. ASSUME NEW n \in Nat, n \in Good PROVE n + 1 \in Good
  <2>1. PICK g : Partial(g, w, Upto(S, n))
    BY <1>4
  <2>2. Upto(S, n) \subseteq Upto(S, n + 1)
    BY <1>1 DEF Upto
  <2>3. ASSUME NEW s \in Upto(S, n + 1), s # {} PROVE s \ {Pick(s)} \in Upto(S, n)
    <3>1. s \in SUBSET S /\ Cardinality(s) <= n + 1 /\ Cardinality(s) \in Nat
      BY <1>1 DEF Upto
    <3>2. s \ {Pick(s)} \in SUBSET S /\ Cardinality(s \ {Pick(s)}) = Cardinality(s) - 1
      BY <1>2, <2>3, <3>1
    <3>3. Cardinality(s \ {Pick(s)}) <= n
      BY <3>1, <3>2
    <3> QED
      BY <3>2, <3>3 DEF Upto
  <2>4. \E f : Partial(f, w, Upto(S, n + 1))
    BY <2>1, <2>2, <2>3, PartialExtends
  <2> QED
    BY <2>4
<1>5. \A n \in Nat : n \in Good
  <2> HIDE DEF Good
  <2> QED
    BY <1>3, <1>4, NumberInduction
<1>6. PICK f : Partial(f, w, Upto(S, Cardinality(S)))
  BY <1>1, <1>5
<1>7. Upto(S, Cardinality(S)) = SUBSET S
  BY <1>1, FS_Subset DEF Upto
<1> QED
  BY <1>6, <1>7

(* The sums of all subsets of a set. *)
SubsetSums(f, w, S) == Partial(f, w, SUBSET S)

LEMMA SumsRules ==
    ASSUME NEW f, NEW w, NEW S, SubsetSums(f, w, S), NEW T, T \subseteq S
    PROVE  /\ T = {} => f[T] = 0
           /\ T # {} => f[T] = w[Pick(T)] + f[T \ {Pick(T)}]
BY DEF SubsetSums, Partial

(* The sum of the numbers w[x] of a finite set of x. *)
Total(w, S) == MapThenSumSet(LAMBDA x : w[x], S)

LEMMA TotalSums ==
    ASSUME NEW S, IsFiniteSet(S), NEW w
    PROVE  \E f : SubsetSums(f, w, S) /\ Total(w, S) = f[S]
<1> DEFINE f == CHOOSE g : SubsetSums(g, w, S)
<1>1. SubsetSums(f, w, S)
  BY PartialExists DEF SubsetSums
<1>2. Total(w, S) = f[S]
  BY DEF Total, MapThenSumSet, MapThenFoldSet, Partial, SubsetSums, Pick
<1> QED
  BY <1>1, <1>2

(* The numbers that such a function gives do not depend on the larger set. *)
LEMMA SumsUnique ==
    ASSUME NEW S, IsFiniteSet(S), NEW w, NEW f, SubsetSums(f, w, S),
           NEW v, NEW g, NEW E, SubsetSums(g, v, E), S \subseteq E,
           \A x \in S : v[x] = w[x]
    PROVE  g[S] = f[S]
<1> DEFINE Good == {T \in SUBSET S : g[T] = f[T]}
<1>1. ASSUME NEW T \in SUBSET S, \A x \in T : T \ {x} \in Good PROVE T \in Good
  <2>1. CASE T = {}
    BY <2>1, SumsRules
  <2>2. CASE T # {}
    <3>1. Pick(T) \in T /\ Pick(T) \in S
      BY <2>2, Picked
    <3>2. g[T \ {Pick(T)}] = f[T \ {Pick(T)}]
      BY <1>1, <3>1
    <3>3. f[T] = w[Pick(T)] + f[T \ {Pick(T)}]
      BY <2>2, SumsRules
    <3>4. T \subseteq E
      OBVIOUS
    <3>5. g[T] = v[Pick(T)] + g[T \ {Pick(T)}]
      BY <2>2, <3>4 DEF SubsetSums, Partial
    <3> QED
      BY <3>1, <3>2, <3>3, <3>5
  <2> QED
    BY <2>1, <2>2
<1>2. \A T \in SUBSET S : T \in Good
  <2> HIDE DEF Good
  <2> QED
    BY <1>1, SubsetInduction
<1> QED
  BY <1>2

LEMMA SumsNumbers ==
    ASSUME NEW S, IsFiniteSet(S), NEW w, \A x \in S : w[x] \in Int,
           NEW f, SubsetSums(f, w, S)
    PROVE  \A T : T \subseteq S => f[T] \in Int
<1> DEFINE Good == {T \in SUBSET S : f[T] \in Int}
<1>1. ASSUME NEW T \in SUBSET S, \A x \in T : T \ {x} \in Good PROVE T \in Good
  <2>1. CASE T = {}
    <3>1. f[T] = 0
      BY <2>1, SumsRules
    <3> QED
      BY <3>1
  <2>2. CASE T # {}
    <3>1. Pick(T) \in T /\ Pick(T) \in S
      BY <2>2, Picked
    <3>2. f[T] = w[Pick(T)] + f[T \ {Pick(T)}]
      BY <2>2, SumsRules
    <3>3. w[Pick(T)] \in Int /\ f[T \ {Pick(T)}] \in Int
      BY <1>1, <3>1
    <3>4. f[T] \in Int
      BY <3>2, <3>3
    <3> QED
      BY <3>4
  <2> QED
    BY <2>1, <2>2
<1>2. \A T \in SUBSET S : T \in Good
  <2> HIDE DEF Good
  <2> QED
    BY <1>1, SubsetInduction
<1> QED
  BY <1>2

(* Which element is taken first does not matter. *)
LEMMA SumsOrder ==
    ASSUME NEW S, IsFiniteSet(S), NEW w, \A x \in S : w[x] \in Int,
           NEW f, SubsetSums(f, w, S)
    PROVE  \A T, y : T \subseteq S /\ y \in T => f[T] = w[y] + f[T \ {y}]
<1> DEFINE Good == {T \in SUBSET S : \A x \in T : f[T] = w[x] + f[T \ {x}]}
<1>1. ASSUME NEW T \in SUBSET S, \A x \in T : T \ {x} \in Good,
             NEW x \in T
      PROVE  f[T] = w[x] + f[T \ {x}]
  <2> DEFINE y == Pick(T)
  <2>1. y \in T
    BY Picked
  <2>2. f[T] = w[y] + f[T \ {y}]
    BY SumsRules
  <2> HIDE DEF y
  <2>3. CASE x = y
    BY <2>2, <2>3
  <2>4. CASE x # y
    <3>1. f[T \ {y}] = w[x] + f[(T \ {y}) \ {x}]
      BY <1>1, <2>1, <2>4
    <3>2. f[T \ {x}] = w[y] + f[(T \ {x}) \ {y}]
      BY <1>1, <2>1, <2>4
    <3>3. (T \ {y}) \ {x} = (T \ {x}) \ {y}
      OBVIOUS
    <3>4. PICK rest \in Int : f[(T \ {x}) \ {y}] = rest
      <4>1. (T \ {x}) \ {y} \in SUBSET S
        OBVIOUS
      <4> QED
        BY <4>1, SumsNumbers
    <3>5. f[(T \ {y}) \ {x}] = rest
      BY <3>3, <3>4
    <3>6. w[x] \in Int /\ w[y] \in Int
      BY <2>1
    <3> QED
      BY <2>2, <3>1, <3>2, <3>4, <3>5, <3>6
  <2> QED
    BY <2>3, <2>4
<1>2. \A T \in SUBSET S : T \in Good
  <2>1. ASSUME NEW T \in SUBSET S, \A x \in T : T \ {x} \in Good PROVE T \in Good
    BY <1>1, <2>1
  <2> HIDE DEF Good
  <2> QED
    BY <2>1, SubsetInduction
<1> QED
  <2> SUFFICES ASSUME NEW T \in SUBSET S, NEW x \in T PROVE f[T] = w[x] + f[T \ {x}]
    OBVIOUS
  <2>1. T \in Good
    BY <1>2
  <2> QED
    BY <2>1

-----------------------------------------------------------------------------
(* The rules of sums. *)

LEMMA TotalRules ==
    ASSUME NEW S, IsFiniteSet(S), NEW w, \A x \in S : w[x] \in Int
    PROVE  /\ Total(w, S) \in Int
           /\ S = {} => Total(w, S) = 0
           /\ \A x \in S : Total(w, S) = w[x] + Total(w, S \ {x})
<1>1. PICK f : SubsetSums(f, w, S) /\ Total(w, S) = f[S]
  BY TotalSums
<1>2. S \in SUBSET S
  OBVIOUS
<1>3. Total(w, S) \in Int
  BY <1>1, <1>2, SumsNumbers
<1>4. S = {} => Total(w, S) = 0
  BY <1>1, SumsRules
<1>5. ASSUME NEW x \in S PROVE Total(w, S) = w[x] + Total(w, S \ {x})
  <2>1. f[S] = w[x] + f[S \ {x}]
    <3>1. \A T, y : T \subseteq S /\ y \in T => f[T] = w[y] + f[T \ {y}]
      BY <1>1, SumsOrder
    <3> QED
      BY <1>2, <3>1
  <2>2. IsFiniteSet(S \ {x})
    BY FS_RemoveElement
  <2>3. PICK g : SubsetSums(g, w, S \ {x}) /\ Total(w, S \ {x}) = g[S \ {x}]
    BY <2>2, TotalSums
  <2>4. PICK U : U = S \ {x}
    OBVIOUS
  <2>5. U \subseteq S /\ IsFiniteSet(U) /\ SubsetSums(g, w, U)
    BY <2>2, <2>3, <2>4
  <2>6. f[U] = g[U]
    <3>1. SubsetSums(f, w, S) /\ \A y \in U : w[y] = w[y]
      BY <1>1
    <3> QED
      BY <2>5, <3>1, SumsUnique
  <2> QED
    BY <1>1, <2>1, <2>3, <2>4, <2>6
<1> QED
  BY <1>3, <1>4, <1>5

LEMMA TotalSame ==
    ASSUME NEW S, IsFiniteSet(S), NEW w, NEW v, \A x \in S : w[x] = v[x]
    PROVE  Total(w, S) = Total(v, S)
<1>1. PICK f : SubsetSums(f, w, S) /\ Total(w, S) = f[S]
  BY TotalSums
<1>2. PICK g : SubsetSums(g, v, S) /\ Total(v, S) = g[S]
  BY TotalSums
<1>3. f[S] = g[S]
  BY <1>1, <1>2, SumsUnique
<1> QED
  BY <1>1, <1>2, <1>3

(* A set is split in two. *)
LEMMA TotalSplit ==
    ASSUME NEW S, IsFiniteSet(S), NEW w, \A x \in S : w[x] \in Int, NEW A, A \subseteq S
    PROVE  Total(w, S) = Total(w, A) + Total(w, S \ A)
<1> DEFINE Good == {T \in SUBSET S : Total(w, T) = Total(w, T \cap A) + Total(w, T \ A)}
<1>1. ASSUME NEW T \in SUBSET S, \A x \in T : T \ {x} \in Good PROVE T \in Good
  <2>1. IsFiniteSet(T) /\ IsFiniteSet(T \cap A) /\ IsFiniteSet(T \ A)
    BY FS_Subset
  <2>2. /\ \A x \in T : w[x] \in Int
        /\ \A x \in T \cap A : w[x] \in Int
        /\ \A x \in T \ A : w[x] \in Int
    OBVIOUS
  <2>3. /\ Total(w, T) \in Int /\ Total(w, T \cap A) \in Int /\ Total(w, T \ A) \in Int
        /\ T = {} => Total(w, T) = 0
        /\ T \cap A = {} => Total(w, T \cap A) = 0
        /\ T \ A = {} => Total(w, T \ A) = 0
        /\ \A x \in T : Total(w, T) = w[x] + Total(w, T \ {x})
        /\ \A x \in T \cap A : Total(w, T \cap A) = w[x] + Total(w, (T \cap A) \ {x})
        /\ \A x \in T \ A : Total(w, T \ A) = w[x] + Total(w, (T \ A) \ {x})
    BY <2>1, <2>2, TotalRules
  <2>4. CASE T = {}
    <3>1. T \cap A = {} /\ T \ A = {}
      BY <2>4
    <3>2. Total(w, T) = Total(w, T \cap A) + Total(w, T \ A)
      BY <2>3, <2>4, <3>1
    <3> QED
      BY <3>2
  <2>5. ASSUME NEW x \in T PROVE T \in Good
    <3>1. Total(w, T \ {x}) = Total(w, (T \ {x}) \cap A) + Total(w, (T \ {x}) \ A)
      BY <1>1
    <3>2. /\ IsFiniteSet((T \ {x}) \cap A) /\ IsFiniteSet((T \ {x}) \ A)
          /\ \A y \in (T \ {x}) \cap A : w[y] \in Int
          /\ \A y \in (T \ {x}) \ A : w[y] \in Int
      BY FS_Subset
    <3>3. Total(w, (T \ {x}) \cap A) \in Int /\ Total(w, (T \ {x}) \ A) \in Int
      BY <3>2, TotalRules
    <3>4. CASE x \in A
      <4>1. (T \ {x}) \cap A = (T \cap A) \ {x} /\ (T \ {x}) \ A = T \ A
        BY <3>4
      <4>2. /\ Total(w, T) = w[x] + Total(w, T \ {x})
            /\ Total(w, T \cap A) = w[x] + Total(w, (T \cap A) \ {x})
        BY <2>3, <3>4
      <4>3. /\ Total(w, (T \ {x}) \cap A) = Total(w, (T \cap A) \ {x})
            /\ Total(w, (T \ {x}) \ A) = Total(w, T \ A)
        BY <4>1, Zenon
      <4>4. PICK a \in Int, b \in Int : /\ a = Total(w, (T \cap A) \ {x})
                                       /\ b = Total(w, T \ A)
        BY <3>3, <4>3, Zenon
      <4>5. Total(w, T) = w[x] + (a + b) /\ Total(w, T \cap A) = w[x] + a
        BY <3>1, <4>2, <4>3, <4>4, Zenon
      <4>6. w[x] \in Int
        OBVIOUS
      <4>7. Total(w, T) = Total(w, T \cap A) + Total(w, T \ A)
        BY <4>4, <4>5, <4>6
      <4> QED
        BY <4>7
    <3>5. CASE x \notin A
      <4>1. (T \ {x}) \cap A = T \cap A /\ (T \ {x}) \ A = (T \ A) \ {x}
        BY <3>5
      <4>2. /\ Total(w, T) = w[x] + Total(w, T \ {x})
            /\ Total(w, T \ A) = w[x] + Total(w, (T \ A) \ {x})
        BY <2>3, <3>5
      <4>3. /\ Total(w, (T \ {x}) \cap A) = Total(w, T \cap A)
            /\ Total(w, (T \ {x}) \ A) = Total(w, (T \ A) \ {x})
        BY <4>1, Zenon
      <4>4. PICK a \in Int, b \in Int : /\ a = Total(w, T \cap A)
                                       /\ b = Total(w, (T \ A) \ {x})
        BY <3>3, <4>3, Zenon
      <4>5. Total(w, T) = w[x] + (a + b) /\ Total(w, T \ A) = w[x] + b
        BY <3>1, <4>2, <4>3, <4>4, Zenon
      <4>6. w[x] \in Int
        OBVIOUS
      <4>7. Total(w, T) = Total(w, T \cap A) + Total(w, T \ A)
        BY <4>4, <4>5, <4>6
      <4> QED
        BY <4>7
    <3> QED
      BY <3>4, <3>5
  <2> QED
    BY <2>4, <2>5
<1>2. \A T \in SUBSET S : T \in Good
  <2> HIDE DEF Good
  <2> QED
    BY <1>1, SubsetInduction
<1>3. S \in Good /\ S \cap A = A
  BY <1>2
<1> QED
  BY <1>3

LEMMA TotalDisjoint ==
    ASSUME NEW A, NEW B, IsFiniteSet(A), IsFiniteSet(B), A \cap B = {},
           NEW w, \A x \in A \cup B : w[x] \in Int
    PROVE  Total(w, A \cup B) = Total(w, A) + Total(w, B)
<1>1. PICK S : S = A \cup B
  OBVIOUS
<1>2. IsFiniteSet(S) /\ A \subseteq S /\ S \ A = B /\ \A x \in S : w[x] \in Int
  BY <1>1, FS_Union
<1> QED
  BY <1>1, <1>2, TotalSplit

LEMMA TotalNat ==
    ASSUME NEW S, IsFiniteSet(S), NEW w, \A x \in S : w[x] \in Nat
    PROVE  Total(w, S) \in Nat
<1> DEFINE Good == {T \in SUBSET S : Total(w, T) \in Nat}
<1>1. ASSUME NEW T \in SUBSET S, \A x \in T : T \ {x} \in Good PROVE T \in Good
  <2>1. IsFiniteSet(T) /\ \A x \in T : w[x] \in Int
    BY FS_Subset
  <2>2. /\ T = {} => Total(w, T) = 0
        /\ \A x \in T : Total(w, T) = w[x] + Total(w, T \ {x})
    BY <2>1, TotalRules
  <2>3. CASE T = {}
    BY <2>2, <2>3
  <2>4. ASSUME NEW x \in T PROVE Total(w, T) \in Nat
    <3>1. w[x] \in Nat /\ Total(w, T \ {x}) \in Nat /\ Total(w, T) = w[x] + Total(w, T \ {x})
      BY <1>1, <2>2
    <3> QED
      BY <3>1
  <2> QED
    BY <2>3, <2>4
<1>2. \A T \in SUBSET S : T \in Good
  <2> HIDE DEF Good
  <2> QED
    BY <1>1, SubsetInduction
<1> QED
  BY <1>2

LEMMA TotalZero ==
    ASSUME NEW S, IsFiniteSet(S), NEW w, \A x \in S : w[x] = 0
    PROVE  Total(w, S) = 0
<1> DEFINE Good == {T \in SUBSET S : Total(w, T) = 0}
<1>1. ASSUME NEW T \in SUBSET S, \A x \in T : T \ {x} \in Good PROVE T \in Good
  <2>1. IsFiniteSet(T) /\ \A x \in T : w[x] \in Int
    BY FS_Subset
  <2>2. /\ T = {} => Total(w, T) = 0
        /\ \A x \in T : Total(w, T) = w[x] + Total(w, T \ {x})
    BY <2>1, TotalRules
  <2>3. CASE T = {}
    BY <2>2, <2>3
  <2>4. ASSUME NEW x \in T PROVE Total(w, T) = 0
    <3>1. w[x] = 0 /\ Total(w, T \ {x}) = 0 /\ Total(w, T) = w[x] + Total(w, T \ {x})
      BY <1>1, <2>2
    <3> QED
      BY <3>1
  <2> QED
    BY <2>3, <2>4
<1>2. \A T \in SUBSET S : T \in Good
  <2> HIDE DEF Good
  <2> QED
    BY <1>1, SubsetInduction
<1> QED
  BY <1>2

LEMMA TotalMinus ==
    ASSUME NEW S, IsFiniteSet(S), NEW p, NEW q, NEW c,
           \A x \in S : p[x] \in Int /\ q[x] \in Int /\ c[x] = p[x] - q[x]
    PROVE  Total(c, S) = Total(p, S) - Total(q, S)
<1> DEFINE Good == {T \in SUBSET S : Total(c, T) = Total(p, T) - Total(q, T)}
<1>1. ASSUME NEW T \in SUBSET S, \A x \in T : T \ {x} \in Good PROVE T \in Good
  <2>1. /\ IsFiniteSet(T)
        /\ \A x \in T : p[x] \in Int
        /\ \A x \in T : q[x] \in Int
        /\ \A x \in T : c[x] \in Int
    BY FS_Subset
  <2>2. /\ T = {} => Total(c, T) = 0 /\ Total(p, T) = 0 /\ Total(q, T) = 0
        /\ \A x \in T : Total(c, T) = c[x] + Total(c, T \ {x})
        /\ \A x \in T : Total(p, T) = p[x] + Total(p, T \ {x})
        /\ \A x \in T : Total(q, T) = q[x] + Total(q, T \ {x})
    BY <2>1, TotalRules
  <2>3. CASE T = {}
    BY <2>2, <2>3
  <2>4. ASSUME NEW x \in T PROVE Total(c, T) = Total(p, T) - Total(q, T)
    <3>1. IsFiniteSet(T \ {x})
      BY <2>1, FS_RemoveElement
    <3>2. Total(p, T \ {x}) \in Int /\ Total(q, T \ {x}) \in Int
      BY <2>1, <3>1, TotalRules
    <3>3. Total(c, T \ {x}) = Total(p, T \ {x}) - Total(q, T \ {x})
      BY <1>1
    <3>4. c[x] = p[x] - q[x] /\ p[x] \in Int /\ q[x] \in Int
      OBVIOUS
    <3>5. /\ Total(c, T) = c[x] + Total(c, T \ {x})
          /\ Total(p, T) = p[x] + Total(p, T \ {x})
          /\ Total(q, T) = q[x] + Total(q, T \ {x})
      BY <2>2
    <3> QED
      BY <3>2, <3>3, <3>4, <3>5
  <2> QED
    BY <2>3, <2>4
<1>2. \A T \in SUBSET S : T \in Good
  <2> HIDE DEF Good
  <2> QED
    BY <1>1, SubsetInduction
<1>3. S \in Good
  BY <1>2
<1> QED
  BY <1>3

(* The elements of a set are renamed. *)
Renames(h, S, U) ==
    /\ \A x, y \in S : h[x] = h[y] => x = y
    /\ \A y : y \in U <=> \E x \in S : y = h[x]

LEMMA TotalRenamed ==
    ASSUME NEW S, IsFiniteSet(S), NEW h, NEW U, Renames(h, S, U),
           NEW v, NEW w, \A x \in S : w[x] \in Int /\ v[h[x]] = w[x]
    PROVE  IsFiniteSet(U) /\ Total(v, U) = Total(w, S)
<1> DEFINE Image(T) == {h[x] : x \in T}
           Good == {T \in SUBSET S : /\ IsFiniteSet(Image(T))
                                     /\ Total(v, Image(T)) = Total(w, T)}
<1>0. \A x, y \in S : h[x] = h[y] => x = y
  BY DEF Renames
<1>1. ASSUME NEW T \in SUBSET S, \A x \in T : T \ {x} \in Good PROVE T \in Good
  <2>1. IsFiniteSet(T) /\ \A x \in T : w[x] \in Int
    BY FS_Subset
  <2>2. /\ T = {} => Total(w, T) = 0
        /\ \A x \in T : Total(w, T) = w[x] + Total(w, T \ {x})
    BY <2>1, TotalRules
  <2>3. CASE T = {}
    <3>1. Image(T) = {}
      BY <2>3
    <3>2. IsFiniteSet(Image(T)) /\ \A x \in Image(T) : v[x] \in Int
      BY <3>1, FS_EmptySet
    <3> HIDE DEF Image
    <3>3. Total(v, Image(T)) = 0
      BY <3>1, <3>2, TotalRules
    <3> QED
      BY <2>2, <2>3, <3>2, <3>3
  <2>4. ASSUME NEW x \in T PROVE T \in Good
    <3>1. IsFiniteSet(Image(T \ {x})) /\ Total(v, Image(T \ {x})) = Total(w, T \ {x})
      BY <1>1
    <3>2. Image(T) = Image(T \ {x}) \cup {h[x]} /\ h[x] \in Image(T)
      <4>1. \A z : z \in Image(T) <=> z \in Image(T \ {x}) \/ z = h[x]
        BY Zenon
      <4> HIDE DEF Image
      <4> QED
        BY <4>1
    <3>3. Image(T) \ {h[x]} = Image(T \ {x})
      <4>1. \A y \in T \ {x} : h[y] # h[x]
        BY <1>0
      <4>2. h[x] \notin Image(T \ {x})
        BY <4>1
      <4> HIDE DEF Image
      <4> QED
        BY <3>2, <4>2
    <3>4. \A y \in Image(T) : v[y] \in Int
      OBVIOUS
    <3> HIDE DEF Image
    <3>5. IsFiniteSet(Image(T))
      <4>1. IsFiniteSet(Image(T \ {x}) \cup {h[x]})
        BY <3>1, FS_AddElement
      <4> QED
        BY <3>2, <4>1, Zenon
    <3>6. Total(v, Image(T)) = v[h[x]] + Total(v, Image(T \ {x}))
      <4>1. \A y \in Image(T) : Total(v, Image(T)) = v[y] + Total(v, Image(T) \ {y})
        BY <3>4, <3>5, TotalRules
      <4> QED
        BY <3>2, <3>3, <4>1, Zenon
    <3>7. Total(v, Image(T)) = Total(w, T)
      BY <2>2, <3>1, <3>6
    <3> QED
      BY <3>5, <3>7
  <2> QED
    BY <2>3, <2>4
<1>2. \A T \in SUBSET S : T \in Good
  <2> HIDE DEF Good
  <2> QED
    BY <1>1, SubsetInduction
<1>3. S \in Good
  BY <1>2
<1>4. U = Image(S)
  BY DEF Renames
<1> HIDE DEF Image
<1> QED
  BY <1>3, <1>4

(* A set is made of groups that do not overlap. *)
Groups(part, I, U) ==
    /\ \A i \in I : IsFiniteSet(part[i])
    /\ \A i, j \in I : i # j => part[i] \cap part[j] = {}
    /\ \A x : x \in U <=> \E i \in I : x \in part[i]

LEMMA TotalGroups ==
    ASSUME NEW I, IsFiniteSet(I), NEW part, NEW U, Groups(part, I, U),
           NEW w, \A x \in U : w[x] \in Int,
           NEW c, \A i \in I : c[i] = Total(w, part[i])
    PROVE  IsFiniteSet(U) /\ Total(w, U) = Total(c, I)
<1> DEFINE Whole(T) == UNION {part[i] : i \in T}
           Good == {T \in SUBSET I : /\ IsFiniteSet(Whole(T))
                                     /\ Total(w, Whole(T)) = Total(c, T)}
<1>0. /\ \A i \in I : IsFiniteSet(part[i])
      /\ \A i, j \in I : i # j => part[i] \cap part[j] = {}
      /\ \A i \in I : \A x \in part[i] : w[x] \in Int
  BY DEF Groups
<1>1. \A i \in I : c[i] \in Int
  <2> TAKE i \in I
  <2>1. IsFiniteSet(part[i]) /\ \A x \in part[i] : w[x] \in Int
    BY <1>0
  <2>2. Total(w, part[i]) \in Int
    BY <2>1, TotalRules
  <2> QED
    BY <2>2
<1>2. ASSUME NEW T \in SUBSET I, \A i \in T : T \ {i} \in Good PROVE T \in Good
  <2>1. IsFiniteSet(T) /\ \A i \in T : c[i] \in Int
    BY <1>1, FS_Subset
  <2>2. /\ T = {} => Total(c, T) = 0
        /\ \A i \in T : Total(c, T) = c[i] + Total(c, T \ {i})
    BY <2>1, TotalRules
  <2>3. CASE T = {}
    <3>1. Whole(T) = {}
      BY <2>3
    <3>2. IsFiniteSet(Whole(T)) /\ \A x \in Whole(T) : w[x] \in Int
      BY <3>1, FS_EmptySet
    <3> HIDE DEF Whole
    <3>3. Total(w, Whole(T)) = 0
      BY <3>1, <3>2, TotalRules
    <3> QED
      BY <2>2, <2>3, <3>2, <3>3
  <2>4. ASSUME NEW i \in T PROVE T \in Good
    <3>1. IsFiniteSet(Whole(T \ {i})) /\ Total(w, Whole(T \ {i})) = Total(c, T \ {i})
      BY <1>2
    <3>2. Whole(T) = part[i] \cup Whole(T \ {i})
      <4>1. \A z : z \in Whole(T) <=> \E j \in T : z \in part[j]
        BY Zenon
      <4>2. \A z : z \in Whole(T \ {i}) <=> \E j \in T \ {i} : z \in part[j]
        BY Zenon
      <4> HIDE DEF Whole
      <4> QED
        BY <4>1, <4>2
    <3>3. part[i] \cap Whole(T \ {i}) = {}
      <4>1. \A z : z \in Whole(T \ {i}) <=> \E j \in T \ {i} : z \in part[j]
        BY Zenon
      <4>2. \A j \in T \ {i} : part[i] \cap part[j] = {}
        BY <1>0
      <4> HIDE DEF Whole
      <4> QED
        BY <4>1, <4>2
    <3>4. IsFiniteSet(part[i]) /\ c[i] = Total(w, part[i])
      BY <1>0
    <3>5. \A x \in part[i] \cup Whole(T \ {i}) : w[x] \in Int
      BY <1>0
    <3> HIDE DEF Whole
    <3>6. Total(w, Whole(T)) = Total(w, part[i]) + Total(w, Whole(T \ {i}))
      <4>1. PICK A, B : A = part[i] /\ B = Whole(T \ {i})
        OBVIOUS
      <4>2. /\ IsFiniteSet(A) /\ IsFiniteSet(B) /\ A \cap B = {}
            /\ \A x \in A \cup B : w[x] \in Int
        BY <3>1, <3>3, <3>4, <3>5, <4>1, Zenon
      <4>3. Total(w, A \cup B) = Total(w, A) + Total(w, B)
        BY <4>2, TotalDisjoint
      <4> QED
        BY <3>2, <4>1, <4>3, Zenon
    <3>7. IsFiniteSet(Whole(T))
      <4>1. IsFiniteSet(part[i] \cup Whole(T \ {i}))
        BY <3>1, <3>4, FS_Union
      <4> QED
        BY <3>2, <4>1, Zenon
    <3>8. Total(w, Whole(T)) = Total(c, T)
      BY <2>2, <3>1, <3>4, <3>6
    <3> QED
      BY <3>7, <3>8
  <2> QED
    BY <2>3, <2>4
<1>3. \A T \in SUBSET I : T \in Good
  <2> HIDE DEF Good
  <2> QED
    BY <1>2, SubsetInduction
<1>4. I \in Good
  BY <1>3
<1>5. U = Whole(I)
  BY DEF Groups
<1> HIDE DEF Whole
<1> QED
  BY <1>4, <1>5

-----------------------------------------------------------------------------
(* What outputs are worth. *)

LEMMA ImageFinite ==
    ASSUME NEW S, IsFiniteSet(S), NEW h
    PROVE  IsFiniteSet({h[x] : x \in S})
<1> DEFINE T == {h[x] : x \in S}
           f == [x \in S |-> h[x]]
<1>1. f \in Surjection(S, T)
  BY DEF Surjection
<1> HIDE DEF T, f
<1>2. IsFiniteSet(T)
  BY <1>1, FS_Surjection
<1> QED
  BY <1>2 DEF T

(* What a set of outputs is worth is such a sum. *)
LEMMA WorthTotal ==
    ASSUME NEW S, IsFiniteSet(S), NEW table, NEW w, \A o \in S : w[o] = table[o].amount
    PROVE  Worth(S, table) = Total(w, S)
<1> DEFINE IsSums(f) ==
             f = [s \in SUBSET S |->
                    IF s = {} THEN 0 ELSE table[Pick(s)].amount + f[s \ {Pick(s)}]]
           f == CHOOSE g : IsSums(g)
<1>1. Worth(S, table) = f[S]
  BY DEF Worth, MapThenSumSet, MapThenFoldSet, Pick
<1>2. ASSUME NEW g PROVE IsSums(g) <=> SubsetSums(g, w, S)
  <2>1. \A s \in SUBSET S : s # {} => w[Pick(s)] = table[Pick(s)].amount
    BY Picked
  <2>2. [s \in SUBSET S |-> IF s = {} THEN 0 ELSE table[Pick(s)].amount + g[s \ {Pick(s)}]]
          = [s \in SUBSET S |-> IF s = {} THEN 0 ELSE w[Pick(s)] + g[s \ {Pick(s)}]]
    BY <2>1
  <2> QED
    BY <2>2 DEF SubsetSums, Partial
<1> HIDE DEF IsSums
<1>3. IsSums(f)
  <2>1. PICK g : Partial(g, w, SUBSET S)
    BY PartialExists
  <2>2. IsSums(g)
    BY <1>2, <2>1 DEF SubsetSums
  <2> QED
    BY <2>2
<1> HIDE DEF f
<1>4. SubsetSums(f, w, S)
  BY <1>2, <1>3
<1>5. PICK g : SubsetSums(g, w, S) /\ Total(w, S) = g[S]
  BY TotalSums
<1>6. f[S] = g[S]
  BY <1>4, <1>5, SumsUnique
<1> QED
  BY <1>1, <1>5, <1>6

LEMMA WorthSame ==
    ASSUME NEW S, IsFiniteSet(S), NEW t, NEW u, \A o \in S : t[o].amount = u[o].amount
    PROVE  Worth(S, t) = Worth(S, u)
<1> DEFINE w == [o \in S |-> t[o].amount]
<1>1. (\A o \in S : w[o] = t[o].amount) /\ (\A o \in S : w[o] = u[o].amount)
  OBVIOUS
<1> HIDE DEF w
<1>2. Worth(S, t) = Total(w, S)
  BY <1>1, WorthTotal
<1>3. Worth(S, u) = Total(w, S)
  BY <1>1, WorthTotal
<1> QED
  BY <1>2, <1>3

LEMMA WorthNat ==
    ASSUME NEW S, IsFiniteSet(S), NEW t, \A o \in S : t[o].amount \in Nat
    PROVE  Worth(S, t) \in Nat
<1> DEFINE w == [o \in S |-> t[o].amount]
<1>1. (\A o \in S : w[o] = t[o].amount) /\ (\A o \in S : w[o] \in Nat)
  OBVIOUS
<1> HIDE DEF w
<1>2. Worth(S, t) = Total(w, S)
  BY <1>1, WorthTotal
<1>3. Total(w, S) \in Nat
  BY <1>1, TotalNat
<1> QED
  BY <1>2, <1>3

LEMMA WorthSplit ==
    ASSUME NEW S, IsFiniteSet(S), NEW t, \A o \in S : t[o].amount \in Nat, NEW A, A \subseteq S
    PROVE  Worth(S, t) = Worth(A, t) + Worth(S \ A, t)
<1> DEFINE w == [o \in S |-> t[o].amount]
<1>1. PICK B : B = S \ A
  OBVIOUS
<1>2. IsFiniteSet(A) /\ IsFiniteSet(B)
  BY <1>1, FS_Subset
<1>3. /\ \A o \in S : w[o] = t[o].amount
      /\ \A o \in A : w[o] = t[o].amount
      /\ \A o \in B : w[o] = t[o].amount
      /\ \A o \in S : w[o] \in Int
  BY <1>1
<1> HIDE DEF w
<1>4. Worth(S, t) = Total(w, S) /\ Worth(A, t) = Total(w, A) /\ Worth(B, t) = Total(w, B)
  BY <1>2, <1>3, WorthTotal
<1>5. Total(w, S) = Total(w, A) + Total(w, S \ A)
  BY <1>3, TotalSplit
<1> QED
  BY <1>1, <1>4, <1>5, Zenon

LEMMA WorthDisjoint ==
    ASSUME NEW A, NEW B, IsFiniteSet(A), IsFiniteSet(B), A \cap B = {}, NEW t,
           \A o \in A \cup B : t[o].amount \in Nat
    PROVE  Worth(A \cup B, t) = Worth(A, t) + Worth(B, t)
<1>1. PICK S : S = A \cup B
  OBVIOUS
<1>2. /\ IsFiniteSet(S) /\ A \subseteq S /\ S \ A = B
      /\ \A o \in S : t[o].amount \in Nat
  BY <1>1, FS_Union
<1>3. Worth(S, t) = Worth(A, t) + Worth(S \ A, t)
  BY <1>2, WorthSplit
<1> QED
  BY <1>1, <1>2, <1>3, Zenon

LEMMA WorthEmpty ==
    ASSUME NEW t PROVE Worth({}, t) = 0
<1>1. IsFiniteSet({})
  BY FS_EmptySet
<1> DEFINE w == [o \in {} |-> 0]
<1>2. Worth({}, t) = Total(w, {})
  BY <1>1, WorthTotal
<1>3. Total(w, {}) = 0
  BY <1>1, TotalZero
<1> QED
  BY <1>2, <1>3

(* Outputs are taken out of a set and others are added. *)
LEMMA WorthAfter ==
    ASSUME NEW S, IsFiniteSet(S), NEW C, C \subseteq S, NEW N, IsFiniteSet(N), S \cap N = {},
           NEW t, NEW u, NEW new,
           \A o \in S : t[o].amount \in Nat /\ u[o].amount = t[o].amount,
           \A o \in N : new[o].amount \in Nat /\ u[o].amount = new[o].amount
    PROVE  Worth((S \ C) \cup N, u) = Worth(S, t) + Worth(N, new) - Worth(C, t)
<1>1. PICK R : R = S \ C
  OBVIOUS
<1>2. IsFiniteSet(R) /\ IsFiniteSet(C) /\ R \cap N = {} /\ R \subseteq S
  BY <1>1, FS_Subset
<1>3. /\ \A o \in R : t[o].amount \in Nat
      /\ \A o \in C : t[o].amount \in Nat
      /\ \A o \in R : u[o].amount = t[o].amount
      /\ \A o \in R \cup N : u[o].amount \in Nat
  BY <1>2
<1>4. Worth(R \cup N, u) = Worth(R, u) + Worth(N, u)
  BY <1>2, <1>3, WorthDisjoint
<1>5. Worth(R, u) = Worth(R, t)
  BY <1>2, <1>3, WorthSame
<1>6. Worth(N, u) = Worth(N, new)
  BY WorthSame
<1>7. Worth(S, t) = Worth(C, t) + Worth(R, t)
  <2>1. Worth(S, t) = Worth(C, t) + Worth(S \ C, t)
    BY WorthSplit
  <2> QED
    BY <1>1, <2>1, Zenon
<1>8. Worth(R, t) \in Nat /\ Worth(C, t) \in Nat
  BY <1>2, <1>3, WorthNat
<1>9. Worth(N, new) \in Nat
  BY WorthNat
<1>10. PICK r \in Nat, c \in Nat, n \in Nat :
         r = Worth(R, t) /\ c = Worth(C, t) /\ n = Worth(N, new)
  BY <1>8, <1>9
<1>11. Worth(R \cup N, u) = r + n /\ Worth(S, t) = c + r
  BY <1>4, <1>5, <1>6, <1>7, <1>10, Zenon
<1>12. Worth(R \cup N, u) = (c + r) + n - c
  BY <1>10, <1>11
<1> QED
  BY <1>1, <1>10, <1>11, <1>12, Zenon

LEMMA CardinalityAfter ==
    ASSUME NEW S, IsFiniteSet(S), NEW C, C \subseteq S, NEW N, IsFiniteSet(N), S \cap N = {}
    PROVE  Cardinality((S \ C) \cup N) = Cardinality(S) + Cardinality(N) - Cardinality(C)
<1>1. PICK R : R = S \ C
  OBVIOUS
<1>2. IsFiniteSet(R) /\ IsFiniteSet(C) /\ R \cap N = {} /\ S \cap C = C
  BY <1>1, FS_Subset
<1>3. Cardinality(R) = Cardinality(S) - Cardinality(C)
  BY <1>1, <1>2, FS_Difference
<1>4. Cardinality(R \cup N) = Cardinality(R) + Cardinality(N) - Cardinality(R \cap N)
  BY <1>2, FS_Union
<1>5. Cardinality(R \cap N) = 0
  BY <1>2, FS_EmptySet
<1>6. Cardinality(S) \in Nat /\ Cardinality(C) \in Nat /\ Cardinality(N) \in Nat
  BY <1>2, FS_CardinalityType
<1>7. Cardinality(R \cup N) = Cardinality(S) + Cardinality(N) - Cardinality(C)
  BY <1>3, <1>4, <1>5, <1>6
<1> QED
  BY <1>1, <1>7

(* The row of an address after outputs were taken away and others added.   *)
LEMMA SumsAfter ==
    ASSUME NEW U, IsFiniteSet(U), NEW C, C \subseteq U, NEW N, IsFiniteSet(N), U \cap N = {},
           NEW t, NEW u, NEW new,
           \A o \in U : t[o].amount \in Nat /\ u[o] = t[o],
           \A o \in N : new[o].amount \in Nat /\ u[o] = new[o],
           NEW a, NEW old, old = Sums(Owned(U, t, a), t),
           NEW plus, plus = Sums(Owned(N, new, a), new),
           NEW minus, minus = Sums(Owned(C, t, a), t)
    PROVE  Sums(Owned((U \ C) \cup N, u, a), u) =
             [amount    |-> old.amount + plus.amount - minus.amount,
              allowance |-> old.allowance + plus.allowance - minus.allowance,
              dust      |-> old.dust + plus.dust - minus.dust]
<1>1. PICK S, D, M : S = Owned(U, t, a) /\ D = Owned(C, t, a) /\ M = Owned(N, new, a)
  OBVIOUS
<1>2. /\ Owned((U \ C) \cup N, u, a) = (S \ D) \cup M
      /\ S \subseteq U /\ D \subseteq S /\ M \subseteq N /\ S \cap M = {}
  BY <1>1 DEF Owned
<1>3. IsFiniteSet(S) /\ IsFiniteSet(M)
  BY <1>2, FS_Subset
<1>4. /\ \A o \in S : t[o].amount \in Nat /\ u[o].amount = t[o].amount
      /\ \A o \in M : new[o].amount \in Nat /\ u[o].amount = new[o].amount
  BY <1>2
<1>5. Worth((S \ D) \cup M, u) = Worth(S, t) + Worth(M, new) - Worth(D, t)
  BY <1>2, <1>3, <1>4, WorthAfter
<1> DEFINE Allow(X, table) == {o \in X : table[o].type = "allowance"}
           Dust(X, table) == {o \in X : IsDust(table[o])}
<1>6. Worth(Allow((S \ D) \cup M, u), u)
        = Worth(Allow(S, t), t) + Worth(Allow(M, new), new) - Worth(Allow(D, t), t)
  <2>1. PICK A, B, E : A = Allow(S, t) /\ B = Allow(D, t) /\ E = Allow(M, new)
    OBVIOUS
  <2>2. /\ Allow((S \ D) \cup M, u) = (A \ B) \cup E
        /\ A \subseteq S /\ B \subseteq A /\ E \subseteq M /\ A \cap E = {}
    BY <1>2, <2>1
  <2> HIDE DEF Allow
  <2>3. IsFiniteSet(A) /\ IsFiniteSet(E)
    BY <1>3, <2>2, FS_Subset
  <2>4. /\ \A o \in A : t[o].amount \in Nat /\ u[o].amount = t[o].amount
        /\ \A o \in E : new[o].amount \in Nat /\ u[o].amount = new[o].amount
    BY <1>4, <2>2
  <2>5. Worth((A \ B) \cup E, u) = Worth(A, t) + Worth(E, new) - Worth(B, t)
    BY <2>2, <2>3, <2>4, WorthAfter
  <2> QED
    BY <2>1, <2>2, <2>5, Zenon
<1>7. Cardinality(Dust((S \ D) \cup M, u))
        = Cardinality(Dust(S, t)) + Cardinality(Dust(M, new)) - Cardinality(Dust(D, t))
  <2>1. PICK A, B, E : A = Dust(S, t) /\ B = Dust(D, t) /\ E = Dust(M, new)
    OBVIOUS
  <2>2. /\ Dust((S \ D) \cup M, u) = (A \ B) \cup E
        /\ A \subseteq S /\ B \subseteq A /\ E \subseteq M /\ A \cap E = {}
    BY <1>2, <2>1
  <2> HIDE DEF Dust
  <2>3. IsFiniteSet(A) /\ IsFiniteSet(E)
    BY <1>3, <2>2, FS_Subset
  <2>4. Cardinality((A \ B) \cup E) = Cardinality(A) + Cardinality(E) - Cardinality(B)
    BY <2>2, <2>3, CardinalityAfter
  <2> QED
    BY <2>1, <2>2, <2>4, Zenon
<1>8. \A X, table : Sums(X, table) = [amount    |-> Worth(X, table),
                                     allowance |-> Worth(Allow(X, table), table),
                                     dust      |-> Cardinality(Dust(X, table))]
  BY DEF Sums
<1> HIDE DEF Allow, Dust
<1>9. /\ old.amount = Worth(S, t) /\ plus.amount = Worth(M, new) /\ minus.amount = Worth(D, t)
      /\ old.allowance = Worth(Allow(S, t), t) /\ plus.allowance = Worth(Allow(M, new), new)
      /\ minus.allowance = Worth(Allow(D, t), t)
      /\ old.dust = Cardinality(Dust(S, t)) /\ plus.dust = Cardinality(Dust(M, new))
      /\ minus.dust = Cardinality(Dust(D, t))
  BY <1>1, <1>8
<1>10. PICK X : X = Owned((U \ C) \cup N, u, a) /\ X = (S \ D) \cup M
  BY <1>2
<1>11. /\ Worth(X, u) = old.amount + plus.amount - minus.amount
       /\ Worth(Allow(X, u), u) = old.allowance + plus.allowance - minus.allowance
       /\ Cardinality(Dust(X, u)) = old.dust + plus.dust - minus.dust
  BY <1>5, <1>6, <1>7, <1>9, <1>10, Zenon
<1>12. Sums(X, u) = [amount    |-> Worth(X, u), allowance |-> Worth(Allow(X, u), u),
                     dust      |-> Cardinality(Dust(X, u))]
  BY <1>8
<1> QED
  BY <1>10, <1>11, <1>12, Zenon

(* The rows of two tables that agree on amounts and types. *)
LEMMA SumsSame ==
    ASSUME NEW S, IsFiniteSet(S), NEW t, NEW u,
           \A o \in S : t[o].amount = u[o].amount /\ t[o].type = u[o].type
    PROVE  Sums(S, t) = Sums(S, u)
<1>1. PICK A, D : A = {o \in S : t[o].type = "allowance"} /\ D = {o \in S : IsDust(t[o])}
  OBVIOUS
<1>2. A = {o \in S : u[o].type = "allowance"} /\ D = {o \in S : IsDust(u[o])}
  BY <1>1 DEF IsDust
<1>3. IsFiniteSet(A) /\ \A o \in A : t[o].amount = u[o].amount
  BY <1>1, FS_Subset
<1>4. Worth(S, t) = Worth(S, u) /\ Worth(A, t) = Worth(A, u)
  BY <1>3, WorthSame
<1>5. Sums(S, t) = [amount |-> Worth(S, t), allowance |-> Worth(A, t), dust |-> Cardinality(D)]
  BY <1>1 DEF Sums
<1>6. Sums(S, u) = [amount |-> Worth(S, u), allowance |-> Worth(A, u), dust |-> Cardinality(D)]
  BY <1>2 DEF Sums
<1> QED
  BY <1>4, <1>5, <1>6

(* What a sum of outputs is: three numbers. *)
LEMMA SumsNat ==
    ASSUME NEW S, IsFiniteSet(S), NEW t, \A o \in S : t[o].amount \in Nat
    PROVE  Sums(S, t) \in [amount : Nat, allowance : Nat, dust : Nat]
<1>1. PICK A, D : A = {o \in S : t[o].type = "allowance"} /\ D = {o \in S : IsDust(t[o])}
  OBVIOUS
<1>2. Sums(S, t) = [amount |-> Worth(S, t), allowance |-> Worth(A, t), dust |-> Cardinality(D)]
  BY <1>1 DEF Sums
<1>3. A \subseteq S /\ D \subseteq S /\ \A o \in A : t[o].amount \in Nat
  BY <1>1
<1>4. IsFiniteSet(A) /\ IsFiniteSet(D)
  BY <1>3, FS_Subset
<1>5. Worth(S, t) \in Nat /\ Worth(A, t) \in Nat
  BY <1>3, <1>4, WorthNat
<1>6. Cardinality(D) \in Nat
  BY <1>4, FS_CardinalityType
<1> QED
  BY <1>2, <1>5, <1>6

-----------------------------------------------------------------------------
(* The outputs that are made. *)

(* They are finitely many, each with an owner in the list. *)
LEMMA CreatedKinds ==
    ASSUME NEW id, NEW list, list \in Seq(Payment),
           NEW message, message \in AllMessages \cup {NoMessage}
    PROVE  /\ IsFiniteSet(DOMAIN Created(id, list, message))
           /\ \A o \in DOMAIN Created(id, list, message) :
                Created(id, list, message)[o] \in OutputRows
<1> DEFINE K == 0..Len(list) - 1
           h == [k \in K |-> <<id, k>>]
<1>1. Len(list) \in Nat /\ \A k \in K : list[k + 1] \in Payment
  OBVIOUS
<1>2. IsFiniteSet(Names(id, list))
  <2>1. IsFiniteSet(K)
    BY <1>1, FS_Interval
  <2>2. Names(id, list) = {h[k] : k \in K}
    BY DEF Names
  <2> HIDE DEF K, h
  <2>3. IsFiniteSet({h[k] : k \in K})
    BY <2>1, ImageFinite
  <2> QED
    BY <2>2, <2>3
<1>3. ASSUME NEW o \in Names(id, list)
      PROVE  Created(id, list, message)[o] \in OutputRows
  <2>1. PICK k \in K : o = <<id, k>>
    BY DEF Names
  <2>2. PICK p \in Payment : p = list[k + 1]
    BY <1>1
  <2>3. o[2] = k
    BY <2>1
  <2>4. Created(id, list, message)[o]
          = [message |-> message, address |-> p.address, amount |-> p.amount, type |-> p.type]
    BY <2>2, <2>3 DEF Created
  <2>5. p.address \in Addresses /\ p.amount \in Nat /\ p.type \in Types
    BY <2>2 DEF Payment
  <2> QED
    BY <2>4, <2>5 DEF OutputRows
<1> QED
  BY <1>2, <1>3, CreatedRows

LEMMA NewKinds ==
    ASSUME NEW m \in TxMessages
    PROVE  /\ IsFiniteSet(DOMAIN NewOutputs(m))
           /\ \A o \in DOMAIN NewOutputs(m) : NewOutputs(m)[o] \in OutputRows
<1>1. Tx[m].outputs \in Seq(Payment) /\ m \in AllMessages \cup {NoMessage}
  BY UniverseAssumption DEF AllMessages
<1>2. NewOutputs(m) = Created(Tx[m].tx, Tx[m].outputs, m)
  BY DEF NewOutputs
<1> QED
  BY <1>1, <1>2, CreatedKinds

LEMMA MigratedKinds ==
    ASSUME NEW i \in 1..MaxIndex
    PROVE  /\ IsFiniteSet(DOMAIN Migrated(i))
           /\ \A o \in DOMAIN Migrated(i) : Migrated(i)[o] \in OutputRows
<1>1. Receipts[i] \in Seq(Payment) /\ MilestoneMessage(i) \in AllMessages \cup {NoMessage}
  BY UniverseAssumption DEF AllMessages
<1>2. Migrated(i) = Created(MilestoneMessage(i), Receipts[i], MilestoneMessage(i))
  BY DEF Migrated
<1> QED
  BY <1>1, <1>2, CreatedKinds

-----------------------------------------------------------------------------
(* The invariant of the accounts. *)

(* The row of every address follows what a milestone takes and makes.      *)
LEMMA ApplyBalances ==
    ASSUME TablesInv, AccountsInv, NEW consumed, NEW created, NEW by,
           Apply(consumed, created, by), consumed \subseteq unspent, DOMAIN created \cap made = {},
           IsFiniteSet(DOMAIN created), \A o \in DOMAIN created : created[o] \in OutputRows
    PROVE  BalancesInv'
<1> DEFINE rows == NewRows(consumed, created)
           Fields == {"amount", "allowance", "dust"}
<1>1. /\ \A o \in DOMAIN outputs : outputs'[o] = outputs[o]
      /\ \A o \in DOMAIN created : outputs'[o] = created[o]
      /\ unspent' = (unspent \ consumed) \cup DOMAIN created
  BY ApplyRows
<1>2. balances' = [a \in {b \in Addresses : rows[b] # NoBalance} |-> rows[a]]
  BY DEF Apply, Rows
<1>3. /\ IsFiniteSet(unspent) /\ unspent \subseteq DOMAIN outputs
      /\ unspent \cap DOMAIN created = {}
  BY FS_Subset DEF TablesInv, OutputsInv, MadeInv, AccountsInv, KindsInv
<1>4. /\ \A o \in unspent : outputs[o].amount \in Nat /\ outputs'[o] = outputs[o]
      /\ \A o \in DOMAIN created : created[o].amount \in Nat /\ outputs'[o] = created[o]
  BY <1>1, <1>3 DEF AccountsInv, KindsInv, OutputRows
<1>5. ASSUME NEW a \in Addresses
      PROVE  rows[a] = Sums(Owned(unspent', outputs', a), outputs')
  <2>1. PICK old : old = Sums(Owned(unspent, outputs, a), outputs)
    OBVIOUS
  <2>2. PICK plus, minus : /\ plus = Sums(Owned(DOMAIN created, created, a), created)
                           /\ minus = Sums(Owned(consumed, outputs, a), outputs)
    OBVIOUS
  <2>3. Sums(Owned((unspent \ consumed) \cup DOMAIN created, outputs', a), outputs') =
             [amount    |-> old.amount + plus.amount - minus.amount,
              allowance |-> old.allowance + plus.allowance - minus.allowance,
              dust      |-> old.dust + plus.dust - minus.dust]
    BY <1>3, <1>4, <2>1, <2>2, SumsAfter
  <2>4. old = IF a \in DOMAIN balances THEN balances[a] ELSE NoBalance
    BY <2>1 DEF AccountsInv, BalancesInv, readBalanceForAddress
  <2>5. rows[a] = [f \in DOMAIN old |-> old[f] + plus[f] - minus[f]]
    BY <2>2, <2>4 DEF NewRows
  <2>6. DOMAIN old = Fields
    BY <2>1 DEF Sums
  <2>7. rows[a] = [amount    |-> old.amount + plus.amount - minus.amount,
                   allowance |-> old.allowance + plus.allowance - minus.allowance,
                   dust      |-> old.dust + plus.dust - minus.dust]
    <3> HIDE DEF rows
    <3> QED
      BY <2>5, <2>6
  <2> QED
    BY <1>1, <2>3, <2>7, Zenon
<1> HIDE DEF rows
<1>6. ASSUME NEW a \in Addresses
      PROVE  readBalanceForAddress(a)' = rows[a]
  BY <1>2 DEF readBalanceForAddress
<1>7. DOMAIN balances' \subseteq Addresses
  BY <1>2
<1>8. \A a \in Addresses :
        readBalanceForAddress(a)' = Sums(Owned(unspent', outputs', a), outputs')
  BY <1>5, <1>6, Zenon
<1> QED
  BY <1>7, <1>8, Zenon DEF BalancesInv

(* What the diff of the milestone that is being applied names. *)
LEMMA CreatedAfter ==
    ASSUME TablesInv, AccountsInv, ledger < MaxIndex, NEW N, N = ledger + 1,
           NEW row, diffs' = Put(diffs, N, row), Stored' = Stored \cup {N},
           opening' = opening, ledger' \in {ledger, N},
           NEW fresh, row.created = CurrentDiff.created \cup fresh,
           \A o \in fresh : MadeBy(o, N)' /\ o \notin DOMAIN opening,
           \A n \in TxMessages : Included(n) => Included(n)' /\ metadata'[n] = metadata[n],
           \A o \in DOMAIN outputs : outputs'[o] = outputs[o],
           ledger' = N => \A o \in DOMAIN Migrated(N) : o \in fresh /\ outputs'[o] = Migrated(N)[o]
    PROVE  CreatedInv'
<1>1. /\ diffs'[N] = row /\ \A j \in Stored \ {N} : diffs'[j] = diffs[j]
  BY DiffRow
<1>2. /\ ledger \in Nat /\ Stored \subseteq 1..N
      /\ N \in Stored => CurrentDiff = diffs[N]
      /\ N \notin Stored => CurrentDiff.created = {}
  BY Current DEF NoDiff
<1>3. \A i \in Stored :
        /\ \A o \in diffs[i].created : MadeBy(o, i) /\ o \notin DOMAIN opening
        /\ diffs[i].created \subseteq DOMAIN outputs
        /\ i <= ledger => \A o \in DOMAIN Migrated(i) :
              o \in diffs[i].created /\ outputs[o] = Migrated(i)[o]
  BY DEF TablesInv, OutputsInv, AccountsInv, CreatedInv
<1>4. ASSUME NEW o, NEW i \in Stored, MadeBy(o, i) PROVE MadeBy(o, i)'
  <2>1. i <= ledger => i <= ledger'
    BY <1>2
  <2> QED
    BY <1>4, <2>1 DEF MadeBy
<1>5. ASSUME NEW i \in Stored'
      PROVE  /\ \A o \in diffs'[i].created : MadeBy(o, i)' /\ o \notin DOMAIN opening'
             /\ i <= ledger' => \A o \in DOMAIN Migrated(i) :
                   o \in diffs'[i].created /\ outputs'[o] = Migrated(i)[o]
  <2>1. CASE i = N
    <3>1. \A o \in row.created : MadeBy(o, N)' /\ o \notin DOMAIN opening
      BY <1>2, <1>3, <1>4
    <3>2. N <= ledger' => ledger' = N
      BY <1>2
    <3> QED
      BY <1>1, <2>1, <3>1, <3>2
  <2>2. CASE i # N
    <3>1. i \in Stored /\ diffs'[i] = diffs[i]
      BY <1>1, <2>2
    <3>2. i <= ledger
      BY <1>2, <2>2, <3>1
    <3>3. \A o \in diffs[i].created : MadeBy(o, i)' /\ o \notin DOMAIN opening
      BY <1>3, <1>4, <3>1
    <3> QED
      BY <1>3, <3>1, <3>2, <3>3
  <2> QED
    BY <2>1, <2>2
<1> QED
  BY <1>5 DEF CreatedInv

LEMMA InitAccounts == Init => AccountsInv
<1> SUFFICES ASSUME Init PROVE AccountsInv
  OBVIOUS
<1>1. /\ ledger = 0 /\ pruned = 0 /\ writing = FALSE /\ messages = {}
      /\ treasury = [unspent |-> {FirstTreasury}, spent |-> {}]
  BY DEF Init
<1>2. /\ unspent = DOMAIN Genesis /\ DOMAIN outputs = DOMAIN Genesis
      /\ \A o \in DOMAIN Genesis :
           outputs[o] = [message |-> NoMessage, type |-> Genesis[o].type,
                         address |-> Genesis[o].address, amount |-> Genesis[o].amount]
      /\ opening = [o \in DOMAIN Genesis |-> Genesis[o]]
      /\ balances = Rows([a \in Addresses |-> Sums(Owned(DOMAIN Genesis, Genesis, a), Genesis)])
  BY DEF Init
<1>3. IsFiniteSet(DOMAIN Genesis) /\ \A o \in DOMAIN Genesis : Genesis[o] \in Payment
  BY UniverseAssumption
<1>4. /\ \A o \in DOMAIN Genesis : Genesis[o].address \in Addresses
      /\ \A o \in DOMAIN Genesis : Genesis[o].amount \in Nat
      /\ \A o \in DOMAIN Genesis : Genesis[o].type \in Types
  BY <1>3 DEF Payment
<1>5. KindsInv
  <2>1. IsFiniteSet(DOMAIN outputs) /\ IsFiniteSet(messages)
    BY <1>1, <1>2, <1>3, FS_EmptySet
  <2>2. treasury \in [unspent : SUBSET (0..MaxIndex), spent : SUBSET (0..MaxIndex)]
    BY <1>1, UniverseAssumption DEF FirstTreasury
  <2>3. \A o \in DOMAIN outputs : outputs[o] \in OutputRows
    BY <1>2, <1>4 DEF OutputRows
  <2> QED
    BY <2>1, <2>2, <2>3 DEF KindsInv
<1>6. BalancesInv
  <2> DEFINE row == [a \in Addresses |-> Sums(Owned(DOMAIN Genesis, Genesis, a), Genesis)]
  <2>1. balances = [a \in {b \in Addresses : row[b] # NoBalance} |-> row[a]]
    BY <1>2 DEF Rows
  <2>2. \A a \in Addresses : row[a] = Sums(Owned(DOMAIN Genesis, Genesis, a), Genesis)
    OBVIOUS
  <2> HIDE DEF row
  <2>3. \A a \in Addresses : readBalanceForAddress(a) = row[a]
    BY <2>1 DEF readBalanceForAddress
  <2>4. ASSUME NEW a \in Addresses
        PROVE  Sums(Owned(DOMAIN Genesis, Genesis, a), Genesis)
                 = Sums(Owned(unspent, outputs, a), outputs)
    <3>1. PICK S : S = Owned(unspent, outputs, a)
      OBVIOUS
    <3>2. S = Owned(DOMAIN Genesis, Genesis, a) /\ S \subseteq DOMAIN Genesis
      BY <1>2, <3>1 DEF Owned
    <3>3. IsFiniteSet(S)
      BY <1>3, <3>2, FS_Subset
    <3>4. \A o \in S : Genesis[o].amount = outputs[o].amount /\ Genesis[o].type = outputs[o].type
      BY <1>2, <3>2
    <3> QED
      BY <3>1, <3>2, <3>3, <3>4, SumsSame
  <2>5. \A a \in Addresses : readBalanceForAddress(a) = Sums(Owned(unspent, outputs, a), outputs)
    BY <2>2, <2>3, <2>4, Zenon
  <2>6. DOMAIN balances \subseteq Addresses
    BY <2>1
  <2> QED
    BY <2>5, <2>6 DEF BalancesInv
<1>7. CreatedInv
  <2>1. Reached = 0
    BY <1>1 DEF Reached
  <2>2. Stored = {}
    BY <1>1, <2>1 DEF Stored
  <2> QED
    BY <2>2 DEF CreatedInv
<1>8. OpeningInv
  BY <1>2 DEF OpeningInv
<1> QED
  BY <1>5, <1>6, <1>7, <1>8 DEF AccountsInv

LEMMA AttachAccounts ==
    ASSUME TablesInv, AccountsInv, NEW m \in TxMessages, Attach(m) PROVE AccountsInv'
<1>1. /\ m \notin messages /\ messages' = messages \cup {m}
      /\ metadata' = Put(metadata, m, Meta(0, "transaction", "none"))
      /\ UNCHANGED <<ledger, pruned, writing, outputs, unspent, spents, balances, diffs,
                     treasury, milestones, seen, made, opening>>
  BY DEF Attach
<1>2. \A n \in DOMAIN metadata \ {m} : metadata'[n] = metadata[n]
  BY <1>1 DEF Put
<1>3. \A n \in TxMessages : Included(n) => Included(n)' /\ metadata'[n] = metadata[n]
  BY <1>1, <1>2 DEF TablesInv, MessagesInv, Included
<1>4. Stored' = Stored
  BY <1>1 DEF Stored, Reached
<1>5. KindsInv'
  <2>1. IsFiniteSet(messages')
    BY <1>1, FS_AddElement DEF AccountsInv, KindsInv
  <2> QED
    BY <1>1, <2>1 DEF AccountsInv, KindsInv
<1>6. BalancesInv'
  BY <1>1 DEF AccountsInv, BalancesInv, readBalanceForAddress
<1>7. CreatedInv'
  <2>1. \A o, i : MadeBy(o, i) => MadeBy(o, i)'
    BY <1>1, <1>3 DEF MadeBy
  <2> QED
    BY <1>1, <1>4, <2>1 DEF AccountsInv, CreatedInv
<1>8. OpeningInv'
  BY <1>1 DEF AccountsInv, OpeningInv
<1> QED
  BY <1>5, <1>6, <1>7, <1>8 DEF AccountsInv

(* A transaction that conflicts changes nothing but its metadata and the   *)
(* diff of the milestone. *)
LEMMA ConflictAccounts ==
    ASSUME TablesInv, AccountsInv, NEW m \in TxMessages, Reference(m),
           NEW c \in Conflicts, c # "none",
           metadata' = Put(metadata, m, Meta(ledger + 1, "transaction", c)),
           diffs' = Put(diffs, ledger + 1, CurrentDiff),
           UNCHANGED <<outputs, unspent, spents, balances, made>>
    PROVE  AccountsInv'
<1>1. /\ ledger < MaxIndex
      /\ ledger' = ledger /\ treasury' = treasury /\ opening' = opening /\ messages' = messages
      /\ Stored' = Stored \cup {ledger + 1}
      /\ \A n \in TxMessages \ {m} :
           (Included(n)' <=> Included(n)) /\ (Included(n) => metadata'[n] = metadata[n])
      /\ ~Included(m)
  BY ReferenceFrame
<1>2. KindsInv' /\ OpeningInv'
  BY <1>1 DEF AccountsInv, KindsInv, OpeningInv
<1>3. BalancesInv'
  BY DEF AccountsInv, BalancesInv, readBalanceForAddress
<1>4. CreatedInv'
  <2>1. PICK N : N = ledger + 1
    OBVIOUS
  <2>2. /\ diffs' = Put(diffs, N, CurrentDiff) /\ Stored' = Stored \cup {N}
        /\ ledger' \in {ledger, N} /\ ledger' # N
    BY <1>1, <2>1, Current
  <2>3. \A n \in TxMessages : Included(n) => Included(n)' /\ metadata'[n] = metadata[n]
    BY <1>1
  <2>4. PICK row, fresh : row = CurrentDiff /\ fresh = {}
    OBVIOUS
  <2>5. diffs' = Put(diffs, N, row) /\ row.created = CurrentDiff.created \cup fresh
    BY <2>2, <2>4
  <2>6. \A o \in fresh : MadeBy(o, N)' /\ o \notin DOMAIN opening
    BY <2>4
  <2>7. ledger' = N =>
          \A o \in DOMAIN Migrated(N) : o \in fresh /\ outputs'[o] = Migrated(N)[o]
    BY <2>2
  <2>8. \A o \in DOMAIN outputs : outputs'[o] = outputs[o]
    OBVIOUS
  <2> QED
    BY <1>1, <2>1, <2>2, <2>3, <2>5, <2>6, <2>7, <2>8, CreatedAfter
<1> QED
  BY <1>2, <1>3, <1>4 DEF AccountsInv

(* Outputs that are added have a kind, too. *)
LEMMA ApplyKinds ==
    ASSUME TablesInv, AccountsInv, NEW consumed, NEW created, NEW by,
           Apply(consumed, created, by), consumed \subseteq unspent, DOMAIN created \cap made = {},
           IsFiniteSet(DOMAIN created), \A o \in DOMAIN created : created[o] \in OutputRows
    PROVE  /\ IsFiniteSet(DOMAIN outputs')
           /\ \A o \in DOMAIN outputs' : outputs'[o] \in OutputRows
           /\ opening' = opening => OpeningInv'
<1>1. /\ DOMAIN outputs' = DOMAIN outputs \cup DOMAIN created
      /\ \A o \in DOMAIN outputs : outputs'[o] = outputs[o]
      /\ \A o \in DOMAIN created : outputs'[o] = created[o]
  BY ApplyRows
<1>2. IsFiniteSet(DOMAIN outputs')
  <2>1. PICK A, B : A = DOMAIN outputs /\ B = DOMAIN created
    OBVIOUS
  <2>2. IsFiniteSet(A) /\ IsFiniteSet(B)
    BY <2>1 DEF AccountsInv, KindsInv
  <2>3. IsFiniteSet(A \cup B)
    BY <2>2, FS_Union
  <2> QED
    BY <1>1, <2>1, <2>3, Zenon
<1>3. \A o \in DOMAIN outputs' : outputs'[o] \in OutputRows
  BY <1>1 DEF AccountsInv, KindsInv
<1>4. DOMAIN opening \subseteq DOMAIN outputs
  BY DEF TablesInv, OutputsInv
<1>5. opening' = opening => OpeningInv'
  BY <1>1, <1>4 DEF AccountsInv, OpeningInv
<1> QED
  BY <1>2, <1>3, <1>5

LEMMA AppliedAccounts ==
    ASSUME TablesInv, AccountsInv, NEW m \in TxMessages, Reference(m),
           metadata' = Put(metadata, m, Meta(ledger + 1, "transaction", "none")),
           Range_(Tx[m].inputs) \subseteq unspent,
           Apply(Range_(Tx[m].inputs), NewOutputs(m), Tx[m].tx),
           diffs' = Put(diffs, ledger + 1,
                        [CurrentDiff EXCEPT !.created = @ \cup DOMAIN NewOutputs(m),
                                            !.consumed = @ \cup Range_(Tx[m].inputs)])
    PROVE  AccountsInv'
<1> DEFINE in == Range_(Tx[m].inputs)
           new == NewOutputs(m)
           row == [CurrentDiff EXCEPT !.created = @ \cup DOMAIN new, !.consumed = @ \cup in]
<1>1. /\ ledger < MaxIndex
      /\ ledger' = ledger /\ treasury' = treasury /\ opening' = opening /\ messages' = messages
      /\ Stored' = Stored \cup {ledger + 1}
      /\ \A n \in TxMessages \ {m} :
           (Included(n)' <=> Included(n)) /\ (Included(n) => metadata'[n] = metadata[n])
      /\ ~Included(m) /\ Included(m)' /\ metadata'[m].index = ledger + 1
  BY ReferenceFrame DEF Conflicts
<1>2. row.created = CurrentDiff.created \cup DOMAIN new
  <2>1. DOMAIN CurrentDiff = {"created", "consumed", "treasury"}
    BY <1>1, CurrentRow
  <2> QED
    BY <2>1
<1>3. DOMAIN new \cap made = {}
  <2>1. PICK o : o \in in
    BY TransactionOutputs
  <2> QED
    BY <2>1 DEF TablesInv, MadeInv
<1>4. IsFiniteSet(DOMAIN new) /\ \A o \in DOMAIN new : new[o] \in OutputRows
  BY NewKinds
<1> HIDE DEF in, row
<1>5. diffs' = Put(diffs, ledger + 1, row) /\ Apply(in, new, Tx[m].tx) /\ in \subseteq unspent
  BY DEF in, row
<1>6. \A o \in DOMAIN new : \A N : N = ledger + 1 => MadeBy(o, N)'
  BY <1>1 DEF MadeBy
<1> HIDE DEF new
<1>7. BalancesInv'
  BY <1>3, <1>4, <1>5, ApplyBalances
<1>8. /\ IsFiniteSet(DOMAIN outputs')
      /\ \A o \in DOMAIN outputs' : outputs'[o] \in OutputRows
      /\ OpeningInv'
  BY <1>1, <1>3, <1>4, <1>5, ApplyKinds
<1>9. KindsInv'
  BY <1>1, <1>8 DEF AccountsInv, KindsInv
<1>10. CreatedInv'
  <2>1. PICK N : N = ledger + 1
    OBVIOUS
  <2>2. /\ diffs' = Put(diffs, N, row) /\ Stored' = Stored \cup {N}
        /\ ledger' \in {ledger, N} /\ ledger' # N
    BY <1>1, <1>5, <2>1, Current
  <2>3. \A n \in TxMessages : Included(n) => Included(n)' /\ metadata'[n] = metadata[n]
    BY <1>1
  <2>4. \A o \in DOMAIN outputs : outputs'[o] = outputs[o]
    BY <1>3, <1>5, ApplyRows
  <2>5. \A o \in DOMAIN new : MadeBy(o, N)' /\ o \notin DOMAIN opening
    BY <1>3, <1>6, <2>1 DEF TablesInv, OutputsInv, MadeInv
  <2> QED
    BY <1>1, <1>2, <2>1, <2>2, <2>3, <2>4, <2>5, CreatedAfter
<1> QED
  BY <1>7, <1>8, <1>9, <1>10 DEF AccountsInv

LEMMA ReferenceAccounts ==
    ASSUME TablesInv, AccountsInv, NEW m \in TxMessages, Reference(m) PROVE AccountsInv'
<1> DEFINE in == Range_(Tx[m].inputs)
           new == NewOutputs(m)
<1>1. PICK c \in Conflicts : c = Conflict(in, new) /\ (c = "none" => in \subseteq unspent)
  BY ConflictKinds
<1>2. metadata' = Put(metadata, m, Meta(ledger + 1, "transaction", c))
  BY <1>1 DEF Reference
<1>3. CASE c = "none"
  <2>1. /\ Apply(in, new, Tx[m].tx)
        /\ diffs' = Put(diffs, ledger + 1,
                        [CurrentDiff EXCEPT !.created = @ \cup DOMAIN NewOutputs(m),
                                            !.consumed = @ \cup Range_(Tx[m].inputs)])
    BY <1>1, <1>3 DEF Reference
  <2> QED
    BY <1>1, <1>2, <1>3, <2>1, AppliedAccounts
<1>4. CASE c # "none"
  <2>1. /\ diffs' = Put(diffs, ledger + 1, CurrentDiff)
        /\ UNCHANGED <<outputs, unspent, spents, balances, made>>
    BY <1>1, <1>4 DEF Reference
  <2> QED
    BY <1>2, <1>4, <2>1, ConflictAccounts
<1> QED
  BY <1>3, <1>4

LEMMA ConfirmAccounts == ASSUME TablesInv, AccountsInv, Confirm PROVE AccountsInv'
<1>1. PICK i : i = ledger + 1
  OBVIOUS
<1>2. PICK t \in 0..ledger : treasury.unspent = {t}
  BY DEF TablesInv, TreasuryInv
<1>3. (CHOOSE u \in treasury.unspent : TRUE) = t
  BY <1>2
<1> DEFINE new == Migrated(i)
           fresh == DOMAIN Migrated(ledger + 1)
           paid == IF Receipts[ledger + 1] = <<>> THEN <<>>
                   ELSE <<ledger + 1, CHOOSE u \in treasury.unspent : TRUE>>
           row == [CurrentDiff EXCEPT !.created = @ \cup fresh, !.treasury = paid]
<1>4. diffs' = Put(diffs, i, row)
  <2>1. diffs' = Put(diffs, ledger + 1, row)
    BY Zenon DEF Confirm
  <2> HIDE DEF row
  <2> QED
    BY <1>1, <2>1
<1>5. /\ ledger < MaxIndex /\ i \in 1..MaxIndex
      /\ ledger' = i /\ opening' = opening
      /\ messages' = messages \cup {MilestoneMessage(i)}
      /\ Stored' = Stored \cup {ledger + 1}
      /\ \A n \in TxMessages :
           (Included(n)' <=> Included(n)) /\ (Included(n) => metadata'[n] = metadata[n])
  BY <1>1, ConfirmFrame
<1>6. row.created = CurrentDiff.created \cup DOMAIN new
  <2>1. DOMAIN CurrentDiff = {"created", "consumed", "treasury"}
    BY <1>5, CurrentRow
  <2> QED
    BY <1>1, <2>1
<1> HIDE DEF row
<1>7. Apply({}, new, MilestoneMessage(i)) /\ DOMAIN new \cap made = {}
  <2>1. Apply({}, new, MilestoneMessage(i))
    BY <1>1 DEF Confirm
  <2>2. i \in ledger + 1..MaxIndex
    BY <1>1, <1>5, Current
  <2> QED
    BY <2>1, <2>2 DEF TablesInv, MadeInv
<1>8. IsFiniteSet(DOMAIN new) /\ \A o \in DOMAIN new : new[o] \in OutputRows
  BY <1>5, MigratedKinds
<1>9. \A o \in DOMAIN new : MadeBy(o, i)'
  <2>1. i <= ledger'
    BY <1>5
  <2> QED
    BY <2>1 DEF MadeBy
<1>10. treasury' \in [unspent : SUBSET (0..MaxIndex), spent : SUBSET (0..MaxIndex)]
  <2>1. treasury' = treasury \/ treasury' = [unspent |-> {i}, spent |-> treasury.spent \cup {t}]
    BY <1>1, <1>3 DEF Confirm
  <2>2. treasury \in [unspent : SUBSET (0..MaxIndex), spent : SUBSET (0..MaxIndex)]
    BY DEF AccountsInv, KindsInv
  <2>3. {i} \subseteq 0..MaxIndex /\ treasury.spent \cup {t} \subseteq 0..MaxIndex
    BY <1>2, <1>5, <2>2
  <2> QED
    BY <2>1, <2>2, <2>3
<1>11. \A o \in DOMAIN new : new[o] = Migrated(i)[o] /\ o \in DOMAIN Migrated(i)
  OBVIOUS
<1>12. DOMAIN Migrated(i) = DOMAIN new
  OBVIOUS
<1> HIDE DEF new
<1>13. PICK none : none = {} /\ none \subseteq unspent /\ Apply(none, new, MilestoneMessage(i))
  BY <1>7
<1>14. BalancesInv'
  BY <1>7, <1>8, <1>13, ApplyBalances
<1>15. /\ IsFiniteSet(DOMAIN outputs')
       /\ \A o \in DOMAIN outputs' : outputs'[o] \in OutputRows
       /\ OpeningInv'
  BY <1>5, <1>7, <1>8, <1>13, ApplyKinds
<1>16. KindsInv'
  <2>1. IsFiniteSet(messages')
    BY <1>5, FS_AddElement DEF AccountsInv, KindsInv
  <2> QED
    BY <1>10, <1>15, <2>1 DEF KindsInv
<1>17. /\ \A o \in DOMAIN outputs : outputs'[o] = outputs[o]
       /\ \A o \in DOMAIN new : outputs'[o] = new[o]
  BY <1>7, <1>13, ApplyRows
<1>18. CreatedInv'
  <2>1. Stored' = Stored \cup {i} /\ ledger' \in {ledger, i}
    BY <1>1, <1>5
  <2>2. \A n \in TxMessages : Included(n) => Included(n)' /\ metadata'[n] = metadata[n]
    BY <1>5
  <2>3. \A o \in DOMAIN new : MadeBy(o, i)' /\ o \notin DOMAIN opening
    BY <1>7, <1>9 DEF TablesInv, OutputsInv, MadeInv
  <2>4. \A o \in DOMAIN Migrated(i) : o \in DOMAIN new /\ outputs'[o] = Migrated(i)[o]
    BY <1>11, <1>12, <1>17
  <2> QED
    BY <1>1, <1>4, <1>5, <1>6, <1>17, <2>1, <2>2, <2>3, <2>4, CreatedAfter
<1> QED
  BY <1>14, <1>15, <1>16, <1>18 DEF AccountsInv

(* Two stored milestones do not make the same output. *)
LEMMA MadeOnce ==
    ASSUME TablesInv, NEW o, NEW i \in Stored, NEW k \in Stored, MadeBy(o, i), MadeBy(o, k)
    PROVE  i = k
<1>1. /\ \A j \in Stored : j <= ledger => j \in 1..MaxIndex
      /\ ledger \in Nat
  <2>1. Stored \subseteq 1..ledger + 1 /\ ledger \in Nat /\ ledger <= MaxIndex /\ MaxIndex \in Nat
    BY UniverseAssumption DEF TablesInv, MilestonesInv, Stored, Reached
  <2> QED
    BY <2>1
<1>2. ASSUME NEW m \in TxMessages, Included(m), o \in DOMAIN NewOutputs(m),
             NEW n \in TxMessages, Included(n), o \in DOMAIN NewOutputs(n)
      PROVE  metadata[m].index = metadata[n].index
  <2>1. Tx[m] = Tx[n]
    BY <1>2, OutputNames
  <2>2. PICK p : p \in Range_(Tx[m].inputs)
    BY TransactionOutputs
  <2>3. SpentBy(p, m) /\ SpentBy(p, n)
    BY <1>2, <2>1, <2>2 DEF TablesInv, SpendingInv
  <2> QED
    BY <2>3 DEF SpentBy
<1>3. \A m \in TxMessages : \A j \in 1..MaxIndex :
        ~(o \in DOMAIN NewOutputs(m) /\ o \in DOMAIN Migrated(j))
  BY OutputNames
<1>4. \A j, l \in 1..MaxIndex : o \in DOMAIN Migrated(j) /\ o \in DOMAIN Migrated(l) => j = l
  BY OutputNames
<1> QED
  BY <1>1, <1>2, <1>3, <1>4 DEF MadeBy

LEMMA PruneAccounts == ASSUME TablesInv, AccountsInv, Prune PROVE AccountsInv'
<1>1. PICK i : i = pruned + 1
  OBVIOUS
<1>2. /\ i \in Stored /\ ledger' = ledger /\ Stored' = Stored \ {i} /\ unspent' = unspent
      /\ DOMAIN opening' = (DOMAIN opening \cup diffs[i].created) \ diffs[i].consumed
  BY <1>1, PruneFrame
<1>3. /\ messages' \subseteq messages
      /\ \A m \in TxMessages :
           /\ Included(m)' <=> Included(m) /\ metadata[m].index # i
           /\ Included(m)' => metadata'[m] = metadata[m]
  BY <1>1, PruneMessages
<1>4. /\ OutputsInv'
      /\ DOMAIN outputs' \subseteq DOMAIN outputs
      /\ \A o \in DOMAIN outputs' : outputs'[o] = outputs[o]
      /\ DOMAIN diffs' = DOMAIN diffs \ {i}
      /\ \A k \in DOMAIN diffs' : diffs'[k] = diffs[k]
  BY <1>1, PruneOutputs
<1>5. KindsInv'
  <2>1. IsFiniteSet(DOMAIN outputs') /\ IsFiniteSet(messages')
    BY <1>3, <1>4, FS_Subset DEF AccountsInv, KindsInv
  <2>2. treasury' \in [unspent : SUBSET (0..MaxIndex), spent : SUBSET (0..MaxIndex)]
    BY DEF Prune, AccountsInv, KindsInv
  <2> QED
    BY <1>4, <2>1, <2>2 DEF AccountsInv, KindsInv
<1>6. BalancesInv'
  <2>1. balances' = balances
    BY DEF Prune
  <2>2. \A o \in unspent : outputs'[o] = outputs[o] /\ o \in DOMAIN outputs
    BY <1>2, <1>4 DEF TablesInv, OutputsInv
  <2>3. ASSUME NEW a \in Addresses
        PROVE  Sums(Owned(unspent', outputs', a), outputs') = Sums(Owned(unspent, outputs, a), outputs)
    <3>1. PICK S : S = Owned(unspent, outputs, a)
      OBVIOUS
    <3>2. S = Owned(unspent', outputs', a) /\ S \subseteq unspent
      BY <1>2, <2>2, <3>1 DEF Owned
    <3>3. IsFiniteSet(S)
      BY <2>2, <3>2, FS_Subset DEF AccountsInv, KindsInv
    <3>4. \A o \in S : outputs'[o].amount = outputs[o].amount /\ outputs'[o].type = outputs[o].type
      BY <2>2, <3>2
    <3>5. Sums(S, outputs') = Sums(S, outputs)
      BY <3>3, <3>4, SumsSame
    <3> QED
      BY <3>1, <3>2, <3>5, Zenon
  <2> QED
    BY <2>1, <2>3 DEF AccountsInv, BalancesInv, readBalanceForAddress
<1>7. CreatedInv'
  <2> SUFFICES ASSUME NEW k \in Stored'
               PROVE  /\ \A o \in diffs'[k].created : MadeBy(o, k)' /\ o \notin DOMAIN opening'
                      /\ k <= ledger' => \A o \in DOMAIN Migrated(k) :
                            o \in diffs'[k].created /\ outputs'[o] = Migrated(k)[o]
    BY DEF CreatedInv
  <2>1. k \in Stored /\ k # i /\ diffs'[k] = diffs[k]
    BY <1>2, <1>4 DEF TablesInv, OutputsInv
  <2>2. diffs[k].created \subseteq DOMAIN outputs'
    BY <1>4, <2>1 DEF OutputsInv
  <2>3. /\ \A o \in diffs[k].created : MadeBy(o, k) /\ o \notin DOMAIN opening
        /\ \A o \in diffs[i].created : MadeBy(o, i)
        /\ k <= ledger => \A o \in DOMAIN Migrated(k) :
              o \in diffs[k].created /\ outputs[o] = Migrated(k)[o]
    BY <1>2, <2>1 DEF AccountsInv, CreatedInv
  <2>4. \A o \in diffs[k].created : o \notin diffs[i].created
    BY <1>2, <2>1, <2>3, MadeOnce
  <2>5. \A o \in diffs[k].created : MadeBy(o, k)'
    BY <1>2, <1>3, <2>1, <2>3 DEF MadeBy
  <2> QED
    BY <1>2, <1>4, <2>1, <2>2, <2>3, <2>4, <2>5
<1>8. OpeningInv'
  <2> DEFINE fresh == diffs[pruned + 1].created
             spent == diffs[pruned + 1].consumed
  <2>1. opening' = [o \in (DOMAIN opening \cup fresh) \ spent |->
                      IF o \in fresh
                      THEN [address |-> outputs[o].address, amount |-> outputs[o].amount,
                            type |-> outputs[o].type]
                      ELSE opening[o]]
    BY DEF Prune
  <2> HIDE DEF fresh, spent
  <2>2. ASSUME NEW o \in DOMAIN opening'
        PROVE  opening'[o].address = outputs[o].address /\ opening'[o].amount = outputs[o].amount
    BY <2>1 DEF AccountsInv, OpeningInv
  <2>3. \A o \in DOMAIN opening' : outputs'[o] = outputs[o]
    BY <1>4 DEF OutputsInv
  <2> QED
    BY <2>2, <2>3 DEF OpeningInv
<1> QED
  BY <1>5, <1>6, <1>7, <1>8 DEF AccountsInv

(* Balances, created outputs and what was there at the pruning index are   *)
(* in step with the outputs, whatever is applied and pruned. *)
THEOREM Accounts == Spec => []AccountsInv
<1>1. Init => AccountsInv
  BY InitAccounts
<1>2. TablesInv /\ AccountsInv /\ [Next]_vars => AccountsInv'
  <2> SUFFICES ASSUME TablesInv, AccountsInv, [Next]_vars PROVE AccountsInv'
    OBVIOUS
  <2>1. ASSUME NEW m \in TxMessages, Attach(m) PROVE AccountsInv'
    BY <2>1, AttachAccounts
  <2>2. ASSUME NEW m \in TxMessages, Reference(m) PROVE AccountsInv'
    BY <2>2, ReferenceAccounts
  <2>3. CASE Confirm
    BY <2>3, ConfirmAccounts
  <2>4. CASE Prune
    BY <2>4, PruneAccounts
  <2>5. CASE UNCHANGED vars
    <3>1. /\ UNCHANGED <<ledger, pruned, writing, outputs, unspent, balances, diffs, treasury>>
          /\ UNCHANGED <<messages, metadata, opening>>
      BY <2>5 DEF vars
    <3>2. Stored' = Stored
      BY <3>1 DEF Stored, Reached
    <3>3. KindsInv' /\ BalancesInv' /\ OpeningInv'
      BY <3>1 DEF AccountsInv, KindsInv, BalancesInv, OpeningInv, readBalanceForAddress
    <3>4. CreatedInv'
      BY <3>1, <3>2 DEF AccountsInv, CreatedInv, MadeBy, Included
    <3> QED
      BY <3>3, <3>4 DEF AccountsInv
  <2> QED
    BY <2>1, <2>2, <2>3, <2>4, <2>5 DEF Next
<1> QED
  BY <1>1, <1>2, Tables, PTL DEF Spec

-----------------------------------------------------------------------------
LEMMA StoredBound == ASSUME TablesInv PROVE Stored \subseteq 1..MaxIndex
<1>1. /\ ledger \in 0..MaxIndex /\ pruned \in 0..ledger
      /\ writing => ledger < MaxIndex
      /\ MaxIndex \in Nat
  BY UniverseAssumption DEF TablesInv, MilestonesInv
<1> QED
  BY <1>1 DEF Stored, Reached

(* What an address owns of the unspent outputs is summed up in numbers. *)
LEMMA OwnSums ==
    ASSUME TablesInv, AccountsInv, NEW a
    PROVE  Sums(Owned(unspent, outputs, a), outputs) \in [amount : Nat, allowance : Nat, dust : Nat]
<1> PICK S : S = Owned(unspent, outputs, a)
  OBVIOUS
<1>1. S \subseteq DOMAIN outputs
  BY DEF Owned, TablesInv, OutputsInv
<1>2. IsFiniteSet(S)
  BY <1>1, FS_Subset DEF AccountsInv, KindsInv
<1>3. \A o \in S : outputs[o].amount \in Nat
  BY <1>1 DEF AccountsInv, KindsInv, OutputRows
<1> QED
  BY <1>2, <1>3, SumsNat
=============================================================================
