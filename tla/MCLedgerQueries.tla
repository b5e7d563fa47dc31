-------------------------- MODULE MCLedgerQueries --------------------------
(* A transaction, the same one in a second message, a transaction that     *)
(* spends the same output, one that spends an output of the first and its  *)
(* own address again, one that turns a dust allowance of its address into  *)
(* funds and touches no other address, and two milestones that migrate     *)
(* funds.                                                                  *)
EXTENDS LedgerInvariant, TLC

CONSTANTS a1, a2, m1, m1again, m2, m3, m4

T(n) == <<"transaction", n>>
G == <<"snapshot", 0>>
To(a, n) == [address |-> a, amount |-> n, type |-> "single"]
Allow(a, n) == [address |-> a, amount |-> n, type |-> "allowance"]
(* a1 may hold one dust output (3 \div 2), a2 one by the limit of one.     *)
MCGenesis == (<<G, 0>> :> To(a1, 3)) @@ (<<G, 1>> :> To(a2, 1))
          @@ (<<G, 2>> :> Allow(a1, 3)) @@ (<<G, 3>> :> Allow(a2, 4))
Spend1 == [tx |-> T(1), inputs |-> <<<<G, 0>>>>, outputs |-> <<To(a2, 2), To(a1, 1)>>]
MCTx == (m1 :> Spend1) @@ (m1again :> Spend1)
     @@ (m2 :> [tx |-> T(2), inputs |-> <<<<G, 0>>, <<G, 1>>>>, outputs |-> <<To(a2, 4)>>])
     @@ (m3 :> [tx |-> T(3), inputs |-> <<<<T(1), 0>>, <<G, 1>>>>, outputs |-> <<To(a1, 3)>>])
     @@ (m4 :> [tx |-> T(4), inputs |-> <<<<G, 2>>>>, outputs |-> <<To(a1, 3)>>])
MCReceipts == << <<>>, <<To(a1, 2), To(a1, 3)>>, <<To(a2, 2)>>, <<>> >>
=============================================================================
