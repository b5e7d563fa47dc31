---------------------------- MODULE MCTxHistory ----------------------------
(* Two items of one milestone and one of an earlier one for the first         *)
(* address, one item for the second; the cache has room for one of them.   *)
EXTENDS TxHistoryInvariant, TLC

CONSTANTS a1, a2, r1, r2

Item(n, ms, c) == [id |-> n, milestone |-> ms, conflicting |-> c]
MCItems == {Item(1, 8, FALSE), Item(2, 8, FALSE), Item(3, 7, TRUE), Item(4, 9, FALSE)}
MCHistoryOf ==
    (a1 :> {x \in MCItems : x.id < 4}) @@ (a2 :> {x \in MCItems : x.id = 4})
=============================================================================
