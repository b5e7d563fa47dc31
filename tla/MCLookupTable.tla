--------------------------- MODULE MCLookupTable ---------------------------
(* At the first ledger index an address is touched twice and               *)
(* an input has been pruned; at the second one the first conflicting       *)
(* message has been pruned itself and another one has come.  At each of    *)
(* the others there is something the rebuild has to refuse.                *)
EXTENDS LookupTableProperties

CONSTANTS a1, a2, m1, m2, m3, pruned, unsupported

In(a) == [side |-> "input", owner |-> a]
Out(a) == [side |-> "output", owner |-> a]
Plain(m) == [id |-> m, kind |-> "plain", payload |-> "other", parties |-> <<>>]
Conflict(m, ps) ==
    [id |-> m, kind |-> "conflicting", payload |-> "transaction", parties |-> ps]

Bad(k, p, ps) == [id |-> m2, kind |-> k, payload |-> p, parties |-> ps]
MCTangle ==
    << <<Conflict(m1, <<In(a1), In(pruned), Out(a2)>>), Plain(m2)>>,
       <<Conflict(m3, <<In(a2), Out(a2)>>)>> >>
MCAnyTangle ==
    MCTangle \o
    << <<Bad("conflicting", "undecodable", <<>>)>>,
       <<Bad("conflicting", "absent", <<>>)>>,
       <<Conflict(m1, <<Out(unsupported)>>)>> >>
=============================================================================
