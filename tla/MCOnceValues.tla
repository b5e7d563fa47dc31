---------------------------- MODULE MCOnceValues ----------------------------
(* Two ledger indexes, so that the milestone of the ledger index may be    *)
(* missing while another one is there; three handlers, so that one reads   *)
(* a value while two wait for it on different ways.                        *)
EXTENDS OnceValues

CONSTANTS r1, r2, r3
=============================================================================
