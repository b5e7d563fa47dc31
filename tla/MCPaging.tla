------------------------------ MODULE MCPaging ------------------------------
(* Four rows a store at most; limits below, at and above that, and one at *)
(* and one above the range of the unsigned integer, which has 3 bits here. *)
(* The byte of the output type has 2 bits: 4 and -3 are cut to 0 and 1.    *)
EXTENDS Paging

MCTypeParams == {-3, 0, 1, 2, 4}
=============================================================================
