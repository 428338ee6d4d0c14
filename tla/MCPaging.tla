------------------------------ MODULE MCPaging ------------------------------
(***************************************************************************)
(* Pages of one and of two elements, at most three of them, over lists     *)
(* that end before, at and after a page's end.                             *)
(***************************************************************************)
EXTENDS Paging

MCLimits    == {0, 1, 3, 5}
MCPageSizes == {0, 1, 3}
MCLengths   == {0, 3, 4, 7}
=============================================================================
