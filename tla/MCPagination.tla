---------------------------- MODULE MCPagination ----------------------------
(* A small instance of Pagination.  The paths are strings, as a cursor may be *)
(* a path or one of the ends; there is one more of them than pages allowed.   *)
EXTENDS Pagination

MCRowLists == {<<>>, <<TRUE>>, <<FALSE, TRUE>>}
=============================================================================
