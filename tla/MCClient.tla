------------------------------ MODULE MCClient ------------------------------
(***************************************************************************)
(* Small instances of Client: each method by itself, and a few of every    *)
(* kind (one value, a walk over pages, a write under the same and under    *)
(* another key) beside a write that shares limiter and token with them.    *)
(***************************************************************************)
EXTENDS Client

CONSTANTS c1, c2

SetUdf == <<"devices", "setUdf">>
Beside ==
    {<<"devices", "get">>, <<"account", "devices">>, SetUdf,
     <<"sites", "update">>}

MCMixes ==
    {[c \in {c1, c2} |-> IF c = c1 THEN name ELSE Unused] : name \in Names}
      \cup {[c \in {c1, c2} |-> IF c = c1 THEN name ELSE SetUdf] :
              name \in Beside}
=============================================================================
