------------------------------ MODULE MCMasking ------------------------------
(* A small instance of Masking: the objects other than the meta are           *)
(* interchangeable, and so are the keys of a record that are no udf keys.     *)
EXTENDS Masking

Symmetry == Permutations(Objects \ {Meta}) \cup Permutations(OtherKeys)
=============================================================================
