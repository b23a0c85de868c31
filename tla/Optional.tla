------------------------------ MODULE Optional ------------------------------
(* The value of an optional field that is absent: null or undefined in the   *)
(* code, NULL in a row.                                                      *)
CONSTANT None
=============================================================================
