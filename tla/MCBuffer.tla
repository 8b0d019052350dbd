------------------------------ MODULE MCBuffer ------------------------------
(* Buffer on a small instance. *)
EXTENDS Buffer

RowSizes == {1, 2}
=============================================================================
