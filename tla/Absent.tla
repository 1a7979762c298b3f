------------------------------- MODULE Absent -------------------------------
(* The value that stands for SQL NULL and Python None in the service modules. *)
CONSTANT NONE
=============================================================================
