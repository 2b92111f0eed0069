----------------------------- MODULE MCConsole ------------------------------
(* Model-checking instance of Console: the bounds are in the .cfg file. *)
EXTENDS Console

=============================================================================
