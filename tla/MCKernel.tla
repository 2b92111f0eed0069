------------------------------ MODULE MCKernel ------------------------------
(* Model-checking instance of Kernel: the bounds are in the .cfg files. *)
EXTENDS Kernel

=============================================================================
