--------------------------- MODULE MCAddressSpace ---------------------------
(* Model-checking instance of AddressSpace: the bounds are in the .cfg files. *)
EXTENDS AddressSpace

=============================================================================
