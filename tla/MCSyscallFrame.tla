--------------------------- MODULE MCSyscallFrame ---------------------------
(* Model-checking instance of SyscallFrame. *)
EXTENDS SyscallFrame, TLC

\* Tasks other than the first, and the generations of register contents, are
\* never told apart.
Symmetry == Permutations(Tasks \ {Init0}) \cup Permutations(Gens)

=============================================================================
