------------------------------- MODULE MCBoot -------------------------------
(* Model-checking instance of Boot. *)
EXTENDS Boot

\* A usable region anywhere, and a second one right behind it of either kind
\* that reaches beyond the bitmap.
MCMemoryMaps ==
  {<<[usable |-> TRUE, start |-> s, end |-> m],
     [usable |-> u, start |-> m, end |-> NumFrames + 1]>> :
     s \in {0, 2}, m \in {4, 6, 7}, u \in BOOLEAN}

MCVideo == {3}

=============================================================================
