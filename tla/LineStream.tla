----------------------------- MODULE LineStream -----------------------------
(***************************************************************************)
(* What a reader of standard input may rely on: characters are edited in   *)
(* one line, Enter adds the line to a stream of bytes, and a read takes a  *)
(* piece off its front that never goes beyond the end of a line.  A line   *)
(* is lost only when the stream already holds MaxLines lines.              *)
(***************************************************************************)
EXTENDS Integers, Sequences, FiniteSets

CONSTANTS Chars, NL, MaxEdit, MaxLines

VARIABLES
  edit,     \* the line being edited
  stream,   \* bytes of complete lines nobody has read yet
  got       \* bytes handed to the read in progress

vars == <<edit, stream, got>>

Init ==
  /\ edit = <<>>
  /\ stream = <<>>
  /\ got = <<>>

\* Positions of the line ends in the stream.
LineEnds == {i \in 1 .. Len(stream) : stream[i] = NL}

Key(c) ==
  /\ Len(edit) < MaxEdit
  /\ edit' = Append(edit, c)
  /\ UNCHANGED <<stream, got>>

Erase ==
  /\ edit # <<>>
  /\ edit' = SubSeq(edit, 1, Len(edit) - 1)
  /\ UNCHANGED <<stream, got>>

Enter ==
  /\ edit' = <<>>
  /\ stream' = IF Cardinality(LineEnds) < MaxLines
               THEN stream \o Append(edit, NL) ELSE stream
  /\ UNCHANGED got

\* A read takes n bytes, at most up to the first line end.
Take(n) ==
  /\ got = <<>>
  /\ \A i \in LineEnds : i >= n
  /\ got' = SubSeq(stream, 1, n)
  /\ stream' = SubSeq(stream, n + 1, Len(stream))
  /\ UNCHANGED edit

\* The reader has what it got.
Done ==
  /\ got' = <<>>
  /\ UNCHANGED <<edit, stream>>

Next ==
  \/ \E c \in Chars : Key(c)
  \/ Erase \/ Enter \/ Done
  \/ \E n \in 1 .. Len(stream) : Take(n)

Spec == Init /\ [][Next]_vars

=============================================================================
