-------------------------------- MODULE Tty ---------------------------------
(***************************************************************************)
(* The line discipline of src/tty.rs: scancodes become characters, Enter   *)
(* completes a line, read hands out complete lines piece by piece.         *)
(*                                                                         *)
(* Scancodes are classes of codes.  A key with a character has two of      *)
(* them, the plain and the shifted one; which of the many is left out.     *)
(***************************************************************************)
EXTENDS Integers, Sequences

CONSTANTS
  LineBuf,         \* LINE_BUF, 1024 in the code
  MaxReadyLines    \* MAX_READY_LINES, 128 in the code

ASSUME TtyAssumption == LineBuf \in Nat \ {0} /\ MaxReadyLines \in Nat \ {0}

\* Make codes: a key with a character, Enter, Backspace, a key without a
\* character (F1, Ctrl, ...), the two shift keys.  A break code has bit 7 set.
\* E0 announces the code of an extended key.
Shifts == {"lshift", "rshift"}

Makes == {"char", "enter", "bksp", "fkey"} \cup Shifts

Breaks == {"lshift up", "rshift up", "other up"}

Scancodes == Makes \cup Breaks \cup {"e0"}

Plain == "c"

Shifted == "C"

NL == "NL"

BS == "BS"

NoChar == "none"

Chars == {Plain, Shifted}

\* scancode_to_char, up to the choice of the character.
ScancodeToChar(code) ==
  CASE code = "char"  -> Plain
    [] code = "enter" -> NL
    [] code = "bksp"  -> BS
    [] OTHER          -> NoChar

\* shifted_char: another character for keys that have one, and otherwise what
\* to_ascii_uppercase makes of the plain one: control characters stay.
ShiftedChar(code) ==
  IF code = "char" THEN Shifted ELSE ScancodeToChar(code)

-----------------------------------------------------------------------------

NewTty == [shiftLeft  |-> FALSE, shiftRight |-> FALSE, e0Prefix |-> FALSE,
           lineEdit   |-> <<>>,  readyLines |-> <<>>]

\* Mutant: the test for a full queue is one line too late.
CompleteLineLate(t) ==
  [t EXCEPT !.lineEdit = <<>>,
            !.readyLines = IF Len(@) <= MaxReadyLines
                           THEN Append(@, Append(t.lineEdit, NL)) ELSE @]

\* Enter: the edited line becomes a ready line; a full queue drops it.
CompleteLine(t) ==
  [t EXCEPT !.lineEdit = <<>>,
            !.readyLines = IF Len(@) < MaxReadyLines
                           THEN Append(@, Append(t.lineEdit, NL)) ELSE @]

\* Backspace removes the last character, if there is one.
EraseChar(t) ==
  [t EXCEPT !.lineEdit = IF @ = <<>> THEN @ ELSE SubSeq(@, 1, Len(@) - 1)]

\* Any other character is appended while there is room.
AppendChar(t, c) ==
  [t EXCEPT !.lineEdit = IF Len(@) < LineBuf THEN Append(@, c) ELSE @]

FeedChar(t, c) ==
  CASE c = NoChar  -> t
    [] c = NL      -> CompleteLine(t)
    [] c = BS      -> EraseChar(t)
    [] c \in Chars -> AppendChar(t, c)

FeedKey(t, code) ==
  CASE code = "e0"        -> [t EXCEPT !.e0Prefix = TRUE]
    [] code = "lshift"    -> [t EXCEPT !.shiftLeft = TRUE]
    [] code = "rshift"    -> [t EXCEPT !.shiftRight = TRUE]
    [] code = "lshift up" -> [t EXCEPT !.shiftLeft = FALSE]
    [] code = "rshift up" -> [t EXCEPT !.shiftRight = FALSE]
    [] code = "other up"  -> t
    [] OTHER -> FeedChar(t, IF t.shiftLeft \/ t.shiftRight
                            THEN ShiftedChar(code) ELSE ScancodeToChar(code))

\* Mutant: the code after E0 is taken for an ordinary one.
FeedScancodeIgnoresPrefix(t, code) ==
  FeedKey([t EXCEPT !.e0Prefix = FALSE], code)

\* feed_scancode: the code after E0 is swallowed, be it a second E0.
FeedScancode(t, code) ==
  IF t.e0Prefix THEN [t EXCEPT !.e0Prefix = FALSE] ELSE FeedKey(t, code)

-----------------------------------------------------------------------------

\* tty::read of up to len bytes with a line ready: the bytes handed out.
ReadBytes(t, len) ==
  LET line == Head(t.readyLines)
  IN  SubSeq(line, 1, IF Len(line) < len THEN Len(line) ELSE len)

\* Mutant: what did not fit is put behind the other lines.
ReadRestToBack(t, len) ==
  LET line == Head(t.readyLines)
  IN  [t EXCEPT !.readyLines =
         IF Len(line) <= len THEN Tail(@)
         ELSE Append(Tail(@), SubSeq(line, len + 1, Len(line)))]

\* ... and the terminal afterwards: what did not fit is put back in front.
ReadRest(t, len) ==
  LET line == Head(t.readyLines)
  IN  [t EXCEPT !.readyLines =
         IF Len(line) <= len THEN Tail(@)
         ELSE <<SubSeq(line, len + 1, Len(line))>> \o Tail(@)]

=============================================================================
