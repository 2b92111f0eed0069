-------------------------------- MODULE Vga ---------------------------------
(***************************************************************************)
(* The text screen of src/vga.rs: a cursor and a grid of cells.  A full    *)
(* row is left only when the next character comes; below the last row the  *)
(* cursor returns to the first, without scrolling.                         *)
(***************************************************************************)
EXTENDS Integers, Sequences

CONSTANTS
  Cols,      \* 80 in the code
  Rows,      \* 25 in the code
  Glyphs,    \* bytes other than the newline
  MaxText    \* bound on the bytes printed

ASSUME VgaAssumption == Cols \in Nat \ {0} /\ Rows \in Nat \ {0} /\ MaxText \in Nat

Newline == "newline"
Blank   == "blank"

VARIABLES
  col, row,   \* VgaWriter::col, VgaWriter::row
  buffer,     \* VgaBuffer: a byte for each cell, row by row; colours left out
  text        \* history: everything printed

vgaVars == <<col, row, buffer, text>>

Cells == 0 .. (Rows * Cols - 1)

\* vga::init fills the screen with blanks.
VgaInit ==
  /\ col = 0 /\ row = 0
  /\ buffer = [i \in Cells |-> Blank]
  /\ text = <<>>

\* new_line
NextRow == IF row + 1 >= Rows THEN 0 ELSE row + 1

\* Mutant: the row is left one character too late.
WriteGlyphLate(byte) ==
  LET wrap == col > Cols
      r    == IF wrap THEN NextRow ELSE row
      c    == IF wrap THEN 0 ELSE col
  IN  /\ buffer' = [buffer EXCEPT ![(r * Cols + c) % (Rows * Cols)] = byte]
      /\ row' = r /\ col' = c + 1

\* write_byte of anything but a newline
WriteGlyph(byte) ==
  LET wrap == col >= Cols
      r    == IF wrap THEN NextRow ELSE row
      c    == IF wrap THEN 0 ELSE col
  IN  /\ buffer' = [buffer EXCEPT ![r * Cols + c] = byte]
      /\ row' = r /\ col' = c + 1

\* write_byte of a newline
WriteNewline == col' = 0 /\ row' = NextRow /\ UNCHANGED buffer

\* One byte of write_str.
WriteByte(byte) ==
  /\ Len(text) < MaxText
  /\ text' = Append(text, byte)
  /\ IF byte = Newline THEN WriteNewline ELSE WriteGlyph(byte)

VgaNext == \E byte \in Glyphs \cup {Newline} : WriteByte(byte)

VgaSpec == VgaInit /\ [][VgaNext]_vgaVars

-----------------------------------------------------------------------------

\* How many bytes were printed since the last newline.
SinceNewline ==
  CHOOSE n \in 0 .. Len(text) :
    /\ \A i \in (Len(text) - n + 1) .. Len(text) : text[i] # Newline
    /\ n = Len(text) \/ text[Len(text) - n] = Newline

\* The cursor stands where the text since the last newline, broken into rows of
\* Cols, ends (in the last column's right margin while a full row waits for its
\* next byte), and its row shows that text up to the cursor, whatever the screen
\* held before; no write leaves the buffer.
RowShowsText ==
  LET n == SinceNewline
  IN  /\ row \in 0 .. (Rows - 1)
      /\ col = IF n = 0 THEN 0 ELSE ((n - 1) % Cols) + 1
      /\ \A i \in 1 .. col :
           buffer[row * Cols + i - 1] = text[Len(text) - col + i]

=============================================================================
