------------------------------ MODULE Terminal ------------------------------
(***************************************************************************)
(* What the text console promises: an endless sheet of rows that is only   *)
(* ever extended at its end, of which the last Height rows can be written, *)
(* and one writer at a time.                                               *)
(***************************************************************************)
EXTENDS Integers

CONSTANTS Width, Height, Glyphs, Styles, Writers, Nobody, Space

VARIABLES
  sheet,    \* the rows, from 0: each a function from columns to cells
  top,      \* the first of the last Height rows
  cursor,   \* [line, column, style]
  writer    \* who may write, or Nobody

absVars == <<sheet, top, cursor, writer>>

Columns == 0 .. Width - 1
At(l, c) == [line |-> l, column |-> c, style |-> cursor.style]

Blank(s) == [c \in Columns |-> <<Space, s>>]

Open(w) == writer = Nobody /\ writer' = w /\ UNCHANGED <<sheet, top, cursor>>

Close == writer # Nobody /\ writer' = Nobody /\ UNCHANGED <<sheet, top, cursor>>

(* On the last row, the next one is a blank row added to the sheet.        *)
Last == top + Height - 1
Fed == IF cursor.line < Last THEN sheet
       ELSE [i \in 0 .. Last + 1 |-> IF i <= Last THEN sheet[i] ELSE Blank(cursor.style)]
Feed == top' = IF cursor.line < Last THEN top ELSE top + 1

NewLine ==
  /\ Feed
  /\ sheet' = Fed
  /\ cursor' = At(cursor.line + 1, 0)

(* A glyph goes where the cursor is, or to the start of the next row when  *)
(* the row is full.                                                        *)
Type(g) ==
  \/ /\ cursor.column < Width
     /\ sheet' = [sheet EXCEPT ![cursor.line][cursor.column] = <<g, cursor.style>>]
     /\ cursor' = At(cursor.line, cursor.column + 1)
     /\ UNCHANGED top
  \/ /\ cursor.column = Width
     /\ Feed
     /\ sheet' = [Fed EXCEPT ![cursor.line + 1][0] = <<g, cursor.style>>]
     /\ cursor' = At(cursor.line + 1, 1)

Home == cursor' = At(cursor.line, 0) /\ UNCHANGED <<sheet, top>>

(* The cell before the cursor is erased; the top row has none before it.   *)
EraseAt(l, c) ==
  /\ sheet' = [sheet EXCEPT ![l][c] = <<Space, cursor.style>>]
  /\ cursor' = At(l, c)
  /\ UNCHANGED top

Erase ==
  \/ cursor.column > 0 /\ EraseAt(cursor.line, cursor.column - 1)
  \/ cursor.column = 0 /\ cursor.line > top /\ EraseAt(cursor.line - 1, Width - 1)

SetStyle == \E s \in Styles : cursor' = [cursor EXCEPT !.style = s] /\ UNCHANGED <<sheet, top>>

Clear ==
  /\ sheet' = [i \in DOMAIN sheet |-> IF i < top THEN sheet[i] ELSE Blank(cursor.style)]
  /\ cursor' = At(top, 0)
  /\ UNCHANGED top

Write ==
  /\ writer # Nobody
  /\ (\E g \in Glyphs : Type(g)) \/ NewLine \/ Home \/ Erase \/ SetStyle \/ Clear
  /\ UNCHANGED writer

AbsInit ==
  /\ sheet \in [0 .. Height - 1 -> [Columns -> Glyphs \X Styles]]
  /\ top = 0
  /\ cursor \in [line : {0}, column : {0}, style : Styles]
  /\ writer = Nobody

AbsNext == (\E w \in Writers : Open(w)) \/ Write \/ Close

AbsSpec == AbsInit /\ [][AbsNext]_absVars
=============================================================================
