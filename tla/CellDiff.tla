------------------------------ MODULE CellDiff ------------------------------
(***************************************************************************)
(* One row of terminal cells, and the operations that turn one row into    *)
(* another: Surface, diff and full_redraw in crates/tg-terminal/src/lib.rs,*)
(* and what a terminal makes of them.                                      *)
(*                                                                         *)
(* A wide character takes two cells, the second of width zero.  A terminal *)
(* that overwrites one half of it loses the other; one that is cleared     *)
(* takes the background it was last told.                                  *)
(***************************************************************************)
EXTENDS Naturals, SequencesExt

Cell(grapheme, style, width) == [grapheme |-> grapheme, style |-> style, width |-> width]

NoText    == ""
BlankText == " "

Blank == Cell(BlankText, "default", 1)

Continuation(lead) == Cell(NoText, lead.style, 0)

Row(columns) == [column \in 1..columns |-> Blank]

\* validate: continuations follow wide cells, and only they do.
validate(row) ==
  \A column \in DOMAIN row :
    /\ row[column].width = 0 => column > 1 /\ row[column - 1].width = 2
    /\ row[column].width = 2 => column < Len(row) /\ row[column + 1].width = 0

\* clear_overlapping_cell: a wide character is cleared whole.
Overlapping(row, column) ==
  CASE row[column].width = 0 /\ column > 1 -> {column - 1, column}
    [] row[column].width = 2               -> {column, column + 1}
    [] OTHER                               -> {column}

\* What is overwritten is not cleared whole.
Mut_put_cell(row, column, cell) ==
  [c \in DOMAIN row |->
     IF c = column THEN cell
     ELSE IF c = column + 1 /\ cell.width = 2 THEN Continuation(cell)
     ELSE row[c]]

\* Of a cell that fits at column.
put_cell(row, column, cell) ==
  LET cleared == Overlapping(row, column)
                   \cup IF cell.width = 2 THEN Overlapping(row, column + 1) ELSE {}
  IN  [c \in DOMAIN row |->
         IF c = column THEN cell
         ELSE IF c = column + 1 /\ cell.width = 2 THEN Continuation(cell)
         ELSE IF c \in cleared THEN Blank
         ELSE row[c]]

-----------------------------------------------------------------------------
(* The operations. *)

ClearScreen     == [op |-> "ClearScreen"]
ResetStyle      == [op |-> "ResetStyle"]
MoveTo(column)  == [op |-> "MoveTo", column |-> column]
SetStyle(style) == [op |-> "SetStyle", style |-> style]
Write(text)     == [op |-> "Write", text |-> text]

\* A cell of its own, not a continuation, that is not what it was.
Changed(previous, next, column) ==
  next[column].width # 0 /\ previous[column] # next[column]

\* One Write covers the changed characters that follow each other in one style.
Continues(previous, next, column) ==
  \E lead \in 1..(column - 1) :
    /\ lead + next[lead].width = column
    /\ Changed(previous, next, lead)
    /\ next[lead].style = next[column].style

Text(cell) == <<[grapheme |-> cell.grapheme, width |-> cell.width]>>

\* The operations for one more column.
Extend(previous, next, operations, column) ==
  IF ~Changed(previous, next, column) THEN operations
  ELSE IF Continues(previous, next, column)
  THEN Front(operations) \o <<Write(Last(operations).text \o Text(next[column]))>>
  ELSE operations \o <<MoveTo(column), SetStyle(next[column].style), Write(Text(next[column]))>>

\* The operations for the columns up to one, for each.
Upto(previous, next) ==
  LET operations[column \in 0..Len(next)] ==
        IF column = 0 THEN <<>> ELSE Extend(previous, next, operations[column - 1], column)
  IN  operations

SameSize(previous, next) ==
  LET operations == Upto(previous, next)[Len(next)]
  IN  IF operations = <<>> THEN <<>> ELSE Append(operations, ResetStyle)

full_redraw(next) == <<ClearScreen>> \o SameSize(Row(Len(next)), next)

diff(previous, next) ==
  IF Len(previous) # Len(next) THEN full_redraw(next) ELSE SameSize(previous, next)

-----------------------------------------------------------------------------
(* The terminal: its row, the column it writes at and the style it writes in. *)

Broken == Cell("?", "default", 1)

\* Halves of the wide characters that a write of columns from..to cuts through.
Cut(row, from, to) ==
  {column \in DOMAIN row :
     \/ column = from - 1 /\ row[column].width = 2
     \/ column = to + 1 /\ row[column].width = 0}

WriteOne(terminal, character) ==
  LET from == terminal.column
      to   == from + character.width - 1
      cell == Cell(character.grapheme, terminal.style, character.width)
  IN  [terminal EXCEPT
         !.column = to + 1,
         !.row = [column \in DOMAIN @ |->
                    CASE column = from              -> cell
                      [] column \in (from + 1)..to  -> Continuation(cell)
                      [] column \in Cut(@, from, to) -> Broken
                      [] OTHER                      -> @[column]]]

\* The terminal after so many of the characters.
Writing(terminal, text) ==
  LET after[n \in 0..Len(text)] == IF n = 0 THEN terminal ELSE WriteOne(after[n - 1], text[n])
  IN  after

WriteAll(terminal, text) == Writing(terminal, text)[Len(text)]

Apply(terminal, operation) ==
  CASE operation.op = "ClearScreen" ->
         [terminal EXCEPT !.column = 1,
                          !.row = [column \in DOMAIN @ |-> Cell(BlankText, terminal.style, 1)]]
    [] operation.op = "MoveTo"     -> [terminal EXCEPT !.column = operation.column]
    [] operation.op = "SetStyle"   -> [terminal EXCEPT !.style = operation.style]
    [] operation.op = "ResetStyle" -> [terminal EXCEPT !.style = "default"]
    [] operation.op = "Write"      -> WriteAll(terminal, operation.text)

\* The terminal after so many of the operations.
Applying(terminal, operations) ==
  LET after[n \in 0..Len(operations)] ==
        IF n = 0 THEN terminal ELSE Apply(after[n - 1], operations[n])
  IN  after

ApplyAll(terminal, operations) == Applying(terminal, operations)[Len(operations)]

-----------------------------------------------------------------------------
(* Small rows. *)

Styles == {"default", "red"}

Narrow == {Cell(grapheme, style, 1) : grapheme \in {BlankText, "x"}, style \in Styles}
Wide   == {Cell("w", style, 2) : style \in Styles}

\* The rows that one more put_cell makes of one, and of those given.
PutsTo(row) ==
  {put_cell(row, column, cell) : column \in DOMAIN row, cell \in Narrow}
    \cup {put_cell(row, column, cell) : column \in {c \in DOMAIN row : c < Len(row)}, cell \in Wide}

Puts(rows) == UNION {PutsTo(row) : row \in rows}

\* Every row of at most so many columns, built by at most three put_cells.
SmallRows(columns) ==
  LET blank == {Row(n) : n \in 1..columns}
      once  == blank \cup Puts(blank)
      twice == once \cup Puts(once)
  IN  twice \cup Puts(twice)
=============================================================================
