------------------------------- MODULE Frame -------------------------------
(***************************************************************************)
(* The double-buffered screen of rokktui: a frame is built row by row and  *)
(* flush() writes only the rows that are not those of the frame before.    *)
(* A row is a sequence of characters and colour codes; a screen gives each *)
(* <<row, column>> its character and colour.                               *)
(***************************************************************************)
EXTENDS Integers, SequencesExt, FiniteSetsExt

CONSTANTS Glyphs,   \* what a row is made of
          Colours,  \* those that are codes and take no room
          Reset     \* the code of the default colour, one of them

ASSUME FrameAssumption == Colours \subseteq Glyphs /\ Reset \in Colours

Size == [cols : Nat \ {0}, rows : Nat \ {0}]

NewFrame == [cur |-> <<>>, prev |-> <<>>, partial |-> <<>>, full |-> TRUE,
             size |-> [cols |-> 80, rows |-> 24], prevSize |-> [cols |-> 80, rows |-> 24]]

Begin(f, size) == [f EXCEPT !.size = size, !.cur = <<>>, !.partial = <<>>]

\* put() and line(): the rows that were ended, and one that was not
Drawn(f, rows, partial) == [f EXCEPT !.cur = rows, !.partial = partial]

\* how many of the first i glyphs of s take room
Visible(s, i) == Cardinality({j \in 1 .. i : s[j] \notin Colours})

\* clip_visible
Clip(s, cols) ==
  LET over == {i \in DOMAIN s : Visible(s, i) > cols}
  IN IF over = {} THEN s ELSE Append(SubSeq(s, 1, Min(over) - 1), Reset)

Width(size) == Max({1, size.cols - 1})
Height(size) == Max({1, size.rows})

Ended(rows, partial) == IF partial = <<>> THEN rows ELSE Append(rows, partial)

Rows(f) ==
  LET ended == Ended(f.cur, f.partial)
  IN [r \in 1 .. Min({Len(ended), Height(f.size)}) |-> Clip(ended[r], Width(f.size))]

\* mutant: sizes are not compared
FullOnce(f) == f.full

Full(f) == f.full \/ f.size # f.prevSize

Visited(f) == 1 .. Max({Len(Rows(f)), IF Full(f) THEN 0 ELSE Len(f.prev)})

\* what flush() writes: a full repaint clears the screen, and each row written
\* ends in the default colour and blanks
Flush(f) ==
  LET rows == Rows(f)
      Row(r) == IF r \in DOMAIN rows THEN rows[r] ELSE <<>>
      Changed(r) == IF Full(f) THEN Row(r) # <<>> ELSE r \notin DOMAIN f.prev \/ f.prev[r] # Row(r)
  IN [clear |-> Full(f), rows |-> [r \in {v \in Visited(f) : Changed(v)} |-> Row(r)]]

Flushed(f) == [f EXCEPT !.prev = Rows(f), !.cur = <<>>, !.partial = <<>>,
                        !.prevSize = f.size, !.full = FALSE]

-----------------------------------------------------------------------------
(* What a terminal makes of it                                             *)

Empty == [char |-> " ", colour |-> Reset]

Cells(size) == (1 .. size.rows) \X (1 .. size.cols)

\* the cells a row fills, from the left
Painted(s) ==
  LET Colour(i) == LET codes == {j \in 1 .. i : s[j] \in Colours}
                   IN IF codes = {} THEN Reset ELSE s[Max(codes)]
      at(n) == CHOOSE i \in DOMAIN s : s[i] \notin Colours /\ Visible(s, i) = n
  IN [n \in 1 .. Visible(s, Len(s)) |-> [char |-> s[at(n)], colour |-> Colour(at(n))]]

\* a row that fills the window loses its last cell to the blanks: the cursor waits there
Show(screen, out, size) ==
  [c \in Cells(size) |->
     IF c[1] \in DOMAIN out.rows
     THEN LET cells == Painted(out.rows[c[1]])
          IN IF c[2] \in DOMAIN cells /\ c[2] < size.cols THEN cells[c[2]] ELSE Empty
     ELSE IF out.clear THEN Empty ELSE screen[c]]

\* the picture meant: the rows drawn, as far as they fit
Picture(rows, size) ==
  [c \in Cells(size) |->
     IF c[1] \in DOMAIN rows /\ c[2] <= Width(size) /\ c[2] \in DOMAIN Painted(rows[c[1]])
     THEN Painted(rows[c[1]])[c[2]] ELSE Empty]
=============================================================================
