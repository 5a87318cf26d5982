----------------------------- MODULE TextScreen -----------------------------
(***************************************************************************)
(* What a program sees of the video BIOS in a text mode: pages of          *)
(* character cells with a cursor each, one of which is on the screen.      *)
(* Nothing is said of the content of a page other than the first once it   *)
(* has been scrolled, nor of the screen while it is not a text screen.     *)
(***************************************************************************)
EXTENDS Integers, Sequences, SequencesExt

CONSTANTS LastPage,  \* the last page
          Stop       \* the distance of tab stops

VARIABLES text,    \* the cells of each page, by column and row
          curs,    \* the cursor of each page
          shown,   \* the page on the screen
          answer,  \* what the last question was answered: cell and cursor
          asked    \* the call that is served
tvars == <<text, curs, shown, answer>>

Pages == 0..LastPage
Space == 32
Off   == [p \in Pages |-> <<>>]
IsText == text # Off
Cols == 1 + CHOOSE x \in {c[1] : c \in DOMAIN text[0]} : \A c \in DOMAIN text[0] : c[1] <= x
Rows == 1 + CHOOSE y \in {c[2] : c \in DOMAIN text[0]} : \A c \in DOMAIN text[0] : c[2] <= y

----------------------------------------------------------------------------
(* One page: t = [cells, at, lost], where lost says that it was scrolled.  *)

Inside(c, ul, lr) == c[1] \in ul[1]..lr[1] /\ c[2] \in ul[2]..lr[2]
\* The window between two corners moves up by n lines (down when n < 0);
\* lines that come in are blank, and all are when n = 0.
Moved(cells, n, attr, ul, lr) ==
  [c \in DOMAIN cells |->
     IF ~Inside(c, ul, lr) THEN cells[c]
     ELSE LET from == <<c[1], c[2] + n>> IN
          IF n # 0 /\ Inside(from, ul, lr) /\ from \in DOMAIN cells THEN cells[from] ELSE <<Space, attr>>]

\* The cursor goes on; the page scrolls when it leaves the last line.
Settle(t) ==
  LET x == IF t.at[1] = Cols THEN 0 ELSE t.at[1]
      y == IF t.at[1] = Cols THEN t.at[2] + 1 ELSE t.at[2]
  IN  IF y < Rows THEN [t EXCEPT !.at = <<x, y>>]
      ELSE [cells |-> Moved(t.cells, 1, t.cells[<<x, y - 1>>][2], <<0, 0>>, <<Cols - 1, Rows - 1>>),
            at |-> <<x, y - 1>>, lost |-> TRUE]
\* One character; attr is kept when it is -1.
Plain(t, c, attr) ==
  Settle([t EXCEPT !.cells[t.at] = <<c, IF attr = -1 THEN @[2] ELSE attr>>,
                   !.at[1] = @ + 1])
Typed(t, ca) ==
  LET c == ca[1]   a == ca[2] IN
  CASE c = 7  -> t
    [] c = 8  -> [t EXCEPT !.at[1] = IF @ > 0 THEN @ - 1 ELSE 0]
    [] c = 13 -> [t EXCEPT !.at[1] = 0]
    [] c = 10 -> Settle([t EXCEPT !.at[2] = @ + 1])
    [] c = 9  -> LET one == Plain(t, Space, a) IN
                 IF one.at[1] % Stop = 0 THEN Plain(one, Space, a) ELSE one
    [] OTHER  -> Plain(t, c, a)

----------------------------------------------------------------------------
(* The calls.  `asked` is the one a step serves; what it asks for is read  *)
(* from its fields.                                                        *)

\* A mode is set: cursors go home, and either all is blank or nothing is
\* wiped.
Restart == /\ asked'.fn = "mode"
           /\ curs' = [p \in Pages |-> <<0, 0>>] /\ shown' = 0 /\ UNCHANGED answer
           /\ text' # Off /\ ~asked'.keep =>
                \A p \in Pages : \A c \in DOMAIN text'[p] : text'[p][c] = <<Space, 7>>
           /\ text' # Off /\ asked'.keep /\ IsText /\ Cols' = Cols =>
                \A c \in DOMAIN text'[0] \cap DOMAIN text[0] : text'[0][c] = text[0][c]
\* Another character height: the first page keeps what fits.
Resize == /\ asked'.fn = "font" /\ shown = 0
          /\ UNCHANGED <<curs, shown, answer>>
          /\ \A c \in DOMAIN text'[0] \cap DOMAIN text[0] : text'[0][c] = text[0][c]
Move == /\ asked'.fn = "cursor"
        /\ curs' = IF asked'.page \in Pages THEN [curs EXCEPT ![asked'.page] = asked'.at] ELSE curs
        /\ UNCHANGED <<text, shown, answer>>
Show == /\ asked'.fn = "page"
        /\ shown' = IF asked'.page \in Pages THEN asked'.page ELSE shown
        /\ UNCHANGED <<text, curs, answer>>
\* Cells from the cursor on, along the lines.
Put == LET p == asked'.page
           from == curs[p][2] * Cols + curs[p][1] IN
       /\ asked'.fn = "write"
       /\ text' = [text EXCEPT ![p] = [k \in DOMAIN @ |->
                     IF k[2] * Cols + k[1] \in from..(from + asked'.n - 1)
                     THEN <<asked'.c, IF asked'.attr = -1 THEN @[k][2] ELSE asked'.attr>>
                     ELSE @[k]]]
       /\ UNCHANGED <<curs, shown, answer>>
\* Characters are typed from a position on; the cursor stays at their end or
\* goes back to where it was.
TypeAll(p, at, chars, back) ==
  LET end == FoldLeft(Typed, [cells |-> text[p], at |-> at, lost |-> FALSE], chars)
  IN  /\ curs' = [curs EXCEPT ![p] = IF back THEN @ ELSE end.at]
      /\ \A q \in Pages : q # p => text'[q] = text[q]
      /\ ~end.lost \/ p = 0 => text'[p] = end.cells
      /\ UNCHANGED <<shown, answer>>
Type == /\ asked'.fn = "type"
        /\ TypeAll(shown, curs[shown], <<<<asked'.c, -1>>>>, FALSE)
String == /\ asked'.fn = "string"
          /\ TypeAll(asked'.page, IF asked'.at = "here" THEN curs[asked'.page] ELSE asked'.at,
                   asked'.chars, asked'.back)
Scroll == /\ asked'.fn = "scroll"
          /\ \A q \in Pages : q # shown => text'[q] = text[q]
          /\ shown = 0 =>
               text'[0] = Moved(text[0], IF asked'.up THEN asked'.n ELSE -asked'.n,
                                asked'.attr, asked'.ul, asked'.lr)
          /\ UNCHANGED <<curs, shown, answer>>
Ask == /\ UNCHANGED <<text, curs, shown>>
       /\ \/ /\ asked'.fn = "read"
             /\ answer' = <<text[asked'.page][curs[asked'.page]], curs[asked'.page]>>
          \/ asked'.fn = "info" /\ answer' = <<Cols, Rows, shown, curs>>
\* Between text screens, while the memory does not answer, and when a saved
\* state comes back, nothing is said.
Blind == ~IsText /\ (text' = Off \/ asked'.fn = "font")
Lose  == asked'.fn = "alternate" /\ asked'.what = 50 /\ text' = Off
Swap  == asked'.fn = "restore"

TInit == /\ curs = [p \in Pages |-> <<0, 0>>] /\ shown = 0
TNext == Restart \/ Blind \/ Lose \/ Swap \/ (IsText /\ (Resize \/ Move \/ Show \/ Put \/ Type \/ String
                                         \/ Scroll \/ Ask))
TSpec == TInit /\ [][TNext]_tvars
=============================================================================
