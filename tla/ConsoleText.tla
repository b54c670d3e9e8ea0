----------------------------- MODULE ConsoleText -----------------------------
(***************************************************************************)
(* What the screen shows: Console with a history of the characters kmain   *)
(* has printed, compared with typing them on an endless roll of paper of   *)
(* which the screen is a window.  The history ends with the first          *)
(* interrupt.                                                              *)
(***************************************************************************)
EXTENDS Console, SequencesExt

VARIABLE out  \* the characters printed since the start or the last clear

textVars == <<conVars, out>>

TextInit == ConsoleInit /\ out = <<>>

\* A character is done when kmain drops it from its string.
TextNext ==
    /\ ConsoleNext
    /\ LET s == loc["main"].s IN
       out' = IF clear \/ irqs' > 0 THEN <<>>
              ELSE IF s # <<>> /\ loc'["main"].s = Tail(s) THEN Append(out, Head(s))
              ELSE out

TextSpec == TextInit /\ [][TextNext]_textVars

-----------------------------------------------------------------------------
(* The paper: its ink, where the next character goes, and the first row    *)
(* that the window still shows.                                            *)

BlankPaper == [ink |-> <<>>, row |-> 0, col |-> 0, top |-> 0]

Fed(t) == IF t.row = t.top + MaxY THEN [t EXCEPT !.top = @ + 1] ELSE t

Typed(t, c) ==
    [t EXCEPT !.ink = (<<t.row, t.col>> :> c) @@ @, !.col = @ + 1]

Type(t, c) ==
    CASE c = Newline -> Fed([t EXCEPT !.row = @ + 1, !.col = 0])
      [] c = Backspace /\ t.col > 0 -> [t EXCEPT !.col = @ - 1]
      [] c = Backspace /\ t.col = 0 /\ t.row > t.top ->
             [t EXCEPT !.row = @ - 1, !.col = MaxX - 1]
      [] c = Backspace /\ t.col = 0 /\ t.row = t.top -> t
      [] c \in Chars /\ t.col + 1 < MaxX -> Typed(t, c)
      [] c \in Chars /\ t.col + 1 = MaxX -> Fed([Typed(t, c) EXCEPT !.row = @ + 1, !.col = 0])

InkAt(t, r, c) == IF <<r, c>> \in DOMAIN t.ink THEN t.ink[<<r, c>>] ELSE Blank

\* As long as no handler prints, between two characters the screen shows the last rows of the paper, and
\* the cursor is where the next character goes: line wrap, newline,
\* scrolling, backspace across lines and clear agree with the reference.
ScreenShowsText ==
    LET t == FoldLeft(Type, BlankPaper, out) IN
    irqs = 0 /\ loc["main"].pc \in {"idle", "strm", "char"} =>
        /\ con.x = t.col /\ con.y = t.row - t.top
        /\ \A y \in 0..(MaxY - 1), x \in 0..(MaxX - 1) :
               con.cells[y * MaxX + x] = InkAt(t, t.top + y, x)
=============================================================================
