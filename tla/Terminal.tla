------------------------------ MODULE Terminal -------------------------------
(***************************************************************************)
(* What a text console promises: rows of cells with the cursor in the last *)
(* row that holds anything, lines that wrap when the next character has no *)
(* room, old rows that leave at the top.  A cell shows the glyphs put into *)
(* it since it was last blank.                                             *)
(***************************************************************************)
EXTENDS Integers, Sequences

CONSTANT TAB   \* width of a tab stop

VARIABLES
    columns, rows,
    face,      \* the glyphs that each character shows
    text,      \* the rows down to the cursor's
    column,    \* of the cursor; equal to columns when the row is full
    stray      \* something is visible that is not text

vars == <<columns, rows, face, text, column, stray>>

Blank(n) == [c \in 1 .. n |-> {}]

Init ==
    /\ text = <<Blank(columns)>>
    /\ column = 0
    /\ stray = FALSE

\* The rows after a line feed.
Fed(t) == Append(IF Len(t) < rows THEN t ELSE Tail(t), Blank(columns))

\* Text and cursor after glyphs are put at the cursor.
Put(at, glyphs) ==
    LET t == IF at.column < columns THEN at.text ELSE Fed(at.text)
        k == IF at.column < columns THEN at.column ELSE 0
    IN  [text |-> [t EXCEPT ![Len(t)][k + 1] = @ \cup glyphs], column |-> k + 1]

Here == [text |-> text, column |-> column]
Becomes(at) == text' = at.text /\ column' = at.column /\ UNCHANGED <<columns, rows, face, stray>>

Character == \E c \in DOMAIN face : Becomes(Put(Here, face[c]))

Newline == Becomes([text |-> Fed(text), column |-> 0])

Return == Becomes([text |-> text, column |-> 0])

Tab ==
    LET spaces[n \in 0 .. TAB] == IF n = 0 THEN Here ELSE Put(spaces[n - 1], face[" "])
    IN  Becomes(spaces[TAB - (column % TAB)])

Erased(t, k) == [text |-> [t EXCEPT ![Len(t)][k + 1] = {}], column |-> k]

\* The cursor goes back over the end of the row above, but not off the screen.
Backspace ==
    \/ column > 0 /\ Becomes(Erased(text, column - 1))
    \/ /\ column = 0 /\ Len(text) > 1 /\ text[Len(text)] = Blank(columns)
       /\ Becomes(Erased(SubSeq(text, 1, Len(text) - 1), columns - 1))

\* An empty screen, perhaps with another font.
Clear ==
    /\ text' = <<Blank(columns')>> /\ column' = 0
    /\ UNCHANGED stray

Next == Character \/ Newline \/ Return \/ Tab \/ Backspace \/ Clear

Spec == Init /\ [][Next]_vars
=============================================================================
