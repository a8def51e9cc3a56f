------------------------------- MODULE Console -------------------------------
(***************************************************************************)
(* The framebuffer console of kernel/src/arch/framebuffer.rs, pixel by     *)
(* pixel, under the line editor of kernel/src/shell.rs.                    *)
(*                                                                         *)
(* The buffer is the set of the indices whose pixel is lit; colours and    *)
(* the bytes of a pixel are left out.  A font is a built-in one, which     *)
(* draws every character from its own bitmaps, or a PSF file.              *)
(***************************************************************************)
EXTENDS Psf

CONSTANTS
    Width, Height, Stride, Length,  \* FrameBufferInfo, in pixels
    PADDING,                        \* CELL_PADDING_X and CELL_PADDING_Y
    TAB,                            \* 4
    Image,                          \* what the graphical shell left on the screen
    Default,                        \* the font of FontPreset::Noto16
    Presets,                        \* the built-in fonts
    FontFiles,                      \* files for KERNEL FONT LOAD
    MAX_LINE,
    Keys,                           \* characters that are typed
    Prompt,                         \* "generic:{cwd}# "
    Texts                           \* what is printed, a file's text by CAT included

VARIABLES
    con,        \* Console: lit, column, row, columns, rows, font
    shell,      \* where run is: "prompt", "edit" or "execute"
    line,       \* line[..len]
    printing    \* the rest of the text that is being written

vars == <<con, shell, line, printing>>

-----------------------------------------------------------------------------
(* Console *)

cell_width(c) == c.font.width + PADDING * 2
cell_height(c) == c.font.height + PADDING * 2

AtLeastOne(n) == IF n < 1 THEN 1 ELSE n
recalculate_grid(c) ==
    [c EXCEPT !.columns = AtLeastOne(Width \div cell_width(c)),
              !.rows = AtLeastOne(Height \div cell_height(c)),
              !.column = 0, !.row = 0]

clear(c) == [c EXCEPT !.lit = {}, !.column = 0, !.row = 0]

\* The index that write_pixel writes, if any.
PixelAt(x, y) == IF x < Width /\ y < Height THEN {y * Stride + x} \cap 0 .. Length - 1 ELSE {}

\* the rows of the buffer are taken to be as long as those of the screen
scroll_without_stride(c) ==
    LET shift == cell_height(c) * Width
        visible == Min({Height * Stride, Length})
    IN  IF shift >= visible THEN clear(c)
        ELSE [c EXCEPT !.lit = {p - shift : p \in {q \in @ : shift <= q /\ q < visible}}
                               \cup {q \in @ : q >= visible},
                       !.row = c.rows - 1]

scroll(c) ==
    LET shift == cell_height(c) * Stride
        visible == Min({Height * Stride, Length})
    IN  IF shift >= visible THEN clear(c)
        ELSE [c EXCEPT !.lit = {p - shift : p \in {q \in @ : shift <= q /\ q < visible}}
                               \cup {q \in @ : q >= visible},
                       !.row = c.rows - 1]

newline(c) ==
    IF c.row + 1 < c.rows THEN [c EXCEPT !.column = 0, !.row = @ + 1]
    ELSE scroll([c EXCEPT !.column = 0])

clear_cell(c, column, row) ==
    [c EXCEPT !.lit = @ \ UNION {PixelAt(x, y) :
        x \in column * cell_width(c) .. (column + 1) * cell_width(c) - 1,
        y \in row * cell_height(c) .. (row + 1) * cell_height(c) - 1}]

\* The pixels of a character's glyph that are on: raster or Psf2Font::pixel.
Raster(f, character) ==
    IF f.kind = "builtin"
    THEN f.bitmaps[IF character \in f.has THEN CodeOf[character] + 1 ELSE QuestionMark + 1]
    ELSE {<<x, y>> \in (0 .. f.width - 1) \X (0 .. f.height - 1) : pixel(f, character, x, y)}

\* Only the pixels that are on are written: the cell is not cleared first.
draw_glyph(c, character, origin_x, origin_y) ==
    [c EXCEPT !.lit = @ \cup UNION {PixelAt(origin_x + PADDING + q[1], origin_y + PADDING + q[2]) :
                                       q \in Raster(c.font, character)}]

\* The last arm of write_character.
put(c, character) ==
    LET d == IF c.column >= c.columns THEN newline(c) ELSE c
    IN  [draw_glyph(d, character, d.column * cell_width(d), d.row * cell_height(d))
            EXCEPT !.column = @ + 1]

write_tab(c) ==
    LET spaces[n \in 0 .. TAB] == IF n = 0 THEN c ELSE put(spaces[n - 1], " ")
    IN  spaces[TAB - (c.column % TAB)]

write_character(c, character) ==
    CASE character = "\n" -> newline(c)
      [] character = "\r" -> [c EXCEPT !.column = 0]
      [] character = "\t" -> write_tab(c)
      [] character \in DOMAIN CodeOf -> put(c, character)
      [] OTHER -> c

\* stays in its row
backspace_in_row(c) ==
    IF c.column > 0
    THEN clear_cell([c EXCEPT !.column = @ - 1], c.column - 1, c.row)
    ELSE c

backspace(c) ==
    IF c.column > 0
    THEN clear_cell([c EXCEPT !.column = @ - 1], c.column - 1, c.row)
    ELSE IF c.row > 0
    THEN clear_cell([c EXCEPT !.row = @ - 1, !.column = c.columns - 1], c.columns - 1, c.row - 1)
    ELSE c

set_font_preset(c, f) == clear(recalculate_grid([c EXCEPT !.font = f]))

\* A file that is not a font changes nothing.
load_psf2(c, f) ==
    IF parse(f) = "ok" THEN clear(recalculate_grid([c EXCEPT !.font = f])) ELSE c

\* Pixels that present_xrgb8888 of display.rs lights for an image.
present(image) == UNION {PixelAt(q[1], q[2]) : q \in image}

from_buffer(buffer) ==
    clear(recalculate_grid([lit |-> buffer, column |-> 0, row |-> 0,
                            columns |-> 1, rows |-> 1, font |-> Default]))

-----------------------------------------------------------------------------
(* run *)

\* CAT ends a text that has no line feed at its end with one; every other
\* message does so too.
cat_file(text) ==
    IF text # <<>> /\ text[Len(text)] = "\n" THEN text ELSE Append(text, "\n")

\* Up to the end of banner's clear.
Init ==
    /\ con = clear(from_buffer(present(Image)))
    /\ shell = "prompt"
    /\ line = <<>>
    /\ printing \in {cat_file(text) : text \in Texts}

ShowPrompt ==
    /\ shell = "prompt" /\ printing = <<>>
    /\ printing' = Prompt
    /\ line' = <<>>
    /\ shell' = "edit"
    /\ UNCHANGED con

\* write_str, one character.
write_str ==
    /\ printing # <<>>
    /\ con' = write_character(con, Head(printing))
    /\ printing' = Tail(printing)
    /\ UNCHANGED <<shell, line>>

Editing == shell = "edit" /\ printing = <<>>

TypeKey ==
    /\ Editing /\ Len(line) < MAX_LINE
    /\ \E key \in Keys :
          /\ line' = Append(line, key)
          /\ con' = write_character(con, key)
    /\ UNCHANGED <<shell, printing>>

BackspaceKey ==
    /\ Editing /\ Len(line) > 0
    /\ line' = SubSeq(line, 1, Len(line) - 1)
    /\ con' = backspace(con)
    /\ UNCHANGED <<shell, printing>>

EnterKey ==
    /\ Editing
    /\ con' = write_character(con, "\n")
    /\ shell' = "execute"
    /\ UNCHANGED <<line, printing>>

\* KERNEL FONT: SET and RESET, or LOAD.
font ==
    \/ \E f \in Presets : con' = set_font_preset(con, f)
    \/ \E f \in FontFiles : con' = load_psf2(con, f)

\* An empty line, CLEAR, or a command that prints and may change the font.
execute ==
    /\ shell = "execute"
    /\ shell' = "prompt" /\ line' = <<>>
    /\ \/ con' \in {con, clear(con)} /\ UNCHANGED printing
       \/ /\ \E text \in Texts : printing' = cat_file(text)
          /\ UNCHANGED con \/ font

Next == ShowPrompt \/ write_str \/ TypeKey \/ BackspaceKey \/ EnterKey \/ execute

Spec == Init /\ [][Next]_vars

-----------------------------------------------------------------------------
(* Properties *)

\* The glyph of a font that a character should show, as a number.
Glyph(f, character) ==
    IF f.kind = "psf" THEN NamedBy(f, character)
    ELSE IF character \in f.has THEN CodeOf[character] ELSE QuestionMark

\* The bitmaps that the font's author drew; no two of them share a pixel.
Bitmap(f, glyph) == f.bitmaps[glyph + 1]
Shown(f, glyph) == IF Bitmap(f, glyph) = {} THEN {} ELSE {glyph}

\* The glyphs that are visible in a cell: those whose whole bitmap is.
CellPixels(c, column, row, glyph) ==
    UNION {PixelAt(column * cell_width(c) + PADDING + q[1], row * cell_height(c) + PADDING + q[2]) :
              q \in Bitmap(c.font, glyph)}
Visible(c, column, row) ==
    {g \in UNION {Shown(c.font, k - 1) : k \in DOMAIN c.font.bitmaps} :
        CellPixels(c, column, row, g) \subseteq c.lit}

Text(c) == [r \in 1 .. c.row + 1 |-> [k \in 1 .. c.columns |-> Visible(c, k - 1, r - 1)]]

\* Every lit pixel belongs to a glyph of the text.
Stray(c) ==
    c.lit # UNION UNION {{CellPixels(c, k - 1, r - 1, g) : g \in Text(c)[r][k]} :
                            r \in 1 .. c.row + 1, k \in 1 .. c.columns}

\* What is on the screen, read off the pixels, behaves as a terminal does:
\* wrapping, scrolling by the stride of the buffer over a height that is no
\* multiple of the cells', tabs, backspace over the end of a row, and fonts of
\* another size, with each character drawn as the glyph its font gives it.
Abstract ==
    INSTANCE Terminal WITH
        columns <- con.columns, rows <- con.rows, column <- con.column,
        face <- [ch \in DOMAIN CodeOf |-> Shown(con.font, Glyph(con.font, ch))],
        text <- Text(con), stray <- Stray(con)
ImplementsTerminal == Abstract!Spec

\* While a line is edited, what is on the screen before the cursor is the end
\* of the prompt and the line, however often the line was wrapped, scrolled and
\* taken back, and there is nothing at or after the cursor: what the user sees
\* is what Enter will run.
LineOnScreen ==
    Editing =>
        LET whole == Prompt \o line
            cursor == con.row * con.columns + con.column
            seen == Min({Len(whole), cursor})
            At(p) == Text(con)[p \div con.columns + 1][(p % con.columns) + 1]
        IN  /\ \A k \in 1 .. seen :
                  At(cursor - k) =
                      Shown(con.font, Glyph(con.font, whole[Len(whole) - k + 1]))
            /\ \A p \in cursor .. (con.row + 1) * con.columns - 1 : At(p) = {}
=============================================================================
