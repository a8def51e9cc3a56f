------------------------------ MODULE MCConsole ------------------------------
(***************************************************************************)
(* A screen of 13 x 10 pixels in a buffer with rows of 14.  The cells of    *)
(* the built-in fonts leave a rest at the right and at the bottom, except  *)
(* for one that is as high as the screen.  PSF files: one in each way that *)
(* a table can name a glyph, and one for each error.                       *)
(***************************************************************************)
EXTENDS Console

MCCodeOf == [c \in {" ", "a", "?", "e"} |->
                CASE c = " " -> 0 [] c = "a" -> 1 [] c = "?" -> 2 [] c = "e" -> 5]

Dot(x, y) == {<<x, y>>}
Builtin(w, h) ==
    [kind |-> "builtin", width |-> w, height |-> h, has |-> {" ", "a", "?"},
     bitmaps |-> <<{}, Dot(0, 0), Dot(1, h - 1)>>]
MCDefault == Builtin(2, 1)
MCPresets == {MCDefault, Builtin(3, 5), Builtin(2, 8)}

\* A file whose glyphs, of three pixels in two bytes, are the given bitmaps.
Bytes(header, size, bitmaps) ==
    [i \in 1 .. header + size * Len(bitmaps) |->
        LET o == (i - 1 - header) % size
            glyph == (i - 1 - header) \div size + 1
            Bit(x) == IF <<x, o \div 2>> \in bitmaps[glyph] THEN 2 ^ (1 - (x % 2)) ELSE 0
        IN  IF i <= header THEN 0 ELSE Bit(2 * (o % 2)) + Bit(2 * (o % 2) + 1)]

Psf(header, size, flags, bitmaps, table) ==
    [kind |-> "psf", magic |-> TRUE, version |-> 0, header_size |-> header, flags |-> flags,
     glyph_count |-> Len(bitmaps), char_size |-> size, width |-> 3, height |-> 1,
     bitmaps |-> bitmaps, data |-> Bytes(header, size, bitmaps), table |-> table]

Four == <<{}, Dot(0, 0), Dot(1, 0), Dot(2, 0)>>
Plain == Psf(2, 2, FALSE, Four, <<"e">>)
Listed == Psf(3, 3, TRUE, Four, <<" ", "end", "seq", "e", "end", "invalid", "a", "end", "e", "end", "?">>)
Cut == Psf(2, 3, TRUE, Four, <<"end", "end", "end", "a", "bad", "e">>)
Two == Psf(2, 2, TRUE, <<Dot(2, 0), Dot(1, 0)>>, <<"?", "end", " ">>)

MCFontFiles == {
    Plain, Listed, Cut, Two,
    [Plain EXCEPT !.data = <<>>],
    [Plain EXCEPT !.magic = FALSE],
    [Plain EXCEPT !.version = 1],
    [Plain EXCEPT !.header_size = 99],
    [Plain EXCEPT !.width = 0],
    [Plain EXCEPT !.glyph_count = 0],
    [Plain EXCEPT !.width = 5],
    [Plain EXCEPT !.data = SubSeq(Plain.data, 1, 7), !.table = <<>>]}

MCImage == (0 .. 12) \X (0 .. 9)
MCPrompt == <<"a", "?">>
MCTexts == {<<>>, <<"a", "\t", "a", "\n">>, <<"?", "e", "\r", "a", "ctl">>}
=============================================================================
