--------------------------------- MODULE Psf ---------------------------------
(***************************************************************************)
(* Psf2Font of kernel-core/src/psf.rs: parse, pixel and the lookup of a    *)
(* character in the font's Unicode table.                                  *)
(*                                                                         *)
(* A file is the fields of its header, its bytes up to the end of the      *)
(* glyphs, and the table after them as a sequence of tokens: "end" of a    *)
(* glyph's characters (0xff), "seq" (0xfe), "bad" (a byte that starts no   *)
(* character, or a character cut off by the end), "invalid" (bytes that    *)
(* are no character), or a character.                                      *)
(***************************************************************************)
EXTENDS Integers, Sequences, FiniteSets, FiniteSetsExt

CONSTANTS
    PSF2_HEADER_SIZE, MAX_DIMENSION, MAX_GLYPHS,
    BITS,          \* 8: pixels in a byte
    CodeOf,        \* character -> its number
    QuestionMark   \* the number of '?'

bytes_per_row(f) == (f.width + BITS - 1) \div BITS
glyph_data_end(f) == f.header_size + f.glyph_count * f.char_size
FileLen(f) == Len(f.data) + Len(f.table)

parse(f) ==
    LET checks == <<
            <<FileLen(f) < PSF2_HEADER_SIZE, "TooSmall">>,
            <<~f.magic, "BadMagic">>,
            <<f.version # 0, "UnsupportedVersion">>,
            <<f.header_size < PSF2_HEADER_SIZE \/ f.header_size > FileLen(f), "InvalidHeader">>,
            <<f.width \notin 1 .. MAX_DIMENSION \/ f.height \notin 1 .. MAX_DIMENSION,
              "InvalidDimensions">>,
            <<f.glyph_count \notin 1 .. MAX_GLYPHS, "InvalidGlyphCount">>,
            <<f.char_size < bytes_per_row(f) * f.height, "InvalidCharSize">>,
            <<glyph_data_end(f) > FileLen(f), "TruncatedGlyphData">> >>
        failing == {k \in DOMAIN checks : checks[k][1]}
    IN  IF failing = {} THEN "ok" ELSE checks[Min(failing)][2]

None == -1

\* The loop over the table, from a position and the glyph it belongs to.
unicode_glyph_index(f, character) ==
    LET n == Len(f.table)
        from[p \in 1 .. n + 1, glyph \in 0 .. n] ==
            IF p > n \/ glyph >= f.glyph_count THEN None
            ELSE CASE f.table[p] = "end" -> from[p + 1, glyph + 1]
                   [] f.table[p] \in {"seq", "invalid"} -> from[p + 1, glyph]
                   [] f.table[p] = "bad" -> None
                   [] f.table[p] = character -> glyph
                   [] OTHER -> from[p + 1, glyph]
    IN  from[1, 0]

glyph_index(f, character) ==
    LET listed == IF f.flags THEN unicode_glyph_index(f, character) ELSE None
        direct == CodeOf[character]
    IN  IF listed # None THEN listed
        ELSE IF direct < f.glyph_count THEN direct
        ELSE IF QuestionMark < f.glyph_count THEN QuestionMark ELSE 0

pixel(f, character, x, y) ==
    /\ x < f.width /\ y < f.height
    /\ LET row == f.header_size + glyph_index(f, character) * f.char_size + y * bytes_per_row(f)
           byte == f.data[row + x \div BITS + 1]
       IN  (byte \div 2 ^ (BITS - 1 - (x % BITS))) % 2 = 1

-----------------------------------------------------------------------------
(* The same, said of the whole table *)

\* The glyph whose list is the first to name the character, before anything
\* that is not a list; else the glyph of that number, or '?', or the first.
NamedBy(f, character) ==
    LET ends(p) == Cardinality({q \in 1 .. p - 1 : f.table[q] = "end"})
        named == {p \in DOMAIN f.table :
                    /\ f.flags /\ f.table[p] = character
                    /\ \A q \in 1 .. p : f.table[q] # "bad"
                    /\ ends(p) < f.glyph_count}
        direct == {CodeOf[character], QuestionMark, 0} \cap (0 .. f.glyph_count - 1)
    IN  IF named # {} THEN ends(Min(named))
        ELSE IF CodeOf[character] \in direct THEN CodeOf[character]
        ELSE IF QuestionMark \in direct THEN QuestionMark ELSE 0
=============================================================================
