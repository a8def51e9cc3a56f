SPECIFICATION Spec
CONSTANTS
    PSF2_HEADER_SIZE = 2
    MAX_DIMENSION = 8
    MAX_GLYPHS = 4
    BITS = 2
    CodeOf <- MCCodeOf
    QuestionMark = 2
    Width = 13
    Height = 10
    Stride = 14
    Length = 144
    PADDING = 1
    TAB = 4
    Image <- MCImage
    Default <- MCDefault
    Presets <- MCPresets
    FontFiles <- MCFontFiles
    MAX_LINE = 8
    Keys = {"a", " "}
    Prompt <- MCPrompt
    Texts <- MCTexts
INVARIANTS
    LineOnScreen
PROPERTIES
    ImplementsTerminal
