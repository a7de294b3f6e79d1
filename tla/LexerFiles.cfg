CONSTANTS
    Byte <- MCByte
    EOF = "EOF"
    Promoted <- MCPromoted
    Chunk = 2
    Texts <- MCTexts
    NDEBUG = TRUE
SPECIFICATION FairSpec
INVARIANTS ReadsWellFormed NothingLost LineRight Transparent
PROPERTIES Termination
