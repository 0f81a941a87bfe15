\* Is a character cut between two chunks still that character?
SPECIFICATION Spec
CONSTANTS
    CR = CR
    LF = LF
    DataField = DataField
    EventField = EventField
    IdField = IdField
    Colon = Colon
    Byte1 = Byte1
    Byte2 = Byte2
    Char = Char
    Replacement = Replacement
    Nul = Nul
    a = a
    b = b
    MaxLines = 2
    Terminator <- MCLf
    Line <- MCWideLines
    Tails <- MCNoTails
    Body <- MCBody
INVARIANT SafeAtAnyBoundary
CHECK_DEADLOCK FALSE
