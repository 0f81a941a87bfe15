\* Bodies with LF, CR or CRLF line ends and wide characters, cut in every way.
SPECIFICATION Spec
CONSTANTS
    CR = CR
    LF = LF
    DataField = DataField
    EventField = EventField
    IdField = IdField
    Colon = Colon
    Byte1 = Byte1
    Byte2 = Byte2
    Char = Char
    Replacement = Replacement
    Nul = Nul
    a = a
    b = b
    MaxLines = 4
    Terminator <- MCTerminators
    Line <- MCLines
    Tails <- MCTails
    Body <- MCBody
INVARIANTS TypeOK DecodesWhatArrived TrailingFrameDispatched
CHECK_DEADLOCK FALSE
