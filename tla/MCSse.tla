------------------------------- MODULE MCSse -------------------------------
(* Every body of up to MaxLines lines and an unterminated tail, for TLC.   *)
EXTENDS Sse

CONSTANTS
    a, b,           \* payload letters
    MaxLines,
    Terminator,     \* the line terminators a body may use, one per body
    Line,           \* the lines a body is made of
    Tails           \* what may follow the last terminator

Blank == <<>>
DataLine == <<DataField, a>>
WideLine == <<DataField, Byte1, Byte2>>
EventLine == <<EventField, a>>
IdLine == <<IdField, b>>
BareEvent == <<EventField>>
NulId == <<IdField, Nul>>
Comment == <<Colon, a>>

MCLines == {Blank, DataLine, WideLine, EventLine, BareEvent, IdLine, NulId, Comment}
MCWideLines == {Blank, WideLine}

MCTails == {<<>>, DataLine}
MCNoTails == {<<>>}

MCTerminators == {<<LF>>, <<CR>>, <<CR, LF>>}
MCLf == {<<LF>>}

Terminated(ls, t) == FlattenSeq([i \in DOMAIN ls |-> ls[i] \o t])

MCBody ==
    {Terminated(ls, t) \o tail :
        ls \in UNION {[1..n -> Line] : n \in 0..MaxLines}, t \in Terminator, tail \in Tails}
=============================================================================
