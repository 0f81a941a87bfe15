-------------------------------- MODULE Sse --------------------------------
(***************************************************************************)
(* The incremental SSE decoder of src/src/sse.rs, reading a response body  *)
(* that arrives in chunks cut anywhere, against a declarative reading of   *)
(* the same bytes.  A byte is a symbol: the two line terminators, the      *)
(* field names (a name with its colon is one symbol), payload letters, the *)
(* two bytes of one two-byte UTF-8 character, and NUL.                     *)
(***************************************************************************)
EXTENDS Integers, Sequences, FiniteSets, SequencesExt

CONSTANTS
    CR, LF,
    DataField, EventField, IdField, Colon,  \* "data:", "event:", "id:", ":"
    Byte1, Byte2, Char, Replacement,        \* a UTF-8 character; U+FFFD
    Nul,
    Body            \* the response bodies the node may send

ASSUME SseAssumption ==
    /\ IsInjective(<<CR, LF, DataField, EventField, IdField, Colon,
                     Byte1, Byte2, Char, Replacement, Nul>>)
    /\ \A b \in Body : b = <<>> \/ b \in Seq(Range(b))

VARIABLES
    body, pos,      \* the body, and how much of it has arrived
    torn,           \* history: a chunk ended inside a CRLF or a character
    buffer, data_lines, event_type, last_event_id, saw_data,
    frames,         \* what the stream yielded, in order
    phase           \* "read", "finish", "ended" or "aborted"

decoderVars == <<buffer, data_lines, event_type, last_event_id, saw_data>>
vars == <<body, pos, torn, decoderVars, frames, phase>>

Default == <<"message">>

(* An Option is a sequence of at most one value.                           *)
None == <<>>

Some(value) == <<value>>

-----------------------------------------------------------------------------
(* Text *)

(* A whole character begins at i.                                          *)
WholeAt(s, i) == i \in 1..(Len(s) - 1) /\ s[i] = Byte1 /\ s[i + 1] = Byte2

(* What byte i adds to the text: a stray byte of a character is replaced.  *)
TextAt(s, i) ==
    IF WholeAt(s, i) THEN <<>>
    ELSE IF WholeAt(s, i - 1) THEN <<Char>>
    ELSE IF s[i] \in {Byte1, Byte2} THEN <<Replacement>> ELSE <<s[i]>>

(* String::from_utf8_lossy                                                 *)
LossyUtf8(s) == FlattenSeq([i \in DOMAIN s |-> TextAt(s, i)])

Terminators(s) == {i \in DOMAIN s : s[i] \in {CR, LF}}

HasLine(s) == Terminators(s) # {}

FirstEnd(s) == Min(Terminators(s))

FirstLine(s) == SubSeq(s, 1, FirstEnd(s) - 1)

(* take_line: \r\n counts once, if both bytes are there.                   *)
Rest(s) ==
    LET e == FirstEnd(s)
        crlf == s[e] = CR /\ e < Len(s) /\ s[e + 1] = LF
    IN  SubSeq(s, IF crlf THEN e + 2 ELSE e + 1, Len(s))

-----------------------------------------------------------------------------
(* The decoder *)

Init ==
    /\ body \in Body /\ pos = 0 /\ torn = FALSE
    /\ buffer = <<>> /\ data_lines = <<>> /\ saw_data = FALSE
    /\ event_type = None /\ last_event_id = None
    /\ frames = <<>> /\ phase = "read"

FlushThen(lines) ==
    /\ saw_data' = FALSE /\ data_lines' = lines /\ event_type' = None
    /\ frames' = IF saw_data
                 THEN Append(frames, [event |-> IF event_type = None THEN Default ELSE event_type[1],
                                      data |-> data_lines, id |-> last_event_id])
                 ELSE frames

FlushKeepsData == FlushThen(data_lines)

(* Dispatch the buffered frame, if it has data.                            *)
Flush == FlushThen(<<>>)

(* The value a line gives a field; an id with a NUL is not taken.          *)
Gives(line, field) ==
    /\ line # <<>> /\ Head(line) = field
    /\ field = IdField => Nul \notin Range(Tail(line))

(* A non-empty line: comments and unknown fields are ignored.              *)
Accumulate(line) ==
    /\ data_lines' = IF Gives(line, DataField) THEN Append(data_lines, Tail(line)) ELSE data_lines
    /\ saw_data' = (saw_data \/ Gives(line, DataField))
    /\ event_type' = IF Gives(line, EventField) THEN Some(Tail(line)) ELSE event_type
    /\ last_event_id' = IF Gives(line, IdField) THEN Some(Tail(line)) ELSE last_event_id
    /\ UNCHANGED frames

FeedLine(line) ==
    IF line = <<>> THEN Flush /\ UNCHANGED last_event_id ELSE Accumulate(line)

(* A chunk that ends at i cuts a CRLF or a character in two.               *)
Tears(i) ==
    i < Len(body) /\ <<body[i], body[i + 1]>> \in {<<CR, LF>>, <<Byte1, Byte2>>}

PushOnto(buffered, n) ==
    /\ phase = "read" /\ ~HasLine(buffer) /\ pos + n <= Len(body)
    /\ buffer' = buffered \o LossyUtf8(SubSeq(body, pos + 1, pos + n))
    /\ pos' = pos + n /\ torn' = (torn \/ Tears(pos + n))
    /\ UNCHANGED <<body, data_lines, event_type, last_event_id, saw_data, frames, phase>>

PushDropsBuffer(n) == PushOnto(<<>>, n)

(* A chunk of n bytes is decoded as text of its own and buffered.          *)
Push(n) == PushOnto(buffer, n)

(* One round of push's loop over the complete lines of the buffer.         *)
TakeLine ==
    /\ phase = "read" /\ HasLine(buffer)
    /\ FeedLine(FirstLine(buffer))
    /\ buffer' = Rest(buffer)
    /\ UNCHANGED <<body, pos, torn, phase>>

(* The body ends: finish() feeds what is left in the buffer ...            *)
Finish ==
    /\ phase = "read" /\ ~HasLine(buffer) /\ pos = Len(body)
    /\ IF buffer = <<>> THEN UNCHANGED <<data_lines, event_type, last_event_id, saw_data, frames>>
       ELSE FeedLine(buffer)
    /\ buffer' = <<>> /\ phase' = "finish"
    /\ UNCHANGED <<body, pos, torn>>

FinishNoFlush ==
    /\ phase = "finish" /\ phase' = "ended"
    /\ UNCHANGED <<body, pos, torn, decoderVars, frames>>

(* ... and then flushes.                                                   *)
FinishFlush ==
    /\ phase = "finish" /\ phase' = "ended"
    /\ Flush
    /\ UNCHANGED <<body, pos, torn, buffer, last_event_id>>

(* The transport fails: an error item ends the stream, nothing is flushed. *)
Abort ==
    /\ phase = "read" /\ ~HasLine(buffer) /\ phase' = "aborted"
    /\ UNCHANGED <<body, pos, torn, decoderVars, frames>>

Next == (\E n \in 1..Len(body) : Push(n)) \/ TakeLine \/ Finish \/ FinishFlush \/ Abort

Spec == Init /\ [][Next]_vars

-----------------------------------------------------------------------------
(* What a body means, read at once *)

(* Line ends: a CR, or an LF that does not complete a CRLF.                *)
LineEnds(s) == {i \in Terminators(s) : ~(s[i] = LF /\ i > 1 /\ s[i - 1] = CR)}

(* The line that ends at i starts after the previous terminator.           *)
LineAt(s, i) ==
    SubSeq(s, 1 + Max({0} \cup {j \in Terminators(s) : j < i}), i - 1)

LinesOf(s) ==
    FlattenSeq([i \in DOMAIN s |-> IF i \in LineEnds(s) THEN <<LineAt(s, i)>> ELSE <<>>])

(* The last blank line before line k.                                      *)
BlankBefore(lines, k) == Max({0} \cup {j \in 1..(k - 1) : lines[j] = <<>>})

(* The values the lines after line n and before line k give a field.       *)
ValuesBetween(lines, n, k, field) ==
    FlattenSeq([j \in 1..(k - 1) |->
        IF j > n /\ Gives(lines[j], field) THEN <<Tail(lines[j])>> ELSE <<>>])

LastOf(values) == IF values = <<>> THEN None ELSE Some(Last(values))

(* The frame a blank line k closes: the data lines since the previous one. *)
FrameAt(lines, k) ==
    LET block(field) == ValuesBetween(lines, BlankBefore(lines, k), k, field)
        event == LastOf(block(EventField))
    IN  [event |-> IF event = None THEN Default ELSE event[1],
         data |-> block(DataField),
         id |-> LastOf(ValuesBetween(lines, 0, k, IdField))]

(* A blank line closes a frame only if data came before it.                *)
FramesIn(lines) ==
    FlattenSeq([k \in DOMAIN lines |->
        IF lines[k] = <<>> /\ FrameAt(lines, k).data # <<>> THEN <<FrameAt(lines, k)>> ELSE <<>>])

FramesOf(bytes) == FramesIn(LinesOf(LossyUtf8(bytes)))

Arrived == SubSeq(body, 1, pos)

(***************************************************************************)
(* Type invariant.                                                         *)
(***************************************************************************)
TypeOK ==
    /\ pos \in 0..Len(body)
    /\ phase \in {"read", "finish", "ended", "aborted"}
    /\ saw_data = (data_lines # <<>>)
    /\ Len(buffer) <= pos

(* The decoder has taken every complete line, and waits for bytes or ended.*)
Waiting == (phase = "read" /\ ~HasLine(buffer)) \/ phase = "aborted"

(***************************************************************************)
(* Chunk boundaries that leave CRLFs and characters whole do not matter:   *)
(* whenever the decoder waits for bytes, it has yielded exactly the frames *)
(* of what has arrived, types, data and ids included; and a transport      *)
(* error yields no half-received frame.                                    *)
(***************************************************************************)
DecodesWhatArrived == Waiting /\ ~torn => frames = FramesOf(Arrived)

LastLineComplete == body = <<>> \/ Last(body) \in {CR, LF}

(***************************************************************************)
(* The end of the body closes its last frame, as if a blank line followed: *)
(* data that no blank line closed is not lost.  Nothing is claimed of a    *)
(* body that ends within a line: that line is fed to the decoder by the    *)
(* code (and one of its tests), and discarded by the comment in finish().  *)
(***************************************************************************)
TrailingFrameDispatched ==
    phase = "ended" /\ ~torn /\ LastLineComplete => frames = FramesOf(body \o <<LF, LF>>)

(***************************************************************************)
(* What the decoder's doc says: it is safe to feed arbitrary chunk         *)
(* boundaries.  Violated: each chunk is decoded as text of its own, so a   *)
(* character cut in two is replaced.                                       *)
(***************************************************************************)
SafeAtAnyBoundary == Waiting => frames = FramesOf(Arrived)

=============================================================================
