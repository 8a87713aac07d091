------------------------------ MODULE Decoder ------------------------------
(***************************************************************************)
(* decode_document, decode_utf8 and decode_utf16 of parser_core.cpp: the   *)
(* bytes of a document are turned into characters with locations before    *)
(* the first event.  Offsets count from 0, as in the code.                 *)
(*                                                                         *)
(* An exception carries the location the tracker is at, but for the two    *)
(* thrown before the encoding is known, which carry the default.           *)
(***************************************************************************)
EXTENDS Characters, SequencesExt

CONSTANTS
    Inputs,               \* the documents
    Versions,             \* options.version, of "Xml10" and "Xml11"
    max_document_bytes

Bytes(from, to) == from .. to

ASSUME InputsAssumption ==
    /\ Inputs \subseteq Seq(Bytes(0, \hFF))
    /\ Versions \subseteq {"Xml10", "Xml11"}
    /\ max_document_bytes \in Nat

VARIABLES
    xml,
    version,
    pc,           \* "start", an encoding while decoding, "done" or "failed"
    offset,
    chars,        \* decoded so far, each with its location
    line, column, \* LocationTracker
    error         \* kind of the exception thrown

input == <<xml, version>>
tracker == <<line, column>>
vars == <<input, pc, offset, chars, tracker, error>>

Encodings == {"Utf8", "Utf16LE", "Utf16BE"}

Init ==
    /\ xml \in Inputs
    /\ version \in Versions
    /\ pc = "start"
    /\ offset = 0
    /\ chars = <<>>
    /\ line = 1 /\ column = 1
    /\ error = "none"

fail(kind) == pc' = "failed" /\ error' = kind

byte(i) == xml[i + 1]

Remaining == Len(xml) - offset

\* The encoding a byte order mark tells, and the mark's length.
Detected ==
    IF IsPrefix(<<\hEF, \hBB, \hBF>>, xml) THEN <<"Utf8", 3>>
    ELSE IF IsPrefix(<<\hFF, \hFE>>, xml) THEN <<"Utf16LE", 2>>
    ELSE IF IsPrefix(<<\hFE, \hFF>>, xml) THEN <<"Utf16BE", 2>>
    ELSE <<"Utf8", 0>>

decode_document ==
    /\ pc = "start"
    /\ \/ xml = <<>> /\ fail("EmptyInput") /\ UNCHANGED offset
       \/ Len(xml) > max_document_bytes /\ fail("ResourceLimit") /\ UNCHANGED offset
       \/ /\ Len(xml) \in 1..max_document_bytes
          /\ pc' = Detected[1]
          /\ offset' = Detected[2]
          /\ UNCHANGED error
    /\ UNCHANGED <<input, chars, tracker>>

-----------------------------------------------------------------------------
\* The width a lead byte announces and the bits it carries itself; 0 for a
\* byte that leads nothing.
Width(b) == CASE b < \h80           -> 1
              [] b \in Bytes(\hC0, \hDF) -> 2
              [] b \in Bytes(\hE0, \hEF) -> 3
              [] b \in Bytes(\hF0, \hF7) -> 4
              [] OTHER              -> 0

LeadBits(b) == b % (CASE Width(b) = 1 -> 2^7 [] Width(b) = 2 -> 2^5
                      [] Width(b) = 3 -> 2^4 [] OTHER -> 2^3)

IsContinuation(b) == b \in Bytes(\h80, \hBF)

width == Width(byte(offset))

Utf8Complete == width <= Remaining

\* Six bits of each byte that follows, one more byte at each turn of the loop.
ContinuationBits(i) == byte(offset + i) % 64

Utf8Value ==
    LET after0 == LeadBits(byte(offset))
        after1 == after0 * 64 + ContinuationBits(1)
        after2 == after1 * 64 + ContinuationBits(2)
        after3 == after2 * 64 + ContinuationBits(3)
    IN  CASE width <= 1 -> after0
          [] width = 2  -> after1
          [] width = 3  -> after2
          [] width = 4  -> after3

IsSurrogate(value) == value >= \hD800 /\ value <= \hDFFF

\* The mistake of leaving overlong forms of three bytes in.
IsScalar_overlong(value) ==
    /\ width = 2 => value >= \h80
    /\ width = 4 => value >= \h10000
    /\ value <= \h10FFFF
    /\ ~IsSurrogate(value)

IsScalar(value) ==
    /\ width = 2 => value >= \h80
    /\ width = 3 => value >= \h800
    /\ width = 4 => value >= \h10000
    /\ value <= \h10FFFF
    /\ ~IsSurrogate(value)

Utf8Accepted ==
    /\ width # 0
    /\ Utf8Complete
    /\ \A i \in 1..(width - 1) : IsContinuation(byte(offset + i))
    /\ IsScalar(Utf8Value)

\* The mistake of a new line that does not go back to the first column.
Advance_line(value) ==
    IF value = \hA THEN line' = line + 1 /\ column' = column
    ELSE line' = line /\ column' = column + 1

\* LocationTracker::advance.
Advance(value) ==
    IF value = \hA THEN line' = line + 1 /\ column' = 1
    ELSE line' = line /\ column' = column + 1

\* The mistake of moving on by a byte too many.
following_wide(size) == offset + size + 1

following(size) == offset + size

decoded(value, size) ==
    IF is_valid_xml_char(value, version)
    THEN /\ chars' = Append(chars, [value |-> value, line |-> line, column |-> column,
                                    byte_offset |-> offset])
         /\ Advance(value)
         /\ offset' = following(size)
         /\ UNCHANGED <<pc, error>>
    ELSE fail("WellFormedness") /\ UNCHANGED <<chars, tracker, offset>>

refused == fail("Encoding") /\ UNCHANGED <<chars, tracker, offset>>

decode_utf8 ==
    /\ pc = "Utf8" /\ Remaining > 0
    /\ \/ ~Utf8Accepted /\ refused
       \/ Utf8Accepted /\ decoded(Utf8Value, width)
    /\ UNCHANGED input

-----------------------------------------------------------------------------
read_unit(i) == IF pc = "Utf16LE" THEN byte(i) + 256 * byte(i + 1)
                ELSE 256 * byte(i) + byte(i + 1)

unit == read_unit(offset)
trail == read_unit(offset + 2)

IsLead(u) == u >= \hD800 /\ u <= \hDBFF

IsTrail(u) == u >= \hDC00 /\ u <= \hDFFF

Utf16Value == IF IsLead(unit) THEN \h10000 + ((unit - \hD800) * 2^10) + (trail - \hDC00)
              ELSE unit

decode_utf16 ==
    /\ pc \in {"Utf16LE", "Utf16BE"} /\ Remaining > 0
    /\ \/ Remaining < 2 /\ refused
       \/ Remaining >= 2 /\ IsTrail(unit) /\ refused
       \/ Remaining \in 2..3 /\ IsLead(unit) /\ refused
       \/ Remaining >= 4 /\ IsLead(unit) /\ ~IsTrail(trail) /\ refused
       \/ Remaining >= 4 /\ IsLead(unit) /\ IsTrail(trail) /\ decoded(Utf16Value, 4)
       \/ Remaining >= 2 /\ ~IsSurrogate(unit) /\ decoded(Utf16Value, 2)
    /\ UNCHANGED input

NothingDecoded == chars = <<>>

end_of_input ==
    /\ pc \in Encodings /\ Remaining <= 0
    /\ IF NothingDecoded THEN fail("EmptyInput") ELSE pc' = "done" /\ UNCHANGED error
    /\ UNCHANGED <<input, offset, chars, tracker>>

Next == decode_document \/ decode_utf8 \/ decode_utf16 \/ end_of_input

Spec == Init /\ [][Next]_vars

-----------------------------------------------------------------------------
(* Properties.                                                              *)

CodePoints == {v \in Nat : v <= \h10FFFF}

Chars == [value : CodePoints, line : Nat \ {0}, column : Nat \ {0}, byte_offset : Nat]

\* The offset never passes the end of the input, so no byte outside it is
\* read.
TypeOK ==
    /\ xml \in Inputs /\ version \in Versions
    /\ pc \in {"start", "done", "failed"} \cup Encodings
    /\ offset \in 0..Len(xml)
    /\ chars \in Seq(Chars)
    /\ line \in Nat \ {0} /\ column \in Nat \ {0}
    /\ error \in {"none", "EmptyInput", "ResourceLimit", "Encoding", "WellFormedness"}

\* The well-formed sequences of UTF-8, byte range by byte range, as the
\* Unicode standard tabulates them.
Tail80 == Bytes(\h80, \hBF)
WellFormedUtf8 == {
    <<Bytes(\h00, \h7F)>>,
    <<Bytes(\hC2, \hDF), Tail80>>,
    <<{\hE0}, Bytes(\hA0, \hBF), Tail80>>,
    <<Bytes(\hE1, \hEC), Tail80, Tail80>>,
    <<{\hED}, Bytes(\h80, \h9F), Tail80>>,
    <<Bytes(\hEE, \hEF), Tail80, Tail80>>,
    <<{\hF0}, Bytes(\h90, \hBF), Tail80, Tail80>>,
    <<Bytes(\hF1, \hF3), Tail80, Tail80, Tail80>>,
    <<{\hF4}, Bytes(\h80, \h8F), Tail80, Tail80>>}

\* The same for UTF-16: the high bytes of one or two units.
WellFormedUtf16 == {
    <<Bytes(0, \hFF) \ Bytes(\hD8, \hDF)>>,
    <<Bytes(\hD8, \hDB), Bytes(\hDC, \hDF)>>}

HighByte(i) == IF Detected[1] = "Utf16LE" THEN byte(i + 1) ELSE byte(i)

WellFormedAt(at) ==
    IF Detected[1] = "Utf8"
    THEN \E ranges \in WellFormedUtf8 :
            /\ at + Len(ranges) <= Len(xml)
            /\ \A i \in DOMAIN ranges : byte(at + i - 1) \in ranges[i]
    ELSE \E ranges \in WellFormedUtf16 :
            /\ at + 2 * Len(ranges) <= Len(xml)
            /\ \A i \in DOMAIN ranges : HighByte(at + 2 * (i - 1)) \in ranges[i]

\* Invariant: input is refused for its encoding exactly where no well-formed
\* sequence starts, whether cut short, overlong, a surrogate or out of range
\* (decode_utf8 and decode_utf16).
RefusesTheIllFormed ==
    /\ error = "Encoding" => ~WellFormedAt(offset)
    /\ error = "WellFormedness" => WellFormedAt(offset)
    /\ \A i \in DOMAIN chars : WellFormedAt(chars[i].byte_offset)

\* A character written in the encoding of the input.
Units(value) ==
    IF value < \h10000 THEN <<value>>
    ELSE LET v == value - \h10000 IN <<\hD800 + (v \div 2^10), \hDC00 + (v % 2^10)>>

WrittenUnit(u) == IF Detected[1] = "Utf16LE" THEN <<u % 256, u \div 256>>
                  ELSE <<u \div 256, u % 256>>

Written(value) ==
    IF Detected[1] = "Utf8" THEN append_utf8(value)
    ELSE IF Len(Units(value)) = 1 THEN WrittenUnit(Units(value)[1])
    ELSE WrittenUnit(Units(value)[1]) \o WrittenUnit(Units(value)[2])

\* Where the bytes of a character start; those of the next one, or what is not
\* read yet, where they end.
StartOf(i) == IF i <= Len(chars) THEN chars[i].byte_offset ELSE offset

\* Invariant: the characters, written out again one after the other, are the
\* bytes read, from the byte order mark on and with nothing between them, so
\* what append_utf8 gives a handler is what a UTF-8 document holds; and a
\* document is decoded to its last byte, into at least one character and XML
\* characters only, or nothing of it is handed on.
DecodesTheInput ==
    /\ pc # "start" /\ error # "ResourceLimit" =>
          /\ StartOf(1) = Detected[2]
          /\ \A i \in DOMAIN chars :
                Written(chars[i].value) = SubSeq(xml, StartOf(i) + 1, StartOf(i + 1))
    /\ pc = "done" =>
          /\ offset = Len(xml) /\ chars # <<>>
          /\ \A i \in DOMAIN chars : is_valid_xml_char(chars[i].value, version)

\* The line feeds before a character, and the last of them, 0 if there is none.
BreaksBefore(i) == {j \in 1..(i - 1) : chars[j].value = \hA}

LastOf(breaks) ==
    IF breaks = {} THEN 0 ELSE CHOOSE j \in breaks : \A k \in breaks : k <= j

\* Invariant: a character's location is the number of line feeds before it,
\* its distance from the last of them, and where its bytes start; offsets
\* only go up (ARCHITECTURE.md:130, "byte offset monotonicity").
LocationsAreRight ==
    \A i \in DOMAIN chars :
        /\ chars[i].line = 1 + Cardinality(BreaksBefore(i))
        /\ chars[i].column = i - LastOf(BreaksBefore(i))
        /\ \A j \in 1..(i - 1) : chars[j].byte_offset < chars[i].byte_offset
=============================================================================
