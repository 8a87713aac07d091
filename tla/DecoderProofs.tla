--------------------------- MODULE DecoderProofs ---------------------------
(***************************************************************************)
(* The decoder is right for every document, of whatever bytes and length:  *)
(* it refuses what is not well-formed and nothing else, the characters it  *)
(* makes are the bytes it read, and each has its location.                 *)
(*                                                                         *)
(* The arithmetic comes first, one lemma for each width of UTF-8 and one   *)
(* for each kind of unit of UTF-16 (Utf8Exact and Utf16Exact are what the  *)
(* rest uses), then the invariant, with the tracker and the boundaries of  *)
(* the characters in it, then a lemma for each way a step can go.          *)
(*                                                                         *)
(* Ranges of bytes are written Bytes(from, to) or as inequalities: the     *)
(* provers would take an interval of literals apart, number by number.     *)
(***************************************************************************)
EXTENDS Decoder, SequenceLemmas, FiniteSetTheorems

-----------------------------------------------------------------------------
(* The arithmetic of UTF-8.                                                 *)

\* What is left of a byte without the bits that mark it.
LEMMA Payload ==
    ASSUME NEW b \in Nat, b <= 255
    PROVE  /\ b >= \h80 /\ b <= \hBF => b % 64 = b - \h80
           /\ b >= \hC0 /\ b <= \hDF => b % 2^5 = b - \hC0
           /\ b >= \hE0 /\ b <= \hEF => b % 2^4 = b - \hE0
           /\ b >= \hF0 /\ b <= \hF7 => b % 2^3 = b - \hF0
OBVIOUS

\* The six bits that Continuation takes out.
LEMMA SixBits ==
    ASSUME NEW v \in Nat
    PROVE  /\ Continuation(v, 0) = \h80 + (v % 64)
           /\ Continuation(v, 6) = \h80 + ((v \div 2^6) % 64)
           /\ Continuation(v, 12) = \h80 + ((v \div 2^12) % 64)
<1>1. v \div 2^0 = v
    OBVIOUS
<1> QED
    BY <1>1 DEF Continuation

\* The numbers made of six bits of each byte but the first.
Two(h, m) == h * 64 + m
Three(h, m, l) == (h * 64 + m) * 64 + l
Four(h, m, l, k) == ((h * 64 + m) * 64 + l) * 64 + k

\* What two bytes of UTF-8 stand for: where it is an overlong form, and that
\* append_utf8 takes it apart again.
LEMMA TwoBytes ==
    ASSUME NEW h \in Nat, h <= 31, NEW m \in Nat, m <= 63
    PROVE  /\ Two(h, m) \in Nat
           /\ Two(h, m) <= \h7FF
           /\ ~IsSurrogate(Two(h, m))
           /\ Two(h, m) >= \h80 <=> h >= 2
           /\ Two(h, m) \div 2^6 = h
           /\ Continuation(Two(h, m), 0) = \h80 + m
<1> DEFINE v == h * 64 + m
<1>1. v \in Nat
    OBVIOUS
<1>2. v <= \h7FF
    OBVIOUS
<1>3. v >= \h80 <=> h >= 2
    OBVIOUS
<1>4. v % 64 = m /\ v \div 2^6 = h
    OBVIOUS
<1> HIDE DEF v
<1>5. Continuation(v, 0) = \h80 + m
    BY <1>1, <1>4, SixBits
<1>6. ~IsSurrogate(v)
    BY <1>1, <1>2 DEF IsSurrogate
<1> QED
    BY <1>1, <1>2, <1>3, <1>4, <1>5, <1>6 DEF Two, v

\* The same of three bytes, with the surrogates.
LEMMA ThreeBytes ==
    ASSUME NEW h \in Nat, h <= 15, NEW m \in Nat, m <= 63, NEW l \in Nat, l <= 63
    PROVE  /\ Three(h, m, l) \in Nat
           /\ Three(h, m, l) <= \hFFFF
           /\ Three(h, m, l) >= \h800 <=> h > 0 \/ m >= 32
           /\ IsSurrogate(Three(h, m, l)) <=> h = 13 /\ m >= 32
           /\ Three(h, m, l) \div 2^12 = h
           /\ Continuation(Three(h, m, l), 6) = \h80 + m
           /\ Continuation(Three(h, m, l), 0) = \h80 + l
<1> DEFINE v == (h * 64 + m) * 64 + l
<1>1. v \in Nat
    OBVIOUS
<1>2. v <= \hFFFF
    OBVIOUS
<1>3. v >= \h800 <=> h > 0 \/ m >= 32
    OBVIOUS
<1>4. v >= \hD800 /\ v <= \hDFFF <=> h = 13 /\ m >= 32
    OBVIOUS
<1>5. v \div 2^12 = h
    OBVIOUS
<1>6. v % 64 = l /\ (v \div 2^6) % 64 = m
    OBVIOUS
<1> HIDE DEF v
<1>7. Continuation(v, 6) = \h80 + m
    BY <1>1, <1>6, SixBits
<1>8. Continuation(v, 0) = \h80 + l
    BY <1>1, <1>6, SixBits
<1>9. IsSurrogate(v) <=> h = 13 /\ m >= 32
    BY <1>4 DEF IsSurrogate
<1> QED
    BY <1>1, <1>2, <1>3, <1>5, <1>7, <1>8, <1>9 DEF Three, v

\* The same of four bytes, with the end of the range.
LEMMA FourBytes ==
    ASSUME NEW h \in Nat, h <= 7, NEW m \in Nat, m <= 63, NEW l \in Nat, l <= 63, NEW k \in Nat, k <= 63
    PROVE  /\ Four(h, m, l, k) \in Nat
           /\ Four(h, m, l, k) >= \h10000 <=> h > 0 \/ m >= 16
           /\ Four(h, m, l, k) <= \h10FFFF <=> h < 4 \/ (h = 4 /\ m <= 15)
           /\ Four(h, m, l, k) \div 2^18 = h
           /\ Continuation(Four(h, m, l, k), 12) = \h80 + m
           /\ Continuation(Four(h, m, l, k), 6) = \h80 + l
           /\ Continuation(Four(h, m, l, k), 0) = \h80 + k
<1> DEFINE v == ((h * 64 + m) * 64 + l) * 64 + k
<1>1. v \in Nat
    OBVIOUS
<1>2. v >= \h10000 <=> h > 0 \/ m >= 16
    OBVIOUS
<1>3. v <= \h10FFFF <=> h < 4 \/ (h = 4 /\ m <= 15)
    OBVIOUS
<1>4. v \div 2^18 = h
    OBVIOUS
<1>5. v % 64 = k /\ (v \div 2^6) % 64 = l /\ (v \div 2^12) % 64 = m
    OBVIOUS
<1> HIDE DEF v
<1>6. Continuation(v, 12) = \h80 + m
    BY <1>1, <1>5, SixBits
<1>7. Continuation(v, 6) = \h80 + l
    BY <1>1, <1>5, SixBits
<1>8. Continuation(v, 0) = \h80 + k
    BY <1>1, <1>5, SixBits
<1> QED
    BY <1>1, <1>2, <1>3, <1>4, <1>6, <1>7, <1>8 DEF Four, v

-----------------------------------------------------------------------------
(* The bytes of the input.                                                  *)

\* A range of bytes.
LEMMA ByteRange ==
    ASSUME NEW from \in Int, NEW to \in Int, NEW b
    PROVE  b \in Bytes(from, to) <=> b \in Int /\ from <= b /\ b <= to
BY DEF Bytes

\* The document is a sequence of bytes.
LEMMA InputBytes ==
    ASSUME TypeOK
    PROVE  /\ xml \in Seq(Bytes(0, \hFF)) /\ Len(xml) \in Nat
           /\ offset \in Nat /\ offset <= Len(xml)
           /\ \A i \in 0..(Len(xml) - 1) : byte(i) \in Bytes(0, \hFF)
<1>1. xml \in Seq(Bytes(0, \hFF)) /\ offset \in 0..Len(xml)
    BY InputsAssumption DEF TypeOK
<1>2. Len(xml) \in Nat /\ \A k \in 1..Len(xml) : xml[k] \in Bytes(0, \hFF)
    BY <1>1, LenProperties, ElementOfSeq
<1>3. ASSUME NEW i \in 0..(Len(xml) - 1)
      PROVE  byte(i) \in Bytes(0, \hFF)
    <2>1. i + 1 \in 1..Len(xml)
        BY <1>2
    <2> QED
        BY <1>2, <2>1 DEF byte
<1> QED
    BY <1>1, <1>2, <1>3

\* The byte at a place before the end.
LEMMA ByteAt ==
    ASSUME TypeOK, NEW i \in Nat, i < Len(xml)
    PROVE  byte(i) \in Nat /\ byte(i) <= 255
<1>1. i \in 0..(Len(xml) - 1)
    BY InputBytes
<1>2. byte(i) \in Bytes(0, \hFF)
    BY <1>1, InputBytes
<1> QED
    BY <1>2, ByteRange

\* Whether the bytes from a place on lie in the ranges of a row of the table.
MatchesAt(at, ranges) ==
    /\ at + Len(ranges) <= Len(xml)
    /\ \A i \in DOMAIN ranges : byte(at + i - 1) \in ranges[i]

\* A row of one range.
LEMMA Match1 ==
    ASSUME NEW at \in Nat, NEW A
    PROVE  MatchesAt(at, <<A>>) <=> at + 1 <= Len(xml) /\ byte(at) \in A
<1>1. Len(<<A>>) = 1 /\ DOMAIN <<A>> = {1} /\ <<A>>[1] = A
    OBVIOUS
<1>2. at + 1 - 1 = at
    OBVIOUS
<1> QED
    BY <1>1, <1>2, Zenon DEF MatchesAt

\* A row of two ranges.
LEMMA Match2 ==
    ASSUME NEW at \in Nat, NEW A, NEW B
    PROVE  MatchesAt(at, <<A, B>>) <=>
              at + 2 <= Len(xml) /\ byte(at) \in A /\ byte(at + 1) \in B
<1>1. Len(<<A, B>>) = 2 /\ DOMAIN <<A, B>> = {1, 2} /\ <<A, B>>[1] = A /\ <<A, B>>[2] = B
    OBVIOUS
<1>2. at + 1 - 1 = at /\ at + 2 - 1 = at + 1
    OBVIOUS
<1> QED
    BY <1>1, <1>2, Zenon DEF MatchesAt

\* A row of three ranges.
LEMMA Match3 ==
    ASSUME NEW at \in Nat, NEW A, NEW B, NEW C
    PROVE  MatchesAt(at, <<A, B, C>>) <=>
              at + 3 <= Len(xml) /\ byte(at) \in A /\ byte(at + 1) \in B /\ byte(at + 2) \in C
<1>1. /\ Len(<<A, B, C>>) = 3 /\ DOMAIN <<A, B, C>> = {1, 2, 3}
      /\ <<A, B, C>>[1] = A /\ <<A, B, C>>[2] = B /\ <<A, B, C>>[3] = C
    OBVIOUS
<1>2. at + 1 - 1 = at /\ at + 2 - 1 = at + 1 /\ at + 3 - 1 = at + 2
    OBVIOUS
<1> QED
    BY <1>1, <1>2, Zenon DEF MatchesAt

\* A row of four ranges.
LEMMA Match4 ==
    ASSUME NEW at \in Nat, NEW A, NEW B, NEW C, NEW D
    PROVE  MatchesAt(at, <<A, B, C, D>>) <=>
              /\ at + 4 <= Len(xml) /\ byte(at) \in A /\ byte(at + 1) \in B
              /\ byte(at + 2) \in C /\ byte(at + 3) \in D
<1>1. /\ Len(<<A, B, C, D>>) = 4 /\ DOMAIN <<A, B, C, D>> = {1, 2, 3, 4}
      /\ <<A, B, C, D>>[1] = A /\ <<A, B, C, D>>[2] = B /\ <<A, B, C, D>>[3] = C
      /\ <<A, B, C, D>>[4] = D
    OBVIOUS
<1>2. at + 1 - 1 = at /\ at + 2 - 1 = at + 1 /\ at + 3 - 1 = at + 2 /\ at + 4 - 1 = at + 3
    OBVIOUS
<1> QED
    BY <1>1, <1>2, Zenon DEF MatchesAt

\* The table of UTF-8 with its rows written out.
InTable(at) ==
    \/ at + 1 <= Len(xml) /\ byte(at) \in Bytes(\h00, \h7F)
    \/ at + 2 <= Len(xml) /\ byte(at) \in Bytes(\hC2, \hDF) /\ byte(at + 1) \in Tail80
    \/ at + 3 <= Len(xml) /\ byte(at + 2) \in Tail80 /\
          \/ byte(at) \in {\hE0} /\ byte(at + 1) \in Bytes(\hA0, \hBF)
          \/ byte(at) \in Bytes(\hE1, \hEC) /\ byte(at + 1) \in Tail80
          \/ byte(at) \in {\hED} /\ byte(at + 1) \in Bytes(\h80, \h9F)
          \/ byte(at) \in Bytes(\hEE, \hEF) /\ byte(at + 1) \in Tail80
    \/ at + 4 <= Len(xml) /\ byte(at + 2) \in Tail80 /\ byte(at + 3) \in Tail80 /\
          \/ byte(at) \in {\hF0} /\ byte(at + 1) \in Bytes(\h90, \hBF)
          \/ byte(at) \in Bytes(\hF1, \hF3) /\ byte(at + 1) \in Tail80
          \/ byte(at) \in {\hF4} /\ byte(at + 1) \in Bytes(\h80, \h8F)

\* In a document in UTF-8, well-formed is what the table says.
LEMMA Utf8Table ==
    ASSUME NEW at \in Nat, Detected[1] = "Utf8"
    PROVE  WellFormedAt(at) <=> InTable(at)
<1>1. WellFormedAt(at) <=> \E ranges \in WellFormedUtf8 : MatchesAt(at, ranges)
    BY DEF WellFormedAt, MatchesAt
<1> DEFINE R1 == <<Bytes(\h00, \h7F)>>
           R2 == <<Bytes(\hC2, \hDF), Tail80>>
           R3 == <<{\hE0}, Bytes(\hA0, \hBF), Tail80>>
           R4 == <<Bytes(\hE1, \hEC), Tail80, Tail80>>
           R5 == <<{\hED}, Bytes(\h80, \h9F), Tail80>>
           R6 == <<Bytes(\hEE, \hEF), Tail80, Tail80>>
           R7 == <<{\hF0}, Bytes(\h90, \hBF), Tail80, Tail80>>
           R8 == <<Bytes(\hF1, \hF3), Tail80, Tail80, Tail80>>
           R9 == <<{\hF4}, Bytes(\h80, \h8F), Tail80, Tail80>>
<1>2. WellFormedUtf8 = {R1, R2, R3, R4, R5, R6, R7, R8, R9}
    BY DEF WellFormedUtf8
<1>3. MatchesAt(at, R1) <=> at + 1 <= Len(xml) /\ byte(at) \in Bytes(\h00, \h7F)
    BY Match1
<1>4. MatchesAt(at, R2) <=>
          at + 2 <= Len(xml) /\ byte(at) \in Bytes(\hC2, \hDF) /\ byte(at + 1) \in Tail80
    BY Match2
<1>5. MatchesAt(at, R3) <=>
          /\ at + 3 <= Len(xml) /\ byte(at) \in {\hE0}
          /\ byte(at + 1) \in Bytes(\hA0, \hBF) /\ byte(at + 2) \in Tail80
    BY Match3
<1>6. MatchesAt(at, R4) <=>
          /\ at + 3 <= Len(xml) /\ byte(at) \in Bytes(\hE1, \hEC)
          /\ byte(at + 1) \in Tail80 /\ byte(at + 2) \in Tail80
    BY Match3
<1>7. MatchesAt(at, R5) <=>
          /\ at + 3 <= Len(xml) /\ byte(at) \in {\hED}
          /\ byte(at + 1) \in Bytes(\h80, \h9F) /\ byte(at + 2) \in Tail80
    BY Match3
<1>8. MatchesAt(at, R6) <=>
          /\ at + 3 <= Len(xml) /\ byte(at) \in Bytes(\hEE, \hEF)
          /\ byte(at + 1) \in Tail80 /\ byte(at + 2) \in Tail80
    BY Match3
<1>9. MatchesAt(at, R7) <=>
          /\ at + 4 <= Len(xml) /\ byte(at) \in {\hF0} /\ byte(at + 1) \in Bytes(\h90, \hBF)
          /\ byte(at + 2) \in Tail80 /\ byte(at + 3) \in Tail80
    BY Match4
<1>10. MatchesAt(at, R8) <=>
          /\ at + 4 <= Len(xml) /\ byte(at) \in Bytes(\hF1, \hF3) /\ byte(at + 1) \in Tail80
          /\ byte(at + 2) \in Tail80 /\ byte(at + 3) \in Tail80
    BY Match4
<1>11. MatchesAt(at, R9) <=>
          /\ at + 4 <= Len(xml) /\ byte(at) \in {\hF4} /\ byte(at + 1) \in Bytes(\h80, \h8F)
          /\ byte(at + 2) \in Tail80 /\ byte(at + 3) \in Tail80
    BY Match4
<1> HIDE DEF R1, R2, R3, R4, R5, R6, R7, R8, R9
<1>12. WellFormedAt(at) <=>
          \/ MatchesAt(at, R1) \/ MatchesAt(at, R2) \/ MatchesAt(at, R3)
          \/ MatchesAt(at, R4) \/ MatchesAt(at, R5) \/ MatchesAt(at, R6)
          \/ MatchesAt(at, R7) \/ MatchesAt(at, R8) \/ MatchesAt(at, R9)
    BY <1>1, <1>2, Zenon
<1> DEFINE OfThree == at + 3 <= Len(xml) /\ byte(at + 2) \in Tail80 /\
                      \/ byte(at) \in {\hE0} /\ byte(at + 1) \in Bytes(\hA0, \hBF)
                      \/ byte(at) \in Bytes(\hE1, \hEC) /\ byte(at + 1) \in Tail80
                      \/ byte(at) \in {\hED} /\ byte(at + 1) \in Bytes(\h80, \h9F)
                      \/ byte(at) \in Bytes(\hEE, \hEF) /\ byte(at + 1) \in Tail80
           OfFour == at + 4 <= Len(xml) /\ byte(at + 2) \in Tail80 /\ byte(at + 3) \in Tail80 /\
                      \/ byte(at) \in {\hF0} /\ byte(at + 1) \in Bytes(\h90, \hBF)
                      \/ byte(at) \in Bytes(\hF1, \hF3) /\ byte(at + 1) \in Tail80
                      \/ byte(at) \in {\hF4} /\ byte(at + 1) \in Bytes(\h80, \h8F)
<1>13. OfThree <=> MatchesAt(at, R3) \/ MatchesAt(at, R4) \/ MatchesAt(at, R5) \/ MatchesAt(at, R6)
    BY <1>5, <1>6, <1>7, <1>8
<1>14. OfFour <=> MatchesAt(at, R7) \/ MatchesAt(at, R8) \/ MatchesAt(at, R9)
    BY <1>9, <1>10, <1>11
<1>15. InTable(at) <=> \/ at + 1 <= Len(xml) /\ byte(at) \in Bytes(\h00, \h7F)
                       \/ at + 2 <= Len(xml) /\ byte(at) \in Bytes(\hC2, \hDF) /\ byte(at + 1) \in Tail80
                       \/ OfThree \/ OfFour
    BY DEF InTable
<1> HIDE DEF OfThree, OfFour
<1> QED
    BY <1>3, <1>4, <1>12, <1>13, <1>14, <1>15

\* The width a lead byte announces, and the bits it carries.
LEMMA Leads ==
    ASSUME NEW b \in Nat, b <= 255
    PROVE  /\ Width(b) = 1 <=> b < \h80
           /\ Width(b) = 2 <=> b >= \hC0 /\ b <= \hDF
           /\ Width(b) = 3 <=> b >= \hE0 /\ b <= \hEF
           /\ Width(b) = 4 <=> b >= \hF0 /\ b <= \hF7
           /\ Width(b) = 0 <=> (b >= \h80 /\ b < \hC0) \/ b > \hF7
           /\ Width(b) = 1 => LeadBits(b) = b
           /\ Width(b) = 2 => LeadBits(b) = b - \hC0
           /\ Width(b) = 3 => LeadBits(b) = b - \hE0
           /\ Width(b) = 4 => LeadBits(b) = b - \hF0
<1>1. /\ b \in Bytes(\hC0, \hDF) <=> b >= \hC0 /\ b <= \hDF
      /\ b \in Bytes(\hE0, \hEF) <=> b >= \hE0 /\ b <= \hEF
      /\ b \in Bytes(\hF0, \hF7) <=> b >= \hF0 /\ b <= \hF7
    BY ByteRange
<1>2. b < \h80 => Width(b) = 1
    BY <1>1 DEF Width
<1>3. b >= \hC0 /\ b <= \hDF => Width(b) = 2
    BY <1>1 DEF Width
<1>4. b >= \hE0 /\ b <= \hEF => Width(b) = 3
    BY <1>1 DEF Width
<1>5. b >= \hF0 /\ b <= \hF7 => Width(b) = 4
    BY <1>1 DEF Width
<1>6. (b >= \h80 /\ b < \hC0) \/ b > \hF7 => Width(b) = 0
    BY <1>1 DEF Width
<1>7. /\ Width(b) = 1 <=> b < \h80
      /\ Width(b) = 2 <=> b >= \hC0 /\ b <= \hDF
      /\ Width(b) = 3 <=> b >= \hE0 /\ b <= \hEF
      /\ Width(b) = 4 <=> b >= \hF0 /\ b <= \hF7
      /\ Width(b) = 0 <=> (b >= \h80 /\ b < \hC0) \/ b > \hF7
    BY <1>2, <1>3, <1>4, <1>5, <1>6
<1>8. Width(b) = 1 => LeadBits(b) = b
    BY <1>7 DEF LeadBits
<1>9. Width(b) = 2 => LeadBits(b) = b - \hC0
    BY <1>7, Payload DEF LeadBits
<1>10. Width(b) = 3 => LeadBits(b) = b - \hE0
    BY <1>7, Payload DEF LeadBits
<1>11. Width(b) = 4 => LeadBits(b) = b - \hF0
    BY <1>7, Payload DEF LeadBits
<1> QED
    BY <1>7, <1>8, <1>9, <1>10, <1>11

\* The rows of the table that begin with a byte.
LEMMA Rows ==
    ASSUME NEW a \in Nat, a <= 255
    PROVE  /\ a \in Bytes(\h00, \h7F) <=> a < \h80
           /\ a \in Bytes(\hC2, \hDF) <=> a >= \hC2 /\ a < \hE0
           /\ a \in {\hE0} <=> a = \hE0
           /\ a \in Bytes(\hE1, \hEC) <=> a > \hE0 /\ a < \hED
           /\ a \in {\hED} <=> a = \hED
           /\ a \in Bytes(\hEE, \hEF) <=> a > \hED /\ a < \hF0
           /\ a \in {\hF0} <=> a = \hF0
           /\ a \in Bytes(\hF1, \hF3) <=> a > \hF0 /\ a < \hF4
           /\ a \in {\hF4} <=> a = \hF4
BY ByteRange

\* A byte below 0x80 is a character.
LEMMA Width1 ==
    ASSUME TypeOK, offset < Len(xml), width = 1
    PROVE  /\ Utf8Accepted
           /\ InTable(offset)
           /\ Utf8Value = byte(offset)
           /\ byte(offset) \in Nat /\ byte(offset) <= 127
<1>1. offset \in Nat /\ Len(xml) \in Nat
    BY InputBytes
<1>2. PICK a \in Nat : a <= 255 /\ a = byte(offset)
    BY <1>1, ByteAt
<1>3. Width(a) = 1
    BY <1>2 DEF width
<1>4. a < \h80 /\ LeadBits(a) = a
    BY <1>2, <1>3, Leads
<1>5. Utf8Value = a
    BY <1>2, <1>4 DEF Utf8Value
<1>6. InTable(offset)
    <2>1. a \in Bytes(\h00, \h7F)
        BY <1>2, <1>4, Rows
    <2>2. offset + 1 <= Len(xml)
        BY <1>1
    <2> QED
        BY <1>2, <2>1, <2>2, Zenon DEF InTable
<1>7. Utf8Complete
    BY <1>1 DEF Utf8Complete, Remaining
<1>8. IsScalar(a)
    BY <1>4 DEF IsScalar, IsSurrogate
<1>9. 1..(width - 1) = {}
    OBVIOUS
<1>10. Utf8Accepted
    BY <1>5, <1>7, <1>8, <1>9 DEF Utf8Accepted
<1>11. a \in Nat /\ a <= 127
    BY <1>4
<1> QED
    BY <1>2, <1>5, <1>6, <1>10, <1>11

\* Of the forms of two bytes the overlong ones are refused, and no others.
LEMMA Width2 ==
    ASSUME TypeOK, offset < Len(xml), width = 2
    PROVE  /\ Utf8Accepted <=> InTable(offset)
           /\ Utf8Accepted => /\ offset + 2 <= Len(xml)
                              /\ Utf8Value \in Nat /\ Utf8Value >= \h80 /\ Utf8Value <= \h7FF
                              /\ \hC0 + (Utf8Value \div 2^6) = byte(offset)
                              /\ Continuation(Utf8Value, 0) = byte(offset + 1)
<1> DEFINE b == byte(offset + 1)
<1>1. offset \in Nat /\ Len(xml) \in Nat
    BY InputBytes
<1>2. PICK a \in Nat : a <= 255 /\ a = byte(offset)
    BY <1>1, ByteAt
<1>3. Width(a) = 2
    BY <1>2 DEF width
<1>4. a >= \hC0 /\ a <= \hDF /\ LeadBits(a) = a - \hC0
    BY <1>2, <1>3, Leads
<1>5. Utf8Value = (a - \hC0) * 64 + (b % 64)
    BY <1>2, <1>4 DEF Utf8Value, ContinuationBits
<1>6. Utf8Complete <=> offset + 2 <= Len(xml)
    BY <1>1 DEF Utf8Complete, Remaining
<1>7. 1..(width - 1) = {1}
    OBVIOUS
<1>8. Utf8Accepted <=> offset + 2 <= Len(xml) /\ b \in Tail80 /\ IsScalar(Utf8Value)
    BY <1>6, <1>7 DEF Utf8Accepted, IsContinuation, Tail80
<1>9. /\ a \in Bytes(\hC2, \hDF) <=> a >= \hC2
      /\ a \notin Bytes(\h00, \h7F) /\ a \notin {\hE0} /\ a \notin Bytes(\hE1, \hEC) /\ a \notin {\hED}
      /\ a \notin Bytes(\hEE, \hEF) /\ a \notin {\hF0} /\ a \notin Bytes(\hF1, \hF3) /\ a \notin {\hF4}
    BY <1>2, <1>4, Rows
<1>10. InTable(offset) <=> offset + 2 <= Len(xml) /\ a >= \hC2 /\ b \in Tail80
    BY <1>2, <1>9 DEF InTable
<1> HIDE DEF b
<1>11. ASSUME b \in Tail80
       PROVE  /\ IsScalar(Utf8Value) <=> a >= \hC2
              /\ Utf8Value \in Nat /\ Utf8Value <= \h7FF
              /\ Utf8Value >= \h80 <=> a >= \hC2
              /\ \hC0 + (Utf8Value \div 2^6) = a
              /\ Continuation(Utf8Value, 0) = b
    <2>1. PICK h \in Nat : h <= 31 /\ a = \hC0 + h
        BY <1>4
    <2>2. PICK m \in Nat : m <= 63 /\ b = \h80 + m
        BY <1>11, ByteRange DEF Tail80
    <2>3. b % 64 = m
        BY <2>2
    <2> DEFINE v == Two(h, m)
    <2>4. Utf8Value = v
        BY <1>5, <2>1, <2>3 DEF Two
    <2>5. /\ v \in Nat /\ v <= \h7FF /\ ~IsSurrogate(v)
          /\ v >= \h80 <=> h >= 2
          /\ v \div 2^6 = h
          /\ Continuation(v, 0) = \h80 + m
        BY <2>1, <2>2, TwoBytes
    <2> HIDE DEF v
    <2>6. IsScalar(v) <=> v >= \h80
        BY <2>5 DEF IsScalar
    <2> QED
        BY <2>1, <2>2, <2>4, <2>5, <2>6
<1>12. Utf8Accepted <=> InTable(offset)
    BY <1>8, <1>10, <1>11
<1>13. Utf8Accepted => /\ offset + 2 <= Len(xml)
                       /\ Utf8Value \in Nat /\ Utf8Value >= \h80 /\ Utf8Value <= \h7FF
                       /\ \hC0 + (Utf8Value \div 2^6) = a
                       /\ Continuation(Utf8Value, 0) = b
    BY <1>8, <1>11
<1> QED
    BY <1>2, <1>12, <1>13 DEF b

\* A byte that leads nothing is refused.
LEMMA Width0 ==
    ASSUME TypeOK, offset < Len(xml), width = 0
    PROVE  ~Utf8Accepted /\ ~InTable(offset)
<1>1. offset \in Nat /\ Len(xml) \in Nat
    BY InputBytes
<1>2. PICK a \in Nat : a <= 255 /\ a = byte(offset)
    BY <1>1, ByteAt
<1>3. Width(a) = 0
    BY <1>2 DEF width
<1>4. (a >= \h80 /\ a < \hC0) \/ a > \hF7
    BY <1>2, <1>3, Leads
<1>5. /\ a \notin Bytes(\hC2, \hDF)
      /\ a \notin Bytes(\h00, \h7F) /\ a \notin {\hE0} /\ a \notin Bytes(\hE1, \hEC)
      /\ a \notin {\hED} /\ a \notin Bytes(\hEE, \hEF)
      /\ a \notin {\hF0} /\ a \notin Bytes(\hF1, \hF3) /\ a \notin {\hF4}
    BY <1>2, <1>4, Rows
<1>6. ~InTable(offset)
    BY <1>2, <1>5 DEF InTable
<1> QED
    BY <1>6 DEF Utf8Accepted

\* Of the forms of three bytes the overlong ones and the surrogates are refused.
LEMMA Width3 ==
    ASSUME TypeOK, offset < Len(xml), width = 3
    PROVE  /\ Utf8Accepted <=> InTable(offset)
           /\ Utf8Accepted => /\ offset + 3 <= Len(xml)
                              /\ Utf8Value \in Nat /\ Utf8Value >= \h800 /\ Utf8Value <= \hFFFF
                              /\ \hE0 + (Utf8Value \div 2^12) = byte(offset)
                              /\ Continuation(Utf8Value, 6) = byte(offset + 1)
                              /\ Continuation(Utf8Value, 0) = byte(offset + 2)
<1> DEFINE b == byte(offset + 1)
           c == byte(offset + 2)
<1>1. offset \in Nat /\ Len(xml) \in Nat
    BY InputBytes
<1>2. PICK a \in Nat : a <= 255 /\ a = byte(offset)
    BY <1>1, ByteAt
<1>3. Width(a) = 3
    BY <1>2 DEF width
<1>4. a >= \hE0 /\ a <= \hEF /\ LeadBits(a) = a - \hE0
    BY <1>2, <1>3, Leads
<1>5. Utf8Value = ((a - \hE0) * 64 + (b % 64)) * 64 + (c % 64)
    BY <1>2, <1>4 DEF Utf8Value, ContinuationBits
<1>6. Utf8Complete <=> offset + 3 <= Len(xml)
    BY <1>1 DEF Utf8Complete, Remaining
<1>7. 1..(width - 1) = {1, 2}
    OBVIOUS
<1>8. Utf8Accepted <=>
          offset + 3 <= Len(xml) /\ b \in Tail80 /\ c \in Tail80 /\ IsScalar(Utf8Value)
    BY <1>6, <1>7 DEF Utf8Accepted, IsContinuation, Tail80
<1>9. /\ a \notin Bytes(\h00, \h7F) /\ a \notin Bytes(\hC2, \hDF)
      /\ a \notin {\hF0} /\ a \notin Bytes(\hF1, \hF3) /\ a \notin {\hF4}
      /\ a \in {\hE0} <=> a = \hE0
      /\ a \in Bytes(\hE1, \hEC) <=> a > \hE0 /\ a < \hED
      /\ a \in {\hED} <=> a = \hED
      /\ a \in Bytes(\hEE, \hEF) <=> a > \hED
    BY <1>2, <1>4, Rows
<1>10. InTable(offset) <=>
          /\ offset + 3 <= Len(xml) /\ c \in Tail80
          /\ \/ a = \hE0 /\ b \in Bytes(\hA0, \hBF)
             \/ a > \hE0 /\ a < \hED /\ b \in Tail80
             \/ a = \hED /\ b \in Bytes(\h80, \h9F)
             \/ a > \hED /\ b \in Tail80
    BY <1>2, <1>9 DEF InTable
<1> HIDE DEF b, c
<1>11. /\ b \in Bytes(\hA0, \hBF) <=> b \in Tail80 /\ b >= \hA0
       /\ b \in Bytes(\h80, \h9F) <=> b \in Tail80 /\ b < \hA0
    BY ByteRange DEF Tail80
<1>12. InTable(offset) <=>
          /\ offset + 3 <= Len(xml) /\ c \in Tail80 /\ b \in Tail80
          /\ a = \hE0 => b >= \hA0
          /\ a = \hED => b < \hA0
    BY <1>4, <1>10, <1>11
<1>13. ASSUME b \in Tail80, c \in Tail80
       PROVE  /\ IsScalar(Utf8Value) <=> (a = \hE0 => b >= \hA0) /\ (a = \hED => b < \hA0)
              /\ Utf8Value \in Nat /\ Utf8Value <= \hFFFF
              /\ IsScalar(Utf8Value) => Utf8Value >= \h800
              /\ \hE0 + (Utf8Value \div 2^12) = a
              /\ Continuation(Utf8Value, 6) = b
              /\ Continuation(Utf8Value, 0) = c
    <2>1. PICK h \in Nat : h <= 15 /\ a = \hE0 + h
        BY <1>4
    <2>2. PICK m \in Nat : m <= 63 /\ b = \h80 + m
        BY <1>13, ByteRange DEF Tail80
    <2>3. PICK l \in Nat : l <= 63 /\ c = \h80 + l
        BY <1>13, ByteRange DEF Tail80
    <2>4. b % 64 = m /\ c % 64 = l
        BY <2>2, <2>3
    <2> DEFINE v == Three(h, m, l)
    <2>5. Utf8Value = v
        BY <1>5, <2>1, <2>4 DEF Three
    <2>6. /\ v \in Nat /\ v <= \hFFFF
          /\ v >= \h800 <=> h > 0 \/ m >= 32
          /\ IsSurrogate(v) <=> h = 13 /\ m >= 32
          /\ v \div 2^12 = h
          /\ Continuation(v, 6) = \h80 + m
          /\ Continuation(v, 0) = \h80 + l
        BY <2>1, <2>2, <2>3, ThreeBytes
    <2> HIDE DEF v
    <2>7. IsScalar(v) <=> v >= \h800 /\ ~IsSurrogate(v)
        BY <2>6 DEF IsScalar
    <2>8. IsScalar(v) <=> (h = 0 => m >= 32) /\ (h = 13 => m < 32)
        BY <2>1, <2>2, <2>6, <2>7
    <2>9. (h = 0 <=> a = \hE0) /\ (h = 13 <=> a = \hED) /\ (m >= 32 <=> b >= \hA0)
        BY <2>1, <2>2
    <2>10. /\ IsScalar(v) <=> (a = \hE0 => b >= \hA0) /\ (a = \hED => b < \hA0)
           /\ IsScalar(v) => v >= \h800
        BY <2>2, <2>7, <2>8, <2>9
    <2> QED
        BY <2>1, <2>2, <2>3, <2>5, <2>6, <2>10
<1>14. Utf8Accepted <=> InTable(offset)
    BY <1>8, <1>12, <1>13
<1>15. Utf8Accepted => /\ offset + 3 <= Len(xml)
                       /\ Utf8Value \in Nat /\ Utf8Value >= \h800 /\ Utf8Value <= \hFFFF
                       /\ \hE0 + (Utf8Value \div 2^12) = a
                       /\ Continuation(Utf8Value, 6) = b
                       /\ Continuation(Utf8Value, 0) = c
    BY <1>8, <1>13
<1> QED
    BY <1>2, <1>14, <1>15 DEF b, c

\* Of the forms of four bytes the overlong ones and those past the end of
\* Unicode are refused.
LEMMA Width4 ==
    ASSUME TypeOK, offset < Len(xml), width = 4
    PROVE  /\ Utf8Accepted <=> InTable(offset)
           /\ Utf8Accepted => /\ offset + 4 <= Len(xml)
                              /\ Utf8Value \in Nat
                              /\ Utf8Value >= \h10000 /\ Utf8Value <= \h10FFFF
                              /\ \hF0 + (Utf8Value \div 2^18) = byte(offset)
                              /\ Continuation(Utf8Value, 12) = byte(offset + 1)
                              /\ Continuation(Utf8Value, 6) = byte(offset + 2)
                              /\ Continuation(Utf8Value, 0) = byte(offset + 3)
<1> DEFINE b == byte(offset + 1)
           c == byte(offset + 2)
           d == byte(offset + 3)
<1>1. offset \in Nat /\ Len(xml) \in Nat
    BY InputBytes
<1>2. PICK a \in Nat : a <= 255 /\ a = byte(offset)
    BY <1>1, ByteAt
<1>3. Width(a) = 4
    BY <1>2 DEF width
<1>4. a >= \hF0 /\ a <= \hF7 /\ LeadBits(a) = a - \hF0
    BY <1>2, <1>3, Leads
<1>5. Utf8Value = (((a - \hF0) * 64 + (b % 64)) * 64 + (c % 64)) * 64 + (d % 64)
    BY <1>2, <1>4 DEF Utf8Value, ContinuationBits
<1>6. Utf8Complete <=> offset + 4 <= Len(xml)
    BY <1>1 DEF Utf8Complete, Remaining
<1>7. 1..(width - 1) = {1, 2, 3}
    OBVIOUS
<1>8. Utf8Accepted <=>
          /\ offset + 4 <= Len(xml) /\ b \in Tail80 /\ c \in Tail80 /\ d \in Tail80
          /\ IsScalar(Utf8Value)
    BY <1>6, <1>7 DEF Utf8Accepted, IsContinuation, Tail80
<1>9. /\ a \notin Bytes(\h00, \h7F) /\ a \notin Bytes(\hC2, \hDF)
      /\ a \notin {\hE0} /\ a \notin Bytes(\hE1, \hEC) /\ a \notin {\hED}
      /\ a \notin Bytes(\hEE, \hEF)
      /\ a \in {\hF0} <=> a = \hF0
      /\ a \in Bytes(\hF1, \hF3) <=> a > \hF0 /\ a < \hF4
      /\ a \in {\hF4} <=> a = \hF4
    BY <1>2, <1>4, Rows
<1>10. InTable(offset) <=>
          /\ offset + 4 <= Len(xml) /\ c \in Tail80 /\ d \in Tail80
          /\ \/ a = \hF0 /\ b \in Bytes(\h90, \hBF)
             \/ a > \hF0 /\ a < \hF4 /\ b \in Tail80
             \/ a = \hF4 /\ b \in Bytes(\h80, \h8F)
    BY <1>2, <1>9 DEF InTable
<1> HIDE DEF b, c, d
<1>11. /\ b \in Bytes(\h90, \hBF) <=> b \in Tail80 /\ b >= \h90
       /\ b \in Bytes(\h80, \h8F) <=> b \in Tail80 /\ b <= \h8F
    BY ByteRange DEF Tail80
<1>12. InTable(offset) <=>
          /\ offset + 4 <= Len(xml) /\ c \in Tail80 /\ d \in Tail80 /\ b \in Tail80
          /\ a = \hF0 => b >= \h90
          /\ a < \hF4 \/ (a = \hF4 /\ b <= \h8F)
    BY <1>4, <1>10, <1>11
<1>13. ASSUME b \in Tail80, c \in Tail80, d \in Tail80
       PROVE  /\ IsScalar(Utf8Value) <=>
                    (a = \hF0 => b >= \h90) /\ (a < \hF4 \/ (a = \hF4 /\ b <= \h8F))
              /\ Utf8Value \in Nat
              /\ IsScalar(Utf8Value) => Utf8Value >= \h10000 /\ Utf8Value <= \h10FFFF
              /\ \hF0 + (Utf8Value \div 2^18) = a
              /\ Continuation(Utf8Value, 12) = b
              /\ Continuation(Utf8Value, 6) = c
              /\ Continuation(Utf8Value, 0) = d
    <2>1. PICK h \in Nat : h <= 7 /\ a = \hF0 + h
        BY <1>4
    <2>2. PICK m \in Nat : m <= 63 /\ b = \h80 + m
        BY <1>13, ByteRange DEF Tail80
    <2>3. PICK l \in Nat : l <= 63 /\ c = \h80 + l
        BY <1>13, ByteRange DEF Tail80
    <2>4. PICK k \in Nat : k <= 63 /\ d = \h80 + k
        BY <1>13, ByteRange DEF Tail80
    <2>5. b % 64 = m /\ c % 64 = l /\ d % 64 = k
        BY <2>2, <2>3, <2>4
    <2> DEFINE v == Four(h, m, l, k)
    <2>6. Utf8Value = v
        BY <1>5, <2>1, <2>5 DEF Four
    <2>7. /\ v \in Nat
          /\ v >= \h10000 <=> h > 0 \/ m >= 16
          /\ v <= \h10FFFF <=> h < 4 \/ (h = 4 /\ m <= 15)
          /\ v \div 2^18 = h
          /\ Continuation(v, 12) = \h80 + m
          /\ Continuation(v, 6) = \h80 + l
          /\ Continuation(v, 0) = \h80 + k
        BY <2>1, <2>2, <2>3, <2>4, FourBytes
    <2> HIDE DEF v
    <2>8. IsScalar(v) <=> v >= \h10000 /\ v <= \h10FFFF
        BY <2>7 DEF IsScalar, IsSurrogate
    <2>9. /\ h > 0 \/ m >= 16 <=> (a = \hF0 => b >= \h90)
          /\ h < 4 \/ (h = 4 /\ m <= 15) <=> a < \hF4 \/ (a = \hF4 /\ b <= \h8F)
        BY <2>1, <2>2
    <2>10. /\ IsScalar(v) <=> (a = \hF0 => b >= \h90) /\ (a < \hF4 \/ (a = \hF4 /\ b <= \h8F))
           /\ IsScalar(v) => v >= \h10000 /\ v <= \h10FFFF
        BY <2>7, <2>8, <2>9
    <2> QED
        BY <2>1, <2>2, <2>3, <2>4, <2>6, <2>7, <2>10
<1>14. Utf8Accepted <=> InTable(offset)
    BY <1>8, <1>12, <1>13
<1>15. Utf8Accepted => /\ offset + 4 <= Len(xml)
                       /\ Utf8Value \in Nat /\ Utf8Value >= \h10000 /\ Utf8Value <= \h10FFFF
                       /\ \hF0 + (Utf8Value \div 2^18) = a
                       /\ Continuation(Utf8Value, 12) = b
                       /\ Continuation(Utf8Value, 6) = c
                       /\ Continuation(Utf8Value, 0) = d
    BY <1>8, <1>13
<1> QED
    BY <1>2, <1>14, <1>15 DEF b, c, d

-----------------------------------------------------------------------------
(* Every character of UTF-8.                                                *)

\* The tuples of bytes that characters are read from and written as, and what
\* the input holds from a place on: names, for the provers not to take apart.
One(a) == <<a>>
Pair(a, b) == <<a, b>>
Triple(a, b, c) == <<a, b, c>>
Quad(a, b, c, d) == <<a, b, c, d>>
Read(at, n) == SubSeq(xml, at + 1, at + n)

\* The bytes of the input from one place to another.
LEMMA Slice ==
    ASSUME TypeOK, NEW at \in Nat, NEW n \in Nat, at + n <= Len(xml),
           NEW t \in Seq(Bytes(0, \hFF)), Len(t) = n,
           \A i \in 1..n : t[i] = byte(at + i - 1)
    PROVE  Read(at, n) = t
<1> DEFINE s == SubSeq(xml, at + 1, at + n)
<1>1. xml \in Seq(Bytes(0, \hFF)) /\ Len(xml) \in Nat
    BY InputBytes
<1>2. \A i \in (at + 1)..(at + n) : xml[i] \in Bytes(0, \hFF)
    BY <1>1, ElementOfSeq
<1>3. /\ s \in Seq(Bytes(0, \hFF))
      /\ Len(s) = IF at + 1 <= at + n THEN at + n - (at + 1) + 1 ELSE 0
      /\ \A i \in 1..(at + n - (at + 1) + 1) : s[i] = xml[at + 1 + i - 1]
    BY <1>2, SubSeqProperties
<1>4. Len(s) = n
    BY <1>3
<1>5. \A i \in 1..n : s[i] = t[i]
    <2> TAKE i \in 1..n
    <2>1. s[i] = xml[at + 1 + i - 1]
        BY <1>3
    <2>2. t[i] = xml[(at + i - 1) + 1]
        BY DEF byte
    <2> QED
        BY <2>1, <2>2
<1> HIDE DEF s
<1>6. s = t
    BY <1>3, <1>4, <1>5, SeqEqual
<1> QED
    BY <1>6 DEF s, Read

\* One byte of the input, two, three and four.
LEMMA Slices ==
    ASSUME TypeOK, NEW at \in Nat
    PROVE  /\ at + 1 <= Len(xml) => Read(at, 1) = One(byte(at))
           /\ at + 2 <= Len(xml) => Read(at, 2) = Pair(byte(at), byte(at + 1))
           /\ at + 3 <= Len(xml) =>
                 Read(at, 3) = Triple(byte(at), byte(at + 1), byte(at + 2))
           /\ at + 4 <= Len(xml) =>
                 Read(at, 4) = Quad(byte(at), byte(at + 1), byte(at + 2), byte(at + 3))
<1> DEFINE B == Bytes(0, \hFF)
<1>1. Len(xml) \in Nat /\ \A i \in 0..(Len(xml) - 1) : byte(i) \in B
    BY InputBytes
<1> HIDE DEF B
<1>2. ASSUME at + 1 <= Len(xml)
      PROVE  Read(at, 1) = One(byte(at))
    <2> DEFINE t == One(byte(at))
    <2>1. byte(at) \in B
        BY <1>1, <1>2
    <2>2. t \in Seq(B) /\ Len(t) = 1
        BY <2>1 DEF One
    <2>3. \A i \in 1..1 : t[i] = byte(at + i - 1)
        BY DEF One
    <2> HIDE DEF t
    <2>4. Read(at, 1) = t
        BY <1>2, <2>2, <2>3, Slice DEF B
    <2> QED
        BY <2>4 DEF t
<1>3. ASSUME at + 2 <= Len(xml)
      PROVE  Read(at, 2) = Pair(byte(at), byte(at + 1))
    <2> DEFINE t == Pair(byte(at), byte(at + 1))
    <2>1. byte(at) \in B /\ byte(at + 1) \in B
        BY <1>1, <1>3
    <2>2. t \in Seq(B) /\ Len(t) = 2
        BY <2>1 DEF Pair
    <2>3. \A i \in 1..2 : t[i] = byte(at + i - 1)
        BY DEF Pair
    <2> HIDE DEF t
    <2>4. Read(at, 2) = t
        BY <1>3, <2>2, <2>3, Slice DEF B
    <2> QED
        BY <2>4 DEF t
<1>4. ASSUME at + 3 <= Len(xml)
      PROVE  Read(at, 3) = Triple(byte(at), byte(at + 1), byte(at + 2))
    <2> DEFINE t == Triple(byte(at), byte(at + 1), byte(at + 2))
    <2>1. byte(at) \in B /\ byte(at + 1) \in B /\ byte(at + 2) \in B
        BY <1>1, <1>4
    <2>2. t \in Seq(B) /\ Len(t) = 3
        BY <2>1 DEF Triple
    <2>3. \A i \in 1..3 : t[i] = byte(at + i - 1)
        BY DEF Triple
    <2> HIDE DEF t
    <2>4. Read(at, 3) = t
        BY <1>4, <2>2, <2>3, Slice DEF B
    <2> QED
        BY <2>4 DEF t
<1>5. ASSUME at + 4 <= Len(xml)
      PROVE  Read(at, 4) = Quad(byte(at), byte(at + 1), byte(at + 2), byte(at + 3))
    <2> DEFINE t == Quad(byte(at), byte(at + 1), byte(at + 2), byte(at + 3))
    <2>1. byte(at) \in B /\ byte(at + 1) \in B /\ byte(at + 2) \in B /\ byte(at + 3) \in B
        BY <1>1, <1>5
    <2>2. t \in Seq(B) /\ Len(t) = 4
        BY <2>1 DEF Quad
    <2>3. \A i \in 1..4 : t[i] = byte(at + i - 1)
        BY DEF Quad
    <2> HIDE DEF t
    <2>4. Read(at, 4) = t
        BY <1>5, <2>2, <2>3, Slice DEF B
    <2> QED
        BY <2>4 DEF t
<1> QED
    BY <1>2, <1>3, <1>4, <1>5

\* decode_utf8 accepts what the table says is well-formed and nothing else; and
\* the character it makes of the bytes is written as those bytes.
LEMMA Utf8Exact ==
    ASSUME TypeOK, offset < Len(xml), Detected[1] = "Utf8"
    PROVE  /\ Utf8Accepted <=> WellFormedAt(offset)
           /\ Utf8Accepted => /\ width \in Nat /\ width > 0
                              /\ offset + width <= Len(xml)
                              /\ Utf8Value \in CodePoints
                              /\ Written(Utf8Value) = Read(offset, width)
<1>1. offset \in Nat /\ Len(xml) \in Nat
    BY InputBytes
<1>2. WellFormedAt(offset) <=> InTable(offset)
    BY <1>1, Utf8Table
<1>3. \A v : Written(v) = append_utf8(v)
    BY DEF Written
<1>4. width \in 0..4
    BY DEF width, Width
<1>5. CASE width = 0
    BY <1>2, <1>5, Width0
<1>6. CASE width = 1
    <2>1. /\ Utf8Accepted /\ InTable(offset) /\ Utf8Value = byte(offset)
          /\ byte(offset) \in Nat /\ byte(offset) <= 127
        BY <1>6, Width1
    <2>2. offset + 1 <= Len(xml)
        BY <1>1
    <2>3. append_utf8(Utf8Value) = One(byte(offset))
        BY <2>1 DEF append_utf8, One
    <2>4. Read(offset, 1) = One(byte(offset))
        BY <1>1, <2>2, Slices
    <2>5. Utf8Value \in CodePoints
        BY <2>1 DEF CodePoints
    <2> QED
        BY <1>2, <1>3, <1>6, <2>1, <2>2, <2>3, <2>4, <2>5
<1>7. CASE width = 2
    <2>1. Utf8Accepted <=> InTable(offset)
        BY <1>7, Width2
    <2>2. ASSUME Utf8Accepted
          PROVE  /\ offset + 2 <= Len(xml) /\ Utf8Value \in CodePoints
                 /\ append_utf8(Utf8Value) = Read(offset, 2)
        <3>1. /\ offset + 2 <= Len(xml)
              /\ Utf8Value \in Nat /\ Utf8Value >= \h80 /\ Utf8Value <= \h7FF
              /\ \hC0 + (Utf8Value \div 2^6) = byte(offset)
              /\ Continuation(Utf8Value, 0) = byte(offset + 1)
            BY <1>7, <2>2, Width2
        <3>2. append_utf8(Utf8Value) = Pair(byte(offset), byte(offset + 1))
            BY <3>1 DEF append_utf8, Pair
        <3>3. Read(offset, 2) = Pair(byte(offset), byte(offset + 1))
            BY <1>1, <3>1, Slices
        <3>4. Utf8Value \in CodePoints
            BY <3>1 DEF CodePoints
        <3> QED
            BY <3>1, <3>2, <3>3, <3>4
    <2> QED
        BY <1>2, <1>3, <1>7, <2>1, <2>2
<1>8. CASE width = 3
    <2>1. Utf8Accepted <=> InTable(offset)
        BY <1>8, Width3
    <2>2. ASSUME Utf8Accepted
          PROVE  /\ offset + 3 <= Len(xml) /\ Utf8Value \in CodePoints
                 /\ append_utf8(Utf8Value) = Read(offset, 3)
        <3>1. /\ offset + 3 <= Len(xml)
              /\ Utf8Value \in Nat /\ Utf8Value >= \h800 /\ Utf8Value <= \hFFFF
              /\ \hE0 + (Utf8Value \div 2^12) = byte(offset)
              /\ Continuation(Utf8Value, 6) = byte(offset + 1)
              /\ Continuation(Utf8Value, 0) = byte(offset + 2)
            BY <1>8, <2>2, Width3
        <3>2. append_utf8(Utf8Value) = Triple(byte(offset), byte(offset + 1), byte(offset + 2))
            BY <3>1 DEF append_utf8, Triple
        <3>3. Read(offset, 3) =
                  Triple(byte(offset), byte(offset + 1), byte(offset + 2))
            BY <1>1, <3>1, Slices
        <3>4. Utf8Value \in CodePoints
            BY <3>1 DEF CodePoints
        <3> QED
            BY <3>1, <3>2, <3>3, <3>4
    <2> QED
        BY <1>2, <1>3, <1>8, <2>1, <2>2
<1>9. CASE width = 4
    <2>1. Utf8Accepted <=> InTable(offset)
        BY <1>9, Width4
    <2>2. ASSUME Utf8Accepted
          PROVE  /\ offset + 4 <= Len(xml) /\ Utf8Value \in CodePoints
                 /\ append_utf8(Utf8Value) = Read(offset, 4)
        <3>1. /\ offset + 4 <= Len(xml)
              /\ Utf8Value \in Nat /\ Utf8Value >= \h10000 /\ Utf8Value <= \h10FFFF
              /\ \hF0 + (Utf8Value \div 2^18) = byte(offset)
              /\ Continuation(Utf8Value, 12) = byte(offset + 1)
              /\ Continuation(Utf8Value, 6) = byte(offset + 2)
              /\ Continuation(Utf8Value, 0) = byte(offset + 3)
            BY <1>9, <2>2, Width4
        <3>2. append_utf8(Utf8Value) =
                  Quad(byte(offset), byte(offset + 1), byte(offset + 2), byte(offset + 3))
            BY <3>1 DEF append_utf8, Quad
        <3>3. Read(offset, 4) =
                  Quad(byte(offset), byte(offset + 1), byte(offset + 2), byte(offset + 3))
            BY <1>1, <3>1, Slices
        <3>4. Utf8Value \in CodePoints
            BY <3>1 DEF CodePoints
        <3> QED
            BY <3>1, <3>2, <3>3, <3>4
    <2> QED
        BY <1>2, <1>3, <1>9, <2>1, <2>2
<1> QED
    BY <1>4, <1>5, <1>6, <1>7, <1>8, <1>9

-----------------------------------------------------------------------------
(* UTF-16.                                                                  *)

\* The unit of a high byte and a low one.
UnitOf(h, l) == 256 * h + l

\* What a unit is shows in its high byte, and both bytes come out of it again.
LEMMA UnitBytes ==
    ASSUME NEW h, NEW l, h \in Nat, h <= 255, l \in Nat, l <= 255
    PROVE  /\ UnitOf(h, l) \in Nat
           /\ UnitOf(h, l) <= \hFFFF
           /\ UnitOf(h, l) \div 256 = h
           /\ UnitOf(h, l) % 256 = l
           /\ IsLead(UnitOf(h, l)) <=> h >= \hD8 /\ h <= \hDB
           /\ IsTrail(UnitOf(h, l)) <=> h >= \hDC /\ h <= \hDF
           /\ IsSurrogate(UnitOf(h, l)) <=> h >= \hD8 /\ h <= \hDF
<1> DEFINE u == 256 * h + l
<1>1. u \in Nat /\ u <= \hFFFF
    OBVIOUS
<1>2. u \div 256 = h /\ u % 256 = l
    OBVIOUS
<1>3. u >= \hD800 /\ u <= \hDBFF <=> h >= \hD8 /\ h <= \hDB
    OBVIOUS
<1>4. u >= \hDC00 /\ u <= \hDFFF <=> h >= \hDC /\ h <= \hDF
    OBVIOUS
<1>5. u >= \hD800 /\ u <= \hDFFF <=> h >= \hD8 /\ h <= \hDF
    OBVIOUS
<1> HIDE DEF u
<1>6. /\ IsLead(u) <=> h >= \hD8 /\ h <= \hDB
      /\ IsTrail(u) <=> h >= \hDC /\ h <= \hDF
      /\ IsSurrogate(u) <=> h >= \hD8 /\ h <= \hDF
    BY <1>3, <1>4, <1>5 DEF IsLead, IsTrail, IsSurrogate
<1> QED
    BY <1>1, <1>2, <1>6 DEF UnitOf, u

\* The character of a surrogate pair, and the pair of a character.
PairOf(u, t) == \h10000 + ((u - \hD800) * 2^10) + (t - \hDC00)
LeadOf(v) == \hD800 + ((v - \h10000) \div 2^10)
TrailOf(v) == \hDC00 + ((v - \h10000) % 2^10)
Both(u, t) == WrittenUnit(u) \o WrittenUnit(t)

\* The character of a pair comes apart into the same pair.
LEMMA SurrogatePairs ==
    ASSUME NEW u \in Nat, IsLead(u), NEW t \in Nat, IsTrail(t)
    PROVE  /\ PairOf(u, t) \in Nat
           /\ PairOf(u, t) >= \h10000
           /\ PairOf(u, t) <= \h10FFFF
           /\ LeadOf(PairOf(u, t)) = u
           /\ TrailOf(PairOf(u, t)) = t
<1>1. PICK h \in Nat : h <= 1023 /\ u = \hD800 + h
    BY DEF IsLead
<1>2. PICK l \in Nat : l <= 1023 /\ t = \hDC00 + l
    BY DEF IsTrail
<1> DEFINE w == h * 1024 + l
<1>3. w \in Nat /\ w <= 1048575 /\ w \div 1024 = h /\ w % 1024 = l
    BY <1>1, <1>2
<1>4. PairOf(u, t) = \h10000 + w
    BY <1>1, <1>2 DEF PairOf
<1> HIDE DEF w
<1>5. PairOf(u, t) \in Nat /\ PairOf(u, t) >= \h10000 /\ PairOf(u, t) <= \h10FFFF
    BY <1>3, <1>4
<1>6. PairOf(u, t) - \h10000 = w
    BY <1>3, <1>4
<1> QED
    BY <1>1, <1>2, <1>3, <1>5, <1>6 DEF LeadOf, TrailOf

\* The byte of a unit that HighByte leaves.
LowByte(i) == IF Detected[1] = "Utf16LE" THEN byte(i) ELSE byte(i + 1)

\* A unit read in the byte order of the document.
LEMMA UnitAt ==
    ASSUME TypeOK, pc = Detected[1], pc \in {"Utf16LE", "Utf16BE"},
           NEW i \in Nat, i + 2 <= Len(xml)
    PROVE  /\ HighByte(i) \in Nat /\ HighByte(i) <= 255
           /\ LowByte(i) \in Nat /\ LowByte(i) <= 255
           /\ read_unit(i) = UnitOf(HighByte(i), LowByte(i))
           /\ WrittenUnit(read_unit(i)) = Read(i, 2)
<1>1. Len(xml) \in Nat /\ i < Len(xml) /\ i + 1 \in Nat /\ i + 1 < Len(xml)
    BY InputBytes
<1>2. PICK a \in Nat : a <= 255 /\ a = byte(i)
    BY <1>1, ByteAt
<1>3. PICK b \in Nat : b <= 255 /\ b = byte(i + 1)
    BY <1>1, ByteAt
<1>4. Read(i, 2) = Pair(byte(i), byte(i + 1))
    BY Slices
<1>5. CASE pc = "Utf16LE"
    <2>1. Detected[1] = "Utf16LE"
        BY <1>5
    <2>2. HighByte(i) = b /\ LowByte(i) = a
        BY <2>1, <1>2, <1>3 DEF HighByte, LowByte
    <2>3. read_unit(i) = UnitOf(b, a)
        BY <1>2, <1>3, <1>5 DEF read_unit, UnitOf
    <2>4. UnitOf(b, a) \div 256 = b /\ UnitOf(b, a) % 256 = a
        BY <1>2, <1>3, UnitBytes
    <2>5. WrittenUnit(UnitOf(b, a)) = Pair(a, b)
        BY <2>1, <2>4 DEF WrittenUnit, Pair
    <2> QED
        BY <1>2, <1>3, <1>4, <2>2, <2>3, <2>5
<1>6. CASE pc = "Utf16BE"
    <2>1. Detected[1] # "Utf16LE"
        BY <1>6
    <2>2. HighByte(i) = a /\ LowByte(i) = b
        BY <2>1, <1>2, <1>3 DEF HighByte, LowByte
    <2>3. read_unit(i) = UnitOf(a, b)
        BY <1>2, <1>3, <1>6 DEF read_unit, UnitOf
    <2>4. UnitOf(a, b) \div 256 = a /\ UnitOf(a, b) % 256 = b
        BY <1>2, <1>3, UnitBytes
    <2>5. WrittenUnit(UnitOf(a, b)) = Pair(a, b)
        BY <2>1, <2>4 DEF WrittenUnit, Pair
    <2> QED
        BY <1>2, <1>3, <1>4, <2>2, <2>3, <2>5
<1> QED
    BY <1>5, <1>6

\* The table of UTF-16 with its rows written out.
LEMMA Utf16Table ==
    ASSUME NEW at \in Nat, Detected[1] # "Utf8"
    PROVE  WellFormedAt(at) <=>
              \/ /\ at + 2 <= Len(xml)
                 /\ HighByte(at) \in Bytes(0, \hFF) /\ HighByte(at) \notin Bytes(\hD8, \hDF)
              \/ /\ at + 4 <= Len(xml)
                 /\ HighByte(at) \in Bytes(\hD8, \hDB) /\ HighByte(at + 2) \in Bytes(\hDC, \hDF)
<1> DEFINE A == Bytes(0, \hFF) \ Bytes(\hD8, \hDF)
           B == Bytes(\hD8, \hDB)
           C == Bytes(\hDC, \hDF)
           R1 == <<A>>
           R2 == <<B, C>>
           Fits(ranges) ==
              /\ at + 2 * Len(ranges) <= Len(xml)
              /\ \A i \in DOMAIN ranges : HighByte(at + 2 * (i - 1)) \in ranges[i]
<1>1. WellFormedAt(at) <=> Fits(R1) \/ Fits(R2)
    <2>1. WellFormedUtf16 = {R1, R2}
        BY DEF WellFormedUtf16
    <2>2. WellFormedAt(at) <=> \E ranges \in WellFormedUtf16 : Fits(ranges)
        BY DEF WellFormedAt
    <2> HIDE DEF R1, R2, Fits
    <2> QED
        BY <2>1, <2>2
<1> HIDE DEF A, B, C
<1>2. Fits(R1) <=> at + 2 <= Len(xml) /\ HighByte(at) \in A
    <2>1. Len(R1) = 1 /\ DOMAIN R1 = {1} /\ R1[1] = A
        OBVIOUS
    <2>2. 2 * Len(R1) = 2 /\ at + 2 * (1 - 1) = at
        BY <2>1
    <2> HIDE DEF R1
    <2> QED
        BY <2>1, <2>2, Zenon
<1>3. Fits(R2) <=> at + 4 <= Len(xml) /\ HighByte(at) \in B /\ HighByte(at + 2) \in C
    <2>1. Len(R2) = 2 /\ DOMAIN R2 = {1, 2} /\ R2[1] = B /\ R2[2] = C
        OBVIOUS
    <2>2. 2 * Len(R2) = 4 /\ at + 2 * (1 - 1) = at /\ at + 2 * (2 - 1) = at + 2
        BY <2>1
    <2> HIDE DEF R2
    <2> QED
        BY <2>1, <2>2, Zenon
<1> HIDE DEF Fits, R1, R2
<1> QED
    BY <1>1, <1>2, <1>3 DEF A, B, C

\* Two units that follow one another.
LEMMA TwoUnits ==
    ASSUME TypeOK, NEW at \in Nat, at + 4 <= Len(xml)
    PROVE  Read(at, 2) \o Read(at + 2, 2) = Read(at, 4)
<1>1. xml \in Seq(Bytes(0, \hFF)) /\ Len(xml) \in Nat
    BY InputBytes
<1>2. at + 1 \in 1..(Len(xml) + 1) /\ at + 2 \in ((at + 1) - 1)..Len(xml) /\ at + 4 \in (at + 2)..Len(xml)
    BY <1>1
<1>3. SubSeq(xml, at + 1, at + 2) \o SubSeq(xml, (at + 2) + 1, at + 4) = SubSeq(xml, at + 1, at + 4)
    BY <1>1, <1>2, ConcatAdjacentSubSeq
<1>4. (at + 2) + 2 = at + 4
    OBVIOUS
<1> QED
    BY <1>3, <1>4, Zenon DEF Read

\* A character written in UTF-16: one unit or a pair of them.
LEMMA WrittenAsUnits ==
    ASSUME Detected[1] # "Utf8", NEW v, v \in Nat
    PROVE  /\ v < \h10000 => Written(v) = WrittenUnit(v)
           /\ v >= \h10000 => Written(v) = Both(LeadOf(v), TrailOf(v))
<1>1. ASSUME v < \h10000
      PROVE  Written(v) = WrittenUnit(v)
    <2>1. Units(v) = One(v)
        BY <1>1 DEF Units, One
    <2>2. Len(One(v)) = 1 /\ One(v)[1] = v
        BY DEF One
    <2> QED
        BY <2>1, <2>2, Zenon DEF Written
<1>2. ASSUME v >= \h10000
      PROVE  Written(v) = Both(LeadOf(v), TrailOf(v))
    <2> DEFINE u == LeadOf(v)
               t == TrailOf(v)
    <2>1. Units(v) = Pair(u, t)
        BY <1>2 DEF Units, Pair, LeadOf, TrailOf
    <2> HIDE DEF u, t
    <2>2. Len(Pair(u, t)) = 2 /\ Len(Pair(u, t)) # 1
        BY DEF Pair
    <2>3. Pair(u, t)[1] = u /\ Pair(u, t)[2] = t
        BY DEF Pair
    <2>4. Written(v) = Both(u, t)
        BY <2>1, <2>2, <2>3, Zenon DEF Written, Both
    <2> QED
        BY <2>4 DEF u, t
<1> QED
    BY <1>1, <1>2

\* decode_utf16 refuses a unit, or a pair, where the table has no row, and
\* nothing else; and the character it makes of the bytes is written as those
\* bytes.
LEMMA Utf16Exact ==
    ASSUME TypeOK, pc = Detected[1], pc \in {"Utf16LE", "Utf16BE"}, offset < Len(xml)
    PROVE  /\ Remaining < 2 => ~WellFormedAt(offset)
           /\ Remaining >= 2 /\ IsTrail(unit) => ~WellFormedAt(offset)
           /\ Remaining >= 2 /\ Remaining < 4 /\ IsLead(unit) => ~WellFormedAt(offset)
           /\ Remaining >= 4 /\ IsLead(unit) /\ ~IsTrail(trail) => ~WellFormedAt(offset)
           /\ Remaining >= 4 /\ IsLead(unit) /\ IsTrail(trail) =>
                 /\ WellFormedAt(offset) /\ Utf16Value \in CodePoints
                 /\ Written(Utf16Value) = Read(offset, 4)
           /\ Remaining >= 2 /\ ~IsSurrogate(unit) =>
                 /\ WellFormedAt(offset) /\ Utf16Value \in CodePoints
                 /\ Written(Utf16Value) = Read(offset, 2)
<1>1. offset \in Nat /\ Len(xml) \in Nat /\ offset + 2 \in Nat
    BY InputBytes
<1>2. Detected[1] # "Utf8"
    OBVIOUS
<1>3. \A k \in Nat : Remaining < k <=> ~(offset + k <= Len(xml))
    BY <1>1 DEF Remaining
<1>4. (Remaining < 2 <=> ~(offset + 2 <= Len(xml))) /\ (Remaining < 4 <=> ~(offset + 4 <= Len(xml)))
    BY <1>3
<1>5. Remaining \in Int
    BY <1>1 DEF Remaining
<1> DEFINE h == HighByte(offset)
           Row1 == /\ offset + 2 <= Len(xml)
                   /\ h \in Bytes(0, \hFF) /\ h \notin Bytes(\hD8, \hDF)
           Row2 == /\ offset + 4 <= Len(xml)
                   /\ h \in Bytes(\hD8, \hDB) /\ HighByte(offset + 2) \in Bytes(\hDC, \hDF)
<1>6. WellFormedAt(offset) <=> Row1 \/ Row2
    BY <1>1, <1>2, Utf16Table
<1>7. Remaining < 2 => ~WellFormedAt(offset)
    <2>1. offset + 4 <= Len(xml) => offset + 2 <= Len(xml)
        BY <1>1
    <2> QED
        BY <1>4, <1>6, <2>1
<1>8. ASSUME Remaining >= 2
      PROVE  /\ h \in Nat /\ h <= 255
             /\ IsLead(unit) <=> h >= \hD8 /\ h <= \hDB
             /\ IsTrail(unit) <=> h >= \hDC /\ h <= \hDF
             /\ IsSurrogate(unit) <=> h >= \hD8 /\ h <= \hDF
             /\ Row1 <=> ~(h >= \hD8 /\ h <= \hDF)
             /\ unit \in Nat /\ unit <= \hFFFF
             /\ WrittenUnit(unit) = Read(offset, 2)
    <2>1. offset + 2 <= Len(xml)
        BY <1>4, <1>5, <1>8
    <2>2. /\ HighByte(offset) \in Nat /\ HighByte(offset) <= 255
          /\ LowByte(offset) \in Nat /\ LowByte(offset) <= 255
          /\ unit = UnitOf(HighByte(offset), LowByte(offset))
          /\ WrittenUnit(unit) = Read(offset, 2)
        BY <1>1, <2>1, UnitAt DEF unit
    <2>3. /\ h \in Bytes(0, \hFF)
          /\ h \in Bytes(\hD8, \hDF) <=> h >= \hD8 /\ h <= \hDF
        BY <2>2, ByteRange
    <2>4. /\ IsLead(unit) <=> h >= \hD8 /\ h <= \hDB
          /\ IsTrail(unit) <=> h >= \hDC /\ h <= \hDF
          /\ IsSurrogate(unit) <=> h >= \hD8 /\ h <= \hDF
          /\ unit \in Nat /\ unit <= \hFFFF
        BY <2>2, UnitBytes
    <2>5. Row1 <=> ~(h >= \hD8 /\ h <= \hDF)
        BY <2>1, <2>3
    <2> QED
        BY <2>2, <2>4, <2>5
<1>9. ASSUME Remaining >= 4
      PROVE  /\ IsTrail(trail) <=> HighByte(offset + 2) \in Bytes(\hDC, \hDF)
             /\ Row2 <=> h \in Bytes(\hD8, \hDB) /\ IsTrail(trail)
             /\ trail \in Nat
             /\ WrittenUnit(trail) = Read(offset + 2, 2)
    <2>1. offset + 4 <= Len(xml) /\ (offset + 2) + 2 <= Len(xml)
        BY <1>1, <1>4, <1>5, <1>9
    <2>2. /\ HighByte(offset + 2) \in Nat /\ HighByte(offset + 2) <= 255
          /\ LowByte(offset + 2) \in Nat /\ LowByte(offset + 2) <= 255
          /\ trail = UnitOf(HighByte(offset + 2), LowByte(offset + 2))
          /\ WrittenUnit(trail) = Read(offset + 2, 2)
        BY <1>1, <2>1, UnitAt DEF trail
    <2>3. HighByte(offset + 2) \in Bytes(\hDC, \hDF) <=>
              HighByte(offset + 2) >= \hDC /\ HighByte(offset + 2) <= \hDF
        BY <2>2, ByteRange
    <2>4. /\ IsTrail(trail) <=> HighByte(offset + 2) >= \hDC /\ HighByte(offset + 2) <= \hDF
          /\ trail \in Nat
        BY <2>2, UnitBytes
    <2> QED
        BY <2>1, <2>2, <2>3, <2>4
<1>10. h \in Bytes(\hD8, \hDB) <=> h \in Int /\ h >= \hD8 /\ h <= \hDB
    BY ByteRange
<1>11. Row2 => offset + 4 <= Len(xml)
    OBVIOUS
<1> HIDE DEF h, Row1, Row2
<1>12. Remaining >= 2 /\ IsTrail(unit) => ~WellFormedAt(offset)
    <2> SUFFICES ASSUME Remaining >= 2, IsTrail(unit)
                 PROVE  ~Row1 /\ ~Row2
        BY <1>6
    <2>1. h \in Nat /\ h >= \hDC /\ h <= \hDF /\ ~Row1
        BY <1>8
    <2>2. h \notin Bytes(\hD8, \hDB)
        BY <2>1, <1>10
    <2>3. ~Row2
        BY <1>4, <1>5, <1>9, <1>11, <2>2
    <2> QED
        BY <2>1, <2>3
<1>13. Remaining >= 2 /\ Remaining < 4 /\ IsLead(unit) => ~WellFormedAt(offset)
    <2> SUFFICES ASSUME Remaining >= 2, Remaining < 4, IsLead(unit)
                 PROVE  ~Row1 /\ ~Row2
        BY <1>6
    <2>1. ~Row1
        BY <1>8
    <2>2. ~Row2
        BY <1>4, <1>11
    <2> QED
        BY <2>1, <2>2
<1>14. Remaining >= 4 => Remaining >= 2
    BY <1>5
<1>15. Remaining >= 4 /\ IsLead(unit) /\ ~IsTrail(trail) => ~WellFormedAt(offset)
    <2> SUFFICES ASSUME Remaining >= 4, IsLead(unit), ~IsTrail(trail)
                 PROVE  ~Row1 /\ ~Row2
        BY <1>6
    <2>1. ~Row1
        BY <1>8, <1>14
    <2>2. ~Row2
        BY <1>9
    <2> QED
        BY <2>1, <2>2
<1>16. ASSUME Remaining >= 4, IsLead(unit), IsTrail(trail)
       PROVE  /\ WellFormedAt(offset) /\ Utf16Value \in CodePoints
              /\ Written(Utf16Value) = Read(offset, 4)
    <2>1. h \in Nat /\ h >= \hD8 /\ h <= \hDB /\ unit \in Nat
        BY <1>8, <1>14, <1>16
    <2>2. h \in Bytes(\hD8, \hDB)
        BY <2>1, <1>10
    <2>3. WellFormedAt(offset)
        BY <1>6, <1>9, <1>16, <2>2
    <2>4. Utf16Value = PairOf(unit, trail)
        BY <1>16 DEF Utf16Value, PairOf
    <2>5. trail \in Nat
        BY <1>9, <1>16
    <2> DEFINE v == PairOf(unit, trail)
    <2>6. /\ v \in Nat /\ v >= \h10000 /\ v <= \h10FFFF
          /\ LeadOf(v) = unit /\ TrailOf(v) = trail
        BY <1>16, <2>1, <2>5, SurrogatePairs
    <2> HIDE DEF v
    <2>7. v \in CodePoints
        BY <2>6 DEF CodePoints
    <2>8. Written(v) = Both(LeadOf(v), TrailOf(v))
        BY <1>2, <2>6, WrittenAsUnits
    <2>9. WrittenUnit(unit) = Read(offset, 2) /\ WrittenUnit(trail) = Read(offset + 2, 2)
        BY <1>8, <1>9, <1>14, <1>16
    <2>10. offset + 4 <= Len(xml)
        BY <1>4, <1>5, <1>16
    <2>11. Written(v) = Read(offset, 4)
        <3>1. Read(offset, 2) \o Read(offset + 2, 2) = Read(offset, 4)
            BY <1>1, <2>10, TwoUnits
        <3>2. LeadOf(v) = unit /\ TrailOf(v) = trail
            BY <2>6
        <3> QED
            BY <2>8, <2>9, <3>1, <3>2, Zenon DEF Both
    <2> QED
        BY <2>3, <2>4, <2>7, <2>11 DEF v
<1>17. ASSUME Remaining >= 2, ~IsSurrogate(unit)
       PROVE  /\ WellFormedAt(offset) /\ Utf16Value \in CodePoints
              /\ Written(Utf16Value) = Read(offset, 2)
    <2>1. /\ unit \in Nat /\ unit <= \hFFFF /\ Row1
          /\ WrittenUnit(unit) = Read(offset, 2)
        BY <1>8, <1>17
    <2>2. Utf16Value = unit
        BY <1>17, <2>1 DEF Utf16Value, IsLead, IsSurrogate
    <2>3. unit \in CodePoints
        BY <2>1 DEF CodePoints
    <2>4. Written(unit) = WrittenUnit(unit)
        BY <1>2, <2>1, WrittenAsUnits
    <2> QED
        BY <1>6, <2>1, <2>2, <2>3, <2>4
<1> QED
    BY <1>7, <1>12, <1>13, <1>15, <1>16, <1>17
-----------------------------------------------------------------------------
(* The invariant.                                                           *)

\* Where control is: nothing is decoded before the encoding is known, it is
\* decoded as the byte order mark says, and only an exception leaves an error.
ControlIsRight ==
    /\ pc = "start" => offset = 0 /\ chars = <<>>
    /\ pc \in Encodings => pc = Detected[1]
    /\ pc # "failed" => error = "none"
    /\ pc = "done" => offset = Len(xml) /\ chars # <<>>
    /\ error = "Encoding" => ~WellFormedAt(offset)
    /\ error = "WellFormedness" => WellFormedAt(offset)
    /\ pc # "start" /\ error # "ResourceLimit" => StartOf(1) = Detected[2]

\* What is known of each character decoded.
CharactersAreRight ==
    \A i \in 1..Len(chars) :
        /\ WellFormedAt(chars[i].byte_offset)
        /\ Written(chars[i].value) = SubSeq(xml, StartOf(i) + 1, StartOf(i + 1))
        /\ is_valid_xml_char(chars[i].value, version)

\* The tracker is where the next character would be.
TrackerIsRight ==
    LET next == Len(chars) + 1
    IN  /\ line = 1 + Cardinality(BreaksBefore(next))
        /\ LastOf(BreaksBefore(next)) \in Nat
        /\ column = next - LastOf(BreaksBefore(next))
        /\ \A i \in 1..Len(chars) :
              /\ chars[i].byte_offset < offset
              /\ chars[i].line = 1 + Cardinality(BreaksBefore(i))
              /\ chars[i].column = i - LastOf(BreaksBefore(i))
              /\ \A j \in 1..(i - 1) : chars[j].byte_offset < chars[i].byte_offset

DecoderInv == TypeOK /\ ControlIsRight /\ CharactersAreRight /\ TrackerIsRight

\* What is well-formed and how a character is written depend on the document
\* and on nothing that decoding changes.
LEMMA InputFixed ==
    ASSUME xml' = xml
    PROVE  /\ Detected' = Detected
           /\ \A at : WellFormedAt(at)' <=> WellFormedAt(at)
           /\ \A v : Written(v)' = Written(v)
<1>1. Detected' = Detected
    BY DEF Detected
<1>2. ASSUME NEW at
      PROVE  WellFormedAt(at)' <=> WellFormedAt(at)
    BY <1>1 DEF WellFormedAt, HighByte, byte
<1>3. ASSUME NEW v
      PROVE  Written(v)' = Written(v)
    BY <1>1 DEF Written, WrittenUnit
<1> QED
    BY <1>1, <1>2, <1>3

\* BreaksBefore, of any sequence of characters.
Breaks(s, i) == {j \in 1..(i - 1) : s[j].value = \hA}

\* The line feeds before a character are finitely many, and one more character
\* adds to those before the next exactly if it is one.
LEMMA BreaksFacts ==
    ASSUME NEW s \in Seq(Chars), NEW c \in Chars
    PROVE  LET n == Len(s)
               t == Append(s, c)
           IN  /\ \A i \in 1..(n + 1) : Breaks(t, i) = Breaks(s, i)
               /\ Breaks(t, n + 2) =
                     IF c.value = \hA THEN Breaks(s, n + 1) \cup {n + 1} ELSE Breaks(s, n + 1)
               /\ n + 1 \notin Breaks(s, n + 1)
               /\ \A j \in Breaks(s, n + 1) : j <= n + 1
               /\ IsFiniteSet(Breaks(s, n + 1))
<1> DEFINE n == Len(s)
           t == Append(s, c)
<1>1. n \in Nat
    BY LenProperties
<1>2. t[n + 1] = c /\ \A j \in 1..n : t[j] = s[j]
    BY PushFacts
<1> HIDE DEF n, t
<1>3. \A i \in 1..(n + 1) : Breaks(t, i) = Breaks(s, i)
    <2> TAKE i \in 1..(n + 1)
    <2>1. \A j \in 1..(i - 1) : t[j] = s[j]
        BY <1>1, <1>2
    <2> QED
        BY <2>1, Zenon DEF Breaks
<1>4. Breaks(t, n + 2) =
          IF c.value = \hA THEN Breaks(s, n + 1) \cup {n + 1} ELSE Breaks(s, n + 1)
    <2>1. 1..((n + 2) - 1) = (1..((n + 1) - 1)) \cup {n + 1}
        BY <1>1
    <2>2. \A j \in 1..((n + 1) - 1) : t[j] = s[j]
        BY <1>1, <1>2
    <2> QED
        BY <1>2, <2>1, <2>2, Zenon DEF Breaks
<1>5. n + 1 \notin Breaks(s, n + 1) /\ \A j \in Breaks(s, n + 1) : j <= n + 1
    BY <1>1 DEF Breaks
<1>6. IsFiniteSet(Breaks(s, n + 1))
    <2>1. IsFiniteSet(1..((n + 1) - 1))
        BY <1>1, FS_Interval
    <2>2. Breaks(s, n + 1) \subseteq 1..((n + 1) - 1)
        BY DEF Breaks
    <2> QED
        BY <2>1, <2>2, FS_Subset
<1> QED
    BY <1>3, <1>4, <1>5, <1>6 DEF n, t

\* The line feed that was just added is the last.
LEMMA LastAdded ==
    ASSUME NEW S, S \subseteq Nat, NEW m \in Nat, \A k \in S : k <= m
    PROVE  LastOf(S \cup {m}) = m
<1> DEFINE T == S \cup {m}
<1>1. m \in T /\ T \subseteq Nat /\ \A k \in T : k <= m
    OBVIOUS
<1>2. T # {}
    OBVIOUS
<1> HIDE DEF T
<1>3. \A j \in T : (\A k \in T : k <= j) => j = m
    BY <1>1
<1>4. (CHOOSE j \in T : \A k \in T : k <= j) = m
    BY <1>1, <1>3
<1>5. LastOf(T) = m
    BY <1>2, <1>4 DEF LastOf
<1> QED
    BY <1>5 DEF T

\* Where each character starts, after one more of them.
LEMMA StartsAfter ==
    ASSUME DecoderInv, NEW c \in Chars, chars' = Append(chars, c), c.byte_offset = offset,
           NEW n \in Nat, n = Len(chars)
    PROVE  /\ \A i \in 1..(n + 1) : StartOf(i)' = StartOf(i)
           /\ StartOf(n + 2)' = offset'
<1>1. chars \in Seq(Chars)
    BY DEF DecoderInv, TypeOK
<1>2. PICK t : t = Append(chars, c)
    OBVIOUS
<1>3. Len(t) = n + 1 /\ t[n + 1] = c /\ \A i \in 1..n : t[i] = chars[i]
    BY <1>1, <1>2, PushFacts
<1>4. chars' = t
    BY <1>2
<1>5. ASSUME NEW i \in 1..n
      PROVE  StartOf(i)' = StartOf(i)
    <2>1. i <= Len(chars) /\ i <= Len(t)
        BY <1>3
    <2> QED
        BY <1>3, <1>4, <2>1 DEF StartOf
<1>6. StartOf(n + 1)' = StartOf(n + 1)
    <2>1. ~(n + 1 <= Len(chars)) /\ n + 1 <= Len(t)
        BY <1>3
    <2> QED
        BY <1>3, <1>4, <2>1 DEF StartOf
<1>7. StartOf(n + 2)' = offset'
    <2>1. ~(n + 2 <= Len(t))
        BY <1>3
    <2> QED
        BY <1>4, <2>1 DEF StartOf
<1>8. \A i \in 1..(n + 1) : i \in 1..n \/ i = n + 1
    OBVIOUS
<1> QED
    BY <1>5, <1>6, <1>7, <1>8

\* The characters stay right when one more is decoded.
LEMMA CharactersAfter ==
    ASSUME DecoderInv, xml' = xml, version' = version, WellFormedAt(offset),
           NEW c \in Chars, chars' = Append(chars, c), c.byte_offset = offset,
           NEW size \in Nat, offset' = offset + size,
           Written(c.value) = Read(offset, size), is_valid_xml_char(c.value, version)
    PROVE  CharactersAreRight'
<1>1. chars \in Seq(Chars)
    BY DEF DecoderInv, TypeOK
<1>2. PICK n \in Nat : n = Len(chars)
    BY <1>1, LenProperties
<1>3. PICK t : t = Append(chars, c)
    OBVIOUS
<1>4. Len(t) = n + 1 /\ t[n + 1] = c /\ \A i \in 1..n : t[i] = chars[i]
    BY <1>1, <1>2, <1>3, PushFacts
<1>5. chars' = t
    BY <1>3
<1>6. /\ \A i \in 1..(n + 1) : StartOf(i)' = StartOf(i)
      /\ StartOf(n + 2)' = offset'
    BY <1>2, StartsAfter
<1>7. /\ \A at : WellFormedAt(at)' <=> WellFormedAt(at)
      /\ \A v : Written(v)' = Written(v)
    BY InputFixed
<1>8. StartOf(n + 1) = offset
    BY <1>2 DEF StartOf
<1> DEFINE Right(i) == /\ WellFormedAt(chars[i].byte_offset)
                       /\ Written(chars[i].value) = SubSeq(xml, StartOf(i) + 1, StartOf(i + 1))
                       /\ is_valid_xml_char(chars[i].value, version)
<1>9. ASSUME NEW i \in 1..n
      PROVE  Right(i)'
    <2>1. Right(i)
        BY <1>2 DEF DecoderInv, CharactersAreRight
    <2>2. chars[i]' = chars[i]
        BY <1>4, <1>5
    <2>3. StartOf(i)' = StartOf(i) /\ StartOf(i + 1)' = StartOf(i + 1)
        BY <1>6
    <2> QED
        BY <1>7, <2>1, <2>2, <2>3, Zenon
<1>10. Right(n + 1)'
    <2>1. chars[n + 1]' = c
        BY <1>4, <1>5
    <2>2. (n + 1) + 1 = n + 2
        OBVIOUS
    <2>3. StartOf(n + 1)' = offset /\ StartOf((n + 1) + 1)' = offset + size
        BY <1>6, <1>8, <2>2
    <2>4. Written(c.value) = SubSeq(xml, offset + 1, offset + size)
        BY Zenon DEF Read
    <2> QED
        BY <1>7, <2>1, <2>3, <2>4, Zenon
<1>11. \A i \in 1..Len(t) : i \in 1..n \/ i = n + 1
    BY <1>4
<1> HIDE DEF Right
<1>12. \A i \in 1..Len(t) : Right(i)'
    BY <1>9, <1>10, <1>11
<1> QED
    BY <1>5, <1>12, Zenon DEF CharactersAreRight, Right

\* And the tracker stays where the next character would be.
LEMMA TrackerAfter ==
    ASSUME DecoderInv,
           NEW c \in Chars, chars' = Append(chars, c), c.byte_offset = offset,
           c.line = line, c.column = column, Advance(c.value),
           NEW size \in Nat, size > 0, offset' = offset + size
    PROVE  TrackerIsRight'
<1>1. chars \in Seq(Chars) /\ offset \in Nat
    BY InputBytes DEF DecoderInv, TypeOK
<1>2. PICK n \in Nat : n = Len(chars)
    BY <1>1, LenProperties
<1>3. PICK t : t = Append(chars, c)
    OBVIOUS
<1>4. Len(t) = n + 1 /\ t[n + 1] = c /\ \A i \in 1..n : t[i] = chars[i]
    BY <1>1, <1>2, <1>3, PushFacts
<1>5. chars' = t
    BY <1>3
<1>6. PICK S : S = BreaksBefore(n + 1)
    OBVIOUS
<1>7. S = Breaks(chars, n + 1)
    BY <1>6 DEF BreaksBefore, Breaks
<1>8. /\ \A i \in 1..(n + 1) : Breaks(t, i) = Breaks(chars, i)
      /\ Breaks(t, n + 2) = IF c.value = \hA THEN S \cup {n + 1} ELSE S
      /\ n + 1 \notin S
      /\ \A j \in S : j <= n + 1
      /\ IsFiniteSet(S)
    BY <1>1, <1>2, <1>3, <1>7, BreaksFacts
<1>9. S \subseteq Nat
    BY <1>6 DEF BreaksBefore
<1>10. \A i \in 1..(n + 1) : BreaksBefore(i)' = BreaksBefore(i)
    BY <1>5, <1>8 DEF BreaksBefore, Breaks
<1>11. BreaksBefore(n + 2)' = IF c.value = \hA THEN S \cup {n + 1} ELSE S
    BY <1>5, <1>8 DEF BreaksBefore, Breaks
<1>12. /\ line = 1 + Cardinality(S) /\ column = (n + 1) - LastOf(S)
       /\ Cardinality(S) \in Nat /\ LastOf(S) \in Nat
    <2>1. line = 1 + Cardinality(S) /\ column = (n + 1) - LastOf(S) /\ LastOf(S) \in Nat
        BY <1>2, <1>6 DEF DecoderInv, TrackerIsRight
    <2> QED
        BY <1>8, <2>1, FS_CardinalityType
<1>13. /\ line' = 1 + Cardinality(BreaksBefore(n + 2)')
       /\ column' = (n + 2) - LastOf(BreaksBefore(n + 2)')
       /\ LastOf(BreaksBefore(n + 2)') \in Nat
    <2>1. CASE c.value = \hA
        <3>1. PICK T : T = S \cup {n + 1}
            OBVIOUS
        <3>2. Cardinality(T) = Cardinality(S) + 1
            BY <1>8, <3>1, FS_AddElement
        <3>3. LastOf(T) = n + 1
            <4>1. n + 1 \in Nat
                OBVIOUS
            <4> QED
                BY <1>8, <1>9, <3>1, <4>1, LastAdded, Zenon
        <3>4. line' = line + 1 /\ column' = 1
            BY <2>1 DEF Advance
        <3>5. BreaksBefore(n + 2)' = T
            BY <1>11, <2>1, <3>1
        <3>6. line' = 1 + Cardinality(T) /\ column' = (n + 2) - LastOf(T) /\ LastOf(T) \in Nat
            BY <1>12, <3>2, <3>3, <3>4
        <3> QED
            BY <3>5, <3>6, Zenon
    <2>2. CASE c.value # \hA
        <3>1. line' = line /\ column' = column + 1
            BY <2>2 DEF Advance
        <3>2. BreaksBefore(n + 2)' = S
            BY <1>11, <2>2
        <3> QED
            BY <1>12, <3>1, <3>2
    <2> QED
        BY <2>1, <2>2
<1>14. \A i \in 1..n :
            /\ chars[i].byte_offset < offset
            /\ chars[i].line = 1 + Cardinality(BreaksBefore(i))
            /\ chars[i].column = i - LastOf(BreaksBefore(i))
            /\ \A j \in 1..(i - 1) : chars[j].byte_offset < chars[i].byte_offset
    BY <1>2 DEF DecoderInv, TrackerIsRight
<1>15. \A i \in 1..n : chars[i].byte_offset \in Nat
    <2>1. \A i \in 1..n : chars[i] \in Chars
        BY <1>1, <1>2, ElementOfSeq
    <2> QED
        BY <2>1 DEF Chars
<1>16. ASSUME NEW i \in 1..n
       PROVE  /\ t[i].byte_offset < offset'
              /\ t[i].line = 1 + Cardinality(BreaksBefore(i)')
              /\ t[i].column = i - LastOf(BreaksBefore(i)')
              /\ \A j \in 1..(i - 1) : t[j].byte_offset < t[i].byte_offset
    <2>1. t[i] = chars[i] /\ \A j \in 1..(i - 1) : t[j] = chars[j]
        BY <1>4
    <2>2. BreaksBefore(i)' = BreaksBefore(i)
        BY <1>10
    <2>3. chars[i].byte_offset < offset'
        BY <1>1, <1>14, <1>15
    <2> QED
        BY <1>14, <2>1, <2>2, <2>3
<1>17. /\ t[n + 1].byte_offset < offset'
       /\ t[n + 1].line = 1 + Cardinality(BreaksBefore(n + 1)')
       /\ t[n + 1].column = (n + 1) - LastOf(BreaksBefore(n + 1)')
       /\ \A j \in 1..((n + 1) - 1) : t[j].byte_offset < t[n + 1].byte_offset
    <2>1. BreaksBefore(n + 1)' = S
        BY <1>6, <1>10
    <2>2. t[n + 1].line = 1 + Cardinality(S) /\ t[n + 1].column = (n + 1) - LastOf(S)
        BY <1>4, <1>12
    <2>3. t[n + 1].byte_offset < offset'
        BY <1>1, <1>4
    <2>4. \A j \in 1..((n + 1) - 1) : t[j].byte_offset < t[n + 1].byte_offset
        BY <1>4, <1>14
    <2> QED
        BY <2>1, <2>2, <2>3, <2>4, Zenon
<1> DEFINE Right(i) == /\ chars[i].byte_offset < offset
                       /\ chars[i].line = 1 + Cardinality(BreaksBefore(i))
                       /\ chars[i].column = i - LastOf(BreaksBefore(i))
                       /\ \A j \in 1..(i - 1) : chars[j].byte_offset < chars[i].byte_offset
<1>18. ASSUME NEW i \in 1..n
       PROVE  Right(i)'
    BY <1>5, <1>16, Zenon
<1>19. Right(n + 1)'
    BY <1>5, <1>17, Zenon
<1>20. \A i \in 1..Len(t) : i \in 1..n \/ i = n + 1
    BY <1>4
<1> HIDE DEF Right
<1>21. \A i \in 1..Len(t) : Right(i)'
    BY <1>18, <1>19, <1>20
<1>22. Len(chars)' + 1 = n + 2
    BY <1>4, <1>5
<1> QED
    BY <1>5, <1>13, <1>21, <1>22, Zenon DEF TrackerIsRight, Right

\* A step that decodes nothing leaves the characters and the tracker right.
LEMMA NothingMore ==
    ASSUME DecoderInv, xml' = xml, version' = version, chars' = chars, line' = line,
           column' = column, offset' = offset \/ chars = <<>>
    PROVE  /\ CharactersAreRight' /\ TrackerIsRight'
           /\ offset' = offset => StartOf(1)' = StartOf(1)
<1>1. /\ \A at : WellFormedAt(at)' <=> WellFormedAt(at)
      /\ \A v : Written(v)' = Written(v)
    BY InputFixed
<1>2. PICK n \in Nat : n = Len(chars)
    BY LenProperties DEF DecoderInv, TypeOK
<1>3. n = Len(chars)' /\ (chars = <<>> => 1..n = {})
    BY <1>2
<1>4. \A i : BreaksBefore(i)' = BreaksBefore(i)
    BY DEF BreaksBefore
<1>5. offset' = offset => \A i : StartOf(i)' = StartOf(i)
    BY DEF StartOf
<1>6. CharactersAreRight'
    <2> DEFINE Right(i) == /\ WellFormedAt(chars[i].byte_offset)
                           /\ Written(chars[i].value) = SubSeq(xml, StartOf(i) + 1, StartOf(i + 1))
                           /\ is_valid_xml_char(chars[i].value, version)
    <2>1. ASSUME NEW i \in 1..n
          PROVE  Right(i)'
        <3>1. Right(i)
            BY <1>2 DEF DecoderInv, CharactersAreRight
        <3>2. StartOf(i)' = StartOf(i) /\ StartOf(i + 1)' = StartOf(i + 1)
            BY <1>3, <1>5
        <3> QED
            BY <1>1, <3>1, <3>2, Zenon
    <2> QED
        BY <1>3, <2>1, Zenon DEF CharactersAreRight
<1>7. TrackerIsRight'
    <2>1. /\ line = 1 + Cardinality(BreaksBefore(n + 1))
          /\ LastOf(BreaksBefore(n + 1)) \in Nat
          /\ column = (n + 1) - LastOf(BreaksBefore(n + 1))
        BY <1>2 DEF DecoderInv, TrackerIsRight
    <2> DEFINE Right(i) == /\ chars[i].byte_offset < offset
                           /\ chars[i].line = 1 + Cardinality(BreaksBefore(i))
                           /\ chars[i].column = i - LastOf(BreaksBefore(i))
                           /\ \A j \in 1..(i - 1) : chars[j].byte_offset < chars[i].byte_offset
    <2>2. ASSUME NEW i \in 1..n
          PROVE  Right(i)'
        <3>1. Right(i)
            BY <1>2 DEF DecoderInv, TrackerIsRight
        <3>2. offset' = offset
            BY <1>3
        <3> QED
            BY <1>4, <3>1, <3>2, Zenon
    <2> QED
        BY <1>2, <1>3, <1>4, <2>1, <2>2, Zenon DEF TrackerIsRight
<1> QED
    BY <1>5, <1>6, <1>7

\* What the byte order mark tells lies within the document.
LEMMA DetectedFacts ==
    ASSUME TypeOK
    PROVE  /\ Detected[1] \in Encodings
           /\ Detected[2] \in Nat /\ Detected[2] <= Len(xml)
           /\ xml = <<>> => Detected[2] = 0
<1>1. Len(xml) \in Nat /\ (xml = <<>> => Len(xml) = 0)
    BY InputBytes, EmptySeq
<1> DEFINE p == <<\hEF, \hBB, \hBF>>
           q == <<\hFF, \hFE>>
           r == <<\hFE, \hFF>>
<1>2. Len(p) = 3 /\ Len(q) = 2 /\ Len(r) = 2
    OBVIOUS
<1> HIDE DEF p, q, r
<1>3. (IsPrefix(p, xml) => 3 <= Len(xml)) /\ (IsPrefix(q, xml) \/ IsPrefix(r, xml) => 2 <= Len(xml))
    BY <1>2 DEF IsPrefix
<1>4. Detected = IF IsPrefix(p, xml) THEN <<"Utf8", 3>>
                 ELSE IF IsPrefix(q, xml) THEN <<"Utf16LE", 2>>
                 ELSE IF IsPrefix(r, xml) THEN <<"Utf16BE", 2>>
                 ELSE <<"Utf8", 0>>
    BY DEF Detected, p, q, r
<1>5. CASE IsPrefix(p, xml)
    <2>1. Detected = <<"Utf8", 3>>
        BY <1>4, <1>5
    <2> QED
        BY <1>1, <1>3, <1>5, <2>1 DEF Encodings
<1>6. CASE ~IsPrefix(p, xml) /\ IsPrefix(q, xml)
    <2>1. Detected = <<"Utf16LE", 2>>
        BY <1>4, <1>6
    <2> QED
        BY <1>1, <1>3, <1>6, <2>1 DEF Encodings
<1>7. CASE ~IsPrefix(p, xml) /\ ~IsPrefix(q, xml) /\ IsPrefix(r, xml)
    <2>1. Detected = <<"Utf16BE", 2>>
        BY <1>4, <1>7
    <2> QED
        BY <1>1, <1>3, <1>7, <2>1 DEF Encodings
<1>8. CASE ~IsPrefix(p, xml) /\ ~IsPrefix(q, xml) /\ ~IsPrefix(r, xml)
    <2>1. Detected = <<"Utf8", 0>>
        BY <1>4, <1>8
    <2> QED
        BY <1>1, <2>1 DEF Encodings
<1> QED
    BY <1>5, <1>6, <1>7, <1>8

\* A character decoded from a well-formed sequence, or refused because XML does
\* not allow it.
LEMMA DecodedKeeps ==
    ASSUME DecoderInv, pc \in Encodings, UNCHANGED input, WellFormedAt(offset),
           NEW value \in CodePoints, NEW size \in Nat, size > 0, offset + size <= Len(xml),
           Written(value) = Read(offset, size), decoded(value, size)
    PROVE  DecoderInv'
<1>1. /\ offset \in Nat /\ Len(xml) \in Nat
      /\ chars \in Seq(Chars) /\ line \in Nat \ {0} /\ column \in Nat \ {0}
      /\ xml \in Inputs /\ version \in Versions /\ error = "none"
    BY InputBytes DEF DecoderInv, TypeOK, ControlIsRight, Encodings
<1>2. xml' = xml /\ version' = version
    BY DEF input
<1>3. /\ Detected' = Detected
      /\ \A at : WellFormedAt(at)' <=> WellFormedAt(at)
    BY <1>2, InputFixed
<1>4. pc = Detected[1] /\ StartOf(1) = Detected[2]
    BY <1>1 DEF DecoderInv, ControlIsRight, Encodings
<1>5. CASE is_valid_xml_char(value, version)
    <2>1. PICK c : c = [value |-> value, line |-> line, column |-> column, byte_offset |-> offset]
        OBVIOUS
    <2>2. /\ chars' = Append(chars, c) /\ Advance(value)
          /\ offset' = offset + size /\ pc' = pc /\ error' = error
        BY <1>5, <2>1 DEF decoded, following
    <2>3. /\ c \in Chars /\ c.value = value /\ c.line = line /\ c.column = column
          /\ c.byte_offset = offset
        BY <1>1, <2>1 DEF Chars
    <2>4. CharactersAreRight'
        BY <1>2, <1>5, <2>2, <2>3, CharactersAfter
    <2>5. TrackerIsRight'
        BY <2>2, <2>3, TrackerAfter
    <2>6. chars' \in Seq(Chars) /\ chars' # <<>>
        BY <1>1, <2>2, <2>3, PushFacts
    <2>7. line' \in Nat \ {0} /\ column' \in Nat \ {0}
        BY <1>1, <2>2 DEF Advance
    <2>8. TypeOK'
        BY <1>1, <1>2, <2>2, <2>6, <2>7 DEF TypeOK, Encodings
    <2>9. StartOf(1)' = StartOf(1)
        <3>1. PICK n \in Nat : n = Len(chars)
            BY <1>1, LenProperties
        <3> QED
            BY <2>2, <2>3, <3>1, StartsAfter
    <2>10. ControlIsRight'
        BY <1>1, <1>3, <1>4, <2>2, <2>9 DEF ControlIsRight, Encodings
    <2> QED
        BY <2>4, <2>5, <2>8, <2>10 DEF DecoderInv
<1>6. CASE ~is_valid_xml_char(value, version)
    <2>1. /\ pc' = "failed" /\ error' = "WellFormedness"
          /\ chars' = chars /\ line' = line /\ column' = column /\ offset' = offset
        BY <1>6 DEF decoded, fail, tracker
    <2>2. CharactersAreRight' /\ TrackerIsRight' /\ StartOf(1)' = StartOf(1)
        BY <1>2, <2>1, NothingMore
    <2>3. WellFormedAt(offset)'
        BY <1>3, <2>1, Zenon
    <2>4. TypeOK'
        BY <1>1, <1>2, <2>1 DEF TypeOK, DecoderInv
    <2>5. ControlIsRight'
        BY <1>3, <1>4, <2>1, <2>2, <2>3 DEF ControlIsRight, Encodings
    <2> QED
        BY <2>2, <2>4, <2>5 DEF DecoderInv
<1> QED
    BY <1>5, <1>6

\* A sequence refused for its encoding.
LEMMA RefusedKeeps ==
    ASSUME DecoderInv, pc \in Encodings, UNCHANGED input, ~WellFormedAt(offset), refused
    PROVE  DecoderInv'
<1>1. xml' = xml /\ version' = version
    BY DEF input
<1>2. /\ pc' = "failed" /\ error' = "Encoding"
      /\ chars' = chars /\ line' = line /\ column' = column /\ offset' = offset
    BY DEF refused, fail, tracker
<1>3. CharactersAreRight' /\ TrackerIsRight' /\ StartOf(1)' = StartOf(1)
    BY <1>1, <1>2, NothingMore
<1>4. /\ Detected' = Detected
      /\ \A at : WellFormedAt(at)' <=> WellFormedAt(at)
    BY <1>1, InputFixed
<1>5. ~(WellFormedAt(offset)')
    BY <1>2, <1>4, Zenon
<1>6. StartOf(1) = Detected[2]
    BY DEF DecoderInv, ControlIsRight, Encodings
<1>7. TypeOK'
    BY <1>1, <1>2 DEF TypeOK, DecoderInv
<1>8. ControlIsRight'
    BY <1>2, <1>3, <1>4, <1>5, <1>6 DEF ControlIsRight, Encodings
<1> QED
    BY <1>3, <1>7, <1>8 DEF DecoderInv

\* decode_document: the two checks of the size, and the byte order mark.
LEMMA DocumentKeeps ==
    ASSUME DecoderInv, decode_document
    PROVE  DecoderInv'
<1>1. /\ xml' = xml /\ version' = version
      /\ chars' = chars /\ line' = line /\ column' = column
      /\ pc = "start" /\ offset = 0 /\ chars = <<>> /\ error = "none"
    BY DEF decode_document, input, tracker, DecoderInv, ControlIsRight
<1>2. CharactersAreRight' /\ TrackerIsRight' /\ (offset' = offset => StartOf(1)' = StartOf(1))
    BY <1>1, NothingMore
<1>3. /\ Detected' = Detected
      /\ \A at : WellFormedAt(at)' <=> WellFormedAt(at)
    BY <1>1, InputFixed
<1>4. /\ Detected[1] \in Encodings
      /\ Detected[2] \in Nat /\ Detected[2] <= Len(xml)
      /\ xml = <<>> => Detected[2] = 0
    BY DetectedFacts DEF DecoderInv
<1>5. Len(xml) \in Nat
    BY InputBytes DEF DecoderInv
<1>6. StartOf(1)' = offset'
    BY <1>1 DEF StartOf
<1>7. CASE xml = <<>> /\ fail("EmptyInput") /\ UNCHANGED offset
    <2>1. TypeOK'
        BY <1>1, <1>7 DEF TypeOK, fail, DecoderInv
    <2>2. ControlIsRight'
        BY <1>1, <1>3, <1>4, <1>6, <1>7 DEF ControlIsRight, fail, Encodings
    <2> QED
        BY <1>2, <2>1, <2>2 DEF DecoderInv
<1>8. CASE Len(xml) > max_document_bytes /\ fail("ResourceLimit") /\ UNCHANGED offset
    <2>1. TypeOK'
        BY <1>1, <1>8 DEF TypeOK, fail, DecoderInv
    <2>2. ControlIsRight'
        BY <1>8 DEF ControlIsRight, fail, Encodings
    <2> QED
        BY <1>2, <2>1, <2>2 DEF DecoderInv
<1>9. CASE pc' = Detected[1] /\ offset' = Detected[2] /\ UNCHANGED error
    <2>1. TypeOK'
        BY <1>1, <1>4, <1>5, <1>9 DEF TypeOK, DecoderInv
    <2>2. ControlIsRight'
        BY <1>1, <1>3, <1>4, <1>6, <1>9 DEF ControlIsRight, Encodings
    <2> QED
        BY <1>2, <2>1, <2>2 DEF DecoderInv
<1> QED
    BY <1>7, <1>8, <1>9 DEF decode_document

\* decode_utf8.
LEMMA Utf8Keeps ==
    ASSUME DecoderInv, decode_utf8
    PROVE  DecoderInv'
<1>1. TypeOK /\ pc \in Encodings /\ UNCHANGED input /\ Detected[1] = "Utf8"
    BY DEF decode_utf8, Encodings, DecoderInv, ControlIsRight
<1>2. offset < Len(xml)
    BY <1>1, InputBytes DEF decode_utf8, Remaining
<1>3. /\ Utf8Accepted <=> WellFormedAt(offset)
      /\ Utf8Accepted => /\ width \in Nat /\ width > 0
                         /\ offset + width <= Len(xml)
                         /\ Utf8Value \in CodePoints
                         /\ Written(Utf8Value) = Read(offset, width)
    BY <1>1, <1>2, Utf8Exact
<1>4. CASE ~Utf8Accepted /\ refused
    BY <1>1, <1>3, <1>4, RefusedKeeps
<1>5. CASE Utf8Accepted /\ decoded(Utf8Value, width)
    BY <1>1, <1>3, <1>5, DecodedKeeps
<1> QED
    BY <1>4, <1>5 DEF decode_utf8

\* decode_utf16.
LEMMA Utf16Keeps ==
    ASSUME DecoderInv, decode_utf16
    PROVE  DecoderInv'
<1>1. /\ TypeOK /\ pc \in Encodings /\ UNCHANGED input
      /\ pc = Detected[1] /\ pc \in {"Utf16LE", "Utf16BE"}
    BY DEF decode_utf16, Encodings, DecoderInv, ControlIsRight
<1>2. offset < Len(xml) /\ offset \in Nat /\ Len(xml) \in Nat /\ Remaining = Len(xml) - offset
    BY <1>1, InputBytes DEF decode_utf16, Remaining
<1>3. /\ Remaining < 2 => ~WellFormedAt(offset)
      /\ Remaining >= 2 /\ IsTrail(unit) => ~WellFormedAt(offset)
      /\ Remaining >= 2 /\ Remaining < 4 /\ IsLead(unit) => ~WellFormedAt(offset)
      /\ Remaining >= 4 /\ IsLead(unit) /\ ~IsTrail(trail) => ~WellFormedAt(offset)
      /\ Remaining >= 4 /\ IsLead(unit) /\ IsTrail(trail) =>
            /\ WellFormedAt(offset) /\ Utf16Value \in CodePoints
            /\ Written(Utf16Value) = Read(offset, 4)
      /\ Remaining >= 2 /\ ~IsSurrogate(unit) =>
            /\ WellFormedAt(offset) /\ Utf16Value \in CodePoints
            /\ Written(Utf16Value) = Read(offset, 2)
    BY <1>1, <1>2, Utf16Exact
<1>4. CASE ~WellFormedAt(offset) /\ refused
    BY <1>1, <1>4, RefusedKeeps
<1>5. CASE Remaining >= 4 /\ IsLead(unit) /\ IsTrail(trail) /\ decoded(Utf16Value, 4)
    <2>1. offset + 4 <= Len(xml)
        BY <1>2, <1>5
    <2> QED
        BY <1>1, <1>3, <1>5, <2>1, DecodedKeeps
<1>6. CASE Remaining >= 2 /\ ~IsSurrogate(unit) /\ decoded(Utf16Value, 2)
    <2>1. offset + 2 <= Len(xml)
        BY <1>2, <1>6
    <2> QED
        BY <1>1, <1>3, <1>6, <2>1, DecodedKeeps
<1>7. Remaining \in 2..3 => Remaining >= 2 /\ Remaining < 4
    OBVIOUS
<1> QED
    BY <1>3, <1>4, <1>5, <1>6, <1>7 DEF decode_utf16

\* The end of the input.
LEMMA EndKeeps ==
    ASSUME DecoderInv, end_of_input
    PROVE  DecoderInv'
<1>1. /\ xml' = xml /\ version' = version /\ offset' = offset
      /\ chars' = chars /\ line' = line /\ column' = column
      /\ pc \in Encodings /\ error = "none"
    BY DEF end_of_input, input, tracker, DecoderInv, ControlIsRight, Encodings
<1>2. CharactersAreRight' /\ TrackerIsRight' /\ StartOf(1)' = StartOf(1)
    BY <1>1, NothingMore
<1>3. Detected' = Detected /\ StartOf(1) = Detected[2]
    BY <1>1, InputFixed DEF DecoderInv, ControlIsRight, Encodings
<1>4. offset = Len(xml)
    BY InputBytes DEF end_of_input, Remaining, DecoderInv
<1>5. \/ chars = <<>> /\ pc' = "failed" /\ error' = "EmptyInput"
      \/ chars # <<>> /\ pc' = "done" /\ error' = error
    BY DEF end_of_input, NothingDecoded, fail
<1>6. TypeOK'
    BY <1>1, <1>5 DEF TypeOK, DecoderInv
<1>7. ControlIsRight'
    BY <1>1, <1>2, <1>3, <1>4, <1>5 DEF ControlIsRight, Encodings
<1> QED
    BY <1>2, <1>6, <1>7 DEF DecoderInv

\* The invariant holds of the initial states.
LEMMA DecoderInit ==
    ASSUME Init
    PROVE  DecoderInv
<1>1. /\ xml \in Inputs /\ version \in Versions /\ pc = "start" /\ offset = 0
      /\ chars = <<>> /\ line = 1 /\ column = 1 /\ error = "none"
    BY DEF Init
<1>2. xml \in Seq(Bytes(0, \hFF)) /\ Len(xml) \in Nat
    BY <1>1, InputsAssumption, LenProperties
<1>3. chars \in Seq(Chars) /\ Len(chars) = 0
    BY <1>1, EmptySeq
<1>4. TypeOK
    BY <1>1, <1>2, <1>3 DEF TypeOK
<1>5. ControlIsRight
    BY <1>1 DEF ControlIsRight, Encodings
<1>6. 1..Len(chars) = {}
    BY <1>3
<1>7. CharactersAreRight
    BY <1>6 DEF CharactersAreRight
<1>8. BreaksBefore(Len(chars) + 1) = {}
    <2>1. 1..((Len(chars) + 1) - 1) = {}
        BY <1>3
    <2> QED
        BY <2>1 DEF BreaksBefore
<1>9. Cardinality({}) = 0 /\ LastOf({}) = 0
    BY FS_EmptySet DEF LastOf
<1>10. TrackerIsRight
    <2>1. /\ line = 1 + Cardinality({}) /\ LastOf({}) \in Nat
          /\ column = (Len(chars) + 1) - LastOf({})
        BY <1>1, <1>3, <1>9
    <2> QED
        BY <1>6, <1>8, <2>1, Zenon DEF TrackerIsRight
<1> QED
    BY <1>4, <1>5, <1>7, <1>10 DEF DecoderInv

\* And of every state after it.
LEMMA DecoderInvariance == Spec => []DecoderInv
<1>1. DecoderInv /\ [Next]_vars => DecoderInv'
    <2> SUFFICES ASSUME DecoderInv, [Next]_vars
                 PROVE  DecoderInv'
        OBVIOUS
    <2>1. CASE decode_document
        BY <2>1, DocumentKeeps
    <2>2. CASE decode_utf8
        BY <2>2, Utf8Keeps
    <2>3. CASE decode_utf16
        BY <2>3, Utf16Keeps
    <2>4. CASE end_of_input
        BY <2>4, EndKeeps
    <2>5. CASE UNCHANGED vars
        <3>1. /\ xml' = xml /\ version' = version /\ pc' = pc /\ offset' = offset
              /\ chars' = chars /\ line' = line /\ column' = column /\ error' = error
            BY <2>5 DEF vars, input, tracker
        <3>2. CharactersAreRight' /\ TrackerIsRight' /\ StartOf(1)' = StartOf(1)
            BY <3>1, NothingMore
        <3>3. Detected' = Detected /\ (WellFormedAt(offset)' <=> WellFormedAt(offset))
            <4>1. Detected' = Detected /\ \A at : WellFormedAt(at)' <=> WellFormedAt(at)
                BY <3>1, InputFixed
            <4> QED
                BY <3>1, <4>1, Zenon
        <3>4. TypeOK'
            BY <3>1 DEF TypeOK, DecoderInv
        <3>5. ControlIsRight'
            BY <3>1, <3>2, <3>3 DEF ControlIsRight, DecoderInv
        <3> QED
            BY <3>2, <3>4, <3>5 DEF DecoderInv
    <2> QED
        BY <2>1, <2>2, <2>3, <2>4, <2>5 DEF Next
<1> QED
    BY <1>1, DecoderInit, PTL DEF Spec

-----------------------------------------------------------------------------
(* The theorems.                                                            *)

\* The offset never passes the end of the document, so no byte outside it is
\* read, and every character is a code point with a location (decode_utf8,
\* decode_utf16).
THEOREM DecoderTypes == Spec => []TypeOK
<1>1. DecoderInv => TypeOK
    BY DEF DecoderInv
<1> QED
    BY <1>1, DecoderInvariance, PTL

\* Whatever the bytes, input is refused for its encoding exactly where no
\* well-formed sequence of the Unicode standard's table starts.
THEOREM IllFormedAlwaysRefused == Spec => []RefusesTheIllFormed
<1>1. DecoderInv => RefusesTheIllFormed
    <2> SUFFICES ASSUME DecoderInv
                 PROVE  RefusesTheIllFormed
        OBVIOUS
    <2>1. DOMAIN chars = 1..Len(chars)
        BY LenProperties DEF DecoderInv, TypeOK
    <2> QED
        BY <2>1, Zenon DEF RefusesTheIllFormed, DecoderInv, ControlIsRight, CharactersAreRight
<1> QED
    BY <1>1, DecoderInvariance, PTL

\* The characters, written out again, are the bytes that were read.
THEOREM InputAlwaysDecoded == Spec => []DecodesTheInput
<1>1. DecoderInv => DecodesTheInput
    <2> SUFFICES ASSUME DecoderInv
                 PROVE  DecodesTheInput
        OBVIOUS
    <2>1. DOMAIN chars = 1..Len(chars)
        BY LenProperties DEF DecoderInv, TypeOK
    <2> QED
        BY <2>1, Zenon DEF DecodesTheInput, DecoderInv, ControlIsRight, CharactersAreRight
<1> QED
    BY <1>1, DecoderInvariance, PTL

\* Every location is the line, the column and the offset that the characters
\* before it give.
THEOREM LocationsAlwaysRight == Spec => []LocationsAreRight
<1>1. DecoderInv => LocationsAreRight
    <2> SUFFICES ASSUME DecoderInv
                 PROVE  LocationsAreRight
        OBVIOUS
    <2>1. DOMAIN chars = 1..Len(chars)
        BY LenProperties DEF DecoderInv, TypeOK
    <2> QED
        BY <2>1, Zenon DEF LocationsAreRight, DecoderInv, TrackerIsRight
<1> QED
    BY <1>1, DecoderInvariance, PTL
=============================================================================
