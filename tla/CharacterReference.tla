------------------------- MODULE CharacterReference -------------------------
(***************************************************************************)
(* parse_character_reference of parser_core.cpp: the digits after "&#" are *)
(* read into a char32_t, with a check against overflow before each digit.  *)
(* Arithmetic is modulo MaxValue + 1; MaxValue and the values that are XML *)
(* characters are constants, so that small instances overflow soon.        *)
(***************************************************************************)
EXTENDS Characters, Functions

CONSTANTS
    Texts,      \* what may stand between "&#" and ";"
    MaxValue,   \* std::numeric_limits<char32_t>::max()
    XmlChars    \* the values is_valid_xml_char lets through

\* A character of the text is the value of a digit, an x or X, or any other.
X == -1
Other == -2
TextChars == {X, Other} \cup 0..15

ASSUME ReferenceAssumption ==
    /\ Texts \subseteq Seq(TextChars)
    /\ MaxValue \in Nat /\ MaxValue >= 15
    /\ XmlChars \subseteq 0..MaxValue

VARIABLES
    ref_pc,       \* "prefix", "digits", "done" or "failed"
    text,
    base,
    offset,   \* of the next character, from 1 (the code counts the '#')
    value,
    result,   \* the bytes returned
    cause,    \* why the reference was refused
    number    \* history: the number read so far, in unbounded arithmetic

ref_vars == <<ref_pc, text, base, offset, value, result, cause, number>>

RefInit ==
    /\ ref_pc = "prefix"
    /\ text \in Texts
    /\ base = 10
    /\ offset = 1
    /\ value = 0
    /\ result = <<>>
    /\ cause = "none"
    /\ number = 0

refuse(why) == ref_pc' = "failed" /\ cause' = why

\* An x alone is no prefix.
Hexadecimal == Len(text) > 1 /\ text[1] = X

prefix ==
    /\ ref_pc = "prefix"
    /\ base' = IF Hexadecimal THEN 16 ELSE 10
    /\ offset' = IF Hexadecimal THEN 2 ELSE 1
    /\ IF offset' > Len(text) THEN refuse("empty")
       ELSE ref_pc' = "digits" /\ UNCHANGED cause
    /\ UNCHANGED <<text, value, result, number>>

digit == text[offset]

\* The mistake of letting the base itself pass for a digit.
IsDigit_loose == digit >= 0 /\ digit <= base

IsDigit == digit >= 0 /\ digit < base

\* The mistake of leaving the digit out of account.
Overflows_base == value > MaxValue \div base

Overflows == value > (MaxValue - digit) \div base

following == offset + 1

read_digit ==
    /\ ref_pc = "digits" /\ offset <= Len(text)
    /\ \/ ~IsDigit /\ refuse("invalid") /\ UNCHANGED <<value, offset, number>>
       \/ IsDigit /\ Overflows
          /\ refuse("overflow")
          /\ number' = number * base + digit
          /\ UNCHANGED <<value, offset>>
       \/ /\ IsDigit /\ ~Overflows
          /\ value' = (value * base + digit) % (MaxValue + 1)
          /\ number' = number * base + digit
          /\ offset' = following
          /\ UNCHANGED <<ref_pc, cause>>
    /\ UNCHANGED <<text, base, result>>

finish ==
    /\ ref_pc = "digits" /\ offset > Len(text)
    /\ \/ value \notin XmlChars /\ refuse("not a character") /\ UNCHANGED result
       \/ /\ value \in XmlChars
          /\ ref_pc' = "done"
          /\ result' = append_utf8(value)
          /\ UNCHANGED cause
    /\ UNCHANGED <<text, base, offset, value, number>>

RefNext == prefix \/ read_digit \/ finish

RefSpec == RefInit /\ [][RefNext]_ref_vars

-----------------------------------------------------------------------------
(* Properties.                                                              *)

RefTypeOK ==
    /\ ref_pc \in {"prefix", "digits", "done", "failed"}
    /\ text \in Texts
    /\ base \in {10, 16}
    /\ offset \in 1..(Len(text) + 1)
    /\ value \in 0..MaxValue
    /\ number \in Nat
    /\ cause \in {"none", "empty", "invalid", "overflow", "not a character"}
    /\ cause # "none" <=> ref_pc = "failed"

\* Invariant: the value accumulated in a char32_t is the number written, so
\* it has never wrapped around; and only a number too large for a char32_t is
\* refused for "character reference overflow" (the check before the
\* multiplication in parse_character_reference).
NumberIsExact ==
    /\ ref_pc # "failed" => value = number
    /\ cause = "overflow" => number > MaxValue

\* What a reference means: its digits weighted by powers of the base.
Digits == IF Hexadecimal THEN Tail(text) ELSE text
Radix == IF Hexadecimal THEN 16 ELSE 10
IsNumber == Digits # <<>> /\ \A i \in DOMAIN Digits : Digits[i] \in 0..(Radix - 1)
Power[k \in 0..Len(text)] == IF k = 0 THEN 1 ELSE Radix * Power[k - 1]
Weighted == [i \in DOMAIN Digits |-> Digits[i] * Power[Len(Digits) - i]]
Denoted == SumFunction(Weighted)

\* Invariant: a reference is accepted if and only if it denotes an XML
\* character, and then it stands for that character's bytes.
VerdictIsRight ==
    /\ ref_pc = "done" => IsNumber /\ Denoted \in XmlChars /\ result = append_utf8(Denoted)
    /\ ref_pc = "failed" => ~(IsNumber /\ Denoted \in XmlChars)
=============================================================================
