----------------------------- MODULE Characters -----------------------------
(***************************************************************************)
(* Characters of parser_core.cpp: what XML allows, and UTF-8.              *)
(***************************************************************************)
EXTENDS Integers, Sequences

is_valid_xml_char(value, version) ==
    \/ IF version = "Xml11" THEN value \in 1 .. \hD7FF
       ELSE value \in {\h9, \hA, \hD} \cup \h20 .. \hD7FF
    \/ value \in \hE000 .. \hFFFD
    \/ value \in \h10000 .. \h10FFFF

\* The continuation byte that holds the six bits from 2^bit up.
Continuation(value, bit) == \h80 + ((value \div 2^bit) % 64)

\* The mistake of a boundary that is off by one.
append_utf8_short(value) ==
    CASE value <= \h80   -> <<value>>
      [] value > \h80 /\ value <= \h7FF -> <<\hC0 + (value \div 2^6), Continuation(value, 0)>>
      [] value > \h7FF /\ value <= \hFFFF ->
            <<\hE0 + (value \div 2^12), Continuation(value, 6), Continuation(value, 0)>>
      [] OTHER ->
            <<\hF0 + (value \div 2^18), Continuation(value, 12), Continuation(value, 6),
              Continuation(value, 0)>>

append_utf8(value) ==
    CASE value <= \h7F   -> <<value>>
      [] value > \h7F /\ value <= \h7FF -> <<\hC0 + (value \div 2^6), Continuation(value, 0)>>
      [] value > \h7FF /\ value <= \hFFFF ->
            <<\hE0 + (value \div 2^12), Continuation(value, 6), Continuation(value, 0)>>
      [] OTHER ->
            <<\hF0 + (value \div 2^18), Continuation(value, 12), Continuation(value, 6),
              Continuation(value, 0)>>
=============================================================================
