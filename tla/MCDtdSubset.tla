---------------------------- MODULE MCDtdSubset ----------------------------
(***************************************************************************)
(* DtdSubset on texts of up to three declarations, each written well, or   *)
(* with a piece left out, blanks changed, or something else in its place.  *)
(***************************************************************************)
EXTENDS DtdSubset

Element(n) == <<"<!ELEMENT", "space", n, "space", "EMPTY", ">">>
Entity(n)  == <<"<!ENTITY", "space", n, "tab", "'v'", ">">>

Shared ==
    {Element(n) : n \in Names}
        \cup {<<"<!ELEMENT", "a", "space", "ANY", ">">>,
              <<"<!ELEMENT", "space", "b", "space", ">">>,
              <<"<!ELEMENT", "space", "b", "EMPTY", ">">>,
              <<"<!ELEMENT", "space", "b", "space", "ANY">>,
              <<"tab", "<!ELEMENT", "space", "space", "b", "space", "ANY", "tab", ">", "space">>,
              <<"<!ELEMENT", "tab", "a", "space", "EMPTY", ">">>,
              <<"<!ATTLIST">>}

InternalOnly ==
    {Entity(n) : n \in Names}
        \cup {<<"<!ENTITY", "%", "a", "space", "'v'", ">">>,
              <<"<!ENTITY", "space", "a", "space", "'long'", ">">>,
              <<"<!ENTITY", "space", "a", "space", "EMPTY", ">">>,
              <<"<!ENTITY", "space", "b", "'v'", "space", "ANY">>,
              <<"comment">>}

\* A sequence of up to n declarations.
Joined(S, n) == {FlattenSeq(s) : s \in UNION {[1..k -> S] : k \in 0..n}}

Internal ==
    {<<">">>, <<"space", "ANY">>, <<>>}
        \cup {<<"[">> \o t \o <<"]", "space", ">">> : t \in Joined(Shared \cup InternalOnly, 2)}
        \cup {<<"[">> \o t : t \in Joined(Shared \cup InternalOnly, 1)}
        \cup {<<"[">> \o Element("a") \o Element("b") \o Entity("a") \o <<"]", ">">>,
              <<"[">> \o Entity("a") \o Element("b") \o Element("a") \o <<"]", ">">>}

External == Joined(Shared, 2) \cup {Element("a") \o Element("b") \o Element("c")}
=============================================================================
