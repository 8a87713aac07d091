---------------------------- MODULE MCSerializer ----------------------------
(***************************************************************************)
(* Serializer on documents of up to three elements, with names as parsing  *)
(* makes them and as only the application does; attributes of a document   *)
(* of one element are set, again and again, before it is written.          *)
(***************************************************************************)
EXTENDS Serializer

Name(q, uri) == [uri |-> uri, local_name |-> Plain(q.local), qualified_name |-> q]

Attr(q, uri, value) ==
    [uri |-> uri, local_name |-> Plain(q.local), qualified_name |-> q, value |-> value]

Element(depth, name, attrs) ==
    [kind |-> "Element", depth |-> depth, uri |-> name.uri, local_name |-> name.local_name,
     qualified_name |-> name.qualified_name, attributes |-> attrs]

TextNode(depth, text) == [kind |-> "Text", depth |-> depth, text |-> text]

x == Plain("x")
px == Prefixed("p", "x")
qx == Prefixed("q", "x")

Names == {Name(Plain("e"), ""), Name(Plain("e"), "u"), Name(Plain("e"), "v"),
          Name(Prefixed("p", "e"), "u"), Name(Prefixed("p", "e"), "v"),
          Name(Prefixed("p", "e"), ""),
          \* "a:b:e", which create_element takes and the parser does not
          Name([form |-> "illformed", prefix |-> "a", local |-> "e"], "")}

AttributeLists == {
    <<>>,
    <<Attr(x, "", <<"&", "<", ">", "quote", "a">>)>>,
    <<Attr(px, "u", <<>>), Attr(Prefixed("p", "y"), "u", <<"a">>)>>,
    <<Attr(px, "u", <<"a">>), Attr(qx, "v", <<"a">>), Attr(x, "", <<"a">>)>>,
    <<Attr(Prefixed("xml", "x"), XmlUri, <<"a">>)>>,
    \* made by set_attribute, or by set_attribute_ns with any qualified name
    <<Attr(px, "v", <<"a">>), [Attr(px, "", <<"a">>) EXCEPT !.local_name = px]>>,
    <<Attr(x, "u", <<"a">>)>>,
    <<Attr(px, "u", <<"a">>), Attr(px, "v", <<"a">>)>>,
    <<Attr(Prefixed("xml", "x"), "u", <<"a">>)>>,
    <<Attr(Prefixed("xmlns", "z"), "u", <<"a">>)>>}

\* An attribute set twice, by both ways; one with a namespace under the same
\* qualified name; one with a local name the first has; one without a prefix.
SampleSettings == {
    [Attr(px, "", <<"a">>) EXCEPT !.local_name = px],
    [Attr(px, "", <<"<">>) EXCEPT !.local_name = px],
    Attr(px, "u", <<"a">>),
    Attr(qx, "u", <<"quote">>),
    Attr(px, "v", <<"a">>),
    Attr(x, "", <<"&">>),
    Attr(x, "u", <<"a">>)}

\* set_attribute, of a name with a prefix.
SettingsByName == {a \in SampleSettings : a.qualified_name = px /\ a.uri = ""}

FewAttributeLists == {<<>>, <<Attr(px, "u", <<"a">>)>>}

\* Documents of one element, and with an element more at the end.
Chain(lists) == {<<Element(0, n, l)>> : n \in Names, l \in lists}

Below(trees, depth, lists) ==
    {t \o <<Element(depth, n, l)>> : t \in trees, n \in Names, l \in lists}

Texts == {<<>>, <<"a">>, <<"&", "<", ">", "quote">>}

WithTexts ==
    {<<Element(0, Name(Plain("e"), "u"), <<>>), TextNode(1, s), TextNode(1, t),
       Element(1, Name(Plain("e"), "u"), <<>>), TextNode(2, s),
       [kind |-> "Leaf", depth |-> 1], TextNode(1, t)>> : s, t \in Texts}
        \cup {<<Element(0, Name(Plain("e"), "u"), <<>>), TextNode(1, s),
                Element(1, Name(Plain("e"), "u"), <<>>), TextNode(2, s), TextNode(1, s)>> :
                 s \in Texts}
        \cup {<<[kind |-> "Leaf", depth |-> 0], Element(0, Name(Plain("e"), "u"), <<>>)>>,
              <<TextNode(0, <<"a">>), Element(0, Name(Plain("e"), "u"), <<>>)>>}

SampleDocuments ==
    WithTexts
        \cup Chain(AttributeLists)
        \cup Below(Chain(AttributeLists), 1, AttributeLists)
        \cup UNION {Below(Below(Chain(FewAttributeLists), 1, FewAttributeLists), d, {<<>>}) :
                       d \in 1..2}

\* Documents of one or two elements, with names as parsing makes them.
ParsedDocuments ==
    {d \in Chain(AttributeLists) \cup Below(Chain(FewAttributeLists), 1, FewAttributeLists) :
        \A i \in DOMAIN d : NamesAsParsed(d[i])}
=============================================================================
