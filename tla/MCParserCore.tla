---------------------------- MODULE MCParserCore ----------------------------
(***************************************************************************)
(* Small documents for ParserCore.  The tags are chosen so that default    *)
(* and prefixed namespaces are declared, shadowed, undeclared and used out *)
(* of scope, and so that each refusal of a start tag can happen; the DTDs  *)
(* so that a child may conform, be misplaced or not be declared.           *)
(***************************************************************************)
EXTENDS ParserCore

A == Plain("a")
B == Plain("b")
PB == Prefixed("p", "b")
X == Plain("x")
PX == Prefixed("p", "x")
QX == Prefixed("q", "x")
Xmlns == Plain("xmlns")
XmlnsP == Prefixed("xmlns", "p")
XmlnsQ == Prefixed("xmlns", "q")
Bad == [form |-> "illformed", prefix |-> "", local |-> ":a"]

MCRawNames == {A, B, PB, X, PX, QX, Xmlns, XmlnsP, XmlnsQ, Bad}
MCValues == {"", "u", "v", "1"}

Attr(n, v) == [name |-> n, value |-> v]
Tag(n, attrs, empty) == [name |-> n, attributes |-> attrs, empty |-> empty]

MCStartTags ==
    {Tag(A, <<Attr(Xmlns, "u")>>, FALSE),
     Tag(B, <<>>, FALSE),
     Tag(B, <<Attr(Xmlns, "")>>, TRUE),
     Tag(PB, <<Attr(XmlnsP, "u")>>, FALSE),
     Tag(PB, <<Attr(XmlnsP, "v")>>, TRUE),
     Tag(PB, <<>>, TRUE),
     Tag(A, <<Attr(XmlnsP, "u"), Attr(XmlnsQ, "v"), Attr(PX, "1"), Attr(QX, "1")>>, TRUE),
     Tag(A, <<Attr(XmlnsP, "u"), Attr(XmlnsQ, "u"), Attr(PX, "1"), Attr(QX, "1")>>, TRUE),
     Tag(A, <<Attr(X, "1"), Attr(X, "u")>>, TRUE),
     Tag(A, <<Attr(X, "1"), Attr(PX, "1"), Attr(QX, "1"), Attr(XmlnsP, "u"), Attr(XmlnsQ, "v")>>,
         TRUE),
     Tag(Bad, <<>>, TRUE)}

Options(depth, mode, validation, recoverable) ==
    [max_depth |-> depth, max_attributes |-> 4, namespaces |-> mode, validation |-> validation,
     recoverable_error_handler |-> recoverable]

MCOptions ==
    {Options(3, "Enabled", "Dtd", TRUE), Options(2, "Disabled", "Dtd", FALSE),
     Options(1, "Enabled", "None", FALSE), Options(0, "Enabled", "Dtd", FALSE)}

\* For CDATA under validation.
MCDtdTags == {Tag(A, <<>>, FALSE), Tag(B, <<>>, FALSE), Tag(B, <<>>, TRUE)}

MCDtdOptions ==
    {Options(3, "Enabled", "Dtd", TRUE), Options(2, "Enabled", "Dtd", FALSE)}

Model(kind, children) == [kind |-> kind, children |-> children]

Dtd(root, elements) == [has_doctype |-> TRUE, root_name |-> root, elements |-> elements]

MCDoctypes ==
    {Dtd(A, [n \in {A, B} |-> IF n = A THEN Model("Children", <<B, B>>) ELSE Model("Empty", <<>>)]),
     Dtd(B, [n \in {A, B} |-> IF n = A THEN Model("Pcdata", <<>>) ELSE Model("Any", <<>>)]),
     Dtd(A, [n \in {B} |-> Model("Children", <<A>>)])}

=============================================================================
