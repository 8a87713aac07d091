----------------------------- MODULE Serializer -----------------------------
(***************************************************************************)
(* serialize of dom.cpp: a walk over a document that writes markup to a    *)
(* stream, with namespace declarations made up on the way; and a reader of *)
(* what is written, by the rules of parser_core.cpp (Namespaces).  Before  *)
(* it the application may set attributes of the document element.          *)
(*                                                                         *)
(* A document is the sequence of its nodes, depth first, each with its     *)
(* depth.  A namespace is an atom; other values and texts are sequences of *)
(* characters, of which those that escaping is about are told apart.  A    *)
(* "Leaf" is a comment, a processing instruction or a CDATA section that   *)
(* may stand where it does, with text that markup of its kind can hold; it *)
(* is written as it is.                                                    *)
(***************************************************************************)
EXTENDS Attributes, SequencesExt

CONSTANTS
    Documents,   \* those that can be built, each with one document element
    Settings,    \* attributes the application may set
    MaxEdited    \* bound: nodes of a document that is edited

\* A name without a colon has no prefix.
IsName(q) == /\ q.form = "plain" => q = Plain(q.local)
             /\ q.form = "prefixed" => q = Prefixed(q.prefix, q.local) /\ q.prefix # ""

\* Characters, none of which is what the serializer writes for another.
IsText(text) == /\ text \in Seq(Range(text))
                /\ Range(text) \cap {"&amp;", "&lt;", "&gt;", "&quot;"} = {}

IsAttribute(a) == /\ a = Attribute(a.uri, a.local_name, a.qualified_name, a.value)
                  /\ IsName(a.qualified_name)
                  /\ IsText(a.value)

\* set_attribute_ns, which all attributes come from, keeps their names apart.
IsElement(e) ==
    /\ e = [kind |-> "Element", depth |-> e.depth, uri |-> e.uri, local_name |-> e.local_name,
            qualified_name |-> e.qualified_name, attributes |-> e.attributes]
    /\ IsName(e.qualified_name)
    /\ e.attributes \in Seq(Range(e.attributes))
    /\ \A a \in Range(e.attributes) : IsAttribute(a)
    /\ AreDistinct(e.attributes)

IsTextNode(n) == n = [kind |-> "Text", depth |-> n.depth, text |-> n.text] /\ IsText(n.text)

IsDocumentElement(n) == n.kind = "Element" /\ n.depth = 0

ASSUME DocumentsAssumption ==
    /\ \A d \in Documents :
          /\ d \in Seq(Range(d))
          /\ \A i \in DOMAIN d : /\ d[i].kind = "Element" => IsElement(d[i])
                                 /\ d[i].kind = "Text" => IsTextNode(d[i])
          /\ \E i \in DOMAIN d : /\ IsDocumentElement(d[i])
                                 /\ \A j \in DOMAIN d : IsDocumentElement(d[j]) => j = i
    /\ \A a \in Settings : IsAttribute(a)

VARIABLES
    pc,        \* "start", "writing", "done" or "failed"
    nodes,     \* the document
    written,   \* history: the value last set for each expanded name
    cursor,    \* the next node
    open,      \* serialize_element: the elements being written
    good,      \* output.good()
    scopes,    \* the reader's namespace_scopes_
    read       \* the nodes the reader has made

reader == <<scopes, read>>
vars == <<pc, nodes, written, cursor, open, good, reader>>

document_element == CHOOSE i \in DOMAIN nodes : IsDocumentElement(nodes[i])

attributes == nodes[document_element].attributes

Init ==
    /\ pc = "start"
    /\ nodes \in Documents
    /\ written = [n \in {ExpandedName(attributes[i]) : i \in DOMAIN attributes} |->
                     get_attribute_ns(attributes, n[1], n[2])]
    /\ cursor = 1
    /\ open = <<>>
    /\ good \in BOOLEAN
    /\ scopes = <<>>
    /\ read = <<>>

-----------------------------------------------------------------------------
escape_text(text) ==
    [i \in DOMAIN text |-> CASE text[i] = "&" -> "&amp;"
                             [] text[i] = "<" -> "&lt;"
                             [] text[i] = ">" -> "&gt;"
                             [] OTHER         -> text[i]]

escape_attribute(text) ==
    [i \in DOMAIN text |-> CASE text[i] = "&"     -> "&amp;"
                             [] text[i] = "<"     -> "&lt;"
                             [] text[i] = "quote" -> "&quot;"
                             [] OTHER             -> text[i]]

prefix_of(qname) == qname.prefix

Xmlns(prefix, uri) ==
    [name |-> IF prefix = "" THEN Plain("xmlns") ELSE Prefixed("xmlns", prefix), value |-> uri]

\* An attribute with a namespace but no prefix is declared as "xmlns:".
XmlnsOfAttribute(prefix, uri) ==
    [name |-> IF prefix = "" THEN [form |-> "illformed", prefix |-> "xmlns", local |-> ""]
              ELSE Prefixed("xmlns", prefix),
     value |-> uri]

\* The first attribute with a namespace for each prefix that is not the
\* element's own; an element without a namespace declares nothing itself.
Declares(e, i) ==
    LET a == e.attributes[i]
    IN  /\ a.uri # ""
        /\ e.uri # "" => prefix_of(a.qualified_name) # prefix_of(e.qualified_name)
        /\ \A j \in 1..(i - 1) :
              e.attributes[j].uri # "" =>
                  prefix_of(e.attributes[j].qualified_name) # prefix_of(a.qualified_name)

\* The mistake of declaring prefixes for elements only.
Declarations_element(e) ==
    IF e.uri = "" THEN <<>> ELSE <<Xmlns(prefix_of(e.qualified_name), e.uri)>>

Declarations(e) ==
    (IF e.uri = "" THEN <<>> ELSE <<Xmlns(prefix_of(e.qualified_name), e.uri)>>)
        \o FlattenSeq([i \in DOMAIN e.attributes |->
              IF Declares(e, i)
              THEN <<XmlnsOfAttribute(prefix_of(e.attributes[i].qualified_name),
                                      e.attributes[i].uri)>>
              ELSE <<>>])

Tag(e) ==
    [name |-> e.qualified_name,
     attributes |-> Declarations(e) \o
        [i \in DOMAIN e.attributes |-> [name  |-> e.attributes[i].qualified_name,
                                        value |-> escape_attribute(e.attributes[i].value)]]]

HasChildren(i) == i < Len(nodes) /\ nodes[i + 1].depth > nodes[i].depth

-----------------------------------------------------------------------------
(* The reader: parse_element, parse_text and the references they replace.  *)

Refused == [kind |-> "refused"]

unescaped(text) ==
    [i \in DOMAIN text |-> CASE text[i] = "&amp;"  -> "&"
                             [] text[i] = "&lt;"   -> "<"
                             [] text[i] = "&gt;"   -> ">"
                             [] text[i] = "&quot;" -> "quote"
                             [] OTHER              -> text[i]]

Holds(text, S) == \E i \in DOMAIN text : text[i] \in S

TagRead(tag) ==
    LET within == Append(scopes, collect_namespace_declarations(tag.attributes, "Enabled"))
        plain == FlattenSeq([i \in DOMAIN tag.attributes |->
                     IF is_namespace_declaration(tag.attributes[i].name, "Enabled") THEN <<>>
                     ELSE <<tag.attributes[i]>>])
        resolved == [i \in DOMAIN plain |->
                        LET n == resolve_name(plain[i].name, FALSE, within, "Enabled")
                        IN  [uri |-> n.uri, local_name |-> n.local_name,
                             qualified_name |-> n.qualified_name,
                             value |-> unescaped(plain[i].value)]]
        name == resolve_name(tag.name, TRUE, within, "Enabled")
    IN  IF \/ \E i, j \in DOMAIN tag.attributes :
                 i # j /\ tag.attributes[i].name = tag.attributes[j].name
           \/ ~Resolvable(tag.name, within, "Enabled")
           \/ \E i \in DOMAIN plain : \/ ~Resolvable(plain[i].name, within, "Enabled")
                                      \/ Holds(plain[i].value, {"<", "&", "quote"})
           \/ \E i, j \in DOMAIN resolved :
                 i # j /\ ExpandedName(resolved[i]) = ExpandedName(resolved[j])
        THEN Refused
        ELSE [kind |-> "Element", depth |-> Len(scopes), uri |-> name.uri,
              local_name |-> name.local_name, qualified_name |-> name.qualified_name,
              attributes |-> resolved]

ReadTag(tag, has_children) ==
    /\ read' = Append(read, TagRead(tag))
    /\ scopes' = IF has_children
                 THEN Append(scopes, collect_namespace_declarations(tag.attributes, "Enabled"))
                 ELSE scopes

AfterText == read # <<>> /\ Last(read).kind = "Text" /\ Last(read).depth = Len(scopes)

\* Text that goes on is one node; no text at all makes none.
ReadText(text) ==
    /\ read' = IF text = <<>> THEN read
               ELSE IF scopes = <<>> \/ Holds(text, {"<", "&"}) THEN Append(read, Refused)
               ELSE IF AfterText
               THEN [read EXCEPT ![Len(read)].text = @ \o unescaped(text)]
               ELSE Append(read, [kind |-> "Text", depth |-> Len(scopes),
                                  text |-> unescaped(text)])
    /\ UNCHANGED scopes

ReadLeaf(leaf) == read' = Append(read, leaf) /\ UNCHANGED scopes

ReadEnd == scopes' = Front(scopes) /\ UNCHANGED read

\* A stream that has failed takes nothing more.
Put(Reading) == IF good THEN Reading ELSE UNCHANGED reader

-----------------------------------------------------------------------------
\* The application sets an attribute, by set_attribute if it has no namespace
\* and its local name is its qualified name.
edit(a) ==
    /\ pc = "start" /\ Len(nodes) <= MaxEdited
    /\ \/ nodes' = [nodes EXCEPT ![document_element].attributes =
                        set_attribute_ns(@, a.uri, a.local_name, a.qualified_name, a.value)]
       \/ /\ a.uri = "" /\ a.local_name = a.qualified_name
          /\ nodes' = [nodes EXCEPT ![document_element].attributes =
                           set_attribute(@, a.qualified_name, a.value)]
    /\ written' = [n \in DOMAIN written \cup {ExpandedName(a)} |->
                      IF n = ExpandedName(a) THEN a.value ELSE written[n]]
    /\ UNCHANGED <<pc, cursor, open, good, reader>>

begin ==
    /\ pc = "start"
    /\ pc' = IF good THEN "writing" ELSE "failed"
    /\ UNCHANGED <<nodes, written, cursor, open, good, reader>>

\* The next node to write is a child of the innermost open element.
AtChild == pc = "writing" /\ cursor <= Len(nodes) /\ nodes[cursor].depth = Len(open)

node == nodes[cursor]

serialize_element ==
    /\ AtChild /\ node.kind = "Element"
    /\ Put(ReadTag(Tag(node), HasChildren(cursor)))
    /\ open' = IF HasChildren(cursor) THEN Append(open, cursor) ELSE open
    /\ cursor' = cursor + 1
    /\ UNCHANGED <<pc, nodes, written, good>>

serialize_leaf ==
    /\ AtChild
    /\ \/ node.kind = "Text" /\ Put(ReadText(escape_text(node.text)))
       \/ node.kind = "Leaf" /\ Put(ReadLeaf(node))
    /\ cursor' = cursor + 1
    /\ UNCHANGED <<pc, nodes, written, open, good>>

serialize_end_tag ==
    /\ pc = "writing" /\ open # <<>>
    /\ cursor <= Len(nodes) => node.depth < Len(open)
    /\ Put(ReadEnd)
    /\ open' = Front(open)
    /\ UNCHANGED <<pc, nodes, written, cursor, good>>

serialize_returns ==
    /\ pc = "writing" /\ open = <<>> /\ cursor > Len(nodes)
    /\ pc' = IF good THEN "done" ELSE "failed"
    /\ UNCHANGED <<nodes, written, cursor, open, good, reader>>

\* The application's stream may fail at any write.
stream_fails ==
    /\ pc = "writing" /\ good
    /\ good' = FALSE
    /\ UNCHANGED <<pc, nodes, written, cursor, open, reader>>

Next ==
    \/ \E a \in Settings : edit(a)
    \/ begin
    \/ serialize_element
    \/ serialize_leaf
    \/ serialize_end_tag
    \/ serialize_returns
    \/ stream_fails

Spec == Init /\ [][Next]_vars

-----------------------------------------------------------------------------
(* Properties.                                                              *)

\* Invariant: the vector of attributes reads as a map from expanded names to
\* the values last set, with nothing else in it, whichever way they were set;
\* and a qualified name that only one attribute has reads as that one's value
\* (set_attribute, set_attribute_ns, get_attribute, get_attribute_ns).
ReadsTheLastWrite ==
    /\ Len(attributes) = Cardinality(DOMAIN written)
    /\ \A n \in DOMAIN written : get_attribute_ns(attributes, n[1], n[2]) = written[n]
    /\ \A i \in DOMAIN attributes :
          LET name == attributes[i].qualified_name
          IN  (\A j \in DOMAIN attributes : attributes[j].qualified_name = name => i = j)
              => get_attribute(attributes, name) = written[ExpandedName(attributes[i])]

Elements == {i \in DOMAIN nodes : nodes[i].kind = "Element"}

Ancestors(i) ==
    {j \in 1..(i - 1) : nodes[j].depth < nodes[i].depth
                        /\ \A k \in (j + 1)..i : nodes[k].depth > nodes[j].depth}

\* An element without a namespace below one that a default namespace is
\* declared for.
Captured(i) ==
    /\ nodes[i].uri = ""
    /\ \E j \in Ancestors(i) : nodes[j].uri # "" /\ prefix_of(nodes[j].qualified_name) = ""

\* What has a name: the element and its attributes.
Parts(e) == {e} \cup {e.attributes[i] : i \in DOMAIN e.attributes}

\* The names of an element and of its attributes are qualified names with
\* their local parts; one with a prefix is in a namespace, with "xml" in its
\* own; no attribute is a declaration.
NamesAreQualified(e) ==
    /\ \A n \in Parts(e) : /\ n.qualified_name.form \in {"plain", "prefixed"}
                           /\ n.local_name = Plain(n.qualified_name.local)
                           /\ n.qualified_name.form = "prefixed" =>
                                 /\ n.uri # ""
                                 /\ prefix_of(n.qualified_name) = "xml" => n.uri = XmlUri
    /\ \A i \in DOMAIN e.attributes :
          ~is_namespace_declaration(e.attributes[i].qualified_name, "Enabled")

\* A prefix stands for one namespace.
PrefixesAgree(e) ==
    \A m, n \in {n \in Parts(e) : n.qualified_name.form = "prefixed"} :
        prefix_of(m.qualified_name) = prefix_of(n.qualified_name) => m.uri = n.uri

PlainAttributesHaveNoNamespace(e) ==
    \A i \in DOMAIN e.attributes :
        e.attributes[i].qualified_name.form = "plain" => e.attributes[i].uri = ""

\* The names as the parser leaves them.
NamesAsParsed(e) ==
    NamesAreQualified(e) /\ PrefixesAgree(e) /\ PlainAttributesHaveNoNamespace(e)

\* A text as the parser leaves it: inside an element, with something in it,
\* and not right after another text.
TextAsParsed(i) ==
    /\ nodes[i].depth > 0 /\ nodes[i].text # <<>>
    /\ ~(nodes[i - 1].kind = "Text" /\ nodes[i - 1].depth = nodes[i].depth)

TextsAsParsed == \A i \in DOMAIN nodes : nodes[i].kind = "Text" => TextAsParsed(i)

AsParsed == (\A i \in Elements : NamesAsParsed(nodes[i])) /\ TextsAsParsed

\* Invariant: a document with names and texts such as the parser makes, and
\* no default namespace over an element without one, reads back name by
\* namespace, value and text once serialize has returned; a stream that
\* failed on the way never passes for one written (serialize,
\* serialize_element, escape_text, escape_attribute).
ReadsBack ==
    pc = "done" => (AsParsed /\ (\A i \in Elements : ~Captured(i)) => read = nodes)

-----------------------------------------------------------------------------
(* What the documentation says of the serializer and of attributes, which  *)
(* the code does not always do.                                            *)

\* Invariant: a document with names and texts such as the parser makes reads
\* back, wherever it has elements without a namespace: the serializer "emits
\* namespace declarations needed by qualified names".
NamespacesPreserved == pc = "done" => (AsParsed => read = nodes)

\* Invariant: every attribute reads by its qualified name as the value it was
\* given last: the DOM supports "qualified-name plus namespace URI/local-name
\* attribute access".
ReadsByQualifiedName ==
    \A i \in DOMAIN attributes :
        get_attribute(attributes, attributes[i].qualified_name)
            = written[ExpandedName(attributes[i])]
=============================================================================
