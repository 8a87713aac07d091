----------------------------- MODULE ParserCore -----------------------------
(***************************************************************************)
(* class Parser of parser_core.cpp: the recursive descent from             *)
(* start_document to end_document, with its four stacks, the checks made   *)
(* at each token, the callbacks it makes and the exceptions that end it.   *)
(*                                                                         *)
(* A token stands for the characters a parse_* function consumes in one    *)
(* go; what is inside a token is abstracted to what decides the control:   *)
(* the names and namespace declarations of a tag, whether a text is empty, *)
(* blank or not, and whether the token is lexically in order at all        *)
(* (LexicalFailure).  The recursion parse_element / parse_content is the   *)
(* program counter pc with the stacks.                                     *)
(*                                                                         *)
(* open and event belong to the application's handler: what it has been    *)
(* told.  They are computed from the arguments of the callbacks alone,     *)
(* plus, for reference, the tag that was in the document (field tag).      *)
(***************************************************************************)
EXTENDS Namespaces, SequencesExt

CONSTANTS
    OptionSet,    \* ParserOptions: [max_depth, max_attributes, namespaces,
                  \*                 validation, recoverable_error_handler]
    RawNames,     \* element and attribute names, as records of Namespaces
    Values,       \* attribute values; those of declarations are URIs
    StartTags,    \* [name, attributes, empty]
    Doctypes,     \* what a DOCTYPE leaves in DtdState: [has_doctype,
                  \*                 root_name, elements]
    MaxTokens     \* bound: tokens in a document

Attributes == [name : RawNames, value : Values]

ASSUME OptionsAssumption ==
    \A o \in OptionSet :
        /\ o.max_depth \in Nat
        /\ o.max_attributes \in Nat
        /\ o.recoverable_error_handler \in BOOLEAN

ASSUME NamesAssumption ==
    \A q \in RawNames : q.form = "plain" => q.prefix = ""

ASSUME TagsAssumption ==
    StartTags \subseteq [name : RawNames, attributes : Seq(Attributes), empty : BOOLEAN]

ASSUME DoctypesAssumption ==
    \A d \in Doctypes : \A n \in DOMAIN d.elements :
        d.elements[n].kind \in {"Any", "Empty", "Pcdata", "Children"}

ASSUME TokensAssumption == MaxTokens \in Nat

VARIABLES
    pc,                   \* where parse() is
    remaining,            \* tokens not yet consumed; 0 is eof()
    options,              \* options_
    dtd,                  \* dtd_
    element_stack,        \* element_stack_: raw names
    element_name_stack,   \* element_name_stack_: resolved names
    namespace_scopes,     \* namespace_scopes_
    validation_stack,     \* validation_stack_
    reports,              \* calls of recoverable_error_handler so far
    error,                \* kind of the exception that ended parse()
    open,                 \* handler: elements started and not ended
    rooted,               \* handler: whether any element has been started
    event                 \* handler: the last callback and its arguments

stacks == <<element_stack, element_name_stack, namespace_scopes, validation_stack>>
handler == <<open, rooted, event>>
vars == <<pc, remaining, options, dtd, stacks, reports, error, handler>>

-----------------------------------------------------------------------------
NoName == [uri |-> "", local_name |-> Plain(""), qualified_name |-> Plain("")]
NoElement == [name |-> NoName, tag |-> Plain(""), declares |-> <<>>,
              children |-> <<>>, text |-> {}]
NoDoctype == [has_doctype |-> FALSE, root_name |-> Plain(""), elements |-> <<>>]

Prolog == {"xml_declaration", "before_doctype", "before_element"}
Reading == Prolog \cup {"content", "after_element"}
Stopped == {"done", "failed"}

\* The mistake of reading on at eof().
advance_unchecked == remaining' = remaining - 1

advance == remaining > 0 /\ remaining' = remaining - 1

fail(kind) == pc' = "failed" /\ error' = kind

-----------------------------------------------------------------------------
(* Callbacks.  Any of them may throw, and the exception leaves parse().     *)

Called(k, n, attrs, e) == [kind |-> k, name |-> n, attributes |-> attrs, element |-> e]

ReturnsTo(next) ==
    \/ pc' = next /\ UNCHANGED error
    \/ fail("callback")

\* The handler notes an item of the innermost of these open elements: a
\* child that has ended, or text of some kind.
Noted(e, item) ==
    IF item.kind = "element" THEN [e EXCEPT !.children = Append(e.children, item.name)]
    ELSE [e EXCEPT !.text = e.text \cup {item.kind}]

Note(elements, item) ==
    IF elements = <<>> THEN elements
    ELSE [elements EXCEPT ![Len(elements)] = Noted(elements[Len(elements)], item)]

start_element(n, attrs, tag, next) ==
    LET e == [name |-> n, tag |-> tag.name, declares |-> tag.attributes,
              children |-> <<>>, text |-> {}]
    IN  /\ open' = Append(open, e)
        /\ rooted' = TRUE
        /\ event' = Called("start_element", n, attrs, e)
        /\ ReturnsTo(next)

end_element(n) ==
    LET ended == Last(open)
    IN  /\ open' = Note(Front(open), [kind |-> "element", name |-> ended.tag])
        /\ event' = Called("end_element", n, <<>>, ended)
        /\ UNCHANGED rooted
        /\ ReturnsTo("closing")

content_callback(k, item, next) ==
    /\ open' = Note(open, item)
    /\ event' = Called(k, NoName, <<>>, NoElement)
    /\ UNCHANGED rooted
    /\ ReturnsTo(next)

plain_callback(k, next) ==
    /\ event' = Called(k, NoName, <<>>, NoElement)
    /\ UNCHANGED <<open, rooted>>
    /\ ReturnsTo(next)

-----------------------------------------------------------------------------
Init ==
    /\ pc = "constructed"
    /\ remaining \in 0..MaxTokens
    /\ options \in OptionSet
    /\ dtd = NoDoctype
    /\ element_stack = <<>>
    /\ element_name_stack = <<>>
    /\ namespace_scopes = <<>>
    /\ validation_stack = <<>>
    /\ reports = 0
    /\ error = "none"
    /\ open = <<>>
    /\ rooted = FALSE
    /\ event = Called("none", NoName, <<>>, NoElement)

\* decode_document throws in the constructor, before any callback.
DecodeFails ==
    /\ pc = "constructed"
    /\ \E kind \in {"EmptyInput", "ResourceLimit", "Encoding", "WellFormedness"} : fail(kind)
    /\ UNCHANGED <<remaining, options, dtd, stacks, reports, handler>>

StartDocument ==
    /\ pc = "constructed"
    /\ plain_callback("start_document", "xml_declaration")
    /\ UNCHANGED <<remaining, options, dtd, stacks, reports>>

parse_xml_declaration_if_present ==
    /\ pc = "xml_declaration"
    /\ advance
    /\ pc' = "before_doctype"
    /\ UNCHANGED <<options, dtd, stacks, reports, error, handler>>

\* The mistake of a skip_misc that finds the same comment again.
skip_misc_in_place ==
    /\ pc \in Reading
    /\ remaining > 0
    /\ \E k \in {"comment", "processing_instruction"} :
          plain_callback(k, IF pc = "xml_declaration" THEN "before_doctype" ELSE pc)
    /\ UNCHANGED <<remaining, options, dtd, stacks, reports>>

\* Comments and processing instructions, in skip_misc and in parse_content.
parse_misc ==
    /\ pc \in Reading
    /\ advance
    /\ \E k \in {"comment", "processing_instruction"} :
          plain_callback(k, IF pc = "xml_declaration" THEN "before_doctype" ELSE pc)
    /\ UNCHANGED <<options, dtd, stacks, reports>>

parse_doctype_if_present ==
    /\ pc \in {"xml_declaration", "before_doctype"}
    /\ advance
    /\ \E d \in Doctypes : dtd' = d
    /\ pc' = "before_element"
    /\ UNCHANGED <<options, stacks, reports, error, handler>>

-----------------------------------------------------------------------------
(* parse_element: the start tag.                                            *)

AtStartTag == pc \in Prolog \cup {"content"}

\* The depth is checked before the attributes are read.
WithinDepth == Len(element_stack) + 1 <= options.max_depth

RepeatsEarlier(attributes, i) == \E j \in 1..(i - 1) : attributes[j].name = attributes[i].name

Accepted(attributes, i) == ~RepeatsEarlier(attributes, i) /\ i <= options.max_attributes

AttributesAccepted(t) == \A i \in DOMAIN t.attributes : Accepted(t.attributes, i)

ScopesWith(t) ==
    Append(namespace_scopes, collect_namespace_declarations(t.attributes, options.namespaces))

\* Positions of the attributes that are not namespace declarations: the
\* attributes handed to start_element keep their order in the tag.
Emitted(t) ==
    {i \in DOMAIN t.attributes : ~is_namespace_declaration(t.attributes[i].name, options.namespaces)}

EmittedNames(t) ==
    [i \in Emitted(t) |->
        resolve_name(t.attributes[i].name, FALSE, ScopesWith(t), options.namespaces)]

NamesResolvable(t) ==
    /\ Resolvable(t.name, ScopesWith(t), options.namespaces)
    /\ \A i \in Emitted(t) :
          Resolvable(t.attributes[i].name, ScopesWith(t), options.namespaces)

\* The mistake of a namespace-unaware duplicate check.
NamesAccepted_raw_only(t) == NamesResolvable(t)

NamesAccepted(t) ==
    /\ NamesResolvable(t)
    /\ \A i, j \in Emitted(t) :
          ExpandedName(EmittedNames(t)[i]) = ExpandedName(EmittedNames(t)[j]) => i = j

TagTooDeep ==
    /\ AtStartTag /\ ~WithinDepth
    /\ advance
    /\ fail("ResourceLimit")
    /\ UNCHANGED <<options, dtd, stacks, reports, handler>>

\* The first attribute refused, from left to right, decides the error.
TagAttributesRefused ==
    /\ AtStartTag /\ WithinDepth
    /\ advance
    /\ \E t \in StartTags : \E i \in DOMAIN t.attributes :
          /\ \A j \in 1..(i - 1) : Accepted(t.attributes, j)
          /\ ~Accepted(t.attributes, i)
          /\ fail(IF RepeatsEarlier(t.attributes, i) THEN "WellFormedness" ELSE "ResourceLimit")
    /\ UNCHANGED <<options, dtd, stacks, reports, handler>>

TagNamesRefused ==
    /\ AtStartTag /\ WithinDepth
    /\ advance
    /\ \E t \in StartTags : AttributesAccepted(t) /\ ~NamesAccepted(t)
    /\ fail("WellFormedness")
    /\ UNCHANGED <<options, dtd, stacks, reports, handler>>

StartElement(t) ==
    /\ AtStartTag /\ WithinDepth
    /\ advance
    /\ AttributesAccepted(t) /\ NamesAccepted(t)
    /\ namespace_scopes' = ScopesWith(t)
    /\ LET element_name == resolve_name(t.name, TRUE, namespace_scopes', options.namespaces)
       IN  /\ element_stack' = Append(element_stack, t.name)
           /\ element_name_stack' = Append(element_name_stack, element_name)
           /\ validation_stack' = Append(validation_stack,
                 [name |-> t.name, child_elements |-> <<>>, has_non_whitespace_text |-> FALSE])
           /\ start_element(element_name, EmittedNames(t), t,
                            IF t.empty THEN "empty_tag" ELSE "content")
    /\ UNCHANGED <<options, dtd, reports>>

EmptyTag ==
    /\ pc = "empty_tag"
    /\ end_element(Last(element_name_stack))
    /\ UNCHANGED <<remaining, options, dtd, stacks, reports>>

-----------------------------------------------------------------------------
(* parse_content.                                                           *)

EndTag ==
    /\ pc = "content"
    /\ advance
    /\ end_element(Last(element_name_stack))
    /\ UNCHANGED <<options, dtd, stacks, reports>>

MismatchedEndTag ==
    /\ pc = "content"
    /\ advance
    /\ \E n \in RawNames : n # Last(element_stack)
    /\ fail("WellFormedness")
    /\ UNCHANGED <<options, dtd, stacks, reports, handler>>

\* The mistake of letting a blank text clear the flag.
parse_text_overwriting(class) ==
    /\ pc = "content"
    /\ advance
    /\ validation_stack' =
          [validation_stack EXCEPT ![Len(validation_stack)].has_non_whitespace_text =
              class = "nonblank"]
    /\ IF class = "empty" THEN UNCHANGED <<pc, error, handler>>
       ELSE content_callback("characters", [kind |-> class, name |-> Plain("")], "content")
    /\ UNCHANGED <<options, dtd, element_stack, element_name_stack, namespace_scopes, reports>>

\* A text whose references all expand to nothing makes no callback.
parse_text(class) ==
    /\ pc = "content"
    /\ advance
    /\ validation_stack' =
          IF class = "nonblank"
          THEN [validation_stack EXCEPT ![Len(validation_stack)].has_non_whitespace_text = TRUE]
          ELSE validation_stack
    /\ IF class = "empty" THEN UNCHANGED <<pc, error, handler>>
       ELSE content_callback("characters", [kind |-> class, name |-> Plain("")], "content")
    /\ UNCHANGED <<options, dtd, element_stack, element_name_stack, namespace_scopes, reports>>

parse_cdata ==
    /\ pc = "content"
    /\ advance
    /\ content_callback("cdata", [kind |-> "cdata", name |-> Plain("")], "content")
    /\ UNCHANGED <<options, dtd, stacks, reports>>

-----------------------------------------------------------------------------
(* finish_validation_frame and validate_element.                            *)

RootErrors(frame, outer) == IF outer = <<>> /\ frame.name # dtd.root_name THEN 1 ELSE 0

ModelErrors(frame) ==
    IF frame.name \notin DOMAIN dtd.elements THEN 1
    ELSE LET model == dtd.elements[frame.name]
             broken == CASE model.kind = "Any"      -> FALSE
                         [] model.kind = "Empty"    -> \/ frame.child_elements # <<>>
                                                       \/ frame.has_non_whitespace_text
                         [] model.kind = "Pcdata"   -> frame.child_elements # <<>>
                         [] model.kind = "Children" -> \/ frame.child_elements # model.children
                                                       \/ frame.has_non_whitespace_text
         IN  IF broken THEN 1 ELSE 0

\* The mistake of returning once the root mismatch has been recovered from.
validate_element_root_only(frame, outer) ==
    IF options.validation # "Dtd" \/ ~dtd.has_doctype THEN 0
    ELSE IF outer = <<>> THEN RootErrors(frame, outer)
    ELSE ModelErrors(frame)

\* The number of validity errors found, in order: root, then model.
validate_element(frame, outer) ==
    IF options.validation # "Dtd" \/ ~dtd.has_doctype THEN 0
    ELSE RootErrors(frame, outer) + ModelErrors(frame)

\* recoverable_validity_error, n times: without a handler the first throws
\* Validity; a handler may let every one pass or throw at the k-th.
Recovered(n) ==
    /\ n > 0 => options.recoverable_error_handler
    /\ reports' = reports + n

NotRecovered(n) ==
    \/ /\ n > 0 /\ ~options.recoverable_error_handler
       /\ fail("Validity")
       /\ UNCHANGED reports
    \/ /\ options.recoverable_error_handler
       /\ \E k \in 1..n : reports' = reports + k
       /\ fail("callback")

PopFrame(frame, outer) ==
    validation_stack' =
        IF outer = <<>> THEN outer
        ELSE [outer EXCEPT ![Len(outer)].child_elements = Append(@, frame.name)]

\* The mistake of leaving the namespace scope of a finished element behind.
PopElement_keeping_scope ==
    /\ element_name_stack' = Front(element_name_stack)
    /\ element_stack' = Front(element_stack)
    /\ UNCHANGED namespace_scopes

\* The mistake of leaving the resolved name of a finished element behind.
PopElement_keeping_name ==
    /\ namespace_scopes' = Front(namespace_scopes)
    /\ element_stack' = Front(element_stack)
    /\ UNCHANGED element_name_stack

PopElement ==
    /\ namespace_scopes' = Front(namespace_scopes)
    /\ element_name_stack' = Front(element_name_stack)
    /\ element_stack' = Front(element_stack)

FinishElement ==
    /\ pc = "closing"
    /\ LET frame == Last(validation_stack)
           outer == Front(validation_stack)
           n == validate_element(frame, outer)
       IN  \/ /\ Recovered(n)
              /\ PopFrame(frame, outer)
              /\ PopElement
              /\ pc' = IF Len(element_stack) = 1 THEN "after_element" ELSE "content"
              /\ UNCHANGED error
           \/ /\ NotRecovered(n)
              /\ validation_stack' = outer
              /\ UNCHANGED <<element_stack, element_name_stack, namespace_scopes>>
    /\ UNCHANGED <<remaining, options, dtd, handler>>

-----------------------------------------------------------------------------
(* The end of the input, and tokens that are not in order.                  *)

EndDocument ==
    /\ pc = "after_element"
    /\ remaining = 0
    /\ plain_callback("end_document", "done")
    /\ UNCHANGED <<remaining, options, dtd, stacks, reports>>

ExtraContent ==
    /\ pc = "after_element"
    /\ remaining > 0
    /\ fail("WellFormedness")
    /\ UNCHANGED <<remaining, options, dtd, stacks, reports, handler>>

Truncated ==
    /\ pc \in Prolog \cup {"content"}
    /\ remaining = 0
    /\ fail("WellFormedness")
    /\ UNCHANGED <<remaining, options, dtd, stacks, reports, handler>>

\* Validity comes from the DOCTYPE and from entity references.
LexicalFailure ==
    /\ pc \in Reading
    /\ advance
    /\ \E kind \in {"WellFormedness", "ResourceLimit", "Validity"} :
          /\ kind = "Validity" => pc # "after_element"
          /\ fail(kind)
    /\ UNCHANGED <<options, dtd, stacks, reports, handler>>

Next ==
    \/ DecodeFails
    \/ StartDocument
    \/ parse_xml_declaration_if_present
    \/ parse_misc
    \/ parse_doctype_if_present
    \/ TagTooDeep
    \/ TagAttributesRefused
    \/ TagNamesRefused
    \/ \E t \in StartTags : StartElement(t)
    \/ EmptyTag
    \/ EndTag
    \/ MismatchedEndTag
    \/ \E class \in {"empty", "blank", "nonblank"} : parse_text(class)
    \/ parse_cdata
    \/ FinishElement
    \/ EndDocument
    \/ ExtraContent
    \/ Truncated
    \/ LexicalFailure

Spec == Init /\ [][Next]_vars

\* parse() is one thread running to completion.
Fairness == WF_vars(Next)
FairSpec == Spec /\ Fairness

-----------------------------------------------------------------------------
(* Types.                                                                   *)

DeclarablePrefixes == {DeclaredPrefix(q) : q \in RawNames}
Scopes == UNION {[D -> Values] : D \in SUBSET DeclarablePrefixes}
Uris == Values \cup {"", XmlUri}
LocalNames == RawNames \cup {Plain(q.local) : q \in RawNames} \cup {Plain("")}
QualifiedNames ==
    [uri : Uris, local_name : LocalNames, qualified_name : RawNames \cup {Plain("")}]
TextKinds == {"blank", "nonblank", "cdata"}
Items == [kind : {"element"} \cup TextKinds, name : RawNames \cup {Plain("")}]
OpenElements == [name : QualifiedNames, tag : RawNames \cup {Plain("")},
                 declares : Seq(Attributes), children : Seq(RawNames \cup {Plain("")}),
                 text : SUBSET TextKinds]
Frames == [name : RawNames, child_elements : Seq(RawNames), has_non_whitespace_text : BOOLEAN]
EventKinds == {"none", "start_document", "end_document", "start_element", "end_element",
               "characters", "cdata", "comment", "processing_instruction"}
ErrorKinds == {"none", "callback", "EmptyInput", "Encoding", "ResourceLimit", "Validity",
               "WellFormedness"}

\* The variables hold values of the C++ types they stand for, an error is
\* recorded exactly when parse() has thrown, and reads stop at eof().
TypeOK ==
    /\ pc \in Reading \cup Stopped \cup {"constructed", "empty_tag", "closing"}
    /\ remaining \in 0..MaxTokens
    /\ options \in OptionSet
    /\ dtd \in Doctypes \cup {NoDoctype}
    /\ element_stack \in Seq(RawNames)
    /\ element_name_stack \in Seq(QualifiedNames)
    /\ namespace_scopes \in Seq(Scopes)
    /\ validation_stack \in Seq(Frames)
    /\ reports \in Nat
    /\ error \in ErrorKinds
    /\ error # "none" <=> pc = "failed"
    /\ open \in Seq(OpenElements)
    /\ rooted \in BOOLEAN
    /\ event.kind \in EventKinds
    /\ event.name \in QualifiedNames
    /\ \A i \in DOMAIN event.attributes : event.attributes[i] \in QualifiedNames

-----------------------------------------------------------------------------
(* Safety.                                                                  *)

\* The elements on the parser's stacks that the handler has not been told
\* the end of: all of them, save the one being closed.
Unended == IF pc = "closing" THEN Len(element_stack) - 1 ELSE Len(element_stack)

\* Invariant: while parse() runs, the raw names, the resolved names, the
\* namespace scopes and the validation frames stand for the same elements,
\* these are the elements the handler has been given, there are never more
\* of them than max_depth, and none is left once the document element has
\* been closed (parse_element, finish_validation_frame).
StacksAgree ==
    pc # "failed" =>
        /\ Len(element_name_stack) = Len(element_stack)
        /\ Len(namespace_scopes) = Len(element_stack)
        /\ Len(validation_stack) = Len(element_stack)
        /\ Len(open) = Unended
        /\ \A i \in DOMAIN element_stack :
              /\ validation_stack[i].name = element_stack[i]
              /\ element_name_stack[i].qualified_name = element_stack[i]
        /\ \A i \in DOMAIN open :
              /\ open[i].name = element_name_stack[i]
              /\ open[i].tag = element_stack[i]
        /\ Len(element_stack) <= options.max_depth
        /\ element_stack # <<>> <=> pc \in {"content", "empty_tag", "closing"}

\* What the declarations of the open elements say of a prefix, innermost
\* first: the reference for namespace_scopes_ and lookup_namespace.
Binding(i, p) == {open[i].declares[k].value : k \in DeclarationsOf(open[i].declares, p, "Enabled")}

BoundTo(p, uri, depth) ==
    \/ /\ \A i \in 1..depth : Binding(i, p) = {}
       /\ uri = ""
    \/ \E i \in 1..depth :
          /\ uri \in Binding(i, p)
          /\ \A j \in (i + 1)..depth : Binding(j, p) = {}

\* Invariant: the URI an open element was announced with is the one given
\* to its prefix by the nearest declaration on itself or an open ancestor:
\* no declaration of a finished sibling is still in scope, and none of an
\* ancestor has been lost (resolve_name, namespace_scopes_).
ResolvedFromOpenElements ==
    options.namespaces = "Enabled" =>
        \A d \in DOMAIN open :
            open[d].tag.prefix # "xml" => BoundTo(open[d].tag.prefix, open[d].name.uri, d)

\* Invariant: a start_element event never carries two attributes of one
\* expanded name, whichever prefixes the document used for them, and never
\* more than max_attributes_per_element (parse_attributes, parse_element).
DeliveredAttributesAreDistinct ==
    LET attrs == event.attributes
    IN  /\ DOMAIN attrs \subseteq 1..options.max_attributes
        /\ \A i, j \in DOMAIN attrs :
              ExpandedName(attrs[i]) = ExpandedName(attrs[j]) => i = j

HasText(e, kinds) == e.text \cap kinds # {}

Records(frame, e) ==
    /\ frame.child_elements = e.children
    /\ frame.has_non_whitespace_text <=> HasText(e, {"nonblank"})

\* Invariant: while content is read, each validation frame holds exactly
\* the children the handler saw end in that element, in their order, and
\* remembers any non-blank characters among them (ValidationFrame).
FramesHoldDeliveredContent ==
    pc = "content" =>
        \A i \in DOMAIN open : Records(validation_stack[i], open[i])

\* Validity of a finished element, from what the handler was told of it.
RightRoot(e, is_root) == is_root => e.tag = dtd.root_name

FitsModel(e, textual) ==
    /\ e.tag \in DOMAIN dtd.elements
    /\ LET model == dtd.elements[e.tag]
       IN  CASE model.kind = "Any"      -> TRUE
             [] model.kind = "Empty"    -> e.children = <<>> /\ ~HasText(e, textual)
             [] model.kind = "Pcdata"   -> e.children = <<>>
             [] model.kind = "Children" -> e.children = model.children /\ ~HasText(e, textual)

Conforms(e, is_root, textual) == RightRoot(e, is_root) /\ FitsModel(e, textual)

Validating == options.validation = "Dtd" /\ dtd.has_doctype

\* An element can be the wrong root and break its own declaration as well.
Faults(e, is_root, textual) ==
    IF ~Validating \/ Conforms(e, is_root, textual) THEN 0
    ELSE IF ~RightRoot(e, is_root) /\ ~FitsModel(e, textual) THEN 2 ELSE 1

\* Action property: as an element is finished, each fault that DTD
\* validation finds in what the handler saw of it is reported exactly once;
\* or it is refused, at its first fault or by the handler that a fault was
\* reported to. One without a fault passes silently (validate_element).
ReportedIffNonconforming ==
    [][pc = "closing" =>
          LET faults == Faults(event.element, Len(element_stack) = 1, {"nonblank"})
          IN  \/ reports' = reports + faults /\ UNCHANGED error
              \/ faults > 0 /\ UNCHANGED reports /\ error' = "Validity"
              \/ reports' \in (reports + 1)..(reports + faults) /\ error' = "callback"]_vars

\* Action property: the same with CDATA counted as content, as "EMPTY
\* element has content" (validate_element) says of any content.
CDataIsContent ==
    [][pc = "closing" /\ Validating
          /\ ~Conforms(event.element, Len(element_stack) = 1, {"nonblank", "cdata"})
       => reports' > reports \/ error' = "Validity"]_vars

-----------------------------------------------------------------------------
(* What the handler is promised, and termination.                           *)

NamesOf(elements) == [i \in DOMAIN elements |-> elements[i].name]

Phase == CASE event.kind = "none" -> "silent"
           [] event.kind = "end_document" -> "ended"
           [] OTHER -> "document"

Stream == INSTANCE SaxEventStream WITH
    Names <- QualifiedNames,
    phase <- Phase,
    path <- NamesOf(open),
    rooted <- rooted,
    alive <- pc # "failed",
    event <- [kind |-> event.kind, name |-> event.name]

\* Refinement: every run of the parser is, for the handler, a run of
\* SaxEventStream.
DeliversAStream == Stream!Spec

\* Liveness: parse() returns or throws, whatever the document and however
\* the callbacks behave.
ParseEnds == <>(pc \in Stopped)
=============================================================================
