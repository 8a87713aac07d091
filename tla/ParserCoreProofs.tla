-------------------------- MODULE ParserCoreProofs --------------------------
(***************************************************************************)
(* Proofs about ParserCore, for every set of documents, options and DTDs:  *)
(* its stacks agree, it delivers an event stream, and what it delivers of  *)
(* names, attributes and verdicts is right.                                *)
(***************************************************************************)
EXTENDS ParserCore, SequenceLemmas, WellFoundedInduction

-----------------------------------------------------------------------------
(* Namespace lookup.                                                        *)

\* A non-empty set of stack positions has an innermost one.
LEMMA InnermostFacts ==
    ASSUME NEW n \in Nat, NEW S, S \subseteq 1..n, S # {}
    PROVE  Innermost(S) \in S /\ \A j \in S : j <= Innermost(S)
BY GreatestFacts DEF Innermost

\* A prefix is looked up to a URI that occurs in the document, to the URI
\* of "xml", or to the empty URI.
LEMMA LookupType ==
    ASSUME NEW scopes \in Seq(Scopes), NEW p
    PROVE  lookup_namespace(p, scopes) \in Uris
<1>1. CASE p = "xml" \/ Declaring(p, scopes) = {}
  BY <1>1 DEF lookup_namespace, Uris
<1>2. CASE p # "xml" /\ Declaring(p, scopes) # {}
  <2> DEFINE i == Innermost(Declaring(p, scopes))
  <2>1. Declaring(p, scopes) \subseteq 1..Len(scopes) /\ Len(scopes) \in Nat
    BY LenProperties DEF Declaring
  <2>2. i \in Declaring(p, scopes)
    BY <1>2, <2>1, InnermostFacts
  <2>3. scopes[i] \in Scopes /\ p \in DOMAIN scopes[i]
    BY <2>1, <2>2, ElementOfSeq DEF Declaring
  <2>4. scopes[i][p] \in Values
    BY <2>3 DEF Scopes
  <2> QED BY <1>2, <2>4 DEF lookup_namespace, Uris
<1> QED BY <1>1, <1>2

\* A resolved name is a QualifiedName.
LEMMA ResolveType ==
    ASSUME NEW scopes \in Seq(Scopes), NEW q \in RawNames, NEW is_element \in BOOLEAN, NEW mode
    PROVE  /\ resolve_name(q, is_element, scopes, mode) \in QualifiedNames
           /\ resolve_name(q, is_element, scopes, mode).qualified_name = q
<1>1. /\ lookup_namespace("", scopes) \in Uris
      /\ lookup_namespace(q.prefix, scopes) \in Uris
  BY LookupType
<1>2. "" \in Uris
  BY DEF Uris
<1>3. q \in LocalNames /\ Plain(q.local) \in LocalNames
  BY DEF LocalNames
<1> QED BY <1>1, <1>2, <1>3 DEF resolve_name, QualifiedNames

\* The scope an element contributes maps prefixes to attribute values.
LEMMA CollectType ==
    ASSUME NEW attributes \in Seq(Attributes), NEW mode
    PROVE  collect_namespace_declarations(attributes, mode) \in Scopes
<1> DEFINE D(p) == DeclarationsOf(attributes, p, mode)
           scope == collect_namespace_declarations(attributes, mode)
           declared == {p \in {DeclaredPrefix(attributes[i].name) : i \in DOMAIN attributes} :
                           D(p) # {}}
<1>1. /\ Len(attributes) \in Nat /\ DOMAIN attributes = 1..Len(attributes)
      /\ \A i \in DOMAIN attributes : attributes[i] \in Attributes
  BY LenProperties, ElementOfSeq
<1>2. declared \in SUBSET DeclarablePrefixes
  BY <1>1 DEF DeclarablePrefixes, Attributes
<1>3. \A p \in declared : attributes[Innermost(D(p))].value \in Values
  <2> TAKE p \in declared
  <2>1. D(p) \subseteq 1..Len(attributes) /\ D(p) # {}
    BY <1>1 DEF DeclarationsOf
  <2>2. Innermost(D(p)) \in D(p)
    BY <1>1, <2>1, InnermostFacts
  <2> QED BY <1>1, <2>1, <2>2 DEF Attributes
<1>4. scope = [p \in declared |-> attributes[Innermost(D(p))].value]
  BY DEF collect_namespace_declarations, Innermost
<1>5. scope \in [declared -> Values]
  BY <1>3, <1>4
<1> QED BY <1>2, <1>5 DEF Scopes

-----------------------------------------------------------------------------
(* The handler's notes and the validation frames.                           *)

\* An item noted is a child or a kind of text the element had not before.
LEMMA NotedFacts ==
    ASSUME NEW e \in OpenElements, NEW item \in Items
    PROVE  LET noted == Noted(e, item)
           IN  /\ noted \in OpenElements
               /\ noted.name = e.name /\ noted.tag = e.tag /\ noted.declares = e.declares
               /\ noted.children = IF item.kind = "element" THEN Append(e.children, item.name)
                                   ELSE e.children
               /\ noted.text = IF item.kind = "element" THEN e.text
                               ELSE e.text \cup {item.kind}
<1>1. CASE item.kind = "element"
  <2>1. Append(e.children, item.name) \in Seq(RawNames \cup {Plain("")})
    BY AppendProperties DEF OpenElements, Items
  <2> QED BY <1>1, <2>1 DEF Noted, OpenElements
<1>2. CASE item.kind # "element"
  <2>1. e.text \cup {item.kind} \in SUBSET TextKinds
    BY <1>2 DEF OpenElements, Items
  <2> QED BY <1>2, <2>1 DEF Noted, OpenElements
<1> QED BY <1>1, <1>2

\* Noting an item changes the innermost element only, and not its name and
\* declarations.
LEMMA NoteFacts ==
    ASSUME NEW s \in Seq(OpenElements), NEW item \in Items
    PROVE  /\ Note(s, item) \in Seq(OpenElements)
           /\ Len(Note(s, item)) = Len(s)
           /\ \A i \in 1..Len(s) : /\ Note(s, item)[i].name = s[i].name
                                   /\ Note(s, item)[i].tag = s[i].tag
                                   /\ Note(s, item)[i].declares = s[i].declares
           /\ \A i \in 1..Len(s) :
                 Note(s, item)[i] = IF i = Len(s) THEN Noted(s[i], item) ELSE s[i]
<1>1. CASE s = <<>>
  <2>1. Note(s, item) = s /\ \A i \in 1..Len(s) : FALSE
    BY <1>1, EmptySeq DEF Note
  <2> QED BY <2>1
<1>2. CASE s # <<>>
  <2> DEFINE n == Len(s)
             top == Noted(s[n], item)
  <2>1. n \in 1..Len(s) /\ s[n] \in OpenElements
    BY <1>2, EmptySeq, ElementOfSeq
  <2>2. /\ top \in OpenElements /\ top.name = s[n].name /\ top.tag = s[n].tag
        /\ top.declares = s[n].declares
    BY <2>1, NotedFacts
  <2>3. Note(s, item) = [s EXCEPT ![n] = top]
    BY <1>2 DEF Note
  <2>4. Noted(s[n], item) = top
    OBVIOUS
  <2> HIDE DEF top
  <2>5. /\ [s EXCEPT ![n] = top] \in Seq(OpenElements)
        /\ Len([s EXCEPT ![n] = top]) = Len(s)
        /\ \A i \in 1..Len(s) : [s EXCEPT ![n] = top][i] = IF i = n THEN top ELSE s[i]
    BY <2>1, <2>2, ExceptSeq
  <2> QED BY <2>2, <2>3, <2>4, <2>5
<1> QED BY <1>1, <1>2

\* Handing a finished child to the frame of its parent changes the children
\* of that frame only.
LEMMA FrameFacts ==
    ASSUME NEW s \in Seq(Frames), s # <<>>, NEW n \in RawNames
    PROVE  LET t == [s EXCEPT ![Len(s)].child_elements = Append(@, n)]
           IN  /\ t \in Seq(Frames)
               /\ Len(t) = Len(s)
               /\ \A i \in 1..Len(s) :
                     /\ t[i].name = s[i].name
                     /\ t[i].has_non_whitespace_text = s[i].has_non_whitespace_text
                     /\ t[i].child_elements = IF i = Len(s) THEN Append(s[i].child_elements, n)
                                              ELSE s[i].child_elements
<1> DEFINE m == Len(s)
           top == [s[m] EXCEPT !.child_elements = Append(s[m].child_elements, n)]
<1>1. m \in 1..Len(s) /\ s[m] \in Frames
  BY EmptySeq, ElementOfSeq
<1>2. Append(s[m].child_elements, n) \in Seq(RawNames)
  BY <1>1, AppendProperties DEF Frames
<1>3. /\ top \in Frames /\ top.name = s[m].name
      /\ top.has_non_whitespace_text = s[m].has_non_whitespace_text
      /\ top.child_elements = Append(s[m].child_elements, n)
  BY <1>1, <1>2 DEF Frames
<1>4. [s EXCEPT ![Len(s)].child_elements = Append(@, n)] = [s EXCEPT ![m] = top]
  OBVIOUS
<1> HIDE DEF top
<1>5. /\ [s EXCEPT ![m] = top] \in Seq(Frames)
      /\ Len([s EXCEPT ![m] = top]) = Len(s)
      /\ \A i \in 1..Len(s) : [s EXCEPT ![m] = top][i] = IF i = m THEN top ELSE s[i]
  BY <1>1, <1>3, ExceptSeq
<1> DEFINE t == [s EXCEPT ![m] = top]
<1>6. \A i \in 1..m : t[i] = IF i = m THEN top ELSE s[i]
  BY <1>5
<1>7. t \in Seq(Frames) /\ Len(t) = m
  BY <1>5
<1> HIDE DEF t, m
<1>8. \A i \in 1..m :
         /\ t[i].name = s[i].name
         /\ t[i].has_non_whitespace_text = s[i].has_non_whitespace_text
         /\ t[i].child_elements = IF i = m THEN Append(s[i].child_elements, n)
                                  ELSE s[i].child_elements
  <2> TAKE i \in 1..m
  <2>1. CASE i = m
    BY <1>3, <1>6, <2>1
  <2>2. CASE i # m
    BY <1>6, <2>2
  <2> QED BY <2>1, <2>2
<1> QED BY <1>4, <1>7, <1>8 DEF t, m

-----------------------------------------------------------------------------
(* The inductive invariant: the types and the agreement of the stacks.      *)

IInv == TypeOK /\ StacksAgree

InElement == {"content", "empty_tag", "closing"}

\* The name of no element is a qualified name.
LEMMA NoNameType == NoName \in QualifiedNames /\ Plain("") \in LocalNames
BY DEF NoName, QualifiedNames, Uris, LocalNames

\* The empty sequence has an empty domain.
LEMMA NoAttributes == DOMAIN <<>> = {}
<1>1. <<>> \in Seq({}) /\ Len(<<>>) = 0
  BY EmptySeq
<1>2. DOMAIN <<>> = 1..0
  BY <1>1, LenProperties
<1> QED BY <1>2

\* A parser that has just been constructed is in order.
LEMMA InitIInv == Init => IInv
<1> SUFFICES ASSUME Init PROVE IInv
  OBVIOUS
<1>1. TypeOK
  BY NoNameType, NoAttributes, EmptySeq, TokensAssumption
     DEF Init, TypeOK, Called, Reading, Prolog, Stopped, EventKinds, ErrorKinds
<1>2. StacksAgree
  BY EmptySeq, OptionsAssumption DEF Init, StacksAgree, Unended
<1> QED BY <1>1, <1>2 DEF IInv

\* The step leaves the stacks and the handler's view of them alone, and
\* does not cross the border of an element.
Quiet ==
    /\ UNCHANGED <<options, stacks, open>>
    /\ pc # "failed"
    /\ pc' # "failed" =>
          /\ pc' = "closing" <=> pc = "closing"
          /\ pc' \in InElement <=> pc \in InElement

\* A quiet step keeps the stacks in agreement.
LEMMA QuietKeepsStacks == StacksAgree /\ Quiet => StacksAgree'
BY DEF StacksAgree, Quiet, Unended, InElement, stacks

\* Actions that make no callback and push nothing.
LEMMA SilentSteps ==
    ASSUME IInv,
           \/ DecodeFails \/ parse_xml_declaration_if_present \/ parse_doctype_if_present
           \/ TagTooDeep \/ TagAttributesRefused \/ TagNamesRefused \/ MismatchedEndTag
           \/ ExtraContent \/ Truncated \/ LexicalFailure
    PROVE  IInv'
<1> USE DEF IInv, stacks, handler
<1>1. UNCHANGED <<options, stacks, handler, reports>> /\ Quiet
  BY DEF DecodeFails, parse_xml_declaration_if_present, parse_doctype_if_present,
         TagTooDeep, TagAttributesRefused, TagNamesRefused, MismatchedEndTag, ExtraContent,
         Truncated, LexicalFailure, Quiet, InElement, fail, AtStartTag, Reading, Prolog
<1>2. remaining' \in 0..MaxTokens
  BY TokensAssumption
     DEF TypeOK, DecodeFails, parse_xml_declaration_if_present, parse_doctype_if_present,
         TagTooDeep, TagAttributesRefused, TagNamesRefused, MismatchedEndTag, ExtraContent,
         Truncated, LexicalFailure, advance
<1>3. dtd' \in Doctypes \cup {NoDoctype}
  BY DEF TypeOK, DecodeFails, parse_xml_declaration_if_present, parse_doctype_if_present,
         TagTooDeep, TagAttributesRefused, TagNamesRefused, MismatchedEndTag, ExtraContent,
         Truncated, LexicalFailure
<1>4. /\ pc' \in Reading \cup Stopped \cup {"constructed", "empty_tag", "closing"}
      /\ error' \in ErrorKinds
      /\ error' # "none" <=> pc' = "failed"
  BY DEF TypeOK, DecodeFails, parse_xml_declaration_if_present, parse_doctype_if_present,
         TagTooDeep, TagAttributesRefused, TagNamesRefused, MismatchedEndTag, ExtraContent,
         Truncated, LexicalFailure, fail, ErrorKinds, Reading, Prolog, Stopped, AtStartTag
<1>5. TypeOK'
  BY <1>1, <1>2, <1>3, <1>4 DEF TypeOK
<1>6. StacksAgree'
  BY <1>1, QuietKeepsStacks
<1> QED BY <1>5, <1>6

\* Actions that make a callback outside the bookkeeping of elements.
LEMMA PlainCallbackSteps ==
    ASSUME IInv, StartDocument \/ parse_misc \/ EndDocument
    PROVE  IInv'
<1> USE DEF IInv, stacks, handler
<1>1. UNCHANGED <<options, dtd, stacks, reports, open, rooted>> /\ Quiet
  BY DEF StartDocument, parse_misc, EndDocument, plain_callback, ReturnsTo, fail, Quiet,
         InElement, Reading, Prolog
<1>2. /\ remaining' \in 0..MaxTokens
      /\ pc' \in Reading \cup Stopped \cup {"constructed", "empty_tag", "closing"}
      /\ error' \in ErrorKinds
      /\ error' # "none" <=> pc' = "failed"
  BY TokensAssumption
     DEF TypeOK, StartDocument, parse_misc, EndDocument, plain_callback, ReturnsTo, fail,
         advance, ErrorKinds, Reading, Prolog, Stopped
<1>3. /\ event'.kind \in EventKinds
      /\ event'.name \in QualifiedNames
      /\ \A i \in DOMAIN event'.attributes : event'.attributes[i] \in QualifiedNames
  <2>1. PICK k \in EventKinds : event' = Called(k, NoName, <<>>, NoElement)
    BY DEF StartDocument, parse_misc, EndDocument, plain_callback, EventKinds
  <2> QED BY <2>1, NoNameType, NoAttributes DEF Called
<1>4. TypeOK'
  BY <1>1, <1>2, <1>3 DEF TypeOK
<1>5. StacksAgree'
  BY <1>1, QuietKeepsStacks
<1> QED BY <1>4, <1>5

\* A start tag pushes one element on every stack.
LEMMA StartElementStep ==
    ASSUME IInv, NEW t \in StartTags, StartElement(t)
    PROVE  IInv'
<1> USE DEF IInv
<1> DEFINE name == resolve_name(t.name, TRUE, ScopesWith(t), options.namespaces)
           frame == [name |-> t.name, child_elements |-> <<>>, has_non_whitespace_text |-> FALSE]
           elt == [name |-> name, tag |-> t.name, declares |-> t.attributes,
                  children |-> <<>>, text |-> {}]
<1>1. /\ t.name \in RawNames /\ t.attributes \in Seq(Attributes)
      /\ \A i \in DOMAIN t.attributes : t.attributes[i].name \in RawNames
  <2>1. t.name \in RawNames /\ t.attributes \in Seq(Attributes)
    BY TagsAssumption
  <2>2. \A i \in DOMAIN t.attributes : t.attributes[i] \in Attributes
    BY <2>1, LenProperties, ElementOfSeq
  <2> QED BY <2>1, <2>2 DEF Attributes
<1>2. /\ ScopesWith(t) \in Seq(Scopes)
      /\ Len(ScopesWith(t)) = Len(namespace_scopes) + 1
  BY <1>1, CollectType, PushFacts DEF ScopesWith, TypeOK
<1>3. name \in QualifiedNames /\ name.qualified_name = t.name
  BY <1>1, <1>2, ResolveType
<1>4. frame \in Frames
  BY <1>1, EmptySeq DEF Frames
<1>5. elt \in OpenElements /\ elt.name = name /\ elt.tag = t.name
  BY <1>1, <1>3, EmptySeq DEF OpenElements
<1>6. /\ namespace_scopes' = ScopesWith(t)
      /\ element_stack' = Append(element_stack, t.name)
      /\ element_name_stack' = Append(element_name_stack, name)
      /\ validation_stack' = Append(validation_stack, frame)
      /\ open' = Append(open, elt)
      /\ rooted' = TRUE
      /\ event' = Called("start_element", name, EmittedNames(t), elt)
  BY DEF StartElement, start_element
<1>7. /\ pc' \in {"empty_tag", "content", "failed"}
      /\ error' \in ErrorKinds
      /\ error' # "none" <=> pc' = "failed"
      /\ UNCHANGED <<options, dtd, reports>>
      /\ remaining' \in 0..MaxTokens
  BY TokensAssumption
     DEF StartElement, start_element, ReturnsTo, fail, TypeOK, ErrorKinds, advance, AtStartTag, Prolog
<1>8. \A i \in DOMAIN EmittedNames(t) : EmittedNames(t)[i] \in QualifiedNames
  BY <1>1, <1>2, ResolveType DEF EmittedNames, Emitted
<1>9. /\ element_stack \in Seq(RawNames) /\ element_name_stack \in Seq(QualifiedNames)
      /\ validation_stack \in Seq(Frames) /\ open \in Seq(OpenElements)
  BY DEF TypeOK
<1> HIDE DEF name, frame, elt
<1>10. TypeOK'
  <2>1. /\ element_stack' \in Seq(RawNames) /\ element_name_stack' \in Seq(QualifiedNames)
        /\ validation_stack' \in Seq(Frames) /\ open' \in Seq(OpenElements)
        /\ namespace_scopes' \in Seq(Scopes)
    BY <1>1, <1>2, <1>3, <1>4, <1>5, <1>6, <1>9, AppendProperties
  <2>2. /\ event'.kind \in EventKinds
        /\ event'.name \in QualifiedNames
        /\ \A i \in DOMAIN event'.attributes : event'.attributes[i] \in QualifiedNames
    BY <1>3, <1>6, <1>8 DEF Called, EventKinds
  <2> QED BY <1>6, <1>7, <2>1, <2>2 DEF TypeOK, Reading, Stopped
<1>11. StacksAgree'
  <2> SUFFICES ASSUME pc' # "failed" PROVE StacksAgree'
    BY DEF StacksAgree
  <2> DEFINE n == Len(element_stack)
  <2>1. /\ n \in Nat /\ Len(open) = n /\ n + 1 <= options.max_depth
        /\ Len(element_name_stack) = n /\ Len(namespace_scopes) = n
        /\ Len(validation_stack) = n
    BY <1>9, LenProperties
       DEF StacksAgree, StartElement, AtStartTag, WithinDepth, Prolog, Unended
  <2>2. /\ Len(element_stack') = n + 1
        /\ element_stack'[n + 1] = t.name
        /\ \A i \in 1..n : element_stack'[i] = element_stack[i]
    <3>1. t.name \in RawNames /\ element_stack \in Seq(RawNames)
      BY <1>1, <1>9
    <3>2. /\ Len(Append(element_stack, t.name)) = n + 1
          /\ Append(element_stack, t.name)[n + 1] = t.name
          /\ \A i \in 1..n : Append(element_stack, t.name)[i] = element_stack[i]
      BY <3>1, PushFacts
    <3>3. element_stack' = Append(element_stack, t.name)
      BY <1>6
    <3> QED BY <3>2, <3>3
  <2>12. DOMAIN element_stack' = 1..(n + 1) /\ element_stack' # <<>>
    <3>1. t.name \in RawNames /\ element_stack \in Seq(RawNames)
      BY <1>1, <1>9
    <3>2. /\ DOMAIN Append(element_stack, t.name) = 1..(n + 1)
          /\ Append(element_stack, t.name) # <<>>
      BY <3>1, PushFacts
    <3> QED BY <1>6, <3>2
  <2>3. /\ Len(element_name_stack') = n + 1
        /\ element_name_stack'[n + 1] = name
        /\ \A i \in 1..n : element_name_stack'[i] = element_name_stack[i]
    BY <1>3, <1>6, <1>9, <2>1, PushFacts
  <2>4. /\ Len(validation_stack') = n + 1
        /\ validation_stack'[n + 1] = frame
        /\ \A i \in 1..n : validation_stack'[i] = validation_stack[i]
    BY <1>4, <1>6, <1>9, <2>1, PushFacts
  <2>5. /\ Len(open') = n + 1 /\ DOMAIN open' = 1..(n + 1)
        /\ open'[n + 1] = elt
        /\ \A i \in 1..n : open'[i] = open[i]
    BY <1>5, <1>6, <1>9, <2>1, PushFacts
  <2>6. Len(namespace_scopes') = n + 1
    BY <1>2, <1>6, <2>1
  <2>7. /\ \A i \in 1..n : /\ validation_stack[i].name = element_stack[i]
                           /\ element_name_stack[i].qualified_name = element_stack[i]
                           /\ open[i].name = element_name_stack[i]
                           /\ open[i].tag = element_stack[i]
    BY <1>9, <2>1, LenProperties DEF StacksAgree, StartElement, AtStartTag, Prolog
  <2>8. frame.name = t.name
    BY DEF frame
  <2>9. \A i \in 1..(n + 1) : i = n + 1 \/ i \in 1..n
    BY <2>1
  <2>10. \A i \in 1..(n + 1) :
            /\ validation_stack'[i].name = element_stack'[i]
            /\ element_name_stack'[i].qualified_name = element_stack'[i]
            /\ open'[i].name = element_name_stack'[i]
            /\ open'[i].tag = element_stack'[i]
    BY <1>3, <1>5, <2>2, <2>3, <2>4, <2>5, <2>7, <2>8, <2>9
  <2>11. Unended' = n + 1 /\ pc' \in {"empty_tag", "content"} /\ options' = options
    BY <1>7, <2>2 DEF Unended
  <2> QED BY <2>1, <2>2, <2>3, <2>4, <2>5, <2>6, <2>10, <2>11, <2>12 DEF StacksAgree
<1> QED BY <1>10, <1>11

\* Character data changes no name on any stack.
LEMMA CharacterDataSteps ==
    ASSUME IInv, parse_cdata \/ \E class \in {"empty", "blank", "nonblank"} : parse_text(class)
    PROVE  IInv'
<1> USE DEF IInv
<1>1. /\ pc = "content" /\ pc' \in {"content", "failed"}
      /\ error' \in ErrorKinds
      /\ error' # "none" <=> pc' = "failed"
      /\ remaining' \in 0..MaxTokens
      /\ UNCHANGED <<options, dtd, element_stack, element_name_stack, namespace_scopes, reports,
                     rooted>>
  <2>1. /\ pc = "content" /\ advance
        /\ ReturnsTo("content") \/ UNCHANGED <<pc, error>>
        /\ UNCHANGED <<options, dtd, element_stack, element_name_stack, namespace_scopes, reports,
                       rooted>>
    BY DEF parse_cdata, parse_text, content_callback, stacks, handler
  <2> QED BY <2>1, TokensAssumption DEF ReturnsTo, fail, TypeOK, ErrorKinds, advance
<1>2. /\ event'.kind \in EventKinds
      /\ event'.name \in QualifiedNames
      /\ \A i \in DOMAIN event'.attributes : event'.attributes[i] \in QualifiedNames
  <2>1. \/ event' = event
        \/ \E k \in EventKinds : event' = Called(k, NoName, <<>>, NoElement)
    BY DEF parse_cdata, parse_text, content_callback, EventKinds, handler
  <2>2. CASE event' = event
    <3>1. /\ event.kind \in EventKinds
          /\ event.name \in QualifiedNames
          /\ \A i \in DOMAIN event.attributes : event.attributes[i] \in QualifiedNames
      BY DEF TypeOK
    <3> QED BY <2>2, <3>1, Zenon
  <2>3. CASE \E k \in EventKinds : event' = Called(k, NoName, <<>>, NoElement)
    <3>1. PICK k \in EventKinds : event' = Called(k, NoName, <<>>, NoElement)
      BY <2>3
    <3> QED BY <3>1, NoNameType, NoAttributes DEF Called
  <2> QED BY <2>1, <2>2, <2>3
<1>3. /\ open \in Seq(OpenElements) /\ validation_stack \in Seq(Frames)
      /\ element_stack \in Seq(RawNames)
  BY DEF TypeOK
<1>4. /\ open' \in Seq(OpenElements) /\ Len(open') = Len(open)
      /\ \A i \in 1..Len(open) : open'[i].name = open[i].name /\ open'[i].tag = open[i].tag
  <2>1. \/ open' = open
        \/ \E item \in Items : open' = Note(open, item)
    BY DEF parse_cdata, parse_text, content_callback, handler, Items, TextKinds
  <2> QED BY <1>3, <2>1, NoteFacts
<1>5. validation_stack # <<>>
  <2>1. Len(validation_stack) = Len(element_stack) /\ element_stack # <<>>
    BY <1>1 DEF StacksAgree
  <2> QED BY <1>3, <2>1, EmptySeq
<1>6. /\ validation_stack' \in Seq(Frames) /\ Len(validation_stack') = Len(validation_stack)
      /\ \A i \in 1..Len(validation_stack) : validation_stack'[i].name = validation_stack[i].name
  <2> DEFINE n == Len(validation_stack)
             top == [validation_stack[n] EXCEPT !.has_non_whitespace_text = TRUE]
  <2>1. n \in 1..n /\ validation_stack[n] \in Frames
    BY <1>3, <1>5, EmptySeq, ElementOfSeq
  <2>2. top \in Frames /\ top.name = validation_stack[n].name
    BY <2>1 DEF Frames
  <2>3. \/ validation_stack' = validation_stack
        \/ validation_stack' = [validation_stack EXCEPT ![n] = top]
    BY DEF parse_cdata, parse_text, stacks
  <2> HIDE DEF top
  <2>4. /\ [validation_stack EXCEPT ![n] = top] \in Seq(Frames)
        /\ Len([validation_stack EXCEPT ![n] = top]) = n
        /\ \A i \in 1..n : [validation_stack EXCEPT ![n] = top][i] =
              IF i = n THEN top ELSE validation_stack[i]
    BY <1>3, <2>1, <2>2, ExceptSeq
  <2> QED BY <1>3, <2>2, <2>3, <2>4
<1>7. TypeOK'
  BY <1>1, <1>2, <1>4, <1>6 DEF TypeOK, Reading, Stopped
<1>8. StacksAgree'
  <2>1. /\ Len(element_stack) \in Nat
        /\ DOMAIN element_stack = 1..Len(element_stack)
        /\ Len(open) = Len(element_stack) /\ Len(validation_stack) = Len(element_stack)
    BY <1>1, <1>3, LenProperties DEF StacksAgree, Unended
  <2>2. DOMAIN open = 1..Len(element_stack) /\ DOMAIN open' = 1..Len(element_stack)
    BY <1>3, <1>4, <2>1, LenProperties
  <2>3. pc' # "failed" => Unended' = Len(element_stack)
    BY <1>1 DEF Unended
  <2> QED BY <1>1, <1>4, <1>6, <2>1, <2>2, <2>3 DEF StacksAgree, Unended
<1> QED BY <1>7, <1>8

\* The end of an element pops it from the handler's view; the parser's own
\* stacks wait for FinishElement.
LEMMA EndElementSteps ==
    ASSUME IInv, EmptyTag \/ EndTag
    PROVE  IInv'
<1> USE DEF IInv
<1> DEFINE item == [kind |-> "element", name |-> Last(open).tag]
<1>1. /\ pc \in {"content", "empty_tag"} /\ pc' \in {"closing", "failed"}
      /\ error' \in ErrorKinds
      /\ error' # "none" <=> pc' = "failed"
      /\ remaining' \in 0..MaxTokens
      /\ UNCHANGED <<options, dtd, element_stack, element_name_stack, namespace_scopes,
                     validation_stack, reports, rooted>>
      /\ open' = Note(Front(open), item)
      /\ event' = Called("end_element", Last(element_name_stack), <<>>, Last(open))
  BY TokensAssumption
     DEF EmptyTag, EndTag, end_element, ReturnsTo, fail, TypeOK, ErrorKinds, advance, stacks
<1>2. /\ open \in Seq(OpenElements) /\ element_stack \in Seq(RawNames)
      /\ element_name_stack \in Seq(QualifiedNames)
  BY DEF TypeOK
<1>3. /\ Len(element_stack) \in Nat \ {0}
      /\ DOMAIN element_stack = 1..Len(element_stack)
      /\ Len(open) = Len(element_stack) /\ Len(element_name_stack) = Len(element_stack)
      /\ element_stack # <<>> /\ open # <<>> /\ element_name_stack # <<>>
  <2>1. /\ element_stack # <<>>
        /\ Len(open) = Len(element_stack) /\ Len(element_name_stack) = Len(element_stack)
    BY <1>1 DEF StacksAgree, Unended
  <2>2. Len(element_stack) \in Nat \ {0} /\ DOMAIN element_stack = 1..Len(element_stack)
    BY <1>2, <2>1, EmptySeq, LenProperties
  <2> QED BY <2>1, <2>2, EmptySeq
<1>4. /\ Front(open) \in Seq(OpenElements) /\ Len(Front(open)) = Len(open) - 1
      /\ \A i \in 1..(Len(open) - 1) : Front(open)[i] = open[i]
      /\ Last(open) \in OpenElements
  BY <1>2, <1>3, PopFacts
<1>5. item \in Items
  <2>1. Last(open).tag \in RawNames \cup {Plain("")}
    BY <1>4 DEF OpenElements
  <2> QED BY <2>1 DEF Items, TextKinds
<1> HIDE DEF item
<1>6. /\ open' \in Seq(OpenElements) /\ Len(open') = Len(open) - 1
      /\ \A i \in 1..(Len(open) - 1) : open'[i].name = open[i].name /\ open'[i].tag = open[i].tag
  <2> DEFINE s == Front(open)
  <2>1. /\ s \in Seq(OpenElements) /\ Len(s) = Len(open) - 1
        /\ \A i \in 1..(Len(open) - 1) : s[i] = open[i]
    BY <1>4
  <2>2. open' = Note(s, item)
    BY <1>1
  <2> HIDE DEF s
  <2>3. /\ Note(s, item) \in Seq(OpenElements) /\ Len(Note(s, item)) = Len(s)
        /\ \A i \in 1..Len(s) : Note(s, item)[i].name = s[i].name
                                /\ Note(s, item)[i].tag = s[i].tag
    BY <1>5, <2>1, NoteFacts
  <2> QED BY <2>1, <2>2, <2>3
<1>7. Last(element_name_stack) \in QualifiedNames
  BY <1>2, <1>3, PopFacts
<1>8. TypeOK'
  <2>1. /\ event'.kind \in EventKinds
        /\ event'.name \in QualifiedNames
        /\ \A i \in DOMAIN event'.attributes : event'.attributes[i] \in QualifiedNames
    BY <1>1, <1>7, NoAttributes DEF Called, EventKinds
  <2> QED BY <1>1, <1>6, <2>1 DEF TypeOK, Stopped
<1>9. StacksAgree'
  <2> SUFFICES ASSUME pc' # "failed" PROVE StacksAgree'
    BY DEF StacksAgree
  <2>1. DOMAIN open = 1..Len(element_stack) /\ DOMAIN open' = 1..(Len(element_stack) - 1)
    BY <1>2, <1>3, <1>6, LenProperties
  <2>2. Unended' = Len(element_stack) - 1 /\ pc' = "closing"
    BY <1>1 DEF Unended
  <2>3. \A i \in 1..(Len(element_stack) - 1) : i \in 1..Len(element_stack)
    BY <1>3
  <2> QED BY <1>1, <1>3, <1>6, <2>1, <2>2, <2>3 DEF StacksAgree
<1> QED BY <1>8, <1>9

\* The number of validity errors of a frame is a number.
LEMMA ValidateType == \A frame, outer : validate_element(frame, outer) \in Nat
<1> TAKE frame, outer
<1>1. RootErrors(frame, outer) \in {0, 1}
  BY DEF RootErrors
<1>2. ModelErrors(frame) \in {0, 1}
  BY Zenon DEF ModelErrors
<1> QED BY <1>1, <1>2 DEF validate_element

\* Finishing an element pops it from every stack at once, which is when
\* the parser catches up with what the handler was told.
LEMMA FinishElementStep ==
    ASSUME IInv, FinishElement
    PROVE  IInv'
<1> USE DEF IInv
<1> DEFINE frame == Last(validation_stack)
           outer == Front(validation_stack)
           n == validate_element(frame, outer)
           d == Len(element_stack)
<1>1. pc = "closing" /\ UNCHANGED <<remaining, options, dtd, open, rooted, event>>
  BY DEF FinishElement, handler
<1>2. \/ /\ Recovered(n) /\ PopFrame(frame, outer) /\ PopElement
         /\ pc' = IF Len(element_stack) = 1 THEN "after_element" ELSE "content"
         /\ UNCHANGED error
      \/ /\ NotRecovered(n) /\ validation_stack' = outer
         /\ UNCHANGED <<element_stack, element_name_stack, namespace_scopes>>
  BY DEF FinishElement
<1>3. n \in Nat
  BY ValidateType
<1>4. /\ element_stack \in Seq(RawNames) /\ element_name_stack \in Seq(QualifiedNames)
      /\ namespace_scopes \in Seq(Scopes) /\ validation_stack \in Seq(Frames)
      /\ open \in Seq(OpenElements) /\ reports \in Nat /\ error = "none"
  BY <1>1 DEF TypeOK
<1>5. /\ d \in Nat \ {0} /\ DOMAIN element_stack = 1..d
      /\ Len(element_name_stack) = d /\ Len(namespace_scopes) = d /\ Len(validation_stack) = d
      /\ Len(open) = d - 1
  <2>1. /\ element_stack # <<>>
        /\ Len(element_name_stack) = d /\ Len(namespace_scopes) = d
        /\ Len(validation_stack) = d /\ Len(open) = d - 1
    BY <1>1 DEF StacksAgree, Unended
  <2>2. d \in Nat \ {0} /\ DOMAIN element_stack = 1..d
    BY <1>4, <2>1, EmptySeq, LenProperties
  <2> QED BY <2>1, <2>2
<1>6. /\ element_stack # <<>> /\ element_name_stack # <<>> /\ namespace_scopes # <<>>
      /\ validation_stack # <<>>
  BY <1>4, <1>5, EmptySeq
<1> HIDE DEF n
<1>7. CASE /\ NotRecovered(n) /\ validation_stack' = outer
           /\ UNCHANGED <<element_stack, element_name_stack, namespace_scopes>>
  <2>1. pc' = "failed" /\ error' \in ErrorKinds \ {"none"}
    BY <1>7 DEF NotRecovered, fail, ErrorKinds
  <2>2. reports' \in Nat
    BY <1>3, <1>4, <1>7 DEF NotRecovered
  <2>3. validation_stack' \in Seq(Frames)
    BY <1>4, <1>6, <1>7, PopFacts
  <2> HIDE DEF outer
  <2> QED BY <1>1, <1>7, <2>1, <2>2, <2>3 DEF TypeOK, StacksAgree, Stopped
<1>8. CASE /\ Recovered(n) /\ PopFrame(frame, outer) /\ PopElement
           /\ pc' = IF Len(element_stack) = 1 THEN "after_element" ELSE "content"
           /\ UNCHANGED error
  <2>1. /\ element_stack' \in Seq(RawNames) /\ Len(element_stack') = d - 1
        /\ DOMAIN element_stack' = 1..(d - 1)
        /\ \A i \in 1..(d - 1) : element_stack'[i] = element_stack[i]
        /\ element_stack' = <<>> <=> d = 1
    <3>1. element_stack' = Front(element_stack)
      BY <1>8 DEF PopElement
    <3> QED BY <1>4, <1>6, <3>1, PopFacts
  <2>2. /\ element_name_stack' \in Seq(QualifiedNames) /\ Len(element_name_stack') = d - 1
        /\ \A i \in 1..(d - 1) : element_name_stack'[i] = element_name_stack[i]
    <3>1. element_name_stack' = Front(element_name_stack)
      BY <1>8 DEF PopElement
    <3> QED BY <1>4, <1>5, <1>6, <3>1, PopFacts
  <2>3. namespace_scopes' \in Seq(Scopes) /\ Len(namespace_scopes') = d - 1
    <3>1. namespace_scopes' = Front(namespace_scopes)
      BY <1>8 DEF PopElement
    <3> QED BY <1>4, <1>5, <1>6, <3>1, PopFacts
  <2>4. /\ frame \in Frames /\ outer \in Seq(Frames) /\ Len(outer) = d - 1
        /\ \A i \in 1..(d - 1) : outer[i] = validation_stack[i]
    BY <1>4, <1>5, <1>6, PopFacts
  <2>5. frame.name \in RawNames
    BY <2>4 DEF Frames
  <2> HIDE DEF frame, outer
  <2>6. /\ validation_stack' \in Seq(Frames) /\ Len(validation_stack') = d - 1
        /\ \A i \in 1..(d - 1) : validation_stack'[i].name = validation_stack[i].name
    <3>1. CASE outer = <<>>
      BY <1>8, <2>4, <3>1 DEF PopFrame
    <3>2. CASE outer # <<>>
      <4>1. validation_stack' =
               [outer EXCEPT ![Len(outer)].child_elements = Append(@, frame.name)]
        BY <1>8, <3>2 DEF PopFrame
      <4> DEFINE r == [outer EXCEPT ![Len(outer)].child_elements = Append(@, frame.name)]
      <4>2. r \in Seq(Frames) /\ Len(r) = Len(outer)
        BY <2>4, <2>5, <3>2, FrameFacts
      <4>3. \A i \in 1..Len(outer) : r[i].name = outer[i].name
        BY <2>4, <2>5, <3>2, FrameFacts
      <4> HIDE DEF r
      <4>4. validation_stack' = r
        BY <4>1 DEF r
      <4> QED BY <2>4, <4>2, <4>3, <4>4
    <3> QED BY <3>1, <3>2
  <2>7. reports' \in Nat
    BY <1>3, <1>4, <1>8 DEF Recovered
  <2>8. TypeOK'
    BY <1>1, <1>8, <2>1, <2>2, <2>3, <2>6, <2>7 DEF TypeOK, Reading, Stopped
  <2>9. StacksAgree'
    <3>1. pc' \in {"after_element", "content"} /\ (pc' = "content" <=> d # 1)
      BY <1>8
    <3>2. Unended' = d - 1
      BY <2>1, <3>1 DEF Unended
    <3>3. DOMAIN open' = 1..(d - 1) /\ open' = open
      BY <1>1, <1>4, <1>5, LenProperties
    <3>4. \A i \in 1..(d - 1) : i \in 1..d
      BY <1>5
    <3>5. d - 1 <= options'.max_depth
      <4>1. d <= options.max_depth
        BY <1>1 DEF StacksAgree
      <4>2. options.max_depth \in Nat
        BY OptionsAssumption DEF TypeOK
      <4> QED BY <1>1, <1>5, <4>1, <4>2
    <3>6. \A i \in 1..(d - 1) : /\ validation_stack'[i].name = element_stack'[i]
                                /\ element_name_stack'[i].qualified_name = element_stack'[i]
                                /\ open'[i].name = element_name_stack'[i]
                                /\ open'[i].tag = element_stack'[i]
      BY <1>1, <1>5, <2>1, <2>2, <2>6, <3>3, <3>4 DEF StacksAgree
    <3> QED BY <1>5, <2>1, <2>2, <2>3, <2>6, <3>1, <3>2, <3>3, <3>5, <3>6 DEF StacksAgree
  <2> QED BY <2>8, <2>9
<1> QED BY <1>2, <1>7, <1>8

\* Every step of the parser keeps the types and the agreement of the stacks.
LEMMA NextIInv == IInv /\ [Next]_vars => IInv'
<1> SUFFICES ASSUME IInv, [Next]_vars PROVE IInv'
  OBVIOUS
<1>1. CASE \/ DecodeFails \/ parse_xml_declaration_if_present \/ parse_doctype_if_present
           \/ TagTooDeep \/ TagAttributesRefused \/ TagNamesRefused \/ MismatchedEndTag
           \/ ExtraContent \/ Truncated \/ LexicalFailure
  BY <1>1, SilentSteps
<1>2. CASE StartDocument \/ parse_misc \/ EndDocument
  BY <1>2, PlainCallbackSteps
<1>3. CASE \E t \in StartTags : StartElement(t)
  BY <1>3, StartElementStep
<1>4. CASE EmptyTag \/ EndTag
  BY <1>4, EndElementSteps
<1>5. CASE parse_cdata \/ \E class \in {"empty", "blank", "nonblank"} : parse_text(class)
  BY <1>5, CharacterDataSteps
<1>6. CASE FinishElement
  BY <1>6, FinishElementStep
<1>7. CASE UNCHANGED vars
  BY <1>7 DEF vars, stacks, handler, IInv, TypeOK, StacksAgree, Unended
<1> QED BY <1>1, <1>2, <1>3, <1>4, <1>5, <1>6, <1>7 DEF Next

\* The variables keep their types in every run of parse(), for every
\* document, DTD and set of options.
THEOREM TypeCorrect == Spec => []TypeOK
<1>1. IInv => TypeOK
  BY DEF IInv
<1> QED BY <1>1, InitIInv, NextIInv, PTL DEF Spec

\* While parse() runs, its four stacks and the handler's view stand for
\* the same elements, never more than max_depth of them.
THEOREM StacksAlwaysAgree == Spec => []StacksAgree
<1>1. IInv => StacksAgree
  BY DEF IInv
<1> QED BY <1>1, InitIInv, NextIInv, PTL DEF Spec

-----------------------------------------------------------------------------
(***************************************************************************)
(* The event stream: every run of ParserCore is, for the handler, a run of *)
(* SaxEventStream.                                                         *)
(***************************************************************************)
RootedPoints == InElement \cup {"after_element", "done"}

\* The handler's last event tells where a running parser is in the
\* document: before start_document, inside it, or after end_document.
EventMatchesControl ==
    pc # "failed" =>
        /\ event.kind = "none" <=> pc = "constructed"
        /\ event.kind = "end_document" <=> pc = "done"
        /\ IF pc \in RootedPoints THEN rooted = TRUE ELSE rooted = FALSE

StreamInv == IInv /\ EventMatchesControl

\* Actions that throw without a callback.
Throws ==
    \/ DecodeFails \/ TagTooDeep \/ TagAttributesRefused \/ TagNamesRefused \/ MismatchedEndTag
    \/ ExtraContent \/ Truncated \/ LexicalFailure

\* Actions that neither throw nor call the handler.
Unseen == parse_xml_declaration_if_present \/ parse_doctype_if_present

\* What a throw without a callback changes: the handler sees nothing.
LEMMA ThrowsFacts ==
    Throws => pc \notin Stopped /\ pc' = "failed" /\ UNCHANGED handler
BY DEF Throws, DecodeFails, TagTooDeep, TagAttributesRefused, TagNamesRefused, MismatchedEndTag,
       ExtraContent, Truncated, LexicalFailure, fail, Stopped, AtStartTag, Reading, Prolog

\* The XML declaration and the DOCTYPE stay in the prolog, unseen.
LEMMA UnseenFacts ==
    Unseen => pc \in Prolog /\ pc' \in Prolog /\ UNCHANGED handler
BY DEF Unseen, parse_xml_declaration_if_present, parse_doctype_if_present, Prolog

\* FinishElement calls no method of the SaxHandler.
LEMMA FinishElementFacts ==
    FinishElement =>
        /\ pc = "closing" /\ pc' \in {"after_element", "content", "failed"}
        /\ UNCHANGED handler
BY DEF FinishElement, NotRecovered, fail

\* What the handler sees of a start tag: the resolved name, one level down.
LEMMA StartElementFacts ==
    ASSUME NEW t \in StartTags, StartElement(t)
    PROVE  /\ pc \in Prolog \cup {"content"} /\ pc' \in {"empty_tag", "content", "failed"}
           /\ rooted' = TRUE /\ event'.kind = "start_element"
           /\ event'.name = resolve_name(t.name, TRUE, ScopesWith(t), options.namespaces)
           /\ \E e : open' = Append(open, e) /\ e.name = event'.name
                     /\ e = [name |-> event'.name, tag |-> t.name,
                             declares |-> t.attributes,
                  children |-> <<>>, text |-> {}]
BY DEF StartElement, start_element, ReturnsTo, fail, AtStartTag, Called

\* What the handler sees of an end tag: the name on top of the name stack.
LEMMA EndElementFacts ==
    ASSUME EmptyTag \/ EndTag
    PROVE  /\ pc \in {"content", "empty_tag"} /\ pc' \in {"closing", "failed"}
           /\ UNCHANGED rooted /\ event'.kind = "end_element"
           /\ event'.name = Last(element_name_stack)
           /\ open' = Note(Front(open), [kind |-> "element", name |-> Last(open).tag])
BY DEF EmptyTag, EndTag, end_element, ReturnsTo, fail, Called

\* What the handler sees of text and CDATA: one event without a name, or,
\* for text that is empty, none.
LEMMA CharacterDataFacts ==
    ASSUME parse_cdata \/ \E class \in {"empty", "blank", "nonblank"} : parse_text(class)
    PROVE  /\ pc = "content" /\ pc' \in {"content", "failed"} /\ UNCHANGED rooted
           /\ \/ UNCHANGED <<pc, open, event>>
              \/ /\ event'.kind \in {"characters", "cdata"} /\ event'.name = NoName
                 /\ \E item \in Items : open' = Note(open, item)
<1>1. CASE parse_cdata
  BY <1>1 DEF parse_cdata, content_callback, ReturnsTo, fail, Called, Items, TextKinds
<1>2. CASE \E class \in {"empty", "blank", "nonblank"} : parse_text(class)
  <2>1. PICK class \in {"empty", "blank", "nonblank"} : parse_text(class)
    BY <1>2
  <2>2. CASE class = "empty"
    BY <2>1, <2>2 DEF parse_text, handler
  <2>3. CASE class # "empty"
    <3>1. content_callback("characters", [kind |-> class, name |-> Plain("")], "content")
      BY <2>1, <2>3 DEF parse_text
    <3>2. [kind |-> class, name |-> Plain("")] \in Items
      BY <2>3 DEF Items, TextKinds
    <3>3. pc = "content"
      BY <2>1 DEF parse_text
    <3> QED BY <3>1, <3>2, <3>3 DEF content_callback, ReturnsTo, fail, Called
  <2> QED BY <2>2, <2>3
<1> QED BY <1>1, <1>2

\* What the handler sees of the start of the document.
LEMMA StartDocumentFacts ==
    StartDocument =>
        /\ pc = "constructed" /\ pc' \in {"xml_declaration", "failed"}
        /\ UNCHANGED <<open, rooted>>
        /\ event'.kind = "start_document" /\ event'.name = NoName
BY DEF StartDocument, plain_callback, ReturnsTo, fail, Called

\* What the handler sees of comments and processing instructions.
LEMMA MiscFacts ==
    parse_misc =>
        /\ pc \in Reading
        /\ pc' = "failed" \/ pc' = (IF pc = "xml_declaration" THEN "before_doctype" ELSE pc)
        /\ UNCHANGED <<open, rooted>>
        /\ event'.kind \in {"comment", "processing_instruction"} /\ event'.name = NoName
BY DEF parse_misc, plain_callback, ReturnsTo, fail, Called

\* What the handler sees of the end of the document.
LEMMA EndDocumentFacts ==
    EndDocument =>
        /\ pc = "after_element" /\ pc' \in {"done", "failed"}
        /\ UNCHANGED <<open, rooted>>
        /\ event'.kind = "end_document" /\ event'.name = NoName
BY DEF EndDocument, plain_callback, ReturnsTo, fail, Called

\* The steps of the parser, sorted by what the handler sees of them.
LEMMA NextCases ==
    ASSUME Next
    PROVE  \/ Throws
           \/ Unseen
           \/ FinishElement
           \/ \E t \in StartTags : StartElement(t)
           \/ EmptyTag \/ EndTag
           \/ parse_cdata \/ \E class \in {"empty", "blank", "nonblank"} : parse_text(class)
           \/ StartDocument
           \/ parse_misc
           \/ EndDocument
BY DEF Next, Throws, Unseen

\* Before the first event, control and event match.
LEMMA InitStreamInv == Init => StreamInv
<1> SUFFICES ASSUME Init PROVE EventMatchesControl
  BY InitIInv DEF StreamInv
<1> QED BY DEF Init, EventMatchesControl, Called, RootedPoints, InElement

\* Every step keeps control and event matching.
LEMMA NextStreamInv == StreamInv /\ [Next]_vars => StreamInv'
<1> SUFFICES ASSUME StreamInv, [Next]_vars PROVE EventMatchesControl'
  BY NextIInv DEF StreamInv
<1> USE DEF StreamInv, EventMatchesControl, RootedPoints, InElement
<1>1. CASE Throws
  BY <1>1, ThrowsFacts
<1>2. CASE Unseen
  BY <1>2, UnseenFacts DEF handler, Prolog
<1>3. CASE FinishElement
  BY <1>3, FinishElementFacts DEF handler
<1>4. CASE \E t \in StartTags : StartElement(t)
  BY <1>4, StartElementFacts DEF Prolog
<1>5. CASE EmptyTag \/ EndTag
  BY <1>5, EndElementFacts
<1>6. CASE parse_cdata \/ \E class \in {"empty", "blank", "nonblank"} : parse_text(class)
  BY <1>6, CharacterDataFacts
<1>7. CASE StartDocument
  BY <1>7, StartDocumentFacts
<1>8. CASE parse_misc
  BY <1>8, MiscFacts DEF Reading, Prolog
<1>9. CASE EndDocument
  BY <1>9, EndDocumentFacts
<1>10. CASE UNCHANGED vars
  BY <1>10 DEF vars, handler
<1> QED BY <1>1, <1>2, <1>3, <1>4, <1>5, <1>6, <1>7, <1>8, <1>9, <1>10, NextCases

-----------------------------------------------------------------------------
(* The path the handler sees.                                               *)

\* The path of a stack of open elements is the sequence of their names.
LEMMA PathFacts ==
    ASSUME NEW s \in Seq(OpenElements)
    PROVE  /\ NamesOf(s) \in Seq(QualifiedNames)
           /\ Len(NamesOf(s)) = Len(s)
           /\ \A i \in 1..Len(s) : NamesOf(s)[i] = s[i].name
           /\ NamesOf(s) = <<>> <=> s = <<>>
<1>1. Len(s) \in Nat /\ DOMAIN s = 1..Len(s)
  BY LenProperties
<1>2. \A i \in 1..Len(s) : s[i].name \in QualifiedNames
  <2>1. \A i \in 1..Len(s) : s[i] \in OpenElements
    BY ElementOfSeq
  <2> QED BY <2>1 DEF OpenElements
<1>3. NamesOf(s) = [i \in 1..Len(s) |-> s[i].name]
  BY <1>1 DEF NamesOf
<1>4. NamesOf(s) \in Seq(QualifiedNames)
  <2>1. NamesOf(s) \in [1..Len(s) -> QualifiedNames]
    BY <1>2, <1>3
  <2> QED BY <1>1, <2>1, SeqDef
<1>5. Len(NamesOf(s)) = Len(s)
  <2>1. DOMAIN NamesOf(s) = 1..Len(s)
    BY <1>3
  <2> QED BY <1>1, <1>4, <2>1, LenFromDomain
<1>6. NamesOf(s) = <<>> <=> s = <<>>
  <2>1. NamesOf(s) = <<>> <=> Len(NamesOf(s)) = 0
    BY <1>4, EmptySeq
  <2>2. s = <<>> <=> Len(s) = 0
    BY EmptySeq
  <2> QED BY <1>5, <2>1, <2>2, Zenon
<1> QED BY <1>3, <1>4, <1>5, <1>6

\* Starting an element extends the path.
LEMMA StartPath ==
    ASSUME NEW s \in Seq(OpenElements), NEW e \in OpenElements
    PROVE  NamesOf(Append(s, e)) = Append(NamesOf(s), e.name)
<1> DEFINE t == Append(s, e)
           u == Append(NamesOf(s), e.name)
           n == Len(s)
<1>1. e.name \in QualifiedNames
  BY DEF OpenElements
<1>2. t \in Seq(OpenElements) /\ Len(t) = n + 1 /\ t[n + 1] = e /\ n \in Nat
  BY PushFacts, LenProperties
<1>3. \A i \in 1..n : t[i] = s[i]
  BY PushFacts
<1>4. /\ NamesOf(s) \in Seq(QualifiedNames) /\ Len(NamesOf(s)) = n
      /\ \A i \in 1..n : NamesOf(s)[i] = s[i].name
  BY PathFacts
<1>5. u \in Seq(QualifiedNames) /\ Len(u) = n + 1 /\ u[n + 1] = e.name
  BY <1>1, <1>4, PushFacts
<1>6. \A i \in 1..n : u[i] = NamesOf(s)[i]
  BY <1>1, <1>4, PushFacts
<1> HIDE DEF t, u
<1>7. /\ NamesOf(t) \in Seq(QualifiedNames) /\ Len(NamesOf(t)) = n + 1
      /\ \A i \in 1..(n + 1) : NamesOf(t)[i] = t[i].name
  BY <1>2, PathFacts
<1>8. \A i \in 1..(n + 1) : NamesOf(t)[i] = u[i]
  <2> TAKE i \in 1..(n + 1)
  <2>1. CASE i = n + 1
    BY <1>2, <1>5, <1>7, <2>1
  <2>2. CASE i \in 1..n
    BY <1>3, <1>4, <1>6, <1>7, <2>2
  <2> QED BY <1>2, <2>1, <2>2
<1>9. NamesOf(t) = u
  BY <1>5, <1>7, <1>8, SeqEqual
<1> QED BY <1>9 DEF t, u

\* Two stacks of the same names give the same path.
LEMMA SamePath ==
    ASSUME NEW s \in Seq(OpenElements), NEW t \in Seq(QualifiedNames),
           Len(s) = Len(t), \A i \in 1..Len(s) : s[i].name = t[i]
    PROVE  NamesOf(s) = t
<1>1. /\ NamesOf(s) \in Seq(QualifiedNames) /\ Len(NamesOf(s)) = Len(s)
      /\ \A i \in 1..Len(s) : NamesOf(s)[i] = s[i].name
  BY PathFacts
<1>2. \A i \in 1..Len(NamesOf(s)) : NamesOf(s)[i] = t[i]
  BY <1>1
<1> QED BY <1>1, <1>2, SeqEqual

\* Ending an element shortens the path, whatever the handler notes of it.
LEMMA EndPath ==
    ASSUME NEW s \in Seq(OpenElements), s # <<>>, NEW item \in Items
    PROVE  NamesOf(Note(Front(s), item)) = SubSeq(NamesOf(s), 1, Len(NamesOf(s)) - 1)
<1> DEFINE f == Front(s)
           t == Note(f, item)
           u == Front(NamesOf(s))
           n == Len(s)
<1>1. f \in Seq(OpenElements) /\ Len(f) = n - 1 /\ n \in Nat \ {0}
  BY PopFacts
<1>2. \A i \in 1..(n - 1) : f[i] = s[i]
  BY PopFacts
<1>3. /\ NamesOf(s) \in Seq(QualifiedNames) /\ Len(NamesOf(s)) = n /\ NamesOf(s) # <<>>
      /\ \A i \in 1..n : NamesOf(s)[i] = s[i].name
  BY PathFacts
<1>4. u \in Seq(QualifiedNames) /\ Len(u) = n - 1
  BY <1>3, PopFacts
<1>5. \A i \in 1..(n - 1) : u[i] = NamesOf(s)[i]
  BY <1>3, PopFacts
<1> HIDE DEF f, u
<1>6. /\ t \in Seq(OpenElements) /\ Len(t) = n - 1
      /\ \A i \in 1..(n - 1) : t[i].name = f[i].name
  BY <1>1, NoteFacts
<1> HIDE DEF t
<1>7. \A i \in 1..Len(t) : t[i].name = u[i]
  <2> TAKE i \in 1..Len(t)
  <2>1. i \in 1..(n - 1) /\ i \in 1..n
    BY <1>1, <1>6
  <2> QED BY <1>2, <1>3, <1>5, <1>6, <2>1
<1>8. NamesOf(t) = u
  BY <1>4, <1>6, <1>7, SamePath
<1> QED BY <1>8 DEF t, f, u, Front

\* Noting character data leaves the path alone.
LEMMA NotePath ==
    ASSUME NEW s \in Seq(OpenElements), NEW item \in Items
    PROVE  NamesOf(Note(s, item)) = NamesOf(s)
<1> DEFINE t == Note(s, item)
<1>1. /\ t \in Seq(OpenElements) /\ Len(t) = Len(s)
      /\ \A i \in 1..Len(s) : t[i].name = s[i].name
  BY NoteFacts
<1> HIDE DEF t
<1>2. /\ NamesOf(s) \in Seq(QualifiedNames) /\ Len(NamesOf(s)) = Len(s)
      /\ \A i \in 1..Len(s) : NamesOf(s)[i] = s[i].name
  BY PathFacts
<1>3. NamesOf(t) = NamesOf(s)
  BY <1>1, <1>2, SamePath
<1> QED BY <1>3 DEF t

-----------------------------------------------------------------------------
(* The refinement.                                                          *)

\* A parser that has just been constructed is a silent stream.
LEMMA InitRefines == Init => Stream!Init
<1> SUFFICES ASSUME Init PROVE Stream!Init
  OBVIOUS
<1>1. open \in Seq(OpenElements) /\ open = <<>>
  BY EmptySeq DEF Init
<1>2. NamesOf(open) = <<>>
  BY <1>1, PathFacts
<1> QED BY <1>2 DEF Init, Stream!Init, Stream!Event, Phase, Called

\* What a callback of the parser is for the abstract handler.
LEMMA CallbackRefines ==
    ASSUME pc # "failed", NEW k, NEW n, event'.kind = k, event'.name = n
    PROVE  Stream!Callback(k, n)
BY DEF Stream!Callback, Stream!Event

\* A throw without a callback abandons the stream.
LEMMA ThrowRefines ==
    ASSUME StreamInv, pc \notin Stopped, pc' = "failed", UNCHANGED handler
    PROVE  Stream!Abandon
<1>1. Phase # "ended"
  BY DEF StreamInv, EventMatchesControl, Phase, Stopped
<1> QED BY <1>1 DEF Stream!Abandon, Stopped, handler, Phase

\* A step that the handler does not see is a stutter of the stream.
LEMMA UnseenRefines ==
    ASSUME pc # "failed", pc' # "failed", UNCHANGED handler
    PROVE  UNCHANGED Stream!vars
BY DEF Stream!vars, handler, Phase

\* Every step of the parser is a step of the stream or a stutter.
LEMMA NextRefines == StreamInv /\ [Next]_vars => [Stream!Next]_(Stream!vars)
<1> SUFFICES ASSUME StreamInv, [Next]_vars PROVE Stream!Next \/ UNCHANGED Stream!vars
  BY Zenon
<1> USE DEF StreamInv
<1>0. open \in Seq(OpenElements) /\ StreamInv'
  BY NextStreamInv DEF IInv, TypeOK
<1>1. CASE Throws
  BY <1>1, ThrowsFacts, ThrowRefines DEF Stream!Next
<1>2. CASE Unseen
  BY <1>2, UnseenFacts, UnseenRefines DEF Prolog
<1>3. CASE FinishElement
  <2>1. CASE pc' = "failed"
    BY <1>3, <2>1, FinishElementFacts, ThrowRefines DEF Stream!Next, Stopped
  <2>2. CASE pc' # "failed"
    BY <1>3, <2>2, FinishElementFacts, UnseenRefines
  <2> QED BY <2>1, <2>2
<1>4. CASE \E t \in StartTags : StartElement(t)
  <2>1. PICK t \in StartTags : StartElement(t)
    BY <1>4
  <2>2. PICK e : /\ open' = Append(open, e) /\ e.name = event'.name
                 /\ e = [name |-> event'.name, tag |-> t.name,
                         declares |-> t.attributes,
                  children |-> <<>>, text |-> {}]
    BY <2>1, StartElementFacts
  <2>3. e \in OpenElements
    <3>1. event'.name \in QualifiedNames
      BY <1>0 DEF IInv, TypeOK
    <3>2. t.name \in RawNames /\ t.attributes \in Seq(Attributes)
      BY TagsAssumption
    <3> QED BY <2>2, <3>1, <3>2, EmptySeq DEF OpenElements
  <2>4. NamesOf(open') = Append(NamesOf(open), event'.name)
    BY <1>0, <2>2, <2>3, StartPath
  <2>5. Stream!Callback("start_element", event'.name)
    BY <2>1, StartElementFacts, CallbackRefines DEF Prolog
  <2>6. Phase = "document" /\ Phase' = "document" /\ rooted' = TRUE
    BY <2>1, StartElementFacts DEF Prolog, Phase, EventMatchesControl
  <2>7. NamesOf(open) = <<>> => rooted = FALSE
    <3>1. pc = "content" => open # <<>>
      BY <1>0, EmptySeq DEF IInv, StacksAgree, Unended, TypeOK
    <3>2. NamesOf(open) = <<>> => open = <<>>
      BY <1>0, PathFacts
    <3> QED BY <2>1, <3>1, <3>2, StartElementFacts
            DEF Prolog, EventMatchesControl, RootedPoints, InElement
  <2>8. event'.name \in QualifiedNames
    BY <1>0 DEF IInv, TypeOK
  <2>9. Stream!StartElement
    BY <2>4, <2>5, <2>6, <2>7, <2>8 DEF Stream!StartElement
  <2> QED BY <2>9 DEF Stream!Next
<1>5. CASE EmptyTag \/ EndTag
  <2> DEFINE item == [kind |-> "element", name |-> Last(open).tag]
  <2>1. /\ pc \in {"content", "empty_tag"} /\ UNCHANGED rooted /\ event'.kind = "end_element"
        /\ event'.name = Last(element_name_stack) /\ open' = Note(Front(open), item)
    BY <1>5, EndElementFacts
  <2>2. /\ element_name_stack \in Seq(QualifiedNames) /\ element_stack \in Seq(RawNames)
        /\ Len(open) = Len(element_stack) /\ Len(element_name_stack) = Len(element_stack)
        /\ element_stack # <<>>
        /\ \A i \in DOMAIN open : open[i].name = element_name_stack[i]
    BY <2>1 DEF IInv, TypeOK, StacksAgree, Unended
  <2>3. /\ Len(open) \in Nat \ {0} /\ open # <<>> /\ element_name_stack # <<>>
        /\ DOMAIN open = 1..Len(open)
    BY <1>0, <2>2, EmptySeq, LenProperties
  <2>4. item \in Items
    <3>1. Last(open) \in OpenElements
      BY <1>0, <2>3, PopFacts
    <3>2. Last(open).tag \in RawNames \cup {Plain("")}
      BY <3>1 DEF OpenElements
    <3> QED BY <3>2 DEF Items, TextKinds
  <2> HIDE DEF item
  <2>5. NamesOf(open') = SubSeq(NamesOf(open), 1, Len(NamesOf(open)) - 1)
    BY <1>0, <2>1, <2>3, <2>4, EndPath
  <2>6. /\ NamesOf(open) # <<>>
        /\ event'.name = NamesOf(open)[Len(NamesOf(open))]
    <3>1. /\ Len(NamesOf(open)) = Len(open) /\ NamesOf(open) # <<>>
          /\ \A i \in 1..Len(open) : NamesOf(open)[i] = open[i].name
      BY <1>0, <2>3, PathFacts
    <3>2. Last(element_name_stack) = element_name_stack[Len(open)]
      BY <2>2 DEF Last
    <3>3. Len(open) \in 1..Len(open)
      BY <2>3
    <3> QED BY <2>1, <2>2, <2>3, <3>1, <3>2, <3>3
  <2>7. Stream!Callback("end_element", NamesOf(open)[Len(NamesOf(open))])
    BY <2>1, <2>6, CallbackRefines
  <2>8. Phase = "document" /\ Phase' = "document"
    BY <2>1 DEF Phase, EventMatchesControl
  <2>9. Stream!EndElement
    BY <2>1, <2>5, <2>6, <2>7, <2>8 DEF Stream!EndElement
  <2> QED BY <2>9 DEF Stream!Next
<1>6. CASE parse_cdata \/ \E class \in {"empty", "blank", "nonblank"} : parse_text(class)
  <2>1. /\ pc = "content" /\ pc' \in {"content", "failed"} /\ UNCHANGED rooted
        /\ \/ UNCHANGED <<pc, open, event>>
           \/ /\ event'.kind \in {"characters", "cdata"} /\ event'.name = NoName
              /\ \E item \in Items : open' = Note(open, item)
    BY <1>6, CharacterDataFacts
  <2>2. CASE UNCHANGED <<pc, open, event>>
    BY <2>1, <2>2 DEF Stream!vars, Phase
  <2>3. CASE /\ event'.kind \in {"characters", "cdata"} /\ event'.name = NoName
             /\ \E item \in Items : open' = Note(open, item)
    <3>1. NamesOf(open') = NamesOf(open)
      BY <1>0, <2>3, NotePath
    <3>2. Stream!Callback(event'.kind, NoName)
      BY <2>1, <2>3, CallbackRefines
    <3>3. NamesOf(open) # <<>>
      <4>1. open # <<>>
        BY <1>0, <2>1, EmptySeq DEF IInv, StacksAgree, Unended, TypeOK
      <4> QED BY <1>0, <4>1, PathFacts
    <3>4. Phase = "document" /\ Phase' = "document"
      BY <2>1, <2>3 DEF Phase, EventMatchesControl
    <3>5. Stream!CharacterData
      BY <2>1, <2>3, <3>1, <3>2, <3>3, <3>4 DEF Stream!CharacterData
    <3> QED BY <3>5 DEF Stream!Next
  <2> QED BY <2>1, <2>2, <2>3
<1>7. CASE StartDocument
  <2>1. Stream!Callback("start_document", NoName)
    BY <1>7, StartDocumentFacts, CallbackRefines
  <2>2. Phase = "silent" /\ Phase' = "document"
    BY <1>7, StartDocumentFacts DEF Phase, EventMatchesControl
  <2>3. Stream!StartDocument
    BY <1>7, <2>1, <2>2, StartDocumentFacts DEF Stream!StartDocument
  <2> QED BY <2>3 DEF Stream!Next
<1>8. CASE parse_misc
  <2>1. Stream!Callback(event'.kind, NoName)
    BY <1>8, MiscFacts, CallbackRefines DEF Reading, Prolog
  <2>2. Phase = "document" /\ Phase' = "document"
    BY <1>8, MiscFacts DEF Phase, EventMatchesControl, Reading, Prolog
  <2>3. Stream!Misc
    BY <1>8, <2>1, <2>2, MiscFacts DEF Stream!Misc
  <2> QED BY <2>3 DEF Stream!Next
<1>9. CASE EndDocument
  <2>1. Stream!Callback("end_document", NoName)
    BY <1>9, EndDocumentFacts, CallbackRefines
  <2>2. Phase = "document" /\ Phase' = "ended" /\ rooted = TRUE
    BY <1>9, EndDocumentFacts DEF Phase, EventMatchesControl, RootedPoints
  <2>3. NamesOf(open) = <<>>
    <3>1. Len(open) = 0
      BY <1>9, EndDocumentFacts, EmptySeq DEF IInv, StacksAgree, Unended, TypeOK
    <3> QED BY <1>0, <3>1, PathFacts, EmptySeq
  <2>4. Stream!EndDocument
    BY <1>9, <2>1, <2>2, <2>3, EndDocumentFacts DEF Stream!EndDocument
  <2> QED BY <2>4 DEF Stream!Next
<1>10. CASE UNCHANGED vars
  BY <1>10 DEF vars, handler, Stream!vars, Phase
<1> QED BY <1>1, <1>2, <1>3, <1>4, <1>5, <1>6, <1>7, <1>8, <1>9, <1>10, NextCases

\* Whatever the document, the options and the callbacks do, the handler
\* sees a well-nested stream of events that stops at the first exception.
THEOREM ParserDeliversAStream == Spec => DeliversAStream
<1>1. StreamInv /\ [Next]_vars => StreamInv' /\ [Stream!Next]_(Stream!vars)
  BY NextStreamInv, NextRefines
<1> QED BY <1>1, InitStreamInv, InitRefines, PTL DEF Spec, DeliversAStream, Stream!Spec

-----------------------------------------------------------------------------
(***************************************************************************)
(* Delivery: the attributes of an element are distinct, its namespace is   *)
(* the one in scope, and the verdict on its content is right.              *)
(***************************************************************************)
-----------------------------------------------------------------------------
(* Attributes.                                                              *)

\* Only a start tag hands on attributes.
LEMMA OnlyStartTagsHaveAttributes ==
    ASSUME [Next]_vars, ~\E t \in StartTags : StartElement(t)
    PROVE  /\ options' = options
           /\ event' = event \/ event'.attributes = <<>>
<1> USE DEF stacks, handler
<1>1. CASE \/ DecodeFails \/ parse_xml_declaration_if_present \/ parse_doctype_if_present
           \/ TagTooDeep \/ TagAttributesRefused \/ TagNamesRefused \/ MismatchedEndTag
           \/ ExtraContent \/ Truncated \/ LexicalFailure \/ FinishElement
  BY <1>1 DEF DecodeFails, parse_xml_declaration_if_present, parse_doctype_if_present,
         TagTooDeep, TagAttributesRefused, TagNamesRefused, MismatchedEndTag, ExtraContent,
         Truncated, LexicalFailure, FinishElement
<1>2. CASE StartDocument \/ parse_misc \/ EndDocument
  BY <1>2 DEF StartDocument, parse_misc, EndDocument, plain_callback, Called
<1>3. CASE EmptyTag \/ EndTag
  BY <1>3 DEF EmptyTag, EndTag, end_element, Called
<1>4. CASE parse_cdata \/ \E class \in {"empty", "blank", "nonblank"} : parse_text(class)
  <2>1. CASE parse_cdata
    BY <2>1 DEF parse_cdata, content_callback, Called
  <2>2. CASE \E class \in {"empty", "blank", "nonblank"} : parse_text(class)
    <3>1. PICK class \in {"empty", "blank", "nonblank"} : parse_text(class)
      BY <2>2
    <3>2. options' = options
      BY <3>1 DEF parse_text
    <3>3. \/ UNCHANGED handler
          \/ event' = Called("characters", NoName, <<>>, NoElement)
      BY <3>1 DEF parse_text, content_callback
    <3> QED BY <3>2, <3>3 DEF Called
  <2> QED BY <1>4, <2>1, <2>2
<1>5. CASE UNCHANGED vars
  BY <1>5 DEF vars
<1> QED BY <1>1, <1>2, <1>3, <1>4, <1>5 DEF Next

\* A start tag hands on attributes that parse_attributes and parse_element
\* have found to be few enough and distinct.
LEMMA StartTagAttributes ==
    ASSUME TypeOK, NEW t \in StartTags, StartElement(t)
    PROVE  DeliveredAttributesAreDistinct'
<1> DEFINE attrs == EmittedNames(t)
<1>1. event'.attributes = attrs /\ options' = options
  BY DEF StartElement, start_element, Called
<1>2. t.attributes \in Seq(Attributes)
  BY TagsAssumption
<1>3. DOMAIN t.attributes = 1..Len(t.attributes) /\ Len(t.attributes) \in Nat
  BY <1>2, LenProperties
<1>4. DOMAIN attrs = Emitted(t) /\ Emitted(t) \subseteq DOMAIN t.attributes
  BY DEF EmittedNames, Emitted
<1>5. \A i \in DOMAIN t.attributes : i <= options.max_attributes
  BY DEF StartElement, AttributesAccepted, Accepted
<1>6. options.max_attributes \in Nat
  BY OptionsAssumption DEF TypeOK
<1>7. DOMAIN attrs \subseteq 1..options.max_attributes
  <2> SUFFICES ASSUME NEW i \in DOMAIN attrs PROVE i \in 1..options.max_attributes
    OBVIOUS
  <2>1. i \in 1..Len(t.attributes) /\ i <= options.max_attributes
    BY <1>3, <1>4, <1>5
  <2> QED BY <1>3, <1>6, <2>1
<1>8. \A i, j \in DOMAIN attrs : ExpandedName(attrs[i]) = ExpandedName(attrs[j]) => i = j
  BY <1>4 DEF StartElement, NamesAccepted
<1> QED BY <1>1, <1>7, <1>8 DEF DeliveredAttributesAreDistinct

\* A start_element event never carries two attributes of one expanded name,
\* nor more than max_attributes_per_element (parse_element).
THEOREM AttributesAlwaysDistinct == Spec => []DeliveredAttributesAreDistinct
<1>1. Init => DeliveredAttributesAreDistinct
  BY NoAttributes DEF Init, Called, DeliveredAttributesAreDistinct
<1>2. TypeOK /\ DeliveredAttributesAreDistinct /\ [Next]_vars => DeliveredAttributesAreDistinct'
  <2> SUFFICES ASSUME TypeOK, DeliveredAttributesAreDistinct, [Next]_vars
               PROVE  DeliveredAttributesAreDistinct'
    OBVIOUS
  <2>1. CASE \E t \in StartTags : StartElement(t)
    BY <2>1, StartTagAttributes
  <2>2. CASE ~\E t \in StartTags : StartElement(t)
    <3>1. options' = options /\ (event' = event \/ event'.attributes = <<>>)
      BY <2>2, OnlyStartTagsHaveAttributes
    <3>2. CASE event' = event
      BY <3>1, <3>2 DEF DeliveredAttributesAreDistinct
    <3>3. CASE event'.attributes = <<>>
      BY <3>3, NoAttributes DEF DeliveredAttributesAreDistinct
    <3> QED BY <3>1, <3>2, <3>3
  <2> QED BY <2>1, <2>2
<1> QED BY <1>1, <1>2, TypeCorrect, PTL DEF Spec

-----------------------------------------------------------------------------
(* Namespaces.                                                              *)

\* The scope an element contributes has a prefix if and only if the element
\* declares it, with the value of one of its declarations.
LEMMA CollectFacts ==
    ASSUME NEW attributes \in Seq(Attributes), NEW mode, NEW p
    PROVE  LET scope == collect_namespace_declarations(attributes, mode)
               D == DeclarationsOf(attributes, p, mode)
           IN  /\ p \in DOMAIN scope <=> D # {}
               /\ p \in DOMAIN scope => scope[p] \in {attributes[k].value : k \in D}
<1> DEFINE D(q) == DeclarationsOf(attributes, q, mode)
           declared == {q \in {DeclaredPrefix(attributes[i].name) : i \in DOMAIN attributes} :
                           D(q) # {}}
           scope == collect_namespace_declarations(attributes, mode)
<1>1. DOMAIN attributes = 1..Len(attributes) /\ Len(attributes) \in Nat
  BY LenProperties
<1>2. scope = [q \in declared |-> attributes[Innermost(D(q))].value]
  BY DEF collect_namespace_declarations, Innermost
<1>3. p \in declared <=> D(p) # {}
  BY DEF DeclarationsOf
<1>4. D(p) # {} => Innermost(D(p)) \in D(p)
  BY <1>1, InnermostFacts DEF DeclarationsOf
<1> HIDE DEF declared, D, scope
<1>5. DOMAIN scope = declared /\ (p \in declared => scope[p] = attributes[Innermost(D(p))].value)
  BY <1>2
<1> QED BY <1>3, <1>4, <1>5 DEF D, scope

\* What the declarations among some attributes say of a prefix.
SaidOf(attributes, p) ==
    {attributes[k].value : k \in DeclarationsOf(attributes, p, "Enabled")}

\* The scopes of n elements with these attributes.
ScopesOf(n, declares, scopes) ==
    /\ scopes \in Seq(Scopes)
    /\ Len(scopes) = n
    /\ \A i \in 1..n : declares[i] \in Seq(Attributes)
    /\ \A i \in 1..n :
          scopes[i] = collect_namespace_declarations(declares[i], "Enabled")

\* What the innermost of n elements to declare a prefix says of it, or nothing.
Nearest(n, declares, p, u) ==
    \/ /\ \A i \in 1..n : SaidOf(declares[i], p) = {}
       /\ u = ""
    \/ \E i \in 1..n : /\ u \in SaidOf(declares[i], p)
                       /\ \A j \in (i + 1)..n : SaidOf(declares[j], p) = {}

\* Looking a prefix up in the scopes of some elements gives what the
\* innermost of them that declares it says, or nothing.
LEMMA LookupFacts ==
    ASSUME NEW n \in Nat, NEW declares, NEW scopes, ScopesOf(n, declares, scopes),
           NEW p, p # "xml"
    PROVE  Nearest(n, declares, p, lookup_namespace(p, scopes))
<1> DEFINE D(i) == SaidOf(declares[i], p)
           u == lookup_namespace(p, scopes)
           found == Declaring(p, scopes)
<1> USE DEF ScopesOf
<1>1. DOMAIN scopes = 1..n
  BY LenProperties
<1>2. \A i \in 1..n : /\ p \in DOMAIN scopes[i] <=> D(i) # {}
                      /\ p \in DOMAIN scopes[i] =>
                            scopes[i][p] \in D(i)
  <2> SUFFICES ASSUME NEW i \in 1..n
               PROVE  /\ p \in DOMAIN scopes[i] <=> D(i) # {}
                      /\ p \in DOMAIN scopes[i] => scopes[i][p] \in D(i)
    OBVIOUS
  <2> DEFINE said == DeclarationsOf(declares[i], p, "Enabled")
  <2>1. /\ p \in DOMAIN scopes[i] <=> said # {}
        /\ p \in DOMAIN scopes[i] => scopes[i][p] \in {declares[i][k].value : k \in said}
    BY CollectFacts
  <2>2. said # {} <=> D(i) # {}
    BY DEF SaidOf
  <2> QED BY <2>1, <2>2 DEF SaidOf
<1>3. \A i \in 1..n : i \in found <=> D(i) # {}
  BY <1>1, <1>2 DEF Declaring
<1>4. CASE found = {}
  BY <1>3, <1>4 DEF lookup_namespace, Nearest
<1>5. CASE found # {}
  <2> DEFINE last == Innermost(found)
  <2>1. last \in found /\ \A j \in found : j <= last
    BY <1>1, <1>5, InnermostFacts DEF Declaring
  <2>2. last \in 1..n /\ found \subseteq 1..n
    BY <1>1, <2>1 DEF Declaring
  <2>3. u = scopes[last][p] /\ p \in DOMAIN scopes[last]
    BY <1>5, <2>1 DEF lookup_namespace, Declaring
  <2> HIDE DEF last, found
  <2>4. u \in D(last)
    BY <1>2, <2>2, <2>3
  <2>5. \A j \in (last + 1)..n : D(j) = {}
    <3> SUFFICES ASSUME NEW j \in (last + 1)..n PROVE D(j) = {}
      OBVIOUS
    <3>1. j \in 1..n /\ ~(j <= last)
      BY <2>2
    <3> QED BY <1>3, <2>1, <3>1
  <2> QED BY <2>2, <2>4, <2>5 DEF Nearest
<1> QED BY <1>4, <1>5

\* While the parser runs, its scopes are those of the open elements.
ScopesOfOpenElements ==
    pc # "failed" =>
        \A i \in DOMAIN open :
            namespace_scopes[i] =
                collect_namespace_declarations(open[i].declares, options.namespaces)

NamesInv == ScopesOfOpenElements /\ ResolvedFromOpenElements

\* What a step that starts no element leaves as it is: what remains open has
\* the name, tag, declarations and scope it had.
Keeps ==
    /\ options' = options
    /\ open' \in Seq(OpenElements)
    /\ Len(open') <= Len(open)
    /\ \A i \in 1..Len(open') : /\ open'[i].name = open[i].name
                                /\ open'[i].tag = open[i].tag
                                /\ open'[i].declares = open[i].declares
    /\ pc' # "failed" =>
          /\ pc # "failed"
          /\ \A i \in 1..Len(open') : namespace_scopes'[i] = namespace_scopes[i]

\* Only a start tag is no such step.
LEMMA KeepsSteps ==
    ASSUME IInv, [Next]_vars, ~\E t \in StartTags : StartElement(t)
    PROVE  Keeps
<1> USE DEF stacks, handler
<1>1. open \in Seq(OpenElements) /\ Len(open) \in Nat
  BY DEF IInv, TypeOK
<1>2. CASE \/ DecodeFails \/ parse_xml_declaration_if_present \/ parse_doctype_if_present
           \/ TagTooDeep \/ TagAttributesRefused \/ TagNamesRefused \/ MismatchedEndTag
           \/ ExtraContent \/ Truncated \/ LexicalFailure
  <2>1. UNCHANGED <<options, open, namespace_scopes>> /\ pc # "failed"
    BY <1>2 DEF DecodeFails, parse_xml_declaration_if_present, parse_doctype_if_present,
         TagTooDeep, TagAttributesRefused, TagNamesRefused, MismatchedEndTag, ExtraContent,
         Truncated, LexicalFailure, AtStartTag, Reading, Prolog
  <2> QED BY <1>1, <2>1 DEF Keeps
<1>3. CASE StartDocument \/ parse_misc \/ EndDocument
  <2>1. UNCHANGED <<options, open, namespace_scopes>> /\ pc # "failed"
    BY <1>3 DEF StartDocument, parse_misc, EndDocument, plain_callback, Reading, Prolog
  <2> QED BY <1>1, <2>1 DEF Keeps
<1>4. CASE EmptyTag \/ EndTag
  <2> DEFINE item == [kind |-> "element", name |-> Last(open).tag]
  <2>1. /\ UNCHANGED <<options, namespace_scopes>> /\ pc # "failed"
        /\ pc \in {"content", "empty_tag"}
        /\ open' = Note(Front(open), item)
    BY <1>4 DEF EmptyTag, EndTag, end_element
  <2>2. open # <<>>
    <3>1. element_stack # <<>> /\ Len(open) = Len(element_stack)
      BY <2>1 DEF IInv, StacksAgree, Unended
    <3>2. element_stack \in Seq(RawNames)
      BY DEF IInv, TypeOK
    <3> QED BY <1>1, <3>1, <3>2, EmptySeq
  <2>3. /\ Front(open) \in Seq(OpenElements) /\ Len(Front(open)) = Len(open) - 1
        /\ \A i \in 1..(Len(open) - 1) : Front(open)[i] = open[i]
        /\ Last(open) \in OpenElements
    BY <1>1, <2>2, PopFacts
  <2>4. item \in Items
    <3>1. Last(open).tag \in RawNames \cup {Plain("")}
      BY <2>3 DEF OpenElements
    <3> QED BY <3>1 DEF Items, TextKinds
  <2> HIDE DEF item
  <2>5. /\ open' \in Seq(OpenElements) /\ Len(open') = Len(open) - 1
        /\ \A i \in 1..(Len(open) - 1) : /\ open'[i].name = open[i].name
                                         /\ open'[i].tag = open[i].tag
                                         /\ open'[i].declares = open[i].declares
    <3> DEFINE s == Front(open)
    <3>1. s \in Seq(OpenElements) /\ Len(s) = Len(open) - 1
      BY <2>3
    <3>2. \A i \in 1..(Len(open) - 1) : s[i] = open[i]
      BY <2>3
    <3> HIDE DEF s
    <3>3. /\ Note(s, item) \in Seq(OpenElements) /\ Len(Note(s, item)) = Len(s)
          /\ \A i \in 1..Len(s) : /\ Note(s, item)[i].name = s[i].name
                                  /\ Note(s, item)[i].tag = s[i].tag
                                  /\ Note(s, item)[i].declares = s[i].declares
      BY <2>4, <3>1, NoteFacts
    <3>4. open' = Note(s, item)
      BY <2>1 DEF s
    <3> QED BY <3>1, <3>2, <3>3, <3>4
  <2> QED BY <1>1, <2>1, <2>5 DEF Keeps
<1>5. CASE parse_cdata \/ \E class \in {"empty", "blank", "nonblank"} : parse_text(class)
  <2>1. UNCHANGED <<options, namespace_scopes>> /\ pc # "failed"
    BY <1>5 DEF parse_cdata, parse_text
  <2>2. \/ open' = open
        \/ \E item \in Items : open' = Note(open, item)
    BY <1>5 DEF parse_cdata, parse_text, content_callback, Items, TextKinds
  <2>3. /\ open' \in Seq(OpenElements) /\ Len(open') = Len(open)
        /\ \A i \in 1..Len(open) : /\ open'[i].name = open[i].name
                                   /\ open'[i].tag = open[i].tag
                                   /\ open'[i].declares = open[i].declares
    BY <1>1, <2>2, NoteFacts
  <2> QED BY <1>1, <2>1, <2>3 DEF Keeps
<1>6. CASE FinishElement
  <2>1. UNCHANGED <<options, open>> /\ pc = "closing"
    BY <1>6 DEF FinishElement
  <2>2. \/ namespace_scopes' = namespace_scopes
        \/ namespace_scopes' = Front(namespace_scopes)
    BY <1>6 DEF FinishElement, PopElement
  <2>3. /\ namespace_scopes \in Seq(Scopes) /\ namespace_scopes # <<>>
        /\ Len(namespace_scopes) = Len(open) + 1
    <3>1. /\ Len(namespace_scopes) = Len(element_stack)
          /\ Len(open) = Len(element_stack) - 1
      BY <2>1 DEF IInv, StacksAgree, Unended
    <3>2. namespace_scopes \in Seq(Scopes) /\ Len(namespace_scopes) \in Nat
      BY DEF IInv, TypeOK
    <3> QED BY <1>1, <3>1, <3>2, EmptySeq
  <2>4. \A i \in 1..Len(open) : Front(namespace_scopes)[i] = namespace_scopes[i]
    BY <1>1, <2>3, PopFacts
  <2> QED BY <1>1, <2>1, <2>2, <2>4 DEF Keeps
<1>7. CASE UNCHANGED vars
  BY <1>1, <1>7 DEF Keeps, vars
<1> QED BY <1>2, <1>3, <1>4, <1>5, <1>6, <1>7 DEF Next

\* What remains open remains resolved.
LEMMA KeepsNames ==
    ASSUME IInv, NamesInv, Keeps
    PROVE  NamesInv'
<1>1. /\ open \in Seq(OpenElements) /\ open' \in Seq(OpenElements)
      /\ options' = options
  BY DEF IInv, TypeOK, Keeps
<1>2. /\ DOMAIN open = 1..Len(open) /\ DOMAIN open' = 1..Len(open')
      /\ Len(open) \in Nat /\ Len(open') \in Nat
  BY <1>1, LenProperties
<1>3. \A i \in DOMAIN open' : i \in DOMAIN open
  BY <1>2 DEF Keeps
<1>4. \A i \in DOMAIN open' : /\ open'[i].name = open[i].name
                              /\ open'[i].tag = open[i].tag
                              /\ open'[i].declares = open[i].declares
  BY <1>2 DEF Keeps
<1>5. ScopesOfOpenElements'
  <2> SUFFICES ASSUME pc' # "failed", NEW i \in DOMAIN open'
               PROVE  namespace_scopes'[i] =
                         collect_namespace_declarations(open'[i].declares, options'.namespaces)
    BY DEF ScopesOfOpenElements
  <2>1. pc # "failed" /\ namespace_scopes'[i] = namespace_scopes[i]
    BY <1>2 DEF Keeps
  <2>2. namespace_scopes[i] =
           collect_namespace_declarations(open[i].declares, options.namespaces)
    BY <1>3, <2>1 DEF NamesInv, ScopesOfOpenElements
  <2> QED BY <1>1, <1>4, <2>1, <2>2
<1>6. ResolvedFromOpenElements'
  <2> SUFFICES ASSUME options'.namespaces = "Enabled", NEW d \in DOMAIN open', NEW p, NEW uri,
                      p = open[d].tag.prefix, uri = open[d].name.uri, p # "xml"
               PROVE  BoundTo(p, uri, d)'
    BY <1>4 DEF ResolvedFromOpenElements
  <2>1. BoundTo(p, uri, d)
    BY <1>1, <1>3, <1>4 DEF NamesInv, ResolvedFromOpenElements
  <2>2. \A i \in 1..d : i \in DOMAIN open'
    BY <1>2
  <2>3. \A i \in 1..d : Binding(i, p)' = Binding(i, p)
    BY <1>4, <2>2 DEF Binding
  <2>4. d \in Nat
    BY <1>2
  <2>5. \A i \in 1..d : \A j \in (i + 1)..d : j \in 1..d
    BY <2>4
  <2>6. \A i \in 1..d : \A j \in (i + 1)..d : Binding(j, p)' = Binding(j, p)
    BY <2>3, <2>5
  <2> QED BY <2>1, <2>3, <2>6, Zenon DEF BoundTo
<1> QED BY <1>5, <1>6 DEF NamesInv

\* A new element's scope is pushed with it, and its name is resolved by the
\* declarations of the elements that are open with it.
LEMMA StartTagNames ==
    ASSUME IInv, NamesInv, NEW t \in StartTags, StartElement(t)
    PROVE  NamesInv'
<1> DEFINE n == Len(open)
           name == resolve_name(t.name, TRUE, ScopesWith(t), options.namespaces)
           scope == collect_namespace_declarations(t.attributes, options.namespaces)
           elt == [name |-> name, tag |-> t.name, declares |-> t.attributes,
                  children |-> <<>>, text |-> {}]
<1>1. t.name \in RawNames /\ t.attributes \in Seq(Attributes)
  BY TagsAssumption
<1>2. /\ open \in Seq(OpenElements) /\ namespace_scopes \in Seq(Scopes)
      /\ n \in Nat /\ Len(namespace_scopes) = n /\ pc # "failed"
  <2>1. open \in Seq(OpenElements) /\ namespace_scopes \in Seq(Scopes)
    BY DEF IInv, TypeOK
  <2>2. pc \notin {"failed", "closing"}
    BY DEF StartElement, AtStartTag, Prolog
  <2>3. Len(open) = Len(element_stack) /\ Len(namespace_scopes) = Len(element_stack)
    BY <2>2 DEF IInv, StacksAgree, Unended
  <2> QED BY <2>1, <2>2, <2>3, LenProperties
<1>3. /\ namespace_scopes' = ScopesWith(t) /\ ScopesWith(t) = Append(namespace_scopes, scope)
      /\ open' = Append(open, elt)
      /\ options' = options
  BY DEF StartElement, start_element, ScopesWith
<1>4. scope \in Scopes
  BY <1>1, CollectType
<1>5. /\ namespace_scopes' \in Seq(Scopes) /\ Len(namespace_scopes') = n + 1
      /\ namespace_scopes'[n + 1] = scope
      /\ \A i \in 1..n : namespace_scopes'[i] = namespace_scopes[i]
  BY <1>2, <1>3, <1>4, PushFacts
<1>6. elt \in OpenElements
  <2>1. name \in QualifiedNames
    BY <1>1, <1>3, <1>5, ResolveType
  <2> QED BY <1>1, <2>1, EmptySeq DEF OpenElements
<1>7. elt.name = name /\ elt.tag = t.name /\ elt.declares = t.attributes
  OBVIOUS
<1> HIDE DEF elt, scope, name
<1>8. /\ open' \in Seq(OpenElements) /\ DOMAIN open' = 1..(n + 1)
      /\ open'[n + 1] = elt
      /\ \A i \in 1..n : open'[i] = open[i]
  BY <1>2, <1>3, <1>6, PushFacts
<1>9. DOMAIN open = 1..n /\ \A i \in 1..(n + 1) : i = n + 1 \/ i \in DOMAIN open
  BY <1>2, LenProperties
<1>10. \A i \in 1..(n + 1) :
          namespace_scopes'[i] =
             collect_namespace_declarations(open'[i].declares, options.namespaces)
  <2> SUFFICES ASSUME NEW i \in 1..(n + 1)
               PROVE  namespace_scopes'[i] =
                         collect_namespace_declarations(open'[i].declares, options.namespaces)
    OBVIOUS
  <2>1. CASE i = n + 1
    BY <1>5, <1>7, <1>8, <2>1 DEF scope
  <2>2. CASE i \in DOMAIN open
    <3>1. namespace_scopes[i] =
             collect_namespace_declarations(open[i].declares, options.namespaces)
      BY <1>2, <2>2 DEF NamesInv, ScopesOfOpenElements
    <3>2. open'[i] = open[i] /\ namespace_scopes'[i] = namespace_scopes[i]
      BY <1>5, <1>8, <1>9, <2>2
    <3> QED BY <3>1, <3>2
  <2> QED BY <1>9, <2>1, <2>2
<1>11. ScopesOfOpenElements'
  BY <1>3, <1>8, <1>10 DEF ScopesOfOpenElements
<1>12. ResolvedFromOpenElements'
  <2> SUFFICES ASSUME options.namespaces = "Enabled", NEW d \in 1..(n + 1), NEW p, NEW uri,
                      p = open'[d].tag.prefix, uri = open'[d].name.uri, p # "xml"
               PROVE  BoundTo(p, uri, d)'
    BY <1>3, <1>8 DEF ResolvedFromOpenElements
  <2>1. CASE d \in DOMAIN open
    <3>1. BoundTo(p, uri, d)
      BY <1>8, <1>9, <2>1 DEF NamesInv, ResolvedFromOpenElements
    <3>2. \A i \in 1..d : Binding(i, p)' = Binding(i, p)
      BY <1>2, <1>8, <1>9, <2>1 DEF Binding
    <3>3. \A i \in 1..d : \A j \in (i + 1)..d : Binding(j, p)' = Binding(j, p)
      <4>1. \A i \in 1..d : \A j \in (i + 1)..d : j \in 1..d
        BY <1>2
      <4> QED BY <3>2, <4>1
    <3> QED BY <3>1, <3>2, <3>3, Zenon DEF BoundTo
  <2>2. CASE d = n + 1
    <3>1. p = t.name.prefix /\ uri = name.uri
      BY <1>7, <1>8, <2>2
    <3>2. name.uri = lookup_namespace(p, namespace_scopes')
      <4>1. t.name.form \in {"plain", "prefixed"}
        BY DEF StartElement, NamesAccepted, NamesResolvable, Resolvable
      <4>2. t.name.form = "plain" => p = ""
        BY <1>1, <3>1, NamesAssumption
      <4> QED BY <1>3, <3>1, <4>1, <4>2 DEF name, resolve_name
    <3> DEFINE declares == [i \in 1..(n + 1) |-> open'[i].declares]
    <3>3. \A i \in 1..(n + 1) : declares[i] \in Seq(Attributes)
      <4>1. \A i \in 1..(n + 1) : open'[i] \in OpenElements
        BY <1>2, <1>8, ElementOfSeq, LenProperties
      <4> QED BY <4>1 DEF OpenElements
    <3>4. \A i \in 1..(n + 1) :
             namespace_scopes'[i] = collect_namespace_declarations(declares[i], "Enabled")
      BY <1>10
    <3>5. \A i \in 1..(n + 1) : declares[i] = open'[i].declares
      OBVIOUS
    <3> HIDE DEF declares
    <3>6. \/ (\A i \in 1..(n + 1) : SaidOf(declares[i], p) = {}) /\ uri = ""
          \/ \E i \in 1..(n + 1) : /\ uri \in SaidOf(declares[i], p)
                                   /\ \A j \in (i + 1)..(n + 1) : SaidOf(declares[j], p) = {}
      <4>1. ScopesOf(n + 1, declares, namespace_scopes')
        BY <1>5, <3>3, <3>4 DEF ScopesOf
      <4>2. n + 1 \in Nat /\ uri = lookup_namespace(p, namespace_scopes')
        BY <1>2, <3>1, <3>2
      <4>3. Nearest(n + 1, declares, p, uri)
        BY <4>1, <4>2, LookupFacts
      <4> QED BY <4>3 DEF Nearest
    <3>7. \A i \in 1..(n + 1) : Binding(i, p)' = SaidOf(declares[i], p)
      BY <3>5 DEF Binding, SaidOf
    <3>8. \A i \in 1..(n + 1) : \A j \in (i + 1)..(n + 1) : j \in 1..(n + 1)
      BY <1>2
    <3> QED BY <2>2, <3>6, <3>7, <3>8, Zenon DEF BoundTo
  <2> QED BY <1>9, <2>1, <2>2
<1> QED BY <1>11, <1>12 DEF NamesInv

\* The URI an open element was announced with is the one the nearest
\* declaration on it or on an open ancestor gives its prefix (resolve_name).
THEOREM NamesAlwaysResolved == Spec => []ResolvedFromOpenElements
<1>1. Init => NamesInv
  BY NoAttributes DEF Init, NamesInv, ScopesOfOpenElements, ResolvedFromOpenElements
<1>2. IInv /\ NamesInv /\ [Next]_vars => NamesInv'
  <2> SUFFICES ASSUME IInv, NamesInv, [Next]_vars PROVE NamesInv'
    OBVIOUS
  <2>1. CASE \E t \in StartTags : StartElement(t)
    BY <2>1, StartTagNames
  <2>2. CASE ~\E t \in StartTags : StartElement(t)
    BY <2>2, KeepsSteps, KeepsNames
  <2> QED BY <2>1, <2>2
<1>3. NamesInv => ResolvedFromOpenElements
  BY DEF NamesInv
<1> QED BY <1>1, <1>2, <1>3, InitIInv, NextIInv, PTL DEF Spec

-----------------------------------------------------------------------------
(* Content and validity.                                                    *)

\* A frame that lacks only this child of what it is to record.
RecordsBut(frame, e, child) ==
    /\ e.children = Append(frame.child_elements, child)
    /\ frame.has_non_whitespace_text <=> HasText(e, {"nonblank"})

\* Between end_element and the end of its validation, an element is on the
\* stacks of the parser and a child of its parent for the handler.
Closing ==
    /\ event.element.tag = Last(validation_stack).name
    /\ Records(Last(validation_stack), event.element)
    /\ \A i \in DOMAIN open :
          IF i = Len(open)
          THEN RecordsBut(validation_stack[i], open[i], Last(validation_stack).name)
          ELSE Records(validation_stack[i], open[i])

ContentInv ==
    /\ pc \in {"content", "empty_tag"} =>
          \A i \in DOMAIN open : Records(validation_stack[i], open[i])
    /\ pc = "closing" => Closing

\* The stacks that matter here, while an element is open.
LEMMA ContentTypes ==
    ASSUME IInv, pc # "failed"
    PROVE  /\ open \in Seq(OpenElements) /\ validation_stack \in Seq(Frames)
           /\ Len(open) \in Nat /\ DOMAIN open = 1..Len(open)
           /\ Len(validation_stack) \in Nat
           /\ Len(open) = IF pc = "closing" THEN Len(validation_stack) - 1
                          ELSE Len(validation_stack)
           /\ pc \in InElement => validation_stack # <<>>
           /\ pc \in {"content", "empty_tag"} => open # <<>>
           /\ pc \notin InElement => open = <<>>
<1>1. open \in Seq(OpenElements) /\ validation_stack \in Seq(Frames)
  BY DEF IInv, TypeOK
<1>2. element_stack \in Seq(RawNames)
  BY DEF IInv, TypeOK
<1>3. /\ Len(open) \in Nat /\ DOMAIN open = 1..Len(open) /\ Len(validation_stack) \in Nat
  BY <1>1, LenProperties
<1>4. /\ Len(open) = Unended /\ Len(validation_stack) = Len(element_stack)
      /\ element_stack # <<>> <=> pc \in InElement
  BY DEF IInv, StacksAgree, InElement
<1>5. /\ element_stack = <<>> <=> Len(element_stack) = 0
      /\ validation_stack = <<>> <=> Len(validation_stack) = 0
      /\ open = <<>> <=> Len(open) = 0
  BY <1>1, <1>2, EmptySeq
<1> QED BY <1>1, <1>3, <1>4, <1>5 DEF Unended, InElement

\* A start tag is given an empty frame.
LEMMA StartTagContent ==
    ASSUME IInv, IInv', ContentInv, NEW t \in StartTags, StartElement(t)
    PROVE  ContentInv'
<1> DEFINE n == Len(open)
           name == resolve_name(t.name, TRUE, ScopesWith(t), options.namespaces)
           frame == [name |-> t.name, child_elements |-> <<>>, has_non_whitespace_text |-> FALSE]
           elt == [name |-> name, tag |-> t.name, declares |-> t.attributes,
                   children |-> <<>>, text |-> {}]
<1>1. /\ validation_stack' = Append(validation_stack, frame)
      /\ open' = Append(open, elt)
      /\ pc' \in {"content", "empty_tag", "failed"}
      /\ pc \in Prolog \cup {"content"}
  BY DEF StartElement, start_element, ReturnsTo, fail, AtStartTag
<1>2. Records(frame, elt)
  BY DEF Records, HasText
<1>3. SUFFICES ASSUME pc' \in {"content", "empty_tag"}
               PROVE  \A i \in DOMAIN open' : Records(validation_stack'[i], open'[i])
  BY <1>1 DEF ContentInv
<1>4. /\ open \in Seq(OpenElements) /\ validation_stack \in Seq(Frames)
      /\ n \in Nat /\ Len(validation_stack) = n
      /\ DOMAIN open = 1..n
  BY <1>1, ContentTypes DEF Prolog
<1>5. frame \in Frames /\ elt \in OpenElements
  <2>1. t.name \in RawNames /\ t.attributes \in Seq(Attributes)
    BY TagsAssumption
  <2>2. ScopesWith(t) \in Seq(Scopes)
    <3>1. namespace_scopes \in Seq(Scopes)
      BY DEF IInv, TypeOK
    <3> QED BY <2>1, <3>1, CollectType, PushFacts DEF ScopesWith
  <2>3. name \in QualifiedNames
    BY <2>1, <2>2, ResolveType
  <2> QED BY <2>1, <2>3, EmptySeq DEF Frames, OpenElements
<1> HIDE DEF frame, elt, name
<1>6. /\ DOMAIN open' = 1..(n + 1) /\ open'[n + 1] = elt
      /\ \A i \in 1..n : open'[i] = open[i]
  BY <1>1, <1>4, <1>5, PushFacts
<1>7. /\ validation_stack'[n + 1] = frame
      /\ \A i \in 1..n : validation_stack'[i] = validation_stack[i]
  BY <1>1, <1>4, <1>5, PushFacts
<1>8. \A i \in 1..n : Records(validation_stack[i], open[i])
  <2>1. CASE pc = "content"
    BY <1>4, <2>1 DEF ContentInv
  <2>2. CASE pc \in Prolog
    <3>1. open = <<>>
      BY <2>2, ContentTypes DEF InElement, Prolog
    <3>2. n = 0
      BY <3>1, EmptySeq
    <3> QED BY <3>2
  <2> QED BY <1>1, <2>1, <2>2
<1> QED
  <2> SUFFICES ASSUME NEW i \in 1..(n + 1) PROVE Records(validation_stack'[i], open'[i])
    BY <1>6
  <2>1. CASE i = n + 1
    BY <1>2, <1>6, <1>7, <2>1
  <2>2. CASE i \in 1..n
    BY <1>6, <1>7, <1>8, <2>2
  <2> QED BY <1>4, <2>1, <2>2

\* An element that ends is what its frame records, and its parent has one
\* child more than its own frame.
LEMMA EndTagContent ==
    ASSUME IInv, IInv', ContentInv, EmptyTag \/ EndTag
    PROVE  ContentInv'
<1> USE DEF stacks
<1> DEFINE n == Len(open)
           ended == Last(open)
           item == [kind |-> "element", name |-> ended.tag]
           s == Front(open)
<1>1. /\ UNCHANGED <<validation_stack, element_stack>>
      /\ pc \in {"content", "empty_tag"} /\ pc' \in {"closing", "failed"}
      /\ open' = Note(s, item)
      /\ event'.element = ended
  BY DEF EmptyTag, EndTag, end_element, ReturnsTo, fail, Called
<1>2. SUFFICES ASSUME pc' = "closing" PROVE Closing'
  BY <1>1 DEF ContentInv
<1>3. /\ open \in Seq(OpenElements) /\ validation_stack \in Seq(Frames)
      /\ n \in Nat /\ Len(validation_stack) = n
      /\ DOMAIN open = 1..n /\ open # <<>> /\ validation_stack # <<>>
  BY <1>1, ContentTypes DEF InElement
<1>4. n \in Nat \ {0} /\ ended = open[n] /\ ended \in OpenElements
  BY <1>3, PopFacts
<1>5. /\ s \in Seq(OpenElements) /\ Len(s) = n - 1 /\ \A i \in 1..(n - 1) : s[i] = open[i]
  BY <1>3, PopFacts
<1>6. Last(validation_stack) = validation_stack[n]
  BY <1>3, PopFacts
<1>7. \A i \in 1..n : Records(validation_stack[i], open[i])
  BY <1>1, <1>3 DEF ContentInv
<1>8. validation_stack[n].name = ended.tag
  <2>1. n \in DOMAIN element_stack /\ n \in DOMAIN open
    <3>1. element_stack \in Seq(RawNames) /\ Len(element_stack) = n
      BY <1>1, <1>3 DEF IInv, TypeOK, StacksAgree
    <3> QED BY <1>3, <1>4, <3>1, LenProperties
  <2> QED BY <1>1, <1>4, <2>1 DEF IInv, StacksAgree
<1>9. item \in Items
  BY <1>4 DEF Items, OpenElements
<1>10. item.kind = "element" /\ item.name = validation_stack[n].name
  BY <1>8
<1> HIDE DEF item, s, ended
<1>11. /\ Note(s, item) \in Seq(OpenElements) /\ Len(Note(s, item)) = n - 1
       /\ \A i \in 1..(n - 1) :
             Note(s, item)[i] = IF i = n - 1 THEN Noted(open[i], item) ELSE open[i]
  <2>1. /\ Note(s, item) \in Seq(OpenElements) /\ Len(Note(s, item)) = Len(s)
        /\ \A i \in 1..Len(s) :
              Note(s, item)[i] = IF i = Len(s) THEN Noted(s[i], item) ELSE s[i]
    BY <1>5, <1>9, NoteFacts
  <2>2. Len(s) = n - 1 /\ \A i \in 1..(n - 1) : s[i] = open[i]
    BY <1>5
  <2> HIDE DEF n
  <2>3. \A i \in 1..(n - 1) :
           Note(s, item)[i] = IF i = n - 1 THEN Noted(open[i], item) ELSE open[i]
    <3> TAKE i \in 1..(n - 1)
    <3>1. Note(s, item)[i] = IF i = n - 1 THEN Noted(s[i], item) ELSE s[i]
      BY <2>1, <2>2
    <3> QED BY <2>2, <3>1
  <2> QED BY <2>1, <2>2, <2>3
<1>12. DOMAIN open' = 1..(n - 1) /\ Len(open') = n - 1
  BY <1>1, <1>11, LenProperties
<1>13. \A i \in DOMAIN open' :
          IF i = Len(open')
          THEN RecordsBut(validation_stack[i], open'[i], validation_stack[n].name)
          ELSE Records(validation_stack[i], open'[i])
  <2> SUFFICES ASSUME NEW i \in 1..(n - 1)
               PROVE  IF i = n - 1
                      THEN RecordsBut(validation_stack[i], open'[i], validation_stack[n].name)
                      ELSE Records(validation_stack[i], open'[i])
    BY <1>12
  <2>1. i \in 1..n /\ open[i] \in OpenElements
    BY <1>3, <1>4, ElementOfSeq
  <2>2. CASE i # n - 1
    BY <1>1, <1>7, <1>11, <2>1, <2>2
  <2>3. CASE i = n - 1
    <3>1. /\ open'[i].children = Append(open[i].children, validation_stack[n].name)
          /\ open'[i].text = open[i].text
      <4> DEFINE noted == Noted(open[i], item)
      <4>1. noted.children = Append(open[i].children, item.name) /\ noted.text = open[i].text
        BY <1>9, <1>10, <2>1, NotedFacts
      <4>2. open'[i] = noted
        BY <1>1, <1>11, <2>3
      <4> HIDE DEF noted
      <4> QED BY <1>10, <4>1, <4>2
    <3>2. Records(validation_stack[i], open[i])
      BY <1>7, <2>1
    <3>3. RecordsBut(validation_stack[i], open'[i], validation_stack[n].name)
      BY <3>1, <3>2 DEF Records, RecordsBut, HasText
    <3> QED BY <2>3, <3>3
  <2> QED BY <2>2, <2>3
<1>14. n \in 1..n
  BY <1>4
<1>15. event'.element.tag = validation_stack[n].name
       /\ Records(validation_stack[n], event'.element)
  BY <1>1, <1>4, <1>7, <1>8, <1>14
<1> QED BY <1>1, <1>6, <1>13, <1>15 DEF Closing

\* Text and CDATA: only non-blank text is a frame's business.
LEMMA TextContent ==
    ASSUME IInv, IInv', ContentInv,
           parse_cdata \/ \E class \in {"empty", "blank", "nonblank"} : parse_text(class)
    PROVE  ContentInv'
<1> USE DEF stacks, handler
<1> DEFINE n == Len(open)
<1>1. pc = "content" /\ pc' \in {"content", "failed"}
  BY DEF parse_cdata, parse_text, content_callback, ReturnsTo, fail
<1>2. SUFFICES ASSUME pc' = "content"
               PROVE  \A i \in DOMAIN open' : Records(validation_stack'[i], open'[i])
  BY <1>1 DEF ContentInv
<1>3. /\ open \in Seq(OpenElements) /\ validation_stack \in Seq(Frames)
      /\ n \in Nat /\ Len(validation_stack) = n
      /\ DOMAIN open = 1..n /\ open # <<>> /\ validation_stack # <<>>
  BY <1>1, ContentTypes DEF InElement
<1>4. \A i \in 1..n : Records(validation_stack[i], open[i])
  BY <1>1, <1>3 DEF ContentInv
<1>5. ASSUME NEW k \in TextKinds, open' = Note(open, [kind |-> k, name |-> Plain("")])
      PROVE  /\ DOMAIN open' = 1..n
             /\ \A i \in 1..n : /\ open'[i].children = open[i].children
                                /\ open'[i].text = IF i = n THEN open[i].text \cup {k}
                                                   ELSE open[i].text
  <2> DEFINE item == [kind |-> k, name |-> Plain("")]
  <2>1. item \in Items /\ item.kind = k /\ k # "element"
    BY DEF Items, TextKinds
  <2> HIDE DEF item
  <2>2. /\ Note(open, item) \in Seq(OpenElements) /\ Len(Note(open, item)) = n
        /\ \A i \in 1..n : Note(open, item)[i] = IF i = n THEN Noted(open[i], item) ELSE open[i]
    BY <1>3, <2>1, NoteFacts
  <2>3. open' = Note(open, item)
    BY <1>5 DEF item
  <2>4. DOMAIN open' = 1..n
    BY <2>2, <2>3, LenProperties
  <2>5. \A i \in 1..n : /\ open'[i].children = open[i].children
                        /\ open'[i].text = IF i = n THEN open[i].text \cup {k} ELSE open[i].text
    <3> TAKE i \in 1..n
    <3>1. open[i] \in OpenElements
      BY <1>3, ElementOfSeq
    <3> DEFINE noted == Noted(open[i], item)
    <3>2. noted.children = open[i].children /\ noted.text = open[i].text \cup {k}
      BY <2>1, <3>1, NotedFacts
    <3>3. open'[i] = IF i = n THEN noted ELSE open[i]
      BY <2>2, <2>3
    <3> HIDE DEF noted
    <3> QED BY <3>2, <3>3
  <2> QED BY <2>4, <2>5
<1>6. CASE parse_cdata
  <2>1. open' = Note(open, [kind |-> "cdata", name |-> Plain("")]) /\ UNCHANGED validation_stack
    BY <1>6 DEF parse_cdata, content_callback
  <2> QED BY <1>4, <1>5, <2>1 DEF Records, HasText, TextKinds
<1>7. ASSUME NEW class \in {"empty", "blank", "nonblank"}, parse_text(class)
      PROVE  \A i \in DOMAIN open' : Records(validation_stack'[i], open'[i])
  <2>1. CASE class = "empty"
    <3>1. UNCHANGED <<open, validation_stack>>
      BY <1>7, <2>1 DEF parse_text
    <3> QED BY <1>3, <1>4, <3>1
  <2>2. CASE class = "blank"
    <3>1. /\ open' = Note(open, [kind |-> "blank", name |-> Plain("")])
          /\ UNCHANGED validation_stack
      BY <1>7, <2>2 DEF parse_text, content_callback
    <3> QED BY <1>4, <1>5, <3>1 DEF Records, HasText, TextKinds
  <2>3. CASE class = "nonblank"
    <3>1. /\ open' = Note(open, [kind |-> "nonblank", name |-> Plain("")])
          /\ validation_stack' = [validation_stack EXCEPT ![n].has_non_whitespace_text = TRUE]
      BY <1>3, <1>7, <2>3 DEF parse_text, content_callback
    <3>2. /\ DOMAIN open' = 1..n
          /\ \A i \in 1..n : /\ open'[i].children = open[i].children
                             /\ open'[i].text = IF i = n THEN open[i].text \cup {"nonblank"}
                                                ELSE open[i].text
      BY <1>5, <3>1 DEF TextKinds
    <3>3. \A i \in 1..n :
             /\ validation_stack'[i].child_elements = validation_stack[i].child_elements
             /\ i = n => validation_stack'[i].has_non_whitespace_text = TRUE
             /\ i # n => validation_stack'[i] = validation_stack[i]
      <4> TAKE i \in 1..n
      <4>1. /\ i \in DOMAIN validation_stack /\ n \in DOMAIN validation_stack
            /\ validation_stack[i] \in Frames
        BY <1>3, LenProperties, ElementOfSeq
      <4> QED BY <3>1, <4>1 DEF Frames
    <3> SUFFICES ASSUME NEW i \in 1..n PROVE Records(validation_stack'[i], open'[i])
      BY <3>2
    <3>4. Records(validation_stack[i], open[i])
      BY <1>4
    <3>5. CASE i = n
      BY <3>2, <3>3, <3>4, <3>5 DEF Records, HasText
    <3>6. CASE i # n
      BY <3>2, <3>3, <3>4, <3>6 DEF Records, HasText
    <3> QED BY <3>5, <3>6
  <2> QED BY <2>1, <2>2, <2>3
<1> QED BY <1>6, <1>7

\* The child's name reaches the frame of its parent when the child is valid.
LEMMA FinishContent ==
    ASSUME IInv, IInv', ContentInv, FinishElement
    PROVE  ContentInv'
<1> DEFINE n == Len(open)
           frame == Last(validation_stack)
           outer == Front(validation_stack)
<1>1. pc = "closing" /\ open' = open /\ pc' \in {"content", "after_element", "failed"}
  BY DEF FinishElement, handler, NotRecovered, fail
<1>2. SUFFICES ASSUME pc' = "content"
               PROVE  \A i \in DOMAIN open' : Records(validation_stack'[i], open'[i])
  BY <1>1 DEF ContentInv
<1>3. PopFrame(frame, outer)
  BY <1>2 DEF FinishElement, NotRecovered, fail
<1>4. /\ open \in Seq(OpenElements) /\ validation_stack \in Seq(Frames)
      /\ n \in Nat /\ Len(validation_stack) = n + 1 /\ DOMAIN open = 1..n
      /\ validation_stack # <<>>
  BY <1>1, ContentTypes DEF InElement
<1>5. /\ frame \in Frames /\ outer \in Seq(Frames) /\ Len(outer) = n
      /\ \A i \in 1..n : outer[i] = validation_stack[i]
  BY <1>4, PopFacts
<1>6. frame.name \in RawNames
  BY <1>5 DEF Frames
<1>7. Closing
  BY <1>1 DEF ContentInv
<1>8. \A i \in 1..n : IF i = n THEN RecordsBut(outer[i], open[i], frame.name)
                      ELSE Records(outer[i], open[i])
  BY <1>4, <1>5, <1>7 DEF Closing
<1> HIDE DEF frame, outer
<1>9. CASE outer = <<>>
  <2>1. n = 0
    BY <1>5, <1>9, EmptySeq
  <2> QED BY <1>1, <1>4, <2>1
<1>10. CASE outer # <<>>
  <2>1. validation_stack' = [outer EXCEPT ![Len(outer)].child_elements = Append(@, frame.name)]
    BY <1>3, <1>10 DEF PopFrame
  <2>2. \A i \in 1..n :
           /\ validation_stack'[i].has_non_whitespace_text = outer[i].has_non_whitespace_text
           /\ validation_stack'[i].child_elements =
                 IF i = n THEN Append(outer[i].child_elements, frame.name)
                 ELSE outer[i].child_elements
    <3> DEFINE r == [outer EXCEPT ![Len(outer)].child_elements = Append(@, frame.name)]
    <3>1. \A i \in 1..Len(outer) :
             /\ r[i].has_non_whitespace_text = outer[i].has_non_whitespace_text
             /\ r[i].child_elements = IF i = Len(outer)
                                     THEN Append(outer[i].child_elements, frame.name)
                                     ELSE outer[i].child_elements
      BY <1>5, <1>6, <1>10, FrameFacts
    <3>2. validation_stack' = r
      BY <2>1
    <3> HIDE DEF r
    <3> QED BY <1>5, <3>1, <3>2
  <2> SUFFICES ASSUME NEW i \in 1..n PROVE Records(validation_stack'[i], open'[i])
    BY <1>1, <1>4
  <2>3. CASE i = n
    BY <1>1, <1>8, <2>2, <2>3 DEF Records, RecordsBut
  <2>4. CASE i # n
    BY <1>1, <1>8, <2>2, <2>4 DEF Records
  <2> QED BY <2>3, <2>4
<1> QED BY <1>9, <1>10

\* Every other step ends the parse or leaves content alone.
LEMMA ContentSteps == IInv /\ IInv' /\ ContentInv /\ [Next]_vars => ContentInv'
<1> SUFFICES ASSUME IInv, IInv', ContentInv, [Next]_vars PROVE ContentInv'
  OBVIOUS
<1> USE DEF stacks, handler
<1>1. CASE \/ DecodeFails \/ parse_xml_declaration_if_present \/ parse_doctype_if_present
           \/ TagTooDeep \/ TagAttributesRefused \/ TagNamesRefused \/ MismatchedEndTag
           \/ ExtraContent \/ Truncated \/ LexicalFailure
  <2>1. pc' \in {"failed", "before_doctype", "before_element"}
    BY <1>1 DEF DecodeFails, parse_xml_declaration_if_present, parse_doctype_if_present,
         TagTooDeep, TagAttributesRefused, TagNamesRefused, MismatchedEndTag, ExtraContent,
         Truncated, LexicalFailure, fail
  <2> QED BY <2>1 DEF ContentInv
<1>2. CASE StartDocument \/ EndDocument
  <2>1. pc' \in {"failed", "xml_declaration", "done"}
    BY <1>2 DEF StartDocument, EndDocument, plain_callback, ReturnsTo, fail
  <2> QED BY <2>1 DEF ContentInv
<1>3. CASE parse_misc
  <2>1. /\ UNCHANGED <<open, validation_stack>>
        /\ pc \in Reading /\ pc' \in {"failed", "before_doctype", pc}
    BY <1>3 DEF parse_misc, plain_callback, ReturnsTo, fail
  <2> QED BY <2>1 DEF ContentInv, Reading, Prolog
<1>4. CASE UNCHANGED vars
  BY <1>4 DEF vars, ContentInv, Closing
<1> QED BY <1>1, <1>2, <1>3, <1>4, StartTagContent, EndTagContent, TextContent, FinishContent
    DEF Next

\* The invariants together.
LEMMA ContentAlways == Spec => [](IInv /\ ContentInv)
<1>1. Init => IInv /\ ContentInv
  BY InitIInv DEF Init, ContentInv
<1>2. IInv /\ ContentInv /\ [Next]_vars => IInv' /\ ContentInv'
  BY NextIInv, ContentSteps
<1> QED BY <1>1, <1>2, PTL DEF Spec

\* While content is read, each validation frame holds exactly the children
\* the handler saw end, in order, and whether it saw non-blank characters.
THEOREM FramesAlwaysHoldContent == Spec => []FramesHoldDeliveredContent
<1>1. ContentInv => FramesHoldDeliveredContent
  BY DEF ContentInv, FramesHoldDeliveredContent
<1> QED BY <1>1, ContentAlways, PTL

\* A frame is found to have exactly the faults of the element it records.
LEMMA VerdictFacts ==
    ASSUME IInv, NEW frame \in Frames, NEW outer, NEW e, NEW is_root \in BOOLEAN,
           is_root <=> outer = <<>>, e.tag = frame.name, Records(frame, e)
    PROVE  validate_element(frame, outer) = Faults(e, is_root, {"nonblank"})
<1>1. CASE ~Validating
  BY <1>1 DEF Validating, validate_element, Faults
<1>2. CASE Validating
  <2>1. validate_element(frame, outer) = RootErrors(frame, outer) + ModelErrors(frame)
    BY <1>2 DEF Validating, validate_element
  <2>2. RootErrors(frame, outer) = IF RightRoot(e, is_root) THEN 0 ELSE 1
    BY DEF RootErrors, RightRoot
  <2>3. ASSUME ModelErrors(frame) = IF FitsModel(e, {"nonblank"}) THEN 0 ELSE 1
        PROVE  validate_element(frame, outer) = Faults(e, is_root, {"nonblank"})
    BY <1>2, <2>1, <2>2, <2>3 DEF Faults, Conforms
  <2>4. CASE e.tag \notin DOMAIN dtd.elements
    <3>1. ModelErrors(frame) = 1 /\ ~FitsModel(e, {"nonblank"})
      BY <2>4 DEF ModelErrors, FitsModel
    <3> QED BY <2>3, <3>1
  <2>5. CASE e.tag \in DOMAIN dtd.elements
    <3> DEFINE model == dtd.elements[e.tag]
               bad == CASE model.kind = "Any"      -> FALSE
                        [] model.kind = "Empty"    -> \/ frame.child_elements # <<>>
                                                      \/ frame.has_non_whitespace_text
                        [] model.kind = "Pcdata"   -> frame.child_elements # <<>>
                        [] model.kind = "Children" -> \/ frame.child_elements # model.children
                                                      \/ frame.has_non_whitespace_text
               fits == CASE model.kind = "Any"      -> TRUE
                         [] model.kind = "Empty"    -> e.children = <<>> /\ ~HasText(e, {"nonblank"})
                         [] model.kind = "Pcdata"   -> e.children = <<>>
                         [] model.kind = "Children" ->
                               e.children = model.children /\ ~HasText(e, {"nonblank"})
    <3>1. model.kind \in {"Any", "Empty", "Pcdata", "Children"}
      <4>1. dtd \in Doctypes
        <5>1. dtd \in Doctypes \cup {NoDoctype}
          BY DEF IInv, TypeOK
        <5>2. dtd # NoDoctype
          <6>1. NoDoctype.has_doctype = FALSE
            BY DEF NoDoctype
          <6>2. dtd.has_doctype
            BY <1>2 DEF Validating
          <6> QED BY <6>1, <6>2, Zenon
        <5> QED BY <5>1, <5>2
      <4> QED BY <2>5, <4>1, DoctypesAssumption
    <3>2. ModelErrors(frame) = IF bad THEN 1 ELSE 0
      BY <2>5 DEF ModelErrors
    <3>3. FitsModel(e, {"nonblank"}) <=> fits
      BY <2>5 DEF FitsModel
    <3>4. fits <=> ~bad
      <4>1. /\ frame.child_elements = e.children
            /\ frame.has_non_whitespace_text <=> HasText(e, {"nonblank"})
        BY DEF Records
      <4>2. CASE model.kind = "Any"
        BY <4>2
      <4>3. CASE model.kind = "Empty"
        BY <4>1, <4>3
      <4>4. CASE model.kind = "Pcdata"
        BY <4>1, <4>4
      <4>5. CASE model.kind = "Children"
        BY <4>1, <4>5
      <4> QED BY <3>1, <4>2, <4>3, <4>4, <4>5
    <3> HIDE DEF bad, fits
    <3> QED BY <2>3, <3>2, <3>3, <3>4
  <2> QED BY <2>4, <2>5
<1> QED BY <1>1, <1>2

\* As an element is finished, each fault that DTD validation finds in what
\* the handler saw of it is reported exactly once, or the element is refused.
THEOREM VerdictsAlwaysRight == Spec => ReportedIffNonconforming
<1> DEFINE faults == Faults(event.element, Len(element_stack) = 1, {"nonblank"})
           Right ==
             \/ reports' = reports + faults /\ UNCHANGED error
             \/ faults > 0 /\ UNCHANGED reports /\ error' = "Validity"
             \/ reports' \in (reports + 1)..(reports + faults) /\ error' = "callback"
<1>1. IInv /\ ContentInv /\ [Next]_vars => [pc = "closing" => Right]_vars
  <2> SUFFICES ASSUME IInv, ContentInv, Next, pc = "closing" PROVE Right
    OBVIOUS
  <2>1. FinishElement
    BY DEF Next, DecodeFails, StartDocument, parse_xml_declaration_if_present, parse_misc,
       parse_doctype_if_present, TagTooDeep, TagAttributesRefused, TagNamesRefused, StartElement,
       EmptyTag, EndTag, MismatchedEndTag, parse_text, parse_cdata, EndDocument, ExtraContent,
       Truncated, LexicalFailure, AtStartTag, Reading, Prolog
  <2> DEFINE frame == Last(validation_stack)
             outer == Front(validation_stack)
             n == validate_element(frame, outer)
             is_root == Len(element_stack) = 1
  <2>2. /\ Recovered(n) /\ UNCHANGED error
        \/ NotRecovered(n)
    BY <2>1 DEF FinishElement
  <2>3. /\ frame \in Frames
        /\ is_root <=> outer = <<>>
    <3>1. validation_stack \in Seq(Frames) /\ validation_stack # <<>>
      BY ContentTypes DEF InElement
    <3>2. Len(validation_stack) = Len(element_stack)
      BY DEF IInv, StacksAgree
    <3> QED BY <3>1, <3>2, PopFacts
  <2>4. event.element.tag = frame.name /\ Records(frame, event.element)
    BY DEF ContentInv, Closing
  <2>5. n = faults
    <3>1. is_root \in BOOLEAN
      OBVIOUS
    <3> HIDE DEF frame, outer, is_root
    <3>2. validate_element(frame, outer) = Faults(event.element, is_root, {"nonblank"})
      BY <2>3, <2>4, <3>1, VerdictFacts
    <3> QED BY <3>2 DEF frame, outer, is_root
  <2>6. reports \in Nat /\ n \in Nat
    BY ValidateType DEF IInv, TypeOK
  <2> HIDE DEF n, faults
  <2>7. CASE Recovered(n) /\ UNCHANGED error
    BY <2>5, <2>7 DEF Recovered
  <2>8. CASE NotRecovered(n)
    <3>1. CASE n > 0 /\ fail("Validity") /\ UNCHANGED reports
      BY <2>5, <3>1 DEF fail
    <3>2. CASE fail("callback") /\ \E k \in 1..n : reports' = reports + k
      <4>1. PICK k \in 1..n : reports' = reports + k
        BY <3>2
      <4>2. reports' \in (reports + 1)..(reports + n)
        BY <2>6, <4>1
      <4> QED BY <2>5, <3>2, <4>2 DEF fail
    <3> QED BY <2>8, <3>1, <3>2 DEF NotRecovered
  <2> QED BY <2>2, <2>7, <2>8
<1> QED BY <1>1, ContentAlways, PTL DEF Spec, ReportedIffNonconforming
=============================================================================
