-------------------------- MODULE DomBuilderProofs --------------------------
(***************************************************************************)
(* Proofs about DomBuilder: the builder only uses the operations of        *)
(* DomTree, so the invariants proved there are those of the documents it   *)
(* builds; it only receives what SaxEventStream allows; and of the two     *)
(* together, append_child has nothing to refuse, nothing leaks, and the    *)
(* nodes are in the document in the order of their events.                 *)
(***************************************************************************)
EXTENDS DomBuilder, SequenceLemmas

Tree == INSTANCE DomTreeProofs

-----------------------------------------------------------------------------
(* The inductive invariant.                                                 *)

\* The state of the event stream, as SaxEventStream leaves it.
StreamState ==
    /\ phase \in {"silent", "document", "ended"}
    /\ path \in Seq(Names)
    /\ rooted \in BOOLEAN /\ parsing \in BOOLEAN
    /\ path # <<>> => rooted = TRUE
    /\ phase = "silent" => rooted = FALSE
    /\ phase = "ended" => path = <<>>

\* Which documents there are tells how far parse() has come.
Lifetimes ==
    /\ alive \subseteq {document, result}
    /\ phase = "silent" => element_stack = <<>> /\ pending = None
    /\ result \in alive => phase = "ended" /\ pending = None
    /\ document \notin alive => phase = "silent" \/ result \in alive \/ parsing = FALSE

\* The elements open for the stream: the one about to be appended is.
Open == IF pending # None /\ type[pending] = "Element" THEN Append(element_stack, pending)
        ELSE element_stack

OpenIsPath ==
    /\ Len(Open) = Len(path)
    /\ \A i \in 1..Len(Open) : qualified_name[Open[i]] = path[i]

ParentAt(i) == IF i = 1 THEN document ELSE element_stack[i - 1]

\* Each open element hangs from the one before it, in the builder's document.
StackIsLinked ==
    \A i \in 1..Len(element_stack) :
        /\ parent[element_stack[i]] = ParentAt(i)
        /\ owner[element_stack[i]] = document

\* A node not yet appended is in the builder's document and linked to nothing.
PendingIsDetached ==
    pending # None =>
        /\ owner[pending] = document
        /\ parent[pending] = None
        /\ \A x \in Tree!Objects : parent[x] # pending

\* The document has no element before the stream's first one is appended.
RootIsFirst ==
    Tree!document_elements(document) # {} =>
        /\ rooted = TRUE
        /\ ~(pending # None /\ type[pending] = "Element" /\ element_stack = <<>>)

BuilderInv ==
    /\ Tree!TreeInv
    /\ TypeOK
    /\ qualified_name \in [Nodes -> Names \cup {NoName}]
    /\ StreamState
    /\ Lifetimes
    /\ Building => OpenIsPath /\ StackIsLinked /\ PendingIsDetached /\ RootIsFirst
-----------------------------------------------------------------------------
(* The tree of DomBuilder is the tree of DomTree's proofs.                  *)

\* DomTree's assumptions hold of the builder's documents and nodes.
LEMMA TreeAssumption == Tree!ObjectsAssumption /\ Tree!NodesAssumption
<1>1. Tree!ObjectsAssumption
  BY BuilderAssumption DEF Tree!ObjectsAssumption, Tree!Objects
<1>2. Tree!NodesAssumption
  BY BuilderAssumption DEF Tree!NodesAssumption, IsFiniteSet, Tree!IsFiniteSet
<1> QED BY <1>1, <1>2

\* The two instances of DomTree are the same: in their sets of objects.
LEMMA SameObjects == Dom!Objects = Tree!Objects /\ Dom!Stored = Tree!Stored /\ Dom!Live = Tree!Live
BY DEF Dom!Objects, Tree!Objects, Dom!Live, Tree!Live, Dom!Stored, Tree!Stored

\* The same for removal from a list of children.
LEMMA SameRemoveFirst == \A s, x : Dom!RemoveFirst(s, x) = Tree!RemoveFirst(s, x)
BY DEF Dom!RemoveFirst, Tree!RemoveFirst, Dom!RemoveAt, Tree!RemoveAt, Dom!SelectInSeq,
       Tree!SelectInSeq, Dom!Min, Tree!Min

\* The same for the checks of append_child.
LEMMA SameCanAppend == \A p, c : Dom!CanAppend(p, c) <=> Tree!CanAppend(p, c)
<1>1. \A x : Dom!AncestorsOf(x) = Tree!AncestorsOf(x)
  BY DEF Dom!AncestorsOf, Tree!AncestorsOf, Dom!ClosedAbove, Tree!ClosedAbove, Dom!Objects,
         Tree!Objects
<1>2. \A x : Dom!document_elements(x) = Tree!document_elements(x)
  BY DEF Dom!document_elements, Tree!document_elements, Dom!Range, Tree!Range
<1> QED BY <1>1, <1>2 DEF Dom!CanAppend, Tree!CanAppend

\* The same for the initial forest.
LEMMA SameInit == Dom!Init <=> Tree!Init
BY DEF Dom!Init, Tree!Init, Dom!Objects, Tree!Objects

\* The same for the type invariant.
LEMMA SameTypes == Dom!TypeOK <=> Tree!TypeOK
BY DEF Dom!TypeOK, Tree!TypeOK, Dom!Objects, Tree!Objects, Dom!NodeTypes, Tree!NodeTypes

\* The same for constructing a document.
LEMMA SameConstruct == \A d : Dom!Construct(d) <=> Tree!Construct(d)
BY DEF Dom!Construct, Tree!Construct

\* The same for destroying one.
LEMMA SameDestroy == \A d : Dom!Destroy(d) <=> Tree!Destroy(d)
BY DEF Dom!Destroy, Tree!Destroy, Dom!Objects, Tree!Objects

\* The same for make_node.
LEMMA SameMakeNode == \A d, n, t : Dom!make_node(d, n, t) <=> Tree!make_node(d, n, t)
BY DEF Dom!make_node, Tree!make_node, Dom!Stored, Tree!Stored

\* The same for append_child.
LEMMA SameAppend == \A p, c : Dom!append_child(p, c) <=> Tree!append_child(p, c)
<1>1. \A c : Dom!detached(c) = Tree!detached(c)
  BY SameRemoveFirst DEF Dom!detached, Tree!detached
<1>2. \A kids, p, c : Dom!inserted(kids, p, c) = Tree!inserted(kids, p, c)
  BY DEF Dom!inserted, Tree!inserted
<1> QED BY <1>1, <1>2, SameObjects, SameCanAppend DEF Dom!append_child, Tree!append_child

\* The same for moving a document out.
LEMMA SameMoveConstruct == \A d, e : Dom!MoveConstruct(d, e) <=> Tree!MoveConstruct(d, e)
<1>1. \A x : Dom!AncestorsOf(x) = Tree!AncestorsOf(x)
  BY DEF Dom!AncestorsOf, Tree!AncestorsOf, Dom!ClosedAbove, Tree!ClosedAbove, Dom!Objects,
         Tree!Objects
<1>2. \A d, e, x : Dom!update_owner(d, e, x) = Tree!update_owner(d, e, x)
  BY <1>1 DEF Dom!update_owner, Tree!update_owner
<1>3. \A d, e, gone, x : Dom!adopt(d, e, gone, x) = Tree!adopt(d, e, gone, x)
  BY DEF Dom!adopt, Tree!adopt, Dom!Range, Tree!Range
<1>4. \A d, e : Dom!TakeOver(d, e, {}) <=> Tree!TakeOver(d, e, {})
  BY <1>2, <1>3, SameObjects DEF Dom!TakeOver, Tree!TakeOver
<1> QED BY <1>4 DEF Dom!MoveConstruct, Tree!MoveConstruct
\* The same for the traversal.
LEMMA SameDepthFirst == \A d : Dom!depth_first(d) = Tree!depth_first(d)
<1>1. Dom!Live = Tree!Live
  BY SameObjects
<1>2. \A s : Dom!FlattenSeq(s) = Tree!FlattenSeq(s)
  BY DEF Dom!FlattenSeq, Tree!FlattenSeq
<1>3. \A S : Dom!Cardinality(S) = Tree!Cardinality(S)
  BY DEF Dom!Cardinality, Tree!Cardinality
<1>4. \A limit : Dom!collect_depth_first(limit) = Tree!collect_depth_first(limit)
  BY <1>1, <1>2 DEF Dom!collect_depth_first, Tree!collect_depth_first
<1> QED BY <1>3, <1>4 DEF Dom!depth_first, Tree!depth_first
-----------------------------------------------------------------------------
(* What a callback that makes a node does.                                  *)

\* The node is refused, or cannot be made, and the parse ends.
Refused ==
    /\ Listening
    /\ parsing' = FALSE
    /\ \/ UNCHANGED node_count
       \/ ensure_node_available /\ node_count' = node_count + 1
    /\ UNCHANGED <<tree, element_stack, pending, created, qualified_name>>

\* The node n is made, and waits to be appended.
Made(n, t, name) ==
    /\ Listening
    /\ parsing' = TRUE
    /\ ensure_node_available
    /\ node_count' = node_count + 1
    /\ Tree!make_node(document, n, t)
    /\ pending' = n
    /\ created' = Append(created, n)
    /\ qualified_name' = [qualified_name EXCEPT ![n] = name]
    /\ UNCHANGED element_stack

\* What start_element may do.
LEMMA StartElementCases ==
    start_element =>
        /\ Sax!StartElement
        /\ Refused \/ \E n \in Nodes : Made(n, "Element", event'.name)
BY SameMakeNode DEF start_element, NodeCallback, Refused, Made, builder

\* What characters, cdata, comment and processing_instruction may do.
LEMMA LeafCases ==
    leaf =>
        /\ Sax!CharacterData \/ Sax!Misc
        /\ Refused \/ \E n \in Nodes : Made(n, "Leaf", NoName)
BY SameMakeNode DEF leaf, NodeCallback, Refused, Made, builder

-----------------------------------------------------------------------------
(* The builder as a client of the tree, and of the event stream.            *)

\* Every step of the builder is an operation of the tree, or leaves it alone.
LEMMA TreeStep == Tree!TypeOK /\ [Next]_vars => [Tree!Next]_(Tree!vars)
<1> SUFFICES ASSUME Tree!TypeOK, [Next]_vars PROVE Tree!Next \/ UNCHANGED Tree!vars
  BY Zenon
<1> USE DEF tree, Tree!vars
<1>1. document \in Documents /\ result \in Documents
  BY BuilderAssumption
<1>2. ASSUME NEW n \in Nodes, NEW t \in {"Element", "Leaf"}, NEW name, Made(n, t, name)
      PROVE  Tree!Next
  BY <1>1, <1>2 DEF Made, Tree!Next, Tree!NodeTypes
<1>3. ASSUME NEW p, NEW c, Dom!append_child(p, c) PROVE Tree!Next
  <2>1. Tree!append_child(p, c)
    BY <1>3, SameAppend
  <2>2. p \in Tree!Live /\ c \in Tree!Live
    BY <2>1 DEF Tree!append_child
  <2>3. Tree!Live \subseteq Tree!Objects
    BY DEF Tree!Live, Tree!Stored, Tree!Objects, Tree!TypeOK
  <2> QED BY <2>1, <2>2, <2>3 DEF Tree!Next
<1>4. CASE Begin
  BY <1>1, <1>4, SameConstruct DEF Begin, Tree!Next
<1>5. CASE start_element
  BY <1>2, <1>5, StartElementCases DEF Refused
<1>6. CASE leaf
  BY <1>2, <1>6, LeafCases DEF Refused
<1>7. CASE append_to_current_parent
  BY <1>3, <1>7 DEF append_to_current_parent
<1>8. CASE callback_throws
  BY <1>3, <1>8 DEF callback_throws
<1>9. CASE end_element \/ ignored \/ parse_throws \/ UNCHANGED vars
  BY <1>9 DEF end_element, ignored, parse_throws, vars
<1>10. CASE return_document
  BY <1>1, <1>10, SameMoveConstruct DEF return_document, Tree!Next
<1>11. CASE destroy_builder
  BY <1>1, <1>11, SameDestroy DEF destroy_builder, Tree!Next
<1> QED BY <1>4, <1>5, <1>6, <1>7, <1>8, <1>9, <1>10, <1>11 DEF Next

\* The steps that are no event leave the stream alone.
LEMMA StreamStep == [Next]_vars => [Sax!Next]_(Sax!vars)
<1> SUFFICES ASSUME [Next]_vars PROVE Sax!Next \/ UNCHANGED Sax!vars
  BY Zenon
<1> USE DEF stream, Sax!vars, Sax!Next
<1>1. CASE start_element
  BY <1>1, StartElementCases
<1>2. CASE leaf
  BY <1>2, LeafCases
<1>3. CASE Begin \/ append_to_current_parent \/ return_document \/ destroy_builder \/ UNCHANGED vars
  BY <1>3 DEF Begin, append_to_current_parent, return_document, destroy_builder, vars
<1>4. CASE callback_throws \/ end_element \/ ignored \/ parse_throws
  BY <1>4 DEF callback_throws, end_element, ignored, parse_throws
<1> QED BY <1>1, <1>2, <1>3, <1>4 DEF Next
-----------------------------------------------------------------------------
(* The invariant, part by part.                                             *)

\* The events keep the state of the stream in order.
LEMMA StreamStateStep == StreamState /\ [Next]_vars => StreamState'
<1> SUFFICES ASSUME StreamState, [Next]_vars PROVE StreamState'
  OBVIOUS
<1>1. Sax!Next \/ UNCHANGED Sax!vars
  BY StreamStep, Zenon
<1> USE DEF StreamState, Sax!Callback
<1>2. CASE Sax!StartDocument
  BY <1>2 DEF Sax!StartDocument
<1>3. CASE Sax!StartElement
  <2>1. PICK n \in Names : path' = Append(path, n)
    BY <1>3 DEF Sax!StartElement
  <2>2. path' \in Seq(Names)
    BY <2>1, PushFacts
  <2> QED BY <1>3, <2>2 DEF Sax!StartElement
<1>4. CASE Sax!EndElement
  <2>1. path' = Front(path) /\ path # <<>>
    BY <1>4 DEF Sax!EndElement, Front
  <2>2. path' \in Seq(Names)
    BY <2>1, PopFacts
  <2> QED BY <1>4, <2>1, <2>2 DEF Sax!EndElement
<1>5. CASE Sax!CharacterData \/ Sax!Misc
  BY <1>5 DEF Sax!CharacterData, Sax!Misc
<1>6. CASE Sax!EndDocument
  BY <1>6 DEF Sax!EndDocument
<1>7. CASE Sax!Abandon
  BY <1>7 DEF Sax!Abandon
<1>8. CASE UNCHANGED Sax!vars
  BY <1>8 DEF Sax!vars
<1> QED BY <1>1, <1>2, <1>3, <1>4, <1>5, <1>6, <1>7, <1>8 DEF Sax!Next

\* Nodes are made inside the document only.
LEMMA InsideTheDocument ==
    ASSUME StreamState, Sax!StartElement \/ Sax!CharacterData \/ Sax!Misc
    PROVE  phase = "document" /\ phase' = "document"
BY DEF StreamState, Sax!StartElement, Sax!CharacterData, Sax!Misc

\* Elements end inside the document too.
LEMMA EndsInsideTheDocument ==
    ASSUME StreamState, Sax!EndElement PROVE phase = "document" /\ phase' = "document"
BY DEF StreamState, Sax!EndElement

\* While a node waits to be appended, the builder has its document.
LEMMA PendingIsBuilding ==
    ASSUME Lifetimes, parsing = TRUE, pending # None PROVE Building
BY DEF Lifetimes, Building

\* Documents are constructed, moved from and destroyed in this order.
LEMMA LifetimesStep == Lifetimes /\ StreamState /\ [Next]_vars => Lifetimes'
<1> SUFFICES ASSUME Lifetimes, StreamState, [Next]_vars PROVE Lifetimes'
  OBVIOUS
<1> USE DEF Lifetimes, stream, tree, builder, Listening
<1>1. document # result
  BY BuilderAssumption
<1>2. CASE Begin
  BY <1>1, <1>2 DEF Begin, Dom!Construct
<1>3. CASE start_element
  <2>1. phase = "document" /\ phase' = "document"
    BY <1>3, StartElementCases, InsideTheDocument
  <2> QED BY <1>3, <2>1, StartElementCases DEF Refused, Made, Tree!make_node
<1>4. CASE leaf
  <2>1. phase = "document" /\ phase' = "document"
    BY <1>4, LeafCases, InsideTheDocument
  <2> QED BY <1>4, <2>1, LeafCases DEF Refused, Made, Tree!make_node
<1>5. CASE append_to_current_parent
  BY <1>5 DEF append_to_current_parent, Dom!append_child
<1>6. CASE callback_throws
  BY <1>6 DEF callback_throws, Dom!append_child, Sax!Abandon
<1>7. CASE end_element
  <2>1. phase = "document" /\ phase' = "document"
    BY <1>7, EndsInsideTheDocument DEF end_element
  <2> QED BY <1>7, <2>1 DEF end_element
<1>8. CASE ignored
  BY <1>8 DEF ignored, Sax!StartDocument, Sax!EndDocument
<1>9. CASE parse_throws
  BY <1>9 DEF parse_throws, Sax!Abandon
<1>10. CASE return_document
  BY <1>1, <1>10 DEF return_document, Dom!MoveConstruct
<1>11. CASE destroy_builder
  BY <1>1, <1>11 DEF destroy_builder, Dom!Destroy
<1>12. CASE UNCHANGED vars
  BY <1>12 DEF vars
<1> QED BY <1>2, <1>3, <1>4, <1>5, <1>6, <1>7, <1>8, <1>9, <1>10, <1>11, <1>12 DEF Next

\* The counter keeps step with the nodes, and below the limit.
LEMMA TypeStep ==
    ASSUME TypeOK, qualified_name \in [Nodes -> Names \cup {NoName}],
           StreamState, StreamState', Dom!TypeOK', [Next]_vars
    PROVE  TypeOK' /\ qualified_name' \in [Nodes -> Names \cup {NoName}]
<1> USE DEF TypeOK, StreamState
<1>1. max_dom_nodes \in Int
  BY BuilderAssumption
<1>2. Len(created) \in Nat
  BY LenProperties
<1>3. CASE UNCHANGED <<parsing, builder>>
  BY <1>3 DEF builder
<1>4. CASE Refused
  BY <1>1, <1>2, <1>4 DEF Refused, ensure_node_available, Listening
<1>5. ASSUME NEW n \in Nodes, NEW t, NEW name \in Names \cup {NoName}, Made(n, t, name)
      PROVE  TypeOK' /\ qualified_name' \in [Nodes -> Names \cup {NoName}]
  <2>1. created' \in Seq(Nodes) /\ Len(created') = Len(created) + 1
    BY <1>5, PushFacts DEF Made
  <2>2. node_count' \in 0..max_dom_nodes /\ node_count' - Len(created') = 0
    BY <1>1, <1>2, <1>5, <2>1 DEF Made, ensure_node_available, Listening
  <2>3. qualified_name' \in [Nodes -> Names \cup {NoName}]
    BY <1>5 DEF Made
  <2> QED BY <1>5, <2>1, <2>2, <2>3 DEF Made
<1>6. CASE start_element
  <2>1. event'.name \in Names
    <3>1. PICK n \in Names : event' = Sax!Event("start_element", n)
      BY <1>6, StartElementCases DEF Sax!StartElement, Sax!Callback
    <3> QED BY <3>1 DEF Sax!Event
  <2> QED BY <1>4, <1>5, <1>6, <2>1, StartElementCases
<1>7. CASE leaf
  BY <1>4, <1>5, <1>7, LeafCases
<1>8. CASE append_to_current_parent
  <2>1. element_stack' \in Seq(Nodes)
    BY <1>8, PushFacts DEF append_to_current_parent
  <2> QED BY <1>8, <2>1 DEF append_to_current_parent, stream
<1>9. CASE callback_throws \/ parse_throws
  BY <1>9 DEF callback_throws, parse_throws, Sax!Abandon, builder
<1>10. CASE end_element
  <2>1. element_stack' \in Seq(Nodes)
    BY <1>10, PopFacts, EmptySeq DEF end_element, popped
  <2> QED BY <1>10, <2>1 DEF end_element, Listening
<1>11. CASE ignored
  BY <1>3, <1>11 DEF ignored, Listening
<1>12. CASE Begin \/ return_document \/ destroy_builder \/ UNCHANGED vars
  BY <1>3, <1>12 DEF Begin, return_document, destroy_builder, vars, stream
<1> QED BY <1>6, <1>7, <1>8, <1>9, <1>10, <1>11, <1>12 DEF Next
-----------------------------------------------------------------------------
(* The stack of open elements.                                              *)

StackInv == OpenIsPath /\ StackIsLinked /\ PendingIsDetached /\ RootIsFirst

\* Making a node moves no other.
LEMMA MadeFacts ==
    ASSUME BuilderInv, Building, StackInv, NEW n \in Nodes, NEW t \in {"Element", "Leaf"}, NEW name,
           Made(n, t, name)
    PROVE  /\ \A i \in 1..Len(element_stack) : element_stack[i] # n
           /\ StackIsLinked'
           /\ PendingIsDetached'
           /\ Tree!document_elements(document)' = Tree!document_elements(document)
<1>1. /\ Tree!TypeOK /\ Tree!LinksAgree /\ Tree!OwnersAgree
      /\ element_stack \in Seq(Nodes)
  BY DEF BuilderInv, Tree!TreeInv, TypeOK
<1>2. /\ document \in Documents /\ document # n /\ document # None /\ None # n
      /\ document \in Tree!Objects /\ n \in Tree!Objects
  BY BuilderAssumption DEF Tree!Objects
<1>3. /\ n \notin Tree!Stored
      /\ type' = [type EXCEPT ![n] = t]
      /\ owner' = [owner EXCEPT ![n] = document]
      /\ parent' = [parent EXCEPT ![n] = None]
      /\ children' = [children EXCEPT ![n] = <<>>]
      /\ element_stack' = element_stack
      /\ pending' = n
  BY DEF Made, Tree!make_node
<1>4. /\ owner[n] = None
      /\ parent[n] = None
      /\ \A x \in Tree!Objects : parent[x] # n
  BY <1>1, <1>3, TreeAssumption, Tree!FreshNodesAreBlank
<1>5. parent' = parent
  BY <1>1, <1>2, <1>3, <1>4 DEF Tree!TypeOK
<1>6. \A x \in Tree!Objects : owner'[x] = IF x = n THEN document ELSE owner[x]
  BY <1>1, <1>3 DEF Tree!TypeOK
<1>7. \A i \in 1..Len(element_stack) : element_stack[i] \in Nodes /\ element_stack[i] \in Tree!Objects
  BY <1>1, ElementOfSeq DEF Tree!Objects
<1>8. \A i \in 1..Len(element_stack) : element_stack[i] # n
  BY <1>2, <1>4 DEF StackInv, StackIsLinked
<1>9. StackIsLinked'
  BY <1>3, <1>5, <1>6, <1>7, <1>8 DEF StackInv, StackIsLinked, ParentAt
<1>10. PendingIsDetached'
  BY <1>2, <1>3, <1>4, <1>5, <1>6 DEF PendingIsDetached
<1>11. Tree!document_elements(document)' = Tree!document_elements(document)
  <2>1. children'[document] = children[document]
    BY <1>1, <1>2, <1>3 DEF Tree!TypeOK
  <2>2. n \notin Tree!Range(children[document])
    BY <1>1, <1>2, <1>4 DEF Tree!LinksAgree
  <2>3. \A m \in Nodes : m # n => type'[m] = type[m]
    BY <1>1, <1>3 DEF Tree!TypeOK
  <2> QED BY <2>1, <2>2, <2>3 DEF Tree!document_elements
<1> QED BY <1>8, <1>9, <1>10, <1>11

\* The builder's first node to come finds it with nothing open.
LEMMA BeginStack == ASSUME BuilderInv, Begin PROVE StackInv'
<1>1. /\ element_stack = <<>> /\ pending = None /\ path = <<>> /\ document \notin alive
      /\ UNCHANGED <<children, type, element_stack, pending, path>>
  BY DEF BuilderInv, Lifetimes, StreamState, Begin, Dom!Construct, stream, builder
<1>2. Len(<<>>) = 0
  BY EmptySeq
<1>3. Open' = <<>>
  BY <1>1 DEF Open
<1>4. OpenIsPath'
  BY <1>1, <1>2, <1>3 DEF OpenIsPath
<1>5. StackIsLinked' /\ PendingIsDetached'
  BY <1>1, <1>2 DEF StackIsLinked, PendingIsDetached
<1>6. document \in Documents
  BY BuilderAssumption
<1>7. Tree!Range(children[document]) = {}
  <2>1. children[document] = <<>>
    BY <1>1, <1>6 DEF BuilderInv, Tree!TreeInv, Tree!OwnersAgree
  <2>2. DOMAIN <<>> = {}
    BY EmptyFacts, <1>2, LenProperties
  <2> QED BY <2>1, <2>2 DEF Tree!Range
<1>8. RootIsFirst'
  BY <1>1, <1>7 DEF RootIsFirst, Tree!document_elements
<1> QED BY <1>4, <1>5, <1>8 DEF StackInv

\* start_element opens one element more, below those of the path.
LEMMA StartElementStack ==
    ASSUME BuilderInv, Building, StackInv, NEW n \in Nodes, Sax!StartElement,
           Made(n, "Element", event'.name)
    PROVE  StackInv'
<1> DEFINE name == event'.name
<1>1. name \in Names /\ path' = Append(path, name) /\ rooted' = TRUE /\ (path = <<>> => rooted = FALSE)
  <2>1. PICK k \in Names : event' = Sax!Event("start_element", k) /\ path' = Append(path, k)
    BY DEF Sax!StartElement, Sax!Callback
  <2>2. name = k
    BY <2>1 DEF Sax!Event
  <2> QED BY <2>1, <2>2 DEF Sax!StartElement, BuilderInv, StreamState
<1>2. /\ element_stack \in Seq(Nodes) /\ path \in Seq(Names) /\ n # None
      /\ qualified_name \in [Nodes -> Names \cup {NoName}]
  BY BuilderAssumption DEF BuilderInv, TypeOK, StreamState
<1>3. /\ pending = None /\ pending' = n /\ element_stack' = element_stack
      /\ qualified_name' = [qualified_name EXCEPT ![n] = name]
      /\ type' = [type EXCEPT ![n] = "Element"]
  BY DEF Made, Listening, Tree!make_node
<1> HIDE DEF name
<1>4. /\ \A i \in 1..Len(element_stack) : element_stack[i] # n
      /\ StackIsLinked'
      /\ PendingIsDetached'
      /\ Tree!document_elements(document)' = Tree!document_elements(document)
  BY MadeFacts
<1>5. type'[n] = "Element"
  BY <1>3 DEF BuilderInv, Tree!TreeInv, Tree!TypeOK
<1>6. Open = element_stack /\ Open' = Append(element_stack, n)
  BY <1>2, <1>3, <1>5 DEF Open
<1>7. Len(element_stack) = Len(path) /\ \A i \in 1..Len(path) : qualified_name[element_stack[i]] = path[i]
  BY <1>6 DEF StackInv, OpenIsPath
<1>8. OpenIsPath'
  <2> DEFINE k == Len(path)
             s == Append(element_stack, n)
             q == Append(path, name)
  <2>1. k \in Nat /\ Len(s) = k + 1 /\ s[k + 1] = n /\ \A i \in 1..k : s[i] = element_stack[i]
    BY <1>2, <1>7, PushFacts, LenProperties
  <2>2. Len(q) = k + 1 /\ q[k + 1] = name /\ \A i \in 1..k : q[i] = path[i]
    BY <1>1, <1>2, PushFacts
  <2>3. \A i \in 1..k : element_stack[i] \in Nodes /\ element_stack[i] # n
    BY <1>2, <1>4, <1>7, ElementOfSeq
  <2> HIDE DEF k, s, q
  <2>4. ASSUME NEW i \in 1..(k + 1) PROVE qualified_name'[s[i]] = q[i]
    <3>1. CASE i = k + 1
      BY <1>2, <1>3, <2>1, <2>2, <3>1
    <3>2. CASE i \in 1..k
      <4>1. qualified_name'[element_stack[i]] = qualified_name[element_stack[i]]
        BY <1>2, <1>3, <2>3, <3>2
      <4>2. qualified_name[element_stack[i]] = path[i]
        BY <1>7, <3>2 DEF k
      <4> QED BY <2>1, <2>2, <3>2, <4>1, <4>2
    <3> QED BY <2>1, <3>1, <3>2
  <2>5. Open' = s /\ path' = q
    BY <1>1, <1>6 DEF s, q
  <2> QED BY <2>1, <2>2, <2>4, <2>5 DEF OpenIsPath
<1>9. RootIsFirst'
  <2>1. ASSUME element_stack = <<>> PROVE Tree!document_elements(document) = {}
    <3>1. Len(path) = 0
      BY <1>7, <2>1, EmptySeq
    <3>2. path = <<>>
      BY <1>2, <3>1, EmptySeq
    <3> QED BY <1>1, <3>2 DEF StackInv, RootIsFirst
  <2> QED BY <1>1, <1>3, <1>4, <2>1 DEF RootIsFirst
<1> QED BY <1>4, <1>8, <1>9 DEF StackInv

\* Other nodes open nothing.
LEMMA LeafStack ==
    ASSUME BuilderInv, Building, StackInv, NEW n \in Nodes, Sax!CharacterData \/ Sax!Misc,
           Made(n, "Leaf", NoName)
    PROVE  StackInv'
<1>1. path' = path /\ rooted' = rooted
  BY DEF Sax!CharacterData, Sax!Misc
<1>2. /\ element_stack \in Seq(Nodes) /\ n # None
      /\ qualified_name \in [Nodes -> Names \cup {NoName}]
  BY BuilderAssumption DEF BuilderInv, TypeOK
<1>3. /\ pending = None /\ pending' = n /\ element_stack' = element_stack
      /\ qualified_name' = [qualified_name EXCEPT ![n] = NoName]
      /\ type' = [type EXCEPT ![n] = "Leaf"]
  BY DEF Made, Listening, Tree!make_node
<1>4. /\ \A i \in 1..Len(element_stack) : element_stack[i] # n
      /\ StackIsLinked'
      /\ PendingIsDetached'
      /\ Tree!document_elements(document)' = Tree!document_elements(document)
  BY MadeFacts
<1>5. type'[n] = "Leaf"
  BY <1>3 DEF BuilderInv, Tree!TreeInv, Tree!TypeOK
<1>6. Open = element_stack /\ Open' = element_stack
  BY <1>2, <1>3, <1>5 DEF Open
<1>7. \A i \in 1..Len(element_stack) : qualified_name'[element_stack[i]] = qualified_name[element_stack[i]]
  BY <1>2, <1>3, <1>4, ElementOfSeq
<1>8. OpenIsPath'
  BY <1>1, <1>6, <1>7 DEF StackInv, OpenIsPath
<1>9. RootIsFirst'
  BY <1>1, <1>3, <1>4, <1>5 DEF StackInv, RootIsFirst
<1> QED BY <1>4, <1>8, <1>9 DEF StackInv

\* Appending puts the pending node under the innermost open element and, if
\* it is an element itself, on the stack.
LEMMA AppendStack ==
    ASSUME BuilderInv, Building, StackInv, append_to_current_parent
    PROVE  StackInv'
<1> DEFINE p == current_parent
           c == pending
           n == Len(element_stack)
<1>1. /\ Tree!TypeOK /\ Tree!LinksAgree
      /\ element_stack \in Seq(Nodes) /\ c \in Nodes /\ n \in Nat
      /\ c \in Tree!Objects /\ None \notin Tree!Objects
  <2>1. Tree!TypeOK /\ Tree!LinksAgree /\ element_stack \in Seq(Nodes) /\ c \in Nodes
    BY DEF BuilderInv, Tree!TreeInv, TypeOK, append_to_current_parent
  <2>2. n \in Nat
    BY <2>1, LenProperties
  <2> QED BY <2>1, <2>2, TreeAssumption DEF Tree!ObjectsAssumption, Tree!Objects
<1>2. /\ c # None /\ owner[c] = document /\ parent[c] = None
  BY DEF append_to_current_parent, StackInv, PendingIsDetached
<1>3. p = ParentAt(n + 1)
  <2>1. element_stack = <<>> <=> n = 0
    BY <1>1, EmptySeq
  <2>2. element_stack = <<>> => n + 1 = 1
    BY <2>1
  <2>3. element_stack # <<>> => n + 1 # 1 /\ (n + 1) - 1 = n
    BY <1>1, <2>1
  <2> QED BY <2>2, <2>3 DEF current_parent, ParentAt, Last
<1>4. /\ parent' = [parent EXCEPT ![c] = p]
      /\ children' = [children EXCEPT ![p] = Append(@, c)]
      /\ UNCHANGED <<owner, type, stream, qualified_name>>
      /\ element_stack' = IF type[c] = "Element" THEN Append(element_stack, c) ELSE element_stack
      /\ pending' = None
      /\ p \in Tree!Objects
  <2>1. Tree!append_child(p, c)
    BY SameAppend DEF append_to_current_parent
  <2>2. Tree!detached(c) = children
    BY <1>2 DEF Tree!detached
  <2>3. p \in Tree!Objects
    BY <1>1, <2>1 DEF Tree!append_child, Tree!Live, Tree!Stored, Tree!Objects, Tree!TypeOK
  <2> QED BY <2>1, <2>2, <2>3 DEF Tree!append_child, Tree!inserted, append_to_current_parent
<1> HIDE DEF p, c, n
<1>5. Open' = Open
  BY <1>2, <1>4 DEF Open, c
<1>6. OpenIsPath'
  BY <1>4, <1>5 DEF StackInv, OpenIsPath, stream
<1>7. \A i \in 1..n : element_stack[i] \in Nodes /\ element_stack[i] # None
  BY <1>1, ElementOfSeq DEF Tree!Objects, n
<1>8. \A i \in 1..n : ParentAt(i) # None
  <2> TAKE i \in 1..n
  <2>1. CASE i = 1
    BY <2>1, TreeAssumption, BuilderAssumption DEF ParentAt, Tree!ObjectsAssumption, Tree!Objects
  <2>2. CASE i # 1
    <3>1. i - 1 \in 1..n
      BY <1>1, <2>2
    <3> QED BY <1>7, <2>2, <3>1 DEF ParentAt
  <2> QED BY <2>1, <2>2
<1>9. \A i \in 1..n : /\ element_stack[i] # c
                      /\ parent'[element_stack[i]] = ParentAt(i)
                      /\ owner'[element_stack[i]] = document
  <2> TAKE i \in 1..n
  <2>1. parent[element_stack[i]] = ParentAt(i) /\ owner[element_stack[i]] = document
    BY DEF StackInv, StackIsLinked, n
  <2>2. element_stack[i] # c
    BY <1>2, <1>8, <2>1
  <2>3. parent'[element_stack[i]] = parent[element_stack[i]]
    BY <1>1, <1>4, <1>7, <2>2 DEF Tree!TypeOK, Tree!Objects
  <2> QED BY <1>4, <2>1, <2>2, <2>3
<1>10. StackIsLinked'
  <2>1. CASE type[c] # "Element"
    <3>1. element_stack' = element_stack
      BY <1>4, <2>1
    <3>2. \A i \in 1..n : ParentAt(i)' = ParentAt(i)
      BY <3>1 DEF ParentAt
    <3> QED BY <1>9, <3>1, <3>2 DEF StackIsLinked, n
  <2>2. CASE type[c] = "Element"
    <3> DEFINE s == Append(element_stack, c)
    <3>1. /\ Len(s) = n + 1 /\ s[n + 1] = c
          /\ \A i \in 1..n : s[i] = element_stack[i]
      BY <1>1, PushFacts DEF n
    <3>2. element_stack' = s
      BY <1>4, <2>2
    <3> HIDE DEF s
    <3>3. \A i \in 1..(n + 1) : ParentAt(i)' = ParentAt(i)
      <4> TAKE i \in 1..(n + 1)
      <4>1. i # 1 => i - 1 \in 1..n
        BY <1>1
      <4> QED BY <3>1, <3>2, <4>1 DEF ParentAt
    <3>4. ASSUME NEW i \in 1..(n + 1)
          PROVE  parent'[s[i]] = ParentAt(i) /\ owner'[s[i]] = document
      <4>1. CASE i = n + 1
        <5>1. parent'[c] = p
          BY <1>1, <1>4 DEF Tree!TypeOK
        <5> QED BY <1>2, <1>3, <1>4, <3>1, <4>1, <5>1
      <4>2. CASE i \in 1..n
        BY <1>9, <3>1, <4>2
      <4> QED BY <1>1, <4>1, <4>2
    <3> QED BY <3>1, <3>2, <3>3, <3>4 DEF StackIsLinked
  <2> QED BY <2>1, <2>2
<1>11. PendingIsDetached'
  BY <1>4 DEF PendingIsDetached
<1>12. RootIsFirst'
  <2>1. CASE p # document
    <3>1. children'[document] = children[document]
      BY <1>1, <1>4, <2>1, BuilderAssumption DEF Tree!TypeOK, Tree!Objects
    <3> QED BY <1>4, <3>1 DEF StackInv, RootIsFirst, Tree!document_elements, stream
  <2>2. CASE p = document /\ type[c] = "Element"
    <3>1. path # <<>>
      <4>1. Open = Append(element_stack, c) /\ Len(Open) = n + 1
        BY <1>1, <1>2, <2>2, PushFacts DEF Open, c, n
      <4>2. Len(path) # 0
        BY <1>1, <4>1 DEF StackInv, OpenIsPath
      <4> QED BY <4>2, EmptySeq
    <3>2. rooted = TRUE
      BY <3>1 DEF BuilderInv, StreamState
    <3> QED BY <1>4, <3>2 DEF RootIsFirst, stream
  <2>3. CASE p = document /\ type[c] # "Element"
    <3>1. children[document] \in Seq(Nodes)
      BY <1>1, BuilderAssumption DEF Tree!TypeOK, Tree!Objects
    <3>2. children'[document] = Append(children[document], c)
      BY <1>1, <1>4, <2>3 DEF Tree!TypeOK
    <3>3. Tree!Range(Append(children[document], c)) \subseteq Tree!Range(children[document]) \cup {c}
      <4> DEFINE k == Len(children[document])
      <4>1. k \in Nat /\ DOMAIN children[document] = 1..k
        BY <3>1, LenProperties
      <4>2. /\ DOMAIN Append(children[document], c) = 1..(k + 1)
            /\ Append(children[document], c)[k + 1] = c
            /\ \A i \in 1..k : Append(children[document], c)[i] = children[document][i]
        BY <1>1, <3>1, PushFacts
      <4>3. \A i \in 1..(k + 1) : i \in 1..k \/ i = k + 1
        BY <4>1
      <4> HIDE DEF k
      <4> QED BY <4>1, <4>2, <4>3 DEF Tree!Range
    <3>4. Tree!document_elements(document)' \subseteq Tree!document_elements(document)
      BY <1>4, <2>3, <3>2, <3>3 DEF Tree!document_elements
    <3> QED BY <1>4, <3>4 DEF StackInv, RootIsFirst, stream
  <2> QED BY <2>1, <2>2, <2>3
<1> QED BY <1>6, <1>10, <1>11, <1>12 DEF StackInv

\* end_element closes the innermost open element.
LEMMA EndElementStack ==
    ASSUME BuilderInv, Building, StackInv, end_element
    PROVE  StackInv'
<1> DEFINE n == Len(element_stack)
<1>1. /\ element_stack \in Seq(Nodes) /\ path \in Seq(Names) /\ path # <<>>
      /\ pending = None /\ pending' = None
      /\ path' = Front(path) /\ element_stack' = popped
      /\ UNCHANGED <<tree, qualified_name, rooted>>
  BY DEF BuilderInv, TypeOK, StreamState, end_element, Listening, Sax!EndElement, Front
<1>2. Open = element_stack /\ Open' = element_stack'
  BY <1>1 DEF Open
<1>3. Len(path) = n /\ \A i \in 1..n : qualified_name[element_stack[i]] = path[i]
  BY <1>2 DEF StackInv, OpenIsPath
<1>4. element_stack # <<>>
  <2>1. Len(path) # 0
    BY <1>1, EmptySeq
  <2> QED BY <1>3, <2>1, EmptySeq
<1>5. element_stack' = Front(element_stack)
  BY <1>1, <1>4 DEF popped
<1>6. /\ n \in Nat \ {0}
      /\ Len(Front(element_stack)) = n - 1 /\ Len(Front(path)) = n - 1
      /\ \A i \in 1..(n - 1) : Front(element_stack)[i] = element_stack[i] /\ Front(path)[i] = path[i]
  BY <1>1, <1>3, <1>4, PopFacts
<1> HIDE DEF n
<1>7. \A i \in 1..(n - 1) : i \in 1..n
  BY <1>6
<1>8. OpenIsPath'
  BY <1>1, <1>2, <1>3, <1>5, <1>6, <1>7 DEF OpenIsPath
<1>9. StackIsLinked'
  <2>1. ASSUME NEW i \in 1..(n - 1)
        PROVE  parent[element_stack[i]] = ParentAt(i) /\ owner[element_stack[i]] = document
    BY <1>7 DEF StackInv, StackIsLinked, n
  <2>2. \A i \in 1..(n - 1) : ParentAt(i)' = ParentAt(i)
    <3> TAKE i \in 1..(n - 1)
    <3>1. i # 1 => i - 1 \in 1..(n - 1)
      BY <1>6
    <3> QED BY <1>5, <1>6, <3>1 DEF ParentAt
  <2> QED BY <1>1, <1>5, <1>6, <2>1, <2>2 DEF StackIsLinked, tree
<1>10. PendingIsDetached' /\ RootIsFirst'
  BY <1>1 DEF PendingIsDetached, StackInv, RootIsFirst, Tree!document_elements, tree
<1> QED BY <1>8, <1>9, <1>10 DEF StackInv

\* The stack is right after every step that leaves the builder at work.
LEMMA StackStep == BuilderInv /\ [Next]_vars => (Building => StackInv)'
<1> SUFFICES ASSUME BuilderInv, [Next]_vars, Building' PROVE StackInv'
  OBVIOUS
<1>1. Building => StackInv
  BY DEF BuilderInv, StackInv
<1>2. parsing' = TRUE /\ document \in alive' /\ result \notin alive'
  BY DEF Building
<1>3. ~Refused
  BY <1>2 DEF Refused
<1>4. CASE Begin
  BY <1>4, BeginStack
<1>5. ASSUME UNCHANGED tree, Listening PROVE Building
  BY <1>2, <1>5 DEF Building, Listening, tree
<1>6. ASSUME NEW n \in Nodes, NEW t, NEW name, Made(n, t, name) PROVE Building
  BY <1>2, <1>6 DEF Building, Made, Listening, Tree!make_node
<1>7. CASE start_element
  BY <1>1, <1>3, <1>6, <1>7, StartElementCases, StartElementStack
<1>8. CASE leaf
  BY <1>1, <1>3, <1>6, <1>8, LeafCases, LeafStack
<1>9. CASE append_to_current_parent
  <2>1. Building
    BY <1>9, PendingIsBuilding DEF append_to_current_parent, BuilderInv
  <2> QED BY <1>1, <1>9, <2>1, AppendStack
<1>10. CASE callback_throws \/ parse_throws
  BY <1>2, <1>10 DEF callback_throws, parse_throws, Sax!Abandon
<1>11. CASE end_element
  BY <1>1, <1>5, <1>11, EndElementStack DEF end_element
<1>12. CASE ignored
  <2>1. Building /\ UNCHANGED <<tree, builder, path, rooted>>
    BY <1>5, <1>12 DEF ignored, Sax!StartDocument, Sax!EndDocument
  <2> QED BY <1>1, <2>1 DEF tree, builder, StackInv, OpenIsPath, Open, StackIsLinked, ParentAt,
                     PendingIsDetached, RootIsFirst, Tree!document_elements
<1>13. CASE return_document
  BY <1>2, <1>13 DEF return_document, Dom!MoveConstruct
<1>14. CASE destroy_builder
  BY <1>2, <1>14 DEF destroy_builder, Dom!Destroy
<1>15. CASE UNCHANGED vars
  <2>1. UNCHANGED <<tree, builder, stream>>
    BY <1>15 DEF vars
  <2> QED BY <1>1, <1>2, <2>1 DEF tree, builder, stream, Building, StackInv, OpenIsPath, Open,
              StackIsLinked, ParentAt, PendingIsDetached, RootIsFirst, Tree!document_elements
<1> QED BY <1>4, <1>7, <1>8, <1>9, <1>10, <1>11, <1>12, <1>13, <1>14, <1>15 DEF Next

\* Nothing is built before the builder is.
LEMMA InitBuilderInv == Init => BuilderInv
<1> SUFFICES ASSUME Init PROVE BuilderInv
  OBVIOUS
<1>1. Tree!TreeInv
  BY TreeAssumption, SameInit, Tree!InitTreeInv DEF Init
<1>2. Len(<<>>) = 0 /\ <<>> \in Seq(Nodes) /\ <<>> \in Seq(Names)
  BY EmptySeq
<1>3. alive = {}
  BY DEF Init, Dom!Init
<1>4. TypeOK
  <2>1. Dom!TypeOK
    BY <1>1, SameTypes DEF Tree!TreeInv
  <2>2. node_count \in 0..max_dom_nodes
    BY BuilderAssumption DEF Init
  <2>3. node_count - Len(created) = 0
    <3>1. node_count = 0 /\ created = <<>>
      BY DEF Init
    <3>2. Len(created) = 0
      BY <3>1, EmptySeq
    <3>3. 0 - 0 = 0
      OBVIOUS
    <3> QED BY <3>1, <3>2, <3>3, Zenon
  <2> QED BY <1>2, <2>1, <2>2, <2>3 DEF Init, TypeOK
<1>5. StreamState /\ Lifetimes
  BY <1>2, <1>3 DEF Init, Sax!Init, StreamState, Lifetimes
<1>6. qualified_name \in [Nodes -> Names \cup {NoName}]
  BY DEF Init
<1>7. ~Building
  BY <1>3 DEF Building
<1> QED BY <1>1, <1>4, <1>5, <1>6, <1>7 DEF BuilderInv

\* Every step keeps the invariant.
LEMMA NextBuilderInv == BuilderInv /\ [Next]_vars => BuilderInv'
<1> SUFFICES ASSUME BuilderInv, [Next]_vars PROVE BuilderInv'
  OBVIOUS
<1>1. Tree!TreeInv'
  <2>1. Tree!TreeInv /\ Tree!TypeOK
    BY DEF BuilderInv, Tree!TreeInv
  <2>2. [Tree!Next]_(Tree!vars)
    BY <2>1, TreeStep
  <2> QED BY <2>1, <2>2, TreeAssumption, Tree!NextTreeInv
<1>2. StreamState /\ StreamState' /\ Lifetimes'
  BY StreamStateStep, LifetimesStep DEF BuilderInv
<1>3. Dom!TypeOK'
  BY <1>1 DEF Tree!TreeInv, Dom!TypeOK, Tree!TypeOK, Dom!Objects, Tree!Objects, Dom!NodeTypes,
         Tree!NodeTypes
<1>4. TypeOK' /\ qualified_name' \in [Nodes -> Names \cup {NoName}]
  BY <1>2, <1>3, TypeStep DEF BuilderInv
<1>5. (Building => StackInv)'
  BY StackStep
<1> QED BY <1>1, <1>2, <1>4, <1>5 DEF BuilderInv, StackInv

\* The invariant holds in every state.
LEMMA BuilderInvariant == Spec => []BuilderInv
BY InitBuilderInv, NextBuilderInv, PTL DEF Spec

-----------------------------------------------------------------------------
(* The theorems.                                                            *)

\* Every run of the builder is, for the tree, a run of its operations: what
\* DomTreeProofs shows of them holds of the documents the parser builds.
THEOREM BuilderUsesTheTree == Spec => Tree!Spec
<1>1. Init => Tree!Init
  BY SameInit DEF Init
<1>2. BuilderInv /\ [Next]_vars => [Tree!Next]_(Tree!vars)
  BY TreeStep DEF BuilderInv, Tree!TreeInv
<1> QED BY <1>1, <1>2, BuilderInvariant, PTL DEF Spec, Tree!Spec

\* Every run of the builder is, without its own steps, an event stream such
\* as a SaxHandler is promised.
THEOREM BuilderFollowsTheStream == Spec => Sax!Spec
<1>1. Init => Sax!Init
  BY DEF Init
<1> QED BY <1>1, StreamStep, PTL DEF Spec, Sax!Spec

\* The builder's variables keep their types; node_count never passes
\* max_dom_nodes and counts the nodes created but for a failed one.
THEOREM BuilderTypes == Spec => []TypeOK
<1>1. BuilderInv => TypeOK
  BY DEF BuilderInv
<1> QED BY <1>1, BuilderInvariant, PTL

\* append_child never has a reason to refuse the node a callback has made.
LEMMA PendingCanBeAppended ==
    ASSUME BuilderInv, Building, pending # None PROVE Dom!CanAppend(current_parent, pending)
<1> DEFINE p == current_parent
           S == Tree!Objects \ {pending}
<1>1. /\ pending \in Nodes /\ element_stack \in Seq(Nodes)
      /\ OpenIsPath /\ StackIsLinked /\ PendingIsDetached /\ RootIsFirst
  BY DEF BuilderInv, TypeOK
<1>2. document \in Documents /\ document \notin Nodes /\ document # None /\ None \notin Nodes
  BY BuilderAssumption
<1>3. element_stack # <<>> => /\ Len(element_stack) \in 1..Len(element_stack)
                              /\ p = element_stack[Len(element_stack)] /\ p \in Nodes
  BY <1>1, PopFacts DEF current_parent
<1>4. element_stack = <<>> => p = document
  BY DEF current_parent
<1>5. owner[p] = document
  <2>1. owner[document] = document
    BY <1>2 DEF BuilderInv, Tree!TreeInv, Tree!TypeOK
  <2> QED BY <1>1, <1>3, <1>4, <2>1 DEF StackIsLinked
<1>6. p # pending
  <2>1. CASE element_stack = <<>>
    BY <1>1, <1>2, <1>4, <2>1
  <2>2. CASE element_stack # <<>>
    <3> DEFINE n == Len(element_stack)
    <3>1. parent[p] = ParentAt(n)
      BY <1>1, <1>3, <2>2 DEF StackIsLinked
    <3>2. ParentAt(n) # None
      <4>1. CASE n = 1
        BY <1>2, <4>1 DEF ParentAt
      <4>2. CASE n # 1
        <5>1. n - 1 \in 1..n
          <6>1. n \in Nat /\ n # 0
            BY <1>1, <2>2, EmptySeq, LenProperties
          <6> HIDE DEF n
          <6> QED BY <4>2, <6>1
        <5>2. element_stack[n - 1] \in Nodes
          BY <1>1, <5>1, ElementOfSeq
        <5> QED BY <1>2, <4>2, <5>2 DEF ParentAt
      <4> QED BY <4>1, <4>2
    <3> QED BY <1>1, <3>1, <3>2 DEF PendingIsDetached
  <2> QED BY <2>1, <2>2
<1>7. pending \notin Tree!AncestorsOf(p)
  <2>1. p \in Tree!Objects
    BY <1>2, <1>3, <1>4 DEF Tree!Objects
  <2>2. \A y \in Tree!Objects : parent[y] \in Tree!Objects \cup {None} /\ parent[y] # pending
    BY <1>1 DEF PendingIsDetached, BuilderInv, Tree!TreeInv, Tree!TypeOK
  <2>3. Tree!ClosedAbove(p, S)
    BY <2>1, <2>2 DEF Tree!ClosedAbove
  <2>4. S \in SUBSET Tree!Objects /\ pending \notin S
    OBVIOUS
  <2> HIDE DEF S
  <2> QED BY <2>3, <2>4 DEF Tree!AncestorsOf
<1>8. p \in Documents /\ type[pending] = "Element" => Tree!document_elements(p) \subseteq {pending}
  <2>1. p \in Documents => element_stack = <<>>
    BY <1>3, BuilderAssumption
  <2> QED BY <1>1, <1>4, <2>1 DEF RootIsFirst
<1>9. Tree!CanAppend(p, pending)
  BY <1>1, <1>5, <1>6, <1>7, <1>8 DEF Tree!CanAppend, PendingIsDetached
<1> QED BY <1>9, SameCanAppend

\* The names of the open elements, as StackIsThePath writes them.
LEMMA NamesOfOpen ==
    ASSUME BuilderInv, Building
    PROVE  [i \in DOMAIN Open |-> qualified_name[Open[i]]] = path
<1>1. /\ element_stack \in Seq(Nodes) /\ pending \in Nodes \cup {None}
      /\ path \in Seq(Names)
      /\ OpenIsPath
  BY DEF BuilderInv, TypeOK, StreamState
<1>2. Open \in Seq(Nodes)
  BY <1>1, PushFacts DEF Open
<1>3. DOMAIN Open = 1..Len(Open) /\ DOMAIN path = 1..Len(path)
  BY <1>1, <1>2, LenProperties
<1>4. path = [i \in 1..Len(path) |-> path[i]]
  BY <1>1, SeqDef
<1>5. [i \in DOMAIN Open |-> qualified_name[Open[i]]] = [i \in 1..Len(path) |-> path[i]]
  BY <1>1, <1>3 DEF OpenIsPath
<1> QED BY <1>4, <1>5

\* The builder's stack is the stream's path of open elements, linked from
\* the document down, and append_child refuses nothing the stream can bring:
\* for any depth, any names, any number of nodes.
THEOREM StackAlwaysThePath == Spec => []StackIsThePath
<1>1. ASSUME BuilderInv PROVE StackIsThePath
  <2> DEFINE names == [i \in DOMAIN Open |-> qualified_name[Open[i]]]
  <2>1. ASSUME Building
        PROVE  /\ names = path
               /\ \A i \in DOMAIN element_stack : parent[element_stack[i]] = ParentAt(i)
               /\ pending # None => Dom!CanAppend(current_parent, pending)
    <3>1. names = path
      BY <1>1, <2>1, NamesOfOpen
    <3>2. DOMAIN element_stack = 1..Len(element_stack)
      BY <1>1, LenProperties DEF BuilderInv, TypeOK
    <3>3. \A i \in 1..Len(element_stack) : parent[element_stack[i]] = ParentAt(i)
      BY <1>1, <2>1 DEF BuilderInv, StackIsLinked
    <3> HIDE DEF names
    <3> QED BY <1>1, <2>1, <3>1, <3>2, <3>3, PendingCanBeAppended
  <2> QED BY <2>1 DEF StackIsThePath, Open, ParentAt
<1> QED BY <1>1, BuilderInvariant, PTL

\* A parse that threw leaves no node behind, and one that did not leaves
\* those of the document it returns.
THEOREM BuilderLeaksNothing == Spec => []NothingLeaks
<1>1. ASSUME BuilderInv PROVE NothingLeaks
  <2>1. ASSUME document \notin alive, NEW n \in Nodes, owner[n] # None
        PROVE  owner[n] = result /\ result \in alive
    <3>1. owner[n] \in Documents
      BY <1>1, <2>1 DEF BuilderInv, Tree!TreeInv, Tree!TypeOK, Tree!Objects
    <3>2. n \in storage[owner[n]]
      BY <1>1, <3>1 DEF BuilderInv, Tree!TreeInv, Tree!OwnersAgree
    <3>3. owner[n] \in alive
      BY <1>1, <3>1, <3>2 DEF BuilderInv, Tree!TreeInv, Tree!OwnersAgree
    <3> QED BY <1>1, <2>1, <3>3 DEF BuilderInv, Lifetimes
  <2> QED BY <2>1 DEF NothingLeaks
<1> QED BY <1>1, BuilderInvariant, PTL

-----------------------------------------------------------------------------
(* The order of the nodes.                                                  *)

\* The nodes that have been appended.
Attached == IF pending = None THEN created ELSE Front(created)

\* What the next node is appended to is the last place of the document.
LastPlace == Tree!OnTheRight(current_parent) /\ current_parent \in Tree!Subtree(document)

\* The tree lists the nodes as they were created; a node comes last.
OrderInv ==
    /\ phase = "silent" => created = <<>>
    /\ Building =>
          /\ pending # None => created # <<>> /\ Last(created) = pending
          /\ Tree!Lists(Attached, document)
          /\ LastPlace
    /\ result \in alive => Tree!Lists(created, result) /\ storage[document] = {}

\* Steps that leave the tree's links and the nodes created alone keep the
\* list of a document.
LEMMA SameLists ==
    ASSUME NEW d, UNCHANGED <<parent, children>>
    PROVE  /\ Tree!Lists(created, d) /\ created' = created => Tree!Lists(created, d)'
           /\ Tree!Lists(Attached, d) /\ Attached' = Attached => Tree!Lists(Attached, d)'
           /\ \A p : Tree!OnTheRight(p) => Tree!OnTheRight(p)'
           /\ \A p : p \in Tree!Subtree(d) => p \in Tree!Subtree(d)'
<1>1. /\ \A s : Tree!Lists(s, d) => Tree!Lists(s, d)'
      /\ \A p : Tree!OnTheRight(p) => Tree!OnTheRight(p)'
      /\ \A p : p \in Tree!Subtree(d) => p \in Tree!Subtree(d)'
  BY TreeAssumption, Tree!UnlinkedListsStay
<1>2. ASSUME Tree!Lists(created, d), created' = created PROVE Tree!Lists(created, d)'
  <2>1. PICK s : s = created
    OBVIOUS
  <2>2. Tree!Lists(s, d)' /\ created' = s
    BY <1>1, <1>2, <2>1
  <2> QED BY <2>2
<1>3. ASSUME Tree!Lists(Attached, d), Attached' = Attached PROVE Tree!Lists(Attached, d)'
  <2>1. PICK s : s = Attached
    OBVIOUS
  <2>2. Tree!Lists(s, d)' /\ Attached' = s
    BY <1>1, <1>3, <2>1
  <2> QED BY <2>2
<1> QED BY <1>1, <1>2, <1>3

\* The same for what is appended to next.
LEMMA SameLastPlace ==
    ASSUME UNCHANGED <<parent, children, element_stack>>, LastPlace
    PROVE  LastPlace'
<1>1. PICK p : p = current_parent
  OBVIOUS
<1>2. current_parent' = p
  BY <1>1 DEF current_parent
<1>3. Tree!OnTheRight(p)' /\ p \in Tree!Subtree(document)'
  BY <1>1, SameLists DEF LastPlace
<1> QED BY <1>2, <1>3 DEF LastPlace

\* A new document has nothing to list.
LEMMA BeginOrder == ASSUME BuilderInv, OrderInv, Begin PROVE OrderInv'
<1>1. /\ phase = "silent" /\ element_stack = <<>> /\ pending = None /\ document \notin alive
      /\ result \notin alive /\ created = <<>>
      /\ alive' = alive \cup {document}
      /\ UNCHANGED <<parent, children, element_stack, pending, created>>
  BY DEF BuilderInv, Lifetimes, OrderInv, Begin, Dom!Construct, stream, builder
<1>2. /\ document \in Documents /\ document # result /\ document \in Tree!Objects
      /\ document # None
  BY BuilderAssumption DEF Tree!Objects
<1>3. Tree!TreeInv /\ Tree!TypeOK /\ Tree!LinksAgree /\ Tree!OwnersAgree
  BY DEF BuilderInv, Tree!TreeInv
<1>4. \A x \in Tree!Objects : parent[x] # document
  <2> SUFFICES ASSUME NEW x \in Tree!Objects, parent[x] = document PROVE FALSE
    OBVIOUS
  <2>1. x \in Nodes
    BY <1>2, <1>3 DEF Tree!TypeOK, Tree!Objects
  <2>2. x \in Tree!Range(children[document])
    BY <1>2, <1>3, <2>1 DEF Tree!LinksAgree
  <2>3. children[document] = <<>>
    BY <1>1, <1>2, <1>3 DEF Tree!OwnersAgree
  <2> QED BY <2>2, <2>3, EmptyFacts DEF Tree!Range, Range
<1>5. Tree!Lists(<<>>, document) /\ Tree!OnTheRight(document) /\ document \in Tree!Subtree(document)
  BY <1>2, <1>3, <1>4, TreeAssumption, Tree!EmptyTreeLists
<1>6. Attached = <<>> /\ current_parent = document /\ Attached' = Attached
  BY <1>1 DEF Attached, current_parent
<1>7. Tree!Lists(Attached, document)' /\ LastPlace'
  BY <1>1, <1>5, <1>6, SameLists, SameLastPlace DEF LastPlace
<1> QED BY <1>1, <1>2, <1>7 DEF OrderInv

\* A node that has been made is in no list yet.
LEMMA MadeOrder ==
    ASSUME BuilderInv, OrderInv, phase' # "silent", result \notin alive,
           NEW n \in Nodes, NEW t, NEW name, Made(n, t, name)
    PROVE  OrderInv'
<1>1. /\ document \in alive /\ parsing = TRUE /\ pending = None /\ pending' = n
      /\ created' = Append(created, n) /\ element_stack' = element_stack /\ alive' = alive
      /\ Tree!make_node(document, n, t)
  BY DEF Made, Listening, Tree!make_node
<1>2. created \in Seq(Nodes) /\ n # None /\ document \in Documents
  BY BuilderAssumption DEF BuilderInv, TypeOK
<1>3. Building
  BY <1>1 DEF Building
<1>4. UNCHANGED <<parent, children>>
  BY <1>1, <1>2, TreeAssumption, Tree!LinksStay DEF BuilderInv
<1>5. created' # <<>> /\ Last(created') = pending' /\ Front(created') = created
  BY <1>1, <1>2, PushPop, PushFacts
<1>6. Attached = created /\ Attached' = created
  BY <1>1, <1>2, <1>5 DEF Attached
<1>7. Tree!Lists(Attached, document)' /\ LastPlace'
  BY <1>1, <1>3, <1>4, <1>6, SameLists, SameLastPlace DEF OrderInv
<1> QED BY <1>1, <1>5, <1>7 DEF OrderInv

\* Appended, it is the last of the list, and on the right.
LEMMA AppendOrder ==
    ASSUME BuilderInv, BuilderInv', OrderInv, append_to_current_parent
    PROVE  OrderInv'
<1>1. /\ parsing = TRUE /\ pending # None /\ pending' = None /\ created' = created
      /\ alive' = alive /\ phase' = phase
      /\ element_stack' = IF type[pending] = "Element" THEN Append(element_stack, pending)
                          ELSE element_stack
      /\ Tree!append_child(current_parent, pending)
  BY SameAppend DEF append_to_current_parent, Dom!append_child, stream
<1>2. Building /\ phase # "silent" /\ result \notin alive
  BY <1>1, PendingIsBuilding DEF BuilderInv, Lifetimes
<1>3. /\ created \in Seq(Nodes) /\ pending \in Nodes /\ element_stack \in Seq(Nodes)
      /\ Tree!TreeInv /\ Tree!TypeOK /\ Tree!TypeOK'
  BY <1>1 DEF BuilderInv, TypeOK, Tree!TreeInv
<1>4. created # <<>> /\ Last(created) = pending /\ Tree!Lists(Front(created), document) /\ LastPlace
  BY <1>1, <1>2 DEF OrderInv, Attached
<1>5. created = Append(Front(created), pending)
  BY <1>3, <1>4, PushPop
<1>6. PICK p, c, s : p = current_parent /\ c = pending /\ s = Front(created)
  OBVIOUS
<1>7. p \in Tree!Objects
  <2>1. p \in Tree!Live
    BY <1>1, <1>6 DEF Tree!append_child
  <2> QED BY <1>3, <2>1 DEF Tree!Live, Tree!Stored, Tree!Objects, Tree!TypeOK
<1>8. /\ c \in Nodes /\ Tree!append_child(p, c) /\ parent[c] = None
      /\ \A x \in Tree!Objects : parent[x] # c
      /\ document \in alive /\ p \in Tree!Subtree(document) /\ Tree!OnTheRight(p)
      /\ Tree!Lists(s, document)
  BY <1>1, <1>2, <1>3, <1>4, <1>6 DEF BuilderInv, PendingIsDetached, LastPlace, Building
<1>9. /\ Tree!Lists(Append(s, c), document)'
      /\ Tree!OnTheRight(p)' /\ p \in Tree!Subtree(document)'
      /\ Tree!OnTheRight(c)' /\ c \in Tree!Subtree(document)'
  BY <1>3, <1>7, <1>8, TreeAssumption, Tree!AppendKeepsLists
<1>10. Attached' = Append(s, c)
  BY <1>1, <1>5, <1>6 DEF Attached
<1>11. current_parent' = c \/ current_parent' = p
  <2>1. CASE type[pending] = "Element"
    <3>1. element_stack' # <<>> /\ Last(element_stack') = c
      BY <1>1, <1>3, <1>6, <2>1, PushFacts, PushPop
    <3> QED BY <3>1 DEF current_parent
  <2>2. CASE type[pending] # "Element"
    BY <1>1, <1>6, <2>2 DEF current_parent
  <2> QED BY <2>1, <2>2
<1>12. Tree!Lists(Attached, document)' /\ LastPlace'
  BY <1>9, <1>10, <1>11 DEF LastPlace
<1> QED BY <1>1, <1>2, <1>12 DEF OrderInv

\* When an element ends, what follows is appended to its parent, and still
\* comes last.
LEMMA EndElementOrder ==
    ASSUME BuilderInv, OrderInv, end_element PROVE OrderInv'
<1>1. /\ document \in alive /\ parsing = TRUE /\ pending = None /\ phase = "document"
      /\ phase' = "document" /\ element_stack' = popped
      /\ UNCHANGED <<tree, pending, created>>
  BY EndsInsideTheDocument DEF end_element, Listening, BuilderInv
<1>2. Building /\ result \notin alive
  BY <1>1 DEF Building, BuilderInv, Lifetimes
<1>3. Tree!TreeInv /\ Tree!TypeOK /\ element_stack \in Seq(Nodes) /\ StackIsLinked
  BY <1>2 DEF BuilderInv, TypeOK, Tree!TreeInv
<1>4. UNCHANGED <<parent, children>> /\ alive' = alive
  BY <1>1 DEF tree
<1>5. Tree!Lists(Attached, document) /\ LastPlace
  BY <1>2 DEF OrderInv
<1>6. Tree!Lists(Attached, document)'
  <2>1. Attached' = Attached
    BY <1>1 DEF Attached
  <2> QED BY <1>4, <1>5, <2>1, SameLists
<1>7. LastPlace'
  <2>1. CASE element_stack = <<>>
    BY <1>1, <1>4, <1>5, <2>1, SameLastPlace DEF popped
  <2>2. CASE element_stack # <<>>
    <3> DEFINE n == Len(element_stack)
    <3>1. /\ n \in Nat \ {0} /\ Last(element_stack) = element_stack[n] /\ Last(element_stack) \in Nodes
          /\ Front(element_stack) \in Seq(Nodes) /\ Len(Front(element_stack)) = n - 1
          /\ Front(element_stack) = <<>> <=> n = 1
          /\ \A i \in 1..(n - 1) : Front(element_stack)[i] = element_stack[i]
      BY <1>3, <2>2, PopFacts
    <3>2. parent[Last(element_stack)] = ParentAt(n)
      BY <1>3, <3>1 DEF StackIsLinked
    <3> HIDE DEF n
    <3>3. PICK p : p = Last(element_stack)
      OBVIOUS
    <3>4. PICK q : q = ParentAt(n)
      OBVIOUS
    <3>5. current_parent = p /\ p \in Nodes /\ p \in Tree!Objects /\ parent[p] = q
      BY <2>2, <3>1, <3>2, <3>3, <3>4 DEF current_parent, Tree!Objects
    <3>6. current_parent' = q
      <4>1. CASE n = 1
        BY <1>1, <2>2, <3>1, <3>4, <4>1 DEF popped, current_parent, ParentAt
      <4>2. CASE n # 1
        <5>1. n - 1 \in 1..(n - 1)
          BY <3>1, <4>2
        <5>2. Last(Front(element_stack)) = Front(element_stack)[n - 1]
          BY <3>1 DEF Last
        <5>3. Last(Front(element_stack)) = q
          BY <3>1, <3>4, <4>2, <5>1, <5>2 DEF ParentAt
        <5> QED BY <1>1, <2>2, <3>1, <4>2, <5>3 DEF popped, current_parent
      <4> QED BY <4>1, <4>2
    <3>7. q # None
      <4>1. q = document \/ q \in Nodes
        <5>1. n # 1 => n - 1 \in 1..n
          BY <3>1
        <5>2. n # 1 => element_stack[n - 1] \in Nodes
          BY <1>3, <5>1, ElementOfSeq DEF n
        <5> QED BY <3>4, <5>2 DEF ParentAt
      <4> QED BY <4>1, BuilderAssumption
    <3>8. Tree!OnTheRight(q)
      BY <1>3, <1>5, <3>5, <3>7, TreeAssumption, Tree!ParentOnTheRight DEF LastPlace
    <3>9. q \in Tree!Subtree(document)
      <4>1. p \in Tree!Subtree(document) /\ document \notin Nodes
        BY <1>5, <3>5, BuilderAssumption DEF LastPlace
      <4>2. document \in Tree!AncestorsOf(p)
        BY <3>5, <4>1 DEF Tree!Subtree, Tree!Below
      <4> QED BY <1>3, <3>5, <4>2, TreeAssumption, Tree!AncestorsUnfold
    <3>10. Tree!OnTheRight(q)' /\ q \in Tree!Subtree(document)'
      BY <1>4, <3>8, <3>9, SameLists
    <3> QED BY <3>6, <3>10 DEF LastPlace
  <2> QED BY <2>1, <2>2
<1> QED BY <1>1, <1>2, <1>4, <1>6, <1>7 DEF OrderInv

\* The document returned lists them all.
LEMMA ReturnOrder == ASSUME BuilderInv, OrderInv, return_document PROVE OrderInv'
<1>1. /\ document \in alive /\ result \notin alive /\ parsing = TRUE /\ pending = None
      /\ alive' = alive \cup {result} /\ phase = "ended" /\ phase' = "ended" /\ created' = created
      /\ Tree!MoveConstruct(result, document)
  BY SameMoveConstruct DEF return_document, Listening, Dom!MoveConstruct, stream, builder
<1>2. Building /\ Attached = created
  BY <1>1 DEF Building, Attached
<1>3. Tree!TypeOK'
  <2>1. Tree!TreeInv /\ Tree!TypeOK
    BY DEF BuilderInv, Tree!TreeInv
  <2>2. [Tree!Next]_(Tree!vars)
    BY <2>1, TreeStep DEF Next
  <2> QED BY <2>1, <2>2, TreeAssumption, Tree!NextTreeInv DEF Tree!TreeInv
<1>4. PICK s : s = created
  OBVIOUS
<1>5. Tree!Lists(s, document)
  BY <1>2, <1>4 DEF OrderInv
<1>6. Tree!Lists(s, result)' /\ storage'[document] = {}
  BY <1>1, <1>3, <1>5, BuilderAssumption, TreeAssumption, Tree!MoveKeepsLists DEF BuilderInv
<1>7. Tree!Lists(created, result)'
  BY <1>1, <1>4, <1>6
<1> QED BY <1>1, <1>6, <1>7 DEF OrderInv, Building

\* Destroying the builder's document does not touch the one returned.
LEMMA DestroyOrder == ASSUME BuilderInv, OrderInv, destroy_builder PROVE OrderInv'
<1>1. /\ document \in alive /\ alive' = alive \ {document} /\ phase' = phase /\ created' = created
      /\ storage' = [storage EXCEPT ![document] = {}]
      /\ Tree!Destroy(document)
  BY SameDestroy DEF destroy_builder, Dom!Destroy, stream, builder
<1>2. document \in Documents /\ storage \in [Documents -> SUBSET Nodes]
  BY BuilderAssumption DEF BuilderInv, Tree!TreeInv, Tree!TypeOK
<1>3. ASSUME result \in alive PROVE Tree!Lists(created, result)' /\ storage'[document] = {}
  <2>1. Tree!Lists(created, result) /\ storage[document] = {}
    BY <1>3 DEF OrderInv
  <2>2. UNCHANGED <<parent, children>>
    BY <1>1, <1>2, <2>1, TreeAssumption, Tree!LinksStay DEF BuilderInv
  <2> QED BY <1>1, <1>2, <2>1, <2>2, SameLists
<1> QED BY <1>1, <1>3 DEF OrderInv, Building

\* Events that make no node, and those that end the parse, change no list.
LEMMA IdleOrder ==
    ASSUME OrderInv, UNCHANGED <<tree, created>>,
           phase' = "silent" => phase = "silent",
           Building' => Building /\ UNCHANGED <<element_stack, pending>>
    PROVE  OrderInv'
<1>1. UNCHANGED <<parent, children, storage, alive>>
  BY DEF tree
<1>2. Building' => /\ pending' # None => created' # <<>> /\ Last(created') = pending'
                   /\ Tree!Lists(Attached, document)'
                   /\ LastPlace'
  <2> SUFFICES ASSUME Building'
               PROVE  /\ pending' # None => created' # <<>> /\ Last(created') = pending'
                      /\ Tree!Lists(Attached, document)'
                      /\ LastPlace'
    OBVIOUS
  <2>1. Building /\ UNCHANGED <<element_stack, pending, created>>
    OBVIOUS
  <2>2. Attached' = Attached
    BY <2>1 DEF Attached
  <2> QED BY <1>1, <2>1, <2>2, SameLists, SameLastPlace DEF OrderInv
<1>3. result \in alive' => Tree!Lists(created, result)' /\ storage'[document] = {}
  BY <1>1, SameLists DEF OrderInv
<1> QED BY <1>2, <1>3 DEF OrderInv

\* Every step keeps the order.
LEMMA OrderStep == BuilderInv /\ BuilderInv' /\ OrderInv /\ [Next]_vars => OrderInv'
<1> SUFFICES ASSUME BuilderInv, BuilderInv', OrderInv, [Next]_vars PROVE OrderInv'
  OBVIOUS
<1>1. StreamState /\ Lifetimes
  BY DEF BuilderInv
<1>2. ASSUME Refused, phase' = "document" PROVE OrderInv'
  BY <1>2, IdleOrder DEF Refused, Building
<1>3. CASE start_element
  <2>1. phase = "document" /\ phase' = "document"
    BY <1>1, <1>3, StartElementCases, InsideTheDocument
  <2> QED BY <1>1, <1>2, <1>3, <2>1, StartElementCases, MadeOrder DEF Lifetimes
<1>4. CASE leaf
  <2>1. phase = "document" /\ phase' = "document"
    BY <1>1, <1>4, LeafCases, InsideTheDocument
  <2> QED BY <1>1, <1>2, <1>4, <2>1, LeafCases, MadeOrder DEF Lifetimes
<1>5. CASE Begin
  BY <1>5, BeginOrder
<1>6. CASE append_to_current_parent
  BY <1>6, AppendOrder
<1>7. CASE callback_throws
  <2>1. parsing' = FALSE /\ phase' = phase /\ created' = created /\ pending # None
    BY <1>7 DEF callback_throws, Sax!Abandon, builder
  <2>2. result \notin alive /\ phase # "silent" /\ alive' = alive
    BY <1>1, <1>7, <2>1 DEF Lifetimes, callback_throws, Dom!append_child, tree
  <2> QED BY <2>1, <2>2 DEF OrderInv, Building
<1>8. CASE parse_throws
  BY <1>8, IdleOrder DEF parse_throws, Sax!Abandon, Building, builder
<1>9. CASE end_element
  BY <1>9, EndElementOrder
<1>10. CASE ignored
  <2>1. /\ phase' # "silent" /\ parsing = TRUE /\ document \in alive
        /\ UNCHANGED <<tree, element_stack, pending, created>>
    BY <1>10 DEF ignored, Listening, Sax!StartDocument, Sax!EndDocument, builder
  <2>2. Building' => Building
    BY <2>1 DEF Building, tree
  <2> QED BY <2>1, <2>2, IdleOrder
<1>11. CASE return_document
  BY <1>11, ReturnOrder
<1>12. CASE destroy_builder
  BY <1>12, DestroyOrder
<1>13. CASE UNCHANGED vars
  <2>1. UNCHANGED <<tree, element_stack, pending, created, phase, parsing>>
    BY <1>13 DEF vars, stream, builder
  <2>2. Building' => Building
    BY <2>1 DEF Building, tree
  <2> QED BY <2>1, <2>2, IdleOrder
<1> QED BY <1>3, <1>4, <1>5, <1>6, <1>7, <1>8, <1>9, <1>10, <1>11, <1>12, <1>13 DEF Next

\* The document under construction, and the one parse() returns, hold the
\* nodes in the order their events came: depth first gives them as created,
\* for any number of nodes and however they are nested.
THEOREM DocumentOrderAlwaysEventOrder == Spec => []DocumentOrderIsEventOrder
<1>1. Init => OrderInv
  BY DEF Init, Dom!Init, OrderInv, Building
<1>2. ASSUME BuilderInv, OrderInv PROVE DocumentOrderIsEventOrder
  <2>1. Tree!TreeInv
    BY <1>2 DEF BuilderInv
  <2>2. ASSUME Building, pending = None PROVE Dom!depth_first(document) = created
    <3>1. document \in alive /\ Tree!Lists(created, document)
      BY <1>2, <2>2 DEF OrderInv, Building, Attached
    <3> QED BY <2>1, <3>1, TreeAssumption, Tree!ListIsDepthFirst, SameDepthFirst
  <2>3. ASSUME result \in alive PROVE Dom!depth_first(result) = created
    <3>1. Tree!Lists(created, result)
      BY <1>2, <2>3 DEF OrderInv
    <3> QED BY <2>1, <2>3, <3>1, TreeAssumption, Tree!ListIsDepthFirst, SameDepthFirst
  <2> QED BY <2>2, <2>3 DEF DocumentOrderIsEventOrder
<1> QED BY <1>1, <1>2, BuilderInvariant, OrderStep, PTL DEF Spec
=============================================================================
