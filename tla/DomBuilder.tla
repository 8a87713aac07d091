----------------------------- MODULE DomBuilder -----------------------------
(***************************************************************************)
(* parse() into a Document (xmlparser.cpp): class DomBuilder listens to    *)
(* the event stream of SaxEventStream and builds a document with the       *)
(* operations of DomTree; then the document is moved out to the caller.    *)
(*                                                                         *)
(* A callback that makes a node does it in two steps, as the tree sees it: *)
(* the node is created, then appended; anything thrown in between leaves   *)
(* the parse, and the builder with its document is destroyed.              *)
(***************************************************************************)
EXTENDS Integers, SequencesExt

CONSTANTS
    Documents, Nodes, None,   \* see DomTree
    document,                 \* DomBuilder::document
    result,                   \* the document parse() returns
    Names, NoName,            \* see SaxEventStream
    max_dom_nodes

ASSUME BuilderAssumption ==
    /\ Documents \cap Nodes = {} /\ None \notin Documents \cup Nodes
    /\ IsFiniteSet(Nodes)
    /\ {document, result} \subseteq Documents /\ document # result
    /\ max_dom_nodes \in Nat

VARIABLES
    phase, path, rooted, parsing, event,              \* the event stream
    alive, storage, type, owner, parent, children,    \* the tree
    element_stack,    \* element_stack_
    node_count,       \* node_count_
    pending,          \* the node created and not yet appended, or None
    created,          \* history: the nodes created, in order
    qualified_name    \* history: the name each element was made with

stream == <<phase, path, rooted, parsing, event>>
tree == <<alive, storage, type, owner, parent, children>>
builder == <<element_stack, node_count, pending, created, qualified_name>>
vars == <<stream, tree, builder>>

Sax == INSTANCE SaxEventStream WITH alive <- parsing

Dom == INSTANCE DomTree

-----------------------------------------------------------------------------
Init ==
    /\ Sax!Init
    /\ Dom!Init
    /\ element_stack = <<>>
    /\ node_count = 0
    /\ pending = None
    /\ created = <<>>
    /\ qualified_name = [n \in Nodes |-> NoName]

\* DomBuilder's constructor; no callback has been made yet.
Begin ==
    /\ phase = "silent" /\ parsing = TRUE
    /\ Dom!Construct(document)
    /\ UNCHANGED <<stream, builder>>

Listening == document \in alive /\ parsing = TRUE /\ pending = None

\* The mistake of letting one node more through.
ensure_node_available_late == node_count <= max_dom_nodes

ensure_node_available == node_count + 1 <= max_dom_nodes

\* make_node for an event.  The node count has gone up before make_node may
\* fail; a refused or failed callback ends the parse.
NodeCallback(Event, t, name) ==
    /\ Listening
    /\ Event
    /\ \/ /\ ~ensure_node_available
          /\ parsing' = FALSE
          /\ UNCHANGED <<tree, builder>>
       \/ /\ ensure_node_available
          /\ parsing' = FALSE
          /\ node_count' = node_count + 1
          /\ UNCHANGED <<tree, element_stack, pending, created, qualified_name>>
       \/ /\ ensure_node_available
          /\ parsing' = TRUE
          /\ node_count' = node_count + 1
          /\ \E n \in Nodes :
                /\ Dom!make_node(document, n, t)
                /\ pending' = n
                /\ created' = Append(created, n)
                /\ qualified_name' = [qualified_name EXCEPT ![n] = name]
          /\ UNCHANGED element_stack

start_element == NodeCallback(Sax!StartElement, "Element", event'.name)

\* characters, cdata, comment and processing_instruction.
leaf == NodeCallback(Sax!CharacterData \/ Sax!Misc, "Leaf", NoName)

current_parent == IF element_stack = <<>> THEN document ELSE Last(element_stack)

\* append_to_current_parent, and for an element the push that follows it.
append_to_current_parent ==
    /\ parsing = TRUE /\ pending # None
    /\ Dom!append_child(current_parent, pending)
    /\ element_stack' = IF type[pending] = "Element" THEN Append(element_stack, pending)
                        ELSE element_stack
    /\ pending' = None
    /\ UNCHANGED <<stream, node_count, created, qualified_name>>

\* An exception between creation and the end of the callback: set_attribute_ns,
\* append_child or push_back out of memory, or append_child refusing.
callback_throws ==
    /\ parsing = TRUE /\ pending # None
    /\ Sax!Abandon
    /\ \/ Dom!append_child(current_parent, pending)
       \/ UNCHANGED tree
    /\ UNCHANGED builder

\* The mistake of not going back up.
popped_never == element_stack

popped == IF element_stack = <<>> THEN <<>> ELSE Front(element_stack)

end_element ==
    /\ Listening
    /\ Sax!EndElement
    /\ parsing' = TRUE
    /\ element_stack' = popped
    /\ UNCHANGED <<tree, node_count, pending, created, qualified_name>>

\* start_document and end_document are not overridden.
ignored ==
    /\ Listening
    /\ Sax!StartDocument \/ Sax!EndDocument
    /\ parsing' = TRUE
    /\ UNCHANGED <<tree, builder>>

\* The parser itself throws.
parse_throws ==
    /\ Listening
    /\ Sax!Abandon
    /\ UNCHANGED <<tree, builder>>

\* return std::move(builder.document), then the builder is destroyed.
return_document ==
    /\ Listening /\ phase = "ended"
    /\ Dom!MoveConstruct(result, document)
    /\ UNCHANGED <<stream, builder>>

destroy_builder ==
    /\ result \in alive \/ parsing = FALSE
    /\ Dom!Destroy(document)
    /\ UNCHANGED <<stream, builder>>

Next ==
    \/ Begin
    \/ start_element
    \/ leaf
    \/ append_to_current_parent
    \/ callback_throws
    \/ end_element
    \/ ignored
    \/ parse_throws
    \/ return_document
    \/ destroy_builder

Spec == Init /\ [][Next]_vars

-----------------------------------------------------------------------------
\* The builder's own variables hold what their C++ types hold, the count
\* never passes max_dom_nodes, and each counted node was created but for one
\* that could not be.
TypeOK ==
    /\ Dom!TypeOK
    /\ element_stack \in Seq(Nodes)
    /\ node_count \in 0..max_dom_nodes
    /\ pending \in Nodes \cup {None}
    /\ created \in Seq(Nodes)
    /\ node_count - Len(created) \in IF parsing = TRUE THEN {0} ELSE {0, 1}

Building == document \in alive /\ parsing = TRUE /\ result \notin alive

\* Invariant: between callbacks, element_stack_ is the path of open elements
\* the stream is in: the same names, each the parent of the next, the first
\* right below the document; so the stream leaves append_child no second
\* document element, no cycle and no foreign node to refuse
\* (DomBuilder::append_to_current_parent).
StackIsThePath ==
    Building =>
        LET open == IF pending # None /\ type[pending] = "Element" THEN Append(element_stack, pending)
                    ELSE element_stack
        IN  /\ [i \in DOMAIN open |-> qualified_name[open[i]]] = path
            /\ \A i \in DOMAIN element_stack :
                  parent[element_stack[i]] = IF i = 1 THEN document ELSE element_stack[i - 1]
            /\ pending # None => Dom!CanAppend(current_parent, pending)

\* Invariant: the document, and the one returned, hold the nodes in the
\* order their events came: walking depth first gives them as created.
DocumentOrderIsEventOrder ==
    /\ Building /\ pending = None => Dom!depth_first(document) = created
    /\ result \in alive => Dom!depth_first(result) = created

\* Invariant: nodes outlive the builder only in the document returned; a
\* parse that threw leaves none behind.
NothingLeaks ==
    document \notin alive =>
        \A n \in Nodes : owner[n] # None => owner[n] = result /\ result \in alive
=============================================================================
