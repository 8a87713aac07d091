------------------------------ MODULE DomTree ------------------------------
(***************************************************************************)
(* class Node and class Document of dom.cpp: documents that own their      *)
(* nodes (storage_), the doubly linked tree of parent_ and children_, and  *)
(* the operations that create, insert, remove, move and destroy.           *)
(*                                                                         *)
(* Documents and Nodes are addresses.  An address is reused after its      *)
(* object is destroyed; clients keep no handle to a destroyed object, and  *)
(* do not call the raw setters set_parent, set_owner_document and          *)
(* mutable_children themselves.  Of a node's type only being an element    *)
(* matters here.  A call the code refuses throws before it changes         *)
(* anything, so it is no step at all.                                      *)
(***************************************************************************)
EXTENDS SequencesExt

CONSTANTS Documents, Nodes, None

Objects == Documents \cup Nodes

ASSUME ObjectsAssumption ==
    /\ Documents \cap Nodes = {}
    /\ None \notin Objects

\* There is room for so many nodes only.
ASSUME NodesAssumption == IsFiniteSet(Nodes)

VARIABLES
    alive,      \* the documents constructed and not destroyed
    storage,    \* storage_ of each document: the nodes it owns
    type,       \* type_
    owner,      \* owner_
    parent,     \* parent_; None is nullptr
    children    \* children_

vars == <<alive, storage, type, owner, parent, children>>

NodeTypes == {"Element", "Leaf"}

Stored == UNION {storage[d] : d \in alive}

Live == alive \cup Stored

-----------------------------------------------------------------------------
(* Looking around.                                                          *)

\* is_ancestor_of: the objects met when parent() is followed from x.
ClosedAbove(x, S) == \A y \in S \cup {x} : parent[y] = None \/ parent[y] \in S
AncestorsOf(x) == {a \in Objects : \A S \in SUBSET Objects : ClosedAbove(x, S) => a \in S}

document_elements(d) == {n \in Nodes : n \in Range(children[d]) /\ type[n] = "Element"}

Siblings(n) == children[parent[n]]

\* std::find gives the first occurrence.
Position(n) == SelectInSeq(Siblings(n), LAMBDA m : m = n)

previous_sibling(n) ==
    IF parent[n] = None \/ Position(n) <= 1 THEN None ELSE Siblings(n)[Position(n) - 1]

next_sibling(n) ==
    IF parent[n] = None \/ Position(n) \in {0, Len(Siblings(n))} THEN None
    ELSE Siblings(n)[Position(n) + 1]

\* The mistake of visiting the children before the node.
collect_depth_first_postorder(limit) ==
    LET collect[k \in 0..limit] ==
            [x \in Live |->
                IF k = 0 THEN <<>>
                ELSE FlattenSeq([i \in DOMAIN children[x] |->
                        Append(collect[k - 1][children[x][i]], children[x][i])])]
    IN  collect[limit]

\* collect_depth_first, to a depth of k; no tree is deeper than its nodes.
collect_depth_first(limit) ==
    LET collect[k \in 0..limit] ==
            [x \in Live |->
                IF k = 0 THEN <<>>
                ELSE FlattenSeq([i \in DOMAIN children[x] |->
                        <<children[x][i]>> \o collect[k - 1][children[x][i]]])]
    IN  collect[limit]

depth_first(d) == collect_depth_first(Cardinality(Nodes))[d]

-----------------------------------------------------------------------------
Init ==
    /\ alive = {}
    /\ storage = [d \in Documents |-> {}]
    /\ type = [n \in Nodes |-> "Leaf"]
    /\ owner = [x \in Objects |-> IF x \in Documents THEN x ELSE None]
    /\ parent = [x \in Objects |-> None]
    /\ children = [x \in Objects |-> <<>>]

Construct(d) ==
    /\ d \notin alive
    /\ alive' = alive \cup {d}
    /\ UNCHANGED <<storage, type, owner, parent, children>>

\* make_node: created detached, and owned at once.
make_node(d, n, t) ==
    /\ d \in alive
    /\ n \notin Stored
    /\ storage' = [storage EXCEPT ![d] = @ \cup {n}]
    /\ type' = [type EXCEPT ![n] = t]
    /\ owner' = [owner EXCEPT ![n] = d]
    /\ parent' = [parent EXCEPT ![n] = None]
    /\ children' = [children EXCEPT ![n] = <<>>]
    /\ UNCHANGED alive

\* The mistake of accepting a document as a child.
CanAppend_documents(p, c) ==
    /\ owner[c] = owner[p]
    /\ c # p /\ c \notin AncestorsOf(p)
    /\ p \in Documents /\ type[c] = "Element" => document_elements(p) \subseteq {c}

\* The mistake of refusing only the node itself, not its ancestors.
CanAppend_self_only(p, c) ==
    /\ c \in Nodes
    /\ owner[c] = owner[p]
    /\ c # p
    /\ p \in Documents /\ type[c] = "Element" => document_elements(p) \subseteq {c}

\* The mistake of counting elements without looking at the new child.
CanAppend_many_elements(p, c) ==
    /\ c \in Nodes
    /\ owner[c] = owner[p]
    /\ c # p /\ c \notin AncestorsOf(p)

\* The four checks of append_child.
CanAppend(p, c) ==
    /\ c \in Nodes
    /\ owner[c] = owner[p]
    /\ c # p /\ c \notin AncestorsOf(p)
    /\ p \in Documents /\ type[c] = "Element" => document_elements(p) \subseteq {c}

\* The mistake of forgetting the old parent.
detached_nowhere(c) == children

\* remove_child of the old parent, when there is one.
detached(c) ==
    IF parent[c] = None THEN children
    ELSE [children EXCEPT ![parent[c]] = RemoveFirst(@, c)]

\* The mistake of inserting before the other children.
inserted_first(kids, p, c) == [kids EXCEPT ![p] = <<c>> \o @]

inserted(kids, p, c) == [kids EXCEPT ![p] = Append(@, c)]

append_child(p, c) ==
    /\ {p, c} \subseteq Live
    /\ CanAppend(p, c)
    /\ children' = inserted(detached(c), p, c)
    /\ parent' = [parent EXCEPT ![c] = p]
    /\ UNCHANGED <<alive, storage, type, owner>>

\* push_back throws bad_alloc: the child has left its old parent by then.
\* Under the same parent the erased slot is free, and nothing is allocated.
append_child_throws(p, c) ==
    /\ {p, c} \subseteq Live
    /\ CanAppend(p, c)
    /\ parent[c] \notin {None, p}
    /\ children' = detached(c)
    /\ parent' = [parent EXCEPT ![c] = None]
    /\ UNCHANGED <<alive, storage, type, owner>>

remove_child(p, c) ==
    /\ {p, c} \subseteq Live
    /\ c \in Range(children[p])
    /\ children' = [children EXCEPT ![p] = RemoveFirst(@, c)]
    /\ parent' = [parent EXCEPT ![c] = None]
    /\ UNCHANGED <<alive, storage, type, owner>>

-----------------------------------------------------------------------------
(* Whole documents.                                                         *)

\* The mistake of re-owning what hangs from the document element only.
update_owner_attached(d, e, x) ==
    IF x \in storage[e] /\ e \in AncestorsOf(x) THEN d ELSE owner[x]

\* The mistake of re-owning the top-level nodes only.
update_owner_top_level(d, e, x) == IF x \in Range(children[e]) THEN d ELSE owner[x]

\* update_owner, for the nodes taken over and, through them, their subtrees.
update_owner(d, e, x) ==
    IF x \in storage[e] \/ AncestorsOf(x) \cap storage[e] # {} THEN d ELSE owner[x]

\* The mistake of leaving the moved top-level nodes under the old document.
adopt_parents_kept(d, e, gone, x) == IF x \in gone THEN None ELSE parent[x]

\* set_parent, for the top-level nodes taken over.
adopt(d, e, gone, x) ==
    IF x \in gone THEN None
    ELSE IF x \in Range(children[e]) THEN d
    ELSE parent[x]

\* Storage, children and ownership of e pass to d; the nodes in gone end.
TakeOver(d, e, gone) ==
    /\ storage' = [storage EXCEPT ![d] = storage[e], ![e] = {}]
    /\ children' = [x \in Objects |-> IF x = d THEN children[e]
                                      ELSE IF x \in gone \cup {e} THEN <<>>
                                      ELSE children[x]]
    /\ parent' = [x \in Objects |-> adopt(d, e, gone, x)]
    /\ owner' = [x \in Objects |-> IF x \in gone THEN None ELSE update_owner(d, e, x)]
    /\ type' = [n \in Nodes |-> IF n \in gone THEN "Leaf" ELSE type[n]]

MoveConstruct(d, e) ==
    /\ e \in alive /\ d \notin alive
    /\ TakeOver(d, e, {})
    /\ alive' = alive \cup {d}

\* Move assignment; assigning a document to itself does nothing.
MoveAssign(d, e) ==
    /\ {d, e} \subseteq alive /\ d # e
    /\ TakeOver(d, e, storage[d])
    /\ UNCHANGED alive

Destroy(d) ==
    /\ d \in alive
    /\ alive' = alive \ {d}
    /\ storage' = [storage EXCEPT ![d] = {}]
    /\ children' = [x \in Objects |-> IF x \in storage[d] \cup {d} THEN <<>> ELSE children[x]]
    /\ parent' = [x \in Objects |-> IF x \in storage[d] THEN None ELSE parent[x]]
    /\ owner' = [x \in Objects |-> IF x \in storage[d] THEN None ELSE owner[x]]
    /\ type' = [n \in Nodes |-> IF n \in storage[d] THEN "Leaf" ELSE type[n]]

Next ==
    \/ \E d \in Documents : Construct(d) \/ Destroy(d)
    \/ \E d \in Documents, n \in Nodes, t \in NodeTypes : make_node(d, n, t)
    \/ \E p \in Objects, c \in Objects :
          \/ append_child(p, c)
          \/ append_child_throws(p, c)
          \/ remove_child(p, c)
    \/ \E d, e \in Documents : MoveConstruct(d, e) \/ MoveAssign(d, e)

Spec == Init /\ [][Next]_vars

-----------------------------------------------------------------------------
(* Properties.                                                              *)

\* The fields hold objects of the right kinds, only live documents own or
\* hold anything, and a document is always its own owner.
TypeOK ==
    /\ alive \in SUBSET Documents
    /\ storage \in [Documents -> SUBSET Nodes]
    /\ type \in [Nodes -> NodeTypes]
    /\ owner \in [Objects -> Documents \cup {None}]
    /\ parent \in [Objects -> Objects \cup {None}]
    /\ children \in [Objects -> Seq(Nodes)]
    /\ \A d \in Documents : owner[d] = d /\ parent[d] = None

\* Invariant: the two directions of the tree agree.  A node is in the
\* children of x exactly when x is its parent, and it is there once: no
\* insertion, removal, move or failure leaves one side of a link behind.
LinksAgree ==
    /\ \A x \in Objects : IsInjective(children[x])
    /\ \A x \in Objects, n \in Nodes : n \in Range(children[x]) <=> parent[n] = x

\* Invariant: a node's owner is the live document whose storage holds it,
\* attached or not, and what hangs together has one owner; so no link ever
\* leads to a destroyed object, or into another document.
OwnersAgree ==
    /\ \A d \in Documents, n \in Nodes : n \in storage[d] <=> owner[n] = d
    /\ \A d \in Documents : d \notin alive => storage[d] = {} /\ children[d] = <<>>
    /\ \A n \in Nodes : parent[n] # None => owner[n] # None /\ owner[parent[n]] = owner[n]

\* Invariant: there are no cycles, so that is_ancestor_of, update_owner,
\* depth_first and serialize come to an end: any set of objects has one
\* whose parent is outside it.
Acyclic == \A S \in SUBSET Objects : S # {} => \E x \in S : parent[x] \notin S

\* Invariant: a document never has two document elements (append_child).
OneDocumentElement == \A d \in Documents : \A m, n \in document_elements(d) : m = n

\* Invariant: the traversals agree.  depth_first lists every node attached
\* to the document once and after its parent, and the next sibling of a node
\* is the first one of its parent's children listed after it, as the node
\* itself is the previous sibling of that one.
TraversalsAgree ==
    \A d \in alive :
        LET nodes == depth_first(d)
            place == [n \in Range(nodes) |-> CHOOSE i \in DOMAIN nodes : nodes[i] = n]
            later(m) == {n \in Range(nodes) : parent[n] = parent[m] /\ place[m] < place[n]}
        IN  /\ IsInjective(nodes)
            /\ Range(nodes) = {n \in Nodes : d \in AncestorsOf(n)}
            /\ \A n \in Range(nodes) : parent[n] # d => place[parent[n]] < place[n]
            /\ \A m, n \in Range(nodes) :
                  LET adjacent == n \in later(m) /\ later(m) \subseteq later(n) \cup {n}
                  IN  /\ adjacent <=> next_sibling(m) = n
                      /\ adjacent <=> previous_sibling(n) = m

Follows(m, n) == parent[m] # None /\ parent[m] = parent[n] /\ Position(m) < Position(n)

\* Action property: siblings keep their order through every operation, a
\* move of the whole document included; only the node just appended may
\* change places with its siblings, to come last (append_child).
SiblingOrderKept ==
    [][\A m, n \in Nodes :
          Follows(m, n) /\ Follows(n, m)' => (next_sibling(m) = None)']_vars

\* Action property: nodes of one document stay together.  Whatever happens,
\* detached nodes follow the attached ones to the document they are moved
\* to, and are destroyed with them (update_owner, ~Document).
NodesStayTogether ==
    [][\A m, n \in Nodes :
          owner[m] = owner[n] /\ owner[m] # None => owner'[m] = owner'[n]]_vars
=============================================================================
