--------------------------- MODULE DomTreeProofs ---------------------------
(***************************************************************************)
(* The invariants of DomTree, for any number of documents and nodes.       *)
(* Together they are inductive: an insertion needs LinksAgree to detach    *)
(* the child from the only place it is in, OwnersAgree to stay within one  *)
(* document, and Acyclic to stay a forest.  What a step may do follows: it *)
(* keeps the nodes of a document together, and siblings in order.          *)
(*                                                                         *)
(* Then the order of a document's nodes: what depth_first lists is in      *)
(* order and complete, by induction on the depth it goes to; there is one  *)
(* such list only; and appending at the last place, or moving the          *)
(* document, keeps it, which is what DomBuilder needs.                     *)
(***************************************************************************)
EXTENDS DomTree, SequenceLemmas

TreeInv ==
    /\ TypeOK
    /\ LinksAgree
    /\ OwnersAgree
    /\ Acyclic
    /\ OneDocumentElement

-----------------------------------------------------------------------------
(* What the pieces of the operations do.                                    *)

\* Detaching a node removes it from every list of children, and nothing
\* else.
LEMMA DetachedFacts ==
    ASSUME TypeOK, LinksAgree, NEW c \in Nodes
    PROVE  /\ detached(c) \in [Objects -> Seq(Nodes)]
           /\ \A x \in Objects : /\ IsInjective(detached(c)[x])
                                 /\ Range(detached(c)[x]) = Range(children[x]) \ {c}
<1>1. children \in [Objects -> Seq(Nodes)] /\ parent \in [Objects -> Objects \cup {None}]
  BY DEF TypeOK
<1>2. \A x \in Objects : IsInjective(children[x])
  BY DEF LinksAgree
<1>3. \A x \in Objects : c \in Range(children[x]) <=> parent[c] = x
  BY DEF LinksAgree
<1>4. CASE parent[c] = None
  <2>1. \A x \in Objects : c \notin Range(children[x])
    BY <1>3, <1>4, ObjectsAssumption
  <2> QED BY <1>1, <1>2, <1>4, <2>1 DEF detached
<1>5. CASE parent[c] # None
  <2>1. parent[c] \in Objects
    BY <1>1, <1>5 DEF Objects
  <2> DEFINE p == parent[c]
             s == children[p]
  <2>2. s \in Seq(Nodes) /\ IsInjective(s) /\ c \in Range(s)
    BY <1>1, <1>2, <1>3, <2>1
  <2>3. /\ RemoveFirst(s, c) \in Seq(Nodes)
        /\ IsInjective(RemoveFirst(s, c))
        /\ Range(RemoveFirst(s, c)) = Range(s) \ {c}
    BY <2>2, RemoveFirstFacts
  <2>4. detached(c) = [children EXCEPT ![p] = RemoveFirst(s, c)]
    BY <1>5 DEF detached
  <2> HIDE DEF s
  <2>5. detached(c) \in [Objects -> Seq(Nodes)]
    BY <1>1, <2>1, <2>3, <2>4
  <2>6. ASSUME NEW x \in Objects
        PROVE  IsInjective(detached(c)[x]) /\ Range(detached(c)[x]) = Range(children[x]) \ {c}
    <3>1. CASE x = p
      <4>1. detached(c)[x] = RemoveFirst(s, c)
        BY <1>1, <2>1, <2>4, <3>1
      <4> QED BY <2>3, <3>1, <4>1 DEF s
    <3>2. CASE x # p
      <4>1. detached(c)[x] = children[x]
        BY <1>1, <2>1, <2>4, <3>2
      <4> QED BY <1>2, <1>3, <3>2, <4>1
    <3> QED BY <3>1, <3>2
  <2> QED BY <2>5, <2>6
<1> QED BY <1>4, <1>5

\* Inserting a node that is in no list adds it to one.
LEMMA InsertedFacts ==
    ASSUME NEW kids \in [Objects -> Seq(Nodes)], NEW p \in Objects, NEW c \in Nodes,
           \A x \in Objects : IsInjective(kids[x]),
           c \notin Range(kids[p])
    PROVE  /\ inserted(kids, p, c) \in [Objects -> Seq(Nodes)]
           /\ \A x \in Objects :
                 /\ IsInjective(inserted(kids, p, c)[x])
                 /\ Range(inserted(kids, p, c)[x]) =
                       IF x = p THEN Range(kids[x]) \cup {c} ELSE Range(kids[x])
<1>1. kids[p] \in Seq(Nodes) /\ IsInjective(kids[p])
  OBVIOUS
<1>2. /\ Append(kids[p], c) \in Seq(Nodes)
      /\ IsInjective(Append(kids[p], c))
      /\ Range(Append(kids[p], c)) = Range(kids[p]) \cup {c}
  BY <1>1, AppendNewFacts
<1>3. inserted(kids, p, c) = [kids EXCEPT ![p] = Append(kids[p], c)]
  BY DEF inserted
<1> QED BY <1>2, <1>3

\* The ancestors of an object, with it, are closed under parent.
LEMMA AncestorsClosed ==
    ASSUME TypeOK, NEW p \in Objects, NEW x \in AncestorsOf(p) \cup {p}, parent[x] # None
    PROVE  parent[x] \in AncestorsOf(p)
<1>1. x \in Objects
  BY DEF AncestorsOf
<1>2. parent[x] \in Objects
  BY <1>1 DEF TypeOK
<1>3. ASSUME NEW S \in SUBSET Objects, ClosedAbove(p, S) PROVE parent[x] \in S
  <2>1. x \in S \cup {p}
    BY <1>3 DEF AncestorsOf
  <2> QED BY <1>3, <2>1 DEF ClosedAbove
<1> QED BY <1>2, <1>3 DEF AncestorsOf

\* Following parent() never leaves the storage of a document for another's:
\* update_owner reaches the nodes of the storage and no other.
LEMMA UpdateOwnerFacts ==
    ASSUME TypeOK, OwnersAgree, NEW d \in Documents, NEW e \in Documents, NEW x \in Objects
    PROVE  update_owner(d, e, x) = IF x \in storage[e] THEN d ELSE owner[x]
<1> DEFINE S == {y \in Objects : y \notin storage[e]}
<1>1. SUFFICES ASSUME x \notin storage[e] PROVE AncestorsOf(x) \cap storage[e] = {}
  BY DEF update_owner
<1>2. ASSUME NEW y \in S, parent[y] # None PROVE parent[y] \in S
  <2>1. parent[y] \in Objects
    BY <1>2 DEF TypeOK
  <2>2. y \in Nodes
    BY <1>2 DEF TypeOK, Objects
  <2>3. CASE parent[y] \in storage[e]
    <3>1. parent[y] \in Nodes
      BY <2>3 DEF TypeOK
    <3>2. owner[parent[y]] = e
      BY <2>3, <3>1 DEF OwnersAgree
    <3>3. owner[y] = e
      BY <1>2, <2>2, <3>2 DEF OwnersAgree
    <3> QED BY <2>2, <3>3, <1>2 DEF OwnersAgree
  <2> QED BY <2>1, <2>3
<1>3. ClosedAbove(x, S)
  BY <1>1, <1>2 DEF ClosedAbove
<1>4. S \in SUBSET Objects
  OBVIOUS
<1>5. AncestorsOf(x) \subseteq S
  BY <1>3, <1>4 DEF AncestorsOf
<1> QED BY <1>5

\* A node outside every storage is linked to nothing.
LEMMA FreshNodesAreBlank ==
    ASSUME TypeOK, LinksAgree, OwnersAgree, NEW n \in Nodes, n \notin Stored
    PROVE  /\ owner[n] = None
           /\ parent[n] = None
           /\ \A x \in Objects : parent[x] # n
<1>1. owner[n] = None
  <2>1. ASSUME NEW d \in Documents, owner[n] = d PROVE FALSE
    <3>1. n \in storage[d]
      BY <2>1 DEF OwnersAgree
    <3>2. d \in alive
      BY <3>1 DEF OwnersAgree
    <3> QED BY <3>1, <3>2 DEF Stored
  <2> QED BY <2>1 DEF TypeOK, Objects
<1>2. parent[n] = None
  BY <1>1 DEF OwnersAgree
<1>3. ASSUME NEW x \in Objects, parent[x] = n PROVE FALSE
  <2>1. parent[x] # None
    BY <1>3, ObjectsAssumption DEF Objects
  <2>2. x \in Nodes
    BY <2>1 DEF TypeOK, Objects
  <2> QED BY <1>1, <1>3, <2>1, <2>2 DEF OwnersAgree
<1> QED BY <1>1, <1>2, <1>3

-----------------------------------------------------------------------------
(* One lemma per operation.                                                 *)

\* An empty program has an empty forest.
LEMMA InitTreeInv == Init => TreeInv
<1> SUFFICES ASSUME Init PROVE TreeInv
  OBVIOUS
<1> USE DEF Init
<1>1. \A x \in Objects : /\ children[x] = <<>>
                         /\ children[x] \in Seq(Nodes)
                         /\ IsInjective(children[x])
                         /\ Range(children[x]) = {}
  BY EmptyFacts
<1>2. \A x \in Objects : parent[x] = None /\ None \notin Objects
  BY ObjectsAssumption
<1>3. \A n \in Nodes : n \in Objects /\ n \notin Documents
  BY ObjectsAssumption DEF Objects
<1>4. \A d \in Documents : d \in Objects /\ d # None
  BY ObjectsAssumption DEF Objects
<1>5. TypeOK
  BY <1>1, <1>2, <1>4 DEF TypeOK, NodeTypes
<1>6. LinksAgree
  BY <1>1, <1>2, <1>3 DEF LinksAgree
<1>7. OwnersAgree
  BY <1>1, <1>2, <1>3, <1>4 DEF OwnersAgree
<1>8. Acyclic
  BY <1>2 DEF Acyclic
<1>9. OneDocumentElement
  BY <1>1, <1>4 DEF OneDocumentElement, document_elements
<1> QED BY <1>5, <1>6, <1>7, <1>8, <1>9 DEF TreeInv

\* A new document owns and holds nothing.
LEMMA ConstructTreeInv == ASSUME TreeInv, NEW d \in Documents, Construct(d) PROVE TreeInv'
<1>1. TypeOK'
  BY DEF TreeInv, TypeOK, Construct
<1>2. LinksAgree'
  BY DEF TreeInv, LinksAgree, Construct
<1>3. OwnersAgree'
  BY DEF TreeInv, OwnersAgree, Construct
<1>4. Acyclic'
  BY DEF TreeInv, Acyclic, Construct
<1>5. OneDocumentElement'
  BY DEF TreeInv, OneDocumentElement, document_elements, Construct
<1> QED BY <1>1, <1>2, <1>3, <1>4, <1>5 DEF TreeInv

\* A created node is owned by its document and attached to nothing.
LEMMA MakeNodeTreeInv ==
    ASSUME TreeInv, NEW d \in Documents, NEW n \in Nodes, NEW t \in NodeTypes, make_node(d, n, t)
    PROVE  TreeInv'
<1>1. TypeOK /\ LinksAgree /\ OwnersAgree /\ Acyclic /\ OneDocumentElement
  BY DEF TreeInv
<1>2. /\ alive' = alive
      /\ storage' = [storage EXCEPT ![d] = @ \cup {n}]
      /\ type' = [type EXCEPT ![n] = t]
      /\ owner' = [owner EXCEPT ![n] = d]
      /\ d \in alive
      /\ n \notin Stored
  BY DEF make_node
<1>3. /\ owner[n] = None
      /\ parent[n] = None
      /\ \A x \in Objects : parent[x] # n
  BY <1>1, <1>2, FreshNodesAreBlank
<1>4. n \in Objects /\ n \notin Documents /\ d \in Objects /\ None \notin Objects
  BY ObjectsAssumption DEF Objects
<1>5. parent' = parent
  BY <1>1, <1>3, <1>4 DEF make_node, TypeOK
<1>6. /\ children' \in [Objects -> Seq(Nodes)]
      /\ \A x \in Objects : /\ IsInjective(children'[x])
                            /\ Range(children'[x]) = Range(children[x])
      /\ \A x \in Documents : children'[x] = children[x]
  <2>1. <<>> \in Seq(Nodes) /\ IsInjective(<<>>) /\ Range(<<>>) = {}
    BY EmptyFacts
  <2>2. children' = [children EXCEPT ![n] = <<>>]
    BY DEF make_node
  <2>3. children[n] \in Seq(Nodes)
    BY <1>1, <1>4 DEF TypeOK
  <2>4. Range(children[n]) = {}
    <3>1. ASSUME NEW m \in Nodes, m \in Range(children[n]) PROVE FALSE
      <4>1. parent[m] = n
        BY <1>1, <1>4, <3>1 DEF LinksAgree
      <4> QED BY <1>3, <4>1 DEF Objects
    <3>2. Range(children[n]) \subseteq Nodes
      BY <2>3, ElementOfSeq, LenProperties DEF Range
    <3> QED BY <3>1, <3>2
  <2>5. children \in [Objects -> Seq(Nodes)] /\ \A x \in Objects : IsInjective(children[x])
    BY <1>1 DEF TypeOK, LinksAgree
  <2>6. children' \in [Objects -> Seq(Nodes)]
    BY <2>1, <2>2, <2>5
  <2>7. ASSUME NEW x \in Objects
        PROVE  IsInjective(children'[x]) /\ Range(children'[x]) = Range(children[x])
    <3>1. CASE x = n
      <4>1. children'[x] = <<>>
        BY <1>4, <2>2, <2>5, <3>1
      <4> QED BY <2>1, <2>4, <3>1, <4>1
    <3>2. CASE x # n
      <4>1. children'[x] = children[x]
        BY <1>4, <2>2, <2>5, <3>2
      <4> QED BY <2>5, <4>1
    <3> QED BY <3>1, <3>2
  <2>8. \A x \in Documents : children'[x] = children[x]
    BY <1>4, <2>2, <2>5 DEF Objects
  <2> QED BY <2>6, <2>7, <2>8
<1>7. TypeOK'
  <2>1. /\ alive' \in SUBSET Documents
        /\ storage' \in [Documents -> SUBSET Nodes]
        /\ type' \in [Nodes -> NodeTypes]
    BY <1>1, <1>2 DEF TypeOK
  <2>2. owner' \in [Objects -> Documents \cup {None}] /\ \A e \in Documents : owner'[e] = e
    BY <1>1, <1>2, <1>4 DEF TypeOK, Objects
  <2>3. parent' \in [Objects -> Objects \cup {None}] /\ \A e \in Documents : parent'[e] = None
    BY <1>1, <1>5 DEF TypeOK
  <2> QED BY <1>6, <2>1, <2>2, <2>3 DEF TypeOK
<1>8. LinksAgree'
  BY <1>1, <1>5, <1>6 DEF LinksAgree
<1>9. OwnersAgree'
  <2>1. ASSUME NEW e \in Documents, NEW m \in Nodes PROVE (m \in storage'[e] <=> owner'[m] = e)
    <3>1. m \in storage'[e] <=> m \in storage[e] \/ (e = d /\ m = n)
      BY <1>1, <1>2 DEF TypeOK
    <3>2. owner'[m] = IF m = n THEN d ELSE owner[m]
      BY <1>1, <1>2 DEF TypeOK, Objects
    <3>3. m \in storage[e] <=> owner[m] = e
      BY <1>1 DEF OwnersAgree
    <3> QED BY <1>3, <1>4, <3>1, <3>2, <3>3 DEF Objects
  <2>2. ASSUME NEW e \in Documents, e \notin alive' PROVE storage'[e] = {} /\ children'[e] = <<>>
    BY <1>1, <1>2, <1>6, <2>2 DEF OwnersAgree, TypeOK
  <2>3. ASSUME NEW m \in Nodes, parent'[m] # None
        PROVE  owner'[m] # None /\ owner'[parent'[m]] = owner'[m]
    <3>1. m # n /\ parent[m] # n /\ parent[m] \in Objects /\ m \in Objects
      BY <1>1, <1>3, <1>5, <2>3 DEF TypeOK, Objects
    <3>2. owner'[m] = owner[m] /\ owner'[parent[m]] = owner[parent[m]]
      BY <1>1, <1>2, <3>1 DEF TypeOK
    <3> QED BY <1>1, <1>5, <2>3, <3>2 DEF OwnersAgree
  <2> QED BY <2>1, <2>2, <2>3 DEF OwnersAgree
<1>10. Acyclic'
  BY <1>1, <1>5 DEF Acyclic
<1>11. OneDocumentElement'
  <2>1. ASSUME NEW e \in Documents PROVE document_elements(e)' \subseteq document_elements(e)
    <3>1. ASSUME NEW m \in Nodes, m \in Range(children'[e]), type'[m] = "Element"
          PROVE  m \in document_elements(e)
      <4>1. m \in Range(children[e]) /\ parent[m] = e
        BY <1>1, <1>6, <3>1 DEF LinksAgree, Objects
      <4>2. m # n
        BY <1>3, <1>4, <4>1 DEF Objects
      <4>3. type[m] = "Element"
        BY <1>1, <1>2, <3>1, <4>2 DEF TypeOK
      <4> QED BY <4>1, <4>3 DEF document_elements
    <3> QED BY <3>1 DEF document_elements
  <2> QED BY <1>1, <2>1 DEF OneDocumentElement
<1> QED BY <1>7, <1>8, <1>9, <1>10, <1>11 DEF TreeInv

\* Detaching a node, wherever it is, keeps the forest.
LEMMA DetachTreeInv ==
    ASSUME TreeInv, NEW c \in Nodes,
           children' = detached(c),
           parent' = [parent EXCEPT ![c] = None],
           UNCHANGED <<alive, storage, type, owner>>
    PROVE  TreeInv'
<1>1. TypeOK /\ LinksAgree /\ OwnersAgree /\ Acyclic /\ OneDocumentElement
  BY DEF TreeInv
<1>2. /\ children' \in [Objects -> Seq(Nodes)]
      /\ \A x \in Objects : /\ IsInjective(children'[x])
                            /\ Range(children'[x]) = Range(children[x]) \ {c}
  BY <1>1, DetachedFacts
<1>3. \A x \in Objects : parent'[x] = IF x = c THEN None ELSE parent[x]
  BY <1>1 DEF TypeOK
<1>4. c \in Objects /\ c \notin Documents /\ None \notin Objects
  BY ObjectsAssumption DEF Objects
<1>5. TypeOK'
  <2>1. parent' \in [Objects -> Objects \cup {None}] /\ \A e \in Documents : parent'[e] = None
    BY <1>1, <1>3, <1>4 DEF TypeOK, Objects
  <2> QED BY <1>1, <1>2, <2>1 DEF TypeOK
<1>6. LinksAgree'
  <2>1. ASSUME NEW x \in Objects, NEW n \in Nodes
        PROVE  n \in Range(children'[x]) <=> parent'[n] = x
    <3>1. n \in Objects
      BY DEF Objects
    <3>2. n \in Range(children[x]) <=> parent[n] = x
      BY <1>1 DEF LinksAgree
    <3> QED BY <1>2, <1>3, <1>4, <3>1, <3>2
  <2> QED BY <1>2, <2>1 DEF LinksAgree
<1>7. OwnersAgree'
  <2>1. ASSUME NEW e \in Documents, e \notin alive PROVE children'[e] = <<>>
    <3>1. children[e] = <<>>
      BY <1>1, <2>1 DEF OwnersAgree
    <3>2. parent[c] # e
      <4>1. Range(children[e]) = {}
        BY <3>1, EmptyFacts
      <4> QED BY <1>1, <4>1 DEF LinksAgree, Objects
    <3> QED BY <1>1, <3>1, <3>2 DEF detached, TypeOK, Objects
  <2>2. ASSUME NEW n \in Nodes, parent'[n] # None
        PROVE  owner[n] # None /\ owner[parent'[n]] = owner[n]
    <3>1. parent'[n] = parent[n] /\ parent[n] # None
      BY <1>3, <2>2 DEF Objects
    <3> QED BY <1>1, <3>1 DEF OwnersAgree
  <2> QED BY <1>1, <2>1, <2>2 DEF OwnersAgree
<1>8. Acyclic'
  <2>1. ASSUME NEW S \in SUBSET Objects, S # {} PROVE \E x \in S : parent'[x] \notin S
    <3>1. PICK x \in S : parent[x] \notin S
      BY <1>1, <2>1 DEF Acyclic
    <3> QED BY <1>3, <1>4, <3>1
  <2> QED BY <2>1 DEF Acyclic
<1>9. OneDocumentElement'
  <2>1. \A e \in Documents : document_elements(e)' \subseteq document_elements(e)
    BY <1>2 DEF document_elements, Objects
  <2> QED BY <1>1, <2>1 DEF OneDocumentElement
<1> QED BY <1>5, <1>6, <1>7, <1>8, <1>9 DEF TreeInv

\* A failed append leaves the child detached, and the forest in order.
LEMMA AppendThrowsTreeInv ==
    ASSUME TreeInv, NEW p \in Objects, NEW c \in Objects, append_child_throws(p, c)
    PROVE  TreeInv'
BY DetachTreeInv DEF append_child_throws, CanAppend

\* remove_child detaches.
LEMMA RemoveChildTreeInv ==
    ASSUME TreeInv, NEW p \in Objects, NEW c \in Objects, remove_child(p, c)
    PROVE  TreeInv'
<1>1. TypeOK /\ LinksAgree
  BY DEF TreeInv
<1>2. c \in Range(children[p])
  BY DEF remove_child
<1>3. children[p] \in Seq(Nodes)
  BY <1>1 DEF TypeOK
<1>4. Range(children[p]) \subseteq Nodes
  BY <1>3, ElementOfSeq, LenProperties DEF Range
<1>5. parent[c] = p /\ p # None
  BY <1>1, <1>2, <1>4, ObjectsAssumption DEF LinksAgree
<1>6. children' = detached(c)
  BY <1>5 DEF remove_child, detached
<1> QED BY <1>2, <1>4, <1>6, DetachTreeInv DEF remove_child

\* Appending detaches the child from its old place and adds it to the new
\* one.  No cycle is closed: a set of objects closed under the new parent
\* links would hold the child and its new parent, and with it ancestors of
\* the new parent only, of which the child is none.
LEMMA AppendTreeInv ==
    ASSUME TreeInv, NEW p \in Objects, NEW c \in Objects, append_child(p, c)
    PROVE  TreeInv'
<1>1. TypeOK /\ LinksAgree /\ OwnersAgree /\ Acyclic /\ OneDocumentElement
  BY DEF TreeInv
<1>2. /\ {p, c} \subseteq Live
      /\ c \in Nodes
      /\ owner[c] = owner[p]
      /\ c # p
      /\ c \notin AncestorsOf(p)
      /\ p \in Documents /\ type[c] = "Element" => document_elements(p) \subseteq {c}
      /\ UNCHANGED <<alive, storage, type, owner>>
  BY DEF append_child, CanAppend
<1>3. c \in Objects /\ c \notin Documents /\ None \notin Objects /\ p # None
  BY <1>2, ObjectsAssumption DEF Objects
<1>4. /\ children' \in [Objects -> Seq(Nodes)]
      /\ \A x \in Objects :
            /\ IsInjective(children'[x])
            /\ Range(children'[x]) = IF x = p THEN (Range(children[x]) \ {c}) \cup {c}
                                              ELSE Range(children[x]) \ {c}
  <2> DEFINE kids == detached(c)
  <2>1. /\ kids \in [Objects -> Seq(Nodes)]
        /\ \A x \in Objects : /\ IsInjective(kids[x])
                              /\ Range(kids[x]) = Range(children[x]) \ {c}
    BY <1>1, <1>2, DetachedFacts
  <2>2. children' = inserted(kids, p, c)
    BY DEF append_child
  <2> HIDE DEF kids
  <2>3. c \notin Range(kids[p]) /\ kids \in [Objects -> Seq(Nodes)]
    BY <2>1
  <2>5. \A x \in Objects : IsInjective(kids[x])
    BY <2>1
  <2>4. /\ inserted(kids, p, c) \in [Objects -> Seq(Nodes)]
        /\ \A x \in Objects :
              /\ IsInjective(inserted(kids, p, c)[x])
              /\ Range(inserted(kids, p, c)[x]) =
                    IF x = p THEN Range(kids[x]) \cup {c} ELSE Range(kids[x])
    BY <1>2, <2>3, <2>5, InsertedFacts
  <2> QED BY <2>1, <2>2, <2>4
<1>5. \A x \in Objects : parent'[x] = IF x = c THEN p ELSE parent[x]
  BY <1>1 DEF append_child, TypeOK
<1>6. TypeOK'
  <2>1. parent' \in [Objects -> Objects \cup {None}]
    BY <1>1 DEF append_child, TypeOK
  <2>2. \A e \in Documents : parent'[e] = None
    BY <1>1, <1>3, <1>5 DEF TypeOK, Objects
  <2> QED BY <1>1, <1>2, <1>4, <2>1, <2>2 DEF TypeOK
<1>7. LinksAgree'
  <2>1. ASSUME NEW x \in Objects, NEW n \in Nodes
        PROVE  n \in Range(children'[x]) <=> parent'[n] = x
    <3>1. n \in Objects
      BY DEF Objects
    <3>2. n \in Range(children[x]) <=> parent[n] = x
      BY <1>1 DEF LinksAgree
    <3> QED BY <1>4, <1>5, <3>1, <3>2
  <2> QED BY <1>4, <2>1 DEF LinksAgree
<1>8. OwnersAgree'
  <2>1. ASSUME NEW e \in Documents, e \notin alive PROVE children'[e] = <<>>
    <3>1. children[e] = <<>>
      BY <1>1, <2>1 DEF OwnersAgree
    <3>2. parent[c] # e
      <4>1. Range(children[e]) = {}
        BY <3>1, EmptyFacts
      <4> QED BY <1>1, <1>2, <4>1 DEF LinksAgree, Objects
    <3>3. p # e
      <4>1. e \notin Stored
        BY <1>1, <2>1, ObjectsAssumption DEF Stored, TypeOK
      <4> QED BY <1>2, <2>1, <4>1 DEF Live
    <3> QED BY <1>1, <3>1, <3>2, <3>3 DEF append_child, inserted, detached, TypeOK, Objects
  <2>2. ASSUME NEW n \in Nodes, parent'[n] # None
        PROVE  owner[n] # None /\ owner[parent'[n]] = owner[n]
    <3>1. CASE n = c
      <4>1. parent'[n] = p
        BY <1>3, <1>5, <3>1
      <4>2. owner[c] # None
        <5>1. c \in Stored
          BY <1>1, <1>2, <1>3 DEF Live, TypeOK
        <5>2. PICK e \in alive : c \in storage[e]
          BY <5>1 DEF Stored
        <5>3. owner[c] = e /\ e # None
          BY <1>1, <1>2, <1>3, <5>2 DEF OwnersAgree, TypeOK, Objects
        <5> QED BY <5>3
      <4> QED BY <1>2, <3>1, <4>1, <4>2
    <3>2. CASE n # c
      BY <1>1, <1>5, <2>2, <3>2 DEF OwnersAgree, Objects
    <3> QED BY <3>1, <3>2
  <2> QED BY <1>1, <1>2, <2>1, <2>2 DEF OwnersAgree
<1>9. Acyclic'
  <2> DEFINE A == AncestorsOf(p) \cup {p}
  <2>1. ASSUME NEW S \in SUBSET Objects, S # {}, \A x \in S : parent'[x] \in S PROVE FALSE
    <3>1. PICK y \in S : parent[y] \notin S
      BY <1>1, <2>1 DEF Acyclic
    <3>2. p \in S
      BY <1>5, <2>1, <3>1
    <3>3. S \cap A \in SUBSET Objects /\ S \cap A # {}
      BY <3>2
    <3>4. PICK x \in S \cap A : parent[x] \notin S \cap A
      BY <1>1, <3>3 DEF Acyclic
    <3>5. x # c
      BY <1>2, <3>4
    <3>6. parent[x] \in S
      BY <1>5, <2>1, <3>4, <3>5
    <3>7. parent[x] # None
      BY <1>3, <3>6
    <3>8. parent[x] \in AncestorsOf(p)
      BY <1>1, <3>4, <3>7, AncestorsClosed
    <3> QED BY <3>4, <3>6, <3>8
  <2> QED BY <2>1 DEF Acyclic
<1>10. OneDocumentElement'
  <2>1. ASSUME NEW e \in Documents PROVE \A m, n \in document_elements(e)' : m = n
    <3>1. CASE e = p /\ type[c] = "Element"
      <4>1. document_elements(e)' \subseteq document_elements(e) \cup {c}
        BY <1>2, <1>4 DEF document_elements, Objects
      <4> QED BY <1>2, <3>1, <4>1
    <3>2. CASE ~(e = p /\ type[c] = "Element")
      <4>1. document_elements(e)' \subseteq document_elements(e)
        BY <1>2, <1>4, <3>2 DEF document_elements, Objects
      <4> QED BY <1>1, <4>1 DEF OneDocumentElement
    <3> QED BY <3>1, <3>2
  <2> QED BY <2>1 DEF OneDocumentElement
<1> QED BY <1>6, <1>7, <1>8, <1>9, <1>10 DEF TreeInv

\* Taking over the storage of a document takes the whole forest of it along,
\* and the forest that was there before is gone with its links.
LEMMA TakeOverTreeInv ==
    ASSUME TreeInv, NEW d \in Documents, NEW e \in Documents, d # e,
           TakeOver(d, e, storage[d]),
           alive' = alive \cup {d}
    PROVE  TreeInv'
<1> DEFINE gone == storage[d]
<1>1. TypeOK /\ LinksAgree /\ OwnersAgree /\ Acyclic /\ OneDocumentElement
  BY DEF TreeInv
<1>2. /\ d \in Objects /\ e \in Objects /\ None \notin Objects /\ d # None
      /\ gone \subseteq Nodes
      /\ storage[e] \subseteq Nodes
      /\ \A n \in Nodes : n \in Objects /\ n \notin Documents
  BY <1>1, ObjectsAssumption DEF Objects, TypeOK
<1>3. \A n \in Nodes : /\ n \in gone <=> owner[n] = d
                       /\ n \in storage[e] <=> owner[n] = e
  BY <1>1 DEF OwnersAgree
<1>4. ASSUME NEW n \in Nodes, parent[n] # None
      PROVE  /\ owner[parent[n]] = owner[n]
             /\ parent[n] \in Documents => parent[n] = owner[n]
  BY <1>1, <1>4 DEF OwnersAgree, TypeOK
<1>5. /\ storage' = [storage EXCEPT ![d] = storage[e], ![e] = {}]
      /\ children' = [x \in Objects |-> IF x = d THEN children[e]
                                        ELSE IF x \in gone \cup {e} THEN <<>>
                                        ELSE children[x]]
      /\ type' = [n \in Nodes |-> IF n \in gone THEN "Leaf" ELSE type[n]]
  BY DEF TakeOver
<1>6. \A x \in Objects : parent'[x] = IF x \in gone THEN None
                                      ELSE IF x \in Range(children[e]) THEN d
                                      ELSE parent[x]
  BY DEF TakeOver, adopt
<1>7. owner' = [x \in Objects |-> IF x \in gone THEN None
                                  ELSE IF x \in storage[e] THEN d
                                  ELSE owner[x]]
  BY <1>1, UpdateOwnerFacts DEF TakeOver
<1>8. Range(children[e]) \subseteq Nodes
  <2>1. children[e] \in Seq(Nodes)
    BY <1>1, <1>2 DEF TypeOK
  <2> QED BY <2>1, ElementOfSeq, LenProperties DEF Range
<1>9. \A n \in Nodes : n \in Range(children[e]) <=> parent[n] = e
  BY <1>1, <1>2 DEF LinksAgree
<1> HIDE DEF gone
<1>10. \A n \in Nodes : parent'[n] = IF n \in gone THEN None
                                     ELSE IF parent[n] = e THEN d
                                     ELSE parent[n]
  BY <1>2, <1>6, <1>9
<1>11. \A b \in Documents : parent'[b] = None
  <2> TAKE b \in Documents
  <2>1. b \in Objects /\ b \notin Nodes
    BY ObjectsAssumption DEF Objects
  <2>2. parent[b] = None
    BY <1>1 DEF TypeOK
  <2> QED BY <1>2, <1>6, <1>8, <2>1, <2>2
<1>12. TypeOK'
  <2>1. alive' \in SUBSET Documents
    BY <1>1 DEF TypeOK
  <2>2. storage' \in [Documents -> SUBSET Nodes]
    BY <1>1, <1>2, <1>5 DEF TypeOK
  <2>3. type' \in [Nodes -> NodeTypes]
    BY <1>1, <1>5 DEF TypeOK, NodeTypes
  <2>4. owner' \in [Objects -> Documents \cup {None}]
    BY <1>1, <1>7 DEF TypeOK
  <2>5. parent' \in [Objects -> Objects \cup {None}]
    <3>1. parent' = [x \in Objects |-> adopt(d, e, storage[d], x)]
      BY DEF TakeOver
    <3>2. \A x \in Objects : parent'[x] \in Objects \cup {None}
      BY <1>1, <1>2, <1>6 DEF TypeOK
    <3> QED BY <3>1, <3>2
  <2>6. children' \in [Objects -> Seq(Nodes)]
    BY <1>1, <1>2, <1>5, EmptyFacts DEF TypeOK
  <2>7. \A b \in Documents : owner'[b] = b
    <3> TAKE b \in Documents
    <3>1. b \in Objects /\ b \notin Nodes /\ owner[b] = b
      BY <1>1, ObjectsAssumption DEF Objects, TypeOK
    <3> QED BY <1>2, <1>7, <3>1
  <2> QED BY <1>11, <2>1, <2>2, <2>3, <2>4, <2>5, <2>6, <2>7 DEF TypeOK
<1>13. LinksAgree'
  <2>1. \A x \in Objects : IsInjective(children'[x])
    BY <1>1, <1>2, <1>5, EmptyFacts DEF LinksAgree
  <2>2. ASSUME NEW x \in Objects, NEW n \in Nodes
        PROVE  n \in Range(children'[x]) <=> parent'[n] = x
    <3>1. n \in Range(children[x]) <=> parent[n] = x
      BY <1>1 DEF LinksAgree
    <3>2. x # None /\ n \in Objects
      BY <1>2
    <3>3. CASE x = d
      <4>1. n \in Range(children'[x]) <=> parent[n] = e
        BY <1>5, <1>9, <3>3
      <4>2. parent[n] = e => n \notin gone
        BY <1>2, <1>3, <1>4
      <4>3. parent[n] = d => n \in gone
        BY <1>2, <1>3, <1>4
      <4> QED BY <1>2, <1>10, <3>3, <4>1, <4>2, <4>3
    <3>4. CASE x = e
      <4>1. Range(children'[x]) = {}
        BY <1>5, <3>4, EmptyFacts
      <4>2. parent'[n] # e
        BY <1>2, <1>10
      <4> QED BY <3>4, <4>1, <4>2
    <3>5. CASE x \in gone
      <4>1. Range(children'[x]) = {}
        BY <1>2, <1>5, <3>5, EmptyFacts
      <4>2. x \in Nodes /\ x # d /\ owner[x] = d
        BY <1>2, <1>3, <3>5
      <4>3. parent[n] = x => n \in gone
        BY <1>3, <1>4, <3>2, <4>2
      <4>4. parent'[n] # x
        BY <1>10, <3>2, <4>2, <4>3
      <4> QED BY <4>1, <4>4
    <3>6. CASE x # d /\ x # e /\ x \notin gone
      <4>1. children'[x] = children[x]
        BY <1>5, <3>6
      <4>2. parent[n] = x => n \notin gone
        <5>1. ASSUME parent[n] = x, n \in gone PROVE FALSE
          <6>1. owner[n] = d /\ owner[x] = d
            BY <1>3, <1>4, <3>2, <5>1
          <6>2. x \in Documents \/ x \in Nodes
            BY DEF Objects
          <6> QED BY <1>3, <1>4, <3>2, <3>6, <5>1, <6>1, <6>2
        <5> QED BY <5>1
      <4> QED BY <1>10, <3>1, <3>2, <3>6, <4>1, <4>2
    <3> QED BY <3>3, <3>4, <3>5, <3>6
  <2> QED BY <2>1, <2>2 DEF LinksAgree
<1>14. OwnersAgree'
  <2>1. ASSUME NEW b \in Documents, NEW n \in Nodes PROVE n \in storage'[b] <=> owner'[n] = b
    <3>1. owner'[n] = IF owner[n] = d THEN None ELSE IF owner[n] = e THEN d ELSE owner[n]
      BY <1>2, <1>3, <1>7
    <3>2. storage'[b] = IF b = e THEN {} ELSE IF b = d THEN storage[e] ELSE storage[b]
      BY <1>1, <1>5 DEF TypeOK
    <3>3. n \in storage[b] <=> owner[n] = b
      BY <1>1 DEF OwnersAgree
    <3>4. b # None
      BY <1>2 DEF Objects
    <3> QED BY <1>2, <1>3, <3>1, <3>2, <3>3, <3>4
  <2>2. ASSUME NEW b \in Documents, b \notin alive' PROVE storage'[b] = {} /\ children'[b] = <<>>
    <3>1. b \notin alive /\ b # d /\ b \in Objects
      BY <2>2 DEF Objects
    <3>2. storage[b] = {} /\ children[b] = <<>>
      BY <1>1, <3>1 DEF OwnersAgree
    <3> QED BY <1>1, <1>5, <3>1, <3>2 DEF TypeOK
  <2>3. ASSUME NEW n \in Nodes, parent'[n] # None
        PROVE  owner'[n] # None /\ owner'[parent'[n]] = owner'[n]
    <3>1. n \notin gone /\ n \in Objects
      BY <1>2, <1>10, <2>3
    <3>2. CASE parent[n] = e
      <4>1. parent'[n] = d
        BY <1>10, <3>1, <3>2
      <4>2. owner[n] = e
        BY <1>2, <1>4, <3>2
      <4>3. owner'[n] = d
        BY <1>3, <1>7, <3>1, <4>2
      <4>4. owner'[d] = d
        BY <1>12 DEF TypeOK
      <4> QED BY <1>2, <4>1, <4>3, <4>4
    <3>3. CASE parent[n] # e
      <4>1. parent'[n] = parent[n] /\ parent[n] # None /\ parent[n] \in Objects
        BY <1>1, <1>10, <2>3, <3>1, <3>3 DEF TypeOK
      <4>2. owner[n] # None /\ owner[parent[n]] = owner[n]
        BY <1>1, <4>1 DEF OwnersAgree
      <4>3. owner[n] # d
        BY <1>3, <3>1
      <4>4. CASE parent[n] \in Nodes
        <5>1. parent[n] \notin gone /\ (parent[n] \in storage[e] <=> n \in storage[e])
          BY <1>3, <4>2, <4>3, <4>4
        <5> QED BY <1>2, <1>7, <3>1, <4>1, <4>2, <5>1
      <4>5. CASE parent[n] \in Documents
        <5>1. parent[n] = owner[n] /\ parent[n] \notin Nodes
          BY <1>4, <4>1, <4>5, ObjectsAssumption
        <5>2. n \notin storage[e] /\ parent[n] \notin gone /\ parent[n] \notin storage[e]
          BY <1>2, <1>3, <3>3, <5>1
        <5> QED BY <1>7, <3>1, <4>1, <4>2, <5>1, <5>2
      <4> QED BY <4>1, <4>4, <4>5 DEF Objects
    <3> QED BY <3>2, <3>3
  <2> QED BY <2>1, <2>2, <2>3 DEF OwnersAgree
<1>15. Acyclic'
  <2>1. ASSUME NEW S \in SUBSET Objects, S # {}, \A x \in S : parent'[x] \in S PROVE FALSE
    <3>1. \A x \in S : x \notin Documents
      BY <1>2, <1>11, <2>1
    <3>2. \A x \in S : x \in Nodes /\ parent'[x] \in Nodes
      BY <2>1, <3>1 DEF Objects
    <3>3. \A x \in S : parent'[x] = parent[x]
      <4> TAKE x \in S
      <4>1. parent'[x] # None /\ parent'[x] # d
        BY <1>2, <3>2
      <4> QED BY <1>10, <3>2, <4>1
    <3> QED BY <1>1, <2>1, <3>3 DEF Acyclic
  <2> QED BY <2>1 DEF Acyclic
<1>16. OneDocumentElement'
  <2>1. ASSUME NEW b \in Documents PROVE \A m, n \in document_elements(b)' : m = n
    <3>1. \A n \in Nodes : type'[n] = "Element" => type[n] = "Element"
      BY <1>5
    <3>2. b \in Objects
      BY DEF Objects
    <3>3. CASE b = d
      <4>1. document_elements(b)' \subseteq document_elements(e)
        BY <1>5, <3>1, <3>2, <3>3 DEF document_elements
      <4> QED BY <1>1, <4>1 DEF OneDocumentElement
    <3>4. CASE b # d
      <4>1. Range(children'[b]) \subseteq Range(children[b])
        BY <1>5, <3>2, <3>4, EmptyFacts
      <4>2. document_elements(b)' \subseteq document_elements(b)
        BY <3>1, <4>1 DEF document_elements
      <4> QED BY <1>1, <4>2 DEF OneDocumentElement
    <3> QED BY <3>3, <3>4
  <2> QED BY <2>1 DEF OneDocumentElement
<1> QED BY <1>12, <1>13, <1>14, <1>15, <1>16 DEF TreeInv

\* A new document takes the forest of another.
LEMMA MoveConstructTreeInv ==
    ASSUME TreeInv, NEW d \in Documents, NEW e \in Documents, MoveConstruct(d, e)
    PROVE  TreeInv'
<1>1. d # e /\ storage[d] = {}
  BY DEF MoveConstruct, TreeInv, OwnersAgree
<1>2. TakeOver(d, e, storage[d]) /\ alive' = alive \cup {d}
  BY <1>1 DEF MoveConstruct
<1> QED BY <1>1, <1>2, TakeOverTreeInv

\* A document loses its own forest and takes another's.
LEMMA MoveAssignTreeInv ==
    ASSUME TreeInv, NEW d \in Documents, NEW e \in Documents, MoveAssign(d, e)
    PROVE  TreeInv'
<1>1. d # e /\ TakeOver(d, e, storage[d]) /\ alive' = alive \cup {d}
  BY DEF MoveAssign
<1> QED BY <1>1, TakeOverTreeInv

\* A document takes its nodes with it, and nothing else was linked to them.
LEMMA DestroyTreeInv ==
    ASSUME TreeInv, NEW d \in Documents, Destroy(d)
    PROVE  TreeInv'
<1> DEFINE gone == storage[d]
<1>1. TypeOK /\ LinksAgree /\ OwnersAgree /\ Acyclic /\ OneDocumentElement
  BY DEF TreeInv
<1>2. /\ d \in Objects /\ None \notin Objects /\ d # None
      /\ gone \subseteq Nodes
      /\ \A n \in Nodes : n \in Objects /\ n \notin Documents
  BY <1>1, ObjectsAssumption DEF Objects, TypeOK
<1>3. \A n \in Nodes : n \in gone <=> owner[n] = d
  BY <1>1 DEF OwnersAgree
<1>4. ASSUME NEW n \in Nodes, parent[n] # None
      PROVE  /\ owner[parent[n]] = owner[n]
             /\ parent[n] \in Documents => parent[n] = owner[n]
  BY <1>1, <1>4 DEF OwnersAgree, TypeOK
<1>5. /\ alive' = alive \ {d}
      /\ storage' = [storage EXCEPT ![d] = {}]
      /\ children' = [x \in Objects |-> IF x \in gone \cup {d} THEN <<>> ELSE children[x]]
      /\ parent' = [x \in Objects |-> IF x \in gone THEN None ELSE parent[x]]
      /\ owner' = [x \in Objects |-> IF x \in gone THEN None ELSE owner[x]]
      /\ type' = [n \in Nodes |-> IF n \in gone THEN "Leaf" ELSE type[n]]
  BY DEF Destroy
<1> HIDE DEF gone
<1>6. ASSUME NEW n \in Nodes, n \notin gone, parent[n] # None
      PROVE  parent[n] # d /\ parent[n] \notin gone
  BY <1>2, <1>3, <1>4, <1>6
<1>7. TypeOK'
  <2>1. alive' \in SUBSET Documents /\ storage' \in [Documents -> SUBSET Nodes]
    BY <1>1, <1>5 DEF TypeOK
  <2>2. type' \in [Nodes -> NodeTypes]
    BY <1>1, <1>5 DEF TypeOK, NodeTypes
  <2>3. owner' \in [Objects -> Documents \cup {None}]
    BY <1>1, <1>5 DEF TypeOK
  <2>4. parent' \in [Objects -> Objects \cup {None}]
    BY <1>1, <1>5 DEF TypeOK
  <2>5. children' \in [Objects -> Seq(Nodes)]
    BY <1>1, <1>5, EmptyFacts DEF TypeOK
  <2>6. \A b \in Documents : owner'[b] = b /\ parent'[b] = None
    <3> TAKE b \in Documents
    <3>1. b \in Objects /\ b \notin gone /\ owner[b] = b /\ parent[b] = None
      BY <1>1, <1>2 DEF Objects, TypeOK
    <3> QED BY <1>5, <3>1
  <2> QED BY <2>1, <2>2, <2>3, <2>4, <2>5, <2>6 DEF TypeOK
<1>8. LinksAgree'
  <2>1. \A x \in Objects : IsInjective(children'[x])
    BY <1>1, <1>5, EmptyFacts DEF LinksAgree
  <2>2. ASSUME NEW x \in Objects, NEW n \in Nodes
        PROVE  n \in Range(children'[x]) <=> parent'[n] = x
    <3>1. /\ n \in Range(children[x]) <=> parent[n] = x
          /\ x # None /\ n \in Objects
          /\ parent'[n] = IF n \in gone THEN None ELSE parent[n]
      BY <1>1, <1>2, <1>5 DEF LinksAgree
    <3>2. CASE x \in gone \cup {d}
      <4>1. Range(children'[x]) = {}
        BY <1>5, <3>2, EmptyFacts
      <4> QED BY <1>6, <3>1, <3>2, <4>1
    <3>3. CASE x \notin gone \cup {d}
      <4>1. children'[x] = children[x]
        BY <1>5, <3>3
      <4>2. parent[n] = x => n \notin gone
        <5>1. ASSUME parent[n] = x, n \in gone PROVE FALSE
          <6>1. owner[n] = d /\ owner[x] = d
            BY <1>3, <1>4, <3>1, <5>1
          <6>2. x \in Documents \/ x \in Nodes
            BY DEF Objects
          <6> QED BY <1>3, <1>4, <3>1, <3>3, <5>1, <6>1, <6>2
        <5> QED BY <5>1
      <4> QED BY <3>1, <4>1, <4>2
    <3> QED BY <3>2, <3>3
  <2> QED BY <2>1, <2>2 DEF LinksAgree
<1>9. OwnersAgree'
  <2>1. ASSUME NEW b \in Documents, NEW n \in Nodes PROVE n \in storage'[b] <=> owner'[n] = b
    <3>1. owner'[n] = IF owner[n] = d THEN None ELSE owner[n]
      BY <1>2, <1>3, <1>5
    <3>2. storage'[b] = IF b = d THEN {} ELSE storage[b]
      BY <1>1, <1>5 DEF TypeOK
    <3>3. (n \in storage[b] <=> owner[n] = b) /\ b # None
      BY <1>1, <1>2 DEF OwnersAgree, Objects
    <3> QED BY <1>2, <3>1, <3>2, <3>3
  <2>2. ASSUME NEW b \in Documents, b \notin alive' PROVE storage'[b] = {} /\ children'[b] = <<>>
    <3>1. b \in Objects /\ (b = d \/ b \notin alive)
      BY <1>5, <2>2 DEF Objects
    <3>2. b # d => storage[b] = {} /\ children[b] = <<>>
      BY <1>1, <3>1 DEF OwnersAgree
    <3> QED BY <1>1, <1>5, <3>1, <3>2 DEF TypeOK
  <2>3. ASSUME NEW n \in Nodes, parent'[n] # None
        PROVE  owner'[n] # None /\ owner'[parent'[n]] = owner'[n]
    <3>1. n \notin gone /\ n \in Objects /\ parent'[n] = parent[n] /\ parent[n] # None
      BY <1>2, <1>5, <2>3
    <3>2. parent[n] \notin gone /\ parent[n] \in Objects
      BY <1>1, <1>6, <3>1 DEF TypeOK
    <3>3. owner[n] # None /\ owner[parent[n]] = owner[n]
      BY <1>1, <3>1 DEF OwnersAgree
    <3> QED BY <1>5, <3>1, <3>2, <3>3
  <2> QED BY <2>1, <2>2, <2>3 DEF OwnersAgree
<1>10. Acyclic'
  <2>1. ASSUME NEW S \in SUBSET Objects, S # {} PROVE \E x \in S : parent'[x] \notin S
    <3>1. PICK x \in S : parent[x] \notin S
      BY <1>1, <2>1 DEF Acyclic
    <3> QED BY <1>2, <1>5, <3>1
  <2> QED BY <2>1 DEF Acyclic
<1>11. OneDocumentElement'
  <2>1. ASSUME NEW b \in Documents PROVE document_elements(b)' \subseteq document_elements(b)
    <3>1. \A n \in Nodes : type'[n] = "Element" => type[n] = "Element"
      BY <1>5
    <3>2. b \in Objects
      BY DEF Objects
    <3>3. Range(children'[b]) \subseteq Range(children[b])
      BY <1>5, <3>2, EmptyFacts
    <3> QED BY <3>1, <3>3 DEF document_elements
  <2> QED BY <1>1, <2>1 DEF OneDocumentElement
<1> QED BY <1>7, <1>8, <1>9, <1>10, <1>11 DEF TreeInv

\* Every step keeps the forest.
LEMMA NextTreeInv == TreeInv /\ [Next]_vars => TreeInv'
<1> SUFFICES ASSUME TreeInv, [Next]_vars PROVE TreeInv'
  OBVIOUS
<1>1. ASSUME NEW d \in Documents, Construct(d) PROVE TreeInv'
  BY <1>1, ConstructTreeInv
<1>2. ASSUME NEW d \in Documents, Destroy(d) PROVE TreeInv'
  BY <1>2, DestroyTreeInv
<1>3. ASSUME NEW d \in Documents, NEW n \in Nodes, NEW t \in NodeTypes, make_node(d, n, t)
      PROVE  TreeInv'
  BY <1>3, MakeNodeTreeInv
<1>4. ASSUME NEW p \in Objects, NEW c \in Objects, append_child(p, c) PROVE TreeInv'
  BY <1>4, AppendTreeInv
<1>5. ASSUME NEW p \in Objects, NEW c \in Objects, append_child_throws(p, c) PROVE TreeInv'
  BY <1>5, AppendThrowsTreeInv
<1>6. ASSUME NEW p \in Objects, NEW c \in Objects, remove_child(p, c) PROVE TreeInv'
  BY <1>6, RemoveChildTreeInv
<1>7. ASSUME NEW d \in Documents, NEW e \in Documents, MoveConstruct(d, e) PROVE TreeInv'
  BY <1>7, MoveConstructTreeInv
<1>8. ASSUME NEW d \in Documents, NEW e \in Documents, MoveAssign(d, e) PROVE TreeInv'
  BY <1>8, MoveAssignTreeInv
<1>9. CASE UNCHANGED vars
  BY <1>9 DEF vars, TreeInv, TypeOK, LinksAgree, OwnersAgree, Acyclic, OneDocumentElement,
              document_elements
<1> QED BY <1>1, <1>2, <1>3, <1>4, <1>5, <1>6, <1>7, <1>8, <1>9 DEF Next

-----------------------------------------------------------------------------
(* The theorems.                                                            *)

\* The invariants of the tree hold together.
LEMMA TreeInvariant == Spec => []TreeInv
BY InitTreeInv, NextTreeInv, PTL DEF Spec

\* The fields of documents and nodes keep their types.
THEOREM TreeTypes == Spec => []TypeOK
<1>1. TreeInv => TypeOK
  BY DEF TreeInv
<1> QED BY <1>1, TreeInvariant, PTL

\* parent_ and children_ are always two views of one relation.
THEOREM TreeLinksAgree == Spec => []LinksAgree
<1>1. TreeInv => LinksAgree
  BY DEF TreeInv
<1> QED BY <1>1, TreeInvariant, PTL

\* Nodes are owned by the live document that stores them, and no link leads
\* out of a document or to a destroyed object.
THEOREM TreeOwnersAgree == Spec => []OwnersAgree
<1>1. TreeInv => OwnersAgree
  BY DEF TreeInv
<1> QED BY <1>1, TreeInvariant, PTL

\* No sequence of operations closes a cycle, however many nodes there are.
THEOREM TreeAcyclic == Spec => []Acyclic
<1>1. TreeInv => Acyclic
  BY DEF TreeInv
<1> QED BY <1>1, TreeInvariant, PTL

\* A document never has two document elements.
THEOREM TreeOneDocumentElement == Spec => []OneDocumentElement
<1>1. TreeInv => OneDocumentElement
  BY DEF TreeInv
<1> QED BY <1>1, TreeInvariant, PTL

\* The owner of a node after a step depends on its owner before it only.
LEMMA StepKeepsNodesTogether ==
    ASSUME TreeInv, [Next]_vars, NEW m \in Nodes, NEW n \in Nodes,
           owner[m] = owner[n], owner[m] # None
    PROVE  owner'[m] = owner'[n]
<1>1. TypeOK /\ LinksAgree /\ OwnersAgree /\ m \in Objects /\ n \in Objects
  BY DEF TreeInv, Objects
<1>2. CASE UNCHANGED owner
  BY <1>2
<1>3. ASSUME NEW d \in Documents, NEW k \in Nodes, NEW t \in NodeTypes, make_node(d, k, t)
      PROVE  owner'[m] = owner'[n]
  <2>1. owner[k] = None
    BY <1>1, <1>3, FreshNodesAreBlank DEF make_node
  <2> QED BY <1>1, <1>3, <2>1 DEF make_node, TypeOK
<1>4. ASSUME NEW d \in Documents, NEW e \in Documents, NEW gone, gone = {} \/ gone = storage[d],
             TakeOver(d, e, gone)
      PROVE  owner'[m] = owner'[n]
  <2>1. \A x \in Nodes : x \in storage[e] <=> owner[x] = e
    BY <1>1 DEF OwnersAgree
  <2>2. m \in gone <=> n \in gone
    BY <1>1, <1>4 DEF OwnersAgree
  <2>3. \A x \in Objects : owner'[x] = IF x \in gone THEN None ELSE update_owner(d, e, x)
    BY <1>4 DEF TakeOver
  <2>4. \A x \in Objects : update_owner(d, e, x) = IF x \in storage[e] THEN d ELSE owner[x]
    BY <1>1, UpdateOwnerFacts
  <2> QED BY <1>1, <2>1, <2>2, <2>3, <2>4
<1>5. ASSUME NEW d \in Documents, NEW e \in Documents, MoveConstruct(d, e) \/ MoveAssign(d, e)
      PROVE  owner'[m] = owner'[n]
  BY <1>4, <1>5 DEF MoveConstruct, MoveAssign
<1>6. ASSUME NEW d \in Documents, Destroy(d) PROVE owner'[m] = owner'[n]
  BY <1>1, <1>6 DEF Destroy, OwnersAgree
<1> QED BY <1>2, <1>3, <1>5, <1>6
       DEF Next, vars, Construct, append_child, append_child_throws, remove_child

\* Nodes of one document, attached or not, are moved and destroyed together.
THEOREM TreeNodesStayTogether == Spec => NodesStayTogether
<1>1. TreeInv /\ [Next]_vars =>
        [\A m, n \in Nodes : owner[m] = owner[n] /\ owner[m] # None => owner'[m] = owner'[n]]_vars
  BY StepKeepsNodesTogether
<1> QED BY <1>1, TreeInvariant, PTL DEF Spec, NodesStayTogether

-----------------------------------------------------------------------------
(* The order of siblings.                                                   *)

\* A node follows its sibling exactly when it comes later in the children of
\* the parent they have.
LEMMA FollowsIsPrecedes ==
    ASSUME TypeOK, LinksAgree, NEW m \in Nodes, NEW n \in Nodes
    PROVE  Follows(m, n) <=> /\ parent[m] # None /\ parent[m] = parent[n]
                             /\ Precedes(children[parent[m]], m, n)
<1> SUFFICES ASSUME parent[m] # None, parent[m] = parent[n]
             PROVE  Position(m) < Position(n) <=> Precedes(children[parent[m]], m, n)
  BY DEF Follows
<1> DEFINE s == children[parent[m]]
<1>1. parent[m] \in Objects
  BY DEF TypeOK, Objects
<1>2. s \in Seq(Nodes) /\ IsInjective(s) /\ m \in Range(s) /\ n \in Range(s)
  BY <1>1 DEF TypeOK, LinksAgree
<1>3. Position(m) = PlaceOf(s, m) /\ Position(n) = PlaceOf(s, n)
  BY DEF Position, PlaceOf, Siblings
<1> HIDE DEF s
<1>4. Precedes(s, m, n) <=> PlaceOf(s, m) < PlaceOf(s, n)
  BY <1>2, PrecedesByPlace
<1> QED BY <1>3, <1>4 DEF s

\* Whatever a step does to the children of x, they were in their order before,
\* maybe in another place, but for one that is put at the end.
Rearranged(x) ==
    \A a, b \in Nodes :
        Precedes(children'[x], a, b) =>
            \/ \E y \in Objects : Precedes(children[y], a, b)
            \/ \E s \in Seq(Nodes) : children'[x] = Append(s, b)

\* A list of children that is empty has no order.
LEMMA NothingPrecedes == \A a, b : ~Precedes(<<>>, a, b)
BY EmptySeq DEF Precedes

\* Detaching a node leaves the order of all others.
LEMMA DetachedKeepsOrder ==
    ASSUME TypeOK, LinksAgree, NEW c \in Nodes, NEW x \in Objects, NEW a, NEW b,
           Precedes(detached(c)[x], a, b)
    PROVE  Precedes(children[x], a, b)
<1>1. CASE parent[c] = None
  BY <1>1 DEF detached
<1>2. CASE parent[c] # None
  <2>1. parent[c] \in Objects
    BY <1>2 DEF TypeOK, Objects
  <2>2. detached(c) = [children EXCEPT ![parent[c]] = RemoveFirst(children[parent[c]], c)]
    BY <1>2 DEF detached
  <2>3. CASE x = parent[c]
    <3>1. children[x] \in Seq(Nodes) /\ IsInjective(children[x]) /\ c \in Range(children[x])
      BY <2>1, <2>3 DEF TypeOK, LinksAgree
    <3>2. detached(c)[x] = RemoveFirst(children[x], c)
      BY <2>2, <2>3 DEF TypeOK
    <3> QED BY <3>1, <3>2, RemoveFirstKeepsOrder
  <2>4. CASE x # parent[c]
    <3>1. detached(c)[x] = children[x]
      BY <2>2, <2>4 DEF TypeOK
    <3> QED BY <3>1
  <2> QED BY <2>3, <2>4
<1> QED BY <1>1, <1>2

\* Every step keeps the order of children, but for the one appended.
LEMMA StepRearranges == ASSUME TreeInv, [Next]_vars, NEW x \in Objects PROVE Rearranged(x)
<1>1. TypeOK /\ LinksAgree /\ children \in [Objects -> Seq(Nodes)] /\ Documents \subseteq Objects
  BY DEF TreeInv, TypeOK, Objects
<1>2. ASSUME NEW y \in Objects, children'[x] \in {<<>>, children[y]} PROVE Rearranged(x)
  BY <1>2, NothingPrecedes DEF Rearranged
<1>3. ASSUME NEW c \in Nodes, children' = detached(c) PROVE Rearranged(x)
  BY <1>1, <1>3, DetachedKeepsOrder DEF Rearranged
<1>4. CASE UNCHANGED children
  BY <1>2, <1>4
<1>5. ASSUME NEW d \in Documents, NEW n \in Nodes, NEW t \in NodeTypes, make_node(d, n, t)
      PROVE  Rearranged(x)
  <2>1. children'[x] \in {<<>>, children[x]}
    BY <1>1, <1>5 DEF make_node
  <2> QED BY <1>2, <2>1
<1>6. ASSUME NEW p \in Objects, NEW c \in Objects, append_child(p, c) PROVE Rearranged(x)
  <2>1. c \in Nodes /\ children' = [detached(c) EXCEPT ![p] = Append(detached(c)[p], c)]
    BY <1>6 DEF append_child, CanAppend, inserted
  <2>2. detached(c) \in [Objects -> Seq(Nodes)]
    BY <1>1, <2>1, DetachedFacts
  <2>3. CASE x = p
    <3>1. children'[x] = Append(detached(c)[x], c) /\ detached(c)[x] \in Seq(Nodes)
      BY <2>1, <2>2, <2>3
    <3>2. ASSUME NEW a \in Nodes, NEW b \in Nodes, Precedes(children'[x], a, b)
          PROVE  Precedes(children[x], a, b) \/ b = c
      <4>1. Precedes(detached(c)[x], a, b) \/ b = c
        BY <2>1, <3>1, <3>2, AppendKeepsOrder
      <4> QED BY <1>1, <2>1, <4>1, DetachedKeepsOrder
    <3> QED BY <3>1, <3>2 DEF Rearranged
  <2>4. CASE x # p
    <3>1. children'[x] = detached(c)[x]
      BY <2>1, <2>2, <2>4
    <3> QED BY <1>1, <2>1, <3>1, DetachedKeepsOrder DEF Rearranged
  <2> QED BY <2>3, <2>4
<1>7. ASSUME NEW p \in Objects, NEW c \in Objects, append_child_throws(p, c) PROVE Rearranged(x)
  BY <1>3, <1>7 DEF append_child_throws, CanAppend
<1>8. ASSUME NEW p \in Objects, NEW c \in Objects, remove_child(p, c) PROVE Rearranged(x)
  <2>1. c \in Nodes /\ parent[c] = p /\ p # None
    <3>1. c \in Range(children[p]) /\ children[p] \in Seq(Nodes)
      BY <1>1, <1>8 DEF remove_child
    <3>2. c \in Nodes
      BY <3>1, ElementOfSeq, LenProperties DEF Range
    <3> QED BY <1>1, <3>1, <3>2, ObjectsAssumption DEF LinksAgree
  <2>2. children' = detached(c)
    BY <1>8, <2>1 DEF remove_child, detached
  <2> QED BY <1>3, <2>1, <2>2
<1>9. ASSUME NEW d \in Documents, NEW e \in Documents, NEW gone, TakeOver(d, e, gone)
      PROVE  Rearranged(x)
  <2>1. children'[x] \in {<<>>, children[x]} \/ children'[x] \in {<<>>, children[e]}
    BY <1>9 DEF TakeOver
  <2> QED BY <1>1, <1>2, <2>1
<1>10. ASSUME NEW d \in Documents, Destroy(d) PROVE Rearranged(x)
  <2>1. children'[x] \in {<<>>, children[x]}
    BY <1>10 DEF Destroy
  <2> QED BY <1>2, <2>1
<1>11. ASSUME NEW d \in Documents, NEW e \in Documents, MoveConstruct(d, e) \/ MoveAssign(d, e)
       PROVE  Rearranged(x)
  BY <1>9, <1>11 DEF MoveConstruct, MoveAssign
<1>12. ASSUME NEW d \in Documents, Construct(d) PROVE Rearranged(x)
  BY <1>4, <1>12 DEF Construct
<1>13. CASE UNCHANGED vars
  BY <1>4, <1>13 DEF vars
<1> QED BY <1>5, <1>6, <1>7, <1>8, <1>10, <1>11, <1>12, <1>13 DEF Next

\* Siblings change places only when one of them is appended.
LEMMA StepKeepsSiblingOrder ==
    ASSUME TreeInv, [Next]_vars, NEW m \in Nodes, NEW n \in Nodes,
           Follows(m, n), Follows(n, m)'
    PROVE  (next_sibling(m) = None)'
<1>1. TypeOK /\ LinksAgree /\ TypeOK' /\ LinksAgree'
  BY NextTreeInv DEF TreeInv
<1>2. parent[m] \in Objects /\ Precedes(children[parent[m]], m, n) /\ parent[m] = parent[n]
  BY <1>1, FollowsIsPrecedes DEF TypeOK, Objects
<1> DEFINE x == parent'[m]
<1>3. x # None /\ x = parent'[n] /\ Position(n)' < Position(m)'
  BY DEF Follows
<1>4. /\ x \in Objects
      /\ children'[x] \in Seq(Nodes) /\ IsInjective(children'[x])
      /\ m \in Range(children'[x]) /\ n \in Range(children'[x])
  BY <1>1, <1>3 DEF TypeOK, Objects, LinksAgree
<1>5. /\ Siblings(m)' = children'[x]
      /\ Position(m)' = PlaceOf(children'[x], m)
      /\ Position(n)' = PlaceOf(children'[x], n)
  <2>1. Siblings(m)' = children'[x] /\ Siblings(n)' = children'[x]
    BY <1>3 DEF Siblings
  <2>2. Position(m)' = PlaceOf(Siblings(m)', m) /\ Position(n)' = PlaceOf(Siblings(n)', n)
    BY DEF Position, PlaceOf, SelectInSeq
  <2> HIDE DEF x
  <2> QED BY <2>1, <2>2
<1> HIDE DEF x
<1>6. Precedes(children'[x], n, m)
  BY <1>3, <1>4, <1>5, PrecedesByPlace
<1>7. Rearranged(x)
  BY <1>4, StepRearranges
<1>8. ASSUME NEW y \in Objects, Precedes(children[y], n, m) PROVE FALSE
  <2>1. m \in Range(children[y])
    <3>1. children[y] \in Seq(Nodes)
      BY <1>1 DEF TypeOK
    <3> QED BY <1>8, <3>1, LenProperties DEF Precedes, Range
  <2>2. y = parent[m]
    BY <1>1, <2>1 DEF LinksAgree
  <2>3. children[y] \in Seq(Nodes) /\ IsInjective(children[y])
    BY <1>1 DEF TypeOK, LinksAgree
  <2> QED BY <1>2, <1>8, <2>2, <2>3, PrecedesIsOneWay
<1>9. PICK s \in Seq(Nodes) : children'[x] = Append(s, m)
  BY <1>6, <1>7, <1>8 DEF Rearranged
<1>10. Position(m)' = Len(children'[x])
  <2>1. Len(children'[x]) \in 1..Len(children'[x]) /\ children'[x][Len(children'[x])] = m
    BY <1>9, PushFacts, LenProperties
  <2> QED BY <1>4, <1>5, <2>1, OnlyPlace
<1> QED BY <1>5, <1>10 DEF next_sibling

\* Siblings keep their order through insertions, removals, moves of the
\* document and failures; only the one just appended comes last.
THEOREM TreeKeepsSiblingOrder == Spec => SiblingOrderKept
<1>1. TreeInv /\ [Next]_vars =>
        [\A m, n \in Nodes :
            Follows(m, n) /\ Follows(n, m)' => (next_sibling(m) = None)']_vars
  BY StepKeepsSiblingOrder
<1> QED BY <1>1, TreeInvariant, PTL DEF Spec, SiblingOrderKept
-----------------------------------------------------------------------------
(* Subtrees.                                                                *)

Below(x) == {n \in Objects : x \in AncestorsOf(n)}

Subtree(x) == {x} \cup Below(x)

\* An ancestor is the parent or one of the parent's.
LEMMA AncestorsUnfold ==
    ASSUME TypeOK, NEW n \in Objects, NEW x \in AncestorsOf(n)
    PROVE  /\ n \in Nodes
           /\ parent[n] \in Objects
           /\ n \in Below(x)
           /\ x \in {parent[n]} \cup AncestorsOf(parent[n])
           /\ parent[n] \in Subtree(x)
<1>1. ASSUME parent[n] = None PROVE FALSE
  <2>1. ClosedAbove(n, {})
    BY <1>1 DEF ClosedAbove
  <2> QED BY <2>1 DEF AncestorsOf
<1>2. parent[n] \in Objects
  BY <1>1 DEF TypeOK
<1>3. n \in Nodes
  BY <1>1 DEF TypeOK, Objects
<1> DEFINE p == parent[n]
           S == {p} \cup AncestorsOf(p)
<1>4. S \in SUBSET Objects
  BY <1>2 DEF AncestorsOf
<1>5. ASSUME NEW y \in S \cup {n}, parent[y] # None PROVE parent[y] \in S
  <2>1. CASE y = n
    BY <2>1
  <2>2. CASE y \in S
    BY <1>2, <1>5, <2>2, AncestorsClosed
  <2> QED BY <2>1, <2>2
<1>6. ClosedAbove(n, S)
  BY <1>5 DEF ClosedAbove
<1>7. x \in S
  BY <1>4, <1>6 DEF AncestorsOf
<1> QED BY <1>2, <1>3, <1>7 DEF Subtree, Below

\* A parent and what it hangs from are ancestors.
LEMMA ParentIsAncestor ==
    ASSUME TypeOK, NEW n \in Objects, parent[n] # None
    PROVE  /\ parent[n] \in AncestorsOf(n)
           /\ AncestorsOf(parent[n]) \subseteq AncestorsOf(n)
<1>1. parent[n] \in Objects /\ parent[n] \in AncestorsOf(n)
  BY AncestorsClosed DEF TypeOK
<1>2. ASSUME NEW S \in SUBSET Objects, ClosedAbove(n, S) PROVE ClosedAbove(parent[n], S)
  <2>1. parent[n] \in S
    BY <1>2 DEF ClosedAbove
  <2> QED BY <1>2, <2>1 DEF ClosedAbove
<1> QED BY <1>1, <1>2 DEF AncestorsOf

\* The ancestors of an ancestor are ancestors.
LEMMA AncestorsOfAncestors ==
    ASSUME TypeOK, NEW n \in Objects, NEW x \in AncestorsOf(n)
    PROVE  AncestorsOf(x) \subseteq AncestorsOf(n)
<1> SUFFICES ASSUME NEW y \in AncestorsOf(x) PROVE y \in AncestorsOf(n)
  OBVIOUS
<1>1. x \in Objects /\ y \in Objects
  BY DEF AncestorsOf
<1>2. ASSUME NEW S \in SUBSET Objects, ClosedAbove(n, S) PROVE y \in S
  <2>1. x \in S
    BY <1>2 DEF AncestorsOf
  <2>2. ClosedAbove(x, S)
    BY <1>2, <2>1 DEF ClosedAbove
  <2> QED BY <1>2, <2>2 DEF AncestorsOf
<1> QED BY <1>1, <1>2 DEF AncestorsOf

\* Nothing is its own ancestor: the objects that are would be a cycle.
LEMMA NotItsOwnAncestor ==
    ASSUME TypeOK, Acyclic, NEW x \in Objects
    PROVE  x \notin AncestorsOf(x)
<1> SUFFICES ASSUME x \in AncestorsOf(x) PROVE FALSE
  OBVIOUS
<1>1. Below(x) \in SUBSET Objects /\ x \in Below(x)
  BY DEF Below
<1>2. PICK y \in Below(x) : parent[y] \notin Below(x)
  BY <1>1 DEF Acyclic
<1>3. y \in Objects /\ x \in AncestorsOf(y)
  BY DEF Below
<1>4. parent[y] \in Subtree(x)
  BY <1>3, AncestorsUnfold
<1> QED BY <1>1, <1>2, <1>4 DEF Subtree

\* Nodes of one parent have different subtrees, the parent is in neither.
LEMMA SubtreesApart ==
    ASSUME TypeOK, Acyclic, NEW a \in Nodes, NEW b \in Nodes, a # b,
           parent[a] = parent[b], parent[a] # None
    PROVE  Subtree(a) \cap Subtree(b) = {} /\ parent[a] \notin Subtree(a) \cup Subtree(b)
<1> DEFINE p == parent[a]
           S == Subtree(a) \cap Subtree(b)
<1>1. a \in Objects /\ b \in Objects /\ p \in Objects
  BY DEF Objects, TypeOK
<1>2. p \in AncestorsOf(a) /\ p \in AncestorsOf(b)
  BY <1>1, ParentIsAncestor
<1>3. a \notin AncestorsOf(p) /\ b \notin AncestorsOf(p) /\ a # p /\ b # p
  BY <1>1, <1>2, AncestorsOfAncestors, NotItsOwnAncestor
<1>4. p \notin Subtree(a) \cup Subtree(b)
  BY <1>3 DEF Subtree, Below
<1>5. a \notin Subtree(b)
  <2>1. b \in AncestorsOf(a) => b \in {p} \cup AncestorsOf(p)
    BY <1>1, AncestorsUnfold
  <2> QED BY <1>3, <2>1 DEF Subtree, Below
<1>6. b \notin Subtree(a)
  <2>1. a \in AncestorsOf(b) => a \in {p} \cup AncestorsOf(p)
    BY <1>1, AncestorsUnfold
  <2> QED BY <1>3, <2>1 DEF Subtree, Below
<1>7. ASSUME S # {} PROVE FALSE
  <2>1. S \in SUBSET Objects
    BY <1>1 DEF Subtree, Below
  <2>2. PICK y \in S : parent[y] \notin S
    BY <1>7, <2>1 DEF Acyclic
  <2>3. y # a /\ y # b
    BY <1>5, <1>6
  <2>4. y \in Objects /\ a \in AncestorsOf(y) /\ b \in AncestorsOf(y)
    BY <2>1, <2>3 DEF Subtree, Below
  <2>5. parent[y] \in Subtree(a) /\ parent[y] \in Subtree(b)
    BY <2>4, AncestorsUnfold
  <2> QED BY <2>2, <2>5
<1> QED BY <1>4, <1>7

\* A child's subtree is below its parent.
LEMMA SubtreeIsBelow ==
    ASSUME TypeOK, NEW c \in Nodes, parent[c] # None
    PROVE  Subtree(c) \subseteq Below(parent[c])
<1>1. c \in Objects /\ parent[c] \in AncestorsOf(c)
  BY ParentIsAncestor DEF Objects
<1>2. ASSUME NEW n \in Below(c) PROVE n \in Below(parent[c])
  <2>1. n \in Objects /\ c \in AncestorsOf(n)
    BY DEF Below
  <2> QED BY <1>1, <2>1, AncestorsOfAncestors DEF Below
<1> QED BY <1>1, <1>2 DEF Subtree, Below

-----------------------------------------------------------------------------
(* The lists depth_first puts together.                                     *)

\* What a visit of the children of x gives, when v is what theirs give.
Visits(v, x) == [i \in DOMAIN children[x] |-> <<children[x][i]>> \o v[children[x][i]]]

\* s lists nodes below x in document order: each once, after its parent, and
\* with all that hangs from it before the next siblings and what hangs there.
InOrder(s, x) ==
    /\ s \in Seq(Nodes)
    /\ IsInjective(s)
    /\ Range(s) \subseteq Below(x)
    /\ \A n \in Range(s) : parent[n] # x => Precedes(s, parent[n], n)
    /\ \A m, n \in Range(s) :
          parent[m] = parent[n] /\ Precedes(children[parent[m]], m, n) =>
             \A a \in Range(s) \cap Subtree(m), b \in Range(s) \cap Subtree(n) : Precedes(s, a, b)

\* The children of a live object live.
LEMMA ChildrenLive ==
    ASSUME TreeInv, NEW x \in Live
    PROVE  /\ x \in Objects
           /\ children[x] \in Seq(Nodes)
           /\ DOMAIN children[x] = 1..Len(children[x])
           /\ \A i \in 1..Len(children[x]) : /\ children[x][i] \in Nodes
                                             /\ children[x][i] \in Live
                                             /\ parent[children[x][i]] = x
           /\ \A i, j \in 1..Len(children[x]) : children[x][i] = children[x][j] => i = j
           /\ x # None
<1>1. TypeOK /\ LinksAgree /\ OwnersAgree
  BY DEF TreeInv
<1>2. x \in Objects /\ x # None
  BY <1>1, ObjectsAssumption DEF Live, Stored, TypeOK, Objects
<1> DEFINE s == children[x]
<1>3. s \in Seq(Nodes) /\ IsInjective(s) /\ \A n \in Nodes : n \in Range(s) <=> parent[n] = x
  BY <1>1, <1>2 DEF TypeOK, LinksAgree
<1> HIDE DEF s
<1>4. DOMAIN s = 1..Len(s) /\ \A i \in 1..Len(s) : s[i] \in Nodes
  BY <1>3, LenProperties, ElementOfSeq
<1>5. ASSUME NEW i \in 1..Len(s) PROVE parent[s[i]] = x /\ s[i] \in Live
  <2>1. parent[s[i]] = x
    BY <1>3, <1>4 DEF Range
  <2>2. owner[s[i]] # None /\ owner[s[i]] \in Documents
    BY <1>1, <1>2, <1>4, <2>1 DEF OwnersAgree, TypeOK, Objects
  <2>3. s[i] \in storage[owner[s[i]]]
    BY <1>1, <1>4, <2>2 DEF OwnersAgree
  <2>4. owner[s[i]] \in alive
    BY <1>1, <2>2, <2>3 DEF OwnersAgree
  <2> QED BY <2>1, <2>3, <2>4 DEF Live, Stored
<1>6. \A i, j \in 1..Len(s) : s[i] = s[j] => i = j
  BY <1>3, <1>4 DEF IsInjective
<1> QED BY <1>2, <1>3, <1>4, <1>5, <1>6 DEF s

\* The visits of the children, one by one.
LEMMA VisitsFacts ==
    ASSUME TreeInv, NEW v \in [Live -> Seq(Nodes)], NEW x \in Live
    PROVE  LET ss == Visits(v, x)
               kids == children[x]
           IN  /\ ss \in Seq(Seq(Nodes))
               /\ Len(ss) = Len(kids)
               /\ \A i \in 1..Len(kids) : ss[i] = <<kids[i]>> \o v[kids[i]]
<1> DEFINE kids == children[x]
           ss == Visits(v, x)
<1>1. /\ Len(kids) \in Nat /\ DOMAIN kids = 1..Len(kids)
      /\ \A i \in 1..Len(kids) : kids[i] \in Nodes /\ kids[i] \in Live
  BY ChildrenLive
<1>2. \A i \in 1..Len(kids) : <<kids[i]>> \o v[kids[i]] \in Seq(Nodes)
  BY <1>1, PrependFacts
<1>3. ss = [i \in 1..Len(kids) |-> <<kids[i]>> \o v[kids[i]]]
  BY <1>1 DEF Visits
<1> HIDE DEF kids
<1>4. ss \in [1..Len(kids) -> Seq(Nodes)]
  BY <1>2, <1>3
<1>5. ss \in Seq(Seq(Nodes)) /\ Len(ss) = Len(kids)
  <2>1. ss \in Seq(Seq(Nodes)) /\ DOMAIN ss = 1..Len(kids)
    BY <1>1, <1>4
  <2> QED BY <1>1, <2>1, LenFromDomain
<1>6. \A i \in 1..Len(kids) : ss[i] = <<kids[i]>> \o v[kids[i]]
  BY <1>3
<1> QED BY <1>5, <1>6 DEF kids

\* What the visit of one child lists.
Visited(v, c) == {c} \cup Range(v[c])

\* Putting the visits together keeps what is in each, and their order.
LEMMA FlattenedVisits ==
    ASSUME TreeInv, NEW v \in [Live -> Seq(Nodes)], NEW x \in Live
    PROVE  LET r == FlattenSeq(Visits(v, x))
               kids == children[x]
           IN  /\ r \in Seq(Nodes)
               /\ \A a : a \in Range(r) <=> \E i \in 1..Len(kids) : a \in Visited(v, kids[i])
               /\ \A i \in 1..Len(kids) :
                     /\ \A a, b : Precedes(v[kids[i]], a, b) => Precedes(r, a, b)
                     /\ \A b \in Range(v[kids[i]]) : Precedes(r, kids[i], b)
               /\ \A i, j \in 1..Len(kids) : i < j =>
                     \A a \in Visited(v, kids[i]), b \in Visited(v, kids[j]) : Precedes(r, a, b)
               /\ (\A i \in 1..Len(kids) :
                      /\ IsInjective(v[kids[i]])
                      /\ kids[i] \notin Range(v[kids[i]])
                      /\ \A j \in 1..Len(kids) : i # j =>
                            Visited(v, kids[i]) \cap Visited(v, kids[j]) = {})
                  => IsInjective(r)
<1> DEFINE kids == children[x]
           n == Len(kids)
           ss == Visits(v, x)
           r == FlattenSeq(ss)
<1>1. /\ ss \in Seq(Seq(Nodes))
      /\ Len(ss) = n
      /\ \A i \in 1..n : ss[i] = <<kids[i]>> \o v[kids[i]]
  BY VisitsFacts
<1>2. \A i \in 1..n : kids[i] \in Nodes /\ kids[i] \in Live
  BY ChildrenLive
<1> HIDE DEF kids, n, ss
<1>3. \A i \in 1..n : v[kids[i]] \in Seq(Nodes)
  BY <1>2
<1>4. ASSUME NEW i \in 1..n
      PROVE  /\ Range(ss[i]) = Visited(v, kids[i])
             /\ \A a, b : Precedes(v[kids[i]], a, b) => Precedes(ss[i], a, b)
             /\ \A b \in Range(v[kids[i]]) : Precedes(ss[i], kids[i], b)
             /\ IsInjective(v[kids[i]]) /\ kids[i] \notin Range(v[kids[i]]) => IsInjective(ss[i])
  <2> DEFINE c == kids[i]
             s == v[c]
  <2>1. c \in Nodes /\ s \in Seq(Nodes)
    BY <1>2, <1>3
  <2>2. ss[i] = <<c>> \o s
    BY <1>1
  <2>3. Visited(v, c) = {c} \cup Range(s)
    BY DEF Visited
  <2> HIDE DEF c, s
  <2>4. /\ Range(ss[i]) = Visited(v, c)
        /\ \A a, b : Precedes(s, a, b) => Precedes(ss[i], a, b)
        /\ \A b \in Range(s) : Precedes(ss[i], c, b)
        /\ IsInjective(s) /\ c \notin Range(s) => IsInjective(ss[i])
    BY <2>1, <2>2, <2>3, PrependFacts
  <2> QED BY <2>4 DEF c, s
<1>5. r \in Seq(Nodes) /\ Joins(r, ss, n)
  BY <1>1, FlattenFacts
<1> HIDE DEF r
<1>6. \A a : a \in Range(r) <=> \E i \in 1..n : a \in Visited(v, kids[i])
  <2>1. \A a : a \in Range(r) <=> \E i \in 1..n : a \in Range(ss[i])
    BY <1>5 DEF Joins
  <2> QED BY <1>4, <2>1
<1>7. ASSUME NEW i \in 1..n
      PROVE  /\ \A a, b : Precedes(v[kids[i]], a, b) => Precedes(r, a, b)
             /\ \A b \in Range(v[kids[i]]) : Precedes(r, kids[i], b)
  <2>1. \A a, b : Precedes(ss[i], a, b) => Precedes(r, a, b)
    BY <1>5 DEF Joins
  <2> QED BY <1>4, <2>1
<1>8. ASSUME NEW i \in 1..n, NEW j \in 1..n, i < j,
             NEW a \in Visited(v, kids[i]), NEW b \in Visited(v, kids[j])
      PROVE  Precedes(r, a, b)
  <2>1. a \in Range(ss[i]) /\ b \in Range(ss[j])
    BY <1>4
  <2> QED BY <1>5, <1>8, <2>1 DEF Joins
<1>9. ASSUME \A i \in 1..n :
                /\ IsInjective(v[kids[i]])
                /\ kids[i] \notin Range(v[kids[i]])
                /\ \A j \in 1..n : i # j => Visited(v, kids[i]) \cap Visited(v, kids[j]) = {}
      PROVE  IsInjective(r)
  <2>1. AreApart(ss, n)
    <3>1. \A i \in 1..n : IsInjective(ss[i])
      BY <1>4, <1>9
    <3>2. ASSUME NEW i \in 1..n, NEW j \in 1..n, i # j PROVE Range(ss[i]) \cap Range(ss[j]) = {}
      <4>1. Visited(v, kids[i]) \cap Visited(v, kids[j]) = {}
        BY <1>9, <3>2
      <4> QED BY <1>4, <4>1
    <3> QED BY <3>1, <3>2 DEF AreApart
  <2> QED BY <1>5, <2>1 DEF Joins
<1>10. /\ r \in Seq(Nodes)
       /\ \A a : a \in Range(r) <=> \E i \in 1..n : a \in Visited(v, kids[i])
       /\ \A i \in 1..n :
             /\ \A a, b : Precedes(v[kids[i]], a, b) => Precedes(r, a, b)
             /\ \A b \in Range(v[kids[i]]) : Precedes(r, kids[i], b)
       /\ \A i, j \in 1..n : i < j =>
             \A a \in Visited(v, kids[i]), b \in Visited(v, kids[j]) : Precedes(r, a, b)
  BY <1>5, <1>6, <1>7, <1>8
<1> QED BY <1>9, <1>10 DEF r, ss, n, kids

\* Lists in order of what hangs from the children make one of what hangs
\* from x.
LEMMA VisitsKeepOrder ==
    ASSUME TreeInv, NEW v \in [Live -> Seq(Nodes)], NEW x \in Live,
           \A c \in Live : InOrder(v[c], c)
    PROVE  InOrder(FlattenSeq(Visits(v, x)), x)
<1> DEFINE kids == children[x]
           n == Len(kids)
           r == FlattenSeq(Visits(v, x))
<1>1. TypeOK /\ LinksAgree /\ Acyclic
  BY DEF TreeInv
<1>2. /\ x \in Objects /\ x # None
      /\ kids \in Seq(Nodes)
      /\ \A i \in 1..n : kids[i] \in Nodes /\ kids[i] \in Live /\ parent[kids[i]] = x
      /\ \A i, j \in 1..n : kids[i] = kids[j] => i = j
  BY ChildrenLive
<1>3. /\ r \in Seq(Nodes)
      /\ \A a : a \in Range(r) <=> \E i \in 1..n : a \in Visited(v, kids[i])
      /\ \A i \in 1..n :
            /\ \A a, b : Precedes(v[kids[i]], a, b) => Precedes(r, a, b)
            /\ \A b \in Range(v[kids[i]]) : Precedes(r, kids[i], b)
      /\ \A i, j \in 1..n : i < j =>
            \A a \in Visited(v, kids[i]), b \in Visited(v, kids[j]) : Precedes(r, a, b)
      /\ (\A i \in 1..n :
             /\ IsInjective(v[kids[i]])
             /\ kids[i] \notin Range(v[kids[i]])
             /\ \A j \in 1..n : i # j => Visited(v, kids[i]) \cap Visited(v, kids[j]) = {})
         => IsInjective(r)
  BY FlattenedVisits
<1>4. \A m \in Nodes : m \in Range(kids) <=> parent[m] = x
  BY <1>1, <1>2 DEF LinksAgree
<1>5. DOMAIN kids = 1..n
  BY <1>2, LenProperties
<1> HIDE DEF kids, n, r
<1>6. ASSUME NEW i \in 1..n
      PROVE  /\ v[kids[i]] \in Seq(Nodes)
             /\ IsInjective(v[kids[i]])
             /\ Range(v[kids[i]]) \subseteq Below(kids[i])
             /\ Visited(v, kids[i]) \subseteq Subtree(kids[i])
             /\ kids[i] \notin Below(kids[i])
  <2>1. InOrder(v[kids[i]], kids[i])
    BY <1>2
  <2>2. kids[i] \notin AncestorsOf(kids[i])
    BY <1>1, <1>2, NotItsOwnAncestor DEF Objects
  <2> QED BY <2>1, <2>2 DEF InOrder, Visited, Subtree, Below
<1>7. ASSUME NEW i \in 1..n, NEW j \in 1..n, i # j
      PROVE  /\ Subtree(kids[i]) \cap Subtree(kids[j]) = {}
  <2>1. kids[i] # kids[j]
    BY <1>2, <1>7
  <2> QED BY <1>1, <1>2, <2>1, SubtreesApart
<1>8. ASSUME NEW i \in 1..n PROVE x \notin Subtree(kids[i])
  <2>1. kids[i] \notin AncestorsOf(x) /\ kids[i] # x
    <3>1. kids[i] \in Objects /\ x \in AncestorsOf(kids[i])
      BY <1>1, <1>2, ParentIsAncestor DEF Objects
    <3>2. kids[i] \in AncestorsOf(x) => kids[i] \in AncestorsOf(kids[i])
      BY <1>1, <3>1, AncestorsOfAncestors
    <3> QED BY <1>1, <1>2, <3>1, <3>2, NotItsOwnAncestor
  <2> QED BY <2>1 DEF Subtree, Below
<1>9. IsInjective(r)
  <2>1. ASSUME NEW i \in 1..n
        PROVE  /\ IsInjective(v[kids[i]])
               /\ kids[i] \notin Range(v[kids[i]])
               /\ \A j \in 1..n : i # j => Visited(v, kids[i]) \cap Visited(v, kids[j]) = {}
    <3>1. ASSUME NEW j \in 1..n, i # j PROVE Visited(v, kids[i]) \cap Visited(v, kids[j]) = {}
      <4>1. Subtree(kids[i]) \cap Subtree(kids[j]) = {}
        BY <1>7, <3>1
      <4> QED BY <1>6, <4>1
    <3> QED BY <1>6, <3>1
  <2> QED BY <1>3, <2>1
<1>10. Range(r) \subseteq Below(x)
  <2>1. ASSUME NEW i \in 1..n PROVE Visited(v, kids[i]) \subseteq Below(x)
    <3>1. Subtree(kids[i]) \subseteq Below(x)
      BY <1>1, <1>2, SubtreeIsBelow
    <3> QED BY <1>6, <3>1
  <2> QED BY <1>3, <2>1
\* A node that is no child of x is listed by the visit of the child it hangs
\* from, and so is not that child; its parent is in the same subtree.
<1>11. ASSUME NEW m \in Range(r), parent[m] # x, NEW i \in 1..n, m \in Visited(v, kids[i])
       PROVE  /\ m \in Range(v[kids[i]])
              /\ m \in Nodes
              /\ parent[m] \in Subtree(kids[i])
  <2>1. m # kids[i]
    BY <1>2, <1>11
  <2>2. m \in Range(v[kids[i]])
    BY <1>11, <2>1 DEF Visited
  <2>3. m \in Objects /\ kids[i] \in AncestorsOf(m)
    BY <1>6, <2>2 DEF Below
  <2> QED BY <1>1, <2>2, <2>3, AncestorsUnfold
<1>12. ASSUME NEW m \in Range(r), parent[m] # x PROVE Precedes(r, parent[m], m)
  <2>1. PICK i \in 1..n : m \in Visited(v, kids[i])
    BY <1>3
  <2>2. m \in Range(v[kids[i]])
    BY <1>11, <1>12, <2>1
  <2>3. CASE parent[m] = kids[i]
    BY <1>3, <2>2, <2>3
  <2>4. CASE parent[m] # kids[i]
    <3>1. Precedes(v[kids[i]], parent[m], m)
      BY <1>2, <2>2, <2>4 DEF InOrder
    <3> QED BY <1>3, <3>1
  <2> QED BY <2>3, <2>4
\* What hangs from a child and is listed is listed by the visit of the child.
<1>13. ASSUME NEW i \in 1..n, NEW a \in Range(r) \cap Subtree(kids[i])
       PROVE  a \in Visited(v, kids[i])
  <2>1. PICK j \in 1..n : a \in Visited(v, kids[j])
    BY <1>3
  <2>2. a \in Subtree(kids[j])
    BY <1>6, <2>1
  <2> QED BY <1>7, <2>1, <2>2
<1>14. ASSUME NEW m \in Range(r), NEW k \in Range(r), parent[m] = parent[k],
              Precedes(children[parent[m]], m, k),
              NEW a \in Range(r) \cap Subtree(m), NEW b \in Range(r) \cap Subtree(k)
       PROVE  Precedes(r, a, b)
  <2>1. CASE parent[m] = x
    <3>1. PICK i \in 1..n, j \in 1..n : i < j /\ kids[i] = m /\ kids[j] = k
      BY <1>14, <2>1 DEF Precedes, kids, n
    <3>2. a \in Visited(v, kids[i]) /\ b \in Visited(v, kids[j])
      BY <1>13, <3>1
    <3> QED BY <1>3, <3>1, <3>2
  <2>2. CASE parent[m] # x
    <3>1. PICK i \in 1..n : m \in Visited(v, kids[i])
      BY <1>3
    <3>2. PICK j \in 1..n : k \in Visited(v, kids[j])
      BY <1>3
    <3>3. /\ m \in Range(v[kids[i]]) /\ m \in Nodes /\ parent[m] \in Subtree(kids[i])
          /\ k \in Range(v[kids[j]]) /\ k \in Nodes /\ parent[k] \in Subtree(kids[j])
      BY <1>11, <1>14, <2>2, <3>1, <3>2
    <3>4. i = j
      BY <1>7, <1>14, <3>3
    <3>5. ASSUME NEW y \in Range(r), NEW z \in Range(v[kids[i]]), y \in Subtree(z)
          PROVE  y \in Range(v[kids[i]])
      <4>1. z \in Objects /\ kids[i] \in AncestorsOf(z)
        BY <1>6 DEF Below
      <4>2. y \in Below(kids[i])
        <5>1. CASE y = z
          BY <4>1, <5>1 DEF Below
        <5>2. CASE y \in Objects /\ z \in AncestorsOf(y)
          <6>1. kids[i] \in AncestorsOf(y)
            BY <1>1, <4>1, <5>2, AncestorsOfAncestors
          <6> QED BY <5>2, <6>1 DEF Below
        <5> QED BY <3>5, <5>1, <5>2 DEF Subtree, Below
      <4>3. y \in Visited(v, kids[i])
        BY <1>13, <4>2 DEF Subtree
      <4> QED BY <1>6, <4>2, <4>3 DEF Visited
    <3>6. a \in Range(v[kids[i]]) /\ b \in Range(v[kids[i]])
      BY <3>3, <3>4, <3>5
    <3>7. Precedes(v[kids[i]], a, b)
      <4>1. InOrder(v[kids[i]], kids[i])
        BY <1>2
      <4> QED BY <1>14, <3>3, <3>4, <3>6, <4>1 DEF InOrder
    <3> QED BY <1>3, <3>7
  <2> QED BY <2>1, <2>2
<1>15. InOrder(r, x)
  BY <1>3, <1>9, <1>10, <1>12, <1>14 DEF InOrder
<1> QED BY <1>15 DEF r

\* What is below x is in the subtree of one of its children.
LEMMA BelowIsSubtrees ==
    ASSUME TreeInv, NEW x \in Live, NEW m \in Below(x)
    PROVE  \E i \in 1..Len(children[x]) : m \in Subtree(children[x][i])
<1>1. TypeOK /\ LinksAgree /\ Acyclic
  BY DEF TreeInv
<1> DEFINE kids == children[x]
           S == {y \in Below(x) : \A i \in 1..Len(kids) : y \notin Subtree(kids[i])}
<1>2. /\ x \in Objects
      /\ kids \in Seq(Nodes) /\ DOMAIN kids = 1..Len(kids)
      /\ \A i \in 1..Len(kids) : kids[i] \in Nodes
  BY ChildrenLive
<1>3. \A y \in Nodes : y \in Range(kids) <=> parent[y] = x
  BY <1>1, <1>2 DEF LinksAgree
<1> HIDE DEF kids
<1>4. ASSUME S # {} PROVE FALSE
  <2>1. S \in SUBSET Objects
    BY DEF Below
  <2>2. PICK y \in S : parent[y] \notin S
    BY <1>1, <1>4, <2>1 DEF Acyclic
  <2>3. y \in Objects /\ x \in AncestorsOf(y) /\ \A i \in 1..Len(kids) : y \notin Subtree(kids[i])
    BY DEF Below
  <2>4. y \in Nodes /\ parent[y] \in Subtree(x) /\ parent[y] # None
    BY <1>1, <2>3, AncestorsUnfold, ObjectsAssumption
  <2>5. CASE parent[y] = x
    <3>1. PICK i \in 1..Len(kids) : kids[i] = y
      BY <1>2, <1>3, <2>4, <2>5 DEF Range
    <3> QED BY <2>3, <3>1 DEF Subtree
  <2>6. CASE parent[y] \in Below(x)
    <3>1. PICK i \in 1..Len(kids) : parent[y] \in Subtree(kids[i])
      BY <2>2, <2>6
    <3>2. /\ parent[y] \in AncestorsOf(y)
          /\ AncestorsOf(parent[y]) \subseteq AncestorsOf(y)
      BY <1>1, <2>3, <2>4, ParentIsAncestor
    <3>3. kids[i] \in AncestorsOf(y)
      BY <3>1, <3>2 DEF Subtree, Below
    <3> QED BY <2>3, <3>3 DEF Subtree, Below
  <2> QED BY <2>4, <2>5, <2>6 DEF Subtree
<1>5. m \notin S
  BY <1>4
<1> QED BY <1>5 DEF kids

\* s lists all there is below x, or at least k nodes.
ListsEnough(s, x, k) == Below(x) \subseteq Range(s) \/ Cardinality(Range(s)) >= k

\* If each child's list has enough, the list of all has enough and one more.
LEMMA VisitsListEnough ==
    ASSUME TreeInv, NEW v \in [Live -> Seq(Nodes)], NEW x \in Live, NEW k \in Nat,
           \A c \in Live : InOrder(v[c], c) /\ ListsEnough(v[c], c, k)
    PROVE  ListsEnough(FlattenSeq(Visits(v, x)), x, k + 1)
<1> DEFINE kids == children[x]
           n == Len(kids)
           r == FlattenSeq(Visits(v, x))
<1>1. TypeOK /\ LinksAgree /\ Acyclic
  BY DEF TreeInv
<1>2. \A i \in 1..n : kids[i] \in Nodes /\ kids[i] \in Live
  BY ChildrenLive
<1>3. /\ r \in Seq(Nodes)
      /\ \A a : a \in Range(r) <=> \E i \in 1..n : a \in Visited(v, kids[i])
  BY FlattenedVisits
<1>4. \A m \in Below(x) : \E i \in 1..n : m \in Subtree(kids[i])
  BY BelowIsSubtrees
<1>5. Range(r) \subseteq Nodes
  BY <1>3, LenProperties, ElementOfSeq DEF Range
<1> HIDE DEF kids, n, r
<1>6. ASSUME \A i \in 1..n : Below(kids[i]) \subseteq Range(v[kids[i]])
      PROVE  Below(x) \subseteq Range(r)
  <2>1. ASSUME NEW m \in Below(x) PROVE m \in Range(r)
    <3>1. PICK i \in 1..n : m \in Subtree(kids[i])
      BY <1>4
    <3>2. m \in Visited(v, kids[i])
      BY <1>6, <3>1 DEF Subtree, Visited
    <3> QED BY <1>3, <3>2
  <2> QED BY <2>1
<1>7. ASSUME NEW i \in 1..n, ~(Below(kids[i]) \subseteq Range(v[kids[i]]))
      PROVE  Cardinality(Range(r)) >= k + 1
  <2> DEFINE S == Range(v[kids[i]])
             c == kids[i]
             R == Range(r)
  <2>1. Cardinality(S) >= k
    BY <1>2, <1>7 DEF ListsEnough
  <2>2. c \notin S
    <3>1. c \notin AncestorsOf(c)
      BY <1>1, <1>2, NotItsOwnAncestor DEF Objects
    <3> QED BY <1>2, <3>1 DEF InOrder, Below
  <2>3. S \cup {c} \subseteq R
    BY <1>3 DEF Visited
  <2>4. IsFiniteSet(R)
    BY <1>5, NodesAssumption, FS_Subset
  <2>5. IsFiniteSet(S)
    BY <2>3, <2>4, FS_Subset
  <2> HIDE DEF S, c, R
  <2>6. IsFiniteSet(S \cup {c}) /\ Cardinality(S \cup {c}) = Cardinality(S) + 1
    BY <2>2, <2>5, FS_AddElement
  <2>7. Cardinality(S \cup {c}) <= Cardinality(R)
    BY <2>3, <2>4, FS_Subset
  <2>8. Cardinality(S) \in Nat /\ Cardinality(R) \in Nat
    BY <2>4, <2>5, FS_CardinalityType
  <2>9. Cardinality(R) >= k + 1
    BY <2>1, <2>6, <2>7, <2>8
  <2> QED BY <2>9 DEF R
<1>8. ListsEnough(r, x, k + 1)
  BY <1>6, <1>7 DEF ListsEnough
<1> QED BY <1>8 DEF r

\* t[k] is what visits to a depth of k give.
IsTraversal(t, limit) ==
    t = [k \in 0..limit |->
           [x \in Live |-> IF k = 0 THEN <<>> ELSE FlattenSeq(Visits(t[k - 1], x))]]

\* There is such a function, so collect_depth_first is its last value.
LEMMA TraversalExists ==
    ASSUME TreeInv, NEW limit \in Nat
    PROVE  \E t : IsTraversal(t, limit)
<1> DEFINE V == [Live -> Seq(Nodes)]
           base == [x \in Live |-> <<>>]
           step == [k \in 1..limit |-> [v \in V |-> [x \in Live |-> FlattenSeq(Visits(v, x))]]]
<1>1. base \in V
  BY EmptySeq
<1>2. ASSUME NEW v \in V PROVE [x \in Live |-> FlattenSeq(Visits(v, x))] \in V
  <2>1. \A x \in Live : FlattenSeq(Visits(v, x)) \in Seq(Nodes)
    BY FlattenedVisits
  <2> QED BY <2>1
<1>3. step \in [1..limit -> [V -> V]]
  BY <1>2
<1>4. \A k \in 1..limit : \A v \in V : step[k][v] = [x \in Live |-> FlattenSeq(Visits(v, x))]
  OBVIOUS
<1> HIDE DEF V, step
<1>5. IsRecursion(V, base, limit, step)
  BY <1>1, <1>3 DEF IsRecursion
<1>6. HasRecursion(V, base, limit, step)
  BY <1>5, RecursionExists
<1>7. PICK t \in [0..limit -> V] : t[0] = base /\ \A k \in 1..limit : t[k] = step[k][t[k - 1]]
  BY <1>6 DEF HasRecursion
<1>8. ASSUME NEW k \in 1..limit PROVE t[k] = [x \in Live |-> FlattenSeq(Visits(t[k - 1], x))]
  <2>1. k - 1 \in 0..limit
    OBVIOUS
  <2>2. t[k - 1] \in V
    BY <2>1
  <2> QED BY <1>4, <1>7, <2>2
<1>9. ASSUME NEW k \in 0..limit
      PROVE  t[k] = [x \in Live |-> IF k = 0 THEN <<>> ELSE FlattenSeq(Visits(t[k - 1], x))]
  <2>1. CASE k = 0
    BY <1>7, <2>1
  <2>2. CASE k # 0
    <3>1. k \in 1..limit
      BY <2>2
    <3> QED BY <1>8, <2>2, <3>1
  <2> QED BY <2>1, <2>2
<1>10. t = [k \in 0..limit |-> t[k]]
  OBVIOUS
<1>11. IsTraversal(t, limit)
  BY <1>9, <1>10 DEF IsTraversal
<1> QED BY <1>11

\* What collect_depth_first lists is in order, and enough.
LEMMA CollectedInOrder ==
    ASSUME TreeInv, NEW limit \in Nat, NEW x \in Live
    PROVE  /\ InOrder(collect_depth_first(limit)[x], x)
           /\ ListsEnough(collect_depth_first(limit)[x], x, limit)
<1> DEFINE t == CHOOSE t : IsTraversal(t, limit)
<1>1. IsTraversal(t, limit)
  BY TraversalExists
<1>2. collect_depth_first(limit) = t[limit]
  BY DEF collect_depth_first, IsTraversal, Visits
<1> HIDE DEF t
<1> DEFINE Good(k) == /\ t[k] \in [Live -> Seq(Nodes)]
                      /\ \A y \in Live : InOrder(t[k][y], y) /\ ListsEnough(t[k][y], y, k)
           S == {k \in Nat : k <= limit => Good(k)}
<1>3. 0 \in S
  <2>1. t[0] = [y \in Live |-> <<>>]
    BY <1>1 DEF IsTraversal
  <2>2. <<>> \in Seq(Nodes) /\ IsInjective(<<>>) /\ Range(<<>>) = {}
    BY EmptyFacts
  <2>3. Cardinality({}) >= 0
    BY FS_EmptySet
  <2>4. \A y \in Live : InOrder(<<>>, y) /\ ListsEnough(<<>>, y, 0)
    BY <2>2, <2>3 DEF InOrder, ListsEnough
  <2>5. Good(0)
    BY <2>1, <2>2, <2>4
  <2> HIDE DEF Good
  <2> QED BY <2>5
<1>4. ASSUME NEW k \in Nat, k \in S PROVE k + 1 \in S
  <2> SUFFICES ASSUME k + 1 <= limit PROVE Good(k + 1)
    OBVIOUS
  <2>1. k <= limit /\ k + 1 \in 0..limit /\ k + 1 # 0 /\ (k + 1) - 1 = k
    OBVIOUS
  <2>2. Good(k)
    BY <1>4, <2>1
  <2>3. t[k + 1] = [y \in Live |-> FlattenSeq(Visits(t[k], y))]
    BY <1>1, <2>1 DEF IsTraversal
  <2> DEFINE v == t[k]
  <2>4. v \in [Live -> Seq(Nodes)] /\ \A c \in Live : InOrder(v[c], c) /\ ListsEnough(v[c], c, k)
    BY <2>2
  <2> HIDE DEF v
  <2>5. ASSUME NEW y \in Live
        PROVE  LET r == FlattenSeq(Visits(v, y))
               IN  r \in Seq(Nodes) /\ InOrder(r, y) /\ ListsEnough(r, y, k + 1)
    BY <2>4, FlattenedVisits, VisitsKeepOrder, VisitsListEnough
  <2>6. t[k + 1] = [y \in Live |-> FlattenSeq(Visits(v, y))]
    BY <2>3 DEF v
  <2> QED BY <2>5, <2>6
<1>5. \A k \in Nat : k \in S
  <2> HIDE DEF S
  <2> QED BY <1>3, <1>4, InductionOnNat
<1>6. Good(limit)
  <2>1. limit \in S
    BY <1>5
  <2> QED BY <2>1
<1> QED BY <1>2, <1>6

\* depth_first lists what is attached to the document, in order.
LEMMA DepthFirstFacts ==
    ASSUME TreeInv, NEW d \in alive
    PROVE  InOrder(depth_first(d), d) /\ Range(depth_first(d)) = Below(d)
<1> DEFINE s == depth_first(d)
           limit == Cardinality(Nodes)
<1>1. limit \in Nat
  BY NodesAssumption, FS_CardinalityType
<1>2. d \in Live /\ TypeOK /\ Acyclic
  BY DEF Live, TreeInv
<1>3. s = collect_depth_first(limit)[d]
  BY DEF depth_first
<1> HIDE DEF s, limit
<1>4. InOrder(s, d) /\ ListsEnough(s, d, limit)
  BY <1>1, <1>2, <1>3, CollectedInOrder
<1>5. Range(s) \subseteq Nodes /\ Range(s) \subseteq Below(d)
  BY <1>4, LenProperties, ElementOfSeq DEF InOrder, Range
<1>6. Below(d) \subseteq Nodes
  <2>1. \A y \in Below(d) : y \in Objects /\ d \in AncestorsOf(y)
    BY DEF Below
  <2> QED BY <1>2, <2>1, AncestorsUnfold
<1>7. CASE Cardinality(Range(s)) >= limit
  <2>1. Cardinality(Range(s)) <= limit /\ (limit = Cardinality(Range(s)) => Nodes = Range(s))
    BY <1>5, NodesAssumption, FS_Subset DEF limit
  <2>2. IsFiniteSet(Range(s))
    BY <1>5, NodesAssumption, FS_Subset
  <2>3. Cardinality(Range(s)) \in Nat
    BY <2>2, FS_CardinalityType
  <2>4. limit = Cardinality(Range(s))
    BY <1>1, <1>7, <2>1, <2>3
  <2> QED BY <1>4, <1>5, <1>6, <2>1, <2>4 DEF s
<1>8. CASE Below(d) \subseteq Range(s)
  BY <1>4, <1>5, <1>8 DEF s
<1> QED BY <1>4, <1>7, <1>8 DEF ListsEnough

-----------------------------------------------------------------------------
(* Siblings, as depth_first and the links to them tell.                     *)

\* next_sibling finds the child right after.
LEMMA NextSiblingIsNext ==
    ASSUME TypeOK, LinksAgree, NEW m \in Nodes, NEW n \in Nodes
    PROVE  next_sibling(m) = n <=> parent[m] # None /\ IsNext(children[parent[m]], m, n)
<1>1. n # None
  BY ObjectsAssumption DEF Objects
<1>2. CASE parent[m] = None
  BY <1>1, <1>2 DEF next_sibling
<1>3. CASE parent[m] # None
  <2> DEFINE s == children[parent[m]]
             k == Len(s)
  <2>1. parent[m] \in Objects
    BY <1>3 DEF TypeOK, Objects
  <2>2. s \in Seq(Nodes) /\ IsInjective(s) /\ m \in Range(s)
    BY <2>1 DEF TypeOK, LinksAgree
  <2>3. Siblings(m) = s /\ Position(m) = PlaceOf(s, m)
    BY DEF Siblings, Position, PlaceOf
  <2> HIDE DEF s, k
  <2>4. k \in Nat /\ DOMAIN s = 1..k
    BY <2>2, LenProperties DEF k
  <2>5. PICK i \in 1..k : s[i] = m
    BY <2>2, <2>4 DEF Range
  <2>6. \A j \in 1..k : s[j] = m => j = i
    BY <2>2, <2>4, <2>5 DEF IsInjective
  <2>7. PlaceOf(s, m) = i
    BY <2>2, <2>5, OnlyPlace DEF k
  <2>8. next_sibling(m) = IF i \in {0, k} THEN None ELSE s[i + 1]
    BY <1>3, <2>3, <2>7 DEF next_sibling, k
  <2>9. i \notin {0, k} <=> i \in 1..(k - 1)
    BY <2>4
  <2>10. \A j \in 1..(k - 1) : j \in 1..k
    BY <2>4
  <2>11. next_sibling(m) = n <=> i \in 1..(k - 1) /\ s[i + 1] = n
    BY <1>1, <2>8, <2>9
  <2>12. IsNext(s, m, n) <=> i \in 1..(k - 1) /\ s[i + 1] = n
    BY <2>5, <2>6, <2>10 DEF IsNext, k
  <2> QED BY <1>3, <2>11, <2>12 DEF s
<1> QED BY <1>2, <1>3

\* previous_sibling finds the child right before.
LEMMA PreviousSiblingIsNext ==
    ASSUME TypeOK, LinksAgree, NEW m \in Nodes, NEW n \in Nodes
    PROVE  previous_sibling(n) = m <=> parent[n] # None /\ IsNext(children[parent[n]], m, n)
<1>1. m # None
  BY ObjectsAssumption DEF Objects
<1>2. CASE parent[n] = None
  BY <1>1, <1>2 DEF previous_sibling
<1>3. CASE parent[n] # None
  <2> DEFINE s == children[parent[n]]
             k == Len(s)
  <2>1. parent[n] \in Objects
    BY <1>3 DEF TypeOK, Objects
  <2>2. s \in Seq(Nodes) /\ IsInjective(s) /\ n \in Range(s)
    BY <2>1 DEF TypeOK, LinksAgree
  <2>3. Siblings(n) = s /\ Position(n) = PlaceOf(s, n)
    BY DEF Siblings, Position, PlaceOf
  <2> HIDE DEF s, k
  <2>4. k \in Nat /\ DOMAIN s = 1..k
    BY <2>2, LenProperties DEF k
  <2>5. PICK i \in 1..k : s[i] = n
    BY <2>2, <2>4 DEF Range
  <2>6. \A j \in 1..k : s[j] = n => j = i
    BY <2>2, <2>4, <2>5 DEF IsInjective
  <2>7. PlaceOf(s, n) = i
    BY <2>2, <2>5, OnlyPlace DEF k
  <2>8. previous_sibling(n) = IF i <= 1 THEN None ELSE s[i - 1]
    BY <1>3, <2>3, <2>7 DEF previous_sibling
  <2>9. previous_sibling(n) = m <=> ~(i <= 1) /\ s[i - 1] = m
    BY <1>1, <2>8
  <2>10. IsNext(s, m, n) <=> ~(i <= 1) /\ s[i - 1] = m
    <3>1. ASSUME NEW j \in 1..(k - 1), s[j] = m, s[j + 1] = n PROVE ~(i <= 1) /\ s[i - 1] = m
      <4>1. j + 1 \in 1..k
        BY <2>4
      <4>2. i = j + 1
        BY <2>6, <3>1, <4>1
      <4>3. ~(i <= 1) /\ i - 1 = j
        BY <4>2
      <4> QED BY <3>1, <4>3
    <3>2. ASSUME ~(i <= 1) PROVE i - 1 \in 1..(k - 1) /\ (i - 1) + 1 = i
      BY <2>4, <3>2
    <3> QED BY <2>5, <3>1, <3>2 DEF IsNext, k
  <2> QED BY <1>3, <2>9, <2>10 DEF s
<1> QED BY <1>2, <1>3

\* So the traversals agree.
LEMMA TreeInvTraversals == TreeInv => TraversalsAgree
<1> SUFFICES ASSUME TreeInv PROVE TraversalsAgree
  OBVIOUS
<1>1. TypeOK /\ LinksAgree /\ Acyclic
  BY DEF TreeInv
<1> SUFFICES ASSUME NEW d \in alive
             PROVE  LET nodes == depth_first(d)
                        place == [n \in Range(nodes) |-> CHOOSE i \in DOMAIN nodes : nodes[i] = n]
                        later(m) == {n \in Range(nodes) : parent[n] = parent[m] /\ place[m] < place[n]}
                    IN  /\ IsInjective(nodes)
                        /\ Range(nodes) = {n \in Nodes : d \in AncestorsOf(n)}
                        /\ \A n \in Range(nodes) : parent[n] # d => place[parent[n]] < place[n]
                        /\ \A m, n \in Range(nodes) :
                              LET adjacent == n \in later(m) /\ later(m) \subseteq later(n) \cup {n}
                              IN  /\ adjacent <=> next_sibling(m) = n
                                  /\ adjacent <=> previous_sibling(n) = m
  BY DEF TraversalsAgree
<1> DEFINE nodes == depth_first(d)
           place == [n \in Range(nodes) |-> CHOOSE i \in DOMAIN nodes : nodes[i] = n]
           later(m) == {n \in Range(nodes) : parent[n] = parent[m] /\ place[m] < place[n]}
<1>2. InOrder(nodes, d) /\ Range(nodes) = Below(d)
  BY DepthFirstFacts
<1>3. nodes \in Seq(Nodes) /\ IsInjective(nodes)
  BY <1>2 DEF InOrder
<1>4. \A n \in Range(nodes) : /\ n \in Objects /\ n \in Nodes
                              /\ d \in AncestorsOf(n)
                              /\ parent[n] \in Objects
                              /\ parent[n] \in Subtree(d)
  <2>1. \A n \in Range(nodes) : n \in Objects /\ d \in AncestorsOf(n)
    BY <1>2 DEF Below
  <2> QED BY <1>1, <2>1, AncestorsUnfold
<1>5. Range(nodes) = {n \in Nodes : d \in AncestorsOf(n)}
  BY <1>2, <1>4 DEF Below, Objects
<1>6. \A a, b \in Range(nodes) : place[a] < place[b] <=> Precedes(nodes, a, b)
  BY <1>3, PlacesTellOrder
<1> HIDE DEF nodes, place
<1>7. ASSUME NEW n \in Range(nodes), parent[n] # d PROVE place[parent[n]] < place[n]
  <2>1. parent[n] \in Range(nodes)
    BY <1>2, <1>4, <1>7 DEF Subtree
  <2>2. Precedes(nodes, parent[n], n)
    BY <1>2, <1>7 DEF InOrder
  <2> QED BY <1>6, <2>1, <2>2
\* A listed node's siblings are listed, in order.
<1>8. ASSUME NEW m \in Range(nodes)
      PROVE  LET s == children[parent[m]]
             IN  /\ s \in Seq(Nodes) /\ IsInjective(s)
                 /\ Range(s) = {n \in Range(nodes) : parent[n] = parent[m]}
                 /\ \A a, b \in Range(s) : place[a] < place[b] <=> Precedes(s, a, b)
  <2> DEFINE p == parent[m]
             s == children[p]
  <2>1. p \in Objects /\ p \in Subtree(d) /\ p # None
    BY <1>4, ObjectsAssumption
  <2>2. s \in Seq(Nodes) /\ IsInjective(s) /\ \A n \in Nodes : n \in Range(s) <=> parent[n] = p
    BY <1>1, <2>1 DEF TypeOK, LinksAgree
  <2>3. Range(s) \subseteq Nodes
    BY <2>2, LenProperties, ElementOfSeq DEF Range
  <2>4. ASSUME NEW n \in Range(s) PROVE n \in Range(nodes)
    <3>1. n \in Objects /\ parent[n] = p
      BY <2>2, <2>3, <2>4 DEF Objects
    <3>2. p \in AncestorsOf(n) /\ AncestorsOf(p) \subseteq AncestorsOf(n)
      BY <1>1, <2>1, <3>1, ParentIsAncestor
    <3>3. d \in AncestorsOf(n)
      BY <2>1, <3>2 DEF Subtree, Below
    <3> QED BY <1>2, <3>1, <3>3 DEF Below
  <2>5. Range(s) = {n \in Range(nodes) : parent[n] = p}
    BY <1>4, <2>2, <2>3, <2>4
  <2>6. ASSUME NEW a \in Range(s), NEW b \in Range(s), Precedes(s, a, b)
        PROVE  Precedes(nodes, a, b)
    <3>1. a \in Range(nodes) /\ b \in Range(nodes) /\ parent[a] = p /\ parent[b] = p
      BY <2>5
    <3>2. a \in Subtree(a) /\ b \in Subtree(b)
      BY DEF Subtree
    <3>3. Precedes(children[parent[a]], a, b)
      BY <2>6, <3>1
    <3> QED BY <1>2, <3>1, <3>2, <3>3 DEF InOrder
  <2>7. ASSUME NEW a \in Range(s), NEW b \in Range(s), Precedes(nodes, a, b)
        PROVE  Precedes(s, a, b)
    <3>1. ~Precedes(nodes, b, a) /\ a # b
      BY <1>3, <2>7, PrecedesIsOneWay
    <3>2. ~Precedes(s, b, a)
      BY <2>6, <3>1
    <3> QED BY <2>2, <3>1, <3>2, EitherPrecedes
  <2> QED BY <1>6, <2>2, <2>4, <2>5, <2>6, <2>7
<1>9. ASSUME NEW m \in Range(nodes), NEW n \in Range(nodes)
      PROVE  LET adjacent == n \in later(m) /\ later(m) \subseteq later(n) \cup {n}
             IN  /\ adjacent <=> next_sibling(m) = n
                 /\ adjacent <=> previous_sibling(n) = m
  <2> DEFINE s == children[parent[m]]
             adjacent == n \in later(m) /\ later(m) \subseteq later(n) \cup {n}
  <2>1. /\ s \in Seq(Nodes) /\ IsInjective(s)
        /\ Range(s) = {a \in Range(nodes) : parent[a] = parent[m]}
        /\ \A a, b \in Range(s) : place[a] < place[b] <=> Precedes(s, a, b)
    BY <1>8
  <2>2. m \in Nodes /\ n \in Nodes /\ parent[m] # None /\ parent[n] # None
    BY <1>4, ObjectsAssumption
  <2>3. CASE parent[n] # parent[m]
    <3>1. n \notin later(m)
      BY <2>3
    <3>2. ASSUME IsNext(s, m, n) PROVE FALSE
      <4>1. n \in Range(s)
        <5>1. PICK i \in 1..(Len(s) - 1) : s[i + 1] = n
          BY <3>2 DEF IsNext
        <5>2. i + 1 \in 1..Len(s) /\ DOMAIN s = 1..Len(s)
          BY <2>1, LenProperties
        <5> QED BY <5>1, <5>2 DEF Range
      <4> QED BY <2>1, <2>3, <4>1
    <3>3. ASSUME IsNext(children[parent[n]], m, n) PROVE FALSE
      <4> DEFINE u == children[parent[n]]
      <4>1. u \in Seq(Nodes) /\ Range(u) = {a \in Range(nodes) : parent[a] = parent[n]}
        BY <1>8
      <4> HIDE DEF u
      <4>2. PICK i \in 1..(Len(u) - 1) : u[i] = m
        BY <3>3 DEF IsNext, u
      <4>3. i \in 1..Len(u) /\ DOMAIN u = 1..Len(u)
        BY <4>1, LenProperties
      <4>4. m \in Range(u)
        BY <4>2, <4>3 DEF Range
      <4> QED BY <2>3, <4>1, <4>4
    <3>4. next_sibling(m) # n /\ previous_sibling(n) # m
      BY <1>1, <2>2, <3>2, <3>3, NextSiblingIsNext, PreviousSiblingIsNext
    <3> QED BY <3>1, <3>4
  <2>4. CASE parent[n] = parent[m]
    <3> HIDE DEF s
    <3>1. m \in Range(s) /\ n \in Range(s)
      BY <2>1, <2>4
    <3>2. later(m) = Later(s, m) /\ later(n) = Later(s, n)
      BY <2>1, <2>4, <3>1 DEF Later
    <3>3. adjacent <=> IsNext(s, m, n)
      BY <2>1, <3>1, <3>2, NextIsFirstLater
    <3>4. next_sibling(m) = n <=> IsNext(s, m, n)
      BY <1>1, <2>2, NextSiblingIsNext DEF s
    <3>5. previous_sibling(n) = m <=> IsNext(s, m, n)
      BY <1>1, <2>2, <2>4, PreviousSiblingIsNext DEF s
    <3> QED BY <3>3, <3>4, <3>5
  <2> QED BY <2>3, <2>4
<1> QED BY <1>3, <1>5, <1>7, <1>9 DEF nodes, place

\* depth_first lists what is attached, each node once and after its parent,
\* and tells the same next and previous siblings as the links do.
THEOREM TreeTraversalsAgree == Spec => []TraversalsAgree
BY TreeInvariant, TreeInvTraversals, PTL

-----------------------------------------------------------------------------
(* There is one order to list a tree in.                                    *)

\* s is depth_first's list of what is below d.
Lists(s, d) == InOrder(s, d) /\ Range(s) = Below(d)

\* An ancestor comes before what is below it.
LEMMA AncestorsComeFirst ==
    ASSUME TreeInv, NEW d \in alive, NEW s, Lists(s, d),
           NEW a \in Below(d), NEW b \in Below(a)
    PROVE  Precedes(s, a, b)
<1>1. TypeOK /\ Acyclic
  BY DEF TreeInv
<1>2. s \in Seq(Nodes) /\ IsInjective(s) /\ Range(s) = Below(d)
  BY DEF Lists, InOrder
<1> DEFINE S == {y \in Below(a) : ~Precedes(s, a, y)}
<1>3. d \in Objects /\ parent[d] = None /\ d \notin AncestorsOf(d)
  BY <1>1, NotItsOwnAncestor DEF TypeOK, Objects
<1>4. a \in Objects /\ d \in AncestorsOf(a)
  BY DEF Below
<1>5. ASSUME S # {} PROVE FALSE
  <2>1. S \in SUBSET Objects
    BY DEF Below
  <2>2. PICK y \in S : parent[y] \notin S
    BY <1>1, <1>5, <2>1 DEF Acyclic
  <2>3. y \in Objects /\ a \in AncestorsOf(y) /\ ~Precedes(s, a, y)
    BY <2>2 DEF Below
  <2>4. d \in AncestorsOf(y)
    BY <1>1, <1>4, <2>3, AncestorsOfAncestors
  <2>5. y \in Below(d) /\ parent[y] \in Subtree(d) /\ parent[y] \in Subtree(a)
    BY <1>1, <2>3, <2>4, AncestorsUnfold
  <2>6. parent[y] # d
    <3>1. d # a /\ a \notin AncestorsOf(d)
      <4>1. d # a
        BY <1>3, <1>4
      <4>2. a \in AncestorsOf(d) => d \in AncestorsOf(d)
        BY <1>1, <1>3, <1>4, AncestorsOfAncestors
      <4> QED BY <1>3, <4>1, <4>2
    <3> QED BY <2>5, <3>1 DEF Subtree, Below
  <2>7. Precedes(s, parent[y], y)
    BY <1>2, <2>5, <2>6 DEF Lists, InOrder
  <2>8. CASE parent[y] = a
    BY <2>3, <2>7, <2>8
  <2>9. CASE parent[y] # a
    <3>1. parent[y] \in Below(a)
      BY <2>5, <2>9 DEF Subtree
    <3>2. Precedes(s, a, parent[y])
      BY <2>2, <3>1
    <3> QED BY <1>2, <2>3, <2>7, <3>2, PrecedesIsTransitive
  <2> QED BY <2>8, <2>9
<1> QED BY <1>5

\* What hangs from a live object lives.
LEMMA SubtreesLive ==
    ASSUME TreeInv, NEW d \in alive, NEW x \in Subtree(d)
    PROVE  x \in Live
<1>1. TypeOK /\ OwnersAgree
  BY DEF TreeInv
<1>2. CASE x = d
  BY <1>2 DEF Live
<1>3. CASE x \in Below(d)
  <2>1. x \in Objects /\ d \in AncestorsOf(x)
    BY <1>3 DEF Below
  <2>2. x \in Nodes /\ parent[x] \in Objects
    BY <1>1, <2>1, AncestorsUnfold
  <2>3. owner[x] # None /\ owner[x] \in Documents
    BY <1>1, <2>1, <2>2, ObjectsAssumption DEF OwnersAgree, TypeOK
  <2>4. x \in storage[owner[x]]
    BY <1>1, <2>2, <2>3 DEF OwnersAgree
  <2>5. owner[x] \in alive
    BY <1>1, <2>3, <2>4 DEF OwnersAgree
  <2> QED BY <2>4, <2>5 DEF Live, Stored
<1> QED BY <1>2, <1>3 DEF Subtree

\* Of two nodes of a tree, one is below the other, or they hang from
\* different children of one object.
LEMMA HowNodesAreRelated ==
    ASSUME TreeInv, NEW d \in alive, NEW a \in Below(d), NEW b \in Below(d), a # b
    PROVE  \/ b \in Below(a)
           \/ a \in Below(b)
           \/ \E u, v \in Below(d) : /\ u # v /\ parent[u] = parent[v] /\ parent[u] \in Live
                                     /\ u \in Range(children[parent[u]])
                                     /\ v \in Range(children[parent[u]])
                                     /\ a \in Subtree(u) /\ b \in Subtree(v)
<1> SUFFICES ASSUME b \notin Below(a), a \notin Below(b)
             PROVE  \E u, v \in Below(d) : /\ u # v /\ parent[u] = parent[v] /\ parent[u] \in Live
                                           /\ u \in Range(children[parent[u]])
                                           /\ v \in Range(children[parent[u]])
                                           /\ a \in Subtree(u) /\ b \in Subtree(v)
  OBVIOUS
<1>1. TypeOK /\ LinksAgree /\ Acyclic
  BY DEF TreeInv
<1> DEFINE S == {y \in Below(d) : a \in Subtree(y) /\ b \notin Subtree(y)}
<1>2. a \in S
  BY DEF Subtree
<1>3. S \in SUBSET Objects /\ S # {}
  BY <1>2 DEF Below
<1>4. PICK u \in S : parent[u] \notin S
  BY <1>1, <1>3 DEF Acyclic
<1>5. u \in Objects /\ u \in Below(d) /\ d \in AncestorsOf(u) /\ a \in Subtree(u) /\ b \notin Subtree(u)
  BY <1>4 DEF Below
<1> DEFINE p == parent[u]
<1>6. u \in Nodes /\ p \in Objects /\ p \in Subtree(d) /\ p # None
  BY <1>1, <1>5, AncestorsUnfold, ObjectsAssumption
<1>7. Subtree(u) \subseteq Below(p)
  BY <1>1, <1>6, SubtreeIsBelow
<1>8. b \in Below(p)
  <2>1. CASE p = d
    BY <2>1
  <2>2. CASE p \in Below(d)
    <3>1. b \in Subtree(p)
      BY <1>4, <1>5, <1>7, <2>2 DEF Subtree
    <3>2. b # p
      BY <1>5, <1>7
    <3> QED BY <3>1, <3>2 DEF Subtree
  <2> QED BY <1>6, <2>1, <2>2 DEF Subtree
<1>9. p \in Live
  BY <1>6, SubtreesLive
<1>10. PICK i \in 1..Len(children[p]) : b \in Subtree(children[p][i])
  BY <1>8, <1>9, BelowIsSubtrees
<1> DEFINE v == children[p][i]
<1>11. v \in Nodes /\ parent[v] = p /\ v \in Range(children[p])
  BY <1>9, <1>10, ChildrenLive DEF Range
<1>12. u \in Range(children[p])
  BY <1>1, <1>6 DEF LinksAgree
<1>13. v \in Below(d)
  <2>1. p \in AncestorsOf(v) /\ AncestorsOf(p) \subseteq AncestorsOf(v) /\ v \in Objects
    BY <1>1, <1>6, <1>11, ParentIsAncestor DEF Objects
  <2> QED BY <1>6, <2>1 DEF Subtree, Below
<1>14. u # v
  BY <1>5, <1>10
<1> HIDE DEF v, p
<1>15. WITNESS u \in Below(d), v \in Below(d)
<1> QED BY <1>5, <1>9, <1>10, <1>11, <1>12, <1>13, <1>14 DEF v, p

\* So two lists of one tree agree on which of two nodes comes first.
LEMMA ListsAgree ==
    ASSUME TreeInv, NEW d \in alive, NEW s, NEW t, Lists(s, d), Lists(t, d),
           NEW a \in Range(s), NEW b \in Range(s), Precedes(s, a, b)
    PROVE  Precedes(t, a, b)
<1>1. /\ s \in Seq(Nodes) /\ IsInjective(s) /\ Range(s) = Below(d)
      /\ t \in Seq(Nodes) /\ IsInjective(t) /\ Range(t) = Below(d)
  BY DEF Lists, InOrder
<1>2. ~Precedes(s, b, a)
  BY <1>1, PrecedesIsOneWay
<1>3. a # b
  BY <1>2
<1>4. a \in Below(d) /\ b \in Below(d)
  BY <1>1
<1>5. CASE b \in Below(a)
  BY <1>4, <1>5, AncestorsComeFirst
<1>6. CASE a \in Below(b)
  BY <1>2, <1>4, <1>6, AncestorsComeFirst
<1>7. ASSUME NEW u \in Below(d), NEW v \in Below(d), u # v, parent[u] = parent[v], parent[u] \in Live,
             u \in Range(children[parent[u]]), v \in Range(children[parent[u]]),
             a \in Subtree(u), b \in Subtree(v)
      PROVE  Precedes(t, a, b)
  <2>1. children[parent[u]] \in Seq(Nodes)
    BY <1>7, ChildrenLive
  <2>2. Precedes(children[parent[u]], u, v) \/ Precedes(children[parent[u]], v, u)
    BY <1>7, <2>1, EitherPrecedes
  <2>3. CASE Precedes(children[parent[u]], u, v)
    BY <1>1, <1>4, <1>7, <2>3 DEF Lists, InOrder
  <2>4. CASE Precedes(children[parent[u]], v, u)
    <3>1. Precedes(s, b, a)
      BY <1>1, <1>4, <1>7, <2>4 DEF Lists, InOrder
    <3> QED BY <1>2, <3>1
  <2> QED BY <2>2, <2>3, <2>4
<1>8. \/ b \in Below(a)
      \/ a \in Below(b)
      \/ \E u, v \in Below(d) : /\ u # v /\ parent[u] = parent[v] /\ parent[u] \in Live
                                /\ u \in Range(children[parent[u]])
                                /\ v \in Range(children[parent[u]])
                                /\ a \in Subtree(u) /\ b \in Subtree(v)
  BY <1>3, <1>4, HowNodesAreRelated
<1> QED BY <1>5, <1>6, <1>7, <1>8

\* And so they are the same.
LEMMA ListIsDepthFirst ==
    ASSUME TreeInv, NEW d \in alive, NEW s, Lists(s, d)
    PROVE  depth_first(d) = s
<1> DEFINE t == depth_first(d)
<1>1. Lists(t, d)
  BY DepthFirstFacts DEF Lists
<1> HIDE DEF t
<1>2. /\ s \in Seq(Nodes) /\ IsInjective(s) /\ Range(s) = Below(d)
      /\ t \in Seq(Nodes) /\ IsInjective(t) /\ Range(t) = Below(d)
  BY <1>1 DEF Lists, InOrder
<1>3. \A a, b \in Range(s) : Precedes(s, a, b) => Precedes(t, a, b)
  BY <1>1, ListsAgree
<1>4. s = t
  BY <1>2, <1>3, SameOrderSameSequence
<1> QED BY <1>4 DEF t

-----------------------------------------------------------------------------
(* What the operations do to such a list.                                   *)

\* The ancestors that a map of parents gives x.
Closes(par, x, S) == \A y \in S \cup {x} : par[y] = None \/ par[y] \in S
Above(par, x) == {a \in Objects : \A S \in SUBSET Objects : Closes(par, x, S) => a \in S}

\* AncestorsOf reads parent_, before an operation and after it.
LEMMA AncestorsAreAbove ==
    \A x : AncestorsOf(x) = Above(parent, x) /\ AncestorsOf(x)' = Above(parent', x)
BY DEF AncestorsOf, ClosedAbove, Above, Closes

\* Above is closed under the map of parents.
LEMMA AboveFacts ==
    ASSUME NEW par \in [Objects -> Objects \cup {None}], NEW x \in Objects
    PROVE  /\ Above(par, x) \subseteq Objects
           /\ par[x] # None => par[x] \in Above(par, x)
           /\ \A y \in Above(par, x) : par[y] # None => par[y] \in Above(par, x)
<1>1. Above(par, x) \subseteq Objects
  BY DEF Above
<1>2. ASSUME NEW y \in Above(par, x) \cup {x}, par[y] # None PROVE par[y] \in Above(par, x)
  <2>1. par[y] \in Objects
    BY <1>1, <1>2
  <2>2. ASSUME NEW S \in SUBSET Objects, Closes(par, x, S)
        PROVE  par[y] \in S
    <3>1. y \in S \cup {x}
      BY <1>2, <2>2 DEF Above
    <3> QED BY <1>2, <2>2, <3>1 DEF Closes
  <2> QED BY <2>1, <2>2 DEF Above
<1> QED BY <1>1, <1>2

\* And it is the least set that is.
LEMMA AboveIsLeast ==
    ASSUME NEW par, NEW x, NEW S \in SUBSET Objects,
           Closes(par, x, S)
    PROVE  Above(par, x) \subseteq S
BY DEF Above

\* Linking c, which nothing hangs from, below p.
IsLinked(par, qar, c, p) ==
    /\ par \in [Objects -> Objects \cup {None}] /\ qar \in [Objects -> Objects \cup {None}]
    /\ c \in Objects /\ p \in Objects /\ p # c /\ None \notin Objects
    /\ par[c] = None /\ \A x \in Objects : par[x] # c
    /\ qar[c] = p /\ \A x \in Objects : x # c => qar[x] = par[x]

\* Then c has the ancestors of p, and p; the others keep theirs.
LEMMA AboveWhenLinked ==
    ASSUME NEW par, NEW qar, NEW c, NEW p, IsLinked(par, qar, c, p)
    PROVE  /\ \A x \in Objects : x # c => Above(qar, x) = Above(par, x)
           /\ Above(qar, c) = {p} \cup Above(par, p)
<1> USE DEF IsLinked
<1>1. ASSUME NEW x \in Objects, x # c PROVE Above(qar, x) = Above(par, x)
  <2> DEFINE A == Above(par, x) \ {c}
             B == Above(qar, x) \ {c}
  <2>1. A \in SUBSET Objects /\ B \in SUBSET Objects
    BY DEF Above
  <2>2. Closes(qar, x, A)
    BY <1>1, <2>1, AboveFacts DEF Closes
  <2>3. Closes(par, x, B)
    BY <1>1, <2>1, AboveFacts DEF Closes
  <2>4. Above(qar, x) \subseteq A
    BY <2>1, <2>2, AboveIsLeast
  <2>5. Above(par, x) \subseteq B
    BY <2>1, <2>3, AboveIsLeast
  <2> QED BY <2>4, <2>5
<1>2. Above(qar, c) \subseteq {p} \cup Above(par, p)
  <2> DEFINE S == {p} \cup Above(par, p)
  <2>1. S \in SUBSET Objects
    BY DEF Above
  <2>2. ASSUME NEW y \in S \cup {c} PROVE qar[y] = None \/ qar[y] \in S
    <3>1. CASE y = c
      BY <3>1
    <3>2. CASE y # c
      <4>1. y \in Objects /\ qar[y] = par[y] /\ (y = p \/ y \in Above(par, p))
        BY <2>1, <2>2, <3>2
      <4> QED BY <4>1, AboveFacts
    <3> QED BY <3>1, <3>2
  <2>3. Closes(qar, c, S)
    BY <2>2 DEF Closes
  <2> QED BY <2>1, <2>3, AboveIsLeast
<1>3. p \in Above(qar, c)
  BY AboveFacts
<1>4. Above(par, p) \subseteq Above(qar, c)
  <2> DEFINE S == Above(qar, c) \ {c}
  <2>1. S \in SUBSET Objects
    BY DEF Above
  <2>2. \A y \in S : qar[y] # None => qar[y] \in Above(qar, c)
    BY AboveFacts
  <2>3. ASSUME NEW y \in S \cup {p} PROVE par[y] = None \/ par[y] \in S
    <3>1. y \in S /\ par[y] = qar[y] /\ par[y] # c
      BY <1>3, <2>1, <2>3
    <3> QED BY <2>2, <3>1
  <2>4. Closes(par, p, S)
    BY <2>3 DEF Closes
  <2> QED BY <2>1, <2>4, AboveIsLeast
<1> QED BY <1>1, <1>2, <1>3, <1>4

\* Putting d, which nothing hangs from, in the place of e.
IsReplaced(par, qar, d, e) ==
    /\ par \in [Objects -> Objects \cup {None}] /\ qar \in [Objects -> Objects \cup {None}]
    /\ d \in Objects /\ e \in Objects /\ d # e /\ None \notin Objects
    /\ par[d] = None /\ par[e] = None /\ \A x \in Objects : par[x] # d
    /\ \A x \in Objects : qar[x] = IF par[x] = e THEN d ELSE par[x]

\* Then d is an ancestor of what e was.
LEMMA AboveWhenReplaced ==
    ASSUME NEW par, NEW qar, NEW d, NEW e, IsReplaced(par, qar, d, e), NEW x \in Objects
    PROVE  /\ d \in Above(qar, x) <=> e \in Above(par, x)
           /\ \A a \in Objects \ {d, e} : a \in Above(qar, x) <=> a \in Above(par, x)
<1> USE DEF IsReplaced
<1> DEFINE A == {a \in Objects : (a = d /\ e \in Above(par, x)) \/ (a # e /\ a \in Above(par, x))}
           B == {a \in Objects : (a = e /\ d \in Above(qar, x)) \/ (a # d /\ a \in Above(qar, x))}
<1>1. A \in SUBSET Objects /\ B \in SUBSET Objects
  OBVIOUS
<1>2. \A y \in Above(par, x) \cup {x} : par[y] = None \/ par[y] \in Above(par, x)
  BY AboveFacts
<1>3. \A y \in Above(qar, x) \cup {x} : qar[y] = None \/ qar[y] \in Above(qar, x)
  BY AboveFacts
<1>4. \A y \in Objects : par[y] \in Objects \/ par[y] = None
  OBVIOUS
<1>5. ASSUME NEW y \in A \cup {x} PROVE qar[y] = None \/ qar[y] \in A
  <2>1. y \in Objects
    BY <1>1
  <2>2. CASE y \in Above(par, x) \cup {x}
    BY <1>2, <1>4, <2>1, <2>2
  <2>3. CASE y = d
    BY <2>1, <2>3
  <2> QED BY <1>5, <2>2, <2>3
<1>6. ASSUME NEW y \in B \cup {x} PROVE par[y] = None \/ par[y] \in B
  <2>1. y \in Objects
    BY <1>1
  <2>2. CASE y \in Above(qar, x) \cup {x}
    BY <1>3, <1>4, <2>1, <2>2
  <2>3. CASE y = e
    BY <2>1, <2>3
  <2> QED BY <1>6, <2>2, <2>3
<1>7. Closes(qar, x, A) /\ Closes(par, x, B)
  BY <1>5, <1>6 DEF Closes
<1>8. Above(qar, x) \subseteq A /\ Above(par, x) \subseteq B
  BY <1>1, <1>7, AboveIsLeast
<1>9. d \notin Above(par, x)
  <2>1. Closes(par, x, Objects \ {d})
    BY <1>4 DEF Closes
  <2>2. Above(par, x) \subseteq Objects \ {d}
    BY <2>1, AboveIsLeast
  <2> QED BY <2>2
<1> QED BY <1>8, <1>9

\* Nothing in the tree comes after the subtree that p is in, at any depth:
\* what is appended to p comes last.
OnTheRight(p) ==
    \A u \in Nodes : p \in Subtree(u) /\ parent[u] # None =>
        \A w : ~Precedes(children[parent[u]], u, w)

\* What leaves the links alone leaves the lists alone.
LEMMA UnlinkedListsStay ==
    ASSUME UNCHANGED <<parent, children>>
    PROVE  /\ \A s, d : Lists(s, d) => Lists(s, d)'
           /\ \A p : OnTheRight(p) => OnTheRight(p)'
           /\ \A p, d : p \in Subtree(d) => p \in Subtree(d)'
<1>1. \A x : AncestorsOf(x)' = AncestorsOf(x)
  BY AncestorsAreAbove
<1>2. \A x : Below(x)' = Below(x) /\ Subtree(x)' = Subtree(x)
  BY <1>1 DEF Below, Subtree
<1> QED BY <1>2 DEF Lists, InOrder, OnTheRight

\* What is on the right of the tree is below what is, too.
LEMMA ParentOnTheRight ==
    ASSUME TypeOK, NEW p \in Objects, parent[p] # None, OnTheRight(p)
    PROVE  OnTheRight(parent[p])
<1>1. parent[p] \in AncestorsOf(p) /\ AncestorsOf(parent[p]) \subseteq AncestorsOf(p)
  BY ParentIsAncestor
<1>2. \A u \in Nodes : parent[p] \in Subtree(u) => p \in Subtree(u)
  BY <1>1 DEF Subtree, Below
<1> QED BY <1>2 DEF OnTheRight

\* A tree of nothing but its document is listed by the empty sequence.
LEMMA EmptyTreeLists ==
    ASSUME TreeInv, NEW d \in Documents, \A x \in Objects : parent[x] # d
    PROVE  /\ Lists(<<>>, d)
           /\ OnTheRight(d)
           /\ d \in Subtree(d)
<1>1. TypeOK /\ d \in Objects /\ parent[d] = None
  BY DEF TreeInv, TypeOK, Objects
<1>2. \A x \in Objects : d \notin AncestorsOf(x)
  <2> SUFFICES ASSUME NEW x \in Objects PROVE d \notin AncestorsOf(x)
    OBVIOUS
  <2>1. Closes(parent, x, Objects \ {d})
    BY <1>1 DEF Closes, TypeOK
  <2>2. Above(parent, x) \subseteq Objects \ {d}
    BY <2>1, AboveIsLeast
  <2> QED BY <2>2, AncestorsAreAbove
<1>3. Below(d) = {}
  BY <1>2 DEF Below
<1>4. Lists(<<>>, d)
  BY <1>3, EmptyFacts DEF Lists, InOrder
<1>5. OnTheRight(d)
  <2> SUFFICES ASSUME NEW u \in Nodes, d \in Subtree(u) PROVE FALSE
    BY DEF OnTheRight
  <2>1. d # u
    BY ObjectsAssumption
  <2>2. u \in AncestorsOf(d)
    BY <2>1 DEF Subtree, Below
  <2>3. d \in Nodes
    BY <1>1, <2>2, AncestorsUnfold
  <2> QED BY <2>3, ObjectsAssumption
<1> QED BY <1>4, <1>5 DEF Subtree

\* append_child of a node that is linked to nothing: the tree gets one node
\* more, the last of the children of p.
LEMMA AppendedSubtrees ==
    ASSUME TypeOK, NEW p \in Objects, NEW c \in Nodes, append_child(p, c), parent[c] = None,
           \A x \in Objects : parent[x] # c, TypeOK'
    PROVE  /\ p # c
           /\ parent'[c] = p /\ \A x \in Objects : x # c => parent'[x] = parent[x]
           /\ children'[p] = Append(children[p], c)
           /\ \A x \in Objects : x # p => children'[x] = children[x]
           /\ \A x \in Objects : c \notin AncestorsOf(x)
           /\ \A x \in Objects : Below(x)' = IF p \in Subtree(x) THEN Below(x) \cup {c} ELSE Below(x)
           /\ Below(c)' = {}
<1>1. c \in Objects /\ p # c /\ None \notin Objects
  BY ObjectsAssumption DEF append_child, CanAppend, Objects
<1>2. /\ parent \in [Objects -> Objects \cup {None}] /\ parent' \in [Objects -> Objects \cup {None}]
      /\ children \in [Objects -> Seq(Nodes)]
  BY DEF TypeOK
<1>3. parent'[c] = p /\ \A x \in Objects : x # c => parent'[x] = parent[x]
  BY <1>1, <1>2 DEF append_child
<1>4. children'[p] = Append(children[p], c) /\ \A x \in Objects : x # p => children'[x] = children[x]
  BY <1>1, <1>2 DEF append_child, detached, inserted
<1>5. /\ \A x \in Objects : x # c => Above(parent', x) = Above(parent, x)
      /\ Above(parent', c) = {p} \cup Above(parent, p)
  <2>1. IsLinked(parent, parent', c, p)
    BY <1>1, <1>2, <1>3 DEF IsLinked
  <2> QED BY <2>1, AboveWhenLinked
<1>6. /\ \A x \in Objects : x # c => AncestorsOf(x)' = AncestorsOf(x)
      /\ AncestorsOf(c)' = {p} \cup AncestorsOf(p)
  BY <1>5, AncestorsAreAbove
<1>7. ASSUME NEW x \in Objects PROVE c \notin AncestorsOf(x)
  <2>1. Closes(parent, x, Objects \ {c})
    BY <1>2 DEF Closes
  <2>2. Above(parent, x) \subseteq Objects \ {c}
    BY <2>1, AboveIsLeast
  <2> QED BY <2>2, AncestorsAreAbove
<1>8. AncestorsOf(c) = {}
  <2>1. Closes(parent, c, {})
    BY DEF Closes
  <2>2. Above(parent, c) \subseteq {}
    BY <2>1, AboveIsLeast
  <2> QED BY <2>2, AncestorsAreAbove
<1>9. ASSUME NEW x \in Objects
      PROVE  Below(x)' = IF p \in Subtree(x) THEN Below(x) \cup {c} ELSE Below(x)
  <2>1. \A y \in Objects : y # c => (y \in Below(x)' <=> y \in Below(x))
    BY <1>6 DEF Below
  <2>2. c \notin Below(x)
    BY <1>8 DEF Below
  <2>3. c \in Below(x)' <=> p \in Subtree(x)
    BY <1>1, <1>6 DEF Below, Subtree
  <2>4. Below(x)' \subseteq Objects /\ Below(x) \subseteq Objects
    BY DEF Below
  <2> QED BY <2>1, <2>2, <2>3, <2>4, <1>1
<1>10. Below(c)' = {}
  <2>1. Below(c) = {}
    BY <1>7 DEF Below
  <2>2. p \notin Subtree(c)
    BY <1>1, <2>1 DEF Subtree
  <2> QED BY <1>1, <1>9, <2>1, <2>2
<1> QED BY <1>1, <1>3, <1>4, <1>7, <1>9, <1>10

\* The node appended is the last of the list, when p is on the right.
LEMMA AppendKeepsLists ==
    ASSUME TreeInv, NEW p \in Objects, NEW c \in Nodes, append_child(p, c), parent[c] = None,
           \A x \in Objects : parent[x] # c, TypeOK',
           NEW d \in alive, p \in Subtree(d), OnTheRight(p), NEW s, Lists(s, d)
    PROVE  /\ Lists(Append(s, c), d)'
           /\ OnTheRight(p)' /\ p \in Subtree(d)'
           /\ OnTheRight(c)' /\ c \in Subtree(d)'
<1>1. TypeOK /\ LinksAgree /\ Acyclic
  BY DEF TreeInv
<1>2. /\ p # c
      /\ parent'[c] = p /\ \A x \in Objects : x # c => parent'[x] = parent[x]
      /\ children'[p] = Append(children[p], c)
      /\ \A x \in Objects : x # p => children'[x] = children[x]
      /\ \A x \in Objects : c \notin AncestorsOf(x)
      /\ \A x \in Objects : Below(x)' = IF p \in Subtree(x) THEN Below(x) \cup {c} ELSE Below(x)
      /\ Below(c)' = {}
  BY <1>1, AppendedSubtrees
<1>3. d \in Objects /\ d \in Documents /\ d \notin Nodes /\ Nodes \subseteq Objects /\ None \notin Objects
  BY <1>1, ObjectsAssumption DEF TypeOK, Objects
<1>4. s \in Seq(Nodes) /\ IsInjective(s) /\ Range(s) = Below(d)
  BY DEF Lists, InOrder
<1>5. c \notin Range(s)
  <2>1. c \in AncestorsOf(c) \/ c \notin Below(d)
    <3> SUFFICES ASSUME c \in Below(d) PROVE FALSE
      OBVIOUS
    <3>1. parent[c] \in Objects
      BY <1>1, AncestorsUnfold DEF Below
    <3> QED BY <1>3, <3>1
  <2> QED BY <1>2, <1>3, <1>4, <2>1
<1> DEFINE r == Append(s, c)
<1>6. /\ r \in Seq(Nodes) /\ IsInjective(r) /\ Range(r) = Range(s) \cup {c}
      /\ \A a \in Range(s) : Precedes(r, a, c)
      /\ \A a, b : Precedes(s, a, b) => Precedes(r, a, b)
  BY <1>4, <1>5, AppendNewFacts, AppendedComesLast
<1>7. Below(d)' = Below(d) \cup {c}
  BY <1>2, <1>3
\* Nothing comes after the new node, or after what it is in.
<1>8. /\ children[p] \in Seq(Nodes) /\ IsInjective(children[p]) /\ c \notin Range(children[p])
  <2>1. c \in Range(children[p]) <=> parent[c] = p
    BY <1>1 DEF LinksAgree
  <2> QED BY <1>1, <1>3, <2>1 DEF TypeOK, LinksAgree
<1>9. \A w : ~Precedes(children'[p], c, w)
  BY <1>2, <1>8, AppendedComesLast
<1>10. ASSUME NEW u \in Nodes, c \in Subtree(u)' PROVE u = c \/ p \in Subtree(u)
  <2>1. u \in Objects
    BY <1>3
  <2>2. c = u \/ c \in Below(u)'
    BY <1>10 DEF Subtree
  <2>3. c \in Below(u) => FALSE
    <3> SUFFICES ASSUME c \in Below(u) PROVE FALSE
      OBVIOUS
    <3>1. parent[c] \in Objects
      BY <1>1, AncestorsUnfold DEF Below
    <3> QED BY <1>3, <3>1
  <2> QED BY <1>2, <2>1, <2>2, <2>3
<1>11. ASSUME NEW u \in Nodes, p \in Subtree(u), parent[u] # None
       PROVE  \A w : ~Precedes(children'[parent'[u]], u, w)
  <2>1. u \in Objects /\ u # c
    <3>1. Below(c) = {}
      BY <1>2 DEF Below
    <3>2. p \notin Subtree(c)
      BY <1>2, <3>1 DEF Subtree
    <3> QED BY <1>3, <1>11, <3>2
  <2>2. parent'[u] = parent[u] /\ parent[u] \in Objects
    BY <1>1, <1>2, <1>11, <2>1 DEF TypeOK
  <2>3. parent[u] # p
    <3>1. parent[u] = p => p \in AncestorsOf(u)
      BY <1>1, <1>11, <2>1, ParentIsAncestor
    <3>2. u = p => p \notin AncestorsOf(u)
      BY <1>1, NotItsOwnAncestor
    <3>3. p \in Below(u) /\ p \in AncestorsOf(u) => u \in AncestorsOf(u)
      BY <1>1, <2>1, AncestorsOfAncestors DEF Below
    <3>4. u \notin AncestorsOf(u)
      BY <1>1, <2>1, NotItsOwnAncestor
    <3> QED BY <1>11, <3>1, <3>2, <3>3, <3>4 DEF Subtree
  <2> QED BY <1>2, <1>11, <2>2, <2>3 DEF OnTheRight
<1>12. ASSUME NEW u \in Nodes, c \in Subtree(u)', parent'[u] # None
       PROVE  \A w : ~Precedes(children'[parent'[u]], u, w)
  <2>1. CASE u = c
    BY <1>2, <1>9, <2>1
  <2>2. CASE u # c /\ p \in Subtree(u)
    BY <1>2, <1>3, <1>11, <1>12, <2>2
  <2> QED BY <1>10, <1>12, <2>1, <2>2
<1>13. ASSUME NEW u \in Nodes, p \in Subtree(u)' PROVE p \in Subtree(u)
  BY <1>2, <1>3, <1>13 DEF Subtree
<1>14. OnTheRight(c)' /\ OnTheRight(p)'
  <2>1. OnTheRight(c)'
    BY <1>12 DEF OnTheRight
  <2>2. OnTheRight(p)'
    <3>1. p \notin Subtree(c)
      BY <1>2 DEF Subtree, Below
    <3> QED BY <1>2, <1>3, <1>11, <1>13, <3>1 DEF OnTheRight
  <2> QED BY <2>1, <2>2
<1>15. c \in Subtree(d)' /\ p \in Subtree(d)'
  BY <1>7, <1>2, <1>3 DEF Subtree
<1>16. ASSUME NEW n \in Range(r), parent'[n] # d PROVE Precedes(r, parent'[n], n)
  <2>1. CASE n = c
    <3>1. p \in Range(s)
      BY <1>2, <1>4, <1>16, <2>1 DEF Subtree
    <3> QED BY <1>2, <1>6, <2>1, <3>1
  <2>2. CASE n # c
    <3>1. n \in Range(s) /\ n \in Objects
      BY <1>4, <1>6, <2>2 DEF Below
    <3>2. parent'[n] = parent[n]
      BY <1>2, <2>2, <3>1
    <3>3. Precedes(s, parent[n], n)
      BY <1>16, <3>1, <3>2 DEF Lists, InOrder
    <3> QED BY <1>6, <3>2, <3>3
  <2> QED BY <2>1, <2>2
<1>17. ASSUME NEW m \in Range(r), NEW n \in Range(r), parent'[m] = parent'[n],
              Precedes(children'[parent'[m]], m, n),
              NEW a \in Range(r) \cap Subtree(m)', NEW b \in Range(r) \cap Subtree(n)'
       PROVE  Precedes(r, a, b)
  <2>1. m \in Nodes /\ n \in Nodes /\ m \in Objects /\ n \in Objects /\ a \in Objects /\ b \in Objects
    BY <1>3, <1>4, <1>6, ElementOfSeq DEF Range
  <2>2. a # c
    <3> SUFFICES ASSUME a = c PROVE FALSE
      OBVIOUS
    <3>1. c \in Subtree(m)'
      BY <1>17
    <3>2. parent'[m] # None
      <4>1. m = c => parent'[m] # None
        BY <1>2, <1>3
      <4>2. m # c => m \in Below(d)
        BY <1>4, <1>6
      <4>3. m \in Below(d) => parent[m] \in Objects
        BY <1>1, <2>1, AncestorsUnfold DEF Below
      <4> QED BY <1>2, <1>3, <2>1, <4>1, <4>2, <4>3
    <3> QED BY <1>12, <1>17, <2>1, <3>1, <3>2
  <2>3. a \in Range(s)
    BY <1>6, <1>17, <2>2
  <2>4. CASE b = c
    BY <1>6, <2>3, <2>4
  <2>5. CASE b # c
    <3>1. b \in Range(s)
      BY <1>6, <1>17, <2>5
    <3>2. Subtree(c)' = {c}
      BY <1>2 DEF Subtree
    <3>3. m # c /\ n # c
      BY <1>17, <2>2, <2>5, <3>2
    <3>4. a \in Subtree(m) /\ b \in Subtree(n)
      BY <1>2, <1>17, <2>1, <2>2, <2>5 DEF Subtree
    <3>5. parent'[m] = parent[m] /\ parent'[n] = parent[n]
      BY <1>2, <2>1, <3>3
    <3>6. m \in Range(s) /\ n \in Range(s)
      BY <1>6, <3>3
    <3>7. parent[m] \in Objects
      BY <1>1, <1>4, <3>6, AncestorsUnfold DEF Below
    <3>8. Precedes(children[parent[m]], m, n)
      <4>1. CASE parent[m] = p
        <5>1. Precedes(Append(children[p], c), m, n)
          BY <1>2, <1>17, <3>5, <4>1
        <5> QED BY <1>8, <3>3, <4>1, <5>1, AppendKeepsOrder
      <4>2. CASE parent[m] # p
        BY <1>2, <1>17, <3>5, <3>7, <4>2
      <4> QED BY <4>1, <4>2
    <3>9. Precedes(s, a, b)
      BY <1>17, <2>3, <3>1, <3>4, <3>5, <3>6, <3>8 DEF Lists, InOrder
    <3> QED BY <1>6, <3>9
  <2> QED BY <2>4, <2>5
<1>18. Lists(r, d)'
  <2>1. Range(r) = Below(d)'
    BY <1>4, <1>6, <1>7
  <2> HIDE DEF r
  <2> QED BY <1>6, <1>16, <1>17, <2>1 DEF Lists, InOrder
<1> QED BY <1>14, <1>15, <1>18

\* The document a tree is moved to lists it as the old one did.
LEMMA MoveKeepsLists ==
    ASSUME TreeInv, NEW d \in Documents, NEW e \in Documents, MoveConstruct(d, e), TypeOK',
           NEW s, Lists(s, e)
    PROVE  Lists(s, d)' /\ storage'[e] = {}
<1>1. TypeOK /\ LinksAgree /\ OwnersAgree
  BY DEF TreeInv
<1>2. e \in alive /\ d \notin alive /\ d # e /\ TakeOver(d, e, {})
  BY DEF MoveConstruct
<1>3. /\ d \in Objects /\ e \in Objects /\ d \notin Nodes /\ e \notin Nodes
      /\ Nodes \subseteq Objects /\ None \notin Objects
  BY ObjectsAssumption DEF Objects
<1>4. /\ parent \in [Objects -> Objects \cup {None}] /\ parent' \in [Objects -> Objects \cup {None}]
      /\ parent[d] = None /\ parent[e] = None
      /\ storage \in [Documents -> SUBSET Nodes]
  BY <1>1 DEF TypeOK
<1>5. \A x \in Objects : parent[x] # d
  <2> SUFFICES ASSUME NEW x \in Objects, parent[x] = d PROVE FALSE
    OBVIOUS
  <2>1. x \in Nodes
    BY <1>1, <1>3 DEF TypeOK, Objects
  <2>2. x \in Range(children[d])
    BY <1>1, <1>3, <2>1 DEF LinksAgree
  <2>3. children[d] = <<>>
    BY <1>1, <1>2 DEF OwnersAgree
  <2> QED BY <2>2, <2>3, EmptyFacts
<1>6. \A x \in Objects : parent'[x] = IF parent[x] = e THEN d ELSE parent[x]
  <2> SUFFICES ASSUME NEW x \in Objects PROVE parent'[x] = IF parent[x] = e THEN d ELSE parent[x]
    OBVIOUS
  <2>1. parent'[x] = IF x \in Range(children[e]) THEN d ELSE parent[x]
    BY <1>2 DEF TakeOver, adopt
  <2>2. CASE x \in Nodes
    <3>1. x \in Range(children[e]) <=> parent[x] = e
      BY <1>1, <1>3, <2>2 DEF LinksAgree
    <3> QED BY <2>1, <3>1
  <2>3. CASE x \notin Nodes
    <3>1. x \in Documents /\ parent[x] = None /\ parent'[x] = None
      BY <1>1, <2>3 DEF TypeOK, Objects
    <3> QED BY <1>3, <3>1
  <2> QED BY <2>2, <2>3
<1>7. /\ children'[d] = children[e]
      /\ \A x \in Objects : x # d /\ x # e => children'[x] = children[x]
  BY <1>2, <1>3 DEF TakeOver
<1>8. storage'[e] = {}
  BY <1>2, <1>4 DEF TakeOver
<1>9. \A x \in Objects : /\ d \in AncestorsOf(x)' <=> e \in AncestorsOf(x)
                         /\ \A a \in Objects \ {d, e} : a \in AncestorsOf(x)' <=> a \in AncestorsOf(x)
  <2>1. IsReplaced(parent, parent', d, e)
    BY <1>2, <1>3, <1>4, <1>5, <1>6 DEF IsReplaced
  <2> QED BY <2>1, AboveWhenReplaced, AncestorsAreAbove
<1>10. Below(d)' = Below(e)
  BY <1>9 DEF Below
<1>11. \A n \in Nodes : Below(n)' = Below(n) /\ Subtree(n)' = Subtree(n)
  <2> TAKE n \in Nodes
  <2>1. n \in Objects \ {d, e}
    BY <1>3
  <2>2. Below(n)' = Below(n)
    BY <1>9, <2>1 DEF Below
  <2> QED BY <2>2 DEF Subtree
<1>12. s \in Seq(Nodes) /\ IsInjective(s) /\ Range(s) = Below(e)
  BY DEF Lists, InOrder
<1>13. ASSUME NEW n \in Range(s), parent'[n] # d PROVE Precedes(s, parent'[n], n)
  <2>1. n \in Objects
    BY <1>12 DEF Below
  <2>2. parent[n] # e /\ parent'[n] = parent[n]
    BY <1>6, <1>13, <2>1
  <2> QED BY <1>13, <2>2 DEF Lists, InOrder
<1>14. ASSUME NEW m \in Range(s), NEW n \in Range(s), parent'[m] = parent'[n],
              Precedes(children'[parent'[m]], m, n),
              NEW a \in Range(s) \cap Subtree(m)', NEW b \in Range(s) \cap Subtree(n)'
       PROVE  Precedes(s, a, b)
  <2>1. m \in Nodes /\ n \in Nodes /\ m \in Objects /\ n \in Objects
    BY <1>3, <1>12, ElementOfSeq DEF Range
  <2>2. a \in Subtree(m) /\ b \in Subtree(n)
    BY <1>11, <1>14, <2>1
  <2>3. parent[m] \in Objects /\ parent[m] # d /\ parent[n] # d
    BY <1>1, <1>5, <1>12, <2>1, AncestorsUnfold DEF Below
  <2>4. parent[m] = parent[n] /\ Precedes(children[parent[m]], m, n)
    <3>1. CASE parent[m] = e
      BY <1>6, <1>7, <1>14, <2>1, <2>3, <3>1
    <3>2. CASE parent[m] # e
      BY <1>6, <1>7, <1>14, <2>1, <2>3, <3>2
    <3> QED BY <3>1, <3>2
  <2> QED BY <1>14, <2>2, <2>4 DEF Lists, InOrder
<1>15. Lists(s, d)'
  BY <1>10, <1>12, <1>13, <1>14 DEF Lists, InOrder
<1> QED BY <1>8, <1>15

\* What nothing hangs from has no children.
LEMMA ChildlessIsEmpty ==
    ASSUME TypeOK, LinksAgree, NEW x \in Objects, \A n \in Nodes : parent[n] # x
    PROVE  children[x] = <<>>
<1> DEFINE k == Len(children[x])
<1>1. children[x] \in Seq(Nodes)
  BY DEF TypeOK
<1>2. k \in Nat /\ DOMAIN children[x] = 1..k
  BY <1>1, LenProperties
<1>3. \A i \in 1..k : FALSE
  <2> SUFFICES ASSUME NEW i \in 1..k PROVE FALSE
    OBVIOUS
  <2>1. children[x][i] \in Nodes /\ children[x][i] \in Range(children[x])
    BY <1>1, <1>2, ElementOfSeq DEF Range
  <2> QED BY <2>1 DEF LinksAgree
<1> HIDE DEF k
<1>4. k = 0
  BY <1>2, <1>3
<1> QED BY <1>1, <1>4, EmptySeq DEF k

\* Destroying a document that owns nothing leaves the links alone, and so
\* does creating a node.
LEMMA LinksStay ==
    ASSUME TreeInv, NEW d \in Documents,
           \/ Destroy(d) /\ storage[d] = {}
           \/ \E n \in Nodes : \E t : make_node(d, n, t)
    PROVE  UNCHANGED <<parent, children>>
<1>1. TypeOK /\ LinksAgree /\ OwnersAgree
  BY DEF TreeInv
<1>2. parent \in [Objects -> Objects \cup {None}] /\ children \in [Objects -> Seq(Nodes)]
  BY <1>1 DEF TypeOK
<1>3. CASE Destroy(d) /\ storage[d] = {}
  <2>1. children[d] = <<>>
    <3>1. ASSUME NEW n \in Nodes, parent[n] = d PROVE FALSE
      <4>1. owner[n] = d
        BY <1>1, <3>1, ObjectsAssumption DEF OwnersAgree, TypeOK, Objects
      <4> QED BY <1>1, <1>3, <4>1 DEF OwnersAgree
    <3>2. d \in Objects
      BY DEF Objects
    <3> QED BY <1>1, <3>1, <3>2, ChildlessIsEmpty
  <2>2. children' = [x \in Objects |-> IF x = d THEN <<>> ELSE children[x]]
    BY <1>3 DEF Destroy
  <2>3. parent' = [x \in Objects |-> parent[x]]
    BY <1>3 DEF Destroy
  <2> QED BY <1>2, <2>1, <2>2, <2>3
<1>4. ASSUME NEW n \in Nodes, NEW t, make_node(d, n, t) PROVE UNCHANGED <<parent, children>>
  <2>1. n \notin Stored /\ n \in Objects
    BY <1>4 DEF make_node, Objects
  <2>2. parent[n] = None /\ children[n] = <<>>
    BY <1>1, <2>1, FreshNodesAreBlank, ChildlessIsEmpty DEF Objects
  <2> QED BY <1>2, <1>4, <2>1, <2>2 DEF make_node
<1> QED BY <1>3, <1>4
=============================================================================
