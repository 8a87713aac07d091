SPECIFICATION Spec
CONSTANTS
    Documents = {d1, d2}
    Nodes = {n1, n2, n3, n4}
    None = None
SYMMETRY Symmetry
INVARIANTS
    TypeOK
    LinksAgree
    OwnersAgree
    Acyclic
    OneDocumentElement
    TraversalsAgree
PROPERTIES
    SiblingOrderKept
    NodesStayTogether
