SPECIFICATION Spec
CONSTANTS
    document = document
    result = result
    Documents = {document, result}
    Nodes = {n1, n2, n3, n4, n5}
    None = None
    Names = {a, b}
    NoName = NoName
    max_dom_nodes = 4
SYMMETRY Symmetry
INVARIANTS
    TypeOK
    StackIsThePath
    DocumentOrderIsEventOrder
    NothingLeaks
CHECK_DEADLOCK FALSE
