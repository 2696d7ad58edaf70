CONSTANTS
    Id = {id1, id2, id3}
    Key = {k1, k2, k3}
    Size <- Sizes
    StructSize = 1
    HeapSize = 9
    Node = {n1, n2, n3}
    Iter = {i1}
    NULL = NULL
SPECIFICATION Spec
SYMMETRY Symmetry
INVARIANTS TypeOK ListedAreWhole IterationIsComplete ChangedAreReturned NothingLeaks ListInv
PROPERTIES ImplementsRegistry
