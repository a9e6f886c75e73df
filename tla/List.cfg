CONSTANTS
    Nodes = {n1, n2, n3, n4, n5}
    NULL = null
SPECIFICATION Spec
INVARIANTS LooksAgree IteratorOwesNothing
PROPERTY ImplementsSequence
