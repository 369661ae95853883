SPECIFICATION Spec
CONSTANTS
    Proc = {p1, p2, p3}
    None = None
    NoKey = NoKey
SYMMETRY Symmetry
INVARIANTS SlabExclusive KeysOwned
PROPERTIES ImplementsWakerSet
