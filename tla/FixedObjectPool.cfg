\* Every use of the pool's interface, misuse included.
CONSTANTS
    Capacity = 3
    Handles = {h1, h2, h3, h4}
    NoObject = NoObject
    ForeignPointer = ForeignPointer
    MaxCreates = 6
    MaxInvalid = 2
SPECIFICATION Spec
SYMMETRY Symmetric
INVARIANTS
    FreeListExact
    UsageCounted
    ExclusiveOwnership
PROPERTY ImplementsPool
\* The bounds end every behaviour.
CHECK_DEADLOCK FALSE
