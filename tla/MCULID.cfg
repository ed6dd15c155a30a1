SPECIFICATION Spec
CONSTANTS
    Instants <- MCInstants
INVARIANTS
    TypeOK
    PacksAllBits
PROPERTIES
    SortsByTime
