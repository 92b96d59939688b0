CONSTANTS
    r1 = r1
    r2 = r2
    r3 = r3
    old = old
    new = new
    Readers <- MCReaders
    Contents <- MCContents
    Empty = empty
    Error = error
    Absent = none
    MaxStamp = 2
SPECIFICATION Spec
SYMMETRY Symmetry
INVARIANTS
    TypeOK
    CacheSound
PROPERTIES
    ReadsAreAtomic
