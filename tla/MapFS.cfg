\* Four paths on three levels, two contents, one body that is read slowly.
CONSTANTS
    Paths <- MCPaths
    Contents = {Old, New}
    Absent = Absent
    Callers = {c1}
    Held <- MCHeld
    First = Old
    Made <- MCMade
    NoCall = NoCall
SPECIFICATION Spec
INVARIANTS TypeOK
PROPERTIES ImplementsTree
