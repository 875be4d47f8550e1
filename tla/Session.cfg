\* Two sessions and two jobs on three paths.
CONSTANTS
    Paths <- MCPaths
    Extends <- MCExtends
    Absent = Absent
    Sessions = {s1, s2}
    Jobs = {j1, j2}
    Held <- MCHeld
    Old = Old
    NoPath = NoPath
    NoBody = NoBody
    NoJob = NoJob
SPECIFICATION Spec
SYMMETRY Symmetry
INVARIANTS TypeOK NoReaderLeft RenameSafe
PROPERTIES AppendExtends RenameMoves
