\* A session that renames a file to its own name.
CONSTANTS
    Paths <- MCPaths
    Extends <- MCExtends
    Absent = Absent
    Sessions = {s1}
    Jobs = {j1}
    Held <- MCHeld
    Old = Old
    NoPath = NoPath
    NoBody = NoBody
    NoJob = NoJob
SPECIFICATION Spec
PROPERTIES RenameKeepsFile
