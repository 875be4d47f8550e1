\* Four kinds of rights, two file systems, one goroutine at a time; PASS may fail once.
CONSTANTS
    Paths <- MCPaths
    Users = {"anonymous", "alice", "bob", "carol", "dave"}
    FileSystems = {"main", "home"}
    ServerFS = "main"
    Grants <- MCGrants
    Jobs = {j1}
    MaxFailures = 1
    Null = Null
    Nil = Nil
    Refused = Refused
    None = None
SPECIFICATION Spec
INVARIANTS TypeOK NoNilAuth PwdOfLogin
PROPERTIES Entitled
