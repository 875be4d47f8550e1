\* Server.Close while PASV is executed.
CONSTANTS
    Dts = {d1}
    Jobs = {j1}
    Commands = {"OTHER", "PASV"}
    Calls = {"Close"}
    Empty = Empty
    NoCmd = NoCmd
SPECIFICATION Spec
INVARIANTS CloseEndsTransfers
