\* Two data transfers and two jobs: the end of one job meets the next transfer.
CONSTANTS
    Dts = {d1, d2}
    Jobs = {j1, j2}
    Commands = {"OTHER", "QUIT", "ABOR", "PASV", "PORT", "RETR"}
    Calls = {"Shutdown"}
    Empty = Empty
    NoCmd = NoCmd
SPECIFICATION Spec
SYMMETRY Symmetry
INVARIANTS TypeOK OneOpenTransfer ShutdownSparesCommands OneFinalReply NothingLeft
PROPERTIES ImplementsConnection
