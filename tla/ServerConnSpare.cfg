\* Shutdown comes while RETR has started a transfer, which it should wait for.
CONSTANTS
    Dts = {d1}
    Jobs = {j1}
    Commands = {"OTHER", "PASV", "RETR"}
    Calls = {"Shutdown"}
    Empty = Empty
    NoCmd = NoCmd
SPECIFICATION Spec
INVARIANTS ShutdownSparesTransfers
