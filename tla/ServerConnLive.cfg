\* The goroutines end: one data transfer, one job, Shutdown and Close.
CONSTANTS
    Dts = {d1}
    Jobs = {j1}
    Commands = {"OTHER", "PASV", "STOR", "APPE"}
    Calls = {"Shutdown", "Close"}
    Empty = Empty
    NoCmd = NoCmd
SPECIFICATION FairSpec
PROPERTIES PortsReturned  
