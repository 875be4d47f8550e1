\* Three ports for three overlapping transfers; another process contends for two.
CONSTANTS
    MinPassivePort = 1
    MaxPassivePort = 3
    Transfers = {t1, t2, t3}
    ForeignPorts = {2, 3}
    MaxRetries = 1
SPECIFICATION Spec
INVARIANTS TypeOK PortsExclusive NoPanic
PROPERTIES LostByListen ImplementsPortSet
CHECK_DEADLOCK FALSE
