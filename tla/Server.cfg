\* Two listeners, a client, two signals; the program ends.
CONSTANTS
    Listeners = {l1, l2}
    Conns = {c1}
    NoConn = NoConn
    MaxSignals = 2
SPECIFICATION FairSpec
INVARIANTS TypeOK NobodyServed ReturnsErrServerClosed
PROPERTIES NoLateAccept BusySpared ImplementsDraining ImplementsConnections ForcedExit GracefulExit LoopsReturn
