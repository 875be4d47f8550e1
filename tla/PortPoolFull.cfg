\* One port that another process takes for a moment; the loop bound of the code.
CONSTANTS
    MinPassivePort = 1
    MaxPassivePort = 1
    Transfers = {t1, t2}
    ForeignPorts = {1}
    MaxRetries = 5
SPECIFICATION Spec
PROPERTIES NotFoundMeansFull
CHECK_DEADLOCK FALSE
