SPECIFICATION Spec
CONSTANTS
    Clients <- MCClients
    Keys = {"k"}
    Workers = {"w1", "w2"}
    WorkerOf <- MCWorkerOf
    Plans <- MCRewatchPlans
    LongMax = 3
    MaxU16Index = 1
    MaxWriteTotal = 3
INVARIANTS WatchInForce
CHECK_DEADLOCK FALSE
