SPECIFICATION FairSpec
CONSTANTS
    Clients <- MCClients
    Keys = {"k", "m"}
    Workers = {"w1", "w2"}
    WorkerOf <- MCWorkerOf
    Plans <- MCPlans
    LongMax = 3
    MaxU16Index = 1
    MaxWriteTotal = 3
INVARIANTS TypeOK NoLostWakeup OneAnswer WatchInForce
PROPERTIES WatchersTold IsAtomic CallsReturn
CHECK_DEADLOCK FALSE
