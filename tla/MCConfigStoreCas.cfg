SPECIFICATION FairSpec
CONSTANTS
    Clients <- MCClients
    Keys = {"k"}
    Workers = {"w1", "w2"}
    WorkerOf <- MCWorkerOf
    Plans <- MCCasPlans
    LongMax = 3
    MaxU16Index = 1
    MaxWriteTotal = 3
PROPERTIES CasAsDocumented
CHECK_DEADLOCK FALSE
