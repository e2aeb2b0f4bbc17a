\* Pool of two connections keeping no idle handle (maxIdleNum = 0), four clients,
\* two on each of two threads.
CONSTANTS
    a1 = a1
    a2 = a2
    a3 = a3
    a4 = a4
    t1 = t1
    t2 = t2
    Clients <- MCClients
    Threads <- MCThreads
    ThreadOf <- MCThreadOf
    MaxConnectNum = 2
    MaxIdleNum = 0
SPECIFICATION Spec
PROPERTY TakeReturns
CHECK_DEADLOCK FALSE
