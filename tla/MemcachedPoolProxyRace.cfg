\* The pool of MemcachedPool.cfg, four clients on two threads that reach
\* it through getProxy.
CONSTANTS
    a1 = a1
    a2 = a2
    a3 = a3
    a4 = a4
    t1 = t1
    t2 = t2
    Clients <- MCClients
    Threads <- MCThreads
    ThreadOf <- MCThreadOf
    MaxConnectNum = 3
    MaxIdleNum = 2
SPECIFICATION Spec
INVARIANT ProxyPerThread
