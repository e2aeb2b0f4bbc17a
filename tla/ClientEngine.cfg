\* The engine with a well-behaved reactor and parser: every safety property,
\* the refinement of RpcCall, and (under the fairness of Spec) that every
\* call returns.
CONSTANTS
    c1 = c1
    c2 = c2
    Callers <- MCCallers
    ConnectNum = 2
    MaxCalls = 3
    MaxFailures = 2
    EncodeAfterClose = FALSE
    ParseMayFail = FALSE

SPECIFICATION Spec

INVARIANT TypeOK
INVARIANT TaskInOnePlace
INVARIANT ContainersMatchState
INVARIANT ReplyMatchesEntry
INVARIANT OneConnectPerConnection

PROPERTY ImplementsRpcCall
PROPERTY CallsComplete
