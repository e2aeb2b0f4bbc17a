\* A reactor that still encodes a fire-and-forget request after onClose.
CONSTANTS
    c1 = c1
    c2 = c2
    Callers <- MCCallers
    ConnectNum = 2
    MaxCalls = 2
    MaxFailures = 2
    EncodeAfterClose = TRUE
    ParseMayFail = FALSE

SPECIFICATION Spec

PROPERTY ImplementsRpcCall
