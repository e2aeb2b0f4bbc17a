\* A response body that ParseFromArray rejects.
CONSTANTS
    c1 = c1
    c2 = c2
    Callers <- MCCallers
    ConnectNum = 2
    MaxCalls = 2
    MaxFailures = 2
    EncodeAfterClose = FALSE
    ParseMayFail = TRUE

SPECIFICATION Spec

PROPERTY CallsComplete
