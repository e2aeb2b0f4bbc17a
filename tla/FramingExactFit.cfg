\* One request whose frame (20 + 3 bytes) exactly fills the 23-byte Sender
\* buffer: the spec's contract accepts it (body_size + 20 > S is false).
\* The run stops when the Sender can make no progress.
CONSTANTS
    BufSize = 23
    Sizes = {3}
    ServiceIds <- MCServiceIds
    MethodIds <- MCMethodIds
    CallIds <- MCCallIds
    NumReqs = 1
SPECIFICATION Spec
PROPERTY AllSent
CHECK_DEADLOCK FALSE
