\* Two requests of body size 0 or 3 through a 45-byte Sender buffer: two
\* empty-body frames (20 + 20 bytes) fit together, two 23-byte ones do not.
CONSTANTS
    BufSize = 45
    Sizes = {0, 3}
    ServiceIds <- MCServiceIds
    MethodIds <- MCMethodIds
    CallIds <- MCCallIds
    NumReqs = 2
SPECIFICATION Spec
INVARIANTS TypeOK RequestFraming CallIdRoundTrip
PROPERTY AllSent
