\* example_innerRpc: the logger on the main thread, two callers on the
\* client thread, two services,
\* three calls per caller (a failure and two retries, or three requests).
CONSTANTS
    r1 = r1
    r2 = r2
    foo = foo
    bar = bar
    Callers <- MCCallers
    Kinds <- MCKinds
    MaxCalls = 3
    Programs <- MCInnerRpc
SPECIFICATION Spec
INVARIANT CountsExact
