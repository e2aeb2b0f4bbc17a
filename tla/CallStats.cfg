\* Both programs: testrpc_cli (logger on the callers' thread) and
\* example_innerRpc (logger on the main thread); two callers, two services,
\* three calls per caller (a failure and two retries, or three requests).
CONSTANTS
    r1 = r1
    r2 = r2
    foo = foo
    bar = bar
    Callers <- MCCallers
    Kinds <- MCKinds
    MaxCalls = 3
    Programs <- MCBothPrograms
SPECIFICATION Spec
INVARIANT SharedCountsExact
