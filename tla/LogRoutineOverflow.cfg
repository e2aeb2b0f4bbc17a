\* example_innerRpc's log_routine with a 32-bit int, 100000 successful
\* calls per second (500 caller coroutines on in-process channels) and
\* sleep(1) advancing time(NULL) by one second; one day of seconds.
CONSTANTS
    IntMax = 2147483647
    SuccPerSecond = {100000}
    FailPerSecond = {0}
    Slept = {1}
    MaxSeconds = 86400
SPECIFICATION Spec
INVARIANT AverageNotNegative
