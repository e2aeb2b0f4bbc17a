------------------------------ MODULE LogRoutine ------------------------------
(***************************************************************************)
(* log_routine of src/example/example_innerRpc/main.cpp, one loop per    *)
(* step, at the width of the build's int.  Each second it adds the        *)
(* counters to the int totals totalSucc and totalFail, which it never     *)
(* resets, and prints averageSucc = totalSucc / difTime, difTime being    *)
(* the time_t seconds since startAt.  Its 500 rpc_routine coroutines loop *)
(* for ever, so the totals have no bound but the int's.  (testrpc_cli's   *)
(* log_routine counts at most the 1000000 calls test_routine starts, far  *)
(* below INT_MAX, and is not modelled here.)                              *)
(*                                                                         *)
(* The counters' race with the callers is CallStats' concern: here a      *)
(* second's counts are what the callers completed during that sleep.       *)
(* Signed overflow of += is undefined behaviour; the x86-64 code gcc emits *)
(* for it is a two's complement add, modelled by AddInt.  TLC's own        *)
(* integers are 32-bit, so the wrap is computed without leaving the int   *)
(* range.                                                                  *)
(***************************************************************************)
EXTENDS Integers

CONSTANTS
    IntMax,         \* INT_MAX of the build (2147483647)
    SuccPerSecond,  \* the sum of the success counters after a sleep
    FailPerSecond,  \* the sum of the failure counters after a sleep
    Slept,          \* seconds time(NULL) advances over one sleep(1)
    MaxSeconds      \* bound on difTime

IntMin == -IntMax - 1

ASSUME
    /\ IntMax \in Nat
    /\ SuccPerSecond \subseteq 0..IntMax
    /\ FailPerSecond \subseteq 0..IntMax
    /\ Slept \subseteq Nat \ {0}
    /\ MaxSeconds \in Nat

VARIABLES
    difTime,      \* now - startAt at the last time(NULL)
    totalSucc,    \* int
    totalFail,    \* int
    averageSucc   \* int, the figure printed as average:Succ

vars == <<difTime, totalSucc, totalFail, averageSucc>>

\* a += s on ints, s >= 0: past IntMax the sum wraps to the negative end.
AddInt(a, s) ==
    IF a > IntMax - s THEN IntMin + (s - (IntMax - a) - 1) ELSE a + s

\* C's integer division truncates toward zero.
CDiv(a, b) == IF a >= 0 THEN a \div b ELSE -((-a) \div b)

Init ==
    /\ difTime = 0
    /\ totalSucc = 0
    /\ totalFail = 0
    /\ averageSucc = 0

\* One pass of the loop: sleep(1), add the counters to the totals, read
\* time(NULL), compute the average, print and reset the counters.
Tick ==
    \E s \in SuccPerSecond, f \in FailPerSecond, d \in Slept :
        /\ difTime + d <= MaxSeconds
        /\ totalSucc' = AddInt(totalSucc, s)
        /\ totalFail' = AddInt(totalFail, f)
        /\ difTime' = difTime + d
        /\ averageSucc' = IF difTime' > 0
                          THEN CDiv(totalSucc', difTime')
                          ELSE totalSucc'

Next == Tick

Spec == Init /\ [][Next]_vars

-----------------------------------------------------------------------------
(* Properties                                                              *)

TypeOK ==
    /\ difTime \in 0..MaxSeconds
    /\ {totalSucc, totalFail, averageSucc} \subseteq IntMin..IntMax

\* The figure log_routine prints as average:Succ, the successful calls per
\* second since it started, is never negative: the totals it divides only
\* ever add counts of completed calls.
AverageNotNegative == averageSucc >= 0

=============================================================================
