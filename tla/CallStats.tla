------------------------------ MODULE CallStats ------------------------------
(***************************************************************************)
(* The success/fail counters of the two test programs.  Caller coroutines *)
(* (rpc_routine) pick a service at random, call it, and on failure count, *)
(* sleep and retry; on success they count and start over.  A logger       *)
(* (log_routine) wakes every second, adds the counters to its totals and  *)
(* resets them.                                                            *)
(*                                                                         *)
(* In src/test/rpccli/testrpc_cli.cpp the logger is a coroutine on the    *)
(* callers' thread, so its read-and-reset and each increment are atomic.  *)
(* In src/example/example_innerRpc/main.cpp the logger runs on the main   *)
(* thread and the callers on the client thread: the plain int counters    *)
(* are then shared by two threads with no lock (a data race), modelled as *)
(* its outcomes: an increment is a load and a later store, and the        *)
(* logger's read and its reset are separate steps.                         *)
(***************************************************************************)
EXTENDS Naturals, FiniteSets, FiniteSetsExt

CONSTANTS
    Callers,       \* rpc_routine coroutines
    Kinds,         \* the services a caller picks among (rand() % 3)
    MaxCalls,      \* bound on the calls (first tries and retries) per caller
    Programs       \* the programs checked: a subset of Program

\* testrpc_cli runs its logger on the callers' thread, example_innerRpc on
\* the main thread.
Program == {"testrpc_cli", "example_innerRpc"}

ASSUME Programs \subseteq Program /\ Programs # {}

Res == {"succ", "fail"}

VARIABLES
    pc,     \* caller: "idle", "calling", "store" (between the load and the
            \* store of ++, threaded only) or "retry" (in usleep)
    kind,   \* caller: the service of its current request
    res,    \* caller: the outcome of its last call
    reg,    \* caller: the counter value its ++ loaded
    calls,  \* caller: calls made
    cnt,    \* the counters iFooSuccCnt, iFooFailCnt, ...
    total,  \* log_routine's totalSucc and totalFail
    lg,     \* log_routine: "sleep", or "read" between its read and reset
    done,   \* calls that completed, by service and outcome
    prog    \* the program: chosen once, as a build is

vars == <<pc, kind, res, reg, calls, cnt, total, lg, done, prog>>

\* The logger runs on the callers' thread.
SharedThread == prog = "testrpc_cli"

Zero == [p \in Kinds \X Res |-> 0]

\* The sum of the counters of outcome x.
Sum(f, x) == MapThenSumSet(LAMBDA k : f[<<k, x>>], Kinds)

\* The callers' thread is inside some caller's ++.
Busy == \E d \in Callers : pc[d] = "store"

-----------------------------------------------------------------------------
(* rpc_routine                                                             *)

\* Pick a service, build the request, reset the controller and call.
StartCall(c, k) ==
    /\ pc[c] = "idle"
    /\ calls[c] < MaxCalls
    /\ ~Busy
    /\ pc' = [pc EXCEPT ![c] = "calling"]
    /\ kind' = [kind EXCEPT ![c] = k]
    /\ calls' = [calls EXCEPT ![c] = @ + 1]
    /\ UNCHANGED <<res, reg, cnt, total, lg, done, prog>>

\* After usleep(100000): the loop condition holds, so reset and call again.
Retry(c) ==
    /\ pc[c] = "retry"
    /\ calls[c] < MaxCalls
    /\ ~Busy
    /\ pc' = [pc EXCEPT ![c] = "calling"]
    /\ calls' = [calls EXCEPT ![c] = @ + 1]
    /\ UNCHANGED <<kind, res, reg, cnt, total, lg, done, prog>>

After(r) == IF r = "succ" THEN "idle" ELSE "retry"

\* The call returns with outcome r and the caller counts it: at once on a
\* shared thread; otherwise it loads the counter now and stores it later.
Complete(c, r) ==
    /\ pc[c] = "calling"
    /\ ~Busy
    /\ done' = [done EXCEPT ![<<kind[c], r>>] = @ + 1]
    /\ res' = [res EXCEPT ![c] = r]
    /\ IF SharedThread
       THEN /\ cnt' = [cnt EXCEPT ![<<kind[c], r>>] = @ + 1]
            /\ pc' = [pc EXCEPT ![c] = After(r)]
            /\ UNCHANGED reg
       ELSE /\ reg' = [reg EXCEPT ![c] = cnt[<<kind[c], r>>]]
            /\ pc' = [pc EXCEPT ![c] = "store"]
            /\ UNCHANGED cnt
    /\ UNCHANGED <<kind, calls, total, lg, prog>>

\* The store of ++: the loaded value plus one.
IncStore(c) ==
    /\ pc[c] = "store"
    /\ cnt' = [cnt EXCEPT ![<<kind[c], res[c]>>] = reg[c] + 1]
    /\ pc' = [pc EXCEPT ![c] = After(res[c])]
    /\ UNCHANGED <<kind, res, reg, calls, total, lg, done, prog>>

-----------------------------------------------------------------------------
(* log_routine                                                             *)

LogAtomicAssign ==
    /\ SharedThread
    /\ total' = [x \in Res |-> Sum(cnt, x)]
    /\ cnt' = Zero
    /\ UNCHANGED <<pc, kind, res, reg, calls, lg, done, prog>>

\* testrpc_cli: after sleep(1), add the counters to the totals, print and
\* reset them, with no yield in between.
LogAtomic ==
    /\ SharedThread
    /\ total' = [x \in Res |-> total[x] + Sum(cnt, x)]
    /\ cnt' = Zero
    /\ UNCHANGED <<pc, kind, res, reg, calls, lg, done, prog>>

\* example_innerRpc: after sleep(1), add the counters to the totals.
LogRead ==
    /\ ~SharedThread
    /\ lg = "sleep"
    /\ total' = [x \in Res |-> total[x] + Sum(cnt, x)]
    /\ lg' = "read"
    /\ UNCHANGED <<pc, kind, res, reg, calls, cnt, done, prog>>

\* example_innerRpc: after printing, reset the counters.
LogReset ==
    /\ lg = "read"
    /\ cnt' = Zero
    /\ lg' = "sleep"
    /\ UNCHANGED <<pc, kind, res, reg, calls, total, done, prog>>

-----------------------------------------------------------------------------

Init ==
    /\ pc = [c \in Callers |-> "idle"]
    /\ kind = [c \in Callers |-> CHOOSE k \in Kinds : TRUE]
    /\ res = [c \in Callers |-> "succ"]
    /\ reg = [c \in Callers |-> 0]
    /\ calls = [c \in Callers |-> 0]
    /\ cnt = Zero
    /\ total = [x \in Res |-> 0]
    /\ lg = "sleep"
    /\ done = Zero
    /\ prog \in Programs

Next ==
    \/ \E c \in Callers :
         \/ \E k \in Kinds : StartCall(c, k)
         \/ Retry(c)
         \/ \E r \in Res : Complete(c, r)
         \/ IncStore(c)
    \/ LogAtomic
    \/ LogRead
    \/ LogReset

Spec == Init /\ [][Next]_vars

-----------------------------------------------------------------------------
(* Properties                                                              *)

\* Whenever the logger sleeps, its totals plus the live counters plus the
\* increments under way count every completed call exactly once: no ++ is
\* lost to a reset and none survives a reset to be counted twice.
CountsExact ==
    lg = "sleep" =>
      \A x \in Res :
        total[x] + Sum(cnt, x)
          + Cardinality({c \in Callers : pc[c] = "store" /\ res[c] = x})
        = Sum(done, x)

\* In testrpc_cli, where the logger shares the callers' thread, the counts
\* are exact (CountsExact): its read-and-reset never splits an increment.
SharedCountsExact == SharedThread => CountsExact

=============================================================================
