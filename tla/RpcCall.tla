------------------------------- MODULE RpcCall -------------------------------
(***************************************************************************)
(* What the client RPC engine promises a caller coroutine, with no         *)
(* connections, queues or reactor threads in sight.  A caller that is idle *)
(* may start one call (Channel::CallMethod); the engine completes calls,   *)
(* each exactly once and with one outcome; a completed caller is resumed   *)
(* and becomes idle again.  A set of calls may complete in one step: a     *)
(* connect failure or a close drains a whole connection at once.           *)
(***************************************************************************)
EXTENDS FiniteSets

CONSTANTS Callers

\* The outcome the caller observes: the server's reply parsed into its
\* response, a fire-and-forget request handed to the transport, or the
\* controller's failure text on a connect failure or a lost connection.
Outcomes == {"reply", "sent", "ConnectFail", "ENETDOWN"}

VARIABLES status, outcome

vars == <<status, outcome>>

TypeOK ==
    /\ status \in [Callers -> {"idle", "calling", "done"}]
    /\ outcome \in [Callers -> Outcomes \cup {"none"}]

Init ==
    /\ status = [c \in Callers |-> "idle"]
    /\ outcome = [c \in Callers |-> "none"]

Call(c) ==
    /\ status[c] = "idle"
    /\ status' = [status EXCEPT ![c] = "calling"]
    /\ UNCHANGED outcome

Complete(S, r) ==
    /\ S # {}
    /\ \A c \in S : status[c] = "calling"
    /\ status' = [c \in Callers |-> IF c \in S THEN "done" ELSE status[c]]
    /\ outcome' = [c \in Callers |-> IF c \in S THEN r ELSE outcome[c]]

Return(c) ==
    /\ status[c] = "done"
    /\ status' = [status EXCEPT ![c] = "idle"]
    /\ outcome' = [outcome EXCEPT ![c] = "none"]

Next ==
    \/ \E c \in Callers : Call(c) \/ Return(c)
    \/ \E S \in SUBSET Callers, r \in Outcomes : Complete(S, r)

Spec == Init /\ [][Next]_vars

=============================================================================
