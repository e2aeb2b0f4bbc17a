----------------------------- MODULE HandlePool -----------------------------
(***************************************************************************)
(* What a connection pool promises its clients, with no lists, counters or *)
(* connections: a take answers with a handle no other client holds, or    *)
(* with a failure, at once or after waiting; a put gives the handle up.    *)
(* MemcachedPool implements it (MemcachedPool!ImplementsHandlePool).       *)
(***************************************************************************)
CONSTANTS Clients, Handles, NoHandle

ASSUME NoHandle \notin Handles

VARIABLES
    holder,   \* client: the handle it holds, or NoHandle
    pending   \* clients whose take is waiting for an answer

vars == <<holder, pending>>

InUse == {holder[c] : c \in Clients} \ {NoHandle}

Init ==
    /\ holder = [c \in Clients |-> NoHandle]
    /\ pending = {}

\* A client's take is answered with a handle that is not in use.
Acquire(c, h) ==
    /\ holder[c] = NoHandle
    /\ h \notin InUse
    /\ holder' = [holder EXCEPT ![c] = h]
    /\ pending' = pending \ {c}

\* A client's take has to wait.
Wait(c) ==
    /\ holder[c] = NoHandle
    /\ c \notin pending
    /\ pending' = pending \cup {c}
    /\ UNCHANGED holder

\* The waiting takes of the clients S are answered with a failure.
Fail(S) ==
    /\ S # {}
    /\ S \subseteq pending
    /\ pending' = pending \ S
    /\ UNCHANGED holder

\* A client gives its handle back.
Release(c) ==
    /\ holder[c] # NoHandle
    /\ holder' = [holder EXCEPT ![c] = NoHandle]
    /\ UNCHANGED pending

Next ==
    \/ \E c \in Clients :
         \/ \E h \in Handles : Acquire(c, h)
         \/ Wait(c)
         \/ Release(c)
    \/ \E S \in SUBSET pending : Fail(S)

Spec == Init /\ [][Next]_vars

=============================================================================
