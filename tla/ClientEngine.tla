----------------------------- MODULE ClientEngine -----------------------------
(***************************************************************************)
(* The client side of CoRpc (src/corpc/corpc_client.cpp): one Channel with *)
(* NumSlots connection slots, the three client fibers (connectionRoutine,  *)
(* upRoutine, downRoutine) on the client thread, and the reactor threads   *)
(* that run the pipeline's Encoder, Decoder and Router and call onClose.   *)
(*                                                                         *)
(* A call id is the caller coroutine itself (uint64_t(rpcTask->co)), so a  *)
(* task is a record [co, n, ff]: its caller, the caller's n-th call, and   *)
(* whether the method is not_care_response (fire-and-forget).  Connection  *)
(* objects are numbered in creation order; 0 is the empty slot (nullptr). *)
(*                                                                         *)
(* Client-thread code runs between yield points without interruption, so   *)
(* CallMethod (which resumes the parked upRoutine, which drains _upList)   *)
(* is one step, and a CONNECT is two steps: it yields in sleep() and in    *)
(* co_poll() before its outcome is known.  The reactor threads run truly   *)
(* concurrently; each of their steps touches _waitResultCoMap under the    *)
(* connection's mutex and is one atomic step.                              *)
(***************************************************************************)
EXTENDS Naturals, Sequences, SequencesExt, FiniteSets

CONSTANTS
    Callers,          \* caller coroutines; each is also its call id
    ConnectNum,       \* the connectNum argument of the Channel constructor
    MaxCalls,         \* calls each caller makes (bound)
    MaxFailures,      \* transport and connect failures (bound)
    EncodeAfterClose, \* the reactor may still run the encoder of a
                      \* connection after it has called onClose
    ParseMayFail      \* ParseFromArray of a response body may fail

ASSUME /\ ConnectNum \in Nat
       /\ MaxCalls \in Nat /\ MaxFailures \in Nat
       /\ EncodeAfterClose \in BOOLEAN /\ ParseMayFail \in BOOLEAN

\* The size of _connections: a connectNum of 0 is taken as 1.
NumSlots == IF ConnectNum = 0 THEN 1 ELSE ConnectNum

\* Every connection object beyond the first NumSlots replaces one that a
\* failure closed, so this many objects are ever created.
MaxConns == NumSlots + MaxFailures
Conns == 1..MaxConns
NoConn == 0
SlotIds == 0..(NumSlots - 1)

Task == [co : Callers, n : 1..MaxCalls, ff : BOOLEAN]
NoTask == [co |-> "none"]
Event == [type : {"CONNECT", "CLOSE"}, conn : Conns]

VARIABLES
    slot,         \* Channel::_connections
    conIndex,     \* Channel::_conIndex
    connectDelay, \* Channel::_connectDelay
    nConns,       \* connection objects created so far
    st,           \* Connection::_st of every object (CLOSED before creation)
    waitSend,     \* Connection::_waitSendTaskCoList
    waitResult,   \* Connection::_waitResultCoMap: call id -> task
    connQ,        \* Client::_connectionTaskQueue
    worker,       \* connection whose CONNECT connectionRoutine is inside
    downQ,        \* Client::_downQueue of caller coroutines
    sendQ,        \* tasks handed to Sender::send, not yet encoded
    wire,         \* requests the server has received and not answered
    inbox,        \* response frames in the socket, in stream order
    ioClosed,     \* the reactor has called onClose for the connection
    failures,     \* failures so far
    pc,           \* caller: "idle" or "waiting" inside CallMethod
    calls,        \* caller: number of its current (or last) call
    curFF,        \* caller: the current call is fire-and-forget
    ctrl,         \* caller: controller failure text, "ok" if not failed
    resp          \* caller: the call whose reply its response holds

engineVars == <<slot, conIndex, connectDelay, nConns, st, waitSend,
                waitResult, connQ, worker, downQ>>
netVars == <<sendQ, wire, inbox, ioClosed, failures>>
callerVars == <<pc, calls, curFF, ctrl, resp>>
vars == <<engineVars, netVars, callerVars>>

-----------------------------------------------------------------------------
(* Helpers                                                                 *)

\* std::map::insert: a key already present keeps its old task.
Insert(m, t) == IF m[t.co] = NoTask THEN [m EXCEPT ![t.co] = t] ELSE m

InsertAll(m, ts) == FoldLeft(Insert, m, ts)

Keys(m) == {k \in Callers : m[k] # NoTask}

Coroutines(ts) == [i \in 1..Len(ts) |-> ts[i].co]

SetFailed(S, text) == [c \in Callers |-> IF c \in S THEN text ELSE ctrl[c]]

-----------------------------------------------------------------------------
(* Channel::getNextConnection and the upRoutine step                       *)

\* _conIndex = (_conIndex + 1) % _connections.size()
NextIndex(i) == (i + 1) % NumSlots

\* The object the slot holds after the pick: a new one (state CLOSED) when
\* the slot is empty or its connection is CLOSED.
Picked(idx) ==
    IF slot[idx] = NoConn \/ st[slot[idx]] = "CLOSED"
    THEN nConns + 1 ELSE slot[idx]

NeedsConnectNotConnected(x) == st[x] # "CONNECTED"

\* A CLOSED pick is set CONNECTING and a CONNECT event is posted.
NeedsConnect(x) == st[x] = "CLOSED"

\* upRoutine: take the task from _upList, pick a connection, then queue the
\* task while CONNECTING or register it and hand it to the Sender.
Dispatch(t) ==
    LET idx == NextIndex(conIndex)
        x   == Picked(idx)
        new == NeedsConnect(x)
        s   == IF new THEN "CONNECTING" ELSE st[x]
    IN /\ conIndex' = idx
       /\ slot' = [slot EXCEPT ![idx] = x]
       /\ nConns' = IF x > nConns THEN x ELSE nConns
       /\ st' = [st EXCEPT ![x] = s]
       /\ connQ' = IF new THEN Append(connQ, [type |-> "CONNECT", conn |-> x])
                          ELSE connQ
       /\ IF s = "CONNECTING"
          THEN /\ waitSend' = [waitSend EXCEPT ![x] = Append(@, t)]
               /\ UNCHANGED <<waitResult, sendQ>>
          ELSE /\ waitResult' = [waitResult EXCEPT ![x] = Insert(@, t)]
               /\ sendQ' = [sendQ EXCEPT ![x] = Append(@, t)]
               /\ UNCHANGED waitSend

\* Channel::CallMethod: build the task, append it to _upList and resume the
\* parked upRoutine, which dispatches it before the caller yields.
CallMethod(c, ff) ==
    /\ pc' = [pc EXCEPT ![c] = "waiting"]
    /\ calls' = [calls EXCEPT ![c] = @ + 1]
    /\ curFF' = [curFF EXCEPT ![c] = ff]
    /\ Dispatch([co |-> c, n |-> calls[c] + 1, ff |-> ff])

\* rpc_routine of the test client: reset the controller and call a stub
\* method (Foo/Bar, or a not_care_response one); after a failure it calls
\* again.  Each caller makes at most MaxCalls calls.
RpcRoutine(c, ff) ==
    /\ pc[c] = "idle"
    /\ calls[c] < MaxCalls
    /\ ctrl' = [ctrl EXCEPT ![c] = "ok"]
    /\ CallMethod(c, ff)
    /\ UNCHANGED <<connectDelay, worker, downQ, wire, inbox, ioClosed,
                   failures, resp>>

-----------------------------------------------------------------------------
(* connectionRoutine                                                       *)

\* Pop a CONNECT event; the fiber then sleeps (if _connectDelay) and polls
\* the non-blocking connect, yielding to the other client fibers.
ConnectBegin ==
    /\ worker = NoConn
    /\ connQ # <<>>
    /\ Head(connQ).type = "CONNECT"
    /\ worker' = Head(connQ).conn
    /\ connQ' = Tail(connQ)
    /\ UNCHANGED <<slot, conIndex, connectDelay, nConns, st, waitSend,
                   waitResult, downQ, netVars, callerVars>>

ConnectFailKeepPending(x) ==
    /\ worker = x
    /\ failures < MaxFailures
    /\ failures' = failures + 1
    /\ st' = [st EXCEPT ![x] = "CLOSED"]
    /\ worker' = NoConn
    /\ UNCHANGED <<slot, conIndex, connectDelay, nConns, waitSend, waitResult,
                   connQ, downQ, sendQ, wire, inbox, ioClosed, callerVars>>

\* socket/connect/getsockopt failed: the fd is closed, _st = CLOSED, and
\* every queued task fails with "Connect fail" and its caller is woken.
ConnectFail(x) ==
    /\ worker = x
    /\ failures < MaxFailures
    /\ failures' = failures + 1
    /\ st' = [st EXCEPT ![x] = "CLOSED"]
    /\ ctrl' = SetFailed(ToSet(Coroutines(waitSend[x])), "ConnectFail")
    /\ downQ' = downQ \o Coroutines(waitSend[x])
    /\ waitSend' = [waitSend EXCEPT ![x] = <<>>]
    /\ worker' = NoConn
    /\ UNCHANGED <<slot, conIndex, connectDelay, nConns, waitResult, connQ,
                   sendQ, wire, inbox, ioClosed, pc, calls, curFF, resp>>

ConnectOkKeepPending(x) ==
    /\ worker = x
    /\ st' = [st EXCEPT ![x] = "CONNECTED"]
    /\ connectDelay' = FALSE
    /\ waitResult' = [waitResult EXCEPT ![x] = InsertAll(@, waitSend[x])]
    /\ sendQ' = [sendQ EXCEPT ![x] = @ \o waitSend[x]]
    /\ worker' = NoConn
    /\ UNCHANGED <<slot, conIndex, nConns, waitSend, connQ, downQ, wire,
                   inbox, ioClosed, failures, callerVars>>

\* Connected (a poll that timed out with SO_ERROR 0 also lands here):
\* _st = CONNECTED, _connectDelay cleared, addConnection, and the queued
\* tasks are registered in _waitResultCoMap and sent in FIFO order.
ConnectOk(x) ==
    /\ worker = x
    /\ st' = [st EXCEPT ![x] = "CONNECTED"]
    /\ connectDelay' = FALSE
    /\ waitResult' = [waitResult EXCEPT ![x] = InsertAll(@, waitSend[x])]
    /\ sendQ' = [sendQ EXCEPT ![x] = @ \o waitSend[x]]
    /\ waitSend' = [waitSend EXCEPT ![x] = <<>>]
    /\ worker' = NoConn
    /\ UNCHANGED <<slot, conIndex, nConns, connQ, downQ, wire, inbox,
                   ioClosed, failures, callerVars>>

CloseQueuesTasks(x) ==
    /\ worker = NoConn
    /\ connQ # <<>>
    /\ Head(connQ) = [type |-> "CLOSE", conn |-> x]
    /\ connQ' = Tail(connQ)
    /\ st' = [st EXCEPT ![x] = "CLOSED"]
    /\ connectDelay' = TRUE
    /\ ctrl' = SetFailed(Keys(waitResult[x]), "ENETDOWN")
    /\ downQ' = downQ \o SetToSeq({waitResult[x][k] : k \in Keys(waitResult[x])})
    /\ waitResult' = [waitResult EXCEPT ![x] = [c \in Callers |-> NoTask]]
    /\ UNCHANGED <<slot, conIndex, nConns, waitSend, worker, netVars,
                   pc, calls, curFF, resp>>

CloseNoFail(x) ==
    /\ worker = NoConn
    /\ connQ # <<>>
    /\ Head(connQ) = [type |-> "CLOSE", conn |-> x]
    /\ connQ' = Tail(connQ)
    /\ st' = [st EXCEPT ![x] = "CLOSED"]
    /\ connectDelay' = TRUE
    /\ downQ' = downQ \o SetToSeq(Keys(waitResult[x]))
    /\ waitResult' = [waitResult EXCEPT ![x] = [c \in Callers |-> NoTask]]
    /\ UNCHANGED <<slot, conIndex, nConns, waitSend, worker, netVars,
                   callerVars>>

\* CLOSE event: _st = CLOSED, _connectDelay = true, and under the mutex
\* every registered task fails with strerror(ENETDOWN) and is woken.
Close(x) ==
    /\ worker = NoConn
    /\ connQ # <<>>
    /\ Head(connQ) = [type |-> "CLOSE", conn |-> x]
    /\ connQ' = Tail(connQ)
    /\ st' = [st EXCEPT ![x] = "CLOSED"]
    /\ connectDelay' = TRUE
    /\ ctrl' = SetFailed(Keys(waitResult[x]), "ENETDOWN")
    /\ downQ' = downQ \o SetToSeq(Keys(waitResult[x]))
    /\ waitResult' = [waitResult EXCEPT ![x] = [c \in Callers |-> NoTask]]
    /\ UNCHANGED <<slot, conIndex, nConns, waitSend, worker, netVars,
                   pc, calls, curFF, resp>>

-----------------------------------------------------------------------------
(* downRoutine                                                             *)

\* Pop a coroutine from _downQueue and co_resume it: CallMethod returns.
DownResume ==
    /\ downQ # <<>>
    /\ pc' = [pc EXCEPT ![Head(downQ)] = "idle"]
    /\ downQ' = Tail(downQ)
    /\ UNCHANGED <<slot, conIndex, connectDelay, nConns, st, waitSend,
                   waitResult, connQ, worker, netVars, calls, curFF, ctrl,
                   resp>>

-----------------------------------------------------------------------------
(* Reactor threads: Encoder, server, Decoder + Router, onClose             *)

EncodeEraseAlways(x) ==
    /\ sendQ[x] # <<>>
    /\ ~ioClosed[x] \/ EncodeAfterClose
    /\ LET t == Head(sendQ[x]) IN
       /\ sendQ' = [sendQ EXCEPT ![x] = Tail(@)]
       /\ wire' = IF t.ff \/ ioClosed[x] THEN wire
                  ELSE [wire EXCEPT ![x] = @ \cup {t}]
       /\ waitResult' = [waitResult EXCEPT ![x][t.co] = NoTask]
       /\ downQ' = IF t.ff THEN Append(downQ, t.co) ELSE downQ
    /\ UNCHANGED <<slot, conIndex, connectDelay, nConns, st, waitSend, connQ,
                   worker, inbox, ioClosed, failures, callerVars>>

\* Encoder::encode of the head task: the frame goes to the server.  For a
\* not_care_response method the call id is erased from _waitResultCoMap
\* (erase by key; a missing key only trips the assert) and the caller is
\* pushed onto _downQueue at once.  After onClose the write goes nowhere.
Encode(x) ==
    /\ sendQ[x] # <<>>
    /\ ~ioClosed[x] \/ EncodeAfterClose
    /\ LET t == Head(sendQ[x]) IN
       /\ sendQ' = [sendQ EXCEPT ![x] = Tail(@)]
       /\ wire' = IF t.ff \/ ioClosed[x] THEN wire
                  ELSE [wire EXCEPT ![x] = @ \cup {t}]
       /\ waitResult' = IF t.ff THEN [waitResult EXCEPT ![x][t.co] = NoTask]
                        ELSE waitResult
       /\ downQ' = IF t.ff THEN Append(downQ, t.co) ELSE downQ
    /\ UNCHANGED <<slot, conIndex, connectDelay, nConns, st, waitSend, connQ,
                   worker, inbox, ioClosed, failures, callerVars>>

\* The server answers any request it holds, echoing the call id; answers
\* reach the socket in the order the server sends them.
ServerReply(x) ==
    /\ ~ioClosed[x]
    /\ \E t \in wire[x] :
        /\ wire' = [wire EXCEPT ![x] = @ \ {t}]
        /\ inbox' = [inbox EXCEPT ![x] = Append(@, t)]
    /\ UNCHANGED <<engineVars, sendQ, ioClosed, failures, callerVars>>

DecodeNoErase(x) ==
    /\ ~ioClosed[x]
    /\ inbox[x] # <<>>
    /\ LET r == Head(inbox[x])
           task == waitResult[x][r.co]
       IN /\ inbox' = [inbox EXCEPT ![x] = Tail(@)]
          /\ IF task = NoTask
             THEN UNCHANGED <<downQ, resp>>
             ELSE /\ resp' = [resp EXCEPT ![task.co] = r.n]
                  /\ downQ' = Append(downQ, task.co)
    /\ UNCHANGED <<slot, conIndex, connectDelay, nConns, st, waitSend, connQ,
                   worker, sendQ, wire, ioClosed, failures, pc, calls, curFF,
                   ctrl, waitResult>>

\* Decoder::decode of the next frame: find and erase the call id under the
\* mutex (an unknown id drops the frame), parse the body into the task's
\* response; on success Router::route pushes the caller onto _downQueue.
Decode(x) ==
    /\ ~ioClosed[x]
    /\ inbox[x] # <<>>
    /\ LET r == Head(inbox[x])
           task == waitResult[x][r.co]
       IN /\ inbox' = [inbox EXCEPT ![x] = Tail(@)]
          /\ IF task = NoTask
             THEN UNCHANGED <<waitResult, downQ, resp>>
             ELSE /\ waitResult' = [waitResult EXCEPT ![x][r.co] = NoTask]
                  /\ \/ /\ resp' = [resp EXCEPT ![task.co] = r.n]
                        /\ downQ' = Append(downQ, task.co)
                     \/ /\ ParseMayFail
                        /\ UNCHANGED <<downQ, resp>>
    /\ UNCHANGED <<slot, conIndex, connectDelay, nConns, st, waitSend, connQ,
                   worker, sendQ, wire, ioClosed, failures, pc, calls, curFF,
                   ctrl>>

\* A transport error on a registered connection: the reactor stops reading,
\* what was in flight is lost, and Connection::onClose posts a CLOSE event.
TransportFail(x) ==
    /\ st[x] = "CONNECTED"
    /\ ~ioClosed[x]
    /\ failures < MaxFailures
    /\ failures' = failures + 1
    /\ ioClosed' = [ioClosed EXCEPT ![x] = TRUE]
    /\ wire' = [wire EXCEPT ![x] = {}]
    /\ inbox' = [inbox EXCEPT ![x] = <<>>]
    /\ sendQ' = IF EncodeAfterClose THEN sendQ ELSE [sendQ EXCEPT ![x] = <<>>]
    /\ connQ' = Append(connQ, [type |-> "CLOSE", conn |-> x])
    /\ UNCHANGED <<slot, conIndex, connectDelay, nConns, st, waitSend,
                   waitResult, worker, downQ, callerVars>>

\* Every caller has made all its calls and been resumed: nothing is left
\* for the engine to do.
Quiescent ==
    /\ \A c \in Callers : pc[c] = "idle" /\ calls[c] = MaxCalls
    /\ UNCHANGED vars

-----------------------------------------------------------------------------

Init ==
    /\ slot = [i \in SlotIds |-> NoConn]
    /\ conIndex = 0
    /\ connectDelay = FALSE
    /\ nConns = 0
    /\ st = [x \in Conns |-> "CLOSED"]
    /\ waitSend = [x \in Conns |-> <<>>]
    /\ waitResult = [x \in Conns |-> [c \in Callers |-> NoTask]]
    /\ connQ = <<>>
    /\ worker = NoConn
    /\ downQ = <<>>
    /\ sendQ = [x \in Conns |-> <<>>]
    /\ wire = [x \in Conns |-> {}]
    /\ inbox = [x \in Conns |-> <<>>]
    /\ ioClosed = [x \in Conns |-> FALSE]
    /\ failures = 0
    /\ pc = [c \in Callers |-> "idle"]
    /\ calls = [c \in Callers |-> 0]
    /\ curFF = [c \in Callers |-> FALSE]
    /\ ctrl = [c \in Callers |-> "ok"]
    /\ resp = [c \in Callers |-> 0]

Next ==
    \/ \E c \in Callers, ff \in BOOLEAN : RpcRoutine(c, ff)
    \/ ConnectBegin
    \/ \E x \in Conns : ConnectFail(x) \/ ConnectOk(x) \/ Close(x)
    \/ DownResume
    \/ \E x \in Conns : Encode(x) \/ ServerReply(x) \/ Decode(x)
    \/ \E x \in Conns : TransportFail(x)
    \/ Quiescent

\* The client fibers and the reactor threads keep running; the server
\* answers what it receives.  Callers and transport failures are not fair.
Fairness ==
    /\ WF_vars(ConnectBegin)
    /\ WF_vars(DownResume)
    /\ \A x \in Conns :
        /\ WF_vars(ConnectFail(x) \/ ConnectOk(x))
        /\ WF_vars(Close(x))
        /\ WF_vars(Encode(x))
        /\ WF_vars(ServerReply(x))
        /\ WF_vars(Decode(x))

Spec == Init /\ [][Next]_vars /\ Fairness

-----------------------------------------------------------------------------
(* Properties                                                              *)

TypeOK ==
    /\ slot \in [SlotIds -> 0..MaxConns]
    /\ conIndex \in SlotIds
    /\ connectDelay \in BOOLEAN
    /\ nConns \in 0..MaxConns
    /\ st \in [Conns -> {"CLOSED", "CONNECTING", "CONNECTED"}]
    /\ waitSend \in [Conns -> Seq(Task)]
    /\ waitResult \in [Conns -> [Callers -> Task \cup {NoTask}]]
    /\ connQ \in Seq(Event)
    /\ worker \in 0..MaxConns
    /\ downQ \in Seq(Callers)
    /\ sendQ \in [Conns -> Seq(Task)]
    /\ wire \in [Conns -> SUBSET Task]
    /\ inbox \in [Conns -> Seq(Task)]
    /\ ioClosed \in [Conns -> BOOLEAN]
    /\ failures \in 0..MaxFailures
    /\ pc \in [Callers -> {"idle", "waiting"}]
    /\ calls \in [Callers -> 0..MaxCalls]
    /\ curFF \in [Callers -> BOOLEAN]
    /\ ctrl \in [Callers -> {"ok", "ConnectFail", "ENETDOWN"}]
    /\ resp \in [Callers -> 0..MaxCalls]

\* How many engine containers hold caller c's task: the pending-send lists,
\* the in-flight maps, and the resume queue.
Places(c) ==
    MapThenSumSet(LAMBDA x : Len(SelectSeq(waitSend[x], LAMBDA t : t.co = c))
                             + (IF waitResult[x][c] # NoTask THEN 1 ELSE 0),
                  Conns)
    + Len(SelectSeq(downQ, LAMBDA d : d = c))

\* A caller suspended in CallMethod has its task in exactly one of the
\* pending-send lists, the _waitResultCoMap maps and _downQueue, and a
\* caller that is not in a call appears in none: no task is lost between
\* upRoutine, connectionRoutine, the Decoder, the Encoder and a CLOSE drain,
\* and no caller is queued for resumption twice.
TaskInOnePlace ==
    \A c \in Callers : Places(c) = IF pc[c] = "waiting" THEN 1 ELSE 0

\* The pending-send list of a connection is non-empty only while it is
\* CONNECTING (the assert in the CLOSE handler relies on it), and a CLOSED
\* connection has no registered task left: both the connect-failure path
\* and the CLOSE drain empty what they must.
ContainersMatchState ==
    \A x \in Conns :
        /\ waitSend[x] # <<>> => st[x] = "CONNECTING"
        /\ st[x] = "CLOSED" => Keys(waitResult[x]) = {}

\* Every request the server holds or has answered on a live connection is
\* still registered under its call id as that very task, so the Decoder
\* resolves each response to the call that sent it (demultiplexing).
ReplyMatchesEntry ==
    \A x \in Conns :
        \A r \in wire[x] \cup ToSet(inbox[x]) : waitResult[x][r.co] = r

\* A connection object is connected at most once: while it is CONNECTING
\* exactly one CONNECT for it is queued or in progress in
\* connectionRoutine, and none otherwise (getNextConnection posts CONNECT
\* only for a CLOSED pick).
OneConnectPerConnection ==
    \A x \in Conns :
        Len(SelectSeq(connQ, LAMBDA e : e = [type |-> "CONNECT", conn |-> x]))
        + (IF worker = x THEN 1 ELSE 0)
        = IF st[x] = "CONNECTING" THEN 1 ELSE 0

\* Every call eventually returns from CallMethod: by a reply, by the
\* fire-and-forget encode, or by a failure the engine reports.
CallsComplete ==
    \A c \in Callers : pc[c] = "waiting" ~> pc[c] = "idle"

(* Refinement of RpcCall: a caller is calling while its task is in the     *)
(* engine, done once it is queued on _downQueue, and its outcome is the    *)
(* controller text, or "reply" when its response holds the reply to its    *)
(* current call, or "sent" for a fire-and-forget call.                     *)

AbsStatus ==
    [c \in Callers |->
        IF pc[c] = "idle" THEN "idle"
        ELSE IF c \in ToSet(downQ) THEN "done" ELSE "calling"]

AbsOutcome ==
    [c \in Callers |->
        IF AbsStatus[c] # "done" THEN "none"
        ELSE IF ctrl[c] # "ok" THEN ctrl[c]
        ELSE IF curFF[c] THEN "sent"
        ELSE IF resp[c] = calls[c] THEN "reply"
        ELSE "wrong-reply"]

Abs == INSTANCE RpcCall WITH status <- AbsStatus, outcome <- AbsOutcome

\* The engine implements RpcCall: each call completes once, with the reply
\* to that call or a failure text, before its caller is resumed.
ImplementsRpcCall == Abs!Spec

=============================================================================
