---------------------------- MODULE MemcachedPool ----------------------------
(***************************************************************************)
(* MemcachedConnectPool (src/corpc_memcached/corpc_memcached.cpp): a pool  *)
(* of memcached_st handles served over inner RPC.  take and put run as     *)
(* handler coroutines on the pool's server thread, one at a time; take     *)
(* yields when it must wait, and put resumes waiters directly (co_resume), *)
(* so a resumed waiter finishes its take inside the put step.             *)
(*                                                                         *)
(* Clients use a Proxy: Proxy::take blocks for the answer, Proxy::put is   *)
(* sent with no response, so a client may take again before the server    *)
(* has handled its put.  Handles are addresses: memcached_free may return *)
(* one that a later memcached_create reuses.                               *)
(*                                                                         *)
(* A client reaches the pool through getProxy, which keeps one Proxy per   *)
(* thread in the std::map _threadProxyMap with no lock.  Client threads    *)
(* run getProxy concurrently: its find, the locating of the insert point   *)
(* and the linking of the new node are separate steps, and two inserts     *)
(* that overlap are modelled by the outcome of that data race in which     *)
(* the later link, made into the tree as it located it, drops the other.   *)
(***************************************************************************)
EXTENDS Naturals, Sequences, SequencesExt, FiniteSets

CONSTANTS
    Clients,        \* client coroutines calling through a Proxy
    Threads,        \* the client threads (GetPid)
    ThreadOf,       \* the thread each client coroutine runs on
    MaxConnectNum,  \* _maxConnectNum
    MaxIdleNum      \* _maxIdleNum

ASSUME /\ MaxConnectNum \in Nat \ {0} /\ MaxIdleNum \in Nat
       /\ ThreadOf \in [Clients -> Threads]

\* Enough addresses for every handle that can be live at once.
Handles == 1..MaxConnectNum
NoHandle == 0

VARIABLES
    idle,       \* _idleList
    waiting,    \* _waitingList of coroutines suspended in take
    realCount,  \* _realConnectCount
    live,       \* handles memcached_create made and memcached_free has not freed
    cst,        \* client: "free", "creating" or "linking" (in getProxy),
                \* "ready" (has its Proxy), "waiting" (in take) or "holding"
    held,       \* client: the handle it holds
    puts,       \* put requests sent and not yet handled
    proxyMap,   \* _threadProxyMap: the threads that have an entry
    made,       \* thread: Proxy objects getProxy has constructed for it
    snap        \* client: _threadProxyMap as its insert located its node

proxyVars == <<proxyMap, made, snap>>
vars == <<idle, waiting, realCount, live, cst, held, puts, proxyVars>>

PutReq == [h : Handles, error : BOOLEAN]

-----------------------------------------------------------------------------
(* Server side: MemcachedConnectPool::take and ::put                       *)

\* Client c's take leaves with handle h (or NoHandle when it failed).
Grant(c, h) ==
    /\ cst' = [cst EXCEPT ![c] = IF h = NoHandle THEN "free" ELSE "holding"]
    /\ held' = [held EXCEPT ![c] = h]

TakeNoPop(c) ==
    /\ \/ /\ idle # <<>>
          /\ idle' = idle
          /\ Grant(c, Head(idle))
          /\ UNCHANGED <<waiting, realCount, live>>
       \/ /\ idle = <<>>
          /\ realCount < MaxConnectNum
          /\ \/ \E h \in Handles \ live :
                   /\ live' = live \cup {h}
                   /\ realCount' = realCount + 1
                   /\ Grant(c, h)
             \/ /\ Grant(c, NoHandle)
                /\ UNCHANGED <<realCount, live>>
          /\ UNCHANGED <<idle, waiting>>
       \/ /\ idle = <<>>
          /\ realCount >= MaxConnectNum
          /\ waiting' = Append(waiting, c)
          /\ cst' = [cst EXCEPT ![c] = "waiting"]
          /\ UNCHANGED <<idle, realCount, live, held>>
    /\ UNCHANGED <<puts, proxyVars>>

\* take: an idle handle if there is one; else a new connection while below
\* _maxConnectNum, unless memcached_server_push fails ("Couldn't add
\* memcached server"); else the coroutine joins _waitingList and yields.
Take(c) ==
    /\ \/ /\ idle # <<>>
          /\ idle' = Tail(idle)
          /\ Grant(c, Head(idle))
          /\ UNCHANGED <<waiting, realCount, live>>
       \/ /\ idle = <<>>
          /\ realCount < MaxConnectNum
          /\ \/ \E h \in Handles \ live :
                   /\ live' = live \cup {h}
                   /\ realCount' = realCount + 1
                   /\ Grant(c, h)
             \/ /\ Grant(c, NoHandle)
                /\ UNCHANGED <<realCount, live>>
          /\ UNCHANGED <<idle, waiting>>
       \/ /\ idle = <<>>
          /\ realCount >= MaxConnectNum
          /\ waiting' = Append(waiting, c)
          /\ cst' = [cst EXCEPT ![c] = "waiting"]
          /\ UNCHANGED <<idle, realCount, live, held>>
    /\ UNCHANGED <<puts, proxyVars>>

\* The coroutines ws are resumed in order (co_resume) against the idle list
\* idleNow; each finishes its take: the front idle handle, or "can't connect
\* to memcached server" when none is left.
Wake(ws, idleNow) ==
    LET got(i) == IF i <= Len(idleNow) THEN idleNow[i] ELSE NoHandle
        pos(c) == CHOOSE i \in 1..Len(ws) : ws[i] = c
        woken == ToSet(ws)
    IN /\ held' = [c \in Clients |-> IF c \in woken THEN got(pos(c)) ELSE held[c]]
       /\ cst' = [c \in Clients |->
                    IF c \notin woken THEN cst[c]
                    ELSE IF got(pos(c)) = NoHandle THEN "free" ELSE "holding"]
       /\ idle' = IF Len(idleNow) > Len(ws)
                  THEN SubSeq(idleNow, Len(ws) + 1, Len(idleNow)) ELSE <<>>

PutIdleNoWake(p) ==
    /\ p.error = FALSE
    /\ Len(idle) < MaxIdleNum
    /\ puts' = puts \ {p}
    /\ UNCHANGED proxyVars
    /\ idle' = Append(idle, p.h)
    /\ UNCHANGED <<waiting, realCount, live, cst, held>>

\* put of a sound handle while the idle list has room: it joins the idle
\* list and the first waiter, if any, is resumed.
PutIdle(p) ==
    /\ p.error = FALSE
    /\ Len(idle) < MaxIdleNum
    /\ puts' = puts \ {p}
    /\ UNCHANGED proxyVars
    /\ IF waiting = <<>>
       THEN /\ idle' = Append(idle, p.h)
            /\ UNCHANGED <<waiting, cst, held>>
       ELSE /\ waiting' = Tail(waiting)
            /\ Wake(<<Head(waiting)>>, Append(idle, p.h))
    /\ UNCHANGED <<realCount, live>>

PutErrorNoDecrement(p) ==
    /\ p.error = TRUE
    /\ Len(idle) < MaxIdleNum
    /\ puts' = puts \ {p}
    /\ UNCHANGED proxyVars
    /\ IF waiting # <<>>
       THEN \/ \E h \in Handles \ (live \ {p.h}) :
                  /\ live' = (live \ {p.h}) \cup {h}
                  /\ realCount' = realCount + 1
                  /\ waiting' = Tail(waiting)
                  /\ Wake(<<Head(waiting)>>, Append(idle, h))
            \/ /\ live' = live \ {p.h}
               /\ realCount' = realCount
               /\ waiting' = <<>>
               /\ Wake(waiting, idle)
       ELSE /\ live' = live \ {p.h}
            /\ realCount' = realCount - 1
            /\ UNCHANGED <<idle, waiting, cst, held>>

PutErrorNoWakeAll(p) ==
    /\ p.error = TRUE
    /\ Len(idle) < MaxIdleNum
    /\ puts' = puts \ {p}
    /\ UNCHANGED proxyVars
    /\ IF waiting # <<>> /\ realCount - 1 < MaxConnectNum
       THEN \/ \E h \in Handles \ (live \ {p.h}) :
                  /\ live' = (live \ {p.h}) \cup {h}
                  /\ realCount' = realCount
                  /\ waiting' = Tail(waiting)
                  /\ Wake(<<Head(waiting)>>, Append(idle, h))
            \/ /\ live' = live \ {p.h}
               /\ realCount' = realCount - 1
               /\ UNCHANGED <<idle, waiting, cst, held>>
       ELSE /\ live' = live \ {p.h}
            /\ realCount' = realCount - 1
            /\ UNCHANGED <<idle, waiting, cst, held>>

\* put of a broken handle while the idle list has room: the count drops and
\* the handle is freed; if coroutines wait, a new connection is made and
\* the first waiter resumed, or, when memcached_server_push fails, every
\* waiter is resumed (and fails).
PutError(p) ==
    /\ p.error = TRUE
    /\ Len(idle) < MaxIdleNum
    /\ puts' = puts \ {p}
    /\ UNCHANGED proxyVars
    /\ IF waiting # <<>> /\ realCount - 1 < MaxConnectNum
       THEN \/ \E h \in Handles \ (live \ {p.h}) :
                  /\ live' = (live \ {p.h}) \cup {h}
                  /\ realCount' = realCount
                  /\ waiting' = Tail(waiting)
                  /\ Wake(<<Head(waiting)>>, Append(idle, h))
            \/ /\ live' = live \ {p.h}
               /\ realCount' = realCount - 1
               /\ waiting' = <<>>
               /\ Wake(waiting, idle)
       ELSE /\ live' = live \ {p.h}
            /\ realCount' = realCount - 1
            /\ UNCHANGED <<idle, waiting, cst, held>>

PutFullKeepsCount(p) ==
    /\ Len(idle) >= MaxIdleNum
    /\ puts' = puts \ {p}
    /\ UNCHANGED proxyVars
    /\ live' = live \ {p.h}
    /\ UNCHANGED <<idle, waiting, realCount, cst, held>>

\* put while the idle list is full: assert(_waitingList.size() == 0), which
\* a release build skips; the count drops and the handle is freed,
\* whatever its error flag.
PutFull(p) ==
    /\ Len(idle) >= MaxIdleNum
    /\ puts' = puts \ {p}
    /\ UNCHANGED proxyVars
    /\ live' = live \ {p.h}
    /\ realCount' = realCount - 1
    /\ UNCHANGED <<idle, waiting, cst, held>>

-----------------------------------------------------------------------------
(* Client side: Proxy::take and Proxy::put                                 *)

\* getProxy finds no entry for the client's thread and constructs a new
\* Proxy (with its inner-RPC Channel).  getProxy does not yield, so no other
\* coroutine of the thread is inside it.
NewProxy(c) ==
    LET t == ThreadOf[c] IN
    /\ cst[c] = "free"
    /\ t \notin proxyMap
    /\ \A d \in Clients : ThreadOf[d] = t => cst[d] \notin {"creating", "linking"}
    /\ made' = [made EXCEPT ![t] = @ + 1]
    /\ cst' = [cst EXCEPT ![c] = "creating"]
    /\ UNCHANGED <<idle, waiting, realCount, live, held, puts, proxyMap, snap>>

\* _threadProxyMap.insert locates the place of the new node.
Locate(c) ==
    /\ cst[c] = "creating"
    /\ snap' = [snap EXCEPT ![c] = proxyMap]
    /\ cst' = [cst EXCEPT ![c] = "linking"]
    /\ UNCHANGED <<idle, waiting, realCount, live, held, puts, proxyMap, made>>

\* The insert links the node into the tree as located; getProxy returns the
\* new Proxy.
Link(c) ==
    /\ cst[c] = "linking"
    /\ proxyMap' = snap[c] \cup {ThreadOf[c]}
    /\ cst' = [cst EXCEPT ![c] = "ready"]
    /\ UNCHANGED <<idle, waiting, realCount, live, held, puts, made, snap>>

\* Proxy::take on the Proxy getProxy returned (found in the map, or just
\* made): a blocking take RPC; NULL when the controller failed.
ProxyTake(c) ==
    /\ \/ cst[c] = "free" /\ ThreadOf[c] \in proxyMap
       \/ cst[c] = "ready"
    /\ Take(c)

\* Proxy::put: a put RPC with no response (callDoneHandle frees the
\* request); the client no longer holds the handle.
ProxyPut(c, error) ==
    /\ cst[c] = "holding"
    /\ puts' = puts \cup {[h |-> held[c], error |-> error]}
    /\ cst' = [cst EXCEPT ![c] = "free"]
    /\ held' = [held EXCEPT ![c] = NoHandle]
    /\ UNCHANGED <<idle, waiting, realCount, live, proxyVars>>

Init ==
    /\ idle = <<>>
    /\ waiting = <<>>
    /\ realCount = 0
    /\ live = {}
    /\ cst = [c \in Clients |-> "free"]
    /\ held = [c \in Clients |-> NoHandle]
    /\ puts = {}
    /\ proxyMap = {}
    /\ made = [t \in Threads |-> 0]
    /\ snap = [c \in Clients |-> {}]

Next ==
    \/ \E c \in Clients :
         \/ NewProxy(c) \/ Locate(c) \/ Link(c)
         \/ ProxyTake(c) \/ \E e \in BOOLEAN : ProxyPut(c, e)
    \/ \E p \in puts : PutIdle(p)
    \/ \E p \in puts : PutError(p)
    \/ \E p \in puts : PutFull(p)

\* The server handles every put it receives; a client holding a handle
\* returns it eventually.  Clients need not take again.
Fairness ==
    /\ \A c \in Clients : WF_vars(\E e \in BOOLEAN : ProxyPut(c, e))
    /\ WF_vars(\E p \in puts : PutIdle(p) \/ PutError(p) \/ PutFull(p))

Spec == Init /\ [][Next]_vars /\ Fairness

-----------------------------------------------------------------------------
(* Properties                                                              *)

TypeOK ==
    /\ idle \in Seq(Handles)
    /\ waiting \in Seq(Clients)
    /\ realCount \in 0..MaxConnectNum
    /\ live \in SUBSET Handles
    /\ cst \in [Clients -> {"free", "creating", "linking", "ready",
                             "waiting", "holding"}]
    /\ held \in [Clients -> Handles \cup {NoHandle}]
    /\ puts \in SUBSET PutReq
    /\ proxyMap \in SUBSET Threads
    /\ made \in [Threads -> Nat]
    /\ snap \in [Clients -> SUBSET Threads]

\* Handles that are idle, held by a client, or on their way back in a put.
Accounted ==
    ToSet(idle) \cup {held[c] : c \in {d \in Clients : cst[d] = "holding"}}
    \cup {p.h : p \in puts}

\* _realConnectCount counts exactly the live handles and each of them is in
\* one place only, idle, held by a client, or in a put on its way back:
\* take's creation, put's free-and-recreate for a waiter and the free of
\* a put to a full list keep the counter and the handles in step.
PoolAccounting ==
    /\ realCount = Cardinality(live)
    /\ Accounted = live
    /\ Len(idle) + Cardinality({c \in Clients : cst[c] = "holding"})
       + Cardinality(puts) = realCount

\* A coroutine waits in take only while the pool is exhausted: no handle is
\* idle and _realConnectCount is at _maxConnectNum; so put's asserts hold
\* and every handle a waiter could use is out with a client or a put.
NoIdleWhileWaiting ==
    waiting # <<>> => idle = <<>> /\ realCount = MaxConnectNum

\* Every take that waits eventually returns, with a handle or a failure.
TakeReturns ==
    \A c \in Clients : cst[c] = "waiting" ~> cst[c] # "waiting"

\* getProxy keeps one Proxy per thread ("create the proxy for the current
\* thread", keyed by GetPid in _threadProxyMap): no thread ever has a
\* second Proxy, and a second inner-RPC Channel, constructed for it.
ProxyPerThread ==
    \A t \in Threads : made[t] <= 1

-----------------------------------------------------------------------------
(* Refinement of HandlePool                                                *)

AbsHolder == [c \in Clients |-> IF cst[c] = "holding" THEN held[c] ELSE NoHandle]
AbsPending == {c \in Clients : cst[c] = "waiting"}

Abs == INSTANCE HandlePool WITH holder <- AbsHolder, pending <- AbsPending

\* The pool keeps the promise of HandlePool: every answer to a take, from
\* the idle list, a new connection, or a put that resumes a waiter, is a
\* handle no other client holds, or a failure; only clients that hold a
\* handle give one up.
ImplementsHandlePool == Abs!Spec

=============================================================================
