# TLA+ models of libcorpc

This directory holds TLA+ models of the CoRpc client (`src/corpc/corpc_client.cpp`),
its wire framing, the memcached connection pool
(`src/corpc_memcached/corpc_memcached.cpp`) and the call counters of the test
and example programs. Every module is
translated from the source. `PROJECT.json` maps each definition to the lines it
models and lists the runs, mutants, findings and hazards.

## 1. Inventory

### Components

| Component | Source | State | Operations |
|---|---|---|---|
| Channel | corpc_client.cpp 158-232 | `_connections` (N slots), `_conIndex`, `_connectDelay` | `getNextConnection` (round robin, lazy (re)connect), `CallMethod` |
| Connection | 147-156 | `_st` ∈ {CLOSED, CONNECTING, CONNECTED}, `_fd`, `_waitSendTaskCoList` (pending FIFO), `_waitResultCoMap` (call id → task, under a mutex) | `onClose` (posts CLOSE) |
| connectionRoutine fiber | 273-447 | the event pipe `_connectionTaskQueue` | CONNECT (sleep if delayed, socket/connect/poll/getsockopt, then drain or fail the pending list), CLOSE (drain the in-flight map with ENETDOWN) |
| upRoutine fiber | 449-492 | `_upList`, `_upRoutineHang` | pick a connection, queue the task or register it and `Sender::send` it |
| downRoutine fiber | 494-531 | `_downQueue` of coroutines | `co_resume` each queued caller |
| Pipeline: Encoder / Decoder / Router | 37-145 | stateless, shared | encode a request head and body (fire-and-forget: erase and wake at once); decode a response (look up and erase the call id, parse the body); route (wake the caller) |
| Test client `rpc_routine` | test/rpccli/testrpc_cli.cpp 57-121 | per-coroutine request/response/controller | reset, call, retry while failed |
| MemcachedConnectPool | corpc_memcached/corpc_memcached.cpp | `_idleList`, `_waitingList`, `_realConnectCount`, bounds `_maxConnectNum`, `_maxIdleNum` | `take` (idle, new, or wait), `put` (return, drop on error and reconnect for a waiter) |
| Inner RPC example | example/example_innerRpc/main.cpp | the counters `iFooSuccCnt`…, `log_routine`'s totals | `rpc_routine` (call, count, retry), `log_routine` on the main thread (add to totals, reset); service handlers that build strings |
| UDP echo server | test/echoUdp/server.cpp | none of its own | `fooHandle`, which repeats a string and sends it |
| Generated protobuf code | *.pb.cc | message fields | serialise / parse |

### How they interact

All client fibers and the caller coroutines run on one client thread under a
cooperative scheduler. A fiber switch happens only at `co_yield_ct`,
`co_resume`, and the hooked `sleep`, `poll` and `read` calls. The reactor (IO,
Sender, Receiver) is not part of this repository. It runs the pipeline on
other threads and calls `onClose` when a transport error occurs. These are
the steps of one call:

1. The caller runs `CallMethod`. It appends the task to `_upList` and resumes
   the parked upRoutine.
2. upRoutine calls `getNextConnection`. Then one of two things happens:
   - If the connection is CONNECTING, the task waits in the pending list.
   - If the connection is CONNECTED, the task is inserted into the in-flight
     map and handed to `Sender::send`.
3. The caller yields.
4. On a reactor thread, the Encoder writes the frame.
5. The server replies with the same call id, which is the caller's coroutine
   pointer.
6. The Decoder erases the entry and parses the body.
7. The Router pushes the coroutine onto `_downQueue`.
8. downRoutine resumes the caller.

Failures take two other routes:
- **Connect failure.** The CONNECT handler fails the whole pending list with
  "Connect fail".
- **Transport error.** onClose posts a CLOSE event. The CLOSE handler fails
  the whole in-flight map with `strerror(ENETDOWN)`.

### What is hard

- **Two threads share the in-flight map.** The client thread inserts entries
  and drains them on CLOSE. The reactor threads erase entries, in the Encoder
  for fire-and-forget calls and in the Decoder for replies.
- **A CONNECT yields twice before its outcome is known**, in `sleep` and in
  `co_poll`. Meanwhile upRoutine keeps queueing tasks for that connection.
- **Call ids are reused.** A call id is the caller coroutine, so it is reused
  by the caller's next call, which is often a retry.
- **Messages can be lost or reordered.** Out-of-order replies, lost requests
  and lost responses on a transport error, and a 200 ms connect poll whose
  timeout is taken as success.

### What makes each component correct

- **Engine**
  - Every call completes exactly once, with the reply to that call or a
    failure text. Only then is its caller resumed.
  - No task is lost or duplicated between the containers.
  - The pending list is used only while the connection is CONNECTING.
  - A CLOSED connection holds no task.
  - Each connection object is connected once.
- **Memcached pool**
  - A waiter exists only while no handle is idle.
  - `_realConnectCount` counts the handles in use plus the idle ones, and
    stays within `_maxConnectNum`.
  - Every `take` eventually returns.
  - Two clients never hold the same handle at once (the abstract
    `HandlePool`).
  - `getProxy` builds one Proxy per thread.
- **Framing**
  - Every head field is big-endian on the wire, whatever the host's byte
    order, and the call id comes back unchanged.
  - The Encoder never writes past the space the Sender offers, and every
    request that fits is eventually sent.
- **Call counters**
  - Each completed call is counted exactly once across the log totals and
    the live counters.
  - The average of successful calls per second that example_innerRpc's
    `log_routine` prints is never negative.

## 2. Modules

| Module | Models | Status |
|---|---|---|
| `RpcCall` | Abstract promise of the engine to a caller. A caller goes idle → calling → done → idle. A set of calls completes in one step with one outcome: reply, sent, ConnectFail or ENETDOWN. | written |
| `ClientEngine` | One Channel, its connection objects, the three fibers, the Encoder/Decoder/Router, onClose, a server and the test client's callers. `ImplementsRpcCall` checks it against `RpcCall`. | written |
| `MC_ClientEngine` | Instantiates two caller coroutines as model values. | written |
| `Framing` (+ `MC_Framing`) | The Encoder's space check and request head, and the Decoder's response head, as bytes on a little- or big-endian host. A Sender and a server from the spec's contract; streams read back with a reference big-endian decoding. | written |
| `MemcachedPool` (+ `MC_MemcachedPool`) | take/put of `MemcachedConnectPool` and the Proxy calls, with waiting coroutines and reusable handle addresses | written |
| `HandlePool` | Abstract promise of the pool: a take is answered with a handle no other client holds, or fails, at once or after waiting; a put gives the handle up. `MemcachedPool!ImplementsHandlePool` checks the refinement. | written |
| `EchoHandlers` (+ `MC_EchoHandlers`) | The repeat loop of the UDP echo handler and the example's Foo and Bar services, checked against a closed-form reference | written |
| `CallStats` (+ `MC_CallStats`) | The counters of `rpc_routine` and `log_routine` in testrpc_cli (one thread) and example_innerRpc (two threads) | written |
| `LogRoutine` | example_innerRpc's `log_routine`, a second per step, with its int totals, `time(NULL)` and printed average at the build's int width | written |

### How ClientEngine corresponds to the code

**Variables.** Each variable corresponds to a field of the code:
- `slot`, `conIndex`, `connectDelay` are the Channel's fields. `slot` has
  `NumSlots` entries, and the constructor takes a `connectNum` of 0 as 1.
- `st`, `waitSend`, `waitResult` are indexed by connection object. Objects
  are numbered in creation order, and 0 is nullptr.
- `connQ` is `_connectionTaskQueue` and `downQ` is `_downQueue`.
- `worker` is the connection whose CONNECT connectionRoutine is inside.
- `sendQ`, `wire`, `inbox` and `ioClosed` are the reactor and the server:
  requests not yet encoded, requests held by the server, response frames in
  the socket, and whether onClose was called.
- `pc`, `calls`, `curFF`, `ctrl` and `resp` are each caller's coroutine,
  controller and response object.

**Actions.**
- `RpcRoutine` is the test client's loop body. It resets the controller and
  calls `CallMethod`.
- `CallMethod` includes upRoutine's `Dispatch` and `getNextConnection`
  (`NextIndex`, `Picked`, `NeedsConnect`). This is one step because no yield
  point lies between them.
- A CONNECT is split into `ConnectBegin` (pop the event, then yield) and
  `ConnectFail` or `ConnectOk`.
- The remaining actions are `Close`, `DownResume`, `Encode`, `ServerReply`,
  `Decode` (Decoder and Router) and `TransportFail` (a reactor error followed
  by onClose).
- `Quiescent` is the stuttering end once every caller has made its calls.

### How MemcachedPool corresponds to the code

- `idle`, `waiting`, `realCount` are `_idleList`, `_waitingList` and
  `_realConnectCount`. `live` is the set of handles `memcached_create` made
  and `memcached_free` has not freed. Handles are numbered addresses, so a
  freed address may be reused.
- `cst`, `held` and `puts` are the clients: whether each is free, waiting in
  `take` or holding a handle, and the `put` requests sent but not yet handled.
- `ProxyTake` runs the whole server `take` (`Take`), because the proxy blocks
  for the answer. A take that must wait yields. The rest of it (`Wake`) runs
  inside the `put` that resumes it, since `co_resume` runs the waiter to the
  end of its handler before `put` continues.
- `ProxyPut` only sends the request. `PutIdle`, `PutError` and `PutFull` are
  the three branches of the server's `put`. Each runs atomically: the
  handlers run one at a time on the pool's server thread and do not yield.
- The asserts at lines 127, 158 and 166 are compiled out in a release build,
  so the model continues past them. `NoIdleWhileWaiting` states the
  condition they rely on.
- `proxyMap`, `made` and `snap` model `getProxy`. `proxyMap` holds the
  threads that have an entry in `_threadProxyMap`. `made` counts the Proxy
  objects built for each thread. `snap` is the tree as a client's insert
  located its node.
  - Clients run on `Threads` (`ThreadOf`). Each take first calls `getProxy`.
    If the thread has an entry, `ProxyTake` takes at once.
  - Otherwise the call takes three steps: `NewProxy` (find misses and a Proxy
    is built), `Locate`, then `Link` (the node is linked into the tree as it
    was located).
  - The map has no lock, so threads interleave these steps. Two inserts that
    overlap are modelled by one outcome of that data race: the later link
    drops the other's node.
  - `getProxy` does not yield, so two coroutines of one thread are never
    inside it together.
- `AbsHolder` and `AbsPending` map the clients onto `HandlePool`:
  - a client holds a handle exactly when its `cst` is "holding";
  - a client's take is pending exactly while it waits.
  Creations, frees and puts in flight are stuttering steps of the abstract
  spec.
- Not modelled: the Proxy constructor's body and `create`/`init`. These only
  set up inner-RPC channels and the server.

### How Framing corresponds to the code

- A u32 or u64 value is its sequence of big-endian digits, so a 64-bit call
  id needs no integer wider than TLC's.
- `Store` and `Load` are the native `*(uint32_t *)` stores and loads. `Hton`
  and `Ntoh` are `htonl`/`htonll` and `ntohl`/`ntohll`. On a little-endian
  host each of these reverses the bytes; on a big-endian host each is the
  identity. `le` is chosen in `Init`, so one run checks both kinds of build.
- `Encode` is lines 89-108. It refuses the frame when
  `msgSize + 20 >= space` and leaves `size` at 0. `DecodeHead` is lines 41-44.
- The Sender (`SenderEncode`, `SenderFlush`) and the server are outside this
  repository. They follow the spec: on "not enough space" the Sender flushes
  its buffer and calls the Encoder again.
- `Requests` and `ResponseHeads` read a byte stream with the reference
  decoding `FromBE`, independently of the host.

### How CallStats corresponds to the code

- `cnt` holds the counters (one per service and outcome) and `total` holds
  `log_routine`'s totals. `done` is a ghost count of the calls that completed.
- `StartCall`, `Complete` and `Retry` are the three cases of `rpc_routine`.
  The cases differ only in the service, so `kind` stands for the case.
- `prog` is the program, chosen once in `Init` from `Programs`. With
  `SharedThread` (testrpc_cli) each `++` and `LogAtomic` are single steps,
  because no yield point lies inside them.
- Without it (example_innerRpc), `log_routine` runs on the main thread. That
  is a data race, modelled by its outcomes:
  - an increment is a load (`Complete`) followed by a store (`IncStore`);
  - `log_routine`'s read (`LogRead`) and its reset (`LogReset`) are separate
    steps.
  The callers share one thread, so no two of them are ever inside `++`
  together (`Busy`).

### How LogRoutine corresponds to the code

- One `Tick` is one pass of example_innerRpc's loop (main.cpp lines
  103-125). It covers `sleep(1)`, the additions to `totalSucc` and
  `totalFail`, the reading of `time(NULL)`, the computation of `averageSucc`
  and the reset of the counters.
- The counts a pass adds are taken from `SuccPerSecond` and
  `FailPerSecond`: what the callers completed during that sleep. Their race
  with the callers is `CallStats`' concern.
- `difTime` advances by a member of `Slept`, since `sleep(1)` lasts at least
  a second.
- `AddInt` is `+=` on an int of width `IntMax`. Signed overflow is undefined
  behaviour; the model takes the two's complement wrap that the x86-64 add
  produces. TLC's integers are 32-bit themselves, so `AddInt` computes the
  wrap without leaving the int range.
- `CDiv` is C's division, which truncates toward zero.

## 3. Runs

| Run | cfg | Bounds | Checks | Result |
|---|---|---|---|---|
| engine_safety | ClientEngine.cfg | 2 callers, 2 slots, 3 calls each, 2 failures | TypeOK, TaskInOnePlace, ContainersMatchState, ReplyMatchesEntry, OneConnectPerConnection, ImplementsRpcCall, CallsComplete | pass (~140 s) |
| engine_encode_after_close | ClientEngineEncodeAfterClose.cfg | 2 callers, 2 slots, 2 calls, 2 failures, `EncodeAfterClose = TRUE` | ImplementsRpcCall | violation |
| engine_parse_fail | ClientEngineParseFail.cfg | 2 callers, 2 slots, 2 calls, 2 failures, `ParseMayFail = TRUE` | CallsComplete | violation |
| pool | MemcachedPool.cfg | 4 clients on 2 threads, `_maxConnectNum` 3, `_maxIdleNum` 2 | TypeOK, PoolAccounting, NoIdleWhileWaiting, TakeReturns, ImplementsHandlePool | pass (~50 s) |
| pool_no_idle | MemcachedPoolNoIdle.cfg | as pool, `_maxConnectNum` 2, `_maxIdleNum` 0 | TakeReturns | violation |
| pool_proxy_race | MemcachedPoolProxyRace.cfg | as pool | ProxyPerThread | violation |
| framing | Framing.cfg | 2 requests, bodies of 0 or 3 bytes, 45-byte buffer, both byte orders | TypeOK, RequestFraming, CallIdRoundTrip, AllSent | pass (~40 s) |
| framing_exact_fit | FramingExactFit.cfg | 1 request whose frame is 23 bytes, 23-byte buffer | AllSent | violation |
| echo | EchoHandlers.cfg | texts of up to 3 characters over 2 letters, times -1..3 | EchoText | pass |
| stats | CallStats.cfg | 2 callers, 2 services, 3 calls each; both programs | SharedCountsExact | pass (~35 s) |
| stats_threaded | CallStatsThreaded.cfg | as stats, example_innerRpc only | CountsExact | violation |
| log_overflow | LogRoutineOverflow.cfg | example_innerRpc, 32-bit int, 100000 successful calls a second, one second per sleep, up to one day | AverageNotNegative | violation |

**Why the bounds are enough.** With two slots and two failures, the model
reaches all of these cases:
- a slot closes and is reconnected while the other slot is in use;
- a connect fails with tasks pending;
- a close happens with requests at the server, in the socket, and still in
  the Sender.

Three calls per caller let a caller fail and then retry twice. A retry reuses
its call id, which is what `ReplyMatchesEntry` and the `std::map::insert`
hazard are about. Two callers are enough for out-of-order replies and for a
connection shared by both. A third caller pushes the run past 15 minutes.

**Other bounds.**
- **pool.** Three connections and four clients let three handles be out
  while a fourth client waits. Two idle slots let a put find the idle list
  both with room and full. Error puts with a reconnect that succeeds or fails
  reach both of put's wake paths. With two clients on each of two threads,
  both threads can be inside `getProxy` at once, and a thread's second
  coroutine can find its entry or find it missing.
- **framing.** Two requests of 20 and 23 bytes in a 45-byte buffer reach two
  cases: two frames that fit together, and a frame that forces a flush. The
  ids are chosen so that a missing byte swap changes them.
- **stats.** Three calls per caller give a failure followed by two retries,
  or calls of both services.
- **log_overflow.** One rate and one sleep length make the run a single
  behaviour of a day's seconds. That is enough, because the wrap depends
  only on the calls counted. 100000 calls a second is of the order of 500
  caller coroutines on in-process channels. A lower rate only delays the
  wrap: at 10000 calls a second it comes after about 60 hours.

**Fairness.** `ClientEngine`'s `Fairness` gives weak fairness to these actions:
- connectionRoutine's steps: it blocks on a pipe that is written whenever an
  event is posted;
- downRoutine;
- the Encoder and Decoder: the reactor threads keep running;
- `ServerReply`: the server answers every request. Without this, no call can
  complete, because the engine has no call timeout.

Callers and transport failures get no fairness.

In `MemcachedPool`, the server's put handling is weakly fair, and so is each
client's `ProxyPut`: a client holding a handle returns it. Takes and the
`getProxy` steps get no fairness. No property needs them, and a thread in
`getProxy` cannot block a waiter. In `Framing`, the Sender, the server and the Decoder are weakly
fair. `CallStats` and `LogRoutine` check only invariants.

**What the violations show.**
- **engine_parse_fail.** A body that `ParseFromArray` rejects has already
  been erased from the map (line 64). `decode` then returns `nullptr`
  (line 70), so nothing ever resumes the caller. The spec says the caller is
  resumed in every terminal case.
- **engine_encode_after_close.** The reactor may run the Encoder of a
  fire-and-forget request after onClose. If it does, the CLOSE drain and the
  Encoder both queue the caller, and the caller is resumed twice. The code
  relies on a reactor guarantee that the spec does not state.

- **pool_no_idle.** With `_maxIdleNum = 0`, every `put` takes the
  idle-list-full branch. That branch asserts that nobody waits, decrements
  the count and frees the handle, and resumes no waiter. A coroutine that
  waited in `take` because the pool was exhausted stays suspended for ever.
- **framing_exact_fit.** The Encoder refuses a frame when
  `msgSize + 20 >= space`, but the spec refuses only when the frame is
  larger than the space. A frame that exactly fills an empty buffer is
  refused on every retry, so it is never sent.
- **pool_proxy_race.** Two threads both miss in `_threadProxyMap`. Both
  locate their insert in the empty tree, and the second link drops the first
  thread's node. That thread's next `getProxy` builds a second Proxy, with a
  second inner-RPC Channel, and leaks the first. This is one outcome of the
  unlocked `std::map`; a corrupted tree is another.
- **stats_threaded.** The inner-RPC example's `log_routine` reads the
  counters and later zeroes them from the main thread. An increment that
  falls between the read and the reset is lost.
- **log_overflow.** `totalSucc` is an int that is never reset. After 21475
  seconds at 100000 calls a second it passes `INT_MAX` and wraps to
  -2147467296, and the printed `average:Succ` becomes -99998. It stays
  wrong from then on.

## 4. Not modelled, and why

- **testrpc_cli's int totals.** `test_routine` starts at most 1000000
  `rpc_routine`s, and each counts one success. The success total stays far
  below `INT_MAX`, so `LogRoutine` models only example_innerRpc, whose
  callers loop for ever.

- **The reactor's internals** (poller, Sender and Receiver threads,
  buffering). They are not in this repository. They appear only as the
  environment actions above.
- **The byte layout of bodies.** The protobuf body is an opaque run of
  bytes of the right length. The generated `*.pb.cc` files only call the
  protobuf library's `WireFormatLite`, which does the encoding and is not in
  this repository.
- **Timing.** The one-second reconnect delay and the 200 ms poll are
  modelled as yield points. An expired poll is modelled as a success that may
  later fail.
- **`registerChannel`'s `_channelSet`.** It is written once and never read.
- **Several Channels.** A second Channel adds its own slots, cursor and
  connect-delay flag, and shares only the FIFO event and resume queues and
  the connectionRoutine that serves them in order. Channels affect each
  other only through timing: one channel's one-second reconnect sleep delays
  the events of the others. An untimed model cannot show that delay, and
  one Channel with two slots already has connections sharing the fibers. A
  second Channel would only multiply the states.
- **`Client::create`, `start` and `PipelineFactory::buildPipeline`.** They
  start the three fibers and build each connection's pipeline once.
- **The disabled singleton `Client::instance`.**
- **The setup code of the inner-RPC example and the UDP echo server.** It
  only creates runtime objects whose classes are not in `src/`. Their
  handlers are modelled in `EchoHandlers`. A text is a sequence of model
  values, not bytes.
- **Other outcomes of the `getProxy` race.** A find that reads a half-linked
  tree, or a corrupted tree, is not modelled. The model has only the lost
  insert, which is enough to break the one-proxy-per-thread intent.
- **The generated descriptor and reflection code.**
