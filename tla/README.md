# Verification of TestExamples

TestExamples is a collection of C, C++ and C# programs about sockets, threads and small
algorithms. It has no tests of its own. What is worth verifying in it is the concurrent
code its programs share or are made of: a TCP library over libuv
(`SocketExams/RJCommon`), the request-reply client and the echo server built on it, a
websocket server and client over libwebsockets (`SocketExams/websock_net`), the event
loop of uSockets, a thread pool and a barrier-synchronised sort. This directory holds
TLA+ models of that code, the TLC configurations that check them, and TLAPS proofs about
all of them.

Contents: 1 the system, 2 the modules, 3 the runs, 4 fairness, 5 the proofs, 6 what the
code does wrong, 7 what is not modelled, 8 the plan.

Paths are relative to `src/`. `PROJECT.json` says for every definition which lines it
models, lists every component, every hazard with its line, and, for each property, a
mutant of the model (an operator named `X_Something` next to `X`) that the property
rejects.

## 1. The system

### 1.1 Components, their state and operations

**RJSemaphore** (`SocketExams/RJCommon/RJSemaphore.cpp`). On POSIX a semaphore made of a
mutex, a condition variable and one counter `m_lEventCount`, negative when threads wait.
`Wait(timeout)` counts down and blocks if the result is negative; a timed wait that
expires counts up again. `Release(n)` and `ReleaseAll` count up and signal. Hard: there
is no predicate loop around the wait, the timeout undoes the count in a second step,
signals are not addressed to anybody. Correct when: permits are conserved, a waiter
never sleeps beside a permit, and callers cannot tell it from a counting semaphore.

**Message framing** (`SocketExams/RJCommon/LibUvHelper.h`). `Msg2Package` prepends magic
and size; `BufferReader::SetBuffer` collects chunks as libuv reads them and calls back
with each complete message. State: a growing buffer and a fill index. Hard: a stream is
cut anywhere; the buffer is enlarged at most once per chunk; a wrong magic leaves the
loop with the bad bytes in place. Correct when: messages arrive whole, in order, at
once, and no chunk is copied past the buffer.

**RJTcpServer** (`SocketExams/RJCommon/RJTcpServer.cpp`). One libuv loop thread,
application threads that call `Send` and `Close`. State: `m_clients`, the queue
`m_send_buf`, `m_is_closing`, the handles of libuv and the write requests in flight.
Operations: accept, read, disconnect, write completion, the async callback (shut down or
write the queue out), the closing walk, the destructor. Hard: a client is named by its
address, used after it may be gone and given to another; a connection may fail in five
places and must be closed and freed once; `Close` overtakes queued and running writes.
Correct when: nothing freed is used, every handle is closed once, every object and
buffer freed once, the application's view is the real one, and shutdown ends.

**RJTcpClient** (`SocketExams/RJCommon/RJTcpClient.cpp`). The same for one outgoing
connection, with other rules: `Send` tests `m_is_connected`, the async callback holds
`m_send_lock` while it writes, a failed connection is only reported.

**MyClient** (`SocketExams/libuvClient_test/MyClient.cpp`, with
`RJCommon/RJRequestIdHelper.h`). Requests with replies. `SyncSend` takes an id,
registers a semaphore that lives on its stack in `m_reqSemMap`, sends, waits with a
timeout, takes the reply out of `m_reqResultMap`, unregisters. `OnMsg`, on the loop
thread, stores a reply and releases its semaphore, or queues the message for a
dispatcher thread. Hard: the timeout races the reply over a pointer to a dead stack
frame; replies may be late, doubled, or for ids that do not fit the parsed field.
Correct when: nothing of a call survives it, a caller gets its own answer, every message
is handed to exactly one taker, every call returns.

**MyServer** (`SocketExams/LibuvServer_test/MyServer.cpp`, `MyServer.h`). An echo
service over RJTcpServer: callbacks queue messages with the pointer of their client, a
polling dispatcher answers by that pointer, `Broadcast` walks the clients on the main
thread without the lock. Correct when: messages are despatched once, in order, all of
them, and an answer goes to the asker unless it has left.

**threadpool** (`CXXTest/threadpool_test/ThreadPool.h`). Workers, a task queue, a
condition variable, futures; a destructor that stops and joins. Correct when: tasks are
taken once and in order, none is left beside sleeping workers, the destructor leaves no
future pending and returns.

**concurrent sort** (`CXXTest/concurrent_sort_test/main.cpp`). Shearsort with one thread
per line; main is the barrier between phases, over two condition variables whose signals
are not remembered. Correct when: rows and columns are never sorted at the same time,
the result is sorted along the snake, the program ends.

**websock_net server** (`SocketExams/websock_net/WebsocketServer.cpp`). Any thread
queues records into the entry of a connection in `send_cache_`, under `send_mutex_`, and
raises flags; a service thread collects the flagged entries, asks libwebsockets for
their WRITEABLE callbacks, and there swaps the entry's buffer with its own and writes it
out record by record. State: an entry with a buffer and two flags per connection, the
buffer being sent and the position in it, a global flag, the thread's list of
connections to ask for. Hard: which flag stands for which message while a buffer is
being sent; a write that libwebsockets buffers; the limit of the buffer, past which
everything queued is thrown away and a Close put in its place; connections that end
between collecting and asking. Correct when: no message is left without something that
brings the next callback, a peer gets a beginning of what was sent to it, entries and
connections are the same, and what is sent is written unless the connection ends.

**websock_net client** (`WebsocketClient.cpp`, `WebSock.cpp`, `WebsockThread.cpp`). The
same cache and callback for many WebSocks on one service thread, which also makes the
connections: requests of `Connect` and retries wait in `connect_queue_` and a list of
delayed ones. Hard: a WebSock keeps `wsi_` after its connection has ended and
libwebsockets gives addresses out again; `Close`, the destructor and the automatic
reconnection work on the same flag and entries from different threads. Correct when:
messages go over the connection of their WebSock, every loss is reported, a closed
WebSock stays closed, every request is taken up.

**uSockets** (`SocketExams/uSockets/src`). One thread: a loop waits for a batch of ready
events, dispatches each to a callback of the application, then frees the sockets closed
meanwhile; a timer sweeps all sockets of all contexts. State: a doubly linked list of
sockets per context with an iterator for the sweep, a list of closed sockets, the events
of the batch. Hard: a callback may close, open, time or move to another context, by
reallocation, any socket, the one the loop holds or one whose event is still to come,
in the middle of a sweep or of a batch. Correct when: the lists stay well formed, a
pending event never reaches freed memory, a sweep counts every socket once.

**Others**, not modelled, are in section 7.

### 1.2 How they interact

    main ── MyClient ── RJTcpClient ─ libuv ─ ── ─ libuv ─ RJTcpServer ── MyServer ── main
               │             │        BufferReader      BufferReader │          │
           RJSemaphore     RJLock                                  RJLock     RJLock

A client call goes down by `SyncSend` → `RJTcpClient::Send` → queue → loop thread →
`uv_write`. It comes back by a read callback → `BufferReader` → `MyClient::OnMsg` →
semaphore or dispatcher. On the server a read callback → `BufferReader` →
`MyServer::OnMsg` → queue → dispatcher → `RJTcpServer::Send` → queue → loop thread.
Shared state is always a queue or map under a lock, except for the flags
(`m_is_closing`, `m_is_connected`, `stoped`, `server_updated_`, `has_new_connect_`),
which are tested without one, and `MyServer::m_clients` in `Broadcast`. The threads of
one process meet nowhere else. The websocket pair, uSockets, the pool and the sort use
nothing of RJCommon.

The modules follow that division. Each one replaces its neighbour by what the
neighbour's module shows of it: MyClient takes a semaphore with one waiter for a counter
of permits that may time out or wake up for nothing (RJSemaphore), and the connection
for a lossy ordered channel (RJTcpClient refines LossyFifo); MyServer takes RJTcpServer
for an ordered queue of buffers, each written to whoever has the address by then
(SentAsAsked).

## 2. The modules

| module | models | state that corresponds to the code's |
|---|---|---|
| RJSemaphore | RJSemaphore, POSIX branch | `eventCount` = `m_lEventCount`; sets of threads blocked, woken, expired stand for the condition variable |
| CountingSemaphore | abstract: what RJSemaphore promises | permits, threads waiting |
| BufferReader | `Msg2Package`, `BufferReader` | `reader` = inside `SetBuffer`'s loop or not; `buf`, `cap` = `m_msg_buffer[0..m_index-1]`, `m_buffer_size` |
| RJTcpServer | RJTcpServer | `clients`, `sendBuf`, `sendTemp`, `isClosing` by name; `handle`, `writes`, `async`, `infra` = libuv's side |
| RJTcpClient | RJTcpClient | `isConnected`, `isClosing`, `sendBuf` by name; `handle`, `link`, `writes`, `async` = libuv's side |
| LossyFifo | abstract: what RJTcpClient::Send promises | accepted, transmitted, lost |
| MyClient | MyClient, RJRequestIdHelper | `semMap`, `resultMap`, `inbox` = `m_reqSemMap`, `m_reqResultMap`, `m_receiveMsgVec` |
| MyServer | MyServer | `clients`, `bufs`, `hasNew`, `tempBufs` by name; `despatcher` = where `MsgDespatcher` is; `sendQueue`, `live` = RJTcpServer's queue and connections |
| ThreadPool | threadpool | `tasks`, `stoped`, `idlThrNum` by name; `lock` = `m_lock`; `pc` = where each worker is |
| ConcurrentSort | the sort: the array and the barrier | `array` = `g_arr`; `step` = where each thread is in `thread_func`; `calCount` = `g_cal_count`; `signals` = phases main has closed; `MaxPhase` = `g_max_phase` |
| WebsocketServer | websock_net server | `send_cache_`, `server_updated_`, `updateds`, `stopped_` by name; `inout` = each connection's ServerInOut; `writable`, `partial`, `dying` = libwebsockets' side |
| WebsocketClient | websock_net client | `client_message_cache_`, `connect_queue_`, `delayed_connect`, `has_new_connect_`, `bnew_data_to_send_` by name; `closing` = inside `WebSock::Close`, `retry` = what `check_reconnect` decides about; `up`, `writable`, `dying` = libwebsockets' side |
| USocketsLoop | loop, contexts and sockets of uSockets | the lists and iterators by name; `mem` = the memory of the loop, a field for each field of the code and `mem.epoll` for the pointer the kernel holds; `ready` = the batch, each event with the pointer it carries |
| MCMyClient, MCRJTcpServer, MCUSockets, MCSort | symmetry sets, contexts and arrays for TLC | |
| RJSemaphore_proofs, RJTcpServer_proofs, WebsocketServer_proofs, WebsocketClient_proofs, USocketsLoop_proofs | proofs about the module of that name (section 5) | |
| RJTcpClient_proofs, MyClient_proofs, ThreadPool_proofs | the same, and in a second part proofs about BufferReader, MyServer and ConcurrentSort | |

A module that is proved beside another one has names of its own: BufferReader has
`ReaderInit`, `ReaderNext` and `ReaderSpec`, MyServer `EchoInit` and so on, ConcurrentSort
`SortInit`. The other modules have `Init`, `Next` and `Spec`.

**Granularity.** One action is one critical section, one libuv callback up to where it takes
a lock, or one access to a flag that is not locked. Where the code tests and acts in two
steps without a lock in between, the model has two actions and a control state between them:
`SendCheck`/`SendPush`, `CommitTest`/`CommitPush`/`CommitNotify`, `WaitTest`/`Sleep`,
`StopStore`/`NotifyAll`, `AsyncCallBack`/`TakeQueue`/`WriteOne`, `CloseStore`/`CloseSend`,
`Erase`/`Disconnected`/`TestFirst`/`PutBack`. libuv calls back on one thread and runs each
callback to its end, so the callbacks of a server are atomic towards each other and not
towards the application. The service threads of websock_net are cut where they take and
release the mutex. A send reads `wsi_` and takes the mutex in one step: `wsi_` changes only
when a connection is made, and the sends through an old value are there anyway. A thread of
the sort sorts its line in one step: while the barrier holds nobody touches a line that
crosses it, and when it does not no property speaks of the array. One pair of critical
sections is one step: MyClient's push to `m_receiveMsgVec` and the release of
`m_receiveMsgSem` after it, because the dispatcher comes every millisecond with or without
that permit. uSockets has one thread, but its callbacks are the application's: the loop
stops at each of them in a control state of its own, where any sequence of calls may come
before it returns.

**libuv** is external. What the modules take from its documentation: wake-ups of an
async handle are coalesced; writes of a handle complete in order; after `uv_close` no
read is reported, pending writes still report, the close callback comes last; `uv_run`
returns when no handle is active or closing. The actions marked external in the map are
those, and condition variables' spurious wake-ups.

**libwebsockets** is external too: callbacks of a connection come one at a time on the
service thread; a request for WRITEABLE of an open connection is answered or the
connection ends; after the last callback, WSI_DESTROY, the address may be given out
again. Whether a further WRITEABLE comes by itself once a buffered write has gone out is
the constant `CallsBack` of WebsocketServer (section 6). From the kernel USocketsLoop
takes that `epoll_wait` fills a batch with events of distinct registered sockets.

**History variables.** Several variables have no counterpart in the code (`freedBuf`,
`consumed`, `started`, `told` …). They record what happened so that a property can speak
about it; no guard that models code reads them. The connection numbers of RJTcpServer
and MyServer are of this kind: two connections with one address are the same to the
program, and only the model tells them apart.

## 3. The runs

| run | module | properties | what it asks |
|---|---|---|---|
| sem | RJSemaphore | Conservation, NoLostWakeup, ImplementsSemaphore | three waiters, two of them timed, releases in batches, a spurious wake-up: permits, promptness, and does it implement a counting semaphore? |
| reader | BufferReader | InBounds, MessagesIntact, NothingWithheld | every cut of streams of three packages |
| server | RJTcpServer | NoUseAfterFree, ClientsAgree, FreedOnce, SentAsAsked, ShutsDown | connections, failures, address reuse, Close and destructor at any time |
| tcp_client | RJTcpClient | AfterConnecting, NothingOutlives, IsLossyFifo, ShutsDown | connecting, failing, closing at any time, with two senders |
| client_calls | MyClient | CallsSound, OwnReply, EachMessageOnce | two callers, replies that are late, doubled, pushed unasked or for an id too wide for its field |
| echo | MyServer | EchoesRight, AllDespatched | clients that come, ask, leave, one address used again, a broadcast |
| pool | ThreadPool | FirstComeFirstServed, NoTaskStranded, NoFutureHangs, DtorReturns | two workers, two committers, destructor at any time |
| sort | ConcurrentSort | PhasesApart, SnakeSorted, EndsUnlessStranded | four threads, five phases, the array of `input.txt` and five others, a spurious wake-up |
| ws_server | WebsocketServer | EntriesSound, NothingForgotten, PrefixSent, SentOrGone | senders on any thread against the service thread: address reuse, overflow, buffered writes, closes, messages in pieces, Stop |
| ws_server_whole | WebsocketServer | WholeMessagesReceived (violated) | see section 6 |
| ws_client | WebsocketClient | EntriesSound, RightConnection, NoticeOfLoss, StaysClosed, RequestsTaken | two WebSocks, one of which reconnects, that connect, send, close and are deleted at any time |
| usockets | USocketsLoop | ListsSound, EventsReachMemory, SweepExact | three sockets in two contexts, batches of two events: any callback opens, closes, moves, times and writes to any socket |

The type invariant of a module is a conjunct of one of its properties: of Conservation,
InBounds, ClientsAgree, AfterConnecting, CallsSound, EchoesRight, FirstComeFirstServed,
PhasesApart, EntriesSound (both) and ListsSound. The state spaces have between a few hundred
and 1.7 million states (ws_client); each run ends in a few minutes.

### What they show

*RJSemaphore.* Permits are conserved, and the class is a counting semaphore to its
callers but for glitches: a spurious wake-up returns `RJ_S_OK` without a permit, as
`Wait` has no loop, and CountingSemaphore allows as many of these as there were spurious
wake-ups. What several timed waiters lose is promptness: a second waiter that arrives
between a release and the undo of a first one's timeout stays blocked beside a permit
until the next release. So NoLostWakeup is stated for as long as nobody timed has shared
the semaphore (UsedAsInRepository), which is true of every semaphore of the repository:
each has one waiter.

*BufferReader.* Up to the first `memcpy` of line 165 whose ranges overlap and that goes
wrong (section 6), after which nothing is claimed, the k-th message handed on is the k-th
sent; a package with a wrong magic stops the stream for good, and nothing behind it is taken
for a message; when `SetBuffer` returns no complete message is kept back. The buffer is
never overrun because no chunk is larger than its first size; the assumption `MaxChunk <=
InitCap` is the fact the code relies on (64 kB reads, 1 MB buffer) without saying so.

*RJTcpServer.* libuv, `m_clients` and the application agree on who is connected; every
buffer of `Send` is freed exactly once on each of its five ways (written, failed, cancelled,
not sent, never taken); a message goes to another connection than it was meant for only if
that one had been reported gone; the loop thread ends after `Close`. One thing fails, a
second `uv_close`, which FreedOnce confines to the closing walk: section 6.

*RJTcpClient.* `Send` never reaches a socket that is not connected, though the flag it
tests is raised on one thread and lowered on another; nothing survives the destructor of
a client that had connected; from `Send` to the socket the client is a FIFO that may
lose messages but never repeats or reorders them.

*MyClient.* The pointer into the caller's stack is never left in the map beyond the
call, on any way out of it; a stored reply always comes with a permit; every message of
the server is in exactly one place at all times. Replies to ids from 10^8 on are looked
up under a truncated id: their own calls are never answered, and another call may be
(the run scales the field down: of three ids the third is too wide and is read as 1).

*MyServer.* Messages are despatched once each, in order, and all of them: the vector and
its flag change together under one lock. An echo goes astray only after the asker has
left and its address has been given away. `m_clients` lists exactly the connected
addresses, each once. All this also when a Broadcast on the main thread reads whatever its
iterators find after the loop thread has changed `m_clients` under them: that disturbs who
gets the broadcast, and nothing else, as long as the read itself does not crash.

*WebsocketServer.* Entries exist exactly for open connections, and the thread never asks
for a connection that has been freed, because connections are freed by the same thread.
A message always has a flag, a request or a buffered write behind it; a peer gets a
beginning of what was accepted for it, also over an overflow; everything accepted is
written unless the connection ends, overflows, a Close is before it or the server is
stopped. ws_server_whole shows that a message which arrives in one piece is not handed on
(section 6).

*WebsocketClient.* The properties name the one way in which each goes wrong, the stale
`wsi_`, and show that there is no other: entries and asked-for connections are sound but for
those a WebSock sent through after it had lost them, messages reach another connection only
when they were sent that late, every loss is reported but to those whose entry a late
destructor has erased. Once `Close` has raised `bFirst_` the thread decides on no further
retry; what it had decided or queued before is not taken back (section 6). Requests and
retries after a loss are taken up, all that are queued at once; retries after a failed
attempt may wait (section 6).

*uSockets.* Whatever the callbacks do, the lists stay linked both ways and disjoint, an open
socket is in the list of its context and a closed one in the closed list until the batch is
over; a sweep counts down each socket it finds once, and calls on_timeout for exactly those
that reach zero. An event of the batch reaches memory in use but for four ways the code has
to lose its socket (`astray`, section 6); the run reaches three of them: with any of those
left out of `astray` EventsReachMemory is violated. The fourth needs two more events to wait
at one block, a batch of three. The comment at `loop.c:93` (adopting in the middle of
on_timeout crashes) describes an older state of the code: unlinking moves the iterator
(`context.c:125`).

*ThreadPool, ConcurrentSort.* Order, completeness, the barrier and the sorting hold, the
last two as long as no thread wakes up before its phase is closed: such a thread passes the
barrier, after which rows and columns are sorted at the same time. The array is `Undefined`
from then on, and SnakeSorted claims nothing of it. Termination holds up to the lost signals
of section 6: the properties name the window (`~Between`, `AnyStranded`) and show that
nothing else hangs.

### Bounds

Counters that the code never limits are limited in guards by constants whose comments begin
with "bound": `MaxReleased`, `MaxSpurious`, `MaxFrames`, `MaxConns`, `MaxMsgs`, `MaxReads`,
`MaxId`, `MaxReqs`, `MaxCasts`, `MaxTasks`, `MaxPieces`, `MaxTimeout`, `MaxTimed`,
`MaxUntold`, `MaxReady`. When they are used up the models stop, and a server nobody closes
stops too, so deadlock is not reported in any run; what must end is stated as a liveness
property instead.

* RJSemaphore: three waiters are the fewest in which one is woken, one expires and one
  arrives; batches of two give more signals than waiters; 5 releases leave the counter
  time to come back to its first value; one spurious wake-up.
* BufferReader: head 2, first buffer 4, chunks up to 4, messages of 1 and 7: headers are
  cut in the middle, one chunk ends two messages, one message takes three chunks and two
  enlargements. Three packages put a wrong magic before, between and after good ones.
* RJTcpServer: two addresses and two connections give address reuse (same address twice)
  and two clients at once; three messages give a queue taken by the loop, one in flight
  and one pushed meanwhile. One sender is enough for the races, which are with the loop
  and with Close; two senders differ only in the order of their pushes.
* RJTcpClient: two senders, because its lock is held across steps; three messages for
  the order; two reads for a message and an end.
* MyClient: two callers, so that one id outlives another; three ids (the second call of
  one caller meets the reply of its first, and one id is too wide); two messages (a
  reply and its double, or one reply for each). A wait may wake up spuriously at any
  time, without a bound.
* MyServer: two addresses, three connections (an address used again while the other is
  in use), two requests, one broadcast.
* ThreadPool: two workers and two committers, so that notifications meet none, one and
  two sleepers; three tasks, one more than workers.
* ConcurrentSort: four threads, the size of input.txt and the first power of two that
  needs more than one halving of the dirty rows, with the five phases the code computes
  for it; one spurious wake-up (a thread a phase ahead, main in between). Of the six arrays
  one is that of input.txt, one is sorted backwards, and four consist of zeros and ones and
  are sorted by the last phase only. They go through all interleavings; that the phases sort
  other arrays, too, is the known theorem about shearsort and not what can go wrong here.
* WebsocketServer: one address, two connections, so that the second one has the address
  of the first; three messages of zero or two units (a Ping may be empty) against a buffer
  of six, of which each record takes two more: two fit, three may overflow; two pieces
  received, the fewest that make a message of several. ws_server_whole sends nothing: what
  is received does not depend on it.
* WebsocketClient: two WebSocks and two addresses, so that one's old address becomes the
  other's, and a retry of one waits beside a request of the other; two requests,
  connections and messages or closes: a Close may come at any point of the second
  connection's life, of a retry's or of a failed attempt's.
* USocketsLoop: three sockets, the fewest with one in the middle of a list; two contexts, to
  move between and to sweep one after the other; batches of two events, so that a callback
  meets an event still to come. Timeouts are of one period, and one socket at a time has one
  (MaxTimed): a sweep may still call on_timeout several times, as each call may set the
  timeout of a socket that is still to come. At one time epoll has one socket under a block
  it has left (MaxUntold).

Symmetry is used in three runs without liveness (callers, addresses, sockets' memory), whose
constants are interchangeable: nothing orders or chooses among them.

## 4. Fairness

Runs without liveness use `Spec` (`ReaderSpec`), the others `FairSpec` (`EchoFairSpec`,
`SortFairSpec`). All fairness is weak, but for one case.

* A thread that can run does run: the loop thread (`LoopStep`), the dispatchers, workers
  and sorters. The schedulers of all supported systems give that much.
* libuv finishes what it has begun: closes, cancelled writes, coalesced wake-ups. It is
  not assumed that a peer answers, that a write completes on an open connection or that
  anybody connects.
* A destructor that has begun goes on. Nobody has to call it, nor `Close`.
* The service threads of websock_net go round their loops, and libwebsockets calls
  WSI_DESTROY for a connection it closes.
* SentOrGone alone needs strong fairness: the service thread serves other events too,
  each of which may disable the next WRITEABLE or the flushing of a buffered write for a
  while; lws_service gets to each of them if they come up again and again. It does
  assume that a peer whose connection stays open takes what is written to it.
* Tasks given to the pool return. Spurious wake-ups are never owed, so nothing is live
  only thanks to them.
* Locks are free again after each action that models a critical section, so weak
  fairness is enough for those that wait for one; ThreadPool's `m_lock` is held over
  steps by one worker at a time, whose next step always frees it.

## 5. The proofs

All eleven components are proved for every value of their constants: the refinements and
every safety property that their passing runs check, but for the sorting of the sort
(SnakeSorted). Everything below is checked by TLAPS from the named assumptions of the
modules; nothing else is assumed. Each proof has the same shape. An inductive invariant
`IInv` (`ReaderIInv`, `EchoIInv`, `SortIInv`), a conjunction of named parts, holds initially
and is kept by every step, from a lemma for each action or for each part; so it holds
always, and the properties follow from it. TLC has checked each of these invariants on the
constants of the component's run or larger ones, but for ReaderIInv, which quantifies over
functions.

**RJSemaphore_proofs.** From `SemAssumption` (finitely many threads, natural bounds).
The inductive invariant `IInv` adds to the types the conservation law (Books), a bound
on how far the counter is below the threads not granted a permit: one per spurious
wake-up (Slack), that only timed threads expire (OnlyTimedExpire), and that no wake-up
is lost while nobody timed has shared the semaphore. Books alone is an equation and says
nothing of signs; with Slack the ranges of the types and NoOverdraft follow, and neither
of the two is inductive by itself. `PermitsConserved`, `NoWakeupLost` and
`NeverOverdrawn` are conjuncts or consequences. `Implementation` shows that every step
is a step of CountingSemaphore or stutters, where available permits are `m_lEventCount`
plus the threads not yet granted one, the waiting threads are those not granted, and a
spurious wake-up is a glitch. `NeverOverdrawn` (as many `RJ_S_OK` as permits, but for one
per spurious wake-up) is proved only.

**ThreadPool_proofs.** From `PoolAssumption` (finitely many workers, at least one). The
inductive invariant has the named parts Locked (who is between lock and unlock, and that
there is one at most), CheckedEmpty (a worker past a failed test saw an empty queue and
it still is: commit needs the lock), Idle (`idlThrNum` counts the workers that run
nothing), Order (`started \o tasks` is 1..pushed), Jobs (a running worker's task is one
that was taken), Futures (what each future says of its task) and Gone (after the join
all workers have left). NoTaskStranded follows only with CheckedEmpty: it is what rules
out that a worker goes to sleep beside a task pushed after its test. `TakenInOrder`
(with the types), `NoneStranded`, `FuturesEnd` and `OneInside` follow.

*Its second part, ConcurrentSort.* From `SortAssumption`; main's phases are at least one
(PhasesPositive). PhasesApart says of a thread that sorts how far the others are, and is not
inductive: what holds a thread back is `signals`, the phases main has closed, and what lets
main close one is a count. Without spurious wake-ups InPhase says where each thread can be
relative to `signals`, and Barrier that `g_cal_count` is a whole round for each closed phase
plus the threads that have finished the open one (Ahead). When main prints, that makes Ahead
all threads: a set of threads of full cardinality. `BarrierHolds` follows, for any size.

**RJTcpClient_proofs.** From `ClientAssumption` (natural bounds). Its IInv says where the
loop thread, the handles and the destructor can be relative to each other (Control), what
it takes for a connection to be up or reported (OnLink, Events), and where each accepted
buffer is: in a write, in `m_send_buf` behind those, or freed once (Queued, Books).
WritesOnlyOnLink alone is not inductive: a sender between its test of `m_is_connected` and
its push must be counted among what needs the link, which OnLink does. `Connecting`,
`Outliving` and `Implementation` follow; for the refinement, the abstract state maps to
the messages accepted, those transmitted, and those freed without having been, and each
completion or flush is a step of LossyFifo because the queues rise.

*Its second part, BufferReader.* From `ReaderAssumption` (a header of at least one byte, no
chunk larger than the first buffer). The invariant says that consumed bytes, buffer and
unread bytes are the stream in three pieces (Pieces), and that the packages lie in the
stream at offsets, of which the reader has reached one (Framed). The offsets are an
existentially quantified function that grows with each package sent, so no induction
over the stream is needed. FrontOfBuffer and HeaderOfPackage draw from it what the
reader finds in its buffer; every action has a lemma of its own. `DeliveredIntact`,
`DeliveredAtOnce` and `NeverOverrun` (with the types) follow: for any header, buffer and
message sizes and any cut of the stream, up to the first overlapping `memcpy` that goes wrong
(`reader` = "undefined", in which it takes no further step).

**RJTcpServer_proofs.** From `ServerAssumption` (natural bounds). Control orders the loop,
the closing walk and the destructor; Handles says which states of a handle and of its close
callback go with being in `m_clients`; Named that an address stands for the last
connection made at it; Announced what the application was told. Objects and Cut identify
the connections closed twice as those the walk closed while a write was pending. Queued,
Books, Sent and Meant follow every buffer from `Send` to a connection. Objects is needed
for FreedOnce because "freed once" is not inductive without saying which objects are
still to be freed. `NoDangling`, `Agreement`, `Freeing` and `Sending` follow, for any
number of addresses and senders.

**MyClient_proofs.** From `ClientAssumption`: natural bounds, a field of at least one digit,
and that an id is at most two digits longer than the field, which is what a C `int` and
the eight digits of the head come to. Calls ties each call to its entry in `m_reqSemMap`
and Labels each message on its way to the id that `OnMsg` reads in it. Permits is the heart
of NoStrandedReply: a stored reply implies a permit, and a caller's permits are bounded by
the messages that earned them. Counted says in how many places a message is, place by
place; EachMessageOnce is its sum. `SoundCalls`, `OwnReplies` and `MessagesOnce` follow.

*Its second part, MyServer.* From `EchoAssumption` (finitely many addresses, natural
bounds). EchoOrder numbers the messages in `m_bufs` and the dispatcher's `temp_bufs`, one
after the other, and says that the flag is up exactly when there is something new: without
that `swap` could bring the dispatcher an empty vector. EchoOwners says of each message and
each echo on its way that its connection is still the one at the address or has been
reported gone; only this, and not EchoAstrayOnlyIfGone, which speaks of what has arrived, is
kept by a step that gives the address away. EchoesQueued orders what is queued for the
clients after everything they have. `m_clients` never holds an address twice, so erasing one
entry erases the client (SeqErases), and the end a Broadcast fixes is within the number of
addresses (DistinctFit). `EchoesAlwaysRight` follows, whatever a Broadcast reads once
`m_clients` has changed under it.

**WebsocketServer_proofs.** From `ServerAssumption` (records have a length, and the head of
a Close fits the cache). IInv is the three checked invariants with Turns (how the service
thread and libwebsockets take turns), Named (a connection's number is its own) and Headed
(after an overflow a Close comes first in the entry's buffer). PrefixSent needs Headed: what
is written next is a beginning of what was accepted only if nothing queued behind an
overflow can be. `Entries`, `Remembering` and `Sending` follow.

**WebsocketClient_proofs.** From `ClientAssumption` (WebSocks with `auto_reconnect_` are
WebSocks, the null values are none, natural bounds). The parts added to the checked
invariants are Turns, Making (whose connection is being made), Owned (a `wsi_` that is set
was given with a connection), Addressed (whose connection each queued record is meant for),
Watched (every open connection has an entry that names a WebSock, or is about to get it, or
a destructor erased it) and ClosedFirmly. RightConnection speaks of what was written;
Addressed says it of what still may be, and NoticeOfLoss needs Watched in the same way.
StaysClosed is not inductive: that the thread decides on no further retry for a closed
WebSock needs that its `bFirst_` is still up, which only `__connected` lowers
(ClosedFirmly). `CacheSound`, `OwnConnection`, `LossReported` and `ClosedForGood` follow.

**USocketsLoop_proofs.** From `LoopAssumption` (blocks, contexts and the null value are
apart, as are the words for the loop's own events; natural bounds). What a list holds is
`From`: the least set of blocks that contains the head and is closed under `next`. It is a
definition without recursion, and proofs about it need no induction over the length: a set
that holds the head and is closed holds the list (Least), the list is such a set (Closure),
and a part of it that lacks the head is entered from outside (Entered), which gives the
predecessor of a socket in the middle. From these, each call on the memory (link, unlink,
close, close of a listen socket, adopt, the freeing of the closed) has a lemma that says
what it makes of all the lists. Adopting takes the old block out before it puts the new one
in, so the lemmas speak of the sockets on a list (Listed), which between those two halves
are not the open ones. IInv has the parts Lists (the lists of the contexts hold the open
sockets, `prev` undoes `next`, the closed list holds the closed ones), Sweeping (an iterator
is set only in the list the sweep is at), Pointed (events of the batch and the socket the
loop holds point at memory in use, and no two events at one block, but for the events that
are astray) and Listening (a listen socket is never on the closed list). EventsReachMemory
alone is not inductive: adopting corrects one event, so it has to be known that a second one
at the same block is there only beside one that has gone astray before (ResizeReaching).
ListsSound is not inductive without Sweeping: `unlink` moves the iterator, and it has to be
known that it moves within the same list. `ListsAlwaysSound`, `EventsAlwaysReachMemory` and,
as an action property, `SweepAlwaysExact` follow: whatever a callback does, what a sweep
still has to pass of a context gains nothing and loses only the socket dealt with and those
that leave their place.

Some definitions have the form they have because of the proofs: the records of
WebsocketServer and WebsocketClient are changed by `With`, a callback of the client writes
the records that no Close is before, ConcurrentSort counts the powers of two instead of
halving (FloorLog2) and sorts a line by a recursive function, MyServer erases what
`std::find` finds, index by index, and `From` is a least set instead of a walk.

Only model-checked, because this prover cannot do it: everything under fairness (the
liveness properties ShutsDown, AllDespatched, DtorReturns, EndsUnlessStranded, SentOrGone,
RequestsTaken), and SnakeSorted, which is about data: the sort of a line is a recursive
function over its comparisons, and what the phases make of an array of any size only
inductions give.

## 6. What the code does wrong

Found while modelling; each is a behaviour of the model.

* **RJTcpServer closes a connection twice** (lines 383, 185). `WalkCallBack`
  closes all handles without taking the clients off `m_clients`. A write that was
  pending is then cancelled, `AfterSend` finds the client listed and calls `uv_close`
  again: an assertion failure in libuv, or a leak of the client where assertions are
  off. FreedOnce (its part ClosedTwiceOnlyByWalk) shows that this is the only way.
* **threadpool may hang in its destructor.** `stoped` is set and `notify_all` called
  without `m_lock` (lines 70-71). A worker between the test of its predicate and its
  sleep misses both, and join waits for ever. DtorReturns leaves out exactly this
  window; without its `~Between` TLC shows the hang.
* **threadpool breaks futures.** A task still queued at the stop is never run, and its
  future throws `broken_promise` (NoFutureHangs says "ready or broken").
* **concurrent sort may hang.** Lines 131 and 184 signal without the lock and nobody
  remembers the signal; g_cv is waited for without a predicate. EndsUnlessStranded shows
  that a signal that comes before its receiver sleeps is the only way to hang.
* **concurrent sort counts its phases for powers of two.** Line 152 cuts a logarithm to
  an integer; for nine numbers it gives four phases, the last one of columns, and with
  `Size = 3` SnakeSorted is violated.
* **concurrent sort passes its barrier on a spurious wake-up.** Line 135 waits without a
  predicate. Rows and columns are then sorted at the same time, a data race, and what is
  printed need not be sorted. PhasesApart is stated for runs without such wake-ups,
  SnakeSorted for those in which none lets a thread run ahead.
* **BufferReader copies overlapping memory.** Line 165 of `LibUvHelper.h` moves what follows a
  package to the front of the buffer by `memcpy`. If more bytes follow than the package had,
  which a chunk with a short message before a long one, or with three messages, brings about,
  the ranges overlap and the outcome is undefined; it takes `memmove`. After it the model's
  reader may be "undefined", and MessagesIntact and NothingWithheld say what holds until then.
* **MyServer broadcasts over a vector that changes.** The range-for of `MyServer.h:52` runs on
  the main thread without `m_clientsLock` and holds the iterators it has taken at its
  beginning; a connection or disconnection meanwhile makes them invalid. EchoesRight holds
  whatever they yield.
* **MyClient's ids** do not survive 10^8 calls (OwnReply).
* **websock_net server: messages in one piece are not handed on** (run ws_server_whole).
  `WebsocketServer.h:27` and `WebsocketServerApi.h:22` present `TextReceived` as the
  callback for text data. The first piece of a message leaves the callback before the test
  of its last piece (lines 176-181). A message in one piece stays in `receive_` until one in
  several pieces ends, and goes with it to `TextFrameReceived`, which WebsocketServer leaves
  empty; `TextReceived` and `BinaryReceived` cannot be reached.
* **websock_net server waits for a callback nobody promises.** After a write that
  libwebsockets buffered it asks for no further WRITEABLE (lines 305-315), though
  `libwebsockets.h:4590` tells users to. With `CallsBack = FALSE`, a libwebsockets that
  takes its own word, SentOrGone is violated; NothingForgotten is stated for `TRUE`.
* **websock_net server on overflow** throws away messages whose `SendText` has returned
  success, and the size test leaves the head out (line 547): a buffer that passes it may
  be over the limit at line 259, which closes the connection. After `Stop` sends are
  still accepted.
* **websock_net client keeps `wsi_` after the loss.** Before the first connection it is
  not initialised at all. A send or `Close` through it makes an entry for an address that
  is gone (line 421, with `operator[]`), the thread asks libwebsockets for the freed
  connection (line 689), and if the address is in use again the message or the Close
  meets the other connection (RightConnection and EntriesSound name the case). A
  destructor with an old `wsi_` erases another WebSock's entry, whose loss is then never
  reported nor repaired (NoticeOfLoss).
* **websock_net client leaves failed retries behind.** A connection put back after a
  failed attempt does not raise `has_new_connect_` (lines 592-594, 653-655) and waits for
  an unrelated request (RequestsTaken excepts it). A connection that fails later than
  `lws_client_connect_via_info` is reported by `Disconnected` and never by
  `Connected(false)`.
* **websock_net client connects again after `Close`.** `Close` raises `bFirst_` and takes
  nothing back. A retry that waits in `connect_queue_` or `delayed_connect` is still made. So
  is one the service thread is deciding on: `check_reconnect` tests `First()` without the lock
  (line 115) and queues the retry later (lines 126-129), and a `Close` in between comes too
  late. `Close` while a connection is being made is undone by `__connected`, which lowers
  `bFirst_`, so that the WebSock reconnects when it is lost. StaysClosed says what is left:
  no retry is decided on after the store, until then. It marks the others (`old`).
* **uSockets dispatches stale events.** An event of a batch is dispatched to its socket
  also if an earlier callback of the batch has closed it: `on_writable` or `on_data` come
  after `on_close`. A listen socket is freed at once by `us_listen_socket_close`, so
  closing it in a callback of its own batch, `on_open` of the accept loop above all,
  leaves the loop with freed memory (`astray`; EventsReachMemory excepts it).
* **uSockets leaves events at freed memory when sockets are adopted** (`astray` as well).
  `us_poll_resize` rewrites the event of a socket that `realloc` has moved, but not if the
  event being dispatched carries the same pointer (`epoll.c:75`). The block may belong to
  another socket by then: in the callback of an event at A, one socket is moved away from A,
  a second one from C to A, which makes its pending event say A, and then from A to D; its
  event keeps A, which is free. Where an event has been left behind at a block, another
  socket may come to it with an event of its own, and the rewrite stops at the first of the
  two (`epoll.c:79`). And a socket that polls for nothing is moved without epoll being told
  (`epoll.c:69`), so its errors and hang-ups, which are always reported, carry the old
  pointer.

Read in the code of uSockets and beyond its model: reading a socket closed in the batch
reads the descriptor's next owner if the number was given out again; a write on a socket
that is still connecting makes the loop take it for a listen socket;
`us_socket_context_free` does not unlink the context from the loop's list.

## 7. What is not modelled

* RJSemaphore on Windows: calls to kernel semaphores. RJLock, RJSpinLock: taken as
  mutual exclusion by all modules.
* What a Broadcast's invalid iterators may do beyond reading a wrong address or none: crash,
  or go on behind the end it has fixed. MyServer takes messages for complete: MyClient never
  sends one shorter than its head.
* RJTcpServer before and after a failed `Init`; RJTcpClient's `OnError` called with
  `m_send_lock` held when the callback sends again (it would deadlock on itself;
  MyClient's callback does not send). Both are among the hazards, with this reason.
* websock_net client: receiving, the size of buffers and buffered writes are the
  server's code over again, and modelled there. Pongs and the filter of addresses change
  no state.
* uSockets: poll masks but for whether epoll knows the block a socket is in, of writes
  all but that they poll anew, shutdown, reuse of descriptors, several listen
  sockets, contexts made or freed in a run, the SSL layer, the libuv back end.
* Addresses in bind and connect, log output, the contents of messages.
* The uvpp programs (`Uvpp`, `LibuvServer_uvpp`, `libuvClient_uvpp`): unfinished. Their
  common `TcpConnection::input` (`TcpConnection.cpp:33`) takes a character for a pointer
  on a long read and spins on a short one, and what it sends is a constant; a model of it
  would have nothing to promise.
* `websocketpp_server`: a queue and a worker as in MyServer and MyClient. Its `Stop`
  deletes the server before it joins the worker, which is among the hazards; what follows
  from that is inside websocketpp.
* `mongoose_http_client` (one request at a time on one thread), the helpers of
  `uWebSocketsServer` (demos of the library), `graph_test` and the other C# programs
  (handlers of a window on one thread; in `graph_test` a point that is moved joins the
  selection whether or not it was selected, `MainWindow.xaml.cs:66`).
* RJTimer, RJSysUtil: sequential helpers. The main programs, the language demos
  (`basic_test`, `black_scholes_test`, `branch_predicton_test`, `template_test`,
  `DynamicCreate`, `test1`, `c++17_test`), `curl_client` and `mongoose_http_server`: no
  state beyond one function, or single calls of a library.
* Vendored code: everything under `SocketExams/3rdLib` and `CsharpExams/packages`.

## 8. The plan

The components worth a model have one. Each property is about a hazard, each run finishes in
a few minutes with two or three actors, and each safety property that holds, but for
SnakeSorted, is a theorem for any number of them. What would come next follows the code:
RJTcpServer with a failed `Init`, several listen sockets and poll masks in USocketsLoop, the
Windows branch of RJSemaphore.
