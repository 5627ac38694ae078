---------------------------- MODULE RJTcpClient ----------------------------
(***************************************************************************)
(* RJCommon/RJTcpClient: one outgoing TCP connection on a libuv loop.      *)
(*                                                                         *)
(* As in RJTcpServer, Send queues a buffer and wakes the loop thread, and  *)
(* Close raises a flag and wakes it.  Unlike there, AsyncCallBack keeps    *)
(* m_send_lock while it writes the queue out; Send is guarded by           *)
(* m_is_connected, not by m_is_closing; a failed write or a broken         *)
(* connection is only reported, never closed; and the object can be used   *)
(* once: Connect makes the handles and starts the thread, or fails.        *)
(***************************************************************************)
EXTENDS Integers, Sequences, FiniteSets

CONSTANTS Senders,    \* application threads that call Send
          MaxMsgs,    \* bound: calls of Send that queue a buffer
          MaxReads    \* bound: read callbacks

ASSUME ClientAssumption == MaxMsgs \in Nat /\ MaxReads \in Nat

VARIABLES phase,       \* "fresh", "running", or "failed" when Connect returned an error
          isConnected, \* m_is_connected
          isClosing,   \* m_is_closing
          handle,      \* m_uv_client and m_async_handle: "none", "open", "closing", "closed"
          link,        \* the connection: "none", "pending", "up", "failed" (external)
          reading,     \* "off", "on", or "broken" after a wrong magic (see BufferReader)
          async,       \* m_async_handle has been signalled
          sendBuf,     \* m_send_buf
          loop,        \* the loop thread: "none", "poll", "lock" (before m_send_lock),
                       \* "flush" (holding it), "ended"
          writes,      \* uv_write requests in flight
          pc,          \* Senders: "idle", or "checked" past the test of m_is_connected
          dtor,        \* the destructor: "alive", "drained", "joining", "gone"
          msgs, reads, \* history: how many buffers were queued, how many reads reported
          events,      \* history: what m_callback was called with
          through,     \* history: buffers written to the connection
          freedBuf     \* history: how often each buffer was freed

flags == <<isConnected, isClosing>>
uv == <<handle, link, reading>>
queues == <<async, sendBuf, writes>>
fate == <<through, freedBuf>>
vars == <<phase, flags, uv, queues, loop, pc, dtor, msgs, reads, events, fate>>

Msgs == 1..MaxMsgs

Init == /\ phase = "fresh"
        /\ isConnected = FALSE /\ isClosing = FALSE
        /\ handle = "none" /\ link = "none" /\ reading = "off"
        /\ async = FALSE /\ sendBuf = <<>> /\ writes = <<>>
        /\ loop = "none" /\ dtor = "alive"
        /\ pc = [s \in Senders |-> "idle"]
        /\ msgs = 0 /\ reads = 0 /\ events = <<>>
        /\ through = {} /\ freedBuf = [n \in Msgs |-> 0]

Report(e) == events' = Append(events, e)
FreeBuf(n) == freedBuf' = [freedBuf EXCEPT ![n] = @ + 1]

-----------------------------------------------------------------------------
(* The application. *)

\* Mutant: connected as soon as uv_tcp_connect has returned.
Connect_Early ==
    /\ phase = "fresh" /\ dtor = "alive" /\ ~isClosing
    /\ phase' = "running" /\ handle' = "open"
    /\ link' = "pending" /\ loop' = "poll"
    /\ isConnected' = TRUE
    /\ UNCHANGED <<isClosing, reading, queues, pc, dtor, msgs, reads, events, fate>>

\* Any of the calls in Connect may fail; the handles made so far stay.
Connect ==
    /\ phase = "fresh" /\ dtor = "alive" /\ ~isClosing
    /\ \/ /\ phase' = "running" /\ handle' = "open"
          /\ link' = "pending" /\ loop' = "poll"
       \/ /\ phase' = "failed" /\ handle' \in {"none", "open"}
          /\ UNCHANGED <<link, loop>>
    /\ UNCHANGED <<flags, reading, queues, pc, dtor, msgs, reads, events, fate>>

SendCheck(s) ==
    /\ pc[s] = "idle" /\ dtor = "alive" /\ isConnected /\ msgs < MaxMsgs
    /\ pc' = [pc EXCEPT ![s] = "checked"]
    /\ UNCHANGED <<phase, flags, uv, queues, loop, dtor, msgs, reads, events, fate>>

Queue ==
    /\ sendBuf' = Append(sendBuf, msgs + 1)
    /\ msgs' = msgs + 1

\* Send past its test: under m_send_lock, which AsyncCallBack may hold.
SendPush(s) ==
    /\ pc[s] = "checked" /\ loop # "flush" /\ msgs < MaxMsgs
    /\ Queue
    /\ async' = TRUE
    /\ pc' = [pc EXCEPT ![s] = "idle"]
    /\ UNCHANGED <<phase, flags, uv, writes, loop, dtor, reads, events, fate>>

\* Two stores and uv_async_send.  A Send that falls between the stores is the
\* same as one before them.  (Without Connect the async handle is garbage.)
Close ==
    /\ ~isClosing /\ dtor = "alive"
    /\ isClosing' = TRUE /\ isConnected' = FALSE
    /\ async' = TRUE
    /\ UNCHANGED <<phase, uv, sendBuf, writes, loop, pc, dtor, msgs, reads, events, fate>>

\* The destructor, when no Send is in progress: frees what is queued,
DtorDrain ==
    /\ dtor = "alive" /\ loop # "flush" /\ \A s \in Senders : pc[s] = "idle"
    /\ dtor' = "drained"
    /\ isConnected' = FALSE
    /\ freedBuf' = [n \in Msgs |-> freedBuf[n] +
                     Cardinality({k \in 1..Len(sendBuf) : sendBuf[k] = n})]
    /\ sendBuf' = <<>>
    /\ UNCHANGED <<phase, isClosing, uv, async, writes, loop, pc, msgs, reads, events,
                   through>>

\* Mutant: relies on an earlier Close having woken the loop.
DtorClose_Quiet ==
    /\ dtor = "drained" /\ dtor' = "joining"
    /\ isClosing' = TRUE /\ isConnected' = FALSE
    /\ UNCHANGED <<phase, uv, queues, loop, pc, msgs, reads, events, fate>>

\* calls Close,
DtorClose ==
    /\ dtor = "drained" /\ dtor' = "joining"
    /\ isClosing' = TRUE
    /\ isConnected' = (isConnected /\ isClosing)
    /\ async' = (async \/ ~isClosing)
    /\ UNCHANGED <<phase, uv, sendBuf, writes, loop, pc, msgs, reads, events, fate>>

\* Mutant: the thread is detached.
DtorJoin_Detaches ==
    /\ dtor = "joining"
    /\ dtor' = "gone"
    /\ UNCHANGED <<phase, flags, uv, queues, loop, pc, msgs, reads, events, fate>>

\* and joins the thread if Connect has started one.
DtorJoin ==
    /\ dtor = "joining" /\ loop \in {"none", "ended"}
    /\ dtor' = "gone"
    /\ UNCHANGED <<phase, flags, uv, queues, loop, pc, msgs, reads, events, fate>>

-----------------------------------------------------------------------------
(* The loop thread. *)

\* The connection is made and read from; or refused, or cancelled by uv_close,
\* or cannot be read.  Nothing here looks at m_is_closing.
HandleConnection ==
    /\ loop = "poll" /\ link = "pending"
    /\ \/ /\ handle = "open"
          /\ link' = "up" /\ reading' = "on"
          /\ isConnected' = TRUE
          /\ Report("conn")
       \/ /\ handle = "open"
          /\ link' = "up"
          /\ Report("err")
          /\ UNCHANGED <<reading, isConnected>>
       \/ /\ link' = "failed"
          /\ Report("err")
          /\ UNCHANGED <<reading, isConnected>>
    /\ UNCHANGED <<phase, isClosing, handle, queues, loop, pc, dtor, msgs, reads, fate>>

\* Data with a message or with a wrong magic; or nread <= 0: the end of the
\* stream, after which libuv reads no more, or just nothing (nread = 0).
HandleMsg ==
    /\ loop = "poll" /\ handle = "open" /\ reading # "off" /\ reads < MaxReads
    /\ reads' = reads + 1
    /\ \/ reading = "on" /\ Report("msg") /\ UNCHANGED reading
       \/ reading' = "broken" /\ Report("err")
       \/ reading' = "off" /\ Report("disc")
       \/ Report("disc") /\ UNCHANGED reading
    /\ UNCHANGED <<phase, flags, handle, link, queues, loop, pc, dtor, msgs, fate>>

\* AsyncCallBack's test: CloseAll, or go for the lock.
AsyncCallBack ==
    /\ loop = "poll" /\ handle = "open" /\ async
    /\ async' = FALSE
    /\ \/ /\ isClosing /\ handle' = "closing"
          /\ UNCHANGED loop
       \/ /\ ~isClosing /\ loop' = "lock"
          /\ UNCHANGED handle
    /\ UNCHANGED <<phase, flags, link, reading, sendBuf, writes, pc, dtor, msgs, reads,
                   events, fate>>

AsyncLock ==
    /\ loop = "lock"
    /\ loop' = IF sendBuf = <<>> THEN "poll" ELSE "flush"
    /\ UNCHANGED <<phase, flags, uv, queues, pc, dtor, msgs, reads, events, fate>>

\* Mutant: the buffer of a write that failed at once goes back to be retried.
WriteOne_Requeues ==
    /\ loop = "flush"
    /\ \/ writes' = Append(writes, Head(sendBuf)) /\ sendBuf' = Tail(sendBuf)
       \/ sendBuf' = Append(Tail(sendBuf), Head(sendBuf)) /\ UNCHANGED writes
    /\ loop' = IF sendBuf' = <<>> THEN "poll" ELSE "flush"
    /\ UNCHANGED <<phase, flags, uv, async, pc, dtor, msgs, reads, events, fate>>

\* One turn of the loop in AsyncCallBack; a failure is reported with the lock held.
WriteOne ==
    /\ loop = "flush"
    /\ sendBuf' = Tail(sendBuf)
    /\ \/ writes' = Append(writes, Head(sendBuf)) /\ UNCHANGED <<events, freedBuf>>
       \/ Report("err") /\ FreeBuf(Head(sendBuf)) /\ UNCHANGED writes
    /\ loop' = IF Tail(sendBuf) = <<>> THEN "poll" ELSE "flush"
    /\ UNCHANGED <<phase, flags, uv, async, pc, dtor, msgs, reads, through>>

AfterSend(ok) ==
    /\ loop = "poll" /\ writes # <<>>
    /\ IF ok
       THEN through' = through \cup {Head(writes)} /\ UNCHANGED events
       ELSE Report("err") /\ UNCHANGED through
    /\ FreeBuf(Head(writes))
    /\ writes' = Tail(writes)
    /\ UNCHANGED <<phase, flags, uv, async, sendBuf, loop, pc, dtor, msgs, reads>>

\* Both handles are closed, after the requests of the socket have reported.
HandlesClosed ==
    /\ loop = "poll" /\ handle = "closing" /\ link # "pending" /\ writes = <<>>
    /\ handle' = "closed"
    /\ UNCHANGED <<phase, flags, link, reading, queues, loop, pc, dtor, msgs, reads,
                   events, fate>>

\* RunThread: uv_run returns when nothing is left in the loop.
RunThread ==
    /\ loop = "poll" /\ handle = "closed"
    /\ loop' = "ended"
    /\ UNCHANGED <<phase, flags, uv, queues, pc, dtor, msgs, reads, events, fate>>

LoopStep == \/ AsyncCallBack \/ AsyncLock \/ WriteOne \/ HandlesClosed \/ RunThread
            \/ handle = "closing" /\ (HandleConnection \/ AfterSend(FALSE))
DtorStep == DtorClose \/ DtorJoin

Next == \/ Connect \/ Close \/ DtorDrain \/ DtorStep
        \/ \E s \in Senders : SendCheck(s) \/ SendPush(s)
        \/ HandleConnection \/ HandleMsg
        \/ AsyncCallBack \/ AsyncLock \/ WriteOne
        \/ \E ok \in BOOLEAN : AfterSend(ok)
        \/ HandlesClosed \/ RunThread

Spec == Init /\ [][Next]_vars

\* The loop thread runs; a destructor that has begun goes on.
FairSpec == Spec /\ WF_vars(LoopStep) /\ WF_vars(DtorStep)

(* The values the state may take; part of AfterConnecting. *)
TypeOK == /\ phase \in {"fresh", "running", "failed"}
          /\ isConnected \in BOOLEAN /\ isClosing \in BOOLEAN
          /\ handle \in {"none", "open", "closing", "closed"}
          /\ link \in {"none", "pending", "up", "failed"}
          /\ reading \in {"off", "on", "broken"}
          /\ async \in BOOLEAN
          /\ sendBuf \in Seq(Msgs) /\ writes \in Seq(Msgs)
          /\ loop \in {"none", "poll", "lock", "flush", "ended"}
          /\ loop = "flush" => sendBuf # <<>>
          /\ pc \in [Senders -> {"idle", "checked"}]
          /\ dtor \in {"alive", "drained", "joining", "gone"}
          /\ msgs \in 0..MaxMsgs /\ reads \in 0..MaxReads
          /\ events \in Seq({"conn", "err", "msg", "disc"})
          /\ through \subseteq Msgs /\ freedBuf \in [Msgs -> Nat]

(***************************************************************************)
(* Send relies on m_is_connected to keep uv_write off a socket that is not *)
(* connected: whatever is queued or being written, the connection had been *)
(* made, although the flag is raised and lowered by different threads.     *)
(***************************************************************************)
WritesOnlyOnLink == sendBuf # <<>> \/ writes # <<>> => link = "up"

(***************************************************************************)
(* Every buffer of Send is freed exactly once, however it ends.            *)
(***************************************************************************)
BuffersFreedOnce ==
    \A n \in 1..msgs : /\ freedBuf[n] <= 1
                       /\ dtor = "gone" => freedBuf[n] = 1

(***************************************************************************)
(* MyClient counts on ON_CONNECTION coming first: no message and no        *)
(* disconnection is reported before it, and it is reported once.           *)
(***************************************************************************)
ConnectionFirst ==
    \A k \in 1..Len(events) :
        /\ events[k] \in {"msg", "disc"} => \E j \in 1..(k - 1) : events[j] = "conn"
        /\ events[k] = "conn" => k = 1

(***************************************************************************)
(* The state is well formed, and what needs a connection happens once      *)
(* there is one.                                                           *)
(***************************************************************************)
AfterConnecting == TypeOK /\ WritesOnlyOnLink /\ ConnectionFirst

(***************************************************************************)
(* The destructor leaves no handle of a connected client in the loop: they *)
(* are members of the object that is being destroyed.                      *)
(***************************************************************************)
NoHandleOutlives == dtor = "gone" /\ phase = "running" => handle = "closed"

\* The destructor leaves neither a buffer nor a handle behind.
NothingOutlives == BuffersFreedOnce /\ NoHandleOutlives

Fifo == INSTANCE LossyFifo WITH
            accepted <- msgs,
            through <- through,
            lost <- {n \in 1..msgs : freedBuf[n] > 0} \ through

(***************************************************************************)
(* From Send to the socket the client is a FIFO that may lose messages.    *)
(***************************************************************************)
IsLossyFifo == Fifo!Spec

(***************************************************************************)
(* Close ends the thread, and a destructor that has begun finishes.        *)
(***************************************************************************)
ShutsDown == /\ isClosing /\ phase = "running" ~> loop = "ended"
             /\ dtor # "alive" ~> dtor = "gone"
=============================================================================
