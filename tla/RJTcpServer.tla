---------------------------- MODULE RJTcpServer ----------------------------
(***************************************************************************)
(* RJCommon/RJTcpServer: a TCP server on one libuv loop.                   *)
(*                                                                         *)
(* All connections are handled by callbacks on the loop thread.  Other     *)
(* threads only call Send, which queues a buffer under m_send_buf_lock and *)
(* wakes the loop, and Close, which raises a flag and wakes the loop.  The *)
(* name of a connection, in Send and inside the server, is the address of  *)
(* its uv_tcp_client: when that object is freed, the next connection may   *)
(* get the same address.  A connection number tells the two apart here; the *)
(* program has nothing of the kind.                                        *)
(*                                                                         *)
(* libuv is modelled by what this file relies on: a callback runs to its   *)
(* end; uv_async_send is coalesced; writes of a handle complete in order;  *)
(* after uv_close no read is reported, pending writes still report, and    *)
(* the close callback comes last.  A second uv_close of a handle is an     *)
(* assertion failure in libuv; here it is recorded and changes nothing, as *)
(* in a libuv built without assertions.                                    *)
(***************************************************************************)
EXTENDS Integers, Sequences, FiniteSets

CONSTANTS Addrs,      \* addresses the allocator gives to uv_tcp_client objects
          Senders,    \* application threads that call Send
          MaxConns,   \* bound: connections made by peers
          MaxMsgs     \* bound: calls of Send that queue a buffer

ASSUME ServerAssumption == MaxConns \in Nat /\ MaxMsgs \in Nat

VARIABLES handle,     \* "none", "open", "closing", or "closed" without a callback
          closeCb,    \* the pending close will call ClientClose
          conn,       \* the connection whose object is at an address, or 0
          clients,    \* m_clients
          writes,     \* uv_write requests in flight, per handle
          sendBuf,    \* m_send_buf
          sendTemp,   \* sendTemp of AsyncCallBack
          loop,       \* the loop thread: "poll", "swap" and "flush" in AsyncCallBack, "ended"
          async,      \* m_async_handle has been signalled
          infra,      \* m_server and m_async_handle: "open", "closing", "closed"
          isClosing,  \* m_is_closing
          pc,         \* Senders: "idle", or "checked" past the test of m_is_closing
          target,     \* Senders: the connection Send is meant for
          dtor,       \* the destructor: "alive", "drained", "joining", "gone"
          home,       \* history: the address of each connection's object, in order
          msgs,       \* history: how many buffers were queued
          told,       \* history: connections OnNewConnection announced
          left,       \* history: connections OnDisconnection announced
          wrote,      \* history: buffers written to each connection
          meant,      \* history: the connection each buffer was meant for
          freedBuf,   \* history: how often each buffer was freed
          freedObj,   \* history: how often the object of each connection was freed
          cutOff,     \* history: connections with writes pending at WalkCallBack
          twice       \* history: connections closed with uv_close a second time

objVars == <<handle, closeCb, conn, clients, writes>>
queueVars == <<sendBuf, sendTemp, async>>
endVars == <<infra, isClosing, dtor>>
appVars == <<pc, target>>
count == <<home, msgs>>
fate == <<told, left, wrote, meant, freedBuf, freedObj, cutOff, twice>>
vars == <<objVars, queueVars, loop, endVars, appVars, count, fate>>

Conns == 1..MaxConns
Msgs == 1..MaxMsgs

\* After Init has succeeded: the server listens and its thread is in uv_run.
Init == /\ handle = [h \in Addrs |-> "none"]
        /\ closeCb = [h \in Addrs |-> FALSE]
        /\ conn = [h \in Addrs |-> 0]
        /\ clients = {} /\ writes = [h \in Addrs |-> <<>>]
        /\ sendBuf = <<>> /\ sendTemp = <<>> /\ async = FALSE
        /\ loop = "poll" /\ infra = "open"
        /\ isClosing = FALSE /\ dtor = "alive"
        /\ pc = [s \in Senders |-> "idle"]
        /\ target = [s \in Senders |-> 0]
        /\ home = <<>> /\ msgs = 0
        /\ told = {} /\ left = {}
        /\ wrote = [c \in Conns |-> <<>>]
        /\ meant = [n \in Msgs |-> 0]
        /\ freedBuf = [n \in Msgs |-> 0]
        /\ freedObj = [c \in Conns |-> 0]
        /\ cutOff = {} /\ twice = {}

-----------------------------------------------------------------------------
(* Steps several callbacks share. *)

FreeBuf(n) == freedBuf' = [freedBuf EXCEPT ![n] = @ + 1]

\* Mutant: the client is forgotten but its handle is not closed.
Drop_NoClose(h) ==
    /\ clients' = clients \ {h}
    /\ left' = IF h \in clients THEN left \cup {conn[h]} ELSE left
    /\ UNCHANGED <<handle, closeCb, twice>>

\* Mutant: RemoveClient does not tell the application.
Drop_Silent(h) ==
    /\ clients' = clients \ {h}
    /\ IF h \in clients /\ handle[h] = "open"
       THEN /\ handle' = [handle EXCEPT ![h] = "closing"]
            /\ closeCb' = [closeCb EXCEPT ![h] = TRUE]
       ELSE UNCHANGED <<handle, closeCb>>
    /\ UNCHANGED <<left, twice>>

\* RemoveClient (with OnDisconnection), and uv_close if that found the client.
Drop(h) ==
    IF h \in clients
    THEN /\ clients' = clients \ {h}
         /\ left' = left \cup {conn[h]}
         /\ IF handle[h] = "open"
            THEN /\ handle' = [handle EXCEPT ![h] = "closing"]
                 /\ closeCb' = [closeCb EXCEPT ![h] = TRUE]
                 /\ UNCHANGED twice
            ELSE twice' = twice \cup {conn[h]} /\ UNCHANGED <<handle, closeCb>>
    ELSE UNCHANGED <<clients, left, handle, closeCb, twice>>

-----------------------------------------------------------------------------
(* Application threads.  No Send is in progress while the object dies.     *)

\* Send up to the test of m_is_closing, for any client the application has
\* been told of, gone by now or not.
SendCheck(s) ==
    /\ pc[s] = "idle" /\ dtor = "alive" /\ ~isClosing /\ msgs < MaxMsgs
    /\ \E c \in told : target' = [target EXCEPT ![s] = c]
    /\ pc' = [pc EXCEPT ![s] = "checked"]
    /\ UNCHANGED <<objVars, queueVars, loop, endVars, count, fate>>

\* The rest of Send: queue a copy and wake the loop.
SendPush(s) ==
    /\ pc[s] = "checked" /\ msgs < MaxMsgs
    /\ sendBuf' = Append(sendBuf, [n |-> msgs + 1, to |-> home[target[s]]])
    /\ async' = TRUE
    /\ msgs' = msgs + 1
    /\ meant' = [meant EXCEPT ![msgs + 1] = target[s]]
    /\ pc' = [pc EXCEPT ![s] = "idle"]
    /\ UNCHANGED <<objVars, sendTemp, loop, endVars, target, home, told, left, wrote,
                   freedBuf, freedObj, cutOff, twice>>

\* Mutant: the loop is not woken up.
Close_Quiet ==
    /\ ~isClosing /\ isClosing' = TRUE
    /\ UNCHANGED <<objVars, queueVars, loop, infra, dtor, appVars, count, fate>>

Close ==
    /\ ~isClosing /\ isClosing' = TRUE
    /\ async' = TRUE
    /\ UNCHANGED <<objVars, sendBuf, sendTemp, loop, infra, dtor, appVars, count, fate>>

\* Mutant: the queue is emptied without freeing its buffers.
DtorDrain_Leaks ==
    /\ dtor = "alive" /\ \A s \in Senders : pc[s] = "idle"
    /\ sendBuf' = <<>>
    /\ dtor' = "drained"
    /\ UNCHANGED <<objVars, sendTemp, async, loop, infra, isClosing, appVars, count, fate>>

\* The destructor: frees what is still queued,
DtorDrain ==
    /\ dtor = "alive" /\ \A s \in Senders : pc[s] = "idle"
    /\ freedBuf' = [n \in Msgs |-> freedBuf[n] +
                     Cardinality({k \in 1..Len(sendBuf) : sendBuf[k].n = n})]
    /\ sendBuf' = <<>>
    /\ dtor' = "drained"
    /\ UNCHANGED <<objVars, sendTemp, async, loop, infra, isClosing, appVars, count,
                   told, left, wrote, meant, freedObj, cutOff, twice>>

\* calls Close,
DtorClose ==
    /\ dtor = "drained" /\ dtor' = "joining"
    /\ isClosing' = TRUE
    /\ async' = (async \/ ~isClosing)
    /\ UNCHANGED <<objVars, sendBuf, sendTemp, loop, infra, appVars, count, fate>>

\* and, when the thread is joined, deletes the clients that are still listed.
DtorJoin ==
    /\ dtor = "joining" /\ loop = "ended"
    /\ dtor' = "gone"
    /\ freedObj' = [c \in Conns |-> freedObj[c] +
                      Cardinality({h \in clients : conn[h] = c})]
    /\ handle' = [h \in Addrs |-> IF h \in clients THEN "none" ELSE handle[h]]
    /\ UNCHANGED <<closeCb, conn, clients, writes, queueVars, loop, infra, isClosing,
                   appVars, count, told, left, wrote, meant, freedBuf, cutOff, twice>>

-----------------------------------------------------------------------------
(* The loop thread. *)

\* A peer connects and the new object gets a free address.  uv_accept or
\* uv_read_start may fail; the handle is then closed without being listed.
\* (When uv_tcp_init fails nothing is left of the object.)
AcceptConnection ==
    /\ loop = "poll" /\ infra = "open" /\ ~isClosing
    /\ Len(home) < MaxConns
    /\ \E h \in Addrs, listed \in BOOLEAN :
         /\ handle[h] = "none"
         /\ home' = Append(home, h)
         /\ conn' = [conn EXCEPT ![h] = Len(home) + 1]
         /\ handle' = [handle EXCEPT ![h] = IF listed THEN "open" ELSE "closing"]
         /\ closeCb' = [closeCb EXCEPT ![h] = ~listed]
         /\ clients' = IF listed THEN clients \cup {h} ELSE clients
         /\ told' = IF listed THEN told \cup {Len(home) + 1} ELSE told
    /\ UNCHANGED <<writes, queueVars, loop, endVars, appVars, msgs, left, wrote, meant,
                   freedBuf, freedObj, cutOff, twice>>

\* A read reports the end of the stream, an error, or nothing (nread = 0).
HandleMsg(h) ==
    /\ loop = "poll" /\ handle[h] = "open"
    /\ Drop(h)
    /\ UNCHANGED <<conn, writes, queueVars, loop, endVars, appVars, count, told, wrote,
                   meant, freedBuf, freedObj, cutOff>>

\* The connection's BufferReader reports a wrong magic.
OnMsg(h) ==
    /\ loop = "poll" /\ handle[h] = "open"
    /\ Drop(h)
    /\ UNCHANGED <<conn, writes, queueVars, loop, endVars, appVars, count, told, wrote,
                   meant, freedBuf, freedObj, cutOff>>

\* A write has succeeded, perhaps before its handle was closed.
AfterSend(h) ==
    /\ loop = "poll" /\ writes[h] # <<>>
    /\ wrote' = [wrote EXCEPT ![conn[h]] = Append(@, Head(writes[h]))]
    /\ FreeBuf(Head(writes[h]))
    /\ writes' = [writes EXCEPT ![h] = Tail(@)]
    /\ UNCHANGED <<handle, closeCb, conn, clients, queueVars, loop, endVars, appVars,
                   count, told, left, meant, freedObj, cutOff, twice>>

\* A write has failed, or is cancelled because its handle is closing.
AfterSendError(h) ==
    /\ loop = "poll" /\ writes[h] # <<>>
    /\ Drop(h)
    /\ FreeBuf(Head(writes[h]))
    /\ writes' = [writes EXCEPT ![h] = Tail(@)]
    /\ UNCHANGED <<conn, queueVars, loop, endVars, appVars, count, told, wrote, meant,
                   freedObj, cutOff>>

\* The last of a closing handle: its callback, ClientClose or none.
ClientClose(h) ==
    /\ loop = "poll" /\ handle[h] = "closing" /\ writes[h] = <<>>
    /\ IF closeCb[h]
       THEN /\ handle' = [handle EXCEPT ![h] = "none"]
            /\ conn' = [conn EXCEPT ![h] = 0]
            /\ closeCb' = [closeCb EXCEPT ![h] = FALSE]
            /\ freedObj' = [freedObj EXCEPT ![conn[h]] = @ + 1]
       ELSE /\ handle' = [handle EXCEPT ![h] = "closed"]
            /\ UNCHANGED <<conn, closeCb, freedObj>>
    /\ UNCHANGED <<clients, writes, queueVars, loop, endVars, appVars, count, told, left,
                   wrote, meant, freedBuf, cutOff, twice>>

\* Every handle of the loop that is not closing is closed, without callback.
WalkCallBack ==
    /\ infra' = "closing"
    /\ handle' = [h \in Addrs |-> IF handle[h] = "open" THEN "closing" ELSE handle[h]]
    /\ cutOff' = cutOff \cup {conn[h] : h \in {a \in Addrs : handle[a] = "open" /\ writes[a] # <<>>}}
    /\ UNCHANGED <<closeCb, twice>>

\* sendTemp.swap(m_send_buf) under m_send_buf_lock.
TakeQueue ==
    /\ loop = "swap"
    /\ sendTemp' = sendBuf /\ sendBuf' = sendTemp
    /\ loop' = IF sendBuf = <<>> THEN "poll" ELSE "flush"
    /\ UNCHANGED <<objVars, async, endVars, appVars, count, fate>>

\* AsyncCallBack's test: shut down, or go on to the queue.
AsyncCallBack ==
    /\ loop = "poll" /\ infra = "open" /\ async
    /\ async' = FALSE
    /\ \/ /\ isClosing
          /\ WalkCallBack
          /\ UNCHANGED loop
       \/ /\ ~isClosing
          /\ loop' = "swap"
          /\ UNCHANGED <<infra, handle, closeCb, cutOff, twice>>
    /\ UNCHANGED <<conn, clients, writes, sendBuf, sendTemp, isClosing, dtor, appVars,
                   count, told, left, wrote, meant, freedBuf, freedObj>>

\* Mutant: no CheckClient before uv_write.
WriteOne_Unchecked ==
    /\ loop = "flush"
    /\ LET m == Head(sendTemp) IN
       writes' = [writes EXCEPT ![m.to] = Append(@, m.n)]
    /\ sendTemp' = Tail(sendTemp)
    /\ loop' = IF Tail(sendTemp) = <<>> THEN "poll" ELSE "flush"
    /\ UNCHANGED <<handle, closeCb, clients, left, twice, freedBuf, conn, sendBuf, async,
                   endVars, appVars, count, told, wrote, meant, freedObj, cutOff>>

\* One turn of AsyncCallBack's loop: uv_write, unless the client is gone.
WriteOne ==
    /\ loop = "flush"
    /\ LET m == Head(sendTemp) IN
       \/ /\ m.to \in clients
          /\ writes' = [writes EXCEPT ![m.to] = Append(@, m.n)]
          /\ UNCHANGED <<handle, closeCb, clients, left, twice, freedBuf>>
       \/ /\ m.to \in clients          \* uv_write fails at once
          /\ Drop(m.to)
          /\ FreeBuf(m.n)
          /\ UNCHANGED writes
       \/ /\ m.to \notin clients
          /\ FreeBuf(m.n)
          /\ UNCHANGED <<handle, closeCb, clients, left, twice, writes>>
    /\ sendTemp' = Tail(sendTemp)
    /\ loop' = IF Tail(sendTemp) = <<>> THEN "poll" ELSE "flush"
    /\ UNCHANGED <<conn, sendBuf, async, endVars, appVars, count, told, wrote, meant,
                   freedObj, cutOff>>

\* The close of the listening and the async handle is finished.
InfraClosed ==
    /\ loop = "poll" /\ infra = "closing"
    /\ infra' = "closed"
    /\ UNCHANGED <<objVars, queueVars, loop, isClosing, dtor, appVars, count, fate>>

\* RunThread: uv_run returns when no handle is active or closing.
RunThread ==
    /\ loop = "poll" /\ infra = "closed"
    /\ \A h \in Addrs : handle[h] \in {"none", "closed"}
    /\ loop' = "ended"
    /\ UNCHANGED <<objVars, queueVars, endVars, appVars, count, fate>>

-----------------------------------------------------------------------------
\* What libuv must do of itself once it has the work.
LoopStep == \/ AsyncCallBack \/ TakeQueue \/ WriteOne \/ InfraClosed \/ RunThread
            \/ \E h \in Addrs : ClientClose(h)
            \/ \E h \in Addrs : handle[h] = "closing" /\ AfterSendError(h)
DtorStep == DtorClose \/ DtorJoin

Next == \/ \E s \in Senders : SendCheck(s) \/ SendPush(s)
        \/ Close \/ DtorDrain \/ DtorStep
        \/ AcceptConnection
        \/ \E h \in Addrs : HandleMsg(h) \/ OnMsg(h) \/ AfterSend(h) \/ AfterSendError(h)
                             \/ ClientClose(h)
        \/ AsyncCallBack \/ TakeQueue \/ WriteOne \/ InfraClosed \/ RunThread

Spec == Init /\ [][Next]_vars

\* The loop thread runs, and a destructor that has begun goes on.
FairSpec == Spec /\ WF_vars(LoopStep) /\ WF_vars(DtorStep)

-----------------------------------------------------------------------------
Live(h) == handle[h] # "none"

(* The values the state may take; part of ClientsAgree. *)
TypeOK == /\ handle \in [Addrs -> {"none", "open", "closing", "closed"}]
          /\ closeCb \in [Addrs -> BOOLEAN]
          /\ conn \in [Addrs -> 0..MaxConns]
          /\ clients \subseteq Addrs
          /\ writes \in [Addrs -> Seq(Msgs)]
          /\ sendBuf \in Seq([n : Msgs, to : Addrs])
          /\ sendTemp \in Seq([n : Msgs, to : Addrs])
          /\ loop \in {"poll", "swap", "flush", "ended"} /\ async \in BOOLEAN
          /\ loop = "flush" <=> sendTemp # <<>>
          /\ infra \in {"open", "closing", "closed"} /\ isClosing \in BOOLEAN
          /\ pc \in [Senders -> {"idle", "checked"}]
          /\ target \in [Senders -> 0..MaxConns]
          /\ dtor \in {"alive", "drained", "joining", "gone"}
          /\ home \in Seq(Addrs) /\ Len(home) <= MaxConns /\ msgs \in 0..MaxMsgs
          /\ told \subseteq Conns /\ left \subseteq Conns
          /\ wrote \in [Conns -> Seq(Msgs)] /\ meant \in [Msgs -> 0..MaxConns]
          /\ freedBuf \in [Msgs -> Nat] /\ freedObj \in [Conns -> Nat]
          /\ cutOff \subseteq Conns /\ twice \subseteq Conns

(***************************************************************************)
(* No callback meets a freed client: m_clients and every write request in  *)
(* flight (AfterSend reads client->data) name objects that still exist.    *)
(***************************************************************************)
NoUseAfterFree ==
    dtor # "gone" => /\ \A h \in clients : Live(h)
                     /\ \A h \in Addrs : writes[h] # <<>> => Live(h)

(***************************************************************************)
(* While the server works, the open handles are exactly the listed         *)
(* clients: whichever of the five failure paths a connection takes, its    *)
(* handle is closed with it, and no half-dead connection stays behind.     *)
(***************************************************************************)
OpenIffListed ==
    infra = "open" => clients = {h \in Addrs : handle[h] = "open"}

(***************************************************************************)
(* The application hears of the connections that are listed, once each:    *)
(* those announced and not taken back are the clients.                     *)
(***************************************************************************)
ToldIsListed ==
    dtor # "gone" => told \ left = {conn[h] : h \in clients}

(***************************************************************************)
(* The state is well formed, and libuv, m_clients and the application      *)
(* agree on who is connected.                                              *)
(***************************************************************************)
ClientsAgree == TypeOK /\ OpenIffListed /\ ToldIsListed

(***************************************************************************)
(* uv_close is called once per connection (libuv asserts it), but for one  *)
(* way to a second call: the shutdown walk has closed a client that still  *)
(* had writes, and the cancelled write takes it off m_clients (line 185).  *)
(***************************************************************************)
ClosedTwiceOnlyByWalk == twice \subseteq cutOff

(***************************************************************************)
(* Every client object is freed at most once, and none is left when the    *)
(* server is gone, but for those closed twice (they have lost both their   *)
(* close callback and their place in m_clients).                           *)
(***************************************************************************)
ObjectsFreedOnce ==
    \A c \in 1..Len(home) :
        /\ freedObj[c] <= 1
        /\ dtor = "gone" => (freedObj[c] = 1 <=> c \notin twice)

(***************************************************************************)
(* Every buffer of Send is freed exactly once, on whichever of its five    *)
(* ways it ends: written, failed, cancelled, not sent, or never taken.     *)
(***************************************************************************)
BuffersFreedOnce ==
    \A n \in 1..msgs : /\ freedBuf[n] <= 1
                       /\ dtor = "gone" => freedBuf[n] = 1

(***************************************************************************)
(* Client objects and buffers: nothing is freed twice, nothing leaks, but  *)
(* for what the shutdown walk closes twice.                                *)
(***************************************************************************)
FreedOnce == ClosedTwiceOnlyByWalk /\ ObjectsFreedOnce /\ BuffersFreedOnce

(***************************************************************************)
(* A buffer reaches another connection than the one it was meant for only  *)
(* if that one had been reported gone: an address names one connection at  *)
(* a time, so only a Send to a stale pointer can go astray.                *)
(***************************************************************************)
AstrayOnlyIfStale ==
    \A c \in Conns : \A k \in 1..Len(wrote[c]) :
        meant[wrote[c][k]] # c => meant[wrote[c][k]] \in left

(***************************************************************************)
(* A peer receives what was sent to it in the order of the calls of Send.  *)
(***************************************************************************)
WrittenInOrder ==
    \A c \in Conns : \A j, k \in 1..Len(wrote[c]) : j < k => wrote[c][j] < wrote[c][k]

\* The right peer, unless the sender was late, in the right order.
SentAsAsked == AstrayOnlyIfStale /\ WrittenInOrder

(***************************************************************************)
(* Close ends the loop thread, whatever is connected or queued, and a      *)
(* destructor that has begun gets past its join.                           *)
(***************************************************************************)
ShutsDown == /\ isClosing ~> loop = "ended"
             /\ dtor # "alive" ~> dtor = "gone"
=============================================================================
