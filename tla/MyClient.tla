------------------------------ MODULE MyClient ------------------------------
(***************************************************************************)
(* libuvClient_test/MyClient: requests with replies over RJTcpClient.      *)
(*                                                                         *)
(* Three kinds of threads meet here.  Application threads call SyncSend:   *)
(* take an id, register a semaphore that lives on their stack, send, wait  *)
(* with a timeout, take the result, unregister.  The libuv loop thread     *)
(* runs OnMsg: a reply whose id is registered is stored and its semaphore  *)
(* released under m_reqSemLock; every other message goes to                *)
(* m_receiveMsgVec.  The dispatcher thread swaps that vector out and calls *)
(* the application back.  Each step below is one critical section.         *)
(*                                                                         *)
(* A registered semaphore has one waiter, so it behaves as a counter of    *)
(* permits (see RJSemaphore); its Wait may also time out, or wake up       *)
(* spuriously and return RJ_S_OK.                                          *)
(***************************************************************************)
EXTENDS Integers, Sequences, FiniteSets

CONSTANTS Callers,      \* application threads
          MaxId,        \* bound: request ids handed out
          IdLimit,      \* first id that does not fit the 8 digits OnMsg parses (10^8)
          Radix,        \* 10 in the code
          MaxMsgs       \* bound: messages the server sends

ASSUME ClientAssumption == /\ MaxId \in Nat /\ IdLimit \in Nat \ {0}
                           /\ Radix \in Nat \ {0, 1} /\ MaxMsgs \in Nat
                           \* A C int has at most ten digits.
                           /\ MaxId < IdLimit * Radix * Radix

Ids == 1..MaxId

VARIABLES requestId,    \* m_requestIdHelper
          pc, reqId,    \* where each caller is inside SyncSend, and its id
          permits,      \* the count of the semaphore on the caller's stack
          semMap,       \* m_reqSemMap: id -> caller whose semaphore it is
          resultMap,    \* m_reqResultMap: id -> stored reply
          loopPc, hand, \* the loop thread inside OnMsg's second half
          inbox,        \* m_receiveMsgVec
          inboxPermits, \* m_receiveMsgSem
          disp, batch,  \* the dispatcher thread and its temp_bufs
          running,      \* m_is_running
          connected,    \* m_client.m_is_connected
          linked,       \* the TCP connection exists (external)
          asked,        \* ids of the requests the server has received (external)
          wire,         \* messages on their way to the client (external)
          sent,         \* history: messages sent by the server
          outcome,      \* what the caller's SyncSend is going to return
          consumed,     \* history: <<id, message>> returned by SyncSend
          dropped,      \* history: messages thrown away, with the reason
          arrived,      \* history: messages pushed to m_receiveMsgVec
          delivered     \* history: messages handed to the callback

callVars == <<requestId, pc, reqId, permits, outcome, consumed>>
mapVars  == <<semMap, resultMap>>
loopVars == <<loopPc, hand, inboxPermits, arrived>>
dispVars == <<disp, batch, delivered>>
linkVars == <<connected, linked, asked, wire, sent>>
vars == <<callVars, mapVars, loopVars, dispVars, linkVars, inbox, running, dropped>>

Without(f, x) == [z \in DOMAIN f \ {x} |-> f[z]]
With(f, x, y) == [z \in DOMAIN f \cup {x} |-> IF z = x THEN y ELSE f[z]]
Empty == [x \in {} |-> 0]

Init == /\ requestId = 0
        /\ pc = [c \in Callers |-> "idle"] /\ reqId = [c \in Callers |-> 0]
        /\ permits = [c \in Callers |-> 0]
        /\ semMap = Empty /\ resultMap = Empty
        /\ loopPc = "poll" /\ hand = <<>>
        /\ inbox = <<>> /\ inboxPermits = 0
        /\ disp = "wait" /\ batch = <<>>
        /\ running = TRUE /\ connected = FALSE /\ linked = TRUE
        /\ asked = {} /\ wire = <<>> /\ sent = 0
        /\ outcome = [c \in Callers |-> "none"]
        /\ consumed = {} /\ dropped = {} /\ arrived = <<>> /\ delivered = <<>>

Goto(c, l) == pc' = [pc EXCEPT ![c] = l]

-----------------------------------------------------------------------------
(* Application threads: SyncSend and AsyncSend. *)

\* GetNextRequestId and the constructor of the semaphore on the stack.
BeginSync(c) ==
    /\ pc[c] = "idle" /\ requestId < MaxId
    /\ requestId' = requestId + 1
    /\ reqId' = [reqId EXCEPT ![c] = requestId + 1]
    /\ Goto(c, "numbered")
    /\ UNCHANGED <<permits, outcome, consumed, mapVars, loopVars, dispVars,
                   linkVars, inbox, running, dropped>>

Register(c) ==
    /\ pc[c] = "numbered"
    /\ semMap' = With(semMap, reqId[c], c)
    /\ Goto(c, "registered")
    /\ UNCHANGED <<requestId, reqId, permits, outcome, consumed, resultMap,
                   loopVars, dispVars, linkVars, inbox, running, dropped>>

\* Send: RJTcpClient::Send refuses when it is not connected.
SendRequest(c) ==
    /\ pc[c] = "registered"
    /\ IF connected
       THEN /\ asked' = asked \cup {reqId[c]}
            /\ Goto(c, "waiting")
            /\ UNCHANGED outcome
       ELSE /\ outcome' = [outcome EXCEPT ![c] = "error"]
            /\ Goto(c, "leaving")
            /\ UNCHANGED asked
    /\ UNCHANGED <<requestId, reqId, permits, consumed, mapVars, loopVars,
                   dispVars, connected, linked, wire, sent, inbox, running, dropped>>

\* With a permit, or spuriously without one.
WaitReturns(c) ==
    /\ pc[c] = "waiting"
    /\ permits' = [permits EXCEPT ![c] = IF @ > 0 THEN @ - 1 ELSE @]
    /\ Goto(c, "granted")
    /\ UNCHANGED <<requestId, reqId, outcome, consumed, mapVars, loopVars, dispVars,
                   linkVars, inbox, running, dropped>>

\* The timeout may win even when a permit arrives at the same time.
WaitTimesOut(c) ==
    /\ pc[c] = "waiting"
    /\ outcome' = [outcome EXCEPT ![c] = "timeout"]
    /\ Goto(c, "leaving")
    /\ UNCHANGED <<requestId, reqId, permits, consumed, mapVars, loopVars,
                   dispVars, linkVars, inbox, running, dropped>>

\* Mutant: takes the first stored result whatever its id.
TakeResult_First(c) ==
    /\ pc[c] = "granted"
    /\ \E i \in DOMAIN resultMap :
         /\ outcome' = [outcome EXCEPT ![c] = "ok"]
         /\ consumed' = consumed \cup {<<reqId[c], resultMap[i]>>}
         /\ resultMap' = Without(resultMap, i)
    /\ Goto(c, "leaving")
    /\ UNCHANGED <<requestId, reqId, permits, semMap, loopVars, dispVars,
                   linkVars, inbox, running, dropped>>

\* RJ_S_OK without a stored reply leaves errorCode 0 and an empty result.
TakeResult(c) ==
    /\ pc[c] = "granted"
    /\ IF reqId[c] \in DOMAIN resultMap
       THEN /\ outcome' = [outcome EXCEPT ![c] = "ok"]
            /\ consumed' = consumed \cup {<<reqId[c], resultMap[reqId[c]]>>}
            /\ resultMap' = Without(resultMap, reqId[c])
       ELSE /\ outcome' = [outcome EXCEPT ![c] = "empty"]
            /\ UNCHANGED <<consumed, resultMap>>
    /\ Goto(c, "leaving")
    /\ UNCHANGED <<requestId, reqId, permits, semMap, loopVars, dispVars,
                   linkVars, inbox, running, dropped>>

\* Mutant: the tail of SyncSend is skipped when the wait timed out.
Leave_NotAfterTimeout(c) ==
    /\ pc[c] = "leaving"
    /\ semMap' = IF outcome[c] = "timeout" THEN semMap
                 ELSE Without(semMap, reqId[c])
    /\ resultMap' = Without(resultMap, reqId[c])
    /\ dropped' = dropped \cup {<<"late", resultMap[i]>> : i \in {reqId[c]} \cap DOMAIN resultMap}
    /\ reqId' = [reqId EXCEPT ![c] = 0] /\ permits' = [permits EXCEPT ![c] = 0]
    /\ outcome' = [outcome EXCEPT ![c] = "none"]
    /\ Goto(c, "idle")
    /\ UNCHANGED <<requestId, consumed, loopVars, dispVars,
                   linkVars, inbox, running>>

\* The tail of SyncSend: both maps forget the id, then the semaphore dies.
Leave(c) ==
    /\ pc[c] = "leaving"
    /\ semMap' = Without(semMap, reqId[c])
    /\ resultMap' = Without(resultMap, reqId[c])
    /\ dropped' = dropped \cup {<<"late", resultMap[i]>> : i \in {reqId[c]} \cap DOMAIN resultMap}
    /\ reqId' = [reqId EXCEPT ![c] = 0] /\ permits' = [permits EXCEPT ![c] = 0]
    /\ outcome' = [outcome EXCEPT ![c] = "none"]
    /\ Goto(c, "idle")
    /\ UNCHANGED <<requestId, consumed, loopVars, dispVars,
                   linkVars, inbox, running>>

\* AsyncSend draws an id from the same counter and registers nothing.
AsyncSend ==
    /\ requestId < MaxId
    /\ requestId' = requestId + 1
    /\ asked' = IF connected THEN asked \cup {requestId + 1} ELSE asked
    /\ UNCHANGED <<pc, reqId, permits, outcome, consumed, mapVars, loopVars,
                   dispVars, connected, linked, wire, sent, inbox, running, dropped>>

Stop ==
    /\ running
    /\ running' = FALSE
    /\ connected' = FALSE
    /\ UNCHANGED <<callVars, mapVars, loopVars, dispVars, linked, asked, wire, sent,
                   inbox, dropped>>

-----------------------------------------------------------------------------
(* The loop thread: callbacks of RJTcpClient. *)

\* What OnMsg reads back: atoi of the first 8 of up to ten digits of the id.
WireId(i) == IF i < IdLimit THEN i
             ELSE IF i \div Radix < IdLimit THEN i \div Radix
             ELSE (i \div Radix) \div Radix

\* Under m_reqSemLock: store the reply, wake its waiter.
StoreReply(m) ==
    /\ resultMap' = With(resultMap, m.id, m)
    /\ permits' = [permits EXCEPT ![semMap[m.id]] = @ + 1]

\* OnMsg up to its second UnLock.  A message with no value (len <= header)
\* is ignored; an unregistered or zero id falls through to the vector.
OnMsg ==
    /\ loopPc = "poll" /\ wire # <<>>
    /\ LET m == Head(wire) IN
       /\ wire' = Tail(wire)
       /\ \/ /\ m.short
             /\ dropped' = dropped \cup {<<"short", m>>}
             /\ UNCHANGED <<resultMap, permits, loopPc, hand>>
          \/ /\ ~m.short /\ m.id \in DOMAIN semMap
             /\ StoreReply(m)
             /\ dropped' = dropped \cup {<<"again", resultMap[i]>> : i \in {m.id} \cap DOMAIN resultMap}
             /\ UNCHANGED <<loopPc, hand>>
          \/ /\ ~m.short /\ m.id \notin DOMAIN semMap
             /\ hand' = <<m>> /\ loopPc' = "push"
             /\ UNCHANGED <<resultMap, permits, dropped>>
    /\ UNCHANGED <<requestId, pc, reqId, outcome, consumed, semMap,
                   inboxPermits, arrived, dispVars, connected, linked, asked, sent,
                   inbox, running>>

\* RJTcpClient reports the connection; MyClient::OnConnection queues a marker.
ConnMark == [n |-> 0, src |-> 0, id |-> 0, short |-> FALSE]
OnConnection ==
    /\ loopPc = "poll" /\ linked /\ ~connected
    /\ \A k \in 1..Len(arrived) : arrived[k] # ConnMark
    /\ connected' = TRUE
    /\ hand' = <<ConnMark>> /\ loopPc' = "push"
    /\ UNCHANGED <<callVars, mapVars, inboxPermits, arrived, dispVars, linked, asked,
                   wire, sent, inbox, running, dropped>>

\* m_receiveMsgSem is released right after the vector is unlocked; the dispatcher
\* comes every millisecond with or without a permit, so nothing fits in between.
PushInbox ==
    /\ loopPc = "push"
    /\ inbox' = inbox \o hand
    /\ arrived' = arrived \o hand
    /\ inboxPermits' = inboxPermits + 1
    /\ hand' = <<>> /\ loopPc' = "poll"
    /\ UNCHANGED <<callVars, mapVars, dispVars, linkVars, running, dropped>>

-----------------------------------------------------------------------------
(* The dispatcher thread: MsgDespatcher and Handle. *)

\* The loop test, then m_receiveMsgSem.Wait(1): a permit or one millisecond,
\* whichever is first.
DispWait ==
    /\ disp = "wait"
    /\ disp' = IF running THEN "swap" ELSE "stopped"
    /\ inboxPermits' = IF running /\ inboxPermits > 0 THEN inboxPermits - 1
                       ELSE inboxPermits
    /\ UNCHANGED <<callVars, mapVars, loopPc, hand, arrived, batch, delivered, linkVars,
                   inbox, running, dropped>>

\* Mutant: temp_bufs is filled but m_receiveMsgVec keeps its messages.
DispSwap_Copies ==
    /\ disp = "swap"
    /\ batch' = inbox
    /\ disp' = IF inbox = <<>> THEN "wait" ELSE "handle"
    /\ UNCHANGED <<callVars, mapVars, loopVars, delivered, linkVars, inbox, running,
                   dropped>>

DispSwap ==
    /\ disp = "swap"
    /\ batch' = inbox /\ inbox' = batch
    /\ disp' = IF inbox = <<>> THEN "wait" ELSE "handle"
    /\ UNCHANGED <<callVars, mapVars, loopVars, delivered, linkVars, running, dropped>>

\* Handle(iter) for one message; the vector is cleared after the last.
DispHandle ==
    /\ disp = "handle"
    /\ delivered' = Append(delivered, Head(batch))
    /\ batch' = Tail(batch)
    /\ disp' = IF Tail(batch) = <<>> THEN "wait" ELSE "handle"
    /\ UNCHANGED <<callVars, mapVars, loopVars, linkVars, inbox, running, dropped>>

-----------------------------------------------------------------------------
(* The server and the network, seen through TCP: in order, until it is cut. *)

\* A message about request i (its id echoed in the header), a push (i = 0), or
\* one that is too short to have an id.
ServerSends ==
    /\ linked /\ sent < MaxMsgs
    /\ \E i \in asked \cup {0}, b \in BOOLEAN :
          /\ b => i = 0
          /\ wire' = Append(wire, [n |-> sent + 1, src |-> i, id |-> WireId(i), short |-> b])
    /\ sent' = sent + 1
    /\ UNCHANGED <<callVars, mapVars, loopVars, dispVars, connected, linked, asked,
                   inbox, running, dropped>>

\* The connection ends, or the loop closes after Stop.  m_is_connected is not
\* reset by a disconnection.
LinkDown ==
    /\ linked /\ linked' = FALSE
    /\ dropped' = dropped \cup {<<"cut", wire[i]>> : i \in 1..Len(wire)}
    /\ wire' = <<>>
    /\ UNCHANGED <<callVars, mapVars, loopVars, dispVars, connected, asked, sent,
                   inbox, running>>

SyncSend(c) == BeginSync(c) \/ Register(c) \/ SendRequest(c) \/ WaitReturns(c) \/ WaitTimesOut(c)
               \/ TakeResult(c) \/ Leave(c)

Next == \/ \E c \in Callers : SyncSend(c)
        \/ AsyncSend \/ Stop
        \/ OnMsg \/ OnConnection \/ PushInbox
        \/ DispWait \/ DispSwap \/ DispHandle
        \/ ServerSends \/ LinkDown

Spec == Init /\ [][Next]_vars

-----------------------------------------------------------------------------
Messages == [n : 0..MaxMsgs, src : 0..MaxId, id : 0..MaxId, short : BOOLEAN]

(* The values the state may take; part of CallsSound. *)
TypeOK == /\ requestId \in 0..MaxId
          /\ pc \in [Callers -> {"idle", "numbered", "registered", "waiting",
                                 "granted", "leaving"}]
          /\ reqId \in [Callers -> 0..MaxId]
          /\ permits \in [Callers -> 0..MaxMsgs]
          /\ semMap \in UNION {[D -> Callers] : D \in SUBSET Ids}
          /\ DOMAIN resultMap \subseteq Ids
          /\ \A i \in DOMAIN resultMap : resultMap[i] \in Messages
          /\ loopPc \in {"poll", "push"} /\ Len(hand) <= 1
          /\ inboxPermits \in 0..(MaxMsgs + 1)
          /\ disp \in {"wait", "swap", "handle", "stopped"}
          /\ running \in BOOLEAN /\ connected \in BOOLEAN /\ linked \in BOOLEAN
          /\ asked \subseteq Ids /\ sent \in 0..MaxMsgs
          /\ outcome \in [Callers -> {"none", "ok", "empty", "timeout", "error"}]
          /\ \A s \in {wire, hand, inbox, batch, arrived, delivered} :
                 \A k \in 1..Len(s) : s[k] \in Messages

(***************************************************************************)
(* OnMsg releases the semaphore it finds in m_reqSemMap.  The semaphore    *)
(* lives on the stack of SyncSend, so an entry may only exist while its    *)
(* owner is still inside the call that made it, on every path out of it.   *)
(***************************************************************************)
NoDanglingSemaphore ==
    \A i \in DOMAIN semMap :
        /\ reqId[semMap[i]] = i
        /\ pc[semMap[i]] \in {"registered", "waiting", "granted", "leaving"}

(***************************************************************************)
(* A reply that loses the race with its timeout does not stay in           *)
(* m_reqResultMap for ever: results exist only for registered requests.    *)
(***************************************************************************)
NoOrphanResult == DOMAIN resultMap \subseteq DOMAIN semMap

(***************************************************************************)
(* Whenever a result is stored for a caller that is still waiting, its     *)
(* semaphore has a permit: no caller sleeps beside its own answer.         *)
(***************************************************************************)
NoStrandedReply ==
    \A c \in Callers : pc[c] = "waiting" /\ reqId[c] \in DOMAIN resultMap => permits[c] > 0

(***************************************************************************)
(* The state is well formed: m_receiveMsgSem, for one, never holds more    *)
(* permits than messages were queued.  A call that has ended, answered or  *)
(* not, has left nothing in the maps of the client, and no caller sleeps   *)
(* beside its answer.                                                      *)
(***************************************************************************)
CallsSound == TypeOK /\ NoDanglingSemaphore /\ NoOrphanResult /\ NoStrandedReply

(***************************************************************************)
(* The result of a call is the server's answer to that call, or to one     *)
(* whose id did not fit the field OnMsg parses (10^8 and above): such an   *)
(* id is looked up truncated, so its own call is never answered.           *)
(***************************************************************************)
OwnReply == \A p \in consumed : p[1] < IdLimit /\ (p[2].src = p[1] \/ p[2].src >= IdLimit)

Seen(s, n) == Cardinality({k \in 1..Len(s) : s[k].n = n})

(***************************************************************************)
(* The callback sees what OnMsg queued, in that order, without loss.       *)
(***************************************************************************)
InOrder == delivered \o batch \o inbox = arrived

(***************************************************************************)
(* Every message of the server is in exactly one place: on the wire, in    *)
(* the loop thread's hand, stored for its caller, queued, dispatched,      *)
(* returned, or dropped.  In particular a reply is never both returned by  *)
(* SyncSend and handed to the callback, and never handed over twice.       *)
(***************************************************************************)
EachMessageOnce ==
    InOrder /\ \A n \in 1..sent :
        Seen(wire, n) + Seen(hand, n) + Seen(inbox, n) + Seen(batch, n) + Seen(delivered, n)
        + Cardinality({i \in DOMAIN resultMap : resultMap[i].n = n})
        + Cardinality({p \in consumed : p[2].n = n})
        + Cardinality({d \in dropped : d[2].n = n}) = 1

=============================================================================
