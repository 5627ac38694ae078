------------------------- MODULE RJTcpClient_proofs -------------------------
(***************************************************************************)
(* Proofs about RJTcpClient for any senders and any bounds on messages and *)
(* reads, and, in the second part, about the BufferReader that it gives    *)
(* what it reads to.                                                       *)
(*                                                                         *)
(* The inductive invariant says where the loop thread, the handles and the *)
(* destructor can be relative to each other (Control), what the link being *)
(* up or not yet made implies (OnLink, Events), and where each accepted    *)
(* buffer is: in writes, in sendBuf behind those, or freed once (Queued,   *)
(* Books).  LossyFifo's pending messages are the ones that are not freed.  *)
(***************************************************************************)
EXTENDS RJTcpClient, BufferReader, FiniteSetTheorems, SequenceTheorems, TLAPS

Elems(s) == {s[k] : k \in 1..Len(s)}
Rising(s) == \A j, k \in 1..Len(s) : j < k => s[j] < s[k]

Control ==
    /\ phase = "running" <=> loop # "none"
    /\ phase # "running" => link = "none"
    /\ phase = "running" => handle # "none"
    /\ loop \in {"lock", "flush"} => handle = "open"
    /\ loop = "ended" => handle = "closed"
    /\ handle = "closed" => writes = <<>>
    /\ dtor # "alive" => sendBuf = <<>> /\ \A s \in Senders : pc[s] = "idle"
    /\ dtor = "gone" => loop \in {"none", "ended"}

OnLink == isConnected \/ sendBuf # <<>> \/ writes # <<>> \/ (\E s \in Senders : pc[s] = "checked")
             => link = "up"

Events == /\ link \in {"none", "pending"} => events = <<>>
          /\ reading # "off" => events # <<>> /\ events[1] = "conn"
          /\ \A k \in 1..Len(events) :
                /\ events[k] \in {"msg", "disc"} => k > 1 /\ events[1] = "conn"
                /\ events[k] = "conn" => k = 1

Queued == /\ Rising(writes) /\ Rising(sendBuf)
          /\ \A m \in Elems(writes), n \in Elems(sendBuf) : m < n
          /\ \A n \in Elems(writes) \cup Elems(sendBuf) : n <= msgs

InFlight == Elems(writes) \cup Elems(sendBuf)

Books == /\ \A n \in Msgs : freedBuf[n] = IF n <= msgs /\ n \notin InFlight THEN 1 ELSE 0
         /\ \A n \in through : n <= msgs /\ n \notin InFlight

IInv == TypeOK /\ Control /\ OnLink /\ Events /\ Queued /\ Books

-----------------------------------------------------------------------------
(* Sequences of buffers. *)

LEMMA HeadFirst ==
    ASSUME NEW S, NEW s \in Seq(S), s # <<>>
    PROVE  /\ Len(s) \in Nat \ {0} /\ Head(s) = s[1]
           /\ Head(s) \in S /\ Tail(s) \in Seq(S)
           /\ Elems(s) = {Head(s)} \cup Elems(Tail(s))
<1>1. Len(s) \in Nat \ {0} /\ Head(s) = s[1]
  BY EmptySeq
<1>2. /\ Head(s) \in S /\ Tail(s) \in Seq(S) /\ Len(Tail(s)) = Len(s) - 1
      /\ \A i \in 1..Len(Tail(s)) : Tail(s)[i] = s[i + 1]
  BY HeadTailProperties
<1>3. Elems(Tail(s)) = {s[i + 1] : i \in 1..(Len(s) - 1)}
  BY <1>2 DEF Elems
<1>4. Elems(s) = {s[1]} \cup {s[i + 1] : i \in 1..(Len(s) - 1)}
  <2>1. ASSUME NEW k \in 1..Len(s), k # 1
        PROVE  \E i \in 1..(Len(s) - 1) : s[k] = s[i + 1]
    BY <1>1, <2>1, k - 1 \in 1..(Len(s) - 1), (k - 1) + 1 = k
  <2>2. ASSUME NEW i \in 1..(Len(s) - 1)
        PROVE  i + 1 \in 1..Len(s)
    BY <1>1
  <2>3. 1 \in 1..Len(s)
    BY <1>1
  <2>4. QED
    BY <2>1, <2>2, <2>3 DEF Elems
<1>5. QED
  BY <1>1, <1>2, <1>3, <1>4

LEMMA RisingTail ==
    ASSUME NEW s \in Seq(Msgs), s # <<>>, Rising(s)
    PROVE  /\ Rising(Tail(s))
           /\ \A x \in Elems(Tail(s)) : Head(s) < x
<1>1. /\ Len(s) \in Nat \ {0} /\ Head(s) = s[1]
      /\ Len(Tail(s)) = Len(s) - 1
      /\ \A i \in 1..Len(Tail(s)) : Tail(s)[i] = s[i + 1]
  BY HeadFirst, HeadTailProperties
<1>2. \A i \in 1..Len(Tail(s)) : i + 1 \in 1..Len(s) /\ 1 \in 1..Len(s)
  BY <1>1
<1>3. QED
  BY <1>1, <1>2 DEF Rising, Elems

LEMMA RisingAppend ==
    ASSUME NEW s \in Seq(Msgs), NEW n \in Msgs
    PROVE  /\ Elems(Append(s, n)) = Elems(s) \cup {n}
           /\ Rising(s) /\ (\A x \in Elems(s) : x < n) => Rising(Append(s, n))
<1>1. /\ Len(s) \in Nat /\ Len(Append(s, n)) = Len(s) + 1
      /\ \A i \in 1..Len(s) : Append(s, n)[i] = s[i]
      /\ Append(s, n)[Len(s) + 1] = n
  BY AppendProperties, LenProperties
<1>2. 1..(Len(s) + 1) = 1..Len(s) \cup {Len(s) + 1}
  BY <1>1
<1>3. Elems(Append(s, n)) = Elems(s) \cup {n}
  BY <1>1, <1>2 DEF Elems
<1>4. ASSUME Rising(s), \A x \in Elems(s) : x < n,
             NEW j \in 1..(Len(s) + 1), NEW k \in 1..(Len(s) + 1), j < k
      PROVE  Append(s, n)[j] < Append(s, n)[k]
  <2>1. j \in 1..Len(s)
    BY <1>1, <1>4
  <2>2. CASE k \in 1..Len(s)
    BY <1>1, <1>4, <2>1, <2>2 DEF Rising
  <2>3. CASE k = Len(s) + 1
    BY <1>1, <1>4, <2>1, <2>3 DEF Elems
  <2>4. QED
    BY <1>2, <2>2, <2>3
<1>5. QED
  BY <1>1, <1>3, <1>4 DEF Rising

LEMMA ElemsEmpty == Elems(<<>>) = {}
  BY DEF Elems

LEMMA ElemsIn ==
    ASSUME NEW S, NEW s \in Seq(S)
    PROVE  Elems(s) \subseteq S /\ (s = <<>> <=> Elems(s) = {})
<1>1. Len(s) \in Nat /\ \A k \in 1..Len(s) : s[k] \in S
  BY LenProperties, ElementOfSeq
<1>2. s # <<>> => 1 \in 1..Len(s)
  BY EmptySeq
<1>3. QED
  BY <1>1, <1>2, ElemsEmpty DEF Elems

\* How often a buffer is in a rising sequence.
LEMMA CountInRising ==
    ASSUME NEW s \in Seq(Msgs), Rising(s), NEW n \in Msgs
    PROVE  Cardinality({k \in 1..Len(s) : s[k] = n}) = IF n \in Elems(s) THEN 1 ELSE 0
<1>1. Len(s) \in Nat /\ \A k \in 1..Len(s) : s[k] \in Msgs
  BY LenProperties, ElementOfSeq
<1>2. CASE n \in Elems(s)
  <2>1. PICK k \in 1..Len(s) : s[k] = n
    BY <1>2 DEF Elems
  <2>2. \A j \in 1..Len(s) : s[j] = n => j = k
    BY <1>1, <2>1, ClientAssumption DEF Rising, Msgs
  <2>3. {j \in 1..Len(s) : s[j] = n} = {k}
    BY <2>1, <2>2
  <2>4. QED
    BY <1>2, <2>3, FS_Singleton
<1>3. CASE n \notin Elems(s)
  <2>1. {j \in 1..Len(s) : s[j] = n} = {}
    BY <1>3 DEF Elems
  <2>2. QED
    BY <1>3, <2>1, FS_EmptySet
<1>4. QED
  BY <1>2, <1>3

-----------------------------------------------------------------------------
LEMMA InitIInv == Init => IInv
<1> SUFFICES ASSUME Init PROVE IInv
  OBVIOUS
<1> USE ClientAssumption DEF Init
<1>1. TypeOK
  <2>1. /\ sendBuf \in Seq(Msgs) /\ writes \in Seq(Msgs)
        /\ events \in Seq({"conn", "err", "msg", "disc"})
    BY EmptySeq
  <2>2. pc \in [Senders -> {"idle", "checked"}] /\ freedBuf \in [Msgs -> Nat]
    OBVIOUS
  <2>3. msgs \in 0..MaxMsgs /\ reads \in 0..MaxReads /\ through \subseteq Msgs
    OBVIOUS
  <2>4. QED
    BY <2>1, <2>2, <2>3 DEF TypeOK
<1>2. Control /\ OnLink /\ Events
  BY DEF Control, OnLink, Events
<1>3. Elems(writes) = {} /\ Elems(sendBuf) = {}
  BY ElemsEmpty
<1>4. Queued /\ Books
  BY <1>3 DEF Queued, Books, Rising, InFlight, Msgs
<1>5. QED
  BY <1>1, <1>2, <1>4 DEF IInv

-----------------------------------------------------------------------------
\* The steps that move no buffer.
Quiet == UNCHANGED <<sendBuf, writes, msgs, fate>>

LEMMA QuietSteps ==
    ASSUME \/ Connect \/ Close \/ DtorStep \/ (\E s \in Senders : SendCheck(s))
           \/ HandleConnection \/ HandleMsg \/ AsyncCallBack \/ AsyncLock \/ HandlesClosed \/ RunThread
    PROVE  Quiet
  BY DEF Quiet, Connect, Close, DtorStep, DtorClose, DtorJoin, SendCheck, HandleConnection,
         HandleMsg, AsyncCallBack, AsyncLock, HandlesClosed, RunThread, queues, fate

\* TypeOK in two parts: what has few values, and the buffers and books.
Modes == /\ phase \in {"fresh", "running", "failed"}
         /\ isConnected \in BOOLEAN /\ isClosing \in BOOLEAN
         /\ handle \in {"none", "open", "closing", "closed"}
         /\ link \in {"none", "pending", "up", "failed"}
         /\ reading \in {"off", "on", "broken"} /\ async \in BOOLEAN
         /\ loop \in {"none", "poll", "lock", "flush", "ended"}
         /\ pc \in [Senders -> {"idle", "checked"}]
         /\ dtor \in {"alive", "drained", "joining", "gone"}
         /\ msgs \in 0..MaxMsgs /\ reads \in 0..MaxReads

Stores == /\ sendBuf \in Seq(Msgs) /\ writes \in Seq(Msgs)
          /\ loop = "flush" => sendBuf # <<>>
          /\ events \in Seq({"conn", "err", "msg", "disc"})
          /\ through \subseteq Msgs /\ freedBuf \in [Msgs -> Nat]

LEMMA TypeParts == TypeOK <=> Modes /\ Stores
BY DEF TypeOK, Modes, Stores

LEMMA NextTyping == TypeOK /\ [Next]_vars => TypeOK'
<1> SUFFICES ASSUME TypeOK, [Next]_vars PROVE TypeOK'
  OBVIOUS
<1> USE ClientAssumption DEF TypeOK, Msgs, flags, uv, queues, fate
<1>1. ASSUME NEW e \in {"conn", "err", "msg", "disc"}, Report(e)
      PROVE  events' \in Seq({"conn", "err", "msg", "disc"})
  BY <1>1, AppendProperties DEF Report
<1>2. ASSUME NEW n \in Msgs, FreeBuf(n)
      PROVE  freedBuf' \in [Msgs -> Nat]
  BY <1>2 DEF FreeBuf
<1>3. CASE Connect
  BY <1>3 DEF Connect
<1>4. CASE Close
  BY <1>4, ZenonT(30) DEF Close
<1>5. CASE DtorDrain
  <2>1. ASSUME NEW n \in Msgs
        PROVE  Cardinality({k \in 1..Len(sendBuf) : sendBuf[k] = n}) \in Nat
    <3>1. IsFiniteSet(1..Len(sendBuf))
      BY LenProperties, FS_Interval
    <3>2. QED
      BY <3>1, FS_Subset, FS_CardinalityType
  <2>2. freedBuf' \in [Msgs -> Nat]
    <3> DEFINE copies(n) == Cardinality({k \in 1..Len(sendBuf) : sendBuf[k] = n})
    <3>1. freedBuf' = [n \in Msgs |-> freedBuf[n] + copies(n)]
      BY <1>5 DEF DtorDrain
    <3>2. \A n \in Msgs : copies(n) \in Nat
      BY <2>1
    <3> HIDE DEF copies
    <3>3. QED
      BY <3>1, <3>2, SMTT(30)
  <2>3. /\ dtor' = "drained" /\ isConnected' = FALSE /\ loop' # "flush"
        /\ UNCHANGED <<phase, isClosing, handle, link, reading, async, writes, loop, pc, msgs,
                       reads, events, through>>
    BY <1>5 DEF DtorDrain
  <2>4. sendBuf' \in Seq(Msgs)
    BY <1>5, EmptySeq DEF DtorDrain
  <2>5. TypeOK /\ Modes /\ Stores
    BY TypeParts
  <2> HIDE DEF TypeOK, Msgs
  <2>6. Modes'
    BY <2>3, <2>5, ZenonT(30) DEF Modes
  <2>7. Stores'
    BY <2>2, <2>3, <2>4, <2>5 DEF Stores
  <2>8. QED
    BY <2>6, <2>7, TypeParts, PTL
<1>6. CASE DtorStep
  BY <1>6 DEF DtorStep, DtorClose, DtorJoin
<1>7. ASSUME NEW s \in Senders, SendCheck(s) PROVE TypeOK'
  BY <1>7 DEF SendCheck
<1>8. ASSUME NEW s \in Senders, SendPush(s) PROVE TypeOK'
  <2>1. /\ msgs + 1 \in Msgs /\ sendBuf \in Seq(Msgs) /\ sendBuf' = Append(sendBuf, msgs + 1)
        /\ msgs' \in 0..MaxMsgs /\ async' = TRUE /\ pc' \in [Senders -> {"idle", "checked"}]
        /\ UNCHANGED <<phase, isConnected, isClosing, handle, link, reading, writes, loop, dtor,
                       reads, events, through, freedBuf>>
    BY <1>8 DEF SendPush, Queue
  <2>2. TypeOK /\ Modes /\ Stores
    BY TypeParts
  <2> HIDE DEF Msgs, TypeOK
  <2>3. sendBuf' \in Seq(Msgs) /\ sendBuf' # <<>>
    BY <2>1, AppendProperties
  <2>4. Modes'
    BY <2>1, <2>2 DEF Modes
  <2>5. Stores'
    BY <2>1, <2>2, <2>3 DEF Stores
  <2>6. QED
    BY <2>4, <2>5, TypeParts, PTL
<1>9. CASE HandleConnection
  BY <1>1, <1>9 DEF HandleConnection
<1>10. CASE HandleMsg
  BY <1>1, <1>10 DEF HandleMsg
<1>11. CASE AsyncCallBack
  BY <1>11, ZenonT(30) DEF AsyncCallBack
<1>12. CASE AsyncLock
  BY <1>12 DEF AsyncLock
<1>13. CASE WriteOne
  <2>1. Head(sendBuf) \in Msgs /\ Tail(sendBuf) \in Seq(Msgs)
    BY <1>13, HeadFirst DEF WriteOne
  <2>2. Append(writes, Head(sendBuf)) \in Seq(Msgs)
    BY <2>1, AppendProperties
  <2>3. sendBuf' \in Seq(Msgs) /\ writes' \in Seq(Msgs)
    BY <1>13, <2>1, <2>2 DEF WriteOne
  <2>4. /\ events' \in Seq({"conn", "err", "msg", "disc"})
        /\ freedBuf' \in [Msgs -> Nat]
    BY <1>1, <1>2, <1>13, <2>1 DEF WriteOne
  <2>5. loop' \in {"poll", "flush"} /\ (loop' = "flush" => sendBuf' # <<>>)
    BY <1>13 DEF WriteOne
  <2>6. UNCHANGED <<phase, isConnected, isClosing, handle, link, reading, async, pc, dtor, msgs,
                    reads, through>>
    BY <1>13 DEF WriteOne
  <2>7. TypeOK /\ Modes /\ Stores
    BY TypeParts
  <2> HIDE DEF TypeOK, Msgs
  <2>8. Modes'
    BY <2>5, <2>6, <2>7 DEF Modes
  <2>9. Stores'
    BY <2>3, <2>4, <2>5, <2>6, <2>7 DEF Stores
  <2>10. QED
    BY <2>8, <2>9, TypeParts, PTL
<1>14. ASSUME NEW ok \in BOOLEAN, AfterSend(ok) PROVE TypeOK'
  <2>1. Head(writes) \in Msgs /\ Tail(writes) \in Seq(Msgs)
    BY <1>14, HeadFirst DEF AfterSend
  <2>2. /\ events' \in Seq({"conn", "err", "msg", "disc"})
        /\ freedBuf' \in [Msgs -> Nat] /\ through' \subseteq Msgs
    BY <1>1, <1>2, <1>14, <2>1 DEF AfterSend
  <2>3. /\ writes' \in Seq(Msgs)
        /\ UNCHANGED <<phase, isConnected, isClosing, handle, link, reading, async, sendBuf, loop,
                       pc, dtor, msgs, reads>>
    BY <1>14, <2>1 DEF AfterSend
  <2>4. TypeOK /\ Modes /\ Stores
    BY TypeParts
  <2> HIDE DEF TypeOK, Msgs
  <2>5. Modes'
    BY <2>3, <2>4 DEF Modes
  <2>6. Stores'
    BY <2>2, <2>3, <2>4 DEF Stores
  <2>7. QED
    BY <2>5, <2>6, TypeParts, PTL
<1>15. CASE HandlesClosed \/ RunThread
  BY <1>15 DEF HandlesClosed, RunThread
<1>16. CASE UNCHANGED vars
  BY <1>16, SMTT(30) DEF vars
<1>17. QED
  BY <1>3, <1>4, <1>5, <1>6, <1>7, <1>8, <1>9, <1>10, <1>11, <1>12, <1>13, <1>14, <1>15, <1>16
     DEF Next

LEMMA NextControl == TypeOK /\ Control /\ OnLink /\ [Next]_vars => Control' /\ OnLink'
<1> SUFFICES ASSUME TypeOK, Control, OnLink, [Next]_vars PROVE Control' /\ OnLink'
  OBVIOUS
<1> USE DEF TypeOK, Control, OnLink, flags, uv, queues, fate
<1>1. CASE Connect
  BY <1>1 DEF Connect
<1>2. CASE Close \/ DtorStep
  BY <1>2 DEF Close, DtorStep, DtorClose, DtorJoin
<1>3. CASE DtorDrain
  BY <1>3 DEF DtorDrain
<1>4. ASSUME NEW s \in Senders, SendCheck(s) PROVE Control' /\ OnLink'
  BY <1>4 DEF SendCheck
<1>5. ASSUME NEW s \in Senders, SendPush(s) PROVE Control' /\ OnLink'
  BY <1>5 DEF SendPush, Queue
<1>6. CASE HandleConnection
  BY <1>6 DEF HandleConnection
<1>7. CASE HandleMsg
  BY <1>7 DEF HandleMsg
<1>8. CASE AsyncCallBack \/ AsyncLock
  BY <1>8 DEF AsyncCallBack, AsyncLock
<1>9. CASE WriteOne
  BY <1>9 DEF WriteOne
<1>10. ASSUME NEW ok \in BOOLEAN, AfterSend(ok) PROVE Control' /\ OnLink'
  BY <1>10 DEF AfterSend
<1>11. CASE HandlesClosed \/ RunThread
  BY <1>11 DEF HandlesClosed, RunThread
<1>12. CASE UNCHANGED vars
  BY <1>12 DEF vars
<1>13. QED
  BY <1>1, <1>2, <1>3, <1>4, <1>5, <1>6, <1>7, <1>8, <1>9, <1>10, <1>11, <1>12 DEF Next

\* The first event is the connection, or nothing but errors are reported.
LEMMA NextEvents ==
    TypeOK /\ Control /\ OnLink /\ Events /\ [Next]_vars => Events'
<1> SUFFICES ASSUME TypeOK, Control, OnLink, Events, [Next]_vars PROVE Events'
  OBVIOUS
<1>1. Len(events) \in Nat /\ (events = <<>> <=> Len(events) = 0)
  BY EmptySeq, LenProperties DEF TypeOK
<1>2. ASSUME NEW e \in {"err", "msg", "disc"}, Report(e),
             link' \notin {"none", "pending"},
             e # "err" \/ reading' # "off" => events # <<>> /\ events[1] = "conn"
      PROVE  Events'
  <2>1. /\ Len(events') = Len(events) + 1 /\ events' # <<>>
        /\ \A k \in 1..Len(events) : events'[k] = events[k]
        /\ events'[Len(events) + 1] = e
    BY <1>2, AppendProperties DEF Report, TypeOK
  <2>2. \A k \in 1..(Len(events) + 1) : k \in 1..Len(events) \/ k = Len(events) + 1
    BY <1>1
  <2>3. events # <<>> => events'[1] = events[1]
    BY <1>1, <2>1
  <2>4. ASSUME NEW k \in 1..Len(events')
        PROVE  /\ events'[k] \in {"msg", "disc"} => k > 1 /\ events'[1] = "conn"
               /\ events'[k] = "conn" => k = 1
    <3>1. CASE k \in 1..Len(events)
      BY <1>1, <2>1, <2>3, <3>1 DEF Events
    <3>2. CASE k = Len(events) + 1
      BY <1>1, <1>2, <2>1, <2>3, <3>2
    <3>3. QED
      BY <2>1, <2>2, <3>1, <3>2
  <2>5. QED
    BY <1>2, <2>1, <2>3, <2>4 DEF Events
<1>3. ASSUME UNCHANGED <<events, link, reading>> PROVE Events'
  BY <1>3 DEF Events
<1>4. CASE Connect
  BY <1>4, <1>1 DEF Connect, Events, Control
<1>5. CASE HandleConnection
  <2>1. events = <<>> /\ reading = "off"
    BY <1>5 DEF HandleConnection, Events
  <2>2. CASE Report("conn") /\ link' = "up"
    BY <2>1, <2>2 DEF Report, Events
  <2>3. CASE Report("err") /\ link' \in {"up", "failed"} /\ UNCHANGED reading
    BY <1>2, <2>1, <2>3
  <2>4. QED
    BY <1>5, <2>2, <2>3 DEF HandleConnection
<1>6. CASE HandleMsg
  <2>1. link \notin {"none", "pending"} /\ events # <<>> /\ events[1] = "conn"
    BY <1>6 DEF HandleMsg, Events
  <2>2. link' = link /\ \E e \in {"err", "msg", "disc"} : Report(e)
    BY <1>6 DEF HandleMsg
  <2>3. QED
    BY <1>2, <2>1, <2>2
<1>7. CASE WriteOne
  <2>1. link = "up" /\ UNCHANGED <<link, reading>>
    BY <1>7 DEF WriteOne, OnLink, TypeOK, uv
  <2>2. CASE Report("err")
    BY <1>2, <2>1, <2>2 DEF Events
  <2>3. QED
    BY <1>3, <1>7, <2>1, <2>2 DEF WriteOne
<1>8. ASSUME NEW ok \in BOOLEAN, AfterSend(ok) PROVE Events'
  <2>1. link = "up" /\ UNCHANGED <<link, reading>>
    BY <1>8 DEF AfterSend, OnLink, uv
  <2>2. CASE Report("err")
    BY <1>2, <2>1, <2>2 DEF Events
  <2>3. QED
    BY <1>3, <1>8, <2>1, <2>2 DEF AfterSend
<1>9. ASSUME NEW s \in Senders, SendCheck(s) \/ SendPush(s) PROVE Events'
  BY <1>3, <1>9 DEF SendCheck, SendPush, uv
<1>10. CASE Close \/ DtorDrain \/ DtorStep
  BY <1>3, <1>10 DEF Close, DtorDrain, DtorStep, DtorClose, DtorJoin, uv
<1>11. CASE AsyncCallBack \/ AsyncLock \/ HandlesClosed \/ RunThread
  BY <1>3, <1>11 DEF AsyncCallBack, AsyncLock, HandlesClosed, RunThread, uv
<1>12. CASE UNCHANGED vars
  BY <1>3, <1>12 DEF vars, uv
<1>13. QED
  BY <1>4, <1>5, <1>6, <1>7, <1>8, <1>9, <1>10, <1>11, <1>12 DEF Next
-----------------------------------------------------------------------------
(* The buffers on their way: how WriteOne and AfterSend take the first one. *)

LEMMA TakenFromQueue ==
    ASSUME TypeOK, Queued, sendBuf # <<>>
    PROVE  /\ Head(sendBuf) \in Msgs /\ Head(sendBuf) \in InFlight
           /\ Rising(Tail(sendBuf)) /\ Elems(sendBuf) = {Head(sendBuf)} \cup Elems(Tail(sendBuf))
           /\ Elems(writes) \cup Elems(Tail(sendBuf)) = InFlight \ {Head(sendBuf)}
           /\ \A m \in Elems(writes) : m < Head(sendBuf)
           /\ \A n \in Elems(Tail(sendBuf)) : Head(sendBuf) < n
<1>1. sendBuf \in Seq(Msgs) /\ Elems(writes) \subseteq Msgs /\ Elems(sendBuf) \subseteq Msgs
  BY ElemsIn DEF TypeOK
<1>2. /\ Head(sendBuf) \in Msgs
      /\ Elems(sendBuf) = {Head(sendBuf)} \cup Elems(Tail(sendBuf))
  BY <1>1, HeadFirst
<1>3. /\ Rising(Tail(sendBuf))
      /\ \A n \in Elems(Tail(sendBuf)) : Head(sendBuf) < n
  BY <1>1, RisingTail DEF Queued
<1>4. \A m \in Elems(writes) : m < Head(sendBuf)
  BY <1>2 DEF Queued
<1>5. \A x, y \in Msgs : x < y => x # y
  BY ClientAssumption DEF Msgs
<1>6. Head(sendBuf) \notin Elems(writes) /\ Head(sendBuf) \notin Elems(Tail(sendBuf))
  BY <1>1, <1>2, <1>3, <1>4, <1>5
<1>7. QED
  BY <1>2, <1>3, <1>4, <1>6 DEF InFlight

LEMMA TakenFromWrites ==
    ASSUME TypeOK, Queued, writes # <<>>
    PROVE  /\ Head(writes) \in Msgs /\ Head(writes) \in InFlight
           /\ Rising(Tail(writes)) /\ Elems(Tail(writes)) \subseteq Elems(writes)
           /\ Elems(Tail(writes)) \cup Elems(sendBuf) = InFlight \ {Head(writes)}
           /\ \A n \in InFlight \ {Head(writes)} : Head(writes) < n
<1>1. writes \in Seq(Msgs) /\ Elems(writes) \subseteq Msgs /\ Elems(sendBuf) \subseteq Msgs
  BY ElemsIn DEF TypeOK
<1>2. /\ Head(writes) \in Msgs
      /\ Elems(writes) = {Head(writes)} \cup Elems(Tail(writes))
  BY <1>1, HeadFirst
<1>3. /\ Rising(Tail(writes))
      /\ \A n \in Elems(Tail(writes)) : Head(writes) < n
  BY <1>1, RisingTail DEF Queued
<1>4. \A n \in Elems(sendBuf) : Head(writes) < n
  BY <1>2 DEF Queued
<1>5. \A x, y \in Msgs : x < y => x # y
  BY ClientAssumption DEF Msgs
<1>6. Head(writes) \notin Elems(sendBuf) /\ Head(writes) \notin Elems(Tail(writes))
  BY <1>1, <1>2, <1>3, <1>4, <1>5
<1>7. QED
  BY <1>2, <1>3, <1>4, <1>6 DEF InFlight

LEMMA NextQueued == TypeOK /\ Queued /\ [Next]_vars => Queued'
<1> SUFFICES ASSUME TypeOK, Queued, [Next]_vars PROVE Queued'
  OBVIOUS
<1>1. ASSUME UNCHANGED <<sendBuf, writes, msgs>> PROVE Queued'
  BY <1>1 DEF Queued
<1>2. CASE DtorDrain
  <2>1. Elems(sendBuf') = {} /\ Rising(sendBuf') /\ UNCHANGED <<writes, msgs>>
    BY <1>2, ElemsEmpty DEF DtorDrain, Rising
  <2>2. QED
    BY <2>1 DEF Queued
<1>3. ASSUME NEW s \in Senders, SendPush(s) PROVE Queued'
  <2>1. /\ msgs + 1 \in Msgs /\ msgs' = msgs + 1 /\ writes' = writes
        /\ sendBuf' = Append(sendBuf, msgs + 1) /\ sendBuf \in Seq(Msgs)
    BY <1>3, ClientAssumption DEF SendPush, Queue, TypeOK, Msgs
  <2>2. \A n \in Elems(writes) \cup Elems(sendBuf) : n \in Msgs
    BY ElemsIn DEF TypeOK
  <2>3. \A n \in Elems(writes) \cup Elems(sendBuf) : n < msgs + 1 /\ n <= msgs + 1
    BY <2>2, ClientAssumption DEF Queued, TypeOK, Msgs
  <2>4. Elems(sendBuf') = Elems(sendBuf) \cup {msgs + 1} /\ Rising(sendBuf')
    BY <2>1, <2>3, RisingAppend DEF Queued
  <2>5. msgs + 1 <= msgs + 1
    BY <2>1, ClientAssumption DEF Msgs
  <2>6. QED
    BY <2>1, <2>3, <2>4, <2>5 DEF Queued
<1>4. CASE WriteOne
  <2>1. /\ sendBuf # <<>> /\ sendBuf' = Tail(sendBuf) /\ msgs' = msgs
        /\ writes' = Append(writes, Head(sendBuf)) \/ writes' = writes
    BY <1>4 DEF WriteOne, TypeOK
  <2>2. CASE writes' = writes
    BY <2>1, <2>2, TakenFromQueue DEF Queued
  <2>3. CASE writes' = Append(writes, Head(sendBuf))
    <3>1. /\ Elems(writes') = Elems(writes) \cup {Head(sendBuf)}
          /\ Rising(writes')
      BY <2>1, <2>3, TakenFromQueue, RisingAppend DEF Queued, TypeOK
    <3>2. QED
      BY <2>1, <3>1, TakenFromQueue DEF Queued
  <2>4. QED
    BY <2>1, <2>2, <2>3
<1>5. ASSUME NEW ok \in BOOLEAN, AfterSend(ok) PROVE Queued'
  <2>1. writes # <<>> /\ writes' = Tail(writes) /\ UNCHANGED <<sendBuf, msgs>>
    BY <1>5 DEF AfterSend
  <2>2. QED
    BY <2>1, TakenFromWrites DEF Queued
<1>6. ASSUME NEW s \in Senders, SendCheck(s) PROVE Queued'
  BY <1>1, <1>6 DEF SendCheck, queues
<1>7. CASE Connect \/ Close \/ DtorStep \/ HandleConnection \/ HandleMsg
  BY <1>1, <1>7 DEF Connect, Close, DtorStep, DtorClose, DtorJoin, HandleConnection, HandleMsg,
     queues
<1>8. CASE AsyncCallBack \/ AsyncLock \/ HandlesClosed \/ RunThread
  BY <1>1, <1>8 DEF AsyncCallBack, AsyncLock, HandlesClosed, RunThread, queues
<1>9. CASE UNCHANGED vars
  BY <1>1, <1>9 DEF vars, queues
<1>10. QED
  BY <1>2, <1>3, <1>4, <1>5, <1>6, <1>7, <1>8, <1>9 DEF Next

\* A buffer leaves and is freed.
LEMMA FreedOnLeaving ==
    ASSUME TypeOK, Books, NEW n \in Msgs, n \in InFlight, n <= msgs, FreeBuf(n),
           InFlight' = InFlight \ {n}, msgs' = msgs,
           through' \subseteq through \cup {n}
    PROVE  Books'
<1>1. freedBuf \in [Msgs -> Nat] /\ freedBuf' = [freedBuf EXCEPT ![n] = @ + 1]
  BY DEF TypeOK, FreeBuf
<1>2. ASSUME NEW k \in Msgs
      PROVE  freedBuf'[k] = IF k <= msgs /\ k \notin InFlight' THEN 1 ELSE 0
  <2>1. freedBuf[n] = 0
    BY DEF Books
  <2>2. CASE k = n
    BY <1>1, <2>1, <2>2
  <2>3. CASE k # n
    <3>1. freedBuf'[k] = freedBuf[k] /\ (k \in InFlight' <=> k \in InFlight)
      BY <1>1, <2>3
    <3>2. QED
      BY <3>1 DEF Books
  <2>4. QED
    BY <2>2, <2>3
<1>3. \A k \in through' : k <= msgs /\ k \notin InFlight'
  BY DEF Books
<1>4. QED
  BY <1>2, <1>3 DEF Books

LEMMA NextBooks == TypeOK /\ Control /\ Queued /\ Books /\ [Next]_vars => Books'
<1> SUFFICES ASSUME TypeOK, Control, Queued, Books, [Next]_vars PROVE Books'
  OBVIOUS
<1>1. ASSUME Quiet PROVE Books'
  BY <1>1 DEF Quiet, Books, InFlight, fate
<1>2. CASE DtorDrain
  <2>1. /\ InFlight' = Elems(writes) /\ UNCHANGED <<msgs, through>>
    BY <1>2, ElemsEmpty DEF DtorDrain, InFlight
  <2>2. \A n \in Msgs : freedBuf'[n] = freedBuf[n] + (IF n \in Elems(sendBuf) THEN 1 ELSE 0)
    <3> DEFINE copies(n) == Cardinality({k \in 1..Len(sendBuf) : sendBuf[k] = n})
    <3>1. freedBuf' = [n \in Msgs |-> freedBuf[n] + copies(n)]
      BY <1>2 DEF DtorDrain
    <3>2. \A n \in Msgs : copies(n) = IF n \in Elems(sendBuf) THEN 1 ELSE 0
      BY CountInRising DEF TypeOK, Queued
    <3> HIDE DEF copies
    <3>3. QED
      BY <3>1, <3>2
  <2>3. \A x, y \in Msgs : x < y => x # y
    BY ClientAssumption DEF Msgs
  <2>4. Elems(writes) \subseteq Msgs /\ Elems(sendBuf) \subseteq Msgs
    BY ElemsIn DEF TypeOK
  <2>5. Elems(writes) \cap Elems(sendBuf) = {}
    BY <2>3, <2>4 DEF Queued
  <2>6. ASSUME NEW n \in Msgs
        PROVE  freedBuf'[n] = IF n <= msgs' /\ n \notin InFlight' THEN 1 ELSE 0
    <3>1. CASE n \in Elems(sendBuf)
      <4>1. freedBuf[n] = 0 /\ n <= msgs /\ n \notin Elems(writes)
        BY <2>5, <3>1 DEF Books, Queued, InFlight
      <4>2. QED
        BY <2>1, <2>2, <3>1, <4>1
    <3>2. CASE n \notin Elems(sendBuf)
      <4>1. n \in InFlight' <=> n \in InFlight
        BY <2>1, <3>2 DEF InFlight
      <4>2. freedBuf'[n] = freedBuf[n]
        BY <2>2, <3>2 DEF TypeOK
      <4>3. QED
        BY <2>1, <4>1, <4>2 DEF Books
    <3>3. QED
      BY <3>1, <3>2
  <2>7. \A n \in through' : n <= msgs' /\ n \notin InFlight'
    BY <2>1 DEF Books, InFlight
  <2>8. QED
    BY <2>6, <2>7 DEF Books
<1>3. ASSUME NEW s \in Senders, SendPush(s) PROVE Books'
  <2>1. /\ msgs + 1 \in Msgs /\ msgs' = msgs + 1 /\ UNCHANGED <<writes, fate>>
        /\ sendBuf' = Append(sendBuf, msgs + 1) /\ sendBuf \in Seq(Msgs)
    BY <1>3, ClientAssumption DEF SendPush, Queue, TypeOK, Msgs
  <2>2. Elems(sendBuf') = Elems(sendBuf) \cup {msgs + 1}
    BY <2>1, RisingAppend
  <2>3. InFlight' = InFlight \cup {msgs + 1}
    BY <2>1, <2>2 DEF InFlight
  <2>4. \A n \in Msgs : (n <= msgs' /\ n \notin InFlight') <=> (n <= msgs /\ n \notin InFlight)
    BY <2>1, <2>3, ClientAssumption DEF Msgs, TypeOK
  <2>5. QED
    BY <2>1, <2>4 DEF Books, fate, TypeOK
<1>4. CASE WriteOne
  <2>1. /\ sendBuf # <<>> /\ sendBuf' = Tail(sendBuf) /\ UNCHANGED <<msgs, through>>
        /\ \/ writes' = Append(writes, Head(sendBuf)) /\ UNCHANGED freedBuf
           \/ FreeBuf(Head(sendBuf)) /\ UNCHANGED writes
    BY <1>4 DEF WriteOne, TypeOK
  <2>2. CASE writes' = Append(writes, Head(sendBuf)) /\ UNCHANGED freedBuf
    <3>1. Elems(writes') = Elems(writes) \cup {Head(sendBuf)}
      BY <2>1, <2>2, TakenFromQueue, RisingAppend DEF TypeOK
    <3>2. InFlight' = InFlight
      BY <2>1, <3>1, TakenFromQueue DEF InFlight
    <3>3. QED
      BY <2>1, <2>2, <3>2 DEF Books
  <2>3. CASE FreeBuf(Head(sendBuf)) /\ UNCHANGED writes
    <3>1. InFlight' = InFlight \ {Head(sendBuf)}
      BY <2>1, <2>3, TakenFromQueue DEF InFlight
    <3>2. Head(sendBuf) \in Msgs /\ Head(sendBuf) \in InFlight /\ Head(sendBuf) <= msgs
      BY <2>1, TakenFromQueue DEF Queued, InFlight
    <3>3. QED
      BY <2>1, <2>3, <3>1, <3>2, FreedOnLeaving
  <2>4. QED
    BY <2>1, <2>2, <2>3
<1>5. ASSUME NEW ok \in BOOLEAN, AfterSend(ok) PROVE Books'
  <2>1. /\ writes # <<>> /\ writes' = Tail(writes) /\ UNCHANGED <<sendBuf, msgs>>
        /\ FreeBuf(Head(writes)) /\ through' \subseteq through \cup {Head(writes)}
    BY <1>5 DEF AfterSend
  <2>2. InFlight' = InFlight \ {Head(writes)}
    BY <2>1, TakenFromWrites DEF InFlight
  <2>3. Head(writes) \in Msgs /\ Head(writes) \in InFlight /\ Head(writes) <= msgs
    BY <2>1, TakenFromWrites DEF Queued, InFlight
  <2>4. QED
    BY <2>1, <2>2, <2>3, FreedOnLeaving
<1>6. ASSUME NEW s \in Senders, SendCheck(s) PROVE Books'
  BY <1>1, <1>6, QuietSteps
<1>7. CASE Connect \/ Close \/ DtorStep \/ HandleConnection \/ HandleMsg
  BY <1>1, <1>7, QuietSteps
<1>8. CASE AsyncCallBack \/ AsyncLock \/ HandlesClosed \/ RunThread
  BY <1>1, <1>8, QuietSteps
<1>9. CASE UNCHANGED vars
  BY <1>1, <1>9 DEF vars, Quiet, queues
<1>10. QED
  BY <1>2, <1>3, <1>4, <1>5, <1>6, <1>7, <1>8, <1>9 DEF Next

LEMMA NextIInv == IInv /\ [Next]_vars => IInv'
  BY NextTyping, NextControl, NextEvents, NextQueued, NextBooks DEF IInv
(***************************************************************************)
(* The inductive invariant holds in every reachable state.                 *)
(***************************************************************************)
THEOREM Invariance == Spec => []IInv
  BY InitIInv, NextIInv, PTL DEF Spec

-----------------------------------------------------------------------------
(* What needs a connection happens once there is one.                      *)

LEMMA IInvConnects == IInv => AfterConnecting
<1> SUFFICES ASSUME IInv PROVE AfterConnecting
  OBVIOUS
<1>1. TypeOK /\ WritesOnlyOnLink
  BY DEF IInv, OnLink, WritesOnlyOnLink
<1>2. ASSUME NEW k \in 1..Len(events)
      PROVE  /\ events[k] \in {"msg", "disc"} => \E j \in 1..(k - 1) : events[j] = "conn"
             /\ events[k] = "conn" => k = 1
  <2>1. k > 1 => 1 \in 1..(k - 1)
    OBVIOUS
  <2>2. QED
    BY <2>1 DEF IInv, Events
<1>3. QED
  BY <1>1, <1>2 DEF AfterConnecting, ConnectionFirst

(***************************************************************************)
(* AfterConnecting, for any number of senders: neither the flag that the   *)
(* application's threads and the loop both store, nor a Send caught        *)
(* between its test and its push, puts a buffer on a socket that is not    *)
(* connected; and no message or disconnection is reported before           *)
(* ON_CONNECTION.                                                          *)
(***************************************************************************)
THEOREM Connecting == Spec => []AfterConnecting
  BY Invariance, IInvConnects, PTL

LEMMA IInvOutlives == IInv => NothingOutlives
<1> SUFFICES ASSUME IInv PROVE NothingOutlives
  OBVIOUS
<1> USE DEF IInv
<1>1. ASSUME NEW n \in 1..msgs
      PROVE  freedBuf[n] <= 1 /\ (dtor = "gone" => freedBuf[n] = 1)
  <2>1. n \in Msgs /\ n <= msgs
    BY ClientAssumption DEF TypeOK, Msgs
  <2>2. freedBuf[n] <= 1
    BY <2>1 DEF Books
  <2>3. ASSUME dtor = "gone" PROVE freedBuf[n] = 1
    <3>1. sendBuf = <<>> /\ loop \in {"none", "ended"}
      BY <2>3 DEF Control
    <3>2. writes = <<>>
      <4>1. CASE loop = "ended"
        BY <4>1 DEF Control
      <4>2. CASE loop = "none"
        BY <4>2 DEF Control, OnLink
      <4>3. QED
        BY <3>1, <4>1, <4>2
    <3>3. n \notin InFlight
      BY <3>1, <3>2, ElemsEmpty DEF InFlight
    <3>4. QED
      BY <2>1, <3>3 DEF Books
  <2>4. QED
    BY <2>2, <2>3
<1>2. NoHandleOutlives
  BY DEF NoHandleOutlives, Control
<1>3. QED
  BY <1>1, <1>2 DEF NothingOutlives, BuffersFreedOnce

(***************************************************************************)
(* NothingOutlives, for any number of senders and messages: no path of     *)
(* Send, AsyncCallBack, AfterSend and the destructor frees a buffer twice, *)
(* and once the destructor is through each is freed and the handles are    *)
(* closed.                                                                 *)
(***************************************************************************)
THEOREM Outliving == Spec => []NothingOutlives
  BY Invariance, IInvOutlives, PTL

-----------------------------------------------------------------------------
(* RJTcpClient implements LossyFifo.                                       *)

Lost == {n \in 1..msgs : freedBuf[n] > 0} \ through

LEMMA InitFifo == Init => Fifo!Init
  BY DEF Init, Fifo!Init

\* What is in no queue was transmitted or is lost; what is in one is pending.
Accounted == /\ Lost = ((1..msgs) \ InFlight) \ through
             /\ Fifo!Pending = InFlight
             /\ InFlight \subseteq 1..msgs /\ InFlight \cap through = {}

LEMMA Accounts == IInv => Accounted
<1> SUFFICES ASSUME IInv PROVE Accounted
  OBVIOUS
<1> USE DEF IInv
<1>1. InFlight \subseteq Msgs
  BY ElemsIn DEF TypeOK, InFlight
<1>2. InFlight \subseteq 1..msgs /\ InFlight \cap through = {}
  BY <1>1, ClientAssumption DEF Queued, InFlight, Books, Msgs, TypeOK
<1>3. ASSUME NEW n \in 1..msgs
      PROVE  freedBuf[n] > 0 <=> n \notin InFlight
  <2>1. n \in Msgs /\ n <= msgs
    BY ClientAssumption DEF TypeOK, Msgs
  <2>2. QED
    BY <2>1 DEF Books
<1>4. Lost = ((1..msgs) \ InFlight) \ through
  BY <1>3 DEF Lost
<1>5. Fifo!Pending = InFlight
  BY <1>2, <1>4 DEF Fifo!Pending, Lost
<1>6. QED
  BY <1>2, <1>4, <1>5 DEF Accounted

LEMMA AccountsAfter == IInv' => Accounted'
  BY Accounts, PTL

\* Who takes buffers away: the ones taken are transmitted, or they are lost.
LEMMA TakenAway ==
    ASSUME IInv, IInv', NEW S \in SUBSET InFlight, InFlight' = InFlight \ S, msgs' = msgs
    PROVE  /\ through' = through => Lost' = Lost \cup S
           /\ through' = through \cup S => Lost' = Lost
<1>1. /\ Lost = ((1..msgs) \ InFlight) \ through
      /\ InFlight \subseteq 1..msgs /\ InFlight \cap through = {}
  BY Accounts DEF Accounted
<1>2. Lost' = ((1..msgs') \ InFlight') \ through'
  BY AccountsAfter DEF Accounted
<1>3. QED
  BY <1>1, <1>2

LEMMA NextFifo == IInv /\ IInv' /\ [Next]_vars => [Fifo!Next]_Fifo!vars
<1> SUFFICES ASSUME IInv, IInv', [Next]_vars PROVE [Fifo!Next]_Fifo!vars
  OBVIOUS
<1>1. TypeOK /\ Queued /\ Fifo!Pending = InFlight
  BY Accounts DEF Accounted, IInv
<1>2. ASSUME UNCHANGED <<msgs, fate>> PROVE UNCHANGED Fifo!vars
  BY <1>2 DEF fate, Fifo!vars
<1>3. ASSUME NEW S \in SUBSET InFlight, InFlight' = InFlight \ S, UNCHANGED <<msgs, through>>
      PROVE  Fifo!Lose
  BY <1>1, <1>3, TakenAway DEF Fifo!Lose, Lost
<1>4. CASE DtorDrain
  <2>1. /\ InFlight' = Elems(writes) /\ UNCHANGED <<msgs, through>>
    BY <1>4, ElemsEmpty DEF DtorDrain, InFlight
  <2>2. InFlight' = InFlight \ (InFlight \ InFlight') /\ InFlight \ InFlight' \in SUBSET InFlight
    BY <2>1 DEF InFlight
  <2>3. Fifo!Lose
    BY <1>3, <2>1, <2>2
  <2>4. QED
    BY <2>3 DEF Fifo!Next
<1>5. ASSUME NEW s \in Senders, SendPush(s) PROVE Fifo!Accept
  <2>1. /\ msgs + 1 \in Msgs /\ msgs' = msgs + 1 /\ UNCHANGED <<writes, fate>>
        /\ sendBuf' = Append(sendBuf, msgs + 1) /\ sendBuf \in Seq(Msgs) /\ msgs \in Nat
    BY <1>1, <1>5, ClientAssumption DEF SendPush, Queue, TypeOK, Msgs
  <2>2. InFlight' = InFlight \cup {msgs + 1}
    BY <2>1, RisingAppend DEF InFlight
  <2>3. 1..msgs' = (1..msgs) \cup {msgs + 1} /\ msgs + 1 \notin 1..msgs
    BY <2>1
  <2>4. Lost = ((1..msgs) \ InFlight) \ through
    BY Accounts DEF Accounted
  <2>5. Lost' = ((1..msgs') \ InFlight') \ through'
    BY AccountsAfter DEF Accounted
  <2>6. Lost' = Lost
    BY <2>1, <2>2, <2>3, <2>4, <2>5 DEF fate
  <2>7. QED
    BY <2>1, <2>6 DEF Fifo!Accept, Lost, fate
<1>6. CASE WriteOne
  <2>1. /\ sendBuf # <<>> /\ sendBuf' = Tail(sendBuf) /\ UNCHANGED <<msgs, through>>
        /\ UNCHANGED freedBuf \/ UNCHANGED writes
    BY <1>1, <1>6 DEF WriteOne, TypeOK
  <2>2. CASE UNCHANGED freedBuf
    BY <1>2, <2>1, <2>2 DEF fate
  <2>3. CASE UNCHANGED writes
    <3>1. InFlight' = InFlight \ {Head(sendBuf)} /\ Head(sendBuf) \in InFlight
      BY <1>1, <2>1, <2>3, TakenFromQueue DEF InFlight
    <3>2. Fifo!Lose
      BY <1>3, <2>1, <3>1
    <3>3. QED
      BY <3>2 DEF Fifo!Next
  <2>4. QED
    BY <2>1, <2>2, <2>3
<1>7. ASSUME NEW ok \in BOOLEAN, AfterSend(ok) PROVE Fifo!Next
  <2>1. /\ writes # <<>> /\ writes' = Tail(writes) /\ UNCHANGED <<sendBuf, msgs>>
        /\ through' = through \cup {Head(writes)} \/ through' = through
    BY <1>7 DEF AfterSend
  <2>2. /\ InFlight' = InFlight \ {Head(writes)} /\ Head(writes) \in InFlight
        /\ \A n \in InFlight \ {Head(writes)} : Head(writes) < n
    BY <1>1, <2>1, TakenFromWrites DEF InFlight
  <2>3. CASE through' = through
    <3>1. {Head(writes)} \in SUBSET InFlight
      BY <2>2
    <3>2. Fifo!Lose
      BY <1>3, <2>1, <2>2, <2>3, <3>1
    <3>3. QED
      BY <3>2 DEF Fifo!Next
  <2>4. CASE through' = through \cup {Head(writes)}
    <3>1. Lost' = Lost
      BY <2>1, <2>2, <2>4, TakenAway
    <3>2. \A n \in InFlight : Head(writes) <= n
      <4>1. InFlight \subseteq Int
        BY <1>1, Accounts, ClientAssumption DEF Accounted, TypeOK
      <4>2. \A m, n \in Int : m < n \/ m = n => m <= n
        OBVIOUS
      <4>3. QED
        BY <2>2, <4>1, <4>2
    <3>3. Fifo!Transmit
      BY <1>1, <2>1, <2>2, <2>4, <3>1, <3>2 DEF Fifo!Transmit, Lost
    <3>4. QED
      BY <3>3 DEF Fifo!Next
  <2>5. QED
    BY <2>1, <2>3, <2>4
<1>8. CASE Connect \/ Close \/ DtorStep \/ (\E s \in Senders : SendCheck(s)) \/ HandleConnection
  BY <1>2, <1>8, QuietSteps DEF Quiet
<1>9. CASE HandleMsg \/ AsyncCallBack \/ AsyncLock \/ HandlesClosed \/ RunThread
  BY <1>2, <1>9, QuietSteps DEF Quiet
<1>10. CASE UNCHANGED vars
  BY <1>2, <1>10 DEF vars
<1>11. QED
  BY <1>4, <1>5, <1>6, <1>7, <1>8, <1>9, <1>10 DEF Next, Fifo!Next

(***************************************************************************)
(* IsLossyFifo, for any number of senders and messages: SendPush accepts,  *)
(* a successful AfterSend transmits the oldest buffer under way, a failed  *)
(* one, a failed write and the destructor lose buffers, and no other step  *)
(* touches them.  Neither the lock that is held while the queue is written *)
(* nor the flag test outside it lets a buffer overtake another.            *)
(***************************************************************************)
THEOREM Implementation == Spec => IsLossyFifo
<1>1. Init => Fifo!Init
  BY InitFifo
<1>2. IInv /\ IInv' /\ [Next]_vars => [Fifo!Next]_Fifo!vars
  BY NextFifo
<1>3. QED
  BY <1>1, <1>2, Invariance, PTL DEF Spec, IsLossyFifo, Fifo!Spec

-----------------------------------------------------------------------------
(***************************************************************************)
(* BufferReader, for every size of the header, of the buffer, of the       *)
(* chunks (up to the first size of the buffer) and of the messages.        *)
(*                                                                         *)
(* What the reader finds in its buffer is known from where the packages    *)
(* lie in the stream: an assignment of offsets to packages, which grows    *)
(* with every package sent and says what each byte of the stream is.       *)
(***************************************************************************)
\* The buffer and the unread bytes are the stream from the bytes consumed on.
Pieces == /\ taken + Len(buf) + Len(net) = Len(stream)
          /\ \A i \in 1..Len(buf) : buf[i] = stream[taken + i]
          /\ \A i \in 1..Len(net) : net[i] = stream[taken + Len(buf) + i]

\* off[k] bytes of the stream come before package k.
Offsets(off) == /\ off \in [1..(Len(frames) + 1) -> Nat]
                /\ off[1] = 0 /\ off[Len(frames) + 1] = Len(stream)
                /\ \A k \in 1..(Len(frames) + 1) : off[k] <= Len(stream)
                /\ \A k \in 1..Len(frames) : off[k + 1] = off[k] + HeadSize + frames[k].size
                /\ \A k \in 1..Len(frames) : \A i \in 1..(HeadSize + frames[k].size) :
                        stream[off[k] + i] = <<k, i>>

\* The reader stands between two packages.
Framed == /\ Len(got) <= Len(frames)
          /\ \E off : Offsets(off) /\ taken = off[Len(got) + 1]

ReaderIInv == ReaderTypeOK /\ Pieces /\ Framed /\ InBounds /\ MessagesIntact /\ NothingWithheld

-----------------------------------------------------------------------------
(* The package the reader is at. *)
At == Len(got) + 1

\* A subsequence from m on, element by element.
LEMMA Middle ==
    ASSUME NEW T, NEW s \in Seq(T), NEW m \in Nat, NEW n \in Nat, m <= n, n <= Len(s)
    PROVE  /\ SubSeq(s, m + 1, n) \in Seq(T) /\ Len(SubSeq(s, m + 1, n)) = n - m
           /\ \A i \in 1..(n - m) : SubSeq(s, m + 1, n)[i] = s[m + i]
<1>1. \A i \in 1..(n - m) : m + 1 + i - 1 = m + i /\ m + i \in 1..Len(s)
  OBVIOUS
<1>2. n - (m + 1) + 1 = n - m /\ m + 1 \in 1..(Len(s) + 1) /\ n \in m..Len(s)
  OBVIOUS
<1> QED  BY <1>1, <1>2, SubSeqProperties

\* Every package has a size.
LEMMA SizesOfFrames ==
    ASSUME frames \in Seq(Frames), NEW k \in 1..Len(frames)
    PROVE  frames[k].size \in Nat \ {0}
<1>1. frames[k] \in Frames
  OBVIOUS
<1>2. \A f \in Frames : f.size \in Nat \ {0}
  BY ReaderAssumption DEF Frames
<1> QED  BY <1>1, <1>2

\* While a byte is left, the reader is at a package, and the bytes of its
\* buffer, up to the end of that package, are the bytes of that package.
LEMMA FrontOfBuffer ==
    ASSUME ReaderTypeOK, Pieces, Framed, Len(buf) > 0
    PROVE  /\ At \in 1..Len(frames)
           /\ \A i \in 1..Len(buf) : i <= HeadSize + frames[At].size => buf[i] = <<At, i>>
<1>1. /\ frames \in Seq(Frames) /\ stream \in Seq(Bytes) /\ buf \in Seq(Bytes)
      /\ net \in Seq(Bytes) /\ got \in Seq(Seq(Bytes)) /\ taken \in Nat
  BY DEF ReaderTypeOK
<1>2. /\ Len(frames) \in Nat /\ Len(got) \in Nat /\ Len(buf) \in Nat
      /\ Len(net) \in Nat /\ Len(stream) \in Nat
  BY <1>1, LenProperties
<1>3. PICK off : Offsets(off) /\ taken = off[At]
  BY DEF Framed, At
<1>4. At \in 1..(Len(frames) + 1)
  BY <1>2 DEF Framed, At
<1>5. taken + Len(buf) + Len(net) = Len(stream)
  BY DEF Pieces
<1>6. At # Len(frames) + 1
  <2>1. SUFFICES ASSUME At = Len(frames) + 1  PROVE FALSE
    OBVIOUS
  <2>2. taken = Len(stream)
    BY <1>3, <2>1 DEF Offsets
  <2> QED  BY <1>1, <1>2, <1>5, <2>2
<1>7. At \in 1..Len(frames)
  BY <1>2, <1>4, <1>6
<1>8. \A i \in 1..(HeadSize + frames[At].size) : stream[taken + i] = <<At, i>>
  BY <1>3, <1>7 DEF Offsets
<1>9. \A i \in 1..Len(buf) : buf[i] = stream[taken + i]
  BY DEF Pieces
<1>10. frames[At].size \in Nat
  BY <1>1, <1>7, SizesOfFrames
<1>11. HeadSize \in Nat
  BY ReaderAssumption
<1>12. \A i \in 1..Len(buf) : i <= HeadSize + frames[At].size =>
              i \in 1..(HeadSize + frames[At].size)
  BY <1>2, <1>10, <1>11
<1> QED  BY <1>7, <1>8, <1>9, <1>12

\* With a header in the buffer, the magic and the size that Unpackage reads are
\* those of the package the reader is at.
LEMMA HeaderOfPackage ==
    ASSUME ReaderTypeOK, Pieces, Framed, Len(buf) >= HeadSize
    PROVE  /\ At \in 1..Len(frames)
           /\ frames[At].size \in Nat \ {0}
           /\ IsMagic(buf[1]) => frames[At].good
           /\ MsgSize = frames[At].size
           /\ \A i \in 1..Len(buf) : i <= HeadSize + frames[At].size => buf[i] = <<At, i>>
<1>1. frames \in Seq(Frames) /\ buf \in Seq(Bytes)
  BY DEF ReaderTypeOK
<1>2. HeadSize \in Nat \ {0} /\ Len(buf) \in Nat
  BY <1>1, ReaderAssumption, LenProperties
<1>3. Len(buf) > 0
  BY <1>2
<1>4. /\ At \in 1..Len(frames)
      /\ \A i \in 1..Len(buf) : i <= HeadSize + frames[At].size => buf[i] = <<At, i>>
  BY <1>3, FrontOfBuffer
<1>5. frames[At].size \in Nat \ {0}
  BY <1>1, <1>4, SizesOfFrames
<1>6. buf[1] = <<At, 1>> /\ buf[HeadSize] = <<At, HeadSize>>
  BY <1>2, <1>4, <1>5
<1> QED  BY <1>4, <1>5, <1>6 DEF IsMagic, MsgSize, SizeIn

-----------------------------------------------------------------------------
THEOREM InitInvariant == ReaderInit => ReaderIInv
<1> SUFFICES ASSUME ReaderInit  PROVE ReaderIInv
  OBVIOUS
<1>1. ReaderTypeOK
  BY ReaderAssumption DEF ReaderInit, ReaderTypeOK
<1>2. Pieces
  BY DEF ReaderInit, Pieces
<1>3. Framed
  <2> DEFINE off == [k \in 1..1 |-> 0]
  <2>1. Offsets(off) /\ taken = off[Len(got) + 1]
    BY DEF ReaderInit, Offsets
  <2> QED  BY <2>1 DEF ReaderInit, Framed
<1>4. InBounds /\ MessagesIntact /\ NothingWithheld
  BY <1>1, ReaderAssumption DEF ReaderInit, InBounds, MessagesIntact, NothingWithheld
<1> QED  BY <1>1, <1>2, <1>3, <1>4 DEF ReaderIInv

\* A package more: its bytes join the stream and what is still to be read.
\* N, S, R and B abbreviate lengths, to keep arithmetic apart from sequences.
LEMMA PeerSendsKeeps == ReaderIInv /\ PeerSends => ReaderIInv'
<1> SUFFICES ASSUME ReaderIInv, PeerSends  PROVE ReaderIInv'
  OBVIOUS
<1> DEFINE N == Len(frames)
           S == Len(stream)
           R == Len(net)
           B == Len(buf)
           G == Len(got)
<1>1. /\ ReaderTypeOK /\ Pieces /\ Framed /\ InBounds /\ MessagesIntact /\ NothingWithheld
  BY DEF ReaderIInv
<1>2. /\ frames \in Seq(Frames) /\ stream \in Seq(Bytes) /\ buf \in Seq(Bytes)
      /\ net \in Seq(Bytes) /\ got \in Seq(Seq(Bytes))
  BY <1>1 DEF ReaderTypeOK
<1>3. N \in Nat /\ S \in Nat /\ R \in Nat /\ B \in Nat /\ G \in Nat
  BY <1>2, LenProperties
<1>4. taken \in Nat /\ HeadSize \in Nat \ {0} /\ N <= MaxFrames /\ MaxFrames \in Nat
  BY <1>1, ReaderAssumption DEF ReaderTypeOK
<1>5. /\ taken + B + R = S
      /\ \A i \in 1..B : buf[i] = stream[taken + i]
      /\ \A i \in 1..R : net[i] = stream[taken + B + i]
  BY <1>1 DEF Pieces
<1>6. PICK off : Offsets(off) /\ taken = off[G + 1]
  BY <1>1 DEF Framed
<1>7. /\ off \in [1..(N + 1) -> Nat] /\ off[1] = 0 /\ off[N + 1] = S
      /\ \A k \in 1..(N + 1) : off[k] <= S
      /\ \A k \in 1..N : off[k + 1] = off[k] + HeadSize + frames[k].size
      /\ \A k \in 1..N : \A i \in 1..(HeadSize + frames[k].size) : stream[off[k] + i] = <<k, i>>
  BY <1>6 DEF Offsets
<1>8. G <= N
  BY <1>1 DEF Framed
<1>9. PICK size \in Sizes : \E good \in BOOLEAN :
         /\ N < MaxFrames
         /\ frames' = Append(frames, [size |-> size, good |-> good])
         /\ stream' = stream \o Msg2Package(N + 1, size)
         /\ net' = net \o Msg2Package(N + 1, size)
  BY DEF PeerSends
<1>10. UNCHANGED <<buf, cap, reader, taken, got, errors>>
  BY DEF PeerSends
<1>11. PICK frame \in Frames : frames' = Append(frames, frame) /\ frame.size = size
  <2>1. PICK good \in BOOLEAN : frames' = Append(frames, [size |-> size, good |-> good])
    BY <1>9
  <2> QED  BY <2>1 DEF Frames
<1> DEFINE bytes == Msg2Package(N + 1, size)
           L == HeadSize + size
<1>12. size \in Nat \ {0} /\ L \in Nat \ {0}
  BY <1>4, <1>9, ReaderAssumption
<1> HIDE DEF N, S, R, B, G
<1>13. /\ bytes \in Seq(Bytes) /\ Len(bytes) = L
       /\ \A i \in 1..L : bytes[i] = <<N + 1, i>>
  <2>1. bytes = [i \in 1..L |-> <<N + 1, i>>]
    BY DEF Msg2Package
  <2>2. \A i \in 1..L : <<N + 1, i>> \in Bytes
    BY <1>3, <1>12 DEF Bytes
  <2> HIDE DEF bytes, L
  <2> QED  BY <1>12, <2>1, <2>2
<1>14. stream' = stream \o bytes /\ net' = net \o bytes
  BY <1>9
<1> HIDE DEF bytes, L
<1>15. /\ frames' \in Seq(Frames) /\ Len(frames') = N + 1 /\ frames'[N + 1] = frame
       /\ \A k \in 1..N : frames'[k] = frames[k]
  BY <1>2, <1>11, AppendProperties DEF N
<1>16. /\ stream' \in Seq(Bytes) /\ Len(stream') = S + L
       /\ \A i \in 1..S : stream'[i] = stream[i]
       /\ \A i \in 1..L : stream'[S + i] = <<N + 1, i>>
  <2>1. /\ stream' \in Seq(Bytes) /\ Len(stream') = S + L
        /\ \A i \in 1..(S + L) : stream'[i] = IF i <= S THEN stream[i] ELSE bytes[i - S]
    <3>1. /\ stream' \in Seq(Bytes) /\ Len(stream') = Len(stream) + Len(bytes)
          /\ \A i \in 1..(Len(stream) + Len(bytes)) :
                stream'[i] = IF i <= Len(stream) THEN stream[i] ELSE bytes[i - Len(stream)]
      BY <1>2, <1>13, <1>14, ConcatProperties
    <3> QED  BY <3>1, <1>13 DEF S
  <2>2. \A i \in 1..S : i \in 1..(S + L) /\ i <= S
    BY <1>3, <1>12
  <2>3. \A i \in 1..L : S + i \in 1..(S + L) /\ ~(S + i <= S) /\ (S + i) - S = i
    BY <1>3, <1>12
  <2> QED  BY <2>1, <2>2, <2>3, <1>13
<1>17. /\ net' \in Seq(Bytes) /\ Len(net') = R + L
       /\ \A i \in 1..R : net'[i] = net[i]
       /\ \A i \in 1..L : net'[R + i] = <<N + 1, i>>
  <2>1. /\ net' \in Seq(Bytes) /\ Len(net') = R + L
        /\ \A i \in 1..(R + L) : net'[i] = IF i <= R THEN net[i] ELSE bytes[i - R]
    <3>1. /\ net' \in Seq(Bytes) /\ Len(net') = Len(net) + Len(bytes)
          /\ \A i \in 1..(Len(net) + Len(bytes)) :
                net'[i] = IF i <= Len(net) THEN net[i] ELSE bytes[i - Len(net)]
      BY <1>2, <1>13, <1>14, ConcatProperties
    <3> QED  BY <3>1, <1>13 DEF R
  <2>2. \A i \in 1..R : i \in 1..(R + L) /\ i <= R
    BY <1>3, <1>12
  <2>3. \A i \in 1..L : R + i \in 1..(R + L) /\ ~(R + i <= R) /\ (R + i) - R = i
    BY <1>3, <1>12
  <2> QED  BY <2>1, <2>2, <2>3, <1>13
<1>18. ReaderTypeOK'
  <2>1. N + 1 <= MaxFrames
    BY <1>3, <1>4, <1>9
  <2>2. Len(frames') <= MaxFrames
    BY <2>1, <1>15
  <2> QED  BY <2>2, <1>1, <1>10, <1>15, <1>16, <1>17 DEF ReaderTypeOK
<1>19. Pieces'
  <2>1. taken + B + (R + L) = S + L
    BY <1>3, <1>4, <1>5, <1>12
  <2>2. ASSUME NEW i \in 1..B  PROVE buf[i] = stream'[taken + i]
    <3>1. taken + i \in 1..S
      BY <1>3, <1>4, <1>5
    <3> QED  BY <3>1, <1>5, <1>16
  <2>3. ASSUME NEW i \in 1..(R + L)  PROVE net'[i] = stream'[taken + B + i]
    <3>1. CASE i <= R
      <4>1. i \in 1..R /\ taken + B + i \in 1..S
        BY <3>1, <1>3, <1>4, <1>5
      <4> QED  BY <4>1, <1>5, <1>16, <1>17
    <3>2. CASE ~(i <= R)
      <4>1. PICK j \in 1..L : i = R + j
        BY <3>2, <1>3, <1>12
      <4>2. taken + B + i = S + j
        BY <4>1, <1>3, <1>4, <1>5
      <4> QED  BY <4>1, <4>2, <1>16, <1>17
    <3> QED  BY <3>1, <3>2
  <2> QED  BY <2>1, <2>2, <2>3, <1>10, <1>16, <1>17 DEF Pieces, B
<1>20. Framed'
  <2> DEFINE new == [k \in 1..(N + 2) |-> IF k <= N + 1 THEN off[k] ELSE S + L]
  <2>1. \A k \in 1..(N + 1) : off[k] \in Nat /\ off[k] <= S
    BY <1>7
  <2>2. S + L \in Nat /\ S <= S + L /\ \A k \in 1..(N + 1) : off[k] <= S + L
    BY <2>1, <1>3, <1>12
  <2>3. /\ 1 \in 1..(N + 2) /\ 1 <= N + 1 /\ N + 2 \in 1..(N + 2) /\ ~(N + 2 <= N + 1)
        /\ \A k \in 1..(N + 1) : k \in 1..(N + 2) /\ k <= N + 1
        /\ \A k \in 1..(N + 2) : k \in 1..(N + 1) \/ (k = N + 2 /\ ~(k <= N + 1))
    BY <1>3
  <2>4. /\ new \in [1..(N + 2) -> Nat] /\ new[N + 2] = S + L
        /\ \A k \in 1..(N + 1) : new[k] = off[k]
    BY <2>1, <2>2, <2>3
  <2> HIDE DEF new
  <2>5. 1 \in 1..(N + 1)
    BY <1>3
  <2>6. new[1] = 0
    BY <2>4, <2>5, <1>7
  <2>7. \A k \in 1..(N + 2) : new[k] <= S + L
    BY <2>2, <2>3, <2>4
  <2>8. ASSUME NEW k \in 1..(N + 1)
        PROVE  /\ new[k + 1] = new[k] + HeadSize + frames'[k].size
               /\ \A i \in 1..(HeadSize + frames'[k].size) : stream'[new[k] + i] = <<k, i>>
    <3>1. CASE k = N + 1
      <4>1. k + 1 = N + 2 /\ k \in 1..(N + 1)
        BY <3>1, <1>3
      <4>2. frames'[k].size = size
        BY <3>1, <1>11, <1>15
      <4>3. new[k] = S /\ new[k + 1] = S + L
        BY <3>1, <4>1, <2>4, <1>7
      <4>4. S + L = S + HeadSize + size
        BY <1>3, <1>4, <1>12 DEF L
      <4> QED  BY <3>1, <4>2, <4>3, <4>4, <1>16 DEF L
    <3>2. CASE k # N + 1
      <4>1. k \in 1..N /\ k \in 1..(N + 1) /\ k + 1 \in 1..(N + 1)
        BY <3>2, <1>3
      <4>2. frames'[k].size = frames[k].size /\ frames[k].size \in Nat
        BY <4>1, <1>2, <1>15, SizesOfFrames DEF N
      <4>3. new[k] = off[k] /\ new[k + 1] = off[k + 1]
        BY <4>1, <2>4
      <4> DEFINE f == frames[k].size
                 a == off[k]
                 b == off[k + 1]
      <4>4. a \in Nat /\ b <= S /\ b = a + HeadSize + f /\ f \in Nat
        BY <4>1, <4>2, <2>1, <1>7
      <4> HIDE DEF f, a, b
      <4>5. \A i \in 1..(HeadSize + f) : a + i \in 1..S
        BY <4>4, <1>3, <1>4
      <4>6. \A i \in 1..(HeadSize + f) : stream'[a + i] = stream[a + i]
        BY <4>5, <1>16
      <4> QED  BY <4>1, <4>2, <4>3, <4>4, <4>6, <1>7 DEF f, a, b
    <3> QED  BY <3>1, <3>2
  <2>9. Len(frames') + 1 = N + 2
    BY <1>3, <1>15
  <2>10. /\ new \in [1..(Len(frames') + 1) -> Nat]
         /\ new[1] = 0 /\ new[Len(frames') + 1] = Len(stream')
         /\ \A k \in 1..(Len(frames') + 1) : new[k] <= Len(stream')
    BY <2>4, <2>6, <2>7, <2>9, <1>16
  <2>11. \A k \in 1..Len(frames') :
           /\ new[k + 1] = new[k] + HeadSize + frames'[k].size
           /\ \A i \in 1..(HeadSize + frames'[k].size) : stream'[new[k] + i] = <<k, i>>
    BY <2>8, <1>15
  <2>12. \E o : Offsets(o)' /\ o = new
    BY <2>10, <2>11 DEF Offsets
  <2>13. G <= N + 1 /\ G + 1 \in 1..(N + 1)
    BY <1>3, <1>8
  <2>14. taken = new[G + 1]
    BY <2>4, <2>13, <1>6
  <2>15. Len(got') <= Len(frames') /\ taken' = new[Len(got') + 1]
    BY <2>13, <2>14, <1>10, <1>15 DEF G
  <2> QED  BY <2>12, <2>15 DEF Framed
<1>21. InBounds'
  BY <1>1, <1>10, <1>18 DEF InBounds
<1>22. MessagesIntact'
  <2>1. \A k \in 1..G : k \in 1..N /\ \A j \in 1..k : j \in 1..N
    BY <1>3, <1>8
  <2>2. \A k \in 1..G : /\ \A j \in 1..k : frames'[j].good
                        /\ got[k] = SubSeq(Msg2Package(k, frames'[k].size), HeadSize + 1,
                                           HeadSize + frames'[k].size)
    BY <2>1, <1>1, <1>15 DEF MessagesIntact, G
  <2> QED  BY <2>2, <1>10 DEF MessagesIntact, G
<1>23. NothingWithheld'
  <2>1. CASE G = N
    <3>1. taken = S
      BY <2>1, <1>6, <1>7
    <3>2. B = 0 /\ B < L
      BY <3>1, <1>3, <1>4, <1>5, <1>12
    <3>3. frames'[G + 1].size = size
      BY <2>1, <1>11, <1>15
    <3> QED  BY <3>2, <3>3, <1>10 DEF NothingWithheld, G, B, L
  <2>2. CASE G # N
    <3>1. G < N /\ G + 1 \in 1..N
      BY <2>2, <1>3, <1>8
    <3>2. frames'[G + 1] = frames[G + 1]
      BY <3>1, <1>15
    <3>3. reader = "idle" /\ errors = 0 => B < HeadSize + frames[G + 1].size
      BY <3>1, <1>1 DEF NothingWithheld, G, N, B
    <3> QED  BY <3>2, <3>3, <1>10 DEF NothingWithheld, G, B
  <2> QED  BY <2>1, <2>2
<1> QED  BY <1>18, <1>19, <1>20, <1>21, <1>22, <1>23 DEF ReaderIInv

\* A chunk moves from the unread bytes to the end of the buffer.
LEMMA SetBufferKeeps == ReaderIInv /\ SetBuffer => ReaderIInv'
<1> SUFFICES ASSUME ReaderIInv, SetBuffer  PROVE ReaderIInv'
  OBVIOUS
<1> DEFINE S == Len(stream)
           R == Len(net)
           B == Len(buf)
<1>1. /\ ReaderTypeOK /\ Pieces /\ Framed /\ InBounds /\ MessagesIntact
  BY DEF ReaderIInv
<1>2. stream \in Seq(Bytes) /\ buf \in Seq(Bytes) /\ net \in Seq(Bytes)
  BY <1>1 DEF ReaderTypeOK
<1>3. S \in Nat /\ R \in Nat /\ B \in Nat /\ taken \in Nat
  BY <1>1, <1>2, LenProperties DEF ReaderTypeOK
<1>4. /\ taken + B + R = S
      /\ \A i \in 1..B : buf[i] = stream[taken + i]
      /\ \A i \in 1..R : net[i] = stream[taken + B + i]
  BY <1>1 DEF Pieces
<1>5. PICK n \in 1..MaxChunk :
         /\ n <= R /\ CheckBufferLength(B + n)
         /\ buf' = buf \o SubSeq(net, 1, n) /\ net' = SubSeq(net, n + 1, R)
  BY DEF SetBuffer
<1>6. reader' = "loop" /\ UNCHANGED <<frames, stream, taken, got, errors>>
  BY DEF SetBuffer
<1>7. n \in Nat \ {0} /\ n <= MaxChunk
  BY <1>5, ReaderAssumption
<1> DEFINE chunk == SubSeq(net, 1, n)
<1>8. /\ chunk \in Seq(Bytes) /\ Len(chunk) = n /\ \A i \in 1..n : chunk[i] = net[i]
  <2>1. 1 \in 1..(R + 1) /\ n \in (1 - 1)..R /\ 1..n \subseteq 1..R
    BY <1>3, <1>5, <1>7
  <2>2. 1..(n - 1 + 1) = 1..n /\ n - 1 + 1 = n /\ \A i \in 1..n : 1 + i - 1 = i
    BY <1>7
  <2> HIDE DEF R
  <2>3. n <= Len(net) /\ Len(net) = R
    BY <1>5 DEF R
  <2> QED  BY <1>2, <1>3, <1>7, <2>1, <2>2, <2>3, SubSeqProperties
<1>9. /\ net' \in Seq(Bytes) /\ Len(net') = R - n
      /\ \A i \in 1..(R - n) : net'[i] = net[n + i]
  <2> HIDE DEF R
  <2>1. Len(net) = R
    BY DEF R
  <2> QED  BY <1>2, <1>3, <1>5, <1>7, <2>1, SubSeqProperties
<1> HIDE DEF S, R, B, chunk
<1>10. /\ buf' \in Seq(Bytes) /\ Len(buf') = B + n
       /\ \A i \in 1..B : buf'[i] = buf[i]
       /\ \A i \in 1..n : buf'[B + i] = net[i]
  <2>1. buf' = buf \o chunk
    BY <1>5 DEF chunk
  <2>2. /\ buf' \in Seq(Bytes) /\ Len(buf') = B + n
        /\ \A i \in 1..(B + n) : buf'[i] = IF i <= B THEN buf[i] ELSE chunk[i - B]
    <3>1. /\ buf' \in Seq(Bytes) /\ Len(buf') = Len(buf) + Len(chunk)
          /\ \A i \in 1..(Len(buf) + Len(chunk)) :
                buf'[i] = IF i <= Len(buf) THEN buf[i] ELSE chunk[i - Len(buf)]
      BY <1>2, <1>8, <2>1, ConcatProperties
    <3> QED  BY <3>1, <1>8 DEF B
  <2>3. \A i \in 1..B : i \in 1..(B + n) /\ i <= B
    BY <1>3, <1>7
  <2>4. \A i \in 1..n : B + i \in 1..(B + n) /\ ~(B + i <= B) /\ (B + i) - B = i
    BY <1>3, <1>7
  <2> QED  BY <2>2, <2>3, <2>4, <1>8
<1>11. cap' \in Nat /\ cap' >= InitCap /\ B + n <= cap'
  <2>1. cap \in Nat /\ cap >= InitCap /\ B <= cap
    BY <1>1 DEF ReaderTypeOK, InBounds, B
  <2>2. InitCap \in Nat /\ MaxChunk \in Nat /\ MaxChunk <= InitCap
    BY ReaderAssumption
  <2>3. cap' = IF B + n > cap THEN cap * 2 ELSE cap
    BY <1>5 DEF CheckBufferLength
  <2> QED  BY <2>1, <2>2, <2>3, <1>3, <1>7
<1>12. ReaderTypeOK'
  BY <1>1, <1>6, <1>9, <1>10, <1>11 DEF ReaderTypeOK
<1>13. Pieces'
  <2>1. taken + (B + n) + (R - n) = S
    BY <1>3, <1>4, <1>7
  <2>2. ASSUME NEW i \in 1..(B + n)  PROVE buf'[i] = stream[taken + i]
    <3>1. CASE i \in 1..B
      BY <3>1, <1>4, <1>10
    <3>2. CASE i \notin 1..B
      <4>1. PICK j \in 1..n : i = B + j
        BY <3>2, <1>3, <1>7
      <4>2. j \in 1..R /\ taken + i = taken + B + j
        BY <4>1, <1>3, <1>5, <1>7 DEF R
      <4> QED  BY <4>1, <4>2, <1>4, <1>10
    <3> QED  BY <3>1, <3>2
  <2>3. ASSUME NEW i \in 1..(R - n)  PROVE net'[i] = stream[taken + (B + n) + i]
    <3>1. n + i \in 1..R /\ taken + B + (n + i) = taken + (B + n) + i
      BY <1>3, <1>7
    <3> QED  BY <3>1, <1>4, <1>9
  <2> QED  BY <2>1, <2>2, <2>3, <1>6, <1>9, <1>10 DEF Pieces, S
<1>14. Framed'
  BY <1>1, <1>6 DEF Framed, Offsets
<1>15. InBounds'
  BY <1>10, <1>11, <1>12 DEF InBounds
<1>16. MessagesIntact'
  BY <1>1, <1>6 DEF MessagesIntact
<1>17. NothingWithheld'
  BY <1>6 DEF NothingWithheld
<1> QED  BY <1>12, <1>13, <1>14, <1>15, <1>16, <1>17 DEF ReaderIInv

\* The package the reader is at is complete: it is handed on and consumed.
LEMMA DeliverKeeps == ReaderIInv /\ Deliver => ReaderIInv'
<1> SUFFICES ASSUME ReaderIInv, Deliver  PROVE ReaderIInv'
  OBVIOUS
<1> DEFINE S == Len(stream)
           R == Len(net)
           B == Len(buf)
           G == Len(got)
           N == Len(frames)
           size == frames[At].size
           L == HeadSize + size
           msg == SubSeq(buf, HeadSize + 1, L)
<1>1. /\ ReaderTypeOK /\ Pieces /\ Framed /\ InBounds /\ MessagesIntact
  BY DEF ReaderIInv
<1>2. /\ stream \in Seq(Bytes) /\ buf \in Seq(Bytes) /\ net \in Seq(Bytes)
      /\ got \in Seq(Seq(Bytes)) /\ frames \in Seq(Frames)
  BY <1>1 DEF ReaderTypeOK
<1>3. S \in Nat /\ R \in Nat /\ B \in Nat /\ G \in Nat /\ N \in Nat /\ taken \in Nat
  BY <1>1, <1>2, LenProperties DEF ReaderTypeOK
<1>4. /\ At \in 1..N /\ size \in Nat \ {0}
      /\ frames[At].good /\ MsgSize = size
      /\ \A i \in 1..B : i <= L => buf[i] = <<At, i>>
  BY <1>1, HeaderOfPackage DEF Deliver
<1>5. HeadSize \in Nat \ {0} /\ L \in Nat \ {0}
  BY <1>4, ReaderAssumption
<1>6. L <= B
  BY <1>4 DEF Deliver, Complete
<1>7. /\ got' = Append(got, msg) /\ buf' = SubSeq(buf, L + 1, B) /\ taken' = taken + L
      /\ UNCHANGED <<frames, stream, net, cap, errors>> /\ reader' \in {"loop", "undefined"}
  <2>1. taken' = taken + HeadSize + size
    <3>1. taken' = taken + (HeadSize + size)
      BY <1>4 DEF Deliver, Shift
    <3> QED  BY <3>1, <1>3, <1>4, <1>5
  <2>2. taken + HeadSize + size = taken + L
    BY <1>3, <1>4, <1>5
  <2>3. reader' \in {"loop", "undefined"}
    BY DEF Deliver, Shift
  <2> QED  BY <2>1, <2>2, <2>3, <1>4 DEF Deliver, Shift
<1>8. At = G + 1
  BY DEF At
<1> HIDE DEF S, B, G, N, R, size, msg
<1>9. /\ buf' \in Seq(Bytes) /\ Len(buf') = B - L
      /\ \A i \in 1..(B - L) : buf'[i] = buf[L + i]
  <2> HIDE DEF L
  <2>1. Len(buf) = B
    BY DEF B
  <2> QED  BY <1>2, <1>3, <1>5, <1>6, <1>7, <2>1, SubSeqProperties
<1>10. msg \in Seq(Bytes) /\ msg = SubSeq(Msg2Package(At, size), HeadSize + 1, L)
  <2> DEFINE bytes == Msg2Package(At, size)
  <2>1. bytes = [i \in 1..L |-> <<At, i>>]
    BY DEF Msg2Package
  <2>2. \A i \in 1..L : i \in 1..B /\ i <= L
    BY <1>3, <1>5, <1>6
  <2>3. \A i \in 1..L : buf[i] = <<At, i>> /\ <<At, i>> \in Bytes
    BY <2>2, <1>3, <1>4, <1>5 DEF Bytes
  <2> HIDE DEF bytes
  <2>4. bytes \in Seq(Bytes) /\ Len(bytes) = L /\ \A i \in 1..L : bytes[i] = buf[i]
    <3>1. L \in Nat
      BY <1>5
    <3> HIDE DEF L
    <3>2. bytes = [i \in 1..L |-> <<At, i>>] /\ \A i \in 1..L : <<At, i>> \in Bytes
      BY <2>1, <2>3
    <3>3. bytes \in Seq(Bytes) /\ Len(bytes) = L
      BY <3>1, <3>2
    <3> QED  BY <2>3, <3>2, <3>3
  <2>5. HeadSize \in Nat /\ L \in Nat /\ HeadSize <= L /\ L - HeadSize = size
    BY <1>4, <1>5
  <2>6. \A i \in 1..size : HeadSize + i \in 1..L
    BY <1>4, <1>5
  <2> HIDE DEF L
  <2>7. /\ msg \in Seq(Bytes) /\ Len(msg) = size
        /\ \A i \in 1..size : msg[i] = buf[HeadSize + i]
    <3>1. L <= Len(buf)
      BY <1>6 DEF B
    <3> QED  BY <1>2, <2>5, <3>1, Middle DEF msg
  <2> DEFINE sent == SubSeq(bytes, HeadSize + 1, L)
  <2>8. /\ sent \in Seq(Bytes) /\ Len(sent) = size
        /\ \A i \in 1..size : sent[i] = bytes[HeadSize + i]
    BY <2>4, <2>5, Middle
  <2> HIDE DEF sent
  <2>9. \A i \in 1..size : msg[i] = sent[i]
    BY <2>4, <2>6, <2>7, <2>8
  <2>10. msg = sent
    BY <2>7, <2>8, <2>9, SeqEqual
  <2> QED  BY <2>7, <2>10 DEF sent, bytes
<1>11. /\ got' \in Seq(Seq(Bytes)) /\ Len(got') = G + 1 /\ got'[G + 1] = msg
       /\ \A k \in 1..G : got'[k] = got[k]
  BY <1>2, <1>7, <1>10, AppendProperties, SMTT(30) DEF G
<1>12. ReaderTypeOK'
  <2>1. taken + L \in Nat
    BY <1>3, <1>5
  <2> QED  BY <2>1, <1>1, <1>7, <1>9, <1>11 DEF ReaderTypeOK
<1>13. /\ taken + B + R = S
       /\ \A i \in 1..B : buf[i] = stream[taken + i]
       /\ \A i \in 1..R : net[i] = stream[taken + B + i]
  BY <1>1 DEF Pieces, B, R, S
<1>14. Pieces'
  <2> HIDE DEF L
  <2>1. (taken + L) + (B - L) + R = S
    BY <1>3, <1>5, <1>13
  <2>2. ASSUME NEW i \in 1..(B - L)  PROVE buf'[i] = stream[(taken + L) + i]
    <3>1. L + i \in 1..B /\ taken + (L + i) = (taken + L) + i
      BY <1>3, <1>5, <1>6
    <3> QED  BY <3>1, <1>9, <1>13
  <2>3. ASSUME NEW i \in 1..R  PROVE net[i] = stream[(taken + L) + (B - L) + i]
    <3>1. taken + B + i = (taken + L) + (B - L) + i
      BY <1>3, <1>5
    <3> QED  BY <3>1, <1>13
  <2> QED  BY <2>1, <2>2, <2>3, <1>7, <1>9 DEF Pieces, R, S
<1>15. Framed'
  <2>1. PICK off : Offsets(off) /\ taken = off[G + 1]
    BY <1>1 DEF Framed, G
  <2>2. off[At + 1] = off[At] + HeadSize + size /\ off[At] = taken
    BY <2>1, <1>4, <1>8 DEF Offsets, N, size
  <2>3. off[(G + 1) + 1] = taken + L
    BY <2>2, <1>3, <1>4, <1>5, <1>8
  <2>4. Offsets(off)'
    BY <2>1, <1>7 DEF Offsets
  <2>5. G + 1 <= N
    BY <1>3, <1>4, <1>8
  <2> QED  BY <2>3, <2>4, <2>5, <1>7, <1>11 DEF Framed, N
<1>16. InBounds'
  <2>1. B <= cap /\ cap \in Nat
    BY <1>1 DEF InBounds, B, ReaderTypeOK
  <2>2. B - L <= cap
    BY <2>1, <1>3, <1>5
  <2> QED  BY <2>2, <1>7, <1>9, <1>12 DEF InBounds
<1>17. MessagesIntact'
  <2>1. ASSUME NEW k \in 1..(G + 1)
        PROVE  /\ \A j \in 1..k : frames[j].good
               /\ got'[k] = SubSeq(Msg2Package(k, frames[k].size), HeadSize + 1,
                                   HeadSize + frames[k].size)
    <3>1. \A m \in 1..G : /\ \A j \in 1..m : frames[j].good
                          /\ got[m] = SubSeq(Msg2Package(m, frames[m].size), HeadSize + 1,
                                             HeadSize + frames[m].size)
      BY <1>1 DEF MessagesIntact, G
    <3>2. CASE k \in 1..G
      BY <3>1, <3>2, <1>11
    <3>3. CASE k \notin 1..G
      <4>1. k = At
        BY <3>3, <1>3, <1>8
      <4>2. \A j \in 1..k : j = At \/ (j \in 1..G /\ j \in 1..j)
        BY <4>1, <1>3, <1>8
      <4>3. \A j \in 1..k : frames[j].good
        BY <4>2, <3>1, <1>4
      <4>4. got'[k] = msg
        BY <4>1, <1>8, <1>11
      <4> QED  BY <4>1, <4>3, <4>4, <1>10 DEF size
    <3> QED  BY <3>2, <3>3
  <2> QED  BY <2>1, <1>7, <1>11 DEF MessagesIntact
<1>18. NothingWithheld'
  <2>1. reader' # "idle"
    BY <1>7
  <2> QED  BY <2>1 DEF NothingWithheld
<1> QED  BY <1>12, <1>14, <1>15, <1>16, <1>17, <1>18 DEF ReaderIInv

\* The ends of the loop change no data.
LEMMA EndOfLoopKeeps == ReaderIInv /\ (Unpackage \/ AwaitMore) => ReaderIInv'
<1> SUFFICES ASSUME ReaderIInv, Unpackage \/ AwaitMore  PROVE ReaderIInv'
  OBVIOUS
<1>1. /\ ReaderTypeOK /\ Pieces /\ Framed /\ InBounds /\ MessagesIntact
  BY DEF ReaderIInv
<1>2. reader' = "idle" /\ UNCHANGED <<frames, stream, net, buf, cap, taken, got>>
  BY DEF Unpackage, AwaitMore
<1>3. errors \in Nat /\ errors' \in Nat /\ (Unpackage => errors' # 0)
  BY <1>1 DEF ReaderTypeOK, Unpackage, AwaitMore
<1>4. ReaderTypeOK'
  BY <1>1, <1>2, <1>3 DEF ReaderTypeOK
<1>5. Pieces' /\ Framed' /\ InBounds' /\ MessagesIntact'
  BY <1>1, <1>2, <1>4, ZenonT(30) DEF Pieces, Framed, Offsets, InBounds, MessagesIntact
<1>6. NothingWithheld'
  <2>1. CASE Unpackage
    BY <2>1, <1>3 DEF NothingWithheld
  <2>2. CASE AwaitMore
    <3> DEFINE L == HeadSize + frames[At].size
    <3>1. SUFFICES ASSUME Len(got) < Len(frames)  PROVE Len(buf) < L
      BY <1>2 DEF NothingWithheld, At
    <3>2. Len(buf) \in Nat /\ Len(frames) \in Nat /\ Len(got) \in Nat
      BY <1>1, LenProperties DEF ReaderTypeOK
    <3>3. At \in 1..Len(frames)
      BY <3>1, <3>2 DEF At
    <3>4. frames[At].size \in Nat \ {0} /\ HeadSize \in Nat
      BY <1>1, <3>3, SizesOfFrames, ReaderAssumption DEF ReaderTypeOK
    <3>5. CASE Len(buf) >= HeadSize
      <4>1. MsgSize = frames[At].size
        BY <1>1, <3>5, HeaderOfPackage
      <4>2. ~(Len(buf) >= L)
        BY <2>2, <3>5, <4>1 DEF AwaitMore, Complete
      <4> HIDE DEF L
      <4>3. L \in Nat
        BY <3>4 DEF L
      <4> QED  BY <3>2, <4>2, <4>3
    <3>6. CASE ~(Len(buf) >= HeadSize)
      BY <3>2, <3>4, <3>6
    <3> QED  BY <3>5, <3>6
  <2> QED  BY <2>1, <2>2
<1> QED  BY <1>4, <1>5, <1>6 DEF ReaderIInv

THEOREM ReaderInvariance == ReaderSpec => []ReaderIInv
<1>1. ReaderIInv /\ [ReaderNext]_readerVars => ReaderIInv'
  <2> SUFFICES ASSUME ReaderIInv, [ReaderNext]_readerVars  PROVE ReaderIInv'
    OBVIOUS
  <2>1. CASE PeerSends
    BY <2>1, PeerSendsKeeps
  <2>2. CASE SetBuffer
    BY <2>2, SetBufferKeeps
  <2>3. CASE Deliver
    BY <2>3, DeliverKeeps
  <2>4. CASE Unpackage \/ AwaitMore
    BY <2>4, EndOfLoopKeeps
  <2>5. CASE UNCHANGED readerVars
    BY <2>5, ZenonT(30)
       DEF readerVars, ReaderIInv, ReaderTypeOK, Pieces, Framed, Offsets, InBounds, MessagesIntact,
                NothingWithheld
  <2> QED  BY <2>1, <2>2, <2>3, <2>4, <2>5 DEF ReaderNext
<1> QED  BY InitInvariant, <1>1, PTL DEF ReaderSpec

-----------------------------------------------------------------------------
\* The state keeps its types, and SetBuffer's memcpy stays in the buffer, for
\* any buffer and header size, as long as no chunk is larger than the buffer
\* at first.
THEOREM NeverOverrun == ReaderSpec => []InBounds
<1>1. ReaderIInv => InBounds
  BY DEF ReaderIInv
<1> QED  BY <1>1, ReaderInvariance, PTL

\* The callback gets the messages that were sent, whole and in order, and none
\* from behind a package with a wrong magic, however the stream was cut: up to the
\* first memcpy on overlapping ranges (LibUvHelper.h:165) that does not come out
\* right, where the model stops.
THEOREM DeliveredIntact == ReaderSpec => []MessagesIntact
<1>1. ReaderIInv => MessagesIntact
  BY DEF ReaderIInv
<1> QED  BY <1>1, ReaderInvariance, PTL

\* SetBuffer returns with no complete message left in the buffer; with the same
\* reservation.
THEOREM DeliveredAtOnce == ReaderSpec => []NothingWithheld
<1>1. ReaderIInv => NothingWithheld
  BY DEF ReaderIInv
<1> QED  BY <1>1, ReaderInvariance, PTL
=============================================================================
