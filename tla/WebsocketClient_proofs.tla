----------------------- MODULE WebsocketClient_proofs -----------------------
(***************************************************************************)
(* Proofs about WebsocketClient for any WebSocks, addresses and numbers of *)
(* requests, connections and messages.                                     *)
(*                                                                         *)
(* The inductive invariant adds to the checked properties how the service  *)
(* thread and libwebsockets take turns and that a decision is about some   *)
(* WebSock (Turns), which WebSock the connection being made belongs to     *)
(* (Making), that only a WebSock with a                                    *)
(* connection to its name has a wsi_ (Owned), whose connection each queued *)
(* record was meant for (Addressed), that a loss of any open connection    *)
(* will be reported (Watched), and that a closed WebSock has bFirst_       *)
(* raised, so that the thread decides on nothing new for it (ClosedFirmly).*)
(***************************************************************************)
EXTENDS WebsocketClient, SequenceTheorems, TLAPS

Turns ==
  /\ pc # "ask" => updateds = {}
  /\ pc # "service" => dying = {}
  /\ up \cup dying \subseteq Open
  /\ pc \in {"lost", "test", "again"} => retry.websock_ \in Socks

Making ==
  /\ fresh \in [websock_ : Socks \cup {NoSock}, wsi : Wsis \cup {NoWsi},
                next : {"top", "delayed", "taken"}]
  /\ IF pc = "register"
     THEN /\ fresh.websock_ # NoSock /\ fresh.wsi \in Open \ up
          /\ wsi_[fresh.websock_] = fresh.wsi /\ own[fresh.websock_] = conn[fresh.wsi]
     ELSE fresh.websock_ = NoSock

Owned ==
  /\ conns \in 0..MaxConns /\ closed \subseteq Socks
  /\ \A s \in Socks : own[s] <= conns /\ (wsi_[s] # NoWsi => own[s] # 0)

Addressed ==
  \A w \in DOMAIN client_message_cache_ :
    LET buf == client_message_cache_[w].sendBuf_
    IN  \A i \in 1..Len(buf) : buf[i].late \/ buf[i].on = conn[w]

Watched ==
  \A w \in Open : \/ ItemOf(w).websock_ # NoSock
                  \/ conn[w] \in wiped
                  \/ pc = "register" /\ fresh.wsi = w

Settled(q, s) == \A i \in 1..Len(q) : q[i].websock_ = s => q[i].old

ClosedFirmly ==
  \A s \in closed :
    /\ Settled(connect_queue_, s) /\ Settled(delayed_connect, s) /\ Settled(tmp_connect, s)
    /\ bFirst_[s] /\ (Deciding(s) => retry.old)

IInv == /\ EntriesSound /\ Turns /\ Making /\ Owned /\ Addressed
        /\ Watched /\ ClosedFirmly /\ RightConnection /\ NoticeOfLoss
-----------------------------------------------------------------------------
(* Queues of requests. *)

LEMMA SeqAt ==
    ASSUME NEW S, NEW q \in Seq(S), NEW i \in 1..Len(q)
    PROVE  q[i] \in S
OBVIOUS

LEMMA AppendSettled ==
    ASSUME NEW q \in Seq(Items), NEW e \in Items
    PROVE  /\ Append(q, e) \in Seq(Items)
           /\ \A s : Settled(q, s) /\ (e.websock_ = s => e.old) => Settled(Append(q, e), s)
<1>1. /\ Append(q, e) \in Seq(Items) /\ Len(Append(q, e)) = Len(q) + 1
      /\ \A i \in 1..Len(q) : Append(q, e)[i] = q[i]
      /\ Append(q, e)[Len(q) + 1] = e
  BY AppendProperties
<1>2. Len(q) \in Nat
  BY LenProperties
<1>3. ASSUME NEW s, Settled(q, s), e.websock_ = s => e.old, NEW i \in 1..Len(Append(q, e))
      PROVE  Append(q, e)[i].websock_ = s => Append(q, e)[i].old
  <2>1. i \in 1..Len(q) \/ i = Len(q) + 1
    BY <1>1, <1>2
  <2>2. QED
    BY <1>1, <1>3, <2>1 DEF Settled
<1>4. QED
  BY <1>1, <1>3 DEF Settled

LEMMA TailSettled ==
    ASSUME NEW q \in Seq(Items), q # <<>>
    PROVE  /\ Tail(q) \in Seq(Items) /\ Head(q) \in Items
           /\ \A s : Settled(q, s) => (Head(q).websock_ = s => Head(q).old) /\ Settled(Tail(q), s)
<1>1. /\ Tail(q) \in Seq(Items) /\ Len(Tail(q)) = Len(q) - 1 /\ Head(q) \in Items
      /\ \A i \in 1..(Len(q) - 1) : Tail(q)[i] = q[i + 1]
      /\ Head(q) = q[1]
  BY HeadTailProperties
<1>2. Len(q) \in Nat /\ Len(q) # 0
  BY LenProperties, EmptySeq
<1>3. ASSUME NEW s, Settled(q, s)
      PROVE  (Head(q).websock_ = s => Head(q).old) /\ Settled(Tail(q), s)
  <2>1. 1 \in 1..Len(q)
    BY <1>2
  <2>2. \A i \in 1..Len(Tail(q)) : i + 1 \in 1..Len(q) /\ Tail(q)[i] = q[i + 1]
    BY <1>1, <1>2
  <2>3. QED
    BY <1>1, <1>3, <2>1, <2>2 DEF Settled
<1>4. QED
  BY <1>1, <1>3

\* What Close does to a queue: nothing in it is newer than the Close.
LEMMA MarkedSettled ==
    ASSUME NEW q \in Seq(Items), NEW s
    PROVE  /\ Marked(q, s) \in Seq(Items) /\ Settled(Marked(q, s), s)
           /\ \A t : Settled(q, t) => Settled(Marked(q, s), t)
<1>1. DOMAIN q = 1..Len(q) /\ Len(q) \in Nat
  BY LenProperties
<1>2. ASSUME NEW i \in 1..Len(q)
      PROVE  /\ Marked(q, s)[i] \in Items /\ Marked(q, s)[i].websock_ = q[i].websock_
             /\ q[i].old \/ q[i].websock_ = s => Marked(q, s)[i].old
  <2>1. q[i] \in Items
    BY SeqAt
  <2>2. Marked(q, s)[i] = IF q[i].websock_ = s THEN [q[i] EXCEPT !.old = TRUE] ELSE q[i]
    BY <1>1 DEF Marked
  <2>3. [q[i] EXCEPT !.old = TRUE] \in Items /\ [q[i] EXCEPT !.old = TRUE].old
        /\ [q[i] EXCEPT !.old = TRUE].websock_ = q[i].websock_
    BY <2>1 DEF Items
  <2>4. QED
    BY <2>1, <2>2, <2>3
<1>3. Marked(q, s) = [i \in 1..Len(q) |-> Marked(q, s)[i]]
  BY <1>1 DEF Marked
<1>4. Marked(q, s) \in Seq(Items) /\ Len(Marked(q, s)) = Len(q)
  <2>1. \A i \in 1..Len(q) : Marked(q, s)[i] \in Items
    BY <1>2
  <2>2. Marked(q, s) \in [1..Len(q) -> Items]
    BY <1>3, <2>1
  <2>3. QED
    BY <1>1, <2>2, SeqDef, LenProperties
<1>5. QED
  BY <1>2, <1>4 DEF Settled

\* What RemoveAt leaves was there before.
LEMMA RemoveAtRange ==
    ASSUME NEW S, NEW q \in Seq(S), NEW k \in 1..Len(q)
    PROVE  /\ RemoveAt(q, k) \in Seq(S)
           /\ \A i \in 1..Len(RemoveAt(q, k)) : \E j \in 1..Len(q) : RemoveAt(q, k)[i] = q[j]
<1> DEFINE a == SubSeq(q, 1, k - 1)
           b == SubSeq(q, k + 1, Len(q))
<1>1. Len(q) \in Nat
  BY LenProperties
<1>2. /\ a \in Seq(S) /\ Len(a) = k - 1 /\ \A i \in 1..(k - 1) : a[i] = q[i]
  BY <1>1
<1>3. /\ b \in Seq(S) /\ Len(b) = Len(q) - k /\ \A i \in 1..(Len(q) - k) : b[i] = q[k + i]
  <2>1. b \in Seq(S) /\ Len(b) = Len(q) - k
    BY <1>1
  <2>2. QED
    BY <1>1, <2>1
<1>4. RemoveAt(q, k) = a \o b
  BY DEF RemoveAt
<1> HIDE DEF a, b
<1>5. a \in Seq(S) /\ b \in Seq(S)
  BY <1>2, <1>3
<1>6. /\ a \o b \in Seq(S) /\ Len(a \o b) = Len(a) + Len(b)
      /\ \A i \in 1..Len(a) : (a \o b)[i] = a[i]
      /\ \A i \in Len(a) + 1..Len(a) + Len(b) : (a \o b)[i] = b[i - Len(a)]
  BY <1>5, ConcatProperties
<1>7. \A i \in 1..Len(a \o b) : \E j \in 1..Len(q) : (a \o b)[i] = q[j]
  <2> TAKE i \in 1..Len(a \o b)
  <2>1. CASE i \in 1..(k - 1)
    <3>1. i \in 1..Len(q) /\ (a \o b)[i] = q[i]
      BY <1>1, <1>2, <1>6, <2>1
    <3>2. QED
      BY <3>1
  <2>2. CASE i \in k..(Len(q) - 1)
    <3>1. i - (k - 1) \in 1..(Len(q) - k) /\ i + 1 \in 1..Len(q) /\ k + (i - (k - 1)) = i + 1
      BY <1>1, <2>2
    <3>2. (a \o b)[i] = b[i - (k - 1)]
      BY <1>1, <1>2, <1>3, <1>6, <2>2
    <3>3. b[i - (k - 1)] = q[k + (i - (k - 1))]
      BY <1>3, <3>1
    <3>4. QED
      BY <3>1, <3>2, <3>3
  <2>3. QED
    BY <1>1, <1>2, <1>3, <1>6, <2>1, <2>2
<1>8. QED
  BY <1>4, <1>6, <1>7

LEMMA RemoveSettled ==
    ASSUME NEW q \in Seq(Items), NEW k \in 1..Len(q)
    PROVE  /\ RemoveAt(q, k) \in Seq(Items) /\ q[k] \in Items
           /\ \A s : Settled(q, s) => Settled(RemoveAt(q, k), s)
<1>1. /\ RemoveAt(q, k) \in Seq(Items)
      /\ \A i \in 1..Len(RemoveAt(q, k)) : \E j \in 1..Len(q) : RemoveAt(q, k)[i] = q[j]
  BY RemoveAtRange
<1>2. q[k] \in Items
  BY SeqAt
<1>3. ASSUME NEW s, Settled(q, s) PROVE Settled(RemoveAt(q, k), s)
  BY <1>1, <1>3 DEF Settled
<1>4. QED
  BY <1>1, <1>2, <1>3

LEMMA IInvClosed == IInv => StaysClosed
<1> SUFFICES ASSUME IInv, NEW s \in closed
             PROVE  /\ \A i \in Pending : i.websock_ = s => i.old
                    /\ Deciding(s) => retry.old
  BY DEF StaysClosed
<1>1. {connect_queue_, delayed_connect, tmp_connect} \subseteq Seq(Items)
  BY DEF IInv, EntriesSound, TypeOK
<1>2. /\ DOMAIN connect_queue_ = 1..Len(connect_queue_)
      /\ DOMAIN delayed_connect = 1..Len(delayed_connect)
      /\ DOMAIN tmp_connect = 1..Len(tmp_connect)
  BY <1>1, LenProperties
<1>3. /\ Settled(connect_queue_, s) /\ Settled(delayed_connect, s) /\ Settled(tmp_connect, s)
      /\ Deciding(s) => retry.old
  BY DEF IInv, ClosedFirmly
<1>4. QED
  BY <1>2, <1>3 DEF Settled, Pending, Range
-----------------------------------------------------------------------------
LEMMA NoRetryType == NoRetry \in Retries
<1>1. 0 \in 0..MaxConns
  BY ClientAssumption
<1>2. QED
  BY <1>1 DEF NoRetry, Retries

LEMMA InitIInv == Init => IInv
<1> SUFFICES ASSUME Init PROVE IInv
  OBVIOUS
<1> USE ClientAssumption DEF Init
<1>1. DOMAIN client_message_cache_ = {}
  OBVIOUS
<1>2. TypeOK
  <2>1. /\ wsi_ \in [Socks -> Wsis \cup {NoWsi}] /\ bFirst_ \in [Socks -> BOOLEAN]
        /\ DOMAIN client_message_cache_ \subseteq Wsis
        /\ \A w \in DOMAIN client_message_cache_ : client_message_cache_[w] \in Entries
    BY <1>1
  <2>2. {connect_queue_, delayed_connect, tmp_connect} \subseteq Seq(Items)
    OBVIOUS
  <2>3. conn \in [Wsis -> 0..MaxConns] /\ own \in [Socks -> 0..MaxConns]
    OBVIOUS
  <2>4. QED
    BY <2>1, <2>2, <2>3, NoRetryType DEF TypeOK
<1>3. OpenOrStale /\ NamesOwner /\ Addressed
  BY <1>1 DEF OpenOrStale, NamesOwner, Addressed
<1>4. Open = {}
  BY DEF Open
<1>5. Turns /\ Watched
  BY <1>4 DEF Turns, Watched
<1>6. Making
  BY DEF Making
<1>7. Owned /\ ClosedFirmly /\ RightConnection /\ NoticeOfLoss
  BY DEF Owned, ClosedFirmly, RightConnection, NoticeOfLoss
<1>8. QED
  BY <1>2, <1>3, <1>5, <1>6, <1>7 DEF IInv, EntriesSound
-----------------------------------------------------------------------------
(* Steps that leave the cache and the connections alone. *)

\* The parts of IInv, for the steps below.
LEMMA Parts ==
    IInv <=> /\ TypeOK /\ OpenOrStale /\ NamesOwner /\ Turns /\ Making /\ Owned /\ Addressed
             /\ Watched /\ ClosedFirmly /\ RightConnection /\ NoticeOfLoss
BY DEF IInv, EntriesSound

\* What says nothing of the thread or the queues needs no look at such steps.
LEMMA CacheKept ==
    ASSUME IInv, closed' \subseteq closed,
           UNCHANGED <<shared, wsi_, up, conn, conns, own, written, told, wiped, ended>>,
           pc = "lost" => UNCHANGED <<pc, retry>>
    PROVE  NamesOwner' /\ Owned' /\ Addressed' /\ RightConnection' /\ NoticeOfLoss' /\ Open' = Open
<1> USE DEF shared
<1>1. NamesOwner /\ Owned /\ Addressed /\ RightConnection /\ NoticeOfLoss
  BY Parts
<1>2. Open' = Open
  BY DEF Open
<1>3. NamesOwner'
  BY <1>1, <1>2 DEF NamesOwner
<1>4. Owned'
  BY <1>1 DEF Owned
<1>5. Addressed'
  BY <1>1 DEF Addressed
<1>6. RightConnection' /\ NoticeOfLoss'
  BY <1>1 DEF RightConnection, NoticeOfLoss
<1>7. QED
  BY <1>2, <1>3, <1>4, <1>5, <1>6

LEMMA QuietKeeps == IInv /\ (Stop \/ Top \/ Serviced) => IInv'
<1> SUFFICES ASSUME IInv, Stop \/ Top \/ Serviced PROVE IInv'
  OBVIOUS
<1>1. /\ UNCHANGED <<sock, shared, queue, retry, delayed_connect, tmp_connect, fresh, updateds,
                     lws, count, seen>>
      /\ stopped_' \in BOOLEAN
      /\ \/ pc' = pc
         \/ pc = "top" /\ pc' \in {"ended", "delayed"}
         \/ pc = "service" /\ dying = {} /\ pc' = "top"
  BY Parts DEF TypeOK, Stop, Top, Serviced, Serving, thread
<1> USE <1>1 DEF sock, shared, queue, lws, count, seen
<1>2. TypeOK /\ OpenOrStale /\ Turns /\ Making /\ Watched /\ ClosedFirmly
  BY Parts
<1>3. NamesOwner' /\ Owned' /\ Addressed' /\ RightConnection' /\ NoticeOfLoss' /\ Open' = Open
  BY CacheKept
<1>4. TypeOK'
  BY <1>2 DEF TypeOK
<1>5. OpenOrStale' /\ Turns'
  BY <1>2, <1>3 DEF OpenOrStale, Turns
<1>6. Making'
  BY <1>2, <1>3 DEF Making
<1>7. Watched'
  BY <1>2, <1>3 DEF Watched, ItemOf
<1>8. ClosedFirmly'
  BY <1>2 DEF ClosedFirmly, Settled, Deciding
<1>9. QED
  BY <1>3, <1>4, <1>5, <1>6, <1>7, <1>8, Parts, PTL

LEMMA PeerGoneKeeps == ASSUME IInv, NEW w \in Wsis, PeerGone(w) PROVE IInv'
<1>1. /\ pc = "service" /\ w \in Open /\ dying' = {w}
      /\ UNCHANGED <<sock, shared, queue, stopped_, pc, retry, delayed_connect, tmp_connect, fresh,
                     updateds, up, writable, conn, count, seen>>
  BY DEF PeerGone, Serving, thread
<1> USE <1>1 DEF sock, shared, queue, count, seen
<1>2. TypeOK /\ OpenOrStale /\ Turns /\ Making /\ Watched /\ ClosedFirmly
  BY Parts
<1>3. NamesOwner' /\ Owned' /\ Addressed' /\ RightConnection' /\ NoticeOfLoss' /\ Open' = Open
  BY CacheKept
<1>4. TypeOK'
  BY <1>2 DEF TypeOK
<1>5. OpenOrStale' /\ Turns'
  BY <1>2, <1>3 DEF OpenOrStale, Turns
<1>6. Making' /\ Watched' /\ ClosedFirmly'
  BY <1>2, <1>3 DEF Making, Watched, ItemOf, ClosedFirmly, Settled, Deciding
<1>7. QED
  BY <1>3, <1>4, <1>5, <1>6, Parts, PTL

LEMMA AskKeeps == IInv /\ Ask => IInv'
<1> SUFFICES ASSUME IInv, Ask PROVE IInv'
  OBVIOUS
<1>1. /\ pc = "ask" /\ pc' = "service" /\ updateds' = {}
      /\ writable' = writable \cup (updateds \cap Open)
      /\ UNCHANGED <<sock, shared, queue, stopped_, retry, delayed_connect, tmp_connect, fresh,
                     up, dying, conn, count, seen>>
  BY DEF Ask
<1> USE <1>1 DEF sock, shared, queue, count, seen
<1>2. TypeOK /\ OpenOrStale /\ Turns /\ Making /\ Watched /\ ClosedFirmly
  BY Parts
<1>3. NamesOwner' /\ Owned' /\ Addressed' /\ RightConnection' /\ NoticeOfLoss' /\ Open' = Open
  BY CacheKept
<1>4. TypeOK'
  <2>1. writable' \subseteq Wsis
    BY <1>2 DEF TypeOK
  <2>2. QED
    BY <1>2, <2>1 DEF TypeOK
<1>5. OpenOrStale' /\ Turns'
  BY <1>2, <1>3 DEF OpenOrStale, Turns
<1>6. Making' /\ Watched' /\ ClosedFirmly'
  BY <1>2, <1>3 DEF Making, Watched, ItemOf, ClosedFirmly, Settled, Deciding
<1>7. QED
  BY <1>3, <1>4, <1>5, <1>6, Parts, PTL

\* The queues change and no request is added.
LEMMA DueKeeps == ASSUME IInv, NEW k, Due(k) PROVE IInv'
<1>1. /\ k \in DOMAIN delayed_connect
      /\ delayed_connect' = [delayed_connect EXCEPT ![k].waits = FALSE]
      /\ UNCHANGED <<sock, shared, queue, stopped_, pc, retry, tmp_connect, fresh, updateds,
                     lws, count, seen>>
  BY DEF Due
<1> USE DEF sock, shared, queue, lws, count, seen
<1>2. TypeOK /\ OpenOrStale /\ Turns /\ Making /\ Watched /\ ClosedFirmly
  BY Parts
<1>3. NamesOwner' /\ Owned' /\ Addressed' /\ RightConnection' /\ NoticeOfLoss' /\ Open' = Open
  BY <1>1, CacheKept
<1>4. delayed_connect \in Seq(Items) /\ k \in 1..Len(delayed_connect)
  BY <1>1, <1>2 DEF TypeOK
<1> DEFINE new == [delayed_connect[k] EXCEPT !.waits = FALSE]
<1>5. /\ new \in Items /\ new.websock_ = delayed_connect[k].websock_
      /\ new.old = delayed_connect[k].old
  <2>1. delayed_connect[k] \in Items
    BY <1>4, SeqAt
  <2>2. QED
    BY <2>1 DEF Items
<1>6. delayed_connect' = [delayed_connect EXCEPT ![k] = new]
  BY <1>1
<1> HIDE DEF new
<1>7. /\ delayed_connect' \in Seq(Items) /\ Len(delayed_connect') = Len(delayed_connect)
      /\ \A i \in 1..Len(delayed_connect) :
           delayed_connect'[i] = IF i = k THEN new ELSE delayed_connect[i]
  BY <1>4, <1>5, <1>6, ExceptSeq
<1>8. TypeOK'
  BY <1>1, <1>2, <1>7 DEF TypeOK
<1>9. OpenOrStale' /\ Turns' /\ Making' /\ Watched'
  BY <1>1, <1>2, <1>3 DEF OpenOrStale, Turns, Making, Watched, ItemOf
<1>10. \A s : Settled(delayed_connect, s) => Settled(delayed_connect', s)
  BY <1>4, <1>5, <1>7 DEF Settled
<1>11. ClosedFirmly'
  BY <1>1, <1>2, <1>10 DEF ClosedFirmly, Settled, Deciding
<1>12. QED
  BY <1>3, <1>8, <1>9, <1>11, Parts, PTL

LEMMA ConnectKeeps == ASSUME IInv, NEW s \in Socks, Connect(s) PROVE IInv'
<1> DEFINE new == Item(s, FALSE, "asked")
<1>1. /\ connect_queue_' = Append(connect_queue_, new) /\ has_new_connect_' = TRUE
      /\ closed' = closed \ {s}
      /\ UNCHANGED <<sock, shared, stopped_, thread, lws, conns, own, written, stale,
                     told, wiped, ended>>
  BY DEF Connect
<1>2. new \in Items /\ new.websock_ = s
  BY DEF Item, Items
<1> HIDE DEF new
<1> USE DEF sock, shared, thread, lws
<1>3. TypeOK /\ OpenOrStale /\ Turns /\ Making /\ Watched /\ ClosedFirmly
  BY Parts
<1>4. NamesOwner' /\ Owned' /\ Addressed' /\ RightConnection' /\ NoticeOfLoss' /\ Open' = Open
  BY <1>1, CacheKept
<1>5. connect_queue_ \in Seq(Items)
  BY <1>3 DEF TypeOK
<1>6. /\ connect_queue_' \in Seq(Items)
      /\ \A t : Settled(connect_queue_, t) /\ t # s => Settled(connect_queue_', t)
  BY <1>1, <1>2, <1>5, AppendSettled
<1>7. TypeOK'
  BY <1>1, <1>3, <1>6 DEF TypeOK
<1>8. OpenOrStale' /\ Turns' /\ Making' /\ Watched'
  BY <1>1, <1>3, <1>4 DEF OpenOrStale, Turns, Making, Watched, ItemOf
<1>9. ClosedFirmly'
  BY <1>1, <1>3, <1>6 DEF ClosedFirmly, Settled, Deciding
<1>10. QED
  BY <1>4, <1>7, <1>8, <1>9, Parts, PTL

LEMMA TakeQueueKeeps == IInv /\ TakeQueue => IInv'
<1> SUFFICES ASSUME IInv, TakeQueue PROVE IInv'
  OBVIOUS
<1>1. /\ pc = "delayed" /\ pc' \in {"taken", "data"}
      /\ UNCHANGED <<sock, shared, stopped_, retry, delayed_connect, fresh, updateds, lws, count, seen>>
      /\ has_new_connect_' \in BOOLEAN
      /\ \/ tmp_connect' = connect_queue_ /\ connect_queue_' = <<>>
         \/ UNCHANGED <<tmp_connect, connect_queue_>>
  BY Parts DEF TakeQueue, TypeOK, queue
<1> USE <1>1 DEF sock, shared, lws, count, seen
<1>2. TypeOK /\ OpenOrStale /\ Turns /\ Making /\ Watched /\ ClosedFirmly
  BY Parts
<1>3. NamesOwner' /\ Owned' /\ Addressed' /\ RightConnection' /\ NoticeOfLoss' /\ Open' = Open
  BY CacheKept
<1>4. /\ {connect_queue_', tmp_connect'} \subseteq Seq(Items)
      /\ \A s : Settled(connect_queue_, s) /\ Settled(tmp_connect, s)
                => Settled(connect_queue_', s) /\ Settled(tmp_connect', s)
  <2>1. <<>> \in Seq(Items) /\ \A s : Settled(<<>>, s)
    BY DEF Settled
  <2>2. {connect_queue_, tmp_connect} \subseteq Seq(Items)
    BY <1>2 DEF TypeOK
  <2>3. QED
    BY <2>1, <2>2
<1>5. TypeOK'
  BY <1>2, <1>4 DEF TypeOK
<1>6. OpenOrStale' /\ Turns' /\ Making' /\ Watched'
  BY <1>2, <1>3 DEF OpenOrStale, Turns, Making, Watched, ItemOf
<1>7. ClosedFirmly'
  BY <1>2, <1>4 DEF ClosedFirmly, Settled, Deciding
<1>8. QED
  BY <1>3, <1>5, <1>6, <1>7, Parts, PTL

\* The entries that are asked for lose their flag and nothing else.
LEMMA CollectKeeps == IInv /\ Collect => IInv'
<1> SUFFICES ASSUME IInv, Collect PROVE IInv'
  OBVIOUS
<1>1. TypeOK /\ OpenOrStale /\ NamesOwner /\ Turns /\ Making /\ Owned /\ Addressed
      /\ Watched /\ ClosedFirmly /\ RightConnection /\ NoticeOfLoss
  BY Parts
<1>2. /\ pc \in {"data", "taken"} /\ pc' = "ask"
      /\ UNCHANGED <<sock, queue, stopped_, retry, delayed_connect, tmp_connect, fresh,
                     lws, count, seen>>
  BY DEF Collect
<1> USE DEF sock, queue, lws, count, seen
<1>3. /\ DOMAIN client_message_cache_' = DOMAIN client_message_cache_
      /\ \A w \in DOMAIN client_message_cache_ :
           /\ client_message_cache_'[w] \in Entries
           /\ client_message_cache_'[w].websock_ = client_message_cache_[w].websock_
           /\ client_message_cache_'[w].sendBuf_ = client_message_cache_[w].sendBuf_
      /\ updateds' \subseteq DOMAIN client_message_cache_
      /\ bnew_data_to_send_' \in BOOLEAN
  <2>1. \A w \in DOMAIN client_message_cache_ : client_message_cache_[w] \in Entries
    BY <1>1 DEF TypeOK
  <2>2. CASE /\ updateds' = {w \in DOMAIN client_message_cache_ : client_message_cache_[w].updated_}
             /\ client_message_cache_' = [w \in DOMAIN client_message_cache_ |->
                  [client_message_cache_[w] EXCEPT !.updated_ = FALSE]]
             /\ bnew_data_to_send_' = FALSE
    BY <2>1, <2>2 DEF Entries
  <2>3. CASE UNCHANGED <<updateds, shared>>
    BY <1>1, <1>2, <2>1, <2>3 DEF shared, Turns, TypeOK
  <2>4. QED
    BY <2>2, <2>3 DEF Collect
<1>4. Open' = Open
  BY <1>2 DEF Open
<1>5. TypeOK'
  BY <1>1, <1>2, <1>3 DEF TypeOK
<1>6. OpenOrStale' /\ NamesOwner' /\ Turns'
  BY <1>1, <1>2, <1>3, <1>4 DEF OpenOrStale, NamesOwner, Turns
<1>7. Making' /\ Owned' /\ Addressed'
  BY <1>1, <1>2, <1>3, <1>4 DEF Making, Owned, Addressed
<1>8. Watched'
  BY <1>1, <1>2, <1>3, <1>4 DEF Watched, ItemOf
<1>9. ClosedFirmly' /\ RightConnection' /\ NoticeOfLoss'
  BY <1>1, <1>2, <1>3 DEF ClosedFirmly, Settled, Deciding, RightConnection, NoticeOfLoss
<1>10. QED
  BY <1>5, <1>6, <1>7, <1>8, <1>9, Parts, PTL
-----------------------------------------------------------------------------
(* Connections are made. *)

\* operator[]: the entry that is there, or an empty one.
LEMMA ItemType ==
    ASSUME TypeOK, NEW w
    PROVE  /\ ItemOf(w) \in Entries
           /\ w \in DOMAIN client_message_cache_ => ItemOf(w) = client_message_cache_[w]
           /\ w \notin DOMAIN client_message_cache_ =>
                ItemOf(w).websock_ = NoSock /\ ItemOf(w).sendBuf_ = <<>>
<1>1. /\ EmptyItem \in Entries /\ EmptyItem.websock_ = NoSock /\ EmptyItem.sendBuf_ = <<>>
  <2>1. <<>> \in Seq(Records)
    OBVIOUS
  <2>2. QED
    BY <2>1 DEF EmptyItem, Entries
<1>2. QED
  BY <1>1 DEF ItemOf, TypeOK

LEMMA RegisterKeeps == IInv /\ Register => IInv'
<1> SUFFICES ASSUME IInv, Register PROVE IInv'
  OBVIOUS
<1>1. TypeOK /\ OpenOrStale /\ NamesOwner /\ Turns /\ Making /\ Owned /\ Addressed
      /\ Watched /\ ClosedFirmly /\ RightConnection /\ NoticeOfLoss
  BY Parts
<1> DEFINE w == fresh.wsi
           s == fresh.websock_
           new == [ItemOf(w) EXCEPT !.websock_ = s]
<1>2. /\ pc = "register" /\ pc' = fresh.next
      /\ client_message_cache_' = With(client_message_cache_, w, new)
      /\ fresh' = [fresh EXCEPT !.websock_ = NoSock, !.wsi = NoWsi]
      /\ UNCHANGED <<sock, bnew_data_to_send_, queue, stopped_, retry, delayed_connect, tmp_connect,
                     updateds, lws, count, seen>>
  BY DEF Register
<1> USE DEF sock, queue, lws, count, seen
<1>3. /\ s \in Socks /\ w \in Wsis /\ w \in Open \ up /\ own[s] = conn[w]
      /\ fresh.next \in {"top", "delayed", "taken"}
  BY <1>1, <1>2 DEF Making, Open
<1>4. /\ fresh' \in [websock_ : Socks \cup {NoSock}, wsi : Wsis \cup {NoWsi},
                     next : {"top", "delayed", "taken"}]
      /\ fresh'.websock_ = NoSock
  BY <1>1, <1>2 DEF Making
<1>5. new \in Entries /\ new.websock_ = s /\ new.sendBuf_ = ItemOf(w).sendBuf_
  BY <1>1, <1>3, ItemType DEF Entries
<1> HIDE DEF new
<1>6. /\ DOMAIN client_message_cache_' = DOMAIN client_message_cache_ \cup {w}
      /\ client_message_cache_'[w] = new
      /\ \A v \in DOMAIN client_message_cache_ \ {w} :
           client_message_cache_'[v] = client_message_cache_[v]
  BY <1>2 DEF With
<1> HIDE DEF w, s
<1>7. Open' = Open
  BY <1>2 DEF Open
<1>8. TypeOK'
  BY <1>1, <1>2, <1>3, <1>5, <1>6 DEF TypeOK
<1>9. OpenOrStale' /\ NamesOwner'
  <2>1. own[s] >= conn[w]
    BY <1>1, <1>3 DEF TypeOK
  <2>2. QED
    BY <1>1, <1>2, <1>3, <1>5, <1>6, <1>7, <2>1 DEF OpenOrStale, NamesOwner
<1>10. Turns' /\ Making' /\ Owned'
  BY <1>1, <1>2, <1>3, <1>4, <1>7 DEF Turns, Making, Owned
<1>11. Addressed'
  <2>1. ASSUME NEW i \in 1..Len(new.sendBuf_)
        PROVE  new.sendBuf_[i].late \/ new.sendBuf_[i].on = conn[w]
    <3>1. CASE w \in DOMAIN client_message_cache_
      BY <1>1, <1>5, <2>1, <3>1, ItemType DEF Addressed
    <3>2. CASE w \notin DOMAIN client_message_cache_
      BY <1>1, <1>5, <2>1, <3>2, ItemType
    <3>3. QED
      BY <3>1, <3>2
  <2>2. QED
    BY <1>1, <1>2, <1>6, <2>1 DEF Addressed
<1>12. Watched'
  <2> SUFFICES ASSUME NEW v \in Open
               PROVE  ItemOf(v)'.websock_ # NoSock \/ conn[v] \in wiped
    BY <1>2, <1>7 DEF Watched
  <2>1. CASE v = w
    BY <1>3, <1>5, <1>6, <2>1, ClientAssumption DEF ItemOf
  <2>2. CASE v # w
    <3>1. ItemOf(v)' = ItemOf(v)
      BY <1>6, <2>2 DEF ItemOf, EmptyItem
    <3>2. QED
      BY <1>1, <2>2, <3>1 DEF Watched, w
  <2>3. QED
    BY <2>1, <2>2
<1>13. ClosedFirmly'
  BY <1>1, <1>2, <1>3 DEF ClosedFirmly, Settled, Deciding
<1>14. RightConnection' /\ NoticeOfLoss'
  BY <1>1, <1>2 DEF RightConnection, NoticeOfLoss
<1>15. QED
  BY <1>8, <1>9, <1>10, <1>11, <1>12, <1>13, <1>14, Parts, PTL

\* One try for a request that was taken off delayed_connect or tmp_connect.
LEMMA TryKeeps ==
    ASSUME IInv, NEW s \in Socks,
           NEW next \in {"delayed", "taken"}, Try(s, next), pc \in {"delayed", "taken"},
           UNCHANGED <<bFirst_, closing, bnew_data_to_send_, queue, stopped_, updateds, up,
                       writable, dying, written, stale, told, wiped, ended, closed>>,
           {delayed_connect', tmp_connect'} \subseteq Seq(Items),
           \A t : Settled(delayed_connect, t) /\ Settled(tmp_connect, t)
                  => Settled(delayed_connect', t) /\ Settled(tmp_connect', t)
    PROVE  IInv'
<1>1. TypeOK /\ OpenOrStale /\ NamesOwner /\ Turns /\ Making /\ Owned /\ Addressed
      /\ Watched /\ ClosedFirmly /\ RightConnection /\ NoticeOfLoss
  BY Parts
<1>2. CASE /\ client_message_cache_' \in {client_message_cache_}
                \cup {Without(client_message_cache_, w) : w \in Wsis \ Open}
           /\ pc' = "test" /\ retry' = [NoRetry EXCEPT !.websock_ = s, !.next = next]
           /\ UNCHANGED <<wsi_, fresh, conn, conns, own>>
  <2> USE DEF queue
  <2>1. PICK w \in (Wsis \ Open) \cup {NoWsi} :
          /\ DOMAIN client_message_cache_' = DOMAIN client_message_cache_ \ {w}
          /\ \A v \in DOMAIN client_message_cache_ \ {w} :
               client_message_cache_'[v] = client_message_cache_[v]
    <3>1. CASE UNCHANGED client_message_cache_
      <4>1. NoWsi \notin DOMAIN client_message_cache_
        BY <1>1, ClientAssumption DEF TypeOK
      <4>2. /\ DOMAIN client_message_cache_' = DOMAIN client_message_cache_ \ {NoWsi}
            /\ \A v \in DOMAIN client_message_cache_ \ {NoWsi} :
                 client_message_cache_'[v] = client_message_cache_[v]
        BY <3>1, <4>1
      <4>3. QED
        BY <4>2
    <3>2. ASSUME NEW w \in Wsis \ Open, client_message_cache_' = Without(client_message_cache_, w)
          PROVE  /\ DOMAIN client_message_cache_' = DOMAIN client_message_cache_ \ {w}
                 /\ \A v \in DOMAIN client_message_cache_ \ {w} :
                      client_message_cache_'[v] = client_message_cache_[v]
      BY <3>2 DEF Without
    <3>3. QED
      BY <1>2, <3>1, <3>2
  <2>2. Open' = Open
    BY <1>2 DEF Open
  <2>3. retry' \in Retries /\ retry'.websock_ = s
    <3>1. NoRetry \in Retries
      BY NoRetryType
    <3>2. QED
      BY <1>2, <3>1 DEF Retries
  <2>4. TypeOK'
    BY <1>1, <1>2, <2>1, <2>3 DEF TypeOK
  <2>5. OpenOrStale' /\ NamesOwner' /\ Addressed'
    BY <1>1, <1>2, <2>1, <2>2 DEF OpenOrStale, NamesOwner, Addressed
  <2>6. Turns' /\ Making' /\ Owned'
    BY <1>1, <1>2, <2>2, <2>3 DEF Turns, Making, Owned
  <2>7. Watched'
    <3> SUFFICES ASSUME NEW v \in Open
                 PROVE  ItemOf(v)'.websock_ # NoSock \/ conn[v] \in wiped
      BY <1>2, <2>2 DEF Watched
    <3>1. v # w
      BY ClientAssumption DEF Open
    <3>2. ItemOf(v)' = ItemOf(v)
      BY <2>1, <3>1 DEF ItemOf, EmptyItem
    <3>3. QED
      BY <1>1, <3>2 DEF Watched
  <2>8. ClosedFirmly'
    <3> SUFFICES ASSUME NEW t \in closed
                 PROVE  /\ Settled(connect_queue_, t) /\ Settled(delayed_connect', t)
                        /\ Settled(tmp_connect', t) /\ bFirst_[t]
      BY <1>2 DEF ClosedFirmly, Settled, Deciding
    <3>1. QED
      BY <1>1 DEF ClosedFirmly
  <2>9. RightConnection' /\ NoticeOfLoss'
    BY <1>1 DEF RightConnection, NoticeOfLoss
  <2>10. QED
    BY <2>4, <2>5, <2>6, <2>7, <2>8, <2>9, Parts, PTL
<1>3. ASSUME NEW w \in Wsis \ Open, conns < MaxConns, conns' = conns + 1,
             conn' = [conn EXCEPT ![w] = conns'], own' = [own EXCEPT ![s] = conns'],
             wsi_' = [wsi_ EXCEPT ![s] = w],
             fresh' = [websock_ |-> s, wsi |-> w, next |-> next],
             pc' = "register", UNCHANGED <<client_message_cache_, retry>>
      PROVE  IInv'
  <2> USE DEF queue
  <2>1. /\ conns \in Nat /\ MaxConns \in Nat /\ conns' \in 1..MaxConns
        /\ conn \in [Wsis -> 0..MaxConns] /\ own \in [Socks -> 0..MaxConns]
        /\ wsi_ \in [Socks -> Wsis \cup {NoWsi}]
    BY <1>1, <1>3, ClientAssumption DEF Owned, TypeOK
  <2>2. /\ conn' \in [Wsis -> 0..MaxConns] /\ own' \in [Socks -> 0..MaxConns]
        /\ wsi_' \in [Socks -> Wsis \cup {NoWsi}]
        /\ conn[w] = 0 /\ conn'[w] = conns' /\ own'[s] = conns' /\ wsi_'[s] = w
        /\ \A v \in Wsis \ {w} : conn'[v] = conn[v]
        /\ \A t \in Socks \ {s} : own'[t] = own[t] /\ wsi_'[t] = wsi_[t]
    BY <1>3, <2>1 DEF Open
  <2>3. Open' = Open \cup {w}
    BY <1>3, <2>1, <2>2 DEF Open
  <2>4. \A t \in Socks : own'[t] >= own[t]
    BY <1>1, <1>3, <2>1, <2>2 DEF Owned
  <2>5. TypeOK'
    BY <1>1, <1>3, <2>2 DEF TypeOK
  <2>6. OpenOrStale' /\ Turns'
    BY <1>1, <1>3, <2>3 DEF OpenOrStale, Turns
  <2>7. NamesOwner'
    <3> SUFFICES ASSUME NEW v \in DOMAIN client_message_cache_, NEW t,
                        t = client_message_cache_[v].websock_, t # NoSock
                 PROVE  v \in Open' /\ own'[t] >= conn'[v]
      BY <1>3 DEF NamesOwner
    <3>1. v \in Open /\ own[t] >= conn[v] /\ v \in Wsis /\ t \in Socks
      BY <1>1 DEF NamesOwner, TypeOK, Entries
    <3>2. conn'[v] = conn[v]
      BY <1>3, <2>2, <3>1
    <3>3. own'[t] \in Nat /\ own[t] \in Nat /\ conn[v] \in Nat
      BY <2>1, <2>2, <3>1
    <3>4. QED
      BY <2>3, <2>4, <3>1, <3>2, <3>3
  <2>8. Making'
    BY <1>1, <1>3, <2>2, <2>3, ClientAssumption DEF Making, Turns
  <2>9. Owned'
    BY <1>1, <1>3, <2>1, <2>2 DEF Owned
  <2>10. Addressed'
    <3> SUFFICES ASSUME NEW v \in DOMAIN client_message_cache_,
                        NEW i \in 1..Len(client_message_cache_[v].sendBuf_)
                 PROVE  LET r == client_message_cache_[v].sendBuf_[i]
                        IN  r.late \/ r.on = conn'[v]
      BY <1>3 DEF Addressed
    <3> DEFINE r == client_message_cache_[v].sendBuf_[i]
    <3>1. r.late \/ r.on = conn[v]
      BY <1>1 DEF Addressed
    <3>2. r.on \in 1..MaxConns /\ v \in Wsis
      <4>1. client_message_cache_[v].sendBuf_ \in Seq(Records) /\ v \in Wsis
        BY <1>1 DEF TypeOK, Entries
      <4>2. r \in Records
        BY <4>1, SeqAt
      <4>3. QED
        BY <4>1, <4>2 DEF Records
    <3> HIDE DEF r
    <3>3. r.late \/ r.on = conn'[v]
      BY <2>1, <2>2, <3>1, <3>2
    <3>4. QED
      BY <3>3 DEF r
  <2>11. Watched'
    <3>1. \A v : ItemOf(v)' = ItemOf(v)
      BY <1>3 DEF ItemOf, EmptyItem
    <3>2. QED
      BY <1>1, <1>3, <2>2, <2>3, <3>1 DEF Watched, Open
  <2>12. ClosedFirmly'
    <3> SUFFICES ASSUME NEW t \in closed
                 PROVE  /\ Settled(connect_queue_, t) /\ Settled(delayed_connect', t)
                        /\ Settled(tmp_connect', t) /\ bFirst_[t]
      BY <1>3 DEF ClosedFirmly, Settled, Deciding
    <3>1. QED
      BY <1>1, <1>3 DEF ClosedFirmly
  <2>13. RightConnection' /\ NoticeOfLoss'
    BY <1>1 DEF RightConnection, NoticeOfLoss
  <2>14. QED
    BY <2>5, <2>6, <2>7, <2>8, <2>9, <2>10, <2>11, <2>12, <2>13, Parts, PTL
<1>4. QED
  BY <1>2, <1>3 DEF Try

LEMMA TryDelayedKeeps == IInv /\ TryDelayed => IInv'
<1> SUFFICES ASSUME IInv, TryDelayed PROVE IInv'
  OBVIOUS
<1>1. PICK k \in DOMAIN delayed_connect :
        /\ delayed_connect' = RemoveAt(delayed_connect, k)
        /\ Try(delayed_connect[k].websock_, "delayed")
  BY DEF TryDelayed
<1>2. /\ pc = "delayed"
      /\ UNCHANGED <<bFirst_, closing, bnew_data_to_send_, queue, stopped_, tmp_connect, updateds,
                     up, writable, dying, written, stale, told, wiped, ended, closed>>
  BY DEF TryDelayed
<1>3. {delayed_connect, tmp_connect} \subseteq Seq(Items) /\ k \in 1..Len(delayed_connect)
  BY <1>1, Parts DEF TypeOK
<1>4. /\ delayed_connect' \in Seq(Items) /\ delayed_connect[k] \in Items
      /\ \A t : Settled(delayed_connect, t) => Settled(delayed_connect', t)
  BY <1>1, <1>3, RemoveSettled
<1> DEFINE s == delayed_connect[k].websock_
<1>5. s \in Socks
  BY <1>4 DEF Items
<1>7. Try(s, "delayed")
  BY <1>1
<1> HIDE DEF s
<1>8. /\ {delayed_connect', tmp_connect'} \subseteq Seq(Items)
      /\ \A t : Settled(delayed_connect, t) /\ Settled(tmp_connect, t)
                => Settled(delayed_connect', t) /\ Settled(tmp_connect', t)
  BY <1>2, <1>3, <1>4
<1>9. QED
  BY <1>2, <1>5, <1>7, <1>8, TryKeeps

LEMMA TryTakenKeeps == IInv /\ TryTaken => IInv'
<1> SUFFICES ASSUME IInv, TryTaken PROVE IInv'
  OBVIOUS
<1> DEFINE i == Head(tmp_connect)
<1>1. TypeOK /\ OpenOrStale /\ Turns /\ Making /\ Watched /\ ClosedFirmly
  BY Parts
<1>2. /\ pc = "taken" /\ tmp_connect # <<>> /\ tmp_connect' = Tail(tmp_connect)
      /\ UNCHANGED <<bFirst_, closing, bnew_data_to_send_, queue, stopped_, updateds,
                     up, writable, dying, written, stale, told, wiped, ended, closed>>
      /\ \/ /\ delayed_connect' = Append(delayed_connect, i)
            /\ UNCHANGED <<wsi_, client_message_cache_, pc, retry, fresh, conn, conns, own>>
         \/ Try(i.websock_, "taken") /\ UNCHANGED delayed_connect
  BY DEF TryTaken
<1>3. {delayed_connect, tmp_connect} \subseteq Seq(Items)
  BY <1>1 DEF TypeOK
<1>4. /\ tmp_connect' \in Seq(Items) /\ i \in Items
      /\ \A t : Settled(tmp_connect, t) => (i.websock_ = t => i.old) /\ Settled(tmp_connect', t)
  BY <1>2, <1>3, TailSettled
<1> HIDE DEF i
<1>5. CASE /\ delayed_connect' = Append(delayed_connect, i)
           /\ UNCHANGED <<wsi_, client_message_cache_, pc, retry, fresh, conn, conns, own>>
  <2>1. NamesOwner' /\ Owned' /\ Addressed' /\ RightConnection' /\ NoticeOfLoss' /\ Open' = Open
    BY <1>2, <1>5, CacheKept DEF shared
  <2>2. /\ delayed_connect' \in Seq(Items)
        /\ \A t : Settled(delayed_connect, t) /\ (i.websock_ = t => i.old) => Settled(delayed_connect', t)
    BY <1>3, <1>4, <1>5, AppendSettled
  <2>3. TypeOK'
    BY <1>1, <1>2, <1>4, <1>5, <2>2 DEF TypeOK, queue
  <2>4. OpenOrStale' /\ Turns' /\ Making' /\ Watched'
    BY <1>1, <1>2, <1>5, <2>1 DEF OpenOrStale, Turns, Making, Watched, ItemOf, shared
  <2>5. ClosedFirmly'
    <3> SUFFICES ASSUME NEW t \in closed
                 PROVE  /\ Settled(connect_queue_, t) /\ Settled(delayed_connect', t)
                        /\ Settled(tmp_connect', t) /\ bFirst_[t]
      BY <1>2, <1>5 DEF ClosedFirmly, Settled, Deciding, queue
    <3>1. QED
      BY <1>1, <1>4, <2>2 DEF ClosedFirmly
  <2>6. QED
    BY <2>1, <2>3, <2>4, <2>5, Parts, PTL
<1>6. CASE Try(i.websock_, "taken") /\ UNCHANGED delayed_connect
  <2> DEFINE s == i.websock_
  <2>1. s \in Socks
    BY <1>4 DEF Items
  <2>3. Try(s, "taken")
    BY <1>6
  <2> HIDE DEF s
  <2>4. /\ {delayed_connect', tmp_connect'} \subseteq Seq(Items)
        /\ \A t : Settled(delayed_connect, t) /\ Settled(tmp_connect, t)
                  => Settled(delayed_connect', t) /\ Settled(tmp_connect', t)
    BY <1>3, <1>4, <1>6
  <2>5. QED
    BY <1>2, <2>1, <2>3, <2>4, TryKeeps
<1>7. QED
  BY <1>2, <1>5, <1>6
-----------------------------------------------------------------------------
(* Calls of the application. *)

\* ClinetMetaSend: no entry gets the name of a WebSock by it.
LEMMA MetaSendKeeps ==
    ASSUME IInv, NEW s \in Socks, NEW rec \in {"data", Close}, MetaSend(s, rec),
           closing' \subseteq Socks,
           UNCHANGED <<wsi_, bFirst_, queue, stopped_, thread, lws, conns, own, written,
                       told, wiped, ended, closed>>
    PROVE  IInv'
<1>1. TypeOK /\ OpenOrStale /\ NamesOwner /\ Turns /\ Making /\ Owned /\ Addressed
      /\ Watched /\ ClosedFirmly /\ RightConnection /\ NoticeOfLoss
  BY Parts
<1> DEFINE w == wsi_[s]
           r == [rec |-> rec, on |-> own[s], late |-> conn[w] # own[s]]
           new == [ItemOf(w) EXCEPT !.sendBuf_ = Append(@, r),
                                    !.updated_ = @ \/ ~ItemOf(w).sending_]
<1>2. /\ w # NoWsi /\ client_message_cache_' = With(client_message_cache_, w, new)
      /\ bnew_data_to_send_' = (bnew_data_to_send_ \/ ~ItemOf(w).sending_)
      /\ stale' = IF conn[w] # own[s] THEN stale \cup {w} ELSE stale
  BY DEF MetaSend
<1> USE DEF queue, thread, lws
<1>3. w \in Wsis /\ own[s] \in 1..MaxConns
  BY <1>1, <1>2, ClientAssumption DEF TypeOK, Owned
<1>4. r \in Records /\ r.on = own[s] /\ (~r.late => conn[w] = own[s])
  BY <1>3 DEF Records
<1> HIDE DEF r
<1>5. ItemOf(w).sendBuf_ \in Seq(Records)
  BY <1>1, ItemType DEF Entries
<1>6. Append(ItemOf(w).sendBuf_, r) \in Seq(Records)
  BY <1>4, <1>5, AppendProperties
<1>7. /\ new \in Entries /\ new.websock_ = ItemOf(w).websock_
      /\ new.sendBuf_ = Append(ItemOf(w).sendBuf_, r)
  BY <1>1, <1>6, ItemType DEF Entries
<1>8. bnew_data_to_send_' \in BOOLEAN
  BY <1>1, <1>2, ItemType DEF Entries, TypeOK
<1> HIDE DEF new
<1>9. /\ DOMAIN client_message_cache_' = DOMAIN client_message_cache_ \cup {w}
      /\ client_message_cache_'[w] = new
      /\ \A v \in DOMAIN client_message_cache_ \ {w} :
           client_message_cache_'[v] = client_message_cache_[v]
  BY <1>2 DEF With
<1> HIDE DEF w
<1>10. Open' = Open
  BY <1>2 DEF Open
<1>11. \A v \in DOMAIN client_message_cache_' :
         client_message_cache_'[v].websock_ # NoSock =>
           /\ v \in DOMAIN client_message_cache_
           /\ client_message_cache_'[v].websock_ = client_message_cache_[v].websock_
  BY <1>1, <1>7, <1>9, ItemType
<1>12. TypeOK'
  <2>1. stale' \subseteq Wsis
    BY <1>1, <1>2, <1>3 DEF TypeOK
  <2>2. \A v \in DOMAIN client_message_cache_' : client_message_cache_'[v] \in Entries
    BY <1>1, <1>7, <1>9 DEF TypeOK
  <2>3. QED
    BY <1>1, <1>2, <1>3, <1>8, <1>9, <2>1, <2>2 DEF TypeOK
<1>13. OpenOrStale'
  <2>1. w \in stale' \/ w \in Open
    BY <1>2, <1>3 DEF Open
  <2>2. stale \subseteq stale'
    BY <1>2
  <2>3. QED
    BY <1>1, <1>2, <1>9, <1>10, <2>1, <2>2 DEF OpenOrStale
<1>14. NamesOwner'
  BY <1>1, <1>2, <1>10, <1>11 DEF NamesOwner
<1>15. Turns' /\ Making' /\ Owned'
  BY <1>1, <1>2, <1>10 DEF Turns, Making, Owned
<1>16. Addressed'
  <2>1. \A i \in 1..Len(ItemOf(w).sendBuf_) :
          ItemOf(w).sendBuf_[i].late \/ ItemOf(w).sendBuf_[i].on = conn[w]
    BY <1>1, ItemType DEF Addressed
  <2>2. /\ Len(new.sendBuf_) = Len(ItemOf(w).sendBuf_) + 1
        /\ \A i \in 1..Len(ItemOf(w).sendBuf_) : new.sendBuf_[i] = ItemOf(w).sendBuf_[i]
        /\ new.sendBuf_[Len(ItemOf(w).sendBuf_) + 1] = r
    BY <1>4, <1>5, <1>7, AppendProperties
  <2>3. Len(ItemOf(w).sendBuf_) \in Nat
    BY <1>5, LenProperties
  <2>4. ASSUME NEW i \in 1..Len(new.sendBuf_)
        PROVE  new.sendBuf_[i].late \/ new.sendBuf_[i].on = conn[w]
    <3>1. i \in 1..Len(ItemOf(w).sendBuf_) \/ i = Len(ItemOf(w).sendBuf_) + 1
      BY <2>2, <2>3
    <3>2. QED
      BY <1>4, <2>1, <2>2, <3>1
  <2>5. QED
    BY <1>1, <1>2, <1>9, <2>4 DEF Addressed
<1>17. Watched'
  <2>1. ASSUME NEW v PROVE ItemOf(v)'.websock_ = ItemOf(v).websock_
    <3>1. CASE v = w
      BY <1>7, <1>9, <3>1 DEF ItemOf
    <3>2. CASE v # w
      BY <1>9, <3>2 DEF ItemOf, EmptyItem
    <3>3. QED
      BY <3>1, <3>2
  <2>2. QED
    BY <1>1, <1>2, <1>10, <2>1 DEF Watched
<1>18. RightConnection' /\ NoticeOfLoss'
  BY <1>1, <1>2 DEF RightConnection, NoticeOfLoss
<1>19. ClosedFirmly'
  BY <1>1 DEF ClosedFirmly, Settled, Deciding
<1>20. QED
  BY <1>12, <1>13, <1>14, <1>15, <1>16, <1>17, <1>18, <1>19, Parts, PTL

LEMMA SendKeeps == ASSUME IInv, NEW s \in Socks, Send(s) PROVE IInv'
<1>1. /\ MetaSend(s, "data")
      /\ UNCHANGED <<sock, queue, stopped_, thread, lws, conns, own, written, told, wiped,
                     ended, closed>>
  BY DEF Send
<1>2. closing' \subseteq Socks
  BY <1>1, Parts DEF TypeOK, sock
<1>3. QED
  BY <1>1, <1>2, MetaSendKeeps DEF sock

\* What is queued or decided already is older than the Close, and bFirst_ is
\* raised from then on.
LEMMA CloseStoreKeeps == ASSUME IInv, NEW s \in Socks, CloseStore(s) PROVE IInv'
<1>1. /\ closing' = closing \cup {s} /\ closed' = closed \cup {s}
      /\ bFirst_' = [bFirst_ EXCEPT ![s] = TRUE]
      /\ connect_queue_' = Marked(connect_queue_, s)
      /\ delayed_connect' = Marked(delayed_connect, s)
      /\ tmp_connect' = Marked(tmp_connect, s)
      /\ retry' = [retry EXCEPT !.old = @ \/ Deciding(s)]
      /\ UNCHANGED <<wsi_, shared, has_new_connect_, stopped_, pc, fresh, updateds, lws,
                     conns, own, written, stale, told, wiped, ended>>
  BY DEF CloseStore
<1> USE DEF shared, lws
<1>2. TypeOK /\ OpenOrStale /\ NamesOwner /\ Turns /\ Making /\ Owned /\ Addressed
      /\ Watched /\ ClosedFirmly /\ RightConnection /\ NoticeOfLoss
  BY Parts
<1>3. Open' = Open
  BY <1>1 DEF Open
<1>4. /\ {connect_queue_', delayed_connect', tmp_connect'} \subseteq Seq(Items)
      /\ Settled(connect_queue_', s) /\ Settled(delayed_connect', s) /\ Settled(tmp_connect', s)
      /\ \A t : /\ Settled(connect_queue_, t) => Settled(connect_queue_', t)
                /\ Settled(delayed_connect, t) => Settled(delayed_connect', t)
                /\ Settled(tmp_connect, t) => Settled(tmp_connect', t)
  <2>1. {connect_queue_, delayed_connect, tmp_connect} \subseteq Seq(Items)
    BY <1>2 DEF TypeOK
  <2>2. QED
    BY <1>1, <2>1, MarkedSettled
<1>5. /\ retry' \in Retries /\ retry'.websock_ = retry.websock_ /\ retry'.on = retry.on
      /\ retry.old \/ Deciding(s) => retry'.old
  <2> DEFINE now == retry.old \/ Deciding(s)
  <2>1. retry \in Retries
    BY <1>2 DEF TypeOK
  <2>2. now \in BOOLEAN
    BY <2>1 DEF Retries
  <2>3. retry' = [retry EXCEPT !.old = now]
    BY <1>1
  <2> HIDE DEF now
  <2>4. retry' \in Retries /\ retry'.websock_ = retry.websock_ /\ retry'.on = retry.on
        /\ retry'.old = now
    BY <2>1, <2>2, <2>3 DEF Retries
  <2>5. QED
    BY <2>4 DEF now
<1>6. bFirst_' \in [Socks -> BOOLEAN] /\ bFirst_'[s] /\ \A t \in Socks : bFirst_[t] => bFirst_'[t]
  BY <1>1, <1>2 DEF TypeOK
<1>7. TypeOK'
  BY <1>1, <1>2, <1>4, <1>5, <1>6 DEF TypeOK
<1>8. OpenOrStale' /\ NamesOwner' /\ Addressed'
  BY <1>1, <1>2, <1>3 DEF OpenOrStale, NamesOwner, Addressed
<1>9. Turns' /\ Making' /\ Owned'
  BY <1>1, <1>2, <1>3, <1>5 DEF Turns, Making, Owned
<1>10. Watched'
  BY <1>1, <1>2, <1>3 DEF Watched, ItemOf
<1>11. ClosedFirmly'
  <2> SUFFICES ASSUME NEW t \in closed \cup {s}
               PROVE  /\ Settled(connect_queue_', t) /\ Settled(delayed_connect', t)
                      /\ Settled(tmp_connect', t) /\ bFirst_'[t]
                      /\ Deciding(t) => retry'.old
    BY <1>1, <1>5 DEF ClosedFirmly, Settled, Deciding
  <2>1. CASE t = s
    BY <1>4, <1>5, <1>6, <2>1
  <2>2. CASE t \in closed
    BY <1>2, <1>4, <1>5, <1>6, <2>2 DEF ClosedFirmly, Owned
  <2>3. QED
    BY <2>1, <2>2
<1>12. RightConnection' /\ NoticeOfLoss'
  BY <1>1, <1>2, <1>5 DEF RightConnection, NoticeOfLoss
<1>13. QED
  BY <1>7, <1>8, <1>9, <1>10, <1>11, <1>12, Parts, PTL

LEMMA CloseSendKeeps == ASSUME IInv, NEW s \in Socks, CloseSend(s) PROVE IInv'
<1>1. /\ closing' = closing \ {s}
      /\ IF wsi_[s] = NoWsi THEN UNCHANGED <<shared, stale>> ELSE MetaSend(s, Close)
      /\ UNCHANGED <<wsi_, bFirst_, queue, stopped_, thread, lws, conns,
                     own, written, told, wiped, ended, closed>>
  BY DEF CloseSend, count
<1>2. TypeOK /\ OpenOrStale /\ Turns /\ Making /\ Watched /\ ClosedFirmly
  BY Parts
<1>3. closing' \subseteq Socks
  BY <1>1, <1>2 DEF TypeOK
<1>4. CASE UNCHANGED <<shared, stale>>
  <2> USE <1>1, <1>4 DEF shared, queue, thread, lws
  <2>1. NamesOwner' /\ Owned' /\ Addressed' /\ RightConnection' /\ NoticeOfLoss' /\ Open' = Open
    BY CacheKept
  <2>2. TypeOK'
    BY <1>2, <1>3 DEF TypeOK
  <2>3. OpenOrStale' /\ Turns' /\ Making' /\ Watched' /\ ClosedFirmly'
    BY <1>2, <2>1 DEF OpenOrStale, Turns, Making, Watched, ItemOf, ClosedFirmly, Settled, Deciding
  <2>4. QED
    BY <2>1, <2>2, <2>3, Parts, PTL
<1>5. CASE MetaSend(s, Close)
  BY <1>1, <1>3, <1>5, MetaSendKeeps
<1>6. QED
  BY <1>1, <1>4, <1>5

\* A destructor may erase another's entry, and then its loss goes unreported.
LEMMA DeleteKeeps == ASSUME IInv, NEW s \in Socks, Delete(s) PROVE IInv'
<1>1. TypeOK /\ OpenOrStale /\ NamesOwner /\ Turns /\ Making /\ Owned /\ Addressed
      /\ Watched /\ ClosedFirmly /\ RightConnection /\ NoticeOfLoss
  BY Parts
<1> DEFINE w == wsi_[s]
<1>2. /\ w # NoWsi /\ fresh.websock_ # s
      /\ client_message_cache_' = Without(client_message_cache_, w)
      /\ wiped' = IF w \in Open THEN wiped \cup {conn[w]} ELSE wiped
      /\ wsi_' = [wsi_ EXCEPT ![s] = NoWsi] /\ bFirst_' = [bFirst_ EXCEPT ![s] = TRUE]
      /\ UNCHANGED <<closing, bnew_data_to_send_, queue, stopped_, thread, lws, count,
                     own, written, stale, told, ended, closed>>
  BY DEF Delete
<1> USE DEF queue, thread, lws, count
<1>3. /\ DOMAIN client_message_cache_' = DOMAIN client_message_cache_ \ {w}
      /\ \A v \in DOMAIN client_message_cache_ \ {w} :
           client_message_cache_'[v] = client_message_cache_[v]
  BY <1>2 DEF Without
<1>4. Open' = Open
  BY <1>2 DEF Open
<1>5. /\ wsi_' \in [Socks -> Wsis \cup {NoWsi}] /\ wsi_'[s] = NoWsi
      /\ \A t \in Socks \ {s} : wsi_'[t] = wsi_[t]
      /\ bFirst_' \in [Socks -> BOOLEAN] /\ \A t \in Socks : bFirst_[t] => bFirst_'[t]
  BY <1>1, <1>2 DEF TypeOK
<1> HIDE DEF w
<1>6. TypeOK'
  BY <1>1, <1>2, <1>3, <1>5 DEF TypeOK
<1>7. OpenOrStale' /\ NamesOwner' /\ Addressed'
  BY <1>1, <1>2, <1>3, <1>4 DEF OpenOrStale, NamesOwner, Addressed
<1>8. Turns' /\ Owned'
  BY <1>1, <1>2, <1>4, <1>5 DEF Turns, Owned
<1>9. Making'
  BY <1>1, <1>2, <1>4, <1>5 DEF Making
<1>10. Watched'
  <2> SUFFICES ASSUME NEW v \in Open
               PROVE  \/ ItemOf(v)'.websock_ # NoSock
                      \/ conn[v] \in wiped'
                      \/ pc = "register" /\ fresh.wsi = v
    BY <1>2, <1>4 DEF Watched
  <2>1. CASE v = w
    BY <1>2, <2>1
  <2>2. CASE v # w
    <3>1. ItemOf(v)' = ItemOf(v)
      BY <1>3, <2>2 DEF ItemOf, EmptyItem
    <3>2. QED
      BY <1>1, <1>2, <3>1 DEF Watched
  <2>3. QED
    BY <2>1, <2>2
<1>11. ClosedFirmly'
  BY <1>1, <1>2, <1>3, <1>5 DEF ClosedFirmly, Settled, Deciding, Owned
<1>12. RightConnection' /\ NoticeOfLoss'
  BY <1>1, <1>2 DEF RightConnection, NoticeOfLoss
<1>13. QED
  BY <1>6, <1>7, <1>8, <1>9, <1>10, <1>11, <1>12, Parts, PTL
-----------------------------------------------------------------------------
(* Callbacks of libwebsockets. *)

LEMMA EstablishedKeeps == ASSUME IInv, NEW w \in Wsis, Established(w) PROVE IInv'
<1>1. TypeOK /\ OpenOrStale /\ NamesOwner /\ Turns /\ Making /\ Owned /\ Addressed
      /\ Watched /\ ClosedFirmly /\ RightConnection /\ NoticeOfLoss
  BY Parts
<1>2. /\ pc = "service" /\ w \in Open \ up /\ up' = up \cup {w}
      /\ bFirst_' = [s \in Socks |-> bFirst_[s] /\ s # ItemOf(w).websock_]
      /\ closed' = closed \ {ItemOf(w).websock_}
      /\ UNCHANGED <<wsi_, closing, shared, queue, stopped_, thread, writable, dying, conn, count,
                     own, written, stale, told, wiped, ended>>
  BY DEF Established, Serving
<1> USE DEF shared, queue, thread, count
<1>3. Open' = Open
  BY <1>2 DEF Open
<1>4. TypeOK'
  <2>1. bFirst_' \in [Socks -> BOOLEAN]
    BY <1>1, <1>2 DEF TypeOK
  <2>2. QED
    BY <1>1, <1>2, <2>1 DEF TypeOK
<1>5. OpenOrStale' /\ NamesOwner' /\ Addressed' /\ Turns' /\ Owned' /\ Making'
  BY <1>1, <1>2, <1>3 DEF OpenOrStale, NamesOwner, Addressed, Turns, Owned, Making
<1>6. Watched'
  BY <1>1, <1>2, <1>3 DEF Watched, ItemOf
<1>7. ClosedFirmly'
  <2>1. \A t \in closed' : t \in closed /\ bFirst_'[t]
    BY <1>1, <1>2 DEF ClosedFirmly, Owned
  <2>2. QED
    BY <1>1, <1>2, <2>1 DEF ClosedFirmly, Settled, Deciding
<1>8. RightConnection' /\ NoticeOfLoss'
  BY <1>1, <1>2 DEF RightConnection, NoticeOfLoss
<1>9. QED
  BY <1>4, <1>5, <1>6, <1>7, <1>8, Parts, PTL

LEMMA WriteableKeeps == ASSUME IInv, NEW w \in Wsis, Writeable(w) PROVE IInv'
<1>1. TypeOK /\ OpenOrStale /\ NamesOwner /\ Turns /\ Making /\ Owned /\ Addressed
      /\ Watched /\ ClosedFirmly /\ RightConnection /\ NoticeOfLoss
  BY Parts
<1> DEFINE buf  == ItemOf(w).sendBuf_
           gone == {i \in DOMAIN buf : \A j \in 1..(i - 1) : buf[j].rec # Close}
           out  == {[on |-> conn[w], for |-> buf[i].on, late |-> buf[i].late] : i \in gone}
<1>2. /\ pc = "service" /\ w \in up
      /\ client_message_cache_' =
           IF w \in DOMAIN client_message_cache_
           THEN [client_message_cache_ EXCEPT ![w].sendBuf_ = <<>>, ![w].sending_ = buf # <<>>]
           ELSE client_message_cache_
      /\ written' = written \cup out
      /\ dying' \in {{}, {w}} /\ writable' \in {writable, writable \ {w}}
      /\ UNCHANGED <<sock, bnew_data_to_send_, queue, stopped_, thread, up, conn, count,
                     own, stale, told, wiped, ended, closed>>
  BY DEF Writeable, Serving
<1> USE DEF sock, queue, thread, count
<1>3. buf \in Seq(Records)
  BY <1>1, ItemType DEF Entries
<1>4. \A m \in out : m.on = m.for \/ m.late
  <2> SUFFICES ASSUME NEW i \in DOMAIN buf PROVE conn[w] = buf[i].on \/ buf[i].late
    OBVIOUS
  <2>1. i \in 1..Len(buf)
    BY <1>3, LenProperties
  <2>2. w \in DOMAIN client_message_cache_
    <3>1. ASSUME w \notin DOMAIN client_message_cache_ PROVE FALSE
      <4>1. buf = <<>>
        BY <1>1, <3>1, ItemType
      <4>2. QED
        BY <2>1, <4>1
    <3>2. QED
      BY <3>1
  <2>3. buf = client_message_cache_[w].sendBuf_
    BY <1>1, <2>2, ItemType
  <2>4. QED
    BY <1>1, <2>1, <2>2, <2>3 DEF Addressed
<1>5. /\ DOMAIN client_message_cache_' = DOMAIN client_message_cache_
      /\ \A v \in DOMAIN client_message_cache_ :
           /\ client_message_cache_'[v] \in Entries
           /\ client_message_cache_'[v].websock_ = client_message_cache_[v].websock_
           /\ client_message_cache_'[v].sendBuf_ \in {client_message_cache_[v].sendBuf_, <<>>}
  <2> DEFINE more == (buf # <<>>)
  <2>1. more \in BOOLEAN
    OBVIOUS
  <2>2. client_message_cache_' =
          IF w \in DOMAIN client_message_cache_
          THEN [client_message_cache_ EXCEPT ![w].sendBuf_ = <<>>, ![w].sending_ = more]
          ELSE client_message_cache_
    BY <1>2
  <2> HIDE DEF more, buf
  <2>3. \A v \in DOMAIN client_message_cache_ : client_message_cache_[v] \in Entries
    BY <1>1 DEF TypeOK
  <2>4. <<>> \in Seq(Records)
    OBVIOUS
  <2>5. QED
    BY <2>1, <2>2, <2>3, <2>4 DEF Entries
<1> HIDE DEF buf, out
<1>6. Open' = Open
  BY <1>2 DEF Open
<1>7. TypeOK'
  BY <1>1, <1>2, <1>5 DEF TypeOK
<1>8. OpenOrStale' /\ NamesOwner'
  BY <1>1, <1>2, <1>5, <1>6 DEF OpenOrStale, NamesOwner
<1>9. Turns' /\ Making' /\ Owned'
  BY <1>1, <1>2, <1>6 DEF Turns, Making, Owned
<1>10. Addressed'
  <2>1. Len(<<>>) = 0
    OBVIOUS
  <2>2. QED
    BY <1>1, <1>2, <1>5, <2>1 DEF Addressed
<1>11. Watched'
  BY <1>1, <1>2, <1>5, <1>6 DEF Watched, ItemOf, EmptyItem
<1>12. ClosedFirmly'
  BY <1>1, <1>2, <1>5 DEF ClosedFirmly, Settled, Deciding
<1>13. RightConnection' /\ NoticeOfLoss'
  BY <1>1, <1>2, <1>4 DEF RightConnection, NoticeOfLoss
<1>14. QED
  BY <1>7, <1>8, <1>9, <1>10, <1>11, <1>12, <1>13, Parts, PTL

LEMMA EraseKeeps == ASSUME IInv, NEW w \in Wsis, Erase(w) PROVE IInv'
<1>1. TypeOK /\ OpenOrStale /\ NamesOwner /\ Turns /\ Making /\ Owned /\ Addressed
      /\ Watched /\ ClosedFirmly /\ RightConnection /\ NoticeOfLoss
  BY Parts
<1> DEFINE s == ItemOf(w).websock_
<1>2. /\ pc = "service" /\ w \in dying
      /\ client_message_cache_' = Without(client_message_cache_, w)
      /\ ended' = ended \cup {conn[w]}
      /\ IF s = NoSock THEN UNCHANGED <<pc, retry>>
         ELSE pc' = "lost" /\ retry' = [NoRetry EXCEPT !.websock_ = s, !.why = "lost", !.on = conn[w]]
      /\ up' = up \ {w} /\ writable' = writable \ {w}
      /\ dying' = {} /\ conn' = [conn EXCEPT ![w] = 0]
      /\ UNCHANGED <<sock, bnew_data_to_send_, queue, stopped_, delayed_connect, tmp_connect,
                     fresh, updateds, count, own, written, stale, told, wiped, closed>>
  BY DEF Erase
<1> USE DEF sock, queue, count
<1>3. w \in Open
  BY <1>1, <1>2 DEF Turns
<1>4. /\ DOMAIN client_message_cache_' = DOMAIN client_message_cache_ \ {w}
      /\ \A v \in DOMAIN client_message_cache_ \ {w} :
           client_message_cache_'[v] = client_message_cache_[v]
  BY <1>2 DEF Without
<1>5. /\ conn' \in [Wsis -> 0..MaxConns] /\ conn'[w] = 0
      /\ \A v \in Wsis \ {w} : conn'[v] = conn[v]
  BY <1>1, <1>2, ClientAssumption DEF TypeOK
<1>6. Open' = Open \ {w}
  BY <1>5 DEF Open
<1>7. /\ s \in Socks \cup {NoSock} /\ retry' \in Retries
      /\ \/ s = NoSock /\ pc' = "service"
         \/ s # NoSock /\ pc' = "lost" /\ retry'.websock_ = s /\ retry'.on = conn[w]
  <2>1. s \in Socks \cup {NoSock} /\ retry \in Retries /\ conn[w] \in 0..MaxConns
    BY <1>1, ItemType DEF Entries, TypeOK
  <2> HIDE DEF s
  <2>2. CASE s = NoSock
    BY <1>2, <2>1, <2>2
  <2>3. CASE s # NoSock
    BY <1>2, <2>1, <2>3 DEF Retries, NoRetry
  <2>4. QED
    BY <2>1, <2>2, <2>3
<1>8. TypeOK'
  BY <1>1, <1>2, <1>4, <1>5, <1>7 DEF TypeOK
<1> HIDE DEF s
<1>9. OpenOrStale' /\ Turns'
  BY <1>1, <1>2, <1>4, <1>6, <1>7 DEF OpenOrStale, Turns
<1>10. NamesOwner' /\ Addressed'
  BY <1>1, <1>2, <1>4, <1>5, <1>6 DEF NamesOwner, Addressed, TypeOK
<1>11. Making' /\ Owned'
  BY <1>1, <1>2, <1>7 DEF Making, Owned
<1>12. Watched'
  <2> SUFFICES ASSUME NEW v \in Open \ {w}
               PROVE  ItemOf(v)'.websock_ # NoSock \/ conn'[v] \in wiped
    BY <1>2, <1>6 DEF Watched
  <2>1. ItemOf(v)' = ItemOf(v)
    BY <1>4 DEF ItemOf, EmptyItem
  <2>2. conn'[v] = conn[v]
    BY <1>5 DEF Open
  <2>3. QED
    BY <1>1, <1>2, <2>1, <2>2 DEF Watched
<1>13. ClosedFirmly'
  BY <1>1, <1>2, <1>7 DEF ClosedFirmly, Settled, Deciding
<1>14. NoticeOfLoss'
  <2>1. ended \subseteq told \cup wiped
    BY <1>1, <1>2 DEF NoticeOfLoss
  <2>2. s # NoSock \/ conn[w] \in wiped
    BY <1>1, <1>2, <1>3 DEF Watched, s
  <2>3. QED
    BY <1>2, <1>7, <2>1, <2>2 DEF NoticeOfLoss
<1>15. RightConnection'
  BY <1>1, <1>2 DEF RightConnection
<1>16. QED
  BY <1>8, <1>9, <1>10, <1>11, <1>12, <1>13, <1>14, <1>15, Parts, PTL
-----------------------------------------------------------------------------
(* The decision on a retry, outside the lock. *)

LEMMA DisconnectedKeeps == IInv /\ Disconnected => IInv'
<1> SUFFICES ASSUME IInv, Disconnected PROVE IInv'
  OBVIOUS
<1>1. /\ pc = "lost" /\ pc' = "test" /\ told' = told \cup {retry.on}
      /\ UNCHANGED <<sock, shared, queue, stopped_, retry, delayed_connect, tmp_connect, fresh,
                     updateds, lws, count, own, written, stale, wiped, ended, closed>>
  BY DEF Disconnected
<1> USE DEF sock, shared, queue, lws, count
<1>2. TypeOK /\ OpenOrStale /\ NamesOwner /\ Turns /\ Making /\ Owned /\ Addressed
      /\ Watched /\ ClosedFirmly /\ RightConnection /\ NoticeOfLoss
  BY Parts
<1>3. Open' = Open
  BY <1>1 DEF Open
<1>4. TypeOK' /\ OpenOrStale' /\ NamesOwner' /\ Addressed'
  BY <1>1, <1>2, <1>3 DEF TypeOK, OpenOrStale, NamesOwner, Addressed
<1>5. Turns' /\ Making' /\ Owned' /\ Watched'
  BY <1>1, <1>2, <1>3 DEF Turns, Making, Owned, Watched, ItemOf
<1>6. ClosedFirmly' /\ RightConnection' /\ NoticeOfLoss'
  BY <1>1, <1>2 DEF ClosedFirmly, Settled, Deciding, RightConnection, NoticeOfLoss
<1>7. QED
  BY <1>4, <1>5, <1>6, Parts, PTL

\* A WebSock that has been closed does not pass the test.
LEMMA TestFirstKeeps == IInv /\ TestFirst => IInv'
<1> SUFFICES ASSUME IInv, TestFirst PROVE IInv'
  OBVIOUS
<1>1. /\ pc = "test"
      /\ \/ ~bFirst_[retry.websock_] /\ pc' = "again" /\ UNCHANGED retry
         \/ pc' = retry.next /\ retry' = NoRetry
      /\ UNCHANGED <<sock, shared, queue, stopped_, delayed_connect, tmp_connect, fresh,
                     updateds, lws, count, seen>>
  BY DEF TestFirst
<1> USE DEF sock, shared, queue, lws, count, seen
<1>2. TypeOK /\ OpenOrStale /\ Turns /\ Making /\ Watched /\ ClosedFirmly
  BY Parts
<1>3. NamesOwner' /\ Owned' /\ Addressed' /\ RightConnection' /\ NoticeOfLoss' /\ Open' = Open
  BY <1>1, CacheKept
<1>4. NoRetry \in Retries /\ retry.next \in {"delayed", "taken", "service"}
  BY <1>2, NoRetryType DEF Retries, TypeOK
<1>5. TypeOK'
  BY <1>1, <1>2, <1>4 DEF TypeOK
<1>6. OpenOrStale' /\ Turns' /\ Making' /\ Watched'
  BY <1>1, <1>2, <1>3, <1>4 DEF OpenOrStale, Turns, Making, Watched, ItemOf
<1>7. ClosedFirmly'
  BY <1>1, <1>2, <1>4 DEF ClosedFirmly, Settled, Deciding
<1>8. QED
  BY <1>3, <1>5, <1>6, <1>7, Parts, PTL

\* A retry that is queued for a closed WebSock had been decided before.
LEMMA PutBackKeeps == IInv /\ PutBack => IInv'
<1> SUFFICES ASSUME IInv, PutBack PROVE IInv'
  OBVIOUS
<1> DEFINE new == [Item(retry.websock_, TRUE, retry.why) EXCEPT !.old = retry.old]
<1>1. /\ pc = "again" /\ pc' = retry.next /\ connect_queue_' = Append(connect_queue_, new)
      /\ has_new_connect_' = (has_new_connect_ \/ retry.why = "lost") /\ retry' = NoRetry
      /\ UNCHANGED <<sock, shared, stopped_, delayed_connect, tmp_connect, fresh,
                     updateds, lws, count, seen>>
  BY DEF PutBack
<1> USE DEF sock, shared, lws, count, seen
<1>2. TypeOK /\ OpenOrStale /\ Turns /\ Making /\ Watched /\ ClosedFirmly
  BY Parts
<1>3. NamesOwner' /\ Owned' /\ Addressed' /\ RightConnection' /\ NoticeOfLoss' /\ Open' = Open
  BY <1>1, CacheKept
<1>4. /\ NoRetry \in Retries /\ retry.next \in {"delayed", "taken", "service"}
      /\ new \in Items /\ new.websock_ = retry.websock_ /\ new.old = retry.old
  <2>1. retry \in Retries /\ retry.websock_ \in Socks
    BY <1>1, <1>2 DEF TypeOK, Turns
  <2> DEFINE first == Item(retry.websock_, TRUE, retry.why)
  <2>2. first \in Items /\ first.websock_ = retry.websock_ /\ retry.old \in BOOLEAN
        /\ retry.next \in {"delayed", "taken", "service"}
    BY <2>1 DEF Item, Items, Retries
  <2>3. new = [first EXCEPT !.old = retry.old]
    OBVIOUS
  <2> HIDE DEF first, new
  <2>4. new \in Items /\ new.websock_ = first.websock_ /\ new.old = retry.old
    BY <2>2, <2>3 DEF Items
  <2>5. QED
    BY <2>2, <2>4, NoRetryType
<1> HIDE DEF new
<1>5. /\ connect_queue_' \in Seq(Items) /\ has_new_connect_' \in BOOLEAN
      /\ \A t \in closed : Settled(connect_queue_, t) => Settled(connect_queue_', t)
  <2>1. connect_queue_ \in Seq(Items) /\ has_new_connect_ \in BOOLEAN
    BY <1>2 DEF TypeOK
  <2>2. \A t \in closed : new.websock_ = t => new.old
    BY <1>1, <1>2, <1>4 DEF ClosedFirmly, Deciding
  <2>3. QED
    BY <1>1, <1>4, <2>1, <2>2, AppendSettled
<1>6. TypeOK'
  BY <1>1, <1>2, <1>4, <1>5 DEF TypeOK
<1>7. OpenOrStale' /\ Turns' /\ Making' /\ Watched'
  BY <1>1, <1>2, <1>3, <1>4 DEF OpenOrStale, Turns, Making, Watched, ItemOf
<1>8. ClosedFirmly'
  <2> SUFFICES ASSUME NEW t \in closed
               PROVE  /\ Settled(connect_queue_', t) /\ Settled(delayed_connect, t)
                      /\ Settled(tmp_connect, t) /\ bFirst_[t]
    BY <1>1, <1>4 DEF ClosedFirmly, Settled, Deciding
  <2>1. QED
    BY <1>2, <1>5 DEF ClosedFirmly
<1>9. QED
  BY <1>3, <1>6, <1>7, <1>8, Parts, PTL
-----------------------------------------------------------------------------
LEMMA NextIInv == IInv /\ [Next]_vars => IInv'
<1> SUFFICES ASSUME IInv, [Next]_vars PROVE IInv'
  OBVIOUS
<1>1. CASE Stop \/ Top \/ Serviced
  BY <1>1, QuietKeeps
<1>2. CASE TryDelayed \/ TryTaken
  BY <1>2, TryDelayedKeeps, TryTakenKeeps
<1>3. CASE TakeQueue \/ Register
  BY <1>3, TakeQueueKeeps, RegisterKeeps
<1>4. CASE Collect \/ Ask
  BY <1>4, CollectKeeps, AskKeeps
<1>5. CASE \E i \in 1..(MaxRequests + MaxConns) : Due(i)
  BY <1>5, DueKeeps
<1>6. CASE \E s \in Socks : Connect(s) \/ Send(s) \/ CloseStore(s) \/ CloseSend(s) \/ Delete(s)
  BY <1>6, ConnectKeeps, SendKeeps, CloseStoreKeeps, CloseSendKeeps, DeleteKeeps
<1>7. CASE \E w \in Wsis : Established(w) \/ Writeable(w) \/ PeerGone(w) \/ Erase(w)
  BY <1>7, EstablishedKeeps, WriteableKeeps, PeerGoneKeeps, EraseKeeps
<1>8. CASE UNCHANGED vars
  <2> USE <1>8 DEF vars, sock, shared, queue, thread, lws, count, seen
  <2>1. TypeOK /\ OpenOrStale /\ Turns /\ Making /\ Watched /\ ClosedFirmly
    BY Parts
  <2>2. NamesOwner' /\ Owned' /\ Addressed' /\ RightConnection' /\ NoticeOfLoss' /\ Open' = Open
    BY CacheKept
  <2>3. TypeOK'
    BY <2>1 DEF TypeOK
  <2>4. OpenOrStale' /\ Turns' /\ Making'
    BY <2>1, <2>2 DEF OpenOrStale, Turns, Making
  <2>5. Watched' /\ ClosedFirmly'
    BY <2>1, <2>2 DEF Watched, ItemOf, ClosedFirmly, Settled, Deciding
  <2>6. QED
    BY <2>2, <2>3, <2>4, <2>5, Parts, PTL
<1>9. CASE Disconnected \/ TestFirst \/ PutBack
  BY <1>9, DisconnectedKeeps, TestFirstKeeps, PutBackKeeps
<1>10. QED
  BY <1>1, <1>2, <1>3, <1>4, <1>5, <1>6, <1>7, <1>8, <1>9 DEF Next

(***************************************************************************)
(* The inductive invariant holds in every state of the client, whatever    *)
(* the threads that connect, send, close and delete do while the service   *)
(* thread makes and loses connections.                                     *)
(***************************************************************************)
THEOREM Invariance == Spec => []IInv
<1>1. QED
  BY InitIInv, NextIInv, PTL DEF Spec

(***************************************************************************)
(* client_message_cache_ names for every open connection the WebSock that  *)
(* has it, and holds entries of others only for a wsi_ used after a loss.  *)
(***************************************************************************)
THEOREM CacheSound == Spec => []EntriesSound
<1>1. QED
  BY Invariance, Parts, PTL DEF EntriesSound

(***************************************************************************)
(* A record queued by ClinetMetaSend before its connection was lost is     *)
(* never written to the connection that has the address next.              *)
(***************************************************************************)
THEOREM OwnConnection == Spec => []RightConnection
<1>1. QED
  BY Invariance, Parts, PTL

(***************************************************************************)
(* WSI_DESTROY reports every loss to its WebSock, unless a ~WebSock erased *)
(* the entry under an old wsi_.                                            *)
(***************************************************************************)
THEOREM LossReported == Spec => []NoticeOfLoss
<1>1. QED
  BY Invariance, Parts, PTL

(***************************************************************************)
(* Once WebSock::Close has raised bFirst_, check_reconnect and run decide  *)
(* on no retry for the WebSock, wherever between its two locks the thread  *)
(* was then, until Connect is called or a connection is established.       *)
(***************************************************************************)
THEOREM ClosedForGood == Spec => []StaysClosed
<1>1. QED
  BY Invariance, IInvClosed, PTL
=============================================================================
