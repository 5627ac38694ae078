------------------------- MODULE RJTcpServer_proofs -------------------------
(***************************************************************************)
(* Proofs about RJTcpServer for any addresses, senders, connections and    *)
(* messages.                                                               *)
(*                                                                         *)
(* The inductive invariant says how the loop, the walk and the destructor  *)
(* follow each other (Control), which states of a client object go with    *)
(* being listed and with its close callback (Handles), that an address     *)
(* names the last connection made at it (Named), what the application was  *)
(* told (Announced), which objects are freed or closed twice (Objects,     *)
(* Cut), and where each accepted buffer is and whose it is (Queued, Books, *)
(* Sent, Meant).                                                           *)
(***************************************************************************)
EXTENDS RJTcpServer, FiniteSetTheorems, SequenceTheorems, TLAPS

Elems(s) == {s[k] : k \in 1..Len(s)}
Rising(s) == \A j, k \in 1..Len(s) : j < k => s[j] < s[k]
Nums(q) == {q[k].n : k \in 1..Len(q)}
RisingNums(q) == \A j, k \in 1..Len(q) : j < k => q[j].n < q[k].n
Below(A, B) == \A m \in A, n \in B : m < n

Control ==
    /\ loop \in {"swap", "flush"} => infra = "open"
    /\ loop = "ended" => infra = "closed" /\ \A h \in Addrs : handle[h] \in {"none", "closed"}
    /\ dtor = "gone" => loop = "ended"
    /\ dtor # "alive" => sendBuf = <<>> /\ \A s \in Senders : pc[s] = "idle"

Handles ==
    \A h \in Addrs :
        /\ handle[h] = "open" => h \in clients /\ infra = "open"
        /\ h \in clients => conn[h] # 0 /\ ~closeCb[h] /\ (infra = "open" => handle[h] = "open")
        /\ closeCb[h] => handle[h] = "closing"
        /\ handle[h] = "closing" /\ ~closeCb[h] => infra # "open"
        /\ handle[h] = "closed" => infra # "open"
        /\ writes[h] # <<>> => handle[h] \in {"open", "closing"}
        /\ dtor # "gone" => (conn[h] # 0 <=> handle[h] # "none")

Named == \A h \in Addrs : conn[h] <= Len(home) /\ (conn[h] # 0 => home[conn[h]] = h)

Announced == /\ told \subseteq 1..Len(home) /\ left \subseteq told
             /\ told \ left = {conn[h] : h \in clients}

Freed(c) == c <= Len(home) /\ (conn[home[c]] # c \/ (dtor = "gone" /\ home[c] \in clients))
Orphan(c) == /\ c <= Len(home) /\ conn[home[c]] = c
             /\ home[c] \notin clients /\ ~closeCb[home[c]]

Objects == \A c \in Conns : /\ freedObj[c] = IF Freed(c) THEN 1 ELSE 0
                            /\ c \in twice <=> Orphan(c)

Cut == /\ \A h \in clients : handle[h] # "open" /\ writes[h] # <<>> => conn[h] \in cutOff
       /\ twice \subseteq cutOff

Written == UNION {Elems(writes[h]) : h \in Addrs}
InFlight == Written \cup Nums(sendTemp) \cup Nums(sendBuf)

Queued == /\ RisingNums(sendTemp) /\ RisingNums(sendBuf)
          /\ \A h \in Addrs : Rising(writes[h])
          /\ \A g, h \in Addrs : g # h => Elems(writes[g]) \cap Elems(writes[h]) = {}
          /\ Below(Written, Nums(sendTemp)) /\ Below(Written, Nums(sendBuf))
          /\ Below(Nums(sendTemp), Nums(sendBuf))
          /\ \A n \in InFlight : n <= msgs

Books == \A n \in Msgs : freedBuf[n] = IF n <= msgs /\ n \notin InFlight THEN 1 ELSE 0

Sent == /\ \A c \in Conns : /\ Rising(wrote[c])
                            /\ Below(Elems(wrote[c]), Nums(sendTemp))
                            /\ Below(Elems(wrote[c]), Nums(sendBuf))
                            /\ \A n \in Elems(wrote[c]) : n <= msgs
        /\ \A h \in Addrs : conn[h] # 0 => Below(Elems(wrote[conn[h]]), Elems(writes[h]))

Meant == /\ \A s \in Senders : pc[s] = "checked" => target[s] \in told
         /\ \A e \in Elems(sendTemp) \cup Elems(sendBuf) :
               meant[e.n] \in told /\ home[meant[e.n]] = e.to
         /\ \A h \in Addrs : \A n \in Elems(writes[h]) : meant[n] = conn[h] \/ meant[n] \in left
         /\ \A c \in Conns : \A n \in Elems(wrote[c]) : meant[n] = c \/ meant[n] \in left

IInv == /\ TypeOK /\ Control /\ Handles /\ Named /\ Announced /\ Objects /\ Cut
        /\ Queued /\ Books /\ Sent /\ Meant
-----------------------------------------------------------------------------
(* Sequences of buffers and of queue entries. *)

LEMMA ElemsEmpty == Elems(<<>>) = {} /\ Nums(<<>>) = {} /\ Rising(<<>>) /\ RisingNums(<<>>)
  BY DEF Elems, Nums, Rising, RisingNums

LEMMA ElemsIn ==
    ASSUME NEW S, NEW s \in Seq(S)
    PROVE  Elems(s) \subseteq S /\ (s = <<>> <=> Elems(s) = {})
<1>1. Len(s) \in Nat /\ \A k \in 1..Len(s) : s[k] \in S
  BY LenProperties, ElementOfSeq
<1>2. s # <<>> => 1 \in 1..Len(s)
  BY EmptySeq
<1>3. QED
  BY <1>1, <1>2, ElemsEmpty DEF Elems

LEMMA NumsIn ==
    ASSUME NEW q \in Seq([n : Msgs, to : Addrs])
    PROVE  Nums(q) = {e.n : e \in Elems(q)} /\ Nums(q) \subseteq Msgs
<1>1. Nums(q) = {e.n : e \in Elems(q)}
  BY DEF Nums, Elems
<1>2. \A e \in Elems(q) : e \in [n : Msgs, to : Addrs]
  BY ElemsIn
<1>3. QED
  BY <1>1, <1>2

LEMMA HeadFirst ==
    ASSUME NEW S, NEW s \in Seq(S), s # <<>>
    PROVE  /\ Len(s) \in Nat \ {0} /\ Head(s) = s[1]
           /\ Head(s) \in S /\ Tail(s) \in Seq(S)
           /\ Len(Tail(s)) = Len(s) - 1
           /\ \A i \in 1..Len(Tail(s)) : Tail(s)[i] = s[i + 1] /\ i + 1 \in 1..Len(s)
           /\ Elems(s) = {Head(s)} \cup Elems(Tail(s))
<1>1. Len(s) \in Nat \ {0} /\ Head(s) = s[1]
  BY EmptySeq
<1>2. /\ Head(s) \in S /\ Tail(s) \in Seq(S) /\ Len(Tail(s)) = Len(s) - 1
      /\ \A i \in 1..Len(Tail(s)) : Tail(s)[i] = s[i + 1]
  BY HeadTailProperties
<1>3. \A i \in 1..Len(Tail(s)) : i + 1 \in 1..Len(s)
  BY <1>1, <1>2
<1>4. Elems(Tail(s)) = {s[i + 1] : i \in 1..(Len(s) - 1)}
  BY <1>2 DEF Elems
<1>5. Elems(s) = {s[1]} \cup {s[i + 1] : i \in 1..(Len(s) - 1)}
  <2>1. ASSUME NEW k \in 1..Len(s), k # 1
        PROVE  \E i \in 1..(Len(s) - 1) : s[k] = s[i + 1]
    BY <1>1, <2>1, k - 1 \in 1..(Len(s) - 1), (k - 1) + 1 = k
  <2>2. 1 \in 1..Len(s)
    BY <1>1
  <2>3. QED
    BY <1>2, <1>3, <2>1, <2>2 DEF Elems
<1>6. QED
  BY <1>1, <1>2, <1>3, <1>4, <1>5

LEMMA RisingTail ==
    ASSUME NEW s \in Seq(Msgs), s # <<>>, Rising(s)
    PROVE  /\ Rising(Tail(s))
           /\ \A x \in Elems(Tail(s)) : Head(s) < x
<1>1. 1 \in 1..Len(s)
  BY HeadFirst
<1>2. QED
  BY <1>1, HeadFirst DEF Rising, Elems

LEMMA RisingNumsTail ==
    ASSUME NEW q \in Seq([n : Msgs, to : Addrs]), q # <<>>, RisingNums(q)
    PROVE  /\ RisingNums(Tail(q))
           /\ Nums(q) = {Head(q).n} \cup Nums(Tail(q))
           /\ \A x \in Nums(Tail(q)) : Head(q).n < x
<1>1. 1 \in 1..Len(q) /\ Head(q) = q[1]
  BY HeadFirst
<1>2. /\ RisingNums(Tail(q))
      /\ \A x \in Nums(Tail(q)) : Head(q).n < x
  BY <1>1, HeadFirst DEF RisingNums, Nums
<1>3. Nums(q) = {Head(q).n} \cup Nums(Tail(q))
  <2>1. Tail(q) \in Seq([n : Msgs, to : Addrs]) /\ Elems(q) = {Head(q)} \cup Elems(Tail(q))
    BY HeadFirst
  <2>2. Nums(q) = {e.n : e \in Elems(q)} /\ Nums(Tail(q)) = {e.n : e \in Elems(Tail(q))}
    BY <2>1, NumsIn
  <2>3. QED
    BY <2>1, <2>2
<1>4. QED
  BY <1>2, <1>3

LEMMA RisingAppend ==
    ASSUME NEW s \in Seq(Msgs), NEW n \in Msgs
    PROVE  /\ Append(s, n) \in Seq(Msgs) /\ Elems(Append(s, n)) = Elems(s) \cup {n}
           /\ Rising(s) /\ (\A x \in Elems(s) : x < n) => Rising(Append(s, n))
<1>1. /\ Len(s) \in Nat /\ Len(Append(s, n)) = Len(s) + 1 /\ Append(s, n) \in Seq(Msgs)
      /\ \A i \in 1..Len(s) : Append(s, n)[i] = s[i]
      /\ Append(s, n)[Len(s) + 1] = n
  BY AppendProperties, LenProperties
<1>2. 1..(Len(s) + 1) = 1..Len(s) \cup {Len(s) + 1}
  BY <1>1
<1>3. Elems(Append(s, n)) = Elems(s) \cup {n}
  BY <1>1, <1>2 DEF Elems
<1>4. ASSUME Rising(s), \A x \in Elems(s) : x < n,
             NEW j \in 1..(Len(s) + 1), NEW k \in 1..(Len(s) + 1), j < k
      PROVE  Append(s, n)[j] < Append(s, n)[k]
  <2>1. j \in 1..Len(s)
    BY <1>1, <1>4
  <2>2. CASE k \in 1..Len(s)
    BY <1>1, <1>4, <2>1, <2>2 DEF Rising
  <2>3. CASE k = Len(s) + 1
    BY <1>1, <1>4, <2>1, <2>3 DEF Elems
  <2>4. QED
    BY <1>2, <2>2, <2>3
<1>5. QED
  BY <1>1, <1>3, <1>4 DEF Rising

LEMMA RisingNumsAppend ==
    ASSUME NEW q \in Seq([n : Msgs, to : Addrs]), NEW e \in [n : Msgs, to : Addrs]
    PROVE  /\ Append(q, e) \in Seq([n : Msgs, to : Addrs]) /\ Elems(Append(q, e)) = Elems(q) \cup {e}
           /\ Nums(Append(q, e)) = Nums(q) \cup {e.n}
           /\ RisingNums(q) /\ (\A x \in Nums(q) : x < e.n) => RisingNums(Append(q, e))
<1>1. /\ Len(q) \in Nat /\ Len(Append(q, e)) = Len(q) + 1
      /\ Append(q, e) \in Seq([n : Msgs, to : Addrs])
      /\ \A i \in 1..Len(q) : Append(q, e)[i] = q[i]
      /\ Append(q, e)[Len(q) + 1] = e
  BY AppendProperties, LenProperties
<1>2. 1..(Len(q) + 1) = 1..Len(q) \cup {Len(q) + 1}
  BY <1>1
<1>3. Elems(Append(q, e)) = Elems(q) \cup {e} /\ Nums(Append(q, e)) = Nums(q) \cup {e.n}
  BY <1>1, <1>2 DEF Elems, Nums
<1>4. ASSUME RisingNums(q), \A x \in Nums(q) : x < e.n,
             NEW j \in 1..(Len(q) + 1), NEW k \in 1..(Len(q) + 1), j < k
      PROVE  Append(q, e)[j].n < Append(q, e)[k].n
  <2>1. j \in 1..Len(q)
    BY <1>1, <1>4
  <2>2. CASE k \in 1..Len(q)
    BY <1>1, <1>4, <2>1, <2>2 DEF RisingNums
  <2>3. CASE k = Len(q) + 1
    BY <1>1, <1>4, <2>1, <2>3 DEF Nums
  <2>4. QED
    BY <1>2, <2>2, <2>3
<1>5. QED
  BY <1>1, <1>3, <1>4 DEF RisingNums

\* How often a buffer is in a rising queue.
LEMMA CountInRising ==
    ASSUME NEW q \in Seq([n : Msgs, to : Addrs]), RisingNums(q), NEW n \in Msgs
    PROVE  Cardinality({k \in 1..Len(q) : q[k].n = n}) = IF n \in Nums(q) THEN 1 ELSE 0
<1>1. Len(q) \in Nat /\ \A k \in 1..Len(q) : q[k].n \in Msgs
  BY LenProperties, NumsIn DEF Nums
<1>2. CASE n \in Nums(q)
  <2>1. PICK k \in 1..Len(q) : q[k].n = n
    BY <1>2 DEF Nums
  <2>2. \A j \in 1..Len(q) : q[j].n = n => j = k
    BY <1>1, <2>1, ServerAssumption DEF RisingNums, Msgs
  <2>3. {j \in 1..Len(q) : q[j].n = n} = {k}
    BY <2>1, <2>2
  <2>4. QED
    BY <1>2, <2>3, FS_Singleton
<1>3. CASE n \notin Nums(q)
  <2>1. {j \in 1..Len(q) : q[j].n = n} = {}
    BY <1>3 DEF Nums
  <2>2. QED
    BY <1>3, <2>1, FS_EmptySet
<1>4. QED
  BY <1>2, <1>3

-----------------------------------------------------------------------------
LEMMA InitIInv == Init => IInv
<1> SUFFICES ASSUME Init PROVE IInv
  OBVIOUS
<1> USE ServerAssumption DEF Init
<1>1. TypeOK
  <2>1. <<>> \in Seq(Msgs) /\ <<>> \in Seq(Addrs) /\ <<>> \in Seq([n : Msgs, to : Addrs])
        /\ Len(<<>>) = 0
    BY EmptySeq
  <2>2. /\ handle \in [Addrs -> {"none", "open", "closing", "closed"}]
        /\ closeCb \in [Addrs -> BOOLEAN] /\ conn \in [Addrs -> 0..MaxConns]
        /\ clients \subseteq Addrs
    OBVIOUS
  <2>3. /\ writes \in [Addrs -> Seq(Msgs)] /\ wrote \in [Conns -> Seq(Msgs)]
    BY <2>1
  <2>4. /\ pc \in [Senders -> {"idle", "checked"}] /\ target \in [Senders -> 0..MaxConns]
        /\ meant \in [Msgs -> 0..MaxConns] /\ freedBuf \in [Msgs -> Nat]
        /\ freedObj \in [Conns -> Nat]
    OBVIOUS
  <2>5. home \in Seq(Addrs) /\ Len(home) <= MaxConns /\ msgs \in 0..MaxMsgs
    BY <2>1
  <2>6. told \subseteq Conns /\ left \subseteq Conns /\ cutOff \subseteq Conns /\ twice \subseteq Conns
    OBVIOUS
  <2>7. loop = "flush" <=> sendTemp # <<>>
    OBVIOUS
  <2>8. QED
    BY <2>1, <2>2, <2>3, <2>4, <2>5, <2>6, <2>7 DEF TypeOK
<1>2. Control /\ Handles /\ Announced /\ Cut
  BY DEF Control, Handles, Announced, Cut
<1>3. Len(home) = 0
  BY EmptySeq
<1>4. Named
  BY <1>3 DEF Named
<1>5. Objects
  BY <1>3 DEF Objects, Freed, Orphan, Conns
<1>6. Written = {} /\ InFlight = {}
  BY ElemsEmpty DEF Written, InFlight
<1>7. Queued
  BY <1>6, ElemsEmpty DEF Queued, Below
<1>8. Books
  BY <1>6 DEF Books, Msgs
<1>9. Sent /\ Meant
  BY ElemsEmpty DEF Sent, Meant, Below
<1>10. QED
  BY <1>1, <1>2, <1>4, <1>5, <1>7, <1>8, <1>9 DEF IInv
-----------------------------------------------------------------------------
(* What Drop does, by the three cases of the client it is called for. *)

Stranger(h) == h \notin clients /\ UNCHANGED <<clients, left, handle, closeCb, twice>>

Closes(h) == /\ h \in clients /\ clients' = clients \ {h} /\ left' = left \cup {conn[h]}
             /\ handle[h] = "open" /\ handle' = [handle EXCEPT ![h] = "closing"]
             /\ closeCb' = [closeCb EXCEPT ![h] = TRUE] /\ UNCHANGED twice

ClosesAgain(h) == /\ h \in clients /\ clients' = clients \ {h} /\ left' = left \cup {conn[h]}
                  /\ handle[h] # "open" /\ twice' = twice \cup {conn[h]}
                  /\ UNCHANGED <<handle, closeCb>>

LEMMA DropCases ==
    ASSUME NEW h \in Addrs, Drop(h)
    PROVE  Stranger(h) \/ Closes(h) \/ ClosesAgain(h)
  BY DEF Drop, Stranger, Closes, ClosesAgain

\* The part of the state that Drop changes.
DropTyped == /\ handle \in [Addrs -> {"none", "open", "closing", "closed"}]
             /\ closeCb \in [Addrs -> BOOLEAN]
             /\ clients \subseteq Addrs /\ left \subseteq Conns /\ twice \subseteq Conns

LEMMA DropTyping ==
    ASSUME TypeOK, Handles, NEW h \in Addrs, Drop(h)
    PROVE  DropTyped'
<1>1. DropTyped
  BY DEF TypeOK, DropTyped
<1>2. h \in clients => conn[h] \in Conns
  BY ServerAssumption DEF TypeOK, Handles, Conns
<1>3. CASE Stranger(h)
  BY <1>1, <1>3 DEF Stranger, DropTyped
<1>4. CASE Closes(h)
  BY <1>1, <1>2, <1>4 DEF Closes, DropTyped
<1>5. CASE ClosesAgain(h)
  BY <1>1, <1>2, <1>5 DEF ClosesAgain, DropTyped
<1>6. QED
  BY <1>3, <1>4, <1>5, DropCases

Entry == [n : Msgs, to : Addrs]

\* The rest of TypeOK, in two parts.
QueuesTyped == /\ sendBuf \in Seq(Entry) /\ sendTemp \in Seq(Entry)
               /\ loop \in {"poll", "swap", "flush", "ended"} /\ async \in BOOLEAN
               /\ (loop = "flush" <=> sendTemp # <<>>)
               /\ infra \in {"open", "closing", "closed"} /\ isClosing \in BOOLEAN
               /\ pc \in [Senders -> {"idle", "checked"}]
               /\ target \in [Senders -> 0..MaxConns]
               /\ dtor \in {"alive", "drained", "joining", "gone"}
               /\ msgs \in 0..MaxMsgs /\ meant \in [Msgs -> 0..MaxConns]

RestTyped == /\ conn \in [Addrs -> 0..MaxConns]
             /\ writes \in [Addrs -> Seq(Msgs)]
             /\ home \in Seq(Addrs) /\ Len(home) <= MaxConns
             /\ told \subseteq Conns /\ cutOff \subseteq Conns
             /\ wrote \in [Conns -> Seq(Msgs)]
             /\ freedBuf \in [Msgs -> Nat] /\ freedObj \in [Conns -> Nat]

LEMMA TypeParts == TypeOK <=> DropTyped /\ QueuesTyped /\ RestTyped
  BY DEF TypeOK, DropTyped, QueuesTyped, RestTyped, Entry

LEMMA TypePartsAfter == TypeOK' <=> DropTyped' /\ QueuesTyped' /\ RestTyped'
  BY TypeParts, PTL

\* An address is the home of one connection, so one listed client has its number.
LEMMA CountClients ==
    ASSUME TypeOK, Named, NEW c \in Conns
    PROVE  Cardinality({h \in clients : conn[h] = c}) =
             IF c <= Len(home) /\ conn[home[c]] = c /\ home[c] \in clients THEN 1 ELSE 0
<1>1. ASSUME NEW h \in clients, conn[h] = c
      PROVE  h = home[c] /\ c <= Len(home)
  <2>1. h \in Addrs /\ c # 0
    BY ServerAssumption DEF TypeOK, Conns
  <2>2. QED
    BY <1>1, <2>1 DEF Named
<1>2. CASE c <= Len(home) /\ conn[home[c]] = c /\ home[c] \in clients
  <2>1. {h \in clients : conn[h] = c} = {home[c]}
    BY <1>1, <1>2
  <2>2. QED
    BY <1>2, <2>1, FS_Singleton
<1>3. CASE ~(c <= Len(home) /\ conn[home[c]] = c /\ home[c] \in clients)
  <2>1. {h \in clients : conn[h] = c} = {}
    BY <1>1, <1>3
  <2>2. QED
    BY <1>3, <2>1, FS_EmptySet
<1>4. QED
  BY <1>2, <1>3

LEMMA NextDropTyped == TypeOK /\ Handles /\ [Next]_vars => DropTyped'
<1> SUFFICES ASSUME TypeOK, Handles, [Next]_vars PROVE DropTyped'
  OBVIOUS
<1> USE DEF objVars, queueVars, endVars, appVars, count, fate
<1>1. DropTyped
  BY TypeParts
<1>2. ASSUME UNCHANGED <<handle, closeCb, clients, left, twice>> PROVE DropTyped'
  BY <1>1, <1>2 DEF DropTyped
<1>3. ASSUME NEW h \in Addrs, HandleMsg(h) \/ OnMsg(h) \/ AfterSendError(h) PROVE DropTyped'
  BY <1>3, DropTyping DEF HandleMsg, OnMsg, AfterSendError
<1>4. ASSUME NEW h \in Addrs, AfterSend(h) PROVE DropTyped'
  BY <1>2, <1>4 DEF AfterSend
<1>5. ASSUME NEW h \in Addrs, ClientClose(h) PROVE DropTyped'
  BY <1>1, <1>5 DEF ClientClose, DropTyped
<1>6. ASSUME NEW s \in Senders, SendCheck(s) \/ SendPush(s) PROVE DropTyped'
  BY <1>2, <1>6 DEF SendCheck, SendPush
<1>7. CASE Close \/ DtorDrain \/ DtorClose
  BY <1>2, <1>7 DEF Close, DtorDrain, DtorClose
<1>8. CASE DtorJoin
  BY <1>1, <1>8 DEF DtorJoin, DropTyped
<1>9. CASE AcceptConnection
  BY <1>1, <1>9 DEF AcceptConnection, DropTyped
<1>10. CASE AsyncCallBack
  BY <1>1, <1>10 DEF AsyncCallBack, WalkCallBack, DropTyped
<1>11. CASE TakeQueue \/ InfraClosed \/ RunThread
  BY <1>2, <1>11 DEF TakeQueue, InfraClosed, RunThread
<1>12. CASE WriteOne
  <2>1. sendTemp # <<>> /\ Head(sendTemp) \in [n : Msgs, to : Addrs]
    BY <1>12, HeadFirst DEF WriteOne, TypeOK
  <2>2. Head(sendTemp).to \in Addrs
    BY <2>1
  <2>3. CASE Drop(Head(sendTemp).to)
    BY <2>2, <2>3, DropTyping
  <2>4. QED
    BY <1>2, <1>12, <2>3 DEF WriteOne
<1>13. CASE UNCHANGED vars
  BY <1>2, <1>13 DEF vars
<1>14. QED
  BY <1>3, <1>4, <1>5, <1>6, <1>7, <1>8, <1>9, <1>10, <1>11, <1>12, <1>13 DEF Next, DtorStep

LEMMA NextQueuesTyped == IInv /\ [Next]_vars => QueuesTyped'
<1> SUFFICES ASSUME IInv, [Next]_vars PROVE QueuesTyped'
  OBVIOUS
<1> USE DEF objVars, queueVars, endVars, appVars, count, fate
<1>1. QueuesTyped /\ \A c \in told : c \in 0..MaxConns
  <2>1. QueuesTyped /\ told \subseteq Conns
    BY TypeParts DEF IInv, RestTyped
  <2>2. Conns \subseteq 0..MaxConns
    BY ServerAssumption DEF Conns
  <2>3. QED
    BY <2>1, <2>2
<1>2. ASSUME UNCHANGED <<sendBuf, sendTemp, loop, infra, pc, target, msgs, meant>>,
             async' \in BOOLEAN, isClosing' \in BOOLEAN,
             dtor' \in {"alive", "drained", "joining", "gone"}
      PROVE  QueuesTyped'
  BY <1>1, <1>2 DEF QueuesTyped
<1>3. async \in BOOLEAN /\ isClosing \in BOOLEAN /\ dtor \in {"alive", "drained", "joining", "gone"}
  BY <1>1 DEF QueuesTyped
<1>4. ASSUME NEW h \in Addrs,
             HandleMsg(h) \/ OnMsg(h) \/ AfterSend(h) \/ AfterSendError(h) \/ ClientClose(h)
      PROVE  QueuesTyped'
  BY <1>2, <1>3, <1>4 DEF HandleMsg, OnMsg, AfterSend, AfterSendError, ClientClose
<1>5. ASSUME NEW s \in Senders, SendCheck(s) PROVE QueuesTyped'
  BY <1>1, <1>5 DEF SendCheck, QueuesTyped
<1>6. ASSUME NEW s \in Senders, SendPush(s) PROVE QueuesTyped'
  <2>1. target[s] \in told /\ target[s] \in 1..Len(home)
    BY <1>6 DEF SendPush, IInv, Meant, Announced
  <2>2. home[target[s]] \in Addrs
    BY <2>1, ElementOfSeq DEF IInv, TypeOK
  <2>3. msgs + 1 \in Msgs /\ msgs + 1 \in 0..MaxMsgs
    BY <1>1, <1>6, ServerAssumption DEF SendPush, QueuesTyped, Msgs
  <2>4. sendBuf' \in Seq(Entry)
    <3>1. [n |-> msgs + 1, to |-> home[target[s]]] \in Entry
      BY <2>2, <2>3 DEF Entry
    <3>2. QED
      BY <1>1, <1>6, <3>1, AppendProperties DEF SendPush, QueuesTyped
  <2>5. meant' \in [Msgs -> 0..MaxConns] /\ pc' \in [Senders -> {"idle", "checked"}]
    BY <1>1, <1>6, <2>1 DEF SendPush, QueuesTyped
  <2>6. msgs' \in 0..MaxMsgs /\ async' \in BOOLEAN
    BY <1>6, <2>3 DEF SendPush
  <2>7. UNCHANGED <<sendTemp, loop, infra, isClosing, target, dtor>>
    BY <1>6 DEF SendPush
  <2>8. QED
    BY <1>1, <2>4, <2>5, <2>6, <2>7 DEF QueuesTyped
<1>7. CASE Close \/ DtorClose \/ DtorJoin
  BY <1>2, <1>3, <1>7 DEF Close, DtorClose, DtorJoin
<1>8. CASE DtorDrain
  <2>1. sendBuf' \in Seq(Entry)
    BY <1>8, EmptySeq DEF DtorDrain
  <2>2. UNCHANGED <<sendTemp, loop, async, infra, isClosing, pc, target, msgs, meant>> /\ dtor' = "drained"
    BY <1>8 DEF DtorDrain
  <2>3. QED
    BY <1>1, <2>1, <2>2 DEF QueuesTyped
<1>9. CASE AcceptConnection
  BY <1>2, <1>3, <1>9 DEF AcceptConnection
<1>10. CASE AsyncCallBack
  <2>1. loop = "poll" /\ loop' \in {"poll", "swap"} /\ infra' \in {"open", "closing"} /\ async' = FALSE
    BY <1>10 DEF AsyncCallBack, WalkCallBack
  <2>2. UNCHANGED <<sendBuf, sendTemp, isClosing, pc, target, dtor, msgs, meant>>
    BY <1>10 DEF AsyncCallBack
  <2>3. QED
    BY <1>1, <2>1, <2>2 DEF QueuesTyped
<1>11. CASE TakeQueue
  <2>1. /\ loop = "swap" /\ sendTemp' = sendBuf /\ sendBuf' = sendTemp
        /\ loop' = IF sendBuf = <<>> THEN "poll" ELSE "flush"
    BY <1>11 DEF TakeQueue
  <2>2. UNCHANGED <<async, infra, isClosing, pc, target, dtor, msgs, meant>>
    BY <1>11 DEF TakeQueue
  <2>3. QED
    BY <1>1, <2>1, <2>2 DEF QueuesTyped
<1>12. CASE WriteOne
  <2>1. sendTemp # <<>> /\ sendTemp \in Seq(Entry)
    BY <1>1, <1>12 DEF WriteOne, QueuesTyped
  <2>2. sendTemp' \in Seq(Entry) /\ (loop' = "flush" <=> sendTemp' # <<>>)
        /\ loop' \in {"poll", "flush"}
    BY <1>12, <2>1, HeadFirst DEF WriteOne
  <2>3. UNCHANGED <<sendBuf, async, infra, isClosing, pc, target, dtor, msgs, meant>>
    BY <1>12 DEF WriteOne
  <2>4. QED
    BY <1>1, <2>2, <2>3 DEF QueuesTyped
<1>13. CASE InfraClosed
  BY <1>1, <1>13 DEF InfraClosed, QueuesTyped
<1>14. CASE RunThread
  BY <1>1, <1>14 DEF RunThread, QueuesTyped
<1>15. CASE UNCHANGED vars
  BY <1>2, <1>3, <1>15 DEF vars
<1>16. QED
  BY <1>4, <1>5, <1>6, <1>7, <1>8, <1>9, <1>10, <1>11, <1>12, <1>13, <1>14, <1>15
     DEF Next, DtorStep

LEMMA NextRestTyped == IInv /\ [Next]_vars => RestTyped'
<1> SUFFICES ASSUME IInv, [Next]_vars PROVE RestTyped'
  OBVIOUS
<1> USE DEF objVars, queueVars, endVars, appVars, count, fate
<1>1. RestTyped /\ TypeOK
  BY TypeParts DEF IInv
<1>2. ASSUME UNCHANGED <<conn, writes, home, told, cutOff, wrote, freedBuf, freedObj>>
      PROVE  RestTyped'
  BY <1>1, <1>2 DEF RestTyped
<1>3. ASSUME NEW n \in Msgs, FreeBuf(n) PROVE freedBuf' \in [Msgs -> Nat]
  BY <1>1, <1>3 DEF FreeBuf, RestTyped
<1>4. ASSUME NEW h \in Addrs, HandleMsg(h) \/ OnMsg(h) PROVE RestTyped'
  BY <1>2, <1>4 DEF HandleMsg, OnMsg
<1>5. ASSUME NEW h \in Addrs, AfterSend(h) \/ AfterSendError(h)
      PROVE  RestTyped'
  <2>1. writes[h] # <<>> /\ writes[h] \in Seq(Msgs)
    BY <1>1, <1>5 DEF AfterSend, AfterSendError, RestTyped
  <2>2. Head(writes[h]) \in Msgs /\ Tail(writes[h]) \in Seq(Msgs)
    BY <2>1, HeadFirst
  <2>3. writes' \in [Addrs -> Seq(Msgs)]
    BY <1>1, <1>5, <2>2 DEF AfterSend, AfterSendError, RestTyped
  <2>4. freedBuf' \in [Msgs -> Nat]
    BY <1>3, <1>5, <2>2 DEF AfterSend, AfterSendError
  <2>5. wrote' \in [Conns -> Seq(Msgs)]
    <3>1. CASE AfterSendError(h)
      BY <1>1, <3>1 DEF AfterSendError, RestTyped
    <3>2. CASE AfterSend(h)
      <4>1. \A c \in Conns : Append(wrote[c], Head(writes[h])) \in Seq(Msgs)
        BY <1>1, <2>2, AppendProperties DEF RestTyped
      <4>2. wrote' = [wrote EXCEPT ![conn[h]] = Append(@, Head(writes[h]))]
        BY <3>2 DEF AfterSend
      <4>3. QED
        BY <1>1, <4>1, <4>2 DEF RestTyped
    <3>3. QED
      BY <1>5, <3>1, <3>2
  <2>6. UNCHANGED <<conn, home, told, cutOff, freedObj>>
    BY <1>5 DEF AfterSend, AfterSendError
  <2>7. QED
    BY <1>1, <2>3, <2>4, <2>5, <2>6 DEF RestTyped
<1>6. ASSUME NEW h \in Addrs, ClientClose(h) PROVE RestTyped'
  <2>1. 0 \in 0..MaxConns
    BY ServerAssumption
  <2>2. conn' \in [Addrs -> 0..MaxConns]
    BY <1>1, <1>6, <2>1 DEF ClientClose, RestTyped
  <2>3. freedObj' \in [Conns -> Nat]
    <3>1. freedObj' = [freedObj EXCEPT ![conn[h]] = @ + 1] \/ freedObj' = freedObj
      BY <1>6 DEF ClientClose
    <3>2. freedObj \in [Conns -> Nat]
      BY <1>1 DEF RestTyped
    <3>3. QED
      BY <3>1, <3>2
  <2>4. UNCHANGED <<writes, home, told, cutOff, wrote, freedBuf>>
    BY <1>6 DEF ClientClose
  <2>5. QED
    BY <1>1, <2>2, <2>3, <2>4 DEF RestTyped
<1>7. ASSUME NEW s \in Senders, SendCheck(s) \/ SendPush(s) PROVE RestTyped'
  BY <1>2, <1>7 DEF SendCheck, SendPush
<1>8. CASE Close \/ DtorClose \/ TakeQueue \/ InfraClosed \/ RunThread
  BY <1>2, <1>8 DEF Close, DtorClose, TakeQueue, InfraClosed, RunThread
<1>9. CASE DtorDrain
  <2> DEFINE copies(n) == Cardinality({k \in 1..Len(sendBuf) : sendBuf[k].n = n})
  <2>1. freedBuf' = [n \in Msgs |-> freedBuf[n] + copies(n)]
    BY <1>9 DEF DtorDrain
  <2>2. \A n \in Msgs : copies(n) \in Nat
    <3>1. sendBuf \in Seq([n : Msgs, to : Addrs]) /\ RisingNums(sendBuf)
      BY DEF IInv, Queued, TypeOK
    <3>2. \A n \in Msgs : copies(n) = IF n \in Nums(sendBuf) THEN 1 ELSE 0
      BY <3>1, CountInRising
    <3>3. QED
      BY <3>2
  <2> HIDE DEF copies
  <2>3. freedBuf' \in [Msgs -> Nat]
    BY <1>1, <2>1, <2>2 DEF RestTyped
  <2>4. QED
    BY <1>1, <1>9, <2>3 DEF DtorDrain, RestTyped
<1>10. CASE DtorJoin
  <2> DEFINE here(c) == Cardinality({h \in clients : conn[h] = c})
  <2>1. freedObj' = [c \in Conns |-> freedObj[c] + here(c)]
    BY <1>10 DEF DtorJoin
  <2>2. \A c \in Conns : here(c) \in Nat
    BY CountClients DEF IInv
  <2> HIDE DEF here
  <2>3. freedObj' \in [Conns -> Nat]
    BY <1>1, <2>1, <2>2 DEF RestTyped
  <2>4. QED
    BY <1>1, <1>10, <2>3 DEF DtorJoin, RestTyped
<1>11. CASE AcceptConnection
  <2>1. Len(home) + 1 \in Conns /\ Len(home) + 1 \in 0..MaxConns
    BY <1>1, <1>11, LenProperties, ServerAssumption DEF AcceptConnection, RestTyped, Conns
  <2>2. PICK h \in Addrs, listed \in BOOLEAN :
            /\ home' = Append(home, h)
            /\ conn' = [conn EXCEPT ![h] = Len(home) + 1]
            /\ told' = IF listed THEN told \cup {Len(home) + 1} ELSE told
    BY <1>11 DEF AcceptConnection
  <2>3. home' \in Seq(Addrs) /\ Len(home') = Len(home) + 1
    BY <1>1, <2>2, AppendProperties DEF RestTyped
  <2>4. Len(home') <= MaxConns
    BY <2>1, <2>3, ServerAssumption
  <2>5. conn' \in [Addrs -> 0..MaxConns] /\ told' \subseteq Conns
    BY <1>1, <2>1, <2>2 DEF RestTyped
  <2>6. UNCHANGED <<writes, cutOff, wrote, freedBuf, freedObj>>
    BY <1>11 DEF AcceptConnection
  <2>7. QED
    BY <1>1, <2>3, <2>4, <2>5, <2>6 DEF RestTyped
<1>12. CASE AsyncCallBack
  <2>1. UNCHANGED <<conn, writes, home, told, wrote, freedBuf, freedObj>>
    BY <1>12 DEF AsyncCallBack
  <2>2. \A h \in Addrs : writes[h] # <<>> => conn[h] \in Conns
    BY ServerAssumption DEF IInv, TypeOK, Handles, Conns, Control
  <2>3. cutOff' \subseteq Conns
    <3>1. CASE UNCHANGED cutOff
      BY <1>1, <3>1 DEF RestTyped
    <3>2. CASE WalkCallBack
      BY <1>1, <2>2, <3>2 DEF RestTyped, WalkCallBack
    <3>3. QED
      BY <1>12, <3>1, <3>2 DEF AsyncCallBack
  <2>4. QED
    BY <1>1, <2>1, <2>3 DEF RestTyped
<1>13. CASE WriteOne
  <2>1. sendTemp # <<>> /\ Head(sendTemp) \in [n : Msgs, to : Addrs]
    BY <1>1, <1>13, HeadFirst DEF WriteOne, TypeOK
  <2>2. Head(sendTemp).n \in Msgs /\ Head(sendTemp).to \in Addrs
    BY <2>1
  <2>3. UNCHANGED <<conn, home, told, wrote, cutOff, freedObj>>
    BY <1>13 DEF WriteOne
  <2>4. freedBuf' \in [Msgs -> Nat]
    BY <1>1, <1>3, <1>13, <2>2 DEF WriteOne, RestTyped
  <2>5. writes' \in [Addrs -> Seq(Msgs)]
    <3>1. CASE UNCHANGED writes
      BY <1>1, <3>1 DEF RestTyped
    <3>2. CASE writes' = [writes EXCEPT ![Head(sendTemp).to] = Append(@, Head(sendTemp).n)]
      <4>1. \A h \in Addrs : Append(writes[h], Head(sendTemp).n) \in Seq(Msgs)
        BY <1>1, <2>2, AppendProperties DEF RestTyped
      <4>2. QED
        BY <1>1, <3>2, <4>1 DEF RestTyped
    <3>3. QED
      BY <1>13, <3>1, <3>2 DEF WriteOne
  <2>6. QED
    BY <1>1, <2>3, <2>4, <2>5 DEF RestTyped
<1>14. CASE UNCHANGED vars
  BY <1>2, <1>14 DEF vars
<1>15. QED
  BY <1>4, <1>5, <1>6, <1>7, <1>8, <1>9, <1>10, <1>11, <1>12, <1>13, <1>14 DEF Next, DtorStep

LEMMA NextTyping == IInv /\ [Next]_vars => TypeOK'
  BY NextDropTyped, NextQueuesTyped, NextRestTyped, TypePartsAfter DEF IInv
-----------------------------------------------------------------------------
(* The invariant's other parts, each from the steps that change what it is *)
(* about.                                                                  *)

LEMMA NextControl == TypeOK /\ Control /\ Handles /\ [Next]_vars => Control'
<1> SUFFICES ASSUME TypeOK, Control, Handles, [Next]_vars PROVE Control'
  OBVIOUS
<1> USE DEF objVars, queueVars, endVars, appVars, count, fate
<1>1. ASSUME UNCHANGED <<loop, infra, dtor, sendBuf, pc>>,
             loop = "ended" => UNCHANGED handle
      PROVE  Control'
  BY <1>1 DEF Control
<1>2. ASSUME NEW h \in Addrs,
             HandleMsg(h) \/ OnMsg(h) \/ AfterSend(h) \/ AfterSendError(h) \/ ClientClose(h)
      PROVE  Control'
  BY <1>1, <1>2 DEF HandleMsg, OnMsg, AfterSend, AfterSendError, ClientClose
<1>3. ASSUME NEW s \in Senders, SendCheck(s) \/ SendPush(s) PROVE Control'
  <2>1. dtor = "alive" /\ UNCHANGED <<loop, infra, dtor, handle>>
    BY <1>3 DEF SendCheck, SendPush, Control, TypeOK
  <2>2. QED
    BY <2>1 DEF Control
<1>4. CASE Close
  BY <1>1, <1>4 DEF Close
<1>5. CASE DtorDrain
  <2>1. /\ UNCHANGED <<loop, infra, handle, pc>> /\ sendBuf' = <<>> /\ dtor' = "drained"
        /\ \A s \in Senders : pc[s] = "idle"
    BY <1>5 DEF DtorDrain
  <2>2. QED
    BY <2>1 DEF Control
<1>6. CASE DtorClose
  BY <1>6 DEF DtorClose, Control
<1>7. CASE DtorJoin
  <2>1. /\ UNCHANGED <<loop, infra, sendBuf, pc>> /\ dtor = "joining" /\ dtor' = "gone"
        /\ loop = "ended"
    BY <1>7 DEF DtorJoin
  <2>2. handle' = [h \in Addrs |-> IF h \in clients THEN "none" ELSE handle[h]]
    BY <1>7 DEF DtorJoin
  <2>3. \A h \in Addrs : handle'[h] \in {"none", "closed"}
    BY <2>1, <2>2 DEF Control
  <2>4. QED
    BY <2>1, <2>3 DEF Control
<1>8. CASE AcceptConnection
  BY <1>1, <1>8 DEF AcceptConnection
<1>9. CASE AsyncCallBack
  <2>1. /\ loop = "poll" /\ infra = "open" /\ UNCHANGED <<dtor, sendBuf, pc>>
        /\ \/ loop' = loop
           \/ loop' = "swap" /\ infra' = infra
    BY <1>9 DEF AsyncCallBack
  <2>2. QED
    BY <2>1 DEF Control
<1>10. CASE TakeQueue
  <2>1. /\ loop = "swap" /\ loop' \in {"poll", "flush"} /\ UNCHANGED <<infra, dtor, pc>>
        /\ sendBuf' = sendTemp
    BY <1>10 DEF TakeQueue
  <2>2. sendTemp = <<>>
    BY <2>1 DEF TypeOK
  <2>3. QED
    BY <2>1, <2>2 DEF Control
<1>11. CASE WriteOne
  <2>1. loop = "flush" /\ loop' \in {"poll", "flush"} /\ UNCHANGED <<infra, dtor, pc, sendBuf>>
    BY <1>11 DEF WriteOne
  <2>2. QED
    BY <2>1 DEF Control
<1>12. CASE InfraClosed
  BY <1>12 DEF InfraClosed, Control
<1>13. CASE RunThread
  BY <1>13 DEF RunThread, Control
<1>14. CASE UNCHANGED vars
  BY <1>1, <1>14 DEF vars
<1>15. QED
  BY <1>2, <1>3, <1>4, <1>5, <1>6, <1>7, <1>8, <1>9, <1>10, <1>11, <1>12, <1>13, <1>14
     DEF Next, DtorStep

LEMMA DropHandles ==
    ASSUME TypeOK, Handles, NEW h \in Addrs, Drop(h), UNCHANGED <<conn, infra, dtor>>,
           \A g \in Addrs : writes[g] = <<>> => writes'[g] = <<>>
    PROVE  Handles'
<1> USE DEF Handles
<1>1. handle \in [Addrs -> {"none", "open", "closing", "closed"}] /\ closeCb \in [Addrs -> BOOLEAN]
  BY DEF TypeOK
<1>2. CASE Stranger(h)
  BY <1>2 DEF Stranger
<1>3. CASE Closes(h)
  BY <1>1, <1>3 DEF Closes
<1>4. CASE ClosesAgain(h)
  BY <1>4 DEF ClosesAgain
<1>5. QED
  BY <1>2, <1>3, <1>4, DropCases

LEMMA NextHandles == TypeOK /\ Control /\ Handles /\ [Next]_vars => Handles'
<1> SUFFICES ASSUME TypeOK, Control, Handles, [Next]_vars PROVE Handles'
  OBVIOUS
<1> USE DEF objVars, queueVars, endVars, appVars, count, fate
<1>1. /\ handle \in [Addrs -> {"none", "open", "closing", "closed"}]
      /\ closeCb \in [Addrs -> BOOLEAN]
      /\ conn \in [Addrs -> 0..MaxConns] /\ writes \in [Addrs -> Seq(Msgs)]
  BY DEF TypeOK
<1>2. ASSUME UNCHANGED <<handle, closeCb, conn, clients, infra>>,
             dtor' # "gone" => dtor # "gone",
             \A h \in Addrs : writes[h] = <<>> => writes'[h] = <<>>
      PROVE  Handles'
  BY <1>2 DEF Handles
<1>3. ASSUME NEW h \in Addrs, HandleMsg(h) \/ OnMsg(h) PROVE Handles'
  <2>1. Drop(h) /\ UNCHANGED <<conn, infra, dtor, writes>>
    BY <1>3 DEF HandleMsg, OnMsg
  <2>2. QED
    BY <2>1, DropHandles
<1>4. ASSUME NEW h \in Addrs, AfterSend(h) \/ AfterSendError(h) PROVE Handles'
  <2>1. writes[h] # <<>> /\ writes' = [writes EXCEPT ![h] = Tail(@)]
    BY <1>4 DEF AfterSend, AfterSendError
  <2>2. \A g \in Addrs : writes[g] = <<>> => writes'[g] = <<>>
    BY <1>1, <2>1
  <2>3. CASE AfterSend(h)
    BY <1>2, <2>2, <2>3 DEF AfterSend
  <2>4. CASE AfterSendError(h)
    BY <2>2, <2>4, DropHandles DEF AfterSendError
  <2>5. QED
    BY <1>4, <2>3, <2>4
<1>5. ASSUME NEW h \in Addrs, ClientClose(h) PROVE Handles'
  <2>1. UNCHANGED <<clients, writes, infra, dtor>> /\ handle[h] = "closing" /\ writes[h] = <<>>
    BY <1>5 DEF ClientClose
  <2>2. CASE closeCb[h]
    <3>1. /\ handle' = [handle EXCEPT ![h] = "none"] /\ conn' = [conn EXCEPT ![h] = 0]
          /\ closeCb' = [closeCb EXCEPT ![h] = FALSE]
      BY <1>5, <2>2 DEF ClientClose
    <3>2. QED
      BY <1>1, <2>1, <2>2, <3>1 DEF Handles
  <2>3. CASE ~closeCb[h]
    <3>1. handle' = [handle EXCEPT ![h] = "closed"] /\ UNCHANGED <<conn, closeCb>>
      BY <1>5, <2>3 DEF ClientClose
    <3>2. QED
      BY <1>1, <2>1, <2>3, <3>1 DEF Handles
  <2>4. QED
    BY <2>2, <2>3
<1>6. ASSUME NEW s \in Senders, SendCheck(s) \/ SendPush(s) PROVE Handles'
  BY <1>2, <1>6 DEF SendCheck, SendPush
<1>7. CASE Close \/ DtorDrain \/ DtorClose
  BY <1>2, <1>7 DEF Close, DtorDrain, DtorClose
<1>8. CASE DtorJoin
  <2>1. /\ UNCHANGED <<closeCb, conn, clients, writes, infra>> /\ dtor' = "gone"
        /\ infra = "closed" /\ \A h \in Addrs : handle[h] \in {"none", "closed"}
    BY <1>8 DEF DtorJoin, Control
  <2>2. handle' = [h \in Addrs |-> IF h \in clients THEN "none" ELSE handle[h]]
    BY <1>8 DEF DtorJoin
  <2>3. \A h \in Addrs : writes[h] = <<>> /\ ~closeCb[h]
    BY <2>1 DEF Handles
  <2>4. \A h \in Addrs : handle'[h] \in {"none", "closed"}
    BY <2>1, <2>2
  <2>5. QED
    BY <2>1, <2>3, <2>4 DEF Handles
<1>9. CASE AcceptConnection
  <2>1. PICK h \in Addrs, listed \in BOOLEAN :
            /\ handle[h] = "none"
            /\ conn' = [conn EXCEPT ![h] = Len(home) + 1]
            /\ handle' = [handle EXCEPT ![h] = IF listed THEN "open" ELSE "closing"]
            /\ closeCb' = [closeCb EXCEPT ![h] = ~listed]
            /\ clients' = IF listed THEN clients \cup {h} ELSE clients
    BY <1>9 DEF AcceptConnection
  <2>2. loop = "poll" /\ infra = "open" /\ UNCHANGED <<writes, infra, dtor>>
    BY <1>9 DEF AcceptConnection
  <2>3. dtor # "gone" /\ Len(home) + 1 # 0
    BY <2>2, LenProperties DEF Control, TypeOK
  <2>4. conn[h] = 0 /\ h \notin clients /\ writes[h] = <<>> /\ ~closeCb[h]
    BY <2>1, <2>3 DEF Handles
  <2>5. ASSUME NEW g \in Addrs, g # h
        PROVE  /\ handle'[g] = handle[g] /\ closeCb'[g] = closeCb[g] /\ conn'[g] = conn[g]
               /\ (g \in clients' <=> g \in clients)
    BY <1>1, <2>1, <2>5
  <2>6. conn'[h] # 0 /\ writes'[h] = <<>>
    BY <1>1, <2>1, <2>2, <2>3, <2>4
  <2>7. CASE listed
    <3>1. handle'[h] = "open" /\ ~closeCb'[h] /\ h \in clients'
      BY <1>1, <2>1, <2>7
    <3>2. QED
      BY <2>2, <2>5, <2>6, <3>1 DEF Handles
  <2>8. CASE ~listed
    <3>1. handle'[h] = "closing" /\ closeCb'[h] /\ h \notin clients'
      BY <1>1, <2>1, <2>4, <2>8
    <3>2. QED
      BY <2>2, <2>5, <2>6, <3>1 DEF Handles
  <2>9. QED
    BY <2>7, <2>8
<1>10. CASE AsyncCallBack
  <2>1. UNCHANGED <<closeCb, conn, clients, writes, dtor>>
    BY <1>10 DEF AsyncCallBack, WalkCallBack
  <2>2. CASE UNCHANGED <<handle, infra>>
    BY <1>2, <2>1, <2>2
  <2>3. CASE WalkCallBack
    <3>1. /\ infra' = "closing"
          /\ handle' = [h \in Addrs |-> IF handle[h] = "open" THEN "closing" ELSE handle[h]]
      BY <2>3 DEF WalkCallBack
    <3>2. \A h \in Addrs : handle'[h] = IF handle[h] = "open" THEN "closing" ELSE handle[h]
      BY <3>1
    <3>3. QED
      BY <2>1, <3>1, <3>2 DEF Handles
  <2>4. QED
    BY <1>10, <2>2, <2>3 DEF AsyncCallBack
<1>11. CASE TakeQueue \/ RunThread
  BY <1>2, <1>11 DEF TakeQueue, RunThread
<1>12. CASE WriteOne
  <2>1. sendTemp # <<>> /\ Head(sendTemp) \in [n : Msgs, to : Addrs]
    BY <1>12, HeadFirst DEF WriteOne, TypeOK
  <2>2. Head(sendTemp).to \in Addrs /\ UNCHANGED <<conn, infra, dtor>> /\ infra = "open"
    BY <1>12, <2>1 DEF WriteOne, Control
  <2>3. CASE Drop(Head(sendTemp).to) /\ UNCHANGED writes
    BY <2>2, <2>3, DropHandles
  <2>4. CASE UNCHANGED <<handle, closeCb, clients, writes>>
    BY <1>2, <2>2, <2>4
  <2>5. CASE /\ Head(sendTemp).to \in clients /\ UNCHANGED <<handle, closeCb, clients>>
             /\ writes' = [writes EXCEPT ![Head(sendTemp).to] = Append(@, Head(sendTemp).n)]
    <3>1. handle[Head(sendTemp).to] = "open"
      BY <2>2, <2>5 DEF Handles
    <3>2. \A g \in Addrs : g # Head(sendTemp).to => writes'[g] = writes[g]
      BY <1>1, <2>5
    <3>3. QED
      BY <2>2, <2>5, <3>1, <3>2 DEF Handles
  <2>6. QED
    BY <1>12, <2>3, <2>4, <2>5 DEF WriteOne
<1>13. CASE InfraClosed
  <2>1. UNCHANGED <<handle, closeCb, conn, clients, writes, dtor>> /\ infra = "closing" /\ infra' = "closed"
    BY <1>13 DEF InfraClosed
  <2>2. QED
    BY <2>1 DEF Handles
<1>14. CASE UNCHANGED vars
  BY <1>2, <1>14 DEF vars
<1>15. QED
  BY <1>3, <1>4, <1>5, <1>6, <1>7, <1>8, <1>9, <1>10, <1>11, <1>12, <1>13, <1>14
     DEF Next, DtorStep
LEMMA NextNamed == TypeOK /\ Named /\ [Next]_vars => Named'
<1> SUFFICES ASSUME TypeOK, Named, [Next]_vars PROVE Named'
  OBVIOUS
<1> USE DEF objVars, queueVars, endVars, appVars, count, fate
<1>1. ASSUME UNCHANGED <<conn, home>> PROVE Named'
  BY <1>1 DEF Named
<1>2. ASSUME NEW h \in Addrs, HandleMsg(h) \/ OnMsg(h) \/ AfterSend(h) \/ AfterSendError(h)
      PROVE  Named'
  BY <1>1, <1>2 DEF HandleMsg, OnMsg, AfterSend, AfterSendError
<1>3. ASSUME NEW h \in Addrs, ClientClose(h) PROVE Named'
  <2>1. conn' = [conn EXCEPT ![h] = 0] \/ conn' = conn
    BY <1>3 DEF ClientClose
  <2>2. \A g \in Addrs : conn'[g] \in {0, conn[g]}
    BY <2>1 DEF TypeOK
  <2>3. 0 <= Len(home)
    BY LenProperties DEF TypeOK
  <2>4. UNCHANGED home
    BY <1>3 DEF ClientClose
  <2>5. QED
    BY <2>2, <2>3, <2>4 DEF Named
<1>4. ASSUME NEW s \in Senders, SendCheck(s) \/ SendPush(s) PROVE Named'
  BY <1>1, <1>4 DEF SendCheck, SendPush
<1>5. CASE Close \/ DtorDrain \/ DtorClose \/ DtorJoin
  BY <1>1, <1>5 DEF Close, DtorDrain, DtorClose, DtorJoin
<1>6. CASE AcceptConnection
  <2>1. PICK h \in Addrs : home' = Append(home, h) /\ conn' = [conn EXCEPT ![h] = Len(home) + 1]
    BY <1>6 DEF AcceptConnection
  <2>2. /\ Len(home) \in Nat /\ Len(home') = Len(home) + 1 /\ home'[Len(home) + 1] = h
        /\ \A i \in 1..Len(home) : home'[i] = home[i]
    BY <2>1, LenProperties, AppendProperties DEF TypeOK
  <2>3. \A g \in Addrs : conn[g] \in Nat /\ (g # h => conn'[g] = conn[g]) /\ conn'[h] = Len(home) + 1
    BY <2>1, ServerAssumption DEF TypeOK
  <2>4. QED
    BY <2>2, <2>3 DEF Named
<1>7. CASE AsyncCallBack \/ TakeQueue \/ WriteOne \/ InfraClosed \/ RunThread
  BY <1>1, <1>7 DEF AsyncCallBack, TakeQueue, WriteOne, InfraClosed, RunThread
<1>8. CASE UNCHANGED vars
  BY <1>1, <1>8 DEF vars
<1>9. QED
  BY <1>2, <1>3, <1>4, <1>5, <1>6, <1>7, <1>8 DEF Next, DtorStep

\* Two listed clients are two connections.
LEMMA OneEach ==
    ASSUME TypeOK, Handles, Named, NEW g \in clients, NEW h \in clients, conn[g] = conn[h]
    PROVE  g = h
<1>1. g \in Addrs /\ h \in Addrs
  BY DEF TypeOK
<1>2. QED
  BY <1>1 DEF Handles, Named

LEMMA DropAnnounced ==
    ASSUME TypeOK, Handles, Named, Announced, NEW h \in Addrs, Drop(h),
           UNCHANGED <<told, home, conn>>
    PROVE  Announced'
<1>1. CASE Stranger(h)
  BY <1>1 DEF Stranger, Announced
<1>2. CASE Closes(h) \/ ClosesAgain(h)
  <2>1. h \in clients /\ clients' = clients \ {h} /\ left' = left \cup {conn[h]}
    BY <1>2 DEF Closes, ClosesAgain
  <2>2. conn[h] \in told \ left
    BY <2>1 DEF Announced
  <2>3. {conn[g] : g \in clients \ {h}} = {conn[g] : g \in clients} \ {conn[h]}
    BY <2>1, OneEach
  <2>4. QED
    BY <2>1, <2>2, <2>3 DEF Announced
<1>3. QED
  BY <1>1, <1>2, DropCases

LEMMA NextAnnounced == TypeOK /\ Control /\ Handles /\ Named /\ Announced /\ [Next]_vars => Announced'
<1> SUFFICES ASSUME TypeOK, Control, Handles, Named, Announced, [Next]_vars PROVE Announced'
  OBVIOUS
<1> USE DEF objVars, queueVars, endVars, appVars, count, fate
<1>1. ASSUME UNCHANGED <<told, left, home, conn, clients>> PROVE Announced'
  BY <1>1 DEF Announced
<1>2. ASSUME NEW h \in Addrs, HandleMsg(h) \/ OnMsg(h) \/ AfterSendError(h) PROVE Announced'
  <2>1. Drop(h) /\ UNCHANGED <<told, home, conn>>
    BY <1>2 DEF HandleMsg, OnMsg, AfterSendError
  <2>2. QED
    BY <2>1, DropAnnounced
<1>3. ASSUME NEW h \in Addrs, AfterSend(h) PROVE Announced'
  BY <1>1, <1>3 DEF AfterSend
<1>4. ASSUME NEW h \in Addrs, ClientClose(h) PROVE Announced'
  <2>1. CASE closeCb[h]
    <3>1. h \notin clients
      BY <2>1 DEF Handles
    <3>2. conn' = [conn EXCEPT ![h] = 0] /\ UNCHANGED <<told, left, home, clients>>
      BY <1>4, <2>1 DEF ClientClose
    <3>3. \A g \in clients : conn'[g] = conn[g]
      BY <3>1, <3>2 DEF TypeOK
    <3>4. QED
      BY <3>2, <3>3 DEF Announced
  <2>2. CASE ~closeCb[h]
    BY <1>1, <1>4, <2>2 DEF ClientClose
  <2>3. QED
    BY <2>1, <2>2
<1>5. ASSUME NEW s \in Senders, SendCheck(s) \/ SendPush(s) PROVE Announced'
  BY <1>1, <1>5 DEF SendCheck, SendPush
<1>6. CASE Close \/ DtorDrain \/ DtorClose \/ DtorJoin
  BY <1>1, <1>6 DEF Close, DtorDrain, DtorClose, DtorJoin
<1>7. CASE AcceptConnection
  <2>1. PICK h \in Addrs, listed \in BOOLEAN :
            /\ handle[h] = "none"
            /\ home' = Append(home, h)
            /\ conn' = [conn EXCEPT ![h] = Len(home) + 1]
            /\ clients' = IF listed THEN clients \cup {h} ELSE clients
            /\ told' = IF listed THEN told \cup {Len(home) + 1} ELSE told
    BY <1>7 DEF AcceptConnection
  <2>2. loop = "poll" /\ left' = left
    BY <1>7 DEF AcceptConnection
  <2>3. h \notin clients
    BY <2>1, <2>2 DEF Control, Handles
  <2>4. Len(home) \in Nat /\ Len(home') = Len(home) + 1
    BY <2>1, LenProperties, AppendProperties DEF TypeOK
  <2>5. Len(home) + 1 \notin left /\ 1..Len(home') = 1..Len(home) \cup {Len(home) + 1}
    BY <2>4 DEF Announced
  <2>6. conn'[h] = Len(home) + 1 /\ \A g \in clients : conn'[g] = conn[g]
    BY <2>1, <2>3 DEF TypeOK
  <2>7. CASE listed
    <3>1. {conn'[g] : g \in clients'} = {conn[g] : g \in clients} \cup {Len(home) + 1}
      BY <2>1, <2>6, <2>7
    <3>2. QED
      BY <2>1, <2>2, <2>5, <2>7, <3>1 DEF Announced
  <2>8. CASE ~listed
    <3>1. {conn'[g] : g \in clients'} = {conn[g] : g \in clients}
      BY <2>1, <2>6, <2>8
    <3>2. QED
      BY <2>1, <2>2, <2>5, <2>8, <3>1 DEF Announced
  <2>9. QED
    BY <2>7, <2>8
<1>8. CASE AsyncCallBack \/ TakeQueue \/ InfraClosed \/ RunThread
  BY <1>1, <1>8 DEF AsyncCallBack, TakeQueue, InfraClosed, RunThread
<1>9. CASE WriteOne
  <2>1. sendTemp # <<>> /\ Head(sendTemp) \in [n : Msgs, to : Addrs]
    BY <1>9, HeadFirst DEF WriteOne, TypeOK
  <2>2. Head(sendTemp).to \in Addrs /\ UNCHANGED <<told, home, conn>>
    BY <1>9, <2>1 DEF WriteOne
  <2>3. CASE Drop(Head(sendTemp).to)
    BY <2>2, <2>3, DropAnnounced
  <2>4. CASE UNCHANGED <<clients, left>>
    BY <1>1, <2>2, <2>4
  <2>5. QED
    BY <1>9, <2>3, <2>4 DEF WriteOne
<1>10. CASE UNCHANGED vars
  BY <1>1, <1>10 DEF vars
<1>11. QED
  BY <1>2, <1>3, <1>4, <1>5, <1>6, <1>7, <1>8, <1>9, <1>10 DEF Next, DtorStep
\* Who has an object at an address.
LEMMA AtHome ==
    ASSUME TypeOK, NEW c \in Conns, c <= Len(home)
    PROVE  home[c] \in Addrs /\ c \in 1..Len(home) /\ c # 0
<1>1. c \in 1..Len(home) /\ c # 0
  BY LenProperties, ServerAssumption DEF TypeOK, Conns
<1>2. QED
  BY <1>1, ElementOfSeq DEF TypeOK

LEMMA DropObjects ==
    ASSUME TypeOK, Handles, Named, Objects, dtor # "gone", NEW h \in Addrs, Drop(h),
           UNCHANGED <<freedObj, home, conn, dtor>>
    PROVE  Objects'
<1>1. \A c \in Conns : Freed(c)' <=> Freed(c)
  BY DEF Freed
<1>2. CASE Stranger(h)
  BY <1>2 DEF Stranger, Objects, Freed, Orphan
<1>3. closeCb \in [Addrs -> BOOLEAN]
  BY DEF TypeOK
<1>4. h \in clients => conn[h] # 0 /\ ~closeCb[h] /\ home[conn[h]] = h /\ conn[h] <= Len(home)
  BY DEF Handles, Named
<1>5. CASE Closes(h)
  <2>1. \A c \in Conns : Orphan(c)' <=> Orphan(c)
    <3> SUFFICES ASSUME NEW c \in Conns, c <= Len(home) PROVE Orphan(c)' <=> Orphan(c)
      BY DEF Orphan
    <3>1. home[c] \in Addrs
      BY AtHome
    <3>2. CASE home[c] = h
      <4>1. closeCb'[home[c]] /\ home[c] \in clients
        BY <1>3, <1>5, <3>2 DEF Closes
      <4>2. QED
        BY <4>1 DEF Orphan
    <3>3. CASE home[c] # h
      <4>1. closeCb'[home[c]] = closeCb[home[c]] /\ (home[c] \in clients' <=> home[c] \in clients)
        BY <1>3, <1>5, <3>1, <3>3 DEF Closes
      <4>2. QED
        BY <4>1 DEF Orphan
    <3>4. QED
      BY <3>2, <3>3
  <2>2. twice' = twice
    BY <1>5 DEF Closes
  <2>3. QED
    BY <1>1, <2>1, <2>2 DEF Objects
<1>6. CASE ClosesAgain(h)
  <2>1. \A c \in Conns : Orphan(c)' <=> Orphan(c) \/ c = conn[h]
    BY <1>4, <1>6 DEF Orphan, ClosesAgain
  <2>2. twice' = twice \cup {conn[h]}
    BY <1>6 DEF ClosesAgain
  <2>3. QED
    BY <1>1, <2>1, <2>2 DEF Objects
<1>7. QED
  BY <1>2, <1>5, <1>6, DropCases

LEMMA NextObjects == TypeOK /\ Control /\ Handles /\ Named /\ Objects /\ [Next]_vars => Objects'
<1> SUFFICES ASSUME TypeOK, Control, Handles, Named, Objects, [Next]_vars PROVE Objects'
  OBVIOUS
<1> USE DEF objVars, queueVars, endVars, appVars, count, fate
<1>1. ASSUME UNCHANGED <<freedObj, home, conn, clients, closeCb, twice>>,
             dtor' = "gone" <=> dtor = "gone"
      PROVE  Objects'
  BY <1>1 DEF Objects, Freed, Orphan
<1>2. ASSUME NEW h \in Addrs, HandleMsg(h) \/ OnMsg(h) \/ AfterSendError(h) PROVE Objects'
  <2>1. Drop(h) /\ UNCHANGED <<freedObj, home, conn, dtor>> /\ loop = "poll"
    BY <1>2 DEF HandleMsg, OnMsg, AfterSendError
  <2>2. QED
    BY <2>1, DropObjects DEF Control
<1>3. ASSUME NEW h \in Addrs, AfterSend(h) PROVE Objects'
  BY <1>1, <1>3 DEF AfterSend
<1>4. ASSUME NEW h \in Addrs, ClientClose(h) PROVE Objects'
  <2>1. loop = "poll" /\ dtor # "gone" /\ UNCHANGED <<home, dtor, clients, twice>> /\ conn[h] # 0
    BY <1>4 DEF ClientClose, Control, Handles
  <2>2. CASE ~closeCb[h]
    BY <1>1, <1>4, <2>1, <2>2 DEF ClientClose
  <2>3. CASE closeCb[h]
    <3>1. /\ conn' = [conn EXCEPT ![h] = 0] /\ closeCb' = [closeCb EXCEPT ![h] = FALSE]
          /\ freedObj' = [freedObj EXCEPT ![conn[h]] = @ + 1]
      BY <1>4, <2>3 DEF ClientClose
    <3>2. home[conn[h]] = h /\ conn[h] <= Len(home) /\ conn[h] \in Conns
      BY <2>1, ServerAssumption DEF Named, TypeOK, Conns
    <3>3. ASSUME NEW c \in Conns
          PROVE  /\ freedObj'[c] = IF Freed(c)' THEN 1 ELSE 0
                 /\ c \in twice <=> Orphan(c)'
      <4>1. freedObj'[c] = IF c = conn[h] THEN freedObj[c] + 1 ELSE freedObj[c]
        BY <3>1 DEF TypeOK
      <4>2. CASE ~(c <= Len(home))
        BY <2>1, <3>2, <4>1, <4>2 DEF Objects, Freed, Orphan
      <4>3. CASE c <= Len(home) /\ home[c] # h
        <5>1. home[c] \in Addrs /\ c # conn[h]
          BY <3>2, <4>3, AtHome
        <5>2. conn'[home[c]] = conn[home[c]] /\ closeCb'[home[c]] = closeCb[home[c]]
          BY <3>1, <4>3, <5>1 DEF TypeOK
        <5>3. (Freed(c)' <=> Freed(c)) /\ (Orphan(c)' <=> Orphan(c))
          BY <2>1, <5>2 DEF Freed, Orphan
        <5>4. QED
          BY <4>1, <5>1, <5>3 DEF Objects
      <4>4. CASE c <= Len(home) /\ home[c] = h
        <5>1. conn'[home[c]] = 0 /\ c # 0
          BY <3>1, <4>4, AtHome DEF TypeOK
        <5>2. Freed(c)' /\ ~Orphan(c)' /\ ~Orphan(c)
          BY <2>1, <2>3, <4>4, <5>1 DEF Freed, Orphan
        <5>3. Freed(c) <=> c # conn[h]
          BY <2>1, <4>4 DEF Freed
        <5>4. QED
          BY <4>1, <5>2, <5>3 DEF Objects
      <4>5. QED
        BY <4>2, <4>3, <4>4
    <3>4. QED
      BY <2>1, <3>3 DEF Objects
  <2>4. QED
    BY <2>2, <2>3
<1>5. ASSUME NEW s \in Senders, SendCheck(s) \/ SendPush(s) PROVE Objects'
  BY <1>1, <1>5 DEF SendCheck, SendPush
<1>6. CASE Close \/ DtorDrain \/ DtorClose
  BY <1>1, <1>6 DEF Close, DtorDrain, DtorClose
<1>7. CASE DtorJoin
  <2> DEFINE here(c) == Cardinality({h \in clients : conn[h] = c})
  <2>1. freedObj' = [c \in Conns |-> freedObj[c] + here(c)]
    BY <1>7 DEF DtorJoin
  <2>2. /\ dtor # "gone" /\ dtor' = "gone"
        /\ UNCHANGED <<home, conn, clients, closeCb, twice>>
    BY <1>7 DEF DtorJoin
  <2>3. ASSUME NEW c \in Conns
        PROVE  freedObj'[c] = IF Freed(c)' THEN 1 ELSE 0
    <3>1. here(c) = IF c <= Len(home) /\ conn[home[c]] = c /\ home[c] \in clients THEN 1 ELSE 0
      BY CountClients
    <3> HIDE DEF here
    <3>2. freedObj'[c] = freedObj[c] + here(c)
      BY <2>1
    <3>3. Freed(c) <=> c <= Len(home) /\ conn[home[c]] # c
      BY <2>2 DEF Freed
    <3>4. Freed(c)' <=> c <= Len(home) /\ (conn[home[c]] # c \/ home[c] \in clients)
      BY <2>2 DEF Freed
    <3>5. freedObj[c] = IF Freed(c) THEN 1 ELSE 0
      BY DEF Objects
    <3>6. QED
      BY <3>1, <3>2, <3>3, <3>4, <3>5
  <2>4. \A c \in Conns : Orphan(c)' <=> Orphan(c)
    BY <2>2 DEF Orphan
  <2>5. QED
    BY <2>2, <2>3, <2>4 DEF Objects
<1>8. CASE AcceptConnection
  <2>1. PICK h \in Addrs, listed \in BOOLEAN :
            /\ handle[h] = "none"
            /\ home' = Append(home, h)
            /\ conn' = [conn EXCEPT ![h] = Len(home) + 1]
            /\ closeCb' = [closeCb EXCEPT ![h] = ~listed]
            /\ clients' = IF listed THEN clients \cup {h} ELSE clients
    BY <1>8 DEF AcceptConnection
  <2>2. loop = "poll" /\ dtor # "gone" /\ UNCHANGED <<freedObj, twice, dtor>>
    BY <1>8 DEF AcceptConnection, Control
  <2>3. h \notin clients /\ conn[h] = 0
    BY <2>1, <2>2 DEF Handles
  <2>4. /\ Len(home) \in Nat /\ Len(home') = Len(home) + 1 /\ home'[Len(home) + 1] = h
        /\ \A i \in 1..Len(home) : home'[i] = home[i]
    BY <2>1, LenProperties, AppendProperties DEF TypeOK
  <2>5. conn'[h] = Len(home) + 1 /\ \A g \in Addrs : g # h => conn'[g] = conn[g]
    BY <2>1 DEF TypeOK
  <2>6. ASSUME NEW c \in Conns
        PROVE  (Freed(c)' <=> Freed(c)) /\ (Orphan(c)' <=> Orphan(c))
    <3>1. CASE c > Len(home) + 1
      BY <2>4, <3>1, ServerAssumption DEF Freed, Orphan, Conns
    <3>2. CASE c = Len(home) + 1
      <4>1. conn'[home'[c]] = c /\ (h \notin clients' => closeCb'[h])
        BY <2>1, <2>4, <2>5, <3>2 DEF TypeOK
      <4>2. ~(c <= Len(home))
        BY <2>4, <3>2
      <4>3. QED
        BY <2>2, <2>4, <3>2, <4>1, <4>2 DEF Freed, Orphan
    <3>3. CASE c <= Len(home)
      <4>1. home[c] \in Addrs /\ c \in 1..Len(home) /\ c # 0
        BY <3>3, AtHome
      <4>2. home'[c] = home[c] /\ c <= Len(home') /\ c # Len(home) + 1
        BY <2>4, <4>1
      <4>3. CASE home[c] = h
        BY <2>2, <2>3, <2>5, <4>1, <4>2, <4>3 DEF Freed, Orphan
      <4>4. CASE home[c] # h
        <5>1. /\ conn'[home[c]] = conn[home[c]] /\ closeCb'[home[c]] = closeCb[home[c]]
              /\ (home[c] \in clients' <=> home[c] \in clients)
          BY <2>1, <2>5, <4>1, <4>4 DEF TypeOK
        <5>2. QED
          BY <2>2, <3>3, <4>2, <5>1 DEF Freed, Orphan
      <4>5. QED
        BY <4>3, <4>4
    <3>4. QED
      BY <2>4, <3>1, <3>2, <3>3, ServerAssumption DEF Conns
  <2>7. QED
    BY <2>2, <2>6 DEF Objects
<1>9. CASE AsyncCallBack \/ TakeQueue \/ InfraClosed \/ RunThread
  BY <1>1, <1>9 DEF AsyncCallBack, WalkCallBack, TakeQueue, InfraClosed, RunThread
<1>10. CASE WriteOne
  <2>1. sendTemp # <<>> /\ Head(sendTemp) \in [n : Msgs, to : Addrs]
    BY <1>10, HeadFirst DEF WriteOne, TypeOK
  <2>2. Head(sendTemp).to \in Addrs /\ UNCHANGED <<freedObj, home, conn, dtor>> /\ loop = "flush"
    BY <1>10, <2>1 DEF WriteOne
  <2>3. CASE Drop(Head(sendTemp).to)
    BY <2>2, <2>3, DropObjects DEF Control
  <2>4. CASE UNCHANGED <<clients, closeCb, twice>>
    BY <1>1, <2>2, <2>4
  <2>5. QED
    BY <1>10, <2>3, <2>4 DEF WriteOne
<1>11. CASE UNCHANGED vars
  BY <1>1, <1>11 DEF vars
<1>12. QED
  BY <1>2, <1>3, <1>4, <1>5, <1>6, <1>7, <1>8, <1>9, <1>10, <1>11 DEF Next, DtorStep
LEMMA DropCut ==
    ASSUME TypeOK, Cut, NEW h \in Addrs, Drop(h), handle[h] = "open" \/ writes[h] # <<>>,
           UNCHANGED <<conn, cutOff>>, \A g \in Addrs : writes[g] = <<>> => writes'[g] = <<>>
    PROVE  Cut'
<1>1. CASE Stranger(h)
  BY <1>1 DEF Stranger, Cut, TypeOK
<1>2. CASE Closes(h)
  <2>1. \A g \in clients' : g \in clients /\ g \in Addrs /\ handle'[g] = handle[g]
    BY <1>2 DEF Closes, TypeOK
  <2>2. twice' = twice
    BY <1>2 DEF Closes
  <2>3. QED
    BY <2>1, <2>2 DEF Cut
<1>3. CASE ClosesAgain(h)
  <2>1. \A g \in clients' : g \in clients /\ g \in Addrs /\ handle'[g] = handle[g]
    BY <1>3 DEF ClosesAgain, TypeOK
  <2>2. conn[h] \in cutOff /\ twice' = twice \cup {conn[h]}
    BY <1>3 DEF ClosesAgain, Cut
  <2>3. QED
    BY <2>1, <2>2 DEF Cut
<1>4. QED
  BY <1>1, <1>2, <1>3, DropCases

LEMMA NextCut == TypeOK /\ Control /\ Handles /\ Handles' /\ TypeOK' /\ Cut /\ [Next]_vars => Cut'
<1> SUFFICES ASSUME TypeOK, Control, Handles, Handles', TypeOK', Cut, [Next]_vars PROVE Cut'
  OBVIOUS
<1> USE DEF objVars, queueVars, endVars, appVars, count, fate
<1>1. ASSUME UNCHANGED <<clients, handle, conn, cutOff, twice>>,
             \A g \in Addrs : writes[g] = <<>> => writes'[g] = <<>>
      PROVE  Cut'
  BY <1>1 DEF Cut, TypeOK
<1>2. ASSUME infra' = "open", UNCHANGED <<twice, cutOff>> PROVE Cut'
  <2>1. \A h \in clients' : handle'[h] = "open"
    BY <1>2 DEF Handles, TypeOK
  <2>2. QED
    BY <1>2, <2>1 DEF Cut
<1>3. ASSUME NEW h \in Addrs, HandleMsg(h) \/ OnMsg(h) PROVE Cut'
  <2>1. Drop(h) /\ handle[h] = "open" /\ UNCHANGED <<conn, cutOff, writes>>
    BY <1>3 DEF HandleMsg, OnMsg
  <2>2. QED
    BY <2>1, DropCut
<1>4. ASSUME NEW h \in Addrs, AfterSend(h) \/ AfterSendError(h) PROVE Cut'
  <2>1. writes[h] # <<>> /\ writes' = [writes EXCEPT ![h] = Tail(@)] /\ UNCHANGED <<conn, cutOff>>
    BY <1>4 DEF AfterSend, AfterSendError
  <2>2. \A g \in Addrs : writes[g] = <<>> => writes'[g] = <<>>
    BY <2>1 DEF TypeOK
  <2>3. CASE AfterSend(h)
    BY <1>1, <2>2, <2>3 DEF AfterSend
  <2>4. CASE Drop(h)
    BY <2>1, <2>2, <2>4, DropCut
  <2>5. QED
    BY <1>4, <2>3, <2>4 DEF AfterSendError
<1>5. ASSUME NEW h \in Addrs, ClientClose(h) PROVE Cut'
  <2>1. writes[h] = <<>> /\ UNCHANGED <<clients, writes, cutOff, twice>>
    BY <1>5 DEF ClientClose
  <2>2. \A g \in Addrs : g # h => handle'[g] = handle[g] /\ conn'[g] = conn[g]
    BY <1>5 DEF ClientClose, TypeOK
  <2>3. QED
    BY <2>1, <2>2 DEF Cut, TypeOK
<1>6. ASSUME NEW s \in Senders, SendCheck(s) \/ SendPush(s) PROVE Cut'
  BY <1>1, <1>6 DEF SendCheck, SendPush
<1>7. CASE Close \/ DtorDrain \/ DtorClose
  BY <1>1, <1>7 DEF Close, DtorDrain, DtorClose
<1>8. CASE DtorJoin
  <2>1. \A h \in Addrs : writes[h] = <<>>
    BY <1>8 DEF DtorJoin, Control, Handles
  <2>2. UNCHANGED <<clients, writes, cutOff, twice>>
    BY <1>8 DEF DtorJoin
  <2>3. QED
    BY <2>1, <2>2 DEF Cut, TypeOK
<1>9. CASE AcceptConnection
  BY <1>2, <1>9 DEF AcceptConnection
<1>10. CASE AsyncCallBack
  <2>1. infra = "open" /\ UNCHANGED <<conn, clients, writes, twice>>
    BY <1>10 DEF AsyncCallBack, WalkCallBack
  <2>2. CASE WalkCallBack
    <3>1. \A h \in clients : h \in Addrs /\ handle[h] = "open"
      BY <2>1 DEF Handles, TypeOK
    <3>2. cutOff' = cutOff \cup {conn[h] : h \in {a \in Addrs : handle[a] = "open" /\ writes[a] # <<>>}}
      BY <2>2 DEF WalkCallBack
    <3>3. QED
      BY <2>1, <3>1, <3>2 DEF Cut
  <2>3. CASE UNCHANGED <<infra, handle, cutOff>>
    BY <1>1, <2>1, <2>3
  <2>4. QED
    BY <1>10, <2>2, <2>3 DEF AsyncCallBack
<1>11. CASE TakeQueue \/ InfraClosed \/ RunThread
  BY <1>1, <1>11 DEF TakeQueue, InfraClosed, RunThread
<1>12. CASE WriteOne
  <2>1. sendTemp # <<>> /\ Head(sendTemp) \in [n : Msgs, to : Addrs]
    BY <1>12, HeadFirst DEF WriteOne, TypeOK
  <2>2. Head(sendTemp).to \in Addrs /\ infra' = "open" /\ cutOff' = cutOff
    BY <1>12, <2>1 DEF WriteOne, Control
  <2>3. twice' = twice
    <3>1. CASE Head(sendTemp).to \in clients /\ Drop(Head(sendTemp).to)
      <4>1. handle[Head(sendTemp).to] = "open"
        BY <1>12, <2>2, <3>1 DEF WriteOne, Control, Handles
      <4>2. QED
        BY <3>1, <4>1 DEF Drop
    <3>2. QED
      BY <1>12, <3>1 DEF WriteOne
  <2>4. QED
    BY <1>2, <2>2, <2>3
<1>13. CASE UNCHANGED vars
  BY <1>1, <1>13 DEF vars
<1>14. QED
  BY <1>3, <1>4, <1>5, <1>6, <1>7, <1>8, <1>9, <1>10, <1>11, <1>12, <1>13 DEF Next, DtorStep
-----------------------------------------------------------------------------
(* How buffers move: a write finishes, the first entry of sendTemp is      *)
(* written out or given up, and SendPush, TakeQueue and DtorDrain.         *)

Finishes(h) == /\ writes[h] # <<>> /\ writes' = [writes EXCEPT ![h] = Tail(@)]
               /\ FreeBuf(Head(writes[h]))
               /\ UNCHANGED <<sendTemp, sendBuf, msgs, conn, meant>>

Pops == /\ sendTemp # <<>> /\ sendTemp' = Tail(sendTemp)
        /\ UNCHANGED <<sendBuf, msgs, conn, meant, wrote>>

SendsOut == /\ Pops /\ Head(sendTemp).to \in clients /\ UNCHANGED freedBuf
            /\ writes' = [writes EXCEPT ![Head(sendTemp).to] = Append(@, Head(sendTemp).n)]

GivesUp == Pops /\ FreeBuf(Head(sendTemp).n) /\ UNCHANGED writes

Keeps == UNCHANGED <<writes, sendTemp, sendBuf, msgs, freedBuf, meant, wrote>>

LEMMA FinishSteps ==
    ASSUME NEW h \in Addrs, AfterSend(h) \/ AfterSendError(h)
    PROVE  Finishes(h)
  BY DEF AfterSend, AfterSendError, Finishes, queueVars, count

LEMMA WriteOneSteps ==
    ASSUME TypeOK, WriteOne
    PROVE  SendsOut \/ GivesUp
<1>1. sendTemp # <<>>
  BY DEF WriteOne, TypeOK
<1>2. Pops
  BY <1>1 DEF WriteOne, Pops, count
<1>3. QED
  BY <1>2 DEF WriteOne, SendsOut, GivesUp

\* Every other step leaves the buffers where they are.
LEMMA BufferSteps ==
    ASSUME TypeOK, [Next]_vars
    PROVE  \/ Keeps
           \/ \E s \in Senders : SendPush(s)
           \/ DtorDrain \/ TakeQueue
           \/ \E h \in Addrs : AfterSend(h) \/ AfterSendError(h)
           \/ WriteOne
<1> USE DEF Keeps, objVars, queueVars, endVars, appVars, count, fate
<1>1. ASSUME NEW s \in Senders, SendCheck(s) PROVE Keeps
  BY <1>1 DEF SendCheck
<1>2. CASE Close \/ DtorClose \/ DtorJoin
  BY <1>2 DEF Close, DtorClose, DtorJoin
<1>3. CASE AcceptConnection
  BY <1>3 DEF AcceptConnection
<1>4. ASSUME NEW h \in Addrs, HandleMsg(h) \/ OnMsg(h) \/ ClientClose(h) PROVE Keeps
  BY <1>4 DEF HandleMsg, OnMsg, ClientClose
<1>5. CASE AsyncCallBack \/ InfraClosed \/ RunThread
  BY <1>5 DEF AsyncCallBack, WalkCallBack, InfraClosed, RunThread
<1>6. CASE UNCHANGED vars
  BY <1>6 DEF vars
<1>7. QED
  BY <1>1, <1>2, <1>3, <1>4, <1>5, <1>6 DEF Next, DtorStep

LEMMA InFlightTyped ==
    ASSUME TypeOK
    PROVE  /\ \A h \in Addrs : Elems(writes[h]) \subseteq Msgs
           /\ Written \subseteq Msgs /\ Nums(sendTemp) \subseteq Msgs /\ Nums(sendBuf) \subseteq Msgs
           /\ InFlight \subseteq Msgs
<1>1. \A h \in Addrs : Elems(writes[h]) \subseteq Msgs
  BY ElemsIn DEF TypeOK
<1>2. Nums(sendTemp) \subseteq Msgs /\ Nums(sendBuf) \subseteq Msgs
  BY NumsIn DEF TypeOK
<1>3. QED
  BY <1>1, <1>2 DEF Written, InFlight

LEMMA Apart == \A x, y \in Msgs : x < y => x # y
  BY ServerAssumption DEF Msgs

LEMMA AfterFinish ==
    ASSUME TypeOK, Queued, NEW h \in Addrs, Finishes(h)
    PROVE  LET n == Head(writes[h]) IN
           /\ n \in Msgs /\ n \in Elems(writes[h]) /\ n \in InFlight
           /\ \A g \in Addrs : Elems(writes'[g]) = Elems(writes[g]) \ {n} /\ Rising(writes'[g])
           /\ \A m \in Elems(writes'[h]) : n < m
           /\ Written' = Written \ {n} /\ InFlight' = InFlight \ {n}
<1> DEFINE n == Head(writes[h])
<1>1. writes[h] \in Seq(Msgs) /\ writes[h] # <<>> /\ Rising(writes[h])
  BY DEF Finishes, TypeOK, Queued
<1>2. n \in Msgs /\ Elems(writes[h]) = {n} \cup Elems(Tail(writes[h]))
  BY <1>1, HeadFirst
<1>3. Rising(Tail(writes[h])) /\ \A x \in Elems(Tail(writes[h])) : n < x
  BY <1>1, RisingTail
<1>4. writes'[h] = Tail(writes[h]) /\ \A g \in Addrs : g # h => writes'[g] = writes[g]
  BY DEF Finishes, TypeOK
<1>5. n \notin Elems(Tail(writes[h]))
  BY <1>2, <1>3, Apart, InFlightTyped
<1>6. \A g \in Addrs : Elems(writes'[g]) = Elems(writes[g]) \ {n} /\ Rising(writes'[g])
  BY <1>2, <1>3, <1>4, <1>5 DEF Queued
<1>7. Written' = Written \ {n} /\ n \in Written
  BY <1>2, <1>6 DEF Written
<1>8. n \notin Nums(sendTemp) /\ n \notin Nums(sendBuf)
  BY <1>2, <1>7, Apart, InFlightTyped DEF Queued, Below
<1>9. InFlight' = InFlight \ {n} /\ n \in InFlight
  BY <1>7, <1>8 DEF InFlight, Finishes
<1>10. QED
  BY <1>2, <1>3, <1>4, <1>6, <1>7, <1>9

LEMMA AfterPop ==
    ASSUME TypeOK, Queued, Pops
    PROVE  LET n == Head(sendTemp).n IN
           /\ n \in Msgs /\ Head(sendTemp).to \in Addrs /\ n \in Nums(sendTemp)
           /\ Nums(sendTemp') = Nums(sendTemp) \ {n} /\ RisingNums(sendTemp')
           /\ \A m \in Nums(sendTemp') \cup Nums(sendBuf) : n < m
           /\ \A m \in Written : m < n
           /\ n \notin Written /\ n \notin Nums(sendBuf)
<1> DEFINE n == Head(sendTemp).n
<1>1. /\ sendTemp \in Seq([n : Msgs, to : Addrs]) /\ sendTemp # <<>> /\ sendTemp' = Tail(sendTemp)
      /\ RisingNums(sendTemp)
  BY DEF Pops, TypeOK, Queued
<1>2. Head(sendTemp) \in [n : Msgs, to : Addrs]
  BY <1>1, HeadFirst
<1>3. n \in Msgs /\ Head(sendTemp).to \in Addrs
  BY <1>2
<1>4. /\ RisingNums(sendTemp') /\ Nums(sendTemp) = {n} \cup Nums(sendTemp')
      /\ \A m \in Nums(sendTemp') : n < m
  BY <1>1, RisingNumsTail
<1>5. (\A m \in Nums(sendBuf) : n < m) /\ \A m \in Written : m < n
  BY <1>4 DEF Queued, Below
<1>6. n \notin Nums(sendTemp') /\ n \notin Written /\ n \notin Nums(sendBuf)
  <2>1. Nums(sendTemp') \subseteq Msgs
    BY <1>4, InFlightTyped
  <2>2. QED
    BY <1>3, <1>4, <1>5, <2>1, Apart, InFlightTyped
<1>7. QED
  BY <1>3, <1>4, <1>5, <1>6

LEMMA AfterSendOut ==
    ASSUME TypeOK, Queued, SendsOut
    PROVE  LET n == Head(sendTemp).n
               h == Head(sendTemp).to IN
           /\ h \in clients /\ h \in Addrs
           /\ Elems(writes'[h]) = Elems(writes[h]) \cup {n}
           /\ \A g \in Addrs : (g # h => writes'[g] = writes[g]) /\ Rising(writes'[g])
           /\ Written' = Written \cup {n} /\ InFlight' = InFlight
<1> DEFINE n == Head(sendTemp).n
           h == Head(sendTemp).to
<1>1. n \in Msgs /\ h \in Addrs /\ (\A m \in Written : m < n) /\ Pops
  BY AfterPop DEF SendsOut
<1>2. writes'[h] = Append(writes[h], n) /\ \A g \in Addrs : g # h => writes'[g] = writes[g]
  BY <1>1 DEF SendsOut, TypeOK
<1>3. writes[h] \in Seq(Msgs) /\ Rising(writes[h]) /\ \A m \in Elems(writes[h]) : m < n
  BY <1>1 DEF TypeOK, Queued, Written
<1>4. Elems(writes'[h]) = Elems(writes[h]) \cup {n} /\ Rising(writes'[h])
  BY <1>1, <1>2, <1>3, RisingAppend
<1>5. \A g \in Addrs : (g # h => writes'[g] = writes[g]) /\ Rising(writes'[g])
  BY <1>2, <1>4 DEF Queued
<1>6. Written' = Written \cup {n}
  <2>1. h \in Addrs
    BY <1>1
  <2>2. \A g \in Addrs : Elems(writes'[g]) = IF g = h THEN Elems(writes[g]) \cup {n} ELSE Elems(writes[g])
    BY <1>2, <1>4
  <2>3. QED
    BY <2>1, <2>2 DEF Written
<1>7. InFlight' = InFlight
  BY <1>1, <1>6, AfterPop DEF InFlight, Pops
<1>8. QED
  BY <1>1, <1>4, <1>5, <1>6, <1>7 DEF SendsOut

LEMMA AfterPush ==
    ASSUME TypeOK, Announced, Meant, Queued, NEW s \in Senders, SendPush(s)
    PROVE  LET e == [n |-> msgs + 1, to |-> home[target[s]]] IN
           /\ msgs + 1 \in Msgs /\ msgs' = msgs + 1 /\ UNCHANGED <<writes, sendTemp>>
           /\ Elems(sendBuf') = Elems(sendBuf) \cup {e}
           /\ Nums(sendBuf') = Nums(sendBuf) \cup {msgs + 1}
           /\ RisingNums(sendBuf') /\ InFlight' = InFlight \cup {msgs + 1}
           /\ \A n \in InFlight : n < msgs + 1
<1> DEFINE e == [n |-> msgs + 1, to |-> home[target[s]]]
<1>1. msgs + 1 \in Msgs /\ msgs' = msgs + 1 /\ msgs \in Nat
  BY ServerAssumption DEF SendPush, TypeOK, Msgs
<1>2. home[target[s]] \in Addrs
  <2>1. target[s] \in 1..Len(home)
    BY DEF SendPush, Meant, Announced
  <2>2. QED
    BY <2>1, ElementOfSeq DEF TypeOK
<1>3. e \in [n : Msgs, to : Addrs] /\ e.n = msgs + 1
  BY <1>1, <1>2
<1>4. \A n \in InFlight : n < msgs + 1
  <2>1. \A n \in Msgs : n <= msgs => n < msgs + 1
    BY <1>1, ServerAssumption DEF Msgs
  <2>2. QED
    BY <2>1, InFlightTyped DEF Queued
<1>5. sendBuf' = Append(sendBuf, e) /\ UNCHANGED <<writes, sendTemp>>
  BY DEF SendPush, objVars
<1>6. sendBuf \in Seq([n : Msgs, to : Addrs]) /\ RisingNums(sendBuf)
  BY DEF TypeOK, Queued
<1>7. \A x \in Nums(sendBuf) : x < e.n
  BY <1>3, <1>4 DEF InFlight
<1>8. /\ Elems(sendBuf') = Elems(sendBuf) \cup {e} /\ Nums(sendBuf') = Nums(sendBuf) \cup {e.n}
      /\ RisingNums(sendBuf')
  BY <1>3, <1>5, <1>6, <1>7, RisingNumsAppend
<1>9. InFlight' = InFlight \cup {msgs + 1}
  BY <1>3, <1>5, <1>8 DEF InFlight, Written
<1>10. QED
  BY <1>1, <1>3, <1>4, <1>5, <1>8, <1>9
LEMMA NextQueued == IInv /\ [Next]_vars => Queued'
<1> SUFFICES ASSUME IInv, [Next]_vars PROVE Queued'
  OBVIOUS
<1>1. TypeOK /\ Queued /\ Announced /\ Meant
  BY DEF IInv
<1>2. CASE Keeps
  BY <1>1, <1>2 DEF Keeps, Queued, Written, InFlight
<1>3. ASSUME NEW s \in Senders, SendPush(s) PROVE Queued'
  <2>1. /\ msgs + 1 \in Msgs /\ msgs' = msgs + 1 /\ UNCHANGED <<writes, sendTemp>>
        /\ Nums(sendBuf') = Nums(sendBuf) \cup {msgs + 1}
        /\ RisingNums(sendBuf') /\ InFlight' = InFlight \cup {msgs + 1}
        /\ \A n \in InFlight : n < msgs + 1
    BY <1>1, <1>3, AfterPush
  <2>2. \A n \in Msgs : n < msgs + 1 \/ n = msgs + 1 => n <= msgs + 1
    BY <2>1, ServerAssumption DEF Msgs
  <2>3. \A n \in InFlight' : n <= msgs'
    BY <1>1, <2>1, <2>2, InFlightTyped
  <2>4. Below(Written, Nums(sendBuf')) /\ Below(Nums(sendTemp), Nums(sendBuf'))
    BY <1>1, <2>1 DEF Queued, Below, InFlight
  <2>5. Written' = Written
    BY <2>1 DEF Written
  <2>6. QED
    BY <1>1, <2>1, <2>3, <2>4, <2>5 DEF Queued
<1>4. CASE DtorDrain
  <2>1. Nums(sendBuf') = {} /\ RisingNums(sendBuf') /\ UNCHANGED <<writes, sendTemp, msgs>>
    BY <1>4, ElemsEmpty DEF DtorDrain, objVars, count
  <2>2. Written' = Written /\ InFlight' \subseteq InFlight
    BY <2>1 DEF Written, InFlight
  <2>3. QED
    BY <1>1, <2>1, <2>2 DEF Queued, Below
<1>5. CASE TakeQueue
  <2>1. sendTemp = <<>> /\ sendTemp' = sendBuf /\ sendBuf' = sendTemp /\ UNCHANGED <<writes, msgs>>
    BY <1>1, <1>5 DEF TakeQueue, TypeOK, objVars, count
  <2>2. Nums(sendBuf') = {} /\ RisingNums(sendBuf') /\ Nums(sendTemp) = {}
    BY <2>1, ElemsEmpty
  <2>3. Written' = Written /\ InFlight' = InFlight
    BY <2>1, <2>2 DEF Written, InFlight
  <2>4. QED
    BY <1>1, <2>1, <2>2, <2>3 DEF Queued, Below
<1>6. ASSUME NEW h \in Addrs, AfterSend(h) \/ AfterSendError(h) PROVE Queued'
  <2>1. Finishes(h)
    BY <1>6, FinishSteps
  <2>2. /\ \A g \in Addrs : Elems(writes'[g]) \subseteq Elems(writes[g]) /\ Rising(writes'[g])
        /\ Written' \subseteq Written /\ InFlight' \subseteq InFlight
    BY <1>1, <2>1, AfterFinish
  <2>3. UNCHANGED <<sendTemp, sendBuf, msgs>>
    BY <2>1 DEF Finishes
  <2>4. \A f, g \in Addrs : f # g => Elems(writes'[f]) \cap Elems(writes'[g]) = {}
    BY <1>1, <2>2 DEF Queued
  <2>5. QED
    BY <1>1, <2>2, <2>3, <2>4 DEF Queued, Below
<1>7. CASE SendsOut
  <2> DEFINE n == Head(sendTemp).n
             h == Head(sendTemp).to
  <2>1. Pops /\ UNCHANGED <<sendBuf, msgs>>
    BY <1>7 DEF SendsOut, Pops
  <2>2. /\ Nums(sendTemp') \subseteq Nums(sendTemp) /\ RisingNums(sendTemp')
        /\ \A m \in Nums(sendTemp') \cup Nums(sendBuf) : n < m
        /\ n \notin Written
    BY <1>1, <2>1, AfterPop
  <2>3. /\ h \in Addrs /\ Elems(writes'[h]) = Elems(writes[h]) \cup {n}
        /\ \A g \in Addrs : (g # h => writes'[g] = writes[g]) /\ Rising(writes'[g])
        /\ Written' = Written \cup {n} /\ InFlight' = InFlight
    BY <1>1, <1>7, AfterSendOut
  <2>4. \A f, g \in Addrs : f # g => Elems(writes'[f]) \cap Elems(writes'[g]) = {}
    <3>1. \A g \in Addrs : n \notin Elems(writes[g])
      BY <2>2 DEF Written
    <3>2. QED
      BY <1>1, <2>3, <3>1 DEF Queued
  <2>5. Below(Written', Nums(sendTemp')) /\ Below(Written', Nums(sendBuf'))
    BY <1>1, <2>1, <2>2, <2>3 DEF Queued, Below
  <2>6. Below(Nums(sendTemp'), Nums(sendBuf'))
    BY <1>1, <2>1, <2>2 DEF Queued, Below
  <2>7. QED
    BY <1>1, <2>1, <2>2, <2>3, <2>4, <2>5, <2>6 DEF Queued
<1>8. CASE GivesUp
  <2>1. Pops /\ UNCHANGED <<writes, sendBuf, msgs>>
    BY <1>8 DEF GivesUp, Pops
  <2>2. Nums(sendTemp') \subseteq Nums(sendTemp) /\ RisingNums(sendTemp')
    BY <1>1, <2>1, AfterPop
  <2>3. Written' = Written /\ InFlight' \subseteq InFlight
    BY <2>1, <2>2 DEF Written, InFlight
  <2>4. QED
    BY <1>1, <2>1, <2>2, <2>3 DEF Queued, Below
<1>9. QED
  BY <1>1, <1>2, <1>3, <1>4, <1>5, <1>6, <1>7, <1>8, BufferSteps, WriteOneSteps

\* A buffer leaves and is freed.
LEMMA FreedOnLeaving ==
    ASSUME TypeOK, Books, NEW n \in Msgs, n \in InFlight, n <= msgs, FreeBuf(n),
           InFlight' = InFlight \ {n}, msgs' = msgs
    PROVE  Books'
<1>1. freedBuf \in [Msgs -> Nat] /\ freedBuf' = [freedBuf EXCEPT ![n] = @ + 1]
  BY DEF TypeOK, FreeBuf
<1>2. ASSUME NEW k \in Msgs
      PROVE  freedBuf'[k] = IF k <= msgs /\ k \notin InFlight' THEN 1 ELSE 0
  <2>1. freedBuf[n] = 0
    BY DEF Books
  <2>2. CASE k = n
    BY <1>1, <2>1, <2>2
  <2>3. CASE k # n
    <3>1. freedBuf'[k] = freedBuf[k] /\ (k \in InFlight' <=> k \in InFlight)
      BY <1>1, <2>3
    <3>2. QED
      BY <3>1 DEF Books
  <2>4. QED
    BY <2>2, <2>3
<1>3. QED
  BY <1>2 DEF Books

LEMMA NextBooks == IInv /\ [Next]_vars => Books'
<1> SUFFICES ASSUME IInv, [Next]_vars PROVE Books'
  OBVIOUS
<1>1. TypeOK /\ Queued /\ Books /\ Announced /\ Meant
  BY DEF IInv
<1>2. CASE Keeps
  BY <1>1, <1>2 DEF Keeps, Books, InFlight, Written
<1>3. ASSUME NEW s \in Senders, SendPush(s) PROVE Books'
  <2>1. /\ msgs + 1 \in Msgs /\ msgs' = msgs + 1 /\ InFlight' = InFlight \cup {msgs + 1}
    BY <1>1, <1>3, AfterPush
  <2>2. \A n \in Msgs : (n <= msgs' /\ n \notin InFlight') <=> (n <= msgs /\ n \notin InFlight)
    BY <1>1, <2>1, ServerAssumption, SMTT(30) DEF Msgs, TypeOK
  <2>3. freedBuf' = freedBuf
    BY <1>3 DEF SendPush
  <2>4. QED
    BY <1>1, <2>2, <2>3 DEF Books
<1>4. CASE DtorDrain
  <2>1. Nums(sendBuf') = {} /\ UNCHANGED <<writes, sendTemp, msgs>>
    BY <1>4, ElemsEmpty DEF DtorDrain, objVars, count
  <2>2. \A n \in Msgs : freedBuf'[n] = freedBuf[n] + (IF n \in Nums(sendBuf) THEN 1 ELSE 0)
    <3> DEFINE copies(n) == Cardinality({k \in 1..Len(sendBuf) : sendBuf[k].n = n})
    <3>1. freedBuf' = [n \in Msgs |-> freedBuf[n] + copies(n)]
      BY <1>4 DEF DtorDrain
    <3>2. sendBuf \in Seq([n : Msgs, to : Addrs]) /\ RisingNums(sendBuf)
      BY <1>1 DEF TypeOK, Queued
    <3>3. \A n \in Msgs : copies(n) = IF n \in Nums(sendBuf) THEN 1 ELSE 0
      BY <3>2, CountInRising
    <3> HIDE DEF copies
    <3>4. QED
      BY <3>1, <3>3
  <2>3. InFlight' = Written \cup Nums(sendTemp)
    BY <2>1 DEF InFlight, Written
  <2>4. (Written \cup Nums(sendTemp)) \cap Nums(sendBuf) = {}
    BY <1>1, Apart, InFlightTyped DEF Queued, Below
  <2>5. ASSUME NEW n \in Msgs
        PROVE  freedBuf'[n] = IF n <= msgs' /\ n \notin InFlight' THEN 1 ELSE 0
    <3>1. CASE n \in Nums(sendBuf)
      <4>1. freedBuf[n] = 0 /\ n <= msgs /\ n \notin InFlight'
        BY <1>1, <2>3, <2>4, <3>1 DEF Books, Queued, InFlight
      <4>2. QED
        BY <2>1, <2>2, <3>1, <4>1
    <3>2. CASE n \notin Nums(sendBuf)
      <4>1. n \in InFlight' <=> n \in InFlight
        BY <2>3, <3>2 DEF InFlight
      <4>2. freedBuf'[n] = freedBuf[n]
        BY <1>1, <2>2, <3>2 DEF TypeOK
      <4>3. QED
        BY <1>1, <2>1, <4>1, <4>2 DEF Books
    <3>3. QED
      BY <3>1, <3>2
  <2>6. QED
    BY <2>5 DEF Books
<1>5. CASE TakeQueue
  <2>1. sendTemp = <<>> /\ sendTemp' = sendBuf /\ sendBuf' = sendTemp /\ UNCHANGED <<writes, msgs, freedBuf>>
    BY <1>1, <1>5 DEF TakeQueue, TypeOK, objVars, count, fate
  <2>2. InFlight' = InFlight
    BY <2>1 DEF Written, InFlight
  <2>3. QED
    BY <1>1, <2>1, <2>2 DEF Books
<1>6. ASSUME NEW h \in Addrs, AfterSend(h) \/ AfterSendError(h) PROVE Books'
  <2> DEFINE n == Head(writes[h])
  <2>1. Finishes(h)
    BY <1>6, FinishSteps
  <2>2. n \in Msgs /\ n \in InFlight /\ InFlight' = InFlight \ {n}
    BY <1>1, <2>1, AfterFinish
  <2>3. n <= msgs /\ FreeBuf(n) /\ msgs' = msgs
    BY <1>1, <2>1, <2>2 DEF Queued, Finishes
  <2>4. QED
    BY <1>1, <2>2, <2>3, FreedOnLeaving
<1>7. CASE SendsOut
  <2>1. InFlight' = InFlight
    BY <1>1, <1>7, AfterSendOut
  <2>2. UNCHANGED <<msgs, freedBuf>>
    BY <1>7 DEF SendsOut, Pops
  <2>3. QED
    BY <1>1, <2>1, <2>2 DEF Books
<1>8. CASE GivesUp
  <2> DEFINE n == Head(sendTemp).n
  <2>1. Pops /\ UNCHANGED <<writes, sendBuf, msgs>> /\ FreeBuf(n)
    BY <1>8 DEF GivesUp, Pops
  <2>2. /\ n \in Msgs /\ n \in Nums(sendTemp) /\ Nums(sendTemp') = Nums(sendTemp) \ {n}
        /\ n \notin Written /\ n \notin Nums(sendBuf)
    BY <1>1, <2>1, AfterPop
  <2>3. InFlight' = InFlight \ {n} /\ n \in InFlight
    BY <2>1, <2>2 DEF Written, InFlight
  <2>4. n <= msgs
    BY <1>1, <2>3 DEF Queued
  <2>5. QED
    BY <1>1, <2>1, <2>2, <2>3, <2>4, FreedOnLeaving
<1>9. QED
  BY <1>1, <1>2, <1>3, <1>4, <1>5, <1>6, <1>7, <1>8, BufferSteps, WriteOneSteps
-----------------------------------------------------------------------------
(* What is written to whom. *)

\* Announcements are only added to, and a known connection keeps its address.
Grown == /\ told \subseteq told' /\ left \subseteq left'
         /\ \A c \in told : home'[c] = home[c]
         /\ \A h \in Addrs : conn'[h] = conn[h] \/ writes[h] = <<>>
         /\ \A s \in Senders : pc'[s] = "checked" => target'[s] \in told'

LEMMA NextGrown == IInv /\ [Next]_vars => Grown
<1> SUFFICES ASSUME IInv, [Next]_vars PROVE Grown
  OBVIOUS
<1> USE DEF objVars, queueVars, endVars, appVars, count, fate
<1>1. TypeOK /\ Control /\ Handles /\ Announced /\ Meant
  BY DEF IInv
<1>2. \A s \in Senders : pc[s] = "checked" => target[s] \in told
  BY <1>1 DEF Meant
<1>3. ASSUME UNCHANGED <<told, home, conn, pc, target>>, left \subseteq left' PROVE Grown
  BY <1>2, <1>3 DEF Grown
<1>4. ASSUME NEW h \in Addrs, HandleMsg(h) \/ OnMsg(h) \/ AfterSend(h) \/ AfterSendError(h)
      PROVE  Grown
  <2>1. UNCHANGED <<told, home, conn, pc, target>> /\ (Drop(h) \/ left' = left)
    BY <1>4 DEF HandleMsg, OnMsg, AfterSend, AfterSendError
  <2>2. QED
    BY <1>3, <2>1 DEF Drop
<1>5. ASSUME NEW h \in Addrs, ClientClose(h) PROVE Grown
  <2>1. UNCHANGED <<told, left, home, pc, target>> /\ writes[h] = <<>>
    BY <1>5 DEF ClientClose
  <2>2. \A g \in Addrs : g # h => conn'[g] = conn[g]
    BY <1>1, <1>5 DEF ClientClose, TypeOK
  <2>3. QED
    BY <1>2, <2>1, <2>2 DEF Grown
<1>6. ASSUME NEW s \in Senders, SendCheck(s) PROVE Grown
  <2>1. UNCHANGED <<told, left, home, conn>>
    BY <1>6 DEF SendCheck
  <2>2. PICK c \in told : target' = [target EXCEPT ![s] = c]
    BY <1>6 DEF SendCheck
  <2>3. pc' = [pc EXCEPT ![s] = "checked"]
    BY <1>6 DEF SendCheck
  <2>4. \A r \in Senders : pc'[r] = "checked" => target'[r] \in told
    BY <1>1, <1>2, <2>2, <2>3 DEF TypeOK
  <2>5. QED
    BY <2>1, <2>4 DEF Grown
<1>7. ASSUME NEW s \in Senders, SendPush(s) PROVE Grown
  <2>1. UNCHANGED <<told, left, home, conn, target>> /\ pc' = [pc EXCEPT ![s] = "idle"]
    BY <1>7 DEF SendPush
  <2>2. \A r \in Senders : pc'[r] = "checked" => pc[r] = "checked"
    BY <1>1, <2>1 DEF TypeOK
  <2>3. QED
    BY <1>2, <2>1, <2>2 DEF Grown
<1>8. CASE Close \/ DtorDrain \/ DtorClose \/ DtorJoin
  BY <1>3, <1>8 DEF Close, DtorDrain, DtorClose, DtorJoin
<1>9. CASE AcceptConnection
  <2>1. PICK h \in Addrs, listed \in BOOLEAN :
            /\ handle[h] = "none"
            /\ home' = Append(home, h)
            /\ conn' = [conn EXCEPT ![h] = Len(home) + 1]
            /\ told' = IF listed THEN told \cup {Len(home) + 1} ELSE told
    BY <1>9 DEF AcceptConnection
  <2>2. UNCHANGED <<left, pc, target>>
    BY <1>9 DEF AcceptConnection
  <2>3. writes[h] = <<>> /\ \A g \in Addrs : g # h => conn'[g] = conn[g]
    BY <1>1, <2>1 DEF Handles, TypeOK
  <2>4. \A c \in told : home'[c] = home[c]
    <3>1. \A i \in 1..Len(home) : home'[i] = home[i]
      BY <1>1, <2>1, AppendProperties DEF TypeOK
    <3>2. QED
      BY <1>1, <3>1 DEF Announced
  <2>5. told \subseteq told'
    BY <2>1
  <2>6. QED
    BY <1>2, <2>2, <2>3, <2>4, <2>5 DEF Grown
<1>10. CASE AsyncCallBack \/ TakeQueue \/ InfraClosed \/ RunThread
  BY <1>3, <1>10 DEF AsyncCallBack, TakeQueue, InfraClosed, RunThread
<1>11. CASE WriteOne
  <2>1. UNCHANGED <<told, home, conn, pc, target>> /\ (Drop(Head(sendTemp).to) \/ left' = left)
    BY <1>11 DEF WriteOne
  <2>2. QED
    BY <1>3, <2>1 DEF Drop
<1>12. CASE UNCHANGED vars
  BY <1>3, <1>12 DEF vars
<1>13. QED
  BY <1>4, <1>5, <1>6, <1>7, <1>8, <1>9, <1>10, <1>11, <1>12 DEF Next, DtorStep

\* AfterSend, in terms of what was sent.
LEMMA AfterWritten ==
    ASSUME IInv, NEW h \in Addrs, AfterSend(h)
    PROVE  LET n == Head(writes[h]) IN
           /\ n \in Msgs /\ n \in Elems(writes[h]) /\ conn[h] \in Conns
           /\ Elems(wrote'[conn[h]]) = Elems(wrote[conn[h]]) \cup {n}
           /\ Rising(wrote'[conn[h]])
           /\ \A c \in Conns : c # conn[h] => wrote'[c] = wrote[c]
<1> DEFINE n == Head(writes[h])
<1>1. TypeOK /\ Queued /\ Sent /\ Control /\ Handles
  BY DEF IInv
<1>2. Finishes(h)
  BY FinishSteps
<1>3. n \in Msgs /\ n \in Elems(writes[h])
  BY <1>1, <1>2, AfterFinish
<1>4. conn[h] # 0 /\ conn[h] \in Conns
  <2>1. loop = "poll" /\ writes[h] # <<>>
    BY DEF AfterSend
  <2>2. conn[h] # 0
    BY <1>1, <2>1 DEF Control, Handles
  <2>3. QED
    BY <1>1, <2>2, ServerAssumption DEF TypeOK, Conns
<1>5. /\ wrote'[conn[h]] = Append(wrote[conn[h]], n)
      /\ \A c \in Conns : c # conn[h] => wrote'[c] = wrote[c]
  <2>1. wrote' = [wrote EXCEPT ![conn[h]] = Append(@, n)] /\ wrote \in [Conns -> Seq(Msgs)]
    BY <1>1 DEF AfterSend, TypeOK
  <2>2. QED
    BY <1>4, <2>1
<1>6. wrote[conn[h]] \in Seq(Msgs) /\ Rising(wrote[conn[h]])
  BY <1>1, <1>4 DEF TypeOK, Sent
<1>7. \A x \in Elems(wrote[conn[h]]) : x < n
  BY <1>1, <1>3, <1>4 DEF Sent, Below
<1>8. QED
  BY <1>3, <1>4, <1>5, <1>6, <1>7, RisingAppend

LEMMA NextSent == IInv /\ [Next]_vars => Sent'
<1> SUFFICES ASSUME IInv, [Next]_vars PROVE Sent'
  OBVIOUS
<1>1. TypeOK /\ Queued /\ Sent /\ Announced /\ Meant /\ Named
  BY DEF IInv
<1>2. ASSUME UNCHANGED <<wrote, msgs>>,
             Nums(sendTemp') \cup Nums(sendBuf') \subseteq Nums(sendTemp) \cup Nums(sendBuf),
             \A h \in Addrs : \/ Elems(writes'[h]) = {}
                              \/ conn'[h] = conn[h] /\ Elems(writes'[h]) \subseteq Elems(writes[h])
      PROVE  Sent'
  <2>1. \A c \in Conns : /\ Below(Elems(wrote[c]), Nums(sendTemp'))
                         /\ Below(Elems(wrote[c]), Nums(sendBuf'))
    BY <1>1, <1>2 DEF Sent, Below
  <2>2. \A h \in Addrs : conn'[h] # 0 => Below(Elems(wrote[conn'[h]]), Elems(writes'[h]))
    BY <1>1, <1>2 DEF Sent, Below
  <2>3. QED
    BY <1>1, <1>2, <2>1, <2>2 DEF Sent
<1>3. CASE Keeps
  <2>1. \A h \in Addrs : Elems(writes'[h]) = {} \/ conn'[h] = conn[h]
    BY <1>3, NextGrown, ElemsEmpty DEF Grown, Keeps
  <2>2. QED
    BY <1>2, <1>3, <2>1 DEF Keeps
<1>4. ASSUME NEW s \in Senders, SendPush(s) PROVE Sent'
  <2>1. /\ msgs + 1 \in Msgs /\ msgs' = msgs + 1 /\ UNCHANGED <<writes, sendTemp>>
        /\ Nums(sendBuf') = Nums(sendBuf) \cup {msgs + 1}
    BY <1>1, <1>4, AfterPush
  <2>2. UNCHANGED <<wrote, conn>>
    BY <1>4 DEF SendPush, objVars
  <2>3. \A n \in Msgs : n <= msgs => n < msgs + 1 /\ n <= msgs + 1
    BY <1>1, ServerAssumption DEF TypeOK, Msgs
  <2>4. ASSUME NEW c \in Conns
        PROVE  \A n \in Elems(wrote[c]) : n < msgs + 1 /\ n <= msgs + 1
    <3>1. Elems(wrote[c]) \subseteq Msgs
      BY <1>1, ElemsIn DEF TypeOK
    <3>2. QED
      BY <1>1, <2>3, <3>1 DEF Sent
  <2>5. QED
    BY <1>1, <2>1, <2>2, <2>4 DEF Sent, Below
<1>5. CASE DtorDrain
  <2>1. Nums(sendBuf') = {} /\ UNCHANGED <<writes, sendTemp, msgs, conn, wrote>>
    BY <1>5, ElemsEmpty DEF DtorDrain, objVars, count
  <2>2. QED
    BY <1>2, <2>1
<1>6. CASE TakeQueue
  <2>1. sendTemp' = sendBuf /\ sendBuf' = sendTemp /\ UNCHANGED <<writes, msgs, conn, wrote>>
    BY <1>6 DEF TakeQueue, objVars, count, fate
  <2>2. QED
    BY <1>2, <2>1
<1>7. ASSUME NEW h \in Addrs, AfterSendError(h) PROVE Sent'
  <2>1. Finishes(h) /\ wrote' = wrote
    BY <1>7, FinishSteps DEF AfterSendError
  <2>2. \A g \in Addrs : Elems(writes'[g]) \subseteq Elems(writes[g])
    BY <1>1, <2>1, AfterFinish
  <2>3. QED
    BY <1>2, <2>1, <2>2 DEF Finishes
<1>8. ASSUME NEW h \in Addrs, AfterSend(h) PROVE Sent'
  <2> DEFINE n == Head(writes[h])
             c == conn[h]
  <2>1. Finishes(h)
    BY <1>8, FinishSteps
  <2>2. /\ n \in Msgs /\ n \in InFlight
        /\ \A g \in Addrs : Elems(writes'[g]) \subseteq Elems(writes[g])
        /\ \A m \in Elems(writes'[h]) : n < m
    BY <1>1, <2>1, AfterFinish
  <2>3. /\ c \in Conns /\ n \in Elems(writes[h])
        /\ Elems(wrote'[c]) = Elems(wrote[c]) \cup {n} /\ Rising(wrote'[c])
        /\ \A d \in Conns : d # c => wrote'[d] = wrote[d]
    BY <1>8, AfterWritten
  <2>4. UNCHANGED <<sendTemp, sendBuf, msgs, conn>>
    BY <2>1 DEF Finishes
  <2>5. Below({n}, Nums(sendTemp)) /\ Below({n}, Nums(sendBuf)) /\ n <= msgs
    BY <1>1, <2>2, <2>3 DEF Queued, Below, Written
  <2>6. ASSUME NEW d \in Conns
        PROVE  /\ Rising(wrote'[d])
               /\ Below(Elems(wrote'[d]), Nums(sendTemp))
               /\ Below(Elems(wrote'[d]), Nums(sendBuf))
               /\ \A m \in Elems(wrote'[d]) : m <= msgs
    BY <1>1, <2>3, <2>5 DEF Sent, Below
  <2>7. ASSUME NEW g \in Addrs, conn[g] # 0
        PROVE  Below(Elems(wrote'[conn[g]]), Elems(writes'[g]))
    <3>1. Below(Elems(wrote[conn[g]]), Elems(writes'[g]))
      BY <1>1, <2>2, <2>7 DEF Sent, Below
    <3>2. CASE g = h
      BY <2>2, <2>3, <3>1, <3>2 DEF Below
    <3>3. CASE g # h
      <4>1. conn[g] # c
        BY <1>1, <2>7, <3>3 DEF Named
      <4>2. conn[g] \in Conns
        BY <1>1, <2>7, ServerAssumption DEF TypeOK, Conns
      <4>3. QED
        BY <2>3, <3>1, <4>1, <4>2
    <3>4. QED
      BY <3>2, <3>3
  <2>8. QED
    BY <2>4, <2>6, <2>7 DEF Sent
<1>9. CASE SendsOut
  <2> DEFINE n == Head(sendTemp).n
             h == Head(sendTemp).to
  <2>1. Pops /\ UNCHANGED <<sendBuf, msgs, conn, wrote>>
    BY <1>9 DEF SendsOut, Pops
  <2>2. n \in Nums(sendTemp) /\ Nums(sendTemp') \subseteq Nums(sendTemp)
    BY <1>1, <2>1, AfterPop
  <2>3. /\ h \in Addrs /\ Elems(writes'[h]) = Elems(writes[h]) \cup {n}
        /\ \A g \in Addrs : g # h => writes'[g] = writes[g]
    BY <1>1, <1>9, AfterSendOut
  <2>4. ASSUME NEW c \in Conns
        PROVE  /\ Below(Elems(wrote[c]), {n})
               /\ Below(Elems(wrote[c]), Nums(sendTemp'))
    BY <1>1, <2>2 DEF Sent, Below
  <2>5. ASSUME NEW g \in Addrs, conn[g] # 0
        PROVE  Below(Elems(wrote[conn[g]]), Elems(writes'[g]))
    <3>1. conn[g] \in Conns
      BY <1>1, <2>5, ServerAssumption DEF TypeOK, Conns
    <3>2. Below(Elems(wrote[conn[g]]), Elems(writes[g])) /\ Below(Elems(wrote[conn[g]]), {n})
      BY <1>1, <2>4, <2>5, <3>1 DEF Sent
    <3>3. Elems(writes'[g]) \subseteq Elems(writes[g]) \cup {n}
      BY <2>3
    <3>4. QED
      BY <3>2, <3>3 DEF Below
  <2>6. QED
    BY <1>1, <2>1, <2>4, <2>5 DEF Sent
<1>10. CASE GivesUp
  <2>1. Pops /\ UNCHANGED <<writes, sendBuf, msgs, conn, wrote>>
    BY <1>10 DEF GivesUp, Pops
  <2>2. Nums(sendTemp') \subseteq Nums(sendTemp)
    BY <1>1, <2>1, AfterPop
  <2>3. QED
    BY <1>2, <2>1, <2>2
<1>11. QED
  BY <1>1, <1>3, <1>4, <1>5, <1>6, <1>7, <1>8, <1>9, <1>10, BufferSteps, WriteOneSteps
LEMMA NextMeant == IInv /\ [Next]_vars => Meant'
<1> SUFFICES ASSUME IInv, [Next]_vars PROVE Meant'
  OBVIOUS
<1>1. TypeOK /\ Queued /\ Announced /\ Meant /\ Named /\ Handles
  BY DEF IInv
<1>2. Grown
  BY NextGrown
<1>3. ASSUME meant' = meant, wrote' = wrote,
             Elems(sendTemp') \cup Elems(sendBuf') \subseteq Elems(sendTemp) \cup Elems(sendBuf),
             \A h \in Addrs : Elems(writes'[h]) \subseteq Elems(writes[h])
      PROVE  Meant'
  <2>1. \A e \in Elems(sendTemp') \cup Elems(sendBuf') : meant[e.n] \in told' /\ home'[meant[e.n]] = e.to
    BY <1>1, <1>2, <1>3 DEF Meant, Grown
  <2>2. \A h \in Addrs : \A n \in Elems(writes'[h]) : meant[n] = conn'[h] \/ meant[n] \in left'
    BY <1>1, <1>2, <1>3, ElemsEmpty DEF Meant, Grown
  <2>3. \A c \in Conns : \A n \in Elems(wrote[c]) : meant[n] = c \/ meant[n] \in left'
    BY <1>1, <1>2 DEF Meant, Grown
  <2>4. QED
    BY <1>2, <1>3, <2>1, <2>2, <2>3 DEF Meant, Grown
<1>4. CASE Keeps
  BY <1>3, <1>4 DEF Keeps
<1>5. ASSUME NEW s \in Senders, SendPush(s) PROVE Meant'
  <2> DEFINE new == [n |-> msgs + 1, to |-> home[target[s]]]
  <2>1. /\ msgs + 1 \in Msgs /\ UNCHANGED <<writes, sendTemp>>
        /\ Elems(sendBuf') = Elems(sendBuf) \cup {new}
        /\ \A n \in InFlight : n < msgs + 1
    BY <1>1, <1>5, AfterPush
  <2>2. UNCHANGED <<wrote, conn, told, left, home>>
    BY <1>5 DEF SendPush, objVars
  <2>3. target[s] \in told
    BY <1>1, <1>5 DEF SendPush, Meant
  <2>4. meant'[msgs + 1] = target[s] /\ \A n \in Msgs : n < msgs + 1 => meant'[n] = meant[n]
    <3>1. \A n \in Msgs : n < msgs + 1 => n # msgs + 1
      BY <2>1, Apart
    <3>2. QED
      BY <1>1, <1>5, <2>1, <3>1 DEF SendPush, TypeOK
  <2>5. \A n \in InFlight : meant'[n] = meant[n]
    BY <1>1, <2>1, <2>4, InFlightTyped
  <2>6. \A e \in Elems(sendTemp) \cup Elems(sendBuf) : e.n \in InFlight
    BY <1>1, NumsIn, ZenonT(30) DEF InFlight, TypeOK
  <2>7. \A e \in Elems(sendTemp) \cup Elems(sendBuf') : meant'[e.n] \in told /\ home[meant'[e.n]] = e.to
    <3>1. \A e \in Elems(sendTemp) \cup Elems(sendBuf) : meant'[e.n] \in told /\ home[meant'[e.n]] = e.to
      BY <1>1, <2>5, <2>6 DEF Meant
    <3>2. meant'[new.n] \in told /\ home[meant'[new.n]] = new.to
      BY <2>3, <2>4
    <3>3. QED
      BY <2>1, <3>1, <3>2
  <2>8. \A h \in Addrs : \A n \in Elems(writes[h]) : meant'[n] = conn[h] \/ meant'[n] \in left
    BY <1>1, <2>5 DEF Meant, InFlight, Written
  <2>9. \A c \in Conns : \A n \in Elems(wrote[c]) : meant'[n] = c \/ meant'[n] \in left
    <3>1. ASSUME NEW c \in Conns, NEW n \in Elems(wrote[c])
          PROVE  n \in Msgs /\ n < msgs + 1
      <4>1. n \in Msgs /\ n <= msgs
        BY <1>1, ElemsIn DEF TypeOK, Sent, IInv
      <4>2. QED
        BY <1>1, <4>1, ServerAssumption DEF TypeOK, Msgs
    <3>2. QED
      BY <1>1, <2>4, <3>1 DEF Meant
  <2>10. QED
    BY <1>2, <2>1, <2>2, <2>7, <2>8, <2>9 DEF Meant, Grown
<1>6. CASE DtorDrain
  <2>1. Elems(sendBuf') = {} /\ UNCHANGED <<writes, sendTemp, meant, wrote>>
    BY <1>6, ElemsEmpty DEF DtorDrain, objVars
  <2>2. QED
    BY <1>3, <2>1
<1>7. CASE TakeQueue
  <2>1. sendTemp' = sendBuf /\ sendBuf' = sendTemp /\ UNCHANGED <<writes, meant, wrote>>
    BY <1>7 DEF TakeQueue, objVars, fate
  <2>2. QED
    BY <1>3, <2>1
<1>8. ASSUME NEW h \in Addrs, AfterSend(h) \/ AfterSendError(h) PROVE Meant'
  <2> DEFINE n == Head(writes[h])
  <2>1. Finishes(h)
    BY <1>8, FinishSteps
  <2>2. \A g \in Addrs : Elems(writes'[g]) \subseteq Elems(writes[g])
    BY <1>1, <2>1, AfterFinish
  <2>3. UNCHANGED <<sendTemp, sendBuf, conn, meant>>
    BY <2>1 DEF Finishes
  <2>4. CASE AfterSendError(h)
    BY <1>3, <2>2, <2>3, <2>4 DEF AfterSendError
  <2>5. CASE AfterSend(h)
    <3>1. /\ conn[h] \in Conns /\ n \in Elems(writes[h])
          /\ Elems(wrote'[conn[h]]) = Elems(wrote[conn[h]]) \cup {n}
          /\ \A d \in Conns : d # conn[h] => wrote'[d] = wrote[d]
      BY <2>5, AfterWritten
    <3>2. UNCHANGED <<told, left, home>>
      BY <2>5 DEF AfterSend, count
    <3>3. meant[n] = conn[h] \/ meant[n] \in left
      BY <1>1, <3>1 DEF Meant
    <3>4. \A c \in Conns : \A m \in Elems(wrote'[c]) : meant[m] = c \/ meant[m] \in left
      BY <1>1, <3>1, <3>3 DEF Meant
    <3>5. \A g \in Addrs : \A m \in Elems(writes'[g]) : meant[m] = conn[g] \/ meant[m] \in left
      BY <1>1, <2>2 DEF Meant
    <3>6. \A e \in Elems(sendTemp) \cup Elems(sendBuf) : meant[e.n] \in told /\ home[meant[e.n]] = e.to
      BY <1>1 DEF Meant
    <3>7. QED
      BY <1>2, <2>3, <3>2, <3>4, <3>5, <3>6 DEF Meant, Grown
  <2>6. QED
    BY <1>8, <2>4, <2>5
<1>9. CASE SendsOut \/ GivesUp
  <2>1. Pops /\ sendTemp # <<>> /\ sendTemp \in Seq([n : Msgs, to : Addrs]) /\ sendTemp' = Tail(sendTemp)
        /\ UNCHANGED <<sendBuf, meant, wrote>>
    BY <1>1, <1>9 DEF SendsOut, GivesUp, Pops, TypeOK
  <2>2. Elems(sendTemp') \subseteq Elems(sendTemp) /\ Head(sendTemp) \in Elems(sendTemp)
    BY <2>1, HeadFirst
  <2>3. CASE UNCHANGED writes
    BY <1>3, <2>1, <2>2, <2>3
  <2>4. CASE SendsOut
    <3> DEFINE n == Head(sendTemp).n
               h == Head(sendTemp).to
    <3>1. /\ h \in clients /\ h \in Addrs
          /\ Elems(writes'[h]) = Elems(writes[h]) \cup {n}
          /\ \A g \in Addrs : g # h => writes'[g] = writes[g]
      BY <1>1, <2>4, AfterSendOut
    <3>2. meant[n] \in told /\ home[meant[n]] = h
      BY <1>1, <2>2 DEF Meant
    <3>3. meant[n] = conn[h] \/ meant[n] \in left
      <4>1. SUFFICES ASSUME meant[n] \notin left PROVE meant[n] = conn[h]
        OBVIOUS
      <4>2. PICK g \in clients : meant[n] = conn[g]
        BY <1>1, <3>2, <4>1 DEF Announced
      <4>3. g \in Addrs
        BY <1>1 DEF TypeOK
      <4>4. home[conn[g]] = g
        BY <1>1, <4>2, <4>3 DEF Named, Handles
      <4>5. QED
        BY <3>2, <4>2, <4>4
    <3>4. conn' = conn
      BY <2>1 DEF Pops
    <3>5. \A g \in Addrs : \A m \in Elems(writes'[g]) : meant[m] = conn[g] \/ meant[m] \in left
      BY <1>1, <3>1, <3>3 DEF Meant
    <3>6. \A e \in Elems(sendTemp') \cup Elems(sendBuf) : meant[e.n] \in told' /\ home'[meant[e.n]] = e.to
      BY <1>1, <1>2, <2>2 DEF Meant, Grown
    <3>7. \A c \in Conns : \A m \in Elems(wrote[c]) : meant[m] = c \/ meant[m] \in left'
      BY <1>1, <1>2 DEF Meant, Grown
    <3>8. QED
      BY <1>2, <2>1, <3>4, <3>5, <3>6, <3>7 DEF Meant, Grown
  <2>5. QED
    BY <1>9, <2>3, <2>4 DEF GivesUp
<1>10. QED
  BY <1>1, <1>4, <1>5, <1>6, <1>7, <1>8, <1>9, BufferSteps, WriteOneSteps

LEMMA NextIInv == IInv /\ [Next]_vars => IInv'
<1> SUFFICES ASSUME IInv, [Next]_vars PROVE IInv'
  OBVIOUS
<1>1. TypeOK' /\ Control' /\ Handles' /\ Named'
  BY NextTyping, NextControl, NextHandles, NextNamed DEF IInv
<1>2. Announced' /\ Objects'
  BY NextAnnounced, NextObjects DEF IInv
<1>3. Cut'
  BY <1>1, NextCut DEF IInv
<1>4. QED
  BY <1>1, <1>2, <1>3, NextQueued, NextBooks, NextSent, NextMeant DEF IInv

(***************************************************************************)
(* The inductive invariant holds in every reachable state.                 *)
(***************************************************************************)
THEOREM Invariance == Spec => []IInv
  BY InitIInv, NextIInv, PTL DEF Spec

-----------------------------------------------------------------------------
LEMMA IInvNoUse == IInv => NoUseAfterFree
<1> SUFFICES ASSUME IInv, dtor # "gone"
             PROVE  /\ \A h \in clients : Live(h)
                    /\ \A h \in Addrs : writes[h] # <<>> => Live(h)
  BY DEF NoUseAfterFree
<1>1. \A h \in clients : h \in Addrs
  BY DEF IInv, TypeOK
<1>2. QED
  BY <1>1 DEF IInv, Handles, Live

(***************************************************************************)
(* NoUseAfterFree, for any addresses and connections: whatever order the   *)
(* reads, failed writes, OnMsg, Send and the shutdown walk come in, an     *)
(* entry of m_clients and the client of a write request are objects that   *)
(* exist.                                                                  *)
(***************************************************************************)
THEOREM NoDangling == Spec => []NoUseAfterFree
  BY Invariance, IInvNoUse, PTL

LEMMA IInvAgree == IInv => ClientsAgree
<1> SUFFICES ASSUME IInv PROVE ClientsAgree
  OBVIOUS
<1>1. TypeOK /\ ToldIsListed
  BY DEF IInv, Announced, ToldIsListed
<1>2. OpenIffListed
  BY <1>1 DEF IInv, Handles, OpenIffListed, TypeOK
<1>3. QED
  BY <1>1, <1>2 DEF ClientsAgree

(***************************************************************************)
(* ClientsAgree, for any addresses and connections: on each of the paths   *)
(* that end a connection, uv_close, RemoveClient and OnDisconnection go    *)
(* together, so libuv, m_clients and the application name the same peers.  *)
(***************************************************************************)
THEOREM Agreement == Spec => []ClientsAgree
  BY Invariance, IInvAgree, PTL

LEMMA IInvFreed == IInv => FreedOnce
<1> SUFFICES ASSUME IInv PROVE FreedOnce
  OBVIOUS
<1>1. TypeOK /\ Control /\ Handles /\ Objects /\ Books
  BY DEF IInv
<1>2. ClosedTwiceOnlyByWalk
  BY DEF IInv, Cut, ClosedTwiceOnlyByWalk
<1>3. ASSUME NEW c \in 1..Len(home)
      PROVE  freedObj[c] <= 1 /\ (dtor = "gone" => (freedObj[c] = 1 <=> c \notin twice))
  <2>1. c \in Conns /\ c <= Len(home)
    BY <1>1, LenProperties, ServerAssumption DEF TypeOK, Conns
  <2>2. home[c] \in Addrs
    BY <1>1, <2>1, AtHome
  <2>3. freedObj[c] = (IF Freed(c) THEN 1 ELSE 0) /\ (c \in twice <=> Orphan(c))
    BY <1>1, <2>1 DEF Objects
  <2>4. ASSUME dtor = "gone" PROVE Freed(c) <=> ~Orphan(c)
    <3>1. ~closeCb[home[c]]
      BY <1>1, <2>2, <2>4 DEF Control, Handles
    <3>2. QED
      BY <2>1, <2>4, <3>1 DEF Freed, Orphan
  <2>5. QED
    BY <2>3, <2>4
<1>4. ASSUME NEW n \in 1..msgs
      PROVE  freedBuf[n] <= 1 /\ (dtor = "gone" => freedBuf[n] = 1)
  <2>1. n \in Msgs /\ n <= msgs
    BY <1>1, ServerAssumption DEF TypeOK, Msgs
  <2>2. freedBuf[n] = IF n \notin InFlight THEN 1 ELSE 0
    BY <1>1, <2>1 DEF Books
  <2>3. ASSUME dtor = "gone" PROVE n \notin InFlight
    <3>1. loop = "ended" /\ sendBuf = <<>> /\ sendTemp = <<>>
      BY <1>1, <2>3 DEF Control, TypeOK
    <3>2. \A h \in Addrs : writes[h] = <<>>
      BY <1>1, <3>1 DEF Control, Handles
    <3>3. QED
      BY <3>1, <3>2, ElemsEmpty DEF InFlight, Written
  <2>4. QED
    BY <2>2, <2>3
<1>5. QED
  BY <1>2, <1>3, <1>4 DEF FreedOnce, ObjectsFreedOnce, BuffersFreedOnce

(***************************************************************************)
(* FreedOnce, for any addresses, connections and messages: no order of     *)
(* writes, failures, shutdown and destruction frees a client or a buffer   *)
(* twice or leaks one, but for the clients that the walk closed while a    *)
(* write was pending and the cancelled write closes again.                 *)
(***************************************************************************)
THEOREM Freeing == Spec => []FreedOnce
  BY Invariance, IInvFreed, PTL

LEMMA IInvSent == IInv => SentAsAsked
<1> SUFFICES ASSUME IInv PROVE SentAsAsked
  OBVIOUS
<1>1. AstrayOnlyIfStale
  BY DEF IInv, Meant, Elems, AstrayOnlyIfStale
<1>2. WrittenInOrder
  BY DEF IInv, Sent, Rising, WrittenInOrder
<1>3. QED
  BY <1>1, <1>2 DEF SentAsAsked

(***************************************************************************)
(* SentAsAsked, for any senders, addresses and messages: although Send     *)
(* names a client by an address that may be reused before the loop looks   *)
(* at the queue, a buffer for a connection that was not reported gone goes *)
(* to that connection, and each peer gets its buffers in the order of the  *)
(* calls.                                                                  *)
(***************************************************************************)
THEOREM Sending == Spec => []SentAsAsked
  BY Invariance, IInvSent, PTL
=============================================================================
