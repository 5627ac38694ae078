----------------------- MODULE WebsocketServer_proofs -----------------------
(***************************************************************************)
(* Proofs about WebsocketServer for any addresses, lengths, cache size and *)
(* numbers of connections, messages and pieces.                            *)
(*                                                                         *)
(* The inductive invariant adds to the checked properties how the service  *)
(* thread and libwebsockets take turns (Turns), that a connection's number *)
(* is its own and nothing is recorded for numbers not yet given (Named),   *)
(* and what the two buffers hold when one has overflown: the Close comes   *)
(* first in the entry's buffer, so nothing after it is written (Headed).   *)
(***************************************************************************)
EXTENDS WebsocketServer, SequenceTheorems, TLAPS

Turns ==
  /\ pc # "ask" => updateds = {}
  /\ pc # "service" => dying = {}
  /\ \A v, w \in dying : v = w
  /\ mid \subseteq Open

Named ==
  /\ \A v, w \in Open : conn[v] = conn[w] => v = w
  /\ \A w \in Wsis : conn[w] <= conns
  /\ \A c \in 1..MaxConns : c > conns => sent[c] = <<>> /\ given[c] = <<>> /\ c \notin cut

Headed ==
  \A w \in Live \ dying :
    /\ IsPrefix(given[conn[w]] \o inout[w].send_, sent[conn[w]])
    /\ conn[w] \in cut => /\ send_cache_[w].sendBuf_ # <<>>
                          /\ send_cache_[w].sendBuf_[1] = Close

IInv == /\ EntriesSound /\ Turns /\ Named /\ NothingForgotten
        /\ PrefixSent /\ Headed
-----------------------------------------------------------------------------
(* Sequences and their prefixes. *)

LEMMA PrefixPointwise ==
    ASSUME NEW S, NEW s \in Seq(S), NEW t \in Seq(S)
    PROVE  IsPrefix(s, t) <=> Len(s) <= Len(t) /\ \A i \in 1..Len(s) : s[i] = t[i]
<1>1. CASE Len(s) <= Len(t)
  <2>1. /\ Len(s) \in Nat /\ Len(t) \in Nat
    BY LenProperties
  <2>2. SubSeq(s, 1, Len(s)) = s
    BY SubSeqFull
  <2>3. /\ SubSeq(t, 1, Len(s)) \in Seq(S) /\ Len(SubSeq(t, 1, Len(s))) = Len(s)
        /\ \A i \in 1..Len(s) : SubSeq(t, 1, Len(s))[i] = t[i]
    BY <1>1, <2>1
  <2>4. s = SubSeq(t, 1, Len(s)) <=> \A i \in 1..Len(s) : s[i] = t[i]
    BY <2>1, <2>3, SeqEqual
  <2>5. QED
    BY <1>1, <2>2, <2>4 DEF IsPrefix
<1>2. CASE ~(Len(s) <= Len(t))
  BY <1>2 DEF IsPrefix
<1>3. QED
  BY <1>1, <1>2

LEMMA PrefixAppend ==
    ASSUME NEW S, NEW s \in Seq(S), NEW t \in Seq(S), NEW e \in S, IsPrefix(s, t)
    PROVE  IsPrefix(s, Append(t, e))
<1>1. /\ Len(s) <= Len(t) /\ \A i \in 1..Len(s) : s[i] = t[i]
  BY PrefixPointwise
<1>2. /\ Append(t, e) \in Seq(S) /\ Len(Append(t, e)) = Len(t) + 1
      /\ \A i \in 1..Len(t) : Append(t, e)[i] = t[i]
  BY AppendProperties
<1>3. Len(s) \in Nat /\ Len(t) \in Nat
  BY LenProperties
<1>4. Len(s) <= Len(Append(t, e)) /\ \A i \in 1..Len(s) : s[i] = Append(t, e)[i]
  BY <1>1, <1>2, <1>3
<1>5. QED
  BY <1>2, <1>4, PrefixPointwise

LEMMA PrefixConcat ==
    ASSUME NEW S, NEW s \in Seq(S), NEW t \in Seq(S), NEW u \in Seq(S)
    PROVE  /\ IsPrefix(s, s \o t)
           /\ IsPrefix(s \o t, u) => IsPrefix(s, u)
<1>1. /\ s \o t \in Seq(S) /\ Len(s \o t) = Len(s) + Len(t)
      /\ \A i \in 1..Len(s) : (s \o t)[i] = s[i]
  BY ConcatProperties
<1>2. Len(s) \in Nat /\ Len(t) \in Nat /\ Len(u) \in Nat
  BY LenProperties
<1>3. IsPrefix(s, s \o t)
  <2>1. Len(s) <= Len(s \o t) /\ \A i \in 1..Len(s) : s[i] = (s \o t)[i]
    BY <1>1, <1>2
  <2>2. QED
    BY <1>1, <2>1, PrefixPointwise
<1>4. ASSUME IsPrefix(s \o t, u) PROVE IsPrefix(s, u)
  <2>1. Len(s \o t) <= Len(u) /\ \A i \in 1..Len(s \o t) : (s \o t)[i] = u[i]
    BY <1>1, <1>4, PrefixPointwise, ZenonT(30)
  <2>2. Len(s) <= Len(u) /\ \A i \in 1..Len(s) : s[i] = u[i]
    BY <1>1, <1>2, <2>1
  <2>3. QED
    BY <2>2, PrefixPointwise
<1>5. QED
  BY <1>3, <1>4

\* Writing the first n records of a buffer moves them from one side to the other.
LEMMA PrefixMove ==
    ASSUME NEW S, NEW s \in Seq(S), NEW b \in Seq(S), NEW n \in 0..Len(b)
    PROVE  /\ SubSeq(b, 1, n) \in Seq(S) /\ SubSeq(b, n + 1, Len(b)) \in Seq(S)
           /\ s \o SubSeq(b, 1, n) \in Seq(S)
           /\ (s \o SubSeq(b, 1, n)) \o SubSeq(b, n + 1, Len(b)) = s \o b
<1>1. Len(b) \in Nat /\ n \in Nat /\ n <= Len(b)
  BY LenProperties
<1>2. SubSeq(b, 1, n) \o SubSeq(b, n + 1, Len(b)) = SubSeq(b, 1, Len(b))
  <2>1. 1 \in 1..Len(b) + 1 /\ n \in 1 - 1..Len(b) /\ Len(b) \in n..Len(b)
    BY <1>1
  <2>2. QED
    BY <2>1, ConcatAdjacentSubSeq
<1>3. SubSeq(b, 1, Len(b)) = b
  BY SubSeqFull
<1>4. SubSeq(b, 1, n) \in Seq(S) /\ SubSeq(b, n + 1, Len(b)) \in Seq(S)
  BY <1>1
<1> DEFINE x == SubSeq(b, 1, n)
           y == SubSeq(b, n + 1, Len(b))
<1>5. x \in Seq(S) /\ y \in Seq(S) /\ x \o y = b
  BY <1>2, <1>3, <1>4
<1> HIDE DEF x, y
<1>6. (s \o x) \o y = s \o (x \o y)
  <2>1. x \in Seq(S) /\ y \in Seq(S)
    BY <1>5
  <2>2. QED
    BY <2>1, ConcatAssociative
<1>7. (s \o x) \in Seq(S) /\ (s \o x) \o y = s \o b
  BY <1>5, <1>6, ConcatProperties
<1>8. QED
  BY <1>4, <1>7 DEF x, y

LEMMA RangeSeq ==
    ASSUME NEW S, NEW s \in Seq(S), NEW t \in Seq(S), NEW e
    PROVE  /\ e \in Range(s) <=> \E i \in 1..Len(s) : s[i] = e
           /\ e \notin Range(s) /\ e \notin Range(t) => e \notin Range(s \o t)
<1>1. e \in Range(s) <=> \E i \in 1..Len(s) : s[i] = e
  BY LenProperties DEF Range
<1>2. Range(s \o t) = Range(s) \cup Range(t)
  BY RangeConcatenation
<1>3. QED
  BY <1>1, <1>2
-----------------------------------------------------------------------------
(* The initial states. *)

LEMMA InitIInv == Init => IInv
<1> SUFFICES ASSUME Init PROVE IInv
  OBVIOUS
<1>1. /\ Live = {} /\ DOMAIN send_cache_ = {} /\ Open = {}
      /\ updateds = {} /\ writable = {} /\ partial = {} /\ dying = {} /\ mid = {} /\ cut = {}
      /\ pc = "top" /\ reported = {}
  BY DEF Init, Open, Live
<1>2. \A c \in 1..MaxConns : sent[c] = <<>> /\ given[c] = <<>>
  BY DEF Init
<1>3. TypeOK
  <2>1. MaxConns \in Nat /\ MaxMsgs \in Nat /\ MaxPieces \in Nat
    BY ServerAssumption
  <2>2. <<>> \in Seq(0..MaxMsgs)
    OBVIOUS
  <2>3. /\ sent \in [1..MaxConns -> Seq(0..MaxMsgs)] /\ given \in [1..MaxConns -> Seq(0..MaxMsgs)]
    BY <2>2 DEF Init
  <2>4. /\ conn \in [Wsis -> 0..MaxConns]
        /\ conns \in 0..MaxConns /\ msgs \in 0..MaxMsgs /\ pieces \in 0..MaxPieces
    BY <2>1 DEF Init
  <2>5. QED
    BY <1>1, <2>3, <2>4, ZenonT(30) DEF TypeOK, Init
<1>4. EntriesSound
  BY <1>1, <1>3 DEF EntriesSound
<1>5. Turns
  BY <1>1 DEF Turns
<1>6. Named
  <2>1. \A w \in Wsis : conn[w] = 0
    BY DEF Init
  <2>2. conns = 0
    BY DEF Init
  <2>3. QED
    BY <1>1, <1>2, <2>1, <2>2 DEF Named
<1>7. NothingForgotten /\ Headed
  BY <1>1 DEF NothingForgotten, Headed
<1>8. PrefixSent
  <2>1. ASSUME NEW c \in 1..MaxConns
        PROVE  IsPrefix(given[c], sent[c]) /\ Close \notin Range(given[c])
    <3>1. <<>> \in Seq(0..MaxMsgs) /\ Len(<<>>) = 0
      OBVIOUS
    <3>2. IsPrefix(<<>>, <<>>)
      BY <3>1 DEF IsPrefix
    <3>3. Close \notin Range(<<>>)
      BY DEF Range
    <3>4. QED
      BY <1>2, <3>2, <3>3
  <2>2. QED
    BY <1>1, <2>1 DEF PrefixSent
<1>9. QED
  BY <1>4, <1>5, <1>6, <1>7, <1>8 DEF IInv
-----------------------------------------------------------------------------
(* What the actions do to the entries and to libwebsockets' sets. *)

Item == [sendBuf_ : Seq(0..MaxMsgs), size : Nat, updated_ : BOOLEAN, sending_ : BOOLEAN]
InOut == [send_ : Seq(0..MaxMsgs), bframe_ : BOOLEAN, held : Nat]

LEMMA Typed ==
    ASSUME EntriesSound
    PROVE  /\ DOMAIN send_cache_ = Live /\ Live \subseteq Open /\ Open \subseteq Wsis
           /\ \A w \in Live : send_cache_[w] \in Item /\ send_cache_[w].size <= CacheMax + HeadSize
           /\ \A w \in Live : inout[w] \in InOut
           /\ \A w \in Open : conn[w] \in 1..MaxConns
           /\ conn \in [Wsis -> 0..MaxConns]
           /\ sent \in [1..MaxConns -> Seq(0..MaxMsgs)]
           /\ given \in [1..MaxConns -> Seq(0..MaxMsgs)]
           /\ cut \subseteq 1..MaxConns
           /\ CacheMax \in Nat /\ HeadSize \in Nat /\ Pre \in Nat /\ MaxConns \in Nat
           /\ MaxMsgs \in Nat /\ MaxPieces \in Nat
<1>1. CacheMax \in Nat /\ HeadSize \in Nat /\ Pre \in Nat /\ MaxConns \in Nat
      /\ MaxMsgs \in Nat /\ MaxPieces \in Nat
  BY ServerAssumption
<1>2. /\ DOMAIN send_cache_ = Live /\ Live \subseteq Open /\ Open \subseteq Wsis
      /\ \A w \in Live : send_cache_[w].size <= CacheMax + HeadSize
  BY DEF EntriesSound, Open
<1>3. /\ \A w \in Live : send_cache_[w] \in Item
      /\ \A w \in Live : inout[w] \in InOut
  BY <1>2 DEF EntriesSound, TypeOK, Item, InOut
<1>4. /\ sent \in [1..MaxConns -> Seq(0..MaxMsgs)] /\ given \in [1..MaxConns -> Seq(0..MaxMsgs)]
      /\ cut \subseteq 1..MaxConns /\ conn \in [Wsis -> 0..MaxConns]
  BY DEF EntriesSound, TypeOK
<1>5. \A w \in Open : conn[w] \in 1..MaxConns
  BY <1>1, <1>4 DEF Open
<1>6. QED
  BY <1>1, <1>2, <1>3, <1>4, <1>5

\* A call of MetaSend: the entry takes one record more, or the Close alone.
Accepted(w, rec) ==
  /\ w \in Live /\ rec \in 0..MaxMsgs
  /\ DOMAIN send_cache_' = DOMAIN send_cache_
  /\ \A v \in Live \ {w} : send_cache_'[v] = send_cache_[v]
  /\ send_cache_'[w] \in Item /\ send_cache_'[w].size <= CacheMax + HeadSize
  /\ send_cache_'[w].sending_ = send_cache_[w].sending_
  /\ ~send_cache_[w].sending_ => send_cache_'[w].updated_
  /\ server_updated_' = TRUE
  /\ sent' = [sent EXCEPT ![conn[w]] = Append(@, rec)]
  /\ \/ /\ cut' = cut \cup {conn[w]}
        /\ send_cache_'[w].sendBuf_ = <<Close>>
     \/ /\ cut' = cut
        /\ send_cache_'[w].sendBuf_ = Append(send_cache_[w].sendBuf_, rec)
  /\ msgs' \in 0..MaxMsgs
  /\ UNCHANGED <<stopped_, pc, updateds, inout, lws, conn, conns, pieces, given, reported>>

LEMMA MetaSendAccepts ==
    ASSUME EntriesSound, NEW w \in Live, NEW len \in Nat, NEW rec \in 0..MaxMsgs,
           MetaSend(w, len, rec)
    PROVE  /\ DOMAIN send_cache_' = DOMAIN send_cache_
           /\ \A v \in Live \ {w} : send_cache_'[v] = send_cache_[v]
           /\ send_cache_'[w] \in Item /\ send_cache_'[w].size <= CacheMax + HeadSize
           /\ send_cache_'[w].sending_ = send_cache_[w].sending_
           /\ ~send_cache_[w].sending_ => send_cache_'[w].updated_
           /\ \/ /\ cut' = cut \cup {conn[w]}
                 /\ send_cache_'[w].sendBuf_ = <<Close>>
              \/ /\ cut' = cut
                 /\ send_cache_'[w].sendBuf_ = Append(send_cache_[w].sendBuf_, rec)
<1> DEFINE item == send_cache_[w]
<1>1. /\ item \in Item /\ CacheMax \in Nat /\ HeadSize \in Nat /\ Pre \in Nat
      /\ MaxMsgs \in Nat /\ w \in DOMAIN send_cache_ /\ DOMAIN send_cache_ = Live
      /\ HeadSize + Pre <= CacheMax
  BY Typed, ServerAssumption
<1>2. CASE item.size + len + Pre > CacheMax
  <2> DEFINE new == [sendBuf_ |-> Append(<<>>, Close), size |-> 0 + (HeadSize + Pre + 0),
                     updated_ |-> item.updated_ \/ ~item.sending_, sending_ |-> item.sending_]
  <2>1. send_cache_' = [send_cache_ EXCEPT ![w] = new] /\ cut' = cut \cup {conn[w]}
    BY <1>2 DEF MetaSend
  <2>2. /\ new.sendBuf_ = <<Close>> /\ new.size = HeadSize + Pre
        /\ new.sending_ = item.sending_ /\ (~item.sending_ => new.updated_)
    <3>1. 0 + (HeadSize + Pre + 0) = HeadSize + Pre /\ Append(<<>>, Close) = <<Close>>
      BY <1>1
    <3>2. item.updated_ \in BOOLEAN /\ item.sending_ \in BOOLEAN
      BY <1>1 DEF Item
    <3>3. QED
      BY <3>1, <3>2
  <2>3. new \in Item
    BY <1>1 DEF Item, Close
  <2> HIDE DEF new
  <2>4. /\ DOMAIN send_cache_' = DOMAIN send_cache_ /\ send_cache_'[w] = new
        /\ \A v \in Live \ {w} : send_cache_'[v] = send_cache_[v]
    BY <1>1, <2>1
  <2>5. new.size <= CacheMax + HeadSize
    BY <1>1, <2>2
  <2>6. QED
    BY <2>1, <2>2, <2>3, <2>4, <2>5
<1>3. CASE ~(item.size + len + Pre > CacheMax)
  <2> DEFINE new == [sendBuf_ |-> Append(item.sendBuf_, rec),
                     size |-> item.size + (HeadSize + Pre + len),
                     updated_ |-> item.updated_ \/ ~item.sending_, sending_ |-> item.sending_]
  <2>1. send_cache_' = [send_cache_ EXCEPT ![w] = new] /\ cut' = cut
    BY <1>3 DEF MetaSend
  <2>2. /\ new.sendBuf_ = Append(item.sendBuf_, rec)
        /\ new.size = item.size + (HeadSize + Pre + len)
        /\ new.sending_ = item.sending_ /\ (~item.sending_ => new.updated_)
    BY <1>1
  <2>3. item.size \in Nat /\ item.sendBuf_ \in Seq(0..MaxMsgs)
        /\ item.updated_ \in BOOLEAN /\ item.sending_ \in BOOLEAN
    BY <1>1 DEF Item
  <2>4. new \in Item
    BY <1>1, <2>3, AppendProperties DEF Item
  <2> HIDE DEF new
  <2>5. /\ DOMAIN send_cache_' = DOMAIN send_cache_ /\ send_cache_'[w] = new
        /\ \A v \in Live \ {w} : send_cache_'[v] = send_cache_[v]
    BY <1>1, <2>1
  <2>6. new.size <= CacheMax + HeadSize
    BY <1>1, <1>3, <2>2, <2>3
  <2>7. QED
    BY <2>1, <2>2, <2>4, <2>5, <2>6
<1>4. QED
  BY <1>2, <1>3

LEMMA SendAccepted ==
    ASSUME EntriesSound, NEW w \in Wsis, Send(w) \/ CloseConnection(w)
    PROVE  \E rec \in 0..MaxMsgs : Accepted(w, rec)
<1>1. /\ w \in Live /\ msgs \in 0..MaxMsgs /\ MaxMsgs \in Nat
      /\ msgs < MaxMsgs /\ msgs' = msgs + 1
      /\ UNCHANGED <<stopped_, pc, updateds, inout, lws, conn, conns, pieces, given, reported>>
  BY Typed DEF Send, CloseConnection, EntriesSound, TypeOK
<1>2. PICK len \in Nat, rec \in 0..MaxMsgs : MetaSend(w, len, rec)
  <2>1. CASE Send(w)
    <3>1. PICK len \in Lens : MetaSend(w, len, msgs + 1)
      BY <2>1 DEF Send
    <3>2. len \in Nat /\ msgs + 1 \in 0..MaxMsgs
      BY <1>1, ServerAssumption
    <3>3. QED
      BY <3>1, <3>2
  <2>2. CASE CloseConnection(w)
    BY <1>1, <2>2 DEF CloseConnection, Close
  <2>3. QED
    BY <2>1, <2>2
<1>3. /\ server_updated_' = TRUE /\ sent' = [sent EXCEPT ![conn[w]] = Append(@, rec)]
  BY <1>2 DEF MetaSend
<1>4. msgs' \in 0..MaxMsgs
  BY <1>1
<1>5. Accepted(w, rec)
  BY <1>1, <1>2, <1>3, <1>4, MetaSendAccepts DEF Accepted
<1>6. QED
  BY <1>5

\* The WRITEABLE callback: the records it finds, what it takes out of the
\* entry, and the first n of them written.
Buf(w) == IF inout[w].send_ = <<>> THEN send_cache_[w].sendBuf_ ELSE inout[w].send_

Taken(w) ==
  /\ DOMAIN send_cache_' = DOMAIN send_cache_
  /\ \A v \in Live \ {w} : send_cache_'[v] = send_cache_[v]
  /\ send_cache_'[w] \in Item /\ send_cache_'[w].size <= CacheMax + HeadSize
  /\ \/ /\ inout[w].send_ # <<>> /\ send_cache_' = send_cache_
     \/ /\ inout[w].send_ = <<>> /\ send_cache_'[w].sendBuf_ = <<>>
        /\ send_cache_'[w].sending_ = (Buf(w) # <<>>)

Wrote(w, n) ==
  /\ n \in 0..Len(Buf(w)) /\ Close \notin Range(SubSeq(Buf(w), 1, n))
  /\ given' = [given EXCEPT ![conn[w]] = @ \o SubSeq(Buf(w), 1, n)]

Emptied(w) ==
  /\ Buf(w) = <<>> /\ writable' = writable \ {w}
  /\ UNCHANGED <<inout, given, partial, dying>>

Ended(w) ==
  /\ dying' = {w} /\ writable' = writable \ {w} /\ UNCHANGED <<inout, partial>>
  /\ given' = given \/ \E n \in Nat : Wrote(w, n)

Written(w) ==
  /\ UNCHANGED dying
  /\ \/ partial' = partial \cup {w} /\ writable' = writable \ {w}
     \/ UNCHANGED <<partial, writable>>
  /\ \E n \in Nat :
       /\ Wrote(w, n) /\ (n > 0 \/ n = Len(Buf(w)))
       /\ inout' = [inout EXCEPT ![w].send_ = SubSeq(Buf(w), n + 1, Len(Buf(w)))]

LEMMA WriteableCases ==
    ASSUME EntriesSound, NEW w \in Wsis, Writeable(w)
    PROVE  /\ pc = "service" /\ dying = {} /\ w \in writable /\ w \notin partial
           /\ UNCHANGED <<server_updated_, stopped_, pc, updateds, mid, count, sent, cut, reported>>
           /\ \/ /\ w \notin Live /\ writable' = writable \ {w}
                 /\ UNCHANGED <<send_cache_, inout, given, partial, dying>>
              \/ /\ w \in Live /\ Taken(w)
                 /\ Emptied(w) \/ Ended(w) \/ Written(w)
<1>1. /\ pc = "service" /\ dying = {} /\ w \in writable /\ w \notin partial
      /\ UNCHANGED <<server_updated_, stopped_, pc, updateds, mid, count, sent, cut, reported>>
  BY DEF Writeable, Serving, InService
<1>2. CASE w \notin Live
  BY <1>1, <1>2 DEF Writeable
<1>3. CASE w \in Live
  <2> DEFINE item == send_cache_[w]
             take == inout[w].send_ = <<>>
             left == [send_cache_ EXCEPT ![w].sendBuf_ = <<>>, ![w].size = 0,
                                         ![w].sending_ = Buf(w) # <<>>]
  <2>1. /\ w \in DOMAIN send_cache_ /\ DOMAIN send_cache_ = Live /\ item \in Item
        /\ item.size <= CacheMax + HeadSize /\ inout[w] \in InOut
        /\ CacheMax + HeadSize \in Nat
    BY <1>3, Typed
  <2>2. Buf(w) \in Seq(0..MaxMsgs)
    BY <2>1 DEF Buf, Item, InOut
  <2>3. /\ send_cache_' = IF take THEN left ELSE send_cache_
        /\ IF Buf(w) = <<>>
           THEN writable' = writable \ {w} /\ UNCHANGED <<inout, given, partial, dying>>
           ELSE IF take /\ send_cache_[w].size > CacheMax
           THEN /\ writable' = writable \ {w} /\ dying' = {w}
                /\ UNCHANGED <<inout, given, partial>>
           ELSE \E n \in 0..Len(Buf(w)) : \/ \E b \in BOOLEAN : Write(w, Buf(w), n, b)
                                          \/ WriteToClose(w, Buf(w), n)
    <3>1. CASE take
      <4>1. Buf(w) = send_cache_[w].sendBuf_
        BY <3>1 DEF Buf
      <4>2. QED
        BY <1>3, <2>1, <3>1, <4>1 DEF Writeable
    <3>2. CASE ~take
      <4>1. Buf(w) = inout[w].send_
        BY <3>2 DEF Buf
      <4>2. QED
        BY <1>3, <2>1, <3>2, <4>1 DEF Writeable
    <3>3. QED
      BY <3>1, <3>2
  <2>4. Taken(w)
    <3>1. CASE take
      <4> DEFINE nb == (Buf(w) # <<>>)
      <4>1. nb \in BOOLEAN
        OBVIOUS
      <4>2. send_cache_' = [send_cache_ EXCEPT ![w] =
                              [item EXCEPT !.sendBuf_ = <<>>, !.size = 0, !.sending_ = nb]]
        BY <2>3, <3>1
      <4> HIDE DEF nb
      <4> DEFINE new == [item EXCEPT !.sendBuf_ = <<>>, !.size = 0, !.sending_ = nb]
      <4>3. /\ new \in Item /\ new.sendBuf_ = <<>> /\ new.size = 0 /\ new.sending_ = nb
        <5>1. item \in Item
          BY <2>1
        <5>2. <<>> \in Seq(0..MaxMsgs) /\ 0 \in Nat
          OBVIOUS
        <5> HIDE DEF item
        <5>3. QED
          BY <4>1, <5>1, <5>2 DEF Item
      <4> HIDE DEF new
      <4>4. /\ DOMAIN send_cache_' = DOMAIN send_cache_ /\ send_cache_'[w] = new
            /\ \A v \in Live \ {w} : send_cache_'[v] = send_cache_[v]
        BY <2>1, <4>2 DEF new
      <4>5. new.size <= CacheMax + HeadSize
        BY <2>1, <4>3
      <4>6. QED
        BY <3>1, <4>3, <4>4, <4>5 DEF Taken, nb
    <3>2. CASE ~take
      BY <2>1, <2>3, <3>2 DEF Taken
    <3>3. QED
      BY <3>1, <3>2
  <2>5. CASE Buf(w) = <<>>
    BY <1>1, <1>3, <2>3, <2>4, <2>5 DEF Emptied
  <2>6. CASE Buf(w) # <<>> /\ take /\ send_cache_[w].size > CacheMax
    BY <1>1, <1>3, <2>3, <2>4, <2>6 DEF Ended
  <2>7. CASE Buf(w) # <<>> /\ ~(take /\ send_cache_[w].size > CacheMax)
    <3>1. PICK n \in 0..Len(Buf(w)) : \/ \E b \in BOOLEAN : Write(w, Buf(w), n, b)
                                      \/ WriteToClose(w, Buf(w), n)
      BY <2>3, <2>7
    <3>2. n \in Nat /\ Len(Buf(w)) \in Nat
      BY <2>2, <3>1, LenProperties
    <3>3. Wrote(w, n)
      BY <3>1, <3>2 DEF Wrote, Write, WriteToClose
    <3>4. CASE \E b \in BOOLEAN : Write(w, Buf(w), n, b)
      <4>1. Written(w)
        BY <3>2, <3>3, <3>4 DEF Write, Written
      <4>2. QED
        BY <1>1, <1>3, <2>4, <4>1
    <3>5. CASE WriteToClose(w, Buf(w), n)
      <4>1. Ended(w)
        BY <3>2, <3>3, <3>5 DEF WriteToClose, Ended
      <4>2. QED
        BY <1>1, <1>3, <2>4, <4>1
    <3>6. QED
      BY <3>1, <3>4, <3>5
  <2>8. QED
    BY <2>5, <2>6, <2>7
<1>4. QED
  BY <1>2, <1>3
-----------------------------------------------------------------------------
(* Types, and the agreement of the maps. *)

Maps ==
  /\ DOMAIN send_cache_ = Live /\ Live \subseteq Open
  /\ \A w \in Live : /\ send_cache_[w] \in Item /\ send_cache_[w].size <= CacheMax + HeadSize
                     /\ inout[w] \in InOut

Sets == {updateds, writable, partial, dying} \subseteq SUBSET Open

Control ==
  /\ server_updated_ \in BOOLEAN /\ stopped_ \in BOOLEAN
  /\ pc \in {"top", "collect", "ask", "service", "ended"} /\ mid \subseteq Wsis

History ==
  /\ conn \in [Wsis -> 0..MaxConns]
  /\ conns \in 0..MaxConns /\ msgs \in 0..MaxMsgs /\ pieces \in 0..MaxPieces
  /\ sent \in [1..MaxConns -> Seq(0..MaxMsgs)] /\ given \in [1..MaxConns -> Seq(0..MaxMsgs)]
  /\ cut \subseteq 1..MaxConns

LEMMA SoundParts == EntriesSound <=> Maps /\ Sets /\ Control /\ History
<1>1. Open \subseteq Wsis
  BY DEF Open
<1>2. ASSUME EntriesSound PROVE Maps /\ Sets /\ Control /\ History
  <2>1. Maps
    BY <1>2, Typed DEF Maps
  <2>2. Sets
    BY <1>2 DEF EntriesSound, Sets
  <2>3. Control /\ History
    BY <1>2 DEF EntriesSound, TypeOK, Control, History
  <2>4. QED
    BY <2>1, <2>2, <2>3
<1>3. ASSUME Maps, Sets, Control, History PROVE EntriesSound
  <2>1. TypeOK
    BY <1>1, <1>3 DEF TypeOK, Maps, Sets, Control, History, Item, InOut
  <2>2. QED
    BY <1>3, <2>1 DEF EntriesSound, Maps, Sets
<1>4. QED
  BY <1>2, <1>3

LEMMA NextControl == IInv /\ [Next]_vars => Control'
<1> SUFFICES ASSUME IInv, [Next]_vars PROVE Control'
  OBVIOUS
<1>1. Control
  BY SoundParts DEF IInv
<1>2. CASE Stop \/ Top \/ Collect \/ Ask \/ Serviced
  BY <1>1, <1>2 DEF Stop, Top, Collect, Ask, Serviced, Control, app, lws
<1>3. ASSUME NEW w \in Wsis, Send(w) \/ CloseConnection(w) PROVE Control'
  <2>1. PICK rec \in 0..MaxMsgs : Accepted(w, rec)
    BY <1>3, SendAccepted DEF IInv
  <2>2. QED
    BY <1>1, <2>1 DEF Accepted, Control, lws
<1>4. ASSUME NEW w \in Wsis, Callback(w) PROVE Control'
  <2>1. CASE Established(w) \/ Flushed(w) \/ PeerGone(w) \/ Destroy(w)
    BY <1>1, <2>1
       DEF Established, Flushed, PeerGone, Destroy, InService, Control, lws, app
  <2>2. CASE Writeable(w)
    BY <1>1, <2>2 DEF Writeable, InService, Control
  <2>3. ASSUME NEW final \in BOOLEAN, NEW rest \in {"none", "some", "excess"},
               Receive(w, final, rest)
        PROVE  Control'
    BY <1>1, <2>3 DEF Receive, InService, Control
  <2>4. QED
    BY <1>4, <2>1, <2>2, <2>3 DEF Callback
<1>5. CASE UNCHANGED vars
  BY <1>1, <1>5 DEF Control, vars, app, lws
<1>6. QED
  BY <1>2, <1>3, <1>4, <1>5 DEF Next

LEMMA NextHistory == IInv /\ [Next]_vars => History'
<1> SUFFICES ASSUME IInv, [Next]_vars PROVE History'
  OBVIOUS
<1>1. /\ EntriesSound /\ History /\ MaxConns \in Nat /\ MaxMsgs \in Nat /\ MaxPieces \in Nat
  BY SoundParts, ServerAssumption DEF IInv
<1>2. CASE Stop \/ Top \/ Collect \/ Ask \/ Serviced
  BY <1>1, <1>2 DEF Stop, Top, Collect, Ask, Serviced, History, count, seen
<1>3. ASSUME NEW w \in Wsis, Send(w) \/ CloseConnection(w) PROVE History'
  <2>1. PICK rec \in 0..MaxMsgs : Accepted(w, rec)
    BY <1>1, <1>3, SendAccepted
  <2>2. conn[w] \in 1..MaxConns
    BY <1>1, <2>1, Typed DEF Accepted
  <2>3. Append(sent[conn[w]], rec) \in Seq(0..MaxMsgs)
    BY <1>1, <2>2, AppendProperties DEF History
  <2>4. sent' \in [1..MaxConns -> Seq(0..MaxMsgs)]
    BY <1>1, <2>1, <2>3 DEF Accepted, History
  <2>5. cut' \subseteq 1..MaxConns /\ msgs' \in 0..MaxMsgs
    BY <1>1, <2>1, <2>2 DEF Accepted, History
  <2>6. UNCHANGED <<conn, conns, pieces, given>>
    BY <2>1 DEF Accepted
  <2>7. QED
    BY <1>1, <2>4, <2>5, <2>6 DEF History
<1>4. ASSUME NEW w \in Wsis, Callback(w) PROVE History'
  <2>1. CASE Established(w)
    <3>1. /\ conns < MaxConns /\ conns' = conns + 1 /\ conn' = [conn EXCEPT ![w] = conns']
          /\ UNCHANGED <<msgs, pieces, sent, given, cut>>
      BY <2>1 DEF Established, seen
    <3>2. conns' \in 0..MaxConns
      BY <1>1, <3>1 DEF History
    <3>3. QED
      BY <1>1, <3>1, <3>2 DEF History
  <2>2. CASE Destroy(w)
    <3>1. conn' = [conn EXCEPT ![w] = 0] /\ UNCHANGED <<conns, msgs, pieces, sent, given, cut>>
      BY <2>2 DEF Destroy, seen
    <3>2. QED
      BY <1>1, <3>1 DEF History
  <2>3. CASE Flushed(w) \/ PeerGone(w)
    BY <1>1, <2>3 DEF Flushed, PeerGone, History, count, seen
  <2>4. CASE Writeable(w)
    <3>1. UNCHANGED <<conn, conns, msgs, pieces, sent, cut>>
      BY <2>4 DEF Writeable, count
    <3>2. given' \in [1..MaxConns -> Seq(0..MaxMsgs)]
      <4>1. CASE given' = given
        BY <1>1, <4>1 DEF History
      <4>2. CASE w \in Live /\ \E n \in Nat : Wrote(w, n)
        <5>1. PICK n \in Nat : Wrote(w, n)
          BY <4>2
        <5>2. conn[w] \in 1..MaxConns /\ Buf(w) \in Seq(0..MaxMsgs)
          BY <1>1, <4>2, Typed DEF Buf, Item, InOut
        <5>3. given[conn[w]] \in Seq(0..MaxMsgs) /\ n \in 0..Len(Buf(w))
          BY <1>1, <5>1, <5>2 DEF History, Wrote
        <5>4. given[conn[w]] \o SubSeq(Buf(w), 1, n) \in Seq(0..MaxMsgs)
          BY <5>2, <5>3, PrefixMove
        <5>5. QED
          BY <1>1, <5>1, <5>4 DEF History, Wrote
      <4>3. QED
        BY <1>1, <2>4, <4>1, <4>2, WriteableCases DEF Emptied, Ended, Written
    <3>3. QED
      BY <1>1, <3>1, <3>2 DEF History
  <2>5. ASSUME NEW final \in BOOLEAN, NEW rest \in {"none", "some", "excess"},
               Receive(w, final, rest)
        PROVE  History'
    <3>1. /\ pieces < MaxPieces /\ pieces' = pieces + 1
          /\ UNCHANGED <<conn, conns, msgs, sent, given, cut>>
      BY <2>5 DEF Receive
    <3>2. pieces' \in 0..MaxPieces
      <4>1. pieces \in 0..MaxPieces /\ MaxPieces \in Nat
        BY <1>1 DEF History
      <4>2. QED
        BY <3>1, <4>1
    <3>3. QED
      BY <1>1, <3>1, <3>2 DEF History
  <2>6. QED
    BY <1>4, <2>1, <2>2, <2>3, <2>4, <2>5 DEF Callback
<1>5. CASE UNCHANGED vars
  BY <1>1, <1>5 DEF History, vars, count, seen
<1>6. QED
  BY <1>2, <1>3, <1>4, <1>5 DEF Next

LEMMA NextSets == IInv /\ [Next]_vars => Sets'
<1> SUFFICES ASSUME IInv, [Next]_vars PROVE Sets'
  OBVIOUS
<1>1. /\ EntriesSound /\ Sets /\ Turns /\ Open \subseteq Wsis /\ Live \subseteq Open
      /\ DOMAIN send_cache_ = Live
  BY SoundParts, Typed DEF IInv
<1>2. CASE Stop \/ Top \/ Serviced
  BY <1>1, <1>2 DEF Stop, Top, Serviced, Sets, Open, lws, count
<1>3. CASE Collect
  <2>1. updateds' \subseteq DOMAIN send_cache_ /\ UNCHANGED <<lws, conn>>
    BY <1>3 DEF Collect, count
  <2>2. QED
    BY <1>1, <2>1 DEF Sets, Open, lws
<1>4. CASE Ask
  <2>1. /\ writable' = writable \cup updateds /\ updateds' = {}
        /\ UNCHANGED <<partial, dying, conn>>
    BY <1>4 DEF Ask, count
  <2>2. QED
    BY <1>1, <2>1 DEF Sets, Open
<1>5. ASSUME NEW w \in Wsis, Send(w) \/ CloseConnection(w) PROVE Sets'
  BY <1>1, <1>5 DEF Send, CloseConnection, lws, Sets, Open
<1>6. ASSUME NEW w \in Wsis, Callback(w) PROVE Sets'
  <2>1. CASE Established(w)
    <3>1. /\ conn' = [conn EXCEPT ![w] = conns'] /\ conns' = conns + 1
          /\ UNCHANGED <<updateds, lws>>
      BY <2>1 DEF Established, InService
    <3>2. conns \in Nat /\ DOMAIN conn = Wsis
      BY <1>1, SoundParts DEF History
    <3>3. conn'[w] # 0 /\ \A v \in Wsis \ {w} : conn'[v] = conn[v]
      BY <3>1, <3>2
    <3>4. Open \subseteq Open'
      BY <1>1, <3>3 DEF Open
    <3>5. QED
      BY <1>1, <3>1, <3>4 DEF Sets, lws
  <2>2. CASE Destroy(w)
    <3>1. /\ conn' = [conn EXCEPT ![w] = 0] /\ dying' = {} /\ writable' = writable \ {w}
          /\ partial' = partial \ {w} /\ updateds' = updateds /\ pc = "service"
      BY <2>2 DEF Destroy, InService
    <3>2. DOMAIN conn = Wsis /\ updateds = {}
      BY <1>1, <3>1, SoundParts DEF History, Turns
    <3>3. Open' = Open \ {w}
      BY <3>1, <3>2 DEF Open
    <3>4. QED
      BY <1>1, <3>1, <3>2, <3>3 DEF Sets
  <2>3. CASE Flushed(w)
    <3>1. /\ partial' \subseteq partial /\ writable' \subseteq writable \cup {w} /\ w \in partial
          /\ UNCHANGED <<updateds, dying, conn>>
      BY <2>3 DEF Flushed, InService, count
    <3>2. QED
      BY <1>1, <3>1 DEF Sets, Open
  <2>4. CASE PeerGone(w)
    <3>1. /\ w \in Open /\ dying' = {w} /\ UNCHANGED <<updateds, writable, partial, conn>>
      BY <2>4 DEF PeerGone, InService, count
    <3>2. QED
      BY <1>1, <3>1 DEF Sets, Open
  <2>5. CASE Writeable(w)
    <3>1. /\ UNCHANGED <<updateds, conn>> /\ w \in writable
          /\ writable' \subseteq writable /\ partial' \subseteq partial \cup {w}
          /\ dying' \subseteq dying \cup {w}
      BY <1>1, <2>5, WriteableCases DEF Emptied, Ended, Written, count
    <3>2. QED
      BY <1>1, <3>1 DEF Sets, Open
  <2>6. ASSUME NEW final \in BOOLEAN, NEW rest \in {"none", "some", "excess"},
               Receive(w, final, rest)
        PROVE  Sets'
    <3>1. /\ w \in Open /\ UNCHANGED <<updateds, conn, writable, partial>>
          /\ dying' = dying \/ dying' = {w}
      BY <2>6 DEF Receive, InService
    <3>2. QED
      BY <1>1, <3>1 DEF Sets, Open
  <2>7. QED
    BY <1>6, <2>1, <2>2, <2>3, <2>4, <2>5, <2>6 DEF Callback
<1>7. CASE UNCHANGED vars
  BY <1>1, <1>7 DEF Sets, Open, vars, lws, count
<1>8. QED
  BY <1>2, <1>3, <1>4, <1>5, <1>6, <1>7 DEF Next

\* A connection handed over by libwebsockets, and one taken back.
LEMMA EstablishedCases ==
    ASSUME EntriesSound, NEW w \in Wsis, Established(w)
    PROVE  /\ pc = "service" /\ dying = {} /\ w \notin Open /\ w \notin Live
           /\ Open' = Open \cup {w} /\ conns' = conns + 1 /\ conns \in Nat /\ conns' \in 1..MaxConns
           /\ conn'[w] = conns' /\ \A v \in Wsis \ {w} : conn'[v] = conn[v]
           /\ UNCHANGED <<server_updated_, stopped_, pc, updateds, lws, msgs, pieces, seen>>
           /\ \/ UNCHANGED <<inout, send_cache_>>
              \/ /\ Live' = Live \cup {w} /\ DOMAIN send_cache_' = DOMAIN send_cache_ \cup {w}
                 /\ send_cache_'[w] = EmptyItem /\ inout'[w] = EmptyInOut
                 /\ \A v \in Live : send_cache_'[v] = send_cache_[v] /\ inout'[v] = inout[v]
<1>1. /\ pc = "service" /\ dying = {} /\ conn[w] = 0 /\ conns < MaxConns
      /\ conns' = conns + 1 /\ conn' = [conn EXCEPT ![w] = conns']
      /\ UNCHANGED <<server_updated_, stopped_, pc, updateds, lws, msgs, pieces, seen>>
      /\ \/ /\ inout' = With(inout, w, EmptyInOut)
            /\ send_cache_' = With(send_cache_, w, EmptyItem)
         \/ UNCHANGED <<inout, send_cache_>>
  BY DEF Established, Serving, InService
<1>2. /\ DOMAIN conn = Wsis /\ conns \in Nat /\ MaxConns \in Nat
      /\ DOMAIN send_cache_ = Live /\ Live \subseteq Open
  BY SoundParts, Typed DEF History
<1>3. conns' \in 1..MaxConns /\ conns' # 0
  BY <1>1, <1>2
<1>4. conn'[w] = conns' /\ \A v \in Wsis \ {w} : conn'[v] = conn[v]
  BY <1>1, <1>2
<1>5. w \notin Open /\ w \notin Live /\ Open' = Open \cup {w}
  BY <1>1, <1>2, <1>3, <1>4 DEF Open
<1>6. CASE inout' = With(inout, w, EmptyInOut)
           /\ send_cache_' = With(send_cache_, w, EmptyItem)
  <2>1. /\ DOMAIN inout' = DOMAIN inout \cup {w} /\ inout'[w] = EmptyInOut
        /\ \A v \in DOMAIN inout \ {w} : inout'[v] = inout[v]
    BY <1>6 DEF With
  <2>2. /\ DOMAIN send_cache_' = DOMAIN send_cache_ \cup {w} /\ send_cache_'[w] = EmptyItem
        /\ \A v \in DOMAIN send_cache_ \ {w} : send_cache_'[v] = send_cache_[v]
    BY <1>6 DEF With
  <2>3. Live' = Live \cup {w}
    BY <2>1 DEF Live
  <2>4. QED
    BY <1>1, <1>2, <1>3, <1>4, <1>5, <2>1, <2>2, <2>3 DEF Live
<1>7. CASE UNCHANGED <<inout, send_cache_>>
  BY <1>1, <1>2, <1>3, <1>4, <1>5, <1>7
<1>8. QED
  BY <1>1, <1>6, <1>7

LEMMA DestroyCases ==
    ASSUME EntriesSound, Turns, NEW w \in Wsis, Destroy(w)
    PROVE  /\ pc = "service" /\ dying = {w} /\ dying' = {} /\ w \in Open
           /\ Open' = Open \ {w} /\ Live' = Live \ {w}
           /\ DOMAIN send_cache_' = DOMAIN send_cache_ \ {w}
           /\ \A v \in Live \ {w} : send_cache_'[v] = send_cache_[v] /\ inout'[v] = inout[v]
           /\ \A v \in Wsis \ {w} : conn'[v] = conn[v]
           /\ writable' = writable \ {w} /\ partial' = partial \ {w} /\ mid' = mid \ {w}
           /\ UNCHANGED <<server_updated_, stopped_, pc, updateds, conns, msgs, pieces, seen>>
<1>1. /\ pc = "service" /\ w \in dying /\ dying' = {} /\ conn' = [conn EXCEPT ![w] = 0]
      /\ send_cache_' = Without(send_cache_, w) /\ inout' = Without(inout, w)
      /\ writable' = writable \ {w} /\ partial' = partial \ {w} /\ mid' = mid \ {w}
      /\ UNCHANGED <<server_updated_, stopped_, pc, updateds, conns, msgs, pieces, seen>>
  BY DEF Destroy, InService
<1>2. /\ dying = {w} /\ w \in Open /\ DOMAIN conn = Wsis /\ DOMAIN send_cache_ = Live
  BY <1>1, SoundParts, Typed DEF Turns, Sets, History
<1>3. /\ Live' = Live \ {w} /\ DOMAIN send_cache_' = DOMAIN send_cache_ \ {w}
      /\ \A v \in Live \ {w} : send_cache_'[v] = send_cache_[v] /\ inout'[v] = inout[v]
  BY <1>1, <1>2 DEF Without, Live
<1>4. Open' = Open \ {w} /\ \A v \in Wsis \ {w} : conn'[v] = conn[v]
  BY <1>1, <1>2 DEF Open
<1>5. QED
  BY <1>1, <1>2, <1>3, <1>4

LEMMA CollectCases ==
    ASSUME EntriesSound, Collect
    PROVE  /\ pc = "collect" /\ pc' = "ask" /\ server_updated_' = FALSE
           /\ DOMAIN send_cache_' = DOMAIN send_cache_
           /\ \A v \in Live :
                /\ send_cache_'[v] \in Item
                /\ send_cache_'[v].sendBuf_ = send_cache_[v].sendBuf_
                /\ send_cache_'[v].size = send_cache_[v].size
                /\ send_cache_'[v].sending_ = send_cache_[v].sending_
                /\ ~send_cache_[v].sending_ /\ send_cache_[v].updated_ => v \in updateds'
           /\ UNCHANGED <<stopped_, inout, lws, count, seen>>
<1>1. /\ pc = "collect" /\ pc' = "ask" /\ server_updated_' = FALSE
      /\ updateds' = {v \in DOMAIN send_cache_ :
                        send_cache_[v].updated_ /\ ~send_cache_[v].sending_}
      /\ send_cache_' = [v \in DOMAIN send_cache_ |->
           IF v \in updateds' THEN [send_cache_[v] EXCEPT !.updated_ = FALSE] ELSE send_cache_[v]]
      /\ UNCHANGED <<stopped_, inout, lws, count, seen>>
  BY DEF Collect
<1>2. DOMAIN send_cache_ = Live /\ \A v \in Live : send_cache_[v] \in Item
  BY Typed
<1>3. DOMAIN send_cache_' = DOMAIN send_cache_
  BY <1>1
<1>4. ASSUME NEW v \in Live
      PROVE  /\ send_cache_'[v] \in Item
             /\ send_cache_'[v].sendBuf_ = send_cache_[v].sendBuf_
             /\ send_cache_'[v].size = send_cache_[v].size
             /\ send_cache_'[v].sending_ = send_cache_[v].sending_
  <2> DEFINE item == send_cache_[v]
             new == [item EXCEPT !.updated_ = FALSE]
  <2>1. send_cache_'[v] = new \/ send_cache_'[v] = item
    BY <1>1, <1>2
  <2>2. item \in Item
    BY <1>2
  <2> HIDE DEF item
  <2>3. /\ new \in Item /\ new.sendBuf_ = item.sendBuf_ /\ new.size = item.size
        /\ new.sending_ = item.sending_
    BY <2>2 DEF Item
  <2> HIDE DEF new
  <2>4. QED
    BY <2>1, <2>2, <2>3 DEF item
<1>5. \A v \in Live : ~send_cache_[v].sending_ /\ send_cache_[v].updated_ => v \in updateds'
  BY <1>1, <1>2
<1>6. QED
  BY <1>1, <1>3, <1>4, <1>5

Piece(w) == \E final \in BOOLEAN, rest \in {"none", "some", "excess"} : Receive(w, final, rest)

LEMMA PieceCases ==
    ASSUME EntriesSound, NEW w \in Wsis, Piece(w)
    PROVE  /\ pc = "service" /\ dying = {} /\ w \in Open
           /\ Live' = Live /\ mid' \subseteq mid \cup {w} /\ mid \subseteq mid' \cup {w}
           /\ \A v \in Live \ {w} : inout'[v] = inout[v]
           /\ w \in Live => inout'[w] \in InOut /\ inout'[w].send_ = inout[w].send_
           /\ UNCHANGED dying \/ dying' = {w}
           /\ UNCHANGED <<send_cache_, server_updated_, stopped_, pc, updateds, writable, partial,
                          conn, conns, msgs, sent, given, cut>>
<1>1. PICK final \in BOOLEAN, rest \in {"none", "some", "excess"} : Receive(w, final, rest)
  BY DEF Piece
<1> DEFINE first == w \notin mid
           io    == inout[w]
           held  == io.held + IF first THEN 1 ELSE 0
           ends  == final /\ rest = "none"
<1>2. /\ pc = "service" /\ dying = {} /\ w \in Open
      /\ mid' = IF ends THEN mid \ {w} ELSE mid \cup {w}
      /\ UNCHANGED <<send_cache_, server_updated_, stopped_, pc, updateds, writable, partial,
                     conn, conns, msgs, sent, given, cut>>
  BY <1>1 DEF Receive, Serving, InService
<1>3. IF w \notin Live THEN UNCHANGED <<inout, dying>>
      ELSE IF rest = "excess" THEN dying' = {w} /\ UNCHANGED inout
      ELSE /\ inout' = IF ends /\ ~first
             THEN [inout EXCEPT ![w].bframe_ = FALSE, ![w].held = 0]
             ELSE [inout EXCEPT ![w].bframe_ = io.bframe_ \/ first, ![w].held = held]
           /\ UNCHANGED dying
  BY <1>1 DEF Receive
<1>4. mid' \subseteq mid \cup {w} /\ mid \subseteq mid' \cup {w}
  BY <1>2
<1>5. CASE w \notin Live
  BY <1>2, <1>3, <1>4, <1>5 DEF Live
<1>6. CASE w \in Live /\ rest = "excess"
  <2>1. inout[w] \in InOut
    BY <1>6, Typed
  <2>2. QED
    BY <1>2, <1>3, <1>4, <1>6, <2>1 DEF Live
<1>7. CASE w \in Live /\ rest # "excess"
  <2>1. io \in InOut
    BY <1>7, Typed
  <2>2. held \in Nat /\ io.bframe_ \in BOOLEAN
    BY <2>1 DEF InOut
  <2>3. PICK b \in BOOLEAN, h \in Nat : inout' = [inout EXCEPT ![w].bframe_ = b, ![w].held = h]
    <3>1. CASE ends /\ ~first
      <4>1. inout' = [inout EXCEPT ![w].bframe_ = FALSE, ![w].held = 0]
        BY <1>3, <1>7, <3>1
      <4>2. QED
        BY <4>1
    <3>2. CASE ~(ends /\ ~first)
      <4>1. inout' = [inout EXCEPT ![w].bframe_ = io.bframe_ \/ first, ![w].held = held]
        BY <1>3, <1>7, <3>2
      <4>2. (io.bframe_ \/ first) \in BOOLEAN
        OBVIOUS
      <4> HIDE DEF io, held, first
      <4>3. QED
        BY <2>2, <4>1, <4>2
    <3>3. QED
      BY <3>1, <3>2
  <2> DEFINE new == [io EXCEPT !.bframe_ = b, !.held = h]
  <2>4. inout' = [inout EXCEPT ![w] = new]
    BY <2>3
  <2>5. new \in InOut /\ new.send_ = io.send_
    <3> HIDE DEF io
    <3>1. QED
      BY <2>1 DEF InOut
  <2> HIDE DEF new
  <2>6. /\ Live' = Live /\ inout'[w] = new /\ \A v \in Live \ {w} : inout'[v] = inout[v]
    BY <1>7, <2>4 DEF Live
  <2>7. UNCHANGED dying
    BY <1>3, <1>7
  <2>8. QED
    BY <1>2, <1>4, <2>5, <2>6, <2>7
<1>8. QED
  BY <1>5, <1>6, <1>7

LEMMA NextMaps == IInv /\ [Next]_vars => Maps'
<1> SUFFICES ASSUME IInv, [Next]_vars PROVE Maps'
  OBVIOUS
<1>1. EntriesSound /\ Turns /\ Maps
  BY SoundParts DEF IInv
<1>2. CASE UNCHANGED <<send_cache_, inout, conn>>
  BY <1>1, <1>2 DEF Maps, Live, Open
<1>3. CASE Stop \/ Top \/ Ask \/ Serviced \/ UNCHANGED vars
  BY <1>2, <1>3 DEF Stop, Top, Ask, Serviced, app, count, vars
<1>4. CASE Collect
  <2>1. Live' = Live /\ Open' = Open /\ inout' = inout
    BY <1>1, <1>4, CollectCases DEF Live, Open, count
  <2>2. DOMAIN send_cache_' = Live /\ \A w \in Live : send_cache_'[w] \in Item
           /\ send_cache_'[w].size <= CacheMax + HeadSize
    BY <1>1, <1>4, CollectCases DEF Maps
  <2>3. QED
    BY <1>1, <2>1, <2>2 DEF Maps
<1>5. ASSUME NEW w \in Wsis, Send(w) \/ CloseConnection(w) PROVE Maps'
  <2>1. PICK rec \in 0..MaxMsgs : Accepted(w, rec)
    BY <1>1, <1>5, SendAccepted
  <2>2. /\ Live' = Live /\ Open' = Open /\ inout' = inout
        /\ DOMAIN send_cache_' = DOMAIN send_cache_
        /\ \A v \in Live : send_cache_'[v] \in Item /\ send_cache_'[v].size <= CacheMax + HeadSize
    BY <1>1, <2>1 DEF Accepted, Live, Open, Maps
  <2>3. QED
    BY <1>1, <2>2 DEF Maps
<1>6. ASSUME NEW w \in Wsis, Callback(w) PROVE Maps'
  <2>1. CASE Established(w)
    <3>1. CASE UNCHANGED <<inout, send_cache_>>
      <4>1. Live' = Live /\ Open \subseteq Open'
        BY <1>1, <2>1, <3>1, EstablishedCases DEF Live
      <4>2. QED
        BY <1>1, <3>1, <4>1 DEF Maps
    <3>2. CASE /\ Live' = Live \cup {w} /\ DOMAIN send_cache_' = DOMAIN send_cache_ \cup {w}
               /\ send_cache_'[w] = EmptyItem /\ inout'[w] = EmptyInOut
               /\ \A v \in Live : send_cache_'[v] = send_cache_[v] /\ inout'[v] = inout[v]
      <4>1. EmptyItem \in Item /\ EmptyItem.size = 0 /\ EmptyInOut \in InOut
        BY DEF EmptyItem, Item, EmptyInOut, InOut
      <4>2. EmptyItem.size <= CacheMax + HeadSize
        BY <1>1, <4>1, Typed
      <4>3. Live' \subseteq Open'
        BY <1>1, <2>1, <3>2, EstablishedCases DEF Maps
      <4>4. QED
        BY <1>1, <3>2, <4>1, <4>2, <4>3 DEF Maps
    <3>3. QED
      BY <1>1, <2>1, <3>1, <3>2, EstablishedCases
  <2>2. CASE Writeable(w)
    <3>1. conn' = conn /\ Open' = Open
      BY <1>1, <2>2, WriteableCases DEF Open, count
    <3>2. CASE w \notin Live
      BY <1>1, <1>2, <2>2, <3>1, <3>2, WriteableCases
    <3>3. CASE w \in Live
      <4>1. /\ DOMAIN send_cache_' = DOMAIN send_cache_
            /\ \A v \in Live :
                 send_cache_'[v] \in Item /\ send_cache_'[v].size <= CacheMax + HeadSize
        BY <1>1, <2>2, <3>3, WriteableCases DEF Taken, Maps
      <4>2. Live' = Live /\ \A v \in Live : inout'[v] \in InOut
        <5>1. CASE inout' = inout
          BY <1>1, <5>1 DEF Live, Maps
        <5>2. CASE Written(w)
          <6>1. PICK n \in Nat :
                  /\ Wrote(w, n)
                  /\ inout' = [inout EXCEPT ![w].send_ = SubSeq(Buf(w), n + 1, Len(Buf(w)))]
            BY <5>2 DEF Written
          <6>2. Buf(w) \in Seq(0..MaxMsgs) /\ inout[w] \in InOut
            BY <1>1, <3>3, Typed DEF Buf, Item, InOut
          <6>3. SubSeq(Buf(w), n + 1, Len(Buf(w))) \in Seq(0..MaxMsgs)
            BY <6>1, <6>2, PrefixMove DEF Wrote
          <6> DEFINE rest == SubSeq(Buf(w), n + 1, Len(Buf(w)))
                     new == [inout[w] EXCEPT !.send_ = rest]
          <6>4. inout' = [inout EXCEPT ![w] = new]
            BY <6>1
          <6> HIDE DEF rest
          <6>5. new \in InOut
            BY <6>2, <6>3 DEF InOut, rest
          <6> HIDE DEF new
          <6>6. QED
            BY <1>1, <6>4, <6>5 DEF Live, Maps
        <5>3. QED
          BY <1>1, <2>2, <3>3, <5>1, <5>2, WriteableCases DEF Emptied, Ended
      <4>3. QED
        BY <1>1, <3>1, <4>1, <4>2 DEF Maps
    <3>4. QED
      BY <3>2, <3>3
  <2>3. CASE Piece(w)
    <3>1. Live' = Live /\ Open' = Open /\ UNCHANGED send_cache_
      BY <1>1, <2>3, PieceCases DEF Open
    <3>2. \A v \in Live : inout'[v] \in InOut
      BY <1>1, <2>3, PieceCases DEF Maps
    <3>3. QED
      BY <1>1, <3>1, <3>2 DEF Maps
  <2>4. CASE Flushed(w) \/ PeerGone(w)
    BY <1>2, <2>4 DEF Flushed, PeerGone, count
  <2>5. CASE Destroy(w)
    <3>1. /\ Open' = Open \ {w} /\ Live' = Live \ {w}
          /\ DOMAIN send_cache_' = DOMAIN send_cache_ \ {w}
          /\ \A v \in Live \ {w} : send_cache_'[v] = send_cache_[v] /\ inout'[v] = inout[v]
      BY <1>1, <2>5, DestroyCases
    <3>2. QED
      BY <1>1, <3>1 DEF Maps
  <2>6. QED
    BY <1>6, <2>1, <2>2, <2>3, <2>4, <2>5 DEF Callback, Piece
<1>7. QED
  BY <1>3, <1>4, <1>5, <1>6 DEF Next

LEMMA NextSound == IInv /\ [Next]_vars => EntriesSound'
<1>1. IInv /\ [Next]_vars => Maps' /\ Sets' /\ Control' /\ History'
  BY NextMaps, NextSets, NextControl, NextHistory
<1>2. Maps /\ Sets /\ Control /\ History => EntriesSound
  BY SoundParts
<1>3. (Maps /\ Sets /\ Control /\ History => EntriesSound)'
  BY <1>2, PTL
<1>4. QED
  BY <1>1, <1>3
-----------------------------------------------------------------------------
(* Turns and names. *)

LEMMA NextTurns == IInv /\ [Next]_vars => Turns'
<1> SUFFICES ASSUME IInv, [Next]_vars PROVE Turns'
  OBVIOUS
<1>1. EntriesSound /\ Turns
  BY DEF IInv
<1>2. CASE UNCHANGED <<pc, updateds, dying, mid, conn>>
  BY <1>1, <1>2 DEF Turns, Open
<1>3. CASE Stop \/ UNCHANGED vars
  BY <1>2, <1>3 DEF Stop, lws, count, vars
<1>4. CASE Top \/ Serviced \/ Ask \/ Collect
  BY <1>1, <1>4 DEF Top, Serviced, Ask, Collect, Turns, lws, count, Open
<1>5. ASSUME NEW w \in Wsis, Send(w) \/ CloseConnection(w) PROVE Turns'
  BY <1>2, <1>5 DEF Send, CloseConnection, lws
<1>6. ASSUME NEW w \in Wsis, Callback(w) PROVE Turns'
  <2>1. CASE Established(w)
    <3>1. Open \subseteq Open' /\ UNCHANGED <<pc, updateds, dying, mid>>
      BY <1>1, <2>1, EstablishedCases DEF lws
    <3>2. QED
      BY <1>1, <3>1 DEF Turns
  <2>2. CASE Writeable(w)
    <3>1. /\ pc = "service" /\ UNCHANGED <<pc, updateds, mid, conn>>
          /\ dying = {} /\ (dying' = {} \/ dying' = {w})
      BY <1>1, <2>2, WriteableCases DEF Emptied, Ended, Written, count
    <3>2. QED
      BY <1>1, <3>1 DEF Turns, Open
  <2>3. CASE Piece(w)
    <3>1. /\ pc = "service" /\ UNCHANGED <<pc, updateds, conn>> /\ w \in Open
          /\ dying = {} /\ (dying' = {} \/ dying' = {w}) /\ mid' \subseteq mid \cup {w}
      BY <1>1, <2>3, PieceCases
    <3>2. QED
      BY <1>1, <3>1 DEF Turns, Open
  <2>4. CASE Flushed(w)
    BY <1>2, <2>4 DEF Flushed, InService, count
  <2>5. CASE PeerGone(w)
    BY <1>1, <2>5 DEF PeerGone, InService, Serving, count, Turns, Open
  <2>6. CASE Destroy(w)
    <3>1. /\ pc = "service" /\ UNCHANGED <<pc, updateds>> /\ Open' = Open \ {w}
          /\ dying' = {} /\ mid' = mid \ {w}
      BY <1>1, <2>6, DestroyCases
    <3>2. QED
      BY <1>1, <3>1 DEF Turns
  <2>7. QED
    BY <1>6, <2>1, <2>2, <2>3, <2>4, <2>5, <2>6 DEF Callback, Piece
<1>7. QED
  BY <1>3, <1>4, <1>5, <1>6 DEF Next

LEMMA NextNamed == IInv /\ [Next]_vars => Named'
<1> SUFFICES ASSUME IInv, [Next]_vars PROVE Named'
  OBVIOUS
<1>1. /\ EntriesSound /\ Turns /\ Named /\ Open \subseteq Wsis
      /\ \A w \in Open : conn[w] \in 1..MaxConns
      /\ sent \in [1..MaxConns -> Seq(0..MaxMsgs)] /\ given \in [1..MaxConns -> Seq(0..MaxMsgs)]
      /\ conns \in 0..MaxConns /\ conns \in Nat /\ MaxConns \in Nat
      /\ \A w \in Wsis : conn[w] \in Nat
  <2>1. conns \in 0..MaxConns /\ MaxConns \in Nat /\ conn \in [Wsis -> 0..MaxConns]
    BY SoundParts, Typed DEF IInv, History
  <2>2. QED
    BY <2>1, Typed DEF IInv
<1>2. CASE UNCHANGED <<conn, conns, sent, given, cut>>
  BY <1>1, <1>2 DEF Named, Open
<1>3. CASE Stop \/ Top \/ Serviced \/ Ask \/ Collect \/ UNCHANGED vars
  BY <1>2, <1>3 DEF Stop, Top, Serviced, Ask, Collect, count, seen, vars
<1>4. ASSUME NEW w \in Wsis, Send(w) \/ CloseConnection(w) PROVE Named'
  <2>1. PICK rec \in 0..MaxMsgs : Accepted(w, rec)
    BY <1>1, <1>4, SendAccepted
  <2>2. conn[w] \in 1..MaxConns /\ conn[w] <= conns
    BY <1>1, <2>1, Typed DEF Accepted, Named
  <2>3. /\ UNCHANGED <<conn, conns, given>> /\ cut' \subseteq cut \cup {conn[w]}
        /\ \A c \in 1..MaxConns : c # conn[w] => sent'[c] = sent[c]
    BY <1>1, <2>1, <2>2 DEF Accepted
  <2>4. ASSUME NEW c \in 1..MaxConns, c > conns
        PROVE  sent'[c] = <<>> /\ given'[c] = <<>> /\ c \notin cut'
    <3>1. c # conn[w]
      BY <1>1, <2>2, <2>4
    <3>2. QED
      BY <1>1, <2>3, <2>4, <3>1 DEF Named
  <2>5. QED
    BY <1>1, <2>3, <2>4 DEF Named, Open
<1>5. ASSUME NEW w \in Wsis, Callback(w) PROVE Named'
  <2>1. CASE Established(w)
    <3>1. /\ w \notin Open /\ Open' = Open \cup {w} /\ conns' = conns + 1
          /\ conn'[w] = conns' /\ \A v \in Wsis \ {w} : conn'[v] = conn[v]
          /\ UNCHANGED <<sent, given, cut>>
      BY <1>1, <2>1, EstablishedCases DEF seen
    <3>2. \A v \in Open : conn'[v] = conn[v] /\ conn[v] # conns'
      BY <1>1, <3>1 DEF Named
    <3>3. \A u, v \in Open' : conn'[u] = conn'[v] => u = v
      BY <1>1, <3>1, <3>2 DEF Named
    <3>4. \A v \in Wsis : conn'[v] <= conns'
      <4> TAKE v \in Wsis
      <4>1. conn[v] \in Nat /\ conns \in Nat /\ conn[v] <= conns /\ conns' = conns + 1
        BY <1>1, <3>1 DEF Named
      <4>2. conn'[v] = conns' \/ conn'[v] = conn[v]
        BY <3>1
      <4>3. QED
        BY <4>1, <4>2
    <3>5. \A c \in 1..MaxConns : c > conns' => sent'[c] = <<>> /\ given'[c] = <<>> /\ c \notin cut'
      BY <1>1, <3>1, SMTT(30) DEF Named
    <3>6. QED
      BY <3>3, <3>4, <3>5 DEF Named
  <2>2. CASE Writeable(w)
    <3>1. UNCHANGED <<conn, conns, sent, cut>>
      BY <1>1, <2>2, WriteableCases DEF count
    <3>2. CASE given' = given
      BY <1>2, <3>1, <3>2
    <3>3. CASE w \in Live /\ \E n \in Nat : Wrote(w, n)
      <4>1. conn[w] \in 1..MaxConns /\ conn[w] <= conns
        BY <1>1, <3>3, Typed DEF Named
      <4>2. \A c \in 1..MaxConns : c # conn[w] => given'[c] = given[c]
        BY <1>1, <3>3, <4>1 DEF Wrote
      <4>3. \A c \in 1..MaxConns : c > conns => c # conn[w]
        BY <1>1, <4>1
      <4>4. QED
        BY <1>1, <3>1, <4>2, <4>3 DEF Named, Open
    <3>4. QED
      BY <1>1, <2>2, <3>2, <3>3, WriteableCases DEF Emptied, Ended, Written
  <2>3. CASE Piece(w)
    BY <1>1, <1>2, <2>3, PieceCases
  <2>4. CASE Flushed(w) \/ PeerGone(w)
    BY <1>2, <2>4 DEF Flushed, PeerGone, count, seen
  <2>5. CASE Destroy(w)
    <3>1. /\ Open' = Open \ {w} /\ \A v \in Wsis \ {w} : conn'[v] = conn[v]
          /\ UNCHANGED <<conns, seen>>
      BY <1>1, <2>5, DestroyCases
    <3>2. conn'[w] = 0
      BY <1>1, <2>5, SoundParts DEF Destroy, History
    <3>3. \A u, v \in Open' : conn'[u] = conn'[v] => u = v
      BY <1>1, <3>1 DEF Named
    <3>4. \A v \in Wsis : conn'[v] <= conns'
      BY <1>1, <3>1, <3>2 DEF Named
    <3>5. UNCHANGED <<conns, sent, given, cut>>
      BY <3>1 DEF seen
    <3>6. QED
      BY <1>1, <3>3, <3>4, <3>5 DEF Named
  <2>6. QED
    BY <1>5, <2>1, <2>2, <2>3, <2>4, <2>5 DEF Callback, Piece
<1>6. QED
  BY <1>3, <1>4, <1>5 DEF Next
-----------------------------------------------------------------------------
(* The flags behind what is queued, and the pieces of messages. *)

Idle(w) == w \in Live \ (dying \cup writable \cup partial \cup updateds)
Quiet(w) == /\ inout[w].send_ = <<>> /\ ~send_cache_[w].sending_
            /\ send_cache_[w].sendBuf_ # <<>> => send_cache_[w].updated_ /\ server_updated_

LEMMA NextForgotten == IInv /\ [Next]_vars => NothingForgotten'
<1> SUFFICES ASSUME IInv, [Next]_vars, CallsBack PROVE \A w \in Wsis : Idle(w)' => Quiet(w)'
  <2>1. EntriesSound' => (Live \subseteq Wsis)'
    BY DEF EntriesSound, TypeOK
  <2>2. QED
    BY <2>1, NextSound DEF NothingForgotten, Idle, Quiet
<1>1. /\ EntriesSound /\ Turns /\ DOMAIN send_cache_ = Live /\ Live \subseteq Wsis
      /\ \A w \in Live : send_cache_[w] \in Item
      /\ \A w \in Wsis : Idle(w) => Quiet(w)
  <2>1. EntriesSound /\ Turns /\ \A w \in Wsis : Idle(w) => Quiet(w)
    BY DEF IInv, NothingForgotten, Idle, Quiet
  <2>2. QED
    BY <2>1, Typed
<1>2. ASSUME UNCHANGED <<send_cache_, server_updated_, inout>>,
             NEW v \in Wsis, Idle(v)', Idle(v)
      PROVE  Quiet(v)'
  BY <1>1, <1>2 DEF Quiet
<1>3. CASE Stop \/ Top \/ Serviced \/ Ask \/ UNCHANGED vars
  BY <1>1, <1>3 DEF Stop, Top, Serviced, Ask, Idle, Quiet, Live, lws, app, vars
<1>4. CASE Collect
  <2> SUFFICES ASSUME NEW v \in Wsis, Idle(v)' PROVE Quiet(v)'
    OBVIOUS
  <2>1. updateds = {} /\ UNCHANGED <<inout, writable, partial, dying>>
    BY <1>1, <1>4, CollectCases DEF Turns, lws
  <2>2. v \in Live /\ v \notin updateds' /\ Idle(v)
    BY <2>1 DEF Idle, Live
  <2>3. /\ send_cache_'[v].sendBuf_ = send_cache_[v].sendBuf_
        /\ send_cache_'[v].sending_ = send_cache_[v].sending_
        /\ send_cache_[v].sending_ \/ ~send_cache_[v].updated_
    BY <1>1, <1>4, <2>2, CollectCases
  <2>4. Quiet(v)
    BY <1>1, <2>2
  <2>5. inout'[v].send_ = <<>> /\ ~send_cache_'[v].sending_ /\ send_cache_'[v].sendBuf_ = <<>>
    BY <2>1, <2>3, <2>4 DEF Quiet
  <2>6. QED
    BY <2>5 DEF Quiet
<1>5. ASSUME NEW w \in Wsis, Send(w) \/ CloseConnection(w), NEW v \in Wsis, Idle(v)'
      PROVE  Quiet(v)'
  <2>1. PICK rec \in 0..MaxMsgs : Accepted(w, rec)
    BY <1>1, <1>5, SendAccepted
  <2>2. /\ UNCHANGED <<inout, updateds, lws>> /\ server_updated_'
        /\ \A u \in Live \ {w} : send_cache_'[u] = send_cache_[u]
        /\ send_cache_'[w].sending_ = send_cache_[w].sending_
        /\ ~send_cache_[w].sending_ => send_cache_'[w].updated_
    BY <2>1 DEF Accepted
  <2>3. v \in Live /\ Idle(v)
    BY <1>5, <2>2 DEF Idle, Live, lws
  <2>4. inout[v].send_ = <<>> /\ ~send_cache_[v].sending_
    BY <1>1, <2>3 DEF Quiet
  <2>5. CASE v = w
    BY <2>2, <2>4, <2>5 DEF Quiet
  <2>6. CASE v # w
    <3>1. send_cache_'[v] = send_cache_[v]
      BY <2>2, <2>3, <2>6
    <3>2. Quiet(v)
      BY <1>1, <2>3
    <3>3. QED
      BY <2>2, <3>1, <3>2 DEF Quiet
  <2>7. QED
    BY <2>5, <2>6
<1>6. ASSUME NEW w \in Wsis, Callback(w), NEW v \in Wsis, Idle(v)' PROVE Quiet(v)'
  <2>1. CASE Established(w)
    <3>1. UNCHANGED <<server_updated_, updateds, lws>>
      BY <1>1, <2>1, EstablishedCases
    <3>2. CASE UNCHANGED <<inout, send_cache_>>
      BY <1>2, <1>6, <3>1, <3>2 DEF Idle, Live, lws
    <3>3. CASE /\ Live' = Live \cup {w} /\ DOMAIN send_cache_' = DOMAIN send_cache_ \cup {w}
               /\ send_cache_'[w] = EmptyItem /\ inout'[w] = EmptyInOut
               /\ \A u \in Live : send_cache_'[u] = send_cache_[u] /\ inout'[u] = inout[u]
      <4>1. CASE v = w
        BY <3>3, <4>1 DEF Quiet, EmptyItem, EmptyInOut
      <4>2. CASE v # w
        <5>1. v \in Live /\ Idle(v)
          BY <1>6, <3>1, <3>3, <4>2 DEF Idle, lws
        <5>2. Quiet(v)
          BY <1>1, <5>1
        <5>3. QED
          BY <3>1, <3>3, <5>1, <5>2 DEF Quiet
      <4>3. QED
        BY <4>1, <4>2
    <3>4. QED
      BY <1>1, <2>1, <3>2, <3>3, EstablishedCases
  <2>2. CASE Writeable(w)
    <3>1. /\ UNCHANGED <<server_updated_, updateds>> /\ dying = {} /\ w \in writable
      BY <1>1, <2>2, WriteableCases
    <3>2. CASE w \notin Live
      <4>1. writable' = writable \ {w} /\ UNCHANGED <<send_cache_, inout, partial, dying>>
        BY <1>1, <2>2, <3>2, WriteableCases
      <4>2. v # w /\ Idle(v)
        BY <1>6, <3>1, <3>2, <4>1 DEF Idle, Live
      <4>3. QED
        BY <1>2, <1>6, <3>1, <4>1, <4>2
    <3>3. CASE w \in Live
      <4>1. Taken(w) /\ (Emptied(w) \/ Ended(w) \/ Written(w))
        BY <1>1, <2>2, <3>3, WriteableCases
      <4>2. CASE v = w
        <5>1. w \notin writable' /\ w \notin partial' /\ w \notin dying'
          BY <1>6, <4>2 DEF Idle
        <5>2. Emptied(w)
          BY <3>1, <4>1, <5>1 DEF Ended, Written
        <5>3. inout[w].send_ = <<>> /\ Buf(w) = <<>> /\ inout' = inout
          BY <5>2 DEF Emptied, Buf
        <5>4. send_cache_'[w].sendBuf_ = <<>> /\ ~send_cache_'[w].sending_
          BY <4>1, <5>3 DEF Taken
        <5>5. QED
          BY <4>2, <5>3, <5>4 DEF Quiet
      <4>3. CASE v # w
        <5>1. /\ Live' = Live /\ (v \in Live => inout'[v] = inout[v])
              /\ (v \in writable' <=> v \in writable) /\ (v \in partial' <=> v \in partial)
          BY <4>1, <4>3 DEF Emptied, Ended, Written, Live
        <5>2. v \in Live /\ Idle(v)
          BY <1>6, <3>1, <5>1 DEF Idle
        <5>3. send_cache_'[v] = send_cache_[v]
          BY <4>1, <4>3, <5>2 DEF Taken
        <5>4. Quiet(v)
          BY <1>1, <5>2
        <5>5. QED
          BY <3>1, <5>1, <5>2, <5>3, <5>4 DEF Quiet
      <4>4. QED
        BY <4>2, <4>3
    <3>4. QED
      BY <3>2, <3>3
  <2>3. CASE Piece(w)
    <3>1. /\ Live' = Live /\ dying = {}
          /\ UNCHANGED <<send_cache_, server_updated_, updateds, writable, partial>>
          /\ \A u \in Live : inout'[u].send_ = inout[u].send_
      BY <1>1, <2>3, PieceCases
    <3>2. v \in Live /\ Idle(v)
      BY <1>6, <3>1 DEF Idle
    <3>3. QED
      BY <1>1, <3>1, <3>2 DEF Quiet
  <2>4. CASE Flushed(w)
    <3>1. /\ UNCHANGED <<send_cache_, server_updated_, inout, dying, updateds>>
          /\ partial' = partial \ {w} /\ writable' = writable \cup {w}
      BY <2>4 DEF Flushed, InService
    <3>2. Idle(v)
      BY <1>6, <3>1 DEF Idle, Live
    <3>3. QED
      BY <1>2, <1>6, <3>1, <3>2
  <2>5. CASE PeerGone(w)
    <3>1. /\ UNCHANGED <<send_cache_, server_updated_, inout, writable, partial, updateds>>
          /\ dying = {}
      BY <2>5 DEF PeerGone, InService, Serving
    <3>2. Idle(v)
      BY <1>6, <3>1 DEF Idle, Live
    <3>3. QED
      BY <1>2, <1>6, <3>1, <3>2
  <2>6. CASE Destroy(w)
    <3>1. /\ Live' = Live \ {w} /\ dying = {w} /\ UNCHANGED <<server_updated_, updateds>>
          /\ \A u \in Live \ {w} : send_cache_'[u] = send_cache_[u] /\ inout'[u] = inout[u]
          /\ writable' = writable \ {w} /\ partial' = partial \ {w}
      BY <1>1, <2>6, DestroyCases
    <3>2. v # w /\ v \in Live /\ Idle(v)
      BY <1>6, <3>1 DEF Idle
    <3>3. QED
      BY <1>1, <3>1, <3>2 DEF Quiet
  <2>7. QED
    BY <1>6, <2>1, <2>2, <2>3, <2>4, <2>5, <2>6 DEF Callback, Piece
<1>7. QED
  BY <1>3, <1>4, <1>5, <1>6 DEF Next

-----------------------------------------------------------------------------
(* What is accepted for a connection, and what is written to it. *)

\* One connection: given and the two buffers against sent.
Kept(w) ==
  /\ IsPrefix(given[conn[w]] \o inout[w].send_, sent[conn[w]])
  /\ conn[w] \in cut => /\ send_cache_[w].sendBuf_ # <<>>
                        /\ send_cache_[w].sendBuf_[1] = Close
  /\ conn[w] \notin cut =>
       sent[conn[w]] = given[conn[w]] \o inout[w].send_ \o send_cache_[w].sendBuf_

Begun == \A c \in 1..MaxConns : IsPrefix(given[c], sent[c]) /\ Close \notin Range(given[c])

AllKept == \A w \in Live \ dying : Kept(w)

LEMMA KeptParts == PrefixSent /\ Headed <=> Begun /\ AllKept
BY DEF PrefixSent, Headed, Begun, AllKept, Kept

LEMMA KeptTyped ==
    ASSUME EntriesSound, NEW w \in Live
    PROVE  /\ w \in Wsis /\ conn[w] \in 1..MaxConns /\ Buf(w) \in Seq(0..MaxMsgs)
           /\ given[conn[w]] \in Seq(0..MaxMsgs) /\ sent[conn[w]] \in Seq(0..MaxMsgs)
           /\ inout[w].send_ \in Seq(0..MaxMsgs) /\ send_cache_[w].sendBuf_ \in Seq(0..MaxMsgs)
           /\ given[conn[w]] \o inout[w].send_ \in Seq(0..MaxMsgs)
<1>1. /\ w \in Wsis /\ conn[w] \in 1..MaxConns /\ inout[w] \in InOut /\ send_cache_[w] \in Item
      /\ given \in [1..MaxConns -> Seq(0..MaxMsgs)] /\ sent \in [1..MaxConns -> Seq(0..MaxMsgs)]
  BY Typed
<1>2. /\ given[conn[w]] \in Seq(0..MaxMsgs) /\ sent[conn[w]] \in Seq(0..MaxMsgs)
      /\ inout[w].send_ \in Seq(0..MaxMsgs) /\ send_cache_[w].sendBuf_ \in Seq(0..MaxMsgs)
  BY <1>1 DEF InOut, Item
<1>3. given[conn[w]] \o inout[w].send_ \in Seq(0..MaxMsgs)
  BY <1>2, ConcatProperties
<1>4. Buf(w) \in Seq(0..MaxMsgs)
  BY <1>2 DEF Buf
<1>5. QED
  BY <1>1, <1>2, <1>3, <1>4

Recs == Seq(0..MaxMsgs)

LEMMA RecsAppend ==
    ASSUME NEW x \in Recs, NEW b \in Recs, NEW e \in 0..MaxMsgs, NEW t, t = x \o b
    PROVE  Append(t, e) = x \o Append(b, e)
<1> DEFINE S == 0..MaxMsgs
<1>1. x \in Seq(S) /\ b \in Seq(S) /\ e \in S
  BY DEF Recs
<1> HIDE DEF S
<1>2. x \o b \in Seq(S) /\ <<e>> \in Seq(S)
  BY <1>1, ConcatProperties
<1>3. Append(x \o b, e) = (x \o b) \o <<e>>
  BY <1>1, <1>2, AppendIsConcat
<1>4. Append(b, e) = b \o <<e>>
  BY <1>1, AppendIsConcat
<1>5. (x \o b) \o <<e>> = x \o (b \o <<e>>)
  BY <1>1, <1>2, ConcatAssociative
<1>6. QED
  BY <1>3, <1>4, <1>5

LEMMA RecsMove ==
    \A s, b \in Recs : \A n \in 0..Len(b) :
      /\ SubSeq(b, 1, n) \in Recs /\ SubSeq(b, n + 1, Len(b)) \in Recs
      /\ s \o SubSeq(b, 1, n) \in Recs
      /\ (s \o SubSeq(b, 1, n)) \o SubSeq(b, n + 1, Len(b)) = s \o b
BY PrefixMove DEF Recs

\* Accepting a record: one more is expected, or the Close takes over.
LEMMA KeptAccept ==
    ASSUME EntriesSound, NEW w, NEW rec, Accepted(w, rec), Kept(w)
    PROVE  Kept(w)'
<1> DEFINE c == conn[w]
           x == given[c] \o inout[w].send_
           b == send_cache_[w].sendBuf_
<1>1. w \in Live /\ rec \in 0..MaxMsgs
  BY DEF Accepted
<1>2. /\ c \in 1..MaxConns /\ x \in Seq(0..MaxMsgs) /\ b \in Seq(0..MaxMsgs)
      /\ sent[c] \in Seq(0..MaxMsgs) /\ DOMAIN sent = 1..MaxConns
  BY <1>1, KeptTyped, Typed
<1>3. UNCHANGED <<conn, given, inout>> /\ sent' = [sent EXCEPT ![c] = Append(@, rec)]
  BY DEF Accepted
<1>4. sent'[c] = Append(sent[c], rec)
  BY <1>2, <1>3
<1>5. IsPrefix(x, sent[c])
  BY DEF Kept
<1>6. IsPrefix(x, sent'[c])
  BY <1>1, <1>2, <1>4, <1>5, PrefixAppend
<1>7. CASE cut' = cut \cup {c} /\ send_cache_'[w].sendBuf_ = <<Close>>
  BY <1>3, <1>6, <1>7 DEF Kept
<1>8. CASE cut' = cut /\ send_cache_'[w].sendBuf_ = Append(b, rec)
  <2>1. CASE c \in cut
    <3>1. b # <<>> /\ b[1] = Close
      BY <2>1 DEF Kept
    <3>2. 1 \in 1..Len(b)
      BY <1>2, <3>1, EmptySeq, LenProperties
    <3>3. Append(b, rec) # <<>> /\ Append(b, rec)[1] = Close
      BY <1>1, <1>2, <3>1, <3>2, AppendProperties
    <3>4. QED
      BY <1>3, <1>6, <1>8, <2>1, <3>3 DEF Kept
  <2>2. CASE c \notin cut
    <3>1. sent[c] = x \o b
      BY <2>2 DEF Kept
    <3>2. x \in Recs /\ b \in Recs /\ rec \in 0..MaxMsgs
      BY <1>1, <1>2 DEF Recs
    <3>3. sent'[c] = x \o Append(b, rec)
      <4> DEFINE t == sent[c]
      <4>1. t = x \o b /\ sent'[c] = Append(t, rec)
        BY <1>4, <3>1
      <4> HIDE DEF t, x, b
      <4>2. Append(t, rec) = x \o Append(b, rec)
        BY <3>2, <4>1, RecsAppend, SMTT(30)
      <4>3. QED
        BY <4>1, <4>2
    <3>4. QED
      BY <1>3, <1>6, <1>8, <2>2, <3>3 DEF Kept
  <2>3. QED
    BY <2>1, <2>2
<1>9. QED
  BY <1>7, <1>8 DEF Accepted

\* An overflown entry is headed by the Close: none of its records is written.
LEMMA NothingPastClose ==
    ASSUME NEW S, NEW b \in Seq(S), NEW n \in 0..Len(b),
           b # <<>>, b[1] = Close, Close \notin Range(SubSeq(b, 1, n))
    PROVE  n = 0
<1>1. Len(b) \in Nat /\ n \in Nat
  BY LenProperties
<1>2. ASSUME n # 0 PROVE FALSE
  <2>1. /\ SubSeq(b, 1, n) \in Seq(S) /\ 1 \in 1..Len(SubSeq(b, 1, n))
        /\ SubSeq(b, 1, n)[1] = b[1]
    BY <1>1, <1>2
  <2>2. Close \in Range(SubSeq(b, 1, n))
    BY <2>1, RangeSeq
  <2>3. QED
    BY <2>2
<1>3. QED
  BY <1>2

\* What the callback writes continues what the peer was sent.
LEMMA WroteSound ==
    ASSUME EntriesSound, Begun, NEW w \in Live, NEW n, Wrote(w, n), Kept(w)
    PROVE  /\ IsPrefix(given'[conn[w]], sent[conn[w]]) /\ Close \notin Range(given'[conn[w]])
           /\ given'[conn[w]] = given[conn[w]] \o SubSeq(Buf(w), 1, n)
           /\ given'[conn[w]] \in Seq(0..MaxMsgs)
           /\ SubSeq(Buf(w), n + 1, Len(Buf(w))) \in Seq(0..MaxMsgs)
           /\ given'[conn[w]] \o SubSeq(Buf(w), n + 1, Len(Buf(w))) = given[conn[w]] \o Buf(w)
           /\ \A v \in Live : conn[v] # conn[w] => given'[conn[v]] = given[conn[v]]
           /\ \A c \in 1..MaxConns : c # conn[w] => given'[c] = given[c]
<1> DEFINE c == conn[w]
           g == given[c]
           s == inout[w].send_
           b == send_cache_[w].sendBuf_
           p == SubSeq(Buf(w), 1, n)
           q == SubSeq(Buf(w), n + 1, Len(Buf(w)))
           S == 0..MaxMsgs
<1>1. /\ c \in 1..MaxConns /\ Buf(w) \in Seq(S) /\ g \in Seq(S) /\ sent[c] \in Seq(S)
      /\ s \in Seq(S) /\ b \in Seq(S)
      /\ DOMAIN given = 1..MaxConns
  BY KeptTyped, Typed
<1>2. n \in 0..Len(Buf(w)) /\ Close \notin Range(p) /\ given' = [given EXCEPT ![c] = @ \o p]
  BY DEF Wrote
<1>3. given'[c] = g \o p /\ \A d \in 1..MaxConns : d # c => given'[d] = given[d]
  BY <1>1, <1>2
<1>4. \A v \in Live : conn[v] # c => given'[conn[v]] = given[conn[v]]
  BY <1>3, Typed
<1>5. p \in Seq(S) /\ q \in Seq(S) /\ g \o p \in Seq(S) /\ (g \o p) \o q = g \o Buf(w)
  <2>1. g \in Recs /\ Buf(w) \in Recs /\ n \in 0..Len(Buf(w))
    BY <1>1, <1>2 DEF Recs
  <2> HIDE DEF g
  <2>2. p \in Recs /\ q \in Recs /\ g \o p \in Recs /\ (g \o p) \o q = g \o Buf(w)
    BY <2>1, RecsMove
  <2>3. QED
    BY <2>2 DEF Recs
<1>6. Close \notin Range(g \o p)
  <2>1. Close \notin Range(g)
    BY <1>1 DEF Begun
  <2>2. p \in Seq(S) /\ g \in Seq(S)
    BY <1>1, <1>5
  <2> HIDE DEF p, g
  <2>3. QED
    BY <1>2, <2>1, <2>2, RangeSeq
<1>7. IsPrefix(g \o p, sent[c])
  <2>1. IsPrefix((g \o p) \o q, sent[c]) => IsPrefix(g \o p, sent[c])
    <3>1. g \o p \in Seq(S) /\ q \in Seq(S) /\ sent[c] \in Seq(S)
      BY <1>1, <1>5
    <3> HIDE DEF g, p, q
    <3>2. QED
      BY <3>1, PrefixConcat
  <2>2. CASE s # <<>>
    <3>1. Buf(w) = s /\ IsPrefix(g \o s, sent[c])
      BY <2>2 DEF Buf, Kept
    <3>2. IsPrefix((g \o p) \o q, sent[c])
      BY <1>5, <3>1
    <3>3. QED
      BY <2>1, <3>2
  <2>3. CASE s = <<>> /\ c \notin cut
    <3>1. sent[c] = (g \o <<>>) \o b /\ Buf(w) = b
      BY <2>3 DEF Buf, Kept
    <3>2. g \o <<>> = g
      BY <1>1, ConcatEmptySeq
    <3>3. sent[c] = (g \o p) \o q
      BY <1>5, <3>1, <3>2
    <3>4. IsPrefix(g \o p, (g \o p) \o q)
      <4>1. g \o p \in Seq(S) /\ q \in Seq(S)
        BY <1>5
      <4> HIDE DEF g, p, q
      <4>2. QED
        BY <4>1, PrefixConcat
    <3>5. QED
      BY <3>3, <3>4
  <2>4. CASE s = <<>> /\ c \in cut
    <3>1. b # <<>> /\ b[1] = Close /\ Buf(w) = b
      BY <2>4 DEF Buf, Kept
    <3>2. n = 0
      BY <1>1, <1>2, <3>1, NothingPastClose
    <3>3. p = <<>>
      BY <3>2, SubSeqEmpty
    <3>4. g \o p = g
      BY <1>1, <3>3, ConcatEmptySeq
    <3>5. QED
      BY <1>1, <3>4 DEF Begun
  <2>5. QED
    BY <2>2, <2>3, <2>4
<1>8. QED
  BY <1>3, <1>4, <1>5, <1>6, <1>7

\* After a write the rest of the buffer takes its place in send_.
LEMMA KeptWritten ==
    ASSUME EntriesSound, Begun, NEW w \in Live, Taken(w), Written(w), Kept(w),
           UNCHANGED <<conn, sent, cut>>
    PROVE  Kept(w)'
<1> DEFINE c == conn[w]
           g == given[c]
           b == send_cache_[w].sendBuf_
<1>1. PICK n \in Nat :
        /\ Wrote(w, n) /\ (n > 0 \/ n = Len(Buf(w)))
        /\ inout' = [inout EXCEPT ![w].send_ = SubSeq(Buf(w), n + 1, Len(Buf(w)))]
  BY DEF Written
<1> DEFINE q == SubSeq(Buf(w), n + 1, Len(Buf(w)))
<1>2. /\ given'[c] \in Seq(0..MaxMsgs) /\ q \in Seq(0..MaxMsgs)
      /\ given'[c] \o q = g \o Buf(w)
  BY <1>1, WroteSound
<1>3. /\ c \in 1..MaxConns /\ Buf(w) \in Seq(0..MaxMsgs) /\ g \in Seq(0..MaxMsgs)
      /\ b \in Seq(0..MaxMsgs) /\ sent[c] \in Seq(0..MaxMsgs)
  BY KeptTyped
<1>4. inout'[w].send_ = q
  <2>1. inout[w] \in InOut /\ w \in DOMAIN inout
    BY Typed DEF Live
  <2>2. QED
    BY <1>1, <2>1 DEF InOut
<1>5. CASE inout[w].send_ # <<>>
  <2>1. Buf(w) = inout[w].send_ /\ send_cache_' = send_cache_
    BY <1>5 DEF Buf, Taken
  <2>2. given'[c] \o inout'[w].send_ = g \o inout[w].send_
    BY <1>2, <1>4, <2>1
  <2>3. QED
    BY <2>1, <2>2 DEF Kept
<1>6. CASE inout[w].send_ = <<>> /\ c \in cut
  <2>1. b # <<>> /\ b[1] = Close /\ Buf(w) = b
    BY <1>6 DEF Buf, Kept
  <2>2. n \in 0..Len(Buf(w)) /\ Close \notin Range(SubSeq(Buf(w), 1, n))
    BY <1>1 DEF Wrote
  <2>3. n = 0
    BY <1>3, <2>1, <2>2, NothingPastClose
  <2>4. Len(b) # 0
    BY <1>3, <2>1, EmptySeq
  <2>5. QED
    BY <1>1, <2>1, <2>3, <2>4
<1>7. CASE inout[w].send_ = <<>> /\ c \notin cut
  <2>1. sent[c] = (g \o <<>>) \o b /\ Buf(w) = b /\ send_cache_'[w].sendBuf_ = <<>>
    BY <1>7 DEF Buf, Kept, Taken
  <2>2. g \o <<>> = g
    BY <1>3, ConcatEmptySeq
  <2>3. sent[c] = given'[c] \o q
    BY <1>2, <2>1, <2>2
  <2>4. sent[c] \o <<>> = sent[c] /\ IsPrefix(sent[c], sent[c] \o <<>>)
    <3>1. <<>> \in Seq(0..MaxMsgs)
      OBVIOUS
    <3>2. sent[c] \o <<>> = sent[c]
      BY <1>3, ConcatEmptySeq
    <3>3. QED
      BY <1>3, <3>1, <3>2, PrefixConcat
  <2>5. sent[c] = (given'[c] \o q) \o <<>> /\ IsPrefix(given'[c] \o q, sent[c])
    BY <2>3, <2>4
  <2>6. QED
    BY <1>4, <1>7, <2>1, <2>5 DEF Kept
<1>8. QED
  BY <1>5, <1>6, <1>7

\* Kept speaks of one connection; what leaves it alone leaves it kept.
LEMMA KeptSame ==
    ASSUME NEW v, Kept(v), conn'[v] = conn[v],
           send_cache_'[v].sendBuf_ = send_cache_[v].sendBuf_,
           inout'[v].send_ = inout[v].send_,
           sent'[conn[v]] = sent[conn[v]], given'[conn[v]] = given[conn[v]],
           conn[v] \in cut' <=> conn[v] \in cut
    PROVE  Kept(v)'
BY DEF Kept

LEMMA NextBegun == IInv /\ [Next]_vars => Begun'
<1> SUFFICES ASSUME IInv, [Next]_vars PROVE Begun'
  OBVIOUS
<1>1. EntriesSound /\ Turns /\ Begun /\ AllKept
  BY KeptParts DEF IInv
<1>2. CASE UNCHANGED <<sent, given>>
  BY <1>1, <1>2 DEF Begun
<1>3. CASE Stop \/ Top \/ Serviced \/ Ask \/ Collect \/ UNCHANGED vars
  BY <1>2, <1>3 DEF Stop, Top, Serviced, Ask, Collect, seen, vars
<1>4. ASSUME NEW w \in Wsis, Send(w) \/ CloseConnection(w) PROVE Begun'
  <2>1. PICK rec \in 0..MaxMsgs : Accepted(w, rec)
    BY <1>1, <1>4, SendAccepted
  <2>2. /\ w \in Live /\ given' = given /\ rec \in 0..MaxMsgs
        /\ sent' = [sent EXCEPT ![conn[w]] = Append(@, rec)]
    BY <2>1 DEF Accepted
  <2>3. ASSUME NEW c \in 1..MaxConns
        PROVE  IsPrefix(given'[c], sent'[c]) /\ Close \notin Range(given'[c])
    <3>1. /\ given[c] \in Seq(0..MaxMsgs) /\ sent[c] \in Seq(0..MaxMsgs)
          /\ IsPrefix(given[c], sent[c]) /\ Close \notin Range(given[c]) /\ c \in DOMAIN sent
      BY <1>1, Typed DEF Begun
    <3>2. IsPrefix(given[c], Append(sent[c], rec))
      BY <2>2, <3>1, PrefixAppend
    <3>3. sent'[c] = sent[c] \/ sent'[c] = Append(sent[c], rec)
      BY <2>2, <3>1
    <3>4. QED
      BY <2>2, <3>1, <3>2, <3>3
  <2>4. QED
    BY <2>3 DEF Begun
<1>5. ASSUME NEW w \in Wsis, Callback(w) PROVE Begun'
  <2>1. CASE Writeable(w)
    <3>1. sent' = sent /\ dying = {}
      BY <1>1, <2>1, WriteableCases
    <3>2. CASE given' = given
      BY <1>2, <3>1, <3>2
    <3>3. CASE w \in Live /\ \E n \in Nat : Wrote(w, n)
      <4>1. PICK n \in Nat : Wrote(w, n)
        BY <3>3
      <4>2. Kept(w)
        BY <1>1, <3>1, <3>3 DEF AllKept
      <4>3. /\ IsPrefix(given'[conn[w]], sent[conn[w]]) /\ Close \notin Range(given'[conn[w]])
            /\ \A c \in 1..MaxConns : c # conn[w] => given'[c] = given[c]
        BY <1>1, <3>3, <4>1, <4>2, WroteSound
      <4>4. QED
        BY <1>1, <3>1, <4>3 DEF Begun
    <3>4. QED
      BY <1>1, <2>1, <3>2, <3>3, WriteableCases DEF Emptied, Ended, Written
  <2>2. CASE Established(w)
    BY <1>1, <1>2, <2>2, EstablishedCases DEF seen
  <2>3. CASE Piece(w)
    BY <1>1, <1>2, <2>3, PieceCases
  <2>4. CASE Flushed(w) \/ PeerGone(w)
    BY <1>2, <2>4 DEF Flushed, PeerGone, seen
  <2>5. CASE Destroy(w)
    BY <1>2, <2>5 DEF Destroy, seen
  <2>6. QED
    BY <1>5, <2>1, <2>2, <2>3, <2>4, <2>5 DEF Callback, Piece
<1>6. QED
  BY <1>3, <1>4, <1>5 DEF Next

LEMMA NextKept == IInv /\ [Next]_vars => AllKept'
<1> SUFFICES ASSUME IInv, [Next]_vars PROVE AllKept'
  OBVIOUS
<1>1. EntriesSound /\ Turns /\ Named /\ Begun /\ AllKept
  BY KeptParts DEF IInv
<1>2. /\ Live \subseteq Open /\ Open \subseteq Wsis
      /\ \A v \in Open : conn[v] \in 1..MaxConns
      /\ \A u, v \in Live : conn[u] = conn[v] => u = v
  BY <1>1, Typed DEF Named
<1>3. CASE UNCHANGED <<send_cache_, inout, conn, seen, dying>>
  BY <1>1, <1>3 DEF AllKept, Kept, Live, seen
<1>4. CASE Stop \/ Top \/ Serviced \/ Ask \/ UNCHANGED vars
  BY <1>3, <1>4 DEF Stop, Top, Serviced, Ask, seen, lws, app, count, vars
<1>5. CASE Collect
  <2>1. UNCHANGED <<inout, conn, sent, given, cut, dying>> /\ Live' = Live
    BY <1>1, <1>5, CollectCases DEF count, seen, lws, Live
  <2>2. ASSUME NEW v \in Live \ dying PROVE Kept(v)'
    <3>1. send_cache_'[v].sendBuf_ = send_cache_[v].sendBuf_ /\ Kept(v)
      BY <1>1, <1>5, CollectCases DEF AllKept
    <3>2. QED
      BY <2>1, <3>1, KeptSame
  <2>3. QED
    BY <2>1, <2>2 DEF AllKept
<1>6. ASSUME NEW w \in Wsis, Send(w) \/ CloseConnection(w) PROVE AllKept'
  <2>1. PICK rec \in 0..MaxMsgs : Accepted(w, rec)
    BY <1>1, <1>6, SendAccepted
  <2>2. /\ w \in Live /\ UNCHANGED <<inout, dying, conn, given>> /\ Live' = Live
        /\ \A u \in Live \ {w} : send_cache_'[u] = send_cache_[u]
        /\ sent' = [sent EXCEPT ![conn[w]] = Append(@, rec)]
        /\ cut' \subseteq cut \cup {conn[w]} /\ cut \subseteq cut'
    BY <2>1 DEF Accepted, lws, Live
  <2>3. ASSUME NEW v \in Live \ dying PROVE Kept(v)'
    <3>1. Kept(v)
      BY <1>1 DEF AllKept
    <3>2. CASE v = w
      BY <1>1, <2>1, <3>1, <3>2, KeptAccept
    <3>3. CASE v # w
      <4>1. conn[v] # conn[w]
        BY <1>2, <2>2, <3>3
      <4>2. sent'[conn[v]] = sent[conn[v]] /\ send_cache_'[v] = send_cache_[v]
        BY <2>2, <3>3, <4>1
      <4>3. QED
        BY <2>2, <3>1, <4>1, <4>2, KeptSame
    <3>4. QED
      BY <3>2, <3>3
  <2>4. QED
    BY <2>2, <2>3 DEF AllKept
<1>7. ASSUME NEW w \in Wsis, Callback(w) PROVE AllKept'
  <2>1. CASE Established(w)
    <3>1. /\ w \notin Live /\ UNCHANGED <<dying, sent, given, cut>>
          /\ \A v \in Wsis \ {w} : conn'[v] = conn[v]
          /\ conn'[w] \in 1..MaxConns /\ conn'[w] > conns
      <4>1. /\ w \notin Live /\ UNCHANGED <<lws, seen>> /\ conns \in Nat /\ conns' = conns + 1
            /\ conn'[w] = conns' /\ conns' \in 1..MaxConns
            /\ \A v \in Wsis \ {w} : conn'[v] = conn[v]
        BY <1>1, <2>1, EstablishedCases
      <4>2. conns' > conns
        BY <4>1
      <4>3. UNCHANGED <<dying, sent, given, cut>>
        BY <4>1 DEF lws, seen
      <4>4. QED
        BY <4>1, <4>2, <4>3
    <3>2. CASE UNCHANGED <<inout, send_cache_>>
      <4>1. Live' = Live
        BY <3>2 DEF Live
      <4>2. ASSUME NEW v \in Live \ dying PROVE Kept(v)'
        <5>1. Kept(v) /\ conn'[v] = conn[v]
          BY <1>1, <1>2, <3>1 DEF AllKept
        <5>2. QED
          BY <3>1, <3>2, <5>1, KeptSame
      <4>3. QED
        BY <3>1, <4>1, <4>2 DEF AllKept
    <3>3. CASE /\ Live' = Live \cup {w} /\ DOMAIN send_cache_' = DOMAIN send_cache_ \cup {w}
               /\ send_cache_'[w] = EmptyItem /\ inout'[w] = EmptyInOut
               /\ \A u \in Live : send_cache_'[u] = send_cache_[u] /\ inout'[u] = inout[u]
      <4>1. ASSUME NEW v \in Live \ dying PROVE Kept(v)'
        <5>1. Kept(v) /\ conn'[v] = conn[v]
          BY <1>1, <1>2, <3>1 DEF AllKept
        <5>2. QED
          BY <3>1, <3>3, <5>1, KeptSame
      <4>2. Kept(w)'
        <5>1. sent[conn'[w]] = <<>> /\ given[conn'[w]] = <<>> /\ conn'[w] \notin cut
          BY <1>1, <3>1 DEF Named
        <5>2. inout'[w].send_ = <<>> /\ send_cache_'[w].sendBuf_ = <<>>
          BY <3>3 DEF EmptyItem, EmptyInOut
        <5>3. <<>> \o <<>> = <<>> /\ IsPrefix(<<>>, <<>>)
          BY DEF IsPrefix
        <5>4. QED
          BY <3>1, <5>1, <5>2, <5>3 DEF Kept
      <4>3. QED
        BY <3>1, <3>3, <4>1, <4>2 DEF AllKept
    <3>4. QED
      BY <1>1, <2>1, <3>2, <3>3, EstablishedCases
  <2>2. CASE Writeable(w)
    <3>1. UNCHANGED <<conn, sent, cut>> /\ dying = {}
      BY <1>1, <2>2, WriteableCases DEF count
    <3>2. CASE w \notin Live
      <4>1. UNCHANGED <<send_cache_, inout, given, dying>>
        BY <1>1, <2>2, <3>2, WriteableCases
      <4>2. QED
        BY <1>1, <3>1, <4>1 DEF AllKept, Kept, Live
    <3>3. CASE w \in Live
      <4>1. /\ Taken(w) /\ (Emptied(w) \/ Ended(w) \/ Written(w)) /\ Kept(w)
        BY <1>1, <2>2, <3>1, <3>3, WriteableCases DEF AllKept
      <4>2. /\ Live' = Live /\ \A v \in Live \ {w} : inout'[v] = inout[v]
            /\ dying \subseteq dying'
        BY <3>1, <4>1 DEF Emptied, Ended, Written, Live
      <4>3. ASSUME NEW v \in Live \ dying', v # w PROVE Kept(v)'
        <5>1. Kept(v) /\ conn[v] # conn[w]
          BY <1>1, <1>2, <3>1, <3>3, <4>3 DEF AllKept
        <5>2. send_cache_'[v] = send_cache_[v] /\ inout'[v] = inout[v]
          BY <4>1, <4>2, <4>3 DEF Taken
        <5>3. given'[conn[v]] = given[conn[v]]
          BY <1>1, <3>3, <4>1, <5>1, WroteSound DEF Emptied, Ended, Written
        <5>4. QED
          BY <3>1, <5>1, <5>2, <5>3, KeptSame
      <4>4. ASSUME w \notin dying' PROVE Kept(w)'
        <5>1. CASE Emptied(w)
          <6>1. /\ inout[w].send_ = <<>> /\ send_cache_[w].sendBuf_ = <<>>
                /\ UNCHANGED <<inout, given>>
            BY <5>1 DEF Emptied, Buf
          <6>2. send_cache_'[w].sendBuf_ = <<>>
            BY <4>1, <6>1 DEF Taken
          <6>3. QED
            BY <3>1, <4>1, <6>1, <6>2, KeptSame
        <5>2. CASE Written(w)
          BY <1>1, <3>1, <3>3, <4>1, <5>2, KeptWritten
        <5>3. QED
          BY <4>1, <4>4, <5>1, <5>2 DEF Ended
      <4>5. QED
        BY <4>2, <4>3, <4>4 DEF AllKept
    <3>4. QED
      BY <3>2, <3>3
  <2>3. CASE Piece(w)
    <3>1. /\ Live' = Live /\ dying = {} /\ UNCHANGED <<send_cache_, conn, sent, given, cut>>
          /\ \A v \in Live : inout'[v].send_ = inout[v].send_
      BY <1>1, <2>3, PieceCases
    <3>2. ASSUME NEW v \in Live PROVE Kept(v)'
      <4>1. Kept(v)
        BY <1>1, <3>1 DEF AllKept
      <4>2. QED
        BY <3>1, <4>1, KeptSame
    <3>3. QED
      BY <3>1, <3>2 DEF AllKept
  <2>4. CASE Flushed(w)
    BY <1>3, <2>4 DEF Flushed, count
  <2>5. CASE PeerGone(w)
    <3>1. UNCHANGED <<send_cache_, inout, conn, sent, given, cut>> /\ dying = {}
      BY <2>5 DEF PeerGone, Serving, count, seen
    <3>2. QED
      BY <1>1, <3>1 DEF AllKept, Kept, Live
  <2>6. CASE Destroy(w)
    <3>1. /\ Live' = Live \ {w} /\ dying = {w} /\ UNCHANGED <<sent, given, cut>>
          /\ \A v \in Live \ {w} : send_cache_'[v] = send_cache_[v] /\ inout'[v] = inout[v]
          /\ \A v \in Wsis \ {w} : conn'[v] = conn[v]
      BY <1>1, <2>6, DestroyCases DEF seen
    <3>2. ASSUME NEW v \in Live \ {w} PROVE Kept(v)'
      <4>1. Kept(v) /\ conn'[v] = conn[v]
        BY <1>1, <1>2, <3>1 DEF AllKept
      <4>2. QED
        BY <3>1, <4>1, KeptSame
    <3>3. QED
      BY <3>1, <3>2 DEF AllKept
  <2>7. QED
    BY <1>7, <2>1, <2>2, <2>3, <2>4, <2>5, <2>6 DEF Callback, Piece
<1>8. QED
  BY <1>4, <1>5, <1>6, <1>7 DEF Next
-----------------------------------------------------------------------------
(* The theorems. *)

LEMMA NextIInv == IInv /\ [Next]_vars => IInv'
<1> SUFFICES ASSUME IInv, [Next]_vars PROVE IInv'
  OBVIOUS
<1>1. EntriesSound' /\ Turns' /\ Named' /\ NothingForgotten'
  BY NextSound, NextTurns, NextNamed, NextForgotten
<1>2. Begun' /\ AllKept'
  BY NextBegun, NextKept
<1>3. (Begun /\ AllKept => PrefixSent /\ Headed)'
  BY KeptParts, PTL
<1>4. QED
  BY <1>1, <1>2, <1>3 DEF IInv

(***************************************************************************)
(* The inductive invariant holds in every reachable state of               *)
(* WebsocketServer: senders on any thread against the service thread, with *)
(* connections coming and going on reused addresses.                       *)
(***************************************************************************)
THEOREM Invariance == Spec => []IInv
<1>1. QED
  BY InitIInv, NextIInv, PTL DEF Spec

LEMMA IInvParts == IInv => EntriesSound /\ NothingForgotten /\ PrefixSent
BY DEF IInv

(***************************************************************************)
(* send_cache_ has an entry for exactly the connections with a ServerInOut,*)
(* no callback is asked for a freed wsi, and a buffer exceeds              *)
(* SERVRE_CACHE_MAX by one MsgHead at most, whatever is sent.              *)
(***************************************************************************)
THEOREM Entries == Spec => []EntriesSound
<1>1. QED
  BY Invariance, IInvParts, PTL

(***************************************************************************)
(* No message is stranded between MetaSend and the service thread: what is *)
(* queued has updated_, a request for WRITEABLE or a buffered write behind *)
(* it, if libwebsockets calls back after a buffered write.                 *)
(***************************************************************************)
THEOREM Remembering == Spec => []NothingForgotten
<1>1. QED
  BY Invariance, IInvParts, PTL

(***************************************************************************)
(* What a peer is sent is a beginning of what was accepted for its         *)
(* connection, in order, through overflows, partial writes, closes and the *)
(* reuse of the address.                                                   *)
(***************************************************************************)
THEOREM Sending == Spec => []PrefixSent
<1>1. QED
  BY Invariance, IInvParts, PTL
=============================================================================
