--------------------------- MODULE WebsocketServer ---------------------------
(***************************************************************************)
(* websock_net/WebsocketServer.cpp: a WebSocket server over libwebsockets. *)
(*                                                                         *)
(* Any thread may send: MetaSend appends to the connection's entry of      *)
(* send_cache_ under send_mutex_. Only the service thread may talk to      *)
(* libwebsockets, so the sender leaves two flags behind, updated_ in the   *)
(* entry and server_updated_ for all of them, and the service thread turns *)
(* them into requests for a WRITEABLE callback, which takes the entry's    *)
(* buffer over and writes it. While sending_ is up updated_ is not raised: *)
(* the service thread is trusted to come back on its own.                  *)
(*                                                                         *)
(* A buffer is a sequence of message numbers, Close standing for the       *)
(* record that ends the connection; its length in bytes is kept beside it. *)
(***************************************************************************)
EXTENDS Naturals, Sequences, SequencesExt

CONSTANTS
  Wsis,        \* addresses libwebsockets gives its connections, used again
  Lens,        \* lengths of messages
  HeadSize,    \* sizeof(MsgHead)
  Pre,         \* LWS_PRE
  CacheMax,    \* SERVRE_CACHE_MAX
  CallsBack,   \* libwebsockets calls back by itself after a buffered write
  MaxConns,    \* bound: connections in a run
  MaxMsgs,     \* bound: messages and close requests in a run
  MaxPieces    \* bound: pieces of messages received in a run

ASSUME ServerAssumption ==
  /\ Lens \subseteq Nat
  /\ {HeadSize, Pre, CacheMax, MaxConns, MaxMsgs, MaxPieces} \subseteq Nat
  /\ HeadSize + Pre <= CacheMax
  /\ CallsBack \in BOOLEAN

VARIABLES
  send_cache_,      \* wsi -> [sendBuf_, size, updated_, sending_]
  server_updated_,
  stopped_,
  pc,               \* the service thread
  updateds,         \* wsis it has collected and not yet asked callbacks for
  inout,            \* wsi -> what the user pointer of the connection holds
  writable,         \* libwebsockets: wsis with a WRITEABLE callback to come
  partial,          \* libwebsockets: wsis whose last write is still buffered
  dying,            \* libwebsockets: wsis being closed, WSI_DESTROY to come
  mid,              \* libwebsockets: wsis in the middle of a message received
  conn,             \* history: wsi -> number of the connection it stands for
  conns,            \* history: connections so far
  msgs,             \* history: messages so far
  pieces,           \* history: pieces received so far
  sent,             \* history: connection -> messages accepted for it
  given,            \* history: connection -> messages written to it
  cut,              \* history: connections whose buffer has overflown
  reported          \* history: how messages that have ended were handed on

app   == <<send_cache_, server_updated_, stopped_>>
lws   == <<writable, partial, dying, mid>>
count == <<conn, conns, msgs, pieces>>
seen  == <<sent, given, cut, reported>>
vars  == <<app, pc, updateds, inout, lws, count, seen>>

Close == 0
Open == {w \in Wsis : conn[w] # 0}
Live == DOMAIN inout         \* connections with a ServerInOut
With(f, w, e) == [x \in DOMAIN f \cup {w} |-> IF x = w THEN e ELSE f[x]]
Without(f, w) == [x \in DOMAIN f \ {w} |-> f[x]]
EmptyItem == [sendBuf_ |-> <<>>, size |-> 0, updated_ |-> FALSE, sending_ |-> FALSE]
EmptyInOut == [send_ |-> <<>>, bframe_ |-> FALSE, held |-> 0]

Init ==
  /\ send_cache_ = <<>> /\ inout = <<>>
  /\ server_updated_ = FALSE /\ stopped_ = FALSE
  /\ pc = "top" /\ updateds = {}
  /\ writable = {} /\ partial = {} /\ dying = {} /\ mid = {}
  /\ conn = [w \in Wsis |-> 0] /\ conns = 0 /\ msgs = 0 /\ pieces = 0
  /\ sent = [c \in 1..MaxConns |-> <<>>]
  /\ given = [c \in 1..MaxConns |-> <<>>]
  /\ cut = {} /\ reported = {}

(***************************************************************************)
(* Any thread                                                              *)
(***************************************************************************)

\* mutant: an overflow throws away the old messages only
MetaSend_Drops(w, len, rec) ==
  LET item == send_cache_[w]
      over == item.size + len + Pre > CacheMax
      new  == rec
      old  == IF over THEN [b |-> <<>>, n |-> 0]
                      ELSE [b |-> item.sendBuf_, n |-> item.size]
      grow == HeadSize + Pre + IF over THEN 0 ELSE len
  IN  /\ send_cache_' = [send_cache_ EXCEPT ![w] =
           [sendBuf_ |-> Append(old.b, new), size |-> old.n + grow,
            updated_ |-> item.updated_ \/ ~item.sending_,
            sending_ |-> item.sending_]]
      /\ server_updated_' = TRUE
      /\ cut' = IF over THEN cut \cup {conn[w]} ELSE cut
      /\ sent' = [sent EXCEPT ![conn[w]] = Append(@, rec)]

\* MetaSend, with the lock held: an overflow drops what is queued and queues
\* a Close in its place, and is not reported to the caller.
MetaSend(w, len, rec) ==
  LET item == send_cache_[w]
      over == item.size + len + Pre > CacheMax
      new  == IF over THEN Close ELSE rec
      old  == IF over THEN [b |-> <<>>, n |-> 0]
                      ELSE [b |-> item.sendBuf_, n |-> item.size]
      grow == HeadSize + Pre + IF over THEN 0 ELSE len
  IN  /\ send_cache_' = [send_cache_ EXCEPT ![w] =
           [sendBuf_ |-> Append(old.b, new), size |-> old.n + grow,
            updated_ |-> item.updated_ \/ ~item.sending_,
            sending_ |-> item.sending_]]
      /\ server_updated_' = TRUE
      /\ cut' = IF over THEN cut \cup {conn[w]} ELSE cut
      /\ sent' = [sent EXCEPT ![conn[w]] = Append(@, rec)]

\* SendText and SendBinary, which return for an empty message, and Ping, whose
\* payload is empty by default; a wsi without an entry gets -1.
Send(w) ==
  /\ msgs < MaxMsgs /\ w \in DOMAIN send_cache_
  /\ \E len \in Lens : MetaSend(w, len, msgs + 1)
  /\ msgs' = msgs + 1
  /\ UNCHANGED <<stopped_, pc, updateds, inout, lws, conn, conns, pieces, given, reported>>

CloseConnection(w) ==
  /\ msgs < MaxMsgs /\ w \in DOMAIN send_cache_
  /\ MetaSend(w, 0, Close)
  /\ msgs' = msgs + 1
  /\ UNCHANGED <<stopped_, pc, updateds, inout, lws, conn, conns, pieces, given, reported>>

Stop ==
  /\ ~stopped_ /\ stopped_' = TRUE
  /\ UNCHANGED <<send_cache_, server_updated_, pc, updateds, inout, lws, count, seen>>

(***************************************************************************)
(* The service thread: ServerThread::run                                   *)
(***************************************************************************)

\* while (!stopped_) and the test of server_updated_ without the lock
Top ==
  /\ pc = "top"
  /\ pc' = IF stopped_ THEN "ended" ELSE IF server_updated_ THEN "collect" ELSE "service"
  /\ UNCHANGED <<app, updateds, inout, lws, count, seen>>

Collect ==
  /\ pc = "collect" /\ pc' = "ask"
  /\ updateds' = {w \in DOMAIN send_cache_ :
                    send_cache_[w].updated_ /\ ~send_cache_[w].sending_}
  /\ send_cache_' = [w \in DOMAIN send_cache_ |->
       IF w \in updateds' THEN [send_cache_[w] EXCEPT !.updated_ = FALSE] ELSE send_cache_[w]]
  /\ server_updated_' = FALSE
  /\ UNCHANGED <<stopped_, inout, lws, count, seen>>

Ask ==
  /\ pc = "ask" /\ pc' = "service"
  /\ writable' = writable \cup updateds /\ updateds' = {}
  /\ UNCHANGED <<app, inout, partial, dying, mid, count, seen>>

\* lws_service returns with nothing more to do, or for the eleventh time
Serviced ==
  /\ pc = "service" /\ dying = {} /\ pc' = "top"
  /\ UNCHANGED <<app, updateds, inout, lws, count, seen>>

\* Inside lws_service: no connection is being closed.
Serving == pc = "service" /\ dying = {}
InService == UNCHANGED <<stopped_, pc, updateds>>

\* LWS_CALLBACK_ESTABLISHED; the allocation of the ServerInOut may fail.
Established(w) ==
  /\ Serving /\ conn[w] = 0 /\ conns < MaxConns
  /\ conns' = conns + 1 /\ conn' = [conn EXCEPT ![w] = conns']
  /\ \/ /\ inout' = With(inout, w, EmptyInOut)
        /\ send_cache_' = With(send_cache_, w, EmptyItem)
     \/ UNCHANGED <<inout, send_cache_>>
  /\ UNCHANGED <<server_updated_, lws, msgs, pieces, seen>> /\ InService

\* LWS_CALLBACK_RECEIVE: a piece of a message. first and final say whether
\* it belongs to the first and the last fragment, rest what is still to come
\* of its frame. held counts the messages receive_ has pieces of. A message
\* that ends in its first piece is handed to nobody (lines 176-181).
Receive(w, final, rest) ==
  LET first == w \notin mid
      ends  == final /\ rest = "none"
      io    == inout[w]
      held  == io.held + IF first THEN 1 ELSE 0
      by    == IF first THEN "nobody" ELSE IF io.bframe_ THEN "frame" ELSE "whole"
  IN  /\ Serving /\ w \in Open /\ pieces < MaxPieces
      /\ pieces' = pieces + 1
      /\ mid' = IF ends THEN mid \ {w} ELSE mid \cup {w}
      /\ IF w \notin Live THEN UNCHANGED <<inout, dying, reported>>
         ELSE IF rest = "excess"
         THEN dying' = {w} /\ UNCHANGED <<inout, reported>>
         ELSE /\ inout' = IF ends /\ ~first
                THEN [inout EXCEPT ![w].bframe_ = FALSE, ![w].held = 0]
                ELSE [inout EXCEPT ![w].bframe_ = io.bframe_ \/ first, ![w].held = held]
              /\ reported' = IF ends
                   THEN reported \cup {[onePiece |-> first, by |-> by, held |-> held]}
                   ELSE reported
              /\ UNCHANGED dying
      /\ UNCHANGED <<send_cache_, server_updated_, writable, partial, conn, conns, msgs,
                     sent, given, cut>> /\ InService

\* mutant: no further callback is asked for after the last record
Write_AsksNoMore(w, buf, n, buffered) ==
  /\ n <= Len(buf) /\ Close \notin Range(SubSeq(buf, 1, n))
  /\ given' = [given EXCEPT ![conn[w]] = @ \o SubSeq(buf, 1, n)]
  /\ inout' = [inout EXCEPT ![w].send_ = SubSeq(buf, n + 1, Len(buf))]
  /\ IF buffered THEN n > 0 /\ partial' = partial \cup {w} /\ writable' = writable \ {w}
                 ELSE n = Len(buf) /\ writable' = writable \ {w} /\ UNCHANGED partial
  /\ UNCHANGED dying

\* What is written when the callback finds buf to write: n records, up to a
\* Close, up to a write that libwebsockets must buffer, or all of them.
Write(w, buf, n, buffered) ==
  /\ n <= Len(buf) /\ Close \notin Range(SubSeq(buf, 1, n))
  /\ given' = [given EXCEPT ![conn[w]] = @ \o SubSeq(buf, 1, n)]
  /\ inout' = [inout EXCEPT ![w].send_ = SubSeq(buf, n + 1, Len(buf))]
  /\ IF buffered THEN n > 0 /\ partial' = partial \cup {w} /\ writable' = writable \ {w}
                 ELSE n = Len(buf) /\ UNCHANGED <<partial, writable>>
  /\ UNCHANGED dying

WriteToClose(w, buf, n) ==
  /\ n < Len(buf) /\ buf[n + 1] = Close /\ Close \notin Range(SubSeq(buf, 1, n))
  /\ given' = [given EXCEPT ![conn[w]] = @ \o SubSeq(buf, 1, n)]
  /\ dying' = {w} /\ writable' = writable \ {w}
  /\ UNCHANGED <<inout, partial>>

\* mutant: sending_ is not lowered when there was nothing to take
Writeable_StaysSending(w) ==
  LET own   == IF w \in Live THEN inout[w].send_ ELSE <<>>
      known == w \in DOMAIN send_cache_
      take  == w \in Live /\ own = <<>> /\ known
      buf   == IF take THEN send_cache_[w].sendBuf_ ELSE own
  IN  /\ Serving /\ w \in writable /\ w \notin partial
      /\ send_cache_' = IF take
           THEN [send_cache_ EXCEPT ![w].sendBuf_ = <<>>, ![w].size = 0, ![w].sending_ = TRUE]
           ELSE send_cache_
      /\ IF buf = <<>>
         THEN writable' = writable \ {w} /\ UNCHANGED <<inout, given, partial, dying>>
         ELSE IF take /\ send_cache_[w].size > CacheMax
         THEN /\ writable' = writable \ {w} /\ dying' = {w}
              /\ UNCHANGED <<inout, given, partial>>
         ELSE \E n \in 0..Len(buf) : \/ \E b \in BOOLEAN : Write(w, buf, n, b)
                                     \/ WriteToClose(w, buf, n)
      /\ UNCHANGED <<server_updated_, mid, count, sent, cut, reported>> /\ InService

\* LWS_CALLBACK_SERVER_WRITEABLE. The check of the size matters when the
\* buffer has just been taken over: what is left of it later is less.
Writeable(w) ==
  LET own   == IF w \in Live THEN inout[w].send_ ELSE <<>>
      known == w \in DOMAIN send_cache_
      take  == w \in Live /\ own = <<>> /\ known
      buf   == IF take THEN send_cache_[w].sendBuf_ ELSE own
  IN  /\ Serving /\ w \in writable /\ w \notin partial
      /\ send_cache_' = IF take
           THEN [send_cache_ EXCEPT ![w].sendBuf_ = <<>>, ![w].size = 0, ![w].sending_ = buf # <<>>]
           ELSE send_cache_
      /\ IF buf = <<>>
         THEN writable' = writable \ {w} /\ UNCHANGED <<inout, given, partial, dying>>
         ELSE IF take /\ send_cache_[w].size > CacheMax
         THEN /\ writable' = writable \ {w} /\ dying' = {w}
              /\ UNCHANGED <<inout, given, partial>>
         ELSE \E n \in 0..Len(buf) : \/ \E b \in BOOLEAN : Write(w, buf, n, b)
                                     \/ WriteToClose(w, buf, n)
      /\ UNCHANGED <<server_updated_, mid, count, sent, cut, reported>> /\ InService

\* libwebsockets gets rid of what it had buffered.
Flushed(w) ==
  /\ Serving /\ w \in partial
  /\ partial' = partial \ {w}
  /\ writable' = IF CallsBack THEN writable \cup {w} ELSE writable
  /\ UNCHANGED <<send_cache_, server_updated_, inout, dying, mid, count, seen>> /\ InService

\* The peer goes away, or the connection fails.
PeerGone(w) ==
  /\ Serving /\ w \in Open /\ dying' = {w}
  /\ UNCHANGED <<send_cache_, server_updated_, inout, writable, partial, mid, count, seen>>
  /\ InService

\* mutant: the entry in send_cache_ is left behind
Destroy_KeepsItem(w) ==
  /\ pc = "service" /\ w \in dying
  /\ dying' = {} /\ conn' = [conn EXCEPT ![w] = 0]
  /\ inout' = Without(inout, w)
  /\ writable' = writable \ {w} /\ partial' = partial \ {w} /\ mid' = mid \ {w}
  /\ UNCHANGED <<send_cache_, server_updated_, conns, msgs, pieces, seen>> /\ InService

\* LWS_CALLBACK_CLOSED, which only logs, and LWS_CALLBACK_WSI_DESTROY.
Destroy(w) ==
  /\ pc = "service" /\ w \in dying
  /\ dying' = {} /\ conn' = [conn EXCEPT ![w] = 0]
  /\ send_cache_' = Without(send_cache_, w) /\ inout' = Without(inout, w)
  /\ writable' = writable \ {w} /\ partial' = partial \ {w} /\ mid' = mid \ {w}
  /\ UNCHANGED <<server_updated_, conns, msgs, pieces, seen>> /\ InService

Callback(w) ==
  \/ Established(w) \/ Writeable(w) \/ Flushed(w) \/ PeerGone(w) \/ Destroy(w)
  \/ \E final \in BOOLEAN, rest \in {"none", "some", "excess"} : Receive(w, final, rest)

Next ==
  \/ Stop \/ Top \/ Collect \/ Ask \/ Serviced
  \/ \E w \in Wsis : Send(w) \/ CloseConnection(w) \/ Callback(w)

Spec == Init /\ [][Next]_vars

\* The service thread runs; the poll passes over no ready socket for ever,
\* and the peer reads what is sent to it.
FairSpec ==
  /\ Spec /\ WF_vars(Top \/ Collect \/ Ask) /\ WF_vars(Serviced)
  /\ \A w \in Wsis : SF_vars(Writeable(w)) /\ SF_vars(Flushed(w)) /\ WF_vars(Destroy(w))

(***************************************************************************)
(* Properties                                                              *)
(***************************************************************************)

TypeOK ==
  /\ DOMAIN send_cache_ \subseteq Wsis
  /\ \A w \in DOMAIN send_cache_ :
       send_cache_[w] \in [sendBuf_ : Seq(0..MaxMsgs), size : Nat,
                           updated_ : BOOLEAN, sending_ : BOOLEAN]
  /\ Live \subseteq Wsis
  /\ \A w \in Live : inout[w] \in [send_ : Seq(0..MaxMsgs), bframe_ : BOOLEAN, held : Nat]
  /\ server_updated_ \in BOOLEAN /\ stopped_ \in BOOLEAN
  /\ pc \in {"top", "collect", "ask", "service", "ended"}
  /\ {updateds, writable, partial, dying, mid} \subseteq SUBSET Wsis
  /\ conn \in [Wsis -> 0..MaxConns]
  /\ conns \in 0..MaxConns /\ msgs \in 0..MaxMsgs /\ pieces \in 0..MaxPieces
  /\ sent \in [1..MaxConns -> Seq(0..MaxMsgs)] /\ given \in [1..MaxConns -> Seq(0..MaxMsgs)]
  /\ cut \subseteq 1..MaxConns

\* Besides the types: only open connections have entries, the service thread
\* never asks a callback for a wsi libwebsockets has freed meanwhile, and a
\* buffer exceeds SERVRE_CACHE_MAX by the head of one record at most (line
\* 547 leaves the head out of the sum).
EntriesSound ==
  /\ TypeOK
  /\ DOMAIN send_cache_ = Live /\ Live \subseteq Open
  /\ updateds \subseteq Open /\ writable \cup partial \cup dying \subseteq Open
  /\ \A w \in Live : send_cache_[w].size <= CacheMax + HeadSize

\* No send is lost between the two threads: a message in an entry or in the
\* hands of the service thread always has a flag, a request or a buffered
\* write behind it that brings the next WRITEABLE (lines 230-254, 305-312,
\* 416-437 and 564-566 together; updated_ is not raised while sending_).
NothingForgotten ==
  CallsBack =>
    \A w \in Live \ (dying \cup writable \cup partial \cup updateds) :
      /\ inout[w].send_ = <<>> /\ ~send_cache_[w].sending_
      /\ send_cache_[w].sendBuf_ # <<>> => send_cache_[w].updated_ /\ server_updated_

\* What a peer is sent is a beginning of what was accepted for its connection,
\* in order and without a gap, even when the buffer has overflown and was
\* thrown away; nothing queued behind a Close is sent. Up to an overflow,
\* what has not been written is still in the two buffers.
PrefixSent ==
  /\ \A c \in 1..MaxConns : IsPrefix(given[c], sent[c]) /\ Close \notin Range(given[c])
  /\ \A w \in Live \ dying : conn[w] \notin cut =>
       sent[conn[w]] = given[conn[w]] \o inout[w].send_ \o send_cache_[w].sendBuf_

\* A text or binary message that comes in one piece is handed on by itself:
\* to TextReceived or BinaryReceived, which WebsocketServer.h:27 presents as
\* the callback for "text data" (in Chinese) and which are all an
\* IWebsocketServerCallBack has. The code does not: the first piece raises
\* bframe_ and leaves before the test of the last piece (lines 176-181).
WholeMessagesReceived ==
  \A r \in reported : r.onePiece => r.by = "whole" /\ r.held = 1

\* Every accepted message is written, unless its connection ends, its buffer
\* overflows or a Close is before it, or the server is stopped. It rests on
\* CallsBack = TRUE: that libwebsockets calls back by itself when it has got
\* rid of a write it buffered, where libwebsockets.h:4590 tells the user to
\* "ask for a new writeable callback" and the code (line 305) does not; with
\* CallsBack = FALSE what is behind a buffered write may wait for ever.
SentOrGone ==
  \A c \in 1..MaxConns : \A m \in 1..MaxMsgs :
    m \in Range(sent[c]) ~>
      \/ m \in Range(given[c]) \/ c \in cut \/ stopped_
      \/ \A w \in Wsis : conn[w] # c

==============================================================================
