--------------------------- MODULE WebsocketClient ---------------------------
(***************************************************************************)
(* websock_net/WebsocketClient.cpp and WebSock.cpp: WebSocket clients that *)
(* share one service thread and connect again by themselves.               *)
(*                                                                         *)
(* Connect puts a request into connect_queue_ and raises has_new_connect_. *)
(* The thread takes the queue, keeps back what is not due yet and tries    *)
(* the rest. client_message_cache_ says for a wsi whose connection it is   *)
(* and holds what is to be sent; libwebsockets uses the addresses again.   *)
(* A lost connection puts a retry into the queue.                          *)
(*                                                                         *)
(* The sizes of buffers and writes that libwebsockets buffers are treated  *)
(* as in the server (WebsocketServer) and are left out here.               *)
(***************************************************************************)
EXTENDS Naturals, Sequences, SequencesExt

CONSTANTS
  Socks,        \* WebSock objects
  AutoReconnect, \* those with auto_reconnect_
  Wsis,         \* addresses libwebsockets gives its connections, used again
  NoSock, NoWsi,
  MaxRequests,  \* bound: calls of Connect in a run
  MaxConns,     \* bound: connections in a run
  MaxMsgs       \* bound: messages and closes in a run

ASSUME ClientAssumption ==
  /\ AutoReconnect \subseteq Socks /\ NoSock \notin Socks /\ NoWsi \notin Wsis
  /\ {MaxRequests, MaxConns, MaxMsgs} \subseteq Nat

VARIABLES
  wsi_, bFirst_,          \* of each WebSock
  client_message_cache_,  \* wsi -> [websock_, sendBuf_, updated_, sending_]
  connect_queue_,
  has_new_connect_, bnew_data_to_send_, stopped_,
  closing,                \* WebSocks whose Close has set bFirst_ and not sent yet
  pc,                     \* the service thread
  retry,                  \* the WebSock it decides about, and why
  delayed_connect, tmp_connect,
  fresh,                  \* the connection just made, not registered yet
  updateds,
  up,                     \* wsis of established connections, with a ClientInOut
  writable, dying,        \* libwebsockets
  conn,                   \* history: wsi -> number of its connection, 0 when free
  own,                    \* history: WebSock -> its last connection
  conns, msgs, requests,  \* history: how many so far
  written,                \* history: what was sent, for and on which connection
  stale,                  \* history: wsis sent to after their connection ended
  told, wiped, ended,     \* history: connections reported lost; whose entry a
                          \* ~WebSock erased; destroyed
  closed                  \* history: WebSocks closed, and since then neither asked
                          \* to connect nor connected

sock   == <<wsi_, bFirst_, closing>>
shared == <<client_message_cache_, bnew_data_to_send_>>
queue  == <<connect_queue_, has_new_connect_>>
thread == <<pc, retry, delayed_connect, tmp_connect, fresh, updateds>>
lws    == <<up, writable, dying, conn>>
count  == <<conns, msgs, requests>>
seen   == <<own, written, stale, told, wiped, ended, closed>>
vars   == <<sock, shared, queue, stopped_, thread, lws, count, seen>>

Close == "close"
Open == {w \in Wsis : conn[w] # 0}
With(f, w, e) == [x \in DOMAIN f \cup {w} |-> IF x = w THEN e ELSE f[x]]
Without(f, w) == [x \in DOMAIN f \ {w} |-> f[x]]
EmptyItem == [websock_ |-> NoSock, sendBuf_ |-> <<>>, updated_ |-> FALSE, sending_ |-> FALSE]
ItemOf(w) == IF w \in DOMAIN client_message_cache_ THEN client_message_cache_[w] ELSE EmptyItem

\* A request: it has to wait until its time has come, why it was made, and
\* whether s has been closed since (history).
Item(s, waits, why) == [websock_ |-> s, waits |-> waits, why |-> why, old |-> FALSE]
Marked(q, s) == [i \in DOMAIN q |-> IF q[i].websock_ = s THEN [q[i] EXCEPT !.old = TRUE] ELSE q[i]]
Pending == Range(connect_queue_) \cup Range(delayed_connect) \cup Range(tmp_connect)

\* The thread decides about no WebSock: next is where it goes on, on the
\* number of the connection that was lost.
NoRetry == [websock_ |-> NoSock, why |-> "failed", next |-> "service", on |-> 0, old |-> FALSE]
Deciding(s) == pc = "again" /\ retry.websock_ = s

Init ==
  /\ wsi_ = [s \in Socks |-> NoWsi] /\ bFirst_ = [s \in Socks |-> TRUE]
  /\ closing = {} /\ retry = NoRetry
  /\ client_message_cache_ = <<>> /\ connect_queue_ = <<>>
  /\ has_new_connect_ = FALSE /\ bnew_data_to_send_ = FALSE /\ stopped_ = FALSE
  /\ pc = "top" /\ delayed_connect = <<>> /\ tmp_connect = <<>> /\ updateds = {}
  /\ fresh = [websock_ |-> NoSock, wsi |-> NoWsi, next |-> "top"]
  /\ up = {} /\ writable = {} /\ dying = {}
  /\ conn = [w \in Wsis |-> 0] /\ own = [s \in Socks |-> 0]
  /\ conns = 0 /\ msgs = 0 /\ requests = 0
  /\ written = {} /\ stale = {} /\ told = {} /\ wiped = {} /\ ended = {} /\ closed = {}

(***************************************************************************)
(* Any thread                                                              *)
(***************************************************************************)

\* mutant: the flag is raised for the first request of a queue only
Connect_First(s) ==
  /\ requests < MaxRequests /\ requests' = requests + 1
  /\ connect_queue_' = Append(connect_queue_, Item(s, FALSE, "asked"))
  /\ has_new_connect_' = (has_new_connect_ \/ connect_queue_ = <<>>)
  /\ closed' = closed \ {s}
  /\ UNCHANGED <<sock, shared, stopped_, thread, lws, conns, msgs,
                 own, written, stale, told, wiped, ended>>

\* WebSock::Connect and WebsocketClient::Connect: due at once
Connect(s) ==
  /\ requests < MaxRequests /\ requests' = requests + 1
  /\ connect_queue_' = Append(connect_queue_, Item(s, FALSE, "asked"))
  /\ has_new_connect_' = TRUE
  /\ closed' = closed \ {s}
  /\ UNCHANGED <<sock, shared, stopped_, thread, lws, conns, msgs,
                 own, written, stale, told, wiped, ended>>

\* ClinetMetaSend: operator[] makes an entry where there is none. wsi_ is
\* never reset, so it may stand for a connection that has ended.
MetaSend(s, rec) ==
  LET w    == wsi_[s]
      item == ItemOf(w)
  IN  /\ w # NoWsi
      /\ client_message_cache_' = With(client_message_cache_, w,
           [item EXCEPT !.sendBuf_ = Append(@, [rec |-> rec, on |-> own[s], late |-> conn[w] # own[s]]),
                        !.updated_ = @ \/ ~item.sending_])
      /\ bnew_data_to_send_' = (bnew_data_to_send_ \/ ~item.sending_)
      /\ stale' = IF conn[w] # own[s] THEN stale \cup {w} ELSE stale

\* SendText, SendBinary and Ping
Send(s) ==
  /\ msgs < MaxMsgs /\ msgs' = msgs + 1
  /\ MetaSend(s, "data")
  /\ UNCHANGED <<sock, queue, stopped_, thread, lws, conns, requests,
                 own, written, told, wiped, ended, closed>>

\* mutant: bFirst_ stays as it is
CloseStore_MayRetry(s) ==
  /\ msgs < MaxMsgs /\ msgs' = msgs + 1
  /\ s \notin closing /\ closing' = closing \cup {s}
  /\ closed' = closed \cup {s}
  /\ connect_queue_' = Marked(connect_queue_, s)
  /\ delayed_connect' = Marked(delayed_connect, s)
  /\ tmp_connect' = Marked(tmp_connect, s)
  /\ retry' = [retry EXCEPT !.old = @ \/ Deciding(s)]
  /\ UNCHANGED <<wsi_, bFirst_, shared, has_new_connect_, stopped_, pc, fresh, updateds, lws,
                 conns, requests, own, written, stale, told, wiped, ended>>

\* WebSock::Close, its store: bFirst_ keeps the thread from trying again. The
\* retries it has decided on by now stay (history: they are old).
CloseStore(s) ==
  /\ msgs < MaxMsgs /\ msgs' = msgs + 1
  /\ s \notin closing /\ closing' = closing \cup {s}
  /\ bFirst_' = [bFirst_ EXCEPT ![s] = TRUE]
  /\ closed' = closed \cup {s}
  /\ connect_queue_' = Marked(connect_queue_, s)
  /\ delayed_connect' = Marked(delayed_connect, s)
  /\ tmp_connect' = Marked(tmp_connect, s)
  /\ retry' = [retry EXCEPT !.old = @ \/ Deciding(s)]
  /\ UNCHANGED <<wsi_, shared, has_new_connect_, stopped_, pc, fresh, updateds, lws,
                 conns, requests, own, written, stale, told, wiped, ended>>

\* WebSock::Close, the rest: CloseConnection, if there has been a wsi
CloseSend(s) ==
  /\ s \in closing /\ closing' = closing \ {s}
  /\ IF wsi_[s] = NoWsi THEN UNCHANGED <<shared, stale>> ELSE MetaSend(s, Close)
  /\ UNCHANGED <<wsi_, bFirst_, queue, stopped_, thread, lws, count,
                 own, written, told, wiped, ended, closed>>

\* ~WebSock and ClearRegisterCache, once the application has no further use
\* for the object: its connection has ended and none is asked for. The next
\* object at its place starts from nothing.
Delete(s) ==
  /\ wsi_[s] # NoWsi /\ conn[wsi_[s]] # own[s]
  /\ s \notin closing /\ s \notin {fresh.websock_, retry.websock_}
  /\ \A i \in Pending : i.websock_ # s
  /\ client_message_cache_' = Without(client_message_cache_, wsi_[s])
  /\ wiped' = IF wsi_[s] \in Open THEN wiped \cup {conn[wsi_[s]]} ELSE wiped
  /\ wsi_' = [wsi_ EXCEPT ![s] = NoWsi] /\ bFirst_' = [bFirst_ EXCEPT ![s] = TRUE]
  /\ UNCHANGED <<closing, bnew_data_to_send_, queue, stopped_, thread, lws, count,
                 own, written, stale, told, ended, closed>>

Stop ==
  /\ ~stopped_ /\ stopped_' = TRUE
  /\ UNCHANGED <<sock, shared, queue, thread, lws, count, seen>>

(***************************************************************************)
(* The service thread: WebsocketClient::run                                *)
(***************************************************************************)

\* while (!stopped_) and nowtime
Top ==
  /\ pc = "top" /\ pc' = IF stopped_ THEN "ended" ELSE "delayed"
  /\ UNCHANGED <<sock, shared, queue, stopped_, retry, delayed_connect, tmp_connect, fresh, updateds,
                 lws, count, seen>>

\* A second passes: the time of the i-th request kept back has come.
Due(i) ==
  /\ pc = "top" /\ i \in DOMAIN delayed_connect /\ delayed_connect[i].waits
  /\ delayed_connect' = [delayed_connect EXCEPT ![i].waits = FALSE]
  /\ UNCHANGED <<sock, shared, queue, stopped_, pc, retry, tmp_connect, fresh, updateds, lws, count, seen>>

\* lws_client_connect_via_info for s gives a wsi, or it fails at once, with or
\* without making and destroying a wsi: check_reconnect then erases what an old
\* send has left at that address.
Try(s, next) ==
  \/ /\ client_message_cache_' \in {client_message_cache_}
           \cup {Without(client_message_cache_, w) : w \in Wsis \ Open}
     /\ pc' = "test" /\ retry' = [NoRetry EXCEPT !.websock_ = s, !.next = next]
     /\ UNCHANGED <<wsi_, fresh, conn, conns, own>>
  \/ \E w \in Wsis \ Open :
       /\ conns < MaxConns /\ conns' = conns + 1
       /\ conn' = [conn EXCEPT ![w] = conns'] /\ own' = [own EXCEPT ![s] = conns']
       /\ wsi_' = [wsi_ EXCEPT ![s] = w]
       /\ fresh' = [websock_ |-> s, wsi |-> w, next |-> next]
       /\ pc' = "register"
       /\ UNCHANGED <<client_message_cache_, retry>>

\* The walk over delayed_connect tries the first request that is due.
TryDelayed ==
  /\ pc = "delayed"
  /\ \E i \in DOMAIN delayed_connect :
       /\ ~delayed_connect[i].waits /\ \A j \in 1..(i - 1) : delayed_connect[j].waits
       /\ delayed_connect' = RemoveAt(delayed_connect, i)
       /\ Try(delayed_connect[i].websock_, "delayed")
  /\ UNCHANGED <<bFirst_, closing, bnew_data_to_send_, queue, stopped_, tmp_connect, updateds,
                 up, writable, dying, msgs, requests, written, stale, told, wiped, ended, closed>>

\* if (has_new_connect_): the queue is swapped out
TakeQueue ==
  /\ pc = "delayed" /\ \A i \in DOMAIN delayed_connect : delayed_connect[i].waits
  /\ IF has_new_connect_
     THEN /\ tmp_connect' = connect_queue_ /\ connect_queue_' = <<>>
          /\ has_new_connect_' = FALSE /\ pc' = "taken"
     ELSE pc' = "data" /\ UNCHANGED <<queue, tmp_connect>>
  /\ UNCHANGED <<sock, shared, stopped_, retry, delayed_connect, fresh, updateds, lws, count, seen>>

TryTaken ==
  /\ pc = "taken" /\ tmp_connect # <<>>
  /\ LET i == Head(tmp_connect) IN
       IF i.waits
       THEN delayed_connect' = Append(delayed_connect, i)
            /\ UNCHANGED <<wsi_, client_message_cache_, pc, retry, fresh, conn, conns, own>>
       ELSE Try(i.websock_, "taken") /\ UNCHANGED delayed_connect
  /\ tmp_connect' = Tail(tmp_connect)
  /\ UNCHANGED <<bFirst_, closing, bnew_data_to_send_, queue, stopped_, updateds,
                 up, writable, dying, msgs, requests, written, stale, told, wiped, ended, closed>>

\* mutant: insert(), which leaves an entry that is there as it is
Register_Inserts ==
  /\ pc = "register" /\ pc' = fresh.next
  /\ client_message_cache_' =
       IF fresh.wsi \in DOMAIN client_message_cache_ THEN client_message_cache_
       ELSE With(client_message_cache_, fresh.wsi, [EmptyItem EXCEPT !.websock_ = fresh.websock_])
  /\ fresh' = [fresh EXCEPT !.websock_ = NoSock, !.wsi = NoWsi]
  /\ UNCHANGED <<sock, bnew_data_to_send_, queue, stopped_, retry, delayed_connect, tmp_connect,
                 updateds, lws, count, seen>>

\* client_message_cache_[wsi].websock_ = websock_: a message may be there already
Register ==
  /\ pc = "register" /\ pc' = fresh.next
  /\ client_message_cache_' = With(client_message_cache_, fresh.wsi,
       [ItemOf(fresh.wsi) EXCEPT !.websock_ = fresh.websock_])
  /\ fresh' = [fresh EXCEPT !.websock_ = NoSock, !.wsi = NoWsi]
  /\ UNCHANGED <<sock, bnew_data_to_send_, queue, stopped_, retry, delayed_connect, tmp_connect,
                 updateds, lws, count, seen>>

\* if (bnew_data_to_send_): sending_ is not looked at
Collect ==
  /\ pc = "data" \/ (pc = "taken" /\ tmp_connect = <<>>)
  /\ IF bnew_data_to_send_
     THEN /\ updateds' = {w \in DOMAIN client_message_cache_ : client_message_cache_[w].updated_}
          /\ client_message_cache_' = [w \in DOMAIN client_message_cache_ |->
               [client_message_cache_[w] EXCEPT !.updated_ = FALSE]]
          /\ bnew_data_to_send_' = FALSE
     ELSE UNCHANGED <<updateds, shared>>
  /\ pc' = "ask"
  /\ UNCHANGED <<sock, queue, stopped_, retry, delayed_connect, tmp_connect, fresh, lws, count, seen>>

\* lws_callback_on_writable; for a freed wsi its outcome is undefined, and
\* the model lets it do nothing
Ask ==
  /\ pc = "ask" /\ pc' = "service"
  /\ writable' = writable \cup (updateds \cap Open) /\ updateds' = {}
  /\ UNCHANGED <<sock, shared, queue, stopped_, retry, delayed_connect, tmp_connect, fresh,
                 up, dying, conn, count, seen>>

Serving == pc = "service" /\ dying = {}
Serviced ==
  /\ Serving /\ pc' = "top"
  /\ UNCHANGED <<sock, shared, queue, stopped_, retry, delayed_connect, tmp_connect, fresh, updateds,
                 lws, count, seen>>

\* LWS_CALLBACK_CLIENT_ESTABLISHED and WebSock::__connected: what a Close has
\* stored in bFirst_ in the meantime is lost.
Established(w) ==
  /\ Serving /\ w \in Open \ up
  /\ up' = up \cup {w}
  /\ bFirst_' = [s \in Socks |-> bFirst_[s] /\ s # ItemOf(w).websock_]
  /\ closed' = closed \ {ItemOf(w).websock_}
  /\ UNCHANGED <<wsi_, closing, shared, queue, stopped_, thread, writable, dying, conn, count,
                 own, written, stale, told, wiped, ended>>

\* LWS_CALLBACK_CLIENT_WRITEABLE takes the buffer over and writes it up to a
\* Close; once it has written all, it asks for another callback.
Writeable(w) ==
  LET known == w \in DOMAIN client_message_cache_
      buf   == ItemOf(w).sendBuf_
      sent  == {i \in DOMAIN buf : \A j \in 1..(i - 1) : buf[j].rec # Close}
  IN  /\ Serving /\ w \in writable \cap up
      /\ client_message_cache_' =
           IF known THEN [client_message_cache_ EXCEPT ![w].sendBuf_ = <<>>, ![w].sending_ = buf # <<>>]
                    ELSE client_message_cache_
      /\ written' = written \cup {[on |-> conn[w], for |-> buf[i].on, late |-> buf[i].late] : i \in sent}
      /\ dying' = IF \E i \in sent : buf[i].rec = Close THEN {w} ELSE {}
      /\ writable' = IF buf = <<>> \/ dying' # {} THEN writable \ {w} ELSE writable
      /\ UNCHANGED <<sock, bnew_data_to_send_, queue, stopped_, thread, up, conn, count,
                     own, stale, told, wiped, ended, closed>>

\* The peer goes away, or cannot be reached.
PeerGone(w) ==
  /\ Serving /\ w \in Open /\ dying' = {w}
  /\ UNCHANGED <<sock, shared, queue, stopped_, thread, up, writable, conn, count, seen>>

\* mutant: the entry is not erased
Erase_KeepsItem(w) ==
  LET s == ItemOf(w).websock_
  IN  /\ pc = "service" /\ w \in dying
      /\ UNCHANGED client_message_cache_
      /\ IF s = NoSock THEN UNCHANGED <<pc, retry>>
         ELSE pc' = "lost" /\ retry' = [NoRetry EXCEPT !.websock_ = s, !.why = "lost", !.on = conn[w]]
      /\ ended' = ended \cup {conn[w]}
      /\ up' = up \ {w} /\ writable' = writable \ {w}
      /\ dying' = {} /\ conn' = [conn EXCEPT ![w] = 0]
      /\ UNCHANGED <<sock, bnew_data_to_send_, queue, stopped_, delayed_connect, tmp_connect, fresh,
                     updateds, count, own, written, stale, told, wiped, closed>>

\* mutant: the entry is kept for the retry
Erase_KeepsQueued(w) ==
  LET s == ItemOf(w).websock_
  IN  /\ pc = "service" /\ w \in dying
      /\ client_message_cache_' = IF s \in AutoReconnect /\ ~bFirst_[s]
           THEN client_message_cache_ ELSE Without(client_message_cache_, w)
      /\ IF s = NoSock THEN UNCHANGED <<pc, retry>>
         ELSE pc' = "lost" /\ retry' = [NoRetry EXCEPT !.websock_ = s, !.why = "lost", !.on = conn[w]]
      /\ ended' = ended \cup {conn[w]}
      /\ up' = up \ {w} /\ writable' = writable \ {w}
      /\ dying' = {} /\ conn' = [conn EXCEPT ![w] = 0]
      /\ UNCHANGED <<sock, bnew_data_to_send_, queue, stopped_, delayed_connect, tmp_connect, fresh,
                     updateds, count, own, written, stale, told, wiped, closed>>

\* LWS_CALLBACK_WSI_DESTROY and check_reconnect, up to its first unlock
Erase(w) ==
  LET s == ItemOf(w).websock_
  IN  /\ pc = "service" /\ w \in dying
      /\ client_message_cache_' = Without(client_message_cache_, w)
      /\ IF s = NoSock THEN UNCHANGED <<pc, retry>>
         ELSE pc' = "lost" /\ retry' = [NoRetry EXCEPT !.websock_ = s, !.why = "lost", !.on = conn[w]]
      /\ ended' = ended \cup {conn[w]}
      /\ up' = up \ {w} /\ writable' = writable \ {w}
      /\ dying' = {} /\ conn' = [conn EXCEPT ![w] = 0]
      /\ UNCHANGED <<sock, bnew_data_to_send_, queue, stopped_, delayed_connect, tmp_connect, fresh,
                     updateds, count, own, written, stale, told, wiped, closed>>

\* Disconnected(), outside the lock
Disconnected ==
  /\ pc = "lost" /\ pc' = "test" /\ told' = told \cup {retry.on}
  /\ UNCHANGED <<sock, shared, queue, stopped_, retry, delayed_connect, tmp_connect, fresh, updateds,
                 lws, count, own, written, stale, wiped, ended, closed>>

\* IsAutoReconnect() && !First(), outside the lock
TestFirst ==
  /\ pc = "test"
  /\ IF retry.websock_ \in AutoReconnect /\ ~bFirst_[retry.websock_]
     THEN pc' = "again" /\ UNCHANGED retry
     ELSE pc' = retry.next /\ retry' = NoRetry
  /\ UNCHANGED <<sock, shared, queue, stopped_, delayed_connect, tmp_connect, fresh, updateds,
                 lws, count, seen>>

\* The retry is put into the queue, after a failed attempt without the flag.
PutBack ==
  /\ pc = "again" /\ pc' = retry.next
  /\ connect_queue_' = Append(connect_queue_,
       [Item(retry.websock_, TRUE, retry.why) EXCEPT !.old = retry.old])
  /\ has_new_connect_' = (has_new_connect_ \/ retry.why = "lost")
  /\ retry' = NoRetry
  /\ UNCHANGED <<sock, shared, stopped_, delayed_connect, tmp_connect, fresh, updateds,
                 lws, count, seen>>

Next ==
  \/ Stop \/ Top \/ TryDelayed \/ TakeQueue \/ TryTaken \/ Register \/ Collect \/ Ask \/ Serviced
  \/ Disconnected \/ TestFirst \/ PutBack
  \/ \E i \in 1..(MaxRequests + MaxConns) : Due(i)
  \/ \E s \in Socks : Connect(s) \/ Send(s) \/ CloseStore(s) \/ CloseSend(s) \/ Delete(s)
  \/ \E w \in Wsis : Established(w) \/ Writeable(w) \/ PeerGone(w) \/ Erase(w)

Spec == Init /\ [][Next]_vars

\* The service thread runs.
FairSpec ==
  /\ Spec
  /\ WF_vars(Top \/ TryDelayed \/ TakeQueue \/ TryTaken \/ Register \/ Collect \/ Ask
             \/ Disconnected \/ TestFirst \/ PutBack)
  /\ WF_vars(Serviced) /\ \A w \in Wsis : WF_vars(Erase(w))

(***************************************************************************)
(* Properties                                                              *)
(***************************************************************************)

Items == [websock_ : Socks, waits : BOOLEAN, why : {"asked", "failed", "lost"}, old : BOOLEAN]
Retries == [websock_ : Socks \cup {NoSock}, why : {"failed", "lost"},
            next : {"delayed", "taken", "service"}, on : 0..MaxConns, old : BOOLEAN]
Records == [rec : {"data", Close}, on : 1..MaxConns, late : BOOLEAN]
Entries == [websock_ : Socks \cup {NoSock}, sendBuf_ : Seq(Records),
            updated_ : BOOLEAN, sending_ : BOOLEAN]

TypeOK ==
  /\ wsi_ \in [Socks -> Wsis \cup {NoWsi}] /\ bFirst_ \in [Socks -> BOOLEAN]
  /\ DOMAIN client_message_cache_ \subseteq Wsis
  /\ \A w \in DOMAIN client_message_cache_ : client_message_cache_[w] \in Entries
  /\ {connect_queue_, delayed_connect, tmp_connect} \subseteq Seq(Items)
  /\ {has_new_connect_, bnew_data_to_send_, stopped_} \subseteq BOOLEAN
  /\ pc \in {"top", "delayed", "taken", "register", "data", "ask", "service", "ended",
             "lost", "test", "again"}
  /\ closing \subseteq Socks /\ retry \in Retries
  /\ {updateds, up, writable, dying, stale} \subseteq SUBSET Wsis
  /\ conn \in [Wsis -> 0..MaxConns] /\ own \in [Socks -> 0..MaxConns]

OpenOrStale == (DOMAIN client_message_cache_ \cup updateds) \ stale \subseteq Open

NamesOwner ==
  \A w \in DOMAIN client_message_cache_ :
    LET s == client_message_cache_[w].websock_
    IN  s # NoSock => w \in Open /\ own[s] >= conn[w]

\* Besides the types: an entry belongs to an open connection and names the
\* WebSock that has it, unless a WebSock sent through the wsi of a connection
\* it had lost. Only then may the thread ask for a wsi that has been freed
\* (line 421: operator[] makes the entry, nobody erases it).
EntriesSound == TypeOK /\ OpenOrStale /\ NamesOwner

\* What a WebSock sends goes over its own connection; over another's only if
\* it sent when its connection had ended already and the address was used
\* again. What was queued in time is dropped with the connection.
RightConnection == \A m \in written : m.on = m.for \/ m.late

\* Disconnected is called, or is about to be, for every connection that ends, of whatever kind the
\* end is, unless a ~WebSock with an old wsi_ has erased the entry of the
\* connection that now has its address (WebSock.cpp:20-24).
NoticeOfLoss == ended \subseteq told \cup wiped \cup (IF pc = "lost" THEN {retry.on} ELSE {})

\* Once Close has raised bFirst_, the thread decides on no further retry for
\* the WebSock, until the application asks for a connection or one that was
\* under way is established. What stood in a queue, or was decided and not
\* queued yet when Close came (lines 115-129), is not taken back.
StaysClosed ==
  \A s \in closed :
    /\ \A i \in Pending : i.websock_ = s => i.old
    /\ Deciding(s) => retry.old

\* Requests made by Connect and retries after a loss are taken up by the
\* service thread, all that are in the queue at once. A retry after a failed attempt is not among them: it is
\* queued without the flag (lines 592-594, 653-655) and stays until another
\* request raises it.
RequestsTaken ==
  (\E i \in Range(connect_queue_) : i.why # "failed")
    ~> stopped_ \/ \A i \in Range(connect_queue_) : i.why = "failed"

==============================================================================
