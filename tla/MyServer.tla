------------------------------ MODULE MyServer ------------------------------
(***************************************************************************)
(* LibuvServer_test/MyServer: an echo service on RJTcpServer.              *)
(*                                                                         *)
(* The loop thread reports connections, messages and disconnections;       *)
(* OnMsg queues a message with the pointer of its client.  A dispatcher    *)
(* thread polls that queue and answers STX_COMMAND through                 *)
(* RJTcpServer::Send, by that pointer, long after the client may be gone.  *)
(* The main thread broadcasts to m_clients without m_clientsLock.          *)
(*                                                                         *)
(* RJTcpServer is reduced to what its own module shows: one connection at  *)
(* a time per address, an ordered queue of buffers, each written to        *)
(* whatever connection has the address by then, or dropped.                *)
(***************************************************************************)
EXTENDS Integers, Sequences, FiniteSets

CONSTANTS Addrs,     \* addresses of uv_tcp_client objects
          MaxConns,  \* bound: connections
          MaxReqs,   \* bound: messages from clients
          MaxCasts   \* bound: broadcasts

ASSUME EchoAssumption ==
    IsFiniteSet(Addrs) /\ MaxConns \in Nat /\ MaxReqs \in Nat /\ MaxCasts \in Nat

VARIABLES live,      \* the connection at each address, or 0 (RJTcpServer)
          sendQueue, \* RJTcpServer::m_send_buf: [to, n], n = 0 for a broadcast
          clients,   \* MyServer::m_clients
          bufs,      \* m_bufs: [n, from, stx]
          hasNew,    \* m_has_new_msg
          tempBufs,  \* temp_bufs of the dispatcher
          despatcher, \* the dispatcher: "poll" or "despatch"
          cast,      \* Broadcast: [at, end, changed]: where the loop has come to
                     \* (0: no broadcast), the end it has fixed, and whether
                     \* m_clients has changed since
          conns, casts, \* history: how many connections and broadcasts
          left,      \* history: connections that ended
          asker,     \* history: the connection of each request, in order
          handled,   \* history: requests despatched, in order
          got        \* history: echoes each connection received

netVars == <<live, sendQueue, got>>
despatchVars == <<bufs, hasNew, tempBufs, despatcher, handled>>
count == <<conns, casts, left, asker>>
echoVars == <<netVars, despatchVars, clients, cast, count>>

Conns == 1..MaxConns
Reqs == 1..MaxReqs
NoCast == [at |-> 0, end |-> 0, changed |-> FALSE]

EchoInit ==
    /\ live = [h \in Addrs |-> 0] /\ sendQueue = <<>> /\ clients = <<>>
    /\ bufs = <<>> /\ hasNew = FALSE /\ tempBufs = <<>> /\ despatcher = "poll"
    /\ cast = NoCast /\ conns = 0 /\ casts = 0
    /\ left = {} /\ asker = <<>> /\ handled = <<>>
    /\ got = [c \in Conns |-> <<>>]

\* Where std::find stops.
Found(h, k) == clients[k] = h /\ \A j \in 1..(k - 1) : clients[j] # h
Listed(h) == \E k \in 1..Len(clients) : clients[k] = h

ErasedAt(s, k) == [j \in 1..(Len(s) - 1) |-> s[IF j < k THEN j ELSE j + 1]]

\* m_clients.erase of what std::find has found.
Erase(h) ==
    \/ ~Listed(h) /\ UNCHANGED clients
    \/ \E k \in 1..Len(clients) : Found(h, k) /\ clients' = ErasedAt(clients, k)

\* A change of m_clients under the iterators of a Broadcast on its way.
Disturb == cast' = [cast EXCEPT !.changed = cast.at # 0]

-----------------------------------------------------------------------------
(* Callbacks on the loop thread. *)

\* Listed only if it is not listed already.
OnNewConnection(h) ==
    /\ live[h] = 0 /\ conns < MaxConns
    /\ conns' = conns + 1
    /\ live' = [live EXCEPT ![h] = conns + 1]
    /\ clients' = IF Listed(h) THEN clients ELSE Append(clients, h)
    /\ Disturb
    /\ UNCHANGED <<sendQueue, got, despatchVars, casts, left, asker>>

OnDisconnection(h) ==
    /\ live[h] # 0
    /\ left' = left \cup {live[h]}
    /\ live' = [live EXCEPT ![h] = 0]
    /\ Erase(h) /\ Disturb
    /\ UNCHANGED <<sendQueue, got, despatchVars, conns, casts, asker>>

\* Mutant: the message is pushed, the flag is not raised.
ServerOnMsg_Unflagged(h) ==
    /\ live[h] # 0 /\ Len(asker) < MaxReqs
    /\ \E stx \in BOOLEAN : bufs' = Append(bufs, [n |-> Len(asker) + 1, from |-> h, stx |-> stx])
    /\ asker' = Append(asker, live[h])
    /\ UNCHANGED <<netVars, hasNew, tempBufs, despatcher, handled, clients, cast, conns, casts, left>>

\* A whole message from a client, STX_COMMAND or another.
ServerOnMsg(h) ==
    /\ live[h] # 0 /\ Len(asker) < MaxReqs
    /\ \E stx \in BOOLEAN : bufs' = Append(bufs, [n |-> Len(asker) + 1, from |-> h, stx |-> stx])
    /\ asker' = Append(asker, live[h])
    /\ hasNew' = TRUE
    /\ UNCHANGED <<netVars, tempBufs, despatcher, handled, clients, cast, conns, casts, left>>

\* RJTcpServer writes the buffer at the head of its queue, if CheckClient
\* finds somebody at the address.
ServerWrites ==
    /\ sendQueue # <<>>
    /\ sendQueue' = Tail(sendQueue)
    /\ LET m == Head(sendQueue)  c == live[m.to] IN
       got' = IF c # 0 /\ m.n # 0 THEN [got EXCEPT ![c] = Append(@, m.n)] ELSE got
    /\ UNCHANGED <<live, despatchVars, clients, cast, count>>

-----------------------------------------------------------------------------
(* The dispatcher thread. *)

\* Mutant: the queue is copied, not swapped out.
Poll_Copies ==
    /\ despatcher = "poll" /\ hasNew
    /\ tempBufs' = bufs /\ UNCHANGED bufs
    /\ hasNew' = FALSE
    /\ despatcher' = "despatch"
    /\ UNCHANGED <<netVars, handled, clients, cast, count>>

\* Under m_bufs_lock: swap if there is something new.
Poll ==
    /\ despatcher = "poll" /\ hasNew
    /\ tempBufs' = bufs /\ bufs' = tempBufs
    /\ hasNew' = FALSE
    /\ despatcher' = "despatch"
    /\ UNCHANGED <<netVars, handled, clients, cast, count>>

EchoCmd(m) ==
    sendQueue' = IF m.stx THEN Append(sendQueue, [to |-> m.from, n |-> m.n]) ELSE sendQueue

DespatchMsg ==
    /\ despatcher = "despatch"
    /\ LET m == Head(tempBufs) IN EchoCmd(m) /\ handled' = Append(handled, m.n)
    /\ tempBufs' = Tail(tempBufs)
    /\ despatcher' = IF Tail(tempBufs) = <<>> THEN "poll" ELSE "despatch"
    /\ UNCHANGED <<live, got, bufs, hasNew, clients, cast, count>>

-----------------------------------------------------------------------------
(* The main thread. *)

\* The range-for reads begin() and end() once, before its first turn.
BroadcastBegin ==
    /\ cast = NoCast /\ casts < MaxCasts
    /\ cast' = [at |-> 1, end |-> Len(clients), changed |-> FALSE]
    /\ casts' = casts + 1
    /\ UNCHANGED <<netVars, despatchVars, clients, conns, left, asker>>

\* One turn of the loop over m_clients, up to the end it has fixed. If the
\* loop thread has inserted or erased meanwhile, the iterators are no longer
\* valid and what is read is undefined: any client's address, skipped, stale
\* or repeated, or a value that is nobody's, which Send's CheckClient drops.
BroadcastOne ==
    /\ cast.at # 0
    /\ IF cast.at <= cast.end
       THEN /\ \/ \E h \in Addrs :
                    /\ ~cast.changed => h = clients[cast.at]
                    /\ sendQueue' = Append(sendQueue, [to |-> h, n |-> 0])
               \/ cast.changed /\ UNCHANGED sendQueue
            /\ cast' = [cast EXCEPT !.at = @ + 1]
       ELSE cast' = NoCast /\ UNCHANGED sendQueue
    /\ UNCHANGED <<live, got, despatchVars, clients, count>>

EchoNext ==
    \/ \E h \in Addrs : OnNewConnection(h) \/ OnDisconnection(h) \/ ServerOnMsg(h)
    \/ ServerWrites
    \/ Poll \/ DespatchMsg
    \/ BroadcastBegin \/ BroadcastOne

EchoSpec == EchoInit /\ [][EchoNext]_echoVars

EchoFairSpec == EchoSpec /\ WF_echoVars(Poll \/ DespatchMsg) /\ WF_echoVars(ServerWrites)

-----------------------------------------------------------------------------
Buffers == [n : Reqs, from : Addrs, stx : BOOLEAN]

(***************************************************************************)
(* m_clients is the server's list of clients: the same addresses, each     *)
(* once.                                                                   *)
(***************************************************************************)
ListsTheLive ==
    /\ {clients[k] : k \in 1..Len(clients)} = {h \in Addrs : live[h] # 0}
    /\ \A j, k \in 1..Len(clients) : clients[j] = clients[k] => j = k

(* The values the state may take; part of EchoesRight. *)
EchoTypeOK ==
    /\ live \in [Addrs -> 0..MaxConns]
    /\ sendQueue \in Seq([to : Addrs, n : 0..MaxReqs])
    /\ clients \in Seq(Addrs) /\ ListsTheLive
    /\ bufs \in Seq(Buffers) /\ tempBufs \in Seq(Buffers)
    /\ hasNew \in BOOLEAN
    /\ despatcher \in {"poll", "despatch"}
    /\ despatcher = "despatch" <=> tempBufs # <<>>
    /\ cast \in [at : 0..(Cardinality(Addrs) + 1), end : 0..Cardinality(Addrs), changed : BOOLEAN]
    /\ conns \in 0..MaxConns /\ casts \in 0..MaxCasts
    /\ left \subseteq Conns
    /\ asker \in Seq(Conns) /\ handled \in Seq(Reqs)
    /\ got \in [Conns -> Seq(Reqs)]

Nums(s) == [k \in 1..Len(s) |-> s[k].n]

(***************************************************************************)
(* Messages are despatched once each and in the order of their arrival.    *)
(***************************************************************************)
DespatchedInOrder ==
    handled \o Nums(tempBufs) \o Nums(bufs) = [k \in 1..Len(asker) |-> k]

(***************************************************************************)
(* A connection gets at most one echo per request, in order.               *)
(***************************************************************************)
EchoedInOrder ==
    \A c \in Conns : \A j, k \in 1..Len(got[c]) : j < k => got[c][j] < got[c][k]

(***************************************************************************)
(* An echo goes to another connection than the asker only if the asker has *)
(* been reported gone before (and its address given to the other).         *)
(***************************************************************************)
EchoAstrayOnlyIfGone ==
    \A c \in Conns : \A k \in 1..Len(got[c]) : asker[got[c][k]] # c => asker[got[c][k]] \in left

(***************************************************************************)
(* The state is well formed, no message is skipped, and an echo reaches    *)
(* the asker, unless it has left, in the order of the requests.            *)
(***************************************************************************)
EchoesRight == EchoTypeOK /\ DespatchedInOrder /\ EchoedInOrder /\ EchoAstrayOnlyIfGone

(***************************************************************************)
(* Every message is despatched, though the dispatcher only polls.          *)
(***************************************************************************)
AllDespatched ==
    \A n \in Reqs : Len(asker) >= n ~> \E k \in 1..Len(handled) : handled[k] = n
=============================================================================
