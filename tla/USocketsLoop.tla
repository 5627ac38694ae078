---------------------------- MODULE USocketsLoop ----------------------------
(***************************************************************************)
(* uSockets: the event loop over epoll, with its intrusive lists.          *)
(*                                                                         *)
(* The sockets of a context are a doubly linked list (head, prev, next). A *)
(* closed one leaves it for the list at closed_head, through the same      *)
(* next, has prev point at its context as the mark of being closed, and is *)
(* freed once the batch of ready events is through. The application's      *)
(* callbacks may close, move, open or time any socket, in the middle of a  *)
(* batch and of a sweep of the timers.                                     *)
(*                                                                         *)
(* A socket is the block of memory it lives in; blocks are used again. mem *)
(* is the memory of the loop, one field for each field of the code's       *)
(* structures, so that a call is an operator from mem to mem. What a       *)
(* socket polls for is left out: any event may come for any open socket,   *)
(* and any connected one may poll for nothing.                             *)
(***************************************************************************)
EXTENDS Naturals, FiniteSets, Functions, Sequences

CONSTANTS
  Blocks,       \* blocks of memory for sockets
  Contexts,     \* the socket contexts, in the order of the loop's list
  NULL,
  MaxTimeout,   \* bound: sweeps a timeout may take
  MaxTimed,     \* bound: sockets with a timeout at one time
  MaxUntold,    \* bound: sockets at one time that epoll has under an old block
  MaxReady      \* bound: events in one batch

ASSUME LoopAssumption ==
  /\ IsFiniteSet(Blocks) /\ {NULL, "timer", "async"} \cap Blocks = {}
  /\ Contexts \in Seq(Nat) /\ Contexts # <<>> /\ IsInjective(Contexts)
  /\ (Range(Contexts) \cup {NULL}) \cap Blocks = {} /\ NULL \notin Range(Contexts)
  /\ MaxTimeout \in Nat /\ MaxReady \in Nat
  /\ MaxTimed \in Nat /\ MaxUntold \in Nat

VARIABLES
  mem,      \* [type, ctx, prev, next, timeout, epoll, head, iterator, closed]: epoll
            \* is the pointer the kernel gives with an event of the block's socket
  ready,    \* events of the batch not dispatched yet: the block their socket was
            \* in when the batch began -> the pointer they carry
  pc,       \* where the loop is
  call,     \* the dispatch or sweep that waits for the callback, its socket, and
            \* the pointer ready_events[fd_iterator] carries, if it is a socket's
  iterator, \* contexts the sweep has left, the first one being swept
  astray    \* history: events that lost their socket where the code lets them:
            \* see EventsReachMemory

loop == <<ready, pc, call, iterator>>
vars == <<mem, loop, astray>>

NoCall == [for |-> "batch", s |-> NULL, at |-> NULL]
Free == {b \in Blocks : mem.type[b] = "free"}
Closed(m, s) == m.prev[s] = m.ctx[s]
Open == {b \in Blocks \ Free : ~Closed(mem, b)}
Sockets == {b \in Open : mem.type[b] # "listen"}

Init ==
  /\ mem = [type |-> [b \in Blocks |-> "free"], ctx |-> [b \in Blocks |-> Contexts[1]],
            prev |-> [b \in Blocks |-> NULL], next |-> [b \in Blocks |-> NULL],
            timeout |-> [b \in Blocks |-> 0], epoll |-> [b \in Blocks |-> b],
            head |-> [c \in Range(Contexts) |-> NULL], iterator |-> [c \in Range(Contexts) |-> NULL],
            closed |-> NULL]
  /\ ready = <<>> /\ iterator = <<>> /\ astray = {}
  /\ pc = "call" /\ call = [NoCall EXCEPT !.for = "wait"]

(***************************************************************************)
(* Lists                                                                   *)
(***************************************************************************)

Unlink(m, s) ==
  LET p == m.prev[s] n == m.next[s] c == m.ctx[s] IN
  [m EXCEPT
    !.iterator[c] = IF @ = s THEN n ELSE @,
    !.head[c] = IF p = n THEN NULL ELSE IF p = NULL THEN n ELSE @,
    !.next = IF p # n /\ p # NULL THEN [@ EXCEPT ![p] = n] ELSE @,
    !.prev = IF p # n /\ n # NULL THEN [@ EXCEPT ![n] = p] ELSE @]

\* At the head, with no timeout.
Link(m, c, s) ==
  LET h == m.head[c] IN
  [m EXCEPT
    !.ctx[s] = c, !.timeout[s] = 0, !.next[s] = h, !.head[c] = s,
    !.prev = [b \in Blocks |-> IF b = s THEN NULL ELSE IF b = h THEN s ELSE @[b]]]

\* mutant: a closed socket is marked the old way, prev = next
Close_OldMark(m, s) ==
  LET u == Unlink(m, s) IN
  [u EXCEPT !.next[s] = u.closed, !.closed = s, !.prev[s] = u.closed, !.epoll[s] = s]

\* us_socket_close for a socket that is not closed; us_poll_stop.
Close(m, s) ==
  LET u == Unlink(m, s) IN
  [u EXCEPT !.next[s] = u.closed, !.closed = s, !.prev[s] = u.ctx[s], !.epoll[s] = s]

\* us_poll_free; nobody reads what a freed block holds.
Release(m, S) ==
  LET reset(f, v) == [b \in Blocks |-> IF b \in S THEN v ELSE f[b]] IN
  [m EXCEPT !.type = reset(@, "free"), !.ctx = reset(@, Contexts[1]),
            !.prev = reset(@, NULL), !.next = reset(@, NULL), !.timeout = reset(@, 0),
            !.epoll = [b \in Blocks |-> IF b \in S THEN b ELSE @[b]]]

\* The blocks on the list that starts at h: the fewest that hold h and, with a
\* block, its next.
From(m, h) ==
  {b \in Blocks : \A S \in SUBSET Blocks :
     b \in S \/ ~ ({h} \cup {m.next[d] : d \in S}) \ {NULL} \subseteq S}

(***************************************************************************)
(* What the application's callbacks do                                     *)
(***************************************************************************)

\* The events still to come that carry the pointer p.
Carrying(p) == {e \in DOMAIN ready : ready[e] = p}

Create(b, c, type) == b \in Free /\ mem' = [Link(mem, c, b) EXCEPT !.type[b] = type]

\* us_socket_context_listen, once, and us_socket_context_connect
Listen(b, c) ==
  /\ pc = "call" /\ \A l \in Blocks : mem.type[l] # "listen"
  /\ Create(b, c, "listen")
  /\ UNCHANGED <<loop, astray>>

Connect(b, c) == pc = "call" /\ Create(b, c, "connect") /\ UNCHANGED <<loop, astray>>

\* us_listen_socket_close frees the socket at once.
ListenClose(l) ==
  /\ pc = "call" /\ mem.type[l] = "listen"
  /\ mem' = Release(Unlink(mem, l), {l})
  /\ astray' = astray \cup Carrying(l)
  /\ UNCHANGED loop

CloseSocket(s) ==
  /\ pc = "call" /\ s \in Sockets
  /\ mem' = Close(mem, s)
  /\ UNCHANGED <<loop, astray>>

\* mutant: the events of the batch keep the old pointer
PollResize_KeepsEvents(s, t) ==
  /\ UNCHANGED ready
  /\ astray' = IF call.at = s \/ Carrying(s) \cap astray # {}
               THEN astray \cup Carrying(s) ELSE astray

\* us_poll_resize, when realloc has moved the block: the first event that
\* carries the old pointer gets the new one, unless the event being dispatched
\* carries it, too.
PollResize(s, t) ==
  /\ IF call.at = s \/ Carrying(s) = {} THEN UNCHANGED ready
     ELSE \E e \in Carrying(s) : ready' = [ready EXCEPT ![e] = t]
  /\ astray' = IF call.at = s \/ Carrying(s) \cap astray # {}
               THEN astray \cup Carrying(s) ELSE astray

\* The memory when realloc has moved s to t, and what epoll holds of it then.
Moved(m, s, t, known) == Release([m EXCEPT !.type[t] = m.type[s], !.epoll[t] = known], {s})

FewUntold(s) == Cardinality({b \in Blocks \ {s} : mem.epoll[b] # b}) < MaxUntold

\* us_socket_context_adopt_socket: realloc may leave the block where it is or
\* not, and then epoll is told, if the socket polls for anything. The callback
\* that on_writable is returns the new pointer to the loop.
Adopt(s, c, t) ==
  LET u == Unlink(mem, s) IN
  /\ pc = "call" /\ s \in Sockets /\ t \in {s} \cup Free
  /\ IF t = s THEN mem' = Link(u, c, s) /\ UNCHANGED <<ready, astray>>
     ELSE /\ \E known \in {t} \cup (IF mem.type[s] = "socket" /\ FewUntold(s)
                                   THEN {mem.epoll[s]} ELSE {}) :
               mem' = Link(Moved(u, s, t, known), c, t)
          /\ PollResize(s, t)
  /\ call' = IF call.for = "writable" /\ call.s = s THEN [call EXCEPT !.s = t] ELSE call
  /\ UNCHANGED <<pc, iterator>>

\* us_socket_write, when not all goes out: the socket polls for both from now on.
Write(s) ==
  /\ pc = "call" /\ s \in Sockets
  /\ mem' = [mem EXCEPT !.epoll[s] = s]
  /\ UNCHANGED <<loop, astray>>

FewTimed(s) == Cardinality({b \in Blocks \ {s} : mem.timeout[b] # 0}) < MaxTimed

\* us_socket_timeout, n the number of sweeps the seconds come to.
Timeout(s, n) ==
  /\ pc = "call" /\ s \in Sockets /\ (n # 0 => FewTimed(s))
  /\ mem' = [mem EXCEPT !.timeout[s] = n]
  /\ UNCHANGED <<loop, astray>>

Application ==
  \E s \in Blocks :
    \/ \E c \in Range(Contexts) :
         \/ Listen(s, c) \/ Connect(s, c) \/ \E t \in Blocks : Adopt(s, c, t)
    \/ ListenClose(s) \/ CloseSocket(s) \/ Write(s)
    \/ \E n \in 0..MaxTimeout : Timeout(s, n)

(***************************************************************************)
(* One batch of events                                                     *)
(***************************************************************************)

\* epoll_wait, while num_polls is not 0.
Wait ==
  /\ pc = "wait" /\ Free # Blocks
  /\ \E S \in SUBSET (Open \cup {"timer", "async"}) :
       /\ S # {} /\ Cardinality(S) <= MaxReady
       /\ ready' = [e \in S |-> IF e \in Blocks THEN mem.epoll[e] ELSE e]
       /\ astray' = {e \in S \cap Blocks : mem.epoll[e] # e}
  /\ pc' = "batch"
  /\ UNCHANGED <<mem, call, iterator>>

Take(e) ==
  /\ pc = "batch" /\ e \in DOMAIN ready
  /\ ready' = Restrict(ready, DOMAIN ready \ {e}) /\ astray' = astray \ {e}
Callback(for, s, p) == pc' = "call" /\ call' = [for |-> for, s |-> s, at |-> p]
Done == pc' = "batch" /\ call' = NoCall

DispatchWakeup == Take("async") /\ Callback("batch", NULL, NULL) /\ UNCHANGED <<mem, iterator>>

\* What happens after a freed block has been dispatched is anybody's guess.
DispatchFreed(e) ==
  /\ Take(e) /\ ready[e] \in Free
  /\ pc' = "undefined"
  /\ UNCHANGED <<mem, call, iterator>>

\* A connection is through, or has failed: on_open in both cases.
DispatchConnect(e) ==
  LET p == ready[e] IN
  /\ Take(e) /\ p \in Blocks /\ mem.type[p] = "connect"
  /\ mem' = [mem EXCEPT !.type[p] = "socket"]
  /\ Callback("batch", NULL, p)
  /\ UNCHANGED iterator

DispatchListen(e) ==
  LET p == ready[e] IN
  /\ Take(e) /\ p \in Blocks /\ mem.type[p] = "listen"
  /\ pc' = "accept" /\ call' = [for |-> "accept", s |-> p, at |-> p]
  /\ UNCHANGED <<mem, iterator>>

Accept(b) ==
  /\ pc = "accept"
  /\ Create(b, mem.ctx[call.s], "socket")
  /\ pc' = "call"
  /\ UNCHANGED <<ready, call, iterator, astray>>

NoMoreToAccept == pc = "accept" /\ Done /\ UNCHANGED <<mem, ready, iterator, astray>>

\* us_socket_close by the loop: nothing for a closed socket, else on_close.
CloseAndTell(s, p) ==
  IF Closed(mem, s) THEN Done /\ UNCHANGED mem
  ELSE mem' = Close(mem, s) /\ Callback("batch", NULL, p)

\* An event is dispatched to a socket whether or not it has been closed since.
DispatchSocket(e) ==
  LET p == ready[e] IN
  /\ Take(e) /\ p \in Blocks /\ mem.type[p] = "socket"
  /\ \/ CloseAndTell(p, p)                                     \* an error
     \/ Callback("writable", p, p) /\ UNCHANGED mem
     \/ pc' = "recv" /\ call' = [for |-> "recv", s |-> p, at |-> p] /\ UNCHANGED mem
  /\ UNCHANGED iterator

Receive ==
  /\ pc = "recv"
  /\ \/ Callback("batch", NULL, call.at) /\ UNCHANGED mem      \* data, or on_end
     \/ Done /\ UNCHANGED mem                                  \* nothing yet
     \/ CloseAndTell(call.s, call.at)                          \* an error, or both ends
  /\ UNCHANGED <<ready, iterator, astray>>

FreeClosed ==
  /\ pc = "batch" /\ DOMAIN ready = {}
  /\ mem' = [Release(mem, From(mem, mem.closed)) EXCEPT !.closed = NULL]
  /\ pc' = "wait"
  /\ UNCHANGED <<ready, call, iterator, astray>>

(***************************************************************************)
(* The sweep of the timers                                                 *)
(***************************************************************************)

Enter(c) == [mem EXCEPT !.iterator[c] = mem.head[c]]

DispatchTimer ==
  /\ Take("timer")
  /\ iterator' = Contexts /\ mem' = Enter(Contexts[1])
  /\ pc' = "sweep"
  /\ UNCHANGED call

Count ==
  LET c == Head(iterator) s == mem.iterator[c] IN
  /\ pc = "sweep" /\ s # NULL
  /\ IF mem.timeout[s] = 1
     THEN mem' = [mem EXCEPT !.timeout[s] = 0] /\ Callback("sweep", s, NULL)
     ELSE /\ mem' = [mem EXCEPT !.timeout[s] = IF @ = 0 THEN 0 ELSE @ - 1,
                               !.iterator[c] = mem.next[s]]
          /\ UNCHANGED <<pc, call>>
  /\ UNCHANGED <<ready, iterator, astray>>

NextContext ==
  /\ pc = "sweep" /\ mem.iterator[Head(iterator)] = NULL
  /\ iterator' = Tail(iterator)
  /\ IF Tail(iterator) = <<>>
     THEN Done /\ UNCHANGED mem
     ELSE mem' = Enter(iterator[2]) /\ UNCHANGED <<pc, call>>
  /\ UNCHANGED <<ready, astray>>

(***************************************************************************)
(* A callback returns                                                      *)
(***************************************************************************)

\* mutant: the sweep moves on without asking whether the callback moved it
ReturnToSweep_Moves ==
  LET c == Head(iterator) IN
  /\ call.for = "sweep"
  /\ mem' = [mem EXCEPT !.iterator[c] = IF @ = NULL THEN @ ELSE mem.next[@]]
  /\ pc' = "sweep" /\ call' = NoCall

ReturnToSweep ==
  LET c == Head(iterator) IN
  /\ call.for = "sweep"
  /\ mem' = [mem EXCEPT !.iterator[c] = IF @ = call.s THEN mem.next[@] ELSE @]
  /\ pc' = "sweep" /\ call' = NoCall

ReturnToAccept ==
  /\ call.for = "accept"
  /\ pc' = IF mem.type[call.s] = "listen" THEN "accept" ELSE "undefined"
  /\ UNCHANGED <<mem, call>>

\* The same event may say that there is something to read, too.
ReturnFromWritable ==
  /\ call.for = "writable" /\ UNCHANGED mem
  /\ \/ Done
     \/ ~Closed(mem, call.s) /\ pc' = "recv" /\ call' = [call EXCEPT !.for = "recv"]

Return ==
  /\ pc = "call"
  /\ \/ ReturnToSweep \/ ReturnToAccept \/ ReturnFromWritable
     \/ call.for \in {"wait", "batch"} /\ pc' = call.for /\ call' = NoCall /\ UNCHANGED mem
  /\ UNCHANGED <<ready, iterator, astray>>

Dispatch ==
  \/ DispatchTimer \/ DispatchWakeup
  \/ \E e \in Blocks : \/ DispatchFreed(e) \/ DispatchConnect(e)
                       \/ DispatchListen(e) \/ DispatchSocket(e)

Next ==
  \/ Application \/ Return
  \/ Wait \/ Dispatch \/ Receive \/ (\E b \in Blocks : Accept(b)) \/ NoMoreToAccept
  \/ FreeClosed \/ Count \/ NextContext

Spec == Init /\ [][Next]_vars

(***************************************************************************)
(* Properties                                                              *)
(***************************************************************************)

Memory ==
  LET Links == Blocks \cup {NULL} IN
  [type : [Blocks -> {"free", "listen", "connect", "socket"}],
   ctx : [Blocks -> Range(Contexts)], prev : [Blocks -> Links \cup Range(Contexts)],
   next : [Blocks -> Links], timeout : [Blocks -> 0..MaxTimeout], epoll : [Blocks -> Blocks],
   head : [Range(Contexts) -> Links], iterator : [Range(Contexts) -> Links], closed : Links]

TypeOK ==
  /\ mem \in Memory
  /\ DOMAIN ready \subseteq Blocks \cup {"timer", "async"}
  /\ ready = [e \in DOMAIN ready |-> IF e \in Blocks THEN ready[e] ELSE e]
  /\ \A e \in DOMAIN ready \cap Blocks : ready[e] \in Blocks
  /\ pc \in {"wait", "batch", "call", "accept", "recv", "sweep", "undefined"}
  /\ call \in [for : {"wait", "batch", "writable", "recv", "accept", "sweep"},
               s : Blocks \cup {NULL}, at : Blocks \cup {NULL}]
  /\ iterator \in Seq(Range(Contexts)) /\ astray \subseteq Blocks

\* Whatever the callbacks open, close and move, in the middle of a sweep or of
\* a batch: the list of a context holds its open sockets, each once, linked both
\* ways (next[b] = d implies prev[d] = b, and the head has no prev); the closed
\* list holds the closed ones; and the sweep stands at a socket of the list it
\* sweeps, or at its end (context.c:123-154, socket.c:66-85).
ListsSound ==
  /\ TypeOK
  /\ \A c \in Range(Contexts) :
       LET list == From(mem, mem.head[c]) IN
       /\ list = {b \in Open : mem.ctx[b] = c}
       /\ list # {} => mem.prev[mem.head[c]] = NULL
       /\ \A b \in list : mem.next[b] # NULL => mem.prev[mem.next[b]] = b
       /\ mem.iterator[c] \in list \cup {NULL}
       /\ mem.iterator[c] # NULL => iterator # <<>> /\ c = Head(iterator)
  /\ From(mem, mem.closed) = Blocks \ (Open \cup Free)

\* No event of the batch is dispatched to a freed block, and the loop's own
\* pointer does not dangle either, though sockets are moved by realloc and closed
\* while their events wait, but for what the code itself lets go astray: events
\* of a listen socket closed within the batch (context.c:68-76), of a socket moved
\* while the event being dispatched carries the same pointer (epoll.c:75), of a
\* socket that polled for nothing when it was moved (epoll.c:69), and a second
\* event at a block where one of these is (epoll.c:79).
EventsReachMemory ==
  /\ \A e \in DOMAIN ready : ready[e] \in Free => e \in astray
  /\ pc \in {"recv", "accept"} => call.s \notin Free
  /\ pc = "call" /\ call.for = "writable" => call.s \notin Free

\* What is left of a list to sweep, before and after a step within its sweep.
SweepStep ==
  iterator # <<>> /\ iterator' = iterator =>
    LET c     == Head(iterator)
        rest  == From(mem, mem.iterator[c])
        rest1 == From(mem', mem'.iterator[c])
    IN  /\ rest1 \subseteq rest
        /\ \A b \in rest \ rest1 :
             \/ pc = "sweep" /\ b = mem.iterator[c]
             \/ pc' = "sweep" /\ b = call.s
             \/ b \notin {d \in Open : mem.ctx[d] = c}'
             \/ b = mem'.head[c]

\* Whatever on_timeout does, what a sweep has still to pass of a context only
\* loses the socket it has dealt with and those that leave the list, and gains
\* none: no timeout is left out, none counted twice (loop.c:85-104, context.c:124-127).
SweepExact == [][SweepStep]_vars

=============================================================================
