------------------------ MODULE USocketsLoop_proofs ------------------------
(***************************************************************************)
(* Proofs about USocketsLoop for any blocks, contexts, and bounds.         *)
(*                                                                         *)
(* The lists are the matter. From is the least set that is closed under    *)
(* next, so what holds of a list is proved without counting: a set that    *)
(* holds the head and is closed holds the list. Each call on the memory    *)
(* has a lemma that says what it makes of the lists; O is the set of the   *)
(* sockets that are on one, which between two halves of a call is not the  *)
(* set of the open sockets.                                                *)
(***************************************************************************)
EXTENDS USocketsLoop, SequenceTheorems, TLAPS

Links == Blocks \cup {NULL}

OpenIn(m) == {b \in Blocks : m.type[b] # "free" /\ ~Closed(m, b)}
ClosedIn(m) == {b \in Blocks : m.type[b] # "free" /\ Closed(m, b)}
ListOf(m, O, c) == {b \in O : m.ctx[b] = c}

\* The lists of the contexts hold the sockets in O.
Listed(m, O) ==
  \A c \in Range(Contexts) :
    /\ From(m, m.head[c]) = ListOf(m, O, c)
    /\ m.head[c] # NULL => m.prev[m.head[c]] = NULL
    /\ \A b \in ListOf(m, O, c) : m.next[b] # NULL => m.prev[m.next[b]] = b
    /\ m.iterator[c] \in ListOf(m, O, c) \cup {NULL}

Lists(m) == Listed(m, OpenIn(m)) /\ From(m, m.closed) = ClosedIn(m)

\* The sweep has a pointer only into the list it is at.
SweepAt(m, it) ==
  \A c \in Range(Contexts) : m.iterator[c] # NULL => it # <<>> /\ c = Head(it)

Sweeping ==
  /\ SweepAt(mem, iterator)
  /\ iterator # <<>> <=> pc = "sweep" \/ (pc = "call" /\ call.for = "sweep")

\* No event of the batch leads to a freed block, and no two to one block, but for
\* those that the code lets go astray.
Reaching ==
  /\ \A e \in DOMAIN ready : ready[e] \in Free => e \in astray
  /\ \A e, f \in DOMAIN ready \cap Blocks :
       ready[e] = ready[f] => e = f \/ e \in astray \/ f \in astray

\* Events, as far as types go.
Typed(r) ==
  /\ DOMAIN r \subseteq Blocks \cup {"timer", "async"}
  /\ r = [e \in DOMAIN r |-> IF e \in Blocks THEN r[e] ELSE e]
  /\ \A e \in DOMAIN r \cap Blocks : r[e] \in Blocks

\* What the events and the loop itself still point at.
Pointed ==
  /\ Reaching
  /\ pc = "recv" \/ (pc = "call" /\ call.for = "writable") =>
       call.s \in Blocks /\ mem.type[call.s] = "socket"
  /\ pc = "accept" => call.for = "accept" /\ call.s \in Blocks /\ mem.type[call.s] = "listen"
  /\ pc = "call" /\ call.for \in {"accept", "sweep"} => call.s \in Blocks

\* A listen socket is freed when it is closed.
Listening == \A b \in Blocks : mem.type[b] = "listen" => b \in OpenIn(mem)

IInv == TypeOK /\ Lists(mem) /\ Sweeping /\ Pointed /\ Listening

-----------------------------------------------------------------------------
(* Lists in general. *)

\* NULL and the contexts are no blocks.
LEMMA Apart ==
    /\ NULL \notin Blocks /\ NULL \notin Range(Contexts)
    /\ \A c \in Range(Contexts) : c \notin Blocks
BY LoopAssumption

\* A set that holds the head and the next of each of its blocks.
Holds(m, h, S) == S \in SUBSET Blocks /\ h \in S \cup {NULL} /\ \A d \in S : m.next[d] \in S \cup {NULL}

\* A list is held by every such set, and is one.
LEMMA Least ==
    ASSUME NEW m, NEW h, NEW S, Holds(m, h, S)
    PROVE  From(m, h) \subseteq S
<1>1. ({h} \cup {m.next[d] : d \in S}) \ {NULL} \subseteq S
  BY DEF Holds
<1> QED  BY <1>1 DEF From, Holds

LEMMA Closure ==
    ASSUME NEW m, m.next \in [Blocks -> Links], NEW h \in Links
    PROVE  Holds(m, h, From(m, h))
<1> DEFINE Inside(S) == ({h} \cup {m.next[d] : d \in S}) \ {NULL} \subseteq S
<1>1. From(m, h) \in SUBSET Blocks
  BY DEF From
<1>2. h \in From(m, h) \cup {NULL}
  BY DEF From, Links
<1>3. ASSUME NEW d \in From(m, h), m.next[d] # NULL
      PROVE  m.next[d] \in From(m, h)
  <2>1. m.next[d] \in Blocks
    BY <1>1, <1>3 DEF Links
  <2>2. ASSUME NEW S \in SUBSET Blocks, Inside(S)  PROVE m.next[d] \in S
    BY <1>3, <2>2 DEF From
  <2> QED  BY <2>1, <2>2 DEF From
<1> QED  BY <1>1, <1>2, <1>3 DEF Holds

\* Another chain that agrees with the first on a list has that list, too.
LEMMA SameList ==
    ASSUME NEW m, NEW w, m.next \in [Blocks -> Links], w.next \in [Blocks -> Links],
           NEW h \in Links, \A b \in From(m, h) : w.next[b] = m.next[b]
    PROVE  From(w, h) = From(m, h)
<1>1. Holds(m, h, From(m, h)) /\ Holds(w, h, From(w, h))
  BY Closure
<1>2. Holds(w, h, From(m, h))
  BY <1>1 DEF Holds
<1>3. Holds(m, h, From(m, h) \cap From(w, h))
  BY <1>1 DEF Holds
<1> QED  BY <1>2, <1>3, Least

LEMMA EmptyList == ASSUME NEW m  PROVE From(m, NULL) = {}
<1>1. Holds(m, NULL, {})
  BY DEF Holds
<1> QED  BY <1>1, Least

\* A block and the list behind it.
LEMMA HeadAndRest ==
    ASSUME NEW m, m.next \in [Blocks -> Links], NEW b \in Blocks
    PROVE  From(m, b) = {b} \cup From(m, m.next[b])
<1>1. m.next[b] \in Links /\ b \in Links
  BY DEF Links
<1>2. Holds(m, b, From(m, b)) /\ Holds(m, m.next[b], From(m, m.next[b]))
  BY <1>1, Closure
<1>3. b # NULL
  BY Apart
<1>4. Holds(m, b, {b} \cup From(m, m.next[b]))
  BY <1>2 DEF Holds
<1>5. Holds(m, m.next[b], From(m, b))
  BY <1>2, <1>3 DEF Holds
<1>6. b \in From(m, b)
  BY <1>2, <1>3 DEF Holds
<1> QED  BY <1>4, <1>5, <1>6, Least

\* A part of a list that does not hold its head is entered from outside.
LEMMA Entered ==
    ASSUME NEW m, m.next \in [Blocks -> Links], NEW h \in Links,
           NEW T, T \subseteq From(m, h), T # {}, h \notin T
    PROVE  \E b \in From(m, h) \ T : m.next[b] \in T
<1>1. Holds(m, h, From(m, h))
  BY Closure
<1>2. SUFFICES ASSUME \A b \in From(m, h) \ T : m.next[b] \notin T  PROVE FALSE
  OBVIOUS
<1>3. Holds(m, h, From(m, h) \ T)
  BY <1>1, <1>2 DEF Holds
<1> QED  BY <1>3, Least

-----------------------------------------------------------------------------
(* us_internal_socket_context_unlink. *)

\* A socket s of a list, and the blocks before and behind it.
LEMMA Neighbours ==
    ASSUME NEW m \in Memory, NEW O \in SUBSET Blocks, Listed(m, O), NEW s \in O
    PROVE  /\ m.ctx[s] \in Range(Contexts) /\ m.next[s] \in Links /\ m.next[s] # s
           /\ m.prev[s] = NULL <=> m.head[m.ctx[s]] = s
           /\ m.prev[s] # NULL => /\ m.prev[s] \in ListOf(m, O, m.ctx[s])
                                  /\ m.next[m.prev[s]] = s
           /\ m.next[s] # NULL => /\ m.next[s] \in ListOf(m, O, m.ctx[s])
                                  /\ m.prev[m.next[s]] = s
           /\ m.prev[s] = m.next[s] => m.prev[s] = NULL
<1> DEFINE c == m.ctx[s]
           h == m.head[c]
           L == ListOf(m, O, c)
<1>1. c \in Range(Contexts) /\ m.next \in [Blocks -> Links] /\ h \in Links
  BY DEF Memory, Links
<1>2. From(m, h) = L /\ (h # NULL => m.prev[h] = NULL)
  BY <1>1 DEF Listed
<1>3. \A b \in L : m.next[b] # NULL => m.prev[m.next[b]] = b
  BY <1>1 DEF Listed
<1>4. Holds(m, h, L)
  BY <1>1, <1>2, Closure
<1>5. s \in L /\ L \subseteq Blocks
  BY DEF ListOf
<1> HIDE DEF c, h, L
<1>6. s # h => \E b \in L : m.next[b] = s
  <2>1. ASSUME s # h  PROVE \E b \in L : m.next[b] = s
    <3>1. {s} \subseteq From(m, h) /\ {s} # {} /\ h \notin {s}
      BY <1>2, <1>5, <2>1
    <3>2. \E b \in From(m, h) \ {s} : m.next[b] \in {s}
      BY <1>1, <3>1, Entered
    <3> QED  BY <1>2, <3>2
  <2> QED  BY <2>1
<1>7. s # h => m.prev[s] \in L /\ m.next[m.prev[s]] = s
  BY <1>3, <1>5, <1>6, Apart
<1>8. m.prev[s] = NULL <=> h = s
  BY <1>2, <1>5, <1>7, Apart
<1>9. m.next[s] # NULL => m.next[s] \in L /\ m.prev[m.next[s]] = s
  BY <1>3, <1>4, <1>5 DEF Holds
<1>10. m.next[s] # s
  <2>1. SUFFICES ASSUME m.next[s] = s  PROVE FALSE
    OBVIOUS
  <2>2. m.prev[s] = s /\ s # h
    BY <1>3, <1>5, <1>8, <2>1, Apart
  <2>3. {s} \subseteq From(m, h) /\ {s} # {} /\ h \notin {s}
    BY <1>2, <1>5, <2>2
  <2>4. PICK b \in From(m, h) \ {s} : m.next[b] \in {s}
    BY <1>1, <2>3, Entered
  <2> QED  BY <1>2, <1>3, <2>2, <2>4, <1>5, Apart
<1>11. m.prev[s] = m.next[s] => m.prev[s] = NULL
  <2>1. SUFFICES ASSUME m.prev[s] = m.next[s], m.prev[s] # NULL  PROVE FALSE
    OBVIOUS
  <2> DEFINE x == m.next[s]
  <2>2. x \in L /\ m.next[x] = s /\ m.prev[x] = s /\ s # h
    BY <1>7, <1>8, <1>9, <2>1
  <2>3. x # h
    BY <1>2, <1>5, <2>2, Apart
  <2> HIDE DEF x
  <2>4. {s, x} \subseteq From(m, h) /\ {s, x} # {} /\ h \notin {s, x}
    BY <1>2, <1>5, <2>2, <2>3
  <2>5. PICK b \in From(m, h) \ {s, x} : m.next[b] \in {s, x}
    BY <1>1, <2>4, Entered
  <2>6. b \in L /\ m.prev[m.next[b]] = b
    BY <1>2, <1>3, <1>5, <2>2, <2>5, Apart
  <2> QED  BY <2>1, <2>2, <2>5, <2>6 DEF x
<1> QED  BY <1>1, <1>5, <1>7, <1>8, <1>9, <1>10, <1>11 DEF c, h, L

\* Unlink, field by field.
LEMMA UnlinkFields ==
    ASSUME NEW m \in Memory, NEW O \in SUBSET Blocks, Listed(m, O), NEW s \in O
    PROVE  LET u == Unlink(m, s)  p == m.prev[s]  n == m.next[s]  c == m.ctx[s] IN
           /\ u \in Memory
           /\ u.type = m.type /\ u.ctx = m.ctx /\ u.timeout = m.timeout /\ u.closed = m.closed
           /\ \A b \in Blocks : u.next[b] = IF b = p THEN n ELSE m.next[b]
           /\ \A b \in Blocks : u.prev[b] = IF b = n THEN p ELSE m.prev[b]
           /\ \A d \in Range(Contexts) :
                /\ u.head[d] = IF m.head[d] = s THEN n ELSE m.head[d]
                /\ u.iterator[d] = IF m.iterator[d] = s THEN n ELSE m.iterator[d]
<1> DEFINE u == Unlink(m, s)
           p == m.prev[s]
           n == m.next[s]
           c == m.ctx[s]
<1>1. /\ c \in Range(Contexts) /\ n \in Links /\ n # s
      /\ p = NULL <=> m.head[c] = s
      /\ p # NULL => p \in Blocks
      /\ p = n => p = NULL
  BY Neighbours DEF ListOf
<1>2. /\ u.type = m.type /\ u.ctx = m.ctx /\ u.timeout = m.timeout /\ u.closed = m.closed
      /\ u.next = IF p # n /\ p # NULL THEN [m.next EXCEPT ![p] = n] ELSE m.next
      /\ u.prev = IF p # n /\ n # NULL THEN [m.prev EXCEPT ![n] = p] ELSE m.prev
      /\ u.head = [m.head EXCEPT ![c] = IF p = n THEN NULL ELSE IF p = NULL THEN n ELSE @]
      /\ u.iterator = [m.iterator EXCEPT ![c] = IF @ = s THEN n ELSE @]
  BY DEF Unlink, Memory
<1>3. m.next \in [Blocks -> Links] /\ m.prev \in [Blocks -> Links \cup Range(Contexts)]
  BY DEF Memory, Links
<1>4. m.head \in [Range(Contexts) -> Links] /\ m.iterator \in [Range(Contexts) -> Links]
  BY DEF Memory, Links
<1>5. \A d \in Range(Contexts) : m.head[d] = s \/ m.iterator[d] = s => d = c
  <2>1. TAKE d \in Range(Contexts)
  <2>2. /\ From(m, m.head[d]) = ListOf(m, O, d)
        /\ m.iterator[d] \in ListOf(m, O, d) \cup {NULL}
    BY DEF Listed
  <2>3. m.head[d] \in ListOf(m, O, d) \cup {NULL}
    BY <1>3, <1>4, <2>2, Closure DEF Holds
  <2> QED  BY <2>2, <2>3, Apart DEF ListOf
<1> HIDE DEF u, p, n, c
<1>6. \A b \in Blocks : u.next[b] = IF b = p THEN n ELSE m.next[b]
  BY <1>1, <1>2, <1>3, Apart
<1>7. \A b \in Blocks : u.prev[b] = IF b = n THEN p ELSE m.prev[b]
  BY <1>1, <1>2, <1>3, Apart DEF Links
<1>8. \A d \in Range(Contexts) :
         /\ u.head[d] = IF m.head[d] = s THEN n ELSE m.head[d]
         /\ u.iterator[d] = IF m.iterator[d] = s THEN n ELSE m.iterator[d]
  BY <1>1, <1>2, <1>4, <1>5
<1>9. u \in Memory
  <2>1. u.next \in [Blocks -> Links] /\ u.prev \in [Blocks -> Links \cup Range(Contexts)]
    BY <1>1, <1>2, <1>3 DEF Links
  <2>2. u.head \in [Range(Contexts) -> Links] /\ u.iterator \in [Range(Contexts) -> Links]
    BY <1>1, <1>2, <1>4 DEF Links
  <2>3. u = [m EXCEPT !.iterator = u.iterator, !.head = u.head, !.next = u.next, !.prev = u.prev]
    BY DEF u, Unlink, Memory
  <2> QED  BY <2>1, <2>2, <2>3 DEF Memory, Links
<1> QED  BY <1>2, <1>6, <1>7, <1>8, <1>9 DEF u, p, n, c


\* What is left of a list, or of the end of one, from which s is unlinked.
LEMMA UnlinkFrom ==
    ASSUME NEW m \in Memory, NEW O \in SUBSET Blocks, Listed(m, O), NEW s \in O,
           NEW d \in Range(Contexts), NEW h \in ListOf(m, O, d) \cup {NULL}
    PROVE  From(Unlink(m, s), IF h = s THEN m.next[s] ELSE h) = From(m, h) \ {s}
<1> DEFINE u == Unlink(m, s)
           p == m.prev[s]
           n == m.next[s]
           k == IF h = s THEN n ELSE h
           L == ListOf(m, O, d)
           R == From(m, h)
           Q == From(u, k)
<1>1. /\ u \in Memory
      /\ \A b \in Blocks : u.next[b] = IF b = p THEN n ELSE m.next[b]
  BY UnlinkFields
<1>2. /\ n \in Links /\ n # s /\ (p = NULL \/ (p \in Blocks /\ m.next[p] = s))
  BY Neighbours DEF ListOf
<1>3. /\ m.next \in [Blocks -> Links] /\ u.next \in [Blocks -> Links]
      /\ h \in Links /\ k \in Links
  BY <1>1, <1>2 DEF Memory, Links, ListOf
<1>4. Holds(m, h, R) /\ Holds(u, k, Q)
  BY <1>3, Closure
<1>5. \A b \in R : m.next[b] = s => b = p
  <2>1. m.head[d] \in Links /\ From(m, m.head[d]) = L
    BY DEF Memory, Links, Listed
  <2>2. Holds(m, m.head[d], L)
    BY <1>3, <2>1, Closure
  <2>3. Holds(m, h, L)
    BY <2>2 DEF Holds
  <2>4. R \subseteq L
    BY <2>3, Least
  <2> QED  BY <2>4, Apart DEF Listed
<1> HIDE DEF u, p, n, k, L, R, Q
<1>6. Holds(u, k, R \ {s})
  <2>1. k \in (R \ {s}) \cup {NULL}
    BY <1>2, <1>4, Apart DEF k, n, Holds
  <2>2. ASSUME NEW b \in R \ {s}  PROVE u.next[b] \in (R \ {s}) \cup {NULL}
    <3>1. CASE b = p
      <4>1. u.next[b] = n /\ m.next[b] = s
        BY <1>1, <1>2, <1>4, <2>2, <3>1, Apart DEF Holds
      <4>2. s \in R
        BY <1>4, <2>2, <4>1, Apart DEF Holds
      <4>3. n \in R \cup {NULL}
        BY <1>4, <4>2 DEF Holds, n
      <4> QED  BY <1>2, <4>1, <4>3
    <3>2. CASE b # p
      <4>1. u.next[b] = m.next[b] /\ m.next[b] # s
        BY <1>1, <1>4, <1>5, <2>2, <3>2 DEF Holds
      <4> QED  BY <1>4, <2>2, <4>1 DEF Holds
    <3> QED  BY <3>1, <3>2
  <2> QED  BY <1>4, <2>1, <2>2 DEF Holds
<1>7. ASSUME s \in R
      PROVE  R \subseteq Q \cup {s}
  <2> DEFINE T == (Q \cap R) \cup IF s = h \/ p \in Q THEN {s} ELSE {}
  <2>1. h \in T \cup {NULL}
    BY <1>4 DEF Holds, k
  <2>2. ASSUME NEW b \in T  PROVE m.next[b] \in T \cup {NULL}
    <3>1. b \in R /\ m.next[b] \in R \cup {NULL}
      BY <1>4, <1>7, <2>2 DEF Holds
    <3>2. CASE b = s
      <4>1. CASE s = h
        BY <1>4, <3>1, <3>2, <4>1 DEF Holds, k, n
      <4>2. CASE s # h /\ p \in Q
        <5>1. u.next[p] = n
          BY <1>1, <1>4, <4>2 DEF Holds
        <5> QED  BY <1>4, <3>1, <3>2, <4>2, <5>1 DEF Holds, n
      <4>3. CASE s # h /\ p \notin Q
        <5>1. s \in Q
          BY <2>2, <3>2, <4>3
        <5> QED  BY <1>1, <1>4, <1>2, <3>1, <3>2, <5>1, Apart DEF Holds, n
      <4> QED  BY <4>1, <4>2, <4>3
    <3>3. CASE b # s /\ m.next[b] = s
      <4>1. b = p /\ b \in Q
        BY <1>5, <2>2, <3>1, <3>3
      <4> QED  BY <3>3, <4>1
    <3>4. CASE b # s /\ m.next[b] # s
      <4>1. b \in Q /\ b # p
        BY <1>2, <2>2, <1>4, <3>4, Apart DEF Holds
      <4>2. u.next[b] = m.next[b]
        BY <1>1, <1>4, <4>1 DEF Holds
      <4> QED  BY <1>4, <3>1, <4>1, <4>2 DEF Holds
    <3> QED  BY <3>2, <3>3, <3>4
  <2>3. T \in SUBSET Blocks
    BY <1>4, <1>7 DEF Holds
  <2>4. Holds(m, h, T)
    BY <2>1, <2>2, <2>3 DEF Holds
  <2>5. R \subseteq T
    BY <2>4, Least DEF R
  <2> QED  BY <2>5
<1>8. ASSUME s \notin R
      PROVE  R \subseteq Q
  <2>1. \A b \in R : b # p
    BY <1>2, <1>4, <1>8, Apart DEF Holds
  <2>2. \A b \in R : u.next[b] = m.next[b]
    BY <1>1, <1>4, <2>1 DEF Holds
  <2>3. k = h
    BY <1>2, <1>4, <1>8, Apart DEF Holds, k
  <2> QED  BY <1>3, <2>2, <2>3, SameList DEF R, Q
<1>9. Q \subseteq R \ {s}
  BY <1>6, Least DEF Q
<1> QED  BY <1>7, <1>8, <1>9 DEF u, k, n, R, Q

\* The lists without s.
LEMMA UnlinkLists ==
    ASSUME NEW m \in Memory, NEW O \in SUBSET Blocks, Listed(m, O), NEW s \in O
    PROVE  Listed(Unlink(m, s), O \ {s})
<1> DEFINE u == Unlink(m, s)
           p == m.prev[s]
           n == m.next[s]
<1>1. /\ u.ctx = m.ctx
      /\ \A b \in Blocks : u.next[b] = IF b = p THEN n ELSE m.next[b]
      /\ \A b \in Blocks : u.prev[b] = IF b = n THEN p ELSE m.prev[b]
      /\ \A d \in Range(Contexts) :
           /\ u.head[d] = IF m.head[d] = s THEN n ELSE m.head[d]
           /\ u.iterator[d] = IF m.iterator[d] = s THEN n ELSE m.iterator[d]
  BY UnlinkFields
<1>2. /\ n \in Links /\ n # s /\ (p = NULL <=> m.head[m.ctx[s]] = s)
      /\ p # NULL => p \in ListOf(m, O, m.ctx[s]) /\ m.next[p] = s
      /\ n # NULL => n \in ListOf(m, O, m.ctx[s]) /\ m.prev[n] = s
      /\ p = n => p = NULL
  BY Neighbours
<1>3. m.next \in [Blocks -> Links] /\ m.head \in [Range(Contexts) -> Links]
  BY DEF Memory, Links
<1>4. ASSUME NEW d \in Range(Contexts)
      PROVE  /\ From(u, u.head[d]) = ListOf(u, O \ {s}, d)
             /\ u.head[d] # NULL => u.prev[u.head[d]] = NULL
             /\ \A b \in ListOf(u, O \ {s}, d) : u.next[b] # NULL => u.prev[u.next[b]] = b
             /\ u.iterator[d] \in ListOf(u, O \ {s}, d) \cup {NULL}
  <2> DEFINE L == ListOf(m, O, d)
             h == m.head[d]
  <2>1. /\ From(m, h) = L /\ (h # NULL => m.prev[h] = NULL)
        /\ \A b \in L : m.next[b] # NULL => m.prev[m.next[b]] = b
        /\ m.iterator[d] \in L \cup {NULL}
    BY DEF Listed
  <2>2. ListOf(u, O \ {s}, d) = L \ {s} /\ L \subseteq Blocks
    BY <1>1 DEF ListOf
  <2>3. Holds(m, h, L)
    BY <1>3, <2>1, Closure
  <2>4. h \in L \cup {NULL}
    BY <2>3 DEF Holds
  <2>5. From(u, IF h = s THEN n ELSE h) = L \ {s}
    BY <2>1, <2>4, UnlinkFrom
  <2>6. s \in L => m.ctx[s] = d
    BY DEF ListOf
  <2> HIDE DEF L, h, u, p, n
  <2>7. From(u, u.head[d]) = ListOf(u, O \ {s}, d)
    BY <1>1, <2>2, <2>5 DEF h
  <2>8. u.head[d] # NULL => u.prev[u.head[d]] = NULL
    <3>1. CASE h = s
      <4>1. p = NULL
        BY <1>2, <2>4, <2>6, <3>1, Apart DEF h
      <4> QED  BY <1>1, <1>2, <3>1, <4>1 DEF h, Links
    <3>2. CASE h # s /\ h # NULL
      <4>1. h # n
        BY <1>2, <2>1, <3>2, Apart
      <4> QED  BY <1>1, <2>1, <2>2, <2>4, <3>2, <4>1 DEF h
    <3>3. CASE h # s /\ h = NULL
      BY <1>1, <3>3 DEF h
    <3> QED  BY <3>1, <3>2, <3>3
  <2>9. ASSUME NEW b \in L \ {s}, u.next[b] # NULL
        PROVE  u.prev[u.next[b]] = b
    <3>1. CASE b = p
      BY <1>1, <1>2, <2>2, <2>9, <3>1 DEF Links
    <3>2. CASE b # p
      <4>1. u.next[b] = m.next[b] /\ m.next[b] \in L
        BY <1>1, <2>2, <2>3, <2>9, <3>2 DEF Holds
      <4>2. m.prev[m.next[b]] = b
        BY <2>1, <2>9, <4>1
      <4>3. m.next[b] # n
        BY <1>2, <2>9, <4>1, <4>2
      <4> QED  BY <1>1, <2>2, <4>1, <4>2, <4>3
    <3> QED  BY <3>1, <3>2
  <2>10. u.iterator[d] \in (L \ {s}) \cup {NULL}
    <3>1. CASE m.iterator[d] = s
      <4>1. n \in L \cup {NULL}
        BY <2>1, <2>3, <3>1, Apart DEF Holds, n
      <4> QED  BY <1>1, <1>2, <3>1, <4>1
    <3> QED  BY <1>1, <2>1, <3>1
  <2> QED  BY <2>2, <2>7, <2>8, <2>9, <2>10
<1> QED  BY <1>4 DEF Listed


\* Which sockets are open, and the list of the closed ones, are as before.
LEMMA UnlinkKeeps ==
    ASSUME NEW m \in Memory, Lists(m), NEW s \in OpenIn(m)
    PROVE  LET u == Unlink(m, s) IN
           /\ Listed(u, OpenIn(m) \ {s})
           /\ OpenIn(u) = OpenIn(m) /\ ClosedIn(u) = ClosedIn(m)
           /\ From(u, u.closed) = ClosedIn(m)
<1> DEFINE u == Unlink(m, s)
           O == OpenIn(m)
           K == From(m, m.closed)
<1>1. Listed(m, O) /\ K = ClosedIn(m) /\ O \in SUBSET Blocks /\ s \in O
  BY DEF Lists, OpenIn
<1>2. /\ u \in Memory /\ u.type = m.type /\ u.ctx = m.ctx /\ u.closed = m.closed
      /\ \A b \in Blocks : u.next[b] = IF b = m.prev[s] THEN m.next[s] ELSE m.next[b]
      /\ \A b \in Blocks : u.prev[b] = IF b = m.next[s] THEN m.prev[s] ELSE m.prev[b]
  BY <1>1, UnlinkFields
<1>3. /\ m.prev[s] = NULL \/ m.prev[s] \in O
      /\ m.next[s] # NULL => m.prev[m.next[s]] = s
  BY <1>1, Neighbours DEF ListOf
<1>4. Listed(u, O \ {s})
  BY <1>1, UnlinkLists
<1> HIDE DEF u
<1>5. \A b \in Blocks : Closed(u, b) <=> Closed(m, b)
  <2>1. \A b \in Blocks : m.ctx[b] \in Range(Contexts)
    BY DEF Memory
  <2>2. m.prev[s] \notin Range(Contexts) /\ s \notin Range(Contexts)
    BY <1>1, <1>3, Apart
  <2> QED  BY <1>2, <1>3, <2>1, <2>2, Apart DEF Closed
<1>6. From(u, m.closed) = K
  <2>1. /\ m.next \in [Blocks -> Links] /\ u.next \in [Blocks -> Links]
        /\ m.closed \in Links
    BY <1>2 DEF Memory, Links
  <2>2. \A b \in K : b \in Blocks /\ b # m.prev[s]
    BY <1>1, <1>3, Apart DEF ClosedIn, OpenIn
  <2> QED  BY <1>2, <2>1, <2>2, SameList
<1> QED  BY <1>1, <1>2, <1>4, <1>5, <1>6 DEF OpenIn, ClosedIn, u

-----------------------------------------------------------------------------
(* us_internal_socket_context_link. *)

LEMMA LinkFields ==
    ASSUME NEW m \in Memory, NEW c \in Range(Contexts), NEW s \in Blocks
    PROVE  LET l == Link(m, c, s) IN
           /\ l \in Memory
           /\ l.type = m.type /\ l.iterator = m.iterator /\ l.closed = m.closed
           /\ \A b \in Blocks :
                /\ l.ctx[b] = IF b = s THEN c ELSE m.ctx[b]
                /\ l.timeout[b] = IF b = s THEN 0 ELSE m.timeout[b]
                /\ l.next[b] = IF b = s THEN m.head[c] ELSE m.next[b]
                /\ l.prev[b] = IF b = s THEN NULL ELSE IF b = m.head[c] THEN s ELSE m.prev[b]
           /\ \A d \in Range(Contexts) : l.head[d] = IF d = c THEN s ELSE m.head[d]
<1> DEFINE l == Link(m, c, s)
<1>1. /\ l.type = m.type /\ l.iterator = m.iterator /\ l.closed = m.closed
      /\ l.ctx = [m.ctx EXCEPT ![s] = c] /\ l.timeout = [m.timeout EXCEPT ![s] = 0]
      /\ l.next = [m.next EXCEPT ![s] = m.head[c]]
      /\ l.prev = [b \in Blocks |-> IF b = s THEN NULL ELSE IF b = m.head[c] THEN s ELSE m.prev[b]]
      /\ l.head = [m.head EXCEPT ![c] = s]
  BY DEF Link, Memory
<1>2. l = [m EXCEPT !.ctx = l.ctx, !.timeout = l.timeout, !.next = l.next, !.head = l.head,
                    !.prev = l.prev]
  BY DEF Link, Memory
<1>3. /\ m.ctx \in [Blocks -> Range(Contexts)] /\ m.timeout \in [Blocks -> 0..MaxTimeout]
      /\ m.next \in [Blocks -> Links] /\ m.prev \in [Blocks -> Links \cup Range(Contexts)]
      /\ m.head \in [Range(Contexts) -> Links]
  BY DEF Memory, Links
<1>4. 0 \in 0..MaxTimeout
  BY LoopAssumption
<1> HIDE DEF l
<1>5. /\ l.ctx \in [Blocks -> Range(Contexts)] /\ l.timeout \in [Blocks -> 0..MaxTimeout]
      /\ l.next \in [Blocks -> Links] /\ l.prev \in [Blocks -> Links \cup Range(Contexts)]
      /\ l.head \in [Range(Contexts) -> Links]
  BY <1>1, <1>3, <1>4 DEF Links
<1>6. l \in Memory
  BY <1>2, <1>5 DEF Memory, Links
<1> QED  BY <1>1, <1>3, <1>6 DEF l

\* The end of a list that s is not on is left as it is.
LEMMA LinkFrom ==
    ASSUME NEW m \in Memory, NEW c \in Range(Contexts), NEW s \in Blocks, NEW h \in Links,
           s \notin From(m, h)
    PROVE  From(Link(m, c, s), h) = From(m, h)
<1> DEFINE l == Link(m, c, s)
<1>1. l \in Memory /\ \A b \in Blocks : l.next[b] = IF b = s THEN m.head[c] ELSE m.next[b]
  BY LinkFields
<1>2. m.next \in [Blocks -> Links] /\ l.next \in [Blocks -> Links]
  BY <1>1 DEF Memory, Links
<1> HIDE DEF l
<1>3. \A b \in From(m, h) : l.next[b] = m.next[b]
  BY <1>1, <1>2 DEF From
<1>4. From(l, h) = From(m, h)
  BY <1>2, <1>3, SameList
<1> QED  BY <1>4 DEF l

\* The lists with s at the head of the list of c.
LEMMA LinkLists ==
    ASSUME NEW m \in Memory, NEW O \in SUBSET Blocks, Listed(m, O),
           NEW c \in Range(Contexts), NEW s \in Blocks \ O
    PROVE  Listed(Link(m, c, s), O \cup {s})
<1> DEFINE l == Link(m, c, s)
<1>1. /\ l \in Memory /\ l.iterator = m.iterator
      /\ \A b \in Blocks :
           /\ l.ctx[b] = IF b = s THEN c ELSE m.ctx[b]
           /\ l.next[b] = IF b = s THEN m.head[c] ELSE m.next[b]
           /\ l.prev[b] = IF b = s THEN NULL ELSE IF b = m.head[c] THEN s ELSE m.prev[b]
      /\ \A d \in Range(Contexts) : l.head[d] = IF d = c THEN s ELSE m.head[d]
  BY LinkFields
<1>2. /\ m.ctx \in [Blocks -> Range(Contexts)] /\ m.next \in [Blocks -> Links]
      /\ l.next \in [Blocks -> Links] /\ m.head \in [Range(Contexts) -> Links]
  BY <1>1 DEF Memory, Links
<1>3. ASSUME NEW d \in Range(Contexts)
      PROVE  /\ From(m, m.head[d]) = ListOf(m, O, d) /\ From(l, m.head[d]) = ListOf(m, O, d)
             /\ m.head[d] \in ListOf(m, O, d) \cup {NULL}
             /\ \A b \in ListOf(m, O, d) : m.next[b] \in ListOf(m, O, d) \cup {NULL}
  <2>1. From(m, m.head[d]) = ListOf(m, O, d)
    BY DEF Listed
  <2>2. s \notin From(m, m.head[d]) /\ m.head[d] \in Links
    BY <1>2, <2>1 DEF ListOf
  <2>3. Holds(m, m.head[d], From(m, m.head[d]))
    BY <1>2, <2>2, Closure
  <2> QED  BY <2>1, <2>2, <2>3, LinkFrom DEF Holds
<1>4. \A d \in Range(Contexts) :
         /\ d = c => ListOf(l, O \cup {s}, d) = ListOf(m, O, d) \cup {s}
         /\ d # c => ListOf(l, O \cup {s}, d) = ListOf(m, O, d)
  BY <1>1, <1>2 DEF ListOf
<1> HIDE DEF l
<1>5. ASSUME NEW d \in Range(Contexts)
      PROVE  /\ From(l, l.head[d]) = ListOf(l, O \cup {s}, d)
             /\ l.head[d] # NULL => l.prev[l.head[d]] = NULL
             /\ \A b \in ListOf(l, O \cup {s}, d) : l.next[b] # NULL => l.prev[l.next[b]] = b
             /\ l.iterator[d] \in ListOf(l, O \cup {s}, d) \cup {NULL}
  <2> DEFINE L == ListOf(m, O, d)
  <2>1. /\ m.head[d] # NULL => m.prev[m.head[d]] = NULL
        /\ \A b \in L : m.next[b] # NULL => m.prev[m.next[b]] = b
        /\ m.iterator[d] \in L \cup {NULL}
    BY DEF Listed
  <2>2. L \subseteq Blocks /\ s \notin L /\ m.head[c] # s
    BY <1>3, Apart DEF ListOf
  <2>3. From(l, l.head[d]) = ListOf(l, O \cup {s}, d)
    <3>1. CASE d = c
      <4>1. From(l, s) = {s} \cup From(l, l.next[s])
        BY <1>2, HeadAndRest
      <4>2. l.head[d] = s /\ l.next[s] = m.head[d]
        BY <1>1, <3>1
      <4>3. From(l, m.head[d]) = ListOf(m, O, d)
        BY <1>3
      <4>4. ListOf(l, O \cup {s}, d) = ListOf(m, O, d) \cup {s}
        BY <1>4, <3>1
      <4> QED  BY <4>1, <4>2, <4>3, <4>4
    <3>2. CASE d # c
      BY <1>1, <1>3, <1>4, <3>2
    <3> QED  BY <3>1, <3>2
  <2>4. l.head[d] # NULL => l.prev[l.head[d]] = NULL
    <3>1. CASE d = c
      BY <1>1, <1>2, <3>1
    <3>2. CASE d # c
      <4>1. m.head[d] # NULL => m.head[d] # m.head[c]
        BY <1>3, <3>2, Apart DEF ListOf
      <4> QED  BY <1>1, <1>2, <1>3, <2>1, <2>2, <3>2, <4>1
    <3> QED  BY <3>1, <3>2
  <2>5. ASSUME NEW b \in L, l.next[b] # NULL  PROVE l.prev[l.next[b]] = b
    <3>1. l.next[b] = m.next[b] /\ m.next[b] \in L /\ m.prev[m.next[b]] = b
      BY <1>1, <1>2, <1>3, <2>1, <2>2, <2>5
    <3>2. m.next[b] # m.head[c]
      BY <2>1, <2>2, <3>1, <1>3, Apart DEF ListOf, Listed
    <3> QED  BY <1>1, <2>2, <3>1, <3>2
  <2>6. ASSUME d = c, l.next[s] # NULL  PROVE l.prev[l.next[s]] = s
    <3>1. l.next[s] = m.head[c] /\ m.head[c] \in Blocks
      BY <1>1, <1>2, <2>6 DEF Links
    <3> QED  BY <1>1, <2>2, <3>1
  <2>7. \A b \in ListOf(l, O \cup {s}, d) : l.next[b] # NULL => l.prev[l.next[b]] = b
    BY <1>4, <2>5, <2>6
  <2>8. l.iterator[d] \in ListOf(l, O \cup {s}, d) \cup {NULL}
    BY <1>1, <1>4, <2>1
  <2> QED  BY <2>3, <2>4, <2>7, <2>8
<1> QED  BY <1>5 DEF Listed, l


-----------------------------------------------------------------------------
(* The calls. *)

\* The lists are as before if nothing of their sockets changes.
LEMMA SameLists ==
    ASSUME NEW m \in Memory, NEW w \in Memory, NEW O \in SUBSET Blocks, Listed(m, O),
           \A b \in O : w.next[b] = m.next[b] /\ w.prev[b] = m.prev[b] /\ w.ctx[b] = m.ctx[b],
           w.head = m.head,
           \A d \in Range(Contexts) : w.iterator[d] \in ListOf(m, O, d) \cup {NULL}
    PROVE  Listed(w, O)
<1>1. ASSUME NEW d \in Range(Contexts)
      PROVE  /\ From(w, w.head[d]) = ListOf(w, O, d)
             /\ w.head[d] # NULL => w.prev[w.head[d]] = NULL
             /\ \A b \in ListOf(w, O, d) : w.next[b] # NULL => w.prev[w.next[b]] = b
             /\ w.iterator[d] \in ListOf(w, O, d) \cup {NULL}
  <2> DEFINE L == ListOf(m, O, d)
             h == m.head[d]
  <2>1. /\ From(m, h) = L /\ (h # NULL => m.prev[h] = NULL)
        /\ \A b \in L : m.next[b] # NULL => m.prev[m.next[b]] = b
    BY DEF Listed
  <2>2. ListOf(w, O, d) = L /\ L \subseteq O
    BY DEF ListOf
  <2>3. m.next \in [Blocks -> Links] /\ w.next \in [Blocks -> Links] /\ h \in Links
    BY DEF Memory, Links
  <2>4. Holds(m, h, L)
    BY <2>1, <2>3, Closure
  <2> HIDE DEF L, h
  <2>5. From(w, h) = L
    <3>1. \A b \in From(m, h) : w.next[b] = m.next[b]
      BY <2>1, <2>2
    <3> QED  BY <2>1, <2>3, <3>1, SameList
  <2>6. h # NULL => w.prev[h] = NULL
    BY <2>1, <2>2, <2>4 DEF Holds
  <2>7. \A b \in L : w.next[b] # NULL => w.prev[w.next[b]] = b
    BY <2>1, <2>2, <2>4 DEF Holds
  <2> QED  BY <2>2, <2>5, <2>6, <2>7 DEF L, h
<1> QED  BY <1>1 DEF Listed

LEMMA CloseFields ==
    ASSUME NEW m \in Memory, NEW s \in Blocks, Unlink(m, s) \in Memory
    PROVE  LET k == Close(m, s)  u == Unlink(m, s) IN
           /\ k \in Memory
           /\ k.type = u.type /\ k.ctx = u.ctx /\ k.timeout = u.timeout
           /\ k.head = u.head /\ k.iterator = u.iterator /\ k.closed = s
           /\ \A b \in Blocks : /\ k.next[b] = IF b = s THEN u.closed ELSE u.next[b]
                                /\ k.prev[b] = IF b = s THEN u.ctx[s] ELSE u.prev[b]
<1> DEFINE k == Close(m, s)
           u == Unlink(m, s)
<1> HIDE DEF u
<1>1. u \in Memory
  BY DEF u
<1>2. /\ k.type = u.type /\ k.ctx = u.ctx /\ k.timeout = u.timeout
      /\ k.head = u.head /\ k.iterator = u.iterator /\ k.closed = s
      /\ k.next = [u.next EXCEPT ![s] = u.closed] /\ k.prev = [u.prev EXCEPT ![s] = u.ctx[s]]
      /\ k = [u EXCEPT !.next = k.next, !.closed = k.closed, !.prev = k.prev, !.epoll = k.epoll]
      /\ k.epoll = [u.epoll EXCEPT ![s] = s]
  BY <1>1 DEF Close, Memory, u
<1>3. /\ u.next \in [Blocks -> Links] /\ u.prev \in [Blocks -> Links \cup Range(Contexts)]
      /\ u.closed \in Links /\ u.ctx \in [Blocks -> Range(Contexts)]
  BY <1>1 DEF Memory, Links
<1> HIDE DEF k
<1>4. k.next \in [Blocks -> Links] /\ k.prev \in [Blocks -> Links \cup Range(Contexts)]
      /\ k.closed \in Links
  BY <1>2, <1>3 DEF Links
<1>5. k \in Memory
  <2>1. k.epoll \in [Blocks -> Blocks]
    BY <1>1, <1>2 DEF Memory
  <2> QED  BY <1>1, <1>2, <1>4, <2>1 DEF Memory, Links
<1>6. \A b \in Blocks : /\ k.next[b] = IF b = s THEN u.closed ELSE u.next[b]
                        /\ k.prev[b] = IF b = s THEN u.ctx[s] ELSE u.prev[b]
  BY <1>2, <1>3
<1> QED  BY <1>2, <1>5, <1>6 DEF k, u

\* us_socket_close moves s from its list to the closed list.
LEMMA CloseLists ==
    ASSUME NEW m \in Memory, Lists(m), NEW s \in OpenIn(m)
    PROVE  LET k == Close(m, s) IN
           /\ k \in Memory /\ Lists(k)
           /\ k.type = m.type /\ OpenIn(k) = OpenIn(m) \ {s}
           /\ k.iterator = Unlink(m, s).iterator
<1> DEFINE k == Close(m, s)
           u == Unlink(m, s)
           O == OpenIn(m)
<1>1. Listed(m, O) /\ O \in SUBSET Blocks /\ s \in O /\ s \in Blocks
  BY DEF Lists, OpenIn
<1>2. u \in Memory /\ u.type = m.type /\ u.ctx = m.ctx /\ u.closed = m.closed
  BY <1>1, UnlinkFields
<1>3. /\ Listed(u, O \ {s}) /\ OpenIn(u) = O /\ ClosedIn(u) = ClosedIn(m)
      /\ From(u, u.closed) = ClosedIn(m)
  BY UnlinkKeeps
<1>4. /\ k \in Memory /\ k.type = u.type /\ k.ctx = u.ctx
      /\ k.head = u.head /\ k.iterator = u.iterator /\ k.closed = s
      /\ \A b \in Blocks : /\ k.next[b] = IF b = s THEN u.closed ELSE u.next[b]
                           /\ k.prev[b] = IF b = s THEN u.ctx[s] ELSE u.prev[b]
  BY <1>1, <1>2, CloseFields
<1> HIDE DEF k, u
<1>5. OpenIn(k) = O \ {s} /\ ClosedIn(k) = ClosedIn(m) \cup {s}
  <2>1. Closed(k, s)
    BY <1>1, <1>4 DEF Closed
  <2>2. \A b \in Blocks \ {s} : Closed(k, b) <=> Closed(u, b)
    BY <1>4 DEF Closed
  <2>3. m.type[s] # "free"
    BY <1>1 DEF OpenIn
  <2>4. OpenIn(k) = OpenIn(u) \ {s} /\ ClosedIn(k) = ClosedIn(u) \cup {s}
    BY <1>1, <1>2, <1>4, <2>1, <2>2, <2>3 DEF OpenIn, ClosedIn
  <2> QED  BY <1>3, <2>4
<1>6. Listed(k, O \ {s})
  <2> DEFINE P == O \ {s}
  <2>1. P \in SUBSET Blocks /\ s \notin P /\ Listed(u, P)
    BY <1>1, <1>3
  <2> HIDE DEF P
  <2>2. \A b \in P : k.next[b] = u.next[b] /\ k.prev[b] = u.prev[b] /\ k.ctx[b] = u.ctx[b]
    BY <1>4, <2>1
  <2>3. \A d \in Range(Contexts) : k.iterator[d] \in ListOf(u, P, d) \cup {NULL}
    BY <1>4, <2>1 DEF Listed
  <2>4. u \in Memory /\ k \in Memory /\ k.head = u.head
    BY <1>2, <1>4
  <2>5. Listed(k, P)
    BY <2>1, <2>2, <2>3, <2>4, SameLists
  <2> QED  BY <2>5 DEF P
<1>7. From(k, k.closed) = ClosedIn(m) \cup {s}
  <2>1. k.next \in [Blocks -> Links] /\ u.next \in [Blocks -> Links] /\ u.closed \in Links
    BY <1>2, <1>4 DEF Memory, Links
  <2>2. s \notin ClosedIn(m) /\ ClosedIn(m) \subseteq Blocks
    BY <1>1 DEF OpenIn, ClosedIn
  <2>3. \A b \in From(u, u.closed) : k.next[b] = u.next[b]
    BY <1>3, <1>4, <2>2
  <2>4. From(k, u.closed) = From(u, u.closed)
    BY <2>1, <2>3, SameList
  <2>5. From(k, s) = {s} \cup From(k, k.next[s])
    BY <1>1, <2>1, HeadAndRest
  <2>6. k.next[s] = u.closed
    BY <1>1, <1>4
  <2> QED  BY <1>3, <1>4, <2>4, <2>5, <2>6
<1>8. Lists(k)
  BY <1>5, <1>6, <1>7 DEF Lists
<1>9. k.type = m.type /\ k.iterator = u.iterator
  BY <1>2, <1>4
<1>10. /\ k \in Memory /\ Lists(k) /\ k.type = m.type
       /\ OpenIn(k) = OpenIn(m) \ {s} /\ k.iterator = u.iterator
  BY <1>4, <1>5, <1>8, <1>9
<1> QED  BY <1>10 DEF k, u


\* A socket is made in a free block: it comes on the list of c.
Made(m, c, s, t) == [Link(m, c, s) EXCEPT !.type[s] = t]

LEMMA CreateLists ==
    ASSUME NEW m \in Memory, Lists(m), NEW c \in Range(Contexts), NEW s \in Blocks,
           m.type[s] = "free", NEW t \in {"listen", "connect", "socket"}
    PROVE  LET w == Made(m, c, s, t) IN
           /\ w \in Memory /\ Lists(w)
           /\ OpenIn(w) = OpenIn(m) \cup {s} /\ w.iterator = m.iterator
           /\ \A b \in Blocks : w.type[b] = IF b = s THEN t ELSE m.type[b]
<1> DEFINE l == Link(m, c, s)
           w == Made(m, c, s, t)
           O == OpenIn(m)
<1>1. /\ l \in Memory /\ l.type = m.type /\ l.iterator = m.iterator /\ l.closed = m.closed
      /\ \A b \in Blocks :
           /\ l.ctx[b] = IF b = s THEN c ELSE m.ctx[b]
           /\ l.prev[b] = IF b = s THEN NULL ELSE IF b = m.head[c] THEN s ELSE m.prev[b]
  BY LinkFields
<1>2. Listed(m, O) /\ O \in SUBSET Blocks /\ s \notin O /\ From(m, m.closed) = ClosedIn(m)
  BY DEF Lists, OpenIn
<1>3. Listed(l, O \cup {s})
  BY <1>2, LinkLists
<1>4. From(l, m.closed) = ClosedIn(m)
  <2>1. s \notin ClosedIn(m) /\ m.closed \in Links
    BY DEF ClosedIn, Memory, Links
  <2> QED  BY <1>2, <2>1, LinkFrom
<1>5. m.head[c] \in O \cup {NULL}
  <2>1. From(m, m.head[c]) = ListOf(m, O, c) /\ m.head[c] \in Links /\ m.next \in [Blocks -> Links]
    BY <1>2 DEF Listed, Memory, Links
  <2> QED  BY <2>1, Closure DEF Holds, ListOf
<1>6. w = [l EXCEPT !.type[s] = t]
  BY DEF Made
<1> HIDE DEF l, w
<1>7. /\ w.ctx = l.ctx /\ w.prev = l.prev /\ w.next = l.next /\ w.timeout = l.timeout
      /\ w.head = l.head /\ w.iterator = l.iterator /\ w.closed = l.closed
      /\ w = [l EXCEPT !.type = [l.type EXCEPT ![s] = t]]
  BY <1>1, <1>6 DEF Memory
<1>8. /\ [l.type EXCEPT ![s] = t] \in [Blocks -> {"free", "listen", "connect", "socket"}]
      /\ w.type = [l.type EXCEPT ![s] = t]
      /\ \A b \in Blocks : w.type[b] = IF b = s THEN t ELSE m.type[b]
  BY <1>1, <1>6 DEF Memory
<1>9. w \in Memory
  <2>1. w.type \in [Blocks -> {"free", "listen", "connect", "socket"}]
    BY <1>8
  <2> QED  BY <1>1, <1>7, <2>1 DEF Memory
<1>10. OpenIn(w) = O \cup {s} /\ ClosedIn(w) = ClosedIn(m)
  <2>1. \A b \in Blocks : m.ctx[b] \in Range(Contexts)
    BY DEF Memory
  <2>2. ~Closed(w, s)
    BY <1>1, <1>7, Apart DEF Closed
  <2>3. \A b \in Blocks \ {s} : Closed(w, b) <=> Closed(m, b)
    <3>1. TAKE b \in Blocks \ {s}
    <3>2. b = m.head[c] => ~Closed(m, b) /\ ~Closed(w, b)
      BY <1>1, <1>5, <1>7, <2>1, Apart DEF Closed, OpenIn
    <3> QED  BY <1>1, <1>7, <3>2 DEF Closed
  <2>4. w.type[s] # "free" /\ \A b \in Blocks \ {s} : w.type[b] = m.type[b]
    BY <1>7, <1>8
  <2> QED  BY <2>2, <2>3, <2>4 DEF OpenIn, ClosedIn
<1>11. Listed(w, O \cup {s})
  <2> DEFINE P == O \cup {s}
  <2>1. P \in SUBSET Blocks /\ Listed(l, P)
    BY <1>2, <1>3
  <2> HIDE DEF P
  <2>2. /\ \A b \in P : w.next[b] = l.next[b] /\ w.prev[b] = l.prev[b] /\ w.ctx[b] = l.ctx[b]
        /\ w.head = l.head
        /\ \A d \in Range(Contexts) : w.iterator[d] \in ListOf(l, P, d) \cup {NULL}
    BY <1>7, <2>1 DEF Listed
  <2>3. Listed(w, P)
    BY <1>1, <1>9, <2>1, <2>2, SameLists
  <2> QED  BY <2>3 DEF P
<1>12. From(w, w.closed) = ClosedIn(m)
  <2>1. From(w, m.closed) = From(l, m.closed)
    BY <1>7 DEF From
  <2> QED  BY <1>1, <1>4, <1>7, <2>1
<1>13. Lists(w)
  BY <1>1, <1>7, <1>10, <1>11, <1>12 DEF Lists
<1>14. w \in Memory /\ Lists(w) /\ OpenIn(w) = OpenIn(m) \cup {s} /\ w.iterator = m.iterator
  BY <1>1, <1>7, <1>9, <1>10, <1>13
<1> QED  BY <1>8, <1>14 DEF w, l

LEMMA FirstContext == Contexts[1] \in Range(Contexts)
BY LoopAssumption DEF Range

LEMMA ReleaseFields ==
    ASSUME NEW m \in Memory, NEW S \in SUBSET Blocks
    PROVE  LET r == Release(m, S) IN
           /\ r \in Memory
           /\ r.head = m.head /\ r.iterator = m.iterator /\ r.closed = m.closed
           /\ \A b \in Blocks :
                /\ r.type[b] = IF b \in S THEN "free" ELSE m.type[b]
                /\ r.ctx[b] = IF b \in S THEN Contexts[1] ELSE m.ctx[b]
                /\ r.prev[b] = IF b \in S THEN NULL ELSE m.prev[b]
                /\ r.next[b] = IF b \in S THEN NULL ELSE m.next[b]
<1> DEFINE r == Release(m, S)
<1>1. /\ r.head = m.head /\ r.iterator = m.iterator /\ r.closed = m.closed
      /\ r.type = [b \in Blocks |-> IF b \in S THEN "free" ELSE m.type[b]]
      /\ r.ctx = [b \in Blocks |-> IF b \in S THEN Contexts[1] ELSE m.ctx[b]]
      /\ r.prev = [b \in Blocks |-> IF b \in S THEN NULL ELSE m.prev[b]]
      /\ r.next = [b \in Blocks |-> IF b \in S THEN NULL ELSE m.next[b]]
      /\ r.timeout = [b \in Blocks |-> IF b \in S THEN 0 ELSE m.timeout[b]]
      /\ r.epoll = [b \in Blocks |-> IF b \in S THEN b ELSE m.epoll[b]]
  BY DEF Release, Memory
<1>2. r = [m EXCEPT !.type = r.type, !.ctx = r.ctx, !.prev = r.prev, !.next = r.next,
                    !.timeout = r.timeout, !.epoll = r.epoll]
  BY DEF Release, Memory
<1>3. /\ m.type \in [Blocks -> {"free", "listen", "connect", "socket"}]
      /\ m.ctx \in [Blocks -> Range(Contexts)] /\ m.prev \in [Blocks -> Links \cup Range(Contexts)]
      /\ m.next \in [Blocks -> Links] /\ m.timeout \in [Blocks -> 0..MaxTimeout]
      /\ m.epoll \in [Blocks -> Blocks]
  BY DEF Memory, Links
<1> HIDE DEF r
<1>4. /\ r.type \in [Blocks -> {"free", "listen", "connect", "socket"}]
      /\ r.ctx \in [Blocks -> Range(Contexts)] /\ r.prev \in [Blocks -> Links \cup Range(Contexts)]
      /\ r.next \in [Blocks -> Links] /\ r.timeout \in [Blocks -> 0..MaxTimeout]
      /\ r.epoll \in [Blocks -> Blocks]
  BY <1>1, <1>3, FirstContext, LoopAssumption DEF Links
<1>5. r \in Memory
  BY <1>2, <1>4 DEF Memory, Links
<1>6. \A b \in Blocks :
         /\ r.type[b] = IF b \in S THEN "free" ELSE m.type[b]
         /\ r.ctx[b] = IF b \in S THEN Contexts[1] ELSE m.ctx[b]
         /\ r.prev[b] = IF b \in S THEN NULL ELSE m.prev[b]
         /\ r.next[b] = IF b \in S THEN NULL ELSE m.next[b]
  BY <1>1
<1>7. /\ r \in Memory /\ r.head = m.head /\ r.iterator = m.iterator /\ r.closed = m.closed
  BY <1>1, <1>5
<1> QED  BY <1>6, <1>7 DEF r


\* To free blocks that are on no list changes no list.
LEMMA ReleaseLists ==
    ASSUME NEW m \in Memory, NEW S \in SUBSET Blocks, NEW O \in SUBSET Blocks, Listed(m, O),
           S \cap O = {}
    PROVE  Listed(Release(m, S), O)
<1> DEFINE r == Release(m, S)
<1>1. /\ r \in Memory /\ r.head = m.head /\ r.iterator = m.iterator
      /\ \A b \in Blocks :
           /\ r.ctx[b] = IF b \in S THEN Contexts[1] ELSE m.ctx[b]
           /\ r.prev[b] = IF b \in S THEN NULL ELSE m.prev[b]
           /\ r.next[b] = IF b \in S THEN NULL ELSE m.next[b]
  BY ReleaseFields
<1> HIDE DEF r
<1>2. \A b \in O : r.next[b] = m.next[b] /\ r.prev[b] = m.prev[b] /\ r.ctx[b] = m.ctx[b]
  BY <1>1
<1>3. \A d \in Range(Contexts) : r.iterator[d] \in ListOf(m, O, d) \cup {NULL}
  BY <1>1 DEF Listed
<1>4. Listed(r, O)
  BY <1>1, <1>2, <1>3, SameLists
<1> QED  BY <1>4 DEF r

LEMMA ReleaseFrom ==
    ASSUME NEW m \in Memory, NEW S \in SUBSET Blocks, NEW h \in Links, S \cap From(m, h) = {}
    PROVE  From(Release(m, S), h) = From(m, h)
<1> DEFINE r == Release(m, S)
<1>1. /\ r \in Memory
      /\ \A b \in Blocks : r.next[b] = IF b \in S THEN NULL ELSE m.next[b]
  BY ReleaseFields
<1> HIDE DEF r
<1>2. m.next \in [Blocks -> Links] /\ r.next \in [Blocks -> Links]
  BY <1>1 DEF Memory, Links
<1>3. \A b \in From(m, h) : r.next[b] = m.next[b]
  BY <1>1 DEF From
<1>4. From(r, h) = From(m, h)
  BY <1>2, <1>3, SameList
<1> QED  BY <1>4 DEF r

\* us_listen_socket_close.
LEMMA ListenCloseLists ==
    ASSUME NEW m \in Memory, Lists(m), NEW s \in OpenIn(m)
    PROVE  LET w == Release(Unlink(m, s), {s}) IN
           /\ w \in Memory /\ Lists(w)
           /\ \A b \in Blocks : w.type[b] = IF b = s THEN "free" ELSE m.type[b]
           /\ OpenIn(w) = OpenIn(m) \ {s} /\ w.iterator = Unlink(m, s).iterator
<1> DEFINE u == Unlink(m, s)
           w == Release(u, {s})
           P == OpenIn(m) \ {s}
<1>1. Listed(m, OpenIn(m)) /\ OpenIn(m) \in SUBSET Blocks /\ s \in Blocks
  BY DEF Lists, OpenIn
<1>2. /\ u \in Memory /\ u.type = m.type /\ u.closed = m.closed
  BY <1>1, UnlinkFields
<1>3. /\ Listed(u, P) /\ OpenIn(u) = OpenIn(m) /\ ClosedIn(u) = ClosedIn(m)
      /\ From(u, u.closed) = ClosedIn(m)
  BY UnlinkKeeps
<1>4. P \in SUBSET Blocks /\ {s} \cap P = {} /\ {s} \in SUBSET Blocks
  BY <1>1
<1>5. {s} \cap From(u, u.closed) = {} /\ u.closed \in Links
  BY <1>2, <1>3 DEF OpenIn, ClosedIn, Memory, Links
<1> HIDE DEF u, P
<1>6. /\ w \in Memory /\ w.iterator = u.iterator /\ w.closed = u.closed
      /\ \A b \in Blocks :
           /\ w.type[b] = IF b \in {s} THEN "free" ELSE u.type[b]
           /\ w.ctx[b] = IF b \in {s} THEN Contexts[1] ELSE u.ctx[b]
           /\ w.prev[b] = IF b \in {s} THEN NULL ELSE u.prev[b]
  BY <1>2, <1>4, ReleaseFields
<1>7. Listed(w, P)
  BY <1>2, <1>3, <1>4, ReleaseLists
<1>8. From(w, u.closed) = ClosedIn(m)
  BY <1>2, <1>3, <1>4, <1>5, ReleaseFrom
<1> HIDE DEF w
<1>9. OpenIn(w) = P /\ ClosedIn(w) = ClosedIn(m)
  <2>1. w.type[s] = "free" /\ \A b \in Blocks \ {s} : w.type[b] = u.type[b]
    BY <1>1, <1>6
  <2>2. \A b \in Blocks \ {s} : Closed(w, b) <=> Closed(u, b)
    BY <1>6 DEF Closed
  <2>3. OpenIn(w) = OpenIn(u) \ {s} /\ ClosedIn(w) = ClosedIn(u) \ {s}
    BY <2>1, <2>2 DEF OpenIn, ClosedIn
  <2> QED  BY <1>3, <1>5, <2>3 DEF P
<1>10. Lists(w)
  BY <1>6, <1>7, <1>8, <1>9 DEF Lists
<1>11. \A b \in Blocks : w.type[b] = IF b = s THEN "free" ELSE m.type[b]
  BY <1>2, <1>6
<1>12. w \in Memory /\ Lists(w) /\ OpenIn(w) = P /\ w.iterator = u.iterator
  BY <1>6, <1>9, <1>10
<1> QED  BY <1>11, <1>12 DEF w, u, P

\* us_internal_free_closed_sockets.
LEMMA FreeClosedLists ==
    ASSUME NEW m \in Memory, Lists(m)
    PROVE  LET w == [Release(m, From(m, m.closed)) EXCEPT !.closed = NULL] IN
           /\ w \in Memory /\ Lists(w) /\ w.iterator = m.iterator /\ OpenIn(w) = OpenIn(m)
           /\ \A b \in Blocks : w.type[b] = IF b \in ClosedIn(m) THEN "free" ELSE m.type[b]
<1> DEFINE K == ClosedIn(m)
           O == OpenIn(m)
           r == Release(m, K)
           w == [r EXCEPT !.closed = NULL]
<1>1. Listed(m, O) /\ From(m, m.closed) = K
  BY DEF Lists
<1>2. O \in SUBSET Blocks /\ K \in SUBSET Blocks /\ K \cap O = {}
  BY DEF OpenIn, ClosedIn
<1>3. /\ r \in Memory /\ r.head = m.head /\ r.iterator = m.iterator
      /\ \A b \in Blocks :
           /\ r.type[b] = IF b \in K THEN "free" ELSE m.type[b]
           /\ r.ctx[b] = IF b \in K THEN Contexts[1] ELSE m.ctx[b]
           /\ r.prev[b] = IF b \in K THEN NULL ELSE m.prev[b]
           /\ r.next[b] = IF b \in K THEN NULL ELSE m.next[b]
  BY <1>2, ReleaseFields
<1>4. Listed(r, O)
  BY <1>1, <1>2, ReleaseLists
<1> HIDE DEF r
<1>5. /\ w \in Memory /\ w.type = r.type /\ w.ctx = r.ctx /\ w.prev = r.prev /\ w.next = r.next
      /\ w.head = r.head /\ w.iterator = r.iterator /\ w.closed = NULL
  BY <1>3 DEF Memory
<1> HIDE DEF w
<1>6. OpenIn(w) = O /\ ClosedIn(w) = {}
  <2>1. \A b \in Blocks \ K : w.type[b] = m.type[b] /\ (Closed(w, b) <=> Closed(m, b))
    BY <1>3, <1>5 DEF Closed
  <2>2. \A b \in K : w.type[b] = "free"
    BY <1>2, <1>3, <1>5
  <2> QED  BY <1>2, <2>1, <2>2 DEF OpenIn, ClosedIn
<1> HIDE DEF O, K
<1>7. Listed(w, O)
  <2>1. /\ \A b \in O : w.next[b] = r.next[b] /\ w.prev[b] = r.prev[b] /\ w.ctx[b] = r.ctx[b]
        /\ w.head = r.head
        /\ \A d \in Range(Contexts) : w.iterator[d] \in ListOf(r, O, d) \cup {NULL}
    BY <1>4, <1>5 DEF Listed
  <2> QED  BY <1>2, <1>3, <1>4, <1>5, <2>1, SameLists
<1>8. Lists(w)
  BY <1>5, <1>6, <1>7, EmptyList DEF Lists
<1>9. \A b \in Blocks : w.type[b] = IF b \in K THEN "free" ELSE m.type[b]
  BY <1>3, <1>5
<1>10. w \in Memory /\ Lists(w) /\ w.iterator = m.iterator /\ OpenIn(w) = O
  BY <1>3, <1>5, <1>6, <1>8
<1>11. w = [Release(m, From(m, m.closed)) EXCEPT !.closed = NULL]
  BY <1>1 DEF w, r
<1> QED  BY <1>9, <1>10, <1>11 DEF K, O


Resized(m, s, t, k) == LET u == Unlink(m, s) IN IF t = s THEN u ELSE Moved(u, s, t, k)

\* The memory v is m up to the link: s is off its list, and its block, if t is
\* another, is free and t has its type.
Displaced(m, s, t, v) ==
  /\ v \in Memory /\ v.iterator = Unlink(m, s).iterator /\ v.closed = m.closed
  /\ \A b \in Blocks :
       v.type[b] = IF b = t THEN m.type[s] ELSE IF b = s THEN "free" ELSE m.type[b]
  /\ \A b \in Blocks \ {s, t} : Closed(v, b) <=> Closed(m, b)
  /\ Listed(v, OpenIn(m) \ {s}) /\ From(v, m.closed) = ClosedIn(m)

\* us_socket_context_adopt_socket, up to the link.
LEMMA AdoptMoves ==
    ASSUME NEW m \in Memory, Lists(m), NEW s \in OpenIn(m), NEW t \in Blocks,
           t = s \/ m.type[t] = "free", NEW k \in Blocks
    PROVE  Displaced(m, s, t, Resized(m, s, t, k))
<1> DEFINE u == Unlink(m, s)
           x == [u EXCEPT !.type[t] = u.type[s], !.epoll[t] = k]
           y == Release(x, {s})
           P == OpenIn(m) \ {s}
<1>1. Listed(m, OpenIn(m)) /\ OpenIn(m) \in SUBSET Blocks /\ s \in Blocks
  BY DEF Lists, OpenIn
<1>2. /\ u \in Memory /\ u.type = m.type /\ u.ctx = m.ctx /\ u.closed = m.closed
  BY <1>1, UnlinkFields
<1>3. /\ Listed(u, P) /\ OpenIn(u) = OpenIn(m) /\ ClosedIn(u) = ClosedIn(m)
      /\ From(u, m.closed) = ClosedIn(m)
  BY <1>2, UnlinkKeeps
<1>4. \A b \in Blocks : m.type[b] # "free" => (Closed(u, b) <=> Closed(m, b))
  BY <1>2, <1>3 DEF OpenIn, ClosedIn
<1>5. \A b \in Blocks \ {s} : Closed(u, b) <=> Closed(m, b)
  <2>1. TAKE b \in Blocks \ {s}
  <2>2. u.prev[b] = IF b = m.next[s] THEN m.prev[s] ELSE m.prev[b]
    BY <1>1, UnlinkFields
  <2>3. m.next[s] # NULL => m.next[s] \in OpenIn(m)
    BY <1>1, Neighbours DEF ListOf
  <2>4. b = m.next[s] => m.type[b] # "free"
    BY <2>3, Apart DEF OpenIn
  <2> QED  BY <1>2, <1>4, <2>2, <2>4 DEF Closed
<1>6. m.type \in [Blocks -> {"free", "listen", "connect", "socket"}]
  BY DEF Memory
<1> HIDE DEF u, P
<1>7. CASE t = s
  <2>1. \A b \in Blocks :
           u.type[b] = IF b = t THEN m.type[s] ELSE IF b = s THEN "free" ELSE m.type[b]
    BY <1>2, <1>7
  <2>2. Resized(m, s, t, k) = u
    BY <1>7 DEF Resized, u
  <2> QED  BY <1>2, <1>3, <1>5, <1>7, <2>1, <2>2 DEF u, P, Displaced
<1>8. CASE t # s
  <2>1. /\ x.type = [m.type EXCEPT ![t] = m.type[s]] /\ x.ctx = u.ctx /\ x.prev = u.prev
        /\ x.next = u.next /\ x.head = u.head /\ x.iterator = u.iterator /\ x.closed = u.closed
        /\ x = [u EXCEPT !.type = x.type, !.epoll = x.epoll]
        /\ x.epoll = [u.epoll EXCEPT ![t] = k]
    BY <1>2 DEF Memory
  <2> HIDE DEF x
  <2>2. x \in Memory
    <3>1. x.type \in [Blocks -> {"free", "listen", "connect", "socket"}]
      BY <1>1, <1>6, <2>1
    <3>2. x.epoll \in [Blocks -> Blocks]
      BY <1>2, <2>1 DEF Memory
    <3> QED  BY <1>2, <2>1, <3>1, <3>2 DEF Memory
  <2>3. P \in SUBSET Blocks /\ {s} \cap P = {} /\ {s} \in SUBSET Blocks
    BY <1>1 DEF P
  <2>4. Listed(x, P)
    <3>1. /\ \A b \in P : x.next[b] = u.next[b] /\ x.prev[b] = u.prev[b] /\ x.ctx[b] = u.ctx[b]
          /\ x.head = u.head
          /\ \A d \in Range(Contexts) : x.iterator[d] \in ListOf(u, P, d) \cup {NULL}
      BY <1>3, <2>1 DEF Listed
    <3> QED  BY <1>2, <1>3, <2>2, <2>3, <3>1, SameLists
  <2>5. From(x, m.closed) = ClosedIn(m)
    BY <1>3, <2>1 DEF From
  <2>6. {s} \cap From(x, m.closed) = {} /\ m.closed \in Links
    BY <2>5 DEF OpenIn, ClosedIn, Memory, Links
  <2>7. /\ y \in Memory /\ y.iterator = x.iterator /\ y.closed = x.closed
        /\ \A b \in Blocks :
             /\ y.type[b] = IF b \in {s} THEN "free" ELSE x.type[b]
             /\ y.ctx[b] = IF b \in {s} THEN Contexts[1] ELSE x.ctx[b]
             /\ y.prev[b] = IF b \in {s} THEN NULL ELSE x.prev[b]
    BY <2>2, <2>3, ReleaseFields
  <2>8. Listed(y, P)
    BY <2>2, <2>3, <2>4, ReleaseLists
  <2>9. From(y, m.closed) = ClosedIn(m)
    BY <2>2, <2>3, <2>5, <2>6, ReleaseFrom
  <2> HIDE DEF y
  <2>10. \A b \in Blocks :
           y.type[b] = IF b = t THEN m.type[s] ELSE IF b = s THEN "free" ELSE m.type[b]
    BY <1>6, <1>8, <2>1, <2>7
  <2>11. \A b \in Blocks \ {s, t} : Closed(y, b) <=> Closed(m, b)
    BY <1>5, <2>1, <2>7 DEF Closed
  <2>12. y \in Memory /\ y.iterator = u.iterator /\ y.closed = m.closed
    BY <1>2, <2>1, <2>7
  <2>13. Resized(m, s, t, k) = y
    BY <1>8 DEF Resized, Moved, u, x, y
  <2> QED  BY <2>8, <2>9, <2>10, <2>11, <2>12, <2>13 DEF u, P, Displaced
<1> QED  BY <1>7, <1>8

LEMMA AdoptLists ==
    ASSUME NEW m \in Memory, Lists(m), NEW s \in OpenIn(m), NEW c \in Range(Contexts),
           NEW t \in Blocks, t = s \/ m.type[t] = "free", NEW k \in Blocks
    PROVE  LET u == Unlink(m, s)  w == Link(Resized(m, s, t, k), c, t) IN
               /\ w \in Memory /\ Lists(w) /\ w.iterator = u.iterator
               /\ \A b \in Blocks :
                    w.type[b] = IF b = t THEN m.type[s] ELSE IF b = s THEN "free" ELSE m.type[b]
               /\ OpenIn(w) = (OpenIn(m) \ {s}) \cup {t}
<1> DEFINE u == Unlink(m, s)
           v == Resized(m, s, t, k)
           w == Link(v, c, t)
           P == OpenIn(m) \ {s}
<1>1. /\ v \in Memory /\ v.iterator = u.iterator /\ v.closed = m.closed
      /\ \A b \in Blocks :
           v.type[b] = IF b = t THEN m.type[s] ELSE IF b = s THEN "free" ELSE m.type[b]
      /\ \A b \in Blocks \ {s, t} : Closed(v, b) <=> Closed(m, b)
      /\ Listed(v, P) /\ From(v, m.closed) = ClosedIn(m)
  <2>1. Displaced(m, s, t, v)
    BY AdoptMoves
  <2> QED  BY <2>1 DEF Displaced
<1>2. P \in SUBSET Blocks /\ s \in Blocks /\ t \in Blocks \ P /\ m.type[s] # "free"
  BY DEF OpenIn
<1>3. t \notin ClosedIn(m) /\ m.closed \in Links
  BY DEF OpenIn, ClosedIn, Memory, Links
<1> HIDE DEF v, P
<1>4. /\ w \in Memory /\ w.type = v.type /\ w.iterator = v.iterator /\ w.closed = v.closed
      /\ \A b \in Blocks :
           /\ w.ctx[b] = IF b = t THEN c ELSE v.ctx[b]
           /\ w.prev[b] = IF b = t THEN NULL ELSE IF b = v.head[c] THEN t ELSE v.prev[b]
  BY <1>1, LinkFields
<1>5. Listed(w, P \cup {t})
  BY <1>1, <1>2, LinkLists
<1>6. From(w, m.closed) = ClosedIn(m)
  BY <1>1, <1>3, LinkFrom
<1>7. v.head[c] \in P \cup {NULL}
  <2>1. From(v, v.head[c]) = ListOf(v, P, c) /\ v.head[c] \in Links /\ v.next \in [Blocks -> Links]
    BY <1>1 DEF Listed, Memory, Links
  <2> QED  BY <2>1, Closure DEF Holds, ListOf
<1> HIDE DEF w
<1>8. OpenIn(w) = P \cup {t} /\ ClosedIn(w) = ClosedIn(m)
  <2>1. \A b \in Blocks : v.ctx[b] \in Range(Contexts)
    BY <1>1 DEF Memory
  <2>2. ~Closed(w, t)
    BY <1>4, Apart DEF Closed
  <2>3. \A b \in Blocks \ {t, s} : Closed(w, b) <=> Closed(m, b)
    <3>1. TAKE b \in Blocks \ {t, s}
    <3>2. b = v.head[c] => ~Closed(m, b) /\ ~Closed(w, b)
      BY <1>2, <1>4, <1>7, <2>1, Apart DEF Closed, OpenIn, P
    <3> QED  BY <1>1, <1>4, <3>2 DEF Closed
  <2>4. \A b \in Blocks \ {t, s} : w.type[b] = m.type[b]
    BY <1>1, <1>4
  <2>5. w.type[t] # "free" /\ (s # t => w.type[s] = "free")
    BY <1>1, <1>2, <1>4
  <2>6. ~Closed(m, s)
    BY DEF OpenIn
  <2>7. \A b \in Blocks : b \in OpenIn(w) <=> b \in P \cup {t}
    BY <1>2, <2>2, <2>3, <2>4, <2>5 DEF OpenIn, P
  <2>8. \A b \in Blocks : b \in ClosedIn(w) <=> b \in ClosedIn(m)
    BY <1>3, <2>2, <2>3, <2>4, <2>5, <2>6 DEF ClosedIn
  <2> QED  BY <1>2, <2>7, <2>8 DEF OpenIn, ClosedIn
<1>9. Lists(w)
  BY <1>1, <1>4, <1>5, <1>6, <1>8 DEF Lists
<1>10. w \in Memory /\ Lists(w) /\ w.iterator = u.iterator /\ OpenIn(w) = P \cup {t}
  BY <1>1, <1>4, <1>8, <1>9
<1>11. \A b \in Blocks :
         w.type[b] = IF b = t THEN m.type[s] ELSE IF b = s THEN "free" ELSE m.type[b]
  BY <1>1, <1>4
<1> QED  BY <1>10, <1>11 DEF w, v, P


\* Only timeouts, iterators, or the types of sockets change.
LEMMA QuietLists ==
    ASSUME NEW m \in Memory, NEW w \in Memory, Lists(m),
           w.prev = m.prev, w.next = m.next, w.ctx = m.ctx, w.head = m.head, w.closed = m.closed,
           \A b \in Blocks : w.type[b] = "free" <=> m.type[b] = "free",
           \A d \in Range(Contexts) : w.iterator[d] \in ListOf(m, OpenIn(m), d) \cup {NULL}
    PROVE  Lists(w) /\ OpenIn(w) = OpenIn(m)
<1>1. OpenIn(w) = OpenIn(m) /\ ClosedIn(w) = ClosedIn(m) /\ OpenIn(m) \in SUBSET Blocks
  BY DEF OpenIn, ClosedIn, Closed
<1>2. Listed(w, OpenIn(m))
  BY <1>1, SameLists DEF Lists
<1>3. From(w, w.closed) = From(m, m.closed)
  BY DEF From
<1> QED  BY <1>1, <1>2, <1>3 DEF Lists

LEMMA UnlinkSweep ==
    ASSUME NEW m \in Memory, Lists(m), NEW s \in OpenIn(m), NEW it, SweepAt(m, it),
           NEW w, w.iterator = Unlink(m, s).iterator
    PROVE  SweepAt(w, it)
<1>1. Listed(m, OpenIn(m)) /\ OpenIn(m) \in SUBSET Blocks /\ s # NULL
  BY Apart DEF Lists, OpenIn
<1>2. \A d \in Range(Contexts) :
         w.iterator[d] = IF m.iterator[d] = s THEN m.next[s] ELSE m.iterator[d]
  BY <1>1, UnlinkFields
<1> QED  BY <1>1, <1>2 DEF SweepAt

-----------------------------------------------------------------------------
(* The invariant. *)

LEMMA OpenAre ==
    /\ Open = OpenIn(mem) /\ Open' = OpenIn(mem')
    /\ Sockets \subseteq Open /\ \A b \in Sockets : mem.type[b] \notin {"free", "listen"}
BY DEF Open, Sockets, OpenIn, Free

LEMMA InitIInv == Init => IInv
<1> SUFFICES ASSUME Init  PROVE IInv
  OBVIOUS
<1> DEFINE m == [type |-> [b \in Blocks |-> "free"], ctx |-> [b \in Blocks |-> Contexts[1]],
            prev |-> [b \in Blocks |-> NULL], next |-> [b \in Blocks |-> NULL],
            timeout |-> [b \in Blocks |-> 0], epoll |-> [b \in Blocks |-> b],
            head |-> [c \in Range(Contexts) |-> NULL], iterator |-> [c \in Range(Contexts) |-> NULL], closed |-> NULL]
<1>1. m \in Memory
  <2>1. /\ Contexts[1] \in Range(Contexts) /\ 0 \in 0..MaxTimeout
    BY FirstContext, LoopAssumption
  <2> QED  BY <2>1 DEF Memory
<1>2. /\ \A b \in Blocks : m.type[b] = "free"
      /\ \A c \in Range(Contexts) : m.head[c] = NULL /\ m.iterator[c] = NULL
      /\ m.closed = NULL
  OBVIOUS
<1> HIDE DEF m
<1>3. OpenIn(m) = {} /\ ClosedIn(m) = {}
  BY <1>2 DEF OpenIn, ClosedIn
<1>4. Lists(m)
  BY <1>2, <1>3, EmptyList DEF Lists, Listed, ListOf
<1>5. mem = m /\ ready = <<>> /\ DOMAIN ready = {} /\ iterator = <<>> /\ astray = {}
      /\ pc = "call" /\ call = [for |-> "wait", s |-> NULL, at |-> NULL]
  BY DEF Init, m, NoCall
<1>6. TypeOK
  BY <1>1, <1>5 DEF TypeOK
<1>7. Sweeping
  BY <1>2, <1>5 DEF Sweeping, SweepAt
<1>8. Listening /\ Pointed
  BY <1>2, <1>5 DEF Listening, Pointed, Reaching
<1> QED  BY <1>4, <1>5, <1>6, <1>7, <1>8 DEF IInv

\* What a call keeps of the memory.
Kept == mem' \in Memory /\ Lists(mem') /\ SweepAt(mem', iterator) /\ Listening'

LEMMA NextCreate ==
    ASSUME IInv, NEW b \in Blocks, NEW c \in Range(Contexts), NEW t \in {"listen", "connect", "socket"},
           Create(b, c, t)
    PROVE  /\ Kept
           /\ mem.type[b] = "free" /\ \A d \in Blocks : mem'.type[d] = IF d = b THEN t ELSE mem.type[d]
<1>1. mem \in Memory /\ Lists(mem) /\ SweepAt(mem, iterator) /\ Listening
  BY DEF IInv, TypeOK, Sweeping
<1>2. mem' = Made(mem, c, b, t) /\ mem.type[b] = "free"
  BY DEF Create, Free, Made
<1>3. /\ mem' \in Memory /\ Lists(mem')
      /\ OpenIn(mem') = OpenIn(mem) \cup {b} /\ mem'.iterator = mem.iterator
      /\ \A d \in Blocks : mem'.type[d] = IF d = b THEN t ELSE mem.type[d]
  BY <1>1, <1>2, CreateLists
<1>5. SweepAt(mem', iterator)
  BY <1>1, <1>3 DEF SweepAt
<1>6. Listening'
  BY <1>1, <1>3 DEF Listening
<1> QED  BY <1>2, <1>3, <1>5, <1>6 DEF Kept

LEMMA NextCloseSocket ==
    ASSUME IInv, NEW s \in Blocks, ~Closed(mem, s), mem.type[s] \notin {"free", "listen"},
           mem' = Close(mem, s)
    PROVE  /\ Kept
           /\ mem'.type = mem.type
<1>1. mem \in Memory /\ Lists(mem) /\ SweepAt(mem, iterator) /\ Listening /\ s \in OpenIn(mem)
  BY DEF IInv, TypeOK, Sweeping, OpenIn
<1>2. /\ mem' \in Memory /\ Lists(mem')
      /\ mem'.type = mem.type /\ OpenIn(mem') = OpenIn(mem) \ {s}
      /\ mem'.iterator = Unlink(mem, s).iterator
  BY <1>1, CloseLists
<1>3. SweepAt(mem', iterator)
  BY <1>1, <1>2, UnlinkSweep
<1>4. Listening'
  BY <1>1, <1>2 DEF Listening
<1> QED  BY <1>2, <1>3, <1>4 DEF Kept

LEMMA NextListenClose ==
    ASSUME IInv, NEW s \in Blocks, mem.type[s] = "listen", mem' = Release(Unlink(mem, s), {s})
    PROVE  Kept /\ \A b \in Blocks : mem'.type[b] = IF b = s THEN "free" ELSE mem.type[b]
<1>1. mem \in Memory /\ Lists(mem) /\ SweepAt(mem, iterator) /\ Listening /\ s \in OpenIn(mem)
  BY DEF IInv, TypeOK, Sweeping, Listening
<1>2. /\ mem' \in Memory /\ Lists(mem')
      /\ \A b \in Blocks : mem'.type[b] = IF b = s THEN "free" ELSE mem.type[b]
      /\ OpenIn(mem') = OpenIn(mem) \ {s} /\ mem'.iterator = Unlink(mem, s).iterator
  BY <1>1, ListenCloseLists
<1>3. SweepAt(mem', iterator)
  BY <1>1, <1>2, UnlinkSweep
<1>4. Listening'
  BY <1>1, <1>2 DEF Listening
<1> QED  BY <1>2, <1>3, <1>4 DEF Kept

\* us_poll_resize leaves s where it is or makes a free block of it.
LEMMA AdoptResizes ==
    ASSUME mem \in Memory, NEW s \in Blocks, NEW c \in Range(Contexts), NEW t \in Blocks, Adopt(s, c, t)
    PROVE  \E k \in Blocks : mem' = Link(Resized(mem, s, t, k), c, t)
<1>1. CASE t = s
  BY <1>1 DEF Adopt, Resized
<1>2. CASE t # s
  <2>1. PICK k \in {t} \cup (IF mem.type[s] = "socket" THEN {mem.epoll[s]} ELSE {}) :
           mem' = Link(Moved(Unlink(mem, s), s, t, k), c, t)
    BY <1>2 DEF Adopt
  <2>2. k \in Blocks
    BY DEF Memory
  <2> QED  BY <1>2, <2>1, <2>2 DEF Resized
<1> QED  BY <1>1, <1>2

LEMMA NextAdopt ==
    ASSUME IInv, NEW s \in Blocks, NEW c \in Range(Contexts), NEW t \in Blocks, NEW k \in Blocks,
           s \in Sockets, t \in {s} \cup Free,
           mem' = Link(Resized(mem, s, t, k), c, t)
    PROVE  Kept /\ \A b \in Blocks : mem'.type[b] = IF b = t THEN mem.type[s]
                                                     ELSE IF b = s THEN "free" ELSE mem.type[b]
<1>1. mem \in Memory /\ Lists(mem) /\ SweepAt(mem, iterator) /\ Listening /\ s \in OpenIn(mem)
  BY OpenAre DEF IInv, TypeOK, Sweeping
<1>2. t = s \/ mem.type[t] = "free"
  BY DEF Free
<1>3. /\ mem' \in Memory /\ Lists(mem') /\ mem'.iterator = Unlink(mem, s).iterator
      /\ \A b \in Blocks : mem'.type[b] = IF b = t THEN mem.type[s]
                                          ELSE IF b = s THEN "free" ELSE mem.type[b]
      /\ OpenIn(mem') = (OpenIn(mem) \ {s}) \cup {t}
  BY <1>1, <1>2, AdoptLists
<1>4. SweepAt(mem', iterator)
  BY <1>1, <1>3, UnlinkSweep
<1>5. mem.type[s] # "listen"
  BY OpenAre
<1>6. Listening'
  <2>1. SUFFICES ASSUME NEW b \in Blocks, mem'.type[b] = "listen"  PROVE b \in OpenIn(mem')
    BY DEF Listening
  <2>2. b # s /\ b \in OpenIn(mem)
    BY <1>1, <1>2, <1>3, <1>5, <2>1 DEF Listening
  <2> QED  BY <1>3, <2>2
<1> QED  BY <1>3, <1>4, <1>6 DEF Kept

\* The head of a list and the socket behind one of it are on it.
LEMMA OnList ==
    ASSUME NEW m \in Memory, NEW O, Listed(m, O), NEW c \in Range(Contexts)
    PROVE  /\ m.head[c] \in ListOf(m, O, c) \cup {NULL}
           /\ \A b \in ListOf(m, O, c) : m.next[b] \in ListOf(m, O, c) \cup {NULL}
<1>1. From(m, m.head[c]) = ListOf(m, O, c) /\ m.head[c] \in Links /\ m.next \in [Blocks -> Links]
  BY DEF Listed, Memory, Links
<1> QED  BY <1>1, Closure DEF Holds

\* The steps that leave the lists alone: a timeout, a type, or an iterator.
LEMMA NextQuiet ==
    ASSUME IInv, mem' \in Memory,
           mem'.prev = mem.prev, mem'.next = mem.next, mem'.ctx = mem.ctx,
           mem'.head = mem.head, mem'.closed = mem.closed,
           \A b \in Blocks : mem'.type[b] = "free" <=> mem.type[b] = "free",
           \A b \in Blocks : mem'.type[b] = "listen" => mem.type[b] = "listen",
           \A d \in Range(Contexts) :
              mem'.iterator[d] \in ListOf(mem, OpenIn(mem), d) \cup {NULL}
    PROVE  Lists(mem') /\ Listening' /\ OpenIn(mem') = OpenIn(mem)
<1>1. mem \in Memory /\ Lists(mem) /\ Listening
  BY DEF IInv, TypeOK
<1>2. Lists(mem') /\ OpenIn(mem') = OpenIn(mem)
  BY <1>1, QuietLists
<1> QED  BY <1>1, <1>2 DEF Listening

LEMMA NextTimeout ==
    ASSUME IInv, NEW s \in Blocks, NEW n \in 0..MaxTimeout, Timeout(s, n)
    PROVE  Kept /\ mem'.type = mem.type
<1>1. mem \in Memory /\ Lists(mem) /\ SweepAt(mem, iterator)
  BY DEF IInv, TypeOK, Sweeping
<1>2. /\ mem' \in Memory /\ mem'.type = mem.type /\ mem'.iterator = mem.iterator
      /\ mem'.prev = mem.prev /\ mem'.next = mem.next /\ mem'.ctx = mem.ctx
      /\ mem'.head = mem.head /\ mem'.closed = mem.closed
  BY <1>1 DEF Timeout, Memory
<1>3. Lists(mem') /\ Listening'
  BY <1>1, <1>2, NextQuiet DEF Lists, Listed
<1>4. SweepAt(mem', iterator)
  BY <1>1, <1>2 DEF SweepAt
<1> QED  BY <1>2, <1>3, <1>4 DEF Kept

LEMMA NextWrite ==
    ASSUME IInv, NEW s \in Blocks, Write(s)
    PROVE  Kept /\ mem'.type = mem.type
<1>1. mem \in Memory /\ Lists(mem) /\ SweepAt(mem, iterator)
  BY DEF IInv, TypeOK, Sweeping
<1>2. /\ mem' \in Memory /\ mem'.type = mem.type /\ mem'.iterator = mem.iterator
      /\ mem'.prev = mem.prev /\ mem'.next = mem.next /\ mem'.ctx = mem.ctx
      /\ mem'.head = mem.head /\ mem'.closed = mem.closed
  BY <1>1 DEF Write, Memory
<1>3. Lists(mem') /\ Listening'
  BY <1>1, <1>2, NextQuiet DEF Lists, Listed
<1>4. SweepAt(mem', iterator)
  BY <1>1, <1>2 DEF SweepAt
<1> QED  BY <1>2, <1>3, <1>4 DEF Kept

LEMMA NextConnect ==
    ASSUME IInv, NEW p \in Blocks, mem.type[p] = "connect",
           mem' = [mem EXCEPT !.type[p] = "socket"]
    PROVE  Kept /\ \A b \in Blocks : mem'.type[b] = IF b = p THEN "socket" ELSE mem.type[b]
<1>1. mem \in Memory /\ Lists(mem) /\ SweepAt(mem, iterator)
  BY DEF IInv, TypeOK, Sweeping
<1>2. /\ mem' \in Memory /\ mem'.iterator = mem.iterator
      /\ \A b \in Blocks : mem'.type[b] = IF b = p THEN "socket" ELSE mem.type[b]
      /\ mem'.prev = mem.prev /\ mem'.next = mem.next /\ mem'.ctx = mem.ctx
      /\ mem'.head = mem.head /\ mem'.closed = mem.closed
  BY <1>1 DEF Memory
<1>3. Lists(mem') /\ Listening'
  BY <1>1, <1>2, NextQuiet DEF Lists, Listed
<1>4. SweepAt(mem', iterator)
  BY <1>1, <1>2 DEF SweepAt
<1> QED  BY <1>2, <1>3, <1>4 DEF Kept

\* The sweep comes to a context: no iterator stood anywhere.
LEMMA NextEnter ==
    ASSUME IInv, NEW c \in Range(Contexts), \A d \in Range(Contexts) : mem.iterator[d] = NULL,
           mem' = Enter(c), NEW it, it # <<>>, Head(it) = c
    PROVE  /\ mem' \in Memory /\ Lists(mem') /\ SweepAt(mem', it) /\ Listening'
           /\ mem'.type = mem.type
<1>1. mem \in Memory /\ Lists(mem)
  BY DEF IInv, TypeOK
<1>2. mem.head[c] \in ListOf(mem, OpenIn(mem), c) \cup {NULL}
  BY <1>1, OnList DEF Lists
<1>3. /\ mem' \in Memory /\ mem'.type = mem.type
      /\ mem'.prev = mem.prev /\ mem'.next = mem.next /\ mem'.ctx = mem.ctx
      /\ mem'.head = mem.head /\ mem'.closed = mem.closed
      /\ \A d \in Range(Contexts) : mem'.iterator[d] = IF d = c THEN mem.head[c] ELSE NULL
  BY <1>1 DEF Memory, Enter
<1>4. Lists(mem') /\ Listening'
  BY <1>1, <1>2, <1>3, NextQuiet
<1>5. SweepAt(mem', it)
  BY <1>3 DEF SweepAt
<1> QED  BY <1>3, <1>4, <1>5

\* It moves on from the socket it stood at, or does not.
LEMMA NextAdvance ==
    ASSUME IInv, iterator # <<>>, mem' \in Memory, mem'.type = mem.type,
           mem'.prev = mem.prev, mem'.next = mem.next, mem'.ctx = mem.ctx,
           mem'.head = mem.head, mem'.closed = mem.closed,
           \A d \in Range(Contexts) :
              \/ mem'.iterator[d] = mem.iterator[d]
              \/ /\ d = Head(iterator) /\ mem.iterator[d] # NULL
                 /\ mem'.iterator[d] = mem.next[mem.iterator[d]]
    PROVE  Kept
<1>1. mem \in Memory /\ Lists(mem) /\ Listed(mem, OpenIn(mem)) /\ SweepAt(mem, iterator)
  BY DEF IInv, TypeOK, Sweeping, Lists
<1>2. ASSUME NEW d \in Range(Contexts)
      PROVE  mem'.iterator[d] \in ListOf(mem, OpenIn(mem), d) \cup {NULL}
  <2>1. mem.iterator[d] \in ListOf(mem, OpenIn(mem), d) \cup {NULL}
    BY <1>1 DEF Listed
  <2> QED  BY <1>1, <2>1, OnList
<1>3. Lists(mem') /\ Listening'
  BY <1>2, NextQuiet
<1>4. SweepAt(mem', iterator)
  BY <1>1 DEF SweepAt
<1> QED  BY <1>3, <1>4 DEF Kept

-----------------------------------------------------------------------------
(* Events. *)

\* An event is taken from the batch.
LEMMA Taken ==
    ASSUME TypeOK, NEW e, Take(e)
    PROVE  /\ pc = "batch" /\ e \in DOMAIN ready /\ Typed(ready') /\ astray' = astray \ {e}
           /\ astray' \subseteq Blocks
           /\ DOMAIN ready' = DOMAIN ready \ {e}
           /\ \A d \in DOMAIN ready' : ready'[d] = ready[d]
           /\ e \in Blocks => ready[e] \in Blocks
<1>1. /\ pc = "batch" /\ e \in DOMAIN ready /\ astray' = astray \ {e}
      /\ ready' = [d \in DOMAIN ready \ {e} |-> ready[d]]
  BY DEF Take, Restrict
<1>2. /\ DOMAIN ready \subseteq Blocks \cup {"timer", "async"}
      /\ ready = [d \in DOMAIN ready |-> IF d \in Blocks THEN ready[d] ELSE d]
      /\ \A d \in DOMAIN ready \cap Blocks : ready[d] \in Blocks
      /\ astray \subseteq Blocks
  BY DEF TypeOK
<1>3. DOMAIN ready' = DOMAIN ready \ {e} /\ \A d \in DOMAIN ready' : ready'[d] = ready[d]
  BY <1>1
<1>4. \A d \in DOMAIN ready : ready[d] = IF d \in Blocks THEN ready[d] ELSE d
  BY <1>2
<1>5. ready' = [d \in DOMAIN ready' |-> IF d \in Blocks THEN ready'[d] ELSE d]
  BY <1>1, <1>3, <1>4
<1> QED  BY <1>1, <1>2, <1>3, <1>5 DEF Typed

\* Events of freed blocks stay astray while no more blocks are freed.
LEMMA TakenReaching ==
    ASSUME TypeOK, Reaching, NEW e, Take(e), Free' = Free
    PROVE  Reaching'
<1>1. /\ astray' = astray \ {e} /\ DOMAIN ready' = DOMAIN ready \ {e}
      /\ \A d \in DOMAIN ready' : ready'[d] = ready[d]
  BY Taken
<1> QED  BY <1>1 DEF Reaching

LEMMA StillReaching ==
    ASSUME Reaching, UNCHANGED <<ready, astray>>, Free' \subseteq Free
    PROVE  Reaching'
BY DEF Reaching

\* A socket's block has moved from s to t.
LEMMA ResizeReaching ==
    ASSUME TypeOK, Reaching, NEW s \in Blocks, NEW t \in Blocks, s # t, t \in Free, s \notin Free,
           Free' = (Free \ {t}) \cup {s}, PollResize(s, t)
    PROVE  Typed(ready') /\ astray' \subseteq Blocks /\ Reaching'
<1>1. /\ DOMAIN ready \subseteq Blocks \cup {"timer", "async"}
      /\ ready = [d \in DOMAIN ready |-> IF d \in Blocks THEN ready[d] ELSE d]
      /\ \A d \in DOMAIN ready \cap Blocks : ready[d] \in Blocks
      /\ astray \subseteq Blocks
  BY DEF TypeOK
<1>2. \A d \in DOMAIN ready \ Blocks : ready[d] = d
  BY <1>1
<1>3. Carrying(s) \subseteq Blocks /\ Carrying(s) = {d \in DOMAIN ready : ready[d] = s}
  BY <1>1, <1>2 DEF Carrying
<1>4. CASE call.at = s \/ Carrying(s) \cap astray # {} \/ Carrying(s) = {}
  <2>1. astray \cup Carrying(s) = astray' /\ astray' \subseteq Blocks
    BY <1>1, <1>3, <1>4 DEF PollResize
  <2>2. \/ UNCHANGED ready
        \/ \E e \in Carrying(s) : ready' = [ready EXCEPT ![e] = t]
    BY DEF PollResize
  <2>3. CASE UNCHANGED ready
    BY <1>1, <1>3, <2>1, <2>3 DEF Typed, Reaching
  <2>4. CASE \E e \in Carrying(s) : ready' = [ready EXCEPT ![e] = t]
    <3>1. PICK e \in Carrying(s) : ready' = [ready EXCEPT ![e] = t]
      BY <2>4
    <3>2. /\ DOMAIN ready' = DOMAIN ready /\ e \in Blocks /\ e \in DOMAIN ready
          /\ \A d \in DOMAIN ready : ready'[d] = IF d = e THEN t ELSE ready[d]
      BY <1>3, <3>1
    <3>3. Typed(ready')
      <4>1. ready' = [d \in DOMAIN ready' |-> ready'[d]]
        BY <3>1, <3>2, <1>1
      <4>2. \A d \in DOMAIN ready' : ready'[d] = IF d \in Blocks THEN ready'[d] ELSE d
        BY <1>2, <3>2
      <4> QED  BY <1>1, <3>2, <4>1, <4>2 DEF Typed
    <3>4. Reaching'
      BY <1>1, <1>3, <2>1, <3>2 DEF Reaching
    <3> QED  BY <2>1, <3>3, <3>4
  <2> QED  BY <2>2, <2>3, <2>4
<1>5. CASE call.at # s /\ Carrying(s) \cap astray = {} /\ Carrying(s) # {}
  <2>1. PICK e \in Carrying(s) : ready' = [ready EXCEPT ![e] = t]
    BY <1>5 DEF PollResize
  <2>2. UNCHANGED astray
    BY <1>5 DEF PollResize
  <2>3. \A d \in Carrying(s) : d = e
    BY <1>3, <1>5 DEF Reaching
  <2>4. /\ DOMAIN ready' = DOMAIN ready /\ e \in Blocks /\ e \in DOMAIN ready
        /\ \A d \in DOMAIN ready : ready'[d] = IF d = e THEN t ELSE ready[d]
    BY <1>3, <2>1
  <2>5. Typed(ready')
    <3>1. ready' = [d \in DOMAIN ready' |-> ready'[d]]
      BY <2>1, <2>4, <1>1
    <3>2. \A d \in DOMAIN ready' : ready'[d] = IF d \in Blocks THEN ready'[d] ELSE d
      BY <1>2, <2>4
    <3> QED  BY <1>1, <2>4, <3>1, <3>2 DEF Typed
  <2>6. Reaching'
    <3>1. \A d \in DOMAIN ready : ready'[d] # s
      BY <1>3, <2>3, <2>4
    <3> QED  BY <1>1, <2>2, <2>4, <3>1 DEF Reaching
  <2> QED  BY <1>1, <2>2, <2>5, <2>6
<1> QED  BY <1>4, <1>5

-----------------------------------------------------------------------------
(* Each step keeps the invariant. First the application's. *)

LEMMA KeepCreate ==
    ASSUME IInv, NEW b \in Blocks, NEW c \in Range(Contexts), Listen(b, c) \/ Connect(b, c)
    PROVE  IInv'
<1>1. PICK t \in {"listen", "connect", "socket"} : Create(b, c, t)
  BY DEF Listen, Connect
<1>2. /\ Kept /\ mem.type[b] = "free"
      /\ \A d \in Blocks : mem'.type[d] = IF d = b THEN t ELSE mem.type[d]
  BY <1>1, NextCreate
<1>3. UNCHANGED <<ready, pc, call, iterator, astray>> /\ pc = "call"
  BY DEF Listen, Connect, loop
<1>4. TypeOK /\ Sweeping /\ Pointed
  BY DEF IInv
<1>5. TypeOK'
  BY <1>2, <1>3, <1>4 DEF TypeOK, Kept
<1>6. Sweeping'
  BY <1>2, <1>3, <1>4 DEF Sweeping, Kept
<1>7. Pointed'
  <2>1. Reaching'
    BY <1>2, <1>3, <1>4, StillReaching DEF Pointed, Free
  <2> QED  BY <1>1, <1>2, <1>3, <1>4, <2>1 DEF Pointed
<1> QED  BY <1>2, <1>5, <1>6, <1>7 DEF IInv, Kept

LEMMA KeepListenClose ==
    ASSUME IInv, NEW l \in Blocks, ListenClose(l)
    PROVE  IInv'
<1>1. mem.type[l] = "listen" /\ mem' = Release(Unlink(mem, l), {l})
  BY DEF ListenClose
<1>2. Kept /\ \A b \in Blocks : mem'.type[b] = IF b = l THEN "free" ELSE mem.type[b]
  BY <1>1, NextListenClose
<1>3. UNCHANGED <<ready, pc, call, iterator>> /\ pc = "call" /\ astray' = astray \cup Carrying(l)
  BY DEF ListenClose, loop
<1>4. TypeOK /\ Sweeping /\ Pointed
  BY DEF IInv
<1>5. TypeOK'
  <2>1. \A e \in DOMAIN ready : ready[e] = IF e \in Blocks THEN ready[e] ELSE e
    BY <1>4 DEF TypeOK
  <2>2. Carrying(l) \subseteq Blocks
    BY <2>1 DEF Carrying
  <2> QED  BY <1>2, <1>3, <1>4, <2>2 DEF TypeOK, Kept
<1>6. Sweeping'
  BY <1>2, <1>3, <1>4 DEF Sweeping, Kept
<1>7. Pointed'
  <2>1. Reaching'
    BY <1>2, <1>3, <1>4 DEF Pointed, Free, Reaching, Carrying
  <2> QED  BY <1>1, <1>2, <1>3, <1>4, <2>1 DEF Pointed
<1> QED  BY <1>2, <1>5, <1>6, <1>7 DEF IInv, Kept

LEMMA KeepCloseSocket ==
    ASSUME IInv, NEW s \in Blocks, CloseSocket(s)
    PROVE  IInv'
<1>1. /\ ~Closed(mem, s) /\ mem.type[s] \notin {"free", "listen"} /\ mem' = Close(mem, s)
  BY DEF CloseSocket, Sockets, Open, Free
<1>2. Kept /\ mem'.type = mem.type
  BY <1>1, NextCloseSocket
<1>3. UNCHANGED <<ready, pc, call, iterator, astray>>
  BY DEF CloseSocket, loop
<1>4. TypeOK /\ Sweeping /\ Pointed
  BY DEF IInv
<1>5. TypeOK'
  BY <1>2, <1>3, <1>4 DEF TypeOK, Kept
<1>6. Sweeping'
  BY <1>2, <1>3, <1>4 DEF Sweeping, Kept
<1>7. Pointed'
  <2>1. Reaching'
    BY <1>2, <1>3, <1>4, StillReaching DEF Pointed, Free
  <2> QED  BY <1>2, <1>3, <1>4, <2>1 DEF Pointed
<1> QED  BY <1>2, <1>5, <1>6, <1>7 DEF IInv, Kept

\* The events that wait for s, and the loop in on_writable, go on with t.
LEMMA KeepAdopt ==
    ASSUME IInv, NEW s \in Blocks, NEW c \in Range(Contexts), NEW t \in Blocks, Adopt(s, c, t)
    PROVE  IInv'
<1>1. /\ s \in Sockets /\ t \in {s} \cup Free /\ pc = "call"
      /\ UNCHANGED <<pc, iterator>>
      /\ IF t = s THEN UNCHANGED <<ready, astray>> ELSE PollResize(s, t)
      /\ call' = IF call.for = "writable" /\ call.s = s THEN [call EXCEPT !.s = t] ELSE call
  BY DEF Adopt
<1>2. PICK k \in Blocks : mem' = Link(Resized(mem, s, t, k), c, t)
  BY AdoptResizes DEF IInv, TypeOK
<1>3. Kept /\ \A b \in Blocks : mem'.type[b] = IF b = t THEN mem.type[s]
                                                ELSE IF b = s THEN "free" ELSE mem.type[b]
  BY <1>1, <1>2, NextAdopt
<1>4. TypeOK /\ Sweeping /\ Pointed
  BY DEF IInv
<1>5. /\ call'.for = call.for
      /\ call'.s = IF call.for = "writable" /\ call.s = s THEN t ELSE call.s
      /\ call' \in [for : {"wait", "batch", "writable", "recv", "accept", "sweep"},
                    s : Blocks \cup {NULL}, at : Blocks \cup {NULL}]
  BY <1>1, <1>4 DEF TypeOK
<1>6. Typed(ready') /\ astray' \subseteq Blocks /\ Reaching'
  <2>1. mem.type[s] # "free"
    BY <1>1, OpenAre
  <2>2. CASE t = s
    <3>1. UNCHANGED <<ready, astray>> /\ Free' = Free
      BY <1>1, <1>3, <2>1, <2>2 DEF Free
    <3> QED  BY <1>4, <3>1, StillReaching DEF TypeOK, Typed, Pointed
  <2>3. CASE t # s
    <3>1. Free' = (Free \ {t}) \cup {s} /\ s \notin Free /\ t \in Free /\ PollResize(s, t)
      BY <1>1, <1>3, <2>1, <2>3 DEF Free
    <3> QED  BY <1>4, <2>3, <3>1, ResizeReaching DEF Pointed
  <2> QED  BY <2>2, <2>3
<1>7. TypeOK'
  BY <1>1, <1>3, <1>4, <1>5, <1>6 DEF TypeOK, Typed, Kept
<1>8. Sweeping'
  BY <1>1, <1>3, <1>4, <1>5 DEF Sweeping, Kept
<1>9. Pointed'
  <2>1. call'.for = "writable" => call'.s \in Blocks /\ mem'.type[call'.s] = "socket"
    BY <1>1, <1>3, <1>4, <1>5 DEF Pointed, Free
  <2> QED  BY <1>1, <1>4, <1>5, <1>6, <2>1 DEF Pointed
<1> QED  BY <1>3, <1>7, <1>8, <1>9 DEF IInv, Kept

LEMMA KeepWrite ==
    ASSUME IInv, NEW s \in Blocks, Write(s)
    PROVE  IInv'
<1>1. Kept /\ mem'.type = mem.type
  BY NextWrite
<1>2. UNCHANGED <<ready, pc, call, iterator, astray>>
  BY DEF Write, loop
<1>3. TypeOK /\ Sweeping /\ Pointed
  BY DEF IInv
<1>4. TypeOK'
  BY <1>1, <1>2, <1>3 DEF TypeOK, Kept
<1>5. Sweeping'
  BY <1>1, <1>2, <1>3 DEF Sweeping, Kept
<1>6. Pointed'
  <2>1. Reaching'
    BY <1>1, <1>2, <1>3, StillReaching DEF Pointed, Free
  <2> QED  BY <1>1, <1>2, <1>3, <2>1 DEF Pointed
<1> QED  BY <1>1, <1>4, <1>5, <1>6 DEF IInv, Kept

LEMMA KeepTimeout ==
    ASSUME IInv, NEW s \in Blocks, NEW n \in 0..MaxTimeout, Timeout(s, n)
    PROVE  IInv'
<1>1. Kept /\ mem'.type = mem.type
  BY NextTimeout
<1>2. UNCHANGED <<ready, pc, call, iterator, astray>>
  BY DEF Timeout, loop
<1>3. TypeOK /\ Sweeping /\ Pointed
  BY DEF IInv
<1>4. TypeOK'
  BY <1>1, <1>2, <1>3 DEF TypeOK, Kept
<1>5. Sweeping'
  BY <1>1, <1>2, <1>3 DEF Sweeping, Kept
<1>6. Pointed'
  <2>1. Reaching'
    BY <1>1, <1>2, <1>3, StillReaching DEF Pointed, Free
  <2> QED  BY <1>1, <1>2, <1>3, <2>1 DEF Pointed
<1> QED  BY <1>1, <1>4, <1>5, <1>6 DEF IInv, Kept

-----------------------------------------------------------------------------
(* The batch. *)

\* A step that leaves the memory and the sweep alone and does not start a call.
LEMMA KeepMemory ==
    ASSUME IInv, UNCHANGED <<mem, iterator>>
    PROVE  /\ mem' \in Memory /\ Lists(mem') /\ SweepAt(mem', iterator') /\ Listening'
           /\ Free' = Free
<1>1. mem \in Memory /\ Lists(mem) /\ SweepAt(mem, iterator) /\ Listening
  BY DEF IInv, TypeOK, Sweeping
<1>2. Listening'
  BY <1>1 DEF Listening
<1> QED  BY <1>1, <1>2 DEF Free

LEMMA KeepWait == ASSUME IInv, Wait  PROVE IInv'
<1>1. mem' \in Memory /\ Lists(mem') /\ SweepAt(mem', iterator') /\ Listening' /\ Free' = Free
  BY KeepMemory DEF Wait
<1>2. PICK S \in SUBSET (Open \cup {"timer", "async"}) :
         /\ ready' = [e \in S |-> IF e \in Blocks THEN mem.epoll[e] ELSE e]
         /\ astray' = {e \in S \cap Blocks : mem.epoll[e] # e}
  BY DEF Wait
<1>3. /\ pc = "wait" /\ pc' = "batch" /\ UNCHANGED <<mem, call, iterator>>
  BY DEF Wait
<1>4. TypeOK /\ Sweeping /\ mem.epoll \in [Blocks -> Blocks]
  BY DEF IInv, TypeOK, Memory
<1>5. /\ DOMAIN ready' = S /\ S \subseteq Open \cup {"timer", "async"}
      /\ \A e \in S : ready'[e] = IF e \in Blocks THEN mem.epoll[e] ELSE e
  BY <1>2
<1>6. Typed(ready') /\ astray' \subseteq Blocks
  BY <1>2, <1>4, <1>5 DEF Typed, Open
<1>7. Reaching'
  <2>1. \A e \in S : ready'[e] \in Free => e \in Blocks /\ ready'[e] # e
    BY <1>5, LoopAssumption DEF Free, Open
  <2> QED  BY <1>1, <1>2, <1>5, <2>1 DEF Reaching
<1>8. TypeOK'
  BY <1>1, <1>3, <1>4, <1>6 DEF TypeOK, Typed
<1>9. Sweeping'
  BY <1>1, <1>3, <1>4 DEF Sweeping
<1>10. Pointed'
  BY <1>3, <1>7 DEF Pointed
<1> QED  BY <1>1, <1>8, <1>9, <1>10 DEF IInv

LEMMA KeepWakeup == ASSUME IInv, DispatchWakeup  PROVE IInv'
<1>1. mem' \in Memory /\ Lists(mem') /\ SweepAt(mem', iterator') /\ Listening' /\ Free' = Free
  BY KeepMemory DEF DispatchWakeup
<1>2. /\ pc = "batch" /\ pc' = "call" /\ UNCHANGED <<mem, iterator>>
      /\ call' = [for |-> "batch", s |-> NULL, at |-> NULL] /\ Take("async")
  BY DEF DispatchWakeup, Take, Callback
<1>3. TypeOK /\ Sweeping /\ Pointed
  BY DEF IInv
<1>4. Typed(ready') /\ astray' \subseteq Blocks /\ Reaching'
  BY <1>1, <1>2, <1>3, Taken, TakenReaching DEF Pointed
<1>5. TypeOK'
  BY <1>1, <1>2, <1>3, <1>4 DEF TypeOK, Typed
<1>6. Sweeping'
  BY <1>1, <1>2, <1>3 DEF Sweeping
<1>7. Pointed'
  BY <1>1, <1>2, <1>3, <1>4 DEF Pointed
<1> QED  BY <1>1, <1>5, <1>6, <1>7 DEF IInv

LEMMA KeepFreed == ASSUME IInv, NEW e \in Blocks, DispatchFreed(e)  PROVE IInv'
<1>1. mem' \in Memory /\ Lists(mem') /\ SweepAt(mem', iterator') /\ Listening' /\ Free' = Free
  BY KeepMemory DEF DispatchFreed
<1>2. /\ pc = "batch" /\ pc' = "undefined" /\ UNCHANGED <<mem, call, iterator>> /\ Take(e)
  BY DEF DispatchFreed, Take
<1>3. TypeOK /\ Sweeping /\ Pointed
  BY DEF IInv
<1>4. Typed(ready') /\ astray' \subseteq Blocks /\ Reaching'
  BY <1>1, <1>2, <1>3, Taken, TakenReaching DEF Pointed
<1>5. TypeOK'
  BY <1>1, <1>2, <1>3, <1>4 DEF TypeOK, Typed
<1>6. Sweeping'
  BY <1>1, <1>2, <1>3 DEF Sweeping
<1>7. Pointed'
  BY <1>1, <1>2, <1>3, <1>4 DEF Pointed
<1> QED  BY <1>1, <1>5, <1>6, <1>7 DEF IInv

LEMMA KeepConnected == ASSUME IInv, NEW e \in Blocks, DispatchConnect(e)  PROVE IInv'
<1> DEFINE p == ready[e]
<1>1. /\ pc = "batch" /\ pc' = "call" /\ UNCHANGED iterator /\ Take(e) /\ p \in Blocks
      /\ call' = [for |-> "batch", s |-> NULL, at |-> p]
      /\ mem.type[p] = "connect" /\ mem' = [mem EXCEPT !.type[p] = "socket"]
  BY DEF DispatchConnect, Take, Callback
<1> HIDE DEF p
<1>2. Kept /\ \A b \in Blocks : mem'.type[b] = IF b = p THEN "socket" ELSE mem.type[b]
  BY <1>1, NextConnect
<1>3. TypeOK /\ Sweeping /\ Pointed
  BY DEF IInv
<1>4. Typed(ready') /\ astray' \subseteq Blocks /\ Reaching'
  <2>1. Free' = Free
    BY <1>1, <1>2 DEF Free
  <2> QED  BY <1>1, <1>3, <2>1, Taken, TakenReaching DEF Pointed
<1>5. TypeOK'
  BY <1>1, <1>2, <1>3, <1>4 DEF TypeOK, Typed, Kept
<1>6. Sweeping'
  BY <1>1, <1>2, <1>3 DEF Sweeping, Kept
<1>7. Pointed'
  BY <1>1, <1>2, <1>3, <1>4 DEF Pointed
<1> QED  BY <1>2, <1>5, <1>6, <1>7 DEF IInv, Kept

LEMMA KeepListen == ASSUME IInv, NEW e \in Blocks, DispatchListen(e)  PROVE IInv'
<1> DEFINE p == ready[e]
<1>1. mem' \in Memory /\ Lists(mem') /\ SweepAt(mem', iterator') /\ Listening' /\ Free' = Free
  BY KeepMemory DEF DispatchListen
<1>2. /\ pc = "batch" /\ pc' = "accept" /\ UNCHANGED <<mem, iterator>> /\ Take(e) /\ p \in Blocks
      /\ call' = [for |-> "accept", s |-> p, at |-> p] /\ mem.type[p] = "listen"
  BY DEF DispatchListen, Take
<1> HIDE DEF p
<1>3. TypeOK /\ Sweeping /\ Pointed
  BY DEF IInv
<1>4. Typed(ready') /\ astray' \subseteq Blocks /\ Reaching'
  BY <1>1, <1>2, <1>3, Taken, TakenReaching DEF Pointed
<1>5. TypeOK'
  BY <1>1, <1>2, <1>3, <1>4 DEF TypeOK, Typed
<1>6. Sweeping'
  BY <1>1, <1>2, <1>3 DEF Sweeping
<1>7. Pointed'
  BY <1>1, <1>2, <1>3, <1>4 DEF Pointed
<1> QED  BY <1>1, <1>5, <1>6, <1>7 DEF IInv

LEMMA KeepAccept == ASSUME IInv, NEW b \in Blocks, Accept(b)  PROVE IInv'
<1>1. /\ pc = "accept" /\ pc' = "call" /\ Create(b, mem.ctx[call.s], "socket")
      /\ UNCHANGED <<ready, call, iterator, astray>>
  BY DEF Accept
<1>2. TypeOK /\ Sweeping /\ Pointed
  BY DEF IInv
<1>3. mem.ctx[call.s] \in Range(Contexts)
  BY <1>1, <1>2 DEF Pointed, TypeOK, Memory
<1>4. /\ Kept /\ mem.type[b] = "free"
      /\ \A d \in Blocks : mem'.type[d] = IF d = b THEN "socket" ELSE mem.type[d]
  BY <1>1, <1>3, NextCreate
<1>5. TypeOK'
  BY <1>1, <1>2, <1>4 DEF TypeOK, Kept
<1>6. Sweeping'
  BY <1>1, <1>2, <1>4 DEF Sweeping, Pointed, Kept
<1>7. Pointed'
  <2>1. Reaching'
    BY <1>1, <1>2, <1>4, StillReaching DEF Pointed, Free
  <2> QED  BY <1>1, <1>2, <1>4, <2>1 DEF Pointed
<1> QED  BY <1>4, <1>5, <1>6, <1>7 DEF IInv, Kept

LEMMA KeepNoMore == ASSUME IInv, NoMoreToAccept  PROVE IInv'
<1>1. mem' \in Memory /\ Lists(mem') /\ SweepAt(mem', iterator') /\ Listening' /\ Free' = Free
  BY KeepMemory DEF NoMoreToAccept
<1>2. /\ pc = "accept" /\ pc' = "batch" /\ UNCHANGED <<mem, ready, iterator, astray>>
      /\ call' = [for |-> "batch", s |-> NULL, at |-> NULL]
  BY DEF NoMoreToAccept, Done, NoCall
<1>3. TypeOK /\ Sweeping /\ Pointed
  BY DEF IInv
<1>4. TypeOK'
  BY <1>1, <1>2, <1>3 DEF TypeOK
<1>5. Sweeping'
  BY <1>1, <1>2, <1>3 DEF Sweeping
<1>6. Pointed'
  <2>1. Reaching'
    BY <1>1, <1>2, <1>3, StillReaching DEF Pointed
  <2> QED  BY <1>1, <1>2, <1>3, <2>1 DEF Pointed
<1> QED  BY <1>1, <1>4, <1>5, <1>6 DEF IInv

\* The loop closes a socket, and tells the application, or finds it closed.
LEMMA NextCloseAndTell ==
    ASSUME IInv, NEW s \in Blocks, mem.type[s] = "socket", NEW p \in Links, CloseAndTell(s, p),
           UNCHANGED iterator
    PROVE  /\ mem' \in Memory /\ Lists(mem') /\ SweepAt(mem', iterator') /\ Listening'
           /\ mem'.type = mem.type
           /\ pc' \in {"batch", "call"}
           /\ \E q \in Links : call' = [for |-> "batch", s |-> NULL, at |-> q]
<1>1. CASE Closed(mem, s)
  <2>1. UNCHANGED mem /\ pc' = "batch" /\ call' = [for |-> "batch", s |-> NULL, at |-> NULL]
    BY <1>1 DEF CloseAndTell, Done, NoCall
  <2>2. NULL \in Links
    BY DEF Links
  <2> QED  BY <2>1, <2>2, KeepMemory
<1>2. CASE ~Closed(mem, s)
  <2>1. mem' = Close(mem, s) /\ pc' = "call" /\ call' = [for |-> "batch", s |-> NULL, at |-> p]
    BY <1>2 DEF CloseAndTell, Callback
  <2>2. Kept /\ mem'.type = mem.type
    BY <1>2, <2>1, NextCloseSocket
  <2> QED  BY <2>1, <2>2 DEF Kept
<1> QED  BY <1>1, <1>2

LEMMA KeepDispatch == ASSUME IInv, NEW e \in Blocks, DispatchSocket(e)  PROVE IInv'
<1> DEFINE p == ready[e]
<1>1. pc = "batch" /\ Take(e) /\ p \in Blocks /\ mem.type[p] = "socket" /\ UNCHANGED iterator
  BY DEF DispatchSocket, Take
<1>2. TypeOK /\ Sweeping /\ Pointed
  BY DEF IInv
<1>3. \/ CloseAndTell(p, p)
      \/ Callback("writable", p, p) /\ UNCHANGED mem
      \/ pc' = "recv" /\ call' = [for |-> "recv", s |-> p, at |-> p] /\ UNCHANGED mem
  BY DEF DispatchSocket
<1> HIDE DEF p
<1>4. /\ mem' \in Memory /\ Lists(mem') /\ SweepAt(mem', iterator') /\ Listening'
      /\ mem'.type = mem.type
      /\ \/ /\ pc' \in {"batch", "call"}
            /\ \E q \in Links : call' = [for |-> "batch", s |-> NULL, at |-> q]
         \/ pc' = "call" /\ call' = [for |-> "writable", s |-> p, at |-> p]
         \/ pc' = "recv" /\ call' = [for |-> "recv", s |-> p, at |-> p]
  <2>1. CASE CloseAndTell(p, p)
    <3>1. p \in Links
      BY <1>1 DEF Links
    <3> QED  BY <1>1, <2>1, <3>1, NextCloseAndTell
  <2>2. CASE Callback("writable", p, p) /\ UNCHANGED mem
    BY <1>1, <2>2, KeepMemory DEF Callback
  <2>3. CASE pc' = "recv" /\ call' = [for |-> "recv", s |-> p, at |-> p] /\ UNCHANGED mem
    BY <1>1, <2>3, KeepMemory
  <2> QED  BY <1>3, <2>1, <2>2, <2>3
<1>5. Typed(ready') /\ astray' \subseteq Blocks /\ Reaching'
  <2>1. Free' = Free
    BY <1>4 DEF Free
  <2> QED  BY <1>1, <1>2, <2>1, Taken, TakenReaching DEF Pointed
<1>6. TypeOK'
  BY <1>1, <1>2, <1>4, <1>5 DEF TypeOK, Typed, Links
<1>7. Sweeping'
  BY <1>1, <1>2, <1>4 DEF Sweeping
<1>8. Pointed'
  BY <1>1, <1>2, <1>4, <1>5 DEF Pointed
<1> QED  BY <1>4, <1>6, <1>7, <1>8 DEF IInv

LEMMA KeepReceive == ASSUME IInv, Receive  PROVE IInv'
<1>1. pc = "recv" /\ UNCHANGED <<ready, iterator, astray>>
  BY DEF Receive
<1>2. /\ TypeOK /\ Sweeping /\ Pointed /\ call.s \in Blocks /\ mem.type[call.s] = "socket"
      /\ call.at \in Links /\ NULL \in Links
  BY <1>1 DEF IInv, Pointed, TypeOK, Links
<1>3. /\ mem' \in Memory /\ Lists(mem') /\ SweepAt(mem', iterator') /\ Listening'
      /\ mem'.type = mem.type
      /\ pc' \in {"batch", "call"}
      /\ \E q \in Links : call' = [for |-> "batch", s |-> NULL, at |-> q]
  <2>1. CASE CloseAndTell(call.s, call.at)
    BY <1>1, <1>2, <2>1, NextCloseAndTell
  <2>2. CASE (Callback("batch", NULL, call.at) \/ Done) /\ UNCHANGED mem
    BY <1>1, <1>2, <2>2, KeepMemory DEF Callback, Done, NoCall
  <2> QED  BY <2>1, <2>2 DEF Receive
<1>4. TypeOK'
  BY <1>1, <1>2, <1>3 DEF TypeOK, Links
<1>5. Sweeping'
  BY <1>1, <1>2, <1>3 DEF Sweeping
<1>6. Pointed'
  <2>1. Reaching'
    BY <1>1, <1>2, <1>3, StillReaching DEF Pointed, Free
  <2> QED  BY <1>1, <1>2, <1>3, <2>1 DEF Pointed
<1> QED  BY <1>3, <1>4, <1>5, <1>6 DEF IInv

LEMMA KeepFreeClosed == ASSUME IInv, FreeClosed  PROVE IInv'
<1>1. /\ pc = "batch" /\ pc' = "wait" /\ DOMAIN ready = {}
      /\ UNCHANGED <<ready, call, iterator, astray>>
      /\ mem' = [Release(mem, From(mem, mem.closed)) EXCEPT !.closed = NULL]
  BY DEF FreeClosed
<1>2. TypeOK /\ Sweeping /\ Listening /\ mem \in Memory /\ Lists(mem)
  BY DEF IInv, TypeOK
<1>3. /\ mem' \in Memory /\ Lists(mem') /\ mem'.iterator = mem.iterator
      /\ OpenIn(mem') = OpenIn(mem)
      /\ \A b \in Blocks : mem'.type[b] = IF b \in ClosedIn(mem) THEN "free" ELSE mem.type[b]
  BY <1>1, <1>2, FreeClosedLists
<1>4. TypeOK'
  BY <1>1, <1>2, <1>3 DEF TypeOK
<1>5. Sweeping'
  BY <1>1, <1>2, <1>3 DEF Sweeping, SweepAt
<1>6. Pointed'
  BY <1>1, <1>4 DEF Pointed, Reaching
<1>7. Listening'
  BY <1>2, <1>3 DEF Listening
<1> QED  BY <1>3, <1>4, <1>5, <1>6, <1>7 DEF IInv

-----------------------------------------------------------------------------
(* The sweep. *)

LEMMA KeepTimer == ASSUME IInv, DispatchTimer  PROVE IInv'
<1>1. /\ pc = "batch" /\ pc' = "sweep" /\ UNCHANGED call
      /\ Take("timer") /\ iterator' = Contexts /\ mem' = Enter(Contexts[1])
  BY DEF DispatchTimer, Take
<1>2. TypeOK /\ Sweeping /\ Pointed
  BY DEF IInv
<1>3. Contexts # <<>> /\ Head(Contexts) = Contexts[1] /\ Contexts \in Seq(Range(Contexts))
  BY LoopAssumption DEF Range
<1>4. \A d \in Range(Contexts) : mem.iterator[d] = NULL
  BY <1>1, <1>2 DEF Sweeping, SweepAt
<1>5. /\ mem' \in Memory /\ Lists(mem') /\ SweepAt(mem', iterator') /\ Listening'
      /\ mem'.type = mem.type
  BY <1>1, <1>3, <1>4, FirstContext, NextEnter
<1>6. Typed(ready') /\ astray' \subseteq Blocks /\ Reaching'
  <2>1. Free' = Free
    BY <1>5 DEF Free
  <2> QED  BY <1>1, <1>2, <2>1, Taken, TakenReaching DEF Pointed
<1>7. TypeOK'
  BY <1>1, <1>2, <1>3, <1>5, <1>6 DEF TypeOK, Typed
<1>8. Sweeping'
  BY <1>1, <1>3, <1>5 DEF Sweeping
<1>9. Pointed'
  BY <1>1, <1>2, <1>5, <1>6 DEF Pointed
<1> QED  BY <1>5, <1>7, <1>8, <1>9 DEF IInv

\* The context the sweep is at.
LEMMA Swept ==
    ASSUME IInv, iterator # <<>>
    PROVE  /\ Head(iterator) \in Range(Contexts) /\ Tail(iterator) \in Seq(Range(Contexts))
           /\ Tail(iterator) # <<>> => Head(Tail(iterator)) = iterator[2]
           /\ \A d \in Range(Contexts) : mem.iterator[d] # NULL => d = Head(iterator)
BY DEF IInv, TypeOK, Sweeping, SweepAt

LEMMA KeepCount == ASSUME IInv, Count  PROVE IInv'
<1> DEFINE c == Head(iterator)
           s == mem.iterator[c]
<1>1. /\ pc = "sweep" /\ s # NULL /\ UNCHANGED <<ready, iterator, astray>>
  BY DEF Count
<1>2. TypeOK /\ Sweeping /\ Pointed /\ mem \in Memory
  BY DEF IInv, TypeOK
<1>3. iterator # <<>> /\ c \in Range(Contexts)
  BY <1>1, <1>2, Swept DEF Sweeping
<1>4. s \in Blocks /\ mem.timeout[s] \in 0..MaxTimeout /\ mem.next[s] \in Links
  BY <1>1, <1>2, <1>3 DEF Memory, Links
<1>5. /\ Kept /\ mem'.type = mem.type
      /\ \/ pc' = "sweep" /\ call' = call
         \/ pc' = "call" /\ call' = [for |-> "sweep", s |-> s, at |-> NULL]
  <2>1. CASE mem.timeout[s] = 1
    <3>1. mem' = [mem EXCEPT !.timeout[s] = 0] /\ pc' = "call" /\ call' = [for |-> "sweep", s |-> s, at |-> NULL]
      BY <2>1 DEF Count, Callback
    <3> HIDE DEF c, s
    <3>2. 0 \in 0..MaxTimeout
      BY LoopAssumption
    <3>3. /\ mem' \in Memory /\ mem'.type = mem.type /\ mem'.iterator = mem.iterator
          /\ mem'.prev = mem.prev /\ mem'.next = mem.next /\ mem'.ctx = mem.ctx
          /\ mem'.head = mem.head /\ mem'.closed = mem.closed
      BY <1>2, <1>4, <3>1, <3>2 DEF Memory
    <3>4. Kept
      BY <1>3, <3>3, NextAdvance DEF c
    <3> QED  BY <3>1, <3>3, <3>4
  <2>2. CASE mem.timeout[s] # 1
    <3> DEFINE n == IF mem.timeout[s] = 0 THEN 0 ELSE mem.timeout[s] - 1
    <3>1. mem' = [mem EXCEPT !.timeout[s] = n, !.iterator[c] = mem.next[s]] /\ UNCHANGED <<pc, call>>
      BY <2>2, <1>2 DEF Count, Memory
    <3>2. n \in 0..MaxTimeout
      BY <1>4, LoopAssumption
    <3> HIDE DEF n, c
    <3>3. /\ mem' \in Memory /\ mem'.type = mem.type
          /\ \A d \in Range(Contexts) :
               mem'.iterator[d] = IF d = c THEN mem.next[s] ELSE mem.iterator[d]
          /\ mem'.prev = mem.prev /\ mem'.next = mem.next /\ mem'.ctx = mem.ctx
          /\ mem'.head = mem.head /\ mem'.closed = mem.closed
      BY <1>2, <1>3, <1>4, <3>1, <3>2 DEF Memory, Links
    <3>4. Kept
      BY <1>1, <1>3, <3>3, NextAdvance DEF c
    <3> QED  BY <1>1, <3>1, <3>3, <3>4
  <2> QED  BY <2>1, <2>2
<1>6. TypeOK'
  BY <1>1, <1>2, <1>4, <1>5 DEF TypeOK, Kept
<1>7. Sweeping'
  BY <1>1, <1>3, <1>5 DEF Sweeping, Kept
<1>8. Pointed'
  <2>1. Reaching'
    BY <1>1, <1>2, <1>5, StillReaching DEF Pointed, Free
  <2> QED  BY <1>1, <1>2, <1>4, <1>5, <2>1 DEF Pointed
<1> QED  BY <1>5, <1>6, <1>7, <1>8 DEF IInv, Kept

LEMMA KeepContext == ASSUME IInv, NextContext  PROVE IInv'
<1>1. /\ pc = "sweep" /\ mem.iterator[Head(iterator)] = NULL /\ UNCHANGED <<ready, astray>>
      /\ iterator' = Tail(iterator)
  BY DEF NextContext
<1>2. TypeOK /\ Sweeping /\ Pointed
  BY DEF IInv
<1>3. iterator # <<>>
  BY <1>1, <1>2 DEF Sweeping
<1>4. /\ Tail(iterator) \in Seq(Range(Contexts))
      /\ Tail(iterator) # <<>> => Head(Tail(iterator)) = iterator[2]
      /\ \A d \in Range(Contexts) : mem.iterator[d] = NULL
  BY <1>1, <1>3, Swept
<1>5. CASE Tail(iterator) = <<>>
  <2>1. pc' = "batch" /\ call' = [for |-> "batch", s |-> NULL, at |-> NULL] /\ UNCHANGED mem
    BY <1>5 DEF NextContext, Done, NoCall
  <2>2. /\ mem' \in Memory /\ Lists(mem') /\ Listening' /\ SweepAt(mem', iterator')
    BY <1>2, <1>4, <2>1 DEF IInv, TypeOK, SweepAt, Listening
  <2>3. TypeOK'
    BY <1>1, <1>2, <1>4, <2>1, <2>2 DEF TypeOK
  <2>4. Sweeping'
    BY <1>1, <1>5, <2>1, <2>2 DEF Sweeping
  <2>5. Pointed'
    <3>1. Reaching'
      BY <1>1, <1>2, <2>1, StillReaching DEF Pointed, Free
    <3> QED  BY <1>1, <1>2, <2>1, <3>1 DEF Pointed
  <2> QED  BY <2>2, <2>3, <2>4, <2>5 DEF IInv
<1>6. CASE Tail(iterator) # <<>>
  <2>1. mem' = Enter(iterator[2]) /\ UNCHANGED <<pc, call>>
    BY <1>6 DEF NextContext
  <2>2. iterator[2] \in Range(Contexts) /\ Head(iterator') = iterator[2]
    BY <1>1, <1>4, <1>6
  <2>3. /\ mem' \in Memory /\ Lists(mem') /\ SweepAt(mem', iterator') /\ Listening'
        /\ mem'.type = mem.type
    BY <1>1, <1>4, <1>6, <2>1, <2>2, NextEnter
  <2>4. TypeOK'
    BY <1>1, <1>2, <1>4, <2>1, <2>3 DEF TypeOK
  <2>5. Sweeping'
    BY <1>1, <1>6, <2>1, <2>3 DEF Sweeping
  <2>6. Pointed'
    <3>1. Reaching'
      BY <1>1, <1>2, <2>3, StillReaching DEF Pointed, Free
    <3> QED  BY <1>1, <1>2, <2>1, <2>3, <3>1 DEF Pointed
  <2> QED  BY <2>3, <2>4, <2>5, <2>6 DEF IInv
<1> QED  BY <1>5, <1>6

LEMMA KeepReturn == ASSUME IInv, Return  PROVE IInv'
<1>1. pc = "call" /\ UNCHANGED <<ready, iterator, astray>>
  BY DEF Return
<1>2. TypeOK /\ Sweeping /\ Pointed /\ mem \in Memory
  BY DEF IInv, TypeOK
<1>3. CASE ReturnToSweep
  <2> DEFINE c == Head(iterator)
             i == mem.iterator[c]
             j == IF i = call.s THEN mem.next[i] ELSE i
  <2>1. /\ call.for = "sweep" /\ pc' = "sweep" /\ call' = [for |-> "batch", s |-> NULL, at |-> NULL]
        /\ mem' = [mem EXCEPT !.iterator[c] = j]
    BY <1>3 DEF ReturnToSweep, NoCall
  <2>2. iterator # <<>> /\ c \in Range(Contexts) /\ call.s \in Blocks
    BY <1>1, <1>2, <2>1, Swept DEF Sweeping, Pointed
  <2>3. j \in Links /\ i \in Links /\ (j # i => i # NULL /\ j = mem.next[i])
    BY <1>2, <2>2, Apart DEF Memory, Links
  <2> HIDE DEF c, j
  <2>4. /\ mem' \in Memory /\ mem'.type = mem.type
        /\ \A d \in Range(Contexts) : mem'.iterator[d] = IF d = c THEN j ELSE mem.iterator[d]
        /\ mem'.prev = mem.prev /\ mem'.next = mem.next /\ mem'.ctx = mem.ctx
        /\ mem'.head = mem.head /\ mem'.closed = mem.closed
    BY <1>2, <2>1, <2>2, <2>3 DEF Memory, Links
  <2>5. Kept
    BY <2>2, <2>3, <2>4, NextAdvance DEF c
  <2>6. TypeOK'
    BY <1>1, <1>2, <2>1, <2>5 DEF TypeOK, Kept
  <2>7. Sweeping'
    BY <1>1, <2>1, <2>2, <2>5 DEF Sweeping, Kept
  <2>8. Pointed'
    <3>1. Reaching'
      BY <1>1, <1>2, <2>4, StillReaching DEF Pointed, Free
    <3> QED  BY <1>1, <1>2, <2>1, <2>4, <3>1 DEF Pointed
  <2> QED  BY <2>5, <2>6, <2>7, <2>8 DEF IInv, Kept
<1>4. CASE ~ReturnToSweep
  <2>1. /\ UNCHANGED mem /\ call.for # "sweep"
        /\ \/ /\ call.for = "accept" /\ call' = call
              /\ pc' = IF mem.type[call.s] = "listen" THEN "accept" ELSE "undefined"
           \/ pc' \in {"wait", "batch"} /\ call' = [for |-> "batch", s |-> NULL, at |-> NULL]
           \/ call.for = "writable" /\ pc' = "recv" /\ call' = [call EXCEPT !.for = "recv"]
    BY <1>2, <1>4 DEF Return, ReturnToAccept, ReturnFromWritable, Done, NoCall, TypeOK
  <2>2. mem' \in Memory /\ Lists(mem') /\ SweepAt(mem', iterator') /\ Listening' /\ Free' = Free
    BY <1>1, <2>1, KeepMemory
  <2>3. TypeOK'
    BY <1>1, <1>2, <2>1, <2>2 DEF TypeOK
  <2>4. Sweeping'
    BY <1>1, <1>2, <2>1, <2>2 DEF Sweeping
  <2>5. Pointed'
    <3>1. Reaching'
      BY <1>1, <1>2, <2>2, StillReaching DEF Pointed
    <3> QED  BY <1>1, <1>2, <2>1, <2>2, <3>1 DEF Pointed, TypeOK
  <2> QED  BY <2>2, <2>3, <2>4, <2>5 DEF IInv
<1> QED  BY <1>3, <1>4

LEMMA KeepStutter == ASSUME IInv, UNCHANGED vars  PROVE IInv'
<1>1. mem' \in Memory /\ Lists(mem') /\ SweepAt(mem', iterator') /\ Listening' /\ Free' = Free
  BY KeepMemory DEF vars, loop
<1>2. TypeOK' /\ Sweeping' /\ Pointed'
  BY <1>1 DEF vars, loop, IInv, TypeOK, Sweeping, Pointed, Reaching
<1> QED  BY <1>1, <1>2 DEF IInv

LEMMA NextIInv == IInv /\ [Next]_vars => IInv'
<1> SUFFICES ASSUME IInv, [Next]_vars  PROVE IInv'
  OBVIOUS
<1>1. CASE Application
  BY <1>1, KeepCreate, KeepAdopt, KeepListenClose, KeepCloseSocket, KeepWrite,
     KeepTimeout DEF Application
<1>2. CASE Dispatch
  BY <1>2, KeepTimer, KeepWakeup, KeepFreed, KeepConnected, KeepListen, KeepDispatch DEF Dispatch
<1>3. CASE Wait \/ Receive \/ (\E b \in Blocks : Accept(b)) \/ NoMoreToAccept \/ FreeClosed
  BY <1>3, KeepWait, KeepReceive, KeepAccept, KeepNoMore, KeepFreeClosed
<1>4. CASE Return \/ Count \/ NextContext
  BY <1>4, KeepReturn, KeepCount, KeepContext
<1>5. CASE UNCHANGED vars
  BY <1>5, KeepStutter
<1> QED  BY <1>1, <1>2, <1>3, <1>4, <1>5 DEF Next

LEMMA Invariance == Spec => []IInv
<1>1. Init => IInv
  BY InitIInv
<1>2. IInv /\ [Next]_vars => IInv'
  BY NextIInv
<1> QED  BY <1>1, <1>2, PTL DEF Spec

-----------------------------------------------------------------------------
(* What the sweep has still to pass, and what each call makes of it. *)

Rest(m, c) == From(m, m.iterator[c])

LEMMA RestOnList ==
    ASSUME NEW m \in Memory, Lists(m), NEW c \in Range(Contexts)
    PROVE  /\ Rest(m, c) \subseteq ListOf(m, OpenIn(m), c) /\ Rest(m, c) \subseteq OpenIn(m)
           /\ m.iterator[c] \in Links /\ m.next \in [Blocks -> Links]
<1> DEFINE L == ListOf(m, OpenIn(m), c)
<1>1. Listed(m, OpenIn(m)) /\ m.iterator[c] \in L \cup {NULL}
  BY DEF Lists, Listed
<1>2. \A b \in L : m.next[b] \in L \cup {NULL}
  BY <1>1, OnList
<1>3. L \in SUBSET Blocks /\ L \subseteq OpenIn(m)
  BY DEF ListOf, OpenIn
<1> HIDE DEF L
<1>4. Holds(m, m.iterator[c], L)
  BY <1>1, <1>2, <1>3 DEF Holds
<1>5. From(m, m.iterator[c]) \subseteq L
  BY <1>4, Least
<1>6. m.iterator[c] \in Links /\ m.next \in [Blocks -> Links]
  BY DEF Memory, Links
<1> QED  BY <1>3, <1>5, <1>6 DEF Rest, L

LEMMA UnlinkRest ==
    ASSUME NEW m \in Memory, Lists(m), NEW s \in OpenIn(m), NEW c \in Range(Contexts)
    PROVE  LET u == Unlink(m, s) IN
           /\ u \in Memory /\ From(u, u.iterator[c]) = Rest(m, c) \ {s}
           /\ u.iterator[c] \in Links /\ u.next \in [Blocks -> Links]
<1> DEFINE u == Unlink(m, s)
           O == OpenIn(m)
<1>1. Listed(m, O) /\ O \in SUBSET Blocks /\ m.iterator[c] \in ListOf(m, O, c) \cup {NULL}
  BY DEF Lists, Listed, OpenIn
<1>2. u \in Memory /\ u.iterator[c] = IF m.iterator[c] = s THEN m.next[s] ELSE m.iterator[c]
  BY <1>1, UnlinkFields
<1>3. From(u, IF m.iterator[c] = s THEN m.next[s] ELSE m.iterator[c]) = From(m, m.iterator[c]) \ {s}
  BY <1>1, UnlinkFrom
<1> HIDE DEF u
<1>4. u.iterator[c] \in Links /\ u.next \in [Blocks -> Links]
  BY <1>2 DEF Memory, Links
<1>5. u \in Memory /\ From(u, u.iterator[c]) = Rest(m, c) \ {s}
  BY <1>2, <1>3 DEF Rest
<1> QED  BY <1>4, <1>5 DEF u

LEMMA CloseRest ==
    ASSUME NEW m \in Memory, Lists(m), NEW s \in OpenIn(m), NEW c \in Range(Contexts)
    PROVE  Rest(Close(m, s), c) = Rest(m, c) \ {s}
<1> DEFINE u == Unlink(m, s)
           k == Close(m, s)
<1>1. /\ u \in Memory /\ From(u, u.iterator[c]) = Rest(m, c) \ {s}
      /\ u.iterator[c] \in Links /\ u.next \in [Blocks -> Links]
  BY UnlinkRest
<1>2. s \in Blocks
  BY DEF OpenIn
<1>3. /\ k \in Memory /\ k.iterator = u.iterator
      /\ \A b \in Blocks : k.next[b] = IF b = s THEN u.closed ELSE u.next[b]
  BY <1>1, <1>2, CloseFields
<1> HIDE DEF u, k
<1>4. k.next \in [Blocks -> Links]
  BY <1>3 DEF Memory, Links
<1>5. \A b \in From(u, u.iterator[c]) : k.next[b] = u.next[b]
  BY <1>1, <1>3 DEF From
<1>6. From(k, u.iterator[c]) = From(u, u.iterator[c])
  BY <1>1, <1>4, <1>5, SameList
<1>7. Rest(k, c) = Rest(m, c) \ {s}
  BY <1>1, <1>3, <1>6 DEF Rest
<1> QED  BY <1>7 DEF k

LEMMA ListenCloseRest ==
    ASSUME NEW m \in Memory, Lists(m), NEW s \in OpenIn(m), NEW c \in Range(Contexts)
    PROVE  Rest(Release(Unlink(m, s), {s}), c) = Rest(m, c) \ {s}
<1> DEFINE u == Unlink(m, s)
           r == Release(u, {s})
<1>1. /\ u \in Memory /\ From(u, u.iterator[c]) = Rest(m, c) \ {s}
      /\ u.iterator[c] \in Links
  BY UnlinkRest
<1>2. {s} \in SUBSET Blocks /\ {s} \cap From(u, u.iterator[c]) = {}
  BY <1>1 DEF OpenIn
<1> HIDE DEF u
<1>3. r.iterator = u.iterator
  BY <1>1, <1>2, ReleaseFields
<1>4. From(r, u.iterator[c]) = From(u, u.iterator[c])
  BY <1>1, <1>2, ReleaseFrom
<1>5. Rest(r, c) = Rest(m, c) \ {s}
  BY <1>1, <1>3, <1>4 DEF Rest
<1> QED  BY <1>5 DEF u

LEMMA CreateRest ==
    ASSUME NEW m \in Memory, Lists(m), NEW d \in Range(Contexts), NEW s \in Blocks,
           m.type[s] = "free", NEW t \in {"listen", "connect", "socket"},
           NEW c \in Range(Contexts)
    PROVE  Rest(Made(m, d, s, t), c) = Rest(m, c)
<1> DEFINE l == Link(m, d, s)
           w == Made(m, d, s, t)
           i == m.iterator[c]
<1>1. l \in Memory /\ l.iterator = m.iterator
  BY LinkFields
<1>2. i \in Links /\ s \notin From(m, i)
  BY RestOnList DEF Rest, OpenIn
<1>3. From(l, i) = From(m, i)
  BY <1>2, LinkFrom
<1>4. w = [l EXCEPT !.type[s] = t]
  BY DEF Made
<1> HIDE DEF l, w
<1>5. w.next = l.next /\ w.iterator = l.iterator
  BY <1>1, <1>4 DEF Memory
<1>6. From(w, i) = From(l, i)
  BY <1>5 DEF From
<1>7. Rest(w, c) = Rest(m, c)
  BY <1>1, <1>3, <1>5, <1>6 DEF Rest
<1> QED  BY <1>7 DEF w

LEMMA AdoptRest ==
    ASSUME NEW m \in Memory, Lists(m), NEW s \in OpenIn(m), NEW d \in Range(Contexts),
           NEW t \in Blocks, t = s \/ m.type[t] = "free", NEW k \in Blocks, NEW c \in Range(Contexts)
    PROVE  LET w == Link(Resized(m, s, t, k), d, t) IN
           /\ Rest(w, c) = Rest(m, c) \ {s}
           /\ w.head[d] = t /\ w.ctx[t] = d
<1> DEFINE u == Unlink(m, s)
           v == Resized(m, s, t, k)
           w == Link(v, d, t)
           i == u.iterator[c]
<1>1. /\ u \in Memory /\ From(u, i) = Rest(m, c) \ {s}
      /\ i \in Links /\ u.next \in [Blocks -> Links]
  BY UnlinkRest
<1>2. /\ v \in Memory /\ v.iterator = u.iterator /\ v.closed = m.closed
      /\ \A b \in Blocks :
           v.type[b] = IF b = t THEN m.type[s] ELSE IF b = s THEN "free" ELSE m.type[b]
      /\ \A b \in Blocks \ {s, t} : Closed(v, b) <=> Closed(m, b)
      /\ Listed(v, OpenIn(m) \ {s}) /\ From(v, m.closed) = ClosedIn(m)
  <2>1. Displaced(m, s, t, v)
    BY AdoptMoves
  <2> QED  BY <2>1 DEF Displaced
<1>3. From(v, i) = From(u, i)
  <2>1. CASE t = s
    BY <2>1 DEF Resized
  <2>2. CASE t # s
    <3> DEFINE x == [u EXCEPT !.type[t] = u.type[s], !.epoll[t] = k]
    <3>1. x \in Memory /\ x.next = u.next
      BY <1>1 DEF Memory, OpenIn
    <3>2. v = Release(x, {s})
      BY <2>2 DEF Resized, Moved
    <3> HIDE DEF x, v, u
    <3>3. From(x, i) = From(u, i)
      BY <3>1 DEF From
    <3>4. {s} \cap From(x, i) = {} /\ {s} \in SUBSET Blocks
      BY <1>1, <3>3 DEF OpenIn
    <3>5. From(Release(x, {s}), i) = From(x, i)
      BY <1>1, <3>1, <3>4, ReleaseFrom
    <3> QED  BY <3>2, <3>3, <3>5
  <2> QED  BY <2>1, <2>2
<1>4. t \notin From(v, i)
  BY <1>1, <1>3, RestOnList DEF OpenIn
<1> HIDE DEF v
<1>5. /\ w \in Memory /\ w.iterator = v.iterator /\ w.ctx[t] = d /\ w.head[d] = t
  BY <1>2, LinkFields
<1>6. From(w, i) = From(v, i)
  BY <1>1, <1>2, <1>4, LinkFrom
<1> HIDE DEF w
<1>7. Rest(w, c) = Rest(m, c) \ {s}
  BY <1>1, <1>2, <1>3, <1>5, <1>6 DEF Rest
<1> QED  BY <1>5, <1>7 DEF v, w

\* One step, and the context c that the sweep is at.
Passed(c) ==
  /\ Rest(mem', c) \subseteq Rest(mem, c)
  /\ \A b \in Rest(mem, c) \ Rest(mem', c) :
       \/ pc = "sweep" /\ b = mem.iterator[c]
       \/ pc' = "sweep" /\ b = call.s
       \/ b \notin ListOf(mem', OpenIn(mem'), c)
       \/ b = mem'.head[c]

LEMMA PassedByApplication ==
    ASSUME IInv, Application, NEW c \in Range(Contexts)
    PROVE  Passed(c)
<1>1. mem \in Memory /\ Lists(mem)
  BY DEF IInv, TypeOK
<1>2. ASSUME NEW b \in Blocks, NEW d \in Range(Contexts), Listen(b, d) \/ Connect(b, d)
      PROVE  Passed(c)
  <2>1. PICK t \in {"listen", "connect", "socket"} : Create(b, d, t)
    BY <1>2 DEF Listen, Connect
  <2>2. mem' = Made(mem, d, b, t) /\ mem.type[b] = "free"
    BY <2>1 DEF Create, Made, Free
  <2>3. Rest(mem', c) = Rest(mem, c)
    BY <1>1, <2>2, CreateRest
  <2> QED  BY <2>3 DEF Passed
<1>3. ASSUME NEW s \in Blocks, ListenClose(s)  PROVE Passed(c)
  <2>1. s \in OpenIn(mem) /\ mem' = Release(Unlink(mem, s), {s})
    BY <1>3 DEF ListenClose, IInv, Listening
  <2>2. OpenIn(mem') = OpenIn(mem) \ {s}
    BY <1>1, <2>1, ListenCloseLists
  <2>3. Rest(mem', c) = Rest(mem, c) \ {s}
    BY <1>1, <2>1, ListenCloseRest
  <2> QED  BY <2>2, <2>3 DEF Passed, ListOf
<1>4. ASSUME NEW s \in Blocks, CloseSocket(s)  PROVE Passed(c)
  <2>1. s \in OpenIn(mem) /\ mem' = Close(mem, s)
    BY <1>4, OpenAre DEF CloseSocket
  <2>2. OpenIn(mem') = OpenIn(mem) \ {s}
    BY <1>1, <2>1, CloseLists
  <2>3. Rest(mem', c) = Rest(mem, c) \ {s}
    BY <1>1, <2>1, CloseRest
  <2> QED  BY <2>2, <2>3 DEF Passed, ListOf
<1>5. ASSUME NEW s \in Blocks, NEW d \in Range(Contexts), NEW t \in Blocks, Adopt(s, d, t)
      PROVE  Passed(c)
  <2> PICK k \in Blocks : mem' = Link(Resized(mem, s, t, k), d, t)
    BY <1>1, <1>5, AdoptResizes
  <2>1. s \in OpenIn(mem) /\ (t = s \/ mem.type[t] = "free")
    BY <1>5, OpenAre DEF Adopt, Free
  <2>2. OpenIn(mem') = (OpenIn(mem) \ {s}) \cup {t}
    BY <1>1, <2>1, AdoptLists
  <2>3. Rest(mem', c) = Rest(mem, c) \ {s} /\ mem'.head[d] = t /\ mem'.ctx[t] = d
    BY <1>1, <2>1, AdoptRest
  <2>4. s \notin ListOf(mem', OpenIn(mem'), c) \/ s = mem'.head[c]
    BY <2>2, <2>3 DEF ListOf
  <2> QED  BY <2>3, <2>4 DEF Passed
<1>6. ASSUME NEW s \in Blocks, NEW n \in 0..MaxTimeout, Timeout(s, n)  PROVE Passed(c)
  <2>1. mem'.next = mem.next /\ mem'.iterator = mem.iterator
    BY <1>1, <1>6 DEF Timeout, Memory
  <2>2. Rest(mem', c) = Rest(mem, c)
    BY <2>1 DEF Rest, From
  <2> QED  BY <2>2 DEF Passed
<1>7. ASSUME NEW s \in Blocks, Write(s)  PROVE Passed(c)
  <2>1. mem'.next = mem.next /\ mem'.iterator = mem.iterator
    BY <1>1, <1>7 DEF Write, Memory
  <2>2. Rest(mem', c) = Rest(mem, c)
    BY <2>1 DEF Rest, From
  <2> QED  BY <2>2 DEF Passed
<1> QED  BY <1>2, <1>3, <1>4, <1>5, <1>6, <1>7 DEF Application

\* The sweep's own steps pass the socket it stands at.
LEMMA PassedBySweep ==
    ASSUME IInv, Count \/ (ReturnToSweep /\ pc = "call"), iterator # <<>>
    PROVE  Passed(Head(iterator))
<1> DEFINE c == Head(iterator)
           i == mem.iterator[c]
<1>1. mem \in Memory /\ Lists(mem) /\ Pointed /\ c \in Range(Contexts)
  BY Swept DEF IInv, TypeOK
<1>2. i \in Links /\ mem.next \in [Blocks -> Links]
  BY <1>1, RestOnList
<1>3. i # NULL => From(mem, i) = {i} \cup From(mem, mem.next[i])
  BY <1>2, HeadAndRest DEF Links
<1>4. /\ mem'.next = mem.next
      /\ \/ mem'.iterator[c] = i
         \/ /\ i # NULL /\ mem'.iterator[c] = mem.next[i]
            /\ pc = "sweep" \/ (pc' = "sweep" /\ i = call.s)
  <2>1. CASE Count
    <3>1. CASE mem.timeout[i] = 1
      <4>1. mem' = [mem EXCEPT !.timeout[i] = 0]
        BY <2>1, <3>1 DEF Count
      <4> HIDE DEF c, i
      <4>2. mem'.next = mem.next /\ mem'.iterator = mem.iterator
        BY <1>1, <4>1 DEF Memory
      <4> QED  BY <4>2 DEF i
    <3>2. CASE mem.timeout[i] # 1
      <4> DEFINE n == IF mem.timeout[i] = 0 THEN 0 ELSE mem.timeout[i] - 1
      <4>1. /\ mem' = [mem EXCEPT !.timeout[i] = n, !.iterator[c] = mem.next[i]]
            /\ i # NULL /\ pc = "sweep"
        BY <2>1, <3>2, <1>1 DEF Count, Memory
      <4> HIDE DEF c, i, n
      <4>2. mem'.next = mem.next /\ mem'.iterator[c] = mem.next[i]
        BY <1>1, <4>1 DEF Memory
      <4> QED  BY <4>1, <4>2
    <3> QED  BY <3>1, <3>2
  <2>2. CASE ReturnToSweep /\ pc = "call"
    <3> DEFINE j == IF i = call.s THEN mem.next[i] ELSE i
    <3>1. call.for = "sweep" /\ pc' = "sweep" /\ mem' = [mem EXCEPT !.iterator[c] = j]
      BY <2>2 DEF ReturnToSweep
    <3>2. call.s # NULL
      BY <1>1, <2>2, <3>1, Apart DEF Pointed
    <3> HIDE DEF c, i, j
    <3>3. mem'.next = mem.next /\ mem'.iterator[c] = j
      BY <1>1, <3>1 DEF Memory
    <3> QED  BY <3>1, <3>2, <3>3 DEF j
  <2> QED  BY <2>1, <2>2
<1> HIDE DEF c
<1>5. From(mem', mem'.iterator[c]) = From(mem, mem'.iterator[c])
  BY <1>4 DEF From
<1> QED  BY <1>3, <1>4, <1>5 DEF Passed, Rest, c

LEMMA NextPassed ==
    ASSUME IInv, [Next]_vars, iterator # <<>>, iterator' = iterator
    PROVE  Passed(Head(iterator))
<1>1. Head(iterator) \in Range(Contexts) /\ iterator \in Seq(Range(Contexts))
  BY Swept DEF IInv, TypeOK
<1>2. pc = "sweep" \/ (pc = "call" /\ call.for = "sweep")
  BY DEF IInv, Sweeping
<1>3. CASE Application
  BY <1>1, <1>3, PassedByApplication
<1>4. CASE Count
  <2>1. Count \/ (ReturnToSweep /\ pc = "call")
    BY <1>4
  <2> QED  BY <2>1, PassedBySweep
<1>5. CASE Return
  <2>1. Count \/ (ReturnToSweep /\ pc = "call")
    BY <1>2, <1>5 DEF Return, ReturnToAccept, ReturnFromWritable
  <2> QED  BY <2>1, PassedBySweep
<1>6. CASE NextContext
  <2>1. Tail(iterator) = iterator
    BY <1>6 DEF NextContext
  <2>2. Len(Tail(iterator)) = Len(iterator) - 1 /\ Len(iterator) \in Nat
    BY <1>1
  <2> QED  BY <2>1, <2>2
<1>7. CASE UNCHANGED vars
  <2>1. Rest(mem', Head(iterator)) = Rest(mem, Head(iterator))
    BY <1>7 DEF vars
  <2> QED  BY <2>1 DEF Passed
<1>8. ~Wait /\ ~Receive /\ ~(\E b \in Blocks : Accept(b)) /\ ~NoMoreToAccept /\ ~FreeClosed
  BY <1>2 DEF Wait, Receive, Accept, NoMoreToAccept, FreeClosed
<1>9. ~Dispatch
  BY <1>2 DEF Dispatch, DispatchTimer, DispatchWakeup, DispatchFreed, DispatchConnect,
              DispatchListen, DispatchSocket, Take
<1> QED  BY <1>3, <1>4, <1>5, <1>6, <1>7, <1>8, <1>9 DEF Next

-----------------------------------------------------------------------------
(* The theorems. *)

\* Whatever the callbacks close, move and open: the lists of the contexts hold
\* the open sockets, doubly linked, that of the closed ones the closed ones, and
\* the sweep stands on the list it sweeps (us_internal_socket_context_link and
\* _unlink, us_socket_close).
THEOREM ListsAlwaysSound == Spec => []ListsSound
<1>1. IInv => ListsSound
  <2> SUFFICES ASSUME IInv  PROVE ListsSound
    OBVIOUS
  <2>1. TypeOK /\ Listed(mem, Open) /\ From(mem, mem.closed) = ClosedIn(mem)
    BY OpenAre DEF IInv, Lists
  <2>2. ClosedIn(mem) = Blocks \ (Open \cup Free)
    BY DEF ClosedIn, Open, Free
  <2>3. ASSUME NEW c \in Range(Contexts)
        PROVE  LET list == From(mem, mem.head[c]) IN
               /\ list = {b \in Open : mem.ctx[b] = c}
               /\ list # {} => mem.prev[mem.head[c]] = NULL
               /\ \A b \in list : mem.next[b] # NULL => mem.prev[mem.next[b]] = b
               /\ mem.iterator[c] \in list \cup {NULL}
               /\ mem.iterator[c] # NULL => iterator # <<>> /\ c = Head(iterator)
    <3>1. /\ From(mem, mem.head[c]) = ListOf(mem, Open, c)
          /\ mem.head[c] # NULL => mem.prev[mem.head[c]] = NULL
          /\ \A b \in ListOf(mem, Open, c) : mem.next[b] # NULL => mem.prev[mem.next[b]] = b
          /\ mem.iterator[c] \in ListOf(mem, Open, c) \cup {NULL}
      BY <2>1 DEF Listed
    <3>2. mem.head[c] = NULL => From(mem, mem.head[c]) = {}
      BY EmptyList
    <3>3. mem.iterator[c] # NULL => iterator # <<>> /\ c = Head(iterator)
      BY DEF IInv, Sweeping, SweepAt
    <3> QED  BY <3>1, <3>2, <3>3 DEF ListOf
  <2> QED  BY <2>1, <2>2, <2>3 DEF ListsSound
<1> QED  BY <1>1, Invariance, PTL

\* No event of a batch, and no pointer of the loop, leads to a freed socket, but
\* for the events the code lets go astray: those of a listen socket closed within
\* the batch, of a socket moved while the event being dispatched carries the same
\* pointer (epoll.c:75) or before, when it polled for nothing (epoll.c:69), and a
\* second event at a block where one of these is (us_poll_resize, us_socket_close).
THEOREM EventsAlwaysReachMemory == Spec => []EventsReachMemory
<1>1. IInv => EventsReachMemory
  BY DEF IInv, Pointed, Reaching, EventsReachMemory, Free
<1> QED  BY <1>1, Invariance, PTL

\* A sweep passes every socket that stays on the list of its context, and passes
\* it once, whatever on_timeout does to the list (us_internal_timer_sweep).
THEOREM SweepAlwaysExact == Spec => SweepExact
<1>1. IInv /\ [Next]_vars => [SweepStep]_vars
  <2> SUFFICES ASSUME IInv, [Next]_vars, iterator # <<>>, iterator' = iterator
               PROVE  SweepStep
    BY DEF SweepStep
  <2>1. Passed(Head(iterator))
    BY NextPassed
  <2>2. Head(iterator)' = Head(iterator)
    OBVIOUS
  <2> QED  BY <2>1, <2>2, OpenAre DEF Passed, Rest, ListOf, SweepStep
<1> QED  BY <1>1, Invariance, PTL DEF Spec, SweepExact

=============================================================================
