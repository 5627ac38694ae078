--------------------------- MODULE MyClient_proofs ---------------------------
(***************************************************************************)
(* Proofs about MyClient for any number of callers, ids and messages, and  *)
(* any width of the id field.                                              *)
(*                                                                         *)
(* The inductive invariant ties every call to its entry in m_reqSemMap     *)
(* (Calls), every stored or travelling message to the id OnMsg reads from  *)
(* it (Labels), the permits to the messages that earned them (Permits,     *)
(* Queued), and it counts in how many places each message is (Counted).    *)
(* The second part is about MyServer, the echo service this client asks.   *)
(***************************************************************************)
EXTENDS MyClient, MyServer, FiniteSetTheorems, SequenceTheorems, TLAPS

InsideTheMap == {"registered", "waiting", "granted", "leaving"}

Strung == /\ wire \in Seq(Messages) /\ hand \in Seq(Messages) /\ inbox \in Seq(Messages)
              /\ batch \in Seq(Messages) /\ arrived \in Seq(Messages)
              /\ delivered \in Seq(Messages)

Threads == /\ loopPc = "poll" => hand = <<>>
           /\ loopPc = "push" => Len(hand) = 1
           /\ disp = "handle" <=> batch # <<>>

Calls == \A c \in Callers :
            /\ reqId[c] = 0 <=> pc[c] = "idle"
            /\ reqId[c] <= requestId
            /\ \A d \in Callers : c # d /\ reqId[c] # 0 => reqId[c] # reqId[d]
            /\ pc[c] \in InsideTheMap => reqId[c] \in DOMAIN semMap /\ semMap[reqId[c]] = c

Labelled(m) == m.n \in 1..sent /\ m.id = WireId(m.src)

Labels == /\ \A k \in 1..Len(wire) : Labelled(wire[k])
          /\ \A i \in DOMAIN resultMap : Labelled(resultMap[i]) /\ resultMap[i].id = i

Permits == \A c \in Callers :
              /\ permits[c] + Len(wire) <= sent
              /\ pc[c] \in {"registered", "waiting"} /\ reqId[c] \in DOMAIN resultMap
                    => permits[c] > 0

Marked == hand = <<ConnMark>> \/ \E k \in 1..Len(arrived) : arrived[k] = ConnMark

Queued == /\ inboxPermits <= Len(arrived)
          /\ Len(arrived) + Len(hand) + Len(wire) <= sent + (IF Marked THEN 1 ELSE 0)

InMap(f, n) == Cardinality({i \in DOMAIN f : f[i].n = n})
InPairs(S, n) == Cardinality({p \in S : p[2].n = n})

Places(n) == Seen(wire, n) + Seen(hand, n) + Seen(inbox, n) + Seen(batch, n)
             + Seen(delivered, n) + InMap(resultMap, n) + InPairs(consumed, n)
             + InPairs(dropped, n)

Counted == /\ IsFiniteSet(consumed) /\ IsFiniteSet(dropped)
           /\ \A n \in 1..MaxMsgs : Places(n) = IF n <= sent THEN 1 ELSE 0

IInv == /\ TypeOK /\ Strung /\ Threads
        /\ Calls /\ NoDanglingSemaphore /\ NoOrphanResult /\ Labels
        /\ Permits /\ Queued /\ OwnReply /\ InOrder /\ Counted

-----------------------------------------------------------------------------
(* The id OnMsg reads. *)

LEMMA DivBelow ==
    ASSUME NEW a \in Nat, NEW l \in Nat, NEW r \in Nat \ {0}, a < l * r
    PROVE  a \div r \in Nat /\ a \div r <= a /\ a \div r < l
<1>1. a = r * (a \div r) + (a % r) /\ a % r \in 0..(r - 1) /\ a \div r \in Int
  OBVIOUS
<1> DEFINE q == a \div r
<1>2. q \in Int /\ r * q <= a /\ a < r * q + r
  BY <1>1
<1> HIDE DEF q
<1>3. CASE q < 0
  <2>1. q + 1 <= 0 /\ r * (q + 1) = r * q + r
    BY <1>2, <1>3
  <2>2. r * (q + 1) <= 0
    BY <1>2, <2>1
  <2>3. QED
    BY <1>2, <2>1, <2>2
<1>4. CASE q >= l
  <2>1. r * q >= r * l
    BY <1>2, <1>4
  <2>2. QED
    BY <1>2, <2>1
<1>5. CASE q >= 0 /\ q < l
  <2>1. q <= r * q
    BY <1>2, <1>5
  <2>2. QED
    BY <1>2, <1>5, <2>1 DEF q
<1>6. QED
  BY <1>2, <1>3, <1>4, <1>5

\* The field holds what OnMsg parses, and an id that fits is parsed as it is.
LEMMA WireIdFits ==
    ASSUME NEW i \in 0..MaxId
    PROVE  /\ WireId(i) \in 0..MaxId /\ WireId(i) < IdLimit
           /\ i < IdLimit => WireId(i) = i
<1>1. CASE i < IdLimit
  BY <1>1, ClientAssumption DEF WireId
<1>2. CASE ~(i < IdLimit)
  <2>1. i \in Nat /\ Radix \in Nat \ {0} /\ IdLimit * Radix \in Nat /\ i < (IdLimit * Radix) * Radix
    BY ClientAssumption
  <2>2. i \div Radix \in Nat /\ i \div Radix <= i /\ i \div Radix < IdLimit * Radix
    BY <2>1, DivBelow
  <2> DEFINE q == i \div Radix
  <2>3. q \in Nat /\ q <= i /\ q < IdLimit * Radix
    BY <2>2
  <2>4. WireId(i) = IF q < IdLimit THEN q ELSE q \div Radix
    BY <1>2, ClientAssumption DEF WireId
  <2> HIDE DEF q
  <2>5. q \div Radix \in Nat /\ q \div Radix <= q /\ q \div Radix < IdLimit
    BY <2>1, <2>3, DivBelow, ClientAssumption
  <2>6. QED
    BY <1>2, <2>3, <2>4, <2>5, ClientAssumption
<1>3. QED
  BY <1>1, <1>2

-----------------------------------------------------------------------------
(* Counting a message in a sequence. *)

Here(s, n) == {k \in 1..Len(s) : s[k].n = n}

LEMMA HereFinite ==
    ASSUME NEW S, NEW s \in Seq(S), NEW n
    PROVE  /\ IsFiniteSet(Here(s, n)) /\ Seen(s, n) = Cardinality(Here(s, n))
           /\ Seen(s, n) \in Nat
<1>1. Len(s) \in Nat
  BY LenProperties
<1>2. IsFiniteSet(1..Len(s))
  BY <1>1, FS_Interval
<1>3. Here(s, n) \in SUBSET (1..Len(s)) /\ Seen(s, n) = Cardinality(Here(s, n))
  BY DEF Here, Seen
<1>4. IsFiniteSet(Here(s, n))
  BY <1>2, <1>3, FS_Subset
<1>5. QED
  BY <1>3, <1>4, FS_CardinalityType

LEMMA SeenEmpty == \A n : Seen(<<>>, n) = 0
<1>1. ASSUME NEW n PROVE Here(<<>>, n) = {}
  BY DEF Here
<1>2. QED
  BY <1>1, FS_EmptySet DEF Seen, Here

LEMMA SeenAppend ==
    ASSUME NEW S, NEW s \in Seq(S), NEW m \in S, NEW n
    PROVE  Seen(Append(s, m), n) = Seen(s, n) + (IF m.n = n THEN 1 ELSE 0)
<1>1. /\ Len(s) \in Nat /\ Append(s, m) \in Seq(S) /\ Len(Append(s, m)) = Len(s) + 1
      /\ \A i \in 1..Len(s) : Append(s, m)[i] = s[i]
      /\ Append(s, m)[Len(s) + 1] = m
  BY AppendProperties, LenProperties
<1>2. 1..(Len(s) + 1) = 1..Len(s) \cup {Len(s) + 1} /\ Len(s) + 1 \notin 1..Len(s)
  BY <1>1
<1>3. Here(Append(s, m), n) = Here(s, n) \cup (IF m.n = n THEN {Len(s) + 1} ELSE {})
  BY <1>1, <1>2 DEF Here
<1>4. Len(s) + 1 \notin Here(s, n)
  BY <1>2 DEF Here
<1>5. IsFiniteSet(Here(s, n)) /\ Seen(s, n) = Cardinality(Here(s, n)) /\ Seen(s, n) \in Nat
  BY HereFinite
<1>6. Seen(Append(s, m), n) = Cardinality(Here(Append(s, m), n))
  BY DEF Seen, Here
<1>7. Cardinality(Here(s, n) \cup {Len(s) + 1}) = Cardinality(Here(s, n)) + 1
  BY <1>4, <1>5, FS_AddElement
<1>8. CASE m.n = n
  BY <1>3, <1>5, <1>6, <1>7, <1>8
<1>9. CASE m.n # n
  <2>1. Here(Append(s, m), n) = Here(s, n)
    BY <1>3, <1>9
  <2>2. QED
    BY <1>5, <1>6, <1>9, <2>1
<1>10. QED
  BY <1>8, <1>9

LEMMA SeenTail ==
    ASSUME NEW S, NEW s \in Seq(S), s # <<>>, NEW n
    PROVE  Seen(s, n) = Seen(Tail(s), n) + (IF Head(s).n = n THEN 1 ELSE 0)
<1>1. /\ Len(s) \in Nat \ {0} /\ Head(s) = s[1] /\ Tail(s) \in Seq(S)
      /\ Len(Tail(s)) = Len(s) - 1
      /\ \A i \in 1..Len(Tail(s)) : Tail(s)[i] = s[i + 1]
  BY EmptySeq, HeadTailProperties
<1> DEFINE Up == {k \in 2..Len(s) : s[k].n = n}
           f == [k \in Here(Tail(s), n) |-> k + 1]
<1>2. /\ \A k \in Here(Tail(s), n) : k + 1 \in Up /\ k \in Int
      /\ \A k \in Up : k - 1 \in Here(Tail(s), n) /\ (k - 1) + 1 = k
  BY <1>1 DEF Here
<1>3. f \in Bijection(Here(Tail(s), n), Up)
  <2>1. f \in [Here(Tail(s), n) -> Up]
    BY <1>2
  <2>2. \A j, k \in Here(Tail(s), n) : f[j] = f[k] => j = k
    BY <1>2, SMTT(30)
  <2>3. \A u \in Up : \E k \in Here(Tail(s), n) : f[k] = u
    BY <1>2
  <2>4. QED
    BY <2>1, <2>2, <2>3 DEF Bijection, Injection, Surjection, IsInjective
<1>4. IsFiniteSet(Up) /\ Cardinality(Up) = Seen(Tail(s), n) /\ Seen(Tail(s), n) \in Nat
  <2>1. IsFiniteSet(Here(Tail(s), n)) /\ Seen(Tail(s), n) = Cardinality(Here(Tail(s), n))
        /\ Seen(Tail(s), n) \in Nat
    BY <1>1, HereFinite
  <2>2. ExistsBijection(Here(Tail(s), n), Up)
    BY <1>3 DEF ExistsBijection
  <2>3. QED
    BY <2>1, <2>2, FS_Bijection
<1>5. 1..Len(s) = {1} \cup 2..Len(s) /\ 1 \notin Up
  BY <1>1
<1>6. Here(s, n) = Up \cup (IF s[1].n = n THEN {1} ELSE {})
  BY <1>5 DEF Here
<1>7. Cardinality(Up \cup {1}) = Cardinality(Up) + 1
  BY <1>4, <1>5, FS_AddElement
<1>8. Seen(s, n) = Cardinality(Here(s, n))
  BY DEF Seen, Here
<1>9. Cardinality(Here(s, n)) = Cardinality(Up) + (IF s[1].n = n THEN 1 ELSE 0)
  <2>1. Cardinality(Up) \in Nat
    BY <1>4
  <2> HIDE DEF Up
  <2>2. CASE s[1].n = n
    BY <1>6, <1>7, <2>2
  <2>3. CASE s[1].n # n
    <3>1. Here(s, n) = Up
      BY <1>6, <2>3
    <3>2. QED
      BY <2>1, <2>3, <3>1
  <2>4. QED
    BY <2>2, <2>3
<1>10. QED
  BY <1>1, <1>4, <1>8, <1>9

LEMMA SingleAppend ==
    ASSUME NEW S, NEW s \in Seq(S), NEW t \in Seq(S), Len(t) = 1
    PROVE  t[1] \in S /\ s \o t = Append(s, t[1]) /\ t = <<t[1]>>
<1>1. 1 \in 1..Len(t)
  OBVIOUS
<1>2. t[1] \in S
  BY <1>1, ElementOfSeq
<1>3. /\ s \o t \in Seq(S) /\ Len(s \o t) = Len(s) + 1 /\ Len(s) \in Nat
      /\ \A i \in 1..(Len(s) + 1) : (s \o t)[i] = IF i <= Len(s) THEN s[i] ELSE t[i - Len(s)]
  <2>1. /\ s \o t \in Seq(S) /\ Len(s \o t) = Len(s) + Len(t)
        /\ \A i \in 1..(Len(s) + Len(t)) :
              (s \o t)[i] = IF i <= Len(s) THEN s[i] ELSE t[i - Len(s)]
    BY ConcatProperties
  <2>2. Len(s) \in Nat
    BY LenProperties
  <2>3. QED
    BY <2>1, <2>2
<1>4. /\ Append(s, t[1]) \in Seq(S) /\ Len(Append(s, t[1])) = Len(s) + 1
      /\ \A i \in 1..Len(s) : Append(s, t[1])[i] = s[i]
      /\ Append(s, t[1])[Len(s) + 1] = t[1]
  BY <1>2, AppendProperties
<1>5. ASSUME NEW i \in 1..(Len(s) + 1) PROVE (s \o t)[i] = Append(s, t[1])[i]
  BY <1>3, <1>4, <1>5
<1>6. s \o t = Append(s, t[1])
  BY <1>3, <1>4, <1>5, SeqEqual
<1>7. t = <<t[1]>>
  <2>1. <<t[1]>> \in Seq(S) /\ Len(<<t[1]>>) = 1 /\ <<t[1]>>[1] = t[1]
    BY <1>2
  <2>2. QED
    BY <2>1, SeqEqual
<1>8. QED
  BY <1>2, <1>6, <1>7
\* Handing the first message over leaves the whole unchanged.
LEMMA MoveHead ==
    ASSUME NEW S, NEW s \in Seq(S), NEW t \in Seq(S), t # <<>>
    PROVE  Append(s, Head(t)) \o Tail(t) = s \o t
<1>1. /\ Head(t) \in S /\ Tail(t) \in Seq(S) /\ Len(Tail(t)) = Len(t) - 1
      /\ \A i \in 1..Len(Tail(t)) : Tail(t)[i] = t[i + 1]
      /\ Len(t) \in Nat \ {0} /\ Head(t) = t[1] /\ Len(s) \in Nat
  BY HeadTailProperties, EmptySeq, LenProperties
<1>2. /\ Append(s, Head(t)) \in Seq(S) /\ Len(Append(s, Head(t))) = Len(s) + 1
      /\ \A i \in 1..Len(s) : Append(s, Head(t))[i] = s[i]
      /\ Append(s, Head(t))[Len(s) + 1] = Head(t)
  BY <1>1, AppendProperties
<1> DEFINE a == Append(s, Head(t))
           u == Tail(t)
<1>3. /\ s \o t \in Seq(S) /\ Len(s \o t) = Len(s) + Len(t)
      /\ \A i \in 1..(Len(s) + Len(t)) : (s \o t)[i] = IF i <= Len(s) THEN s[i] ELSE t[i - Len(s)]
  BY ConcatProperties
<1>4. a \in Seq(S) /\ u \in Seq(S) /\ Len(a) = Len(s) + 1 /\ Len(u) = Len(t) - 1
  BY <1>1, <1>2
<1>5. /\ a \o u \in Seq(S) /\ Len(a \o u) = Len(a) + Len(u)
      /\ \A i \in 1..(Len(a) + Len(u)) : (a \o u)[i] = IF i <= Len(a) THEN a[i] ELSE u[i - Len(a)]
  BY <1>4, ConcatProperties
<1>6. ASSUME NEW i \in 1..(Len(s) + Len(t))
      PROVE  (a \o u)[i] = (s \o t)[i]
  <2>1. (a \o u)[i] = IF i <= Len(s) + 1 THEN a[i] ELSE u[i - (Len(s) + 1)]
    BY <1>1, <1>4, <1>5
  <2>2. (s \o t)[i] = IF i <= Len(s) THEN s[i] ELSE t[i - Len(s)]
    BY <1>3
  <2>3. CASE i <= Len(s)
    BY <1>1, <1>2, <2>1, <2>2, <2>3
  <2>4. CASE i = Len(s) + 1
    <3>1. i - Len(s) = 1 /\ ~(i <= Len(s))
      BY <1>1, <2>4
    <3>2. QED
      BY <1>1, <1>2, <2>1, <2>2, <2>4, <3>1
  <2>5. CASE i > Len(s) + 1
    <3>1. /\ i - (Len(s) + 1) \in 1..Len(u) /\ (i - (Len(s) + 1)) + 1 = i - Len(s)
          /\ ~(i <= Len(s) + 1) /\ ~(i <= Len(s))
      BY <1>1, <1>4, <2>5
    <3>2. u[i - (Len(s) + 1)] = t[i - Len(s)]
      BY <1>1, <3>1
    <3>3. QED
      BY <2>1, <2>2, <3>1, <3>2
  <2>6. QED
    BY <1>1, <2>3, <2>4, <2>5
<1>7. Len(a \o u) = Len(s) + Len(t)
  BY <1>1, <1>4, <1>5
<1> HIDE DEF a, u
<1>8. a \o u = s \o t
  BY <1>3, <1>5, <1>6, <1>7, SeqEqual
<1>9. QED
  BY <1>8 DEF a, u

-----------------------------------------------------------------------------
(* Counting a message in a history and in m_reqResultMap. *)

LEMMA PairsFinite ==
    ASSUME NEW S, IsFiniteSet(S), NEW n
    PROVE  IsFiniteSet({p \in S : p[2].n = n}) /\ InPairs(S, n) \in Nat
<1>1. {p \in S : p[2].n = n} \in SUBSET S
  OBVIOUS
<1>2. IsFiniteSet({p \in S : p[2].n = n})
  BY <1>1, FS_Subset
<1>3. QED
  BY <1>2, FS_CardinalityType DEF InPairs

LEMMA PairsAdd ==
    ASSUME NEW S, IsFiniteSet(S), NEW p, NEW n
    PROVE  /\ IsFiniteSet(S \cup {p})
           /\ p[2].n # n => InPairs(S \cup {p}, n) = InPairs(S, n)
           /\ p[2].n = n /\ InPairs(S, n) = 0 => InPairs(S \cup {p}, n) = 1
<1> DEFINE T == S \cup {p}
<1>1. IsFiniteSet(T)
  BY FS_AddElement
<1>2. ASSUME p[2].n # n
      PROVE  InPairs(T, n) = InPairs(S, n)
  <2>1. {q \in T : q[2].n = n} = {q \in S : q[2].n = n}
    BY <1>2
  <2>2. QED
    BY <2>1 DEF InPairs
<1>3. ASSUME p[2].n = n, InPairs(S, n) = 0
      PROVE  InPairs(T, n) = 1
  <2>1. {q \in S : q[2].n = n} = {}
    BY <1>3, PairsFinite, FS_EmptySet DEF InPairs
  <2>2. {q \in T : q[2].n = n} = {p}
    BY <1>3, <2>1
  <2>3. QED
    BY <2>2, FS_Singleton DEF InPairs
<1>4. QED
  BY <1>1, <1>2, <1>3

Stored(f, n) == {i \in DOMAIN f : f[i].n = n}

LEMMA StoredFinite ==
    ASSUME NEW f, IsFiniteSet(DOMAIN f), NEW n
    PROVE  /\ IsFiniteSet(Stored(f, n)) /\ InMap(f, n) = Cardinality(Stored(f, n))
           /\ InMap(f, n) \in Nat
<1>1. Stored(f, n) \in SUBSET DOMAIN f
  BY DEF Stored
<1>2. IsFiniteSet(Stored(f, n))
  BY <1>1, FS_Subset
<1>3. QED
  BY <1>2, FS_CardinalityType DEF InMap, Stored

LEMMA MapWithout ==
    ASSUME NEW f, IsFiniteSet(DOMAIN f), NEW x, NEW n
    PROVE  /\ x \in DOMAIN f =>
                InMap(f, n) = InMap(Without(f, x), n) + (IF f[x].n = n THEN 1 ELSE 0)
           /\ x \notin DOMAIN f => InMap(Without(f, x), n) = InMap(f, n)
           /\ IsFiniteSet(DOMAIN Without(f, x))
<1>1. /\ DOMAIN Without(f, x) = DOMAIN f \ {x}
      /\ \A z \in DOMAIN f \ {x} : Without(f, x)[z] = f[z]
  BY DEF Without
<1>2. Stored(Without(f, x), n) = Stored(f, n) \ {x}
  BY <1>1 DEF Stored
<1>3. InMap(Without(f, x), n) = Cardinality(Stored(f, n) \ {x})
  BY <1>2 DEF InMap, Stored
<1>4. Cardinality(Stored(f, n) \ {x})
        = IF x \in Stored(f, n) THEN Cardinality(Stored(f, n)) - 1 ELSE Cardinality(Stored(f, n))
  BY StoredFinite, FS_RemoveElement
<1>5. InMap(f, n) = Cardinality(Stored(f, n)) /\ InMap(f, n) \in Nat
  BY StoredFinite
<1>6. x \in Stored(f, n) <=> x \in DOMAIN f /\ f[x].n = n
  BY DEF Stored
<1>7. IsFiniteSet(DOMAIN f \ {x})
  BY FS_RemoveElement
<1>8. CASE x \in Stored(f, n)
  BY <1>1, <1>3, <1>4, <1>5, <1>6, <1>7, <1>8
<1>9. CASE x \notin Stored(f, n)
  BY <1>1, <1>3, <1>4, <1>5, <1>6, <1>7, <1>9
<1>10. QED
  BY <1>8, <1>9

LEMMA MapWith ==
    ASSUME NEW f, IsFiniteSet(DOMAIN f), NEW x, NEW m, NEW n
    PROVE  /\ x \in DOMAIN f =>
                InMap(With(f, x, m), n) + (IF f[x].n = n THEN 1 ELSE 0)
                    = InMap(f, n) + (IF m.n = n THEN 1 ELSE 0)
           /\ x \notin DOMAIN f =>
                InMap(With(f, x, m), n) = InMap(f, n) + (IF m.n = n THEN 1 ELSE 0)
<1> DEFINE g == With(f, x, m)
           w == Without(f, x)
<1>1. /\ DOMAIN g = DOMAIN f \cup {x} /\ g[x] = m
      /\ \A z \in DOMAIN f \ {x} : g[z] = f[z]
  BY DEF With
<1>2. IsFiniteSet(DOMAIN g)
  BY <1>1, FS_AddElement
<1>3. Stored(Without(g, x), n) = Stored(w, n)
  BY <1>1 DEF Without, Stored
<1>4. InMap(Without(g, x), n) = InMap(w, n)
  BY <1>3 DEF InMap, Stored
<1>5. InMap(g, n) = InMap(w, n) + (IF m.n = n THEN 1 ELSE 0)
  <2>1. InMap(g, n) = InMap(Without(g, x), n) + (IF g[x].n = n THEN 1 ELSE 0)
    BY <1>1, <1>2, MapWithout
  <2>2. QED
    BY <1>1, <1>4, <2>1
<1>6. InMap(w, n) \in Nat
  BY MapWithout, StoredFinite
<1>7. x \in DOMAIN f => InMap(f, n) = InMap(w, n) + (IF f[x].n = n THEN 1 ELSE 0)
  BY MapWithout
<1>8. x \notin DOMAIN f => InMap(f, n) = InMap(w, n)
  BY MapWithout
<1> HIDE DEF g, w
<1>9. DEFINE b == IF f[x].n = n THEN 1 ELSE 0
             d == IF m.n = n THEN 1 ELSE 0
<1>10. b \in Nat /\ d \in Nat
  OBVIOUS
<1>11. /\ InMap(g, n) = InMap(w, n) + d
       /\ x \in DOMAIN f => InMap(f, n) = InMap(w, n) + b
  BY <1>5, <1>7
<1> HIDE DEF b, d
<1>12. /\ x \in DOMAIN f => InMap(g, n) + b = InMap(f, n) + d
       /\ x \notin DOMAIN f => InMap(g, n) = InMap(f, n) + d
  BY <1>6, <1>8, <1>10, <1>11
<1>13. QED
  BY <1>12 DEF b, d, g
-----------------------------------------------------------------------------
(* The initial state, and which actions touch what. *)

LEMMA InitIInv == Init => IInv
<1> SUFFICES ASSUME Init PROVE IInv
  OBVIOUS
<1> USE DEF Init
<1>1. DOMAIN Empty = {} /\ Empty \in [{} -> Callers]
  BY DEF Empty
<1>2. {} \in SUBSET Ids /\ [{} -> Callers] \in {[D -> Callers] : D \in SUBSET Ids}
  OBVIOUS
<1>3. semMap \in UNION {[D -> Callers] : D \in SUBSET Ids}
  BY <1>1, <1>2
<1>4. TypeOK
  <2>1. \A q \in {wire, hand, inbox, batch, arrived, delivered} :
            q = <<>> /\ \A k \in 1..Len(q) : q[k] \in Messages
    BY EmptySeq
  <2>2. /\ DOMAIN resultMap = {} /\ 0 \in 0..MaxId /\ 0 \in 0..MaxMsgs
        /\ 0 \in 0..(MaxMsgs + 1) /\ Len(hand) = 0
    BY <1>1, ClientAssumption, EmptySeq
  <2>3. /\ requestId \in 0..MaxId /\ asked \subseteq Ids /\ sent \in 0..MaxMsgs
        /\ inboxPermits \in 0..(MaxMsgs + 1) /\ Len(hand) <= 1
        /\ DOMAIN resultMap \subseteq Ids /\ \A i \in DOMAIN resultMap : resultMap[i] \in Messages
    BY <2>2
  <2>4. /\ pc \in [Callers -> {"idle", "numbered", "registered", "waiting", "granted", "leaving"}]
        /\ reqId \in [Callers -> 0..MaxId] /\ permits \in [Callers -> 0..MaxMsgs]
        /\ outcome \in [Callers -> {"none", "ok", "empty", "timeout", "error"}]
    BY <2>2
  <2>5. /\ loopPc \in {"poll", "push"} /\ disp \in {"wait", "swap", "handle", "stopped"}
        /\ running \in BOOLEAN /\ connected \in BOOLEAN /\ linked \in BOOLEAN
    OBVIOUS
  <2> HIDE DEF Init
  <2>6. QED
    BY <1>3, <2>1, <2>3, <2>4, <2>5, Zenon DEF TypeOK
<1>5. Strung /\ Threads
  BY EmptySeq DEF Strung, Threads
<1>6. Calls /\ NoDanglingSemaphore /\ NoOrphanResult /\ OwnReply
  BY <1>1 DEF Calls, InsideTheMap, NoDanglingSemaphore, NoOrphanResult, OwnReply
<1>7. Labels /\ Permits
  BY <1>1 DEF Labels, Permits
<1>8. Queued
  BY DEF Queued
<1>9. InOrder
  <2>1. <<>> \o <<>> = <<>>
    BY ConcatEmptySeq, EmptySeq
  <2>2. QED
    BY <2>1 DEF InOrder
<1>10. Counted
  <2>1. IsFiniteSet({}) /\ Cardinality({}) = 0
    BY FS_EmptySet
  <2>2. ASSUME NEW n
        PROVE  InMap(Empty, n) = 0 /\ InPairs({}, n) = 0 /\ Seen(<<>>, n) = 0
    <3>1. {i \in DOMAIN Empty : Empty[i].n = n} = {} /\ {p \in {} : p[2].n = n} = {}
      BY <1>1
    <3>2. QED
      BY <2>1, <3>1, SeenEmpty DEF InMap, InPairs
  <2>3. QED
    BY <2>1, <2>2, ClientAssumption DEF Counted, Places
<1>11. QED
  BY <1>4, <1>5, <1>6, <1>7, <1>8, <1>9, <1>10 DEF IInv

\* A caller inside SyncSend leaves the loop thread, the dispatcher and the link alone.
LEMMA CallerSteps ==
    ASSUME NEW c \in Callers, SyncSend(c)
    PROVE  UNCHANGED <<loopVars, dispVars, connected, linked, wire, sent, inbox, running>>
  BY DEF SyncSend, BeginSync, Register, SendRequest, WaitReturns, WaitTimesOut, TakeResult,
         Leave, loopVars, dispVars, linkVars

\* Nobody but a caller moves it, and the ids only grow.
LEMMA OtherSteps ==
    ASSUME TypeOK, [Next]_vars, \A c \in Callers : ~SyncSend(c)
    PROVE  /\ UNCHANGED <<pc, reqId, outcome, consumed, semMap>>
           /\ requestId' \in 0..MaxId /\ requestId <= requestId'
<1>1. requestId \in 0..MaxId /\ MaxId \in Nat
  BY ClientAssumption DEF TypeOK
<1>2. CASE AsyncSend
  BY <1>1, <1>2 DEF AsyncSend, mapVars
<1>3. CASE Stop \/ OnConnection \/ PushInbox
  BY <1>1, <1>3 DEF Stop, OnConnection, PushInbox, callVars, mapVars
<1>4. CASE OnMsg
  BY <1>1, <1>4 DEF OnMsg, callVars, mapVars
<1>5. CASE DispWait \/ DispSwap \/ DispHandle
  BY <1>1, <1>5 DEF DispWait, DispSwap, DispHandle, callVars, mapVars
<1>6. CASE ServerSends \/ LinkDown
  BY <1>1, <1>6 DEF ServerSends, LinkDown, callVars, mapVars
<1>7. CASE UNCHANGED vars
  BY <1>1, <1>7 DEF vars, callVars, mapVars
<1>8. QED
  BY <1>2, <1>3, <1>4, <1>5, <1>6, <1>7 DEF Next

-----------------------------------------------------------------------------
(* The queues and the threads that fill and empty them. *)

LEMMA ConnMarkTyped == ConnMark \in Messages /\ ConnMark.n = 0
  BY ClientAssumption DEF ConnMark, Messages

LEMMA NextStrung == TypeOK /\ Strung /\ Threads /\ [Next]_vars => Strung'
<1> SUFFICES ASSUME TypeOK, Strung, Threads, [Next]_vars PROVE Strung'
  OBVIOUS
<1>1. /\ wire \in Seq(Messages) /\ hand \in Seq(Messages) /\ inbox \in Seq(Messages)
      /\ batch \in Seq(Messages) /\ arrived \in Seq(Messages) /\ delivered \in Seq(Messages)
  BY DEF Strung
<1>2. CASE \E c \in Callers : SyncSend(c)
  <2>1. UNCHANGED <<wire, hand, inbox, batch, arrived, delivered>>
    BY <1>2, CallerSteps DEF loopVars, dispVars
  <2>2. QED
    BY <1>1, <2>1 DEF Strung
<1>3. CASE AsyncSend \/ Stop \/ DispWait
  <2>1. UNCHANGED <<wire, hand, inbox, batch, arrived, delivered>>
    BY <1>3 DEF AsyncSend, Stop, DispWait, loopVars, dispVars, linkVars
  <2>2. QED
    BY <1>1, <2>1 DEF Strung
<1>4. CASE OnMsg
  <2>1. /\ wire # <<>> /\ wire' = Tail(wire) /\ hand' \in {hand, <<Head(wire)>>}
        /\ UNCHANGED <<inbox, batch, arrived, delivered>>
    BY <1>4 DEF OnMsg, dispVars
  <2>2. Head(wire) \in Messages /\ Tail(wire) \in Seq(Messages)
    BY <1>1, <2>1, HeadTailProperties
  <2>3. <<Head(wire)>> \in Seq(Messages)
    BY <2>2
  <2>4. QED
    BY <1>1, <2>1, <2>2, <2>3 DEF Strung
<1>5. CASE OnConnection
  <2>1. /\ hand' = <<ConnMark>>
        /\ UNCHANGED <<wire, inbox, batch, arrived, delivered>>
    BY <1>5 DEF OnConnection, dispVars
  <2>2. <<ConnMark>> \in Seq(Messages)
    BY ConnMarkTyped
  <2>3. QED
    BY <1>1, <2>1, <2>2 DEF Strung
<1>6. CASE PushInbox
  <2>1. /\ inbox' = inbox \o hand /\ arrived' = arrived \o hand /\ hand' = <<>>
        /\ UNCHANGED <<wire, batch, delivered>>
    BY <1>6 DEF PushInbox, dispVars, linkVars
  <2>2. inbox \o hand \in Seq(Messages) /\ arrived \o hand \in Seq(Messages)
    BY <1>1, ConcatProperties
  <2>3. QED
    BY <1>1, <2>1, <2>2, EmptySeq DEF Strung
<1>7. CASE DispSwap
  <2>1. batch' = inbox /\ inbox' = batch /\ UNCHANGED <<wire, hand, arrived, delivered>>
    BY <1>7 DEF DispSwap, loopVars, linkVars
  <2>2. QED
    BY <1>1, <2>1 DEF Strung
<1>8. CASE DispHandle
  <2>1. /\ delivered' = Append(delivered, Head(batch)) /\ batch' = Tail(batch) /\ batch # <<>>
        /\ UNCHANGED <<wire, hand, arrived, inbox>>
    BY <1>8 DEF DispHandle, loopVars, linkVars, Threads
  <2>2. Head(batch) \in Messages /\ Tail(batch) \in Seq(Messages)
    BY <1>1, <2>1, HeadTailProperties
  <2>3. Append(delivered, Head(batch)) \in Seq(Messages)
    BY <1>1, <2>2, AppendProperties
  <2>4. QED
    BY <1>1, <2>1, <2>2, <2>3 DEF Strung
<1>9. CASE ServerSends
  <2>1. PICK i \in asked \cup {0}, b \in BOOLEAN :
          wire' = Append(wire, [n |-> sent + 1, src |-> i, id |-> WireId(i), short |-> b])
    BY <1>9 DEF ServerSends
  <2>2. sent + 1 \in 0..MaxMsgs /\ i \in 0..MaxId
    BY <1>9, ClientAssumption DEF ServerSends, TypeOK, Ids
  <2>3. [n |-> sent + 1, src |-> i, id |-> WireId(i), short |-> b] \in Messages
    BY <2>2, WireIdFits DEF Messages
  <2>4. Append(wire, [n |-> sent + 1, src |-> i, id |-> WireId(i), short |-> b]) \in Seq(Messages)
    BY <1>1, <2>3, AppendProperties
  <2>5. UNCHANGED <<hand, inbox, batch, arrived, delivered>>
    BY <1>9 DEF ServerSends, loopVars, dispVars
  <2>6. QED
    BY <1>1, <2>1, <2>4, <2>5 DEF Strung
<1>10. CASE LinkDown
  <2>1. wire' = <<>> /\ UNCHANGED <<hand, inbox, batch, arrived, delivered>>
    BY <1>10 DEF LinkDown, loopVars, dispVars
  <2>2. QED
    BY <1>1, <2>1, EmptySeq DEF Strung
<1>11. CASE UNCHANGED vars
  <2>1. UNCHANGED <<wire, hand, inbox, batch, arrived, delivered>>
    BY <1>11 DEF vars, loopVars, dispVars, linkVars
  <2>2. QED
    BY <1>1, <2>1 DEF Strung
<1>12. QED
  BY <1>2, <1>3, <1>4, <1>5, <1>6, <1>7, <1>8, <1>9, <1>10, <1>11 DEF Next
LEMMA NextThreads == Strung /\ Threads /\ [Next]_vars => Threads'
<1> SUFFICES ASSUME Strung, Threads, [Next]_vars PROVE Threads'
  OBVIOUS
<1>1. /\ loopPc = "poll" => hand = <<>>
      /\ loopPc = "push" => Len(hand) = 1
      /\ disp = "handle" <=> batch # <<>>
  BY DEF Threads
<1>2. CASE \E c \in Callers : SyncSend(c)
  <2>1. UNCHANGED <<loopPc, hand, disp, batch>>
    BY <1>2, CallerSteps DEF loopVars, dispVars
  <2>2. QED
    BY <1>1, <2>1 DEF Threads
<1>3. CASE AsyncSend \/ Stop \/ ServerSends \/ LinkDown \/ UNCHANGED vars
  <2>1. UNCHANGED <<loopPc, hand, disp, batch>>
    BY <1>3 DEF AsyncSend, Stop, ServerSends, LinkDown, vars, loopVars, dispVars
  <2>2. QED
    BY <1>1, <2>1 DEF Threads
<1>4. CASE OnMsg
  <2>1. /\ UNCHANGED <<disp, batch>>
        /\ \/ UNCHANGED <<loopPc, hand>>
           \/ loopPc' = "push" /\ hand' = <<Head(wire)>>
    BY <1>4 DEF OnMsg, dispVars
  <2>2. Len(<<Head(wire)>>) = 1
    OBVIOUS
  <2>3. QED
    BY <1>1, <2>1, <2>2 DEF Threads
<1>5. CASE OnConnection
  <2>1. /\ UNCHANGED <<disp, batch>>
        /\ loopPc' = "push" /\ hand' = <<ConnMark>>
    BY <1>5 DEF OnConnection, dispVars
  <2>2. Len(<<ConnMark>>) = 1
    OBVIOUS
  <2>3. QED
    BY <1>1, <2>1, <2>2 DEF Threads
<1>6. CASE PushInbox
  <2>1. UNCHANGED <<disp, batch>> /\ loopPc' = "poll" /\ hand' = <<>>
    BY <1>6 DEF PushInbox, dispVars
  <2>2. QED
    BY <1>1, <2>1 DEF Threads
<1>7. CASE DispWait \/ DispSwap \/ DispHandle
  <2>1. UNCHANGED <<loopPc, hand>>
    BY <1>7 DEF DispWait, DispSwap, DispHandle, loopVars
  <2>2. disp' = "handle" <=> batch' # <<>>
    <3>1. CASE DispWait
      BY <1>1, <3>1 DEF DispWait
    <3>2. CASE DispSwap
      BY <1>1, <3>2 DEF DispSwap
    <3>3. CASE DispHandle
      BY <3>3 DEF DispHandle
    <3>4. QED
      BY <1>7, <3>1, <3>2, <3>3
  <2>3. QED
    BY <1>1, <2>1, <2>2 DEF Threads
<1>8. QED
  BY <1>2, <1>3, <1>4, <1>5, <1>6, <1>7 DEF Next

LEMMA NextInOrder == Strung /\ Threads /\ InOrder /\ [Next]_vars => InOrder'
<1> SUFFICES ASSUME Strung, Threads, InOrder, [Next]_vars PROVE InOrder'
  OBVIOUS
<1>1. /\ hand \in Seq(Messages) /\ inbox \in Seq(Messages) /\ batch \in Seq(Messages)
      /\ arrived \in Seq(Messages) /\ delivered \in Seq(Messages)
      /\ (delivered \o batch) \o inbox = arrived
  BY DEF Strung, InOrder
<1>2. CASE UNCHANGED <<inbox, batch, arrived, delivered>>
  BY <1>1, <1>2 DEF InOrder
<1>3. CASE PushInbox
  <2>1. /\ inbox' = inbox \o hand /\ arrived' = arrived \o hand
        /\ UNCHANGED <<batch, delivered>>
    BY <1>3 DEF PushInbox, dispVars
  <2> DEFINE front == delivered \o batch
  <2>2. front \in Seq(Messages) /\ inbox \in Seq(Messages) /\ hand \in Seq(Messages)
    BY <1>1, ConcatProperties
  <2> HIDE DEF front
  <2>3. (front \o inbox) \o hand = front \o (inbox \o hand)
    BY <2>2, ConcatAssociative
  <2>4. QED
    BY <1>1, <2>1, <2>3 DEF InOrder, front
<1>4. CASE DispSwap
  <2>1. /\ batch' = inbox /\ inbox' = <<>> /\ batch = <<>>
        /\ UNCHANGED <<arrived, delivered>>
    BY <1>4 DEF DispSwap, loopVars, Threads
  <2>2. delivered \o <<>> = delivered
    BY <1>1, ConcatEmptySeq
  <2>3. (delivered \o inbox) \o <<>> = delivered \o inbox
    BY <1>1, ConcatProperties, ConcatEmptySeq
  <2>4. QED
    BY <1>1, <2>1, <2>2, <2>3 DEF InOrder
<1>5. CASE DispHandle
  <2>1. /\ delivered' = Append(delivered, Head(batch)) /\ batch' = Tail(batch) /\ batch # <<>>
        /\ UNCHANGED <<arrived, inbox>>
    BY <1>5 DEF DispHandle, loopVars, Threads
  <2>2. Append(delivered, Head(batch)) \o Tail(batch) = delivered \o batch
    BY <1>1, <2>1, MoveHead
  <2>3. QED
    BY <1>1, <2>1, <2>2 DEF InOrder
<1>6. CASE \E c \in Callers : SyncSend(c)
  BY <1>2, <1>6, CallerSteps DEF loopVars, dispVars
<1>7. CASE AsyncSend \/ Stop \/ OnMsg \/ OnConnection \/ DispWait \/ ServerSends \/ LinkDown
           \/ UNCHANGED vars
  BY <1>2, <1>7 DEF AsyncSend, Stop, OnMsg, OnConnection, DispWait, ServerSends, LinkDown,
     vars, loopVars, dispVars
<1>8. QED
  BY <1>3, <1>4, <1>5, <1>6, <1>7 DEF Next
-----------------------------------------------------------------------------
(* The calls and their entries in m_reqSemMap. *)

LEMMA CallTyping ==
    ASSUME TypeOK
    PROVE  /\ requestId \in 0..MaxId /\ requestId \in Int
           /\ DOMAIN pc = Callers /\ DOMAIN reqId = Callers
           /\ \A c \in Callers : reqId[c] \in 0..MaxId /\ reqId[c] \in Int
           /\ DOMAIN semMap \subseteq Ids
           /\ \A i \in DOMAIN semMap : semMap[i] \in Callers /\ i # 0
<1>1. /\ requestId \in 0..MaxId /\ reqId \in [Callers -> 0..MaxId] /\ DOMAIN pc = Callers
      /\ MaxId \in Nat
  BY ClientAssumption DEF TypeOK
<1>2. PICK D \in SUBSET Ids : semMap \in [D -> Callers]
  BY DEF TypeOK
<1>3. \A i \in Ids : i # 0
  BY DEF Ids
<1>4. QED
  BY <1>1, <1>2, <1>3

\* What each step of a call does to its place, its id and the map of semaphores.
LEMMA CallEffects ==
    ASSUME TypeOK, NEW c \in Callers, SyncSend(c)
    PROVE  /\ \A d \in Callers \ {c} : pc'[d] = pc[d] /\ reqId'[d] = reqId[d]
           /\ \/ /\ pc[c] = "idle" /\ pc'[c] = "numbered" /\ requestId < MaxId
                 /\ requestId' = requestId + 1 /\ reqId'[c] = requestId + 1
                 /\ semMap' = semMap
              \/ /\ pc[c] = "numbered" /\ pc'[c] = "registered"
                 /\ requestId' = requestId /\ reqId'[c] = reqId[c]
                 /\ semMap' = With(semMap, reqId[c], c)
              \/ /\ pc[c] \in InsideTheMap /\ pc'[c] \in {"waiting", "granted", "leaving"}
                 /\ requestId' = requestId /\ reqId'[c] = reqId[c]
                 /\ semMap' = semMap
              \/ /\ pc[c] = "leaving" /\ pc'[c] = "idle"
                 /\ requestId' = requestId /\ reqId'[c] = 0
                 /\ semMap' = Without(semMap, reqId[c])
<1>1. DOMAIN pc = Callers /\ DOMAIN reqId = Callers
  BY CallTyping
<1>2. CASE BeginSync(c)
  BY <1>1, <1>2 DEF BeginSync, Goto, mapVars
<1>3. CASE Register(c)
  BY <1>1, <1>3 DEF Register, Goto
<1>4. CASE SendRequest(c)
  <2>1. pc[c] = "registered" /\ requestId' = requestId /\ reqId' = reqId /\ semMap' = semMap
    BY <1>4 DEF SendRequest, mapVars
  <2>2. pc' = [pc EXCEPT ![c] = "waiting"] \/ pc' = [pc EXCEPT ![c] = "leaving"]
    BY <1>4 DEF SendRequest, Goto
  <2>3. QED
    BY <1>1, <2>1, <2>2 DEF InsideTheMap
<1>5. CASE WaitReturns(c) \/ WaitTimesOut(c)
  <2>1. pc[c] = "waiting" /\ requestId' = requestId /\ reqId' = reqId /\ semMap' = semMap
    BY <1>5 DEF WaitReturns, WaitTimesOut, mapVars
  <2>2. pc' = [pc EXCEPT ![c] = "granted"] \/ pc' = [pc EXCEPT ![c] = "leaving"]
    BY <1>5 DEF WaitReturns, WaitTimesOut, Goto
  <2>3. QED
    BY <1>1, <2>1, <2>2 DEF InsideTheMap
<1>6. CASE TakeResult(c)
  <2>1. pc[c] = "granted" /\ requestId' = requestId /\ reqId' = reqId /\ semMap' = semMap
        /\ pc' = [pc EXCEPT ![c] = "leaving"]
    BY <1>6 DEF TakeResult, Goto
  <2>2. QED
    BY <1>1, <2>1 DEF InsideTheMap
<1>7. CASE Leave(c)
  BY <1>1, <1>7 DEF Leave, Goto
<1>8. QED
  BY <1>2, <1>3, <1>4, <1>5, <1>6, <1>7 DEF SyncSend

LEMMA NextCalls == TypeOK /\ Calls /\ NoDanglingSemaphore /\ [Next]_vars
                      => Calls' /\ NoDanglingSemaphore'
<1> SUFFICES ASSUME TypeOK, Calls, NoDanglingSemaphore, [Next]_vars
             PROVE  Calls' /\ NoDanglingSemaphore'
  OBVIOUS
<1>1. /\ requestId \in Int
      /\ \A d \in Callers : reqId[d] \in Int
      /\ \A i \in DOMAIN semMap : semMap[i] \in Callers /\ i # 0
  BY CallTyping
<1>2. /\ \A d \in Callers : reqId[d] = 0 <=> pc[d] = "idle"
      /\ \A d \in Callers : reqId[d] <= requestId
      /\ \A d, e \in Callers : d # e /\ reqId[d] # 0 => reqId[d] # reqId[e]
      /\ \A d \in Callers : pc[d] \in InsideTheMap
            => reqId[d] \in DOMAIN semMap /\ semMap[reqId[d]] = d
  BY DEF Calls
<1>3. \A i \in DOMAIN semMap : reqId[semMap[i]] = i /\ pc[semMap[i]] \in InsideTheMap
  BY DEF NoDanglingSemaphore, InsideTheMap
<1> DEFINE CallsAfter ==
      /\ \A d \in Callers : reqId'[d] = 0 <=> pc'[d] = "idle"
      /\ \A d \in Callers : reqId'[d] <= requestId'
      /\ \A d, e \in Callers : d # e /\ reqId'[d] # 0 => reqId'[d] # reqId'[e]
      /\ \A d \in Callers : pc'[d] \in InsideTheMap
            => reqId'[d] \in DOMAIN semMap' /\ semMap'[reqId'[d]] = d
      /\ \A i \in DOMAIN semMap' : reqId'[semMap'[i]] = i /\ pc'[semMap'[i]] \in InsideTheMap
<1>4. SUFFICES CallsAfter
  BY DEF Calls, NoDanglingSemaphore, InsideTheMap
<1>5. CASE \A c \in Callers : ~SyncSend(c)
  BY <1>1, <1>2, <1>3, <1>5, OtherSteps
<1>6. ASSUME NEW c \in Callers, SyncSend(c)
      PROVE  CallsAfter
  <2>1. \A d \in Callers \ {c} : pc'[d] = pc[d] /\ reqId'[d] = reqId[d]
    BY <1>6, CallEffects
  <2>2. CASE /\ pc[c] = "idle" /\ pc'[c] = "numbered"
             /\ requestId' = requestId + 1 /\ reqId'[c] = requestId + 1
             /\ semMap' = semMap
    <3>1. \A i \in DOMAIN semMap : semMap[i] \in Callers \ {c}
      BY <1>1, <1>3, <2>2 DEF InsideTheMap
    <3>2. requestId + 1 # 0 /\ \A d \in Callers : reqId[d] # requestId + 1
      BY <1>1, <1>2, <2>2
    <3>3. \A d \in Callers : reqId'[d] <= requestId'
      BY <1>1, <1>2, <2>1, <2>2
    <3>4. \A d \in Callers : reqId'[d] = 0 <=> pc'[d] = "idle"
      BY <1>2, <2>1, <2>2, <3>2
    <3>5. \A d, e \in Callers : d # e /\ reqId'[d] # 0 => reqId'[d] # reqId'[e]
      BY <1>2, <2>1, <2>2, <3>2
    <3>6. \A d \in Callers : pc'[d] \in InsideTheMap
            => reqId'[d] \in DOMAIN semMap' /\ semMap'[reqId'[d]] = d
      BY <1>2, <2>1, <2>2 DEF InsideTheMap
    <3>7. \A i \in DOMAIN semMap' :
            reqId'[semMap'[i]] = i /\ pc'[semMap'[i]] \in InsideTheMap
      BY <1>3, <2>1, <2>2, <3>1
    <3>8. QED
      BY <3>3, <3>4, <3>5, <3>6, <3>7
  <2>3. CASE /\ pc[c] = "numbered" /\ pc'[c] = "registered"
             /\ requestId' = requestId /\ reqId'[c] = reqId[c]
             /\ semMap' = With(semMap, reqId[c], c)
    <3>1. \A i \in DOMAIN semMap : semMap[i] \in Callers \ {c} /\ i # reqId[c]
      <4>1. \A i \in DOMAIN semMap : semMap[i] \in Callers \ {c}
        BY <1>1, <1>3, <2>3 DEF InsideTheMap
      <4>2. QED
        BY <1>1, <1>2, <1>3, <4>1
    <3>2. /\ DOMAIN semMap' = DOMAIN semMap \cup {reqId[c]} /\ semMap'[reqId[c]] = c
          /\ \A z \in DOMAIN semMap : semMap'[z] = semMap[z]
      BY <2>3, <3>1 DEF With
    <3>3. \A d \in Callers : reqId'[d] = reqId[d]
      BY <2>1, <2>3
    <3>4. /\ \A d \in Callers : reqId'[d] = 0 <=> pc'[d] = "idle"
          /\ \A d \in Callers : reqId'[d] <= requestId'
          /\ \A d, e \in Callers : d # e /\ reqId'[d] # 0 => reqId'[d] # reqId'[e]
      BY <1>2, <2>1, <2>3, <3>3
    <3>5. \A d \in Callers : pc'[d] \in InsideTheMap
            => reqId'[d] \in DOMAIN semMap' /\ semMap'[reqId'[d]] = d
      BY <1>2, <2>1, <2>3, <3>2, <3>3
    <3>6. \A i \in DOMAIN semMap' :
            reqId'[semMap'[i]] = i /\ pc'[semMap'[i]] \in InsideTheMap
      BY <1>3, <2>1, <2>3, <3>1, <3>2 DEF InsideTheMap
    <3>7. QED
      BY <3>4, <3>5, <3>6
  <2>4. CASE /\ pc[c] \in InsideTheMap /\ pc'[c] \in {"waiting", "granted", "leaving"}
             /\ requestId' = requestId /\ reqId'[c] = reqId[c]
             /\ semMap' = semMap
    BY <1>1, <1>2, <1>3, <2>1, <2>4 DEF InsideTheMap
  <2>5. CASE /\ pc[c] = "leaving" /\ pc'[c] = "idle"
             /\ requestId' = requestId /\ reqId'[c] = 0
             /\ semMap' = Without(semMap, reqId[c])
    <3>1. /\ DOMAIN semMap' = DOMAIN semMap \ {reqId[c]}
          /\ \A z \in DOMAIN semMap \ {reqId[c]} : semMap'[z] = semMap[z]
      BY <2>5 DEF Without
    <3>2. \A i \in DOMAIN semMap \ {reqId[c]} : semMap[i] \in Callers \ {c}
      BY <1>1, <1>3
    <3>3. reqId[c] # 0 /\ \A d \in Callers \ {c} : reqId[d] # reqId[c]
      BY <1>2, <2>5
    <3>4. 0 <= requestId
      BY CallTyping
    <3>5. \A d \in Callers : reqId'[d] <= requestId'
      BY <1>2, <2>1, <2>5, <3>4
    <3>6. QED
      BY <1>2, <1>3, <2>1, <2>5, <3>1, <3>2, <3>3, <3>5 DEF InsideTheMap
  <2>6. QED
    BY <1>6, <2>2, <2>3, <2>4, <2>5, CallEffects
<1>7. QED
  BY <1>5, <1>6
-----------------------------------------------------------------------------
(* The replies: on the wire, stored, taken. *)

LEMMA CallReplies ==
    ASSUME NEW c \in Callers, SyncSend(c)
    PROVE  \/ UNCHANGED <<resultMap, consumed, dropped>>
           \/ /\ reqId[c] \in DOMAIN resultMap
              /\ consumed' = consumed \cup {<<reqId[c], resultMap[reqId[c]]>>}
              /\ resultMap' = Without(resultMap, reqId[c]) /\ dropped' = dropped
           \/ /\ pc[c] = "leaving" /\ consumed' = consumed
              /\ resultMap' = Without(resultMap, reqId[c])
              /\ dropped' = dropped \cup
                    {<<"late", resultMap[i]>> : i \in {reqId[c]} \cap DOMAIN resultMap}
<1>1. CASE BeginSync(c) \/ Register(c) \/ SendRequest(c) \/ WaitReturns(c) \/ WaitTimesOut(c)
  BY <1>1 DEF BeginSync, Register, SendRequest, WaitReturns, WaitTimesOut, mapVars
<1>2. CASE TakeResult(c)
  BY <1>2 DEF TakeResult
<1>3. CASE Leave(c)
  BY <1>3 DEF Leave
<1>4. QED
  BY <1>1, <1>2, <1>3 DEF SyncSend

LEMMA OnMsgEffects ==
    ASSUME Strung, Threads, OnMsg
    PROVE  /\ wire # <<>> /\ wire' = Tail(wire) /\ hand = <<>>
           /\ Head(wire) \in Messages /\ Tail(wire) \in Seq(Messages)
           /\ Len(wire) \in Nat \ {0} /\ Head(wire) = wire[1] /\ Len(Tail(wire)) = Len(wire) - 1
           /\ \A k \in 1..Len(Tail(wire)) : Tail(wire)[k] = wire[k + 1]
           /\ UNCHANGED <<pc, reqId, semMap, consumed, sent, inbox, arrived, batch, delivered,
                          inboxPermits>>
           /\ \/ /\ dropped' = dropped \cup {<<"short", Head(wire)>>}
                 /\ UNCHANGED <<resultMap, permits, hand>>
              \/ /\ Head(wire).id \in DOMAIN semMap /\ hand' = hand
                 /\ resultMap' = With(resultMap, Head(wire).id, Head(wire))
                 /\ permits' = [permits EXCEPT ![semMap[Head(wire).id]] = @ + 1]
                 /\ dropped' = dropped \cup {<<"again", resultMap[i]>> :
                                     i \in {Head(wire).id} \cap DOMAIN resultMap}
              \/ /\ hand' = <<Head(wire)>>
                 /\ UNCHANGED <<resultMap, permits, dropped>>
<1>1. wire # <<>> /\ wire' = Tail(wire) /\ loopPc = "poll"
  BY DEF OnMsg
<1>2. wire \in Seq(Messages) /\ hand = <<>>
  BY <1>1 DEF Strung, Threads
<1>3. /\ Head(wire) \in Messages /\ Tail(wire) \in Seq(Messages)
      /\ Len(wire) \in Nat \ {0} /\ Head(wire) = wire[1] /\ Len(Tail(wire)) = Len(wire) - 1
      /\ \A k \in 1..Len(Tail(wire)) : Tail(wire)[k] = wire[k + 1]
  BY <1>1, <1>2, HeadTailProperties, EmptySeq
<1>4. UNCHANGED <<pc, reqId, semMap, consumed, sent, inbox, arrived, batch, delivered,
                  inboxPermits>>
  BY DEF OnMsg, dispVars
<1>5. \/ /\ dropped' = dropped \cup {<<"short", Head(wire)>>}
         /\ UNCHANGED <<resultMap, permits, hand>>
      \/ /\ Head(wire).id \in DOMAIN semMap /\ hand' = hand
         /\ resultMap' = With(resultMap, Head(wire).id, Head(wire))
         /\ permits' = [permits EXCEPT ![semMap[Head(wire).id]] = @ + 1]
         /\ dropped' = dropped \cup {<<"again", resultMap[i]>> :
                             i \in {Head(wire).id} \cap DOMAIN resultMap}
      \/ /\ hand' = <<Head(wire)>>
         /\ UNCHANGED <<resultMap, permits, dropped>>
  BY DEF OnMsg, StoreReply
<1>6. QED
  BY <1>1, <1>2, <1>3, <1>4, <1>5

\* Everybody else leaves the replies that were read alone.
LEMMA OtherReplies ==
    ASSUME [Next]_vars, ~OnMsg, \A c \in Callers : ~SyncSend(c)
    PROVE  UNCHANGED <<resultMap, permits>>
  BY DEF Next, AsyncSend, Stop, OnConnection, PushInbox, DispWait, DispSwap, DispHandle,
     ServerSends, LinkDown, vars, callVars, mapVars

LEMMA NextOrphan == TypeOK /\ Strung /\ Threads /\ Calls /\ NoOrphanResult /\ [Next]_vars
                       => NoOrphanResult'
<1> SUFFICES ASSUME TypeOK, Strung, Threads, Calls, NoOrphanResult, [Next]_vars
             PROVE  NoOrphanResult'
  OBVIOUS
<1>1. DOMAIN resultMap \subseteq DOMAIN semMap
  BY DEF NoOrphanResult
<1>2. ASSUME NEW c \in Callers, SyncSend(c)
      PROVE  DOMAIN resultMap' \subseteq DOMAIN semMap'
  <2>1. CASE Leave(c)
    BY <1>1, <2>1 DEF Leave, Without
  <2>2. CASE TakeResult(c)
    BY <1>1, <2>2 DEF TakeResult, Without
  <2>3. CASE Register(c)
    BY <1>1, <2>3 DEF Register, With
  <2>4. CASE BeginSync(c) \/ SendRequest(c) \/ WaitReturns(c) \/ WaitTimesOut(c)
    BY <1>1, <2>4 DEF BeginSync, SendRequest, WaitReturns, WaitTimesOut, mapVars
  <2>5. QED
    BY <1>2, <2>1, <2>2, <2>3, <2>4 DEF SyncSend
<1>3. CASE OnMsg
  <2>1. /\ semMap' = semMap
        /\ \/ resultMap' = resultMap
           \/ /\ Head(wire).id \in DOMAIN semMap
              /\ resultMap' = With(resultMap, Head(wire).id, Head(wire))
    BY <1>3, OnMsgEffects
  <2>2. QED
    BY <1>1, <2>1 DEF NoOrphanResult, With
<1>4. CASE ~OnMsg /\ \A c \in Callers : ~SyncSend(c)
  BY <1>1, <1>4, OtherReplies, OtherSteps DEF NoOrphanResult
<1>5. QED
  BY <1>2, <1>3, <1>4 DEF NoOrphanResult

LEMMA NextOwnReply == TypeOK /\ Labels /\ OwnReply /\ [Next]_vars => OwnReply'
<1> SUFFICES ASSUME TypeOK, Labels, OwnReply, [Next]_vars PROVE OwnReply'
  OBVIOUS
<1>1. CASE consumed' = consumed
  BY <1>1 DEF OwnReply
<1>2. ASSUME NEW c \in Callers, reqId[c] \in DOMAIN resultMap,
             consumed' = consumed \cup {<<reqId[c], resultMap[reqId[c]]>>}
      PROVE  OwnReply'
  <2> DEFINE r == resultMap[reqId[c]]
  <2>1. r.id = WireId(r.src) /\ r.id = reqId[c] /\ r \in Messages
    BY <1>2 DEF Labels, Labelled, TypeOK
  <2>2. r.src \in 0..MaxId /\ MaxId \in Nat /\ IdLimit \in Nat
    BY <2>1, ClientAssumption DEF Messages
  <2>3. WireId(r.src) < IdLimit /\ (r.src < IdLimit => WireId(r.src) = r.src)
    BY <2>2, WireIdFits
  <2>4. reqId[c] < IdLimit /\ (r.src = reqId[c] \/ r.src >= IdLimit)
    BY <2>1, <2>2, <2>3
  <2> HIDE DEF r
  <2>5. \A p \in consumed' : p \in consumed \/ p = <<reqId[c], r>>
    BY <1>2 DEF r
  <2>6. QED
    BY <2>4, <2>5 DEF OwnReply
<1>3. CASE \E c \in Callers : SyncSend(c)
  BY <1>1, <1>2, <1>3, CallReplies
<1>4. CASE \A c \in Callers : ~SyncSend(c)
  BY <1>1, <1>4, OtherSteps
<1>5. QED
  BY <1>3, <1>4
LEMMA NextLabels == TypeOK /\ Strung /\ Threads /\ Labels /\ [Next]_vars => Labels'
<1> SUFFICES ASSUME TypeOK, Strung, Threads, Labels, [Next]_vars PROVE Labels'
  OBVIOUS
<1>1. /\ sent \in 0..MaxMsgs /\ sent \in Nat
      /\ \A k \in 1..Len(wire) : wire[k].n \in 1..sent /\ wire[k].id = WireId(wire[k].src)
      /\ \A i \in DOMAIN resultMap : /\ resultMap[i].n \in 1..sent /\ resultMap[i].id = i
                                     /\ resultMap[i].id = WireId(resultMap[i].src)
  BY DEF TypeOK, Labels, Labelled
<1> DEFINE LabelsAfter ==
      /\ \A k \in 1..Len(wire') : wire'[k].n \in 1..sent' /\ wire'[k].id = WireId(wire'[k].src)
      /\ \A i \in DOMAIN resultMap' : /\ resultMap'[i].n \in 1..sent' /\ resultMap'[i].id = i
                                      /\ resultMap'[i].id = WireId(resultMap'[i].src)
<1>2. SUFFICES LabelsAfter
  BY DEF Labels, Labelled
<1>3. CASE UNCHANGED <<wire, resultMap, sent>>
  BY <1>1, <1>3
<1>4. ASSUME NEW c \in Callers, SyncSend(c)
      PROVE  LabelsAfter
  <2>1. wire' = wire /\ sent' = sent
    BY <1>4, CallerSteps
  <2>2. CASE resultMap' = resultMap
    BY <1>1, <2>1, <2>2
  <2>3. CASE resultMap' = Without(resultMap, reqId[c])
    BY <1>1, <2>1, <2>3 DEF Without
  <2>4. QED
    BY <1>4, <2>2, <2>3, CallReplies
<1>5. CASE OnMsg
  <2>1. /\ wire' = Tail(wire) /\ Head(wire) = wire[1] /\ Len(wire) \in Nat \ {0}
        /\ Len(Tail(wire)) = Len(wire) - 1 /\ sent' = sent
        /\ \A k \in 1..Len(Tail(wire)) : Tail(wire)[k] = wire[k + 1]
        /\ resultMap' = resultMap \/ resultMap' = With(resultMap, Head(wire).id, Head(wire))
    BY <1>5, OnMsgEffects
  <2>2. 1 \in 1..Len(wire) /\ \A k \in 1..Len(Tail(wire)) : k + 1 \in 1..Len(wire)
    BY <2>1
  <2>3. \A k \in 1..Len(wire') : wire'[k].n \in 1..sent' /\ wire'[k].id = WireId(wire'[k].src)
    BY <1>1, <2>1, <2>2
  <2>4. Head(wire).n \in 1..sent /\ Head(wire).id = WireId(Head(wire).src)
    BY <1>1, <2>1, <2>2
  <2>5. CASE resultMap' = resultMap
    BY <1>1, <2>1, <2>3, <2>5
  <2>6. CASE resultMap' = With(resultMap, Head(wire).id, Head(wire))
    <3> DEFINE m == Head(wire)
    <3>1. /\ DOMAIN resultMap' = DOMAIN resultMap \cup {m.id} /\ resultMap'[m.id] = m
          /\ \A z \in DOMAIN resultMap \ {m.id} : resultMap'[z] = resultMap[z]
      BY <2>6 DEF With
    <3>2. m.n \in 1..sent /\ m.id = WireId(m.src)
      BY <2>4
    <3> HIDE DEF m
    <3>3. QED
      BY <1>1, <2>1, <2>3, <3>1, <3>2
  <2>7. QED
    BY <2>1, <2>5, <2>6
<1>6. CASE ServerSends
  <2>1. PICK i \in asked \cup {0}, b \in BOOLEAN :
          wire' = Append(wire, [n |-> sent + 1, src |-> i, id |-> WireId(i), short |-> b])
    BY <1>6 DEF ServerSends
  <2> DEFINE m == [n |-> sent + 1, src |-> i, id |-> WireId(i), short |-> b]
  <2>2. sent' = sent + 1 /\ resultMap' = resultMap /\ 1..sent \subseteq 1..sent'
        /\ sent + 1 \in 1..sent'
    BY <1>1, <1>6 DEF ServerSends, mapVars
  <2>3. /\ wire \in Seq(Messages) /\ Len(wire) \in Nat /\ Len(wire') = Len(wire) + 1
        /\ \A k \in 1..Len(wire) : wire'[k] = wire[k]
        /\ wire'[Len(wire) + 1] = m
    <3>1. wire \in Seq(Messages) /\ wire' \in Seq(Messages)
      BY NextStrung DEF Strung
    <3>2. Len(wire) \in Nat /\ Len(wire') = Len(wire) + 1
      BY <2>1, <3>1, LenProperties
    <3>3. QED
      BY <2>1, <3>1, <3>2
  <2>4. m.n = sent + 1 /\ m.id = WireId(m.src)
    OBVIOUS
  <2> HIDE DEF m
  <2>5. \A k \in 1..Len(wire') : k \in 1..Len(wire) \/ k = Len(wire) + 1
    BY <2>3
  <2>6. \A k \in 1..Len(wire') : wire'[k].n \in 1..sent' /\ wire'[k].id = WireId(wire'[k].src)
    BY <1>1, <2>2, <2>3, <2>4, <2>5
  <2>7. QED
    BY <1>1, <2>2, <2>6
<1>7. CASE LinkDown
  <2>1. wire' = <<>> /\ sent' = sent /\ resultMap' = resultMap
    BY <1>7 DEF LinkDown, mapVars
  <2>2. 1..Len(wire') = {}
    BY <2>1, EmptySeq
  <2>3. QED
    BY <1>1, <2>1, <2>2
<1>8. CASE AsyncSend \/ Stop \/ OnConnection \/ PushInbox \/ DispWait \/ DispSwap \/ DispHandle
           \/ UNCHANGED vars
  BY <1>3, <1>8 DEF AsyncSend, Stop, OnConnection, PushInbox, DispWait, DispSwap, DispHandle,
     vars, mapVars, linkVars
<1>9. QED
  BY <1>4, <1>5, <1>6, <1>7, <1>8 DEF Next

\* What a step does to the permits of one caller.
LEMMA PermitsTyped ==
    ASSUME TypeOK
    PROVE  /\ DOMAIN permits = Callers /\ \A c \in Callers : permits[c] \in Nat
           /\ sent \in Nat
  BY ClientAssumption DEF TypeOK

LEMMA NextPermits == TypeOK /\ Strung /\ Threads /\ Calls /\ NoDanglingSemaphore
                     /\ NoOrphanResult /\ Permits /\ [Next]_vars
                        => Permits' /\ permits' \in [Callers -> Nat]
<1> SUFFICES ASSUME TypeOK, Strung, Threads, Calls, NoDanglingSemaphore, NoOrphanResult,
                    Permits, [Next]_vars
             PROVE  Permits' /\ permits' \in [Callers -> Nat]
  OBVIOUS
<1>1. /\ permits \in [Callers -> Nat] /\ sent \in Nat /\ Len(wire) \in Nat
  <2>1. permits \in [Callers -> 0..MaxMsgs] /\ sent \in 0..MaxMsgs /\ MaxMsgs \in Nat
    BY ClientAssumption DEF TypeOK
  <2>2. wire \in Seq(Messages)
    BY DEF Strung
  <2>3. QED
    BY <2>1, <2>2, LenProperties
<1>2. /\ \A c \in Callers : permits[c] + Len(wire) <= sent
      /\ \A c \in Callers : pc[c] \in {"registered", "waiting"} /\ reqId[c] \in DOMAIN resultMap
            => permits[c] > 0
  BY DEF Permits
<1> DEFINE Fair == /\ \A c \in Callers : permits'[c] + Len(wire') <= sent'
                   /\ \A c \in Callers :
                         pc'[c] \in {"registered", "waiting"} /\ reqId'[c] \in DOMAIN resultMap'
                             => permits'[c] > 0
                   /\ permits' \in [Callers -> Nat]
<1>3. SUFFICES Fair
  BY DEF Permits
<1>4. ASSUME NEW c \in Callers, SyncSend(c)
      PROVE  Fair
  <2>1. wire' = wire /\ sent' = sent
    BY <1>4, CallerSteps
  <2>2. \A d \in Callers \ {c} : pc'[d] = pc[d] /\ reqId'[d] = reqId[d]
    BY <1>4, CallEffects
  <2>3. DOMAIN resultMap' \subseteq DOMAIN resultMap
    BY <1>4, CallReplies DEF Without
  <2>4. CASE BeginSync(c) \/ TakeResult(c)
    <3>1. permits' = permits /\ pc'[c] \in {"numbered", "leaving"}
      BY <2>4, CallTyping DEF BeginSync, TakeResult, Goto
    <3>2. QED
      BY <1>1, <1>2, <2>1, <2>2, <2>3, <3>1
  <2>5. CASE Register(c)
    <3>1. permits' = permits /\ pc[c] = "numbered" /\ reqId' = reqId
      BY <2>5 DEF Register
    <3>2. reqId[c] \notin DOMAIN semMap
      BY <3>1, CallTyping DEF NoDanglingSemaphore, Calls
    <3>3. reqId[c] \notin DOMAIN resultMap'
      BY <2>3, <3>2 DEF NoOrphanResult
    <3>4. QED
      BY <1>1, <1>2, <2>1, <2>2, <2>3, <3>1, <3>3
  <2>6. CASE SendRequest(c)
    <3>1. permits' = permits /\ pc[c] = "registered" /\ reqId' = reqId
      BY <2>6 DEF SendRequest
    <3>2. QED
      BY <1>1, <1>2, <2>1, <2>2, <2>3, <3>1
  <2>7. CASE WaitReturns(c)
    <3>1. /\ permits' = [permits EXCEPT ![c] =
                            IF permits[c] > 0 THEN permits[c] - 1 ELSE permits[c]]
          /\ pc'[c] = "granted"
      BY <2>7, CallTyping DEF WaitReturns, Goto
    <3>2. /\ permits'[c] \in Nat /\ permits'[c] <= permits[c]
          /\ \A d \in Callers \ {c} : permits'[d] = permits[d]
          /\ permits' \in [Callers -> Nat]
      BY <1>1, <3>1
    <3>3. \A d \in Callers : permits'[d] + Len(wire') <= sent'
      BY <1>1, <1>2, <2>1, <3>2
    <3>4. QED
      BY <1>2, <2>2, <2>3, <3>1, <3>2, <3>3
  <2>8. CASE WaitTimesOut(c)
    <3>1. permits' = permits /\ pc'[c] = "leaving"
      BY <2>8, CallTyping DEF WaitTimesOut, Goto
    <3>2. QED
      BY <1>1, <1>2, <2>1, <2>2, <2>3, <3>1
  <2>9. CASE Leave(c)
    <3>1. permits' = [permits EXCEPT ![c] = 0] /\ pc'[c] = "idle"
      BY <2>9, CallTyping DEF Leave, Goto
    <3>2. /\ permits'[c] = 0 /\ 0 <= permits[c]
          /\ \A d \in Callers \ {c} : permits'[d] = permits[d]
          /\ permits' \in [Callers -> Nat]
      BY <1>1, <3>1
    <3>3. \A d \in Callers : permits'[d] + Len(wire') <= sent'
      BY <1>1, <1>2, <2>1, <3>2
    <3>4. QED
      BY <1>2, <2>2, <2>3, <3>1, <3>2, <3>3
  <2>10. QED
    BY <1>4, <2>4, <2>5, <2>6, <2>7, <2>8, <2>9 DEF SyncSend
<1>5. CASE OnMsg
  <2>1. /\ wire' = Tail(wire) /\ Len(wire') = Len(wire) - 1 /\ sent' = sent
        /\ pc' = pc /\ reqId' = reqId /\ Len(wire) \in Nat \ {0}
    BY <1>5, OnMsgEffects
  <2>2. CASE permits' = permits /\ resultMap' = resultMap
    BY <1>1, <1>2, <2>1, <2>2
  <2> DEFINE i == Head(wire).id
  <2>3. CASE /\ i \in DOMAIN semMap
             /\ resultMap' = With(resultMap, i, Head(wire))
             /\ permits' = [permits EXCEPT ![semMap[i]] = @ + 1]
    <3> DEFINE d == semMap[i]
    <3>1. d \in Callers
      BY <2>3, CallTyping
    <3>2. DOMAIN resultMap' = DOMAIN resultMap \cup {i}
      BY <2>3 DEF With
    <3>3. \A c \in Callers : pc[c] \in {"registered", "waiting"} /\ reqId[c] = i => c = d
      BY DEF Calls, InsideTheMap
    <3> HIDE DEF d, i
    <3>4. permits' = [permits EXCEPT ![d] = @ + 1]
      BY <2>3 DEF d, i
    <3>5. /\ permits' \in [Callers -> Nat] /\ permits'[d] = permits[d] + 1
          /\ \A c \in Callers \ {d} : permits'[c] = permits[c]
      BY <1>1, <3>1, <3>4
    <3>6. \A c \in Callers : permits'[c] + Len(wire') <= sent'
      BY <1>1, <1>2, <2>1, <3>1, <3>5, SMTT(30)
    <3>7. permits'[d] > 0
      BY <1>1, <3>1, <3>5
    <3>8. QED
      BY <1>2, <2>1, <3>2, <3>3, <3>5, <3>6, <3>7
  <2>4. QED
    BY <1>5, <2>2, <2>3, OnMsgEffects
<1>6. CASE ~OnMsg /\ \A c \in Callers : ~SyncSend(c)
  <2>1. UNCHANGED <<resultMap, permits, pc, reqId>>
    BY <1>6, OtherReplies, OtherSteps
  <2>2. sent' \in Nat /\ Len(wire') - sent' <= Len(wire) - sent /\ Len(wire') \in Nat
        /\ Len(wire) + sent' >= Len(wire') + sent
    <3>1. CASE ServerSends
      <4>1. sent' = sent + 1 /\ \E m \in Messages : wire' = Append(wire, m)
        <5>1. PICK i \in asked \cup {0}, b \in BOOLEAN :
                wire' = Append(wire, [n |-> sent + 1, src |-> i, id |-> WireId(i), short |-> b])
          BY <3>1 DEF ServerSends
        <5>2. sent + 1 \in 0..MaxMsgs /\ i \in 0..MaxId
          BY <3>1, ClientAssumption DEF ServerSends, TypeOK, Ids
        <5>3. [n |-> sent + 1, src |-> i, id |-> WireId(i), short |-> b] \in Messages
          BY <5>2, WireIdFits DEF Messages
        <5>4. QED
          BY <3>1, <5>1, <5>3 DEF ServerSends
      <4>2. Len(wire') = Len(wire) + 1
        BY <4>1, AppendProperties DEF Strung
      <4>3. QED
        BY <1>1, <4>1, <4>2
    <3>2. CASE LinkDown
      <4>1. Len(wire') = 0 /\ sent' = sent
        BY <3>2, EmptySeq DEF LinkDown
      <4>2. QED
        BY <1>1, <4>1
    <3>3. CASE ~ServerSends /\ ~LinkDown
      <4>1. wire' = wire /\ sent' = sent
        BY <1>6, <3>3 DEF Next, AsyncSend, Stop, OnConnection, PushInbox, DispWait, DispSwap,
           DispHandle, vars, linkVars
      <4>2. QED
        BY <1>1, <4>1
    <3>4. QED
      BY <3>1, <3>2, <3>3
  <2>3. \A c \in Callers : permits'[c] + Len(wire') <= sent'
    BY <1>1, <1>2, <2>1, <2>2
  <2>4. QED
    BY <1>1, <1>2, <2>1, <2>3
<1>7. QED
  BY <1>4, <1>5, <1>6
LEMMA NextQueued == Strung /\ Threads /\ TypeOK /\ Queued /\ [Next]_vars
                        => Queued' /\ inboxPermits' \in Nat
<1> SUFFICES ASSUME Strung, Threads, TypeOK, Queued, [Next]_vars
             PROVE  Queued' /\ inboxPermits' \in Nat
  OBVIOUS
<1>1. /\ wire \in Seq(Messages) /\ hand \in Seq(Messages) /\ arrived \in Seq(Messages)
      /\ Len(wire) \in Nat /\ Len(hand) \in Nat /\ Len(arrived) \in Nat
  <2>1. wire \in Seq(Messages) /\ hand \in Seq(Messages) /\ arrived \in Seq(Messages)
    BY DEF Strung
  <2>2. QED
    BY <2>1, LenProperties
<1>2. inboxPermits \in Nat /\ sent \in Nat
  BY ClientAssumption DEF TypeOK
<1> DEFINE extra == IF Marked THEN 1 ELSE 0
           extra2 == IF Marked' THEN 1 ELSE 0
<1>3. inboxPermits <= Len(arrived) /\ Len(arrived) + Len(hand) + Len(wire) <= sent + extra
  BY DEF Queued
<1>4. extra \in {0, 1} /\ extra2 \in {0, 1}
  OBVIOUS
<1>5. (Marked => Marked') => extra <= extra2
  OBVIOUS
<1>6. SUFFICES /\ inboxPermits' \in Nat /\ inboxPermits' <= Len(arrived')
               /\ Len(arrived') + Len(hand') + Len(wire') <= sent' + extra2
  BY DEF Queued
<1>7. CASE UNCHANGED <<hand, arrived>>
  <2>1. Marked <=> Marked'
    BY <1>7 DEF Marked
  <2> HIDE DEF extra, extra2
  <2>2. extra <= extra2
    BY <1>5, <2>1
  <2>3. CASE UNCHANGED <<wire, sent, inboxPermits>>
    BY <1>1, <1>2, <1>3, <1>4, <1>7, <2>2, <2>3
  <2>4. CASE OnMsg
    <3>1. /\ wire' = Tail(wire) /\ Len(Tail(wire)) = Len(wire) - 1
          /\ sent' = sent /\ inboxPermits' = inboxPermits
      BY <2>4, OnMsgEffects
    <3>2. Len(wire') = Len(wire) - 1 /\ sent' = sent /\ inboxPermits' = inboxPermits
      BY <3>1
    <3>3. QED
      BY <1>1, <1>2, <1>3, <1>4, <1>7, <2>2, <3>2
  <2>5. CASE DispWait
    <3>1. /\ inboxPermits' = IF running /\ inboxPermits > 0 THEN inboxPermits - 1
                             ELSE inboxPermits
          /\ wire' = wire /\ sent' = sent
      BY <2>5 DEF DispWait, linkVars
    <3>2. inboxPermits' \in Nat /\ inboxPermits' <= inboxPermits
      <4>1. CASE running /\ inboxPermits > 0
        BY <1>2, <3>1, <4>1
      <4>2. CASE ~(running /\ inboxPermits > 0)
        BY <1>2, <3>1, <4>2
      <4>3. QED
        BY <4>1, <4>2
    <3>3. QED
      BY <1>1, <1>2, <1>3, <1>4, <1>7, <2>2, <3>1, <3>2
  <2>6. CASE ServerSends
    <3>1. PICK i \in asked \cup {0}, b \in BOOLEAN :
            wire' = Append(wire, [n |-> sent + 1, src |-> i, id |-> WireId(i), short |-> b])
      BY <2>6 DEF ServerSends
    <3>2. Len(wire') = Len(wire) + 1
      BY <1>1, <3>1
    <3>3. sent' = sent + 1 /\ inboxPermits' = inboxPermits
      BY <2>6 DEF ServerSends, loopVars
    <3>4. QED
      BY <1>1, <1>2, <1>3, <1>4, <1>7, <2>2, <3>2, <3>3
  <2>7. CASE LinkDown
    <3>1. Len(wire') = 0 /\ sent' = sent /\ inboxPermits' = inboxPermits
      BY <2>7, EmptySeq DEF LinkDown, loopVars
    <3>2. QED
      BY <1>1, <1>2, <1>3, <1>4, <1>7, <2>2, <3>1
  <2>8. CASE \E c \in Callers : SyncSend(c)
    BY <2>3, <2>8, CallerSteps DEF loopVars
  <2>9. CASE AsyncSend \/ Stop \/ DispSwap \/ DispHandle \/ UNCHANGED vars
    BY <2>3, <2>9 DEF AsyncSend, Stop, DispSwap, DispHandle, vars, loopVars, linkVars
  <2>10. CASE OnConnection \/ PushInbox
    <3>1. OnConnection => hand = <<>> /\ hand' # <<>>
      <4>1. OnConnection => hand = <<>> /\ hand' = <<ConnMark>>
        BY DEF OnConnection, Threads
      <4>2. <<ConnMark>> # <<>>
        OBVIOUS
      <4>3. QED
        BY <4>1, <4>2
    <3>2. PushInbox => hand' = <<>> /\ Len(hand) = 1
      BY DEF PushInbox, Threads
    <3>3. QED
      BY <1>7, <2>10, <3>1, <3>2, EmptySeq
  <2>11. QED
    BY <2>4, <2>5, <2>6, <2>7, <2>8, <2>9, <2>10 DEF Next
<1>8. CASE OnMsg
  <2>1. /\ Len(wire') = Len(wire) - 1 /\ sent' = sent /\ inboxPermits' = inboxPermits
        /\ arrived' = arrived /\ hand = <<>>
        /\ hand' = hand \/ hand' = <<Head(wire)>>
    BY <1>8, OnMsgEffects
  <2>2. CASE hand' = hand
    BY <1>7, <2>1, <2>2
  <2>3. CASE hand' = <<Head(wire)>>
    <3>1. Len(hand') = 1 /\ Len(hand) = 0
      BY <2>1, <2>3, EmptySeq
    <3>2. <<ConnMark>> # <<>>
      OBVIOUS
    <3>3. Marked => Marked'
      BY <2>1, <3>2 DEF Marked
    <3> HIDE DEF extra, extra2
    <3>4. QED
      BY <1>1, <1>2, <1>3, <1>4, <1>5, <2>1, <3>1, <3>3
  <2>4. QED
    BY <2>1, <2>2, <2>3
<1>9. CASE OnConnection
  <2>1. /\ hand = <<>> /\ hand' = <<ConnMark>> /\ arrived' = arrived
        /\ wire' = wire /\ sent' = sent /\ inboxPermits' = inboxPermits
    BY <1>9 DEF OnConnection, Threads
  <2>2. \A k \in 1..Len(arrived) : arrived[k] # ConnMark
    BY <1>9 DEF OnConnection
  <2>3. <<ConnMark>> # <<>> /\ Len(hand') = 1 /\ Len(hand) = 0
    BY <2>1, EmptySeq
  <2>4. ~Marked /\ Marked'
    BY <2>1, <2>2, <2>3 DEF Marked
  <2>5. extra = 0 /\ extra2 = 1
    BY <2>4
  <2> HIDE DEF extra, extra2
  <2>6. QED
    BY <1>1, <1>2, <1>3, <2>1, <2>3, <2>5
<1>10. CASE PushInbox
  <2>1. /\ Len(hand) = 1 /\ hand' = <<>> /\ arrived' = arrived \o hand
        /\ inboxPermits' = inboxPermits + 1 /\ wire' = wire /\ sent' = sent
    BY <1>10 DEF PushInbox, Threads, linkVars
  <2>2. arrived' = Append(arrived, hand[1]) /\ hand[1] \in Messages /\ hand = <<hand[1]>>
    BY <1>1, <2>1, SingleAppend
  <2>3. /\ Len(arrived') = Len(arrived) + 1 /\ arrived'[Len(arrived) + 1] = hand[1]
        /\ \A k \in 1..Len(arrived) : arrived'[k] = arrived[k]
    BY <1>1, <2>2, AppendProperties
  <2>4. Marked => Marked'
    <3>1. CASE hand = <<ConnMark>>
      <4>1. hand[1] = ConnMark /\ Len(arrived) + 1 \in 1..Len(arrived')
        BY <1>1, <2>3, <3>1
      <4>2. QED
        BY <2>3, <4>1 DEF Marked
    <3>2. CASE \E k \in 1..Len(arrived) : arrived[k] = ConnMark
      <4>1. \A k \in 1..Len(arrived) : k \in 1..Len(arrived')
        BY <1>1, <2>3
      <4>2. QED
        BY <2>3, <3>2, <4>1 DEF Marked
    <3>3. QED
      BY <3>1, <3>2 DEF Marked
  <2>5. Len(hand') = 0
    BY <2>1, EmptySeq
  <2> HIDE DEF extra, extra2
  <2>6. QED
    BY <1>1, <1>2, <1>3, <1>4, <1>5, <2>1, <2>3, <2>4, <2>5
<1>11. CASE ~OnMsg /\ ~OnConnection /\ ~PushInbox
  <2>1. UNCHANGED <<hand, arrived>>
    <3>1. CASE \E c \in Callers : SyncSend(c)
      BY <3>1, CallerSteps DEF loopVars
    <3>2. CASE \A c \in Callers : ~SyncSend(c)
      BY <1>11, <3>2 DEF Next, AsyncSend, Stop, DispWait, DispSwap, DispHandle, ServerSends,
         LinkDown, vars, loopVars
    <3>3. QED
      BY <3>1, <3>2
  <2>2. QED
    BY <1>7, <2>1
<1>12. QED
  BY <1>8, <1>9, <1>10, <1>11
-----------------------------------------------------------------------------
(* The values the state takes. *)

LEMMA NextCallsTyped ==
    TypeOK /\ Calls /\ [Next]_vars
        => /\ requestId' \in 0..MaxId /\ asked' \subseteq Ids
           /\ pc' \in [Callers ->
                        {"idle", "numbered", "registered", "waiting", "granted", "leaving"}]
           /\ reqId' \in [Callers -> 0..MaxId]
           /\ outcome' \in [Callers -> {"none", "ok", "empty", "timeout", "error"}]
<1> DEFINE Pcs == {"idle", "numbered", "registered", "waiting", "granted", "leaving"}
           Outcomes == {"none", "ok", "empty", "timeout", "error"}
           Typed == /\ requestId' \in 0..MaxId /\ asked' \subseteq Ids
                    /\ pc' \in [Callers -> Pcs] /\ reqId' \in [Callers -> 0..MaxId]
                    /\ outcome' \in [Callers -> Outcomes]
<1> SUFFICES ASSUME TypeOK, Calls, [Next]_vars PROVE Typed
  OBVIOUS
<1>1. /\ requestId \in 0..MaxId /\ asked \subseteq Ids /\ MaxId \in Nat
      /\ pc \in [Callers -> Pcs] /\ reqId \in [Callers -> 0..MaxId]
      /\ outcome \in [Callers -> Outcomes]
  BY ClientAssumption DEF TypeOK
<1>2. ASSUME NEW c \in Callers, SyncSend(c)
      PROVE  Typed
  <2>1. CASE BeginSync(c)
    <3>1. requestId + 1 \in 0..MaxId
      BY <1>1, <2>1 DEF BeginSync
    <3>2. /\ requestId' = requestId + 1 /\ reqId' = [reqId EXCEPT ![c] = requestId + 1]
          /\ pc' = [pc EXCEPT ![c] = "numbered"] /\ asked' = asked /\ outcome' = outcome
      BY <2>1 DEF BeginSync, Goto, linkVars
    <3>3. QED
      BY <1>1, <3>1, <3>2
  <2>2. CASE Register(c)
    <3>1. /\ UNCHANGED <<requestId, reqId, asked, outcome>>
          /\ pc' = [pc EXCEPT ![c] = "registered"]
      BY <2>2 DEF Register, Goto, linkVars
    <3>2. QED
      BY <1>1, <3>1
  <2>3. CASE SendRequest(c)
    <3>1. /\ UNCHANGED <<requestId, reqId>>
          /\ \/ /\ asked' = asked \cup {reqId[c]} /\ pc' = [pc EXCEPT ![c] = "waiting"]
                /\ outcome' = outcome
             \/ /\ asked' = asked /\ pc' = [pc EXCEPT ![c] = "leaving"]
                /\ outcome' = [outcome EXCEPT ![c] = "error"]
      BY <2>3 DEF SendRequest, Goto
    <3>2. reqId[c] \in Ids
      \* A caller that sends has an id.
      <4>1. reqId[c] # 0
        BY <2>3 DEF SendRequest, Calls
      <4>2. QED
        BY <1>1, <4>1 DEF Ids
    <3>3. QED
      BY <1>1, <3>1, <3>2
  <2>4. CASE WaitReturns(c)
    <3>1. /\ UNCHANGED <<requestId, reqId, asked, outcome>>
          /\ pc' = [pc EXCEPT ![c] = "granted"]
      BY <2>4 DEF WaitReturns, Goto, linkVars
    <3>2. QED
      BY <1>1, <3>1
  <2>5. CASE WaitTimesOut(c)
    <3>1. /\ UNCHANGED <<requestId, reqId, asked>>
          /\ pc' = [pc EXCEPT ![c] = "leaving"] /\ outcome' = [outcome EXCEPT ![c] = "timeout"]
      BY <2>5 DEF WaitTimesOut, Goto, linkVars
    <3>2. QED
      BY <1>1, <3>1
  <2>6. CASE TakeResult(c)
    <3>1. /\ UNCHANGED <<requestId, reqId, asked>>
          /\ pc' = [pc EXCEPT ![c] = "leaving"]
          /\ outcome' = [outcome EXCEPT ![c] = "ok"] \/ outcome' = [outcome EXCEPT ![c] = "empty"]
      BY <2>6 DEF TakeResult, Goto, linkVars
    <3>2. QED
      BY <1>1, <3>1
  <2>7. CASE Leave(c)
    <3>1. /\ UNCHANGED <<requestId, asked>>
          /\ pc' = [pc EXCEPT ![c] = "idle"] /\ reqId' = [reqId EXCEPT ![c] = 0]
          /\ outcome' = [outcome EXCEPT ![c] = "none"]
      BY <2>7 DEF Leave, Goto, linkVars
    <3>2. QED
      BY <1>1, <3>1
  <2>8. QED
    BY <1>2, <2>1, <2>2, <2>3, <2>4, <2>5, <2>6, <2>7 DEF SyncSend
<1>3. CASE \A c \in Callers : ~SyncSend(c)
  <2>1. UNCHANGED <<pc, reqId, outcome>> /\ requestId' \in 0..MaxId
    BY <1>3, OtherSteps
  <2>2. asked' \subseteq Ids
    <3>1. CASE AsyncSend
      <4>1. requestId + 1 \in Ids
        BY <1>1, <3>1 DEF AsyncSend, Ids
      <4>2. QED
        BY <1>1, <3>1, <4>1 DEF AsyncSend
    <3>2. CASE ~AsyncSend
      BY <1>1, <1>3, <3>2 DEF Next, Stop, OnMsg, OnConnection, PushInbox, DispWait, DispSwap,
         DispHandle, ServerSends, LinkDown, vars, linkVars
    <3>3. QED
      BY <3>1, <3>2
  <2>3. QED
    BY <1>1, <2>1, <2>2
<1>4. QED
  BY <1>2, <1>3

LEMMA NextMapsTyped ==
    TypeOK /\ Strung /\ Threads /\ Calls /\ [Next]_vars
        => /\ semMap' \in UNION {[D -> Callers] : D \in SUBSET Ids}
           /\ DOMAIN resultMap' \subseteq Ids
           /\ \A i \in DOMAIN resultMap' : resultMap'[i] \in Messages
<1> SUFFICES ASSUME TypeOK, Strung, Threads, Calls, [Next]_vars
             PROVE  /\ semMap' \in UNION {[D -> Callers] : D \in SUBSET Ids}
                    /\ DOMAIN resultMap' \subseteq Ids
                    /\ \A i \in DOMAIN resultMap' : resultMap'[i] \in Messages
  OBVIOUS
<1>1. PICK D \in SUBSET Ids : semMap \in [D -> Callers]
  BY DEF TypeOK
<1>2. /\ DOMAIN resultMap \subseteq Ids
      /\ \A i \in DOMAIN resultMap : resultMap[i] \in Messages
  BY DEF TypeOK
<1>3. semMap' \in UNION {[E -> Callers] : E \in SUBSET Ids}
  <2>1. CASE semMap' = semMap
    BY <1>1, <2>1
  <2>2. ASSUME NEW c \in Callers, pc[c] = "numbered", semMap' = With(semMap, reqId[c], c)
        PROVE  \E E \in SUBSET Ids : semMap' \in [E -> Callers]
    <3>1. reqId[c] \in Ids
      BY <2>2, CallTyping DEF Calls, Ids
    <3>2. D \cup {reqId[c]} \in SUBSET Ids
      BY <3>1
    <3>3. semMap' \in [D \cup {reqId[c]} -> Callers]
      BY <1>1, <2>2 DEF With
    <3>4. QED
      BY <3>2, <3>3
  <2>3. ASSUME NEW c \in Callers, semMap' = Without(semMap, reqId[c])
        PROVE  \E E \in SUBSET Ids : semMap' \in [E -> Callers]
    <3>1. D \ {reqId[c]} \in SUBSET Ids
      OBVIOUS
    <3>2. semMap' \in [D \ {reqId[c]} -> Callers]
      BY <1>1, <2>3 DEF Without
    <3>3. QED
      BY <3>1, <3>2
  <2>4. CASE \E c \in Callers : SyncSend(c)
    BY <2>1, <2>2, <2>3, <2>4, CallEffects
  <2>5. CASE \A c \in Callers : ~SyncSend(c)
    BY <2>1, <2>5, OtherSteps
  <2>6. QED
    BY <2>4, <2>5
<1> DEFINE ResultsTyped == /\ DOMAIN resultMap' \subseteq Ids
                           /\ \A i \in DOMAIN resultMap' : resultMap'[i] \in Messages
<1>4. ResultsTyped
  <2>1. CASE resultMap' = resultMap
    BY <1>2, <2>1
  <2>2. ASSUME NEW c \in Callers, resultMap' = Without(resultMap, reqId[c])
        PROVE  ResultsTyped
    BY <1>2, <2>2 DEF Without
  <2>3. ASSUME NEW m \in Messages, m.id \in DOMAIN semMap, resultMap' = With(resultMap, m.id, m)
        PROVE  ResultsTyped
    <3>1. m.id \in Ids
      BY <1>1, <2>3
    <3>2. QED
      BY <1>2, <2>3, <3>1 DEF With
  <2>4. CASE \E c \in Callers : SyncSend(c)
    BY <2>1, <2>2, <2>4, CallReplies
  <2>5. CASE OnMsg
    BY <2>1, <2>3, <2>5, OnMsgEffects
  <2>6. CASE ~OnMsg /\ \A c \in Callers : ~SyncSend(c)
    BY <2>1, <2>6, OtherReplies
  <2>7. QED
    BY <2>4, <2>5, <2>6
<1>5. QED
  BY <1>3, <1>4

LEMMA NextThreadsTyped ==
    TypeOK /\ [Next]_vars
        => /\ loopPc' \in {"poll", "push"} /\ disp' \in {"wait", "swap", "handle", "stopped"}
           /\ running' \in BOOLEAN /\ connected' \in BOOLEAN /\ linked' \in BOOLEAN
           /\ sent' \in 0..MaxMsgs
<1> DEFINE Typed == /\ loopPc' \in {"poll", "push"}
                    /\ disp' \in {"wait", "swap", "handle", "stopped"}
                    /\ running' \in BOOLEAN /\ connected' \in BOOLEAN /\ linked' \in BOOLEAN
                    /\ sent' \in 0..MaxMsgs
<1> SUFFICES ASSUME TypeOK, [Next]_vars PROVE Typed
  OBVIOUS
<1>1. /\ loopPc \in {"poll", "push"} /\ disp \in {"wait", "swap", "handle", "stopped"}
      /\ running \in BOOLEAN /\ connected \in BOOLEAN /\ linked \in BOOLEAN
      /\ sent \in 0..MaxMsgs /\ MaxMsgs \in Nat
  BY ClientAssumption DEF TypeOK
<1>2. CASE \E c \in Callers : SyncSend(c)
  BY <1>1, <1>2, CallerSteps DEF loopVars, dispVars
<1>3. CASE AsyncSend \/ UNCHANGED vars
  BY <1>1, <1>3 DEF AsyncSend, vars, loopVars, dispVars, linkVars
<1>4. CASE Stop \/ OnConnection
  BY <1>1, <1>4 DEF Stop, OnConnection, loopVars, dispVars
<1>5. CASE OnMsg \/ PushInbox
  BY <1>1, <1>5 DEF OnMsg, PushInbox, dispVars, linkVars
<1>6. CASE DispWait \/ DispSwap \/ DispHandle
  BY <1>1, <1>6 DEF DispWait, DispSwap, DispHandle, loopVars, linkVars
<1>7. CASE ServerSends
  <2>1. sent + 1 \in 0..MaxMsgs /\ sent' = sent + 1
    BY <1>1, <1>7 DEF ServerSends
  <2>2. QED
    BY <1>1, <1>7, <2>1 DEF ServerSends, loopVars, dispVars
<1>8. CASE LinkDown
  BY <1>1, <1>8 DEF LinkDown, loopVars, dispVars
<1>9. QED
  BY <1>2, <1>3, <1>4, <1>5, <1>6, <1>7, <1>8 DEF Next
LEMMA NextTyping == IInv /\ [Next]_vars => TypeOK'
<1> SUFFICES ASSUME IInv, [Next]_vars PROVE TypeOK'
  OBVIOUS
<1>1. /\ Strung' /\ Threads' /\ Permits' /\ permits' \in [Callers -> Nat]
      /\ Queued' /\ inboxPermits' \in Nat
  BY NextStrung, NextThreads, NextPermits, NextQueued DEF IInv
<1>2. /\ requestId' \in 0..MaxId /\ asked' \subseteq Ids
      /\ pc' \in [Callers -> {"idle", "numbered", "registered", "waiting", "granted", "leaving"}]
      /\ reqId' \in [Callers -> 0..MaxId]
      /\ outcome' \in [Callers -> {"none", "ok", "empty", "timeout", "error"}]
  BY NextCallsTyped DEF IInv
<1>3. /\ semMap' \in UNION {[D -> Callers] : D \in SUBSET Ids}
      /\ DOMAIN resultMap' \subseteq Ids
      /\ \A i \in DOMAIN resultMap' : resultMap'[i] \in Messages
  BY NextMapsTyped DEF IInv
<1>4. /\ loopPc' \in {"poll", "push"} /\ disp' \in {"wait", "swap", "handle", "stopped"}
      /\ running' \in BOOLEAN /\ connected' \in BOOLEAN /\ linked' \in BOOLEAN
      /\ sent' \in 0..MaxMsgs
  BY NextThreadsTyped DEF IInv
<1>5. /\ wire' \in Seq(Messages) /\ hand' \in Seq(Messages) /\ arrived' \in Seq(Messages)
      /\ inbox' \in Seq(Messages) /\ batch' \in Seq(Messages) /\ delivered' \in Seq(Messages)
  BY <1>1 DEF Strung
<1>6. Len(wire') \in Nat /\ Len(hand') \in Nat /\ Len(arrived') \in Nat
  BY <1>5, LenProperties
<1>7. sent' \in Nat /\ sent' <= MaxMsgs /\ MaxMsgs \in Nat
  BY <1>4, ClientAssumption
<1>8. permits' \in [Callers -> 0..MaxMsgs]
  <2>1. ASSUME NEW c \in Callers
        PROVE  permits'[c] \in 0..MaxMsgs
    <3>1. permits'[c] \in Nat /\ permits'[c] + Len(wire') <= sent'
      BY <1>1 DEF Permits
    <3>2. QED
      BY <1>6, <1>7, <3>1
  <2>2. QED
    BY <1>1, <2>1
<1>9. inboxPermits' \in 0..(MaxMsgs + 1)
  <2>1. /\ inboxPermits' <= Len(arrived')
        /\ Len(arrived') + Len(hand') + Len(wire') <= sent' + (IF Marked' THEN 1 ELSE 0)
    BY <1>1 DEF Queued
  <2>2. QED
    BY <1>1, <1>6, <1>7, <2>1
<1>10. Len(hand') <= 1
  <2>1. /\ loopPc' = "poll" => hand' = <<>>
        /\ loopPc' = "push" => Len(hand') = 1
    BY <1>1 DEF Threads
  <2>2. Len(<<>>) = 0
    BY EmptySeq
  <2>3. CASE loopPc' = "poll"
    BY <2>1, <2>2, <2>3
  <2>4. CASE loopPc' = "push"
    BY <2>1, <2>4
  <2>5. QED
    BY <1>4, <2>3, <2>4
<1>11. \A s \in {wire', hand', inbox', batch', arrived', delivered'} :
          \A k \in 1..Len(s) : s[k] \in Messages
  BY <1>5, ElementOfSeq
<1>12. QED
  BY <1>2, <1>3, <1>4, <1>8, <1>9, <1>10, <1>11 DEF TypeOK

-----------------------------------------------------------------------------
(* Every message is in one place. *)

\* The messages cut off with the connection, counted once more as dropped.
Cut(s) == {<<"cut", s[i]>> : i \in 1..Len(s)}

LEMMA CutCount ==
    ASSUME NEW s \in Seq(Messages), NEW S, IsFiniteSet(S), NEW n,
           Seen(s, n) + InPairs(S, n) <= 1
    PROVE  /\ IsFiniteSet(S \cup Cut(s))
           /\ InPairs(S \cup Cut(s), n) = Seen(s, n) + InPairs(S, n)
<1> DEFINE C == {<<"cut", s[i]>> : i \in 1..Len(s)}
           f == [i \in 1..Len(s) |-> <<"cut", s[i]>>]
<1>0. SUFFICES /\ IsFiniteSet(S \cup C)
               /\ InPairs(S \cup C, n) = Seen(s, n) + InPairs(S, n)
  BY DEF Cut
<1>1. IsFiniteSet(C)
  <2>1. IsFiniteSet(1..Len(s))
    BY LenProperties, FS_Interval
  <2>2. f \in Surjection(1..Len(s), C)
    BY DEF Surjection
  <2>3. QED
    BY <2>1, <2>2, FS_Surjection
<1>2. IsFiniteSet(S \cup C)
  BY <1>1, FS_Union
<1>3. /\ IsFiniteSet(Here(s, n)) /\ Seen(s, n) = Cardinality(Here(s, n)) /\ Seen(s, n) \in Nat
      /\ IsFiniteSet({p \in S : p[2].n = n}) /\ InPairs(S, n) \in Nat
  BY HereFinite, PairsFinite
<1>4. CASE Seen(s, n) = 0
  <2>1. Here(s, n) = {}
    BY <1>3, <1>4, FS_EmptySet
  <2>2. \A p \in C : p[2].n # n
    BY <2>1 DEF Here
  <2>3. {p \in S \cup C : p[2].n = n} = {p \in S : p[2].n = n}
    BY <2>2
  <2>4. InPairs(S \cup C, n) = InPairs(S, n)
    BY <2>3 DEF InPairs
  <2>5. QED
    BY <1>2, <1>3, <1>4, <2>4
<1>5. CASE Seen(s, n) # 0
  <2>1. Seen(s, n) = 1 /\ InPairs(S, n) = 0
    BY <1>3, <1>5
  <2>2. PICK k : Here(s, n) = {k}
    BY <1>3, <2>1, FS_Singleton
  <2>3. {p \in S : p[2].n = n} = {}
    BY <1>3, <2>1, FS_EmptySet DEF InPairs
  <2>4. k \in 1..Len(s) /\ s[k].n = n /\ \A i \in 1..Len(s) : s[i].n = n => i = k
    BY <2>2 DEF Here
  <2>5. {p \in S \cup C : p[2].n = n} = {<<"cut", s[k]>>}
    BY <2>3, <2>4
  <2>6. InPairs(S \cup C, n) = 1
    BY <2>5, FS_Singleton DEF InPairs
  <2>7. QED
    BY <1>2, <2>1, <2>6
<1>6. QED
  BY <1>4, <1>5

\* The counters of one message are numbers.
LEMMA PlacesTyped ==
    ASSUME TypeOK, Strung, IsFiniteSet(consumed), IsFiniteSet(dropped), NEW n
    PROVE  /\ Seen(wire, n) \in Nat /\ Seen(hand, n) \in Nat /\ Seen(inbox, n) \in Nat
           /\ Seen(batch, n) \in Nat /\ Seen(delivered, n) \in Nat
           /\ InMap(resultMap, n) \in Nat /\ InPairs(consumed, n) \in Nat
           /\ InPairs(dropped, n) \in Nat /\ IsFiniteSet(DOMAIN resultMap)
<1>1. DOMAIN resultMap \in SUBSET Ids
  BY DEF TypeOK
<1>2. IsFiniteSet(Ids)
  BY ClientAssumption, FS_Interval DEF Ids
<1>3. IsFiniteSet(DOMAIN resultMap)
  BY <1>1, <1>2, FS_Subset
<1>4. InMap(resultMap, n) \in Nat
  BY <1>3, StoredFinite
<1>5. InPairs(consumed, n) \in Nat /\ InPairs(dropped, n) \in Nat
  BY PairsFinite
<1>6. /\ wire \in Seq(Messages) /\ hand \in Seq(Messages) /\ inbox \in Seq(Messages)
      /\ batch \in Seq(Messages) /\ delivered \in Seq(Messages)
  BY DEF Strung
<1>7. /\ Seen(wire, n) \in Nat /\ Seen(hand, n) \in Nat /\ Seen(inbox, n) \in Nat
      /\ Seen(batch, n) \in Nat /\ Seen(delivered, n) \in Nat
  BY <1>6, HereFinite
<1>8. QED
  BY <1>3, <1>4, <1>5, <1>7

\* A reply that leaves m_reqResultMap enters the history S once.
LEMMA MoveResult ==
    ASSUME NEW f, IsFiniteSet(DOMAIN f), NEW x \in DOMAIN f, NEW S, IsFiniteSet(S), NEW n,
           NEW p, InMap(f, n) + InPairs(S, n) <= 1
    PROVE  p[2] = f[x] =>
             /\ IsFiniteSet(S \cup {p})
             /\ InMap(Without(f, x), n) + InPairs(S \cup {p}, n) = InMap(f, n) + InPairs(S, n)
             /\ InPairs(S \cup {p}, n) = InPairs(S, n) + (IF f[x].n = n THEN 1 ELSE 0)
<1>1. /\ InMap(f, n) = InMap(Without(f, x), n) + (IF f[x].n = n THEN 1 ELSE 0)
      /\ IsFiniteSet(DOMAIN Without(f, x))
  BY MapWithout
<1>2. InMap(Without(f, x), n) \in Nat /\ InPairs(S, n) \in Nat
  BY <1>1, StoredFinite, PairsFinite
<1> DEFINE T == S \cup {p}
<1>0. /\ IsFiniteSet(T)
      /\ p[2].n # n => InPairs(T, n) = InPairs(S, n)
      /\ p[2].n = n /\ InPairs(S, n) = 0 => InPairs(T, n) = 1
  BY PairsAdd
<1> HIDE DEF T
<1> SUFFICES ASSUME p[2] = f[x]
             PROVE  /\ IsFiniteSet(T)
                    /\ InMap(Without(f, x), n) + InPairs(T, n) = InMap(f, n) + InPairs(S, n)
                    /\ InPairs(T, n) = InPairs(S, n) + (IF f[x].n = n THEN 1 ELSE 0)
  BY DEF T
<1>3. /\ IsFiniteSet(T)
      /\ f[x].n # n => InPairs(T, n) = InPairs(S, n)
      /\ f[x].n = n /\ InPairs(S, n) = 0 => InPairs(T, n) = 1
  BY <1>0
<1>4. CASE f[x].n = n
  <2>1. InMap(f, n) = InMap(Without(f, x), n) + 1
    BY <1>1, <1>4
  <2>2. InPairs(S, n) = 0 /\ InMap(Without(f, x), n) = 0
    BY <1>2, <2>1
  <2>3. InPairs(T, n) = 1
    BY <1>3, <1>4, <2>2
  <2>4. QED
    BY <1>2, <1>3, <1>4, <2>1, <2>2, <2>3
<1>5. CASE f[x].n # n
  <2>1. InMap(f, n) = InMap(Without(f, x), n)
    BY <1>1, <1>2, <1>5
  <2>2. InPairs(T, n) = InPairs(S, n)
    BY <1>3, <1>5
  <2>3. QED
    BY <1>2, <1>3, <1>5, <2>1, <2>2
<1>6. QED
  BY <1>4, <1>5

\* OnMsg takes a message off the wire and puts it in one other place.
LEMMA CountOnMsg ==
    ASSUME TypeOK, Strung, Threads, IsFiniteSet(consumed), IsFiniteSet(dropped), OnMsg,
           NEW n, Places(n) <= 1
    PROVE  /\ IsFiniteSet(dropped')
           /\ Seen(wire', n) + Seen(hand', n) + InMap(resultMap', n) + InPairs(dropped', n)
                = Seen(wire, n) + Seen(hand, n) + InMap(resultMap, n) + InPairs(dropped, n)
<1> DEFINE m == Head(wire)
           x == m.id
           b == IF m.n = n THEN 1 ELSE 0
           old == IF resultMap[x].n = n THEN 1 ELSE 0
<1>1. /\ Seen(wire, n) \in Nat /\ Seen(hand, n) \in Nat /\ Seen(inbox, n) \in Nat
      /\ Seen(batch, n) \in Nat /\ Seen(delivered, n) \in Nat
      /\ InMap(resultMap, n) \in Nat /\ InPairs(consumed, n) \in Nat
      /\ InPairs(dropped, n) \in Nat /\ IsFiniteSet(DOMAIN resultMap)
  BY PlacesTyped
<1>2. Seen(wire, n) + Seen(hand, n) + InMap(resultMap, n) + InPairs(dropped, n) <= 1
  BY <1>1 DEF Places
<1>3. /\ wire \in Seq(Messages) /\ wire # <<>> /\ wire' = Tail(wire) /\ hand = <<>>
      /\ m \in Messages
  BY OnMsgEffects DEF Strung
<1>4. Seen(wire, n) = Seen(wire', n) + b /\ Seen(wire', n) \in Nat
  <2>1. Tail(wire) \in Seq(Messages)
    BY <1>3, HeadTailProperties
  <2>2. QED
    BY <1>3, <2>1, SeenTail, HereFinite
<1>5. Seen(hand, n) = 0
  BY <1>3, SeenEmpty
<1>6. b \in {0, 1} /\ old \in {0, 1}
  OBVIOUS
<1>7. CASE /\ dropped' = dropped \cup {<<"short", m>>}
           /\ UNCHANGED <<resultMap, permits, hand>>
  <2>1. IsFiniteSet(dropped') /\ InPairs(dropped', n) = InPairs(dropped, n) + b
    <3> DEFINE p == <<"short", m>>
               T == dropped \cup {p}
    <3>0. dropped' = T /\ p[2] = m
      BY <1>7
    <3> HIDE DEF p
    <3>4. /\ IsFiniteSet(T)
          /\ p[2].n # n => InPairs(T, n) = InPairs(dropped, n)
          /\ p[2].n = n /\ InPairs(dropped, n) = 0 => InPairs(T, n) = 1
      BY PairsAdd
    <3> HIDE DEF T
    <3>1. /\ IsFiniteSet(T) /\ dropped' = T /\ IsFiniteSet(dropped')
          /\ m.n # n => InPairs(T, n) = InPairs(dropped, n)
          /\ m.n = n /\ InPairs(dropped, n) = 0 => InPairs(T, n) = 1
      BY <3>0, <3>4
    <3>2. CASE m.n = n
      <4>1. InPairs(dropped, n) = 0
        BY <1>1, <1>2, <1>4, <1>5, <3>2
      <4>2. InPairs(dropped', n) = 1
        BY <3>1, <3>2, <4>1
      <4>3. QED
        BY <3>1, <3>2, <4>1, <4>2
    <3>3. CASE m.n # n
      <4>1. InPairs(dropped', n) = InPairs(dropped, n)
        BY <3>1, <3>3
      <4>2. QED
        BY <1>1, <3>1, <3>3, <4>1
    <3>5. QED
      BY <3>2, <3>3
  <2> HIDE DEF b
  <2>2. Seen(hand', n) = Seen(hand, n) /\ InMap(resultMap', n) = InMap(resultMap, n)
    BY <1>7
  <2>3. QED
    BY <1>1, <1>4, <1>6, <2>1, <2>2
<1>8. CASE /\ hand' = <<m>> /\ UNCHANGED <<resultMap, permits, dropped>>
  <2>1. Seen(hand', n) = b
    <3>1. <<m>> = Append(<<>>, m)
      OBVIOUS
    <3>2. <<>> \in Seq(Messages)
      BY EmptySeq
    <3>3. Seen(Append(<<>>, m), n) = Seen(<<>>, n) + b
      BY <1>3, <3>2, SeenAppend
    <3>4. Seen(<<>>, n) = 0
      BY SeenEmpty
    <3> HIDE DEF b
    <3>5. QED
      BY <1>6, <1>8, <3>1, <3>3, <3>4
  <2>2. InMap(resultMap', n) = InMap(resultMap, n) /\ dropped' = dropped
    BY <1>8
  <2> HIDE DEF b
  <2>3. QED
    BY <1>1, <1>4, <1>5, <1>6, <2>1, <2>2
<1>9. CASE /\ hand' = hand /\ resultMap' = With(resultMap, x, m)
           /\ dropped' = dropped \cup {<<"again", resultMap[i]>> : i \in {x} \cap DOMAIN resultMap}
  <2>1. Seen(hand', n) = Seen(hand, n)
    BY <1>9
  <2>2. CASE x \in DOMAIN resultMap
    <3>1. InMap(resultMap', n) + old = InMap(resultMap, n) + b
      BY <1>1, <1>9, <2>2, MapWith
    <3> DEFINE p == <<"again", resultMap[x]>>
    <3>2. dropped' = dropped \cup {p} /\ p[2] = resultMap[x]
      BY <1>9, <2>2
    <3> HIDE DEF p
    <3>3. IsFiniteSet(dropped') /\ InPairs(dropped', n) = InPairs(dropped, n) + old
      <4>1. InMap(resultMap, n) + InPairs(dropped, n) <= 1
        BY <1>1, <1>2
      <4>2. IsFiniteSet(DOMAIN resultMap) /\ IsFiniteSet(dropped)
        BY <1>1
      <4>3. /\ IsFiniteSet(dropped \cup {p})
            /\ InPairs(dropped \cup {p}, n)
                  = InPairs(dropped, n) + (IF resultMap[x].n = n THEN 1 ELSE 0)
        BY <2>2, <3>2, <4>1, <4>2, MoveResult
      <4>4. QED
        BY <3>2, <4>3
    <3>4. InMap(resultMap', n) \in Int
      <4>1. DOMAIN resultMap' = DOMAIN resultMap \cup {x}
        BY <1>9 DEF With
      <4>2. IsFiniteSet(DOMAIN resultMap')
        BY <1>1, <4>1, FS_AddElement
      <4>3. QED
        BY <4>2, StoredFinite
    <3> HIDE DEF b, old
    <3>5. QED
      BY <1>1, <1>4, <1>6, <2>1, <3>1, <3>3, <3>4
  <2>3. CASE x \notin DOMAIN resultMap
    <3>1. InMap(resultMap', n) = InMap(resultMap, n) + b
      BY <1>1, <1>9, <2>3, MapWith
    <3>2. dropped' = dropped
      BY <1>9, <2>3
    <3> HIDE DEF b
    <3>3. QED
      BY <1>1, <1>4, <1>6, <2>1, <3>1, <3>2
  <2>4. QED
    BY <2>2, <2>3
<1>10. QED
  BY <1>7, <1>8, <1>9, OnMsgEffects
\* The histories stay finite.
LEMMA NextFinite ==
    TypeOK /\ Strung /\ Threads /\ IsFiniteSet(consumed) /\ IsFiniteSet(dropped) /\ [Next]_vars
        => IsFiniteSet(consumed') /\ IsFiniteSet(dropped')
<1> SUFFICES ASSUME TypeOK, Strung, Threads, IsFiniteSet(consumed), IsFiniteSet(dropped),
                    [Next]_vars
             PROVE  IsFiniteSet(consumed') /\ IsFiniteSet(dropped')
  OBVIOUS
<1>1. /\ \A p : IsFiniteSet(consumed \cup {p}) /\ IsFiniteSet(dropped \cup {p})
  BY FS_AddElement
<1>2. ASSUME NEW w, NEW x
      PROVE  IsFiniteSet(dropped \cup {<<w, resultMap[i]>> : i \in {x} \cap DOMAIN resultMap})
  <2> DEFINE C == {<<w, resultMap[i]>> : i \in {x} \cap DOMAIN resultMap}
  <2>1. C = {} \/ C = {<<w, resultMap[x]>>}
    OBVIOUS
  <2>2. IsFiniteSet(C)
    <3>1. IsFiniteSet({}) /\ IsFiniteSet({<<w, resultMap[x]>>})
      BY FS_EmptySet, FS_Singleton
    <3> HIDE DEF C
    <3>2. CASE C = {}
      BY <3>1, <3>2
    <3>3. CASE C = {<<w, resultMap[x]>>}
      BY <3>1, <3>3
    <3>4. QED
      BY <2>1, <3>2, <3>3
  <2>3. QED
    BY <2>2, FS_Union
<1>3. CASE consumed' = consumed /\ dropped' = dropped
  BY <1>3
<1>4. CASE \E c \in Callers : SyncSend(c)
  <2>1. PICK c \in Callers : SyncSend(c)
    BY <1>4
  <2>2. CASE consumed' = consumed \cup {<<reqId[c], resultMap[reqId[c]]>>} /\ dropped' = dropped
    BY <1>1, <2>2
  <2>3. CASE /\ consumed' = consumed
             /\ dropped' = dropped \cup
                   {<<"late", resultMap[i]>> : i \in {reqId[c]} \cap DOMAIN resultMap}
    BY <1>2, <2>3
  <2>4. QED
    BY <1>3, <2>1, <2>2, <2>3, CallReplies
<1>5. CASE OnMsg
  <2>1. consumed' = consumed
    BY <1>5, OnMsgEffects
  <2>2. CASE dropped' = dropped \cup {<<"short", Head(wire)>>}
    BY <1>1, <2>1, <2>2
  <2>3. CASE dropped' = dropped \cup {<<"again", resultMap[i]>> :
                                         i \in {Head(wire).id} \cap DOMAIN resultMap}
    BY <1>2, <2>1, <2>3
  <2>4. CASE dropped' = dropped
    BY <2>1, <2>4
  <2>5. QED
    BY <1>5, <2>2, <2>3, <2>4, OnMsgEffects
<1>6. CASE LinkDown
  <2> DEFINE C == {<<"cut", wire[i]>> : i \in 1..Len(wire)}
             f == [i \in 1..Len(wire) |-> <<"cut", wire[i]>>]
  <2>1. consumed' = consumed /\ dropped' = dropped \cup C
    BY <1>6 DEF LinkDown, callVars
  <2>2. IsFiniteSet(1..Len(wire))
    BY LenProperties, FS_Interval DEF Strung
  <2>3. f \in Surjection(1..Len(wire), C)
    BY DEF Surjection
  <2>4. IsFiniteSet(C)
    BY <2>2, <2>3, FS_Surjection
  <2> HIDE DEF C
  <2>5. IsFiniteSet(dropped \cup C)
    BY <2>4, FS_Union
  <2>6. QED
    BY <2>1, <2>5
<1>7. CASE AsyncSend \/ Stop \/ OnConnection \/ PushInbox \/ DispWait \/ DispSwap \/ DispHandle
           \/ ServerSends \/ UNCHANGED vars
  BY <1>3, <1>7 DEF AsyncSend, Stop, OnConnection, PushInbox, DispWait, DispSwap, DispHandle,
     ServerSends, vars, callVars
<1>8. QED
  BY <1>4, <1>5, <1>6, <1>7 DEF Next

FiniteHistories == IsFiniteSet(consumed) /\ IsFiniteSet(dropped)

PlacesInNat == \A n : /\ Seen(wire, n) \in Nat /\ Seen(hand, n) \in Nat /\ Seen(inbox, n) \in Nat
                      /\ Seen(batch, n) \in Nat /\ Seen(delivered, n) \in Nat
                      /\ InMap(resultMap, n) \in Nat /\ InPairs(consumed, n) \in Nat
                      /\ InPairs(dropped, n) \in Nat

LEMMA PlacesNat == TypeOK /\ Strung /\ FiniteHistories => PlacesInNat
  BY PlacesTyped DEF FiniteHistories, PlacesInNat

\* A call moves a reply from m_reqResultMap to one of the histories, or nothing.
LEMMA CountCall ==
    ASSUME TypeOK, Strung, IsFiniteSet(consumed), IsFiniteSet(dropped),
           NEW c \in Callers, SyncSend(c), NEW n, Places(n) <= 1
    PROVE  InMap(resultMap', n) + InPairs(consumed', n) + InPairs(dropped', n)
             = InMap(resultMap, n) + InPairs(consumed, n) + InPairs(dropped, n)
<1> DEFINE i == reqId[c]
<1>1. /\ InMap(resultMap, n) \in Nat /\ InPairs(consumed, n) \in Nat
      /\ InPairs(dropped, n) \in Nat /\ IsFiniteSet(DOMAIN resultMap)
      /\ InMap(resultMap, n) + InPairs(consumed, n) <= 1
      /\ InMap(resultMap, n) + InPairs(dropped, n) <= 1
  BY PlacesTyped DEF Places
<1>2. InMap(Without(resultMap, i), n) \in Nat
  BY <1>1, MapWithout, StoredFinite
<1>3. CASE UNCHANGED <<resultMap, consumed, dropped>>
  BY <1>1, <1>3
<1>4. CASE /\ i \in DOMAIN resultMap
           /\ consumed' = consumed \cup {<<i, resultMap[i]>>}
           /\ resultMap' = Without(resultMap, i) /\ dropped' = dropped
  <2> DEFINE p == <<i, resultMap[i]>>
  <2>1. consumed' = consumed \cup {p} /\ p[2] = resultMap[i]
    BY <1>4
  <2> HIDE DEF p, i
  <2>2. /\ IsFiniteSet(consumed \cup {p})
        /\ InMap(Without(resultMap, i), n) + InPairs(consumed \cup {p}, n)
              = InMap(resultMap, n) + InPairs(consumed, n)
    BY <1>1, <1>4, <2>1, MoveResult
  <2>3. InPairs(consumed \cup {p}, n) \in Nat
    BY <2>2, PairsFinite
  <2>4. /\ InMap(resultMap', n) = InMap(Without(resultMap, i), n)
        /\ InPairs(consumed', n) = InPairs(consumed \cup {p}, n)
        /\ InPairs(dropped', n) = InPairs(dropped, n)
    BY <1>4, <2>1
  <2>5. QED
    BY <1>1, <1>2, <2>2, <2>3, <2>4
<1>5. CASE /\ consumed' = consumed
           /\ resultMap' = Without(resultMap, i)
           /\ dropped' = dropped \cup {<<"late", resultMap[j]>> : j \in {i} \cap DOMAIN resultMap}
  <2>1. CASE i \in DOMAIN resultMap
    <3> DEFINE p == <<"late", resultMap[i]>>
    <3>1. dropped' = dropped \cup {p} /\ p[2] = resultMap[i]
      BY <1>5, <2>1
    <3> HIDE DEF p, i
    <3>2. /\ IsFiniteSet(dropped \cup {p})
          /\ InMap(Without(resultMap, i), n) + InPairs(dropped \cup {p}, n)
                = InMap(resultMap, n) + InPairs(dropped, n)
      BY <1>1, <2>1, <3>1, MoveResult
    <3>3. InPairs(dropped \cup {p}, n) \in Nat
      BY <3>2, PairsFinite
    <3>4. /\ InMap(resultMap', n) = InMap(Without(resultMap, i), n)
          /\ InPairs(dropped', n) = InPairs(dropped \cup {p}, n)
          /\ InPairs(consumed', n) = InPairs(consumed, n)
      BY <1>5, <3>1
    <3>5. QED
      BY <1>1, <1>2, <3>2, <3>3, <3>4
  <2>2. CASE i \notin DOMAIN resultMap
    <3>1. dropped' = dropped
      BY <1>5, <2>2
    <3>2. InMap(Without(resultMap, i), n) = InMap(resultMap, n)
      BY <1>1, <2>2, MapWithout
    <3>3. QED
      BY <1>1, <1>5, <3>1, <3>2
  <2>3. QED
    BY <2>1, <2>2
<1>6. QED
  BY <1>3, <1>4, <1>5, CallReplies

LEMMA NextCounted == IInv /\ [Next]_vars => Counted'
<1> SUFFICES ASSUME IInv, [Next]_vars PROVE Counted'
  OBVIOUS
<1>1. /\ TypeOK /\ Strung /\ Threads /\ IsFiniteSet(consumed) /\ IsFiniteSet(dropped)
      /\ sent \in Nat
      /\ \A n \in 1..MaxMsgs : Places(n) = IF n <= sent THEN 1 ELSE 0
  BY PermitsTyped DEF IInv, Counted
<1>2. /\ wire \in Seq(Messages) /\ hand \in Seq(Messages) /\ inbox \in Seq(Messages)
      /\ batch \in Seq(Messages) /\ delivered \in Seq(Messages)
  BY <1>1 DEF Strung
<1> DEFINE One(n) == Seen(wire', n) + Seen(hand', n) + Seen(inbox', n) + Seen(batch', n)
                     + Seen(delivered', n) + InMap(resultMap', n) + InPairs(consumed', n)
                     + InPairs(dropped', n) = IF n <= sent' THEN 1 ELSE 0
<1>2a. IsFiniteSet(consumed') /\ IsFiniteSet(dropped')
  BY <1>1, NextFinite
<1>3. SUFFICES \A n \in 1..MaxMsgs : One(n)
  BY <1>2a DEF Counted, Places
<1>4. ASSUME NEW n \in 1..MaxMsgs
      PROVE  /\ Seen(wire, n) \in Nat /\ Seen(hand, n) \in Nat /\ Seen(inbox, n) \in Nat
             /\ Seen(batch, n) \in Nat /\ Seen(delivered, n) \in Nat
             /\ InMap(resultMap, n) \in Nat /\ InPairs(consumed, n) \in Nat
             /\ InPairs(dropped, n) \in Nat
             /\ Seen(wire, n) + Seen(hand, n) + Seen(inbox, n) + Seen(batch, n)
                + Seen(delivered, n) + InMap(resultMap, n) + InPairs(consumed, n)
                + InPairs(dropped, n) = (IF n <= sent THEN 1 ELSE 0)
             /\ Places(n) <= 1
  <2>1. Places(n) = IF n <= sent THEN 1 ELSE 0
    BY <1>1
  <2>2. QED
    BY <1>1, <2>1, PlacesTyped DEF Places
<1>4a. ASSUME NEW n
       PROVE  /\ Seen(wire', n) \in Nat /\ Seen(hand', n) \in Nat /\ Seen(inbox', n) \in Nat
              /\ Seen(batch', n) \in Nat /\ Seen(delivered', n) \in Nat
              /\ InMap(resultMap', n) \in Nat /\ InPairs(consumed', n) \in Nat
              /\ InPairs(dropped', n) \in Nat
  <2>1. TypeOK' /\ Strung'
    BY <1>1, NextTyping, NextStrung
  <2>2. FiniteHistories'
    BY <1>2a DEF FiniteHistories
  <2>3. PlacesInNat'
    BY <2>1, <2>2, PlacesNat, PTL
  <2>4. QED
    BY <2>3 DEF PlacesInNat
<1>5. CASE UNCHANGED <<wire, hand, inbox, batch, delivered, resultMap, consumed, dropped, sent>>
  BY <1>1, <1>4, <1>5
<1>6. ASSUME NEW c \in Callers, SyncSend(c), NEW n \in 1..MaxMsgs
      PROVE  One(n)
  <2>1. UNCHANGED <<wire, hand, inbox, batch, delivered, sent>>
    BY <1>6, CallerSteps DEF loopVars, dispVars
  <2>2. InMap(resultMap', n) + InPairs(consumed', n) + InPairs(dropped', n)
          = InMap(resultMap, n) + InPairs(consumed, n) + InPairs(dropped, n)
    BY <1>1, <1>4, <1>6, CountCall
  <2>3. QED
    BY <1>4, <1>4a, <2>1, <2>2
<1>7. CASE OnMsg
  <2>1. UNCHANGED <<inbox, batch, delivered, consumed, sent>>
    BY <1>1, <1>7, OnMsgEffects
  <2>2. ASSUME NEW n \in 1..MaxMsgs
        PROVE  One(n)
    <3>1. Seen(wire', n) + Seen(hand', n) + InMap(resultMap', n) + InPairs(dropped', n)
            = Seen(wire, n) + Seen(hand, n) + InMap(resultMap, n) + InPairs(dropped, n)
      BY <1>1, <1>4, <1>7, CountOnMsg
    <3>2. QED
      BY <1>4, <1>4a, <2>1, <3>1
  <2>3. QED
    BY <2>2
<1>8. CASE OnConnection
  <2>1. /\ hand = <<>> /\ hand' = <<ConnMark>>
        /\ UNCHANGED <<wire, inbox, batch, delivered, resultMap, consumed, dropped, sent>>
    BY <1>1, <1>8 DEF OnConnection, Threads, callVars, mapVars, dispVars
  <2>2. ASSUME NEW n \in 1..MaxMsgs
        PROVE  Seen(hand', n) = 0 /\ Seen(hand, n) = 0
    <3>1. Seen(<<>>, n) = 0
      BY SeenEmpty
    <3>2. <<ConnMark>> = Append(<<>>, ConnMark) /\ <<>> \in Seq(Messages)
      BY EmptySeq
    <3>3. ConnMark \in Messages /\ ConnMark.n # n
      BY ConnMarkTyped
    <3>4. Seen(Append(<<>>, ConnMark), n) = Seen(<<>>, n) + 0
      BY <3>2, <3>3, SeenAppend
    <3>5. QED
      BY <2>1, <3>1, <3>2, <3>4
  <2>3. QED
    BY <1>1, <1>4, <2>1, <2>2
<1>9. CASE PushInbox
  <2>1. /\ Len(hand) = 1 /\ hand' = <<>> /\ inbox' = inbox \o hand
        /\ UNCHANGED <<wire, batch, delivered, resultMap, consumed, dropped, sent>>
    BY <1>1, <1>9 DEF PushInbox, Threads, callVars, mapVars, dispVars, linkVars
  <2>2. inbox' = Append(inbox, hand[1]) /\ hand[1] \in Messages /\ hand = <<hand[1]>>
    BY <1>2, <2>1, SingleAppend
  <2>3. ASSUME NEW n \in 1..MaxMsgs
        PROVE  Seen(hand', n) = 0 /\ Seen(inbox', n) = Seen(inbox, n) + Seen(hand, n)
    <3> DEFINE m == hand[1]
               b == IF m.n = n THEN 1 ELSE 0
    <3>1. Seen(<<>>, n) = 0
      BY SeenEmpty
    <3>2. hand = Append(<<>>, m) /\ <<>> \in Seq(Messages)
      BY <2>2, EmptySeq
    <3>3. Seen(Append(inbox, m), n) = Seen(inbox, n) + b
      BY <1>2, <2>2, SeenAppend
    <3>4. Seen(Append(<<>>, m), n) = Seen(<<>>, n) + b
      BY <2>2, <3>2, SeenAppend
    <3>5. b \in {0, 1}
      OBVIOUS
    <3>6. inbox' = Append(inbox, m)
      BY <2>2
    <3> HIDE DEF b, m
    <3>7. Seen(inbox', n) = Seen(inbox, n) + b
      BY <3>3, <3>6
    <3>8. Seen(hand, n) = b
      BY <3>1, <3>2, <3>4, <3>5
    <3>9. Seen(hand', n) = 0
      BY <2>1, <3>1
    <3>10. QED
      BY <3>7, <3>8, <3>9
  <2>4. UNCHANGED <<wire, batch, delivered, resultMap, consumed, dropped, sent>>
    BY <2>1
  <2>5. QED
    BY <1>4, <2>3, <2>4
<1>10. CASE DispSwap
  <2>1. /\ inbox' = batch /\ batch' = inbox
        /\ UNCHANGED <<wire, hand, delivered, resultMap, consumed, dropped, sent>>
    BY <1>10 DEF DispSwap, callVars, mapVars, loopVars, linkVars
  <2>2. QED
    BY <1>1, <1>4, <2>1
<1>11. CASE DispHandle
  <2>1. /\ delivered' = Append(delivered, Head(batch)) /\ batch' = Tail(batch) /\ batch # <<>>
        /\ UNCHANGED <<wire, hand, inbox, resultMap, consumed, dropped, sent>>
    BY <1>1, <1>11 DEF DispHandle, Threads, callVars, mapVars, loopVars, linkVars
  <2>2. ASSUME NEW n \in 1..MaxMsgs
        PROVE  /\ Seen(batch', n) \in Nat /\ Seen(delivered', n) \in Nat
               /\ Seen(batch', n) + Seen(delivered', n) = Seen(batch, n) + Seen(delivered, n)
    <3> DEFINE m == Head(batch)
               b == IF m.n = n THEN 1 ELSE 0
    <3>1. m \in Messages /\ Tail(batch) \in Seq(Messages)
      BY <1>2, <2>1, HeadTailProperties
    <3>2. Seen(batch, n) = Seen(Tail(batch), n) + b /\ Seen(Tail(batch), n) \in Nat
      BY <1>2, <2>1, <3>1, SeenTail, HereFinite
    <3>3. Seen(Append(delivered, m), n) = Seen(delivered, n) + b
      BY <1>2, <3>1, SeenAppend
    <3>4. b \in {0, 1}
      OBVIOUS
    <3>5. delivered' = Append(delivered, m) /\ batch' = Tail(batch)
      BY <2>1
    <3> HIDE DEF b, m
    <3>6. Seen(delivered', n) = Seen(delivered, n) + b
      BY <3>3, <3>5
    <3>7. Seen(batch, n) = Seen(batch', n) + b /\ Seen(batch', n) \in Nat
      BY <3>2, <3>5
    <3>8. QED
      BY <1>4, <3>4, <3>6, <3>7
  <2>3. UNCHANGED <<wire, hand, inbox, resultMap, consumed, dropped, sent>>
    BY <2>1
  <2>4. QED
    BY <1>4, <2>2, <2>3
<1>12. CASE ServerSends
  <2>1. PICK i \in asked \cup {0}, s \in BOOLEAN :
          wire' = Append(wire, [n |-> sent + 1, src |-> i, id |-> WireId(i), short |-> s])
    BY <1>12 DEF ServerSends
  <2> DEFINE m == [n |-> sent + 1, src |-> i, id |-> WireId(i), short |-> s]
  <2>2. m \in Messages /\ m.n = sent + 1
    <3>1. sent + 1 \in 0..MaxMsgs /\ i \in 0..MaxId
      BY <1>1, <1>12, ClientAssumption DEF ServerSends, TypeOK, Ids
    <3>2. QED
      BY <3>1, WireIdFits DEF Messages
  <2>3. /\ sent' = sent + 1 /\ wire' = Append(wire, m)
        /\ UNCHANGED <<hand, inbox, batch, delivered, resultMap, consumed, dropped>>
    BY <1>12, <2>1 DEF ServerSends, callVars, mapVars, loopVars, dispVars
  <2> HIDE DEF m
  <2>4. ASSUME NEW n \in 1..MaxMsgs
        PROVE  Seen(wire', n) = Seen(wire, n) + (IF n = sent + 1 THEN 1 ELSE 0)
    BY <1>2, <2>2, <2>3, SeenAppend
  <2>5. ASSUME NEW n \in 1..MaxMsgs
        PROVE  One(n)
    <3>0. /\ sent' = sent + 1
          /\ UNCHANGED <<hand, inbox, batch, delivered, resultMap, consumed, dropped>>
      BY <2>3
    <3>1. CASE n = sent + 1
      <4>1. ~(n <= sent) /\ n <= sent'
        BY <1>1, <2>3, <3>1
      <4>2. Seen(wire', n) = Seen(wire, n) + 1
        BY <2>4, <3>1
      <4>3. /\ UNCHANGED <<hand, inbox, batch, delivered, resultMap, consumed, dropped>>
            /\ (IF n <= sent' THEN 1 ELSE 0) = (IF n <= sent THEN 1 ELSE 0) + 1
        BY <3>0, <4>1
      <4>4. QED
        BY <1>4, <4>2, <4>3
    <3>2. CASE n # sent + 1
      <4>1. n <= sent <=> n <= sent'
        BY <1>1, <2>3, <3>2
      <4>2. Seen(wire', n) = Seen(wire, n)
        BY <1>4, <2>4, <3>2
      <4>3. /\ UNCHANGED <<hand, inbox, batch, delivered, resultMap, consumed, dropped>>
            /\ (IF n <= sent' THEN 1 ELSE 0) = (IF n <= sent THEN 1 ELSE 0)
        BY <3>0, <4>1
      <4>4. QED
        BY <1>4, <4>2, <4>3
    <3>3. QED
      BY <3>1, <3>2
  <2>6. QED
    BY <2>5
<1>13. CASE LinkDown
  <2>1. /\ dropped' = dropped \cup {<<"cut", wire[i]>> : i \in 1..Len(wire)} /\ wire' = <<>>
        /\ UNCHANGED <<hand, inbox, batch, delivered, resultMap, consumed, sent>>
    BY <1>13 DEF LinkDown, callVars, mapVars, loopVars, dispVars
  <2>2. ASSUME NEW n \in 1..MaxMsgs
        PROVE  One(n)
    <3>1. Seen(wire, n) + InPairs(dropped, n) <= 1
      BY <1>4
    <3>2. wire \in Seq(Messages) /\ IsFiniteSet(dropped)
      BY <1>1, <1>2
    <3>3. InPairs(dropped \cup Cut(wire), n) = Seen(wire, n) + InPairs(dropped, n)
      BY <3>1, <3>2, CutCount, ZenonT(30)
    <3>4. InPairs(dropped', n) = Seen(wire, n) + InPairs(dropped, n)
      BY <2>1, <3>3 DEF Cut
    <3>5. Seen(wire', n) = 0
      BY <2>1, SeenEmpty
    <3>6. UNCHANGED <<hand, inbox, batch, delivered, resultMap, consumed, sent>>
      BY <2>1
    <3>7. QED
      BY <1>4, <3>4, <3>5, <3>6
  <2>3. QED
    BY <2>2
<1>14. CASE AsyncSend \/ Stop \/ DispWait \/ UNCHANGED vars
  BY <1>5, <1>14
     DEF AsyncSend, Stop, DispWait, vars, callVars, mapVars, loopVars, dispVars, linkVars
<1>15. QED
  BY <1>6, <1>7, <1>8, <1>9, <1>10, <1>11, <1>12, <1>13, <1>14 DEF Next
-----------------------------------------------------------------------------
(* The theorems. *)

LEMMA NextIInv == IInv /\ [Next]_vars => IInv'
<1> SUFFICES ASSUME IInv, [Next]_vars PROVE IInv'
  OBVIOUS
<1>1. /\ TypeOK /\ Strung /\ Threads /\ Calls /\ NoDanglingSemaphore /\ NoOrphanResult
      /\ Labels /\ Permits /\ Queued /\ OwnReply /\ InOrder
  BY DEF IInv
<1>2. TypeOK' /\ Strung' /\ Threads'
  BY <1>1, NextTyping, NextStrung, NextThreads
<1>3. Calls' /\ NoDanglingSemaphore' /\ NoOrphanResult'
  BY <1>1, NextCalls, NextOrphan
<1>4. Labels' /\ Permits' /\ Queued'
  BY <1>1, NextLabels, NextPermits, NextQueued
<1>5. OwnReply' /\ InOrder' /\ Counted'
  BY <1>1, NextOwnReply, NextInOrder, NextCounted
<1>6. QED
  BY <1>2, <1>3, <1>4, <1>5 DEF IInv

(***************************************************************************)
(* The inductive invariant holds in every reachable state of MyClient: the *)
(* maps, the queues, the permits and the threads agree with each other at  *)
(* every step of SyncSend, OnMsg and the dispatcher.                       *)
(***************************************************************************)
THEOREM Invariance == Spec => []IInv
  BY InitIInv, NextIInv, PTL DEF Spec

LEMMA IInvCalls == IInv => CallsSound
<1> SUFFICES ASSUME IInv PROVE CallsSound
  OBVIOUS
<1>1. /\ TypeOK /\ NoDanglingSemaphore /\ NoOrphanResult /\ Permits
  BY DEF IInv
<1>2. NoStrandedReply
  BY <1>1 DEF Permits, NoStrandedReply
<1>3. QED
  BY <1>1, <1>2 DEF CallsSound

(***************************************************************************)
(* A call of SyncSend leaves nothing behind, on whichever path it ends:    *)
(* OnMsg never finds the semaphore of a caller that has returned, no reply *)
(* stays in m_reqResultMap without its call, and no caller waits beside    *)
(* its answer without a permit.                                            *)
(***************************************************************************)
THEOREM SoundCalls == Spec => []CallsSound
  BY Invariance, IInvCalls, PTL

LEMMA IInvOwn == IInv => OwnReply
  BY DEF IInv

(***************************************************************************)
(* SyncSend returns the answer to its own request, whatever the order of   *)
(* replies, timeouts and duplicates, as long as the ids fit the field that *)
(* OnMsg parses.                                                           *)
(***************************************************************************)
THEOREM OwnReplies == Spec => []OwnReply
  BY Invariance, IInvOwn, PTL

LEMMA IInvOnce == IInv => EachMessageOnce
<1> SUFFICES ASSUME IInv PROVE EachMessageOnce
  OBVIOUS
<1>1. /\ InOrder /\ sent \in 0..MaxMsgs /\ MaxMsgs \in Nat
      /\ \A n \in 1..MaxMsgs : Places(n) = IF n <= sent THEN 1 ELSE 0
  BY ClientAssumption DEF IInv, Counted, TypeOK
<1>2. ASSUME NEW n \in 1..sent
      PROVE  Places(n) = 1
  BY <1>1
<1>3. QED
  BY <1>1, <1>2 DEF EachMessageOnce, Places, InMap, InPairs

(***************************************************************************)
(* No message of the server is lost, returned twice, or both returned by   *)
(* SyncSend and handed to the callback, and the callback sees the messages *)
(* OnMsg queued in their order.                                            *)
(***************************************************************************)
THEOREM MessagesOnce == Spec => []EachMessageOnce
  BY Invariance, IInvOnce, PTL

-----------------------------------------------------------------------------
(***************************************************************************)
(* MyServer, for any number of addresses, connections, messages and        *)
(* broadcasts.                                                             *)
(*                                                                         *)
(* The inductive invariant numbers the messages in the three queues of the *)
(* dispatcher (EchoOrder), keeps the connection of a request either at the *)
(* address the answer will be sent to or among those reported gone         *)
(* (EchoOwners), and orders what is queued for the clients after what they *)
(* have received (EchoesQueued).                                           *)
(***************************************************************************)

\* Connection of request n, as long as it is there, at address h.
Owned(h, n) == live[h] = asker[n] \/ asker[n] \in left

EchoOrder ==
    /\ Len(asker) <= MaxReqs
    /\ Len(handled) + Len(tempBufs) + Len(bufs) = Len(asker)
    /\ \A k \in 1..Len(handled) : handled[k] = k
    /\ \A k \in 1..Len(tempBufs) : tempBufs[k].n = Len(handled) + k
    /\ \A k \in 1..Len(bufs) : bufs[k].n = Len(handled) + Len(tempBufs) + k
    /\ hasNew <=> bufs # <<>>

EchoOwners ==
    /\ \A k \in 1..Len(bufs) : Owned(bufs[k].from, bufs[k].n)
    /\ \A k \in 1..Len(tempBufs) : Owned(tempBufs[k].from, tempBufs[k].n)
    /\ \A k \in 1..Len(sendQueue) : sendQueue[k].n # 0 =>
         Owned(sendQueue[k].to, sendQueue[k].n)

EchoesQueued ==
    /\ \A k \in 1..Len(sendQueue) : sendQueue[k].n <= Len(handled)
    /\ \A j, k \in 1..Len(sendQueue) : j < k /\ sendQueue[j].n # 0 /\ sendQueue[k].n # 0
         => sendQueue[j].n < sendQueue[k].n
    /\ \A c \in Conns : \A i \in 1..Len(got[c]) :
         /\ got[c][i] <= Len(handled)
         /\ \A k \in 1..Len(sendQueue) : sendQueue[k].n # 0 => got[c][i] < sendQueue[k].n

EchoIInv == /\ EchoTypeOK /\ EchoOrder /\ EchoOwners /\ EchoesQueued
            /\ EchoedInOrder /\ EchoAstrayOnlyIfGone

-----------------------------------------------------------------------------
(* Sequences, element by element. *)

LEMMA SeqAdds ==
    ASSUME NEW S, NEW s \in Seq(S), NEW e \in S
    PROVE  /\ Append(s, e) \in Seq(S) /\ Len(s) \in Nat /\ Len(Append(s, e)) = Len(s) + 1
           /\ \A k \in 1..Len(s) : Append(s, e)[k] = s[k] /\ s[k] \in S
           /\ Append(s, e)[Len(s) + 1] = e
  BY AppendProperties, LenProperties, ElementOfSeq

LEMMA SeqDrops ==
    ASSUME NEW S, NEW s \in Seq(S), s # <<>>
    PROVE  /\ Tail(s) \in Seq(S) /\ Len(s) \in Nat \ {0} /\ Len(Tail(s)) = Len(s) - 1
           /\ Head(s) = s[1] /\ Head(s) \in S
           /\ \A k \in 1..Len(Tail(s)) : Tail(s)[k] = s[k + 1] /\ k + 1 \in 1..Len(s)
  BY HeadTailProperties, LenProperties, EmptySeq

LEMMA SeqAt ==
    ASSUME NEW S, NEW s \in Seq(S)
    PROVE  /\ Len(s) \in Nat /\ \A k \in 1..Len(s) : s[k] \in S
           /\ s = <<>> <=> Len(s) = 0
  BY LenProperties, ElementOfSeq, EmptySeq

(***************************************************************************)
(* Erasing one element of a sequence that has each element once leaves     *)
(* every other element, once.                                              *)
(***************************************************************************)
LEMMA SeqErases ==
    ASSUME NEW S, NEW s \in Seq(S), NEW k \in 1..Len(s),
           \A i, j \in 1..Len(s) : s[i] = s[j] => i = j
    PROVE  /\ ErasedAt(s, k) \in Seq(S)
           /\ \A i, j \in 1..Len(ErasedAt(s, k)) :
                 ErasedAt(s, k)[i] = ErasedAt(s, k)[j] => i = j
           /\ {ErasedAt(s, k)[i] : i \in 1..Len(ErasedAt(s, k))} = {s[i] : i \in 1..Len(s)} \ {s[k]}
  <1> DEFINE t == ErasedAt(s, k)
             F == [i \in 1..(Len(s) - 1) |-> IF i < k THEN i ELSE i + 1]
  <1>1. Len(s) \in Nat /\ k \in 1..Len(s) /\ \A i \in 1..Len(s) : s[i] \in S
    BY SeqAt
  <1>2. Len(s) - 1 \in Nat
    BY <1>1
  <1>3. \A i \in 1..(Len(s) - 1) : s[IF i < k THEN i ELSE i + 1] \in S
    BY <1>1
  <1>4. t \in Seq(S) /\ Len(t) = Len(s) - 1 /\ \A i \in 1..Len(t) : t[i] = s[F[i]]
    <2>1. t \in Seq(S) /\ Len(t) = Len(s) - 1
      BY <1>2, <1>3 DEF ErasedAt
    <2>2. \A i \in 1..(Len(s) - 1) : t[i] = s[IF i < k THEN i ELSE i + 1]
      BY DEF ErasedAt
    <2> QED
      BY <2>1, <2>2
  <1>5. \A i \in 1..Len(t) : F[i] \in 1..Len(s) /\ F[i] # k
    BY <1>1, <1>4
  <1>6. \A i, j \in 1..Len(t) : F[i] = F[j] => i = j
    BY <1>1, <1>4
  <1>7. \A i \in 1..Len(s) : i # k => \E j \in 1..Len(t) : F[j] = i
    <2> TAKE i \in 1..Len(s)
    <2> HAVE i # k
    <2>1. CASE i < k
      <3>1. i \in 1..Len(t) /\ F[i] = i
        BY <1>1, <1>4, <2>1
      <3> QED
        BY <3>1
    <2>2. CASE i > k
      <3>1. i - 1 \in 1..Len(t) /\ F[i - 1] = i
        BY <1>1, <1>4, <2>2
      <3> QED
        BY <3>1
    <2>3. i < k \/ i > k
      BY <1>1
    <2> QED
      BY <2>1, <2>2, <2>3
  <1> HIDE DEF F, t
  <1>8. \A i, j \in 1..Len(t) : t[i] = t[j] => i = j
    <2> TAKE i, j \in 1..Len(t)
    <2> HAVE t[i] = t[j]
    <2>1. F[i] \in 1..Len(s) /\ F[j] \in 1..Len(s) /\ s[F[i]] = s[F[j]]
      BY <1>4, <1>5
    <2>2. F[i] = F[j]
      BY <2>1
    <2> QED
      BY <1>6, <2>2
  <1>9. {t[i] : i \in 1..Len(t)} = {s[i] : i \in 1..Len(s)} \ {s[k]}
    <2>1. ASSUME NEW i \in 1..Len(t)
          PROVE  t[i] # s[k] /\ \E j \in 1..Len(s) : s[j] = t[i]
      <3>1. F[i] \in 1..Len(s) /\ F[i] # k /\ t[i] = s[F[i]]
        BY <1>4, <1>5
      <3> QED
        BY <3>1
    <2>2. ASSUME NEW i \in 1..Len(s), s[i] # s[k]
          PROVE  \E j \in 1..Len(t) : t[j] = s[i]
      <3>1. PICK j \in 1..Len(t) : F[j] = i
        BY <1>7, <2>2
      <3>2. t[j] = s[i]
        BY <1>4, <3>1
      <3> QED
        BY <3>2
    <2> QED
      BY <2>1, <2>2, Z3T(30)
  <1> QED
    BY <1>4, <1>8, <1>9 DEF t

(***************************************************************************)
(* A list of different addresses is no longer than there are addresses:    *)
(* this bounds the loop of Broadcast.                                      *)
(***************************************************************************)
LEMMA DistinctFit ==
    ASSUME NEW s \in Seq(Addrs), \A i, j \in 1..Len(s) : s[i] = s[j] => i = j
    PROVE  Len(s) \in Nat /\ Cardinality(Addrs) \in Nat /\ Len(s) <= Cardinality(Addrs)
  <1>1. Len(s) \in Nat /\ s \in [1..Len(s) -> Addrs]
    BY LenProperties
  <1>2. s \in Injection(1..Len(s), Addrs)
    BY <1>1 DEF Injection, IsInjective
  <1>3. IsFiniteSet(Addrs) /\ Cardinality(Addrs) \in Nat
    BY EchoAssumption, FS_CardinalityType
  <1>4. Cardinality(1..Len(s)) <= Cardinality(Addrs)
    BY <1>2, <1>3, FS_Injection
  <1>5. Cardinality(1..Len(s)) = Len(s)
    BY <1>1, FS_Interval
  <1> QED
    BY <1>1, <1>3, <1>4, <1>5

-----------------------------------------------------------------------------
(* The state is well formed. *)

Casts == [at : 0..(Cardinality(Addrs) + 1), end : 0..Cardinality(Addrs), changed : BOOLEAN]

LEMMA EchoInitIInv == EchoInit => EchoIInv
  <1> SUFFICES ASSUME EchoInit PROVE EchoIInv
    OBVIOUS
  <1>1. /\ sendQueue = <<>> /\ clients = <<>> /\ bufs = <<>> /\ tempBufs = <<>>
        /\ asker = <<>> /\ handled = <<>> /\ Len(<<>>) = 0
        /\ \A c \in Conns : got[c] = <<>>
    BY DEF EchoInit
  <1>2. ListsTheLive
    BY <1>1 DEF ListsTheLive, EchoInit
  <1>3. EchoTypeOK
    <2>1. Cardinality(Addrs) \in Nat /\ MaxConns \in Nat /\ MaxReqs \in Nat /\ MaxCasts \in Nat
      BY EchoAssumption, FS_CardinalityType
    <2>2. 0 \in 0..MaxConns /\ 0 \in 0..MaxCasts /\ 0 \in 0..(Cardinality(Addrs) + 1)
      BY <2>1
    <2>3. \A S : <<>> \in Seq(S)
      BY EmptySeq
    <2>4. live \in [Addrs -> 0..MaxConns] /\ got \in [Conns -> Seq(Reqs)]
      BY <2>2, <2>3 DEF EchoInit
    <2> QED
      <3>1. sendQueue \in Seq([to : Addrs, n : 0..MaxReqs]) /\ clients \in Seq(Addrs)
        BY <1>1, <2>3
      <3>2. /\ bufs \in Seq(Buffers) /\ tempBufs \in Seq(Buffers)
            /\ asker \in Seq(Conns) /\ handled \in Seq(Reqs)
        BY <1>1, <2>3
      <3>3. cast \in Casts /\ conns \in 0..MaxConns /\ casts \in 0..MaxCasts
        BY <2>1, <2>2 DEF EchoInit, NoCast, Casts
      <3>4. /\ hasNew \in BOOLEAN /\ despatcher \in {"poll", "despatch"}
            /\ despatcher = "despatch" <=> tempBufs # <<>>
            /\ left \subseteq Conns
        BY DEF EchoInit
      <3> QED
        BY <1>2, <2>4, <3>1, <3>2, <3>3, <3>4 DEF EchoTypeOK, Casts
  <1>4. EchoOrder
    BY <1>1, EchoAssumption DEF EchoOrder, EchoInit
  <1>5. EchoOwners
    BY <1>1 DEF EchoOwners
  <1>6. EchoesQueued
    BY <1>1 DEF EchoesQueued
  <1>7. EchoedInOrder /\ EchoAstrayOnlyIfGone
    BY <1>1 DEF EchoedInOrder, EchoAstrayOnlyIfGone
  <1> QED
    BY <1>3, <1>4, <1>5, <1>6, <1>7 DEF EchoIInv

LEMMA ErasesOne ==
    ASSUME EchoTypeOK, NEW h \in Addrs, Erase(h)
    PROVE  /\ clients' \in Seq(Addrs)
           /\ {clients'[k] : k \in 1..Len(clients')} = {clients[k] : k \in 1..Len(clients)} \ {h}
           /\ \A j, k \in 1..Len(clients') : clients'[j] = clients'[k] => j = k
  <1>1. /\ clients \in Seq(Addrs)
        /\ \A j, k \in 1..Len(clients) : clients[j] = clients[k] => j = k
    BY DEF EchoTypeOK, ListsTheLive
  <1>2. CASE ~Listed(h) /\ UNCHANGED clients
    <2>1. \A k \in 1..Len(clients) : clients[k] # h
      BY <1>2 DEF Listed
    <2>2. {clients[k] : k \in 1..Len(clients)} = {clients[k] : k \in 1..Len(clients)} \ {h}
      BY <2>1
    <2> QED
      BY <1>1, <1>2, <2>2
  <1>3. CASE \E k \in 1..Len(clients) : Found(h, k) /\ clients' = ErasedAt(clients, k)
    <2>1. PICK k \in 1..Len(clients) : clients[k] = h /\ clients' = ErasedAt(clients, k)
      BY <1>3 DEF Found
    <2> QED
      <3> DEFINE t == ErasedAt(clients, k)
                 Left(s) == /\ s \in Seq(Addrs)
                            /\ \A i, j \in 1..Len(s) : s[i] = s[j] => i = j
                            /\ {s[i] : i \in 1..Len(s)} = {clients[i] : i \in 1..Len(clients)} \ {h}
      <3>1. /\ t \in Seq(Addrs)
            /\ \A i, j \in 1..Len(t) : t[i] = t[j] => i = j
            /\ {t[i] : i \in 1..Len(t)} = {clients[i] : i \in 1..Len(clients)} \ {clients[k]}
        BY <1>1, SeqErases
      <3>2. clients' = t /\ clients[k] = h
        BY <2>1
      <3> HIDE DEF t
      <3>3. Left(t)
        BY <3>1, <3>2
      <3> HIDE DEF Left
      <3>4. Left(clients')
        BY <3>2, <3>3
      <3> QED
        BY <3>4 DEF Left
  <1> QED
    BY <1>2, <1>3 DEF Erase

LEMMA AddsOne ==
    ASSUME EchoTypeOK, NEW h \in Addrs, live[h] = 0
    PROVE  /\ ~Listed(h)
           /\ Append(clients, h) \in Seq(Addrs)
           /\ {Append(clients, h)[k] : k \in 1..Len(Append(clients, h))}
                 = {clients[k] : k \in 1..Len(clients)} \cup {h}
           /\ \A j, k \in 1..Len(Append(clients, h)) :
                 Append(clients, h)[j] = Append(clients, h)[k] => j = k
  <1> DEFINE t == Append(clients, h)
  <1>1. /\ clients \in Seq(Addrs) /\ live \in [Addrs -> 0..MaxConns]
        /\ {clients[k] : k \in 1..Len(clients)} = {a \in Addrs : live[a] # 0}
        /\ \A j, k \in 1..Len(clients) : clients[j] = clients[k] => j = k
    BY DEF EchoTypeOK, ListsTheLive
  <1>2. \A k \in 1..Len(clients) : clients[k] # h
    BY <1>1
  <1>3. /\ t \in Seq(Addrs) /\ Len(clients) \in Nat /\ Len(t) = Len(clients) + 1
        /\ \A k \in 1..Len(clients) : t[k] = clients[k]
        /\ t[Len(clients) + 1] = h
    BY <1>1, SeqAdds
  <1> HIDE DEF t
  <1>4. \A k \in 1..Len(t) : k \in 1..Len(clients) \/ k = Len(clients) + 1
    BY <1>3
  <1>5. \A j, k \in 1..Len(t) : t[j] = t[k] => j = k
    <2>1. \A j, k \in 1..Len(clients) : t[j] = t[k] => j = k
      BY <1>1, <1>3
    <2>2. \A j \in 1..Len(clients) : t[j] # t[Len(clients) + 1]
      BY <1>2, <1>3
    <2> QED
      BY <1>4, <2>1, <2>2
  <1>6. ASSUME NEW k \in 1..Len(t)
        PROVE  t[k] = h \/ \E j \in 1..Len(clients) : clients[j] = t[k]
    BY <1>3, <1>4
  <1>7. \A k \in 1..Len(clients) : k \in 1..Len(t) /\ t[k] = clients[k]
    BY <1>3
  <1>8. Len(clients) + 1 \in 1..Len(t) /\ t[Len(clients) + 1] = h
    BY <1>3
  <1>9. {t[k] : k \in 1..Len(t)} = {clients[k] : k \in 1..Len(clients)} \cup {h}
    BY <1>6, <1>7, <1>8
  <1>10. ~Listed(h)
    BY <1>2 DEF Listed
  <1> QED
    BY <1>3, <1>5, <1>9, <1>10 DEF t

EchoOthers == \/ \E h \in Addrs : ServerOnMsg(h)
              \/ ServerWrites \/ Poll \/ DespatchMsg \/ BroadcastBegin \/ BroadcastOne

LEMMA NextListed ==
    EchoTypeOK /\ [EchoNext]_echoVars => clients' \in Seq(Addrs) /\ ListsTheLive'
  <1> SUFFICES ASSUME EchoTypeOK, [EchoNext]_echoVars
               PROVE  clients' \in Seq(Addrs) /\ ListsTheLive'
    OBVIOUS
  <1>1. /\ clients \in Seq(Addrs) /\ live \in [Addrs -> 0..MaxConns] /\ conns \in 0..MaxConns
        /\ {clients[k] : k \in 1..Len(clients)} = {a \in Addrs : live[a] # 0}
        /\ \A j, k \in 1..Len(clients) : clients[j] = clients[k] => j = k
    BY DEF EchoTypeOK, ListsTheLive
  <1>2. ASSUME NEW h \in Addrs, OnNewConnection(h)
        PROVE  clients' \in Seq(Addrs) /\ ListsTheLive'
    <2>1. live[h] = 0 /\ live' = [live EXCEPT ![h] = conns + 1] /\ conns + 1 # 0
      BY <1>1, <1>2, EchoAssumption DEF OnNewConnection
    <2>2. /\ ~Listed(h)
          /\ Append(clients, h) \in Seq(Addrs)
          /\ {Append(clients, h)[k] : k \in 1..Len(Append(clients, h))}
                = {clients[k] : k \in 1..Len(clients)} \cup {h}
          /\ \A j, k \in 1..Len(Append(clients, h)) :
                Append(clients, h)[j] = Append(clients, h)[k] => j = k
      BY <2>1, AddsOne
    <2>3. clients' = Append(clients, h)
      BY <1>2, <2>2 DEF OnNewConnection
    <2>4. {a \in Addrs : live'[a] # 0} = {a \in Addrs : live[a] # 0} \cup {h}
      BY <1>1, <2>1
    <2> QED
      BY <1>1, <2>2, <2>3, <2>4 DEF ListsTheLive
  <1>3. ASSUME NEW h \in Addrs, OnDisconnection(h)
        PROVE  clients' \in Seq(Addrs) /\ ListsTheLive'
    <2>1. live' = [live EXCEPT ![h] = 0] /\ Erase(h)
      BY <1>3 DEF OnDisconnection
    <2>2. /\ clients' \in Seq(Addrs)
          /\ {clients'[k] : k \in 1..Len(clients')}
                = {clients[k] : k \in 1..Len(clients)} \ {h}
          /\ \A j, k \in 1..Len(clients') : clients'[j] = clients'[k] => j = k
      BY <2>1, ErasesOne
    <2>3. {a \in Addrs : live'[a] # 0} = {a \in Addrs : live[a] # 0} \ {h}
      BY <1>1, <2>1
    <2> QED
      BY <1>1, <2>2, <2>3 DEF ListsTheLive
  <1>4. ASSUME EchoOthers \/ UNCHANGED echoVars
        PROVE  clients' \in Seq(Addrs) /\ ListsTheLive'
    <2>1. UNCHANGED <<clients, live>>
      BY <1>4 DEF EchoOthers, ServerOnMsg, ServerWrites, Poll, DespatchMsg, BroadcastBegin,
                  BroadcastOne, echoVars, netVars, despatchVars, count
    <2> QED
      BY <1>1, <2>1 DEF ListsTheLive
  <1>5. \/ \E h \in Addrs : OnNewConnection(h) \/ OnDisconnection(h)
        \/ EchoOthers \/ UNCHANGED echoVars
    BY DEF EchoNext, EchoOthers
  <1> QED
    BY <1>2, <1>3, <1>4, <1>5

(***************************************************************************)
(* The variables of the network and of the history.                        *)
(***************************************************************************)
NetTyped == /\ live \in [Addrs -> 0..MaxConns] /\ conns \in 0..MaxConns
            /\ left \subseteq Conns /\ asker \in Seq(Conns)

LEMMA NextNetTyped == EchoTypeOK /\ [EchoNext]_echoVars => NetTyped'
  <1> SUFFICES ASSUME EchoTypeOK, [EchoNext]_echoVars PROVE NetTyped'
    OBVIOUS
  <1>1. NetTyped /\ MaxConns \in Nat
    BY EchoAssumption DEF EchoTypeOK, NetTyped
  <1>2. ASSUME NEW h \in Addrs, OnNewConnection(h) PROVE NetTyped'
    <2>1. /\ conns' = conns + 1 /\ conns < MaxConns
          /\ live' = [live EXCEPT ![h] = conns + 1] /\ UNCHANGED <<left, asker>>
      BY <1>2 DEF OnNewConnection
    <2>2. conns + 1 \in 0..MaxConns
      BY <1>1, <2>1 DEF NetTyped
    <2> QED
      BY <1>1, <2>1, <2>2 DEF NetTyped
  <1>3. ASSUME NEW h \in Addrs, OnDisconnection(h) PROVE NetTyped'
    <2>1. /\ left' = left \cup {live[h]} /\ live[h] # 0
          /\ live' = [live EXCEPT ![h] = 0] /\ UNCHANGED <<conns, asker>>
      BY <1>3 DEF OnDisconnection
    <2>2. live[h] \in Conns /\ 0 \in 0..MaxConns
      BY <1>1, <2>1 DEF NetTyped, Conns
    <2> QED
      BY <1>1, <2>1, <2>2 DEF NetTyped
  <1>4. ASSUME NEW h \in Addrs, ServerOnMsg(h) PROVE NetTyped'
    <2>1. asker' = Append(asker, live[h]) /\ live[h] # 0 /\ UNCHANGED <<live, conns, left>>
      BY <1>4 DEF ServerOnMsg, netVars
    <2>2. live[h] \in Conns
      BY <1>1, <2>1 DEF NetTyped, Conns
    <2> QED
      BY <1>1, <2>1, <2>2 DEF NetTyped
  <1>5. ASSUME \/ ServerWrites \/ Poll \/ DespatchMsg \/ BroadcastBegin \/ BroadcastOne
               \/ UNCHANGED echoVars
        PROVE  NetTyped'
    <2>1. UNCHANGED <<live, conns, left, asker>>
      BY <1>5 DEF ServerWrites, Poll, DespatchMsg, BroadcastBegin,
                  BroadcastOne, echoVars, netVars, despatchVars, count
    <2> QED
      BY <1>1, <2>1 DEF NetTyped
  <1> QED
    BY <1>2, <1>3, <1>4, <1>5 DEF EchoNext

(***************************************************************************)
(* The buffers on their way: to the dispatcher, and to the clients.        *)
(***************************************************************************)
DespatchTyped == /\ bufs \in Seq(Buffers) /\ tempBufs \in Seq(Buffers)
                 /\ hasNew \in BOOLEAN /\ despatcher \in {"poll", "despatch"}
                 /\ (despatcher = "despatch" <=> tempBufs # <<>>)
                 /\ handled \in Seq(Reqs)

LEMMA NextDespatchTyped ==
    EchoTypeOK /\ EchoOrder /\ [EchoNext]_echoVars => DespatchTyped'
  <1> SUFFICES ASSUME EchoTypeOK, EchoOrder, [EchoNext]_echoVars PROVE DespatchTyped'
    OBVIOUS
  <1>1. DespatchTyped
    BY DEF EchoTypeOK, DespatchTyped
  <1>2. ASSUME NEW h \in Addrs, ServerOnMsg(h) PROVE DespatchTyped'
    <2>1. PICK stx \in BOOLEAN :
             bufs' = Append(bufs, [n |-> Len(asker) + 1, from |-> h, stx |-> stx])
      BY <1>2 DEF ServerOnMsg
    <2>2. Len(asker) + 1 \in Reqs
      <3>1. Len(asker) \in Nat /\ Len(asker) < MaxReqs /\ MaxReqs \in Nat
        BY <1>2, SeqAt, EchoAssumption DEF EchoTypeOK, ServerOnMsg
      <3> QED
        BY <3>1 DEF Reqs
    <2>3. [n |-> Len(asker) + 1, from |-> h, stx |-> stx] \in Buffers
      BY <2>2 DEF Buffers
    <2>4. bufs' \in Seq(Buffers)
      BY <1>1, <2>1, <2>3, SeqAdds DEF DespatchTyped
    <2>5. hasNew' = TRUE /\ UNCHANGED <<tempBufs, despatcher, handled>>
      BY <1>2 DEF ServerOnMsg
    <2> QED
      BY <1>1, <2>4, <2>5 DEF DespatchTyped
  <1>3. ASSUME Poll PROVE DespatchTyped'
    <2>1. /\ tempBufs' = bufs /\ bufs' = tempBufs /\ hasNew' = FALSE /\ despatcher' = "despatch"
          /\ UNCHANGED handled /\ hasNew
      BY <1>3 DEF Poll
    <2>2. bufs # <<>>
      BY <2>1 DEF EchoOrder
    <2> QED
      BY <1>1, <2>1, <2>2 DEF DespatchTyped
  <1>4. ASSUME DespatchMsg PROVE DespatchTyped'
    <2>1. /\ tempBufs # <<>> /\ tempBufs' = Tail(tempBufs)
          /\ handled' = Append(handled, Head(tempBufs).n)
          /\ despatcher' = IF Tail(tempBufs) = <<>> THEN "poll" ELSE "despatch"
          /\ UNCHANGED <<bufs, hasNew>>
      BY <1>1, <1>4 DEF DespatchMsg, DespatchTyped
    <2>2. Tail(tempBufs) \in Seq(Buffers) /\ Head(tempBufs) \in Buffers
      BY <1>1, <2>1, SeqDrops DEF DespatchTyped
    <2>3. Head(tempBufs).n \in Reqs
      BY <2>2 DEF Buffers
    <2>4. handled' \in Seq(Reqs)
      BY <1>1, <2>1, <2>3, SeqAdds DEF DespatchTyped
    <2> QED
      BY <1>1, <2>1, <2>2, <2>4 DEF DespatchTyped
  <1>5. ASSUME \/ \E h \in Addrs : OnNewConnection(h) \/ OnDisconnection(h)
               \/ ServerWrites \/ BroadcastBegin \/ BroadcastOne \/ UNCHANGED echoVars
        PROVE  DespatchTyped'
    <2>1. UNCHANGED despatchVars
      BY <1>5 DEF OnNewConnection, OnDisconnection, ServerWrites, BroadcastBegin,
                  BroadcastOne, echoVars
    <2> QED
      BY <1>1, <2>1 DEF DespatchTyped, despatchVars
  <1> QED
    BY <1>2, <1>3, <1>4, <1>5 DEF EchoNext

SendTyped == /\ sendQueue \in Seq([to : Addrs, n : 0..MaxReqs])
             /\ got \in [Conns -> Seq(Reqs)]

\* What ServerWrites does, by the fate of the buffer.
LEMMA WritesEffects ==
    ASSUME EchoTypeOK, ServerWrites
    PROVE  /\ sendQueue # <<>> /\ sendQueue' = Tail(sendQueue) /\ Head(sendQueue) = sendQueue[1]
           /\ sendQueue[1].to \in Addrs /\ sendQueue[1].n \in 0..MaxReqs
           /\ \/ UNCHANGED got
              \/ /\ live[sendQueue[1].to] \in Conns /\ sendQueue[1].n # 0 /\ sendQueue[1].n \in Reqs
                 /\ got' = [got EXCEPT ![live[sendQueue[1].to]] =
                               Append(got[live[sendQueue[1].to]], sendQueue[1].n)]
  <1> DEFINE m == Head(sendQueue)
  <1>1. sendQueue # <<>> /\ sendQueue' = Tail(sendQueue)
    BY DEF ServerWrites
  <1>2. m = sendQueue[1] /\ m \in [to : Addrs, n : 0..MaxReqs]
    BY <1>1, SeqDrops DEF EchoTypeOK
  <1>3. live[m.to] \in 0..MaxConns /\ m.to \in Addrs /\ m.n \in 0..MaxReqs
    BY <1>2 DEF EchoTypeOK
  <1>4. got' = IF live[m.to] # 0 /\ m.n # 0
               THEN [got EXCEPT ![live[m.to]] = Append(got[live[m.to]], m.n)] ELSE got
    BY DEF ServerWrites
  <1>5. live[m.to] # 0 => live[m.to] \in Conns
    BY <1>3, EchoAssumption DEF Conns
  <1>6. m.n # 0 => m.n \in Reqs
    BY <1>3, EchoAssumption DEF Reqs
  <1> HIDE DEF m
  <1> QED
    BY <1>1, <1>2, <1>3, <1>4, <1>5, <1>6 DEF m

LEMMA NextSendTyped == EchoTypeOK /\ [EchoNext]_echoVars => SendTyped'
  <1> SUFFICES ASSUME EchoTypeOK, [EchoNext]_echoVars PROVE SendTyped'
    OBVIOUS
  <1>1. SendTyped
    BY DEF EchoTypeOK, SendTyped
  <1>2. ASSUME ServerWrites PROVE SendTyped'
    <2>1. sendQueue # <<>> /\ sendQueue' = Tail(sendQueue)
      BY <1>2 DEF ServerWrites
    <2>2. sendQueue' \in Seq([to : Addrs, n : 0..MaxReqs])
      BY <1>1, <2>1, SeqDrops DEF SendTyped
    <2>3. \/ UNCHANGED got
          \/ \E c \in Conns, n \in Reqs : got' = [got EXCEPT ![c] = Append(got[c], n)]
      BY <1>2, WritesEffects
    <2>4. ASSUME NEW c \in Conns, NEW n \in Reqs PROVE Append(got[c], n) \in Seq(Reqs)
      BY <1>1, SeqAdds DEF SendTyped
    <2> QED
      BY <1>1, <2>2, <2>3, <2>4 DEF SendTyped
  <1>3. ASSUME DespatchMsg PROVE SendTyped'
    <2>1. tempBufs # <<>> /\ tempBufs \in Seq(Buffers)
      BY <1>3 DEF DespatchMsg, EchoTypeOK
    <2>2. Head(tempBufs) \in Buffers
      BY <2>1, SeqDrops
    <2>3. [to |-> Head(tempBufs).from, n |-> Head(tempBufs).n] \in [to : Addrs, n : 0..MaxReqs]
      BY <2>2 DEF Buffers, Reqs
    <2>4. \/ UNCHANGED sendQueue
          \/ sendQueue' = Append(sendQueue, [to |-> Head(tempBufs).from, n |-> Head(tempBufs).n])
      BY <1>3 DEF DespatchMsg, EchoCmd
    <2>5. sendQueue' \in Seq([to : Addrs, n : 0..MaxReqs])
      <3> DEFINE e == [to |-> Head(tempBufs).from, n |-> Head(tempBufs).n]
      <3>1. Append(sendQueue, e) \in Seq([to : Addrs, n : 0..MaxReqs])
        BY <1>1, <2>3, SeqAdds DEF SendTyped
      <3> QED
        BY <1>1, <2>4, <3>1 DEF SendTyped
    <2>6. UNCHANGED got
      BY <1>3 DEF DespatchMsg
    <2> QED
      BY <1>1, <2>5, <2>6 DEF SendTyped
  <1>4. ASSUME BroadcastOne PROVE SendTyped'
    <2>1. UNCHANGED got
      BY <1>4 DEF BroadcastOne
    <2>2. CASE UNCHANGED sendQueue
      BY <1>1, <2>1, <2>2 DEF SendTyped
    <2>3. ASSUME NEW h \in Addrs, sendQueue' = Append(sendQueue, [to |-> h, n |-> 0])
          PROVE  SendTyped'
      <3>1. [to |-> h, n |-> 0] \in [to : Addrs, n : 0..MaxReqs]
        BY EchoAssumption
      <3>2. sendQueue' \in Seq([to : Addrs, n : 0..MaxReqs])
        BY <1>1, <2>3, <3>1, SeqAdds DEF SendTyped
      <3> QED
        BY <1>1, <2>1, <3>2 DEF SendTyped
    <2> QED
      BY <1>4, <2>2, <2>3 DEF BroadcastOne
  <1>5. ASSUME \/ \E h \in Addrs : OnNewConnection(h) \/ OnDisconnection(h) \/ ServerOnMsg(h)
               \/ Poll \/ BroadcastBegin \/ UNCHANGED echoVars
        PROVE  SendTyped'
    <2>1. UNCHANGED <<sendQueue, got>>
      BY <1>5 DEF OnNewConnection, OnDisconnection, ServerOnMsg, Poll, BroadcastBegin,
                  echoVars, netVars
    <2> QED
      BY <1>1, <2>1 DEF SendTyped
  <1> QED
    BY <1>2, <1>3, <1>4, <1>5 DEF EchoNext

CastTyped == cast \in Casts /\ casts \in 0..MaxCasts

LEMMA NextCastTyped == EchoTypeOK /\ [EchoNext]_echoVars => CastTyped'
  <1> SUFFICES ASSUME EchoTypeOK, [EchoNext]_echoVars PROVE CastTyped'
    OBVIOUS
  <1>1. CastTyped /\ MaxCasts \in Nat
    BY EchoAssumption DEF EchoTypeOK, CastTyped, Casts
  <1>2. Len(clients) \in Nat /\ Cardinality(Addrs) \in Nat /\ Len(clients) <= Cardinality(Addrs)
    BY DistinctFit DEF EchoTypeOK, ListsTheLive
  <1>3. ASSUME BroadcastBegin PROVE CastTyped'
    <2>1. /\ cast' = [at |-> 1, end |-> Len(clients), changed |-> FALSE]
          /\ casts' = casts + 1 /\ casts < MaxCasts
      BY <1>3 DEF BroadcastBegin
    <2> QED
      BY <1>1, <1>2, <2>1 DEF CastTyped, Casts
  <1>4. ASSUME BroadcastOne PROVE CastTyped'
    <2>1. UNCHANGED casts
      BY <1>4 DEF BroadcastOne, count
    <2>2. CASE cast.at <= cast.end /\ cast' = [cast EXCEPT !.at = @ + 1]
      BY <1>1, <1>2, <2>1, <2>2 DEF CastTyped, Casts
    <2>3. CASE cast' = NoCast
      BY <1>1, <1>2, <2>1, <2>3 DEF CastTyped, Casts, NoCast
    <2> QED
      BY <1>4, <2>2, <2>3 DEF BroadcastOne
  <1>5. ASSUME NEW h \in Addrs, OnNewConnection(h) \/ OnDisconnection(h) PROVE CastTyped'
    <2>1. cast' = [cast EXCEPT !.changed = (cast.at # 0)] /\ UNCHANGED casts
      BY <1>5 DEF OnNewConnection, OnDisconnection, Disturb
    <2> QED
      BY <1>1, <2>1 DEF CastTyped, Casts
  <1>6. ASSUME \/ \E h \in Addrs : ServerOnMsg(h)
               \/ ServerWrites \/ Poll \/ DespatchMsg \/ UNCHANGED echoVars
        PROVE  CastTyped'
    <2>1. UNCHANGED <<cast, casts>>
      BY <1>6 DEF ServerOnMsg, ServerWrites, Poll, DespatchMsg, echoVars, count
    <2> QED
      BY <1>1, <2>1 DEF CastTyped
  <1> QED
    BY <1>3, <1>4, <1>5, <1>6 DEF EchoNext

LEMMA NextEchoTyped == EchoTypeOK /\ EchoOrder /\ [EchoNext]_echoVars => EchoTypeOK'
  BY NextListed, NextNetTyped, NextDespatchTyped, NextSendTyped, NextCastTyped
     DEF EchoTypeOK, NetTyped, DespatchTyped, SendTyped, CastTyped, Casts

-----------------------------------------------------------------------------
(* What the steps do, buffer by buffer. *)

Lengths == /\ Len(bufs) \in Nat /\ Len(tempBufs) \in Nat /\ Len(handled) \in Nat
           /\ Len(asker) \in Nat /\ Len(sendQueue) \in Nat
           /\ \A c \in Conns : Len(got[c]) \in Nat

LEMMA EchoLengths == EchoTypeOK => Lengths
  BY SeqAt DEF EchoTypeOK, Lengths

LEMMA OnMsgAt ==
    ASSUME EchoTypeOK, NEW h \in Addrs, ServerOnMsg(h)
    PROVE  /\ live[h] # 0 /\ Len(asker) < MaxReqs /\ hasNew' = TRUE /\ bufs' # <<>>
           /\ Len(bufs') = Len(bufs) + 1 /\ \A k \in 1..Len(bufs) : bufs'[k] = bufs[k]
           /\ bufs'[Len(bufs) + 1].n = Len(asker) + 1 /\ bufs'[Len(bufs) + 1].from = h
           /\ Len(asker') = Len(asker) + 1 /\ \A k \in 1..Len(asker) : asker'[k] = asker[k]
           /\ asker'[Len(asker) + 1] = live[h]
           /\ UNCHANGED <<live, left, tempBufs, handled, sendQueue, got>>
  <1>1. /\ live[h] # 0 /\ Len(asker) < MaxReqs /\ hasNew' = TRUE /\ asker' = Append(asker, live[h])
        /\ UNCHANGED <<live, left, tempBufs, handled, sendQueue, got>>
    BY DEF ServerOnMsg, netVars
  <1>2. PICK stx \in BOOLEAN : bufs' = Append(bufs, [n |-> Len(asker) + 1, from |-> h, stx |-> stx])
    BY DEF ServerOnMsg
  <1> DEFINE e == [n |-> Len(asker) + 1, from |-> h, stx |-> stx]
  <1>3. bufs \in Seq(Buffers) /\ e \in Buffers /\ e.n = Len(asker) + 1 /\ e.from = h
    <2>1. Len(asker) \in Nat /\ Len(asker) < MaxReqs /\ MaxReqs \in Nat
      BY <1>1, SeqAt, EchoAssumption DEF EchoTypeOK
    <2>2. Len(asker) + 1 \in Reqs
      BY <2>1 DEF Reqs
    <2> QED
      BY <2>2 DEF Buffers, EchoTypeOK
  <1> HIDE DEF e
  <1>4. /\ bufs' # <<>> /\ Len(bufs') = Len(bufs) + 1
        /\ \A k \in 1..Len(bufs) : bufs'[k] = bufs[k]
        /\ bufs'[Len(bufs) + 1] = e
    <2>1. bufs' = Append(bufs, e)
      BY <1>2 DEF e
    <2> QED
      BY <1>3, <2>1, AppendProperties
  <1>5. asker \in Seq(Conns) /\ live[h] \in Conns
    BY <1>1, EchoAssumption DEF EchoTypeOK, Conns
  <1>6. /\ Len(asker') = Len(asker) + 1 /\ \A k \in 1..Len(asker) : asker'[k] = asker[k]
        /\ asker'[Len(asker) + 1] = live[h]
    BY <1>1, <1>5, SeqAdds
  <1> QED
    BY <1>1, <1>3, <1>4, <1>6

LEMMA DespatchAt ==
    ASSUME EchoTypeOK, DespatchMsg
    PROVE  /\ Len(tempBufs) \in Nat \ {0} /\ Len(tempBufs') = Len(tempBufs) - 1
           /\ \A k \in 1..Len(tempBufs') :
                 tempBufs'[k] = tempBufs[k + 1] /\ k + 1 \in 1..Len(tempBufs)
           /\ tempBufs[1].n \in Reqs
           /\ Len(handled') = Len(handled) + 1
           /\ \A k \in 1..Len(handled) : handled'[k] = handled[k]
           /\ handled'[Len(handled) + 1] = tempBufs[1].n
           /\ \/ UNCHANGED sendQueue
              \/ /\ Len(sendQueue') = Len(sendQueue) + 1
                 /\ \A k \in 1..Len(sendQueue) : sendQueue'[k] = sendQueue[k]
                 /\ sendQueue'[Len(sendQueue) + 1].to = tempBufs[1].from
                 /\ sendQueue'[Len(sendQueue) + 1].n = tempBufs[1].n
           /\ UNCHANGED <<live, left, asker, bufs, hasNew, got>>
  <1>1. /\ tempBufs \in Seq(Buffers) /\ tempBufs # <<>> /\ handled \in Seq(Reqs)
        /\ sendQueue \in Seq([to : Addrs, n : 0..MaxReqs])
    BY DEF EchoTypeOK, DespatchMsg
  <1>2. /\ Len(tempBufs) \in Nat \ {0} /\ Len(Tail(tempBufs)) = Len(tempBufs) - 1
        /\ Head(tempBufs) = tempBufs[1] /\ Head(tempBufs) \in Buffers
        /\ \A k \in 1..Len(Tail(tempBufs)) :
              Tail(tempBufs)[k] = tempBufs[k + 1] /\ k + 1 \in 1..Len(tempBufs)
    BY <1>1, SeqDrops
  <1>3. /\ tempBufs' = Tail(tempBufs) /\ handled' = Append(handled, Head(tempBufs).n)
        /\ UNCHANGED <<live, left, asker, bufs, hasNew, got>>
    BY DEF DespatchMsg, count
  <1>4. tempBufs[1].n \in Reqs /\ tempBufs[1].from \in Addrs
    BY <1>2 DEF Buffers
  <1>5. /\ Len(handled') = Len(handled) + 1
        /\ \A k \in 1..Len(handled) : handled'[k] = handled[k]
        /\ handled'[Len(handled) + 1] = tempBufs[1].n
    BY <1>1, <1>2, <1>3, <1>4, SeqAdds
  <1> DEFINE e == [to |-> tempBufs[1].from, n |-> tempBufs[1].n]
  <1>6. UNCHANGED sendQueue \/ sendQueue' = Append(sendQueue, e)
    BY <1>2 DEF DespatchMsg, EchoCmd
  <1>7. e \in [to : Addrs, n : 0..MaxReqs] /\ e.to = tempBufs[1].from /\ e.n = tempBufs[1].n
    BY <1>4 DEF Reqs
  <1> HIDE DEF e
  <1>8. /\ Len(Append(sendQueue, e)) = Len(sendQueue) + 1
        /\ \A k \in 1..Len(sendQueue) : Append(sendQueue, e)[k] = sendQueue[k]
        /\ Append(sendQueue, e)[Len(sendQueue) + 1] = e
    BY <1>1, <1>7, SeqAdds
  <1> QED
    BY <1>2, <1>3, <1>4, <1>5, <1>6, <1>7, <1>8

LEMMA BroadcastAt ==
    ASSUME EchoTypeOK, BroadcastOne
    PROVE  /\ \/ UNCHANGED sendQueue
              \/ /\ Len(sendQueue') = Len(sendQueue) + 1
                 /\ \A k \in 1..Len(sendQueue) : sendQueue'[k] = sendQueue[k]
                 /\ sendQueue'[Len(sendQueue) + 1].n = 0
           /\ UNCHANGED <<live, left, asker, bufs, tempBufs, hasNew, handled, got>>
  <1>1. /\ sendQueue \in Seq([to : Addrs, n : 0..MaxReqs])
        /\ sendQueue' \in Seq([to : Addrs, n : 0..MaxReqs])
    <2>1. SendTyped'
      BY NextSendTyped DEF EchoNext
    <2> QED
      BY <2>1 DEF EchoTypeOK, SendTyped
  <1>2. UNCHANGED <<live, left, asker, bufs, tempBufs, hasNew, handled, got>>
    BY DEF BroadcastOne, despatchVars, count
  <1>3. \/ UNCHANGED sendQueue
        \/ \E h \in Addrs : sendQueue' = Append(sendQueue, [to |-> h, n |-> 0])
    BY DEF BroadcastOne
  <1>4. ASSUME NEW h \in Addrs, sendQueue' = Append(sendQueue, [to |-> h, n |-> 0])
        PROVE  /\ Len(sendQueue') = Len(sendQueue) + 1
               /\ \A k \in 1..Len(sendQueue) : sendQueue'[k] = sendQueue[k]
               /\ sendQueue'[Len(sendQueue) + 1].n = 0
    BY <1>1, <1>4
  <1> QED
    BY <1>2, <1>3, <1>4

LEMMA WritesAt ==
    ASSUME EchoTypeOK, ServerWrites
    PROVE  /\ Len(sendQueue) \in Nat \ {0} /\ Len(sendQueue') = Len(sendQueue) - 1
           /\ \A k \in 1..Len(sendQueue') :
                 sendQueue'[k] = sendQueue[k + 1] /\ k + 1 \in 1..Len(sendQueue)
           /\ UNCHANGED <<live, left, asker, bufs, tempBufs, hasNew, handled>>
  <1>1. /\ sendQueue \in Seq([to : Addrs, n : 0..MaxReqs])
        /\ sendQueue # <<>> /\ sendQueue' = Tail(sendQueue)
    BY DEF EchoTypeOK, ServerWrites
  <1>2. UNCHANGED <<live, left, asker, bufs, tempBufs, hasNew, handled>>
    BY DEF ServerWrites, despatchVars, count
  <1> QED
    BY <1>1, <1>2, SeqDrops

LEMMA QuietAt ==
    ASSUME BroadcastBegin \/ UNCHANGED echoVars
    PROVE  UNCHANGED <<live, left, asker, bufs, tempBufs, hasNew, handled, sendQueue, got>>
  BY DEF BroadcastBegin, echoVars, netVars, despatchVars, count

-----------------------------------------------------------------------------
(* The order of the messages. *)

LEMMA NextEchoOrder == EchoTypeOK /\ EchoOrder /\ [EchoNext]_echoVars => EchoOrder'
  <1> SUFFICES ASSUME EchoTypeOK, EchoOrder, [EchoNext]_echoVars PROVE EchoOrder'
    OBVIOUS
  <1>1. Lengths /\ MaxReqs \in Nat
    BY EchoLengths, EchoAssumption
  <1>2. ASSUME NEW h \in Addrs, ServerOnMsg(h) PROVE EchoOrder'
    <2>1. /\ Len(asker) < MaxReqs /\ hasNew' = TRUE /\ bufs' # <<>>
          /\ Len(bufs') = Len(bufs) + 1 /\ \A k \in 1..Len(bufs) : bufs'[k] = bufs[k]
          /\ bufs'[Len(bufs) + 1].n = Len(asker) + 1 /\ Len(asker') = Len(asker) + 1
          /\ UNCHANGED <<tempBufs, handled>>
      BY <1>2, OnMsgAt
    <2>2. \A k \in 1..Len(bufs') : bufs'[k].n = Len(handled') + Len(tempBufs') + k
      <3>1. \A k \in 1..Len(bufs') : k \in 1..Len(bufs) \/ k = Len(bufs) + 1
        BY <1>1, <2>1 DEF Lengths
      <3>2. bufs'[Len(bufs) + 1].n = Len(handled) + Len(tempBufs) + (Len(bufs) + 1)
        <4>1. Len(handled) + Len(tempBufs) + Len(bufs) = Len(asker)
          BY DEF EchoOrder
        <4>2. bufs'[Len(bufs) + 1].n = Len(asker) + 1
          BY <2>1
        <4>3. Len(asker) + 1 = Len(handled) + Len(tempBufs) + (Len(bufs) + 1)
          BY <1>1, <4>1 DEF Lengths
        <4> QED
          BY <4>2, <4>3
      <3> QED
        BY <2>1, <3>1, <3>2 DEF EchoOrder
    <2>3. Len(asker') <= MaxReqs /\ Len(handled') + Len(tempBufs') + Len(bufs') = Len(asker')
      <3>1. Len(handled) + Len(tempBufs) + Len(bufs) = Len(asker) /\ Len(asker) < MaxReqs
        BY <2>1 DEF EchoOrder
      <3>2. /\ Len(asker) + 1 <= MaxReqs
            /\ Len(handled) + Len(tempBufs) + (Len(bufs) + 1) = Len(asker) + 1
        BY <1>1, <3>1 DEF Lengths
      <3> QED
        BY <2>1, <3>2
    <2> QED
      BY <2>1, <2>2, <2>3 DEF EchoOrder
  <1>3. ASSUME Poll PROVE EchoOrder'
    <2>1. /\ tempBufs = <<>> /\ tempBufs' = bufs /\ bufs' = tempBufs /\ hasNew' = FALSE
          /\ UNCHANGED <<handled, asker>> /\ Len(tempBufs) = 0
      BY <1>3, SeqAt DEF Poll, count, EchoTypeOK
    <2>2. \A k \in 1..Len(tempBufs') : tempBufs'[k].n = Len(handled') + k
      <3>1. \A k \in 1..Len(bufs) : Len(handled) + Len(tempBufs) + k = Len(handled) + k
        BY <1>1, <2>1 DEF Lengths
      <3>2. \A k \in 1..Len(bufs) : bufs[k].n = Len(handled) + k
        BY <3>1 DEF EchoOrder
      <3>3. tempBufs' = bufs /\ handled' = handled
        BY <2>1
      <3> QED
        BY <3>2, <3>3
    <2>3. Len(handled') + Len(tempBufs') + Len(bufs') = Len(asker')
      <3>1. Len(handled) + Len(bufs) + 0 = Len(asker)
        BY <1>1, <2>1 DEF Lengths, EchoOrder
      <3> QED
        BY <2>1, <3>1
    <2>4. Len(asker') <= MaxReqs /\ \A k \in 1..Len(handled') : handled'[k] = k
      BY <2>1 DEF EchoOrder
    <2>5. bufs' = <<>> /\ 1..Len(bufs') = {} /\ hasNew' = FALSE
      BY <2>1
    <2> QED
      BY <2>2, <2>3, <2>4, <2>5 DEF EchoOrder
  <1>4. ASSUME DespatchMsg PROVE EchoOrder'
    <2>1. /\ Len(tempBufs) \in Nat \ {0} /\ Len(tempBufs') = Len(tempBufs) - 1
          /\ \A k \in 1..Len(tempBufs') :
                tempBufs'[k] = tempBufs[k + 1] /\ k + 1 \in 1..Len(tempBufs)
          /\ Len(handled') = Len(handled) + 1
          /\ \A k \in 1..Len(handled) : handled'[k] = handled[k]
          /\ handled'[Len(handled) + 1] = tempBufs[1].n
          /\ UNCHANGED <<asker, bufs, hasNew>>
      BY <1>4, DespatchAt
    <2>2. tempBufs[1].n = Len(handled) + 1
      <3>1. 1 \in 1..Len(tempBufs)
        BY <2>1
      <3> QED
        BY <3>1 DEF EchoOrder
    <2>3. \A k \in 1..Len(handled') : handled'[k] = k
      <3>1. \A k \in 1..Len(handled') : k \in 1..Len(handled) \/ k = Len(handled) + 1
        BY <1>1, <2>1 DEF Lengths
      <3> QED
        BY <2>1, <2>2, <3>1 DEF EchoOrder
    <2>4. \A k \in 1..Len(tempBufs') : tempBufs'[k].n = Len(handled') + k
      <3>1. \A k \in 1..Len(tempBufs') : Len(handled) + (k + 1) = (Len(handled) + 1) + k
        BY <1>1, <2>1 DEF Lengths
      <3>2. \A k \in 1..Len(tempBufs') : tempBufs[k + 1].n = Len(handled) + (k + 1)
        BY <2>1 DEF EchoOrder
      <3> QED
        BY <2>1, <3>1, <3>2
    <2>5. Len(handled') + Len(tempBufs') = Len(handled) + Len(tempBufs)
      BY <1>1, <2>1 DEF Lengths
    <2> QED
      BY <2>1, <2>3, <2>4, <2>5 DEF EchoOrder
  <1>5. ASSUME UNCHANGED <<asker, bufs, tempBufs, hasNew, handled>> PROVE EchoOrder'
    BY <1>5 DEF EchoOrder
  <1>6. ASSUME NEW h \in Addrs, OnNewConnection(h) \/ OnDisconnection(h) PROVE EchoOrder'
    BY <1>5, <1>6 DEF OnNewConnection, OnDisconnection, despatchVars
  <1>7. ASSUME ServerWrites \/ BroadcastOne \/ BroadcastBegin \/ UNCHANGED echoVars
        PROVE  EchoOrder'
    BY <1>5, <1>7, WritesAt, BroadcastAt, QuietAt
  <1> QED
    BY <1>2, <1>3, <1>4, <1>6, <1>7 DEF EchoNext

-----------------------------------------------------------------------------
(* The connection that asked. *)

(***************************************************************************)
(* Once a request has been asked, its connection stays at its address or   *)
(* is reported gone.                                                       *)
(***************************************************************************)
LEMMA OwnedStays ==
    ASSUME EchoTypeOK, [EchoNext]_echoVars, NEW h \in Addrs, NEW n \in 1..Len(asker),
           Owned(h, n)
    PROVE  live'[h] = asker'[n] \/ asker'[n] \in left'
  <1>1. /\ live \in [Addrs -> 0..MaxConns] /\ asker[n] \in Conns /\ asker[n] # 0
        /\ live[h] = asker[n] \/ asker[n] \in left
    <2>1. live \in [Addrs -> 0..MaxConns] /\ asker \in Seq(Conns)
      BY DEF EchoTypeOK
    <2>2. asker[n] \in Conns
      BY <2>1, SeqAt
    <2>3. asker[n] # 0
      BY <2>2, EchoAssumption DEF Conns
    <2> QED
      BY <2>1, <2>2, <2>3 DEF Owned
  <1>2. ASSUME NEW a \in Addrs, OnNewConnection(a)
        PROVE  live'[h] = asker'[n] \/ asker'[n] \in left'
    <2>1. /\ live[a] = 0 /\ live' = [live EXCEPT ![a] = conns + 1] /\ UNCHANGED <<asker, left>>
      BY <1>2 DEF OnNewConnection
    <2> QED
      BY <1>1, <2>1
  <1>3. ASSUME NEW a \in Addrs, OnDisconnection(a)
        PROVE  live'[h] = asker'[n] \/ asker'[n] \in left'
    <2>1. /\ live' = [live EXCEPT ![a] = 0] /\ left' = left \cup {live[a]} /\ UNCHANGED asker
      BY <1>3 DEF OnDisconnection
    <2> QED
      BY <1>1, <2>1
  <1>4. ASSUME NEW a \in Addrs, ServerOnMsg(a)
        PROVE  live'[h] = asker'[n] \/ asker'[n] \in left'
    <2>1. asker'[n] = asker[n] /\ UNCHANGED <<live, left>>
      BY <1>4, OnMsgAt
    <2> QED
      BY <1>1, <2>1
  <1>5. ASSUME UNCHANGED <<live, left, asker>>
        PROVE  live'[h] = asker'[n] \/ asker'[n] \in left'
    BY <1>1, <1>5
  <1>6. ASSUME Poll PROVE UNCHANGED <<live, left, asker>>
    BY <1>6 DEF Poll, netVars, count
  <1>7. ASSUME \/ ServerWrites \/ DespatchMsg \/ BroadcastOne \/ BroadcastBegin
               \/ UNCHANGED echoVars
        PROVE UNCHANGED <<live, left, asker>>
    BY <1>7, WritesAt, DespatchAt, BroadcastAt, QuietAt
  <1> QED
    BY <1>2, <1>3, <1>4, <1>5, <1>6, <1>7 DEF EchoNext

\* The requests a buffer may carry.
LEMMA CarriedFit ==
    ASSUME EchoTypeOK, EchoOrder, EchoesQueued
    PROVE  /\ \A k \in 1..Len(bufs) : bufs[k].n \in 1..Len(asker) /\ bufs[k].from \in Addrs
           /\ \A k \in 1..Len(tempBufs) :
                 tempBufs[k].n \in 1..Len(asker) /\ tempBufs[k].from \in Addrs
           /\ \A k \in 1..Len(sendQueue) :
                 /\ sendQueue[k].to \in Addrs
                 /\ sendQueue[k].n # 0 => sendQueue[k].n \in 1..Len(asker)
  <1>1. Lengths
    BY EchoLengths
  <1>2. Len(handled) + Len(tempBufs) + Len(bufs) = Len(asker)
    BY DEF EchoOrder
  <1>3. ASSUME NEW k \in 1..Len(bufs)
        PROVE  bufs[k].n \in 1..Len(asker) /\ bufs[k].from \in Addrs
    <2>1. bufs[k] \in Buffers
      BY SeqAt DEF EchoTypeOK
    <2>2. bufs[k].n = Len(handled) + Len(tempBufs) + k
      BY DEF EchoOrder
    <2>3. Len(handled) + Len(tempBufs) + k \in 1..Len(asker)
      BY <1>1, <1>2 DEF Lengths
    <2> QED
      BY <2>1, <2>2, <2>3 DEF Buffers
  <1>4. ASSUME NEW k \in 1..Len(tempBufs)
        PROVE  tempBufs[k].n \in 1..Len(asker) /\ tempBufs[k].from \in Addrs
    <2>1. tempBufs[k] \in Buffers
      BY SeqAt DEF EchoTypeOK
    <2>2. tempBufs[k].n = Len(handled) + k
      BY DEF EchoOrder
    <2>3. Len(handled) + k \in 1..Len(asker)
      BY <1>1, <1>2 DEF Lengths
    <2> QED
      BY <2>1, <2>2, <2>3 DEF Buffers
  <1>5. ASSUME NEW k \in 1..Len(sendQueue)
        PROVE  /\ sendQueue[k].to \in Addrs
               /\ sendQueue[k].n # 0 => sendQueue[k].n \in 1..Len(asker)
    <2>1. sendQueue[k].to \in Addrs /\ sendQueue[k].n \in 0..MaxReqs
      <3>1. sendQueue[k] \in [to : Addrs, n : 0..MaxReqs]
        BY SeqAt DEF EchoTypeOK
      <3> QED
        BY <3>1
    <2>2. sendQueue[k].n <= Len(handled)
      BY DEF EchoesQueued
    <2> QED
      BY <1>1, <1>2, <2>1, <2>2 DEF Lengths
  <1> QED
    BY <1>3, <1>4, <1>5

OwnedNext(h, n) == live'[h] = asker'[n] \/ asker'[n] \in left'

LEMMA NextEchoOwners ==
    EchoTypeOK /\ EchoOrder /\ EchoesQueued /\ EchoOwners /\ [EchoNext]_echoVars => EchoOwners'
  <1> SUFFICES ASSUME EchoTypeOK, EchoOrder, EchoesQueued, EchoOwners, [EchoNext]_echoVars
               PROVE  EchoOwners'
    OBVIOUS
  <1>1. Lengths
    BY EchoLengths
  <1>2. ASSUME NEW k \in 1..Len(bufs) PROVE OwnedNext(bufs[k].from, bufs[k].n)
    <2>1. Owned(bufs[k].from, bufs[k].n)
      BY DEF EchoOwners
    <2>2. bufs[k].from \in Addrs /\ bufs[k].n \in 1..Len(asker)
      BY CarriedFit
    <2> QED
      BY <2>1, <2>2, OwnedStays DEF OwnedNext
  <1>3. ASSUME NEW k \in 1..Len(tempBufs) PROVE OwnedNext(tempBufs[k].from, tempBufs[k].n)
    <2>1. Owned(tempBufs[k].from, tempBufs[k].n)
      BY DEF EchoOwners
    <2>2. tempBufs[k].from \in Addrs /\ tempBufs[k].n \in 1..Len(asker)
      BY CarriedFit
    <2> QED
      BY <2>1, <2>2, OwnedStays DEF OwnedNext
  <1>4. ASSUME NEW k \in 1..Len(sendQueue), sendQueue[k].n # 0
        PROVE  OwnedNext(sendQueue[k].to, sendQueue[k].n)
    <2>1. Owned(sendQueue[k].to, sendQueue[k].n)
      BY <1>4 DEF EchoOwners
    <2>2. sendQueue[k].to \in Addrs /\ sendQueue[k].n \in 1..Len(asker)
      BY <1>4, CarriedFit
    <2> QED
      BY <2>1, <2>2, OwnedStays DEF OwnedNext
  <1>5. EchoOwners' <=>
          /\ \A k \in 1..Len(bufs') : OwnedNext(bufs'[k].from, bufs'[k].n)
          /\ \A k \in 1..Len(tempBufs') : OwnedNext(tempBufs'[k].from, tempBufs'[k].n)
          /\ \A k \in 1..Len(sendQueue') : sendQueue'[k].n # 0 =>
               OwnedNext(sendQueue'[k].to, sendQueue'[k].n)
    BY DEF EchoOwners, Owned, OwnedNext
  <1>6. ASSUME NEW h \in Addrs, ServerOnMsg(h) PROVE EchoOwners'
    <2>1. /\ Len(bufs') = Len(bufs) + 1 /\ \A k \in 1..Len(bufs) : bufs'[k] = bufs[k]
          /\ bufs'[Len(bufs) + 1].n = Len(asker) + 1 /\ bufs'[Len(bufs) + 1].from = h
          /\ asker'[Len(asker) + 1] = live[h]
          /\ UNCHANGED <<live, tempBufs, sendQueue>>
      BY <1>6, OnMsgAt
    <2>2. OwnedNext(bufs'[Len(bufs) + 1].from, bufs'[Len(bufs) + 1].n)
      BY <2>1 DEF OwnedNext
    <2>3. \A k \in 1..Len(bufs') : k \in 1..Len(bufs) \/ k = Len(bufs) + 1
      BY <1>1, <2>1 DEF Lengths
    <2>4. \A k \in 1..Len(bufs') : OwnedNext(bufs'[k].from, bufs'[k].n)
      BY <1>2, <2>1, <2>2, <2>3
    <2> QED
      BY <1>3, <1>4, <1>5, <2>1, <2>4
  <1>7. ASSUME Poll PROVE EchoOwners'
    <2>1. tempBufs' = bufs /\ bufs' = tempBufs /\ UNCHANGED sendQueue
      BY <1>7 DEF Poll, netVars
    <2> QED
      BY <1>2, <1>3, <1>4, <1>5, <2>1
  <1>8. ASSUME DespatchMsg PROVE EchoOwners'
    <2>1. /\ Len(tempBufs) \in Nat \ {0}
          /\ \A k \in 1..Len(tempBufs') :
                tempBufs'[k] = tempBufs[k + 1] /\ k + 1 \in 1..Len(tempBufs)
          /\ \/ UNCHANGED sendQueue
             \/ /\ Len(sendQueue') = Len(sendQueue) + 1
                /\ \A k \in 1..Len(sendQueue) : sendQueue'[k] = sendQueue[k]
                /\ sendQueue'[Len(sendQueue) + 1].to = tempBufs[1].from
                /\ sendQueue'[Len(sendQueue) + 1].n = tempBufs[1].n
          /\ UNCHANGED bufs
      BY <1>8, DespatchAt
    <2>2. OwnedNext(tempBufs[1].from, tempBufs[1].n)
      BY <1>3, <2>1
    <2>3. \A k \in 1..Len(tempBufs') : OwnedNext(tempBufs'[k].from, tempBufs'[k].n)
      BY <1>3, <2>1
    <2>4. \A k \in 1..Len(bufs') : OwnedNext(bufs'[k].from, bufs'[k].n)
      BY <1>2, <2>1
    <2>5. \A k \in 1..Len(sendQueue') : sendQueue'[k].n # 0 =>
               OwnedNext(sendQueue'[k].to, sendQueue'[k].n)
      <3>1. CASE UNCHANGED sendQueue
        BY <1>4, <3>1
      <3>2. CASE /\ Len(sendQueue') = Len(sendQueue) + 1
                 /\ \A k \in 1..Len(sendQueue) : sendQueue'[k] = sendQueue[k]
                 /\ sendQueue'[Len(sendQueue) + 1].to = tempBufs[1].from
                 /\ sendQueue'[Len(sendQueue) + 1].n = tempBufs[1].n
        <4>1. \A k \in 1..Len(sendQueue') : k \in 1..Len(sendQueue) \/ k = Len(sendQueue) + 1
          BY <1>1, <3>2 DEF Lengths
        <4> QED
          BY <1>4, <2>2, <3>2, <4>1
      <3> QED
        BY <2>1, <3>1, <3>2
    <2> QED
      BY <1>5, <2>3, <2>4, <2>5
  <1>9. ASSUME BroadcastOne PROVE EchoOwners'
    <2>1. /\ \/ UNCHANGED sendQueue
             \/ /\ Len(sendQueue') = Len(sendQueue) + 1
                /\ \A k \in 1..Len(sendQueue) : sendQueue'[k] = sendQueue[k]
                /\ sendQueue'[Len(sendQueue) + 1].n = 0
          /\ UNCHANGED <<bufs, tempBufs>>
      BY <1>9, BroadcastAt
    <2>2. \A k \in 1..Len(sendQueue') : sendQueue'[k].n # 0 =>
               OwnedNext(sendQueue'[k].to, sendQueue'[k].n)
      <3>1. CASE UNCHANGED sendQueue
        BY <1>4, <3>1
      <3>2. CASE /\ Len(sendQueue') = Len(sendQueue) + 1
                 /\ \A k \in 1..Len(sendQueue) : sendQueue'[k] = sendQueue[k]
                 /\ sendQueue'[Len(sendQueue) + 1].n = 0
        <4>1. \A k \in 1..Len(sendQueue') : k \in 1..Len(sendQueue) \/ k = Len(sendQueue) + 1
          BY <1>1, <3>2 DEF Lengths
        <4> QED
          BY <1>4, <3>2, <4>1
      <3> QED
        BY <2>1, <3>1, <3>2
    <2> QED
      BY <1>2, <1>3, <1>5, <2>1, <2>2
  <1>10. ASSUME ServerWrites PROVE EchoOwners'
    <2>1. /\ \A k \in 1..Len(sendQueue') :
                sendQueue'[k] = sendQueue[k + 1] /\ k + 1 \in 1..Len(sendQueue)
          /\ UNCHANGED <<bufs, tempBufs>>
      BY <1>10, WritesAt
    <2>2. \A k \in 1..Len(sendQueue') : sendQueue'[k].n # 0 =>
               OwnedNext(sendQueue'[k].to, sendQueue'[k].n)
      BY <1>4, <2>1
    <2> QED
      BY <1>2, <1>3, <1>5, <2>1, <2>2
  <1>11. ASSUME UNCHANGED <<bufs, tempBufs, sendQueue>> PROVE EchoOwners'
    BY <1>2, <1>3, <1>4, <1>5, <1>11
  <1>12. ASSUME \/ \E h \in Addrs : OnNewConnection(h) \/ OnDisconnection(h)
                \/ BroadcastBegin \/ UNCHANGED echoVars
         PROVE  UNCHANGED <<bufs, tempBufs, sendQueue>>
    BY <1>12 DEF OnNewConnection, OnDisconnection, BroadcastBegin, echoVars, netVars, despatchVars
  <1> QED
    BY <1>6, <1>7, <1>8, <1>9, <1>10, <1>11, <1>12 DEF EchoNext

-----------------------------------------------------------------------------
(* The echoes a connection receives. *)

Received(c) == /\ c = live[sendQueue[1].to] /\ sendQueue[1].n # 0
               /\ Len(got'[c]) = Len(got[c]) + 1
               /\ \A i \in 1..Len(got[c]) : got'[c][i] = got[c][i]
               /\ got'[c][Len(got[c]) + 1] = sendQueue[1].n
               /\ \A d \in Conns : d # c => got'[d] = got[d]

LEMMA WritesGot ==
    ASSUME EchoTypeOK, ServerWrites
    PROVE  UNCHANGED got \/ \E c \in Conns : Received(c)
  <1>1. \/ UNCHANGED got
        \/ /\ live[sendQueue[1].to] \in Conns /\ sendQueue[1].n # 0 /\ sendQueue[1].n \in Reqs
           /\ got' = [got EXCEPT ![live[sendQueue[1].to]] =
                         Append(got[live[sendQueue[1].to]], sendQueue[1].n)]
    BY WritesEffects
  <1>2. ASSUME NEW c \in Conns, NEW n \in Reqs, c = live[sendQueue[1].to], n = sendQueue[1].n,
               n # 0, got' = [got EXCEPT ![c] = Append(got[c], n)]
        PROVE  Received(c)
    <2>1. got \in [Conns -> Seq(Reqs)] /\ got[c] \in Seq(Reqs)
      BY DEF EchoTypeOK
    <2>2. got'[c] = Append(got[c], n) /\ \A d \in Conns : d # c => got'[d] = got[d]
      BY <1>2, <2>1
    <2>3. /\ Len(Append(got[c], n)) = Len(got[c]) + 1
          /\ \A i \in 1..Len(got[c]) : Append(got[c], n)[i] = got[c][i]
          /\ Append(got[c], n)[Len(got[c]) + 1] = n
      BY <2>1, SeqAdds
    <2> QED
      BY <1>2, <2>2, <2>3 DEF Received
  <1> QED
    BY <1>1, <1>2

\* A number read from the queue or received.
LEMMA NumbersTyped ==
    ASSUME EchoTypeOK
    PROVE  /\ \A k \in 1..Len(sendQueue) : sendQueue[k].n \in Nat
           /\ \A c \in Conns : \A i \in 1..Len(got[c]) : got[c][i] \in Nat \ {0}
  <1>1. ASSUME NEW k \in 1..Len(sendQueue) PROVE sendQueue[k].n \in Nat
    <2>1. sendQueue[k] \in [to : Addrs, n : 0..MaxReqs]
      BY SeqAt DEF EchoTypeOK
    <2> QED
      BY <2>1
  <1>2. ASSUME NEW c \in Conns, NEW i \in 1..Len(got[c]) PROVE got[c][i] \in Nat \ {0}
    <2>1. got[c] \in Seq(Reqs)
      BY DEF EchoTypeOK
    <2>2. got[c][i] \in Reqs
      BY <2>1, SeqAt
    <2> QED
      BY <2>2 DEF Reqs
  <1> QED
    BY <1>1, <1>2

LEMMA NextEchoesQueued ==
    EchoTypeOK /\ EchoOrder /\ EchoesQueued /\ [EchoNext]_echoVars => EchoesQueued'
  <1> SUFFICES ASSUME EchoTypeOK, EchoOrder, EchoesQueued, [EchoNext]_echoVars
               PROVE  EchoesQueued'
    OBVIOUS
  <1>1. Lengths
    BY EchoLengths
  <1>2. /\ \A k \in 1..Len(sendQueue) : sendQueue[k].n \in Nat
        /\ \A c \in Conns : \A i \in 1..Len(got[c]) : got[c][i] \in Nat \ {0}
    BY NumbersTyped
  <1>3. /\ \A k \in 1..Len(sendQueue) : sendQueue[k].n <= Len(handled)
        /\ \A j, k \in 1..Len(sendQueue) : j < k /\ sendQueue[j].n # 0 /\ sendQueue[k].n # 0
             => sendQueue[j].n < sendQueue[k].n
        /\ \A c \in Conns : \A i \in 1..Len(got[c]) :
             /\ got[c][i] <= Len(handled)
             /\ \A k \in 1..Len(sendQueue) : sendQueue[k].n # 0 => got[c][i] < sendQueue[k].n
    BY DEF EchoesQueued
  <1>4. ASSUME UNCHANGED got, NEW n \in Nat, n <= Len(handled'),
               Len(handled') \in Nat, Len(handled) <= Len(handled'),
               n = 0 \/ Len(handled) < n,
               Len(sendQueue') = Len(sendQueue) + 1,
               \A k \in 1..Len(sendQueue) : sendQueue'[k] = sendQueue[k],
               sendQueue'[Len(sendQueue) + 1].n = n
        PROVE  EchoesQueued'
    <2>1. \A k \in 1..Len(sendQueue') : k \in 1..Len(sendQueue) \/ k = Len(sendQueue) + 1
      BY <1>1, <1>4 DEF Lengths
    <2>2. \A k \in 1..Len(sendQueue') : sendQueue'[k].n <= Len(handled')
      <3>1. \A k \in 1..Len(sendQueue) : sendQueue[k].n <= Len(handled')
        BY <1>1, <1>2, <1>3, <1>4 DEF Lengths
      <3> QED
        BY <1>4, <2>1, <3>1
    <2>3. \A j, k \in 1..Len(sendQueue') : j < k /\ sendQueue'[j].n # 0 /\ sendQueue'[k].n # 0
             => sendQueue'[j].n < sendQueue'[k].n
      <3> TAKE j, k \in 1..Len(sendQueue')
      <3> HAVE j < k /\ sendQueue'[j].n # 0 /\ sendQueue'[k].n # 0
      <3>1. j \in 1..Len(sendQueue)
        BY <1>1, <1>4 DEF Lengths
      <3>2. CASE k \in 1..Len(sendQueue)
        BY <1>3, <1>4, <3>1, <3>2
      <3>3. CASE k = Len(sendQueue) + 1
        <4>1. sendQueue[j].n \in Nat /\ sendQueue[j].n <= Len(handled) /\ sendQueue'[j] = sendQueue[j]
          BY <1>2, <1>3, <1>4, <3>1
        <4>2. sendQueue'[k].n = n /\ n # 0 /\ Len(handled) < n
          BY <1>4, <3>3
        <4> QED
          BY <1>1, <4>1, <4>2 DEF Lengths
      <3> QED
        BY <2>1, <3>2, <3>3
    <2>4. ASSUME NEW c \in Conns, NEW i \in 1..Len(got[c])
          PROVE  /\ got[c][i] <= Len(handled')
                 /\ \A k \in 1..Len(sendQueue') : sendQueue'[k].n # 0 => got[c][i] < sendQueue'[k].n
      <3>1. got[c][i] \in Nat /\ got[c][i] <= Len(handled)
        BY <1>2, <1>3
      <3>2. got[c][i] <= Len(handled') /\ (n # 0 => got[c][i] < n)
        BY <1>1, <1>4, <3>1 DEF Lengths
      <3> QED
        BY <1>3, <1>4, <2>1, <3>2
    <2> QED
      BY <1>4, <2>2, <2>3, <2>4 DEF EchoesQueued
  <1>5. ASSUME UNCHANGED <<got, sendQueue>>, Len(handled') \in Nat, Len(handled) <= Len(handled')
        PROVE  EchoesQueued'
    <2>1. \A k \in 1..Len(sendQueue) : sendQueue[k].n <= Len(handled')
      BY <1>1, <1>2, <1>3, <1>5 DEF Lengths
    <2>2. \A c \in Conns : \A i \in 1..Len(got[c]) : got[c][i] <= Len(handled')
      BY <1>1, <1>2, <1>3, <1>5 DEF Lengths
    <2> QED
      BY <1>3, <1>5, <2>1, <2>2 DEF EchoesQueued
  <1>6. ASSUME DespatchMsg PROVE EchoesQueued'
    <2>1. /\ Len(tempBufs) \in Nat \ {0}
          /\ Len(handled') = Len(handled) + 1
          /\ \/ UNCHANGED sendQueue
             \/ /\ Len(sendQueue') = Len(sendQueue) + 1
                /\ \A k \in 1..Len(sendQueue) : sendQueue'[k] = sendQueue[k]
                /\ sendQueue'[Len(sendQueue) + 1].n = tempBufs[1].n
          /\ UNCHANGED got
      BY <1>6, DespatchAt
    <2>2. tempBufs[1].n = Len(handled) + 1
      <3>1. 1 \in 1..Len(tempBufs)
        BY <2>1
      <3> QED
        BY <3>1 DEF EchoOrder
    <2>3. /\ Len(handled') \in Nat /\ Len(handled) <= Len(handled')
          /\ Len(handled) + 1 \in Nat /\ Len(handled) + 1 <= Len(handled')
          /\ Len(handled) < Len(handled) + 1
      BY <1>1, <2>1 DEF Lengths
    <2>4. CASE UNCHANGED sendQueue
      BY <1>5, <2>1, <2>3, <2>4
    <2>5. CASE /\ Len(sendQueue') = Len(sendQueue) + 1
               /\ \A k \in 1..Len(sendQueue) : sendQueue'[k] = sendQueue[k]
               /\ sendQueue'[Len(sendQueue) + 1].n = tempBufs[1].n
      BY <1>4, <2>1, <2>2, <2>3, <2>5
    <2> QED
      BY <2>1, <2>4, <2>5
  <1>7. ASSUME BroadcastOne PROVE EchoesQueued'
    <2>1. /\ \/ UNCHANGED sendQueue
             \/ /\ Len(sendQueue') = Len(sendQueue) + 1
                /\ \A k \in 1..Len(sendQueue) : sendQueue'[k] = sendQueue[k]
                /\ sendQueue'[Len(sendQueue) + 1].n = 0
          /\ UNCHANGED <<handled, got>>
      BY <1>7, BroadcastAt
    <2>2. Len(handled') \in Nat /\ Len(handled) <= Len(handled') /\ 0 <= Len(handled')
      BY <1>1, <2>1 DEF Lengths
    <2>3. CASE UNCHANGED sendQueue
      BY <1>5, <2>1, <2>2, <2>3
    <2>4. CASE /\ Len(sendQueue') = Len(sendQueue) + 1
               /\ \A k \in 1..Len(sendQueue) : sendQueue'[k] = sendQueue[k]
               /\ sendQueue'[Len(sendQueue) + 1].n = 0
      BY <1>4, <2>1, <2>2, <2>4
    <2> QED
      BY <2>1, <2>3, <2>4
  <1>8. ASSUME ServerWrites PROVE EchoesQueued'
    <2>1. /\ Len(sendQueue) \in Nat \ {0} /\ Len(sendQueue') = Len(sendQueue) - 1
          /\ \A k \in 1..Len(sendQueue') :
                sendQueue'[k] = sendQueue[k + 1] /\ k + 1 \in 1..Len(sendQueue)
          /\ UNCHANGED handled
      BY <1>8, WritesAt
    <2>2. \A k \in 1..Len(sendQueue') : sendQueue'[k].n <= Len(handled')
      BY <1>3, <2>1
    <2>3. \A j, k \in 1..Len(sendQueue') : j < k /\ sendQueue'[j].n # 0 /\ sendQueue'[k].n # 0
             => sendQueue'[j].n < sendQueue'[k].n
      <3>1. \A j, k \in 1..Len(sendQueue') : j < k => j + 1 < k + 1
        BY <2>1
      <3> QED
        BY <1>3, <2>1, <3>1
    <2>4. \A c \in Conns : \A i \in 1..Len(got'[c]) :
             /\ got'[c][i] <= Len(handled)
             /\ \A k \in 1..Len(sendQueue') : sendQueue'[k].n # 0 => got'[c][i] < sendQueue'[k].n
      <3>1. ASSUME NEW c \in Conns, NEW i \in 1..Len(got[c])
            PROVE  /\ got[c][i] <= Len(handled)
                   /\ \A k \in 1..Len(sendQueue') :
                         sendQueue'[k].n # 0 => got[c][i] < sendQueue'[k].n
        BY <1>3, <2>1
      <3>2. ASSUME sendQueue[1].n # 0
            PROVE  /\ sendQueue[1].n <= Len(handled)
                   /\ \A k \in 1..Len(sendQueue') :
                         sendQueue'[k].n # 0 => sendQueue[1].n < sendQueue'[k].n
        <4>1. 1 \in 1..Len(sendQueue) /\ \A k \in 1..Len(sendQueue') : 1 < k + 1
          BY <2>1
        <4> QED
          BY <1>3, <2>1, <3>2, <4>1
      <3>3. CASE UNCHANGED got
        BY <3>1, <3>3
      <3>4. CASE \E c \in Conns : Received(c)
        <4>1. PICK c \in Conns : Received(c)
          BY <3>4
        <4>2. \A i \in 1..Len(got'[c]) : i \in 1..Len(got[c]) \/ i = Len(got[c]) + 1
          <5>1. Len(got[c]) \in Nat /\ Len(got'[c]) = Len(got[c]) + 1
            BY <1>1, <4>1 DEF Received, Lengths
          <5> QED
            BY <5>1
        <4>3. \A i \in 1..Len(got'[c]) :
                 /\ got'[c][i] <= Len(handled)
                 /\ \A k \in 1..Len(sendQueue') : sendQueue'[k].n # 0 => got'[c][i] < sendQueue'[k].n
          BY <3>1, <3>2, <4>1, <4>2 DEF Received
        <4> QED
          BY <3>1, <4>1, <4>3 DEF Received
      <3> QED
        BY <1>8, <3>3, <3>4, WritesGot
    <2> QED
      BY <2>1, <2>2, <2>3, <2>4 DEF EchoesQueued
  <1>9. ASSUME UNCHANGED <<handled, sendQueue, got>> PROVE EchoesQueued'
    <2>1. Len(handled') \in Nat /\ Len(handled) <= Len(handled')
      BY <1>1, <1>9 DEF Lengths
    <2> QED
      BY <1>5, <1>9, <2>1
  <1>10. ASSUME \/ \E h \in Addrs : OnNewConnection(h) \/ OnDisconnection(h) \/ ServerOnMsg(h)
                \/ Poll \/ BroadcastBegin \/ UNCHANGED echoVars
         PROVE  UNCHANGED <<handled, sendQueue, got>>
    BY <1>10 DEF OnNewConnection, OnDisconnection, ServerOnMsg, Poll, BroadcastBegin, echoVars,
                 netVars, despatchVars
  <1> QED
    BY <1>6, <1>7, <1>8, <1>9, <1>10 DEF EchoNext

LEMMA NextEchoedInOrder ==
    EchoTypeOK /\ EchoesQueued /\ EchoedInOrder /\ [EchoNext]_echoVars => EchoedInOrder'
  <1> SUFFICES ASSUME EchoTypeOK, EchoesQueued, EchoedInOrder, [EchoNext]_echoVars
               PROVE  EchoedInOrder'
    OBVIOUS
  <1>1. Lengths
    BY EchoLengths
  <1>2. ASSUME UNCHANGED got PROVE EchoedInOrder'
    BY <1>2 DEF EchoedInOrder
  <1>3. ASSUME ServerWrites, NEW c \in Conns, Received(c) PROVE EchoedInOrder'
    <2>1. Len(sendQueue) \in Nat \ {0}
      BY <1>3, WritesAt
    <2>2. \A i \in 1..Len(got[c]) : got[c][i] < sendQueue[1].n
      <3>1. 1 \in 1..Len(sendQueue) /\ sendQueue[1].n # 0
        BY <1>3, <2>1 DEF Received
      <3> QED
        BY <3>1 DEF EchoesQueued
    <2>3. \A j, k \in 1..Len(got'[c]) : j < k => got'[c][j] < got'[c][k]
      <3> TAKE j, k \in 1..Len(got'[c])
      <3> HAVE j < k
      <3>1. j \in 1..Len(got[c]) /\ (k \in 1..Len(got[c]) \/ k = Len(got[c]) + 1)
        <4>1. Len(got[c]) \in Nat /\ Len(got'[c]) = Len(got[c]) + 1
          BY <1>1, <1>3 DEF Received, Lengths
        <4> QED
          BY <4>1
      <3>2. CASE k \in 1..Len(got[c])
        BY <1>3, <3>1, <3>2 DEF Received, EchoedInOrder
      <3>3. CASE k = Len(got[c]) + 1
        BY <1>3, <2>2, <3>1, <3>3 DEF Received
      <3> QED
        BY <3>1, <3>2, <3>3
    <2> QED
      BY <1>3, <2>3 DEF Received, EchoedInOrder
  <1>4. ASSUME \/ \E h \in Addrs : OnNewConnection(h) \/ OnDisconnection(h) \/ ServerOnMsg(h)
               \/ Poll \/ DespatchMsg \/ BroadcastBegin \/ BroadcastOne \/ UNCHANGED echoVars
        PROVE  UNCHANGED got
    BY <1>4 DEF OnNewConnection, OnDisconnection, ServerOnMsg, Poll, DespatchMsg, BroadcastBegin,
                BroadcastOne, echoVars, netVars
  <1> QED
    BY <1>2, <1>3, <1>4, WritesGot DEF EchoNext

LEMMA NextEchoAstray ==
    EchoTypeOK /\ EchoOrder /\ EchoOwners /\ EchoesQueued /\ EchoAstrayOnlyIfGone
       /\ [EchoNext]_echoVars => EchoAstrayOnlyIfGone'
  <1> SUFFICES ASSUME EchoTypeOK, EchoOrder, EchoOwners, EchoesQueued, EchoAstrayOnlyIfGone,
                      [EchoNext]_echoVars
               PROVE  EchoAstrayOnlyIfGone'
    OBVIOUS
  <1>1. Lengths /\ Len(handled) <= Len(asker)
    <2>1. Lengths /\ Len(handled) + Len(tempBufs) + Len(bufs) = Len(asker)
      BY EchoLengths DEF EchoOrder
    <2> QED
      BY <2>1 DEF Lengths
  <1>2. \A c \in Conns : \A i \in 1..Len(got[c]) : got[c][i] \in 1..Len(asker)
    <2> TAKE c \in Conns
    <2> TAKE i \in 1..Len(got[c])
    <2>1. got[c][i] \in Nat \ {0}
      BY NumbersTyped
    <2>2. got[c][i] <= Len(handled)
      BY DEF EchoesQueued
    <2> QED
      BY <1>1, <2>1, <2>2 DEF Lengths
  <1>3. ASSUME UNCHANGED got, \A n \in 1..Len(asker) : asker'[n] = asker[n],
               \A x \in left : x \in left'
        PROVE  EchoAstrayOnlyIfGone'
    BY <1>2, <1>3 DEF EchoAstrayOnlyIfGone
  <1>4. ASSUME ServerWrites, NEW c \in Conns, Received(c) PROVE EchoAstrayOnlyIfGone'
    <2>1. Len(sendQueue) \in Nat \ {0} /\ UNCHANGED <<asker, left>>
      BY <1>4, WritesAt
    <2>2. asker[sendQueue[1].n] # c => asker[sendQueue[1].n] \in left
      <3>1. 1 \in 1..Len(sendQueue) /\ sendQueue[1].n # 0 /\ c = live[sendQueue[1].to]
        BY <1>4, <2>1 DEF Received
      <3>2. Owned(sendQueue[1].to, sendQueue[1].n)
        BY <3>1 DEF EchoOwners
      <3> QED
        BY <3>1, <3>2 DEF Owned
    <2>3. \A i \in 1..Len(got'[c]) : i \in 1..Len(got[c]) \/ i = Len(got[c]) + 1
      <3>1. Len(got[c]) \in Nat /\ Len(got'[c]) = Len(got[c]) + 1
        BY <1>1, <1>4 DEF Received, Lengths
      <3> QED
        BY <3>1
    <2>4. \A i \in 1..Len(got'[c]) : asker[got'[c][i]] # c => asker[got'[c][i]] \in left
      <3>1. \A i \in 1..Len(got[c]) :
               got'[c][i] = got[c][i] /\ (asker[got[c][i]] # c => asker[got[c][i]] \in left)
        BY <1>4 DEF Received, EchoAstrayOnlyIfGone
      <3>2. got'[c][Len(got[c]) + 1] = sendQueue[1].n
        BY <1>4 DEF Received
      <3> QED
        BY <2>2, <2>3, <3>1, <3>2
    <2>5. ASSUME NEW d \in Conns, d # c
          PROVE  \A i \in 1..Len(got'[d]) : asker[got'[d][i]] # d => asker[got'[d][i]] \in left
      BY <1>4, <2>5 DEF Received, EchoAstrayOnlyIfGone
    <2> QED
      BY <2>1, <2>4, <2>5 DEF EchoAstrayOnlyIfGone
  <1>5. ASSUME NEW h \in Addrs, OnNewConnection(h) PROVE EchoAstrayOnlyIfGone'
    BY <1>3, <1>5 DEF OnNewConnection
  <1>6. ASSUME NEW h \in Addrs, OnDisconnection(h) PROVE EchoAstrayOnlyIfGone'
    <2>1. left' = left \cup {live[h]} /\ UNCHANGED <<got, asker>>
      BY <1>6 DEF OnDisconnection
    <2> QED
      BY <1>3, <2>1
  <1>7. ASSUME NEW h \in Addrs, ServerOnMsg(h) PROVE EchoAstrayOnlyIfGone'
    <2>1. UNCHANGED <<got, left>> /\ \A n \in 1..Len(asker) : asker'[n] = asker[n]
      BY <1>7, OnMsgAt
    <2> QED
      BY <1>3, <2>1
  <1>8. ASSUME Poll \/ DespatchMsg \/ BroadcastBegin \/ BroadcastOne \/ UNCHANGED echoVars
        PROVE  EchoAstrayOnlyIfGone'
    <2>1. UNCHANGED <<got, left, asker>>
      BY <1>8, DespatchAt, BroadcastAt, QuietAt DEF Poll, netVars, count
    <2> QED
      BY <1>3, <2>1
  <1>9. ASSUME ServerWrites, UNCHANGED got PROVE EchoAstrayOnlyIfGone'
    BY <1>3, <1>9, WritesAt
  <1> QED
    BY <1>4, <1>5, <1>6, <1>7, <1>8, <1>9, WritesGot DEF EchoNext

LEMMA NextEchoIInv == EchoIInv /\ [EchoNext]_echoVars => EchoIInv'
  BY NextEchoTyped, NextEchoOrder, NextEchoOwners, NextEchoesQueued, NextEchoedInOrder,
     NextEchoAstray DEF EchoIInv

(***************************************************************************)
(* The inductive invariant holds in every reachable state of MyServer: the *)
(* list of clients, the queue of messages and the dispatcher's own, and    *)
(* the buffers queued for the clients agree at every step of OnMsg,        *)
(* MsgDespatcher, Broadcast and the connections.                           *)
(***************************************************************************)
THEOREM EchoInvariance == EchoSpec => []EchoIInv
  BY EchoInitIInv, NextEchoIInv, PTL DEF EchoSpec

(***************************************************************************)
(* EchoOrder says where every message is; together the three queues are    *)
(* the messages in the order of their arrival.                             *)
(***************************************************************************)
LEMMA NumsAt ==
    ASSUME NEW s \in Seq(Buffers)
    PROVE  /\ Nums(s) \in Seq(Reqs) /\ Len(Nums(s)) = Len(s)
           /\ \A k \in 1..Len(s) : Nums(s)[k] = s[k].n
  <1>1. Len(s) \in Nat /\ \A k \in 1..Len(s) : s[k] \in Buffers
    BY SeqAt
  <1>2. \A k \in 1..Len(s) : s[k].n \in Reqs
    BY <1>1 DEF Buffers
  <1> QED
    BY <1>1, <1>2 DEF Nums

LEMMA OrderDespatched == EchoTypeOK /\ EchoOrder => DespatchedInOrder
  <1> SUFFICES ASSUME EchoTypeOK, EchoOrder PROVE DespatchedInOrder
    OBVIOUS
  <1> DEFINE T == Nums(tempBufs)
             B == Nums(bufs)
             whole == [k \in 1..Len(asker) |-> k]
  <1>1. Lengths /\ handled \in Seq(Reqs)
    BY EchoLengths DEF EchoTypeOK
  <1>2. /\ Len(handled) + Len(tempBufs) + Len(bufs) = Len(asker) /\ Len(asker) <= MaxReqs
        /\ \A k \in 1..Len(handled) : handled[k] = k
        /\ \A k \in 1..Len(tempBufs) : tempBufs[k].n = Len(handled) + k
        /\ \A k \in 1..Len(bufs) : bufs[k].n = Len(handled) + Len(tempBufs) + k
    BY DEF EchoOrder
  <1>3. /\ T \in Seq(Reqs) /\ Len(T) = Len(tempBufs)
        /\ \A k \in 1..Len(tempBufs) : T[k] = Len(handled) + k
    BY <1>2, NumsAt DEF EchoTypeOK
  <1>4. /\ B \in Seq(Reqs) /\ Len(B) = Len(bufs)
        /\ \A k \in 1..Len(bufs) : B[k] = Len(handled) + Len(tempBufs) + k
    BY <1>2, NumsAt DEF EchoTypeOK
  <1> HIDE DEF T, B
  <1>5. /\ handled \o T \in Seq(Reqs) /\ Len(handled \o T) = Len(handled) + Len(tempBufs)
        /\ \A k \in 1..(Len(handled) + Len(tempBufs)) : (handled \o T)[k] = k
    <2>1. /\ handled \o T \in Seq(Reqs) /\ Len(handled \o T) = Len(handled) + Len(T)
          /\ \A k \in 1..(Len(handled) + Len(T)) : (handled \o T)[k] =
                IF k <= Len(handled) THEN handled[k] ELSE T[k - Len(handled)]
      BY <1>1, <1>3, ConcatProperties
    <2>2. ASSUME NEW k \in 1..(Len(handled) + Len(tempBufs)) PROVE (handled \o T)[k] = k
      <3>1. CASE k <= Len(handled)
        BY <1>1, <1>2, <1>3, <2>1, <3>1 DEF Lengths
      <3>2. CASE ~(k <= Len(handled))
        <4>1. /\ (handled \o T)[k] = T[k - Len(handled)]
              /\ k - Len(handled) \in 1..Len(tempBufs) /\ Len(handled) + (k - Len(handled)) = k
          BY <1>1, <1>3, <2>1, <3>2 DEF Lengths
        <4> QED
          BY <1>3, <4>1
      <3> QED
        BY <3>1, <3>2
    <2> QED
      BY <1>3, <2>1, <2>2
  <1>6. PICK r : r = handled \o T
    OBVIOUS
  <1>7. /\ r \in Seq(Reqs) /\ Len(r) = Len(handled) + Len(tempBufs)
        /\ \A k \in 1..(Len(handled) + Len(tempBufs)) : r[k] = k
    BY <1>5, <1>6
  <1>8. /\ r \o B \in Seq(Reqs) /\ Len(r \o B) = Len(asker)
        /\ \A k \in 1..Len(asker) : (r \o B)[k] = k
    <2>1. /\ r \o B \in Seq(Reqs) /\ Len(r \o B) = Len(r) + Len(B)
          /\ \A k \in 1..(Len(r) + Len(B)) : (r \o B)[k] =
                IF k <= Len(r) THEN r[k] ELSE B[k - Len(r)]
      BY <1>4, <1>7, ConcatProperties
    <2>2. Len(r) + Len(B) = Len(asker) /\ Len(r) \in Nat
      BY <1>1, <1>2, <1>4, <1>7 DEF Lengths
    <2>3. ASSUME NEW k \in 1..Len(asker) PROVE (r \o B)[k] = k
      <3>1. CASE k <= Len(r)
        BY <1>7, <2>1, <2>2, <3>1
      <3>2. CASE ~(k <= Len(r))
        <4>1. /\ (r \o B)[k] = B[k - Len(r)] /\ k - Len(r) \in 1..Len(bufs)
              /\ Len(r) + (k - Len(r)) = k
          BY <1>1, <1>4, <2>1, <2>2, <3>2 DEF Lengths
        <4> QED
          BY <1>4, <1>7, <4>1
      <3> QED
        BY <3>1, <3>2
    <2> QED
      BY <2>1, <2>2, <2>3
  <1>9. whole \in Seq(Reqs) /\ Len(whole) = Len(asker) /\ \A k \in 1..Len(asker) : whole[k] = k
    <2>1. Len(asker) \in Nat /\ \A k \in 1..Len(asker) : k \in Reqs
      BY <1>1, <1>2, EchoAssumption DEF Lengths, Reqs
    <2> QED
      BY <2>1
  <1> HIDE DEF whole
  <1>10. r \o B = whole
    BY <1>8, <1>9, SeqEqual
  <1> QED
    BY <1>6, <1>10 DEF DespatchedInOrder, T, B, whole

(***************************************************************************)
(* For any number of addresses, connections, messages and broadcasts, no   *)
(* message is skipped, and an echo reaches the connection that asked,      *)
(* unless it has been reported gone, in the order of the requests          *)
(* (OnDisconnection before the address is free again, MsgDespatcher's      *)
(* swap of the two vectors, and RJTcpServer's ordered queue).              *)
(***************************************************************************)
THEOREM EchoesAlwaysRight == EchoSpec => []EchoesRight
  <1>1. EchoIInv => EchoesRight
    BY OrderDespatched DEF EchoIInv, EchoesRight
  <1> QED
    BY <1>1, EchoInvariance, PTL
=============================================================================
