------------------------- MODULE RJSemaphore_proofs -------------------------
(***************************************************************************)
(* Proofs about RJSemaphore for any finite set of threads, any initial     *)
(* count and any bounds.                                                   *)
(*                                                                         *)
(* The inductive invariant IInv adds to the books the slack of the         *)
(* counter: it is short of the ungranted threads by at most one per        *)
(* spurious wake-up.  NoOverdraft and the ranges of TypeOK follow from the *)
(* two together; neither is inductive by itself.  AloneUntilShared is what *)
(* NoLostWakeup needs of the threads that do time out.                     *)
(***************************************************************************)
EXTENDS RJSemaphore, FiniteSetTheorems, TLAPS

Typing == /\ eventCount \in Int
          /\ waiterCount \in Int
          /\ pc \in [Threads -> {"out", "blocked", "woken", "expired"}]
          /\ released \in 0..MaxReleased
          /\ acquired \in Nat
          /\ spurious \in 0..MaxSpurious
          /\ shared \subseteq Threads

Slack == eventCount + Cardinality(Ungranted) + spurious >= 0

OnlyTimedExpire == Expired \subseteq Timed

AloneUntilShared == shared = {} => \A t, u \in Ungranted : t = u

\* The Waits that returned or will return RJ_S_OK are covered by permits,
\* except for one per spurious wake-up.
NoOverdraft == acquired + Cardinality(Woken) <= InitCount + released + spurious

IInv == /\ Typing /\ Books /\ Slack /\ OnlyTimedExpire
        /\ AloneUntilShared /\ NoLostWakeup

-----------------------------------------------------------------------------
LEMMA FiniteParts ==
    ASSUME Typing
    PROVE  /\ IsFiniteSet(Ungranted) /\ Cardinality(Ungranted) \in Nat
           /\ IsFiniteSet(Woken)     /\ Cardinality(Woken) \in Nat
           /\ IsFiniteSet(Blocked)   /\ Cardinality(Blocked) \in Nat
           /\ Cardinality(Ungranted) <= Cardinality(Threads)
           /\ Cardinality(Threads) \in Nat
<1>1. /\ Ungranted \in SUBSET Threads /\ Woken \in SUBSET Threads
      /\ Blocked \in SUBSET Threads
  BY DEF Ungranted, Woken, Blocked, Expired, In
<1>2. QED
  BY <1>1, FS_Subset, FS_CardinalityType, SemAssumption

\* The thread t leaves the ungranted set (or joins it), nobody else moves.
LEMMA MoveOne ==
    ASSUME Typing, NEW t \in Threads,
           NEW l \in {"out", "blocked", "woken", "expired"},
           pc' = [pc EXCEPT ![t] = l]
    PROVE  /\ Ungranted' = IF l \in {"blocked", "expired"}
                           THEN Ungranted \cup {t} ELSE Ungranted \ {t}
           /\ Woken' = IF l = "woken" THEN Woken \cup {t} ELSE Woken \ {t}
           /\ Blocked' = IF l = "blocked" THEN Blocked \cup {t} ELSE Blocked \ {t}
           /\ Expired' = IF l = "expired" THEN Expired \cup {t} ELSE Expired \ {t}
  BY DEF Typing, Ungranted, Woken, Blocked, Expired, In

\* What k signals do to the sets: the woken ones move over, nobody is lost.
LEMMA SignalsMove ==
    ASSUME Typing, NEW k \in Nat, Signals(k)
    PROVE  \E S \in SUBSET Blocked :
              /\ pc' \in [Threads -> {"out", "blocked", "woken", "expired"}]
              /\ IsFiniteSet(S) /\ Cardinality(S) \in Nat /\ Cardinality(S) <= k
              /\ Cardinality(S) = k \/ S = Blocked
              /\ Ungranted' = Ungranted \ S
              /\ Blocked' = Blocked \ S
              /\ Expired' = Expired
              /\ Cardinality(Ungranted') = Cardinality(Ungranted) - Cardinality(S)
              /\ Cardinality(Woken') = Cardinality(Woken) + Cardinality(S)
<1>1. PICK S \in SUBSET Blocked :
          /\ \/ Cardinality(S) = k
             \/ S = Blocked /\ Cardinality(S) <= k
          /\ pc' = [t \in Threads |-> IF t \in S THEN "woken" ELSE pc[t]]
  BY DEF Signals
<1>2. IsFiniteSet(S) /\ Cardinality(S) \in Nat
  BY FiniteParts, FS_Subset, FS_CardinalityType
<1>3. /\ pc' \in [Threads -> {"out", "blocked", "woken", "expired"}]
      /\ Ungranted' = Ungranted \ S /\ Blocked' = Blocked \ S
      /\ Expired' = Expired /\ Woken' = Woken \cup S
      /\ Ungranted \cap S = S /\ Woken \cap S = {}
  BY <1>1 DEF Typing, Ungranted, Woken, Blocked, Expired, In
<1>4. Cardinality(Ungranted') = Cardinality(Ungranted) - Cardinality(S)
  BY <1>2, <1>3, FiniteParts, FS_Difference
<1>5. Cardinality(Woken') = Cardinality(Woken) + Cardinality(S)
  <2>1. Cardinality(Woken \cup S)
           = Cardinality(Woken) + Cardinality(S) - Cardinality(Woken \cap S)
    BY <1>2, FiniteParts, FS_Union
  <2>2. Cardinality(Woken \cap S) = 0
    BY <1>3, FS_EmptySet
  <2>3. QED
    BY <1>2, <1>3, <2>1, <2>2, FiniteParts
<1>6. Cardinality(S) <= k
  BY <1>1, <1>2
<1>7. QED
  BY <1>1, <1>2, <1>3, <1>4, <1>5, <1>6

LEMMA SignalsOfBound ==
    ASSUME Typing, NEW n \in Nat
    PROVE  SignalsOf(n) \in Nat /\ SignalsOf(n) <= n
  BY DEF Typing, SignalsOf

-----------------------------------------------------------------------------
(***************************************************************************)
(* The counting part of a step: how the three cardinalities and the        *)
(* counters move together.                                                 *)
(***************************************************************************)
LEMMA InitIInv == Init => IInv
<1> SUFFICES ASSUME Init PROVE IInv
  OBVIOUS
<1> USE SemAssumption
<1>1. Ungranted = {} /\ Woken = {} /\ Blocked = {} /\ Expired = {}
  BY DEF Init, Ungranted, Woken, Blocked, Expired, In
<1>2. Cardinality(Ungranted) = 0 /\ Cardinality(Woken) = 0
  BY <1>1, FS_EmptySet
<1>3. Typing
  BY DEF Init, Typing
<1>4. Books /\ Slack /\ OnlyTimedExpire /\ AloneUntilShared /\ NoLostWakeup
  BY <1>1, <1>2 DEF Init, Books, Slack, OnlyTimedExpire, AloneUntilShared, NoLostWakeup
<1>5. QED
  BY <1>3, <1>4 DEF IInv

\* While nobody has entered beside another thread, one at most is ungranted.
LEMMA WaitStepAlone ==
    ASSUME IInv, NEW t \in Threads, WaitStep(t)
    PROVE  AloneUntilShared'
<1> SUFFICES ASSUME shared' = {} PROVE \A u, v \in Ungranted' : u = v
  BY DEF AloneUntilShared
<1> USE DEF IInv
<1>1. CASE WaitBlocks(t)
  <2>1. Ungranted = {} /\ Ungranted' = Ungranted \cup {t}
    BY <1>1, MoveOne DEF WaitBlocks, Typing
  <2>2. QED
    BY <2>1
<1>2. CASE WaitTakes(t) \/ WaitReturns(t) \/ TimerExpires(t)
           \/ WaitTimesOut(t) \/ SpuriousWakeup(t)
  <2>1. shared = {} /\ Ungranted' \subseteq Ungranted
    BY <1>2 DEF WaitTakes, WaitReturns, TimerExpires, WaitTimesOut,
                SpuriousWakeup, Typing, Ungranted, Blocked, Expired, In
  <2>2. QED
    BY <2>1 DEF AloneUntilShared
<1>3. QED
  BY <1>1, <1>2 DEF WaitStep

LEMMA WaitStepIInv ==
    ASSUME IInv, NEW t \in Threads, WaitStep(t)
    PROVE  Typing' /\ Books' /\ Slack' /\ OnlyTimedExpire'
<1> USE SemAssumption, FiniteParts DEF IInv
<1>1. CASE WaitTakes(t)
  <2>1. pc' = pc
    BY <1>1 DEF WaitTakes
  <2>2. Ungranted' = Ungranted /\ Woken' = Woken /\ Expired' = Expired
    BY <2>1 DEF Ungranted, Woken, Blocked, Expired, In
  <2>3. QED
    BY <1>1, <2>1, <2>2
       DEF WaitTakes, Typing, Books, Slack, OnlyTimedExpire
<1>2. CASE WaitBlocks(t)
  <2>1. /\ Ungranted' = Ungranted \cup {t} /\ Woken' = Woken \ {t}
        /\ Expired' = Expired \ {t}
    BY <1>2, MoveOne DEF WaitBlocks
  <2>2. t \notin Ungranted /\ t \notin Woken
    BY <1>2 DEF WaitBlocks, Ungranted, Woken, Blocked, Expired, In
  <2>3. /\ Cardinality(Ungranted') = Cardinality(Ungranted) + 1
        /\ Cardinality(Woken') = Cardinality(Woken)
    BY <2>1, <2>2, FS_AddElement, FS_RemoveElement
  <2>4. QED
    BY <1>2, <2>1, <2>3
       DEF WaitBlocks, Typing, Books, Slack, OnlyTimedExpire
<1>3. CASE WaitReturns(t)
  <2>1. /\ Ungranted' = Ungranted \ {t} /\ Woken' = Woken \ {t}
        /\ Expired' = Expired \ {t}
    BY <1>3, MoveOne DEF WaitReturns
  <2>2. t \notin Ungranted /\ t \in Woken
    BY <1>3 DEF WaitReturns, Ungranted, Woken, Blocked, Expired, In
  <2>3. /\ Cardinality(Ungranted') = Cardinality(Ungranted)
        /\ Cardinality(Woken') = Cardinality(Woken) - 1
    BY <2>1, <2>2, FS_RemoveElement
  <2>4. QED
    BY <1>3, <2>1, <2>3
       DEF WaitReturns, Typing, Books, Slack, OnlyTimedExpire
<1>4. CASE TimerExpires(t)
  <2>1. /\ Ungranted' = Ungranted \cup {t} /\ Woken' = Woken \ {t}
        /\ Expired' = Expired \cup {t}
    BY <1>4, MoveOne DEF TimerExpires
  <2>2. t \in Ungranted /\ t \notin Woken
    BY <1>4 DEF TimerExpires, Ungranted, Woken, Blocked, Expired, In
  <2>3. Ungranted' = Ungranted /\ Woken' = Woken
    BY <2>1, <2>2
  <2>4. QED
    BY <1>4, <2>1, <2>3
       DEF TimerExpires, Typing, Books, Slack, OnlyTimedExpire
<1>5. CASE WaitTimesOut(t)
  <2>1. /\ Ungranted' = Ungranted \ {t} /\ Woken' = Woken \ {t}
        /\ Expired' = Expired \ {t}
    BY <1>5, MoveOne DEF WaitTimesOut
  <2>2. t \in Ungranted /\ t \notin Woken
    BY <1>5 DEF WaitTimesOut, Ungranted, Woken, Blocked, Expired, In
  <2>3. /\ Cardinality(Ungranted') = Cardinality(Ungranted) - 1
        /\ Cardinality(Woken') = Cardinality(Woken)
    BY <2>1, <2>2, FS_RemoveElement
  <2>4. QED
    BY <1>5, <2>1, <2>3
       DEF WaitTimesOut, Typing, Books, Slack, OnlyTimedExpire
<1>6. CASE SpuriousWakeup(t)
  <2>1. /\ Ungranted' = Ungranted \ {t} /\ Woken' = Woken \cup {t}
        /\ Expired' = Expired \ {t}
    BY <1>6, MoveOne DEF SpuriousWakeup
  <2>2. t \in Ungranted /\ t \notin Woken
    BY <1>6 DEF SpuriousWakeup, Ungranted, Woken, Blocked, Expired, In
  <2>3. /\ Cardinality(Ungranted') = Cardinality(Ungranted) - 1
        /\ Cardinality(Woken') = Cardinality(Woken) + 1
    BY <2>1, <2>2, FS_RemoveElement, FS_AddElement
  <2>4. QED
    BY <1>6, <2>1, <2>3
       DEF SpuriousWakeup, Typing, Books, Slack, OnlyTimedExpire
<1>7. QED
  BY <1>1, <1>2, <1>3, <1>4, <1>5, <1>6 DEF WaitStep

LEMMA ReleaseIInv ==
    ASSUME IInv, NEW n \in Nat,
           eventCount' = eventCount + n, waiterCount' \in Int,
           released + n <= MaxReleased, released' = released + n,
           Signals(SignalsOf(n)), UNCHANGED <<acquired, spurious, shared>>
    PROVE  IInv'
<1> USE SemAssumption, FiniteParts DEF IInv
<1>1. SignalsOf(n) \in Nat /\ SignalsOf(n) <= n
  BY SignalsOfBound
<1>2. PICK S \in SUBSET Blocked :
          /\ pc' \in [Threads -> {"out", "blocked", "woken", "expired"}]
          /\ IsFiniteSet(S) /\ Cardinality(S) \in Nat
          /\ Cardinality(S) <= SignalsOf(n)
          /\ Cardinality(S) = SignalsOf(n) \/ S = Blocked
          /\ Ungranted' = Ungranted \ S
          /\ Blocked' = Blocked \ S
          /\ Expired' = Expired
          /\ Cardinality(Ungranted') = Cardinality(Ungranted) - Cardinality(S)
          /\ Cardinality(Woken') = Cardinality(Woken) + Cardinality(S)
  BY <1>1, SignalsMove
<1>3. Typing' /\ Books' /\ Slack' /\ OnlyTimedExpire'
  BY <1>1, <1>2 DEF Typing, Books, Slack, OnlyTimedExpire
<1>4. ASSUME UsedAsInRepository, Blocked' # {}
      PROVE  Avail' <= 0
  <2>1. /\ Blocked # {} /\ S # Blocked
        /\ Cardinality(S) = SignalsOf(n)
    BY <1>2, <1>4
  <2>2. Cardinality(Blocked) <= Cardinality(Ungranted)
    BY FS_Subset DEF Ungranted
  <2>3. Cardinality(S) < Cardinality(Blocked)
    BY <1>2, <2>1, FS_Subset
  <2>4. eventCount + Cardinality(Ungranted) <= 0
    BY <1>4, <2>1 DEF NoLostWakeup, Avail
  <2>5. eventCount < 0 /\ SignalsOf(n) = n
    BY <2>1, <2>2, <2>3, <2>4 DEF SignalsOf, Typing
  <2>6. QED
    BY <1>2, <2>1, <2>4, <2>5 DEF Avail, Typing
<1>5. NoLostWakeup'
  BY <1>4 DEF NoLostWakeup, UsedAsInRepository
<1>6. AloneUntilShared'
  BY <1>2 DEF AloneUntilShared
<1>7. QED
  BY <1>3, <1>5, <1>6

(***************************************************************************)
(* The lost wake-up part.  With no timeouts nobody is ever "expired"; of   *)
(* threads that never share, none is blocked beside one that times out.    *)
(***************************************************************************)
LEMMA WaitStepNoLostWakeup ==
    ASSUME IInv, NEW t \in Threads, WaitStep(t)
    PROVE  NoLostWakeup'
<1> SUFFICES ASSUME UsedAsInRepository', Blocked' # {}
             PROVE  Avail' <= 0
  BY DEF NoLostWakeup
<1> USE SemAssumption, FiniteParts DEF IInv
<1>0. UsedAsInRepository
  BY DEF UsedAsInRepository, WaitStep, WaitTakes, WaitBlocks, WaitReturns,
         TimerExpires, WaitTimesOut, SpuriousWakeup
<1>1. ASSUME t \in Ungranted, t \in Timed
      PROVE  Ungranted = {t}
  <2>1. shared = {}
    BY <1>0, <1>1 DEF UsedAsInRepository
  <2>2. QED
    BY <1>1, <2>1 DEF AloneUntilShared
<1>2. CASE WaitTakes(t)
  <2>1. Ungranted' = Ungranted /\ Blocked' = Blocked
    BY <1>2 DEF WaitTakes, Ungranted, Blocked, Expired, In
  <2>2. QED
    BY <1>0, <1>2, <2>1 DEF WaitTakes, NoLostWakeup, Avail, Typing
<1>3. CASE WaitBlocks(t)
  <2>1. Ungranted' = Ungranted \cup {t} /\ t \notin Ungranted
    BY <1>3, MoveOne DEF WaitBlocks, Ungranted, Blocked, Expired, In
  <2>2. Cardinality(Ungranted') = Cardinality(Ungranted) + 1
    BY <2>1, FS_AddElement
  <2>3. CASE Blocked # {}
    BY <1>0, <1>3, <2>2, <2>3
       DEF WaitBlocks, NoLostWakeup, Avail, Typing
  <2>4. CASE Blocked = {}
    <3>1. Ungranted = {}
      BY <1>3, <2>4
         DEF WaitBlocks, UsedAsInRepository, OnlyTimedExpire, Ungranted
    <3>2. Cardinality(Ungranted) = 0
      BY <3>1, FS_EmptySet
    <3>3. QED
      BY <1>3, <2>2, <3>2 DEF WaitBlocks, Avail, Typing
  <2>5. QED
    BY <2>3, <2>4
<1>4. CASE WaitReturns(t)
  <2>1. Ungranted' = Ungranted /\ Blocked' = Blocked
    BY <1>4 DEF WaitReturns, Ungranted, Blocked, Expired, In, Typing
  <2>2. QED
    BY <1>0, <1>4, <2>1 DEF WaitReturns, NoLostWakeup, Avail, Typing
<1>5. CASE TimerExpires(t)
  <2>1. Ungranted = {t}
    BY <1>1, <1>5 DEF TimerExpires, Ungranted, Blocked, In
  <2>2. Blocked' = {}
    BY <1>5, <2>1 DEF TimerExpires, Ungranted, Blocked, In, Typing
  <2>3. QED
    BY <2>2
<1>6. CASE WaitTimesOut(t)
  <2>1. t \in Timed /\ t \in Ungranted
    BY <1>6 DEF WaitTimesOut, OnlyTimedExpire, Ungranted, Expired, In
  <2>2. Ungranted = {t}
    BY <1>1, <2>1
  <2>3. Blocked' = {}
    BY <1>6, <2>2 DEF WaitTimesOut, Ungranted, Blocked, In, Typing
  <2>4. QED
    BY <2>3
<1>7. CASE SpuriousWakeup(t)
  <2>1. /\ Ungranted' = Ungranted \ {t} /\ t \in Ungranted /\ t \in Blocked
    BY <1>7, MoveOne DEF SpuriousWakeup, Ungranted, Blocked, Expired, In
  <2>2. Cardinality(Ungranted') = Cardinality(Ungranted) - 1
    BY <2>1, FS_RemoveElement
  <2>3. QED
    BY <1>0, <1>7, <2>1, <2>2
       DEF SpuriousWakeup, NoLostWakeup, Avail, Typing
<1>8. QED
  BY <1>2, <1>3, <1>4, <1>5, <1>6, <1>7 DEF WaitStep

-----------------------------------------------------------------------------
LEMMA NextIInv == IInv /\ [Next]_vars => IInv'
<1> SUFFICES ASSUME IInv, [Next]_vars PROVE IInv'
  OBVIOUS
<1>1. CASE UNCHANGED vars
  <2>1. /\ Ungranted' = Ungranted /\ Woken' = Woken /\ Blocked' = Blocked
        /\ Expired' = Expired
    BY <1>1 DEF vars, Ungranted, Woken, Blocked, Expired, In
  <2>2. QED
    BY <1>1, <2>1 DEF vars, IInv, Typing, Books, Slack, OnlyTimedExpire,
                      AloneUntilShared, NoLostWakeup, UsedAsInRepository, Avail
<1>2. ASSUME NEW t \in Threads, WaitStep(t)
      PROVE  IInv'
  BY <1>2, WaitStepIInv, WaitStepAlone, WaitStepNoLostWakeup DEF IInv
<1>3. ASSUME NEW n \in Batches, Release(n)
      PROVE  IInv'
  BY <1>3, ReleaseIInv, SemAssumption DEF Release, IInv, Typing
<1>4. CASE ReleaseAll
  <2> DEFINE n == IF eventCount < 0 THEN -eventCount ELSE 0
  <2>1. n \in Nat
    BY DEF IInv, Typing
  <2>2. QED
    BY <1>4, <2>1, ReleaseIInv DEF ReleaseAll, IInv, Typing
<1>5. QED
  BY <1>1, <1>2, <1>3, <1>4 DEF Next

THEOREM Invariance == Spec => []IInv
  BY InitIInv, NextIInv, PTL DEF Spec

\* However waits, timeouts, wake-ups and releases interleave, no permit is
\* created or lost by RJSemaphore's counters, and they stay within the range
\* the threads and the permits allow.
THEOREM PermitsConserved == Spec => []Conservation
<1>1. IInv => Conservation
  BY FiniteParts, SemAssumption
     DEF IInv, Typing, Books, Slack, TypeOK, Conservation
<1>2. QED
  BY Invariance, <1>1, PTL

\* RJ_S_OK is returned at most once per permit and per spurious wake-up.
THEOREM NeverOverdrawn == Spec => []NoOverdraft
<1>1. IInv => NoOverdraft
  BY FiniteParts, SemAssumption
     DEF IInv, Typing, Books, Slack, NoOverdraft
<1>2. QED
  BY Invariance, <1>1, PTL

\* Without timeouts, or until two threads are inside Wait, Release never leaves
\* a blocked thread beside a permit.
THEOREM NoWakeupLost == Spec => []NoLostWakeup
<1>1. IInv => NoLostWakeup
  BY DEF IInv
<1>2. QED
  BY Invariance, <1>1, PTL

-----------------------------------------------------------------------------
\* A release, seen by the abstract semaphore: n permits arrive and the
\* signalled threads are granted one each.
LEMMA ReleaseIsPost ==
    ASSUME IInv, NEW n \in Nat, released + n <= MaxReleased,
           eventCount' = eventCount + n, Signals(SignalsOf(n)),
           UNCHANGED spurious
    PROVE  Abs!AbsNext
<1> USE SemAssumption, FiniteParts DEF IInv
<1>1. SignalsOf(n) \in Nat /\ SignalsOf(n) <= n
  BY SignalsOfBound
<1>2. PICK S \in SUBSET Blocked :
          /\ Cardinality(S) \in Nat /\ Cardinality(S) <= SignalsOf(n)
          /\ Ungranted' = Ungranted \ S
          /\ Cardinality(Ungranted') = Cardinality(Ungranted) - Cardinality(S)
  BY <1>1, SignalsMove
<1>3. S \in SUBSET Ungranted /\ n \in 0..MaxReleased
  BY <1>2 DEF Ungranted, Typing
<1>4. Abs!Cardinality(S) = Cardinality(S)
  BY DEF Abs!Cardinality, Cardinality
<1>5. Abs!Post(n, S)
  BY <1>1, <1>2, <1>3, <1>4 DEF Abs!Post, Avail, Typing
<1>6. QED
  BY <1>3, <1>5 DEF Abs!AbsNext

LEMMA WaitStepImplements ==
    ASSUME IInv, NEW t \in Threads, WaitStep(t)
    PROVE  Abs!AbsNext \/ UNCHANGED Abs!absVars
<1> USE SemAssumption, FiniteParts DEF IInv
<1>1. CASE WaitTakes(t)
  <2>1. Ungranted' = Ungranted /\ t \notin Ungranted
    BY <1>1 DEF WaitTakes, Ungranted, Blocked, Expired, In
  <2>2. Abs!TakeNow(t)
    BY <1>1, <2>1 DEF WaitTakes, Abs!TakeNow, Avail, Typing
  <2>3. QED
    BY <2>2 DEF Abs!AbsNext
<1>2. CASE WaitBlocks(t)
  <2>1. Ungranted' = Ungranted \cup {t} /\ t \notin Ungranted
    BY <1>2, MoveOne DEF WaitBlocks, Ungranted, Blocked, Expired, In
  <2>2. Cardinality(Ungranted') = Cardinality(Ungranted) + 1
    BY <2>1, FS_AddElement
  <2>3. Abs!Enter(t)
    BY <1>2, <2>1, <2>2 DEF WaitBlocks, Abs!Enter, Avail, Typing
  <2>4. QED
    BY <2>3 DEF Abs!AbsNext
<1>3. CASE WaitReturns(t)
  <2>1. Ungranted' = Ungranted
    BY <1>3 DEF WaitReturns, Ungranted, Blocked, Expired, In, Typing
  <2>2. QED
    BY <1>3, <2>1 DEF WaitReturns, Abs!absVars, Avail
<1>4. CASE TimerExpires(t)
  <2>1. Ungranted' = Ungranted
    BY <1>4 DEF TimerExpires, Ungranted, Blocked, Expired, In, Typing
  <2>2. QED
    BY <1>4, <2>1 DEF TimerExpires, Abs!absVars, Avail
<1>5. CASE WaitTimesOut(t)
  <2>1. Ungranted' = Ungranted \ {t} /\ t \in Ungranted
    BY <1>5, MoveOne DEF WaitTimesOut, Ungranted, Blocked, Expired, In
  <2>2. Cardinality(Ungranted') = Cardinality(Ungranted) - 1
    BY <2>1, FS_RemoveElement
  <2>3. Abs!GiveUp(t)
    BY <1>5, <2>1, <2>2 DEF WaitTimesOut, Abs!GiveUp, Avail, Typing
  <2>4. QED
    BY <2>3 DEF Abs!AbsNext
<1>6. CASE SpuriousWakeup(t)
  <2>1. Ungranted' = Ungranted \ {t} /\ t \in Ungranted
    BY <1>6, MoveOne DEF SpuriousWakeup, Ungranted, Blocked, Expired, In
  <2>2. Cardinality(Ungranted') = Cardinality(Ungranted) - 1
    BY <2>1, FS_RemoveElement
  <2>3. Abs!Glitch(t)
    BY <1>6, <2>1, <2>2 DEF SpuriousWakeup, Abs!Glitch, Avail, Typing
  <2>4. QED
    BY <2>3 DEF Abs!AbsNext
<1>7. QED
  BY <1>1, <1>2, <1>3, <1>4, <1>5, <1>6 DEF WaitStep

\* RJSemaphore implements the counting semaphore: no Wait returns RJ_S_OK
\* before a permit exists for it, but for one per spurious wake-up.
THEOREM Implementation == Spec => ImplementsSemaphore
<1>1. Init => Abs!AbsInit
  <2> SUFFICES ASSUME Init PROVE Abs!AbsInit
    OBVIOUS
  <2>1. Ungranted = {}
    BY DEF Init, Ungranted, Blocked, Expired, In
  <2>2. Cardinality(Ungranted) = 0
    BY <2>1, FS_EmptySet
  <2>3. QED
    BY <2>1, <2>2, SemAssumption DEF Init, Abs!AbsInit, Avail
<1>2. IInv /\ [Next]_vars => [Abs!AbsNext]_(Abs!absVars)
  <2> SUFFICES ASSUME IInv, [Next]_vars
               PROVE  Abs!AbsNext \/ UNCHANGED Abs!absVars
    OBVIOUS
  <2>1. CASE UNCHANGED vars
    BY <2>1 DEF vars, Abs!absVars, Avail, Ungranted, Blocked, Expired, In
  <2>2. ASSUME NEW t \in Threads, WaitStep(t)
        PROVE  Abs!AbsNext \/ UNCHANGED Abs!absVars
    BY <2>2, WaitStepImplements
  <2>4. ASSUME NEW n \in Batches, Release(n)
        PROVE  Abs!AbsNext
    BY <2>4, ReleaseIsPost, SemAssumption DEF Release
  <2>5. CASE ReleaseAll
    <3> DEFINE n == IF eventCount < 0 THEN -eventCount ELSE 0
    <3>1. n \in Nat
      BY DEF IInv, Typing
    <3>2. QED
      BY <2>5, <3>1, ReleaseIsPost DEF ReleaseAll
  <2>6. QED
    BY <2>1, <2>2, <2>4, <2>5 DEF Next
<1>3. QED
  BY <1>1, <1>2, Invariance, PTL DEF Spec, ImplementsSemaphore, Abs!AbsSpec
=============================================================================
