---------------------------- MODULE RJSemaphore ----------------------------
(***************************************************************************)
(* RJSemaphore.cpp, the pthread branch: a counting semaphore made of one   *)
(* mutex, one condition variable and two counters.  Every method runs      *)
(* under the mutex from its first to its last line except inside           *)
(* pthread_cond_(timed)wait, so a method is one action up to the wait and  *)
(* one action after it.                                                    *)
(*                                                                         *)
(* Wait calls pthread_cond_wait once, without re-testing a predicate: a    *)
(* spurious wake-up returns RJ_S_OK.  A timed waiter whose time is over    *)
(* has left the condition variable but runs its ETIMEDOUT branch only      *)
(* when it has the mutex again: that gap is the state "expired".           *)
(***************************************************************************)
EXTENDS Integers, FiniteSets

CONSTANTS Threads,      \* threads that call Wait
          Timed,        \* those that pass a timeout other than RJ_INFINITE
          InitCount,    \* nInitCount of the constructor
          Batches,      \* values of lCount passed to Release
          MaxReleased,  \* bound: permits ever released
          MaxSpurious   \* bound: wake-ups no signal asked for

ASSUME SemAssumption ==
    /\ IsFiniteSet(Threads)
    /\ Timed \subseteq Threads
    /\ InitCount \in Nat
    /\ Batches \subseteq Nat \ {0}
    /\ MaxReleased \in Nat
    /\ MaxSpurious \in Nat

VARIABLES eventCount,   \* m_lEventCount: permits minus threads inside Wait
          waiterCount,  \* m_lWaiterCount: written, never read in this branch
          pc,           \* where each thread is
          released,     \* history: permits released so far
          acquired,     \* history: Waits that returned RJ_S_OK
          spurious,     \* history: spurious wake-ups so far
          shared        \* history: threads that entered Wait beside another

vars == <<eventCount, waiterCount, pc, released, acquired, spurious, shared>>

In(l) == {t \in Threads : pc[t] = l}
Blocked == In("blocked")
Expired == In("expired")
Woken   == In("woken")
Ungranted == Blocked \cup Expired

Init == /\ eventCount = InitCount
        /\ waiterCount = -InitCount
        /\ pc = [t \in Threads |-> "out"]
        /\ released = 0 /\ acquired = 0 /\ spurious = 0 /\ shared = {}

-----------------------------------------------------------------------------
\* Mutant: the counter is tested before it is decremented.
WaitTakes_TestsTooEarly(t) ==
    /\ pc[t] = "out"
    /\ eventCount >= 0
    /\ eventCount' = eventCount - 1
    /\ waiterCount' = waiterCount + 1
    /\ acquired' = acquired + 1
    /\ UNCHANGED <<pc, released, spurious, shared>>

\* Wait, the count was positive: return RJ_NOERROR without blocking.
WaitTakes(t) ==
    /\ pc[t] = "out"
    /\ eventCount - 1 >= 0
    /\ eventCount' = eventCount - 1
    /\ waiterCount' = waiterCount + 1
    /\ acquired' = acquired + 1
    /\ UNCHANGED <<pc, released, spurious, shared>>

\* Wait, the count was not positive: block on m_hEvent.
WaitBlocks(t) ==
    /\ pc[t] = "out"
    /\ eventCount - 1 < 0
    /\ eventCount' = eventCount - 1
    /\ waiterCount' = waiterCount + 1
    /\ pc' = [pc EXCEPT ![t] = "blocked"]
    /\ shared' = IF Ungranted = {} THEN shared ELSE shared \cup {t}
    /\ UNCHANGED <<released, acquired, spurious>>

\* A woken thread has the mutex again: rc = 0, return RJ_S_OK.
WaitReturns(t) ==
    /\ pc[t] = "woken"
    /\ pc' = [pc EXCEPT ![t] = "out"]
    /\ acquired' = acquired + 1
    /\ UNCHANGED <<eventCount, waiterCount, released, spurious, shared>>

\* pthread_cond_timedwait gives up; the thread now queues for the mutex.
TimerExpires(t) ==
    /\ t \in Timed
    /\ pc[t] = "blocked"
    /\ pc' = [pc EXCEPT ![t] = "expired"]
    /\ UNCHANGED <<eventCount, waiterCount, released, acquired, spurious, shared>>

\* Mutant: the ETIMEDOUT branch forgets m_lEventCount++.
WaitTimesOut_KeepsCount(t) ==
    /\ pc[t] = "expired"
    /\ waiterCount' = waiterCount - 1
    /\ pc' = [pc EXCEPT ![t] = "out"]
    /\ UNCHANGED <<eventCount, released, acquired, spurious, shared>>

\* The ETIMEDOUT branch: undo both counters, return RJ_E_TIMEOUT.
WaitTimesOut(t) ==
    /\ pc[t] = "expired"
    /\ eventCount' = eventCount + 1
    /\ waiterCount' = waiterCount - 1
    /\ pc' = [pc EXCEPT ![t] = "out"]
    /\ UNCHANGED <<released, acquired, spurious, shared>>

\* POSIX lets pthread_cond_wait return without a signal.
SpuriousWakeup(t) ==
    /\ pc[t] = "blocked"
    /\ spurious < MaxSpurious
    /\ spurious' = spurious + 1
    /\ pc' = [pc EXCEPT ![t] = "woken"]
    /\ UNCHANGED <<eventCount, waiterCount, released, acquired, shared>>

-----------------------------------------------------------------------------
\* k calls of pthread_cond_signal: each wakes a blocked thread if there is one.
Signals(k) ==
    \E S \in SUBSET Blocked :
        /\ \/ Cardinality(S) = k
           \/ S = Blocked /\ Cardinality(S) <= k
        /\ pc' = [t \in Threads |-> IF t \in S THEN "woken" ELSE pc[t]]

\* Mutant: signal only while the counter is strictly negative.
SignalsOf_Strict(n) == IF eventCount >= 0 THEN 0
                       ELSE IF n < -eventCount THEN n ELSE -eventCount - 1

\* How many of n increments leave the counter at or below zero.
SignalsOf(n) == IF eventCount >= 0 THEN 0
                ELSE IF n <= -eventCount THEN n ELSE -eventCount

Release(n) ==
    /\ released + n <= MaxReleased
    /\ waiterCount' = waiterCount - n
    /\ eventCount' = eventCount + n
    /\ Signals(SignalsOf(n))
    /\ released' = released + n
    /\ UNCHANGED <<acquired, spurious, shared>>

\* The loop of ReleaseAll runs until the counter is no longer negative.
ReleaseAll ==
    LET n == IF eventCount < 0 THEN -eventCount ELSE 0
    IN /\ released + n <= MaxReleased
       /\ eventCount' = eventCount + n
       /\ waiterCount' = 0
       /\ Signals(SignalsOf(n))
       /\ released' = released + n
       /\ UNCHANGED <<acquired, spurious, shared>>

WaitStep(t) == \/ WaitTakes(t)    \/ WaitBlocks(t)   \/ WaitReturns(t)
               \/ TimerExpires(t) \/ WaitTimesOut(t) \/ SpuriousWakeup(t)

Next == \/ \E t \in Threads : WaitStep(t)
        \/ \E n \in Batches : Release(n)
        \/ ReleaseAll

Spec == Init /\ [][Next]_vars

-----------------------------------------------------------------------------
(***************************************************************************)
(* Types and ranges: the counter never runs away from the permits and the  *)
(* threads it counts, however waits, timeouts and releases interleave.     *)
(***************************************************************************)
TypeOK == /\ eventCount \in (-Cardinality(Threads) - MaxSpurious)..(InitCount + MaxReleased)
          /\ waiterCount \in Int
          /\ pc \in [Threads -> {"out", "blocked", "woken", "expired"}]
          /\ released \in 0..MaxReleased
          /\ acquired \in 0..(InitCount + MaxReleased + MaxSpurious)
          /\ spurious \in 0..MaxSpurious
          /\ shared \subseteq Threads

\* Permits not taken and not promised to a woken thread.
Avail == eventCount + Cardinality(Ungranted)

Books == eventCount + Cardinality(Ungranted) + Cardinality(Woken)
           = InitCount + released - acquired

(***************************************************************************)
(* Wait and Release keep the books: every permit is either still in the    *)
(* counter, was returned by a Wait as RJ_S_OK, or is owed to a thread that *)
(* is inside Wait.  Wait's fast path, its ETIMEDOUT branch and the         *)
(* increments of Release must all agree for this to hold.                  *)
(***************************************************************************)
Conservation == TypeOK /\ Books

(***************************************************************************)
(* No lost wake-up: a thread blocked on the condition variable has no      *)
(* permit it could take.  Release signals only while the counter is        *)
(* negative, so this is what makes every later Release reach the waiter.   *)
(* It needs the way this repository uses the class: no timeouts, or no two *)
(* threads inside Wait at once.  A second waiter that arrives between a    *)
(* Release and the ETIMEDOUT branch of a first one is left behind.         *)
(***************************************************************************)
UsedAsInRepository == Timed = {} \/ shared = {}

NoLostWakeup == UsedAsInRepository /\ Blocked # {} => Avail <= 0

(***************************************************************************)
(* Wait, Release and ReleaseAll implement a counting semaphore: the        *)
(* two-step wait (count down, block, count up again on ETIMEDOUT) looks to *)
(* its callers like one decrement or none.  A spurious wake-up passes for  *)
(* a permit, as Wait has no loop around pthread_cond_wait, and leaves the  *)
(* semaphore one permit short.                                             *)
(***************************************************************************)
Abs == INSTANCE CountingSemaphore
         WITH avail <- Avail, waiting <- Ungranted, glitches <- spurious,
              MaxGlitches <- MaxSpurious
ImplementsSemaphore == Abs!AbsSpec
=============================================================================
