------------------------- MODULE CountingSemaphore -------------------------
(***************************************************************************)
(* What RJSemaphore promises its callers: a number of permits, threads     *)
(* that wait for one, and no acquisition without a permit, but for one per *)
(* glitch of the condition variable, which leaves the semaphore in debt.   *)
(* A release may hand its permits to waiters in the same step; a waiter    *)
(* may give up.                                                            *)
(***************************************************************************)
EXTENDS Integers, FiniteSets

CONSTANTS Threads, InitCount, MaxReleased, MaxGlitches

VARIABLES avail,    \* permits nobody holds, less those given away on credit
          waiting,  \* threads inside Wait that have not been granted a permit
          glitches  \* waiters let go without a permit so far

absVars == <<avail, waiting, glitches>>

AbsInit == avail = InitCount /\ waiting = {} /\ glitches = 0

Enter(t) == /\ t \notin waiting
            /\ waiting' = waiting \cup {t}
            /\ UNCHANGED <<avail, glitches>>

TakeNow(t) == /\ t \notin waiting
              /\ avail > 0
              /\ avail' = avail - 1
              /\ UNCHANGED <<waiting, glitches>>

\* n permits arrive and the waiters in S are granted one each.
Post(n, S) == /\ Cardinality(S) <= n
              /\ avail' = avail + n - Cardinality(S)
              /\ waiting' = waiting \ S
              /\ UNCHANGED glitches

GiveUp(t) == /\ t \in waiting
             /\ waiting' = waiting \ {t}
             /\ UNCHANGED <<avail, glitches>>

Glitch(t) == /\ t \in waiting /\ glitches < MaxGlitches
             /\ waiting' = waiting \ {t}
             /\ avail' = avail - 1
             /\ glitches' = glitches + 1

AbsNext == \/ \E t \in Threads : Enter(t) \/ TakeNow(t) \/ GiveUp(t) \/ Glitch(t)
           \/ \E n \in 0..MaxReleased, S \in SUBSET waiting : Post(n, S)

AbsSpec == AbsInit /\ [][AbsNext]_absVars
=============================================================================
