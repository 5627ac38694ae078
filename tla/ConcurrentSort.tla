--------------------------- MODULE ConcurrentSort ---------------------------
(***************************************************************************)
(* CXXTest/concurrent_sort_test/main.cpp: shearsort with a thread for each *)
(* row and column, and main as the barrier between the phases.             *)
(*                                                                         *)
(* A thread that is done with a phase counts itself, signals cv without    *)
(* the lock, then locks and waits on g_cv without a predicate.  main waits *)
(* until all have counted themselves and calls g_cv.notify_all, also       *)
(* without the lock.  So a signal may come before its receiver sleeps, and *)
(* a spurious wake-up passes the barrier.                                  *)
(*                                                                         *)
(* A thread sorts its line of the array in one step: as long as the        *)
(* barrier holds nobody sorts a line that crosses it (PhasesApart). Once a *)
(* thread has been woken before its phase was closed, rows and columns may *)
(* be sorted at the same time, a data race, and the array is Undefined.    *)
(***************************************************************************)
EXTENDS Integers, FiniteSets, SequencesExt

CONSTANTS Size,        \* the square root of the number of elements
          Inputs,      \* the arrays there may be in input.txt, row by row
          MaxSpurious  \* bound: spurious wake-ups

ASSUME SortAssumption == Size \in Nat \ {0} /\ MaxSpurious \in Nat

Index == 0..(Size - 1)
Threads == Index       \* the id of each sorting thread

-----------------------------------------------------------------------------
(* The array: a function from rows to lines. *)

\* As many powers of two, from 2 on, are no greater than n.
FloorLog2(n) == Cardinality({k \in 1..n : 2^k <= n})

\* Mutant: the last row phase is forgotten.
MaxPhase_NoExtra == FloorLog2(Size * Size)

\* g_max_phase: log(elementNum) / log(2) + 1, cut to an integer.
MaxPhase == FloorLog2(Size * Size) + 1

\* The positions one bubble sort compares with their successors, in order.
Comparisons == FlattenSeq([j \in 1..(Size - 1) |-> [p \in 1..(Size - j) |-> p - 1]])

SwapIf == [line \in [Index -> Int], p \in Index, up \in BOOLEAN |->
    IF (up /\ line[p] > line[p + 1]) \/ (~up /\ line[p] < line[p + 1])
    THEN [line EXCEPT ![p] = line[p + 1], ![p + 1] = line[p]] ELSE line]

\* The bubble sort of one line, upwards or downwards.
Bubble(line, up) ==
    LET after[k \in 0..Len(Comparisons)] ==
            IF k = 0 THEN line ELSE SwapIf[after[k - 1], Comparisons[k], up]
    IN  after[Len(Comparisons)]

RowUp(r) == r % 2 = 0

Undefined == <<>>

\* In an odd phase thread t sorts its row, in an even one its column.
SortRow(a, t) == [a EXCEPT ![t] = Bubble(@, RowUp(t))]
SortColumn(a, t) == LET column == Bubble([r \in Index |-> a[r][t]], TRUE)
                    IN  [r \in Index |-> [a[r] EXCEPT ![t] = column[r]]]

-----------------------------------------------------------------------------
VARIABLES array,     \* g_arr, or Undefined
          step,      \* threads: "sort", "counted", "signalled", "wait", "woken", "done"
          phase,     \* threads: their phase
          calCount,  \* g_cal_count
          main,      \* "lock", "checked" (holding g_lock), "asleep", "print", "join", "ended"
          signals,   \* the phases main has closed with notify_all
          spurious   \* history: spurious wake-ups

sortVars == <<array, step, phase, calCount, main, signals, spurious>>

SortInit ==
    /\ array \in Inputs
    /\ step = [t \in Threads |-> "sort"] /\ phase = [t \in Threads |-> 1]
    /\ calCount = 0 /\ main = "lock" /\ signals = 0
    /\ spurious = 0

StepTo(t, l) == step' = [step EXCEPT ![t] = l]

-----------------------------------------------------------------------------
(* thread_func.  g_lock is held across steps only by main, when "checked". *)

Sorted(t) ==
    /\ step[t] = "sort"
    /\ array' = IF array = Undefined THEN Undefined
                ELSE IF phase[t] % 2 = 1 THEN SortRow(array, t) ELSE SortColumn(array, t)
    /\ calCount' = calCount + 1
    /\ StepTo(t, "counted")
    /\ UNCHANGED <<phase, main, signals, spurious>>

\* pcv->notify_one: lost unless main is asleep.
Signal(t) ==
    /\ step[t] = "counted"
    /\ StepTo(t, "signalled")
    /\ main' = IF main = "asleep" THEN "lock" ELSE main
    /\ UNCHANGED <<array, phase, calCount, signals, spurious>>

WaitSignal(t) ==
    /\ step[t] = "signalled" /\ main # "checked"
    /\ StepTo(t, "wait")
    /\ UNCHANGED <<array, phase, calCount, main, signals, spurious>>

\* With no predicate to test, the thread goes on, ahead of its phase or not.
ThreadSpurious(t) ==
    /\ step[t] = "wait" /\ spurious < MaxSpurious
    /\ spurious' = spurious + 1
    /\ array' = IF signals < phase[t] THEN Undefined ELSE array
    /\ StepTo(t, "woken")
    /\ UNCHANGED <<phase, calCount, main, signals>>

\* Mutant: the last phase is left out.
NextPhase_Short(t) ==
    /\ step[t] = "woken" /\ main # "checked"
    /\ phase' = [phase EXCEPT ![t] = @ + 1]
    /\ StepTo(t, IF phase[t] + 1 < MaxPhase THEN "sort" ELSE "done")
    /\ UNCHANGED <<array, calCount, main, signals, spurious>>

NextPhase(t) ==
    /\ step[t] = "woken" /\ main # "checked"
    /\ phase' = [phase EXCEPT ![t] = @ + 1]
    /\ StepTo(t, IF phase[t] < MaxPhase THEN "sort" ELSE "done")
    /\ UNCHANGED <<array, calCount, main, signals, spurious>>

-----------------------------------------------------------------------------
(* main. *)

\* Mutant: compares with the number of threads in every phase.
AllCounted_Once == calCount >= Size

AllCounted == calCount >= (signals + 1) * Size

\* Locks, first or again after a wake-up, and tests the count.
MainTest ==
    /\ main = "lock"
    /\ main' = IF AllCounted THEN "print" ELSE "checked"
    /\ UNCHANGED <<array, step, phase, calCount, signals, spurious>>

MainSleep ==
    /\ main = "checked"
    /\ main' = "asleep"
    /\ UNCHANGED <<array, step, phase, calCount, signals, spurious>>

MainSpurious ==
    /\ main = "asleep" /\ spurious < MaxSpurious
    /\ spurious' = spurious + 1
    /\ main' = "lock"
    /\ UNCHANGED <<array, step, phase, calCount, signals>>

\* The array has been printed: g_cv.notify_all.
MainNotifies ==
    /\ main = "print"
    /\ step' = [t \in Threads |-> IF step[t] = "wait" THEN "woken" ELSE step[t]]
    /\ signals' = signals + 1
    /\ main' = IF signals + 1 < MaxPhase THEN "lock" ELSE "join"
    /\ UNCHANGED <<array, phase, calCount, spurious>>

MainJoins ==
    /\ main = "join" /\ \A t \in Threads : step[t] = "done"
    /\ main' = "ended"
    /\ UNCHANGED <<array, step, phase, calCount, signals, spurious>>

ThreadStep(t) == Sorted(t) \/ Signal(t) \/ WaitSignal(t) \/ NextPhase(t)
MainStep == MainTest \/ MainSleep \/ MainNotifies \/ MainJoins

SortNext ==
    \/ \E t \in Threads : ThreadStep(t) \/ ThreadSpurious(t)
    \/ MainStep \/ MainSpurious

SortSpec == SortInit /\ [][SortNext]_sortVars

SortFairSpec == SortSpec /\ WF_sortVars(MainStep) /\ \A t \in Threads : WF_sortVars(ThreadStep(t))

-----------------------------------------------------------------------------
\* How many phases thread t has finished sorting.
Finished(t) == IF step[t] = "sort" THEN phase[t] - 1 ELSE IF step[t] = "done" THEN MaxPhase ELSE phase[t]

(* The values the state may take; part of PhasesApart. *)
SortTypeOK ==
    /\ step \in [Threads -> {"sort", "counted", "signalled", "wait", "woken", "done"}]
    /\ phase \in [Threads -> Nat] /\ calCount \in Nat
    /\ main \in {"lock", "checked", "asleep", "print", "join", "ended"}
    /\ signals \in Nat /\ signals <= MaxPhase /\ spurious \in Nat
    /\ main \in {"lock", "checked", "asleep", "print"} => signals < MaxPhase

(***************************************************************************)
(* The barrier holds: without spurious wake-ups no thread sorts in a phase *)
(* before all have finished the one before it, so rows and columns are     *)
(* never sorted at the same time, and main prints an array at rest.        *)
(***************************************************************************)
PhasesApart ==
    /\ SortTypeOK
    /\ spurious = 0 =>
         /\ \A t, u \in Threads : step[t] = "sort" => Finished(u) >= phase[t] - 1
         /\ main = "print" => \A t \in Threads : step[t] # "sort"

\* A receiver that sleeps although what it waits for has happened: its signal
\* came too early.
Stranded(t) == step[t] = "wait" /\ signals >= phase[t]
MainStranded == main = "asleep" /\ AllCounted /\ \A t \in Threads : step[t] # "counted"
AnyStranded == MainStranded \/ \E t \in Threads : Stranded(t)

\* Along the snake: even rows from left to right, odd rows from right to left.
Snake(a) == [k \in 0..(Size * Size - 1) |->
                LET r == k \div Size  c == k % Size
                IN  a[r][IF RowUp(r) THEN c ELSE Size - 1 - c]]

Occurrences(a, v) == Cardinality({cell \in Index \X Index : a[cell[1]][cell[2]] = v})

(***************************************************************************)
(* The program ends with the elements of its input sorted along the snake, *)
(* in whatever order the threads sorted, counted, signalled and slept, and *)
(* also if main, or a thread whose signal came too early, woke for         *)
(* nothing; unless a thread did before its phase was closed, as g_cv is    *)
(* waited for without a predicate (line 135).  True for the sizes whose    *)
(* cut logarithm leaves the last phase to the rows, such as the 4 of       *)
(* input.txt.                                                              *)
(***************************************************************************)
SnakeSorted ==
    main = "ended" /\ array # Undefined =>
        /\ \A k \in 0..(Size * Size - 2) : Snake(array)[k] <= Snake(array)[k + 1]
        /\ \E a \in Inputs : \A cell \in Index \X Index :
               LET v == a[cell[1]][cell[2]] IN Occurrences(array, v) = Occurrences(a, v)

(***************************************************************************)
(* A lost signal is the only way to hang: without one the program ends.    *)
(***************************************************************************)
EndsUnlessStranded == <>(AnyStranded \/ main = "ended")
=============================================================================
