------------------------- MODULE ThreadPool_proofs --------------------------
(***************************************************************************)
(* Proofs about ThreadPool for any finite set of workers, any set of       *)
(* committers and any bound on the tasks, and, in the second part, about   *)
(* the other program of threads beside it, ConcurrentSort.                 *)
(*                                                                         *)
(* The inductive invariant names what the lock protects: the worker        *)
(* between its test and its sleep, or about to take, holds it (Locked), so *)
(* nobody can have queued a task since the test (CheckedEmpty); and where  *)
(* every task is: done, with a worker, or queued (Order, Futures).         *)
(***************************************************************************)
EXTENDS ThreadPool, ConcurrentSort, FiniteSetTheorems, SequenceTheorems, TLAPS

Busy == {w \in Workers : pc[w] = "running"}

Typing == /\ stoped \in BOOLEAN
          /\ tasks \in Seq(TaskIds) /\ started \in Seq(TaskIds)
          /\ lock \in Workers \cup {"free"}
          /\ pc \in [Workers -> {"top", "acquire", "checked", "asleep", "take", "run",
                                 "running", "exit"}]
          /\ job \in [Workers -> 0..MaxTasks]
          /\ com \in [Committers -> {"idle", "checked", "pushed"}]
          /\ dtor \in {"alive", "stored", "notified", "gone"}
          /\ pushed \in 0..MaxTasks
          /\ future \in [TaskIds -> {"none", "pending", "ready", "broken"}]

Locked == \A w \in Workers : pc[w] \in {"checked", "take"} => lock = w

CheckedEmpty == \A w \in Workers : pc[w] = "checked" => tasks = <<>>

Idle == idlThrNum = Cardinality(Workers) - Cardinality(Busy)

Order == /\ Len(started) + Len(tasks) = pushed
         /\ \A k \in 1..Len(started) : started[k] = k
         /\ \A k \in 1..Len(tasks) : tasks[k] = Len(started) + k

Jobs == \A w \in Workers : pc[w] \in {"run", "running"} => job[w] \in 1..Len(started)

Futures ==
    dtor # "gone" =>
       /\ \A t \in 1..Len(started) :
             \/ future[t] = "ready"
             \/ \E w \in Workers : pc[w] \in {"run", "running"} /\ job[w] = t
       /\ \A t \in (Len(started) + 1)..pushed : future[t] = "pending"

Gone == dtor = "gone" => \A w \in Workers : pc[w] = "exit"

IInv == /\ Typing /\ Locked /\ CheckedEmpty /\ Idle /\ Order /\ Jobs /\ Futures /\ Gone
        /\ NoTaskStranded /\ NoFutureHangs

-----------------------------------------------------------------------------
(* One lemma per conjunct of IInv that takes some work. *)

LEMMA InitIInv == Init => IInv
<1> SUFFICES ASSUME Init PROVE IInv
  OBVIOUS
<1>1. Typing
  <2>1. tasks \in Seq(TaskIds) /\ started \in Seq(TaskIds)
    BY EmptySeq DEF Init
  <2>2. 0 \in 0..MaxTasks
    BY PoolAssumption
  <2>3. /\ pc \in [Workers -> {"top", "acquire", "checked", "asleep", "take", "run",
                             "running", "exit"}]
        /\ job \in [Workers -> 0..MaxTasks]
        /\ com \in [Committers -> {"idle", "checked", "pushed"}]
        /\ future \in [TaskIds -> {"none", "pending", "ready", "broken"}]
    BY <2>2 DEF Init
  <2>4. QED
    BY <2>1, <2>2, <2>3 DEF Init, Typing
<1>2. Idle
  <2>1. Busy = {}
    BY DEF Init, Busy
  <2>2. Cardinality(Workers) \in Nat
    BY PoolAssumption, FS_CardinalityType
  <2>3. QED
    BY <2>1, <2>2, FS_EmptySet DEF Init, Idle
<1>3. QED
  BY <1>1, <1>2, PoolAssumption
     DEF Init, IInv, Locked, CheckedEmpty, Order, Jobs, Futures, Gone, NoTaskStranded, NoFutureHangs

LEMMA NextTyping == Typing /\ [Next]_vars => Typing'
<1> SUFFICES ASSUME Typing, [Next]_vars PROVE Typing'
  OBVIOUS
<1> USE PoolAssumption DEF Typing, TaskIds, Goto
<1>1. ASSUME NEW w \in Workers, LoopTest(w) PROVE Typing'
  BY <1>1 DEF LoopTest
<1>2. ASSUME NEW w \in Workers, WaitTest(w) PROVE Typing'
  BY <1>2 DEF WaitTest
<1>3. ASSUME NEW w \in Workers, Sleep(w) PROVE Typing'
  BY <1>3 DEF Sleep
<1>4. ASSUME NEW w \in Workers, Take(w) PROVE Typing'
  <2>1. CASE tasks = <<>>
    BY <1>4, <2>1 DEF Take
  <2>2. CASE tasks # <<>>
    <3>1. Head(tasks) \in 1..MaxTasks /\ Tail(tasks) \in Seq(1..MaxTasks)
      BY <2>2, HeadTailProperties
    <3>2. started' \in Seq(1..MaxTasks) /\ tasks' \in Seq(1..MaxTasks)
      <4>1. started' = Append(started, Head(tasks)) /\ tasks' = Tail(tasks)
        BY <1>4, <2>2 DEF Take
      <4>2. QED
        BY <3>1, <4>1, AppendProperties
    <3>3. job' \in [Workers -> 0..MaxTasks]
      <4>1. job' = [job EXCEPT ![w] = Head(tasks)]
        BY <1>4, <2>2 DEF Take
      <4>2. \A h \in 1..MaxTasks : [job EXCEPT ![w] = h] \in [Workers -> 0..MaxTasks]
        OBVIOUS
      <4>3. QED
        BY <3>1, <4>1, <4>2
    <3>4. QED
      BY <1>4, <2>2, <3>2, <3>3 DEF Take
  <2>3. QED
    BY <2>1, <2>2
<1>5. ASSUME NEW w \in Workers, RunTask(w) PROVE Typing'
  BY <1>5 DEF RunTask
<1>6. ASSUME NEW w \in Workers, TaskDone(w) PROVE Typing'
  <2>1. future' \in [1..MaxTasks -> {"none", "pending", "ready", "broken"}]
    BY <1>6 DEF TaskDone
  <2>2. QED
    BY <1>6, <2>1 DEF TaskDone
<1>7. ASSUME NEW w \in Workers, SpuriousWakeup(w) PROVE Typing'
  BY <1>7 DEF SpuriousWakeup
<1>8. ASSUME NEW c \in Committers, CommitTest(c) \/ CommitPush(c) \/ CommitNotify(c) PROVE Typing'
  <2>1. CASE CommitTest(c)
    BY <2>1 DEF CommitTest
  <2>2. CASE CommitPush(c)
    <3>1. pushed + 1 \in 1..MaxTasks
      BY <2>2 DEF CommitPush
    <3>2. tasks' \in Seq(1..MaxTasks)
      BY <2>2, <3>1 DEF CommitPush
    <3>3. future' \in [1..MaxTasks -> {"none", "pending", "ready", "broken"}]
      BY <2>2, <3>1 DEF CommitPush
    <3>4. QED
      BY <2>2, <3>1, <3>2, <3>3 DEF CommitPush
  <2>3. CASE CommitNotify(c)
    BY <2>3 DEF CommitNotify
  <2>4. QED
    BY <1>8, <2>1, <2>2, <2>3
<1>9. CASE StopStore
  BY <1>9 DEF StopStore
<1>10. CASE NotifyAll
  BY <1>10 DEF NotifyAll
<1>11. CASE JoinAll
  BY <1>11 DEF JoinAll
<1>12. CASE UNCHANGED vars
  BY <1>12 DEF vars
<1>13. QED
  BY <1>1, <1>2, <1>3, <1>4, <1>5, <1>6, <1>7, <1>8, <1>9, <1>10, <1>11, <1>12
     DEF Next, WorkerStep

\* Whoever tests, sleeps on or takes from the queue holds the lock meanwhile.
LEMMA NextLocked == Typing /\ Locked /\ CheckedEmpty /\ [Next]_vars => Locked' /\ CheckedEmpty'
<1> SUFFICES ASSUME Typing, Locked, CheckedEmpty, [Next]_vars PROVE Locked' /\ CheckedEmpty'
  OBVIOUS
<1> USE PoolAssumption DEF Typing, Locked, CheckedEmpty, Goto
<1>1. ASSUME NEW w \in Workers, WorkerStep(w) PROVE Locked' /\ CheckedEmpty'
  <2>1. CASE LoopTest(w)
    BY <2>1 DEF LoopTest
  <2>2. CASE WaitTest(w)
    BY <2>2 DEF WaitTest, Ready
  <2>3. CASE Sleep(w)
    BY <2>3 DEF Sleep
  <2>4. CASE Take(w)
    BY <2>4, SMTT(30) DEF Take
  <2>5. CASE RunTask(w)
    BY <2>5 DEF RunTask
  <2>6. CASE TaskDone(w)
    BY <2>6 DEF TaskDone
  <2>7. QED
    BY <1>1, <2>1, <2>2, <2>3, <2>4, <2>5, <2>6 DEF WorkerStep
<1>2. ASSUME NEW w \in Workers, SpuriousWakeup(w) PROVE Locked' /\ CheckedEmpty'
  BY <1>2 DEF SpuriousWakeup
<1>3. ASSUME NEW c \in Committers, CommitTest(c) \/ CommitPush(c) \/ CommitNotify(c)
      PROVE Locked' /\ CheckedEmpty'
  BY <1>3 DEF CommitTest, CommitPush, CommitNotify
<1>4. CASE StopStore \/ NotifyAll \/ JoinAll
  BY <1>4 DEF StopStore, NotifyAll, JoinAll
<1>5. CASE UNCHANGED vars
  BY <1>5 DEF vars
<1>6. QED
  BY <1>1, <1>2, <1>3, <1>4, <1>5 DEF Next

\* idlThrNum counts the workers that are not running a task.
LEMMA NextIdle == Typing /\ Idle /\ [Next]_vars => Idle'
<1> SUFFICES ASSUME Typing, Idle, [Next]_vars PROVE Idle'
  OBVIOUS
<1>1. /\ IsFiniteSet(Busy) /\ Cardinality(Busy) \in Nat
      /\ Cardinality(Workers) \in Nat
  BY PoolAssumption, FS_Subset, FS_CardinalityType DEF Busy
<1>2. ASSUME NEW w \in Workers, RunTask(w) PROVE Idle'
  <2>1. Busy' = Busy \cup {w} /\ w \notin Busy
    BY <1>2 DEF RunTask, Busy, Goto, Typing
  <2>2. Cardinality(Busy') = Cardinality(Busy) + 1
    BY <1>1, <2>1, FS_AddElement
  <2>3. QED
    BY <1>1, <1>2, <2>2 DEF RunTask, Idle
<1>3. ASSUME NEW w \in Workers, TaskDone(w) PROVE Idle'
  <2>1. Busy' = Busy \ {w} /\ w \in Busy
    BY <1>3 DEF TaskDone, Busy, Goto, Typing
  <2>2. Cardinality(Busy') = Cardinality(Busy) - 1
    BY <1>1, <2>1, FS_RemoveElement
  <2>3. QED
    BY <1>1, <1>3, <2>2 DEF TaskDone, Idle
<1>4. ASSUME UNCHANGED idlThrNum, Busy' = Busy PROVE Idle'
  BY <1>4 DEF Idle
<1>5. ASSUME NEW w \in Workers,
             LoopTest(w) \/ WaitTest(w) \/ Sleep(w) \/ Take(w) \/ SpuriousWakeup(w)
      PROVE UNCHANGED idlThrNum /\ Busy' = Busy
  BY <1>5 DEF LoopTest, WaitTest, Sleep, Take, SpuriousWakeup, Goto, Busy, Typing
<1>6. ASSUME NEW c \in Committers, CommitTest(c) \/ CommitPush(c) \/ CommitNotify(c)
      PROVE UNCHANGED idlThrNum /\ Busy' = Busy
  BY <1>6 DEF CommitTest, CommitPush, CommitNotify, Goto, Busy, Typing
<1>7. ASSUME StopStore \/ NotifyAll \/ JoinAll \/ UNCHANGED vars
      PROVE UNCHANGED idlThrNum /\ Busy' = Busy
  BY <1>7 DEF StopStore, NotifyAll, JoinAll, vars, Busy, Typing
<1>8. QED
  BY <1>2, <1>3, <1>4, <1>5, <1>6, <1>7 DEF Next, WorkerStep

\* What is started and what is queued is numbered through.
LEMMA NextOrder == Typing /\ Order /\ [Next]_vars => Order'
<1> SUFFICES ASSUME Typing, Order, [Next]_vars PROVE Order'
  OBVIOUS
<1> USE DEF Typing, TaskIds
<1>0. /\ Len(started) + Len(tasks) = pushed
      /\ Len(started) \in Nat /\ Len(tasks) \in Nat
      /\ \A k \in 1..Len(started) : started[k] = k
      /\ \A k \in 1..Len(tasks) : tasks[k] = Len(started) + k
  BY LenProperties DEF Order
<1>1. ASSUME NEW w \in Workers, Take(w), tasks # <<>> PROVE Order'
  <2>1. /\ tasks' = Tail(tasks) /\ started' = Append(started, Head(tasks))
        /\ pushed' = pushed
    BY <1>1 DEF Take
  <2>2. /\ Len(tasks) \in Nat \ {0} /\ Len(started) \in Nat
    BY <1>0, <1>1, EmptySeq
  <2>3. Head(tasks) = tasks[1] /\ Head(tasks) = Len(started) + 1
    BY <1>0, <2>2
  <2>4. /\ Len(tasks') = Len(tasks) - 1
        /\ \A k \in 1..Len(tasks') : tasks'[k] = tasks[k + 1]
    BY <1>1, <2>1, HeadTailProperties
  <2>5. /\ Len(started') = Len(started) + 1
        /\ started'[Len(started) + 1] = Len(started) + 1
        /\ \A k \in 1..Len(started) : started'[k] = started[k]
    <3>1. Head(tasks) \in 1..MaxTasks
      BY <1>1, HeadTailProperties
    <3>2. /\ Len(Append(started, Head(tasks))) = Len(started) + 1
          /\ Append(started, Head(tasks))[Len(started) + 1] = Head(tasks)
          /\ \A k \in 1..Len(started) : Append(started, Head(tasks))[k] = started[k]
      BY <3>1, AppendProperties
    <3>3. QED
      BY <2>1, <2>3, <3>2
  <2>6. Len(started') + Len(tasks') = pushed'
    <3>1. Len(started') = Len(started) + 1 /\ Len(tasks') = Len(tasks) - 1
      BY <2>4, <2>5
    <3>2. Len(started) + Len(tasks) = pushed /\ Len(started) \in Nat /\ Len(tasks) \in Nat
      BY <1>0
    <3>3. pushed' = pushed
      BY <2>1
    <3>4. \A a, b \in Int : (a + 1) + (b - 1) = a + b
      OBVIOUS
    <3>5. (Len(started) + 1) + (Len(tasks) - 1) = Len(started) + Len(tasks)
      BY <3>2, <3>4
    <3>6. QED
      BY ONLY <3>1, <3>2, <3>3, <3>5
  <2>7. ASSUME NEW k \in 1..Len(started') PROVE started'[k] = k
    <3>1. CASE k = Len(started) + 1
      BY <2>5, <3>1
    <3>2. CASE k \in 1..Len(started)
      BY <1>0, <2>5, <3>2
    <3>3. QED
      BY <2>2, <2>5, <3>1, <3>2
  <2>8. ASSUME NEW k \in 1..Len(tasks') PROVE tasks'[k] = Len(started') + k
    <3>1. k + 1 \in 1..Len(tasks)
      BY <2>2, <2>4
    <3>2. tasks'[k] = Len(started) + (k + 1)
      BY <1>0, <2>4, <3>1
    <3>3. QED
      BY <2>2, <2>5, <3>2
  <2>9. QED
    BY <2>6, <2>7, <2>8 DEF Order
<1>2. ASSUME NEW c \in Committers, CommitPush(c) PROVE Order'
  <2>1. /\ tasks' = Append(tasks, pushed + 1) /\ pushed + 1 \in 1..MaxTasks
        /\ started' = started /\ pushed' = pushed + 1
    BY <1>2, PoolAssumption DEF CommitPush
  <2>2. /\ Len(tasks') = Len(tasks) + 1
        /\ tasks'[Len(tasks) + 1] = pushed + 1
        /\ \A k \in 1..Len(tasks) : tasks'[k] = tasks[k]
    BY <2>1, AppendProperties
  <2>3. ASSUME NEW k \in 1..Len(tasks') PROVE tasks'[k] = Len(started') + k
    <3>1. CASE k = Len(tasks) + 1
      BY <1>0, <2>1, <2>2, <3>1
    <3>2. CASE k \in 1..Len(tasks)
      <4>1. tasks[k] = Len(started) + k
        BY <1>0, <3>2
      <4>2. tasks'[k] = tasks[k] /\ Len(started') = Len(started)
        BY <2>1, <2>2, <3>2
      <4>3. QED
        BY <4>1, <4>2
    <3>3. QED
      BY <1>0, <2>2, <3>1, <3>2
  <2>4. QED
    BY <1>0, <2>1, <2>2, <2>3 DEF Order
<1>3. ASSUME UNCHANGED <<tasks, started, pushed>> PROVE Order'
  BY <1>3 DEF Order
<1>4. ASSUME NEW w \in Workers, WorkerStep(w) \/ SpuriousWakeup(w)
      PROVE UNCHANGED <<tasks, started, pushed>> \/ (Take(w) /\ tasks # <<>>)
  BY <1>4 DEF WorkerStep, LoopTest, WaitTest, Sleep, Take, RunTask, TaskDone, SpuriousWakeup
<1>5. ASSUME NEW c \in Committers, CommitTest(c) \/ CommitNotify(c)
      PROVE UNCHANGED <<tasks, started, pushed>>
  BY <1>5 DEF CommitTest, CommitNotify
<1>6. ASSUME StopStore \/ NotifyAll \/ JoinAll \/ UNCHANGED vars
      PROVE UNCHANGED <<tasks, started, pushed>>
  BY <1>6 DEF StopStore, NotifyAll, JoinAll, vars
<1>7. QED
  BY <1>1, <1>2, <1>3, <1>4, <1>5, <1>6 DEF Next

\* A sleeper with a task beside it has a notification coming.
LEMMA NextStranded ==
    Typing /\ CheckedEmpty /\ NoTaskStranded /\ [Next]_vars => NoTaskStranded'
<1> SUFFICES ASSUME Typing, CheckedEmpty, NoTaskStranded, [Next]_vars,
                    tasks' # <<>>, \A w \in Workers : pc'[w] = "asleep"
             PROVE  \E c \in Committers : com'[c] = "pushed"
  BY DEF NoTaskStranded
<1> USE PoolAssumption DEF Typing, Goto
<1>1. ASSUME NEW w \in Workers, WorkerStep(w) \/ SpuriousWakeup(w) PROVE FALSE
  <2>1. Sleep(w)
    BY <1>1 DEF WorkerStep, LoopTest, WaitTest, Take, RunTask, TaskDone, SpuriousWakeup
  <2>2. QED
    BY <2>1 DEF Sleep, CheckedEmpty
<1>2. ASSUME NEW c \in Committers, CommitTest(c)
      PROVE \E d \in Committers : com'[d] = "pushed"
  <2>1. PICK d \in Committers : com[d] = "pushed"
    BY <1>2 DEF CommitTest, NoTaskStranded
  <2>2. com'[d] = "pushed"
    BY <1>2, <2>1 DEF CommitTest
  <2>3. QED
    BY <2>2
<1>3. ASSUME NEW c \in Committers, CommitPush(c) PROVE com'[c] = "pushed"
  BY <1>3 DEF CommitPush
<1>4. ASSUME NEW c \in Committers, CommitNotify(c) PROVE FALSE
  BY <1>4 DEF CommitNotify
<1>5. ASSUME StopStore \/ NotifyAll \/ JoinAll \/ UNCHANGED vars
      PROVE \E d \in Committers : com'[d] = "pushed"
  <2>1. CASE NotifyAll
    BY <2>1 DEF NotifyAll
  <2>2. CASE StopStore \/ JoinAll \/ UNCHANGED vars
    BY <2>2 DEF StopStore, JoinAll, vars, NoTaskStranded
  <2>3. QED
    BY <1>5, <2>1, <2>2
<1>6. QED
  BY <1>1, <1>2, <1>3, <1>4, <1>5 DEF Next

\* Every started task is done or with the worker that took it, every queued
\* one is pending, until the destructor has returned.
LEMMA NextFutures ==
    Typing /\ Order /\ Jobs /\ Futures /\ Gone /\ NoFutureHangs /\ [Next]_vars
        => Jobs' /\ Futures' /\ Gone' /\ NoFutureHangs'
<1> SUFFICES ASSUME Typing, Order, Jobs, Futures, Gone, NoFutureHangs, [Next]_vars
             PROVE  Jobs' /\ Futures' /\ Gone' /\ NoFutureHangs'
  OBVIOUS
<1> USE PoolAssumption DEF Typing, TaskIds
<1>0. /\ Len(started) + Len(tasks) = pushed
      /\ Len(started) \in Nat /\ Len(tasks) \in Nat
      /\ \A k \in 1..Len(tasks) : tasks[k] = Len(started) + k
  BY LenProperties DEF Order
<1>1. ASSUME NEW w \in Workers, Take(w), tasks # <<>>
      PROVE  Jobs' /\ Futures' /\ Gone' /\ NoFutureHangs'
  <2>1. dtor # "gone" /\ UNCHANGED <<dtor, future, pushed>>
    BY <1>1 DEF Take, Gone
  <2>2. Head(tasks) = Len(started) + 1 /\ Head(tasks) \in 1..MaxTasks
    <3>1. Len(tasks) \in Nat \ {0}
      BY <1>1, EmptySeq
    <3>2. Head(tasks) = tasks[1]
      BY <1>1
    <3>3. QED
      BY <1>0, <1>1, <3>1, <3>2, HeadTailProperties
  <2>3. Len(started') = Len(started) + 1
    <3>1. started' = Append(started, Head(tasks))
      BY <1>1 DEF Take
    <3>2. QED
      BY <2>2, <3>1, AppendProperties
  <2>4. /\ pc' = [pc EXCEPT ![w] = "run"] /\ job' = [job EXCEPT ![w] = Head(tasks)]
        /\ pc[w] = "take"
    BY <1>1 DEF Take, Goto
  <2>5. pc'[w] = "run" /\ job'[w] = Len(started) + 1
    BY <2>2, <2>4
  <2>6. \A v \in Workers : pc[v] \in {"run", "running"} => pc'[v] = pc[v] /\ job'[v] = job[v]
    BY <2>4
  <2>7. Jobs'
    BY <1>0, <2>3, <2>4, <2>5, <2>6, SMTT(30) DEF Jobs
  <2>8. ASSUME NEW t \in 1..Len(started')
        PROVE  \/ future'[t] = "ready"
               \/ \E v \in Workers : pc'[v] \in {"run", "running"} /\ job'[v] = t
    <3>1. CASE t = Len(started) + 1
      BY <2>5, <3>1
    <3>2. CASE t \in 1..Len(started)
      BY <2>1, <2>6, <3>2, SMTT(30) DEF Futures
    <3>3. QED
      BY <1>0, <2>3, <3>1, <3>2
  <2>9. ASSUME NEW t \in (Len(started') + 1)..pushed' PROVE future'[t] = "pending"
    <3>1. t \in (Len(started) + 1)..pushed
      BY <1>0, <2>1, <2>3
    <3>2. QED
      BY <2>1, <3>1 DEF Futures
  <2>10. QED
    BY <2>1, <2>7, <2>8, <2>9 DEF Futures, Gone, NoFutureHangs
<1>2. ASSUME NEW w \in Workers, TaskDone(w)
      PROVE  Jobs' /\ Futures' /\ Gone' /\ NoFutureHangs'
  <2>1. dtor # "gone" /\ UNCHANGED <<dtor, pushed, started>>
    BY <1>2 DEF TaskDone, Gone
  <2>2. job[w] \in 1..Len(started) /\ pc[w] = "running"
    BY <1>2 DEF TaskDone, Jobs
  <2>3. /\ pc' = [pc EXCEPT ![w] = "top"] /\ job' = [job EXCEPT ![w] = 0]
        /\ future' = [future EXCEPT ![job[w]] = "ready"]
    BY <1>2 DEF TaskDone, Goto
  <2>4. Jobs'
    BY <2>1, <2>3 DEF Jobs
  <2>5. 1..pushed \subseteq TaskIds
    OBVIOUS
  <2>6. ASSUME NEW t \in 1..Len(started)
        PROVE  \/ future'[t] = "ready"
               \/ \E v \in Workers : pc'[v] \in {"run", "running"} /\ job'[v] = t
    <3>1. t \in TaskIds
      BY <1>0
    <3>2. CASE t = job[w]
      BY <2>3, <3>1, <3>2
    <3>3. CASE t # job[w]
      <4>1. future'[t] = future[t]
        BY <2>3, <3>1, <3>3
      <4>2. ASSUME NEW v \in Workers, pc[v] \in {"run", "running"}, job[v] = t
            PROVE  pc'[v] = pc[v] /\ job'[v] = t
        BY <2>3, <3>3, <4>2
      <4>3. QED
        BY <2>1, <4>1, <4>2, ZenonT(30) DEF Futures
    <3>4. QED
      BY <3>2, <3>3
  <2>7. ASSUME NEW t \in (Len(started) + 1)..pushed PROVE future'[t] = "pending"
    <3>1. t \in TaskIds /\ t # job[w]
      BY <1>0, <2>2
    <3>2. future'[t] = future[t]
      BY <2>3, <3>1
    <3>3. QED
      BY <2>1, <3>2 DEF Futures
  <2>8. QED
    BY <2>1, <2>4, <2>6, <2>7 DEF Futures, Gone, NoFutureHangs
<1>3. ASSUME NEW c \in Committers, CommitPush(c)
      PROVE  Jobs' /\ Futures' /\ Gone' /\ NoFutureHangs'
  <2>1. /\ dtor # "gone" /\ UNCHANGED <<dtor, started, pc, job>>
        /\ pushed' = pushed + 1 /\ pushed + 1 \in TaskIds
        /\ future' = [future EXCEPT ![pushed + 1] = "pending"]
    BY <1>3 DEF CommitPush
  <2>2. ASSUME NEW t \in 1..pushed PROVE future'[t] = future[t]
    <3>1. t \in TaskIds /\ t # pushed + 1
      OBVIOUS
    <3>2. QED
      BY <2>1, <3>1
  <2>3. future'[pushed + 1] = "pending"
    BY <2>1
  <2>4. ASSUME NEW t \in 1..Len(started)
        PROVE  \/ future'[t] = "ready"
               \/ \E v \in Workers : pc'[v] \in {"run", "running"} /\ job'[v] = t
    BY <1>0, <2>1, <2>2 DEF Futures
  <2>5. ASSUME NEW t \in (Len(started) + 1)..(pushed + 1) PROVE future'[t] = "pending"
    <3>1. CASE t = pushed + 1
      BY <2>3, <3>1
    <3>2. CASE t # pushed + 1
      <4>1. t \in 1..pushed /\ t \in (Len(started) + 1)..pushed
        BY <1>0, <3>2
      <4>2. QED
        BY <2>1, <2>2, <4>1 DEF Futures
    <3>3. QED
      BY <3>1, <3>2
  <2>6. QED
    BY <2>1, <2>4, <2>5 DEF Jobs, Futures, Gone, NoFutureHangs
<1>4. CASE JoinAll
  <2>1. /\ dtor' = "gone" /\ dtor = "notified" /\ UNCHANGED <<pc, job, started, pushed>>
        /\ \A w \in Workers : pc[w] = "exit"
        /\ future' = [t \in TaskIds |-> IF \E k \in 1..Len(tasks) : tasks[k] = t
                                        THEN "broken" ELSE future[t]]
    BY <1>4 DEF JoinAll
  <2>2. ASSUME NEW t \in 1..pushed
        PROVE  future'[t] = IF t <= Len(started) THEN "ready" ELSE "broken"
    <3>1. CASE t <= Len(started)
      <4>1. ~ \E k \in 1..Len(tasks) : tasks[k] = t
        BY <1>0, <3>1, SMTT(30)
      <4>2. future[t] = "ready"
        <5>1. t \in 1..Len(started) /\ dtor # "gone"
          BY <1>0, <2>1, <3>1
        <5>2. \/ future[t] = "ready"
              \/ \E w \in Workers : pc[w] \in {"run", "running"} /\ job[w] = t
          BY <5>1 DEF Futures
        <5>3. QED
          BY <2>1, <5>2
      <4>3. QED
        BY <2>1, <3>1, <4>1, <4>2
    <3>2. CASE t > Len(started)
      <4>1. t - Len(started) \in 1..Len(tasks) /\ tasks[t - Len(started)] = t
        <5>1. t - Len(started) \in 1..Len(tasks)
          BY <1>0, <3>2
        <5>2. tasks[t - Len(started)] = Len(started) + (t - Len(started))
          BY <1>0, <5>1
        <5>3. Len(started) + (t - Len(started)) = t
          BY <1>0
        <5>4. QED
          BY <5>1, <5>2, <5>3
      <4>2. QED
        BY <1>0, <2>1, <3>2, <4>1
    <3>3. QED
      BY <1>0, <3>1, <3>2
  <2>3. Jobs' /\ Gone' /\ Futures'
    BY <2>1 DEF Jobs, Gone, Futures
  <2>4. NoFutureHangs'
    BY <2>1, <2>2 DEF NoFutureHangs
  <2>5. QED
    BY <2>3, <2>4
<1>5. ASSUME UNCHANGED <<future, started, pushed>>,
             dtor' = "gone" <=> dtor = "gone",
             \A w \in Workers :
                /\ pc[w] \in {"run", "running"} => pc'[w] \in {"run", "running"} /\ job'[w] = job[w]
                /\ pc'[w] \in {"run", "running"} => pc[w] \in {"run", "running"}
                /\ pc[w] = "exit" => pc'[w] = "exit"
      PROVE  Jobs' /\ Futures' /\ Gone' /\ NoFutureHangs'
  <2>1. Jobs'
    BY <1>5 DEF Jobs
  <2>2. Gone' /\ NoFutureHangs'
    BY <1>5 DEF Gone, NoFutureHangs
  <2>3. ASSUME dtor' # "gone", NEW t \in 1..Len(started')
        PROVE  \/ future'[t] = "ready"
               \/ \E v \in Workers : pc'[v] \in {"run", "running"} /\ job'[v] = t
    <3>1. t \in 1..Len(started) /\ dtor # "gone" /\ future'[t] = future[t]
      BY <1>5, <2>3
    <3>2. \/ future[t] = "ready"
          \/ \E v \in Workers : pc[v] \in {"run", "running"} /\ job[v] = t
      BY <3>1 DEF Futures
    <3>3. ASSUME NEW v \in Workers, pc[v] \in {"run", "running"}, job[v] = t
          PROVE  pc'[v] \in {"run", "running"} /\ job'[v] = t
      BY <1>5, <3>3
    <3>4. QED
      BY <3>1, <3>2, <3>3
  <2>4. QED
    BY <1>5, <2>1, <2>2, <2>3 DEF Futures
<1>6. ASSUME NEW w \in Workers, WorkerStep(w) \/ SpuriousWakeup(w), ~TaskDone(w),
             ~(Take(w) /\ tasks # <<>>)
      PROVE  Jobs' /\ Futures' /\ Gone' /\ NoFutureHangs'
  <2>1. UNCHANGED <<future, started, pushed, dtor, job>>
    BY <1>6 DEF WorkerStep, LoopTest, WaitTest, Sleep, Take, RunTask, SpuriousWakeup
  <2>2. PICK l \in {"exit", "acquire", "take", "checked", "asleep", "running"} :
            /\ pc' = [pc EXCEPT ![w] = l]
            /\ pc[w] # "exit" /\ pc[w] # "running"
            /\ l = "running" <=> pc[w] = "run"
    BY <1>6 DEF WorkerStep, LoopTest, WaitTest, Sleep, Take, RunTask, SpuriousWakeup, Goto
  <2>3. QED
    BY <1>5, <2>1, <2>2
<1>7. ASSUME NEW c \in Committers, CommitTest(c) \/ CommitNotify(c)
      PROVE  Jobs' /\ Futures' /\ Gone' /\ NoFutureHangs'
  <2>1. CASE CommitTest(c)
    BY <1>5, <2>1 DEF CommitTest
  <2>2. CASE CommitNotify(c)
    BY <1>5, <2>2 DEF CommitNotify, Goto
  <2>3. QED
    BY <1>7, <2>1, <2>2
<1>8. CASE StopStore \/ NotifyAll \/ UNCHANGED vars
  BY <1>5, <1>8 DEF StopStore, NotifyAll, vars
<1>9. QED
  BY <1>1, <1>2, <1>3, <1>4, <1>6, <1>7, <1>8 DEF Next, WorkerStep

-----------------------------------------------------------------------------
\* IInv is inductive: every step of a worker, a committer or the destructor
\* keeps it.
LEMMA NextIInv == IInv /\ [Next]_vars => IInv'
  BY NextTyping, NextLocked, NextIdle, NextOrder, NextStranded, NextFutures DEF IInv

THEOREM Invariance == Spec => []IInv
<1>1. QED
  BY InitIInv, NextIInv, PTL DEF Spec

\* The counter of idle workers stays between none and all, and the other
\* variables have their types (TypeOK): RunTask and TaskDone come in pairs.
LEMMA TypesFollow == IInv => TypeOK
<1> SUFFICES ASSUME IInv PROVE TypeOK
  OBVIOUS
<1>1. Busy \subseteq Workers /\ IsFiniteSet(Workers)
  BY PoolAssumption DEF Busy
<1>2. /\ Cardinality(Workers) \in Nat /\ Cardinality(Busy) \in Nat
      /\ Cardinality(Busy) <= Cardinality(Workers)
  BY <1>1, FS_Subset, FS_CardinalityType
<1>3. idlThrNum \in 0..Cardinality(Workers)
  BY <1>2 DEF IInv, Idle
<1> QED
  BY <1>3 DEF IInv, Typing, TypeOK

\* One worker at a time is between the lock and the unlock of the loop of a
\* worker (m_lock in the constructor's lambda).
THEOREM OneInside ==
    Spec => [](\A v, w \in Workers :
                  pc[v] \in {"checked", "take"} /\ pc[w] \in {"checked", "take"} => v = w)
<1>1. IInv => \A v, w \in Workers :
                 pc[v] \in {"checked", "take"} /\ pc[w] \in {"checked", "take"} => v = w
  BY DEF IInv, Locked
<1>2. QED
  BY Invariance, <1>1, PTL

\* The state keeps its types, and tasks are taken once each and in the order
\* of their commits.
THEOREM TakenInOrder == Spec => []FirstComeFirstServed
<1>1. IInv => FirstComeFirstServed
  <2> SUFFICES ASSUME IInv PROVE started \o tasks = [k \in 1..pushed |-> k]
    BY TypesFollow DEF FirstComeFirstServed
  <2>1. tasks \in Seq(TaskIds) /\ started \in Seq(TaskIds) /\ Order
    BY DEF IInv, Typing
  <2>2. Len(tasks) \in Nat /\ Len(started) \in Nat /\ Len(started) + Len(tasks) = pushed
    BY <2>1, LenProperties DEF Order
  <2>3. /\ started \o tasks \in Seq(TaskIds)
        /\ Len(started \o tasks) = pushed
        /\ \A i \in 1..pushed : (started \o tasks)[i]
                                 = IF i <= Len(started) THEN started[i] ELSE tasks[i - Len(started)]
    BY <2>1, <2>2, ConcatProperties
  <2>4. ASSUME NEW i \in 1..pushed PROVE (started \o tasks)[i] = i
    <3>1. CASE i <= Len(started)
      <4>1. i \in 1..Len(started)
        BY <2>2, <3>1
      <4>2. started[i] = i
        BY <2>1, <4>1 DEF Order
      <4>3. QED
        BY <2>3, <3>1, <4>2
    <3>2. CASE ~(i <= Len(started))
      <4>1. i - Len(started) \in 1..Len(tasks) /\ Len(started) + (i - Len(started)) = i
        BY <2>2, <3>2
      <4>2. tasks[i - Len(started)] = i
        BY <2>1, <4>1 DEF Order
      <4>3. QED
        BY <2>3, <3>2, <4>2
    <3>3. QED
      BY <3>1, <3>2
  <2>5. started \o tasks = [i \in 1..pushed |-> (started \o tasks)[i]]
    BY <2>3, LenProperties
  <2>6. QED
    BY <2>4, <2>5
<1>2. QED
  BY Invariance, <1>1, PTL

\* No committed task is left beside sleeping workers without a notify_one on
\* its way.
THEOREM NoneStranded == Spec => []NoTaskStranded
<1>1. QED
  BY Invariance, PTL DEF IInv

\* When the destructor has returned every future is ready or broken.
THEOREM FuturesEnd == Spec => []NoFutureHangs
<1>1. QED
  BY Invariance, PTL DEF IInv

-----------------------------------------------------------------------------
(***************************************************************************)
(* ConcurrentSort, for any number of threads: the barrier.                 *)
(*                                                                         *)
(* Without spurious wake-ups a thread is in the phase main has to close,   *)
(* or has not left the last one (InPhase), and the count tells how many    *)
(* have finished it: all of them, when main goes on (Barrier).             *)
(***************************************************************************)
\* Where a thread can be, relative to the phases that main has closed.
InPhase(t) ==
    /\ step[t] = "sort" => phase[t] = signals + 1
    /\ step[t] \in {"counted", "signalled", "wait"} => phase[t] \in {signals, signals + 1}
    /\ step[t] = "woken" => phase[t] = signals
    /\ step[t] = "done" => signals = MaxPhase

\* The threads that have counted themselves since main closed the last phase.
Ahead == {t \in Threads : Finished(t) = signals + 1}

Barrier ==
    spurious = 0 =>
        /\ \A t \in Threads : InPhase(t)
        /\ calCount = signals * Size + Cardinality(Ahead)
        /\ main = "print" => Ahead = Threads

SortIInv == SortTypeOK /\ Barrier

LEMMA PhasesPositive == MaxPhase \in Nat \ {0}
<1> DEFINE n == Size * Size
           S == {k \in 1..n : 2^k <= n}
<1>1. n \in Nat
  BY SortAssumption
<1>2. IsFiniteSet(1..n)
  BY <1>1, FS_Interval
<1> HIDE DEF n
<1>3. IsFiniteSet(S)
  BY <1>2, FS_Subset
<1>4. Cardinality(S) \in Nat
  BY <1>3, FS_CardinalityType
<1> QED  BY <1>4 DEF MaxPhase, FloorLog2, n

LEMMA ThreadsCounted == IsFiniteSet(Threads) /\ Cardinality(Threads) = Size
<1>1. Size \in Nat /\ Size > 0
  BY SortAssumption
<1>2. IsFiniteSet(0..(Size - 1))
      /\ Cardinality(0..(Size - 1)) = IF 0 > Size - 1 THEN 0 ELSE (Size - 1) - 0 + 1
  BY <1>1, FS_Interval
<1> QED  BY <1>1, <1>2 DEF Threads, Index

\* The count tells how many are ahead, and all of them are when it is reached.
LEMMA AllAhead ==
    ASSUME NEW S \in SUBSET Threads, NEW k \in Nat
    PROVE  /\ Cardinality(S) \in Nat
           /\ k * Size + Cardinality(S) >= (k + 1) * Size => S = Threads
<1>1. IsFiniteSet(S) /\ Cardinality(S) \in Nat /\ Cardinality(S) <= Size
  BY ThreadsCounted, FS_Subset, FS_CardinalityType
<1>2. Size \in Nat /\ (k + 1) * Size = k * Size + Size /\ k * Size \in Nat
  BY SortAssumption
<1>3. Cardinality(S) = Size => S = Threads
  BY ThreadsCounted, FS_Subset
<1> QED  BY <1>1, <1>2, <1>3

LEMMA SortInitial == SortInit => SortIInv
<1> SUFFICES ASSUME SortInit  PROVE SortIInv
  OBVIOUS
<1>1. SortTypeOK
  BY PhasesPositive DEF SortInit, SortTypeOK
<1>2. \A t \in Threads : InPhase(t) /\ Finished(t) = 0
  BY DEF SortInit, InPhase, Finished
<1>3. Ahead = {}
  BY <1>2 DEF Ahead, SortInit
<1>4. calCount = signals * Size + Cardinality(Ahead)
  BY <1>3, FS_EmptySet, SortAssumption DEF SortInit
<1> QED  BY <1>1, <1>2, <1>4 DEF SortIInv, Barrier, SortInit

\* A step of thread t alone that leaves what it has finished alone.
LEMMA SameAhead ==
    ASSUME SortTypeOK, NEW t \in Threads, UNCHANGED signals, Finished(t)' = Finished(t),
           \A u \in Threads \ {t} : step'[u] = step[u] /\ phase'[u] = phase[u]
    PROVE  Ahead' = Ahead
<1>1. \A u \in Threads : Finished(u)' = Finished(u)
  BY DEF Finished
<1> QED  BY <1>1 DEF Ahead

\* A thread counts itself: it is ahead now.
LEMMA SortedKeeps == ASSUME SortIInv, NEW t \in Threads, Sorted(t)  PROVE SortIInv'
<1>1. /\ step[t] = "sort" /\ calCount' = calCount + 1 /\ UNCHANGED <<phase, main, signals, spurious>>
      /\ step' = [step EXCEPT ![t] = "counted"]
  BY DEF Sorted, StepTo
<1>2. SortTypeOK /\ Barrier
  BY DEF SortIInv
<1>3. SortTypeOK'
  BY <1>1, <1>2 DEF SortTypeOK
<1>4. ASSUME spurious = 0
      PROVE  /\ \A u \in Threads : InPhase(u)'
             /\ calCount' = signals' * Size + Cardinality(Ahead')
             /\ main' = "print" => Ahead' = Threads
  <2>1. /\ \A u \in Threads : InPhase(u)
        /\ calCount = signals * Size + Cardinality(Ahead)
        /\ main = "print" => Ahead = Threads
    BY <1>2, <1>4 DEF Barrier
  <2>2. phase[t] = signals + 1 /\ signals \in Nat
    BY <1>1, <1>2, <2>1 DEF InPhase, SortTypeOK
  <2>3. step'[t] = "counted" /\ phase' = phase /\ \A u \in Threads \ {t} : step'[u] = step[u]
    BY <1>1, <1>2 DEF SortTypeOK
  <2>4. Finished(t) = signals /\ Finished(t)' = signals + 1
    <3>1. Finished(t) = phase[t] - 1
      BY <1>1 DEF Finished
    <3>2. Finished(t)' = phase[t]
      BY <2>3 DEF Finished
    <3> QED  BY <2>2, <3>1, <3>2
  <2>5. \A u \in Threads \ {t} : Finished(u)' = Finished(u)
    BY <2>3 DEF Finished
  <2>6. t \notin Ahead /\ Ahead' = Ahead \cup {t}
    BY <1>1, <2>2, <2>4, <2>5 DEF Ahead
  <2>7. IsFiniteSet(Ahead) /\ Cardinality(Ahead) \in Nat
    BY ThreadsCounted, FS_Subset, FS_CardinalityType DEF Ahead
  <2>8. Cardinality(Ahead)' = Cardinality(Ahead) + 1
    BY <2>6, <2>7, FS_AddElement
  <2>9. signals * Size \in Nat
    BY <2>2, SortAssumption
  <2>10. calCount' = signals' * Size + Cardinality(Ahead')
    BY <1>1, <2>1, <2>7, <2>8, <2>9
  <2>11. \A u \in Threads : InPhase(u)'
    BY <1>1, <2>1, <2>2, <2>3 DEF InPhase
  <2> QED  BY <1>1, <2>1, <2>6, <2>10, <2>11
<1> QED  BY <1>1, <1>3, <1>4 DEF SortIInv, Barrier

\* A thread signals, or goes to sleep.
LEMMA SignalKeeps == ASSUME SortIInv, NEW t \in Threads, Signal(t) \/ WaitSignal(t)  PROVE SortIInv'
<1> DEFINE l == IF step[t] = "counted" THEN "signalled" ELSE "wait"
<1>1. /\ step[t] \in {"counted", "signalled"} /\ UNCHANGED <<phase, calCount, signals, spurious>>
      /\ step' = [step EXCEPT ![t] = l]
      /\ main' \in {main} \cup (IF main = "asleep" THEN {"lock"} ELSE {})
  BY DEF Signal, WaitSignal, StepTo
<1>2. SortTypeOK /\ Barrier
  BY DEF SortIInv
<1>3. SortTypeOK'
  BY <1>1, <1>2 DEF SortTypeOK
<1>4. step'[t] = l /\ phase' = phase /\ \A u \in Threads \ {t} : step'[u] = step[u]
  BY <1>1, <1>2 DEF SortTypeOK
<1>5. Finished(t)' = Finished(t)
  BY <1>1, <1>4 DEF Finished
<1>6. Ahead' = Ahead
  BY <1>1, <1>2, <1>4, <1>5, SameAhead
<1>7. (\A u \in Threads : InPhase(u)) => (\A u \in Threads : InPhase(u)')
  BY <1>1, <1>4 DEF InPhase
<1> QED  BY <1>1, <1>2, <1>3, <1>6, <1>7 DEF SortIInv, Barrier

LEMMA NextPhaseKeeps == ASSUME SortIInv, NEW t \in Threads, NextPhase(t)  PROVE SortIInv'
<1> DEFINE l == IF phase[t] < MaxPhase THEN "sort" ELSE "done"
<1>1. /\ step[t] = "woken" /\ UNCHANGED <<calCount, main, signals, spurious>>
      /\ step' = [step EXCEPT ![t] = l] /\ phase' = [phase EXCEPT ![t] = @ + 1]
  BY DEF NextPhase, StepTo
<1>2. SortTypeOK /\ Barrier
  BY DEF SortIInv
<1>3. SortTypeOK'
  BY <1>1, <1>2 DEF SortTypeOK
<1>4. ASSUME spurious = 0
      PROVE  (\A u \in Threads : InPhase(u)') /\ Ahead' = Ahead
  <2>1. \A u \in Threads : InPhase(u)
    BY <1>2, <1>4 DEF Barrier
  <2>2. phase[t] = signals /\ signals \in Nat
    BY <1>1, <1>2, <2>1 DEF InPhase, SortTypeOK
  <2>3. /\ step'[t] = l /\ phase'[t] = phase[t] + 1
        /\ \A u \in Threads \ {t} : step'[u] = step[u] /\ phase'[u] = phase[u]
    BY <1>1, <1>2 DEF SortTypeOK
  <2>4. l = "done" => signals = MaxPhase
    <3>1. signals <= MaxPhase
      BY <1>2 DEF SortTypeOK
    <3> QED  BY <2>2, <3>1, PhasesPositive
  <2>5. Finished(t)' = Finished(t)
    BY <1>1, <2>2, <2>3, <2>4, PhasesPositive DEF Finished
  <2>6. Ahead' = Ahead
    BY <1>1, <1>2, <2>3, <2>5, SameAhead
  <2>7. \A u \in Threads : InPhase(u)'
    BY <1>1, <2>1, <2>2, <2>3, <2>4 DEF InPhase
  <2> QED  BY <2>6, <2>7
<1> QED  BY <1>1, <1>2, <1>3, <1>4 DEF SortIInv, Barrier

\* main moves without a phase being closed.
LEMMA MainKeeps ==
    ASSUME SortIInv, MainTest \/ MainSleep \/ MainSpurious \/ MainJoins
    PROVE  SortIInv'
<1>1. UNCHANGED <<step, phase, calCount, signals>> /\ spurious' \in {spurious, spurious + 1}
  BY DEF MainTest, MainSleep, MainSpurious, MainJoins
<1>2. SortTypeOK /\ Barrier
  BY DEF SortIInv
<1>3. SortTypeOK'
  BY <1>1, <1>2 DEF SortTypeOK, MainTest, MainSleep, MainSpurious, MainJoins
<1>4. Ahead' = Ahead /\ \A t \in Threads : InPhase(t)' <=> InPhase(t)
  BY <1>1 DEF Ahead, Finished, InPhase
<1>5. spurious' = 0 => spurious = 0
  BY <1>1, <1>2 DEF SortTypeOK
<1>6. ASSUME spurious = 0, main' = "print"  PROVE Ahead = Threads
  <2>1. AllCounted
    BY <1>6 DEF MainTest, MainSleep, MainSpurious, MainJoins
  <2>2. calCount = signals * Size + Cardinality(Ahead)
    BY <1>2, <1>6 DEF Barrier
  <2>3. Ahead \in SUBSET Threads /\ signals \in Nat
    BY <1>2 DEF Ahead, SortTypeOK
  <2> QED  BY <2>1, <2>2, <2>3, AllAhead DEF AllCounted
<1> QED  BY <1>1, <1>2, <1>3, <1>4, <1>5, <1>6 DEF SortIInv, Barrier

\* main closes a phase that all threads have finished, and nobody is ahead.
LEMMA NotifyKeeps == ASSUME SortIInv, MainNotifies  PROVE SortIInv'
<1>1. /\ main = "print" /\ signals' = signals + 1 /\ UNCHANGED <<phase, calCount, spurious>>
      /\ step' = [t \in Threads |-> IF step[t] = "wait" THEN "woken" ELSE step[t]]
      /\ main' = IF signals + 1 < MaxPhase THEN "lock" ELSE "join"
  BY DEF MainNotifies
<1>2. SortTypeOK /\ Barrier
  BY DEF SortIInv
<1>3. signals \in Nat /\ signals < MaxPhase /\ MaxPhase \in Nat
  BY <1>1, <1>2, PhasesPositive DEF SortTypeOK
<1>4. SortTypeOK'
  BY <1>1, <1>2, <1>3 DEF SortTypeOK
<1>5. ASSUME spurious = 0
      PROVE  (\A t \in Threads : InPhase(t)') /\ Ahead' = {} /\ calCount = (signals + 1) * Size
  <2>1. /\ \A t \in Threads : InPhase(t)
        /\ calCount = signals * Size + Cardinality(Ahead) /\ Ahead = Threads
    BY <1>1, <1>2, <1>5 DEF Barrier
  <2>2. calCount = (signals + 1) * Size
    BY <1>3, <2>1, ThreadsCounted, SortAssumption
  <2>3. ASSUME NEW t \in Threads
        PROVE  /\ step[t] \in {"counted", "signalled", "wait"} /\ phase[t] = signals + 1
               /\ phase'[t] = phase[t]
               /\ step'[t] = IF step[t] = "wait" THEN "woken" ELSE step[t]
    <3>1. Finished(t) = signals + 1 /\ InPhase(t)
      BY <2>1 DEF Ahead
    <3>2. step[t] # "sort" /\ step[t] # "done" /\ step[t] # "woken"
      BY <1>3, <3>1 DEF Finished, InPhase
    <3>3. phase[t] = signals + 1
      BY <3>1, <3>2 DEF Finished
    <3> QED  BY <1>1, <1>2, <3>2, <3>3 DEF SortTypeOK
  <2>4. \A t \in Threads : InPhase(t)'
    BY <1>1, <1>3, <2>3 DEF InPhase
  <2>5. \A t \in Threads : Finished(t)' = signals'
    BY <1>1, <2>3 DEF Finished
  <2>6. Ahead' = {}
    BY <1>1, <1>3, <2>5 DEF Ahead
  <2> QED  BY <2>2, <2>4, <2>6
<1>6. Cardinality({}) = 0 /\ (signals + 1) * Size + 0 = (signals + 1) * Size
  BY <1>3, FS_EmptySet, SortAssumption
<1> QED  BY <1>1, <1>4, <1>5, <1>6 DEF SortIInv, Barrier

LEMMA SortInvariance == SortSpec => []SortIInv
<1>1. SortIInv /\ [SortNext]_sortVars => SortIInv'
  <2> SUFFICES ASSUME SortIInv, [SortNext]_sortVars  PROVE SortIInv'
    OBVIOUS
  <2>1. CASE \E t \in Threads : ThreadStep(t)
    BY <2>1, SortedKeeps, SignalKeeps, NextPhaseKeeps DEF ThreadStep
  <2>2. CASE \E t \in Threads : ThreadSpurious(t)
    BY <2>2 DEF ThreadSpurious, StepTo, SortIInv, SortTypeOK, Barrier
  <2>3. CASE MainStep \/ MainSpurious
    BY <2>3, MainKeeps, NotifyKeeps DEF MainStep
  <2>4. CASE UNCHANGED sortVars
    <3>1. Ahead' = Ahead /\ \A t \in Threads : InPhase(t)' <=> InPhase(t)
      BY <2>4 DEF sortVars, Ahead, Finished, InPhase
    <3> QED  BY <2>4, <3>1 DEF sortVars, SortIInv, SortTypeOK, Barrier
  <2> QED  BY <2>1, <2>2, <2>3, <2>4 DEF SortNext
<1> QED  BY SortInitial, <1>1, PTL DEF SortSpec

\* Without spurious wake-ups no thread sorts in a phase before all threads have
\* finished the phase before it, and none sorts while main prints
\* (thread_func and main of concurrent_sort_test).
THEOREM BarrierHolds == SortSpec => []PhasesApart
<1>1. SortIInv => PhasesApart
  <2> SUFFICES ASSUME SortIInv, spurious = 0
               PROVE  /\ \A t, u \in Threads : step[t] = "sort" => Finished(u) >= phase[t] - 1
                      /\ main = "print" => \A t \in Threads : step[t] # "sort"
    BY DEF PhasesApart, SortIInv
  <2>1. signals \in Nat /\ \A t \in Threads : InPhase(t)
    BY DEF SortIInv, SortTypeOK, Barrier
  <2>2. \A t \in Threads : Finished(t) \in {signals, signals + 1}
    BY <2>1 DEF InPhase, Finished, SortIInv, SortTypeOK
  <2>3. \A t \in Threads : step[t] = "sort" => phase[t] - 1 = signals /\ Finished(t) = signals
    BY <2>1 DEF InPhase, Finished
  <2>4. main = "print" => \A t \in Threads : Finished(t) = signals + 1
    BY DEF SortIInv, Barrier, Ahead
  <2> QED  BY <2>1, <2>2, <2>3, <2>4
<1> QED  BY <1>1, SortInvariance, PTL
=============================================================================
