----------------------------- MODULE ThreadPool -----------------------------
(***************************************************************************)
(* CXXTest/threadpool_test/ThreadPool.h: a fixed set of workers, a queue   *)
(* of tasks under m_lock, and a condition variable.                        *)
(*                                                                         *)
(* A worker tests stoped, locks, waits for a task or the stop, takes a     *)
(* task, unlocks and runs it.  commit tests stoped, queues a task under    *)
(* the lock and notifies one worker.  The destructor sets stoped and       *)
(* notifies all, both without the lock, and joins the workers; the tasks   *)
(* still queued die with the pool, and their futures with them.            *)
(***************************************************************************)
EXTENDS Integers, Sequences, FiniteSets

CONSTANTS Workers,     \* the threads of the pool
          Committers,  \* threads that call commit
          MaxTasks     \* bound: tasks committed

ASSUME PoolAssumption == /\ MaxTasks \in Nat
                         /\ IsFiniteSet(Workers) /\ Workers # {}
                         /\ "free" \notin Workers

VARIABLES stoped,
          tasks,       \* the queue
          lock,        \* who holds m_lock: a worker, or "free"
          pc,          \* workers: "top", "acquire", "checked", "asleep", "take", "run",
                       \* "running", "exit"
          job,         \* the task a worker runs, or 0
          idlThrNum,
          com,         \* committers: "idle", "checked", "pushed"
          dtor,        \* the destructor: "alive", "stored", "notified", "gone"
          pushed,      \* history: how many tasks were queued
          started,     \* history: tasks in the order they were taken
          future       \* history: "none", "pending", "ready" or "broken", per task

vars == <<stoped, tasks, lock, pc, job, idlThrNum, com, dtor, pushed, started, future>>

TaskIds == 1..MaxTasks

Init == /\ stoped = FALSE /\ tasks = <<>> /\ lock = "free"
        /\ pc = [w \in Workers |-> "top"]
        /\ job = [w \in Workers |-> 0]
        /\ idlThrNum = Cardinality(Workers)
        /\ com = [c \in Committers |-> "idle"]
        /\ dtor = "alive" /\ pushed = 0 /\ started = <<>>
        /\ future = [t \in TaskIds |-> "none"]

Goto(w, l) == pc' = [pc EXCEPT ![w] = l]

-----------------------------------------------------------------------------
(* A worker. *)

LoopTest(w) ==
    /\ pc[w] = "top"
    /\ Goto(w, IF stoped THEN "exit" ELSE "acquire")
    /\ UNCHANGED <<stoped, tasks, lock, job, idlThrNum, com, dtor, pushed, started, future>>

\* Mutant: the predicate of the wait leaves the queue out.
Ready_StopOnly == stoped

Ready == stoped \/ tasks # <<>>

\* cv_task.wait takes the lock, for the first time or again after a wake-up,
\* and evaluates its predicate.
WaitTest(w) ==
    /\ pc[w] = "acquire" /\ lock = "free"
    /\ lock' = w
    /\ Goto(w, IF Ready THEN "take" ELSE "checked")
    /\ UNCHANGED <<stoped, tasks, job, idlThrNum, com, dtor, pushed, started, future>>

\* Mutant: the lock is kept by the sleeper.
Sleep_Locked(w) ==
    /\ pc[w] = "checked"
    /\ Goto(w, "asleep")
    /\ UNCHANGED <<stoped, tasks, lock, job, idlThrNum, com, dtor, pushed, started, future>>

\* The wait blocks: unlocks and sleeps in one step, some time after its test.
Sleep(w) ==
    /\ pc[w] = "checked"
    /\ lock' = "free"
    /\ Goto(w, "asleep")
    /\ UNCHANGED <<stoped, tasks, job, idlThrNum, com, dtor, pushed, started, future>>

SpuriousWakeup(w) ==
    /\ pc[w] = "asleep"
    /\ Goto(w, "acquire")
    /\ UNCHANGED <<stoped, tasks, lock, job, idlThrNum, com, dtor, pushed, started, future>>

\* Mutant: the newest task first.
Take_Last(w) ==
    /\ pc[w] = "take"
    /\ lock' = "free"
    /\ \/ /\ stoped /\ tasks = <<>>
          /\ Goto(w, "exit")
          /\ UNCHANGED <<tasks, job, started>>
       \/ /\ tasks # <<>>
          /\ job' = [job EXCEPT ![w] = tasks[Len(tasks)]]
          /\ started' = Append(started, tasks[Len(tasks)])
          /\ tasks' = SubSeq(tasks, 1, Len(tasks) - 1)
          /\ Goto(w, "run")
    /\ UNCHANGED <<stoped, idlThrNum, com, dtor, pushed, future>>

\* Still locked: leave if stopped and idle, or take the task at the front.
Take(w) ==
    /\ pc[w] = "take"
    /\ lock' = "free"
    /\ \/ /\ stoped /\ tasks = <<>>
          /\ Goto(w, "exit")
          /\ UNCHANGED <<tasks, job, started>>
       \/ /\ tasks # <<>>
          /\ job' = [job EXCEPT ![w] = Head(tasks)]
          /\ started' = Append(started, Head(tasks))
          /\ tasks' = Tail(tasks)
          /\ Goto(w, "run")
    /\ UNCHANGED <<stoped, idlThrNum, com, dtor, pushed, future>>

RunTask(w) ==
    /\ pc[w] = "run"
    /\ idlThrNum' = idlThrNum - 1
    /\ Goto(w, "running")
    /\ UNCHANGED <<stoped, tasks, lock, job, com, dtor, pushed, started, future>>

\* The task returns, its future is ready, and the worker is idle again.
TaskDone(w) ==
    /\ pc[w] = "running"
    /\ idlThrNum' = idlThrNum + 1
    /\ future' = [future EXCEPT ![job[w]] = "ready"]
    /\ job' = [job EXCEPT ![w] = 0]
    /\ Goto(w, "top")
    /\ UNCHANGED <<stoped, tasks, lock, com, dtor, pushed, started>>

-----------------------------------------------------------------------------
(* commit.  What a call still in progress does to a destroyed pool is not  *)
(* modelled: it is up to the callers not to be there.                      *)

CommitTest(c) ==
    /\ com[c] = "idle" /\ ~stoped /\ pushed < MaxTasks
    /\ com' = [com EXCEPT ![c] = "checked"]
    /\ UNCHANGED <<stoped, tasks, lock, pc, job, idlThrNum, dtor, pushed, started, future>>

CommitPush(c) ==
    /\ com[c] = "checked" /\ lock = "free" /\ dtor # "gone" /\ pushed < MaxTasks
    /\ pushed' = pushed + 1
    /\ tasks' = Append(tasks, pushed + 1)
    /\ future' = [future EXCEPT ![pushed + 1] = "pending"]
    /\ com' = [com EXCEPT ![c] = "pushed"]
    /\ UNCHANGED <<stoped, lock, pc, job, idlThrNum, dtor, started>>

\* notify_one, after the unlock: any one sleeper, or nobody.
CommitNotify(c) ==
    /\ com[c] = "pushed" /\ dtor # "gone"
    /\ com' = [com EXCEPT ![c] = "idle"]
    /\ \/ \E w \in Workers : pc[w] = "asleep" /\ Goto(w, "acquire")
       \/ /\ \A w \in Workers : pc[w] # "asleep"
          /\ UNCHANGED pc
    /\ UNCHANGED <<stoped, tasks, lock, job, idlThrNum, dtor, pushed, started, future>>

-----------------------------------------------------------------------------
(* The destructor. *)

StopStore ==
    /\ dtor = "alive" /\ dtor' = "stored"
    /\ stoped' = TRUE
    /\ UNCHANGED <<tasks, lock, pc, job, idlThrNum, com, pushed, started, future>>

NotifyAll ==
    /\ dtor = "stored" /\ dtor' = "notified"
    /\ pc' = [w \in Workers |-> IF pc[w] = "asleep" THEN "acquire" ELSE pc[w]]
    /\ UNCHANGED <<stoped, tasks, lock, job, idlThrNum, com, pushed, started, future>>

\* Mutant: waits only for the workers that are running a task.
JoinAll_Running ==
    /\ dtor = "notified" /\ \A w \in Workers : pc[w] \notin {"run", "running"}
    /\ dtor' = "gone"
    /\ future' = [t \in TaskIds |-> IF \E k \in 1..Len(tasks) : tasks[k] = t
                                    THEN "broken" ELSE future[t]]
    /\ UNCHANGED <<stoped, tasks, lock, pc, job, idlThrNum, com, pushed, started>>

\* All workers joined; the queue is destroyed and with it the promises in it.
JoinAll ==
    /\ dtor = "notified" /\ \A w \in Workers : pc[w] = "exit"
    /\ dtor' = "gone"
    /\ future' = [t \in TaskIds |-> IF \E k \in 1..Len(tasks) : tasks[k] = t
                                    THEN "broken" ELSE future[t]]
    /\ UNCHANGED <<stoped, tasks, lock, pc, job, idlThrNum, com, pushed, started>>

WorkerStep(w) == LoopTest(w) \/ WaitTest(w) \/ Sleep(w) \/ Take(w) \/ RunTask(w) \/ TaskDone(w)

Next == \/ \E w \in Workers : WorkerStep(w) \/ SpuriousWakeup(w)
        \/ \E c \in Committers : CommitTest(c) \/ CommitPush(c) \/ CommitNotify(c)
        \/ StopStore \/ NotifyAll \/ JoinAll

Spec == Init /\ [][Next]_vars

\* Threads that can run do run, and tasks return.  Nobody has to stop the
\* pool, and there may be no spurious wake-ups.
FairSpec == /\ Spec
            /\ \A w \in Workers : WF_vars(WorkerStep(w))
            /\ \A c \in Committers : WF_vars(CommitNotify(c))
            /\ WF_vars(NotifyAll) /\ WF_vars(JoinAll)

(* The values the state may take; part of FirstComeFirstServed. *)
TypeOK == /\ stoped \in BOOLEAN
          /\ tasks \in Seq(TaskIds) /\ started \in Seq(TaskIds)
          /\ lock \in Workers \cup {"free"}
          /\ pc \in [Workers -> {"top", "acquire", "checked", "asleep", "take", "run",
                                 "running", "exit"}]
          /\ job \in [Workers -> 0..MaxTasks]
          /\ idlThrNum \in 0..Cardinality(Workers)
          /\ com \in [Committers -> {"idle", "checked", "pushed"}]
          /\ dtor \in {"alive", "stored", "notified", "gone"}
          /\ pushed \in 0..MaxTasks
          /\ future \in [TaskIds -> {"none", "pending", "ready", "broken"}]

(***************************************************************************)
(* The state is well formed (the counter of idle workers stays between     *)
(* none and all), and tasks are taken once each, in the order of their     *)
(* commits: the taken and the queued together are the committed.           *)
(***************************************************************************)
FirstComeFirstServed == TypeOK /\ started \o tasks = [k \in 1..pushed |-> k]

(***************************************************************************)
(* No committed task waits for a worker that nobody will wake: if all      *)
(* workers sleep beside a queued task, its notify_one is still to come.    *)
(***************************************************************************)
NoTaskStranded ==
    tasks # <<>> /\ (\A w \in Workers : pc[w] = "asleep") => \E c \in Committers : com[c] = "pushed"

(***************************************************************************)
(* When the destructor has returned no future is left pending: get()       *)
(* returns, or throws for those that were never taken, the latest ones.    *)
(***************************************************************************)
NoFutureHangs ==
    dtor = "gone" => \A t \in 1..pushed : future[t] = IF t <= Len(started) THEN "ready" ELSE "broken"

(***************************************************************************)
(* The destructor returns if no worker was between the test of its wait    *)
(* and its sleep when stoped was set (the window line 70 leaves open).     *)
(***************************************************************************)
Between == \E w \in Workers : pc[w] = "checked"
DtorReturns == (dtor = "stored" /\ ~Between) ~> dtor = "gone"
=============================================================================
