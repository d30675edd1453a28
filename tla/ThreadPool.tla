----------------------------- MODULE ThreadPool -----------------------------
(***************************************************************************)
(* The thread pool of src/src/threadPool.c: workers that take tasks from a *)
(* linked queue, and sleep on queue_ready while it is empty.               *)
(*                                                                         *)
(* Each stretch of code that holds queue_lock is one step: nothing in it   *)
(* waits except pthread_cond_wait, which gives the lock up.  destroy_tpool *)
(* sets shutdown without the lock; a worker reads it once per stretch, so  *)
(* the order of the two is all that can vary.                              *)
(*                                                                         *)
(* The caller's side of the contract: add_task_2_tpool is not called once  *)
(* destroy_tpool was.                                                      *)
(***************************************************************************)
EXTENDS Integers, Sequences, SequencesExt

CONSTANTS
    Workers,        \* the threads of thread_id
    MaxTasks        \* bound: calls of add_task_2_tpool

ASSUME PoolAssumption == Workers # {} /\ MaxTasks \in Nat

Tasks  == 1..MaxTasks
NoTask == 0

VARIABLES
    queue,          \* the list at tpool_head
    shutdown,
    wpc,            \* wpc[w]: "ready" to lock, "waiting", "running", "exited"
    work,           \* work[w]: the task w runs
    stage,          \* of destroy_tpool
    added, started  \* auxiliary: tasks in order of add_task_2_tpool, of dequeue

vars == <<queue, shutdown, wpc, work, stage, added, started>>

\* create_tpool.
Init ==
    /\ queue = <<>> /\ shutdown = FALSE
    /\ wpc = [w \in Workers |-> "ready"]
    /\ work = [w \in Workers |-> NoTask]
    /\ stage = "idle"
    /\ added = <<>> /\ started = <<>>

-----------------------------------------------------------------------------
Sleeping == {w \in Workers : wpc[w] = "waiting"}
Awoken(W) == [w \in Workers |-> IF w \in W THEN "ready" ELSE wpc[w]]

\* Mutant: member stays the first node.
EnqueuedMutant(tk) == IF queue = <<>> THEN <<tk>> ELSE <<queue[1], tk>>
Enqueued(tk) == Append(queue, tk)

\* pthread_cond_signal: one sleeper, if there is one.  Mutant: no signal.
SignalMutant == UNCHANGED wpc
Signal ==
    \/ Sleeping = {} /\ UNCHANGED wpc
    \/ \E w \in Sleeping : wpc' = Awoken({w})

add_task_2_tpool ==
    /\ stage = "idle" /\ Len(added) < MaxTasks
    /\ queue' = Enqueued(Len(added) + 1)
    /\ added' = Append(added, Len(added) + 1)
    /\ Signal
    /\ UNCHANGED <<shutdown, work, stage, started>>

-----------------------------------------------------------------------------
(***************************************************************************)
(* work_routine.                                                           *)
(***************************************************************************)
WaitForWork(w) ==
    /\ wpc[w] = "ready" /\ queue = <<>> /\ ~shutdown
    /\ wpc' = [wpc EXCEPT ![w] = "waiting"]
    /\ UNCHANGED <<queue, shutdown, work, stage, added, started>>

Exit(w) ==
    /\ wpc[w] = "ready" /\ shutdown
    /\ wpc' = [wpc EXCEPT ![w] = "exited"]
    /\ UNCHANGED <<queue, shutdown, work, stage, added, started>>

\* The task is dequeued under the lock, which is where it counts as started; its
\* routine is called after the unlock, so two routines may begin in another order.
Take(w) ==
    /\ wpc[w] = "ready" /\ queue # <<>> /\ ~shutdown
    /\ work' = [work EXCEPT ![w] = Head(queue)]
    /\ queue' = Tail(queue)
    /\ started' = Append(started, Head(queue))
    /\ wpc' = [wpc EXCEPT ![w] = "running"]
    /\ UNCHANGED <<shutdown, stage, added>>

Finish(w) ==            \* the routine returns; free(work)
    /\ wpc[w] = "running"
    /\ wpc' = [wpc EXCEPT ![w] = "ready"]
    /\ work' = [work EXCEPT ![w] = NoTask]
    /\ UNCHANGED <<queue, shutdown, stage, added, started>>

\* pthread_cond_wait may return without a signal; the loop tests again.
WakeUp(w) ==
    /\ wpc[w] = "waiting"
    /\ wpc' = Awoken({w})
    /\ UNCHANGED <<queue, shutdown, work, stage, added, started>>

-----------------------------------------------------------------------------
(***************************************************************************)
(* destroy_tpool.                                                          *)
(***************************************************************************)
DestroySets ==
    /\ stage = "idle"
    /\ shutdown' = TRUE /\ stage' = "set"
    /\ UNCHANGED <<queue, wpc, work, added, started>>

\* Mutant: pthread_cond_signal.
BroadcastMutant == Signal
Broadcast == wpc' = Awoken(Sleeping)

DestroyWakes ==
    /\ stage = "set"
    /\ Broadcast
    /\ stage' = "join"
    /\ UNCHANGED <<queue, shutdown, work, added, started>>

Joined == \A w \in Workers : wpc[w] = "exited"

DestroyFrees ==
    /\ stage = "join" /\ Joined
    /\ queue' = <<>> /\ stage' = "freed"
    /\ UNCHANGED <<shutdown, wpc, work, added, started>>

-----------------------------------------------------------------------------
Freed == stage = "freed" /\ UNCHANGED vars

WorkerStep(w) == WaitForWork(w) \/ Exit(w) \/ Take(w) \/ Finish(w)

Next ==
    \/ add_task_2_tpool
    \/ \E w \in Workers : WorkerStep(w) \/ WakeUp(w)
    \/ DestroySets \/ DestroyWakes \/ DestroyFrees
    \/ Freed

\* Threads that can run do, and every task's routine returns.
Spec ==
    /\ Init /\ [][Next]_vars
    /\ \A w \in Workers : WF_vars(WorkerStep(w))
    /\ WF_vars(DestroyWakes) /\ WF_vars(DestroyFrees)

-----------------------------------------------------------------------------
TypeOK ==
    /\ queue \in Seq(Tasks) /\ added \in Seq(Tasks) /\ started \in Seq(Tasks)
    /\ shutdown \in BOOLEAN
    /\ wpc \in [Workers -> {"ready", "waiting", "running", "exited"}]
    /\ work \in [Workers -> Tasks \cup {NoTask}]
    /\ stage \in {"idle", "set", "join", "freed"}

\* Tasks are taken in the order add_task_2_tpool queued them, each once, however
\* many workers compete for the head of the list; none is lost before
\* destroy_tpool frees what is left.
StartedInOrder == stage # "freed" => added = started \o queue

\* The workers never all sleep over a queue that is not empty: no signal is
\* lost between a worker's test of tpool_head and its sleep, and a signal
\* meant for a task that another worker took wakes nobody wrongly for good.
NobodySleepsOnWork == queue # <<>> => Sleeping # Workers

\* Once destroy_tpool has broadcast, nobody sleeps or goes back to sleep, so
\* pthread_join cannot wait for a sleeper: a worker that found shutdown 0 just
\* before line 78 sleeps before the broadcast, which needs the lock.
AwakeAfterBroadcast == stage \in {"join", "freed"} => Sleeping = {}

\* A task that was added is taken by a worker, unless the pool is shut down.
TasksStart ==
    \A tk \in Tasks :
        Contains(added, tk) ~> Contains(started, tk) \/ shutdown

\* destroy_tpool returns: every worker wakes up, sees shutdown and exits, also
\* one that tested shutdown just before it was set.
DestroyReturns == stage = "set" ~> stage = "freed"

=============================================================================
