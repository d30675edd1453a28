-------------------------- MODULE ThreadPoolProofs --------------------------
(***************************************************************************)
(* Safety of the thread pool for every set of workers and any number of    *)
(* tasks.                                                                  *)
(***************************************************************************)
EXTENDS ThreadPool, SequenceTheorems, TLAPS

\* destroy_tpool has set shutdown from its first step on.
ShutdownSet == stage # "idle" => shutdown

\* The invariant that is inductive: each of the three properties needs the
\* types, and AwakeAfterBroadcast needs to know that shutdown stays set.
IInv ==
    /\ TypeOK
    /\ ShutdownSet
    /\ StartedInOrder
    /\ NobodySleepsOnWork
    /\ AwakeAfterBroadcast

-----------------------------------------------------------------------------
\* Taking the head of the list moves it from the front of what is queued to
\* the end of what was started.
LEMMA HeadMoves ==
    ASSUME NEW S, NEW s \in Seq(S), NEW q \in Seq(S), q # <<>>
    PROVE  Append(s, Head(q)) \o Tail(q) = s \o q
<1> DEFINE l == Append(s, Head(q)) \o Tail(q)
           r == s \o q
<1>1. Head(q) \in S /\ Tail(q) \in Seq(S)
  BY HeadTailProperties
<1>2. Append(s, Head(q)) \in Seq(S)
  BY <1>1
<1>3. l \in Seq(S) /\ r \in Seq(S)
  BY <1>1, <1>2
<1>4. Len(l) = Len(r)
  BY <1>1, <1>2
<1>5. ASSUME NEW i \in 1..Len(l) PROVE l[i] = r[i]
  BY <1>1, <1>2
<1> QED
  BY <1>3, <1>4, <1>5, SeqEqual

\* Appending to what is queued appends to the whole history.
LEMMA TailGrows ==
    ASSUME NEW S, NEW s \in Seq(S), NEW q \in Seq(S), NEW e \in S,
           NEW h \in Seq(S), h = s \o q
    PROVE  Append(h, e) = s \o Append(q, e)
<1> DEFINE l == Append(h, e)
           r == s \o Append(q, e)
<1>1. Append(q, e) \in Seq(S)
  OBVIOUS
<1>2. l \in Seq(S) /\ r \in Seq(S)
  BY <1>1
<1>3. Len(l) = Len(r)
  BY <1>1
<1>4. ASSUME NEW i \in 1..Len(l) PROVE l[i] = r[i]
  BY <1>1
<1> QED
  BY <1>2, <1>3, <1>4, SeqEqual

LEMMA TypeStep == ASSUME TypeOK, [Next]_vars PROVE TypeOK'
<1> USE DEF TypeOK, Tasks, NoTask
<1>1. CASE add_task_2_tpool
  <2>1. wpc' \in [Workers -> {"ready", "waiting", "running", "exited"}]
    BY <1>1 DEF add_task_2_tpool, Signal, Awoken, Sleeping
  <2>2. Len(added) + 1 \in 1..MaxTasks
    BY <1>1, PoolAssumption DEF add_task_2_tpool
  <2> QED BY <1>1, <2>1, <2>2 DEF add_task_2_tpool, Enqueued
<1>2. ASSUME NEW w \in Workers, WorkerStep(w) \/ WakeUp(w) PROVE TypeOK'
  <2>1. CASE WaitForWork(w) BY <2>1 DEF WaitForWork
  <2>2. CASE Exit(w) BY <2>2 DEF Exit
  <2>3. CASE Take(w)
    <3>1. Head(queue) \in 1..MaxTasks /\ Tail(queue) \in Seq(1..MaxTasks)
      BY <2>3, HeadTailProperties DEF Take
    <3> QED BY <2>3, <3>1 DEF Take
  <2>4. CASE Finish(w) BY <2>4 DEF Finish
  <2>5. CASE WakeUp(w) BY <2>5 DEF WakeUp, Awoken
  <2> QED BY <1>2, <2>1, <2>2, <2>3, <2>4, <2>5 DEF WorkerStep
<1>3. CASE DestroySets BY <1>3 DEF DestroySets
<1>4. CASE DestroyWakes BY <1>4 DEF DestroyWakes, Broadcast, Awoken
<1>5. CASE DestroyFrees BY <1>5 DEF DestroyFrees
<1>6. CASE Freed \/ UNCHANGED vars BY <1>6 DEF Freed, vars
<1> QED BY <1>1, <1>2, <1>3, <1>4, <1>5, <1>6 DEF Next

LEMMA OrderStep ==
    ASSUME TypeOK, StartedInOrder, [Next]_vars
    PROVE  StartedInOrder'
<1> USE DEF StartedInOrder
<1>1. CASE add_task_2_tpool
  <2>1. Len(added) + 1 \in Tasks
    BY <1>1, PoolAssumption DEF add_task_2_tpool, TypeOK, Tasks
  <2>2. /\ started \in Seq(Tasks) /\ queue \in Seq(Tasks) /\ added \in Seq(Tasks)
        /\ added = started \o queue
    BY <1>1 DEF TypeOK, add_task_2_tpool
  <2>3. Append(added, Len(added) + 1) = started \o Append(queue, Len(added) + 1)
    BY ONLY <2>1, <2>2, TailGrows
  <2> QED BY <1>1, <2>3 DEF add_task_2_tpool, Enqueued
<1>2. ASSUME NEW w \in Workers, WorkerStep(w) \/ WakeUp(w) PROVE StartedInOrder'
  <2>1. CASE Take(w)
    <3>1. Append(started, Head(queue)) \o Tail(queue) = started \o queue
      BY <2>1, HeadMoves DEF Take, TypeOK
    <3> QED BY <2>1, <3>1 DEF Take
  <2>2. CASE ~Take(w)
    BY <1>2, <2>2 DEF WorkerStep, WaitForWork, Exit, Finish, WakeUp
  <2> QED BY <2>1, <2>2
<1>3. CASE DestroySets BY <1>3 DEF DestroySets
<1>4. CASE DestroyWakes BY <1>4 DEF DestroyWakes
<1>5. CASE DestroyFrees BY <1>5 DEF DestroyFrees
<1>6. CASE Freed \/ UNCHANGED vars BY <1>6 DEF Freed, vars
<1> QED BY <1>1, <1>2, <1>3, <1>4, <1>5, <1>6 DEF Next

\* A task is added with a signal, which leaves a worker awake; and a worker
\* goes to sleep only with the queue empty.
LEMMA WorkStep ==
    ASSUME TypeOK, NobodySleepsOnWork, [Next]_vars
    PROVE  NobodySleepsOnWork'
<1> USE DEF NobodySleepsOnWork, Sleeping
<1>1. CASE add_task_2_tpool
  <2>1. CASE Sleeping = {} /\ UNCHANGED wpc
    BY <2>1, PoolAssumption
  <2>2. ASSUME NEW v \in Sleeping, wpc' = Awoken({v}) PROVE NobodySleepsOnWork'
    BY <2>2 DEF Awoken
  <2> QED BY <1>1, <2>1, <2>2 DEF add_task_2_tpool, Signal
<1>2. ASSUME NEW w \in Workers, WorkerStep(w) \/ WakeUp(w) PROVE NobodySleepsOnWork'
  <2>1. CASE WaitForWork(w) BY <2>1 DEF WaitForWork
  <2>2. CASE Exit(w) \/ Take(w) \/ Finish(w) \/ WakeUp(w)
    <3>1. wpc'[w] # "waiting"
      BY <2>2 DEF Exit, Take, Finish, WakeUp, Awoken, TypeOK
    <3> QED BY <3>1
  <2> QED BY <1>2, <2>1, <2>2 DEF WorkerStep
<1>3. CASE DestroySets BY <1>3 DEF DestroySets
<1>4. CASE DestroyWakes
  BY <1>4, PoolAssumption DEF DestroyWakes, Broadcast, Awoken
<1>5. CASE DestroyFrees BY <1>5 DEF DestroyFrees
<1>6. CASE Freed \/ UNCHANGED vars BY <1>6 DEF Freed, vars
<1> QED BY <1>1, <1>2, <1>3, <1>4, <1>5, <1>6 DEF Next

\* shutdown stays set, and keeps every worker from going to sleep again.
LEMMA AwakeStep ==
    ASSUME TypeOK, ShutdownSet, AwakeAfterBroadcast, [Next]_vars
    PROVE  ShutdownSet' /\ AwakeAfterBroadcast'
<1> USE DEF ShutdownSet, AwakeAfterBroadcast, Sleeping
<1>1. CASE add_task_2_tpool BY <1>1 DEF add_task_2_tpool
<1>2. ASSUME NEW w \in Workers, WorkerStep(w) \/ WakeUp(w)
      PROVE  ShutdownSet' /\ AwakeAfterBroadcast'
  BY <1>2 DEF WorkerStep, WaitForWork, Exit, Take, Finish, WakeUp, Awoken, TypeOK
<1>3. CASE DestroySets BY <1>3 DEF DestroySets
<1>4. CASE DestroyWakes BY <1>4 DEF DestroyWakes, Broadcast, Awoken
<1>5. CASE DestroyFrees BY <1>5 DEF DestroyFrees
<1>6. CASE Freed \/ UNCHANGED vars BY <1>6 DEF Freed, vars
<1> QED BY <1>1, <1>2, <1>3, <1>4, <1>5, <1>6 DEF Next

LEMMA Inductive == Spec => []IInv
<1>1. ASSUME Init PROVE IInv
  <2>1. TypeOK
    <3>1. <<>> \in Seq(Tasks)
      OBVIOUS
    <3>2. /\ queue \in Seq(Tasks) /\ added \in Seq(Tasks) /\ started \in Seq(Tasks)
          /\ shutdown \in BOOLEAN /\ stage \in {"idle", "set", "join", "freed"}
      BY <1>1, <3>1 DEF Init
    <3>3. /\ wpc \in [Workers -> {"ready", "waiting", "running", "exited"}]
          /\ work \in [Workers -> Tasks \cup {NoTask}]
      BY <1>1 DEF Init
    <3> QED BY <3>2, <3>3 DEF TypeOK
  <2>2. ShutdownSet /\ AwakeAfterBroadcast
    BY <1>1 DEF Init, ShutdownSet, AwakeAfterBroadcast
  <2>3. StartedInOrder
    BY <1>1 DEF Init, StartedInOrder
  <2>4. NobodySleepsOnWork
    BY <1>1 DEF Init, NobodySleepsOnWork
  <2> QED BY <2>1, <2>2, <2>3, <2>4 DEF IInv
<1>2. IInv /\ [Next]_vars => IInv'
  BY TypeStep, OrderStep, WorkStep, AwakeStep DEF IInv
<1> QED
  BY <1>1, <1>2, PTL DEF Spec

-----------------------------------------------------------------------------
\* For any number of workers and tasks: tasks are taken in the order in which
\* add_task_2_tpool queued them, each once.
THEOREM TasksInOrder == Spec => []StartedInOrder
<1>1. IInv => StartedInOrder
  BY DEF IInv
<1> QED
  BY <1>1, Inductive, PTL

\* For any number of workers and tasks: pthread_cond_signal in
\* add_task_2_tpool is never lost in the window before a worker's wait.
THEOREM NoLostWakeup == Spec => []NobodySleepsOnWork
<1>1. IInv => NobodySleepsOnWork
  BY DEF IInv
<1> QED
  BY <1>1, Inductive, PTL

\* For any number of workers: no worker of destroy_tpool's joins is asleep.
THEOREM JoinsFindNoSleeper == Spec => []AwakeAfterBroadcast
<1>1. IInv => AwakeAfterBroadcast
  BY DEF IInv
<1> QED
  BY <1>1, Inductive, PTL

=============================================================================
