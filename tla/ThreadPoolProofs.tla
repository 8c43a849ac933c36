-------------------------- MODULE ThreadPoolProofs --------------------------
(***************************************************************************)
(* PoolInv is inductive, for every number of workers and tasks.  One lemma *)
(* per conjunct shows that no step of any thread disturbs it.              *)
(***************************************************************************)
EXTENDS ThreadPool, TLAPS

\* Every step keeps the types.
LEMMA TypeStep ==
  ASSUME PoolInv, [Next]_vars
  PROVE  TypeOK'
<1> USE PoolAssumption DEF PoolInv, Worker, Task, Locked, To, TypeOK, TakeFindsTask, RunningSound, MarkedUpTo, WorkersListed, Waiting
<1>1. ASSUME NEW w \in Worker, Lock(w) PROVE TypeOK'
  BY <1>1 DEF Lock
<1>2. ASSUME NEW w \in Worker, Test(w) PROVE TypeOK'
  BY <1>2 DEF Test
<1>3. ASSUME NEW w \in Worker, Sleep(w) PROVE TypeOK'
  BY <1>3 DEF Sleep
<1>4. ASSUME NEW w \in Worker, Spurious(w) PROVE TypeOK'
  BY <1>4 DEF Spurious
<1>5. ASSUME NEW w \in Worker, Take(w) PROVE TypeOK'
  BY <1>5 DEF Take
<1>6. ASSUME NEW w \in Worker, Run(w) PROVE TypeOK'
  BY <1>6 DEF Run
<1>7. ASSUME NEW w \in Worker, Exit(w) PROVE TypeOK'
  BY <1>7 DEF Exit
<1>8. CASE Create
  BY <1>8 DEF Create
<1>9. CASE Insert
  BY <1>9 DEF Insert
<1>10. CASE CreateEnds
  BY <1>10 DEF CreateEnds
<1>11. CASE PushTask
  BY <1>11 DEF PushTask
<1>12. CASE DestroyBegin
  BY <1>12 DEF DestroyBegin
<1>13. CASE Mark
  BY <1>13 DEF Mark
<1>14. CASE MarkNext
  BY <1>14 DEF MarkNext
<1>15. CASE MarkEnds
  BY <1>15 DEF MarkEnds
<1>16. CASE Broadcast
  BY <1>16 DEF Broadcast
<1>17. CASE Clear
  BY <1>17 DEF Clear
<1>18. CASE UNCHANGED vars
  BY <1>18 DEF vars
<1> QED
  BY ONLY [Next]_vars, <1>1, <1>2, <1>3, <1>4, <1>5, <1>6, <1>7, <1>8, <1>9, <1>10, <1>11, <1>12, <1>13, <1>14, <1>15, <1>16, <1>17, <1>18 DEF Next, MainStep, WorkerStep

\* Every step keeps the mutex with the worker that is between lock and unlock.
LEMMA MutexStep ==
  ASSUME PoolInv, [Next]_vars
  PROVE  MutexSound'
<1> USE PoolAssumption DEF PoolInv, Worker, Task, Locked, To, TypeOK, MutexSound, Waiting, WorkersListed, MarkedUpTo
<1>1. ASSUME NEW w \in Worker, Lock(w) PROVE MutexSound'
  BY <1>1 DEF Lock
<1>2. ASSUME NEW w \in Worker, Test(w) PROVE MutexSound'
  BY <1>2 DEF Test
<1>3. ASSUME NEW w \in Worker, Sleep(w) PROVE MutexSound'
  BY <1>3 DEF Sleep
<1>4. ASSUME NEW w \in Worker, Spurious(w) PROVE MutexSound'
  BY <1>4 DEF Spurious
<1>5. ASSUME NEW w \in Worker, Take(w) PROVE MutexSound'
  BY <1>5 DEF Take
<1>6. ASSUME NEW w \in Worker, Run(w) PROVE MutexSound'
  BY <1>6 DEF Run
<1>7. ASSUME NEW w \in Worker, Exit(w) PROVE MutexSound'
  BY <1>7 DEF Exit
<1>8. CASE Create
  BY <1>8 DEF Create
<1>9. CASE Insert
  BY <1>9 DEF Insert
<1>10. CASE CreateEnds
  BY <1>10 DEF CreateEnds
<1>11. CASE PushTask
  BY <1>11 DEF PushTask
<1>12. CASE DestroyBegin
  BY <1>12 DEF DestroyBegin
<1>13. CASE Mark
  BY <1>13 DEF Mark
<1>14. CASE MarkNext
  BY <1>14 DEF MarkNext
<1>15. CASE MarkEnds
  BY <1>15 DEF MarkEnds
<1>16. CASE Broadcast
  BY <1>16 DEF Broadcast
<1>17. CASE Clear
  BY <1>17 DEF Clear
<1>18. CASE UNCHANGED vars
  BY <1>18 DEF vars
<1> QED
  BY ONLY [Next]_vars, <1>1, <1>2, <1>3, <1>4, <1>5, <1>6, <1>7, <1>8, <1>9, <1>10, <1>11, <1>12, <1>13, <1>14, <1>15, <1>16, <1>17, <1>18 DEF Next, MainStep, WorkerStep

\* Every step keeps the worker list in line with the threads.
LEMMA ListedStep ==
  ASSUME PoolInv, [Next]_vars
  PROVE  WorkersListed'
<1> USE PoolAssumption DEF PoolInv, Worker, Task, Locked, To, TypeOK, WorkersListed, MarkedUpTo, Waiting
<1>1. ASSUME NEW w \in Worker, Lock(w) PROVE WorkersListed'
  BY <1>1 DEF Lock
<1>2. ASSUME NEW w \in Worker, Test(w) PROVE WorkersListed'
  BY <1>2 DEF Test
<1>3. ASSUME NEW w \in Worker, Sleep(w) PROVE WorkersListed'
  BY <1>3 DEF Sleep
<1>4. ASSUME NEW w \in Worker, Spurious(w) PROVE WorkersListed'
  BY <1>4 DEF Spurious
<1>5. ASSUME NEW w \in Worker, Take(w) PROVE WorkersListed'
  BY <1>5 DEF Take
<1>6. ASSUME NEW w \in Worker, Run(w) PROVE WorkersListed'
  BY <1>6 DEF Run
<1>7. ASSUME NEW w \in Worker, Exit(w) PROVE WorkersListed'
  BY <1>7 DEF Exit
<1>8. CASE Create
  BY <1>8 DEF Create
<1>9. CASE Insert
  BY <1>9 DEF Insert
<1>10. CASE CreateEnds
  BY <1>10 DEF CreateEnds
<1>11. CASE PushTask
  BY <1>11 DEF PushTask
<1>12. CASE DestroyBegin
  BY <1>12 DEF DestroyBegin
<1>13. CASE Mark
  BY <1>13 DEF Mark
<1>14. CASE MarkNext
  BY <1>14 DEF MarkNext
<1>15. CASE MarkEnds
  BY <1>15 DEF MarkEnds
<1>16. CASE Broadcast
  BY <1>16 DEF Broadcast
<1>17. CASE Clear
  BY <1>17 DEF Clear
<1>18. CASE UNCHANGED vars
  BY <1>18 DEF vars
<1> QED
  BY ONLY [Next]_vars, <1>1, <1>2, <1>3, <1>4, <1>5, <1>6, <1>7, <1>8, <1>9, <1>10, <1>11, <1>12, <1>13, <1>14, <1>15, <1>16, <1>17, <1>18 DEF Next, MainStep, WorkerStep

\* Every step keeps the workers marked that Destroy has passed.
LEMMA MarkedStep ==
  ASSUME PoolInv, [Next]_vars
  PROVE  MarkedUpTo'
<1> USE PoolAssumption DEF PoolInv, Worker, Task, Locked, To, TypeOK, WorkersListed, MarkedUpTo, Waiting
<1>1. ASSUME NEW w \in Worker, Lock(w) PROVE MarkedUpTo'
  BY <1>1 DEF Lock
<1>2. ASSUME NEW w \in Worker, Test(w) PROVE MarkedUpTo'
  BY <1>2 DEF Test
<1>3. ASSUME NEW w \in Worker, Sleep(w) PROVE MarkedUpTo'
  BY <1>3 DEF Sleep
<1>4. ASSUME NEW w \in Worker, Spurious(w) PROVE MarkedUpTo'
  BY <1>4 DEF Spurious
<1>5. ASSUME NEW w \in Worker, Take(w) PROVE MarkedUpTo'
  BY <1>5 DEF Take
<1>6. ASSUME NEW w \in Worker, Run(w) PROVE MarkedUpTo'
  BY <1>6 DEF Run
<1>7. ASSUME NEW w \in Worker, Exit(w) PROVE MarkedUpTo'
  BY <1>7 DEF Exit
<1>8. CASE Create
  BY <1>8 DEF Create
<1>9. CASE Insert
  BY <1>9 DEF Insert
<1>10. CASE CreateEnds
  BY <1>10 DEF CreateEnds
<1>11. CASE PushTask
  BY <1>11 DEF PushTask
<1>12. CASE DestroyBegin
  BY <1>12 DEF DestroyBegin
<1>13. CASE Mark
  BY <1>13 DEF Mark
<1>14. CASE MarkNext
  BY <1>14 DEF MarkNext
<1>15. CASE MarkEnds
  BY <1>15 DEF MarkEnds
<1>16. CASE Broadcast
  BY <1>16 DEF Broadcast
<1>17. CASE Clear
  BY <1>17 DEF Clear
<1>18. CASE UNCHANGED vars
  BY <1>18 DEF vars
<1> QED
  BY ONLY [Next]_vars, <1>1, <1>2, <1>3, <1>4, <1>5, <1>6, <1>7, <1>8, <1>9, <1>10, <1>11, <1>12, <1>13, <1>14, <1>15, <1>16, <1>17, <1>18 DEF Next, MainStep, WorkerStep

\* Every step keeps running in line with the program counters.
LEMMA RunningStep ==
  ASSUME PoolInv, [Next]_vars
  PROVE  RunningSound'
<1> USE PoolAssumption DEF PoolInv, Worker, Task, Locked, To, TypeOK, RunningSound, TakeFindsTask, Waiting, WorkersListed, MarkedUpTo
<1>1. ASSUME NEW w \in Worker, Lock(w) PROVE RunningSound'
  BY <1>1 DEF Lock
<1>2. ASSUME NEW w \in Worker, Test(w) PROVE RunningSound'
  BY <1>2 DEF Test
<1>3. ASSUME NEW w \in Worker, Sleep(w) PROVE RunningSound'
  BY <1>3 DEF Sleep
<1>4. ASSUME NEW w \in Worker, Spurious(w) PROVE RunningSound'
  BY <1>4 DEF Spurious
<1>5. ASSUME NEW w \in Worker, Take(w) PROVE RunningSound'
  BY <1>5 DEF Take
<1>6. ASSUME NEW w \in Worker, Run(w) PROVE RunningSound'
  BY <1>6 DEF Run
<1>7. ASSUME NEW w \in Worker, Exit(w) PROVE RunningSound'
  BY <1>7 DEF Exit
<1>8. CASE Create
  BY <1>8 DEF Create
<1>9. CASE Insert
  BY <1>9 DEF Insert
<1>10. CASE CreateEnds
  BY <1>10 DEF CreateEnds
<1>11. CASE PushTask
  BY <1>11 DEF PushTask
<1>12. CASE DestroyBegin
  BY <1>12 DEF DestroyBegin
<1>13. CASE Mark
  BY <1>13 DEF Mark
<1>14. CASE MarkNext
  BY <1>14 DEF MarkNext
<1>15. CASE MarkEnds
  BY <1>15 DEF MarkEnds
<1>16. CASE Broadcast
  BY <1>16 DEF Broadcast
<1>17. CASE Clear
  BY <1>17 DEF Clear
<1>18. CASE UNCHANGED vars
  BY <1>18 DEF vars
<1> QED
  BY ONLY [Next]_vars, <1>1, <1>2, <1>3, <1>4, <1>5, <1>6, <1>7, <1>8, <1>9, <1>10, <1>11, <1>12, <1>13, <1>14, <1>15, <1>16, <1>17, <1>18 DEF Next, MainStep, WorkerStep

\* No step takes the last task away under a worker that is about to take it.
LEMMA TakeStep ==
  ASSUME PoolInv, [Next]_vars
  PROVE  TakeFindsTask'
<1> USE PoolAssumption DEF PoolInv, Worker, Task, Locked, To, TypeOK, MutexSound, TakeFindsTask, NobodySleeps, Waiting
<1>1. ASSUME NEW w \in Worker, Lock(w) PROVE TakeFindsTask'
  BY <1>1 DEF Lock
<1>2. ASSUME NEW w \in Worker, Test(w) PROVE TakeFindsTask'
  BY <1>2 DEF Test
<1>3. ASSUME NEW w \in Worker, Sleep(w) PROVE TakeFindsTask'
  BY <1>3 DEF Sleep
<1>4. ASSUME NEW w \in Worker, Spurious(w) PROVE TakeFindsTask'
  BY <1>4 DEF Spurious
<1>5. ASSUME NEW w \in Worker, Take(w) PROVE TakeFindsTask'
  BY <1>5 DEF Take
<1>6. ASSUME NEW w \in Worker, Run(w) PROVE TakeFindsTask'
  BY <1>6 DEF Run
<1>7. ASSUME NEW w \in Worker, Exit(w) PROVE TakeFindsTask'
  BY <1>7 DEF Exit
<1>8. CASE Create
  BY <1>8 DEF Create
<1>9. CASE Insert
  BY <1>9 DEF Insert
<1>10. CASE CreateEnds
  BY <1>10 DEF CreateEnds
<1>11. CASE PushTask
  BY <1>11 DEF PushTask
<1>12. CASE DestroyBegin
  BY <1>12 DEF DestroyBegin
<1>13. CASE Mark
  BY <1>13 DEF Mark
<1>14. CASE MarkNext
  BY <1>14 DEF MarkNext
<1>15. CASE MarkEnds
  BY <1>15 DEF MarkEnds
<1>16. CASE Broadcast
  BY <1>16 DEF Broadcast
<1>17. CASE Clear
  BY <1>17 DEF Clear
<1>18. CASE UNCHANGED vars
  BY <1>18 DEF vars
<1> QED
  BY ONLY [Next]_vars, <1>1, <1>2, <1>3, <1>4, <1>5, <1>6, <1>7, <1>8, <1>9, <1>10, <1>11, <1>12, <1>13, <1>14, <1>15, <1>16, <1>17, <1>18 DEF Next, MainStep, WorkerStep

\* No step puts a worker to sleep after the broadcast.
LEMMA SleepStep ==
  ASSUME PoolInv, [Next]_vars
  PROVE  NobodySleeps'
<1> USE PoolAssumption DEF PoolInv, Worker, Task, Locked, To, TypeOK, MutexSound, WorkersListed, MarkedUpTo, NobodySleeps, Waiting
<1>1. ASSUME NEW w \in Worker, Lock(w) PROVE NobodySleeps'
  BY <1>1 DEF Lock
<1>2. ASSUME NEW w \in Worker, Test(w) PROVE NobodySleeps'
  BY <1>2 DEF Test
<1>3. ASSUME NEW w \in Worker, Sleep(w) PROVE NobodySleeps'
  BY <1>3 DEF Sleep
<1>4. ASSUME NEW w \in Worker, Spurious(w) PROVE NobodySleeps'
  BY <1>4 DEF Spurious
<1>5. ASSUME NEW w \in Worker, Take(w) PROVE NobodySleeps'
  BY <1>5 DEF Take
<1>6. ASSUME NEW w \in Worker, Run(w) PROVE NobodySleeps'
  BY <1>6 DEF Run
<1>7. ASSUME NEW w \in Worker, Exit(w) PROVE NobodySleeps'
  BY <1>7 DEF Exit
<1>8. CASE Create
  BY <1>8 DEF Create
<1>9. CASE Insert
  BY <1>9 DEF Insert
<1>10. CASE CreateEnds
  BY <1>10 DEF CreateEnds
<1>11. CASE PushTask
  BY <1>11 DEF PushTask
<1>12. CASE DestroyBegin
  BY <1>12 DEF DestroyBegin
<1>13. CASE Mark
  BY <1>13 DEF Mark
<1>14. CASE MarkNext
  BY <1>14 DEF MarkNext
<1>15. CASE MarkEnds
  BY <1>15 DEF MarkEnds
<1>16. CASE Broadcast
  BY <1>16 DEF Broadcast
<1>17. CASE Clear
  BY <1>17 DEF Clear
<1>18. CASE UNCHANGED vars
  BY <1>18 DEF vars
<1> QED
  BY ONLY [Next]_vars, <1>1, <1>2, <1>3, <1>4, <1>5, <1>6, <1>7, <1>8, <1>9, <1>10, <1>11, <1>12, <1>13, <1>14, <1>15, <1>16, <1>17, <1>18 DEF Next, MainStep, WorkerStep

\* No step starts a task a second time or out of order.
LEMMA OnceStep ==
  ASSUME PoolInv, [Next]_vars
  PROVE  RunsOnce'
<1> USE PoolAssumption DEF PoolInv, Worker, Task, Locked, To, TypeOK, MutexSound, RunningSound, TakeFindsTask, NobodySleeps, RunsOnce, Waiting
<1>1. ASSUME NEW w \in Worker, Lock(w) PROVE RunsOnce'
 BY <1>1 DEF Lock, Started
<1>2. ASSUME NEW w \in Worker, Test(w) PROVE RunsOnce'
 BY <1>2 DEF Test, Started
<1>3. ASSUME NEW w \in Worker, Sleep(w) PROVE RunsOnce'
 BY <1>3 DEF Sleep, Started
<1>4. ASSUME NEW w \in Worker, Spurious(w) PROVE RunsOnce'
 BY <1>4 DEF Spurious, Started
<1>5. ASSUME NEW w \in Worker, Take(w) PROVE RunsOnce'
 <2> DEFINE t == Head(tasks)
  <2>1. /\ tasks # <<>> /\ Len(tasks) >= 1 /\ main # "done"
        /\ t = pushed - Len(tasks) + 1 /\ running[w] = 0
    BY <1>5 DEF Take
  <2>2. /\ running' = [running EXCEPT ![w] = t] /\ tasks' = Tail(tasks)
        /\ UNCHANGED <<main, pushed, finished>>
    BY <1>5 DEF Take
  <2>3. Len(tasks') = Len(tasks) - 1 /\ \A i \in 1 .. Len(tasks') : tasks'[i] = tasks[i + 1]
    BY <2>1, <2>2
  <2>4. Started = 1 .. (pushed - Len(tasks)) /\ t \notin Started
    BY <2>1
  <2>5. t # 0 /\ t \in Task
    BY <2>1
  <2>6. Started' = Started \cup {t}
    BY <2>1, <2>2, <2>5 DEF Started
  <2>7. (main # "done" => Started = 1 .. (pushed - Len(tasks)))'
    BY <2>1, <2>2, <2>3, <2>4, <2>6
  <2>8. (\A i \in 1 .. Len(tasks) : tasks[i] = pushed - Len(tasks) + i)'
    <3>1. \A i \in 1 .. (Len(tasks) - 1) : tasks[i + 1] = pushed - Len(tasks) + (i + 1)
      BY <2>1
    <3> QED
      BY <2>1, <2>2, <2>3, <3>1
  <2>9. (\A u, v \in Worker : running[u] = running[v] /\ running[u] # 0 => u = v)'
    BY <2>2, <2>4 DEF Started
  <2>10. (\A v \in Worker : running[v] \notin finished)'
    BY <2>2, <2>4 DEF Started
  <2> QED
    BY <2>7, <2>8, <2>9, <2>10
<1>6. ASSUME NEW w \in Worker, Run(w) PROVE RunsOnce'
 <2>1. /\ running[w] # 0 /\ running[w] \in Task
        /\ running' = [running EXCEPT ![w] = 0] /\ finished' = finished \cup {running[w]}
        /\ UNCHANGED <<main, pushed, tasks>>
    BY <1>6 DEF Run
  <2>2. Started' = Started
    BY <2>1 DEF Started
  <2>3. (\A v \in Worker : running[v] \notin finished)'
    <3> SUFFICES ASSUME NEW v \in Worker PROVE running'[v] \notin finished'
      OBVIOUS
    <3>1. CASE v = w
      BY <2>1, <3>1
    <3>2. CASE v # w
      BY <2>1, <3>2
    <3> QED BY <3>1, <3>2
  <2> QED
    BY <2>1, <2>2, <2>3
<1>7. ASSUME NEW w \in Worker, Exit(w) PROVE RunsOnce'
 BY <1>7 DEF Exit, Started
<1>8. CASE Create
 BY <1>8 DEF Create, Started
<1>9. CASE Insert
 BY <1>9 DEF Insert, Started
<1>10. CASE CreateEnds
 BY <1>10 DEF CreateEnds, Started
<1>11. CASE PushTask
 <2>1. /\ tasks' = Append(tasks, pushed + 1) /\ pushed' = pushed + 1
        /\ UNCHANGED <<main, running, finished>>
    BY <1>11 DEF PushTask
  <2>2. Started' = Started
    BY <2>1 DEF Started
  <2>3. /\ Len(tasks') = Len(tasks) + 1
        /\ \A i \in 1 .. Len(tasks') : tasks'[i] = (IF i <= Len(tasks) THEN tasks[i] ELSE pushed + 1)
    BY <2>1
  <2> QED
    BY <2>1, <2>2, <2>3
<1>12. CASE DestroyBegin
 BY <1>12 DEF DestroyBegin, Started
<1>13. CASE Mark
 BY <1>13 DEF Mark, Started
<1>14. CASE MarkNext
 BY <1>14 DEF MarkNext, Started
<1>15. CASE MarkEnds
 BY <1>15 DEF MarkEnds, Started
<1>16. CASE Broadcast
 BY <1>16 DEF Broadcast, Started
<1>17. CASE Clear
 BY <1>17 DEF Clear, Started
<1>18. CASE UNCHANGED vars
  BY <1>18 DEF vars, Started
<1> QED
  BY ONLY [Next]_vars, <1>1, <1>2, <1>3, <1>4, <1>5, <1>6, <1>7, <1>8, <1>9, <1>10, <1>11, <1>12, <1>13, <1>14, <1>15, <1>16, <1>17, <1>18 DEF Next, MainStep, WorkerStep

-----------------------------------------------------------------------------
\* PoolInv holds in every state: it holds before the first worker exists, and
\* no step of the main thread or of a worker falsifies it.
THEOREM PoolInvHolds == Spec => []PoolInv
<1>1. Init => PoolInv
  BY PoolAssumption DEF Init, PoolInv, TypeOK, MutexSound, WorkersListed, MarkedUpTo,
     RunningSound, TakeFindsTask, NobodySleeps, RunsOnce, Started, Worker, Task, Locked
<1>2. PoolInv /\ [Next]_vars => PoolInv'
  <2> SUFFICES ASSUME PoolInv, [Next]_vars PROVE PoolInv'
    OBVIOUS
  <2>1. TypeOK' /\ MutexSound' /\ WorkersListed' /\ MarkedUpTo'
    BY TypeStep, MutexStep, ListedStep, MarkedStep
  <2>2. RunningSound' /\ TakeFindsTask' /\ NobodySleeps' /\ RunsOnce'
    BY RunningStep, TakeStep, SleepStep, OnceStep
  <2> QED
    BY <2>1, <2>2 DEF PoolInv
<1> QED
  BY <1>1, <1>2, PTL DEF Spec

\* nThreadPoolDestroy loses no wakeup: after its broadcast no worker sleeps.
THEOREM NoLostWakeup == Spec => []NobodySleeps
<1>1. PoolInv => NobodySleeps
  BY DEF PoolInv
<1> QED
  BY <1>1, PoolInvHolds, PTL

\* A worker never takes a task from an empty list, although Destroy clears the
\* list without the mutex.
THEOREM TakeNeverEmpty == Spec => []TakeFindsTask
<1>1. PoolInv => TakeFindsTask
  BY DEF PoolInv
<1> QED
  BY <1>1, PoolInvHolds, PTL

\* Tasks are started in the order of the pushes and each at most once.
THEOREM EachTaskOnce == Spec => []RunsOnce
<1>1. PoolInv => RunsOnce
  BY DEF PoolInv
<1> QED
  BY <1>1, PoolInvHolds, PTL
=============================================================================
