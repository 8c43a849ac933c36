---------------------------- MODULE ThreadPool ----------------------------
(***************************************************************************)
(* The thread pool of junior/04_threadpool/Threadpool.c and the main       *)
(* thread that uses it: it creates the workers, pushes tasks and destroys  *)
(* the pool while workers sleep, run or pick tasks.                        *)
(*                                                                         *)
(* A step ends where another thread can notice: at a lock, an unlock, a    *)
(* wait, or an access to a field that is not protected by the mutex, which *)
(* is terminate.  The main thread's own critical sections are one step.    *)
(* The process goes on after nThreadPoolDestroy, as in a program that uses *)
(* the pool for a while; main() of the file returns at that point.         *)
(***************************************************************************)
EXTENDS Integers, Sequences

CONSTANTS
  NumWorkers,   \* THREADPOOL_INIT_COUNT
  NumTasks      \* argv[1]

ASSUME PoolAssumption == NumWorkers \in Nat \ {0} /\ NumTasks \in Nat

VARIABLES
  pc,          \* where each worker thread is
  terminate,   \* worker->terminate
  running,     \* the task a worker has taken; 0 is none
  tasks,       \* pool->tasks, in list order
  mutex,       \* the worker that holds pool->mutex; 0 is nobody
  main,        \* where the main thread is
  listed,      \* the length of pool->workers: workers 1 .. listed are in it
  cur,         \* the worker nThreadPoolDestroy has reached
  pushed,      \* tasks pushed so far
  finished     \* tasks whose function has returned

vars == <<pc, terminate, running, tasks, mutex, main, listed, cur, pushed, finished>>

Worker == 1 .. NumWorkers
Task == 1 .. NumTasks

\* The program points of a worker at which it holds the mutex.
Locked == {"test", "sleep", "take"}

\* Every variable has its type.
TypeOK ==
  /\ pc \in [Worker -> {"none", "lock", "wait", "run", "exit", "gone"} \cup Locked]
  /\ terminate \in [Worker -> BOOLEAN]
  /\ running \in [Worker -> Task \cup {0}]
  /\ tasks \in Seq(Task)
  /\ mutex \in Worker \cup {0}
  /\ main \in {"create", "insert", "push", "mark", "next", "broadcast", "clear", "done"}
  /\ listed \in 0 .. NumWorkers
  /\ cur \in 1 .. (NumWorkers + 1)
  /\ pushed \in 0 .. NumTasks
  /\ finished \subseteq Task

Init ==
  /\ pc = [w \in Worker |-> "none"]
  /\ terminate = [w \in Worker |-> FALSE]
  /\ running = [w \in Worker |-> 0]
  /\ tasks = <<>>
  /\ mutex = 0
  /\ main = "create"
  /\ listed = 0
  /\ cur = 1
  /\ pushed = 0
  /\ finished = {}
-----------------------------------------------------------------------------
(* The workers: nThreadPoolCallback.                                       *)

To(w, label) == pc' = [pc EXCEPT ![w] = label]

\* pthread_mutex_lock, at the top of the loop or on the way out of
\* pthread_cond_wait.
Lock(w) ==
  /\ pc[w] = "lock" /\ mutex = 0
  /\ mutex' = w
  /\ To(w, "test")
  /\ UNCHANGED <<terminate, running, tasks, main, listed, cur, pushed, finished>>

\* Mutant of Test: the worker leaves the loop without unlocking.
TestKeepsLock(w) ==
  /\ pc[w] = "test"
  /\ To(w, IF terminate[w] THEN "exit" ELSE IF tasks = <<>> THEN "sleep" ELSE "take")
  /\ UNCHANGED <<terminate, running, tasks, mutex, main, listed, cur, pushed, finished>>

\* The tests of tasks and terminate, up to the point where the worker is
\* committed to sleep, to take a task or to leave.
Test(w) ==
  /\ pc[w] = "test"
  /\ \/ /\ terminate[w]
        /\ To(w, "exit") /\ mutex' = 0
     \/ /\ ~terminate[w]
        /\ To(w, IF tasks = <<>> THEN "sleep" ELSE "take") /\ UNCHANGED mutex
  /\ UNCHANGED <<terminate, running, tasks, main, listed, cur, pushed, finished>>

\* pthread_cond_wait: the mutex is released as the worker starts to wait.
Sleep(w) ==
  /\ pc[w] = "sleep"
  /\ To(w, "wait")
  /\ mutex' = 0
  /\ UNCHANGED <<terminate, running, tasks, main, listed, cur, pushed, finished>>

\* pthread_cond_wait may return without a signal.
Spurious(w) ==
  /\ pc[w] = "wait"
  /\ To(w, "lock")
  /\ UNCHANGED <<terminate, running, tasks, mutex, main, listed, cur, pushed, finished>>

\* Mutant of Take: the task is not taken out of the list.
TakePeeks(w) ==
  /\ pc[w] = "take"
  /\ running' = [running EXCEPT ![w] = Head(tasks)]
  /\ To(w, "run")
  /\ mutex' = 0
  /\ UNCHANGED <<terminate, tasks, main, listed, cur, pushed, finished>>

\* LIST_REMOVE of the first task, and unlock.
Take(w) ==
  /\ pc[w] = "take"
  /\ running' = [running EXCEPT ![w] = Head(tasks)]
  /\ tasks' = Tail(tasks)
  /\ To(w, "run")
  /\ mutex' = 0
  /\ UNCHANGED <<terminate, main, listed, cur, pushed, finished>>

\* The task's function runs and frees the task.
Run(w) ==
  /\ pc[w] = "run"
  /\ finished' = finished \cup {running[w]}
  /\ running' = [running EXCEPT ![w] = 0]
  /\ To(w, "lock")
  /\ UNCHANGED <<terminate, tasks, mutex, main, listed, cur, pushed>>

\* free(worker)
Exit(w) ==
  /\ pc[w] = "exit"
  /\ To(w, "gone")
  /\ UNCHANGED <<terminate, running, tasks, mutex, main, listed, cur, pushed, finished>>
-----------------------------------------------------------------------------
(* The main thread.                                                        *)

\* nThreadPoolCreate: the thread starts before its worker is in the list.
Create ==
  /\ main = "create" /\ listed < NumWorkers
  /\ pc' = [pc EXCEPT ![listed + 1] = "lock"]
  /\ main' = "insert"
  /\ UNCHANGED <<terminate, running, tasks, mutex, listed, cur, pushed, finished>>

Insert ==
  /\ main = "insert"
  /\ listed' = listed + 1
  /\ main' = "create"
  /\ UNCHANGED <<pc, terminate, running, tasks, mutex, cur, pushed, finished>>

\* All workers are there, or malloc or pthread_create failed: the result is
\* not looked at.
CreateEnds ==
  /\ main = "create"
  /\ main' = "push"
  /\ UNCHANGED <<pc, terminate, running, tasks, mutex, listed, cur, pushed, finished>>

Waiting == {w \in Worker : pc[w] = "wait"}

\* Mutant of PushTask: the signal is forgotten.
PushSilently ==
  /\ main = "push" /\ mutex = 0 /\ pushed < NumTasks
  /\ tasks' = Append(tasks, pushed + 1)
  /\ pushed' = pushed + 1
  /\ UNCHANGED <<pc, terminate, running, mutex, main, listed, cur, finished>>

\* nThreadPoolPushTask: the task goes to the end of the list and one waiting
\* worker, if there is one, is woken.
PushTask ==
  /\ main = "push" /\ mutex = 0 /\ pushed < NumTasks
  /\ tasks' = Append(tasks, pushed + 1)
  /\ pushed' = pushed + 1
  /\ \/ Waiting = {} /\ UNCHANGED pc
     \/ \E w \in Waiting : To(w, "lock")
  /\ UNCHANGED <<terminate, running, mutex, main, listed, cur, finished>>

\* getchar returns and nThreadPoolDestroy is called.
DestroyBegin ==
  /\ main = "push" /\ pushed = NumTasks
  /\ main' = "mark"
  /\ UNCHANGED <<pc, terminate, running, tasks, mutex, listed, cur, pushed, finished>>

\* Its loop, which does not hold the mutex.
Mark ==
  /\ main = "mark" /\ cur <= listed
  /\ terminate' = [terminate EXCEPT ![cur] = TRUE]
  /\ main' = "next"
  /\ UNCHANGED <<pc, running, tasks, mutex, listed, cur, pushed, finished>>

\* worker = worker->next: the worker may have been freed since it was marked;
\* nothing has reused its memory, so the old pointer is still read.
MarkNext ==
  /\ main = "next"
  /\ cur' = cur + 1
  /\ main' = "mark"
  /\ UNCHANGED <<pc, terminate, running, tasks, mutex, listed, pushed, finished>>

\* Mutant of MarkEnds: the loop stops at the last worker.
MarkEndsEarly ==
  /\ main = "mark" /\ cur >= listed
  /\ main' = "broadcast"
  /\ UNCHANGED <<pc, terminate, running, tasks, mutex, listed, cur, pushed, finished>>

\* Every worker of the list is marked.
MarkEnds ==
  /\ main = "mark" /\ cur = listed + 1
  /\ main' = "broadcast"
  /\ UNCHANGED <<pc, terminate, running, tasks, mutex, listed, cur, pushed, finished>>

\* Mutant of Broadcast: without the mutex.
BroadcastUnlocked ==
  /\ main = "broadcast"
  /\ pc' = [w \in Worker |-> IF pc[w] = "wait" THEN "lock" ELSE pc[w]]
  /\ main' = "clear"
  /\ UNCHANGED <<terminate, running, tasks, mutex, listed, cur, pushed, finished>>

\* Mutant of Broadcast: pthread_cond_signal instead.
BroadcastToOne ==
  /\ main = "broadcast" /\ mutex = 0
  /\ \/ Waiting = {} /\ UNCHANGED pc
     \/ \E w \in Waiting : To(w, "lock")
  /\ main' = "clear"
  /\ UNCHANGED <<terminate, running, tasks, mutex, listed, cur, pushed, finished>>

\* Lock, pthread_cond_broadcast, unlock.
Broadcast ==
  /\ main = "broadcast" /\ mutex = 0
  /\ pc' = [w \in Worker |-> IF pc[w] = "wait" THEN "lock" ELSE pc[w]]
  /\ main' = "clear"
  /\ UNCHANGED <<terminate, running, tasks, mutex, listed, cur, pushed, finished>>

\* The list heads are cleared, again without the mutex.
Clear ==
  /\ main = "clear"
  /\ tasks' = <<>>
  /\ listed' = 0
  /\ main' = "done"
  /\ UNCHANGED <<pc, terminate, running, mutex, cur, pushed, finished>>

MainStep ==
  \/ Create \/ Insert \/ CreateEnds
  \/ PushTask
  \/ DestroyBegin \/ Mark \/ MarkNext \/ MarkEnds \/ Broadcast \/ Clear

WorkerStep(w) == Test(w) \/ Sleep(w) \/ Take(w) \/ Run(w) \/ Exit(w)

Next ==
  \/ MainStep
  \/ \E w \in Worker : WorkerStep(w) \/ Lock(w) \/ Spurious(w)

Spec == Init /\ [][Next]_vars

\* Threads keep running and a thread that asks for a mutex again and again
\* gets it; the main thread may stop before it destroys the pool.
Fairness ==
  /\ SF_vars(Broadcast)
  /\ WF_vars(Mark \/ MarkNext \/ MarkEnds)
  /\ \A w \in Worker : WF_vars(WorkerStep(w)) /\ SF_vars(Lock(w))

FairSpec == Spec /\ Fairness
-----------------------------------------------------------------------------
(* Properties.                                                             *)

\* A worker that took the decision to take a task finds one: Destroy clears
\* the list without the mutex, but never under such a worker.
TakeFindsTask == \A w \in Worker : pc[w] = "take" => tasks # <<>>

\* No lost wakeup: once Destroy has broadcast, no worker sleeps or is about to,
\* and none is about to take a task.
NobodySleeps ==
  main \in {"clear", "done"} => \A w \in Worker : pc[w] \notin {"wait", "sleep", "take"}

\* The tasks that a worker has taken.
Started == finished \cup ({running[w] : w \in Worker} \ {0})

\* Each task is run at most once, by one worker, and in the order of the
\* pushes: the tasks started are the oldest, the others wait in the list,
\* until Destroy drops them.
RunsOnce ==
  /\ \A v, w \in Worker : running[v] = running[w] /\ running[v] # 0 => v = w
  /\ \A w \in Worker : running[w] \notin finished
  /\ main # "done" => Started = 1 .. (pushed - Len(tasks))
  /\ \A i \in 1 .. Len(tasks) : tasks[i] = pushed - Len(tasks) + i

\* The mutex is held by the worker between its lock and its unlock.
MutexSound == \A w \in Worker : pc[w] \in Locked <=> mutex = w

\* A worker whose thread exists is in the list, or about to be put there.
WorkersListed ==
  main # "done" =>
    \A w \in Worker :
      pc[w] # "none" <=> (w <= listed \/ (main = "insert" /\ w = listed + 1))

\* The workers Destroy has passed are marked.
MarkedUpTo ==
  /\ \A w \in Worker : w < cur \/ (w = cur /\ main = "next") => terminate[w]
  /\ main = "insert" => listed < NumWorkers
  /\ main = "next" => cur <= listed
  /\ main \in {"broadcast", "clear"} => cur = listed + 1
  /\ main = "done" => \A w \in Worker : terminate[w] \/ pc[w] = "none"

\* A worker has a task exactly while it runs it.
RunningSound == \A w \in Worker : running[w] # 0 <=> pc[w] = "run"

\* All of this together is preserved by every step.
PoolInv ==
  /\ TypeOK
  /\ MutexSound /\ WorkersListed /\ MarkedUpTo /\ RunningSound
  /\ TakeFindsTask /\ NobodySleeps /\ RunsOnce

\* If the pool has a worker, every task pushed is run unless Destroy is called.
TasksRun ==
  \A t \in Task :
    (listed > 0 /\ pushed >= t) ~> (t \in finished \/ main \notin {"create", "insert", "push"})

\* Destroy reaches every worker: none sleeps through it, whatever it was doing
\* when it was marked.
AllWorkersLeave ==
  (main = "mark") ~> (\A w \in Worker : pc[w] \in {"none", "gone"})
============================================================================
