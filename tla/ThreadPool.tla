----------------------------- MODULE ThreadPool -----------------------------
(***************************************************************************)
(* pthread_pool/threadpool.c: worker threads, the list of tasks they take  *)
(* from, the mutex and the condition variable of struct nManager, and the  *)
(* main thread that creates the pool, pushes its tasks, waits for a key    *)
(* and destroys the pool.                                                  *)
(*                                                                         *)
(* A worker's step ends wherever another thread can tell: after it takes   *)
(* the mutex, after it reads terminate (which no lock protects), when it   *)
(* gives the mutex up. What main does under the mutex nobody sees in part: *)
(* each of its critical sections is one step, taken while mutex is free.   *)
(* Worker pointers are numbers in order of creation, nullptr is 0; as      *)
(* LIST_INSERT puts a worker at the head, worker->next is the one created  *)
(* before. Only the head of the task list is used: it is the sequence of   *)
(* its nodes.                                                              *)
(***************************************************************************)
EXTENDS Integers, Sequences, FiniteSets, Functions

CONSTANTS NumWorkers,  (* the argument of nThreadPoolCreate                *)
          NumTasks     (* TASK_INIT_SIZE                                   *)

ASSUME NumWorkersAssumption == NumWorkers \in Int
ASSUME NumTasksAssumption == NumTasks \in Nat

\* if ( numWorkers < 1 ) numWorkers = 1;
WorkerCount == IF NumWorkers < 1 THEN 1 ELSE NumWorkers

Workers == 1 .. WorkerCount
Tasks == 1 .. NumTasks
NullPtr == 0
NoThread == 0

VARIABLES
  mpc,         \* where the main thread is
  head,        \* pool->workers, a worker pointer
  cursor,      \* main's loop pointer over the worker list
  idx,         \* main's loop counter: the task to push
  wpc,         \* where each worker is
  terminate,   \* worker->terminate of each worker
  held,        \* each worker's local variable task
  mutex,       \* the worker that holds pool->mutex, or NoThread
  tasks,       \* pool->tasks, head first
  done         \* tasks whose task_func has run

mainVars == <<head, cursor, idx>>
workerVars == <<wpc, terminate, held>>
taskVars == <<tasks, done>>
vars == <<mpc, mainVars, workerVars, mutex, taskVars>>

\* Before nThreadPoolDestory; past its loop over the workers; at the end.
Serving == {"create", "push"}
Flagged == {"drop", "returned"}
Ended == {"exited", "crashed"}
MainStates == Serving \cup {"flag", "advance"} \cup Flagged \cup Ended
WorkerStates == {"unborn", "lock", "check", "wait", "waiting", "woken",
                 "take", "run", "leave", "free", "gone"}
WorkerHolds == {"check", "wait", "take", "leave"}  \* with the mutex locked

Alive == mpc \notin Ended
Sleeping == {w \in Workers : wpc[w] = "waiting"}
WorkerHeap == {w \in Workers : wpc[w] \notin {"unborn", "gone"}}

Init ==
  /\ mpc = "create" /\ head = NullPtr /\ cursor = NullPtr /\ idx = 1
  /\ wpc = [w \in Workers |-> "unborn"]
  /\ terminate = [w \in Workers |-> FALSE]
  /\ held = [w \in Workers |-> NullPtr]
  /\ mutex = NoThread
  /\ tasks = <<>> /\ done = {}

-----------------------------------------------------------------------------
(* main, nThreadPoolCreate, nThreadPoolPushTask, nThreadPoolDestory *)

\* One turn of the creation loop: malloc, pthread_create and LIST_INSERT.
CreateWorker ==
  /\ mpc = "create"
  /\ head' = head + 1
  /\ wpc' = [wpc EXCEPT ![head'] = "lock"]
  /\ mpc' = IF head' = WorkerCount THEN "push" ELSE "create"
  /\ UNCHANGED <<cursor, idx, terminate, held, mutex, taskVars>>

\* malloc or pthread_create fails: main does not look at the -2 or -3.
CreateFails ==
  /\ mpc = "create"
  /\ mpc' = "push"
  /\ UNCHANGED <<mainVars, workerVars, mutex, taskVars>>

\* Fault: the push signals only when the list was empty.
SignalWhenEmpty ==
  \/ tasks = <<>> /\ \E w \in Sleeping : wpc' = [wpc EXCEPT ![w] = "woken"]
  \/ (Sleeping = {} \/ tasks # <<>>) /\ UNCHANGED wpc

\* Fault: the push does not signal.
SignalForgotten == UNCHANGED wpc

\* pthread_cond_signal: one thread blocked on the condition, if any, wakes.
Signal ==
  \/ \E w \in Sleeping : wpc' = [wpc EXCEPT ![w] = "woken"]
  \/ Sleeping = {} /\ UNCHANGED wpc

\* malloc; then, with the mutex: LIST_INSERT, pthread_cond_signal.
PushTask ==
  /\ mpc = "push" /\ idx <= NumTasks
  /\ mutex = NoThread
  /\ tasks' = <<idx>> \o tasks
  /\ Signal
  /\ idx' = idx + 1
  /\ UNCHANGED <<mpc, head, cursor, terminate, held, mutex, done>>

\* perror("malloc"); exit(1);
AllocTaskFails ==
  /\ mpc = "push" /\ idx <= NumTasks
  /\ mpc' = "exited"
  /\ UNCHANGED <<mainVars, workerVars, mutex, taskVars>>

\* getchar() returns; the loop of nThreadPoolDestory starts at pool->workers.
KeyPressed ==
  /\ mpc = "push" /\ idx > NumTasks
  /\ cursor' = head
  /\ mpc' = "flag"
  /\ UNCHANGED <<head, idx, workerVars, mutex, taskVars>>

\* Fault: one flag for the whole pool, set at the first turn of the loop.
FlagEveryWorker ==
  /\ mpc = "flag" /\ cursor # NullPtr
  /\ terminate' = [w \in Workers |-> TRUE]
  /\ mpc' = "advance"
  /\ UNCHANGED <<mainVars, wpc, held, mutex, taskVars>>

\* worker->terminate = 1, with no lock held.
FlagWorker ==
  /\ mpc = "flag" /\ cursor # NullPtr
  /\ terminate' = [terminate EXCEPT ![cursor] = TRUE]
  /\ mpc' = "advance"
  /\ UNCHANGED <<mainVars, wpc, held, mutex, taskVars>>

\* Fault: the list of workers is circular, and the loop tests for its end.
AdvanceRound ==
  /\ mpc = "advance"
  /\ cursor' = IF cursor = 1 THEN head ELSE cursor - 1
  /\ mpc' = "flag"
  /\ UNCHANGED <<head, idx, workerVars, mutex, taskVars>>

\* printf reads worker->terminate and the loop reads worker->next. The flag
\* is already set, so the worker may have freed its node: the read is then
\* undefined, and either finds the old pointer or brings the process down.
AdvanceCursor ==
  /\ mpc = "advance"
  /\ \/ cursor' = cursor - 1 /\ mpc' = "flag"
     \/ cursor \notin WorkerHeap /\ mpc' = "crashed" /\ UNCHANGED cursor
  /\ UNCHANGED <<head, idx, workerVars, mutex, taskVars>>

\* Fault: pthread_cond_broadcast without the mutex.
BroadcastUnlocked ==
  /\ mpc = "flag" /\ cursor = NullPtr
  /\ wpc' = [w \in Workers |-> IF w \in Sleeping THEN "woken" ELSE wpc[w]]
  /\ mpc' = "drop"
  /\ UNCHANGED <<mainVars, terminate, held, mutex, taskVars>>

\* The loop is over; with the mutex, pthread_cond_broadcast wakes everyone.
Broadcast ==
  /\ mpc = "flag" /\ cursor = NullPtr
  /\ mutex = NoThread
  /\ wpc' = [w \in Workers |-> IF w \in Sleeping THEN "woken" ELSE wpc[w]]
  /\ mpc' = "drop"
  /\ UNCHANGED <<mainVars, terminate, held, mutex, taskVars>>

\* pool->workers = nullptr; pool->tasks = nullptr, with no lock held: the
\* tasks still listed are neither run nor freed.
DropLists ==
  /\ mpc = "drop"
  /\ head' = NullPtr
  /\ tasks' = <<>>
  /\ mpc' = "returned"
  /\ UNCHANGED <<cursor, idx, workerVars, mutex, done>>

\* main returns, which ends the process and every worker with it.
Exit ==
  /\ mpc = "returned"
  /\ mpc' = "exited"
  /\ UNCHANGED <<mainVars, workerVars, mutex, taskVars>>

-----------------------------------------------------------------------------
(* nThreadPoolCallback: the loop of worker w *)

\* Worker w moves between two of its points while the process is alive.
Goto(w, from, to) ==
  /\ Alive
  /\ wpc[w] \in from
  /\ wpc' = [wpc EXCEPT ![w] = to]
  /\ UNCHANGED <<mpc, mainVars, terminate>>

\* Fault: if instead of while, a woken worker does not look at tasks again.
AcquireNoRecheck(w) ==
  /\ \/ Goto(w, {"lock"}, "check")
     \/ Goto(w, {"woken"}, IF terminate[w] THEN "leave" ELSE "take")
  /\ mutex = NoThread
  /\ mutex' = w
  /\ UNCHANGED <<held, taskVars>>

\* pthread_mutex_lock, or the one pthread_cond_wait makes before it returns.
Acquire(w) ==
  /\ Goto(w, {"lock", "woken"}, "check")
  /\ mutex = NoThread
  /\ mutex' = w
  /\ UNCHANGED <<held, taskVars>>

\* Fault: terminate is tested only when the list is empty.
CheckEmptyOnly(w) ==
  /\ Goto(w, {"check"}, IF tasks # <<>> THEN "take"
                        ELSE IF terminate[w] THEN "leave" ELSE "wait")
  /\ UNCHANGED <<held, mutex, taskVars>>

\* The tests of tasks and terminate that follow each acquisition.
Check(w) ==
  /\ Goto(w, {"check"}, IF terminate[w] THEN "leave"
                        ELSE IF tasks = <<>> THEN "wait" ELSE "take")
  /\ UNCHANGED <<held, mutex, taskVars>>

\* pthread_cond_wait releases the mutex and blocks in one step.
CondWait(w) ==
  /\ Goto(w, {"wait"}, "waiting")
  /\ mutex' = NoThread
  /\ UNCHANGED <<held, taskVars>>

\* A return of pthread_cond_wait that no signal caused.
SpuriousWakeup(w) ==
  /\ Goto(w, {"waiting"}, "woken")
  /\ UNCHANGED <<held, mutex, taskVars>>

\* Fault: LIST_REMOVE without its last but one line, the list keeps the task.
TakeTaskKeepsHead(w) ==
  /\ Goto(w, {"take"}, "run")
  /\ held' = [held EXCEPT ![w] = IF tasks = <<>> THEN NullPtr ELSE Head(tasks)]
  /\ mutex' = NoThread
  /\ UNCHANGED taskVars

\* task = manager->tasks; LIST_REMOVE(task, manager->tasks); unlock.
TakeTask(w) ==
  /\ Goto(w, {"take"}, "run")
  /\ held' = [held EXCEPT ![w] = IF tasks = <<>> THEN NullPtr ELSE Head(tasks)]
  /\ tasks' = IF tasks = <<>> THEN tasks ELSE Tail(tasks)
  /\ mutex' = NoThread
  /\ UNCHANGED done

\* task->task_func(task): task_entry runs the task and frees it.
RunTask(w) ==
  /\ Goto(w, {"run"}, "lock")
  /\ done' = done \cup {held[w]}
  /\ held' = [held EXCEPT ![w] = NullPtr]
  /\ UNCHANGED <<mutex, tasks>>

\* pthread_mutex_unlock; break;
Leave(w) ==
  /\ Goto(w, {"leave"}, "free")
  /\ mutex' = NoThread
  /\ UNCHANGED <<held, taskVars>>

\* free(worker), and the thread ends.
FreeWorker(w) ==
  /\ Goto(w, {"free"}, "gone")
  /\ UNCHANGED <<held, mutex, taskVars>>

-----------------------------------------------------------------------------

\* What main does by itself; the key press is the user's.
MainStep ==
  \/ CreateWorker \/ CreateFails
  \/ PushTask \/ AllocTaskFails
  \/ FlagWorker \/ AdvanceCursor \/ Broadcast \/ DropLists \/ Exit

WorkerStep(w) ==
  \/ Acquire(w) \/ Check(w) \/ CondWait(w) \/ TakeTask(w) \/ RunTask(w)
  \/ Leave(w) \/ FreeWorker(w)

\* The process is over: nothing happens any more.
ProcessOver == ~Alive /\ UNCHANGED vars

Next ==
  \/ MainStep
  \/ KeyPressed
  \/ \E w \in Workers : WorkerStep(w) \/ SpuriousWakeup(w)
  \/ ProcessOver

Spec == Init /\ [][Next]_vars

\* Every thread that can run does run; nobody has to press a key, and
\* pthread_cond_wait never has to return without a signal.
Fairness ==
  /\ WF_vars(MainStep)
  /\ \A w \in Workers : WF_vars(WorkerStep(w))

FairSpec == Spec /\ Fairness

-----------------------------------------------------------------------------
(* Properties *)

TypeOK ==
  /\ mpc \in MainStates
  /\ head \in 0 .. WorkerCount /\ cursor \in 0 .. WorkerCount
  /\ idx \in 1 .. NumTasks + 1
  /\ wpc \in [Workers -> WorkerStates]
  /\ terminate \in [Workers -> BOOLEAN]
  /\ held \in [Workers -> Tasks \cup {NullPtr}]
  /\ mutex \in Workers \cup {NoThread}
  /\ tasks \in Seq(Tasks)
  /\ done \subseteq Tasks

\* A worker that left the waiting loop finds a task at the head of the list
\* (LIST_REMOVE and task->task_func dereference it), although main empties
\* the list without the mutex when it destroys the pool.
NoNullTask ==
  \A w \in Workers : /\ wpc[w] = "take" => tasks # <<>>
                     /\ wpc[w] = "run" => held[w] # NullPtr

\* Workers that will look at the list of tasks before they sleep.
Coming == {w \in Workers : wpc[w] \in {"lock", "woken", "check", "take"}}

\* Until the pool is destroyed, no worker sleeps while there are more tasks
\* listed than workers about to look at the list: one signal for each push,
\* with the mutex held, is enough.
NoLostWakeup ==
  mpc \in Serving /\ Sleeping # {} => Len(tasks) <= Cardinality(Coming)

HeldTasks == {held[w] : w \in Workers} \ {NullPtr}

\* Each task pushed before the lists are dropped is in exactly one place:
\* listed once, held by one worker, or run.
TaskConservation ==
  /\ IsInjective(tasks)
  /\ \A v, w \in Workers : held[v] = held[w] /\ held[v] # NullPtr => v = w
  /\ Range(tasks) \cap HeldTasks = {}
  /\ done \cap (Range(tasks) \cup HeldTasks) = {}
  /\ mpc \in Serving \cup {"flag", "advance", "drop"} =>
       Range(tasks) \cup HeldTasks \cup done = 1 .. idx - 1

\* nThreadPoolDestory never writes terminate into a worker node that the
\* worker has freed: a worker frees its node only after its own flag is set.
FlagsLiveWorker ==
  mpc = "flag" /\ cursor # NullPtr => cursor \in WorkerHeap

\* Once nThreadPoolDestory has broadcast, no worker sleeps or goes to sleep
\* again on the condition variable of a pool that is about to disappear: the
\* empty critical section shuts the window between a worker's test of
\* terminate and its wait.
NoSleeperAfterBroadcast ==
  mpc \in Flagged => \A w \in Workers : wpc[w] \notin {"wait", "waiting"}

\* The pool keeps the promise of TaskPool: dropping the lists, like the end
\* of the process, closes it.
Closed == mpc \in {"returned"} \cup Ended

TP == INSTANCE TaskPool WITH
        Executors <- Workers, Jobs <- Tasks, Idle <- NullPtr,
        pending <- IF Closed THEN {} ELSE Range(tasks),
        running <- held, finished <- done, open <- ~Closed

Implements == TP!Spec

\* A listed task is run, unless the pool is destroyed or the process ends
\* first, as long as one worker was created.
ListedTaskRuns ==
  \A t \in Tasks :
    (head # NullPtr /\ t \in Range(tasks)) ~> (t \in done \/ mpc \notin Serving)

\* nThreadPoolDestory, once called, returns and the process ends, whatever
\* the workers are doing: they always give the mutex back.
DestroyReturns == mpc = "flag" ~> ~Alive
=============================================================================
