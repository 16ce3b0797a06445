------------------------------ MODULE MysqlPool ------------------------------
(***************************************************************************)
(* mysql_pool/Mysql_pool.c: a pool of MySQL connections, each with its own *)
(* thread. The list of tasks, the mutex, the condition and the workers'    *)
(* loop are those of pthread_pool/threadpool.c once more (the two copies   *)
(* differ in names only), so the steps they share are those of ThreadPool, *)
(* here with the connection each worker owns: it is made after the thread  *)
(* has started, used by each task in several queries, and closed by main.  *)
(* The second getchar keeps the process alive after the pool is destroyed. *)
(***************************************************************************)
EXTENDS ThreadPool

VARIABLES conn,   \* worker->mysql: not set up yet, connected, or closed
          stage   \* the next query of the task a worker runs

connVars == <<conn, stage>>
mysqlVars == <<vars, connVars>>

MysqlInit ==
  /\ Init
  /\ conn = [w \in Workers |-> "none"]
  /\ stage = [w \in Workers |-> "select"]

-----------------------------------------------------------------------------
(* nMysqlPoolCreate, nMysqlPoolDestory *)

\* malloc, memset and pthread_create: the thread runs, on a worker that is
\* neither connected nor listed.
StartWorker ==
  /\ mpc = "create"
  /\ wpc' = [wpc EXCEPT ![head + 1] = "lock"]
  /\ mpc' = "connect"
  /\ UNCHANGED <<mainVars, terminate, held, mutex, taskVars, connVars>>

\* Fault: a connection that fails ends the creation of the pool.
ConnectOrReturn ==
  /\ mpc = "connect"
  /\ \/ /\ head' = head + 1
        /\ conn' = [conn EXCEPT ![head'] = "open"]
        /\ mpc' = IF head' = WorkerCount THEN "push" ELSE "create"
     \/ mpc' = "push" /\ UNCHANGED <<head, conn>>
  /\ UNCHANGED <<cursor, idx, workerVars, mutex, taskVars, stage>>

\* Fault: the worker is not inserted into pool->workers.
ConnectUnlisted ==
  /\ mpc = "connect"
  /\ \E c \in {"open", "closed"} : conn' = [conn EXCEPT ![head + 1] = c]
  /\ mpc' = IF head + 1 = WorkerCount THEN "push" ELSE "create"
  /\ UNCHANGED <<mainVars, workerVars, mutex, taskVars, stage>>

\* mysql_real_connect, whose failure closes the handle and changes nothing
\* else; user_data; LIST_INSERT.
Connect ==
  /\ mpc = "connect"
  /\ head' = head + 1
  /\ \E c \in {"open", "closed"} : conn' = [conn EXCEPT ![head'] = c]
  /\ mpc' = IF head' = WorkerCount THEN "push" ELSE "create"
  /\ UNCHANGED <<cursor, idx, workerVars, mutex, taskVars, stage>>

\* Fault: terminate is set before the connection is closed.
FlagThenClose ==
  /\ mpc = "flag" /\ cursor # NullPtr
  /\ terminate' = [terminate EXCEPT ![cursor] = TRUE]
  /\ mpc' = "terminate"
  /\ UNCHANGED <<mainVars, wpc, held, mutex, taskVars, connVars>>

\* mysql_close(&worker->mysql), whatever the worker is doing.
CloseConnection ==
  /\ mpc = "flag" /\ cursor # NullPtr
  /\ conn' = [conn EXCEPT ![cursor] = "closed"]
  /\ mpc' = "terminate"
  /\ UNCHANGED <<mainVars, workerVars, mutex, taskVars, stage>>

\* Fault: terminate is not set.
FlagForgotten ==
  /\ mpc = "terminate"
  /\ mpc' = "advance"
  /\ UNCHANGED <<mainVars, workerVars, mutex, taskVars, connVars>>

\* worker->terminate = 1
MysqlFlagWorker ==
  /\ mpc = "terminate"
  /\ terminate' = [terminate EXCEPT ![cursor] = TRUE]
  /\ mpc' = "advance"
  /\ UNCHANGED <<mainVars, wpc, held, mutex, taskVars, connVars>>

-----------------------------------------------------------------------------
(* task_entry: it looks at the result of read_image alone *)

\* myc_mysql_select and read_image, then mysql_write, with any result.
Query(w) ==
  /\ Alive /\ wpc[w] = "run"
  /\ \/ stage[w] = "select" /\ stage' = [stage EXCEPT ![w] = "write"]
     \/ stage[w] = "write" /\ stage' = [stage EXCEPT ![w] = "read"]
  /\ UNCHANGED <<vars, conn>>

\* read_image fails after the select, or mysql_read ends; free(task).
FinishTask(w) ==
  /\ stage[w] \in {"select", "read"}
  /\ RunTask(w)
  /\ stage' = [stage EXCEPT ![w] = "select"]
  /\ UNCHANGED conn

-----------------------------------------------------------------------------

\* What the two programs have in common.
MysqlMainStep ==
  \/ StartWorker \/ Connect \/ CloseConnection \/ MysqlFlagWorker
  \/ /\ \/ CreateFails \/ PushTask \/ AllocTaskFails
        \/ AdvanceCursor \/ Broadcast \/ DropLists
     /\ UNCHANGED connVars

\* The first getchar, and the second one.
MysqlKeyPressed == (KeyPressed \/ Exit) /\ UNCHANGED connVars

MysqlWorkerStep(w) ==
  \/ Query(w) \/ FinishTask(w)
  \/ /\ \/ Acquire(w) \/ Check(w) \/ CondWait(w) \/ TakeTask(w)
        \/ Leave(w) \/ FreeWorker(w)
     /\ UNCHANGED connVars

MysqlSpuriousWakeup(w) == SpuriousWakeup(w) /\ UNCHANGED connVars

MysqlNext ==
  \/ MysqlMainStep
  \/ MysqlKeyPressed
  \/ \E w \in Workers : MysqlWorkerStep(w) \/ MysqlSpuriousWakeup(w)
  \/ ~Alive /\ UNCHANGED mysqlVars

MysqlSpec == MysqlInit /\ [][MysqlNext]_mysqlVars

\* Main and the workers run when they can; a query ends; no key need come.
MysqlFairSpec ==
  /\ MysqlSpec
  /\ WF_mysqlVars(MysqlMainStep)
  /\ \A w \in Workers : WF_mysqlVars(MysqlWorkerStep(w))

-----------------------------------------------------------------------------
(* Properties *)

\* Although a worker's thread starts before its handle and user_data are set
\* up, no task is ever taken by a worker that is not ready: task_entry
\* dereferences user_data.
TaskFindsReadyWorker ==
  \A w \in Workers : wpc[w] \in {"take", "run"} => conn[w] # "none"

\* nMysqlPoolDestory closes the handle and sets the flag of workers that
\* still exist: the order of its two statements is what makes it so.
DestroyTouchesLiveWorker ==
  mpc \in {"flag", "terminate"} /\ cursor # NullPtr => cursor \in WorkerHeap

\* A worker exists for the thread pool from the moment its thread starts; to
\* close the connection is a part of flagging the worker.
Pool == INSTANCE ThreadPool WITH
          head <- IF mpc = "connect" THEN head + 1 ELSE head,
          mpc <- CASE mpc = "connect" ->
                        IF head + 1 = WorkerCount THEN "push" ELSE "create"
                   [] mpc = "terminate" -> "flag"
                   [] OTHER -> mpc

\* With its connections left out, this is the thread pool, and keeps all
\* that the thread pool promises.
ImplementsPool == Pool!Spec

\* After the pool is destroyed, while the second getchar waits, every worker
\* finishes its task, leaves its loop and frees its node.
WorkersLeave ==
  mpc = "returned" ~> (\A w \in Workers : wpc[w] \in {"unborn", "gone"})
                      \/ ~Alive
=============================================================================
