--------------------------- MODULE MysqlPoolProofs ---------------------------
(***************************************************************************)
(* Proofs about MysqlPool, for any number of connections and of tasks: it  *)
(* is the thread pool of ThreadPool with connections added, whose theorems *)
(* therefore carry over, and its tasks only run on workers that are ready. *)
(***************************************************************************)
EXTENDS MysqlPool, TLAPS

\* Main sets the flag of a worker, not of nobody.
FlagsSomebody == mpc = "terminate" => cursor # NullPtr

\* The steps that MysqlPool shares with ThreadPool.
SharedMain ==
  \/ CreateFails \/ PushTask \/ AllocTaskFails \/ KeyPressed
  \/ AdvanceCursor \/ Broadcast \/ DropLists \/ Exit

SharedWorker(w) ==
  \/ Acquire(w) \/ Check(w) \/ CondWait(w) \/ SpuriousWakeup(w)
  \/ TakeTask(w) \/ RunTask(w) \/ Leave(w) \/ FreeWorker(w)

LEMMA MysqlSteps ==
  ASSUME [MysqlNext]_mysqlVars
  PROVE  \/ StartWorker \/ Connect \/ CloseConnection \/ MysqlFlagWorker
         \/ SharedMain
         \/ \E w \in Workers : SharedWorker(w)
         \/ UNCHANGED vars
BY DEF MysqlNext, MysqlMainStep, MysqlKeyPressed, MysqlWorkerStep,
       MysqlSpuriousWakeup, Query, FinishTask, mysqlVars, SharedMain, SharedWorker

LEMMA NextFlagsSomebody ==
  FlagsSomebody /\ [MysqlNext]_mysqlVars => FlagsSomebody'
<1> SUFFICES ASSUME FlagsSomebody, [MysqlNext]_mysqlVars
             PROVE  FlagsSomebody'
  OBVIOUS
<1> USE DEF FlagsSomebody
<1>1. CASE StartWorker \/ Connect \/ CloseConnection \/ MysqlFlagWorker
  BY <1>1 DEF StartWorker, Connect, CloseConnection, MysqlFlagWorker, mainVars
<1>2. CASE SharedMain
  BY <1>2
  DEF SharedMain, CreateFails, PushTask, AllocTaskFails, KeyPressed,
      AdvanceCursor, Broadcast, DropLists, Exit
<1>3. ASSUME NEW w \in Workers, SharedWorker(w)
      PROVE  FlagsSomebody'
  BY <1>3
  DEF SharedWorker, Acquire, Check, CondWait, SpuriousWakeup, TakeTask,
      RunTask, Leave, FreeWorker, Goto, mainVars
<1>4. CASE UNCHANGED vars
  BY <1>4 DEF vars, mainVars
<1>5. QED
  BY <1>1, <1>2, <1>3, <1>4, MysqlSteps

-----------------------------------------------------------------------------
(* MysqlPool implements ThreadPool. *)

LEMMA MysqlInitImplements == MysqlInit => Pool!Init
BY DEF MysqlInit, Init, Pool!Init, Pool!Workers, Pool!WorkerCount, Workers,
       WorkerCount, Pool!NullPtr, NullPtr, Pool!NoThread, NoThread

LEMMA MysqlNextImplements ==
  FlagsSomebody /\ [MysqlNext]_mysqlVars => [Pool!Next]_Pool!vars
<1> SUFFICES ASSUME FlagsSomebody, [MysqlNext]_mysqlVars
             PROVE  Pool!Next \/ UNCHANGED Pool!vars
  OBVIOUS
<1> USE DEF Pool!Workers, Pool!WorkerCount, Workers, WorkerCount,
            Pool!NullPtr, NullPtr, Pool!NoThread, NoThread,
            Pool!mainVars, Pool!workerVars, Pool!taskVars,
            mainVars, workerVars, taskVars
<1>1. CASE StartWorker
  BY <1>1 DEF StartWorker, Pool!CreateWorker, Pool!MainStep, Pool!Next
<1>2. CASE Connect
  BY <1>2 DEF Connect, Pool!vars
<1>3. CASE CloseConnection
  BY <1>3 DEF CloseConnection, Pool!vars
<1>4. CASE MysqlFlagWorker
  BY <1>4 DEF MysqlFlagWorker, FlagsSomebody, Pool!FlagWorker, Pool!MainStep, Pool!Next
<1>5. CASE SharedMain
  <2> USE DEF Pool!MainStep, Pool!Next
  <2>1. CASE CreateFails
    BY <2>1 DEF CreateFails, Pool!CreateFails
  <2>2. CASE PushTask
    BY <2>2 DEF PushTask, Pool!PushTask, Signal, Pool!Signal, Sleeping, Pool!Sleeping
  <2>3. CASE AllocTaskFails
    BY <2>3 DEF AllocTaskFails, Pool!AllocTaskFails
  <2>4. CASE KeyPressed
    BY <2>4 DEF KeyPressed, Pool!KeyPressed
  <2>5. CASE AdvanceCursor
    BY <2>5 DEF AdvanceCursor, Pool!AdvanceCursor, WorkerHeap, Pool!WorkerHeap
  <2>6. CASE Broadcast
    BY <2>6 DEF Broadcast, Pool!Broadcast, Sleeping, Pool!Sleeping
  <2>7. CASE DropLists
    BY <2>7 DEF DropLists, Pool!DropLists
  <2>8. CASE Exit
    BY <2>8 DEF Exit, Pool!Exit
  <2>9. QED
    BY <1>5, <2>1, <2>2, <2>3, <2>4, <2>5, <2>6, <2>7, <2>8 DEF SharedMain
<1>6. ASSUME NEW w \in Workers, SharedWorker(w)
      PROVE  Pool!Next
  <2>1. ASSUME NEW from, NEW to, Goto(w, from, to)
        PROVE  Pool!Goto(w, from, to)
    BY <2>1 DEF Goto, Pool!Goto, Alive, Pool!Alive, Ended, Pool!Ended
  <2> USE DEF Pool!WorkerStep, Pool!Next
  <2>2. CASE Acquire(w)
    BY <2>1, <2>2 DEF Acquire, Pool!Acquire
  <2>3. CASE Check(w)
    BY <2>1, <2>3 DEF Check, Pool!Check
  <2>4. CASE CondWait(w)
    BY <2>1, <2>4 DEF CondWait, Pool!CondWait
  <2>5. CASE SpuriousWakeup(w)
    BY <2>1, <2>5 DEF SpuriousWakeup, Pool!SpuriousWakeup
  <2>6. CASE TakeTask(w)
    BY <2>1, <2>6 DEF TakeTask, Pool!TakeTask
  <2>7. CASE RunTask(w)
    BY <2>1, <2>7 DEF RunTask, Pool!RunTask
  <2>8. CASE Leave(w)
    BY <2>1, <2>8 DEF Leave, Pool!Leave
  <2>9. CASE FreeWorker(w)
    BY <2>1, <2>9 DEF FreeWorker, Pool!FreeWorker
  <2>10. QED
    BY <1>6, <2>2, <2>3, <2>4, <2>5, <2>6, <2>7, <2>8, <2>9 DEF SharedWorker
<1>7. CASE UNCHANGED vars
  BY <1>7 DEF vars, Pool!vars
<1>8. QED
  BY <1>1, <1>2, <1>3, <1>4, <1>5, <1>6, <1>7, MysqlSteps

\* The connection pool is a thread pool.
THEOREM ImplementsPoolHolds == MysqlSpec => ImplementsPool
<1>1. MysqlInit => FlagsSomebody
  BY DEF MysqlInit, Init, FlagsSomebody
<1>2. QED
  BY <1>1, NextFlagsSomebody, MysqlInitImplements, MysqlNextImplements, PTL
  DEF MysqlSpec, ImplementsPool, Pool!Spec

-----------------------------------------------------------------------------
(* What is proved of the thread pool holds of the connection pool. *)

\* The theorems of ThreadPoolProofs, under the mapping that defines Pool.
PP == INSTANCE ThreadPoolProofs WITH
        head <- IF mpc = "connect" THEN head + 1 ELSE head,
        mpc <- CASE mpc = "connect" ->
                      IF head + 1 = WorkerCount THEN "push" ELSE "create"
                 [] mpc = "terminate" -> "flag"
                 [] OTHER -> mpc

\* The two instances of ThreadPool are the same formulas.
LEMMA SameInit == PP!Init <=> Pool!Init
BY DEF PP!Init, Pool!Init, PP!Workers, Pool!Workers, PP!WorkerCount,
       Pool!WorkerCount, PP!NullPtr, Pool!NullPtr, PP!NoThread, Pool!NoThread

LEMMA SameNext == [PP!Next]_PP!vars <=> [Pool!Next]_Pool!vars
BY
DEF PP!CreateWorker, Pool!CreateWorker, PP!CreateFails, Pool!CreateFails,
    PP!Signal, Pool!Signal, PP!PushTask, Pool!PushTask, PP!AllocTaskFails,
    Pool!AllocTaskFails, PP!KeyPressed, Pool!KeyPressed, PP!FlagWorker,
    Pool!FlagWorker, PP!AdvanceCursor, Pool!AdvanceCursor, PP!Broadcast,
    Pool!Broadcast, PP!DropLists, Pool!DropLists, PP!Exit, Pool!Exit,
    PP!Goto, Pool!Goto, PP!Acquire, Pool!Acquire, PP!Check, Pool!Check,
    PP!CondWait, Pool!CondWait, PP!SpuriousWakeup, Pool!SpuriousWakeup,
    PP!TakeTask, Pool!TakeTask, PP!RunTask, Pool!RunTask, PP!Leave,
    Pool!Leave, PP!FreeWorker, Pool!FreeWorker, PP!MainStep, Pool!MainStep,
    PP!WorkerStep, Pool!WorkerStep, PP!ProcessOver, Pool!ProcessOver,
    PP!Next, Pool!Next, PP!mainVars, Pool!mainVars, PP!workerVars,
    Pool!workerVars, PP!taskVars, Pool!taskVars, PP!vars, Pool!vars,
    PP!Ended, Pool!Ended, PP!Alive, Pool!Alive, PP!Sleeping, Pool!Sleeping,
    PP!WorkerHeap, Pool!WorkerHeap, PP!Workers, Pool!Workers,
    PP!WorkerCount, Pool!WorkerCount, PP!NullPtr, Pool!NullPtr,
    PP!NoThread, Pool!NoThread

LEMMA MysqlImplementsPP == MysqlSpec => PP!Spec
BY ImplementsPoolHolds, SameInit, SameNext, PTL
DEF ImplementsPool, PP!Spec, Pool!Spec

\* No connection is handed an empty list, and no task is lost or run twice.
THEOREM MysqlTasksHold ==
  MysqlSpec => [](Pool!NoNullTask /\ Pool!TaskConservation)
<1>1. PP!Spec => []PP!NoNullTask
  BY PP!NoNullTaskHolds, NumWorkersAssumption, NumTasksAssumption
<1>2. PP!Spec => []PP!TaskConservation
  BY PP!TaskConservationHolds, NumWorkersAssumption, NumTasksAssumption
<1>3. PP!NoNullTask => Pool!NoNullTask
  BY DEF PP!NoNullTask, Pool!NoNullTask, PP!Workers, Pool!Workers,
         PP!WorkerCount, Pool!WorkerCount, PP!NullPtr, Pool!NullPtr
<1>4. PP!TaskConservation => Pool!TaskConservation
  BY DEF PP!TaskConservation, Pool!TaskConservation, PP!HeldTasks,
         Pool!HeldTasks, PP!Range, Pool!Range, PP!IsInjective,
         Pool!IsInjective, PP!Serving, Pool!Serving, PP!Workers, Pool!Workers,
         PP!WorkerCount, Pool!WorkerCount, PP!NullPtr, Pool!NullPtr
<1>5. QED
  BY <1>1, <1>2, <1>3, <1>4, MysqlImplementsPP, PTL

\* nMysqlPoolDestory never touches a worker that was freed.
THEOREM DestroyTouchesLiveWorkerHolds == MysqlSpec => []DestroyTouchesLiveWorker
<1>1. PP!Spec => []PP!FlagsLiveWorker
  BY PP!FlagsLiveWorkerHolds, NumWorkersAssumption, NumTasksAssumption
<1>2. PP!FlagsLiveWorker => DestroyTouchesLiveWorker
  BY DEF PP!FlagsLiveWorker, DestroyTouchesLiveWorker, PP!WorkerHeap,
         WorkerHeap, PP!Workers, Workers, PP!WorkerCount, WorkerCount,
         PP!NullPtr, NullPtr
<1>3. QED
  BY <1>1, <1>2, MysqlImplementsPP, PTL

\* A connection that waits while a task is listed has a signal to come, and after
\* the broadcast none sleeps: neither the connections' set-up between the list and
\* the first task nor a spurious wakeup loses one.
THEOREM MysqlWakeupsHold ==
  MysqlSpec => [](Pool!NoLostWakeup /\ Pool!NoSleeperAfterBroadcast)
<1>1. PP!Spec => []PP!NoLostWakeup
  BY PP!NoLostWakeupHolds, NumWorkersAssumption, NumTasksAssumption
<1>2. PP!Spec => []PP!NoSleeperAfterBroadcast
  BY PP!NoSleeperHolds, NumWorkersAssumption, NumTasksAssumption
<1>3. PP!NoLostWakeup => Pool!NoLostWakeup
  <2>1. PP!Sleeping = Pool!Sleeping /\ PP!Coming = Pool!Coming
    BY DEF PP!Sleeping, Pool!Sleeping, PP!Coming, Pool!Coming,
           PP!Workers, Pool!Workers, PP!WorkerCount, Pool!WorkerCount
  <2>2. \A S : PP!Cardinality(S) = Pool!Cardinality(S)
    BY DEF PP!Cardinality, Pool!Cardinality
  <2>3. QED
    BY <2>1, <2>2 DEF PP!NoLostWakeup, Pool!NoLostWakeup, PP!Serving, Pool!Serving
<1>4. PP!NoSleeperAfterBroadcast => Pool!NoSleeperAfterBroadcast
  BY DEF PP!NoSleeperAfterBroadcast, Pool!NoSleeperAfterBroadcast, PP!Flagged,
         Pool!Flagged, PP!Ended, Pool!Ended, PP!Workers, Pool!Workers,
         PP!WorkerCount, Pool!WorkerCount
<1>5. QED
  BY <1>1, <1>2, <1>3, <1>4, MysqlImplementsPP, PTL

\* The connection pool keeps the promise of TaskPool as the thread pool does: each
\* query is started by at most one connection, once, and none after the pool is
\* destroyed.
THEOREM MysqlImplementsTaskPoolHolds == MysqlSpec => PP!Implements
<1>1. PP!Spec => PP!Implements
  BY PP!ImplementsHolds, NumWorkersAssumption, NumTasksAssumption
<1>2. QED
  BY <1>1, MysqlImplementsPP, PTL

-----------------------------------------------------------------------------
(* Tasks run on workers that are ready. *)

\* No task is pushed before the last worker is ready.
ReadyInv ==
  /\ wpc \in [Workers -> WorkerStates]
  /\ conn \in [Workers -> {"none", "open", "closed"}]
  /\ mpc \in {"create", "connect"} => tasks = <<>>
  /\ \A w \in Workers :
       wpc[w] # "unborn" /\ ~(mpc = "connect" /\ w = head + 1) => conn[w] # "none"
  /\ TaskFindsReadyWorker

LEMMA InitReadyInv == MysqlInit => ReadyInv
BY DEF MysqlInit, Init, ReadyInv, TaskFindsReadyWorker, WorkerStates

LEMMA NextReadyInv == ReadyInv /\ [MysqlNext]_mysqlVars => ReadyInv'
<1> SUFFICES ASSUME ReadyInv, [MysqlNext]_mysqlVars
             PROVE  ReadyInv'
  OBVIOUS
<1> USE DEF ReadyInv, TaskFindsReadyWorker, WorkerStates
<1>0. \/ StartWorker \/ Connect \/ CloseConnection
      \/ conn' = conn
  BY DEF MysqlNext, MysqlMainStep, MysqlKeyPressed, MysqlWorkerStep,
         MysqlSpuriousWakeup, MysqlFlagWorker, Query, FinishTask, mysqlVars,
         connVars
<1>1. CASE StartWorker
  BY <1>1 DEF StartWorker, mainVars, taskVars, connVars
<1>2. CASE Connect
  BY <1>2 DEF Connect, workerVars, taskVars
<1>3. CASE CloseConnection
  BY <1>3 DEF CloseConnection, mainVars, workerVars, taskVars
<1>4. CASE MysqlFlagWorker /\ conn' = conn
  BY <1>4 DEF MysqlFlagWorker, mainVars, taskVars
<1>5. CASE SharedMain /\ conn' = conn
  BY <1>5
  DEF SharedMain, CreateFails, PushTask, Signal, Sleeping, AllocTaskFails,
      KeyPressed, AdvanceCursor, Broadcast, DropLists, Exit, mainVars,
      workerVars, taskVars
<1>6. ASSUME NEW w \in Workers, SharedWorker(w), conn' = conn
      PROVE  ReadyInv'
  BY <1>6
  DEF SharedWorker, Acquire, Check, CondWait, SpuriousWakeup, TakeTask,
      RunTask, Leave, FreeWorker, Goto, mainVars, taskVars
<1>7. CASE UNCHANGED vars /\ conn' = conn
  BY <1>7 DEF vars, mainVars, workerVars, taskVars
<1>8. QED
  BY <1>0, <1>1, <1>2, <1>3, <1>4, <1>5, <1>6, <1>7, MysqlSteps

\* No task is run by a worker without user_data and handle.
THEOREM TaskFindsReadyWorkerHolds == MysqlSpec => []TaskFindsReadyWorker
<1>1. ReadyInv => TaskFindsReadyWorker
  BY DEF ReadyInv
<1>2. QED
  BY <1>1, InitReadyInv, NextReadyInv, PTL DEF MysqlSpec
=============================================================================
