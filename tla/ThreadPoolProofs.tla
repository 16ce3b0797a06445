-------------------------- MODULE ThreadPoolProofs --------------------------
(***************************************************************************)
(* Proofs about ThreadPool for any number of workers and of tasks: the     *)
(* lock discipline, that no worker dereferences an empty list or sleeps    *)
(* through the shutdown, that no task is lost or run twice, that one       *)
(* signal for each push is enough, and that the pool implements TaskPool.  *)
(***************************************************************************)
EXTENDS ThreadPool, FiniteSetTheorems, TLAPS

\* A worker holds the mutex exactly at the points listed in WorkerHolds.
LockInv == \A w \in Workers : mutex = w <=> wpc[w] \in WorkerHolds

\* What a worker has learnt from its tests is still so when it acts on it.
LocalInv ==
  \A w \in Workers :
    /\ wpc[w] = "wait" => tasks = <<>>
    /\ wpc[w] = "take" => tasks # <<>>
    /\ wpc[w] = "run" <=> held[w] # NullPtr
    /\ wpc[w] \in {"leave", "free", "gone"} => terminate[w]

\* pool->workers lists the workers created, and only them.
CreatedInv ==
  /\ mpc = "create" => head < WorkerCount
  /\ mpc \in Serving \cup {"flag", "advance"} =>
       \A w \in Workers : wpc[w] # "unborn" <=> w <= head

\* Which flags nThreadPoolDestory has set.
FlagInv ==
  /\ mpc \in Serving => \A w \in Workers : ~terminate[w]
  /\ mpc \in {"flag", "advance"} => cursor <= head
  /\ mpc = "flag" => \A w \in Workers : terminate[w] <=> cursor < w /\ w <= head
  /\ mpc = "advance" =>
       cursor > 0 /\ \A w \in Workers : terminate[w] <=> cursor <= w /\ w <= head
  /\ mpc \in Flagged => \A w \in Workers : wpc[w] # "unborn" => terminate[w]

\* After the broadcast nobody waits, and nobody is about to touch the list.
QuietInv ==
  mpc \in Flagged =>
    \A w \in Workers : wpc[w] \notin {"wait", "waiting", "take"}

IInv == TypeOK /\ LockInv /\ LocalInv /\ CreatedInv /\ FlagInv /\ QuietInv

-----------------------------------------------------------------------------

LEMMA WorkersFacts ==
  /\ WorkerCount \in Nat \ {0}
  /\ \A w \in Workers : w \in 1 .. WorkerCount /\ w # NoThread /\ w # NullPtr
BY NumWorkersAssumption DEF WorkerCount, Workers, NoThread, NullPtr

\* IInv holds when the program starts.
LEMMA InitIInv == Init => IInv
BY WorkersFacts, NumTasksAssumption
DEF Init, IInv, TypeOK, LockInv, LocalInv, CreatedInv, FlagInv, QuietInv,
    MainStates, WorkerStates, WorkerHolds, Serving, Flagged, Workers, NullPtr,
    NoThread, Tasks

\* Every step of every thread keeps IInv.
LEMMA NextIInv == IInv /\ [Next]_vars => IInv'
<1> SUFFICES ASSUME IInv, [Next]_vars
             PROVE  IInv'
  OBVIOUS
<1> USE WorkersFacts, NumTasksAssumption
    DEF IInv, TypeOK, LockInv, LocalInv, CreatedInv, FlagInv, QuietInv,
        MainStates, WorkerStates, WorkerHolds, Serving, Flagged, Ended,
        NullPtr, NoThread, Tasks, mainVars, workerVars, taskVars
<1>1. CASE CreateWorker
  BY <1>1 DEF CreateWorker, Workers
<1>2. CASE CreateFails
  BY <1>2 DEF CreateFails
<1>3. CASE PushTask
  BY <1>3 DEF PushTask, Signal, Sleeping
<1>4. CASE AllocTaskFails
  BY <1>4 DEF AllocTaskFails
<1>5. CASE KeyPressed
  BY <1>5 DEF KeyPressed
<1>6. CASE FlagWorker
  BY <1>6 DEF FlagWorker, Workers
<1>7. CASE AdvanceCursor
  BY <1>7 DEF AdvanceCursor, Workers
<1>8. CASE Broadcast
  BY <1>8 DEF Broadcast, Sleeping, Workers
<1>9. CASE DropLists
  BY <1>9 DEF DropLists
<1>10. CASE Exit
  BY <1>10 DEF Exit
<1>11. ASSUME NEW w \in Workers, WorkerStep(w) \/ SpuriousWakeup(w)
       PROVE  IInv'
  <2> USE DEF Goto, Alive
  <2>1. CASE Acquire(w)
    BY <2>1 DEF Acquire
  <2>2. CASE Check(w)
    BY <2>2 DEF Check
  <2>3. CASE CondWait(w)
    BY <2>3 DEF CondWait
  <2>4. CASE SpuriousWakeup(w)
    BY <2>4 DEF SpuriousWakeup
  <2>5. CASE TakeTask(w)
    <3>1. tasks # <<>>
      BY <2>5 DEF TakeTask
    <3>2. held' = [held EXCEPT ![w] = Head(tasks)] /\ tasks' = Tail(tasks)
      BY <2>5, <3>1 DEF TakeTask
    <3>3. Head(tasks) \in Tasks /\ Tail(tasks) \in Seq(Tasks)
      BY <3>1
    <3>4. \A v \in Workers : wpc'[v] \notin {"take", "wait"}
      BY <2>5 DEF TakeTask
    <3>5. QED
      BY <2>5, <3>2, <3>3, <3>4 DEF TakeTask
  <2>6. CASE RunTask(w)
    BY <2>6, ZenonT(40) DEF RunTask
  <2>7. CASE Leave(w)
    BY <2>7 DEF Leave
  <2>8. CASE FreeWorker(w)
    BY <2>8 DEF FreeWorker
  <2>9. QED
    BY <1>11, <2>1, <2>2, <2>3, <2>4, <2>5, <2>6, <2>7, <2>8 DEF WorkerStep
<1>12. CASE UNCHANGED vars
  BY <1>12 DEF vars
<1>13. QED
  BY <1>1, <1>2, <1>3, <1>4, <1>5, <1>6, <1>7, <1>8, <1>9, <1>10, <1>11, <1>12
  DEF Next, MainStep, ProcessOver

\* The invariant of every run.
THEOREM Invariance == Spec => []IInv
BY InitIInv, NextIInv, PTL DEF Spec

\* Every variable keeps to its type.
THEOREM TypeCorrect == Spec => []TypeOK
<1>1. IInv => TypeOK
  BY DEF IInv
<1>2. QED
  BY <1>1, Invariance, PTL

\* No worker dereferences the head of an empty list.
THEOREM NoNullTaskHolds == Spec => []NoNullTask
<1>1. IInv => NoNullTask
  BY DEF IInv, LocalInv, NoNullTask
<1>2. QED
  BY <1>1, Invariance, PTL

\* nThreadPoolDestory never writes into a worker node that was freed.
THEOREM FlagsLiveWorkerHolds == Spec => []FlagsLiveWorker
<1>1. IInv => FlagsLiveWorker
  BY WorkersFacts
  DEF IInv, TypeOK, LocalInv, CreatedInv, FlagInv, FlagsLiveWorker,
      WorkerHeap, Workers, NullPtr, Serving
<1>2. QED
  BY <1>1, Invariance, PTL

\* Nobody sleeps after the broadcast.
THEOREM NoSleeperHolds == Spec => []NoSleeperAfterBroadcast
<1>1. IInv => NoSleeperAfterBroadcast
  BY DEF IInv, QuietInv, NoSleeperAfterBroadcast
<1>2. QED
  BY <1>1, Invariance, PTL

-----------------------------------------------------------------------------
(* Every task is in one place. *)

LEMMA InjectiveSeq ==
  ASSUME NEW S, NEW s \in Seq(S)
  PROVE  IsInjective(s) <=> \A i, j \in 1 .. Len(s) : s[i] = s[j] => i = j
<1>1. DOMAIN s = 1 .. Len(s)
  OBVIOUS
<1>2. QED
  BY <1>1 DEF IsInjective

LEMMA InRange ==
  ASSUME NEW S, NEW s \in Seq(S)
  PROVE  \A y : y \in Range(s) <=> \E i \in 1 .. Len(s) : y = s[i]
<1>1. DOMAIN s = 1 .. Len(s)
  OBVIOUS
<1>2. QED
  BY <1>1 DEF Range

\* LIST_INSERT adds its item to the list, and nothing else.
LEMMA PushFacts ==
  ASSUME NEW S, NEW s \in Seq(S), NEW x \in S, IsInjective(s), x \notin Range(s)
  PROVE  /\ Range(<<x>> \o s) = {x} \cup Range(s)
         /\ IsInjective(<<x>> \o s)
<1> DEFINE t == <<x>> \o s
<1>1. t \in Seq(S) /\ Len(t) = Len(s) + 1 /\ Len(s) \in Nat
  OBVIOUS
<1>2. t[1] = x /\ \A i \in 1 .. Len(s) : i + 1 \in 1 .. Len(t) /\ t[i + 1] = s[i]
  OBVIOUS
<1>3. \A i \in 1 .. Len(t) : i = 1 \/ (i - 1 \in 1 .. Len(s) /\ t[i] = s[i - 1])
  BY <1>1, <1>2
<1> HIDE DEF t
<1>4. Range(t) = {x} \cup Range(s)
  <2>1. ASSUME NEW y \in Range(t) PROVE y \in {x} \cup Range(s)
    <3>1. PICK i \in 1 .. Len(t) : y = t[i]
      BY <1>1, InRange
    <3>2. QED
      BY <1>2, <1>3, <3>1, InRange
  <2>2. ASSUME NEW y \in Range(s) PROVE y \in Range(t)
    <3>1. PICK i \in 1 .. Len(s) : y = s[i]
      BY InRange
    <3>2. y = t[i + 1] /\ i + 1 \in 1 .. Len(t)
      BY <1>2, <3>1
    <3>3. QED
      BY <1>1, <3>2, InRange
  <2>3. x \in Range(t)
    <3>1. 1 \in 1 .. Len(t)
      BY <1>1
    <3>2. QED
      BY <1>1, <1>2, <3>1, InRange
  <2>4. QED
    BY <2>1, <2>2, <2>3
<1>5. IsInjective(t)
  <2>1. \A i \in 1 .. Len(s) : s[i] # x
    BY InRange
  <2>2. \A i \in 1 .. Len(t) : i # 1 => t[i] # x
    BY <1>3, <2>1
  <2>3. SUFFICES ASSUME NEW i \in 1 .. Len(t), NEW j \in 1 .. Len(t),
                        t[i] = t[j], i # 1, j # 1
                 PROVE  i = j
    BY <1>1, <1>2, <2>2, InjectiveSeq
  <2>4. s[i - 1] = s[j - 1] /\ i - 1 \in 1 .. Len(s) /\ j - 1 \in 1 .. Len(s)
    BY <1>3, <2>3
  <2>5. i - 1 = j - 1
    BY <2>4, InjectiveSeq
  <2>6. QED
    BY <2>5
<1>6. QED
  BY <1>4, <1>5 DEF t

\* LIST_REMOVE of the head takes the head out, and nothing else.
LEMMA PopFacts ==
  ASSUME NEW S, NEW s \in Seq(S), s # <<>>, IsInjective(s)
  PROVE  /\ Head(s) \in Range(s)
         /\ Range(Tail(s)) = Range(s) \ {Head(s)}
         /\ IsInjective(Tail(s))
<1> DEFINE t == Tail(s)
<1>1. t \in Seq(S) /\ Len(s) = Len(t) + 1 /\ Len(t) \in Nat
  OBVIOUS
<1>2. \A i \in 1 .. Len(t) : i + 1 \in 1 .. Len(s) /\ t[i] = s[i + 1]
  OBVIOUS
<1>3. \A i \in 1 .. Len(s) : i = 1 \/ (i - 1 \in 1 .. Len(t) /\ s[i] = t[i - 1])
  BY <1>1, <1>2
<1>4. Head(s) = s[1] /\ 1 \in 1 .. Len(s)
  BY <1>1
<1>5. Head(s) \in Range(s)
  BY <1>4, InRange
<1> HIDE DEF t
<1>6. IsInjective(t)
  BY <1>1, <1>2, InjectiveSeq
<1>7. Range(t) = Range(s) \ {Head(s)}
  <2>1. ASSUME NEW y \in Range(t) PROVE y \in Range(s) \ {Head(s)}
    <3>1. PICK i \in 1 .. Len(t) : y = t[i]
      BY <1>1, InRange
    <3>2. y = s[i + 1] /\ i + 1 \in 1 .. Len(s) /\ i + 1 # 1
      BY <1>1, <1>2, <3>1
    <3>3. y # s[1]
      BY <1>4, <3>2, InjectiveSeq
    <3>4. QED
      BY <1>4, <3>2, <3>3, InRange
  <2>2. ASSUME NEW y \in Range(s), y # Head(s) PROVE y \in Range(t)
    <3>1. PICK i \in 1 .. Len(s) : y = s[i]
      BY InRange
    <3>2. i - 1 \in 1 .. Len(t) /\ y = t[i - 1]
      BY <1>3, <1>4, <2>2, <3>1
    <3>3. QED
      BY <1>1, <3>2, InRange
  <2>3. QED
    BY <2>1, <2>2
<1>8. QED
  BY <1>5, <1>6, <1>7 DEF t

\* What TaskConservation needs to be inductive: tasks are numbered as pushed.
ConsInv ==
  TaskConservation /\ Range(tasks) \cup HeldTasks \cup done \subseteq 1 .. idx - 1

Listed == Serving \cup {"flag", "advance", "drop"}

\* A step that moves no task.
LEMMA TasksUnmoved ==
  ASSUME ConsInv, UNCHANGED <<tasks, held, done, idx>>,
         mpc' \in Listed => mpc \in Listed
  PROVE  ConsInv'
BY DEF ConsInv, TaskConservation, HeldTasks, Listed

LEMMA InitConsInv == Init => ConsInv
<1> SUFFICES ASSUME Init PROVE ConsInv
  OBVIOUS
<1>1. Range(tasks) = {}
  BY DEF Init, Range
<1>2. HeldTasks = {}
  BY DEF Init, HeldTasks
<1>3. Len(tasks) = 0 /\ idx = 1 /\ done = {}
  BY DEF Init
<1>4. \A v \in Workers : held[v] = NullPtr
  BY DEF Init
<1>5. IsInjective(tasks)
  BY DEF Init, IsInjective
<1>6. QED
  BY <1>1, <1>2, <1>3, <1>4, <1>5 DEF ConsInv, TaskConservation

LEMMA NextConsInv == IInv /\ ConsInv /\ [Next]_vars => ConsInv'
<1> SUFFICES ASSUME IInv, ConsInv, [Next]_vars
             PROVE  ConsInv'
  OBVIOUS
<1>0. /\ IsInjective(tasks) /\ tasks \in Seq(Tasks) /\ idx \in Nat \ {0}
      /\ held \in [Workers -> Tasks \cup {NullPtr}]
      /\ NullPtr \notin Tasks
  BY NumTasksAssumption
  DEF IInv, TypeOK, ConsInv, TaskConservation, Tasks, NullPtr
<1>1. ASSUME mpc' \in Listed => mpc \in Listed,
             UNCHANGED <<tasks, held, done, idx>>
      PROVE  ConsInv'
  BY <1>1, TasksUnmoved
<1>2. CASE PushTask
  <2>1. /\ idx \in Tasks /\ idx \notin Range(tasks) \cup HeldTasks \cup done
        /\ 1 .. idx' - 1 = (1 .. idx - 1) \cup {idx}
    BY <1>0, <1>2, NumTasksAssumption DEF PushTask, Tasks, ConsInv
  <2>2. Range(tasks') = {idx} \cup Range(tasks) /\ IsInjective(tasks')
    BY <1>0, <1>2, <2>1, PushFacts DEF PushTask
  <2>3. UNCHANGED <<held, done, mpc>> /\ HeldTasks' = HeldTasks
    BY <1>2 DEF PushTask, HeldTasks
  <2>4. QED
    BY <2>1, <2>2, <2>3 DEF ConsInv, TaskConservation
<1>3. CASE DropLists
  <2>1. tasks' = <<>> /\ Range(tasks') = {} /\ IsInjective(tasks')
    BY <1>3 DEF DropLists, Range, IsInjective
  <2>2. UNCHANGED <<held, done, idx>> /\ HeldTasks' = HeldTasks
    BY <1>3 DEF DropLists, HeldTasks, workerVars
  <2>3. mpc' \notin Listed
    BY <1>3 DEF DropLists, Listed, Serving
  <2>4. QED
    BY <2>1, <2>2, <2>3 DEF ConsInv, TaskConservation, Listed
<1>4. ASSUME NEW w \in Workers, TakeTask(w)
      PROVE  ConsInv'
  <2>1. tasks # <<>> /\ held[w] = NullPtr
    BY <1>4 DEF IInv, LocalInv, TakeTask, Goto
  <2>2. /\ held' = [held EXCEPT ![w] = Head(tasks)] /\ tasks' = Tail(tasks)
        /\ UNCHANGED <<mpc, idx, done>>
    BY <1>4, <2>1 DEF TakeTask, Goto, mainVars
  <2>3. /\ Head(tasks) \in Range(tasks) /\ IsInjective(tasks')
        /\ Range(tasks') = Range(tasks) \ {Head(tasks)}
    BY <1>0, <2>1, <2>2, PopFacts
  <2>4. Head(tasks) \in Tasks
    BY <1>0, <2>1
  <2>5. HeldTasks' = HeldTasks \cup {Head(tasks)}
    BY <1>0, <2>1, <2>2, <2>4 DEF HeldTasks
  <2>6. \A v \in Workers : held[v] # Head(tasks)
    BY <1>0, <2>3, <2>4 DEF ConsInv, TaskConservation, HeldTasks
  <2>7. \A u, v \in Workers : held'[u] = held'[v] /\ held'[u] # NullPtr => u = v
    BY <1>0, <2>2, <2>6 DEF ConsInv, TaskConservation
  <2>8. Head(tasks) \notin HeldTasks \cup done
    BY <2>3, <2>4, <2>6 DEF ConsInv, TaskConservation
  <2>9. Range(tasks') \cup HeldTasks' = Range(tasks) \cup HeldTasks
    BY <2>3, <2>5
  <2>10. /\ Range(tasks') \cap HeldTasks' = {}
         /\ done' \cap (Range(tasks') \cup HeldTasks') = {}
    BY <2>2, <2>3, <2>5, <2>8, <2>9 DEF ConsInv, TaskConservation
  <2>11. QED
    BY <2>2, <2>3, <2>7, <2>9, <2>10 DEF ConsInv, TaskConservation
<1>5. ASSUME NEW w \in Workers, RunTask(w)
      PROVE  ConsInv'
  <2>1. held[w] # NullPtr /\ held[w] \in HeldTasks
    BY <1>5 DEF IInv, LocalInv, RunTask, Goto, HeldTasks
  <2>2. /\ held' = [held EXCEPT ![w] = NullPtr] /\ done' = done \cup {held[w]}
        /\ UNCHANGED <<mpc, idx, tasks>>
    BY <1>5 DEF RunTask, Goto, mainVars
  <2>3. HeldTasks' = HeldTasks \ {held[w]}
    <3>1. \A v \in Workers : held[v] = held[w] <=> v = w
      BY <2>1 DEF ConsInv, TaskConservation
    <3>2. \A v \in Workers : held'[v] = IF v = w THEN NullPtr ELSE held[v]
      BY <1>0, <2>2
    <3>3. ASSUME NEW t, t # NullPtr
          PROVE  (\E v \in Workers : t = held'[v])
                   <=> (\E v \in Workers : t = held[v]) /\ t # held[w]
      BY <3>1, <3>2, <3>3
    <3>4. QED
      BY <3>3 DEF HeldTasks
  <2>4. QED
    BY <1>0, <2>1, <2>2, <2>3 DEF ConsInv, TaskConservation
<1>6. CASE CreateWorker \/ CreateFails \/ KeyPressed
  BY <1>1, <1>6
  DEF CreateWorker, CreateFails, KeyPressed, Listed, Serving, mainVars,
      workerVars, taskVars
<1>7. CASE AllocTaskFails \/ FlagWorker \/ AdvanceCursor \/ Broadcast \/ Exit
  BY <1>1, <1>7
  DEF AllocTaskFails, FlagWorker, AdvanceCursor, Broadcast, Exit, Listed,
      Serving, mainVars, workerVars, taskVars
<1>8. ASSUME NEW w \in Workers,
             \/ Acquire(w) \/ Check(w) \/ CondWait(w) \/ SpuriousWakeup(w)
             \/ Leave(w) \/ FreeWorker(w)
      PROVE  ConsInv'
  BY <1>1, <1>8
  DEF Acquire, Check, CondWait, SpuriousWakeup, Leave, FreeWorker, Goto,
      mainVars, taskVars
<1>9. CASE UNCHANGED vars
  BY <1>1, <1>9 DEF vars, mainVars, workerVars, taskVars
<1>10. QED
  BY <1>2, <1>3, <1>4, <1>5, <1>6, <1>7, <1>8, <1>9
  DEF Next, MainStep, WorkerStep, ProcessOver

\* No task is lost, and none is run twice.
THEOREM TaskConservationHolds == Spec => []TaskConservation
<1>1. ConsInv => TaskConservation
  BY DEF ConsInv
<1>2. QED
  BY <1>1, InitConsInv, NextConsInv, Invariance, PTL DEF Spec

-----------------------------------------------------------------------------
(* One signal for each push is enough. *)

LEMMA ComingFinite ==
  /\ IsFiniteSet(Coming) /\ Cardinality(Coming) \in Nat
  /\ Cardinality(Coming)' \in Nat
<1>1. IsFiniteSet(Workers)
  BY WorkersFacts, FS_Interval DEF Workers
<1>2. Coming \subseteq Workers /\ Coming' \subseteq Workers
  BY DEF Coming
<1>3. QED
  BY <1>1, <1>2, FS_Subset, FS_CardinalityType

AtList == {"lock", "woken", "check", "take"}

\* A worker on its way to the list counts for one task.
LEMMA ComingSteps ==
  ASSUME NEW w \in Workers, NEW s, wpc \in [Workers -> WorkerStates],
         wpc' = [wpc EXCEPT ![w] = s]
  PROVE  /\ wpc[w] \in AtList /\ s \notin AtList
              => Cardinality(Coming)' = Cardinality(Coming) - 1
         /\ wpc[w] \notin AtList /\ s \in AtList
              => Cardinality(Coming)' = Cardinality(Coming) + 1
         /\ (wpc[w] \in AtList <=> s \in AtList)
              => Cardinality(Coming)' = Cardinality(Coming)
<1>1. w \in Coming <=> wpc[w] \in AtList
  BY DEF Coming, AtList
<1>2. Coming' = IF s \in AtList THEN Coming \cup {w} ELSE Coming \ {w}
  BY DEF Coming, AtList
<1>3. /\ Cardinality(Coming \cup {w}) =
            IF w \in Coming THEN Cardinality(Coming) ELSE Cardinality(Coming) + 1
      /\ Cardinality(Coming \ {w}) =
            IF w \in Coming THEN Cardinality(Coming) - 1 ELSE Cardinality(Coming)
  BY ComingFinite, FS_AddElement, FS_RemoveElement
<1>4. QED
  BY <1>1, <1>2, <1>3

LEMMA NextNoLostWakeup ==
  IInv /\ IInv' /\ NoLostWakeup /\ [Next]_vars => NoLostWakeup'
<1> SUFFICES ASSUME IInv, NoLostWakeup, [Next]_vars, mpc' \in Serving, Sleeping' # {}
             PROVE  Len(tasks') <= Cardinality(Coming)'
  BY DEF NoLostWakeup
<1>0. /\ wpc \in [Workers -> WorkerStates] /\ tasks \in Seq(Tasks)
      /\ Cardinality(Coming) \in Nat /\ Len(tasks) \in Nat
      /\ mpc \in Serving => \A w \in Workers : ~terminate[w]
      /\ Sleeping \subseteq Workers
  BY ComingFinite DEF IInv, TypeOK, FlagInv, Sleeping
<1>1. CASE CreateWorker
  <2>1. head + 1 \in Workers /\ wpc[head + 1] = "unborn"
    BY <1>1, WorkersFacts
    DEF CreateWorker, IInv, TypeOK, CreatedInv, Workers, Serving
  <2>2. /\ wpc' = [wpc EXCEPT ![head + 1] = "lock"]
        /\ tasks' = tasks /\ mpc \in Serving
    BY <1>1 DEF CreateWorker, taskVars, Serving
  <2>3. Cardinality(Coming)' = Cardinality(Coming) + 1
    BY <1>0, <2>1, <2>2, ComingSteps DEF AtList
  <2>4. Sleeping # {}
    BY <1>0, <2>2 DEF Sleeping
  <2>5. QED
    BY <1>0, <2>2, <2>3, <2>4 DEF NoLostWakeup
<1>2. CASE PushTask
  <2>1. PICK w \in Sleeping : wpc' = [wpc EXCEPT ![w] = "woken"]
    BY <1>2 DEF PushTask, Signal, Sleeping
  <2>2. Cardinality(Coming)' = Cardinality(Coming) + 1
    BY <1>0, <2>1, ComingSteps DEF Sleeping, AtList
  <2>3. Len(tasks') = Len(tasks) + 1
    <3>1. idx \in Tasks
      BY <1>2, NumTasksAssumption DEF PushTask, IInv, TypeOK, Tasks
    <3>2. QED
      BY <1>0, <1>2, <3>1 DEF PushTask
  <2>4. mpc \in Serving
    BY <1>2 DEF PushTask, Serving
  <2>5. QED
    BY <1>0, <2>1, <2>2, <2>3, <2>4 DEF NoLostWakeup
<1>3. ASSUME UNCHANGED <<wpc, tasks>>, mpc \in Serving
      PROVE  Len(tasks') <= Cardinality(Coming)'
  <2>1. Sleeping' = Sleeping /\ Coming' = Coming
    BY <1>3 DEF Sleeping, Coming
  <2>2. QED
    BY <1>3, <2>1 DEF NoLostWakeup
<1>4. CASE CreateFails \/ AllocTaskFails \/ KeyPressed
  BY <1>3, <1>4
  DEF CreateFails, AllocTaskFails, KeyPressed, Serving, workerVars, taskVars
<1>5. CASE FlagWorker \/ AdvanceCursor \/ Broadcast \/ DropLists \/ Exit
  BY <1>5 DEF FlagWorker, AdvanceCursor, Broadcast, DropLists, Exit, Serving
<1>6. ASSUME NEW w \in Workers, WorkerStep(w) \/ SpuriousWakeup(w)
      PROVE  Len(tasks') <= Cardinality(Coming)'
  <2>1. mpc \in Serving /\ ~terminate[w]
    BY <1>0, <1>6
    DEF WorkerStep, SpuriousWakeup, Acquire, Check, CondWait, TakeTask,
        RunTask, Leave, FreeWorker, Goto
  <2>2. CASE Acquire(w)
    <3>1. Cardinality(Coming)' = Cardinality(Coming) /\ tasks' = tasks
      BY <1>0, <2>2, ComingSteps DEF Acquire, Goto, AtList, taskVars
    <3>2. Sleeping # {}
      BY <1>0, <2>2 DEF Acquire, Goto, Sleeping
    <3>3. QED
      BY <2>1, <3>1, <3>2 DEF NoLostWakeup
  <2>3. CASE Check(w)
    <3>1. Sleeping # {} /\ tasks' = tasks
      BY <1>0, <2>3 DEF Check, Goto, Sleeping, taskVars
    <3>2. CASE tasks = <<>>
      <4>1. Cardinality(Coming)' \in Nat /\ Len(tasks') = 0
        BY <3>1, <3>2, ComingFinite
      <4>2. QED
        BY <4>1
    <3>3. CASE tasks # <<>>
      <4>1. Cardinality(Coming)' = Cardinality(Coming)
        BY <1>0, <2>1, <2>3, <3>3, ComingSteps DEF Check, Goto, AtList
      <4>2. QED
        BY <2>1, <3>1, <4>1 DEF NoLostWakeup
    <3>4. QED
      BY <3>2, <3>3
  <2>4. CASE CondWait(w)
    <3>1. tasks' = <<>>
      BY <2>4 DEF CondWait, Goto, IInv, LocalInv, taskVars
    <3>2. Cardinality(Coming)' \in Nat
      BY ComingFinite
    <3>3. QED
      BY <3>1, <3>2
  <2>5. CASE SpuriousWakeup(w)
    <3>1. Cardinality(Coming)' = Cardinality(Coming) + 1 /\ tasks' = tasks
      BY <1>0, <2>5, ComingSteps DEF SpuriousWakeup, Goto, AtList, taskVars
    <3>2. Sleeping # {}
      BY <2>5 DEF SpuriousWakeup, Goto, Sleeping
    <3>3. QED
      BY <1>0, <2>1, <3>1, <3>2 DEF NoLostWakeup
  <2>6. CASE TakeTask(w)
    <3>1. tasks # <<>> /\ tasks' = Tail(tasks)
      BY <2>6 DEF TakeTask, Goto, IInv, LocalInv
    <3>2. Len(tasks') = Len(tasks) - 1
      BY <1>0, <3>1
    <3>3. Cardinality(Coming)' = Cardinality(Coming) - 1
      <4>1. wpc[w] = "take" /\ wpc' = [wpc EXCEPT ![w] = "run"]
        BY <2>6 DEF TakeTask, Goto
      <4>2. wpc[w] \in AtList /\ "run" \notin AtList
        BY <4>1 DEF AtList
      <4>3. QED
        BY <1>0, <4>1, <4>2, ComingSteps
    <3>4. Sleeping # {}
      BY <1>0, <2>6 DEF TakeTask, Goto, Sleeping
    <3>5. QED
      BY <1>0, <2>1, <3>2, <3>3, <3>4 DEF NoLostWakeup
  <2>7. CASE RunTask(w)
    <3>1. Cardinality(Coming)' = Cardinality(Coming) + 1 /\ tasks' = tasks
      BY <1>0, <2>7, ComingSteps DEF RunTask, Goto, AtList
    <3>2. Sleeping # {}
      BY <1>0, <2>7 DEF RunTask, Goto, Sleeping
    <3>3. QED
      BY <1>0, <2>1, <3>1, <3>2 DEF NoLostWakeup
  <2>8. CASE Leave(w) \/ FreeWorker(w)
    BY <2>1, <2>8 DEF Leave, FreeWorker, Goto, IInv, LocalInv
  <2>9. QED
    BY <1>6, <2>2, <2>3, <2>4, <2>5, <2>6, <2>7, <2>8 DEF WorkerStep
<1>7. CASE UNCHANGED vars
  BY <1>3, <1>7 DEF vars, workerVars, taskVars
<1>8. QED
  BY <1>1, <1>2, <1>4, <1>5, <1>6, <1>7 DEF Next, MainStep, ProcessOver

\* No task waits in the list for a worker that sleeps.
THEOREM NoLostWakeupHolds == Spec => []NoLostWakeup
<1>1. Init => NoLostWakeup
  BY DEF Init, NoLostWakeup, Sleeping
<1>2. QED
  BY <1>1, NextNoLostWakeup, Invariance, PTL DEF Spec

-----------------------------------------------------------------------------
(* The pool implements TaskPool. *)

LEMMA InitImplements == Init => TP!Init
BY DEF Init, TP!Init, Closed, Ended, Range

LEMMA NextImplements ==
  IInv /\ ConsInv /\ [Next]_vars => [TP!Next]_TP!vars
<1> SUFFICES ASSUME IInv, ConsInv, [Next]_vars
             PROVE  TP!Next \/ UNCHANGED TP!vars
  OBVIOUS
<1>1. ASSUME UNCHANGED <<tasks, held, done>>, Closed' = Closed
      PROVE  UNCHANGED TP!vars
  BY <1>1 DEF TP!vars
<1>2. CASE PushTask
  <2>1. /\ idx \in Tasks /\ idx \notin Range(tasks) \cup HeldTasks \cup done
        /\ tasks \in Seq(Tasks) /\ IsInjective(tasks)
    BY <1>2, NumTasksAssumption
    DEF PushTask, Tasks, IInv, TypeOK, ConsInv, TaskConservation
  <2>2. Range(tasks') = Range(tasks) \cup {idx}
    BY <1>2, <2>1, PushFacts DEF PushTask
  <2>3. ~Closed /\ ~Closed' /\ UNCHANGED <<held, done>>
    BY <1>2 DEF PushTask, Closed, Ended
  <2>4. TP!Submit(idx)
    BY <2>1, <2>2, <2>3 DEF TP!Submit, TP!Started, HeldTasks
  <2>5. QED
    BY <2>1, <2>4 DEF TP!Next
<1>3. ASSUME ~Closed, Closed', UNCHANGED <<held, done>>
      PROVE  TP!Next
  BY <1>3 DEF TP!Close, TP!Next
<1>4. CASE AllocTaskFails \/ DropLists
  BY <1>3, <1>4
  DEF AllocTaskFails, DropLists, Closed, Ended, workerVars, taskVars
<1>5. CASE AdvanceCursor
  <2>1. CASE mpc' = "flag"
    BY <1>1, <1>5, <2>1
    DEF AdvanceCursor, Closed, Ended, workerVars, taskVars
  <2>2. CASE mpc' = "crashed"
    BY <1>3, <1>5, <2>2
    DEF AdvanceCursor, Closed, Ended, workerVars, taskVars
  <2>3. QED
    BY <1>5, <2>1, <2>2 DEF AdvanceCursor
<1>6. ASSUME NEW w \in Workers, TakeTask(w)
      PROVE  TP!Next
  <2>1. /\ tasks # <<>> /\ held[w] = NullPtr
        /\ tasks \in Seq(Tasks) /\ IsInjective(tasks)
    BY <1>6
    DEF TakeTask, Goto, IInv, TypeOK, LocalInv, ConsInv, TaskConservation
  <2>2. /\ held' = [held EXCEPT ![w] = Head(tasks)] /\ tasks' = Tail(tasks)
        /\ mpc' = mpc /\ done' = done
    BY <1>6, <2>1 DEF TakeTask, Goto
  <2>3. ~Closed /\ ~Closed'
    BY <1>6, <2>2 DEF TakeTask, Goto, Alive, Closed, IInv, QuietInv, Flagged
  <2>4. /\ Head(tasks) \in Range(tasks) /\ Head(tasks) \in Tasks
        /\ Range(tasks') = Range(tasks) \ {Head(tasks)}
    BY <2>1, <2>2, PopFacts
  <2>5. TP!Start(w, Head(tasks))
    BY <2>1, <2>2, <2>3, <2>4 DEF TP!Start
  <2>6. QED
    BY <2>4, <2>5 DEF TP!Next
<1>7. ASSUME NEW w \in Workers, RunTask(w)
      PROVE  TP!Next
  <2>1. held[w] # NullPtr
    BY <1>7 DEF RunTask, Goto, IInv, LocalInv
  <2>2. /\ held' = [held EXCEPT ![w] = NullPtr]
        /\ done' = done \cup {held[w]} /\ tasks' = tasks /\ Closed' = Closed
    BY <1>7 DEF RunTask, Goto, Closed
  <2>3. TP!Finish(w)
    BY <2>1, <2>2 DEF TP!Finish
  <2>4. QED
    BY <2>3 DEF TP!Next
<1>8. CASE CreateWorker \/ CreateFails \/ KeyPressed
  BY <1>1, <1>8
  DEF CreateWorker, CreateFails, KeyPressed, Closed, Ended, mainVars,
      workerVars, taskVars
<1>9. CASE FlagWorker \/ Broadcast \/ Exit
  BY <1>1, <1>9
  DEF FlagWorker, Broadcast, Exit, Closed, Ended, workerVars, taskVars
<1>10. ASSUME NEW w \in Workers,
              \/ Acquire(w) \/ Check(w) \/ CondWait(w) \/ SpuriousWakeup(w)
              \/ Leave(w) \/ FreeWorker(w)
       PROVE  UNCHANGED TP!vars
  BY <1>1, <1>10
  DEF Acquire, Check, CondWait, SpuriousWakeup, Leave, FreeWorker, Goto,
      Closed, taskVars
<1>11. CASE UNCHANGED vars
  BY <1>1, <1>11 DEF vars, workerVars, taskVars, Closed
<1>12. QED
  BY <1>2, <1>4, <1>5, <1>6, <1>7, <1>8, <1>9, <1>10, <1>11
  DEF Next, MainStep, WorkerStep, ProcessOver

\* Each task is started once, by one worker, and only while the pool is open.
THEOREM ImplementsHolds == Spec => Implements
<1>1. Spec => []ConsInv
  BY InitConsInv, NextConsInv, Invariance, PTL DEF Spec
<1>2. QED
  BY <1>1, InitImplements, NextImplements, Invariance, PTL
  DEF Spec, Implements, TP!Spec
=============================================================================
