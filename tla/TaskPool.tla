------------------------------ MODULE TaskPool ------------------------------
(***************************************************************************)
(* What a pool of worker threads promises to the thread that owns it,      *)
(* independently of lists, locks and condition variables: a submitted task *)
(* is started by at most one worker, once; a worker runs one task at a     *)
(* time; closing the pool discards what has not been started, and from     *)
(* then on nothing is accepted and nothing is started.                     *)
(***************************************************************************)
EXTENDS Integers

CONSTANTS Executors,  (* the threads that run tasks                        *)
          Jobs,       (* the tasks that may be submitted                   *)
          Idle        (* what an executor without a task runs: not a job   *)

VARIABLES pending,    (* submitted, not started                            *)
          running,    (* running[e]: the task executor e runs, or Idle     *)
          finished,   (* run to completion                                 *)
          open        (* the pool has not been closed                      *)

vars == <<pending, running, finished, open>>

Init ==
  /\ pending = {}
  /\ running = [e \in Executors |-> Idle]
  /\ finished = {}
  /\ open = TRUE

Started == {running[e] : e \in Executors} \ {Idle}

Submit(t) ==
  /\ open
  /\ t \notin pending \cup Started \cup finished
  /\ pending' = pending \cup {t}
  /\ UNCHANGED <<running, finished, open>>

Start(e, t) ==
  /\ open
  /\ running[e] = Idle
  /\ t \in pending
  /\ pending' = pending \ {t}
  /\ running' = [running EXCEPT ![e] = t]
  /\ UNCHANGED <<finished, open>>

Finish(e) ==
  /\ running[e] # Idle
  /\ finished' = finished \cup {running[e]}
  /\ running' = [running EXCEPT ![e] = Idle]
  /\ UNCHANGED <<pending, open>>

Close ==
  /\ open
  /\ open' = FALSE
  /\ pending' = {}
  /\ UNCHANGED <<running, finished>>

Next ==
  \/ \E t \in Jobs : Submit(t)
  \/ \E e \in Executors, t \in Jobs : Start(e, t)
  \/ \E e \in Executors : Finish(e)
  \/ Close

Spec == Init /\ [][Next]_vars
=============================================================================
