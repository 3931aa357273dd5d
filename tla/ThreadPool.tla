----------------------------- MODULE ThreadPool -----------------------------
(***************************************************************************)
(* The thread pool of the parallel search (3rdparty/fsearch/thread_pool.c) *)
(* and the one thread that uses it (parallelsearch_files): it creates the  *)
(* pool on the first search, gives a piece of work to one worker after the *)
(* other, and waits for every worker before it reads what they have found. *)
(*                                                                         *)
(* A worker holds its mutex from the return of g_cond_wait to the next     *)
(* call of it, the work included; what happens under a mutex is one step,  *)
(* but for the work itself.  So the mutex of t is held between two steps   *)
(* just when at[t] = "working".                                            *)
(***************************************************************************)
EXTENDS Naturals

CONSTANTS
  NumThreads,   \* the processors: the pool has a worker for each
  Work,         \* the pieces of work
  NoWork        \* thread_data = NULL

ASSUME PoolAssumptions == NumThreads \in Nat \ {0} /\ NoWork \notin Work

Thread == 1..NumThreads

VARIABLES
  at,       \* where each worker is
  status,   \* THREAD_BUSY or THREAD_IDLE: THREAD_FINISHED is never seen
  data,     \* thread_data of each worker
  waited,   \* thread_waited: the worker has been ready for a signal
  call,     \* what the searching thread does
  cur,      \* the worker it does this with
  given,    \* the work handed out in this search
  done      \* the work of this search that is finished

pool == <<at, status, data, waited, call, cur, given, done>>
workers == <<at, status, data, waited>>

PoolTypeOK ==
  /\ at \in [Thread -> {"none", "new", "waiting", "woken", "working"}]
  /\ status \in [Thread -> {"BUSY", "IDLE"}]
  /\ data \in [Thread -> Work \cup {NoWork}]
  /\ waited \in [Thread -> BOOLEAN]
  /\ call \in {"idle", "create", "spin", "push", "wait", "blocked", "merge"}
  /\ cur \in 1..(NumThreads + 1)
  /\ given \subseteq Work /\ done \subseteq Work

PoolInit ==
  /\ at = [t \in Thread |-> "none"]
  /\ status = [t \in Thread |-> "IDLE"]
  /\ data = [t \in Thread |-> NoWork]
  /\ waited = [t \in Thread |-> FALSE]
  /\ call = "idle" /\ cur = 1 /\ given = {} /\ done = {}

-----------------------------------------------------------------------------
(* The workers.                                                            *)

(* The first turn of the loop.                                             *)
Enter(t) ==
  /\ at[t] = "new"
  /\ waited' = [waited EXCEPT ![t] = TRUE]
  /\ at' = [at EXCEPT ![t] = "waiting"]
  /\ UNCHANGED <<status, data, call, cur, given, done>>

(* g_cond_wait may return with no signal.                                  *)
WakeUnasked(t) ==
  /\ at[t] = "waiting"
  /\ at' = [at EXCEPT ![t] = "woken"]
  /\ UNCHANGED <<status, data, waited, call, cur, given, done>>

(* It has the mutex again, and finds work or goes back to sleep.           *)
StartWork(t) ==
  /\ at[t] = "woken" /\ data[t] # NoWork
  /\ status' = [status EXCEPT ![t] = "BUSY"]
  /\ at' = [at EXCEPT ![t] = "working"]
  /\ UNCHANGED <<data, waited, call, cur, given, done>>

SleepAgain(t) ==
  /\ at[t] = "woken" /\ data[t] = NoWork
  /\ status' = [status EXCEPT ![t] = "IDLE"]
  /\ at' = [at EXCEPT ![t] = "waiting"]
  /\ UNCHANGED <<data, waited, call, cur, given, done>>

(* The signal of finished_cond wakes whoever waits for t.                  *)
FinishWork(t) ==
  /\ at[t] = "working"
  /\ done' = done \cup {data[t]}
  /\ data' = [data EXCEPT ![t] = NoWork]
  /\ status' = [status EXCEPT ![t] = "IDLE"]
  /\ at' = [at EXCEPT ![t] = "waiting"]
  /\ call' = IF call = "blocked" /\ cur = t THEN "wait" ELSE call
  /\ UNCHANGED <<waited, cur, given>>

-----------------------------------------------------------------------------
(* The searching thread.                                                   *)

(* parallelsearch_files: the pool is made when there is none.              *)
Begin ==
  /\ call = "idle"
  /\ call' = IF at[NumThreads] = "none" THEN "create" ELSE "push"
  /\ cur' = 1 /\ given' = {} /\ done' = {}
  /\ UNCHANGED workers

CreateThread ==
  /\ call = "create"
  /\ at' = [at EXCEPT ![cur] = "new"]
  /\ call' = "spin"
  /\ UNCHANGED <<status, data, waited, cur, given, done>>

(* Mutant: the next thread is made, or used, before this one is ready.     *)
SpinNoLook ==
  /\ call = "spin"
  /\ IF cur = NumThreads
     THEN call' = "push" /\ cur' = 1
     ELSE call' = "create" /\ cur' = cur + 1
  /\ UNCHANGED <<at, status, data, waited, given, done>>

Spin ==
  /\ call = "spin" /\ waited[cur]
  /\ IF cur = NumThreads
     THEN call' = "push" /\ cur' = 1
     ELSE call' = "create" /\ cur' = cur + 1
  /\ UNCHANGED <<at, status, data, waited, given, done>>

(* fsearch_thread_pool_push_data: a signal to a worker that does not wait  *)
(* for one is lost.                                                        *)
Push(w) ==
  /\ call = "push" /\ cur \in Thread /\ at[cur] # "working"
  /\ w \in Work \ given
  /\ data' = [data EXCEPT ![cur] = w]
  /\ status' = [status EXCEPT ![cur] = "BUSY"]
  /\ at' = [at EXCEPT ![cur] = IF @ = "waiting" THEN "woken" ELSE @]
  /\ given' = given \cup {w}
  /\ cur' = cur + 1
  /\ UNCHANGED <<waited, call, done>>

EndPush ==
  /\ call = "push"
  /\ call' = "wait" /\ cur' = 1
  /\ UNCHANGED <<at, status, data, waited, given, done>>

(* fsearch_thread_pool_wait_for_thread, for each of the pool's workers.    *)
WaitBusy ==
  /\ call = "wait" /\ cur \in Thread /\ at[cur] # "working"
  /\ status[cur] = "BUSY"
  /\ call' = "blocked"
  /\ UNCHANGED <<at, status, data, waited, cur, given, done>>

WaitNext ==
  /\ call = "wait" /\ cur \in Thread /\ at[cur] # "working"
  /\ status[cur] # "BUSY"
  /\ cur' = cur + 1
  /\ UNCHANGED <<at, status, data, waited, call, given, done>>

(* Mutant: an if in the place of the while.                                *)
WaitUnaskedOnce ==
  /\ call = "blocked"
  /\ call' = "wait" /\ cur' = cur + 1
  /\ UNCHANGED <<at, status, data, waited, given, done>>

(* g_cond_wait returns with no signal.                                     *)
WaitUnasked ==
  /\ call = "blocked"
  /\ call' = "wait"
  /\ UNCHANGED <<at, status, data, waited, cur, given, done>>

WaitEnd ==
  /\ call = "wait" /\ cur = NumThreads + 1
  /\ call' = "merge"
  /\ UNCHANGED <<at, status, data, waited, cur, given, done>>

Merge ==
  /\ call = "merge"
  /\ call' = "idle"
  /\ UNCHANGED <<at, status, data, waited, cur, given, done>>

WorkerNext == \E t \in Thread :
  Enter(t) \/ WakeUnasked(t) \/ StartWork(t) \/ SleepAgain(t) \/ FinishWork(t)

CallerNext ==
  \/ Begin \/ CreateThread \/ Spin \/ EndPush
  \/ WaitBusy \/ WaitNext \/ WaitUnasked \/ WaitEnd \/ Merge
  \/ \E w \in Work : Push(w)

PoolNext == WorkerNext \/ CallerNext

PoolSpec == PoolInit /\ [][PoolNext]_pool

-----------------------------------------------------------------------------
(* thread_pool.c waits for the workers so that parallelsearch_files may    *)
(* release the read lock and read, then free, what they worked on: when it *)
(* merges, every piece it handed out is finished and nobody works.         *)
MergedAllDone ==
  call = "merge" =>
    /\ done = given
    /\ \A t \in Thread : at[t] # "working" /\ data[t] = NoWork

(* A push never lands on work that another push has left there, and work   *)
(* that was pushed is never slept over: the signal found its worker, which *)
(* the wait for thread_waited in fsearch_thread_pool_init is for.          *)
NoneLost ==
  /\ \A t \in Thread : data[t] # NoWork => at[t] \in {"woken", "working"}
  /\ call = "push" /\ cur \in Thread => data[cur] = NoWork
  /\ call = "blocked" => data[cur] # NoWork

=============================================================================
