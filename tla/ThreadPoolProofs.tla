-------------------------- MODULE ThreadPoolProofs --------------------------
(***************************************************************************)
(* For every number of workers and every set of work, ThreadPool keeps its *)
(* types, loses no work and no signal, and lets parallelsearch_files merge *)
(* only when all that it handed out is finished.                           *)
(***************************************************************************)
EXTENDS ThreadPool, TLAPS

(* The workers that exist are ready for signals, but for the one that is   *)
(* being made.                                                             *)
WorkersReady ==
  /\ \A t \in Thread : waited[t] <=> at[t] \notin {"none", "new"}
  /\ call \notin {"idle", "create", "spin"} => \A t \in Thread : waited[t]
  /\ call = "idle" => (\A t \in Thread : waited[t]) \/ (\A t \in Thread : at[t] = "none")
  /\ call \in {"create", "spin"} =>
       /\ cur \in Thread
       /\ \A t \in Thread : (t < cur => waited[t]) /\ (t > cur => at[t] = "none")
  /\ call = "create" => at[cur] = "none"

(* A worker has its work from the push to its end, and is awake for it.    *)
WorkHeld ==
  /\ \A t \in Thread : data[t] # NoWork => at[t] \in {"woken", "working"}
  /\ \A t \in Thread : at[t] = "working" => data[t] # NoWork
  /\ \A t \in Thread : status[t] = "BUSY" <=> data[t] # NoWork

(* The searching thread has dealt with the workers before cur.             *)
CallerAt ==
  /\ call \in {"idle", "create", "spin", "merge"} => \A t \in Thread : data[t] = NoWork
  /\ call = "push" => \A t \in Thread : t >= cur => data[t] = NoWork
  /\ call \in {"wait", "blocked"} => \A t \in Thread : t < cur => data[t] = NoWork
  /\ call = "blocked" => cur \in Thread /\ data[cur] # NoWork

(* Nothing is finished that was not handed out, and the rest is pending.   *)
Accounted ==
  /\ done \subseteq given
  /\ \A w \in given : w \in done \/ \E t \in Thread : data[t] = w
  /\ \A t \in Thread : data[t] # NoWork => data[t] \in given

PoolInv == PoolTypeOK /\ WorkersReady /\ WorkHeld /\ CallerAt /\ Accounted

LEMMA InitInv == PoolInit => PoolInv
<1> SUFFICES ASSUME PoolInit PROVE PoolInv
  OBVIOUS
<1>1. PoolTypeOK
  BY PoolAssumptions DEF PoolInit, PoolTypeOK, Thread
<1>2. WorkersReady /\ WorkHeld /\ CallerAt /\ Accounted
  BY PoolAssumptions DEF PoolInit, Thread, WorkersReady, WorkHeld, CallerAt, Accounted
<1> QED
  BY <1>1, <1>2 DEF PoolInv

LEMMA EnterInv ==
  ASSUME PoolInv, NEW t \in Thread, Enter(t)
  PROVE  PoolInv'
<1>1. PoolTypeOK'
  BY DEF PoolInv, PoolTypeOK, Enter
<1>2. WorkersReady'
  BY DEF PoolInv, WorkersReady, PoolTypeOK, Enter
<1>3. WorkHeld'
  BY DEF PoolInv, WorkHeld, Enter
<1>4. CallerAt'
  BY DEF PoolInv, CallerAt, Enter
<1>5. Accounted'
  BY DEF PoolInv, Accounted, Enter
<1> QED
  BY <1>1, <1>2, <1>3, <1>4, <1>5 DEF PoolInv

LEMMA WakeUnaskedInv ==
  ASSUME PoolInv, NEW t \in Thread, WakeUnasked(t)
  PROVE  PoolInv'
<1>1. PoolTypeOK'
  BY DEF PoolInv, PoolTypeOK, WakeUnasked
<1>2. WorkersReady'
  BY DEF PoolInv, WorkersReady, WakeUnasked
<1>3. WorkHeld'
  BY DEF PoolInv, WorkHeld, WakeUnasked
<1>4. CallerAt'
  BY DEF PoolInv, CallerAt, WakeUnasked
<1>5. Accounted'
  BY DEF PoolInv, Accounted, WakeUnasked
<1> QED
  BY <1>1, <1>2, <1>3, <1>4, <1>5 DEF PoolInv

LEMMA StartWorkInv ==
  ASSUME PoolInv, NEW t \in Thread, StartWork(t)
  PROVE  PoolInv'
<1>1. PoolTypeOK'
  BY DEF PoolInv, PoolTypeOK, StartWork
<1>2. WorkersReady'
  BY DEF PoolInv, WorkersReady, StartWork
<1>3. WorkHeld'
  BY DEF PoolInv, WorkHeld, StartWork
<1>4. CallerAt'
  BY DEF PoolInv, CallerAt, StartWork
<1>5. Accounted'
  BY DEF PoolInv, Accounted, StartWork
<1> QED
  BY <1>1, <1>2, <1>3, <1>4, <1>5 DEF PoolInv

LEMMA SleepAgainInv ==
  ASSUME PoolInv, NEW t \in Thread, SleepAgain(t)
  PROVE  PoolInv'
<1>1. PoolTypeOK'
  BY DEF PoolInv, PoolTypeOK, SleepAgain
<1>2. WorkersReady'
  BY DEF PoolInv, WorkersReady, SleepAgain
<1>3. WorkHeld'
  BY DEF PoolInv, WorkHeld, SleepAgain
<1>4. CallerAt'
  BY DEF PoolInv, CallerAt, SleepAgain
<1>5. Accounted'
  BY DEF PoolInv, Accounted, SleepAgain
<1> QED
  BY <1>1, <1>2, <1>3, <1>4, <1>5 DEF PoolInv

LEMMA FinishWorkInv ==
  ASSUME PoolInv, NEW t \in Thread, FinishWork(t)
  PROVE  PoolInv'
<1>1. PoolTypeOK'
  BY DEF PoolInv, PoolTypeOK, WorkHeld, FinishWork
<1>2. WorkersReady'
  BY DEF PoolInv, WorkersReady, FinishWork
<1>3. WorkHeld'
  BY DEF PoolInv, WorkHeld, PoolTypeOK, FinishWork
<1>4. CallerAt'
  BY DEF PoolInv, CallerAt, FinishWork
<1>5. Accounted'
  BY DEF PoolInv, Accounted, PoolTypeOK, WorkHeld, FinishWork
<1> QED
  BY <1>1, <1>2, <1>3, <1>4, <1>5 DEF PoolInv

LEMMA BeginInv ==
  ASSUME PoolInv, Begin
  PROVE  PoolInv'
<1>1. PoolTypeOK'
  BY PoolAssumptions DEF PoolInv, PoolTypeOK, WorkersReady, Begin, Thread, workers
<1>2. WorkersReady'
  BY PoolAssumptions DEF PoolInv, WorkersReady, PoolTypeOK, Begin, Thread, workers
<1>3. WorkHeld'
  BY DEF PoolInv, WorkHeld, Begin, workers
<1>4. CallerAt'
  BY DEF PoolInv, CallerAt, Begin, workers
<1>5. Accounted'
  BY DEF PoolInv, Accounted, PoolTypeOK, CallerAt, Begin, Thread, workers
<1> QED
  BY <1>1, <1>2, <1>3, <1>4, <1>5 DEF PoolInv

LEMMA CreateThreadInv ==
  ASSUME PoolInv, CreateThread
  PROVE  PoolInv'
<1>1. PoolTypeOK'
  BY DEF PoolInv, PoolTypeOK, CreateThread
<1>2. WorkersReady'
  BY DEF PoolInv, WorkersReady, CreateThread
<1>3. WorkHeld'
  BY DEF PoolInv, WorkHeld, PoolTypeOK, WorkersReady, CreateThread
<1>4. CallerAt'
  BY DEF PoolInv, CallerAt, CreateThread
<1>5. Accounted'
  BY DEF PoolInv, Accounted, CreateThread
<1> QED
  BY <1>1, <1>2, <1>3, <1>4, <1>5 DEF PoolInv

LEMMA SpinInv ==
  ASSUME PoolInv, Spin
  PROVE  PoolInv'
<1>1. PoolTypeOK'
  BY PoolAssumptions DEF PoolInv, PoolTypeOK, WorkersReady, Spin, Thread
<1>2. WorkersReady'
  BY PoolAssumptions DEF PoolInv, WorkersReady, PoolTypeOK, Spin, Thread
<1>3. WorkHeld'
  BY DEF PoolInv, WorkHeld, Spin
<1>4. CallerAt'
  BY DEF PoolInv, CallerAt, Spin
<1>5. Accounted'
  BY DEF PoolInv, Accounted, Spin
<1> QED
  BY <1>1, <1>2, <1>3, <1>4, <1>5 DEF PoolInv

LEMMA PushInv ==
  ASSUME PoolInv, NEW w \in Work, Push(w)
  PROVE  PoolInv'
<1>1. PoolTypeOK'
  BY PoolAssumptions DEF PoolInv, PoolTypeOK, WorkersReady, Push, Thread
<1>2. WorkersReady'
  BY DEF PoolInv, WorkersReady, Push
<1>3. WorkHeld'
  BY PoolAssumptions DEF PoolInv, WorkHeld, PoolTypeOK, WorkersReady, Push, Thread
<1>4. CallerAt'
  BY DEF PoolInv, CallerAt, PoolTypeOK, Push
<1>5. Accounted'
  BY PoolAssumptions DEF PoolInv, Accounted, PoolTypeOK, WorkHeld, CallerAt, Push, Thread
<1> QED
  BY <1>1, <1>2, <1>3, <1>4, <1>5 DEF PoolInv

LEMMA EndPushInv ==
  ASSUME PoolInv, EndPush
  PROVE  PoolInv'
<1>1. PoolTypeOK'
  BY PoolAssumptions DEF PoolInv, PoolTypeOK, WorkersReady, EndPush, Thread
<1>2. WorkersReady'
  BY DEF PoolInv, WorkersReady, EndPush
<1>3. WorkHeld'
  BY DEF PoolInv, WorkHeld, EndPush
<1>4. CallerAt'
  BY DEF PoolInv, CallerAt, PoolTypeOK, EndPush, Thread
<1>5. Accounted'
  BY DEF PoolInv, Accounted, EndPush
<1> QED
  BY <1>1, <1>2, <1>3, <1>4, <1>5 DEF PoolInv

LEMMA WaitBusyInv ==
  ASSUME PoolInv, WaitBusy
  PROVE  PoolInv'
<1>1. PoolTypeOK'
  BY DEF PoolInv, PoolTypeOK, WaitBusy
<1>2. WorkersReady'
  BY DEF PoolInv, WorkersReady, WaitBusy
<1>3. WorkHeld'
  BY DEF PoolInv, WorkHeld, WaitBusy
<1>4. CallerAt'
  BY DEF PoolInv, CallerAt, PoolTypeOK, WorkHeld, WaitBusy
<1>5. Accounted'
  BY DEF PoolInv, Accounted, WaitBusy
<1> QED
  BY <1>1, <1>2, <1>3, <1>4, <1>5 DEF PoolInv

LEMMA WaitNextInv ==
  ASSUME PoolInv, WaitNext
  PROVE  PoolInv'
<1>1. PoolTypeOK'
  BY PoolAssumptions DEF PoolInv, PoolTypeOK, WorkersReady, WaitNext, Thread
<1>2. WorkersReady'
  BY DEF PoolInv, WorkersReady, WaitNext
<1>3. WorkHeld'
  BY DEF PoolInv, WorkHeld, WaitNext
<1>4. CallerAt'
  BY DEF PoolInv, CallerAt, PoolTypeOK, WorkHeld, WaitNext
<1>5. Accounted'
  BY DEF PoolInv, Accounted, WaitNext
<1> QED
  BY <1>1, <1>2, <1>3, <1>4, <1>5 DEF PoolInv

LEMMA WaitUnaskedInv ==
  ASSUME PoolInv, WaitUnasked
  PROVE  PoolInv'
<1>1. PoolTypeOK'
  BY DEF PoolInv, PoolTypeOK, WaitUnasked
<1>2. WorkersReady'
  BY DEF PoolInv, WorkersReady, WaitUnasked
<1>3. WorkHeld'
  BY DEF PoolInv, WorkHeld, WaitUnasked
<1>4. CallerAt'
  BY DEF PoolInv, CallerAt, WaitUnasked
<1>5. Accounted'
  BY DEF PoolInv, Accounted, WaitUnasked
<1> QED
  BY <1>1, <1>2, <1>3, <1>4, <1>5 DEF PoolInv

LEMMA WaitEndInv ==
  ASSUME PoolInv, WaitEnd
  PROVE  PoolInv'
<1>1. PoolTypeOK'
  BY DEF PoolInv, PoolTypeOK, WaitEnd
<1>2. WorkersReady'
  BY DEF PoolInv, WorkersReady, WaitEnd
<1>3. WorkHeld'
  BY DEF PoolInv, WorkHeld, WaitEnd
<1>4. CallerAt'
  BY PoolAssumptions DEF PoolInv, CallerAt, PoolTypeOK, WorkersReady, WaitEnd, Thread
<1>5. Accounted'
  BY DEF PoolInv, Accounted, WaitEnd
<1> QED
  BY <1>1, <1>2, <1>3, <1>4, <1>5 DEF PoolInv

LEMMA MergeInv ==
  ASSUME PoolInv, Merge
  PROVE  PoolInv'
<1>1. PoolTypeOK'
  BY DEF PoolInv, PoolTypeOK, Merge
<1>2. WorkersReady'
  BY DEF PoolInv, WorkersReady, Merge
<1>3. WorkHeld'
  BY DEF PoolInv, WorkHeld, Merge
<1>4. CallerAt'
  BY DEF PoolInv, CallerAt, Merge
<1>5. Accounted'
  BY DEF PoolInv, Accounted, Merge
<1> QED
  BY <1>1, <1>2, <1>3, <1>4, <1>5 DEF PoolInv

LEMMA StutterInv == PoolInv /\ UNCHANGED pool => PoolInv'
BY DEF PoolInv, PoolTypeOK, WorkersReady, WorkHeld, CallerAt, Accounted, pool

LEMMA NextInv == PoolInv /\ [PoolNext]_pool => PoolInv'
<1> SUFFICES ASSUME PoolInv, [PoolNext]_pool PROVE PoolInv'
  OBVIOUS
<1>1. CASE WorkerNext
  BY <1>1, EnterInv, WakeUnaskedInv, StartWorkInv, SleepAgainInv, FinishWorkInv DEF WorkerNext
<1>2. CASE CallerNext
  <2>1. CASE \E w \in Work : Push(w)
    BY <2>1, PushInv
  <2>2. CASE Begin \/ CreateThread \/ Spin \/ EndPush
    BY <2>2, BeginInv, CreateThreadInv, SpinInv, EndPushInv
  <2>3. CASE WaitBusy \/ WaitNext \/ WaitUnasked \/ WaitEnd \/ Merge
    BY <2>3, WaitBusyInv, WaitNextInv, WaitUnaskedInv, WaitEndInv, MergeInv
  <2> QED
    BY <1>2, <2>1, <2>2, <2>3 DEF CallerNext
<1>3. CASE UNCHANGED pool
  BY <1>3, StutterInv
<1> QED
  BY <1>1, <1>2, <1>3 DEF PoolNext

LEMMA InvAlways == PoolSpec => []PoolInv
BY InitInv, NextInv, PTL DEF PoolSpec

(* The pool's variables keep their types: no action of a worker or of the  *)
(* searching thread in thread_pool.c leaves a state of another kind.       *)
THEOREM PoolTypes == PoolSpec => []PoolTypeOK
<1>1. PoolInv => PoolTypeOK
  BY DEF PoolInv
<1> QED
  BY <1>1, InvAlways, PTL

(* fsearch_thread_pool_push_data never overwrites work, no worker sleeps   *)
(* over what was pushed to it, and fsearch_thread_pool_wait_for_thread     *)
(* never waits for a worker that has nothing to finish.                    *)
THEOREM NothingLost == PoolSpec => []NoneLost
<1>1. PoolInv => NoneLost
  BY DEF PoolInv, PoolTypeOK, WorkHeld, CallerAt, NoneLost, Thread
<1> QED
  BY <1>1, InvAlways, PTL

(* When parallelsearch_files leaves its loop over                          *)
(* fsearch_thread_pool_wait_for_thread, all that it pushed is finished and *)
(* no worker reads the buffer any more: it may release the lock.           *)
THEOREM MergeAfterAll == PoolSpec => []MergedAllDone
<1>1. PoolInv => MergedAllDone
  <2> SUFFICES ASSUME PoolInv, call = "merge" PROVE done = given /\ \A t \in Thread : at[t] # "working" /\ data[t] = NoWork
    BY DEF MergedAllDone
  <2>1. \A t \in Thread : data[t] = NoWork
    BY DEF PoolInv, CallerAt
  <2>2. \A t \in Thread : at[t] # "working"
    BY <2>1 DEF PoolInv, WorkHeld
  <2>3. given \subseteq done
    BY <2>1, PoolAssumptions DEF PoolInv, PoolTypeOK, Accounted
  <2> QED
    BY <2>1, <2>2, <2>3 DEF PoolInv, Accounted
<1> QED
  BY <1>1, InvAlways, PTL

=============================================================================
