---------------------------- MODULE SearchProofs ----------------------------
(***************************************************************************)
(* The search uses the pool as ThreadPool says, so what ThreadPoolProofs   *)
(* shows of the pool holds of a search in any buffer.                      *)
(***************************************************************************)
EXTENDS Search, ThreadPoolProofs

LEMMA CallerStepIsPoolStep == CallerStep => CallerNext \/ UNCHANGED pool
<1> SUFFICES ASSUME CallerStep PROVE CallerNext \/ UNCHANGED pool
  OBVIOUS
<1>1. CASE BeginRound
  BY <1>1 DEF BeginRound, CallerNext
<1>2. CASE PushPiece
  <2>1. Push(cur) /\ cur \in Work
    BY <1>2 DEF PushPiece, Push
  <2> QED
    BY <2>1 DEF CallerNext
<1>3. CASE FailPiece
  BY <1>3 DEF FailPiece
<1>4. CASE AllPushed
  BY <1>4 DEF AllPushed, CallerNext
<1>5. CASE CreateThread \/ Spin \/ WaitBusy \/ WaitNext \/ WaitEnd
  BY <1>5 DEF CallerNext
<1>6. CASE \E late \in BOOLEAN : MergeRound(late)
  <2>1. Merge
    BY <1>6 DEF MergeRound
  <2> QED
    BY <2>1 DEF CallerNext
<1> QED
  BY <1>1, <1>2, <1>3, <1>4, <1>5, <1>6 DEF CallerStep

LEMMA NextIsPoolNext == [Next]_vars => [PoolNext]_pool
<1> SUFFICES ASSUME [Next]_vars PROVE PoolNext \/ UNCHANGED pool
  OBVIOUS
<1>1. CASE Ask
  BY <1>1 DEF Ask
<1>2. CASE CallerStep
  BY <1>2, CallerStepIsPoolStep DEF PoolNext
<1>3. CASE Unasked
  BY <1>3 DEF Unasked, PoolNext, CallerNext, WorkerNext
<1>4. CASE \E t \in Thread : WorkerStep(t)
  BY <1>4 DEF WorkerStep, SearchPiece, PoolNext, WorkerNext
<1>5. CASE UNCHANGED vars
  BY <1>5 DEF vars
<1> QED
  BY <1>1, <1>2, <1>3, <1>4, <1>5 DEF Next

(* parallelsearch_files, with _doSearch around it, calls the pool in the   *)
(* order that PoolSpec describes, whatever the buffer and the rules.       *)
THEOREM SearchUsesPool == Spec => PoolSpec
<1>1. Init => PoolInit
  BY DEF Init
<1> QED
  BY <1>1, NextIsPoolNext, PTL DEF Spec, PoolSpec

(* A search merges only what all of its pieces have found, and no piece is *)
(* still searched when the read lock is released.                          *)
THEOREM SearchMergesAll == Spec => []MergedAllDone
BY SearchUsesPool, MergeAfterAll, PTL

(* Each piece of a search reaches a worker that is awake for it.           *)
THEOREM SearchLosesNothing == Spec => []NoneLost
BY SearchUsesPool, NothingLost, PTL

=============================================================================
