-------------------------- MODULE VfsMonitorProofs --------------------------
(***************************************************************************)
(* The kernel module at work uses the event buffer as EventMerge says, so  *)
(* what EventMergeProofs shows of the buffer holds with the file system,   *)
(* the listener and the unloading around it.                               *)
(***************************************************************************)
EXTENDS VfsMonitor, EventMergeProofs

-----------------------------------------------------------------------------
LEMMA OperateIsHandler ==
  ASSUME NEW t \in Thread, Operate(t)
  PROVE  Handler(t)
BY DEF Operate, Create, Unlink, Rename, Handler

LEMMA MonitorStepIsBufferStep == [MonitorNext]_allVars => [Next]_vars
<1> SUFFICES ASSUME MonitorNext \/ UNCHANGED allVars PROVE Next \/ UNCHANGED vars
  OBVIOUS
<1>1. ASSUME NEW t \in Thread, Operate(t) PROVE Next
  BY <1>1, OperateIsHandler DEF Next
<1>2. ASSUME NEW t \in Thread, ReportRest(t) PROVE Next
  BY <1>2 DEF ReportRest, Next
<1>3. ASSUME NEW c \in Context, Deliver(c) \/ EndNotify(c) PROVE Next
  BY <1>3 DEF Deliver, EndNotify, Notify, Next
<1>4. CASE Expire \/ Callback
  BY <1>4 DEF Expire, Callback, Next
<1>5. CASE Unload
  BY <1>5 DEF Unload, Unregister, ClearupSetQuit, ClearupDone, CleanupGenl, CleanupCache, Next
<1>6. CASE UNCHANGED allVars
  BY <1>6 DEF allVars
<1> QED BY <1>1, <1>2, <1>3, <1>4, <1>5, <1>6 DEF MonitorNext

(* File operations, their locks, the listener and rmmod drive the buffer   *)
(* only in ways that EventMerge already allows.                            *)
THEOREM MonitorUsesBuffer == MonitorSpec => Spec
<1>1. MonitorInit => Init
  BY DEF MonitorInit
<1> QED BY <1>1, MonitorStepIsBufferStep, PTL DEF MonitorSpec, Spec

THEOREM MonitorInvariance == MonitorSpec => []IInv
BY MonitorUsesBuffer, Invariance, PTL

-----------------------------------------------------------------------------
(* Every event and every rest to be submitted names a path of a file: the  *)
(* probes of VfsMonitor report nothing else.                               *)
Named(S, m) == \A i \in S : m[i].path \in Path

Paths ==
  /\ Named(list \cup Batched, ev)
  /\ \A t \in Thread : rest[t] # Done => rest[t].path \in Path

LEMMA PickNamed ==
  ASSUME NEW l \in SUBSET EventId, NEW m \in [EventId -> Event], NEW n,
         NEW t \in Context, batch \in [Context -> SUBSET EventId],
         Named(l \cup Batched, m), PickEvents(t, l, m, n)
  PROVE  Named(list' \cup Batched', ev')
<1> DEFINE P == Picked(l, m)
<1>1. list' = l \ P /\ ev' = Unpaired(m, P) /\ batch' = [batch EXCEPT ![t] = P]
  BY DEF PickEvents
<1>2. P \subseteq l
  BY DEF Picked
<1>3. \A i \in EventId : (ev')[i].path = m[i].path
  <2> DEFINE left == {m[i].pair : i \in {j \in P : m[j].act = "rename_from"}}
  <2>1. ev' = [i \in EventId |-> IF ~quit /\ i \in left THEN [m[i] EXCEPT !.pair = Null] ELSE m[i]]
    BY <1>1 DEF Unpaired
  <2> HIDE DEF left
  <2>2. \A i \in EventId : [m[i] EXCEPT !.pair = Null].path = m[i].path
    BY DEF Event
  <2> QED BY <2>1, <2>2
<1> HIDE DEF P
<1>4. list' \cup Batched' \subseteq l \cup Batched
  BY <1>1, <1>2 DEF Batched
<1>5. l \cup Batched \subseteq EventId
  BY DEF Batched
<1> QED BY <1>3, <1>4, <1>5 DEF Named

LEMMA CheckNamed ==
  ASSUME NEW l \in SUBSET EventId, NEW m \in [EventId -> Event], NEW n,
         NEW t \in Context, batch \in [Context -> SUBSET EventId],
         Named(l \cup Batched, m), CheckEvents(t, l, m, n)
  PROVE  Named(list' \cup Batched', ev')
<1>1. CASE Keep(l, m, n)
  BY <1>1 DEF Keep, Batched
<1>2. CASE PickEvents(t, l, m, n)
  BY <1>2, PickNamed
<1> QED BY <1>1, <1>2 DEF CheckEvents

LEMMA IncomingPath ==
  ASSUME NEW act \in Action, NEW path \in Path \cup {NoPath}, NEW c \in Nat,
         list \in SUBSET EventId
  PROVE  Incoming(act, path, c) \in Event /\ Incoming(act, path, c).path = path
<1> DEFINE same == {i \in list : ev[i].cookie = c}
           p == Partner(act, c)
<1>1. p \in EventId \cup {Null}
  <2>1. same \subseteq EventId
    OBVIOUS
  <2>2. same # {} => Min(same) \in EventId
    <3> HIDE DEF same
    <3> QED BY <2>1, MinExists
  <2> QED BY <2>2 DEF Partner
<1> HIDE DEF p
<1>2. Incoming(act, path, c) = IF act = "rename_to" /\ p = Null
                               THEN Fresh("new", path, 0)
                               ELSE [Fresh(act, path, c) EXCEPT !.pair = p]
  BY DEF Incoming, p
<1> QED BY <1>1, <1>2 DEF Fresh, Event, Action

LEMMA MergeNamed ==
  ASSUME IInv, NEW t \in Thread, NEW act \in Action, NEW path \in Path, NEW c \in Nat,
         Named(list \cup Batched, ev), DoEventMerge(t, act, path, c)
  PROVE  Named(list' \cup Batched', ev')
<1> DEFINE id == alloc + 1
           cur == Incoming(act, path, c)
           mem == Linked(id, cur)
           hits == {i \in list : Merges(mem[i], cur)}
           hit == Max(hits)
           rt == Retag(mem[hit], cur)
           after == Freed(Retagged(mem, rt), {hit, id})
<1>1. /\ alloc < MaxEvent
      /\ \/ hits = {} /\ CheckEvents(t, list \cup {id}, mem, events_number + 1)
         \/ hits # {} /\ CheckEvents(t, list \ {hit}, after, events_number - 1)
  BY DEF DoEventMerge
<1>2. /\ list \in SUBSET EventId /\ Batched \in SUBSET EventId /\ id \in EventId
      /\ id \notin list \cup Batched /\ list \cap Batched = {}
      /\ ev \in [EventId -> Event] /\ batch \in [Context -> SUBSET EventId]
  BY <1>1, Assumptions DEF IInv, Good, Typed, Owned, Arrays, EventId
<1>3. cur \in Event /\ cur.path = path
  BY <1>2, IncomingPath
<1> HIDE DEF id, cur
<1>4. mem \in [EventId -> Event] /\ Named(list \cup {id} \cup Batched, mem)
  <2>1. mem = [i \in EventId |-> IF i = id THEN cur
                                ELSE IF cur.pair # Null /\ i = cur.pair
                                     THEN [ev[i] EXCEPT !.pair = id] ELSE ev[i]]
    BY DEF Linked
  <2>2. \A i \in EventId : [ev[i] EXCEPT !.pair = id] \in Event
                           /\ [ev[i] EXCEPT !.pair = id].path = ev[i].path
    BY <1>2 DEF Event
  <2> HIDE DEF mem
  <2>3. mem \in [EventId -> Event]
    BY <2>1, <2>2, <1>2, <1>3
  <2>4. mem[id].path = path /\ \A i \in EventId \ {id} : mem[i].path = ev[i].path
    BY <2>1, <2>2, <1>2, <1>3
  <2> QED BY <2>3, <2>4, <1>2 DEF Named
<1> HIDE DEF mem
<1>5. t \in Context
  BY DEF Context
<1>6. CASE hits = {}
  <2>1. CheckEvents(t, list \cup {id}, mem, events_number + 1)
    BY <1>1, <1>6
  <2>2. list \cup {id} \in SUBSET EventId
    BY <1>2
  <2> QED BY <2>1, <2>2, <1>2, <1>4, <1>5, CheckNamed
<1>7. CASE hits # {}
  <2>1. CheckEvents(t, list \ {hit}, after, events_number - 1)
    BY <1>1, <1>7
  <2>2. hit \in list
    <3>1. hits \subseteq EventId /\ hits \subseteq list
      BY <1>2
    <3> HIDE DEF hits
    <3> QED BY <1>7, <3>1, MaxExists
  <2> HIDE DEF hit
  <2>3. rt.of \in EventId \cup {Null} /\ rt.as \in Action \cup {"free"}
    <3>1. mem[hit] \in Event
      BY <2>2, <1>2, <1>4
    <3> QED BY <3>1, <1>3, RetagKinds DEF Action
  <2> HIDE DEF rt
  <2>4. after \in [EventId -> Event] /\ Named((list \ {hit}) \cup Batched, after)
    <3> DEFINE ret == Retagged(mem, rt)
    <3>1. ret = [i \in EventId |-> IF i = rt.of THEN [mem[i] EXCEPT !.act = rt.as, !.cookie = 0]
                                   ELSE mem[i]]
      BY DEF Retagged
    <3>2. \A i \in EventId : /\ [mem[i] EXCEPT !.act = rt.as, !.cookie = 0] \in Event
                             /\ [mem[i] EXCEPT !.act = rt.as, !.cookie = 0].path = mem[i].path
      BY <1>4, <2>3 DEF Event
    <3> HIDE DEF ret
    <3>3. ret \in [EventId -> Event] /\ \A i \in EventId : ret[i].path = mem[i].path
      BY <3>1, <3>2, <1>4
    <3>4. after = [i \in EventId |-> IF i \in {hit, id} THEN Free ELSE ret[i]]
      BY DEF Freed, ret
    <3>5. Free \in Event
      BY DEF Free, Event, Null
    <3> HIDE DEF after
    <3>6. after \in [EventId -> Event]
      BY <3>3, <3>4, <3>5
    <3>7. \A i \in (list \ {hit}) \cup Batched : i \in EventId /\ i \notin {hit, id}
      BY <2>2, <1>2
    <3>8. \A i \in (list \ {hit}) \cup Batched : after[i].path = mem[i].path
      BY <3>3, <3>4, <3>7
    <3> QED BY <3>6, <3>8, <1>4 DEF Named
  <2> HIDE DEF after
  <2>5. list \ {hit} \in SUBSET EventId
    BY <1>2
  <2> QED BY <2>1, <2>4, <2>5, <1>2, <1>5, CheckNamed
<1> QED BY <1>6, <1>7

-----------------------------------------------------------------------------
(* Types                                                                   *)

MonitorInv ==
  /\ IInv /\ Paths
  /\ fs \in SUBSET Path /\ view \in SUBSET Path
  /\ held \in [Thread -> SUBSET Path]
  /\ froms \in SUBSET (Nat \X Path) /\ young \in SUBSET Thread
  /\ phase \in {"loaded", "sleeping", "unregistered", "quitting", "drained", "genl_gone", "unloaded"}

LEMMA FreshPath ==
  ASSUME NEW act, NEW p, NEW c
  PROVE  Fresh(act, p, c).path = p
BY DEF Fresh

LEMMA OperatePaths ==
  ASSUME IInv, Paths, NEW t \in Thread, Operate(t)
  PROVE  Paths'
<1>1. /\ Named(list \cup Batched, ev) /\ \A u \in Thread : rest[u] # Done => rest[u].path \in Path
      /\ cookie \in Nat /\ rest \in [Thread -> Event]
  BY DEF Paths, IInv, Good, Typed
<1>2. ASSUME NEW p \in Path, NEW act \in {"new", "delete"}, Submit(t, act, p) PROVE Paths'
  <2>1. DoEventMerge(t, act, p, 0) /\ rest' = rest
    BY <1>2 DEF Submit
  <2> QED BY <2>1, <1>1, MergeNamed DEF Paths, Action
<1>3. ASSUME NEW p \in Path, SubmitTwice(t, p) PROVE Paths'
  <2>1. DoEventMerge(t, "new", p, 0) /\ rest' = [rest EXCEPT ![t] = Fresh("new", p, 0)]
    BY <1>3 DEF SubmitTwice
  <2>2. Named(list' \cup Batched', ev')
    BY <2>1, <1>1, MergeNamed DEF Action
  <2> QED BY <2>1, <2>2, <1>1, FreshPath DEF Paths
<1>4. ASSUME NEW p \in Path, NEW q \in Path, SubmitRename(t, p, q) PROVE Paths'
  <2>1. /\ DoEventMerge(t, "rename_from", p, cookie + 1)
        /\ rest' = [rest EXCEPT ![t] = Fresh("rename_to", q, cookie + 1)]
    BY <1>4 DEF SubmitRename
  <2>2. Named(list' \cup Batched', ev')
    <3>1. cookie + 1 \in Nat
      BY <1>1
    <3> QED BY <2>1, <3>1, <1>1, MergeNamed DEF Action
  <2> QED BY <2>1, <2>2, <1>1, FreshPath DEF Paths
<1> QED BY <1>2, <1>3, <1>4 DEF Operate, Create, Unlink, Rename

LEMMA RestPaths ==
  ASSUME IInv, Paths, NEW t \in Thread, SubmitRest(t)
  PROVE  Paths'
<1>1. /\ rest[t] # Done /\ rest' = [rest EXCEPT ![t] = Done]
      /\ DoEventMerge(t, rest[t].act, rest[t].path, rest[t].cookie)
  BY DEF SubmitRest
<1>2. /\ rest \in [Thread -> Event] /\ rest[t].act \in Action /\ rest[t].cookie \in Nat
      /\ rest[t].path \in Path
  BY <1>1, EventFields DEF IInv, Good, Typed, Pending, Action, Paths
<1>3. Named(list' \cup Batched', ev')
  BY <1>1, <1>2, MergeNamed DEF Paths
<1> QED BY <1>1, <1>2, <1>3 DEF Paths

LEMMA SendPaths ==
  ASSUME IInv, Paths, NEW c \in Context, Send(c)
  PROVE  /\ Paths' /\ Min(batch[c]) \in Batched
         /\ ev[Min(batch[c])] \in Event /\ ev[Min(batch[c])].path \in Path
<1> DEFINE x == Min(batch[c])
<1>1. /\ batch[c] # {} /\ batch' = [batch EXCEPT ![c] = @ \ {x}] /\ ev' = Freed(ev, {x})
      /\ list' = list /\ rest' = rest
  BY DEF Send
<1>2. /\ batch \in [Context -> SUBSET EventId] /\ ev \in [EventId -> Event]
      /\ \A d, e \in Context : d # e => batch[d] \cap batch[e] = {}
      /\ list \cap Batched = {} /\ list \subseteq EventId
  BY DEF IInv, Good, Typed, Owned, Arrays
<1>3. x \in batch[c]
  BY <1>1, <1>2, MinExists
<1> HIDE DEF x
<1>4. x \in Batched /\ x \in EventId
  BY <1>2, <1>3 DEF Batched
<1>5. Batched' = Batched \ {x}
  BY <1>1, <1>2, <1>3 DEF Batched
<1>6. \A i \in EventId \ {x} : ev'[i] = ev[i]
  BY <1>1 DEF Freed
<1>7. \A i \in list' \cup Batched' : i \in EventId \ {x} /\ i \in list \cup Batched
  BY <1>1, <1>2, <1>4, <1>5 DEF Batched
<1>8. Paths'
  BY <1>1, <1>6, <1>7 DEF Paths, Named
<1> QED BY <1>2, <1>4, <1>8 DEF Paths, Named, x

LEMMA CallbackPaths ==
  ASSUME IInv, Paths, TimerCallback
  PROVE  Paths'
<1>1. /\ pc[Timer] = "expired" /\ PickEvents(Timer, list, ev, events_number) /\ rest' = rest
  BY DEF TimerCallback
<1>2. /\ list \in SUBSET EventId /\ ev \in [EventId -> Event]
      /\ batch \in [Context -> SUBSET EventId]
  BY DEF IInv, Good, Typed, Arrays
<1>3. Timer \in Context
  BY DEF Context
<1>4. Named(list' \cup Batched', ev')
  BY <1>1, <1>2, <1>3, PickNamed DEF Paths
<1> QED BY <1>1, <1>4 DEF Paths

LEMMA HandleTypes ==
  ASSUME NEW v \in SUBSET Path, NEW f \in SUBSET (Nat \X Path),
         NEW e \in Event, e.path \in Path
  PROVE  LET s == HandleMsg([view |-> v, froms |-> f], e)
         IN  s.view \in SUBSET Path /\ s.froms \in SUBSET (Nat \X Path)
<1> DEFINE s0 == [view |-> v, froms |-> f]
           src == {x[2] : x \in {y \in s0.froms : y[1] = e.cookie}}
           s == HandleMsg(s0, e)
<1>1. s0.view = v /\ s0.froms = f /\ s0 \in [view : SUBSET Path, froms : SUBSET (Nat \X Path)]
  OBVIOUS
<1>2. src \in SUBSET Path /\ e.cookie \in Nat
  BY <1>1, EventFields
<1>3. s = CASE e.act = "new"         -> [s0 EXCEPT !.view = @ \cup {e.path}]
            [] e.act = "delete"      -> [s0 EXCEPT !.view = @ \ {e.path}]
            [] e.act = "rename_from" -> [s0 EXCEPT !.froms = @ \cup {<<e.cookie, e.path>>}]
            [] e.act = "rename_to"   ->
                 [view |-> IF src # {} /\ src \subseteq s0.view
                           THEN (s0.view \ src) \cup {e.path} ELSE s0.view,
                  froms |-> s0.froms \ ({e.cookie} \X src)]
            [] OTHER -> s0
  BY DEF HandleMsg
<1> HIDE DEF src, s
<1>4. s.view \in SUBSET Path /\ s.froms \in SUBSET (Nat \X Path)
  BY <1>1, <1>2, <1>3
<1> QED BY <1>4 DEF s

LEMMA OperateTypes ==
  ASSUME MonitorInv, IInv', NEW t \in Thread, Operate(t)
  PROVE  MonitorInv'
<1>1. Paths'
  BY OperatePaths DEF MonitorInv
<1>2. PICK p \in Path, q \in Path : Create(t, p) \/ Unlink(t, p) \/ Rename(t, p, q)
  BY DEF Operate
<1>3. /\ fs' \in SUBSET Path /\ held' \in [Thread -> SUBSET Path]
      /\ UNCHANGED <<view, froms, phase>> /\ young' \in SUBSET Thread
  BY <1>2 DEF Create, Unlink, Rename, Locking, Aging, MonitorInv
<1> QED BY <1>1, <1>3 DEF MonitorInv

LEMMA RestTypes ==
  ASSUME MonitorInv, IInv', NEW t \in Thread, ReportRest(t)
  PROVE  MonitorInv'
<1>1. Paths'
  BY RestPaths DEF MonitorInv, ReportRest
<1>2. /\ held' \in [Thread -> SUBSET Path] /\ UNCHANGED <<fs, view, froms, phase>>
      /\ young' \in SUBSET Thread
  BY DEF ReportRest, Locking, Aging, MonitorInv
<1> QED BY <1>1, <1>2 DEF MonitorInv

LEMMA DeliverTypes ==
  ASSUME MonitorInv, IInv', NEW c \in Context, Deliver(c)
  PROVE  MonitorInv'
<1> DEFINE e == ev[Min(batch[c])]
<1>1. Paths' /\ e \in Event /\ e.path \in Path
  BY SendPaths DEF Deliver, MonitorInv
<1> HIDE DEF e
<1>2. /\ view' = HandleMsg([view |-> view, froms |-> froms], e).view
      /\ froms' = HandleMsg([view |-> view, froms |-> froms], e).froms
      /\ UNCHANGED <<fs, held, phase, young>>
  BY DEF Deliver, e
<1>3. view' \in SUBSET Path /\ froms' \in SUBSET (Nat \X Path)
  BY <1>1, <1>2, HandleTypes DEF MonitorInv
<1> QED BY <1>1, <1>2, <1>3 DEF MonitorInv

(* A step that moves no event and submits none.                            *)
LEMMA StillPaths ==
  ASSUME Paths, UNCHANGED <<ev, list, batch, rest>>
  PROVE  Paths'
BY DEF Paths, Named, Batched

LEMMA EndNotifyTypes ==
  ASSUME MonitorInv, IInv', NEW c \in Context, EndNotify(c)
  PROVE  MonitorInv'
<1>1. UNCHANGED <<ev, list, batch, rest>>
  BY DEF EndNotify, NotifyRead, NotifyRearm, bufferVars
<1>2. Paths'
  BY <1>1, StillPaths DEF MonitorInv
<1>3. UNCHANGED <<fs, view, froms, phase>> /\ young' \in SUBSET Thread
  BY DEF EndNotify, Aging, MonitorInv
<1>4. held' \in [Thread -> SUBSET Path]
  BY DEF EndNotify, Locking, MonitorInv
<1> QED BY <1>2, <1>3, <1>4 DEF MonitorInv

LEMMA MonitorInitTypes == MonitorInit => MonitorInv
<1> SUFFICES ASSUME MonitorInit PROVE MonitorInv
  OBVIOUS
<1>1. IInv /\ Init
  BY InitGood DEF MonitorInit
<1>2. Paths
  BY <1>1 DEF Init, Paths, Named, Batched
<1> QED BY <1>1, <1>2, MonitorAssumptions DEF MonitorInit, MonitorInv

LEMMA MonitorNextTypes == MonitorInv /\ [MonitorNext]_allVars => MonitorInv'
<1> SUFFICES ASSUME MonitorInv, MonitorNext \/ UNCHANGED allVars PROVE MonitorInv'
  OBVIOUS
<1>1. IInv'
  BY MonitorStepIsBufferStep, NextGood DEF MonitorInv
<1>2. ASSUME NEW t \in Thread, Operate(t) PROVE MonitorInv'
  BY <1>1, <1>2, OperateTypes
<1>3. ASSUME NEW t \in Thread, ReportRest(t) PROVE MonitorInv'
  BY <1>1, <1>3, RestTypes
<1>4. ASSUME NEW c \in Context, Deliver(c) \/ EndNotify(c) PROVE MonitorInv'
  BY <1>1, <1>4, DeliverTypes, EndNotifyTypes
<1>5. CASE Expire
  <2>1. UNCHANGED <<ev, list, batch, rest>>
    BY <1>5 DEF Expire, TimerExpire, bufferVars
  <2>2. Paths'
    BY <2>1, StillPaths DEF MonitorInv
  <2> QED BY <1>1, <1>5, <2>2 DEF Expire, MonitorInv
<1>6. CASE Callback
  <2>1. Paths'
    BY <1>6, CallbackPaths DEF Callback, MonitorInv
  <2> QED BY <1>1, <1>6, <2>1 DEF Callback, monitorVars, MonitorInv
<1>7. CASE Unload
  <2>1. UNCHANGED <<ev, list, batch, rest, fs, held, view, froms, young>>
    BY <1>7 DEF Unload, Unregister, ClearupSetQuit, ClearupDone, CleanupGenl, CleanupCache,
                SetQuit, vars, bufferVars
  <2>2. Paths'
    BY <2>1, StillPaths DEF MonitorInv
  <2>3. phase' \in {"sleeping", "unregistered", "quitting", "drained", "genl_gone", "unloaded"}
    BY <1>7 DEF Unload, Unregister, ClearupSetQuit, ClearupDone, CleanupGenl, CleanupCache
  <2> QED BY <1>1, <2>1, <2>2, <2>3 DEF MonitorInv
<1>8. CASE UNCHANGED allVars
  <2>1. Paths'
    BY <1>8, StillPaths DEF allVars, vars, MonitorInv
  <2> QED BY <1>1, <1>8, <2>1 DEF allVars, monitorVars, MonitorInv
<1> QED BY <1>2, <1>3, <1>4, <1>5, <1>6, <1>7, <1>8 DEF MonitorNext

(* The file system, the locks, the listener's files and sources and the    *)
(* stages of the unloading keep their types: whatever is sent names a path *)
(* of a file.                                                              *)
THEOREM MonitorTypes == MonitorSpec => []MonitorTypeOK
<1>1. MonitorSpec => []MonitorInv
  BY MonitorInitTypes, MonitorNextTypes, PTL DEF MonitorSpec
<1>2. MonitorSpec => []TypeOK
  BY MonitorUsesBuffer, TypeCorrect, PTL
<1>3. MonitorInv /\ TypeOK => MonitorTypeOK
  BY DEF MonitorInv, MonitorTypeOK
<1> QED BY <1>1, <1>2, <1>3, PTL

-----------------------------------------------------------------------------
(* Waking up                                                               *)

(* The timer is pending, or a context is past the spinlock and about to    *)
(* look at events_number, or to take the lock.                             *)
Awake == list # {} => armed \/ \E c \in Context : pc[c] # "idle"

(* check_events in an idle thread, on a list that has grown by one event   *)
(* or shrunk by one.                                                       *)
LEMMA CheckAwake ==
  ASSUME IInv, Awake, NEW t \in Thread, pc[t] = "idle",
         NEW l \in SUBSET EventId, NEW m, NEW n, n = Cardinality(l),
         n > 1 => list # {}, CheckEvents(t, l, m, n)
  PROVE  Awake'
<1>1. t \in Context /\ pc \in [Context -> {"idle", "expired", "notify", "rearm"}]
  BY DEF Context, IInv, Arrays
<1>2. CASE n = 0 /\ Keep(l, m, n)
  <2>1. IsFiniteSet(l)
    BY FiniteLists
  <2>2. l = {}
    BY <1>2, <2>1, FS_EmptySet
  <2> QED BY <1>2, <2>2 DEF Keep, Awake
<1>3. CASE n = 1 /\ armed' = TRUE
  BY <1>3 DEF Awake
<1>4. CASE n > 1 /\ UNCHANGED armed /\ Keep(l, m, n)
  BY <1>4 DEF Keep, Awake
<1>5. CASE n > 1 /\ UNCHANGED armed /\ PickEvents(t, l, m, n)
  <2> DEFINE P == Picked(l, m)
  <2>1. pc' = [pc EXCEPT ![t] = IF P = {} THEN "idle" ELSE "notify"]
    BY <1>5 DEF PickEvents
  <2>2. armed \/ \E c \in Context : pc[c] # "idle"
    BY <1>5 DEF Awake
  <2> HIDE DEF P
  <2>3. CASE P = {}
    BY <2>1, <2>2, <2>3, <1>1, <1>5 DEF Awake
  <2>4. CASE P # {}
    BY <2>1, <2>4, <1>1 DEF Awake
  <2> QED BY <2>3, <2>4
<1> QED BY <1>2, <1>3, <1>4, <1>5 DEF CheckEvents

LEMMA MergeAwake ==
  ASSUME IInv, Awake, NEW t \in Thread, pc[t] = "idle", NEW act, NEW path, NEW c,
         DoEventMerge(t, act, path, c)
  PROVE  Awake'
<1> DEFINE id == alloc + 1
           cur == Incoming(act, path, c)
           mem == Linked(id, cur)
           hits == {i \in list : Merges(mem[i], cur)}
           hit == Max(hits)
           after == Freed(Retagged(mem, Retag(mem[hit], cur)), {hit, id})
<1>1. /\ alloc < MaxEvent
      /\ \/ hits = {} /\ CheckEvents(t, list \cup {id}, mem, events_number + 1)
         \/ hits # {} /\ CheckEvents(t, list \ {hit}, after, events_number - 1)
  BY DEF DoEventMerge
<1>2. /\ list \in SUBSET EventId /\ id \in EventId /\ id \notin list
      /\ events_number = Cardinality(list)
  BY <1>1, Assumptions DEF IInv, Good, Typed, Owned, EventId
<1>3. IsFiniteSet(list) /\ events_number \in Nat
  BY <1>2, FiniteLists
<1> HIDE DEF mem, id, after, hit
<1>4. CASE hits = {}
  <2>1. Cardinality(list \cup {id}) = events_number + 1
    BY <1>2, <1>3, FS_AddElement
  <2>2. CheckEvents(t, list \cup {id}, mem, events_number + 1)
    BY <1>1, <1>4
  <2>3. events_number + 1 > 1 => list # {}
    BY <1>2, <1>3, FS_EmptySet
  <2>4. list \cup {id} \in SUBSET EventId
    BY <1>2
  <2> QED BY <2>1, <2>2, <2>3, <2>4, CheckAwake
<1>5. CASE hits # {}
  <2>1. CheckEvents(t, list \ {hit}, after, events_number - 1)
    BY <1>1, <1>5
  <2>2. hit \in list
    <3>1. hits \subseteq EventId /\ hits \subseteq list
      BY <1>2
    <3> HIDE DEF hits
    <3> QED BY <1>5, <3>1, MaxExists DEF hit
  <2>3. Cardinality(list \ {hit}) = events_number - 1
    BY <2>2, <1>2, <1>3, FS_RemoveElement
  <2>4. list \ {hit} \in SUBSET EventId /\ list # {}
    BY <2>2, <1>2
  <2> QED BY <2>1, <2>3, <2>4, CheckAwake
<1> QED BY <1>4, <1>5

LEMMA CallbackAwake ==
  ASSUME IInv, TimerCallback, \A t \in Thread : rest[t].act # "rename_to"
  PROVE  Awake'
<1> DEFINE P == Picked(list, ev)
<1>1. list' = list \ P /\ pc' = [pc EXCEPT ![Timer] = IF P = {} THEN "idle" ELSE "notify"]
  BY DEF TimerCallback, PickEvents
<1>2. /\ Timer \in Context /\ pc \in [Context -> {"idle", "expired", "notify", "rearm"}]
      /\ list \in SUBSET EventId
  BY DEF Context, IInv, Arrays, Good, Typed
<1>3. CASE P = {}
  <2>1. list = {} \/ \A i \in list : ~Sendable(ev[i])
    BY <1>2, <1>3, PickedNone
  <2>2. \A i \in list : Sendable(ev[i])
    BY DEF IInv, Good, Awaited
  <2> HIDE DEF P
  <2> QED BY <2>1, <2>2, <1>1, <1>3 DEF Awake
<1>4. CASE P # {}
  <2> HIDE DEF P
  <2> QED BY <1>1, <1>2, <1>4 DEF Awake
<1> QED BY <1>3, <1>4

LEMMA NotifyAwake ==
  ASSUME IInv, Awake, NEW c \in Context, NotifyRead(c) \/ NotifyRearm(c)
  PROVE  Awake'
<1>1. pc \in [Context -> {"idle", "expired", "notify", "rearm"}] /\ list' = list
  BY DEF IInv, Arrays, NotifyRead, NotifyRearm, bufferVars
<1>2. CASE NotifyRead(c)
  <2>1. /\ pc' = [pc EXCEPT ![c] = IF events_number >= 1 THEN "rearm" ELSE "idle"]
        /\ armed' = armed
    BY <1>2 DEF NotifyRead
  <2>2. list # {} => events_number >= 1
    <3>1. IsFiniteSet(list) /\ events_number = Cardinality(list) /\ Cardinality(list) \in Nat
      BY FiniteLists DEF IInv, Good, Typed
    <3> QED BY <3>1, FS_EmptySet
  <2> QED BY <1>1, <2>1, <2>2 DEF Awake
<1>3. CASE NotifyRearm(c)
  BY <1>3 DEF NotifyRearm, Awake
<1> QED BY <1>2, <1>3

LEMMA NextAwake ==
  ASSUME Timing = "rename", IInv, Awake, [MonitorNext]_allVars
  PROVE  Awake'
<1>1. ASSUME NEW t \in Thread, Operate(t) PROVE Awake'
  BY <1>1, MergeAwake DEF Operate, Create, Unlink, Rename, Submit, SubmitTwice, SubmitRename, Ready
<1>2. ASSUME NEW t \in Thread, ReportRest(t) PROVE Awake'
  BY <1>2, MergeAwake DEF ReportRest, SubmitRest
<1>3. ASSUME NEW c \in Context, Deliver(c) PROVE Awake'
  BY <1>3 DEF Deliver, Send, Awake
<1>4. ASSUME NEW c \in Context, EndNotify(c) PROVE Awake'
  BY <1>4, NotifyAwake DEF EndNotify
<1>5. CASE Expire
  <2>1. Timer \in Context /\ pc \in [Context -> {"idle", "expired", "notify", "rearm"}]
    BY DEF Context, IInv, Arrays
  <2>2. pc' = [pc EXCEPT ![Timer] = "expired"]
    BY <1>5 DEF Expire, TimerExpire
  <2> QED BY <2>1, <2>2 DEF Awake
<1>6. CASE Callback
  BY <1>6, CallbackAwake DEF Callback
<1>7. CASE Unload \/ UNCHANGED allVars
  <2>1. UNCHANGED <<list, armed, pc>>
    BY <1>7 DEF Unload, Unregister, ClearupSetQuit, ClearupDone, CleanupGenl, CleanupCache,
                SetQuit, allVars, vars, bufferVars
  <2> QED BY <2>1 DEF Awake
<1> QED BY <1>1, <1>2, <1>3, <1>4, <1>5, <1>6, <1>7 DEF MonitorNext

(* If a rename takes less than MERGE_TIMEOUT_MS, no event is left in the   *)
(* buffer without a pending timer or a context that will look at it: the   *)
(* callback then never finds only events that it may not move, the one     *)
(* case in which it would not be called again.                             *)
THEOREM NeverForgotten ==
  ASSUME Timing = "rename"
  PROVE  MonitorSpec => []Covered
<1>1. MonitorInit => Awake
  BY DEF MonitorInit, Init, Awake
<1>2. IInv /\ Awake /\ [MonitorNext]_allVars => Awake'
  BY NextAwake
<1>3. Awake => Covered
  BY DEF Awake, Covered
<1> QED BY <1>1, <1>2, <1>3, MonitorInvariance, PTL DEF MonitorSpec
=============================================================================
