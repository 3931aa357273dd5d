----------------------------- MODULE EventMerge -----------------------------
(***************************************************************************)
(* The event buffer of the vfs_monitor kernel module (kernelmod/           *)
(* event_merge.c).  Every file operation that succeeds enters              *)
(* do_event_merge with its event, in the context of the thread that made   *)
(* it.  Under the spinlock sl_vfs_events the event is paired (a rename_to  *)
(* with its rename_from), merged with a buffered event or appended, and    *)
(* the buffer is checked: that arms the timer, deletes it, or moves events *)
(* to the local array events_tosend.  After unlocking, the same context    *)
(* sends what it moved, one event at a time.  The timer callback also      *)
(* moves and sends events.                                                 *)
(*                                                                         *)
(* A section under the spinlock is one action; everything notify_events    *)
(* does outside it is an action of its own.  An event is named by its      *)
(* arrival number, which stands for its address.  list_add_tail is the     *)
(* only insertion into vfs_events and pick_events fills events_tosend in   *)
(* list order, so both are sets of arrival numbers, read in numeric order. *)
(***************************************************************************)
EXTENDS Naturals, FiniteSets, FiniteSetsExt

CONSTANTS
  Thread,      \* the threads whose file operations are probed
  Timer,       \* the softirq context that runs the timer callback
  Path,        \* the (device, path) pairs of the files
  NoPath,      \* the path of events whose path is never compared
  BufferSize,  \* MERGE_BUFFER_SIZE
  DumpSize,    \* DUMP_SIZE
  MaxEvent     \* bound on the number of events that ever arrive

(* MERGE_BUFFER_SIZE is 100 and DUMP_SIZE is 10; the timer callback is     *)
(* never one of the probed threads.                                        *)
ASSUME Assumptions ==
  /\ Timer \notin Thread
  /\ NoPath \notin Path
  /\ BufferSize \in Nat /\ BufferSize >= 2
  /\ DumpSize \in Nat /\ DumpSize >= 1
  /\ MaxEvent \in Nat

VARIABLES
  ev,            \* the struct vfs_event at each address
  list,          \* vfs_events
  events_number, \* its length, as the code counts it
  quit,          \* set when the module unloads
  armed,         \* whether the timer event_timeout_notify is pending
  batch,         \* per context, what is left of its events_tosend
  pc,            \* per context, where it is outside the spinlock
  rest,          \* per thread, the event its handler has still to submit
  alloc,         \* number of events that have arrived
  cookie         \* event_sync_cookie

bufferVars == <<ev, list, events_number>>
vars == <<ev, list, events_number, quit, armed, batch, pc, rest, alloc, cookie>>

EventId == 1..MaxEvent
Null    == 0
Context == Thread \cup {Timer}

(* The actions the merge code tells apart.  new stands for the three kinds *)
(* of file creation, other for folder events, mounts and unmounts, whose   *)
(* entry in action_merge_fns is 0.                                         *)
Action == {"new", "delete", "rename_from", "rename_to", "other"}

Event == [act : Action \cup {"free"}, path : Path \cup {NoPath},
          cookie : Nat, pair : EventId \cup {Null}]

(* Memory that holds no event.                                             *)
Free == [act |-> "free", path |-> NoPath, cookie |-> 0, pair |-> Null]

Fresh(act, path, c) == [act |-> act, path |-> path, cookie |-> c, pair |-> Null]

(* A thread whose handler has submitted all its events.                    *)
Done == Free

-----------------------------------------------------------------------------
(* Merging                                                                 *)

(* The event e in the list, scanned from the tail, absorbs the incoming    *)
(* event cur: the test each merge_*_file function makes.                   *)
Merges(e, cur) ==
  /\ e.path = cur.path
  /\ \/ cur.act = "new"         /\ e.act \in {"delete", "rename_from"}
     \/ cur.act \in {"delete", "rename_from"}
        /\ \/ e.act = "new"
           \/ e.act = "rename_to" /\ e.pair # Null
     \/ cur.act = "rename_to"   /\ e.act = "delete" /\ cur.pair # Null

(* Mutant: merge_del_file forgets to turn ren_fr(X) into del(X).           *)
RetagNotDeleted(e, cur) ==
  CASE cur.act = "new" /\ e.act = "rename_from"      -> [of |-> e.pair, as |-> "new"]
    [] cur.act = "rename_to" /\ e.act = "delete"     -> [of |-> cur.pair, as |-> "delete"]
    [] OTHER                                         -> [of |-> Null, as |-> "free"]

(* What absorbing cur turns the partner of the rename concerned into.      *)
Retag(e, cur) ==
  CASE cur.act = "new" /\ e.act = "rename_from"      -> [of |-> e.pair, as |-> "new"]
    [] cur.act # "new" /\ e.act = "rename_to"        -> [of |-> e.pair, as |-> "delete"]
    [] cur.act = "rename_to" /\ e.act = "delete"     -> [of |-> cur.pair, as |-> "delete"]
    [] OTHER                                         -> [of |-> Null, as |-> "free"]

Retagged(m, r) ==
  [i \in EventId |-> IF i = r.of THEN [m[i] EXCEPT !.act = r.as, !.cookie = 0]
                                 ELSE m[i]]

(* Mutant: of two events that merge, only the incoming one is freed.       *)
FreedLast(m, ids) == [i \in EventId |-> IF i \in ids /\ (\A j \in ids : j <= i)
                                       THEN Free ELSE m[i]]

Freed(m, ids) == [i \in EventId |-> IF i \in ids THEN Free ELSE m[i]]

(* The rename_from that an incoming rename_to pairs with: the first entry  *)
(* of the list with its cookie.                                            *)
Partner(act, c) ==
  LET same == {i \in list : ev[i].cookie = c}
  IN  IF act = "rename_to" /\ same # {} THEN Min(same) ELSE Null

(* Mutant: a rename_to without a partner stays a rename_to.                *)
IncomingUnpaired(act, path, c) == [Fresh(act, path, c) EXCEPT !.pair = Partner(act, c)]

(* Mutant: it becomes a delete.                                            *)
IncomingDelete(act, path, c) ==
  LET p == Partner(act, c)
  IN  IF act = "rename_to" /\ p = Null
      THEN Fresh("delete", path, 0)
      ELSE [Fresh(act, path, c) EXCEPT !.pair = p]

(* The event as it enters the merge: a rename_to that finds no partner     *)
(* becomes a new.                                                          *)
Incoming(act, path, c) ==
  LET p == Partner(act, c)
  IN  IF act = "rename_to" /\ p = Null
      THEN Fresh("new", path, 0)
      ELSE [Fresh(act, path, c) EXCEPT !.pair = p]

(* Mutant: the partner is not told of its rename_to.                       *)
LinkedOneWay(id, cur) == [i \in EventId |-> IF i = id THEN cur ELSE ev[i]]

(* Memory once cur has been stored at id and its partner points to it.     *)
Linked(id, cur) ==
  [i \in EventId |-> IF i = id THEN cur
                     ELSE IF cur.pair # Null /\ i = cur.pair
                          THEN [ev[i] EXCEPT !.pair = id]
                          ELSE ev[i]]

-----------------------------------------------------------------------------
(* Picking events to send                                                  *)

(* Mutant: a rename_from always waits for its rename_to to be sent first.  *)
SendableNever(e) == e.act # "rename_from"

Sendable(e) == e.act # "rename_from" \/ e.pair # Null

(* pick_events moves every event once quit is set, and otherwise the first *)
(* DumpSize events that are not a rename_from waiting for its partner.     *)
Picked(l, m) ==
  LET able == {i \in l : Sendable(m[i])}
  IN  IF quit THEN l
      ELSE {i \in able : Cardinality({j \in able : j <= i}) <= DumpSize}

(* Mutant: a rename_from is moved and its rename_to not told.              *)
UnpairedNot(m, picked) == m

(* A rename_from that is moved leaves its rename_to unpaired.              *)
Unpaired(m, picked) ==
  LET left == {m[i].pair : i \in {j \in picked : m[j].act = "rename_from"}}
  IN  [i \in EventId |-> IF ~quit /\ i \in left THEN [m[i] EXCEPT !.pair = Null]
                                                ELSE m[i]]

(* The locked part of context c leaves the buffer as list l, memory m,     *)
(* count n, with nothing moved ...                                         *)
Keep(l, m, n) ==
  /\ list' = l /\ ev' = m /\ events_number' = n
  /\ UNCHANGED <<batch, pc>>

(* Mutant: events_number drops by DUMP_SIZE, however few were moved.       *)
PickEventsCounting(c, l, m, n) ==
  LET picked == Picked(l, m)
  IN  /\ list' = l \ picked
      /\ ev' = Unpaired(m, picked)
      /\ events_number' = n - DumpSize
      /\ batch' = [batch EXCEPT ![c] = picked]
      /\ pc' = [pc EXCEPT ![c] = IF picked = {} THEN "idle" ELSE "notify"]

(* ... or after pick_events has moved events to the context's array.  The  *)
(* context has something to notify only if an event was moved.             *)
PickEvents(c, l, m, n) ==
  LET picked == Picked(l, m)
  IN  /\ list' = l \ picked
      /\ ev' = Unpaired(m, picked)
      /\ events_number' = n - Cardinality(picked)
      /\ batch' = [batch EXCEPT ![c] = picked]
      /\ pc' = [pc EXCEPT ![c] = IF picked = {} THEN "idle" ELSE "notify"]

(* Mutant: the buffer is emptied when it exceeds its limit, not at it.     *)
CheckEventsLate(c, l, m, n) ==
  \/ n = 0 /\ armed' = FALSE /\ Keep(l, m, n)
  \/ n = 1 /\ armed' = TRUE  /\ Keep(l, m, n)
  \/ n > 1 /\ n <= BufferSize /\ UNCHANGED armed /\ Keep(l, m, n)
  \/ n > BufferSize /\ UNCHANGED armed /\ PickEvents(c, l, m, n)

(* Mutant: the first event does not start the timer.                       *)
CheckEventsNoTimer(c, l, m, n) ==
  \/ n = 0 /\ armed' = FALSE /\ Keep(l, m, n)
  \/ n > 0 /\ n < BufferSize /\ UNCHANGED armed /\ Keep(l, m, n)
  \/ n >= BufferSize /\ UNCHANGED armed /\ PickEvents(c, l, m, n)

(* check_events: del_timer does not stop a callback that already runs.     *)
CheckEvents(c, l, m, n) ==
  \/ n = 0 /\ armed' = FALSE /\ Keep(l, m, n)
  \/ n = 1 /\ armed' = TRUE  /\ Keep(l, m, n)
  \/ n > 1 /\ n < BufferSize /\ UNCHANGED armed /\ Keep(l, m, n)
  \/ n > 1 /\ n >= BufferSize /\ UNCHANGED armed /\ PickEvents(c, l, m, n)

(* The locked part of do_event_merge: pair, then merge or append, then     *)
(* check the buffer.                                                       *)
DoEventMerge(t, act, path, c) ==
  LET id   == alloc + 1
      cur  == Incoming(act, path, c)
      mem  == Linked(id, cur)
      hits == {i \in list : Merges(mem[i], cur)}
      hit  == Max(hits)
  IN  /\ alloc < MaxEvent
      /\ alloc' = id
      /\ \/ /\ hits = {}
            /\ CheckEvents(t, list \cup {id}, mem, events_number + 1)
         \/ /\ hits # {}
            /\ CheckEvents(t, list \ {hit},
                           Freed(Retagged(mem, Retag(mem[hit], cur)), {hit, id}),
                           events_number - 1)

-----------------------------------------------------------------------------
(* The handlers of the probes, in the threads                              *)

Ready(t) == pc[t] = "idle" /\ rest[t] = Done /\ ~quit

(* The bound MaxEvent, kept so that a handler that has begun can finish.   *)
Room(n) == alloc + Cardinality({t \in Thread : rest[t] # Done}) + n <= MaxEvent

(* The return handler of an operation that reports one event.              *)
Submit(t, act, p) ==
  /\ Ready(t) /\ Room(1)
  /\ DoEventMerge(t, act, p, 0)
  /\ UNCHANGED <<quit, rest, cookie>>

(* vfs_create reports a creation that security_inode_create has already    *)
(* reported: two events, the handler of the second runs after the first.   *)
SubmitTwice(t, p) ==
  /\ Ready(t) /\ Room(2)
  /\ DoEventMerge(t, "new", p, 0)
  /\ rest' = [rest EXCEPT ![t] = Fresh("new", p, 0)]
  /\ UNCHANGED <<quit, cookie>>

(* on_vfs_rename_ret numbers the rename and submits its rename_from ...    *)
SubmitRename(t, p, q) ==
  /\ Ready(t) /\ Room(2)
  /\ cookie' = cookie + 1
  /\ DoEventMerge(t, "rename_from", p, cookie')
  /\ rest' = [rest EXCEPT ![t] = Fresh("rename_to", q, cookie')]
  /\ UNCHANGED quit

(* ... and the thread submits the second event once do_event_merge has     *)
(* returned from the first, its notifications included.                    *)
SubmitRest(t) ==
  /\ pc[t] = "idle" /\ rest[t] # Done
  /\ DoEventMerge(t, rest[t].act, rest[t].path, rest[t].cookie)
  /\ rest' = [rest EXCEPT ![t] = Done]
  /\ UNCHANGED <<quit, cookie>>

-----------------------------------------------------------------------------
(* The timer, and notify_events in any context                             *)

(* The pending timer expires; its callback is not yet in the spinlock.  A  *)
(* timer whose callback still runs does not expire again.                  *)
TimerExpire ==
  /\ armed /\ pc[Timer] = "idle"
  /\ armed' = FALSE
  /\ pc' = [pc EXCEPT ![Timer] = "expired"]
  /\ UNCHANGED <<bufferVars, quit, batch, rest, alloc, cookie>>

(* The locked part of event_timeout_notify_callback.                       *)
TimerCallback ==
  /\ pc[Timer] = "expired"
  /\ PickEvents(Timer, list, ev, events_number)
  /\ UNCHANGED <<quit, armed, rest, alloc, cookie>>

(* notify_events sends the next event of the array and frees it.           *)
Send(c) ==
  /\ pc[c] = "notify" /\ batch[c] # {}
  /\ batch' = [batch EXCEPT ![c] = @ \ {Min(@)}]
  /\ ev' = Freed(ev, {Min(batch[c])})
  /\ UNCHANGED <<list, events_number, quit, armed, pc, rest, alloc, cookie>>

(* Mutant: the timer is started again only for a full round of events.     *)
NotifyReadFull(c) ==
  /\ pc[c] = "notify" /\ batch[c] = {}
  /\ pc' = [pc EXCEPT ![c] = IF events_number >= DumpSize THEN "rearm" ELSE "idle"]
  /\ UNCHANGED <<bufferVars, quit, armed, batch, rest, alloc, cookie>>

(* After the last one it reads events_number, without the lock ...         *)
NotifyRead(c) ==
  /\ pc[c] = "notify" /\ batch[c] = {}
  /\ pc' = [pc EXCEPT ![c] = IF events_number >= 1 THEN "rearm" ELSE "idle"]
  /\ UNCHANGED <<bufferVars, quit, armed, batch, rest, alloc, cookie>>

(* ... and calls mod_timer if events are left.                             *)
NotifyRearm(c) ==
  /\ pc[c] = "rearm"
  /\ armed' = TRUE
  /\ pc' = [pc EXCEPT ![c] = "idle"]
  /\ UNCHANGED <<bufferVars, quit, batch, rest, alloc, cookie>>

(* clearup_event_merge runs after the probes are unregistered, which waits *)
(* for the handlers that are running.  The work items that report a mount  *)
(* are not waited for, and not modelled: none comes after this step.       *)
SetQuit ==
  /\ \A t \in Thread : Ready(t)
  /\ quit' = TRUE
  /\ UNCHANGED <<bufferVars, armed, batch, pc, rest, alloc, cookie>>

-----------------------------------------------------------------------------
Init ==
  /\ ev = [i \in EventId |-> Free]
  /\ list = {} /\ events_number = 0
  /\ quit = FALSE /\ armed = FALSE
  /\ batch = [c \in Context |-> {}]
  /\ pc = [c \in Context |-> "idle"]
  /\ rest = [t \in Thread |-> Done]
  /\ alloc = 0 /\ cookie = 0

Handler(t) ==
  \/ \E p \in Path : Submit(t, "new", p) \/ Submit(t, "delete", p) \/ SubmitTwice(t, p)
  \/ Submit(t, "other", NoPath)
  \/ \E p, q \in Path : p # q /\ SubmitRename(t, p, q)

Notify(c) == Send(c) \/ NotifyRead(c) \/ NotifyRearm(c)

Next ==
  \/ \E t \in Thread : Handler(t) \/ SubmitRest(t)
  \/ TimerExpire \/ TimerCallback \/ SetQuit
  \/ \E c \in Context : Notify(c)

Spec == Init /\ [][Next]_vars

-----------------------------------------------------------------------------
(* Properties                                                              *)

TypeOK ==
  /\ ev \in [EventId -> Event]
  /\ list \in SUBSET EventId
  /\ events_number \in Nat
  /\ quit \in BOOLEAN /\ armed \in BOOLEAN
  /\ batch \in [Context -> SUBSET EventId]
  /\ pc \in [Context -> {"idle", "expired", "notify", "rearm"}]
  /\ rest \in [Thread -> Event]
  /\ alloc \in 0..MaxEvent /\ cookie \in Nat

Batched == UNION {batch[c] : c \in Context}

(* Every event that is not freed is in the list or in exactly one array of *)
(* events to send: REMOVE_ENTRY, MOVE_EVENT and the vfs_event_free calls   *)
(* neither leak an event, free one twice, nor send one twice.              *)
NoLeak ==
  /\ {i \in EventId : ev[i] # Free} = list \cup Batched
  /\ list \cap Batched = {}
  /\ \A c, d \in Context : c # d => batch[c] \cap batch[d] = {}

(* events_number counts the list that it is read in place of, and the list *)
(* stays below MERGE_BUFFER_SIZE between the locked sections, so that      *)
(* events_tosend always keeps the null pointer that ends it.               *)
BufferFits ==
  /\ events_number = Cardinality(list)
  /\ events_number < BufferSize
  /\ \A c \in Context : Cardinality(batch[c]) <= BufferSize

(* The pair pointers of the renames in the list are the ones the code      *)
(* follows: they lead to a listed event, the other half of the same rename *)
(* (the rename_from being the earlier), that points back.                  *)
PairsLive ==
  \A i \in list :
    LET j == ev[i].pair
    IN  /\ ev[i].act = "rename_from" /\ j # Null =>
             j \in list /\ i < j /\ ev[j].act = "rename_to" /\ ev[j].pair = i
        /\ ev[i].act = "rename_to" /\ j # Null =>
             j \in list /\ j < i /\ ev[j].act = "rename_from" /\ ev[j].pair = i

(* pick_events never moves a rename_to while its rename_from stays behind: *)
(* "ren_fr should enter buffer before ren_to", and it leaves it no later.  *)
RenameFromFirst ==
  \A i \in Batched, j \in list :
    ev[i].act = "rename_to" /\ ev[j].act = "rename_from" => ev[i].cookie # ev[j].cookie

(* notify_events reads the events it sends without the lock: no merge in   *)
(* another context may reach them, through a pair pointer for one.         *)
SendsWhatWasPicked ==
  [][\A c \in Context : \A i \in batch[c] \cap batch'[c] : ev'[i] = ev[i]]_vars
=============================================================================
