----------------------------- MODULE VfsMonitor -----------------------------
(***************************************************************************)
(* The kernel module at work: a file system whose operations are probed    *)
(* (kernelmod/vfs_kretprobes.c), the event buffer they report to           *)
(* (EventMerge), the listener that receives what the buffer sends and      *)
(* keeps the set of indexed files (EventSource_GENL::handleMsg), and the   *)
(* unloading of the module (kernelmod/module.c).                           *)
(*                                                                         *)
(* An operation changes the file system before its return handler reports  *)
(* it.  The kernel holds the locks of the parent directories from before   *)
(* the operation until the handler has returned, so a path is not touched  *)
(* again while the thread that operates on it is still reporting: `held`.  *)
(* Every file is taken to be in a directory of its own, the case in which  *)
(* these locks order the fewest operations.                                *)
(***************************************************************************)
EXTENDS EventMerge

CONSTANTS
  InitFiles,     \* the files that exist, and are indexed, at the start
  MayOverwrite,  \* whether a rename may replace an existing file
  MayDuplicate,  \* whether files are also created through vfs_create
  Timing         \* what is assumed of the 100 ms of MERGE_TIMEOUT_MS:
                 \*   "any"     nothing
                 \*   "handler" a handler that runs when the timer is armed has
                 \*             returned when the timer expires, and a timer that
                 \*             is pending when the probes are unregistered has
                 \*             expired, and its callback returned, when the 150
                 \*             ms that unloading then sleeps are over
                 \*   "rename"  the two events of a rename arrive before the
                 \*             timer callback takes the lock

ASSUME MonitorAssumptions ==
  /\ InitFiles \subseteq Path
  /\ {MayOverwrite, MayDuplicate} \subseteq BOOLEAN
  /\ Timing \in {"any", "handler", "rename"}

VARIABLES
  fs,      \* the files that exist
  held,    \* per thread, the paths its operation has locked
  view,    \* the files the listener has indexed
  froms,   \* the listener's rename_from: cookies with their source paths
  phase,   \* how far vfs_monitor_cleanup_module has come
  young    \* the handlers that were running when the timer was last armed

monitorVars == <<fs, held, view, froms, phase, young>>
allVars == <<vars, monitorVars>>

-----------------------------------------------------------------------------
(* File operations                                                         *)

InHandler(t) == pc[t] # "idle" \/ rest[t] # Done

(* Thread t may operate on the paths ps.                                   *)
Unlocked(t, ps) ==
  /\ phase = "loaded"
  /\ \A u \in Thread \ {t} : held[u] \cap ps = {}

(* The locks are dropped when the handler has nothing left to do.          *)
Locking(t, ps) ==
  held' = [held EXCEPT ![t] = IF pc'[t] = "idle" /\ rest'[t] = Done THEN {} ELSE ps]

(* Which handlers the pending timer is older than, after a step that arms  *)
(* it when `arms` holds.                                                   *)
Aging(arms) ==
  LET running == {t \in Thread : pc'[t] # "idle" \/ rest'[t] # Done}
  IN  young' = IF Timing # "handler" THEN {}
               ELSE IF arms THEN running ELSE young \cap running

Create(t, p) ==
  /\ p \notin fs /\ Unlocked(t, {p})
  /\ Submit(t, "new", p) \/ (MayDuplicate /\ SubmitTwice(t, p))
  /\ fs' = fs \cup {p}
  /\ Locking(t, {p})
  /\ Aging(events_number' = 1)
  /\ UNCHANGED <<view, froms, phase>>

Unlink(t, p) ==
  /\ p \in fs /\ Unlocked(t, {p})
  /\ Submit(t, "delete", p)
  /\ fs' = fs \ {p}
  /\ Locking(t, {p})
  /\ Aging(events_number' = 1)
  /\ UNCHANGED <<view, froms, phase>>

Rename(t, p, q) ==
  /\ p \in fs /\ p # q /\ Unlocked(t, {p, q})
  /\ q \in fs => MayOverwrite
  /\ SubmitRename(t, p, q)
  /\ fs' = (fs \ {p}) \cup {q}
  /\ Locking(t, {p, q})
  /\ Aging(events_number' = 1)
  /\ UNCHANGED <<view, froms, phase>>

(* The second event of an operation.                                       *)
ReportRest(t) ==
  /\ SubmitRest(t)
  /\ Locking(t, held[t])
  /\ Aging(events_number' = 1)
  /\ UNCHANGED <<fs, view, froms, phase>>

-----------------------------------------------------------------------------
(* The listener                                                            *)

(* What an event does to the listener's state s, the record of its files   *)
(* and pending sources.  The rename of a file that is not indexed leaves   *)
(* the index as it is.  For a rename_to whose cookie is unknown the code   *)
(* hands an uninitialised _dst to saveData, which may end the server; here *)
(* it survives, and indexes nothing.                                       *)
HandleMsg(s, e) ==
  LET src == {x[2] : x \in {y \in s.froms : y[1] = e.cookie}}
  IN CASE e.act = "new"         -> [s EXCEPT !.view = @ \cup {e.path}]
       [] e.act = "delete"      -> [s EXCEPT !.view = @ \ {e.path}]
       [] e.act = "rename_from" -> [s EXCEPT !.froms = @ \cup {<<e.cookie, e.path>>}]
       [] e.act = "rename_to"   ->
            [view |-> IF src # {} /\ src \subseteq s.view
                      THEN (s.view \ src) \cup {e.path} ELSE s.view,
             froms |-> s.froms \ ({e.cookie} \X src)]
       [] OTHER -> s

Deliver(c) ==
  /\ Send(c)
  /\ LET s == HandleMsg([view |-> view, froms |-> froms], ev[Min(batch[c])])
     IN  view' = s.view /\ froms' = s.froms
  /\ UNCHANGED <<fs, held, phase, young>>

(* The end of notify_events; a thread then leaves its handler.             *)
EndNotify(c) ==
  /\ NotifyRead(c) \/ NotifyRearm(c)
  /\ IF c \in Thread THEN Locking(c, held[c]) ELSE UNCHANGED held
  /\ Aging(pc[c] = "rearm")
  /\ UNCHANGED <<fs, view, froms, phase>>

-----------------------------------------------------------------------------
(* The timer, and the unloading of the module                              *)

Expire ==
  /\ young = {}
  /\ TimerExpire
  /\ phase' = IF phase = "sleeping" THEN "unregistered" ELSE phase
  /\ UNCHANGED <<fs, held, view, froms, young>>

Callback ==
  /\ Timing = "rename" => \A t \in Thread : rest[t].act # "rename_to"
  /\ TimerCallback /\ UNCHANGED monitorVars

(* unregister_kretprobes returns once no handler runs; msleep(150) begins. *)
Unregister ==
  /\ phase = "loaded" /\ \A t \in Thread : ~InHandler(t)
  /\ phase' = IF Timing = "handler" /\ armed THEN "sleeping" ELSE "unregistered"
  /\ UNCHANGED <<vars, fs, held, view, froms, young>>

(* After the sleep, clearup_event_merge: quit = 1, then wait for           *)
(* events_number to be 0.                                                  *)
ClearupSetQuit ==
  /\ phase = "unregistered" /\ SetQuit
  /\ Timing = "handler" => pc[Timer] = "idle"
  /\ phase' = "quitting"
  /\ UNCHANGED <<fs, held, view, froms, young>>

ClearupDone ==
  /\ phase = "quitting" /\ events_number = 0
  /\ phase' = "drained"
  /\ UNCHANGED <<vars, fs, held, view, froms, young>>

(* cleanup_vfs_genl, then cleanup_vfs_event_cache and the rest.            *)
CleanupGenl ==
  /\ phase = "drained" /\ phase' = "genl_gone"
  /\ UNCHANGED <<vars, fs, held, view, froms, young>>

CleanupCache ==
  /\ phase = "genl_gone" /\ phase' = "unloaded"
  /\ UNCHANGED <<vars, fs, held, view, froms, young>>

Unload == Unregister \/ ClearupSetQuit \/ ClearupDone \/ CleanupGenl \/ CleanupCache

-----------------------------------------------------------------------------
MonitorInit ==
  /\ Init
  /\ fs = InitFiles /\ view = InitFiles
  /\ held = [t \in Thread |-> {}]
  /\ froms = {} /\ phase = "loaded" /\ young = {}

Operate(t) ==
  \/ \E p \in Path : Create(t, p) \/ Unlink(t, p)
  \/ \E p, q \in Path : Rename(t, p, q)

MonitorNext ==
  \/ \E t \in Thread : Operate(t) \/ ReportRest(t)
  \/ \E c \in Context : Deliver(c) \/ EndNotify(c)
  \/ Expire \/ Callback \/ Unload

(* Users need not do anything, and nobody need unload the module, but the  *)
(* kernel runs what it has started: a handler returns, a pending timer     *)
(* expires, its callback gets the lock, and rmmod goes on once it has      *)
(* begun.                                                                  *)
Fairness ==
  /\ \A t \in Thread : WF_allVars(ReportRest(t))
  /\ \A c \in Context : WF_allVars(Deliver(c) \/ EndNotify(c))
  /\ WF_allVars(Expire) /\ WF_allVars(Callback)
  /\ WF_allVars(ClearupSetQuit \/ ClearupDone \/ CleanupGenl \/ CleanupCache)

MonitorSpec == MonitorInit /\ [][MonitorNext]_allVars

FairMonitorSpec == MonitorSpec /\ Fairness

-----------------------------------------------------------------------------
(* Properties                                                              *)

MonitorTypeOK ==
  /\ TypeOK
  /\ fs \in SUBSET Path /\ view \in SUBSET Path
  /\ held \in [Thread -> SUBSET Path]
  /\ froms \in SUBSET (Nat \X Path) /\ young \in SUBSET Thread
  /\ phase \in {"loaded", "sleeping", "unregistered", "quitting", "drained", "genl_gone", "unloaded"}

(* The listener's state once it has handled the events numbered up to k    *)
(* that are still in the buffer or in an array, in order of arrival.       *)
Replay[k \in 0..MaxEvent] ==
  IF k = 0 THEN [view |-> view, froms |-> froms]
  ELSE IF k \in list \cup Batched THEN HandleMsg(Replay[k - 1], ev[k])
  ELSE Replay[k - 1]

(* Merging keeps the meaning of what it shortens: with no rename half      *)
(* reported, the events still on their way turn the listener's files into  *)
(* the files that exist, and leave no source path behind.                  *)
NetEffect ==
  (\A t \in Thread : rest[t] = Done) =>
    Replay[MaxEvent] = [view |-> fs, froms |-> {}]

Quiet == list = {} /\ Batched = {} /\ \A t \in Thread : rest[t] = Done

(* Once everything reported has been sent, the index holds exactly the     *)
(* files that exist.                                                       *)
Converged == Quiet => view = fs

(* Even where merging does not keep the meaning of the events (a rename    *)
(* over an existing file, a creation reported twice), every file that      *)
(* exists is indexed once everything has been sent: what goes wrong leaves *)
(* stale entries, and no file is missing.                                  *)
NothingMissing == Quiet => fs \subseteq view

(* The listener, which has no use for a rename_to without its source, is   *)
(* never sent one: pairing, merging, taking a rename apart and picking its *)
(* halves in different rounds leave a rename_to only where its rename_from *)
(* has been sent.  This needs that no two contexts send at the same time.  *)
SourceKnown ==
  \A c \in Context :
    batch[c] # {} /\ ev[Min(batch[c])].act = "rename_to" =>
      \E x \in froms : x[1] = ev[Min(batch[c])].cookie

(* The events are sent before what sending needs is taken away.            *)
SentBeforeTeardown == phase \in {"genl_gone", "unloaded"} => Batched = {}

(* A buffered event is on its way out: the timer is pending, or a context  *)
(* is about to look at the buffer again.                                   *)
Covered ==
  list # {} => \/ armed \/ \E c \in Context : pc[c] # "idle"
               \/ \E t \in Thread : rest[t] # Done

(* No event stays in the buffer forever: the timer bounds the time "a      *)
(* single event is cached".                                                *)
NothingStuck == \A i \in EventId : i \in list ~> i \notin list

(* Unloading ends: clearup_event_merge does not wait forever.              *)
UnloadEnds == (phase = "unregistered") ~> (phase = "unloaded")
=============================================================================
