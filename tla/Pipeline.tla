------------------------------ MODULE Pipeline ------------------------------
(***************************************************************************)
(* From the events of the kernel module to the edits of the index: the     *)
(* filter on devices (kernelmod/vfs_sysfs.c), the multicasts and the       *)
(* socket that may lose them (vfs_genl.c), the thread that receives them   *)
(* (EventSource_GENL::getEvent and Server::run), the queue to the main     *)
(* thread and its handler (EventAdaptor).                                  *)
(*                                                                         *)
(* A file has one path, a sequence of names.  An event carries a device    *)
(* and the path below the root of that device.  A dlnfs is a FUSE file     *)
(* system mounted over a directory of another device: an operation in it   *)
(* is first done on the covered directory, under the same path, and then   *)
(* reported for the dlnfs.  Every device is always mounted at one place.   *)
(***************************************************************************)
EXTENDS Naturals, Sequences, FiniteSets, SequencesExt, TLC

CONSTANTS
  Thread,      \* threads that operate on files
  Dev,         \* block devices (major number not 0)
  Dlnfs,       \* dlnfs devices (major number 0)
  Name,        \* names in paths
  Home,        \* where each device is mounted
  Files,       \* the paths of the files that may exist
  Record,      \* those of them that dlnfs keeps long names in (".longname")
  InitFiles,   \* the files that exist, and are indexed, at the start
  InitMounted, \* the devices mounted at the start
  MaxOps,      \* bound on the operations on files
  MaxMounts,   \* bound on the mounts and unmounts
  MaxLost,     \* bound on the messages that the socket loses
  Cap          \* MAX_EVENT_HANDLE_COUNT_PER_CYCLE

ASSUME PipelineAssumptions ==
  /\ Dev \cap Dlnfs = {} /\ InitMounted \subseteq Dev \cup Dlnfs
  /\ Home \in [Dev \cup Dlnfs -> Seq(Name)] /\ \E d \in Dev : Home[d] = <<>>
  /\ Files \subseteq Seq(Name) \ {<<>>}
  /\ Record \cup InitFiles \subseteq Files /\ IsFiniteSet(Files) /\ IsFiniteSet(Dlnfs)
  /\ {MaxOps, MaxMounts, MaxLost, Cap} \subseteq Nat

VARIABLES
  files,       \* the files that exist
  mounted,     \* the devices in /proc/self/mountinfo
  unnamed,     \* vfs_unnamed_devices: the dlnfs devices that are not filtered
  outbox,      \* per thread, the messages it has still to send
  held,        \* per thread, the paths that its operation has locked
  work,        \* scheduled work items that will report a mount or unmount
  cookie,      \* event_sync_cookie
  socket,      \* the messages in the socket of the server
  overrun,     \* whether the next receive fails, since messages were dropped
  rename_from, \* EventSource_GENL::rename_from, from cookies to source paths
  partitions,  \* EventSource_GENL::partitions
  new_msg,     \* EventSource_GENL::new_msg
  saved,       \* EventSource_GENL::act, buf and dst: the last data saved
  alive,       \* whether the server has not crashed
  recache,     \* a call of updateMountPoints is queued in the main thread
  cacher,      \* the dlnfs devices that MountCacher knows
  queue,       \* EventAdaptor::action_buffers
  handler,     \* onHandleEvent: whether it runs, and its local variables
  index,       \* the indexed files
  ops, mounts, lost, \* how much of each bound is used
  reported,    \* history: the edits that operations asked for
  stale,       \* history: a message on a mount was lost, or the mounts could
               \* not be read for it, since the last one
  excused      \* history: the paths of operations of which an event was lost,
               \* came from a device not in the table, or was ignored though
               \* it was not the first of two, and what was renamed from there

kernelVars == <<files, mounted, unnamed, outbox, held, work, cookie>>
netVars == <<socket, overrun>>
sourceVars == <<rename_from, partitions, new_msg, saved, alive>>
mainVars == <<recache, cacher, queue, handler, index>>
bounds == <<ops, mounts, lost>>
history == <<reported, stale, excused>>
vars == <<kernelVars, netVars, sourceVars, mainVars, bounds, history>>

-----------------------------------------------------------------------------
(* Paths, messages and edits                                               *)

Below(d, p) == IsPrefix(Home[d], p) /\ p # Home[d]
Relative(d, p) == SubSeq(p, Len(Home[d]) + 1, Len(p))

(* The device that a path is stored on: the innermost one above it.        *)
Owner(p) == CHOOSE d \in Dev :
  Below(d, p) /\ \A c \in Dev : Below(c, p) => Len(Home[c]) <= Len(Home[d])

Cover(p) == {d \in Dlnfs \cap mounted : Below(d, p)}

(* `of' and `twin' are for the history only: the paths of the operation,   *)
(* and whether this is the first or the second of two events for one edit. *)
Msg(act, c, d, p, of, twin) ==
  [act |-> act, cookie |-> c, dev |-> d, path |-> Relative(d, p), of |-> of, twin |-> twin]
MountMsg == [act |-> "mount", of |-> {}]

(* An edit, as action_buffers holds it.                                    *)
EditOf(kind, src, dst, twin) == [kind |-> kind, src |-> src, dst |-> dst, twin |-> twin]
NoEdit == EditOf("none", <<>>, <<>>, "single")

(* The path whose mount point EventAdaptor looks at.                       *)
Second(e) == IF e.kind = "rename" THEN e.dst ELSE e.src

(* LFTManager::onFileChanged on one edit.  The empty edit names no path.   *)
Apply(s, e) ==
  CASE e.kind = "insert" -> s \cup {e.src}
    [] e.kind = "remove" -> s \ {e.src}
    [] e.kind = "rename" -> IF e.src \in s THEN (s \ {e.src}) \cup {e.dst} ELSE s
    [] OTHER             -> s

(* onFileChanged on one edit after the other.                              *)
ApplyAll(s, es) ==
  LET after[i \in 0 .. Len(es)] == IF i = 0 THEN s ELSE Apply(after[i - 1], es[i])
  IN after[Len(es)]

Plain(e) == [e EXCEPT !.twin = "single"]

-----------------------------------------------------------------------------
(* The kernel                                                              *)

Usable(t, p) ==
  /\ outbox[t] = <<>> /\ ops < MaxOps
  /\ Owner(p) \in mounted
  /\ \A u \in Thread : p \notin held[u]

(* common_vfs_ent: the dlnfs for which an operation on p is also reported. *)
Shown(p) == IF p \in Record THEN {} ELSE Cover(p) \cap unnamed

(* The messages of an operation, for the device of the file and then for   *)
(* the dlnfs.  The operation reports evs, pairs of an action and a path; c *)
(* is the cookie of a rename.                                              *)
Messages(evs, c) ==
  LET p == evs[1][2]
      of == {evs[i][2] : i \in DOMAIN evs}
      On(d, n, twin) == [i \in DOMAIN evs |-> Msg(evs[i][1], n, d, evs[i][2], of, twin)]
  IN IF Shown(p) = {} THEN On(Owner(p), c, "single")
     ELSE LET d == CHOOSE x \in Shown(p) : TRUE
          IN On(Owner(p), c, "first") \o On(d, IF c = 0 THEN 0 ELSE c + 1, "second")

Report(t, evs, c, edit) ==
  /\ outbox' = [outbox EXCEPT ![t] = Messages(evs, c)]
  /\ held' = [held EXCEPT ![t] = {evs[i][2] : i \in DOMAIN evs}]
  /\ reported' = reported \cup {edit}
  /\ ops' = ops + 1
  /\ UNCHANGED <<mounted, unnamed, work, netVars, sourceVars, mainVars, mounts, lost, stale, excused>>

Create(t, p) ==
  /\ Usable(t, p) /\ p \notin files
  /\ files' = files \cup {p}
  /\ Report(t, << <<"new", p>> >>, 0, EditOf("insert", p, <<>>, "single"))
  /\ UNCHANGED cookie

Delete(t, p) ==
  /\ Usable(t, p) /\ p \in files
  /\ files' = files \ {p}
  /\ Report(t, << <<"delete", p>> >>, 0, EditOf("remove", p, <<>>, "single"))
  /\ UNCHANGED cookie

Rename(t, p, q) ==
  /\ Usable(t, p) /\ Usable(t, q) /\ p \in files /\ p # q
  /\ p \notin Record /\ q \notin Record
  /\ Owner(p) = Owner(q) /\ Cover(p) = Cover(q)
  /\ files' = (files \ {p}) \cup {q}
  /\ cookie' = cookie + 1 + Cardinality(Shown(p))
  /\ Report(t, << <<"rename_from", p>>, <<"rename_to", q>> >>, cookie + 1,
            EditOf("rename", p, q, "single"))

(* A mount or unmount, and the work item that reports it: on_do_mount_ret. *)
(* The device of / stays mounted, and no operation is under way in d.      *)
Mount(d) ==
  /\ mounts < MaxMounts /\ mounts' = mounts + 1
  /\ Home[d] # <<>>
  /\ \A t \in Thread : \A p \in held[t] : ~Below(d, p)
  /\ mounted' = IF d \in mounted THEN mounted \ {d} ELSE mounted \cup {d}
  /\ work' = work + 1
  /\ UNCHANGED <<files, unnamed, outbox, held, cookie, netVars, sourceVars, mainVars,
                 ops, lost, history>>

(* vfs_notify_dentry_event: the message is appended to the socket of the   *)
(* listener.  It is lost if the socket is full, which the next receive     *)
(* reports, or if the message cannot be allocated, which nobody reports.   *)
Multicast(m) ==
  \/ socket' = Append(socket, m) /\ UNCHANGED <<overrun, lost, stale, excused>>
  \/ /\ lost < MaxLost /\ lost' = lost + 1
     /\ overrun' \in {overrun, TRUE}
     /\ excused' = excused \cup m.of
     /\ stale' = (stale \/ m.act = "mount")
     /\ UNCHANGED socket

(* That a thread's messages are sent in order is an assumption: a rename   *)
(* may also be reported by halves in two arrays of events_tosend, which    *)
(* two contexts send at once (VfsMonitor).                                 *)
SendEvent(t) ==
  /\ outbox[t] # <<>>
  /\ Multicast(Head(outbox[t]))
  /\ outbox' = [outbox EXCEPT ![t] = Tail(@)]
  /\ held' = IF Len(outbox[t]) = 1 THEN [held EXCEPT ![t] = {}] ELSE held
  /\ UNCHANGED <<files, mounted, unnamed, work, cookie, sourceVars, mainVars,
                 ops, mounts, reported>>

SendMount ==
  /\ work > 0 /\ work' = work - 1
  /\ Multicast(MountMsg)
  /\ UNCHANGED <<files, mounted, unnamed, outbox, held, cookie, sourceVars, mainVars,
                 ops, mounts, reported>>

-----------------------------------------------------------------------------
(* The thread that receives events                                         *)

(* EventSource_GENL::saveData and the switch of Server::run: what is       *)
(* pushed for the data that were saved last.                               *)
Pushed(d) ==
  CASE d.act = "new"    -> EditOf("insert", d.src, <<>>, d.twin)
    [] d.act = "delete" -> EditOf("remove", d.src, <<>>, d.twin)
    [] d.act = "rename" -> EditOf("rename", d.src, d.dst, d.twin)
    [] OTHER            -> NoEdit

(* getEvent, after nl_recvmsgs: new_msg tells whether there is an event.   *)
PushEvent(isNew, d) == queue' = IF isNew THEN Append(queue, Pushed(d)) ELSE queue

(* The table of partitions as updatePartitions reads it.                   *)
MountTable == [d \in mounted |-> Home[d]]

(* nl_recvmsgs fails before a message is handled.  new_msg still says what *)
(* the previous message left there.                                        *)
ReceiveError ==
  /\ alive /\ overrun
  /\ overrun' = FALSE
  /\ PushEvent(new_msg, saved)
  /\ UNCHANGED <<kernelVars, socket, sourceVars, recache, cacher, handler, index,
                 bounds, history>>

(* vfs_unnamed_devices_store, for writes of "a" or "r" with one minor      *)
(* number each: the order of equal actions does not matter.                *)
Store(devices, act, minors) ==
  IF act = "a" THEN devices \cup minors ELSE devices \ minors

(* update_vfs_unnamed_device: what it reads is brought to what it wants.   *)
Updated(olds, news) == Store(Store(olds, "r", olds \ news), "a", news \ olds)

(* Mutant: the table is not cleared before it is read again.               *)
ReceiveMountKeep ==
  /\ alive /\ ~overrun /\ socket # <<>> /\ Head(socket).act = "mount"
  /\ socket' = Tail(socket)
  /\ new_msg' = FALSE
  /\ partitions' = MountTable @@ partitions
  /\ unnamed' = Updated(unnamed, Dlnfs \cap mounted)
  /\ recache' = TRUE /\ stale' = FALSE
  /\ UNCHANGED <<files, mounted, outbox, held, work, cookie, overrun, rename_from,
                 saved, alive, cacher, queue, handler, index, bounds, reported, excused>>

(* handleMsg on a message for a mount or unmount: updatePartitions.        *)
ReceiveMount ==
  /\ alive /\ ~overrun /\ socket # <<>> /\ Head(socket).act = "mount"
  /\ socket' = Tail(socket)
  /\ new_msg' = FALSE
  /\ partitions' = MountTable
  /\ unnamed' = Updated(unnamed, Dlnfs \cap mounted)
  /\ recache' = TRUE
  /\ stale' = FALSE
  /\ UNCHANGED <<files, mounted, outbox, held, work, cookie, overrun, rename_from,
                 saved, alive, cacher, queue, handler, index, bounds, reported, excused>>

(* Whether m is a rename_to whose rename_from was received.                *)
Paired(m) == m.act = "rename_to" /\ m.cookie \in DOMAIN rename_from

(* What handleMsg saves for m, in full paths.                              *)
Full(m, path) == partitions[m.dev] \o path

(* Mutant: a rename_to without a source takes the path saved last.         *)
DataLeftOver(m) ==
  IF Paired(m)
  THEN [act |-> "rename", src |-> Full(m, rename_from[m.cookie]), dst |-> Full(m, m.path), twin |-> m.twin]
  ELSE IF m.act = "rename_to" /\ saved.act # "none"
  THEN [act |-> "rename", src |-> saved.src, dst |-> Full(m, m.path), twin |-> m.twin]
  ELSE [act |-> m.act, src |-> Full(m, m.path), dst |-> <<>>, twin |-> m.twin]

Data(m) ==
  IF Paired(m)
  THEN [act |-> "rename", src |-> Full(m, rename_from[m.cookie]), dst |-> Full(m, m.path), twin |-> m.twin]
  ELSE [act |-> m.act, src |-> Full(m, m.path), dst |-> <<>>, twin |-> m.twin]

(* rename_from with the source in m, and without the one of the cookie of  *)
(* m: rename_from.insert and rename_from.remove.                           *)
Stored(table, m) ==
  [c \in DOMAIN table \cup {m.cookie} |-> IF c = m.cookie THEN m.path ELSE table[c]]
Taken(table, m) == [c \in DOMAIN table \ {m.cookie} |-> table[c]]

(* updatePartitions, when /proc/self/mountinfo cannot be opened: the cache *)
(* of the main thread is still read again, the table stays as it is.       *)
ReceiveMountUnread ==
  /\ alive /\ ~overrun /\ socket # <<>> /\ Head(socket).act = "mount"
  /\ socket' = Tail(socket)
  /\ new_msg' = FALSE
  /\ recache' = TRUE
  /\ stale' = TRUE
  /\ UNCHANGED <<kernelVars, overrun, rename_from, partitions, saved, alive, cacher, queue,
                 handler, index, bounds, reported, excused>>

(* handleMsg on an event of a file.                                        *)
ReceiveEvent ==
  /\ alive /\ ~overrun /\ socket # <<>> /\ Head(socket).act # "mount"
  /\ socket' = Tail(socket)
  /\ LET m == Head(socket)
         known == m.dev \in DOMAIN partitions
     IN /\ new_msg' = (known /\ m.act # "rename_from")
        /\ saved' = IF new_msg' THEN Data(m) ELSE saved
        /\ PushEvent(new_msg', saved')
        /\ rename_from' =
             IF ~known THEN rename_from
             ELSE IF m.act = "rename_from" THEN Stored(rename_from, m)
             ELSE IF Paired(m) THEN Taken(rename_from, m)
             ELSE rename_from
        (* without a source, _dst is not initialised *)
        /\ alive' \in (IF known /\ m.act = "rename_to" /\ ~Paired(m) THEN BOOLEAN ELSE {TRUE})
        /\ excused' = IF known THEN excused ELSE excused \cup m.of
  /\ UNCHANGED <<kernelVars, overrun, partitions, recache, cacher, handler, index,
                 bounds, reported, stale>>

-----------------------------------------------------------------------------
(* The main thread                                                         *)

(* MountCacher::updateMountPoints, called from the event loop.             *)
UpdateMountPoints ==
  /\ recache /\ ~handler.runs
  /\ recache' = FALSE
  /\ cacher' = Dlnfs \cap mounted
  /\ UNCHANGED <<kernelVars, netVars, sourceVars, queue, handler, index, bounds, history>>

(* MountCacher::pathMatchType(p, "fuse.dlnfs"): the mount point of p is    *)
(* asked of the kernel, its type of the cache.                             *)
PathMatchType(p) == Cover(p) \cap cacher # {}

(* Mutant: the flag of the previous event is not looked at.                *)
IgnoreEvery(p, ignored) == p \in Record \/ PathMatchType(p)

(* EventAdaptor::ignoreAction *)
IgnoreAction(p, ignored) == p \in Record \/ (~ignored /\ PathMatchType(p))

(* `last' is for the history only: the event popped before in this call.   *)
Resting == [runs |-> FALSE, ignored |-> FALSE, event_count |-> 0, more |-> TRUE,
            tmpActions |-> <<>>, last |-> NoEdit]

(* Mutant: the timer waits for a second event.                             *)
HandlerStartLate ==
  /\ ~handler.runs /\ Len(queue) > 1
  /\ handler' = [Resting EXCEPT !.runs = TRUE]
  /\ UNCHANGED <<kernelVars, netVars, sourceVars, recache, cacher, queue, index, bounds, history>>

(* onHandleEvent, from the timer.  A call that finds the queue empty       *)
(* changes nothing.                                                        *)
HandlerStart ==
  /\ ~handler.runs /\ queue # <<>>
  /\ handler' = [Resting EXCEPT !.runs = TRUE]
  /\ UNCHANGED <<kernelVars, netVars, sourceVars, recache, cacher, queue, index, bounds, history>>

(* Mutants: the bound is one too high; the last event is not kept.         *)
MoreLate(count) == count <= Cap + 1
KeptButLast(actions, e, count) == IF count > Cap THEN actions ELSE Append(actions, e)

(* Whether the loop goes on after so many events.                          *)
More(count) == count <= Cap

(* tmpActions after an event that is not ignored.                          *)
Kept(actions, e, count) == Append(actions, e)

(* One turn of its loop that pops an event.                                *)
HandlerPop ==
  /\ handler.runs /\ handler.more /\ queue # <<>>
  /\ queue' = Tail(queue)
  /\ LET e == Head(queue)
         ignored == IgnoreAction(Second(e), handler.ignored)
         count == handler.event_count + 1
     IN /\ handler' = [handler EXCEPT
              !.ignored = ignored,
              !.event_count = count,
              !.more = More(count),
              !.last = e,
              !.tmpActions = IF ignored THEN @ ELSE Kept(@, e, count)]
        /\ excused' = excused \cup
             (IF (ignored /\ e.twin # "first") \/ e.src \in excused THEN {e.src, e.dst} ELSE {})
  /\ UNCHANGED <<kernelVars, netVars, sourceVars, recache, cacher, index, bounds,
                 reported, stale>>

(* Mutant: the latest edit first.                                          *)
HandlerEndReversed ==
  /\ handler.runs /\ (handler.more => queue = <<>>)
  /\ index' = ApplyAll(index, Reverse(handler.tmpActions))
  /\ handler' = Resting
  /\ UNCHANGED <<kernelVars, netVars, sourceVars, recache, cacher, queue, bounds, history>>

(* The loop has found the queue empty, or has reached the cap.             *)
HandlerEnd ==
  /\ handler.runs /\ (handler.more => queue = <<>>)
  /\ index' = ApplyAll(index, handler.tmpActions)
  /\ handler' = Resting
  /\ UNCHANGED <<kernelVars, netVars, sourceVars, recache, cacher, queue, bounds, history>>

-----------------------------------------------------------------------------
(* The constructors find the table of mounts, and the module filters every *)
(* dlnfs that is not in it.                                                *)
Init ==
  /\ files = InitFiles /\ index = InitFiles
  /\ mounted = InitMounted /\ unnamed = Dlnfs \cap InitMounted
  /\ outbox = [t \in Thread |-> <<>>] /\ held = [t \in Thread |-> {}]
  /\ work = 0 /\ cookie = 0
  /\ socket = <<>> /\ overrun = FALSE
  /\ rename_from = <<>> /\ partitions = MountTable
  /\ new_msg = FALSE /\ saved = [act |-> "none"] /\ alive = TRUE
  /\ recache = FALSE /\ cacher = Dlnfs \cap InitMounted
  /\ queue = <<>> /\ handler = Resting
  /\ ops = 0 /\ mounts = 0 /\ lost = 0
  /\ reported = {} /\ stale = FALSE /\ excused = {}

Operate(t) ==
  \/ \E p \in Files : Create(t, p) \/ Delete(t, p)
  \/ \E p, q \in Files : Rename(t, p, q)

Kernel == SendMount \/ \E t \in Thread : SendEvent(t)

Receive == ReceiveError \/ ReceiveMount \/ ReceiveMountUnread \/ ReceiveEvent

Handle == UpdateMountPoints \/ HandlerStart \/ HandlerPop \/ HandlerEnd

Next ==
  \/ \E t \in Thread : Operate(t)
  \/ \E d \in Dev \cup Dlnfs : Mount(d)
  \/ Kernel \/ Receive \/ Handle

(* Handlers end and work items run; the thread loops; the timer is         *)
(* periodic.  Nothing makes anybody operate on files.                      *)
Spec ==
  /\ Init /\ [][Next]_vars
  /\ WF_vars(SendMount) /\ \A t \in Thread : WF_vars(SendEvent(t))
  /\ WF_vars(Receive)
  /\ WF_vars(UpdateMountPoints) /\ WF_vars(HandlerStart \/ HandlerPop \/ HandlerEnd)

-----------------------------------------------------------------------------
(* Properties                                                              *)

AnyEdit ==
  {NoEdit} \cup {EditOf(k, p, <<>>, "single") : k \in {"insert", "remove"}, p \in Files}
           \cup {EditOf("rename", p, q, "single") : p, q \in Files}

(* The types of the variables that the code declares.                      *)
TypeOK ==
  /\ files \subseteq Files /\ index \subseteq Files /\ mounted \subseteq Dev \cup Dlnfs
  /\ unnamed \subseteq Dlnfs /\ cacher \subseteq Dlnfs
  /\ DOMAIN partitions \subseteq Dev \cup Dlnfs
  /\ \A i \in DOMAIN queue : Plain(queue[i]) \in AnyEdit
  /\ handler.event_count <= Cap + 1 /\ Len(handler.tmpActions) <= handler.event_count
  /\ {overrun, new_msg, alive, recache} \subseteq BOOLEAN

(* Whatever is lost, filtered or delivered again, the edits on their way   *)
(* to the index are operations that took place: no edit is put together    *)
(* from the halves of two renames or from data left in the buffers.        *)
NoForgery ==
  \A e \in Range(queue) \cup Range(handler.tmpActions) :
     e = NoEdit \/ Plain(e) \in reported

Quiescent ==
  /\ \A t \in Thread : outbox[t] = <<>>
  /\ socket = <<>> /\ ~overrun /\ alive /\ queue = <<>> /\ ~handler.runs

(* When nothing is on its way, the index has the files that exist, except  *)
(* for those of which an event was lost, filtered or wrongly ignored: in   *)
(* particular an event that is delivered again after an overrun, or twice  *)
(* by a dlnfs, does no harm, and no loss spreads to other files.           *)
Converged ==
  Quiescent => \A p \in Files \ (excused \cup Record) : p \in files <=> p \in index

(* Once the message of the last mount is handled, and the mounts could be  *)
(* read, the listener's table, the filter in the kernel and, after the     *)
(* queued call, the cache of the main thread agree with the mounts, though *)
(* each is read at its own time.                                           *)
TablesCurrent ==
  work = 0 /\ MountMsg \notin Range(socket) /\ ~stale =>
    /\ partitions = MountTable
    /\ unnamed = Dlnfs \cap mounted
    /\ ~recache => cacher = Dlnfs \cap mounted

(* The comment of onHandleEvent: of the two events of an operation in a    *)
(* dlnfs one is ignored.  If they are popped one after the other in one    *)
(* call, the operation is not lost, whatever the mounts and the cache say. *)
OneOfTwo ==
  [][ LET e == Head(queue) IN
      HandlerPop /\ e.twin = "second" /\ handler.last = [e EXCEPT !.twin = "first"]
      => e \in Range(handler'.tmpActions) \/ handler.last \in Range(handler.tmpActions) ]_vars

(* Every file that no event was missed of is in the index, or gone from    *)
(* it, in the end, unless the listener crashed.                            *)
EventuallyIndexed ==
  \A p \in Files \ Record :
    <>[](~alive \/ p \in excused \/ (p \in files <=> p \in index))

(* What the queue and its handler do implements Feed: edits are applied in *)
(* the order of their receipt, each once; only those of long file names    *)
(* may be left out.                                                        *)
Twins == {"single", "first", "second"}
Edits == {[e EXCEPT !.twin = w] : e \in AnyEdit, w \in Twins}
Waiting == handler.tmpActions \o queue
LongNames == {e \in Edits : Second(e) \in Record \/ \E d \in Dlnfs : Below(d, Second(e))}

F == INSTANCE Feed WITH pending <- Waiting, Edit <- Edits, Optional <- LongNames,
       Initial <- InitFiles, Effect <- Apply

ImplementsFeed == F!Spec
=============================================================================
