----------------------------- MODULE LftManager -----------------------------
(***************************************************************************)
(* The index manager of the server (server/backend/lib/lftmanager.cpp):    *)
(* the buffers it maps mount points to, the builds it starts in other      *)
(* threads, the index files on the disk, and what it does about events,    *)
(* mounts, D-Bus calls, timers and its own end.                            *)
(*                                                                         *)
(* One internal partition, mounted with its root at several places.  Its   *)
(* mount points are numbered in the order of their names, that is, of the  *)
(* keys of a QMap.  Everything but a scan runs in the main thread, so a    *)
(* signal, call or timer is one step.  A buffer is the set of the files in *)
(* it; FsBuf models how it holds them.                                     *)
(***************************************************************************)
EXTENDS Integers, Sequences, FiniteSets, SequencesExt

CONSTANTS
  MountPoint,   \* the places the partition may be mounted at
  File,         \* the files it may hold
  Buf,          \* addresses of buffers, more than are ever in use at once
  Job,          \* watchers of builds, likewise
  InitContent,  \* the files it holds at the start
  InitDisk,     \* the files in the automatic index file at the start
  MaxEdits,     \* bound on the file operations
  MaxActs,      \* bound on the mounts, calls, failures and ends of the server
  Null, Absent, Broken \* no object; no index file; one that does not load

(* Index files: built automatically (LFT), or asked for by a user (lft).   *)
Suffix == {"LFT", "lft"}

(* The builds: the mount points a build is for, whether automatic indexing *)
(* asked for it, the places it has still to go to and the files it found,  *)
(* and its result.                                                         *)
Builds ==
  [paths : Seq(MountPoint), auto : BOOLEAN, todo : SUBSET File, seen : SUBSET File,
   buf : Buf \cup {Null}, done : BOOLEAN, canceled : BOOLEAN]

ASSUME ManagerAssumptions ==
  /\ MountPoint \subseteq Nat /\ IsFiniteSet(MountPoint) /\ 1 \in MountPoint
  /\ InitContent \subseteq File /\ InitDisk \subseteq File
  /\ {MaxEdits, MaxActs} \subseteq Nat
  /\ Buf \cap Job = {} /\ (Buf \cup Job) \cap Suffix = {}
  /\ Null \notin Buf /\ Null \notin Job /\ Null \notin Suffix /\ Null \notin File /\ \A S \in SUBSET File : S # Null
  /\ Null \notin Builds

VARIABLES
  content,   \* the files that exist on the partition
  mounts,    \* its mount points, in the order udisks names them
  events,    \* edits that the event queue has still to hand over
  signals,   \* signals of udisks on their way to the main thread
  alive,     \* whether the server runs
  due,       \* the timers of the constructor that have not fired
  auto,      \* the setting autoIndexInternal
  st,        \* the manager's memory and the index files: see TypeOK
  edits, acts \* how much of each bound is used

vars == <<content, mounts, events, signals, alive, due, auto, st, edits, acts>>

-----------------------------------------------------------------------------
(* Buffers and index files.  Each operator takes the state s of the        *)
(* manager and returns the next one.  missed and rivals are history        *)
(* variables: the buffers, scans and index files that an edit has passed   *)
(* by, and the buffers that shared an index file with another one.         *)

(* F of the value of e, which TLC then computes once.                      *)
With(e, F(_)) == CHOOSE r \in {F(x) : x \in {e}} : TRUE

(* f with the value v at the places in S.                                  *)
Put(f, S, v) == [x \in DOMAIN f |-> IF x \in S THEN v ELSE f[x]]

Mapped(s) == {s.map[p] : p \in MountPoint} \ {Null}
Allocated(s) == {b \in Buf : s.data[b] # Null}
Unused(s) == Buf \ Allocated(s)
Active(s) == {j \in Job : s.job[j] # Null}

(* doLFTFileToDirty: the index files of the buffers bs are removed.        *)
DropFiles(s, bs) ==
  [s EXCEPT !.disk = Put(@, {s.file[b] : b \in bs} \ {Null}, Absent)]

FreeBufs(s, bs) ==
  [s EXCEPT !.data = Put(@, bs, Null), !.missed = @ \ bs, !.rivals = @ \ bs]

(* Mutant: a second mount point keeps the buffer.                          *)
RemoveBufOneKey(s, bs, removeLFTFile) ==
  LET t == IF removeLFTFile THEN DropFiles(s, bs) ELSE s
      Key(b) == CHOOSE p \in MountPoint : s.map[p] = b
  IN FreeBufs([t EXCEPT !.map = Put(@, {p \in MountPoint : @[p] \in bs /\ p = Key(@[p])}, Null),
                        !.dirty = @ \ bs,
                        !.file = Put(@, bs, Null)], bs)

(* removeBuf, for each of the buffers bs.                                  *)
RemoveBuf(s, bs, removeLFTFile) ==
  LET t == IF removeLFTFile THEN DropFiles(s, bs) ELSE s
  IN FreeBufs([t EXCEPT !.map = Put(@, {p \in MountPoint : @[p] \in bs}, Null),
                        !.dirty = @ \ bs,
                        !.file = Put(@, bs, Null)], bs)

(* A buffer takes the place of what its mount points were mapped to.       *)
MapTo(s, paths, b) ==
  [RemoveBuf(s, {s.map[p] : p \in paths} \ {Null}, FALSE) EXCEPT
     !.map = Put(@, paths, b)]

Register(s, b, x) ==
  LET others == {c \in Buf \ {b} : x # Null /\ s.file[c] = x}
  IN [s EXCEPT !.file[b] = x, !.rivals = IF others = {} THEN @ ELSE @ \cup others \cup {b}]

(* sync: the buffers of paths are written in the order of their first      *)
(* paths, in place.  failure: the files cannot be opened, or not written   *)
(* to the end.                                                             *)
FirstKey(s, paths, b) == CHOOSE p \in paths : s.map[p] = b /\ \A q \in paths : s.map[q] = b => p <= q

Sync(s, paths, failure) ==
  LET saved == {b \in {s.map[p] : p \in paths} \ {Null} : s.file[b] # Null}
      LastOf(x) == CHOOSE b \in saved : s.file[b] = x /\
        \A c \in saved : s.file[c] = x => FirstKey(s, paths, c) <= FirstKey(s, paths, b)
      written == {s.file[b] : b \in saved}
  IN CASE failure = "open" -> s
       [] failure = "write" -> [s EXCEPT !.disk = Put(@, written, Broken)]
       [] failure = "none" ->
            [s EXCEPT !.disk = [x \in Suffix |-> IF x \in written THEN s.data[LastOf(x)] ELSE @[x]],
                      !.dirty = @ \ saved,
                      !.missed = (@ \ written) \cup {x \in written : LastOf(x) \in @}]

(* Mutant: the dirty list is emptied, and the files stay.                  *)
CleanDirtyFilesStay(s) == [s EXCEPT !.dirty = {}]

(* cleanDirtyLFTFiles: what could not be saved leaves no older file.       *)
CleanDirty(s) == [DropFiles(s, s.dirty) EXCEPT !.dirty = {}]

SyncAll(s, failure) == With(Sync(s, MountPoint, failure), CleanDirty)

-----------------------------------------------------------------------------
(* Builds                                                                  *)

NewJob(paths, autoIndex) ==
  [paths |-> paths, auto |-> autoIndex, todo |-> File, seen |-> {}, buf |-> Null, done |-> FALSE, canceled |-> FALSE]

(* addPath for a mount point.  A path has a serial URI only while it is a  *)
(* mount point; the build is then for all of them, from the first one.     *)
AddPath(s, p, autoIndex) ==
  IF s.watch[p] # Null \/ p \notin ToSet(mounts) THEN s
  ELSE LET j == CHOOSE j \in Job : s.job[j] = Null
       IN [s EXCEPT !.job[j] = NewJob(mounts, autoIndex),
                    !.watch = Put(@, ToSet(mounts), j),
                    !.building[Head(mounts)] = @ + 1]

(* Mutant: the entries of the equivalent paths stay.                       *)
CancelBuildOnePath(s, p) ==
  IF s.watch[p] = Null THEN s
  ELSE LET j == s.watch[p]
       IN [s EXCEPT !.job[j].canceled = TRUE, !.job[j].done = TRUE, !.job[j].buf = Null,
                    !.leaked = @ \cup ({s.job[j].buf} \ {Null}),
                    !.watch[p] = Null]

(* cancelBuild for the builds js, with its wait for the workers, which     *)
(* stop at the next progress report.  A result that is already there is    *)
(* lost.                                                                   *)
Cancel(s, js) ==
  [s EXCEPT !.job = [j \in Job |-> IF j \in js THEN [@[j] EXCEPT !.canceled = TRUE, !.done = TRUE, !.buf = Null] ELSE @[j]],
            !.leaked = @ \cup ({s.job[j].buf : j \in js} \ {Null}),
            !.watch = Put(@, {q \in MountPoint : @[q] \in js}, Null)]

CancelBuild(s, p) == Cancel(s, {s.watch[p]} \ {Null})

(* _addPathByPartition: all mounts have the root of the partition.         *)
AddPathByPartition(s) == IF auto /\ mounts # <<>> THEN AddPath(s, Head(mounts), TRUE) ELSE s

(* _indexAll                                                               *)
IndexAll(s, force, autoIndex) ==
  LET t == [s EXCEPT !.building = [p \in MountPoint |-> 0]]
  IN IF mounts = <<>> \/ ~autoIndex \/ (~force /\ s.map[Head(mounts)] # Null) THEN t
     ELSE AddPath(t, Head(mounts), TRUE)

(* allowablePath, allowableBuf: what users have asked for is not subject   *)
(* to the setting of automatic indexing.                                   *)
Allowable(automatic, autoIndex) == automatic => autoIndex
NotAllowed(s) == {b \in Mapped(s) : ~Allowable(s.file[b] # "lft", FALSE)}

(* _cleanAllIndex, when automatic indexing is switched off.                *)
Cleaned(s) == {j \in Active(s) : ~Allowable(s.job[j].auto, FALSE) /\ \E p \in MountPoint : s.watch[p] = j}

CleanAllIndex(s) == Cancel(RemoveBuf(s, NotAllowed(s), TRUE), Cleaned(s))

(* It looks up every path that was a key when it started.  Cancelling the  *)
(* build of one path removes the equivalent paths: the next lookup returns *)
(* a null pointer, and the server crashes.                                 *)
CleanAllCrashes(s) ==
  \E j \in Cleaned(s), p, q \in MountPoint : p # q /\ s.watch[p] = j /\ s.watch[q] = j

-----------------------------------------------------------------------------
(* Loading                                                                 *)

(* One index file of refresh.  An empty one is to be built again, but the  *)
(* path it names ends with a slash, which no mount point does: addPath     *)
(* finds no serial URI.                                                    *)
Load(s, x) ==
  IF mounts = <<>> \/ s.disk[x] \in {Absent, Broken, {}} THEN s
  ELSE LET b == CHOOSE b \in Unused(s) : TRUE
           Filled(t) == [t EXCEPT !.data[b] = s.disk[x], !.missed = IF x \in @ THEN @ \cup {b} ELSE @]
       IN With(MapTo(Filled(s), ToSet(mounts), b), LAMBDA t : Register(t, b, x))

(* refresh, which finds the files in any order.                            *)
Refresh(s, order) == With(Load(s, order[1]), LAMBDA t : Load(t, order[2]))

Order == {<<"LFT", "lft">>, <<"lft", "LFT">>}

(* onMountAdded: nothing is built if a file was loaded for the path.       *)
OnMountAdded(s, p, order) ==
  LET loaded == \E x \in Suffix : s.disk[x] \notin {Absent, Broken, {}}
  IN With(Refresh(s, order),
          LAMBDA t : IF loaded \/ p \notin ToSet(mounts) THEN t ELSE AddPathByPartition(t))

(* onMountRemoved                                                          *)
OnMountRemoved(s, p, failure) ==
  LET b == s.map[p]
      t == IF b \in s.dirty THEN Sync(s, {p}, failure) ELSE s
  IN IF b = Null THEN s
     ELSE IF s.watch[p] # Null THEN CancelBuild(s, p)
     ELSE With(t, LAMBDA u : RemoveBuf(u, {b}, FALSE))

(* removePath.  The path is taken from the map before anything is checked. *)
RemovePath(s, p, order) ==
  LET b == s.map[p]
      t == [s EXCEPT !.map[p] = Null]
      u == RemoveBuf(t, {b}, TRUE)
  IN IF b = Null THEN s
     ELSE IF s.file[b] = "LFT"
     THEN [t EXCEPT !.leaked = IF b \in Mapped(t) THEN @ ELSE @ \cup {b}]
     ELSE IF s.file[b] = Null \/ s.disk["lft"] = Absent THEN u
     ELSE With(u, LAMBDA v : IF p \in ToSet(mounts) THEN OnMountAdded(v, p, order) ELSE v)

-----------------------------------------------------------------------------
(* The partition                                                           *)

Memory(disk, missed) ==
  [map |-> [p \in MountPoint |-> Null], file |-> [b \in Buf |-> Null], dirty |-> {},
   data |-> [b \in Buf |-> Null], watch |-> [p \in MountPoint |-> Null],
   building |-> [p \in MountPoint |-> 0], job |-> [j \in Job |-> Null],
   disk |-> disk, missed |-> missed, rivals |-> {}, leaked |-> {}]

Timers(autoIndex) == {"refresh"} \cup (IF autoIndex THEN {"index"} ELSE {})

Init ==
  /\ content = InitContent /\ mounts = <<1>> /\ events = <<>> /\ signals = <<>>
  /\ alive = TRUE /\ auto = TRUE /\ due = Timers(TRUE) /\ edits = 0 /\ acts = 0
  /\ st = Memory([x \in Suffix |-> IF x = "LFT" THEN InitDisk ELSE Absent],
                 IF InitDisk = InitContent THEN {} ELSE Suffix)

Act == acts < MaxActs /\ acts' = acts + 1 /\ UNCHANGED edits

Applied(d, e) ==
  CASE e.op = "insert" -> d \cup {e.file}
    [] e.op = "remove" -> d \ {e.file}
    [] e.op = "rename" -> IF e.file \in d THEN (d \ {e.file}) \cup {e.to} ELSE d

Edits ==
  [op : {"insert"}, file : File \ content, to : {Null}]
    \cup [op : {"remove"}, file : content, to : {Null}]
    \cup {e \in [op : {"rename"}, file : content, to : File] : e.file # e.to}

(* A file operation.  The kernel names it by the first mount point.        *)
Operate(e) ==
  /\ edits < MaxEdits /\ edits' = edits + 1 /\ mounts # <<>>
  /\ content' = Applied(content, e)
  /\ IF alive
     THEN events' = Append(events, [at |-> Head(mounts), edit |-> e]) /\ UNCHANGED st
     ELSE st' = [st EXCEPT !.missed = @ \cup Suffix] /\ UNCHANGED events
  /\ UNCHANGED <<mounts, signals, alive, due, auto, acts>>

Signal(kinds, p) ==
  signals' = IF alive THEN signals \o [i \in DOMAIN kinds |-> [kind |-> kinds[i], path |-> p]] ELSE signals

Mount(p) ==
  /\ Act /\ p \notin ToSet(mounts)
  /\ mounts' = Append(mounts, p) /\ Signal(<<"mounted">>, p)
  /\ UNCHANGED <<content, events, alive, due, auto, st>>

Unmount(p) ==
  /\ Act /\ \E i \in DOMAIN mounts : mounts[i] = p /\ mounts' = RemoveAt(mounts, i)
  /\ Signal(<<"unmounted">>, p)
  /\ UNCHANGED <<content, events, alive, due, auto, st>>

(* The partition is taken out, filled elsewhere or formatted, and mounted  *)
(* again; by then the events of its files have long been handled.          *)
Replug(p) ==
  /\ Act /\ mounts = <<>> /\ events = <<>>
  /\ content' \in SUBSET File \ {content}
  /\ mounts' = <<p>> /\ Signal(<<"plugged", "mounted">>, p)
  /\ st' = [st EXCEPT !.missed = Suffix \cup Allocated(st) \cup Active(st)]
  /\ UNCHANGED <<events, alive, due, auto>>

-----------------------------------------------------------------------------
(* Builds, in the threads of the pool                                      *)

Running(j) == st.job[j] # Null /\ ~st.job[j].done

(* The scan comes to the place of a file.                                  *)
Scan(j, f) ==
  /\ Running(j) /\ f \in st.job[j].todo
  /\ st' = [st EXCEPT !.job[j].todo = @ \ {f}, !.job[j].seen = @ \cup ({f} \cap content)]
  /\ UNCHANGED <<content, mounts, events, signals, alive, due, auto, edits, acts>>

(* Mutant: a scan that stops early is taken for the whole.                 *)
EndBuildEarly(j) ==
  /\ Running(j) /\ st.job[j].seen # {}
  /\ LET b == CHOOSE b \in Unused(st) : TRUE
         s == [st EXCEPT !.job[j].done = TRUE, !.job[j].buf = b]
     IN st' = [s EXCEPT !.data[b] = st.job[j].seen, !.missed = IF j \in @ THEN @ \cup {b} ELSE @]
  /\ UNCHANGED <<content, mounts, events, signals, alive, due, auto, edits, acts>>

(* buildFSBuf returns; a buffer without files fails checkFSBuf.            *)
EndBuild(j) ==
  /\ Running(j) /\ st.job[j].todo = {}
  /\ LET b == IF st.job[j].seen = {} THEN Null ELSE CHOOSE b \in Unused(st) : TRUE
         s == [st EXCEPT !.job[j].done = TRUE, !.job[j].buf = b]
     IN st' = IF b = Null THEN s
              ELSE [s EXCEPT !.data[b] = st.job[j].seen, !.missed = IF j \in @ THEN @ \cup {b} ELSE @]
  /\ UNCHANGED <<content, mounts, events, signals, alive, due, auto, edits, acts>>

-----------------------------------------------------------------------------
(* The main thread                                                         *)

(* What a save may do; a failure is counted.                               *)
Outcome(failure) == IF failure = "none" THEN UNCHANGED <<edits, acts>> ELSE Act

Failures == {"none", "open", "write"}

(* Mutant: a build without a result stays in building_paths.               *)
ForgetBuilding(s, j) ==
  LET paths == ToSet(s.job[j].paths)
  IN [s EXCEPT !.job[j] = Null, !.missed = @ \ {j}, !.watch = Put(@, paths, Null),
               !.building = [p \in MountPoint |-> IF p \in paths /\ @[p] > 0 /\ s.job[j].buf # Null THEN @[p] - 1 ELSE @[p]]]

(* Mutant: every path of the build is counted down.                        *)
ForgetCounting(s, j) ==
  LET paths == ToSet(s.job[j].paths)
  IN [s EXCEPT !.job[j] = Null, !.missed = @ \ {j}, !.watch = Put(@, paths, Null),
               !.building = [p \in MountPoint |-> IF p \in paths THEN @[p] - 1 ELSE @[p]]]

(* What the handler of `finished' makes of the job.                        *)
Forget(s, j) ==
  LET paths == ToSet(s.job[j].paths)
  IN [s EXCEPT !.job[j] = Null, !.missed = @ \ {j}, !.watch = Put(@, paths, Null),
               !.building = [p \in MountPoint |-> IF p \in paths /\ @[p] > 0 THEN @[p] - 1 ELSE @[p]]]

(* getLFTFileByPath                                                        *)
FileOf(job) == IF Head(job.paths) \notin ToSet(mounts) THEN Null ELSE IF job.auto THEN "LFT" ELSE "lft"

Accept(s, job, b) ==
  With(MapTo(s, ToSet(job.paths), b),
       LAMBDA t : [Register(t, b, FileOf(job)) EXCEPT !.dirty = @ \cup {b}])

(* The handler of `finished' in addPath.  It discards the result of a      *)
(* build whose path has been cancelled -- or whose entry an earlier,       *)
(* cancelled build of the same path has just removed.                      *)
FinishJob(j, failure) ==
  /\ st.job[j] # Null /\ st.job[j].done
  /\ LET path == Head(st.job[j].paths)
         b == st.job[j].buf
         taken == IF b = Null THEN st
                  ELSE IF st.watch[path] = Null \/ ~Allowable(st.job[j].auto, auto) THEN FreeBufs(st, {b})
                  ELSE Accept(st, st.job[j], b)
     IN \E s \in {With(taken, LAMBDA t : Forget(t, j))} :
          IF \A p \in MountPoint : s.building[p] = 0
          THEN st' = SyncAll(s, failure)
          ELSE st' = s /\ failure = "none"
  /\ Outcome(failure)
  /\ UNCHANGED <<content, mounts, events, signals, alive, due, auto>>

(* What an edit passes by: buffers that are not mapped to its path, scans  *)
(* that have been at the file, buffers that lack the source of a rename,   *)
(* which a scan may miss under both names, and index files that do not     *)
(* equal a buffer that follows the edit.                                   *)
PassedBy(b, e) ==
  LET sourceless == b # Null /\ e.op = "rename" /\ {e.file, e.to} \cap st.data[b] = {}
      follows(x) == b # Null /\ b \notin st.missed /\ ~sourceless /\ st.disk[x] = Applied(st.data[b], e)
  IN (Allocated(st) \ {b})
       \cup {j \in Active(st) : ~({e.file, e.to} \ {Null} \subseteq st.job[j].todo)}
       \cup {x \in Suffix : ~follows(x)}
       \cup (IF sourceless THEN {b} ELSE {})

(* The buffer of the mount point that a path is below: of a path whose     *)
(* mount is gone there is none.                                            *)
getFsBufByPath(at) == IF at \in ToSet(mounts) THEN st.map[at] ELSE Null

(* onFileChanged: insertFileToLFTBuf, removeFileFromLFTBuf and             *)
(* renameFileOfLFTBuf.  They wait for no build: without a buffer mapped to *)
(* the mount point there is no path, and they return before they would.    *)
HandleEvent ==
  /\ events # <<>>
  /\ LET e == Head(events).edit
         b == getFsBufByPath(Head(events).at)
         s == [st EXCEPT !.missed = @ \cup PassedBy(b, e)]
     IN st' = IF b = Null \/ Applied(s.data[b], e) = s.data[b] THEN s
              ELSE [s EXCEPT !.data[b] = Applied(@, e), !.dirty = @ \cup {b}]
  /\ events' = Tail(events)
  /\ UNCHANGED <<content, mounts, signals, alive, due, auto, edits, acts>>

(* onMountAdded, onMountRemoved; onFSRemoved with onFSAdded, which remove  *)
(* the automatic index files of the partition.                             *)
HandleMounted(order) ==
  /\ signals # <<>> /\ Head(signals).kind = "mounted"
  /\ st' = OnMountAdded(st, Head(signals).path, order)
  /\ signals' = Tail(signals)
  /\ UNCHANGED <<content, mounts, events, alive, due, auto, edits, acts>>

HandleUnmounted(failure) ==
  /\ signals # <<>> /\ Head(signals).kind = "unmounted"
  /\ st' = OnMountRemoved(st, Head(signals).path, failure)
  /\ failure = "none" \/ st.map[Head(signals).path] \in st.dirty
  /\ signals' = Tail(signals) /\ Outcome(failure)
  /\ UNCHANGED <<content, mounts, events, alive, due, auto>>

HandlePlugged ==
  /\ signals # <<>> /\ Head(signals).kind = "plugged"
  /\ st' = [st EXCEPT !.disk["LFT"] = Absent]
  /\ signals' = Tail(signals)
  /\ UNCHANGED <<content, mounts, events, alive, due, auto, edits, acts>>

(* The timers of the constructor, after 1 s and 30 s, and the one that     *)
(* saves every 10 minutes.                                                 *)
RefreshTimer(order) ==
  /\ "refresh" \in due /\ due' = due \ {"refresh"}
  /\ st' = Refresh(st, order)
  /\ UNCHANGED <<content, mounts, events, signals, alive, auto, edits, acts>>

IndexAllDelay ==
  /\ due = {"index"} /\ due' = {}
  /\ st' = IndexAll(st, TRUE, auto)
  /\ UNCHANGED <<content, mounts, events, signals, alive, auto, edits, acts>>

SyncTimer(failure) ==
  /\ alive /\ st' = SyncAll(st, failure) /\ Outcome(failure)
  /\ UNCHANGED <<content, mounts, events, signals, alive, due, auto>>

(* The methods of the D-Bus interface that change something.               *)
Method(s) ==
  /\ alive /\ Act /\ st' = s
  /\ UNCHANGED <<content, mounts, events, signals, alive, due, auto>>

CallAddPath(p) == Method(AddPath(st, p, FALSE))
CallRemovePath(p, order) == Method(RemovePath(st, p, order))
CallCancelBuild(p) == Method(CancelBuild(st, p))
CallRefresh(order) == Method(Refresh(st, order))
CallSync(p) == Method(Sync(st, {p}, "none"))

(* The process ends: what is left are the index files.  Events on their    *)
(* way are lost.                                                           *)
End(s) ==
  /\ st' = Memory(s.disk, (s.missed \cap Suffix) \cup (IF events = <<>> THEN {} ELSE Suffix))
  /\ events' = <<>> /\ signals' = <<>> /\ due' = {} /\ alive' = FALSE

SetAutoIndexInternal ==
  /\ alive /\ Act
  /\ IF auto /\ CleanAllCrashes(st)
     THEN End(RemoveBuf(st, NotAllowed(st), TRUE)) /\ UNCHANGED auto
     ELSE /\ auto' = ~auto
          /\ st' = IF auto THEN CleanAllIndex(st) ELSE IndexAll(st, FALSE, TRUE)
          /\ UNCHANGED <<events, signals, due, alive>>
  /\ UNCHANGED <<content, mounts>>

(* The destructor, at the exit of the process.  The static maps were first *)
(* used after the manager was constructed, so they are destroyed before    *)
(* it: sync, clearFsBufMap and cleanDirtyLFTFiles find none of them, and   *)
(* nothing is saved or removed.                                            *)
Quit ==
  /\ alive /\ Act
  /\ End(st)
  /\ UNCHANGED <<content, mounts, auto>>

(* A crash, or _exit(1) by the monitor of the CPU, perhaps during a save.  *)
Crash(torn) ==
  /\ alive /\ Act
  /\ torn = Null \/ torn \in {st.file[b] : b \in Mapped(st)}
  /\ End([st EXCEPT !.disk = Put(@, {torn} \ {Null}, Broken)])
  /\ UNCHANGED <<content, mounts, auto>>

Restart ==
  /\ ~alive /\ alive' = TRUE /\ due' = Timers(auto)
  /\ UNCHANGED <<content, mounts, events, signals, auto, st, edits, acts>>

Next ==
  \/ \E e \in Edits : Operate(e)
  \/ \E p \in MountPoint : Mount(p) \/ Unmount(p) \/ Replug(p) \/ CallAddPath(p) \/ CallCancelBuild(p) \/ CallSync(p)
  \/ \E p \in MountPoint, order \in Order : CallRemovePath(p, order)
  \/ \E order \in Order : CallRefresh(order) \/ RefreshTimer(order) \/ HandleMounted(order)
  \/ \E j \in Job : EndBuild(j) \/ \E f \in File : Scan(j, f)
  \/ \E failure \in Failures :
       SyncTimer(failure) \/ HandleUnmounted(failure) \/ \E j \in Job : FinishJob(j, failure)
  \/ \E torn \in Suffix \cup {Null} : Crash(torn)
  \/ HandleEvent \/ HandlePlugged \/ IndexAllDelay \/ SetAutoIndexInternal \/ Quit \/ Restart

(* The threads of the pool run, and the main thread comes to the signal    *)
(* that a build has finished.                                              *)
Spec ==
  /\ Init /\ [][Next]_vars
  /\ \A j \in Job :
       /\ WF_vars(EndBuild(j)) /\ WF_vars(FinishJob(j, "none"))
       /\ \A f \in File : WF_vars(Scan(j, f))

-----------------------------------------------------------------------------
(* Properties                                                              *)

(* The memory does not run out: two buffers, which is what refresh may     *)
(* load, and a watcher can still be allocated.  The theorems of            *)
(* LftManagerProofs assume it.                                             *)
Spacious(s) == \E b, c \in Unused(s) : b # c
Roomy(s) == Spacious(s) /\ \E j \in Job : s.job[j] = Null
Room == Roomy(st)

(* The types of the static maps of lftmanager.cpp, of the builds and of    *)
(* the index files; building_paths never counts below zero.                *)
TypeOK ==
  /\ content \subseteq File /\ mounts \in Seq(MountPoint) /\ IsInjective(mounts)
  /\ due \subseteq {"refresh", "index"} /\ alive \in BOOLEAN /\ auto \in BOOLEAN /\ edits \in 0..MaxEdits /\ acts \in 0..MaxActs
  /\ st.map \in [MountPoint -> Buf \cup {Null}]
  /\ st.data \in [Buf -> (SUBSET File) \cup {Null}]
  /\ st.file \in [Buf -> Suffix \cup {Null}]
  /\ st.dirty \subseteq Buf /\ st.leaked \cup st.rivals \subseteq Buf
  /\ st.watch \in [MountPoint -> Job \cup {Null}]
  /\ st.building \in [MountPoint -> Nat]
  /\ st.job \in [Job -> Builds \cup {Null}]
  /\ st.disk \in [Suffix -> (SUBSET File) \cup {Absent, Broken}]
  /\ st.missed \subseteq Buf \cup Job \cup Suffix

(* removeBuf frees a buffer that several paths may be mapped to, from four *)
(* callers: no map, list or key refers to a freed buffer, and a buffer     *)
(* that is not freed can still be reached -- unless removePath or          *)
(* cancelBuild has leaked it.                                              *)
Owned ==
  LET results == {st.job[j].buf : j \in Active(st)} \ {Null}
  IN /\ Mapped(st) \cup st.dirty \cup {b \in Buf : st.file[b] # Null} \subseteq Allocated(st)
     /\ Allocated(st) = Mapped(st) \cup results \cup st.leaked
     /\ Mapped(st) \cap results = {} /\ st.leaked \cap (Mapped(st) \cup results) = {}

(* _global_fsWatcherMap holds raw pointers to watchers that delete         *)
(* themselves: an entry is always that of a build under way, for this      *)
(* path, and not of a cancelled one.                                       *)
WatchersLive ==
  \A p \in MountPoint : st.watch[p] # Null =>
    LET j == st.job[st.watch[p]] IN j # Null /\ ~j.canceled /\ p \in ToSet(j.paths)

(* The dirty list is what keeps a restart from loading an older index: the *)
(* file of a buffer that is not in it has the same content, or none, as    *)
(* long as no second buffer was registered for that file.                  *)
CleanMatchesDisk ==
  \A b \in Mapped(st) \ st.dirty :
    st.file[b] = Null \/ b \in st.rivals
      \/ st.disk[st.file[b]] \in {Absent, Broken, st.data[b]}

(* Through builds, reloads, crashes and remounts: when no event is         *)
(* waiting, an index that no edit has passed by is the content of the      *)
(* partition.  PassedBy lists the ways an edit may do that.                *)
IndexExact ==
  alive /\ events = <<>> =>
    \A p \in ToSet(mounts) :
      st.map[p] # Null /\ st.map[p] \notin st.missed => st.data[st.map[p]] = content

(* building_paths: buildFinished, which lifts the limit on the CPU and     *)
(* saves the indices, comes after every build, whatever was cancelled,     *)
(* restarted or discarded meanwhile.                                       *)
BuildsEnd == (\E p \in MountPoint : st.building[p] > 0) ~> (\A p \in MountPoint : st.building[p] = 0)
=============================================================================
