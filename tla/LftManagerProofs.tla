-------------------------- MODULE LftManagerProofs --------------------------
(***************************************************************************)
(* What the index manager keeps of its buffers, of the watchers of its     *)
(* builds and of the dirty list, for any number of mount points, files and *)
(* builds, as long as the memory does not run out: Room.                   *)
(***************************************************************************)
EXTENDS LftManager, FiniteSetTheorems, WellFoundedInduction, NaturalsInduction, TLAPS

-----------------------------------------------------------------------------
(* The inductive invariant, stated of a memory s so that it can be         *)
(* followed through the operators that change one.                         *)

Memories ==
  [map : [MountPoint -> Buf \cup {Null}], data : [Buf -> (SUBSET File) \cup {Null}],
   file : [Buf -> Suffix \cup {Null}], dirty : SUBSET Buf,
   leaked : SUBSET Buf, rivals : SUBSET Buf,
   watch : [MountPoint -> Job \cup {Null}], building : [MountPoint -> Nat],
   job : [Job -> Builds \cup {Null}], disk : [Suffix -> (SUBSET File) \cup {Absent, Broken}],
   missed : SUBSET (Buf \cup Job \cup Suffix)]

(* The buffers that builds have finished and main has not yet looked at.   *)
Results(s) == {s.job[j].buf : j \in Active(s)} \ {Null}

(* A buffer that is allocated is mapped, in K or leaked, and only one of   *)
(* the three; nothing refers to one that is not.  Within an operation K    *)
(* also holds the buffers that the code has at hand.                       *)
Kept(s, K) ==
  \A b \in Buf :
    /\ s.data[b] # Null <=> b \in Mapped(s) \cup K \cup s.leaked
    /\ b \in K => b \notin Mapped(s) \cup s.leaked \cup s.dirty /\ s.file[b] = Null
    /\ b \in s.leaked => b \notin Mapped(s)
    /\ b \in s.dirty \/ s.file[b] # Null => s.data[b] # Null

Rivals(s) ==
  \A b, c \in Buf : b # c /\ s.file[b] # Null /\ s.file[b] = s.file[c] => b \in s.rivals

Clean(s, B) ==
  \A b \in B : b \in Mapped(s) \ s.dirty =>
    s.file[b] = Null \/ b \in s.rivals \/ s.disk[s.file[b]] \in {Absent, Broken, s.data[b]}

Fit(s, K) == s \in Memories /\ K \subseteq Buf /\ Kept(s, K) /\ Rivals(s) /\ Clean(s, Buf)

Watched(s) ==
  \A p \in MountPoint : s.watch[p] # Null =>
    LET j == s.job[s.watch[p]] IN j # Null /\ ~j.canceled /\ p \in ToSet(j.paths)

(* No two builds have the same result.                                     *)
Apart(s) ==
  \A j, k \in Active(s) : j # k /\ s.job[j].buf # Null => s.job[j].buf # s.job[k].buf

(* A build is for some path, and has a result only when it is done.        *)
Started(s) ==
  \A j \in Active(s) : s.job[j].paths # <<>> /\ (~ s.job[j].done => s.job[j].buf = Null)

Good(s) == Fit(s, Results(s)) /\ Watched(s) /\ Apart(s) /\ Started(s)

Bounds ==
  /\ content \subseteq File /\ mounts \in Seq(MountPoint) /\ IsInjective(mounts)
  /\ due \subseteq {"refresh", "index"} /\ alive \in BOOLEAN /\ auto \in BOOLEAN
  /\ edits \in 0 .. MaxEdits /\ acts \in 0 .. MaxActs

(* What is on its way to the main thread.                                  *)
Edit ==
  [op : {"insert", "remove"}, file : File, to : {Null}] \cup [op : {"rename"}, file : File, to : File]

Coming ==
  /\ events \in Seq([at : MountPoint, edit : Edit])
  /\ signals \in Seq([kind : {"mounted", "unmounted", "plugged"}, path : MountPoint])

IInv == Bounds /\ Coming /\ Good(st)

-----------------------------------------------------------------------------
(* The fields that the operators on buffers leave alone.                   *)
SameBuilds(s, t) == t.watch = s.watch /\ t.job = s.job

LEMMA MappedIs ==
  ASSUME NEW s \in Memories, NEW b \in Buf
  PROVE  b \in Mapped(s) <=> \E p \in MountPoint : s.map[p] = b
BY ManagerAssumptions DEF Mapped

LEMMA MappedType ==
  ASSUME NEW s \in Memories
  PROVE  Mapped(s) \subseteq Buf
BY DEF Mapped, Memories

LEMMA DropFilesIs ==
  ASSUME NEW s \in Memories, NEW bs \in SUBSET Buf, NEW t, t = DropFiles(s, bs)
  PROVE  /\ t \in Memories
         /\ t.map = s.map /\ t.data = s.data /\ t.file = s.file /\ t.dirty = s.dirty
         /\ t.leaked = s.leaked /\ t.rivals = s.rivals /\ t.building = s.building
         /\ t.watch = s.watch /\ t.job = s.job
         /\ \A x \in Suffix : t.disk[x] = IF \E b \in bs : s.file[b] = x THEN Absent ELSE s.disk[x]
<1> DEFINE d == Put(s.disk, {s.file[b] : b \in bs} \ {Null}, Absent)
<1>1. DOMAIN s.disk = Suffix
  BY DEF Memories
<1>2. \A x \in Suffix : d[x] = IF \E b \in bs : s.file[b] = x THEN Absent ELSE s.disk[x]
  BY <1>1, ManagerAssumptions DEF Put
<1>3. d \in [Suffix -> (SUBSET File) \cup {Absent, Broken}]
  BY <1>1 DEF Put, Memories
<1>4. t = [s EXCEPT !.disk = d]
  BY DEF DropFiles
<1> HIDE DEF d
<1> QED BY <1>2, <1>3, <1>4 DEF Memories

LEMMA FreeBufsIs ==
  ASSUME NEW s \in Memories, NEW bs \in SUBSET Buf, NEW t, t = FreeBufs(s, bs)
  PROVE  /\ t \in Memories
         /\ t.map = s.map /\ t.file = s.file /\ t.dirty = s.dirty /\ t.disk = s.disk
         /\ t.leaked = s.leaked /\ t.rivals = s.rivals \ bs /\ t.building = s.building
         /\ t.watch = s.watch /\ t.job = s.job
         /\ \A b \in Buf : t.data[b] = IF b \in bs THEN Null ELSE s.data[b]
<1> DEFINE d == Put(s.data, bs, Null)
<1>1. DOMAIN s.data = Buf
  BY DEF Memories
<1>2. \A b \in Buf : d[b] = IF b \in bs THEN Null ELSE s.data[b]
  BY <1>1 DEF Put
<1>3. d \in [Buf -> (SUBSET File) \cup {Null}]
  BY <1>1 DEF Put, Memories
<1>4. t = [s EXCEPT !.data = d, !.missed = @ \ bs, !.rivals = @ \ bs]
  BY DEF FreeBufs
<1> HIDE DEF d
<1> QED BY <1>2, <1>3, <1>4, ZenonT(60) DEF Memories

(* t is s without the buffers bs and, if r, without their index files.     *)
Removed(s, t, bs, r) ==
  /\ t \in Memories
  /\ \A p \in MountPoint : t.map[p] = IF s.map[p] \in bs THEN Null ELSE s.map[p]
  /\ \A b \in Buf : t.data[b] = IF b \in bs THEN Null ELSE s.data[b]
  /\ \A b \in Buf : t.file[b] = IF b \in bs THEN Null ELSE s.file[b]
  /\ t.dirty = s.dirty \ bs /\ t.rivals = s.rivals \ bs /\ t.leaked = s.leaked
  /\ r = FALSE => t.disk = s.disk
  /\ \A x \in Suffix : t.disk[x] \in {Absent, s.disk[x]}
  /\ r = TRUE => \A x \in Suffix, b \in bs : s.file[b] = x => t.disk[x] = Absent
  /\ t.building = s.building /\ t.watch = s.watch /\ t.job = s.job

LEMMA RemoveBufIs ==
  ASSUME NEW s \in Memories, NEW bs \in SUBSET Buf, NEW r \in BOOLEAN
  PROVE  Removed(s, RemoveBuf(s, bs, r), bs, r)
<1> DEFINE t == RemoveBuf(s, bs, r)
           d == IF r THEN DropFiles(s, bs) ELSE s
           m == Put(d.map, {p \in MountPoint : d.map[p] \in bs}, Null)
           f == Put(d.file, bs, Null)
           u == [d EXCEPT !.map = m, !.dirty = @ \ bs, !.file = f]
<1>1. /\ d \in Memories
      /\ d.map = s.map /\ d.data = s.data /\ d.file = s.file /\ d.dirty = s.dirty
      /\ d.leaked = s.leaked /\ d.rivals = s.rivals /\ d.building = s.building
      /\ d.watch = s.watch /\ d.job = s.job
      /\ r = FALSE => d.disk = s.disk
      /\ \A x \in Suffix : d.disk[x] \in {Absent, s.disk[x]}
      /\ r = TRUE => \A x \in Suffix, b \in bs : s.file[b] = x => d.disk[x] = Absent
  BY DropFilesIs
<1>2. t = FreeBufs(u, bs)
  BY DEF RemoveBuf
<1> HIDE DEF d, t
<1>3. DOMAIN d.map = MountPoint /\ DOMAIN d.file = Buf
  BY <1>1 DEF Memories
<1>4. \A p \in MountPoint : m[p] = IF s.map[p] \in bs THEN Null ELSE s.map[p]
  BY <1>1, <1>3 DEF Put
<1>5. m \in [MountPoint -> Buf \cup {Null}]
  BY <1>1, <1>3 DEF Put, Memories
<1>6. \A b \in Buf : f[b] = IF b \in bs THEN Null ELSE s.file[b]
  BY <1>1, <1>3 DEF Put
<1>7. f \in [Buf -> Suffix \cup {Null}]
  BY <1>1, <1>3 DEF Put, Memories
<1> HIDE DEF m, f
<1>8. /\ u \in Memories
      /\ u.map = m /\ u.file = f /\ u.dirty = d.dirty \ bs /\ u.data = d.data /\ u.disk = d.disk
      /\ u.leaked = d.leaked /\ u.rivals = d.rivals /\ u.building = d.building
      /\ u.watch = d.watch /\ u.job = d.job
  BY <1>1, <1>5, <1>7 DEF Memories
<1> HIDE DEF u
<1>9. /\ t \in Memories
      /\ t.map = u.map /\ t.file = u.file /\ t.dirty = u.dirty /\ t.disk = u.disk
      /\ t.leaked = u.leaked /\ t.rivals = u.rivals \ bs /\ t.building = u.building
      /\ t.watch = u.watch /\ t.job = u.job
      /\ \A b \in Buf : t.data[b] = IF b \in bs THEN Null ELSE u.data[b]
  BY <1>2, <1>8, FreeBufsIs
<1>10. Removed(s, t, bs, r)
  BY <1>1, <1>4, <1>6, <1>8, <1>9 DEF Removed
<1> QED BY <1>10 DEF t

LEMMA RemovedFit ==
  ASSUME NEW s, NEW t, NEW K, NEW bs, NEW r,
         Fit(s, K), bs \subseteq Mapped(s) \cup K, Removed(s, t, bs, r)
  PROVE  Fit(t, K \ bs) /\ Mapped(t) = Mapped(s) \ bs
<1>1. s \in Memories /\ bs \in SUBSET Buf /\ Mapped(s) \subseteq Buf
  BY MappedType DEF Fit
<1>2. Removed(s, t, bs, r)
  OBVIOUS
<1>3. Mapped(t) = Mapped(s) \ bs
  <2>1. \A b \in Buf : b \in Mapped(t) <=> b \in Mapped(s) \ bs
    BY <1>1, <1>2, MappedIs, ManagerAssumptions DEF Removed
  <2> QED BY <1>1, <1>2, <2>1, MappedType DEF Removed
<1>4. Kept(t, K \ bs)
  BY <1>1, <1>2, <1>3 DEF Fit, Kept, Removed
<1>5. Rivals(t)
  BY <1>1, <1>2 DEF Fit, Rivals, Removed
<1>6. Clean(t, Buf)
  <2> SUFFICES ASSUME NEW b \in Buf, b \in Mapped(t) \ t.dirty, t.file[b] # Null
               PROVE  b \in t.rivals \/ t.disk[t.file[b]] \in {Absent, Broken, t.data[b]}
    BY DEF Clean
  <2>1. b \notin bs /\ b \in Mapped(s) \ s.dirty /\ t.file[b] = s.file[b] /\ t.data[b] = s.data[b]
    BY <1>2, <1>3 DEF Removed
  <2>2. b \in s.rivals \/ s.disk[s.file[b]] \in {Absent, Broken, s.data[b]}
    BY <2>1 DEF Fit, Clean
  <2>3. s.file[b] \in Suffix
    BY <1>1, <2>1 DEF Memories
  <2> QED BY <1>2, <2>1, <2>2, <2>3 DEF Removed
<1> QED BY <1>1, <1>2, <1>3, <1>4, <1>5, <1>6 DEF Fit, Removed

(* In t, the buffer b is mapped to the places of buffers of s.             *)
Replaced(s, t, b) ==
  /\ SameBuilds(s, t) /\ b \in Mapped(t) /\ Mapped(t) \subseteq Mapped(s) \cup {b}
  /\ t.leaked = s.leaked /\ t.data[b] = s.data[b] /\ t.file[b] = Null
  /\ \A c \in Buf : s.data[c] = Null => t.data[c] = Null
  /\ t.disk = s.disk

LEMMA MapToFit ==
  ASSUME NEW s, NEW K, Fit(s, K), NEW b \in K, NEW paths \in SUBSET MountPoint, paths # {}
  PROVE  Fit(MapTo(s, paths, b), K \ {b}) /\ Replaced(s, MapTo(s, paths, b), b)
<1> DEFINE t == MapTo(s, paths, b)
           gone == {s.map[p] : p \in paths} \ {Null}
           u == RemoveBuf(s, gone, FALSE)
<1>1. gone \subseteq Mapped(s) /\ s \in Memories /\ K \subseteq Buf
  BY DEF Mapped, Fit
<1>2. \A c \in gone : c \in Buf /\ c # b
  BY <1>1, MappedType DEF Fit, Kept
<1>3. t = [u EXCEPT !.map = Put(@, paths, b)]
  BY DEF MapTo
<1> HIDE DEF gone
<1>4. Removed(s, u, gone, FALSE)
  <2>1. gone \in SUBSET Buf /\ FALSE \in BOOLEAN
    BY <1>2
  <2> QED BY <1>1, <2>1, RemoveBufIs
<1> HIDE DEF u
<1>5. Fit(u, K \ gone) /\ Mapped(u) = Mapped(s) \ gone /\ u.leaked = s.leaked
  <2>1. gone \subseteq Mapped(s) \cup K
    BY <1>1
  <2>2. Fit(u, K \ gone) /\ Mapped(u) = Mapped(s) \ gone
    BY <1>4, <2>1, RemovedFit
  <2> QED BY <1>4, <2>2 DEF Removed
<1>6. K \ gone = K /\ \A p \in paths : u.map[p] = Null
  <2>1. \A p \in paths : s.map[p] = Null \/ s.map[p] \in gone
    BY DEF gone
  <2>2. K \ gone = K
    BY <1>1, <1>2 DEF Fit, Kept
  <2> QED BY <2>1, <2>2, <1>4 DEF Removed
<1> DEFINE m == Put(u.map, paths, b)
<1>7. \A p \in MountPoint : m[p] = IF p \in paths THEN b ELSE u.map[p]
  BY <1>4 DEF Put, Memories, Removed
<1>8. m \in [MountPoint -> Buf \cup {Null}]
  BY <1>1, <1>4 DEF Put, Memories, Removed
<1>9. t = [u EXCEPT !.map = m]
  BY <1>3
<1> HIDE DEF m, t
<1>10. /\ t \in Memories /\ t.map = m /\ t.data = u.data /\ t.file = u.file /\ t.dirty = u.dirty
       /\ t.leaked = u.leaked /\ t.rivals = u.rivals /\ t.disk = u.disk
       /\ t.watch = u.watch /\ t.job = u.job
  BY <1>4, <1>8, <1>9 DEF Memories, Removed
<1>11. Mapped(t) = Mapped(u) \cup {b}
  <2>0. u \in Memories
    BY <1>4 DEF Removed
  <2>1. \A c \in Buf : c \in Mapped(t) <=> c \in Mapped(u) \cup {b}
    <3>1. \A p \in MountPoint : t.map[p] = IF p \in paths THEN b ELSE u.map[p]
      BY <1>7, <1>10
    <3>2. \A c \in Buf : /\ c \in Mapped(t) <=> \E p \in MountPoint : t.map[p] = c
                         /\ c \in Mapped(u) <=> \E p \in MountPoint : u.map[p] = c
      BY <1>10, <2>0, MappedIs
    <3>3. \A c \in Buf, p \in MountPoint : u.map[p] = c => p \notin paths
      BY <1>6, ManagerAssumptions
    <3> QED BY <3>1, <3>2, <3>3
  <2> QED BY <1>1, <1>10, <2>1, <2>0, MappedType
<1>12. u.file[b] = Null /\ b \in Buf /\ b \notin u.leaked /\ u.data[b] = s.data[b]
  BY <1>1, <1>2, <1>4, <1>5, <1>6 DEF Fit, Kept, Removed
<1>13. Kept(t, K \ {b})
  BY <1>1, <1>5, <1>6, <1>10, <1>11, <1>12 DEF Fit, Kept
<1>14. Rivals(t) /\ Clean(t, Buf)
  BY <1>5, <1>10, <1>11, <1>12 DEF Fit, Rivals, Clean
<1>15. \A c \in Buf : s.data[c] = Null => t.data[c] = Null
  BY <1>4, <1>10 DEF Removed
<1> HIDE DEF t
<1>16. SameBuilds(s, t) /\ t.disk = s.disk /\ t.leaked = s.leaked
  BY <1>4, <1>10 DEF SameBuilds, Removed
<1>17. Mapped(t) \subseteq Mapped(s) \cup {b} /\ b \in Mapped(t)
  BY <1>5, <1>11
<1>18. Replaced(s, t, b)
  BY <1>10, <1>12, <1>15, <1>16, <1>17 DEF Replaced
<1>19. Fit(t, K \ {b})
  BY <1>1, <1>10, <1>13, <1>14 DEF Fit
<1> QED BY <1>18, <1>19 DEF t

(* t is s with the index file x for the buffer b.                          *)
Registered(s, t, b, x) ==
  /\ t \in Memories /\ SameBuilds(s, t)
  /\ t.map = s.map /\ t.data = s.data /\ t.dirty = s.dirty /\ t.leaked = s.leaked /\ t.disk = s.disk
  /\ \A c \in Buf : t.file[c] = IF c = b THEN x ELSE s.file[c]
  /\ s.rivals \subseteq t.rivals
  /\ \A c \in Buf \ {b} : x # Null /\ s.file[c] = x => {b, c} \subseteq t.rivals

LEMMA RegisterIs ==
  ASSUME NEW s \in Memories, NEW b \in Buf, NEW x \in Suffix \cup {Null}
  PROVE  Registered(s, Register(s, b, x), b, x)
<1> DEFINE t == Register(s, b, x)
           others == {c \in Buf \ {b} : x # Null /\ s.file[c] = x}
           rs == IF others = {} THEN s.rivals ELSE s.rivals \cup others \cup {b}
           f == [s.file EXCEPT ![b] = x]
<1>1. t = [s EXCEPT !.file = f, !.rivals = rs]
  BY DEF Register, Memories
<1>2. f \in [Buf -> Suffix \cup {Null}] /\ \A c \in Buf : f[c] = IF c = b THEN x ELSE s.file[c]
  BY DEF Memories
<1>3. /\ rs \in SUBSET Buf /\ s.rivals \subseteq rs
      /\ \A c \in Buf \ {b} : x # Null /\ s.file[c] = x => {b, c} \subseteq rs
  BY DEF Memories
<1> HIDE DEF t, rs, f
<1>4. /\ t \in Memories /\ t.watch = s.watch /\ t.job = s.job
      /\ t.map = s.map /\ t.data = s.data /\ t.dirty = s.dirty /\ t.leaked = s.leaked /\ t.disk = s.disk
      /\ t.file = f /\ t.rivals = rs
  BY <1>1, <1>2, <1>3 DEF Memories
<1>5. Registered(s, t, b, x)
  BY <1>2, <1>3, <1>4 DEF Registered, SameBuilds
<1> QED BY <1>5 DEF t

LEMMA RegisteredFit ==
  ASSUME NEW s, NEW t, NEW K, NEW b, NEW x \in Suffix \cup {Null}, Fit(s, K),
         b \in Mapped(s), s.file[b] = Null, Registered(s, t, b, x)
  PROVE  Kept(t, K) /\ Rivals(t) /\ Clean(t, Buf \ {b}) /\ Mapped(t) = Mapped(s)
<1>1. s \in Memories /\ b \in Buf /\ K \subseteq Buf
  BY MappedType DEF Fit
<1>2. Mapped(t) = Mapped(s)
  BY DEF Mapped, Registered
<1>3. s.data[b] # Null /\ b \notin K
  BY <1>1 DEF Fit, Kept
<1>4. Kept(t, K)
  BY <1>1, <1>2, <1>3 DEF Fit, Kept, Registered
<1>5. Rivals(t)
  BY <1>1 DEF Fit, Rivals, Registered
<1>6. Clean(t, Buf \ {b})
  BY <1>2 DEF Fit, Clean, Registered
<1> QED BY <1>2, <1>4, <1>5, <1>6

LEMMA SameMeansSame ==
  ASSUME NEW s, NEW t, NEW u, SameBuilds(s, t), SameBuilds(t, u)
  PROVE  SameBuilds(s, u)
BY DEF SameBuilds

-----------------------------------------------------------------------------
(* The result of a build takes its place.                                  *)
AcceptedAt(s, job, b) == Register(MapTo(s, ToSet(job.paths), b), b, FileOf(job))

LEMMA AcceptIs ==
  ASSUME NEW s, NEW job, NEW b
  PROVE  Accept(s, job, b) =
           [AcceptedAt(s, job, b) EXCEPT !.dirty = @ \cup {b}]
BY DEF Accept, With, AcceptedAt

LEMMA ToSetType ==
  ASSUME NEW S, NEW q \in Seq(S)
  PROVE  ToSet(q) \in SUBSET S /\ (q # <<>> => ToSet(q) # {} /\ Head(q) \in ToSet(q))
<1>1. ToSet(q) \subseteq S
  BY DEF ToSet
<1>2. ASSUME q # <<>> PROVE Head(q) \in ToSet(q)
  <2>1. 1 \in DOMAIN q /\ Head(q) = q[1]
    BY <1>2
  <2> QED BY <2>1 DEF ToSet
<1> QED BY <1>1, <1>2

LEMMA AcceptFit ==
  ASSUME NEW s, NEW K, Fit(s, K), NEW b \in K, NEW job \in Builds, job.paths # <<>>
  PROVE  Fit(Accept(s, job, b), K \ {b}) /\ SameBuilds(s, Accept(s, job, b))
<1> DEFINE m == MapTo(s, ToSet(job.paths), b)
           x == FileOf(job)
           r == Register(m, b, x)
           t == [r EXCEPT !.dirty = @ \cup {b}]
<1>1. Accept(s, job, b) = t
  BY AcceptIs DEF AcceptedAt
<1>2. job.paths \in Seq(MountPoint)
  BY DEF Builds
<1>3. ToSet(job.paths) \in SUBSET MountPoint /\ ToSet(job.paths) # {}
  BY <1>2, ToSetType
<1>4. Fit(m, K \ {b}) /\ Replaced(s, m, b)
  BY <1>3, MapToFit
<1>5. x \in Suffix \cup {Null}
  BY DEF FileOf, Suffix
<1>6. m \in Memories /\ b \in Buf /\ b \in Mapped(m) /\ m.file[b] = Null
  BY <1>4 DEF Fit, Replaced
<1> HIDE DEF m, x
<1>7. Registered(m, r, b, x)
  BY <1>5, <1>6, RegisterIs
<1> HIDE DEF r
<1>8. Kept(r, K \ {b}) /\ Rivals(r) /\ Clean(r, Buf \ {b}) /\ Mapped(r) = Mapped(m)
  BY <1>4, <1>5, <1>6, <1>7, RegisteredFit
<1>9. r \in Memories /\ SameBuilds(m, r)
  BY <1>7 DEF Registered
<1>10. /\ t \in Memories /\ SameBuilds(r, t)
       /\ t.map = r.map /\ t.data = r.data /\ t.file = r.file /\ t.dirty = r.dirty \cup {b}
       /\ t.leaked = r.leaked /\ t.rivals = r.rivals /\ t.disk = r.disk
  BY <1>6, <1>9 DEF Memories, SameBuilds
<1> HIDE DEF t
<1>11. Mapped(t) = Mapped(r)
  BY <1>10 DEF Mapped
<1>12. r.data[b] # Null
  BY <1>6, <1>8 DEF Kept
<1>13. Kept(t, K \ {b}) /\ Rivals(t)
  BY <1>8, <1>10, <1>11, <1>12 DEF Kept, Rivals
<1>14. Clean(t, Buf)
  BY <1>8, <1>10, <1>11 DEF Clean
<1>15. Fit(t, K \ {b})
  BY <1>4, <1>10, <1>13, <1>14 DEF Fit
<1>16. SameBuilds(s, t)
  BY <1>4, <1>9, <1>10, SameMeansSame DEF Replaced
<1> QED BY <1>1, <1>15, <1>16

-----------------------------------------------------------------------------
(* Loading.                                                                *)
Filled(s, x, b) ==
  [s EXCEPT !.data[b] = s.disk[x], !.missed = IF x \in @ THEN @ \cup {b} ELSE @]

LEMMA LoadIs ==
  ASSUME NEW s, NEW x, mounts # <<>>, s.disk[x] \notin {Absent, Broken, {}}
  PROVE  LET b == CHOOSE b \in Unused(s) : TRUE
         IN Load(s, x) = Register(MapTo(Filled(s, x, b), ToSet(mounts), b), b, x)
BY DEF Load, With, Filled

(* Of two unused buffers, loading takes at most one.                       *)
Spare(s, t) ==
  \A b, c \in Unused(s) : b # c => b \in Unused(t) \/ c \in Unused(t)

LEMMA UnusedIs ==
  ASSUME NEW s, NEW b
  PROVE  b \in Unused(s) <=> b \in Buf /\ s.data[b] = Null
BY DEF Unused, Allocated

(* t is s with the content of the index file x in the buffer b.            *)
Filling(s, t, x, b) ==
  /\ SameBuilds(s, t) /\ t.leaked = s.leaked
  /\ t.data[b] = s.disk[x] /\ t.disk = s.disk
  /\ \A c \in Buf \ {b} : t.data[c] = s.data[c]

LEMMA FilledFit ==
  ASSUME NEW s, NEW K, Fit(s, K), NEW x \in Suffix, s.disk[x] \notin {Absent, Broken},
         NEW b \in Unused(s)
  PROVE  Fit(Filled(s, x, b), K \cup {b}) /\ Filling(s, Filled(s, x, b), x, b) /\ b \notin K
<1> DEFINE t == Filled(s, x, b)
<1>1. s \in Memories /\ b \in Buf /\ s.data[b] = Null /\ s.disk[x] \in SUBSET File
  BY UnusedIs DEF Fit, Memories
<1>2. s.disk[x] # Null
  BY <1>1, ManagerAssumptions
<1> DEFINE d == [s.data EXCEPT ![b] = s.disk[x]]
           ms == IF x \in s.missed THEN s.missed \cup {b} ELSE s.missed
<1>3. d \in [Buf -> (SUBSET File) \cup {Null}] /\ \A c \in Buf : d[c] = IF c = b THEN s.disk[x] ELSE s.data[c]
  BY <1>1 DEF Memories
<1>4. ms \in SUBSET (Buf \cup Job \cup Suffix)
  BY <1>1 DEF Memories
<1>5. t = [s EXCEPT !.data = d, !.missed = ms]
  BY <1>1 DEF Filled, Memories
<1> HIDE DEF d, ms, t
<1>6. /\ t \in Memories /\ t.data = d /\ t.map = s.map /\ t.file = s.file /\ t.dirty = s.dirty
      /\ t.leaked = s.leaked /\ t.rivals = s.rivals /\ t.disk = s.disk /\ t.watch = s.watch /\ t.job = s.job
  BY <1>1, <1>3, <1>4, <1>5 DEF Memories
<1>7. Mapped(t) = Mapped(s)
  BY <1>6 DEF Mapped
<1>8. b \notin Mapped(s) \cup K \cup s.leaked /\ s.file[b] = Null
  BY <1>1 DEF Fit, Kept
<1>9. Kept(t, K \cup {b})
  BY <1>2, <1>3, <1>6, <1>7, <1>8 DEF Fit, Kept
<1>10. Rivals(t)
  BY <1>6 DEF Fit, Rivals
<1>11. Clean(t, Buf)
  <2> SUFFICES ASSUME NEW c \in Buf, c \in Mapped(t) \ t.dirty, t.file[c] # Null
               PROVE  c \in t.rivals \/ t.disk[t.file[c]] \in {Absent, Broken, t.data[c]}
    BY DEF Clean
  <2>1. c # b /\ t.data[c] = s.data[c]
    BY <1>3, <1>6, <1>7, <1>8
  <2> QED BY <1>6, <1>7, <2>1 DEF Fit, Clean
<1>12. Filling(s, t, x, b)
  BY <1>1, <1>3, <1>6 DEF SameBuilds, Filling
<1>13. Fit(t, K \cup {b})
  BY <1>1, <1>6, <1>9, <1>10, <1>11 DEF Fit
<1> QED BY <1>8, <1>12, <1>13 DEF t

LEMMA LoadFit ==
  ASSUME NEW s, NEW K, Fit(s, K), NEW x \in Suffix, mounts \in Seq(MountPoint), Unused(s) # {}
  PROVE  Fit(Load(s, x), K) /\ SameBuilds(s, Load(s, x)) /\ Spare(s, Load(s, x))
<1>1. CASE mounts = <<>> \/ s.disk[x] \in {Absent, Broken, {}}
  <2>1. Load(s, x) = s
    BY <1>1 DEF Load
  <2> QED BY <2>1 DEF SameBuilds, Spare
<1>2. CASE mounts # <<>> /\ s.disk[x] \notin {Absent, Broken, {}}
  <2> DEFINE b == CHOOSE b \in Unused(s) : TRUE
             u == Filled(s, x, b)
             m == MapTo(u, ToSet(mounts), b)
             r == Register(m, b, x)
  <2>1. Load(s, x) = r
    BY <1>2, LoadIs
  <2>2. b \in Unused(s)
    OBVIOUS
  <2> HIDE DEF b
  <2>3. Fit(u, K \cup {b}) /\ Filling(s, u, x, b) /\ b \notin K
    BY <1>2, <2>2, FilledFit
  <2> HIDE DEF u
  <2>4. Fit(m, (K \cup {b}) \ {b}) /\ Replaced(u, m, b)
    <3>1. ToSet(mounts) \in SUBSET MountPoint /\ ToSet(mounts) # {}
      BY <1>2, ToSetType
    <3> QED BY <2>3, <3>1, MapToFit
  <2> HIDE DEF m
  <2>5. (K \cup {b}) \ {b} = K
    BY <2>3
  <2>6. Fit(m, K)
    BY <2>4, <2>5
  <2>7. m \in Memories /\ b \in Buf /\ b \in Mapped(m) /\ m.file[b] = Null /\ x \in Suffix \cup {Null}
    BY <2>2, <2>4, UnusedIs DEF Fit, Replaced
  <2>8. Registered(m, r, b, x)
    BY <2>7, RegisterIs
  <2> HIDE DEF r
  <2>9. Kept(r, K) /\ Rivals(r) /\ Clean(r, Buf \ {b})
    BY <2>6, <2>7, <2>8, RegisteredFit
  <2>10. r.file[b] = x /\ r.disk[x] = r.data[b]
    BY <2>3, <2>4, <2>7, <2>8 DEF Filling, Registered, Replaced
  <2>11. Clean(r, Buf)
    BY <2>9, <2>10 DEF Clean
  <2>12. Fit(r, K)
    BY <2>6, <2>8, <2>9, <2>11 DEF Fit, Registered
  <2>13. SameBuilds(s, r)
    BY <2>3, <2>4, <2>8, SameMeansSame DEF Filling, Registered, Replaced
  <2>14. ASSUME NEW c \in Unused(s), c # b PROVE c \in Unused(r)
    BY <2>3, <2>4, <2>8, <2>14, UnusedIs DEF Filling, Registered, Replaced
  <2>15. Spare(s, r)
    BY <2>14 DEF Spare
  <2> QED BY <2>1, <2>12, <2>13, <2>15
<1> QED BY <1>1, <1>2

LEMMA RefreshFit ==
  ASSUME NEW s, NEW K, Fit(s, K), NEW order \in Order, mounts \in Seq(MountPoint), Spacious(s)
  PROVE  Fit(Refresh(s, order), K) /\ SameBuilds(s, Refresh(s, order))
<1> DEFINE t == Load(s, order[1])
           u == Load(t, order[2])
<1>1. Refresh(s, order) = u
  BY DEF Refresh, With
<1>2. order[1] \in Suffix /\ order[2] \in Suffix
  BY DEF Order, Suffix
<1>3. Unused(s) # {}
  BY DEF Spacious
<1>4. Fit(t, K) /\ SameBuilds(s, t) /\ Spare(s, t)
  BY <1>2, <1>3, LoadFit
<1>5. Unused(t) # {}
  BY <1>4 DEF Spacious, Spare
<1> HIDE DEF t
<1>6. Fit(u, K) /\ SameBuilds(t, u)
  BY <1>2, <1>4, <1>5, LoadFit
<1> QED BY <1>1, <1>4, <1>6, SameMeansSame

-----------------------------------------------------------------------------
(* Saving.  The buffer written last to a file is the one whose first path  *)
(* is the last.                                                            *)
LEMMA SmallestNumber ==
  ASSUME NEW T, T \subseteq Nat, T # {}
  PROVE  \E n \in T : \A m \in T : n <= m
<1>1. PICK n \in T : \A m \in T : ~ (<<m, n>> \in OpToRel(<, Nat))
  <2> DEFINE R == OpToRel(<, Nat)
  <2>1. IsWellFoundedOn(R, Nat)
    BY NatLessThanWellFounded
  <2> HIDE DEF R
  <2>2. \E x \in T : \A y \in T : ~ (<<y, x>> \in R)
    BY <2>1, WFMin
  <2> QED BY <2>2 DEF R
<1>2. \A m \in T : ~ (m < n)
  BY <1>1 DEF OpToRel
<1> QED BY <1>2

LEMMA LargestNumber ==
  ASSUME NEW T, T \subseteq Nat, T # {}, IsFiniteSet(T)
  PROVE  \E n \in T : \A m \in T : m <= n
<1> DEFINE above(n) == {m \in T : n < m}
           counts == {Cardinality(above(n)) : n \in T}
<1>1. \A n \in T : IsFiniteSet(above(n)) /\ Cardinality(above(n)) \in Nat
  <2> TAKE n \in T
  <2>1. IsFiniteSet(above(n))
    <3>1. above(n) \in SUBSET T
      OBVIOUS
    <3> HIDE DEF above
    <3> QED BY <3>1, FS_Subset
  <2> HIDE DEF above
  <2> QED BY <2>1, FS_CardinalityType
<1>2. counts \subseteq Nat /\ counts # {}
  <2> HIDE DEF above
  <2> QED BY <1>1
<1>3. PICK n \in T : \A m \in T : Cardinality(above(n)) <= Cardinality(above(m))
  <2> HIDE DEF above
  <2>1. PICK c \in counts : \A d \in counts : c <= d
    <3> HIDE DEF counts
    <3> QED BY <1>2, SmallestNumber
  <2> QED BY <2>1
<1>4. ASSUME NEW m \in T, n < m PROVE FALSE
  <2>1. above(m) \in SUBSET above(n) /\ m \in above(n) /\ m \notin above(m)
    <3>1. \A k \in T : m < k => n < k
      BY <1>4
    <3>2. m \in Nat /\ ~ (m < m)
      BY <1>4
    <3> QED BY <1>4, <3>1, <3>2
  <2>2. Cardinality(above(m)) <= Cardinality(above(n)) /\ Cardinality(above(n)) # Cardinality(above(m))
    <3>1. IsFiniteSet(above(n))
      BY <1>1
    <3> HIDE DEF above
    <3> QED BY <2>1, <3>1, FS_Subset
  <2>3. Cardinality(above(n)) <= Cardinality(above(m))
    BY <1>3
  <2> HIDE DEF above
  <2> QED BY <1>1, <2>2, <2>3
<1>5. \A m \in T : m \in Nat /\ n \in Nat
  OBVIOUS
<1> HIDE DEF above
<1> QED BY <1>4, <1>5

LEMMA FirstKeyIs ==
  ASSUME NEW s, NEW paths \in SUBSET MountPoint, NEW b, \E p \in paths : s.map[p] = b
  PROVE  FirstKey(s, paths, b) \in paths /\ FirstKey(s, paths, b) \in Nat
<1> DEFINE keys == {p \in paths : s.map[p] = b}
<1>1. keys \subseteq Nat /\ keys # {}
  BY ManagerAssumptions
<1>2. PICK p \in keys : \A q \in keys : p <= q
  <2> HIDE DEF keys
  <2> QED BY <1>1, SmallestNumber
<1>3. FirstKey(s, paths, b) \in paths
  BY <1>2 DEF FirstKey
<1> QED BY <1>3, ManagerAssumptions

(* The buffers of paths that have an index file, and the one of them that  *)
(* is written last to the file x.                                          *)
Saved(s, paths) == {b \in {s.map[p] : p \in paths} \ {Null} : s.file[b] # Null}
LastOf(s, paths, x) ==
  CHOOSE b \in Saved(s, paths) : s.file[b] = x /\
    \A c \in Saved(s, paths) : s.file[c] = x => FirstKey(s, paths, c) <= FirstKey(s, paths, b)

LEMMA LastOfIs ==
  ASSUME NEW s, NEW paths \in SUBSET MountPoint, NEW x, \E b \in Saved(s, paths) : s.file[b] = x
  PROVE  LastOf(s, paths, x) \in Saved(s, paths) /\ s.file[LastOf(s, paths, x)] = x
<1> DEFINE those == {b \in Saved(s, paths) : s.file[b] = x}
           keys == {FirstKey(s, paths, b) : b \in those}
<1>1. \A b \in those : FirstKey(s, paths, b) \in paths /\ FirstKey(s, paths, b) \in Nat
  <2> TAKE b \in those
  <2>1. \E p \in paths : s.map[p] = b
    BY DEF Saved
  <2> QED BY <2>1, FirstKeyIs
<1>2. keys \subseteq Nat /\ keys # {} /\ keys \in SUBSET MountPoint
  BY <1>1
<1>3. IsFiniteSet(keys)
  <2> HIDE DEF keys
  <2> QED BY <1>2, FS_Subset, ManagerAssumptions
<1>4. PICK k \in keys : \A m \in keys : m <= k
  <2> HIDE DEF keys
  <2> QED BY <1>2, <1>3, LargestNumber
<1>5. \E b \in Saved(s, paths) : s.file[b] = x /\
        \A c \in Saved(s, paths) : s.file[c] = x => FirstKey(s, paths, c) <= FirstKey(s, paths, b)
  BY <1>4
<1> QED BY <1>5 DEF LastOf

(* t is s after some of its buffers were written.                          *)
Written(s, t) ==
  /\ t \in Memories /\ SameBuilds(s, t)
  /\ t.map = s.map /\ t.data = s.data /\ t.file = s.file
  /\ t.leaked = s.leaked /\ t.rivals = s.rivals /\ t.dirty \subseteq s.dirty

LEMMA WrittenFit ==
  ASSUME NEW s, NEW t, NEW K, Fit(s, K), Written(s, t)
  PROVE  K \subseteq Buf /\ Mapped(t) = Mapped(s) /\ Kept(t, K) /\ Rivals(t)
<1>1. Mapped(t) = Mapped(s)
  BY DEF Mapped, Written
<1>2. Kept(t, K) /\ Rivals(t)
  BY <1>1 DEF Fit, Kept, Rivals, Written
<1> QED BY <1>1, <1>2 DEF Fit

LEMMA SyncFit ==
  ASSUME NEW s, NEW K, Fit(s, K), NEW paths \in SUBSET MountPoint, NEW failure \in Failures
  PROVE  Fit(Sync(s, paths, failure), K) /\ Written(s, Sync(s, paths, failure))
<1> DEFINE t == Sync(s, paths, failure)
           saved == Saved(s, paths)
           written == {s.file[b] : b \in saved}
           broken == Put(s.disk, written, Broken)
           stored == [x \in Suffix |-> IF x \in written THEN s.data[LastOf(s, paths, x)] ELSE s.disk[x]]
           ms == (s.missed \ written) \cup {x \in written : LastOf(s, paths, x) \in s.missed}
<1>1. s \in Memories
  BY DEF Fit
<1>2. saved \subseteq Mapped(s) /\ saved \subseteq Buf /\ \A b \in saved : s.file[b] \in Suffix /\ s.data[b] \in SUBSET File
  <2>1. saved \subseteq Mapped(s)
    BY DEF Saved, Mapped
  <2>2. \A b \in saved : b \in Buf /\ s.file[b] # Null
    BY <1>1, <2>1, MappedType DEF Saved
  <2>3. \A b \in saved : s.data[b] # Null
    BY <2>2 DEF Fit, Kept
  <2> QED BY <1>1, <2>1, <2>2, <2>3 DEF Memories
<1>3. \A x \in written : x \in Suffix /\ LastOf(s, paths, x) \in saved /\ s.file[LastOf(s, paths, x)] = x
  <2> TAKE x \in written
  <2>1. \E b \in Saved(s, paths) : s.file[b] = x
    OBVIOUS
  <2> QED BY <1>2, <2>1, LastOfIs
<1> HIDE DEF saved
<1>4. CASE failure = "open"
  <2>1. t = s
    BY <1>4 DEF Sync
  <2> QED BY <1>1, <2>1 DEF Written, SameBuilds
<1>5. CASE failure = "write"
  <2>1. t = [s EXCEPT !.disk = broken]
    BY <1>5 DEF Sync, Saved, saved
  <2>2. broken \in [Suffix -> (SUBSET File) \cup {Absent, Broken}] /\ \A x \in Suffix : broken[x] \in {Broken, s.disk[x]}
    BY <1>1 DEF Put, Memories
  <2> HIDE DEF broken, t
  <2>3. /\ t \in Memories /\ t.map = s.map /\ t.data = s.data /\ t.file = s.file /\ t.dirty = s.dirty
        /\ t.leaked = s.leaked /\ t.rivals = s.rivals /\ t.watch = s.watch /\ t.job = s.job /\ t.disk = broken
    BY <1>1, <2>1, <2>2 DEF Memories
  <2>4. Written(s, t)
    BY <2>3 DEF Written, SameBuilds
  <2>5. Clean(t, Buf)
    <3> SUFFICES ASSUME NEW b \in Buf, b \in Mapped(t) \ t.dirty, t.file[b] # Null
                 PROVE  b \in t.rivals \/ t.disk[t.file[b]] \in {Absent, Broken, t.data[b]}
      BY DEF Clean
    <3>1. b \in Mapped(s) \ s.dirty /\ s.file[b] \in Suffix
      BY <1>1, <2>3, <2>4, WrittenFit DEF Memories
    <3>2. b \in s.rivals \/ s.disk[s.file[b]] \in {Absent, Broken, s.data[b]}
      BY <2>3, <3>1 DEF Fit, Clean
    <3> QED BY <2>2, <2>3, <3>1, <3>2
  <2>6. Fit(t, K)
    BY <2>3, <2>4, <2>5, WrittenFit DEF Fit
  <2> QED BY <2>4, <2>6 DEF t
<1>6. CASE failure = "none"
  <2>1. t = [s EXCEPT !.disk = stored, !.dirty = @ \ saved, !.missed = ms]
    BY <1>6 DEF Sync, Saved, saved, LastOf
  <2>2. stored \in [Suffix -> (SUBSET File) \cup {Absent, Broken}]
    BY <1>1, <1>2, <1>3 DEF Memories
  <2>3. ms \in SUBSET (Buf \cup Job \cup Suffix)
    BY <1>1, <1>3 DEF Memories
  <2>4. \A x \in Suffix : stored[x] = IF x \in written THEN s.data[LastOf(s, paths, x)] ELSE s.disk[x]
    OBVIOUS
  <2>0. \A b \in Buf : b \in saved => s.file[b] \in written
    OBVIOUS
  <2> HIDE DEF stored, ms, t, written
  <2>5. /\ t \in Memories /\ t.map = s.map /\ t.data = s.data /\ t.file = s.file /\ t.dirty = s.dirty \ saved
        /\ t.leaked = s.leaked /\ t.rivals = s.rivals /\ t.watch = s.watch /\ t.job = s.job /\ t.disk = stored
    BY <1>1, <2>1, <2>2, <2>3 DEF Memories
  <2>6. Written(s, t)
    BY <2>5 DEF Written, SameBuilds
  <2>7. Clean(t, Buf)
    <3> SUFFICES ASSUME NEW b \in Buf, b \in Mapped(t) \ t.dirty, t.file[b] # Null, b \notin t.rivals
                 PROVE  t.disk[t.file[b]] \in {Absent, Broken, t.data[b]}
      BY DEF Clean
    <3>1. b \in Mapped(s) /\ s.file[b] # Null /\ s.file[b] \in Suffix /\ b \notin s.rivals
      BY <1>1, <2>5, <2>6, WrittenFit DEF Memories
    <3>2. \A c \in Buf : s.file[c] = s.file[b] => c = b
      BY <3>1 DEF Fit, Rivals
    <3>3. CASE s.file[b] \in written
      <4>1. LastOf(s, paths, s.file[b]) = b
        BY <1>2, <1>3, <3>2, <3>3
      <4> QED BY <2>4, <2>5, <3>1, <3>3, <4>1
    <3>4. CASE s.file[b] \notin written
      <4>1. b \notin s.dirty
        BY <2>0, <2>5, <3>4
      <4>2. s.disk[s.file[b]] \in {Absent, Broken, s.data[b]}
        BY <3>1, <4>1 DEF Fit, Clean
      <4> QED BY <2>4, <2>5, <3>1, <3>4, <4>2
    <3> QED BY <3>3, <3>4
  <2>8. Fit(t, K)
    BY <2>5, <2>6, <2>7, WrittenFit DEF Fit
  <2> QED BY <2>6, <2>8 DEF t
<1> QED BY <1>4, <1>5, <1>6 DEF Failures

LEMMA CleanDirtyFit ==
  ASSUME NEW s, NEW K, Fit(s, K)
  PROVE  Fit(CleanDirty(s), K) /\ SameBuilds(s, CleanDirty(s))
<1> DEFINE d == DropFiles(s, s.dirty)
           t == CleanDirty(s)
<1>1. s \in Memories /\ s.dirty \in SUBSET Buf
  BY DEF Fit, Memories
<1>2. /\ d \in Memories
      /\ d.map = s.map /\ d.data = s.data /\ d.file = s.file
      /\ d.leaked = s.leaked /\ d.rivals = s.rivals /\ d.watch = s.watch /\ d.job = s.job
      /\ \A x \in Suffix : d.disk[x] = IF \E b \in s.dirty : s.file[b] = x THEN Absent ELSE s.disk[x]
  BY <1>1, DropFilesIs
<1>3. t = [d EXCEPT !.dirty = {}]
  BY DEF CleanDirty
<1> HIDE DEF d, t
<1>4. /\ t \in Memories /\ t.map = s.map /\ t.data = s.data /\ t.file = s.file /\ t.dirty = {}
      /\ t.leaked = s.leaked /\ t.rivals = s.rivals /\ t.watch = s.watch /\ t.job = s.job /\ t.disk = d.disk
  BY <1>2, <1>3 DEF Memories
<1>5. Written(s, t)
  BY <1>4 DEF Written, SameBuilds
<1>6. Clean(t, Buf)
  <2> SUFFICES ASSUME NEW b \in Buf, b \in Mapped(t), t.file[b] # Null
               PROVE  b \in t.rivals \/ t.disk[t.file[b]] \in {Absent, Broken, t.data[b]}
    BY DEF Clean
  <2>1. b \in Mapped(s) /\ s.file[b] # Null /\ s.file[b] \in Suffix
    BY <1>1, <1>4, <1>5, WrittenFit DEF Memories
  <2>2. CASE b \in s.dirty
    BY <1>2, <1>4, <2>1, <2>2
  <2>3. CASE b \notin s.dirty
    <3>1. b \in s.rivals \/ s.disk[s.file[b]] \in {Absent, Broken, s.data[b]}
      BY <2>1, <2>3 DEF Fit, Clean
    <3> QED BY <1>2, <1>4, <2>1, <3>1
  <2> QED BY <2>2, <2>3
<1>7. Fit(t, K)
  BY <1>4, <1>5, <1>6, WrittenFit DEF Fit
<1> QED BY <1>4, <1>7 DEF t, SameBuilds

LEMMA SyncAllFit ==
  ASSUME NEW s, NEW K, Fit(s, K), NEW failure \in Failures
  PROVE  Fit(SyncAll(s, failure), K) /\ SameBuilds(s, SyncAll(s, failure))
<1> DEFINE u == Sync(s, MountPoint, failure)
<1>1. SyncAll(s, failure) = CleanDirty(u)
  BY DEF SyncAll, With
<1>2. Fit(u, K) /\ SameBuilds(s, u)
  BY SyncFit DEF Written
<1> HIDE DEF u
<1>3. Fit(CleanDirty(u), K) /\ SameBuilds(u, CleanDirty(u))
  BY <1>2, CleanDirtyFit
<1> QED BY <1>1, <1>2, <1>3, SameMeansSame

-----------------------------------------------------------------------------
(* Builds.                                                                 *)
LEMMA GoodAfter ==
  ASSUME NEW s, NEW t, Good(s), Fit(t, Results(s)), SameBuilds(s, t)
  PROVE  Good(t)
<1>1. Active(t) = Active(s) /\ Results(t) = Results(s)
  BY DEF Active, Results, SameBuilds
<1> QED BY <1>1 DEF Good, Watched, Apart, Started, SameBuilds

LEMMA ActiveIs ==
  ASSUME NEW s, NEW j
  PROVE  j \in Active(s) <=> j \in Job /\ s.job[j] # Null
BY DEF Active

LEMMA ResultsIs ==
  ASSUME NEW s, NEW b
  PROVE  b \in Results(s) <=> b # Null /\ \E j \in Job : s.job[j] # Null /\ s.job[j].buf = b
BY DEF Results, Active

(* t has the buffers of s, but perhaps other results and leaks.            *)
SameBufs(s, t) ==
  /\ t.map = s.map /\ t.data = s.data /\ t.file = s.file /\ t.dirty = s.dirty
  /\ t.rivals = s.rivals /\ t.disk = s.disk

LEMMA SameBufsFit ==
  ASSUME NEW s, NEW t, NEW K, Fit(s, K), t \in Memories, SameBufs(s, t), t.leaked = s.leaked
  PROVE  Fit(t, K)
<1>1. Mapped(t) = Mapped(s)
  BY DEF Mapped, SameBufs
<1> QED BY <1>1 DEF Fit, Kept, Rivals, Clean, SameBufs

LEMMA AddPathGood ==
  ASSUME NEW s, Good(s), NEW p \in MountPoint, NEW autoIndex \in BOOLEAN,
         mounts \in Seq(MountPoint), \E j \in Job : s.job[j] = Null
  PROVE  Good(AddPath(s, p, autoIndex))
<1>1. CASE s.watch[p] # Null \/ p \notin ToSet(mounts)
  BY <1>1 DEF AddPath
<1>2. CASE ~(s.watch[p] # Null \/ p \notin ToSet(mounts))
  <2> DEFINE j == CHOOSE j \in Job : s.job[j] = Null
             new == NewJob(mounts, autoIndex)
             jobs == [s.job EXCEPT ![j] = new]
             w == Put(s.watch, ToSet(mounts), j)
             n == [s.building EXCEPT ![Head(mounts)] = @ + 1]
             t == AddPath(s, p, autoIndex)
  <2>1. j \in Job /\ s.job[j] = Null
    OBVIOUS
  <2>2. mounts # <<>> /\ Head(mounts) \in MountPoint /\ ToSet(mounts) \in SUBSET MountPoint
    <3>1. mounts # <<>>
      BY <1>2 DEF ToSet
    <3> QED BY <3>1, ToSetType
  <2>3. s \in Memories
    BY DEF Good, Fit
  <2>4. t = [s EXCEPT !.job = jobs, !.watch = w, !.building = n]
    BY <1>2, <2>3 DEF AddPath, Memories
  <2> HIDE DEF j
  <2>5. new \in Builds /\ new # Null /\ new.buf = Null /\ ~new.canceled /\ new.paths = mounts
    <3>1. new \in Builds
      BY ManagerAssumptions DEF NewJob, Builds
    <3> QED BY <3>1, ManagerAssumptions DEF NewJob
  <2> HIDE DEF new
  <2>6. jobs \in [Job -> Builds \cup {Null}] /\ \A k \in Job : jobs[k] = IF k = j THEN new ELSE s.job[k]
    BY <2>1, <2>3, <2>5 DEF Memories
  <2>7. w \in [MountPoint -> Job \cup {Null}] /\ \A q \in MountPoint : w[q] = IF q \in ToSet(mounts) THEN j ELSE s.watch[q]
    BY <2>1, <2>3 DEF Put, Memories
  <2>8. n \in [MountPoint -> Nat]
    BY <2>2, <2>3 DEF Memories
  <2> HIDE DEF jobs, w, n, t
  <2>9. t \in Memories /\ SameBufs(s, t) /\ t.leaked = s.leaked /\ t.job = jobs /\ t.watch = w
    BY <2>3, <2>4, <2>6, <2>7, <2>8 DEF Memories, SameBufs
  <2>10. Results(t) = Results(s)
    <3>1. \A k \in Job : t.job[k] = IF k = j THEN new ELSE s.job[k]
      BY <2>6, <2>9
    <3>2. \A b : b \in Results(t) => b \in Results(s)
      BY <2>5, <3>1, ResultsIs
    <3>3. \A b : b \in Results(s) => b \in Results(t)
      BY <2>1, <3>1, ResultsIs
    <3> QED BY <3>2, <3>3
  <2>11. Fit(t, Results(t))
    BY <2>9, <2>10, SameBufsFit DEF Good
  <2>12. Watched(t)
    BY <2>1, <2>5, <2>6, <2>7, <2>9, ManagerAssumptions DEF Good, Watched, Memories
  <2>13. Apart(t)
    BY <2>1, <2>5, <2>6, <2>9, ActiveIs DEF Good, Apart
  <2>14. Started(t)
    BY <2>1, <2>2, <2>5, <2>6, <2>9, ActiveIs DEF Good, Started
  <2> QED BY <2>11, <2>12, <2>13, <2>14 DEF Good, t
<1> QED BY <1>1, <1>2

LEMMA CancelGood ==
  ASSUME NEW s, Good(s), NEW js, js \subseteq Active(s)
  PROVE  Good(Cancel(s, js))
<1> DEFINE jobs == [j \in Job |-> IF j \in js THEN [s.job[j] EXCEPT !.canceled = TRUE, !.done = TRUE, !.buf = Null] ELSE s.job[j]]
           bufs == {s.job[j].buf : j \in js} \ {Null}
           w == Put(s.watch, {q \in MountPoint : s.watch[q] \in js}, Null)
           t == Cancel(s, js)
<1>1. s \in Memories /\ \A j \in js : j \in Job /\ s.job[j] # Null /\ s.job[j] \in Builds
  BY ActiveIs DEF Good, Fit, Memories
<1>2. t = [s EXCEPT !.job = jobs, !.leaked = @ \cup bufs, !.watch = w]
  BY DEF Cancel
<1>3. \A j \in js : /\ jobs[j] \in Builds /\ jobs[j].canceled = TRUE /\ jobs[j].buf = Null
                    /\ jobs[j].paths = s.job[j].paths /\ jobs[j] # Null
  <2> TAKE j \in js
  <2>1. s.job[j] \in Builds /\ jobs[j] = [s.job[j] EXCEPT !.canceled = TRUE, !.done = TRUE, !.buf = Null]
    BY <1>1
  <2> HIDE DEF jobs
  <2>2. /\ jobs[j] \in Builds /\ jobs[j].canceled = TRUE /\ jobs[j].buf = Null
        /\ jobs[j].paths = s.job[j].paths
    BY <2>1 DEF Builds
  <2> QED BY <2>2, ManagerAssumptions
<1>4. \A j \in Job \ js : jobs[j] = s.job[j]
  OBVIOUS
<1>5. jobs \in [Job -> Builds \cup {Null}]
  <2>1. \A j \in Job : jobs[j] \in Builds \cup {Null}
    <3> TAKE j \in Job
    <3>1. CASE j \in js
      <4> HIDE DEF jobs
      <4> QED BY <1>3, <3>1
    <3>2. CASE j \notin js
      <4> HIDE DEF jobs
      <4> QED BY <1>1, <1>4, <3>2 DEF Memories
    <3> QED BY <3>1, <3>2
  <2>2. jobs = [j \in Job |-> jobs[j]]
    OBVIOUS
  <2> HIDE DEF jobs
  <2> QED BY <2>1, <2>2
<1>6. w \in [MountPoint -> Job \cup {Null}] /\ \A q \in MountPoint : w[q] = IF s.watch[q] \in js THEN Null ELSE s.watch[q]
  BY <1>1 DEF Put, Memories
<1>7. bufs \in SUBSET Buf /\ bufs \subseteq Results(s)
  <2>1. \A j \in js : s.job[j].buf \in Buf \cup {Null}
    BY <1>1 DEF Builds
  <2>2. \A b \in bufs : b \in Results(s)
    BY <1>1, ResultsIs
  <2> QED BY <2>1, <2>2
<1>8. \A j \in js : s.job[j].buf # Null => s.job[j].buf \in bufs
  OBVIOUS
<1>9. \A b \in bufs : \E j \in js : b = s.job[j].buf /\ b # Null
  OBVIOUS
<1> HIDE DEF jobs, w, bufs, t
<1>10. /\ t \in Memories /\ SameBufs(s, t) /\ t.leaked = s.leaked \cup bufs /\ t.job = jobs /\ t.watch = w
  BY <1>1, <1>2, <1>5, <1>6, <1>7 DEF Memories, SameBufs
<1>11. \A j \in Job : t.job[j] # Null <=> s.job[j] # Null
  BY <1>1, <1>3, <1>4, <1>10
<1>12. Results(t) = Results(s) \ bufs
  <2>1. \A b : b \in Results(t) => b \in Results(s) \ bufs
    <3> TAKE b
    <3> HAVE b \in Results(t)
    <3>1. PICK k \in Job : t.job[k] # Null /\ t.job[k].buf = b /\ b # Null
      BY ResultsIs
    <3>2. k \notin js /\ s.job[k] # Null /\ s.job[k].buf = b
      BY <1>3, <1>4, <1>10, <1>11, <3>1
    <3>3. b \in Results(s)
      BY <3>1, <3>2, ResultsIs
    <3>4. ASSUME b \in bufs PROVE FALSE
      <4>1. PICK j \in js : b = s.job[j].buf
        BY <1>9, <3>4
      <4>2. j # k /\ j \in Active(s) /\ k \in Active(s)
        BY <3>2, ActiveIs
      <4> QED BY <3>1, <3>2, <4>1, <4>2 DEF Good, Apart
    <3> QED BY <3>3, <3>4
  <2>2. \A b : b \in Results(s) \ bufs => b \in Results(t)
    <3> TAKE b
    <3> HAVE b \in Results(s) \ bufs
    <3>1. PICK k \in Job : s.job[k] # Null /\ s.job[k].buf = b /\ b # Null
      BY ResultsIs
    <3>2. k \notin js
      BY <1>8, <3>1
    <3>3. t.job[k] = s.job[k]
      BY <1>4, <1>10, <3>2
    <3> QED BY <3>1, <3>3, ResultsIs
  <2> QED BY <2>1, <2>2
<1>13. Fit(t, Results(t))
  <2>1. Mapped(t) = Mapped(s)
    BY <1>10 DEF Mapped, SameBufs
  <2>2. Kept(t, Results(t))
    BY <1>7, <1>10, <1>12, <2>1 DEF Good, Fit, Kept, SameBufs
  <2>3. Rivals(t) /\ Clean(t, Buf)
    BY <1>10, <2>1 DEF Good, Fit, Rivals, Clean, SameBufs
  <2> QED BY <1>10, <1>12, <2>2, <2>3 DEF Good, Fit
<1>14. Watched(t)
  <2> SUFFICES ASSUME NEW p \in MountPoint, t.watch[p] # Null
               PROVE  LET j == t.job[t.watch[p]] IN j # Null /\ ~j.canceled /\ p \in ToSet(j.paths)
    BY DEF Watched
  <2>1. t.watch[p] = s.watch[p] /\ s.watch[p] \in Job \ js
    BY <1>1, <1>6, <1>10 DEF Memories
  <2>2. t.job[t.watch[p]] = s.job[s.watch[p]]
    BY <1>4, <1>10, <2>1
  <2> QED BY <2>1, <2>2 DEF Good, Watched
<1>15. Apart(t)
  <2> SUFFICES ASSUME NEW j \in Active(t), NEW k \in Active(t), j # k, t.job[j].buf # Null
               PROVE  t.job[j].buf # t.job[k].buf
    BY DEF Apart
  <2>1. j \in Active(s) /\ k \in Active(s) /\ j \in Job /\ k \in Job
    BY <1>11, ActiveIs
  <2>2. j \notin js /\ t.job[j] = s.job[j]
    BY <1>3, <1>4, <1>10, <2>1
  <2>3. k \in js => t.job[k].buf = Null
    BY <1>3, <1>10
  <2>4. k \notin js => t.job[k] = s.job[k]
    BY <1>4, <1>10, <2>1
  <2> QED BY <2>1, <2>2, <2>3, <2>4 DEF Good, Apart
<1>16. Started(t)
  BY <1>3, <1>4, <1>10, <1>11, ActiveIs DEF Good, Started
<1> QED BY <1>13, <1>14, <1>15, <1>16 DEF Good, t

LEMMA CancelBuildGood ==
  ASSUME NEW s, Good(s), NEW p \in MountPoint
  PROVE  Good(CancelBuild(s, p))
<1>1. s.watch[p] \in Job \cup {Null} /\ (s.watch[p] # Null => s.job[s.watch[p]] # Null)
  BY DEF Good, Fit, Memories, Watched
<1>2. {s.watch[p]} \ {Null} \subseteq Active(s)
  BY <1>1, ActiveIs
<1> QED BY <1>2, CancelGood DEF CancelBuild

LEMMA FreeResultFit ==
  ASSUME NEW s, NEW K, Fit(s, K), NEW b \in K
  PROVE  Fit(FreeBufs(s, {b}), K \ {b}) /\ SameBuilds(s, FreeBufs(s, {b}))
<1> DEFINE t == FreeBufs(s, {b})
<1>1. s \in Memories /\ {b} \in SUBSET Buf /\ K \subseteq Buf
  BY DEF Fit
<1>2. /\ t \in Memories
      /\ t.map = s.map /\ t.file = s.file /\ t.dirty = s.dirty /\ t.disk = s.disk
      /\ t.leaked = s.leaked /\ t.rivals = s.rivals \ {b}
      /\ t.watch = s.watch /\ t.job = s.job
      /\ \A c \in Buf : t.data[c] = IF c \in {b} THEN Null ELSE s.data[c]
  BY <1>1, FreeBufsIs
<1> HIDE DEF t
<1>3. Mapped(t) = Mapped(s)
  BY <1>2 DEF Mapped
<1>4. b \notin Mapped(s) \cup s.leaked \cup s.dirty /\ s.file[b] = Null
  BY <1>1 DEF Fit, Kept
<1>5. Kept(t, K \ {b})
  BY <1>1, <1>2, <1>3, <1>4 DEF Fit, Kept
<1>6. Rivals(t)
  BY <1>1, <1>2, <1>4 DEF Fit, Rivals
<1>7. Clean(t, Buf)
  BY <1>2, <1>3, <1>4 DEF Fit, Clean
<1>8. Fit(t, K \ {b}) /\ SameBuilds(s, t)
  BY <1>1, <1>2, <1>5, <1>6, <1>7 DEF Fit, SameBuilds
<1> QED BY <1>8 DEF t

LEMMA ForgetGood ==
  ASSUME NEW s, Good(s), NEW j \in Active(s), NEW t, SameBuilds(s, t),
         Fit(t, Results(s) \ {s.job[j].buf})
  PROVE  Good(Forget(t, j))
<1> DEFINE paths == ToSet(t.job[j].paths)
           jobs == [t.job EXCEPT ![j] = Null]
           w == Put(t.watch, paths, Null)
           n == [p \in MountPoint |-> IF p \in paths /\ t.building[p] > 0 THEN t.building[p] - 1 ELSE t.building[p]]
           u == Forget(t, j)
<1>1. t \in Memories /\ s \in Memories /\ t.job = s.job /\ t.watch = s.watch
  BY DEF Good, Fit, SameBuilds
<1>2. j \in Job /\ s.job[j] # Null
  BY ActiveIs
<1>3. u = [t EXCEPT !.job = jobs, !.missed = @ \ {j}, !.watch = w, !.building = n]
  BY <1>1 DEF Forget, Memories
<1>4. jobs \in [Job -> Builds \cup {Null}] /\ \A k \in Job : jobs[k] = IF k = j THEN Null ELSE s.job[k]
  BY <1>1, <1>2 DEF Memories
<1>5. w \in [MountPoint -> Job \cup {Null}] /\ \A q \in MountPoint : w[q] = IF q \in paths THEN Null ELSE s.watch[q]
  BY <1>1 DEF Put, Memories
<1>6. n \in [MountPoint -> Nat]
  <2>1. \A p \in MountPoint : t.building[p] \in Nat
    BY <1>1 DEF Memories
  <2>2. \A x \in Nat : x > 0 => x - 1 \in Nat
    OBVIOUS
  <2> QED BY <2>1, <2>2
<1>7. paths = ToSet(s.job[j].paths)
  BY <1>1
<1> HIDE DEF jobs, w, n, u, paths
<1>8. u \in Memories /\ SameBufs(t, u) /\ u.leaked = t.leaked /\ u.job = jobs /\ u.watch = w
  BY <1>1, <1>3, <1>4, <1>5, <1>6 DEF Memories, SameBufs
<1>9. \A k : k \in Active(u) <=> k \in Active(s) /\ k # j
  BY <1>4, <1>8, ActiveIs
<1>10. \A k \in Active(u) : u.job[k] = s.job[k]
  BY <1>4, <1>8, ActiveIs
<1>11. Results(u) = Results(s) \ {s.job[j].buf}
  <2>1. \A b : b \in Results(u) => b \in Results(s) \ {s.job[j].buf}
    <3> TAKE b
    <3> HAVE b \in Results(u)
    <3>1. PICK k \in Job : u.job[k] # Null /\ u.job[k].buf = b /\ b # Null
      BY ResultsIs
    <3>2. k \in Active(s) /\ k # j /\ s.job[k].buf = b /\ s.job[k] # Null
      BY <1>9, <1>10, <3>1, ActiveIs
    <3>3. b # s.job[j].buf
      BY <3>1, <3>2 DEF Good, Apart
    <3> QED BY <3>1, <3>2, <3>3, ResultsIs
  <2>2. \A b : b \in Results(s) \ {s.job[j].buf} => b \in Results(u)
    <3> TAKE b
    <3> HAVE b \in Results(s) \ {s.job[j].buf}
    <3>1. PICK k \in Job : s.job[k] # Null /\ s.job[k].buf = b /\ b # Null
      BY ResultsIs
    <3>2. k # j
      BY <3>1
    <3>3. u.job[k] = s.job[k]
      BY <1>4, <1>8, <3>2
    <3> QED BY <3>1, <3>3, ResultsIs
  <2> QED BY <2>1, <2>2
<1>12. Fit(u, Results(u))
  BY <1>8, <1>11, SameBufsFit
<1>13. Watched(u)
  <2> SUFFICES ASSUME NEW p \in MountPoint, u.watch[p] # Null
               PROVE  LET k == u.job[u.watch[p]] IN k # Null /\ ~k.canceled /\ p \in ToSet(k.paths)
    BY DEF Watched
  <2>1. u.watch[p] = s.watch[p] /\ p \notin paths /\ s.watch[p] \in Job
    BY <1>1, <1>5, <1>8 DEF Memories
  <2>2. s.watch[p] # j
    BY <1>7, <2>1 DEF Good, Watched
  <2>3. u.job[u.watch[p]] = s.job[s.watch[p]]
    BY <1>4, <1>8, <2>1, <2>2
  <2> QED BY <2>1, <2>3 DEF Good, Watched
<1>14. Apart(u)
  BY <1>9, <1>10 DEF Good, Apart
<1>15. Started(u)
  BY <1>9, <1>10 DEF Good, Started
<1> QED BY <1>12, <1>13, <1>14, <1>15 DEF Good, u

-----------------------------------------------------------------------------
(* Mounts, D-Bus calls and the setting.                                    *)
LEMMA RoomyAfter ==
  ASSUME NEW s, NEW t, Roomy(s), SameBuilds(s, t)
  PROVE  \E j \in Job : t.job[j] = Null
BY DEF Roomy, SameBuilds

LEMMA AddPathByPartitionGood ==
  ASSUME NEW s, Good(s), mounts \in Seq(MountPoint), \E j \in Job : s.job[j] = Null
  PROVE  Good(AddPathByPartition(s))
<1>1. CASE auto /\ mounts # <<>>
  <2>1. Head(mounts) \in MountPoint /\ TRUE \in BOOLEAN
    BY <1>1
  <2>2. Good(AddPath(s, Head(mounts), TRUE))
    BY <2>1, AddPathGood
  <2> QED BY <1>1, <2>2 DEF AddPathByPartition
<1>2. CASE ~(auto /\ mounts # <<>>)
  BY <1>2 DEF AddPathByPartition
<1> QED BY <1>1, <1>2

LEMMA RefreshGood ==
  ASSUME NEW s, Good(s), NEW order \in Order, mounts \in Seq(MountPoint), Spacious(s)
  PROVE  Good(Refresh(s, order)) /\ SameBuilds(s, Refresh(s, order))
<1>1. Fit(s, Results(s))
  BY DEF Good
<1>2. Fit(Refresh(s, order), Results(s)) /\ SameBuilds(s, Refresh(s, order))
  BY <1>1, RefreshFit
<1> QED BY <1>2, GoodAfter

LEMMA OnMountAddedGood ==
  ASSUME NEW s, Good(s), NEW p, NEW order \in Order, mounts \in Seq(MountPoint), Roomy(s)
  PROVE  Good(OnMountAdded(s, p, order))
<1> DEFINE t == Refresh(s, order)
           loaded == \E x \in Suffix : s.disk[x] \notin {Absent, Broken, {}}
<1>1. OnMountAdded(s, p, order) = IF loaded \/ p \notin ToSet(mounts) THEN t ELSE AddPathByPartition(t)
  BY DEF OnMountAdded, With
<1>2. Good(t) /\ SameBuilds(s, t)
  BY RefreshGood DEF Roomy
<1> HIDE DEF t, loaded
<1>3. Good(AddPathByPartition(t))
  BY <1>2, RoomyAfter, AddPathByPartitionGood
<1> QED BY <1>1, <1>2, <1>3

LEMMA RemoveMappedGood ==
  ASSUME NEW s, Good(s), NEW bs, bs \subseteq Mapped(s), NEW r \in BOOLEAN
  PROVE  Good(RemoveBuf(s, bs, r)) /\ SameBuilds(s, RemoveBuf(s, bs, r))
<1> DEFINE t == RemoveBuf(s, bs, r)
<1>1. Fit(s, Results(s)) /\ s \in Memories /\ bs \in SUBSET Buf
  BY MappedType DEF Good, Fit
<1>2. Removed(s, t, bs, r)
  BY <1>1, RemoveBufIs
<1> HIDE DEF t
<1>3. Fit(t, Results(s) \ bs)
  BY <1>1, <1>2, RemovedFit
<1>4. Results(s) \ bs = Results(s)
  BY <1>1 DEF Fit, Kept
<1>5. SameBuilds(s, t)
  BY <1>2 DEF Removed, SameBuilds
<1>6. Fit(t, Results(s))
  BY <1>3, <1>4
<1>7. Good(t)
  BY <1>5, <1>6, GoodAfter
<1> QED BY <1>5, <1>7 DEF t

LEMMA OnMountRemovedGood ==
  ASSUME NEW s, Good(s), NEW p \in MountPoint, NEW failure \in Failures
  PROVE  Good(OnMountRemoved(s, p, failure))
<1> DEFINE b == s.map[p]
           t == IF b \in s.dirty THEN Sync(s, {p}, failure) ELSE s
<1>1. OnMountRemoved(s, p, failure) =
        IF b = Null THEN s ELSE IF s.watch[p] # Null THEN CancelBuild(s, p) ELSE RemoveBuf(t, {b}, FALSE)
  <2> DEFINE v == CHOOSE r \in {RemoveBuf(u, {b}, FALSE) : u \in {t}} : TRUE
  <2>1. OnMountRemoved(s, p, failure) =
          IF b = Null THEN s ELSE IF s.watch[p] # Null THEN CancelBuild(s, p) ELSE v
    BY DEF OnMountRemoved, With
  <2>2. v = RemoveBuf(t, {b}, FALSE)
    <3> HIDE DEF t, b
    <3> QED OBVIOUS
  <2> HIDE DEF t, b, v
  <2> QED BY <2>1, <2>2
<1>2. Good(CancelBuild(s, p))
  BY CancelBuildGood
<1>3. ASSUME b # Null PROVE Good(RemoveBuf(t, {b}, FALSE))
  <2>1. b \in Mapped(s)
    BY <1>3 DEF Mapped
  <2>2. Good(t) /\ Mapped(t) = Mapped(s)
    <3>1. Fit(s, Results(s)) /\ {p} \in SUBSET MountPoint
      BY DEF Good
    <3>2. Fit(Sync(s, {p}, failure), Results(s)) /\ Written(s, Sync(s, {p}, failure))
      BY <3>1, SyncFit
    <3>3. Good(Sync(s, {p}, failure)) /\ Mapped(Sync(s, {p}, failure)) = Mapped(s)
      BY <3>1, <3>2, GoodAfter, WrittenFit DEF Written
    <3> QED BY <3>3
  <2> HIDE DEF t, b
  <2>3. {b} \subseteq Mapped(t) /\ FALSE \in BOOLEAN
    BY <2>1, <2>2
  <2> QED BY <2>2, <2>3, RemoveMappedGood
<1> QED BY <1>1, <1>2, <1>3

(* removePath for a path with an automatic index: the path is no longer    *)
(* mapped, and the buffer is leaked unless another path is mapped to it.   *)
Unmapped(s, p) == [s EXCEPT !.map[p] = Null]
Leaking(s, p) ==
  [Unmapped(s, p) EXCEPT !.leaked = IF s.map[p] \in Mapped(Unmapped(s, p)) THEN @ ELSE @ \cup {s.map[p]}]

LEMMA UnmapGood ==
  ASSUME NEW s, Good(s), NEW p \in MountPoint, s.map[p] # Null
  PROVE  Unmapped(s, p) \in Memories /\ Good(Leaking(s, p))
<1> DEFINE t == Unmapped(s, p)
           u == Leaking(s, p)
           b == s.map[p]
           m == [s.map EXCEPT ![p] = Null]
           l == IF b \in Mapped(t) THEN s.leaked ELSE s.leaked \cup {b}
<1>1. s \in Memories /\ b \in Buf /\ Fit(s, Results(s))
  BY DEF Good, Fit, Memories
<1>2. m \in [MountPoint -> Buf \cup {Null}] /\ \A q \in MountPoint : m[q] = IF q = p THEN Null ELSE s.map[q]
  BY <1>1 DEF Memories
<1>3. t = [s EXCEPT !.map = m]
  BY <1>1 DEF Memories, Unmapped
<1> HIDE DEF m, t
<1>4. t \in Memories /\ t.map = m /\ t.leaked = s.leaked
  BY <1>1, <1>2, <1>3 DEF Memories
<1>5. u = [s EXCEPT !.map = m, !.leaked = l]
  BY <1>1, <1>3, <1>4 DEF Memories, Leaking, t
<1>6. l \in SUBSET Buf
  BY <1>1 DEF Memories
<1> HIDE DEF l, u
<1>7. /\ u \in Memories /\ u.map = m /\ u.data = s.data /\ u.file = s.file /\ u.dirty = s.dirty
      /\ u.leaked = l /\ u.rivals = s.rivals /\ u.disk = s.disk /\ u.watch = s.watch /\ u.job = s.job
  BY <1>1, <1>2, <1>5, <1>6 DEF Memories
<1>8. Mapped(u) = Mapped(t)
  BY <1>4, <1>7 DEF Mapped
<1>9. \A c \in Buf : c # b => (c \in Mapped(u) <=> c \in Mapped(s))
  <2>1. \A c \in Buf : /\ c \in Mapped(u) <=> \E q \in MountPoint : u.map[q] = c
                       /\ c \in Mapped(s) <=> \E q \in MountPoint : s.map[q] = c
    BY <1>1, <1>7, MappedIs
  <2>2. \A c \in Buf, q \in MountPoint : c # b => (u.map[q] = c <=> s.map[q] = c)
    BY <1>2, <1>7, ManagerAssumptions
  <2> QED BY <2>1, <2>2
<1>10. b \in Mapped(s) /\ b \notin s.leaked
  <2>1. b \in Mapped(s)
    BY <1>1, MappedIs
  <2> QED BY <1>1, <2>1 DEF Fit, Kept
<1>11. l = IF b \in Mapped(u) THEN s.leaked ELSE s.leaked \cup {b}
  BY <1>8 DEF l
<1> HIDE DEF b
<1>12. Kept(u, Results(s))
  <2> SUFFICES ASSUME NEW c \in Buf
               PROVE  /\ u.data[c] # Null <=> c \in Mapped(u) \cup Results(s) \cup u.leaked
                      /\ c \in Results(s) => c \notin Mapped(u) \cup u.leaked \cup u.dirty /\ u.file[c] = Null
                      /\ c \in u.leaked => c \notin Mapped(u)
                      /\ c \in u.dirty \/ u.file[c] # Null => u.data[c] # Null
    BY DEF Kept
  <2>1. /\ s.data[c] # Null <=> c \in Mapped(s) \cup Results(s) \cup s.leaked
        /\ c \in Results(s) => c \notin Mapped(s) \cup s.leaked \cup s.dirty /\ s.file[c] = Null
        /\ c \in s.leaked => c \notin Mapped(s)
        /\ c \in s.dirty \/ s.file[c] # Null => s.data[c] # Null
    BY <1>1 DEF Fit, Kept
  <2>2. CASE c = b
    BY <1>7, <1>10, <1>11, <2>1, <2>2
  <2>3. CASE c # b
    BY <1>7, <1>9, <1>11, <2>1, <2>3
  <2> QED BY <2>2, <2>3
<1>13. Rivals(u)
  BY <1>1, <1>7 DEF Fit, Rivals
<1>14. Clean(u, Buf)
  BY <1>1, <1>7, <1>9, <1>10 DEF Fit, Clean
<1>15. Fit(u, Results(s)) /\ SameBuilds(s, u)
  BY <1>1, <1>7, <1>12, <1>13, <1>14 DEF Fit, SameBuilds
<1>16. Good(u)
  BY <1>15, GoodAfter
<1> QED BY <1>4, <1>16 DEF t, u

(* The buffer of a path is removed after the path was taken from the map.  *)
Taken(s, p) == RemoveBuf(Unmapped(s, p), {s.map[p]}, TRUE)

LEMMA TakenGood ==
  ASSUME NEW s, Good(s), NEW p \in MountPoint, Roomy(s), s.map[p] # Null
  PROVE  Good(Taken(s, p)) /\ Roomy(Taken(s, p))
<1> DEFINE b == s.map[p]
           t == Unmapped(s, p)
           u == RemoveBuf(t, {b}, TRUE)
<1>1. t \in Memories
  BY UnmapGood
<1>2. s \in Memories /\ b \in Buf /\ b \in Mapped(s) /\ TRUE \in BOOLEAN
  BY DEF Good, Fit, Memories, Mapped
<1>3. /\ \A q \in MountPoint : t.map[q] = IF q = p THEN Null ELSE s.map[q]
      /\ t.data = s.data /\ t.file = s.file /\ t.dirty = s.dirty /\ t.rivals = s.rivals
      /\ t.leaked = s.leaked /\ t.disk = s.disk /\ t.building = s.building
      /\ t.watch = s.watch /\ t.job = s.job
  BY <1>2 DEF Memories, Unmapped
<1>4. Removed(t, u, {b}, TRUE)
  <2>1. {b} \in SUBSET Buf
    BY <1>2
  <2> HIDE DEF t, b
  <2> QED BY <1>1, <1>2, <2>1, RemoveBufIs
<1> HIDE DEF t, u
<1>5. Removed(s, u, {b}, TRUE)
  BY <1>3, <1>4 DEF Removed
<1>6. Fit(u, Results(s) \ {b})
  <2>1. Fit(s, Results(s)) /\ {b} \subseteq Mapped(s) \cup Results(s)
    BY <1>2 DEF Good
  <2> HIDE DEF b
  <2> QED BY <1>5, <2>1, RemovedFit
<1>7. Results(s) \ {b} = Results(s)
  <2>1. b \notin Results(s)
    BY <1>2 DEF Good, Fit, Kept
  <2> QED BY <2>1
<1>8. Good(u) /\ SameBuilds(s, u)
  <2>1. Fit(u, Results(s)) /\ SameBuilds(s, u)
    BY <1>5, <1>6, <1>7 DEF Removed, SameBuilds
  <2> QED BY <2>1, GoodAfter
<1>9. Roomy(u)
  <2>1. \A c \in Unused(s) : c \in Unused(u)
    BY <1>5, UnusedIs DEF Removed
  <2> QED BY <1>8, <2>1 DEF Roomy, Spacious, SameBuilds
<1> QED BY <1>8, <1>9 DEF Taken, t, u

LEMMA RemovePathIs ==
  ASSUME NEW s, NEW p, NEW order, s.map[p] # Null
  PROVE  RemovePath(s, p, order) \in
           {Leaking(s, p), Taken(s, p),
            IF p \in ToSet(mounts) THEN OnMountAdded(Taken(s, p), p, order) ELSE Taken(s, p)}
<1> DEFINE b == s.map[p]
           t == Unmapped(s, p)
           l == Leaking(s, p)
           u == Taken(s, p)
           v == IF p \in ToSet(mounts) THEN OnMountAdded(u, p, order) ELSE u
           w == CHOOSE r \in {IF p \in ToSet(mounts) THEN OnMountAdded(x, p, order) ELSE x : x \in {u}} : TRUE
<1>1. RemovePath(s, p, order) =
        IF s.file[b] = "LFT" THEN l ELSE IF s.file[b] = Null \/ s.disk["lft"] = Absent THEN u ELSE w
  BY DEF RemovePath, With, Taken, Unmapped, Leaking
<1>2. w = v
  <2> HIDE DEF u
  <2> QED OBVIOUS
<1> HIDE DEF w, l, v, b, u
<1>3. RemovePath(s, p, order) \in {l, u, v}
  BY <1>1, <1>2
<1> QED BY <1>3 DEF l, u, v

LEMMA RemovePathGood ==
  ASSUME NEW s, Good(s), NEW p \in MountPoint, NEW order \in Order, mounts \in Seq(MountPoint), Roomy(s)
  PROVE  Good(RemovePath(s, p, order))
<1>1. CASE s.map[p] = Null
  BY <1>1 DEF RemovePath
<1>2. CASE s.map[p] # Null
  <2>1. Good(Leaking(s, p))
    BY <1>2, UnmapGood
  <2>2. Good(Taken(s, p)) /\ Roomy(Taken(s, p))
    BY <1>2, TakenGood
  <2>3. Good(OnMountAdded(Taken(s, p), p, order))
    BY <2>2, OnMountAddedGood
  <2> QED BY <1>2, <2>1, <2>2, <2>3, RemovePathIs
<1> QED BY <1>1, <1>2

LEMMA IndexAllGood ==
  ASSUME NEW s, Good(s), NEW force \in BOOLEAN, NEW autoIndex \in BOOLEAN,
         mounts \in Seq(MountPoint), \E j \in Job : s.job[j] = Null
  PROVE  Good(IndexAll(s, force, autoIndex))
<1> DEFINE n == [p \in MountPoint |-> 0]
           t == [s EXCEPT !.building = n]
<1>1. s \in Memories /\ Fit(s, Results(s)) /\ n \in [MountPoint -> Nat]
  BY DEF Good, Fit
<1> HIDE DEF n
<1>2. t \in Memories /\ SameBufs(s, t) /\ t.leaked = s.leaked /\ SameBuilds(s, t)
  BY <1>1 DEF Memories, SameBufs, SameBuilds
<1>3. IndexAll(s, force, autoIndex) \in {t, AddPath(t, Head(mounts), TRUE)} /\
      (mounts = <<>> => IndexAll(s, force, autoIndex) = t)
  BY DEF IndexAll, n
<1> HIDE DEF t
<1>4. Good(t)
  BY <1>1, <1>2, SameBufsFit, GoodAfter
<1>5. ASSUME mounts # <<>> PROVE Good(AddPath(t, Head(mounts), TRUE))
  <2>1. Head(mounts) \in MountPoint /\ TRUE \in BOOLEAN /\ \E j \in Job : t.job[j] = Null
    BY <1>2, <1>5 DEF SameBuilds
  <2> QED BY <1>4, <2>1, AddPathGood
<1> QED BY <1>3, <1>4, <1>5

LEMMA NotAllowedMapped ==
  ASSUME NEW s
  PROVE  NotAllowed(s) \subseteq Mapped(s)
BY DEF NotAllowed

LEMMA CleanAllIndexGood ==
  ASSUME NEW s, Good(s)
  PROVE  Good(CleanAllIndex(s))
<1> DEFINE t == RemoveBuf(s, NotAllowed(s), TRUE)
<1>1. Good(t) /\ SameBuilds(s, t)
  <2>1. TRUE \in BOOLEAN
    OBVIOUS
  <2> QED BY <2>1, NotAllowedMapped, RemoveMappedGood
<1> HIDE DEF t
<1>2. Cleaned(s) \subseteq Active(t)
  BY <1>1 DEF Cleaned, Active, SameBuilds
<1>3. Good(Cancel(t, Cleaned(s)))
  BY <1>1, <1>2, CancelGood
<1> QED BY <1>3 DEF CleanAllIndex, t

LEMMA MemoryGood ==
  ASSUME NEW d \in [Suffix -> (SUBSET File) \cup {Absent, Broken}], NEW m \in SUBSET Suffix
  PROVE  Good(Memory(d, m))
<1> DEFINE s == Memory(d, m)
<1>1. /\ s.map = [p \in MountPoint |-> Null] /\ s.data = [b \in Buf |-> Null]
      /\ s.file = [b \in Buf |-> Null] /\ s.dirty = {} /\ s.leaked = {} /\ s.rivals = {}
      /\ s.watch = [p \in MountPoint |-> Null] /\ s.job = [j \in Job |-> Null]
  BY DEF Memory
<1>2. s \in Memories
  BY DEF Memory, Memories
<1> HIDE DEF s
<1>3. Active(s) = {}
  BY <1>1, ActiveIs
<1>4. Mapped(s) = {} /\ Results(s) = {}
  BY <1>1, <1>3 DEF Mapped, Results
<1>5. Fit(s, Results(s))
  BY <1>1, <1>2, <1>4 DEF Fit, Kept, Rivals, Clean
<1>6. Good(s)
  BY <1>1, <1>3, <1>5 DEF Good, Watched, Apart, Started
<1> QED BY <1>6 DEF s

-----------------------------------------------------------------------------
(* Scans and events.                                                       *)
LEMMA EditType ==
  ASSUME content \subseteq File
  PROVE  Edits \subseteq Edit
BY DEF Edits, Edit

LEMMA AppliedType ==
  ASSUME NEW d \in SUBSET File, NEW e \in Edit
  PROVE  Applied(d, e) \in SUBSET File
<1>1. CASE e \in [op : {"insert", "remove"}, file : File, to : {Null}]
  BY <1>1 DEF Applied
<1>2. CASE e \in [op : {"rename"}, file : File, to : File]
  BY <1>2 DEF Applied
<1> QED BY <1>1, <1>2 DEF Edit

(* A memory in which only the past of the buffers differs.                 *)
LEMMA MissedGood ==
  ASSUME NEW s, Good(s), NEW m \in SUBSET (Buf \cup Job \cup Suffix),
         NEW t, t = [s EXCEPT !.missed = m]
  PROVE  Good(t) /\ SameBufs(s, t) /\ SameBuilds(s, t) /\ t.leaked = s.leaked
<1>1. s \in Memories /\ Fit(s, Results(s))
  BY DEF Good, Fit
<1>2. t \in Memories /\ SameBufs(s, t) /\ SameBuilds(s, t) /\ t.leaked = s.leaked
  BY <1>1 DEF Memories, SameBufs, SameBuilds
<1> QED BY <1>1, <1>2, SameBufsFit, GoodAfter

LEMMA ScanGood ==
  ASSUME NEW j \in Job, NEW f \in File, Good(st), Scan(j, f), content \subseteq File
  PROVE  Good(st')
<1> DEFINE new == [st.job[j] EXCEPT !.todo = @ \ {f}, !.seen = @ \cup ({f} \cap content)]
           jobs == [st.job EXCEPT ![j] = new]
<1>1. st \in Memories /\ st.job[j] # Null /\ st.job[j] \in Builds
  BY DEF Good, Fit, Memories, Scan, Running
<1>2. st' = [st EXCEPT !.job = jobs]
  BY <1>1 DEF Scan, Memories, Builds
<1>3. /\ new \in Builds /\ new.buf = st.job[j].buf /\ new.canceled = st.job[j].canceled
      /\ new.paths = st.job[j].paths /\ new.done = st.job[j].done
  BY <1>1 DEF Builds
<1>4. new # Null
  BY <1>3, ManagerAssumptions
<1> HIDE DEF new
<1>5. jobs \in [Job -> Builds \cup {Null}] /\ \A k \in Job : jobs[k] = IF k = j THEN new ELSE st.job[k]
  BY <1>1, <1>3 DEF Memories
<1> HIDE DEF jobs
<1>6. st' \in Memories /\ SameBufs(st, st') /\ st'.leaked = st.leaked /\ st'.job = jobs /\ st'.watch = st.watch
  BY <1>1, <1>2, <1>5 DEF Memories, SameBufs
<1>7. \A k \in Job : /\ st'.job[k] # Null <=> st.job[k] # Null
                     /\ st'.job[k] # Null => /\ st'.job[k].buf = st.job[k].buf
                                             /\ st'.job[k].canceled = st.job[k].canceled
                                             /\ st'.job[k].paths = st.job[k].paths
                                             /\ st'.job[k].done = st.job[k].done
  BY <1>1, <1>3, <1>4, <1>5, <1>6
<1>8. Results(st') = Results(st)
  <2>1. \A b : b \in Results(st') <=> b \in Results(st)
    <3> TAKE b
    <3>1. /\ b \in Results(st') <=> b # Null /\ \E k \in Job : st'.job[k] # Null /\ st'.job[k].buf = b
          /\ b \in Results(st) <=> b # Null /\ \E k \in Job : st.job[k] # Null /\ st.job[k].buf = b
      BY ResultsIs
    <3> QED BY <1>7, <3>1
  <2> QED BY <2>1
<1>9. Fit(st', Results(st'))
  BY <1>6, <1>8, SameBufsFit DEF Good
<1>10. \A k : k \in Active(st') <=> k \in Active(st)
  <2> TAKE k
  <2>1. /\ k \in Active(st') <=> k \in Job /\ st'.job[k] # Null
        /\ k \in Active(st) <=> k \in Job /\ st.job[k] # Null
    BY ActiveIs
  <2> QED BY <1>7, <2>1
<1>11. Apart(st') /\ Started(st')
  <2>1. \A k \in Active(st') : k \in Job /\ k \in Active(st) /\ st'.job[k] # Null
    <3> TAKE k \in Active(st')
    <3>1. k \in Job /\ st'.job[k] # Null
      BY ActiveIs
    <3> QED BY <1>10, <3>1
  <2> QED BY <1>7, <2>1 DEF Good, Apart, Started
<1>12. Watched(st')
  <2>1. \A p \in MountPoint : st.watch[p] \in Job \cup {Null}
    BY <1>1 DEF Memories
  <2> QED BY <1>6, <1>7, <2>1 DEF Good, Watched
<1> QED BY <1>9, <1>11, <1>12 DEF Good

LEMMA EndBuildGood ==
  ASSUME NEW j \in Job, Good(st), EndBuild(j), Room, content \subseteq File
  PROVE  Good(st')
<1> DEFINE b == IF st.job[j].seen = {} THEN Null ELSE CHOOSE b \in Unused(st) : TRUE
           new == [st.job[j] EXCEPT !.done = TRUE, !.buf = b]
           jobs == [st.job EXCEPT ![j] = new]
           d == IF b = Null THEN st.data ELSE [st.data EXCEPT ![b] = st.job[j].seen]
           ms == IF b = Null THEN st.missed ELSE IF j \in st.missed THEN st.missed \cup {b} ELSE st.missed
<1>1. st \in Memories /\ st.job[j] # Null /\ ~st.job[j].done /\ st.job[j] \in Builds
  BY DEF Good, Fit, Memories, EndBuild, Running
<1>2. b # Null => b \in Buf /\ st.data[b] = Null
  <2>1. (CHOOSE c \in Unused(st) : TRUE) \in Unused(st)
    BY DEF Room, Roomy, Spacious
  <2> QED BY <2>1, UnusedIs
<1>3. st' = [st EXCEPT !.job = jobs, !.data = d, !.missed = ms]
  <2> DEFINE s == [st EXCEPT !.job[j].done = TRUE, !.job[j].buf = b]
  <2>1. s = [st EXCEPT !.job = jobs]
    <3> HIDE DEF b
    <3> QED BY <1>1 DEF Memories, Builds
  <2>2. st' = IF b = Null THEN s
              ELSE [s EXCEPT !.data[b] = st.job[j].seen, !.missed = IF j \in @ THEN @ \cup {b} ELSE @]
    BY DEF EndBuild
  <2> HIDE DEF b, s, jobs
  <2>3. s \in [map : {st.map}, data : {st.data}, file : {st.file}, dirty : {st.dirty}, leaked : {st.leaked},
               rivals : {st.rivals}, watch : {st.watch}, building : {st.building}, job : {jobs},
               disk : {st.disk}, missed : {st.missed}]
    BY <1>1, <2>1 DEF Memories
  <2> QED BY <1>1, <2>1, <2>2, <2>3 DEF Memories
<1> HIDE DEF b
<1>4. /\ new \in Builds /\ new.buf = b /\ new.canceled = st.job[j].canceled
      /\ new.paths = st.job[j].paths /\ new.done = TRUE
  BY <1>1, <1>2 DEF Builds
<1>5. new # Null
  BY <1>4, ManagerAssumptions
<1> HIDE DEF new
<1>6. jobs \in [Job -> Builds \cup {Null}] /\ \A k \in Job : jobs[k] = IF k = j THEN new ELSE st.job[k]
  BY <1>1, <1>4 DEF Memories
<1>7. /\ d \in [Buf -> (SUBSET File) \cup {Null}]
      /\ \A c \in Buf : d[c] = IF c = b /\ b # Null THEN st.job[j].seen ELSE st.data[c]
  BY <1>1, <1>2 DEF Memories, Builds
<1>8. ms \in SUBSET (Buf \cup Job \cup Suffix)
  BY <1>1, <1>2 DEF Memories
<1>9. st.job[j].seen # Null
  BY <1>1, ManagerAssumptions DEF Builds
<1> HIDE DEF jobs, d, ms
<1>10. /\ st' \in Memories /\ st'.map = st.map /\ st'.data = d /\ st'.file = st.file /\ st'.dirty = st.dirty
       /\ st'.leaked = st.leaked /\ st'.rivals = st.rivals /\ st'.disk = st.disk /\ st'.watch = st.watch
       /\ st'.job = jobs
  BY <1>1, <1>3, <1>6, <1>7, <1>8 DEF Memories
<1>11. Mapped(st') = Mapped(st)
  BY <1>10 DEF Mapped
<1>12. st.job[j].buf = Null
  <2>1. j \in Active(st)
    BY <1>1, ActiveIs
  <2> QED BY <1>1, <2>1 DEF Good, Started
<1>13. \A k \in Job : st'.job[k] # Null <=> st.job[k] # Null
  BY <1>1, <1>5, <1>6, <1>10
<1>14. \A k \in Job \ {j} : st'.job[k] = st.job[k]
  BY <1>6, <1>10
<1>15. st'.job[j] = new
  BY <1>6, <1>10
<1>16. b # Null => b \notin Mapped(st) \cup st.leaked \cup st.dirty \cup Results(st) /\ st.file[b] = Null
  BY <1>2 DEF Good, Fit, Kept
<1>17. Results(st') = Results(st) \cup ({b} \ {Null})
  <2>1. \A c : c \in Results(st') => c \in Results(st) \cup ({b} \ {Null})
    <3> TAKE c
    <3> HAVE c \in Results(st')
    <3>1. PICK k \in Job : st'.job[k] # Null /\ st'.job[k].buf = c /\ c # Null
      BY ResultsIs
    <3>2. CASE k = j
      BY <1>4, <1>15, <3>1, <3>2
    <3>3. CASE k # j
      <4>1. st.job[k] # Null /\ st.job[k].buf = c
        BY <1>14, <3>1, <3>3
      <4> QED BY <3>1, <4>1, ResultsIs
    <3> QED BY <3>2, <3>3
  <2>2. \A c : c \in Results(st) => c \in Results(st')
    <3> TAKE c
    <3> HAVE c \in Results(st)
    <3>1. PICK k \in Job : st.job[k] # Null /\ st.job[k].buf = c /\ c # Null
      BY ResultsIs
    <3>2. k # j
      BY <1>12, <3>1
    <3>3. st'.job[k] = st.job[k]
      BY <1>14, <3>2
    <3> QED BY <3>1, <3>3, ResultsIs
  <2>3. b # Null => b \in Results(st')
    BY <1>4, <1>5, <1>15, ResultsIs
  <2> QED BY <2>1, <2>2, <2>3
<1>18. Kept(st', Results(st'))
  BY <1>2, <1>7, <1>9, <1>10, <1>11, <1>16, <1>17 DEF Good, Fit, Kept
<1>19. Rivals(st')
  BY <1>10 DEF Good, Fit, Rivals
<1>20. Clean(st', Buf)
  BY <1>7, <1>10, <1>11, <1>16 DEF Good, Fit, Clean
<1>21. Results(st') \subseteq Buf
  BY <1>2, <1>17 DEF Good, Fit
<1>22. Watched(st')
  <2>1. \A p \in MountPoint : st.watch[p] \in Job \cup {Null}
    BY <1>1 DEF Memories
  <2> QED BY <1>4, <1>5, <1>10, <1>14, <1>15, <2>1 DEF Good, Watched
<1>23. \A k \in Active(st') : k \in Job /\ k \in Active(st)
  <2> TAKE k \in Active(st')
  <2>1. k \in Job /\ st'.job[k] # Null
    BY ActiveIs
  <2> QED BY <1>13, <2>1, ActiveIs
<1>24. Apart(st')
  <2> SUFFICES ASSUME NEW k \in Active(st'), NEW l \in Active(st'), k # l, st'.job[k].buf # Null
               PROVE  st'.job[k].buf # st'.job[l].buf
    BY DEF Apart
  <2>1. CASE k # j /\ l # j
    <3>1. st'.job[k] = st.job[k] /\ st'.job[l] = st.job[l] /\ k \in Active(st) /\ l \in Active(st)
      BY <1>14, <1>23, <2>1
    <3> QED BY <3>1 DEF Good, Apart
  <2>2. CASE k = j
    <3>1. st'.job[k].buf = b /\ b # Null /\ st'.job[l] = st.job[l] /\ l \in Job /\ st.job[l] # Null
      BY <1>4, <1>14, <1>15, <1>23, <2>2, ActiveIs
    <3>2. b \notin Results(st)
      BY <1>16, <3>1
    <3>3. st.job[l].buf # b
      BY <3>1, <3>2, ResultsIs
    <3> QED BY <3>1, <3>3
  <2>3. CASE l = j
    <3>1. st'.job[l].buf = b /\ st'.job[k] = st.job[k] /\ k \in Job /\ st.job[k] # Null
      BY <1>4, <1>14, <1>15, <1>23, <2>3, ActiveIs
    <3>2. st.job[k].buf \in Results(st)
      BY <3>1, ResultsIs
    <3> QED BY <1>16, <3>1, <3>2
  <2> QED BY <2>1, <2>2, <2>3
<1>25. Started(st')
  <2> SUFFICES ASSUME NEW k \in Active(st')
               PROVE  st'.job[k].paths # <<>> /\ (~ st'.job[k].done => st'.job[k].buf = Null)
    BY DEF Started
  <2>1. k \in Active(st) /\ k \in Job
    BY <1>23
  <2>2. CASE k = j
    BY <1>4, <1>15, <2>1, <2>2 DEF Good, Started
  <2>3. CASE k # j
    BY <1>14, <2>1, <2>3 DEF Good, Started
  <2> QED BY <2>2, <2>3
<1> QED BY <1>10, <1>18, <1>19, <1>20, <1>21, <1>22, <1>24, <1>25 DEF Good, Fit

LEMMA FinishJobGood ==
  ASSUME NEW j \in Job, NEW failure \in Failures, Good(st), FinishJob(j, failure)
  PROVE  Good(st')
<1> DEFINE job == st.job[j]
           b == job.buf
           taken == IF b = Null THEN st
                    ELSE IF st.watch[Head(job.paths)] = Null \/ ~Allowable(job.auto, auto) THEN FreeBufs(st, {b})
                    ELSE Accept(st, job, b)
           t == Forget(taken, j)
<1>1. job # Null /\ job \in Builds /\ j \in Active(st) /\ job.paths # <<>>
  <2>1. job # Null /\ job \in Builds
    BY DEF FinishJob, Good, Fit, Memories
  <2>2. j \in Active(st)
    BY <2>1, ActiveIs
  <2> QED BY <2>1, <2>2 DEF Good, Started
<1>2. st' = SyncAll(t, failure) \/ st' = t
  <2> DEFINE v == With(taken, LAMBDA u : Forget(u, j))
  <2>1. st' = SyncAll(v, failure) \/ st' = v
    BY DEF FinishJob
  <2>2. v = t
    <3> HIDE DEF taken
    <3> QED BY DEF With
  <2> HIDE DEF v, t
  <2> QED BY <2>1, <2>2
<1>3. Fit(taken, Results(st) \ {b}) /\ SameBuilds(st, taken)
  <2>1. CASE b = Null
    <3>1. taken = st /\ Results(st) \ {b} = Results(st)
      BY <2>1 DEF Results
    <3> QED BY <3>1 DEF Good, SameBuilds
  <2>2. CASE b # Null
    <3>1. b \in Results(st) /\ Fit(st, Results(st))
      BY <1>1, <2>2, ResultsIs DEF Good
    <3>2. Fit(FreeBufs(st, {b}), Results(st) \ {b}) /\ SameBuilds(st, FreeBufs(st, {b}))
      <4> HIDE DEF b
      <4> QED BY <3>1, FreeResultFit
    <3>3. Fit(Accept(st, job, b), Results(st) \ {b}) /\ SameBuilds(st, Accept(st, job, b))
      <4> HIDE DEF b, job
      <4> QED BY <1>1, <3>1, AcceptFit
    <3>4. taken \in {FreeBufs(st, {b}), Accept(st, job, b)}
      BY <2>2
    <3> HIDE DEF taken, b, job
    <3> QED BY <3>2, <3>3, <3>4
  <2> QED BY <2>1, <2>2
<1> HIDE DEF taken
<1>4. Good(t)
  BY <1>1, <1>3, ForgetGood
<1> HIDE DEF t
<1>5. Good(SyncAll(t, failure))
  <2>1. Fit(SyncAll(t, failure), Results(t)) /\ SameBuilds(t, SyncAll(t, failure))
    BY <1>4, SyncAllFit DEF Good
  <2> QED BY <1>4, <2>1, GoodAfter
<1> QED BY <1>2, <1>4, <1>5

LEMMA PassedByType ==
  ASSUME NEW e, NEW b \in Buf \cup {Null}
  PROVE  PassedBy(b, e) \in SUBSET (Buf \cup Job \cup Suffix)
BY DEF PassedBy, Allocated, Active

(* t is s with the content d of a buffer that is mapped, and now dirty.    *)
LEMMA ChangedGood ==
  ASSUME NEW s, Good(s), NEW b \in Mapped(s), NEW d \in SUBSET File,
         NEW t, t = [s EXCEPT !.data[b] = d, !.dirty = @ \cup {b}]
  PROVE  Good(t)
<1> DEFINE c == [s.data EXCEPT ![b] = d]
           ds == s.dirty \cup {b}
<1>1. s \in Memories /\ Fit(s, Results(s)) /\ b \in Buf
  BY MappedType DEF Good, Fit
<1>2. t = [s EXCEPT !.data = c, !.dirty = ds] /\ ds \in SUBSET Buf
  BY <1>1 DEF Memories
<1>3. c \in [Buf -> (SUBSET File) \cup {Null}] /\ \A x \in Buf : c[x] = IF x = b THEN d ELSE s.data[x]
  BY <1>1 DEF Memories
<1> HIDE DEF c, ds
<1>4. /\ t \in Memories /\ t.map = s.map /\ t.data = c /\ t.file = s.file /\ t.dirty = ds
      /\ t.leaked = s.leaked /\ t.rivals = s.rivals /\ t.disk = s.disk /\ t.watch = s.watch
      /\ t.job = s.job
  BY <1>1, <1>2, <1>3 DEF Memories
<1>5. Mapped(t) = Mapped(s)
  BY <1>4 DEF Mapped
<1>6. d # Null /\ s.data[b] # Null /\ b \notin Results(s)
  BY <1>1, ManagerAssumptions DEF Fit, Kept
<1>7. Kept(t, Results(s))
  BY <1>1, <1>3, <1>4, <1>5, <1>6 DEF Fit, Kept, ds
<1>8. Rivals(t)
  BY <1>1, <1>4 DEF Fit, Rivals
<1>9. Clean(t, Buf)
  BY <1>1, <1>3, <1>4, <1>5 DEF Fit, Clean, ds
<1>10. Fit(t, Results(s)) /\ SameBuilds(s, t)
  BY <1>1, <1>4, <1>7, <1>8, <1>9 DEF Fit, SameBuilds
<1> QED BY <1>10, GoodAfter

LEMMA HeadIsIn ==
  ASSUME NEW S, NEW q \in Seq(S), q # <<>>
  PROVE  Head(q) \in S /\ Tail(q) \in Seq(S)
OBVIOUS

LEMMA HandleEventGood ==
  ASSUME Good(st), HandleEvent, Coming
  PROVE  Good(st')
<1> DEFINE e == Head(events).edit
           b == getFsBufByPath(Head(events).at)
           s == [st EXCEPT !.missed = @ \cup PassedBy(b, e)]
           t == [s EXCEPT !.data[b] = Applied(s.data[b], e), !.dirty = @ \cup {b}]
<1>1. events # <<>> /\ Head(events) \in [at : MountPoint, edit : Edit]
  BY HeadIsIn DEF HandleEvent, Coming
<1>2. st \in Memories
  BY DEF Good, Fit
<1>3. b \in Buf \cup {Null} /\ (b # Null => b \in Mapped(st))
  BY <1>1, <1>2 DEF getFsBufByPath, Memories, Mapped
<1>4. st' = IF b = Null \/ Applied(s.data[b], e) = s.data[b] THEN s ELSE t
  <2>1. st' = IF b = Null \/ Applied(s.data[b], e) = s.data[b] THEN s
              ELSE [s EXCEPT !.data[b] = Applied(@, e), !.dirty = @ \cup {b}]
    BY DEF HandleEvent
  <2> QED BY <2>1
<1>5. e \in Edit
  BY <1>1
<1> HIDE DEF b, e
<1>6. st.missed \cup PassedBy(b, e) \in SUBSET (Buf \cup Job \cup Suffix)
  BY <1>2, <1>3, PassedByType DEF Memories
<1>7. Good(s) /\ SameBufs(st, s)
  BY <1>6, MissedGood
<1> HIDE DEF s
<1>8. ASSUME b # Null PROVE Good(t)
  <2>1. b \in Mapped(s) /\ b \in Buf
    BY <1>3, <1>7, <1>8 DEF Mapped, SameBufs
  <2>2. s.data[b] \in SUBSET File
    BY <1>7, <2>1 DEF Good, Fit, Kept, Memories
  <2>3. Applied(s.data[b], e) \in SUBSET File
    BY <1>5, <2>2, AppliedType
  <2> QED BY <1>7, <2>1, <2>3, ChangedGood
<1> QED BY <1>4, <1>7, <1>8

LEMMA DiskGood ==
  ASSUME NEW s, Good(s), NEW d \in [Suffix -> (SUBSET File) \cup {Absent, Broken}],
         \A x \in Suffix : d[x] \in {Absent, s.disk[x]},
         NEW t, t = [s EXCEPT !.disk = d]
  PROVE  Good(t)
<1>1. s \in Memories /\ Fit(s, Results(s))
  BY DEF Good, Fit
<1>2. /\ t \in Memories /\ t.map = s.map /\ t.data = s.data /\ t.file = s.file /\ t.dirty = s.dirty
      /\ t.leaked = s.leaked /\ t.rivals = s.rivals /\ t.watch = s.watch /\ t.job = s.job /\ t.disk = d
  BY <1>1 DEF Memories
<1>3. Written(s, t) /\ SameBuilds(s, t)
  BY <1>2 DEF Written, SameBuilds
<1>4. Clean(t, Buf)
  <2> SUFFICES ASSUME NEW b \in Buf, b \in Mapped(t) \ t.dirty, t.file[b] # Null
               PROVE  b \in t.rivals \/ t.disk[t.file[b]] \in {Absent, Broken, t.data[b]}
    BY DEF Clean
  <2>1. b \in Mapped(s) \ s.dirty /\ s.file[b] \in Suffix /\ s.file[b] # Null
    BY <1>1, <1>2, <1>3, WrittenFit DEF Memories
  <2>2. b \in s.rivals \/ s.disk[s.file[b]] \in {Absent, Broken, s.data[b]}
    BY <1>1, <2>1 DEF Fit, Clean
  <2> QED BY <1>2, <2>1, <2>2
<1>5. Fit(t, Results(s))
  BY <1>1, <1>2, <1>3, <1>4, WrittenFit DEF Fit
<1> QED BY <1>3, <1>5, GoodAfter

-----------------------------------------------------------------------------
(* The steps.                                                              *)
LEMMA EndGood ==
  ASSUME NEW s, s.disk \in [Suffix -> (SUBSET File) \cup {Absent, Broken}], End(s)
  PROVE  Good(st')
<1> DEFINE m == (s.missed \cap Suffix) \cup (IF events = <<>> THEN {} ELSE Suffix)
<1>1. st' = Memory(s.disk, m) /\ m \in SUBSET Suffix
  BY DEF End
<1> HIDE DEF m
<1>2. Good(Memory(s.disk, m))
  BY <1>1, MemoryGood
<1> QED BY <1>1, <1>2

LEMMA CrashGood ==
  ASSUME Good(st), NEW torn, Crash(torn)
  PROVE  Good(st')
<1> DEFINE d == Put(st.disk, {torn} \ {Null}, Broken)
           s == [st EXCEPT !.disk = d]
<1>1. st \in Memories
  BY DEF Good, Fit
<1>2. d \in [Suffix -> (SUBSET File) \cup {Absent, Broken}]
  BY <1>1 DEF Put, Memories
<1>3. End(s)
  BY DEF Crash
<1> HIDE DEF d
<1>4. s.disk = d
  BY <1>1 DEF Memories
<1> HIDE DEF s
<1> QED BY <1>2, <1>3, <1>4, EndGood

LEMMA QuitGood ==
  ASSUME Good(st), Quit
  PROVE  Good(st')
<1>1. Fit(st, Results(st)) /\ End(st)
  BY DEF Good, Quit
<1>2. st.disk \in [Suffix -> (SUBSET File) \cup {Absent, Broken}]
  BY <1>1 DEF Fit, Memories
<1> QED BY <1>1, <1>2, EndGood

LEMMA PluggedGood ==
  ASSUME Good(st), HandlePlugged
  PROVE  Good(st')
<1> DEFINE d == [st.disk EXCEPT !["LFT"] = Absent]
<1>1. st \in Memories
  BY DEF Good, Fit
<1>2. st' = [st EXCEPT !.disk = d]
  BY <1>1 DEF HandlePlugged, Memories
<1>3. d \in [Suffix -> (SUBSET File) \cup {Absent, Broken}] /\ \A x \in Suffix : d[x] \in {Absent, st.disk[x]}
  BY <1>1 DEF Memories
<1> HIDE DEF d
<1> QED BY <1>2, <1>3, DiskGood

LEMMA SetAutoGood ==
  ASSUME Good(st), Roomy(st), mounts \in Seq(MountPoint), SetAutoIndexInternal
  PROVE  Good(st')
<1> DEFINE s == RemoveBuf(st, NotAllowed(st), TRUE)
<1>1. CASE End(s)
  <2>1. Good(s)
    <3>1. TRUE \in BOOLEAN
      OBVIOUS
    <3> QED BY <3>1, NotAllowedMapped, RemoveMappedGood
  <2> HIDE DEF s
  <2>2. s.disk \in [Suffix -> (SUBSET File) \cup {Absent, Broken}]
    BY <2>1 DEF Good, Fit, Memories
  <2> QED BY <1>1, <2>2, EndGood
<1>2. CASE st' = CleanAllIndex(st)
  BY <1>2, CleanAllIndexGood
<1>3. CASE st' = IndexAll(st, FALSE, TRUE)
  <2>1. TRUE \in BOOLEAN /\ FALSE \in BOOLEAN
    OBVIOUS
  <2>2. \E j \in Job : st.job[j] = Null
    BY DEF Roomy
  <2>3. Good(IndexAll(st, FALSE, TRUE))
    BY <2>1, <2>2, IndexAllGood
  <2> QED BY <1>3, <2>3
<1> QED BY <1>1, <1>2, <1>3 DEF SetAutoIndexInternal

LEMMA MissedStepGood ==
  ASSUME Good(st), NEW e, NEW p, Operate(e) \/ Replug(p)
  PROVE  Good(st')
<1>1. st \in Memories
  BY DEF Good, Fit
<1>2. CASE Operate(e) /\ alive
  BY <1>2 DEF Operate
<1>3. CASE Operate(e) /\ ~alive
  <2>1. st' = [st EXCEPT !.missed = st.missed \cup Suffix]
    BY <1>3 DEF Operate
  <2>2. st.missed \cup Suffix \in SUBSET (Buf \cup Job \cup Suffix)
    BY <1>1 DEF Memories
  <2> QED BY <2>1, <2>2, MissedGood
<1>4. CASE Replug(p)
  <2>1. st' = [st EXCEPT !.missed = Suffix \cup Allocated(st) \cup Active(st)]
    BY <1>4 DEF Replug
  <2>2. Suffix \cup Allocated(st) \cup Active(st) \in SUBSET (Buf \cup Job \cup Suffix)
    BY DEF Allocated, Active
  <2> QED BY <2>1, <2>2, MissedGood
<1> QED BY <1>2, <1>3, <1>4

LEMMA CallGood ==
  ASSUME Good(st), Roomy(st), mounts \in Seq(MountPoint), NEW p \in MountPoint, NEW order \in Order,
         CallAddPath(p) \/ CallCancelBuild(p) \/ CallSync(p) \/ CallRemovePath(p, order) \/ CallRefresh(order)
  PROVE  Good(st')
<1>1. CASE CallAddPath(p)
  <2>1. FALSE \in BOOLEAN /\ \E j \in Job : st.job[j] = Null
    BY DEF Roomy
  <2>2. Good(AddPath(st, p, FALSE))
    BY <2>1, AddPathGood
  <2> QED BY <1>1, <2>2 DEF CallAddPath, Method
<1>2. CASE CallCancelBuild(p)
  BY <1>2, CancelBuildGood DEF CallCancelBuild, Method
<1>3. CASE CallSync(p)
  <2>1. {p} \in SUBSET MountPoint /\ "none" \in Failures /\ Fit(st, Results(st))
    BY DEF Failures, Good
  <2>2. Fit(Sync(st, {p}, "none"), Results(st)) /\ Written(st, Sync(st, {p}, "none"))
    BY <2>1, SyncFit
  <2>3. Good(Sync(st, {p}, "none"))
    BY <2>2, GoodAfter DEF Written
  <2> QED BY <1>3, <2>3 DEF CallSync, Method
<1>4. CASE CallRemovePath(p, order)
  BY <1>4, RemovePathGood DEF CallRemovePath, Method
<1>5. CASE CallRefresh(order)
  BY <1>5, RefreshGood DEF CallRefresh, Method, Roomy
<1> QED BY <1>1, <1>2, <1>3, <1>4, <1>5

LEMMA TimerGood ==
  ASSUME Good(st), Roomy(st), mounts \in Seq(MountPoint), auto \in BOOLEAN,
         NEW order \in Order, NEW failure \in Failures,
         RefreshTimer(order) \/ IndexAllDelay \/ SyncTimer(failure)
  PROVE  Good(st')
<1>1. CASE RefreshTimer(order)
  BY <1>1, RefreshGood DEF RefreshTimer, Roomy
<1>2. CASE IndexAllDelay
  <2>1. TRUE \in BOOLEAN /\ \E j \in Job : st.job[j] = Null
    BY DEF Roomy
  <2>2. Good(IndexAll(st, TRUE, auto))
    BY <2>1, IndexAllGood
  <2> QED BY <1>2, <2>2 DEF IndexAllDelay
<1>3. CASE SyncTimer(failure)
  <2>1. Fit(SyncAll(st, failure), Results(st)) /\ SameBuilds(st, SyncAll(st, failure))
    BY SyncAllFit DEF Good
  <2> QED BY <1>3, <2>1, GoodAfter DEF SyncTimer
<1> QED BY <1>1, <1>2, <1>3

LEMMA SignalGood ==
  ASSUME Good(st), Roomy(st), mounts \in Seq(MountPoint), Coming,
         NEW order \in Order, NEW failure \in Failures,
         HandleMounted(order) \/ HandleUnmounted(failure)
  PROVE  Good(st')
<1>1. Head(signals).path \in MountPoint
  <2>1. signals # <<>>
    BY DEF HandleMounted, HandleUnmounted
  <2>2. Head(signals) \in [kind : {"mounted", "unmounted", "plugged"}, path : MountPoint]
    BY <2>1, HeadIsIn DEF Coming
  <2> QED BY <2>2
<1>2. CASE HandleMounted(order)
  BY <1>2, OnMountAddedGood DEF HandleMounted
<1>3. CASE HandleUnmounted(failure)
  BY <1>1, <1>3, OnMountRemovedGood DEF HandleUnmounted
<1> QED BY <1>2, <1>3

LEMMA GoodNext ==
  ASSUME IInv, Room, Next
  PROVE  Good(st')
<1>1. Good(st) /\ Roomy(st) /\ mounts \in Seq(MountPoint) /\ Coming /\ content \subseteq File /\ auto \in BOOLEAN
  BY DEF IInv, Room, Bounds
<1>2. ASSUME NEW e, Operate(e) PROVE Good(st')
  BY <1>1, <1>2, MissedStepGood
<1>3. ASSUME NEW p, Replug(p) PROVE Good(st')
  BY <1>1, <1>3, MissedStepGood
<1>4. ASSUME NEW p, Mount(p) \/ Unmount(p) \/ Restart PROVE Good(st')
  <2>1. st' = st
    BY <1>4 DEF Mount, Unmount, Restart
  <2> QED BY <1>1, <2>1
<1>5. ASSUME NEW p \in MountPoint, NEW order \in Order,
             CallAddPath(p) \/ CallCancelBuild(p) \/ CallSync(p) \/ CallRemovePath(p, order) \/ CallRefresh(order)
      PROVE  Good(st')
  BY <1>1, <1>5, CallGood
<1>6. ASSUME NEW order \in Order, NEW failure \in Failures,
             RefreshTimer(order) \/ IndexAllDelay \/ SyncTimer(failure)
      PROVE  Good(st')
  BY <1>1, <1>6, TimerGood
<1>7. ASSUME NEW order \in Order, NEW failure \in Failures, HandleMounted(order) \/ HandleUnmounted(failure)
      PROVE  Good(st')
  BY <1>1, <1>7, SignalGood
<1>8. ASSUME NEW j \in Job, EndBuild(j) PROVE Good(st')
  BY <1>1, <1>8, EndBuildGood
<1>9. ASSUME NEW j \in Job, NEW f \in File, Scan(j, f) PROVE Good(st')
  BY <1>1, <1>9, ScanGood
<1>10. ASSUME NEW j \in Job, NEW failure \in Failures, FinishJob(j, failure) PROVE Good(st')
  BY <1>1, <1>10, FinishJobGood
<1>11. CASE Quit
  BY <1>1, <1>11, QuitGood
<1>12. ASSUME NEW torn, Crash(torn) PROVE Good(st')
  BY <1>1, <1>12, CrashGood
<1>13. CASE HandleEvent
  BY <1>1, <1>13, HandleEventGood
<1>14. CASE HandlePlugged
  BY <1>1, <1>14, PluggedGood
<1>15. CASE SetAutoIndexInternal
  BY <1>1, <1>15, SetAutoGood
<1>16. MountPoint # {} /\ Order # {} /\ Failures # {}
  BY ManagerAssumptions DEF Order, Failures
<1> QED
  BY <1>2, <1>3, <1>4, <1>5, <1>6, <1>7, <1>8, <1>9, <1>10, <1>11, <1>12, <1>13, <1>14, <1>15, <1>16
  DEF Next

-----------------------------------------------------------------------------
(* What is on its way, and the bounds.                                     *)
LEMMA SignalsNext ==
  ASSUME NEW n \in Nat, NEW kinds \in [1 .. n -> {"mounted", "unmounted", "plugged"}],
         NEW p \in MountPoint, Coming, Signal(kinds, p)
  PROVE  signals' \in Seq([kind : {"mounted", "unmounted", "plugged"}, path : MountPoint])
<1> DEFINE S == [kind : {"mounted", "unmounted", "plugged"}, path : MountPoint]
           more == [i \in DOMAIN kinds |-> [kind |-> kinds[i], path |-> p]]
<1>1. signals \in Seq(S)
  BY DEF Coming
<1>2. more \in [1 .. n -> S]
  OBVIOUS
<1>3. more \in Seq(S)
  BY <1>2
<1>4. signals' = IF alive THEN signals \o more ELSE signals
  BY DEF Signal
<1> HIDE DEF S, more
<1>5. signals \o more \in Seq(S)
  BY <1>1, <1>3
<1>6. signals' \in Seq(S)
  BY <1>1, <1>4, <1>5
<1> QED BY <1>6 DEF S

LEMMA Appended ==
  ASSUME NEW S, NEW q \in Seq(S), NEW x \in S
  PROVE  Append(q, x) \in Seq(S)
OBVIOUS

LEMMA ComingNext ==
  ASSUME IInv, Next
  PROVE  Coming'
<1> DEFINE S == [kind : {"mounted", "unmounted", "plugged"}, path : MountPoint]
           E == [at : MountPoint, edit : Edit]
<1>1. events \in Seq(E) /\ signals \in Seq(S) /\ mounts \in Seq(MountPoint) /\ content \subseteq File
  BY DEF IInv, Coming, Bounds
<1>2. Tail(events) \in Seq(E) \/ events = <<>>
  BY <1>1
<1>3. Tail(signals) \in Seq(S) \/ signals = <<>>
  BY <1>1
<1>4. signals' \in Seq(S)
  <2>1. ASSUME NEW p \in MountPoint, Mount(p) \/ Unmount(p) PROVE signals' \in Seq(S)
    <3>1. Coming
      BY DEF IInv
    <3>2. 1 \in Nat /\ <<"mounted">> \in [1 .. 1 -> {"mounted", "unmounted", "plugged"}]
                   /\ <<"unmounted">> \in [1 .. 1 -> {"mounted", "unmounted", "plugged"}]
      OBVIOUS
    <3>3. Signal(<<"mounted">>, p) \/ Signal(<<"unmounted">>, p)
      BY <2>1 DEF Mount, Unmount
    <3> QED BY <3>1, <3>2, <3>3, SignalsNext
  <2>2. ASSUME NEW p \in MountPoint, Replug(p) PROVE signals' \in Seq(S)
    <3>1. Coming
      BY DEF IInv
    <3>2. 2 \in Nat /\ <<"plugged", "mounted">> \in [1 .. 2 -> {"mounted", "unmounted", "plugged"}]
      OBVIOUS
    <3>3. Signal(<<"plugged", "mounted">>, p)
      BY <2>2 DEF Replug
    <3> QED BY <3>1, <3>2, <3>3, SignalsNext
  <2>3. ASSUME NEW order, HandleMounted(order) PROVE signals' \in Seq(S)
    BY <1>3, <2>3 DEF HandleMounted
  <2>4. ASSUME NEW failure, HandleUnmounted(failure) PROVE signals' \in Seq(S)
    BY <1>3, <2>4 DEF HandleUnmounted
  <2>5. CASE HandlePlugged
    BY <1>3, <2>5 DEF HandlePlugged
  <2>6. CASE UNCHANGED signals \/ signals' = <<>>
    <3>1. <<>> \in Seq(S)
      OBVIOUS
    <3> QED BY <1>1, <2>6, <3>1
  <2> HIDE DEF S
  <2> QED
    BY <2>1, <2>2, <2>3, <2>4, <2>5, <2>6
    DEF Next, Operate, CallAddPath, CallCancelBuild, CallSync, CallRemovePath, CallRefresh, Method,
        RefreshTimer, EndBuild, Scan, SyncTimer, Quit, FinishJob, Crash, HandleEvent, IndexAllDelay,
        SetAutoIndexInternal, Restart, End
<1>5. events' \in Seq(E)
  <2>1. ASSUME NEW e \in Edits, Operate(e) PROVE events' \in Seq(E)
    <3>1. e \in Edit
      BY <1>1, EditType
    <3>2. mounts # <<>> /\ Head(mounts) \in MountPoint
      BY <1>1, <2>1 DEF Operate
    <3>3. [at |-> Head(mounts), edit |-> e] \in E
      BY <3>1, <3>2
    <3>4. events' = Append(events, [at |-> Head(mounts), edit |-> e]) \/ events' = events
      BY <2>1 DEF Operate
    <3> DEFINE n == [at |-> Head(mounts), edit |-> e]
    <3> HIDE DEF E, n
    <3>5. n \in E /\ (events' = Append(events, n) \/ events' = events)
      BY <3>3, <3>4 DEF n
    <3>6. events \in Seq(E)
      BY <1>1
    <3>7. Append(events, n) \in Seq(E)
      BY <3>5, <3>6, Appended
    <3> QED BY <3>5, <3>6, <3>7
  <2>2. CASE HandleEvent
    BY <1>2, <2>2 DEF HandleEvent
  <2>3. CASE UNCHANGED events \/ events' = <<>>
    <3>1. <<>> \in Seq(E)
      OBVIOUS
    <3> QED BY <1>1, <2>3, <3>1
  <2> HIDE DEF E
  <2> QED
    BY <2>1, <2>2, <2>3
    DEF Next, Mount, Unmount, Replug, CallAddPath, CallCancelBuild, CallSync, CallRemovePath, CallRefresh,
        Method, RefreshTimer, HandleMounted, EndBuild, Scan, SyncTimer, HandleUnmounted, Quit, FinishJob,
        Crash, HandlePlugged, IndexAllDelay, SetAutoIndexInternal, Restart, End
<1> QED BY <1>4, <1>5 DEF Coming

LEMMA Lengths ==
  ASSUME NEW S, NEW a \in Seq(S), NEW b \in Seq(S)
  PROVE  Len(a \o b) = Len(a) + Len(b)
OBVIOUS

LEMMA RemovedInjective ==
  ASSUME NEW q \in Seq(MountPoint), IsInjective(q), NEW i \in 1 .. Len(q)
  PROVE  RemoveAt(q, i) \in Seq(MountPoint) /\ IsInjective(RemoveAt(q, i))
<1> DEFINE r == RemoveAt(q, i)
           a == SubSeq(q, 1, i - 1)
           b == SubSeq(q, i + 1, Len(q))
<1>1. r = a \o b
  BY DEF RemoveAt
<1>2. /\ a \in Seq(MountPoint) /\ Len(a) = i - 1 /\ \A k \in 1 .. i - 1 : a[k] = q[k]
      /\ b \in Seq(MountPoint) /\ Len(b) = Len(q) - i /\ \A k \in 1 .. Len(q) - i : b[k] = q[i + k]
  OBVIOUS
<1> HIDE DEF a, b, r
<1>3. r \in Seq(MountPoint)
  BY <1>1, <1>2
<1>4. Len(r) = Len(q) - 1
  <2>1. Len(r) = Len(a) + Len(b)
    BY <1>1, <1>2, Lengths
  <2> QED BY <1>2, <2>1
<1>5. \A k \in 1 .. Len(r) : r[k] = IF k < i THEN q[k] ELSE q[k + 1]
  <2>1. \A k \in 1 .. Len(r) : r[k] = IF k <= Len(a) THEN a[k] ELSE b[k - Len(a)]
    BY <1>1, <1>2
  <2>2. ASSUME NEW k \in 1 .. Len(r) PROVE r[k] = IF k < i THEN q[k] ELSE q[k + 1]
    <3>1. CASE k < i
      BY <1>2, <1>4, <2>1, <3>1
    <3>2. CASE ~ (k < i)
      <4>1. r[k] = b[k - (i - 1)] /\ k - (i - 1) \in 1 .. Len(q) - i
        BY <1>2, <1>4, <2>1, <3>2
      <4>2. b[k - (i - 1)] = q[i + (k - (i - 1))] /\ i + (k - (i - 1)) = k + 1
        BY <1>2, <4>1
      <4> QED BY <3>2, <4>1, <4>2
    <3> QED BY <3>1, <3>2
  <2> QED BY <2>2
<1>6. IsInjective(r)
  BY <1>3, <1>4, <1>5, SMTT(30) DEF IsInjective
<1> QED BY <1>3, <1>6 DEF r

LEMMA MountsNext ==
  ASSUME IInv, Next
  PROVE  mounts' \in Seq(MountPoint) /\ IsInjective(mounts)'
<1>1. mounts \in Seq(MountPoint) /\ IsInjective(mounts)
  BY DEF IInv, Bounds
<1>2. ASSUME NEW p \in MountPoint, Mount(p)
      PROVE  mounts' \in Seq(MountPoint) /\ IsInjective(mounts)'
  <2>1. mounts' = Append(mounts, p) /\ \A i \in 1 .. Len(mounts) : mounts[i] # p
    BY <1>1, <1>2 DEF Mount, ToSet
  <2>2. mounts' \in Seq(MountPoint) /\ Len(mounts') = Len(mounts) + 1
    BY <1>1, <2>1
  <2>3. \A i \in 1 .. Len(mounts') : mounts'[i] = IF i <= Len(mounts) THEN mounts[i] ELSE p
    BY <1>1, <2>1, <2>2
  <2> QED BY <1>1, <2>1, <2>2, <2>3 DEF IsInjective
<1>3. ASSUME NEW p \in MountPoint, Unmount(p)
      PROVE  mounts' \in Seq(MountPoint) /\ IsInjective(mounts)'
  <2>1. PICK i \in 1 .. Len(mounts) : mounts' = RemoveAt(mounts, i)
    BY <1>1, <1>3 DEF Unmount
  <2>2. RemoveAt(mounts, i) \in Seq(MountPoint) /\ IsInjective(RemoveAt(mounts, i))
    BY <1>1, RemovedInjective
  <2> QED BY <2>1, <2>2 DEF IsInjective
<1>4. ASSUME NEW p \in MountPoint, Replug(p)
      PROVE  mounts' \in Seq(MountPoint) /\ IsInjective(mounts)'
  <2>1. mounts' = <<p>>
    BY <1>4 DEF Replug
  <2> QED BY <2>1 DEF IsInjective
<1>5. CASE UNCHANGED mounts
  BY <1>1, <1>5 DEF IsInjective
<1> QED
  BY <1>2, <1>3, <1>4, <1>5
  DEF Next, Operate, CallAddPath, CallCancelBuild, CallSync, CallRemovePath, CallRefresh, Method,
      RefreshTimer, HandleMounted, EndBuild, Scan, SyncTimer, HandleUnmounted, Quit, FinishJob, Crash,
      HandleEvent, HandlePlugged, IndexAllDelay, SetAutoIndexInternal, Restart

LEMMA ContentNext ==
  ASSUME IInv, Next
  PROVE  content' \subseteq File
<1>1. content \subseteq File
  BY DEF IInv, Bounds
<1>2. ASSUME NEW e \in Edits, Operate(e) PROVE content' \subseteq File
  <2>1. e \in Edit
    BY <1>1, EditType
  <2>2. Applied(content, e) \in SUBSET File
    BY <1>1, <2>1, AppliedType
  <2> QED BY <1>2, <2>2 DEF Operate
<1>3. ASSUME NEW p, Replug(p) PROVE content' \subseteq File
  BY <1>3 DEF Replug
<1>4. CASE UNCHANGED content
  BY <1>1, <1>4
<1> QED
  BY <1>2, <1>3, <1>4
  DEF Next, Mount, Unmount, CallAddPath, CallCancelBuild, CallSync, CallRemovePath, CallRefresh, Method,
      RefreshTimer, HandleMounted, EndBuild, Scan, SyncTimer, HandleUnmounted, Quit, FinishJob, Crash,
      HandleEvent, HandlePlugged, IndexAllDelay, SetAutoIndexInternal, Restart

LEMMA CountsNext ==
  ASSUME IInv, Next
  PROVE  edits' \in 0 .. MaxEdits /\ acts' \in 0 .. MaxActs
<1>1. edits \in 0 .. MaxEdits /\ acts \in 0 .. MaxActs /\ MaxEdits \in Nat /\ MaxActs \in Nat
  BY ManagerAssumptions DEF IInv, Bounds
<1>2. ASSUME NEW e, Operate(e) PROVE edits' \in 0 .. MaxEdits /\ acts' \in 0 .. MaxActs
  BY <1>1, <1>2 DEF Operate
<1>3. CASE Act
  BY <1>1, <1>3 DEF Act
<1>4. CASE UNCHANGED <<edits, acts>>
  BY <1>1, <1>4
<1> QED
  BY <1>2, <1>3, <1>4
  DEF Next, Mount, Unmount, Replug, CallAddPath, CallCancelBuild, CallSync, CallRemovePath, CallRefresh,
      Method, RefreshTimer, HandleMounted, EndBuild, Scan, SyncTimer, HandleUnmounted, Quit, FinishJob,
      Crash, HandleEvent, HandlePlugged, IndexAllDelay, SetAutoIndexInternal, Restart, Outcome

LEMMA FlagsNext ==
  ASSUME IInv, Next
  PROVE  due' \subseteq {"refresh", "index"} /\ alive' \in BOOLEAN /\ auto' \in BOOLEAN
<1>1. due \subseteq {"refresh", "index"} /\ alive \in BOOLEAN /\ auto \in BOOLEAN
  BY DEF IInv, Bounds
<1>2. CASE UNCHANGED <<due, alive, auto>>
  BY <1>1, <1>2
<1>3. ASSUME NEW order, RefreshTimer(order)
      PROVE  due' \subseteq {"refresh", "index"} /\ alive' \in BOOLEAN /\ auto' \in BOOLEAN
  BY <1>1, <1>3 DEF RefreshTimer
<1>4. CASE IndexAllDelay
  BY <1>1, <1>4 DEF IndexAllDelay
<1>5. ASSUME NEW s, End(s), UNCHANGED auto
      PROVE  due' \subseteq {"refresh", "index"} /\ alive' \in BOOLEAN /\ auto' \in BOOLEAN
  BY <1>1, <1>5 DEF End
<1>6. CASE SetAutoIndexInternal
  <2>1. CASE UNCHANGED <<due, alive>> /\ auto' = ~ auto
    BY <1>1, <2>1
  <2>2. CASE End(RemoveBuf(st, NotAllowed(st), TRUE)) /\ UNCHANGED auto
    BY <1>5, <2>2
  <2> QED BY <1>6, <2>1, <2>2 DEF SetAutoIndexInternal
<1>7. CASE Restart
  BY <1>1, <1>7 DEF Restart, Timers
<1>8. CASE Quit
  BY <1>5, <1>8 DEF Quit
<1>9. ASSUME NEW torn, Crash(torn)
      PROVE  due' \subseteq {"refresh", "index"} /\ alive' \in BOOLEAN /\ auto' \in BOOLEAN
  BY <1>5, <1>9 DEF Crash
<1> QED
  BY <1>2, <1>3, <1>4, <1>6, <1>7, <1>8, <1>9
  DEF Next, Operate, Mount, Unmount, Replug, CallAddPath, CallCancelBuild, CallSync, CallRemovePath,
      CallRefresh, Method, HandleMounted, EndBuild, Scan, SyncTimer, HandleUnmounted, FinishJob,
      HandleEvent, HandlePlugged

LEMMA BoundsNext ==
  ASSUME IInv, Next
  PROVE  Bounds'
<1>1. content' \subseteq File
  BY ContentNext
<1>2. mounts' \in Seq(MountPoint) /\ IsInjective(mounts)'
  BY MountsNext
<1>3. edits' \in 0 .. MaxEdits /\ acts' \in 0 .. MaxActs
  BY CountsNext
<1>4. due' \subseteq {"refresh", "index"} /\ alive' \in BOOLEAN /\ auto' \in BOOLEAN
  BY FlagsNext
<1> QED BY <1>1, <1>2, <1>3, <1>4 DEF Bounds

-----------------------------------------------------------------------------
LEMMA InitIInv ==
  ASSUME Init
  PROVE  IInv
<1>1. Bounds
  <2>1. 1 \in MountPoint /\ MaxEdits \in Nat /\ MaxActs \in Nat /\ InitContent \subseteq File
    BY ManagerAssumptions
  <2>2. <<1>> \in Seq(MountPoint) /\ IsInjective(<<1>>)
    BY <2>1 DEF IsInjective
  <2> QED BY <2>1, <2>2 DEF Init, Bounds, Timers
<1>2. Coming
  BY DEF Init, Coming
<1>3. Good(st)
  <2> DEFINE d == [x \in Suffix |-> IF x = "LFT" THEN InitDisk ELSE Absent]
             m == IF InitDisk = InitContent THEN {} ELSE Suffix
  <2>1. st = Memory(d, m)
    BY DEF Init
  <2>2. d \in [Suffix -> (SUBSET File) \cup {Absent, Broken}] /\ m \in SUBSET Suffix
    BY ManagerAssumptions
  <2> HIDE DEF d, m
  <2>3. Good(Memory(d, m))
    BY <2>2, MemoryGood
  <2> QED BY <2>1, <2>3
<1> QED BY <1>1, <1>2, <1>3 DEF IInv

LEMMA NextIInv ==
  ASSUME IInv, Room, [Next]_vars
  PROVE  IInv'
<1>1. CASE Next
  <2>1. Bounds' /\ Coming'
    BY <1>1, BoundsNext, ComingNext
  <2>2. Good(st')
    BY <1>1, GoodNext
  <2> QED BY <2>1, <2>2 DEF IInv
<1>2. CASE UNCHANGED vars
  BY <1>2 DEF vars, IInv, Bounds, Coming, IsInjective
<1> QED BY <1>1, <1>2

(* IInv is an invariant of every behaviour of the manager in which the     *)
(* memory does not run out: buffers that are mapped, leaked, the result of *)
(* a build or free never mix, whatever removeBuf, refresh, addPath,        *)
(* cancelBuild and the handler of `finished' do in whatever order.         *)
THEOREM ManagerInvariance == Spec /\ []Room => []IInv
<1>1. Init => IInv
  BY InitIInv
<1>2. IInv /\ Room /\ [Next]_vars => IInv'
  BY NextIInv
<1> QED BY <1>1, <1>2, PTL DEF Spec

LEMMA IInvTypeOK ==
  ASSUME IInv
  PROVE  TypeOK
<1>1. Bounds /\ st \in Memories
  BY DEF IInv, Good, Fit
<1> QED BY <1>1 DEF Bounds, Memories, TypeOK

(* The static maps of lftmanager.cpp hold what TypeOK says: the counts of  *)
(* building_paths never fall below zero, whatever path a build is started, *)
(* cancelled or restarted for, and a partition has each mount point once.  *)
THEOREM ManagerTypes == Spec /\ []Room => []TypeOK
<1>1. IInv => TypeOK
  BY IInvTypeOK
<1> QED BY <1>1, ManagerInvariance, PTL

LEMMA IInvOwned ==
  ASSUME IInv
  PROVE  Owned
<1>1. Fit(st, Results(st)) /\ st \in Memories
  BY DEF IInv, Good, Fit
<1>2. Mapped(st) \subseteq Buf /\ Results(st) \subseteq Buf /\ st.leaked \subseteq Buf /\ st.dirty \subseteq Buf
  BY <1>1, MappedType DEF Fit, Memories
<1>3. \A b \in Buf : b \in Allocated(st) <=> b \in Mapped(st) \cup Results(st) \cup st.leaked
  BY <1>1 DEF Fit, Kept, Allocated
<1>4. \A b \in Buf : b \in st.dirty \/ st.file[b] # Null => b \in Allocated(st)
  BY <1>1 DEF Fit, Kept, Allocated
<1>5. Allocated(st) \subseteq Buf
  BY DEF Allocated
<1>6. Mapped(st) \cap Results(st) = {} /\ st.leaked \cap (Mapped(st) \cup Results(st)) = {}
  BY <1>1, <1>2 DEF Fit, Kept
<1> DEFINE R == Results(st)
<1>7. Allocated(st) = Mapped(st) \cup R \cup st.leaked
  BY <1>2, <1>3, <1>5
<1>8. Mapped(st) \cup st.dirty \cup {b \in Buf : st.file[b] # Null} \subseteq Allocated(st)
  BY <1>2, <1>4, <1>7
<1> QED BY <1>6, <1>7, <1>8 DEF Owned, Results

(* removeBuf frees a buffer that several mount points are mapped to, for   *)
(* four callers, and nothing refers to it afterwards; what is not freed    *)
(* can be reached, except what removePath and cancelBuild leak.            *)
THEOREM BuffersOwned == Spec /\ []Room => []Owned
<1>1. IInv => Owned
  BY IInvOwned
<1> QED BY <1>1, ManagerInvariance, PTL

(* _global_fsWatcherMap holds no watcher that has deleted itself, none     *)
(* that cancelBuild has cancelled, and none of a build for other paths.    *)
THEOREM WatchersAreLive == Spec /\ []Room => []WatchersLive
<1>1. IInv => WatchersLive
  BY DEF IInv, Good, Watched, WatchersLive
<1> QED BY <1>1, ManagerInvariance, PTL

(* A buffer that sync and the handlers of events have taken off the dirty  *)
(* list equals its index file, unless another buffer shares that file or   *)
(* there is none to load: a restart loads no older index.                  *)
THEOREM CleanIsOnDisk == Spec /\ []Room => []CleanMatchesDisk
<1>1. IInv => CleanMatchesDisk
  <2>1. IInv => st \in Memories /\ Clean(st, Buf)
    BY DEF IInv, Good, Fit
  <2>2. st \in Memories => Mapped(st) \subseteq Buf
    BY MappedType
  <2> QED BY <2>1, <2>2 DEF Clean, CleanMatchesDisk
<1> QED BY <1>1, ManagerInvariance, PTL
=============================================================================
