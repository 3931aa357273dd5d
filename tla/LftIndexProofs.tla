--------------------------- MODULE LftIndexProofs ---------------------------
(***************************************************************************)
(* That an index is the content of the partition, for any number of mount  *)
(* points, files, builds and edits, as long as the memory does not run     *)
(* out.                                                                    *)
(***************************************************************************)
EXTENDS LftManagerProofs

-----------------------------------------------------------------------------
(* What the edits on their way will make of a set of files.  The last of   *)
(* them that names a file decides whether it will be there; a file that    *)
(* none of them names stays what it is.                                    *)
Creates(e, f) == (e.op = "insert" /\ f = e.file) \/ (e.op = "rename" /\ f = e.to)
Names(e, f) == f \in {e.file, e.to}

Settled(d, q, f) ==
  \/ f \in d /\ \A k \in 1 .. Len(q) : ~ Names(q[k].edit, f)
  \/ \E k \in 1 .. Len(q) : Creates(q[k].edit, f) /\ \A l \in 1 .. Len(q) : l > k => ~ Names(q[l].edit, f)

(* A set of files from which the edits on their way make the content of    *)
(* the partition, at the places that are not still to be looked at.        *)
Tells(d, todo) == \A f \in File \ todo : Settled(d, events, f) <=> f \in content
Exact == {d \in SUBSET File : Tells(d, {})}
Halfway == {h \in (SUBSET File) \X (SUBSET File) : h[1] \cap h[2] = {} /\ Tells(h[1], h[2])}

(* What no edit has passed by: buffers and index files with content in G,  *)
(* builds with what they have seen and where they have still to go in H.   *)
Sound(s, G, H) ==
  /\ \A b \in Buf : s.data[b] # Null /\ b \notin s.missed => s.data[b] \in G
  /\ \A x \in Suffix : x \notin s.missed => s.disk[x] \in G \cup {Absent, Broken}
  /\ \A j \in Job : s.job[j] # Null /\ j \notin s.missed => <<s.job[j].seen, s.job[j].todo>> \in H

(* The last edit on its way that names a file tells whether it exists.     *)
Named(q, f) == \E k \in 1 .. Len(q) : Names(q[k].edit, f)
Latest == \A f \in File : Named(events, f) => (Settled({}, events, f) <=> f \in content)

(* A server that does not run has no memory, and nothing comes to it.      *)
Down ==
  ~ alive => /\ events = <<>> /\ signals = <<>> /\ due = {}
             /\ (\A b \in Buf : st.data[b] = Null) /\ \A j \in Job : st.job[j] = Null

EInv == Sound(st, Exact, Halfway) /\ Latest /\ Down

-----------------------------------------------------------------------------
(* Edits that come, and that are handed over.                              *)
LEMMA SettledAppend ==
  ASSUME NEW S, NEW q \in Seq(S), NEW x \in S, NEW d, NEW f
  PROVE  /\ Settled(d, Append(q, x), f) <=> IF Names(x.edit, f) THEN Creates(x.edit, f) ELSE Settled(d, q, f)
         /\ Named(Append(q, x), f) <=> Names(x.edit, f) \/ Named(q, f)
<1> DEFINE r == Append(q, x)
           n == Len(q)
<1>1. n \in Nat /\ Len(r) = n + 1 /\ r[n + 1] = x /\ \A k \in 1 .. n : r[k] = q[k]
  OBVIOUS
<1> HIDE DEF r, n
<1>2. \A k : k \in 1 .. n + 1 <=> k \in 1 .. n \/ k = n + 1
  BY <1>1
<1>3. \A k \in 1 .. n : n + 1 > k /\ ~ (k > n + 1)
  BY <1>1
<1>4. ~ (n + 1 > n + 1)
  BY <1>1
<1>5. Named(r, f) <=> Names(x.edit, f) \/ Named(q, f)
  BY <1>1, <1>2 DEF Named, n
<1>6. Creates(x.edit, f) => Names(x.edit, f)
  BY DEF Creates, Names
<1>7. CASE Names(x.edit, f)
  <2>1. Settled(d, r, f) => Creates(x.edit, f)
    BY <1>1, <1>2, <1>3, <1>7 DEF Settled
  <2>2. Creates(x.edit, f) => Settled(d, r, f)
    BY <1>1, <1>2, <1>3, <1>4 DEF Settled
  <2> QED BY <1>5, <1>7, <2>1, <2>2 DEF r
<1>8. CASE ~ Names(x.edit, f)
  <2>1. Settled(d, r, f) => Settled(d, q, f)
    BY <1>1, <1>2, <1>6, <1>8 DEF Settled, n
  <2>2. Settled(d, q, f) => Settled(d, r, f)
    <3>1. CASE f \in d /\ \A k \in 1 .. n : ~ Names(q[k].edit, f)
      BY <1>1, <1>2, <1>8, <3>1 DEF Settled
    <3>2. ASSUME NEW k \in 1 .. n, Creates(q[k].edit, f), \A l \in 1 .. n : l > k => ~ Names(q[l].edit, f)
          PROVE  Settled(d, r, f)
      <4>1. k \in 1 .. n + 1 /\ r[k] = q[k]
        BY <1>1, <1>2, <3>2
      <4>2. \A l \in 1 .. n + 1 : l > k => ~ Names(r[l].edit, f)
        BY <1>1, <1>2, <1>8, <3>2
      <4> QED BY <1>1, <3>2, <4>1, <4>2 DEF Settled
    <3> QED BY <3>1, <3>2 DEF Settled, n
  <2> QED BY <1>5, <1>8, <2>1, <2>2 DEF r
<1> QED BY <1>7, <1>8

LEMMA SettledTail ==
  ASSUME NEW S, NEW q \in Seq(S), q # <<>>, NEW d, NEW c, NEW f,
         f \in c <=> IF Names(Head(q).edit, f) THEN Creates(Head(q).edit, f) ELSE f \in d
  PROVE  /\ Settled(c, Tail(q), f) <=> Settled(d, q, f)
         /\ Named(Tail(q), f) => Named(q, f)
<1> DEFINE r == Tail(q)
           n == Len(r)
           e == Head(q).edit
<1>1. n \in Nat /\ Len(q) = n + 1 /\ e = q[1].edit /\ \A k \in 1 .. n : r[k] = q[k + 1]
  OBVIOUS
<1>2. f \in c <=> IF Names(e, f) THEN Creates(e, f) ELSE f \in d
  OBVIOUS
<1> HIDE DEF r, n, e
<1>3. \A k \in 1 .. n : k + 1 \in 1 .. n + 1 /\ k + 1 > 1
  BY <1>1
<1>4. \A k \in 1 .. n + 1 : k = 1 \/ (k - 1 \in 1 .. n /\ (k - 1) + 1 = k)
  BY <1>1
<1>5. 1 \in 1 .. n + 1 /\ ~ (1 > 1)
  BY <1>1
<1>6. \A k \in 1 .. n, l \in 1 .. n : l > k <=> l + 1 > k + 1
  BY <1>1
<1>7. (\A k \in 1 .. n + 1 : ~ Names(q[k].edit, f)) <=> ~ Names(e, f) /\ \A k \in 1 .. n : ~ Names(r[k].edit, f)
  BY <1>1, <1>3, <1>4, <1>5
<1> DEFINE Decides(k) == Creates(r[k].edit, f) /\ \A l \in 1 .. n : l > k => ~ Names(r[l].edit, f)
           NewDecides(k) == Creates(q[k].edit, f) /\ \A l \in 1 .. n + 1 : l > k => ~ Names(q[l].edit, f)
<1>8. \A k \in 1 .. n : Decides(k) <=> NewDecides(k + 1)
  <2> TAKE k \in 1 .. n
  <2>1. (\A l \in 1 .. n : l > k => ~ Names(r[l].edit, f)) => \A l \in 1 .. n + 1 : l > k + 1 => ~ Names(q[l].edit, f)
    <3> HAVE \A l \in 1 .. n : l > k => ~ Names(r[l].edit, f)
    <3> TAKE l \in 1 .. n + 1
    <3> HAVE l > k + 1
    <3>1. l - 1 \in 1 .. n /\ (l - 1) + 1 = l /\ l - 1 > k
      BY <1>1
    <3>2. ~ Names(r[l - 1].edit, f) /\ r[l - 1] = q[(l - 1) + 1]
      BY <1>1, <3>1
    <3> QED BY <3>1, <3>2
  <2>2. (\A l \in 1 .. n + 1 : l > k + 1 => ~ Names(q[l].edit, f)) => \A l \in 1 .. n : l > k => ~ Names(r[l].edit, f)
    BY <1>1, <1>3, <1>6
  <2> QED BY <1>1, <2>1, <2>2
<1>9. NewDecides(1) <=> Creates(e, f) /\ \A k \in 1 .. n : ~ Names(r[k].edit, f)
  <2>1. \A l \in 1 .. n + 1 : l > 1 => l - 1 \in 1 .. n /\ q[l] = r[l - 1]
    BY <1>1, <1>4, <1>5
  <2>2. \A l \in 1 .. n : l + 1 \in 1 .. n + 1 /\ l + 1 > 1 /\ r[l] = q[l + 1]
    BY <1>1, <1>3
  <2> QED BY <1>1, <2>1, <2>2
<1> HIDE DEF Decides, NewDecides
<1>10. (\E k \in 1 .. n + 1 : NewDecides(k)) <=> NewDecides(1) \/ \E k \in 1 .. n : Decides(k)
  BY <1>3, <1>4, <1>5, <1>8
<1>11. Settled(c, r, f) <=> (f \in c /\ \A k \in 1 .. n : ~ Names(r[k].edit, f)) \/ \E k \in 1 .. n : Decides(k)
  BY DEF Settled, n, Decides
<1>12. Settled(d, q, f) <=> (f \in d /\ \A k \in 1 .. n + 1 : ~ Names(q[k].edit, f)) \/ \E k \in 1 .. n + 1 : NewDecides(k)
  BY <1>1 DEF Settled, NewDecides
<1>13. Creates(e, f) => Names(e, f)
  BY DEF Creates, Names
<1>14. Settled(c, r, f) <=> Settled(d, q, f)
  BY <1>2, <1>7, <1>9, <1>10, <1>11, <1>12, <1>13
<1>15. Named(r, f) => Named(q, f)
  BY <1>1, <1>3 DEF Named, n
<1> QED BY <1>14, <1>15 DEF r

(* What names a file leaves no choice.                                     *)
LEMMA SettledNamed ==
  ASSUME NEW q, NEW f, NEW c, NEW d
  PROVE  /\ Named(q, f) => (Settled(c, q, f) <=> Settled(d, q, f))
         /\ ~ Named(q, f) => (Settled(d, q, f) <=> f \in d)
BY DEF Named, Settled, Creates, Names

LEMMA SettledNone ==
  ASSUME NEW f, NEW d
  PROVE  ~ Named(<<>>, f) /\ (Settled(d, <<>>, f) <=> f \in d)
<1>1. Len(<<>>) = 0 /\ \A k \in 1 .. 0 : FALSE
  OBVIOUS
<1> QED BY <1>1 DEF Named, Settled

-----------------------------------------------------------------------------
(* No operator on the memory brings in content: what buffers and index     *)
(* files hold afterwards they held before, and a build begins with nothing *)
(* seen.                                                                   *)
LEMMA Kinds ==
  /\ \A b \in Buf : b \notin Suffix /\ b \notin Job
  /\ \A j \in Job : j \notin Suffix /\ j \notin Buf
  /\ \A x \in Suffix : x \notin Buf /\ x \notin Job
BY ManagerAssumptions

LEMMA SoundDropFiles ==
  ASSUME NEW G, NEW H, NEW s \in Memories, Sound(s, G, H), NEW bs \in SUBSET Buf
  PROVE  Sound(DropFiles(s, bs), G, H) /\ DropFiles(s, bs).missed = s.missed
<1> DEFINE t == DropFiles(s, bs)
           d == Put(s.disk, {s.file[b] : b \in bs} \ {Null}, Absent)
<1>1. /\ t.data = s.data /\ t.job = s.job
      /\ \A x \in Suffix : t.disk[x] = IF \E b \in bs : s.file[b] = x THEN Absent ELSE s.disk[x]
  BY DropFilesIs
<1>2. t = [s EXCEPT !.disk = d]
  BY DEF DropFiles
<1> HIDE DEF d
<1>3. t.missed = s.missed
  BY <1>2 DEF Memories
<1> HIDE DEF t
<1> QED BY <1>1, <1>3 DEF Sound, t

LEMMA FreeBufsMissed ==
  ASSUME NEW s \in Memories, NEW bs
  PROVE  FreeBufs(s, bs).missed = s.missed \ bs
<1> DEFINE d == Put(s.data, bs, Null)
<1>1. FreeBufs(s, bs) = [s EXCEPT !.data = d, !.missed = @ \ bs, !.rivals = @ \ bs]
  BY DEF FreeBufs
<1> HIDE DEF d
<1> QED BY <1>1 DEF Memories

LEMMA SoundFreeBufs ==
  ASSUME NEW G, NEW H, NEW s \in Memories, Sound(s, G, H), NEW bs \in SUBSET Buf
  PROVE  Sound(FreeBufs(s, bs), G, H)
<1> DEFINE t == FreeBufs(s, bs)
<1>1. t.disk = s.disk /\ t.job = s.job /\ \A b \in Buf : t.data[b] = IF b \in bs THEN Null ELSE s.data[b]
  BY FreeBufsIs
<1>2. t.missed = s.missed \ bs
  BY FreeBufsMissed
<1> HIDE DEF t
<1>3. \A y : y \notin t.missed /\ y \notin Buf => y \notin s.missed
  BY <1>2
<1>4. \A b \in Buf : b \notin t.missed /\ t.data[b] # Null => b \notin s.missed /\ t.data[b] = s.data[b]
  BY <1>1, <1>2
<1>5. Sound(t, G, H)
  BY <1>1, <1>3, <1>4, Kinds DEF Sound
<1> QED BY <1>5 DEF t

LEMMA SoundRemoveBuf ==
  ASSUME NEW G, NEW H, NEW s \in Memories, Sound(s, G, H), NEW bs \in SUBSET Buf, NEW r \in BOOLEAN
  PROVE  Sound(RemoveBuf(s, bs, r), G, H)
<1> DEFINE t == RemoveBuf(s, bs, r)
           d == IF r THEN DropFiles(s, bs) ELSE s
           m == Put(d.map, {p \in MountPoint : d.map[p] \in bs}, Null)
           f == Put(d.file, bs, Null)
           u == [d EXCEPT !.map = m, !.dirty = @ \ bs, !.file = f]
<1>1. d \in Memories /\ Sound(d, G, H)
  BY DropFilesIs, SoundDropFiles
<1>2. t = FreeBufs(u, bs)
  BY DEF RemoveBuf
<1> HIDE DEF d, t
<1>3. DOMAIN d.map = MountPoint /\ DOMAIN d.file = Buf
  BY <1>1 DEF Memories
<1>4. m \in [MountPoint -> Buf \cup {Null}] /\ f \in [Buf -> Suffix \cup {Null}]
  BY <1>1, <1>3 DEF Put, Memories
<1> HIDE DEF m, f
<1>5. u \in Memories /\ u.data = d.data /\ u.disk = d.disk /\ u.job = d.job /\ u.missed = d.missed
  BY <1>1, <1>4 DEF Memories
<1> HIDE DEF u
<1>6. Sound(u, G, H)
  BY <1>1, <1>5 DEF Sound
<1>7. Sound(t, G, H)
  BY <1>2, <1>5, <1>6, SoundFreeBufs
<1> QED BY <1>7 DEF t

LEMMA SoundMapTo ==
  ASSUME NEW G, NEW H, NEW s \in Memories, Sound(s, G, H), NEW b \in Buf, NEW paths \in SUBSET MountPoint
  PROVE  Sound(MapTo(s, paths, b), G, H)
<1> DEFINE gone == {s.map[p] : p \in paths} \ {Null}
           u == RemoveBuf(s, gone, FALSE)
           m == Put(u.map, paths, b)
           t == MapTo(s, paths, b)
<1>1. gone \in SUBSET Buf /\ FALSE \in BOOLEAN
  BY DEF Memories
<1>2. t = [u EXCEPT !.map = m]
  BY DEF MapTo
<1> HIDE DEF gone
<1>3. Removed(s, u, gone, FALSE) /\ Sound(u, G, H)
  BY <1>1, RemoveBufIs, SoundRemoveBuf
<1> HIDE DEF u, m, t
<1>4. u \in Memories
  BY <1>3 DEF Removed
<1>5. t.data = u.data /\ t.disk = u.disk /\ t.job = u.job /\ t.missed = u.missed
  BY <1>2, <1>4 DEF Memories
<1>6. Sound(t, G, H)
  BY <1>3, <1>5 DEF Sound
<1> QED BY <1>6 DEF t

LEMMA SoundRegister ==
  ASSUME NEW G, NEW H, NEW s \in Memories, Sound(s, G, H), NEW b, NEW x
  PROVE  Sound(Register(s, b, x), G, H)
<1> DEFINE t == Register(s, b, x)
           others == {c \in Buf \ {b} : x # Null /\ s.file[c] = x}
           rs == IF others = {} THEN s.rivals ELSE s.rivals \cup others \cup {b}
           f == [s.file EXCEPT ![b] = x]
<1>1. t = [s EXCEPT !.file = f, !.rivals = rs]
  BY DEF Register, Memories
<1> HIDE DEF t, rs, f
<1>2. t.data = s.data /\ t.disk = s.disk /\ t.job = s.job /\ t.missed = s.missed
  BY <1>1 DEF Memories
<1>3. Sound(t, G, H)
  BY <1>2 DEF Sound
<1> QED BY <1>3 DEF t

LEMMA SoundAccept ==
  ASSUME NEW G, NEW H, NEW s, NEW K, Fit(s, K), Sound(s, G, H), NEW b \in K,
         NEW job \in Builds, job.paths # <<>>
  PROVE  Sound(Accept(s, job, b), G, H)
<1> DEFINE m == MapTo(s, ToSet(job.paths), b)
           x == FileOf(job)
           r == Register(m, b, x)
           t == [r EXCEPT !.dirty = @ \cup {b}]
<1>1. Accept(s, job, b) = t
  BY AcceptIs DEF AcceptedAt
<1>2. job.paths \in Seq(MountPoint)
  BY DEF Builds
<1>3. ToSet(job.paths) \in SUBSET MountPoint /\ ToSet(job.paths) # {}
  BY <1>2, ToSetType
<1>4. s \in Memories /\ b \in Buf
  BY DEF Fit
<1>5. m \in Memories
  BY <1>3, MapToFit DEF Fit
<1>6. Sound(m, G, H)
  BY <1>3, <1>4, SoundMapTo
<1>7. x \in Suffix \cup {Null}
  BY DEF FileOf, Suffix
<1> HIDE DEF m, x
<1>8. r \in Memories /\ Sound(r, G, H)
  BY <1>4, <1>5, <1>6, <1>7, RegisterIs, SoundRegister DEF Registered
<1> HIDE DEF r
<1>9. t.data = r.data /\ t.disk = r.disk /\ t.job = r.job /\ t.missed = r.missed
  BY <1>8 DEF Memories
<1> HIDE DEF t
<1> QED BY <1>1, <1>8, <1>9 DEF Sound

LEMMA SoundLoad ==
  ASSUME NEW G, NEW H, NEW s, NEW K, Fit(s, K), Sound(s, G, H), NEW x \in Suffix,
         mounts \in Seq(MountPoint), Unused(s) # {}
  PROVE  Sound(Load(s, x), G, H)
<1>1. CASE mounts = <<>> \/ s.disk[x] \in {Absent, Broken, {}}
  <2>1. Load(s, x) = s
    BY <1>1 DEF Load
  <2> QED BY <2>1
<1>2. CASE mounts # <<>> /\ s.disk[x] \notin {Absent, Broken, {}}
  <2> DEFINE b == CHOOSE b \in Unused(s) : TRUE
             u == Filled(s, x, b)
             m == MapTo(u, ToSet(mounts), b)
  <2>1. Load(s, x) = Register(m, b, x)
    BY <1>2, LoadIs
  <2>2. b \in Unused(s)
    OBVIOUS
  <2> HIDE DEF b
  <2>3. Fit(u, K \cup {b}) /\ b \in K \cup {b}
    BY <1>2, <2>2, FilledFit
  <2>4. s \in Memories /\ b \in Buf
    BY <2>2, UnusedIs DEF Fit
  <2>5. Sound(u, G, H)
    <3> DEFINE d == [s.data EXCEPT ![b] = s.disk[x]]
               ms == IF x \in s.missed THEN s.missed \cup {b} ELSE s.missed
    <3>1. u = [s EXCEPT !.data = d, !.missed = ms]
      BY <2>4 DEF Filled, Memories
    <3>2. /\ \A c \in Buf : d[c] = IF c = b THEN s.disk[x] ELSE s.data[c]
          /\ x \in s.missed => b \in ms
          /\ \A y : y \notin ms => y \notin s.missed
      BY <2>4 DEF Memories
    <3> HIDE DEF d, ms, u
    <3>3. u.data = d /\ u.disk = s.disk /\ u.job = s.job /\ u.missed = ms
      BY <2>4, <3>1 DEF Memories
    <3> QED BY <1>2, <3>2, <3>3 DEF Sound
  <2> HIDE DEF u
  <2>6. ToSet(mounts) \in SUBSET MountPoint /\ ToSet(mounts) # {}
    BY <1>2, ToSetType
  <2>7. m \in Memories
    BY <2>3, <2>6, MapToFit DEF Fit
  <2>8. u \in Memories
    BY <2>3 DEF Fit
  <2>9. Sound(m, G, H)
    BY <2>4, <2>5, <2>6, <2>8, SoundMapTo
  <2> HIDE DEF m
  <2> QED BY <2>1, <2>7, <2>9, SoundRegister
<1> QED BY <1>1, <1>2

LEMMA SoundRefresh ==
  ASSUME NEW G, NEW H, NEW s, NEW K, Fit(s, K), Sound(s, G, H), NEW order \in Order,
         mounts \in Seq(MountPoint), Spacious(s)
  PROVE  Sound(Refresh(s, order), G, H)
<1> DEFINE t == Load(s, order[1])
           u == Load(t, order[2])
<1>1. Refresh(s, order) = u
  BY DEF Refresh, With
<1>2. order[1] \in Suffix /\ order[2] \in Suffix
  BY DEF Order, Suffix
<1>3. Unused(s) # {}
  BY DEF Spacious
<1>4. Fit(t, K) /\ Spare(s, t) /\ Sound(t, G, H)
  BY <1>2, <1>3, LoadFit, SoundLoad
<1>5. Unused(t) # {}
  BY <1>4 DEF Spacious, Spare
<1> HIDE DEF t
<1>6. Sound(u, G, H)
  BY <1>2, <1>4, <1>5, SoundLoad
<1> QED BY <1>1, <1>6

LEMMA SoundSync ==
  ASSUME NEW G, NEW H, NEW s, NEW K, Fit(s, K), Sound(s, G, H),
         NEW paths \in SUBSET MountPoint, NEW failure \in Failures
  PROVE  Sound(Sync(s, paths, failure), G, H)
<1> DEFINE t == Sync(s, paths, failure)
           saved == Saved(s, paths)
           written == {s.file[b] : b \in saved}
           broken == Put(s.disk, written, Broken)
           stored == [x \in Suffix |-> IF x \in written THEN s.data[LastOf(s, paths, x)] ELSE s.disk[x]]
           ms == (s.missed \ written) \cup {x \in written : LastOf(s, paths, x) \in s.missed}
           ds == s.dirty \ saved
<1>1. s \in Memories
  BY DEF Fit
<1>2. \A b \in saved : b \in Buf /\ s.file[b] \in Suffix /\ s.data[b] # Null
  <2>1. saved \subseteq Mapped(s)
    BY DEF Saved, Mapped
  <2>2. \A b \in saved : b \in Buf /\ s.file[b] # Null
    BY <1>1, <2>1, MappedType DEF Saved
  <2> QED BY <1>1, <2>1, <2>2 DEF Fit, Kept, Memories
<1>3. \A x \in written : x \in Suffix /\ LastOf(s, paths, x) \in saved
  <2> TAKE x \in written
  <2>1. \E b \in Saved(s, paths) : s.file[b] = x
    OBVIOUS
  <2> QED BY <1>2, <2>1, LastOfIs
<1> HIDE DEF saved
<1>4. CASE failure = "open"
  BY <1>4 DEF Sync
<1>5. CASE failure = "write"
  <2>1. t = [s EXCEPT !.disk = broken]
    BY <1>5 DEF Sync, Saved, saved
  <2>2. \A x \in Suffix : broken[x] \in {Broken, s.disk[x]}
    BY <1>1 DEF Put, Memories
  <2> HIDE DEF broken, t
  <2>3. t.data = s.data /\ t.job = s.job /\ t.disk = broken /\ t.missed = s.missed
    BY <1>1, <2>1 DEF Memories
  <2>4. Sound(t, G, H)
    BY <2>2, <2>3 DEF Sound
  <2> QED BY <2>4 DEF t
<1>6. CASE failure = "none"
  <2>1. t = [s EXCEPT !.disk = stored, !.dirty = ds, !.missed = ms]
    BY <1>6 DEF Sync, Saved, saved, LastOf
  <2>2. \A x \in Suffix : stored[x] = IF x \in written THEN s.data[LastOf(s, paths, x)] ELSE s.disk[x]
    OBVIOUS
  <2>3. \A y : y \notin ms => y \in written \/ y \notin s.missed
    OBVIOUS
  <2>4. \A x \in written : x \notin ms => LastOf(s, paths, x) \notin s.missed
    OBVIOUS
  <2>5. \A y \in Buf \cup Job : y \notin written
    BY <1>3, Kinds
  <2>6. \A x \in written : /\ LastOf(s, paths, x) \in Buf
                           /\ s.data[LastOf(s, paths, x)] # Null
    BY <1>2, <1>3
  <2> HIDE DEF stored, ms, t, written, ds
  <2>7. t.data = s.data /\ t.job = s.job /\ t.disk = stored /\ t.missed = ms
    BY <1>1, <2>1 DEF Memories
  <2>8. \A x \in Suffix : x \notin ms => stored[x] \in G \cup {Absent, Broken}
    BY <2>2, <2>3, <2>4, <2>6 DEF Sound
  <2>9. Sound(t, G, H)
    BY <2>3, <2>5, <2>7, <2>8 DEF Sound
  <2> QED BY <2>9 DEF t
<1> QED BY <1>4, <1>5, <1>6 DEF Failures

LEMMA SoundSyncAll ==
  ASSUME NEW G, NEW H, NEW s, NEW K, Fit(s, K), Sound(s, G, H), NEW failure \in Failures
  PROVE  Sound(SyncAll(s, failure), G, H)
<1> DEFINE u == Sync(s, MountPoint, failure)
           d == DropFiles(u, u.dirty)
           t == CleanDirty(u)
<1>1. SyncAll(s, failure) = t
  BY DEF SyncAll, With
<1>2. Fit(u, K)
  BY SyncFit
<1>3. Sound(u, G, H)
  BY SoundSync
<1>4. t = [d EXCEPT !.dirty = {}]
  BY DEF CleanDirty
<1> HIDE DEF u, t
<1>5. u \in Memories /\ u.dirty \in SUBSET Buf
  BY <1>2 DEF Fit, Memories
<1>6. d \in Memories /\ Sound(d, G, H)
  BY <1>3, <1>5, DropFilesIs, SoundDropFiles
<1> HIDE DEF d
<1>7. t.data = d.data /\ t.job = d.job /\ t.disk = d.disk /\ t.missed = d.missed
  BY <1>4, <1>6 DEF Memories
<1> QED BY <1>1, <1>6, <1>7 DEF Sound

LEMMA SoundAddPath ==
  ASSUME NEW G, NEW H, <<{}, File>> \in H, NEW s \in Memories, Sound(s, G, H), NEW p, NEW autoIndex,
         \E j \in Job : s.job[j] = Null
  PROVE  Sound(AddPath(s, p, autoIndex), G, H)
<1>1. CASE s.watch[p] # Null \/ p \notin ToSet(mounts)
  BY <1>1 DEF AddPath
<1>2. CASE ~(s.watch[p] # Null \/ p \notin ToSet(mounts))
  <2> DEFINE j == CHOOSE j \in Job : s.job[j] = Null
             new == NewJob(mounts, autoIndex)
             jobs == [s.job EXCEPT ![j] = new]
             w == Put(s.watch, ToSet(mounts), j)
             n == [s.building EXCEPT ![Head(mounts)] = @ + 1]
             t == AddPath(s, p, autoIndex)
  <2>1. j \in Job
    OBVIOUS
  <2>2. t = [s EXCEPT !.job = jobs, !.watch = w, !.building = n]
    BY <1>2 DEF AddPath, Memories
  <2> HIDE DEF j
  <2>3. new.seen = {} /\ new.todo = File
    BY DEF NewJob
  <2> HIDE DEF new
  <2>4. \A k \in Job : jobs[k] = IF k = j THEN new ELSE s.job[k]
    BY <2>1 DEF Memories
  <2> HIDE DEF jobs, w, n, t
  <2>5. t.data = s.data /\ t.disk = s.disk /\ t.job = jobs /\ t.missed = s.missed
    BY <2>2 DEF Memories
  <2>6. Sound(t, G, H)
    BY <2>3, <2>4, <2>5 DEF Sound
  <2> QED BY <2>6 DEF t
<1> QED BY <1>1, <1>2

LEMMA SoundCancel ==
  ASSUME NEW G, NEW H, NEW s \in Memories, Sound(s, G, H), NEW js, js \subseteq Active(s)
  PROVE  Sound(Cancel(s, js), G, H)
<1> DEFINE jobs == [j \in Job |-> IF j \in js THEN [s.job[j] EXCEPT !.canceled = TRUE, !.done = TRUE, !.buf = Null] ELSE s.job[j]]
           ls == s.leaked \cup ({s.job[j].buf : j \in js} \ {Null})
           w == Put(s.watch, {q \in MountPoint : s.watch[q] \in js}, Null)
           t == Cancel(s, js)
<1>1. t = [s EXCEPT !.job = jobs, !.leaked = ls, !.watch = w]
  BY DEF Cancel
<1>2. \A j \in Job : jobs[j] # Null => /\ s.job[j] # Null
                                       /\ jobs[j].seen = s.job[j].seen /\ jobs[j].todo = s.job[j].todo
  <2> TAKE j \in Job
  <2>1. CASE j \notin js
    BY <2>1
  <2>2. CASE j \in js
    <3>1. s.job[j] # Null /\ s.job[j] \in Builds
      BY <2>2, ActiveIs DEF Memories
    <3>2. jobs[j] = [s.job[j] EXCEPT !.canceled = TRUE, !.done = TRUE, !.buf = Null]
      BY <2>2
    <3> HIDE DEF jobs
    <3> QED BY <3>1, <3>2 DEF Builds
  <2> QED BY <2>1, <2>2
<1> HIDE DEF jobs, ls, w, t
<1>3. t.data = s.data /\ t.disk = s.disk /\ t.job = jobs /\ t.missed = s.missed
  BY <1>1 DEF Memories
<1>4. Sound(t, G, H)
  BY <1>2, <1>3 DEF Sound
<1> QED BY <1>4 DEF t

LEMMA SoundCancelBuild ==
  ASSUME NEW G, NEW H, NEW s, Good(s), Sound(s, G, H), NEW p \in MountPoint
  PROVE  Sound(CancelBuild(s, p), G, H)
<1>1. s.watch[p] \in Job \cup {Null} /\ (s.watch[p] # Null => s.job[s.watch[p]] # Null) /\ s \in Memories
  BY DEF Good, Fit, Memories, Watched
<1>2. {s.watch[p]} \ {Null} \subseteq Active(s)
  BY <1>1, ActiveIs
<1> QED BY <1>1, <1>2, SoundCancel DEF CancelBuild

LEMMA SoundForget ==
  ASSUME NEW G, NEW H, NEW s \in Memories, Sound(s, G, H), NEW j \in Job
  PROVE  Sound(Forget(s, j), G, H)
<1> DEFINE paths == ToSet(s.job[j].paths)
           jobs == [s.job EXCEPT ![j] = Null]
           ms == s.missed \ {j}
           w == Put(s.watch, paths, Null)
           n == [p \in MountPoint |-> IF p \in paths /\ s.building[p] > 0 THEN s.building[p] - 1 ELSE s.building[p]]
           t == Forget(s, j)
<1>1. t = [s EXCEPT !.job = jobs, !.missed = ms, !.watch = w, !.building = n]
  BY DEF Forget, Memories
<1>2. \A k \in Job : jobs[k] = IF k = j THEN Null ELSE s.job[k]
  BY DEF Memories
<1>3. \A y : y \notin ms /\ y # j => y \notin s.missed
  OBVIOUS
<1> HIDE DEF jobs, ms, w, n, t
<1>4. t.data = s.data /\ t.disk = s.disk /\ t.job = jobs /\ t.missed = ms
  BY <1>1 DEF Memories
<1>5. Sound(t, G, H)
  BY <1>2, <1>3, <1>4, Kinds DEF Sound
<1> QED BY <1>5 DEF t

LEMMA SoundAddPathByPartition ==
  ASSUME NEW G, NEW H, <<{}, File>> \in H, NEW s \in Memories, Sound(s, G, H),
         \E j \in Job : s.job[j] = Null
  PROVE  Sound(AddPathByPartition(s), G, H)
<1>1. Sound(AddPath(s, Head(mounts), TRUE), G, H)
  BY SoundAddPath
<1> QED BY <1>1 DEF AddPathByPartition

LEMMA SoundOnMountAdded ==
  ASSUME NEW G, NEW H, <<{}, File>> \in H, NEW s, Good(s), Sound(s, G, H),
         NEW p, NEW order \in Order, mounts \in Seq(MountPoint), Roomy(s)
  PROVE  Sound(OnMountAdded(s, p, order), G, H)
<1> DEFINE t == Refresh(s, order)
           loaded == \E x \in Suffix : s.disk[x] \notin {Absent, Broken, {}}
<1>1. OnMountAdded(s, p, order) = IF loaded \/ p \notin ToSet(mounts) THEN t ELSE AddPathByPartition(t)
  BY DEF OnMountAdded, With
<1>2. Good(t) /\ SameBuilds(s, t) /\ Sound(t, G, H)
  BY RefreshGood, SoundRefresh DEF Roomy, Good
<1> HIDE DEF t, loaded
<1>3. t \in Memories
  BY <1>2 DEF Good, Fit
<1>4. Sound(AddPathByPartition(t), G, H)
  BY <1>2, <1>3, RoomyAfter, SoundAddPathByPartition
<1> QED BY <1>1, <1>2, <1>4

LEMMA SoundOnMountRemoved ==
  ASSUME NEW G, NEW H, NEW s, Good(s), Sound(s, G, H), NEW p \in MountPoint, NEW failure \in Failures
  PROVE  Sound(OnMountRemoved(s, p, failure), G, H)
<1> DEFINE b == s.map[p]
           t == IF b \in s.dirty THEN Sync(s, {p}, failure) ELSE s
<1>1. OnMountRemoved(s, p, failure) =
        IF b = Null THEN s ELSE IF s.watch[p] # Null THEN CancelBuild(s, p) ELSE RemoveBuf(t, {b}, FALSE)
  <2> DEFINE v == CHOOSE r \in {RemoveBuf(u, {b}, FALSE) : u \in {t}} : TRUE
  <2>1. OnMountRemoved(s, p, failure) =
          IF b = Null THEN s ELSE IF s.watch[p] # Null THEN CancelBuild(s, p) ELSE v
    BY DEF OnMountRemoved, With
  <2>2. v = RemoveBuf(t, {b}, FALSE)
    <3> HIDE DEF t, b
    <3> QED OBVIOUS
  <2> HIDE DEF t, b, v
  <2> QED BY <2>1, <2>2
<1>2. Sound(CancelBuild(s, p), G, H)
  BY SoundCancelBuild
<1>3. b # Null => b \in Buf
  BY DEF Good, Fit, Memories
<1>4. t \in Memories /\ Sound(t, G, H)
  <2>1. Fit(s, Results(s)) /\ {p} \in SUBSET MountPoint /\ s \in Memories
    BY DEF Good, Fit
  <2>2. Sync(s, {p}, failure) \in Memories /\ Sound(Sync(s, {p}, failure), G, H)
    BY <2>1, SyncFit, SoundSync DEF Fit
  <2> QED BY <2>1, <2>2
<1> HIDE DEF t, b
<1>5. ASSUME b # Null PROVE Sound(RemoveBuf(t, {b}, FALSE), G, H)
  <2>1. {b} \in SUBSET Buf /\ FALSE \in BOOLEAN
    BY <1>3, <1>5
  <2> QED BY <1>4, <2>1, SoundRemoveBuf
<1> QED BY <1>1, <1>2, <1>5

LEMMA SoundRemovePath ==
  ASSUME NEW G, NEW H, <<{}, File>> \in H, NEW s, Good(s), Sound(s, G, H),
         NEW p \in MountPoint, NEW order \in Order, mounts \in Seq(MountPoint), Roomy(s)
  PROVE  Sound(RemovePath(s, p, order), G, H)
<1>1. CASE s.map[p] = Null
  BY <1>1 DEF RemovePath
<1>2. CASE s.map[p] # Null
  <2> DEFINE t == Unmapped(s, p)
             l == Leaking(s, p)
             m == [s.map EXCEPT ![p] = Null]
             ls == IF s.map[p] \in Mapped(t) THEN t.leaked ELSE t.leaked \cup {s.map[p]}
  <2>1. s \in Memories /\ s.map[p] \in Buf
    BY <1>2 DEF Good, Fit, Memories
  <2>2. t \in Memories
    BY <1>2, UnmapGood
  <2>3. t = [s EXCEPT !.map = m]
    BY <2>1 DEF Unmapped, Memories
  <2>4. l = [t EXCEPT !.leaked = ls]
    BY <2>2 DEF Leaking, Memories
  <2> HIDE DEF t, l, m, ls
  <2>5. t.data = s.data /\ t.disk = s.disk /\ t.job = s.job /\ t.missed = s.missed
    BY <2>1, <2>3 DEF Memories
  <2>6. l.data = t.data /\ l.disk = t.disk /\ l.job = t.job /\ l.missed = t.missed
    BY <2>2, <2>4 DEF Memories
  <2>7. Sound(t, G, H) /\ Sound(l, G, H)
    BY <2>5, <2>6 DEF Sound
  <2>8. Sound(Taken(s, p), G, H)
    <3>1. TRUE \in BOOLEAN /\ {s.map[p]} \in SUBSET Buf
      BY <2>1
    <3>2. Sound(RemoveBuf(t, {s.map[p]}, TRUE), G, H)
      BY <2>2, <2>7, <3>1, SoundRemoveBuf
    <3> QED BY <3>2 DEF Taken, t
  <2>9. Good(Taken(s, p)) /\ Roomy(Taken(s, p))
    BY <1>2, TakenGood
  <2>10. Sound(OnMountAdded(Taken(s, p), p, order), G, H)
    BY <2>8, <2>9, SoundOnMountAdded
  <2> QED BY <1>2, <2>7, <2>8, <2>10, RemovePathIs DEF l
<1> QED BY <1>1, <1>2

LEMMA SoundIndexAll ==
  ASSUME NEW G, NEW H, <<{}, File>> \in H, NEW s \in Memories, Sound(s, G, H),
         NEW force, NEW autoIndex, \E j \in Job : s.job[j] = Null
  PROVE  Sound(IndexAll(s, force, autoIndex), G, H)
<1> DEFINE n == [p \in MountPoint |-> 0]
           t == [s EXCEPT !.building = n]
<1>1. n \in [MountPoint -> Nat]
  OBVIOUS
<1> HIDE DEF n
<1>2. t \in Memories /\ t.data = s.data /\ t.disk = s.disk /\ t.job = s.job /\ t.missed = s.missed
  BY <1>1 DEF Memories
<1>3. IndexAll(s, force, autoIndex) \in {t, AddPath(t, Head(mounts), TRUE)}
  BY DEF IndexAll, n
<1> HIDE DEF t
<1>4. Sound(t, G, H) /\ \E j \in Job : t.job[j] = Null
  BY <1>2 DEF Sound
<1>5. Sound(AddPath(t, Head(mounts), TRUE), G, H)
  BY <1>2, <1>4, SoundAddPath
<1> QED BY <1>3, <1>4, <1>5

LEMMA SoundCleanAllIndex ==
  ASSUME NEW G, NEW H, NEW s, Good(s), Sound(s, G, H)
  PROVE  Sound(CleanAllIndex(s), G, H) /\ Sound(RemoveBuf(s, NotAllowed(s), TRUE), G, H)
<1> DEFINE t == RemoveBuf(s, NotAllowed(s), TRUE)
<1>1. s \in Memories /\ NotAllowed(s) \in SUBSET Buf /\ TRUE \in BOOLEAN
  BY NotAllowedMapped, MappedType DEF Good, Fit
<1>2. Good(t) /\ SameBuilds(s, t)
  BY <1>1, NotAllowedMapped, RemoveMappedGood
<1>3. Sound(t, G, H)
  BY <1>1, SoundRemoveBuf
<1> HIDE DEF t
<1>4. Cleaned(s) \subseteq Active(t) /\ t \in Memories
  BY <1>2 DEF Cleaned, Active, SameBuilds, Good, Fit
<1>5. Sound(Cancel(t, Cleaned(s)), G, H)
  BY <1>3, <1>4, SoundCancel
<1> QED BY <1>3, <1>5 DEF CleanAllIndex, t

LEMMA SoundMemory ==
  ASSUME NEW G, NEW H, NEW d, NEW m, \A x \in Suffix : x \notin m => d[x] \in G \cup {Absent, Broken}
  PROVE  Sound(Memory(d, m), G, H)
<1> DEFINE s == Memory(d, m)
<1>1. /\ s.data = [b \in Buf |-> Null] /\ s.job = [j \in Job |-> Null] /\ s.disk = d /\ s.missed = m
  BY DEF Memory
<1> HIDE DEF s
<1>2. Sound(s, G, H)
  BY <1>1 DEF Sound
<1> QED BY <1>2 DEF s

-----------------------------------------------------------------------------
(* The steps in which no edit comes, is handed over or is lost.            *)
LEMMA FreshIsHalfway == <<{}, File>> \in Halfway
BY DEF Halfway, Tells

LEMMA SoundCall ==
  ASSUME NEW G, NEW H, <<{}, File>> \in H, Good(st), Sound(st, G, H), Roomy(st), mounts \in Seq(MountPoint),
         NEW p \in MountPoint, NEW order \in Order,
         CallAddPath(p) \/ CallCancelBuild(p) \/ CallSync(p) \/ CallRemovePath(p, order) \/ CallRefresh(order)
  PROVE  Sound(st', G, H)
<1>1. st \in Memories /\ Fit(st, Results(st)) /\ \E j \in Job : st.job[j] = Null
  BY DEF Good, Fit, Roomy
<1>2. Sound(AddPath(st, p, FALSE), G, H)
  BY <1>1, SoundAddPath
<1>3. Sound(CancelBuild(st, p), G, H)
  BY SoundCancelBuild
<1>4. Sound(Sync(st, {p}, "none"), G, H)
  <2>1. {p} \in SUBSET MountPoint /\ "none" \in Failures
    BY DEF Failures
  <2> QED BY <1>1, <2>1, SoundSync
<1>5. Sound(RemovePath(st, p, order), G, H)
  BY SoundRemovePath
<1>6. Sound(Refresh(st, order), G, H)
  BY <1>1, SoundRefresh DEF Roomy
<1> QED
  BY <1>2, <1>3, <1>4, <1>5, <1>6
  DEF CallAddPath, CallCancelBuild, CallSync, CallRemovePath, CallRefresh, Method

LEMMA SoundTimer ==
  ASSUME NEW G, NEW H, <<{}, File>> \in H, Good(st), Sound(st, G, H), Roomy(st), mounts \in Seq(MountPoint),
         NEW order \in Order, NEW failure \in Failures,
         RefreshTimer(order) \/ IndexAllDelay \/ SyncTimer(failure)
  PROVE  Sound(st', G, H)
<1>1. st \in Memories /\ Fit(st, Results(st)) /\ \E j \in Job : st.job[j] = Null
  BY DEF Good, Fit, Roomy
<1>2. Sound(Refresh(st, order), G, H)
  BY <1>1, SoundRefresh DEF Roomy
<1>3. Sound(IndexAll(st, TRUE, auto), G, H)
  BY <1>1, SoundIndexAll
<1>4. Sound(SyncAll(st, failure), G, H)
  BY <1>1, SoundSyncAll
<1> QED BY <1>2, <1>3, <1>4 DEF RefreshTimer, IndexAllDelay, SyncTimer

LEMMA SoundSignal ==
  ASSUME NEW G, NEW H, <<{}, File>> \in H, Good(st), Sound(st, G, H), Roomy(st), mounts \in Seq(MountPoint),
         Coming, NEW order \in Order, NEW failure \in Failures,
         HandleMounted(order) \/ HandleUnmounted(failure) \/ HandlePlugged
  PROVE  Sound(st', G, H)
<1>1. Head(signals).path \in MountPoint
  <2>1. signals # <<>>
    BY DEF HandleMounted, HandleUnmounted, HandlePlugged
  <2>2. Head(signals) \in [kind : {"mounted", "unmounted", "plugged"}, path : MountPoint]
    BY <2>1, HeadIsIn DEF Coming
  <2> QED BY <2>2
<1>2. CASE HandleMounted(order)
  BY <1>1, <1>2, SoundOnMountAdded DEF HandleMounted
<1>3. CASE HandleUnmounted(failure)
  BY <1>1, <1>3, SoundOnMountRemoved DEF HandleUnmounted
<1>4. CASE HandlePlugged
  <2> DEFINE d == [st.disk EXCEPT !["LFT"] = Absent]
  <2>1. st \in Memories
    BY DEF Good, Fit
  <2>2. st' = [st EXCEPT !.disk = d]
    BY <1>4, <2>1 DEF HandlePlugged, Memories
  <2>3. \A x \in Suffix : d[x] \in {Absent, st.disk[x]}
    BY <2>1 DEF Memories
  <2> HIDE DEF d
  <2>4. st'.data = st.data /\ st'.job = st.job /\ st'.disk = d /\ st'.missed = st.missed
    BY <2>1, <2>2 DEF Memories
  <2> QED BY <2>3, <2>4 DEF Sound
<1> QED BY <1>2, <1>3, <1>4

(* A build that has been everywhere has seen the content of the partition. *)
LEMMA SoundEndBuild ==
  ASSUME Good(st), Sound(st, Exact, Halfway), NEW j \in Job, EndBuild(j), Room
  PROVE  Sound(st', Exact, Halfway)
<1> DEFINE b == IF st.job[j].seen = {} THEN Null ELSE CHOOSE b \in Unused(st) : TRUE
           new == [st.job[j] EXCEPT !.done = TRUE, !.buf = b]
           jobs == [st.job EXCEPT ![j] = new]
           d == IF b = Null THEN st.data ELSE [st.data EXCEPT ![b] = st.job[j].seen]
           ms == IF b = Null THEN st.missed ELSE IF j \in st.missed THEN st.missed \cup {b} ELSE st.missed
<1>1. st \in Memories /\ st.job[j] # Null /\ st.job[j] \in Builds /\ st.job[j].todo = {}
  BY DEF Good, Fit, Memories, EndBuild, Running
<1>2. b # Null => b \in Buf
  <2>1. (CHOOSE c \in Unused(st) : TRUE) \in Unused(st)
    BY DEF Room, Roomy, Spacious
  <2> QED BY <2>1, UnusedIs
<1>3. st' = [st EXCEPT !.job = jobs, !.data = d, !.missed = ms]
  <2> DEFINE s == [st EXCEPT !.job[j].done = TRUE, !.job[j].buf = b]
  <2>1. s = [st EXCEPT !.job = jobs]
    <3> HIDE DEF b
    <3> QED BY <1>1 DEF Memories, Builds
  <2>2. st' = IF b = Null THEN s
              ELSE [s EXCEPT !.data[b] = st.job[j].seen, !.missed = IF j \in @ THEN @ \cup {b} ELSE @]
    BY DEF EndBuild
  <2> HIDE DEF b, s, jobs
  <2>3. s \in [map : {st.map}, data : {st.data}, file : {st.file}, dirty : {st.dirty}, leaked : {st.leaked},
               rivals : {st.rivals}, watch : {st.watch}, building : {st.building}, job : {jobs},
               disk : {st.disk}, missed : {st.missed}]
    BY <1>1, <2>1 DEF Memories
  <2> QED BY <1>1, <2>1, <2>2, <2>3 DEF Memories
<1> HIDE DEF b
<1>4. new.seen = st.job[j].seen /\ new.todo = st.job[j].todo
  BY <1>1 DEF Builds
<1> HIDE DEF new
<1>5. \A k \in Job : jobs[k] = IF k = j THEN new ELSE st.job[k]
  BY <1>1 DEF Memories
<1>6. \A c \in Buf : d[c] = IF c = b /\ b # Null THEN st.job[j].seen ELSE st.data[c]
  BY <1>1, <1>2 DEF Memories
<1>7. (\A y : y \notin ms => y \notin st.missed) /\ (b # Null /\ b \notin ms => j \notin st.missed)
  OBVIOUS
<1> HIDE DEF jobs, d, ms
<1>8. st'.data = d /\ st'.disk = st.disk /\ st'.job = jobs /\ st'.missed = ms
  BY <1>1, <1>3 DEF Memories
<1>9. j \notin st.missed => st.job[j].seen \in Exact
  <2> HAVE j \notin st.missed
  <2>1. <<st.job[j].seen, {}>> \in Halfway
    BY <1>1 DEF Sound
  <2> QED BY <2>1 DEF Halfway, Exact
<1> QED BY <1>1, <1>4, <1>5, <1>6, <1>7, <1>8, <1>9 DEF Sound

(* What a scan finds at the place of a file is what the edits that are     *)
(* still on their way will come to.                                        *)
LEMMA SoundScan ==
  ASSUME Good(st), Sound(st, Exact, Halfway), Latest, NEW j \in Job, NEW f \in File, Scan(j, f)
  PROVE  Sound(st', Exact, Halfway)
<1> DEFINE seen == st.job[j].seen
           todo == st.job[j].todo
           new == [st.job[j] EXCEPT !.todo = @ \ {f}, !.seen = @ \cup ({f} \cap content)]
           jobs == [st.job EXCEPT ![j] = new]
<1>1. st \in Memories /\ st.job[j] # Null /\ st.job[j] \in Builds /\ f \in todo
  BY DEF Good, Fit, Memories, Scan, Running
<1>2. st' = [st EXCEPT !.job = jobs]
  BY <1>1 DEF Scan, Memories, Builds
<1>3. new.todo = todo \ {f} /\ new.seen = seen \cup ({f} \cap content)
  BY <1>1 DEF Builds
<1>4. seen \in SUBSET File /\ todo \in SUBSET File
  BY <1>1 DEF Builds
<1> HIDE DEF new
<1>5. \A k \in Job : jobs[k] = IF k = j THEN new ELSE st.job[k]
  BY <1>1 DEF Memories
<1> HIDE DEF jobs
<1>6. st'.data = st.data /\ st'.disk = st.disk /\ st'.job = jobs /\ st'.missed = st.missed
  BY <1>1, <1>2 DEF Memories
<1>7. ASSUME j \notin st.missed
      PROVE  <<new.seen, new.todo>> \in Halfway
  <2>1. seen \cap todo = {} /\ Tells(seen, todo)
    BY <1>1, <1>7 DEF Sound, Halfway
  <2> HIDE DEF seen, todo
  <2>2. Tells(seen \cup ({f} \cap content), todo \ {f})
    <3> DEFINE now == seen \cup ({f} \cap content)
    <3> SUFFICES ASSUME NEW g \in File \ (todo \ {f})
                 PROVE  Settled(now, events, g) <=> g \in content
      BY DEF Tells
    <3>1. g = f => (g \in now <=> g \in content)
      BY <1>1, <2>1
    <3>2. g # f => (g \in now <=> g \in seen) /\ g \in File \ todo
      OBVIOUS
    <3> HIDE DEF now
    <3>3. CASE Named(events, g)
      <4>1. Settled({}, events, g) <=> g \in content
        BY <3>3 DEF Latest
      <4> QED BY <3>3, <4>1, SettledNamed
    <3>4. CASE ~ Named(events, g)
      <4>1. g # f => (Settled(seen, events, g) <=> g \in content)
        BY <2>1, <3>2 DEF Tells
      <4>2. Settled(now, events, g) <=> g \in now
        BY <3>4, SettledNamed
      <4>3. Settled(seen, events, g) <=> g \in seen
        BY <3>4, SettledNamed
      <4> QED BY <3>1, <3>2, <4>1, <4>2, <4>3
    <3> QED BY <3>3, <3>4
  <2> QED BY <1>3, <1>4, <2>1, <2>2 DEF Halfway
<1> QED BY <1>1, <1>5, <1>6, <1>7 DEF Sound

LEMMA SoundFinishJob ==
  ASSUME NEW G, NEW H, Good(st), Sound(st, G, H), NEW j \in Job, NEW failure \in Failures, FinishJob(j, failure)
  PROVE  Sound(st', G, H)
<1> DEFINE job == st.job[j]
           b == job.buf
           taken == IF b = Null THEN st
                    ELSE IF st.watch[Head(job.paths)] = Null \/ ~Allowable(job.auto, auto) THEN FreeBufs(st, {b})
                    ELSE Accept(st, job, b)
           t == Forget(taken, j)
<1>1. job # Null /\ job \in Builds /\ j \in Active(st) /\ job.paths # <<>> /\ st \in Memories
  <2>1. job # Null /\ job \in Builds /\ st \in Memories
    BY DEF FinishJob, Good, Fit, Memories
  <2>2. j \in Active(st)
    BY <2>1, ActiveIs
  <2> QED BY <2>1, <2>2 DEF Good, Started
<1>2. st' = SyncAll(t, failure) \/ st' = t
  <2> DEFINE v == With(taken, LAMBDA u : Forget(u, j))
  <2>1. st' = SyncAll(v, failure) \/ st' = v
    BY DEF FinishJob
  <2>2. v = t
    <3> HIDE DEF taken
    <3> QED BY DEF With
  <2> HIDE DEF v, t
  <2> QED BY <2>1, <2>2
<1>3. Fit(taken, Results(st) \ {b}) /\ SameBuilds(st, taken) /\ Sound(taken, G, H)
  <2>1. CASE b = Null
    <3>1. taken = st /\ Results(st) \ {b} = Results(st)
      BY <2>1 DEF Results
    <3> QED BY <3>1 DEF Good, SameBuilds
  <2>2. CASE b # Null
    <3>1. b \in Results(st) /\ Fit(st, Results(st)) /\ {b} \in SUBSET Buf
      BY <1>1, <2>2, ResultsIs DEF Good, Builds
    <3>2. Fit(FreeBufs(st, {b}), Results(st) \ {b}) /\ SameBuilds(st, FreeBufs(st, {b})) /\ Sound(FreeBufs(st, {b}), G, H)
      <4> HIDE DEF b
      <4> QED BY <1>1, <3>1, FreeResultFit, SoundFreeBufs
    <3>3. Fit(Accept(st, job, b), Results(st) \ {b}) /\ SameBuilds(st, Accept(st, job, b)) /\ Sound(Accept(st, job, b), G, H)
      <4> HIDE DEF b, job
      <4> QED BY <1>1, <3>1, AcceptFit, SoundAccept
    <3>4. taken \in {FreeBufs(st, {b}), Accept(st, job, b)}
      BY <2>2
    <3> HIDE DEF taken, b, job
    <3> QED BY <3>2, <3>3, <3>4
  <2> QED BY <2>1, <2>2
<1> HIDE DEF taken
<1>4. taken \in Memories
  BY <1>3 DEF Fit
<1>5. Good(t) /\ Sound(t, G, H)
  BY <1>1, <1>3, <1>4, ForgetGood, SoundForget
<1> HIDE DEF t
<1>6. Sound(SyncAll(t, failure), G, H)
  BY <1>5, SoundSyncAll DEF Good
<1> QED BY <1>2, <1>5, <1>6

-----------------------------------------------------------------------------
(* The steps in which an edit comes, is handed over or is lost.            *)
LEMMA EditIs ==
  ASSUME NEW e \in Edit, NEW f \in File, NEW d
  PROVE  /\ e.op # "rename" => (f \in Applied(d, e) <=> IF Names(e, f) THEN Creates(e, f) ELSE f \in d)
         /\ e.op = "rename" /\ {e.file, e.to} \cap d # {} =>
              (f \in Applied(d, e) <=> IF Names(e, f) THEN Creates(e, f) ELSE f \in d)
<1>1. Null \notin File
  BY ManagerAssumptions
<1>2. CASE e \in [op : {"insert", "remove"}, file : File, to : {Null}]
  <2>1. e.to = Null /\ e.op \in {"insert", "remove"} /\ e.op # "rename" /\ f # Null
    BY <1>1, <1>2
  <2>2. Names(e, f) <=> f = e.file
    BY <2>1 DEF Names
  <2>3. CASE e.op = "insert"
    <3>1. Applied(d, e) = d \cup {e.file}
      BY <2>3 DEF Applied
    <3> QED BY <2>2, <2>3, <3>1 DEF Creates
  <2>4. CASE e.op = "remove"
    <3>1. Applied(d, e) = d \ {e.file}
      BY <2>4 DEF Applied
    <3> QED BY <2>2, <2>4, <3>1 DEF Creates
  <2> QED BY <2>1, <2>3, <2>4
<1>3. CASE e \in [op : {"rename"}, file : File, to : File]
  <2>1. Applied(d, e) = IF e.file \in d THEN (d \ {e.file}) \cup {e.to} ELSE d
    BY <1>3 DEF Applied
  <2>2. e.op = "rename" /\ e.op # "insert"
    BY <1>3
  <2> QED BY <2>1, <2>2 DEF Names, Creates
<1> QED BY <1>2, <1>3 DEF Edit

LEMMA EditOf ==
  ASSUME NEW e \in Edits, content \subseteq File, NEW f \in File
  PROVE  f \in Applied(content, e) <=> IF Names(e, f) THEN Creates(e, f) ELSE f \in content
<1>1. e \in Edit
  BY EditType
<1>2. e.op = "rename" => {e.file, e.to} \cap content # {}
  BY DEF Edits
<1> QED BY <1>1, <1>2, EditIs

(* An edit that comes changes the content and what is on its way alike.    *)
LEMMA Arrives ==
  ASSUME IInv, NEW e \in Edits, NEW n, n = [at |-> Head(mounts), edit |-> e],
         events' = Append(events, n), content' = Applied(content, e), mounts # <<>>
  PROVE  /\ \A d, todo : Tells(d, todo) => Tells(d, todo)'
         /\ Latest => Latest'
<1>1. content \subseteq File /\ n \in [at : MountPoint, edit : Edit] /\ n.edit = e
  <2>1. content \subseteq File /\ mounts \in Seq(MountPoint)
    BY DEF IInv, Bounds
  <2>2. e \in Edit /\ Head(mounts) \in MountPoint
    BY <2>1, EditType
  <2> QED BY <2>1, <2>2
<1> DEFINE E == [at : MountPoint, edit : Edit]
<1>2. events \in Seq(E) /\ n \in E
  BY <1>1 DEF IInv, Coming
<1> HIDE DEF E
<1>3. \A d : \A f \in File :
        /\ Settled(d, events', f) <=> IF Names(e, f) THEN Creates(e, f) ELSE Settled(d, events, f)
        /\ Named(events', f) <=> Names(e, f) \/ Named(events, f)
  BY <1>1, <1>2, SettledAppend
<1>4. \A f \in File : f \in content' <=> IF Names(e, f) THEN Creates(e, f) ELSE f \in content
  BY <1>1, EditOf
<1>5. \A d, todo : Tells(d, todo) => Tells(d, todo)'
  BY <1>3, <1>4 DEF Tells
<1>6. Latest => Latest'
  BY <1>3, <1>4 DEF Latest
<1> QED BY <1>5, <1>6

LEMMA SoundMore ==
  ASSUME NEW s, NEW G, NEW H, NEW G2, NEW H2, Sound(s, G, H), G \subseteq G2, H \subseteq H2
  PROVE  Sound(s, G2, H2)
BY DEF Sound

LEMMA OperateKeeps ==
  ASSUME IInv, EInv, NEW e \in Edits, Operate(e)
  PROVE  Sound(st', Exact', Halfway') /\ Latest'
<1>1. st \in Memories /\ Sound(st, Exact, Halfway) /\ Latest /\ Down
  BY DEF IInv, Good, Fit, EInv
<1>2. CASE alive
  <2>1. st' = st /\ events' = Append(events, [at |-> Head(mounts), edit |-> e])
    BY <1>2 DEF Operate
  <2>2. (\A d, todo : Tells(d, todo) => Tells(d, todo)') /\ (Latest => Latest')
    BY <2>1, Arrives DEF Operate
  <2>3. Exact \subseteq Exact' /\ Halfway \subseteq Halfway'
    BY <2>2 DEF Exact, Halfway
  <2>4. Sound(st, Exact', Halfway')
    BY <1>1, <2>3, SoundMore
  <2> QED BY <1>1, <2>1, <2>2, <2>4
<1>3. CASE ~ alive
  <2> DEFINE m == st.missed \cup Suffix
  <2>1. st' = [st EXCEPT !.missed = m] /\ events' = events
    BY <1>3 DEF Operate
  <2>2. \A x \in Suffix : x \in m
    OBVIOUS
  <2> HIDE DEF m
  <2>3. st'.data = st.data /\ st'.disk = st.disk /\ st'.job = st.job /\ st'.missed = m
    BY <1>1, <2>1 DEF Memories
  <2>4. events = <<>> /\ (\A b \in Buf : st.data[b] = Null) /\ \A j \in Job : st.job[j] = Null
    BY <1>1, <1>3 DEF Down
  <2>5. Sound(st', Exact', Halfway')
    BY <2>2, <2>3, <2>4 DEF Sound
  <2>6. Latest'
    BY <2>1, <2>4, SettledNone DEF Latest
  <2> QED BY <2>5, <2>6
<1> QED BY <1>2, <1>3

LEMMA ReplugKeeps ==
  ASSUME IInv, NEW p, Replug(p)
  PROVE  Sound(st', Exact', Halfway') /\ Latest'
<1> DEFINE m == Suffix \cup Allocated(st) \cup Active(st)
<1>1. st \in Memories
  BY DEF IInv, Good, Fit
<1>2. st' = [st EXCEPT !.missed = m]
  BY DEF Replug
<1>3. /\ \A x \in Suffix : x \in m
      /\ \A b \in Buf : st.data[b] # Null => b \in m
      /\ \A j \in Job : st.job[j] # Null => j \in m
  BY DEF Allocated, Active
<1> HIDE DEF m
<1>4. st'.data = st.data /\ st'.disk = st.disk /\ st'.job = st.job /\ st'.missed = m
  BY <1>1, <1>2 DEF Memories
<1>5. events' = <<>>
  BY DEF Replug
<1> QED BY <1>3, <1>4, <1>5, SettledNone DEF Sound, Latest

(* An edit that is handed over changes the buffer of its mount point and   *)
(* what is on its way alike; what it does not change, and was not to be    *)
(* changed by it, it has passed by.                                        *)
LEMMA Departs ==
  ASSUME IInv, Latest, HandleEvent, NEW e, e = Head(events).edit
  PROVE  /\ e \in Edit
         /\ \A d \in Exact : e.op # "rename" \/ {e.file, e.to} \cap d # {} => Applied(d, e) \in Exact'
         /\ \A h \in Halfway : {e.file, e.to} \ {Null} \subseteq h[2] => h \in Halfway'
         /\ Latest'
<1> DEFINE E == [at : MountPoint, edit : Edit]
<1>1. events # <<>> /\ events \in Seq(E) /\ events' = Tail(events) /\ content' = content
  BY DEF HandleEvent, IInv, Coming
<1>2. e \in Edit
  <2>1. Head(events) \in [at : MountPoint, edit : Edit]
    BY <1>1, HeadIsIn
  <2> QED BY <2>1
<1> HIDE DEF E
<1>3. \A d, c : \A f \in File :
        (f \in c <=> IF Names(e, f) THEN Creates(e, f) ELSE f \in d) =>
          /\ Settled(c, events', f) <=> Settled(d, events, f)
          /\ Named(events', f) => Named(events, f)
  BY <1>1, SettledTail
<1>4. ASSUME NEW d \in Exact, e.op # "rename" \/ {e.file, e.to} \cap d # {}
      PROVE  Applied(d, e) \in Exact'
  <2>1. d \in SUBSET File /\ Tells(d, {})
    BY DEF Exact
  <2>2. Applied(d, e) \in SUBSET File
    BY <1>2, <2>1, AppliedType
  <2>3. \A f \in File : f \in Applied(d, e) <=> IF Names(e, f) THEN Creates(e, f) ELSE f \in d
    BY <1>2, <1>4, EditIs
  <2>4. Tells(Applied(d, e), {})'
    BY <1>1, <1>3, <2>1, <2>3 DEF Tells
  <2> QED BY <2>2, <2>4 DEF Exact
<1>5. ASSUME NEW h \in Halfway, {e.file, e.to} \ {Null} \subseteq h[2]
      PROVE  h \in Halfway'
  <2>1. h \in (SUBSET File) \X (SUBSET File) /\ h[1] \cap h[2] = {} /\ Tells(h[1], h[2])
    BY DEF Halfway
  <2>2. \A f \in File \ h[2] : ~ Names(e, f)
    BY <1>5, ManagerAssumptions DEF Names
  <2>3. Tells(h[1], h[2])'
    BY <1>1, <1>3, <2>1, <2>2 DEF Tells
  <2> QED BY <2>1, <2>3 DEF Halfway
<1>6. Latest'
  <2> SUFFICES ASSUME NEW f \in File, Named(events', f)
               PROVE  Settled({}, events', f) <=> f \in content'
    BY DEF Latest
  <2> DEFINE c == IF Names(e, f) /\ Creates(e, f) THEN {f} ELSE {}
  <2>1. Settled(c, events', f) <=> Settled({}, events, f)
    <3>1. f \in c <=> IF Names(e, f) THEN Creates(e, f) ELSE f \in {}
      OBVIOUS
    <3> HIDE DEF c
    <3> QED BY <1>3, <3>1
  <2>2. Settled(c, events', f) <=> Settled({}, events', f)
    BY SettledNamed
  <2>3. Named(events, f)
    <3>1. f \in c <=> IF Names(e, f) THEN Creates(e, f) ELSE f \in {}
      OBVIOUS
    <3> HIDE DEF c
    <3> QED BY <1>3, <3>1
  <2> QED BY <1>1, <2>1, <2>2, <2>3 DEF Latest
<1> QED BY <1>2, <1>4, <1>5, <1>6

LEMMA HandleEventKeeps ==
  ASSUME IInv, EInv, HandleEvent
  PROVE  Sound(st', Exact', Halfway') /\ Latest'
<1> DEFINE e == Head(events).edit
           b == getFsBufByPath(Head(events).at)
           ms == st.missed \cup PassedBy(b, e)
           s == [st EXCEPT !.missed = ms]
           d == Applied(st.data[b], e)
           c == [st.data EXCEPT ![b] = d]
           ds == s.dirty \cup {b}
           t == [s EXCEPT !.data = c, !.dirty = ds]
<1>1. st \in Memories /\ Good(st) /\ Sound(st, Exact, Halfway) /\ Latest
  BY DEF IInv, Good, Fit, EInv
<1>2. /\ e \in Edit
      /\ \A y \in Exact : e.op # "rename" \/ {e.file, e.to} \cap y # {} => Applied(y, e) \in Exact'
      /\ \A h \in Halfway : {e.file, e.to} \ {Null} \subseteq h[2] => h \in Halfway'
      /\ Latest'
  BY <1>1, Departs
<1>3. b \in Buf \cup {Null} /\ (b # Null => b \in Mapped(st))
  <2>1. Head(events) \in [at : MountPoint, edit : Edit]
    BY HeadIsIn DEF HandleEvent, IInv, Coming
  <2> QED BY <1>1, <2>1 DEF getFsBufByPath, Memories, Mapped
<1>4. b # Null => st.data[b] # Null
  BY <1>1, <1>3 DEF Good, Fit, Kept
<1>5. s.data = st.data
  BY <1>1 DEF Memories
<1>6. st' = IF b = Null \/ d = st.data[b] THEN s ELSE [s EXCEPT !.data[b] = d, !.dirty = @ \cup {b}]
  <2>1. st' = IF b = Null \/ Applied(s.data[b], e) = s.data[b] THEN s
              ELSE [s EXCEPT !.data[b] = Applied(@, e), !.dirty = @ \cup {b}]
    BY DEF HandleEvent
  <2> QED BY <1>5, <2>1
<1> DEFINE sourceless == b # Null /\ e.op = "rename" /\ {e.file, e.to} \cap st.data[b] = {}
<1>7. /\ \A y : y \notin ms => y \notin st.missed
      /\ \A y \in Buf : y \notin ms /\ st.data[y] # Null => y = b /\ ~ sourceless
      /\ \A j \in Job : j \notin ms /\ st.job[j] # Null => {e.file, e.to} \ {Null} \subseteq st.job[j].todo
      /\ \A x \in Suffix : x \notin ms => b # Null /\ b \notin st.missed /\ ~ sourceless /\ st.disk[x] = d
  BY DEF PassedBy, Allocated, Active
<1> HIDE DEF ms, e, b, d
<1>8. s.disk = st.disk /\ s.job = st.job /\ s.missed = ms /\ s.dirty = st.dirty
  BY <1>1 DEF Memories
<1>9. st' = IF b = Null \/ d = st.data[b] THEN s ELSE t
  BY <1>5, <1>6
<1>10. \A y \in Buf : b # Null => c[y] = IF y = b THEN d ELSE st.data[y]
  BY <1>1, <1>3 DEF Memories
<1>11. s \in [map : {st.map}, data : {st.data}, file : {st.file}, dirty : {st.dirty}, leaked : {st.leaked},
              rivals : {st.rivals}, watch : {st.watch}, building : {st.building}, job : {st.job},
              disk : {st.disk}, missed : {ms}]
  BY <1>1 DEF Memories
<1> HIDE DEF s, c, ds
<1>12. t.data = c /\ t.disk = st.disk /\ t.job = st.job /\ t.missed = ms
  BY <1>11
<1> HIDE DEF t
<1>13. st'.disk = st.disk /\ st'.job = st.job /\ st'.missed = ms
  BY <1>8, <1>9, <1>12
<1>14. \A y \in Buf : st'.data[y] = IF b # Null /\ y = b THEN d ELSE st.data[y]
  BY <1>5, <1>9, <1>10, <1>12
<1>15. b # Null /\ b \notin st.missed /\ ~ sourceless => d \in Exact'
  <2> HAVE b # Null /\ b \notin st.missed /\ ~ sourceless
  <2>1. b \in Buf /\ st.data[b] \in Exact
    BY <1>1, <1>3, <1>4 DEF Sound
  <2> QED BY <1>2, <2>1 DEF d
<1> HIDE DEF sourceless
<1>16. \A y \in Buf : st'.data[y] # Null /\ y \notin ms => st'.data[y] \in Exact'
  <2> TAKE y \in Buf
  <2> HAVE st'.data[y] # Null /\ y \notin ms
  <2>1. CASE b # Null /\ y = b
    BY <1>4, <1>7, <1>14, <1>15, <2>1
  <2>2. CASE ~ (b # Null /\ y = b)
    BY <1>3, <1>7, <1>14, <2>2, ManagerAssumptions
  <2> QED BY <2>1, <2>2
<1>17. \A x \in Suffix : x \notin ms => st.disk[x] \in Exact'
  BY <1>7, <1>15
<1>18. \A j \in Job : st.job[j] # Null /\ j \notin ms => <<st.job[j].seen, st.job[j].todo>> \in Halfway'
  <2> TAKE j \in Job
  <2> HAVE st.job[j] # Null /\ j \notin ms
  <2>1. <<st.job[j].seen, st.job[j].todo>> \in Halfway
    BY <1>1, <1>7 DEF Sound
  <2>2. {e.file, e.to} \ {Null} \subseteq st.job[j].todo
    BY <1>7
  <2> QED BY <1>2, <2>1, <2>2
<1> QED BY <1>2, <1>13, <1>16, <1>17, <1>18 DEF Sound

LEMMA EndKeeps ==
  ASSUME NEW s, End(s), UNCHANGED content, \A x \in Suffix : x \notin s.missed => s.disk[x] \in Exact \cup {Absent, Broken}
  PROVE  Sound(st', Exact', Halfway') /\ Latest'
<1> DEFINE m == (s.missed \cap Suffix) \cup (IF events = <<>> THEN {} ELSE Suffix)
<1>1. st' = Memory(s.disk, m) /\ events' = <<>> /\ content' = content
  BY DEF End
<1>2. \A x \in Suffix : x \notin m => x \notin s.missed /\ events = <<>>
  OBVIOUS
<1>3. events = <<>> => Exact' = Exact
  BY <1>1 DEF Exact, Tells
<1> HIDE DEF m
<1>4. \A x \in Suffix : x \notin m => s.disk[x] \in Exact' \cup {Absent, Broken}
  BY <1>2, <1>3
<1>5. Sound(Memory(s.disk, m), Exact', Halfway')
  BY <1>4, SoundMemory
<1> QED BY <1>1, <1>5, SettledNone DEF Latest

LEMMA EndsKeep ==
  ASSUME IInv, EInv, NEW torn,
         Quit \/ Crash(torn) \/ (SetAutoIndexInternal /\ auto /\ CleanAllCrashes(st))
  PROVE  Sound(st', Exact', Halfway') /\ Latest'
<1>1. st \in Memories /\ Good(st) /\ Sound(st, Exact, Halfway)
  BY DEF IInv, Good, Fit, EInv
<1>2. CASE Quit
  <2>1. End(st) /\ UNCHANGED content
    BY <1>2 DEF Quit
  <2> QED BY <1>1, <2>1, EndKeeps DEF Sound
<1>3. CASE Crash(torn)
  <2> DEFINE d == Put(st.disk, {torn} \ {Null}, Broken)
             s == [st EXCEPT !.disk = d]
  <2>1. \A x \in Suffix : d[x] \in {Broken, st.disk[x]}
    BY <1>1 DEF Put, Memories
  <2>2. End(s) /\ UNCHANGED content
    BY <1>3 DEF Crash
  <2> HIDE DEF d
  <2>3. s.disk = d /\ s.missed = st.missed
    BY <1>1 DEF Memories
  <2> HIDE DEF s
  <2>4. \A x \in Suffix : x \notin s.missed => s.disk[x] \in Exact \cup {Absent, Broken}
    BY <1>1, <2>1, <2>3 DEF Sound
  <2> QED BY <2>2, <2>4, EndKeeps
<1>4. CASE SetAutoIndexInternal /\ auto /\ CleanAllCrashes(st)
  <2>1. Sound(RemoveBuf(st, NotAllowed(st), TRUE), Exact, Halfway)
    BY <1>1, SoundCleanAllIndex
  <2>2. End(RemoveBuf(st, NotAllowed(st), TRUE)) /\ UNCHANGED content
    BY <1>4 DEF SetAutoIndexInternal
  <2> QED BY <2>1, <2>2, EndKeeps DEF Sound
<1> QED BY <1>2, <1>3, <1>4

(* Every other step leaves the content and the edits on their way alone.   *)
LEMMA QuietKeeps ==
  ASSUME UNCHANGED <<content, events>>, EInv, Sound(st', Exact, Halfway)
  PROVE  Sound(st', Exact', Halfway') /\ Latest'
BY DEF Exact, Halfway, Tells, Latest, EInv

LEMMA SoundNext ==
  ASSUME IInv, EInv, Room, Next
  PROVE  Sound(st', Exact', Halfway') /\ Latest'
<1>1. /\ Good(st) /\ Roomy(st) /\ mounts \in Seq(MountPoint) /\ Coming
      /\ Sound(st, Exact, Halfway) /\ Latest /\ <<{}, File>> \in Halfway
  BY FreshIsHalfway DEF IInv, Room, Bounds, EInv
<1>2. ASSUME NEW e \in Edits, Operate(e) PROVE Sound(st', Exact', Halfway') /\ Latest'
  BY <1>2, OperateKeeps
<1>3. ASSUME NEW p, Replug(p) PROVE Sound(st', Exact', Halfway') /\ Latest'
  BY <1>3, ReplugKeeps
<1>4. ASSUME NEW p, Mount(p) \/ Unmount(p) \/ Restart PROVE Sound(st', Exact', Halfway') /\ Latest'
  <2>1. st' = st /\ UNCHANGED <<content, events>>
    BY <1>4 DEF Mount, Unmount, Restart
  <2> QED BY <1>1, <2>1, QuietKeeps
<1>5. ASSUME NEW p \in MountPoint, NEW order \in Order,
             CallAddPath(p) \/ CallCancelBuild(p) \/ CallSync(p) \/ CallRemovePath(p, order) \/ CallRefresh(order)
      PROVE  Sound(st', Exact', Halfway') /\ Latest'
  <2>1. UNCHANGED <<content, events>>
    BY <1>5 DEF CallAddPath, CallCancelBuild, CallSync, CallRemovePath, CallRefresh, Method
  <2>2. Sound(st', Exact, Halfway)
    BY <1>1, <1>5, SoundCall
  <2> QED BY <2>1, <2>2, QuietKeeps
<1>6. ASSUME NEW order \in Order, NEW failure \in Failures,
             RefreshTimer(order) \/ IndexAllDelay \/ SyncTimer(failure)
      PROVE  Sound(st', Exact', Halfway') /\ Latest'
  <2>1. UNCHANGED <<content, events>>
    BY <1>6 DEF RefreshTimer, IndexAllDelay, SyncTimer
  <2>2. Sound(st', Exact, Halfway)
    BY <1>1, <1>6, SoundTimer
  <2> QED BY <2>1, <2>2, QuietKeeps
<1>7. ASSUME NEW order \in Order, NEW failure \in Failures,
             HandleMounted(order) \/ HandleUnmounted(failure) \/ HandlePlugged
      PROVE  Sound(st', Exact', Halfway') /\ Latest'
  <2>1. UNCHANGED <<content, events>>
    BY <1>7 DEF HandleMounted, HandleUnmounted, HandlePlugged
  <2>2. Sound(st', Exact, Halfway)
    BY <1>1, <1>7, SoundSignal
  <2> QED BY <2>1, <2>2, QuietKeeps
<1>8. ASSUME NEW j \in Job, NEW failure \in Failures, EndBuild(j) \/ FinishJob(j, failure)
      PROVE  Sound(st', Exact', Halfway') /\ Latest'
  <2>1. UNCHANGED <<content, events>>
    BY <1>8 DEF EndBuild, FinishJob
  <2>2. Sound(st', Exact, Halfway)
    BY <1>1, <1>8, SoundEndBuild, SoundFinishJob
  <2> QED BY <2>1, <2>2, QuietKeeps
<1>9. ASSUME NEW j \in Job, NEW f \in File, Scan(j, f) PROVE Sound(st', Exact', Halfway') /\ Latest'
  <2>1. UNCHANGED <<content, events>>
    BY <1>9 DEF Scan
  <2>2. Sound(st', Exact, Halfway)
    BY <1>1, <1>9, SoundScan
  <2> QED BY <2>1, <2>2, QuietKeeps
<1>10. ASSUME NEW torn, Quit \/ Crash(torn)
       PROVE  Sound(st', Exact', Halfway') /\ Latest'
  BY <1>10, EndsKeep
<1>11. CASE HandleEvent
  BY <1>11, HandleEventKeeps
<1>12. CASE SetAutoIndexInternal
  <2>1. CASE auto /\ CleanAllCrashes(st)
    BY <1>12, <2>1, EndsKeep
  <2>2. CASE ~ (auto /\ CleanAllCrashes(st))
    <3>1. UNCHANGED <<content, events>> /\ st' \in {CleanAllIndex(st), IndexAll(st, FALSE, TRUE)}
      BY <1>12, <2>2 DEF SetAutoIndexInternal
    <3>2. Sound(CleanAllIndex(st), Exact, Halfway)
      BY <1>1, SoundCleanAllIndex
    <3>3. Sound(IndexAll(st, FALSE, TRUE), Exact, Halfway)
      BY <1>1, SoundIndexAll DEF Good, Fit, Roomy
    <3> QED BY <3>1, <3>2, <3>3, QuietKeeps
  <2> QED BY <2>1, <2>2
<1>13. MountPoint # {} /\ Order # {} /\ Failures # {}
  BY ManagerAssumptions DEF Order, Failures
<1> QED BY <1>2, <1>3, <1>4, <1>5, <1>6, <1>7, <1>8, <1>9, <1>10, <1>11, <1>12, <1>13 DEF Next

LEMMA DownNext ==
  ASSUME IInv, EInv, Room, Next
  PROVE  Down'
<1>1. Down /\ st \in Memories
  BY DEF EInv, IInv, Good, Fit
<1>2. ASSUME NEW s, End(s) PROVE Down'
  <2>1. \A d, m : Memory(d, m).data = [b \in Buf |-> Null] /\ Memory(d, m).job = [j \in Job |-> Null]
    BY DEF Memory
  <2> QED BY <1>2, <2>1 DEF End, Down
<1>3. CASE alive' = TRUE
  BY <1>3 DEF Down
<1>4. CASE alive /\ alive' = alive
  BY <1>4 DEF Down
<1>5. ASSUME ~ alive PROVE Down'
  <2>1. /\ events = <<>> /\ signals = <<>> /\ due = {}
        /\ (\A b \in Buf : st.data[b] = Null) /\ \A j \in Job : st.job[j] = Null
    BY <1>1, <1>5 DEF Down
  <2>2. ASSUME NEW e, NEW p, Operate(e) \/ Replug(p) PROVE Down'
    <3>1. PICK m : st' = [st EXCEPT !.missed = m]
      BY <1>5, <2>2 DEF Operate, Replug
    <3>2. st'.data = st.data /\ st'.job = st.job
      BY <1>1, <3>1 DEF Memories
    <3> QED BY <1>5, <2>1, <2>2, <3>2 DEF Operate, Replug, Signal, Down
  <2>3. ASSUME NEW p, Mount(p) \/ Unmount(p) PROVE Down'
    BY <1>5, <2>1, <2>3 DEF Mount, Unmount, Signal, Down
  <2>4. CASE Restart
    BY <2>4 DEF Restart, Down
  <2>5. ASSUME NEW p, NEW order, NEW failure, NEW torn
        PROVE  /\ ~ (CallAddPath(p) \/ CallCancelBuild(p) \/ CallSync(p) \/ CallRemovePath(p, order) \/ CallRefresh(order))
               /\ ~ (RefreshTimer(order) \/ IndexAllDelay \/ SyncTimer(failure))
               /\ ~ (HandleMounted(order) \/ HandleUnmounted(failure) \/ HandlePlugged \/ HandleEvent)
               /\ ~ (Quit \/ Crash(torn) \/ SetAutoIndexInternal)
    BY <1>5, <2>1
    DEF CallAddPath, CallCancelBuild, CallSync, CallRemovePath, CallRefresh, Method, RefreshTimer, IndexAllDelay,
        SyncTimer, HandleMounted, HandleUnmounted, HandlePlugged, HandleEvent, Quit, Crash, SetAutoIndexInternal
  <2>6. ASSUME NEW j \in Job, NEW f, NEW failure
        PROVE  ~ (EndBuild(j) \/ Scan(j, f) \/ FinishJob(j, failure))
    BY <2>1 DEF EndBuild, Scan, Running, FinishJob
  <2> QED BY <2>2, <2>3, <2>4, <2>5, <2>6 DEF Next
<1>6. ASSUME NEW torn, Quit \/ Crash(torn) PROVE Down'
  BY <1>2, <1>6 DEF Quit, Crash
<1>7. CASE SetAutoIndexInternal
  <2>1. CASE auto /\ CleanAllCrashes(st)
    BY <1>2, <1>7, <2>1 DEF SetAutoIndexInternal
  <2>2. CASE ~ (auto /\ CleanAllCrashes(st))
    BY <1>4, <1>5, <1>7, <2>2 DEF SetAutoIndexInternal
  <2> QED BY <2>1, <2>2
<1>8. CASE Restart
  BY <1>3, <1>8 DEF Restart
<1>9. (alive' = alive /\ ~ (~ alive)) => Down'
  BY <1>4
<1> QED
  BY <1>5, <1>6, <1>7, <1>8, <1>9
  DEF Next, Operate, Mount, Unmount, Replug, CallAddPath, CallCancelBuild, CallSync, CallRemovePath, CallRefresh,
      Method, RefreshTimer, HandleMounted, EndBuild, Scan, SyncTimer, HandleUnmounted, FinishJob, HandleEvent,
      HandlePlugged, IndexAllDelay

LEMMA InitEInv ==
  ASSUME Init
  PROVE  EInv
<1> DEFINE d == [x \in Suffix |-> IF x = "LFT" THEN InitDisk ELSE Absent]
           m == IF InitDisk = InitContent THEN {} ELSE Suffix
<1>1. st = Memory(d, m) /\ events = <<>> /\ content = InitContent /\ InitContent \subseteq File
  BY ManagerAssumptions DEF Init
<1>2. InitContent \in Exact
  BY <1>1, SettledNone DEF Exact, Tells
<1>3. \A x \in Suffix : x \notin m => d[x] \in Exact \cup {Absent, Broken}
  BY <1>2
<1> HIDE DEF d, m
<1>4. Sound(st, Exact, Halfway)
  BY <1>1, <1>3, SoundMemory
<1>5. Latest
  BY <1>1, SettledNone DEF Latest
<1>6. Down
  BY DEF Init, Down
<1> QED BY <1>4, <1>5, <1>6 DEF EInv

LEMMA NextEInv ==
  ASSUME IInv, EInv, Room, [Next]_vars
  PROVE  EInv'
<1>1. CASE Next
  BY <1>1, SoundNext, DownNext DEF EInv
<1>2. CASE UNCHANGED vars
  BY <1>2 DEF vars, EInv, Sound, Latest, Down, Exact, Halfway, Tells
<1> QED BY <1>1, <1>2

(* EInv is an invariant: what no edit has passed by in the memory or on    *)
(* the disk becomes the content of the partition when the edits on their   *)
(* way are handed over, and a build that is under way will, whatever is    *)
(* loaded, saved, cancelled, unmounted or lost in a crash meanwhile.       *)
THEOREM IndexInvariance == Spec /\ []Room => []EInv
<1>1. Init => EInv
  BY InitEInv
<1>2. IInv /\ EInv /\ Room /\ [Next]_vars => EInv'
  BY NextEInv
<1> QED BY <1>1, <1>2, ManagerInvariance, PTL DEF Spec

LEMMA EInvExact ==
  ASSUME IInv, EInv
  PROVE  IndexExact
<1> SUFFICES ASSUME events = <<>>, NEW p \in ToSet(mounts), st.map[p] # Null, st.map[p] \notin st.missed
             PROVE  st.data[st.map[p]] = content
  BY DEF IndexExact
<1> DEFINE b == st.map[p]
<1>1. p \in MountPoint /\ st \in Memories /\ content \subseteq File
  BY ToSetType DEF IInv, Bounds, Good, Fit
<1>2. b \in Buf /\ b \in Mapped(st)
  BY <1>1 DEF Memories, Mapped
<1>3. st.data[b] # Null
  BY <1>2 DEF IInv, Good, Fit, Kept
<1>4. st.data[b] \in Exact
  BY <1>2, <1>3 DEF EInv, Sound
<1>5. \A f \in File : f \in st.data[b] <=> f \in content
  BY <1>4, SettledNone DEF Exact, Tells
<1>6. st.data[b] \subseteq File
  BY <1>4 DEF Exact
<1> QED BY <1>1, <1>5, <1>6

(* Through builds, reloads, crashes, remounts and edits in whatever order, *)
(* an index that no edit has passed by is, once every edit was handed      *)
(* over, the content of the partition.                                     *)
THEOREM IndexIsExact == Spec /\ []Room => []IndexExact
<1>1. IInv /\ EInv => IndexExact
  BY EInvExact
<1> QED BY <1>1, ManagerInvariance, IndexInvariance, PTL
=============================================================================
